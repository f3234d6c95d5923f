------------------------------ MODULE VacuumCtl ------------------------------
(***************************************************************************)
(* The vacuum family of ControllerBase (VacuumCtl.h / VacuumCtl.cpp): its  *)
(* function ids, the directives polled per device, and where the decoder   *)
(* takes the function id of a response from.  Also the byte-level codec:  *)
(* encode_data, decode_data, find_device and the setters of VacuumData,   *)
(* over the hex helpers of CoolerCtl.                                      *)
(***************************************************************************)
EXTENDS CoolerCtl

\* enum VacuumFuncID
VFID_RESET     == 7    \* 0x07
VFID_READ_CUR  == 10   \* 0x0A
VFID_READ_PRES == 11   \* 0x0B
VFID_READ_VOL  == 12   \* 0x0C

\* The poll set appended by VacuumCtl::generate_directive for each device.
VACUUM_MONITOR == <<VFID_READ_CUR, VFID_READ_PRES, VFID_READ_VOL>>

\* VacuumCtl::decode_data: the response carries no function id; it is
\* taken from the directive at the head of drct_ (drct_.front().idf).
\* Only called with a non-empty queue; the caller handles the empty case.
VacuumFrameFunc(frameFunc, queue) == Head(queue).func


\* The frame markers VacuumCtl's constructor sets: no head, tail_ "\r".
VacuumHead == <<>>
VacuumTail == <<13>>

-----------------------------------------------------------------------------
\* VacuumCtl::encode_data: '~', then " id func ", the 8-bit LRC of every
\* byte after the '~' and CR.  The value Write formats is not encoded.
VacuumEncode(idd, idf) ==
  LET body == <<32>> \o HexPair(idd) \o <<32>> \o HexPair(idf) \o <<32>>
  IN  <<126>> \o body \o HexPair(LRC(body)) \o <<13>>

\* Mutation of VacuumDecode: the pairs are taken from offset 5.
VacuumDecodeShifted(frame, headFunc) ==
  IF Len(frame) < 12 THEN [rc |-> -1]
  ELSE [rc     |-> 0,
        idd    |-> decode_uint8(frame[1], frame[2]),
        idf    |-> headFunc,
        strval |-> [k \in 1..((Len(frame) - 11) \div 2 + 1) |->
                      decode_uint8(frame[4 + 2 * k], frame[5 + 2 * k])]]

\* VacuumCtl::decode_data on bufrcv_ = frame (frame[k+1] is ptr[k]): rc -1
\* below 12 bytes; else the id from ptr[0..1], the function of the head
\* directive, and the hex pairs from offset 6 up to offset len - 5 as
\* characters.
VacuumDecode(frame, headFunc) ==
  IF Len(frame) < 12 THEN [rc |-> -1]
  ELSE [rc     |-> 0,
        idd    |-> decode_uint8(frame[1], frame[2]),
        idf    |-> headFunc,
        strval |-> [k \in 1..((Len(frame) - 11) \div 2 + 1) |->
                      decode_uint8(frame[5 + 2 * k], frame[6 + 2 * k])]]

\* VacuumCtl::find_device: the index of idd in data_, 0 for NULL.
find_device(idd, ids) == SelectInSeq(ids, LAMBDA x : x = idd)

\* The VacuumData setter decode_data calls for a function, "none" if none.
VacuumSetter(idf) ==
  CASE idf = VFID_READ_CUR  -> "cur"
    [] idf = VFID_READ_VOL  -> "vol"
    [] idf = VFID_READ_PRES -> "pres"
    [] OTHER                -> "none"

\* decode_data's store into the record of the decoded id: set_pressure
\* keeps the text, set_current and set_voltage take atof of it.
VacuumStore(r, ids) ==
  LET dev == find_device(r.idd, ids)
      fld == IF dev = 0 THEN "none" ELSE VacuumSetter(r.idf)
  IN  [dev   |-> dev,
       field |-> fld,
       value |-> IF fld = "pres" THEN r.strval
                 ELSE IF fld = "none" THEN <<>> ELSE AtofTenths(r.strval)]
=============================================================================
