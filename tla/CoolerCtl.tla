------------------------------ MODULE CoolerCtl ------------------------------
(***************************************************************************)
(* The cooler family of ControllerBase (CoolerCtl.h / CoolerCtl.cpp):      *)
(* its function ids, the directives polled per device, and where the       *)
(* decoder takes the function id of a response from.                       *)
(* Also the byte-level codec: encode_data (ASCII-hex frame with LRC),     *)
(* decode_data, ControllerBase::decode_uint8 and the "%d" / "%.1f"         *)
(* formatting of Write's value.  Bytes are their ASCII codes; a double    *)
(* with one decimal is its value in tenths.                                *)
(***************************************************************************)
EXTENDS Integers, Sequences, SequencesExt

\* enum CoolerFuncID
CFID_READ_VOL      == 33   \* 0x21
CFID_READ_CUR      == 34   \* 0x22
CFID_READ_T1       == 35   \* 0x23, cold end (detector)
CFID_READ_T2       == 36   \* 0x24, hot end
CFID_READ_COOLSET  == 21   \* 0x15
CFID_WRITE_COOLSET == 22   \* 0x16

\* The poll set appended by CoolerCtl::generate_directive for each device.
COOLER_MONITOR == <<CFID_READ_VOL, CFID_READ_CUR, CFID_READ_T1,
                    CFID_READ_T2, CFID_READ_COOLSET>>

\* CoolerCtl::decode_data reads the function id from the frame itself
\* (hex pair at offsets 3..4), whatever the directive at the queue head is.
CoolerFrameFunc(frameFunc, queue) == frameFunc

-----------------------------------------------------------------------------
\* AMath's LRC(output, i): 8-bit additive accumulation of the bytes.
LRC(bytes) == FoldLeft(LAMBDA a, b : (a + b) % 256, 0, bytes)

\* One nibble as the encoder writes it: t + base_1 (0x37) if t >= 0x0A,
\* else t + base_0 (0x30).
HexChar(t) == IF t >= 10 THEN t + 55 ELSE t + 48
HexPair(b) == <<HexChar(b \div 16), HexChar(b % 16)>>

\* CoolerCtl::encode_data: ':' id func data-as-hex, the LRC of everything
\* before it (taken with two zero placeholders and CR LF in place), CR LF.
\* Its length is the return value i; the NUL written at output[i] follows.
CoolerEncode(idd, idf, value) ==
  LET body  == <<58>> \o HexPair(idd) \o HexPair(idf)
                \o FlattenSeq([j \in 1..Len(value) |-> HexPair(value[j])])
      lrc   == LRC(body \o <<0, 0, 13, 10>>)
  IN  body \o HexPair(lrc) \o <<13, 10>>

\* Mutation of Nibble: the 'A'-'F' branch is lost.
NibbleDecimalOnly(b) == IF b >= 48 /\ b <= 57 THEN b - 48 ELSE b

\* ControllerBase::decode_uint8: '0'-'9' and 'A'-'F' become nibbles, any
\* other byte is used as is; the result is kept to 8 bits.
Nibble(b) == IF b >= 48 /\ b <= 57 THEN b - 48
             ELSE IF b >= 65 /\ b <= 70 THEN b - 55 ELSE b
decode_uint8(b1, b2) == (((Nibble(b1) * 16) % 256) + Nibble(b2)) % 256

\* CoolerCtl::decode_data on bufrcv_ = frame (frame[k+1] is ptr[k]):
\* rc -1 / -2 for the length checks; else the id, the function and the
\* data bytes between offset 5 and the checksum, as characters.
CoolerDecode(frame) ==
  LET len == Len(frame)
      n   == (len - 9) \div 2
  IN  IF len < 9 THEN [rc |-> -1]
      ELSE IF (len - 9) % 2 # 0 THEN [rc |-> -2]
      ELSE [rc     |-> 0,
            idd    |-> decode_uint8(frame[2], frame[3]),
            idf    |-> decode_uint8(frame[4], frame[5]),
            strval |-> [k \in 1..n |-> decode_uint8(frame[4 + 2 * k], frame[5 + 2 * k])]]

\* The frame markers CoolerCtl's constructor sets: head_ ":", tail_ "\r\n".
CoolerHead == <<58>>
CoolerTail == <<13, 10>>

\* SerialComm::Lookup(pattern, len, from) (spec section 6): the 0-based
\* offset of the first occurrence of pattern at or after from in the bytes
\* received, or -1.
Lookup(buf, pat, from) ==
  LET hits == {i \in from..(Len(buf) - Len(pat)) : SubSeq(buf, i + 1, i + Len(pat)) = pat}
  IN  IF hits = {} THEN -1 ELSE CHOOSE i \in hits : \A j \in hits : i <= j

\* ControllerBase::serial_read's frame search: ihead is where the head
\* marker is (0 without one), itail where the tail marker is from ihead
\* on; "if (itail > ihead)" the frame is the itail - ihead + ntail_ bytes
\* from ihead.  Without a head in the bytes, ihead = -1 and itail stays 0,
\* so the test passes with the frame at offset -1.  len 0: no frame.
FrameAt(buf, head, tail) ==
  LET ih == IF head = <<>> THEN 0 ELSE Lookup(buf, head, 0)
      it == IF ih >= 0 THEN Lookup(buf, tail, ih) ELSE 0
  IN  IF it > ih THEN [off |-> ih, len |-> it - ih + Len(tail)] ELSE [off |-> 0, len |-> 0]

\* serial_->Read(bufrcv_, len, ihead): the bytes of a frame found at a
\* non-negative offset.
Frame(buf, head, tail) ==
  LET f == FrameAt(buf, head, tail) IN SubSeq(buf, f.off + 1, f.off + f.len)

-----------------------------------------------------------------------------
\* Decimal text, as boost::format "%d" and "%.1f" produce and atof reads.
AbsVal(x) == IF x < 0 THEN -x ELSE x
RECURSIVE Digits(_)
Digits(n) == IF n < 10 THEN <<48 + n>> ELSE Digits(n \div 10) \o <<48 + (n % 10)>>
Sign(x) == IF x < 0 THEN <<45>> ELSE <<>>

\* "%d" of an int; a negative int is split into digits without negating it
\* whole, so that -2^31 stays in range.
FmtInt(x) ==
  IF x >= 0 THEN Digits(x)
  ELSE LET d == (10 - (x % 10)) % 10
           q == (x + d) \div 10
       IN  <<45>> \o (IF q = 0 THEN <<>> ELSE Digits(-q)) \o <<48 + d>>
\* "%.1f" of a double with one decimal, given in tenths.
Fmt1f(t) == Sign(t) \o Digits(AbsVal(t) \div 10) \o <<46, 48 + (AbsVal(t) % 10)>>

RECURSIVE DigitsValue(_)
DigitsValue(s) == IF s = <<>> THEN 0 ELSE DigitsValue(Front(s)) * 10 + (Last(s) - 48)

\* atof on text of the form [-]digits[.digit], in tenths.
AtofTenths(s) ==
  LET neg  == s # <<>> /\ s[1] = 45
      body == IF neg THEN Tail(s) ELSE s
      dot  == IF \E i \in 1..Len(body) : body[i] = 46
                THEN CHOOSE i \in 1..Len(body) : body[i] = 46 ELSE 0
      ip   == IF dot = 0 THEN body ELSE SubSeq(body, 1, dot - 1)
      fp   == IF dot = 0 THEN <<>> ELSE SubSeq(body, dot + 1, Len(body))
      mag  == DigitsValue(ip) * 10 + (IF fp = <<>> THEN 0 ELSE fp[1] - 48)
  IN  IF neg THEN -mag ELSE mag

=============================================================================
