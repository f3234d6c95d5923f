----------------------------- MODULE CoolerCodec -----------------------------
(***************************************************************************)
(* The cooler wire codec in use: ControllerBase::Write(idd, idf[, value]) *)
(* formats the value ("%d" or "%.1f"), CoolerCtl::encode_data builds the   *)
(* frame in Directive::msg[30], and CoolerCtl::decode_data parses a frame  *)
(* the device sends back with the same layout (a write is echoed).         *)
(* On the network side, network_respond has AsciiProtocol compact each     *)
(* device's report into a line, which the server's Resolve parses.         *)
(* The vacuum side: generate_directive's poll frame (VacuumCtl encode),    *)
(* the gauge's answer, and decode_data storing it through find_device.     *)
(***************************************************************************)
EXTENDS AsciiProtocol, VacuumCtl

CONSTANTS
  Ids,       \* device ids (uint8_t)
  FuncIds,   \* function ids (uint8_t)
  IntArgs,   \* int values passed to Write(idd, idf, int)
  Tenths,    \* double values passed to Write(idd, idf, double), in tenths
  VacuumIds, \* the ids of the vacuum data_ records (check_data), in order
  Noise      \* bytes that may precede an answer in the receive buffer

\* Directive::msg is char[30]; encode_data also writes a NUL after the frame.
MsgSize == 30

VARIABLES
  msg,       \* bytes encode_data wrote into Directive::msg (without the NUL)
  arg,       \* what the last Write was asked to send (history)
  rec,       \* decode_data's result on the echoed frame
  echoed,    \* whether rec holds the decoding of the current msg
  line,      \* the last report line written to the session
  report,    \* the record that line was compacted from (history)
  vpoll,     \* the vacuum directive at the head of drct_: [idd, idf]
  vans,      \* the gauge's answer to it: [idd, text, val] (history)
  vrec       \* decode_data's result on that answer, with its store

vars == <<msg, arg, rec, echoed, line, report, vpoll, vans, vrec>>

\* The three channels are independent; a step of one starts the others
\* afresh, so that their states add up instead of multiplying.
NoCodec  == msg' = <<>> /\ arg' = "none" /\ rec' = "none" /\ echoed' = FALSE
NoReport == line' = <<>> /\ report' = DefaultCooler
NoPoll   == [idd |-> 0, idf |-> 0, msg |-> <<>>]
NoAnswer == [idd |-> 0, text |-> <<>>, val |-> 0]
NoVacuum == vpoll' = NoPoll /\ vans' = NoAnswer /\ vrec' = [rc |-> 1]

Init == /\ msg = <<>> /\ arg = "none" /\ rec = "none" /\ echoed = FALSE
        /\ line = <<>> /\ report = DefaultCooler
        /\ vpoll = NoPoll /\ vans = NoAnswer /\ vrec = [rc |-> 1]

\* Write(idd, idf): no value, n = 0.
WritePlain(d, f) ==
  /\ msg' = CoolerEncode(d, f, <<>>)
  /\ arg' = [idd |-> d, idf |-> f, text |-> <<>>, isDouble |-> FALSE, tenths |-> 0]
  /\ rec' = "none"
  /\ echoed' = FALSE
  /\ NoReport /\ NoVacuum

\* Write(idd, idf, int value): "%d".
WriteInt(d, f, x) ==
  /\ msg' = CoolerEncode(d, f, FmtInt(x))
  /\ arg' = [idd |-> d, idf |-> f, text |-> FmtInt(x), isDouble |-> FALSE, tenths |-> 0]
  /\ rec' = "none"
  /\ echoed' = FALSE
  /\ NoReport /\ NoVacuum

\* Write(idd, idf, double value): "%.1f".
WriteDouble(d, f, t) ==
  /\ msg' = CoolerEncode(d, f, Fmt1f(t))
  /\ arg' = [idd |-> d, idf |-> f, text |-> Fmt1f(t), isDouble |-> TRUE, tenths |-> t]
  /\ rec' = "none"
  /\ echoed' = FALSE
  /\ NoReport /\ NoVacuum

\* The device echoes the frame, perhaps after stray bytes (the tail of an
\* earlier answer, line noise); serial_read finds the frame between the
\* markers and hands it to decode_data.
DecodeEcho(noise) ==
  /\ msg # <<>> /\ ~echoed
  /\ rec' = CoolerDecode(Frame(noise \o msg, CoolerHead, CoolerTail))
  /\ echoed' = TRUE
  /\ UNCHANGED <<msg, arg, line, report, vpoll, vans, vrec>>

\* One iteration of CoolerCtl::network_respond: the device's record is
\* compacted and written to the session (the time is set by other senders).
SendCoolerReport(g, d, t, v, w) ==
  /\ report' = [CoolerReport(g, d, v, w) EXCEPT !.utc = t]
  /\ line' = CompactCooler(report')
  /\ NoCodec /\ NoVacuum

\* One iteration of VacuumCtl::network_respond.
SendVacuumReport(g, d, t, v, w, p) ==
  /\ report' = [VacuumReport(g, d, v, w, p) EXCEPT !.utc = t]
  /\ line' = CompactVacuum(report')
  /\ NoCodec /\ NoVacuum

\* VacuumCtl::generate_directive: one directive of VACUUM_MONITOR, encoded.
VacuumPoll(d, f) ==
  /\ vpoll' = [idd |-> d, idf |-> f, msg |-> VacuumEncode(d, f)]
  /\ vans' = NoAnswer /\ vrec' = [rc |-> 1]
  /\ NoCodec /\ NoReport

\* The answer of gauge d: its id and the reading as hex pairs between the
\* same separators the directive uses, the LRC and CR (spec section 4.3);
\* the reading is text, the pressure in engineering notation.
VacuumAnswer(d, idf, text) ==
  LET body == HexPair(d) \o <<32>> \o HexPair(idf) \o <<32>>
              \o FlattenSeq([j \in 1..Len(text) |-> HexPair(text[j])]) \o <<32>>
  IN  body \o HexPair(LRC(body)) \o <<13>>

\* serial_read finds the answer, up to its CR, and hands it to decode_data while the directive is at
\* the head of drct_; decode_data stores what it decoded.
VacuumReply(d, text, val) ==
  /\ vpoll # NoPoll /\ vans = NoAnswer
  /\ vans' = [idd |-> d, text |-> text, val |-> val]
  /\ vrec' = LET r == VacuumDecode(Frame(VacuumAnswer(d, vpoll.idf, text),
                                         VacuumHead, VacuumTail), vpoll.idf)
             IN  r @@ ("store" :> VacuumStore(r, VacuumIds))
  /\ UNCHANGED <<msg, arg, rec, echoed, line, report, vpoll>>

Vacuum ==
  \/ \E d \in Ids, i \in 1..Len(VACUUM_MONITOR) : VacuumPoll(d, VACUUM_MONITOR[i])
  \/ \E d \in Ids :
       IF vpoll.idf = VFID_READ_PRES
         THEN \E p \in ReportPressures \ {<<>>} : VacuumReply(d, p, p)
         ELSE \E t \in ReportTenths : VacuumReply(d, Fmt1f(t), t)

Report ==
  \E g \in ReportGroups, d \in ReportIds, t \in ReportTimes, v, w \in ReportTenths :
    \/ SendCoolerReport(g, d, t, v, w)
    \/ \E p \in ReportPressures : SendVacuumReport(g, d, t, v, w, p)

Next ==
  \/ \E d \in Ids, f \in FuncIds : WritePlain(d, f)
  \/ \E d \in Ids, f \in FuncIds, x \in IntArgs : WriteInt(d, f, x)
  \/ \E d \in Ids, f \in FuncIds, t \in Tenths : WriteDouble(d, f, t)
  \/ \E n \in Noise : DecodeEcho(n)
  \/ Report
  \/ Vacuum

Spec == Init /\ [][Next]_vars

-----------------------------------------------------------------------------
\* decode_data(encode_data(d, f, v)) gives back d, f and the text of v,
\* and atof of that text is v to the one decimal "%.1f" keeps.
RoundTrip ==
  echoed =>
    /\ rec.rc = 0
    /\ rec.idd = arg.idd /\ rec.idf = arg.idf
    /\ rec.strval = arg.text
    /\ arg.isDouble => AtofTenths(rec.strval) = arg.tenths

\* Every report network_respond sends reaches the server intact: Resolve of
\* the line CompactCooler/CompactVacuum built gives back the record, through
\* join_kv, output_compacted's trimming and "\n", the comma and '=' splits,
\* trim and atof.
ReportRoundTrip == line # <<>> => Resolve(line) = report

\* A gauge's answer to the directive at the head of drct_ lands in the
\* record of the gauge that answered, and there in the field the head's
\* function names, as the reading it sent: decode_data's pair loop from
\* offset 6 to len - 5, decode_uint8, find_device and the setter's atof,
\* the pressure text kept verbatim.  An unregistered id stores nothing.
VacuumRoundTrip ==
  vans # NoAnswer =>
    LET st == vrec.store IN
    /\ vrec.rc = 0 /\ vrec.idd = vans.idd
    /\ IF vans.idd \in ToSet(VacuumIds)
         THEN /\ VacuumIds[st.dev] = vans.idd
              /\ st.field = VacuumSetter(vpoll.idf)
              /\ st.value = vans.val
         ELSE st.field = "none"

\* Every frame encode_data builds fits Directive::msg[30] with its NUL:
\* Write's formatted value never takes more than the 20 bytes left.
DirectiveFits == Len(msg) + 1 <= MsgSize

=============================================================================
