---------------------------- MODULE AsciiProtocol ----------------------------
(***************************************************************************)
(* The telemetry report protocol of AsciiProtocol.cpp: CompactCooler and  *)
(* CompactVacuum build one text line from a report record, Resolve parses *)
(* a received line back into a record.  A line is a sequence of bytes, as *)
(* in CoolerCtl, except that each keyword and each type word is one       *)
(* symbol (a code above 255): keywords hold no separator, space or        *)
(* punctuation, so the splitting never looks inside them.                 *)
(***************************************************************************)
EXTENDS CoolerCtl

CONSTANTS
  ReportGroups,    \* group ids (param_.groupid) as bytes
  ReportIds,       \* device ids reported
  ReportTimes,     \* utc texts, the empty one included
  ReportTenths,    \* telemetry doubles, in tenths
  ReportPressures  \* vacuum pressure texts

SP == 32
LF == 10
COMMA == 44
EQ == 61

\* The type words and keywords of the protocol.
T_COOLER == 300
T_VACUUM == 301
K_TIME == 310
K_GROUP == 311
K_UNIT == 312
K_CAM == 313
K_VOLTAGE == 314
K_CURRENT == 315
K_HOTEND == 316
K_COOLGET == 317
K_COOLSET == 318
K_PRESSURE == 319

\* boost's is_space and is_punct, as the sets of bytes they accept;
\* symbols are in neither.
IsSpace == {SP} \cup 9..13
IsPunct == 33..47 \cup 58..64 \cup 91..96 \cup 123..126

\* trim_right_if(s, is_any_of(cls)) and trim(s).
TrimRightIf(s, cls) == SubSeq(s, 1, SelectLastInSeq(s, LAMBDA c : c \notin cls))
Trim(s) ==
  LET r == TrimRightIf(s, IsSpace)
      i == SelectInSeq(r, LAMBDA c : c \notin IsSpace)
  IN  IF i = 0 THEN <<>> ELSE SubSeq(r, i, Len(r))

\* algorithm::split(tokens, s, is_any_of(sep), token_compress_on), keeping
\* the non-empty tokens: adjacent separators make one, and the empty
\* tokens the call yields at either end fail resolve_kv's emptiness test.
Runs(s, sep) ==
  LET cut  == <<0>> \o SelectSeq([i \in 1..Len(s) |-> i], LAMBDA i : s[i] = sep)
              \o <<Len(s) + 1>>
      segs == [k \in 1..Len(cut) - 1 |-> SubSeq(s, cut[k] + 1, cut[k + 1] - 1)]
  IN  SelectSeq(segs, LAMBDA t : t # <<>>)

\* join_kv (in AsciiProtocol.h): appends "keyword=value,".
JoinKv(out, k, v) == out \o <<k, EQ>> \o v \o <<COMMA>>

\* output_compacted: trim trailing punctuation and spaces, append "\n"
\* (sprintf "%s\n"); the rotating buffer is not part of the text.
output_compacted(out) == TrimRightIf(out, IsPunct \cup IsSpace) \o <<LF>>

\* CompactCooler: type, the time only when set, then the fields in order;
\* doubles are written with one decimal.
CompactCooler(r) ==
  LET t0 == <<T_COOLER, SP>>
      t1 == IF r.utc # <<>> THEN JoinKv(t0, K_TIME, r.utc) ELSE t0
      t2 == JoinKv(JoinKv(JoinKv(t1, K_GROUP, r.gid), K_UNIT, r.uid), K_CAM, r.cid)
      t3 == JoinKv(JoinKv(t2, K_VOLTAGE, Fmt1f(r.voltage)), K_CURRENT, Fmt1f(r.current))
      t4 == JoinKv(JoinKv(JoinKv(t3, K_HOTEND, Fmt1f(r.hotend)),
                          K_COOLGET, Fmt1f(r.coolget)), K_COOLSET, Fmt1f(r.coolset))
  IN  output_compacted(t4)

\* CompactVacuum: as CompactCooler, with the pressure kept as text.
CompactVacuum(r) ==
  LET t0 == <<T_VACUUM, SP>>
      t1 == IF r.utc # <<>> THEN JoinKv(t0, K_TIME, r.utc) ELSE t0
      t2 == JoinKv(JoinKv(JoinKv(t1, K_GROUP, r.gid), K_UNIT, r.uid), K_CAM, r.cid)
      t3 == JoinKv(JoinKv(t2, K_VOLTAGE, Fmt1f(r.voltage)), K_CURRENT, Fmt1f(r.current))
  IN  output_compacted(JoinKv(t3, K_PRESSURE, r.pressure))

\* Mutation variant: resolve_kv trims the keyword but not the value.
resolve_kv_untrimmed(kv) ==
  LET tok == Runs(kv, EQ)
      key == IF kv = <<>> \/ kv[1] = EQ THEN <<>> ELSE Trim(tok[1])
      val == IF Len(tok) >= 2 THEN tok[2] ELSE <<>>
  IN  [ok |-> key # <<>> /\ val # <<>>, key |-> key, value |-> val]

\* resolve_kv: split on '=' with token_compress_on; the keyword is the
\* first token and the value the second, both trimmed; a pair with an
\* empty keyword or value is refused.  A leading '=' gives an empty first
\* token.
resolve_kv(kv) ==
  LET tok == Runs(kv, EQ)
      key == IF kv = <<>> \/ kv[1] = EQ THEN <<>> ELSE Trim(tok[1])
      val == IF Len(tok) >= 2 THEN Trim(tok[2]) ELSE <<>>
  IN  [ok |-> key # <<>> /\ val # <<>>, key |-> key, value |-> val]

\* boost::format("%03d") of a non-negative id.
Fmt03d(n) == [i \in 1..(3 - Len(Digits(n))) |-> 48] \o Digits(n)

\* The records a fresh ascii_proto_cooler / ascii_proto_vacuum holds.
NoText == <<>>
DefaultCooler == [type |-> T_COOLER, utc |-> NoText, gid |-> NoText, uid |-> NoText,
                  cid |-> NoText, voltage |-> 0, current |-> 0, hotend |-> 0,
                  coolget |-> 0, coolset |-> 0]
DefaultVacuum == [type |-> T_VACUUM, utc |-> NoText, gid |-> NoText, uid |-> NoText,
                  cid |-> NoText, voltage |-> 0, current |-> 0, pressure |-> NoText]

\* The record field a keyword sets, and whether atof converts its value.
CoolerField == <<K_GROUP, K_UNIT, K_CAM, K_VOLTAGE, K_CURRENT, K_HOTEND,
                 K_COOLGET, K_COOLSET, K_TIME>>
CoolerName == <<"gid", "uid", "cid", "voltage", "current", "hotend",
                "coolget", "coolset", "utc">>
VacuumField == <<K_GROUP, K_UNIT, K_CAM, K_VOLTAGE, K_CURRENT, K_PRESSURE, K_TIME>>
VacuumName == <<"gid", "uid", "cid", "voltage", "current", "pressure", "utc">>
Numeric == {"voltage", "current", "hotend", "coolget", "coolset"}

\* One iteration of resolve_cooler's / resolve_vacuum's loop: the first
\* keyword of the if-else chain that matches sets its field.
ApplyKv(proto, kv, fields, names) ==
  LET p == resolve_kv(kv)
      i == IF p.ok /\ Len(p.key) = 1 THEN SelectInSeq(fields, LAMBDA k : k = p.key[1]) ELSE 0
  IN  IF i = 0 THEN proto
      ELSE [proto EXCEPT ![names[i]] = IF names[i] \in Numeric
                                         THEN AtofTenths(p.value) ELSE p.value]

\* The loop over the tokens, in order: a later keyword overrides.
RECURSIVE ResolveTokens(_, _, _, _)
ResolveTokens(proto, toks, fields, names) ==
  IF toks = <<>> THEN proto
  ELSE ResolveTokens(ApplyKv(proto, Head(toks), fields, names), Tail(toks), fields, names)

resolve_cooler(tokens) == ResolveTokens(DefaultCooler, tokens, CoolerField, CoolerName)
resolve_vacuum(tokens) == ResolveTokens(DefaultVacuum, tokens, VacuumField, VacuumName)

\* Resolve: the type is everything up to the first space; spaces are
\* skipped, the rest is split on ',' and handed to the type's resolver.
\* An unknown type yields the null apbase.
NoProto == [type |-> 0]
Resolve(line) ==
  LET sp   == SelectInSeq(line, LAMBDA c : c = SP)
      type == IF sp = 0 THEN line ELSE SubSeq(line, 1, sp - 1)
      rest == IF sp = 0 THEN <<>> ELSE SubSeq(line, sp, Len(line))
      from == SelectInSeq(rest, LAMBDA c : c # SP)
      toks == IF from = 0 THEN <<>> ELSE Runs(SubSeq(rest, from, Len(rest)), COMMA)
  IN  CASE type = <<T_COOLER>> -> resolve_cooler(toks)
        [] type = <<T_VACUUM>> -> resolve_vacuum(toks)
        [] OTHER               -> NoProto

\* network_respond's record of one device: the group of CoupleNetwork, the
\* unit id idd / 10 and the camera id idd, each "%03d", and the readings.
CoolerReport(gid, idd, v, w) ==
  [DefaultCooler EXCEPT !.gid = gid, !.uid = Fmt03d(idd \div 10), !.cid = Fmt03d(idd),
                        !.voltage = v, !.current = w, !.hotend = v, !.coolget = w,
                        !.coolset = v]
VacuumReport(gid, idd, v, w, p) ==
  [DefaultVacuum EXCEPT !.gid = gid, !.uid = Fmt03d(idd \div 10), !.cid = Fmt03d(idd),
                        !.voltage = v, !.current = w, !.pressure = p]

=============================================================================
