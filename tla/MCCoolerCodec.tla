---------------------------- MODULE MCCoolerCodec ----------------------------
(* Inputs for CoolerCodec: ids and function ids at the hex-digit and byte   *)
(* boundaries, and values at the edges of int and of the setpoints used.    *)
EXTENDS CoolerCodec, AsciiProtocol, AMath, PTree

MCIds     == {0, 9, 10, 171, 255}
MCFuncIds == {CFID_READ_VOL, CFID_READ_COOLSET, CFID_WRITE_COOLSET}
\* -2^31 and 2^31 - 1 bound a 32-bit int.
MCIntArgs      == {0, -80, 2147483647}
MCIntArgsEdge  == {-80, -2147483647 - 1}
MCTenths  == {-800, -5, 0, 250, 999999999}
\* Report inputs: group ids with and without letters, ids at the
\* unit-id boundaries, a time, readings with a sign, a fraction and none,
\* pressure texts in scientific notation and empty.
MCGroups    == {<<48, 48, 49>>, <<71, 87, 65, 67>>}
MCReportIds == {0, 9, 10, 255}
MCTimes     == {<<>>, <<49, 50, 58, 48, 48, 58, 48, 53>>}
MCReportTenths == {-805, 0, 125}
MCPressures == {<<>>, <<49, 46, 50, 69, 45, 53>>}
\* The vacuum data_ records: two of the ids; answers from the others are
\* from gauges check_data has no record for.
MCVacuumIds == <<0, 10>>

\* Bytes before an echoed frame: none, the CR LF of an earlier answer, and
\* a stray character followed by CR LF.
MCNoise == {<<>>, <<13, 10>>, <<65, 13, 10>>}

\* AMath inputs: every 2 x 2 matrix with entries -2..2 and every 3 x 3 one
\* with entries -1..1 (singular ones, ones that need a row swap, ones with
\* a zero first column among them); knots evenly and unevenly spaced,
\* negative and not; points before, on, between and beyond the knots.
MCEntries2 == -2..2
MCEntries3 == -1..1
MCKnots    == {<<Dbl(0), Dbl(1), Dbl(2), Dbl(3)>>, <<Dbl(-1), Dbl(0), Dbl(2), Dbl(5)>>}
MCPoints   == <<Dbl(-2), Dbl(0), Frac(1, 2), Dbl(1), Frac(7, 2), Dbl(6)>>

\* parameter.h: files an operator may leave in place of camannex.xml (one
\* read_xml rejects; one with a renamed group, the server on, a cooler
\* without a baud rate, three devices of which the second's id is out of
\* uint8_t range and the third's is missing, and a node of another kind),
\* and two values an uninitialized int may hold.
VARIABLES file, mem, used, edited
pvars == <<file, mem, used, edited>>
MCHandNode(k) ==
  [kind |-> k, name |-> Str("/dev/ttyUSB0"), baud |-> Absent, dn |-> Dec(3),
   ids |-> (1 :> Dec(7) @@ 2 :> Dec(300))]
MCHandFiles ==
  {Corrupt,
   [read |-> "ok", scalars |-> [groupid |-> "002", bServer |-> TRUE],
    nodes |-> <<MCHandNode("other"), MCHandNode("cooler")>>]}
MCGarbage == {0, 9600}
P == INSTANCE Parameter WITH HandFiles <- MCHandFiles, Garbage <- MCGarbage

\* The codec channels, the AMath calls and the daemon's runs one after the
\* other: a caller makes one AMath call from the initial state and returns
\* to it, the daemon's runs begin from the initial state, and the codec
\* steps while neither has started.
MCInit == Init /\ AMathInit /\ P!Init
MCNext ==
  \/ call = NoCall /\ P!Init /\ Next /\ UNCHANGED <<call, pvars>>
  \/ Init /\ P!Init /\ AMathNext /\ UNCHANGED <<vars, pvars>>
  \/ Init /\ call = NoCall /\ P!Next /\ UNCHANGED <<vars, call>>
MCSpec == MCInit /\ [][MCNext]_<<vars, call, pvars>>

\* parameter.h: a daemon restarted on an untouched camannex.xml serves the
\* same server settings and cooler ports as the run before it, whether that
\* run fell back to InitFile or loaded the file.
RestartStable == P!RestartStable
=============================================================================
