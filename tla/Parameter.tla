----------------------------- MODULE Parameter -----------------------------
(***************************************************************************)
(* param_config of parameter.h across daemon runs: InitFile writes the     *)
(* default XML file and fills the structure, LoadFile reads a file back   *)
(* and falls back to InitFile when read_xml throws.  The daemon            *)
(* (camannex.cpp) runs `camannex -d` to write the defaults, or starts the  *)
(* service, whose AnnexControl constructor calls LoadFile on a fresh       *)
(* param_config; StartService then uses the server settings and the        *)
(* cooler ports.                                                           *)
(*                                                                         *)
(* Scalar settings are written and read with the same type and are kept   *)
(* as their values; the texts of the other keys are PTree's.               *)
(***************************************************************************)
EXTENDS Integers, Sequences, PTree

CONSTANTS
  HandFiles,   \* files an operator may put in place by hand, Corrupt among them
  Garbage      \* what an uninitialized int may hold

VARIABLES
  file,    \* the configuration file: NoFile, Corrupt or [read |-> "ok", scalars, nodes]
  mem,     \* the running daemon's param_config, or NoMem between runs
  used,    \* what the last run's StartService used, or NoRun
  edited   \* the file was written by hand or by `camannex -d` since that run

vars == <<file, mem, used, edited>>

\* An empty structure, and no run yet.
NoMem   == [up |-> FALSE]
NoRun   == [up |-> FALSE]

\* The defaults InitFile writes and LoadFile falls back to, key by key.
DefaultScalars ==
  [groupid |-> "001", bServer |-> FALSE, ipServer |-> "172.28.1.11",
   portServer |-> 4016, enableDB |-> TRUE, urlDB |-> "http://172.28.8.8:8080/gwebend/",
   enableNTP |-> FALSE, hostNTP |-> "172.28.1.3", portNTP |-> 123, maxDiffNTP |-> 5]

\* One <Cooler> or <Vacuum> node as InitFile adds it: the port, the baud
\* rate, DeviceNumber n, and Device_i.<xmlattr>.ID = uint8_t(i).
InitNode(kind, name, n) ==
  [kind |-> kind, name |-> Str(name), baud |-> Dec(9600), dn |-> Dec(n),
   ids |-> [i \in 1..n |-> Dec(i)]]

InitAnnex(name, b, n) ==
  [portName |-> name, baudRate |-> b, n |-> n, idd |-> [i \in 1..n |-> i]]

\* InitFile: the file gets the nodes for ttyS0, ttyS1 and ttyS2; the
\* structure gets acool, avacuum and bvacuum.  node3's port name and baud
\* rate are assigned to avacuum, already copied into vacuum, so bvacuum
\* keeps an empty name and an uninitialized baud rate b.
InitFileFile ==
  [read    |-> "ok",
   scalars |-> DefaultScalars,
   nodes   |-> <<InitNode("cooler", "/dev/ttyS0", 2), InitNode("vacuum", "/dev/ttyS1", 1),
                 InitNode("vacuum", "/dev/ttyS2", 1)>>]
InitFileMem(b) ==
  [scalars |-> DefaultScalars,
   cooler  |-> <<InitAnnex("/dev/ttyS0", 9600, 2)>>,
   vacuum  |-> <<InitAnnex("/dev/ttyS1", 9600, 1), InitAnnex("", b, 1)>>]

\* Device i's id: get(idkey, i) read as an int and narrowed to uint8_t.
LoadId(node, i) ==
  (IF i \in DOMAIN node.ids THEN GetInt(node.ids[i], i) ELSE i) % 256

\* One Annex read from a node, with LoadFile's defaults.
LoadAnnex(node) ==
  LET n == GetInt(node.dn, 1)
  IN  [portName |-> GetStr(node.name, "/dev/ttyS0"),
       baudRate |-> GetInt(node.baud, 9600),
       n        |-> n,
       idd      |-> [i \in 1..n |-> LoadId(node, i)]]

\* Mutation variant: the Cooler/Vacuum test inverted, so Cooler children
\* land in vacuum and Vacuum children in cooler.
LoadFileMemKindSwapped(f) ==
  LET of(k) == SelectSeq(f.nodes, LAMBDA nd : nd.kind # k)
  IN  [scalars |-> [k \in DOMAIN DefaultScalars |->
                      IF k \in DOMAIN f.scalars THEN f.scalars[k] ELSE DefaultScalars[k]],
       cooler  |-> [i \in 1..Len(of("cooler")) |-> LoadAnnex(of("cooler")[i])],
       vacuum  |-> [i \in 1..Len(of("vacuum")) |-> LoadAnnex(of("vacuum")[i])]]

\* LoadFile of a file read_xml parses: every scalar or its default, then
\* the Cooler and Vacuum children in file order, into vectors it cleared.
LoadFileMem(f) ==
  LET of(k) == SelectSeq(f.nodes, LAMBDA nd : nd.kind = k)
  IN  [scalars |-> [k \in DOMAIN DefaultScalars |->
                      IF k \in DOMAIN f.scalars THEN f.scalars[k] ELSE DefaultScalars[k]],
       cooler  |-> [i \in 1..Len(of("cooler")) |-> LoadAnnex(of("cooler")[i])],
       vacuum  |-> [i \in 1..Len(of("vacuum")) |-> LoadAnnex(of("vacuum")[i])]]

\* What StartService takes from param_: the server settings, the database
\* URL and the cooler ports (connect_vacuum is commented out).
Used(m) ==
  [groupid |-> m.scalars.groupid, bServer |-> m.scalars.bServer,
   ipServer |-> m.scalars.ipServer, portServer |-> m.scalars.portServer,
   urlDB |-> m.scalars.urlDB, cooler |-> m.cooler]

-----------------------------------------------------------------------------
\* A fresh installation: no camannex.xml yet.
Init == file = NoFile /\ mem = NoMem
        /\ used = NoRun /\ edited = FALSE

\* camannex -d: a fresh param_config's InitFile("camannex.xml").
WriteDefaults ==
  /\ file' = InitFileFile
  /\ edited' = TRUE
  /\ UNCHANGED <<mem, used>>

\* The operator replaces the file.
EditFile ==
  /\ \E f \in HandFiles : file' = f
  /\ edited' = TRUE
  /\ UNCHANGED <<mem, used>>

\* The daemon starts, one at a time (isProcSingleton): AnnexControl's
\* constructor calls LoadFile on a fresh param_config; read_xml throws on a
\* missing or malformed file and the catch calls InitFile, which rewrites
\* the file.  StartService uses it.
StartDaemon ==
  /\ mem = NoMem
  /\ IF file.read # "ok"
       THEN \E b \in Garbage : mem' = InitFileMem(b) /\ file' = InitFileFile
       ELSE mem' = LoadFileMem(file) /\ file' = file
  /\ used' = Used(mem')
  /\ edited' = FALSE

\* SIGINT or SIGTERM: ios.run() returns and the process exits.
StopDaemon ==
  /\ mem # NoMem
  /\ mem' = NoMem
  /\ UNCHANGED <<file, used, edited>>

Next == WriteDefaults \/ EditFile \/ StartDaemon \/ StopDaemon

Spec == Init /\ [][Next]_vars

-----------------------------------------------------------------------------
\* A restart with the file untouched serves what the previous run served:
\* the first run, which falls back to InitFile's structure, and every later
\* run, which reads back the file InitFile wrote, use the same server
\* settings and the same cooler ports, baud rates and device ids: the file
\* InitFile writes (read back by LoadFile's parsing and defaults) agrees
\* with the structure InitFile fills in beside it.
RestartStable ==
  [][mem = NoMem /\ mem' # NoMem /\ used # NoRun /\ ~edited => used' = used]_vars
=============================================================================
