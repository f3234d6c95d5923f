----------------------------- MODULE AnnexControl -----------------------------
(***************************************************************************)
(* The orchestrator (AnnexControl.cpp) after a successful StartService.   *)
(* Every event reaches it as a message posted to its MessageQueue and     *)
(* handled, one at a time and in order, by the queue's thread:            *)
(*   cooler_receive   -> on_close_cooler   (a controller's error callback, *)
(*                       codes 1, 2 and 3 alike);                          *)
(*   network_receive  -> on_close_network  (the server session's error);   *)
(*   network_connect  -> on_connect_network (an async connect's result).   *)
(* thread_network, started by on_close_network, reconnects every minute   *)
(* while tcp_ is not unique.  Each controller holds its own copy of the   *)
(* session in ControllerBase::tcp_ (CoupleNetwork / DecoupleNetwork).     *)
(* Only coolers are started: connect_vacuum is commented out.             *)
(***************************************************************************)
EXTENDS Naturals, Sequences, FiniteSets, SequencesExt

CONSTANTS
  Coolers,    \* cooler ports of param_.cooler; one CoolerCtl each
  Conns,      \* tcp client objects maketcp_client() may return
  Threads,    \* boost::thread objects thread_network may run on
  NoConn,     \* a null TcpCPtr
  NoThread,   \* a null threadptr
  MaxReports, \* error callbacks one controller may raise before it is gone
  MaxDrops    \* server sessions that may break in one behaviour

ASSUME /\ NoConn \notin Conns /\ NoThread \notin Threads
       /\ MaxReports \in Nat \ {0} /\ MaxDrops \in Nat

VARIABLES
  cctl,      \* cctl_: the controllers in the vector, by port
  ctl,       \* ctl[c]: the CoolerCtl of port c is "running" or "destroyed"
  reports,   \* error callbacks controller c has raised
  mq,        \* the MessageQueue: messages posted and not yet handled
  tcp,       \* AnnexControl::tcp_
  conn,      \* state of each tcp client object
  coupled,   \* ControllerBase::tcp_ of each controller
  thr,       \* thread_network instances: "idle" or "run"
  thrd,      \* thrdnetwork_
  drops,     \* sessions broken so far
  crashed    \* undefined behaviour was executed

vars == <<cctl, ctl, reports, mq, tcp, conn, coupled, thr, thrd, drops, crashed>>

Msg == [type : {"close_cooler"}, ctl : Coolers]
         \cup [type : {"connect"}, ok : BOOLEAN]
         \cup [type : {"close_network"}]

\* Who holds a reference to tcp client object x (its shared_ptr count).
Holders(x) == (IF tcp = x THEN 1 ELSE 0)
              + Cardinality({c \in ToSet(cctl) : coupled[c] = x})

\* tcp_.unique(): AnnexControl holds the only reference.
Unique == tcp # NoConn /\ Holders(tcp) = 1

\* A tcp client object nobody references is destroyed and can be reused.
Free(x) == Holders(x) = 0

\* The message handled now, and the queue without it.
Handling(m) == mq # <<>> /\ Head(mq) = m
Handled == mq' = Tail(mq)

-----------------------------------------------------------------------------
\* connect_server(false): a new client in tcp_, connected synchronously
\* (StartService gives up when it fails, so it succeeded here).
ServerConnected(c1) ==
  /\ tcp = c1
  /\ conn = [x \in Conns |-> IF x = c1 THEN "open" ELSE "closed"]

\* connect_cooler(true): connect_serial for every configured port, in
\* order; each CoolerCtl is Start()ed, CoupleNetwork(tcp_)ed and pushed
\* onto cctl_ (StartService gives up on the first failure).
CoolersConnected(c1) ==
  /\ cctl \in SetToSeqs(Coolers)
  /\ ctl = [c \in Coolers |-> "running"]
  /\ coupled = [c \in Coolers |-> c1]

\* StartService: the message queue, then the server, then the coolers.
Init ==
  \E c1 \in Conns :
    /\ ServerConnected(c1)
    /\ CoolersConnected(c1)
    /\ reports = [c \in Coolers |-> 0]
    /\ mq = <<>>
    /\ thr = [t \in Threads |-> "idle"]
    /\ thrd = NoThread
    /\ drops = 0
    /\ crashed = FALSE

\* A controller's cbrslt_ fires (read error, write error or heartbeat
\* timeout); cooler_receive posts MSG_CLOSE_COOLER with the raw pointer.
ControllerError(c) ==
  /\ ~crashed /\ ctl[c] = "running" /\ reports[c] < MaxReports
  /\ reports' = [reports EXCEPT ![c] = @ + 1]
  /\ mq' = Append(mq, [type |-> "close_cooler", ctl |-> c])
  /\ UNCHANGED <<cctl, ctl, tcp, conn, coupled, thr, thrd, drops, crashed>>

\* on_close_cooler: ptr->GetPortname() for the log, then the search for
\* ptr in cctl_ and cctl_.erase(it), which destroys the controller (its
\* destructor Stop()s and joins its threads).  A destroyed ptr is
\* dereferenced, and erase(end()) follows when the search fails.
OnCloseCooler ==
  \E c \in Coolers :
    /\ ~crashed /\ Handling([type |-> "close_cooler", ctl |-> c])
    /\ Handled
    /\ IF ctl[c] = "destroyed"
         THEN crashed' = TRUE /\ UNCHANGED <<cctl, ctl, coupled>>
         ELSE /\ cctl' = SelectSeq(cctl, LAMBDA e : e # c)
              /\ ctl' = [ctl EXCEPT ![c] = "destroyed"]
              /\ coupled' = [coupled EXCEPT ![c] = NoConn]
              /\ UNCHANGED crashed
    /\ UNCHANGED <<reports, tcp, conn, thr, thrd, drops>>

\* The server session breaks; its read handler calls network_receive with
\* an error code, which posts MSG_CLOSE_NETWORK (without the session).
SessionDrop(x) ==
  /\ ~crashed /\ conn[x] = "open" /\ ~Free(x) /\ drops < MaxDrops
  /\ conn' = [conn EXCEPT ![x] = "closed"]
  /\ drops' = drops + 1
  /\ mq' = Append(mq, [type |-> "close_network"])
  /\ UNCHANGED <<cctl, ctl, reports, tcp, coupled, thr, thrd, crashed>>

\* on_close_network: DecoupleNetwork() every controller, tcp_.reset() and
\* thrdnetwork_.reset(new thread(thread_network)).
OnCloseNetwork ==
  /\ ~crashed /\ Handling([type |-> "close_network"])
  /\ Handled
  /\ \E t \in Threads :
       /\ thr[t] = "idle"
       /\ thr' = [thr EXCEPT ![t] = "run"]
       /\ thrd' = t
  /\ coupled' = [c \in Coolers |-> IF c \in ToSet(cctl) THEN NoConn ELSE coupled[c]]
  /\ tcp' = NoConn
  /\ UNCHANGED <<cctl, ctl, reports, conn, drops, crashed>>

\* thread_network after its one-minute sleep: "if (!tcp_.unique())
\* connect_server()", which makes a new client in tcp_ and starts an
\* AsyncConnect whose result goes to network_connect.
NetworkRetry(t) ==
  /\ ~crashed /\ thr[t] = "run" /\ ~Unique
  /\ \E x \in Conns :
       /\ Free(x) /\ x # tcp
       /\ tcp' = x
       /\ conn' = [conn EXCEPT ![x] = "connecting"]
  /\ UNCHANGED <<cctl, ctl, reports, mq, coupled, thr, thrd, drops, crashed>>

\* The AsyncConnect of x completes, successfully or not; network_connect
\* posts MSG_CONNECT_NETWORK with the error code.
ConnectDone(x, ok) ==
  /\ ~crashed /\ conn[x] = "connecting" /\ ~Free(x)
  /\ conn' = [conn EXCEPT ![x] = IF ok THEN "open" ELSE "closed"]
  /\ mq' = Append(mq, [type |-> "connect", ok |-> ok])
  /\ UNCHANGED <<cctl, ctl, reports, tcp, coupled, thr, thrd, drops, crashed>>

\* Mutation variant: on_connect_network leaves thread_network running.
OnConnectNetworkKeepThread ==
  \E ok \in BOOLEAN :
    /\ ~crashed /\ Handling([type |-> "connect", ok |-> ok])
    /\ Handled
    /\ IF ok
         THEN /\ coupled' = [c \in Coolers |->
                   IF c \in ToSet(cctl) /\ coupled[c] = NoConn THEN tcp ELSE coupled[c]]
              /\ UNCHANGED <<tcp, thr, thrd>>
         ELSE tcp' = NoConn /\ UNCHANGED <<coupled, thr, thrd>>
    /\ UNCHANGED <<cctl, ctl, reports, conn, drops, crashed>>

\* Mutation variant: a failed connect leaves the dead client in tcp_.
OnConnectNetworkNoReset ==
  \E ok \in BOOLEAN :
    /\ ~crashed /\ Handling([type |-> "connect", ok |-> ok])
    /\ Handled
    /\ IF ok
         THEN /\ thr' = IF thrd # NoThread THEN [thr EXCEPT ![thrd] = "idle"] ELSE thr
              /\ thrd' = NoThread
              /\ coupled' = [c \in Coolers |->
                   IF c \in ToSet(cctl) /\ coupled[c] = NoConn THEN tcp ELSE coupled[c]]
         ELSE UNCHANGED <<coupled, thr, thrd>>
    /\ UNCHANGED <<cctl, ctl, reports, tcp, conn, drops, crashed>>

\* on_connect_network: on success interrupt, join and reset thrdnetwork_
\* (if any), then CoupleNetwork(tcp_) every controller, which takes the
\* session only "if (!tcp_.use_count())"; on failure tcp_.reset().
OnConnectNetwork ==
  \E ok \in BOOLEAN :
    /\ ~crashed /\ Handling([type |-> "connect", ok |-> ok])
    /\ Handled
    /\ IF ok
         THEN /\ thr' = IF thrd # NoThread THEN [thr EXCEPT ![thrd] = "idle"] ELSE thr
              /\ thrd' = NoThread
              /\ coupled' = [c \in Coolers |->
                   IF c \in ToSet(cctl) /\ coupled[c] = NoConn THEN tcp ELSE coupled[c]]
              /\ UNCHANGED tcp
         ELSE tcp' = NoConn /\ UNCHANGED <<coupled, thr, thrd>>
    /\ UNCHANGED <<cctl, ctl, reports, conn, drops, crashed>>

Dispatch == OnCloseCooler \/ OnCloseNetwork \/ OnConnectNetwork

Next ==
  \/ \E c \in Coolers : ControllerError(c)
  \/ \E x \in Conns : SessionDrop(x)
  \/ \E t \in Threads : NetworkRetry(t)
  \/ \E x \in Conns, ok \in BOOLEAN : ConnectDone(x, ok)
  \/ Dispatch

\* The message thread handles what is posted; thread_network wakes every
\* minute; asio completes every connect attempt; and the server accepts a
\* connection when asked often enough (strong fairness of a success).
Fairness ==
  /\ WF_vars(Dispatch)
  /\ \A t \in Threads : WF_vars(NetworkRetry(t))
  /\ \A x \in Conns : WF_vars(\E ok \in BOOLEAN : ConnectDone(x, ok))
  /\ \A x \in Conns : SF_vars(ConnectDone(x, TRUE))

Spec == Init /\ [][Next]_vars /\ Fairness

-----------------------------------------------------------------------------
TypeOK ==
  /\ cctl \in Seq(Coolers) /\ ctl \in [Coolers -> {"running", "destroyed"}]
  /\ reports \in [Coolers -> 0..MaxReports]
  /\ mq \in Seq(Msg)
  /\ tcp \in Conns \cup {NoConn}
  /\ conn \in [Conns -> {"connecting", "open", "closed"}]
  /\ coupled \in [Coolers -> Conns \cup {NoConn}]
  /\ thr \in [Threads -> {"idle", "run"}] /\ thrd \in Threads \cup {NoThread}
  /\ drops \in 0..MaxDrops /\ crashed \in BOOLEAN

\* on_close_cooler never dereferences a controller that an earlier
\* on_close_cooler already erased (and so never calls erase(end())): a
\* controller whose cbrslt_ fires twice (a read error, then the heartbeat)
\* must not crash the process, whose errors the spec calls non-fatal.
NoUseAfterErase == ~crashed

\* Every controller still in cctl_ writes its reports to the session
\* AnnexControl holds in tcp_, or to none: thread_network never opens a
\* second session while the controllers are coupled to the first.
CoupledToCurrent == \A c \in ToSet(cctl) : coupled[c] \in {NoConn, tcp}

\* The server link is up and every controller reports on it.
Connected == tcp # NoConn /\ conn[tcp] = "open"
             /\ \A c \in ToSet(cctl) : coupled[c] = tcp

\* However often the server session breaks (within MaxDrops), the
\* on_close_network / thread_network / on_connect_network cycle always
\* reconnects and re-couples every controller.
NetworkRecovers == []<>Connected

=============================================================================
