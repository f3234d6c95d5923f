---------------------------- MODULE ControllerBase ----------------------------
(***************************************************************************)
(* One serial port engine (ControllerBase.cpp) with the hooks of one      *)
(* device family filled in (CoolerCtl or VacuumCtl).  Four activities     *)
(* share the directive list drct_ (queue), the device registry allDev_    *)
(* and the family's telemetry table data_:                                *)
(*   thread_cycle     - every 20 s, polls all devices if drct_ is empty;  *)
(*   thread_respond   - woken by cndDrct_, pops the head, sends the next  *)
(*                      one or, when drained, flushes the table;          *)
(*   thread_heartbeat - every 30 s, fires once if nothing was answered;   *)
(*   serial_read      - the transport's read callback: decodes a frame    *)
(*                      into data_ and notifies cndDrct_.                 *)
(* Time moves in ticks of TickSeconds; every other step takes no time.    *)
(* Undefined behaviour (front()/pop_front() of an empty std::list) ends   *)
(* the engine: crashed.                                                   *)
(***************************************************************************)
EXTENDS Naturals, Sequences, SequencesExt, CoolerCtl, VacuumCtl

CONSTANTS
  Family,          \* "cooler" or "vacuum": the subclass of ControllerBase
  Devices,         \* device ids that can be registered on the port
  Registered,      \* ids AddDevice'd by AnnexControl::connect_serial at start
  Readings,        \* values a device may report (0 is the initial 0.0)
  Faults,          \* subset of {"lose", "malformed"}: what the link may do
  SlowLink,        \* TRUE: an answer may take longer than one tick
  SpuriousWakeup,  \* TRUE: cndDrct_.wait may return without a notify
  Writes,          \* TRUE: a client may call Write(idd, idf) once
  Network,         \* TRUE: a server session is coupled and may drop
  Teardown,        \* TRUE: the orchestrator may destroy the controller
  TickSeconds      \* seconds per tick of the model clock

ASSUME /\ Family \in {"cooler", "vacuum"}
       /\ Registered \in Seq(Devices)
       /\ 0 \in Readings
       /\ Faults \subseteq {"lose", "malformed"}
       /\ SlowLink \in BOOLEAN /\ SpuriousWakeup \in BOOLEAN
       /\ Writes \in BOOLEAN /\ Network \in BOOLEAN /\ Teardown \in BOOLEAN
       /\ TickSeconds \in Nat \ {0}

\* boost::chrono::seconds period(20) / period(30), in ticks.
CyclePeriod == 20 \div TickSeconds
HBPeriod    == 30 \div TickSeconds

VARIABLES
  allDev,    \* allDev_: registry, append-only
  table,     \* ids of the data_ records, as set by check_data
  data,      \* data_[d][f]: val = reading, from = function that produced it
  dirty,     \* data_[d].dirty
  logged,    \* readings last written to the log by write_log (history)
  queue,     \* drct_: directives not yet popped
  link,      \* directives written to the port whose answer is not yet read
  cyc,       \* thread_cycle: "sleep" | "send"
  cycT,      \* ticks until thread_cycle wakes
  rsp,       \* thread_respond: "wait" | "settle" | "next" | "log" | "logread"
  logI,      \* write_log loop index into table
  logN,      \* write_log's n = data_.size()
  hb,        \* thread_heartbeat: "run" | "fired"
  hbT,       \* ticks until thread_heartbeat checks
  silence,   \* ticks since tmlast_, capped at HBPeriod
  op,        \* the client's Write (history): "none", appended to an empty
             \* drct_ "idle" or behind other directives "behind", or "sent"
  tcp,       \* tcp_: "none" (null), or a session "open" | "closed"
  crashed,   \* "no", or the undefined behaviour executed: "list" | "session"
             \* | "teardown"
  life       \* "run"; "base" once ~CoolerCtl/~VacuumCtl has run and
             \* ~ControllerBase is in Stop(); "stopped" when Stop() returned

vars == <<allDev, table, data, dirty, logged, queue, link, cyc, cycT,
          rsp, logI, logN, hb, hbT, silence, op, tcp, crashed, life>>

\* The engine process is alive.
Live == crashed = "no"

Monitor == IF Family = "cooler" THEN COOLER_MONITOR ELSE VACUUM_MONITOR
Funcs   == ToSet(Monitor)

\* Function ids only a client's Write sends (CFID_WRITE_COOLSET, VFID_RESET).
OpFuncs == IF Family = "cooler" THEN {CFID_WRITE_COOLSET} ELSE {VFID_RESET}

Directive == [dev : Devices, func : Funcs \cup OpFuncs]

\* The function a decoded frame is attributed to (virtual decode_data).
FrameFunc(f) == IF Family = "cooler" THEN CoolerFrameFunc(f, queue)
                                     ELSE VacuumFrameFunc(f, queue)

\* CoolerCtl/VacuumCtl::generate_directive(idd): one directive per
\* function of the monitor list, appended in order.
generate_directive(idd) == [j \in 1..Len(Monitor) |-> [dev |-> idd, func |-> Monitor[j]]]

\* Mutation variant: generate_directive called with the loop index i
\* instead of allDev_[i].
PollBatchByIndex(ids) == FlattenSeq([i \in 1..Len(ids) |-> generate_directive(i)])

\* generate_directive(allDev_[i]) for every registered id, in registry order.
PollBatch(ids) == FlattenSeq([i \in 1..Len(ids) |-> generate_directive(ids[i])])

\* check_data(nDev): data_ is resized and its ids set from allDev_ only
\* when the number of devices changed.
check_data(n) == IF n # Len(table) THEN SubSeq(allDev, 1, n) ELSE table

\* append_directive: drct_.push_back under mtxDrct_.
append_directive(d) == queue' = Append(queue, d)

\* remove_directive: drct_.pop_front() under mtxDrct_; pop_front() of an
\* empty list is undefined.
remove_directive ==
  IF queue = <<>>
    THEN crashed' = "list" /\ UNCHANGED queue
    ELSE queue' = Tail(queue) /\ UNCHANGED crashed

\* first_send(): write drct_.front() to the port; front() of an empty list
\* is undefined.
first_send ==
  IF queue = <<>>
    THEN crashed' = "list" /\ UNCHANGED <<link, op>>
    ELSE /\ link' = Append(link, Head(queue))
         /\ op' = IF Head(queue).func \in OpFuncs THEN "sent" ELSE op
         /\ UNCHANGED crashed

\* Mutation variant: a setter that stores the value but forgets dirty = true.
StoreNoDirty(d, f, v, src) ==
  IF d \in ToSet(table) /\ f \in Funcs /\ data[d][f].val # v
    THEN data' = [data EXCEPT ![d][f] = [val |-> v, from |-> src]] /\ UNCHANGED dirty
    ELSE UNCHANGED <<data, dirty>>

\* The set_voltage/set_current/... setters: store and mark dirty only when
\* the value differs; find_device ignores ids without a record, and a
\* function id without a setter (an echoed write) stores nothing.
Store(d, f, v, src) ==
  IF d \in ToSet(table) /\ f \in Funcs /\ data[d][f].val # v
    THEN /\ data'  = [data EXCEPT ![d][f] = [val |-> v, from |-> src]]
         /\ dirty' = [dirty EXCEPT ![d] = TRUE]
    ELSE UNCHANGED <<data, dirty>>

\* cndDrct_.notify_one(): wakes thread_respond only if it is waiting.
Notify == IF rsp = "wait" THEN rsp' = "settle" ELSE UNCHANGED rsp

Readout(d) == [f \in Funcs |-> data[d][f].val]

-----------------------------------------------------------------------------
Init ==
  /\ allDev  = Registered
  /\ table   = <<>>
  /\ data    = [d \in Devices |-> [f \in Funcs |-> [val |-> 0, from |-> f]]]
  /\ dirty   = [d \in Devices |-> FALSE]
  /\ logged  = [d \in Devices |-> [f \in Funcs |-> 0]]
  /\ queue   = <<>>
  /\ link    = <<>>
  /\ cyc = "sleep" /\ cycT = 0
  /\ rsp = "wait"  /\ logI = 1 /\ logN = 0
  /\ hb = "run"    /\ hbT = HBPeriod /\ silence = 0
  /\ op = "none"
  /\ tcp = IF Network THEN "open" ELSE "none"
  /\ crashed = "no"
  /\ life = "run"

\* AddDevice(idd): append idd to allDev_ unless already present.
AddDevice(d) ==
  /\ Live /\ life = "run"
  /\ d \notin ToSet(allDev)
  /\ allDev' = Append(allDev, d)
  /\ UNCHANGED <<life, table, data, dirty, logged, queue, link, cyc, cycT,
                 rsp, logI, logN, hb, hbT, silence, op, tcp, crashed>>

\* Mutation variant: n = allDev_.size() read once, before the loop.
CycleCheckCountAtStart ==
  /\ Live /\ cyc = "sleep" /\ cycT = 0
  /\ queue # <<>> \/ life = "run"
  /\ IF queue = <<>>
       THEN /\ table' = check_data(Len(Registered))
            /\ queue' = PollBatch(SubSeq(allDev, 1, Len(Registered)))
            /\ cyc'   = "send"
            /\ UNCHANGED cycT
       ELSE /\ cycT' = CyclePeriod
            /\ UNCHANGED <<table, queue, cyc>>
  /\ UNCHANGED <<life, allDev, data, dirty, logged, link, rsp, logI, logN,
                 hb, hbT, silence, op, tcp, crashed>>

\* thread_cycle after its sleep: if drct_ is empty, check_data(n) and
\* generate_directive for all ids, then go on to first_send; else sleep.
CycleCheck ==
  /\ Live /\ cyc = "sleep" /\ cycT = 0
  /\ queue # <<>> \/ life = "run"
  /\ IF queue = <<>>
       THEN /\ table' = check_data(Len(allDev))
            /\ queue' = PollBatch(allDev)
            /\ cyc'   = "send"
            /\ UNCHANGED cycT
       ELSE /\ cycT' = CyclePeriod
            /\ UNCHANGED <<table, queue, cyc>>
  /\ UNCHANGED <<life, allDev, data, dirty, logged, link, rsp, logI, logN,
                 hb, hbT, silence, op, tcp, crashed>>

\* thread_cycle: first_send() after generating, then sleep(period).
CycleSend ==
  /\ Live /\ cyc = "send"
  /\ first_send
  /\ cyc' = "sleep" /\ cycT' = CyclePeriod
  /\ UNCHANGED <<life, allDev, table, data, dirty, logged, queue, rsp, logI, logN,
                 hb, hbT, silence, tcp>>

\* cndDrct_.wait returns although nobody notified.
RespondSpurious ==
  /\ Live /\ SpuriousWakeup /\ rsp = "wait"
  /\ rsp' = "settle"
  /\ UNCHANGED <<life, allDev, table, data, dirty, logged, queue, link, cyc, cycT,
                 logI, logN, hb, hbT, silence, op, tcp, crashed>>

\* Mutation variant: thread_respond without tmlast_ = now.
RespondPopStale ==
  /\ Live /\ rsp = "settle"
  /\ remove_directive
  /\ rsp' = "next"
  /\ UNCHANGED <<life, allDev, table, data, dirty, logged, link, cyc, cycT,
                 logI, logN, hb, hbT, silence, op, tcp>>

\* Mutation variant: thread_respond without remove_directive().
RespondPopNoRemove ==
  /\ Live /\ rsp = "settle"
  /\ silence' = 0
  /\ rsp' = "next"
  /\ UNCHANGED <<life, allDev, table, data, dirty, logged, queue, link, cyc, cycT,
                 logI, logN, hb, hbT, op, tcp, crashed>>

\* thread_respond after the 100 ms settle: tmlast_ = now; remove_directive().
RespondPop ==
  /\ Live /\ rsp = "settle"
  /\ silence' = 0
  /\ remove_directive
  /\ rsp' = "next"
  /\ UNCHANGED <<life, allDev, table, data, dirty, logged, link, cyc, cycT,
                 logI, logN, hb, hbT, op, tcp>>

\* Mutation variant: thread_respond calls first_send() without checking
\* drct_.size().
RespondNextUnchecked ==
  /\ Live /\ rsp = "next"
  /\ first_send
  /\ rsp' = "wait"
  /\ UNCHANGED <<life, allDev, table, data, dirty, logged, queue, cyc, cycT,
                 logI, logN, hb, hbT, silence, tcp>>

\* thread_respond: if drct_.size() first_send() and wait again, else start
\* the flush with write_log().
RespondNext ==
  /\ Live /\ rsp = "next"
  /\ queue # <<>> \/ life = "run"
  /\ IF queue # <<>>
       THEN /\ first_send
            /\ rsp' = "wait"
            /\ UNCHANGED <<logI, logN>>
       ELSE /\ rsp' = "log" /\ logI' = 1 /\ logN' = Len(table)
            /\ UNCHANGED <<link, op, crashed>>
  /\ UNCHANGED <<life, allDev, table, data, dirty, logged, queue, cyc, cycT,
                 hb, hbT, silence, tcp>>

\* write_log(): a clean record is skipped; a dirty one has dirty cleared...
LogClear ==
  /\ Live /\ life = "run" /\ rsp = "log" /\ logI <= logN
  /\ LET d == table[logI] IN
       IF dirty[d]
         THEN dirty' = [dirty EXCEPT ![d] = FALSE] /\ rsp' = "logread"
                /\ UNCHANGED logI
         ELSE logI' = logI + 1 /\ UNCHANGED <<dirty, rsp>>
  /\ UNCHANGED <<life, allDev, table, data, logged, queue, link, cyc, cycT,
                 logN, hb, hbT, silence, op, tcp, crashed>>

\* ...and then its values are read into the log line.
LogRead ==
  /\ Live /\ life = "run" /\ rsp = "logread"
  /\ logged' = [logged EXCEPT ![table[logI]] = Readout(table[logI])]
  /\ logI' = logI + 1 /\ rsp' = "log"
  /\ UNCHANGED <<life, allDev, table, data, dirty, queue, link, cyc, cycT,
                 logN, hb, hbT, silence, op, tcp, crashed>>

\* End of write_log; upload_database() only reads the table.  Then
\* "if (tcp_.use_count() && tcp_->IsOpen()) network_respond()", without
\* mtxNet_; otherwise thread_respond waits on cndDrct_ again.
FlushDone ==
  /\ Live /\ life = "run" /\ rsp = "log" /\ logI > logN
  /\ IF tcp = "open"
       THEN rsp' = "net" /\ logI' = 1
       ELSE rsp' = "wait" /\ UNCHANGED logI
  /\ UNCHANGED <<life, allDev, table, data, dirty, logged, queue, link, cyc, cycT,
                 logN, hb, hbT, silence, op, tcp, crashed>>

\* network_respond(): one tcp_->Write per record of data_; tcp_ is read
\* again on every iteration, and a null tcp_ is dereferenced.
NetWrite ==
  /\ Live /\ life = "run" /\ rsp = "net" /\ logI <= logN
  /\ IF tcp = "none"
       THEN crashed' = "session" /\ UNCHANGED logI
       ELSE logI' = logI + 1 /\ UNCHANGED crashed
  /\ UNCHANGED <<life, allDev, table, data, dirty, logged, queue, link, cyc, cycT,
                 rsp, logN, hb, hbT, silence, op, tcp>>

\* End of network_respond: thread_respond waits on cndDrct_ again.
NetDone ==
  /\ Live /\ life = "run" /\ rsp = "net" /\ logI > logN
  /\ rsp' = "wait"
  /\ UNCHANGED <<life, allDev, table, data, dirty, logged, queue, link, cyc, cycT,
                 logI, logN, hb, hbT, silence, op, tcp, crashed>>

\* Mutation variant: Write inserting at the front of drct_.
OperatorWriteFront(d, f) ==
  /\ Live /\ life = "run" /\ Writes /\ op = "none"
  /\ queue' = <<[dev |-> d, func |-> f]>> \o queue
  /\ op' = IF queue = <<>> THEN "idle" ELSE "behind"
  /\ UNCHANGED <<life, allDev, table, data, dirty, logged, link, cyc, cycT,
                 rsp, logI, logN, hb, hbT, silence, tcp, crashed>>

\* A client's Write(idd, idf): encode_data and append_directive(), nothing
\* else; the directive waits for whoever calls first_send next.  One Write
\* per behaviour (op = "none") bounds the model.
OperatorWrite(d, f) ==
  /\ Live /\ life = "run" /\ Writes /\ op = "none"
  /\ append_directive([dev |-> d, func |-> f])
  /\ op' = IF queue = <<>> THEN "idle" ELSE "behind"
  /\ UNCHANGED <<life, allDev, table, data, dirty, logged, link, cyc, cycT,
                 rsp, logI, logN, hb, hbT, silence, tcp, crashed>>

\* The server session breaks: tcp_->IsOpen() turns false.
SessionDrop ==
  /\ Live /\ Network /\ tcp = "open"
  /\ tcp' = "closed"
  /\ UNCHANGED <<life, allDev, table, data, dirty, logged, queue, link, cyc, cycT,
                 rsp, logI, logN, hb, hbT, silence, op, crashed>>

\* DecoupleNetwork(), called by the orchestrator when the broken session
\* reports its close: tcp_.reset() under mtxNet_.
DecoupleNetwork ==
  /\ Live /\ life = "run" /\ Network /\ tcp = "closed"
  /\ tcp' = "none"
  /\ UNCHANGED <<life, allDev, table, data, dirty, logged, queue, link, cyc, cycT,
                 rsp, logI, logN, hb, hbT, silence, op, crashed>>

\* CoupleNetwork(session) with a newly connected session:
\* "if (!tcp_.use_count()) tcp_ = session".
CoupleNetwork ==
  /\ Live /\ life = "run" /\ Network /\ tcp = "none"
  /\ tcp' = "open"
  /\ UNCHANGED <<life, allDev, table, data, dirty, logged, queue, link, cyc, cycT,
                 rsp, logI, logN, hb, hbT, silence, op, crashed>>

\* serial_read with a complete, well-formed frame answering Head(link):
\* decode_data stores reading v and returns 0, so cndDrct_ is notified.
\* The vacuum decoder reads drct_.front(), undefined on an empty list.
ReadFrame(v) ==
  /\ Live /\ life = "run" /\ link # <<>>
  /\ link' = Tail(link)
  /\ IF Family = "vacuum" /\ queue = <<>>
       THEN crashed' = "list" /\ UNCHANGED <<data, dirty, rsp>>
       ELSE /\ Store(Head(link).dev, FrameFunc(Head(link).func), v, Head(link).func)
            /\ Notify
            /\ UNCHANGED crashed
  /\ UNCHANGED <<life, allDev, table, logged, queue, cyc, cycT, logI, logN,
                 hb, hbT, silence, op, tcp>>

\* serial_read with a frame failing decode_data's length checks: no notify.
ReadMalformed ==
  /\ Live /\ life = "run" /\ "malformed" \in Faults /\ link # <<>>
  /\ link' = Tail(link)
  /\ UNCHANGED <<life, allDev, table, data, dirty, logged, queue, cyc, cycT,
                 rsp, logI, logN, hb, hbT, silence, op, tcp, crashed>>

\* The device never answers (or the answer is lost on the line).
LoseFrame ==
  /\ Live /\ "lose" \in Faults /\ link # <<>>
  /\ link' = Tail(link)
  /\ UNCHANGED <<life, allDev, table, data, dirty, logged, queue, cyc, cycT,
                 rsp, logI, logN, hb, hbT, silence, op, tcp, crashed>>

\* Mutation variant: thread_heartbeat with its loop condition inverted.
HeartbeatCheckInverted ==
  /\ Live /\ hb = "run" /\ hbT = 0
  /\ IF silence >= HBPeriod
       THEN hbT' = HBPeriod /\ UNCHANGED hb
       ELSE hb' = "fired" /\ UNCHANGED hbT
  /\ UNCHANGED <<life, allDev, table, data, dirty, logged, queue, link, cyc, cycT,
                 rsp, logI, logN, silence, op, tcp, crashed>>

\* thread_heartbeat after sleep(period): loop while now - tmlast_ < 30 s,
\* else call back with code 3 and leave the thread.
HeartbeatCheck ==
  /\ Live /\ hb = "run" /\ hbT = 0
  /\ IF silence < HBPeriod
       THEN hbT' = HBPeriod /\ UNCHANGED hb
       ELSE hb' = "fired" /\ UNCHANGED hbT
  /\ UNCHANGED <<life, allDev, table, data, dirty, logged, queue, link, cyc, cycT,
                 rsp, logI, logN, silence, op, tcp, crashed>>

\* The clock advances once every thread is blocked on a timer or on
\* cndDrct_ and, on a prompt link, every answer has been read.
Tick ==
  /\ Live
  /\ cyc = "sleep" /\ cycT > 0
  /\ hb \in {"fired", "ended"} \/ hbT > 0
  /\ rsp = "wait"
  /\ SlowLink \/ link = <<>>
  /\ cycT' = cycT - 1
  /\ hbT' = IF hb = "run" THEN hbT - 1 ELSE hbT
  /\ silence' = IF silence < HBPeriod THEN silence + 1 ELSE silence
  /\ UNCHANGED <<life, allDev, table, data, dirty, logged, queue, link, cyc,
                 rsp, logI, logN, hb, op, tcp, crashed>>

\* The orchestrator destroys the controller (on_close_cooler's erase of the
\* last shared_ptr, or cctl_'s destruction at process exit): ~CoolerCtl /
\* ~VacuumCtl runs first and destroys data_, then ~ControllerBase calls
\* Stop() while the three loops still run.
Destroy ==
  /\ Live /\ Teardown /\ life = "run"
  /\ life' = "base"
  /\ UNCHANGED <<allDev, table, data, dirty, logged, queue, link, cyc, cycT,
                 rsp, logI, logN, hb, hbT, silence, op, tcp, crashed>>

\* A loop, or serial_read, reaches a call of a pure virtual hook after the
\* subclass is gone: check_data/generate_directive (thread_cycle with an
\* empty drct_), write_log/network_respond (thread_respond's flush, or
\* inside it), decode_data (an answer read by serial_read).
CallsHook ==
  \/ cyc = "sleep" /\ cycT = 0 /\ queue = <<>>
  \/ rsp = "next" /\ queue = <<>>
  \/ rsp \in {"log", "logread", "net"}
  \/ link # <<>>

CallDestroyed ==
  /\ Live /\ life # "run" /\ CallsHook
  /\ crashed' = "teardown"
  /\ UNCHANGED <<allDev, table, data, dirty, logged, queue, link, cyc, cycT,
                 rsp, logI, logN, hb, hbT, silence, op, tcp, life>>

\* Stop(), first interrupt_thread(thrdHB_): interrupt() wakes the sleeping
\* heartbeat, join() returns once it has left; a heartbeat that already
\* fired has returned.
StopHeartbeat ==
  /\ Live /\ life = "base" /\ hb # "ended"
  /\ hb = "fired" \/ hbT > 0
  /\ hb' = "ended"
  /\ UNCHANGED <<allDev, table, data, dirty, logged, queue, link, cyc, cycT,
                 rsp, logI, logN, hbT, silence, op, tcp, crashed, life>>

\* Mutation variant: interrupt_thread without thrd->interrupt(): join()
\* waits for thread_respond to return, which its while(1) never does.
StopRespondUninterrupted ==
  /\ Live /\ life = "base" /\ hb = "ended" /\ rsp = "returned"
  /\ rsp' = "ended"
  /\ UNCHANGED <<allDev, table, data, dirty, logged, queue, link, cyc, cycT,
                 logI, logN, hb, hbT, silence, op, tcp, crashed, life>>

\* interrupt_thread(thrdRespond_): cndDrct_.wait and the 100 ms settle
\* sleep are interruption points; a thread between them runs on to the
\* next one.
StopRespond ==
  /\ Live /\ life = "base" /\ hb = "ended" /\ rsp \in {"wait", "settle"}
  /\ rsp' = "ended"
  /\ UNCHANGED <<allDev, table, data, dirty, logged, queue, link, cyc, cycT,
                 logI, logN, hb, hbT, silence, op, tcp, crashed, life>>

\* interrupt_thread(thrdCycle_): the 20 s sleep is the interruption point;
\* with thrdCycle_ joined Stop() returns.
StopCycle ==
  /\ Live /\ life = "base" /\ rsp = "ended" /\ cyc = "sleep" /\ cycT > 0
  /\ cyc' = "ended" /\ life' = "stopped"
  /\ UNCHANGED <<allDev, table, data, dirty, logged, queue, link, cycT,
                 rsp, logI, logN, hb, hbT, silence, op, tcp, crashed>>

Stop == StopHeartbeat \/ StopRespond \/ StopCycle

Cycle     == CycleCheck \/ CycleSend
\* The process has died of undefined behaviour, or the controller has been
\* destroyed: nothing happens any more.
Halted == (~Live \/ life = "stopped") /\ UNCHANGED vars

Respond   == RespondPop \/ RespondNext \/ LogClear \/ LogRead \/ FlushDone
             \/ NetWrite \/ NetDone
Transport == (\E v \in Readings : ReadFrame(v)) \/ ReadMalformed \/ LoseFrame
Session   == SessionDrop \/ DecoupleNetwork \/ CoupleNetwork

Next ==
  \/ \E d \in Devices : AddDevice(d)
  \/ \E d \in Devices, f \in OpFuncs : OperatorWrite(d, f)
  \/ Session
  \/ Halted
  \/ Cycle
  \/ RespondSpurious
  \/ Respond
  \/ Transport
  \/ HeartbeatCheck
  \/ Tick
  \/ Destroy \/ Stop \/ CallDestroyed

\* Every thread that can run eventually does; a frame on the line is
\* eventually read; time does not stop.
Fairness ==
  /\ WF_vars(Cycle) /\ WF_vars(Respond) /\ WF_vars(Transport)
  /\ WF_vars(HeartbeatCheck) /\ WF_vars(Tick)
  /\ WF_vars(Stop) /\ WF_vars(CallDestroyed)

Spec == Init /\ [][Next]_vars /\ Fairness

-----------------------------------------------------------------------------
TypeOK ==
  /\ allDev \in Seq(Devices) /\ table \in Seq(Devices)
  /\ data \in [Devices -> [Funcs -> [val : Readings, from : Funcs \cup OpFuncs]]]
  /\ dirty \in [Devices -> BOOLEAN]
  /\ logged \in [Devices -> [Funcs -> Readings]]
  /\ queue \in Seq(Directive) /\ link \in Seq(Directive)
  /\ cyc \in {"sleep", "send", "ended"} /\ cycT \in 0..CyclePeriod
  /\ rsp \in {"wait", "settle", "next", "log", "logread", "net", "ended"}
  /\ logI \in Nat /\ logN \in Nat
  /\ op \in {"none", "idle", "behind", "sent"}
  /\ tcp \in {"none", "open", "closed"}
  /\ hb \in {"run", "fired", "ended"} /\ hbT \in 0..HBPeriod
  /\ silence \in 0..HBPeriod
  /\ crashed \in {"no", "list", "session", "teardown"}
  /\ life \in {"run", "base", "stopped"}

\* The engine never executes front() or pop_front() on an empty drct_
\* (first_send, remove_directive, VacuumCtl::decode_data).
NoUndefinedBehaviour == crashed # "list"

\* A device AddDevice registers while the engine runs is polled by a later
\* batch: thread_cycle re-reads allDev_.size() on every pass, so the id
\* lands in drct_ once the list drains, unless the list stalls for good
\* (then thread_heartbeat reports the port), the process dies, or the
\* controller is destroyed.
AddedDevicePolled ==
  \A d \in Devices :
    d \in ToSet(allDev) ~>
      \/ \E i \in DOMAIN queue : queue[i].dev = d
      \/ hb = "fired" \/ ~Live \/ life # "run"

\* write_log never loses a change made by serial_read: every record is
\* dirty or its current readings are the ones last logged (except the
\* record write_log is reading right now).
LogNeverMissesChange ==
  \A i \in 1..Len(table) :
    \/ dirty[table[i]]
    \/ logged[table[i]] = Readout(table[i])
    \/ rsp = "logread" /\ table[logI] = table[i]

\* On a link that answers every directive within a tick, the 20 s poll keeps
\* tmlast_ fresh and thread_heartbeat never raises code 3.
NoFalseAlarm == hb = "run"

\* A stalled directive list is always noticed: the queue drains again and
\* again, or thread_heartbeat fires, for as long as the orchestrator keeps
\* the controller.
StallDetected == []<>(queue = <<>> \/ hb = "fired" \/ life # "run")

\* What the spec promises: the queue advances past every answer, malformed
\* or not, so it drains again and again.
QueueDrains == []<>(queue = <<>>)

\* network_respond never writes through a null tcp_: the spec (section 5)
\* requires the engine to tolerate DecoupleNetwork during a flush, while
\* thread_respond checks tcp_ once and uses it unlocked afterwards.
NoNullSession == crashed # "session"

\* A directive a client Writes is eventually transmitted by first_send,
\* whatever state the engine was in when append_directive ran.
WriteEventuallySent == op \in {"idle", "behind"} ~> op = "sent"

\* A directive a client Writes while a poll batch is still in drct_ is sent
\* in its turn, thread_respond's "if (drct_.size()) first_send()" reaching
\* it, unless the link dies first and the heartbeat reports it (a lost or
\* malformed answer stalls the whole list) or the controller is destroyed.
WriteBehindPollSent == op = "behind" ~> (op = "sent" \/ hb = "fired" \/ life # "run")

\* ~ControllerBase's Stop() never blocks for good: interrupt_thread wakes
\* each loop at its sleep or cndDrct_.wait and joins it, so the destructor
\* returns, unless a loop first calls into the destroyed subclass and the
\* process aborts.
StopTerminates == life = "base" ~> (life = "stopped" \/ ~Live)

\* The directive list implements DirectiveQueue: drct_ is the pending list,
\* allDev_ the registry, and the head is on the wire from first_send until
\* remove_directive, while its answer is on the link or thread_respond has
\* been woken for it.  On a prompt link that neither loses nor garbles an
\* answer, thread_cycle, thread_respond and serial_read together send one
\* directive at a time, in order, and poll only an empty list.
Queue == INSTANCE DirectiveQueue
           WITH Ids <- Devices, Directives <- Directive, InitReg <- Registered,
                Batch <- PollBatch, pending <- queue, reg <- allDev,
                onwire <- (link # <<>> \/ rsp = "settle")
QueueRefinement == Queue!Spec
=============================================================================
