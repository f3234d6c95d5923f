# TLA+ models of camannex

camannex is a daemon that polls the serial-line annex devices of a camera:
thermo-electric coolers and vacuum gauges. It logs their telemetry, uploads
it to a database and forwards it to a control server over TCP. This directory
holds the TLA+ models of its control path and the TLC configurations that
check them.

## 1. The system (inventory)

| Part | Source | State | Operations |
|------|--------|-------|------------|
| Serial engine `ControllerBase` | `src/src/ControllerBase.{h,cpp}` | `drct_` (directive list, guarded by `mtxDrct_` only in `append_directive` and `remove_directive`), `allDev_`, `tmlast_`, `cndDrct_`, `tcp_`, `db_` | `Start`, `Stop`, `AddDevice`, `Write` (3 overloads), `CoupleNetwork`, `DecoupleNetwork`, `SetDatabase`; threads `thread_cycle`, `thread_respond`, `thread_heartbeat`; callbacks `serial_read`, `serial_write` |
| Cooler family `CoolerCtl` | `src/src/CoolerCtl.{h,cpp}` | `data_` (one `CoolerData` per device, with a `dirty` flag) | `check_data`, `generate_directive`, `encode_data`, `decode_data`, `write_log`, `upload_database`, `network_respond`, the `set_*` setters |
| Vacuum family `VacuumCtl` | `src/src/VacuumCtl.{h,cpp}` | `data_` (`VacuumData`) | the same hooks. `decode_data` takes the function id from `drct_.front()`. `upload_database` is empty |
| Orchestrator `AnnexControl` | `src/src/AnnexControl.cpp` | `cctl_`, `vctl_`, `tcp_`, `thrdnetwork_` | `StartService`, `StopService`, `connect_*`, the `on_close_*` callbacks, `thread_network`; events arrive as messages of its base `MessageQueue` (not in the repository) |
| Text protocol `AsciiProtocol` | `src/src/AsciiProtocol.cpp` | output buffer | `CompactCooler`, `CompactVacuum`, `Resolve` |
| Numeric library `AMath` | `src/src/AMath.cpp` | none: pure functions on caller arrays | matrix product, transpose, in-place inverse, `LSLinearSolve`; `CubicSpline`, `Lagrange`, `Bilinear`, the `spline`/`splint`/`spline2`/`splint2` family; astronomy, photometry and fitting routines |
| Daemon, configuration | `camannex.cpp`, `parameter.h` | `camannex.xml`, the `param_config` of the running daemon | `main` (`-d` writes the defaults; otherwise the service), `InitFile`, `LoadFile` |
| Transports | `SerialComm`, `tcpasio`, `DataTransfer`, `GLog` (used, not in the repository) | sockets, files | I/O |

### How the parts interact

- Each serial port has one controller object and three threads.
- **`thread_cycle`** wakes every 20 s. If `drct_` is empty it does three things:
  - it sizes `data_` to the registry (`check_data`);
  - it appends one directive per monitored function per device (`generate_directive`);
  - it writes the head of the list to the port (`first_send`).
- **The transport** calls **`serial_read`** when bytes arrive. `serial_read` cuts a frame and hands it to `decode_data`. `decode_data` stores the value through a setter, and the setter marks the record dirty when the value changed. If decoding succeeded, `serial_read` calls `cndDrct_.notify_one()`.
- **`thread_respond`** waits on `cndDrct_`, sleeps 100 ms, sets `tmlast_` and pops the head of `drct_`. Then:
  - if the list is not empty, it sends the next directive;
  - otherwise it calls `write_log`, `upload_database` and `network_respond`.
- **`thread_heartbeat`** checks every 30 s whether anything was answered in the last 30 s. If nothing was, it calls the owner's callback with code 3 and ends.

### What is hard in this code

- **Nothing serialises the steps.**
  - `drct_.size()` is read without the lock.
  - The condition wait uses a dummy mutex and has no predicate, so a notify with no waiter is lost and spurious wakeups are possible.
  - A late, lost or malformed answer changes which thread sends next.
  - The vacuum decoder reads `drct_.front()` from the transport's thread.
- **Undefined behaviour.** `front()` or `pop_front()` on an empty `std::list` is undefined behaviour, and several interleavings reach it.
- **Buffer size.** `Directive::msg` is 30 bytes, and a 10+ character value overflows it.
- **Teardown.** The three threads hold a raw `this`. `~CoolerCtl` runs before `~ControllerBase` calls `Stop()`, so until each loop is joined it can call a pure virtual hook of a half-destroyed object.

## 2. Modules

| Module | Models | State and actions |
|--------|--------|-------------------|
| `CoolerCtl` | constants and pure codec of `CoolerCtl.cpp`, with the formatting, `decode_uint8` and frame search of `ControllerBase.cpp` | Operators only. `COOLER_MONITOR`, the `CFID_*` ids, `CoolerEncode` (`encode_data`), `CoolerDecode` (`decode_data`'s parse), `decode_uint8`, `FmtInt` (`"%d"`), `Fmt1f` (`"%.1f"`), `AtofTenths` (`atof`), `CoolerFrameFunc` (the cooler takes the function id from the frame). `CoolerHead`/`CoolerTail` are the constructor's markers. `FrameAt`/`Frame` are `serial_read`'s search: the head marker, then the tail marker from there, then `Read` of `itail - ihead + ntail_` bytes. `Lookup` and `LRC` belong to classes that are not in the repository and are modelled from the spec. |
| `VacuumCtl` | constants and codec of `VacuumCtl.{h,cpp}` | `VACUUM_MONITOR`, the `VFID_*` ids, `VacuumFrameFunc` (the function id is `drct_.front().idf`). `VacuumHead`/`VacuumTail` (no head, CR). `VacuumEncode`, `VacuumDecode` (the length check and the pair loop), `find_device`, `VacuumSetter`, `VacuumStore`. |
| `AsciiProtocol` | `AsciiProtocol.cpp` | Operators only. `CompactCooler`, `CompactVacuum` (`join_kv`, `output_compacted`), `Resolve`, `resolve_kv`, `resolve_cooler`, `resolve_vacuum`. Keywords are single symbols, so splitting never looks inside them. |
| `ControllerBase` | one port's engine with one family plugged in | See below |
| `DirectiveQueue` | the abstract directive list of spec section 5 | `pending`, `onwire`, `reg`. Actions `Register`, `Poll` (only an empty list), `Write` (to the tail), `Transmit` (one at a time), `Complete`; weak fairness of the last three. |
| `MCControllerBase` | model values and the bound `LinkBound` for TLC | |
| `CoolerCodec` | three independent channels | The cooler codec: `WritePlain`/`WriteInt`/`WriteDouble` build a frame into `msg[30]`, and `DecodeEcho(noise)` finds the echoed frame after stray bytes and decodes it. The report line: `SendCoolerReport`/`SendVacuumReport`, one iteration of `network_respond`. The vacuum poll: `VacuumPoll` (`generate_directive`'s frame), `VacuumReply` (the gauge's answer, framed and decoded and stored). |
| `AMath` | the exact-arithmetic routines of `AMath.cpp` | A `double` is an exact rational `[num, den]`. One absorbing value, `NonFinite`, stands for inf and NaN: every operation on it gives `NonFinite`, and every comparison with it is false. Arrays keep their 0-based indices, and an N x N array is a function on `0..N-1 \X 0..N-1`. The routines are operators: `MatRealMult`, `MatTrans`, `MatInvert` (its first loop column by column as `LUColumn`, with `PivotRow`, the singular test `BelowZr` and `SwapRows`, then `ScaleUpper`, `InvUpperCol`, `InvLowerCol`, `ProductCol` and `SwapCols`), `LSLinearSolve`, `Bilinear`, `Lagrange` (`LagrangeOrder`, `LagrangeWindow`, `LagrangeAt`), `CubicSpline` (`SplineMoments`, `SplineInterval`), `spline`, `splint` with `Bisect`, `spline2` and `splint2`, `SwapEndian` (`SwapCell`) and `TestSwapEndian` on a host of either byte order (`Layout`), `Correlation`, and `GaussFit2D` (`GaussBasis`, `GaussNormal` for the loop that builds the normal equations, `GaussFitResult` for what follows the solve). `MatInvert` and `LSLinearSolve` hand each intermediate result to the next operator (`LUInverse`, `SolveWith`) as an argument: TLC evaluates an argument once, whereas a `LET` name is evaluated again at each use when coverage is collected. `sqrt`, `log` and `exp` are not rational. `Correlation` is therefore kept as its sign and its square. `GaussFit2D` takes each point's `log(z)` as an input, and returns `ln A` and `sigma^2` in place of `A` and `sigma`. `AMAX`, the "natural end" argument, is the sentinel `Natural`. The state is `call`, the last call with its arguments and result. There is one action per routine called (`CallMatInvert`, ... `CallSplint2`, `CallSwapEndian`, `CallCorrelation`, `CallGaussFit2D`) and `Return`. |
| `MCCoolerCodec` | input sets at the hex, `int`, sign and unit-id boundaries, and line noise; the AMath inputs; the composition `MCSpec` | `MCSpec` runs the codec channels, the AMath calls and `Parameter` (as `P`, an instance) one after the other. An AMath call is made from the initial state and returns to it, and the daemon's runs also start from the initial state, so the three sets of states add instead of multiplying. |
| `PTree` | the texts `boost::property_tree` writes and `get` parses | `Dec(n)` (an `int`, or a `uint8_t`, which ptree's stream translator writes as a decimal number), `Str(s)`, `Absent`; `GetInt`/`GetStr`, which return the default when the text is missing or does not parse; `NoFile`, `Corrupt` (files `read_xml` throws on) |
| `Parameter` | `parameter.h` and `main` across daemon runs | State: `file` (`camannex.xml`), `mem` (the running daemon's `param_config`), `used` (what the last run's `StartService` read) and `edited`. `InitFileFile`/`InitFileMem` are what `InitFile` writes and fills, with node3's assignments to `avacuum`. `LoadFileMem`, `LoadAnnex` and `LoadId` are `LoadFile` with every default. Actions: `WriteDefaults` (`camannex -d`), `EditFile` (an operator), `StartDaemon` (the `AnnexControl` constructor's `LoadFile`, with its `InitFile` fallback), `StopDaemon` (a signal). |
| `AnnexControl` | the orchestrator after `StartService`: its message queue, the cooler controllers in `cctl_`, the server client in `tcp_` and `thread_network` | See below |
| `MCAnnexControl` | two ports, three client objects, two thread objects | |

### `ControllerBase` state and actions

**Variables and what they stand for in the code:**

| Variable | Code |
|----------|------|
| `queue` | `drct_` (each directive is a `[dev, func]` record, and `msg` is abstracted) |
| `link` | directives written to the port whose answer is not yet read |
| `allDev` | `allDev_` |
| `table` | the ids of `data_` |
| `data[d][f].val` | the stored reading |
| `data[d][f].from` | a ghost: the function whose answer produced the value |
| `dirty` | `data_[i].dirty` |
| `logged` | a ghost: the values `write_log` last wrote |
| `cyc` / `cycT` | `thread_cycle`'s phase (`sleep`, `send`, `ended`) and timer |
| `rsp` | the program counter of `thread_respond`, one value per step: `wait`, `settle`, `next`, `log`, `logread`, `net` (the `network_respond` loop), `ended` |
| `logI` / `logN` | the `write_log` loop |
| `hb` / `hbT` | `thread_heartbeat`: `run`, `fired` (returned after code 3), `ended` (joined) |
| `silence` | ticks since `tmlast_` |
| `crashed` | `"no"`, or the undefined behaviour executed: `"list"` (`front`/`pop_front` on an empty `drct_`), `"session"` (`network_respond` through a null `tcp_`) or `"teardown"` (a pure virtual hook called on a half-destroyed controller) |
| `life` | `"run"`; `"base"` once `~CoolerCtl` has run and `~ControllerBase` is in `Stop()`; `"stopped"` when `Stop()` returned |
| `op` | a ghost: the client's `Write` directive, `"none"`, `"idle"` (written to an empty `drct_`), `"behind"` (written behind a queued batch) or `"sent"` |
| `tcp` | `ControllerBase::tcp_`: `"none"`, `"open"` or `"closed"` (coupled, but `IsOpen()` is false) |

**Actions and the code they model:**

| Action | Code |
|--------|------|
| `AddDevice` | `AddDevice` |
| `CycleCheck` | the `drct_.size()` test, `check_data` and the `generate_directive` loop (`PollBatch`) |
| `CycleSend` | `first_send` and the sleep |
| `RespondSpurious` | a wakeup without a notify |
| `RespondPop` | the 100 ms sleep, `tmlast_`, `remove_directive` |
| `RespondNext` | the size test and `first_send`, or the start of `write_log` |
| `LogClear` / `LogRead` | one `write_log` iteration, split where `serial_read` can interleave |
| `FlushDone` | `upload_database`, then the unlocked test `tcp_.use_count() && tcp_->IsOpen()` |
| `NetWrite` / `NetDone` | one `tcp_->Write` of `network_respond`'s loop per device, and its end |
| `OperatorWrite(d, f)` | `Write`: `encode_data` and `append_directive`, without `first_send` |
| `SessionDrop` / `DecoupleNetwork` / `CoupleNetwork` | the server session closing, and the orchestrator's `DecoupleNetwork` and `CoupleNetwork` (only `Network = TRUE`) |
| `ReadFrame(v)` | `serial_read` with a well-formed answer: the setter, then `notify_one` |
| `ReadMalformed` | an answer that fails `decode_data`'s length checks |
| `LoseFrame` | the device does not answer |
| `HeartbeatCheck` | one iteration of the heartbeat loop |
| `Tick` | the clock |
| `Destroy` | the orchestrator drops the last `shared_ptr` (`on_close_cooler`'s `erase`, or `cctl_` at exit): `~CoolerCtl`, then `~ControllerBase` enters `Stop()` (only `Teardown = TRUE`) |
| `StopHeartbeat` / `StopRespond` / `StopCycle` | `Stop()`'s three `interrupt_thread` calls in order. Each completes when its loop is at an interruption point (`sleep_for`, `cndDrct_.wait`) or has returned. A loop that is between two interruption points runs on first. |
| `CallDestroyed` | a loop or `serial_read` calls a pure virtual hook after `Destroy` (`CallsHook`: `check_data`/`generate_directive`, `write_log`/`network_respond`, `decode_data`). The orchestrator's own calls (`AddDevice`, `Write`, `Couple`/`DecoupleNetwork`) stop at `Destroy`. |
| `Halted` | after undefined behaviour, or once `Stop()` returned, nothing more happens |

**Time:**
- Time advances in ticks of `TickSeconds = 10`. The poll period is 2 ticks and the heartbeat period is 3.
- `Tick` happens only when every thread is blocked.
- On a prompt link (`SlowLink = FALSE`) every answer is read before time advances: the device answers within a second. A slow link lets answers straddle ticks.

**Refinement.** `ControllerBase` ends with `Queue == INSTANCE DirectiveQueue WITH ...`:
- `pending` is `drct_`;
- `reg` is `allDev_`;
- `Batch` is `PollBatch`;
- `onwire` is "an answer is on the link, or `thread_respond` has been woken for it".

`QueueRefinement == Queue!Spec` is checked as a `PROPERTY` in `cooler_healthy`. Each step of the engine is then a step of the abstract list or a stutter:
- `CycleCheck` is `Poll`;
- `CycleSend` and `RespondNext`'s `first_send` are `Transmit`;
- `RespondPop` is `Complete`.

The abstract liveness holds too: every directive transmitted is resolved, and every pending one is transmitted.

### `AnnexControl` state and actions

Every callback posts a message; the queue's one thread handles the messages in order.

| Variable | Code |
|----------|------|
| `cctl` | `cctl_`, by port |
| `ctl[c]` | the `CoolerCtl` of port `c` is `"running"` or `"destroyed"` (erased from `cctl_`) |
| `reports[c]` | error callbacks the controller raised (bounded by `MaxReports`) |
| `mq` | the `MessageQueue`: `close_cooler(c)`, `connect(ok)`, `close_network` |
| `tcp` | `AnnexControl::tcp_` |
| `conn[x]` | client object `x`: `"connecting"`, `"open"` or `"closed"` |
| `coupled[c]` | the controller's own `tcp_` copy |
| `thr`, `thrd` | the `thread_network` threads that run, and `thrdnetwork_` |
| `drops` | sessions broken so far (bounded by `MaxDrops`) |
| `crashed` | undefined behaviour was executed |

A client object is destroyed when nothing holds it (`Free`), and may then be reused. `Unique` is `tcp_.unique()`, counted from `tcp` and the controllers' copies.

| Action | Code |
|--------|------|
| `Init` (`ServerConnected`, `CoolersConnected`) | `StartService`: `connect_server(false)`, then `connect_cooler(true)` / `connect_serial` |
| `ControllerError(c)` | `cooler_receive` (codes 1, 2 and 3 alike) |
| `OnCloseCooler` | `on_close_cooler`: the log's `ptr->GetPortname()`, the search and `erase` |
| `SessionDrop(x)` | the session's read error, `network_receive` |
| `OnCloseNetwork` | `on_close_network`: decouple all, `tcp_.reset()`, a new `thread_network` |
| `NetworkRetry(t)` | one minute of `thread_network`: `if (!tcp_.unique()) connect_server()` (async) |
| `ConnectDone(x, ok)` | the async connect completes, `network_connect` |
| `OnConnectNetwork` | `on_connect_network`: on success stop the thread and `CoupleNetwork(tcp_)` every controller; on failure `tcp_.reset()` |

## 3. Runs

All runs use one port. The engine runs use `Readings = {0, 1}` (a value changes or not). They use one cooler, or one and two vacuum gauges, with one device registered at start and the other addable by `AddDevice`.

| Run | Config | Expect | Checks and shows |
|-----|--------|--------|------------------|
| cooler_healthy | `MCCoolerHealthy.cfg` | pass | `NoFalseAlarm`: a healthy prompt link never triggers the heartbeat's code 3 (the 20 s poll with a 30 s heartbeat keeps `tmlast_` fresh). `QueueRefinement`: the engine implements `DirectiveQueue`. There is no server session here: `cooler_decouple` shows that a session decoupled during a flush crashes the engine, which would end the abstract liveness for a reason of its own. |
| cooler_faults | `MCCoolerFaults.cfg` | pass | `TypeOK`, `StallDetected`, `WriteBehindPollSent`, `StopTerminates`. Setup: lost and malformed answers on a prompt link, a client `Write` at any moment, and the orchestrator free to destroy the controller at any moment. Results: a stalled queue is always reported; a `Write` behind a queued poll batch is sent unless the link stalls and the heartbeat reports it. The destructor's `Stop()` always returns, unless a loop first calls into the destroyed subclass and the process aborts. |
| vacuum_faults | `MCVacuumFaults.cfg` | pass | `AddedDevicePolled`. With two gauges, the second registered by `AddDevice` after `Start` (as `connect_cooler` does), lost and malformed answers, and a server session that drops and is recoupled: the added gauge is polled by a later batch, because `thread_cycle` re-reads `allDev_.size()` on every pass, unless the list stalls and the heartbeat reports the port, or the process dies in `network_respond`. |
| cooler_concurrent | `MCCoolerConcurrent.cfg` | pass | `LogNeverMissesChange`. Every interleaving of a late decode with `write_log`'s dirty-clear, plus spurious wakeups and faults, keeps every change either dirty or logged. |
| cooler_codec | `MCCoolerCodec.cfg` | pass | `RoundTrip`: `decode_data` of the frame `serial_read` finds in stray bytes followed by `encode_data`'s frame returns the id, the function and the value text. The inputs are ids 0, 9, 10, 0xAB and 0xFF, three function codes, and ints and doubles. `ReportRoundTrip`: `Resolve(CompactCooler/CompactVacuum(r))` gives back `r`. `VacuumRoundTrip`: a gauge's answer lands in the polled field of the right record, or nowhere for a gauge without one. `RestartStable`: a daemon restarted on an untouched `camannex.xml` serves the same server settings and cooler ports as the run before it. This holds whether that run fell back to `InitFile` or loaded the file. The AMath properties are listed below the table. |
| cooler_ub | `MCCoolerUB.cfg` | violation | `NoUndefinedBehaviour`: on a slow link `first_send` fronts an empty list. |
| cooler_malformed | `MCCoolerMalformed.cfg` | violation | `QueueDrains`: after a malformed answer the queue never drains again, against the spec. |
| cooler_overflow | `MCCoolerOverflow.cfg` | violation | `DirectiveFits`: `Write(idd, idf, INT_MIN)` writes 32 bytes into `msg[30]`. |
| cooler_write_idle | `MCCoolerWriteIdle.cfg` | violation | `WriteEventuallySent`: a `Write` to an empty `drct_` is never sent. `thread_cycle` only polls an empty list, so the port stalls until the heartbeat fires. |
| cooler_decouple | `MCCoolerDecouple.cfg` | violation | `NoNullSession`: `DecoupleNetwork` between `thread_respond`'s `tcp_` test and `network_respond` makes the flush write through a null `tcp_`. |
| annex_network | `MCAnnexNetwork.cfg` | pass | `CoupledToCurrent`, `NetworkRecovers`. With controller failures and up to three broken sessions, `thread_network` never replaces a session the controllers use, and the link always comes back with every controller coupled. |
| annex_double_close | `MCAnnexDoubleClose.cfg` | violation | `NoUseAfterErase`: a controller that reports twice is erased by the first `on_close_cooler`. The second dereferences it and erases `end()`. |

**The AMath properties of `cooler_codec`.** Each compares a call's result with the mathematical definition, over exact rationals:
- `InverseSound`: `MatInvert` returns -1 only for a singular matrix, and the inverse for every invertible one. The singular matrices it lets through are exactly those whose first column is zero (729 of the 19683 3 x 3 ones). For them the test `s < zr*tq` still has `tq = 0`, and the result is inf or NaN, returned with 0.
- `InterpolationExact`: `Lagrange` interpolates from a window of exactly the clamped order inside the knots, and reproduces every polynomial of lower degree. `Bilinear` reproduces `a + bx + cy + dxy`.
- `SplineExact`: `CubicSpline` reproduces quadratics from three knots on. With two knots it divides by zero and returns only inf or NaN.
- `ByteOrderSound`: `SwapEndian` turns an array of 2- or 4-byte integers from the host's layout into the other byte order, on either host. `TestSwapEndian` tells which host it is. An odd cell size is left untouched without notice.
- `GaussFitSound`: `GaussFit2D` recovers every Gaussian surface exactly from the points it keeps, whatever their weights z, when those points determine the five coefficients. It refuses when they do not, or when the surface is not a peak. The property says nothing of inputs that keep no point (see below).
- `NaturalSplineSound`: `spline`'s second derivatives satisfy the natural-spline equations, `splint` returns the knot values, and `splint2` on `spline2`'s grid reproduces bilinear functions, beyond the knots too.

**Mutants.** Every property of a passing run has a mutant in `PROJECT.json`. A mutant is a plausible code bug, such as:
- dropping `tmlast_ = now`, or `remove_directive`;
- sending without the size check;
- an inverted heartbeat test;
- a setter that forgets `dirty`;
- `thread_cycle` reading `allDev_.size()` once, before its loop;
- a hex decoder without the `A`-`F` branch;
- a value left untrimmed by `resolve_kv`;
- vacuum pairs read one byte off;
- `Write` at the front of `drct_`;
- `interrupt_thread` joining without interrupting;
- `LoadFile` with its Cooler/Vacuum test inverted;
- in AMath: scaling the upper triangle including its diagonal, `Lagrange`'s window one knot short at the upper end, the spline spacings swapped, a bisection that keeps the wrong half, the odd/even guard of `SwapEndian` inverted, and `GaussFit2D`'s `Q` accumulated without one factor z.

TLC finds each mutant's property violated.

### Bounds

- **One cooler is enough for the races.** Every race is on one list and one record, and a second cooler multiplies the states by about 1000 without adding a new interleaving. `vacuum_faults` uses two devices, so that one can be added by `AddDevice` after `Start`.
- **`cooler_concurrent` bounds the link to two outstanding directives** (`CONSTRAINT LinkBound`). Duplicated sends otherwise grow the link without bound. Two in flight is the most the race produces in one poll period.
- **`cooler_concurrent` sets `CHECK_DEADLOCK FALSE`.** The constraint cuts states at the bound and would otherwise show them as deadlocks. In the unconstrained model `Tick` or a thread step is always enabled until `crashed`, and that run allows `crashed`.
- **Teardown is enabled in `cooler_faults` only.** There it can happen in every state of a faulty engine: a loop mid-flush, a lost answer that keeps the list stalled, the heartbeat fired or not. In the slow-link and vacuum runs it would multiply states that are already in the millions.
- **The orchestrator runs use two ports.** With two, a close can arrive between another controller's close and the coupling. They use three client objects, the most that can be referenced at once (the dead one, the controllers' copy and a new attempt). `MaxDrops = 3` lets a session break while a connect result is queued, and again after recovery. `annex_network` allows one report per controller, since two are already a crash (`annex_double_close`). It sets `CHECK_DEADLOCK FALSE` because the orchestrator only reacts to events: once the bounded failures have happened it really is idle.
- **The codec inputs** are the boundary cases:
  - ids across the digit/letter edge of the hex encoding (9, 10) and the top byte;
  - `int`s of 1, 3 and 10 digits;
  - doubles with and without a sign, and a 9-digit one;
  - stray bytes before an echo: none, an earlier answer's CR LF (a tail before the head), and a character followed by CR LF.
  - Two vacuum records (`MCVacuumIds`), so an answer may come from a gauge with a record, from one at record 2, or from one without a record.
- **The configuration files.** The file starts absent, as on a fresh installation. An operator may replace it with one that `read_xml` rejects, or with a hand-written one. The hand-written file has a renamed group and the server enabled. It has a cooler node with no baud rate and three devices: the first id is 7, the second is 300 (beyond `uint8_t`) and the third is missing. It also has a node of another kind before the cooler. `camannex -d` may rewrite the defaults at any time. These reach every branch of `LoadFile` and its fallback. Restarts follow each kind of file, so each fallback and each load is followed by a reload.
- **The AMath inputs.**
  - Matrices: every 2 x 2 matrix with entries -2..2, and every 3 x 3 matrix with entries -1..1. These include singular matrices, matrices that need every row swap, and matrices with a zero first column.
  - Knots: two sequences, one evenly and one unevenly spaced, with prefixes of 2 to 4 knots.
  - Points: before, on, between and beyond the knots, including one fraction.
  - Orders: 0, 2, 3, 4 and 6, below, inside and above the clamp.
  - Coefficients: every sign pattern of the polynomials and bilinear functions sampled.
  - `SwapEndian`: 0 to 2 elements of 1 to 4 bytes, with distinct bytes (0x01020304 cut to the cell size, and 0x0102), on either host.
  - `Correlation`: every pair of series of 1 to 3 samples with values -1..1. These include constant series, collinear ones and anti-correlated ones.
  - `GaussFit2D`: six points (a cross of five and the point (1, 1)) under every sign pattern of the five coefficients. The weights keep all points, weigh one double, drop one point, drop two so that the rest is singular, or drop all of them.
  
  Rational arithmetic is exact, so each case is decided exactly. The 3 x 3 inverses take every branch of the LU code: a row swap or none at each column, and the substitution loops with more than one step.

### Fairness

`Spec` assumes weak fairness of:
- each thread (`Cycle`, `Respond`, `HeartbeatCheck`);
- the transport (`Transport`: a frame on the line is eventually read, lost or rejected);
- `Tick`;
- the destructor's `Stop` and a loop's call into the destroyed subclass (`CallDestroyed`), both steps of threads that are running.

`Session`, `OperatorWrite` and `Destroy` are not fair: a client need never write, the server need never fail and the orchestrator need never destroy a controller.

These threads are plain `boost::thread`s with timed sleeps. None of them holds a lock across its wait, so each makes progress whenever it is enabled. Liveness is checked in `cooler_healthy` (the abstract queue's fairness), `cooler_faults` (`StallDetected`, `WriteBehindPollSent`, `StopTerminates`), `cooler_write_idle`, `cooler_malformed` (`QueueDrains`) and `annex_network`.

`AnnexControl` assumes weak fairness of:
- the message thread (`Dispatch`);
- each `thread_network` (it wakes every minute);
- the completion of every connect attempt.

It also assumes strong fairness of a successful connect. The server accepts a connection if it is asked often enough. Without that assumption nothing could recover, and the code cannot be blamed for that.

## 4. Not modelled

**Hazards without a property** (listed in `PROJECT.json` with the reason):
- **The pure virtual call during teardown.** It is reached in `cooler_faults`, where `StopTerminates` counts it as an abort. Stating its absence needs an engine run that fails on it, and every other engine run is kept for a finding of its own.
- **`serial_read` without a head marker** reads from offset -1. `FrameAt` models the offsets, but what `SerialComm::Read` does there is not in the repository.
- **A 9-byte cooler frame** leaves the value uninitialized.
- **`AddDevice` reallocating `allDev_`** while `thread_cycle` indexes it.
- **`resolve_kv`'s split on every `=`**, and the rotating output buffer.
- **`StopService` against the message thread** resetting `thrdnetwork_`.
- **`parameter.h`:**
  - `bvacuum`'s missing port name (see below);
  - an id above 255 narrowed to `uint8_t`;
  - a rejected file silently replaced by the defaults.

  The model reaches all three, but no written requirement says what the operator should get instead.
- **`spline`'s clamped end** (see below).

**Not modelled in `AnnexControl`:**
- **The vacuum side.** `connect_vacuum` is commented out in `StartService`, so `vctl_` stays empty and `on_close_vacuum` never runs.
- **`StopService` and the destructor.** `interrupt_thread` and `Stop` come from the base `MessageQueue`, which is not in the repository. The controllers' own teardown is modelled in `ControllerBase`.
- **A failed `StartService`.** The daemon then exits, and `Init` is the state after success.
- **A daemon without a server.** `connect_server` returns at once when `bServer` is false (the default `InitFile` writes); `Init` takes `bServer` true, the configuration in which the network thread and sessions exist at all.
- **Restarting a closed port.** Nothing calls `connect_cooler(false)`, so a port whose controller was closed stays unserved. This is a policy of the orchestrator, which the spec leaves out of scope, so no run checks it.
- **Duplicate error reports from one session.** These would come from the TCP client, which is not in the repository.

**Not modelled in the engine:**
- **`Start`.** A failed `Start` leaves no engine.
- **`SetDatabase`/`upload_database`.** These are database I/O. The flush's database step only reads the table.
- **`write_log`'s text.**
- **`thread_cycle`'s check and generation as one step.** `CycleCheck` reads `drct_.size()`, calls `check_data` and generates the whole batch atomically, so `AddDevice` reallocating `allDev_` while the loop indexes it is not modelled; `AddDevice` only happens between passes.
- **`first_send`'s port test.** `serial_.unique() && serial_->IsOpen()` is left out: the port is open while the engine runs, and a closed port is reported through `cbrslt_` and handled by the orchestrator.

**Out of scope:**
- **I/O wrappers** (`SerialComm`, `tcpasio`, `DataTransfer`, `GLog`, `MessageQueue`): their sources are not in the repository, and they do boost::asio, HTTP and file I/O, which no property depends on.
- **Daemonisation (`MakeItDaemon`, `isProcSingleton`).** These are fork and PID-file I/O and are not in the repository. `Parameter` keeps their effect: at most one daemon runs at a time.
- **`InitFile`'s vacuum defect is modelled but not checked.** In `InitFile`, node3 writes its port name and baud rate into `avacuum` (`parameter.h:100-101`), which has already been copied into `vacuum`. On a first run, the fallback structure therefore has `bvacuum` with an empty port name and an uninitialized baud rate, while every later run loads `/dev/ttyS2` from the file. `RestartStable` is stated over what `StartService` uses, and no vacuum port is started (`connect_vacuum` is commented out). Stated over the vacuum ports it would fail on the first restart, but every run slot is in use.
- **Three disagreements found but not checked by a run.** Each needs a violation run of its own, and all twelve runs are in use; `PROJECT.json` lists them as hazards with a note.
  - `VacuumCtl` attributes an answer to `drct_.front()`. On a prompt link one directive is on the line, so this is sound by construction. With `SlowLink = TRUE`, TLC finds the invariant `\A d \in Devices, f \in Funcs : data[d][f].from = f` (every stored reading came from an answer to its own function) violated: an answer that outlasts the 20 s cycle lets `thread_cycle` and `thread_respond` both `first_send` the new batch's head, and the second answer is stored under the next directive's function.
  - `Correlation`, commented as the correlation coefficient, returns N-1 times Pearson's r: its numerator is not divided by N-1 as the two rms are, so three collinear points give 2.
  - `GaussFit2D`, commented to return false for a singular `B`, returns true with NaN results when no point has z > 1e-10: `B` is zero and `MatInvert`'s singularity test misses the zero first pivot.
- **`AMath` is not called by the daemon.** No code of `camannex` calls it; `MCCoolerCodec` checks it as a library, each call on its own.
- **The rest of `AMath`.** The trigonometric, time, spherical and photometric conversions, and `erf` and its inverse, are out of reach. TLC has no reals, their results are transcendental, and rounding is what these routines are about. None of them is on the control path. In `GaussFit2D` and `Correlation` only the transcendental step is abstracted, as described under Modules.
- **`spline`'s clamped end.** It computes `u[0] = (3/h)(y1-y0)/(y1-y0-c1)`, where Numerical Recipes has `(3/h)((y1-y0)/h - c1)`. It is modelled as written, but no run calls it, because every caller in the repository asks for natural ends.
