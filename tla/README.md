# A verification project for ptp-noposix

`ptp-noposix` is the PTP daemon of White Rabbit: `ptpd` 2.0, extended with
the White Rabbit link setup (syntonisation of the clocks over the physical
layer and calibration of the fixed delays), with the libraries that let it run
on a switch under Linux and freestanding on a node's soft CPU.

This directory holds TLA+ models of it, TLC configurations that check them on
small instances, and proofs for all instances that TLAPS checks.

    tlc -workers 2 -config WRLinkFaults.cfg MCWRLink.tla      # one run
    for m in *Proofs.tla ServoArithmetic.tla; do tlapm $m; done   # all proofs

Paths below are relative to `src/`.

## 1. Inventory

### 1.1 How the program runs

One process, one thread. `multiProtocol()` (`PTPWRd/protocol.c`) turns for
ever: for each port `singlePortLoop()` (look at the link; restart the port if
it came up or the servo asks for it; one call of `doState()`), then
`sharedPortsLoop()` (does a foreign master table change ask for a state
decision in the next turn?), then `usleep(1000)`. Nothing inside the daemon is
concurrent. What *is* concurrent is everything around it:

* the peer daemon, which takes its turns at any relative speed; frames are
  buffered by the sockets and read one per turn and port;
* time: timers are polled, in the turns in which the current state happens to
  poll them;
* the hardware (HAL and PLL), which is asked for something in one turn and
  answers "not now" for any number of turns;
* the cable, and the process itself being killed and started again.

### 1.2 Components

| component | source | state it keeps | operations | interacts with |
|---|---|---|---|---|
| WR link setup (WR FSM) | `PTPWRd/wr_protocol.c` | `wrPortState`, substate, `currentWRstateCnt`, WR timers, `calibrated`, the peer's calibration parameters | `doWRState`, `toWRState`, `wrTimerExpired`, `initWrData` | runs inside `PTP_UNCALIBRATED` (slave) and `PTP_MASTER` (master); signaling messages to the peer's WR FSM; hardware calls; ends by `toState()` |
| PTP engine | `PTPWRd/protocol.c` | `portState`, timers, sequence numbers, `waitingForFollow`, `linkUP`, `doRestart`, `wrMode`, `wrModeON` | `singlePortLoop`, `sharedPortsLoop`, `doInit`, `doState`, `toState`, `handle*`, `issue*`, `addForeign` | everything |
| Best master clock algorithm | `PTPWRd/bmc.c` | the foreign master tables, `Ebest`, `wrSlaveRole`, `parentWr*` | `m1`, `s1`, `s2`, `p1`, `bmcDataSetComparison`, `bmcStateDecision`, `ErBest`, `EBest` | reads announces, decides the next port state |
| Message codec | `PTPWRd/dep/msg.c` | `msgTmp*`, foreign records | `msgPack*`, `msgUnpack*` | network, handlers |
| Servo | `PTPWRd/dep/wr_servo.c`, `dep/servo.c` | `wr_servo_state_t`, `got_sync`, t1..t4 | `wr_servo_init/got_sync/got_delay/update` | fed by the handlers; drives the PLL; sets `doRestart` |
| Timers | `PTPWRd/dep/timer.c`, `dep/sys.c` | start and interval of each timer | `timerStart/Stop/Expired` | polled by the state machines |
| Network layer | `PTPWRd/dep/net.c`, `libptpnetif/` | sockets, timestamp caches | `netSend*`, `netRecvMsg`, `ptpd_netif_*` | kernel, HAL through minipc |
| libminipc | `libminipc/` | connections, fd sets, a buffer per call | `minipc_call`, `minipc_server_action` | HAL, exports |
| libposix (freestanding) | `libposix/net.c`, ... | a ring buffer per socket (`head`, `tail`, `avail`, `n`) | `update_rx_queues`, `ptpd_netif_recvfrom` | MAC driver |
| Time arithmetic | `PTPWRd/arith.c` | none | normalise, add, subtract | servo, handlers |
| Startup, data sets, exports, display | `PTPWRd/ptpd.c`, `dep/startup.c`, `datatypes.h`, `ptpd_exports.c`, `display.c` | the data sets themselves | parse options, allocate | - |

### 1.3 Hard behaviours, and what must hold

* **WR link setup.** Two FSMs that advance by messages without a session
  number, by hardware polling and by timeouts that *repeat* the current state.
  Late answers, repeated requests and lost frames interleave freely. Must hold:
  the setup always ends; the FSM never runs in a port state that does not drive
  it; a port in WR mode knows the peer's delays and does not send the
  calibration pattern; the two ends agree about WR mode.
* **PTP FSM against WR FSM.** Announces, errors and receipt timeouts ask for
  port state changes in the middle of a calibration; the data of an announce
  heard *before* the setup must not tear down the link *after* it.
* **Faults.** Cable flap, restart of a daemon in any state of its peer,
  receive errors, PLL loss: the port must come up again.
* **BMC.** The comparison must be an order, and the tables must stay within bounds
  and hold what the masters announce. One decision event
  is carried out by the ports one after the other while announces go on coming
  in: the clock must end up following one master, the best one, with every port
  in the state that goes with it.
* **Sync exchange and servo.** t1..t4 of a servo update must belong together
  although Sync, Follow_Up and Delay_Resp of several exchanges interleave and
  sequence numbers wrap; the servo must not hang in a state.
* **Queues.** The ring buffer must be a FIFO of whole frames. A stream socket
  of a remote call keeps no boundaries, and a late reply stays in it: a call must
  be executed at most once, and a client must neither wait for ever nor fall
  further and further behind.

Each such behaviour is listed at its source line under `hazards` in
`PROJECT.json`, with the properties that cover it.

## 2. Plan

In this order; the first item is the heart of the program.

| # | module | models | status |
|---|---|---|---|
| 1 | `WRLink`, `MCWRLink`, `WRLinkProofs` | PTP and WR FSM of a slave port and a master port, composed over a link | done: 4 runs; type correctness, RoleConsistency, DeltasKnown, PatternOffInWrMode and NonPreemption proved, LinkOnAgreement and NoStaleAnnounce for slow timers |
| 2 | `Bmc`, `BoundaryClock`, `MCBoundaryClock`, `BoundaryClockProofs` | the comparison of data sets; announces, foreign master tables, state decisions, receipt timeouts and link changes of a clock of several ports | done: 2 runs; the order of the comparison, type correctness and OnePrimarySlave proved |
| 3 | `SyncExchange`, `ExchangeFeed`, `SyncExchangeProofs` | Sync, Follow_Up, Delay_Req, Delay_Resp with wrapping sequence numbers; refines `ExchangeFeed`, "each servo update uses one exchange" | done for one neighbour, end-to-end: 1 run; type correctness, DelayAfterSync, KeepsUp and the refinement proved |
| 4 | `ServoTime`, `ServoDelay`, `ServoExchange`, `MCServoTime`, `ServoArithmetic`, `ServoExchangeProofs`; `Servo`, `MCServo`, `ServoProofs` | the timestamp arithmetic and what it makes of one exchange; the state machine of `wr_servo_update()` in a closed loop with the clock | done: 3 runs; all four properties of an exchange, type correctness, OutputNeverJumps and the bound of the error proved |
| 5 | `SockQueue`, `FrameQueue`, `SockQueueProofs` | the ring buffer of `libposix/net.c`; refines a FIFO of frames | done: 1 run; type correctness, AvailExact and the refinement proved |
| 6 | `Minipc`, `Rpc`, `MinipcProofs` | clients, the server and the streams between them; refines a remote procedure call | done: 1 run; type correctness, LagBounded and the refinement proved |

The modules meet at the edges: `WRLink` hands a port in `PTP_SLAVE` to
`SyncExchange`, which hands four timestamps to `Servo`, whose request for a
restart is a fault of `WRLink`. Each module assumes of its neighbour what a
property of that neighbour says, and names it where it does.

An abstract specification still worth stating is the WR handshake as the
exchange the White Rabbit standard describes (one phase counter per round,
refined by `WRLink` while no fault happens). `ExchangeFeed`, the servo's view of
the exchanges, `FrameQueue`, a FIFO of frames, and `Rpc`, what a channel of
remote calls promises, are there.

Each module is written to be proved about: parameters are constants with named
assumptions, each operation is one operator on the record of a data set, no
operator is `RECURSIVE`.

## 3. WRLink

### 3.1 State

`port[n]` is the record of the fields of `PtpPortDS` that steer daemon `n`.
Fields keep the source's names. The representation differs in a few places:

* `wrPortState` is the main state and `wrSubstate` the number of the substate
  (`WRS_CALIBRATION_3` is `CALIBRATION` with 3), the split
  `returnCurrentWRMainState()` makes.
* `foreignWrConfig` and `foreignWrModeON` are `wr_flags` of `foreign[0]`, the
  record a daemon with a single neighbour reads; `number_foreign_records` and
  `foreign_record_i` are kept as they are, since `foreign_record_i` survives the
  re-initialisation that empties the table.
* `otherNodeDeltas` says whether `otherNodeDeltaTx/Rx` hold values of the peer.
  The values themselves steer nothing.
* `announceReceipt` says whether that timer runs, `calibrationPattern` what the
  transceiver was last told.
* `out` and `fresh` live within one turn: the frames it sends, and whether it
  started the WR timer.

`chan[n]` is the socket of `n`: frames in order. `cable` and `faults` belong to
the environment.

### 3.2 Actions

Every function that changes the port is an operator from record to record, of
the same name (`ToState`, `ToWRState`, `Handle`, `AddForeign`, `S1`, ...), so a
handler's calls compose as in the code. A step is one turn of the main loop of
one daemon: `Ready(n)` is the turn up to the `switch` of `doState()` (link
check, restart, state decision, SYNCHRONIZATION_FAULT), there is one action per
body of `doState()` and `doWRState()`, and `Finish` is `sharedPortsLoop()`.
`Finish` also hands `out` to the peer's socket.

A WR body runs through as many substates as the hardware answers in that
turn: `hw` is the number of hardware calls that succeed before one is refused,
`hwAgain` the same for the entry code of a state that is repeated by its timer.
The entry code of a state reached by a message shares `hw`.

What a turn reads is chosen in `Frames(n)`: the first frame of the socket,
nothing, a socket error, or a Delay_Resp that lets the servo see the PLL out of
lock (which sets `doRestart`).

### 3.3 What is abstracted

* **Time.** A timer is armed or not. With `SlowTimers = FALSE` an armed timer may
  have expired in any turn in which the code polls it - any ratio of timeout to
  answer time. With `SlowTimers = TRUE` it expires only when neither daemon has
  anything left to do: the timeouts are longer than an answer takes, as their
  defaults (a second and more) intend.
* **Sync, Follow_Up, Delay_Req, Delay_Resp** do not steer the link setup and are
  left out, apart from the Delay_Resp above.
* **One port per daemon**, slave-only against master-only: the configuration of a
  node and the switch port it is attached to. Several ports and the other
  configurations are in `BoundaryClock`, with neighbours that are standard PTP
  clocks.
* **Memory at start.** The port data sets are `calloc()`ed; the clock data set is
  a local variable of `main()` and its `globalStateDecisionEvent` is read before
  it is written. `EventGarbage` is the set of values it may hold: both in the
  runs `timers` and `faults`, `FALSE` in `comes_up` and in the runs that exhibit a
  finding, to keep them small.

### 3.4 Properties

| property | says | why it could fail |
|---|---|---|
| `TypeOK` | fields hold values of their types; `foreign_record_i` is inside the table; sockets within bounds | the index survives `doInit()` |
| `RoleConsistency` | the WR FSM runs only in an `UNCALIBRATED` WR slave or a `MASTER` WR master; a port is `UNCALIBRATED` only while it runs | elsewhere nothing would time it out and `toState()` would refuse everything, for ever |
| `DeltasKnown` | in WR mode the peer's delays are known | late and repeated messages of several rounds |
| `PatternOffInWrMode` | in WR mode the calibration pattern is off | repeated states, refused hardware calls |
| `LinkOnAgreement` | until a fault, the slave is in WR mode only while the master is | `WR_MODE_ON` is not acknowledged |
| `NoStaleAnnounce` | until a fault, no announce in flight denies WR mode to a slave that has it | announces sent before the setup |
| `NonPreemption` | while the WR FSM runs, neither the PTP state nor the WR mode changes | announces, errors and timeouts in mid-setup |
| `SetupTerminates` | a link setup ends | both ends repeat and re-trigger each other |
| `LinkComesUp` | once the cable stays plugged both ports end in WR mode and stay there | stale announces, restarts, refused hardware |

`DeltasKnown` matters because `wr_servo_init()` copies the deltas into the servo
and the offset is computed from them. `LinkOnAgreement` is checked with slow
timers only: signaling messages carry no session number, so with timers that
expire while answers are still under way, a `WR_MODE_ON` of an abandoned setup
can be taken for one of the current setup. It and `NoStaleAnnounce` are about
the handshake under loss: a master that was restarted or lost its lock has left
WR mode, which its slave learns from the next announces.

`SetupTerminates` holds although a `SLAVE_PRESENT` takes a master back to `M_LOCK`
from every WR state. The comment at `protocol.c:1639-1643` says that it is ignored
while a calibration is under way, but `handleSignaling()` does not look at the
WR state.

### 3.5 Fairness

`Fairness` is weak fairness, per daemon, of three things: taking a turn that
waits for no frame (`Advances`), reading a frame that is there (`ReadsFrame`),
finding an expired timer expired (`TimerExpires`). All three come from the
main loop: `multiProtocol()` has no exit and sleeps a millisecond between
turns, so each port's body runs again and again. The hardware parameters in
them are the ones of "does not refuse": the hardware may refuse any number of
times, not for ever. Nothing is assumed of faults or of loss.

## 4. SyncExchange

A master port and a slave port of one link exchange Sync and Follow_Up,
Delay_Req and Delay_Resp. `slave` holds the fields of `PtpPortDS` and of the servo
that decide which four timestamps `wr_servo_update()` accepts; a timestamp is
the number of the frame it was taken of, so that mixing two exchanges is
visible. Handlers are actions of the same names; the frames a handler
ignores are `IgnoreFrame`. Sequence numbers wrap at `SeqMod` (2^16 in the
code), and the test of a Delay_Resp is computed in `int`, as in C, so the
answer to the request before the wrap is ignored.

The slave leaves `PTP_SLAVE` and comes back in two ways: `EnterSlave` is
`toState(PTP_SLAVE)`, which resets `waitingForFollow` and, when the calibration
data can be read, `got_sync`; `FallThroughToSlave` is the fall-through of
`PTP_UNCALIBRATED`, which resets nothing and starts no timer. Both happen in the
turn after an announce or `WR_MODE_ON` is read, and a master never sends one
of these between a Sync and its Follow_Up, which the model keeps.

`FeedSpec` says that `SyncExchange` implements `ExchangeFeed`: `t1` and `t2` of an
update are of one Sync, `t3` and `t4` of one Delay_Req, and both are newer than
those of the update before. `DelayAfterSync`: that Delay_Req left after that Sync
had arrived. `KeepsUp`: when all that was sent has been handled, and nothing was
lost and each request answered before the next frame left, the servo has been
fed the last Sync or the one before. This is what the `int` test costs: one
update, never two in a row, also when the numbers wrap with the timer's requests
between those that a Follow_Up starts. `slaveSince` (the Syncs sent before the port
became a slave) and `overlap` are kept for it alone. Without its condition on
`overlap` it does not hold: `sentDelayReqSequenceId` only ever accepts the answer
to the last request.

`failures` counts what the hardware does not deliver: a missing departure or
arrival timestamp, which is marked incorrect, or calibration data that
`wr_servo_init()` cannot read.

Assumptions of the environment, each a guard:

* `HeardInTime`: a slave that waits for a Follow_Up hears another Sync before the
  sequence numbers wrap around (65536 Sync intervals).
* `Room`: timers send only while few frames are in flight; intervals are
  seconds, a frame takes less than a turn of the loops.
* `Restart` takes longer than a request and its answer.
* A departure timestamp is delivered for its own frame or not at all (see the
  hazard at `ptpd_netif.c:394`).

A behaviour has losses or restarts, not both (guards of `LoseFrame` and
`Restart`). Together they do mix exchanges: a slave
that waits for the Follow_Up of Sync 0 of the old life takes that of a lost
Sync 0 of the new life. It is listed as a hazard.

## 5. Servo

### 5.1 One exchange (`ServoTime`, `ServoDelay`, `ServoExchange`)

`ServoTime` has the arithmetic of `wr_servo.c` on `sec`, `nsec` and `phase`, and the
linearisation of receive timestamps of `libposix/net.c`, with the units as
constants. `ServoDelay` has what `wr_servo_update()` makes of four timestamps, the
four fixed delays and the asymmetry, and the conversions on the way: the phase
of t4 travels in the correction field of the Delay_Resp (`PhaseToCf`,
`CfToPhase`), fixed delays in two scaled halves (`ScaledPicoseconds`,
`FixedDelay`).

`ServoExchange` sends a Sync and a Delay_Req over a link and lets them arrive at any
point of any clock cycle. Its hardware is an assumption: the counter of rising
edges may be sampled a cycle too early or too late within a quarter of a period
of its transition, the counter of falling edges is half a period later, and the
phase detector measures the arrival against `phase_transition`. The fibre splits
its round trip by the asymmetry as `fiber_fix_alpha` means it.

| property | says | why it could fail |
|---|---|---|
| `ArrivalExact` | the linearised timestamp *is* the arrival | two counters that are each wrong near a transition |
| `DelayMeasured` | the delay the servo computes is that of the Sync, or up to two units less; of a fibre without a half, from one unit less to one more | t4 loses phase in the correction field, two shifts round down, the clock that counts t2 and t3 is wrong |
| `OffsetExact` | the offset is exact and normalised | `nsec` may be -8 and `phase` several nanoseconds |
| `SplitExact` | `ts_hardwarize()` loses nothing, and leaves the phase alone exactly when the error is less than a cycle | negative offsets are a second minus a large `nsec` |

The fibre takes 3 units or more, what it takes fits in half of `Word`, and its way to
the slave takes between a quarter and three quarters of it (`LinkAssumption`): a real
fibre takes thousands of picoseconds and its asymmetry is less than a thousandth. A
shorter one might be measured as a negative delay. The two units are one for t4, whose phase is truncated twice, and the
shifts; with a unit of a picosecond this is far below the threshold of 60. Delays
are not negative: `picos_to_ts()` of a negative number has negative fields, which
`ts_add()` does not borrow for.

### 5.2 The closed loop (`Servo`)

`servo` is `wr_servo_state_t`. Each state of the `switch` is an operator of the same
name, `BeginUpdate` is what precedes the `switch`, `Update` is the call. The
clock is `offset` (its error), `shifter`, and `pending`, what the HAL was told and
has not done yet; `CountersDone` and `ShifterDone` happen at any time, also
between t2 and t3 of an exchange, which makes the round trip and the delay of
that update wrong. `err` keeps the error of the clock at t2 and t3. `Drift` moves
`delay` and, because the clock is recovered from the fibre, `offset`. A PLL out of
lock sets `doRestart`; `Restart` stands for the way through the link setup to
`wr_servo_init()`.

Taken as zero in the loop: the fixed delays and the asymmetry, which 5.1 has for
one exchange, and `ph_adjust`. An exchange whose
timestamps are marked incorrect is one that takes longer. `delay_ms_fix` is
computed modulo `Word`, as the code shifts an unsigned number.

| property | says | why it could fail |
|---|---|---|
| `ErrorBound` | with the output on, the error that is not yet commanded away stays below the threshold | the setpoint is accumulated from differences of delays, across switched-off tracking and late hardware |
| `OutputNeverJumps` | the counters are adjusted only while the output is off | several ways lead back to the synchronisation |
| `Locks` | from any offset, and after a loss of lock, the servo ends up tracking with the output on, once tracking is left enabled | updates work on timestamps older than the last adjustment |
| `OutputOnlyInLock` | *violated*: an update that asks for a restart leaves the output off | the state machine still takes its step |

`delay` is the fibre's, `coldDelay` what it was when the output was last on. A fibre
drifts by up to `cold` around it while the output is off, and by `MaxDrift - cold`
in all. With `cold = 0` this is a whole cycle, so that a clock whose output is on, with
the tracking off, is found a cycle wrong and is synchronised again, which
`OutputNeverJumps` is about; with `cold = 1` the offset is never quite what the
synchronisation left. Both at once break `ErrorBound`: a second pass through
`SYNC_PHASE` sets the shifter to what is left of the offset, as if it were at
zero, the error this leaves may be masked by a drift until `WAIT_OFFSET_STABLE` has
looked at it, and the output is turned on with it. For the same reason, and since
`missed_iters` is never reset, a second synchronisation need not end; both are hazards in
`PROJECT.json`. `Locks` therefore leaves out a fibre that drifts by a cycle while the
output is on. It also leaves out a servo whose tracking is
disabled for ever, which legitimately stays where it is, and offsets
within the drift of a whole second, where the fibre could drift across for ever.

Fairness: the HAL finishes what it is told, exchanges go on (`Advance`; what
`KeepsUp` says), a port that is initialised again becomes a slave again
(`LinkComesUp`); all weak. `Drift` and `EnableTracking` are not fair: nothing need
drift.

## 6. SockQueue

`q` is `struct sockq`: the ring, `head`, `tail`, `avail`, `n`. A cell holds what tells
frames apart: the size, in the two cells of the size, and the frame's number in
all others, so that a frame of which a cell is overwritten or shifted is visible.
`done` records the last call. `QueueSpec` says that `SockQueue` implements
`FrameQueue` under the refinement mapping `Stored`, the frames one meets from the
tail: first in first out, whole, and one is dropped only if it does not fit.
`AvailExact` ties `avail`, `head`, `tail` and `n` together when the ring is full or
empty. A call of `update_rx_queues()` does not come between two steps of
`ptpd_netif_recvfrom()`: its caller is outside the repository, and the model
assumes that it polls and does not interrupt. The run has a ring of 11 cells and frames of 4, 5 and 7,
so that it is full exactly and with room left, and wraps inside every field.

## 7. Bmc and BoundaryClock

### 7.1 The comparison (`Bmc`)

`Comparison(a, b, own)` is `bmcDataSetComparison()`, by its two halves: data sets of
different grandmasters (`ByGrandmaster`, the first quality that differs) and of
one (`ByTopology`, steps removed, then sender and receiver). Its value is the
code's sign and 2 for "by topology only"; the errors of the comparison
(a message from oneself) are 0 as in the code. Each quality is compared by its
first byte in memory (`FirstByte`), which for the variance, a 16 bit number, is
not the byte that ranks.

`ComparisonOrders` compares it with a reference on a sample of data sets: it is
the lexicographic order of the qualities, grandmaster, steps, sender and port, it
is antisymmetric, and does not depend on the port that compares, whose identity
it also reads. The sample has two variances of one high byte. It is why
`ErBest()` and `EBest()`, which look at each record once, find a best one.

### 7.2 The clock (`BoundaryClock`)

`clock` is the part of `PtpClockDS`, `port[p]` that of `PtpPortDS`, which the choice
of a master reads and writes; names are the source's. The foreign master table is
`foreign` (what the last announce said), `identity` (whose record it is), `number`,
`next` (`foreign_record_i`) and `best`. `bestForeign` is the pointer of the code: a port
and a record, perhaps of a port that does not exist.

A step is one port's turn (`SinglePortLoop`: the link, the state decision, a frame
or none, the receipt timeout) or what is done after all ports
(`SharedPortsLoop`). Handlers are operators on the pair of both data sets. The
masters change what they announce, fall silent or start (`Change`), announces
are lost, cables are pulled and plugged in again. Time passes in announce
intervals (`Tick`): a turn takes a millisecond and announces come every second or
so, so a loop in which something is still to be done ends before the next
interval. `quiet` counts intervals since the last change.

| property | says | why it could fail |
|---|---|---|
| `OnePrimarySlave` | after each loop at most one port with a link follows a master | each port decides for itself, with data an earlier port has just changed |
| `Agrees` | when nothing has changed for as long as silence takes to be noticed, the tables hold what the masters announce, each port is in the state these give it, and the parent is the best master | a decision that is missed, or made with records of before the change |
| `EbestIsBest` | the record the clock follows is the best of all records | see findings |
| `ComparisonOrders` | 7.1 | the variance; the topology |

`RightState` is what `Agrees` compares with, computed at once from all records with
no history; the code computes it port by port. `Agrees` is about clocks that can
hear a master.

`OneUplink` is the condition under which `OnePrimarySlave` holds for all clocks
(section 11), and each part of it is needed. A second `S_ONLY` port, or one that
decides for itself beside an `S_ONLY` port, may follow another master than that one
does. With clockClass 255 (option `-v`) a port that hears nobody listens
(`protocol.c:628-638`) and no decision for a listening port without records touches
its role: it stays the primary slave beside another port that becomes it. And when
the clock's data set compares equal to the best one, which takes variances that
differ only in the byte that is not looked at, `bmcStateDecision()` makes the port
passive without `m1()`, with its role, although another port has become the primary
slave in the same round: the record that both look at was overwritten in between.

Of what the code does, the following is worth knowing, and no comment says otherwise:

* A record is never aged. Only when a port hears nobody do its records go, all of
  them: a slave whose parent falls silent keeps it for as long as another
  master announces to the same port.
* `PTP_PASSIVE` starts the wrong timer (`protocol.c:323`), so a passive port never
  notices silence. A port whose link is down keeps its role and records.
* A slave overwrites its best record with what the parent announces, without a look at
  whose record that is (`protocol.c:904-912`). With two masters, not both on the
  second port, it is the parent's. With two on the first port and a third on the
  second it need not be: `ErBest()` for the second port moves the best record of the
  first (second finding), the first port then follows as a secondary slave, which
  keeps the parent, and the parent's announce goes into the other master's record.
  `Agrees` does not hold there, and is a property of the clocks of the run.
* `foreign_record_i` and `foreign_record_best` survive `doInit()`; the first record
  after a flap may be written elsewhere than at the best index.

Abstractions: a master keeps its identity and its cable; neighbours are
standard PTP clocks, so WR ports (`M_ONLY`, `S_ONLY`) behave as they do towards those,
and the WR setup is in `WRLink`. The data set behind the last port, which
`bestForeign` points at when no table has a record, is zeroed memory: true for fewer than 32
ports. What `globalSecondSlavesUpdate()` computes is read by nobody.

## 8. Minipc

A channel is a stream socket of one client. `requests` and `replies` are what is
in it, in each direction; `recv()` takes all that is there, so of several packets
only the first is seen (`Handled`, `Taken`). `fd` has the server's places. The daemon
serves its channels between two rounds of the protocol engine:
`minipc_server_action()` is `Select`, `MpcHandleClient` for each place found
readable, and `MpcHandleConnection`; clients act between these. A call is
`MinipcCallSend`, then `MinipcCallReceive` or `MinipcCallTimeout`. Clients may end at any
point; the daemon may end (`Restart`) or initialise its exports again
(`PtpdInitExports`, called for each slave port that is initialised), after which
the old server is open and nobody serves it (`"orphan"`).

| property | says | why it could fail |
|---|---|---|
| `RpcSpec` | `Minipc` implements `Rpc`: calls are executed in order, each at most once, and answers come from executed calls, each at most once | merged packets, late replies, ends that close with data under way |
| `LagBounded` | a call that returns has its own answer, or one that is older by at most the number of calls that timed out | a late reply stays for the next call |
| `Served` | whoever waits for the server - to be accepted, with a request, or gone - is dealt with | no free place; places that are not given back |

That a call may return the answer of an earlier one, when the types match, is
what the code does: packets carry no number. `LagBounded` says how far
this goes. A `recv()` of a socket that the server reset returns -1, which as an
unsigned number passes the test for a short reply; the type that is read next is
whatever was on the stack (`RecvErrors`). `minipc_server_action()` returns 0 when
nothing is pending, although `minipc.h:90` promises -1 and `EAGAIN`; the daemon does not
look at it.

Fairness: weak, of `MinipcServerAction`; `ptpd_handle_wripc()` is called once a
round. Nothing is assumed of clients. Deadlock is not checked, since
all clients may end.

## 9. Runs

| run | configuration | what it shows | distinct states |
|---|---|---|---|
| `timers` | lossy link, timers that expire at any time | `RoleConsistency`, `DeltasKnown`, `PatternOffInWrMode`, `SetupTerminates` however answers and timeouts race | 47 899 |
| `faults` | lossy link, slow timers, one fault of any kind, hardware that refuses | the safety properties and `NonPreemption` through restarts, flaps, errors, PLL loss; `LinkOnAgreement`, `NoStaleAnnounce` until then | 104 701 |
| `comes_up` | one flap or PLL loss, hardware that refuses | `LinkComesUp` | 4 848 |
| `boundary` | two ports, two masters, two changes | `TypeOK`, `OnePrimarySlave`, `Agrees`, `EbestIsBest`, `ComparisonOrders` | 1 653 941 |
| `exchange` | two losses or one restart, one absence, two failures, wrapping numbers | `TypeOK`, `DelayAfterSync`, `KeepsUp`, `FeedSpec` | 8.9 million |
| `servo_time` | 2 units of phase per ns, 4 ns cycles, 2 cycles a second, two links, a fibre of 3, 4 or 16 units, three asymmetries | `ArrivalExact`, `DelayMeasured`, `OffsetExact`, `SplitExact` | 202 752 |
| `servo_tracks` | six offsets, drift of 4 or of 3 and 1 before the lock, tracking off and on, one loss of lock | `TypeOK`, `ErrorBound`, `OutputNeverJumps`, `Locks` | 4 258 754 |
| `sock_queue` | ring of 11 cells, three sizes | `TypeOK`, `AvailExact`, `QueueSpec` | 26 400 |
| `rpc` | two channels, a server with one place, two calls on each, one restart or new export | `TypeOK`, `LagBounded`, `RpcSpec`, `Served` | 1.5 million |
| `sync_fault` | one restart | *violation*: see findings | - |
| `boundary_both_on_second` | both masters on the second port | *violation*: see findings | - |
| `servo_out_of_lock` | one loss of lock | *violation*: see findings | - |

**Bounds.** In `WRLink`, `WrStateRetry` and `CalRetry` are 1: a state is
entered, repeated, and given up, which are all three outcomes of
`wrTimerExpired()`. A larger limit adds rounds of the same repetition.
`MaxForeignRecords = 2` lets `foreign_record_i` advance and wrap with one
neighbour. `QueueCap` bounds a socket; what does not fit is dropped, as a
socket buffer does, so a small bound only adds loss. It is 1 in `timers`, where
each message may then still be answered late, but two copies of one message are
not under way together; it is 4 in `faults`. `AnnounceRoom` stops a
master from announcing into a socket nobody reads. `MaxFaults` is 1, in any
state of the two daemons. `DisableFallback` is `FALSE` in all runs: with `TRUE` a
link setup that fails leaves the port disabled for ever, which is a part of
the same state space that only ends earlier. The theorems cover both.

`comes_up` has no restarts and no receive errors: after those the slave is in WR
mode with a master that is not, the code's remedy is SYNCHRONIZATION_FAULT, and
that does not restart the setup - the first finding below. It assumes no loss,
since a lost `WR_MODE_ON` legitimately ends in fallback.

In `BoundaryClock` two ports are the least number at which ports decide one after
the other, and two masters, on different ports or both on the first, the least at
which one replaces the other. `MaxRecords = 2` fills the table, and `next` wraps.
`Receipt = 2` lets one announce be lost without a timeout and two not.
`MaxEvents = 2` allows a change and another before the first has been digested; 3
passes as well (7.7 million states) and takes too long for a routine check. The
clock is one that ranks above or below the masters, and decides for itself or has an
uplink and a downlink; a master may get worse than it. `NotBothOnSecond` leaves
out two masters on the second port, which is the finding. That `OneUplink` holds of the
instances is an `ASSUME` of `MCBoundaryClock`.

In `SyncExchange`, `SeqMod` is 4 so that numbers wrap within `MaxSyncs` Syncs
and `MaxRequests` timer-driven requests; what matters about the modulus is that it
exceeds the frames in flight, and that it can be passed.

In the servo runs a cycle is 8 units of phase and a second 3 cycles, so that
offsets of less than a cycle, of cycles and of seconds, of both signs, are all
within 60 units. `MaxDrift = 4` either way is a whole cycle.
`MaxMissed = 2` lets the servo also give up waiting. In `servo_time` the units are
chosen so that each conversion rounds: 3 units of a correction field against 2 of
phase, an odd number of units in a half, a fibre of three units.

In `Minipc` one place for two clients makes clients wait, be refused and take over a
place; two calls on a channel merge in it and mistake answers. A third call
repeats the second.

## 10. Findings

1. **SYNCHRONIZATION_FAULT does not restart the link setup** (run `sync_fault`).
   `protocol.c:544-555` describes it as the mechanism that enforces the link
   setup when one end leaves WR mode. It calls `toState(PTP_UNCALIBRATED)`, which
   first leaves `PTP_SLAVE`, and that clears `wrMode` (251-252). The test that
   starts the setup then needs `wrMode = WR_SLAVE` (340-343) and fails; the port
   stays a standard PTP slave.
2. **The best record need not be the best** (run `boundary_both_on_second`).
   `bmc.c:815-822` says that `EBest()` finds the globally best foreign master, as the
   best record of the port it returns. `globalBestForeignMastersUpdate()` calls
   `ErBest()` with the table of each updated port but the data set of the first
   port (`protocol.c:1976`): it looks at as many records as the *first* port has and
   sets *its* `foreign_record_best`. The best record of another port is never
   looked for. With two masters that are not both on the second port, as in the run
   `boundary`, the two agree. With three they need not, even if the second port has
   one only: what that one announces moves the best record of the first port.
3. **The output may be turned on with the PLL out of lock** (run
   `servo_out_of_lock`). `wr_servo_update()` turns the output off and sets `doRestart`
   when the PLL is out of lock ("PLL OutOfLock, restarting sync",
   `wr_servo.c:335-340`), and then still runs its state machine, which in
   `WR_WAIT_OFFSET_STABLE` turns the output on again (403). It stays on until
   `wr_servo_init()` runs after another link setup.

## 11. Proofs

`WRLinkProofs` proves, for all values of the constants that satisfy the
assumptions of `WRLink` (any retry limits up to 255, any table size, all options
and faults, any queue bounds):

    THEOREM TypeCorrect     == Spec => []TypeOK
    THEOREM RolesConsistent == Spec => []RoleConsistency

**The invariant.** Both follow from `TypedAndDriven == TypeOK /\ RoleConsistency`,
which is inductive. `RoleConsistency` concerns one port at a time, so the proof
looks at the one daemon that takes a turn. It needs no knowledge of the peer:
the argument is that

* `toState()` does nothing while the WR FSM runs, so it cannot move a port away
  from under it (`ToStateType`);
* the WR FSM is started in two places only: by entering `PTP_UNCALIBRATED` as a
  candidate slave (`EnterUncalibratedType`), and by a `SLAVE_PRESENT` in
  `PTP_MASTER` (`HandleSignalingType`), each with the mode that drives it; leaving
  IDLE re-initialises the WR data but keeps mode and role (`InitWrDataFields`);
* a slave role is not lost while the FSM runs, since roles change in state
  decisions, which need `wrPortState = IDLE` (`DecideType`). Without the role,
  entering `S_LOCK` would leave the FSM where it was;
* the remaining operators keep `portState`, `wrMode`, `wrSlaveRole` and
  `wrPortState`, or end the FSM (`SameRole`, `SameMachine`).

The type part is needed for the substates, the record index and for the
CASEs over states to be complete.

It goes on from there:

    THEOREM DeltasAreKnown  == Spec => []DeltasKnown
    THEOREM PatternIsOff    == Spec => []PatternOffInWrMode
    THEOREM FsmNotPreempted == Spec => NonPreemption

`FsmNotPreempted` needs `TypedAndDriven` only. The other two say something of a port in
WR mode, but why it holds was decided long before, so their invariant `Modes`
follows the handshake of one port: `Placed`, which of the two WR FSMs a port can be
in at all; `PeerDeltas`, from which state on the peer's fixed delays are known (a
slave learns them before its own calibration, a master after it); `PatternOff`,
from which state on the calibration pattern is off; `Requests`, that a calibration
asks for the pattern exactly where the PHY needs calibration. A master that responds
to a request looks at the flag of that request: therefore the invariant also
says what is in the slave's `out` and in the channel to the master (`FromSlave`). It
does not need to know which session a message is of: a late one never makes a port skip
the state that learns the deltas.

What both ends know of each other is the subject of the last part:

    THEOREM LinkAgrees        == SlowTimers => (Spec => []LinkOnAgreement)
    THEOREM AnnouncesAreFresh == SlowTimers => (Spec => []NoStaleAnnounce)

`SlowTimers` is not for convenience: with timers that may expire at any time the first is
false even on a link that loses nothing (3.4). Its invariant `HandshakeOK` is `Lockstep` until the first fault, and
`Lockstep` says of each queue how far the end that will read it can be:
`NothingLeft`, a slave outside the setup has nothing on its way to the master;
`LastFrame`, `CALIBRATED` is the last frame that the slave sends, and it waits
after it; `Answered`, a master about to switch WR mode on has emptied its queue and its
slave still waits; `ModeOnComes`, so it still waits when `WR_MODE_ON` is on its way, and
each frame behind that is an announce of WR mode; `BothOn`, the two theorems;
`Forgotten`, `msgTmpWrMessageID` of a turn before lets no port go on, since
`doWRState()` clears it at the end of a turn; `Healthy`, no daemon restarts and no
port is faulty. A retry could break it: a slave that gives up while an answer is under
way starts over, and the old `WR_MODE_ON` meets the new setup. `ExpiredQuiet` is
the lemma that excludes this: a slow timer expires only when both queues are empty
and neither daemon has a step to take. Lost frames are no exception: a loss
removes a frame from a queue, and each conjunct stays true of what remains
(`LoseFrameLink`). TLC checked `HandshakeOK` on the states of the run `faults` before it
was proved.

`SyncExchangeProofs` proves, for any `SeqMod` and numbers of Syncs, requests, restarts,
losses and failures such that the frames in flight and lost are no more than there
are sequence numbers (`InFlightAssumption`: 65536 in the code),

    THEOREM TypeCorrect      == Spec => []TypeOK
    THEOREM DelayIsAfterSync == Spec => []DelayAfterSync
    THEOREM RefinesFeed      == Spec => FeedSpec
    THEOREM ServoKeepsUp     == Spec => []KeepsUp

A sequence number tells an exchange only as long as the numbers have not wrapped
around since, and that is about frames on their way. The invariant says of each Sync,
Follow_Up, Delay_Req and Delay_Resp in the two queues how its true number relates to
what the slave has heard, to what its servo has used and to what was sent last
(`SyncsInOrder`, `RequestsInOrder`, `AnswersInOrder`), counted by the frames behind it in
the queue; `SyncHeard` and `Departure` say the same of what the slave keeps. `FollowUps`
carries the two cases of the model: without restarts a number tells its Sync
(`Numbered`), without losses a Follow_Up comes right after its Sync (`Paired`).
`InRoom` bounds the frames in flight.

`ServoKeepsUp` needs an invariant of its own, `Progress`: while nothing has gone wrong
(`Calm`), what is on its way tells the stage of one exchange: nothing (`AtRest`), the
Sync and its Follow_Up (`SyncComes`), the Follow_Up, the Delay_Req, or the Delay_Resp,
among announces. Each stage says what the servo holds and has been fed. The heart of it
is `InExchange`: the answer to the request on its way will be accepted, or the request
has the last number, the next one has number 0, and the Sync before was used
(`NextNumber`: of two numbers in turn, the answer to one is accepted). That takes
more than one sequence number, `WrapAssumption`: with one no answer would ever be
accepted.

`ServoProofs` proves, for all values of the constants of `Servo`,

    THEOREM TypeCorrect == Spec => []TypeOK
    THEOREM NeverJumps  == Spec => []OutputNeverJumps

The first needs that the timestamp arithmetic stays within the integers, which
holds because its units are positive. `OutputNeverJumps` alone is not inductive:
a step may adjust counters in `SYNC_NSEC`, where nothing in it says that the output is
off, or turn the output on while counters are pending. `OutputOffForCounters`
says what it leaves out: in `SYNC_NSEC`, and while waiting to get (back) there,
the output is off, and counters are pending only while the servo waits so.

It adds

    THEOREM ErrorIsWithinDrift == Spec => []ErrorWithinDrift
    THEOREM ErrorIsBounded     == Spec => [](cold = 0 => ErrorBound)

`ErrorWithinDrift` is `ErrorBound` with `Threshold + 2 * cold` in place of
`Threshold`. For all constants this is what is true: a drift with the output off may
mask, in the one update that turns it on, an error that the synchronisation left
(5.2), by up to `cold` at each of the two measurements. The run `servo_tracks` has
`cold` up to 1 and checks the tighter bound there. The proof has two parts. First, the
arithmetic (`ServoArithmetic`) loses nothing: `PicosToTsExact`, `TsAddExact` and `TsHardwarizeExact` say
that the number of picoseconds a timestamp stands for goes through each function
unchanged, whichever branches it takes, so that `ts_offset_hw` is the error of the
clock (`OffsetExact`). Second, the invariant: the state machine
sees a clock that was not adjusted during the exchange (`Measured`, because
`WAIT_SYNC_IDLE` passes only between two exchanges), so that the round trip is twice
the delay and, being shorter than `Word` (`DelayAssumption`), survives the unsigned
shift; `cur_setpoint` is what the shifter was last told (`SetpointKept`); until the
offset is stable the output is off (`OffUntilStable`). From these, an update that
tracks changes the commanded phase by what it takes from the delay not yet seen,
the drift changes the offset by what it adds to it, and the error stays what it was when
the output was turned on.

`ServoExchangeProofs` proves, for all values of the constants of `ServoExchange`,

    THEOREM ArrivalIsExact  == Spec => []ArrivalExact
    THEOREM DelayIsMeasured == Spec => []DelayMeasured
    THEOREM OffsetIsExact   == Spec => []OffsetExact
    THEOREM SplitIsExact    == Spec => []SplitExact

Assumed are positive units, a period that is a whole number of nanoseconds and
divides a second (`PeriodAssumption`), the links of 5.1 and `ResolutionAssumption`: a
period of at least four units, a second longer than a period, and a correction
field finer than a phase. All are true of the code's 8000 ps, 1000 ps, 10^9 ns and
2^16. The invariant only says where the timestamps come from; the work is in the lemmas.
`LineariseFinds` is about the two counters: the phase comes out as it went in,
and in the quarter of a period on either side of the transition the counter of
falling edges tells on which side of its own transition the other one was sampled;
`ReceivedExact` adds the seconds, which the counter may be wrong about too.
`TsSubExact` and `TsAddExact` carry the four timestamps to the round trip
(`RoundTripMeasured`), `PhaseArrives` is the unit that t4 may lose, `FibreRounds` what
the two shifts round away, and why no delay is negative. `TsSub` leaves nothing
below zero, `TsAdd` normalises what is not below zero (`TsAddNormalised`), and from a
normalised timestamp `HardwarizeSplits` follows the branches of `ts_hardwarize()`.

`SockQueueProofs` proves, for every size of the ring, of a header and of the frames,

    THEOREM TypeCorrect  == Spec => []TypeOK
    THEOREM AvailIsExact == Spec => []AvailExact
    THEOREM RefinesQueue == Spec => QueueSpec

The invariant says that there *is* a sequence of frames that lie next to each other
from the tail to the head, each with its size in two cells and its payload behind
them (`LaidOut`); the offset of each from the tail is given by an increasing
function, so that the positions are those offsets modulo the size of the ring. `avail`
is what the last offset leaves. Under it, what `Stored` meets on its walk from the tail is
that sequence (`StartsMeet`): storing appends to it and fetching takes its
head, wherever the ring wraps. The walk is a recursive function; that two
functions with the same first value and the same step agree is proved by
their least difference (`FunctionsAgree`).

`MinipcProofs` proves, for any channels, places, calls, timeouts and restarts
(`NoChannelAssumption`: a free place holds no channel),

    THEOREM TypeCorrect  == Spec => []TypeOK
    THEOREM LagIsBounded == Spec => []LagBounded
    THEOREM RefinesRpc   == Spec => RpcSpec

The invariant: a channel has one place at the server exactly while it is accepted
(`Seated`), and what `select()` found is still there when it is handled
(`Handling`), so no call is executed for a channel that is gone; along a channel the
numbers of the calls answered, in replies, executed and in requests ascend
(`InOrder`), from which a call is executed at most once; and the calls made
exceed the last one answered by at most the timeouts (`Behind`).

`BoundaryClockProofs` proves, for all data sets whose fields have the widths of the code,

    THEOREM ComparisonIsAntisymmetric ==   the result of a comparison the other way
                                           round is the opposite one
    THEOREM ComparisonIsLexicographic ==   Comparable(a, b, own) =>
                                             (Better(a, b, own) <=> Ranked(a, b))

and, for any number of ports, records and masters, any cables and changes,

    THEOREM TypeCorrect == Spec => []TypeOK
    THEOREM FollowsOne  == ASSUME OneUplink PROVE Spec => []OnePrimarySlave

`Comparable` is what `ComparisonOrders` checks on a sample: the qualities go with
the grandmaster, neither message is the clock's own, and the variances differ in
the byte that is compared. What `Ranked` says is a lexicographic order of nine
numbers, so that the best of several data sets does not depend on the order of the
records or ports.

For `TypeCorrect`, `OwnRecords` says that a record in use has the number of its port
and holds an announcement; `BestIndexFinds` that the loops of `ErBest()` and `EBest()`
return one of the indices they look at, if there is one (a loop of any length is a
recursive function, which exists by induction, `LoopExists`). `FollowsOne` needs
more: one decision event is carried out over a round of turns, and in the middle of
it two ports may well be primary slaves, the old one not having had its turn.
`Following` says what holds then: those that have had their turn are slaves by
configuration or the port of `bestForeign`, which does not change before the end of
the round, whatever announces do to the record it points at; and between events there
is one. `Entitled` says who may have the role at all: no master by configuration,
and no port that listens, since such a port is not looked at by a decision. A
comparison of the clock's own data set with a foreign one never ends in a draw
(`NeverEqual`): this is where the variances matter. A link that comes up starts with
no role (`DoInitDoes`); that is why ports without a link need not be counted.

**Layout.** First the invariant, in named parts; then lemmas about what the model is
built from (updates of one field, sequences, arithmetic). In the proofs about `WRLink` a lemma
`...Type` per operator says what type it returns and which of the fields above it
keeps, one `...Mode` what of the handshake; in those about `BoundaryClock` one `...Does`
what it leaves. A lemma `...Step` (or `...Keeps`) per action
follows, then one that joins them, and the temporal step at the end.

**Only model-checked:**

* `SetupTerminates`, `LinkComesUp`, `Served` and `Locks`: liveness under fairness is
  out of reach of the prover's backends.
* `Agrees` and `EbestIsBest`: they are properties of two masters (7.2), not of all
  constants. `ComparisonOrders` is about a sample of data sets; the theorem above is
  for all.
* `ErrorBound` for a fibre that drifts with the output off.

## 12. Not modelled

* `display.c`: output; no protocol state depends on it.
* `arith.c`: its results, the corrections of Sync and Delay_Resp and the peer delays,
  are displayed and reach neither the servo nor a decision. What `toInternalTime()`
  loses of t1 and t4 is in `ServoExchange`.
* The peer delay mechanism: nothing reads what it computes. Management messages:
  the handler has no support for them.
* `hal_exports.h`, the kernel, the HAL daemon: outside the repository's code; the
  models contain the answers they may give.
* A departure timestamp that belongs to another frame
  (`ptpd_netif.c:394`): whether it can depends on the driver; the models assume
  one of its own frame or none.
* Option parsing, socket setup, discovery of interfaces: I/O without protocol
  state.
* The byte layout of messages: a message is the record of the fields that steer
  the receiver.
* The WR link setup on a clock of several ports; a restart that the servo asks for
  there. `WRLink` and `BoundaryClock` each have one side of it.
* What nobody reads: the secondary slave's data, statistics, the values that
  `get_sync_state` copies.
* libminipc over shared memory or mapped devices, the marshalling of arguments,
  `minipc_unexport()`, and more than the 64 descriptors `select()` is told of.
* Of `libposix`, the choice of the socket for a frame and sending; `wr_servo_man_adjust_phase()`.
* Build files and manuals.
