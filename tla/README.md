# MeshBench: specification and proofs

TLA+ models of the parts of MeshBench that are hard to test: the lockstep
between the engine and the firmware processes, what is on the air and what
becomes of it, how processes are started, stopped and replaced, and the parts
of the session around them: the store and its verb queue, the clock, the serial
port, sweeps, the control socket, the link matrix and the way the process ends.
TLC checks small instances; TLAPS proves the main invariants for every value of
the constants.

Source paths below are relative to `src/internal/`.

## 1. The system

| Component | State it keeps | Operations | Talks to |
|---|---|---|---|
| Engine step loop (`sim/engine/engine.go`, `firmwarerun.go`, `debug.go`) | `nowMs`, the nodes and their `Firmware`, `firmwareDown`, `debug`, `held` | `Step` = completeTransmissions, runFirmware, collectTransmissions; `SetDebug`, `Close` | bridges; the session, which calls it |
| Bridge (`firmware/bridge.go`, `lockstep.go`) | the connection, `acked` (1), `Transmitted` (32), `done` | `BeginAdvance`, `WaitAdvance`, `CaughtUp`, `Deliver`, `TransmitFinished`, `Close`; its reader goroutine | one firmware process, over a socket |
| Firmware process (`mesh/shim/native_main.cpp`, `tick.h`) | its clock, whether it is keyed | run a tick and acknowledge it, transmit, hear that a transmission ended | its bridge |
| The air (`sim/engine/transmissions.go`, `rxlock.go`, `collision.go`, `events.go`) | `inFlight`, `recent`, `seen`, scores, ledger, capture, event log | start, complete and judge a transmission | the nodes it delivers to |
| Attach (`sim/engine/firmware.go`) | `attachMu`, `closed`, the job queue and its workers | `AttachNativeProgress`, `adopt` | bridges; the caller's progress callback |
| Session (`app/session`) | `s.eng`, whether firmware is starting | the verbs; `Reflash`, `startFirmware`, `stopNode`, `startNode` | engine; store |
| State store (`app/state/store.go`) | the world, the queue of 64 verbs, handlers | `Run` (verbs and a ticker on one goroutine), `Do`, `Close` | everybody |
| Shutdown (`ui/workbench/shutdown.go`, `app/session/enginefirmware.go`) | `s.eng`, who has it | a signal and the window's quit, each with a bound; `CloseContext`, `detach` | store; engine |
| Session clock (`app/session/clockstep.go`, `sendschedule.go`, `inputqueue.go`, `verbsclock.go`, `simctl.go`) | owed time, the end of the run, sends and input held with `at_ms` | `stepTick`, `step`, play, run, step, settle, reset, schedule, hold | engine; the world's copy of the clock |
| Serial port and companion links (`firmware/serialport.go`, `mesh/companion/pipe.go`, `app/session/companion.go`) | who has claimed the port, its generation, the console's backlog; each link's client | claim, release, write, attach, close | bridge; TCP clients; the console pane |
| Collision damage (`sim/engine/collision.go`) | none: it judges a packet and what overlapped it | spans, their union, what the code repairs | the air |
| Control socket (`app/control`) | connections, the queue of calls, subscriptions, what was dropped | request, reply, subscribe, notify, `Pump`, `Close` | store; clients |
| Experiments (`app/session/experiment`) | arms, seeds, results, who runs | define, vary, start, stop; a goroutine that walks the matrix | verbs, through the store |
| Link matrix (`app/session/enginewarm.go`, `matrixdisk.go`, `gpuwarm.go`, `sim/engine/links.go`) | what each pair of nodes costs, whether that is measured, the matrices on disk | warm, rebuild, switch the buildings, evict | engine; store; a goroutine per warm |
| Recorders (`sim/engine/eventlog.go`, `sim/capture`) | an open file or pipe, counts | start, write, stop | engine |
| RF, DSP, terrain, GPU, waveform judge; emulated backends; firmware library and updates; studies; world data; the workbench UI; client libraries | | | |

What is hard about it:

- **Three kinds of goroutine touch one node.** The store's goroutine steps the
  engine and runs verbs; each bridge has a reader; a reflash, and a start of
  every node, each have one of their own and write `Node.Firmware` without a
  lock while a step reads it.
- **A process can go, hang, be late, or be stopped in a debugger**, in the
  middle of a step that is waiting for it, and its answer may come during a
  later one.
- **A verdict needs the past.** A transmission is judged when it ends, against
  everything that overlapped it, some of which ended steps ago and has been
  pruned; it is judged receiver by receiver, and a failing hand-off abandons
  the rest.
- **Goroutines wait for each other through the store**: an attach reports
  progress by asking the store for a verb and waiting for the answer; so do a
  sweep, a warm and a shutdown, each of which may be cancelled, or give up,
  while its verb is in the queue.
- **Work outlives what it is about.** A warm measures a network that is
  replaced under it; a sweep is started while the last cell of the one before
  is running; a client claims a port of a link that has been closed.

The hazards, at their lines, are in `PROJECT.json`, with the properties that
would catch each.

What makes each part correct:

* *Lockstep.* No instant is announced while a node that is counted on is behind
  the last one, and no node runs ahead; a node is owed at most one
  acknowledgement; a node held by a debugger rejoins; a step always returns; a
  radio that is keyed will hear that it is not.
* *Air.* Nothing that overlapped a transmission is missing when it is judged; a
  node does not hear while it transmits, nor two packets at once; each
  reception is judged, recorded and scored once.
* *Attach.* One process per node; no process without somebody to stop it; an
  attach ends; a closed network is left empty.
* *Store.* A verb is served at most once and one at a time; whoever is told the
  store has stopped is told the truth; a call comes back, however busy the
  ticker. A shutdown closes the engine before it exits, and exits.
* *Clock.* What is scheduled or held is done once, in order and in time,
  whoever takes the steps; a tick lands at the end of the run; the world shows
  the engine's clock.
* *Serial port.* Whoever claimed the port keeps it until they let go; a claimed
  port has somebody on it; the console shows what was said in order.
* *Sweep.* The table of results is of one sweep and has each cell once; a sweep
  shows while it runs and lets go when it ends.
* *Control socket.* A reader that waits has one answer coming; a client is told
  things in their order; every request is answered or its connection ends.
* *Collision.* A stretch of a packet is destroyed once, by however many; a chip
  told that it read a header had a readable one.
* *Link matrix.* Measured means walked, since it was last taken back; the links
  on the map are of the network that is open; a loss is kept under the key of
  what priced it; a measurement ends and its job row with it.

## 2. Modules

| Module | Models | Composed with |
|---|---|---|
| `TickBarrier` | what the lockstep clock promises, abstractly: announce, run, leave, restart | implemented by `Lockstep` |
| `Lockstep` | `Engine.Step`, the bridges, the processes, debugging, a node stopped and started mid-step | instances `TickBarrier` |
| `LockstepProofs` | type correctness, the refinement, and what a node is owed and owes | extends `Lockstep`, `TLAPS` |
| `RxLock` | `demodulatorHeldBy`: a walk over the timeline, as operators and a recursive function | used by `Air` |
| `Air` | transmissions, the recent set, verdicts, scores, ledger rows, the log | extends `RxLock` |
| `AirProofs` | type correctness and all that the run `air` checks: the concurrent set, half duplex, one packet at a time, scores, the ledger, the log and its search | extends `Air`, `TLAPS` |
| `Attach` | attaches, reflashes, node verbs and the closing of an engine | |
| `AttachProofs` | type correctness, that no process is orphaned and no node has two | extends `Attach`, `TLAPS` |
| `SerialServer` | what the verb queue promises, abstractly: ask, serve, answer, refuse | implemented by `Store` |
| `Store` | the store's goroutine, its ticker and queue, and `Do` | instances `SerialServer` |
| `Shutdown` | the closers, on top of the store they ask for the engine | extends `Store` |
| `Clock` | ticks, hand steps, settles and timed runs; the schedule and held input | |
| `ClockProofs` | type correctness, that what is due is done, the end of a tick, the clock the world shows | extends `Clock`, `TLAPS` |
| `SerialPort` | claims, the console and its backlog, links, their clients and the verbs about them | |
| `SerialPortProofs` | type correctness, that claims are kept and have somebody behind them, the order of the console | extends `SerialPort`, `TLAPS` |
| `Sweep` | the matrix, the verbs that change it, and the goroutines that run it | |
| `Control` | readers, writers, the queue and pump, subscriptions and `Close` | |
| `ControlProofs` | type correctness, one answer coming, acknowledgement before news, every reply sent | extends `Control`, `TLAPS` |
| `Collision` | damage to a packet as arithmetic on spans, and the verdict on it | |
| `Warm` | the link matrix, the warms that measure it, the verbs that replace it under them | |
| `WarmProofs` | type correctness and what the matrix promises | extends `Warm`, `TLAPS` |
| `MCLockstep`, `MCAir`, `MCAttach` | the instances TLC checks | |
| `MCSession` | the parts of a session, side by side | extends `Shutdown`, instances the six others |
| `SessionProofs` | the store and its refinement, the shutdown, the sweep; and that in `MCSession` every part behaves as it does alone | extends `MCSession`, instances the proofs of `Clock`, `SerialPort`, `Control`, `Warm` |

Operators whose comment begins "a slip" are not part of a specification: each
is a plausible mistake in the operation defined after it, kept to show that
the properties notice it.

### Lockstep

One action per place where the engine's goroutine can be overtaken.
`Engine.Step` is `StepBegin` (the clock advances and what ended leaves
`inFlight`), `TellSender` / `TellSenderFails` for each finished transmission,
`LookAtReceiver`, `DeliverFrame` / `DeliverFails` / `DeliverPanics`,
`FirmwareTargets`, then for each target `SkipHeld`, `BeginAdvance` or
`BeginAdvanceFails`, then for each one asked `WaitAdvance`, `WaitAdvanceStale`,
`WaitAdvanceFails`, `WaitDeadline` or `WaitAdvanceReplaced`, and
`CollectTransmissions`, node by node and frame by frame (`CollectPasses`,
`CollectLooks`, `CollectTakes`, `CollectEnds`, `CollectPanics`). `pc` says which
part is under way; `ask` says how far each node has got in this round. `deliver`
and `collectTransmissions` look at a node's slot and read it again to use it,
with no lock: `looked` is the node between the two, `next` the one collected
from. A slot that `StopClear` has emptied in between (`EmptiedSince`) is a nil
dereference, which nothing in the engine or the session recovers: `pc` is then
"panicked", and of the program nothing moves any more. The bridge's
reader is `ReadFrame`, `ReadAck`, `ReadEOF`; the process is `NodeTxDone`,
`NodeTransmit`, `NodeAck`. `Crash`, `Break`, `Continue` are the world.
`SetDebug` and `ClearDebug` are verbs, so they happen between steps.
`StopClose`, `StopClear` and `Adopt` are a reflash, which may fall anywhere.

`gen` numbers the starts of a node's firmware, so that "the process this step
asked" (`target`) and "the process in the slot" (`gen`) can differ, as
`ticked.fw` and `Node.Firmware` can. The bridge of a start that has been
replaced is not kept: whatever it had said may or may not have arrived, and
`WaitAdvanceReplaced` and `WaitAdvanceFails` leave both open.

Abstracted: time is counted in engine steps and a node's clock from its boot
offset; frames have no content; who hears a frame is left open (`Air` is about
that); `SetChannelBusy` and `BeginAdvance`, two writes to one socket with
nothing between, are one; `DeliverFailed` is a delivery that says less; radio
statistics and the console share the socket and change nothing here. An
emulated board, whose debugging restarts it, is not modelled: `Debuggable`
nodes are native.

### Air and RxLock

`CompleteTransmissions` is `Step`'s clock and the first half of
`completeTransmissions`, including a sender that cannot be told, which ends the
step there; `Deliver(r)` is one round of `deliver`'s loop, for one
receiver, with one action per outcome, taken in the code's order;
`StartTransmission` is what was collected from firmware or injected. `recent`,
`concurrent` and `judging` are the code's `recent`, `concurrent` and what is
left of the loops. `air` and `failed` are history.

`Power[n][m]` stands for everything between an antenna and a demodulator, as
the order in which a receiver would rank the senders, and `Capture` is how
much louder a packet must be to ride over another. What lands on a packet and is
not ridden over destroys what it overlaps, and the code puts back a symbol of it
(`Repairable`, after `corruptedSymbols`: `Collision` has the arithmetic in full).
Whether what was offered is strong enough, and whether what remains repairable
is repaired, come out of noise and coding and are left open: any offered,
undeafened reception may be lost. All nodes share a channel and terrain is loaded; on the
path where it is not, `deliver` logs a miss without a ledger row. The waveform
judge, which decides by decoding, is not modelled. `RxLock` keeps the contest,
the survival of a preamble and the tie-breaks as they are.

### Attach

`pc` has a label for each goroutine: the store's, that of `startFirmware`, and
one for each reflash. A goroutine that asks the store for a verb waits until
the store is free (`Answered`, `ProgressAnswered`); a verb that works on the
store's own goroutine (`node.stop`, `node.start`, opening a network) keeps it
from being so. `AttachLock` is taking `attachMu` and asking whether the engine
is closed; `Skip`, `Boot`, `BootRefused`, `BootFails` and `Adopt` are a worker's
turn with a node; `AttachReturn` is `wg.Wait` and the unlock. `StopClose` and
`StopClear` are the two statements of `stopNode`. A process is a record of the
engine, node and launch it belongs to. Builds and the reasons for a failed boot
are left out; any boot may fail.

The count at which `startFirmware`'s callback asks for a verb (every tenth
completion and the last) is left open: any completion may.

### Store, SerialServer and Shutdown

`Store` has an action for each branch of the two `select`s: `Serve` and `Tick`
of `Run` (with `Drain`, `DrainServed` and `Step` inside a tick), and `Send`,
`SendRefused`, `TakeReply`, `WaitRefused`, `GiveUp` of `Do`. A handler runs
between `Receive` and `Served`, so that callers, `Close` and deadlines may fall
in between; what it does to the world is left to the modules about it.
`SerialServer` is the promise: a caller asks; it is served at most once and one
at a time; it is answered only if it was served and refused only if it never
will be. `Shutdown` adds the closers: each asks the store for the engine
(`session.detach`, whose read and clearing of `s.eng` are the begin and end of
its handler), or takes it itself when the store is not running, closes it, and
exits; its bound may expire anywhere. The journal, undo and snapshots are left
out of `Store`: one goroutine alone touches them.

### Clock

Everything in `Clock` happens on the store's goroutine; a tick, a hand step and
a settle are taken apart into their steps so that each can be seen. A tick's
time is banked (`owed`), taken in whole steps, stopped at the end of the run
(`TickStopsAtEnd`) or by the wall budget, which may run out after any step
(`TickSteps`). `said` is history, and counts how often each send was said.
A sweep's cell runs an engine of its own on another goroutine: `cell` is that
engine's clock while it is published (`CellTakes`, `CellSteps`, `CellEnds`, from
`benchlive.go` and `cell.go`). A tick that finds one banks and steps nothing
(`benchOwnsTheClock`), and one that ends while there is one shows its clock in
place of the session's (`liveEngine`); `shown` is history, and says whose clock
the world's was last read from, or that the engine has been replaced since.
Random draws and what a send says are left out.

### SerialPort

`Claim` and `Release` are `Bridge.Claim` and the function it returns, by
generation; `Say` and `Write` are the two halves of `writeConsole`, around the
unlock. Each link's `Pipe` and listener is closed in two steps (`ClosePipe`,
`CloseListener`). A client's `attach` is `AttachClient`, under the pipe's lock,
and then `nodeSerial.Attach` without it: the look at the release (`AttachLooks`),
the call of it (`AttachLetsGo`), the claim (`AttachClaims`) and the storing of what
undoes it (`AttachStores`), since verbs, a restart of the node and other clients
may fall between. `Detach` is two steps, `DetachReleases` and `DetachClears`, in
which its caller has the pipe's lock (`locked`): it overtakes an attach, and is
not overtaken by another `Detach`. A release that was there when it was looked at
and has been cleared when it is called is a call of nil: the client is "panicked"
and the process over. That a node has no firmware at all for a moment of its
restart, for which `Attach` and `Write` look, is left out: `Restart` is one step.
What is said is numbered, nothing more.

### Sweep

One goroutine per start, whose `pc` names the verb it is sending, waiting for
or has yet to send; the store answers posts in order (`Answer`). The seeds and
arms a loop reads are arrays with identity (`arrays`), because `define`
rewrites one in place while a loop reads it. A cell is one step with a result.
A cancelled sweep gives up on its posts (`GiveUp`), but for the last two, `sim.pause`
and `experiment.finished` (`LastWords`): these have ten seconds between them from
`session.Finishing`, whoever stopped it or none, and are given up on when those have
run out (`Lapse`). A post that was queued when it was given up on is still served.

### Control

A connection is a reader and a writer with a buffer between; the reader gives
up on a writer that has gone. `Pump` takes the queue in one batch and performs
it call by call; `Close` empties the queue and refuses. `Notify` takes the
subscribers under the lock and offers to each outside it. Calls and
notifications have no content but what they are and, for an acknowledgement,
its topics.

### Collision

`Covered` is the code's own walk and `Sweep` makes it over the sorted spans;
`DamageIsTheUnion` compares it with a count of destroyed milliseconds. Milliseconds are whole and
symbols a whole number of them, which the code's floats are not; the rounding
of the code is kept (`Ceil`).

### Warm

A loss is told apart only by what priced it. `Build` is any verb that remakes
the engine and warms it; `Environment` is `rf.environment`, which drops the
cache and keys the geometry again but starts nothing; `AllowTerrain`,
`Recompute` start a warm on the same engine. A warm is a goroutine with a `pc`
for each place something may come between: its progress reports, the reading of
the environment and the storing of what was priced by it (`WarmOnGPU` and
`PrimeLinks`; `PathLoss` and `StoreLoss`), its two looks at whether it was
superseded, and the claim, the save and the two posts after that. `overtaken`
and `mixed` are history, for the two exceptions below.

### MCSession

These parts share no state, and their state spaces are small: a run takes them
side by side instead of one run each. `part` says which of them moves in a
behaviour; the others stay as they began, so the states are the sum of the
parts', not the product. A property of a part is guarded by its name. Two parts
may be instances of one module with other constants: `scheduled`, `timed` and `swept`
of `Clock`, `port` and `console` of `SerialPort`, `told` and `calling` of `Control`,
`switched` and `rewarmed` of `Warm`.

## 3. What TLC checks

| Run | Question | Result |
|---|---|---|
| `lockstep_nodes` | Two nodes, the first crashing, debugged and reflashed mid-step: `OneAckOwed`, `CompletionOwed`, `NeverCutOff`, and that `Lockstep` implements `TickBarrier` | holds |
| `lockstep_history` | One node, three ticks, three starts, missed deadlines, debugging turned off while held, a queue of one: `TypeOK`, `HeldWillAnswer`, and `StepReturns`, `HeldIsReleased` under `FairSpec` | holds |
| `air` | Three nodes, hidden terminals, a frame injected at a keyed node: `TypeOK`, `ConcurrentComplete`, `HalfDuplex`, `OneDemodulator`, `Scored`, `JudgedOnce`, `EventsSinceNearly` | holds |
| `attach` | A start of every node beside a reflash, a stop, or the opening of another network: `TypeOK`, `OneProcessPerNode`, `NoOrphan`, `AttachEnds`, `ClosedIsEmptied` | holds |
| `session` | The parts of a session: that the store is a serial server and a shutdown exits after closing; `DueIsDone` and `ClockIsTrue`; `PortIsKept` and `ShownInOrder`; `TableIsRight` and `SweepIsShown`; `OneAnswerComing` and `ToldInOrder`; `DamageIsRight`; `MeasuredIsWalked`, `LinksAreThisNetworks` and `PricedAsKeyed` | holds |
| `session_liveness` | Under fairness: `CallsOfDoReturn`, `AskedToEndEnds`, `SweepLetsGo`, `CallsAnswered`, `MeasuringEnds` | holds |
| `lockstep_dead` | `EveryStepRunsFirmware` | violated |
| `lockstep_restart` | `DownIsThisStart` | violated |
| `lockstep_debug_off` | `NeverCutOff` when debugging is turned off while the node is held | violated |
| `air_phantom` | `LockIsTheTimelines` | violated |
| `attach_on_store` | `StoreAnswers` | violated |
| `attach_twice` | `OneProcessPerNode` with two reflashes of one node | violated |

### What the violated runs show

Each states something the source says of itself and exhibits an execution that
does otherwise.

* `lockstep_dead`. `firmwarerun.go:49-56` says one node's firmware failing must
  not stop the others ticking. `Step` calls `completeTransmissions` first and
  returns its error, so a sender that died with a frame on the air, or a
  receiver that died before a delivery, costs every node that step's tick, and
  the other finished frames are never judged nor their senders told. The
  session discards the error (`clockstep.go:79`). This is why `CompletionOwed`
  and the second half of `JudgedOnce` are stated until a Step has failed.
* `lockstep_restart`. `firmwareDown` is kept by name and never cleared: "a node
  to restart" (`firmwarerun.go:155`) that is restarted is skipped from then on.
* `lockstep_debug_off`. `SetDebug(nil)` forgets the held tick while its answer
  is still owed. The next step sends another; released, the process answers
  both, and a bridge with room for one hangs up on it.
* `air_phantom`. `rxlock.go` re-derives the demodulator's timeline from the
  concurrent set and says that makes the answer independent of when it is
  asked, and that a packet that lost the demodulator holds nothing. The set is
  pruned to what overlaps something still on the air, so the packet that beat
  the loser may have been forgotten by the time a third is judged, and the loser
  then holds a demodulator it never had. `ConcurrentComplete` (proved) says what
  overlaps the judged packet itself is never forgotten; the contest needs one
  link more of the chain. So the walk may give a demodulator twice over, and it is
  not because of the walk that `OneDemodulator` holds (also proved): of two packets
  that overlap by more than a symbol, the one that is not ridden over destroys the
  other.
* `attach_on_store`. `node.start` runs the attach on the store's goroutine and
  waits for `attachMu`; the attach that holds it waits for the store. So do the
  other verbs that restart a node there.
* `attach_twice`. `stopNode` closes the process it read and then empties the
  slot, whatever it holds by then.

### Exceptions the properties make

A property holds with an exception where the code does not do what its comments
say; each is a conjunct or disjunct of the property, is reachable in the run that
checks it, and is a finding in `PROJECT.json` with the line.

* `StepReturns`: a Step that finds a slot emptied between its look at it and its
  use panics instead.
* `EventsSinceNearly`: the log is not in time order, as the comment of
  `EventsSince` has it: a verdict is dated when its frame ended, and verdicts of one
  step are logged in the order the frames began. What is left of the claim is
  that no event younger than the moment asked for by a step is passed over.
  `EventsSinceIsThose` is the claim itself, and is false in the same instance.
* `ClockIsTrue`: a network just opened shows the clock of the one before; and
  while a sweep's cell is published the world shows the cell's clock, and goes on
  showing it until the engine's is next read. `sim.run` reckons its end from
  either.
* `DueIsDone`: a send added where a cleared one stood, before the next step, is
  taken for the old one and never said.
* `PortIsKept`: a client accepted around the closing of its link attaches to a
  pipe already closed; and a close or a drop that falls before an attach has claimed
  the port, or between the claim and the storing of what undoes it, does not undo
  it. Both leave a claim with nobody behind it (`late`), until somebody else claims.
* `ShownInOrder`: scrollback is taken under the lock and written after it, so what
  the node says meanwhile comes first.
* `TableIsRight`: a matrix changed while it is swept (`changed`).
* `SweepIsShown`: a sweep started before the one before it has posted its end
  (`overlapped`), and one whose last two posts ran out of time (`lapsed`).
* `ExitsAfterClose`: a second closer, and a closer that gave up on the store
  after the engine had been handed to it.
* `MeasuredIsWalked`, `LinksAreThisNetworks`: a warm superseded after its last
  look at its context claims and posts all the same (`overtaken`).
* `PricedAsKeyed`: buildings switched in the middle of a warm (`mixed`).

Some statements of the source are written down beside these as definitions no
run checks, because the code does not keep them and the findings say so:
`ConsoleHasItBack`, `VerdictOnceConcluded`, `EachHitCostsASymbol`,
`OnlyThenExit`, `RunLastsAsAsked`, `EventsSinceIsThose`.

### Bounds, and why they are enough

* `lockstep_nodes`: two nodes are what a step can be between: one in trouble and
  one still owed its tick. Two ticks let an answer to the first arrive in the
  second; two starts let a step ask one process and find another.
  `lockstep_history` gives a single node three ticks and three starts, so that a
  hold can outlive a restart and be followed by another, and a queue of one so
  that it fills; there debugging may also be turned off while the node is held,
  which is how an acknowledgement comes to be stale. `MaxAir` bounds airtime in steps. Each is a guard (`StepBegin`,
  `Adopt`) or a set (`air`).
* `air`: three packets are a chain, which is what pruning and the demodulator's
  contest need: one judged, one that overlaps it, one that overlaps only that.
  Airtimes of 5 and 6 ms over steps of 2 ms end both between and at steps, and two
  packets that begin together may end in one step in either order, which is what
  puts the log out of time order; a preamble as long as the longest packet and a
  symbol of 1 ms let packets contend for the demodulator through all of their time
  and damage each other by less than a symbol, and by more. 12 ms let the last of a
  chain be judged.
  Clock and packets are bounded in `CompleteTransmissions` and
  `StartTransmission`.
* `attach`: two nodes, two networks, one reflash at a time and three verbs. The
  safety part was also checked with six verbs (675,508 states). The sets of
  verbs (`Apart`) keep out the two combinations the violated runs are about.
* `session`, store and shutdown: three callers, two of which may give up, over a
  queue of one with a drain of one: a fourth caller or a longer queue adds no
  place to be in. Clock: steps of 2 ms under ticks of 1 and 5, so a tick is less
  than a step, and more than one and not a multiple; a send at an instant and one
  that repeats; two held calls; 8 ms; and two steps of a cell beside three of the
  session's engine, so that either clock may be ahead. Port: two links and two clients,
  since a stale release needs a second claimant; three claims; nothing is kept for a
  console there (`port`), and the order of the console is checked where it is in
  question (`console`): three things said over a backlog of two, so that one is lost, one
  or two are scrollback and one is said meanwhile. Sweep: two starts, since the second is
  the one raced; two arms by two seeds, and one change or one lapse of the last words
  (they share the bound `MaxChanges`). Control: one
  client that subscribes, asks twice and is told twice over a buffer of one, or
  two clients that call. Collision: up to three interferers, placed at the edges
  of the packet, the preamble and the header. Warm: a second warm to supersede
  the first and a switch of the buildings, with a pair whose loss a radio may take
  back; and three warms on a pair it may not.
* `session_liveness` takes the same parts smaller: the graphs of liveness are
  larger than the states.
* `CHECK_DEADLOCK` is off because each bounded instance ends, and because
  `attach_on_store` is a real standstill, reported as the liveness property it
  breaks.

### Fairness

`Lockstep`: the store's ticker keeps stepping, so `Step` is weakly fair. A
deadline is a timer: strongly fair, since a process may stop and go on again
without end and the timer still expires. A reader reads and a scheduled process
handles what is in its socket (weak). Nothing obliges a node to transmit, a
debugger to let go, or anybody to reflash. `Attach`: goroutines are scheduled
(weak); a Go mutex is handed to a waiter in turn and a select takes a waiting
verb in turn (strong); nothing obliges anybody to ask for a verb. `Air` states
only safety.

`Store`: its goroutine runs and its handlers return (weak on `Run` as a whole:
which ready branch a `select` takes is not assumed). A sender blocked on a full
channel is queued by the runtime and gets its turn (strong); the other ends of
`Do` are ready until taken (weak). Nothing obliges anybody to give up, ask or
`Close`. `Shutdown`: only its bound is fair, a timer: a process asked to end
ends whatever the store and the engine do. `Sweep`: the store answers and the
goroutine goes on; a cell ends. `Control`: readers, writers and the pump are
scheduled, and once the context has ended `Close` is called; peers owe nothing.
`Warm`: each warm goes on; the verbs owe nothing, and may keep superseding it as
long as the bound lets them.

## 4. What is proved

Proofs assume only what the modules say of their constants: `LockstepAssumption`,
`RxLockAssumption`, `AirAssumption`, `StoreAssumption` (`N`, airtimes and bounds are
natural numbers, listeners are nodes, those who may give up are callers), and
`ClockAssumption`, `SerialPortAssumption`, `ControlAssumption`, `WarmAssumption` and
`SweepAssumption`, which the theorems name as a hypothesis because these modules
are instanced, and which `MCSession` evaluates for each of its instances
(`PartsAssumption`). In particular the number of nodes and all bounds are
arbitrary.

### Air

* `AirProofs!TypeCorrect`: `Spec => []TypeOK`, which is inductive.
* `AirProofs!ConcurrentIsComplete`: `Spec => []ConcurrentComplete`. Not inductive
  alone: `concurrent` is put together from `recent`, which is pruned. The
  strengthening is `RememberedInv`: what is no longer on the air has ended, and
  if it overlaps anything still on the air `recent` holds it (`Remembered`); and
  what is being judged has ended (`Finished`). Pruning by the earliest start
  keeps exactly that.
* `AirProofs!NeverHearsWhileKeyed`: `Spec => []HalfDuplex`. A verdict looks at
  `concurrent`; the property speaks of all that was ever on the air, also what is
  sent afterwards. The strengthening `HeardInv` says that packets are numbered
  apart (`Numbered`) and that an accepted one has ended by now and overlaps
  nothing its receiver ever sent (`HeardClear`): what was sent before is in
  `concurrent`, by `ConcurrentComplete`, and what is sent later starts later.
* `AirProofs!JudgedExactlyOnce`: `Spec => []JudgedOnce`. That a row is written once
  needs to know that none is there when its turn comes, and that none is missed
  that whoever has ended was judged: `LedgerInv` says what is on the air has not
  ended and what is off it has (`Landed`); rows are of ended transmissions and
  count one (`Rows`); what waits to be judged has no row (`Pending`); until a Step
  has failed each reception of what has ended waits or has one (`Covered`). That
  packets are numbered apart comes from `HeardInv`.
* `AirProofs!DecodesOneAtATime`: `Spec => []OneDemodulator`. What a verdict knows is
  the concurrent set, and which of two packets was judged first is open, so the
  invariant `HeardAlone` speaks of one accepted packet and everything that ever
  overlapped it: each is ridden over, or lands on no more of it than a symbol. It
  needs `ConcurrentComplete` when the packet is judged and `HeardInv` afterwards. Of
  two packets not each can ride over the other, so the theorem follows without a
  word about who held the demodulator.
* `AirProofs!EveryAcceptanceIsScored`: `Spec => []Scored`. The property compares sums
  over all nodes, and the library's sum is a fold in an order that `CHOOSE` gives.
  Since that order does not depend on the terms, a sum is characterised by its first
  term and the sum of the others, and that a sum grows by one with one of its terms
  is proved over subsets by taking the smallest counterexample: the way all
  induction over data is done here. The invariant adds that what each node has seen
  is finite (`Remembers`).
* `AirProofs!LogIsNearlyInOrder`: two events of the log are out of order by less
  than a step, because what is being judged ended within this step (`Fresh`) and
  nothing is dated after the clock (`Dated`).
* `AirProofs!SearchFindsTheYounger`: `Spec => []EventsSinceNearly`. The binary search
  keeps everything younger than the moment asked for, by a step, to the right of
  where it looks, because a log nearly in order can mislead it by less than that.

### Lockstep

* `LockstepProofs!TypeCorrect`: `Spec => []TypeOK`, inductive; it includes that the
  queue of transmitted frames never exceeds its capacity.
* `LockstepProofs!ImplementsBarrier`: `Spec => LockstepIsABarrier`. The refinement
  keeps `round` and `clock` and maps `member` to the nodes counted on (`CountsOn`).
  The invariant `BarrierInv` says of every node: its clock has not passed the
  round; ticks on the wire and acknowledgements on their way or in the channel
  are for instants up to the round, and an acknowledgement for an instant only
  once the clock is there; a node that has been counted as answered this round
  has the round's time. Each action is then a barrier step or a stutter:
  `FirmwareTargets` announces, `NodeAck` runs, the failures and the holds leave,
  `Adopt` restarts.
* `LockstepProofs!CompletionIsOwed`: `Spec => []CompletionOwed`. The invariant
  `CompletionInv` follows the end of a transmission from the socket to the air
  and back (`Coming`), and adds the one thing that could lose it: when a `Step`
  begins nobody is left to be told (`Told`).
* `LockstepProofs!HeldAnswers`: `Spec => []HeldWillAnswer`. `HeldInv` says a hold is of
  a start there has been, and of the one that was asked; and that a process
  asked, or held, on a connection that is open has the tick, or its answer, still
  to be taken. The property speaks of a step that is over; a hold may outlive its
  start by any number of steps, so the invariant speaks of all of them.
* `LockstepProofs!OneAckIsOwed`, `NeverIsCutOff`: `Spec => []OneAckOwed` and
  `Spec => []NeverCutOff`, if nobody turns debugging off while a node is held
  (`~DebugOffWhileHeld`). The hypothesis is needed: `lockstep_debug_off` breaks
  `NeverCutOff` without it. `DebtInv` adds to the two above that whatever is owed is
  remembered: it is being waited for, or is the tick the node is held at, or the
  node is down and is never asked again (`Remembered`). So when a tick is sent
  nothing is owed.

### Attach

* `AttachProofs!TypeCorrect`: `Spec => [](TypeOK /\ Places)`, where `Places` says each
  goroutine is where its own code can be. `TypeOK` includes that whoever still reports
  progress reports to an attach that has not returned (`ReportsInAttach`), which is what
  waiting for the workers is for.
* `AttachProofs!NoneIsOrphaned`, `OneProcessEach`: `Spec => []NoOrphan` and
  `Spec => []OneProcessPerNode`, if no two goroutines stop one node (`StopsApart`:
  a node has at most one goroutine to reflash it, and a session that reflashes
  does not stop nodes too). `attach_twice` is what happens otherwise. The invariant
  `AttachInv`: boots happen only under an attach and one attach at a time
  (`Locked`); a node being booted has an empty slot and does not come up again
  (`Booting`); launches are numbered (`Numbered`); between the end of a process and
  the emptying of its slot nobody has put another in it (`Emptying`), which is
  where `StopsApart` is used; and `NoOrphan` itself. With two processes of one
  node, one would be in neither the slot nor an attach, so the second theorem
  follows from the first. Starts of every node, failed boots and the closing of a
  network are not restricted.

### The parts of a session

* `ControlProofs!AnswersComeOnce`: `Spec => []OneAnswerComing`, for any connections, buffers
  and numbers of calls. The property counts a connection in the queue, in the pump's
  hands, in those of `Close` and in its reply channel; that `Close` overwrites nothing
  it holds needs `NoneRefused` (nothing is refused before the server has closed).
* `ControlProofs!AckComesFirst`: `Spec => []AckBeforeNotes`. What was said to a client is in
  order (`NewsAfterAck`), and stays so because whoever is registered, is about to be,
  or is about to be notified has had it acknowledged (`Subscribed`): a notification
  is prepared for those registered and sent later, when they may have left.
* `ControlProofs!EveryReplyIsSent`: `Spec => []LastWordIsSent`. Until the client is found to
  have gone, replies said and the one owed are as many as were asked (`Replied`), and
  a writer that finishes has emptied its buffer.
* `ControlProofs!TypeCorrect`: that `dropped` keeps its bound needs that it and a
  notification being sent are together no more than was published (`Coalesced`).
  All four name `ControlAssumption` as a hypothesis, which `MCSession` evaluates.

* `SerialPortProofs!SessionKeepsItsPort`, `ClientsHear`, `ClaimsAreHeld`: for any links, clients
  and number of claims. The three together are `MCSession!PortIsKept`. The invariant
  `Held` says that no two releases, and no release and the session's own, are of one
  claim (`Undoes`), so that an old release finds another generation and does nothing;
  that a link is open only while it is the one served or is being closed, and none is
  while the session is connected (`Serving`); that one client at a time comes to a link
  and nobody takes its place before it is on (`Coming`); that a claim made and not yet
  stored is of no other's generation; and that whoever has the port
  holds the generation of the claim it made (`HeldByClient`, `HeldBySomebody`). `late`,
  the exception of section 3, is a hypothesis of the properties themselves.
* `SerialPortProofs!ConsoleIsInOrder`: `Spec => []ShownInOrder`. What is said is in one place
  on its way to the console: what is being written is the last thing said and nowhere
  else (`Writing`), the backlog and the scrollback taken from it are in order and none of
  it has been shown (`Apart`), and until the console has a buffer nothing is on its way
  there (`Unmade`), so that a restart between the taking of the backlog and the writing
  of it leaves nothing behind. All name `SerialPortAssumption`, which `MCSession`
  evaluates.

* `SessionProofs!TypeCorrect`, `RefusalsAreTrue`, `ImplementsSerialServer`: for any
  callers, queue and drain. The invariant `IInv` adds to the types where a
  request can be: at most once in the queue (`Distinct`), queued only while
  somebody waits or has given up (`Queued`), run only after it was taken
  (`Begun`), being handled only by the loop's two serving states (`Handling`),
  with a result only once it ran and has been handled (`Resulted`); and that
  after `Run` has returned nobody is being served, so who finds no reply then
  never ran (`Refusing`). The mapping takes both halves of asking for one, and
  each action is then a step of `SerialServer` or a stutter.
* `SessionProofs!ServesWhileShuttingDown`: `ShutdownSpec => StoreIsASerialServer`. Each
  step of a shutdown is a step of the store or leaves it alone, so the theorem
  above carries over, and with it `IInv`.
* `SessionProofs!ExitIsAfterClose`: `ShutdownSpec => []ExitsAfterClose`, for any number of
  closers. `ShutdownInv` says where the engine is: in the world, closed, lost, or
  with a closer that has not got to the end (`Custody`); that the store finds it
  only for somebody it served, and takes it out of the world before it answers
  (`Finding`, `Clearing`); and that whoever gets to closing has seen to it that
  nobody else takes it (`Closing`). `IInv` is needed to know that a closer the store
  refused was never served.

* `WarmProofs!MeasuredMeansWalked`, `LinksShownAreOurs`: for any networks, pairs and
  number of warms. What is measured and shown depends on warms long superseded,
  so the invariant `MeasuredInv` speaks of every warm there ever was: one begun
  since the measurement was last taken back measures the engine there is, and
  one begun before is cancelled and is past its last look only if it was past it
  when it was superseded (`Owned`); one at or past its last look has walked every
  pair (`Walked`); what is shown was posted by a warm of this engine or by one so
  overtaken (`Posted`). `WarmProofs!TypeCorrect` is its first conjunct.
* `WarmProofs!LossesAreAsKeyed`: the invariant `PricedInv` says, until a switch in
  the middle of a warm, that every cache holds what its engine prices with, that
  a warm still going has in hand, and is to save under, what its engine prices
  with (`KeyedWarm`), and that the disk is keyed; and that the geometry's key is
  the present engine's, so that a matrix is carried only into an engine that
  prices alike.

* `ClockProofs!SendsAreSaidOnce`, `SendsAreSaidWhenDue`: for any schedule and any
  number of changes to it. What a send has been through (`said`, history) and what
  the code keeps of it (`lastMs`, by position) are related by `SaidInv`: a send at an
  instant that has been said is remembered, and was said once (`SaidOne`); one that
  is remembered has been said, or stands where a cleared one stood (`SaidKept`); and
  when the list remembered is the longer one, everything in the list stands so
  (`SaidShort`), which is the exception of section 3. How much is remembered is
  whether one list is a prefix of another, so appending and clearing are lemmas
  (`KeepAppended`, `KeepLookedAt`).
* `ClockProofs!HeldCallsRunInTime`: `HeldInv` says that the queue is in the order of
  instants and then of calls, later than now, and numbered below the next (`Queue`),
  and that those which ran did so in that order and in the step that reached them
  (`Served`). That a call is put behind as many as are sooner is a lemma about the
  cardinality of an initial stretch (`Insertion`).
* `ClockProofs!TicksLandAtEnd`, `WorldShowsTheEngine`, `TypeCorrect`: all three are
  inductive once the types are known: the first looks at each step of a tick against
  the end of the run, the second at each verb that replaces the engine and what it
  does to the copy of its clock. All name `ClockAssumption`.
* `SessionProofs!TableIsRightAlways`, `SweepIsShownAlways`: for any matrices, changes,
  number of starts and, within `SweepAssumption`, lists of seeds. `SweepInv` follows
  every sweep there ever was, since one that was stopped goes on until it notices:
  the seeds and arms a loop reads are there (`InRange`); the table is the newest
  sweep's and is held while it works, an older one being past its cells (`Holder`);
  the posts in the queue are of sweeps that wait for them, or gave up, and no post
  comes after its sweep's last words (`Heard`, `LastOnes`); a sweep whose last words have
  lapsed is past its cells (`Lapsing`), and one that began when nothing was left of those
  before it is alone (`NoneBefore`); whatever the world shows
  has a sweep that will take it back (`Showing`); and until the sweep is stopped or
  the matrix changed, the table has each cell up to the one the loop is on
  (`Whole`), which is what `EveryCellOnce` says when it has ended. The proof is about
  the instance in `MCSession`, whose constants are as free as the module's own.

### The session as a whole

`SessionProofs` also proves of `MCSession`'s `SpecParts` every invariant the run
`session` checks but one: `TypesOK`, `DueIsDone`, `ClockIsTrue`, `PortIsKept`,
`ShownInOrder`, `TableIsRight`, `SweepIsShown`, `OneAnswerComing`, `ToldInOrder`,
`MeasuredIsWalked`, `LinksAreThisNetworks`, `PricedAsKeyed`, `ExitsAfterClose`, and that
the session implements `SerialServer`. For each part there are three steps: the
instance's assumption follows from `PartsAssumption`; a step of the part is a step
of the specification its proofs are about; and so a behaviour of `SpecParts` is
one of that specification, or one in which the part never moves (`PortAlone` and
its like), because which part moves is settled at the start (`PartStays`). What
`ClockProofs`, `SerialPortProofs`, `ControlProofs` and `WarmProofs` prove for every
constant then holds with the constants of the instance.

### Only model-checked, and why

* `DamageIsRight`: that the walk over sorted spans measures their union needs an
  order that the standard `SortSeq` only describes, and a recursive function over
  it. The types of `Collision`, and that it repairs a symbol at most, are proved
  within `TypesAlways`.
* `LockIsTheTimelines` and the other statements the violated runs refute.
* Every liveness property (`StepReturns`, `HeldIsReleased`, `AttachEnds`,
  `ClosedIsEmptied`, `CallsOfDoReturn`, `AskedToEndEnds`, `SweepLetsGo`,
  `CallsAnswered`, `MeasuringEnds`): fairness is stated with `ENABLED`, which is out
  of the prover's reach.

## 5. Not modelled

RF physics, DSP, the waveform judge, the GPU's arithmetic, terrain and studies
are floating-point computations over large inputs; what they decide is left open
where a model needs it (whether a reception is strong enough, what a pair
costs). The emulated backends, the firmware library, updates, scenario import
and the client libraries are I/O around other programs, and the workbench UI,
the larger half of the code, draws the store's snapshots. These are most of the
repository, so the map covers a small share of its lines.

The recorders are left out because nothing reads them back: the event log is
opened by tests alone and a capture is a stream. Of the parts that are modelled,
`PROJECT.json` says under each component what is left out of it.

## 6. Plan

1. `Attach` with the build a process runs: a start of every node between a
   reflash's stop and its start (`nodestats.go:465`).
2. The radio a stale completion un-keys (`transmissions.go:76`), which needs the
   firmware's own reading of its interrupt.
3. The registry of running workbenches, and the import of a network while
   another is open.

Proofs next: the union of spans in `Collision`; `TickBarrier`'s own invariant (no
clock passes the round).
