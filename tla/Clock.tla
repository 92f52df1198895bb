-------------------------------- MODULE Clock --------------------------------
(***************************************************************************)
(* A session's clock.  The store's ticker gives the engine a tick's worth   *)
(* of simulated time and the engine takes it in whole steps of its own; a   *)
(* hand step, a settle and a timed run do the same by other ways.  After    *)
(* each step whatever has come due is said: the fixture's scheduled sends,  *)
(* then the calls held with at_ms.                                          *)
(*                                                                         *)
(* A cell of a sweep has an engine of its own, which it steps itself.  While *)
(* one runs a tick leaves the session's engine alone, and the clock it shows *)
(* the world is the cell's.                                                  *)
(*                                                                         *)
(* But for the cell, everything here happens on the store's goroutine.  The *)
(* steps of one tick are actions of their own so that each can be seen, and *)
(* so that a cell may begin or end in the middle of one.                    *)
(***************************************************************************)
EXTENDS Integers, Sequences, FiniteSets

CONSTANTS
  StepMs,     \* Config.StepMs, what one engine step covers
  TickSizes,  \* what a tick may be set to cover
  RunFor,     \* the for_ms sim.run may be given
  SettleFor,  \* the steps sim.settle may be given
  Scheduled,       \* the sends a schedule may hold: at, every
  HoldAt,     \* the at_ms a call may be held to
  MaxNow,     \* bound on the engine's clock
  MaxCell,    \* bound on a cell's, 0 when no sweep is run
  MaxSends,   \* bound on the schedule's length
  MaxHeld     \* bound on the calls held in one run

ClockAssumption ==
  /\ StepMs \in Nat \ {0}
  /\ TickSizes \subseteq Nat \ {0}
  /\ RunFor \subseteq Nat \ {0}
  /\ SettleFor \subseteq Nat \ {0}
  /\ Scheduled \subseteq [at : Nat, every : Nat]
  /\ HoldAt \subseteq Nat
  /\ {MaxNow, MaxCell, MaxSends, MaxHeld} \subseteq Nat

VARIABLES
  \* Engine
  alive,     \* s.eng is not nil
  now,       \* eng.NowMs()
  cell,      \* s.bench: the clock of the engine a cell has published, -1 for none
  \* World and Store
  worldNow,  \* w.NowMs
  playing,   \* w.Playing
  until,     \* w.RunUntilMs, 0 for none
  tickMs,    \* the store's stepMs
  \* Session
  loop,      \* what is stepping the engine
  left,      \* the steps sim.settle has still to take
  owed,      \* s.tickOwed
  sends,     \* w.Sends
  seen,      \* sendClock.seen
  lastMs,    \* sendClock.lastMs, -1 for not yet
  held,      \* s.inputs.items
  \* What has happened in this run
  began,     \* the engine's clock when the tick began
  run,       \* the last sim.run: the clock it was asked at and for how long
  shown,     \* whose clock worldNow was last read off: the session's engine, the
             \* one of the network before, or a cell's
  said,      \* of each send: how often said, whether a step has gone by since
             \* it was added, and whether it took the place of a cleared one
  ran        \* the held calls that have run, and when

engineVars == <<alive, now>>
playVars == <<playing, until, tickMs>>
sendVars == <<sends, seen, lastMs, said>>
inputVars == <<held, ran>>
vars == <<engineVars, cell, worldNow, playVars, loop, left, owed, sendVars, inputVars, began, run, shown>>

NoRun == [from |-> 0, for |-> 0]
Unsaid(again) == [times |-> 0, stepped |-> FALSE, again |-> again]

Init ==
  /\ alive = TRUE
  /\ now = 0
  /\ cell = -1
  /\ worldNow = 0
  /\ playing = FALSE
  /\ until = 0
  /\ tickMs \in TickSizes
  /\ loop = "idle"
  /\ left = 0
  /\ owed = 0
  /\ sends = << >>
  /\ seen = << >>
  /\ lastMs = << >>
  /\ held = << >>
  /\ began = 0
  /\ run = NoRun
  /\ shown = "own"
  /\ said = << >>
  /\ ran = << >>

-----------------------------------------------------------------------------
(* The schedule.                                                            *)

(* A slip the runs must catch: any change of the list starts it all again.  *)
KeepNothing == IF seen = sends THEN Len(seen) ELSE 0

(* How much of lastMs is kept for the list there is now: all of it when the *)
(* list is the old one with more on the end. *)
Keep ==
  IF Len(seen) <= Len(sends) /\ seen = SubSeq(sends, 1, Len(seen)) THEN Len(seen) ELSE 0

Remembered == [i \in 1 .. Len(sends) |-> IF i <= Keep THEN lastMs[i] ELSE -1]

Due(s, last, at) ==
  /\ at >= s.at
  /\ last < 0 \/ (s.every > 0 /\ at - last >= s.every)

(* What is said after the step that reached `at`.  An empty list returns    *)
(* before it is compared with the one remembered. *)
FireDueSends(at) ==
  IF sends = << >>
    THEN UNCHANGED sendVars
    ELSE LET due == {i \in 1 .. Len(sends) : Due(sends[i], Remembered[i], at)}
         IN  /\ lastMs' = [i \in 1 .. Len(sends) |-> IF i \in due THEN at ELSE Remembered[i]]
             /\ seen' = sends
             /\ said' = [i \in 1 .. Len(sends) |->
                           [said[i] EXCEPT !.times = IF i \in due THEN @ + 1 ELSE @,
                                           !.stepped = TRUE]]
             /\ UNCHANGED sends

ScheduleAdd(s) ==
  /\ loop = "idle"
  /\ Len(sends) < MaxSends
  /\ sends' = Append(sends, s)
  /\ said' = Append(said, Unsaid(Len(seen) > Len(sends)))
  /\ UNCHANGED <<engineVars, cell, worldNow, playVars, loop, left, owed, seen, lastMs, inputVars, began,
                 run, shown>>

ScheduleClear ==
  /\ loop = "idle"
  /\ sends' = << >>
  /\ said' = << >>
  /\ UNCHANGED <<engineVars, cell, worldNow, playVars, loop, left, owed, seen, lastMs, inputVars, began,
                 run, shown>>

-----------------------------------------------------------------------------
(* Calls held with at_ms.                                                   *)

Sooner(a, b) == a.at < b.at \/ (a.at = b.at /\ a.seq < b.seq)

Added(q, call) ==
  LET n == Cardinality({i \in 1 .. Len(q) : Sooner(q[i], call)})
  IN  SubSeq(q, 1, n) \o <<call>> \o SubSeq(q, n + 1, Len(q))

DueFirst(q, at) ==
  CHOOSE n \in 0 .. Len(q) :
    /\ \A i \in 1 .. n : q[i].at <= at
    /\ n < Len(q) => q[n + 1].at > at

FireDueInputs(at) ==
  LET n == DueFirst(held, at)
  IN  /\ ran' = ran \o [i \in 1 .. n |-> [call |-> held[i], when |-> at]]
      /\ held' = SubSeq(held, n + 1, Len(held))

(* Held only to an instant after now: at or before it the call is refused.  *)
Hold(at) ==
  /\ loop = "idle"
  /\ alive
  /\ at > now
  /\ Len(held) + Len(ran) < MaxHeld
  /\ held' = Added(held, [at |-> at, seq |-> Len(held) + Len(ran) + 1])
  /\ UNCHANGED <<engineVars, cell, worldNow, playVars, loop, left, owed, sendVars, ran, began, run, shown>>

-----------------------------------------------------------------------------
(* Stepping.                                                                *)

(* Sim.step: every step a session takes goes through here. *)
StepEngine ==
  /\ now' = now + StepMs
  /\ FireDueSends(now')
  /\ FireDueInputs(now')
  /\ UNCHANGED alive

(* The end of a timed run has been reached. *)
AtEnd == until # 0 /\ now >= until

Ticking == loop \in {"playingTick", "handTick"}

(* w.Tick(ms): what it owes is added to, and paid below - unless a cell owns  *)
(* the clock. *)
BeginTick(ms, who) ==
  /\ now + owed + ms <= MaxNow
  /\ loop' = who
  /\ owed' = IF alive /\ cell = -1 THEN owed + ms ELSE owed
  /\ began' = now

(* The store's ticker, while the world is playing. *)
StoreTick ==
  /\ loop = "idle"
  /\ playing
  /\ worldNow + tickMs <= MaxNow
  /\ worldNow' = worldNow + tickMs
  /\ BeginTick(tickMs, "playingTick")
  /\ UNCHANGED <<engineVars, cell, playVars, left, sendVars, inputVars, run, shown>>

(* sim.step: a step's worth of tick, playing or not. *)
SimStep ==
  /\ loop = "idle"
  /\ BeginTick(StepMs, "handTick")
  /\ UNCHANGED <<engineVars, cell, worldNow, playVars, left, sendVars, inputVars, run, shown>>

(* A slip: the end of the run is looked for only when the tick begins. *)
TickStepsPastEnd ==
  /\ Ticking
  /\ alive
  /\ owed >= StepMs
  /\ ~AtEnd \/ now > began
  /\ StepEngine
  /\ owed' \in {owed - StepMs, 0}
  /\ UNCHANGED <<cell, worldNow, playVars, loop, left, began, run, shown>>

(* One engine step of a tick; if that took the wall clock past the tick's   *)
(* budget, the rest of what it owes is dropped. *)
TickSteps ==
  /\ Ticking
  /\ alive
  /\ owed >= StepMs
  /\ ~AtEnd
  /\ StepEngine
  /\ owed' \in {owed - StepMs, 0}
  /\ UNCHANGED <<cell, worldNow, playVars, loop, left, began, run, shown>>

TickStopsAtEnd ==
  /\ Ticking
  /\ alive
  /\ owed >= StepMs
  /\ AtEnd
  /\ owed' = 0
  /\ UNCHANGED <<engineVars, cell, worldNow, playVars, loop, left, sendVars, inputVars, began, run, shown>>

(* The world's clock is read off the live engine, a cell's before the       *)
(* session's, if there is one; and a tick of the store's looks whether the  *)
(* run is over. *)
TickEnds ==
  /\ Ticking
  /\ alive => owed < StepMs
  /\ worldNow' = IF cell # -1 THEN cell ELSE IF alive THEN now ELSE worldNow
  /\ IF loop = "playingTick" /\ until # 0 /\ worldNow' >= until
       THEN playing' = FALSE /\ until' = 0
       ELSE UNCHANGED <<playing, until>>
  /\ loop' = "idle"
  /\ shown' = IF cell # -1 THEN "cell" ELSE IF alive THEN "own" ELSE shown
  /\ UNCHANGED <<engineVars, cell, tickMs, left, owed, sendVars, inputVars, began, run>>

(* sim.settle, and a console reply awaited on a stopped clock: steps taken  *)
(* directly, whatever the run's end. *)
Settle(n) ==
  /\ loop = "idle"
  /\ alive
  /\ now + n * StepMs <= MaxNow
  /\ loop' = "settling"
  /\ left' = n
  /\ UNCHANGED <<engineVars, cell, worldNow, playVars, owed, sendVars, inputVars, began, run, shown>>

SettleSteps ==
  /\ loop = "settling"
  /\ left > 0
  /\ StepEngine
  /\ left' = left - 1
  /\ UNCHANGED <<cell, worldNow, playVars, loop, owed, began, run, shown>>

SettleEnds ==
  /\ loop = "settling"
  /\ left = 0
  /\ loop' = "idle"
  /\ worldNow' = now
  /\ shown' = "own"
  /\ UNCHANGED <<engineVars, cell, playVars, left, owed, sendVars, inputVars, began, run>>

-----------------------------------------------------------------------------
(* The verbs.                                                               *)

(* sim.play, sim.pause and sim.toggle. *)
Play(on) ==
  /\ loop = "idle"
  /\ playing' = on
  /\ UNCHANGED <<engineVars, cell, worldNow, until, tickMs, loop, left, owed, sendVars, inputVars, began,
                 run, shown>>

(* sim.run, from the clock the world shows. *)
SimRun(for) ==
  /\ loop = "idle"
  /\ until' = worldNow + for
  /\ playing' = TRUE
  /\ run' = [from |-> now, for |-> for]
  /\ UNCHANGED <<engineVars, cell, worldNow, tickMs, loop, left, owed, sendVars, inputVars, began, shown>>

(* sim.speed, sim.faster, sim.slower. *)
SetTick(ms) ==
  /\ loop = "idle"
  /\ tickMs' = ms
  /\ UNCHANGED <<engineVars, cell, worldNow, playing, until, loop, left, owed, sendVars, inputVars, began,
                 run, shown>>

(* buildSeeded: a new engine owes nothing and remembers nothing. *)
BuildSeeded ==
  /\ alive' = TRUE
  /\ now' = 0
  /\ owed' = 0
  /\ held' = << >>
  /\ seen' = << >>
  /\ lastMs' = << >>
  /\ ran' = << >>
  /\ began' = 0
  /\ run' = NoRun

StartsOver == said' = [i \in 1 .. Len(sends) |-> Unsaid(FALSE)]

(* sim.reset stops the run; a new seed does not. *)
Reset ==
  /\ loop = "idle"
  /\ playing' = FALSE
  /\ until' = 0
  /\ worldNow' = 0
  /\ shown' = "own"
  /\ BuildSeeded
  /\ StartsOver
  /\ UNCHANGED <<cell, tickMs, loop, left, sends>>

Seed ==
  /\ loop = "idle"
  /\ worldNow' = 0
  /\ shown' = "own"
  /\ BuildSeeded
  /\ StartsOver
  /\ UNCHANGED <<cell, playVars, loop, left, sends>>

(* install: another network, with the sends its fixture carries.  The       *)
(* world's clock is left as it was. *)
Open(fixture) ==
  /\ loop = "idle"
  /\ playing' = FALSE
  /\ until' = 0
  /\ sends' = fixture
  /\ said' = [i \in 1 .. Len(fixture) |-> Unsaid(FALSE)]
  /\ shown' = "earlier"
  /\ BuildSeeded
  /\ UNCHANGED <<cell, worldNow, tickMs, loop, left>>

(* session.restore: the same, then a rebuild, then a replay to the instant  *)
(* the checkpoint was taken at. *)
Restore(fixture, target) ==
  /\ loop = "idle"
  /\ sends' = fixture
  /\ said' = [i \in 1 .. Len(fixture) |-> Unsaid(FALSE)]
  /\ shown' = "own"
  /\ BuildSeeded
  /\ worldNow' = 0
  /\ playing' = (target > 0)
  /\ until' = target
  /\ UNCHANGED <<cell, tickMs, loop, left>>

(* session.detach: the engine goes, the tick stays. *)
Detach ==
  /\ loop = "idle"
  /\ alive
  /\ alive' = FALSE
  /\ UNCHANGED <<cell, now, worldNow, playVars, loop, left, owed, sendVars, inputVars, began, run, shown>>

(* A cell of a sweep publishes its engine, which starts at nothing, steps it *)
(* on the sweep's goroutine, and takes it back.                              *)
CellTakes ==
  /\ MaxCell > 0
  /\ cell = -1
  /\ cell' = 0
  /\ UNCHANGED <<engineVars, worldNow, playVars, loop, left, owed, sendVars, inputVars, began, run, shown>>

CellSteps ==
  /\ cell # -1
  /\ cell + StepMs <= MaxCell
  /\ cell' = cell + StepMs
  /\ UNCHANGED <<engineVars, worldNow, playVars, loop, left, owed, sendVars, inputVars, began, run, shown>>

CellEnds ==
  /\ cell # -1
  /\ cell' = -1
  /\ UNCHANGED <<engineVars, worldNow, playVars, loop, left, owed, sendVars, inputVars, began, run, shown>>

Cell == CellTakes \/ CellSteps \/ CellEnds

-----------------------------------------------------------------------------
Fixtures == {<< >>} \cup {<<s>> : s \in Scheduled}

Ticks == StoreTick \/ SimStep \/ TickSteps \/ TickStopsAtEnd \/ TickEnds \/ SettleSteps \/ SettleEnds

Verbs ==
  \/ \E on \in BOOLEAN : Play(on)
  \/ \E for \in RunFor : SimRun(for)
  \/ \E n \in SettleFor : Settle(n)
  \/ \E ms \in TickSizes : SetTick(ms)
  \/ \E s \in Scheduled : ScheduleAdd(s)
  \/ ScheduleClear
  \/ \E at \in HoldAt : Hold(at)
  \/ Reset \/ Seed \/ Detach
  \/ \E f \in Fixtures : Open(f) \/ \E target \in RunFor : Restore(f, target)

Next == Ticks \/ Verbs \/ Cell

Spec == Init /\ [][Next]_vars

-----------------------------------------------------------------------------
TypeOK ==
  /\ alive \in BOOLEAN
  /\ {now, worldNow, until, left, owed, began} \subseteq Nat
  /\ playing \in BOOLEAN
  /\ tickMs \in TickSizes
  /\ loop \in {"idle", "playingTick", "handTick", "settling"}
  /\ {sends, seen} \subseteq Seq(Scheduled)
  /\ lastMs \in Seq(Nat \cup {-1}) /\ Len(lastMs) = Len(seen)
  /\ held \in Seq([at : Nat, seq : Nat])
  /\ run \in [from : Nat, for : Nat]
  /\ shown \in {"own", "earlier", "cell"}
  /\ cell \in Nat \cup {-1}
  /\ said \in Seq([times : Nat, stepped : BOOLEAN, again : BOOLEAN]) /\ Len(said) = Len(sends)
  /\ ran \in Seq([call : [at : Nat, seq : Nat], when : Nat])

(* A send at an instant is said once in a run: never before its instant,    *)
(* and not a second time whatever is added to the schedule, or cleared from *)
(* it, in the middle of the run.                                            *)
SaidOnce ==
  \A i \in 1 .. Len(sends) :
    sends[i].every = 0 => said[i].times <= (IF now >= sends[i].at THEN 1 ELSE 0)

(* And it is said: by the first step that reaches or finds its instant,     *)
(* playing, stepped by hand or settling - unless it was put where a send    *)
(* that had been cleared stood before the schedule was next looked at.      *)
SaidWhenDue ==
  \A i \in 1 .. Len(sends) :
    said[i].stepped /\ ~said[i].again /\ now >= sends[i].at => said[i].times > 0

(* Held calls run once each, in the order they are due and then made, at    *)
(* the first step that reaches their instant, whoever takes the step.       *)
HeldRunInTime ==
  /\ \A i \in 1 .. Len(ran) :
       /\ ran[i].when >= ran[i].call.at
       /\ ran[i].when < ran[i].call.at + StepMs
  /\ \A i, j \in 1 .. Len(ran) :
       i < j => ran[i].call.at <= ran[j].call.at /\ ran[i].call # ran[j].call
  /\ \A i \in 1 .. Len(held) : held[i].at > now

(* However large the tick, it takes the clock less than a step beyond the   *)
(* end of the run, and none at all when it is there already.                *)
TickLandsAtEnd ==
  Ticking /\ until # 0 => now = began \/ now < until + StepMs

(* Between two verbs the world's clock is the engine's, whatever the ticker *)
(* added to it - but for a network just opened, which shows the clock of    *)
(* the one before, and for a sweep, whose cells' clock is shown while they  *)
(* run and is left showing until the engine's is next read.                 *)
WorldShowsEngine == loop = "idle" /\ alive /\ shown = "own" => worldNow = now

(* sim.run ends for_ms after it was asked for.                              *)
RunLastsAsAsked == run # NoRun /\ until # 0 => until = run.from + run.for
=============================================================================
