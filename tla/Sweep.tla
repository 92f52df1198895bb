-------------------------------- MODULE Sweep --------------------------------
(***************************************************************************)
(* A sweep: the matrix of arms by seeds, run cell after cell on a goroutine *)
(* of its own.  The verbs that define, start and stop it run on the store's *)
(* goroutine and may not wait for the sweep, since the sweep reports back   *)
(* by asking that same store for verbs.  So a stop only asks, and the sweep *)
(* says itself when it has let go of the table of results.                  *)
(***************************************************************************)
EXTENDS Naturals, Sequences

CONSTANTS
  ArmLists,   \* the arms a matrix may be given
  SeedLists,  \* the seeds: lists of a length append allocates exactly
  MaxRuns,    \* bound on how often a sweep is started
  MaxChanges  \* bound on how often the matrix is changed, or a sweep is late

SweepAssumption ==
  /\ ArmLists \subseteq Seq(STRING) /\ SeedLists \subseteq Seq(Nat)
  /\ \A s \in SeedLists : Len(s) \in {1, 2, 4}
  /\ {MaxRuns, MaxChanges} \subseteq Nat

RunId == 1 .. MaxRuns

VARIABLES
  \* The matrix
  arms,      \* e.Arms
  arrays,    \* the arrays lists of seeds have been kept in
  seeds,     \* e.Seeds: the array it is in and its length
  running,   \* e.running
  done,      \* e.done: nil, open or closed
  results,   \* e.results
  \* The sweeps, by the order they were started in
  last,      \* how many there have been
  pc,        \* where each one's goroutine is
  heldArms,  \* the arms it goes through
  heldSeeds, \* and the seeds, for the arm it is on
  at,        \* the cell it is on
  cancelled, \* those whose context has been cancelled
  \* The store and what it shows
  posts,     \* the verbs sweeps have asked for, as they are queued
  playing,   \* w.Playing
  job,       \* w.Jobs has an unfinished row for the sweep
  verdict,   \* w.ExperimentVerdict is not empty
  \* What has happened
  changes,   \* how often the matrix has been changed, or a sweep has been late
  changed,   \* the matrix has been changed since the last start
  overlapped, \* the last start came before an older sweep had had its last say
  lapsed     \* the sweeps whose last two posts have run out of time, until one
             \* starts when nothing is left of those before it

matrixVars == <<arms, arrays, seeds>>
tableVars == <<running, done, results>>
runVars == <<last, pc, heldArms, heldSeeds, at, cancelled>>
worldVars == <<playing, job, verdict>>
pastVars == <<changes, changed, overlapped, lapsed>>
vars == <<matrixVars, tableVars, runVars, posts, worldVars, pastVars>>

Nowhere == [arm |-> 0, seed |-> 0]
InNoArray == [in |-> 1, len |-> 0]

Init ==
  /\ arms \in ArmLists
  /\ arrays \in {<<s>> : s \in SeedLists}
  /\ seeds = [in |-> 1, len |-> Len(arrays[1])]
  /\ running = FALSE
  /\ done = "nil"
  /\ results = << >>
  /\ last = 0
  /\ pc = [k \in RunId |-> "off"]
  /\ heldArms = [k \in RunId |-> << >>]
  /\ heldSeeds = [k \in RunId |-> InNoArray]
  /\ at = [k \in RunId |-> Nowhere]
  /\ cancelled = {}
  /\ posts = << >>
  /\ playing = FALSE
  /\ job = FALSE
  /\ verdict = FALSE
  /\ changes = 0
  /\ changed = FALSE
  /\ overlapped = FALSE
  /\ lapsed = {}

Goto(k, label) == pc' = [pc EXCEPT ![k] = label]

Total == Len(arms) * seeds.len

-----------------------------------------------------------------------------
(* Defining the matrix.  None of these looks whether a sweep is running.    *)

Change == changes < MaxChanges /\ changes' = changes + 1 /\ changed' = TRUE

(* experiment.define with arms: a list of its own. *)
DefineArms(a) ==
  /\ Change
  /\ arms' = a
  /\ UNCHANGED <<arrays, seeds, tableVars, runVars, posts, worldVars, overlapped, lapsed>>

(* experiment.define with seeds writes them where the old ones were, for as *)
(* long as they fit. *)
Over(new, old) == [i \in 1 .. Len(old) |-> IF i <= Len(new) THEN new[i] ELSE old[i]]

DefineSeeds(s) ==
  /\ Change
  /\ IF Len(s) <= Len(arrays[seeds.in])
       THEN arrays' = [arrays EXCEPT ![seeds.in] = Over(s, @)] /\ seeds' = [seeds EXCEPT !.len = Len(s)]
       ELSE /\ arrays' = Append([arrays EXCEPT ![seeds.in] = Over(s, @)], s)
            /\ seeds' = [in |-> Len(arrays'), len |-> Len(s)]
  /\ UNCHANGED <<arms, tableVars, runVars, posts, worldVars, overlapped, lapsed>>

(* experiment.seeds: a list of its own. *)
SetSeeds(s) ==
  /\ Change
  /\ arrays' = Append(arrays, s)
  /\ seeds' = [in |-> Len(arrays'), len |-> Len(s)]
  /\ UNCHANGED <<arms, tableVars, runVars, posts, worldVars, overlapped, lapsed>>

(* experiment.vary: other arms, and an empty table, whoever is filling it.  *)
Vary(a) ==
  /\ Change
  /\ arms' = a
  /\ results' = << >>
  /\ UNCHANGED <<arrays, seeds, running, done, runVars, posts, worldVars, overlapped, lapsed>>

-----------------------------------------------------------------------------
(* Starting and stopping.                                                   *)

Started ==
  /\ last < MaxRuns
  /\ last' = last + 1
  /\ Goto(last', "sending_sim.play")
  /\ running' = TRUE
  /\ results' = << >>
  /\ done' = "open"
  /\ changed' = FALSE
  /\ overlapped' = ((\E k \in RunId : pc[k] \notin {"off", "gone"}) \/ posts # << >>)
  /\ lapsed' = IF overlapped' THEN lapsed ELSE {}

(* experiment.start: refused while a sweep is running, or has been stopped  *)
(* and not yet let go of the table. *)
Start ==
  /\ ~running
  /\ done # "open"
  /\ Started
  /\ job' = TRUE
  /\ UNCHANGED <<matrixVars, heldArms, heldSeeds, at, cancelled, posts, playing, verdict, changes>>

(* experiment.stop: asks, and shows the sweep as over at once. *)
Stop ==
  /\ last > 0
  /\ cancelled' = cancelled \cup {last}
  /\ running' = FALSE
  /\ job' = FALSE
  /\ UNCHANGED <<matrixVars, done, results, last, pc, heldArms, heldSeeds, at, posts, playing,
                 verdict, pastVars>>

-----------------------------------------------------------------------------
(* The store does what a sweep asked for, in the order it was asked.        *)

Verb == {"sim.play", "job.progress", "experiment.results", "sim.pause", "experiment.finished"}

(* What a sweep does when it has its answer, or has stopped waiting for it. *)
After(verb) ==
  CASE verb = "sim.play" -> "loop"
    [] verb = "job.progress" -> "sending_experiment.results"
    [] verb = "experiment.results" -> "next"
    [] verb = "sim.pause" -> "sending_experiment.finished"
    [] verb = "experiment.finished" -> "gone"

Sending(verb) ==
  CASE verb = "sim.play" -> "sending_sim.play"
    [] verb = "job.progress" -> "sending_job.progress"
    [] verb = "experiment.results" -> "sending_experiment.results"
    [] verb = "sim.pause" -> "sending_sim.pause"
    [] verb = "experiment.finished" -> "sending_experiment.finished"

Waiting(verb) ==
  CASE verb = "sim.play" -> "waiting_sim.play"
    [] verb = "job.progress" -> "waiting_job.progress"
    [] verb = "experiment.results" -> "waiting_experiment.results"
    [] verb = "sim.pause" -> "waiting_sim.pause"
    [] verb = "experiment.finished" -> "waiting_experiment.finished"

Post(k, verb) ==
  /\ pc[k] = Sending(verb)
  /\ posts' = Append(posts, [by |-> k, verb |-> verb])
  /\ Goto(k, Waiting(verb))
  /\ UNCHANGED <<matrixVars, tableVars, last, heldArms, heldSeeds, at, cancelled, worldVars, pastVars>>

(* A slip: the last two posts are made with the sweep's own context. *)
GiveUpAny(k, verb) ==
  /\ k \in cancelled
  /\ pc[k] \in {Sending(verb), Waiting(verb)}
  /\ Goto(k, After(verb))
  /\ UNCHANGED <<matrixVars, tableVars, last, heldArms, heldSeeds, at, cancelled, posts, worldVars,
                 pastVars>>

LastWords == {"sim.pause", "experiment.finished"}

(* The last two posts have ten seconds between them from when the sweep lets *)
(* go of the table (Finishing), and a store may be busy for longer.          *)
Lapse(k) ==
  /\ \E verb \in LastWords : pc[k] \in {Sending(verb), Waiting(verb)}
  /\ k \notin lapsed
  /\ lapsed' = lapsed \cup {k}
  /\ changes < MaxChanges
  /\ changes' = changes + 1
  /\ UNCHANGED <<matrixVars, tableVars, runVars, posts, worldVars, changed, overlapped>>

(* A cancelled sweep waits for nothing but its last two posts, and for those *)
(* until they lapse.  One that was queued stays queued.                      *)
GiveUp(k, verb) ==
  /\ k \in IF verb \in LastWords THEN lapsed ELSE cancelled
  /\ pc[k] \in {Sending(verb), Waiting(verb)}
  /\ Goto(k, After(verb))
  /\ UNCHANGED <<matrixVars, tableVars, last, heldArms, heldSeeds, at, cancelled, posts, worldVars,
                 pastVars>>

(* The verdict is there once the table is full and nothing is running.      *)
Concluded == Total > 0 /\ Len(results) >= Total /\ ~running

Handle(verb) ==
  /\ playing' = IF verb = "sim.play" THEN TRUE ELSE IF verb = "sim.pause" THEN FALSE ELSE playing
  /\ job' = IF verb = "job.progress" THEN TRUE ELSE IF verb = "experiment.finished" THEN FALSE ELSE job
  /\ verdict' = IF verb = "experiment.results" THEN Concluded ELSE verdict

Answer ==
  /\ posts # << >>
  /\ posts' = Tail(posts)
  /\ LET k == Head(posts).by  verb == Head(posts).verb
     IN  /\ Handle(verb)
         /\ pc' = [pc EXCEPT ![k] = IF @ = Waiting(verb) THEN After(verb) ELSE @]
  /\ UNCHANGED <<matrixVars, tableVars, last, heldArms, heldSeeds, at, cancelled, pastVars>>

(* Anybody may ask for the results. *)
Results ==
  /\ verdict' = Concluded
  /\ UNCHANGED <<matrixVars, tableVars, runVars, posts, playing, job, pastVars>>

-----------------------------------------------------------------------------
(* The sweep's goroutine.                                                   *)

(* The arms are those there are when the loop begins ... *)
BeginLoop(k) ==
  /\ pc[k] = "loop"
  /\ heldArms' = [heldArms EXCEPT ![k] = arms]
  /\ Goto(k, "next")
  /\ UNCHANGED <<matrixVars, tableVars, last, heldSeeds, at, cancelled, posts, worldVars, pastVars>>

(* A slip: the loop over the arms stops one short. *)
AheadShort(k) ==
  IF Len(heldArms[k]) < 2 THEN Nowhere
    ELSE IF at[k] = Nowhere THEN [arm |-> 1, seed |-> 1]
    ELSE IF at[k].seed < heldSeeds[k].len THEN [at[k] EXCEPT !.seed = @ + 1]
    ELSE IF at[k].arm + 1 < Len(heldArms[k]) THEN [arm |-> at[k].arm + 1, seed |-> 1]
    ELSE Nowhere

(* ... and the seeds those when an arm does; their numbers are read off the *)
(* array cell by cell.  The cell after this one, or nowhere. *)
Ahead(k) ==
  IF heldArms[k] = << >> THEN Nowhere
    ELSE IF at[k] = Nowhere THEN [arm |-> 1, seed |-> 1]
    ELSE IF at[k].seed < heldSeeds[k].len THEN [at[k] EXCEPT !.seed = @ + 1]
    ELSE IF at[k].arm < Len(heldArms[k]) THEN [arm |-> at[k].arm + 1, seed |-> 1]
    ELSE Nowhere

NextCell(k) ==
  /\ pc[k] = "next"
  /\ k \notin cancelled
  /\ Ahead(k) # Nowhere
  /\ at' = [at EXCEPT ![k] = Ahead(k)]
  /\ heldSeeds' = [heldSeeds EXCEPT ![k] = IF Ahead(k).seed = 1 THEN seeds ELSE @]
  /\ Goto(k, "cell")
  /\ UNCHANGED <<matrixVars, tableVars, last, heldArms, cancelled, posts, worldVars, pastVars>>

(* The cell is over, whatever came of it; cancelled, it says so. *)
EndCell(k) ==
  /\ pc[k] = "cell"
  /\ results' = Append(results,
       [run |-> k, arm |-> heldArms[k][at[k].arm], seed |-> arrays[heldSeeds[k].in][at[k].seed]])
  /\ Goto(k, "sending_job.progress")
  /\ UNCHANGED <<matrixVars, running, done, last, heldArms, heldSeeds, at, cancelled, posts,
                 worldVars, pastVars>>

(* A slip: a sweep that was stopped leaves without saying so. *)
LeaveUnsaid(k) ==
  /\ pc[k] = "next"
  /\ k \in cancelled \/ Ahead(k) = Nowhere
  /\ running' = FALSE
  /\ done' = IF k \in cancelled THEN done ELSE "closed"
  /\ Goto(k, "sending_sim.pause")
  /\ UNCHANGED <<matrixVars, results, last, heldArms, heldSeeds, at, cancelled, posts, worldVars,
                 pastVars>>

(* The loop is over: the table is let go of, and then the last two posts.   *)
Leave(k) ==
  /\ pc[k] = "next"
  /\ k \in cancelled \/ Ahead(k) = Nowhere
  /\ running' = FALSE
  /\ done' = "closed"
  /\ Goto(k, "sending_sim.pause")
  /\ UNCHANGED <<matrixVars, results, last, heldArms, heldSeeds, at, cancelled, posts, worldVars,
                 pastVars>>

-----------------------------------------------------------------------------
RunExperiment(k) ==
  \/ BeginLoop(k) \/ NextCell(k) \/ EndCell(k) \/ Leave(k)
  \/ \E verb \in Verb : Post(k, verb) \/ GiveUp(k, verb)

Verbs ==
  \/ \E a \in ArmLists : DefineArms(a) \/ Vary(a)
  \/ \E s \in SeedLists : DefineSeeds(s) \/ SetSeeds(s)
  \/ Start \/ Stop \/ Results

Next == Verbs \/ Answer \/ \E k \in RunId : RunExperiment(k) \/ Lapse(k)

Spec == Init /\ [][Next]_vars

(* Cells end and the store answers; nobody need ever start or stop a sweep. *)
Fairness == WF_vars(Answer) /\ \A k \in RunId : WF_vars(RunExperiment(k))

FairSpec == Spec /\ Fairness

-----------------------------------------------------------------------------
TypeOK ==
  /\ arms \in ArmLists
  /\ seeds.in \in 1 .. Len(arrays) /\ seeds.len \in 0 .. Len(arrays[seeds.in])
  /\ running \in BOOLEAN
  /\ done \in {"nil", "open", "closed"}
  /\ \A i \in 1 .. Len(results) : results[i].run \in 1 .. last
  /\ last \in 0 .. MaxRuns
  /\ cancelled \subseteq 1 .. last
  /\ \A k \in RunId : pc[k] = "off" <=> k > last
  /\ \A i \in 1 .. Len(posts) : posts[i].by \in 1 .. last /\ posts[i].verb \in Verb
  /\ {playing, job, verdict} \subseteq BOOLEAN
  /\ lapsed \subseteq 1 .. last

(* The table holds the cells of one sweep: no cell of a sweep that was      *)
(* stopped turns up among those of the next, however long it took to notice.*)
TableIsOfOneSweep == \A i \in 1 .. Len(results) : results[i].run = last

(* A sweep that nobody stopped has each arm at each seed in its table, once *)
(* - unless the matrix was changed under it.                                *)
EveryCellOnce ==
  done = "closed" /\ last \notin cancelled /\ ~changed =>
    /\ Len(results) = Total
    /\ \A i \in 1 .. Len(arms), j \in 1 .. seeds.len :
         \E n \in 1 .. Len(results) :
           results[n].arm = arms[i] /\ results[n].seed = arrays[seeds.in][j]

(* A sweep that is running is seen to be: it has its row among the jobs,    *)
(* and once under way the clock runs - unless it was started before the one *)
(* before it had paused the clock and said that it had finished, and the    *)
(* store had done so.                                                       *)
SweepIsSeen ==
  running /\ ~overlapped =>
    job /\ (pc[last] \notin {"sending_sim.play", "waiting_sim.play"} => playing)

(* When no sweep is left the clock is paused and no row says otherwise: a   *)
(* post that was given up on never comes after the last two - unless those  *)
(* ran out of time.                                                         *)
QuietWhenOver ==
  (\A k \in RunId : pc[k] \in {"off", "gone"}) /\ lapsed = {}
    => posts = << >> /\ ~playing /\ ~job /\ ~running

(* A sweep lets go of the table, stopped or not and whatever becomes of its *)
(* posts: the next start is not refused for ever.                           *)
SweepLetsGo == done = "open" ~> done = "closed"

(* ExperimentVerdict "is what it concluded, once it has" (state.go): a      *)
(* sweep that is over, with every cell in its table, shows its verdict.     *)
VerdictOnceConcluded ==
  (\A k \in RunId : pc[k] \in {"off", "gone"}) /\ last > 0 /\ last \notin cancelled /\ ~changed
    => verdict
=============================================================================
