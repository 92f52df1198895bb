------------------------------ MODULE MCSession ------------------------------
(***************************************************************************)
(* The parts of a session that share no state, side by side: a run checks   *)
(* them all, and in each behaviour one of them moves and the others stay as *)
(* they began.                                                              *)
(***************************************************************************)
EXTENDS Shutdown, Integers

CONSTANTS
  Parts,        \* the parts there are
  SweepArms,    \* the arms of a sweep's matrix
  SweepSeeds,   \* and its seeds
  SweepRuns,    \* how often it is started
  SweepChanges, \* how often it is changed
  ToldAsks,     \* the requests of a client that also subscribes
  ToldNotes,    \* what is published to it
  MatrixPairs,  \* the pairs of a link matrix
  MatrixSwitches \* how often what prices them is switched

VARIABLE part

-----------------------------------------------------------------------------
(* The clock: with a schedule, with held calls and ticks of two sizes, and  *)
(* beside the cells of a sweep.                                             *)
VARIABLES alive, now, worldNow, playing, until, tickMs, clockLoop, left, owed, sends, seen, lastMs,
          held, began, run, shown, cell, said, clockRan

clockVars == <<alive, now, worldNow, playing, until, tickMs, clockLoop, left, owed, sends, seen,
               lastMs, held, began, run, shown, cell, said, clockRan>>

OneSend == [at |-> 3, every |-> 0]
EverySend == [at |-> 0, every |-> 4]

Sends == INSTANCE Clock WITH
  StepMs <- 2, TickSizes <- {5}, RunFor <- {3}, SettleFor <- {2}, Scheduled <- {OneSend, EverySend},
  HoldAt <- {}, MaxNow <- 6, MaxCell <- 0, MaxSends <- 2, MaxHeld <- 0, loop <- clockLoop, ran <- clockRan

Timed == INSTANCE Clock WITH
  StepMs <- 2, TickSizes <- {1, 5}, RunFor <- {3}, SettleFor <- {2}, Scheduled <- {},
  HoldAt <- {3, 6}, MaxNow <- 8, MaxCell <- 0, MaxSends <- 0, MaxHeld <- 2, loop <- clockLoop, ran <- clockRan

Swept == INSTANCE Clock WITH
  StepMs <- 2, TickSizes <- {1, 5}, RunFor <- {3}, SettleFor <- {1}, Scheduled <- {},
  HoldAt <- {}, MaxNow <- 6, MaxCell <- 4, MaxSends <- 0, MaxHeld <- 0, loop <- clockLoop, ran <- clockRan

-----------------------------------------------------------------------------
(* The serial port: two links and two clients, and a console that is told   *)
(* three things.                                                            *)
VARIABLES console, claimed, gen, born, backlog, writing, saidSoFar, made, buf, scrollback, pending,
          link, client, release, got, locked, served, portAt, via, comp, compGen, verb, late

portVars == <<console, claimed, gen, born, backlog, writing, saidSoFar, made, buf, scrollback,
              pending, link, client, release, got, locked, served, portAt, via, comp, compGen,
              verb, late>>

Port == INSTANCE SerialPort WITH
  MaxLinks <- 2, Client <- {"c1", "c2"}, Backlog <- 0, MaxClaims <- 3, MaxSaid <- 1, at <- portAt

Said == INSTANCE SerialPort WITH
  MaxLinks <- 1, Client <- {"c1"}, Backlog <- 2, MaxClaims <- 2, MaxSaid <- 3, at <- portAt

-----------------------------------------------------------------------------
(* The sweep, started again and again.                                      *)
VARIABLES arms, arrays, seeds, running, done, results, last, sweepPc, heldArms, heldSeeds, at,
          cancelled, posts, sweepPlaying, job, verdict, changes, changed, overlapped, lapsed

sweepVars == <<arms, arrays, seeds, running, done, results, last, sweepPc, heldArms, heldSeeds, at,
               cancelled, posts, sweepPlaying, job, verdict, changes, changed, overlapped, lapsed>>

Sweeps == INSTANCE Sweep WITH
  ArmLists <- SweepArms, SeedLists <- SweepSeeds, MaxRuns <- SweepRuns, MaxChanges <- SweepChanges,
  pc <- sweepPc, playing <- sweepPlaying

-----------------------------------------------------------------------------
(* The control socket: one client that also subscribes, and two that call.  *)
VARIABLES peer, asked, controlPc, sending, reply, out, writer, wire, closed, over, queue, batch,
          refused, subs, dropped, snapped, note, notes

controlVars == <<peer, asked, controlPc, sending, reply, out, writer, wire, closed, over, queue,
                 batch, refused, subs, dropped, snapped, note, notes>>

Told == INSTANCE Control WITH
  Conn <- {"a"}, Buffer <- 1, Interest <- [c \in {"a"} |-> {{"snapshot"}, {"log"}}],
  MaxAsked <- [c \in {"a"} |-> ToldAsks], MaxNotes <- ToldNotes, pc <- controlPc, held <- sending

Calling == INSTANCE Control WITH
  Conn <- {"a", "b"}, Buffer <- 1, Interest <- [c \in {"a", "b"} |-> {}],
  MaxAsked <- [c \in {"a", "b"} |-> 1], MaxNotes <- 0, pc <- controlPc, held <- sending

-----------------------------------------------------------------------------
(* Collisions: others that end or begin within the packet, one of them also *)
(* weak enough to be captured over and one of them on another channel.      *)
VARIABLES concurrent, frameVerdict

collisionVars == <<concurrent, frameVerdict>>

Before(ms) == [start |-> ms - 120, end |-> ms, dBm |-> -100, near |-> TRUE]
From(ms) == [start |-> ms, end |-> ms + 120, dBm |-> -100, near |-> TRUE]

Collisions == INSTANCE Collision WITH
  Airtime <- 130, SymbolMs <- 4, PreambleSymbols <- 16, CodingRate <- 3, WantedDBm <- -101,
  CaptureThreshold <- 6, MaxOthers <- 3, verdict <- frameVerdict,
  Others <- {Before(ms) : ms \in {2, 10, 84, 85, 100}} \cup {From(ms) : ms \in {82, 90, 110, 128}}
              \cup {[Before(100) EXCEPT !.dBm = -110], [Before(10) EXCEPT !.near = FALSE]}

-----------------------------------------------------------------------------
(* The link matrix: switched in the middle of a warm, and warmed over and   *)
(* over.                                                                    *)
VARIABLES env, geomFP, engines, disk, warmed, warms, links, warmJob, resetAt, switches, mixed

matrixVars == <<env, geomFP, engines, disk, warmed, warms, links, warmJob, resetAt, switches, mixed>>

Switched == INSTANCE Warm WITH
  Network <- {"here", "there"}, Pair <- MatrixPairs, Culled <- MatrixPairs \cap {"far"}, MaxWarms <- 2,
  MaxSwitches <- MatrixSwitches, job <- warmJob

Rewarmed == INSTANCE Warm WITH
  Network <- {"here", "there"}, Pair <- {"near"}, Culled <- {}, MaxWarms <- 3, MaxSwitches <- 0,
  job <- warmJob

-----------------------------------------------------------------------------
ASSUME PartsAssumption ==
  /\ Sends!ClockAssumption /\ Timed!ClockAssumption /\ Swept!ClockAssumption
  /\ Port!SerialPortAssumption /\ Said!SerialPortAssumption
  /\ Sweeps!SweepAssumption
  /\ Told!ControlAssumption /\ Calling!ControlAssumption
  /\ Collisions!CollisionAssumption
  /\ Switched!WarmAssumption /\ Rewarmed!WarmAssumption

OneSeed == {<<1>>}
TwoSeeds == {<<1, 2>>}
OneArm == {<<"a">>}
OneArmOrTwo == {<<"a">>, <<"a", "b">>}

allVars == <<part, shutdownVars, clockVars, portVars, sweepVars, controlVars, collisionVars, matrixVars>>

InitParts ==
  /\ part \in Parts
  /\ ShutdownInit
  /\ IF part \in {"timed", "swept"} THEN Timed!Init ELSE Sends!Init
  /\ IF part = "console" THEN Said!Init ELSE Port!Init
  /\ Sweeps!Init /\ (part = "sweep" \/ Len(arms) = 1)
  /\ IF part = "told" THEN Told!Init ELSE Calling!Init
  /\ Collisions!Init
  /\ IF part = "rewarmed" THEN Rewarmed!Init ELSE Switched!Init
  /\ geomFP.net = "here"

(* What a step of one part leaves alone. *)
OutsideStore == UNCHANGED <<part, clockVars, portVars, sweepVars, controlVars, collisionVars, matrixVars>>
OutsideClock == UNCHANGED <<part, shutdownVars, portVars, sweepVars, controlVars, collisionVars, matrixVars>>
OutsidePort == UNCHANGED <<part, shutdownVars, clockVars, sweepVars, controlVars, collisionVars, matrixVars>>
OutsideSweep == UNCHANGED <<part, shutdownVars, clockVars, portVars, controlVars, collisionVars, matrixVars>>
OutsideControl == UNCHANGED <<part, shutdownVars, clockVars, portVars, sweepVars, collisionVars, matrixVars>>
OutsideCollision == UNCHANGED <<part, shutdownVars, clockVars, portVars, sweepVars, controlVars, matrixVars>>
OutsideMatrix == UNCHANGED <<part, shutdownVars, clockVars, portVars, sweepVars, controlVars, collisionVars>>

StoreAlone(A) == part = "store" /\ A /\ UNCHANGED <<closeVars, exited>> /\ OutsideStore

NextParts ==
  \/ StoreAlone(Next)
  \/ part = "shutdown" /\ ShutdownNext /\ OutsideStore
  \/ part = "scheduled" /\ Sends!Next /\ OutsideClock
  \/ part = "timed" /\ Timed!Next /\ OutsideClock
  \/ part = "swept" /\ Swept!Next /\ OutsideClock
  \/ part = "port" /\ Port!Next /\ OutsidePort
  \/ part = "console" /\ Said!Next /\ OutsidePort
  \/ part = "sweep" /\ Sweeps!Next /\ OutsideSweep
  \/ part = "told" /\ Told!Next /\ OutsideControl
  \/ part = "calling" /\ Calling!Next /\ OutsideControl
  \/ part = "collision" /\ Collisions!Next /\ OutsideCollision
  \/ part = "switched" /\ Switched!Next /\ OutsideMatrix
  \/ part = "rewarmed" /\ Rewarmed!Next /\ OutsideMatrix

(* Each part's own fairness. *)
StoreFairness ==
  /\ WF_allVars(StoreAlone(Run))
  /\ \A r \in Request :
       /\ SF_allVars(StoreAlone(Send(r)))
       /\ WF_allVars(StoreAlone(SendRefused(r) \/ TakeReply(r) \/ WaitRefused(r)))

ShutdownsFairness ==
  \A k \in Closer :
    WF_allVars(part = "shutdown" /\ exited = "no" /\ (Exit(k) \/ ExitAtBound(k)) /\ OutsideStore)

SweepFairness ==
  /\ WF_allVars(part = "sweep" /\ Sweeps!Answer /\ OutsideSweep)
  /\ \A k \in 1 .. SweepRuns : WF_allVars(part = "sweep" /\ Sweeps!RunExperiment(k) /\ OutsideSweep)

Talking(A, B) == ((part = "told" /\ A) \/ (part = "calling" /\ B)) /\ OutsideControl

ControlFairness ==
  /\ WF_allVars(part = "told" /\ Told!Reader("a") /\ OutsideControl)
  /\ WF_allVars(part = "told" /\ Told!Writer("a") /\ OutsideControl)
  /\ \A c \in {"a", "b"} :
       /\ WF_allVars(part = "calling" /\ Calling!Reader(c) /\ OutsideControl)
       /\ WF_allVars(part = "calling" /\ Calling!Writer(c) /\ OutsideControl)
  /\ WF_allVars(Talking(Told!Pump, Calling!Pump))
  /\ WF_allVars(Talking(Told!Perform, Calling!Perform))
  /\ WF_allVars(over /\ Talking(Told!Close, Calling!Close))
  /\ WF_allVars(Talking(Told!Refuse, Calling!Refuse))

MatrixFairness ==
  \A k \in 1 .. 2 : WF_allVars(part = "switched" /\ k \in DOMAIN warms /\ Switched!Warm(k) /\ OutsideMatrix)

SpecParts == InitParts /\ [][NextParts]_allVars

FairSpecParts ==
  /\ SpecParts
  /\ StoreFairness /\ ShutdownsFairness /\ SweepFairness /\ ControlFairness /\ MatrixFairness

-----------------------------------------------------------------------------
(* Every part's variables keep their types.                                 *)
TypesOK ==
  /\ part \in {"store", "shutdown"} => ShutdownTypeOK
  /\ part = "scheduled" => Sends!TypeOK
  /\ part = "timed" => Timed!TypeOK
  /\ part = "swept" => Swept!TypeOK
  /\ part = "port" => Port!TypeOK
  /\ part = "console" => Said!TypeOK
  /\ part = "sweep" => Sweeps!TypeOK
  /\ part = "told" => Told!TypeOK
  /\ part = "calling" => Calling!TypeOK
  /\ part = "collision" => Collisions!TypeOK
  /\ part = "switched" => Switched!TypeOK
  /\ part = "rewarmed" => Rewarmed!TypeOK

(* No call of Do that goes on waiting waits for ever, however busy the      *)
(* ticker and whether the store is stopped or not. *)
CallsOfDoReturn ==
  \A r \in Request \ Impatient :
    part = "store" /\ pc[r] \in {"sending", "waiting"} ~> pc[r] \notin {"sending", "waiting"}

(* What is due is done, once: the sends of the schedule and the held calls. *)
DueIsDone ==
  /\ part = "scheduled" => Sends!SaidOnce /\ Sends!SaidWhenDue
  /\ part = "timed" => Timed!HeldRunInTime

(* A tick, however large, lands at the end of the run, which is reckoned    *)
(* from a copy of the clock that shows the engine's - but for a network     *)
(* just opened, and while a sweep's clock is shown in its place.            *)
ClockIsTrue ==
  /\ part \in {"scheduled", "timed", "swept"} => Timed!WorldShowsEngine
  /\ part \in {"timed", "swept"} => Timed!TickLandsAtEnd

(* Whoever has the serial port keeps it, and there is somebody who has a    *)
(* port that is claimed - but for a claim whose client was dropped, or      *)
(* whose pipe was closed, before it was stored.                             *)
PortIsKept ==
  /\ part = "port" => Port!SessionKeepsPort /\ Port!ClientHears /\ Port!ClaimedByWhoIsThere
  /\ part = "console" => Said!SessionKeepsPort /\ Said!ClientHears /\ Said!ClaimedByWhoIsThere

(* What the node says is shown once and in order, but for scrollback.       *)
ShownInOrder ==
  /\ part = "port" => Port!ShownInOrder
  /\ part = "console" => Said!ShownInOrder

(* The table of results is of one sweep, and has every cell once.           *)
TableIsRight == part = "sweep" => Sweeps!TableIsOfOneSweep /\ Sweeps!EveryCellOnce

(* The jobs and the clock show a sweep while it runs, and none afterwards.  *)
SweepIsShown == part = "sweep" => Sweeps!SweepIsSeen /\ Sweeps!QuietWhenOver

(* A sweep ends and lets go of the table.                                   *)
SweepLetsGo == Sweeps!SweepLetsGo

(* A reader that waits has one answer coming, and one that does not, none.  *)
OneAnswerComing ==
  /\ part = "told" => Told!OneAnswerComing
  /\ part = "calling" => Calling!OneAnswerComing

(* A client is told things in their order: nothing is notified before its   *)
(* subscription is acknowledged, and it is not hung up on before it has     *)
(* been sent its last reply.                                                *)
ToldInOrder ==
  /\ part = "told" => Told!AckBeforeNotes /\ Told!LastWordIsSent
  /\ part = "calling" => Calling!LastWordIsSent

(* Whatever is asked on a connection is answered.                           *)
CallsAnswered ==
  \A c \in {"a", "b"} :
    LET Owed == c \in DOMAIN asked /\ IF part = "told" THEN Told!Unanswered(c) ELSE Calling!Unanswered(c)
    IN  Owed ~> ~Owed

(* What is destroyed of a packet is the union of what overlapped it, and a  *)
(* header the chip is told it read was readable.                            *)
DamageIsRight == part = "collision" => Collisions!DamageIsTheUnion /\ Collisions!HeaderWasReadable

(* The matrix is said to be measured when it has been.                      *)
MeasuredIsWalked ==
  /\ part = "switched" => Switched!MeasuredIsWalked
  /\ part = "rewarmed" => Rewarmed!MeasuredIsWalked

(* The links on the map are of the network that is open.                    *)
LinksAreThisNetworks ==
  /\ part = "switched" => Switched!LinksAreThisNetworks
  /\ part = "rewarmed" => Rewarmed!LinksAreThisNetworks

(* A loss is kept under the key of what priced it.                          *)
PricedAsKeyed ==
  /\ part = "switched" => Switched!PricedAsKeyed
  /\ part = "rewarmed" => Rewarmed!PricedAsKeyed

(* A measurement ends, and the row that shows it is closed.                 *)
MeasuringEnds ==
  LET Ended == ~Switched!Warming /\ ~warmJob
  IN  part = "switched" /\ ~Ended ~> part = "switched" /\ Ended
=============================================================================
