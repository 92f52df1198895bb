---------------------------- MODULE SessionProofs ----------------------------
(***************************************************************************)
(* What is proved of the session.  Of its store, for every number of        *)
(* callers, every queue and every drain: its types, that a refusal is       *)
(* always the truth, and that to its callers it is a SerialServer.  Of its  *)
(* shutdown, whoever of the callers is closing the engine: its types, that  *)
(* to the store a shutdown is one caller more, and that whoever exits       *)
(* saying the engine is closed is right - unless somebody lost it, or is    *)
(* still at it.  Of its sweeps, for any matrices and starts: that the table *)
(* is one sweep's and whole, and that it is shown while the sweep runs.     *)
(* And of the parts side by side: that each of them behaves as it does      *)
(* alone, so that what is proved of it alone is true of it here.            *)
(***************************************************************************)
EXTENDS MCSession, FiniteSetTheorems, TLAPS

-----------------------------------------------------------------------------
(* THE STORE.                                                               *)

(* The inductive invariant: where the one command of each call is.          *)

(* No command is in the channel twice. *)
Distinct ==
  \A i, j \in 1 .. Len(cmds) : cmds[i] = cmds[j] => i = j

(* What is in the channel has not been begun, whoever still waits for it;   *)
(* and whoever was told of the end put it there before.                     *)
Queued ==
  \A i \in 1 .. Len(cmds) :
    cmds[i] \notin ran /\ pc[cmds[i]] \in {"waiting", "gaveUp", "refused"}

(* What has been begun was asked for, and is served or has been. *)
Begun ==
  \A r \in ran :
    /\ pc[r] \in {"waiting", "answered", "gaveUp"}
    /\ pc[r] = "waiting" => r \in replied \/ r = serving

(* A handler runs exactly while the loop is in one. *)
Handling ==
  /\ loop \in {"serving", "servingDrained"} <=> serving # "nobody"
  /\ serving # "nobody" =>
       serving \in ran \ replied /\ pc[serving] \in {"waiting", "gaveUp"}

(* A result is there for a call that has run and has not fetched it. *)
Resulted ==
  \A r \in replied : r \in ran /\ pc[r] \in {"waiting", "gaveUp"}

(* Nobody is refused while the store runs. *)
Refusing ==
  \A r \in Request : pc[r] = "refused" => Done

(* A command is drained only if the tick may still answer one. *)
Draining ==
  loop = "servingDrained" => drained < DrainMax

IInv == TypeOK /\ Draining /\ Distinct /\ Queued /\ Begun /\ Handling /\ Resulted /\ Refusing

(* What taking a command off the channel does. *)
LEMMA ReceiveFrame ==
  ASSUME TypeOK, Receive
  PROVE  /\ Len(cmds) > 0 /\ cmds[1] \in Request
         /\ serving' = cmds[1] /\ ran' = ran \cup {cmds[1]}
         /\ cmds' \in Seq(Request) /\ Len(cmds') = Len(cmds) - 1
         /\ \A i \in 1 .. Len(cmds') : cmds'[i] = cmds[i + 1]
         /\ UNCHANGED <<stopping, replied, pc>>
<1>1. cmds \in Seq(Request) /\ cmds # << >>
  BY DEF TypeOK, Receive
<1>2. Len(cmds) > 0 /\ Head(cmds) = cmds[1] /\ cmds[1] \in Request
  BY <1>1
<1>3. /\ Tail(cmds) \in Seq(Request) /\ Len(Tail(cmds)) = Len(cmds) - 1
      /\ \A i \in 1 .. Len(Tail(cmds)) : Tail(cmds)[i] = cmds[i + 1]
  BY <1>1
<1> QED
  BY <1>2, <1>3 DEF Receive

(* What a call's move does: where the others are stays as it was. *)
LEMMA GotoFrame ==
  ASSUME TypeOK, NEW r \in Request, NEW label, Goto(r, label)
  PROVE  pc'[r] = label /\ \A q \in Request \ {r} : pc'[q] = pc[q]
  BY DEF TypeOK, Goto

(* A step of the loop, a call or the end of the context, whichever it is. *)
LEMMA NextCases ==
  ASSUME [Next]_vars
  PROVE  \/ \E r \in Request : Ask(r)
         \/ \E r \in Request : Send(r)
         \/ \E r \in Request : TakeReply(r)
         \/ \E r \in Request : SendRefused(r) \/ WaitRefused(r)
         \/ \E r \in Request : GiveUp(r)
         \/ Stop \/ Begin \/ Return \/ Tick \/ Step
         \/ Serve \/ Drain
         \/ Served \/ DrainServed
         \/ UNCHANGED vars
  BY DEF Next, Run, Do

-----------------------------------------------------------------------------
(* The types at the start. *)
LEMMA TypesAtFirst == ASSUME Init PROVE TypeOK
<1>1. cmds \in Seq(Request) /\ Len(cmds) <= Queue
  BY StoreAssumption DEF Init
<1>2. pc \in [Request -> {"idle", "sending", "waiting", "answered", "refused", "gaveUp"}]
  BY DEF Init
<1>3. drained \in 0 .. DrainMax
  BY StoreAssumption DEF Init
<1> QED
  BY <1>1, <1>2, <1>3 DEF Init, TypeOK

(* A step keeps the types, since a result is only made while a handler runs. *)
LEMMA TypesKept == ASSUME TypeOK, Handling, Draining, [Next]_vars PROVE TypeOK'
<1>1. ASSUME NEW r \in Request, Ask(r)
      PROVE  TypeOK'
  BY <1>1 DEF TypeOK, Ask, Goto
<1>2. ASSUME NEW r \in Request, Send(r)
      PROVE  TypeOK'
  <2>1. cmds' \in Seq(Request) /\ Len(cmds') = Len(cmds) + 1
    BY <1>2 DEF TypeOK, Send
  <2> QED
    BY <1>2, <2>1, StoreAssumption DEF TypeOK, Send, Goto
<1>3. ASSUME NEW r \in Request, TakeReply(r)
      PROVE  TypeOK'
  BY <1>3 DEF TypeOK, TakeReply, Goto
<1>4. ASSUME NEW r \in Request, SendRefused(r) \/ WaitRefused(r)
      PROVE  TypeOK'
  BY <1>4 DEF TypeOK, SendRefused, WaitRefused, Goto
<1>5. ASSUME NEW r \in Request, GiveUp(r)
      PROVE  TypeOK'
  BY <1>5 DEF TypeOK, GiveUp, Goto
<1>6. CASE Stop \/ Begin \/ Return \/ Tick \/ Step
  <2>1. UNCHANGED <<serving, callVars>> /\ drained' \in {0, drained}
    BY <1>6 DEF Stop, Begin, Return, Tick, Step
  <2>2. drained' \in 0 .. DrainMax
    BY <2>1, StoreAssumption DEF TypeOK
  <2> QED
    BY <1>6, <2>1, <2>2 DEF TypeOK, Stop, Begin, Return, Tick, Step, callVars
<1>7. CASE Serve \/ Drain
  <2>1. Receive /\ loop' \in {"serving", "servingDrained"} /\ drained' = drained
    BY <1>7 DEF Serve, Drain
  <2> QED
    BY <2>1, ReceiveFrame, StoreAssumption DEF TypeOK
<1>8. CASE Served
  BY <1>8 DEF TypeOK, Handling, Served, Replies
<1>9. CASE DrainServed
  BY <1>9, StoreAssumption DEF TypeOK, Handling, Draining, DrainServed, Replies
<1>10. CASE UNCHANGED vars
  BY <1>10 DEF TypeOK, vars, callVars
<1> QED
  BY <1>1, <1>2, <1>3, <1>4, <1>5, <1>6, <1>7, <1>8, <1>9, <1>10, NextCases

(* The calls keep the rest of the invariant: a call moves itself alone. *)
LEMMA CallsKeep ==
  ASSUME IInv, NEW r \in Request, Do(r)
  PROVE  (Draining /\ Distinct /\ Queued /\ Begun /\ Handling /\ Resulted /\ Refusing)'
<1> USE DEF IInv
<1>1. CASE Ask(r)
  <2>1. /\ pc'[r] = "sending" /\ \A q \in Request \ {r} : pc'[q] = pc[q]
        /\ pc[r] \in {"idle", "answered"} /\ ran' = ran \ {r}
        /\ UNCHANGED <<loop, stopping, serving, drained, cmds, replied>>
    BY <1>1, GotoFrame DEF Ask
  <2>2. r \notin replied /\ r # serving
    BY <2>1, StoreAssumption DEF Resulted, Handling
  <2>3. \A i \in 1 .. Len(cmds) : cmds[i] \in Request \ {r}
    BY <2>1 DEF Queued, TypeOK
  <2>4. Queued'
    BY <2>1, <2>3 DEF Queued
  <2>5. Begun' /\ Resulted' /\ Handling'
    BY <2>1, <2>2 DEF Begun, Resulted, Handling, TypeOK
  <2> QED
    BY <2>1, <2>4, <2>5 DEF Draining, Distinct, Refusing, Done
<1>2. CASE Send(r)
  <2>1. /\ pc'[r] = "waiting" /\ \A q \in Request \ {r} : pc'[q] = pc[q]
        /\ pc[r] = "sending" /\ cmds' = Append(cmds, r)
        /\ UNCHANGED <<loop, stopping, serving, drained, replied, ran>>
    BY <1>2, GotoFrame DEF Send
  <2>2. r \notin ran /\ r \notin replied /\ r # serving
    BY <2>1, StoreAssumption DEF Begun, Resulted, Handling
  <2>3. \A i \in 1 .. Len(cmds) : cmds[i] \in Request \ {r}
    BY <2>1 DEF Queued, TypeOK
  <2>4. /\ Len(cmds') = Len(cmds) + 1 /\ cmds'[Len(cmds) + 1] = r
        /\ \A i \in 1 .. Len(cmds) : cmds'[i] = cmds[i]
        /\ Len(cmds) \in Nat
    BY <2>1 DEF TypeOK
  <2>5. Distinct'
    BY <2>3, <2>4 DEF Distinct
  <2>6. Queued'
    BY <2>1, <2>2, <2>3, <2>4 DEF Queued
  <2>7. Begun' /\ Resulted' /\ Handling'
    BY <2>1, <2>2 DEF Begun, Resulted, Handling, TypeOK
  <2> QED
    BY <2>1, <2>5, <2>6, <2>7 DEF Draining, Refusing, Done
<1>3. CASE TakeReply(r)
  <2>1. /\ pc'[r] = "answered" /\ \A q \in Request \ {r} : pc'[q] = pc[q]
        /\ r \in replied /\ replied' = replied \ {r}
        /\ UNCHANGED <<loop, stopping, serving, drained, cmds, ran>>
    BY <1>3, GotoFrame DEF TakeReply
  <2>2. r \in ran /\ r # serving
    BY <2>1, StoreAssumption DEF Resulted, Handling
  <2>3. \A i \in 1 .. Len(cmds) : cmds[i] \in Request \ {r}
    BY <2>2 DEF Queued, TypeOK
  <2>4. Queued'
    BY <2>1, <2>3 DEF Queued
  <2>5. Begun' /\ Resulted' /\ Handling'
    BY <2>1, <2>2 DEF Begun, Resulted, Handling, TypeOK
  <2> QED
    BY <2>1, <2>4, <2>5 DEF Draining, Distinct, Refusing, Done
<1>4. CASE SendRefused(r) \/ WaitRefused(r)
  <2>1. /\ pc'[r] = "refused" /\ \A q \in Request \ {r} : pc'[q] = pc[q]
        /\ Done /\ r \notin replied /\ pc[r] \in {"sending", "waiting"}
        /\ UNCHANGED <<loop, stopping, serving, drained, cmds, replied, ran>>
    BY <1>4, GotoFrame DEF SendRefused, WaitRefused, Resulted
  <2>2. serving = "nobody" /\ r # serving
    BY <2>1, StoreAssumption DEF Handling, Done
  <2>3. r \notin ran
    BY <2>1, <2>2 DEF Begun
  <2>4. Queued'
    BY <2>1, <2>3 DEF Queued, TypeOK
  <2>5. Begun' /\ Resulted' /\ Handling'
    BY <2>1, <2>2, <2>3 DEF Begun, Resulted, Handling, TypeOK
  <2> QED
    BY <2>1, <2>4, <2>5 DEF Draining, Distinct, Refusing, Done
<1>5. CASE GiveUp(r)
  <2>1. /\ pc'[r] = "gaveUp" /\ \A q \in Request \ {r} : pc'[q] = pc[q]
        /\ UNCHANGED <<loop, stopping, serving, drained, cmds, replied, ran>>
    BY <1>5, GotoFrame DEF GiveUp
  <2>2. Queued'
    BY <2>1 DEF Queued, TypeOK
  <2>3. Begun' /\ Resulted' /\ Handling'
    BY <2>1 DEF Begun, Resulted, Handling, TypeOK
  <2> QED
    BY <2>1, <2>2, <2>3 DEF Draining, Distinct, Refusing, Done
<1> QED
  BY <1>1, <1>2, <1>3, <1>4, <1>5 DEF Do

(* So does the loop: it answers what it took, and nothing else. *)
LEMMA LoopKeeps ==
  ASSUME IInv, Stop \/ Run
  PROVE  (Draining /\ Distinct /\ Queued /\ Begun /\ Handling /\ Resulted /\ Refusing)'
<1> USE DEF IInv
<1>1. CASE Stop \/ Begin \/ Return \/ Tick \/ Step
  <2>1. /\ UNCHANGED <<serving, cmds, replied, pc, ran>>
        /\ loop' # "servingDrained" \/ UNCHANGED <<loop, drained>>
        /\ loop' \in {"serving", "servingDrained"} <=> loop \in {"serving", "servingDrained"}
        /\ Done => Done'
    BY <1>1 DEF Stop, Begin, Return, Tick, Step, callVars, Done
  <2>2. Draining' /\ Handling'
    BY <2>1 DEF Draining, Handling
  <2>3. Distinct' /\ Queued'
    BY <2>1 DEF Distinct, Queued
  <2> QED
    BY <2>1, <2>2, <2>3 DEF Begun, Resulted, Refusing
<1>2. CASE Serve \/ Drain
  <2>1. /\ Receive /\ drained' = drained /\ loop \in {"select", "draining"}
        /\ loop' \in {"serving", "servingDrained"}
        /\ loop' = "servingDrained" => drained < DrainMax
    BY <1>2 DEF Serve, Drain
  <2>2. /\ Len(cmds) > 0 /\ Len(cmds) \in Nat /\ cmds[1] \in Request
        /\ serving' = cmds[1] /\ ran' = ran \cup {cmds[1]}
        /\ Len(cmds') = Len(cmds) - 1
        /\ \A i \in 1 .. Len(cmds') : cmds'[i] = cmds[i + 1]
        /\ UNCHANGED <<replied, pc>>
    BY <2>1, ReceiveFrame DEF TypeOK
  <2>3. /\ serving = "nobody" /\ ~Done
        /\ cmds[1] \notin ran /\ pc[cmds[1]] \in {"waiting", "gaveUp", "refused"}
    BY <2>1, <2>2 DEF Handling, Queued, Done
  <2>4. pc[cmds[1]] \in {"waiting", "gaveUp"} /\ cmds[1] \notin replied
    BY <2>2, <2>3 DEF Refusing, Resulted
  <2>5. Distinct'
    BY <2>2 DEF Distinct
  <2>6. Queued'
    BY <2>2 DEF Queued, Distinct
  <2>7. Begun' /\ Resulted'
    <3>1. "nobody" \notin ran
      BY StoreAssumption DEF TypeOK
    <3> QED
      BY <2>2, <2>3, <2>4, <3>1 DEF Begun, Resulted
  <2>8. Handling'
    BY <2>1, <2>2, <2>4, StoreAssumption DEF Handling
  <2> QED
    BY <2>1, <2>2, <2>3, <2>5, <2>6, <2>7, <2>8 DEF Draining, Refusing
<1>3. CASE Served \/ DrainServed
  <2>1. /\ loop \in {"serving", "servingDrained"} /\ loop' \in {"select", "draining"}
        /\ replied' = replied \cup {serving} /\ serving' = "nobody"
        /\ UNCHANGED <<cmds, pc, ran>>
    BY <1>3 DEF Served, DrainServed, Replies
  <2>2. serving \in ran /\ pc[serving] \in {"waiting", "gaveUp"} /\ ~Done
    BY <2>1 DEF Handling, Done
  <2>3. Distinct' /\ Queued'
    BY <2>1 DEF Distinct, Queued
  <2>4. Resulted'
    BY <2>1, <2>2 DEF Resulted
  <2>5. Begun'
    BY <2>1 DEF Begun
  <2>6. Handling' /\ Draining'
    BY <2>1 DEF Handling, Draining
  <2> QED
    BY <2>1, <2>2, <2>3, <2>4, <2>5, <2>6 DEF Refusing
<1> QED
  BY <1>1, <1>2, <1>3 DEF Run

-----------------------------------------------------------------------------
(* The invariant holds always. *)
THEOREM Invariant == Spec => []IInv
<1>1. Init => IInv
  <2> SUFFICES ASSUME Init PROVE IInv
    OBVIOUS
  <2>1. Len(cmds) = 0
    BY DEF Init
  <2>2. Distinct /\ Queued
    BY <2>1 DEF Distinct, Queued
  <2>3. Refusing
    BY DEF Init, Refusing
  <2> QED
    BY <2>2, <2>3, TypesAtFirst DEF Init, IInv, Draining, Begun, Handling, Resulted
<1>2. IInv /\ [Next]_vars => IInv'
  <2> SUFFICES ASSUME IInv, [Next]_vars PROVE IInv'
    OBVIOUS
  <2>1. TypeOK'
    BY TypesKept DEF IInv
  <2>2. ASSUME NEW r \in Request, Do(r)
        PROVE  IInv'
    BY <2>1, <2>2, CallsKeep DEF IInv
  <2>3. CASE Stop \/ Run
    BY <2>1, <2>3, LoopKeeps DEF IInv
  <2>4. CASE UNCHANGED vars
    BY <2>1, <2>4 DEF IInv, vars, callVars, Draining, Distinct, Queued, Begun, Handling,
                      Resulted, Refusing, Done
  <2> QED
    BY <2>2, <2>3, <2>4 DEF Next
<1> QED
  BY <1>1, <1>2, PTL DEF Spec

(* The store keeps its types: in particular the channel never holds more    *)
(* than it was made for, and a tick never answers more than it may.         *)
THEOREM TypeCorrect == Spec => []TypeOK
<1>1. IInv => TypeOK
  BY DEF IInv
<1> QED
  BY <1>1, Invariant, PTL

(* Whoever Do tells that the store has stopped is told the truth, at        *)
(* whatever moment the store stops: its verb has not run and never will.    *)
THEOREM RefusalsAreTrue == Spec => []RefusedNeverRan
<1>1. IInv => RefusedNeverRan
  BY DEF IInv, RefusedNeverRan, Begun
<1> QED
  BY <1>1, Invariant, PTL

-----------------------------------------------------------------------------
(* Where a call is, to the caller. *)
stage == [r \in Request |-> IF pc[r] \in {"sending", "waiting"} THEN "asked" ELSE pc[r]]

(* A call that moves moves its stage, and nobody else's. *)
LEMMA StageMoves ==
  ASSUME TypeOK, NEW r \in Request, NEW label, Goto(r, label)
  PROVE  stage' = [stage EXCEPT ![r] =
                     IF label \in {"sending", "waiting"} THEN "asked" ELSE label]
  BY GotoFrame DEF stage

(* Channels, ticker and queue are hidden from the callers: every step of    *)
(* the store is one that a SerialServer may take, or none at all.           *)
THEOREM ImplementsSerialServer == Spec => StoreIsASerialServer
<1>1. Init => Server!Init
  BY DEF Init, Server!Init
<1>2. IInv /\ [Next]_vars => [Server!Next]_Server!vars
  <2> SUFFICES ASSUME IInv, [Next]_vars PROVE [Server!Next]_Server!vars
    OBVIOUS
  <2> USE DEF IInv
  <2>1. ASSUME NEW r \in Request, Ask(r)
        PROVE  Server!Ask(r)
    BY <2>1, StageMoves DEF Ask, Server!Ask, Server!Becomes, stage
  <2>2. ASSUME NEW r \in Request, Send(r)
        PROVE  UNCHANGED Server!vars
    BY <2>2, GotoFrame DEF Send, Server!vars
  <2>3. ASSUME NEW r \in Request, TakeReply(r)
        PROVE  Server!Answer(r)
    <3>1. pc[r] = "waiting" /\ r \in ran
      BY <2>3 DEF TakeReply, Resulted
    <3> QED
      BY <2>3, <3>1, StageMoves DEF TakeReply, Server!Answer, Server!Becomes, stage
  <2>4. ASSUME NEW r \in Request, SendRefused(r) \/ WaitRefused(r)
        PROVE  Server!Refuse(r)
    <3>1. pc[r] \in {"sending", "waiting"} /\ Done /\ r \notin replied
      BY <2>4 DEF SendRefused, WaitRefused, Resulted
    <3>2. r \notin ran
      BY <3>1, StoreAssumption DEF Begun, Handling, Done
    <3> QED
      BY <2>4, <3>1, <3>2, StageMoves
         DEF SendRefused, WaitRefused, Server!Refuse, Server!Becomes, stage
  <2>5. ASSUME NEW r \in Request, GiveUp(r)
        PROVE  Server!GiveUp(r)
    BY <2>5, StageMoves DEF GiveUp, Server!GiveUp, Server!Becomes, stage
  <2>6. CASE Stop \/ Begin \/ Return \/ Tick \/ Step \/ Served \/ DrainServed
    BY <2>6 DEF Stop, Begin, Return, Tick, Step, Served, DrainServed, callVars, Server!vars
  <2>7. CASE Serve \/ Drain
    <3>1. /\ cmds[1] \in Request /\ ran' = ran \cup {cmds[1]} /\ UNCHANGED pc /\ Len(cmds) > 0
          /\ ~Done
      BY <2>7, ReceiveFrame DEF Serve, Drain, Done
    <3>2. cmds[1] \notin ran /\ pc[cmds[1]] \in {"waiting", "gaveUp"}
      BY <3>1 DEF Queued, Refusing, TypeOK
    <3>3. Server!Run(cmds[1])
      BY <3>1, <3>2 DEF Server!Run
    <3> QED
      BY <3>1, <3>3 DEF Server!Next
  <2>8. CASE UNCHANGED vars
    BY <2>8 DEF vars, callVars, Server!vars
  <2> QED
    BY <2>1, <2>2, <2>3, <2>4, <2>5, <2>6, <2>7, <2>8, NextCases DEF Server!Next
<1> QED
  BY <1>1, <1>2, Invariant, PTL DEF Spec, Server!Spec, StoreIsASerialServer

-----------------------------------------------------------------------------
(* THE SHUTDOWN.                                                            *)

(* The inductive invariant: where the engine is.                            *)

(* A closer waits for the store exactly while it is detaching. *)
Detaching ==
  \A k \in Closer :
    /\ pc[k] \in {"sending", "waiting"} => step[k] = "detaching"
    /\ pc[k] = "answered" => k \in ran

(* A closer for whom the store found the engine has asked, and has it, or   *)
(* lost it, once it has gone on.                                            *)
Finding ==
  \A k \in found :
    /\ k \in ran
    /\ step[k] = "detaching" \/ k \in holds \/ LostBy(k)

(* The verb takes the engine out of the world before it is answered. *)
Clearing ==
  \A k \in Closer \cap ran : eng => k = serving /\ k \in found

(* Whoever has got to closing has seen to it that nobody else takes the     *)
(* engine, and whoever has closed what it held has closed it.               *)
Closing ==
  \A k \in Closer :
    /\ step[k] \in {"closing", "closed"} => ~eng
    /\ k \in holds => step[k] \in {"clearing", "closing", "closed"}
    /\ step[k] = "clearing" => k \in holds
    /\ k \in holds /\ step[k] = "closed" => engClosed

(* The engine is in the world, is closed, is lost, or somebody has it or is *)
(* about to be given it.                                                    *)
Custody ==
  \/ eng \/ engClosed
  \/ \E k \in Closer : LostBy(k) \/ (k \in found \cup holds /\ step[k] # "closed")

(* Nobody exits saying so before getting to the end. *)
Exiting == exited = "closed" => \E k \in Closer : step[k] = "closed"

ShutdownInv == Detaching /\ Finding /\ Clearing /\ Closing /\ Custody /\ Exiting

LEMMA Callers == Closer \subseteq Request /\ "nobody" \notin Closer
BY ShutdownAssumption, StoreAssumption

-----------------------------------------------------------------------------
(* The store.                                                               *)

(* To the store a shutdown is a caller like any other.                      *)
LEMMA NextOfTheStore ==
  ASSUME [ShutdownNext]_shutdownVars
  PROVE  [Next]_vars
<1>1. CASE StoreStep
  BY <1>1, Callers DEF StoreStep, Next, Do
<1>2. ASSUME NEW k \in Closer, CloserStep(k)
      PROVE  [Next]_vars
  <2>1. Ask(k) \/ UNCHANGED vars
    BY <1>2 DEF CloserStep, CloseContext, Handed, NotHanded, DetachRead, DetachClear,
         EngineClose, Exit, ExitAtBound
  <2> QED
    BY <2>1, Callers DEF Next, Do
<1> QED
  BY <1>1, <1>2 DEF ShutdownNext, shutdownVars

LEMMA ShutdownIsOfTheStore == ShutdownSpec => Spec
<1>1. ShutdownInit => Init
  BY DEF ShutdownInit
<1> QED
  BY <1>1, NextOfTheStore, PTL DEF ShutdownSpec, Spec

(* So a store whose world is being taken down, by however many closers, is  *)
(* to every caller the SerialServer it was: detach is a verb like another,  *)
(* and a closer that goes its own way does nothing to the store.            *)
THEOREM ServesWhileShuttingDown == ShutdownSpec => StoreIsASerialServer
BY ShutdownIsOfTheStore, ImplementsSerialServer, PTL

(* What a step of the store does: it moves a call, takes one, or ends one.  *)
LEMMA StoreStepCases ==
  ASSUME StoreStep
  PROVE  \/ \E r \in Request \ Closer : Do(r)
         \/ \E k \in Closer :
              Send(k) \/ SendRefused(k) \/ TakeReply(k) \/ WaitRefused(k) \/ GiveUp(k)
         \/ Stop \/ Begin \/ Return \/ Tick \/ Step
         \/ Serve \/ Drain
         \/ Served \/ DrainServed
  BY DEF StoreStep, Run

LEMMA StoreStepFrame ==
  ASSUME StoreStep
  PROVE  Handler /\ UNCHANGED <<step, holds, engClosed, exited>>
  BY DEF StoreStep

(* While no handler begins or ends, the engine stays where it is. *)
LEMMA HandlerIdle ==
  ASSUME Handler, serving' = serving
  PROVE  UNCHANGED <<eng, found>>
  BY DEF Handler

(* A call somebody makes or takes up, that is not a closer's. *)
LEMMA OtherCalls ==
  ASSUME IInv, NEW r \in Request \ Closer, Do(r)
  PROVE  /\ serving' = serving
         /\ \A k \in Closer : pc'[k] = pc[k]
         /\ \A k \in Closer : k \in ran' <=> k \in ran
<1>1. serving' = serving /\ ran' \in {ran, ran \ {r}}
  BY DEF Do, Ask, Send, SendRefused, TakeReply, WaitRefused, GiveUp
<1>2. \E label : Goto(r, label)
  BY DEF Do, Ask, Send, SendRefused, TakeReply, WaitRefused, GiveUp
<1>3. \A k \in Closer : pc'[k] = pc[k]
  BY <1>2, GotoFrame, Callers DEF IInv
<1> QED
  BY <1>1, <1>3

(* A closer's own call moves on: it is refused or answered only once it has *)
(* been, and gives up only on what it asked.                                *)
LEMMA CloserCalls ==
  ASSUME IInv, NEW k \in Closer,
         Send(k) \/ SendRefused(k) \/ TakeReply(k) \/ WaitRefused(k) \/ GiveUp(k)
  PROVE  /\ serving' = serving /\ ran' = ran
         /\ pc[k] \in {"sending", "waiting"}
         /\ pc'[k] = "answered" => k \in ran
         /\ pc'[k] \in {"waiting", "refused", "answered", "gaveUp"}
         /\ \A j \in Closer \ {k} : pc'[j] = pc[j]
<1>1. k \in Request
  BY Callers
<1>2. /\ serving' = serving /\ ran' = ran
      /\ pc[k] \in {"sending", "waiting"}
  BY DEF Send, SendRefused, TakeReply, WaitRefused, GiveUp
<1>3. \E label \in {"waiting", "refused", "answered", "gaveUp"} :
        Goto(k, label) /\ (label = "answered" => k \in replied)
  BY DEF Send, SendRefused, TakeReply, WaitRefused, GiveUp
<1>4. PICK label \in {"waiting", "refused", "answered", "gaveUp"} :
        Goto(k, label) /\ (label = "answered" => k \in replied)
  BY <1>3
<1>5. pc'[k] = label /\ \A q \in Request \ {k} : pc'[q] = pc[q]
  BY <1>1, <1>4, GotoFrame DEF IInv
<1>6. k \in replied => k \in ran
  BY DEF IInv, Resulted
<1> QED
  BY <1>2, <1>4, <1>5, <1>6, Callers

-----------------------------------------------------------------------------
(* Types.                                                                   *)
LEMMA ShutdownTypesKept ==
  ASSUME IInv, ShutdownTypeOK, [ShutdownNext]_shutdownVars
  PROVE  ShutdownTypeOK'
<1>1. TypeOK'
  BY NextOfTheStore, TypesKept DEF IInv
<1>2. CASE StoreStep
  <2>1. eng' \in BOOLEAN /\ found' \subseteq Closer
    BY <1>2, StoreStepFrame DEF Handler, ShutdownTypeOK
  <2> QED
    BY <1>1, <1>2, <2>1, StoreStepFrame DEF ShutdownTypeOK
<1>3. ASSUME NEW k \in Closer, CloserStep(k)
      PROVE  ShutdownTypeOK'
  <2>1. \E label \in {"detaching", "alone", "clearing", "closing", "closed"} :
          step' = [step EXCEPT ![k] = label] \/ step' = step
    BY <1>3 DEF CloserStep, CloseContext, Handed, NotHanded, DetachRead, DetachClear,
         EngineClose, Exit, ExitAtBound, At, closeVars
  <2>2. step' \in [Closer -> {"off", "detaching", "alone", "clearing", "closing", "closed"}]
    BY <2>1 DEF ShutdownTypeOK
  <2>3. found' = found /\ eng' \in BOOLEAN /\ holds' \subseteq Closer
    BY <1>3 DEF CloserStep, CloseContext, Handed, NotHanded, DetachRead, DetachClear,
         EngineClose, Exit, ExitAtBound, closeVars, ShutdownTypeOK
  <2>4. engClosed' \in BOOLEAN /\ exited' \in {"no", "closed", "bound"}
    BY <1>3 DEF CloserStep, CloseContext, Handed, NotHanded, DetachRead, DetachClear,
         EngineClose, Exit, ExitAtBound, closeVars, ShutdownTypeOK
  <2> QED
    BY <1>1, <2>2, <2>3, <2>4 DEF ShutdownTypeOK
<1>4. CASE UNCHANGED shutdownVars
  BY <1>1, <1>4 DEF shutdownVars, closeVars, ShutdownTypeOK
<1> QED
  BY <1>2, <1>3, <1>4 DEF ShutdownNext

(* A shutdown keeps its types.                                              *)
THEOREM ShutdownTypeCorrect == ShutdownSpec => []ShutdownTypeOK
<1>1. ShutdownInit => ShutdownTypeOK
  BY TypesAtFirst DEF ShutdownInit, ShutdownTypeOK
<1>2. IInv /\ ShutdownTypeOK /\ [ShutdownNext]_shutdownVars => ShutdownTypeOK'
  BY ShutdownTypesKept
<1> QED
  BY <1>1, <1>2, ShutdownIsOfTheStore, Invariant, PTL DEF ShutdownSpec

-----------------------------------------------------------------------------
(* Custody of the engine.                                                   *)

(* A call that is made, moves on or gives up leaves the engine where it is. *)
LEMMA CustodyCalls ==
  ASSUME IInv, ShutdownTypeOK, ShutdownInv, StoreStep, serving' = serving, ran' = ran,
         NEW k \in Closer,
         pc[k] \in {"sending", "waiting"},
         pc'[k] = "answered" => k \in ran,
         pc'[k] \in {"waiting", "refused", "answered", "gaveUp"},
         \A j \in Closer \ {k} : pc'[j] = pc[j]
  PROVE  ShutdownInv'
<1>1. UNCHANGED <<eng, found, step, holds, engClosed, exited, serving, ran>>
  BY StoreStepFrame, HandlerIdle
<1>2. step[k] = "detaching"
  BY DEF ShutdownInv, Detaching
<1>3. \A j \in Closer : LostBy(j) => LostBy(j)'
  BY <1>1 DEF LostBy
<1>4. Detaching'
  BY <1>1, <1>2 DEF ShutdownInv, Detaching
<1>5. Finding'
  BY <1>1, <1>3 DEF ShutdownInv, Finding, ShutdownTypeOK
<1>6. Clearing' /\ Closing' /\ Exiting'
  BY <1>1 DEF ShutdownInv, Clearing, Closing, Exiting
<1>7. Custody'
  BY <1>1, <1>3 DEF ShutdownInv, Custody
<1> QED
  BY <1>4, <1>5, <1>6, <1>7 DEF ShutdownInv

(* Nor does anybody else's call, or the store's coming and going.           *)
LEMMA CustodyElsewhere ==
  ASSUME ShutdownTypeOK, ShutdownInv, serving' = serving,
         UNCHANGED <<eng, found, step, holds, engClosed, exited>>,
         \A k \in Closer : pc'[k] = pc[k],
         \A k \in Closer : k \in ran' <=> k \in ran
  PROVE  ShutdownInv'
<1>1. \A k \in Closer : LostBy(k)' <=> LostBy(k)
  BY DEF LostBy
<1>2. Detaching' /\ Clearing' /\ Closing' /\ Exiting'
  BY DEF ShutdownInv, Detaching, Clearing, Closing, Exiting
<1>3. Finding'
  BY <1>1 DEF ShutdownInv, Finding, ShutdownTypeOK
<1>4. Custody'
  BY <1>1 DEF ShutdownInv, Custody
<1> QED
  BY <1>2, <1>3, <1>4 DEF ShutdownInv

(* detach begins: it finds the engine, or finds that somebody took it.      *)
LEMMA CustodyBegun ==
  ASSUME IInv, ShutdownTypeOK, ShutdownInv, StoreStep, Serve \/ Drain
  PROVE  ShutdownInv'
<1>1. /\ loop \in {"select", "draining"} /\ Receive
      /\ serving' = cmds[1] /\ cmds[1] \in Request
      /\ ran' = ran \cup {cmds[1]} /\ pc' = pc
  BY ReceiveFrame DEF Serve, Drain, IInv
<1>2. serving = "nobody" /\ serving \notin Closer
  BY <1>1, Callers DEF IInv, Handling
<1>3. pc[cmds[1]] \in {"waiting", "gaveUp"}
  <2>1. Len(cmds) > 0 /\ Len(cmds) \in Nat
    BY <1>1, ReceiveFrame DEF IInv, TypeOK
  <2>2. pc[cmds[1]] \in {"waiting", "gaveUp", "refused"} /\ ~Done
    BY <1>1, <2>1 DEF IInv, Queued, Done
  <2> QED
    BY <1>1, <2>2 DEF IInv, Refusing
<1>4. UNCHANGED <<step, holds, engClosed, exited>>
  BY StoreStepFrame
<1>5. CASE cmds[1] \notin Closer
  <2>1. UNCHANGED <<eng, found>>
    BY <1>1, <1>2, <1>5, StoreStepFrame DEF Handler
  <2>2. \A k \in Closer : k \in ran' <=> k \in ran
    BY <1>1, <1>5
  <2>3. \A k \in Closer : LostBy(k)' <=> LostBy(k)
    BY <1>1, <2>1 DEF LostBy
  <2>4. Detaching' /\ Closing' /\ Exiting'
    BY <1>1, <1>4, <2>1, <2>2 DEF ShutdownInv, Detaching, Closing, Exiting
  <2>5. Clearing'
    BY <1>1, <1>2, <2>1, <2>2 DEF ShutdownInv, Clearing
  <2>6. Finding'
    BY <1>4, <2>1, <2>2, <2>3 DEF ShutdownInv, Finding, ShutdownTypeOK
  <2>7. Custody'
    BY <1>4, <2>1, <2>3 DEF ShutdownInv, Custody
  <2> QED
    BY <2>4, <2>5, <2>6, <2>7 DEF ShutdownInv
<1>6. CASE cmds[1] \in Closer
  <2>1. eng' = eng /\ found' = IF eng THEN found \cup {cmds[1]} ELSE found
    BY <1>1, <1>2, <1>6, StoreStepFrame DEF Handler
  <2>2. \A k \in Closer : LostBy(k) => LostBy(k)'
    BY <1>1, <2>1 DEF LostBy
  <2>3. Detaching' /\ Closing' /\ Exiting'
    BY <1>1, <1>4, <2>1 DEF ShutdownInv, Detaching, Closing, Exiting
  <2>4. Finding'
    <3>1. ASSUME NEW k \in found
          PROVE  k \in ran' /\ (step[k] = "detaching" \/ k \in holds \/ LostBy(k)')
      BY <1>1, <2>2 DEF ShutdownInv, Finding, ShutdownTypeOK
    <3>2. ASSUME NEW k \in Closer, eng, k = cmds[1]
          PROVE  step[k] = "detaching" \/ LostBy(k)'
      BY <1>1, <1>3, <1>6, <2>1, <3>2 DEF ShutdownInv, Detaching, LostBy
    <3> QED
      BY <1>1, <1>4, <1>6, <2>1, <3>1, <3>2 DEF Finding
  <2>5. Clearing'
    BY <1>1, <1>2, <2>1 DEF ShutdownInv, Clearing
  <2>6. Custody'
    BY <1>4, <2>1, <2>2 DEF ShutdownInv, Custody
  <2> QED
    BY <2>3, <2>4, <2>5, <2>6 DEF ShutdownInv
<1> QED
  BY <1>5, <1>6

(* detach ends: if it found the engine it takes it out of the world, for    *)
(* somebody who waits for it or has just stopped waiting.                   *)
LEMMA CustodyServed ==
  ASSUME IInv, ShutdownTypeOK, ShutdownInv, StoreStep, Served \/ DrainServed
  PROVE  ShutdownInv'
<1>1. /\ loop \in {"serving", "servingDrained"} /\ serving' = "nobody"
      /\ ran' = ran /\ pc' = pc
  BY DEF Served, DrainServed, Replies
<1>2. serving \in ran /\ pc[serving] \in {"waiting", "gaveUp"}
  BY <1>1 DEF IInv, Handling
<1>3. UNCHANGED <<step, holds, engClosed, exited>>
  BY StoreStepFrame
<1>4. /\ found' = found
      /\ eng' = IF serving \in Closer THEN eng /\ serving \notin found ELSE eng
  BY <1>1, Callers, StoreStepFrame DEF Handler
<1>5. eng' => eng
  BY <1>4 DEF ShutdownTypeOK
<1>6. \A k \in Closer : LostBy(k)' <=> LostBy(k)
  BY <1>1, <1>4 DEF LostBy
<1>7. Detaching' /\ Exiting'
  BY <1>1, <1>3 DEF ShutdownInv, Detaching, Exiting
<1>8. Closing'
  BY <1>3, <1>5 DEF ShutdownInv, Closing
<1>9. Finding'
  BY <1>1, <1>3, <1>4, <1>6 DEF ShutdownInv, Finding, ShutdownTypeOK
<1>10. Clearing'
  BY <1>1, <1>4, <1>5 DEF ShutdownInv, Clearing
<1>11. Custody'
  <2>1. CASE eng' = eng
    BY <1>3, <1>4, <1>6, <2>1 DEF ShutdownInv, Custody
  <2>2. CASE serving \in Closer /\ serving \in found
    <3>1. CASE pc[serving] = "gaveUp"
      BY <1>1, <1>4, <2>2, <3>1 DEF Custody, LostBy
    <3>2. CASE pc[serving] = "waiting"
      <4>1. step'[serving] = "detaching"
        BY <1>3, <2>2, <3>2 DEF ShutdownInv, Detaching
      <4> QED
        BY <1>4, <2>2, <4>1 DEF Custody
    <3> QED
      BY <1>2, <3>1, <3>2
  <2> QED
    BY <1>4, <2>1, <2>2 DEF ShutdownTypeOK
<1> QED
  BY <1>7, <1>8, <1>9, <1>10, <1>11 DEF ShutdownInv

LEMMA CustodyStore ==
  ASSUME IInv, ShutdownTypeOK, ShutdownInv, StoreStep
  PROVE  ShutdownInv'
<1>1. ASSUME NEW r \in Request \ Closer, Do(r)
      PROVE  ShutdownInv'
  BY <1>1, OtherCalls, StoreStepFrame, HandlerIdle, CustodyElsewhere
<1>2. ASSUME NEW k \in Closer,
             Send(k) \/ SendRefused(k) \/ TakeReply(k) \/ WaitRefused(k) \/ GiveUp(k)
      PROVE  ShutdownInv'
  BY <1>2, CloserCalls, CustodyCalls
<1>3. CASE Stop \/ Begin \/ Return \/ Tick \/ Step
  <2>1. serving' = serving /\ pc' = pc /\ ran' = ran
    BY <1>3 DEF Stop, Begin, Return, Tick, Step, callVars
  <2> QED
    BY <2>1, StoreStepFrame, HandlerIdle, CustodyElsewhere
<1> QED
  BY <1>1, <1>2, <1>3, CustodyBegun, CustodyServed, StoreStepCases

(* The closers themselves.  Whoever is told that the store is going away    *)
(* was not given the engine: the verb that would have never began.          *)
LEMMA CustodyCloser ==
  ASSUME IInv, ShutdownTypeOK, ShutdownInv, NEW k \in Closer, CloserStep(k)
  PROVE  ShutdownInv'
<1>1. /\ found' = found /\ found \subseteq Closer /\ k \in Request
      /\ \A j \in Closer \ {k} : step'[j] = step[j]
  BY Callers DEF CloserStep, CloseContext, Handed, NotHanded, DetachRead, DetachClear,
       EngineClose, Exit, ExitAtBound, At, closeVars, ShutdownTypeOK
<1>2. CASE CloseContext(k) /\ Running
  <2>1. /\ step[k] = "off" /\ step'[k] = "detaching"
        /\ pc'[k] = "sending" /\ \A q \in Request \ {k} : pc'[q] = pc[q]
        /\ serving' = serving /\ ran' = ran \ {k} /\ pc[k] \in {"idle", "answered"}
        /\ UNCHANGED <<eng, holds, engClosed, exited>>
    BY <1>1, <1>2, GotoFrame DEF CloseContext, Ask, At, IInv, ShutdownTypeOK
  <2>2. k \notin found
    BY <2>1 DEF ShutdownInv, Finding, Closing, LostBy
  <2>3. \A j \in Closer : LostBy(j)' <=> LostBy(j)
    BY <1>1, <2>1, <2>2, Callers DEF LostBy
  <2>4. Detaching' /\ Clearing'
    BY <1>1, <2>1, Callers DEF ShutdownInv, Detaching, Clearing
  <2>5. Closing'
    BY <1>1, <2>1 DEF ShutdownInv, Closing
  <2>6. Finding'
    BY <1>1, <2>1, <2>2, <2>3 DEF ShutdownInv, Finding
  <2>7. Custody'
    BY <1>1, <2>1, <2>2, <2>3 DEF ShutdownInv, Custody
  <2>8. Exiting'
    BY <1>1, <2>1 DEF ShutdownInv, Exiting
  <2> QED
    BY <2>4, <2>5, <2>6, <2>7, <2>8 DEF ShutdownInv
<1>3. CASE ~(CloseContext(k) /\ Running)
  <2>1. UNCHANGED vars
    BY <1>3 DEF CloserStep, CloseContext, Handed, NotHanded, DetachRead, DetachClear,
         EngineClose, Exit, ExitAtBound
  <2>2. pc' = pc /\ ran' = ran /\ serving' = serving
    BY <2>1 DEF vars, callVars
  <2>3. \A j \in Closer : LostBy(j)' <=> LostBy(j)
    BY <1>1, <2>2 DEF LostBy
  <2>4. CASE CloseContext(k) \/ NotHanded(k)
    <3>1. /\ step[k] \in {"off", "detaching"} /\ step'[k] = "alone"
          /\ step[k] = "detaching" => pc[k] \in {"refused", "gaveUp"}
          /\ UNCHANGED <<eng, holds, engClosed, exited>>
      BY <1>3, <2>4 DEF CloseContext, NotHanded, At, ShutdownTypeOK
    <3>2. k \notin holds /\ pc[k] \notin {"sending", "waiting"}
      BY <3>1 DEF ShutdownInv, Closing, Detaching
    <3>3. k \in found => LostBy(k)
      <4>1. pc[k] = "refused" => k \notin found
        BY <1>1 DEF ShutdownInv, Finding, IInv, Begun
      <4> QED
        BY <3>1, <3>2, <4>1 DEF ShutdownInv, Finding, LostBy
    <3>4. Detaching' /\ Clearing'
      BY <1>1, <2>2, <3>1, <3>2 DEF ShutdownInv, Detaching, Clearing
    <3>5. Closing'
      BY <1>1, <3>1, <3>2 DEF ShutdownInv, Closing
    <3>6. Finding'
      BY <1>1, <2>2, <2>3, <3>1, <3>3 DEF ShutdownInv, Finding
    <3>7. Custody'
      BY <1>1, <2>3, <3>1 DEF ShutdownInv, Custody
    <3>8. Exiting'
      BY <1>1, <3>1 DEF ShutdownInv, Exiting
    <3> QED
      BY <3>4, <3>5, <3>6, <3>7, <3>8 DEF ShutdownInv
  <2>5. CASE Handed(k)
    <3>1. /\ step[k] = "detaching" /\ step'[k] = "closing" /\ pc[k] = "answered"
          /\ holds' = IF k \in found THEN holds \cup {k} ELSE holds
          /\ UNCHANGED <<eng, engClosed, exited>>
      BY <2>5 DEF Handed, At, ShutdownTypeOK
    <3>2. ~eng
      <4>1. k \in ran
        BY <3>1 DEF ShutdownInv, Detaching
      <4>2. k # serving
        BY <3>1, Callers DEF IInv, Handling
      <4> QED
        BY <4>1, <4>2 DEF ShutdownInv, Clearing
    <3>3. Detaching' /\ Clearing'
      BY <1>1, <2>2, <3>1 DEF ShutdownInv, Detaching, Clearing
    <3>4. Closing'
      BY <1>1, <3>1, <3>2 DEF ShutdownInv, Closing
    <3>5. Finding'
      BY <1>1, <2>2, <2>3, <3>1 DEF ShutdownInv, Finding
    <3>6. Custody'
      BY <1>1, <2>3, <3>1 DEF ShutdownInv, Custody
    <3>7. Exiting'
      BY <1>1, <3>1 DEF ShutdownInv, Exiting
    <3> QED
      BY <3>3, <3>4, <3>5, <3>6, <3>7 DEF ShutdownInv
  <2>6. CASE DetachRead(k)
    <3>1. /\ step[k] = "alone" /\ step'[k] = (IF eng THEN "clearing" ELSE "closing")
          /\ holds' = IF eng THEN holds \cup {k} ELSE holds
          /\ UNCHANGED <<eng, engClosed, exited>>
      BY <2>6 DEF DetachRead, At, ShutdownTypeOK
    <3>2. Detaching' /\ Clearing'
      BY <1>1, <2>2, <3>1 DEF ShutdownInv, Detaching, Clearing
    <3>3. Closing'
      BY <1>1, <3>1 DEF ShutdownInv, Closing
    <3>4. Finding'
      BY <1>1, <2>2, <2>3, <3>1 DEF ShutdownInv, Finding
    <3>5. Custody'
      BY <1>1, <2>3, <3>1 DEF ShutdownInv, Custody
    <3>6. Exiting'
      BY <1>1, <3>1 DEF ShutdownInv, Exiting
    <3> QED
      BY <3>2, <3>3, <3>4, <3>5, <3>6 DEF ShutdownInv
  <2>7. CASE DetachClear(k)
    <3>1. /\ step[k] = "clearing" /\ step'[k] = "closing" /\ ~eng'
          /\ UNCHANGED <<holds, engClosed, exited>>
      BY <2>7 DEF DetachClear, At, ShutdownTypeOK
    <3>2. k \in holds
      BY <3>1 DEF ShutdownInv, Closing
    <3>3. Detaching' /\ Clearing'
      BY <1>1, <2>2, <3>1 DEF ShutdownInv, Detaching, Clearing
    <3>4. Closing'
      BY <1>1, <3>1 DEF ShutdownInv, Closing
    <3>5. Finding'
      BY <1>1, <2>2, <2>3, <3>1 DEF ShutdownInv, Finding
    <3>6. Custody'
      BY <1>1, <3>1, <3>2 DEF Custody
    <3>7. Exiting'
      BY <1>1, <3>1 DEF ShutdownInv, Exiting
    <3> QED
      BY <3>3, <3>4, <3>5, <3>6, <3>7 DEF ShutdownInv
  <2>8. CASE EngineClose(k)
    <3>1. /\ step[k] = "closing" /\ step'[k] = "closed"
          /\ engClosed' = (engClosed \/ k \in holds)
          /\ UNCHANGED <<eng, holds, exited>>
      BY <2>8 DEF EngineClose, At, ShutdownTypeOK
    <3>2. k \in found => k \in holds \/ LostBy(k)
      BY <3>1 DEF ShutdownInv, Finding
    <3>3. Detaching' /\ Clearing'
      BY <1>1, <2>2, <3>1 DEF ShutdownInv, Detaching, Clearing
    <3>4. Closing'
      BY <1>1, <3>1 DEF ShutdownInv, Closing
    <3>5. Finding'
      BY <1>1, <2>2, <2>3, <3>1, <3>2 DEF ShutdownInv, Finding
    <3>6. Custody'
      BY <1>1, <2>3, <3>1, <3>2 DEF ShutdownInv, Custody
    <3>7. Exiting'
      BY <1>1, <3>1 DEF ShutdownInv, Exiting
    <3> QED
      BY <3>3, <3>4, <3>5, <3>6, <3>7 DEF ShutdownInv
  <2>9. CASE Exit(k) \/ ExitAtBound(k)
    <3>1. UNCHANGED <<eng, found, step, holds, engClosed>>
      BY <2>9 DEF Exit, ExitAtBound, closeVars
    <3>2. exited' = "closed" => step[k] = "closed"
      BY <2>9 DEF Exit, ExitAtBound
    <3>3. Detaching' /\ Clearing' /\ Closing'
      BY <2>2, <3>1 DEF ShutdownInv, Detaching, Clearing, Closing
    <3>4. Finding' /\ Custody'
      BY <1>1, <2>2, <2>3, <3>1 DEF ShutdownInv, Finding, Custody
    <3>5. Exiting'
      BY <3>1, <3>2 DEF Exiting
    <3> QED
      BY <3>3, <3>4, <3>5 DEF ShutdownInv
  <2> QED
    BY <2>4, <2>5, <2>6, <2>7, <2>8, <2>9 DEF CloserStep
<1> QED
  BY <1>2, <1>3

LEMMA CustodyNext ==
  ASSUME IInv, ShutdownTypeOK, ShutdownInv, [ShutdownNext]_shutdownVars
  PROVE  ShutdownInv'
<1>1. CASE UNCHANGED shutdownVars
  BY <1>1, CustodyElsewhere DEF shutdownVars, vars, callVars, closeVars
<1> QED
  BY <1>1, CustodyStore, CustodyCloser DEF ShutdownNext

(* Whoever exits saying that the engine is closed tells the truth, however  *)
(* many are closing it, whatever the store is doing and whichever of them   *)
(* runs out of patience - unless one of them stopped waiting for an engine  *)
(* the store then handed to nobody, or has it and is still closing it.      *)
THEOREM ExitIsAfterClose == ShutdownSpec => []ExitsAfterClose
<1>1. ShutdownInit => ShutdownInv
  BY Callers DEF ShutdownInit, Init, ShutdownInv, Detaching, Finding, Clearing, Closing,
       Custody, Exiting
<1>2. IInv /\ ShutdownTypeOK /\ ShutdownInv /\ [ShutdownNext]_shutdownVars => ShutdownInv'
  BY CustodyNext
<1>3. ShutdownInv => ExitsAfterClose
  BY DEF ShutdownInv, Exiting, Closing, Custody, ExitsAfterClose
<1> QED
  BY <1>1, <1>2, <1>3, ShutdownIsOfTheStore, Invariant, ShutdownTypeCorrect, PTL
     DEF ShutdownSpec

-----------------------------------------------------------------------------
(* THE SWEEP.                                                               *)

(* Where a sweep's goroutine is.                                            *)
Asking == {"sending_sim.play", "waiting_sim.play"}
Working == Asking \cup {"loop", "next", "cell", "sending_job.progress", "waiting_job.progress",
                        "sending_experiment.results", "waiting_experiment.results"}
Pausing == {"sending_sim.pause", "waiting_sim.pause"}
Finishing == {"sending_experiment.finished", "waiting_experiment.finished"}
Place == Working \cup Pausing \cup Finishing \cup {"off", "gone"}
Row == [run : Sweeps!RunId, arm : STRING, seed : Nat]
SeedList == Seq(Nat)
ArmNames == Seq(STRING)
SeedsKept == [in : Nat, len : Nat]
CellAt == [arm : Nat, seed : Nat]
PostMade == [by : Sweeps!RunId, verb : Sweeps!Verb]

SweepTypes ==
  /\ arms \in ArmNames
  /\ arrays \in Seq(SeedList) /\ seeds \in SeedsKept
  /\ running \in BOOLEAN /\ done \in {"nil", "open", "closed"} /\ results \in Seq(Row)
  /\ last \in 0 .. SweepRuns
  /\ sweepPc \in [Sweeps!RunId -> Place]
  /\ heldArms \in [Sweeps!RunId -> ArmNames]
  /\ heldSeeds \in [Sweeps!RunId -> SeedsKept]
  /\ at \in [Sweeps!RunId -> CellAt]
  /\ cancelled \subseteq 1 .. last
  /\ posts \in Seq(PostMade)
  /\ sweepPlaying \in BOOLEAN /\ job \in BOOLEAN /\ verdict \in BOOLEAN
  /\ changed \in BOOLEAN /\ overlapped \in BOOLEAN

(* A sweep goes through arms and seeds that are there: the arrays a list of *)
(* seeds has been kept in are still as long as they were.                   *)
Listed(s) == s.in \in 1 .. Len(arrays) /\ s.len \in 0 .. Len(arrays[s.in])

NotYet == Asking \cup {"off", "loop"}

Reading(k) ==
  /\ Listed(heldSeeds[k])
  /\ at[k] # Sweeps!Nowhere => at[k].arm \in 1 .. Len(heldArms[k]) /\ at[k].seed \in 1 .. heldSeeds[k].len
  /\ sweepPc[k] \in NotYet => at[k] = Sweeps!Nowhere
  /\ sweepPc[k] = "cell" => at[k] # Sweeps!Nowhere

InRange ==
  /\ arms \in SweepArms
  /\ Listed(seeds) /\ seeds.len > 0
  /\ \A k \in Sweeps!RunId : Reading(k)

(* Whose the table of results is: the sweep last started, while it works.   *)
Holder ==
  /\ \A k \in Sweeps!RunId : sweepPc[k] = "off" <=> k > last
  /\ \A k \in Sweeps!RunId : sweepPc[k] \in Working => k = last /\ done = "open"
  /\ done = "open" => last \in Sweeps!RunId /\ sweepPc[last] \in Working
  /\ running => done = "open" /\ last \notin cancelled
  /\ done = "nil" <=> last = 0
  /\ Sweeps!TableIsOfOneSweep

(* Only last words run out of time.                                         *)
Lapsing == \A k \in lapsed : k \in Sweeps!RunId /\ sweepPc[k] \notin Working \cup {"off"}

(* A sweep's last words are the last of its posts, and it waits for them -  *)
(* unless they ran out of time. *)
LastWord == {"sim.pause", "experiment.finished"}

Heard ==
  \A i \in 1 .. Len(posts) : posts[i].by \notin lapsed =>
    /\ sweepPc[posts[i].by] \notin {"off", "gone", "sending_experiment.finished"}
    /\ posts[i].verb = "sim.pause" => sweepPc[posts[i].by] = "waiting_sim.pause"
    /\ posts[i].verb = "experiment.finished" <=> sweepPc[posts[i].by] = "waiting_experiment.finished"

LastOnes ==
  \A i, j \in 1 .. Len(posts) :
    i < j /\ posts[i].by = posts[j].by /\ posts[i].by \notin lapsed => posts[i].verb \notin LastWord

(* A sweep that was started when nothing was left of those before it is the *)
(* only one there is. *)
NoneBefore ==
  ~overlapped =>
    /\ \A k \in Sweeps!RunId : k < last => sweepPc[k] = "gone"
    /\ \A i \in 1 .. Len(posts) : posts[i].by = last

(* What is shown is shown of somebody.                                      *)
Showing ==
  /\ sweepPlaying /\ lapsed = {} => \E k \in Sweeps!RunId : sweepPc[k] \in Working \cup Pausing
  /\ job /\ lapsed = {} => \E k \in Sweeps!RunId : sweepPc[k] \notin {"off", "gone"}
  /\ Sweeps!SweepIsSeen

(* How far the table is filled: with every cell up to the one the sweep is  *)
(* on, or up to the last - unless the sweep was stopped or the matrix       *)
(* changed.                                                                 *)
Covered(arm, seed) ==
  \A i \in 1 .. Len(arms), j \in 1 .. seeds.len :
    i < arm \/ (i = arm /\ j <= seed) =>
      \E n \in 1 .. Len(results) :
        results[n].arm = arms[i] /\ results[n].seed = arrays[seeds.in][j]

CellsOf(c) == IF c = Sweeps!Nowhere THEN 0 ELSE (c.arm - 1) * seeds.len + c.seed

Filled(k) ==
  /\ sweepPc[k] \notin NotYet => heldArms[k] = arms
  /\ at[k] # Sweeps!Nowhere => heldSeeds[k] = seeds
  /\ sweepPc[k] \in Working \ {"cell"} => Len(results) = CellsOf(at[k]) /\ Covered(at[k].arm, at[k].seed)
  /\ sweepPc[k] = "cell" => Len(results) = CellsOf(at[k]) - 1 /\ Covered(at[k].arm, at[k].seed - 1)
  /\ sweepPc[k] \notin Working => Len(results) = Sweeps!Total /\ Covered(Len(arms), seeds.len)

Whole == last \in Sweeps!RunId /\ last \notin cancelled /\ ~changed => Filled(last)

SweepInv ==
  SweepTypes /\ InRange /\ Holder /\ Lapsing /\ Heard /\ LastOnes /\ NoneBefore /\ Showing /\ Whole

(* The words a verb is known by.                                            *)
LEMMA WordsOf ==
  /\ Sweeps!Sending("sim.play") = "sending_sim.play" /\ Sweeps!Waiting("sim.play") = "waiting_sim.play"
  /\ Sweeps!Sending("job.progress") = "sending_job.progress" /\ Sweeps!Waiting("job.progress") = "waiting_job.progress"
  /\ Sweeps!Sending("experiment.results") = "sending_experiment.results"
  /\ Sweeps!Waiting("experiment.results") = "waiting_experiment.results"
  /\ Sweeps!Sending("sim.pause") = "sending_sim.pause" /\ Sweeps!Waiting("sim.pause") = "waiting_sim.pause"
  /\ Sweeps!Sending("experiment.finished") = "sending_experiment.finished"
  /\ Sweeps!Waiting("experiment.finished") = "waiting_experiment.finished"
BY DEF Sweeps!Sending, Sweeps!Waiting

LEMMA Afterwards ==
  /\ Sweeps!After("sim.play") = "loop" /\ Sweeps!After("job.progress") = "sending_experiment.results"
  /\ Sweeps!After("experiment.results") = "next" /\ Sweeps!After("sim.pause") = "sending_experiment.finished"
  /\ Sweeps!After("experiment.finished") = "gone"
BY DEF Sweeps!After

LEMMA VerbIs ==
  ASSUME NEW word \in Sweeps!Verb
  PROVE  word \in {"sim.play", "job.progress", "experiment.results", "sim.pause", "experiment.finished"}
BY DEF Sweeps!Verb

LEMMA WordsArePlaces ==
  ASSUME NEW word \in Sweeps!Verb
  PROVE  Sweeps!Sending(word) \in Place /\ Sweeps!Waiting(word) \in Place /\ Sweeps!After(word) \in Place
BY VerbIs, WordsOf, Afterwards DEF Place, Working, Asking, Pausing, Finishing

LEMMA RunIdsAre ==
  ASSUME Sweeps!SweepAssumption
  PROVE  SweepRuns \in Nat /\ \A k : k \in Sweeps!RunId <=> k \in Nat /\ k >= 1 /\ k <= SweepRuns
BY DEF Sweeps!SweepAssumption, Sweeps!RunId

(* Where the others are when one goes somewhere. *)
LEMMA GoesTo ==
  ASSUME SweepTypes, NEW k \in Sweeps!RunId, NEW place \in Place, Sweeps!Goto(k, place)
  PROVE  /\ sweepPc' \in [Sweeps!RunId -> Place] /\ sweepPc'[k] = place
         /\ \A m \in Sweeps!RunId : m # k => sweepPc'[m] = sweepPc[m]
BY DEF SweepTypes, Sweeps!Goto

LEMMA Answering ==
  ASSUME SweepTypes, Sweeps!Answer
  PROVE  /\ posts # << >> /\ posts' = Tail(posts) /\ Head(posts) = posts[1]
         /\ posts[1].by \in Sweeps!RunId /\ posts[1].verb \in Sweeps!Verb
         /\ Sweeps!Handle(posts[1].verb)
         /\ sweepPc' \in [Sweeps!RunId -> Place]
         /\ sweepPc'[posts[1].by] = IF sweepPc[posts[1].by] = Sweeps!Waiting(posts[1].verb)
                                 THEN Sweeps!After(posts[1].verb) ELSE sweepPc[posts[1].by]
         /\ \A m \in Sweeps!RunId : m # posts[1].by => sweepPc'[m] = sweepPc[m]
<1>1. posts \in Seq(PostMade) /\ posts # << >>
  BY DEF SweepTypes, Sweeps!Answer
<1>2. Head(posts) = posts[1] /\ posts[1] \in PostMade
  <2>1. Len(posts) \in Nat /\ 1 \in 1 .. Len(posts)
    BY <1>1
  <2> QED
    BY <1>1, <2>1
<1>3. posts[1].by \in Sweeps!RunId /\ posts[1].verb \in Sweeps!Verb
  BY <1>2 DEF PostMade
<1> DEFINE k == posts[1].by
           word == posts[1].verb
<1>4. posts' = Tail(posts) /\ Sweeps!Handle(word) /\ sweepPc' = [sweepPc EXCEPT ![k] = IF @ = Sweeps!Waiting(word) THEN Sweeps!After(word) ELSE @]
  BY <1>2 DEF Sweeps!Answer
<1>5. sweepPc \in [Sweeps!RunId -> Place] /\ Sweeps!After(word) \in Place
  BY <1>3, WordsArePlaces DEF SweepTypes
<1> HIDE DEF k, word
<1>6. k \in Sweeps!RunId
  BY <1>3 DEF k
<1>7. /\ sweepPc' \in [Sweeps!RunId -> Place]
      /\ sweepPc'[k] = IF sweepPc[k] = Sweeps!Waiting(word) THEN Sweeps!After(word) ELSE sweepPc[k]
      /\ \A m \in Sweeps!RunId : m # k => sweepPc'[m] = sweepPc[m]
  BY <1>4, <1>5, <1>6
<1> QED
  BY <1>1, <1>2, <1>3, <1>4, <1>7 DEF k, word

-----------------------------------------------------------------------------
LEMMA SweepBegins == ASSUME Sweeps!SweepAssumption, Sweeps!Init PROVE SweepInv
<1>1. \A s \in SweepSeeds : s \in SeedList /\ Len(s) \in {1, 2, 4}
  BY DEF Sweeps!SweepAssumption, SeedList
<1>2. PICK s \in SweepSeeds : arrays = <<s>>
  BY DEF Sweeps!Init
<1>3. /\ arrays \in Seq(SeedList) /\ Len(arrays) = 1 /\ Len(arrays[1]) \in Nat /\ Len(arrays[1]) > 0
  <2>1. s \in SeedList /\ Len(s) \in {1, 2, 4}
    BY <1>1
  <2>2. arrays = <<s>> /\ arrays[1] = s
    BY <1>2
  <2>3. Len(s) \in Nat /\ Len(s) > 0
    BY <2>1
  <2> QED
    BY <2>1, <2>2, <2>3
<1>4. seeds = [in |-> 1, len |-> Len(arrays[1])]
  BY DEF Sweeps!Init
<1>5. 0 \in Nat /\ Sweeps!InNoArray \in SeedsKept /\ Sweeps!Nowhere \in CellAt
  BY DEF Sweeps!InNoArray, Sweeps!Nowhere, SeedsKept, CellAt
<1>6. SweepRuns \in Nat
  BY DEF Sweeps!SweepAssumption
<1>7. SweepTypes
  <2>1. arms \in ArmNames /\ arrays \in Seq(SeedList) /\ seeds \in SeedsKept
    BY <1>3, <1>4 DEF Sweeps!Init, Sweeps!SweepAssumption, ArmNames, SeedsKept
  <2>2. done \in {"nil", "open", "closed"} /\ results \in Seq(Row) /\ last \in 0 .. SweepRuns
    BY <1>6 DEF Sweeps!Init
  <2>3. sweepPc \in [Sweeps!RunId -> Place] /\ heldArms \in [Sweeps!RunId -> ArmNames]
    BY DEF Sweeps!Init, Place, ArmNames
  <2>4. heldSeeds \in [Sweeps!RunId -> SeedsKept] /\ at \in [Sweeps!RunId -> CellAt]
    BY <1>5 DEF Sweeps!Init
  <2>5. cancelled \subseteq 1 .. last /\ posts \in Seq(PostMade)
    BY DEF Sweeps!Init
  <2>6. /\ sweepPlaying \in BOOLEAN /\ job \in BOOLEAN /\ verdict \in BOOLEAN /\ running \in BOOLEAN
        /\ changed \in BOOLEAN /\ overlapped \in BOOLEAN
    BY Zenon DEF Sweeps!Init
  <2> QED
    BY <2>1, <2>2, <2>3, <2>4, <2>5, <2>6 DEF SweepTypes
<1>8. InRange
  <2>1. Listed(Sweeps!InNoArray)
    BY <1>3 DEF Listed, Sweeps!InNoArray
  <2>2. Listed(seeds) /\ seeds.len > 0
    BY <1>3, <1>4 DEF Listed
  <2>3. \A k \in Sweeps!RunId : heldSeeds[k] = Sweeps!InNoArray /\ at[k] = Sweeps!Nowhere /\ sweepPc[k] = "off"
    BY DEF Sweeps!Init
  <2>4. arms \in SweepArms
    BY DEF Sweeps!Init
  <2> QED
    BY <2>1, <2>2, <2>3, <2>4 DEF InRange, Reading
<1>9. Holder
  <2>1. \A k \in Sweeps!RunId : sweepPc[k] = "off" /\ k > 0
    BY RunIdsAre DEF Sweeps!Init
  <2>2. last = 0 /\ done = "nil" /\ ~running /\ results = << >>
    BY Zenon DEF Sweeps!Init
  <2>3. \A k \in Sweeps!RunId : sweepPc[k] = "off" <=> k > last
    BY <2>1, <2>2
  <2>4. \A k \in Sweeps!RunId : sweepPc[k] \notin Working
    BY <2>1 DEF Working, Asking
  <2>5. Len(results) = 0
    BY <2>2
  <2> QED
    BY <2>2, <2>3, <2>4, <2>5 DEF Holder, Sweeps!TableIsOfOneSweep
<1>10. Lapsing /\ Heard /\ LastOnes
  BY DEF Sweeps!Init, Lapsing, Heard, LastOnes
<1>13. NoneBefore
  <2>1. last = 0 /\ \A k \in Sweeps!RunId : ~(k < 0)
    BY RunIdsAre DEF Sweeps!Init
  <2> QED
    BY <2>1 DEF NoneBefore, Sweeps!Init
<1>11. Showing
  <2>1. last = 0 /\ ~sweepPlaying /\ ~job /\ ~running
    BY Zenon DEF Sweeps!Init
  <2> QED
    BY <2>1 DEF Showing, Sweeps!SweepIsSeen
<1>12. Whole
  BY RunIdsAre DEF Sweeps!Init, Whole
<1> QED
  BY <1>7, <1>8, <1>9, <1>10, <1>11, <1>12, <1>13 DEF SweepInv

-----------------------------------------------------------------------------
(* A cell that a sweep is on is there to be read.                           *)
LEMMA CellIs ==
  ASSUME Sweeps!SweepAssumption, SweepTypes, InRange, NEW k \in Sweeps!RunId, at[k] # Sweeps!Nowhere
  PROVE  /\ heldArms[k][at[k].arm] \in STRING
         /\ arrays[heldSeeds[k].in][at[k].seed] \in Nat
<1>1. /\ heldArms[k] \in ArmNames /\ at[k].arm \in 1 .. Len(heldArms[k])
      /\ heldSeeds[k].in \in 1 .. Len(arrays) /\ at[k].seed \in 1 .. heldSeeds[k].len
      /\ heldSeeds[k].len \in 0 .. Len(arrays[heldSeeds[k].in])
  BY DEF SweepTypes, InRange, Reading, Listed
<1>2. arrays[heldSeeds[k].in] \in SeedList
  BY <1>1 DEF SweepTypes
<1>3. heldSeeds[k].len \in Nat /\ Len(arrays[heldSeeds[k].in]) \in Nat
  BY <1>1, <1>2 DEF SeedList
<1>4. at[k].seed \in 1 .. Len(arrays[heldSeeds[k].in])
  BY <1>1, <1>3
<1>5. arrays[heldSeeds[k].in][at[k].seed] \in Nat
  <2> DEFINE s == arrays[heldSeeds[k].in]
             i == at[k].seed
  <2>1. s \in Seq(Nat) /\ i \in 1 .. Len(s)
    BY <1>2, <1>4 DEF SeedList
  <2> HIDE DEF s, i
  <2>2. s[i] \in Nat
    BY <2>1
  <2> QED
    BY <2>2 DEF s, i
<1>6. heldArms[k][at[k].arm] \in STRING
  BY <1>1 DEF ArmNames
<1> QED
  BY <1>5, <1>6

(* A list of seeds that is defined goes where it fits, and shortens none. *)
LEMMA SeedsDefined ==
  ASSUME Sweeps!SweepAssumption, SweepTypes, InRange, NEW s \in SweepSeeds, Sweeps!DefineSeeds(s) \/ Sweeps!SetSeeds(s)
  PROVE  /\ arrays' \in Seq(SeedList) /\ Len(arrays') >= Len(arrays)
         /\ \A i \in 1 .. Len(arrays) : Len(arrays'[i]) = Len(arrays[i])
         /\ seeds' \in SeedsKept /\ seeds'.in \in 1 .. Len(arrays')
         /\ seeds'.len \in 1 .. Len(arrays'[seeds'.in])
<1>1. s \in SeedList /\ Len(s) \in {1, 2, 4}
  BY DEF Sweeps!SweepAssumption, SeedList
<1>2. /\ arrays \in Seq(SeedList) /\ Len(arrays) \in Nat
      /\ seeds \in SeedsKept /\ seeds.in \in 1 .. Len(arrays)
  BY DEF SweepTypes, InRange, Listed
<1> DEFINE old == arrays[seeds.in]
           fitted == Sweeps!Over(s, old)
           kept == [arrays EXCEPT ![seeds.in] = fitted]
<1>3. old \in SeedList /\ Len(old) \in Nat
  BY <1>2 DEF SeedList
<1>4. fitted \in SeedList /\ Len(fitted) = Len(old)
  <2>1. fitted = [i \in 1 .. Len(old) |-> IF i <= Len(s) THEN s[i] ELSE old[i]]
    BY DEF Sweeps!Over
  <2> HIDE DEF fitted, old
  <2>2. \A i \in 1 .. Len(old) : (IF i <= Len(s) THEN s[i] ELSE old[i]) \in Nat
    BY <1>1, <1>3 DEF SeedList
  <2>3. fitted \in [1 .. Len(old) -> Nat]
    BY <2>1, <2>2
  <2> QED
    BY <1>3, <2>3 DEF SeedList
<1> HIDE DEF old, fitted
<1>5. /\ kept \in Seq(SeedList) /\ Len(kept) = Len(arrays) /\ kept[seeds.in] = fitted
      /\ \A i \in 1 .. Len(arrays) : i # seeds.in => kept[i] = arrays[i]
  BY <1>2, <1>4
<1> HIDE DEF kept
<1>6. \A i \in 1 .. Len(arrays) : Len(kept[i]) = Len(arrays[i])
  BY <1>2, <1>4, <1>5 DEF old
<1>7. ASSUME NEW a \in Seq(SeedList), Len(a) = Len(arrays),
             \A i \in 1 .. Len(arrays) : Len(a[i]) = Len(arrays[i]),
             arrays' = Append(a, s), seeds' = [in |-> Len(arrays'), len |-> Len(s)]
      PROVE  /\ arrays' \in Seq(SeedList) /\ Len(arrays') >= Len(arrays)
             /\ \A i \in 1 .. Len(arrays) : Len(arrays'[i]) = Len(arrays[i])
             /\ seeds' \in SeedsKept /\ seeds'.in \in 1 .. Len(arrays')
             /\ seeds'.len \in 1 .. Len(arrays'[seeds'.in])
  <2> DEFINE n == Len(arrays)
  <2>1. /\ Append(a, s) \in Seq(SeedList) /\ Len(Append(a, s)) = n + 1
        /\ Append(a, s)[n + 1] = s /\ \A i \in 1 .. n : Append(a, s)[i] = a[i]
    <3>1. a \in Seq(SeedList) /\ s \in SeedList /\ Len(a) = n /\ n \in Nat
      BY <1>1, <1>2, <1>7
    <3> HIDE DEF n
    <3> QED
      BY <3>1
  <2>2. seeds'.in = n + 1 /\ seeds'.len = Len(s) /\ seeds' \in SeedsKept
    BY <1>1, <1>2, <1>7, <2>1 DEF SeedsKept
  <2>3. n \in Nat /\ arrays' = Append(a, s)
    BY <1>2, <1>7
  <2>4. \A i \in 1 .. n : Len(arrays'[i]) = Len(arrays[i])
    BY <1>7, <2>1, <2>3
  <2>5. Len(s) \in 1 .. Len(arrays'[n + 1])
    <3>1. arrays'[n + 1] = s
      BY <2>1, <2>3
    <3>2. Len(s) \in Nat /\ Len(s) >= 1
      BY <1>1
    <3>3. Len(s) \in 1 .. Len(s)
      BY <3>2
    <3> QED
      BY <3>1, <3>3
  <2> HIDE DEF n
  <2>6. arrays' \in Seq(SeedList) /\ Len(arrays') = n + 1 /\ n + 1 >= n /\ n + 1 \in 1 .. n + 1
    BY <2>1, <2>3
  <2> QED
    BY <2>2, <2>4, <2>5, <2>6 DEF n
<1>8. CASE Sweeps!DefineSeeds(s)
  <2>1. CASE Len(s) <= Len(old)
    <3>1. arrays' = kept /\ seeds' = [seeds EXCEPT !.len = Len(s)]
      BY <1>8, <2>1 DEF Sweeps!DefineSeeds, kept, fitted, old
    <3>2. seeds'.in = seeds.in /\ seeds'.len = Len(s) /\ seeds' \in SeedsKept
      BY <1>1, <1>2, <3>1 DEF SeedsKept
    <3>3. Len(s) \in 1 .. Len(old) /\ Len(kept[seeds.in]) = Len(old)
      <4>1. Len(s) \in Nat /\ Len(s) >= 1
        BY <1>1
      <4> QED
        BY <1>3, <1>4, <1>5, <2>1, <4>1
    <3> QED
      BY <1>2, <1>5, <1>6, <3>1, <3>2, <3>3
  <2>2. CASE ~(Len(s) <= Len(old))
    <3>1. arrays' = Append(kept, s) /\ seeds' = [in |-> Len(arrays'), len |-> Len(s)]
      BY <1>8, <2>2 DEF Sweeps!DefineSeeds, kept, fitted, old
    <3> QED
      BY <1>5, <1>6, <1>7, <3>1
  <2> QED
    BY <2>1, <2>2
<1>9. CASE Sweeps!SetSeeds(s)
  <2>1. arrays' = Append(arrays, s) /\ seeds' = [in |-> Len(arrays'), len |-> Len(s)]
    BY <1>9 DEF Sweeps!SetSeeds
  <2> QED
    BY <1>2, <1>7, <2>1
<1> QED
  BY <1>8, <1>9

-----------------------------------------------------------------------------
(* The types, action by action.                                             *)
LEMMA Posting ==
  ASSUME SweepTypes, NEW k \in Sweeps!RunId, NEW word \in Sweeps!Verb, Sweeps!Post(k, word)
  PROVE  /\ posts' \in Seq(PostMade) /\ Len(posts') = Len(posts) + 1 /\ Len(posts) \in Nat
         /\ \A i \in 1 .. Len(posts) : posts'[i] = posts[i]
         /\ posts'[Len(posts) + 1] = [by |-> k, verb |-> word]
<1>1. posts \in Seq(PostMade) /\ [by |-> k, verb |-> word] \in PostMade
  BY DEF SweepTypes, PostMade
<1>2. posts' = Append(posts, [by |-> k, verb |-> word])
  BY DEF Sweeps!Post
<1> HIDE DEF PostMade
<1> DEFINE new == [by |-> k, verb |-> word]
<1> HIDE DEF new
<1>3. new \in PostMade /\ posts' = Append(posts, new)
  BY <1>1, <1>2 DEF new
<1>4. /\ posts' \in Seq(PostMade) /\ Len(posts') = Len(posts) + 1 /\ Len(posts) \in Nat
      /\ \A i \in 1 .. Len(posts) : posts'[i] = posts[i]
      /\ posts'[Len(posts) + 1] = new
  BY <1>1, <1>3
<1> QED
  BY <1>4 DEF new

LEMMA Shifting ==
  ASSUME SweepTypes, posts # << >>, posts' = Tail(posts)
  PROVE  /\ posts' \in Seq(PostMade) /\ Len(posts) \in Nat \ {0} /\ Len(posts') = Len(posts) - 1
         /\ \A i \in 1 .. Len(posts') : posts'[i] = posts[i + 1] /\ i + 1 \in 1 .. Len(posts)
<1>1. posts \in Seq(PostMade)
  BY DEF SweepTypes
<1>2. Len(posts) \in Nat \ {0}
  BY <1>1
<1>3. posts' \in Seq(PostMade) /\ Len(posts') = Len(posts) - 1
  BY <1>1
<1>4. \A i \in 1 .. Len(posts') : posts'[i] = posts[i + 1] /\ i + 1 \in 1 .. Len(posts)
  BY <1>1, <1>2, <1>3
<1> QED
  BY <1>2, <1>3, <1>4

LEMMA PostsAre ==
  ASSUME SweepTypes
  PROVE  \A i \in 1 .. Len(posts) : posts[i] \in PostMade /\ posts[i].by \in Sweeps!RunId /\ posts[i].verb \in Sweeps!Verb
<1>1. \A i \in 1 .. Len(posts) : posts[i] \in PostMade
  BY DEF SweepTypes
<1>2. \A p \in PostMade : p.by \in Sweeps!RunId /\ p.verb \in Sweeps!Verb
  BY DEF PostMade
<1> QED
  BY <1>1, <1>2

LEMMA Starting ==
  ASSUME Sweeps!SweepAssumption, SweepTypes, Sweeps!Started
  PROVE  /\ last' = last + 1 /\ last' \in Sweeps!RunId /\ last \in Nat /\ last' \in 0 .. SweepRuns
         /\ last' > last
         /\ sweepPc' \in [Sweeps!RunId -> Place] /\ sweepPc'[last'] = "sending_sim.play"
         /\ \A m \in Sweeps!RunId : m # last' => sweepPc'[m] = sweepPc[m]
<1>1. last < SweepRuns /\ last' = last + 1 /\ Sweeps!Goto(last', "sending_sim.play")
  BY DEF Sweeps!Started
<1>2. last \in Nat /\ SweepRuns \in Nat
  BY RunIdsAre DEF SweepTypes
<1>3. last' \in Sweeps!RunId /\ last' \in 0 .. SweepRuns /\ last' > last
  <2> DEFINE n == last + 1
  <2>4. last < SweepRuns
    BY <1>1
  <2>1. n \in Nat /\ n >= 1 /\ n <= SweepRuns
    BY <1>2, <2>4
  <2>2. n \in Sweeps!RunId /\ n \in 0 .. SweepRuns /\ n > last
    BY <1>2, <2>1, RunIdsAre
  <2>3. last' = n
    BY <1>1
  <2> HIDE DEF n
  <2> QED
    BY <2>2, <2>3
<1>4. "sending_sim.play" \in Place
  BY DEF Place, Working, Asking
<1> QED
  BY <1>1, <1>2, <1>3, <1>4, GoesTo

(* A cell that ends is put at the end of the table. *)
LEMMA Ending ==
  ASSUME Sweeps!SweepAssumption, SweepTypes, InRange, NEW k \in Sweeps!RunId, Sweeps!EndCell(k)
  PROVE  /\ results' \in Seq(Row) /\ Len(results) \in Nat /\ Len(results') = Len(results) + 1
         /\ \A i \in 1 .. Len(results) : results'[i] = results[i]
         /\ results'[Len(results) + 1] =
              [run |-> k, arm |-> heldArms[k][at[k].arm], seed |-> arrays[heldSeeds[k].in][at[k].seed]]
<1> DEFINE row == [run |-> k, arm |-> heldArms[k][at[k].arm], seed |-> arrays[heldSeeds[k].in][at[k].seed]]
<1>1. results' = Append(results, row) /\ sweepPc[k] = "cell"
  BY DEF Sweeps!EndCell
<1>2. at[k] # Sweeps!Nowhere
  BY <1>1 DEF InRange, Reading
<1>4. row \in Row
  BY <1>2, CellIs DEF Row
<1> HIDE DEF row
<1>5. results \in Seq(Row)
  BY DEF SweepTypes
<1>6. results' = Append(results, row)
  BY <1>1
<1> HIDE DEF Row
<1>7. /\ results' \in Seq(Row) /\ Len(results) \in Nat /\ Len(results') = Len(results) + 1
      /\ \A i \in 1 .. Len(results) : results'[i] = results[i]
      /\ results'[Len(results) + 1] = row
  BY <1>4, <1>5, <1>6
<1> QED
  BY <1>7 DEF row

LEMMA SweepTypesRun ==
  ASSUME Sweeps!SweepAssumption, SweepTypes, InRange, NEW k \in Sweeps!RunId, Sweeps!RunExperiment(k)
  PROVE  SweepTypes'
<1>1. {"next", "cell", "sending_job.progress", "sending_sim.pause"} \subseteq Place
  BY DEF Place, Working, Asking, Pausing
<1>2. CASE Sweeps!BeginLoop(k)
  <2>1. Sweeps!Goto(k, "next") /\ heldArms' = [heldArms EXCEPT ![k] = arms]
        /\ UNCHANGED <<Sweeps!matrixVars, Sweeps!tableVars, last, heldSeeds, at, cancelled, posts, Sweeps!worldVars, Sweeps!pastVars>>
    BY <1>2 DEF Sweeps!BeginLoop
  <2>2. sweepPc' \in [Sweeps!RunId -> Place]
    BY <1>1, <2>1, GoesTo
  <2>3. heldArms' \in [Sweeps!RunId -> ArmNames]
    BY <2>1 DEF SweepTypes
  <2> QED
    BY <2>1, <2>2, <2>3 DEF SweepTypes, Sweeps!matrixVars, Sweeps!tableVars, Sweeps!worldVars, Sweeps!pastVars
<1>3. CASE Sweeps!NextCell(k)
  <2>1. /\ Sweeps!Goto(k, "cell") /\ at' = [at EXCEPT ![k] = Sweeps!Ahead(k)]
        /\ heldSeeds' = [heldSeeds EXCEPT ![k] = IF Sweeps!Ahead(k).seed = 1 THEN seeds ELSE @]
        /\ UNCHANGED <<Sweeps!matrixVars, Sweeps!tableVars, last, heldArms, cancelled, posts, Sweeps!worldVars, Sweeps!pastVars>>
    BY <1>3 DEF Sweeps!NextCell
  <2>2. sweepPc' \in [Sweeps!RunId -> Place]
    BY <1>1, <2>1, GoesTo
  <2>3. Sweeps!Ahead(k) \in CellAt
    <3>1. at[k] \in CellAt /\ at[k].arm \in Nat /\ at[k].seed \in Nat
      BY DEF SweepTypes, CellAt
    <3>2. Sweeps!Nowhere \in CellAt
      BY DEF Sweeps!Nowhere, CellAt
    <3>3. \A a, s \in Nat : [arm |-> a, seed |-> s] \in CellAt
      BY DEF CellAt
    <3>4. [at[k] EXCEPT !.seed = @ + 1] \in CellAt
      BY <3>1 DEF CellAt
    <3>5. [arm |-> 1, seed |-> 1] \in CellAt /\ [arm |-> at[k].arm + 1, seed |-> 1] \in CellAt
      BY <3>1, <3>3
    <3>6. \/ Sweeps!Ahead(k) = Sweeps!Nowhere \/ Sweeps!Ahead(k) = [at[k] EXCEPT !.seed = @ + 1]
          \/ Sweeps!Ahead(k) = [arm |-> 1, seed |-> 1] \/ Sweeps!Ahead(k) = [arm |-> at[k].arm + 1, seed |-> 1]
      BY Zenon DEF Sweeps!Ahead
    <3> HIDE DEF CellAt
    <3> QED
      BY <3>2, <3>4, <3>5, <3>6
  <2>4. at' \in [Sweeps!RunId -> CellAt]
    BY <2>1, <2>3 DEF SweepTypes
  <2>5. heldSeeds' \in [Sweeps!RunId -> SeedsKept]
    BY <2>1 DEF SweepTypes
  <2> QED
    BY <2>1, <2>2, <2>4, <2>5 DEF SweepTypes, Sweeps!matrixVars, Sweeps!tableVars, Sweeps!worldVars, Sweeps!pastVars
<1>4. CASE Sweeps!EndCell(k)
  <2>1. /\ Sweeps!Goto(k, "sending_job.progress")
        /\ UNCHANGED <<Sweeps!matrixVars, running, done, last, heldArms, heldSeeds, at, cancelled, posts,
                       Sweeps!worldVars, Sweeps!pastVars>>
    BY <1>4 DEF Sweeps!EndCell
  <2>2. sweepPc' \in [Sweeps!RunId -> Place]
    BY <1>1, <2>1, GoesTo
  <2>3. results' \in Seq(Row)
    BY <1>4, Ending
  <2> QED
    BY <2>1, <2>2, <2>3 DEF SweepTypes, Sweeps!matrixVars, Sweeps!worldVars, Sweeps!pastVars
<1>5. CASE Sweeps!Leave(k)
  <2>1. /\ Sweeps!Goto(k, "sending_sim.pause") /\ done' = "closed"
        /\ UNCHANGED <<Sweeps!matrixVars, results, last, heldArms, heldSeeds, at, cancelled, posts, Sweeps!worldVars,
                       Sweeps!pastVars>>
    BY <1>5 DEF Sweeps!Leave
  <2>2. sweepPc' \in [Sweeps!RunId -> Place]
    BY <1>1, <2>1, GoesTo
  <2>3. running' \in BOOLEAN
    BY <1>5, Zenon DEF Sweeps!Leave
  <2> QED
    BY <2>1, <2>2, <2>3 DEF SweepTypes, Sweeps!matrixVars, Sweeps!worldVars, Sweeps!pastVars
<1>6. ASSUME NEW word \in Sweeps!Verb, Sweeps!Post(k, word) PROVE SweepTypes'
  <2>1. /\ Sweeps!Goto(k, Sweeps!Waiting(word))
        /\ UNCHANGED <<Sweeps!matrixVars, Sweeps!tableVars, last, heldArms, heldSeeds, at, cancelled, Sweeps!worldVars, Sweeps!pastVars>>
    BY <1>6 DEF Sweeps!Post
  <2>2. sweepPc' \in [Sweeps!RunId -> Place]
    BY <2>1, GoesTo, WordsArePlaces
  <2>3. posts' \in Seq(PostMade)
    BY <1>6, Posting
  <2> QED
    BY <2>1, <2>2, <2>3 DEF SweepTypes, Sweeps!matrixVars, Sweeps!tableVars, Sweeps!worldVars, Sweeps!pastVars
<1>7. ASSUME NEW word \in Sweeps!Verb, Sweeps!GiveUp(k, word) PROVE SweepTypes'
  <2>1. /\ Sweeps!Goto(k, Sweeps!After(word))
        /\ UNCHANGED <<Sweeps!matrixVars, Sweeps!tableVars, last, heldArms, heldSeeds, at, cancelled, posts, Sweeps!worldVars,
                       Sweeps!pastVars>>
    BY <1>7 DEF Sweeps!GiveUp
  <2>2. sweepPc' \in [Sweeps!RunId -> Place]
    BY <2>1, GoesTo, WordsArePlaces
  <2> QED
    BY <2>1, <2>2 DEF SweepTypes, Sweeps!matrixVars, Sweeps!tableVars, Sweeps!worldVars, Sweeps!pastVars
<1> QED
  BY <1>2, <1>3, <1>4, <1>5, <1>6, <1>7 DEF Sweeps!RunExperiment

LEMMA SweepTypesVerbs ==
  ASSUME Sweeps!SweepAssumption, SweepTypes, InRange, Sweeps!Verbs
  PROVE  SweepTypes'
<1>1. \A a \in SweepArms : a \in ArmNames
  BY DEF Sweeps!SweepAssumption, ArmNames
<1>2. ASSUME changed' = TRUE PROVE changed' \in BOOLEAN
  BY <1>2, Zenon
<1>3. ASSUME NEW a \in SweepArms, Sweeps!DefineArms(a) PROVE SweepTypes'
  <2>1. /\ arms' = a /\ changed' \in BOOLEAN
        /\ UNCHANGED <<arrays, seeds, Sweeps!tableVars, Sweeps!runVars, posts, Sweeps!worldVars, overlapped>>
    BY <1>2, <1>3 DEF Sweeps!DefineArms, Sweeps!Change
  <2> QED
    BY <1>1, <2>1 DEF SweepTypes, Sweeps!tableVars, Sweeps!runVars, Sweeps!worldVars
<1>4. ASSUME NEW a \in SweepArms, Sweeps!Vary(a) PROVE SweepTypes'
  <2>1. /\ arms' = a /\ changed' \in BOOLEAN /\ results' = << >>
        /\ UNCHANGED <<arrays, seeds, running, done, Sweeps!runVars, posts, Sweeps!worldVars, overlapped>>
    BY <1>2, <1>4 DEF Sweeps!Vary, Sweeps!Change
  <2>2. results' \in Seq(Row)
    BY <2>1
  <2> QED
    BY <1>1, <2>1, <2>2 DEF SweepTypes, Sweeps!runVars, Sweeps!worldVars
<1>5. ASSUME NEW s \in SweepSeeds, Sweeps!DefineSeeds(s) \/ Sweeps!SetSeeds(s) PROVE SweepTypes'
  <2>1. /\ changed' \in BOOLEAN
        /\ UNCHANGED <<arms, Sweeps!tableVars, Sweeps!runVars, posts, Sweeps!worldVars, overlapped>>
    BY <1>2, <1>5 DEF Sweeps!DefineSeeds, Sweeps!SetSeeds, Sweeps!Change
  <2>2. arrays' \in Seq(SeedList) /\ seeds' \in SeedsKept
    BY <1>5, SeedsDefined
  <2> QED
    BY <2>1, <2>2 DEF SweepTypes, Sweeps!tableVars, Sweeps!runVars, Sweeps!worldVars
<1>6. CASE Sweeps!Start
  <2>1. /\ Sweeps!Started /\ results' = << >> /\ done' = "open"
        /\ UNCHANGED <<Sweeps!matrixVars, heldArms, heldSeeds, at, cancelled, posts, sweepPlaying, verdict, changes>>
    BY <1>6 DEF Sweeps!Start, Sweeps!Started
  <2>2. sweepPc' \in [Sweeps!RunId -> Place] /\ last' \in 0 .. SweepRuns /\ last' = last + 1 /\ last \in Nat
    BY <2>1, Starting
  <2>3. results' \in Seq(Row)
    BY <2>1
  <2>4. running' \in BOOLEAN /\ changed' \in BOOLEAN /\ overlapped' \in BOOLEAN /\ job' \in BOOLEAN
    <3>1. overlapped' \in BOOLEAN
      BY <1>6, Zenon DEF Sweeps!Start, Sweeps!Started
    <3> QED
      BY <1>6, <3>1, Zenon DEF Sweeps!Start, Sweeps!Started
  <2>5. cancelled' \subseteq 1 .. last'
    BY <2>1, <2>2 DEF SweepTypes
  <2> QED
    BY <2>1, <2>2, <2>3, <2>4, <2>5 DEF SweepTypes, Sweeps!matrixVars
<1>7. CASE Sweeps!Stop
  <2>1. /\ last > 0 /\ cancelled' = cancelled \cup {last}
        /\ UNCHANGED <<Sweeps!matrixVars, done, results, last, sweepPc, heldArms, heldSeeds, at, posts, sweepPlaying,
                       verdict, Sweeps!pastVars>>
    BY <1>7 DEF Sweeps!Stop
  <2>2. running' \in BOOLEAN /\ job' \in BOOLEAN
    BY <1>7, Zenon DEF Sweeps!Stop
  <2>3. last \in Nat
    BY RunIdsAre DEF SweepTypes
  <2>4. cancelled' \subseteq 1 .. last'
    BY <2>1, <2>3 DEF SweepTypes
  <2> QED
    BY <2>1, <2>2, <2>4 DEF SweepTypes, Sweeps!matrixVars, Sweeps!pastVars
<1>8. CASE Sweeps!Results
  <2>1. UNCHANGED <<Sweeps!matrixVars, Sweeps!tableVars, Sweeps!runVars, posts, sweepPlaying, job, Sweeps!pastVars>>
    BY <1>8 DEF Sweeps!Results
  <2>2. verdict' \in BOOLEAN
    BY <1>8 DEF Sweeps!Results, Sweeps!Concluded
  <2> QED
    BY <2>1, <2>2 DEF SweepTypes, Sweeps!matrixVars, Sweeps!tableVars, Sweeps!runVars, Sweeps!pastVars
<1> QED
  BY <1>3, <1>4, <1>5, <1>6, <1>7, <1>8 DEF Sweeps!Verbs

LEMMA SweepTypesAnswer ==
  ASSUME Sweeps!SweepAssumption, SweepTypes, Sweeps!Answer
  PROVE  SweepTypes'
<1>1. sweepPc' \in [Sweeps!RunId -> Place] /\ Sweeps!Handle(posts[1].verb) /\ posts # << >> /\ posts' = Tail(posts)
  BY Answering
<1>2. posts' \in Seq(PostMade)
  BY <1>1, Shifting
<1>3. sweepPlaying' \in BOOLEAN /\ job' \in BOOLEAN /\ verdict' \in BOOLEAN
  <2>1. sweepPlaying \in BOOLEAN /\ job \in BOOLEAN /\ verdict \in BOOLEAN
    BY DEF SweepTypes
  <2>2. sweepPlaying' \in BOOLEAN /\ job' \in BOOLEAN
    BY <1>1, <2>1, Zenon DEF Sweeps!Handle
  <2>3. verdict' \in BOOLEAN
    BY <1>1, <2>1 DEF Sweeps!Handle, Sweeps!Concluded
  <2> QED
    BY <2>2, <2>3
<1>4. UNCHANGED <<Sweeps!matrixVars, Sweeps!tableVars, last, heldArms, heldSeeds, at, cancelled, Sweeps!pastVars>>
  BY DEF Sweeps!Answer
<1> QED
  BY <1>1, <1>2, <1>3, <1>4 DEF SweepTypes, Sweeps!matrixVars, Sweeps!tableVars, Sweeps!pastVars

LEMMA SweepTypesStay == ASSUME SweepTypes, UNCHANGED Sweeps!vars PROVE SweepTypes'
BY DEF SweepTypes, Sweeps!vars, Sweeps!matrixVars, Sweeps!tableVars, Sweeps!runVars, Sweeps!worldVars, Sweeps!pastVars

(* Running out of time moves nobody.                                        *)
LEMMA LapseMovesNobody ==
  ASSUME NEW k, Sweeps!Lapse(k)
  PROVE  /\ UNCHANGED <<Sweeps!matrixVars, Sweeps!tableVars, Sweeps!runVars, posts, Sweeps!worldVars, changed, overlapped>>
         /\ UNCHANGED <<running, done, results, last, cancelled, sweepPc, heldArms, heldSeeds, at, sweepPlaying, job>>
         /\ lapsed' = lapsed \cup {k}
BY DEF Sweeps!Lapse, Sweeps!tableVars, Sweeps!runVars, Sweeps!worldVars

LEMMA SweepTypesLapse == ASSUME SweepTypes, NEW k, Sweeps!Lapse(k) PROVE SweepTypes'
BY LapseMovesNobody DEF SweepTypes, Sweeps!matrixVars, Sweeps!tableVars, Sweeps!runVars, Sweeps!worldVars

-----------------------------------------------------------------------------
(* What a sweep reads is there: while it goes nowhere, nobody takes it away.*)
LEMMA InRangeKept ==
  ASSUME SweepTypes, InRange, UNCHANGED <<heldArms, heldSeeds, at>>,
         arms' \in SweepArms, Listed(seeds)', seeds'.len > 0,
         Len(arrays') \in Nat, Len(arrays') >= Len(arrays),
         \A i \in 1 .. Len(arrays) : Len(arrays'[i]) = Len(arrays[i]),
         \A k \in Sweeps!RunId : sweepPc'[k] \in NotYet => at[k] = Sweeps!Nowhere,
         \A k \in Sweeps!RunId : sweepPc'[k] = "cell" => at[k] # Sweeps!Nowhere
  PROVE  InRange'
<1>1. Len(arrays) \in Nat
  BY DEF SweepTypes
<1>2. ASSUME NEW k \in Sweeps!RunId PROVE Reading(k)'
  <2>1. Reading(k) /\ heldArms'[k] = heldArms[k] /\ heldSeeds'[k] = heldSeeds[k] /\ at'[k] = at[k]
    BY DEF InRange
  <2>2. Listed(heldSeeds[k])'
    BY <1>1, <2>1 DEF Reading, Listed
  <2>3. sweepPc'[k] \in NotYet => at'[k] = Sweeps!Nowhere
    BY <2>1
  <2>4. sweepPc'[k] = "cell" => at'[k] # Sweeps!Nowhere
    BY <2>1
  <2>5. at'[k] # Sweeps!Nowhere => at'[k].arm \in 1 .. Len(heldArms'[k]) /\ at'[k].seed \in 1 .. heldSeeds'[k].len
    BY <2>1 DEF Reading
  <2>6. NotYet' = NotYet /\ Sweeps!Nowhere' = Sweeps!Nowhere
    BY DEF NotYet, Asking, Sweeps!Nowhere
  <2> QED
    BY <2>2, <2>3, <2>4, <2>5, <2>6 DEF Reading
<1> QED
  BY <1>2 DEF InRange

(* Where nothing is defined, it is only where the sweeps are that counts.   *)
LEMMA InRangeMoves ==
  ASSUME SweepTypes, InRange, UNCHANGED <<Sweeps!matrixVars, heldArms, heldSeeds, at>>,
         \A k \in Sweeps!RunId : sweepPc'[k] \in NotYet => at[k] = Sweeps!Nowhere,
         \A k \in Sweeps!RunId : sweepPc'[k] = "cell" => at[k] # Sweeps!Nowhere
  PROVE  InRange'
<1>1. arms' = arms /\ arrays' = arrays /\ seeds' = seeds
  BY DEF Sweeps!matrixVars
<1>2. Len(arrays) \in Nat /\ Len(arrays) >= Len(arrays)
  BY DEF SweepTypes
<1>3. arms' \in SweepArms /\ Listed(seeds)' /\ seeds'.len > 0
  BY <1>1 DEF InRange, Listed
<1> QED
  BY <1>1, <1>2, <1>3, InRangeKept

(* The cell ahead is one of those there are. *)
LEMMA AheadIs ==
  ASSUME Sweeps!SweepAssumption, SweepTypes, InRange, NEW k \in Sweeps!RunId, Sweeps!Ahead(k) # Sweeps!Nowhere,
         NEW s, s = IF Sweeps!Ahead(k).seed = 1 THEN seeds ELSE heldSeeds[k]
  PROVE  /\ Listed(s)
         /\ Sweeps!Ahead(k).arm \in 1 .. Len(heldArms[k])
         /\ Sweeps!Ahead(k).seed \in 1 .. s.len
<1>1. /\ heldArms[k] \in ArmNames /\ Len(heldArms[k]) \in Nat /\ Reading(k)
      /\ Listed(seeds) /\ seeds.len > 0 /\ seeds.len \in Nat /\ heldSeeds[k].len \in Nat
  BY DEF SweepTypes, InRange, SeedsKept, ArmNames
<1>2. heldArms[k] # << >> /\ Len(heldArms[k]) >= 1
  <2>1. heldArms[k] # << >>
    BY DEF Sweeps!Ahead
  <2> QED
    BY <1>1, <2>1 DEF ArmNames
<1>3. CASE at[k] = Sweeps!Nowhere
  <2>1. Sweeps!Ahead(k) = [arm |-> 1, seed |-> 1]
    BY <1>2, <1>3 DEF Sweeps!Ahead
  <2>2. Sweeps!Ahead(k).arm = 1 /\ Sweeps!Ahead(k).seed = 1
    BY <2>1
  <2> QED
    BY <1>1, <1>2, <2>2
<1>4. CASE at[k] # Sweeps!Nowhere /\ at[k].seed < heldSeeds[k].len
  <2>1. Sweeps!Ahead(k) = [at[k] EXCEPT !.seed = @ + 1]
    BY <1>2, <1>4 DEF Sweeps!Ahead
  <2>2. at[k] \in CellAt /\ at[k].arm \in 1 .. Len(heldArms[k]) /\ at[k].seed \in 1 .. heldSeeds[k].len
    BY <1>1, <1>4 DEF Reading, SweepTypes
  <2>3. Sweeps!Ahead(k).arm = at[k].arm /\ Sweeps!Ahead(k).seed = at[k].seed + 1
    BY <2>1, <2>2 DEF CellAt
  <2>4. s = heldSeeds[k]
    <3>1. Sweeps!Ahead(k).seed # 1
      BY <1>1, <2>2, <2>3
    <3> QED
      BY <3>1
  <2>5. Sweeps!Ahead(k).seed \in 1 .. heldSeeds[k].len
    BY <1>1, <1>4, <2>2, <2>3
  <2> QED
    BY <1>1, <2>2, <2>3, <2>4, <2>5 DEF Reading
<1>5. CASE at[k] # Sweeps!Nowhere /\ ~(at[k].seed < heldSeeds[k].len)
  <2>1. Sweeps!Ahead(k) = [arm |-> at[k].arm + 1, seed |-> 1] /\ at[k].arm < Len(heldArms[k])
    BY <1>2, <1>5 DEF Sweeps!Ahead
  <2>2. Sweeps!Ahead(k).arm = at[k].arm + 1 /\ Sweeps!Ahead(k).seed = 1
    BY <2>1
  <2>3. at[k].arm \in 1 .. Len(heldArms[k])
    BY <1>1, <1>5 DEF Reading
  <2>4. Sweeps!Ahead(k).arm \in 1 .. Len(heldArms[k])
    BY <1>1, <2>1, <2>2, <2>3
  <2>5. s = seeds
    BY <2>2
  <2> QED
    BY <1>1, <2>2, <2>4, <2>5
<1> QED
  BY <1>3, <1>4, <1>5

LEMMA InRangeNextCell ==
  ASSUME Sweeps!SweepAssumption, SweepTypes, InRange, NEW k \in Sweeps!RunId, Sweeps!NextCell(k)
  PROVE  InRange'
<1>1. /\ Sweeps!Ahead(k) # Sweeps!Nowhere /\ Sweeps!Goto(k, "cell") /\ at' = [at EXCEPT ![k] = Sweeps!Ahead(k)]
      /\ heldSeeds' = [heldSeeds EXCEPT ![k] = IF Sweeps!Ahead(k).seed = 1 THEN seeds ELSE @]
      /\ UNCHANGED <<Sweeps!matrixVars, heldArms>>
  BY DEF Sweeps!NextCell
<1> DEFINE s == IF Sweeps!Ahead(k).seed = 1 THEN seeds ELSE heldSeeds[k]
<1>2. Listed(s) /\ Sweeps!Ahead(k).arm \in 1 .. Len(heldArms[k]) /\ Sweeps!Ahead(k).seed \in 1 .. s.len
  BY <1>1, AheadIs
<1>3. arms' = arms /\ arrays' = arrays /\ seeds' = seeds /\ heldArms' = heldArms
  BY <1>1 DEF Sweeps!matrixVars
<1>4. /\ heldSeeds'[k] = s /\ \A m \in Sweeps!RunId : m # k => heldSeeds'[m] = heldSeeds[m]
      /\ at'[k] = Sweeps!Ahead(k) /\ \A m \in Sweeps!RunId : m # k => at'[m] = at[m]
  BY <1>1 DEF SweepTypes
<1> HIDE DEF s
<1>5. "cell" \in Place
  BY DEF Place, Working
<1>6. sweepPc'[k] = "cell" /\ \A m \in Sweeps!RunId : m # k => sweepPc'[m] = sweepPc[m]
  BY <1>1, <1>5, GoesTo
<1>7. "cell" \notin NotYet
  BY DEF NotYet, Asking
<1>8. Reading(k)'
  <2>1. Listed(heldSeeds[k])'
    BY <1>2, <1>3, <1>4 DEF Listed
  <2>2. Sweeps!Nowhere' = Sweeps!Nowhere /\ NotYet' = NotYet
    BY DEF Sweeps!Nowhere, NotYet, Asking
  <2> QED
    BY <1>1, <1>2, <1>3, <1>4, <1>6, <1>7, <2>1, <2>2 DEF Reading
<1>9. ASSUME NEW m \in Sweeps!RunId, m # k PROVE Reading(m)'
  <2>1. Reading(m) /\ sweepPc'[m] = sweepPc[m] /\ at'[m] = at[m] /\ heldSeeds'[m] = heldSeeds[m]
    BY <1>4, <1>6, <1>9 DEF InRange
  <2>2. Sweeps!Nowhere' = Sweeps!Nowhere /\ NotYet' = NotYet
    BY DEF Sweeps!Nowhere, NotYet, Asking
  <2>3. Listed(heldSeeds[m])'
    BY <1>3, <2>1 DEF Reading, Listed
  <2> QED
    BY <1>3, <2>1, <2>2, <2>3 DEF Reading
<1>10. arms' \in SweepArms /\ Listed(seeds)' /\ seeds'.len > 0
  BY <1>3 DEF InRange, Listed
<1> QED
  BY <1>8, <1>9, <1>10 DEF InRange

(* The words of a verb are all of the working or none: none for the last    *)
(* two.  And a sweep only comes to its loop from asking for the clock.      *)
LEMMA Classes ==
  ASSUME NEW word \in Sweeps!Verb
  PROVE  /\ Sweeps!Sending(word) \notin {"off", "loop", "next", "cell", "gone"}
         /\ Sweeps!Waiting(word) \notin {"off", "loop", "next", "cell", "gone"}
         /\ Sweeps!After(word) \notin {"off", "cell"} \cup Asking
         /\ Sweeps!Sending(word) \in Asking <=> word = "sim.play"
         /\ Sweeps!Waiting(word) \in Asking <=> word = "sim.play"
         /\ Sweeps!After(word) = "loop" <=> word = "sim.play"
         /\ Sweeps!After(word) = "gone" <=> word = "experiment.finished"
         /\ Sweeps!Sending(word) \in Working <=> word \notin LastWord
         /\ Sweeps!Waiting(word) \in Working <=> word \notin LastWord
         /\ Sweeps!After(word) \in Working <=> word \notin LastWord
<1>1. word \in {"sim.play", "job.progress", "experiment.results", "sim.pause", "experiment.finished"}
  BY VerbIs
<1>2. CASE word = "sim.play"
  BY <1>2, WordsOf, Afterwards DEF LastWord, Working, Asking
<1>3. CASE word = "job.progress"
  BY <1>3, WordsOf, Afterwards DEF LastWord, Working, Asking
<1>4. CASE word = "experiment.results"
  BY <1>4, WordsOf, Afterwards DEF LastWord, Working, Asking
<1>5. CASE word = "sim.pause"
  BY <1>5, WordsOf, Afterwards DEF LastWord, Working, Asking
<1>6. CASE word = "experiment.finished"
  BY <1>6, WordsOf, Afterwards DEF LastWord, Working, Asking
<1> QED
  BY <1>1, <1>2, <1>3, <1>4, <1>5, <1>6

LEMMA PlacesAre ==
  /\ NotYet = {"off", "loop", "sending_sim.play", "waiting_sim.play"}
  /\ {"loop", "next", "cell", "sending_job.progress", "sending_sim.play"} \subseteq Working
  /\ {"off", "gone", "sending_sim.pause"} \cap Working = {}
  /\ Asking \subseteq Working
  /\ "off" \notin Working \cup Pausing /\ "gone" \notin Working \cup Pausing
BY DEF NotYet, Asking, Working, Pausing

LEMMA InRangeRun ==
  ASSUME Sweeps!SweepAssumption, SweepTypes, InRange, NEW k \in Sweeps!RunId, Sweeps!RunExperiment(k)
  PROVE  InRange'
<1>1. \A m \in Sweeps!RunId : (sweepPc[m] \in NotYet => at[m] = Sweeps!Nowhere) /\ (sweepPc[m] = "cell" => at[m] # Sweeps!Nowhere)
  BY DEF InRange, Reading
<1>2. CASE Sweeps!BeginLoop(k)
  <2>1. /\ sweepPc[k] = "loop" /\ Sweeps!Goto(k, "next") /\ heldArms' = [heldArms EXCEPT ![k] = arms]
        /\ UNCHANGED <<Sweeps!matrixVars, heldSeeds, at>>
    BY <1>2 DEF Sweeps!BeginLoop
  <2>2. arms' = arms /\ arrays' = arrays /\ seeds' = seeds
    BY <2>1 DEF Sweeps!matrixVars
  <2>3. "next" \in Place
    BY DEF Place, Working
  <2>4. sweepPc'[k] = "next" /\ \A m \in Sweeps!RunId : m # k => sweepPc'[m] = sweepPc[m]
    BY <2>1, <2>3, GoesTo
  <2>5. \A m \in Sweeps!RunId : m # k => heldArms'[m] = heldArms[m]
    BY <2>1 DEF SweepTypes
  <2>6. Sweeps!Nowhere' = Sweeps!Nowhere /\ NotYet' = NotYet /\ "next" \notin NotYet /\ "loop" \in NotYet
    BY DEF Sweeps!Nowhere, NotYet, Asking
  <2>7. ASSUME NEW m \in Sweeps!RunId PROVE Reading(m)'
    <3>1. Listed(heldSeeds[m])'
      BY <2>1, <2>2 DEF InRange, Reading, Listed
    <3>2. Reading(m) /\ at'[m] = at[m] /\ heldSeeds'[m] = heldSeeds[m]
      BY <2>1 DEF InRange
    <3>3. CASE m = k
      <4>1. at'[m] = Sweeps!Nowhere'
        BY <1>1, <2>1, <2>6, <3>2, <3>3
      <4> QED
        BY <2>4, <2>6, <3>1, <3>3, <4>1 DEF Reading
    <3>4. CASE m # k
      BY <2>4, <2>5, <2>6, <3>1, <3>2, <3>4 DEF Reading
    <3> QED
      BY <3>3, <3>4
  <2>8. arms' \in SweepArms /\ Listed(seeds)' /\ seeds'.len > 0
    BY <2>2 DEF InRange, Listed
  <2> QED
    BY <2>7, <2>8 DEF InRange
<1>3. CASE Sweeps!NextCell(k)
  BY <1>3, InRangeNextCell
<1>4. ASSUME NEW place \in Place, Sweeps!Goto(k, place), place \notin NotYet, place # "cell",
             UNCHANGED <<Sweeps!matrixVars, heldArms, heldSeeds, at>>
      PROVE  InRange'
  <2>1. sweepPc'[k] = place /\ \A m \in Sweeps!RunId : m # k => sweepPc'[m] = sweepPc[m]
    BY <1>4, GoesTo
  <2> QED
    BY <1>1, <1>4, <2>1, InRangeMoves
<1>5. CASE Sweeps!EndCell(k)
  <2>1. Sweeps!Goto(k, "sending_job.progress") /\ UNCHANGED <<Sweeps!matrixVars, heldArms, heldSeeds, at>>
    BY <1>5 DEF Sweeps!EndCell
  <2>2. "sending_job.progress" \in Place /\ "sending_job.progress" \notin NotYet
    BY PlacesAre DEF Place, Working
  <2> QED
    BY <1>4, <2>1, <2>2
<1>6. CASE Sweeps!Leave(k)
  <2>1. Sweeps!Goto(k, "sending_sim.pause") /\ UNCHANGED <<Sweeps!matrixVars, heldArms, heldSeeds, at>>
    BY <1>6 DEF Sweeps!Leave
  <2> QED
    BY <1>4, <2>1, PlacesAre DEF Place, Pausing
<1>7. ASSUME NEW word \in Sweeps!Verb, NEW place \in Place, Sweeps!Goto(k, place), place = Sweeps!Waiting(word) \/ place = Sweeps!After(word),
             sweepPc[k] \in {Sweeps!Sending(word), Sweeps!Waiting(word)}, UNCHANGED <<Sweeps!matrixVars, heldArms, heldSeeds, at>>
      PROVE  InRange'
  <2>1. CASE word = "sim.play"
    <3>1. sweepPc[k] \in NotYet
      BY <1>7, <2>1, WordsOf DEF NotYet, Asking
    <3>2. place # "cell" /\ at[k] = Sweeps!Nowhere
      BY <1>1, <1>7, <3>1, Classes
    <3>3. sweepPc'[k] = place /\ \A m \in Sweeps!RunId : m # k => sweepPc'[m] = sweepPc[m]
      BY <1>7, GoesTo
    <3> QED
      BY <1>1, <1>7, <3>2, <3>3, InRangeMoves
  <2>2. CASE word # "sim.play"
    <3>1. place \notin NotYet /\ place # "cell"
      BY <1>7, <2>2, Classes DEF NotYet
    <3> QED
      BY <1>4, <1>7, <3>1
  <2> QED
    BY <2>1, <2>2
<1>8. ASSUME NEW word \in Sweeps!Verb, Sweeps!Post(k, word) PROVE InRange'
  <2>1. /\ sweepPc[k] = Sweeps!Sending(word) /\ Sweeps!Goto(k, Sweeps!Waiting(word))
        /\ UNCHANGED <<Sweeps!matrixVars, heldArms, heldSeeds, at>>
    BY <1>8 DEF Sweeps!Post
  <2> QED
    BY <1>7, <2>1, WordsArePlaces
<1>9. ASSUME NEW word \in Sweeps!Verb, Sweeps!GiveUp(k, word) PROVE InRange'
  <2>1. /\ sweepPc[k] \in {Sweeps!Sending(word), Sweeps!Waiting(word)} /\ Sweeps!Goto(k, Sweeps!After(word))
        /\ UNCHANGED <<Sweeps!matrixVars, heldArms, heldSeeds, at>>
    BY <1>9 DEF Sweeps!GiveUp
  <2> QED
    BY <1>7, <2>1, WordsArePlaces
<1> QED
  BY <1>2, <1>3, <1>5, <1>6, <1>8, <1>9 DEF Sweeps!RunExperiment

LEMMA InRangeStep ==
  ASSUME Sweeps!SweepAssumption, SweepTypes, InRange, Holder, [Sweeps!Next]_(Sweeps!vars)
  PROVE  InRange'
<1>1. \A m \in Sweeps!RunId : (sweepPc[m] \in NotYet => at[m] = Sweeps!Nowhere) /\ (sweepPc[m] = "cell" => at[m] # Sweeps!Nowhere)
  BY DEF InRange, Reading
<1>2. /\ Len(arrays) \in Nat /\ Len(arrays) >= Len(arrays)
      /\ \A i \in 1 .. Len(arrays) : Len(arrays[i]) = Len(arrays[i])
  BY DEF SweepTypes
<1>3. ASSUME NEW a \in SweepArms, Sweeps!DefineArms(a) \/ Sweeps!Vary(a) PROVE InRange'
  <2>1. /\ arms' = a /\ arrays' = arrays /\ seeds' = seeds
        /\ sweepPc' = sweepPc /\ heldArms' = heldArms /\ heldSeeds' = heldSeeds /\ at' = at
    BY <1>3 DEF Sweeps!DefineArms, Sweeps!Vary, Sweeps!runVars
  <2>2. Listed(seeds)' /\ seeds'.len > 0
    BY <2>1 DEF InRange, Listed
  <2> QED
    BY <1>1, <1>2, <2>1, <2>2, InRangeKept
<1>4. ASSUME NEW s \in SweepSeeds, Sweeps!DefineSeeds(s) \/ Sweeps!SetSeeds(s) PROVE InRange'
  <2>1. /\ arms' = arms /\ sweepPc' = sweepPc /\ heldArms' = heldArms /\ heldSeeds' = heldSeeds /\ at' = at
    BY <1>4 DEF Sweeps!DefineSeeds, Sweeps!SetSeeds, Sweeps!runVars
  <2>2. /\ arrays' \in Seq(SeedList) /\ Len(arrays') >= Len(arrays)
        /\ \A i \in 1 .. Len(arrays) : Len(arrays'[i]) = Len(arrays[i])
        /\ seeds'.in \in 1 .. Len(arrays') /\ seeds'.len \in 1 .. Len(arrays'[seeds'.in])
    BY <1>4, SeedsDefined
  <2>3. Len(arrays') \in Nat
    BY <2>2
  <2>4. Listed(seeds)' /\ seeds'.len > 0
    <3>1. arrays'[seeds'.in] \in SeedList
      BY <2>2
    <3>2. Len(arrays'[seeds'.in]) \in Nat
      BY <3>1 DEF SeedList
    <3> QED
      BY <2>2, <3>2 DEF Listed
  <2>5. arms' \in SweepArms
    BY <2>1 DEF InRange
  <2> QED
    BY <1>1, <2>1, <2>2, <2>3, <2>4, <2>5, InRangeKept
<1>5. CASE Sweeps!Start
  <2>1. Sweeps!Started /\ UNCHANGED <<Sweeps!matrixVars, heldArms, heldSeeds, at>>
    BY <1>5 DEF Sweeps!Start
  <2>2. /\ last' \in Sweeps!RunId /\ last' > last /\ sweepPc'[last'] = "sending_sim.play"
        /\ \A m \in Sweeps!RunId : m # last' => sweepPc'[m] = sweepPc[m]
    BY <2>1, Starting
  <2>3. sweepPc[last'] = "off"
    BY <2>2 DEF Holder
  <2>4. at[last'] = Sweeps!Nowhere
    BY <1>1, <2>2, <2>3, PlacesAre
  <2> QED
    BY <1>1, <2>1, <2>2, <2>4, InRangeMoves
<1>6. CASE Sweeps!Stop \/ Sweeps!Results \/ UNCHANGED Sweeps!vars
  <2>1. sweepPc' = sweepPc /\ UNCHANGED <<Sweeps!matrixVars, heldArms, heldSeeds, at>>
    BY <1>6 DEF Sweeps!Stop, Sweeps!Results, Sweeps!vars, Sweeps!runVars
  <2> QED
    BY <1>1, <2>1, InRangeMoves
<1>7. CASE Sweeps!Answer
  <2> DEFINE k == posts[1].by
             word == posts[1].verb
  <2>1. UNCHANGED <<Sweeps!matrixVars, heldArms, heldSeeds, at>>
    BY <1>7 DEF Sweeps!Answer
  <2>2. /\ k \in Sweeps!RunId /\ word \in Sweeps!Verb
        /\ sweepPc'[k] = IF sweepPc[k] = Sweeps!Waiting(word) THEN Sweeps!After(word) ELSE sweepPc[k]
        /\ \A m \in Sweeps!RunId : m # k => sweepPc'[m] = sweepPc[m]
    BY <1>7, Answering
  <2> HIDE DEF k, word
  <2>3. (sweepPc'[k] \in NotYet => at[k] = Sweeps!Nowhere) /\ (sweepPc'[k] = "cell" => at[k] # Sweeps!Nowhere)
    <3>1. CASE sweepPc[k] = Sweeps!Waiting(word)
      <4>1. sweepPc'[k] = Sweeps!After(word) /\ Sweeps!After(word) # "cell"
        BY <2>2, <3>1, Classes
      <4>2. Sweeps!After(word) \in NotYet => Sweeps!Waiting(word) \in NotYet
        BY <2>2, Classes DEF NotYet
      <4> QED
        BY <1>1, <2>2, <3>1, <4>1, <4>2
    <3>2. CASE sweepPc[k] # Sweeps!Waiting(word)
      BY <1>1, <2>2, <3>2
    <3> QED
      BY <3>1, <3>2
  <2> QED
    BY <1>1, <2>1, <2>2, <2>3, InRangeMoves
<1>8. ASSUME NEW k \in Sweeps!RunId, Sweeps!Lapse(k) PROVE InRange'
  <2>1. sweepPc' = sweepPc /\ UNCHANGED <<Sweeps!matrixVars, heldArms, heldSeeds, at>>
    BY <1>8, LapseMovesNobody
  <2> QED
    BY <1>1, <2>1, InRangeMoves
<1> QED
  BY <1>3, <1>4, <1>5, <1>6, <1>7, <1>8, InRangeRun DEF Sweeps!Next, Sweeps!Verbs

LEMMA SweepTypesStep ==
  ASSUME Sweeps!SweepAssumption, SweepTypes, InRange, [Sweeps!Next]_(Sweeps!vars)
  PROVE  SweepTypes'
BY SweepTypesRun, SweepTypesVerbs, SweepTypesAnswer, SweepTypesLapse, SweepTypesStay DEF Sweeps!Next

-----------------------------------------------------------------------------
(* Whose the table is stays the same while nobody starts or lets go of it.  *)
LEMMA HolderKept ==
  ASSUME SweepTypes, Holder, UNCHANGED <<running, done, last>>, cancelled' = cancelled,
         Sweeps!TableIsOfOneSweep',
         \A k \in Sweeps!RunId : sweepPc'[k] = "off" <=> sweepPc[k] = "off",
         \A k \in Sweeps!RunId : sweepPc'[k] \in Working <=> sweepPc[k] \in Working
  PROVE  Holder'
<1>1. Working' = Working
  BY DEF Working, Asking
<1> QED
  BY <1>1 DEF Holder

LEMMA HolderRun ==
  ASSUME Sweeps!SweepAssumption, SweepTypes, InRange, Holder, NEW k \in Sweeps!RunId, Sweeps!RunExperiment(k)
  PROVE  Holder'
<1>1. ASSUME NEW place \in Place, Sweeps!Goto(k, place), place # "off", sweepPc[k] # "off",
             place \in Working <=> sweepPc[k] \in Working, UNCHANGED <<running, done, last, cancelled>>,
             Sweeps!TableIsOfOneSweep'
      PROVE  Holder'
  <2>1. sweepPc'[k] = place /\ \A m \in Sweeps!RunId : m # k => sweepPc'[m] = sweepPc[m]
    BY <1>1, GoesTo
  <2>2. \A m \in Sweeps!RunId : sweepPc'[m] = "off" <=> sweepPc[m] = "off"
    BY <1>1, <2>1
  <2>3. \A m \in Sweeps!RunId : sweepPc'[m] \in Working <=> sweepPc[m] \in Working
    BY <1>1, <2>1
  <2> QED
    BY <1>1, <2>2, <2>3, HolderKept
<1>2. {"next", "cell", "sending_job.progress", "sending_sim.pause"} \subseteq Place
  BY DEF Place, Working, Pausing
<1>3. UNCHANGED <<results, last>> => Sweeps!TableIsOfOneSweep'
  BY DEF Holder, Sweeps!TableIsOfOneSweep
<1>4. CASE Sweeps!BeginLoop(k)
  <2>1. sweepPc[k] = "loop" /\ Sweeps!Goto(k, "next") /\ UNCHANGED <<running, done, results, last, cancelled>>
    BY <1>4 DEF Sweeps!BeginLoop, Sweeps!tableVars
  <2> QED
    BY <1>1, <1>2, <1>3, <2>1, PlacesAre
<1>5. CASE Sweeps!NextCell(k)
  <2>1. sweepPc[k] = "next" /\ Sweeps!Goto(k, "cell") /\ UNCHANGED <<running, done, results, last, cancelled>>
    BY <1>5 DEF Sweeps!NextCell, Sweeps!tableVars
  <2> QED
    BY <1>1, <1>2, <1>3, <2>1, PlacesAre
<1>6. CASE Sweeps!EndCell(k)
  <2>1. Sweeps!Goto(k, "sending_job.progress") /\ sweepPc[k] = "cell" /\ UNCHANGED <<running, done, last, cancelled>>
    BY <1>6 DEF Sweeps!EndCell
  <2>2. k = last
    BY <2>1, PlacesAre DEF Holder
  <2>5. Len(results) \in Nat /\ Len(results') = Len(results) + 1
    BY <1>6, Ending
  <2>6. results'[Len(results) + 1].run = k /\ \A i \in 1 .. Len(results) : results'[i] = results[i]
    <3> DEFINE row == [run |-> k, arm |-> heldArms[k][at[k].arm], seed |-> arrays[heldSeeds[k].in][at[k].seed]]
    <3>1. row.run = k
      OBVIOUS
    <3>2. results'[Len(results) + 1] = row /\ \A i \in 1 .. Len(results) : results'[i] = results[i]
      BY <1>6, Ending
    <3> HIDE DEF row
    <3> QED
      BY <3>1, <3>2
  <2>7. ASSUME NEW i \in 1 .. Len(results') PROVE results'[i].run = last
    <3>1. i \in 1 .. Len(results) \/ i = Len(results) + 1
      BY <2>5
    <3>2. ASSUME i \in 1 .. Len(results) PROVE results'[i].run = last
      BY <2>6, <3>2 DEF Holder, Sweeps!TableIsOfOneSweep
    <3>3. ASSUME i = Len(results) + 1 PROVE results'[i].run = last
      BY <2>2, <2>6, <3>3
    <3> QED
      BY <3>1, <3>2, <3>3
  <2>8. Sweeps!TableIsOfOneSweep'
    BY <2>1, <2>7 DEF Sweeps!TableIsOfOneSweep
  <2> QED
    BY <1>1, <1>2, <2>1, <2>8, PlacesAre
<1>7. CASE Sweeps!Leave(k)
  <2>1. /\ sweepPc[k] = "next" /\ Sweeps!Goto(k, "sending_sim.pause") /\ done' = "closed" /\ running' = FALSE
        /\ UNCHANGED <<results, last, cancelled>>
    BY <1>7 DEF Sweeps!Leave
  <2>2. k = last
    BY <2>1, PlacesAre DEF Holder
  <2>3. sweepPc'[k] = "sending_sim.pause" /\ \A m \in Sweeps!RunId : m # k => sweepPc'[m] = sweepPc[m]
    BY <1>2, <2>1, GoesTo
  <2>4. \A m \in Sweeps!RunId : sweepPc'[m] \notin Working
    BY <2>2, <2>3, PlacesAre DEF Holder
  <2>5. \A m \in Sweeps!RunId : sweepPc'[m] = "off" <=> sweepPc[m] = "off"
    BY <2>1, <2>3
  <2>6. Working' = Working /\ last # 0
    BY <2>2, RunIdsAre DEF Working, Asking
  <2>7. ~running'
    BY <2>1
  <2> QED
    BY <1>3, <2>1, <2>4, <2>5, <2>6, <2>7 DEF Holder
<1>8. ASSUME NEW word \in Sweeps!Verb, Sweeps!Post(k, word) PROVE Holder'
  <2>1. /\ sweepPc[k] = Sweeps!Sending(word) /\ Sweeps!Goto(k, Sweeps!Waiting(word))
        /\ UNCHANGED <<running, done, results, last, cancelled>>
    BY <1>8 DEF Sweeps!Post, Sweeps!tableVars
  <2> QED
    BY <1>1, <1>3, <2>1, Classes, WordsArePlaces
<1>9. ASSUME NEW word \in Sweeps!Verb, Sweeps!GiveUp(k, word) PROVE Holder'
  <2>1. /\ sweepPc[k] \in {Sweeps!Sending(word), Sweeps!Waiting(word)} /\ Sweeps!Goto(k, Sweeps!After(word))
        /\ UNCHANGED <<running, done, results, last, cancelled>>
    BY <1>9 DEF Sweeps!GiveUp, Sweeps!tableVars
  <2> QED
    BY <1>1, <1>3, <2>1, Classes, WordsArePlaces
<1> QED
  BY <1>4, <1>5, <1>6, <1>7, <1>8, <1>9 DEF Sweeps!RunExperiment

LEMMA HolderStep ==
  ASSUME Sweeps!SweepAssumption, SweepTypes, InRange, Holder, [Sweeps!Next]_(Sweeps!vars)
  PROVE  Holder'
<1>1. UNCHANGED <<results, last>> => Sweeps!TableIsOfOneSweep'
  BY DEF Holder, Sweeps!TableIsOfOneSweep
<1>2. results' = << >> => Sweeps!TableIsOfOneSweep'
  BY DEF Sweeps!TableIsOfOneSweep
<1>3. ASSUME UNCHANGED <<running, done, last>>, cancelled' = cancelled, sweepPc' = sweepPc, Sweeps!TableIsOfOneSweep'
      PROVE  Holder'
  BY <1>3, HolderKept
<1>4. ASSUME NEW a \in SweepArms, Sweeps!DefineArms(a) \/ Sweeps!Vary(a) PROVE Holder'
  <2>1. UNCHANGED <<running, done, last>> /\ cancelled' = cancelled /\ sweepPc' = sweepPc
    BY <1>4 DEF Sweeps!DefineArms, Sweeps!Vary, Sweeps!tableVars, Sweeps!runVars
  <2>2. results' = << >> \/ results' = results
    BY <1>4 DEF Sweeps!DefineArms, Sweeps!Vary, Sweeps!tableVars
  <2> QED
    BY <1>1, <1>2, <1>3, <2>1, <2>2
<1>5. ASSUME NEW s \in SweepSeeds, Sweeps!DefineSeeds(s) \/ Sweeps!SetSeeds(s) PROVE Holder'
  <2>1. UNCHANGED <<running, done, last, results>> /\ cancelled' = cancelled /\ sweepPc' = sweepPc
    BY <1>5 DEF Sweeps!DefineSeeds, Sweeps!SetSeeds, Sweeps!tableVars, Sweeps!runVars
  <2> QED
    BY <1>1, <1>3, <2>1
<1>6. CASE Sweeps!Start
  <2>1. Sweeps!Started /\ ~running /\ done # "open" /\ results' = << >> /\ done' = "open" /\ cancelled' = cancelled
    BY <1>6 DEF Sweeps!Start, Sweeps!Started
  <2>2. /\ last' = last + 1 /\ last' \in Sweeps!RunId /\ last \in Nat /\ last' > last /\ sweepPc'[last'] = "sending_sim.play"
        /\ \A m \in Sweeps!RunId : m # last' => sweepPc'[m] = sweepPc[m]
    BY <2>1, Starting
  <2>3. \A m \in Sweeps!RunId : sweepPc[m] \notin Working /\ (sweepPc[m] = "off" <=> m > last)
    BY <2>1 DEF Holder
  <2>4. "sending_sim.play" \in Working /\ Working' = Working
    BY PlacesAre DEF Working, Asking
  <2>5. \A m \in Sweeps!RunId : sweepPc'[m] = "off" <=> m > last'
    <3> DEFINE n == last'
    <3>1. n = last + 1 /\ last \in Nat
      BY <2>2
    <3>2. \A m \in Sweeps!RunId : m \in Nat
      BY RunIdsAre
    <3>3. sweepPc'[n] = "sending_sim.play" /\ \A m \in Sweeps!RunId : m # n => sweepPc'[m] = sweepPc[m]
      BY <2>2
    <3> HIDE DEF n
    <3>4. \A m \in Sweeps!RunId : m # n => (m > last <=> m > n)
      BY <3>1, <3>2
    <3>5. \A m \in Sweeps!RunId : sweepPc'[m] = "off" <=> m > n
      <4>1. \A m \in Sweeps!RunId : m # n => (sweepPc'[m] = "off" <=> m > n)
        BY <2>3, <3>3, <3>4
      <4>2. ~(n > n)
        BY <3>1
      <4>3. sweepPc'[n] # "off"
        BY <3>3
      <4> QED
        BY <4>1, <4>2, <4>3
    <3> QED
      BY <3>5 DEF n
  <2>6. \A m \in Sweeps!RunId : sweepPc'[m] \in Working => m = last'
    BY <2>2, <2>3
  <2>7. last' \notin cancelled'
    <3> DEFINE n == last'
    <3>1. n = last + 1 /\ last \in Nat /\ cancelled \subseteq 1 .. last
      BY <2>2 DEF SweepTypes
    <3> HIDE DEF n
    <3>2. n \notin cancelled
      BY <3>1
    <3> QED
      BY <2>1, <3>2 DEF n
  <2>8. last' # 0
    <3> DEFINE n == last'
    <3>1. n = last + 1 /\ last \in Nat
      BY <2>2
    <3> HIDE DEF n
    <3>2. n # 0
      BY <3>1
    <3> QED
      BY <3>2 DEF n
  <2>9. Sweeps!TableIsOfOneSweep'
    BY <1>2, <2>1
  <2> QED
    BY <2>1, <2>2, <2>4, <2>5, <2>6, <2>7, <2>8, <2>9 DEF Holder
<1>7. CASE Sweeps!Stop
  <2>1. running' = FALSE /\ UNCHANGED <<done, results, last, sweepPc>>
    BY <1>7 DEF Sweeps!Stop
  <2>2. Working' = Working
    BY DEF Working, Asking
  <2> QED
    BY <1>1, <2>1, <2>2 DEF Holder
<1>8. CASE Sweeps!Results \/ UNCHANGED Sweeps!vars
  <2>1. UNCHANGED <<running, done, last, results>> /\ cancelled' = cancelled /\ sweepPc' = sweepPc
    BY <1>8 DEF Sweeps!Results, Sweeps!vars, Sweeps!tableVars, Sweeps!runVars
  <2> QED
    BY <1>1, <1>3, <2>1
<1>9. CASE Sweeps!Answer
  <2> DEFINE k == posts[1].by
             word == posts[1].verb
  <2>1. UNCHANGED <<running, done, results, last, cancelled>>
    BY <1>9 DEF Sweeps!Answer, Sweeps!tableVars
  <2>2. /\ k \in Sweeps!RunId /\ word \in Sweeps!Verb
        /\ sweepPc'[k] = IF sweepPc[k] = Sweeps!Waiting(word) THEN Sweeps!After(word) ELSE sweepPc[k]
        /\ \A m \in Sweeps!RunId : m # k => sweepPc'[m] = sweepPc[m]
    BY <1>9, Answering
  <2> HIDE DEF k, word
  <2>3. \A m \in Sweeps!RunId : (sweepPc'[m] = "off" <=> sweepPc[m] = "off") /\ (sweepPc'[m] \in Working <=> sweepPc[m] \in Working)
    <3>1. /\ Sweeps!After(word) # "off" /\ Sweeps!Waiting(word) # "off"
          /\ Sweeps!After(word) \in Working <=> Sweeps!Waiting(word) \in Working
      BY <2>2, Classes
    <3> QED
      BY <2>2, <3>1
  <2> QED
    BY <1>1, <2>1, <2>3, HolderKept
<1>10. ASSUME NEW k \in Sweeps!RunId, Sweeps!Lapse(k) PROVE Holder'
  <2>1. UNCHANGED <<running, done, last, results>> /\ cancelled' = cancelled /\ sweepPc' = sweepPc
    BY <1>10, LapseMovesNobody
  <2> QED
    BY <1>1, <1>3, <2>1
<1> QED
  BY <1>4, <1>5, <1>6, <1>7, <1>8, <1>9, <1>10, HolderRun DEF Sweeps!Next, Sweeps!Verbs

-----------------------------------------------------------------------------
(* A sweep that neither asks for anything nor is answered is at work, and   *)
(* goes on working or on to its last words.  It asks for nothing else then. *)
LEMMA WorksOn ==
  ASSUME Sweeps!SweepAssumption, SweepTypes, Holder, NEW k \in Sweeps!RunId, Sweeps!RunExperiment(k),
         k \notin lapsed, ~ \E word \in Sweeps!Verb : Sweeps!Post(k, word)
  PROVE  /\ sweepPc[k] \in Working /\ sweepPc'[k] \in Working \cup {"sending_sim.pause"}
         /\ sweepPc'[k] \notin Asking
         /\ \A m \in Sweeps!RunId : m # k => sweepPc'[m] = sweepPc[m]
         /\ UNCHANGED <<last, cancelled, posts, sweepPlaying, job, overlapped>>
         /\ k \in cancelled \/ sweepPc[k] \notin Asking
         /\ running' \in {running, FALSE}
<1>1. /\ {"next", "cell", "sending_job.progress", "sending_sim.pause"} \subseteq Place
      /\ {"loop", "next", "cell", "sending_job.progress"} \subseteq Working
      /\ {"loop", "next", "cell", "sending_job.progress", "sending_sim.pause"} \cap Asking = {}
  BY DEF Place, Working, Pausing, Asking
<1>2. CASE Sweeps!BeginLoop(k)
  <2>1. /\ sweepPc[k] = "loop" /\ Sweeps!Goto(k, "next")
        /\ UNCHANGED <<running, last, cancelled, posts, sweepPlaying, job, overlapped>>
    BY <1>2 DEF Sweeps!BeginLoop, Sweeps!tableVars, Sweeps!worldVars, Sweeps!pastVars
  <2>2. sweepPc'[k] = "next" /\ \A m \in Sweeps!RunId : m # k => sweepPc'[m] = sweepPc[m]
    BY <1>1, <2>1, GoesTo
  <2> QED
    BY <1>1, <2>1, <2>2
<1>3. CASE Sweeps!NextCell(k)
  <2>1. /\ sweepPc[k] = "next" /\ Sweeps!Goto(k, "cell")
        /\ UNCHANGED <<running, last, cancelled, posts, sweepPlaying, job, overlapped>>
    BY <1>3 DEF Sweeps!NextCell, Sweeps!tableVars, Sweeps!worldVars, Sweeps!pastVars
  <2>2. sweepPc'[k] = "cell" /\ \A m \in Sweeps!RunId : m # k => sweepPc'[m] = sweepPc[m]
    BY <1>1, <2>1, GoesTo
  <2> QED
    BY <1>1, <2>1, <2>2
<1>4. CASE Sweeps!EndCell(k)
  <2>1. /\ sweepPc[k] = "cell" /\ Sweeps!Goto(k, "sending_job.progress")
        /\ UNCHANGED <<running, last, cancelled, posts, sweepPlaying, job, overlapped>>
    BY <1>4 DEF Sweeps!EndCell, Sweeps!worldVars, Sweeps!pastVars
  <2>2. sweepPc'[k] = "sending_job.progress" /\ \A m \in Sweeps!RunId : m # k => sweepPc'[m] = sweepPc[m]
    BY <1>1, <2>1, GoesTo
  <2> QED
    BY <1>1, <2>1, <2>2
<1>5. CASE Sweeps!Leave(k)
  <2>1. /\ sweepPc[k] = "next" /\ Sweeps!Goto(k, "sending_sim.pause")
        /\ UNCHANGED <<last, cancelled, posts, sweepPlaying, job, overlapped>>
    BY <1>5 DEF Sweeps!Leave, Sweeps!worldVars, Sweeps!pastVars
  <2>2. sweepPc'[k] = "sending_sim.pause" /\ \A m \in Sweeps!RunId : m # k => sweepPc'[m] = sweepPc[m]
    BY <1>1, <2>1, GoesTo
  <2>3. running' = FALSE
    BY <1>5 DEF Sweeps!Leave
  <2> QED
    BY <1>1, <2>1, <2>2, <2>3
<1>6. ASSUME NEW word \in Sweeps!Verb, Sweeps!GiveUp(k, word)
      PROVE  /\ sweepPc[k] \in Working /\ sweepPc'[k] \in Working /\ sweepPc'[k] \notin Asking
             /\ \A m \in Sweeps!RunId : m # k => sweepPc'[m] = sweepPc[m]
             /\ UNCHANGED <<running, last, cancelled, posts, sweepPlaying, job, overlapped>>
             /\ k \in cancelled
  <2>1. /\ k \in cancelled /\ word \notin LastWord
        /\ sweepPc[k] \in {Sweeps!Sending(word), Sweeps!Waiting(word)} /\ Sweeps!Goto(k, Sweeps!After(word))
        /\ UNCHANGED <<running, last, cancelled, posts, sweepPlaying, job, overlapped>>
    <3>1. k \in cancelled /\ word \notin LastWord
      BY <1>6 DEF Sweeps!GiveUp, Sweeps!LastWords, LastWord
    <3> QED
      BY <1>6, <3>1 DEF Sweeps!GiveUp, Sweeps!tableVars, Sweeps!worldVars, Sweeps!pastVars
  <2>2. sweepPc'[k] = Sweeps!After(word) /\ \A m \in Sweeps!RunId : m # k => sweepPc'[m] = sweepPc[m]
    BY <2>1, GoesTo, WordsArePlaces
  <2> QED
    BY <2>1, <2>2, Classes
<1> QED
  BY <1>2, <1>3, <1>4, <1>5, <1>6 DEF Sweeps!RunExperiment

(* Whatever a sweep does, it alone moves, and it is not gone.               *)
LEMMA OnlyItMoves ==
  ASSUME SweepTypes, NEW k \in Sweeps!RunId, Sweeps!RunExperiment(k)
  PROVE  /\ sweepPc[k] \notin {"off", "gone"}
         /\ \A m \in Sweeps!RunId : m # k => sweepPc'[m] = sweepPc[m]
         /\ UNCHANGED <<last, cancelled, overlapped, lapsed>>
<1>1. UNCHANGED <<last, cancelled, overlapped, lapsed>>
  BY DEF Sweeps!RunExperiment, Sweeps!BeginLoop, Sweeps!NextCell, Sweeps!EndCell, Sweeps!Leave, Sweeps!Post,
       Sweeps!GiveUp, Sweeps!pastVars
<1>2. \A label, m : Sweeps!Goto(k, label) /\ m \in Sweeps!RunId /\ m # k => sweepPc'[m] = sweepPc[m]
  BY DEF SweepTypes, Sweeps!Goto
<1>3. CASE Sweeps!BeginLoop(k)
  BY <1>1, <1>2, <1>3 DEF Sweeps!BeginLoop
<1>4. CASE Sweeps!NextCell(k)
  BY <1>1, <1>2, <1>4 DEF Sweeps!NextCell
<1>5. CASE Sweeps!EndCell(k)
  BY <1>1, <1>2, <1>5 DEF Sweeps!EndCell
<1>6. CASE Sweeps!Leave(k)
  BY <1>1, <1>2, <1>6 DEF Sweeps!Leave
<1>7. ASSUME NEW word \in Sweeps!Verb, Sweeps!Post(k, word) \/ Sweeps!GiveUp(k, word)
      PROVE  sweepPc[k] \notin {"off", "gone"} /\ \A m \in Sweeps!RunId : m # k => sweepPc'[m] = sweepPc[m]
  <2>1. sweepPc[k] \in {Sweeps!Sending(word), Sweeps!Waiting(word)} /\ \E label : Sweeps!Goto(k, label)
    BY <1>7 DEF Sweeps!Post, Sweeps!GiveUp
  <2>2. Sweeps!Sending(word) \notin {"off", "gone"} /\ Sweeps!Waiting(word) \notin {"off", "gone"}
    BY Classes
  <2> QED
    BY <1>2, <2>1, <2>2
<1> QED
  BY <1>1, <1>3, <1>4, <1>5, <1>6, <1>7 DEF Sweeps!RunExperiment

(* One whose last words ran out of time has nothing but those left to do.   *)
LEMMA LapsedRuns ==
  ASSUME SweepTypes, Lapsing, NEW k \in Sweeps!RunId, Sweeps!RunExperiment(k), k \in lapsed
  PROVE  /\ sweepPc'[k] \notin Working \cup {"off"}
         /\ UNCHANGED <<running, sweepPlaying, job>>
         /\ posts' = posts \/ \E word \in Sweeps!Verb : Sweeps!Post(k, word)
<1>1. sweepPc[k] \notin Working
  BY DEF Lapsing
<1>2. sweepPc[k] \notin {"loop", "next", "cell"}
  BY <1>1, PlacesAre
<1>3. ~Sweeps!BeginLoop(k) /\ ~Sweeps!NextCell(k) /\ ~Sweeps!EndCell(k) /\ ~Sweeps!Leave(k)
  BY <1>2 DEF Sweeps!BeginLoop, Sweeps!NextCell, Sweeps!EndCell, Sweeps!Leave
<1>4. PICK word \in Sweeps!Verb : Sweeps!Post(k, word) \/ Sweeps!GiveUp(k, word)
  BY <1>3 DEF Sweeps!RunExperiment
<1>5. sweepPc[k] \in {Sweeps!Sending(word), Sweeps!Waiting(word)}
  BY <1>4 DEF Sweeps!Post, Sweeps!GiveUp
<1>6. word \in LastWord
  BY <1>1, <1>5, Classes
<1>7. UNCHANGED <<running, sweepPlaying, job>>
  BY <1>4 DEF Sweeps!Post, Sweeps!GiveUp, Sweeps!tableVars, Sweeps!worldVars
<1>8. CASE Sweeps!Post(k, word)
  <2>1. sweepPc'[k] = Sweeps!Waiting(word)
    BY <1>8, GoesTo, WordsArePlaces DEF Sweeps!Post
  <2> QED
    BY <1>6, <1>7, <1>8, <2>1, Classes
<1>9. CASE Sweeps!GiveUp(k, word)
  <2>1. sweepPc'[k] = Sweeps!After(word) /\ posts' = posts
    BY <1>9, GoesTo, WordsArePlaces DEF Sweeps!GiveUp
  <2> QED
    BY <1>6, <1>7, <2>1, Classes
<1> QED
  BY <1>4, <1>8, <1>9

(* A sweep that starts is not one of those, and forgets them when nothing   *)
(* is left of them. *)
LEMMA StartsAfresh ==
  ASSUME Sweeps!SweepAssumption, SweepTypes, Holder, Sweeps!Start
  PROVE  /\ last' \in Sweeps!RunId /\ sweepPc[last'] = "off" /\ posts' = posts
         /\ \A m \in Sweeps!RunId : m # last' => sweepPc'[m] = sweepPc[m]
         /\ lapsed' = lapsed \/ (lapsed' = {} /\ posts = << >>)
<1>1. Sweeps!Started /\ posts' = posts
  BY DEF Sweeps!Start
<1>2. last' \in Sweeps!RunId /\ last' > last /\ \A m \in Sweeps!RunId : m # last' => sweepPc'[m] = sweepPc[m]
  BY <1>1, Starting
<1>3. sweepPc[last'] = "off"
  BY <1>2 DEF Holder
<1>4. lapsed' = lapsed \/ (lapsed' = {} /\ posts = << >>)
  BY <1>1 DEF Sweeps!Started
<1> QED
  BY <1>1, <1>2, <1>3, <1>4

LEMMA LapsingStep ==
  ASSUME Sweeps!SweepAssumption, SweepTypes, Holder, Lapsing, [Sweeps!Next]_(Sweeps!vars)
  PROVE  Lapsing'
<1>1. Working' = Working /\ Sweeps!RunId' = Sweeps!RunId
  BY DEF Working, Asking, Sweeps!RunId
<1>2. ASSUME lapsed' = lapsed, sweepPc' = sweepPc PROVE Lapsing'
  BY <1>1, <1>2 DEF Lapsing
<1>3. ASSUME NEW a \in SweepArms, Sweeps!DefineArms(a) \/ Sweeps!Vary(a) PROVE Lapsing'
  BY <1>2, <1>3 DEF Sweeps!DefineArms, Sweeps!Vary, Sweeps!runVars
<1>4. ASSUME NEW s \in SweepSeeds, Sweeps!DefineSeeds(s) \/ Sweeps!SetSeeds(s) PROVE Lapsing'
  BY <1>2, <1>4 DEF Sweeps!DefineSeeds, Sweeps!SetSeeds, Sweeps!runVars
<1>5. CASE Sweeps!Start
  BY <1>1, <1>5, StartsAfresh DEF Lapsing
<1>6. CASE Sweeps!Stop \/ Sweeps!Results \/ UNCHANGED Sweeps!vars
  BY <1>2, <1>6 DEF Sweeps!Stop, Sweeps!Results, Sweeps!vars, Sweeps!runVars, Sweeps!pastVars
<1>7. ASSUME NEW k \in Sweeps!RunId, Sweeps!RunExperiment(k) PROVE Lapsing'
  BY <1>1, <1>7, OnlyItMoves, LapsedRuns DEF Lapsing
<1>8. ASSUME NEW k \in Sweeps!RunId, Sweeps!Lapse(k) PROVE Lapsing'
  <2>1. PICK word \in LastWord : sweepPc[k] \in {Sweeps!Sending(word), Sweeps!Waiting(word)}
    BY <1>8 DEF Sweeps!Lapse, Sweeps!LastWords, LastWord
  <2>2. word \in Sweeps!Verb
    BY DEF LastWord, Sweeps!Verb
  <2>3. sweepPc[k] \notin Working \cup {"off"}
    BY <2>1, <2>2, Classes
  <2> QED
    BY <1>1, <1>8, <2>3, LapseMovesNobody DEF Lapsing
<1>9. CASE Sweeps!Answer
  <2> DEFINE k == posts[1].by
             word == posts[1].verb
  <2>1. lapsed' = lapsed
    BY <1>9 DEF Sweeps!Answer, Sweeps!pastVars
  <2>2. /\ k \in Sweeps!RunId /\ word \in Sweeps!Verb
        /\ sweepPc'[k] = IF sweepPc[k] = Sweeps!Waiting(word) THEN Sweeps!After(word) ELSE sweepPc[k]
        /\ \A m \in Sweeps!RunId : m # k => sweepPc'[m] = sweepPc[m]
    BY <1>9, Answering
  <2> HIDE DEF k, word
  <2>3. Sweeps!Waiting(word) \notin Working => Sweeps!After(word) \notin Working \cup {"off"}
    BY <2>2, Classes
  <2> QED
    BY <1>1, <2>1, <2>2, <2>3 DEF Lapsing
<1> QED
  BY <1>3, <1>4, <1>5, <1>6, <1>7, <1>8, <1>9 DEF Sweeps!Next, Sweeps!Verbs

(* Of sweeps that do not overlap only the last is heard of.                 *)
LEMMA NoneBeforeStep ==
  ASSUME Sweeps!SweepAssumption, SweepTypes, Holder, NoneBefore, [Sweeps!Next]_(Sweeps!vars)
  PROVE  NoneBefore'
<1>1. ASSUME UNCHANGED <<sweepPc, last, overlapped, posts>> PROVE NoneBefore'
  BY <1>1 DEF NoneBefore, Sweeps!RunId
<1>2. ASSUME NEW a \in SweepArms, Sweeps!DefineArms(a) \/ Sweeps!Vary(a) PROVE NoneBefore'
  BY <1>1, <1>2 DEF Sweeps!DefineArms, Sweeps!Vary, Sweeps!runVars
<1>3. ASSUME NEW s \in SweepSeeds, Sweeps!DefineSeeds(s) \/ Sweeps!SetSeeds(s) PROVE NoneBefore'
  BY <1>1, <1>3 DEF Sweeps!DefineSeeds, Sweeps!SetSeeds, Sweeps!runVars
<1>4. CASE Sweeps!Start
  <2> SUFFICES ASSUME ~overlapped'
               PROVE  /\ \A m \in Sweeps!RunId : m < last' => sweepPc'[m] = "gone"
                      /\ posts' = << >>
    BY DEF NoneBefore, Sweeps!RunId
  <2>1. Sweeps!Started /\ posts' = posts
    BY <1>4 DEF Sweeps!Start
  <2>2. /\ last' \in Sweeps!RunId /\ last' = last + 1 /\ last \in Nat
        /\ \A m \in Sweeps!RunId : m # last' => sweepPc'[m] = sweepPc[m]
    BY <2>1, Starting
  <2>3. posts = << >> /\ \A j \in Sweeps!RunId : sweepPc[j] \in {"off", "gone"}
    BY <2>1 DEF Sweeps!Started
  <2>4. ASSUME NEW m \in Sweeps!RunId, m < last' PROVE sweepPc'[m] = "gone"
    <3>1. m # last' /\ ~(m > last)
      <4> DEFINE n == last'
      <4>1. n = last + 1 /\ last \in Nat /\ m < n /\ m \in Nat
        BY <2>2, <2>4, RunIdsAre
      <4> HIDE DEF n
      <4>2. m # n /\ ~(m > last)
        BY <4>1
      <4> QED
        BY <4>2 DEF n
    <3>2. sweepPc[m] = "gone"
      BY <2>3, <3>1 DEF Holder
    <3> QED
      BY <2>2, <3>1, <3>2
  <2> QED
    BY <2>1, <2>3, <2>4
<1>5. CASE Sweeps!Stop \/ Sweeps!Results \/ UNCHANGED Sweeps!vars
  BY <1>1, <1>5 DEF Sweeps!Stop, Sweeps!Results, Sweeps!vars, Sweeps!runVars, Sweeps!pastVars
<1>6. ASSUME NEW k \in Sweeps!RunId, Sweeps!Lapse(k) PROVE NoneBefore'
  BY <1>1, <1>6, LapseMovesNobody
<1>7. ASSUME NEW k \in Sweeps!RunId, Sweeps!RunExperiment(k) PROVE NoneBefore'
  <2> SUFFICES ASSUME ~overlapped
               PROVE  /\ \A m \in Sweeps!RunId : m < last => sweepPc'[m] = "gone"
                      /\ \A i \in 1 .. Len(posts') : posts'[i].by = last
    BY <1>7, OnlyItMoves DEF NoneBefore, Sweeps!RunId
  <2>1. sweepPc[k] \notin {"off", "gone"} /\ \A m \in Sweeps!RunId : m # k => sweepPc'[m] = sweepPc[m]
    BY <1>7, OnlyItMoves
  <2>2. k = last
    <3>1. k \in Nat /\ last \in Nat
      BY RunIdsAre DEF SweepTypes
    <3>2. ~(k > last) /\ ~(k < last)
      BY <2>1 DEF Holder, NoneBefore
    <3> QED
      BY <3>1, <3>2
  <2>3. \A m \in Sweeps!RunId : m < last => sweepPc'[m] = "gone"
    BY <2>1, <2>2 DEF NoneBefore
  <2>4. CASE posts' = posts
    BY <2>3, <2>4 DEF NoneBefore
  <2>5. ASSUME NEW word \in Sweeps!Verb, Sweeps!Post(k, word) PROVE \A i \in 1 .. Len(posts') : posts'[i].by = last
    <3> DEFINE new == [by |-> k, verb |-> word]
    <3>1. new.by = k
      OBVIOUS
    <3>2. /\ Len(posts') = Len(posts) + 1 /\ Len(posts) \in Nat
          /\ \A i \in 1 .. Len(posts) : posts'[i] = posts[i]
          /\ posts'[Len(posts) + 1] = new
      BY <2>5, Posting
    <3> HIDE DEF new
    <3>3. \A i \in 1 .. Len(posts) : posts[i].by = last
      BY DEF NoneBefore
    <3> QED
      BY <2>2, <3>1, <3>2, <3>3
  <2>6. posts' = posts \/ \E word \in Sweeps!Verb : Sweeps!Post(k, word)
    BY <1>7 DEF Sweeps!RunExperiment, Sweeps!BeginLoop, Sweeps!NextCell, Sweeps!EndCell, Sweeps!Leave, Sweeps!GiveUp
  <2> QED
    BY <2>3, <2>4, <2>5, <2>6
<1>8. CASE Sweeps!Answer
  <2> SUFFICES ASSUME ~overlapped
               PROVE  /\ \A m \in Sweeps!RunId : m < last => sweepPc'[m] = "gone"
                      /\ \A i \in 1 .. Len(posts') : posts'[i].by = last
    BY <1>8 DEF NoneBefore, Sweeps!RunId, Sweeps!Answer, Sweeps!pastVars
  <2>1. /\ posts # << >> /\ posts' = Tail(posts)
        /\ \A m \in Sweeps!RunId : m # posts[1].by => sweepPc'[m] = sweepPc[m]
    BY <1>8, Answering
  <2>2. /\ Len(posts) \in Nat \ {0}
        /\ \A i \in 1 .. Len(posts') : posts'[i] = posts[i + 1] /\ i + 1 \in 1 .. Len(posts)
    BY <2>1, Shifting
  <2>3. \A i \in 1 .. Len(posts) : posts[i].by = last
    BY DEF NoneBefore
  <2>4. 1 \in 1 .. Len(posts)
    BY <2>2
  <2>5. last \in Nat /\ \A m \in Sweeps!RunId : m \in Nat /\ (m < last => m # posts[1].by)
    BY <2>3, <2>4, RunIdsAre DEF SweepTypes
  <2> QED
    BY <2>1, <2>2, <2>3, <2>5 DEF NoneBefore
<1> QED
  BY <1>2, <1>3, <1>4, <1>5, <1>6, <1>7, <1>8 DEF Sweeps!Next, Sweeps!Verbs

-----------------------------------------------------------------------------
(* A post is heard of by whom it is from: it waits for its last words, and  *)
(* for no other post once it has said them.                                 *)
HeardOne(p) == p.by \notin lapsed =>
  /\ sweepPc[p.by] \notin {"off", "gone", "sending_experiment.finished"}
  /\ p.verb = "sim.pause" => sweepPc[p.by] = "waiting_sim.pause"
  /\ p.verb = "experiment.finished" <=> sweepPc[p.by] = "waiting_experiment.finished"

LEMMA HeardIs == Heard <=> \A i \in 1 .. Len(posts) : HeardOne(posts[i])
BY DEF Heard, HeardOne

LEMMA HeardAtWork ==
  ASSUME Heard, NEW i \in 1 .. Len(posts), posts[i].by \notin lapsed, sweepPc[posts[i].by] \in Working
  PROVE  posts[i].verb \notin LastWord
BY DEF Heard, LastWord, Working, Asking

LEMMA HeardMoves ==
  ASSUME Sweeps!SweepAssumption, SweepTypes, Holder, Heard, LastOnes, NEW k \in Sweeps!RunId, Sweeps!RunExperiment(k),
         k \notin lapsed, ~ \E word \in Sweeps!Verb : Sweeps!Post(k, word)
  PROVE  Heard' /\ LastOnes'
<1>1. /\ sweepPc[k] \in Working /\ sweepPc'[k] \in Working \cup {"sending_sim.pause"}
      /\ \A m \in Sweeps!RunId : m # k => sweepPc'[m] = sweepPc[m]
      /\ posts' = posts /\ lapsed' = lapsed
  BY WorksOn, OnlyItMoves
<1>2. ASSUME NEW i \in 1 .. Len(posts) PROVE HeardOne(posts[i])'
  <2>1. posts[i].by \in Sweeps!RunId
    BY PostsAre
  <2>2. CASE posts[i].by # k
    <3>1. HeardOne(posts[i])
      BY HeardIs
    <3>2. sweepPc'[posts[i].by] = sweepPc[posts[i].by] /\ posts[i]' = posts[i]
      BY <1>1, <2>1, <2>2
    <3> QED
      BY <1>1, <3>1, <3>2 DEF HeardOne
  <2>3. CASE posts[i].by = k
    <3>1. posts[i].verb \notin LastWord
      BY <1>1, <2>3, HeardAtWork
    <3>2. /\ sweepPc'[k] \notin {"off", "gone", "sending_experiment.finished"}
          /\ sweepPc'[k] # "waiting_experiment.finished"
      BY <1>1 DEF Working, Asking
    <3> QED
      BY <1>1, <2>3, <3>1, <3>2 DEF HeardOne, LastWord
  <2> QED
    BY <2>2, <2>3
<1>3. Heard'
  BY <1>1, <1>2 DEF Heard, HeardOne
<1>4. LastOnes'
  BY <1>1 DEF LastOnes, LastWord
<1> QED
  BY <1>3, <1>4

(* Nobody hears of one whose words have run out of time.                    *)
LEMMA HeardLapsed ==
  ASSUME Sweeps!SweepAssumption, SweepTypes, Lapsing, Heard, LastOnes, NEW k \in Sweeps!RunId, Sweeps!RunExperiment(k),
         k \in lapsed, posts' = posts
  PROVE  Heard' /\ LastOnes'
<1>1. /\ \A m \in Sweeps!RunId : m # k => sweepPc'[m] = sweepPc[m]
      /\ lapsed' = lapsed
  BY OnlyItMoves
<1>2. ASSUME NEW i \in 1 .. Len(posts), posts[i].by \notin lapsed PROVE sweepPc'[posts[i].by] = sweepPc[posts[i].by]
  BY <1>1, <1>2, PostsAre
<1>3. Heard'
  BY <1>1, <1>2 DEF Heard
<1>4. LastOnes'
  BY <1>1 DEF LastOnes, LastWord
<1> QED
  BY <1>3, <1>4

LEMMA HeardPost ==
  ASSUME Sweeps!SweepAssumption, SweepTypes, Heard, LastOnes, NEW k \in Sweeps!RunId, NEW word \in Sweeps!Verb, Sweeps!Post(k, word)
  PROVE  Heard' /\ LastOnes'
<1>1. sweepPc[k] = Sweeps!Sending(word) /\ Sweeps!Goto(k, Sweeps!Waiting(word))
  BY DEF Sweeps!Post
<1>2. sweepPc'[k] = Sweeps!Waiting(word) /\ \A m \in Sweeps!RunId : m # k => sweepPc'[m] = sweepPc[m]
  BY <1>1, GoesTo, WordsArePlaces
<1>13. lapsed' = lapsed
  BY DEF Sweeps!Post, Sweeps!pastVars
<1>3. /\ Len(posts') = Len(posts) + 1 /\ Len(posts) \in Nat
      /\ \A i \in 1 .. Len(posts) : posts'[i] = posts[i]
  BY Posting
<1>4. posts'[Len(posts) + 1].by = k /\ posts'[Len(posts) + 1].verb = word
  <2> DEFINE new == [by |-> k, verb |-> word]
  <2>1. new.by = k /\ new.verb = word
    OBVIOUS
  <2>2. posts'[Len(posts) + 1] = new
    BY Posting
  <2> HIDE DEF new
  <2> QED
    BY <2>1, <2>2
<1>5. word \in {"sim.play", "job.progress", "experiment.results", "sim.pause", "experiment.finished"}
  BY VerbIs
<1>6. sweepPc[k] # "waiting_sim.pause" /\ sweepPc[k] # "waiting_experiment.finished"
  BY <1>1, <1>5, WordsOf
<1>7. /\ sweepPc'[k] \notin {"off", "gone", "sending_experiment.finished"}
      /\ sweepPc'[k] = "waiting_sim.pause" <=> word = "sim.pause"
      /\ sweepPc'[k] = "waiting_experiment.finished" <=> word = "experiment.finished"
  BY <1>2, <1>5, WordsOf
<1>8. ASSUME NEW i \in 1 .. Len(posts), posts[i].by = k, k \notin lapsed
      PROVE  posts[i].verb \notin LastWord /\ word # "experiment.finished"
  <2>1. posts[i].verb \notin LastWord /\ sweepPc[k] # "sending_experiment.finished"
    BY <1>6, <1>8 DEF Heard, LastWord
  <2> QED
    BY <1>1, <2>1, WordsOf
<1>9. ASSUME NEW i \in 1 .. Len(posts') PROVE HeardOne(posts[i])'
  <2>1. i \in 1 .. Len(posts) \/ i = Len(posts) + 1
    BY <1>3
  <2>2. CASE i = Len(posts) + 1
    BY <1>4, <1>7, <1>13, <2>2 DEF HeardOne
  <2>3. CASE i \in 1 .. Len(posts)
    <3>1. posts[i].by \in Sweeps!RunId /\ posts'[i] = posts[i]
      BY <1>3, <2>3, PostsAre
    <3>2. CASE posts[i].by # k
      <4>1. HeardOne(posts[i])
        BY <2>3, HeardIs
      <4>2. sweepPc'[posts[i].by] = sweepPc[posts[i].by]
        BY <1>2, <3>1, <3>2
      <4> QED
        BY <1>13, <3>1, <4>1, <4>2 DEF HeardOne
    <3>4. CASE k \in lapsed /\ posts[i].by = k
      BY <1>13, <3>1, <3>4 DEF HeardOne
    <3>3. CASE posts[i].by = k /\ k \notin lapsed
      <4>1. posts[i].verb \notin LastWord /\ word # "experiment.finished"
        BY <1>8, <2>3, <3>3
      <4> QED
        BY <1>7, <3>1, <3>3, <4>1 DEF HeardOne, LastWord
    <3> QED
      BY <3>2, <3>3, <3>4
  <2> QED
    BY <2>1, <2>2, <2>3
<1>10. ASSUME NEW i \in 1 .. Len(posts'), NEW j \in 1 .. Len(posts'), i < j, posts'[i].by = posts'[j].by,
              posts'[i].by \notin lapsed
       PROVE  posts'[i].verb \notin LastWord
  <2>1. i \in 1 .. Len(posts) /\ (j \in 1 .. Len(posts) \/ j = Len(posts) + 1)
    BY <1>3, <1>10
  <2>2. CASE j \in 1 .. Len(posts)
    BY <1>3, <1>10, <2>1, <2>2 DEF LastOnes
  <2>3. CASE j = Len(posts) + 1
    <3>1. posts[i].by = k
      BY <1>3, <1>4, <1>10, <2>1, <2>3
    <3>2. i \in 1 .. Len(posts) /\ posts'[i] = posts[i]
      BY <1>3, <1>10, <2>1, <2>3
    <3>3. k \notin lapsed
      BY <1>10, <3>1, <3>2
    <3>4. posts[i].verb \notin LastWord
      BY <1>8, <3>1, <3>2, <3>3
    <3> QED
      BY <3>2, <3>4
  <2> QED
    BY <2>1, <2>2, <2>3
<1>11. Heard'
  BY <1>9 DEF Heard, HeardOne
<1>12. LastOnes'
  BY <1>10, <1>13 DEF LastOnes, LastWord
<1> QED
  BY <1>11, <1>12

LEMMA HeardAnswer ==
  ASSUME Sweeps!SweepAssumption, SweepTypes, Heard, LastOnes, Sweeps!Answer
  PROVE  Heard' /\ LastOnes'
<1> DEFINE k == posts[1].by
           word == posts[1].verb
<1>1. /\ k \in Sweeps!RunId /\ word \in Sweeps!Verb /\ posts # << >> /\ posts' = Tail(posts)
      /\ sweepPc'[k] = IF sweepPc[k] = Sweeps!Waiting(word) THEN Sweeps!After(word) ELSE sweepPc[k]
      /\ \A m \in Sweeps!RunId : m # k => sweepPc'[m] = sweepPc[m]
  BY Answering
<1>2. /\ Len(posts) \in Nat /\ Len(posts) # 0 /\ Len(posts') = Len(posts) - 1
      /\ \A i \in 1 .. Len(posts') : posts'[i] = posts[i + 1] /\ i + 1 \in 1 .. Len(posts)
  BY <1>1, Shifting
<1>8. lapsed' = lapsed
  BY DEF Sweeps!Answer, Sweeps!pastVars
<1>3. ASSUME NEW i \in 1 .. Len(posts'), posts'[i].by = k, k \notin lapsed PROVE word \notin LastWord
  <2>1. i + 1 \in 1 .. Len(posts) /\ posts[i + 1].by = k /\ 1 \in 1 .. Len(posts) /\ 1 < i + 1
    BY <1>2, <1>3
  <2>2. posts[1].by = posts[i + 1].by /\ posts[1].by \notin lapsed
    BY <1>3, <2>1
  <2>3. posts[1].verb \notin LastWord
    BY <2>1, <2>2 DEF LastOnes
  <2> QED
    BY <2>3
<1> HIDE DEF k, word
<1>4. ASSUME NEW i \in 1 .. Len(posts') PROVE HeardOne(posts[i])'
  <2>1. posts'[i] = posts[i + 1] /\ i + 1 \in 1 .. Len(posts)
    BY <1>2
  <2>2. posts[i + 1].by \in Sweeps!RunId /\ HeardOne(posts[i + 1])
    BY <2>1, PostsAre, HeardIs
  <2>3. CASE posts[i + 1].by # k
    BY <1>1, <1>8, <2>1, <2>2, <2>3 DEF HeardOne
  <2>4. CASE posts[i + 1].by = k /\ sweepPc'[k] = sweepPc[k]
    BY <1>8, <2>1, <2>2, <2>4 DEF HeardOne
  <2>6. CASE posts[i + 1].by = k /\ k \in lapsed
    BY <1>8, <2>1, <2>6 DEF HeardOne
  <2>5. CASE posts[i + 1].by = k /\ k \notin lapsed /\ sweepPc'[k] # sweepPc[k]
    <3>1. word \notin LastWord /\ sweepPc[k] = Sweeps!Waiting(word) /\ sweepPc'[k] = Sweeps!After(word)
      BY <1>1, <1>3, <2>1, <2>5
    <3>2. sweepPc[k] \in Working /\ sweepPc'[k] \in Working
      BY <1>1, <3>1, Classes
    <3>3. posts[i + 1].verb \notin LastWord
      BY <2>1, <2>5, <3>2, HeardAtWork
    <3>4. /\ sweepPc'[k] \notin {"off", "gone", "sending_experiment.finished"}
          /\ sweepPc'[k] # "waiting_experiment.finished"
      BY <3>2 DEF Working, Asking
    <3> QED
      BY <2>1, <2>5, <3>3, <3>4 DEF HeardOne, LastWord
  <2> QED
    BY <2>3, <2>4, <2>5, <2>6
<1>5. ASSUME NEW i \in 1 .. Len(posts'), NEW j \in 1 .. Len(posts'), i < j, posts'[i].by = posts'[j].by,
             posts'[i].by \notin lapsed
      PROVE  posts'[i].verb \notin LastWord
  <2>1. posts'[i] = posts[i + 1] /\ i + 1 \in 1 .. Len(posts) /\ posts'[j] = posts[j + 1] /\ j + 1 \in 1 .. Len(posts)
    BY <1>2
  <2>2. i + 1 < j + 1
    BY <1>2, <1>5
  <2> QED
    BY <1>5, <2>1, <2>2 DEF LastOnes
<1>6. Heard'
  BY <1>4 DEF Heard, HeardOne
<1>7. LastOnes'
  BY <1>5, <1>8 DEF LastOnes, LastWord
<1> QED
  BY <1>6, <1>7

LEMMA HeardStep ==
  ASSUME Sweeps!SweepAssumption, SweepTypes, Holder, Lapsing, Heard, LastOnes, [Sweeps!Next]_(Sweeps!vars)
  PROVE  Heard' /\ LastOnes'
<1>1. ASSUME posts' = posts, lapsed \subseteq lapsed',
             \A i \in 1 .. Len(posts) : sweepPc'[posts[i].by] = sweepPc[posts[i].by]
      PROVE  Heard' /\ LastOnes'
  <2>1. Heard'
    BY <1>1 DEF Heard
  <2>2. LastOnes'
    BY <1>1 DEF LastOnes, LastWord
  <2> QED
    BY <2>1, <2>2
<1>2. ASSUME posts' = posts, sweepPc' = sweepPc, lapsed \subseteq lapsed' PROVE Heard' /\ LastOnes'
  BY <1>1, <1>2
<1>3. ASSUME NEW a \in SweepArms, Sweeps!DefineArms(a) \/ Sweeps!Vary(a) PROVE Heard' /\ LastOnes'
  BY <1>2, <1>3 DEF Sweeps!DefineArms, Sweeps!Vary, Sweeps!runVars
<1>4. ASSUME NEW s \in SweepSeeds, Sweeps!DefineSeeds(s) \/ Sweeps!SetSeeds(s) PROVE Heard' /\ LastOnes'
  BY <1>2, <1>4 DEF Sweeps!DefineSeeds, Sweeps!SetSeeds, Sweeps!runVars
<1>5. CASE Sweeps!Start
  <2>1. CASE lapsed' = lapsed
    <3>1. ASSUME NEW i \in 1 .. Len(posts) PROVE sweepPc'[posts[i].by] = sweepPc[posts[i].by]
      <4>1. posts[i].by \in Sweeps!RunId /\ sweepPc[posts[i].by] # "off"
        BY PostsAre DEF Heard, Lapsing
      <4> QED
        BY <1>5, <4>1, StartsAfresh
    <3> QED
      BY <1>1, <1>5, <2>1, <3>1, StartsAfresh
  <2>2. CASE posts = << >>
    <3>1. posts' = << >>
      BY <1>5, <2>2, StartsAfresh
    <3> QED
      BY <3>1 DEF Heard, LastOnes
  <2> QED
    BY <1>5, <2>1, <2>2, StartsAfresh
<1>6. CASE Sweeps!Stop \/ Sweeps!Results \/ UNCHANGED Sweeps!vars
  BY <1>2, <1>6 DEF Sweeps!Stop, Sweeps!Results, Sweeps!vars, Sweeps!runVars, Sweeps!pastVars
<1>8. ASSUME NEW k \in Sweeps!RunId, Sweeps!Lapse(k) PROVE Heard' /\ LastOnes'
  BY <1>2, <1>8, LapseMovesNobody
<1>7. ASSUME NEW k \in Sweeps!RunId, Sweeps!RunExperiment(k) PROVE Heard' /\ LastOnes'
  BY <1>7, HeardMoves, HeardPost, HeardLapsed, LapsedRuns
<1> QED
  BY <1>3, <1>4, <1>5, <1>6, <1>7, <1>8, HeardAnswer DEF Sweeps!Next, Sweeps!Verbs

-----------------------------------------------------------------------------
(* What is shown is of a sweep that is there.                               *)
LEMMA SeenIs ==
  Sweeps!SweepIsSeen <=> (running /\ ~overlapped => job /\ (sweepPc[last] \notin Asking => sweepPlaying))
BY DEF Sweeps!SweepIsSeen, Asking

LEMMA ShownMoves ==
  ASSUME Sweeps!SweepAssumption, SweepTypes, Holder, Showing, NEW k \in Sweeps!RunId, Sweeps!RunExperiment(k),
         k \notin lapsed, ~ \E word \in Sweeps!Verb : Sweeps!Post(k, word)
  PROVE  Showing'
<1>1. /\ sweepPc[k] \in Working /\ sweepPc'[k] \in Working \cup {"sending_sim.pause"} /\ sweepPc'[k] \notin Asking
      /\ \A m \in Sweeps!RunId : m # k => sweepPc'[m] = sweepPc[m]
      /\ UNCHANGED <<last, cancelled, sweepPlaying, job, overlapped>>
      /\ k \in cancelled \/ sweepPc[k] \notin Asking
      /\ running' \in {running, FALSE}
  BY WorksOn
<1>2. k = last
  BY <1>1 DEF Holder
<1>3. sweepPc'[k] \in Working \cup Pausing /\ sweepPc'[k] \notin {"off", "gone"}
  BY <1>1 DEF Working, Asking, Pausing
<1>4. Working' = Working /\ Pausing' = Pausing /\ Asking' = Asking
  BY DEF Working, Asking, Pausing
<1>5. \E m \in Sweeps!RunId : sweepPc'[m] \in Working \cup Pausing
  BY <1>3
<1>6. \E m \in Sweeps!RunId : sweepPc'[m] \notin {"off", "gone"}
  BY <1>3
<1>8. Sweeps!SweepIsSeen'
  <2>1. running' => running /\ k \notin cancelled
    BY <1>1, <1>2 DEF Holder
  <2>2. running' /\ ~overlapped' => job' /\ sweepPlaying'
    BY <1>1, <1>2, <2>1, SeenIs DEF Showing
  <2> QED
    BY <2>2 DEF Sweeps!SweepIsSeen
<1> QED
  BY <1>4, <1>5, <1>6, <1>8 DEF Showing

LEMMA ShownLapsed ==
  ASSUME Sweeps!SweepAssumption, SweepTypes, Holder, Lapsing, Showing, NEW k \in Sweeps!RunId, Sweeps!RunExperiment(k),
         k \in lapsed
  PROVE  Showing'
<1>1. /\ \A m \in Sweeps!RunId : m # k => sweepPc'[m] = sweepPc[m]
      /\ UNCHANGED <<running, last, sweepPlaying, job, overlapped, lapsed>>
  BY OnlyItMoves, LapsedRuns
<1>2. running => last \in Sweeps!RunId /\ last # k
  BY DEF Holder, Lapsing
<1>3. Sweeps!SweepIsSeen'
  BY <1>1, <1>2 DEF Showing, Sweeps!SweepIsSeen
<1>4. lapsed' # {}
  BY <1>1
<1> QED
  BY <1>3, <1>4 DEF Showing

LEMMA ShownPost ==
  ASSUME Sweeps!SweepAssumption, SweepTypes, Holder, Showing, NEW k \in Sweeps!RunId, NEW word \in Sweeps!Verb, Sweeps!Post(k, word)
  PROVE  Showing'
<1>1. /\ sweepPc[k] = Sweeps!Sending(word) /\ Sweeps!Goto(k, Sweeps!Waiting(word))
      /\ UNCHANGED <<running, last, sweepPlaying, job, overlapped, lapsed>>
  BY DEF Sweeps!Post, Sweeps!tableVars, Sweeps!worldVars, Sweeps!pastVars
<1>2. sweepPc'[k] = Sweeps!Waiting(word) /\ \A m \in Sweeps!RunId : m # k => sweepPc'[m] = sweepPc[m]
  BY <1>1, GoesTo, WordsArePlaces
<1>3. word \in {"sim.play", "job.progress", "experiment.results", "sim.pause", "experiment.finished"}
  BY VerbIs
<1>4. /\ Sweeps!Waiting(word) \in Working \cup Pausing <=> Sweeps!Sending(word) \in Working \cup Pausing
      /\ Sweeps!Waiting(word) \notin {"off", "gone"} /\ Sweeps!Sending(word) \notin {"off", "gone"}
      /\ Sweeps!Waiting(word) \in Asking <=> Sweeps!Sending(word) \in Asking
  <2>1. word \in {"sim.pause", "experiment.finished"} =>
          (Sweeps!Waiting(word) \in Pausing <=> Sweeps!Sending(word) \in Pausing)
    BY WordsOf DEF Pausing
  <2> QED
    BY <1>3, <2>1, Classes DEF LastWord
<1>5. \A m \in Sweeps!RunId : /\ sweepPc'[m] \in Working \cup Pausing <=> sweepPc[m] \in Working \cup Pausing
                              /\ sweepPc'[m] \in {"off", "gone"} <=> sweepPc[m] \in {"off", "gone"}
                              /\ sweepPc'[m] \in Asking <=> sweepPc[m] \in Asking
                              /\ sweepPc[m] = "gone" => sweepPc'[m] = "gone"
  BY <1>1, <1>2, <1>4
<1>6. Working' = Working /\ Pausing' = Pausing /\ Asking' = Asking
  BY DEF Working, Asking, Pausing
<1>7. running => last \in Sweeps!RunId
  BY DEF Holder
<1>8. Sweeps!SweepIsSeen'
  <2>1. running' /\ ~overlapped' => job' /\ (sweepPc'[last] \notin Asking => sweepPlaying')
    BY <1>1, <1>5, <1>7, SeenIs DEF Showing
  <2> QED
    BY <1>1, <2>1 DEF Sweeps!SweepIsSeen, Asking
<1> QED
  BY <1>1, <1>5, <1>6, <1>8 DEF Showing

LEMMA ShownAnswer ==
  ASSUME Sweeps!SweepAssumption, SweepTypes, Holder, Lapsing, Heard, NoneBefore, Showing, Sweeps!Answer
  PROVE  Showing'
<1> DEFINE k == posts[1].by
           word == posts[1].verb
<1>1. /\ k \in Sweeps!RunId /\ word \in Sweeps!Verb /\ Sweeps!Handle(word) /\ posts # << >> /\ posts' = Tail(posts)
      /\ sweepPc'[k] = IF sweepPc[k] = Sweeps!Waiting(word) THEN Sweeps!After(word) ELSE sweepPc[k]
      /\ \A m \in Sweeps!RunId : m # k => sweepPc'[m] = sweepPc[m]
  BY Answering
<1>2. UNCHANGED <<running, last, cancelled, overlapped, lapsed>>
  BY DEF Sweeps!Answer, Sweeps!tableVars, Sweeps!pastVars
<1>14. 1 \in 1 .. Len(posts)
  BY <1>1, Shifting
<1>15. ~overlapped => k = last
  BY <1>14 DEF NoneBefore
<1>3. ASSUME k \notin lapsed
      PROVE
      /\ sweepPc[k] \notin {"off", "gone", "sending_experiment.finished"}
      /\ word = "sim.pause" => sweepPc[k] = "waiting_sim.pause"
      /\ word = "experiment.finished" <=> sweepPc[k] = "waiting_experiment.finished"
  BY <1>3, <1>14 DEF Heard
<1> HIDE DEF k, word
<1>4. word \in {"sim.play", "job.progress", "experiment.results", "sim.pause", "experiment.finished"}
  BY <1>1, VerbIs
<1>5. Working' = Working /\ Pausing' = Pausing /\ Asking' = Asking
  BY DEF Working, Asking, Pausing
<1>6. sweepPc[k] \in Place
  BY <1>1 DEF SweepTypes
<1>7. k \notin lapsed /\ word # "experiment.finished" => sweepPc[k] \in Working \cup Pausing
  BY <1>3, <1>6 DEF Place, Finishing
<1>8. k \notin lapsed /\ word \notin LastWord => sweepPc'[k] \in Working \cup Pausing
  BY <1>1, <1>7, Classes DEF LastWord
<1>9. k \notin lapsed /\ word # "experiment.finished" => sweepPc'[k] \notin {"off", "gone"}
  BY <1>1, <1>3, Classes
(* A clock that runs runs for a sweep at work, or about to pause it. *)
<1>10. ASSUME sweepPlaying', lapsed = {} PROVE \E m \in Sweeps!RunId : sweepPc'[m] \in Working \cup Pausing
  <2>1. CASE word \notin LastWord
    BY <1>1, <1>8, <1>10, <2>1
  <2>2. CASE word = "sim.pause"
    BY <1>1, <1>10, <2>2 DEF Sweeps!Handle
  <2>3. CASE word = "experiment.finished"
    <3>1. sweepPlaying' = sweepPlaying
      BY <1>1, <2>3 DEF Sweeps!Handle
    <3>2. sweepPc[k] \notin Working \cup Pausing
      BY <1>3, <1>10, <2>3 DEF Working, Asking, Pausing
    <3> QED
      BY <1>1, <1>10, <3>1, <3>2 DEF Showing
  <2> QED
    BY <2>1, <2>2, <2>3 DEF LastWord
<1>11. ASSUME job', lapsed = {} PROVE \E m \in Sweeps!RunId : sweepPc'[m] \notin {"off", "gone"}
  <2>1. CASE word = "experiment.finished"
    BY <1>1, <1>11, <2>1 DEF Sweeps!Handle
  <2>2. CASE word # "experiment.finished"
    BY <1>1, <1>9, <1>11, <2>2
  <2> QED
    BY <2>1, <2>2
(* Its last words are not those of the sweep that runs, nor of one before   *)
(* it. *)
<1>13. Sweeps!SweepIsSeen'
  <2> SUFFICES ASSUME running, ~overlapped PROVE job' /\ (sweepPc'[last] \notin Asking => sweepPlaying')
    BY <1>2 DEF Sweeps!SweepIsSeen, Asking
  <2>1. last \in Sweeps!RunId /\ sweepPc[last] \in Working
    BY DEF Holder
  <2>2. job /\ (sweepPc[last] \notin Asking => sweepPlaying)
    BY SeenIs DEF Showing
  <2>3. k = last /\ k \notin lapsed
    BY <1>15, <2>1 DEF Lapsing
  <2>4. word \notin LastWord
    BY <1>3, <2>1, <2>3 DEF Working, Asking, LastWord
  <2>5. job'
    BY <1>1, <2>2, <2>4 DEF Sweeps!Handle, LastWord
  <2>6. CASE word = "sim.play"
    <3>1. sweepPlaying'
      BY <1>1, <2>6 DEF Sweeps!Handle
    <3> QED
      BY <2>5, <3>1
  <2>7. CASE word # "sim.play"
    <3>1. sweepPlaying' = sweepPlaying
      BY <1>1, <2>4, <2>7 DEF Sweeps!Handle, LastWord
    <3>2. sweepPc[last] \in Asking => sweepPc'[last] \in Asking
      BY <1>1, <2>3, <2>7, Classes
    <3> QED
      BY <2>2, <2>5, <3>1, <3>2
  <2> QED
    BY <2>6, <2>7
<1> QED
  BY <1>2, <1>5, <1>10, <1>11, <1>13 DEF Showing

LEMMA ShownStep ==
  ASSUME Sweeps!SweepAssumption, SweepTypes, Holder, Lapsing, Heard, NoneBefore, Showing, [Sweeps!Next]_(Sweeps!vars)
  PROVE  Showing'
<1>1. Working' = Working /\ Pausing' = Pausing
  BY DEF Working, Asking, Pausing
<1>2. ASSUME sweepPc' = sweepPc, UNCHANGED <<running, last, sweepPlaying, job, overlapped>>, lapsed' = {} => lapsed = {} PROVE Showing'
  BY <1>1, <1>2 DEF Showing, Sweeps!SweepIsSeen
<1>3. ASSUME NEW a \in SweepArms, Sweeps!DefineArms(a) \/ Sweeps!Vary(a) PROVE Showing'
  BY <1>2, <1>3 DEF Sweeps!DefineArms, Sweeps!Vary, Sweeps!tableVars, Sweeps!runVars, Sweeps!worldVars
<1>4. ASSUME NEW s \in SweepSeeds, Sweeps!DefineSeeds(s) \/ Sweeps!SetSeeds(s) PROVE Showing'
  BY <1>2, <1>4 DEF Sweeps!DefineSeeds, Sweeps!SetSeeds, Sweeps!tableVars, Sweeps!runVars, Sweeps!worldVars
<1>5. CASE Sweeps!Start
  <2>1. Sweeps!Started /\ sweepPlaying' = sweepPlaying /\ job' = TRUE
    BY <1>5 DEF Sweeps!Start
  <2>2. /\ last' \in Sweeps!RunId /\ last' = last + 1 /\ last \in Nat /\ sweepPc'[last'] = "sending_sim.play"
        /\ \A m \in Sweeps!RunId : m # last' => sweepPc'[m] = sweepPc[m]
    BY <2>1, Starting
  <2>3. "sending_sim.play" \in Working /\ "sending_sim.play" \notin {"off", "gone"}
    BY PlacesAre
  <2>4. (\E m \in Sweeps!RunId : sweepPc'[m] \in Working \cup Pausing) /\ (\E m \in Sweeps!RunId : sweepPc'[m] \notin {"off", "gone"})
    BY <2>2, <2>3
  <2>6. Sweeps!SweepIsSeen'
    BY <2>1, <2>2 DEF Sweeps!SweepIsSeen
  <2> QED
    BY <1>1, <2>4, <2>6 DEF Showing
<1>6. CASE Sweeps!Stop
  <2>1. running' = FALSE /\ job' = FALSE /\ UNCHANGED <<last, sweepPc, sweepPlaying, overlapped, lapsed>>
    BY <1>6 DEF Sweeps!Stop, Sweeps!pastVars
  <2> QED
    BY <1>1, <2>1 DEF Showing, Sweeps!SweepIsSeen
<1>7. CASE Sweeps!Results \/ UNCHANGED Sweeps!vars
  BY <1>2, <1>7 DEF Sweeps!Results, Sweeps!vars, Sweeps!tableVars, Sweeps!runVars, Sweeps!worldVars, Sweeps!pastVars
<1>8. ASSUME NEW k \in Sweeps!RunId, Sweeps!RunExperiment(k) PROVE Showing'
  BY <1>8, ShownMoves, ShownPost, ShownLapsed
<1>9. ASSUME NEW k \in Sweeps!RunId, Sweeps!Lapse(k) PROVE Showing'
  BY <1>2, <1>9, LapseMovesNobody
<1> QED
  BY <1>3, <1>4, <1>5, <1>6, <1>7, <1>8, <1>9, ShownAnswer DEF Sweeps!Next, Sweeps!Verbs

LEMMA QuietIs == ASSUME SweepTypes, Holder, Heard, Showing PROVE Sweeps!QuietWhenOver
<1> SUFFICES ASSUME \A k \in Sweeps!RunId : sweepPc[k] \in {"off", "gone"}, lapsed = {}
             PROVE  posts = << >> /\ ~sweepPlaying /\ ~job /\ ~running
  BY DEF Sweeps!QuietWhenOver
<1>1. \A k \in Sweeps!RunId : sweepPc[k] \notin Working \cup Pausing
  BY PlacesAre
<1>2. ~sweepPlaying /\ ~job
  BY <1>1 DEF Showing
<1>3. ~running
  BY <1>1 DEF Holder
<1>4. posts = << >>
  <2>1. ASSUME posts # << >> PROVE FALSE
    <3>1. 1 \in 1 .. Len(posts)
      <4>1. posts \in Seq(PostMade)
        BY DEF SweepTypes
      <4> QED
        BY <2>1, <4>1
    <3> QED
      BY <3>1, PostsAre DEF Heard
  <2> QED
    BY <2>1
<1> QED
  BY <1>2, <1>3, <1>4

-----------------------------------------------------------------------------
(* The table fills in the order of the matrix.                              *)
LEMMA CellAfter ==
  ASSUME Sweeps!SweepAssumption, SweepTypes, InRange, NEW k \in Sweeps!RunId, at[k] # Sweeps!Nowhere, heldSeeds[k] = seeds,
         ~(at[k].seed < seeds.len)
  PROVE  /\ at[k].seed = seeds.len
         /\ \A a \in Nat : a = at[k].arm =>
              CellsOf(at[k]) = a * seeds.len /\ Covered(at[k].arm, at[k].seed) = Covered(a + 1, 0)
<1>1. /\ at[k].arm \in Nat /\ at[k].seed \in 1 .. seeds.len /\ seeds.len \in Nat
      /\ at[k].arm \in 1 .. Len(heldArms[k]) /\ Len(heldArms[k]) \in Nat
  BY DEF SweepTypes, InRange, Reading, SeedsKept, CellAt, ArmNames
<1>2. at[k].seed = seeds.len
  BY <1>1
<1>3. ASSUME NEW a \in Nat, a = at[k].arm PROVE CellsOf(at[k]) = a * seeds.len
  <2>1. CellsOf(at[k]) = (a - 1) * seeds.len + seeds.len
    BY <1>2, <1>3 DEF CellsOf
  <2>2. \A n, m \in Nat : (n - 1) * m + m = n * m
    OBVIOUS
  <2> QED
    BY <1>1, <1>3, <2>1, <2>2
<1>4. ASSUME NEW a \in Nat, a = at[k].arm PROVE Covered(at[k].arm, at[k].seed) = Covered(a + 1, 0)
  <2> DEFINE Has(i, j) == \E n \in 1 .. Len(results) :
                            results[n].arm = arms[i] /\ results[n].seed = arrays[seeds.in][j]
  <2>1. \A i \in 1 .. Len(arms), j \in 1 .. seeds.len :
          (i < a \/ (i = a /\ j <= seeds.len)) <=> (i < a + 1 \/ (i = a + 1 /\ j <= 0))
    BY <1>1
  <2>2. Covered(a, seeds.len) = \A i \in 1 .. Len(arms), j \in 1 .. seeds.len :
          (i < a \/ (i = a /\ j <= seeds.len)) => Has(i, j)
    BY DEF Covered
  <2>3. Covered(a + 1, 0) = \A i \in 1 .. Len(arms), j \in 1 .. seeds.len :
          (i < a + 1 \/ (i = a + 1 /\ j <= 0)) => Has(i, j)
    BY DEF Covered
  <2> HIDE DEF Has
  <2>4. Covered(a, seeds.len) = Covered(a + 1, 0)
    BY <2>1, <2>2, <2>3
  <2> QED
    BY <1>2, <1>4, <2>4
<1> QED
  BY <1>2, <1>3, <1>4

LEMMA FilledKept ==
  ASSUME NEW k \in Sweeps!RunId, Filled(k), UNCHANGED <<arms, arrays, seeds, results>>,
         heldArms'[k] = heldArms[k], heldSeeds'[k] = heldSeeds[k], at'[k] = at[k],
         sweepPc'[k] \in Working <=> sweepPc[k] \in Working,
         sweepPc'[k] \notin NotYet => sweepPc[k] \notin NotYet,
         sweepPc'[k] = "cell" <=> sweepPc[k] = "cell"
  PROVE  Filled(k)'
<1>1. Working' = Working /\ NotYet' = NotYet /\ Sweeps!Nowhere' = Sweeps!Nowhere
  BY DEF Working, NotYet, Asking, Sweeps!Nowhere
<1>2. \A a, s : Covered(a, s) = Covered(a, s)'
  BY DEF Covered
<1>3. CellsOf(at[k])' = CellsOf(at[k]) /\ Sweeps!Total' = Sweeps!Total
  BY <1>1 DEF CellsOf, Sweeps!Total
<1>4. Covered(at[k].arm, at[k].seed)' = Covered(at[k].arm, at[k].seed)
  BY DEF Covered
<1>5. Covered(at[k].arm, at[k].seed - 1)' = Covered(at[k].arm, at[k].seed - 1)
  BY DEF Covered
<1>6. Covered(Len(arms), seeds.len)' = Covered(Len(arms), seeds.len)
  BY DEF Covered
<1> QED
  BY <1>1, <1>3, <1>4, <1>5, <1>6 DEF Filled

(* Another cell: one more than have been filled. *)
LEMMA FilledNextCell ==
  ASSUME Sweeps!SweepAssumption, SweepTypes, InRange, NEW k \in Sweeps!RunId, Filled(k), Sweeps!NextCell(k)
  PROVE  Filled(k)'
<1>1. /\ sweepPc[k] = "next" /\ Sweeps!Ahead(k) # Sweeps!Nowhere /\ Sweeps!Goto(k, "cell") /\ at' = [at EXCEPT ![k] = Sweeps!Ahead(k)]
      /\ heldSeeds' = [heldSeeds EXCEPT ![k] = IF Sweeps!Ahead(k).seed = 1 THEN seeds ELSE @]
      /\ UNCHANGED <<arms, arrays, seeds, results, heldArms>>
  BY DEF Sweeps!NextCell, Sweeps!matrixVars, Sweeps!tableVars
<1>2. "cell" \in Place /\ "next" \in Working \ {"cell"} /\ "next" \notin NotYet /\ "cell" \in Working
  BY DEF Place, Working, NotYet, Asking
<1>3. sweepPc'[k] = "cell"
  BY <1>1, <1>2, GoesTo
<1>4. /\ at'[k] = Sweeps!Ahead(k) /\ heldArms'[k] = heldArms[k]
      /\ heldSeeds'[k] = IF Sweeps!Ahead(k).seed = 1 THEN seeds ELSE heldSeeds[k]
  BY <1>1 DEF SweepTypes
<1>5. /\ heldArms[k] = arms /\ (at[k] # Sweeps!Nowhere => heldSeeds[k] = seeds)
      /\ Len(results) = CellsOf(at[k]) /\ Covered(at[k].arm, at[k].seed)
  BY <1>1, <1>2 DEF Filled
<1>6. /\ heldArms[k] \in ArmNames /\ Len(heldArms[k]) \in Nat /\ Reading(k)
      /\ seeds.len > 0 /\ seeds.len \in Nat /\ at[k] \in CellAt
  BY DEF SweepTypes, InRange, SeedsKept, ArmNames
<1>7. heldArms[k] # << >>
  BY <1>1 DEF Sweeps!Ahead
<1>8. /\ heldSeeds'[k] = seeds
      /\ Len(results) = CellsOf(Sweeps!Ahead(k)) - 1
      /\ Covered(Sweeps!Ahead(k).arm, Sweeps!Ahead(k).seed - 1)
  <2>1. CASE at[k] = Sweeps!Nowhere
    <3>1. Sweeps!Ahead(k) = [arm |-> 1, seed |-> 1]
      BY <1>7, <2>1 DEF Sweeps!Ahead
    <3>2. Sweeps!Ahead(k).arm = 1 /\ Sweeps!Ahead(k).seed = 1
      BY <3>1
    <3>3. CellsOf(Sweeps!Ahead(k)) = 1
      <4>1. CellsOf(Sweeps!Ahead(k)) = (1 - 1) * seeds.len + 1
        BY <1>1, <3>2 DEF CellsOf
      <4>2. \A m \in Nat : (1 - 1) * m + 1 = 1
        OBVIOUS
      <4> QED
        BY <1>6, <4>1, <4>2
    <3>4. Len(results) = 0
      BY <1>5, <2>1 DEF CellsOf
    <3>5. Covered(1, 0)
      BY DEF Covered
    <3>6. Covered(Sweeps!Ahead(k).arm, Sweeps!Ahead(k).seed - 1)
      <4>1. Sweeps!Ahead(k).arm = 1 /\ Sweeps!Ahead(k).seed - 1 = 0
        BY <3>2
      <4> QED
        BY <3>5, <4>1
    <3> QED
      BY <1>4, <3>2, <3>3, <3>4, <3>6
  <2>2. CASE at[k] # Sweeps!Nowhere /\ at[k].seed < heldSeeds[k].len
    <3>1. Sweeps!Ahead(k) = [at[k] EXCEPT !.seed = @ + 1]
      BY <1>7, <2>2 DEF Sweeps!Ahead
    <3>2. Sweeps!Ahead(k).arm = at[k].arm /\ Sweeps!Ahead(k).seed = at[k].seed + 1
      BY <1>6, <3>1 DEF CellAt
    <3>3. at[k].arm \in Nat /\ at[k].seed \in Nat /\ at[k].seed >= 1
      BY <1>6, <2>2 DEF CellAt, Reading
    <3>4. heldSeeds'[k] = seeds
      BY <1>4, <1>5, <2>2
    <3>5. CellsOf(Sweeps!Ahead(k)) = CellsOf(at[k]) + 1
      <4>1. /\ CellsOf(Sweeps!Ahead(k)) = (at[k].arm - 1) * seeds.len + (at[k].seed + 1)
            /\ CellsOf(at[k]) = (at[k].arm - 1) * seeds.len + at[k].seed
        BY <1>1, <2>2, <3>2 DEF CellsOf
      <4>2. (at[k].arm - 1) * seeds.len \in Int
        BY <1>6, <3>3
      <4> QED
        BY <3>3, <4>1, <4>2
    <3>6. CellsOf(at[k]) \in Int
      <4>1. CellsOf(at[k]) = (at[k].arm - 1) * seeds.len + at[k].seed
        BY <2>2 DEF CellsOf
      <4> QED
        BY <1>6, <3>3, <4>1
    <3>7. Len(results) = CellsOf(Sweeps!Ahead(k)) - 1
      BY <1>5, <3>5, <3>6
    <3>8. Sweeps!Ahead(k).seed - 1 = at[k].seed
      BY <3>2, <3>3
    <3> QED
      BY <1>5, <3>2, <3>4, <3>7, <3>8
  <2>3. CASE at[k] # Sweeps!Nowhere /\ ~(at[k].seed < heldSeeds[k].len)
    <3>1. Sweeps!Ahead(k) = [arm |-> at[k].arm + 1, seed |-> 1] /\ at[k].arm \in Nat
      BY <1>1, <1>6, <1>7, <2>3 DEF Sweeps!Ahead, CellAt
    <3> DEFINE a == at[k].arm
    <3>2. Sweeps!Ahead(k).arm = a + 1 /\ Sweeps!Ahead(k).seed = 1 /\ a \in Nat
      BY <3>1
    <3>3. CellsOf(at[k]) = a * seeds.len /\ Covered(at[k].arm, at[k].seed) = Covered(a + 1, 0)
      BY <1>5, <2>3, <3>1, CellAfter
    <3> HIDE DEF a
    <3>4. CellsOf(Sweeps!Ahead(k)) = a * seeds.len + 1
      <4>1. CellsOf(Sweeps!Ahead(k)) = (a + 1 - 1) * seeds.len + 1
        BY <1>1, <3>2 DEF CellsOf
      <4>2. a + 1 - 1 = a
        BY <3>2
      <4> QED
        BY <4>1, <4>2
    <3>5. a * seeds.len \in Nat
      BY <1>6, <3>2
    <3>6. Len(results) = CellsOf(Sweeps!Ahead(k)) - 1
      BY <1>5, <3>3, <3>4, <3>5
    <3>7. Covered(Sweeps!Ahead(k).arm, Sweeps!Ahead(k).seed - 1)
      <4>1. Sweeps!Ahead(k).seed - 1 = 0
        BY <3>2
      <4> QED
        BY <1>5, <3>2, <3>3, <4>1
    <3> QED
      BY <1>4, <3>2, <3>6, <3>7
  <2> QED
    BY <2>1, <2>2, <2>3
<1>9. Working' = Working /\ NotYet' = NotYet /\ Sweeps!Nowhere' = Sweeps!Nowhere
  BY DEF Working, NotYet, Asking, Sweeps!Nowhere
<1>10. CellsOf(at[k])' = CellsOf(Sweeps!Ahead(k))
  BY <1>1, <1>4, <1>9 DEF CellsOf
<1>11. Covered(at[k].arm, at[k].seed - 1)' = Covered(Sweeps!Ahead(k).arm, Sweeps!Ahead(k).seed - 1)
  BY <1>1, <1>4 DEF Covered
<1>12. /\ heldArms'[k] = arms' /\ heldSeeds'[k] = seeds'
       /\ Len(results') = CellsOf(at[k])' - 1 /\ Covered(at[k].arm, at[k].seed - 1)'
  BY <1>1, <1>4, <1>5, <1>8, <1>10, <1>11
<1> QED
  BY <1>2, <1>3, <1>9, <1>12 DEF Filled

(* A cell that ends is the one that was wanting. *)
LEMMA FilledEndCell ==
  ASSUME Sweeps!SweepAssumption, SweepTypes, InRange, NEW k \in Sweeps!RunId, Filled(k), Sweeps!EndCell(k)
  PROVE  Filled(k)'
<1>1. /\ sweepPc[k] = "cell" /\ Sweeps!Goto(k, "sending_job.progress")
      /\ UNCHANGED <<arms, arrays, seeds, heldArms, heldSeeds, at>>
  BY DEF Sweeps!EndCell, Sweeps!matrixVars
<1>2. /\ "sending_job.progress" \in Place /\ "sending_job.progress" \in Working \ {"cell"}
      /\ "cell" \notin NotYet
  BY DEF Place, Working, NotYet, Asking
<1>3. sweepPc'[k] = "sending_job.progress"
  BY <1>1, <1>2, GoesTo
<1>4. at[k] # Sweeps!Nowhere /\ at[k] \in CellAt /\ Reading(k) /\ seeds.len \in Nat
  BY <1>1 DEF InRange, Reading, SweepTypes, SeedsKept
<1>5. /\ heldArms[k] = arms /\ heldSeeds[k] = seeds
      /\ Len(results) = CellsOf(at[k]) - 1 /\ Covered(at[k].arm, at[k].seed - 1)
  BY <1>1, <1>2, <1>4 DEF Filled
<1>6. at[k].arm \in Nat /\ at[k].seed \in Nat /\ at[k].seed >= 1
  BY <1>4 DEF CellAt, Reading
<1>7. /\ Len(results) \in Nat /\ Len(results') = Len(results) + 1
      /\ \A i \in 1 .. Len(results) : results'[i] = results[i]
  BY Ending
<1> DEFINE row == [run |-> k, arm |-> heldArms[k][at[k].arm], seed |-> arrays[heldSeeds[k].in][at[k].seed]]
<1>8. row.arm = arms[at[k].arm] /\ row.seed = arrays[seeds.in][at[k].seed]
  BY <1>5
<1>9. results'[Len(results) + 1] = row
  BY Ending
<1> HIDE DEF row
<1>10. Len(results') = CellsOf(at[k])
  <2>1. CellsOf(at[k]) \in Int
    <3>1. CellsOf(at[k]) = (at[k].arm - 1) * seeds.len + at[k].seed
      BY <1>4 DEF CellsOf
    <3> QED
      BY <1>4, <1>6, <3>1
  <2> QED
    BY <1>5, <1>7, <2>1
<1>11. ASSUME NEW i \in 1 .. Len(arms), NEW j \in 1 .. seeds.len, i < at[k].arm \/ (i = at[k].arm /\ j <= at[k].seed)
       PROVE  \E n \in 1 .. Len(results') :
                results'[n].arm = arms[i] /\ results'[n].seed = arrays[seeds.in][j]
  <2>1. CASE i = at[k].arm /\ j = at[k].seed
    <3>1. Len(results) + 1 \in 1 .. Len(results')
      BY <1>7
    <3> QED
      BY <1>8, <1>9, <2>1, <3>1
  <2>2. CASE ~(i = at[k].arm /\ j = at[k].seed)
    <3>1. i < at[k].arm \/ (i = at[k].arm /\ j <= at[k].seed - 1)
      BY <1>4, <1>6, <1>11, <2>2
    <3>2. PICK n \in 1 .. Len(results) : results[n].arm = arms[i] /\ results[n].seed = arrays[seeds.in][j]
      BY <1>5, <3>1 DEF Covered
    <3>3. n \in 1 .. Len(results') /\ results'[n] = results[n]
      BY <1>7, <3>2
    <3> QED
      BY <3>2, <3>3
  <2> QED
    BY <2>1, <2>2
<1>12. Working' = Working /\ NotYet' = NotYet /\ Sweeps!Nowhere' = Sweeps!Nowhere
  BY DEF Working, NotYet, Asking, Sweeps!Nowhere
<1>13. CellsOf(at[k])' = CellsOf(at[k])
  BY <1>1, <1>12 DEF CellsOf
<1>14. Covered(at[k].arm, at[k].seed)'
  BY <1>1, <1>11 DEF Covered
<1> QED
  BY <1>1, <1>2, <1>3, <1>5, <1>10, <1>12, <1>13, <1>14 DEF Filled

(* A sweep that nobody stopped leaves when no cell is wanting. *)
LEMMA FilledLeave ==
  ASSUME Sweeps!SweepAssumption, SweepTypes, InRange, NEW k \in Sweeps!RunId, Filled(k), Sweeps!Leave(k), k \notin cancelled
  PROVE  Filled(k)'
<1>1. /\ sweepPc[k] = "next" /\ Sweeps!Ahead(k) = Sweeps!Nowhere /\ Sweeps!Goto(k, "sending_sim.pause")
      /\ UNCHANGED <<arms, arrays, seeds, results, heldArms, heldSeeds, at>>
  BY DEF Sweeps!Leave, Sweeps!matrixVars
<1>2. /\ "sending_sim.pause" \in Place /\ "sending_sim.pause" \notin Working
      /\ "next" \in Working \ {"cell"} /\ "next" \notin NotYet
  BY DEF Place, Working, Pausing, NotYet, Asking
<1>3. sweepPc'[k] = "sending_sim.pause"
  BY <1>1, <1>2, GoesTo
<1>4. /\ heldArms[k] = arms /\ (at[k] # Sweeps!Nowhere => heldSeeds[k] = seeds)
      /\ Len(results) = CellsOf(at[k]) /\ Covered(at[k].arm, at[k].seed)
  BY <1>1, <1>2 DEF Filled
<1>5. Reading(k) /\ at[k] \in CellAt /\ seeds.len \in Nat /\ arms \in ArmNames /\ Len(arms) \in Nat
  BY DEF InRange, SweepTypes, SeedsKept, ArmNames
<1>6. Len(results) = Sweeps!Total /\ Covered(Len(arms), seeds.len)
  <2>1. CASE at[k] = Sweeps!Nowhere
    <3>1. arms = << >>
      <4> DEFINE first == [arm |-> 1, seed |-> 1]
      <4>1. first.arm = 1 /\ Sweeps!Nowhere.arm = 0
        BY DEF Sweeps!Nowhere
      <4>2. first # Sweeps!Nowhere
        BY <4>1
      <4> QED
        BY <1>1, <1>4, <2>1, <4>2 DEF Sweeps!Ahead
    <3>2. Len(arms) = 0
      BY <3>1
    <3>3. Sweeps!Total = 0
      <4>1. \A m \in Nat : 0 * m = 0
        OBVIOUS
      <4> QED
        BY <1>5, <3>2, <4>1 DEF Sweeps!Total
    <3>4. Len(results) = 0
      BY <1>4, <2>1 DEF CellsOf
    <3>5. Covered(Len(arms), seeds.len)
      BY <3>2 DEF Covered
    <3> QED
      BY <3>3, <3>4, <3>5
  <2>2. CASE at[k] # Sweeps!Nowhere
    <3>1. heldSeeds[k] = seeds /\ at[k].arm \in 1 .. Len(arms) /\ at[k].seed \in 1 .. seeds.len
      BY <1>4, <1>5, <2>2 DEF Reading
    <3>2. arms # << >>
      BY <1>5, <3>1
    <3>3. ~(at[k].seed < seeds.len)
      <4>1. ASSUME at[k].seed < seeds.len PROVE FALSE
        <5>1. Sweeps!Ahead(k) = [at[k] EXCEPT !.seed = @ + 1]
          BY <1>4, <2>2, <3>1, <3>2, <4>1 DEF Sweeps!Ahead
        <5>2. Sweeps!Ahead(k).seed = at[k].seed + 1
          BY <1>5, <5>1 DEF CellAt
        <5>3. Sweeps!Nowhere.seed = 0
          BY DEF Sweeps!Nowhere
        <5>4. Sweeps!Ahead(k).seed = 0
          BY <1>1, <5>3
        <5>5. at[k].seed \in Nat
          BY <1>5, <3>1
        <5> QED
          BY <5>2, <5>4, <5>5
      <4> QED
        BY <4>1
    <3>4. ~(at[k].arm < Len(arms))
      <4>1. ASSUME at[k].arm < Len(arms) PROVE FALSE
        <5>1. Sweeps!Ahead(k) = [arm |-> at[k].arm + 1, seed |-> 1]
          BY <1>4, <2>2, <3>1, <3>2, <3>3, <4>1 DEF Sweeps!Ahead
        <5>2. Sweeps!Ahead(k).seed = 1
          BY <5>1
        <5>3. Sweeps!Nowhere.seed = 0
          BY DEF Sweeps!Nowhere
        <5>4. Sweeps!Ahead(k).seed = 0
          BY <1>1, <5>3
        <5> QED
          BY <5>2, <5>4
      <4> QED
        BY <4>1
    <3>5. at[k].arm = Len(arms) /\ at[k].seed = seeds.len
      BY <1>5, <3>1, <3>3, <3>4
    <3>6. CellsOf(at[k]) = Len(arms) * seeds.len
      BY <1>5, <2>2, <3>1, <3>3, <3>5, CellAfter
    <3> QED
      BY <1>4, <3>5, <3>6 DEF Sweeps!Total
  <2> QED
    BY <2>1, <2>2
<1>7. Working' = Working /\ NotYet' = NotYet /\ Sweeps!Nowhere' = Sweeps!Nowhere
  BY DEF Working, NotYet, Asking, Sweeps!Nowhere
<1>8. Sweeps!Total' = Sweeps!Total
  BY <1>1 DEF Sweeps!Total
<1>9. Covered(Len(arms), seeds.len)' = Covered(Len(arms), seeds.len)
  <2>1. UNCHANGED <<arms, arrays, seeds, results>>
    BY <1>1
  <2> QED
    BY <2>1 DEF Covered
<1>10. heldArms'[k] = arms' /\ (at'[k] # Sweeps!Nowhere => heldSeeds'[k] = seeds')
  BY <1>1, <1>4
<1> QED
  BY <1>1, <1>2, <1>3, <1>6, <1>7, <1>8, <1>9, <1>10 DEF Filled

LEMMA WholeRun ==
  ASSUME Sweeps!SweepAssumption, SweepTypes, InRange, Holder, Whole, NEW k \in Sweeps!RunId, Sweeps!RunExperiment(k)
  PROVE  Whole'
<1> SUFFICES ASSUME last' \in Sweeps!RunId, last' \notin cancelled', ~changed' PROVE Filled(last)'
  BY DEF Whole, Sweeps!RunId
<1>1. last' = last /\ cancelled' = cancelled /\ changed' = changed
  BY DEF Sweeps!RunExperiment, Sweeps!BeginLoop, Sweeps!NextCell, Sweeps!EndCell, Sweeps!Leave, Sweeps!Post, Sweeps!GiveUp, Sweeps!pastVars
<1>2. last \in Sweeps!RunId /\ last \notin cancelled /\ Filled(last)
  BY <1>1 DEF Whole
<1> SUFFICES ASSUME NEW l \in Sweeps!RunId, l = last, Filled(l), l \notin cancelled PROVE Filled(l)'
  BY <1>1, <1>2 DEF Filled
<1>3. ASSUME NEW place \in Place, Sweeps!Goto(k, place),
             k = l => /\ place \in Working <=> sweepPc[k] \in Working
                      /\ place \notin NotYet => sweepPc[k] \notin NotYet
                      /\ place # "cell" /\ sweepPc[k] # "cell",
             UNCHANGED <<Sweeps!matrixVars, Sweeps!tableVars, heldArms, heldSeeds, at>>
      PROVE  Filled(l)'
  <2>1. sweepPc'[k] = place /\ \A m \in Sweeps!RunId : m # k => sweepPc'[m] = sweepPc[m]
    BY <1>3, GoesTo
  <2>2. UNCHANGED <<arms, arrays, seeds, results>>
    BY <1>3 DEF Sweeps!matrixVars, Sweeps!tableVars
  <2>3. heldArms'[l] = heldArms[l] /\ heldSeeds'[l] = heldSeeds[l] /\ at'[l] = at[l]
    BY <1>3
  <2>4. /\ sweepPc'[l] \in Working <=> sweepPc[l] \in Working
        /\ sweepPc'[l] \notin NotYet => sweepPc[l] \notin NotYet
        /\ sweepPc'[l] = "cell" <=> sweepPc[l] = "cell"
    BY <1>3, <2>1
  <2> QED
    BY <2>2, <2>3, <2>4, FilledKept
<1>4. sweepPc[k] \in {"loop", "next", "cell"} => k = l
  BY PlacesAre DEF Holder
<1>5. CASE Sweeps!BeginLoop(k)
  <2>1. /\ sweepPc[k] = "loop" /\ Sweeps!Goto(k, "next") /\ heldArms' = [heldArms EXCEPT ![k] = arms]
        /\ UNCHANGED <<arms, arrays, seeds, results, heldSeeds, at>>
    BY <1>5 DEF Sweeps!BeginLoop, Sweeps!matrixVars, Sweeps!tableVars
  <2>2. k = l /\ "next" \in Place /\ {"loop", "next"} \subseteq Working
    BY <1>4, <2>1 DEF Place, Working
  <2>3. sweepPc'[l] = "next" /\ heldArms'[l] = arms
    BY <2>1, <2>2, GoesTo DEF SweepTypes
  <2>4. Working' = Working /\ NotYet' = NotYet /\ Sweeps!Nowhere' = Sweeps!Nowhere
    BY DEF Working, NotYet, Asking, Sweeps!Nowhere
  <2>5. /\ at[l] # Sweeps!Nowhere => heldSeeds[l] = seeds
        /\ Len(results) = CellsOf(at[l]) /\ Covered(at[l].arm, at[l].seed)
    BY <2>1, <2>2 DEF Filled
  <2>6. CellsOf(at[l])' = CellsOf(at[l])
    BY <2>1, <2>4 DEF CellsOf
  <2>7. Covered(at[l].arm, at[l].seed)' = Covered(at[l].arm, at[l].seed)
    <3>1. UNCHANGED <<arms, arrays, seeds, results, at>>
      BY <2>1
    <3> QED
      BY <3>1 DEF Covered
  <2>8. arms' = arms /\ seeds' = seeds /\ heldSeeds' = heldSeeds /\ at' = at /\ results' = results
    BY <2>1
  <2> QED
    BY <2>2, <2>3, <2>4, <2>5, <2>6, <2>7, <2>8 DEF Filled
<1>6. CASE Sweeps!NextCell(k)
  <2>1. k = l
    BY <1>4, <1>6 DEF Sweeps!NextCell
  <2> QED
    BY <1>6, <2>1, FilledNextCell
<1>7. CASE Sweeps!EndCell(k)
  <2>1. k = l
    BY <1>4, <1>7 DEF Sweeps!EndCell
  <2> QED
    BY <1>7, <2>1, FilledEndCell
<1>8. CASE Sweeps!Leave(k)
  <2>1. k = l
    BY <1>4, <1>8 DEF Sweeps!Leave
  <2> QED
    BY <1>8, <2>1, FilledLeave
<1>9. ASSUME NEW word \in Sweeps!Verb, Sweeps!Post(k, word) PROVE Filled(l)'
  <2>1. /\ sweepPc[k] = Sweeps!Sending(word) /\ Sweeps!Goto(k, Sweeps!Waiting(word)) /\ Sweeps!Waiting(word) \in Place
        /\ UNCHANGED <<Sweeps!matrixVars, Sweeps!tableVars, heldArms, heldSeeds, at>>
    BY <1>9, WordsArePlaces DEF Sweeps!Post
  <2>2. /\ Sweeps!Waiting(word) \in Working <=> Sweeps!Sending(word) \in Working
        /\ Sweeps!Waiting(word) \in NotYet <=> Sweeps!Sending(word) \in NotYet
        /\ Sweeps!Waiting(word) # "cell" /\ Sweeps!Sending(word) # "cell"
    BY Classes DEF NotYet
  <2> QED
    BY <1>3, <2>1, <2>2
<1>10. ASSUME NEW word \in Sweeps!Verb, Sweeps!GiveUp(k, word) PROVE Filled(l)'
  <2>1. /\ Sweeps!Goto(k, Sweeps!After(word)) /\ Sweeps!After(word) \in Place
        /\ word \notin LastWord => k \in cancelled
        /\ sweepPc[k] \in {Sweeps!Sending(word), Sweeps!Waiting(word)}
        /\ UNCHANGED <<Sweeps!matrixVars, Sweeps!tableVars, heldArms, heldSeeds, at>>
    BY <1>10, WordsArePlaces DEF Sweeps!GiveUp, Sweeps!LastWords, LastWord
  <2>2. /\ Sweeps!After(word) # "cell" /\ sweepPc[k] # "cell"
        /\ Sweeps!After(word) \in Working <=> sweepPc[k] \in Working
        /\ word \in LastWord => sweepPc[k] \notin NotYet
    <3>1. word \in LastWord => word # "sim.play"
      BY DEF LastWord
    <3> QED
      BY <2>1, <3>1, Classes DEF NotYet
  <2> QED
    BY <1>3, <2>1, <2>2
<1> QED
  BY <1>5, <1>6, <1>7, <1>8, <1>9, <1>10 DEF Sweeps!RunExperiment

LEMMA WholeStep ==
  ASSUME Sweeps!SweepAssumption, SweepTypes, InRange, Holder, Whole, [Sweeps!Next]_(Sweeps!vars)
  PROVE  Whole'
<1>1. ASSUME NEW a \in SweepArms, Sweeps!DefineArms(a) \/ Sweeps!Vary(a) PROVE Whole'
  BY <1>1 DEF Sweeps!DefineArms, Sweeps!Vary, Sweeps!Change, Whole
<1>2. ASSUME NEW s \in SweepSeeds, Sweeps!DefineSeeds(s) \/ Sweeps!SetSeeds(s) PROVE Whole'
  BY <1>2 DEF Sweeps!DefineSeeds, Sweeps!SetSeeds, Sweeps!Change, Whole
<1>3. CASE Sweeps!Start
  <2>1. /\ Sweeps!Started /\ results' = << >> /\ cancelled' = cancelled
        /\ UNCHANGED <<arms, arrays, seeds, heldArms, heldSeeds, at>>
    BY <1>3 DEF Sweeps!Start, Sweeps!Started, Sweeps!matrixVars
  <2>2. last' \in Sweeps!RunId /\ last' > last /\ sweepPc'[last'] = "sending_sim.play"
    BY <2>1, Starting
  <2>3. at[last'] = Sweeps!Nowhere
    <3>1. sweepPc[last'] = "off"
      BY <2>2 DEF Holder
    <3> QED
      BY <2>2, <3>1, PlacesAre DEF InRange, Reading
  <2>4. /\ "sending_sim.play" \in Working \ {"cell"} /\ "sending_sim.play" \in NotYet
        /\ Working' = Working /\ NotYet' = NotYet /\ Sweeps!Nowhere' = Sweeps!Nowhere
    BY DEF Working, Asking, NotYet, Sweeps!Nowhere
  <2>5. Len(results') = 0
    BY <2>1
  <2>6. at'[last'] = Sweeps!Nowhere
    BY <2>1, <2>3
  <2>7. CellsOf(at[last])' = 0
    BY <2>4, <2>6 DEF CellsOf
  <2>8. Covered(at[last].arm, at[last].seed)'
    <3>1. at'[last'].arm = 0
      BY <2>6 DEF Sweeps!Nowhere
    <3>2. \A i \in 1 .. Len(arms') : ~(i < 0 \/ i = 0)
      OBVIOUS
    <3> QED
      BY <3>1, <3>2 DEF Covered
  <2>9. Filled(last)'
    BY <2>2, <2>4, <2>5, <2>6, <2>7, <2>8 DEF Filled
  <2> QED
    BY <2>9 DEF Whole
<1>4. CASE Sweeps!Stop
  <2>1. cancelled' = cancelled \cup {last} /\ last' = last
    BY <1>4 DEF Sweeps!Stop
  <2> QED
    BY <2>1 DEF Whole
<1>5. ASSUME UNCHANGED <<Sweeps!matrixVars, results, heldArms, heldSeeds, at, last, cancelled, changed>>,
             sweepPc' \in [Sweeps!RunId -> Place],
             \A m \in Sweeps!RunId : /\ sweepPc'[m] \in Working <=> sweepPc[m] \in Working
                                     /\ sweepPc'[m] \notin NotYet => sweepPc[m] \notin NotYet
                                     /\ sweepPc'[m] = "cell" <=> sweepPc[m] = "cell"
      PROVE  Whole'
  <2> SUFFICES ASSUME last \in Sweeps!RunId, last \notin cancelled, ~changed PROVE Filled(last)'
    BY <1>5 DEF Whole, Sweeps!RunId
  <2>1. Filled(last)
    BY DEF Whole
  <2>2. UNCHANGED <<arms, arrays, seeds, results>> /\ last' = last
    BY <1>5 DEF Sweeps!matrixVars
  <2> SUFFICES ASSUME NEW l \in Sweeps!RunId, l = last, Filled(l) PROVE Filled(l)'
    BY <2>1, <2>2 DEF Filled
  <2>3. heldArms'[l] = heldArms[l] /\ heldSeeds'[l] = heldSeeds[l] /\ at'[l] = at[l]
    BY <1>5
  <2> QED
    BY <1>5, <2>2, <2>3, FilledKept
<1>6. CASE Sweeps!Results \/ UNCHANGED Sweeps!vars
  <2>1. UNCHANGED <<Sweeps!matrixVars, results, heldArms, heldSeeds, at, last, cancelled, changed, sweepPc>>
    BY <1>6 DEF Sweeps!Results, Sweeps!vars, Sweeps!tableVars, Sweeps!runVars, Sweeps!pastVars
  <2>2. sweepPc' \in [Sweeps!RunId -> Place]
    BY <2>1 DEF SweepTypes
  <2> QED
    BY <1>5, <2>1, <2>2
<1>7. CASE Sweeps!Answer
  <2> DEFINE k == posts[1].by
             word == posts[1].verb
  <2>1. UNCHANGED <<Sweeps!matrixVars, results, heldArms, heldSeeds, at, last, cancelled, changed>>
    BY <1>7 DEF Sweeps!Answer, Sweeps!tableVars, Sweeps!pastVars
  <2>2. /\ k \in Sweeps!RunId /\ word \in Sweeps!Verb /\ sweepPc' \in [Sweeps!RunId -> Place]
        /\ sweepPc'[k] = IF sweepPc[k] = Sweeps!Waiting(word) THEN Sweeps!After(word) ELSE sweepPc[k]
        /\ \A m \in Sweeps!RunId : m # k => sweepPc'[m] = sweepPc[m]
    BY <1>7, Answering
  <2> HIDE DEF k, word
  <2>3. /\ Sweeps!After(word) \in Working <=> Sweeps!Waiting(word) \in Working
        /\ Sweeps!Waiting(word) \in NotYet => Sweeps!After(word) \in NotYet
        /\ Sweeps!After(word) # "cell" /\ Sweeps!Waiting(word) # "cell"
    BY <2>2, Classes DEF NotYet
  <2>4. \A m \in Sweeps!RunId : /\ sweepPc'[m] \in Working <=> sweepPc[m] \in Working
                                /\ sweepPc'[m] \notin NotYet => sweepPc[m] \notin NotYet
                                /\ sweepPc'[m] = "cell" <=> sweepPc[m] = "cell"
    BY <2>2, <2>3
  <2> QED
    BY <1>5, <2>1, <2>2, <2>4
<1>8. ASSUME NEW k \in Sweeps!RunId, Sweeps!Lapse(k) PROVE Whole'
  <2>1. UNCHANGED <<Sweeps!matrixVars, results, heldArms, heldSeeds, at, last, cancelled, changed, sweepPc>>
    BY <1>8, LapseMovesNobody
  <2>2. sweepPc' \in [Sweeps!RunId -> Place]
    BY <2>1 DEF SweepTypes
  <2> QED
    BY <1>5, <2>1, <2>2
<1> QED
  BY <1>1, <1>2, <1>3, <1>4, <1>6, <1>7, <1>8, WholeRun DEF Sweeps!Next, Sweeps!Verbs

LEMMA EveryCellIs ==
  ASSUME Sweeps!SweepAssumption, SweepTypes, InRange, Holder, Whole
  PROVE  Sweeps!EveryCellOnce
<1> SUFFICES ASSUME done = "closed", last \notin cancelled, ~changed
             PROVE  /\ Len(results) = Sweeps!Total
                    /\ \A i \in 1 .. Len(arms), j \in 1 .. seeds.len :
                         \E n \in 1 .. Len(results) :
                           results[n].arm = arms[i] /\ results[n].seed = arrays[seeds.in][j]
  BY DEF Sweeps!EveryCellOnce
<1>1. last \in Sweeps!RunId
  <2>1. last # 0 /\ last \in 0 .. SweepRuns
    BY DEF Holder, SweepTypes
  <2> QED
    BY <2>1, RunIdsAre
<1>2. sweepPc[last] \notin Working
  BY <1>1 DEF Holder
<1>3. Len(results) = Sweeps!Total /\ Covered(Len(arms), seeds.len)
  BY <1>1, <1>2 DEF Whole, Filled
<1>4. Len(arms) \in Nat /\ seeds.len \in Nat
  BY DEF SweepTypes, SeedsKept, ArmNames
<1>5. \A i \in 1 .. Len(arms), j \in 1 .. seeds.len : i < Len(arms) \/ (i = Len(arms) /\ j <= seeds.len)
  BY <1>4
<1> QED
  BY <1>3, <1>5 DEF Covered

LEMMA SweepTypeOKIs ==
  ASSUME Sweeps!SweepAssumption, SweepInv
  PROVE  Sweeps!TypeOK
<1>1. SweepTypes /\ InRange /\ Holder /\ Lapsing /\ Heard
  BY DEF SweepInv
<1>2. last \in Nat /\ \A k \in Sweeps!RunId : k \in Nat /\ k >= 1
  BY <1>1, RunIdsAre DEF SweepTypes
<1>3. \A i \in 1 .. Len(results) : results[i].run \in 1 .. last
  <2>1. \A c \in Row : c.run \in Sweeps!RunId
    BY DEF Row
  <2>2. \A i \in 1 .. Len(results) : results[i].run \in Sweeps!RunId /\ results[i].run = last
    BY <1>1, <2>1 DEF SweepTypes, Holder, Sweeps!TableIsOfOneSweep
  <2>3. last \in Sweeps!RunId => last \in 1 .. last
    BY <1>2
  <2> QED
    BY <2>2, <2>3
<1>4. /\ \A i \in 1 .. Len(posts) : posts[i].by \in 1 .. last /\ posts[i].verb \in Sweeps!Verb
      /\ lapsed \subseteq 1 .. last
  <2>1. \A k \in Sweeps!RunId : sweepPc[k] # "off" => k \in 1 .. last
    <3> SUFFICES ASSUME NEW k \in Sweeps!RunId, sweepPc[k] # "off" PROVE k \in 1 .. last
      OBVIOUS
    <3>1. ~(k > last)
      BY <1>1 DEF Holder
    <3> QED
      BY <1>2, <3>1
  <2>2. lapsed \subseteq 1 .. last
    BY <1>1, <2>1 DEF Lapsing
  <2>3. \A i \in 1 .. Len(posts) : posts[i].by \in 1 .. last
    BY <1>1, <2>1, <2>2, PostsAre DEF Heard
  <2> QED
    BY <1>1, <2>2, <2>3, PostsAre
<1>5. {sweepPlaying, job, verdict} \subseteq BOOLEAN
  BY <1>1 DEF SweepTypes
<1>6. seeds.in \in 1 .. Len(arrays) /\ seeds.len \in 0 .. Len(arrays[seeds.in]) /\ arms \in SweepArms
  BY <1>1 DEF InRange, Listed
<1> QED
  BY <1>1, <1>3, <1>4, <1>5, <1>6 DEF Sweeps!TypeOK, SweepTypes, Holder

-----------------------------------------------------------------------------
LEMMA SweepInvStep ==
  ASSUME Sweeps!SweepAssumption, SweepInv, [Sweeps!Next]_(Sweeps!vars)
  PROVE  SweepInv'
BY SweepTypesStep, InRangeStep, HolderStep, LapsingStep, HeardStep, NoneBeforeStep, ShownStep, WholeStep DEF SweepInv

LEMMA SweepInvImplies ==
  ASSUME Sweeps!SweepAssumption, SweepInv
  PROVE  Sweeps!TypeOK /\ Sweeps!TableIsOfOneSweep /\ Sweeps!EveryCellOnce /\ Sweeps!SweepIsSeen /\ Sweeps!QuietWhenOver
BY SweepTypeOKIs, QuietIs, EveryCellIs DEF SweepInv, Holder, Showing

-----------------------------------------------------------------------------
(* THE PARTS SIDE BY SIDE.  What is proved of each alone, with the bounds   *)
(* it has here.                                                             *)
SendsP == INSTANCE ClockProofs WITH
  StepMs <- 2, TickSizes <- {5}, RunFor <- {3}, SettleFor <- {2}, Scheduled <- {OneSend, EverySend},
  HoldAt <- {}, MaxNow <- 6, MaxCell <- 0, MaxSends <- 2, MaxHeld <- 0, loop <- clockLoop, ran <- clockRan

TimedP == INSTANCE ClockProofs WITH
  StepMs <- 2, TickSizes <- {1, 5}, RunFor <- {3}, SettleFor <- {2}, Scheduled <- {},
  HoldAt <- {3, 6}, MaxNow <- 8, MaxCell <- 0, MaxSends <- 0, MaxHeld <- 2, loop <- clockLoop, ran <- clockRan

SweptP == INSTANCE ClockProofs WITH
  StepMs <- 2, TickSizes <- {1, 5}, RunFor <- {3}, SettleFor <- {1}, Scheduled <- {},
  HoldAt <- {}, MaxNow <- 6, MaxCell <- 4, MaxSends <- 0, MaxHeld <- 0, loop <- clockLoop, ran <- clockRan

PortP == INSTANCE SerialPortProofs WITH
  MaxLinks <- 2, Client <- {"c1", "c2"}, Backlog <- 0, MaxClaims <- 3, MaxSaid <- 1, at <- portAt

SaidP == INSTANCE SerialPortProofs WITH
  MaxLinks <- 1, Client <- {"c1"}, Backlog <- 2, MaxClaims <- 2, MaxSaid <- 3, at <- portAt

ToldP == INSTANCE ControlProofs WITH
  Conn <- {"a"}, Buffer <- 1, Interest <- [c \in {"a"} |-> {{"snapshot"}, {"log"}}],
  MaxAsked <- [c \in {"a"} |-> ToldAsks], MaxNotes <- ToldNotes, pc <- controlPc, held <- sending

CallingP == INSTANCE ControlProofs WITH
  Conn <- {"a", "b"}, Buffer <- 1, Interest <- [c \in {"a", "b"} |-> {}],
  MaxAsked <- [c \in {"a", "b"} |-> 1], MaxNotes <- 0, pc <- controlPc, held <- sending

SwitchedP == INSTANCE WarmProofs WITH
  Network <- {"here", "there"}, Pair <- MatrixPairs, Culled <- MatrixPairs \cap {"far"}, MaxWarms <- 2,
  MaxSwitches <- MatrixSwitches, job <- warmJob

RewarmedP == INSTANCE WarmProofs WITH
  Network <- {"here", "there"}, Pair <- {"near"}, Culled <- {}, MaxWarms <- 3, MaxSwitches <- 0,
  job <- warmJob

(* Which part moves is settled at the start. *)
LEMMA PartStays == [NextParts]_allVars => UNCHANGED part
BY DEF NextParts, allVars, StoreAlone, OutsideStore, OutsideClock, OutsidePort, OutsideSweep,
     OutsideControl, OutsideCollision, OutsideMatrix

LEMMA PortAssumed == PortP!SerialPortAssumption
BY PartsAssumption
DEF Port!SerialPortAssumption, PortP!SerialPortAssumption

LEMMA PortSteps == Port!Next => PortP!Next
BY DEF
     Port!Link, Port!NoClient, Port!Nobody, Port!Pane, Port!Companion, Port!bridgeVars,
     Port!paneVars, Port!linkVars, Port!clientVars, Port!sessionVars, Port!vars,
     Port!Free, Port!Init, Port!Claim, Port!Release, Port!Newest, Port!Say, Port!Unlocked,
     Port!Write, Port!Restart, Port!ConsoleFor, Port!Scrollback, Port!Then,
     Port!CloseLink, Port!Connect, Port!SessionClaims, Port!Disconnect, Port!Serve,
     Port!Listen, Port!Drop, Port!DetachReleases, Port!DetachClears, Port!ClosePipe,
     Port!CloseListener, Port!Attaching, Port!Accept, Port!AttachClient, Port!AttachLooks,
     Port!AttachLetsGo, Port!AttachClaims, Port!AttachStores, Port!ClientEnds,
     Port!WriteFails, Port!Session, Port!Outside, Port!Panicked, Port!Next, PortP!Link,
     PortP!NoClient, PortP!Nobody, PortP!Pane, PortP!Companion, PortP!bridgeVars,
     PortP!paneVars, PortP!linkVars, PortP!clientVars, PortP!sessionVars, PortP!vars,
     PortP!Free, PortP!Init, PortP!Claim, PortP!Release, PortP!Newest, PortP!Say,
     PortP!Unlocked, PortP!Write, PortP!Restart, PortP!ConsoleFor, PortP!Scrollback,
     PortP!Then, PortP!CloseLink, PortP!Connect, PortP!SessionClaims, PortP!Disconnect,
     PortP!Serve, PortP!Listen, PortP!Drop, PortP!DetachReleases, PortP!DetachClears,
     PortP!ClosePipe, PortP!CloseListener, PortP!Attaching, PortP!Accept,
     PortP!AttachClient, PortP!AttachLooks, PortP!AttachLetsGo, PortP!AttachClaims,
     PortP!AttachStores, PortP!ClientEnds, PortP!WriteFails, PortP!Session, PortP!Outside,
     PortP!Panicked, PortP!Next

LEMMA PortAlone == SpecParts => PortP!Spec \/ [](part # "port")
<1>1. InitParts /\ part = "port" => PortP!Init
  BY DEF InitParts,
         Port!Link, Port!NoClient, Port!Nobody, Port!Pane, Port!Companion, Port!Free,
         Port!Init, PortP!Link, PortP!NoClient, PortP!Nobody, PortP!Pane, PortP!Companion,
         PortP!Free, PortP!Init
<1>2. part = "port" /\ [NextParts]_allVars => [PortP!Next]_(PortP!vars)
  <2>1. CASE NextParts /\ part = "port"
    BY <2>1, PortSteps DEF NextParts, StoreAlone
  <2>2. CASE UNCHANGED allVars
    <3>1. UNCHANGED portVars
      BY <2>2 DEF allVars
    <3> QED
      BY <3>1 DEF portVars, PortP!bridgeVars, PortP!paneVars, PortP!linkVars, PortP!clientVars, PortP!sessionVars, PortP!vars
  <2> QED
    BY <2>1, <2>2
<1>3. part = "port" /\ [NextParts]_allVars => (part = "port")'
  BY PartStays
<1>4. part # "port" /\ [NextParts]_allVars => (part # "port")'
  BY PartStays
<1>5. part = "port" \/ part # "port"
  OBVIOUS
<1> QED
  BY <1>1, <1>2, <1>3, <1>4, <1>5, PTL DEF SpecParts, PortP!Spec

LEMMA SaidAssumed == SaidP!SerialPortAssumption
BY PartsAssumption
DEF Said!SerialPortAssumption, SaidP!SerialPortAssumption

LEMMA SaidSteps == Said!Next => SaidP!Next
BY DEF
     Said!Link, Said!NoClient, Said!Nobody, Said!Pane, Said!Companion, Said!bridgeVars,
     Said!paneVars, Said!linkVars, Said!clientVars, Said!sessionVars, Said!vars,
     Said!Free, Said!Init, Said!Claim, Said!Release, Said!Newest, Said!Say, Said!Unlocked,
     Said!Write, Said!Restart, Said!ConsoleFor, Said!Scrollback, Said!Then,
     Said!CloseLink, Said!Connect, Said!SessionClaims, Said!Disconnect, Said!Serve,
     Said!Listen, Said!Drop, Said!DetachReleases, Said!DetachClears, Said!ClosePipe,
     Said!CloseListener, Said!Attaching, Said!Accept, Said!AttachClient, Said!AttachLooks,
     Said!AttachLetsGo, Said!AttachClaims, Said!AttachStores, Said!ClientEnds,
     Said!WriteFails, Said!Session, Said!Outside, Said!Panicked, Said!Next, SaidP!Link,
     SaidP!NoClient, SaidP!Nobody, SaidP!Pane, SaidP!Companion, SaidP!bridgeVars,
     SaidP!paneVars, SaidP!linkVars, SaidP!clientVars, SaidP!sessionVars, SaidP!vars,
     SaidP!Free, SaidP!Init, SaidP!Claim, SaidP!Release, SaidP!Newest, SaidP!Say,
     SaidP!Unlocked, SaidP!Write, SaidP!Restart, SaidP!ConsoleFor, SaidP!Scrollback,
     SaidP!Then, SaidP!CloseLink, SaidP!Connect, SaidP!SessionClaims, SaidP!Disconnect,
     SaidP!Serve, SaidP!Listen, SaidP!Drop, SaidP!DetachReleases, SaidP!DetachClears,
     SaidP!ClosePipe, SaidP!CloseListener, SaidP!Attaching, SaidP!Accept,
     SaidP!AttachClient, SaidP!AttachLooks, SaidP!AttachLetsGo, SaidP!AttachClaims,
     SaidP!AttachStores, SaidP!ClientEnds, SaidP!WriteFails, SaidP!Session, SaidP!Outside,
     SaidP!Panicked, SaidP!Next

LEMMA SaidAlone == SpecParts => SaidP!Spec \/ [](part # "console")
<1>1. InitParts /\ part = "console" => SaidP!Init
  BY DEF InitParts,
         Said!Link, Said!NoClient, Said!Nobody, Said!Pane, Said!Companion, Said!Free,
         Said!Init, SaidP!Link, SaidP!NoClient, SaidP!Nobody, SaidP!Pane, SaidP!Companion,
         SaidP!Free, SaidP!Init
<1>2. part = "console" /\ [NextParts]_allVars => [SaidP!Next]_(SaidP!vars)
  <2>1. CASE NextParts /\ part = "console"
    BY <2>1, SaidSteps DEF NextParts, StoreAlone
  <2>2. CASE UNCHANGED allVars
    <3>1. UNCHANGED portVars
      BY <2>2 DEF allVars
    <3> QED
      BY <3>1 DEF portVars, SaidP!bridgeVars, SaidP!paneVars, SaidP!linkVars, SaidP!clientVars, SaidP!sessionVars, SaidP!vars
  <2> QED
    BY <2>1, <2>2
<1>3. part = "console" /\ [NextParts]_allVars => (part = "console")'
  BY PartStays
<1>4. part # "console" /\ [NextParts]_allVars => (part # "console")'
  BY PartStays
<1>5. part = "console" \/ part # "console"
  OBVIOUS
<1> QED
  BY <1>1, <1>2, <1>3, <1>4, <1>5, PTL DEF SpecParts, SaidP!Spec

LEMMA ToldAssumed == ToldP!ControlAssumption
BY PartsAssumption
DEF Told!ControlAssumption, Told!Topic, ToldP!ControlAssumption, ToldP!Topic

LEMMA ToldSteps == Told!Next => ToldP!Next
BY DEF
     Told!Topic, Told!connVars, Told!serverVars, Told!subVars, Told!vars, Told!Reply,
     Told!Ack, Told!Note, Told!Nothing, Told!NoNote, Told!Init, Told!Goto, Told!Hold,
     Told!Asks, Told!Call, Told!Disagree, Told!Registers, Told!Subscribe, Told!Register,
     Told!TakeReply, Told!Send, Told!GiveUp, Told!DecodeFails, Told!Leave, Told!HangUp,
     Told!Write, Told!Finish, Told!Pump, Told!Answers, Told!Perform, Told!Cancel,
     Told!Close, Told!Refuse, Told!Notify, Told!Offer, Told!Tell, Told!Coalesce,
     Told!Client, Told!Reader, Told!Writer, Told!Publish, Told!Next, ToldP!Topic,
     ToldP!connVars, ToldP!serverVars, ToldP!subVars, ToldP!vars, ToldP!Reply, ToldP!Ack,
     ToldP!Note, ToldP!Nothing, ToldP!NoNote, ToldP!Init, ToldP!Goto, ToldP!Hold,
     ToldP!Asks, ToldP!Call, ToldP!Disagree, ToldP!Registers, ToldP!Subscribe,
     ToldP!Register, ToldP!TakeReply, ToldP!Send, ToldP!GiveUp, ToldP!DecodeFails,
     ToldP!Leave, ToldP!HangUp, ToldP!Write, ToldP!Finish, ToldP!Pump, ToldP!Answers,
     ToldP!Perform, ToldP!Cancel, ToldP!Close, ToldP!Refuse, ToldP!Notify, ToldP!Offer,
     ToldP!Tell, ToldP!Coalesce, ToldP!Client, ToldP!Reader, ToldP!Writer, ToldP!Publish,
     ToldP!Next

LEMMA ToldAlone == SpecParts => ToldP!Spec \/ [](part # "told")
<1>1. InitParts /\ part = "told" => ToldP!Init
  BY DEF InitParts,
         Told!Topic, Told!Reply, Told!Ack, Told!Note, Told!Nothing, Told!NoNote, Told!Init,
         ToldP!Topic, ToldP!Reply, ToldP!Ack, ToldP!Note, ToldP!Nothing, ToldP!NoNote,
         ToldP!Init
<1>2. part = "told" /\ [NextParts]_allVars => [ToldP!Next]_(ToldP!vars)
  <2>1. CASE NextParts /\ part = "told"
    BY <2>1, ToldSteps DEF NextParts, StoreAlone
  <2>2. CASE UNCHANGED allVars
    <3>1. UNCHANGED controlVars
      BY <2>2 DEF allVars
    <3> QED
      BY <3>1 DEF controlVars, ToldP!connVars, ToldP!serverVars, ToldP!subVars, ToldP!vars
  <2> QED
    BY <2>1, <2>2
<1>3. part = "told" /\ [NextParts]_allVars => (part = "told")'
  BY PartStays
<1>4. part # "told" /\ [NextParts]_allVars => (part # "told")'
  BY PartStays
<1>5. part = "told" \/ part # "told"
  OBVIOUS
<1> QED
  BY <1>1, <1>2, <1>3, <1>4, <1>5, PTL DEF SpecParts, ToldP!Spec

LEMMA CallingAssumed == CallingP!ControlAssumption
BY PartsAssumption
DEF Calling!ControlAssumption, Calling!Topic, CallingP!ControlAssumption, CallingP!Topic

LEMMA CallingSteps == Calling!Next => CallingP!Next
BY DEF
     Calling!Topic, Calling!connVars, Calling!serverVars, Calling!subVars, Calling!vars,
     Calling!Reply, Calling!Ack, Calling!Note, Calling!Nothing, Calling!NoNote,
     Calling!Init, Calling!Goto, Calling!Hold, Calling!Asks, Calling!Call, Calling!Disagree,
     Calling!Registers, Calling!Subscribe, Calling!Register, Calling!TakeReply,
     Calling!Send, Calling!GiveUp, Calling!DecodeFails, Calling!Leave, Calling!HangUp,
     Calling!Write, Calling!Finish, Calling!Pump, Calling!Answers, Calling!Perform,
     Calling!Cancel, Calling!Close, Calling!Refuse, Calling!Notify, Calling!Offer,
     Calling!Tell, Calling!Coalesce, Calling!Client, Calling!Reader, Calling!Writer,
     Calling!Publish, Calling!Next, CallingP!Topic, CallingP!connVars, CallingP!serverVars,
     CallingP!subVars, CallingP!vars, CallingP!Reply, CallingP!Ack, CallingP!Note,
     CallingP!Nothing, CallingP!NoNote, CallingP!Init, CallingP!Goto, CallingP!Hold,
     CallingP!Asks, CallingP!Call, CallingP!Disagree, CallingP!Registers,
     CallingP!Subscribe, CallingP!Register, CallingP!TakeReply, CallingP!Send,
     CallingP!GiveUp, CallingP!DecodeFails, CallingP!Leave, CallingP!HangUp, CallingP!Write,
     CallingP!Finish, CallingP!Pump, CallingP!Answers, CallingP!Perform, CallingP!Cancel,
     CallingP!Close, CallingP!Refuse, CallingP!Notify, CallingP!Offer, CallingP!Tell,
     CallingP!Coalesce, CallingP!Client, CallingP!Reader, CallingP!Writer, CallingP!Publish,
     CallingP!Next

LEMMA CallingAlone == SpecParts => CallingP!Spec \/ [](part # "calling")
<1>1. InitParts /\ part = "calling" => CallingP!Init
  BY DEF InitParts,
         Calling!Topic, Calling!Reply, Calling!Ack, Calling!Note, Calling!Nothing,
         Calling!NoNote, Calling!Init, CallingP!Topic, CallingP!Reply, CallingP!Ack,
         CallingP!Note, CallingP!Nothing, CallingP!NoNote, CallingP!Init
<1>2. part = "calling" /\ [NextParts]_allVars => [CallingP!Next]_(CallingP!vars)
  <2>1. CASE NextParts /\ part = "calling"
    BY <2>1, CallingSteps DEF NextParts, StoreAlone
  <2>2. CASE UNCHANGED allVars
    <3>1. UNCHANGED controlVars
      BY <2>2 DEF allVars
    <3> QED
      BY <3>1 DEF controlVars, CallingP!connVars, CallingP!serverVars, CallingP!subVars, CallingP!vars
  <2> QED
    BY <2>1, <2>2
<1>3. part = "calling" /\ [NextParts]_allVars => (part = "calling")'
  BY PartStays
<1>4. part # "calling" /\ [NextParts]_allVars => (part # "calling")'
  BY PartStays
<1>5. part = "calling" \/ part # "calling"
  OBVIOUS
<1> QED
  BY <1>1, <1>2, <1>3, <1>4, <1>5, PTL DEF SpecParts, CallingP!Spec

LEMMA SwitchedAssumed == SwitchedP!WarmAssumption
BY PartsAssumption
DEF Switched!WarmAssumption, SwitchedP!WarmAssumption

LEMMA SwitchedSteps == Switched!Next => SwitchedP!Next
BY DEF
     Switched!Priced, Switched!Matrix, Switched!Fingerprint, Switched!warmVars,
     Switched!Nothing, Switched!Engine, Switched!Cache, Switched!Primed, Switched!Committed,
     Switched!Live, Switched!FreshWarm, Switched!Init, Switched!Held, Switched!StartWarm,
     Switched!Carried, Switched!Build, Switched!Recompute, Switched!AllowTerrain,
     Switched!Environment, Switched!LivePathLoss, Switched!Evict, Switched!Goes,
     Switched!Elsewhere, Switched!Shown, Switched!Begin, Switched!WarmOnGPU,
     Switched!PrimeLinks, Switched!PathLoss, Switched!StoreLoss, Switched!WalkOver,
     Switched!WarmLinksReturns, Switched!Check, Switched!Claim, Switched!SaveMatrix,
     Switched!PostLinks, Switched!Finish, Switched!AbandonJob, Switched!Warm, Switched!Next,
     SwitchedP!Priced, SwitchedP!Matrix, SwitchedP!Fingerprint, SwitchedP!warmVars,
     SwitchedP!Nothing, SwitchedP!Engine, SwitchedP!Cache, SwitchedP!Primed,
     SwitchedP!Committed, SwitchedP!Live, SwitchedP!FreshWarm, SwitchedP!Init,
     SwitchedP!Held, SwitchedP!StartWarm, SwitchedP!Carried, SwitchedP!Build,
     SwitchedP!Recompute, SwitchedP!AllowTerrain, SwitchedP!Environment,
     SwitchedP!LivePathLoss, SwitchedP!Evict, SwitchedP!Goes, SwitchedP!Elsewhere,
     SwitchedP!Shown, SwitchedP!Begin, SwitchedP!WarmOnGPU, SwitchedP!PrimeLinks,
     SwitchedP!PathLoss, SwitchedP!StoreLoss, SwitchedP!WalkOver,
     SwitchedP!WarmLinksReturns, SwitchedP!Check, SwitchedP!Claim, SwitchedP!SaveMatrix,
     SwitchedP!PostLinks, SwitchedP!Finish, SwitchedP!AbandonJob, SwitchedP!Warm,
     SwitchedP!Next

LEMMA SwitchedAlone == SpecParts => SwitchedP!Spec \/ [](part # "switched")
<1>1. InitParts /\ part = "switched" => SwitchedP!Init
  BY DEF InitParts,
         Switched!Priced, Switched!Matrix, Switched!Fingerprint, Switched!Nothing,
         Switched!Engine, Switched!Cache, Switched!Primed, Switched!Committed,
         Switched!Live, Switched!FreshWarm, Switched!Init, SwitchedP!Priced,
         SwitchedP!Matrix, SwitchedP!Fingerprint, SwitchedP!Nothing, SwitchedP!Engine,
         SwitchedP!Cache, SwitchedP!Primed, SwitchedP!Committed, SwitchedP!Live,
         SwitchedP!FreshWarm, SwitchedP!Init
<1>2. part = "switched" /\ [NextParts]_allVars => [SwitchedP!Next]_(SwitchedP!warmVars)
  <2>1. CASE NextParts /\ part = "switched"
    BY <2>1, SwitchedSteps DEF NextParts, StoreAlone
  <2>2. CASE UNCHANGED allVars
    <3>1. UNCHANGED matrixVars
      BY <2>2 DEF allVars
    <3> QED
      BY <3>1 DEF matrixVars, SwitchedP!warmVars
  <2> QED
    BY <2>1, <2>2
<1>3. part = "switched" /\ [NextParts]_allVars => (part = "switched")'
  BY PartStays
<1>4. part # "switched" /\ [NextParts]_allVars => (part # "switched")'
  BY PartStays
<1>5. part = "switched" \/ part # "switched"
  OBVIOUS
<1> QED
  BY <1>1, <1>2, <1>3, <1>4, <1>5, PTL DEF SpecParts, SwitchedP!Spec

LEMMA RewarmedAssumed == RewarmedP!WarmAssumption
BY PartsAssumption
DEF Rewarmed!WarmAssumption, RewarmedP!WarmAssumption

LEMMA RewarmedSteps == Rewarmed!Next => RewarmedP!Next
BY DEF
     Rewarmed!Priced, Rewarmed!Matrix, Rewarmed!Fingerprint, Rewarmed!warmVars,
     Rewarmed!Nothing, Rewarmed!Engine, Rewarmed!Cache, Rewarmed!Primed, Rewarmed!Committed,
     Rewarmed!Live, Rewarmed!FreshWarm, Rewarmed!Init, Rewarmed!Held, Rewarmed!StartWarm,
     Rewarmed!Carried, Rewarmed!Build, Rewarmed!Recompute, Rewarmed!AllowTerrain,
     Rewarmed!Environment, Rewarmed!LivePathLoss, Rewarmed!Evict, Rewarmed!Goes,
     Rewarmed!Elsewhere, Rewarmed!Shown, Rewarmed!Begin, Rewarmed!WarmOnGPU,
     Rewarmed!PrimeLinks, Rewarmed!PathLoss, Rewarmed!StoreLoss, Rewarmed!WalkOver,
     Rewarmed!WarmLinksReturns, Rewarmed!Check, Rewarmed!Claim, Rewarmed!SaveMatrix,
     Rewarmed!PostLinks, Rewarmed!Finish, Rewarmed!AbandonJob, Rewarmed!Warm, Rewarmed!Next,
     RewarmedP!Priced, RewarmedP!Matrix, RewarmedP!Fingerprint, RewarmedP!warmVars,
     RewarmedP!Nothing, RewarmedP!Engine, RewarmedP!Cache, RewarmedP!Primed,
     RewarmedP!Committed, RewarmedP!Live, RewarmedP!FreshWarm, RewarmedP!Init,
     RewarmedP!Held, RewarmedP!StartWarm, RewarmedP!Carried, RewarmedP!Build,
     RewarmedP!Recompute, RewarmedP!AllowTerrain, RewarmedP!Environment,
     RewarmedP!LivePathLoss, RewarmedP!Evict, RewarmedP!Goes, RewarmedP!Elsewhere,
     RewarmedP!Shown, RewarmedP!Begin, RewarmedP!WarmOnGPU, RewarmedP!PrimeLinks,
     RewarmedP!PathLoss, RewarmedP!StoreLoss, RewarmedP!WalkOver,
     RewarmedP!WarmLinksReturns, RewarmedP!Check, RewarmedP!Claim, RewarmedP!SaveMatrix,
     RewarmedP!PostLinks, RewarmedP!Finish, RewarmedP!AbandonJob, RewarmedP!Warm,
     RewarmedP!Next

LEMMA RewarmedAlone == SpecParts => RewarmedP!Spec \/ [](part # "rewarmed")
<1>1. InitParts /\ part = "rewarmed" => RewarmedP!Init
  BY DEF InitParts,
         Rewarmed!Priced, Rewarmed!Matrix, Rewarmed!Fingerprint, Rewarmed!Nothing,
         Rewarmed!Engine, Rewarmed!Cache, Rewarmed!Primed, Rewarmed!Committed,
         Rewarmed!Live, Rewarmed!FreshWarm, Rewarmed!Init, RewarmedP!Priced,
         RewarmedP!Matrix, RewarmedP!Fingerprint, RewarmedP!Nothing, RewarmedP!Engine,
         RewarmedP!Cache, RewarmedP!Primed, RewarmedP!Committed, RewarmedP!Live,
         RewarmedP!FreshWarm, RewarmedP!Init
<1>2. part = "rewarmed" /\ [NextParts]_allVars => [RewarmedP!Next]_(RewarmedP!warmVars)
  <2>1. CASE NextParts /\ part = "rewarmed"
    BY <2>1, RewarmedSteps DEF NextParts, StoreAlone
  <2>2. CASE UNCHANGED allVars
    <3>1. UNCHANGED matrixVars
      BY <2>2 DEF allVars
    <3> QED
      BY <3>1 DEF matrixVars, RewarmedP!warmVars
  <2> QED
    BY <2>1, <2>2
<1>3. part = "rewarmed" /\ [NextParts]_allVars => (part = "rewarmed")'
  BY PartStays
<1>4. part # "rewarmed" /\ [NextParts]_allVars => (part # "rewarmed")'
  BY PartStays
<1>5. part = "rewarmed" \/ part # "rewarmed"
  OBVIOUS
<1> QED
  BY <1>1, <1>2, <1>3, <1>4, <1>5, PTL DEF SpecParts, RewarmedP!Spec

LEMMA SendsAssumed == SendsP!ClockAssumption
BY PartsAssumption
DEF Sends!ClockAssumption, SendsP!ClockAssumption

LEMMA SendsSteps == Sends!Next => SendsP!Next
BY DEF
     Sends!engineVars, Sends!playVars, Sends!sendVars, Sends!inputVars, Sends!vars,
     Sends!NoRun, Sends!Unsaid, Sends!Init, Sends!Keep, Sends!Remembered, Sends!Due,
     Sends!FireDueSends, Sends!ScheduleAdd, Sends!ScheduleClear, Sends!Sooner,
     Sends!Added, Sends!DueFirst, Sends!FireDueInputs, Sends!Hold, Sends!StepEngine,
     Sends!AtEnd, Sends!Ticking, Sends!BeginTick, Sends!StoreTick, Sends!SimStep,
     Sends!TickSteps, Sends!TickStopsAtEnd, Sends!TickEnds, Sends!Settle,
     Sends!SettleSteps, Sends!SettleEnds, Sends!Play, Sends!SimRun, Sends!SetTick,
     Sends!BuildSeeded, Sends!StartsOver, Sends!Reset, Sends!Seed, Sends!Open,
     Sends!Restore, Sends!Detach, Sends!CellTakes, Sends!CellSteps, Sends!CellEnds,
     Sends!Cell, Sends!Fixtures, Sends!Ticks, Sends!Verbs, Sends!Next, Sends!Cardinality,
     SendsP!engineVars, SendsP!playVars, SendsP!sendVars, SendsP!inputVars, SendsP!vars,
     SendsP!NoRun, SendsP!Unsaid, SendsP!Init, SendsP!Keep, SendsP!Remembered, SendsP!Due,
     SendsP!FireDueSends, SendsP!ScheduleAdd, SendsP!ScheduleClear, SendsP!Sooner,
     SendsP!Added, SendsP!DueFirst, SendsP!FireDueInputs, SendsP!Hold, SendsP!StepEngine,
     SendsP!AtEnd, SendsP!Ticking, SendsP!BeginTick, SendsP!StoreTick, SendsP!SimStep,
     SendsP!TickSteps, SendsP!TickStopsAtEnd, SendsP!TickEnds, SendsP!Settle,
     SendsP!SettleSteps, SendsP!SettleEnds, SendsP!Play, SendsP!SimRun, SendsP!SetTick,
     SendsP!BuildSeeded, SendsP!StartsOver, SendsP!Reset, SendsP!Seed, SendsP!Open,
     SendsP!Restore, SendsP!Detach, SendsP!CellTakes, SendsP!CellSteps, SendsP!CellEnds,
     SendsP!Cell, SendsP!Fixtures, SendsP!Ticks, SendsP!Verbs, SendsP!Next,
     SendsP!Cardinality

LEMMA SendsAlone == SpecParts => SendsP!Spec \/ [](part # "scheduled")
<1>1. InitParts /\ part = "scheduled" => SendsP!Init
  BY DEF InitParts,
         Sends!NoRun, Sends!Unsaid, Sends!Init, SendsP!NoRun, SendsP!Unsaid, SendsP!Init
<1>2. part = "scheduled" /\ [NextParts]_allVars => [SendsP!Next]_(SendsP!vars)
  <2>1. CASE NextParts /\ part = "scheduled"
    BY <2>1, SendsSteps DEF NextParts, StoreAlone
  <2>2. CASE UNCHANGED allVars
    <3>1. UNCHANGED clockVars
      BY <2>2 DEF allVars
    <3> QED
      BY <3>1 DEF clockVars, SendsP!engineVars, SendsP!playVars, SendsP!sendVars, SendsP!inputVars, SendsP!vars
  <2> QED
    BY <2>1, <2>2
<1>3. part = "scheduled" /\ [NextParts]_allVars => (part = "scheduled")'
  BY PartStays
<1>4. part # "scheduled" /\ [NextParts]_allVars => (part # "scheduled")'
  BY PartStays
<1>5. part = "scheduled" \/ part # "scheduled"
  OBVIOUS
<1> QED
  BY <1>1, <1>2, <1>3, <1>4, <1>5, PTL DEF SpecParts, SendsP!Spec

LEMMA TimedAssumed == TimedP!ClockAssumption
BY PartsAssumption
DEF Timed!ClockAssumption, TimedP!ClockAssumption

LEMMA TimedSteps == Timed!Next => TimedP!Next
BY DEF
     Timed!engineVars, Timed!playVars, Timed!sendVars, Timed!inputVars, Timed!vars,
     Timed!NoRun, Timed!Unsaid, Timed!Init, Timed!Keep, Timed!Remembered, Timed!Due,
     Timed!FireDueSends, Timed!ScheduleAdd, Timed!ScheduleClear, Timed!Sooner,
     Timed!Added, Timed!DueFirst, Timed!FireDueInputs, Timed!Hold, Timed!StepEngine,
     Timed!AtEnd, Timed!Ticking, Timed!BeginTick, Timed!StoreTick, Timed!SimStep,
     Timed!TickSteps, Timed!TickStopsAtEnd, Timed!TickEnds, Timed!Settle,
     Timed!SettleSteps, Timed!SettleEnds, Timed!Play, Timed!SimRun, Timed!SetTick,
     Timed!BuildSeeded, Timed!StartsOver, Timed!Reset, Timed!Seed, Timed!Open,
     Timed!Restore, Timed!Detach, Timed!CellTakes, Timed!CellSteps, Timed!CellEnds,
     Timed!Cell, Timed!Fixtures, Timed!Ticks, Timed!Verbs, Timed!Next, Timed!Cardinality,
     TimedP!engineVars, TimedP!playVars, TimedP!sendVars, TimedP!inputVars, TimedP!vars,
     TimedP!NoRun, TimedP!Unsaid, TimedP!Init, TimedP!Keep, TimedP!Remembered, TimedP!Due,
     TimedP!FireDueSends, TimedP!ScheduleAdd, TimedP!ScheduleClear, TimedP!Sooner,
     TimedP!Added, TimedP!DueFirst, TimedP!FireDueInputs, TimedP!Hold, TimedP!StepEngine,
     TimedP!AtEnd, TimedP!Ticking, TimedP!BeginTick, TimedP!StoreTick, TimedP!SimStep,
     TimedP!TickSteps, TimedP!TickStopsAtEnd, TimedP!TickEnds, TimedP!Settle,
     TimedP!SettleSteps, TimedP!SettleEnds, TimedP!Play, TimedP!SimRun, TimedP!SetTick,
     TimedP!BuildSeeded, TimedP!StartsOver, TimedP!Reset, TimedP!Seed, TimedP!Open,
     TimedP!Restore, TimedP!Detach, TimedP!CellTakes, TimedP!CellSteps, TimedP!CellEnds,
     TimedP!Cell, TimedP!Fixtures, TimedP!Ticks, TimedP!Verbs, TimedP!Next,
     TimedP!Cardinality

LEMMA TimedAlone == SpecParts => TimedP!Spec \/ [](part # "timed")
<1>1. InitParts /\ part = "timed" => TimedP!Init
  BY DEF InitParts,
         Timed!NoRun, Timed!Unsaid, Timed!Init, TimedP!NoRun, TimedP!Unsaid, TimedP!Init
<1>2. part = "timed" /\ [NextParts]_allVars => [TimedP!Next]_(TimedP!vars)
  <2>1. CASE NextParts /\ part = "timed"
    BY <2>1, TimedSteps DEF NextParts, StoreAlone
  <2>2. CASE UNCHANGED allVars
    <3>1. UNCHANGED clockVars
      BY <2>2 DEF allVars
    <3> QED
      BY <3>1 DEF clockVars, TimedP!engineVars, TimedP!playVars, TimedP!sendVars, TimedP!inputVars, TimedP!vars
  <2> QED
    BY <2>1, <2>2
<1>3. part = "timed" /\ [NextParts]_allVars => (part = "timed")'
  BY PartStays
<1>4. part # "timed" /\ [NextParts]_allVars => (part # "timed")'
  BY PartStays
<1>5. part = "timed" \/ part # "timed"
  OBVIOUS
<1> QED
  BY <1>1, <1>2, <1>3, <1>4, <1>5, PTL DEF SpecParts, TimedP!Spec

LEMMA SweptAssumed == SweptP!ClockAssumption
BY PartsAssumption
DEF Swept!ClockAssumption, SweptP!ClockAssumption

LEMMA SweptSteps == Swept!Next => SweptP!Next
BY DEF
     Swept!engineVars, Swept!playVars, Swept!sendVars, Swept!inputVars, Swept!vars,
     Swept!NoRun, Swept!Unsaid, Swept!Init, Swept!Keep, Swept!Remembered, Swept!Due,
     Swept!FireDueSends, Swept!ScheduleAdd, Swept!ScheduleClear, Swept!Sooner,
     Swept!Added, Swept!DueFirst, Swept!FireDueInputs, Swept!Hold, Swept!StepEngine,
     Swept!AtEnd, Swept!Ticking, Swept!BeginTick, Swept!StoreTick, Swept!SimStep,
     Swept!TickSteps, Swept!TickStopsAtEnd, Swept!TickEnds, Swept!Settle,
     Swept!SettleSteps, Swept!SettleEnds, Swept!Play, Swept!SimRun, Swept!SetTick,
     Swept!BuildSeeded, Swept!StartsOver, Swept!Reset, Swept!Seed, Swept!Open,
     Swept!Restore, Swept!Detach, Swept!CellTakes, Swept!CellSteps, Swept!CellEnds,
     Swept!Cell, Swept!Fixtures, Swept!Ticks, Swept!Verbs, Swept!Next, Swept!Cardinality,
     SweptP!engineVars, SweptP!playVars, SweptP!sendVars, SweptP!inputVars, SweptP!vars,
     SweptP!NoRun, SweptP!Unsaid, SweptP!Init, SweptP!Keep, SweptP!Remembered, SweptP!Due,
     SweptP!FireDueSends, SweptP!ScheduleAdd, SweptP!ScheduleClear, SweptP!Sooner,
     SweptP!Added, SweptP!DueFirst, SweptP!FireDueInputs, SweptP!Hold, SweptP!StepEngine,
     SweptP!AtEnd, SweptP!Ticking, SweptP!BeginTick, SweptP!StoreTick, SweptP!SimStep,
     SweptP!TickSteps, SweptP!TickStopsAtEnd, SweptP!TickEnds, SweptP!Settle,
     SweptP!SettleSteps, SweptP!SettleEnds, SweptP!Play, SweptP!SimRun, SweptP!SetTick,
     SweptP!BuildSeeded, SweptP!StartsOver, SweptP!Reset, SweptP!Seed, SweptP!Open,
     SweptP!Restore, SweptP!Detach, SweptP!CellTakes, SweptP!CellSteps, SweptP!CellEnds,
     SweptP!Cell, SweptP!Fixtures, SweptP!Ticks, SweptP!Verbs, SweptP!Next,
     SweptP!Cardinality

LEMMA SweptAlone == SpecParts => SweptP!Spec \/ [](part # "swept")
<1>1. InitParts /\ part = "swept" => SweptP!Init
  BY DEF InitParts, Timed!NoRun, Timed!Unsaid, Timed!Init, SweptP!NoRun, SweptP!Unsaid, SweptP!Init
<1>2. part = "swept" /\ [NextParts]_allVars => [SweptP!Next]_(SweptP!vars)
  <2>1. CASE NextParts /\ part = "swept"
    BY <2>1, SweptSteps DEF NextParts, StoreAlone
  <2>2. CASE UNCHANGED allVars
    <3>1. UNCHANGED clockVars
      BY <2>2 DEF allVars
    <3> QED
      BY <3>1 DEF clockVars, SweptP!engineVars, SweptP!playVars, SweptP!sendVars, SweptP!inputVars, SweptP!vars
  <2> QED
    BY <2>1, <2>2
<1>3. part = "swept" /\ [NextParts]_allVars => (part = "swept")'
  BY PartStays
<1>4. part # "swept" /\ [NextParts]_allVars => (part # "swept")'
  BY PartStays
<1>5. part = "swept" \/ part # "swept"
  OBVIOUS
<1> QED
  BY <1>1, <1>2, <1>3, <1>4, <1>5, PTL DEF SpecParts, SweptP!Spec

(* What was put off is done, when it was due: the scheduled sends, and the  *)
(* calls that are held.                                                     *)
THEOREM DueIsDoneAlways == SpecParts => []DueIsDone
<1>1. SpecParts => [](SendsP!SaidOnce /\ SendsP!SaidWhenDue) \/ [](part # "scheduled")
  BY SendsAlone, SendsAssumed, SendsP!SendsAreSaidOnce, SendsP!SendsAreSaidWhenDue, PTL
<1>2. SendsP!SaidOnce /\ SendsP!SaidWhenDue => Sends!SaidOnce /\ Sends!SaidWhenDue
  BY DEF Sends!SaidOnce, Sends!SaidWhenDue, SendsP!SaidOnce, SendsP!SaidWhenDue
<1>3. SpecParts => []TimedP!HeldRunInTime \/ [](part # "timed")
  BY TimedAlone, TimedAssumed, TimedP!HeldCallsRunInTime, PTL
<1>4. TimedP!HeldRunInTime => Timed!HeldRunInTime
  BY DEF Timed!HeldRunInTime, TimedP!HeldRunInTime
<1>5. (part # "scheduled" \/ (Sends!SaidOnce /\ Sends!SaidWhenDue)) /\ (part # "timed" \/ Timed!HeldRunInTime)
        => DueIsDone
  BY DEF DueIsDone
<1> QED
  BY <1>1, <1>2, <1>3, <1>4, <1>5, PTL

(* The clock the world shows is the engine's, but for a network just opened *)
(* and for the time of a sweep, and a tick ends with the run.               *)
THEOREM ClockIsTrueAlways == SpecParts => []ClockIsTrue
<1>1. SpecParts => []SendsP!WorldShowsEngine \/ [](part # "scheduled")
  BY SendsAlone, SendsAssumed, SendsP!WorldShowsTheEngine, PTL
<1>2. SpecParts => [](TimedP!WorldShowsEngine /\ TimedP!TickLandsAtEnd) \/ [](part # "timed")
  BY TimedAlone, TimedAssumed, TimedP!WorldShowsTheEngine, TimedP!TicksLandAtEnd, PTL
<1>3. SpecParts => [](SweptP!WorldShowsEngine /\ SweptP!TickLandsAtEnd) \/ [](part # "swept")
  BY SweptAlone, SweptAssumed, SweptP!WorldShowsTheEngine, SweptP!TicksLandAtEnd, PTL
<1>4. /\ SendsP!WorldShowsEngine => Timed!WorldShowsEngine
      /\ TimedP!WorldShowsEngine => Timed!WorldShowsEngine
      /\ SweptP!WorldShowsEngine => Timed!WorldShowsEngine
  BY DEF Timed!WorldShowsEngine, SendsP!WorldShowsEngine, TimedP!WorldShowsEngine, SweptP!WorldShowsEngine
<1>5. /\ TimedP!TickLandsAtEnd => Timed!TickLandsAtEnd
      /\ SweptP!TickLandsAtEnd => Timed!TickLandsAtEnd
  BY DEF Timed!TickLandsAtEnd, Timed!Ticking, TimedP!TickLandsAtEnd, TimedP!Ticking,
         SweptP!TickLandsAtEnd, SweptP!Ticking
<1>6. ASSUME part # "scheduled" \/ SendsP!WorldShowsEngine,
             part # "timed" \/ (TimedP!WorldShowsEngine /\ TimedP!TickLandsAtEnd),
             part # "swept" \/ (SweptP!WorldShowsEngine /\ SweptP!TickLandsAtEnd)
      PROVE  ClockIsTrue
  BY <1>4, <1>5, <1>6 DEF ClockIsTrue
<1> QED
  BY <1>1, <1>2, <1>3, <1>6, PTL

(* Whoever claimed the serial port keeps it, and a port that is claimed has *)
(* somebody on it, in the session as on its own - but for a claim that was  *)
(* stored too late.                                                         *)
THEOREM PortIsKeptAlways == SpecParts => []PortIsKept
<1>1. SpecParts => [](PortP!SessionKeepsPort /\ PortP!ClientHears /\ PortP!ClaimedByWhoIsThere) \/ [](part # "port")
  BY PortAlone, PortAssumed, PortP!SessionKeepsItsPort, PortP!ClientsHear, PortP!ClaimsAreHeld, PTL
<1>2. PortP!SessionKeepsPort /\ PortP!ClientHears /\ PortP!ClaimedByWhoIsThere => Port!SessionKeepsPort /\ Port!ClientHears /\ Port!ClaimedByWhoIsThere
  BY DEF Port!SessionKeepsPort, Port!ClientHears, Port!ClaimedByWhoIsThere, Port!Link,
         Port!NoClient, Port!Nobody, Port!Pane, Port!Companion, PortP!SessionKeepsPort,
         PortP!ClientHears, PortP!ClaimedByWhoIsThere, PortP!Link, PortP!NoClient,
         PortP!Nobody, PortP!Pane, PortP!Companion
<1>3. SpecParts => [](SaidP!SessionKeepsPort /\ SaidP!ClientHears /\ SaidP!ClaimedByWhoIsThere) \/ [](part # "console")
  BY SaidAlone, SaidAssumed, SaidP!SessionKeepsItsPort, SaidP!ClientsHear, SaidP!ClaimsAreHeld, PTL
<1>4. SaidP!SessionKeepsPort /\ SaidP!ClientHears /\ SaidP!ClaimedByWhoIsThere => Said!SessionKeepsPort /\ Said!ClientHears /\ Said!ClaimedByWhoIsThere
  BY DEF Said!SessionKeepsPort, Said!ClientHears, Said!ClaimedByWhoIsThere, Said!Link,
         Said!NoClient, Said!Nobody, Said!Pane, Said!Companion, SaidP!SessionKeepsPort,
         SaidP!ClientHears, SaidP!ClaimedByWhoIsThere, SaidP!Link, SaidP!NoClient,
         SaidP!Nobody, SaidP!Pane, SaidP!Companion
<1>5. ASSUME part # "port" \/ (Port!SessionKeepsPort /\ Port!ClientHears /\ Port!ClaimedByWhoIsThere),
             part # "console" \/ (Said!SessionKeepsPort /\ Said!ClientHears /\ Said!ClaimedByWhoIsThere)
      PROVE  PortIsKept
  BY <1>5 DEF PortIsKept
<1> QED
  BY <1>1, <1>2, <1>3, <1>4, <1>5, PTL

(* The console shows what a node said once and in order, but for            *)
(* scrollback.                                                              *)
THEOREM ShownInOrderAlways == SpecParts => []ShownInOrder
<1>1. SpecParts => []PortP!ShownInOrder \/ [](part # "port")
  BY PortAlone, PortAssumed, PortP!ConsoleIsInOrder, PTL
<1>2. SpecParts => []SaidP!ShownInOrder \/ [](part # "console")
  BY SaidAlone, SaidAssumed, SaidP!ConsoleIsInOrder, PTL
<1>3. (PortP!ShownInOrder => Port!ShownInOrder) /\ (SaidP!ShownInOrder => Said!ShownInOrder)
  BY DEF Port!ShownInOrder, PortP!ShownInOrder, Said!ShownInOrder, SaidP!ShownInOrder
<1>4. (part # "port" \/ Port!ShownInOrder) /\ (part # "console" \/ Said!ShownInOrder)
        => ShownInOrder
  BY DEF ShownInOrder
<1> QED
  BY <1>1, <1>2, <1>3, <1>4, PTL

(* A reader of the control socket that waits has one answer coming.         *)
THEOREM OneAnswerAlways == SpecParts => []OneAnswerComing
<1>1. SpecParts => []ToldP!OneAnswerComing \/ [](part # "told")
  BY ToldAlone, ToldAssumed, ToldP!AnswersComeOnce, PTL
<1>2. ToldP!OneAnswerComing => Told!OneAnswerComing
  BY DEF Told!OneAnswerComing, Told!Times, Told!Cardinality, ToldP!OneAnswerComing,
         ToldP!Times, ToldP!Cardinality
<1>3. SpecParts => []CallingP!OneAnswerComing \/ [](part # "calling")
  BY CallingAlone, CallingAssumed, CallingP!AnswersComeOnce, PTL
<1>4. CallingP!OneAnswerComing => Calling!OneAnswerComing
  BY DEF Calling!OneAnswerComing, Calling!Times, Calling!Cardinality,
         CallingP!OneAnswerComing, CallingP!Times, CallingP!Cardinality
<1>5. (part # "told" \/ Told!OneAnswerComing) /\ (part # "calling" \/ Calling!OneAnswerComing)
        => OneAnswerComing
  BY DEF OneAnswerComing
<1> QED
  BY <1>1, <1>2, <1>3, <1>4, <1>5, PTL

(* A client is told in order: of a subscription before its news, and of     *)
(* everything before it is hung up on.                                      *)
THEOREM ToldInOrderAlways == SpecParts => []ToldInOrder
<1>1. SpecParts => [](ToldP!AckBeforeNotes /\ ToldP!LastWordIsSent) \/ [](part # "told")
  BY ToldAlone, ToldAssumed, ToldP!AckComesFirst, ToldP!EveryReplyIsSent, PTL
<1>2. ToldP!AckBeforeNotes /\ ToldP!LastWordIsSent => Told!AckBeforeNotes /\ Told!LastWordIsSent
  BY DEF Told!AckBeforeNotes, Told!LastWordIsSent, Told!Said, Told!Cardinality,
         ToldP!AckBeforeNotes, ToldP!LastWordIsSent, ToldP!Said, ToldP!Cardinality
<1>3. SpecParts => []CallingP!LastWordIsSent \/ [](part # "calling")
  BY CallingAlone, CallingAssumed, CallingP!EveryReplyIsSent, PTL
<1>4. CallingP!LastWordIsSent => Calling!LastWordIsSent
  BY DEF Calling!LastWordIsSent, Calling!Cardinality, CallingP!LastWordIsSent,
         CallingP!Cardinality
<1>5. (part # "told" \/ (Told!AckBeforeNotes /\ Told!LastWordIsSent)) /\ (part # "calling" \/ Calling!LastWordIsSent)
        => ToldInOrder
  BY DEF ToldInOrder
<1> QED
  BY <1>1, <1>2, <1>3, <1>4, <1>5, PTL

(* The link matrix is said to be measured only when it has been walked.     *)
THEOREM MeasuredAlways == SpecParts => []MeasuredIsWalked
<1>1. SpecParts => []SwitchedP!MeasuredIsWalked \/ [](part # "switched")
  BY SwitchedAlone, SwitchedAssumed, SwitchedP!MeasuredMeansWalked, PTL
<1>2. SwitchedP!MeasuredIsWalked => Switched!MeasuredIsWalked
  BY DEF Switched!MeasuredIsWalked, Switched!Engine, SwitchedP!MeasuredIsWalked,
         SwitchedP!Engine
<1>3. SpecParts => []RewarmedP!MeasuredIsWalked \/ [](part # "rewarmed")
  BY RewarmedAlone, RewarmedAssumed, RewarmedP!MeasuredMeansWalked, PTL
<1>4. RewarmedP!MeasuredIsWalked => Rewarmed!MeasuredIsWalked
  BY DEF Rewarmed!MeasuredIsWalked, Rewarmed!Engine, RewarmedP!MeasuredIsWalked,
         RewarmedP!Engine
<1>5. (part # "switched" \/ Switched!MeasuredIsWalked) /\ (part # "rewarmed" \/ Rewarmed!MeasuredIsWalked)
        => MeasuredIsWalked
  BY DEF MeasuredIsWalked
<1> QED
  BY <1>1, <1>2, <1>3, <1>4, <1>5, PTL

(* The links on the map are of the network that is open.                    *)
THEOREM LinksAreOursAlways == SpecParts => []LinksAreThisNetworks
<1>1. SpecParts => []SwitchedP!LinksAreThisNetworks \/ [](part # "switched")
  BY SwitchedAlone, SwitchedAssumed, SwitchedP!LinksShownAreOurs, PTL
<1>2. SwitchedP!LinksAreThisNetworks => Switched!LinksAreThisNetworks
  BY DEF Switched!LinksAreThisNetworks, Switched!Engine, SwitchedP!LinksAreThisNetworks,
         SwitchedP!Engine
<1>3. SpecParts => []RewarmedP!LinksAreThisNetworks \/ [](part # "rewarmed")
  BY RewarmedAlone, RewarmedAssumed, RewarmedP!LinksShownAreOurs, PTL
<1>4. RewarmedP!LinksAreThisNetworks => Rewarmed!LinksAreThisNetworks
  BY DEF Rewarmed!LinksAreThisNetworks, Rewarmed!Engine, RewarmedP!LinksAreThisNetworks,
         RewarmedP!Engine
<1>5. (part # "switched" \/ Switched!LinksAreThisNetworks) /\ (part # "rewarmed" \/ Rewarmed!LinksAreThisNetworks)
        => LinksAreThisNetworks
  BY DEF LinksAreThisNetworks
<1> QED
  BY <1>1, <1>2, <1>3, <1>4, <1>5, PTL

(* A loss is kept under the key of what priced it.                          *)
THEOREM PricedAlways == SpecParts => []PricedAsKeyed
<1>1. SpecParts => []SwitchedP!PricedAsKeyed \/ [](part # "switched")
  BY SwitchedAlone, SwitchedAssumed, SwitchedP!LossesAreAsKeyed, PTL
<1>2. SwitchedP!PricedAsKeyed => Switched!PricedAsKeyed
  BY DEF Switched!PricedAsKeyed, Switched!Engine, Switched!Fingerprint, Switched!Cache,
         Switched!Priced, SwitchedP!PricedAsKeyed, SwitchedP!Engine, SwitchedP!Fingerprint,
         SwitchedP!Cache, SwitchedP!Priced
<1>3. SpecParts => []RewarmedP!PricedAsKeyed \/ [](part # "rewarmed")
  BY RewarmedAlone, RewarmedAssumed, RewarmedP!LossesAreAsKeyed, PTL
<1>4. RewarmedP!PricedAsKeyed => Rewarmed!PricedAsKeyed
  BY DEF Rewarmed!PricedAsKeyed, Rewarmed!Engine, Rewarmed!Fingerprint, Rewarmed!Cache,
         Rewarmed!Priced, RewarmedP!PricedAsKeyed, RewarmedP!Engine, RewarmedP!Fingerprint,
         RewarmedP!Cache, RewarmedP!Priced
<1>5. (part # "switched" \/ Switched!PricedAsKeyed) /\ (part # "rewarmed" \/ Rewarmed!PricedAsKeyed)
        => PricedAsKeyed
  BY DEF PricedAsKeyed
<1> QED
  BY <1>1, <1>2, <1>3, <1>4, <1>5, PTL

(* The sweep, however often it is started and whatever matrix it is given.  *)
LEMMA SweepHolds == SpecParts => [](part = "sweep" => SweepInv)
<1>1. Sweeps!SweepAssumption
  BY PartsAssumption
<1>2. InitParts => (part = "sweep" => SweepInv)
  BY <1>1, SweepBegins DEF InitParts
<1>3. ASSUME part = "sweep" => SweepInv, [NextParts]_allVars, (part = "sweep")' PROVE SweepInv'
  <2>1. part = "sweep"
    BY <1>3, PartStays
  <2>2. [Sweeps!Next]_(Sweeps!vars)
    <3>1. CASE UNCHANGED sweepVars
      BY <3>1 DEF sweepVars, Sweeps!vars, Sweeps!matrixVars, Sweeps!tableVars, Sweeps!runVars,
           Sweeps!worldVars, Sweeps!pastVars
    <3> QED
      BY <1>3, <2>1, <3>1 DEF NextParts, StoreAlone, allVars
  <2> QED
    BY <1>1, <1>3, <2>1, <2>2, SweepInvStep
<1>4. (part = "sweep" => SweepInv) /\ [NextParts]_allVars => (part = "sweep" => SweepInv)'
  BY <1>3
<1> QED
  BY <1>2, <1>4, PTL DEF SpecParts

(* The table of results is of one sweep, however soon another is started,   *)
(* and has a row for every cell of it, once.                                *)
THEOREM TableIsRightAlways == SpecParts => []TableIsRight
<1>1. (part = "sweep" => SweepInv) => TableIsRight
  BY PartsAssumption, SweepInvImplies DEF TableIsRight
<1> QED
  BY <1>1, SweepHolds, PTL

(* The world shows a sweep for as long as one has the table, and nothing of *)
(* it when the last one has let go.                                         *)
THEOREM SweepIsShownAlways == SpecParts => []SweepIsShown
<1>1. (part = "sweep" => SweepInv) => SweepIsShown
  BY PartsAssumption, SweepInvImplies DEF SweepIsShown
<1> QED
  BY <1>1, SweepHolds, PTL

(* What became of the packet is one of what it may come to, and what is     *)
(* repaired is a symbol at most.                                            *)
LEMMA CollisionTypes == SpecParts => [](part = "collision" => Collisions!TypeOK)
<1>1. InitParts => Collisions!TypeOK
  BY DEF InitParts, Collisions!Init, Collisions!TypeOK, Collisions!Unjudged
<1>2. ASSUME Collisions!TypeOK, NEW o, Collisions!KeysUp(o),
             o \in {Before(ms) : ms \in {2, 10, 84, 85, 100}} \cup {From(ms) : ms \in {82, 90, 110, 128}}
                     \cup {[Before(100) EXCEPT !.dBm = -110], [Before(10) EXCEPT !.near = FALSE]}
      PROVE  Collisions!TypeOK'
  BY <1>2 DEF Collisions!TypeOK, Collisions!KeysUp
<1>3. ASSUME Collisions!TypeOK, NEW enough \in BOOLEAN, Collisions!Judge(enough) PROVE Collisions!TypeOK'
  <2>1. Collisions!WeakFailure \in {"crc", "header", "no_lock"} /\ Collisions!FailureOf \in {"crc", "header"}
    BY DEF Collisions!WeakFailure, Collisions!FailureOf
  <2>2. Collisions!SurvivesCorruption(Collisions!DamagedSymbols) => Collisions!DamagedSymbols \in {0, 1}
    BY DEF Collisions!SurvivesCorruption
  <2> QED
    BY <1>3, <2>1, <2>2 DEF Collisions!TypeOK, Collisions!Judge, Collisions!Unjudged
<1>4. ASSUME part = "collision" => Collisions!TypeOK, [NextParts]_allVars, (part = "collision")'
      PROVE  Collisions!TypeOK'
  <2>1. part = "collision"
    BY <1>4, PartStays
  <2>2. CASE UNCHANGED collisionVars
    BY <1>4, <2>1, <2>2 DEF collisionVars, Collisions!TypeOK
  <2>3. CASE Collisions!Next
    BY <1>2, <1>3, <1>4, <2>1, <2>3 DEF Collisions!Next
  <2> QED
    BY <1>4, <2>1, <2>2, <2>3 DEF NextParts, StoreAlone, allVars
<1>5. (part = "collision" => Collisions!TypeOK) /\ [NextParts]_allVars => (part = "collision" => Collisions!TypeOK)'
  BY <1>4
<1> QED
  BY <1>1, <1>5, PTL DEF SpecParts

(* The store's types, and those of the closers that leave it alone. *)
LEMMA StoreTypes == SpecParts => [](part \in {"store", "shutdown"} => ShutdownTypeOK)
<1>1. InitParts => ShutdownInit
  BY DEF InitParts
<1>2. part = "shutdown" /\ [NextParts]_allVars => [ShutdownNext]_shutdownVars /\ (part = "shutdown")'
  <2>1. CASE UNCHANGED allVars
    BY <2>1, PartStays DEF allVars
  <2> QED
    BY <2>1, PartStays DEF NextParts, StoreAlone
<1>3. SpecParts /\ part = "shutdown" => []ShutdownTypeOK
  BY <1>1, <1>2, ShutdownTypeCorrect, PTL DEF SpecParts, ShutdownSpec
<1>4. part = "store" /\ [NextParts]_allVars => [Next]_vars /\ UNCHANGED <<closeVars, exited>> /\ (part = "store")'
  <2>1. CASE UNCHANGED allVars
    BY <2>1, PartStays DEF allVars, shutdownVars
  <2> QED
    BY <2>1, PartStays DEF NextParts, StoreAlone
<1> DEFINE Closers == /\ eng \in BOOLEAN
                      /\ found \subseteq Closer
                      /\ step \in [Closer -> {"off", "detaching", "alone", "clearing", "closing", "closed"}]
                      /\ holds \subseteq Closer
                      /\ engClosed \in BOOLEAN
                      /\ exited \in {"no", "closed", "bound"}
<1>5. Closers /\ UNCHANGED <<closeVars, exited>> => Closers'
  BY DEF closeVars
<1>6. ShutdownInit => Init /\ ShutdownTypeOK
  BY TypesAtFirst DEF ShutdownInit, ShutdownTypeOK
<1>7. ShutdownTypeOK <=> TypeOK /\ Closers
  BY DEF ShutdownTypeOK
<1> HIDE DEF Closers
<1>8. SpecParts /\ part = "store" => []ShutdownTypeOK
  BY <1>1, <1>4, <1>5, <1>6, <1>7, TypeCorrect, PTL DEF SpecParts, Spec
<1>9. [NextParts]_allVars /\ part \notin {"store", "shutdown"} => (part \notin {"store", "shutdown"})'
  BY PartStays
<1>10. part = "store" \/ part = "shutdown" \/ part \notin {"store", "shutdown"}
  OBVIOUS
<1>11. part \notin {"store", "shutdown"} => (part \in {"store", "shutdown"} => ShutdownTypeOK)
  OBVIOUS
<1>12. ShutdownTypeOK => (part \in {"store", "shutdown"} => ShutdownTypeOK)
  OBVIOUS
<1> QED
  BY <1>3, <1>8, <1>9, <1>10, <1>11, <1>12, PTL DEF SpecParts

(* Every part's state is of the types it is said to be of.                  *)
THEOREM TypesAlways == SpecParts => []TypesOK
<1>1. SpecParts => []SendsP!TypeOK \/ [](part # "scheduled")
  BY SendsAlone, SendsAssumed, SendsP!TypeCorrect, PTL
<1>2. SendsP!TypeOK => Sends!TypeOK
  BY DEF Sends!TypeOK, SendsP!TypeOK
<1>3. SpecParts => []TimedP!TypeOK \/ [](part # "timed")
  BY TimedAlone, TimedAssumed, TimedP!TypeCorrect, PTL
<1>4. TimedP!TypeOK => Timed!TypeOK
  BY DEF Timed!TypeOK, TimedP!TypeOK
<1>5. SpecParts => []PortP!TypeOK \/ [](part # "port")
  BY PortAlone, PortAssumed, PortP!TypeCorrect, PTL
<1>6. PortP!TypeOK => Port!TypeOK
  BY DEF Port!TypeOK, Port!Link, Port!NoClient, Port!Nobody, Port!Pane, Port!Companion,
         Port!Attaching, PortP!Attaching, PortP!TypeOK, PortP!Link, PortP!NoClient, PortP!Nobody, PortP!Pane,
         PortP!Companion
<1>7. SpecParts => []ToldP!TypeOK \/ [](part # "told")
  BY ToldAlone, ToldAssumed, ToldP!TypeCorrect, PTL
<1>8. ToldP!TypeOK => Told!TypeOK
  BY DEF Told!TypeOK, Told!Frame, Told!Reply, Told!Ack, Told!Note, Told!Topic,
         ToldP!TypeOK, ToldP!Frame, ToldP!Reply, ToldP!Ack, ToldP!Note, ToldP!Topic
<1>9. SpecParts => []CallingP!TypeOK \/ [](part # "calling")
  BY CallingAlone, CallingAssumed, CallingP!TypeCorrect, PTL
<1>10. CallingP!TypeOK => Calling!TypeOK
  BY DEF Calling!TypeOK, Calling!Frame, Calling!Reply, Calling!Ack, Calling!Note,
         Calling!Topic, CallingP!TypeOK, CallingP!Frame, CallingP!Reply, CallingP!Ack,
         CallingP!Note, CallingP!Topic
<1>11. SpecParts => []SwitchedP!TypeOK \/ [](part # "switched")
  BY SwitchedAlone, SwitchedAssumed, SwitchedP!TypeCorrect, PTL
<1>12. SwitchedP!TypeOK => Switched!TypeOK
  BY DEF Switched!TypeOK, Switched!Priced, Switched!Matrix, Switched!Fingerprint,
         Switched!Engine, SwitchedP!TypeOK, SwitchedP!Priced, SwitchedP!Matrix,
         SwitchedP!Fingerprint, SwitchedP!Engine
<1>13. SpecParts => []RewarmedP!TypeOK \/ [](part # "rewarmed")
  BY RewarmedAlone, RewarmedAssumed, RewarmedP!TypeCorrect, PTL
<1>14. RewarmedP!TypeOK => Rewarmed!TypeOK
  BY DEF Rewarmed!TypeOK, Rewarmed!Priced, Rewarmed!Matrix, Rewarmed!Fingerprint,
         Rewarmed!Engine, RewarmedP!TypeOK, RewarmedP!Priced, RewarmedP!Matrix,
         RewarmedP!Fingerprint, RewarmedP!Engine
<1>15. (part = "sweep" => SweepInv) => (part = "sweep" => Sweeps!TypeOK)
  BY PartsAssumption, SweepInvImplies
<1>17. SpecParts => []SweptP!TypeOK \/ [](part # "swept")
  BY SweptAlone, SweptAssumed, SweptP!TypeCorrect, PTL
<1>18. SweptP!TypeOK => Swept!TypeOK
  BY DEF Swept!TypeOK, SweptP!TypeOK
<1>19. SpecParts => []SaidP!TypeOK \/ [](part # "console")
  BY SaidAlone, SaidAssumed, SaidP!TypeCorrect, PTL
<1>20. SaidP!TypeOK => Said!TypeOK
  BY DEF Said!TypeOK, Said!Link, Said!NoClient, Said!Nobody, Said!Pane, Said!Companion, Said!Attaching,
         SaidP!TypeOK, SaidP!Link, SaidP!NoClient, SaidP!Nobody, SaidP!Pane,
         SaidP!Companion, SaidP!Attaching
<1>16. /\ part \in {"store", "shutdown"} => ShutdownTypeOK
       /\ part = "sweep" => Sweeps!TypeOK
       /\ part = "collision" => Collisions!TypeOK
       /\ part # "scheduled" \/ Sends!TypeOK
       /\ part # "timed" \/ Timed!TypeOK
       /\ part # "swept" \/ Swept!TypeOK
       /\ part # "port" \/ Port!TypeOK
       /\ part # "console" \/ Said!TypeOK
       /\ part # "told" \/ Told!TypeOK
       /\ part # "calling" \/ Calling!TypeOK
       /\ part # "switched" \/ Switched!TypeOK
       /\ part # "rewarmed" \/ Rewarmed!TypeOK
       => TypesOK
  BY DEF TypesOK
<1> QED
  BY <1>1, <1>2, <1>3, <1>4, <1>5, <1>6, <1>7, <1>8, <1>9, <1>10, <1>11, <1>12, <1>13,
     <1>14, <1>15, <1>16, <1>17, <1>18, <1>19, <1>20, SweepHolds, CollisionTypes, StoreTypes, PTL

(* The verb queue serves its callers one at a time and tells each the       *)
(* truth, whichever part of the session moves.                              *)
THEOREM SessionServes == SpecParts => StoreIsASerialServer
<1>1. InitParts => Init
  BY DEF InitParts, ShutdownInit
<1>2. ASSUME [NextParts]_allVars PROVE [Next]_vars
  <2>1. CASE UNCHANGED shutdownVars
    BY <2>1 DEF shutdownVars
  <2>2. CASE StoreAlone(Next)
    BY <2>2 DEF StoreAlone
  <2>3. CASE ShutdownNext
    BY <2>3, NextOfTheStore
  <2> QED
    BY <1>2, <2>1, <2>2, <2>3 DEF NextParts, allVars, OutsideClock, OutsidePort, OutsideSweep,
         OutsideControl, OutsideCollision, OutsideMatrix
<1> QED
  BY <1>1, <1>2, ImplementsSerialServer, PTL DEF SpecParts, Spec

(* A process that exits saying it has closed the engine has, and one that   *)
(* no shutdown was asked of does not exit.                                  *)
THEOREM SessionExitsAfterClose == SpecParts => []ExitsAfterClose
<1>1. InitParts => ShutdownInit
  BY DEF InitParts
<1>2. part = "shutdown" /\ [NextParts]_allVars => [ShutdownNext]_shutdownVars /\ (part = "shutdown")'
  <2>1. CASE UNCHANGED allVars
    BY <2>1, PartStays DEF allVars
  <2> QED
    BY <2>1, PartStays DEF NextParts, StoreAlone
<1>3. SpecParts /\ part = "shutdown" => ShutdownSpec
  BY <1>1, <1>2, PTL DEF SpecParts, ShutdownSpec
<1>4. part # "shutdown" /\ exited # "closed" /\ [NextParts]_allVars
        => (part # "shutdown" /\ exited # "closed")'
  <2>1. CASE UNCHANGED shutdownVars
    BY <2>1, PartStays DEF shutdownVars
  <2> QED
    BY <2>1, PartStays DEF NextParts, StoreAlone, allVars, OutsideClock, OutsidePort, OutsideSweep,
         OutsideControl, OutsideCollision, OutsideMatrix
<1>5. (ShutdownInit => exited # "closed") /\ (part = "shutdown" \/ part # "shutdown")
  BY DEF ShutdownInit
<1>6. exited # "closed" => ExitsAfterClose
  BY DEF ExitsAfterClose
<1> QED
  BY <1>1, <1>3, <1>4, <1>5, <1>6, ExitIsAfterClose, PTL DEF SpecParts
=============================================================================
