--------------------------- MODULE LockstepProofs ---------------------------
(***************************************************************************)
(* What is proved of Lockstep for any number of nodes, any number of starts *)
(* of each, any airtime and any choice of who may crash, stall or be        *)
(* debugged: its types, that it implements the barrier of TickBarrier, that *)
(* a node told of a completion is owed it, that a node the engine remembers *)
(* as held can still answer, and - in sessions where nobody turns debugging *)
(* off on a held node - that no node ever owes two acknowledgements, so     *)
(* that no bridge hangs up on its node.                                     *)
(***************************************************************************)
EXTENDS Lockstep, FiniteSetTheorems, TLAPS

-----------------------------------------------------------------------------
(* Types.                                                                   *)

LEMMA PutType ==
  ASSUME TypeOK, NEW n \in Node, NEW kind \in {"tick", "txDone"}, NEW val \in Nat,
         Put(n, kind, val)
  PROVE  toNode' \in [Node -> Seq(ToNodeMsg)]
<1>1. [kind |-> kind, val |-> val] \in ToNodeMsg
  BY DEF ToNodeMsg
<1> QED
  BY <1>1 DEF TypeOK, Put

(* The engine's walks: one that goes on to a node goes on to one there is.  *)
LEMMA WalkOn ==
  ASSUME looked' \in {0} \cup Node, next' \in Node, IsFiniteSet(inFlight')
  PROVE  WalkOK'
BY LockstepAssumption DEF WalkOK, Node

LEMMA WalkKept ==
  ASSUME WalkOK, UNCHANGED <<looked, next, inFlight>>
  PROVE  WalkOK'
BY DEF WalkOK

LEMMA TypeCompleting ==
  ASSUME TypeOK, Completing
  PROVE  TypeOK'
<1>1. ASSUME NEW t \in telling, TellSender(t)
      PROVE  TypeOK'
  <2>1. t.from \in Node /\ t.gen \in Nat
    BY DEF TypeOK, Transmission
  <2>2. toNode' \in [Node -> Seq(ToNodeMsg)]
    BY <1>1, <2>1, PutType DEF TypeOK, TellSender
  <2> QED
    BY <1>1, <2>2, WalkKept DEF TypeOK, TellSender, slot, process
<1>2. ASSUME NEW t \in telling, TellSenderFails(t)
      PROVE  TypeOK'
  <2>1. WalkOK'
    BY <1>2, WalkOn DEF TypeOK, TellSenderFails, Abort, WalkOK
  <2> QED
    BY <1>2, <2>1 DEF TypeOK, TellSenderFails, Abort, slot, bridge, process
<1>3. ASSUME NEW t \in hearing, DeliverFrame(t)
      PROVE  TypeOK'
  <2>1. WalkOK'
    BY <1>3, WalkOn DEF TypeOK, DeliverFrame, WalkOK
  <2> QED
    BY <1>3, <2>1 DEF TypeOK, DeliverFrame, slot, bridge, process
<1>4. ASSUME NEW t \in hearing, NEW n \in Node, LookAtReceiver(t, n)
      PROVE  TypeOK'
  <2>1. WalkOK'
    BY <1>4, WalkOn DEF TypeOK, LookAtReceiver, WalkOK
  <2> QED
    BY <1>4, <2>1 DEF TypeOK, LookAtReceiver, slot, bridge, process
<1>5. CASE DeliverFails
  <2>1. WalkOK'
    BY <1>5, WalkOn DEF TypeOK, DeliverFails, Abort, WalkOK
  <2> QED
    BY <1>5, <2>1 DEF TypeOK, DeliverFails, Abort, slot, bridge, process
<1>6. CASE DeliverPanics
  BY <1>6, WalkKept DEF TypeOK, DeliverPanics, Panic, slot, bridge, process
<1> QED
  BY <1>1, <1>2, <1>3, <1>4, <1>5, <1>6 DEF Completing

LEMMA TypeRunningFirmware ==
  ASSUME TypeOK, NEW n \in Node, RunningFirmware(n)
  PROVE  TypeOK'
<1>1. CASE SkipHeld(n)
  BY <1>1, WalkKept DEF TypeOK, SkipHeld, slot, process
<1>2. CASE BeginAdvance(n)
  <2>1. toNode' \in [Node -> Seq(ToNodeMsg)]
    BY <1>2, PutType DEF BeginAdvance, TypeOK
  <2> QED
    BY <1>2, <2>1, WalkKept DEF TypeOK, BeginAdvance, Released, NotHeld, slot, process
<1>3. CASE BeginAdvanceFails(n)
  BY <1>3, WalkKept DEF TypeOK, BeginAdvanceFails, Released, MarkDown, NotHeld, slot, process
<1>4. CASE WaitAdvance(n)
  BY <1>4, WalkKept DEF TypeOK, WaitAdvance, slot, process
<1>5. CASE WaitAdvanceStale(n)
  BY <1>5, WalkKept DEF TypeOK, WaitAdvanceStale, engine, slot, process
<1>6. CASE WaitAdvanceReplaced(n)
  BY <1>6, WalkKept DEF TypeOK, WaitAdvanceReplaced, slot, bridge, process
<1>7. CASE WaitAdvanceFails(n)
  BY <1>7, WalkKept DEF TypeOK, WaitAdvanceFails, MarkDown, slot, process
<1>8. CASE WaitDeadline(n)
  <2>1. UNCHANGED <<now, pc, round, inFlight, telling, hearing, target, looked, next,
                    failed, debugging, slot, bridge, process>>
        /\ ask' \in [Node -> {"none", "target", "asked", "answered"}]
    BY <1>8 DEF TypeOK, WaitDeadline
  <2>2. held' \in [Node -> [gen : Nat, at : Nat]]
    <3>1. [gen |-> target[n], at |-> round] \in [gen : Nat, at : Nat]
      BY DEF TypeOK
    <3> QED
      BY <1>8, <3>1 DEF TypeOK, WaitDeadline
  <2>3. down' \in [Node -> BOOLEAN] /\ downGen' \in [Node -> Nat]
    <3>1. CASE n \in debugging
      BY <1>8, <3>1 DEF TypeOK, WaitDeadline
    <3>2. CASE n \notin debugging
      <4>1. MarkDown(n)
        BY <1>8, <3>2 DEF WaitDeadline
      <4> QED
        BY <4>1 DEF TypeOK, MarkDown
    <3> QED
      BY <3>1, <3>2
  <2> QED
    BY <2>1, <2>2, <2>3, WalkKept DEF TypeOK, slot, bridge, process
<1> QED
  BY <1>1, <1>2, <1>3, <1>4, <1>5, <1>6, <1>7, <1>8 DEF RunningFirmware

(* A frame collected is one more transmission, and there are finitely many. *)
LEMMA TypeTakes ==
  ASSUME TypeOK, NEW air \in 1 .. MaxAir, CollectTakes(air)
  PROVE  /\ inFlight' \subseteq Transmission /\ WalkOK'
         /\ transmitted' \in [Node -> 0 .. TransmittedCap]
<1> DEFINE earlier == {t \in inFlight : t.from = looked /\ t.gen = gen[looked] /\ t.start = now}
           k == Cardinality(earlier) + 1
           taken == [from |-> looked, gen |-> gen[looked], start |-> now, nth |-> k,
                     end |-> now + air]
<1>1. looked \in Node /\ transmitted[looked] > 0
  BY DEF CollectTakes, TypeOK, WalkOK, Node
<1>2. earlier \subseteq inFlight /\ IsFiniteSet(inFlight)
  BY DEF TypeOK, WalkOK
<1>3. k \in Nat
  <2>1. IsFiniteSet(earlier)
    BY <1>2, FS_Subset
  <2>2. Cardinality(earlier) \in Nat
    BY <2>1, FS_CardinalityType
  <2> QED
    BY <2>2
<1>4. inFlight' = inFlight \cup {taken}
  BY DEF CollectTakes
<1>5. taken \in Transmission
  <2> HIDE DEF k
  <2>1. now + air \in Nat /\ gen[looked] \in Nat /\ now \in Nat
    BY <1>1, LockstepAssumption DEF TypeOK
  <2> QED
    BY <1>1, <1>3, <2>1 DEF Transmission
<1>6. IsFiniteSet(inFlight \cup {taken})
  <2> HIDE DEF taken
  <2> QED
    BY <1>2, FS_AddElement
<1>7. transmitted' \in [Node -> 0 .. TransmittedCap]
  BY <1>1, LockstepAssumption DEF TypeOK, CollectTakes
<1>8. WalkOK'
  <2>1. WalkOK /\ looked' = looked /\ next' = next
    BY DEF TypeOK, CollectTakes
  <2> HIDE DEF taken
  <2> QED
    BY <1>4, <1>6, <2>1, WalkOn DEF WalkOK
<1>9. inFlight \subseteq Transmission
  BY DEF TypeOK
<1> HIDE DEF taken
<1> QED
  BY <1>4, <1>5, <1>7, <1>8, <1>9

LEMMA TypeOnward ==
  ASSUME TypeOK, Onward
  PROVE  /\ pc' \in {"idle", "complete", "firmware", "panicked"}
         /\ next' \in Node
<1>1. next \in Node /\ pc \in {"idle", "complete", "firmware", "panicked"}
  BY DEF TypeOK, WalkOK
<1> QED
  BY <1>1, LockstepAssumption DEF Onward, Node

LEMMA TypeCollect ==
  ASSUME TypeOK, CollectTransmissions
  PROVE  TypeOK'
<1>1. CASE CollectPasses
  <2>1. Onward
    BY <1>1 DEF CollectPasses
  <2> QED
    <3>1. WalkOK'
      BY <1>1, <2>1, TypeOnward, WalkOn DEF TypeOK, CollectPasses, WalkOK
    <3> QED
      BY <1>1, <2>1, <3>1, TypeOnward DEF TypeOK, CollectPasses, slot, bridge, process
<1>2. CASE CollectLooks
  <2>1. WalkOK'
    BY <1>2, WalkOn DEF TypeOK, CollectLooks, WalkOK
  <2> QED
    BY <1>2, <2>1 DEF TypeOK, CollectLooks, slot, bridge, process
<1>3. CASE CollectEnds
  <2>1. Onward
    BY <1>3 DEF CollectEnds
  <2> QED
    <3>1. WalkOK'
      BY <1>3, <2>1, TypeOnward, WalkOn DEF TypeOK, CollectEnds, WalkOK
    <3> QED
      BY <1>3, <2>1, <3>1, TypeOnward DEF TypeOK, CollectEnds, slot, bridge, process
<1>4. CASE CollectPanics
  BY <1>4, WalkKept DEF TypeOK, CollectPanics, Panic, slot, bridge, process
<1>5. ASSUME NEW air \in 1 .. MaxAir, CollectTakes(air)
      PROVE  TypeOK'
  <2>1. UNCHANGED <<now, pc, round, telling, hearing, target, ask, looked, next, held,
                    down, failed, downGen, debugging, slot, closed, acked, toNode,
                    toEngine, process>>
    BY <1>5 DEF CollectTakes
  <2> QED
    BY <1>5, <2>1, TypeTakes DEF TypeOK, slot, process
<1> QED
  BY <1>1, <1>2, <1>3, <1>4, <1>5 DEF CollectTransmissions

LEMMA TypeStep ==
  ASSUME TypeOK, Step
  PROVE  TypeOK'
<1>1. CASE StepBegin
  <2>1. IsFiniteSet({t \in inFlight : ~Ended(t)})
    BY FS_Subset DEF TypeOK, WalkOK
  <2>2. WalkOK'
    BY <1>1, <2>1, WalkOn DEF TypeOK, StepBegin, WalkOK
  <2> QED
    BY <1>1, <2>2 DEF TypeOK, StepBegin, slot, bridge, process
<1>2. CASE FirmwareTargets
  BY <1>2, WalkKept DEF TypeOK, FirmwareTargets, slot, bridge, process
<1>3. CASE CollectTransmissions
  BY <1>3, TypeCollect
<1> QED
  BY <1>1, <1>2, <1>3, TypeCompleting, TypeRunningFirmware DEF Step

LEMMA TypeRead ==
  ASSUME TypeOK, NEW n \in Node, Read(n)
  PROVE  TypeOK'
<1>1. ASSUME NEW kind, NextFrom(n, kind)
      PROVE  /\ toEngine' \in [Node -> Seq(ToEngineMsg)]
             /\ Head(toEngine[n]).val \in Nat
  <2>1. toEngine[n] \in Seq(ToEngineMsg) /\ toEngine[n] # <<>>
    BY <1>1 DEF NextFrom, TypeOK
  <2>2. Head(toEngine[n]) \in ToEngineMsg /\ Tail(toEngine[n]) \in Seq(ToEngineMsg)
    BY <2>1
  <2> QED
    BY <1>1, <2>2 DEF NextFrom, TypeOK, ToEngineMsg
<1>2. CASE ReadFrame(n)
  <2>1. toEngine' \in [Node -> Seq(ToEngineMsg)]
    BY <1>1, <1>2 DEF ReadFrame
  <2>2. transmitted' \in [Node -> 0 .. TransmittedCap]
    BY <1>2, LockstepAssumption, SMTT(30) DEF ReadFrame, TypeOK
  <2> QED
    BY <1>2, <2>1, <2>2, WalkKept DEF TypeOK, ReadFrame, engine, slot, process
<1>3. CASE ReadAck(n)
  <2>1. toEngine' \in [Node -> Seq(ToEngineMsg)] /\ Head(toEngine[n]).val \in Nat
    BY <1>1, <1>3 DEF ReadAck
  <2> QED
    BY <1>3, <2>1, WalkKept DEF TypeOK, ReadAck, engine, slot, process
<1>4. CASE ReadEOF(n)
  <2>1. <<>> \in Seq(ToEngineMsg)
    OBVIOUS
  <2>2. toEngine' \in [Node -> Seq(ToEngineMsg)]
    BY <1>4, <2>1 DEF TypeOK, ReadEOF
  <2> QED
    BY <1>4, <2>2, WalkKept DEF TypeOK, ReadEOF, engine, slot, process
<1> QED
  BY <1>2, <1>3, <1>4 DEF Read

LEMMA TypeFirmware ==
  ASSUME TypeOK, NEW n \in Node, Firmware(n)
  PROVE  TypeOK'
<1>1. ASSUME NEW kind, Handles(n, kind)
      PROVE  /\ Tail(toNode[n]) \in Seq(ToNodeMsg)
             /\ Head(toNode[n]).val \in Nat
  <2>1. toNode[n] \in Seq(ToNodeMsg) /\ toNode[n] # <<>>
    BY <1>1 DEF Handles, TypeOK
  <2>2. Head(toNode[n]) \in ToNodeMsg /\ Tail(toNode[n]) \in Seq(ToNodeMsg)
    BY <2>1
  <2> QED
    BY <2>2 DEF ToNodeMsg
<1>2. ASSUME NEW kind \in {"frame", "ack"}, NEW val \in Nat
      PROVE  Append(toEngine[n], [kind |-> kind, val |-> val]) \in Seq(ToEngineMsg)
  <2>1. [kind |-> kind, val |-> val] \in ToEngineMsg
    BY DEF ToEngineMsg
  <2> QED
    BY <2>1 DEF TypeOK
<1>3. CASE NodeTxDone(n)
  BY <1>1, <1>3, WalkKept DEF TypeOK, NodeTxDone, engine, slot
<1>4. CASE NodeTransmit(n)
  BY <1>2, <1>4, WalkKept DEF TypeOK, NodeTransmit, engine, slot
<1>5. CASE NodeAck(n)
  BY <1>1, <1>2, <1>5, WalkKept DEF TypeOK, NodeAck, engine, slot
<1> QED
  BY <1>3, <1>4, <1>5 DEF Firmware

LEMMA TypeSession ==
  ASSUME TypeOK, NEW n \in Node, Session(n)
  PROVE  TypeOK'
<1>1. CASE SetDebug(n)
  BY <1>1, WalkKept DEF TypeOK, SetDebug, engine, slot, bridge, process
<1>2. CASE ClearDebug(n)
  BY <1>2, WalkKept DEF TypeOK, ClearDebug, NotHeld, slot, bridge, process
<1>3. CASE StopClose(n)
  BY <1>3, WalkKept DEF TypeOK, StopClose, engine, process
<1>4. CASE StopClear(n)
  BY <1>4, WalkKept DEF TypeOK, StopClear, engine, bridge
<1>5. CASE Adopt(n)
  <2>1. toNode' \in [Node -> Seq(ToNodeMsg)] /\ toEngine' \in [Node -> Seq(ToEngineMsg)]
    <3>1. <<>> \in Seq(ToNodeMsg) /\ <<>> \in Seq(ToEngineMsg)
      OBVIOUS
    <3> QED
      BY <1>5, <3>1 DEF TypeOK, Adopt
  <2>2. transmitted' \in [Node -> 0 .. TransmittedCap]
    BY <1>5, LockstepAssumption DEF TypeOK, Adopt
  <2>3. /\ fw' \in [Node -> {"none", "up", "stopping"}]
        /\ gen' \in [Node -> Nat] /\ acked' \in [Node -> Nat] /\ clock' \in [Node -> Nat]
        /\ closed' \in [Node -> BOOLEAN] /\ onAir' \in [Node -> BOOLEAN]
        /\ proc' \in [Node -> {"run", "break", "gone"}]
        /\ UNCHANGED <<engine, debugging>>
    BY <1>5, SMTT(30) DEF TypeOK, Adopt
  <2> QED
    BY <2>1, <2>2, <2>3, WalkKept DEF TypeOK, engine
<1> QED
  BY <1>1, <1>2, <1>3, <1>4, <1>5 DEF Session

(* Lockstep keeps its types.                                                *)
THEOREM TypeCorrect == Spec => []TypeOK
<1>1. Init => TypeOK
  <2> SUFFICES ASSUME Init PROVE TypeOK
    OBVIOUS
  <2>1. toNode \in [Node -> Seq(ToNodeMsg)] /\ toEngine \in [Node -> Seq(ToEngineMsg)]
    <3>1. <<>> \in Seq(ToNodeMsg) /\ <<>> \in Seq(ToEngineMsg)
      OBVIOUS
    <3> QED
      BY <3>1 DEF Init
  <2>2. transmitted \in [Node -> 0 .. TransmittedCap]
    BY LockstepAssumption DEF Init
  <2>3. held \in [Node -> [gen : Nat, at : Nat]]
    BY DEF Init, NotHeld
  <2>4. IsFiniteSet({})
    BY FS_EmptySet
  <2>5. 1 \in Node /\ 0 \in 0 .. N
    BY LockstepAssumption DEF Node
  <2>6. WalkOK
    BY <2>4, <2>5 DEF Init, WalkOK
  <2> QED
    BY <2>1, <2>2, <2>3, <2>6 DEF Init, TypeOK
<1>2. TypeOK /\ [Next]_vars => TypeOK'
  <2> SUFFICES ASSUME TypeOK, [Next]_vars
               PROVE  TypeOK'
    OBVIOUS
  <2>1. ASSUME NEW n \in Node, Misfortune(n)
        PROVE  TypeOK'
    BY <2>1, WalkKept DEF TypeOK, Misfortune, Crash, Break, Continue, engine, slot, bridge
  <2>2. CASE UNCHANGED vars
    BY <2>2, WalkKept DEF TypeOK, vars, engine, slot, bridge, process
  <2> QED
    BY <2>1, <2>2, TypeStep, TypeRead, TypeFirmware, TypeSession DEF Next
<1> QED
  BY <1>1, <1>2, PTL DEF Spec

-----------------------------------------------------------------------------
(* What the engine's passes over its transmissions leave alone.             *)

LEMMA CompletingKeeps ==
  ASSUME Completing
  PROVE  /\ UNCHANGED <<now, round, target, ask, held, down, downGen, inFlight, slot,
                        closed, acked, transmitted, toEngine, process>>
         /\ pc = "complete" /\ pc' \in {"complete", "idle", "panicked"}
         /\ UNCHANGED toNode \/ \E t \in telling : Put(t.from, "txDone", t.gen)
<1>1. ASSUME NEW t \in telling, TellSender(t)
      PROVE  UNCHANGED toNode \/ Put(t.from, "txDone", t.gen)
  BY <1>1 DEF TellSender
<1>2. CASE \E t \in telling : TellSender(t) \/ TellSenderFails(t)
  BY <1>1, <1>2 DEF TellSender, TellSenderFails, Abort, bridge
<1>3. CASE \E t \in hearing : DeliverFrame(t) \/ \E n \in Node : LookAtReceiver(t, n)
  BY <1>3 DEF DeliverFrame, LookAtReceiver, Delivering, bridge
<1>4. CASE DeliverFails \/ DeliverPanics
  BY <1>4 DEF DeliverFails, DeliverPanics, Delivering, Panic, Abort, bridge
<1> QED
  BY <1>2, <1>3, <1>4 DEF Completing

LEMMA CollectKeeps ==
  ASSUME CollectTransmissions
  PROVE  /\ UNCHANGED <<now, round, telling, hearing, target, ask, held, down, failed,
                        downGen, debugging, slot, closed, acked, toNode, toEngine,
                        process>>
         /\ Collecting /\ pc' \in {"firmware", "idle", "panicked"}
BY DEF CollectTransmissions, CollectPasses, CollectLooks, CollectTakes, CollectEnds,
       CollectPanics, Panic, Onward, Collecting, bridge

-----------------------------------------------------------------------------
(* The inductive invariant behind the barrier.                              *)

(* Step runs in its phases: an instant is announced once, when everything   *)
(* that had finished has been dealt with, and by the end of the step nobody *)
(* is left unasked or waited for.                                           *)
Phases ==
  /\ round <= now
  /\ pc = "complete" => round < now
  /\ pc = "firmware" => round = now
  /\ pc # "firmware" => \A n \in Node : ask[n] \in {"none", "answered"}

(* The ticks on their way to a node are in order, none behind the node's    *)
(* clock and none beyond the instant announced; an acknowledgement is of an *)
(* instant the node has reached.                                            *)
IsTick(msg) == msg.kind = "tick"
TicksInOrder(n) ==
  /\ \A j \in DOMAIN toNode[n] : IsTick(toNode[n][j]) =>
       clock[n] <= toNode[n][j].val /\ toNode[n][j].val <= round
  /\ \A j, k \in DOMAIN toNode[n] :
       j < k /\ IsTick(toNode[n][j]) /\ IsTick(toNode[n][k]) =>
         toNode[n][j].val <= toNode[n][k].val
AcksReached(n) ==
  \A j \in DOMAIN toEngine[n] :
    toEngine[n][j].kind = "ack" => toEngine[n][j].val <= clock[n]

(* An answer is worth what it says: a node that has answered, and has not   *)
(* been replaced or cut off since, has reached the instant.                 *)
NodeInv(n) ==
  /\ target[n] <= gen[n]
  /\ clock[n] <= round
  /\ ~closed[n] => /\ fw[n] = "up"
                   /\ TicksInOrder(n) /\ AcksReached(n) /\ acked[n] <= clock[n]
  /\ CountsOn(n) /\ ask[n] = "answered" => clock[n] = round

BarrierInv == Phases /\ \A n \in Node : NodeInv(n)

LEMMA BarrierInvInit == Init => BarrierInv
BY DEF Init, BarrierInv, Phases, NodeInv, CountsOn

(* Sockets: what a message put on or taken off one leaves true of it.       *)
LEMMA TicksAppended ==
  ASSUME TypeOK, NEW n \in Node, NEW msg \in ToNodeMsg,
         TicksInOrder(n), clock[n] <= round,
         toNode'[n] = Append(toNode[n], msg),
         round' = round, clock'[n] = clock[n],
         IsTick(msg) => msg.val = round
  PROVE  TicksInOrder(n)'
<1>1. toNode[n] \in Seq(ToNodeMsg)
  BY DEF TypeOK
<1>2. /\ DOMAIN toNode'[n] = 1 .. Len(toNode[n]) + 1
      /\ DOMAIN toNode[n] = 1 .. Len(toNode[n])
      /\ Len(toNode[n]) \in Nat
      /\ \A k \in DOMAIN toNode[n] : toNode'[n][k] = toNode[n][k]
      /\ toNode'[n][Len(toNode[n]) + 1] = msg
  BY <1>1
<1>3. \A k \in DOMAIN toNode'[n] : k \in DOMAIN toNode[n] \/ k = Len(toNode[n]) + 1
  BY <1>2
<1>4. \A k \in DOMAIN toNode'[n] : IsTick(toNode'[n][k]) =>
        clock[n] <= toNode'[n][k].val /\ toNode'[n][k].val <= round
  BY <1>2, <1>3 DEF TicksInOrder, TypeOK
<1>5. ASSUME NEW j \in DOMAIN toNode'[n], NEW k \in DOMAIN toNode'[n],
             j < k, IsTick(toNode'[n][j]), IsTick(toNode'[n][k])
      PROVE  toNode'[n][j].val <= toNode'[n][k].val
  <2>1. j \in DOMAIN toNode[n]
    BY <1>2, <1>5
  <2>2. CASE k \in DOMAIN toNode[n]
    BY <1>2, <1>5, <2>1, <2>2 DEF TicksInOrder
  <2>3. CASE k = Len(toNode[n]) + 1
    BY <1>2, <1>4, <1>5, <2>1, <2>3
  <2> QED
    BY <1>3, <2>2, <2>3
<1> QED
  BY <1>4, <1>5 DEF TicksInOrder, IsTick

LEMMA TicksTaken ==
  ASSUME TypeOK, NEW n \in Node, TicksInOrder(n), toNode[n] # <<>>,
         toNode'[n] = Tail(toNode[n]), round' = round,
         \/ clock'[n] = clock[n]
         \/ IsTick(Head(toNode[n])) /\ clock'[n] = Head(toNode[n]).val
  PROVE  TicksInOrder(n)'
<1>1. toNode[n] \in Seq(ToNodeMsg)
  BY DEF TypeOK
<1>2. /\ \A k \in DOMAIN toNode'[n] : k + 1 \in DOMAIN toNode[n] /\ 1 < k + 1
      /\ \A k \in DOMAIN toNode'[n] : toNode'[n][k] = toNode[n][k + 1]
      /\ \A k \in DOMAIN toNode'[n] : k \in Nat
      /\ 1 \in DOMAIN toNode[n] /\ Head(toNode[n]) = toNode[n][1]
  BY <1>1
<1>3. \A k \in DOMAIN toNode'[n] : IsTick(toNode'[n][k]) =>
        clock'[n] <= toNode'[n][k].val /\ toNode'[n][k].val <= round
  BY <1>2 DEF TicksInOrder
<1>4. \A j, k \in DOMAIN toNode'[n] :
        j < k /\ IsTick(toNode'[n][j]) /\ IsTick(toNode'[n][k]) =>
          toNode'[n][j].val <= toNode'[n][k].val
  <2> SUFFICES ASSUME NEW j \in DOMAIN toNode'[n], NEW k \in DOMAIN toNode'[n],
                      j < k, IsTick(toNode'[n][j]), IsTick(toNode'[n][k])
               PROVE  toNode'[n][j].val <= toNode'[n][k].val
    OBVIOUS
  <2>1. j + 1 < k + 1
    BY <1>2
  <2> QED
    BY <1>2, <2>1 DEF TicksInOrder
<1> QED
  BY <1>3, <1>4 DEF TicksInOrder, IsTick

LEMMA AcksAppended ==
  ASSUME TypeOK, NEW n \in Node, NEW msg \in ToEngineMsg, AcksReached(n),
         toEngine'[n] = Append(toEngine[n], msg),
         clock'[n] \in Nat, clock[n] <= clock'[n],
         msg.kind = "ack" => msg.val <= clock'[n]
  PROVE  AcksReached(n)'
<1>1. toEngine[n] \in Seq(ToEngineMsg) /\ clock[n] \in Nat
  BY DEF TypeOK
<1>2. \A k \in DOMAIN toEngine'[n] :
        \/ k \in DOMAIN toEngine[n] /\ toEngine'[n][k] = toEngine[n][k]
        \/ toEngine'[n][k] = msg
  BY <1>1
<1>3. \A k \in DOMAIN toEngine[n] : toEngine[n][k].val \in Nat
  <2>1. \A k \in DOMAIN toEngine[n] : toEngine[n][k] \in ToEngineMsg
    BY <1>1
  <2> QED
    BY <2>1 DEF ToEngineMsg
<1> QED
  BY <1>1, <1>2, <1>3 DEF AcksReached

LEMMA AcksTaken ==
  ASSUME TypeOK, NEW n \in Node, AcksReached(n), toEngine[n] # <<>>,
         toEngine'[n] = Tail(toEngine[n]), clock'[n] = clock[n]
  PROVE  /\ AcksReached(n)'
         /\ Head(toEngine[n]).kind = "ack" => Head(toEngine[n]).val <= clock[n]
<1>1. toEngine[n] \in Seq(ToEngineMsg)
  BY DEF TypeOK
<1>2. /\ \A k \in DOMAIN toEngine'[n] :
           k + 1 \in DOMAIN toEngine[n] /\ toEngine'[n][k] = toEngine[n][k + 1]
      /\ 1 \in DOMAIN toEngine[n] /\ Head(toEngine[n]) = toEngine[n][1]
  BY <1>1
<1> QED
  BY <1>2 DEF AcksReached

(* A node whose sockets and clock a step leaves alone keeps its part, and   *)
(* so does one that a step cuts off.                                        *)
LEMMA NodeUntouched ==
  ASSUME TypeOK, NEW m \in Node, NodeInv(m),
         round' = round, target'[m] = target[m], gen'[m] = gen[m],
         clock'[m] = clock[m], closed'[m] = closed[m], fw'[m] = fw[m],
         toNode'[m] = toNode[m], toEngine'[m] = toEngine[m],
         acked'[m] \in {acked[m], 0},
         ask'[m] = "answered" => ask[m] = "answered"
  PROVE  NodeInv(m)'
<1>1. TicksInOrder(m) => TicksInOrder(m)'
  BY DEF TicksInOrder, IsTick
<1>2. AcksReached(m) => AcksReached(m)'
  BY DEF AcksReached
<1>3. acked[m] <= clock[m] => acked'[m] <= clock'[m]
  BY DEF TypeOK
<1>4. CountsOn(m)' /\ ask'[m] = "answered" => CountsOn(m)
  BY DEF CountsOn
<1> QED
  BY <1>1, <1>2, <1>3, <1>4 DEF NodeInv

LEMMA NodeCutOff ==
  ASSUME NEW m \in Node, NodeInv(m), closed'[m],
         round' = round, target'[m] = target[m], gen'[m] = gen[m], clock'[m] = clock[m]
  PROVE  NodeInv(m)'
BY DEF NodeInv, CountsOn

LEMMA BarrierInvCompleting ==
  ASSUME TypeOK, BarrierInv, Completing
  PROVE  BarrierInv'
<1>1. /\ UNCHANGED <<now, round, target, ask, slot, closed, acked, toEngine, process>>
      /\ pc = "complete" /\ pc' \in {"complete", "idle", "panicked"}
  BY CompletingKeeps
<1>2. Phases'
  BY <1>1 DEF BarrierInv, Phases
<1>3. ASSUME NEW m \in Node, toNode'[m] = toNode[m]
      PROVE  NodeInv(m)'
  BY <1>1, <1>3, NodeUntouched DEF BarrierInv, slot, process
<1>4. ASSUME NEW m \in Node, NEW msg \in ToNodeMsg, ~IsTick(msg),
             toNode'[m] = Append(toNode[m], msg)
      PROVE  NodeInv(m)'
  <2>1. TicksInOrder(m) => TicksInOrder(m)'
    BY <1>1, <1>4, TicksAppended DEF BarrierInv, NodeInv, process
  <2>2. AcksReached(m) => AcksReached(m)'
    BY <1>1 DEF AcksReached, process
  <2> QED
    BY <1>1, <2>1, <2>2 DEF BarrierInv, NodeInv, CountsOn, slot, process
<1>5. CASE UNCHANGED toNode
  BY <1>2, <1>3, <1>5 DEF BarrierInv
<1>6. ASSUME NEW t \in telling, Put(t.from, "txDone", t.gen)
      PROVE  BarrierInv'
  <2> DEFINE msg == [kind |-> "txDone", val |-> t.gen]
  <2>1. msg \in ToNodeMsg /\ ~IsTick(msg) /\ t.from \in Node
    BY DEF TypeOK, Transmission, ToNodeMsg, IsTick
  <2>2. toNode' = [toNode EXCEPT ![t.from] = Append(@, msg)]
    BY <1>6 DEF Put
  <2> HIDE DEF msg
  <2>3. \A m \in Node :
          IF m = t.from THEN toNode'[m] = Append(toNode[m], msg) ELSE toNode'[m] = toNode[m]
    BY <2>1, <2>2 DEF TypeOK
  <2> QED
    BY <1>2, <1>3, <1>4, <2>1, <2>3 DEF BarrierInv
<1> QED
  BY <1>5, <1>6, CompletingKeeps

LEMMA BarrierInvRunning ==
  ASSUME TypeOK, BarrierInv, NEW n \in Node, RunningFirmware(n)
  PROVE  BarrierInv'
<1>1. /\ UNCHANGED <<now, pc, round, target, slot, closed, toEngine, process>>
      /\ pc = "firmware"
      /\ \A m \in Node \ {n} : ask'[m] = ask[m] /\ acked'[m] = acked[m]
  BY DEF RunningFirmware, SkipHeld, BeginAdvance, BeginAdvanceFails, WaitAdvance,
       WaitAdvanceStale, WaitAdvanceReplaced, WaitAdvanceFails, WaitDeadline,
       Released, engine, bridge, TypeOK
<1>2. Phases'
  BY <1>1 DEF BarrierInv, Phases
<1>3. \A m \in Node : NodeInv(m)
  BY DEF BarrierInv
<1>4. ASSUME NEW m \in Node \ {n}, toNode'[m] = toNode[m]
      PROVE  NodeInv(m)'
  BY <1>1, <1>3, <1>4, NodeUntouched DEF slot, process
<1>5. CASE /\ UNCHANGED toNode
           /\ acked'[n] \in {acked[n], 0}
           /\ ask'[n] = "answered" => ask[n] = "answered"
  <2>1. NodeInv(n)'
    BY <1>1, <1>3, <1>5, NodeUntouched DEF slot, process
  <2> QED
    BY <1>2, <1>4, <1>5, <2>1 DEF BarrierInv
<1>6. CASE BeginAdvance(n)
  <2> DEFINE msg == [kind |-> "tick", val |-> now]
  <2>1. msg \in ToNodeMsg /\ msg.val = round
    BY <1>1 DEF BarrierInv, Phases, TypeOK, ToNodeMsg
  <2>2. /\ toNode' = [toNode EXCEPT ![n] = Append(@, msg)]
        /\ acked'[n] \in {acked[n], 0} /\ ask'[n] = "asked"
    BY <1>6 DEF BeginAdvance, Put, Released, TypeOK
  <2> HIDE DEF msg
  <2>3. /\ toNode'[n] = Append(toNode[n], msg)
        /\ \A m \in Node \ {n} : toNode'[m] = toNode[m]
    BY <2>2 DEF TypeOK
  <2>4. TicksInOrder(n) => TicksInOrder(n)'
    BY <1>1, <1>3, <2>1, <2>3, TicksAppended DEF NodeInv, process
  <2>5. AcksReached(n) => AcksReached(n)'
    BY <1>1 DEF AcksReached, process
  <2>6. acked[n] <= clock[n] => acked'[n] <= clock'[n]
    BY <1>1, <2>2 DEF TypeOK, process
  <2>7. NodeInv(n)'
    BY <1>1, <1>3, <2>2, <2>4, <2>5, <2>6 DEF NodeInv, slot, process
  <2> QED
    BY <1>2, <1>4, <2>3, <2>7 DEF BarrierInv
<1>7. CASE WaitAdvance(n)
  <2>1. /\ UNCHANGED toNode /\ acked[n] = round /\ acked'[n] = 0
    BY <1>7 DEF WaitAdvance, TypeOK
  <2>2. CountsOn(n)' => clock'[n] = round'
    BY <1>1, <1>3, <2>1 DEF NodeInv, CountsOn, process, TypeOK
  <2>3. AcksReached(n) => AcksReached(n)'
    BY <1>1 DEF AcksReached, process
  <2>4. TicksInOrder(n) => TicksInOrder(n)'
    BY <1>1, <2>1 DEF TicksInOrder, IsTick, process
  <2>5. 0 <= clock[n]
    BY DEF TypeOK
  <2>6. NodeInv(n)'
    BY <1>1, <1>3, <2>1, <2>2, <2>3, <2>4, <2>5 DEF NodeInv, slot, process
  <2> QED
    BY <1>2, <1>4, <2>1, <2>6 DEF BarrierInv
<1>8. CASE WaitAdvanceReplaced(n)
  <2>1. UNCHANGED <<toNode, acked>> /\ gen[n] # target[n]
    BY <1>8 DEF WaitAdvanceReplaced, bridge
  <2>2. ~CountsOn(n)'
    BY <1>1, <2>1 DEF CountsOn, slot
  <2>3. AcksReached(n) => AcksReached(n)'
    BY <1>1 DEF AcksReached, process
  <2>4. TicksInOrder(n) => TicksInOrder(n)'
    BY <1>1, <2>1 DEF TicksInOrder, IsTick, process
  <2>5. NodeInv(n)'
    BY <1>1, <1>3, <2>1, <2>2, <2>3, <2>4 DEF NodeInv, slot, process
  <2> QED
    BY <1>2, <1>4, <2>1, <2>5 DEF BarrierInv
<1>9. CASE SkipHeld(n)
  BY <1>5, <1>9 DEF SkipHeld, TypeOK
<1>10. CASE BeginAdvanceFails(n)
  BY <1>5, <1>10 DEF BeginAdvanceFails, Released, TypeOK
<1>11. CASE WaitAdvanceStale(n)
  BY <1>5, <1>11 DEF WaitAdvanceStale, engine, TypeOK
<1>12. CASE WaitAdvanceFails(n)
  BY <1>5, <1>12 DEF WaitAdvanceFails, TypeOK
<1>13. CASE WaitDeadline(n)
  BY <1>5, <1>13 DEF WaitDeadline, bridge, TypeOK
<1> QED
  BY <1>6, <1>7, <1>8, <1>9, <1>10, <1>11, <1>12, <1>13 DEF RunningFirmware

LEMMA BarrierInvStep ==
  ASSUME TypeOK, BarrierInv, Step
  PROVE  BarrierInv'
<1>1. ASSUME UNCHANGED <<round, target, slot, closed, acked, toNode, toEngine, process>>,
             UNCHANGED ask
      PROVE  \A n \in Node : NodeInv(n)'
  BY <1>1, NodeUntouched DEF BarrierInv, slot, process
<1>2. CASE StepBegin
  <2>1. Phases'
    BY <1>2 DEF StepBegin, BarrierInv, Phases, TypeOK
  <2> QED
    BY <1>1, <1>2, <2>1 DEF StepBegin, BarrierInv, slot, bridge, process
<1>3. CASE CollectTransmissions
  <2>1. Phases'
    BY <1>3, CollectKeeps DEF Collecting, BarrierInv, Phases, TypeOK, NoneLeft
  <2> QED
    BY <1>1, <1>3, <2>1, CollectKeeps DEF BarrierInv
<1>4. CASE FirmwareTargets
  <2>1. /\ UNCHANGED <<now, slot, closed, acked, toNode, toEngine, process>>
        /\ round < round' /\ round' = now /\ pc' = "firmware"
        /\ \A n \in Node : target'[n] \in {0, gen[n]} /\ ask'[n] \in {"none", "target"}
    BY <1>4 DEF FirmwareTargets, BarrierInv, Phases, bridge
  <2>2. Phases'
    BY <2>1 DEF Phases, TypeOK
  <2>3. ASSUME NEW n \in Node
        PROVE  NodeInv(n)'
    <3>1. /\ target'[n] <= gen'[n]
          /\ clock'[n] <= round'
      <4>1. clock[n] <= round /\ clock[n] \in Nat /\ round \in Nat /\ now \in Nat /\ gen[n] \in Nat
        BY DEF BarrierInv, NodeInv, TypeOK
      <4>2. gen'[n] = gen[n] /\ clock'[n] = clock[n] /\ target'[n] \in {0, gen[n]}
        BY <2>1 DEF slot, process
      <4> QED
        BY <2>1, <4>1, <4>2
    <3>2. TicksInOrder(n) => TicksInOrder(n)'
      <4>1. \A j \in DOMAIN toNode[n] : toNode[n][j].val \in Nat
        <5>1. \A j \in DOMAIN toNode[n] : toNode[n][j] \in ToNodeMsg
          BY DEF TypeOK
        <5> QED
          BY <5>1 DEF ToNodeMsg
      <4> QED
        BY <2>1, <4>1, SMTT(30) DEF TicksInOrder, IsTick, TypeOK, process
    <3>3. AcksReached(n) => AcksReached(n)'
      BY <2>1 DEF AcksReached, process
    <3> QED
      BY <2>1, <3>1, <3>2, <3>3 DEF BarrierInv, NodeInv, slot, process
  <2> QED
    BY <2>2, <2>3 DEF BarrierInv
<1> QED
  BY <1>2, <1>3, <1>4, BarrierInvCompleting, BarrierInvRunning DEF Step

LEMMA BarrierInvRead ==
  ASSUME TypeOK, BarrierInv, NEW n \in Node, Read(n)
  PROVE  BarrierInv'
<1>1. /\ UNCHANGED <<engine, slot, toNode, process>>
      /\ \A m \in Node \ {n} : /\ closed'[m] = closed[m] /\ acked'[m] = acked[m]
                              /\ toEngine'[m] = toEngine[m]
  BY DEF Read, ReadFrame, ReadAck, ReadEOF, NextFrom, TypeOK
<1>2. Phases'
  BY <1>1 DEF BarrierInv, Phases, engine
<1>3. \A m \in Node \ {n} : NodeInv(m)'
  BY <1>1, NodeUntouched DEF BarrierInv, engine, slot, process
<1>4. CASE closed'[n]
  BY <1>1, <1>2, <1>3, <1>4, NodeCutOff DEF BarrierInv, engine, slot, process
<1>5. CASE ~closed'[n]
  <2>1. /\ closed'[n] = closed[n] /\ ~closed[n]
        /\ toEngine[n] # <<>> /\ toEngine'[n] = Tail(toEngine[n])
        /\ \/ acked'[n] = acked[n]
           \/ Head(toEngine[n]).kind = "ack" /\ acked'[n] = Head(toEngine[n]).val
    BY <1>5 DEF Read, ReadFrame, ReadAck, ReadEOF, NextFrom, TypeOK
  <2>2. AcksReached(n) /\ acked[n] <= clock[n] /\ TicksInOrder(n)
    BY <2>1 DEF BarrierInv, NodeInv
  <2>3. AcksReached(n)' /\ acked'[n] <= clock'[n]
    BY <1>1, <2>1, <2>2, AcksTaken DEF process
  <2>4. TicksInOrder(n)'
    BY <1>1, <2>2 DEF TicksInOrder, IsTick, engine, process
  <2>5. NodeInv(n)'
    BY <1>1, <2>1, <2>3, <2>4 DEF BarrierInv, NodeInv, CountsOn, engine, slot, process
  <2> QED
    BY <1>2, <1>3, <2>5 DEF BarrierInv
<1> QED
  BY <1>4, <1>5

LEMMA BarrierInvFirmware ==
  ASSUME TypeOK, BarrierInv, NEW n \in Node, Firmware(n)
  PROVE  BarrierInv'
<1>1. /\ UNCHANGED <<engine, slot, closed, acked>>
      /\ \A m \in Node \ {n} : /\ clock'[m] = clock[m] /\ toNode'[m] = toNode[m]
                              /\ toEngine'[m] = toEngine[m]
      /\ ~closed[n]
  BY DEF Firmware, NodeTxDone, NodeTransmit, NodeAck, Handles, Running, TypeOK
<1>2. Phases'
  BY <1>1 DEF BarrierInv, Phases, engine
<1>3. \A m \in Node \ {n} : NodeInv(m)'
  BY <1>1, NodeUntouched DEF BarrierInv, engine, slot
<1>4. /\ fw[n] = "up" /\ TicksInOrder(n) /\ AcksReached(n) /\ acked[n] <= clock[n]
      /\ target[n] <= gen[n] /\ clock[n] <= round
      /\ CountsOn(n) /\ ask[n] = "answered" => clock[n] = round
  BY <1>1 DEF BarrierInv, NodeInv
<1>5. SUFFICES /\ TicksInOrder(n)' /\ AcksReached(n)'
               /\ clock[n] <= clock'[n] /\ clock'[n] <= round /\ clock'[n] \in Nat
  <2>1. NodeInv(n)'
    BY <1>1, <1>4, <1>5 DEF NodeInv, CountsOn, engine, slot, TypeOK
  <2> QED
    BY <1>2, <1>3, <2>1 DEF BarrierInv
<1>6. clock[n] \in Nat /\ round \in Nat /\ toNode[n] \in Seq(ToNodeMsg)
  BY DEF TypeOK
<1>7. CASE NodeTxDone(n)
  <2>1. /\ toNode[n] # <<>> /\ toNode'[n] = Tail(toNode[n])
        /\ clock'[n] = clock[n] /\ toEngine'[n] = toEngine[n]
    BY <1>7 DEF NodeTxDone, Handles, TypeOK
  <2>2. TicksInOrder(n)'
    BY <1>1, <1>4, <2>1, TicksTaken DEF engine
  <2> QED
    BY <1>4, <1>6, <2>1, <2>2 DEF AcksReached
<1>8. CASE NodeTransmit(n)
  <2> DEFINE msg == [kind |-> "frame", val |-> 0]
  <2>1. msg \in ToEngineMsg /\ msg.kind # "ack"
    BY DEF ToEngineMsg
  <2>2. /\ toNode'[n] = toNode[n] /\ clock'[n] = clock[n]
        /\ toEngine'[n] = Append(toEngine[n], msg)
    BY <1>8 DEF NodeTransmit, TypeOK
  <2> HIDE DEF msg
  <2>3. AcksReached(n)'
    BY <1>4, <1>6, <2>1, <2>2, AcksAppended
  <2> QED
    BY <1>1, <1>4, <1>6, <2>2, <2>3 DEF TicksInOrder, IsTick, engine
<1>9. CASE NodeAck(n)
  <2> DEFINE at == Head(toNode[n]).val
             msg == [kind |-> "ack", val |-> at]
  <2>1. /\ toNode[n] # <<>> /\ IsTick(Head(toNode[n])) /\ toNode'[n] = Tail(toNode[n])
        /\ clock'[n] = at /\ toEngine'[n] = Append(toEngine[n], msg)
    BY <1>9 DEF NodeAck, Handles, TypeOK, IsTick
  <2>2. at \in Nat /\ clock[n] <= at /\ at <= round
    <3>1. 1 \in DOMAIN toNode[n] /\ Head(toNode[n]) = toNode[n][1]
      BY <1>6, <2>1
    <3>2. Head(toNode[n]) \in ToNodeMsg
      BY <1>6, <2>1
    <3> QED
      BY <1>4, <2>1, <3>1, <3>2 DEF TicksInOrder, ToNodeMsg
  <2>3. msg \in ToEngineMsg /\ msg.val = at
    BY <2>2 DEF ToEngineMsg
  <2>4. TicksInOrder(n)'
    BY <1>1, <1>4, <2>1, TicksTaken DEF engine
  <2> HIDE DEF msg, at
  <2>5. AcksReached(n)'
    BY <1>4, <2>1, <2>2, <2>3, AcksAppended
  <2> QED
    BY <2>1, <2>2, <2>4, <2>5
<1> QED
  BY <1>7, <1>8, <1>9 DEF Firmware

LEMMA BarrierInvSession ==
  ASSUME TypeOK, BarrierInv, NEW n \in Node, Session(n) \/ Misfortune(n)
  PROVE  BarrierInv'
<1>1. UNCHANGED <<now, pc, round, target, ask>>
  BY DEF Session, Misfortune, SetDebug, ClearDebug, StopClose, StopClear, Adopt,
       Crash, Break, Continue, engine
<1>2. Phases'
  BY <1>1 DEF BarrierInv, Phases
<1>3. CASE UNCHANGED <<slot, closed, acked, toNode, toEngine, clock>>
  BY <1>1, <1>2, <1>3, NodeUntouched DEF BarrierInv, slot
<1>4. CASE StopClose(n)
  <2>1. /\ closed'[n] /\ UNCHANGED <<gen, clock, acked, toNode, toEngine>>
        /\ \A m \in Node \ {n} : closed'[m] = closed[m] /\ fw'[m] = fw[m]
    BY <1>4 DEF StopClose, TypeOK, process
  <2> QED
    BY <1>1, <1>2, <2>1, NodeUntouched, NodeCutOff DEF BarrierInv
<1>5. CASE StopClear(n)
  <2>1. /\ closed[n]
        /\ UNCHANGED <<gen, closed, clock, acked, toNode, toEngine>>
        /\ \A m \in Node \ {n} : fw'[m] = fw[m]
    BY <1>5 DEF StopClear, BarrierInv, NodeInv, TypeOK, bridge
  <2> QED
    BY <1>1, <1>2, <2>1, NodeUntouched, NodeCutOff DEF BarrierInv
<1>6. CASE Adopt(n)
  <2>1. /\ fw'[n] = "up" /\ gen'[n] = gen[n] + 1 /\ acked'[n] = 0 /\ clock'[n] = 0
        /\ toNode'[n] = <<>> /\ toEngine'[n] = <<>>
        /\ \A m \in Node \ {n} :
             /\ fw'[m] = fw[m] /\ gen'[m] = gen[m] /\ acked'[m] = acked[m]
             /\ clock'[m] = clock[m] /\ closed'[m] = closed[m]
             /\ toNode'[m] = toNode[m] /\ toEngine'[m] = toEngine[m]
    BY <1>6 DEF Adopt, TypeOK
  <2>2. TicksInOrder(n)' /\ AcksReached(n)'
    BY <2>1 DEF TicksInOrder, AcksReached
  <2>3. target[n] <= gen[n] /\ target[n] \in Nat /\ gen[n] \in Nat /\ round \in Nat
    BY DEF BarrierInv, NodeInv, TypeOK
  <2>4. target'[n] <= gen'[n] /\ ~CountsOn(n)' /\ clock'[n] <= round'
    BY <1>1, <2>1, <2>3 DEF CountsOn
  <2>5. NodeInv(n)'
    BY <2>1, <2>2, <2>4 DEF NodeInv
  <2> QED
    BY <1>1, <1>2, <2>1, <2>5, NodeUntouched DEF BarrierInv
<1> QED
  BY <1>3, <1>4, <1>5, <1>6 DEF Session, Misfortune, SetDebug, ClearDebug,
       Crash, Break, Continue, bridge, slot, process

LEMMA BarrierInvNext ==
  ASSUME TypeOK, BarrierInv, [Next]_vars
  PROVE  BarrierInv'
<1>1. CASE UNCHANGED vars
  <2>1. \A n \in Node : NodeInv(n)'
    BY <1>1, NodeUntouched DEF BarrierInv, vars, engine, slot, bridge, process
  <2> QED
    BY <1>1, <2>1 DEF BarrierInv, Phases, vars, engine
<1> QED
  BY <1>1, BarrierInvStep, BarrierInvRead, BarrierInvFirmware, BarrierInvSession DEF Next

-----------------------------------------------------------------------------
(* Every step is a step of the barrier, or none of its business.            *)

LEMMA NobodyMoves ==
  ASSUME UNCHANGED <<round, clock>>, \A m \in Node : CountsOn(m)' = CountsOn(m)
  PROVE  UNCHANGED Barrier!vars
BY DEF Barrier!vars

LEMMA NobodyElseMoves ==
  ASSUME NEW n \in Node, UNCHANGED <<round, clock>>,
         \A m \in Node \ {n} : CountsOn(m)' = CountsOn(m),
         CountsOn(n)' => CountsOn(n)
  PROVE  [Barrier!Next]_(Barrier!vars)
<1> DEFINE members == {m \in Node : CountsOn(m)}
<1>1. CASE CountsOn(n)' = CountsOn(n)
  BY <1>1, NobodyMoves
<1>2. CASE CountsOn(n) /\ ~CountsOn(n)'
  <2>1. n \in members /\ members' = members \ {n}
    BY <1>2
  <2>2. Barrier!Leave(n)
    BY <2>1 DEF Barrier!Leave
  <2> QED
    BY <2>2 DEF Barrier!Next
<1> QED
  BY <1>1, <1>2 DEF CountsOn

(* An instant is announced only when everybody counted on has reached the   *)
(* last one: Step has waited for them all.                                  *)
LEMMA AnnounceIsABarrier ==
  ASSUME TypeOK, BarrierInv, FirmwareTargets
  PROVE  Barrier!Announce
<1> DEFINE members == {m \in Node : CountsOn(m)}
<1>1. pc = "complete" /\ round' = now /\ clock' = clock
  BY DEF FirmwareTargets, process
<1>2. ASSUME NEW m \in members
      PROVE  clock[m] = round
  <2>1. ask[m] = "answered"
    BY <1>1 DEF BarrierInv, Phases, CountsOn
  <2> QED
    BY <2>1 DEF BarrierInv, NodeInv
<1>3. round' > round
  BY <1>1 DEF BarrierInv, Phases, TypeOK
<1> QED
  BY <1>1, <1>2, <1>3 DEF Barrier!Announce

LEMMA StepIsABarrier ==
  ASSUME TypeOK, BarrierInv, Step
  PROVE  [Barrier!Next]_(Barrier!vars)
<1>1. CASE StepBegin \/ Completing \/ CollectTransmissions
  <2>1. UNCHANGED <<round, clock, ask, target, gen, fw, closed>>
    BY <1>1, CollectKeeps, CompletingKeeps DEF StepBegin, slot, bridge, process
  <2> QED
    BY <2>1, NobodyMoves DEF CountsOn
<1>2. CASE FirmwareTargets
  BY <1>2, AnnounceIsABarrier DEF Barrier!Next
<1>3. ASSUME NEW n \in Node, RunningFirmware(n)
      PROVE  [Barrier!Next]_(Barrier!vars)
  <2>1. /\ UNCHANGED <<round, clock, target, gen, fw, closed>>
        /\ \A m \in Node \ {n} : ask'[m] = ask[m]
        /\ ask[n] # "none"
    BY <1>3 DEF RunningFirmware, SkipHeld, BeginAdvance, BeginAdvanceFails, WaitAdvance,
         WaitAdvanceStale, WaitAdvanceReplaced, WaitAdvanceFails, WaitDeadline, First,
         engine, slot, bridge, process, TypeOK
  <2>2. /\ \A m \in Node \ {n} : CountsOn(m)' = CountsOn(m)
        /\ CountsOn(n)' => CountsOn(n)
    BY <2>1 DEF CountsOn
  <2> QED
    BY <2>1, <2>2, NobodyElseMoves
<1> QED
  BY <1>1, <1>2, <1>3 DEF Step

LEMMA ReadIsABarrier ==
  ASSUME TypeOK, NEW n \in Node, Read(n)
  PROVE  [Barrier!Next]_(Barrier!vars)
<1>1. /\ UNCHANGED <<round, clock, ask, target, gen, fw>>
      /\ \A m \in Node \ {n} : closed'[m] = closed[m]
      /\ ~closed[n]
  BY DEF Read, ReadFrame, ReadAck, ReadEOF, NextFrom, engine, slot, process, TypeOK
<1>2. /\ \A m \in Node \ {n} : CountsOn(m)' = CountsOn(m)
      /\ CountsOn(n)' => CountsOn(n)
  BY <1>1 DEF CountsOn
<1> QED
  BY <1>1, <1>2, NobodyElseMoves

(* A node runs no further than the instant it was sent, which is no further *)
(* than the one announced.                                                  *)
LEMMA FirmwareIsABarrier ==
  ASSUME TypeOK, BarrierInv, NEW n \in Node, Firmware(n)
  PROVE  [Barrier!Next]_(Barrier!vars)
<1>1. UNCHANGED <<round, ask, target, gen, fw, closed>>
  BY DEF Firmware, NodeTxDone, NodeTransmit, NodeAck, engine, slot
<1>2. \A m \in Node : CountsOn(m)' = CountsOn(m)
  BY <1>1 DEF CountsOn
<1>3. CASE NodeTxDone(n) \/ NodeTransmit(n)
  <2>1. clock' = clock
    BY <1>3 DEF NodeTxDone, NodeTransmit, process
  <2> QED
    BY <1>1, <1>2, <2>1, NobodyMoves
<1>4. CASE NodeAck(n)
  <2> DEFINE at == Head(toNode[n]).val
             members == {m \in Node : CountsOn(m)}
  <2>1. /\ ~closed[n] /\ toNode[n] # <<>> /\ IsTick(Head(toNode[n]))
        /\ clock' = [clock EXCEPT ![n] = at]
    BY <1>4 DEF NodeAck, Handles, Running, IsTick
  <2>2. /\ 1 \in DOMAIN toNode[n] /\ Head(toNode[n]) = toNode[n][1]
        /\ Head(toNode[n]) \in ToNodeMsg
    BY <2>1 DEF TypeOK
  <2>3. at \in Nat /\ clock[n] <= at /\ at <= round
    BY <2>1, <2>2 DEF BarrierInv, NodeInv, TicksInOrder, ToNodeMsg
  <2> HIDE DEF at
  <2>4. members' = members
    BY <1>2
  <2>5. clock[n] \in Nat /\ round \in Nat
    BY DEF TypeOK
  <2>6. CASE at = clock[n]
    <3>1. clock' = clock
      BY <2>1, <2>6 DEF TypeOK
    <3> QED
      BY <1>1, <1>2, <3>1, NobodyMoves
  <2>7. CASE at # clock[n]
    <3>1. at \in (clock[n] + 1) .. round
      BY <2>3, <2>5, <2>7
    <3>2. Barrier!Run(n)
      BY <1>1, <2>1, <2>4, <3>1 DEF Barrier!Run
    <3> QED
      BY <3>2 DEF Barrier!Next
  <2> QED
    BY <2>6, <2>7
<1> QED
  BY <1>3, <1>4 DEF Firmware

LEMMA SessionIsABarrier ==
  ASSUME TypeOK, BarrierInv, NEW n \in Node, Session(n) \/ Misfortune(n)
  PROVE  [Barrier!Next]_(Barrier!vars)
<1>1. UNCHANGED <<round, ask, target>>
  BY DEF Session, Misfortune, SetDebug, ClearDebug, StopClose, StopClear, Adopt,
       Crash, Break, Continue, engine
<1>2. CASE UNCHANGED <<clock, gen, fw, closed>>
  BY <1>1, <1>2, NobodyMoves DEF CountsOn
<1>3. CASE StopClose(n)
  <2>1. /\ UNCHANGED <<clock, gen>> /\ closed'[n]
        /\ \A m \in Node \ {n} : closed'[m] = closed[m] /\ fw'[m] = fw[m]
    BY <1>3 DEF StopClose, TypeOK, process
  <2> QED
    BY <1>1, <2>1, NobodyElseMoves DEF CountsOn
<1>4. CASE StopClear(n)
  <2>1. /\ UNCHANGED <<clock, gen, closed>> /\ closed[n]
        /\ \A m \in Node \ {n} : fw'[m] = fw[m]
    BY <1>4 DEF StopClear, BarrierInv, NodeInv, TypeOK, bridge
  <2> QED
    BY <1>1, <2>1, NobodyElseMoves DEF CountsOn
<1>5. CASE Adopt(n)
  <2> DEFINE members == {m \in Node : CountsOn(m)}
  <2>1. /\ fw[n] = "none" /\ clock' = [clock EXCEPT ![n] = 0] /\ gen'[n] = gen[n] + 1
        /\ \A m \in Node \ {n} :
             fw'[m] = fw[m] /\ gen'[m] = gen[m] /\ closed'[m] = closed[m]
    BY <1>5 DEF Adopt, TypeOK
  <2>2. target[n] <= gen[n] /\ target[n] \in Nat /\ gen[n] \in Nat
    BY DEF BarrierInv, NodeInv, TypeOK
  <2>3. ~CountsOn(n) /\ ~CountsOn(n)'
    BY <1>1, <2>1, <2>2 DEF CountsOn
  <2>4. \A m \in Node \ {n} : CountsOn(m)' = CountsOn(m)
    BY <1>1, <2>1 DEF CountsOn
  <2>5. members' = members /\ n \notin members
    BY <2>3, <2>4
  <2>6. Barrier!Restart(n)
    BY <1>1, <2>1, <2>5 DEF Barrier!Restart
  <2> QED
    BY <2>6 DEF Barrier!Next
<1> QED
  BY <1>2, <1>3, <1>4, <1>5 DEF Session, Misfortune, SetDebug, ClearDebug,
       Crash, Break, Continue, bridge, slot, process

(* The lockstep clock is a barrier, whatever dies, stalls, is stopped in a  *)
(* debugger or is replaced in the middle of a round: no instant is          *)
(* announced while a node still counted on is behind the last one, and no   *)
(* node runs past the instant announced.                                    *)
THEOREM ImplementsBarrier == Spec => LockstepIsABarrier
<1>1. Init => BarrierInv
  BY BarrierInvInit
<1>2. TypeOK /\ BarrierInv /\ [Next]_vars => BarrierInv'
  BY BarrierInvNext
<1>3. Init => Barrier!Init
  BY DEF Init, Barrier!Init, CountsOn
<1>4. TypeOK /\ BarrierInv /\ [Next]_vars => [Barrier!Next]_(Barrier!vars)
  <2> SUFFICES ASSUME TypeOK, BarrierInv, [Next]_vars
               PROVE  [Barrier!Next]_(Barrier!vars)
    OBVIOUS
  <2>1. CASE UNCHANGED vars
    BY <2>1, NobodyMoves DEF CountsOn, vars, engine, slot, bridge, process
  <2> QED
    BY <2>1, StepIsABarrier, ReadIsABarrier, FirmwareIsABarrier, SessionIsABarrier DEF Next
<1> QED
  BY <1>1, <1>2, <1>3, <1>4, TypeCorrect, PTL DEF Spec, LockstepIsABarrier, Barrier!Spec

-----------------------------------------------------------------------------
(* What waits in a socket, by kind, and what it says.                       *)
Waiting(s, kind) == {k \in DOMAIN s : s[k].kind = kind}
Values(s, kind) == {s[k].val : k \in Waiting(s, kind)}

LEMMA ValuesEmpty ==
  ASSUME NEW s, NEW kind
  PROVE  Values(s, kind) = {} <=> Waiting(s, kind) = {}
BY DEF Values, Waiting

(* A message put in a socket is added to those of its kind, and to no other. *)
LEMMA WaitingPut ==
  ASSUME NEW T, NEW s \in Seq(T), NEW msg \in T
  PROVE  /\ Waiting(Append(s, msg), msg.kind) = Waiting(s, msg.kind) \cup {Len(s) + 1}
         /\ Values(Append(s, msg), msg.kind) = Values(s, msg.kind) \cup {msg.val}
<1> DEFINE after == Append(s, msg)
<1>1. /\ DOMAIN after = DOMAIN s \cup {Len(s) + 1}
      /\ \A k \in DOMAIN s : after[k] = s[k]
      /\ after[Len(s) + 1] = msg
  OBVIOUS
<1> HIDE DEF after
<1>2. Waiting(after, msg.kind) = Waiting(s, msg.kind) \cup {Len(s) + 1}
  BY <1>1 DEF Waiting
<1>3. Values(after, msg.kind) = Values(s, msg.kind) \cup {msg.val}
  BY <1>1, <1>2 DEF Values, Waiting
<1> QED
  BY <1>2, <1>3 DEF after

LEMMA WaitingPutOther ==
  ASSUME NEW T, NEW s \in Seq(T), NEW msg \in T, NEW kind, msg.kind # kind
  PROVE  /\ Waiting(Append(s, msg), kind) = Waiting(s, kind)
         /\ Values(Append(s, msg), kind) = Values(s, kind)
<1> DEFINE after == Append(s, msg)
<1>1. /\ DOMAIN after = DOMAIN s \cup {Len(s) + 1}
      /\ \A k \in DOMAIN s : after[k] = s[k]
      /\ after[Len(s) + 1] = msg
  OBVIOUS
<1> HIDE DEF after
<1>2. Waiting(after, kind) = Waiting(s, kind)
  BY <1>1 DEF Waiting
<1>3. Values(after, kind) = Values(s, kind)
  BY <1>1, <1>2 DEF Values, Waiting
<1> QED
  BY <1>2, <1>3 DEF after

(* The first message taken off a socket is the only one to go.              *)
LEMMA WaitingTaken ==
  ASSUME NEW T, NEW s \in Seq(T), s # <<>>, NEW kind
  PROVE  /\ Head(s).kind # kind =>
              /\ Values(Tail(s), kind) = Values(s, kind)
              /\ AtMostOne(Waiting(s, kind)) => AtMostOne(Waiting(Tail(s), kind))
         /\ Head(s).kind = kind =>
              /\ Values(s, kind) = Values(Tail(s), kind) \cup {Head(s).val}
              /\ AtMostOne(Waiting(s, kind)) => Waiting(Tail(s), kind) = {}
         /\ AtMostOne(Waiting(s, kind)) => AtMostOne(Waiting(Tail(s), kind))
<1> DEFINE after == Tail(s)
<1>1. /\ \A k \in DOMAIN after : k \in Nat /\ k + 1 \in DOMAIN s /\ k + 1 # 1 /\ after[k] = s[k + 1]
      /\ 1 \in DOMAIN s /\ Head(s) = s[1]
  OBVIOUS
<1>2. ASSUME NEW k \in DOMAIN s, k # 1
      PROVE  k - 1 \in DOMAIN after /\ after[k - 1] = s[k]
  BY <1>2
<1> HIDE DEF after
<1>3. AtMostOne(Waiting(s, kind)) => AtMostOne(Waiting(after, kind))
  <2> SUFFICES ASSUME AtMostOne(Waiting(s, kind)),
                      NEW j \in Waiting(after, kind), NEW k \in Waiting(after, kind)
               PROVE  j = k
    BY DEF AtMostOne
  <2>1. j + 1 \in Waiting(s, kind) /\ k + 1 \in Waiting(s, kind)
    BY <1>1 DEF Waiting
  <2>2. j + 1 = k + 1
    BY <2>1 DEF AtMostOne
  <2> QED
    BY <1>1, <2>2 DEF Waiting
<1>4. Values(after, kind) \subseteq Values(s, kind)
  BY <1>1 DEF Values, Waiting
<1>5. Values(s, kind) \subseteq Values(after, kind) \cup {s[k].val : k \in {1} \cap Waiting(s, kind)}
  BY <1>2 DEF Values, Waiting
<1>6. CASE Head(s).kind # kind
  <2>1. 1 \notin Waiting(s, kind)
    BY <1>1, <1>6 DEF Waiting
  <2> QED
    BY <1>3, <1>4, <1>5, <1>6, <2>1 DEF after
<1>7. CASE Head(s).kind = kind
  <2>1. 1 \in Waiting(s, kind) /\ Head(s).val \in Values(s, kind)
    BY <1>1, <1>7 DEF Waiting, Values
  <2>2. Values(s, kind) = Values(after, kind) \cup {Head(s).val}
    BY <1>1, <1>4, <1>5, <2>1
  <2>3. AtMostOne(Waiting(s, kind)) => Waiting(after, kind) = {}
    <3> SUFFICES ASSUME AtMostOne(Waiting(s, kind)), NEW k \in Waiting(after, kind)
                 PROVE  FALSE
      OBVIOUS
    <3>1. k + 1 \in Waiting(s, kind) /\ k + 1 # 1
      BY <1>1 DEF Waiting
    <3> QED
      BY <2>1, <3>1 DEF AtMostOne
  <2> QED
    BY <1>3, <1>7, <2>2, <2>3 DEF after
<1> QED
  BY <1>6, <1>7

-----------------------------------------------------------------------------
(* The end of a transmission is told.  CompletionOwed is kept by every step *)
(* but for one thing it needs to know: StepBegin drops nobody who has still *)
(* to be told, since a Step that begins finds nobody left.                  *)
Coming(n) ==
  \/ transmitted[n] > 0
  \/ Waiting(toEngine[n], "frame") # {}
  \/ \E t \in inFlight \cup telling : t.from = n /\ t.gen = gen[n]
  \/ gen[n] \in Values(toNode[n], "txDone")
Owed(n) == onAir[n] /\ fw[n] = "up" /\ ~closed[n] /\ ~failed => Coming(n)
Told == pc # "complete" => telling = {}

CompletionInv == Told /\ \A n \in Node : Owed(n)

LEMMA CompletionInvIsOwed ==
  ASSUME TypeOK, CompletionInv
  PROVE  CompletionOwed
<1> SUFFICES ASSUME NEW n \in Node, onAir[n], fw[n] = "up", ~closed[n], ~failed, Coming(n)
             PROVE  \/ transmitted[n] > 0
                    \/ \E k \in DOMAIN toEngine[n] : toEngine[n][k].kind = "frame"
                    \/ \E t \in inFlight \cup telling : t.from = n /\ t.gen = gen[n]
                    \/ \E k \in DOMAIN toNode[n] :
                         toNode[n][k] = [kind |-> "txDone", val |-> gen[n]]
  BY DEF CompletionOwed, CompletionInv, Owed
<1>1. \A k \in DOMAIN toNode[n] : toNode[n][k] \in ToNodeMsg
  BY DEF TypeOK
<1>2. \A m \in ToNodeMsg : m = [kind |-> m.kind, val |-> m.val]
  BY DEF ToNodeMsg
<1>3. gen[n] \in Values(toNode[n], "txDone") =>
        \E k \in DOMAIN toNode[n] : toNode[n][k] = [kind |-> "txDone", val |-> gen[n]]
  BY <1>1, <1>2 DEF Values, Waiting
<1>4. Waiting(toEngine[n], "frame") # {} =>
        \E k \in DOMAIN toEngine[n] : toEngine[n][k].kind = "frame"
  BY DEF Waiting
<1> QED
  BY <1>3, <1>4 DEF Coming

(* What is coming to a node's radio is not touched by a step that leaves    *)
(* its frames, its word and its slot alone, or ends its connection.         *)
LEMMA OwedKept ==
  ASSUME NEW n \in Node, Owed(n),
         onAir'[n] = onAir[n] \/ ~onAir'[n], gen'[n] = gen[n],
         fw'[n] = "up" => fw[n] = "up", closed[n] => closed'[n], failed => failed',
         transmitted'[n] = transmitted[n],
         Waiting(toEngine[n], "frame") # {} => Waiting(toEngine'[n], "frame") # {},
         inFlight \cup telling \subseteq inFlight' \cup telling',
         Values(toNode[n], "txDone") \subseteq Values(toNode'[n], "txDone")
  PROVE  Owed(n)'
<1>1. onAir'[n] /\ fw'[n] = "up" /\ ~closed'[n] /\ ~failed' => Coming(n)
  BY DEF Owed
<1>2. Coming(n) => Coming(n)'
  BY DEF Coming
<1> QED
  BY <1>1, <1>2 DEF Owed

LEMMA CompletionCompleting ==
  ASSUME TypeOK, CompletionInv, Completing
  PROVE  CompletionInv'
<1>1. ASSUME NEW t \in telling, TellSender(t)
      PROVE  CompletionInv'
  <2>1. /\ UNCHANGED <<pc, inFlight, failed, slot, closed, transmitted, toEngine, process>>
        /\ pc = "complete" /\ telling' = telling \ {t}
        /\ t.from \in Node /\ t.gen \in Nat
    BY <1>1 DEF TellSender, TypeOK, Transmission
  <2>2. Told'
    BY <2>1 DEF Told
  <2>3. ASSUME NEW n \in Node
        PROVE  /\ Values(toNode[n], "txDone") \subseteq Values(toNode'[n], "txDone")
               /\ n = t.from /\ fw[n] # "none" => t.gen \in Values(toNode'[n], "txDone")
    <3> DEFINE msg == [kind |-> "txDone", val |-> t.gen]
    <3>1. msg \in ToNodeMsg /\ msg.kind = "txDone" /\ msg.val = t.gen
      BY <2>1 DEF ToNodeMsg
    <3>2. IF n = t.from /\ fw[n] # "none"
            THEN toNode'[n] = Append(toNode[n], msg) ELSE toNode'[n] = toNode[n]
      <4>1. CASE fw[t.from] = "none"
        BY <1>1, <4>1 DEF TellSender
      <4>2. CASE fw[t.from] # "none"
        <5>1. toNode' = [toNode EXCEPT ![t.from] = Append(@, msg)]
          BY <1>1, <4>2 DEF TellSender, Put
        <5> HIDE DEF msg
        <5> QED
          BY <2>1, <4>2, <5>1 DEF TypeOK
      <4> QED
        BY <4>1, <4>2
    <3> HIDE DEF msg
    <3>3. toNode[n] \in Seq(ToNodeMsg)
      BY DEF TypeOK
    <3>4. CASE n = t.from /\ fw[n] # "none"
      <4>1. Values(Append(toNode[n], msg), msg.kind) = Values(toNode[n], msg.kind) \cup {msg.val}
        <5>1. msg \in ToNodeMsg
          BY <3>1
        <5> QED
          BY <3>3, <5>1, WaitingPut, ZenonT(40)
      <4>2. toNode'[n] = Append(toNode[n], msg)
        BY <3>2, <3>4
      <4>3. Values(toNode'[n], "txDone") = Values(toNode[n], "txDone") \cup {t.gen}
        BY <3>1, <4>1, <4>2
      <4> QED
        BY <4>3
    <3>5. CASE ~(n = t.from /\ fw[n] # "none")
      BY <3>2, <3>5
    <3> QED
      BY <3>4, <3>5
  <2>4. ASSUME NEW n \in Node
        PROVE  Owed(n)'
    <3>1. onAir'[n] /\ fw'[n] = "up" /\ ~closed'[n] /\ ~failed' => Coming(n)
      BY <2>1 DEF CompletionInv, Owed, slot, process
    <3>2. Coming(n) /\ fw[n] = "up" => Coming(n)'
      BY <2>1, <2>3 DEF Coming, slot
    <3> QED
      BY <2>1, <3>1, <3>2 DEF Owed, slot
  <2> QED
    BY <2>2, <2>4 DEF CompletionInv
<1>2. ASSUME Abort
      PROVE  CompletionInv'
  BY <1>2 DEF Abort, CompletionInv, Owed, Told
<1>3. ASSUME NEW t \in hearing, DeliverFrame(t)
      PROVE  CompletionInv'
  BY <1>3, OwedKept DEF DeliverFrame, CompletionInv, Told, slot, bridge, process
<1>4. CASE DeliverPanics \/ \E t \in hearing, n \in Node : LookAtReceiver(t, n)
  BY <1>4, OwedKept DEF DeliverPanics, Panic, LookAtReceiver, Delivering, CompletionInv, Told,
       slot, bridge, process
<1> QED
  BY <1>1, <1>2, <1>3, <1>4 DEF Completing, TellSenderFails, DeliverFails

LEMMA CompletionRunning ==
  ASSUME TypeOK, CompletionInv, NEW n \in Node, RunningFirmware(n)
  PROVE  CompletionInv'
<1>1. /\ UNCHANGED <<pc, inFlight, telling, failed, slot, closed, transmitted, toEngine, process>>
      /\ pc = "firmware"
  BY DEF RunningFirmware, SkipHeld, BeginAdvance, BeginAdvanceFails, WaitAdvance,
       WaitAdvanceStale, WaitAdvanceReplaced, WaitAdvanceFails, WaitDeadline, engine, bridge
<1>2. ASSUME NEW m \in Node
      PROVE  Values(toNode[m], "txDone") \subseteq Values(toNode'[m], "txDone")
  <2>1. CASE toNode' = toNode
    BY <2>1
  <2>2. CASE BeginAdvance(n)
    <3> DEFINE msg == [kind |-> "tick", val |-> now]
    <3>1. msg \in ToNodeMsg
      BY DEF ToNodeMsg, TypeOK
    <3>2. toNode'[m] = toNode[m] \/ toNode'[m] = Append(toNode[m], msg)
      BY <2>2 DEF BeginAdvance, Put, TypeOK
    <3>3. msg.kind # "txDone"
      OBVIOUS
    <3> HIDE DEF msg
    <3>4. toNode[m] \in Seq(ToNodeMsg)
      BY DEF TypeOK
    <3>5. Values(Append(toNode[m], msg), "txDone") = Values(toNode[m], "txDone")
      BY <3>1, <3>3, <3>4, WaitingPutOther
    <3> QED
      BY <3>2, <3>5
  <2> QED
    BY <2>1, <2>2 DEF RunningFirmware, SkipHeld, BeginAdvanceFails, WaitAdvance,
       WaitAdvanceStale, WaitAdvanceReplaced, WaitAdvanceFails, WaitDeadline, bridge
<1>3. \A m \in Node : Owed(m)'
  BY <1>1, <1>2, OwedKept DEF CompletionInv, slot, process
<1> QED
  BY <1>1, <1>3 DEF CompletionInv, Told

(* What the firmware transmitted goes on the air in the same step that      *)
(* takes it out of the queue it waited in.                                  *)
LEMMA CompletionCollect ==
  ASSUME TypeOK, CompletionInv, CollectTransmissions
  PROVE  CompletionInv'
<1>1. /\ UNCHANGED <<telling, failed, slot, closed, toNode, toEngine, process>>
      /\ pc = "firmware"
  BY CollectKeeps DEF Collecting
<1>2. ASSUME NEW air \in 1 .. MaxAir, CollectTakes(air), NEW n \in Node, Coming(n)
      PROVE  Coming(n)'
  <2> DEFINE earlier == {t \in inFlight : t.from = looked /\ t.gen = gen[looked] /\ t.start = now}
             k == Cardinality(earlier) + 1
             taken == [from |-> looked, gen |-> gen[looked], start |-> now, nth |-> k,
                       end |-> now + air]
  <2>1. /\ inFlight' = inFlight \cup {taken}
        /\ transmitted' = [transmitted EXCEPT ![looked] = @ - 1]
    BY <1>2 DEF CollectTakes
  <2>2. taken.from = looked /\ taken.gen = gen[looked]
    OBVIOUS
  <2> HIDE DEF taken
  <2>3. CASE n = looked
    BY <1>1, <2>1, <2>2, <2>3 DEF Coming, slot
  <2>4. CASE n # looked
    <3>1. transmitted'[n] = transmitted[n]
      BY <2>1, <2>4 DEF TypeOK
    <3> QED
      BY <1>1, <1>2, <2>1, <3>1 DEF Coming, slot
  <2> QED
    BY <2>3, <2>4
<1>3. ASSUME UNCHANGED <<inFlight, transmitted>>, NEW n \in Node, Coming(n)
      PROVE  Coming(n)'
  BY <1>1, <1>3 DEF Coming, slot
<1>4. ASSUME NEW n \in Node, Coming(n)
      PROVE  Coming(n)'
  BY <1>2, <1>3, <1>4 DEF CollectTransmissions, CollectPasses, CollectLooks, CollectEnds,
       CollectPanics, Panic, bridge
<1>5. \A n \in Node : Owed(n)'
  BY <1>1, <1>4 DEF CompletionInv, Owed, slot, process
<1> QED
  BY <1>1, <1>5 DEF CompletionInv, Told

LEMMA CompletionStep ==
  ASSUME TypeOK, CompletionInv, Step
  PROVE  CompletionInv'
<1>1. CASE StepBegin
  <2>1. /\ pc = "idle" /\ pc' = "complete"
        /\ telling' = {t \in inFlight : Ended(t)}
        /\ inFlight' = {t \in inFlight : ~Ended(t)}
        /\ UNCHANGED <<failed, slot, bridge, process>>
    BY <1>1 DEF StepBegin
  <2>2. inFlight \cup telling \subseteq inFlight' \cup telling'
    BY <2>1 DEF CompletionInv, Told
  <2>3. \A n \in Node : Owed(n)'
    BY <2>1, <2>2, OwedKept DEF CompletionInv, slot, bridge, process
  <2> QED
    BY <2>1, <2>3 DEF CompletionInv, Told
<1>2. CASE FirmwareTargets
  BY <1>2, OwedKept DEF FirmwareTargets, CompletionInv, Told, slot, bridge, process
<1> QED
  BY <1>1, <1>2, CompletionCompleting, CompletionRunning, CompletionCollect DEF Step

LEMMA CompletionRead ==
  ASSUME TypeOK, CompletionInv, NEW n \in Node, Read(n)
  PROVE  CompletionInv'
<1>1. /\ UNCHANGED <<engine, slot, toNode, process>>
      /\ \A m \in Node \ {n} : /\ closed'[m] = closed[m] /\ transmitted'[m] = transmitted[m]
                              /\ toEngine'[m] = toEngine[m]
  BY DEF Read, ReadFrame, ReadAck, ReadEOF, NextFrom, TypeOK
<1>2. Told' /\ \A m \in Node \ {n} : Owed(m)'
  BY <1>1, OwedKept DEF CompletionInv, Told, engine, slot, process
<1>3. CASE closed'[n]
  BY <1>1, <1>2, <1>3 DEF CompletionInv, Owed
<1>4. CASE ReadFrame(n)
  <2>1. transmitted'[n] > 0
    BY <1>4, LockstepAssumption DEF ReadFrame, TypeOK
  <2> QED
    BY <1>2, <2>1 DEF CompletionInv, Owed, Coming
<1>5. CASE ReadAck(n) /\ ~closed'[n]
  <2>1. /\ toEngine[n] # <<>> /\ Head(toEngine[n]).kind = "ack"
        /\ toEngine'[n] = Tail(toEngine[n])
        /\ toEngine[n] \in Seq(ToEngineMsg)
        /\ transmitted' = transmitted /\ ~closed[n]
    BY <1>5 DEF ReadAck, NextFrom, TypeOK
  <2>2. Values(toEngine'[n], "frame") = Values(toEngine[n], "frame")
    BY <2>1, WaitingTaken
  <2>3. Waiting(toEngine[n], "frame") # {} => Waiting(toEngine'[n], "frame") # {}
    BY <2>2, ValuesEmpty
  <2>4. Owed(n)'
    BY <1>1, <2>1, <2>3, OwedKept DEF CompletionInv, engine, slot, process
  <2> QED
    BY <1>2, <2>4 DEF CompletionInv
<1>6. CASE ReadEOF(n)
  <2>1. closed'[n]
    BY <1>6 DEF ReadEOF, TypeOK
  <2> QED
    BY <1>3, <2>1
<1> QED
  BY <1>3, <1>4, <1>5, <1>6 DEF Read

LEMMA CompletionFirmware ==
  ASSUME TypeOK, CompletionInv, NEW n \in Node, Firmware(n)
  PROVE  CompletionInv'
<1>1. /\ UNCHANGED <<engine, slot, closed, transmitted>>
      /\ \A m \in Node \ {n} : /\ onAir'[m] = onAir[m] /\ toNode'[m] = toNode[m]
                              /\ toEngine'[m] = toEngine[m]
      /\ toNode[n] # <<>> /\ toNode[n] \in Seq(ToNodeMsg) /\ toEngine[n] \in Seq(ToEngineMsg)
  BY DEF Firmware, NodeTxDone, NodeTransmit, NodeAck, Handles, TypeOK, process
<1>2. Told' /\ \A m \in Node \ {n} : Owed(m)'
  BY <1>1, OwedKept DEF CompletionInv, Told, engine, slot
<1>3. CASE NodeTxDone(n)
  <2>1. ~onAir'[n]
    BY <1>3 DEF NodeTxDone, TypeOK
  <2> QED
    BY <1>2, <2>1 DEF CompletionInv, Owed
<1>4. CASE NodeTransmit(n)
  <2> DEFINE msg == [kind |-> "frame", val |-> 0]
  <2>1. msg \in ToEngineMsg /\ msg.kind = "frame"
    BY DEF ToEngineMsg
  <2>2. toEngine'[n] = Append(toEngine[n], msg)
    BY <1>4 DEF NodeTransmit, TypeOK
  <2> HIDE DEF msg
  <2>3. toEngine[n] \in Seq(ToEngineMsg)
    BY DEF TypeOK
  <2>4. Waiting(toEngine'[n], "frame") = Waiting(toEngine[n], "frame") \cup {Len(toEngine[n]) + 1}
    <3>1. /\ Waiting(Append(toEngine[n], msg), msg.kind)
               = Waiting(toEngine[n], msg.kind) \cup {Len(toEngine[n]) + 1}
      BY <2>1, <2>3, WaitingPut
    <3> QED
      BY <2>1, <2>2, <3>1
  <2> QED
    BY <1>2, <2>4 DEF CompletionInv, Owed, Coming
<1>5. CASE NodeAck(n)
  <2> DEFINE msg == [kind |-> "ack", val |-> Head(toNode[n]).val]
  <2>1. /\ Head(toNode[n]).kind = "tick" /\ toNode'[n] = Tail(toNode[n])
        /\ toEngine'[n] = Append(toEngine[n], msg) /\ onAir' = onAir
    BY <1>5 DEF NodeAck, Handles, TypeOK
  <2>2. Head(toNode[n]) \in ToNodeMsg
    BY <1>1
  <2>3. msg \in ToEngineMsg /\ msg.kind # "frame"
    BY <2>2 DEF ToNodeMsg, ToEngineMsg
  <2> HIDE DEF msg
  <2>4. Values(toNode'[n], "txDone") = Values(toNode[n], "txDone")
    BY <1>1, <2>1, WaitingTaken
  <2>5. Waiting(toEngine'[n], "frame") = Waiting(toEngine[n], "frame")
    <3>1. toEngine[n] \in Seq(ToEngineMsg) /\ toEngine'[n] = Append(toEngine[n], msg)
      BY <1>1, <2>1
    <3> QED
      BY <2>3, <3>1, WaitingPutOther
  <2>6. Owed(n)'
    BY <1>1, <2>1, <2>4, <2>5, OwedKept DEF CompletionInv, engine, slot
  <2> QED
    BY <1>2, <2>6 DEF CompletionInv
<1> QED
  BY <1>3, <1>4, <1>5 DEF Firmware

LEMMA CompletionSession ==
  ASSUME TypeOK, CompletionInv, NEW n \in Node, Session(n) \/ Misfortune(n)
  PROVE  CompletionInv'
<1>1. UNCHANGED <<pc, inFlight, telling, failed>>
  BY DEF Session, Misfortune, SetDebug, ClearDebug, StopClose, StopClear, Adopt,
       Crash, Break, Continue, engine
<1>2. Told'
  BY <1>1 DEF CompletionInv, Told
<1>3. CASE Adopt(n)
  <2>1. /\ onAir'[n] => transmitted'[n] = 1
        /\ \A m \in Node \ {n} :
             /\ onAir'[m] = onAir[m] /\ gen'[m] = gen[m] /\ fw'[m] = fw[m]
             /\ closed'[m] = closed[m] /\ transmitted'[m] = transmitted[m]
             /\ toEngine'[m] = toEngine[m] /\ toNode'[m] = toNode[m]
    BY <1>3 DEF Adopt, TypeOK
  <2>2. \A m \in Node \ {n} : Owed(m)'
    BY <1>1, <2>1, OwedKept DEF CompletionInv
  <2>3. Owed(n)'
    BY <2>1 DEF Owed, Coming
  <2> QED
    BY <1>2, <2>2, <2>3 DEF CompletionInv
<1>4. CASE ~Adopt(n)
  <2>1. /\ UNCHANGED <<gen, onAir, transmitted, toNode, toEngine>>
        /\ \A m \in Node : (fw'[m] = "up" => fw[m] = "up") /\ (closed[m] => closed'[m])
    BY <1>4 DEF Session, Misfortune, SetDebug, ClearDebug, StopClose, StopClear,
         Crash, Break, Continue, engine, slot, bridge, process, TypeOK
  <2> QED
    BY <1>1, <1>2, <2>1, OwedKept DEF CompletionInv
<1> QED
  BY <1>3, <1>4

(* A radio that believes it is transmitting is going to be told that it has *)
(* finished, however many nodes there are, whatever the airtimes, however   *)
(* few frames a bridge can queue, and whoever crashes, is stopped in a      *)
(* debugger or is replaced meanwhile - until a Step has returned an error.  *)
THEOREM CompletionIsOwed == Spec => []CompletionOwed
<1>1. Init => CompletionInv
  BY DEF Init, CompletionInv, Told, Owed
<1>2. TypeOK /\ CompletionInv /\ [Next]_vars => CompletionInv'
  <2> SUFFICES ASSUME TypeOK, CompletionInv, [Next]_vars
               PROVE  CompletionInv'
    OBVIOUS
  <2>1. CASE UNCHANGED vars
    BY <2>1, OwedKept DEF CompletionInv, Told, vars, engine, slot, bridge, process
  <2> QED
    BY <2>1, CompletionStep, CompletionRead, CompletionFirmware, CompletionSession DEF Next
<1>3. TypeOK /\ CompletionInv => CompletionOwed
  BY CompletionInvIsOwed
<1> QED
  BY <1>1, <1>2, <1>3, TypeCorrect, PTL DEF Spec

-----------------------------------------------------------------------------
(* What a node owes: the tick it was sent, its acknowledgement on the way,  *)
(* or the acknowledgement its bridge has read.                              *)
TicksOut(n) == Values(toNode[n], "tick")
AcksOut(n) == Values(toEngine[n], "ack")
Answers(n, at) == acked[n] = at \/ at \in AcksOut(n) \/ at \in TicksOut(n)

(* A step that leaves what n owes as it was. *)
DebtKept(n) ==
  /\ acked'[n] = acked[n]
  /\ TicksOut(n)' = TicksOut(n)
  /\ AcksOut(n)' = AcksOut(n)
  /\ AtMostOne(Ticks(n)) => AtMostOne(Ticks(n)')
  /\ AtMostOne(Acks(n)) => AtMostOne(Acks(n)')

(* What is read off a socket, or put on it, when it is no tick and no       *)
(* acknowledgement, is no concern of what is owed.                          *)
LEMMA DebtUntouched ==
  ASSUME NEW n \in Node, acked'[n] = acked[n],
         toNode'[n] = toNode[n], toEngine'[n] = toEngine[n]
  PROVE  DebtKept(n)
BY DEF DebtKept, TicksOut, AcksOut, Values, Waiting, Ticks, Acks, AtMostOne

LEMMA TickPut ==
  ASSUME TypeOK, NEW n \in Node, NEW msg \in ToNodeMsg,
         toNode'[n] = Append(toNode[n], msg)
  PROVE  /\ msg.kind # "tick" => TicksOut(n)' = TicksOut(n) /\ Ticks(n)' = Ticks(n)
         /\ msg.kind = "tick" => /\ TicksOut(n)' = TicksOut(n) \cup {msg.val}
                                 /\ Ticks(n)' = Ticks(n) \cup {Len(toNode[n]) + 1}
<1>1. toNode[n] \in Seq(ToNodeMsg)
  BY DEF TypeOK
<1>2. /\ Ticks(n) = Waiting(toNode[n], "tick") /\ TicksOut(n) = Values(toNode[n], "tick")
      /\ Ticks(n)' = Waiting(Append(toNode[n], msg), "tick")
      /\ TicksOut(n)' = Values(Append(toNode[n], msg), "tick")
  BY DEF Ticks, TicksOut, Waiting, Values
<1>3. /\ Waiting(Append(toNode[n], msg), msg.kind)
           = Waiting(toNode[n], msg.kind) \cup {Len(toNode[n]) + 1}
      /\ Values(Append(toNode[n], msg), msg.kind) = Values(toNode[n], msg.kind) \cup {msg.val}
  BY <1>1, WaitingPut, ZenonT(40)
<1>4. ASSUME msg.kind # "tick"
      PROVE  /\ Waiting(Append(toNode[n], msg), "tick") = Waiting(toNode[n], "tick")
             /\ Values(Append(toNode[n], msg), "tick") = Values(toNode[n], "tick")
  BY <1>1, <1>4, WaitingPutOther
<1> QED
  BY <1>2, <1>3, <1>4

LEMMA AckPut ==
  ASSUME TypeOK, NEW n \in Node, NEW msg \in ToEngineMsg,
         toEngine'[n] = Append(toEngine[n], msg)
  PROVE  /\ msg.kind # "ack" => AcksOut(n)' = AcksOut(n) /\ Acks(n)' = Acks(n)
         /\ msg.kind = "ack" => /\ AcksOut(n)' = AcksOut(n) \cup {msg.val}
                                /\ Acks(n)' = Acks(n) \cup {Len(toEngine[n]) + 1}
<1>1. toEngine[n] \in Seq(ToEngineMsg)
  BY DEF TypeOK
<1>2. /\ Acks(n) = Waiting(toEngine[n], "ack") /\ AcksOut(n) = Values(toEngine[n], "ack")
      /\ Acks(n)' = Waiting(Append(toEngine[n], msg), "ack")
      /\ AcksOut(n)' = Values(Append(toEngine[n], msg), "ack")
  BY DEF Acks, AcksOut, Waiting, Values
<1>3. /\ Waiting(Append(toEngine[n], msg), msg.kind)
           = Waiting(toEngine[n], msg.kind) \cup {Len(toEngine[n]) + 1}
      /\ Values(Append(toEngine[n], msg), msg.kind) = Values(toEngine[n], msg.kind) \cup {msg.val}
  BY <1>1, WaitingPut, ZenonT(40)
<1>4. ASSUME msg.kind # "ack"
      PROVE  /\ Waiting(Append(toEngine[n], msg), "ack") = Waiting(toEngine[n], "ack")
             /\ Values(Append(toEngine[n], msg), "ack") = Values(toEngine[n], "ack")
  BY <1>1, <1>4, WaitingPutOther
<1> QED
  BY <1>2, <1>3, <1>4

LEMMA TickTaken ==
  ASSUME TypeOK, NEW n \in Node, toNode[n] # <<>>, toNode'[n] = Tail(toNode[n])
  PROVE  /\ Head(toNode[n]).kind # "tick" => TicksOut(n)' = TicksOut(n)
         /\ Head(toNode[n]).kind = "tick" =>
              /\ TicksOut(n) = TicksOut(n)' \cup {Head(toNode[n]).val}
              /\ AtMostOne(Ticks(n)) => Ticks(n)' = {} /\ TicksOut(n)' = {}
         /\ AtMostOne(Ticks(n)) => AtMostOne(Ticks(n)')
<1>1. toNode[n] \in Seq(ToNodeMsg)
  BY DEF TypeOK
<1>2. /\ Ticks(n) = Waiting(toNode[n], "tick") /\ TicksOut(n) = Values(toNode[n], "tick")
      /\ Ticks(n)' = Waiting(Tail(toNode[n]), "tick")
      /\ TicksOut(n)' = Values(Tail(toNode[n]), "tick")
  BY DEF Ticks, TicksOut, Waiting, Values
<1>3. TicksOut(n)' = {} <=> Ticks(n)' = {}
  BY <1>2, ValuesEmpty
<1>4. /\ Head(toNode[n]).kind # "tick" => Values(Tail(toNode[n]), "tick") = Values(toNode[n], "tick")
      /\ Head(toNode[n]).kind = "tick" =>
           /\ Values(toNode[n], "tick") = Values(Tail(toNode[n]), "tick") \cup {Head(toNode[n]).val}
           /\ AtMostOne(Waiting(toNode[n], "tick")) => Waiting(Tail(toNode[n]), "tick") = {}
      /\ AtMostOne(Waiting(toNode[n], "tick")) => AtMostOne(Waiting(Tail(toNode[n]), "tick"))
  BY <1>1, WaitingTaken
<1> QED
  BY <1>2, <1>3, <1>4

LEMMA AckTaken ==
  ASSUME TypeOK, NEW n \in Node, toEngine[n] # <<>>, toEngine'[n] = Tail(toEngine[n])
  PROVE  /\ Head(toEngine[n]).kind # "ack" => AcksOut(n)' = AcksOut(n)
         /\ Head(toEngine[n]).kind = "ack" =>
              /\ AcksOut(n) = AcksOut(n)' \cup {Head(toEngine[n]).val}
              /\ AtMostOne(Acks(n)) => Acks(n)' = {} /\ AcksOut(n)' = {}
         /\ AtMostOne(Acks(n)) => AtMostOne(Acks(n)')
<1>1. toEngine[n] \in Seq(ToEngineMsg)
  BY DEF TypeOK
<1>2. /\ Acks(n) = Waiting(toEngine[n], "ack") /\ AcksOut(n) = Values(toEngine[n], "ack")
      /\ Acks(n)' = Waiting(Tail(toEngine[n]), "ack")
      /\ AcksOut(n)' = Values(Tail(toEngine[n]), "ack")
  BY DEF Acks, AcksOut, Waiting, Values
<1>3. AcksOut(n)' = {} <=> Acks(n)' = {}
  BY <1>2, ValuesEmpty
<1>4. /\ Head(toEngine[n]).kind # "ack" => Values(Tail(toEngine[n]), "ack") = Values(toEngine[n], "ack")
      /\ Head(toEngine[n]).kind = "ack" =>
           /\ Values(toEngine[n], "ack") = Values(Tail(toEngine[n]), "ack") \cup {Head(toEngine[n]).val}
           /\ AtMostOne(Waiting(toEngine[n], "ack")) => Waiting(Tail(toEngine[n]), "ack") = {}
      /\ AtMostOne(Waiting(toEngine[n], "ack")) => AtMostOne(Waiting(Tail(toEngine[n]), "ack"))
  BY <1>1, WaitingTaken
<1> QED
  BY <1>2, <1>3, <1>4

(* The word to a sender is neither a tick nor an answer. *)
LEMMA DebtCompleting ==
  ASSUME TypeOK, Completing, NEW n \in Node
  PROVE  DebtKept(n)
<1>1. acked' = acked /\ toEngine' = toEngine
  BY CompletingKeeps
<1>2. CASE toNode' = toNode
  BY <1>1, <1>2, DebtUntouched
<1>3. ASSUME NEW t \in telling, Put(t.from, "txDone", t.gen)
      PROVE  DebtKept(n)
  <2> DEFINE msg == [kind |-> "txDone", val |-> t.gen]
  <2>1. msg \in ToNodeMsg /\ msg.kind # "tick" /\ t.from \in Node
    BY DEF ToNodeMsg, TypeOK, Transmission
  <2>2. toNode' = [toNode EXCEPT ![t.from] = Append(@, msg)]
    BY <1>3 DEF Put
  <2> HIDE DEF msg
  <2>3. CASE n # t.from
    BY <1>1, <2>2, <2>3, DebtUntouched
  <2>4. CASE n = t.from
    <3>1. toNode'[n] = Append(toNode[n], msg)
      BY <2>1, <2>2, <2>4 DEF TypeOK
    <3>2. TicksOut(n)' = TicksOut(n) /\ Ticks(n)' = Ticks(n)
      BY <2>1, <3>1, TickPut
    <3>3. AcksOut(n)' = AcksOut(n) /\ Acks(n)' = Acks(n)
      BY <1>1 DEF AcksOut, Values, Waiting, Acks
    <3> QED
      BY <1>1, <3>2, <3>3 DEF DebtKept
  <2> QED
    BY <2>3, <2>4
<1> QED
  BY <1>2, <1>3, CompletingKeeps

(* The engine asks: one more tick is owed.                                  *)
LEMMA DebtAsked ==
  ASSUME TypeOK, NEW n \in Node, BeginAdvance(n)
  PROVE  /\ TicksOut(n)' = TicksOut(n) \cup {now}
         /\ Ticks(n)' = Ticks(n) \cup {Len(toNode[n]) + 1}
         /\ AcksOut(n)' = AcksOut(n) /\ Acks(n)' = Acks(n)
         /\ \A m \in Node \ {n} : DebtKept(m)
<1> DEFINE msg == [kind |-> "tick", val |-> now]
<1>1. msg \in ToNodeMsg /\ msg.kind = "tick" /\ msg.val = now
  BY DEF ToNodeMsg, TypeOK
<1>2. /\ toNode' = [toNode EXCEPT ![n] = Append(@, msg)]
      /\ toEngine' = toEngine
      /\ \A m \in Node \ {n} : acked'[m] = acked[m]
  BY DEF BeginAdvance, Put, Released, TypeOK
<1> HIDE DEF msg
<1>3. toNode'[n] = Append(toNode[n], msg)
  BY <1>2 DEF TypeOK
<1>4. TicksOut(n)' = TicksOut(n) \cup {msg.val} /\ Ticks(n)' = Ticks(n) \cup {Len(toNode[n]) + 1}
  BY <1>1, <1>3, TickPut
<1>5. AcksOut(n)' = AcksOut(n) /\ Acks(n)' = Acks(n)
  BY <1>2 DEF AcksOut, Values, Waiting, Acks
<1>6. \A m \in Node \ {n} : DebtKept(m)
  BY <1>2, DebtUntouched DEF TypeOK
<1> QED
  BY <1>1, <1>4, <1>5, <1>6

(* The node answers: the tick it was sent becomes an acknowledgement of it. *)
LEMMA DebtAnswered ==
  ASSUME TypeOK, NEW n \in Node, NodeAck(n)
  PROVE  /\ acked' = acked
         /\ \E at \in TicksOut(n) :
              /\ TicksOut(n) = TicksOut(n)' \cup {at}
              /\ AcksOut(n)' = AcksOut(n) \cup {at}
         /\ AtMostOne(Ticks(n)) => Ticks(n)' = {} /\ TicksOut(n)' = {}
         /\ AtMostOne(Ticks(n)) => AtMostOne(Ticks(n)')
         /\ Acks(n)' = Acks(n) \cup {Len(toEngine[n]) + 1}
<1> DEFINE msg == [kind |-> "ack", val |-> Head(toNode[n]).val]
<1>1. /\ toNode[n] # <<>> /\ Head(toNode[n]).kind = "tick"
      /\ toNode'[n] = Tail(toNode[n])
      /\ toEngine'[n] = Append(toEngine[n], msg)
      /\ acked' = acked
  BY DEF NodeAck, Handles, TypeOK
<1>2. Head(toNode[n]) \in ToNodeMsg
  BY <1>1 DEF TypeOK
<1>3. msg \in ToEngineMsg /\ msg.kind = "ack" /\ msg.val = Head(toNode[n]).val
  BY <1>2 DEF ToNodeMsg, ToEngineMsg
<1> HIDE DEF msg
<1>4. /\ TicksOut(n) = TicksOut(n)' \cup {Head(toNode[n]).val}
      /\ AtMostOne(Ticks(n)) => Ticks(n)' = {} /\ TicksOut(n)' = {}
      /\ AtMostOne(Ticks(n)) => AtMostOne(Ticks(n)')
  BY <1>1, TickTaken
<1>5. AcksOut(n)' = AcksOut(n) \cup {msg.val} /\ Acks(n)' = Acks(n) \cup {Len(toEngine[n]) + 1}
  BY <1>1, <1>3, AckPut
<1> QED
  BY <1>1, <1>3, <1>4, <1>5

(* The bridge reads the answer: it is kept, if there is room for it.        *)
LEMMA DebtRead ==
  ASSUME TypeOK, NEW n \in Node, ReadAck(n)
  PROVE  /\ toNode' = toNode
         /\ AcksOut(n) # {}
         /\ AtMostOne(Acks(n)) => Acks(n)' = {} /\ AcksOut(n)' = {}
         /\ IF acked[n] = 0
              THEN closed' = closed /\ AcksOut(n) = AcksOut(n)' \cup {acked'[n]}
              ELSE closed'[n]
<1>1. /\ toEngine[n] # <<>> /\ Head(toEngine[n]).kind = "ack"
      /\ toEngine'[n] = Tail(toEngine[n]) /\ toNode' = toNode
  BY DEF ReadAck, NextFrom, TypeOK
<1>2. /\ AcksOut(n) = AcksOut(n)' \cup {Head(toEngine[n]).val}
      /\ AtMostOne(Acks(n)) => Acks(n)' = {} /\ AcksOut(n)' = {}
  BY <1>1, AckTaken
<1>3. IF acked[n] = 0
        THEN closed' = closed /\ acked'[n] = Head(toEngine[n]).val ELSE closed'[n]
  BY DEF ReadAck, TypeOK
<1> QED
  BY <1>1, <1>2, <1>3

(* Every other message is no concern of what is owed.                       *)
LEMMA DebtFrames ==
  ASSUME TypeOK, NEW n \in Node, ReadFrame(n) \/ NodeTxDone(n) \/ NodeTransmit(n)
  PROVE  \A m \in Node : DebtKept(m)
<1>1. /\ acked' = acked
      /\ \A m \in Node \ {n} : toNode'[m] = toNode[m] /\ toEngine'[m] = toEngine[m]
  BY DEF ReadFrame, NodeTxDone, NodeTransmit, NextFrom, TypeOK
<1>2. \A m \in Node \ {n} : DebtKept(m)
  BY <1>1, DebtUntouched
<1>3. CASE ReadFrame(n)
  <2>1. /\ toEngine[n] # <<>> /\ Head(toEngine[n]).kind # "ack"
        /\ toEngine'[n] = Tail(toEngine[n]) /\ toNode' = toNode
    BY <1>3 DEF ReadFrame, NextFrom, TypeOK
  <2>2. AcksOut(n)' = AcksOut(n) /\ (AtMostOne(Acks(n)) => AtMostOne(Acks(n)'))
    BY <2>1, AckTaken
  <2>3. TicksOut(n)' = TicksOut(n) /\ Ticks(n)' = Ticks(n)
    BY <2>1 DEF TicksOut, Values, Waiting, Ticks
  <2> QED
    BY <1>1, <1>2, <2>2, <2>3 DEF DebtKept
<1>4. CASE NodeTxDone(n)
  <2>1. /\ toNode[n] # <<>> /\ Head(toNode[n]).kind # "tick"
        /\ toNode'[n] = Tail(toNode[n]) /\ toEngine' = toEngine
    BY <1>4 DEF NodeTxDone, Handles, TypeOK
  <2>2. TicksOut(n)' = TicksOut(n) /\ (AtMostOne(Ticks(n)) => AtMostOne(Ticks(n)'))
    BY <2>1, TickTaken
  <2>3. AcksOut(n)' = AcksOut(n) /\ Acks(n)' = Acks(n)
    BY <2>1 DEF AcksOut, Values, Waiting, Acks
  <2> QED
    BY <1>1, <1>2, <2>2, <2>3 DEF DebtKept
<1>5. CASE NodeTransmit(n)
  <2> DEFINE msg == [kind |-> "frame", val |-> 0]
  <2>1. msg \in ToEngineMsg /\ msg.kind # "ack"
    BY DEF ToEngineMsg
  <2>2. toEngine'[n] = Append(toEngine[n], msg) /\ toNode' = toNode
    BY <1>5 DEF NodeTransmit, TypeOK
  <2> HIDE DEF msg
  <2>3. AcksOut(n)' = AcksOut(n) /\ Acks(n)' = Acks(n)
    BY <2>1, <2>2, AckPut
  <2>4. TicksOut(n)' = TicksOut(n) /\ Ticks(n)' = Ticks(n)
    BY <2>2 DEF TicksOut, Values, Waiting, Ticks
  <2> QED
    BY <1>1, <1>2, <2>3, <2>4 DEF DebtKept
<1> QED
  BY <1>3, <1>4, <1>5

-----------------------------------------------------------------------------
(* Whoever is held can answer.  A node is held at a tick of the process it  *)
(* was asked of, that tick or its answer has not been taken yet, and while  *)
(* it is being waited for nothing is remembered of an earlier hold.         *)
IsHeld(n) == held[n] # NotHeld

HeldNode(n) ==
  /\ held[n].gen <= gen[n]
  /\ IsHeld(n) => held[n].at > 0
  /\ IsHeld(n) /\ ask[n] # "target" /\ target[n] # 0 => held[n].gen = target[n]
  /\ ask[n] = "asked" => ~IsHeld(n)
  /\ ask[n] \in {"target", "asked"} => round > 0
  /\ ~closed[n] /\ IsHeld(n) /\ held[n].gen = gen[n] => Answers(n, held[n].at)
  /\ ~closed[n] /\ ask[n] = "asked" /\ target[n] = gen[n] => Answers(n, round)

HeldInv == \A n \in Node : HeldNode(n)

AnswersKept(n) == \A at \in Nat \ {0} : Answers(n, at) => Answers(n, at)'

LEMMA DebtKeptAnswers ==
  ASSUME NEW n \in Node, DebtKept(n)
  PROVE  AnswersKept(n)
BY DEF DebtKept, AnswersKept, Answers

LEMMA HeldKept ==
  ASSUME TypeOK, NEW m \in Node, HeldNode(m), AnswersKept(m),
         round' = round, held'[m] = held[m], target'[m] = target[m], gen'[m] = gen[m],
         ask'[m] = ask[m], closed[m] => closed'[m]
  PROVE  HeldNode(m)'
<1>1. held[m].at \in Nat /\ round \in Nat
  BY DEF TypeOK
<1>2. ASSUME ~closed'[m], IsHeld(m), held[m].gen = gen[m]
      PROVE  Answers(m, held[m].at)'
  BY <1>1, <1>2 DEF HeldNode, AnswersKept, Answers, AcksOut, TicksOut
<1>3. ASSUME ~closed'[m], ask[m] = "asked", target[m] = gen[m]
      PROVE  Answers(m, round)'
  BY <1>1, <1>3 DEF HeldNode, AnswersKept, Answers, AcksOut, TicksOut
<1> QED
  BY <1>2, <1>3 DEF HeldNode, IsHeld, NotHeld

LEMMA HeldCutOff ==
  ASSUME NEW m \in Node, HeldNode(m), closed'[m],
         round' = round, held'[m] = held[m], target'[m] = target[m], gen'[m] = gen[m],
         ask'[m] = ask[m]
  PROVE  HeldNode(m)'
BY DEF HeldNode, IsHeld, NotHeld

LEMMA HeldRunning ==
  ASSUME TypeOK, BarrierInv, HeldInv, NEW n \in Node, RunningFirmware(n)
  PROVE  HeldInv'
<1>1. /\ UNCHANGED <<round, target, gen, closed>>
      /\ pc = "firmware"
      /\ \A m \in Node \ {n} : /\ ask'[m] = ask[m] /\ held'[m] = held[m]
  BY ZenonT(40) DEF RunningFirmware, SkipHeld, BeginAdvance, BeginAdvanceFails, WaitAdvance,
       WaitAdvanceStale, WaitAdvanceReplaced, WaitAdvanceFails, WaitDeadline,
       Released, engine, slot, bridge, TypeOK
<1>2. \A m \in Node \ {n} : DebtKept(m)
  <2>1. CASE BeginAdvance(n)
    BY <2>1, DebtAsked
  <2>2. CASE ~BeginAdvance(n)
    <3>1. /\ UNCHANGED <<toNode, toEngine>>
          /\ \A m \in Node \ {n} : acked'[m] = acked[m]
      BY <2>2 DEF RunningFirmware, SkipHeld, BeginAdvanceFails, WaitAdvance,
           WaitAdvanceStale, WaitAdvanceReplaced, WaitAdvanceFails, WaitDeadline,
           Released, bridge, TypeOK
    <3> QED
      BY <3>1, DebtUntouched
  <2> QED
    BY <2>1, <2>2
<1>3. ASSUME NEW m \in Node \ {n}
      PROVE  HeldNode(m)'
  <2>1. HeldNode(m) /\ AnswersKept(m)
    BY <1>2, DebtKeptAnswers DEF HeldInv
  <2> QED
    BY <1>1, <2>1, HeldKept
<1>4. SUFFICES HeldNode(n)'
  BY <1>3 DEF HeldInv
<1>5. /\ HeldNode(n) /\ round = now
      /\ held[n].at \in Nat /\ held[n].gen \in Nat /\ gen[n] \in Nat /\ acked[n] \in Nat
      /\ round \in Nat /\ round' = round
      /\ gen'[n] = gen[n] /\ target'[n] = target[n] /\ closed'[n] = closed[n]
  BY <1>1 DEF HeldInv, BarrierInv, Phases, TypeOK
<1>6. NotHeld.gen = 0
  BY DEF NotHeld
<1>7. CASE SkipHeld(n)
  <2>1. /\ ask'[n] = "none" /\ held' = held
        /\ held[n].gen = target[n] /\ acked[n] # held[n].at
        /\ acked'[n] = 0 /\ UNCHANGED <<toNode, toEngine>>
    BY <1>5, <1>7 DEF SkipHeld, StillHeld, HeldProcess, CaughtUp, TypeOK
  <2>2. Answers(n, held[n].at) => Answers(n, held[n].at)'
    BY <2>1 DEF Answers, AcksOut, TicksOut, Values, Waiting
  <2> QED
    BY <1>5, <2>1, <2>2 DEF HeldNode, IsHeld, NotHeld
<1>8. CASE BeginAdvance(n)
  <2>1. held'[n] = NotHeld /\ ask[n] = "target" /\ ask'[n] = "asked"
    BY <1>8 DEF BeginAdvance, Released, First, TypeOK
  <2>2. now \in TicksOut(n)'
    BY <1>8, DebtAsked
  <2>3. Answers(n, round)'
    BY <1>5, <2>2 DEF Answers
  <2> QED
    BY <1>5, <1>6, <2>1, <2>3 DEF HeldNode, IsHeld, NotHeld
<1>9. CASE BeginAdvanceFails(n)
  <2>1. held'[n] = NotHeld /\ ask'[n] = "none"
    BY <1>9 DEF BeginAdvanceFails, Released, TypeOK
  <2> QED
    BY <1>5, <1>6, <2>1 DEF HeldNode, IsHeld, NotHeld
<1>10. CASE WaitAdvance(n) \/ WaitAdvanceReplaced(n) \/ WaitAdvanceFails(n)
  <2>1. held' = held /\ ask[n] = "asked" /\ ask'[n] \in {"answered", "none"}
    BY <1>10 DEF WaitAdvance, WaitAdvanceReplaced, WaitAdvanceFails, First, TypeOK
  <2> QED
    BY <1>5, <2>1 DEF HeldNode, IsHeld, NotHeld
<1>11. CASE WaitAdvanceStale(n)
  <2>1. /\ held' = held /\ ask[n] = "asked" /\ ask'[n] = "asked"
        /\ acked[n] # round /\ UNCHANGED <<toNode, toEngine>>
    BY <1>11 DEF WaitAdvanceStale, First, engine, TypeOK
  <2>2. Answers(n, round) => Answers(n, round)'
    BY <1>5, <2>1 DEF Answers, AcksOut, TicksOut, Values, Waiting
  <2> QED
    BY <1>5, <2>1, <2>2 DEF HeldNode, IsHeld, NotHeld
<1>12. CASE WaitDeadline(n)
  <2>1. /\ ask[n] = "asked" /\ ask'[n] = "none" /\ ~closed[n] /\ gen[n] = target[n]
        /\ UNCHANGED <<acked, toNode, toEngine>>
    BY <1>12 DEF WaitDeadline, First, Gone, bridge, TypeOK
  <2>2. Answers(n, round)'
    BY <1>5, <2>1 DEF HeldNode, Answers, AcksOut, TicksOut, Values, Waiting
  <2>3. CASE held'[n] = [gen |-> target[n], at |-> round]
    <3>1. held'[n].gen = gen[n] /\ held'[n].at = round
      BY <2>1, <2>3
    <3>2. Answers(n, held[n].at)'
      BY <1>5, <2>2, <3>1 DEF Answers
    <3> QED
      BY <1>5, <2>1, <3>1, <3>2 DEF HeldNode
  <2>4. CASE held'[n] = held[n]
    BY <1>5, <2>1, <2>4 DEF HeldNode, IsHeld, NotHeld
  <2> QED
    BY <1>12, <2>3, <2>4 DEF WaitDeadline, TypeOK
<1> QED
  BY <1>7, <1>8, <1>9, <1>10, <1>11, <1>12 DEF RunningFirmware

LEMMA HeldStep ==
  ASSUME TypeOK, BarrierInv, HeldInv, Step
  PROVE  HeldInv'
<1>1. ASSUME UNCHANGED <<round, target, ask, gen, closed, held>>, \A n \in Node : DebtKept(n)
      PROVE  HeldInv'
  BY <1>1, HeldKept, DebtKeptAnswers DEF HeldInv
<1>2. CASE StepBegin \/ CollectTransmissions
  <2>1. UNCHANGED <<round, target, ask, gen, closed, held, acked, toNode, toEngine>>
    BY <1>2, CollectKeeps DEF StepBegin, slot, bridge
  <2> QED
    BY <1>1, <2>1, DebtUntouched
<1>3. CASE Completing
  <2>1. UNCHANGED <<round, target, ask, gen, closed, held>>
    BY <1>3, CompletingKeeps DEF slot
  <2> QED
    BY <1>1, <1>3, <2>1, DebtCompleting
<1>4. CASE FirmwareTargets
  <2> SUFFICES ASSUME NEW n \in Node
               PROVE  HeldNode(n)'
    BY DEF HeldInv
  <2>1. /\ UNCHANGED <<gen, closed, held, acked, toNode, toEngine>>
        /\ round' = now /\ round < now /\ round \in Nat /\ now \in Nat
        /\ \/ ask'[n] = "target"
           \/ ask'[n] = "none" /\ target'[n] = 0
    BY <1>4 DEF FirmwareTargets, BarrierInv, Phases, slot, bridge, TypeOK
  <2>2. Answers(n, held[n].at) => Answers(n, held[n].at)'
    BY <2>1 DEF Answers, AcksOut, TicksOut, Values, Waiting
  <2> QED
    BY <2>1, <2>2 DEF HeldInv, HeldNode, IsHeld, NotHeld
<1> QED
  BY <1>2, <1>3, <1>4, HeldRunning DEF Step

(* An answer on its way stays on its way until it is read, and is read into *)
(* an empty place: a bridge that had no room for it hangs up instead.       *)
LEMMA HeldSockets ==
  ASSUME TypeOK, HeldInv, NEW n \in Node, Read(n) \/ Firmware(n)
  PROVE  HeldInv'
<1>1. /\ UNCHANGED <<round, target, ask, gen, held>>
      /\ \A m \in Node : closed[m] => closed'[m]
      /\ \A m \in Node \ {n} : /\ acked'[m] = acked[m] /\ toNode'[m] = toNode[m]
                              /\ toEngine'[m] = toEngine[m]
  BY ZenonT(40) DEF Read, ReadFrame, ReadAck, ReadEOF, NextFrom, Firmware, NodeTxDone, NodeTransmit,
       NodeAck, engine, slot, TypeOK
<1>2. \A m \in Node \ {n} : AnswersKept(m)
  BY <1>1, DebtUntouched, DebtKeptAnswers
<1>3. AnswersKept(n) \/ closed'[n]
  <2>1. CASE ReadFrame(n) \/ NodeTxDone(n) \/ NodeTransmit(n)
    BY <2>1, DebtFrames, DebtKeptAnswers
  <2>2. CASE ReadEOF(n)
    BY <2>2 DEF ReadEOF, TypeOK
  <2>3. CASE ReadAck(n) /\ acked[n] = 0
    <3>1. AcksOut(n) = AcksOut(n)' \cup {acked'[n]} /\ toNode' = toNode
      BY <2>3, DebtRead
    <3>2. TicksOut(n)' = TicksOut(n)
      BY <3>1 DEF TicksOut, Values, Waiting
    <3> QED
      BY <2>3, <3>1, <3>2 DEF AnswersKept, Answers
  <2>4. CASE ReadAck(n) /\ acked[n] # 0
    BY <2>4, DebtRead
  <2>5. CASE NodeAck(n)
    <3>1. PICK at \in TicksOut(n) : /\ TicksOut(n) = TicksOut(n)' \cup {at}
                                    /\ AcksOut(n)' = AcksOut(n) \cup {at}
      BY <2>5, DebtAnswered
    <3>2. acked' = acked
      BY <2>5, DebtAnswered
    <3> QED
      BY <3>1, <3>2 DEF AnswersKept, Answers
  <2> QED
    BY <2>1, <2>2, <2>3, <2>4, <2>5 DEF Read, Firmware
<1>4. ASSUME NEW m \in Node
      PROVE  HeldNode(m)'
  <2>1. CASE AnswersKept(m)
    BY <1>1, <2>1, HeldKept DEF HeldInv
  <2>2. CASE closed'[m]
    BY <1>1, <2>2, HeldCutOff DEF HeldInv
  <2> QED
    BY <1>2, <1>3, <2>1, <2>2
<1> QED
  BY <1>4 DEF HeldInv

LEMMA HeldSession ==
  ASSUME TypeOK, BarrierInv, HeldInv, NEW n \in Node, Session(n) \/ Misfortune(n)
  PROVE  HeldInv'
<1>1. UNCHANGED <<round, target, ask>>
  BY DEF Session, Misfortune, SetDebug, ClearDebug, StopClose, StopClear, Adopt,
       Crash, Break, Continue, engine
<1>2. CASE ClearDebug(n)
  <2>1. /\ UNCHANGED <<gen, closed, acked, toNode, toEngine>>
        /\ held' = [held EXCEPT ![n] = NotHeld]
    BY <1>2 DEF ClearDebug, slot, bridge
  <2>2. \A m \in Node \ {n} : HeldNode(m)'
    BY <1>1, <2>1, HeldKept, DebtUntouched, DebtKeptAnswers DEF HeldInv
  <2>3. ask[n] = "asked" => held[n] = NotHeld
    BY DEF HeldInv, HeldNode, IsHeld
  <2>4. HeldNode(n)'
    <3>1. held'[n] = NotHeld /\ NotHeld.gen = 0 /\ gen'[n] \in Nat
      BY <2>1 DEF NotHeld, TypeOK
    <3>2. Answers(n, round) => Answers(n, round)'
      BY <1>1, <2>1 DEF Answers, AcksOut, TicksOut, Values, Waiting
    <3> QED
      BY <1>1, <2>1, <3>1, <3>2 DEF HeldInv, HeldNode, IsHeld, NotHeld
  <2> QED
    BY <2>2, <2>4 DEF HeldInv
<1>3. CASE Adopt(n)
  <2>1. /\ held' = held /\ gen'[n] = gen[n] + 1
        /\ \A m \in Node \ {n} :
             /\ gen'[m] = gen[m] /\ closed'[m] = closed[m] /\ acked'[m] = acked[m]
             /\ toNode'[m] = toNode[m] /\ toEngine'[m] = toEngine[m]
    BY <1>3 DEF Adopt, engine, TypeOK
  <2>2. \A m \in Node \ {n} : HeldNode(m)'
    BY <1>1, <2>1, HeldKept, DebtUntouched, DebtKeptAnswers DEF HeldInv
  <2>3. /\ held[n].gen \in Nat /\ gen[n] \in Nat /\ target[n] \in Nat
        /\ held[n].gen <= gen[n] /\ target[n] <= gen[n]
    BY DEF TypeOK, HeldInv, HeldNode, BarrierInv, NodeInv
  <2>4. held'[n].gen < gen'[n] /\ target'[n] < gen'[n]
    BY <1>1, <2>1, <2>3
  <2>5. HeldNode(n)'
    BY <1>1, <2>1, <2>3, <2>4 DEF HeldInv, HeldNode, IsHeld, NotHeld
  <2> QED
    BY <2>2, <2>5 DEF HeldInv
<1>4. CASE ~ClearDebug(n) /\ ~Adopt(n)
  <2>1. /\ UNCHANGED <<held, gen, acked, toNode, toEngine>>
        /\ \A m \in Node : closed[m] => closed'[m]
    BY <1>4 DEF Session, Misfortune, SetDebug, StopClose, StopClear,
         Crash, Break, Continue, engine, slot, bridge, TypeOK
  <2> QED
    BY <1>1, <2>1, HeldKept, DebtUntouched, DebtKeptAnswers DEF HeldInv
<1> QED
  BY <1>2, <1>3, <1>4

LEMMA HeldNext ==
  ASSUME TypeOK, BarrierInv, HeldInv, [Next]_vars
  PROVE  HeldInv'
<1>1. CASE UNCHANGED vars
  <2>1. UNCHANGED <<round, target, ask, gen, closed, held, acked, toNode, toEngine>>
    BY <1>1 DEF vars, engine, slot, bridge
  <2> QED
    BY <2>1, HeldKept, DebtUntouched, DebtKeptAnswers DEF HeldInv
<1> QED
  BY <1>1, HeldStep, HeldSockets, HeldSession DEF Next

LEMMA HeldInvAnswers ==
  ASSUME BarrierInv, HeldInv
  PROVE  HeldWillAnswer
<1> SUFFICES ASSUME NEW n \in Node, pc = "idle", IsHeld(n), target[n] # 0
             PROVE  /\ held[n].gen = target[n]
                    /\ \/ Gone(n)
                       \/ acked[n] = held[n].at
                       \/ \E k \in Acks(n) : toEngine[n][k].val = held[n].at
                       \/ \E k \in Ticks(n) : toNode[n][k].val = held[n].at
  BY DEF HeldWillAnswer, IsHeld
<1>1. ask[n] # "target"
  BY DEF BarrierInv, Phases
<1>2. held[n].gen = target[n]
  BY <1>1 DEF HeldInv, HeldNode
<1>3. Gone(n) \/ Answers(n, held[n].at)
  BY <1>2 DEF HeldInv, HeldNode, Gone
<1>4. Answers(n, held[n].at) =>
        \/ acked[n] = held[n].at
        \/ \E k \in Acks(n) : toEngine[n][k].val = held[n].at
        \/ \E k \in Ticks(n) : toNode[n][k].val = held[n].at
  BY DEF Answers, AcksOut, TicksOut, Values, Waiting, Acks, Ticks
<1> QED
  BY <1>2, <1>3, <1>4

(* A node left held in a debugger is held on the process that was asked,    *)
(* and that process, if it is still connected, has yet to be heard: it will *)
(* be taken back.  Debugging may be turned off while it is held or not.     *)
THEOREM HeldAnswers == Spec => []HeldWillAnswer
<1>1. Init => BarrierInv /\ HeldInv
  BY BarrierInvInit DEF Init, HeldInv, HeldNode, IsHeld, NotHeld
<1>2. TypeOK /\ BarrierInv /\ HeldInv /\ [Next]_vars => BarrierInv' /\ HeldInv'
  BY BarrierInvNext, HeldNext
<1>3. BarrierInv /\ HeldInv => HeldWillAnswer
  BY HeldInvAnswers
<1> QED
  BY <1>1, <1>2, <1>3, TypeCorrect, PTL DEF Spec

-----------------------------------------------------------------------------
(* Why a node is owed one acknowledgement at a time.  Whatever it owes is   *)
(* being waited for, or is remembered as the tick it is held at, or will    *)
(* never be asked for again; so when the engine asks, nothing is owed but   *)
(* an answer it is about to take.  Turning debugging off forgets a hold,    *)
(* and with it what was owed, so this is of sessions in which nobody does   *)
(* that to a node that is held.                                             *)
Owing(n) == TicksOut(n) # {} \/ AcksOut(n) # {} \/ acked[n] # 0

AtMostOneOwed(n) ==
  /\ AtMostOne(Ticks(n)) /\ AtMostOne(Acks(n))
  /\ TicksOut(n) # {} => AcksOut(n) = {} /\ acked[n] = 0
  /\ AcksOut(n) # {} => acked[n] = 0

Remembered(n) ==
  \/ ask[n] = "asked" /\ target[n] = gen[n]
  \/ IsHeld(n) /\ held[n].gen = gen[n]
  \/ down[n]

DebtNode(n) ==
  /\ ask[n] \in {"target", "asked"} => ~down[n]
  /\ fw[n] = "up" /\ closed[n] => proc[n] = "gone"
  /\ ~closed[n] => AtMostOneOwed(n) /\ (Owing(n) => Remembered(n))

DebtInv == \A n \in Node : DebtNode(n)

LEMMA OutIsWaiting ==
  ASSUME NEW n \in Node
  PROVE  /\ TicksOut(n) = {} <=> Ticks(n) = {}
         /\ AcksOut(n) = {} <=> Acks(n) = {}
<1>1. Ticks(n) = Waiting(toNode[n], "tick") /\ Acks(n) = Waiting(toEngine[n], "ack")
  BY DEF Ticks, Acks, Waiting
<1> QED
  BY <1>1, ValuesEmpty DEF TicksOut, AcksOut

(* A step that leaves what is owed as it was, or takes what the bridge had  *)
(* read, and forgets nothing.                                               *)
LEMMA DebtNodeKept ==
  ASSUME NEW m \in Node, DebtNode(m), DebtKept(m),
         closed'[m] = closed[m], proc'[m] = proc[m], fw'[m] = fw[m], down'[m] = down[m],
         ask'[m] = ask[m], Remembered(m) => Remembered(m)'
  PROVE  DebtNode(m)'
<1>1. AtMostOneOwed(m) => AtMostOneOwed(m)'
  BY DEF AtMostOneOwed, DebtKept, AtMostOne
<1>2. Owing(m)' => Owing(m)
  BY DEF Owing, DebtKept
<1> QED
  BY <1>1, <1>2 DEF DebtNode

(* Whatever was owed, the engine has taken what the bridge had read.        *)
LEMMA DebtTaken ==
  ASSUME NEW m \in Node, AtMostOneOwed(m), acked'[m] = 0,
         toNode'[m] = toNode[m], toEngine'[m] = toEngine[m]
  PROVE  /\ AtMostOneOwed(m)'
         /\ acked[m] # 0 => ~Owing(m)'
         /\ Owing(m)' => Owing(m)
<1>1. /\ TicksOut(m)' = TicksOut(m) /\ AcksOut(m)' = AcksOut(m)
      /\ Ticks(m)' = Ticks(m) /\ Acks(m)' = Acks(m)
  BY DEF TicksOut, AcksOut, Values, Waiting, Ticks, Acks
<1> QED
  BY <1>1 DEF AtMostOneOwed, Owing, AtMostOne

LEMMA DebtRunning ==
  ASSUME TypeOK, BarrierInv, HeldInv, DebtInv, NEW n \in Node, RunningFirmware(n)
  PROVE  DebtInv'
<1>1. /\ UNCHANGED <<round, target, gen, closed, fw, proc, toEngine>>
      /\ pc = "firmware" /\ round = now
      /\ \A m \in Node \ {n} : /\ ask'[m] = ask[m] /\ held'[m] = held[m] /\ down'[m] = down[m]
                              /\ acked'[m] = acked[m]
  <2>1. UNCHANGED <<round, target, gen, closed, fw, proc, toEngine>> /\ pc = "firmware"
    BY DEF RunningFirmware, SkipHeld, BeginAdvance, BeginAdvanceFails, WaitAdvance,
         WaitAdvanceStale, WaitAdvanceReplaced, WaitAdvanceFails, WaitDeadline,
         engine, slot, bridge, process
  <2>2. \A m \in Node \ {n} : ask'[m] = ask[m] /\ held'[m] = held[m] /\ acked'[m] = acked[m]
    BY ZenonT(40) DEF RunningFirmware, SkipHeld, BeginAdvance, BeginAdvanceFails, WaitAdvance,
         WaitAdvanceStale, WaitAdvanceReplaced, WaitAdvanceFails, WaitDeadline,
         Released, engine, bridge, TypeOK
  <2>3. down' = down \/ MarkDown(n)
    BY DEF RunningFirmware, SkipHeld, BeginAdvance, BeginAdvanceFails, WaitAdvance,
         WaitAdvanceStale, WaitAdvanceReplaced, WaitAdvanceFails, WaitDeadline, engine
  <2>4. \A m \in Node \ {n} : down'[m] = down[m]
    BY <2>3 DEF MarkDown, TypeOK
  <2> QED
    BY <2>1, <2>2, <2>4 DEF BarrierInv, Phases
<1>2. \A m \in Node \ {n} : DebtKept(m)
  <2>1. CASE BeginAdvance(n)
    BY <2>1, DebtAsked
  <2>2. CASE ~BeginAdvance(n)
    <3>1. UNCHANGED toNode
      BY <2>2 DEF RunningFirmware, SkipHeld, BeginAdvanceFails, WaitAdvance,
           WaitAdvanceStale, WaitAdvanceReplaced, WaitAdvanceFails, WaitDeadline, bridge
    <3> QED
      BY <1>1, <3>1, DebtUntouched
  <2> QED
    BY <2>1, <2>2
<1>3. ASSUME NEW m \in Node \ {n}
      PROVE  DebtNode(m)'
  <2>1. DebtNode(m) /\ DebtKept(m) /\ (Remembered(m) => Remembered(m)')
    BY <1>1, <1>2 DEF DebtInv, Remembered, IsHeld, NotHeld
  <2> QED
    BY <1>1, <2>1, DebtNodeKept
<1>4. SUFFICES DebtNode(n)'
  BY <1>3 DEF DebtInv
<1>5. /\ DebtNode(n) /\ HeldNode(n)
      /\ closed'[n] = closed[n] /\ fw'[n] = fw[n] /\ proc'[n] = proc[n]
      /\ gen'[n] = gen[n] /\ target'[n] = target[n]
  BY <1>1 DEF DebtInv, HeldInv
<1>6. acked[n] \in Nat /\ held[n].at \in Nat /\ round \in Nat
  BY DEF TypeOK
<1>7. CASE SkipHeld(n)
  <2>1. /\ ask'[n] = "none" /\ acked'[n] = 0 /\ UNCHANGED <<held, down, toNode, toEngine>>
        /\ IsHeld(n) /\ held[n].gen = gen[n]
    BY <1>7 DEF SkipHeld, StillHeld, HeldProcess, CaughtUp, Gone, IsHeld, TypeOK
  <2>2. Remembered(n)'
    BY <1>5, <2>1 DEF Remembered, IsHeld, NotHeld
  <2>3. AtMostOneOwed(n) => AtMostOneOwed(n)'
    BY <2>1, DebtTaken
  <2> QED
    BY <1>5, <2>1, <2>2, <2>3 DEF DebtNode
<1>8. CASE BeginAdvance(n)
  <2>1. /\ ask[n] = "target" /\ ask'[n] = "asked" /\ ~closed[n] /\ target[n] = gen[n]
        /\ acked'[n] = (IF HeldProcess(n) THEN 0 ELSE acked[n])
        /\ ~StillHeld(n) /\ ~Gone(n) /\ down' = down
    BY <1>8 DEF BeginAdvance, Released, First, Gone, TypeOK
  <2>2. TicksOut(n) = {} /\ AcksOut(n) = {} /\ acked'[n] = 0
    <3>1. AtMostOneOwed(n) /\ (Owing(n) => IsHeld(n) /\ held[n].gen = gen[n])
      BY <1>5, <2>1 DEF DebtNode, Remembered
    <3>2. CASE HeldProcess(n)
      <4>1. held[n].at > 0
        BY <1>5, <3>2 DEF HeldProcess, HeldNode, IsHeld
      <4>2. acked[n] >= held[n].at
        BY <2>1, <3>2 DEF StillHeld, CaughtUp
      <4>3. acked[n] # 0
        BY <1>6, <4>1, <4>2
      <4> QED
        BY <2>1, <3>1, <3>2, <4>3 DEF AtMostOneOwed
    <3>3. CASE ~HeldProcess(n)
      <4>1. ~Owing(n)
        BY <2>1, <3>1, <3>3 DEF HeldProcess, IsHeld
      <4> QED
        BY <2>1, <3>3, <4>1 DEF Owing
    <3> QED
      BY <3>2, <3>3
  <2>3. Ticks(n) = {} /\ Acks(n) = {}
    BY <2>2, OutIsWaiting
  <2>4. Ticks(n)' = {Len(toNode[n]) + 1} /\ Acks(n)' = {} /\ AcksOut(n)' = {}
    BY <1>8, <2>2, <2>3, DebtAsked
  <2>5. AtMostOneOwed(n)'
    BY <2>2, <2>4 DEF AtMostOneOwed, AtMostOne
  <2>6. Remembered(n)'
    BY <1>5, <2>1 DEF Remembered
  <2> QED
    BY <1>5, <2>1, <2>5, <2>6 DEF DebtNode
<1>9. CASE BeginAdvanceFails(n) \/ WaitAdvanceFails(n)
  <2>1. /\ down'[n] /\ ask'[n] = "none" /\ acked'[n] \in {acked[n], 0} /\ UNCHANGED toNode
    BY <1>9 DEF BeginAdvanceFails, WaitAdvanceFails, MarkDown, Released, TypeOK
  <2>2. Remembered(n)'
    BY <2>1 DEF Remembered
  <2>3. AtMostOneOwed(n) => AtMostOneOwed(n)'
    <3>1. CASE acked'[n] = 0
      BY <1>1, <2>1, <3>1, DebtTaken
    <3>2. CASE acked'[n] = acked[n]
      <4>1. DebtKept(n)
        BY <1>1, <2>1, <3>2, DebtUntouched
      <4> QED
        BY <4>1 DEF AtMostOneOwed, DebtKept, AtMostOne
    <3> QED
      BY <2>1, <3>1, <3>2
  <2> QED
    BY <1>5, <2>1, <2>2, <2>3 DEF DebtNode
<1>10. CASE WaitAdvance(n) \/ WaitAdvanceStale(n)
  <2>1. /\ acked[n] # 0 /\ acked'[n] = 0 /\ UNCHANGED <<down, toNode>>
        /\ ask[n] = "asked" /\ ask'[n] \in {"answered", "asked"}
    BY <1>5, <1>6, <1>10 DEF WaitAdvance, WaitAdvanceStale, First, HeldNode, engine, TypeOK
  <2>2. AtMostOneOwed(n) => AtMostOneOwed(n)' /\ ~Owing(n)'
    BY <1>1, <2>1, DebtTaken
  <2> QED
    BY <1>5, <2>1, <2>2 DEF DebtNode
<1>11. CASE WaitAdvanceReplaced(n)
  <2>1. /\ gen[n] # target[n] /\ ask'[n] = "answered" /\ UNCHANGED <<down, held, toNode, acked>>
    BY <1>11 DEF WaitAdvanceReplaced, bridge, TypeOK
  <2>2. DebtKept(n)
    BY <1>1, <2>1, DebtUntouched
  <2>3. AtMostOneOwed(n) => AtMostOneOwed(n)'
    BY <2>2 DEF AtMostOneOwed, DebtKept, AtMostOne
  <2>4. Owing(n)' => Owing(n)
    BY <2>2 DEF Owing, DebtKept
  <2>5. Remembered(n) => Remembered(n)'
    BY <1>5, <2>1 DEF Remembered, IsHeld, NotHeld
  <2> QED
    BY <1>5, <2>1, <2>3, <2>4, <2>5 DEF DebtNode
<1>12. CASE WaitDeadline(n)
  <2>1. /\ target[n] = gen[n] /\ ask'[n] = "none" /\ UNCHANGED <<toNode, acked>>
        /\ ask[n] = "asked"
    BY <1>12 DEF WaitDeadline, Gone, First, bridge, TypeOK
  <2>2. DebtKept(n)
    BY <1>1, <2>1, DebtUntouched
  <2>3. AtMostOneOwed(n) => AtMostOneOwed(n)'
    BY <2>2 DEF AtMostOneOwed, DebtKept, AtMostOne
  <2>4. Remembered(n)'
    <3>1. CASE n \in debugging
      <4> DEFINE tick == [gen |-> target[n], at |-> round]
      <4>1. held'[n] = tick
        BY <1>12, <3>1 DEF WaitDeadline, TypeOK
      <4>2. tick.gen = gen[n] /\ tick.at > 0
        BY <1>5, <2>1 DEF HeldNode
      <4>3. NotHeld.at = 0
        BY DEF NotHeld
      <4> HIDE DEF tick
      <4> QED
        BY <1>5, <4>1, <4>2, <4>3 DEF Remembered, IsHeld, NotHeld
    <3>2. CASE n \notin debugging
      <4>1. down'[n]
        BY <1>12, <3>2 DEF WaitDeadline, MarkDown, TypeOK
      <4> QED
        BY <4>1 DEF Remembered
    <3> QED
      BY <3>1, <3>2
  <2> QED
    BY <1>5, <2>1, <2>3, <2>4 DEF DebtNode
<1> QED
  BY <1>7, <1>8, <1>9, <1>10, <1>11, <1>12 DEF RunningFirmware

LEMMA DebtStep ==
  ASSUME TypeOK, BarrierInv, HeldInv, DebtInv, Step
  PROVE  DebtInv'
<1>1. CASE StepBegin \/ Completing \/ CollectTransmissions
  <2>1. UNCHANGED <<closed, proc, fw, down, ask, target, gen, held>>
    BY <1>1, CollectKeeps, CompletingKeeps DEF StepBegin, slot, bridge, process
  <2>2. ASSUME NEW n \in Node
        PROVE  DebtKept(n)
    <3>1. CASE StepBegin \/ CollectTransmissions
      BY <3>1, CollectKeeps, DebtUntouched DEF StepBegin, bridge
    <3> QED
      BY <1>1, <3>1, DebtCompleting
  <2>3. \A n \in Node : Remembered(n) => Remembered(n)'
    BY <2>1 DEF Remembered, IsHeld, NotHeld
  <2> QED
    BY <2>1, <2>2, <2>3, DebtNodeKept DEF DebtInv
<1>2. CASE FirmwareTargets
  <2> SUFFICES ASSUME NEW n \in Node
               PROVE  DebtNode(n)'
    BY DEF DebtInv
  <2>1. /\ UNCHANGED <<closed, proc, fw, down, gen, held, acked, toNode, toEngine>>
        /\ ask'[n] = "target" => ~down[n]
        /\ ask'[n] \in {"target", "none"}
        /\ ask[n] # "asked"
    BY <1>2 DEF FirmwareTargets, BarrierInv, Phases, slot, bridge, process, TypeOK
  <2>2. DebtKept(n)
    BY <2>1, DebtUntouched
  <2>3. AtMostOneOwed(n) => AtMostOneOwed(n)'
    BY <2>2 DEF AtMostOneOwed, DebtKept, AtMostOne
  <2>4. Owing(n)' => Owing(n)
    BY <2>2 DEF Owing, DebtKept
  <2>5. Remembered(n) => Remembered(n)'
    BY <2>1 DEF Remembered, IsHeld, NotHeld
  <2> QED
    BY <2>1, <2>3, <2>4, <2>5 DEF DebtInv, DebtNode
<1> QED
  BY <1>1, <1>2, DebtRunning DEF Step

(* The bridge finds the place for an acknowledgement empty whenever one     *)
(* comes, so it never hangs up for want of room.                            *)
LEMMA DebtSockets ==
  ASSUME TypeOK, DebtInv, NEW n \in Node, Read(n) \/ Firmware(n)
  PROVE  DebtInv'
<1>1. /\ UNCHANGED <<target, ask, gen, held, down, fw, proc>>
      /\ ~closed[n]
      /\ \A m \in Node \ {n} : /\ closed'[m] = closed[m] /\ acked'[m] = acked[m]
                              /\ toNode'[m] = toNode[m] /\ toEngine'[m] = toEngine[m]
  BY ZenonT(40) DEF Read, ReadFrame, ReadAck, ReadEOF, NextFrom, Firmware, NodeTxDone, NodeTransmit,
       NodeAck, Handles, Running, engine, slot, process, TypeOK
<1>2. \A m \in Node : Remembered(m) => Remembered(m)'
  BY <1>1 DEF Remembered, IsHeld, NotHeld
<1>3. \A m \in Node \ {n} : DebtNode(m)'
  BY <1>1, <1>2, DebtUntouched, DebtNodeKept DEF DebtInv
<1>4. SUFFICES DebtNode(n)'
  BY <1>3 DEF DebtInv
<1>5. DebtNode(n) /\ AtMostOneOwed(n) /\ (Owing(n) => Remembered(n)')
  BY <1>1, <1>2 DEF DebtInv, DebtNode
<1>6. CASE ReadFrame(n) \/ NodeTxDone(n) \/ NodeTransmit(n)
  <2>1. DebtKept(n)
    BY <1>6, DebtFrames
  <2>2. closed'[n] = closed[n]
    BY <1>6 DEF ReadFrame, NodeTxDone, NodeTransmit
  <2> QED
    BY <1>1, <1>2, <1>5, <2>1, <2>2, DebtNodeKept
<1>7. CASE ReadEOF(n)
  <2>1. closed'[n] /\ proc'[n] = "gone"
    BY <1>1, <1>7 DEF ReadEOF, TypeOK
  <2> QED
    BY <1>1, <1>5, <2>1 DEF DebtNode
<1>8. CASE ReadAck(n)
  <2>1. AcksOut(n) # {} /\ toNode' = toNode /\ Acks(n)' = {} /\ AcksOut(n)' = {}
    BY <1>5, <1>8, DebtRead DEF AtMostOneOwed
  <2>2. acked[n] = 0 /\ TicksOut(n) = {}
    BY <1>5, <2>1 DEF AtMostOneOwed
  <2>3. closed' = closed
    BY <1>8, <2>2, DebtRead
  <2>4. TicksOut(n)' = TicksOut(n) /\ Ticks(n)' = Ticks(n)
    BY <2>1 DEF TicksOut, Values, Waiting, Ticks
  <2>5. AtMostOneOwed(n)'
    BY <1>5, <2>1, <2>2, <2>4 DEF AtMostOneOwed, AtMostOne
  <2>6. Owing(n)
    BY <2>1 DEF Owing
  <2> QED
    BY <1>1, <1>5, <2>3, <2>5, <2>6 DEF DebtNode
<1>9. CASE NodeAck(n)
  <2>1. /\ acked' = acked /\ TicksOut(n) # {}
        /\ Ticks(n)' = {} /\ TicksOut(n)' = {}
        /\ Acks(n)' = Acks(n) \cup {Len(toEngine[n]) + 1}
    BY <1>5, <1>9, DebtAnswered DEF AtMostOneOwed
  <2>2. acked[n] = 0 /\ AcksOut(n) = {} /\ closed' = closed
    BY <1>5, <1>9, <2>1 DEF AtMostOneOwed, NodeAck
  <2>3. Acks(n) = {}
    BY <2>2, OutIsWaiting
  <2>4. AtMostOneOwed(n)'
    BY <2>1, <2>2, <2>3 DEF AtMostOneOwed, AtMostOne
  <2>5. Owing(n)
    BY <2>1 DEF Owing
  <2> QED
    BY <1>1, <1>5, <2>2, <2>4, <2>5 DEF DebtNode
<1> QED
  BY <1>6, <1>7, <1>8, <1>9 DEF Read, Firmware

LEMMA DebtSession ==
  ASSUME ~DebugOffWhileHeld, TypeOK, BarrierInv, DebtInv,
         NEW n \in Node, Session(n) \/ Misfortune(n)
  PROVE  DebtInv'
<1>1. UNCHANGED <<target, ask, down>>
  BY DEF Session, Misfortune, SetDebug, ClearDebug, StopClose, StopClear, Adopt,
       Crash, Break, Continue, engine
<1>2. ASSUME NEW m \in Node, UNCHANGED <<held, gen>>
      PROVE  Remembered(m) => Remembered(m)'
  BY <1>1, <1>2 DEF Remembered, IsHeld, NotHeld
<1>3. CASE SetDebug(n) \/ ClearDebug(n)
  <2>1. UNCHANGED <<gen, closed, proc, fw, acked, toNode, toEngine>>
    BY <1>3 DEF SetDebug, ClearDebug, slot, bridge, process
  <2>2. held' = held
    BY <1>3 DEF SetDebug, ClearDebug, engine, TypeOK
  <2> QED
    BY <1>1, <1>2, <2>1, <2>2, DebtUntouched, DebtNodeKept DEF DebtInv
<1>4. CASE Crash(n) \/ Break(n) \/ Continue(n)
  <2>1. /\ UNCHANGED <<held, gen, closed, fw, acked, toNode, toEngine>>
        /\ \A m \in Node \ {n} : proc'[m] = proc[m]
        /\ fw[n] = "up" /\ closed[n] => proc'[n] = "gone"
    BY <1>4 DEF Crash, Break, Continue, Running, engine, slot, bridge, TypeOK, DebtInv, DebtNode
  <2>2. \A m \in Node \ {n} : DebtNode(m)'
    BY <1>1, <1>2, <2>1, DebtUntouched, DebtNodeKept DEF DebtInv
  <2>3. DebtKept(n)
    BY <2>1, DebtUntouched
  <2>4. AtMostOneOwed(n) => AtMostOneOwed(n)'
    BY <2>3 DEF AtMostOneOwed, DebtKept, AtMostOne
  <2>5. Owing(n)' => Owing(n)
    BY <2>3 DEF Owing, DebtKept
  <2>6. DebtNode(n)'
    BY <1>1, <1>2, <2>1, <2>4, <2>5 DEF DebtInv, DebtNode
  <2> QED
    BY <2>2, <2>6 DEF DebtInv
<1>5. CASE StopClose(n) \/ StopClear(n)
  <2>1. /\ UNCHANGED <<held, gen, acked, toNode, toEngine>>
        /\ fw'[n] # "up" /\ closed'[n]
        /\ \A m \in Node \ {n} : /\ proc'[m] = proc[m] /\ fw'[m] = fw[m]
                                /\ closed'[m] = closed[m]
    <3>1. CASE StopClose(n)
      <4>1. /\ closed' = [closed EXCEPT ![n] = TRUE] /\ fw' = [fw EXCEPT ![n] = "stopping"]
            /\ proc' = proc /\ UNCHANGED <<held, gen, acked, toNode, toEngine>>
        BY <3>1 DEF StopClose, engine, process
      <4> QED
        BY <4>1 DEF TypeOK
    <3>2. CASE StopClear(n)
      <4>1. closed[n]
        BY <3>2 DEF StopClear, BarrierInv, NodeInv
      <4>2. /\ proc' = [proc EXCEPT ![n] = "gone"] /\ fw' = [fw EXCEPT ![n] = "none"]
            /\ closed' = closed /\ UNCHANGED <<held, gen, acked, toNode, toEngine>>
        BY <3>2 DEF StopClear, engine, bridge
      <4> QED
        BY <4>1, <4>2 DEF TypeOK
    <3> QED
      BY <1>5, <3>1, <3>2
  <2>2. \A m \in Node \ {n} : DebtNode(m)'
    BY <1>1, <1>2, <2>1, DebtUntouched, DebtNodeKept DEF DebtInv
  <2>3. DebtNode(n)'
    BY <1>1, <2>1 DEF DebtInv, DebtNode
  <2> QED
    BY <2>2, <2>3 DEF DebtInv
<1>6. CASE Adopt(n)
  <2>1. /\ held' = held /\ acked'[n] = 0 /\ toNode'[n] = <<>> /\ toEngine'[n] = <<>>
        /\ ~closed'[n]
        /\ \A m \in Node \ {n} :
             /\ gen'[m] = gen[m] /\ closed'[m] = closed[m] /\ acked'[m] = acked[m]
             /\ fw'[m] = fw[m] /\ proc'[m] = proc[m]
             /\ toNode'[m] = toNode[m] /\ toEngine'[m] = toEngine[m]
    BY <1>6 DEF Adopt, engine, TypeOK
  <2>2. \A m \in Node \ {n} : Remembered(m) => Remembered(m)'
    BY <1>1, <2>1 DEF Remembered, IsHeld, NotHeld
  <2>3. \A m \in Node \ {n} : DebtNode(m)'
    BY <1>1, <2>1, <2>2, DebtUntouched, DebtNodeKept DEF DebtInv
  <2>4. Ticks(n)' = {} /\ Acks(n)' = {} /\ TicksOut(n)' = {} /\ AcksOut(n)' = {}
    BY <2>1 DEF Ticks, Acks, TicksOut, AcksOut, Values, Waiting
  <2>5. AtMostOneOwed(n)' /\ ~Owing(n)'
    BY <2>1, <2>4 DEF AtMostOneOwed, Owing, AtMostOne
  <2>6. DebtNode(n)'
    BY <1>1, <2>1, <2>5 DEF DebtInv, DebtNode
  <2> QED
    BY <2>3, <2>6 DEF DebtInv
<1> QED
  BY <1>3, <1>4, <1>5, <1>6 DEF Session, Misfortune

LEMMA DebtNext ==
  ASSUME ~DebugOffWhileHeld, TypeOK, BarrierInv, HeldInv, DebtInv, [Next]_vars
  PROVE  DebtInv'
<1>1. CASE UNCHANGED vars
  <2>1. UNCHANGED <<closed, proc, fw, down, ask, target, gen, held, acked, toNode, toEngine>>
    BY <1>1 DEF vars, engine, slot, bridge, process
  <2>2. \A m \in Node : Remembered(m) => Remembered(m)'
    BY <2>1 DEF Remembered, IsHeld, NotHeld
  <2> QED
    BY <2>1, <2>2, DebtUntouched, DebtNodeKept DEF DebtInv
<1> QED
  BY <1>1, DebtStep, DebtSockets, DebtSession DEF Next

(* The invariant of the two theorems below.                                 *)
LEMMA DebtAlways ==
  ASSUME ~DebugOffWhileHeld
  PROVE  Spec => []DebtInv
<1>1. Init => BarrierInv /\ HeldInv /\ DebtInv
  BY BarrierInvInit DEF Init, HeldInv, HeldNode, IsHeld, NotHeld, DebtInv, DebtNode
<1>2. TypeOK /\ BarrierInv /\ HeldInv /\ DebtInv /\ [Next]_vars
        => BarrierInv' /\ HeldInv' /\ DebtInv'
  BY BarrierInvNext, HeldNext, DebtNext
<1> QED
  BY <1>1, <1>2, TypeCorrect, PTL DEF Spec

(* A node is owed one acknowledgement at a time - one tick in its socket,   *)
(* or one answer in the other, or one its bridge has read - however its     *)
(* ticks are missed, as long as nobody turns debugging off on a held node.  *)
THEOREM OneAckIsOwed ==
  ASSUME ~DebugOffWhileHeld
  PROVE  Spec => []OneAckOwed
<1>1. DebtInv => OneAckOwed
  <2> SUFFICES ASSUME NEW n \in Node, DebtInv, ~closed[n]
               PROVE  /\ AtMostOne(Ticks(n)) /\ AtMostOne(Acks(n))
                      /\ Ticks(n) # {} => Acks(n) = {} /\ acked[n] = 0
                      /\ Acks(n) # {} => acked[n] = 0
    BY DEF OneAckOwed
  <2> QED
    BY OutIsWaiting DEF DebtInv, DebtNode, AtMostOneOwed
<1> QED
  BY <1>1, DebtAlways, PTL

(* No bridge hangs up on a process that is still running, under the same    *)
(* condition: Bridge.read never finds a second acknowledgement.             *)
THEOREM NeverIsCutOff ==
  ASSUME ~DebugOffWhileHeld
  PROVE  Spec => []NeverCutOff
<1>1. DebtInv => NeverCutOff
  BY DEF DebtInv, DebtNode, NeverCutOff
<1> QED
  BY <1>1, DebtAlways, PTL
=============================================================================
