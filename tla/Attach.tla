------------------------------- MODULE Attach -------------------------------
(***************************************************************************)
(* Starting, stopping and replacing the firmware processes of a network.    *)
(*                                                                         *)
(* The store's goroutine runs one verb at a time.  Starting every node is a *)
(* goroutine of its own, and so is each reflash; they report back by asking *)
(* the store for verbs, and wait for the answer.  An engine lets one attach *)
(* in at a time (attachMu), and opening another network closes the engine   *)
(* while an attach may still be starting processes for it.                  *)
(***************************************************************************)
EXTENDS Naturals

CONSTANTS
  Node,         \* the nodes that run firmware
  Reflasher,    \* goroutines Reflash may start
  Target,       \* Target[r]: the node r reflashes
  Sessions,     \* the sets of verbs a session may be asked for, besides reports
  MaxEngines,   \* bound on how many networks are opened
  MaxVerbs      \* bound on how many verbs are asked for

ASSUME AttachAssumption ==
  /\ Target \in [Reflasher -> Node]
  /\ Sessions \subseteq
       SUBSET {"firmware.start", "node.set_firmware", "node.start", "node.stop", "open"}
  /\ {"store", "starter", "nobody"} \cap Reflasher = {}
  /\ MaxEngines \in Nat \ {0}
  /\ MaxVerbs \in Nat

Engine == 1 .. MaxEngines
Thread == {"store", "starter"} \cup Reflasher

VARIABLES
  \* Engine
  closed,     \* closed: Close has run
  owner,      \* who holds attachMu
  slot,       \* Node.Firmware: which process, 0 for nil
  todo,       \* the nodes the attach has still to look at
  booting,    \* the process a worker is bringing up, 0 for none
  reporting,  \* a worker is in the progress callback, waiting for the store
  \* Session
  eng,        \* s.eng
  pc,         \* what each goroutine is doing
  using,      \* the engine it does it to
  node,       \* the node the store's verb is about
  verbs,      \* those this session is asked for
  asked,      \* how many have been
  \* Processes
  live,       \* those that exist
  launched    \* how many have been launched for each node

engineVars == <<closed, owner, slot, todo, booting, reporting>>
attachVars == <<owner, todo, booting, reporting>>
sessionVars == <<eng, pc, using, node, verbs, asked>>
processVars == <<live, launched>>
vars == <<engineVars, sessionVars, processVars>>

Init ==
  /\ closed = [e \in Engine |-> FALSE]
  /\ owner = [e \in Engine |-> "nobody"]
  /\ slot = [e \in Engine |-> [n \in Node |-> 0]]
  /\ todo = [e \in Engine |-> {}]
  /\ booting = [e \in Engine |-> [n \in Node |-> 0]]
  /\ reporting = [e \in Engine |-> FALSE]
  /\ eng = 1
  /\ pc = [t \in Thread |-> IF t = "store" THEN "free" ELSE "off"]
  /\ using = [t \in Thread |-> 1]
  /\ node \in Node
  /\ verbs \in Sessions
  /\ asked = 0
  /\ live = {}
  /\ launched = [n \in Node |-> 0]

Process(e, n, id) == [eng |-> e, node |-> n, id |-> id]

Goto(t, label) == pc' = [pc EXCEPT ![t] = label]

-----------------------------------------------------------------------------
(* Verbs, each run to its end on the store's goroutine unless it says so.   *)

Asks(verb) ==
  /\ verb \in verbs
  /\ asked < MaxVerbs
  /\ asked' = asked + 1
  /\ UNCHANGED verbs
  /\ pc["store"] = "free"

(* startFirmware: one at a time, for the engine there is now. *)
FirmwareStart ==
  /\ Asks("firmware.start")
  /\ pc["starter"] = "off"
  /\ Goto("starter", "announce")
  /\ using' = [using EXCEPT !["starter"] = eng]
  /\ UNCHANGED <<engineVars, eng, node, processVars>>

(* node.set_firmware: Reflash goes on in a goroutine of its own. *)
SetFirmware(r) ==
  /\ Asks("node.set_firmware")
  /\ pc[r] = "off"
  /\ Goto(r, "stopping?")
  /\ UNCHANGED <<engineVars, eng, using, node, processVars>>

(* node.stop and node.start do their work on the store's own goroutine. *)
NodeStop(n) ==
  /\ Asks("node.stop")
  /\ slot[eng][n] # 0
  /\ Goto("store", "stop")
  /\ node' = n
  /\ UNCHANGED <<engineVars, eng, using, processVars>>

NodeStart(n) ==
  /\ Asks("node.start")
  /\ slot[eng][n] = 0
  /\ Goto("store", "attach")
  /\ using' = [using EXCEPT !["store"] = eng]
  /\ UNCHANGED <<engineVars, eng, node, processVars>>

(* Opening another network closes the engine of this one: first it is       *)
(* marked, then every process it holds is stopped.                          *)
Open ==
  /\ Asks("open")
  /\ eng < MaxEngines
  /\ closed' = [closed EXCEPT ![eng] = TRUE]
  /\ Goto("store", "closing")
  /\ UNCHANGED <<attachVars, slot, eng, using, node, processVars>>

OpenNext ==
  /\ pc["store"] = "closing"
  /\ live' = live \ {Process(eng, n, slot[eng][n]) : n \in Node}
  /\ eng' = eng + 1
  /\ Goto("store", "free")
  /\ UNCHANGED <<engineVars, using, node, verbs, asked, launched>>

-----------------------------------------------------------------------------
(* What the goroutines ask of the store, and wait for.                      *)

NextLabel(t) ==
  CASE pc[t] = "announce"  -> "attach"     \* job.progress, before the attach
    [] pc[t] = "stopping?" -> "stop"       \* nodes.stats, "stopping"
    [] pc[t] = "starting?" -> "start"      \* nodes.stats, "starting"
    [] pc[t] = "told"      -> "off"        \* job.done or node.reflashed

Answered(t) ==
  /\ pc["store"] = "free"
  /\ pc[t] \in {"announce", "stopping?", "starting?", "told"}
  /\ Goto(t, NextLabel(t))
  /\ UNCHANGED <<engineVars, eng, using, node, verbs, asked, processVars>>

ProgressAnswered(e) ==
  /\ pc["store"] = "free"
  /\ reporting[e]
  /\ reporting' = [reporting EXCEPT ![e] = FALSE]
  /\ UNCHANGED <<closed, owner, slot, todo, booting, sessionVars, processVars>>

-----------------------------------------------------------------------------
(* stopNode and startNode.                                                  *)

NodeOf(t) == IF t = "store" THEN node ELSE Target[t]

AfterStop(t) == IF t = "store" THEN "free" ELSE "starting?"

(* The process is closed, which takes as long as it takes to exit. *)
StopClose(t) ==
  /\ pc[t] = "stop"
  /\ using' = [using EXCEPT ![t] = eng]
  /\ IF slot[eng][NodeOf(t)] = 0
       THEN Goto(t, AfterStop(t)) /\ UNCHANGED live
       ELSE /\ Goto(t, "clear")
            /\ live' = live \ {Process(eng, NodeOf(t), slot[eng][NodeOf(t)])}
  /\ UNCHANGED <<engineVars, eng, node, verbs, asked, launched>>

(* Only then is the slot emptied, whatever it holds by then. *)
StopClear(t) ==
  /\ pc[t] = "clear"
  /\ slot' = [slot EXCEPT ![using[t]][NodeOf(t)] = 0]
  /\ Goto(t, AfterStop(t))
  /\ UNCHANGED <<closed, attachVars, eng, using, node, verbs, asked, processVars>>

(* startNode refuses a node that is running, and otherwise is an attach of  *)
(* the whole mesh.                                                          *)
StartNode(t) ==
  /\ pc[t] = "start"
  /\ Goto(t, IF slot[eng][NodeOf(t)] # 0 THEN "told" ELSE "attach")
  /\ using' = [using EXCEPT ![t] = eng]
  /\ UNCHANGED <<engineVars, eng, node, verbs, asked, processVars>>

-----------------------------------------------------------------------------
(* AttachNativeProgress.                                                    *)

AfterAttach(t) == IF t = "store" THEN "free" ELSE "told"

(* A slip the runs must catch: nobody waits for attachMu. *)
AttachUnlocked(t) ==
  LET e == using[t]
  IN  /\ pc[t] = "attach"
      /\ IF closed[e]
           THEN Goto(t, AfterAttach(t)) /\ UNCHANGED <<owner, todo>>
           ELSE /\ Goto(t, "attaching")
                /\ owner' = [owner EXCEPT ![e] = t]
                /\ todo' = [todo EXCEPT ![e] = Node]
      /\ UNCHANGED <<closed, slot, booting, reporting, eng, using, node, verbs, asked, processVars>>

(* attachMu is taken, and an engine already closed is left alone. *)
AttachLock(t) ==
  LET e == using[t]
  IN  /\ pc[t] = "attach"
      /\ owner[e] = "nobody"
      /\ IF closed[e]
           THEN Goto(t, AfterAttach(t)) /\ UNCHANGED <<owner, todo>>
           ELSE /\ Goto(t, "attaching")
                /\ owner' = [owner EXCEPT ![e] = t]
                /\ todo' = [todo EXCEPT ![e] = Node]
      /\ UNCHANGED <<closed, slot, booting, reporting, eng, using, node, verbs, asked, processVars>>

(* Every worker that finishes a node reports it.  startFirmware's callback  *)
(* asks the store for a verb at some of the counts; the next worker to      *)
(* finish waits for that callback to return.                                *)
Reports(e) ==
  /\ ~reporting[e]
  /\ IF owner[e] # "starter" THEN UNCHANGED reporting
     ELSE \E asks \in BOOLEAN : reporting' = [reporting EXCEPT ![e] = asks]

(* A node that is running when its turn comes is passed over.               *)
Skip(e, n) ==
  /\ n \in todo[e]
  /\ slot[e][n] # 0
  /\ todo' = [todo EXCEPT ![e] = @ \ {n}]
  /\ UNCHANGED <<closed, owner, slot, booting, reporting, sessionVars, processVars>>

(* A worker takes the next node and launches its process.                   *)
Boot(e, n) ==
  /\ n \in todo[e]
  /\ slot[e][n] = 0
  /\ ~closed[e]
  /\ todo' = [todo EXCEPT ![e] = @ \ {n}]
  /\ launched' = [launched EXCEPT ![n] = @ + 1]
  /\ booting' = [booting EXCEPT ![e][n] = launched[n] + 1]
  /\ live' = live \cup {Process(e, n, launched[n] + 1)}
  /\ UNCHANGED <<closed, owner, slot, reporting, sessionVars>>

(* The engine went away before this node's turn came. *)
BootRefused(e, n) ==
  /\ n \in todo[e]
  /\ slot[e][n] = 0
  /\ closed[e]
  /\ todo' = [todo EXCEPT ![e] = @ \ {n}]
  /\ Reports(e)
  /\ UNCHANGED <<closed, owner, slot, booting, sessionVars, processVars>>

(* It never connected, or did not reach its boot offset: it is closed. *)
BootFails(e, n) ==
  /\ booting[e][n] # 0
  /\ Reports(e)
  /\ booting' = [booting EXCEPT ![e][n] = 0]
  /\ live' = live \ {Process(e, n, booting[e][n])}
  /\ UNCHANGED <<closed, owner, slot, todo, sessionVars, launched>>

(* A slip: the node is handed over without asking whether the engine has    *)
(* been closed.                                                             *)
AdoptUnchecked(e, n) ==
  /\ booting[e][n] # 0
  /\ Reports(e)
  /\ booting' = [booting EXCEPT ![e][n] = 0]
  /\ slot' = [slot EXCEPT ![e][n] = booting[e][n]]
  /\ UNCHANGED <<closed, owner, todo, sessionVars, processVars>>

(* adopt: handed to the engine in the same critical section that asks       *)
(* whether it has been closed, and closed again if it has.                  *)
Adopt(e, n) ==
  /\ booting[e][n] # 0
  /\ Reports(e)
  /\ booting' = [booting EXCEPT ![e][n] = 0]
  /\ IF closed[e]
       THEN live' = live \ {Process(e, n, booting[e][n])} /\ UNCHANGED slot
       ELSE slot' = [slot EXCEPT ![e][n] = booting[e][n]] /\ UNCHANGED live
  /\ UNCHANGED <<closed, owner, todo, sessionVars, launched>>

(* A slip: attachMu is never given back.                                    *)
AttachReturnLocked(t) ==
  LET e == using[t]
  IN  /\ pc[t] = "attaching"
      /\ todo[e] = {}
      /\ \A n \in Node : booting[e][n] = 0
      /\ ~reporting[e]
      /\ Goto(t, AfterAttach(t))
      /\ UNCHANGED <<engineVars, eng, using, node, verbs, asked, processVars>>

(* A slip: a worker is counted as done before it has reported, so the lock  *)
(* is given back in the middle of the last report.                          *)
AttachReturnUnreported(t) ==
  LET e == using[t]
  IN  /\ pc[t] = "attaching"
      /\ todo[e] = {}
      /\ \A n \in Node : booting[e][n] = 0
      /\ owner' = [owner EXCEPT ![e] = "nobody"]
      /\ Goto(t, AfterAttach(t))
      /\ UNCHANGED <<closed, slot, todo, booting, reporting, eng, using, node, verbs, asked,
                     processVars>>

(* Every worker is done, and the last report has been answered.             *)
AttachReturn(t) ==
  LET e == using[t]
  IN  /\ pc[t] = "attaching"
      /\ todo[e] = {}
      /\ \A n \in Node : booting[e][n] = 0
      /\ ~reporting[e]
      /\ owner' = [owner EXCEPT ![e] = "nobody"]
      /\ Goto(t, AfterAttach(t))
      /\ UNCHANGED <<closed, slot, todo, booting, reporting, eng, using, node, verbs, asked,
                     processVars>>

-----------------------------------------------------------------------------
Verbs ==
  \/ FirmwareStart \/ Open
  \/ \E r \in Reflasher : SetFirmware(r)
  \/ \E n \in Node : NodeStop(n) \/ NodeStart(n)

Goroutine(t) ==
  \/ Answered(t) \/ StopClose(t) \/ StopClear(t) \/ StartNode(t)
  \/ AttachLock(t) \/ AttachReturn(t)

Worker(e, n) == Skip(e, n) \/ Boot(e, n) \/ BootRefused(e, n) \/ BootFails(e, n) \/ Adopt(e, n)

Next ==
  \/ Verbs \/ OpenNext
  \/ \E t \in Thread : Goroutine(t)
  \/ \E e \in Engine : ProgressAnswered(e) \/ \E n \in Node : Worker(e, n)

Spec == Init /\ [][Next]_vars

(* Goroutines are scheduled, a mutex is not withheld for ever from one that *)
(* waits for it, and a store that is free takes whichever verb is waiting   *)
(* in its turn.  Nothing obliges anybody to ask for a verb.                 *)
Fairness ==
  /\ WF_vars(OpenNext)
  /\ \A t \in Thread : SF_vars(Answered(t)) /\ SF_vars(AttachLock(t))
  /\ \A t \in Thread : WF_vars(StopClose(t) \/ StopClear(t) \/ StartNode(t) \/ AttachReturn(t))
  /\ \A e \in Engine : SF_vars(ProgressAnswered(e))
  /\ \A e \in Engine, n \in Node : WF_vars(Worker(e, n))

FairSpec == Spec /\ Fairness

-----------------------------------------------------------------------------
(* Only startFirmware's attach reports, and it holds attachMu until its     *)
(* last report is over.                                                     *)
ReportsInAttach == \A e \in Engine : reporting[e] => owner[e] = "starter"

(* The types, with the two relations the others rest on: a slot never holds *)
(* a process that was not launched, and reports stay within their attach.   *)
TypeOK ==
  /\ closed \in [Engine -> BOOLEAN]
  /\ owner \in [Engine -> Thread \cup {"nobody"}]
  /\ slot \in [Engine -> [Node -> Nat]]
  /\ todo \in [Engine -> SUBSET Node]
  /\ booting \in [Engine -> [Node -> Nat]]
  /\ reporting \in [Engine -> BOOLEAN]
  /\ eng \in Engine
  /\ pc \in [Thread -> {"free", "off", "announce", "stopping?", "stop", "clear",
                        "starting?", "start", "attach", "attaching", "told", "closing"}]
  /\ using \in [Thread -> Engine]
  /\ node \in Node
  /\ verbs \in Sessions
  /\ asked \in 0 .. MaxVerbs
  /\ live \subseteq [eng : Engine, node : Node, id : Nat]
  /\ launched \in [Node -> Nat]
  /\ \A e \in Engine, n \in Node : {slot[e][n], booting[e][n]} \subseteq 0 .. launched[n]
  /\ ReportsInAttach

(* No two processes of one network run on one node's storage.               *)
OneProcessPerNode ==
  \A p, q \in live : p.eng = q.eng /\ p.node = q.node => p = q

(* Every process has somebody who will stop it: the attach that is bringing *)
(* it up, or the engine whose slot it is in, which is not closed or is only *)
(* now being closed.                                                        *)
NoOrphan ==
  \A p \in live :
    \/ booting[p.eng][p.node] = p.id
    \/ /\ slot[p.eng][p.node] = p.id
       /\ closed[p.eng] => p.eng = eng /\ pc["store"] = "closing"

(* An attach that was asked for comes to an end, and its caller goes on.    *)
AttachEnds ==
  \A t \in Thread : pc[t] \in {"attach", "attaching"} ~> pc[t] \notin {"attach", "attaching"}

(* A network that has been closed is left with no process, even those an    *)
(* attach was still starting for it.                                        *)
ClosedIsEmptied ==
  \A e \in Engine : closed[e] ~> ~\E p \in live : p.eng = e

(* A verb does not hold the store for ever.                                 *)
StoreAnswers == pc["store"] # "free" ~> pc["store"] = "free"
=============================================================================
