---------------------------- MODULE AttachProofs ----------------------------
(***************************************************************************)
(* What is proved of Attach for any number of nodes, networks, reflashes    *)
(* and verbs: its types, and - when no two goroutines stop one node - that  *)
(* every process has somebody who will stop it, and that no node has two.   *)
(***************************************************************************)
EXTENDS Attach, TLAPS

(* Nobody stops a node that somebody else is stopping: each node has one    *)
(* goroutine to reflash it, if any, and no session that reflashes stops     *)
(* nodes too.  What stops and starts beside that is left open.              *)
StopsApart ==
  /\ \A r, q \in Reflasher : Target[r] = Target[q] => r = q
  /\ \A S \in Sessions : ~({"node.stop", "node.set_firmware"} \subseteq S)

-----------------------------------------------------------------------------
(* The inductive invariant.                                                 *)

(* Each goroutine is where its own code can be; the store opens a network   *)
(* only if there is one to open.                                            *)
Places ==
  /\ pc["store"] \in {"free", "stop", "clear", "attach", "attaching", "closing"}
  /\ pc["starter"] \in {"off", "announce", "attach", "attaching", "told"}
  /\ \A r \in Reflasher : pc[r] \notin {"free", "closing", "announce"}
  /\ pc["store"] = "closing" => eng < MaxEngines

(* Nothing is booted but by an attach, one attach at a time. *)
Locked ==
  \A e \in Engine :
    owner[e] = "nobody" => todo[e] = {} /\ \A n \in Node : booting[e][n] = 0

(* A node that is being booted has no process in its slot, and its turn     *)
(* does not come again.                                                     *)
Booting ==
  \A e \in Engine, n \in Node :
    booting[e][n] # 0 => slot[e][n] = 0 /\ n \notin todo[e]

(* A process has a number of its own. *)
Numbered == \A p \in live : p.id \in 1 .. launched[p.node]

(* Whoever stops a node was asked to. *)
Asked ==
  /\ pc["store"] \in {"stop", "clear"} => "node.stop" \in verbs
  /\ \A r \in Reflasher : pc[r] # "off" => "node.set_firmware" \in verbs

(* Between the end of a process and the emptying of its slot, the slot      *)
(* holds that process still: nobody has put another there.                  *)
Emptying ==
  \A t \in Thread : pc[t] = "clear" =>
    /\ slot[using[t]][NodeOf(t)] # 0
    /\ Process(using[t], NodeOf(t), slot[using[t]][NodeOf(t)]) \notin live

AttachInv == Locked /\ Booting /\ Numbered /\ Asked /\ Emptying /\ NoOrphan

-----------------------------------------------------------------------------
(* Frames: what each kind of step leaves alone.                             *)

(* A goroutine that moves moves itself alone. *)
LEMMA GotoFrame ==
  ASSUME TypeOK, NEW t \in Thread, NEW label, Goto(t, label)
  PROVE  /\ pc'[t] = label
         /\ \A u \in Thread \ {t} : pc'[u] = pc[u]
         /\ DOMAIN pc' = Thread
  BY DEF TypeOK, Goto

LEMMA Threads ==
  /\ "store" \in Thread /\ "starter" \in Thread /\ Reflasher \subseteq Thread
  /\ "store" \notin Reflasher /\ "starter" \notin Reflasher /\ "nobody" \notin Thread
  /\ \A t \in Thread : t = "store" \/ t = "starter" \/ t \in Reflasher
BY AttachAssumption DEF Thread

(* What a verb does as it begins: the engines, their workers and the        *)
(* processes go on as they were; at most the engine in use is marked closed.*)
LEMMA VerbFrame ==
  ASSUME Verbs
  PROVE  /\ UNCHANGED <<attachVars, slot, eng, verbs, processVars>>
         /\ pc["store"] = "free"
         /\ asked' = asked + 1 /\ asked < MaxVerbs
<1>1. CASE FirmwareStart
  BY <1>1 DEF FirmwareStart, Asks, engineVars, attachVars
<1>2. CASE Open
  BY <1>2 DEF Open, Asks
<1>3. ASSUME NEW r \in Reflasher, SetFirmware(r)
      PROVE  UNCHANGED engineVars /\ UNCHANGED <<eng, verbs, processVars>>
             /\ pc["store"] = "free" /\ asked' = asked + 1 /\ asked < MaxVerbs
  BY <1>3 DEF SetFirmware, Asks
<1>4. ASSUME NEW n \in Node, NodeStop(n) \/ NodeStart(n)
      PROVE  UNCHANGED engineVars /\ UNCHANGED <<eng, verbs, processVars>>
             /\ pc["store"] = "free" /\ asked' = asked + 1 /\ asked < MaxVerbs
  BY <1>4 DEF NodeStop, NodeStart, Asks
<1> QED
  BY <1>1, <1>2, <1>3, <1>4 DEF Verbs, engineVars, attachVars

(* What a goroutine's step leaves alone. *)
LEMMA GoroutineFrame ==
  ASSUME NEW t \in Thread, Goroutine(t)
  PROVE  UNCHANGED <<closed, booting, reporting, eng, node, verbs, asked, launched>>
<1>1. CASE Answered(t) \/ StopClose(t) \/ StopClear(t) \/ StartNode(t)
  BY <1>1 DEF Answered, StopClose, StopClear, StartNode, engineVars, attachVars, processVars
<1>2. CASE AttachLock(t) \/ AttachReturn(t)
  BY <1>2 DEF AttachLock, AttachReturn, processVars
<1> QED
  BY <1>1, <1>2 DEF Goroutine

(* What a worker's step leaves alone. *)
LEMMA WorkerFrame ==
  ASSUME NEW e \in Engine, NEW n \in Node, Worker(e, n)
  PROVE  UNCHANGED <<closed, owner, sessionVars>>
  BY DEF Worker, Skip, Boot, BootRefused, BootFails, Adopt, processVars

-----------------------------------------------------------------------------
(* Types.                                                                   *)

(* Only a worker of startFirmware's attach sets it reporting, and the lock  *)
(* is neither taken nor given back while it does.                           *)
LEMMA ReportsStay ==
  ASSUME TypeOK, [Next]_vars
  PROVE  ReportsInAttach'
<1>1. /\ owner \in [Engine -> Thread \cup {"nobody"}] /\ reporting \in [Engine -> BOOLEAN]
      /\ \A e \in Engine : reporting[e] => owner[e] = "starter"
  BY DEF TypeOK, ReportsInAttach
<1>2. CASE UNCHANGED <<owner, reporting>>
  BY <1>1, <1>2 DEF ReportsInAttach
<1>3. ASSUME NEW t \in Thread, AttachLock(t) \/ AttachReturn(t)
      PROVE  ReportsInAttach'
  <2>1. using[t] \in Engine
    BY DEF TypeOK
  <2>2. owner' = owner \/ \E who : owner' = [owner EXCEPT ![using[t]] = who]
    BY <1>3 DEF AttachLock, AttachReturn
  <2>3. reporting' = reporting /\ (~reporting[using[t]] \/ owner' = owner)
    BY <1>1, <1>3, <2>1 DEF AttachLock, AttachReturn
  <2> QED
    BY <1>1, <2>1, <2>2, <2>3 DEF ReportsInAttach
<1>4. ASSUME NEW e \in Engine, NEW n \in Node, Worker(e, n)
      PROVE  ReportsInAttach'
  <2>1. owner' = owner
    BY <1>4, WorkerFrame
  <2>2. reporting' = reporting \/ Reports(e)
    BY <1>4 DEF Worker, Skip, Boot, BootRefused, BootFails, Adopt
  <2>3. CASE Reports(e)
    <3>1. \/ reporting' = reporting
          \/ owner[e] = "starter" /\ \E asks \in BOOLEAN : reporting' = [reporting EXCEPT ![e] = asks]
      BY <2>3 DEF Reports
    <3> QED
      BY <1>1, <2>1, <3>1 DEF ReportsInAttach
  <2> QED
    BY <1>1, <2>1, <2>2, <2>3 DEF ReportsInAttach
<1>5. ASSUME NEW e \in Engine, ProgressAnswered(e)
      PROVE  ReportsInAttach'
  BY <1>1, <1>5 DEF ProgressAnswered, ReportsInAttach
<1>6. ASSUME NEW t \in Thread, Goroutine(t), ~(AttachLock(t) \/ AttachReturn(t))
      PROVE  UNCHANGED <<owner, reporting>>
  BY <1>6 DEF Goroutine, Answered, StopClose, StopClear, StartNode, engineVars, attachVars
<1>7. Verbs \/ OpenNext \/ UNCHANGED vars => UNCHANGED <<owner, reporting>>
  BY VerbFrame DEF OpenNext, attachVars, engineVars, vars
<1> QED
  BY <1>2, <1>3, <1>4, <1>5, <1>6, <1>7 DEF Next

LEMMA TypesVerb ==
  ASSUME TypeOK, Places, Verbs
  PROVE  TypeOK' /\ Places'
<1>1. /\ UNCHANGED <<owner, todo, booting, reporting, slot, eng, verbs, live, launched>>
      /\ pc["store"] = "free" /\ asked' \in 0 .. MaxVerbs
  <2>1. asked' \in 0 .. MaxVerbs
    BY VerbFrame, AttachAssumption DEF TypeOK
  <2> QED
    BY <2>1, VerbFrame DEF attachVars, processVars
<1>2. closed' \in [Engine -> BOOLEAN]
  <2>1. closed' = closed \/ closed' = [closed EXCEPT ![eng] = TRUE]
    BY DEF Verbs, FirmwareStart, SetFirmware, NodeStop, NodeStart, Open, engineVars
  <2> QED
    BY <2>1 DEF TypeOK
<1>3. using' \in [Thread -> Engine] /\ node' \in Node
  <2>1. using' = using \/ \E u \in Thread : using' = [using EXCEPT ![u] = eng]
    BY Threads DEF Verbs, FirmwareStart, SetFirmware, NodeStop, NodeStart, Open
  <2>2. node' \in {node} \cup Node
    BY DEF Verbs, FirmwareStart, SetFirmware, NodeStop, NodeStart, Open
  <2> QED
    BY <2>1, <2>2 DEF TypeOK
<1>4. /\ pc' \in [Thread -> {"free", "off", "announce", "stopping?", "stop", "clear",
                             "starting?", "start", "attach", "attaching", "told", "closing"}]
      /\ Places'
  <2>1. CASE FirmwareStart
    BY <2>1, <1>1, Threads DEF FirmwareStart, Goto, TypeOK, Places
  <2>2. ASSUME NEW r \in Reflasher, SetFirmware(r)
        PROVE  <1>4!:
    BY <2>2, <1>1, Threads DEF SetFirmware, Goto, TypeOK, Places
  <2>3. ASSUME NEW n \in Node, NodeStop(n) \/ NodeStart(n)
        PROVE  <1>4!:
    BY <2>3, <1>1, Threads, ZenonT(40) DEF NodeStop, NodeStart, Goto, TypeOK, Places
  <2>4. CASE Open
    BY <2>4, <1>1, Threads DEF Open, Goto, TypeOK, Places
  <2> QED
    BY <2>1, <2>2, <2>3, <2>4 DEF Verbs
<1>5. ReportsInAttach'
  BY ReportsStay DEF Next
<1> QED
  BY <1>1, <1>2, <1>3, <1>4, <1>5 DEF TypeOK

LEMMA TypesOpenNext ==
  ASSUME TypeOK, Places, OpenNext
  PROVE  TypeOK' /\ Places'
<1>1. UNCHANGED <<closed, owner, slot, todo, booting, reporting, using, node, verbs, asked, launched>>
  BY DEF OpenNext, engineVars
<1>2. eng' \in Engine
  BY AttachAssumption DEF OpenNext, Places, TypeOK, Engine
<1>3. pc' = [pc EXCEPT !["store"] = "free"] /\ live' \subseteq live
  BY DEF OpenNext, Goto
<1>4. /\ pc' \in [Thread -> {"free", "off", "announce", "stopping?", "stop", "clear",
                             "starting?", "start", "attach", "attaching", "told", "closing"}]
      /\ Places'
  BY <1>3, Threads DEF TypeOK, Places
<1>5. ReportsInAttach'
  BY ReportsStay DEF Next
<1> QED
  BY <1>1, <1>2, <1>3, <1>4, <1>5 DEF TypeOK

LEMMA TypesGoroutine ==
  ASSUME TypeOK, Places, NEW t \in Thread, Goroutine(t)
  PROVE  TypeOK' /\ Places'
<1>1. UNCHANGED <<closed, booting, reporting, eng, node, verbs, asked, launched>>
  BY GoroutineFrame
<1>2. NodeOf(t) \in Node \/ t = "starter"
  BY Threads, AttachAssumption DEF NodeOf, TypeOK
<1>3. /\ pc' \in [Thread -> {"free", "off", "announce", "stopping?", "stop", "clear",
                             "starting?", "start", "attach", "attaching", "told", "closing"}]
      /\ Places'
  <2>1. CASE Answered(t)
    <3>1. pc[t] \in {"announce", "stopping?", "starting?", "told"} /\ Goto(t, NextLabel(t))
      BY <2>1 DEF Answered
    <3>2. t # "store"
      BY <3>1 DEF Places
    <3>3. NextLabel(t) = IF pc[t] = "announce" THEN "attach"
                         ELSE IF pc[t] = "stopping?" THEN "stop"
                         ELSE IF pc[t] = "starting?" THEN "start" ELSE "off"
      BY <3>1 DEF NextLabel
    <3>4. t = "starter" => NextLabel(t) \in {"attach", "off"}
      BY <3>1, <3>3 DEF Places
    <3> QED
      BY <1>1, <3>1, <3>2, <3>3, <3>4, Threads DEF Goto, TypeOK, Places
  <2>2. CASE StopClose(t) \/ StopClear(t)
    <3>1. /\ t # "starter"
          /\ \E label \in {"clear", AfterStop(t)} : Goto(t, label)
      BY <2>2 DEF StopClose, StopClear, Places
    <3>2. AfterStop(t) = IF t = "store" THEN "free" ELSE "starting?"
      BY DEF AfterStop
    <3> QED
      BY <1>1, <3>1, <3>2, Threads DEF Goto, TypeOK, Places
  <2>3. CASE StartNode(t)
    <3>1. /\ t \in Reflasher
          /\ \E label \in {"told", "attach"} : Goto(t, label)
      BY <2>3, Threads DEF StartNode, Places
    <3> QED
      BY <1>1, <3>1, Threads DEF Goto, TypeOK, Places
  <2>4. CASE AttachLock(t) \/ AttachReturn(t)
    <3>1. /\ pc[t] \in {"attach", "attaching"}
          /\ \E label \in {"attaching", AfterAttach(t)} : Goto(t, label)
      BY <2>4 DEF AttachLock, AttachReturn
    <3>2. AfterAttach(t) = IF t = "store" THEN "free" ELSE "told"
      BY DEF AfterAttach
    <3> QED
      BY <1>1, <3>1, <3>2, Threads DEF Goto, TypeOK, Places
  <2> QED
    BY <2>1, <2>2, <2>3, <2>4 DEF Goroutine
<1>4. owner' \in [Engine -> Thread \cup {"nobody"}] /\ todo' \in [Engine -> SUBSET Node]
  BY DEF Goroutine, Answered, StopClose, StopClear, StartNode, AttachLock, AttachReturn,
       engineVars, attachVars, TypeOK
<1>5. using' \in [Thread -> Engine] /\ live' \subseteq live
  <2>1. CASE Answered(t) \/ AttachLock(t) \/ AttachReturn(t) \/ StopClear(t)
    BY <2>1 DEF Answered, AttachLock, AttachReturn, StopClear, processVars, TypeOK
  <2>2. CASE StopClose(t)
    BY <2>2 DEF StopClose, TypeOK
  <2>3. CASE StartNode(t)
    BY <2>3 DEF StartNode, processVars, TypeOK
  <2> QED
    BY <2>1, <2>2, <2>3 DEF Goroutine
<1>6. /\ slot' \in [Engine -> [Node -> Nat]]
      /\ \A e \in Engine, n \in Node : slot'[e][n] \in {0, slot[e][n]}
  <2>1. CASE slot' = slot
    BY <2>1 DEF TypeOK
  <2>2. CASE StopClear(t)
    <3>1. slot' = [slot EXCEPT ![using[t]][NodeOf(t)] = 0] /\ using[t] \in Engine
      BY <2>2 DEF StopClear, TypeOK
    <3> QED
      BY <3>1 DEF TypeOK
  <2> QED
    BY <2>1, <2>2 DEF Goroutine, Answered, StopClose, StartNode, AttachLock, AttachReturn,
         engineVars
<1>7. \A e \in Engine, n \in Node : {slot'[e][n], booting'[e][n]} \subseteq 0 .. launched'[n]
  <2> SUFFICES ASSUME NEW e \in Engine, NEW n \in Node
               PROVE  {slot'[e][n], booting'[e][n]} \subseteq 0 .. launched'[n]
    OBVIOUS
  <2>1. {slot[e][n], booting[e][n]} \subseteq 0 .. launched[n] /\ launched[n] \in Nat
    BY DEF TypeOK
  <2>2. slot'[e][n] \in {0, slot[e][n]}
    BY <1>6
  <2> QED
    BY <1>1, <2>1, <2>2
<1>8. ReportsInAttach'
  BY ReportsStay DEF Next
<1> QED
  BY <1>1, <1>3, <1>4, <1>5, <1>6, <1>7, <1>8 DEF TypeOK

LEMMA TypesWorker ==
  ASSUME TypeOK, NEW e \in Engine, NEW n \in Node, Worker(e, n)
  PROVE  TypeOK'
<1>1. UNCHANGED <<closed, owner, eng, pc, using, node, verbs, asked>>
  BY WorkerFrame DEF sessionVars
<1>2. /\ todo' \in [Engine -> SUBSET Node]
      /\ reporting' \in [Engine -> BOOLEAN]
  <2>1. todo' = todo \/ todo' = [todo EXCEPT ![e] = @ \ {n}]
    BY DEF Worker, Skip, Boot, BootRefused, BootFails, Adopt
  <2>2. reporting' = reporting \/ Reports(e)
    BY DEF Worker, Skip, Boot, BootRefused, BootFails, Adopt
  <2>3. reporting' = reporting \/ \E asks \in BOOLEAN : reporting' = [reporting EXCEPT ![e] = asks]
    <3>1. CASE reporting' = reporting
      BY <3>1
    <3>2. CASE Reports(e)
      BY <3>2 DEF Reports
    <3> QED
      BY <2>2, <3>1, <3>2
  <2>4. reporting' \in [Engine -> BOOLEAN]
    <3>1. reporting \in [Engine -> BOOLEAN]
      BY DEF TypeOK
    <3>2. ASSUME NEW asks \in BOOLEAN, reporting' = [reporting EXCEPT ![e] = asks]
          PROVE  reporting' \in [Engine -> BOOLEAN]
      BY <3>1, <3>2
    <3> QED
      BY <2>3, <3>1, <3>2
  <2>5. todo' \in [Engine -> SUBSET Node]
    BY <2>1 DEF TypeOK
  <2> QED
    BY <2>4, <2>5
<1>6. ReportsInAttach'
  BY ReportsStay DEF Next
<1>3. launched \in [Node -> Nat] /\ launched[n] \in Nat
  BY DEF TypeOK
<1>4. CASE Boot(e, n)
  <2>1. /\ launched' = [launched EXCEPT ![n] = @ + 1]
        /\ booting' = [booting EXCEPT ![e][n] = launched[n] + 1]
        /\ live' = live \cup {Process(e, n, launched[n] + 1)}
        /\ slot' = slot
    BY <1>4 DEF Boot
  <2>2. /\ launched' \in [Node -> Nat] /\ launched'[n] = launched[n] + 1
        /\ \A m \in Node \ {n} : launched'[m] = launched[m]
    BY <1>3, <2>1
  <2>3. /\ booting' \in [Engine -> [Node -> Nat]]
        /\ \A d \in Engine, m \in Node :
             booting'[d][m] = IF d = e /\ m = n THEN launched[n] + 1 ELSE booting[d][m]
    BY <1>3, <2>1 DEF TypeOK
  <2>4. Process(e, n, launched[n] + 1) \in [eng : Engine, node : Node, id : Nat]
    BY <1>3 DEF Process
  <2>5. ASSUME NEW d \in Engine, NEW m \in Node
        PROVE  {slot'[d][m], booting'[d][m]} \subseteq 0 .. launched'[m]
    <3>1. {slot[d][m], booting[d][m]} \subseteq 0 .. launched[m] /\ launched[m] \in Nat
      BY DEF TypeOK
    <3>2. launched'[m] \in {launched[m], launched[m] + 1}
      BY <2>2
    <3>3. booting'[d][m] \in 0 .. launched'[m]
      BY <1>3, <2>2, <2>3, <3>1, <3>2
    <3> QED
      BY <2>1, <3>1, <3>2, <3>3
  <2> QED
    BY <1>1, <1>2, <1>6, <2>1, <2>2, <2>3, <2>4, <2>5 DEF TypeOK
<1>5. CASE ~Boot(e, n)
  <2>1. /\ launched' = launched /\ live' \subseteq live
        /\ booting' = booting \/ booting' = [booting EXCEPT ![e][n] = 0]
        /\ slot' = slot \/ slot' = [slot EXCEPT ![e][n] = booting[e][n]]
    BY <1>5 DEF Worker, Skip, BootRefused, BootFails, Adopt, processVars
  <2>2. /\ booting' \in [Engine -> [Node -> Nat]]
        /\ \A d \in Engine, m \in Node : booting'[d][m] \in {0, booting[d][m]}
    <3>1. CASE booting' = booting
      BY <3>1 DEF TypeOK
    <3>2. CASE booting' = [booting EXCEPT ![e][n] = 0]
      <4>1. booting \in [Engine -> [Node -> Nat]] /\ 0 \in Nat
        BY DEF TypeOK
      <4>2. booting' \in [Engine -> [Node -> Nat]]
        BY <3>2, <4>1
      <4>3. \A d \in Engine, m \in Node : booting'[d][m] = IF d = e /\ m = n THEN 0 ELSE booting[d][m]
        BY <3>2, <4>1
      <4> QED
        BY <4>2, <4>3
    <3> QED
      BY <2>1, <3>1, <3>2
  <2>3. /\ slot' \in [Engine -> [Node -> Nat]]
        /\ \A d \in Engine, m \in Node : slot'[d][m] \in {booting[d][m], slot[d][m]}
    <3>1. booting[e][n] \in Nat
      BY DEF TypeOK
    <3>2. CASE slot' = slot
      BY <3>2 DEF TypeOK
    <3>3. CASE slot' = [slot EXCEPT ![e][n] = booting[e][n]]
      <4>1. slot \in [Engine -> [Node -> Nat]]
        BY DEF TypeOK
      <4>2. slot' \in [Engine -> [Node -> Nat]]
        BY <3>1, <3>3, <4>1
      <4>3. \A d \in Engine, m \in Node :
              slot'[d][m] = IF d = e /\ m = n THEN booting[d][m] ELSE slot[d][m]
        BY <3>3, <4>1
      <4> QED
        BY <4>2, <4>3
    <3> QED
      BY <2>1, <3>2, <3>3
  <2>4. ASSUME NEW d \in Engine, NEW m \in Node
        PROVE  {slot'[d][m], booting'[d][m]} \subseteq 0 .. launched'[m]
    <3>1. {slot[d][m], booting[d][m]} \subseteq 0 .. launched[m] /\ launched[m] \in Nat
      BY DEF TypeOK
    <3>2. booting'[d][m] \in {0, booting[d][m]} /\ slot'[d][m] \in {booting[d][m], slot[d][m]}
      BY <2>2, <2>3
    <3> QED
      BY <2>1, <3>1, <3>2
  <2> QED
    BY <1>1, <1>2, <1>6, <2>1, <2>2, <2>3, <2>4 DEF TypeOK
<1> QED
  BY <1>4, <1>5

LEMMA TypesNext ==
  ASSUME TypeOK, Places, [Next]_vars
  PROVE  TypeOK' /\ Places'
<1>1. ASSUME NEW e \in Engine, ProgressAnswered(e)
      PROVE  TypeOK' /\ Places'
  BY <1>1, ReportsStay DEF Next, ProgressAnswered, TypeOK, Places, sessionVars, processVars
<1>2. ASSUME NEW e \in Engine, NEW n \in Node, Worker(e, n)
      PROVE  TypeOK' /\ Places'
  BY <1>2, TypesWorker, WorkerFrame DEF Places, sessionVars
<1>3. CASE UNCHANGED vars
  BY <1>3, ReportsStay DEF vars, engineVars, sessionVars, processVars, TypeOK, Places
<1> QED
  BY <1>1, <1>2, <1>3, TypesVerb, TypesOpenNext, TypesGoroutine DEF Next

(* Attach keeps its types: in particular no slot ever holds a process that  *)
(* was not launched, no report outlives the attach that makes it, and no    *)
(* network is opened past the last.                                         *)
THEOREM TypeCorrect == Spec => [](TypeOK /\ Places)
<1>1. Init => TypeOK /\ Places
  <2> SUFFICES ASSUME Init PROVE TypeOK /\ Places
    OBVIOUS
  <2>1. 1 \in Engine /\ 0 \in 0 .. MaxVerbs
    BY AttachAssumption DEF Engine
  <2>2. Places
    BY Threads DEF Init, Places
  <2>3. pc \in [Thread -> {"free", "off"}] /\ using \in [Thread -> Engine]
    BY <2>1 DEF Init
  <2>4. \A e \in Engine, n \in Node : {slot[e][n], booting[e][n]} \subseteq 0 .. launched[n]
    <3>1. \A e \in Engine, n \in Node : slot[e][n] = 0 /\ booting[e][n] = 0 /\ launched[n] = 0
      BY DEF Init
    <3> QED
      BY <3>1
  <2> QED
    BY <2>1, <2>2, <2>3, <2>4 DEF Init, TypeOK, ReportsInAttach
<1> QED
  BY <1>1, TypesNext, PTL DEF Spec

-----------------------------------------------------------------------------
(* The processes.                                                           *)

(* Two that stop one node are one.                                          *)
LEMMA OneStopper ==
  ASSUME StopsApart, TypeOK, Places, Asked,
         NEW t \in Thread, NEW u \in Thread,
         pc[t] \in {"stop", "clear"}, pc[u] \in {"stop", "clear"}, NodeOf(t) = NodeOf(u)
  PROVE  t = u
<1>1. t # "starter" /\ u # "starter"
  BY DEF Places
<1>2. CASE t \in Reflasher /\ u \in Reflasher
  BY <1>2, Threads DEF NodeOf, StopsApart
<1>3. CASE t = "store" /\ u = "store"
  BY <1>3
<1>4. ASSUME NEW r \in Reflasher, pc["store"] \in {"stop", "clear"}, pc[r] \in {"stop", "clear"}
      PROVE  FALSE
  BY <1>4 DEF Asked, StopsApart, TypeOK
<1> QED
  BY <1>1, <1>2, <1>3, <1>4, Threads

(* Steps that neither make nor end a process, nor move one: what matters is *)
(* that none is stopped by them, and no engine closed.                      *)
LEMMA ProcessesKept ==
  ASSUME TypeOK, Places, AttachInv,
         UNCHANGED <<closed, slot, booting, eng, verbs, processVars>>,
         Locked', Booting',
         pc'["store"] = pc["store"] \/ pc["store"] # "closing",
         Asked',
         \A t \in Thread : pc'[t] = "clear" =>
           pc[t] = "clear" /\ using'[t] = using[t] /\ NodeOf(t)' = NodeOf(t)
  PROVE  AttachInv'
<1>1. Numbered'
  BY DEF AttachInv, Numbered, processVars
<1>2. Emptying'
  BY DEF AttachInv, Emptying, Process, processVars
<1>3. NoOrphan'
  BY DEF AttachInv, NoOrphan, processVars
<1> QED
  BY <1>1, <1>2, <1>3 DEF AttachInv

(* An engine that is being closed is the one in use, and the processes in   *)
(* its slots are about to be ended.                                         *)
LEMMA ProcessesOpen ==
  ASSUME TypeOK, Places, AttachInv, Open
  PROVE  AttachInv'
<1>1. /\ UNCHANGED <<owner, todo, booting, slot, eng, using, node, verbs, live, launched>>
      /\ closed' = [closed EXCEPT ![eng] = TRUE]
      /\ pc["store"] = "free" /\ Goto("store", "closing")
  BY DEF Open, Asks, attachVars, processVars
<1>2. pc'["store"] = "closing" /\ \A t \in Thread \ {"store"} : pc'[t] = pc[t]
  BY <1>1, GotoFrame, Threads
<1>3. Locked' /\ Booting' /\ Numbered'
  BY <1>1 DEF AttachInv, Locked, Booting, Numbered
<1>4. Asked'
  BY <1>1, <1>2, Threads DEF AttachInv, Asked
<1>5. Emptying'
  BY <1>1, <1>2 DEF AttachInv, Emptying, NodeOf, Process
<1>6. NoOrphan'
  <2> SUFFICES ASSUME NEW p \in live
               PROVE  \/ booting[p.eng][p.node] = p.id
                      \/ slot[p.eng][p.node] = p.id /\ (closed'[p.eng] => p.eng = eng)
    BY <1>1, <1>2 DEF NoOrphan
  <2>1. p.eng \in Engine
    BY DEF TypeOK
  <2>2. closed[p.eng] => booting[p.eng][p.node] = p.id
    BY <1>1 DEF AttachInv, NoOrphan
  <2>3. p.eng # eng => closed'[p.eng] = closed[p.eng]
    BY <1>1, <2>1 DEF TypeOK
  <2>4. booting[p.eng][p.node] = p.id \/ slot[p.eng][p.node] = p.id
    BY DEF AttachInv, NoOrphan
  <2> QED
    BY <2>2, <2>3, <2>4
<1> QED
  BY <1>3, <1>4, <1>5, <1>6 DEF AttachInv

(* Then they are.                                                           *)
LEMMA ProcessesOpenNext ==
  ASSUME TypeOK, Places, AttachInv, OpenNext
  PROVE  AttachInv'
<1>1. /\ UNCHANGED <<closed, owner, todo, booting, slot, using, node, verbs, launched>>
      /\ live' = live \ {Process(eng, n, slot[eng][n]) : n \in Node}
      /\ eng' = eng + 1
      /\ pc["store"] = "closing" /\ Goto("store", "free")
  BY DEF OpenNext, engineVars
<1>2. pc'["store"] = "free" /\ \A t \in Thread \ {"store"} : pc'[t] = pc[t]
  BY <1>1, GotoFrame, Threads
<1>3. Locked' /\ Booting' /\ Numbered'
  BY <1>1 DEF AttachInv, Locked, Booting, Numbered
<1>4. Asked'
  BY <1>1, <1>2, Threads DEF AttachInv, Asked
<1>5. Emptying'
  BY <1>1, <1>2 DEF AttachInv, Emptying, NodeOf, Process
<1>6. NoOrphan'
  <2> SUFFICES ASSUME NEW p \in live'
               PROVE  \/ booting[p.eng][p.node] = p.id
                      \/ slot[p.eng][p.node] = p.id /\ ~closed[p.eng]
    BY <1>1 DEF NoOrphan
  <2>1. p \in live /\ p \in [eng : Engine, node : Node, id : Nat]
    BY <1>1 DEF TypeOK
  <2>2. p.eng = eng => slot[p.eng][p.node] # p.id
    <3>1. p.node \in Node
      BY <2>1
    <3>2. p # Process(eng, p.node, slot[eng][p.node])
      BY <1>1, <3>1
    <3>3. p = [eng |-> p.eng, node |-> p.node, id |-> p.id]
      BY <2>1
    <3> QED
      BY <3>2, <3>3 DEF Process
  <2> QED
    BY <2>1, <2>2 DEF AttachInv, NoOrphan
<1> QED
  BY <1>3, <1>4, <1>5, <1>6 DEF AttachInv

(* The other verbs only set somebody going.                                 *)
LEMMA ProcessesVerbs ==
  ASSUME TypeOK, Places, AttachInv, Verbs
  PROVE  AttachInv'
<1>1. CASE Open
  BY <1>1, ProcessesOpen
<1>2. ASSUME NEW t \in Thread, NEW label,
             pc[t] \in {"free", "off"}, Goto(t, label), label # "clear", ~Open,
             t \in Reflasher => "node.set_firmware" \in verbs,
             t = "store" /\ label = "stop" => "node.stop" \in verbs,
             \A u \in Thread \ {t} : using'[u] = using[u],
             node' = node \/ t = "store"
      PROVE  AttachInv'
  <2>1. /\ UNCHANGED <<owner, todo, booting, slot, eng, verbs, live, launched>>
        /\ pc["store"] = "free"
    BY VerbFrame DEF attachVars, processVars
  <2>2. closed' = closed
    BY <1>2 DEF Verbs, FirmwareStart, SetFirmware, NodeStop, NodeStart, engineVars
  <2>3. pc'[t] = label /\ \A u \in Thread \ {t} : pc'[u] = pc[u]
    BY <1>2, GotoFrame
  <2>4. Asked'
    BY <1>2, <2>1, <2>3, Threads DEF AttachInv, Asked
  <2>5. \A u \in Thread : pc'[u] = "clear" =>
          pc[u] = "clear" /\ using'[u] = using[u] /\ NodeOf(u)' = NodeOf(u)
    BY <1>2, <2>1, <2>3 DEF NodeOf
  <2>6. Locked' /\ Booting'
    BY <2>1 DEF AttachInv, Locked, Booting
  <2> QED
    BY <1>2, <2>1, <2>2, <2>3, <2>4, <2>5, <2>6, Threads, ProcessesKept DEF processVars
<1>3. CASE FirmwareStart
  <2>1. /\ pc["starter"] = "off" /\ Goto("starter", "announce") /\ node' = node
        /\ using' = [using EXCEPT !["starter"] = eng] /\ pc["store"] = "free"
    BY <1>3 DEF FirmwareStart, Asks
  <2>2. ~Open
    BY <2>1, GotoFrame, Threads DEF Open
  <2>3. \A u \in Thread \ {"starter"} : using'[u] = using[u]
    BY <2>1 DEF TypeOK
  <2> QED
    BY <1>2, <2>1, <2>2, <2>3, Threads
<1>4. ASSUME NEW r \in Reflasher, SetFirmware(r)
      PROVE  AttachInv'
  <2>1. /\ pc[r] = "off" /\ Goto(r, "stopping?") /\ UNCHANGED <<node, using>>
        /\ "node.set_firmware" \in verbs /\ r \in Thread /\ r # "store"
    BY <1>4, Threads DEF SetFirmware, Asks
  <2>2. ~Open
    BY <2>1, GotoFrame, Threads DEF Open, Places
  <2> QED
    BY <1>2, <2>1, <2>2
<1>5. ASSUME NEW n \in Node, NodeStop(n) \/ NodeStart(n)
      PROVE  AttachInv'
  <2>1. /\ pc["store"] = "free"
        /\ \/ Goto("store", "stop") /\ "node.stop" \in verbs /\ using' = using
           \/ Goto("store", "attach") /\ using' = [using EXCEPT !["store"] = eng]
    BY <1>5 DEF NodeStop, NodeStart, Asks
  <2>2. ~Open
    BY <2>1, GotoFrame, Threads DEF Open
  <2>3. \A u \in Thread \ {"store"} : using'[u] = using[u]
    BY <2>1 DEF TypeOK
  <2> QED
    BY <1>2, <2>1, <2>2, <2>3, Threads
<1> QED
  BY <1>1, <1>3, <1>4, <1>5 DEF Verbs

(* A process ends, and its slot is emptied: in between nobody has put       *)
(* another there, since it is this one's that a boot would find.            *)
LEMMA ProcessesStop ==
  ASSUME StopsApart, TypeOK, Places, AttachInv, NEW t \in Thread, StopClose(t) \/ StopClear(t)
  PROVE  AttachInv'
<1>1. UNCHANGED <<closed, owner, todo, booting, eng, node, verbs, launched>>
  BY DEF StopClose, StopClear, engineVars, attachVars, processVars
<1>2. /\ t = "store" \/ t \in Reflasher
      /\ NodeOf(t) \in Node /\ pc[t] \in {"stop", "clear"}
      /\ AfterStop(t) = IF t = "store" THEN "free" ELSE "starting?"
  <2>1. pc[t] \in {"stop", "clear"}
    BY DEF StopClose, StopClear
  <2>2. t = "store" \/ t \in Reflasher
    BY <2>1, Threads DEF Places
  <2> QED
    BY <2>1, <2>2, Threads, AttachAssumption DEF NodeOf, AfterStop, TypeOK
<1>3. \A u \in Thread : NodeOf(u)' = NodeOf(u)
  BY <1>1 DEF NodeOf
<1>4. \E label \in {"clear", AfterStop(t)} : Goto(t, label)
  BY DEF StopClose, StopClear
<1>5. \A u \in Thread \ {t} : pc'[u] = pc[u]
  BY <1>4, GotoFrame
<1>6. Asked'
  <2>1. pc'[t] \in {"clear", AfterStop(t)}
    BY <1>4, GotoFrame
  <2> QED
    BY <1>1, <1>2, <1>5, <2>1, Threads DEF AttachInv, Asked
<1>7. CASE StopClose(t) /\ slot[eng][NodeOf(t)] = 0
  <2>1. slot' = slot /\ live' = live /\ Goto(t, AfterStop(t))
    BY <1>7 DEF StopClose, engineVars
  <2>2. pc'[t] = AfterStop(t) /\ pc'[t] # "clear"
    BY <1>2, <2>1, GotoFrame
  <2>3. \A u \in Thread \ {t} : using'[u] = using[u]
    BY <1>7 DEF StopClose, TypeOK
  <2>4. Locked' /\ Booting'
    BY <1>1, <2>1 DEF AttachInv, Locked, Booting
  <2>5. pc'["store"] = pc["store"] \/ pc["store"] # "closing"
    BY <1>2, <1>5, Threads
  <2> QED
    BY <1>1, <1>3, <1>5, <1>6, <2>1, <2>2, <2>3, <2>4, <2>5, ProcessesKept DEF processVars
<1>8. CASE StopClose(t) /\ slot[eng][NodeOf(t)] # 0
  <2>1. /\ slot' = slot /\ live' = live \ {Process(eng, NodeOf(t), slot[eng][NodeOf(t)])}
        /\ Goto(t, "clear") /\ using' = [using EXCEPT ![t] = eng]
    BY <1>8 DEF StopClose, engineVars
  <2>2. /\ pc'[t] = "clear" /\ using'[t] = eng
        /\ \A u \in Thread \ {t} : using'[u] = using[u]
    BY <2>1, GotoFrame DEF TypeOK
  <2>3. Locked' /\ Booting' /\ Numbered'
    BY <1>1, <2>1 DEF AttachInv, Locked, Booting, Numbered
  <2>4. Emptying'
    <3> SUFFICES ASSUME NEW u \in Thread, pc'[u] = "clear"
                 PROVE  /\ slot[using'[u]][NodeOf(u)] # 0
                        /\ Process(using'[u], NodeOf(u), slot[using'[u]][NodeOf(u)]) \notin live'
      BY <1>3, <2>1 DEF Emptying, Process
    <3>1. CASE u = t
      BY <1>8, <2>1, <2>2, <3>1
    <3>2. CASE u # t
      BY <1>5, <2>1, <2>2, <3>2 DEF AttachInv, Emptying
    <3> QED
      BY <3>1, <3>2
  <2>5. NoOrphan'
    <3>1. pc'["store"] = pc["store"] \/ pc["store"] # "closing"
      BY <1>2, <1>5, Threads
    <3> QED
      BY <1>1, <2>1, <3>1 DEF AttachInv, NoOrphan
  <2> QED
    BY <1>6, <2>3, <2>4, <2>5 DEF AttachInv
<1>9. CASE StopClear(t)
  <2>1. /\ pc[t] = "clear" /\ slot' = [slot EXCEPT ![using[t]][NodeOf(t)] = 0]
        /\ live' = live /\ using' = using /\ Goto(t, AfterStop(t))
    BY <1>9 DEF StopClear, processVars
  <2>2. /\ using[t] \in Engine
        /\ \A e \in Engine, n \in Node :
             slot'[e][n] = IF e = using[t] /\ n = NodeOf(t) THEN 0 ELSE slot[e][n]
    BY <1>2, <2>1 DEF TypeOK
  <2>3. pc'[t] # "clear"
    BY <1>2, <2>1, GotoFrame
  <2>4. Locked' /\ Booting' /\ Numbered'
    BY <1>1, <2>1, <2>2 DEF AttachInv, Locked, Booting, Numbered
  <2>5. Emptying'
    <3> SUFFICES ASSUME NEW u \in Thread, pc'[u] = "clear"
                 PROVE  /\ slot'[using[u]][NodeOf(u)] # 0
                        /\ Process(using[u], NodeOf(u), slot'[using[u]][NodeOf(u)]) \notin live
      BY <1>3, <2>1 DEF Emptying, Process
    <3>1. u # t /\ pc[u] = "clear"
      BY <1>5, <2>3
    <3>2. NodeOf(u) # NodeOf(t)
      BY <1>2, <3>1, OneStopper DEF AttachInv
    <3>3. using[u] \in Engine /\ NodeOf(u) \in Node
      <4>1. u # "starter"
        BY <3>1 DEF Places
      <4> QED
        BY <4>1, Threads, AttachAssumption DEF NodeOf, TypeOK
    <3>4. slot'[using[u]][NodeOf(u)] = slot[using[u]][NodeOf(u)]
      BY <2>2, <3>2, <3>3
    <3> QED
      BY <3>1, <3>4 DEF AttachInv, Emptying
  <2>6. NoOrphan'
    <3> SUFFICES ASSUME NEW p \in live
                 PROVE  \/ booting[p.eng][p.node] = p.id
                        \/ /\ slot'[p.eng][p.node] = p.id
                           /\ closed[p.eng] => p.eng = eng /\ pc'["store"] = "closing"
      BY <1>1, <2>1 DEF NoOrphan
    <3>1. p \in [eng : Engine, node : Node, id : Nat]
      BY DEF TypeOK
    <3>2. p = Process(p.eng, p.node, p.id)
      BY <3>1 DEF Process
    <3>3. p.eng = using[t] /\ p.node = NodeOf(t) => slot[p.eng][p.node] # p.id
      BY <2>1, <3>2 DEF AttachInv, Emptying
    <3>4. slot[p.eng][p.node] = p.id => slot'[p.eng][p.node] = p.id
      BY <2>2, <3>1, <3>3
    <3>5. pc'["store"] = pc["store"] \/ pc["store"] # "closing"
      BY <1>2, <1>5, Threads
    <3> QED
      BY <3>4, <3>5 DEF AttachInv, NoOrphan
  <2> QED
    BY <1>6, <2>4, <2>5, <2>6 DEF AttachInv
<1> QED
  BY <1>7, <1>8, <1>9

(* The other steps of a goroutine move no process; and an attach that       *)
(* begins finds, as one that ends leaves, nothing half booted.              *)
LEMMA ProcessesGoroutine ==
  ASSUME TypeOK, Places, AttachInv, NEW t \in Thread,
         Answered(t) \/ StartNode(t) \/ AttachLock(t) \/ AttachReturn(t)
  PROVE  AttachInv'
<1>1. /\ UNCHANGED <<closed, slot, booting, eng, node, verbs, live, launched>>
      /\ pc[t] \notin {"free", "off", "stop", "clear", "closing"}
  BY DEF Answered, StartNode, AttachLock, AttachReturn, engineVars, processVars
<1>2. \E label : Goto(t, label) /\ label # "clear"
                /\ (label \in {"stop", "clear"} => t \in Reflasher)
  <2>1. CASE Answered(t)
    <3>1. pc[t] \in {"announce", "stopping?", "starting?", "told"} /\ Goto(t, NextLabel(t))
      BY <2>1 DEF Answered
    <3>2. NextLabel(t) \in {"attach", "stop", "start", "off"}
      BY <3>1 DEF NextLabel
    <3>3. NextLabel(t) = "stop" => pc[t] = "stopping?"
      BY <3>1 DEF NextLabel
    <3>4. pc[t] = "stopping?" => t \in Reflasher
      BY Threads DEF Places
    <3> QED
      BY <3>1, <3>2, <3>3, <3>4
  <2>2. CASE StartNode(t)
    BY <2>2 DEF StartNode
  <2>3. CASE AttachLock(t) \/ AttachReturn(t)
    BY <2>3 DEF AttachLock, AttachReturn, AfterAttach
  <2> QED
    BY <2>1, <2>2, <2>3
<1>3. /\ \A u \in Thread \ {t} : pc'[u] = pc[u]
      /\ pc'[t] # "clear" /\ (pc'[t] = "stop" => t \in Reflasher)
  BY <1>2, GotoFrame
<1>4. \A u \in Thread \ {t} : using'[u] = using[u]
  BY DEF Answered, StartNode, AttachLock, AttachReturn, TypeOK
<1>5. Asked'
  BY <1>1, <1>3, Threads DEF AttachInv, Asked
<1>6. Locked' /\ Booting'
  <2>1. CASE UNCHANGED <<owner, todo>>
    BY <1>1, <2>1 DEF AttachInv, Locked, Booting
  <2>2. CASE AttachLock(t) /\ ~UNCHANGED <<owner, todo>>
    <3>1. /\ owner[using[t]] = "nobody" /\ using[t] \in Engine
          /\ owner' = [owner EXCEPT ![using[t]] = t]
          /\ todo' = [todo EXCEPT ![using[t]] = Node]
      BY <2>2 DEF AttachLock, TypeOK
    <3>2. /\ owner'[using[t]] = t /\ t # "nobody"
          /\ \A e \in Engine \ {using[t]} : owner'[e] = owner[e] /\ todo'[e] = todo[e]
      BY <3>1, Threads DEF TypeOK
    <3>3. \A n \in Node : booting[using[t]][n] = 0
      BY <3>1 DEF AttachInv, Locked
    <3> QED
      BY <1>1, <3>2, <3>3 DEF AttachInv, Locked, Booting
  <2>3. CASE AttachReturn(t)
    <3>1. /\ todo[using[t]] = {} /\ \A n \in Node : booting[using[t]][n] = 0
          /\ owner' = [owner EXCEPT ![using[t]] = "nobody"] /\ todo' = todo
      BY <2>3 DEF AttachReturn
    <3>2. \A e \in Engine \ {using[t]} : owner'[e] = owner[e]
      BY <3>1 DEF TypeOK
    <3> QED
      BY <1>1, <3>1, <3>2 DEF AttachInv, Locked, Booting
  <2>4. CASE Answered(t) \/ StartNode(t)
    BY <2>1, <2>4 DEF Answered, StartNode, engineVars, attachVars
  <2> QED
    BY <2>1, <2>2, <2>3, <2>4
<1>7. pc'["store"] = pc["store"] \/ pc["store"] # "closing"
  BY <1>1, <1>3, Threads
<1> QED
  BY <1>1, <1>3, <1>4, <1>5, <1>6, <1>7, ProcessesKept DEF processVars, NodeOf

(* A worker that passes a node over, or finds its engine closed, moves none. *)
LEMMA ProcessesPassed ==
  ASSUME TypeOK, Places, AttachInv, NEW e \in Engine, NEW n \in Node,
         Skip(e, n) \/ BootRefused(e, n)
  PROVE  AttachInv'
<1>1. /\ UNCHANGED <<closed, owner, slot, booting, eng, pc, using, node, verbs, live, launched>>
      /\ todo' = [todo EXCEPT ![e] = @ \ {n}]
  BY DEF Skip, BootRefused, sessionVars, processVars
<1>2. \A d \in Engine : todo'[d] \subseteq todo[d]
  BY <1>1 DEF TypeOK
<1>3. Locked' /\ Booting'
  BY <1>1, <1>2 DEF AttachInv, Locked, Booting
<1>4. Asked'
  BY <1>1 DEF AttachInv, Asked
<1> QED
  BY <1>1, <1>3, <1>4, ProcessesKept DEF processVars, NodeOf

(* A process that is launched is the one its attach is booting, for a node  *)
(* that had none.                                                           *)
LEMMA ProcessesBoot ==
  ASSUME TypeOK, Places, AttachInv, NEW e \in Engine, NEW n \in Node, Boot(e, n)
  PROVE  AttachInv'
<1>1. /\ UNCHANGED <<closed, owner, slot, eng, pc, using, node, verbs>>
      /\ n \in todo[e] /\ slot[e][n] = 0
      /\ todo' = [todo EXCEPT ![e] = @ \ {n}]
      /\ launched' = [launched EXCEPT ![n] = @ + 1]
      /\ booting' = [booting EXCEPT ![e][n] = launched[n] + 1]
      /\ live' = live \cup {Process(e, n, launched[n] + 1)}
  BY DEF Boot, sessionVars
<1>2. /\ launched[n] \in Nat /\ launched'[n] = launched[n] + 1
      /\ \A m \in Node \ {n} : launched'[m] = launched[m]
      /\ \A m \in Node : launched[m] \in Nat
  BY <1>1 DEF TypeOK
<1>3. \A d \in Engine, m \in Node :
        booting'[d][m] = IF d = e /\ m = n THEN launched[n] + 1 ELSE booting[d][m]
  BY <1>1, <1>2 DEF TypeOK
<1>4. /\ todo'[e] = todo[e] \ {n}
      /\ \A d \in Engine \ {e} : todo'[d] = todo[d]
  BY <1>1 DEF TypeOK
<1>5. booting[e][n] = 0 /\ owner[e] # "nobody"
  BY <1>1 DEF AttachInv, Booting, Locked
<1>6. \A p \in live : p.eng = e => p.node # n
  <2> SUFFICES ASSUME NEW p \in live, p.eng = e, p.node = n
               PROVE  FALSE
    OBVIOUS
  <2>1. p.id \in 1 .. launched[n]
    BY DEF AttachInv, Numbered
  <2>2. p.id = 0
    BY <1>1, <1>5 DEF AttachInv, NoOrphan
  <2> QED
    BY <2>1, <2>2
<1>7. Locked'
  BY <1>1, <1>3, <1>4, <1>5 DEF AttachInv, Locked
<1>8. Booting'
  BY <1>1, <1>3, <1>4 DEF AttachInv, Booting
<1>9. Numbered'
  <2> SUFFICES ASSUME NEW p \in live'
               PROVE  p.id \in 1 .. launched'[p.node]
    BY DEF Numbered
  <2>1. CASE p \in live
    <3>1. p.id \in 1 .. launched[p.node] /\ p.node \in Node
      BY <2>1 DEF AttachInv, Numbered, TypeOK
    <3> QED
      BY <1>2, <3>1
  <2>2. CASE p = Process(e, n, launched[n] + 1)
    BY <1>2, <2>2 DEF Process
  <2> QED
    BY <1>1, <2>1, <2>2
<1>10. Asked'
  BY <1>1 DEF AttachInv, Asked
<1>11. Emptying'
  <2> SUFFICES ASSUME NEW t \in Thread, pc[t] = "clear"
               PROVE  /\ slot[using[t]][NodeOf(t)] # 0
                      /\ Process(using[t], NodeOf(t), slot[using[t]][NodeOf(t)]) \notin live'
    BY <1>1 DEF Emptying, NodeOf, Process
  <2>1. /\ slot[using[t]][NodeOf(t)] # 0
        /\ Process(using[t], NodeOf(t), slot[using[t]][NodeOf(t)]) \notin live
    BY DEF AttachInv, Emptying
  <2>2. ~(using[t] = e /\ NodeOf(t) = n)
    BY <1>1, <2>1
  <2> QED
    BY <1>1, <2>1, <2>2 DEF Process
<1>12. NoOrphan'
  <2> SUFFICES ASSUME NEW p \in live'
               PROVE  \/ booting'[p.eng][p.node] = p.id
                      \/ /\ slot[p.eng][p.node] = p.id
                         /\ closed[p.eng] => p.eng = eng /\ pc["store"] = "closing"
    BY <1>1 DEF NoOrphan
  <2>1. CASE p \in live
    <3>1. p.eng \in Engine /\ p.node \in Node
      BY <2>1 DEF TypeOK
    <3> QED
      BY <1>3, <1>6, <2>1, <3>1 DEF AttachInv, NoOrphan
  <2>2. CASE p = Process(e, n, launched[n] + 1)
    BY <1>3, <2>2 DEF Process
  <2> QED
    BY <1>1, <2>1, <2>2
<1> QED
  BY <1>7, <1>8, <1>9, <1>10, <1>11, <1>12 DEF AttachInv

(* A process that has booted is ended, or goes into its node's slot, which  *)
(* is empty, of an engine that is not closed.                               *)
LEMMA ProcessesBooted ==
  ASSUME TypeOK, Places, AttachInv, NEW e \in Engine, NEW n \in Node,
         BootFails(e, n) \/ Adopt(e, n)
  PROVE  AttachInv'
<1>1. /\ UNCHANGED <<closed, owner, todo, eng, pc, using, node, verbs, launched>>
      /\ booting[e][n] # 0
      /\ booting' = [booting EXCEPT ![e][n] = 0]
      /\ \/ live' = live \ {Process(e, n, booting[e][n])} /\ slot' = slot
         \/ live' = live /\ slot' = [slot EXCEPT ![e][n] = booting[e][n]] /\ ~closed[e]
  BY DEF BootFails, Adopt, sessionVars, processVars
<1>2. slot[e][n] = 0
  BY <1>1 DEF AttachInv, Booting
<1>3. \A d \in Engine, m \in Node : booting'[d][m] = IF d = e /\ m = n THEN 0 ELSE booting[d][m]
  BY <1>1 DEF TypeOK
<1>4. \A d \in Engine, m \in Node : d # e \/ m # n => slot'[d][m] = slot[d][m]
  BY <1>1 DEF TypeOK
<1>5. Locked' /\ Booting' /\ Numbered'
  BY <1>1, <1>3, <1>4 DEF AttachInv, Locked, Booting, Numbered
<1>6. Asked'
  BY <1>1 DEF AttachInv, Asked
<1>7. Emptying'
  <2> SUFFICES ASSUME NEW t \in Thread, pc[t] = "clear"
               PROVE  /\ slot'[using[t]][NodeOf(t)] # 0
                      /\ Process(using[t], NodeOf(t), slot'[using[t]][NodeOf(t)]) \notin live'
    BY <1>1 DEF Emptying, NodeOf, Process
  <2>1. /\ slot[using[t]][NodeOf(t)] # 0
        /\ Process(using[t], NodeOf(t), slot[using[t]][NodeOf(t)]) \notin live
    BY DEF AttachInv, Emptying
  <2>2. using[t] \in Engine /\ NodeOf(t) \in Node
    <3>1. t # "starter"
      BY DEF Places
    <3> QED
      BY <3>1, Threads, AttachAssumption DEF NodeOf, TypeOK
  <2>3. ~(using[t] = e /\ NodeOf(t) = n)
    BY <1>2, <2>1
  <2> QED
    BY <1>1, <1>4, <2>1, <2>2, <2>3
<1>8. NoOrphan'
  <2> SUFFICES ASSUME NEW p \in live'
               PROVE  \/ booting'[p.eng][p.node] = p.id
                      \/ /\ slot'[p.eng][p.node] = p.id
                         /\ closed[p.eng] => p.eng = eng /\ pc["store"] = "closing"
    BY <1>1 DEF NoOrphan
  <2>1. p \in live /\ p \in [eng : Engine, node : Node, id : Nat]
    BY <1>1 DEF TypeOK
  <2>2. CASE p.eng = e /\ p.node = n
    <3>1. p.id # 0
      BY <2>1, <2>2 DEF AttachInv, Numbered
    <3>2. p.id = booting[e][n]
      BY <1>2, <2>1, <2>2, <3>1 DEF AttachInv, NoOrphan
    <3>3. p = Process(e, n, booting[e][n])
      BY <2>1, <2>2, <3>2 DEF Process
    <3>4. slot' = [slot EXCEPT ![e][n] = booting[e][n]] /\ ~closed[e]
      BY <1>1, <3>3
    <3>5. slot'[e][n] = booting[e][n]
      BY <3>4 DEF TypeOK
    <3> QED
      BY <2>2, <3>2, <3>4, <3>5
  <2>3. CASE ~(p.eng = e /\ p.node = n)
    BY <1>3, <1>4, <2>1, <2>3 DEF AttachInv, NoOrphan
  <2> QED
    BY <2>2, <2>3
<1> QED
  BY <1>5, <1>6, <1>7, <1>8 DEF AttachInv

LEMMA ProcessesNext ==
  ASSUME StopsApart, TypeOK, Places, AttachInv, [Next]_vars
  PROVE  AttachInv'
<1>1. ASSUME NEW e \in Engine, ProgressAnswered(e)
      PROVE  AttachInv'
  <2>1. UNCHANGED <<closed, owner, todo, slot, booting, eng, pc, using, node, verbs, live, launched>>
    BY <1>1 DEF ProgressAnswered, sessionVars, processVars
  <2>2. Locked' /\ Booting' /\ Asked'
    BY <2>1 DEF AttachInv, Locked, Booting, Asked
  <2> QED
    BY <2>1, <2>2, ProcessesKept DEF processVars, NodeOf
<1>2. CASE UNCHANGED vars
  <2>1. UNCHANGED <<closed, owner, todo, slot, booting, eng, pc, using, node, verbs, live, launched>>
    BY <1>2 DEF vars, engineVars, sessionVars, processVars
  <2>2. Locked' /\ Booting' /\ Asked'
    BY <2>1 DEF AttachInv, Locked, Booting, Asked
  <2> QED
    BY <2>1, <2>2, ProcessesKept DEF processVars, NodeOf
<1>3. ASSUME NEW t \in Thread, Goroutine(t)
      PROVE  AttachInv'
  BY <1>3, ProcessesStop, ProcessesGoroutine DEF Goroutine
<1>4. ASSUME NEW e \in Engine, NEW n \in Node, Worker(e, n)
      PROVE  AttachInv'
  BY <1>4, ProcessesPassed, ProcessesBoot, ProcessesBooted DEF Worker
<1> QED
  BY <1>1, <1>2, <1>3, <1>4, ProcessesVerbs, ProcessesOpenNext DEF Next

LEMMA AttachAlways ==
  ASSUME StopsApart
  PROVE  Spec => []AttachInv
<1>1. Init => AttachInv
  <2> SUFFICES ASSUME Init PROVE AttachInv
    OBVIOUS
  <2>1. Locked /\ Booting /\ Numbered /\ NoOrphan
    BY DEF Init, Locked, Booting, Numbered, NoOrphan
  <2>2. \A t \in Thread : pc[t] \in {"free", "off"} /\ (t # "store" => pc[t] = "off")
    BY DEF Init
  <2>3. Asked /\ Emptying
    BY <2>2, Threads DEF Asked, Emptying
  <2> QED
    BY <2>1, <2>3 DEF AttachInv
<1>2. TypeOK /\ Places /\ AttachInv /\ [Next]_vars => AttachInv'
  BY ProcessesNext
<1> QED
  BY <1>1, <1>2, TypeCorrect, PTL DEF Spec

(* Every process has somebody who will stop it, however many networks are   *)
(* opened while attaches start processes for them, whichever boots fail and *)
(* however late, as long as no two goroutines stop one node.                *)
THEOREM NoneIsOrphaned ==
  ASSUME StopsApart
  PROVE  Spec => []NoOrphan
<1>1. AttachInv => NoOrphan
  BY DEF AttachInv
<1> QED
  BY <1>1, AttachAlways, PTL

(* And no two processes of one network run on one node's storage: a node    *)
(* is not booted again before its last process is gone.                     *)
THEOREM OneProcessEach ==
  ASSUME StopsApart
  PROVE  Spec => []OneProcessPerNode
<1>1. TypeOK /\ AttachInv => OneProcessPerNode
  <2> SUFFICES ASSUME TypeOK, AttachInv, NEW p \in live, NEW q \in live,
                      p.eng = q.eng, p.node = q.node
               PROVE  p = q
    BY DEF OneProcessPerNode
  <2>1. /\ p \in [eng : Engine, node : Node, id : Nat]
        /\ q \in [eng : Engine, node : Node, id : Nat]
    BY DEF TypeOK
  <2>2. p.id # 0 /\ q.id # 0
    BY DEF AttachInv, Numbered
  <2>3. p.id = q.id
    BY <2>1, <2>2 DEF AttachInv, NoOrphan, Booting
  <2> QED
    BY <2>1, <2>3
<1> QED
  BY <1>1, AttachAlways, TypeCorrect, PTL
=============================================================================
