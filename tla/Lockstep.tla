------------------------------ MODULE Lockstep ------------------------------
(***************************************************************************)
(* The engine's step and the firmware processes it drives.                  *)
(*                                                                         *)
(* One goroutine runs Engine.Step: finished transmissions are told to their *)
(* senders and handed to whoever heard them, then every node's firmware is  *)
(* sent a tick and waited for, then what the firmware transmitted goes on   *)
(* the air.  Each node is a MeshCore process at the far end of a socket,    *)
(* read by the Bridge's own goroutine.  Processes crash, stop in a debugger *)
(* or miss a deadline; a reflash closes and replaces one from a goroutine   *)
(* of its own while the step is under way.                                  *)
(*                                                                         *)
(* Time is counted in engine steps (StepMs) and a node's clock is counted   *)
(* from its boot offset, so that a node in step has the engine's time.      *)
(* What the firmware decides to send, and who can hear it, is left open.    *)
(***************************************************************************)
EXTENDS Naturals, Sequences, FiniteSets

CONSTANTS
  N,                 \* how many nodes run firmware
  MaxTick,           \* bound on the engine's clock
  MaxGen,            \* bound on how often each node is started
  MaxAir,            \* longest airtime, in steps
  TransmittedCap,    \* capacity of Bridge.Transmitted (32 in the code)
  Crashable,         \* the nodes whose process may die
  Stallable,         \* the nodes that may miss a tick's deadline while running
  Debuggable,        \* the nodes somebody debugs
  DebugOffWhileHeld  \* may debugging be turned off while the node is held?

ASSUME LockstepAssumption ==
  /\ N \in Nat \ {0}
  /\ MaxTick \in Nat
  /\ MaxGen \in [1 .. N -> Nat]
  /\ MaxAir \in Nat \ {0}
  /\ TransmittedCap \in Nat \ {0}
  /\ DebugOffWhileHeld \in BOOLEAN

Node == 1 .. N

(* A frame on the air: who sent it, from which start of its firmware, when, *)
(* which of the frames collected together, and when it ends.                *)
Transmission == [from : Node, gen : Nat, start : Nat, nth : Nat, end : Nat]

(* Engine to node, and node to engine.  val is the tick's instant, or for   *)
(* txDone the start of the firmware that made the transmission.             *)
ToNodeMsg == [kind : {"tick", "txDone"}, val : Nat]
ToEngineMsg == [kind : {"frame", "ack"}, val : Nat]

VARIABLES
  \* Engine
  now,         \* nowMs
  pc,          \* where Step is: "idle", "complete", "firmware", or it "panicked"
  round,       \* the instant of the last runFirmware
  inFlight,    \* transmissions on the air
  telling,     \* finished, sender not yet told
  hearing,     \* finished, not yet delivered
  target,      \* firmwareTargets' answer: which start of each node, 0 for none
  ask,         \* this round: "none", "target", "asked" or "answered"
  looked,      \* the node whose slot was last found to hold firmware, 0 for none
  next,        \* the node collectTransmissions has come to
  debugging,   \* the nodes being debugged
  held,        \* the tick a held node did not answer, and whose it was
  down,        \* firmwareDown
  \* The node's slot in the engine
  fw,          \* Node.Firmware: "none", "up", or "stopping" (closed, not yet nil)
  gen,         \* which start of the firmware the slot holds
  \* Bridge
  closed,      \* done is closed
  acked,       \* the channel of one acknowledgement, 0 when empty
  transmitted, \* how many frames wait in Transmitted
  toNode,      \* socket, engine to node
  toEngine,    \* socket, node to engine
  \* The process
  proc,        \* "run", "break" (stopped in a debugger) or "gone"
  clock,       \* the firmware's own clock
  onAir,       \* BridgeRadio.onAir_: it believes it is transmitting
  \* History
  failed,      \* some Step has returned an error
  downGen      \* which start of the firmware was marked down

engine == <<now, pc, round, inFlight, telling, hearing, target, ask, looked,
            next, held, down, failed, downGen>>
slot == <<fw, gen>>
bridge == <<closed, acked, transmitted, toNode, toEngine>>
process == <<proc, clock, onAir>>
vars == <<engine, debugging, slot, bridge, process>>

NotHeld == [gen |-> 0, at |-> 0]

Init ==
  /\ now = 0 /\ pc = "idle" /\ round = 0
  /\ inFlight = {} /\ telling = {} /\ hearing = {}
  /\ target = [n \in Node |-> 0]
  /\ ask = [n \in Node |-> "none"]
  /\ looked = 0 /\ next = 1
  /\ debugging = {}
  /\ held = [n \in Node |-> NotHeld]
  /\ down = [n \in Node |-> FALSE]
  /\ fw = [n \in Node |-> "none"]
  /\ gen = [n \in Node |-> 0]
  /\ closed = [n \in Node |-> TRUE]
  /\ acked = [n \in Node |-> 0]
  /\ transmitted = [n \in Node |-> 0]
  /\ toNode = [n \in Node |-> <<>>]
  /\ toEngine = [n \in Node |-> <<>>]
  /\ proc = [n \in Node |-> "gone"]
  /\ clock = [n \in Node |-> 0]
  /\ onAir = [n \in Node |-> FALSE]
  /\ failed = FALSE
  /\ downGen = [n \in Node |-> 0]

-----------------------------------------------------------------------------
(* Bridge.send.  A socket whose process has gone takes a write until its    *)
(* end is noticed, so between the two either answer is possible.            *)

CanSend(n) == ~closed[n]
CanFail(n) == closed[n] \/ proc[n] = "gone"

Put(n, kind, val) ==
  toNode' = [toNode EXCEPT ![n] = Append(@, [kind |-> kind, val |-> val])]

-----------------------------------------------------------------------------
(* Engine.Step, first part: completeTransmissions.                          *)

Ended(t) == now + 1 >= t.end

(* A slip the runs must catch: nobody is told that its transmission ended. *)
StepBeginTellsNobody ==
  /\ pc = "idle"
  /\ now < MaxTick
  /\ now' = now + 1
  /\ pc' = "complete"
  /\ telling' = {}
  /\ hearing' = {t \in inFlight : Ended(t)}
  /\ inFlight' = {t \in inFlight : ~Ended(t)}
  /\ UNCHANGED <<round, target, ask, looked, next, debugging, held, down,
                 failed, downGen, slot, bridge, process>>

(* Step advances the clock and takes what has finished off the air. *)
StepBegin ==
  /\ pc = "idle"
  /\ now < MaxTick
  /\ now' = now + 1
  /\ pc' = "complete"
  /\ telling' = {t \in inFlight : Ended(t)}
  /\ hearing' = {t \in inFlight : Ended(t)}
  /\ inFlight' = {t \in inFlight : ~Ended(t)}
  /\ UNCHANGED <<round, target, ask, looked, next, debugging, held, down,
                 failed, downGen, slot, bridge, process>>

(* An error out of completeTransmissions returns out of Step. *)
Abort ==
  /\ pc' = "idle"
  /\ telling' = {}
  /\ hearing' = {}
  /\ looked' = 0
  /\ failed' = TRUE
  /\ UNCHANGED <<now, round, inFlight, target, ask, next, held, down, downGen>>

(* A slot that was found to hold firmware is read again to be used, with no *)
(* lock held.  StopClear empties it; what was nil is followed, and nothing  *)
(* recovers. *)
EmptiedSince == looked # 0 /\ fw[looked] = "none"

Panic ==
  /\ EmptiedSince
  /\ pc' = "panicked"
  /\ UNCHANGED <<now, round, inFlight, telling, hearing, target, ask, looked, next,
                 held, down, failed, downGen>>

(* TransmitFinished, to whatever firmware the sender's slot holds now. *)
TellSender(t) ==
  /\ pc = "complete"
  /\ t \in telling
  /\ telling' = telling \ {t}
  /\ IF fw[t.from] = "none"
       THEN UNCHANGED toNode
       ELSE CanSend(t.from) /\ Put(t.from, "txDone", t.gen)
  /\ UNCHANGED <<now, pc, round, inFlight, hearing, target, ask, looked, next,
                 held, down, failed, downGen, debugging, slot, closed, acked,
                 transmitted, toEngine, process>>

TellSenderFails(t) ==
  /\ pc = "complete"
  /\ t \in telling
  /\ fw[t.from] # "none"
  /\ CanFail(t.from)
  /\ Abort
  /\ UNCHANGED <<debugging, slot, bridge, process>>

Delivering == pc = "complete" /\ telling = {} /\ hearing # {}

(* deliver: a receiver's slot is looked at.  Of those that t is handed to   *)
(* this is the last, or the one that goes wrong. *)
LookAtReceiver(t, n) ==
  /\ Delivering
  /\ t \in hearing
  /\ looked = 0
  /\ n # t.from
  /\ fw[n] # "none"
  /\ looked' = n
  /\ UNCHANGED <<now, pc, round, inFlight, telling, hearing, target, ask, next, held,
                 down, failed, downGen, debugging, slot, bridge, process>>

(* Every receiver that heard t, if any runs firmware, took the frame. *)
DeliverFrame(t) ==
  /\ Delivering
  /\ t \in hearing
  /\ looked # 0 => t.from # looked /\ fw[looked] # "none" /\ CanSend(looked)
  /\ hearing' = hearing \ {t}
  /\ looked' = 0
  /\ UNCHANGED <<now, pc, round, inFlight, telling, target, ask, next, held, down,
                 failed, downGen, debugging, slot, bridge, process>>

(* One of those it was handed to would not take it - or had been emptied,   *)
(* and the bridge that was read when it was looked at is closed. *)
DeliverFails ==
  /\ Delivering
  /\ looked # 0
  /\ EmptiedSince \/ CanFail(looked)
  /\ Abort
  /\ UNCHANGED <<debugging, slot, bridge, process>>

DeliverPanics ==
  /\ Delivering
  /\ Panic
  /\ UNCHANGED <<debugging, slot, bridge, process>>

-----------------------------------------------------------------------------
(* Engine.Step, second part: runFirmware.                                   *)

(* firmwareTargets: who this tick has to run, read in one pass. *)
FirmwareTargets ==
  /\ pc = "complete"
  /\ telling = {}
  /\ hearing = {}
  /\ pc' = "firmware"
  /\ round' = now
  /\ target' = [n \in Node |-> IF fw[n] # "none" /\ ~down[n] THEN gen[n] ELSE 0]
  /\ ask' = [n \in Node |-> IF fw[n] # "none" /\ ~down[n] THEN "target" ELSE "none"]
  /\ UNCHANGED <<now, inFlight, telling, hearing, looked, next, debugging, held,
                 down, failed, downGen, slot, bridge, process>>

(* The firmware this round was to run has gone: its bridge is closed, or the *)
(* slot has been given another start since.                                  *)
Gone(n) == closed[n] \/ gen[n] # target[n]

First(n, what) == ask[n] = what /\ \A m \in Node : m < n => ask[m] # what
NoneLeft(what) == \A n \in Node : ask[n] # what

MarkDown(n) ==
  /\ down' = [down EXCEPT ![n] = TRUE]
  /\ downGen' = [downGen EXCEPT ![n] = IF down[n] THEN @ ELSE target[n]]

(* Three slips: a held node that has gone is never caught up, a held node   *)
(* is known by its name alone, whatever firmware it now runs, and a node    *)
(* that has not answered is asked again.                                    *)
CaughtUpOnlyByAck(n) == acked[n] >= held[n].at
HeldByName(n) == held[n] # NotHeld
NeverStillHeld(n) == FALSE

(* CaughtUp, for the process the node is held on. *)
CaughtUp(n) == Gone(n) \/ acked[n] >= held[n].at
HeldProcess(n) == held[n] # NotHeld /\ held[n].gen = target[n]
StillHeld(n) == HeldProcess(n) /\ ~CaughtUp(n)

(* A node a debugger still holds is passed over. *)
SkipHeld(n) ==
  /\ pc = "firmware"
  /\ First(n, "target")
  /\ StillHeld(n)
  /\ ask' = [ask EXCEPT ![n] = "none"]
  /\ acked' = [acked EXCEPT ![n] = 0]
  /\ UNCHANGED <<now, pc, round, inFlight, telling, hearing, target, looked,
                 next, held, down, failed, downGen, debugging, slot, closed,
                 transmitted, toNode, toEngine, process>>

(* Asking a held node's bridge whether it caught up takes the answer. *)
Released(n) ==
  /\ ~StillHeld(n)
  /\ held' = [held EXCEPT ![n] = NotHeld]
  /\ acked' = [acked EXCEPT ![n] = IF HeldProcess(n) /\ ~Gone(n) THEN 0 ELSE @]

(* SetChannelBusy and BeginAdvance: the tick is on the wire. *)
BeginAdvance(n) ==
  /\ pc = "firmware"
  /\ First(n, "target")
  /\ Released(n)
  /\ ~Gone(n)
  /\ Put(n, "tick", now)
  /\ ask' = [ask EXCEPT ![n] = "asked"]
  /\ UNCHANGED <<now, pc, round, inFlight, telling, hearing, target, looked,
                 next, down, failed, downGen, debugging, slot, closed,
                 transmitted, toEngine, process>>

BeginAdvanceFails(n) ==
  /\ pc = "firmware"
  /\ First(n, "target")
  /\ Released(n)
  /\ Gone(n) \/ proc[n] = "gone"
  /\ MarkDown(n)
  /\ ask' = [ask EXCEPT ![n] = "none"]
  /\ UNCHANGED <<now, pc, round, inFlight, telling, hearing, target, looked,
                 next, failed, debugging, slot, closed, transmitted, toNode,
                 toEngine, process>>

(* A slip: any acknowledgement will do, or none at all. *)
WaitAdvanceAnyAck(n) ==
  /\ pc = "firmware"
  /\ NoneLeft("target")
  /\ First(n, "asked")
  /\ gen[n] = target[n]
  /\ acked[n] <= round
  /\ acked' = [acked EXCEPT ![n] = 0]
  /\ ask' = [ask EXCEPT ![n] = "answered"]
  /\ UNCHANGED <<now, pc, round, inFlight, telling, hearing, target, looked,
                 next, held, down, failed, downGen, debugging, slot, closed,
                 transmitted, toNode, toEngine, process>>

(* WaitAdvance: the acknowledgement asked for. *)
WaitAdvance(n) ==
  /\ pc = "firmware"
  /\ NoneLeft("target")
  /\ First(n, "asked")
  /\ gen[n] = target[n]
  /\ acked[n] = round
  /\ acked' = [acked EXCEPT ![n] = 0]
  /\ ask' = [ask EXCEPT ![n] = "answered"]
  /\ UNCHANGED <<now, pc, round, inFlight, telling, hearing, target, looked,
                 next, held, down, failed, downGen, debugging, slot, closed,
                 transmitted, toNode, toEngine, process>>

(* An acknowledgement of an earlier tick is passed over. *)
WaitAdvanceStale(n) ==
  /\ pc = "firmware"
  /\ NoneLeft("target")
  /\ First(n, "asked")
  /\ gen[n] = target[n]
  /\ acked[n] \in 1 .. round - 1
  /\ acked' = [acked EXCEPT ![n] = 0]
  /\ UNCHANGED <<engine, debugging, slot, closed, transmitted, toNode, toEngine,
                 process>>

(* A start of the firmware that has been replaced since may have answered   *)
(* before it was stopped; whether it had is left open.                      *)
WaitAdvanceReplaced(n) ==
  /\ pc = "firmware"
  /\ NoneLeft("target")
  /\ First(n, "asked")
  /\ gen[n] # target[n]
  /\ ask' = [ask EXCEPT ![n] = "answered"]
  /\ UNCHANGED <<now, pc, round, inFlight, telling, hearing, target, looked,
                 next, held, down, failed, downGen, debugging, slot, bridge,
                 process>>

(* A slip: the wait does not listen for the node going away. *)
WaitAdvanceHearsNoEnd(n) ==
  /\ pc = "firmware"
  /\ NoneLeft("target")
  /\ First(n, "asked")
  /\ acked[n] > round
  /\ MarkDown(n)
  /\ acked' = [acked EXCEPT ![n] = 0]
  /\ ask' = [ask EXCEPT ![n] = "none"]
  /\ UNCHANGED <<now, pc, round, inFlight, telling, hearing, target, looked,
                 next, held, failed, debugging, slot, closed, transmitted,
                 toNode, toEngine, process>>

(* The node stopped, or acknowledged an instant nobody asked it for. *)
WaitAdvanceFails(n) ==
  /\ pc = "firmware"
  /\ NoneLeft("target")
  /\ First(n, "asked")
  /\ Gone(n) \/ acked[n] > round
  /\ MarkDown(n)
  /\ acked' = [acked EXCEPT ![n] = IF Gone(n) THEN @ ELSE 0]
  /\ ask' = [ask EXCEPT ![n] = "none"]
  /\ UNCHANGED <<now, pc, round, inFlight, telling, hearing, target, looked,
                 next, held, failed, debugging, slot, closed, transmitted,
                 toNode, toEngine, process>>

(* A slip: a node being debugged is excused and not remembered. *)
WaitDeadlineForgets(n) ==
  /\ pc = "firmware"
  /\ NoneLeft("target")
  /\ First(n, "asked")
  /\ ~Gone(n)
  /\ proc[n] # "run" \/ n \in Stallable
  /\ ask' = [ask EXCEPT ![n] = "none"]
  /\ IF n \in debugging THEN UNCHANGED <<down, downGen>> ELSE MarkDown(n)
  /\ UNCHANGED <<now, pc, round, inFlight, telling, hearing, target, looked,
                 next, held, failed, debugging, slot, bridge, process>>

(* The deadline passes first: a node being debugged is held at this tick,   *)
(* any other is given up on.                                                *)
WaitDeadline(n) ==
  /\ pc = "firmware"
  /\ NoneLeft("target")
  /\ First(n, "asked")
  /\ ~Gone(n)
  /\ proc[n] # "run" \/ n \in Stallable
  /\ ask' = [ask EXCEPT ![n] = "none"]
  /\ IF n \in debugging
       THEN held' = [held EXCEPT ![n] = [gen |-> target[n], at |-> round]]
            /\ UNCHANGED <<down, downGen>>
       ELSE MarkDown(n) /\ UNCHANGED held
  /\ UNCHANGED <<now, pc, round, inFlight, telling, hearing, target, looked,
                 next, failed, debugging, slot, bridge, process>>

-----------------------------------------------------------------------------
(* Engine.Step, third part: collectTransmissions.                           *)

Collecting == pc = "firmware" /\ NoneLeft("target") /\ NoneLeft("asked")

(* On to the next node, or out of Step. *)
Onward ==
  /\ pc' = IF next = N THEN "idle" ELSE pc
  /\ next' = IF next = N THEN 1 ELSE next + 1

(* A node that runs no firmware is passed over. *)
CollectPasses ==
  /\ Collecting
  /\ looked = 0
  /\ fw[next] = "none"
  /\ Onward
  /\ UNCHANGED <<now, round, inFlight, telling, hearing, target, ask, looked, held,
                 down, failed, downGen, debugging, slot, bridge, process>>

CollectLooks ==
  /\ Collecting
  /\ looked = 0
  /\ fw[next] # "none"
  /\ looked' = next
  /\ UNCHANGED <<now, pc, round, inFlight, telling, hearing, target, ask, next, held,
                 down, failed, downGen, debugging, slot, bridge, process>>

(* One frame out of Transmitted, from whatever the slot holds by now ...    *)
CollectTakes(air) ==
  LET n == looked
      earlier == {t \in inFlight : t.from = n /\ t.gen = gen[n] /\ t.start = now}
  IN  /\ Collecting
      /\ n # 0
      /\ fw[n] # "none"
      /\ transmitted[n] > 0
      /\ transmitted' = [transmitted EXCEPT ![n] = @ - 1]
      /\ inFlight' = inFlight \cup
           {[from |-> n, gen |-> gen[n], start |-> now, nth |-> Cardinality(earlier) + 1,
             end |-> now + air]}
      /\ UNCHANGED <<now, pc, round, telling, hearing, target, ask, looked, next, held,
                     down, failed, downGen, debugging, slot, closed, acked, toNode,
                     toEngine, process>>

(* ... until there is none. *)
CollectEnds ==
  /\ Collecting
  /\ looked # 0
  /\ fw[looked] # "none"
  /\ transmitted[looked] = 0
  /\ looked' = 0
  /\ Onward
  /\ UNCHANGED <<now, round, inFlight, telling, hearing, target, ask, held, down,
                 failed, downGen, debugging, slot, bridge, process>>

CollectPanics ==
  /\ Collecting
  /\ Panic
  /\ UNCHANGED <<debugging, slot, bridge, process>>

CollectTransmissions ==
  \/ CollectPasses \/ CollectLooks \/ CollectEnds \/ CollectPanics
  \/ \E air \in 1 .. MaxAir : CollectTakes(air)

-----------------------------------------------------------------------------
(* Bridge.read, the goroutine at the engine's end of the socket.            *)

NextFrom(n, kind) ==
  /\ ~closed[n]
  /\ toEngine[n] # <<>>
  /\ Head(toEngine[n]).kind = kind
  /\ toEngine' = [toEngine EXCEPT ![n] = Tail(@)]

(* A slip: a frame is queued whether or not there is room. *)
ReadFrameUnbounded(n) ==
  /\ NextFrom(n, "frame")
  /\ transmitted' = [transmitted EXCEPT ![n] = @ + 1]
  /\ UNCHANGED <<engine, debugging, slot, closed, acked, toNode, process>>

(* A frame there is no room for is dropped, and nothing says so. *)
ReadFrame(n) ==
  /\ NextFrom(n, "frame")
  /\ transmitted' = [transmitted EXCEPT ![n] = IF @ < TransmittedCap THEN @ + 1 ELSE @]
  /\ UNCHANGED <<engine, debugging, slot, closed, acked, toNode, process>>

(* A second acknowledgement with nobody having taken the first ends the     *)
(* connection.                                                              *)
ReadAck(n) ==
  /\ NextFrom(n, "ack")
  /\ IF acked[n] = 0
       THEN /\ acked' = [acked EXCEPT ![n] = Head(toEngine[n]).val]
            /\ UNCHANGED closed
       ELSE /\ closed' = [closed EXCEPT ![n] = TRUE]
            /\ UNCHANGED acked
  /\ UNCHANGED <<engine, debugging, slot, transmitted, toNode, process>>

(* The process has gone: the connection ends, with whatever was unread. *)
ReadEOF(n) ==
  /\ ~closed[n]
  /\ proc[n] = "gone"
  /\ closed' = [closed EXCEPT ![n] = TRUE]
  /\ toEngine' = [toEngine EXCEPT ![n] = <<>>]
  /\ UNCHANGED <<engine, debugging, slot, acked, transmitted, toNode, process>>

-----------------------------------------------------------------------------
(* The firmware process.                                                    *)

Running(n) == proc[n] = "run" /\ ~closed[n]
Handles(n, kind) ==
  Running(n) /\ toNode[n] # <<>> /\ Head(toNode[n]).kind = kind

NodeTxDone(n) ==
  /\ Handles(n, "txDone")
  /\ onAir' = [onAir EXCEPT ![n] = FALSE]
  /\ toNode' = [toNode EXCEPT ![n] = Tail(@)]
  /\ UNCHANGED <<engine, debugging, slot, closed, acked, transmitted, toEngine,
                 proc, clock>>

(* While it runs a tick the firmware may start one transmission, and no     *)
(* other until it is told that this one has ended.                          *)
NodeTransmit(n) ==
  /\ Handles(n, "tick")
  /\ ~onAir[n]
  /\ onAir' = [onAir EXCEPT ![n] = TRUE]
  /\ toEngine' = [toEngine EXCEPT ![n] = Append(@, [kind |-> "frame", val |-> 0])]
  /\ UNCHANGED <<engine, debugging, slot, closed, acked, transmitted, toNode, proc,
                 clock>>

(* StepTick, then the acknowledgement. *)
NodeAck(n) ==
  /\ Handles(n, "tick")
  /\ LET at == Head(toNode[n]).val
     IN  /\ clock' = [clock EXCEPT ![n] = at]
         /\ toEngine' = [toEngine EXCEPT ![n] = Append(@, [kind |-> "ack", val |-> at])]
  /\ toNode' = [toNode EXCEPT ![n] = Tail(@)]
  /\ UNCHANGED <<engine, debugging, slot, closed, acked, transmitted, proc, onAir>>

Crash(n) ==
  /\ n \in Crashable
  /\ Running(n)
  /\ proc' = [proc EXCEPT ![n] = "gone"]
  /\ UNCHANGED <<engine, debugging, slot, bridge, clock, onAir>>

(* A breakpoint is hit, and later let go. *)
Break(n) ==
  /\ n \in debugging
  /\ Running(n)
  /\ proc' = [proc EXCEPT ![n] = "break"]
  /\ UNCHANGED <<engine, debugging, slot, bridge, clock, onAir>>

Continue(n) ==
  /\ proc[n] = "break"
  /\ proc' = [proc EXCEPT ![n] = "run"]
  /\ UNCHANGED <<engine, debugging, slot, bridge, clock, onAir>>

-----------------------------------------------------------------------------
(* What the session does to a node.  node.debug is a verb, so it runs on    *)
(* the goroutine that steps, between two steps.  A reflash stops and starts *)
(* a node from a goroutine of its own, at any moment.                       *)

SetDebug(n) ==
  /\ n \in Debuggable \ debugging
  /\ pc = "idle"
  /\ fw[n] # "none"
  /\ debugging' = debugging \cup {n}
  /\ UNCHANGED <<engine, slot, bridge, process>>

ClearDebug(n) ==
  /\ n \in debugging
  /\ pc = "idle"
  /\ fw[n] # "none"
  /\ DebugOffWhileHeld \/ held[n] = NotHeld
  /\ debugging' = debugging \ {n}
  /\ held' = [held EXCEPT ![n] = NotHeld]
  /\ UNCHANGED <<now, pc, round, inFlight, telling, hearing, target, ask,
                 looked, next, down, failed, downGen, slot, bridge, process>>

(* stopNode: Firmware.Close, and only when that returns Firmware = nil. *)
StopClose(n) ==
  /\ fw[n] = "up"
  /\ fw' = [fw EXCEPT ![n] = "stopping"]
  /\ closed' = [closed EXCEPT ![n] = TRUE]
  /\ UNCHANGED <<engine, debugging, gen, acked, transmitted, toNode, toEngine, process>>

StopClear(n) ==
  /\ fw[n] = "stopping"
  /\ fw' = [fw EXCEPT ![n] = "none"]
  /\ proc' = [proc EXCEPT ![n] = "gone"]
  /\ UNCHANGED <<engine, debugging, gen, bridge, clock, onAir>>

(* An attach hands over a process that has connected and run its boot       *)
(* offset, during which it may already have transmitted.                    *)
Adopt(n) ==
  /\ fw[n] = "none"
  /\ gen[n] < MaxGen[n]
  /\ fw' = [fw EXCEPT ![n] = "up"]
  /\ gen' = [gen EXCEPT ![n] = @ + 1]
  /\ closed' = [closed EXCEPT ![n] = FALSE]
  /\ acked' = [acked EXCEPT ![n] = 0]
  /\ toNode' = [toNode EXCEPT ![n] = <<>>]
  /\ toEngine' = [toEngine EXCEPT ![n] = <<>>]
  /\ proc' = [proc EXCEPT ![n] = "run"]
  /\ clock' = [clock EXCEPT ![n] = 0]
  /\ \E sent \in BOOLEAN :
       /\ onAir' = [onAir EXCEPT ![n] = sent]
       /\ transmitted' = [transmitted EXCEPT ![n] = IF sent THEN 1 ELSE 0]
  /\ UNCHANGED <<engine, debugging>>

-----------------------------------------------------------------------------
Completing ==
  \/ \E t \in telling : TellSender(t) \/ TellSenderFails(t)
  \/ \E t \in hearing : DeliverFrame(t) \/ \E n \in Node : LookAtReceiver(t, n)
  \/ DeliverFails \/ DeliverPanics

RunningFirmware(n) ==
  \/ SkipHeld(n) \/ BeginAdvance(n) \/ BeginAdvanceFails(n)
  \/ WaitAdvance(n) \/ WaitAdvanceStale(n) \/ WaitAdvanceReplaced(n)
  \/ WaitAdvanceFails(n) \/ WaitDeadline(n)

Step ==
  \/ StepBegin \/ Completing \/ FirmwareTargets
  \/ \E n \in Node : RunningFirmware(n)
  \/ CollectTransmissions

(* The bridges and the session are goroutines of the process that steps, and *)
(* a panic ends it. *)
Read(n) == pc # "panicked" /\ (ReadFrame(n) \/ ReadAck(n) \/ ReadEOF(n))
Firmware(n) == NodeTxDone(n) \/ NodeTransmit(n) \/ NodeAck(n)
Misfortune(n) == Crash(n) \/ Break(n) \/ Continue(n)
Session(n) ==
  /\ pc # "panicked"
  /\ SetDebug(n) \/ ClearDebug(n) \/ StopClose(n) \/ StopClear(n) \/ Adopt(n)

Next ==
  \/ Step
  \/ \E n \in Node : Read(n) \/ Firmware(n) \/ Misfortune(n) \/ Session(n)

Spec == Init /\ [][Next]_vars

(* The store's ticker keeps stepping, a deadline is a timer and passes even *)
(* if the node is stopped and let go again without end, a goroutine reading *)
(* a socket reads, and a process that is scheduled answers its tick.        *)
(* Nothing makes a debugger let go, a node transmit, or a reflash happen.   *)
Fairness ==
  /\ WF_vars(Step)
  /\ SF_vars(\E n \in Node : WaitDeadline(n))
  /\ \A n \in Node : WF_vars(Read(n))
  /\ \A n \in Node : WF_vars(NodeTxDone(n) \/ NodeAck(n))

FairSpec == Spec /\ Fairness
-----------------------------------------------------------------------------
WalkOK == looked \in 0 .. N /\ next \in Node /\ IsFiniteSet(inFlight)

TypeOK ==
  /\ now \in Nat /\ round \in Nat
  /\ pc \in {"idle", "complete", "firmware", "panicked"}
  /\ inFlight \subseteq Transmission
  /\ telling \subseteq Transmission
  /\ hearing \subseteq Transmission
  /\ target \in [Node -> Nat]
  /\ ask \in [Node -> {"none", "target", "asked", "answered"}]
  /\ WalkOK
  /\ debugging \subseteq Node
  /\ held \in [Node -> [gen : Nat, at : Nat]]
  /\ down \in [Node -> BOOLEAN]
  /\ fw \in [Node -> {"none", "up", "stopping"}]
  /\ gen \in [Node -> Nat]
  /\ closed \in [Node -> BOOLEAN]
  /\ acked \in [Node -> Nat]
  /\ transmitted \in [Node -> 0 .. TransmittedCap]
  /\ toNode \in [Node -> Seq(ToNodeMsg)]
  /\ toEngine \in [Node -> Seq(ToEngineMsg)]
  /\ proc \in [Node -> {"run", "break", "gone"}]
  /\ clock \in [Node -> Nat]
  /\ onAir \in [Node -> BOOLEAN]
  /\ failed \in BOOLEAN
  /\ downGen \in [Node -> Nat]

(* The lockstep clock is a barrier.  In a round the engine counts on the    *)
(* nodes it has yet to ask, is waiting for, or has been answered by, as     *)
(* long as that start of the firmware still has its connection.             *)
CountsOn(n) ==
  ask[n] # "none" /\ target[n] = gen[n] /\ fw[n] # "none" /\ ~closed[n]

Barrier == INSTANCE TickBarrier
  WITH member <- {n \in Node : CountsOn(n)}

(* Every step of the engine, its bridges and the processes is a step of the *)
(* barrier: runFirmware never announces an instant while a node it still    *)
(* counts on is behind the last, and no node's clock passes it.             *)
LockstepIsABarrier == Barrier!Spec

(* A node is owed one acknowledgement at a time.  Bridge.acked holds one,   *)
(* and Bridge.read hangs up on a second, so a live node that were ever owed *)
(* two could be cut off for having answered both.                           *)
Ticks(n) == {k \in DOMAIN toNode[n] : toNode[n][k].kind = "tick"}
Acks(n) == {k \in DOMAIN toEngine[n] : toEngine[n][k].kind = "ack"}
AtMostOne(S) == \A j, k \in S : j = k

OneAckOwed ==
  \A n \in Node : fw[n] = "up" /\ ~closed[n] =>
    /\ AtMostOne(Ticks(n)) /\ AtMostOne(Acks(n))
    /\ Ticks(n) # {} => Acks(n) = {} /\ acked[n] = 0
    /\ Acks(n) # {} => acked[n] = 0

(* No connection is cut off at the engine's end while its process still     *)
(* runs: a node that does everything it is asked is never hung up on.       *)
NeverCutOff ==
  \A n \in Node : fw[n] = "up" /\ closed[n] => proc[n] = "gone"

(* A node left held after a step is held on the process that step was to    *)
(* run, and if that process is still connected the tick it was held at, or  *)
(* its answer, is still on its way.  Held on an earlier start of its        *)
(* firmware, or at a tick already answered, it would be passed over for the *)
(* rest of the run.                                                         *)
HeldWillAnswer ==
  \A n \in Node : pc = "idle" /\ held[n] # NotHeld /\ target[n] # 0 =>
    /\ held[n].gen = target[n]
    /\ \/ Gone(n)
       \/ acked[n] = held[n].at
       \/ \E k \in Acks(n) : toEngine[n][k].val = held[n].at
       \/ \E k \in Ticks(n) : toNode[n][k].val = held[n].at

(* A radio that believes it is transmitting is going to be told that it has *)
(* finished: its frame is on the way to the channel, on the air, finished   *)
(* and about to be told, or the word is in its socket.  Otherwise it waits  *)
(* for ever and never transmits again.  Until a Step has returned an error. *)
CompletionOwed ==
  \A n \in Node : onAir[n] /\ fw[n] = "up" /\ ~closed[n] /\ ~failed =>
    \/ transmitted[n] > 0
    \/ \E k \in DOMAIN toEngine[n] : toEngine[n][k].kind = "frame"
    \/ \E t \in inFlight \cup telling : t.from = n /\ t.gen = gen[n]
    \/ \E k \in DOMAIN toNode[n] : toNode[n][k] = [kind |-> "txDone", val |-> gen[n]]

(* A Step that begins returns, whatever its nodes do: die, stop in a        *)
(* debugger, miss every deadline or be replaced under it - but for a node   *)
(* whose slot is emptied between the look at it and its use, which panics.  *)
StepReturns == pc # "idle" ~> pc \in {"idle", "panicked"}

(* A held node that has answered, or whose process has gone, is taken back  *)
(* by the next step that runs firmware, unless it is being stopped.         *)
HeldIsReleased ==
  \A n \in Node :
    (pc = "idle" /\ now < MaxTick /\ held[n] # NotHeld /\ fw[n] = "up" /\ ~down[n]
       /\ (closed[n] \/ acked[n] >= held[n].at))
    ~> (held[n] = NotHeld \/ fw[n] # "up" \/ failed \/ pc = "panicked")

(* Each Step runs the firmware: a dead node does not stop the others from   *)
(* being ticked.                                                            *)
EveryStepRunsFirmware == pc = "idle" => round = now

(* A node marked down is the one that failed, not a later start of its      *)
(* firmware.                                                                *)
DownIsThisStart ==
  \A n \in Node : fw[n] = "up" /\ down[n] => downGen[n] = gen[n]
=============================================================================
