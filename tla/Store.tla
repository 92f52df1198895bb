-------------------------------- MODULE Store --------------------------------
(***************************************************************************)
(* The store: one goroutine owns the world, and everybody else asks it for  *)
(* verbs over a channel and waits for the reply on a channel of their own.  *)
(* The same goroutine takes the simulation's steps off a ticker, and before *)
(* each it answers what has queued up.                                      *)
(***************************************************************************)
EXTENDS Naturals, Sequences

CONSTANTS
  Request,     \* the calls of Do there may be at a time
  Impatient,   \* those whose context may end before they are answered
  Queue,       \* how many commands the channel holds
  DrainMax     \* how many a tick answers before it steps

ASSUME StoreAssumption ==
  /\ "nobody" \notin Request
  /\ Impatient \subseteq Request
  /\ Queue \in Nat \ {0}
  /\ DrainMax \in Nat \ {0}

VARIABLES
  loop,      \* what Run is doing
  stopping,  \* its context has ended, or stop has been closed
  serving,   \* the command whose handler is running
  drained,   \* how many this tick has answered
  cmds,      \* the channel
  replied,   \* the requests with a result in their reply channel
  pc,        \* where each call of Do is
  ran        \* the requests whose handler has been entered

callVars == <<cmds, replied, pc, ran>>
vars == <<loop, stopping, serving, drained, callVars>>

Init ==
  /\ loop = "unbegun"
  /\ stopping = FALSE
  /\ serving = "nobody"
  /\ drained = 0
  /\ cmds = << >>
  /\ replied = {}
  /\ pc = [r \in Request |-> "idle"]
  /\ ran = {}

(* Closed when Run returns: every Do hears it. *)
Done == loop = "returned"

Running == loop \notin {"unbegun", "returned"}

Goto(r, label) == pc' = [pc EXCEPT ![r] = label]

-----------------------------------------------------------------------------
(* Do.                                                                      *)

(* A call of its own reply channel: an earlier one by the same caller has   *)
(* been answered.                                                           *)
Ask(r) ==
  /\ pc[r] \in {"idle", "answered"}
  /\ Goto(r, "sending")
  /\ ran' = ran \ {r}
  /\ UNCHANGED <<loop, stopping, serving, drained, cmds, replied>>

Send(r) ==
  /\ pc[r] = "sending"
  /\ Len(cmds) < Queue
  /\ cmds' = Append(cmds, r)
  /\ Goto(r, "waiting")
  /\ UNCHANGED <<loop, stopping, serving, drained, replied, ran>>

SendRefused(r) ==
  /\ pc[r] = "sending"
  /\ Done
  /\ Goto(r, "refused")
  /\ UNCHANGED <<loop, stopping, serving, drained, cmds, replied, ran>>

TakeReply(r) ==
  /\ pc[r] = "waiting"
  /\ r \in replied
  /\ replied' = replied \ {r}
  /\ Goto(r, "answered")
  /\ UNCHANGED <<loop, stopping, serving, drained, cmds, ran>>

(* A slip the runs must catch: the reply is not looked for again once the   *)
(* store is known to have stopped.                                          *)
WaitRefusedUnlooked(r) ==
  /\ pc[r] = "waiting"
  /\ Done
  /\ Goto(r, "refused")
  /\ UNCHANGED <<loop, stopping, serving, drained, cmds, replied, ran>>

(* done is heard, and the reply channel is looked in once more. *)
WaitRefused(r) ==
  /\ pc[r] = "waiting"
  /\ Done
  /\ r \notin replied
  /\ Goto(r, "refused")
  /\ UNCHANGED <<loop, stopping, serving, drained, cmds, replied, ran>>

(* The context ends: whatever is in the queue or in the reply stays there. *)
GiveUp(r) ==
  /\ r \in Impatient
  /\ pc[r] \in {"sending", "waiting"}
  /\ Goto(r, "gaveUp")
  /\ UNCHANGED <<loop, stopping, serving, drained, cmds, replied, ran>>

-----------------------------------------------------------------------------
(* Run.                                                                     *)

Begin ==
  /\ loop = "unbegun"
  /\ loop' = "select"
  /\ UNCHANGED <<stopping, serving, drained, callVars>>

Stop ==
  /\ ~stopping
  /\ stopping' = TRUE
  /\ UNCHANGED <<loop, serving, drained, callVars>>

Return ==
  /\ loop = "select"
  /\ stopping
  /\ loop' = "returned"
  /\ UNCHANGED <<stopping, serving, drained, callVars>>

Receive ==
  /\ cmds # << >>
  /\ serving' = Head(cmds)
  /\ cmds' = Tail(cmds)
  /\ ran' = ran \cup {Head(cmds)}
  /\ UNCHANGED <<stopping, replied, pc>>

(* Between two ticks, one command. *)
Serve ==
  /\ loop = "select"
  /\ Receive
  /\ loop' = "serving"
  /\ UNCHANGED drained

(* The handler has returned, or the verb is not known: either way a result. *)
Replies == replied' = replied \cup {serving} /\ serving' = "nobody"

Served ==
  /\ loop = "serving"
  /\ Replies
  /\ loop' = "select"
  /\ UNCHANGED <<stopping, drained, cmds, pc, ran>>

Tick ==
  /\ loop = "select"
  /\ loop' = "draining"
  /\ drained' = 0
  /\ UNCHANGED <<stopping, serving, callVars>>

(* A slip: a tick steps without answering anybody first. *)
DrainNothing ==
  /\ loop = "draining"
  /\ drained < 0
  /\ Receive
  /\ loop' = "servingDrained"
  /\ UNCHANGED drained

(* A slip: a tick answers whatever comes before it steps. *)
DrainAll ==
  /\ loop = "draining"
  /\ Receive
  /\ loop' = "servingDrained"
  /\ UNCHANGED drained

Drain ==
  /\ loop = "draining"
  /\ drained < DrainMax
  /\ Receive
  /\ loop' = "servingDrained"
  /\ UNCHANGED drained

DrainServed ==
  /\ loop = "servingDrained"
  /\ Replies
  /\ loop' = "draining"
  /\ drained' = drained + 1
  /\ UNCHANGED <<stopping, cmds, pc, ran>>

(* The step itself, when the world is playing, runs here to its end. *)
Step ==
  /\ loop = "draining"
  /\ cmds = << >> \/ drained = DrainMax
  /\ loop' = "select"
  /\ UNCHANGED <<stopping, serving, drained, callVars>>

-----------------------------------------------------------------------------
Run == Begin \/ Return \/ Serve \/ Served \/ Tick \/ Drain \/ DrainServed \/ Step

Do(r) == Ask(r) \/ Send(r) \/ SendRefused(r) \/ TakeReply(r) \/ WaitRefused(r) \/ GiveUp(r)

Next == Stop \/ Run \/ \E r \in Request : Do(r)

Spec == Init /\ [][Next]_vars

(* The store's goroutine runs, and whatever it waits for it gets: a handler *)
(* returns and the ticker ticks.  Which of two ready channels a select      *)
(* takes is not assumed.  A call that can go on does, and a sender blocked  *)
(* on a full channel gets its turn, since the runtime queues senders.       *)
Fairness ==
  /\ WF_vars(Run)
  /\ \A r \in Request :
       /\ SF_vars(Send(r))
       /\ WF_vars(SendRefused(r) \/ TakeReply(r) \/ WaitRefused(r))

FairSpec == Spec /\ Fairness

-----------------------------------------------------------------------------
TypeOK ==
  /\ loop \in {"unbegun", "select", "serving", "draining", "servingDrained", "returned"}
  /\ stopping \in BOOLEAN
  /\ serving \in Request \cup {"nobody"}
  /\ drained \in 0 .. DrainMax
  /\ cmds \in Seq(Request)
  /\ Len(cmds) <= Queue
  /\ replied \subseteq Request
  /\ pc \in [Request -> {"idle", "sending", "waiting", "answered", "refused", "gaveUp"}]
  /\ ran \subseteq Request

(* Whoever is told that the store has stopped is told the truth: the verb   *)
(* did not run, and never will, though the command may lie in the queue.    *)
(* Work that was done is never reported as refused.                         *)
RefusedNeverRan == \A r \in Request : pc[r] = "refused" => r \notin ran

(* What each caller sees of the store is what SerialServer promises.        *)
Server == INSTANCE SerialServer WITH
  stage <- [r \in Request |-> IF pc[r] \in {"sending", "waiting"} THEN "asked" ELSE pc[r]]

StoreIsASerialServer == Server!Spec
=============================================================================
