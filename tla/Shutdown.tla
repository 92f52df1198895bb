------------------------------ MODULE Shutdown ------------------------------
(***************************************************************************)
(* Going away tidily: whoever ends the process - a signal, or the operator  *)
(* quitting - asks the store for the engine, closes it, and only then       *)
(* exits.  Each step has a bound, since a shutdown that hangs gets killed   *)
(* and leaves the firmware behind.  The other calls of Do are the verbs the *)
(* store may be busy with.                                                  *)
(***************************************************************************)
EXTENDS Store

CONSTANT Closer   \* the calls of CloseContext

ASSUME ShutdownAssumption == Closer \subseteq Impatient

VARIABLES
  eng,       \* s.eng is set
  found,     \* the closers for whom the store's detach found an engine
  step,      \* where each CloseContext is
  holds,     \* the closers with the engine in hand
  engClosed, \* Engine.Close has returned
  exited     \* how the process has ended

closeVars == <<eng, found, step, holds, engClosed>>
shutdownVars == <<vars, closeVars, exited>>

ShutdownInit ==
  /\ Init
  /\ eng = TRUE
  /\ found = {}
  /\ step = [k \in Closer |-> "off"]
  /\ holds = {}
  /\ engClosed = FALSE
  /\ exited = "no"

At(k, label) == step' = [step EXCEPT ![k] = label]

-----------------------------------------------------------------------------
(* The verb session.detach, on the store's goroutine: the engine is read    *)
(* when it begins and cleared when it is done.                              *)
Handler ==
  IF serving' \in Closer \ {serving}
    THEN found' = (IF eng THEN found \cup {serving'} ELSE found) /\ UNCHANGED eng
    ELSE IF serving \in Closer \ {serving'}
      THEN eng' = (eng /\ serving \notin found) /\ UNCHANGED found
      ELSE UNCHANGED <<eng, found>>

(* The store goes on, and ordinary verbs come and go. *)
StoreStep ==
  /\ \/ Stop \/ Run
     \/ \E r \in Request \ Closer : Do(r)
     \/ \E k \in Closer :
          \/ Send(k) \/ SendRefused(k) \/ TakeReply(k) \/ WaitRefused(k) \/ GiveUp(k)
  /\ Handler
  /\ UNCHANGED <<step, holds, engClosed, exited>>

(* CloseContext: through the store if it is running. *)
CloseContext(k) ==
  /\ step[k] = "off"
  /\ IF Running
       THEN Ask(k) /\ At(k, "detaching")
       ELSE At(k, "alone") /\ UNCHANGED vars
  /\ UNCHANGED <<eng, found, holds, engClosed, exited>>

(* A slip the runs must catch: whatever detach handed over is dropped when  *)
(* the engine is not found where it was.                                    *)
HandedNothing(k) ==
  /\ step[k] = "detaching"
  /\ pc[k] = "answered"
  /\ At(k, "closing")
  /\ UNCHANGED <<vars, eng, found, holds, engClosed, exited>>

Handed(k) ==
  /\ step[k] = "detaching"
  /\ pc[k] = "answered"
  /\ At(k, "closing")
  /\ holds' = IF k \in found THEN holds \cup {k} ELSE holds
  /\ UNCHANGED <<vars, eng, found, engClosed, exited>>

NotHanded(k) ==
  /\ step[k] = "detaching"
  /\ pc[k] \in {"refused", "gaveUp"}
  /\ At(k, "alone")
  /\ UNCHANGED <<vars, eng, found, holds, engClosed, exited>>

(* detach by the closer itself, in a store that is not moving or is taken   *)
(* not to be.                                                               *)
DetachRead(k) ==
  /\ step[k] = "alone"
  /\ holds' = IF eng THEN holds \cup {k} ELSE holds
  /\ At(k, IF eng THEN "clearing" ELSE "closing")
  /\ UNCHANGED <<vars, eng, found, engClosed, exited>>

DetachClear(k) ==
  /\ step[k] = "clearing"
  /\ eng' = FALSE
  /\ At(k, "closing")
  /\ UNCHANGED <<vars, found, holds, engClosed, exited>>

EngineClose(k) ==
  /\ step[k] = "closing"
  /\ engClosed' = (engClosed \/ k \in holds)
  /\ At(k, "closed")
  /\ UNCHANGED <<vars, eng, found, holds, exited>>

Exit(k) ==
  /\ step[k] = "closed"
  /\ exited' = "closed"
  /\ UNCHANGED <<vars, closeVars>>

(* A slip: the bound starts only once the store has handed over the engine. *)
ExitAtBoundHanded(k) ==
  /\ step[k] = "closing"
  /\ exited' = "bound"
  /\ UNCHANGED <<vars, closeVars>>

(* Twenty seconds are up. *)
ExitAtBound(k) ==
  /\ step[k] \notin {"off", "closed"}
  /\ exited' = "bound"
  /\ UNCHANGED <<vars, closeVars>>

-----------------------------------------------------------------------------
CloserStep(k) ==
  \/ CloseContext(k) \/ Handed(k) \/ NotHanded(k) \/ DetachRead(k) \/ DetachClear(k)
  \/ EngineClose(k) \/ Exit(k) \/ ExitAtBound(k)

ShutdownNext ==
  /\ exited = "no"
  /\ StoreStep \/ \E k \in Closer : CloserStep(k)

ShutdownSpec == ShutdownInit /\ [][ShutdownNext]_shutdownVars

(* Nothing is assumed of the store, of a verb's handler or of a node's      *)
(* death: only that the bound of a shutdown runs out.                       *)
ShutdownFairness ==
  \A k \in Closer :
    WF_shutdownVars(exited = "no" /\ (Exit(k) \/ ExitAtBound(k)))

ShutdownFairSpec == ShutdownSpec /\ ShutdownFairness

-----------------------------------------------------------------------------
ShutdownTypeOK ==
  /\ TypeOK
  /\ eng \in BOOLEAN
  /\ found \subseteq Closer
  /\ step \in [Closer -> {"off", "detaching", "alone", "clearing", "closing", "closed"}]
  /\ holds \subseteq Closer
  /\ engClosed \in BOOLEAN
  /\ exited \in {"no", "closed", "bound"}

(* The store handed k the engine, but k had stopped waiting. *)
LostBy(k) == pc[k] = "gaveUp" /\ k \in found

(* A shutdown that says it is done has closed the engine - unless the       *)
(* engine went to a closer that timed out while the store was handing it    *)
(* over, or another closer has it, or has it coming, and is still at it.    *)
ExitsAfterClose ==
  exited = "closed" =>
    engClosed \/ \E k \in Closer : LostBy(k) \/ (k \in found \cup holds /\ step[k] # "closed")

(* Asked to end, the process ends, even with the store wedged in a verb and *)
(* a node that will not die.                                                *)
AskedToEndEnds == \A k \in Closer : step[k] # "off" ~> exited # "no"

(* "Close the engine, and only then exit" (shutdown.go).                    *)
OnlyThenExit == exited = "closed" => engClosed
=============================================================================
