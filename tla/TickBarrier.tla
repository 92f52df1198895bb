----------------------------- MODULE TickBarrier -----------------------------
(***************************************************************************)
(* What the lockstep clock promises, with no sockets, deadlines or          *)
(* processes in it.                                                         *)
(*                                                                         *)
(* The engine announces an instant (a round).  Everybody who takes part in  *)
(* the round runs its own clock up to that instant, at its own pace.  The   *)
(* next instant is announced only once every participant has reached this   *)
(* one: a node may leave (it died, a debugger holds it, it was stopped),    *)
(* but one that stays is never left behind and never runs ahead.            *)
(***************************************************************************)
EXTENDS Naturals

CONSTANT Node

VARIABLES
  round,    \* the last instant announced
  clock,    \* the instant each node's own clock has reached
  member    \* the nodes the engine is still counting on in this round

vars == <<round, clock, member>>

Init ==
  /\ round = 0
  /\ clock = [n \in Node |-> 0]
  /\ member = {}

(* Announce a later instant, to whoever is to take part in it. *)
Announce ==
  /\ \A n \in member : clock[n] = round
  /\ round' > round
  /\ member' \subseteq Node
  /\ UNCHANGED clock

(* A node runs forward, no further than the instant announced. *)
Run(n) ==
  /\ \E t \in (clock[n] + 1) .. round : clock' = [clock EXCEPT ![n] = t]
  /\ UNCHANGED <<round, member>>

(* The engine stops counting on a node in this round. *)
Leave(n) ==
  /\ n \in member
  /\ member' = member \ {n}
  /\ UNCHANGED <<round, clock>>

(* A node nobody counts on is switched on afresh. *)
Restart(n) ==
  /\ n \notin member
  /\ clock' = [clock EXCEPT ![n] = 0]
  /\ UNCHANGED <<round, member>>

Next ==
  \/ Announce
  \/ \E n \in Node : Run(n) \/ Leave(n) \/ Restart(n)

Spec == Init /\ [][Next]_vars
=============================================================================
