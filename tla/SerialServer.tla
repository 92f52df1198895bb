----------------------------- MODULE SerialServer -----------------------------
(***************************************************************************)
(* What a store promises whoever asks it for a verb, with no queue, ticker  *)
(* or channels in it: verbs run one at a time; an answer means the verb ran *)
(* once, and a refusal that it never did and never will.  Only somebody who *)
(* stopped waiting does not know.                                           *)
(***************************************************************************)
CONSTANT Request

VARIABLES
  stage,   \* what each asker knows
  ran      \* the requests whose verb has begun

vars == <<stage, ran>>

Stages == {"idle", "asked", "answered", "refused", "gaveUp"}

Init ==
  /\ stage = [r \in Request |-> "idle"]
  /\ ran = {}

Becomes(r, s) == stage' = [stage EXCEPT ![r] = s]

Ask(r) ==
  /\ stage[r] \in {"idle", "answered"}
  /\ Becomes(r, "asked")
  /\ ran' = ran \ {r}

Run(r) ==
  /\ stage[r] \in {"asked", "gaveUp"}
  /\ r \notin ran
  /\ ran' = ran \cup {r}
  /\ UNCHANGED stage

Answer(r) ==
  /\ stage[r] = "asked"
  /\ r \in ran
  /\ Becomes(r, "answered")
  /\ UNCHANGED ran

Refuse(r) ==
  /\ stage[r] = "asked"
  /\ r \notin ran
  /\ Becomes(r, "refused")
  /\ UNCHANGED ran

GiveUp(r) ==
  /\ stage[r] = "asked"
  /\ Becomes(r, "gaveUp")
  /\ UNCHANGED ran

Next == \E r \in Request : Ask(r) \/ Run(r) \/ Answer(r) \/ Refuse(r) \/ GiveUp(r)

Spec == Init /\ [][Next]_vars
=============================================================================
