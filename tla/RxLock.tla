------------------------------- MODULE RxLock -------------------------------
(***************************************************************************)
(* One demodulator per receiver: which transmission holds it when another   *)
(* one needs it, worked out from the transmissions that were on the air.    *)
(***************************************************************************)
EXTENDS Integers

CONSTANTS
  PreambleMs,   \* how long a preamble lasts
  LockMs,       \* how long the detector listens before it commits
  SlackMs       \* how much preamble must be left when the demodulator frees

ASSUME RxLockAssumption ==
  PreambleMs \in Nat /\ LockMs \in Nat /\ SlackMs \in Nat

(* A candidate is a transmission as this receiver hears it: id, from, start, *)
(* end, and how loudly (dBm, on any scale).                                 *)

(* The first moment c's preamble could be found by a demodulator that is    *)
(* busy until freeAt, and whether enough of it is left by then.             *)
AcquiredAt(c, freeAt) == IF c.start < freeAt THEN freeAt ELSE c.start
Survives(c, freeAt) ==
  c.start < freeAt => c.start + PreambleMs >= freeAt + SlackMs /\ c.end > freeAt

(* Louder first, then the earlier start, then the earlier packet. *)
Dominates(c, d) ==
  \/ c.dBm > d.dBm
  \/ c.dBm = d.dBm /\ c.start < d.start
  \/ c.dBm = d.dBm /\ c.start = d.start /\ c.id <= d.id

(* Those acquirable inside the detector's window of the earliest of them. *)
Contest(left, freeAt) ==
  {c \in left : \A d \in left :
     AcquiredAt(c, freeAt) <= AcquiredAt(d, freeAt) + LockMs}

Winner(contest) == CHOOSE c \in contest : \A d \in contest : Dominates(c, d)

(* Who holds the demodulator against t: 0 when t itself takes it.  Each     *)
(* round drops the candidates whose preamble did not outlive the last hold, *)
(* and gives the demodulator to the dominant one of the next contest for    *)
(* the whole of its airtime.                                                *)
HeldBy(t, cands) ==
  LET ends == {0} \cup {c.end : c \in cands}
      Walk[left \in SUBSET cands, freeAt \in ends, holder \in {0} \cup {c.from : c \in cands}] ==
        LET able == {c \in left : Survives(c, freeAt)}
            best == Winner(Contest(able, freeAt))
        IN  IF t \notin able THEN holder
            ELSE IF best = t THEN 0
            ELSE Walk[able \ {best}, best.end, best.from]
  IN  Walk[cands, 0, 0]
=============================================================================
