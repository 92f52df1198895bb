-------------------------------- MODULE Air --------------------------------
(***************************************************************************)
(* What is on the air, and what became of it.                               *)
(*                                                                         *)
(* A transmission occupies the channel from the step it is collected in     *)
(* until its airtime has passed.  The first step at or after that moment    *)
(* takes it off the air and judges it at every listening receiver, against  *)
(* everything that could have shared the air with it.  The engine keeps     *)
(* only as much of the past as it thinks those judgements will need.        *)
(*                                                                         *)
(* Whether a signal is strong enough comes out of noise and terrain and is  *)
(* left open here; of what a collision destroys only the bound is kept that *)
(* the error correction never exceeds, a symbol.                            *)
(***************************************************************************)
EXTENDS RxLock, FiniteSets, Sequences, Functions

CONSTANTS
  N,            \* how many nodes there are
  Listener,     \* those that listen: they run firmware, or observe
  Power,        \* Power[n][m]: how loudly m hears n, 0 for not at all
  Message,      \* what frames carry
  Airtime,      \* how long frames may last, in ms
  SymbolMs,     \* how long a symbol lasts
  Capture,      \* captureThresholdDB: how much louder rides over another
  KeyedTwice,   \* may a frame be injected for a node that is transmitting?
  StepMs,       \* how far a step moves the clock
  MaxMs,        \* bound on the clock
  MaxPackets    \* bound on how many frames are sent

Node == 1 .. N

ASSUME AirAssumption ==
  /\ N \in Nat
  /\ Listener \subseteq Node
  /\ Power \in [Node -> [Node -> Nat]]
  /\ Airtime \subseteq Nat \ {0}
  /\ SymbolMs \in Nat
  /\ Capture \in Nat \ {0}
  /\ KeyedTwice \in BOOLEAN
  /\ StepMs \in Nat \ {0}
  /\ MaxMs \in Nat
  /\ MaxPackets \in Nat

Transmission ==
  [id : Nat, from : Node, msg : Message, start : Nat, end : Nat]

Kind == {"tx", "rx", "miss", "half-duplex", "receiver-busy"}
Event == [at : Nat, kind : Kind, id : Nat, to : Nat]

VARIABLES
  now,         \* nowMs
  packet,      \* how many transmissions have been numbered
  inFlight,    \* on the air
  recent,      \* ended, but overlapping something still on the air
  concurrent,  \* what this step judges against
  judging,     \* the receptions this step still has to judge
  seen,        \* the messages each node has had
  heard,       \* per node: frames accepted
  unique,      \* per sender: UniqueDelivery
  redundant,   \* per sender: RedundantRelay
  ledger,      \* rows of the ledger and the capture: reception -> how many
  events,      \* the log, in the order it is written
  air,         \* history: every transmission there has been
  failed       \* history: some Step has returned an error

clockVars == <<now, packet>>
airVars == <<inFlight, recent, air>>
scores == <<seen, heard, unique, redundant>>
vars == <<clockVars, airVars, concurrent, judging, scores, ledger, events, failed>>

Init ==
  /\ now = 0 /\ packet = 0
  /\ inFlight = {} /\ recent = {} /\ air = {}
  /\ concurrent = {} /\ judging = {}
  /\ seen = [n \in Node |-> {}]
  /\ heard = [n \in Node |-> 0]
  /\ unique = [n \in Node |-> 0]
  /\ redundant = [n \in Node |-> 0]
  /\ ledger = [r \in {} |-> 0]
  /\ events = <<>>
  /\ failed = FALSE

-----------------------------------------------------------------------------
Overlap(s, t) == s.start < t.end /\ t.start < s.end

Ended(t) == now + StepMs >= t.end

(* A slip the runs must catch: what ended in an earlier step is forgotten,  *)
(* whatever is still on the air beside it.                                  *)
KeptThisStepOnly(done, still) ==
  {r \in done : \E s \in still : r.end > s.start}

(* What has ended is remembered while it outlasts the start of anything     *)
(* still on the air.                                                        *)
Kept(done, still) ==
  {r \in recent \cup done : \E s \in still : r.end > s.start}

(* A node would not take what it was handed: Step returns the error, and    *)
(* whatever this batch had still to judge is never judged.                  *)
HandOffFails == judging' = {} /\ failed' = TRUE

(* A slip: a finished transmission is judged at every node, listening or not. *)
CompleteForEverybody ==
  /\ judging = {}
  /\ now + StepMs <= MaxMs
  /\ now' = now + StepMs
  /\ LET done == {t \in inFlight : Ended(t)}
         still == inFlight \ done
     IN  /\ inFlight' = still
         /\ concurrent' = inFlight \cup recent
         /\ recent' = Kept(done, still)
         /\ \/ judging' = {r \in [tx : done, to : Node] : r.to # r.tx.from}
               /\ UNCHANGED failed
            \/ done # {} /\ HandOffFails
  /\ UNCHANGED <<packet, air, scores, ledger, events>>

(* Step advances the clock; completeTransmissions takes what has ended off  *)
(* the air, sets out what it is to be judged against, and tells the senders *)
(* first, one of which may no longer be there.                              *)
CompleteTransmissions ==
  /\ judging = {}
  /\ now + StepMs <= MaxMs
  /\ now' = now + StepMs
  /\ LET done == {t \in inFlight : Ended(t)}
         still == inFlight \ done
     IN  /\ inFlight' = still
         /\ concurrent' = inFlight \cup recent
         /\ recent' = Kept(done, still)
         /\ \/ judging' = {r \in [tx : done, to : Listener] : r.to # r.tx.from}
               /\ UNCHANGED failed
            \/ done # {} /\ HandOffFails
  /\ UNCHANGED <<packet, air, scores, ledger, events>>

(* startTransmission: what the firmware decided to send, or was injected.   *)
(* The firmware waits for one frame to end before it sends another; nothing *)
(* makes what is injected wait.                                             *)
StartTransmission(n, m, airtime) ==
  /\ judging = {}
  /\ packet < MaxPackets
  /\ KeyedTwice \/ \A t \in inFlight : t.from # n
  /\ packet' = packet + 1
  /\ LET t == [id |-> packet + 1, from |-> n, msg |-> m, start |-> now, end |-> now + airtime]
     IN  /\ inFlight' = inFlight \cup {t}
         /\ air' = air \cup {t}
         /\ events' = Append(events, [at |-> now, kind |-> "tx", id |-> t.id, to |-> 0])
  /\ UNCHANGED <<now, recent, concurrent, judging, scores, ledger, failed>>

-----------------------------------------------------------------------------
(* deliver: one receiver's verdict on one finished transmission.            *)

(* Finished transmissions are taken in the order they were sent, and the    *)
(* receivers of each in the order of the nodes.                             *)
Turn(r) ==
  /\ r \in judging
  /\ \A q \in judging :
       \/ r.tx.id < q.tx.id
       \/ r.tx.id = q.tx.id /\ r.to <= q.to

Offered(r) == Power[r.tx.from][r.to] > 0

(* A node that is transmitting cannot hear. *)
Deaf(r) == \E o \in concurrent : o.from = r.to /\ Overlap(o, r.tx)

(* What this receiver's demodulator could have followed instead. *)
AsHeard(r, known) ==
  {[id |-> o.id, from |-> o.from, start |-> o.start, end |-> o.end,
    dBm |-> Power[o.from][r.to]] :
     o \in {c \in known : c.from # r.to /\ (c.id = r.tx.id \/ Power[c.from][r.to] > 0)}}

(* demodulatorHeldBy, given the transmissions it knows of. *)
DemodulatorHeldBy(r, known) ==
  LET cands == AsHeard(r, known)
  IN  HeldBy(CHOOSE c \in cands : c.id = r.tx.id, cands)

Held(r) == DemodulatorHeldBy(r, concurrent) # 0

(* uncapturedSpans: what a third node sends meanwhile, and the receiver     *)
(* cannot capture over, destroys the symbols it lands on. *)
LandsOn(o, r) ==
  /\ o.from \notin {r.to, r.tx.from}
  /\ Overlap(o, r.tx)
  /\ Power[o.from][r.to] > 0
  /\ Power[r.tx.from][r.to] < Power[o.from][r.to] + Capture

Least(a, b) == IF a < b THEN a ELSE b
Most(a, b) == IF a < b THEN b ELSE a
Together(s, t) == Least(s.end, t.end) - Most(s.start, t.start)

(* survivesCorruption, as far as it can: the best code puts back one symbol. *)
Repairable(r) == \A o \in concurrent : LandsOn(o, r) => Together(o, r.tx) <= SymbolMs

Row(r) == [tx |-> r.tx.id, to |-> r.to]

(* A slip: a reception already in the ledger is entered again. *)
RecordRowTwice(r) ==
  ledger' = [x \in DOMAIN ledger \cup {Row(r)} |->
               IF x = Row(r) THEN 2 ELSE ledger[x]]

(* Ledger.Record and captureWrite, once per verdict. *)
RecordRow(r) ==
  ledger' = [x \in DOMAIN ledger \cup {Row(r)} |->
               IF x \in DOMAIN ledger
                 THEN ledger[x] + (IF x = Row(r) THEN 1 ELSE 0) ELSE 1]

(* A slip: a verdict is dated at the moment the transmission began. *)
NoteAtStart(r, kind) ==
  events' = Append(events, [at |-> r.tx.start, kind |-> kind, id |-> r.tx.id, to |-> r.to])

Note(r, kind) ==
  events' = Append(events, [at |-> r.tx.end, kind |-> kind, id |-> r.tx.id, to |-> r.to])

Judged(r) ==
  /\ Turn(r)
  /\ RecordRow(r)
  /\ UNCHANGED <<clockVars, airVars, concurrent>>

Settled(r) == judging' = judging \ {r} /\ UNCHANGED failed

(* Nothing measurable arrived, and nothing is said about it. *)
JudgeOutOfRange(r) ==
  /\ Judged(r)
  /\ ~Offered(r)
  /\ Settled(r)
  /\ UNCHANGED <<scores, events>>

JudgeDeaf(r) ==
  /\ Judged(r)
  /\ Offered(r) /\ Deaf(r)
  /\ Note(r, "half-duplex")
  /\ Settled(r)
  /\ UNCHANGED scores

(* Strong enough, and following somebody else. *)
JudgeBusy(r) ==
  /\ Judged(r)
  /\ Offered(r) /\ ~Deaf(r) /\ Held(r)
  /\ Note(r, "receiver-busy")
  /\ Settled(r)
  /\ UNCHANGED scores

(* Too weak, or destroyed in a collision.  A firmware whose demodulator was *)
(* free is told of the frame it lost.                                       *)
JudgeLost(r) ==
  /\ Judged(r)
  /\ Offered(r) /\ ~Deaf(r)
  /\ Note(r, "miss")
  /\ Settled(r) \/ (~Held(r) /\ HandOffFails)
  /\ UNCHANGED scores

(* Two slips: a frame is accepted whatever its receiver's own transmitter   *)
(* was doing, or whatever landed on it.                                     *)
HearsWhileKeyed(r) == Offered(r) /\ ~Held(r) /\ Repairable(r)
HearsThroughDamage(r) == Offered(r) /\ ~Deaf(r) /\ ~Held(r)

Hears(r) == Offered(r) /\ ~Deaf(r) /\ ~Held(r) /\ Repairable(r)

(* A slip: the receiver does not remember having had the message. *)
JudgeAcceptedUnseen(r) ==
  /\ Judged(r)
  /\ Hears(r)
  /\ heard' = [heard EXCEPT ![r.to] = @ + 1]
  /\ IF r.tx.msg \notin seen[r.to]
       THEN unique' = [unique EXCEPT ![r.tx.from] = @ + 1] /\ UNCHANGED redundant
       ELSE redundant' = [redundant EXCEPT ![r.tx.from] = @ + 1] /\ UNCHANGED unique
  /\ Note(r, "rx")
  /\ Settled(r) \/ HandOffFails
  /\ UNCHANGED seen

(* Accepted: scored as a unique or a redundant delivery, and handed over. *)
JudgeAccepted(r) ==
  /\ Judged(r)
  /\ Hears(r)
  /\ heard' = [heard EXCEPT ![r.to] = @ + 1]
  /\ seen' = [seen EXCEPT ![r.to] = @ \cup {r.tx.msg}]
  /\ IF r.tx.msg \notin seen[r.to]
       THEN unique' = [unique EXCEPT ![r.tx.from] = @ + 1] /\ UNCHANGED redundant
       ELSE redundant' = [redundant EXCEPT ![r.tx.from] = @ + 1] /\ UNCHANGED unique
  /\ Note(r, "rx")
  /\ Settled(r) \/ HandOffFails

-----------------------------------------------------------------------------
Deliver(r) ==
  \/ JudgeOutOfRange(r) \/ JudgeDeaf(r) \/ JudgeBusy(r)
  \/ JudgeLost(r) \/ JudgeAccepted(r)

Next ==
  \/ CompleteTransmissions
  \/ \E n \in Node, m \in Message, a \in Airtime : StartTransmission(n, m, a)
  \/ \E r \in judging : Deliver(r)

Spec == Init /\ [][Next]_vars
-----------------------------------------------------------------------------
(* EventsSince: a binary search for the first event at or after a moment.   *)
EventsSince(from) ==
  LET lo[p \in (0 .. Len(events)) \X (0 .. Len(events))] ==
        LET mid == (p[1] + p[2]) \div 2
        IN  IF p[1] >= p[2] THEN p[1]
            ELSE IF events[mid + 1].at < from THEN lo[<<mid + 1, p[2]>>] ELSE lo[<<p[1], mid>>]
  IN  SubSeq(events, lo[<<0, Len(events)>>] + 1, Len(events))

-----------------------------------------------------------------------------
TypeOK ==
  /\ now \in Nat /\ packet \in Nat
  /\ air \subseteq Transmission
  /\ inFlight \subseteq air /\ recent \subseteq air /\ concurrent \subseteq air
  /\ judging \subseteq [tx : air, to : Listener]
  /\ seen \in [Node -> SUBSET Message]
  /\ heard \in [Node -> Nat]
  /\ unique \in [Node -> Nat] /\ redundant \in [Node -> Nat]
  /\ events \in Seq(Event)
  /\ failed \in BOOLEAN

(* A finished transmission is judged against everything that shared any of  *)
(* its time on the air, however short and however long ago it ended.        *)
(* concurrent is put together from what is in flight and what recent still  *)
(* holds, and recent is pruned every step.                                  *)
ConcurrentComplete ==
  \A r \in judging : \A o \in air : Overlap(o, r.tx) => o \in concurrent

(* LoRa is half duplex: a node never accepts a frame any part of which      *)
(* flew while that node was transmitting.                                   *)
Accepted == {events[k] : k \in {j \in DOMAIN events : events[j].kind = "rx"}}
Sent(id) == CHOOSE t \in air : t.id = id

HalfDuplex ==
  \A e \in Accepted : \A o \in air : o.from = e.to => ~Overlap(o, Sent(e.id))

(* "A LoRa receiver decodes one packet at a time" (rxlock.go): of two        *)
(* senders it never accepts packets that were on the air together for       *)
(* longer than the symbol a code can put back, in whatever order they are   *)
(* judged and whatever was forgotten between the two verdicts.              *)
OneDemodulator ==
  \A d, e \in Accepted :
    LET s == Sent(d.id)
        t == Sent(e.id)
    IN  d.to = e.to /\ s.from # t.from /\ Overlap(s, t) => Together(s, t) <= SymbolMs

(* Every acceptance is scored once and to its sender, and a message counts  *)
(* as newly delivered exactly once for each node that has it, however many  *)
(* relays carried it there.                                                 *)
Scored ==
  /\ SumFunction(unique) = SumFunction([n \in Node |-> Cardinality(seen[n])])
  /\ SumFunction(unique) + SumFunction(redundant) = SumFunction(heard)

(* Every finished transmission is judged once at every other listener, in   *)
(* ledger and capture alike: none twice, and until a Step has returned an   *)
(* error none is missed.                                                    *)
JudgedOnce ==
  /\ \A x \in DOMAIN ledger : ledger[x] = 1
  /\ judging = {} /\ ~failed =>
       \A t \in air : t.end <= now => \A n \in Listener \ {t.from} :
         [tx |-> t.id, to |-> n] \in DOMAIN ledger

(* EventsSince says that it copies the events at or after a moment and that *)
(* they arrive in time order (events.go).  They do not: a verdict is dated  *)
(* when its frame ended, which may be in the middle of a step that has      *)
(* logged later ones.  What the search does keep: it may miss what is       *)
(* younger than the moment asked for by less than a step, and nothing else. *)
EventsSinceNearly ==
  \A from \in 0 .. MaxMs :
    {k \in DOMAIN events : events[k].at >= from + StepMs}
      \subseteq {k \in DOMAIN events : k > Len(events) - Len(EventsSince(from))}

(* "EventsSince copies only the events at or after a simulated moment"      *)
(* (events.go): all of those and no others, which the code does not keep.   *)
EventsSinceIsThose ==
  \A from \in 0 .. MaxMs :
    {k \in DOMAIN events : events[k].at >= from}
      = {k \in DOMAIN events : k > Len(events) - Len(EventsSince(from))}

(* Whether a demodulator was held does not depend on how long ago what held *)
(* it ended: the answer is the one the whole history of the air gives, and  *)
(* a packet that lost the demodulator never holds it.                       *)
LockIsTheTimelines ==
  \A r \in judging : DemodulatorHeldBy(r, concurrent) = DemodulatorHeldBy(r, air)
=============================================================================
