----------------------------- MODULE AirProofs -----------------------------
(***************************************************************************)
(* What is proved of Air for every network, every airtime and every step:   *)
(* its types, that a finished transmission is judged against everything it  *)
(* shared the air with, that nobody hears while transmitting or two packets *)
(* at a time, that every finished transmission is judged once at every      *)
(* listener and every packet taken is in the scores, that the log is out of *)
(* order by less than a step, and what a search of such a log still finds.  *)
(***************************************************************************)
EXTENDS Air, FiniteSetTheorems, WellFoundedInduction, TLAPS

(* What a verdict does, whichever it is: the air and the clock are left     *)
(* alone, and nothing is added to what is still to be judged.               *)
LEMMA DeliverFrame ==
  ASSUME NEW r \in judging, Deliver(r)
  PROVE  /\ UNCHANGED <<clockVars, airVars, concurrent>>
         /\ judging' \subseteq judging
         /\ failed' \in {failed, TRUE}
<1>1. CASE JudgeOutOfRange(r)
  BY <1>1 DEF JudgeOutOfRange, Judged, Settled
<1>2. CASE JudgeDeaf(r)
  BY <1>2 DEF JudgeDeaf, Judged, Settled
<1>3. CASE JudgeBusy(r)
  BY <1>3 DEF JudgeBusy, Judged, Settled
<1>4. CASE JudgeLost(r)
  BY <1>4 DEF JudgeLost, Judged, Settled, HandOffFails
<1>5. CASE JudgeAccepted(r)
  BY <1>5 DEF JudgeAccepted, Judged, Settled, HandOffFails
<1> QED
  BY <1>1, <1>2, <1>3, <1>4, <1>5 DEF Deliver

(* What a verdict says: nothing, or one event about this reception, which   *)
(* is an acceptance only if the receiver could hear it.                     *)
LEMMA DeliverNotes ==
  ASSUME NEW r \in judging, Deliver(r)
  PROVE  \/ UNCHANGED events
         \/ \E kind \in Kind : Note(r, kind) /\ (kind = "rx" => Hears(r))
<1>1. CASE JudgeOutOfRange(r)
  BY <1>1 DEF JudgeOutOfRange
<1>2. CASE JudgeDeaf(r)
  BY <1>2 DEF JudgeDeaf, Kind
<1>3. CASE JudgeBusy(r)
  BY <1>3 DEF JudgeBusy, Kind
<1>4. CASE JudgeLost(r)
  BY <1>4 DEF JudgeLost, Kind
<1>5. CASE JudgeAccepted(r)
  BY <1>5 DEF JudgeAccepted, Kind
<1> QED
  BY <1>1, <1>2, <1>3, <1>4, <1>5 DEF Deliver

(* How a verdict scores: at most one receiver's and one sender's counts.    *)
LEMMA DeliverScores ==
  ASSUME NEW r \in judging, Deliver(r),
         r.to \in Node, r.tx \in Transmission,
         seen \in [Node -> SUBSET Message], heard \in [Node -> Nat],
         unique \in [Node -> Nat], redundant \in [Node -> Nat]
  PROVE  /\ seen' \in [Node -> SUBSET Message]
         /\ heard' \in [Node -> Nat]
         /\ unique' \in [Node -> Nat]
         /\ redundant' \in [Node -> Nat]
<1>1. CASE JudgeAccepted(r)
  <2>1. r.tx.from \in Node /\ r.tx.msg \in Message
    BY DEF Transmission
  <2> QED
    BY <1>1, <2>1 DEF JudgeAccepted
<1>2. CASE UNCHANGED scores
  BY <1>2 DEF scores
<1> QED
  BY <1>1, <1>2 DEF Deliver, JudgeOutOfRange, JudgeDeaf, JudgeBusy, JudgeLost

-----------------------------------------------------------------------------
(* Air keeps its types: in particular what is in flight, remembered or      *)
(* judged is always something that was sent, and only listeners judge.      *)
THEOREM TypeCorrect == Spec => []TypeOK
<1>1. Init => TypeOK
  <2> SUFFICES ASSUME Init PROVE TypeOK
    OBVIOUS
  <2>1. now \in Nat /\ packet \in Nat /\ failed \in BOOLEAN
    BY DEF Init
  <2>2. /\ air \subseteq Transmission
        /\ inFlight \subseteq air /\ recent \subseteq air /\ concurrent \subseteq air
        /\ judging \subseteq [tx : air, to : Listener]
    BY DEF Init
  <2>3. seen \in [Node -> SUBSET Message]
    BY DEF Init
  <2>4. heard \in [Node -> Nat] /\ unique \in [Node -> Nat] /\ redundant \in [Node -> Nat]
    BY DEF Init
  <2>5. events \in Seq(Event)
    BY DEF Init
  <2> QED
    BY <2>1, <2>2, <2>3, <2>4, <2>5 DEF TypeOK
<1>2. TypeOK /\ [Next]_vars => TypeOK'
  <2> SUFFICES ASSUME TypeOK, [Next]_vars
               PROVE  TypeOK'
    OBVIOUS
  <2>1. CASE CompleteTransmissions
    <3>1. now' \in Nat
      BY <2>1, AirAssumption DEF TypeOK, CompleteTransmissions
    <3>2. inFlight' \subseteq air' /\ recent' \subseteq air' /\ concurrent' \subseteq air'
      BY <2>1 DEF TypeOK, CompleteTransmissions, Kept
    <3>3. judging' \subseteq [tx : air', to : Listener']
      BY <2>1 DEF TypeOK, CompleteTransmissions, HandOffFails
    <3> QED
      BY <2>1, <3>1, <3>2, <3>3 DEF TypeOK, CompleteTransmissions, HandOffFails, scores
  <2>2. ASSUME NEW n \in Node, NEW m \in Message, NEW a \in Airtime,
               StartTransmission(n, m, a)
        PROVE  TypeOK'
    <3> DEFINE t == [id |-> packet + 1, from |-> n, msg |-> m, start |-> now, end |-> now + a]
               e == [at |-> now, kind |-> "tx", id |-> t.id, to |-> 0]
    <3>1. t \in Transmission
      BY AirAssumption DEF TypeOK, Transmission
    <3>2. e \in Event
      BY DEF TypeOK, Event, Kind
    <3>3. /\ packet' = packet + 1
          /\ inFlight' = inFlight \cup {t}
          /\ air' = air \cup {t}
          /\ events' = Append(events, e)
          /\ UNCHANGED <<now, recent, concurrent, judging, scores, failed>>
      BY <2>2 DEF StartTransmission
    <3>4. events' \in Seq(Event)
      BY <3>2, <3>3 DEF TypeOK
    <3> HIDE DEF t, e
    <3>5. judging' \subseteq [tx : air', to : Listener']
      BY <3>3 DEF TypeOK
    <3> QED
      BY <3>1, <3>3, <3>4, <3>5 DEF TypeOK, scores
  <2>3. ASSUME NEW r \in judging, Deliver(r)
        PROVE  TypeOK'
    <3>1. r.to \in Node /\ r.tx \in Transmission /\ r.tx \in air
      BY AirAssumption DEF TypeOK
    <3>2. events' \in Seq(Event)
      <4>1. ASSUME NEW kind \in Kind, Note(r, kind)
            PROVE  events' \in Seq(Event)
        <5>1. [at |-> r.tx.end, kind |-> kind, id |-> r.tx.id, to |-> r.to] \in Event
          BY <3>1 DEF Event, Transmission, Node
        <5> QED
          BY <4>1, <5>1 DEF Note, TypeOK
      <4> QED
        BY <2>3, <4>1, DeliverNotes DEF TypeOK
    <3> QED
      BY <2>3, <3>1, <3>2, DeliverFrame, DeliverScores DEF TypeOK, clockVars, airVars
  <2>4. CASE UNCHANGED vars
    BY <2>4 DEF TypeOK, vars, clockVars, airVars, scores
  <2> QED
    BY <2>1, <2>2, <2>3, <2>4 DEF Next
<1> QED
  BY <1>1, <1>2, PTL DEF Spec

-----------------------------------------------------------------------------
(* Why the engine remembers enough.  What is no longer on the air has       *)
(* ended, and if any of its time was shared with something that is still on *)
(* the air, recent holds it.                                                *)
Remembered ==
  \A o \in air \ inFlight :
    o.end <= now /\ \A t \in inFlight : Overlap(o, t) => o \in recent
Finished == \A r \in judging : r.tx.end <= now

RememberedInv == Remembered /\ Finished /\ ConcurrentComplete

LEMMA RememberedInit == Init => RememberedInv
BY DEF Init, RememberedInv, Remembered, Finished, ConcurrentComplete

LEMMA RememberedComplete ==
  ASSUME TypeOK, RememberedInv, CompleteTransmissions
  PROVE  RememberedInv'
<1> DEFINE done == {t \in inFlight : Ended(t)}
           still == inFlight \ done
<1>1. /\ now \in Nat /\ now' = now + StepMs /\ StepMs \in Nat
      /\ inFlight' = still /\ air' = air
      /\ concurrent' = inFlight \cup recent
      /\ recent' = Kept(done, still)
      /\ \A r \in judging' : r.tx \in done
  BY AirAssumption DEF CompleteTransmissions, HandOffFails, TypeOK
<1>2. \A t \in air : t.start \in Nat /\ t.end \in Nat
  BY DEF TypeOK, Transmission
<1>3. \A t \in done : t \in air /\ t \in inFlight /\ t.end <= now'
  BY <1>1, <1>2 DEF TypeOK, Ended
<1>5. Remembered'
  <2> SUFFICES ASSUME NEW o \in air \ still
               PROVE  /\ o.end <= now'
                      /\ \A t \in still : Overlap(o, t) => o \in recent'
    BY <1>1 DEF Remembered, Overlap
  <2>1. o.end <= now'
    BY <1>1, <1>2, <1>3 DEF RememberedInv, Remembered
  <2>2. ASSUME NEW t \in still, Overlap(o, t)
        PROVE  o \in recent'
    <3>1. o \in recent \cup done
      BY <2>2 DEF RememberedInv, Remembered
    <3>2. o.end > t.start
      BY <2>2, <1>2 DEF Overlap, TypeOK
    <3> QED
      BY <1>1, <3>1, <3>2 DEF Kept
  <2> QED
    BY <2>1, <2>2
<1>6. Finished'
  BY <1>1, <1>3 DEF Finished
<1>7. ConcurrentComplete'
  <2> SUFFICES ASSUME NEW r \in judging', NEW o \in air, Overlap(o, r.tx)
               PROVE  o \in inFlight \cup recent
    BY <1>1 DEF ConcurrentComplete, Overlap
  <2> QED
    BY <1>1, <1>3 DEF RememberedInv, Remembered
<1> QED
  BY <1>5, <1>6, <1>7 DEF RememberedInv

(* A transmission that starts now shares nothing with what has ended.       *)
LEMMA RememberedStart ==
  ASSUME TypeOK, RememberedInv,
         NEW n \in Node, NEW m \in Message, NEW a \in Airtime,
         StartTransmission(n, m, a)
  PROVE  RememberedInv'
<1> DEFINE s == [id |-> packet + 1, from |-> n, msg |-> m, start |-> now, end |-> now + a]
<1>1. /\ judging = {} /\ judging' = {}
      /\ inFlight' = inFlight \cup {s} /\ air' = air \cup {s}
      /\ now' = now /\ recent' = recent
  BY DEF StartTransmission
<1>2. now \in Nat /\ a \in Nat /\ a > 0
  BY AirAssumption DEF TypeOK
<1>3. s.start = now /\ s.end = now + a
  OBVIOUS
<1>4. \A t \in air : t.start \in Nat /\ t.end \in Nat
  BY DEF TypeOK, Transmission
<1> HIDE DEF s
<1>6. Remembered'
  <2> SUFFICES ASSUME NEW o \in air \ inFlight
               PROVE  /\ o.end <= now
                      /\ \A t \in inFlight \cup {s} : Overlap(o, t) => o \in recent
    BY <1>1 DEF Remembered, Overlap
  <2>1. o.end <= now /\ \A t \in inFlight : Overlap(o, t) => o \in recent
    BY DEF RememberedInv, Remembered
  <2>2. ~Overlap(o, s)
    BY <2>1, <1>2, <1>3, <1>4 DEF Overlap
  <2> QED
    BY <2>1, <2>2
<1>7. Finished' /\ ConcurrentComplete'
  BY <1>1 DEF Finished, ConcurrentComplete
<1> QED
  BY <1>6, <1>7 DEF RememberedInv

LEMMA RememberedNext ==
  ASSUME TypeOK, RememberedInv, [Next]_vars
  PROVE  RememberedInv'
<1>1. ASSUME NEW r \in judging, Deliver(r)
      PROVE  RememberedInv'
  BY <1>1, DeliverFrame DEF RememberedInv, Remembered, Finished,
       ConcurrentComplete, Overlap, clockVars, airVars
<1>2. CASE UNCHANGED vars
  BY <1>2 DEF vars, clockVars, airVars, RememberedInv, Remembered, Finished,
       ConcurrentComplete, Overlap
<1> QED
  BY <1>1, <1>2, RememberedComplete, RememberedStart DEF Next

(* Whatever the airtimes and however long the step, completeTransmissions   *)
(* judges a finished transmission against everything it shared the air      *)
(* with: pruning recent never loses an interferer.                          *)
THEOREM ConcurrentIsComplete == Spec => []ConcurrentComplete
<1>1. Init => RememberedInv
  BY RememberedInit
<1>2. TypeOK /\ RememberedInv /\ [Next]_vars => RememberedInv'
  BY RememberedNext
<1>3. RememberedInv => ConcurrentComplete
  BY DEF RememberedInv
<1> QED
  BY <1>1, <1>2, <1>3, TypeCorrect, PTL DEF Spec

-----------------------------------------------------------------------------
(* Why a node never hears while it transmits.  A frame is numbered once, and *)
(* whatever was accepted had ended by then, clear of everything its receiver *)
(* had sent; what the receiver sends later starts later still.               *)
Numbered ==
  \A s, t \in air : s.id <= packet /\ (s.id = t.id => s = t)
HeardClear ==
  \A e \in Accepted : \E t \in air :
    /\ t.id = e.id /\ t.end <= now
    /\ \A o \in air : o.from = e.to => ~Overlap(o, t)

HeardInv == Numbered /\ HeardClear

(* Appending to the log adds at most the new event to what was accepted.    *)
LEMMA AcceptedGrows ==
  ASSUME events \in Seq(Event), NEW e \in Event, events' = Append(events, e)
  PROVE  \A x \in Accepted' : x \in Accepted \/ (x = e /\ e.kind = "rx")
<1> SUFFICES ASSUME NEW k \in DOMAIN events', events'[k].kind = "rx"
             PROVE  events'[k] \in Accepted \/ (events'[k] = e /\ e.kind = "rx")
  BY DEF Accepted
<1>1. CASE k \in DOMAIN events
  BY <1>1 DEF Accepted
<1>2. CASE k = Len(events) + 1
  BY <1>2
<1> QED
  BY <1>1, <1>2

LEMMA HeardComplete ==
  ASSUME TypeOK, HeardInv, CompleteTransmissions
  PROVE  HeardInv'
<1>1. /\ UNCHANGED <<air, packet, events>>
      /\ now \in Nat /\ now' = now + StepMs /\ StepMs \in Nat
      /\ \A t \in air : t.end \in Nat
  BY AirAssumption DEF CompleteTransmissions, TypeOK, Transmission
<1>2. Accepted' = Accepted
  BY <1>1 DEF Accepted
<1>3. \A t \in air : t.end <= now => t.end <= now'
  BY <1>1
<1> QED
  BY <1>1, <1>2, <1>3 DEF HeardInv, Numbered, HeardClear, Overlap

LEMMA HeardStart ==
  ASSUME TypeOK, HeardInv,
         NEW n \in Node, NEW m \in Message, NEW a \in Airtime,
         StartTransmission(n, m, a)
  PROVE  HeardInv'
<1> DEFINE s == [id |-> packet + 1, from |-> n, msg |-> m, start |-> now, end |-> now + a]
           e == [at |-> now, kind |-> "tx", id |-> s.id, to |-> 0]
<1>1. /\ air' = air \cup {s} /\ now' = now /\ packet' = packet + 1
      /\ events' = Append(events, e)
      /\ now \in Nat /\ packet \in Nat
      /\ s.id = packet + 1 /\ s.start = now
  BY DEF StartTransmission, TypeOK
<1>2. e \in Event /\ e.kind # "rx"
  BY <1>1 DEF Event, Kind
<1>3. \A t \in air : t.id \in Nat /\ t.start \in Nat /\ t.end \in Nat
  BY DEF TypeOK, Transmission
<1> HIDE DEF s, e
<1>4. Numbered'
  BY <1>1, <1>3 DEF HeardInv, Numbered
<1>5. Accepted' \subseteq Accepted
  BY <1>1, <1>2, AcceptedGrows DEF TypeOK
<1>6. \A t \in air : t.end <= now => ~Overlap(s, t)
  BY <1>1, <1>3 DEF Overlap
<1>7. HeardClear'
  <2> SUFFICES ASSUME NEW x \in Accepted
               PROVE  \E t \in air' :
                        /\ t.id = x.id /\ t.end <= now
                        /\ \A o \in air' : o.from = x.to => ~Overlap(o, t)
    BY <1>1, <1>5 DEF HeardClear, Overlap
  <2> QED
    BY <1>1, <1>6 DEF HeardInv, HeardClear
<1> QED
  BY <1>4, <1>7 DEF HeardInv

LEMMA HeardDeliver ==
  ASSUME TypeOK, RememberedInv, HeardInv, NEW r \in judging, Deliver(r)
  PROVE  HeardInv'
<1>1. UNCHANGED <<air, now, packet>>
  BY DeliverFrame DEF airVars, clockVars
<1>2. Numbered'
  BY <1>1 DEF HeardInv, Numbered
<1>3. CASE UNCHANGED events
  BY <1>1, <1>2, <1>3 DEF HeardInv, HeardClear, Accepted, Overlap
<1>4. ASSUME NEW kind \in Kind, Note(r, kind), kind = "rx" => Hears(r)
      PROVE  HeardInv'
  <2> DEFINE e == [at |-> r.tx.end, kind |-> kind, id |-> r.tx.id, to |-> r.to]
  <2>1. r.tx \in air /\ r.tx \in Transmission /\ r.to \in Node /\ r.tx.end <= now
    BY AirAssumption DEF TypeOK, RememberedInv, Finished
  <2>2. e \in Event /\ events' = Append(events, e)
    BY <1>4, <2>1 DEF Event, Transmission, Node, Note
  <2>3. \A x \in Accepted' : x \in Accepted \/ (x = e /\ e.kind = "rx")
    BY <2>2, AcceptedGrows DEF TypeOK
  <2>4. kind = "rx" => \A o \in air : o.from = r.to => ~Overlap(o, r.tx)
    BY <1>4 DEF Hears, Deaf, RememberedInv, ConcurrentComplete
  <2>5. e.kind = "rx" =>
          \E t \in air : /\ t.id = e.id /\ t.end <= now
                        /\ \A o \in air : o.from = e.to => ~Overlap(o, t)
    BY <2>1, <2>4
  <2> HIDE DEF e
  <2>6. HeardClear'
    BY <1>1, <2>3, <2>5 DEF HeardInv, HeardClear, Overlap
  <2> QED
    BY <1>2, <2>6 DEF HeardInv
<1> QED
  BY <1>3, <1>4, DeliverNotes

LEMMA HeardNext ==
  ASSUME TypeOK, RememberedInv, HeardInv, [Next]_vars
  PROVE  HeardInv'
<1>1. CASE UNCHANGED vars
  BY <1>1 DEF vars, clockVars, airVars, HeardInv, Numbered, HeardClear, Accepted, Overlap
<1> QED
  BY <1>1, HeardComplete, HeardStart, HeardDeliver DEF Next

(* A node never accepts a frame any part of which flew while that node was  *)
(* transmitting, however its transmissions, injected ones included, overlap *)
(* and however late the step that judges them comes.                        *)
THEOREM NeverHearsWhileKeyed == Spec => []HalfDuplex
<1>1. Init => HeardInv
  BY DEF Init, HeardInv, Numbered, HeardClear, Accepted
<1>2. TypeOK /\ RememberedInv /\ HeardInv /\ [Next]_vars => HeardInv'
  BY HeardNext
<1>3. HeardInv => HalfDuplex
  BY DEF HeardInv, Numbered, HeardClear, HalfDuplex, Sent
<1>4. Init => RememberedInv
  BY RememberedInit
<1>5. TypeOK /\ RememberedInv /\ [Next]_vars => RememberedInv'
  BY RememberedNext
<1> QED
  BY <1>1, <1>2, <1>3, <1>4, <1>5, TypeCorrect, PTL DEF Spec

-----------------------------------------------------------------------------
(* Why every finished transmission is judged once at each listener.  What   *)
(* is on the air has not ended and what is off it has; a reception waits to *)
(* be judged or is in the ledger, never both; and only ended transmissions  *)
(* have rows, so that none has one when its turn comes.                     *)
Landed == \A t \in air : t \in inFlight <=> t.end > now

Rows ==
  \A x \in DOMAIN ledger : ledger[x] = 1 /\ \E t \in air : t.id = x.tx /\ t.end <= now

Pending == \A r \in judging : Row(r) \notin DOMAIN ledger

Covered ==
  ~failed => \A t \in air : t.end <= now => \A n \in Listener \ {t.from} :
    [tx |-> t, to |-> n] \in judging \/ [tx |-> t.id, to |-> n] \in DOMAIN ledger

LedgerInv == Landed /\ Rows /\ Pending /\ Covered

(* What a verdict writes: its row, and whether the batch goes on. *)
LEMMA DeliverRecords ==
  ASSUME NEW r \in judging, Deliver(r)
  PROVE  /\ RecordRow(r)
         /\ \/ judging' = judging \ {r} /\ failed' = failed
            \/ judging' = {} /\ failed'
<1>1. CASE JudgeOutOfRange(r)
  BY <1>1 DEF JudgeOutOfRange, Judged, Settled
<1>2. CASE JudgeDeaf(r)
  BY <1>2 DEF JudgeDeaf, Judged, Settled
<1>3. CASE JudgeBusy(r)
  BY <1>3 DEF JudgeBusy, Judged, Settled
<1>4. CASE JudgeLost(r)
  BY <1>4 DEF JudgeLost, Judged, Settled, HandOffFails
<1>5. CASE JudgeAccepted(r)
  BY <1>5 DEF JudgeAccepted, Judged, Settled, HandOffFails
<1> QED
  BY <1>1, <1>2, <1>3, <1>4, <1>5 DEF Deliver

LEMMA LedgerComplete ==
  ASSUME TypeOK, HeardInv, LedgerInv, CompleteTransmissions
  PROVE  LedgerInv'
<1> DEFINE done == {t \in inFlight : Ended(t)}
<1>1. /\ judging = {} /\ UNCHANGED <<air, ledger>>
      /\ now \in Nat /\ now' = now + StepMs /\ StepMs \in Nat
      /\ inFlight' = inFlight \ done
      /\ \/ judging' = {r \in [tx : done, to : Listener] : r.to # r.tx.from} /\ failed' = failed
         \/ judging' = {} /\ failed'
  BY AirAssumption DEF CompleteTransmissions, HandOffFails, TypeOK
<1>2. /\ \A t \in air : t.end \in Nat
      /\ inFlight \subseteq air
      /\ \A t \in inFlight : t \in done <=> t.end <= now'
  BY <1>1 DEF TypeOK, Transmission, Ended
<1>3. Landed'
  BY <1>1, <1>2 DEF LedgerInv, Landed
<1>4. Rows'
  BY <1>1, <1>2 DEF LedgerInv, Rows
<1>5. Pending'
  <2> SUFFICES ASSUME NEW r \in judging', Row(r) \in DOMAIN ledger
               PROVE  FALSE
    BY <1>1 DEF Pending, Row
  <2>1. r.tx \in inFlight /\ r.tx \in air
    BY <1>1, <1>2
  <2>2. \E t \in air : t.id = r.tx.id /\ t.end <= now
    BY DEF LedgerInv, Rows, Row
  <2>3. r.tx.end <= now
    BY <2>1, <2>2 DEF HeardInv, Numbered
  <2> QED
    BY <1>1, <1>2, <2>1, <2>3 DEF LedgerInv, Landed
<1>6. Covered'
  <2> SUFFICES ASSUME ~failed', NEW t \in air, t.end <= now', NEW n \in Listener \ {t.from}
               PROVE  [tx |-> t, to |-> n] \in judging' \/ [tx |-> t.id, to |-> n] \in DOMAIN ledger
    BY <1>1 DEF Covered
  <2>1. ~failed /\ judging' = {r \in [tx : done, to : Listener] : r.to # r.tx.from}
    BY <1>1
  <2>2. CASE t \in inFlight
    BY <1>2, <2>1, <2>2
  <2>3. CASE t \notin inFlight
    BY <1>1, <1>2, <2>1, <2>3 DEF LedgerInv, Landed, Covered
  <2> QED
    BY <2>2, <2>3
<1> QED
  BY <1>3, <1>4, <1>5, <1>6 DEF LedgerInv

LEMMA LedgerStart ==
  ASSUME TypeOK, LedgerInv,
         NEW n \in Node, NEW m \in Message, NEW a \in Airtime,
         StartTransmission(n, m, a)
  PROVE  LedgerInv'
<1> DEFINE s == [id |-> packet + 1, from |-> n, msg |-> m, start |-> now, end |-> now + a]
<1>1. /\ inFlight' = inFlight \cup {s} /\ air' = air \cup {s}
      /\ UNCHANGED <<now, judging, ledger, failed>>
  BY DEF StartTransmission
<1>2. now \in Nat /\ s.end > now
  BY AirAssumption DEF TypeOK
<1>3. \A t \in air : t.end \in Nat
  BY DEF TypeOK, Transmission
<1> HIDE DEF s
<1>4. Landed'
  BY <1>1, <1>2 DEF LedgerInv, Landed
<1>5. Rows' /\ Pending'
  BY <1>1 DEF LedgerInv, Rows, Pending, Row
<1>6. Covered'
  <2>1. s \in air => s \in inFlight
    BY <1>2 DEF LedgerInv, Landed
  <2>2. ~(s.end <= now)
    <3>1. s.end \in Nat
      BY <1>2, AirAssumption DEF s, TypeOK
    <3> QED
      BY <1>2, <3>1
  <2> QED
    BY <1>1, <2>2 DEF LedgerInv, Covered
<1> QED
  BY <1>4, <1>5, <1>6 DEF LedgerInv

LEMMA LedgerDeliver ==
  ASSUME TypeOK, RememberedInv, HeardInv, LedgerInv, NEW r \in judging, Deliver(r)
  PROVE  LedgerInv'
<1>1. UNCHANGED <<air, inFlight, now>> /\ r.tx \in air /\ r.tx.end <= now
  BY DeliverFrame DEF airVars, clockVars, TypeOK, RememberedInv, Finished
<1>2. \/ judging' = judging \ {r} /\ failed' = failed
      \/ judging' = {} /\ failed'
  BY DeliverRecords
<1>3. /\ DOMAIN ledger' = DOMAIN ledger \cup {Row(r)}
      /\ \A x \in DOMAIN ledger' : ledger'[x] = 1
  BY DeliverRecords DEF RecordRow, LedgerInv, Rows, Pending
<1>4. Landed'
  BY <1>1 DEF LedgerInv, Landed
<1>5. Rows'
  BY <1>1, <1>3 DEF LedgerInv, Rows, Row
<1>6. Pending'
  <2> SUFFICES ASSUME NEW q \in judging, q # r
               PROVE  Row(q) \notin DOMAIN ledger \cup {Row(r)}
    BY <1>2, <1>3 DEF Pending, Row
  <2>1. Row(q) \notin DOMAIN ledger
    BY DEF LedgerInv, Pending
  <2>2. ASSUME Row(q) = Row(r)
        PROVE  FALSE
    <3>1. q.tx.id = r.tx.id /\ q.to = r.to
      BY <2>2 DEF Row
    <3>2. q.tx = r.tx
      BY <1>1, <3>1 DEF HeardInv, Numbered, TypeOK
    <3>3. q \in [tx : air, to : Listener] /\ r \in [tx : air, to : Listener]
      BY DEF TypeOK
    <3> QED
      BY <3>1, <3>2, <3>3
  <2> QED
    BY <2>1, <2>2
<1>7. Covered'
  <2> SUFFICES ASSUME ~failed', NEW t \in air, t.end <= now, NEW n \in Listener \ {t.from}
               PROVE  [tx |-> t, to |-> n] \in judging' \/ [tx |-> t.id, to |-> n] \in DOMAIN ledger'
    BY <1>1 DEF Covered
  <2>1. judging' = judging \ {r} /\ ~failed
    BY <1>2
  <2>2. [tx |-> t, to |-> n] \in judging \/ [tx |-> t.id, to |-> n] \in DOMAIN ledger
    BY <2>1 DEF LedgerInv, Covered
  <2>3. [tx |-> t, to |-> n] = r => [tx |-> t.id, to |-> n] = Row(r)
    BY DEF Row
  <2> QED
    BY <1>3, <2>1, <2>2, <2>3
<1> QED
  BY <1>4, <1>5, <1>6, <1>7 DEF LedgerInv

LEMMA LedgerNext ==
  ASSUME TypeOK, RememberedInv, HeardInv, LedgerInv, [Next]_vars
  PROVE  LedgerInv'
<1>1. CASE UNCHANGED vars
  BY <1>1 DEF vars, clockVars, airVars, LedgerInv, Landed, Rows, Pending, Covered, Row
<1> QED
  BY <1>1, LedgerComplete, LedgerStart, LedgerDeliver DEF Next

-----------------------------------------------------------------------------
(* How far the log is out of order.  An event is dated no later than the    *)
(* clock, and a verdict less than a step before it, since whatever is being *)
(* judged ended within this step.                                           *)
Dated == \A k \in DOMAIN events : events[k].at <= now
Fresh == \A r \in judging : now < r.tx.end + StepMs
NearlyInOrder ==
  \A j \in DOMAIN events : \A i \in DOMAIN events :
    i < j => events[i].at < events[j].at + StepMs

OrderInv == Dated /\ Fresh /\ NearlyInOrder

LEMMA EventsDated ==
  ASSUME TypeOK
  PROVE  \A k \in DOMAIN events : events[k].at \in Nat
<1>1. \A k \in DOMAIN events : events[k] \in Event
  BY DEF TypeOK
<1> QED
  BY <1>1 DEF Event

(* An event no later than the clock, and less than a step before it, may be *)
(* added at the end.                                                        *)
LEMMA OrderNoted ==
  ASSUME TypeOK, OrderInv, NEW e \in Event, events' = Append(events, e), now' = now,
         e.at <= now, now < e.at + StepMs
  PROVE  Dated' /\ NearlyInOrder'
<1>1. /\ now \in Nat /\ StepMs \in Nat /\ e.at \in Nat
      /\ \A k \in DOMAIN events : events[k].at \in Nat
  BY EventsDated, AirAssumption DEF TypeOK, Event
<1>2. /\ DOMAIN events = 1 .. Len(events) /\ DOMAIN events' = 1 .. Len(events) + 1
      /\ Len(events) \in Nat
      /\ \A k \in DOMAIN events : events'[k] = events[k]
      /\ events'[Len(events) + 1] = e
  BY DEF TypeOK
<1>3. \A k \in DOMAIN events' : k \in DOMAIN events \/ k = Len(events) + 1
  BY <1>2
<1>4. Dated'
  BY <1>2, <1>3 DEF OrderInv, Dated
<1>5. NearlyInOrder'
  <2> SUFFICES ASSUME NEW j \in DOMAIN events', NEW i \in DOMAIN events', i < j
               PROVE  events'[i].at < events'[j].at + StepMs
    BY DEF NearlyInOrder
  <2>1. i \in DOMAIN events
    BY <1>2, <1>3
  <2>2. CASE j \in DOMAIN events
    BY <1>2, <2>1, <2>2 DEF OrderInv, NearlyInOrder
  <2>3. CASE j = Len(events) + 1
    <3>1. events'[i].at <= now /\ events'[j] = e /\ events'[i].at \in Nat
      BY <1>1, <1>2, <2>1, <2>3 DEF OrderInv, Dated
    <3> QED
      BY <1>1, <3>1
  <2> QED
    BY <1>3, <2>2, <2>3
<1> QED
  BY <1>4, <1>5

LEMMA OrderNext ==
  ASSUME TypeOK, RememberedInv, LedgerInv, OrderInv, [Next]_vars
  PROVE  OrderInv'
<1>1. now \in Nat /\ StepMs \in Nat /\ StepMs > 0 /\ \A t \in air : t.end \in Nat
  BY AirAssumption DEF TypeOK, Transmission
<1>2. CASE CompleteTransmissions
  <2>1. /\ events' = events /\ now' = now + StepMs
        /\ \A r \in judging' : r.tx \in inFlight
    BY <1>2 DEF CompleteTransmissions, HandOffFails
  <2>2. \A k \in DOMAIN events : events[k].at \in Nat
    BY EventsDated
  <2>3. Dated' /\ NearlyInOrder'
    BY <1>1, <2>1, <2>2 DEF OrderInv, Dated, NearlyInOrder
  <2>4. Fresh'
    BY <1>1, <2>1 DEF LedgerInv, Landed, Fresh, TypeOK
  <2> QED
    BY <2>3, <2>4 DEF OrderInv
<1>3. ASSUME NEW n \in Node, NEW m \in Message, NEW a \in Airtime, StartTransmission(n, m, a)
      PROVE  OrderInv'
  <2> DEFINE e == [at |-> now, kind |-> "tx", id |-> packet + 1, to |-> 0]
  <2>1. events' = Append(events, e) /\ now' = now /\ judging' = {}
    BY <1>3 DEF StartTransmission
  <2>2. e \in Event /\ e.at = now
    BY DEF TypeOK, Event, Kind
  <2> HIDE DEF e
  <2> QED
    BY <1>1, <2>1, <2>2, OrderNoted DEF OrderInv, Fresh
<1>4. ASSUME NEW r \in judging, Deliver(r)
      PROVE  OrderInv'
  <2>1. now' = now /\ judging' \subseteq judging /\ r.tx \in air /\ r.tx.end <= now
    BY <1>4, DeliverFrame DEF clockVars, TypeOK, RememberedInv, Finished
  <2>2. Fresh'
    BY <2>1 DEF OrderInv, Fresh
  <2>3. CASE UNCHANGED events
    BY <2>1, <2>2, <2>3 DEF OrderInv, Dated, NearlyInOrder
  <2>4. ASSUME NEW kind \in Kind, Note(r, kind)
        PROVE  OrderInv'
    <3> DEFINE e == [at |-> r.tx.end, kind |-> kind, id |-> r.tx.id, to |-> r.to]
    <3>1. e \in Event /\ events' = Append(events, e) /\ e.at = r.tx.end
      <4>1. r.tx \in Transmission /\ r.to \in Nat
        <5>1. r.tx \in Transmission /\ r.to \in Node /\ N \in Nat
          BY AirAssumption DEF TypeOK
        <5> QED
          BY <5>1 DEF Node
      <4> QED
        BY <2>4, <4>1 DEF Event, Transmission, Note
    <3> HIDE DEF e
    <3>2. now < e.at + StepMs
      BY <3>1 DEF OrderInv, Fresh
    <3> QED
      BY <2>1, <2>2, <3>1, <3>2, OrderNoted DEF OrderInv
  <2> QED
    BY <1>4, <2>3, <2>4, DeliverNotes
<1>5. CASE UNCHANGED vars
  BY <1>5 DEF vars, clockVars, airVars, OrderInv, Dated, Fresh, NearlyInOrder
<1> QED
  BY <1>2, <1>3, <1>4, <1>5 DEF Next

-----------------------------------------------------------------------------
(* The whole of it, at the start and after a step. *)
LEMMA LedgerAlways == Spec => [](LedgerInv /\ OrderInv)
<1>1. Init => RememberedInv /\ HeardInv
  BY RememberedInit DEF Init, HeardInv, Numbered, HeardClear, Accepted
<1>2. Init => LedgerInv /\ OrderInv
  BY DEF Init, LedgerInv, Landed, Rows, Pending, Covered, OrderInv, Dated, Fresh, NearlyInOrder
<1>3. TypeOK /\ RememberedInv /\ HeardInv /\ LedgerInv /\ OrderInv /\ [Next]_vars
        => RememberedInv' /\ HeardInv' /\ LedgerInv' /\ OrderInv'
  BY RememberedNext, HeardNext, LedgerNext, OrderNext
<1> QED
  BY <1>1, <1>2, <1>3, TypeCorrect, PTL DEF Spec

(* Every finished transmission is judged at every other listener exactly    *)
(* once, whatever the airtimes and however many ended in one step, until a  *)
(* Step has returned an error.                                              *)
THEOREM JudgedExactlyOnce == Spec => []JudgedOnce
<1>1. LedgerInv => JudgedOnce
  BY DEF LedgerInv, Rows, Covered, JudgedOnce
<1> QED
  BY <1>1, LedgerAlways, PTL

(* Two events in the log are out of order by less than a step: what the     *)
(* binary search of EventsSince relies on.                                  *)
THEOREM LogIsNearlyInOrder == Spec => []NearlyInOrder
<1>1. OrderInv => NearlyInOrder
  BY DEF OrderInv
<1> QED
  BY <1>1, LedgerAlways, PTL

-----------------------------------------------------------------------------
(* Why two packets are never decoded at once.  Whoever forgets what held a  *)
(* demodulator, a packet is accepted only where whatever else it shared the *)
(* air with is ridden over, or destroys no more than the code puts back;    *)
(* and of two packets not each can ride over the other.                     *)
RiddenOver(o, t, n) ==
  Power[o.from][n] > 0 /\ Power[t.from][n] < Power[o.from][n] + Capture
    => Together(o, t) <= SymbolMs

HeardAlone ==
  \A e \in Accepted : \A t \in air : t.id = e.id =>
    /\ e.to \in Node /\ Power[t.from][e.to] > 0
    /\ \A o \in air : o.from \notin {e.to, t.from} /\ Overlap(o, t) => RiddenOver(o, t, e.to)

LEMMA AloneStart ==
  ASSUME TypeOK, HeardInv, HeardAlone,
         NEW n \in Node, NEW m \in Message, NEW a \in Airtime,
         StartTransmission(n, m, a)
  PROVE  HeardAlone'
<1> DEFINE s == [id |-> packet + 1, from |-> n, msg |-> m, start |-> now, end |-> now + a]
           e == [at |-> now, kind |-> "tx", id |-> s.id, to |-> 0]
<1>1. /\ air' = air \cup {s} /\ now' = now
      /\ events' = Append(events, e)
      /\ now \in Nat /\ packet \in Nat
      /\ s.id = packet + 1 /\ s.start = now
  BY DEF StartTransmission, TypeOK
<1>2. e \in Event /\ e.kind # "rx"
  BY <1>1 DEF Event, Kind
<1>3. \A t \in air : t.id \in Nat /\ t.start \in Nat /\ t.end \in Nat /\ t.id <= packet
  BY DEF TypeOK, Transmission, HeardInv, Numbered
<1> HIDE DEF s, e
<1>4. Accepted' \subseteq Accepted
  BY <1>1, <1>2, AcceptedGrows DEF TypeOK
<1>5. \A t \in air : t.end <= now => ~Overlap(s, t)
  BY <1>1, <1>3 DEF Overlap
<1> SUFFICES ASSUME NEW x \in Accepted, NEW t \in air', t.id = x.id
             PROVE  /\ x.to \in Node /\ Power[t.from][x.to] > 0
                    /\ \A o \in air' : o.from \notin {x.to, t.from} /\ Overlap(o, t)
                         => RiddenOver(o, t, x.to)
  BY <1>4 DEF HeardAlone, RiddenOver, Together, Least, Most, Overlap
<1>6. t \in air /\ t.end <= now
  <2>1. PICK u \in air : u.id = x.id /\ u.end <= now
    BY DEF HeardInv, HeardClear
  <2>2. t # s
    BY <1>1, <1>3, <2>1
  <2> QED
    BY <1>1, <2>1, <2>2 DEF HeardInv, Numbered
<1> QED
  BY <1>1, <1>5, <1>6 DEF HeardAlone

LEMMA AloneDeliver ==
  ASSUME TypeOK, RememberedInv, HeardInv, HeardAlone, NEW r \in judging, Deliver(r)
  PROVE  HeardAlone'
<1>1. UNCHANGED <<air, now>>
  BY DeliverFrame DEF airVars, clockVars
<1>2. CASE UNCHANGED events
  BY <1>1, <1>2 DEF HeardAlone, Accepted, RiddenOver, Together, Least, Most, Overlap
<1>3. ASSUME NEW kind \in Kind, Note(r, kind), kind = "rx" => Hears(r)
      PROVE  HeardAlone'
  <2> DEFINE e == [at |-> r.tx.end, kind |-> kind, id |-> r.tx.id, to |-> r.to]
  <2>1. r.tx \in air /\ r.tx \in Transmission /\ r.to \in Node
    BY AirAssumption DEF TypeOK
  <2>2. e \in Event /\ events' = Append(events, e)
    BY <1>3, <2>1 DEF Event, Transmission, Node, Note
  <2>3. \A x \in Accepted' : x \in Accepted \/ (x = e /\ e.kind = "rx")
    BY <2>2, AcceptedGrows DEF TypeOK
  <2>4. ASSUME Hears(r), NEW o \in air, o.from \notin {r.to, r.tx.from}, Overlap(o, r.tx)
        PROVE  RiddenOver(o, r.tx, r.to)
    <3>1. o \in concurrent
      BY <2>4 DEF RememberedInv, ConcurrentComplete
    <3> QED
      BY <2>4, <3>1 DEF Hears, Repairable, LandsOn, RiddenOver
  <2>5. ASSUME Hears(r)
        PROVE  Power[r.tx.from][r.to] > 0
    BY <2>5 DEF Hears, Offered
  <2>6. e.id = r.tx.id /\ e.to = r.to /\ e.kind = kind
    OBVIOUS
  <2> HIDE DEF e
  <2> SUFFICES ASSUME NEW x \in Accepted', NEW t \in air, t.id = x.id
               PROVE  /\ x.to \in Node /\ Power[t.from][x.to] > 0
                      /\ \A o \in air : o.from \notin {x.to, t.from} /\ Overlap(o, t)
                           => RiddenOver(o, t, x.to)
    BY <1>1 DEF HeardAlone, RiddenOver, Together, Least, Most, Overlap
  <2>7. CASE x \in Accepted
    BY <2>7 DEF HeardAlone
  <2>8. CASE x = e /\ kind = "rx"
    <3>1. t = r.tx
      BY <2>1, <2>6, <2>8 DEF HeardInv, Numbered
    <3> QED
      BY <1>3, <2>1, <2>4, <2>5, <2>6, <2>8, <3>1
  <2> QED
    BY <2>3, <2>6, <2>7, <2>8
<1> QED
  BY <1>2, <1>3, DeliverNotes

LEMMA AloneNext ==
  ASSUME TypeOK, RememberedInv, HeardInv, HeardAlone, [Next]_vars
  PROVE  HeardAlone'
<1>1. CASE CompleteTransmissions
  BY <1>1 DEF CompleteTransmissions, HeardAlone, Accepted, RiddenOver, Together, Least, Most, Overlap
<1>2. CASE UNCHANGED vars
  BY <1>2 DEF vars, airVars, HeardAlone, Accepted, RiddenOver, Together, Least, Most, Overlap
<1> QED
  BY <1>1, <1>2, AloneStart, AloneDeliver DEF Next

LEMMA TogetherBoth ==
  ASSUME NEW s \in Transmission, NEW t \in Transmission
  PROVE  Together(s, t) = Together(t, s)
BY DEF Together, Least, Most, Transmission

LEMMA HeardAlways == Spec => [](HeardInv /\ HeardAlone)
<1>1. Init => RememberedInv /\ HeardInv /\ HeardAlone
  BY RememberedInit DEF Init, HeardInv, Numbered, HeardClear, HeardAlone, Accepted
<1>2. TypeOK /\ RememberedInv /\ HeardInv /\ HeardAlone /\ [Next]_vars
        => RememberedInv' /\ HeardInv' /\ HeardAlone'
  BY RememberedNext, HeardNext, AloneNext
<1> QED
  BY <1>1, <1>2, TypeCorrect, PTL DEF Spec

(* Of two senders a receiver never accepts packets that were on the air     *)
(* together for longer than a symbol, whatever the network, the lengths of  *)
(* preambles and of what is forgotten between the two verdicts.             *)
THEOREM DecodesOneAtATime == Spec => []OneDemodulator
<1>1. TypeOK /\ HeardInv /\ HeardAlone => OneDemodulator
  <2> SUFFICES ASSUME TypeOK, HeardInv, HeardAlone, NEW d \in Accepted, NEW e \in Accepted,
                      d.to = e.to, Sent(d.id).from # Sent(e.id).from, Overlap(Sent(d.id), Sent(e.id))
               PROVE  Together(Sent(d.id), Sent(e.id)) <= SymbolMs
    BY DEF OneDemodulator
  <2>1. PICK s \in air : s.id = d.id /\ \A o \in air : o.from = d.to => ~Overlap(o, s)
    BY DEF HeardInv, HeardClear
  <2>2. PICK t \in air : t.id = e.id /\ \A o \in air : o.from = e.to => ~Overlap(o, t)
    BY DEF HeardInv, HeardClear
  <2>3. s = Sent(d.id) /\ t = Sent(e.id)
    BY <2>1, <2>2 DEF Sent, HeardInv, Numbered
  <2>4. s \in Transmission /\ t \in Transmission
    BY DEF TypeOK
  <2>5. Overlap(s, t) /\ Overlap(t, s) /\ s.from # t.from
    BY <2>3 DEF Overlap
  <2>6. s.from # d.to /\ t.from # d.to
    BY <2>1, <2>2, <2>5
  <2>7. /\ d.to \in Node /\ Power[s.from][d.to] > 0 /\ Power[t.from][d.to] > 0
        /\ RiddenOver(t, s, d.to) /\ RiddenOver(s, t, d.to)
    BY <2>1, <2>2, <2>5, <2>6 DEF HeardAlone
  <2>8. Power[s.from][d.to] \in Nat /\ Power[t.from][d.to] \in Nat /\ Capture \in Nat /\ Capture > 0
    BY <2>4, <2>7, AirAssumption DEF Transmission
  <2>9. Together(s, t) <= SymbolMs \/ Together(t, s) <= SymbolMs
    BY <2>7, <2>8 DEF RiddenOver
  <2> QED
    BY <2>3, <2>4, <2>9, TogetherBoth
<1> QED
  BY <1>1, HeardAlways, TypeCorrect, PTL

-----------------------------------------------------------------------------
(* Sums.  A sum takes its terms in the order CHOOSE gives them, which does  *)
(* not depend on the terms; so two functions on a set are summed alike.     *)

(* A set of numbers has a least: how whatever is defined step by step is    *)
(* reasoned about here.                                                     *)
LEMMA LeastOf ==
  ASSUME NEW T, T \subseteq Nat, T # {}
  PROVE  \E n \in T : \A k \in T : n <= k
<1>1. PICK n \in T : \A k \in T : <<k, n>> \notin OpToRel(<, Nat)
  BY NatLessThanWellFounded, WFMin
<1>2. \A k \in T : ~(k < n)
  BY <1>1 DEF OpToRel
<1> QED
  BY <1>2

First(s) == CHOOSE x \in s : TRUE
Small(S, n) == {s \in SUBSET S : Cardinality(s) <= n}
Summed(g, fun, dom) ==
  g = [s \in dom |-> IF s = {} THEN 0 ELSE fun[First(s)] + g[s \ {First(s)}]]

(* Without its first element a set is smaller by one. *)
LEMMA WithoutFirst ==
  ASSUME NEW S, IsFiniteSet(S), NEW s \in SUBSET S, s # {}
  PROVE  /\ First(s) \in s
         /\ s \ {First(s)} \in SUBSET S
         /\ Cardinality(s) \in Nat /\ Cardinality(s) > 0
         /\ Cardinality(s \ {First(s)}) = Cardinality(s) - 1
<1>1. First(s) \in s
  BY DEF First
<1>2. IsFiniteSet(s)
  BY FS_Subset
<1>3. Cardinality(s) \in Nat /\ Cardinality(s) # 0
  BY <1>2, FS_CardinalityType, FS_EmptySet
<1>4. Cardinality(s \ {First(s)}) = Cardinality(s) - 1
  BY <1>1, <1>2, FS_RemoveElement
<1> QED
  BY <1>1, <1>3, <1>4

(* There is a function that sums the smaller subsets, however large they    *)
(* may be. *)
LEMMA SummedSmall ==
  ASSUME NEW fun, NEW S, IsFiniteSet(S)
  PROVE  \A n \in Nat : \E g : Summed(g, fun, Small(S, n))
<1> DEFINE T == {n \in Nat : ~\E g : Summed(g, fun, Small(S, n))}
<1> SUFFICES ASSUME T # {} PROVE FALSE
  OBVIOUS
<1>1. PICK n \in T : \A k \in T : n <= k
  <2>1. T \subseteq Nat
    OBVIOUS
  <2> HIDE DEF T
  <2> QED
    BY <2>1, LeastOf
<1>2. CASE n = 0
  <2>1. \A s \in Small(S, 0) : s = {}
    <3> SUFFICES ASSUME NEW s \in SUBSET S, Cardinality(s) <= 0, s # {}
                 PROVE  FALSE
      BY DEF Small
    <3>1. Cardinality(s) \in Nat /\ Cardinality(s) > 0
      BY WithoutFirst
    <3> QED
      BY <3>1
  <2> DEFINE g == [s \in Small(S, 0) |-> 0]
  <2>2. Summed(g, fun, Small(S, 0))
    BY <2>1 DEF Summed
  <2> QED
    BY <1>2, <2>2
<1>3. CASE n # 0
  <2>1. n \in Nat /\ n - 1 \in Nat /\ n - 1 \notin T
    BY <1>1, <1>3
  <2>2. PICK g : Summed(g, fun, Small(S, n - 1))
    BY <2>1
  <2> DEFINE After(k, s) == IF s = {} THEN 0 ELSE fun[First(s)] + k[s \ {First(s)}]
             h == [s \in Small(S, n) |-> After(g, s)]
  <2>3. ASSUME NEW s \in Small(S, n), s # {}
        PROVE  h[s \ {First(s)}] = g[s \ {First(s)}]
    <3>1. s \ {First(s)} \in Small(S, n - 1) /\ s \ {First(s)} \in Small(S, n)
      BY <2>1, <2>3, WithoutFirst DEF Small
    <3> QED
      BY <2>2, <3>1 DEF Summed
  <2>4. \A s \in Small(S, n) : After(g, s) = After(h, s)
    <3> HIDE DEF h
    <3> QED
      BY <2>3
  <2>5. h = [s \in Small(S, n) |-> After(h, s)]
    <3>1. h = [s \in Small(S, n) |-> After(g, s)]
      OBVIOUS
    <3> HIDE DEF h
    <3> QED
      BY <2>4, <3>1
  <2>6. Summed(h, fun, Small(S, n))
    <3> HIDE DEF h
    <3> QED
      BY <2>5 DEF Summed
  <2> QED
    BY <1>1, <2>6
<1> QED
  BY <1>2, <1>3

(* So a sum is one: nothing over no terms, and otherwise its first term and *)
(* the sum of the others. *)
SumOf(fun) == CHOOSE g : Summed(g, fun, SUBSET DOMAIN fun)

LEMMA SumIsSummed ==
  ASSUME NEW fun, IsFiniteSet(DOMAIN fun)
  PROVE  /\ SumFunction(fun) = SumOf(fun)[DOMAIN fun]
         /\ SumOf(fun)[{}] = 0
         /\ \A s \in SUBSET DOMAIN fun : s # {} =>
              SumOf(fun)[s] = fun[First(s)] + SumOf(fun)[s \ {First(s)}]
<1> DEFINE S == DOMAIN fun
<1>1. SumFunction(fun) = SumOf(fun)[DOMAIN fun]
  BY DEF SumFunction, SumFunctionOnSet, FoldFunctionOnSet, MapThenFoldSet, SumOf, Summed, First
<1>2. Cardinality(S) \in Nat /\ Small(S, Cardinality(S)) = SUBSET S
  <2>1. \A s \in SUBSET S : Cardinality(s) <= Cardinality(S)
    BY FS_Subset
  <2>2. Cardinality(S) \in Nat
    BY FS_CardinalityType
  <2> QED
    BY <2>1, <2>2 DEF Small
<1>3. \E g : Summed(g, fun, SUBSET S)
  <2>1. \E g : Summed(g, fun, Small(S, Cardinality(S)))
    BY <1>2, SummedSmall
  <2> QED
    BY <1>2, <2>1
<1>4. Summed(SumOf(fun), fun, SUBSET DOMAIN fun)
  BY <1>3 DEF SumOf
<1> QED
  BY <1>1, <1>4 DEF Summed

(* What is the case of nothing, and of a set if it is of the set without    *)
(* its first element, is the case of them all. *)
LEMMA SumType ==
  ASSUME NEW S, IsFiniteSet(S), NEW f \in [S -> Nat]
  PROVE  \A s \in SUBSET S : SumOf(f)[s] \in Nat
<1> DEFINE T == {n \in Nat : \E s \in SUBSET S : Cardinality(s) = n /\ SumOf(f)[s] \notin Nat}
<1> SUFFICES ASSUME NEW u \in SUBSET S, SumOf(f)[u] \notin Nat PROVE FALSE
  OBVIOUS
<1>1. PICK n \in T : \A k \in T : n <= k
  <2>1. Cardinality(u) \in Nat
    BY FS_Subset, FS_CardinalityType
  <2>2. T \subseteq Nat /\ T # {}
    BY <2>1
  <2> HIDE DEF T
  <2> QED
    BY <2>2, LeastOf
<1>2. PICK s \in SUBSET S : Cardinality(s) = n /\ SumOf(f)[s] \notin Nat
  OBVIOUS
<1>3. DOMAIN f = S
  OBVIOUS
<1>4. s # {}
  <2>1. SumOf(f)[{}] = 0
    BY <1>3, SumIsSummed
  <2> QED
    BY <1>2, <2>1
<1>5. /\ First(s) \in S /\ s \ {First(s)} \in SUBSET S
      /\ Cardinality(s \ {First(s)}) = n - 1 /\ n \in Nat /\ n - 1 \in Nat
  <2>1. /\ First(s) \in s /\ s \ {First(s)} \in SUBSET S
        /\ Cardinality(s) \in Nat /\ Cardinality(s) > 0
        /\ Cardinality(s \ {First(s)}) = Cardinality(s) - 1
    BY <1>4, WithoutFirst
  <2> QED
    BY <1>2, <2>1
<1>6. SumOf(f)[s \ {First(s)}] \in Nat
  <2>1. n - 1 \notin T
    BY <1>1, <1>5
  <2> QED
    BY <1>5, <2>1
<1>7. SumOf(f)[s] = f[First(s)] + SumOf(f)[s \ {First(s)}]
  BY <1>3, <1>4, SumIsSummed
<1> QED
  BY <1>2, <1>5, <1>6, <1>7

LEMMA SumOneMore ==
  ASSUME NEW S, IsFiniteSet(S), NEW f \in [S -> Nat], NEW i \in S
  PROVE  SumFunction([f EXCEPT ![i] = @ + 1]) = SumFunction(f) + 1
<1> DEFINE h == [f EXCEPT ![i] = @ + 1]
           Grows(s) == SumOf(h)[s] = SumOf(f)[s] + (IF i \in s THEN 1 ELSE 0)
           T == {n \in Nat : \E s \in SUBSET S : Cardinality(s) = n /\ ~Grows(s)}
<1>1. /\ DOMAIN f = S /\ DOMAIN h = S
      /\ \A x \in S : h[x] = f[x] + (IF x = i THEN 1 ELSE 0)
      /\ \A x \in S : f[x] \in Nat
  OBVIOUS
<1>2. SumFunction(h) = SumOf(h)[S] /\ SumFunction(f) = SumOf(f)[S]
  BY <1>1, SumIsSummed
<1> HIDE DEF h
<1> SUFFICES ASSUME ~Grows(S) PROVE FALSE
  BY <1>2 DEF h
<1>3. PICK n \in T : \A k \in T : n <= k
  <2>1. Cardinality(S) \in Nat
    BY FS_CardinalityType
  <2>2. T \subseteq Nat /\ T # {}
    BY <2>1
  <2> HIDE DEF T
  <2> QED
    BY <2>2, LeastOf
<1>4. PICK s \in SUBSET S : Cardinality(s) = n /\ ~Grows(s)
  OBVIOUS
<1>5. s # {}
  <2>1. SumOf(h)[{}] = 0 /\ SumOf(f)[{}] = 0
    BY <1>1, SumIsSummed
  <2> QED
    BY <1>4, <2>1
<1> DEFINE x == First(s)
<1>6. /\ x \in s /\ x \in S /\ s \ {x} \in SUBSET S
      /\ Cardinality(s \ {x}) = n - 1 /\ n \in Nat /\ n - 1 \in Nat
  BY <1>4, <1>5, WithoutFirst
<1>7. Grows(s \ {x})
  <2>1. n - 1 \notin T
    BY <1>3, <1>6
  <2> QED
    BY <1>6, <2>1
<1>8. SumOf(h)[s] = h[x] + SumOf(h)[s \ {x}] /\ SumOf(f)[s] = f[x] + SumOf(f)[s \ {x}]
  BY <1>1, <1>5, SumIsSummed
<1>9. SumOf(f)[s \ {x}] \in Nat
  BY <1>6, SumType
<1> HIDE DEF x
<1> QED
  BY <1>1, <1>4, <1>6, <1>7, <1>8, <1>9

(* The sum of numbers is a number, and of nothing but nought is nought.     *)
LEMMA SumZero ==
  ASSUME NEW S, IsFiniteSet(S)
  PROVE  SumFunction([x \in S |-> 0]) = 0
<1> DEFINE f == [x \in S |-> 0]
           T == {n \in Nat : \E s \in SUBSET S : Cardinality(s) = n /\ SumOf(f)[s] # 0}
<1>1. DOMAIN f = S /\ \A x \in S : f[x] = 0
  OBVIOUS
<1>2. SumFunction(f) = SumOf(f)[S]
  BY <1>1, SumIsSummed
<1> HIDE DEF f
<1> SUFFICES ASSUME SumOf(f)[S] # 0 PROVE FALSE
  BY <1>2 DEF f
<1>3. PICK n \in T : \A k \in T : n <= k
  <2>1. Cardinality(S) \in Nat
    BY FS_CardinalityType
  <2>2. T \subseteq Nat /\ T # {}
    BY <2>1
  <2> HIDE DEF T
  <2> QED
    BY <2>2, LeastOf
<1>4. PICK s \in SUBSET S : Cardinality(s) = n /\ SumOf(f)[s] # 0
  OBVIOUS
<1>5. s # {}
  BY <1>1, <1>4, SumIsSummed
<1>6. /\ First(s) \in s /\ First(s) \in S /\ s \ {First(s)} \in SUBSET S
      /\ Cardinality(s \ {First(s)}) = n - 1 /\ n \in Nat /\ n - 1 \in Nat
  BY <1>4, <1>5, WithoutFirst
<1>7. SumOf(f)[s \ {First(s)}] = 0
  <2>1. n - 1 \notin T
    BY <1>3, <1>6
  <2> QED
    BY <1>6, <2>1
<1>8. SumOf(f)[s] = f[First(s)] + SumOf(f)[s \ {First(s)}]
  BY <1>1, <1>5, SumIsSummed
<1> QED
  BY <1>1, <1>4, <1>6, <1>7, <1>8

(* What a verdict adds to the scores: nothing, or one to what its receiver  *)
(* has heard and one to its sender's deliveries, new if the message is.     *)
LEMMA DeliverScored ==
  ASSUME NEW r \in judging, Deliver(r)
  PROVE  \/ UNCHANGED scores
         \/ /\ heard' = [heard EXCEPT ![r.to] = @ + 1]
            /\ seen' = [seen EXCEPT ![r.to] = @ \cup {r.tx.msg}]
            /\ \/ /\ r.tx.msg \notin seen[r.to]
                  /\ unique' = [unique EXCEPT ![r.tx.from] = @ + 1]
                  /\ redundant' = redundant
               \/ /\ r.tx.msg \in seen[r.to]
                  /\ redundant' = [redundant EXCEPT ![r.tx.from] = @ + 1]
                  /\ unique' = unique
<1>1. CASE JudgeAccepted(r)
  BY <1>1 DEF JudgeAccepted
<1>2. CASE UNCHANGED scores
  BY <1>2
<1> QED
  BY <1>1, <1>2 DEF Deliver, JudgeOutOfRange, JudgeDeaf, JudgeBusy, JudgeLost

Had == [n \in Node |-> Cardinality(seen[n])]
Remembers == \A n \in Node : IsFiniteSet(seen[n])

ScoredInv == Remembers /\ Scored

LEMMA ScoredDeliver ==
  ASSUME TypeOK, ScoredInv, NEW r \in judging, Deliver(r)
  PROVE  ScoredInv'
<1>1. CASE UNCHANGED scores
  BY <1>1 DEF scores, ScoredInv, Remembers, Scored
<1>2. CASE ~UNCHANGED scores
  <2>1. r.to \in Node /\ r.tx.from \in Node
    BY AirAssumption DEF TypeOK, Transmission
  <2>2. IsFiniteSet(Node)
    BY AirAssumption, FS_Interval DEF Node
  <2>3. /\ seen \in [Node -> SUBSET Message] /\ heard \in [Node -> Nat]
        /\ unique \in [Node -> Nat] /\ redundant \in [Node -> Nat]
    BY DEF TypeOK
  <2>4. \A n \in Node : IsFiniteSet(seen[n]) /\ Cardinality(seen[n]) \in Nat
    BY FS_CardinalityType DEF ScoredInv, Remembers
  <2>5. Had \in [Node -> Nat]
    BY <2>4 DEF Had
  <2>6. /\ heard' = [heard EXCEPT ![r.to] = @ + 1]
        /\ seen' = [seen EXCEPT ![r.to] = @ \cup {r.tx.msg}]
    BY <1>2, DeliverScored
  <2>7. SumFunction(heard') = SumFunction(heard) + 1
    BY <2>1, <2>2, <2>3, <2>6, SumOneMore
  <2>8. /\ SumFunction(unique) = SumFunction(Had)
        /\ SumFunction(unique) + SumFunction(redundant) = SumFunction(heard)
    BY DEF ScoredInv, Scored, Had
  <2>9. SumFunction(unique) \in Nat /\ SumFunction(redundant) \in Nat
    <3>1. ASSUME NEW f \in [Node -> Nat]
          PROVE  SumFunction(f) \in Nat
      <4>1. SumFunction(f) = SumOf(f)[Node]
        BY <2>2, SumIsSummed
      <4> QED
        BY <2>2, <4>1, SumType
    <3> QED
      BY <2>3, <3>1
  <2>10. Remembers'
    <3> SUFFICES ASSUME NEW n \in Node PROVE IsFiniteSet(seen'[n])
      BY DEF Remembers
    <3>1. seen'[n] = IF n = r.to THEN seen[n] \cup {r.tx.msg} ELSE seen[n]
      BY <2>3, <2>6
    <3>2. IsFiniteSet(seen[n]) /\ IsFiniteSet(seen[n] \cup {r.tx.msg})
      BY <2>4, FS_AddElement
    <3> QED
      BY <3>1, <3>2
  <2>11. CASE r.tx.msg \notin seen[r.to]
    <3>1. unique' = [unique EXCEPT ![r.tx.from] = @ + 1] /\ redundant' = redundant
      BY <1>2, <2>11, DeliverScored
    <3>2. SumFunction(unique') = SumFunction(unique) + 1
      BY <2>1, <2>2, <2>3, <3>1, SumOneMore
    <3>3. Had' = [Had EXCEPT ![r.to] = @ + 1]
      <4>1. \A n \in Node : seen'[n] = IF n = r.to THEN seen[n] \cup {r.tx.msg} ELSE seen[n]
        BY <2>3, <2>6
      <4>2. Cardinality(seen[r.to] \cup {r.tx.msg}) = Cardinality(seen[r.to]) + 1
        BY <2>1, <2>4, <2>11, FS_AddElement
      <4>3. \A n \in Node : Cardinality(seen'[n]) = IF n = r.to THEN Had[n] + 1 ELSE Had[n]
        BY <4>1, <4>2 DEF Had
      <4>4. Had' = [n \in Node |-> Cardinality(seen'[n])]
        BY DEF Had
      <4> QED
        BY <2>5, <4>3, <4>4
    <3>4. SumFunction(Had') = SumFunction(Had) + 1
      BY <2>1, <2>2, <2>5, <3>3, SumOneMore
    <3>5. Scored'
      <4>1. SumFunction(unique') = SumFunction(Had')
        BY <2>8, <3>2, <3>4
      <4>2. SumFunction(unique') + SumFunction(redundant') = SumFunction(heard')
        BY <2>7, <2>8, <2>9, <3>1, <3>2
      <4> QED
        BY <4>1, <4>2 DEF Scored, Had
    <3> QED
      BY <2>10, <3>5 DEF ScoredInv
  <2>12. CASE r.tx.msg \in seen[r.to]
    <3>1. redundant' = [redundant EXCEPT ![r.tx.from] = @ + 1] /\ unique' = unique
      BY <1>2, <2>12, DeliverScored
    <3>2. SumFunction(redundant') = SumFunction(redundant) + 1
      BY <2>1, <2>2, <2>3, <3>1, SumOneMore
    <3>3. seen' = seen
      BY <2>1, <2>3, <2>6, <2>12
    <3>4. Scored'
      <4>1. SumFunction(unique') + SumFunction(redundant') = SumFunction(heard')
        BY <2>7, <2>8, <2>9, <3>1, <3>2
      <4> QED
        BY <2>8, <3>1, <3>3, <4>1 DEF Scored, Had
    <3> QED
      BY <2>10, <3>4 DEF ScoredInv
  <2> QED
    BY <2>11, <2>12
<1> QED
  BY <1>1, <1>2

(* Every acceptance is scored once and to its sender, and a message counts  *)
(* as new once for each node that has it, however many nodes, relays and    *)
(* messages there are and wherever a hand-off fails.                        *)
THEOREM EveryAcceptanceIsScored == Spec => []Scored
<1>1. Init => ScoredInv
  <2> SUFFICES ASSUME Init PROVE ScoredInv
    OBVIOUS
  <2>1. IsFiniteSet(Node)
    BY AirAssumption, FS_Interval DEF Node
  <2>2. /\ unique = [n \in Node |-> 0] /\ redundant = [n \in Node |-> 0]
        /\ heard = [n \in Node |-> 0] /\ seen = [n \in Node |-> {}]
    BY DEF Init
  <2>3. SumFunction([n \in Node |-> 0]) = 0
    BY <2>1, SumZero
  <2>4. [n \in Node |-> Cardinality(seen[n])] = [n \in Node |-> 0]
    BY <2>2, FS_EmptySet
  <2>5. Remembers
    BY <2>2, FS_EmptySet DEF Remembers
  <2> QED
    BY <2>2, <2>3, <2>4, <2>5 DEF ScoredInv, Scored
<1>2. TypeOK /\ ScoredInv /\ [Next]_vars => ScoredInv'
  <2> SUFFICES ASSUME TypeOK, ScoredInv, [Next]_vars PROVE ScoredInv'
    OBVIOUS
  <2>1. CASE UNCHANGED scores
    BY <2>1 DEF scores, ScoredInv, Remembers, Scored
  <2> QED
    BY <2>1, ScoredDeliver DEF Next, CompleteTransmissions, StartTransmission, vars
<1>3. ScoredInv => Scored
  BY DEF ScoredInv
<1> QED
  BY <1>1, <1>2, <1>3, TypeCorrect, PTL DEF Spec

-----------------------------------------------------------------------------
(* What the binary search of EventsSince finds in a log that is nearly in   *)
(* order: it passes over nothing that is younger than the moment asked for  *)
(* by a step.                                                               *)
Place == 0 .. Len(events)
Within(n) == {p \in Place \X Place : p[2] - p[1] <= n}
Middle(p) == (p[1] + p[2]) \div 2

Found(lo, from, p) ==
  IF p[1] >= p[2] THEN p[1]
  ELSE IF events[Middle(p) + 1].at < from THEN lo[<<Middle(p) + 1, p[2]>>] ELSE lo[<<p[1], Middle(p)>>]

Searches(lo, from, dom) == lo = [p \in dom |-> Found(lo, from, p)]

LEMMA MiddleIsWithin ==
  ASSUME TypeOK, NEW n \in Nat, NEW p \in Within(n), p[1] < p[2]
  PROVE  /\ n > 0 /\ p[1] <= Middle(p) /\ Middle(p) < p[2]
         /\ <<Middle(p) + 1, p[2]>> \in Within(n - 1)
         /\ <<p[1], Middle(p)>> \in Within(n - 1)
         /\ Middle(p) \in Nat /\ Middle(p) + 1 \in DOMAIN events
<1>1. Len(events) \in Nat /\ DOMAIN events = 1 .. Len(events)
  BY DEF TypeOK
<1>2. /\ p[1] \in 0 .. Len(events) /\ p[2] \in 0 .. Len(events) /\ p[2] - p[1] <= n
  BY DEF Within, Place
<1>3. /\ Middle(p) \in Nat /\ p[1] <= Middle(p) /\ Middle(p) < p[2]
  BY <1>1, <1>2 DEF Middle
<1> HIDE DEF Middle
<1>4. /\ Middle(p) + 1 \in Place /\ Middle(p) \in Place /\ p[1] \in Place /\ p[2] \in Place
      /\ p[2] - (Middle(p) + 1) <= n - 1 /\ Middle(p) - p[1] <= n - 1
  <2>1. /\ p[1] \in Nat /\ p[2] \in Nat /\ p[2] <= Len(events) /\ p[2] - p[1] <= n
    BY <1>1, <1>2
  <2>2. /\ Middle(p) + 1 <= Len(events) /\ Middle(p) <= Len(events) /\ p[1] <= Len(events)
    BY <1>1, <1>3, <2>1
  <2>3. /\ p[2] - (Middle(p) + 1) <= n - 1 /\ Middle(p) - p[1] <= n - 1
    BY <1>3, <2>1
  <2> QED
    BY <1>1, <1>3, <2>1, <2>2, <2>3 DEF Place
<1>5. <<Middle(p) + 1, p[2]>> \in Place \X Place /\ <<p[1], Middle(p)>> \in Place \X Place
  BY <1>4
<1>6. /\ <<Middle(p) + 1, p[2]>> \in Within(n - 1)
      /\ <<p[1], Middle(p)>> \in Within(n - 1)
  BY <1>4, <1>5 DEF Within
<1>7. n > 0 /\ Middle(p) + 1 \in DOMAIN events
  BY <1>1, <1>2, <1>3
<1> QED
  BY <1>3, <1>6, <1>7

LEMMA SearchWithin ==
  ASSUME TypeOK, NEW from
  PROVE  \A n \in Nat : \E lo : Searches(lo, from, Within(n))
<1> DEFINE T == {n \in Nat : ~\E lo : Searches(lo, from, Within(n))}
<1> SUFFICES ASSUME T # {} PROVE FALSE
  OBVIOUS
<1>1. PICK n \in T : \A k \in T : n <= k
  <2>1. T \subseteq Nat
    OBVIOUS
  <2> HIDE DEF T
  <2> QED
    BY <2>1, LeastOf
<1>2. n \in Nat
  OBVIOUS
<1>3. PICK lo : \A p \in Within(n - 1) : n > 0 => lo[p] = Found(lo, from, p)
  <2>1. CASE n = 0
    BY <2>1
  <2>2. CASE n > 0
    <3>1. n - 1 \in Nat /\ n - 1 \notin T
      BY <1>1, <1>2, <2>2
    <3>2. PICK lo : Searches(lo, from, Within(n - 1))
      BY <3>1
    <3> QED
      BY <3>2 DEF Searches
  <2> QED
    BY <1>2, <2>1, <2>2
<1> DEFINE hi == [p \in Within(n) |-> Found(lo, from, p)]
<1>4. \A p \in Within(n) : n > 0 /\ p \in Within(n - 1) => hi[p] = lo[p]
  BY <1>3
<1>5. \A p \in Within(n) : Found(lo, from, p) = Found(hi, from, p)
  <2> HIDE DEF hi
  <2> SUFFICES ASSUME NEW p \in Within(n), p[1] < p[2]
               PROVE  Found(lo, from, p) = Found(hi, from, p)
    <3>1. \A p \in Within(n) : p[1] \in Int /\ p[2] \in Int
      BY DEF Within, Place
    <3> QED
      BY <3>1 DEF Found
  <2>1. /\ n > 0
        /\ <<Middle(p) + 1, p[2]>> \in Within(n - 1)
        /\ <<p[1], Middle(p)>> \in Within(n - 1)
    BY <1>2, MiddleIsWithin
  <2>2. Within(n - 1) \subseteq Within(n)
    <3>1. \A q \in Place \X Place : q[1] \in Int /\ q[2] \in Int
      BY DEF Place
    <3> QED
      BY <1>2, <3>1 DEF Within
  <2> QED
    BY <1>4, <2>1, <2>2 DEF Found
<1>6. hi = [p \in Within(n) |-> Found(hi, from, p)]
  <2>1. hi = [p \in Within(n) |-> Found(lo, from, p)]
    OBVIOUS
  <2> HIDE DEF hi
  <2> QED
    BY <1>5, <2>1
<1> HIDE DEF hi
<1>7. Searches(hi, from, Within(n))
  BY <1>6 DEF Searches
<1> QED
  BY <1>1, <1>7

SearchFrom(from) == CHOOSE lo : Searches(lo, from, Place \X Place)

LEMMA SearchSearches ==
  ASSUME TypeOK, NEW from
  PROVE  /\ EventsSince(from) = SubSeq(events, SearchFrom(from)[<<0, Len(events)>>] + 1, Len(events))
         /\ \A p \in Place \X Place : SearchFrom(from)[p] = Found(SearchFrom(from), from, p)
<1>1. Len(events) \in Nat
  BY DEF TypeOK
<1>2. Within(Len(events)) = Place \X Place
  <2>1. \A p \in Place \X Place : p[2] - p[1] <= Len(events)
    BY <1>1 DEF Place
  <2> QED
    BY <2>1 DEF Within
<1>3. \E lo : Searches(lo, from, Within(Len(events)))
  BY <1>1, SearchWithin
<1>4. Searches(SearchFrom(from), from, Place \X Place)
  BY <1>2, <1>3 DEF SearchFrom
<1>5. EventsSince(from) = SubSeq(events, SearchFrom(from)[<<0, Len(events)>>] + 1, Len(events))
  BY DEF EventsSince, SearchFrom, Searches, Found, Place, Middle
<1> QED
  BY <1>4, <1>5 DEF Searches

(* Whatever is to be found lies beyond where a search begins, and then      *)
(* beyond where it ends. *)
Beyond(from, l) == \A k \in DOMAIN events : events[k].at >= from + StepMs => k > l

LEMMA SearchPassesOver ==
  ASSUME TypeOK, NearlyInOrder, NEW from \in Nat
  PROVE  \A p \in Place \X Place : p[1] <= p[2] /\ Beyond(from, p[1]) =>
           SearchFrom(from)[p] \in Place /\ Beyond(from, SearchFrom(from)[p])
<1> DEFINE lo == SearchFrom(from)
           Good(p) == p[1] <= p[2] /\ Beyond(from, p[1]) => lo[p] \in Place /\ Beyond(from, lo[p])
           T == {n \in Nat : \E p \in Within(n) : ~Good(p)}
<1> SUFFICES ASSUME NEW q \in Place \X Place, ~Good(q) PROVE FALSE
  OBVIOUS
<1>1. PICK n \in T : \A k \in T : n <= k
  <2>1. Len(events) \in Nat /\ q \in Within(Len(events))
    BY DEF TypeOK, Within, Place
  <2>2. T \subseteq Nat /\ T # {}
    BY <2>1
  <2> HIDE DEF T
  <2> QED
    BY <2>2, LeastOf
<1>2. PICK p \in Within(n) : ~Good(p)
  OBVIOUS
<1> HIDE DEF lo
<1>3. /\ p \in Place \X Place /\ n \in Nat /\ p[1] \in Nat /\ p[2] \in Nat /\ p[1] \in Place
      /\ DOMAIN events \subseteq Nat
  <2>1. Place \subseteq Nat /\ DOMAIN events \subseteq Nat
    BY DEF Place, TypeOK
  <2>2. p \in Place \X Place /\ n \in Nat
    BY <1>2 DEF Within
  <2>3. p[1] \in Place /\ p[2] \in Place
    BY <2>2
  <2> QED
    BY <2>1, <2>2, <2>3
<1>4. lo[p] = Found(lo, from, p)
  BY <1>3, SearchSearches DEF lo
<1>5. p[1] <= p[2] /\ Beyond(from, p[1]) /\ ~(lo[p] \in Place /\ Beyond(from, lo[p]))
  BY <1>2
<1>6. p[1] < p[2]
  <2>1. ASSUME p[1] >= p[2] PROVE FALSE
    BY <1>3, <1>4, <1>5, <2>1 DEF Found
  <2> QED
    BY <1>3, <2>1
<1> DEFINE m == Middle(p)
<1>7. /\ n > 0 /\ p[1] <= m /\ m < p[2] /\ m \in Nat /\ m + 1 \in DOMAIN events
      /\ <<m + 1, p[2]>> \in Within(n - 1) /\ <<p[1], m>> \in Within(n - 1)
  BY <1>2, <1>3, <1>6, MiddleIsWithin
<1>8. \A r \in Within(n - 1) : Good(r)
  <2>1. n - 1 \in Nat /\ n - 1 \notin T
    BY <1>1, <1>3, <1>7
  <2> QED
    BY <2>1
<1>9. lo[p] = IF events[m + 1].at < from THEN lo[<<m + 1, p[2]>>] ELSE lo[<<p[1], m>>]
  <2>1. ~(p[1] >= p[2])
    BY <1>3, <1>6
  <2> QED
    BY <1>4, <2>1 DEF Found
<1> HIDE DEF m
<1>10. CASE events[m + 1].at < from
  <2>1. Beyond(from, m + 1)
    <3> SUFFICES ASSUME NEW k \in DOMAIN events, events[k].at >= from + StepMs, k <= m + 1
                 PROVE  FALSE
      BY <1>3, <1>7 DEF Beyond
    <3>1. events[k].at \in Nat /\ events[m + 1].at \in Nat /\ StepMs \in Nat /\ k \in Nat
      BY <1>3, <1>7, EventsDated, AirAssumption
    <3>2. k = m + 1 \/ k < m + 1
      BY <1>7, <3>1
    <3>3. k < m + 1 => events[k].at < events[m + 1].at + StepMs
      BY <1>7 DEF NearlyInOrder
    <3> QED
      BY <1>10, <3>1, <3>2, <3>3
  <2>2. m + 1 <= p[2]
    BY <1>3, <1>7
  <2>3. Good(<<m + 1, p[2]>>)
    BY <1>7, <1>8
  <2>4. lo[<<m + 1, p[2]>>] \in Place /\ Beyond(from, lo[<<m + 1, p[2]>>])
    BY <2>1, <2>2, <2>3
  <2> QED
    BY <1>5, <1>9, <1>10, <2>4
<1>11. CASE ~(events[m + 1].at < from)
  <2>1. Good(<<p[1], m>>)
    BY <1>7, <1>8
  <2>2. lo[<<p[1], m>>] \in Place /\ Beyond(from, lo[<<p[1], m>>])
    BY <1>5, <1>7, <2>1
  <2> QED
    BY <1>5, <1>9, <1>11, <2>2
<1> QED
  BY <1>10, <1>11

(* The events since a moment include every one that is younger than it by a *)
(* step or more, however long the log and however the search goes.          *)
THEOREM SearchFindsTheYounger == Spec => []EventsSinceNearly
<1>1. TypeOK /\ OrderInv => EventsSinceNearly
  <2> SUFFICES ASSUME TypeOK, OrderInv, NEW from \in 0 .. MaxMs,
                      NEW k \in DOMAIN events, events[k].at >= from + StepMs
               PROVE  k > Len(events) - Len(EventsSince(from))
    BY DEF EventsSinceNearly
  <2> DEFINE n == SearchFrom(from)[<<0, Len(events)>>]
  <2>1. from \in Nat /\ NearlyInOrder /\ Len(events) \in Nat
    BY DEF OrderInv, TypeOK
  <2>2. Beyond(from, 0) /\ <<0, Len(events)>> \in Place \X Place
    BY <2>1 DEF Beyond, TypeOK, Place
  <2>3. n \in Place /\ Beyond(from, n)
    BY <2>1, <2>2, SearchPassesOver
  <2>4. EventsSince(from) = SubSeq(events, n + 1, Len(events))
    BY SearchSearches
  <2> HIDE DEF n
  <2>5. Len(EventsSince(from)) = Len(events) - n
    BY <2>1, <2>3, <2>4 DEF Place, TypeOK
  <2> QED
    BY <2>1, <2>3, <2>5 DEF Beyond, Place, TypeOK
<1> QED
  BY <1>1, LedgerAlways, TypeCorrect, PTL
=============================================================================
