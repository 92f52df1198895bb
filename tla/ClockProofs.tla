----------------------------- MODULE ClockProofs -----------------------------
(***************************************************************************)
(* What is proved of Clock for every step, every schedule, every size of    *)
(* tick and every bound: its types; that a scheduled send is said once and  *)
(* when it is due; that held calls run once, in order and in time; that a   *)
(* tick lands at the end of a run; and that the world shows the engine's    *)
(* clock.                                                                   *)
(***************************************************************************)
EXTENDS Clock, FiniteSetTheorems, WellFoundedInduction, TLAPS

(* A set of numbers that is not empty has a least.                          *)
LEMMA LeastOf ==
  ASSUME NEW T, T \subseteq Nat, T # {}
  PROVE  \E n \in T : \A k \in T : n <= k
<1>1. PICK n \in T : \A k \in T : ~(<<k, n>> \in OpToRel(<, Nat))
  BY NatLessThanWellFounded, WFMin, Zenon
<1>2. \A k \in T : ~(k < n)
  BY <1>1 DEF OpToRel
<1> QED
  BY <1>2

-----------------------------------------------------------------------------
(* Types.                                                                   *)
Send == [times : Nat, stepped : BOOLEAN, again : BOOLEAN]
Call == [at : Nat, seq : Nat]
Ran == [call : Call, when : Nat]

LEMMA Lengths ==
  ASSUME TypeOK
  PROVE  /\ Len(sends) \in Nat /\ Len(seen) \in Nat /\ Len(held) \in Nat /\ Len(ran) \in Nat
         /\ Len(lastMs) = Len(seen) /\ Len(said) = Len(sends)
         /\ \A i \in 1 .. Len(sends) : sends[i] \in Scheduled /\ said[i] \in Send
         /\ \A i \in 1 .. Len(seen) : seen[i] \in Scheduled /\ lastMs[i] \in Nat \cup {-1}
         /\ \A i \in 1 .. Len(held) : held[i] \in Call
         /\ \A i \in 1 .. Len(ran) : ran[i] \in Ran
<1>1. /\ sends \in Seq(Scheduled) /\ seen \in Seq(Scheduled) /\ held \in Seq(Call)
      /\ said \in Seq(Send) /\ ran \in Seq(Ran)
      /\ lastMs \in Seq(Nat \cup {-1}) /\ Len(lastMs) = Len(seen) /\ Len(said) = Len(sends)
  BY DEF TypeOK, Send, Call, Ran
<1>2. /\ Len(sends) \in Nat /\ Len(seen) \in Nat /\ Len(held) \in Nat /\ Len(ran) \in Nat
  BY <1>1
<1>3. \A i \in 1 .. Len(sends) : sends[i] \in Scheduled /\ said[i] \in Send
  BY <1>1
<1>4. \A i \in 1 .. Len(seen) : seen[i] \in Scheduled /\ lastMs[i] \in Nat \cup {-1}
  BY <1>1
<1>5. \A i \in 1 .. Len(held) : held[i] \in Call
  BY <1>1
<1>6. \A i \in 1 .. Len(ran) : ran[i] \in Ran
  BY <1>1
<1>7. Len(lastMs) = Len(seen) /\ Len(said) = Len(sends)
  BY <1>1
<1> QED
  BY <1>2, <1>3, <1>4, <1>5, <1>6, <1>7

(* What is remembered of a send is when it was said, or that it was not.    *)
LEMMA RememberedType ==
  ASSUME TypeOK
  PROVE  /\ Keep \in 0 .. Len(seen)
         /\ Keep <= Len(sends)
         /\ \A i \in 1 .. Len(sends) :
              /\ Remembered[i] = IF i <= Keep THEN lastMs[i] ELSE -1
              /\ Remembered[i] \in Nat \cup {-1}
<1>1. Keep \in 0 .. Len(seen) /\ Keep <= Len(sends)
  BY Lengths DEF Keep
<1>2. \A i \in 1 .. Len(sends) : Remembered[i] = IF i <= Keep THEN lastMs[i] ELSE -1
  BY DEF Remembered
<1>3. \A i \in 1 .. Len(sends) : i <= Keep => i \in 1 .. Len(seen)
  BY <1>1, Lengths
<1> QED
  BY <1>1, <1>2, <1>3, Lengths

(* What fires of a queue is a number of its first calls. *)
LEMMA DueFirstIs ==
  ASSUME NEW q \in Seq(Call), NEW at \in Nat
  PROVE  /\ DueFirst(q, at) \in 0 .. Len(q)
         /\ \A i \in 1 .. DueFirst(q, at) : q[i].at <= at
         /\ DueFirst(q, at) < Len(q) => q[DueFirst(q, at) + 1].at > at
<1> DEFINE P(n) == /\ \A i \in 1 .. n : q[i].at <= at
                   /\ n < Len(q) => q[n + 1].at > at
           T == {n \in Nat : n < Len(q) /\ q[n + 1].at > at}
<1>1. Len(q) \in Nat /\ \A i \in 1 .. Len(q) : q[i].at \in Nat
  <2>1. \A i \in 1 .. Len(q) : q[i] \in Call
    OBVIOUS
  <2> QED
    BY <2>1 DEF Call
<1>2. \E n \in 0 .. Len(q) : P(n)
  <2>1. CASE T = {}
    <3>1. ASSUME NEW i \in 1 .. Len(q) PROVE q[i].at <= at
      <4>1. i - 1 \in Nat /\ i - 1 < Len(q) /\ (i - 1) + 1 = i
        BY <1>1
      <4>2. ~(q[i].at > at)
        BY <2>1, <4>1
      <4> QED
        BY <1>1, <4>2
    <3>2. P(Len(q)) /\ Len(q) \in 0 .. Len(q)
      BY <1>1, <3>1
    <3> QED
      BY <3>2
  <2>2. CASE T # {}
    <3>1. PICK n \in T : \A k \in T : n <= k
      <4>1. T \subseteq Nat
        OBVIOUS
      <4> HIDE DEF T
      <4> QED
        BY <2>2, <4>1, LeastOf
    <3>2. n \in Nat /\ n < Len(q) /\ q[n + 1].at > at
      OBVIOUS
    <3>3. ASSUME NEW i \in 1 .. n PROVE q[i].at <= at
      <4>1. i - 1 \in Nat /\ i - 1 < Len(q) /\ (i - 1) + 1 = i /\ ~(n <= i - 1) /\ i \in 1 .. Len(q)
        BY <1>1, <3>2
      <4>2. i - 1 \notin T
        BY <3>1, <4>1
      <4>3. ~(q[i].at > at)
        BY <4>1, <4>2
      <4> QED
        BY <1>1, <4>1, <4>3
    <3> QED
      BY <1>1, <3>2, <3>3
  <2> QED
    BY <2>1, <2>2
<1>3. DueFirst(q, at) = CHOOSE n \in 0 .. Len(q) : P(n)
  BY DEF DueFirst
<1> HIDE DEF P
<1>4. DueFirst(q, at) \in 0 .. Len(q) /\ P(DueFirst(q, at))
  BY <1>2, <1>3
<1> QED
  BY <1>4 DEF P

(* What a step leaves held, and what it adds to what has run. *)
LEMMA InputsFired ==
  ASSUME TypeOK, NEW at \in Nat, FireDueInputs(at)
  PROVE  \E n \in 0 .. Len(held) :
           /\ \A i \in 1 .. n : held[i].at <= at
           /\ n < Len(held) => held[n + 1].at > at
           /\ held' \in Seq(Call) /\ Len(held') = Len(held) - n
           /\ \A i \in 1 .. Len(held) - n : held'[i] = held[i + n]
           /\ ran' \in Seq(Ran) /\ Len(ran') = Len(ran) + n
           /\ \A i \in 1 .. Len(ran) : ran'[i] = ran[i]
           /\ \A i \in 1 .. n : ran'[i + Len(ran)] = [call |-> held[i], when |-> at]
<1> DEFINE n == DueFirst(held, at)
           new == [i \in 1 .. n |-> [call |-> held[i], when |-> at]]
<1>1. held \in Seq(Call) /\ ran \in Seq(Ran)
  BY DEF TypeOK, Call, Ran
<1>2. /\ n \in 0 .. Len(held) /\ \A i \in 1 .. n : held[i].at <= at
      /\ n < Len(held) => held[n + 1].at > at
  BY <1>1, DueFirstIs
<1>3. ran' = ran \o new /\ held' = SubSeq(held, n + 1, Len(held))
  BY DEF FireDueInputs
<1> HIDE DEF n
<1>4. /\ held' \in Seq(Call) /\ Len(held') = Len(held) - n
      /\ \A i \in 1 .. Len(held) - n : held'[i] = held[i + n]
  <2>1. Len(held) \in Nat
    BY <1>1
  <2> QED
    BY <1>1, <1>2, <1>3, <2>1
<1>5. new \in Seq(Ran) /\ Len(new) = n
  <2>1. n \in Nat /\ \A i \in 1 .. n : held[i] \in Call
    BY <1>1, <1>2
  <2>2. \A i \in 1 .. n : new[i] \in Ran
    BY <2>1 DEF Ran
  <2>3. DOMAIN new = 1 .. n
    OBVIOUS
  <2>4. new \in [1 .. n -> Ran]
    BY <2>2
  <2> QED
    BY <2>1, <2>4
<1>6. \A i \in 1 .. n : new[i] = [call |-> held[i], when |-> at]
  OBVIOUS
<1> HIDE DEF new
<1>7. /\ ran' \in Seq(Ran) /\ Len(ran') = Len(ran) + n
      /\ \A i \in 1 .. Len(ran) : ran'[i] = ran[i]
      /\ \A i \in 1 .. n : ran'[i + Len(ran)] = new[i]
  <2>1. ran' \in Seq(Ran)
    BY <1>1, <1>3, <1>5
  <2>2. ran' = ran \o new /\ Len(ran) \in Nat /\ n \in Nat
    BY <1>1, <1>2, <1>3
  <2>3. Len(ran') = Len(ran) + n /\ \A i \in 1 .. Len(ran) : ran'[i] = ran[i]
    BY <1>1, <1>5, <2>2
  <2>4. \A i \in 1 .. n : ran'[i + Len(ran)] = new[i]
    BY <1>1, <1>5, <2>2
  <2> QED
    BY <2>1, <2>3, <2>4
<1> QED
  BY <1>2, <1>4, <1>6, <1>7

(* What a step says, and what it remembers of it. *)
LEMMA SendsFired ==
  ASSUME TypeOK, NEW at \in Nat, FireDueSends(at)
  PROVE  /\ sends' = sends
         /\ seen' \in Seq(Scheduled)
         /\ lastMs' \in Seq(Nat \cup {-1}) /\ Len(lastMs') = Len(seen')
         /\ said' \in Seq(Send) /\ Len(said') = Len(sends)
         /\ sends # << >> => seen' = sends
         /\ \A i \in 1 .. Len(sends) :
              LET due == Due(sends[i], Remembered[i], at)
              IN  /\ lastMs'[i] = IF due THEN at ELSE Remembered[i]
                  /\ said'[i].times = IF due THEN said[i].times + 1 ELSE said[i].times
                  /\ said'[i].again = said[i].again
<1>1. /\ Len(sends) \in Nat /\ sends \in Seq(Scheduled) /\ seen \in Seq(Scheduled)
      /\ lastMs \in Seq(Nat \cup {-1}) /\ Len(lastMs) = Len(seen)
      /\ said \in Seq(Send) /\ Len(said) = Len(sends)
  BY DEF TypeOK, Send
<1>2. CASE sends = << >>
  BY <1>1, <1>2 DEF FireDueSends, sendVars
<1>3. CASE sends # << >>
  <2> DEFINE isDue(i) == Due(sends[i], Remembered[i], at)
             due == {i \in 1 .. Len(sends) : isDue(i)}
  <2>1. /\ lastMs' = [i \in 1 .. Len(sends) |-> IF i \in due THEN at ELSE Remembered[i]]
        /\ seen' = sends /\ sends' = sends
        /\ said' = [i \in 1 .. Len(sends) |->
                      [said[i] EXCEPT !.times = IF i \in due THEN @ + 1 ELSE @, !.stepped = TRUE]]
    BY <1>3 DEF FireDueSends
  <2>2. \A i \in 1 .. Len(sends) : i \in due <=> isDue(i)
    OBVIOUS
  <2> HIDE DEF isDue, due
  <2>3. \A i \in 1 .. Len(sends) : lastMs'[i] = IF isDue(i) THEN at ELSE Remembered[i]
    BY <2>1, <2>2
  <2>4. lastMs' \in Seq(Nat \cup {-1}) /\ Len(lastMs') = Len(sends)
    <3>1. \A i \in 1 .. Len(sends) : Remembered[i] \in Nat \cup {-1}
      BY RememberedType
    <3>2. lastMs' \in [1 .. Len(sends) -> Nat \cup {-1}]
      BY <2>1, <3>1
    <3>3. Len(sends) \in Nat
      BY <1>1
    <3> QED
      BY <3>2, <3>3
  <2>5. \A i \in 1 .. Len(sends) :
          /\ said'[i] \in Send
          /\ said'[i].times = IF isDue(i) THEN said[i].times + 1 ELSE said[i].times
          /\ said'[i].again = said[i].again
    <3> SUFFICES ASSUME NEW i \in 1 .. Len(sends)
                 PROVE  /\ said'[i] \in Send
                        /\ said'[i].times = IF isDue(i) THEN said[i].times + 1 ELSE said[i].times
                        /\ said'[i].again = said[i].again
      OBVIOUS
    <3>1. said[i] \in Send
      BY <1>1
    <3>2. said'[i] = [said[i] EXCEPT !.times = IF i \in due THEN @ + 1 ELSE @, !.stepped = TRUE]
      BY <2>1
    <3>3. /\ said'[i].times = IF i \in due THEN said[i].times + 1 ELSE said[i].times
          /\ said'[i].again = said[i].again /\ said'[i].stepped = TRUE
          /\ said'[i] = [times |-> said'[i].times, stepped |-> TRUE, again |-> said[i].again]
      BY <3>1, <3>2 DEF Send
    <3>4. said[i].times \in Nat /\ said[i].again \in BOOLEAN
      BY <3>1 DEF Send
    <3>5. said'[i].times \in Nat
      BY <3>3, <3>4
    <3>6. said'[i] \in Send
      BY <3>3, <3>4, <3>5 DEF Send
    <3> QED
      BY <2>2, <3>3, <3>6
  <2>6. said' \in Seq(Send) /\ Len(said') = Len(sends)
    <3>1. said' \in [1 .. Len(sends) -> Send]
      BY <2>1, <2>5
    <3> QED
      BY <1>1, <3>1
  <2> QED
    BY <1>1, <2>1, <2>3, <2>4, <2>5, <2>6 DEF isDue
<1> QED
  BY <1>2, <1>3

(* Where a call is put among those held: behind as many as are sooner.      *)
LEMMA Insertion ==
  ASSUME NEW q \in Seq(Call), NEW call \in Call
  PROVE  \E n \in 0 .. Len(q) :
           /\ n = Cardinality({i \in 1 .. Len(q) : Sooner(q[i], call)})
           /\ Added(q, call) \in Seq(Call) /\ Len(Added(q, call)) = Len(q) + 1
           /\ \A i \in 1 .. Len(q) + 1 :
                Added(q, call)[i] = IF i <= n THEN q[i] ELSE IF i = n + 1 THEN call ELSE q[i - 1]
<1> DEFINE S == {i \in 1 .. Len(q) : Sooner(q[i], call)}
           n == Cardinality(S)
<1>1. Len(q) \in Nat
  OBVIOUS
<1>2. n \in 0 .. Len(q)
  <2>1. IsFiniteSet(1 .. Len(q)) /\ Cardinality(1 .. Len(q)) = Len(q)
    <3>1. 1 \in Int /\ Len(q) \in Int
      BY <1>1
    <3>2. IsFiniteSet(1 .. Len(q)) /\ Cardinality(1 .. Len(q)) = IF 1 > Len(q) THEN 0 ELSE Len(q) - 1 + 1
      BY <3>1, FS_Interval
    <3> QED
      BY <1>1, <3>2
  <2>2. S \subseteq 1 .. Len(q)
    OBVIOUS
  <2> HIDE DEF S
  <2>3. IsFiniteSet(S) /\ Cardinality(S) <= Len(q)
    BY <2>1, <2>2, FS_Subset
  <2>4. Cardinality(S) \in Nat
    BY <2>3, FS_CardinalityType
  <2> QED
    BY <1>1, <2>3, <2>4
<1>3. Added(q, call) = SubSeq(q, 1, n) \o <<call>> \o SubSeq(q, n + 1, Len(q))
  BY DEF Added
<1> HIDE DEF n
<1> DEFINE a == SubSeq(q, 1, n)
           b == SubSeq(q, n + 1, Len(q))
<1>5. /\ a \in Seq(Call) /\ Len(a) = n /\ \A i \in 1 .. n : a[i] = q[i]
      /\ b \in Seq(Call) /\ Len(b) = Len(q) - n /\ \A i \in 1 .. Len(q) - n : b[i] = q[i + n]
  BY <1>1, <1>2
<1>6. Added(q, call) = a \o <<call>> \o b
  BY <1>3
<1> HIDE DEF a, b
<1>7. /\ a \o <<call>> \in Seq(Call) /\ Len(a \o <<call>>) = n + 1
      /\ \A i \in 1 .. n : (a \o <<call>>)[i] = q[i]
      /\ (a \o <<call>>)[n + 1] = call
  BY <1>2, <1>5
<1> DEFINE c == a \o <<call>>
<1> HIDE DEF c
<1>8. /\ c \o b \in Seq(Call) /\ Len(c \o b) = Len(q) + 1
      /\ \A i \in 1 .. n + 1 : (c \o b)[i] = c[i]
      /\ \A i \in 1 .. Len(q) - n : (c \o b)[i + (n + 1)] = b[i]
  <2>1. c \in Seq(Call) /\ Len(c) = n + 1 /\ b \in Seq(Call) /\ Len(b) = Len(q) - n
    BY <1>5, <1>7 DEF c
  <2>2. n \in Nat /\ Len(q) - n \in Nat
    BY <1>1, <1>2
  <2>3. c \o b \in Seq(Call) /\ Len(c \o b) = Len(c) + Len(b)
    BY <2>1
  <2>4. \A i \in 1 .. n + 1 : (c \o b)[i] = c[i]
    BY <2>1, <2>2
  <2>5. \A i \in 1 .. Len(q) - n : (c \o b)[i + (n + 1)] = b[i]
    BY <2>1, <2>2
  <2> QED
    BY <1>1, <1>2, <2>1, <2>3, <2>4, <2>5
<1>9. ASSUME NEW i \in 1 .. Len(q) + 1
      PROVE  (c \o b)[i] = IF i <= n THEN q[i] ELSE IF i = n + 1 THEN call ELSE q[i - 1]
  <2>1. CASE i <= n
    BY <1>1, <1>2, <1>7, <1>8, <2>1 DEF c
  <2>2. CASE i = n + 1
    BY <1>1, <1>2, <1>7, <1>8, <2>2 DEF c
  <2>3. CASE i > n + 1
    <3> DEFINE k == i - (n + 1)
    <3>1. k \in 1 .. Len(q) - n /\ k + n = i - 1 /\ k + (n + 1) = i
      BY <1>1, <1>2, <2>3
    <3> HIDE DEF k
    <3>2. (c \o b)[k + (n + 1)] = b[k] /\ b[k] = q[k + n]
      BY <1>5, <1>8, <3>1
    <3>3. (c \o b)[i] = q[i - 1]
      BY <3>1, <3>2
    <3>4. ~(i <= n) /\ i # n + 1
      BY <1>1, <1>2, <2>3
    <3> QED
      BY <3>3, <3>4
  <2>4. i <= n \/ i = n + 1 \/ i > n + 1
    BY <1>1, <1>2
  <2> QED
    BY <2>1, <2>2, <2>3, <2>4
<1>10. Added(q, call) = c \o b
  BY <1>6 DEF c
<1> QED
  BY <1>2, <1>8, <1>9, <1>10 DEF n

(* Being a prefix is agreeing as far as it goes.                            *)
IsPrefix(s, t) == Len(s) <= Len(t) /\ s = SubSeq(t, 1, Len(s))

LEMMA PrefixIs ==
  ASSUME NEW X, NEW s \in Seq(X), NEW t \in Seq(X)
  PROVE  IsPrefix(s, t) <=> Len(s) <= Len(t) /\ \A i \in 1 .. Len(s) : s[i] = t[i]
<1>1. Len(s) \in Nat /\ Len(t) \in Nat
  OBVIOUS
<1>2. CASE Len(s) <= Len(t)
  <2> DEFINE a == SubSeq(s, 1, Len(s))
             b == SubSeq(t, 1, Len(s))
  <2>1. a \in Seq(X) /\ Len(a) = Len(s) /\ \A i \in 1 .. Len(s) : a[i] = s[i]
    BY <1>1
  <2>2. b \in Seq(X) /\ Len(b) = Len(s) /\ \A i \in 1 .. Len(s) : b[i] = t[i]
    BY <1>1, <1>2
  <2>3. IsPrefix(s, t) <=> a = b
    BY <1>2 DEF IsPrefix
  <2> HIDE DEF a, b
  <2>4. a = b <=> \A i \in 1 .. Len(s) : a[i] = b[i]
    <3>1. a = [i \in 1 .. Len(s) |-> a[i]] /\ b = [i \in 1 .. Len(s) |-> b[i]]
      BY <2>1, <2>2
    <3> QED
      BY <3>1
  <2> QED
    BY <1>2, <2>1, <2>2, <2>3, <2>4
<1>3. CASE ~(Len(s) <= Len(t))
  BY <1>3 DEF IsPrefix
<1> QED
  BY <1>2, <1>3

-----------------------------------------------------------------------------
(* A step of the engine keeps the types of what it touches.                 *)
LEMMA StepTypes ==
  ASSUME ClockAssumption, TypeOK, StepEngine
  PROVE  /\ now' = now + StepMs /\ now' \in Nat /\ alive' = alive
         /\ {sends', seen'} \subseteq Seq(Scheduled)
         /\ lastMs' \in Seq(Nat \cup {-1}) /\ Len(lastMs') = Len(seen')
         /\ said' \in Seq(Send) /\ Len(said') = Len(sends')
         /\ held' \in Seq(Call) /\ ran' \in Seq(Ran)
<1>1. StepMs \in Nat /\ now \in Nat
  BY DEF ClockAssumption, TypeOK
<1>2. now' = now + StepMs /\ alive' = alive
  BY DEF StepEngine
<1>3. now' = now + StepMs /\ now' \in Nat /\ alive' = alive
  BY <1>1, <1>2
<1>4. FireDueSends(now') /\ FireDueInputs(now')
  BY DEF StepEngine
<1>5. sends \in Seq(Scheduled)
  BY DEF TypeOK
<1> HIDE DEF StepEngine
<1>6. /\ sends' = sends /\ seen' \in Seq(Scheduled)
      /\ lastMs' \in Seq(Nat \cup {-1}) /\ Len(lastMs') = Len(seen')
      /\ said' \in Seq(Send) /\ Len(said') = Len(sends)
  BY <1>3, <1>4, SendsFired
<1>7. held' \in Seq(Call) /\ ran' \in Seq(Ran)
  BY <1>3, <1>4, InputsFired
<1> QED
  BY <1>3, <1>5, <1>6, <1>7

(* And a new engine has them.                                               *)
LEMMA FreshTypes ==
  ASSUME BuildSeeded, NEW f \in Seq(Scheduled), said' = [i \in 1 .. Len(f) |-> Unsaid(FALSE)]
  PROVE  /\ alive' \in BOOLEAN /\ {now', owed', began'} \subseteq Nat
         /\ seen' \in Seq(Scheduled) /\ lastMs' \in Seq(Nat \cup {-1}) /\ Len(lastMs') = Len(seen')
         /\ held' \in Seq(Call) /\ ran' \in Seq(Ran)
         /\ run' \in [from : Nat, for : Nat]
         /\ said' \in Seq(Send) /\ Len(said') = Len(f)
<1>1. /\ alive' \in BOOLEAN /\ {now', owed', began'} \subseteq Nat
      /\ run' \in [from : Nat, for : Nat]
  BY DEF BuildSeeded, NoRun
<1>2. seen' = << >> /\ lastMs' = << >> /\ held' = << >> /\ ran' = << >>
  BY DEF BuildSeeded
<1>3. /\ seen' \in Seq(Scheduled) /\ lastMs' \in Seq(Nat \cup {-1}) /\ Len(lastMs') = Len(seen')
      /\ held' \in Seq(Call) /\ ran' \in Seq(Ran)
  BY <1>2
<1>4. said' \in Seq(Send) /\ Len(said') = Len(f)
  <2>1. Unsaid(FALSE) \in Send
    BY DEF Unsaid, Send
  <2>2. Len(f) \in Nat
    OBVIOUS
  <2> DEFINE new == [i \in 1 .. Len(f) |-> Unsaid(FALSE)]
  <2>3. new \in [1 .. Len(f) -> Send]
    BY <2>1
  <2> HIDE DEF new
  <2>4. new \in Seq(Send) /\ Len(new) = Len(f)
    BY <2>2, <2>3
  <2> QED
    BY <2>4 DEF new
<1> QED
  BY <1>1, <1>3, <1>4

(* The types, with the records of a send, of a call and of one that has run *)
(* named.                                                                   *)
Types ==
  /\ alive \in BOOLEAN
  /\ {now, worldNow, until, left, owed, began} \subseteq Nat
  /\ playing \in BOOLEAN
  /\ tickMs \in TickSizes
  /\ loop \in {"idle", "playingTick", "handTick", "settling"}
  /\ {sends, seen} \subseteq Seq(Scheduled)
  /\ lastMs \in Seq(Nat \cup {-1}) /\ Len(lastMs) = Len(seen)
  /\ held \in Seq(Call)
  /\ run \in [from : Nat, for : Nat]
  /\ shown \in {"own", "earlier", "cell"}
  /\ cell \in Nat \cup {-1}
  /\ said \in Seq(Send) /\ Len(said) = Len(sends)
  /\ ran \in Seq(Ran)

LEMMA TypesAre == (TypeOK <=> Types) /\ (TypeOK' <=> Types')
  BY DEF TypeOK, Types, Send, Call, Ran

LEMMA FixtureType == ASSUME NEW f \in Fixtures PROVE f \in Seq(Scheduled)
<1>1. ASSUME NEW s \in Scheduled PROVE <<s>> \in Seq(Scheduled)
  OBVIOUS
<1>2. << >> \in Seq(Scheduled)
  OBVIOUS
<1> QED
  BY <1>1, <1>2 DEF Fixtures

LEMMA TypeInit == Init => TypeOK
<1> SUFFICES ASSUME Init PROVE TypeOK
  OBVIOUS
<1>1. /\ sends = << >> /\ seen = << >> /\ lastMs = << >> /\ held = << >> /\ said = << >> /\ ran = << >>
  BY DEF Init
<1>2. /\ {sends, seen} \subseteq Seq(Scheduled)
      /\ lastMs \in Seq(Nat \cup {-1}) /\ Len(lastMs) = Len(seen)
      /\ held \in Seq(Call) /\ said \in Seq(Send) /\ Len(said) = Len(sends)
      /\ ran \in Seq(Ran)
  BY <1>1
<1>3. /\ {now, worldNow, until, left, owed, began} \subseteq Nat
      /\ tickMs \in TickSizes /\ loop = "idle"
      /\ run \in [from : Nat, for : Nat]
  BY DEF Init, NoRun
<1>4. alive \in BOOLEAN /\ playing \in BOOLEAN
  BY Zenon DEF Init
<1>5. shown \in {"own", "earlier", "cell"} /\ cell \in Nat \cup {-1}
  BY DEF Init
<1> QED
  BY <1>2, <1>3, <1>4, <1>5, TypesAre DEF Types

LEMMA TypeTicks == ASSUME ClockAssumption, TypeOK, Ticks PROVE TypeOK'
<1> USE DEF Types
<1>1. Types
  BY TypesAre
<1>2. StepMs \in Nat \ {0} /\ TickSizes \subseteq Nat
  BY DEF ClockAssumption
<1>3. CASE StoreTick
  <2>1. tickMs \in Nat /\ worldNow \in Nat /\ owed \in Nat
    BY <1>1, <1>2
  <2>2. worldNow + tickMs \in Nat /\ owed + tickMs \in Nat
    BY <2>1
  <2>3. /\ worldNow' = worldNow + tickMs /\ loop' = "playingTick" /\ began' = now
        /\ owed' \in {owed + tickMs, owed}
        /\ UNCHANGED <<engineVars, cell, playVars, left, sendVars, inputVars, run, shown>>
    BY <1>3 DEF StoreTick, BeginTick
  <2> QED
    BY <1>1, <2>2, <2>3, TypesAre DEF engineVars, playVars, sendVars, inputVars
<1>4. CASE SimStep
  <2>1. StepMs \in Nat /\ owed \in Nat
    BY <1>1, <1>2
  <2>2. owed + StepMs \in Nat
    BY <2>1
  <2>3. /\ loop' = "handTick" /\ began' = now /\ owed' \in {owed + StepMs, owed}
        /\ UNCHANGED <<engineVars, cell, worldNow, playVars, left, sendVars, inputVars, run, shown>>
    BY <1>4 DEF SimStep, BeginTick
  <2>4. owed' \in Nat /\ began' \in Nat
    BY <1>1, <2>1, <2>2, <2>3
  <2> QED
    BY <1>1, <2>3, <2>4, TypesAre DEF engineVars, playVars, sendVars, inputVars
<1>5. CASE TickSteps
  <2>1. owed' \in {owed - StepMs, 0} /\ owed >= StepMs
    BY <1>5 DEF TickSteps
  <2>2. owed \in Nat /\ StepMs \in Nat
    BY <1>1, <1>2
  <2>3. owed' \in Nat
    BY <2>1, <2>2
  <2>4. StepEngine /\ UNCHANGED <<cell, worldNow, playVars, loop, left, began, run, shown>>
    BY <1>5 DEF TickSteps
  <2> QED
    BY <1>1, <2>3, <2>4, StepTypes, TypesAre DEF playVars
<1>6. CASE TickStopsAtEnd
  BY <1>1, <1>2, <1>6, TypesAre DEF TickStopsAtEnd, engineVars, playVars, sendVars, inputVars
<1>7. CASE TickEnds
  <2>1. /\ worldNow' \in {now, worldNow} \cup (IF cell = -1 THEN {} ELSE {cell})
        /\ until' \in {0, until} /\ loop' = "idle"
        /\ UNCHANGED <<engineVars, cell, tickMs, left, owed, sendVars, inputVars, began, run>>
    BY <1>7 DEF TickEnds
  <2>2. worldNow' \in Nat /\ until' \in Nat
    BY <1>1, <2>1
  <2>3. playing' \in BOOLEAN
    BY <1>1, <1>7, Zenon DEF TickEnds
  <2>4. shown' \in {"own", "earlier", "cell"}
    BY <1>1, <1>7 DEF TickEnds
  <2> QED
    BY <1>1, <2>1, <2>2, <2>3, <2>4, TypesAre DEF engineVars, sendVars, inputVars
<1>8. CASE SettleSteps
  <2>1. left' \in Nat
    BY <1>1, <1>2, <1>8 DEF SettleSteps
  <2>2. StepEngine /\ UNCHANGED <<cell, worldNow, playVars, loop, owed, began, run, shown>>
    BY <1>8 DEF SettleSteps
  <2> QED
    BY <1>1, <2>1, <2>2, StepTypes, TypesAre DEF playVars
<1>9. CASE SettleEnds
  BY <1>1, <1>2, <1>9, TypesAre DEF SettleEnds, engineVars, playVars, sendVars, inputVars
<1> QED
  BY <1>3, <1>4, <1>5, <1>6, <1>7, <1>8, <1>9 DEF Ticks

LEMMA TypeVerbs == ASSUME ClockAssumption, TypeOK, Verbs PROVE TypeOK'
<1> USE DEF Types
<1>1. Types
  BY TypesAre
<1>2. /\ StepMs \in Nat \ {0} /\ TickSizes \subseteq Nat /\ RunFor \subseteq Nat
      /\ SettleFor \subseteq Nat /\ HoldAt \subseteq Nat
  BY DEF ClockAssumption
<1> DEFINE FreshlyBuilt(f) ==
             /\ alive' \in BOOLEAN /\ {now', owed', began'} \subseteq Nat
             /\ seen' \in Seq(Scheduled) /\ lastMs' \in Seq(Nat \cup {-1})
             /\ Len(lastMs') = Len(seen')
             /\ held' \in Seq(Call) /\ ran' \in Seq(Ran)
             /\ run' \in [from : Nat, for : Nat]
             /\ said' \in Seq(Send) /\ Len(said') = Len(f)
<1> HIDE DEF FreshlyBuilt
<1>3. ASSUME NEW f \in Seq(Scheduled), BuildSeeded, said' = [i \in 1 .. Len(f) |-> Unsaid(FALSE)]
      PROVE  FreshlyBuilt(f)
  BY <1>3, FreshTypes DEF FreshlyBuilt
<1>4. ASSUME NEW on \in BOOLEAN, Play(on) PROVE TypeOK'
  BY <1>1, <1>4, TypesAre DEF Play, engineVars, sendVars, inputVars
<1>5. ASSUME NEW for \in RunFor, SimRun(for) PROVE TypeOK'
  <2>1. /\ until' = worldNow + for /\ run' = [from |-> now, for |-> for]
        /\ UNCHANGED <<engineVars, cell, worldNow, tickMs, loop, left, owed, sendVars, inputVars, began, shown>>
    BY <1>5 DEF SimRun
  <2>2. for \in Nat /\ worldNow \in Nat /\ now \in Nat
    BY <1>1, <1>2
  <2>3. until' \in Nat /\ run' \in [from : Nat, for : Nat]
    BY <2>1, <2>2
  <2>4. playing' \in BOOLEAN
    BY <1>5, Zenon DEF SimRun
  <2> QED
    BY <1>1, <2>1, <2>3, <2>4, TypesAre DEF engineVars, sendVars, inputVars
<1>6. ASSUME NEW n \in SettleFor, Settle(n) PROVE TypeOK'
  BY <1>1, <1>2, <1>6, TypesAre DEF Settle, engineVars, playVars, sendVars, inputVars
<1>7. ASSUME NEW ms \in TickSizes, SetTick(ms) PROVE TypeOK'
  BY <1>1, <1>7, TypesAre DEF SetTick, engineVars, sendVars, inputVars
<1>8. ASSUME NEW s \in Scheduled, ScheduleAdd(s) PROVE TypeOK'
  <2>1. Unsaid(Len(seen) > Len(sends)) \in Send
    BY DEF Unsaid, Send
  <2>2. /\ sends' = Append(sends, s) /\ said' = Append(said, Unsaid(Len(seen) > Len(sends)))
        /\ UNCHANGED <<engineVars, cell, worldNow, playVars, loop, left, owed, seen, lastMs, inputVars,
                       began, run, shown>>
    BY <1>8 DEF ScheduleAdd
  <2>3. sends' \in Seq(Scheduled) /\ Len(sends') = Len(sends) + 1
    BY <1>1, <2>2
  <2>4. said' \in Seq(Send) /\ Len(said') = Len(said) + 1
    BY <1>1, <2>1, <2>2
  <2> QED
    BY <1>1, <2>2, <2>3, <2>4, TypesAre DEF engineVars, playVars, inputVars
<1>9. CASE ScheduleClear
  <2>1. /\ sends' = << >> /\ said' = << >>
        /\ UNCHANGED <<engineVars, cell, worldNow, playVars, loop, left, owed, seen, lastMs, inputVars,
                       began, run, shown>>
    BY <1>9 DEF ScheduleClear
  <2> QED
    BY <1>1, <2>1, TypesAre DEF engineVars, playVars, inputVars
<1>10. ASSUME NEW at \in HoldAt, Hold(at) PROVE TypeOK'
  <2> DEFINE call == [at |-> at, seq |-> Len(held) + Len(ran) + 1]
  <2>1. Len(held) \in Nat /\ Len(ran) \in Nat
    BY <1>1
  <2>2. call \in Call
    BY <1>2, <2>1 DEF Call
  <2>3. /\ held' = Added(held, call)
        /\ UNCHANGED <<engineVars, cell, worldNow, playVars, loop, left, owed, sendVars, ran, began, run,
                       shown>>
    BY <1>10 DEF Hold
  <2>4. held' \in Seq(Call)
    BY <1>1, <2>2, <2>3, Insertion
  <2> QED
    BY <1>1, <2>3, <2>4, TypesAre DEF engineVars, playVars, sendVars
<1>11. CASE Reset
  <2>1. playing' \in BOOLEAN
    BY <1>11, Zenon DEF Reset
  <2>2. /\ until' = 0 /\ worldNow' = 0
        /\ BuildSeeded /\ said' = [i \in 1 .. Len(sends) |-> Unsaid(FALSE)]
        /\ shown' = "own" /\ UNCHANGED <<cell, tickMs, loop, left, sends>>
    BY <1>11 DEF Reset, StartsOver
  <2>3. FreshlyBuilt(sends)
    BY <1>1, <1>3, <2>2
  <2>4. until' \in Nat /\ worldNow' \in Nat /\ shown' = "own" /\ UNCHANGED <<cell, tickMs, loop, left, sends>>
    BY <2>2
  <2> HIDE DEF Types
  <2>5. Types'
    BY <1>1, <2>1, <2>3, <2>4 DEF FreshlyBuilt, Types
  <2> QED
    BY <2>5, TypesAre
<1>12. CASE Seed
  <2>1. shown' = "own"
    BY <1>12 DEF Seed
  <2>2. /\ worldNow' = 0
        /\ BuildSeeded /\ said' = [i \in 1 .. Len(sends) |-> Unsaid(FALSE)]
        /\ UNCHANGED <<cell, playVars, loop, left, sends>>
    BY <1>12 DEF Seed, StartsOver
  <2>3. FreshlyBuilt(sends)
    BY <1>1, <1>3, <2>2
  <2>4. worldNow' \in Nat /\ UNCHANGED <<cell, playing, until, tickMs, loop, left, sends>>
    BY <2>2 DEF playVars
  <2> HIDE DEF Types
  <2>5. Types'
    BY <1>1, <2>1, <2>3, <2>4 DEF FreshlyBuilt, Types
  <2> QED
    BY <2>5, TypesAre
<1>13. CASE Detach
  BY <1>1, <1>13, TypesAre DEF Detach, playVars, sendVars, inputVars
<1>14. ASSUME NEW f \in Fixtures, Open(f) PROVE TypeOK'
  <2>1. playing' \in BOOLEAN
    BY <1>14, Zenon DEF Open
  <2>2. /\ until' = 0
        /\ BuildSeeded /\ sends' = f /\ said' = [i \in 1 .. Len(f) |-> Unsaid(FALSE)]
        /\ shown' = "earlier" /\ UNCHANGED <<cell, worldNow, tickMs, loop, left>>
    BY <1>14 DEF Open
  <2>3. f \in Seq(Scheduled)
    BY FixtureType
  <2>4. FreshlyBuilt(f)
    BY <1>3, <2>2, <2>3
  <2>5. until' \in Nat /\ sends' \in Seq(Scheduled) /\ Len(sends') = Len(f)
        /\ shown' = "earlier" /\ UNCHANGED <<cell, worldNow, tickMs, loop, left>>
    BY <2>2, <2>3
  <2> HIDE DEF Types
  <2>6. Types'
    BY <1>1, <2>1, <2>4, <2>5 DEF FreshlyBuilt, Types
  <2> QED
    BY <2>6, TypesAre
<1>15. ASSUME NEW f \in Fixtures, NEW target \in RunFor, Restore(f, target) PROVE TypeOK'
  <2>1. target \in Nat /\ (target > 0) \in BOOLEAN
    BY <1>2
  <2>2. playing' = (target > 0) /\ shown' = "own"
    BY <1>15 DEF Restore
  <2>3. playing' \in BOOLEAN /\ shown' = "own"
    BY <2>1, <2>2, Zenon
  <2>4. /\ until' = target /\ worldNow' = 0
        /\ BuildSeeded /\ sends' = f /\ said' = [i \in 1 .. Len(f) |-> Unsaid(FALSE)]
        /\ UNCHANGED <<cell, tickMs, loop, left>>
    BY <1>15 DEF Restore
  <2>5. f \in Seq(Scheduled)
    BY FixtureType
  <2>6. FreshlyBuilt(f)
    BY <1>3, <2>4, <2>5
  <2>7. until' \in Nat /\ worldNow' \in Nat /\ sends' \in Seq(Scheduled) /\ Len(sends') = Len(f)
        /\ UNCHANGED <<cell, tickMs, loop, left>>
    BY <2>1, <2>4, <2>5
  <2> HIDE DEF Types
  <2>8. Types'
    BY <1>1, <2>3, <2>6, <2>7 DEF FreshlyBuilt, Types
  <2> QED
    BY <2>8, TypesAre
<1> QED
  BY <1>4, <1>5, <1>6, <1>7, <1>8, <1>9, <1>10, <1>11, <1>12, <1>13, <1>14, <1>15 DEF Verbs

LEMMA TypeCell == ASSUME ClockAssumption, TypeOK, Cell PROVE TypeOK'
<1> USE DEF Types
<1>1. Types
  BY TypesAre
<1>2. StepMs \in Nat
  BY DEF ClockAssumption
<1>3. cell' \in Nat \cup {-1}
  BY <1>1, <1>2 DEF Cell, CellTakes, CellSteps, CellEnds
<1>4. UNCHANGED <<engineVars, worldNow, playVars, loop, left, owed, sendVars, inputVars, began, run, shown>>
  BY DEF Cell, CellTakes, CellSteps, CellEnds
<1> QED
  BY <1>1, <1>3, <1>4, TypesAre DEF engineVars, playVars, sendVars, inputVars

LEMMA TypeStutters == ASSUME TypeOK, UNCHANGED vars PROVE TypeOK'
  BY DEF TypeOK, vars, engineVars, playVars, sendVars, inputVars

(* The types hold in every state: a schedule's memory is as long as the     *)
(* list it is of, and what has been said is told of every send there is.    *)
THEOREM TypeCorrect ==
  ASSUME ClockAssumption
  PROVE  Spec => []TypeOK
<1>1. Init => TypeOK
  BY TypeInit
<1>2. TypeOK /\ [Next]_vars => TypeOK'
  BY TypeTicks, TypeVerbs, TypeCell, TypeStutters DEF Next
<1> QED
  BY <1>1, <1>2, PTL DEF Spec

-----------------------------------------------------------------------------
(* What a step can do to the schedule, to the calls held and to the clock.  *)
LEMMA StepIs ==
  ASSUME [Next]_vars
  PROVE  \/ StepEngine
         \/ /\ BuildSeeded
            /\ \E f \in Fixtures \cup {sends} : sends' = f /\ said' = [i \in 1 .. Len(f) |-> Unsaid(FALSE)]
         \/ \E s \in Scheduled : ScheduleAdd(s)
         \/ ScheduleClear
         \/ \E at \in HoldAt : Hold(at)
         \/ UNCHANGED <<now, sends, seen, lastMs, said, held, ran>>
<1> DEFINE Still == UNCHANGED <<now, sends, seen, lastMs, said, held, ran>>
           Fresh(f) == sends' = f /\ said' = [i \in 1 .. Len(f) |-> Unsaid(FALSE)]
<1> USE DEF engineVars, sendVars, inputVars
<1>1. ASSUME UNCHANGED vars PROVE Still
  BY <1>1 DEF vars
<1>2. ASSUME Ticks PROVE StepEngine \/ Still
  <2>1. ASSUME TickSteps PROVE StepEngine
    BY <2>1 DEF TickSteps
  <2>2. ASSUME SettleSteps PROVE StepEngine
    BY <2>2 DEF SettleSteps
  <2>3. ASSUME StoreTick PROVE Still
    BY <2>3 DEF StoreTick
  <2>4. ASSUME SimStep PROVE Still
    BY <2>4 DEF SimStep
  <2>5. ASSUME TickStopsAtEnd PROVE Still
    BY <2>5 DEF TickStopsAtEnd
  <2>6. ASSUME TickEnds PROVE Still
    BY <2>6 DEF TickEnds
  <2>7. ASSUME SettleEnds PROVE Still
    BY <2>7 DEF SettleEnds
  <2> HIDE DEF Still
  <2> QED
    BY <1>2, <2>1, <2>2, <2>3, <2>4, <2>5, <2>6, <2>7 DEF Ticks
<1>3. ASSUME Verbs
      PROVE  \/ BuildSeeded /\ \E f \in Fixtures \cup {sends} : Fresh(f)
             \/ \E s \in Scheduled : ScheduleAdd(s)
             \/ ScheduleClear
             \/ \E at \in HoldAt : Hold(at)
             \/ Still
  <2>1. ASSUME NEW on \in BOOLEAN, Play(on) PROVE Still
    BY <2>1 DEF Play
  <2>2. ASSUME NEW for \in RunFor, SimRun(for) PROVE Still
    BY <2>2 DEF SimRun
  <2>3. ASSUME NEW n \in SettleFor, Settle(n) PROVE Still
    BY <2>3 DEF Settle
  <2>4. ASSUME NEW ms \in TickSizes, SetTick(ms) PROVE Still
    BY <2>4 DEF SetTick
  <2>5. ASSUME Reset PROVE BuildSeeded /\ Fresh(sends)
    BY <2>5 DEF Reset, StartsOver
  <2>6. ASSUME Seed PROVE BuildSeeded /\ Fresh(sends)
    BY <2>6 DEF Seed, StartsOver
  <2>7. ASSUME Detach PROVE Still
    BY <2>7 DEF Detach
  <2>8. ASSUME NEW f \in Fixtures, Open(f) PROVE BuildSeeded /\ Fresh(f)
    BY <2>8 DEF Open
  <2>9. ASSUME NEW f \in Fixtures, NEW target \in RunFor, Restore(f, target)
        PROVE  BuildSeeded /\ Fresh(f)
    BY <2>9 DEF Restore
  <2> HIDE DEF Still, Fresh
  <2> QED
    BY <1>3, <2>1, <2>2, <2>3, <2>4, <2>5, <2>6, <2>7, <2>8, <2>9 DEF Verbs
<1>4. ASSUME Cell PROVE Still
  BY <1>4 DEF Cell, CellTakes, CellSteps, CellEnds
<1> HIDE DEF Still
<1>5. Ticks \/ Verbs \/ Cell \/ UNCHANGED vars
  BY DEF Next
<1> QED
  BY <1>1, <1>2, <1>3, <1>4, <1>5 DEF Still

-----------------------------------------------------------------------------
(* The schedule.                                                            *)

(* What is remembered is of all there is, once the list has been looked at; *)
(* and of nothing, when nothing has been.                                   *)
LEMMA KeepLookedAt ==
  ASSUME TypeOK', sends' # << >>, seen' = sends'
  PROVE  Keep' = Len(sends')
<1>1. sends' \in Seq(Scheduled)
  BY DEF TypeOK
<1>2. \A t \in Seq(Scheduled) : IsPrefix(t, t)
  <2> TAKE t \in Seq(Scheduled)
  <2>1. Len(t) \in Nat
    OBVIOUS
  <2> QED
    BY <2>1, PrefixIs
<1> QED
  BY <1>1, <1>2 DEF Keep, IsPrefix

LEMMA KeepNone == seen' = << >> => Keep' = 0
  BY DEF Keep

(* A send put on the end of the list leaves what is kept as it was - unless *)
(* the list remembered is longer than the one it was put on the end of.     *)
LEMMA KeepAppended ==
  ASSUME TypeOK, NEW s \in Scheduled, sends' = Append(sends, s), seen' = seen
  PROVE  /\ \A i \in 1 .. Len(sends) : i <= Keep => i <= Keep'
         /\ Len(seen) <= Len(sends) => Keep' = Keep
         /\ Keep <= Len(sends)
<1>1. /\ sends \in Seq(Scheduled) /\ seen \in Seq(Scheduled)
      /\ Len(sends) \in Nat /\ Len(seen) \in Nat
  BY DEF TypeOK
<1>2. /\ sends' \in Seq(Scheduled) /\ Len(sends') = Len(sends) + 1
      /\ \A i \in 1 .. Len(sends) : sends'[i] = sends[i]
  BY <1>1
<1>3. Keep <= Len(sends)
  BY RememberedType
<1>4. ASSUME Len(seen) <= Len(sends) PROVE Keep' = Keep
  <2>1. \A i \in 1 .. Len(seen) : i \in 1 .. Len(sends)
    BY <1>1, <1>4
  <2>2. Len(seen) <= Len(sends')
    BY <1>1, <1>2, <1>4
  <2>3. IsPrefix(seen, sends) <=> \A i \in 1 .. Len(seen) : seen[i] = sends[i]
    BY <1>1, <1>4, PrefixIs
  <2>4. IsPrefix(seen, sends') <=> \A i \in 1 .. Len(seen) : seen[i] = sends'[i]
    <3>1. \A t \in Seq(Scheduled) :
            IsPrefix(seen, t) <=> Len(seen) <= Len(t) /\ \A i \in 1 .. Len(seen) : seen[i] = t[i]
      BY <1>1, PrefixIs
    <3> QED
      BY <1>2, <2>2, <3>1
  <2>5. (\A i \in 1 .. Len(seen) : seen[i] = sends[i])
          <=> \A i \in 1 .. Len(seen) : seen[i] = sends'[i]
    BY <1>2, <2>1
  <2>6. IsPrefix(seen, sends) <=> IsPrefix(seen, sends')
    BY <2>3, <2>4, <2>5
  <2> QED
    BY <2>6 DEF Keep, IsPrefix
<1>5. ASSUME ~(Len(seen) <= Len(sends)) PROVE Keep = 0
  BY <1>5 DEF Keep, IsPrefix
<1>6. ASSUME NEW i \in 1 .. Len(sends), i <= Keep PROVE i <= Keep'
  <2>1. Len(seen) <= Len(sends)
    BY <1>1, <1>5, <1>6
  <2> QED
    BY <1>4, <1>6, <2>1
<1> QED
  BY <1>3, <1>4, <1>6

(* What has been said of a send is said of it as it is remembered: a send   *)
(* at an instant that has been said is remembered, and once; one remembered *)
(* has been said, or stands where one that was cleared did.                 *)
SaidOne ==
  \A i \in 1 .. Len(sends) :
    sends[i].every = 0 /\ said[i].times > 0 =>
      /\ said[i].times = 1 /\ now >= sends[i].at
      /\ i <= Keep /\ lastMs[i] >= 0

SaidKept ==
  \A i \in 1 .. Len(sends) : i <= Keep /\ lastMs[i] >= 0 => said[i].times > 0 \/ said[i].again

SaidShort == Len(seen) > Len(sends) => \A i \in 1 .. Len(sends) : said[i].again

SaidInv == SaidOne /\ SaidKept /\ SaidShort /\ SaidWhenDue

LEMMA SaidInit == Init => SaidInv
  BY DEF Init, SaidInv, SaidOne, SaidKept, SaidShort, SaidWhenDue

LEMMA SaidSteps ==
  ASSUME ClockAssumption, TypeOK, TypeOK', SaidInv, StepEngine
  PROVE  SaidInv'
<1>1. /\ now' = now + StepMs /\ now \in Nat /\ StepMs \in Nat /\ now' \in Nat
  BY StepTypes DEF TypeOK, ClockAssumption
<1>2. FireDueSends(now')
  BY DEF StepEngine
<1>3. CASE sends = << >>
  <2>1. sends' = << >> /\ UNCHANGED <<seen, said>>
    BY <1>2, <1>3 DEF FireDueSends, sendVars
  <2> QED
    BY <1>3, <2>1 DEF SaidInv, SaidOne, SaidKept, SaidShort, SaidWhenDue
<1>4. CASE sends # << >>
  <2> DEFINE due(i) == Due(sends[i], Remembered[i], now')
  <2>1. sends' = sends /\ seen' = sends
    BY <1>1, <1>2, <1>4, SendsFired
  <2>2. \A i \in 1 .. Len(sends) :
          /\ lastMs'[i] = IF due(i) THEN now' ELSE Remembered[i]
          /\ said'[i].times = IF due(i) THEN said[i].times + 1 ELSE said[i].times
          /\ said'[i].again = said[i].again
    BY <1>1, <1>2, SendsFired
  <2>3. Keep' = Len(sends)
    BY <1>4, <2>1, KeepLookedAt
  <2>4. Len(sends) \in Nat
    BY DEF TypeOK
  <2>5. \A i \in 1 .. Len(sends) : i <= Keep'
    BY <2>3, <2>4
  <2> SUFFICES ASSUME NEW i \in 1 .. Len(sends)
               PROVE  /\ sends[i].every = 0 /\ said'[i].times > 0 =>
                           said'[i].times = 1 /\ now' >= sends[i].at /\ lastMs'[i] >= 0
                      /\ lastMs'[i] >= 0 => said'[i].times > 0 \/ said'[i].again
                      /\ ~said'[i].again /\ now' >= sends[i].at => said'[i].times > 0
    <3>1. ~(Len(seen') > Len(sends'))
      BY <2>1, <2>4
    <3> QED
      BY <2>1, <2>5, <3>1 DEF SaidInv, SaidOne, SaidKept, SaidShort, SaidWhenDue
  <2> DEFINE s == sends[i]
             was == said[i].times
             last == Remembered[i]
  <2>6. was \in Nat
    BY Lengths DEF Send
  <2>7. /\ last = IF i <= Keep THEN lastMs[i] ELSE -1
        /\ last \in Nat \cup {-1}
    BY RememberedType
  <2>8. s.at \in Nat /\ s.every \in Nat
    <3>1. s \in Scheduled
      BY Lengths
    <3> QED
      BY <3>1 DEF ClockAssumption
  <2>9. due(i) <=> now' >= s.at /\ (last < 0 \/ (s.every > 0 /\ now' - last >= s.every))
    BY DEF Due
  <2>10. /\ lastMs'[i] = IF due(i) THEN now' ELSE last
         /\ said'[i].times = IF due(i) THEN was + 1 ELSE was
         /\ said'[i].again = said[i].again
    BY <2>2
  <2>11. s.every = 0 /\ was > 0 => was = 1 /\ now >= s.at /\ last >= 0
    BY <2>7 DEF SaidInv, SaidOne
  <2>12. last >= 0 => was > 0 \/ said[i].again
    BY <2>7 DEF SaidInv, SaidKept
  <2> HIDE DEF due, s, was, last
  <2>13. s.every = 0 /\ said'[i].times > 0 =>
           said'[i].times = 1 /\ now' >= s.at /\ lastMs'[i] >= 0
    BY <1>1, <2>6, <2>7, <2>8, <2>9, <2>10, <2>11
  <2>14. lastMs'[i] >= 0 => said'[i].times > 0 \/ said'[i].again
    <3>1. due(i) => said'[i].times > 0
      BY <2>6, <2>10
    <3>2. ~due(i) => lastMs'[i] = last /\ said'[i].times = was
      BY <2>10
    <3> QED
      BY <2>10, <2>12, <3>1, <3>2
  <2>15. ~said'[i].again /\ now' >= s.at => said'[i].times > 0
    <3>1. due(i) => said'[i].times > 0
      BY <2>6, <2>10
    <3>2. ~due(i) /\ now' >= s.at => last >= 0
      BY <2>7, <2>9
    <3>3. ~due(i) => said'[i].times = was
      BY <2>10
    <3> QED
      BY <2>10, <2>12, <3>1, <3>2, <3>3
  <2> QED
    BY <2>13, <2>14, <2>15 DEF s
<1> QED
  BY <1>3, <1>4

LEMMA SaidAdds ==
  ASSUME ClockAssumption, TypeOK, SaidInv, NEW s \in Scheduled, ScheduleAdd(s)
  PROVE  SaidInv'
<1>1. /\ sends \in Seq(Scheduled) /\ said \in Seq(Send) /\ Len(said) = Len(sends)
      /\ Len(sends) \in Nat /\ Len(seen) \in Nat
  BY DEF TypeOK, Send
<1> DEFINE new == Unsaid(Len(seen) > Len(sends))
           n == Len(sends)
<1>2. sends' = Append(sends, s) /\ said' = Append(said, new) /\ UNCHANGED <<now, seen, lastMs>>
  BY DEF ScheduleAdd, engineVars
<1>3. new.times = 0 /\ new.stepped = FALSE /\ (new.again <=> Len(seen) > n)
  BY DEF Unsaid
<1>4. new \in Send
  BY DEF Unsaid, Send
<1> HIDE DEF new
<1>5. /\ Len(sends') = n + 1 /\ sends'[n + 1] = s /\ said'[n + 1] = new
      /\ \A i \in 1 .. n : sends'[i] = sends[i]
  BY <1>1, <1>2, <1>4
<1>6. \A i \in 1 .. n : said'[i] = said[i]
  BY <1>1, <1>2, <1>4
<1>7. /\ \A i \in 1 .. n : i <= Keep => i <= Keep'
      /\ Len(seen) <= n => Keep' = Keep
      /\ Keep <= n
  BY <1>2, KeepAppended
<1>8. \A i \in 1 .. n + 1 : i = n + 1 \/ i \in 1 .. n
  BY <1>1
<1>9. SaidOne'
  <2> SUFFICES ASSUME NEW i \in 1 .. n + 1, sends'[i].every = 0, said'[i].times > 0
               PROVE  /\ said'[i].times = 1 /\ now' >= sends'[i].at
                      /\ i <= Keep' /\ lastMs'[i] >= 0
    BY <1>5 DEF SaidOne
  <2>1. i # n + 1
    BY <1>3, <1>5
  <2>2. i \in 1 .. n
    BY <1>8, <2>1
  <2>3. /\ said[i].times = 1 /\ now >= sends[i].at /\ i <= Keep /\ lastMs[i] >= 0
    BY <1>5, <1>6, <2>2 DEF SaidInv, SaidOne
  <2> QED
    BY <1>2, <1>5, <1>6, <1>7, <2>2, <2>3
<1>10. SaidKept'
  <2> SUFFICES ASSUME NEW i \in 1 .. n + 1, i <= Keep', lastMs'[i] >= 0
               PROVE  said'[i].times > 0 \/ said'[i].again
    BY <1>5 DEF SaidKept
  <2>1. CASE Len(seen) > n
    <3>1. \A j \in 1 .. n : said[j].again
      BY <2>1 DEF SaidInv, SaidShort
    <3> QED
      BY <1>3, <1>5, <1>6, <1>8, <2>1, <3>1
  <2>2. CASE ~(Len(seen) > n)
    <3>1. Len(seen) <= n
      BY <1>1, <2>2
    <3>2. Keep' = Keep
      BY <1>7, <3>1
    <3>3. Keep \in Nat
      BY RememberedType, Lengths
    <3>4. i \in 1 .. n
      BY <1>1, <1>7, <3>2, <3>3
    <3>5. said[i].times > 0 \/ said[i].again
      BY <1>2, <3>2, <3>4 DEF SaidInv, SaidKept
    <3> QED
      BY <1>6, <3>4, <3>5
  <2> QED
    BY <2>1, <2>2
<1>11. SaidShort'
  <2> SUFFICES ASSUME Len(seen) > n + 1, NEW i \in 1 .. n + 1
               PROVE  said'[i].again
    BY <1>2, <1>5 DEF SaidShort
  <2>1. Len(seen) > n
    BY <1>1
  <2>2. \A j \in 1 .. n : said[j].again
    BY <2>1 DEF SaidInv, SaidShort
  <2> QED
    BY <1>3, <1>5, <1>6, <1>8, <2>1, <2>2
<1>12. SaidWhenDue'
  <2> SUFFICES ASSUME NEW i \in 1 .. n + 1,
                      said'[i].stepped, ~said'[i].again, now' >= sends'[i].at
               PROVE  said'[i].times > 0
    BY <1>5 DEF SaidWhenDue
  <2>1. i # n + 1
    BY <1>3, <1>5
  <2>2. i \in 1 .. n
    BY <1>8, <2>1
  <2> QED
    BY <1>2, <1>5, <1>6, <2>2 DEF SaidInv, SaidWhenDue
<1> QED
  BY <1>9, <1>10, <1>11, <1>12 DEF SaidInv

LEMMA SaidStarts ==
  ASSUME BuildSeeded, NEW f \in Fixtures \cup {sends}, TypeOK,
         sends' = f, said' = [i \in 1 .. Len(f) |-> Unsaid(FALSE)]
  PROVE  SaidInv'
<1>1. f \in Seq(Scheduled) /\ Len(f) \in Nat
  <2>1. sends \in Seq(Scheduled)
    BY DEF TypeOK
  <2>2. f \in Seq(Scheduled)
    BY <2>1, FixtureType
  <2> QED
    BY <2>2
<1>2. ~(Unsaid(FALSE).times > 0) /\ ~Unsaid(FALSE).stepped
  BY DEF Unsaid
<1>3. seen' = << >> /\ Keep' = 0
  BY KeepNone DEF BuildSeeded
<1>4. ~(Len(seen') > Len(f)) /\ \A i \in 1 .. Len(f) : ~(i <= Keep')
  BY <1>1, <1>3
<1>5. \A i \in 1 .. Len(f) : ~(said'[i].times > 0) /\ ~said'[i].stepped
  <2>1. \A i \in 1 .. Len(f) : said'[i] = Unsaid(FALSE)
    OBVIOUS
  <2> QED
    BY <1>2, <2>1, Zenon
<1>6. sends' = f
  OBVIOUS
<1>7. SaidOne' /\ SaidWhenDue'
  <2>1. SaidOne'
    BY <1>6, <1>5, Zenon DEF SaidOne
  <2>2. SaidWhenDue'
    BY <1>6, <1>5, Zenon DEF SaidWhenDue
  <2> QED
    BY <2>1, <2>2
<1>8. SaidKept' /\ SaidShort'
  BY <1>4 DEF SaidKept, SaidShort
<1> QED
  BY <1>7, <1>8 DEF SaidInv

LEMMA SaidClears == ScheduleClear => SaidInv'
  BY DEF ScheduleClear, SaidInv, SaidOne, SaidKept, SaidShort, SaidWhenDue

LEMMA SaidStays ==
  ASSUME SaidInv, UNCHANGED <<now, sends, seen, lastMs, said>>
  PROVE  SaidInv'
<1>1. Keep' = Keep
  BY DEF Keep, IsPrefix
<1> QED
  BY <1>1 DEF SaidInv, SaidOne, SaidKept, SaidShort, SaidWhenDue

LEMMA SaidAlways ==
  ASSUME ClockAssumption
  PROVE  Spec => []SaidInv
<1>1. ASSUME TypeOK, TypeOK', SaidInv, [Next]_vars PROVE SaidInv'
  <2>1. ASSUME NEW at \in HoldAt, Hold(at) PROVE SaidInv'
    <3>1. UNCHANGED <<now, sends, seen, lastMs, said>>
      BY <2>1 DEF Hold, engineVars, sendVars
    <3> QED
      BY <1>1, <3>1, SaidStays
  <2>2. ASSUME UNCHANGED <<now, sends, seen, lastMs, said, held, ran>> PROVE SaidInv'
    BY <1>1, <2>2, SaidStays
  <2> QED
    BY <1>1, <2>1, <2>2, StepIs, SaidSteps, SaidAdds, SaidStarts, SaidClears
<1>2. Init => SaidInv
  BY SaidInit
<1> QED
  BY <1>1, <1>2, TypeCorrect, PTL DEF Spec

(* A send at an instant is said once in a run and never early, whatever is  *)
(* added to the schedule or cleared from it meanwhile (sendClock).          *)
THEOREM SendsAreSaidOnce ==
  ASSUME ClockAssumption
  PROVE  Spec => []SaidOnce
<1>1. TypeOK /\ SaidInv => SaidOnce
  <2> SUFFICES ASSUME TypeOK, SaidInv, NEW i \in 1 .. Len(sends), sends[i].every = 0
               PROVE  said[i].times <= (IF now >= sends[i].at THEN 1 ELSE 0)
    BY DEF SaidOnce
  <2>1. said[i].times \in Nat
    BY Lengths DEF Send
  <2>2. said[i].times > 0 => said[i].times = 1 /\ now >= sends[i].at
    BY DEF SaidInv, SaidOne
  <2> QED
    BY <2>1, <2>2
<1> QED
  BY <1>1, TypeCorrect, SaidAlways, PTL

(* And it is said, by the first step that reaches or finds its instant.     *)
THEOREM SendsAreSaidWhenDue ==
  ASSUME ClockAssumption
  PROVE  Spec => []SaidWhenDue
<1>1. SaidInv => SaidWhenDue
  BY DEF SaidInv
<1> QED
  BY <1>1, SaidAlways, PTL

-----------------------------------------------------------------------------
(* Calls held with at_ms.                                                   *)

(* They are kept in the order they are due and then made, all for later     *)
(* than now; the last one made has the highest number.                      *)
Queue ==
  /\ \A i, j \in 1 .. Len(held) : i < j => Sooner(held[i], held[j])
  /\ \A i \in 1 .. Len(held) : held[i].at > now /\ held[i].seq <= Len(held) + Len(ran)

(* Those that have run did so in the step that reached them, in that order. *)
Served ==
  /\ \A i \in 1 .. Len(ran) :
       /\ ran[i].when >= ran[i].call.at
       /\ ran[i].when < ran[i].call.at + StepMs
       /\ ran[i].when <= now
  /\ \A i, j \in 1 .. Len(ran) :
       i < j => ran[i].call.at <= ran[j].call.at /\ ran[i].call # ran[j].call

HeldInv == Queue /\ Served

(* A set of the first places of a queue, with no place left out before one  *)
(* that is in, is as many of the first as it has members.                   *)
LEMMA FirstOnes ==
  ASSUME NEW L \in Nat, NEW S, S \subseteq 1 .. L,
         \A i, j \in 1 .. L : i < j /\ j \in S => i \in S
  PROVE  /\ Cardinality(S) \in 0 .. L
         /\ \A i \in 1 .. L : i \in S <=> i <= Cardinality(S)
<1> DEFINE T == {n \in Nat : n + 1 \notin S}
<1>1. L \in T
  OBVIOUS
<1>2. PICK n \in T : \A k \in T : n <= k
  <2>1. T \subseteq Nat
    OBVIOUS
  <2> HIDE DEF T
  <2> QED
    BY <1>1, <2>1, LeastOf
<1>3. n \in Nat /\ n + 1 \notin S /\ n <= L
  BY <1>1, <1>2
<1>4. ASSUME NEW i \in 1 .. n PROVE i \in S
  <2>1. i - 1 \in Nat /\ ~(n <= i - 1) /\ (i - 1) + 1 = i
    BY <1>3
  <2>2. i - 1 \notin T
    BY <1>2, <2>1
  <2> QED
    BY <2>1, <2>2
<1>5. ASSUME NEW i \in 1 .. L, i \in S PROVE i <= n
  <2> SUFFICES ASSUME ~(i <= n) PROVE FALSE
    OBVIOUS
  <2>1. i # n + 1
    BY <1>3, <1>5
  <2>2. n + 1 \in 1 .. L /\ n + 1 < i
    BY <1>3, <2>1
  <2> QED
    BY <1>3, <1>5, <2>2
<1>6. S = 1 .. n
  <2>1. \A i \in 1 .. n : i \in 1 .. L
    BY <1>3
  <2>2. \A i \in S : i \in 1 .. n
    BY <1>3, <1>5
  <2> HIDE DEF T
  <2> QED
    BY <1>4, <2>1, <2>2
<1>7. Cardinality(S) = n
  <2>1. 1 \in Int /\ n \in Int
    BY <1>3
  <2>2. Cardinality(1 .. n) = IF 1 > n THEN 0 ELSE n - 1 + 1
    BY <2>1, FS_Interval
  <2> QED
    BY <1>3, <1>6, <2>2
<1> QED
  BY <1>3, <1>4, <1>5, <1>7

LEMMA SoonerIs ==
  ASSUME NEW a \in Call, NEW b \in Call
  PROVE  /\ Sooner(a, b) => a.at <= b.at /\ a # b
         /\ a.seq < b.seq => Sooner(a, b) \/ Sooner(b, a)
         /\ \A c \in Call : Sooner(a, b) /\ Sooner(b, c) => Sooner(a, c)
<1>1. \A x \in Call : x.at \in Nat /\ x.seq \in Nat
  BY DEF Call
<1>2. Sooner(a, b) => a.at <= b.at /\ a # b
  BY <1>1 DEF Sooner
<1>3. a.seq < b.seq => Sooner(a, b) \/ Sooner(b, a)
  BY <1>1 DEF Sooner
<1>4. ASSUME NEW c \in Call PROVE Sooner(a, b) /\ Sooner(b, c) => Sooner(a, c)
  BY <1>1 DEF Sooner
<1> QED
  BY <1>2, <1>3, <1>4

LEMMA HeldInit == Init => HeldInv
  BY DEF Init, HeldInv, Queue, Served

LEMMA HeldSteps ==
  ASSUME ClockAssumption, TypeOK, HeldInv, StepEngine
  PROVE  HeldInv'
<1>1. /\ now' = now + StepMs /\ now \in Nat /\ StepMs \in Nat /\ now' \in Nat
  BY StepTypes DEF TypeOK, ClockAssumption
<1>2. FireDueInputs(now')
  BY DEF StepEngine
<1>3. PICK n \in 0 .. Len(held) :
        /\ \A i \in 1 .. n : held[i].at <= now'
        /\ n < Len(held) => held[n + 1].at > now'
        /\ held' \in Seq(Call) /\ Len(held') = Len(held) - n
        /\ \A i \in 1 .. Len(held) - n : held'[i] = held[i + n]
        /\ ran' \in Seq(Ran) /\ Len(ran') = Len(ran) + n
        /\ \A i \in 1 .. Len(ran) : ran'[i] = ran[i]
        /\ \A i \in 1 .. n : ran'[i + Len(ran)] = [call |-> held[i], when |-> now']
  BY <1>1, <1>2, InputsFired
<1> DEFINE L == Len(held)
           R == Len(ran)
<1>4. /\ L \in Nat /\ R \in Nat /\ n \in Nat /\ n <= L
      /\ \A i \in 1 .. L : held[i] \in Call
      /\ \A i \in 1 .. R : ran[i] \in Ran
  BY Lengths
<1>5. /\ \A i \in 1 .. L : held[i].at \in Nat /\ held[i].seq \in Nat
      /\ \A i \in 1 .. R : ran[i].call \in Call /\ ran[i].when \in Nat /\ ran[i].call.at \in Nat
  BY <1>4 DEF Call, Ran
<1>6. /\ \A i, j \in 1 .. L : i < j => Sooner(held[i], held[j])
      /\ \A i \in 1 .. L : held[i].at > now /\ held[i].seq <= L + R
  BY DEF HeldInv, Queue
<1>7. Queue'
  <2> DEFINE M == L - n
  <2>1. /\ Len(held') = M /\ M \in Nat /\ M + Len(ran') = L + R
        /\ \A i \in 1 .. M : held'[i] = held[i + n] /\ i + n \in 1 .. L
    BY <1>3, <1>4
  <2>2. ASSUME NEW i \in 1 .. M, NEW j \in 1 .. M, i < j
        PROVE  Sooner(held'[i], held'[j])
    <3>1. i + n \in 1 .. L /\ j + n \in 1 .. L /\ i + n < j + n
      BY <1>4, <2>1, <2>2
    <3> QED
      BY <1>6, <2>1, <3>1
  <2>3. ASSUME NEW i \in 1 .. M
        PROVE  held'[i].at > now' /\ held'[i].seq <= L + R
    <3>1. i + n \in 1 .. L /\ n + 1 \in 1 .. L /\ n < L /\ (i + n = n + 1 \/ n + 1 < i + n)
      BY <1>4
    <3>2. held[n + 1].at > now'
      BY <1>3, <3>1
    <3>3. n + 1 < i + n => held[n + 1].at <= held[i + n].at
      BY <1>4, <1>6, <3>1, SoonerIs
    <3>4. held[i + n].at > now'
      BY <1>1, <1>5, <3>1, <3>2, <3>3
    <3> QED
      BY <1>6, <2>1, <3>1, <3>4
  <2> HIDE DEF M
  <2> QED
    BY <2>1, <2>2, <2>3 DEF Queue
<1>8. Served'
  <2>1. Len(ran') = R + n /\ \A i \in 1 .. R + n : i \in 1 .. R \/ (i - R \in 1 .. n /\ (i - R) + R = i)
    BY <1>3, <1>4
  <2>2. \A i \in 1 .. n : i \in 1 .. L /\ ran'[i + R].call = held[i] /\ ran'[i + R].when = now'
    <3> SUFFICES ASSUME NEW i \in 1 .. n
                 PROVE  i \in 1 .. L /\ ran'[i + R].call = held[i] /\ ran'[i + R].when = now'
      OBVIOUS
    <3>1. ran'[i + R] = [call |-> held[i], when |-> now']
      BY <1>3
    <3>2. i \in 1 .. L
      BY <1>4
    <3> QED
      BY <3>1, <3>2
  <2>3. \A i \in 1 .. R : /\ ran[i].when >= ran[i].call.at
                          /\ ran[i].when < ran[i].call.at + StepMs
                          /\ ran[i].when <= now
    BY DEF HeldInv, Served
  <2>4. ASSUME NEW i \in 1 .. R + n
        PROVE  /\ ran'[i].when >= ran'[i].call.at
               /\ ran'[i].when < ran'[i].call.at + StepMs
               /\ ran'[i].when <= now'
    <3>1. CASE i \in 1 .. R
      <4>1. ran'[i] = ran[i]
        BY <1>3, <3>1
      <4>2. ran[i].when \in Nat /\ ran[i].when <= now
        BY <1>5, <2>3, <3>1
      <4>3. ran[i].when <= now'
        BY <1>1, <4>2
      <4> QED
        BY <2>3, <3>1, <4>1, <4>3
    <3>2. CASE i - R \in 1 .. n /\ (i - R) + R = i
      <4> DEFINE k == i - R
      <4>1. k \in 1 .. n /\ k \in 1 .. L /\ ran'[i].call = held[k] /\ ran'[i].when = now'
        BY <2>2, <3>2
      <4> HIDE DEF k
      <4>2. held[k].at <= now' /\ held[k].at > now /\ held[k].at \in Nat
        BY <1>3, <1>5, <1>6, <4>1
      <4> QED
        BY <1>1, <4>1, <4>2
    <3> QED
      BY <2>1, <3>1, <3>2
  <2>5. ASSUME NEW i \in 1 .. R PROVE ran[i].call.at <= now
    <3>1. ran[i].call.at \in Nat /\ ran[i].when \in Nat
      BY <1>5
    <3>2. ran[i].when >= ran[i].call.at /\ ran[i].when <= now
      BY <2>3
    <3> QED
      BY <1>1, <3>1, <3>2
  <2>6. ASSUME NEW i \in 1 .. R + n, NEW j \in 1 .. R + n, i < j
        PROVE  ran'[i].call.at <= ran'[j].call.at /\ ran'[i].call # ran'[j].call
    <3>1. CASE j \in 1 .. R
      <4>1. i \in 1 .. R
        BY <1>4, <2>6, <3>1
      <4>2. ran'[i].call.at <= ran'[j].call.at /\ ran'[i].call # ran'[j].call
        <5>1. ran'[i] = ran[i] /\ ran'[j] = ran[j]
          BY <1>3, <3>1, <4>1
        <5>2. ran[i].call.at <= ran[j].call.at /\ ran[i].call # ran[j].call
          BY <2>6, <3>1, <4>1 DEF HeldInv, Served
        <5> QED
          BY <5>1, <5>2
      <4> QED
        BY <4>2
    <3>2. CASE j - R \in 1 .. n /\ (j - R) + R = j
      <4> DEFINE m == j - R
      <4>1. m \in 1 .. n /\ m \in 1 .. L /\ ran'[j].call = held[m]
        BY <2>2, <3>2
      <4>2. CASE i \in 1 .. R
        <5>1. ran'[i] = ran[i]
          BY <1>3, <4>2
        <5> HIDE DEF m
        <5>2. ran'[i].call = ran[i].call /\ ran[i].call.at <= now
          BY <2>5, <4>2, <5>1
        <5> DEFINE then == ran[i].call
        <5>3. held[m].at > now /\ held[m].at \in Nat
          <6>1. m \in 1 .. L
            BY <4>1
          <6> QED
            BY <1>5, <1>6, <6>1
        <5>4. then.at \in Nat
          BY <1>5, <4>2
        <5>5. then.at <= now
          BY <5>2
        <5> HIDE DEF then
        <5>6. then.at < held[m].at
          BY <1>1, <5>3, <5>4, <5>5
        <5>7. then.at <= held[m].at /\ then # held[m]
          BY <5>3, <5>4, <5>6
        <5> QED
          BY <4>1, <5>2, <5>7 DEF then
      <4>3. CASE i - R \in 1 .. n /\ (i - R) + R = i
        <5> DEFINE k == i - R
        <5>1. k \in 1 .. n /\ k \in 1 .. L /\ ran'[i].call = held[k] /\ k < m
          BY <1>4, <2>2, <2>6, <3>2, <4>3
        <5> HIDE DEF k, m
        <5>2. Sooner(held[k], held[m])
          BY <1>6, <4>1, <5>1
        <5> QED
          BY <1>4, <4>1, <5>1, <5>2, SoonerIs
      <4> QED
        BY <2>1, <4>2, <4>3
    <3> QED
      BY <2>1, <3>1, <3>2
  <2> QED
    BY <2>1, <2>4, <2>6 DEF Served
<1> QED
  BY <1>7, <1>8 DEF HeldInv

(* A call is put behind those that are sooner and before those that are     *)
(* not, because its number is higher than any that is held.                 *)
LEMMA HeldAdds ==
  ASSUME ClockAssumption, TypeOK, HeldInv, NEW at \in HoldAt, Hold(at)
  PROVE  HeldInv'
<1> DEFINE L == Len(held)
           R == Len(ran)
           call == [at |-> at, seq |-> L + R + 1]
           S == {i \in 1 .. L : Sooner(held[i], call)}
           n == Cardinality(S)
<1>1. /\ L \in Nat /\ R \in Nat /\ now \in Nat
      /\ \A i \in 1 .. L : held[i] \in Call
  BY Lengths DEF TypeOK
<1>2. held' = Added(held, call) /\ at > now /\ UNCHANGED <<now, ran>>
  BY DEF Hold, engineVars
<1>3. call \in Call /\ call.at = at /\ call.seq = L + R + 1
  BY <1>1 DEF Call, ClockAssumption
<1> HIDE DEF call
<1>4. /\ n \in 0 .. L /\ Len(held') = L + 1
      /\ \A i \in 1 .. L + 1 :
           held'[i] = IF i <= n THEN held[i] ELSE IF i = n + 1 THEN call ELSE held[i - 1]
  <2>1. held \in Seq(Call)
    BY DEF TypeOK, Call
  <2> QED
    BY <1>2, <1>3, <2>1, Insertion
<1>5. \A i \in 1 .. L : held[i].at > now /\ held[i].seq <= L + R /\ held[i].seq \in Nat
  BY <1>1 DEF HeldInv, Queue, Call
<1>6. \A i, j \in 1 .. L : i < j => Sooner(held[i], held[j])
  BY DEF HeldInv, Queue
<1>7. \A i \in 1 .. L : i \in S <=> i <= n
  <2>1. \A i, j \in 1 .. L : i < j /\ j \in S => i \in S
    BY <1>1, <1>3, <1>6, SoonerIs
  <2>2. S \subseteq 1 .. L
    OBVIOUS
  <2> HIDE DEF S
  <2> QED
    BY <1>1, <2>1, <2>2, FirstOnes
<1>8. \A i \in 1 .. L : IF i <= n THEN Sooner(held[i], call) ELSE Sooner(call, held[i])
  <2> SUFFICES ASSUME NEW i \in 1 .. L
               PROVE  IF i <= n THEN Sooner(held[i], call) ELSE Sooner(call, held[i])
    OBVIOUS
  <2>1. i <= n <=> Sooner(held[i], call)
    BY <1>7
  <2>2. held[i].seq < call.seq
    BY <1>1, <1>3, <1>5
  <2>3. Sooner(held[i], call) \/ Sooner(call, held[i])
    BY <1>1, <1>3, <2>2, SoonerIs
  <2> QED
    BY <2>1, <2>3
<1> HIDE DEF n
<1>9. ASSUME NEW i \in 1 .. L + 1
      PROVE  \/ i <= n /\ i \in 1 .. L /\ held'[i] = held[i]
             \/ i = n + 1 /\ held'[i] = call
             \/ i > n + 1 /\ i - 1 \in 1 .. L /\ ~(i - 1 <= n) /\ held'[i] = held[i - 1]
  BY <1>1, <1>4
<1>10. ASSUME NEW i \in 1 .. L + 1, NEW j \in 1 .. L + 1, i < j
       PROVE  Sooner(held'[i], held'[j])
  <2>1. CASE j <= n
    <3>1. i <= n /\ i \in 1 .. L /\ j \in 1 .. L
      BY <1>1, <1>4, <1>10, <2>1
    <3> QED
      BY <1>4, <1>6, <1>10, <2>1, <3>1
  <2>2. CASE j = n + 1
    <3>1. i <= n /\ i \in 1 .. L
      BY <1>1, <1>4, <1>10, <2>2
    <3>2. held'[i] = held[i] /\ held'[j] = call
      BY <1>1, <1>4, <2>2, <3>1
    <3> QED
      BY <1>8, <3>1, <3>2
  <2>3. CASE j > n + 1
    <3>1. j - 1 \in 1 .. L /\ ~(j - 1 <= n) /\ held'[j] = held[j - 1]
      BY <1>1, <1>4, <1>9, <2>3
    <3>2. CASE i <= n
      <4>1. i \in 1 .. L /\ i < j - 1 /\ held'[i] = held[i]
        BY <1>1, <1>4, <2>3, <3>2
      <4> QED
        BY <1>6, <3>1, <4>1
    <3>3. CASE i = n + 1
      <4>1. held'[i] = call
        BY <1>1, <1>4, <3>3
      <4> QED
        BY <1>8, <3>1, <4>1
    <3>4. CASE i > n + 1
      <4>1. i - 1 \in 1 .. L /\ held'[i] = held[i - 1] /\ i - 1 < j - 1
        BY <1>1, <1>4, <1>9, <1>10, <3>4
      <4> QED
        BY <1>6, <3>1, <4>1
    <3> QED
      BY <1>1, <1>4, <3>2, <3>3, <3>4
  <2> QED
    BY <1>1, <1>4, <2>1, <2>2, <2>3
<1>11. ASSUME NEW i \in 1 .. L + 1
       PROVE  held'[i].at > now /\ held'[i].seq <= L + 1 + R
  <2>1. \A k \in 1 .. L : held[k].at > now /\ held[k].seq <= L + 1 + R
    BY <1>1, <1>5
  <2>2. call.at > now /\ call.seq <= L + 1 + R
    BY <1>1, <1>2, <1>3
  <2> QED
    BY <1>9, <2>1, <2>2
<1>12. Queue'
  BY <1>2, <1>4, <1>10, <1>11 DEF Queue
<1>13. Served'
  BY <1>2 DEF HeldInv, Served
<1> QED
  BY <1>12, <1>13 DEF HeldInv

LEMMA HeldAlways ==
  ASSUME ClockAssumption
  PROVE  Spec => []HeldInv
<1>1. ASSUME TypeOK, HeldInv, [Next]_vars PROVE HeldInv'
  <2>1. ASSUME UNCHANGED <<now, held, ran>> PROVE HeldInv'
    BY <1>1, <2>1 DEF HeldInv, Queue, Served
  <2>2. ASSUME BuildSeeded PROVE HeldInv'
    BY <2>2 DEF BuildSeeded, HeldInv, Queue, Served
  <2>3. ASSUME NEW s \in Scheduled, ScheduleAdd(s) PROVE HeldInv'
    BY <2>1, <2>3 DEF ScheduleAdd, engineVars, inputVars
  <2>4. ASSUME ScheduleClear PROVE HeldInv'
    BY <2>1, <2>4 DEF ScheduleClear, engineVars, inputVars
  <2>5. ASSUME UNCHANGED <<now, sends, seen, lastMs, said, held, ran>> PROVE HeldInv'
    BY <2>1, <2>5
  <2> QED
    BY <1>1, <2>2, <2>3, <2>4, <2>5, StepIs, HeldSteps, HeldAdds
<1>2. Init => HeldInv
  BY HeldInit
<1> QED
  BY <1>1, <1>2, TypeCorrect, PTL DEF Spec

(* Held calls run once each, in the order they are due and then made, at    *)
(* the first step that reaches their instant (heldInputs).                  *)
THEOREM HeldCallsRunInTime ==
  ASSUME ClockAssumption
  PROVE  Spec => []HeldRunInTime
<1>1. HeldInv => HeldRunInTime
  BY DEF HeldInv, Queue, Served, HeldRunInTime
<1> QED
  BY <1>1, HeldAlways, PTL

-----------------------------------------------------------------------------
(* The clock.                                                               *)

(* However large the tick, it leaves the clock less than a step beyond the  *)
(* end of a timed run (Session.tick).                                       *)
THEOREM TicksLandAtEnd ==
  ASSUME ClockAssumption
  PROVE  Spec => []TickLandsAtEnd
<1>1. Init => TickLandsAtEnd
  BY DEF Init, TickLandsAtEnd, Ticking
<1>2. ASSUME TypeOK, TickLandsAtEnd, [Next]_vars PROVE TickLandsAtEnd'
  <2>1. now \in Nat /\ until \in Nat /\ StepMs \in Nat
    BY <1>2 DEF TypeOK, ClockAssumption
  <2>2. ASSUME UNCHANGED <<now, began, loop, until>> PROVE TickLandsAtEnd'
    BY <1>2, <2>2 DEF TickLandsAtEnd, Ticking
  <2>3. ASSUME loop' \notin {"playingTick", "handTick"} PROVE TickLandsAtEnd'
    BY <2>3 DEF TickLandsAtEnd, Ticking
  <2>4. ASSUME Ticks PROVE TickLandsAtEnd'
    <3>1. ASSUME StoreTick \/ SimStep PROVE TickLandsAtEnd'
      <4>1. now' = now /\ began' = now
        BY <3>1 DEF StoreTick, SimStep, BeginTick, engineVars
      <4> QED
        BY <4>1 DEF TickLandsAtEnd
    <3>2. ASSUME TickSteps PROVE TickLandsAtEnd'
      <4>1. now' = now + StepMs /\ until' = until /\ ~AtEnd
        BY <3>2 DEF TickSteps, StepEngine, playVars
      <4> QED
        BY <2>1, <4>1 DEF AtEnd, TickLandsAtEnd
    <3>3. ASSUME TickStopsAtEnd PROVE TickLandsAtEnd'
      BY <2>2, <3>3 DEF TickStopsAtEnd, engineVars, playVars
    <3>4. ASSUME TickEnds \/ SettleEnds PROVE TickLandsAtEnd'
      <4>1. loop' = "idle"
        BY <3>4 DEF TickEnds, SettleEnds
      <4> QED
        BY <2>3, <4>1
    <3>5. ASSUME SettleSteps PROVE TickLandsAtEnd'
      <4>1. loop' = "settling"
        BY <3>5 DEF SettleSteps
      <4> QED
        BY <2>3, <4>1
    <3> QED
      BY <2>4, <3>1, <3>2, <3>3, <3>4, <3>5 DEF Ticks
  <2>5. ASSUME Verbs PROVE TickLandsAtEnd'
    <3>1. loop' \in {"idle", "settling"}
      BY <2>5 DEF Verbs, Play, SimRun, Settle, SetTick, ScheduleAdd, ScheduleClear, Hold, Reset,
                  Seed, Detach, Open, Restore
    <3> QED
      BY <2>3, <3>1
  <2>6. ASSUME UNCHANGED vars PROVE TickLandsAtEnd'
    BY <2>2, <2>6 DEF vars, engineVars, playVars
  <2>7. ASSUME Cell PROVE TickLandsAtEnd'
    BY <2>2, <2>7 DEF Cell, CellTakes, CellSteps, CellEnds, engineVars, playVars
  <2> QED
    BY <1>2, <2>4, <2>5, <2>6, <2>7 DEF Next
<1> QED
  BY <1>1, <1>2, TypeCorrect, PTL DEF Spec

(* Between two verbs the world shows the engine's clock, but for a network  *)
(* just opened and for a clock last read off a cell of a sweep              *)
(* (World.NowMs, Store.tick, Sim.liveEngine).                               *)
THEOREM WorldShowsTheEngine ==
  ASSUME ClockAssumption
  PROVE  Spec => []WorldShowsEngine
<1>1. Init => WorldShowsEngine
  BY DEF Init, WorldShowsEngine
<1>2. ASSUME WorldShowsEngine, [Next]_vars PROVE WorldShowsEngine'
  <2>1. ASSUME UNCHANGED <<alive, now, worldNow, loop, shown>> PROVE WorldShowsEngine'
    BY <1>2, <2>1 DEF WorldShowsEngine
  <2>2. ASSUME loop' # "idle" PROVE WorldShowsEngine'
    BY <2>2 DEF WorldShowsEngine
  <2>3. ASSUME worldNow' = now' PROVE WorldShowsEngine'
    BY <2>3 DEF WorldShowsEngine
  <2>4. ASSUME Ticks PROVE WorldShowsEngine'
    <3>1. ASSUME StoreTick \/ SimStep \/ TickSteps \/ TickStopsAtEnd \/ SettleSteps
          PROVE  WorldShowsEngine'
      <4>1. loop' # "idle"
        BY <3>1 DEF StoreTick, SimStep, BeginTick, TickSteps, TickStopsAtEnd, SettleSteps, Ticking
      <4> QED
        BY <2>2, <4>1
    <3>2. ASSUME TickEnds PROVE WorldShowsEngine'
      <4>1. alive' = alive /\ now' = now
        BY <3>2 DEF TickEnds, engineVars
      <4>2. alive /\ shown' = "own" => worldNow' = now
        BY <3>2 DEF TickEnds
      <4> QED
        BY <4>1, <4>2 DEF WorldShowsEngine
    <3>3. ASSUME SettleEnds PROVE WorldShowsEngine'
      BY <2>3, <3>3 DEF SettleEnds, engineVars
    <3> QED
      BY <2>4, <3>1, <3>2, <3>3 DEF Ticks
  <2>5. ASSUME Verbs PROVE WorldShowsEngine'
    <3>1. ASSUME NEW on \in BOOLEAN, Play(on) PROVE WorldShowsEngine'
      BY <2>1, <3>1 DEF Play, engineVars
    <3>2. ASSUME NEW for \in RunFor, SimRun(for) PROVE WorldShowsEngine'
      BY <2>1, <3>2 DEF SimRun, engineVars
    <3>3. ASSUME NEW n \in SettleFor, Settle(n) PROVE WorldShowsEngine'
      BY <2>2, <3>3 DEF Settle
    <3>4. ASSUME NEW ms \in TickSizes, SetTick(ms) PROVE WorldShowsEngine'
      BY <2>1, <3>4 DEF SetTick, engineVars
    <3>5. ASSUME NEW s \in Scheduled, ScheduleAdd(s) PROVE WorldShowsEngine'
      BY <2>1, <3>5 DEF ScheduleAdd, engineVars
    <3>6. ASSUME ScheduleClear PROVE WorldShowsEngine'
      BY <2>1, <3>6 DEF ScheduleClear, engineVars
    <3>7. ASSUME NEW at \in HoldAt, Hold(at) PROVE WorldShowsEngine'
      BY <2>1, <3>7 DEF Hold, engineVars
    <3>8. ASSUME Reset \/ Seed PROVE WorldShowsEngine'
      BY <2>3, <3>8 DEF Reset, Seed, BuildSeeded
    <3>9. ASSUME Detach PROVE WorldShowsEngine'
      BY <3>9 DEF Detach, WorldShowsEngine
    <3>10. ASSUME NEW f \in Fixtures, Open(f) PROVE WorldShowsEngine'
      BY <3>10 DEF Open, WorldShowsEngine
    <3>11. ASSUME NEW f \in Fixtures, NEW target \in RunFor, Restore(f, target)
           PROVE  WorldShowsEngine'
      BY <2>3, <3>11 DEF Restore, BuildSeeded
    <3> QED
      BY <2>5, <3>1, <3>2, <3>3, <3>4, <3>5, <3>6, <3>7, <3>8, <3>9, <3>10, <3>11 DEF Verbs
  <2>6. ASSUME UNCHANGED vars PROVE WorldShowsEngine'
    BY <2>1, <2>6 DEF vars, engineVars
  <2>7. ASSUME Cell PROVE WorldShowsEngine'
    BY <2>1, <2>7 DEF Cell, CellTakes, CellSteps, CellEnds, engineVars
  <2> QED
    BY <1>2, <2>4, <2>5, <2>6, <2>7 DEF Next
<1> QED
  BY <1>1, <1>2, PTL DEF Spec

=============================================================================
