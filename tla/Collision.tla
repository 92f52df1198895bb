------------------------------ MODULE Collision ------------------------------
(***************************************************************************)
(* What a collision does to a packet that won the demodulator.  Whatever   *)
(* else keys up meanwhile, and the receiver cannot capture over, destroys   *)
(* the symbols it lands on; what is destroyed, and where, decides whether   *)
(* the frame is repaired, or which failure the chip is told of.             *)
(***************************************************************************)
EXTENDS Integers, Sequences, FiniteSets
LOCAL INSTANCE TLC

CONSTANTS
  Airtime,          \* of the packet, which starts at 0
  SymbolMs,         \* a symbol, a multiple of 4 ms so that every boundary is whole
  PreambleSymbols,  \* dsp.PreambleSymbols: 16 or 32
  CodingRate,       \* 1 to 4, for CR 4/5 to 4/8
  WantedDBm,        \* how loudly the packet is heard
  CaptureThreshold, \* captureThresholdDB
  Others,           \* what else may be on the air, whole packets: [start, end, dBm, near]
  MaxOthers         \* bound on how many of them are

(* The header: eight symbols after the preamble, two of sync and 2.25 more. *)
HeaderBlock ==
  LET from == PreambleSymbols * SymbolMs + (17 * SymbolMs) \div 4
  IN  [from |-> from, to |-> from + 8 * SymbolMs]

CollisionAssumption ==
  /\ {Airtime, SymbolMs, PreambleSymbols, CaptureThreshold, MaxOthers} \subseteq Nat
  /\ SymbolMs > 0 /\ SymbolMs % 4 = 0 /\ PreambleSymbols > 4
  /\ CodingRate \in 1 .. 4
  /\ Others \subseteq [start : Int, end : Int, dBm : Int, near : BOOLEAN]
  /\ Airtime >= HeaderBlock.to /\ \A o \in Others : o.end - o.start >= HeaderBlock.to

VARIABLES
  concurrent, \* everything that overlapped the packet, in the order kept
  verdict     \* what became of it, once judged

vars == <<concurrent, verdict>>

Unjudged == [outcome |-> "none", repaired |-> 0]

Init == concurrent = << >> /\ verdict = Unjudged

-----------------------------------------------------------------------------
Least(a, b) == IF a < b THEN a ELSE b
Most(a, b) == IF a < b THEN b ELSE a
Ceil(ms) == (ms + SymbolMs - 1) \div SymbolMs

(* On this channel, from a third node, with a path to the receiver, at the  *)
(* same time, and too loud to capture over. *)
Uncaptured(o) ==
  /\ o.near
  /\ Most(o.start, 0) < Least(o.end, Airtime)
  /\ WantedDBm - o.dBm < CaptureThreshold

UncapturedSpans ==
  LET hits == SelectSeq(concurrent, Uncaptured)
  IN  [i \in DOMAIN hits |-> [from |-> Most(hits[i].start, 0), to |-> Least(hits[i].end, Airtime)]]

(* The time spans cover between them: each extends the stretch before it or *)
(* closes it. *)
Covered(spans) ==
  LET swept[i \in 1 .. Len(spans)] ==
        IF i = 1 THEN [cur |-> spans[1], ms |-> 0]
          ELSE LET h == spans[i]
                   acc == swept[i - 1]
               IN  IF h.from > acc.cur.to
                     THEN [cur |-> h, ms |-> acc.ms + acc.cur.to - acc.cur.from]
                     ELSE [acc EXCEPT !.cur.to = Most(@, h.to)]
      last == swept[Len(spans)]
  IN  last.ms + last.cur.to - last.cur.from

(* A slip: the sweep is made over the spans as they came. *)
SweepUnsorted(hits) == Covered(hits)

(* The sweep is made in the order of their starts. *)
Sweep(hits) == Covered(SortSeq(hits, LAMBDA a, b : a.from <= b.from))

DamagedMs == IF UncapturedSpans = << >> THEN 0 ELSE Sweep(UncapturedSpans)

HeaderOf(h) == Most(0, Least(h.to, HeaderBlock.to) - Most(h.from, HeaderBlock.from))

(* What lands on it is summed, span by span, up to the whole of it. *)
HeaderMs ==
  LET summed[i \in 0 .. Len(UncapturedSpans)] ==
        IF i = 0 THEN 0 ELSE summed[i - 1] + HeaderOf(UncapturedSpans[i])
  IN  Least(summed[Len(UncapturedSpans)], 8 * SymbolMs)

DamagedSymbols == Ceil(DamagedMs)
HeaderDamagedSymbols == Ceil(HeaderMs)

-----------------------------------------------------------------------------
(* One destroyed symbol is one bit in each codeword of its block.           *)
SurvivesCorruption(damaged) == damaged = 0 \/ (damaged = 1 /\ CodingRate >= 3)

HeaderSurvives == HeaderDamagedSymbols <= 1

FailureOf == IF HeaderSurvives THEN "crc" ELSE "header"

(* Interference that was there before the receiver could lock. *)
WeakFailure ==
  LET lockMs == (PreambleSymbols - 4) * SymbolMs
  IN  IF \E i \in DOMAIN UncapturedSpans : UncapturedSpans[i].from < lockMs THEN "no_lock"
        ELSE FailureOf

KeysUp(o) ==
  /\ verdict = Unjudged
  /\ Len(concurrent) < MaxOthers
  /\ concurrent' = Append(concurrent, o)
  /\ UNCHANGED verdict

(* "enough": the packet is above what its spreading factor requires, over   *)
(* noise and interference taken together. *)
Judge(enough) ==
  /\ verdict = Unjudged
  /\ verdict' =
       IF ~enough THEN [Unjudged EXCEPT !.outcome = WeakFailure]
         ELSE IF SurvivesCorruption(DamagedSymbols)
           THEN [outcome |-> "accepted", repaired |-> DamagedSymbols]
           ELSE [Unjudged EXCEPT !.outcome = FailureOf]
  /\ UNCHANGED concurrent

Next == (\E o \in Others : KeysUp(o)) \/ \E enough \in BOOLEAN : Judge(enough)

Spec == Init /\ [][Next]_vars

-----------------------------------------------------------------------------
TypeOK ==
  /\ concurrent \in Seq(Others)
  /\ verdict \in [outcome : {"none", "accepted", "crc", "header", "no_lock"}, repaired : {0, 1}]

(* The milliseconds something uncaptured lands on, one by one.              *)
Destroyed ==
  {ms \in 0 .. Airtime - 1 :
     \E i \in DOMAIN concurrent :
       Uncaptured(concurrent[i]) /\ concurrent[i].start <= ms /\ ms < concurrent[i].end}

DestroyedHeader == {ms \in Destroyed : HeaderBlock.from <= ms /\ ms < HeaderBlock.to}

(* Overlaps are unioned, not summed: however many there are, however they   *)
(* nest and in whatever order they were kept.                               *)
DamageIsTheUnion == DamagedMs = Cardinality(Destroyed)

(* A chip told that it has read a header - by a frame it may keep, or one   *)
(* whose payload failed - had one that the code could put back together.    *)
HeaderWasReadable ==
  verdict.outcome \in {"accepted", "crc"} => Ceil(Cardinality(DestroyedHeader)) <= 1

(* "A hit shorter than one symbol still costs a whole symbol" (collision.go)*)
(* so two hits, the second on a later symbol than the first, cost two.      *)
EachHitCostsASymbol ==
  \A i, j \in DOMAIN UncapturedSpans :
    (UncapturedSpans[i].to - 1) \div SymbolMs < UncapturedSpans[j].from \div SymbolMs
      => DamagedSymbols >= 2
=============================================================================
