------------------------------ MODULE WarmProofs ------------------------------
(***************************************************************************)
(* What is proved of the link matrix for any networks and pairs, however    *)
(* many warms and switches: its types, that a matrix said to be measured    *)
(* has been, that the links shown are of the network that is open, and that *)
(* a loss is kept under the key of what priced it.                          *)
(***************************************************************************)
EXTENDS Warm, TLAPS

Step == {"begin", "gpu", "prime", "cores", "check", "claim", "save", "post", "finish", "abandon", "done"}

EngineRecord == [net : Network, env : Priced, cache : Matrix]

WarmRecord(n) ==
  [eng : 1 .. n, fp : Fingerprint, cancelled : BOOLEAN, overtaken : BOOLEAN,
   walk : [Pair -> {"todo", "done"} \cup Priced], primes : Priced \cup {"none"}, pc : Step]

(* There is always an engine.                                               *)
Present == Engine > 0

Walk(w) == \A p \in Pair : w.walk[p] = "done"

(* A warm begun since the measurement was last taken back measures the      *)
(* engine there is; one begun before has been cancelled, and gets past its  *)
(* last look only if it was past it then.                                   *)
Owned ==
  \A k \in 1 .. Len(warms) :
    IF k > resetAt THEN warms[k].eng = Engine
                   ELSE warms[k].cancelled /\ (Committed(warms[k]) => warms[k].overtaken)

(* A warm that has come to its last look has walked every pair.             *)
Walked ==
  \A k \in 1 .. Len(warms) : warms[k].pc = "check" \/ Committed(warms[k]) => Walk(warms[k])

(* What is shown was posted by a warm of this engine or an overtaken one.   *)
Posted == links # 0 => warms[links].eng = Engine \/ warms[links].overtaken

MeasuredInv == TypeOK /\ Present /\ Owned /\ Walked /\ Posted /\ MeasuredIsWalked

(* As long as nothing was switched during a warm, all that is kept was      *)
(* priced by what its engine prices with, and so will be all that is on its *)
(* way.                                                                     *)
KeyedCaches ==
  \A e \in 1 .. Engine, p \in Pair : Cache(e)[p] \in {"none", engines[e].env}

KeyedWarm(w) ==
  /\ w.fp.env = engines[w.eng].env
  /\ w.primes \in {"none", engines[w.eng].env}
  /\ \A p \in Pair : w.walk[p] \in {"todo", "done", engines[w.eng].env}

KeyedDisk == \A fp \in Fingerprint, p \in Pair : disk[fp][p] \in {"none", fp.env}

Keyed ==
  ~mixed => /\ geomFP.env = engines[Engine].env
            /\ KeyedCaches
            /\ \A k \in 1 .. Len(warms) : Live(warms[k]) => KeyedWarm(warms[k])
            /\ KeyedDisk

PricedInv == TypeOK /\ Present /\ Keyed

-----------------------------------------------------------------------------
(* The types, said with the two records above.                              *)
LEMMA Types ==
  TypeOK <=>
    /\ env \in Priced
    /\ geomFP \in Fingerprint
    /\ engines \in Seq(EngineRecord)
    /\ disk \in [Fingerprint -> Matrix]
    /\ warmed \in BOOLEAN /\ job \in BOOLEAN /\ mixed \in BOOLEAN
    /\ warms \in Seq(WarmRecord(Engine))
    /\ links \in 0 .. Len(warms)
    /\ resetAt \in 0 .. Len(warms) /\ switches \in 0 .. MaxSwitches
  BY DEF TypeOK, EngineRecord, WarmRecord, Step

(* What a warm's own step does to the warms: it moves itself, and neither   *)
(* what it is about nor whether it was superseded changes.                  *)
Moves(k) ==
  /\ Len(warms') = Len(warms)
  /\ warms' \in Seq(WarmRecord(Engine))
  /\ \A j \in 1 .. Len(warms) : j # k => warms'[j] = warms[j]
  /\ warms'[k].eng = warms[k].eng /\ warms'[k].fp = warms[k].fp
  /\ warms'[k].cancelled = warms[k].cancelled /\ warms'[k].overtaken = warms[k].overtaken

LEMMA Moving ==
  ASSUME TypeOK, NEW k \in DOMAIN warms, NEW w \in WarmRecord(Engine),
         w.eng = warms[k].eng, w.fp = warms[k].fp,
         w.cancelled = warms[k].cancelled, w.overtaken = warms[k].overtaken,
         warms' = [warms EXCEPT ![k] = w]
  PROVE  Moves(k) /\ warms'[k] = w
<1>1. warms \in Seq(WarmRecord(Engine)) /\ k \in 1 .. Len(warms)
  BY Types
<1> QED
  BY <1>1 DEF Moves

(* How far a step takes a warm: on to its last look only with every pair    *)
(* walked, beyond that only if it was not superseded, and a pair that has   *)
(* been walked stays so.                                                    *)
Advances(k) ==
  /\ Moves(k)
  /\ \A p \in Pair : warms[k].walk[p] = "done" => warms'[k].walk[p] = "done"
  /\ warms'[k].pc = "check" => Walk(warms'[k])
  /\ Committed(warms'[k]) =>
       Committed(warms[k]) \/ (warms[k].pc = "check" /\ ~warms[k].cancelled)
  /\ Live(warms[k])

(* A warm that goes on, and no more.                                        *)
LEMMA Going ==
  ASSUME TypeOK, NEW k \in DOMAIN warms, NEW pc \in Step, Goes(k, pc)
  PROVE  /\ Moves(k)
         /\ warms'[k].pc = pc /\ warms'[k].walk = warms[k].walk
         /\ warms'[k].primes = warms[k].primes
<1>1. warms \in Seq(WarmRecord(Engine)) /\ k \in 1 .. Len(warms)
  BY Types
<1>2. warms[k] \in WarmRecord(Engine)
  BY <1>1
<1> DEFINE w == [warms[k] EXCEPT !.pc = pc]
<1>3. /\ w \in WarmRecord(Engine)
      /\ w.eng = warms[k].eng /\ w.fp = warms[k].fp
      /\ w.cancelled = warms[k].cancelled /\ w.overtaken = warms[k].overtaken
      /\ w.pc = pc /\ w.walk = warms[k].walk /\ w.primes = warms[k].primes
  BY <1>2 DEF WarmRecord
<1>4. warms' = [warms EXCEPT ![k] = w]
  BY DEF Goes
<1> HIDE DEF w
<1> QED
  BY <1>3, <1>4, Moving

(* The engines a step leaves: as many, of the same networks and the same    *)
(* physics.                                                                 *)
KeepsEngines ==
  /\ engines' \in Seq(EngineRecord) /\ Len(engines') = Len(engines)
  /\ \A e \in 1 .. Len(engines) :
       engines'[e].net = engines[e].net /\ engines'[e].env = engines[e].env

LEMMA Caching ==
  ASSUME TypeOK, NEW e \in 1 .. Engine, NEW c \in Matrix,
         engines' = [engines EXCEPT ![e] = [engines[e] EXCEPT !.cache = c]]
  PROVE  /\ KeepsEngines
         /\ engines'[e].cache = c
         /\ \A d \in 1 .. Engine : d # e => engines'[d] = engines[d]
<1>1. engines \in Seq(EngineRecord) /\ e \in 1 .. Len(engines)
  BY Types DEF Engine
<1>2. engines[e] \in EngineRecord
  BY <1>1
<1> DEFINE r == [engines[e] EXCEPT !.cache = c]
<1>3. /\ r \in EngineRecord
      /\ r.net = engines[e].net /\ r.env = engines[e].env /\ r.cache = c
  BY <1>2 DEF EngineRecord
<1>4. engines' = [engines EXCEPT ![e] = r]
  OBVIOUS
<1> HIDE DEF r
<1> QED
  BY <1>1, <1>3, <1>4 DEF KeepsEngines, Engine

(* Letting go of an engine empties its cache, and that is all.              *)
LEMMA Holding ==
  ASSUME NEW engs \in Seq(EngineRecord), NEW ws
  PROVE  /\ Held(engs, ws) \in Seq(EngineRecord) /\ Len(Held(engs, ws)) = Len(engs)
         /\ \A e \in 1 .. Len(engs) :
              /\ Held(engs, ws)[e].net = engs[e].net /\ Held(engs, ws)[e].env = engs[e].env
              /\ Held(engs, ws)[e].cache \in {engs[e].cache, Nothing}
         /\ engs # << >> => Held(engs, ws)[Len(engs)] = engs[Len(engs)]
<1> DEFINE Emptied(e) == [engs[e] EXCEPT !.cache = Nothing]
<1>1. Nothing \in Matrix
  BY DEF Nothing, Matrix
<1>2. \A e \in 1 .. Len(engs) :
        /\ Emptied(e) \in EngineRecord /\ Emptied(e).net = engs[e].net
        /\ Emptied(e).env = engs[e].env /\ Emptied(e).cache = Nothing
  <2> TAKE e \in 1 .. Len(engs)
  <2>1. engs[e] \in EngineRecord
    OBVIOUS
  <2> QED
    BY <1>1, <2>1 DEF EngineRecord
<1> HIDE DEF Emptied
<1> DEFINE Kept(e) == e = Len(engs) \/ \E k \in DOMAIN ws : Live(ws[k]) /\ ws[k].eng = e
<1>3. Held(engs, ws) = [e \in 1 .. Len(engs) |-> IF Kept(e) THEN engs[e] ELSE Emptied(e)]
  BY DEF Held, Emptied
<1>4. Kept(Len(engs))
  OBVIOUS
<1> HIDE DEF Kept
<1> DEFINE h == Held(engs, ws)
<1>5. \A e \in 1 .. Len(engs) : h[e] = engs[e] \/ h[e] = Emptied(e)
  BY <1>3
<1>6. h \in Seq(EngineRecord) /\ Len(h) = Len(engs)
  BY <1>2, <1>3
<1>7. engs # << >> => h[Len(engs)] = engs[Len(engs)]
  BY <1>3, <1>4
<1> QED
  BY <1>2, <1>5, <1>6, <1>7

-----------------------------------------------------------------------------
(* What a step of a warm does, whichever it is.                             *)
WarmStep(k) ==
  /\ Advances(k)
  /\ KeepsEngines
  /\ Elsewhere
  /\ disk' \in [Fingerprint -> Matrix] /\ warmed' \in BOOLEAN /\ job' \in BOOLEAN
  /\ warmed' # warmed => warms[k].pc = "claim"
  /\ links' # links => links' = k /\ Committed(warms[k])

LEMMA EnginesStay == ASSUME TypeOK, UNCHANGED engines PROVE KeepsEngines
  BY Types DEF KeepsEngines, Engine

LEMMA StoreTypes ==
  ASSUME TypeOK, NEW e \in 1 .. Engine
  PROVE  /\ Cache(e) \in Matrix
         /\ engines[e].env \in Priced
         /\ engines[e] = [net |-> engines[e].net, env |-> engines[e].env, cache |-> Cache(e)]
<1>1. engines[e] \in EngineRecord
  BY Types DEF Engine
<1> QED
  BY <1>1 DEF EngineRecord, Cache

LEMMA WarmTypes ==
  ASSUME TypeOK, NEW k \in DOMAIN warms
  PROVE  k \in 1 .. Len(warms) /\ warms[k] \in WarmRecord(Engine)
<1>1. warms \in Seq(WarmRecord(Engine))
  BY Types
<1> QED
  BY <1>1

(* The steps in which a warm only goes on.                                  *)
LEMMA GoingAdvances ==
  ASSUME TypeOK, NEW k \in DOMAIN warms, NEW pc \in Step, Goes(k, pc), Live(warms[k]),
         pc = "check" => Walk(warms[k]),
         pc \in {"claim", "save", "post", "finish"} =>
           Committed(warms[k]) \/ (warms[k].pc = "check" /\ ~warms[k].cancelled)
  PROVE  Advances(k)
<1>1. /\ Moves(k) /\ warms'[k].pc = pc /\ warms'[k].walk = warms[k].walk
  BY Going
<1> QED
  BY <1>1 DEF Advances, Walk, Committed

LEMMA WarmStepTaken ==
  ASSUME TypeOK, NEW k \in DOMAIN warms, Warm(k)
  PROVE  WarmStep(k)
<1> USE DEF Step, Live
<1>t. /\ disk \in [Fingerprint -> Matrix] /\ warmed \in BOOLEAN /\ job \in BOOLEAN
      /\ engines \in Seq(EngineRecord)
  BY Types
<1>w. k \in 1 .. Len(warms) /\ warms[k] \in WarmRecord(Engine)
  BY WarmTypes
<1>s. Shown(k) => job' \in BOOLEAN
  BY <1>t DEF Shown
<1>e. /\ warms[k].eng \in 1 .. Engine
      /\ warms[k].walk \in [Pair -> {"todo", "done"} \cup Priced]
      /\ warms[k].primes \in Priced \cup {"none"}
  BY <1>w DEF WarmRecord
<1>c. Cache(warms[k].eng) \in Matrix /\ engines[warms[k].eng].env \in Priced
  BY <1>e, StoreTypes
<1>1. CASE Begin(k)
  <2>1. PICK pc \in {"cores", "gpu"} : Goes(k, pc)
    BY <1>1 DEF Begin
  <2>2. Advances(k)
    BY <1>1, <2>1, GoingAdvances DEF Begin
  <2> QED
    BY <1>1, <2>2, <1>t, <1>s, EnginesStay DEF WarmStep, Begin
<1>2. CASE WarmOnGPU(k)
  <2> DEFINE w == [warms[k] EXCEPT !.primes = engines[warms[k].eng].env, !.pc = "prime"]
  <2>1. /\ w \in WarmRecord(Engine)
        /\ w.eng = warms[k].eng /\ w.fp = warms[k].fp
        /\ w.cancelled = warms[k].cancelled /\ w.overtaken = warms[k].overtaken
        /\ w.pc = "prime" /\ w.walk = warms[k].walk
    BY <1>w, <1>c DEF WarmRecord
  <2>2. warms' = [warms EXCEPT ![k] = w] /\ warms[k].pc = "gpu"
    BY <1>2 DEF WarmOnGPU
  <2> HIDE DEF w
  <2>3. Moves(k) /\ warms'[k] = w
    BY <2>1, <2>2, Moving
  <2>4. Advances(k)
    BY <2>1, <2>2, <2>3 DEF Advances, Committed
  <2> QED
    BY <1>2, <2>4, <1>t, EnginesStay DEF WarmStep, WarmOnGPU
<1>3. CASE PrimeLinks(k)
  <2> DEFINE w == [warms[k] EXCEPT !.primes = "none", !.pc = "cores"]
  <2>1. /\ w \in WarmRecord(Engine)
        /\ w.eng = warms[k].eng /\ w.fp = warms[k].fp
        /\ w.cancelled = warms[k].cancelled /\ w.overtaken = warms[k].overtaken
        /\ w.pc = "cores" /\ w.walk = warms[k].walk
    BY <1>w DEF WarmRecord
  <2>2. warms' = [warms EXCEPT ![k] = w] /\ warms[k].pc = "prime"
    BY <1>3 DEF PrimeLinks
  <2> HIDE DEF w
  <2>3. Moves(k) /\ warms'[k] = w
    BY <2>1, <2>2, Moving
  <2>4. Advances(k)
    BY <2>1, <2>2, <2>3 DEF Advances, Committed
  <2>5. KeepsEngines
    <3>1. PICK S \in SUBSET Pair :
            engines' = [engines EXCEPT ![warms[k].eng].cache =
                          [p \in Pair |-> IF p \in S THEN warms[k].primes ELSE @[p]]]
      BY <1>3 DEF PrimeLinks
    <3> DEFINE c == [p \in Pair |-> IF p \in S THEN warms[k].primes ELSE Cache(warms[k].eng)[p]]
    <3>2. c \in Matrix
      BY <1>e, <1>c DEF Matrix
    <3>3. engines' = [engines EXCEPT ![warms[k].eng] = [engines[warms[k].eng] EXCEPT !.cache = c]]
      BY <3>1 DEF Cache
    <3> HIDE DEF c
    <3> QED
      BY <1>e, <3>2, <3>3, Caching
  <2> QED
    BY <1>3, <2>4, <2>5, <1>t, <1>s DEF WarmStep, PrimeLinks
<1>4. ASSUME NEW p \in Pair, PathLoss(k, p) PROVE WarmStep(k)
  <2> DEFINE x == IF Cache(warms[k].eng)[p] = "none" THEN engines[warms[k].eng].env ELSE "done"
             w == [warms[k] EXCEPT !.walk = [warms[k].walk EXCEPT ![p] = x]]
  <2>x. x \in {"todo", "done"} \cup Priced
    BY <1>c
  <2>0. warms[k].pc = "cores" /\ warms[k].walk[p] = "todo"
    BY <1>4 DEF PathLoss
  <2>2. warms' = [warms EXCEPT ![k] = w]
    BY <1>4 DEF PathLoss
  <2> HIDE DEF x
  <2>1. /\ w \in WarmRecord(Engine)
        /\ w.eng = warms[k].eng /\ w.fp = warms[k].fp
        /\ w.cancelled = warms[k].cancelled /\ w.overtaken = warms[k].overtaken
        /\ w.pc = "cores" /\ w.walk = [warms[k].walk EXCEPT ![p] = x]
    BY <1>w, <1>e, <2>x, <2>0 DEF WarmRecord
  <2>5. \A q \in Pair : warms[k].walk[q] = "done" => w.walk[q] = "done"
    BY <1>e, <2>0, <2>1
  <2> HIDE DEF w
  <2>3. Moves(k) /\ warms'[k] = w
    BY <2>1, <2>2, Moving
  <2>4. Advances(k)
    BY <2>0, <2>1, <2>3, <2>5 DEF Advances, Committed
  <2> QED
    BY <1>4, <2>4, <1>t, EnginesStay DEF WarmStep, PathLoss
<1>5. ASSUME NEW p \in Pair, StoreLoss(k, p) PROVE WarmStep(k)
  <2> DEFINE w == [warms[k] EXCEPT !.walk = [warms[k].walk EXCEPT ![p] = "done"]]
  <2>0. warms[k].pc = "cores" /\ warms[k].walk[p] \in Priced
    BY <1>5 DEF StoreLoss
  <2>2. warms' = [warms EXCEPT ![k] = w]
    BY <1>5 DEF StoreLoss
  <2>1. /\ w \in WarmRecord(Engine)
        /\ w.eng = warms[k].eng /\ w.fp = warms[k].fp
        /\ w.cancelled = warms[k].cancelled /\ w.overtaken = warms[k].overtaken
        /\ w.pc = "cores" /\ w.walk = [warms[k].walk EXCEPT ![p] = "done"]
    BY <1>w, <1>e, <2>0 DEF WarmRecord
  <2>5. \A q \in Pair : warms[k].walk[q] = "done" => w.walk[q] = "done"
    BY <1>e, <2>1
  <2> HIDE DEF w
  <2>3. Moves(k) /\ warms'[k] = w
    BY <2>1, <2>2, Moving
  <2>4. Advances(k)
    BY <2>0, <2>1, <2>3, <2>5 DEF Advances, Committed
  <2>6. KeepsEngines
    <3> DEFINE c == [Cache(warms[k].eng) EXCEPT ![p] = warms[k].walk[p]]
    <3>2. c \in Matrix
      BY <1>c, <2>0 DEF Matrix
    <3>3. engines' = [engines EXCEPT ![warms[k].eng] = [engines[warms[k].eng] EXCEPT !.cache = c]]
      BY <1>5 DEF StoreLoss, Cache
    <3> HIDE DEF c
    <3> QED
      BY <1>e, <3>2, <3>3, Caching
  <2> QED
    BY <1>5, <2>4, <2>6, <1>t, <1>s DEF WarmStep, StoreLoss
<1>6. CASE WarmLinksReturns(k)
  <2>0. warms[k].pc = "cores" /\ WalkOver(warms[k])
    BY <1>6 DEF WarmLinksReturns
  <2>1. CASE warms[k].cancelled
    <3>1. Goes(k, "abandon") /\ UNCHANGED engines
      BY <1>6, <2>1 DEF WarmLinksReturns
    <3>2. Advances(k)
      BY <2>0, <3>1, GoingAdvances
    <3> QED
      BY <1>6, <3>1, <3>2, <1>t, EnginesStay DEF WarmStep, WarmLinksReturns
  <2>2. CASE ~warms[k].cancelled
    <3> DEFINE c == [p \in Pair |-> IF Cache(warms[k].eng)[p] = "none" THEN engines[warms[k].eng].env
                                                                       ELSE Cache(warms[k].eng)[p]]
    <3>1. /\ Goes(k, "check")
          /\ engines' = [engines EXCEPT ![warms[k].eng] = [engines[warms[k].eng] EXCEPT !.cache = c]]
      BY <1>6, <2>2 DEF WarmLinksReturns, Cache
    <3>2. c \in Matrix
      BY <1>c DEF Matrix
    <3> HIDE DEF c
    <3>3. KeepsEngines
      BY <1>e, <3>1, <3>2, Caching
    <3>4. Walk(warms[k])
      BY <2>0, <2>2 DEF Walk, WalkOver
    <3>5. Advances(k)
      BY <2>0, <3>1, <3>4, GoingAdvances
    <3> QED
      BY <1>6, <3>3, <3>5, <1>t DEF WarmStep, WarmLinksReturns
  <2> QED
    BY <2>1, <2>2
<1>7. CASE Check(k)
  <2>1. CASE warms[k].cancelled
    <3>1. Goes(k, "abandon")
      BY <1>7, <2>1 DEF Check
    <3>2. Advances(k)
      BY <1>7, <3>1, GoingAdvances DEF Check
    <3> QED
      BY <1>7, <3>2, <1>t, EnginesStay DEF WarmStep, Check
  <2>2. CASE ~warms[k].cancelled
    <3>1. Goes(k, "claim")
      BY <1>7, <2>2 DEF Check
    <3>2. Advances(k)
      BY <1>7, <2>2, <3>1, GoingAdvances DEF Check
    <3> QED
      BY <1>7, <3>2, <1>t, EnginesStay DEF WarmStep, Check
  <2> QED
    BY <2>1, <2>2
<1>8. CASE Claim(k)
  <2>1. Advances(k)
    BY <1>8, GoingAdvances DEF Claim, Committed
  <2> QED
    BY <1>8, <2>1, <1>t, EnginesStay DEF WarmStep, Claim
<1>9. CASE SaveMatrix(k)
  <2>1. Advances(k)
    BY <1>9, GoingAdvances DEF SaveMatrix, Committed
  <2>2. disk' \in [Fingerprint -> Matrix]
    BY <1>9, <1>t, <1>c DEF SaveMatrix
  <2> QED
    BY <1>9, <2>1, <2>2, <1>t, EnginesStay DEF WarmStep, SaveMatrix
<1>10. CASE PostLinks(k)
  <2>1. Advances(k)
    BY <1>10, GoingAdvances DEF PostLinks, Committed
  <2> QED
    BY <1>10, <2>1, <1>t, EnginesStay DEF WarmStep, PostLinks, Committed
<1>11. CASE Finish(k) \/ AbandonJob(k)
  <2>0. Goes(k, "done") /\ Live(warms[k])
    BY <1>11 DEF Finish, AbandonJob
  <2>1. Advances(k)
    BY <2>0, GoingAdvances
  <2>2. engines' = Held(engines, warms')
    BY <1>11 DEF Finish, AbandonJob
  <2>3. KeepsEngines
    BY <2>2, <1>t, Holding DEF KeepsEngines
  <2> QED
    BY <1>11, <2>1, <2>3, <1>t DEF WarmStep, Finish, AbandonJob
<1> QED
  BY <1>1, <1>2, <1>3, <1>4, <1>5, <1>6, <1>7, <1>8, <1>9, <1>10, <1>11 DEF Warm

-----------------------------------------------------------------------------
(* What starting a warm does to those before it: they are superseded, and   *)
(* nothing else about them changes.                                         *)
Superseded(w, v) ==
  /\ v.eng = w.eng /\ v.fp = w.fp /\ v.walk = w.walk /\ v.primes = w.primes /\ v.pc = w.pc
  /\ v.cancelled
  /\ v.overtaken = (w.overtaken \/ Committed(w))

Starts(n, e, fp) ==
  /\ warms' \in Seq(WarmRecord(n)) /\ Len(warms') = Len(warms) + 1
  /\ \A k \in 1 .. Len(warms) : Superseded(warms[k], warms'[k])
  /\ warms'[Len(warms) + 1] = FreshWarm(e, fp)

LEMMA Starting ==
  ASSUME TypeOK, NEW n \in Nat, Engine <= n, NEW e \in 1 .. n, NEW fp \in Fingerprint,
         StartWarm(e, fp)
  PROVE  Starts(n, e, fp)
<1>1. warms \in Seq(WarmRecord(Engine)) /\ Engine \in Nat
  BY Types DEF Engine
<1> DEFINE After(k) == [warms[k] EXCEPT !.cancelled = TRUE, !.overtaken = @ \/ Committed(warms[k])]
<1>2. \A k \in 1 .. Len(warms) : After(k) \in WarmRecord(n) /\ Superseded(warms[k], After(k))
  <2> TAKE k \in 1 .. Len(warms)
  <2>1. warms[k] \in WarmRecord(Engine)
    BY <1>1
  <2>2. warms[k] \in WarmRecord(n)
    BY <1>1, <2>1 DEF WarmRecord
  <2>3. Committed(warms[k]) \in BOOLEAN
    BY DEF Committed
  <2> QED
    BY <2>2, <2>3 DEF WarmRecord, Superseded
<1>3. FreshWarm(e, fp) \in WarmRecord(n)
  BY DEF FreshWarm, WarmRecord, Step
<1> DEFINE before == [k \in DOMAIN warms |-> After(k)]
<1>4. warms' = Append(before, FreshWarm(e, fp))
  BY DEF StartWarm
<1> HIDE DEF After
<1>5. before \in Seq(WarmRecord(n)) /\ Len(before) = Len(warms)
  BY <1>1, <1>2
<1>6. \A k \in 1 .. Len(warms) : before[k] = After(k)
  BY <1>1
<1> HIDE DEF before
<1>7. /\ warms' \in Seq(WarmRecord(n)) /\ Len(warms') = Len(warms) + 1
      /\ \A k \in 1 .. Len(warms) : warms'[k] = before[k]
      /\ warms'[Len(warms) + 1] = FreshWarm(e, fp)
  BY <1>3, <1>4, <1>5
<1> QED
  BY <1>2, <1>6, <1>7 DEF Starts

(* What a rebuild does to the engines: the new one comes last, and of those *)
(* before it nothing but what they had measured may go.                     *)
Rebuilds(net, fp) ==
  /\ engines' \in Seq(EngineRecord) /\ Len(engines') = Len(engines) + 1
  /\ \A e \in 1 .. Len(engines) :
       /\ engines'[e].net = engines[e].net /\ engines'[e].env = engines[e].env
       /\ engines'[e].cache \in {engines[e].cache, Nothing}
  /\ engines'[Len(engines) + 1] = [net |-> net, env |-> env, cache |-> Carried(fp)]

LEMMA Building ==
  ASSUME TypeOK, Engine > 0, NEW net \in Network, Build(net)
  PROVE  LET fp == [net |-> net, env |-> env]
         IN  fp \in Fingerprint /\ Carried(fp) \in Matrix /\ Rebuilds(net, fp)
<1> DEFINE fp == [net |-> net, env |-> env]
<1>1. engines \in Seq(EngineRecord) /\ env \in Priced /\ disk \in [Fingerprint -> Matrix]
  BY Types
<1>2. fp \in Fingerprint
  BY <1>1 DEF Fingerprint
<1>3. Cache(Engine) \in Matrix
  <2>1. Engine \in 1 .. Engine
    BY <1>1 DEF Engine
  <2> QED
    BY <2>1, StoreTypes
<1>4. Carried(fp) \in Matrix
  BY <1>1, <1>2, <1>3 DEF Carried
<1> DEFINE r == [net |-> net, env |-> env, cache |-> Carried(fp)]
           engs == Append(engines, r)
<1>5. engines' = Held(engs, warms)
  BY DEF Build
<1>6. r \in EngineRecord
  BY <1>1, <1>4 DEF EngineRecord
<1> HIDE DEF r
<1>7. /\ engs \in Seq(EngineRecord) /\ Len(engs) = Len(engines) + 1 /\ engs # << >>
      /\ engs[Len(engines) + 1] = r
      /\ \A e \in 1 .. Len(engines) : engs[e] = engines[e]
  BY <1>1, <1>6
<1> HIDE DEF engs
<1>8. Rebuilds(net, fp)
  BY <1>1, <1>5, <1>7, Holding DEF Rebuilds, r
<1> QED
  BY <1>2, <1>4, <1>8

(* A verb that measures, takes back or drops a loss of the engine there is. *)
LEMMA VerbCaching ==
  ASSUME TypeOK, Engine > 0, NEW p \in Pair, LivePathLoss(p) \/ Evict(p)
  PROVE  KeepsEngines
<1>1. Engine \in 1 .. Engine
  BY Types DEF Engine
<1>2. Cache(Engine) \in Matrix /\ engines[Engine].env \in Priced
  BY <1>1, StoreTypes
<1> DEFINE c(x) == [Cache(Engine) EXCEPT ![p] = x]
<1>3. PICK x \in Priced \cup {"none"} :
        engines' = [engines EXCEPT ![Engine] = [engines[Engine] EXCEPT !.cache = c(x)]]
  BY <1>2 DEF LivePathLoss, Evict, Cache
<1>4. c(x) \in Matrix
  BY <1>2 DEF Matrix
<1> HIDE DEF c
<1> QED
  BY <1>1, <1>3, <1>4, Caching

LEMMA TypesAtFirst == ASSUME WarmAssumption, Init PROVE TypeOK /\ Present
<1>1. Nothing \in Matrix
  BY DEF Nothing, Matrix
<1>2. geomFP \in Fingerprint /\ geomFP.net \in Network /\ env \in Priced
  BY DEF Init, Fingerprint, Priced
<1> DEFINE r == [net |-> geomFP.net, env |-> env, cache |-> Nothing]
<1>3. r \in EngineRecord
  BY <1>1, <1>2 DEF EngineRecord
<1> HIDE DEF r
<1>4. engines = <<r>>
  BY DEF Init, r
<1>5. engines \in Seq(EngineRecord) /\ Engine = 1
  BY <1>3, <1>4 DEF Engine
<1>6. FreshWarm(1, geomFP) \in WarmRecord(1)
  BY <1>2 DEF FreshWarm, WarmRecord, Step
<1>7. warms = <<FreshWarm(1, geomFP)>>
  BY DEF Init
<1> HIDE DEF FreshWarm
<1>8. warms \in Seq(WarmRecord(Engine)) /\ Len(warms) = 1
  BY <1>5, <1>6, <1>7
<1>9. disk \in [Fingerprint -> Matrix] /\ switches \in 0 .. MaxSwitches
  BY <1>1 DEF Init, WarmAssumption
<1>10. /\ warmed \in BOOLEAN /\ job \in BOOLEAN /\ mixed \in BOOLEAN
       /\ links \in 0 .. Len(warms) /\ resetAt \in 0 .. Len(warms)
  <2>1. warmed = FALSE /\ job = FALSE /\ mixed = FALSE /\ links = 0 /\ resetAt = 0
    BY DEF Init
  <2>2. warmed \in BOOLEAN /\ job \in BOOLEAN /\ mixed \in BOOLEAN
    BY <2>1
  <2>3. links \in 0 .. Len(warms) /\ resetAt \in 0 .. Len(warms)
    BY <1>8, <2>1
  <2> QED
    BY <2>2, <2>3
<1>11. TypeOK
  BY <1>2, <1>5, <1>8, <1>9, <1>10, Types
<1> QED
  BY <1>5, <1>11 DEF Present


LEMMA TypesKept ==
  ASSUME WarmAssumption, TypeOK, Present, [Next]_warmVars
  PROVE  TypeOK' /\ Present'
<1>t. /\ env \in Priced /\ geomFP \in Fingerprint /\ engines \in Seq(EngineRecord)
      /\ disk \in [Fingerprint -> Matrix]
      /\ warmed \in BOOLEAN /\ job \in BOOLEAN /\ mixed \in BOOLEAN
      /\ warms \in Seq(WarmRecord(Engine))
      /\ links \in 0 .. Len(warms)
      /\ resetAt \in 0 .. Len(warms) /\ switches \in 0 .. MaxSwitches
  BY Types
<1>n. /\ Len(warms) \in Nat /\ Engine \in Nat /\ Engine = Len(engines)
      /\ Engine > 0 /\ Engine \in 1 .. Engine
  BY <1>t DEF Engine, Present
<1>p. Engine' = Len(engines') BY DEF Engine
<1> DEFINE T ==
    /\ env \in Priced
    /\ geomFP \in Fingerprint
    /\ engines \in Seq(EngineRecord)
    /\ disk \in [Fingerprint -> Matrix]
    /\ warmed \in BOOLEAN /\ job \in BOOLEAN /\ mixed \in BOOLEAN
    /\ warms \in Seq(WarmRecord(Engine))
    /\ links \in 0 .. Len(warms)
    /\ resetAt \in 0 .. Len(warms) /\ switches \in 0 .. MaxSwitches
<1>q. T' => TypeOK'
  BY DEF TypeOK, EngineRecord, WarmRecord, Step
<1>1. ASSUME NEW net \in Network, Build(net) PROVE TypeOK' /\ Present'
  <2> DEFINE fp == [net |-> net, env |-> env]
  <2>1. fp \in Fingerprint /\ Rebuilds(net, fp)
    BY <1>1, <1>n, Building
  <2>2. /\ geomFP' = fp /\ warmed' = FALSE /\ resetAt' = Len(warms) /\ links' = 0
        /\ StartWarm(Engine + 1, fp) /\ UNCHANGED <<env, disk, job, switches, mixed>>
    BY <1>1 DEF Build
  <2> HIDE DEF fp
  <2>3. Engine' = Engine + 1
    BY <2>1, <1>n, <1>p DEF Rebuilds
  <2>4. Starts(Engine + 1, Engine + 1, fp)
    BY <2>1, <2>2, <1>n, Starting
  <2>5. warms' \in Seq(WarmRecord(Engine')) /\ Len(warms') = Len(warms) + 1
    BY <2>3, <2>4 DEF Starts
  <2>6. links' \in 0 .. Len(warms') /\ resetAt' \in 0 .. Len(warms')
    BY <2>2, <2>5, <1>t, <1>n
  <2>7. warmed' \in BOOLEAN /\ engines' \in Seq(EngineRecord)
    BY <2>1, <2>2 DEF Rebuilds
  <2>8. T'
    BY <2>1, <2>2, <2>5, <2>6, <2>7, <1>t
  <2> QED
    BY <2>3, <2>8, <1>q, <1>n DEF Present
<1>2. CASE Recompute \/ AllowTerrain
  <2>1. /\ StartWarm(Engine, geomFP) /\ UNCHANGED <<env, geomFP, engines, disk, links, job, switches, mixed>>
        /\ \/ warmed' = FALSE /\ resetAt' = Len(warms)
           \/ UNCHANGED <<warmed, resetAt>>
    BY <1>2 DEF Recompute, AllowTerrain
  <2>2. Starts(Engine, Engine, geomFP)
    BY <2>1, <1>t, <1>n, Starting
  <2>3. Engine' = Engine
    BY <2>1 DEF Engine
  <2>4. warms' \in Seq(WarmRecord(Engine')) /\ Len(warms') = Len(warms) + 1
    BY <2>2, <2>3 DEF Starts
  <2>5. links' \in 0 .. Len(warms') /\ resetAt' \in 0 .. Len(warms')
    BY <2>1, <2>4, <1>t, <1>n
  <2>6. warmed' \in BOOLEAN
    BY <2>1, <1>t
  <2>7. T'
    BY <2>1, <2>3, <2>4, <2>5, <2>6, <1>t
  <2> QED
    BY <2>3, <2>7, <1>q, <1>n DEF Present
<1>3. ASSUME NEW priced \in Priced, Environment(priced) PROVE TypeOK' /\ Present'
  <2> DEFINE r == [engines[Engine] EXCEPT !.env = priced, !.cache = Nothing]
  <2>1. Nothing \in Matrix
    BY DEF Nothing, Matrix
  <2>2. engines[Engine] \in EngineRecord
    BY <1>t, <1>n
  <2>3. r \in EngineRecord
    BY <2>1, <2>2 DEF EngineRecord
  <2>4. engines' = [engines EXCEPT ![Engine] = r]
    BY <1>3 DEF Environment
  <2> HIDE DEF r
  <2>5. engines' \in Seq(EngineRecord) /\ Len(engines') = Len(engines)
    BY <2>3, <2>4, <1>t, <1>n
  <2>6. Engine' = Engine
    BY <2>5 DEF Engine
  <2>7. geomFP' \in Fingerprint
    BY <1>3, <1>t DEF Environment, Fingerprint
  <2>8. /\ env' = priced /\ mixed' \in BOOLEAN /\ switches < MaxSwitches /\ switches' = switches + 1
        /\ UNCHANGED <<disk, warmed, warms, links, resetAt, job>>
    BY <1>3, <1>t DEF Environment
  <2>9. switches' \in 0 .. MaxSwitches
    BY <2>8, <1>t DEF WarmAssumption
  <2>10. T'
    BY <2>5, <2>6, <2>7, <2>8, <2>9, <1>t
  <2> QED
    BY <2>6, <2>10, <1>q, <1>n DEF Present
<1>4. ASSUME NEW p \in Pair, LivePathLoss(p) \/ Evict(p) PROVE TypeOK' /\ Present'
  <2>1. KeepsEngines
    BY <1>4, <1>n, VerbCaching
  <2>2. Engine' = Engine
    BY <2>1 DEF Engine, KeepsEngines
  <2>3. T'
    BY <1>4, <2>1, <2>2, <1>t DEF LivePathLoss, Evict, KeepsEngines
  <2> QED
    BY <2>2, <2>3, <1>q, <1>n DEF Present
<1>5. ASSUME NEW k \in DOMAIN warms, Warm(k) PROVE TypeOK' /\ Present'
  <2>1. WarmStep(k)
    BY <1>5, WarmStepTaken
  <2>2. Engine' = Engine /\ engines' \in Seq(EngineRecord)
    BY <2>1 DEF Engine, WarmStep, KeepsEngines
  <2>3. warms' \in Seq(WarmRecord(Engine')) /\ Len(warms') = Len(warms)
    BY <2>1, <2>2 DEF WarmStep, Advances, Moves
  <2>4. k \in 1 .. Len(warms)
    BY <1>5, <1>t
  <2>5. links' \in 0 .. Len(warms')
    BY <2>1, <2>3, <2>4, <1>t, <1>n DEF WarmStep
  <2>6. T'
    BY <2>1, <2>2, <2>3, <2>5, <1>t DEF WarmStep, Elsewhere
  <2> QED
    BY <2>2, <2>6, <1>q, <1>n DEF Present
<1>6. CASE UNCHANGED warmVars
  <2>1. Engine' = Engine
    BY <1>6 DEF Engine, warmVars
  <2>2. T'
    BY <1>6, <2>1, <1>t DEF warmVars
  <2> QED
    BY <2>1, <2>2, <1>q, <1>n DEF Present
<1> QED
  BY <1>1, <1>2, <1>3, <1>4, <1>5, <1>6 DEF Next

-----------------------------------------------------------------------------
LEMMA MeasuredAtFirst == ASSUME WarmAssumption, Init PROVE MeasuredInv
<1>1. TypeOK /\ Present
  BY TypesAtFirst
<1>2. Len(warms) = 1 /\ warms[1] = FreshWarm(1, geomFP) /\ Engine = 1
  BY DEF Init, Engine
<1>3. resetAt = 0 /\ links = 0 /\ ~warmed
  BY DEF Init
<1>4. warms[1].pc = "begin" /\ warms[1].eng = 1
  BY <1>2 DEF FreshWarm
<1>5. Owned /\ Walked
  BY <1>2, <1>3, <1>4 DEF Owned, Walked, Committed
<1>6. Posted
  BY <1>3 DEF Posted
<1>7. MeasuredIsWalked
  BY <1>3 DEF MeasuredIsWalked
<1> QED
  BY <1>1, <1>5, <1>6, <1>7 DEF MeasuredInv

(* What superseding a warm leaves true of it.                               *)
LEMMA SupersededStays ==
  ASSUME NEW w, NEW v, Superseded(w, v), w.overtaken \in BOOLEAN
  PROVE  /\ v.eng = w.eng /\ v.cancelled
         /\ Walk(w) => Walk(v)
         /\ w.overtaken => v.overtaken
         /\ Committed(v) <=> Committed(w)
         /\ Committed(v) => v.overtaken
         /\ v.pc = w.pc
  BY DEF Superseded, Walk, Committed

LEMMA MeasuredKept ==
  ASSUME WarmAssumption, MeasuredInv, [Next]_warmVars
  PROVE  MeasuredInv'
<1>t. TypeOK' /\ Present'
  BY TypesKept DEF MeasuredInv
<1>n. /\ Len(warms) \in Nat /\ Engine \in Nat /\ Engine \in 1 .. Engine
      /\ links \in 0 .. Len(warms) /\ resetAt \in 0 .. Len(warms)
      /\ geomFP \in Fingerprint
  BY Types DEF MeasuredInv, Engine, Present
<1>w. \A k \in 1 .. Len(warms) : warms[k].overtaken \in BOOLEAN
  <2> TAKE k \in 1 .. Len(warms)
  <2>1. warms[k] \in WarmRecord(Engine)
    BY Types DEF MeasuredInv
  <2> QED
    BY <2>1 DEF WarmRecord
<1>i. Owned /\ Walked /\ Posted /\ MeasuredIsWalked
  BY DEF MeasuredInv
<1>d. DOMAIN warms = 1 .. Len(warms)
  BY Types DEF MeasuredInv
<1>1. ASSUME NEW net \in Network, Build(net) PROVE MeasuredInv'
  <2> DEFINE fp == [net |-> net, env |-> env]
  <2>1. fp \in Fingerprint /\ Rebuilds(net, fp)
    BY <1>1, Building DEF MeasuredInv, Present
  <2>2. ~warmed' /\ resetAt' = Len(warms) /\ links' = 0 /\ StartWarm(Engine + 1, fp)
    BY <1>1 DEF Build
  <2> HIDE DEF fp
  <2>3. Engine' = Engine + 1
    BY <2>1, <1>n DEF Rebuilds, Engine
  <2>4. Starts(Engine + 1, Engine + 1, fp)
    BY <2>1, <2>2, <1>n, Starting DEF MeasuredInv
  <2>5. warms'[Len(warms) + 1].eng = Engine + 1 /\ warms'[Len(warms) + 1].pc = "begin"
    BY <2>4 DEF Starts, FreshWarm
  <2>6. /\ Len(warms') = Len(warms) + 1
        /\ \A k \in 1 .. Len(warms) : Superseded(warms[k], warms'[k])
    BY <2>4 DEF Starts
  <2>7. Owned'
    <3> SUFFICES ASSUME NEW k \in 1 .. Len(warms')
                 PROVE  IF k > resetAt' THEN warms'[k].eng = Engine'
                        ELSE warms'[k].cancelled /\ (Committed(warms'[k]) => warms'[k].overtaken)
      BY DEF Owned, Committed
    <3>1. CASE k = Len(warms) + 1
      BY <3>1, <2>2, <2>3, <2>5, <1>n
    <3>2. CASE k \in 1 .. Len(warms)
      <4>1. warms'[k].cancelled /\ (Committed(warms'[k]) => warms'[k].overtaken)
        BY <3>2, <2>6, <1>w, SupersededStays
      <4> QED
        BY <3>2, <4>1, <2>2, <1>n
    <3> QED
      BY <3>1, <3>2, <2>6, <1>n
  <2>8. Walked'
    <3> SUFFICES ASSUME NEW k \in 1 .. Len(warms'), warms'[k].pc = "check" \/ Committed(warms'[k])
                 PROVE  Walk(warms'[k])
      BY DEF Walked, Committed, Walk
    <3>1. k # Len(warms) + 1
      BY <2>5 DEF Committed
    <3>2. k \in 1 .. Len(warms)
      BY <3>1, <2>6, <1>n
    <3> QED
      BY <3>2, <2>6, <1>w, <1>i, SupersededStays DEF Walked
  <2> QED
    BY <1>t, <2>2, <2>7, <2>8 DEF MeasuredInv, Posted, MeasuredIsWalked
<1>2. CASE Recompute \/ AllowTerrain
  <2>1. /\ StartWarm(Engine, geomFP) /\ UNCHANGED <<engines, links>>
        /\ \/ ~warmed' /\ resetAt' = Len(warms)
           \/ UNCHANGED <<warmed, resetAt>>
    BY <1>2 DEF Recompute, AllowTerrain
  <2>3. Engine' = Engine
    BY <2>1 DEF Engine
  <2>4. Starts(Engine, Engine, geomFP)
    BY <2>1, <1>n, Starting DEF MeasuredInv
  <2>5. warms'[Len(warms) + 1].eng = Engine /\ warms'[Len(warms) + 1].pc = "begin"
    BY <2>4 DEF Starts, FreshWarm
  <2>6. /\ Len(warms') = Len(warms) + 1
        /\ \A k \in 1 .. Len(warms) : Superseded(warms[k], warms'[k])
    BY <2>4 DEF Starts
  <2>7. Owned'
    <3> SUFFICES ASSUME NEW k \in 1 .. Len(warms')
                 PROVE  IF k > resetAt' THEN warms'[k].eng = Engine'
                        ELSE warms'[k].cancelled /\ (Committed(warms'[k]) => warms'[k].overtaken)
      BY DEF Owned, Committed
    <3>1. CASE k = Len(warms) + 1
      BY <3>1, <2>1, <2>3, <2>5, <1>n
    <3>2. CASE k \in 1 .. Len(warms)
      <4>1. /\ warms'[k].cancelled /\ (Committed(warms'[k]) => warms'[k].overtaken)
            /\ warms'[k].eng = warms[k].eng
        BY <3>2, <2>6, <1>w, SupersededStays
      <4>2. k > resetAt' => k > resetAt
        BY <3>2, <2>1, <1>n
      <4> QED
        BY <3>2, <4>1, <4>2, <2>3, <1>i DEF Owned
    <3> QED
      BY <3>1, <3>2, <2>6, <1>n
  <2>8. Walked'
    <3> SUFFICES ASSUME NEW k \in 1 .. Len(warms'), warms'[k].pc = "check" \/ Committed(warms'[k])
                 PROVE  Walk(warms'[k])
      BY DEF Walked, Committed, Walk
    <3>1. k # Len(warms) + 1
      BY <2>5 DEF Committed
    <3>2. k \in 1 .. Len(warms)
      BY <3>1, <2>6, <1>n
    <3> QED
      BY <3>2, <2>6, <1>w, <1>i, SupersededStays DEF Walked
  <2>9. Posted'
    <3> SUFFICES ASSUME links # 0 PROVE warms'[links].eng = Engine \/ warms'[links].overtaken
      BY <2>1, <2>3 DEF Posted
    <3>1. links \in 1 .. Len(warms)
      BY <1>n
    <3> QED
      BY <3>1, <2>6, <1>w, <1>i, SupersededStays DEF Posted
  <2>10. MeasuredIsWalked'
    <3> SUFFICES ASSUME warmed'
                 PROVE  \/ \E k \in resetAt' + 1 .. Len(warms') : warms'[k].eng = Engine' /\ Walk(warms'[k])
                        \/ \E k \in 1 .. resetAt' : warms'[k].overtaken
      BY DEF MeasuredIsWalked, Walk
    <3>1. warmed /\ resetAt' = resetAt
      BY <2>1
    <3>2. \/ \E k \in resetAt + 1 .. Len(warms) : warms[k].eng = Engine /\ Walk(warms[k])
          \/ \E k \in 1 .. resetAt : warms[k].overtaken
      BY <3>1, <1>i DEF MeasuredIsWalked, Walk
    <3>3. ASSUME NEW k \in resetAt + 1 .. Len(warms), warms[k].eng = Engine, Walk(warms[k])
          PROVE  \E j \in resetAt' + 1 .. Len(warms') : warms'[j].eng = Engine' /\ Walk(warms'[j])
      <4>1. k \in 1 .. Len(warms) /\ k \in resetAt' + 1 .. Len(warms')
        BY <1>n, <2>6, <3>1
      <4>2. warms'[k].eng = Engine' /\ Walk(warms'[k])
        BY <3>3, <4>1, <2>3, <2>6, <1>w, SupersededStays
      <4> QED
        BY <4>1, <4>2
    <3>4. ASSUME NEW k \in 1 .. resetAt, warms[k].overtaken
          PROVE  \E j \in 1 .. resetAt' : warms'[j].overtaken
      <4>1. k \in 1 .. Len(warms)
        BY <1>n
      <4> QED
        BY <3>1, <3>4, <4>1, <2>6, <1>w, SupersededStays
    <3> QED
      BY <3>2, <3>3, <3>4
  <2> QED
    BY <1>t, <2>7, <2>8, <2>9, <2>10 DEF MeasuredInv
<1>3. ASSUME UNCHANGED <<warms, links, warmed, resetAt>>, Engine' = Engine PROVE MeasuredInv'
  BY <1>3, <1>t, <1>i DEF MeasuredInv, Owned, Walked, Posted, MeasuredIsWalked, Committed, Walk
<1>4. ASSUME NEW priced \in Priced, Environment(priced) PROVE MeasuredInv'
  <2>1. Len(engines') = Len(engines)
    BY <1>4, Types DEF Environment, MeasuredInv
  <2>2. UNCHANGED <<warms, links, warmed, resetAt>>
    BY <1>4 DEF Environment
  <2> QED
    BY <2>1, <2>2, <1>3 DEF Engine
<1>5. ASSUME NEW p \in Pair, LivePathLoss(p) \/ Evict(p) PROVE MeasuredInv'
  <2>1. KeepsEngines
    BY <1>5, VerbCaching DEF MeasuredInv, Present
  <2>2. UNCHANGED <<warms, links, warmed, resetAt>>
    BY <1>5 DEF LivePathLoss, Evict
  <2> QED
    BY <2>1, <2>2, <1>3 DEF Engine, KeepsEngines
<1>6. ASSUME NEW k \in DOMAIN warms, Warm(k) PROVE MeasuredInv'
  <2>1. WarmStep(k) /\ k \in 1 .. Len(warms)
    BY <1>6, <1>d, WarmStepTaken DEF MeasuredInv
  <2>2. Engine' = Engine /\ resetAt' = resetAt
    BY <2>1 DEF WarmStep, KeepsEngines, Engine, Elsewhere
  <2>3. /\ Len(warms') = Len(warms)
        /\ \A j \in 1 .. Len(warms) : j # k => warms'[j] = warms[j]
        /\ warms'[k].eng = warms[k].eng /\ warms'[k].cancelled = warms[k].cancelled
        /\ warms'[k].overtaken = warms[k].overtaken
        /\ Walk(warms[k]) => Walk(warms'[k])
        /\ warms'[k].pc = "check" => Walk(warms'[k])
        /\ Committed(warms'[k]) =>
             Committed(warms[k]) \/ (warms[k].pc = "check" /\ ~warms[k].cancelled)
    BY <2>1 DEF WarmStep, Advances, Moves, Walk
  <2>4. \A j \in 1 .. Len(warms) :
          /\ warms'[j].eng = warms[j].eng /\ warms'[j].overtaken = warms[j].overtaken
          /\ Walk(warms[j]) => Walk(warms'[j])
    BY <2>3
  <2>5. Owned'
    <3> SUFFICES ASSUME NEW j \in 1 .. Len(warms)
                 PROVE  IF j > resetAt THEN warms'[j].eng = Engine
                        ELSE warms'[j].cancelled /\ (Committed(warms'[j]) => warms'[j].overtaken)
      BY <2>2, <2>3 DEF Owned, Committed
    <3>1. CASE j # k
      BY <3>1, <2>3, <1>i DEF Owned
    <3>2. CASE j = k
      BY <3>2, <2>3, <1>i DEF Owned
    <3> QED
      BY <3>1, <3>2
  <2>6. Walked'
    <3> SUFFICES ASSUME NEW j \in 1 .. Len(warms), warms'[j].pc = "check" \/ Committed(warms'[j])
                 PROVE  Walk(warms'[j])
      BY <2>3 DEF Walked, Committed, Walk
    <3>1. CASE j # k
      BY <3>1, <2>3, <1>i DEF Walked
    <3>2. CASE j = k
      BY <3>2, <2>3, <1>i DEF Walked
    <3> QED
      BY <3>1, <3>2
  <2>7. Posted'
    <3> SUFFICES ASSUME links' # 0 PROVE warms'[links'].eng = Engine \/ warms'[links'].overtaken
      BY <2>2 DEF Posted
    <3>1. CASE links' = links
      <4>1. links \in 1 .. Len(warms)
        BY <3>1, <1>n
      <4> QED
        BY <3>1, <4>1, <2>4, <1>i DEF Posted
    <3>2. CASE links' # links
      <4>1. links' = k /\ Committed(warms[k])
        BY <3>2, <2>1 DEF WarmStep
      <4> QED
        BY <4>1, <2>1, <2>4, <1>i, <1>n DEF Owned
    <3> QED
      BY <3>1, <3>2
  <2>8. MeasuredIsWalked'
    <3> SUFFICES ASSUME warmed'
                 PROVE  \/ \E j \in resetAt + 1 .. Len(warms) : warms'[j].eng = Engine /\ Walk(warms'[j])
                        \/ \E j \in 1 .. resetAt : warms'[j].overtaken
      BY <2>2, <2>3 DEF MeasuredIsWalked, Walk
    <3>1. CASE warmed
      <4>1. \/ \E j \in resetAt + 1 .. Len(warms) : warms[j].eng = Engine /\ Walk(warms[j])
            \/ \E j \in 1 .. resetAt : warms[j].overtaken
        BY <3>1, <1>i DEF MeasuredIsWalked, Walk
      <4>2. \A j \in resetAt + 1 .. Len(warms) : j \in 1 .. Len(warms)
        BY <1>n
      <4>3. \A j \in 1 .. resetAt : j \in 1 .. Len(warms)
        BY <1>n
      <4> QED
        BY <4>1, <4>2, <4>3, <2>4
    <3>2. CASE ~warmed
      <4>1. warms[k].pc = "claim"
        BY <3>2, <2>1 DEF WarmStep
      <4>2. Committed(warms[k]) /\ Walk(warms[k])
        BY <4>1, <2>1, <1>i DEF Walked, Committed
      <4>3. CASE k > resetAt
        <5>1. k \in resetAt + 1 .. Len(warms)
          BY <4>3, <2>1, <1>n
        <5> QED
          BY <5>1, <4>2, <4>3, <2>1, <2>4, <1>i DEF Owned
      <4>4. CASE ~(k > resetAt)
        <5>1. k \in 1 .. resetAt
          BY <4>4, <2>1, <1>n
        <5> QED
          BY <5>1, <4>2, <4>4, <2>1, <2>4, <1>i DEF Owned
      <4> QED
        BY <4>3, <4>4
    <3> QED
      BY <3>1, <3>2
  <2> QED
    BY <1>t, <2>5, <2>6, <2>7, <2>8 DEF MeasuredInv
<1>7. CASE UNCHANGED warmVars
  BY <1>7, <1>3 DEF warmVars, Engine
<1> QED
  BY <1>1, <1>2, <1>4, <1>5, <1>6, <1>7 DEF Next

(* Every variable of Warm keeps its type. *)
THEOREM TypeCorrect == ASSUME WarmAssumption PROVE Spec => []TypeOK
<1>1. Init => MeasuredInv
  BY MeasuredAtFirst
<1>2. MeasuredInv /\ [Next]_warmVars => MeasuredInv'
  BY MeasuredKept
<1>3. MeasuredInv => TypeOK
  BY DEF MeasuredInv
<1> QED
  BY <1>1, <1>2, <1>3, PTL DEF Spec

(* The matrix is said to be measured (s.warmed) only when a warm begun      *)
(* since that was last taken back walked every pair of the engine there is, *)
(* or one superseded after its last look said so.                           *)
THEOREM MeasuredMeansWalked == ASSUME WarmAssumption PROVE Spec => []MeasuredIsWalked
<1>1. Init => MeasuredInv
  BY MeasuredAtFirst
<1>2. MeasuredInv /\ [Next]_warmVars => MeasuredInv'
  BY MeasuredKept
<1>3. MeasuredInv => MeasuredIsWalked
  BY DEF MeasuredInv
<1> QED
  BY <1>1, <1>2, <1>3, PTL DEF Spec

(* The links a warm posts (links.set) stay on the map only as long as they  *)
(* are of the network that is open, but for a warm so superseded.           *)
THEOREM LinksShownAreOurs == ASSUME WarmAssumption PROVE Spec => []LinksAreThisNetworks
<1>1. Init => MeasuredInv
  BY MeasuredAtFirst
<1>2. MeasuredInv /\ [Next]_warmVars => MeasuredInv'
  BY MeasuredKept
<1>3. MeasuredInv => LinksAreThisNetworks
  BY DEF MeasuredInv, Posted, LinksAreThisNetworks
<1> QED
  BY <1>1, <1>2, <1>3, PTL DEF Spec
-----------------------------------------------------------------------------
LEMMA PricedAtFirst == ASSUME WarmAssumption, Init PROVE PricedInv
<1>1. TypeOK /\ Present
  BY TypesAtFirst
<1>2. /\ Engine = 1 /\ engines[1] = [net |-> geomFP.net, env |-> env, cache |-> Nothing]
      /\ Len(warms) = 1 /\ warms[1] = FreshWarm(1, geomFP)
  BY DEF Init, Engine
<1>3. engines[1].env = env /\ Cache(1) = Nothing /\ geomFP.env = env
  BY <1>2 DEF Init, Cache
<1>4. KeyedCaches
  BY <1>2, <1>3 DEF KeyedCaches, Nothing
<1>5. KeyedWarm(warms[1])
  <2>1. /\ warms[1].fp = geomFP /\ warms[1].eng = 1 /\ warms[1].primes = "none"
        /\ warms[1].walk = [p \in Pair |-> "todo"]
    BY <1>2 DEF FreshWarm
  <2> QED
    BY <2>1, <1>3 DEF KeyedWarm
<1>6. KeyedDisk
  BY DEF Init, KeyedDisk, Nothing
<1> QED
  BY <1>1, <1>2, <1>3, <1>4, <1>5, <1>6 DEF PricedInv, Keyed

(* A cache stays keyed as long as what is stored in it was priced by its    *)
(* engine.                                                                  *)
LEMMA CachingKeyed ==
  ASSUME TypeOK, KeyedCaches, NEW e \in 1 .. Engine, NEW c \in Matrix,
         \A p \in Pair : c[p] \in {"none", engines[e].env},
         engines' = [engines EXCEPT ![e] = [engines[e] EXCEPT !.cache = c]]
  PROVE  KeyedCaches'
<1>1. /\ KeepsEngines /\ engines'[e].cache = c
      /\ \A d \in 1 .. Engine : d # e => engines'[d] = engines[d]
  BY Caching
<1>2. Engine' = Engine
  BY <1>1 DEF KeepsEngines, Engine
<1>3. \A d \in 1 .. Engine : engines'[d].env = engines[d].env
  BY <1>1 DEF KeepsEngines, Engine
<1>4. ASSUME NEW d \in 1 .. Engine, NEW p \in Pair
      PROVE  engines'[d].cache[p] \in {"none", engines'[d].env}
  BY <1>1, <1>3, <1>4 DEF KeyedCaches, Cache
<1> QED
  BY <1>2, <1>4 DEF KeyedCaches, Cache

(* What a warm has begun and what it saves are as its engine prices.        *)
LEMMA WarmStepKeyed ==
  ASSUME PricedInv, ~mixed, NEW k \in DOMAIN warms, Warm(k)
  PROVE  KeyedCaches' /\ KeyedWarm(warms[k])' /\ KeyedDisk'
<1>t. TypeOK /\ KeyedCaches /\ KeyedDisk
  BY DEF PricedInv, Keyed
<1>s. WarmStep(k)
  BY <1>t, WarmStepTaken
<1>w. k \in 1 .. Len(warms) /\ warms[k] \in WarmRecord(Engine)
  BY <1>t, WarmTypes
<1>k. KeyedWarm(warms[k])
  <2>1. Live(warms[k])
    BY <1>s DEF WarmStep, Advances
  <2> QED
    BY <2>1, <1>w DEF PricedInv, Keyed
<1> DEFINE e == warms[k].eng
           priced == engines[e].env
<1>e. /\ e \in 1 .. Engine /\ warms[k].fp \in Fingerprint
      /\ warms[k].walk \in [Pair -> {"todo", "done"} \cup Priced]
  BY <1>w DEF WarmRecord
<1>c. /\ Cache(e) \in Matrix /\ priced \in Priced
      /\ \A p \in Pair : Cache(e)[p] \in {"none", priced}
  BY <1>e, <1>t, StoreTypes DEF KeyedCaches
<1>m. /\ warms'[k].eng = e /\ warms'[k].fp = warms[k].fp /\ engines'[e].env = priced
  BY <1>s, <1>e DEF WarmStep, Advances, Moves, KeepsEngines, Engine
<1>p. priced \notin {"none", "todo", "done"}
  BY <1>c DEF Priced
<1>g. ASSUME warms'[k].primes \in {"none", priced},
             \A p \in Pair : warms'[k].walk[p] \in {"todo", "done", priced}
      PROVE  KeyedWarm(warms[k])'
  BY <1>g, <1>m, <1>k DEF KeyedWarm
<1>h. ASSUME UNCHANGED engines PROVE KeyedCaches'
  BY <1>h, <1>t DEF KeyedCaches, Cache, Engine
<1>d. ASSUME UNCHANGED disk PROVE KeyedDisk'
  BY <1>d, <1>t DEF KeyedDisk
<1>i. ASSUME NEW v \in WarmRecord(Engine), warms' = [warms EXCEPT ![k] = v]
      PROVE  warms'[k] = v
  <2>1. warms \in Seq(WarmRecord(Engine))
    BY <1>t, Types
  <2> QED
    BY <1>i, <2>1, <1>w
<1>j. ASSUME NEW pc \in Step, Goes(k, pc) PROVE KeyedWarm(warms[k])'
  <2>1. warms'[k].walk = warms[k].walk /\ warms'[k].primes = warms[k].primes
    BY <1>j, <1>t, Going
  <2> QED
    BY <2>1, <1>g, <1>k DEF KeyedWarm
<1>1. CASE Begin(k) \/ Check(k) \/ Claim(k) \/ PostLinks(k)
  <2>1. \E pc \in Step : Goes(k, pc)
    BY <1>1 DEF Begin, Check, Claim, PostLinks, Step
  <2>2. UNCHANGED <<engines, disk>>
    BY <1>1 DEF Begin, Check, Claim, PostLinks
  <2> QED
    BY <2>1, <2>2, <1>d, <1>h, <1>j
<1>2. CASE WarmOnGPU(k)
  <2> DEFINE v == [warms[k] EXCEPT !.primes = priced, !.pc = "prime"]
  <2>1. v \in WarmRecord(Engine) /\ v.primes = priced /\ v.walk = warms[k].walk
    BY <1>w, <1>c DEF WarmRecord, Step
  <2>2. warms' = [warms EXCEPT ![k] = v] /\ UNCHANGED <<engines, disk>>
    BY <1>2 DEF WarmOnGPU
  <2> HIDE DEF v
  <2>3. warms'[k] = v
    BY <2>1, <2>2, <1>i
  <2> QED
    BY <2>1, <2>2, <2>3, <1>d, <1>h, <1>g, <1>k DEF KeyedWarm
<1>3. CASE PrimeLinks(k)
  <2> DEFINE v == [warms[k] EXCEPT !.primes = "none", !.pc = "cores"]
  <2>1. v \in WarmRecord(Engine) /\ v.primes = "none" /\ v.walk = warms[k].walk
    BY <1>w DEF WarmRecord, Step
  <2>2. warms' = [warms EXCEPT ![k] = v] /\ UNCHANGED disk /\ warms[k].pc = "prime"
    BY <1>3 DEF PrimeLinks
  <2> HIDE DEF v
  <2>3. warms'[k] = v
    BY <2>1, <2>2, <1>i
  <2>4. PICK S \in SUBSET Pair :
          engines' = [engines EXCEPT ![e].cache = [p \in Pair |-> IF p \in S THEN warms[k].primes ELSE @[p]]]
    BY <1>3 DEF PrimeLinks
  <2> DEFINE c == [p \in Pair |-> IF p \in S THEN warms[k].primes ELSE Cache(e)[p]]
  <2>5. warms[k].primes \in {"none", priced}
    BY <1>k DEF KeyedWarm
  <2>6. \A p \in Pair : c[p] \in {"none", priced}
    BY <2>5, <1>c
  <2>7. c \in Matrix
    BY <2>5, <1>c DEF Matrix
  <2>8. engines' = [engines EXCEPT ![e] = [engines[e] EXCEPT !.cache = c]]
    BY <2>4 DEF Cache
  <2> HIDE DEF c
  <2>9. KeyedCaches'
    BY <2>6, <2>7, <2>8, <1>e, <1>t, CachingKeyed
  <2> QED
    BY <2>1, <2>2, <2>3, <2>9, <1>d, <1>g, <1>k DEF KeyedWarm
<1>4. ASSUME NEW p \in Pair, PathLoss(k, p) PROVE KeyedCaches' /\ KeyedWarm(warms[k])' /\ KeyedDisk'
  <2> DEFINE x == IF Cache(e)[p] = "none" THEN priced ELSE "done"
             v == [warms[k] EXCEPT !.walk = [warms[k].walk EXCEPT ![p] = x]]
  <2>1. x \in {"done", priced} /\ x \in {"todo", "done"} \cup Priced
    BY <1>c
  <2>2. warms' = [warms EXCEPT ![k] = v] /\ UNCHANGED <<engines, disk>>
    BY <1>4 DEF PathLoss
  <2> HIDE DEF x
  <2>3. /\ v \in WarmRecord(Engine) /\ v.primes = warms[k].primes
        /\ v.walk = [warms[k].walk EXCEPT ![p] = x]
    BY <1>w, <1>e, <2>1 DEF WarmRecord
  <2> HIDE DEF v
  <2>4. warms'[k] = v
    BY <2>2, <2>3, <1>i
  <2>5. \A q \in Pair : v.walk[q] \in {"todo", "done", priced}
    BY <2>1, <2>3, <1>e, <1>k DEF KeyedWarm
  <2> QED
    BY <2>2, <2>3, <2>4, <2>5, <1>d, <1>h, <1>g, <1>k DEF KeyedWarm
<1>5. ASSUME NEW p \in Pair, StoreLoss(k, p) PROVE KeyedCaches' /\ KeyedWarm(warms[k])' /\ KeyedDisk'
  <2> DEFINE v == [warms[k] EXCEPT !.walk = [warms[k].walk EXCEPT ![p] = "done"]]
             c == [Cache(e) EXCEPT ![p] = warms[k].walk[p]]
  <2>1. warms[k].walk[p] \in Priced
    BY <1>5 DEF StoreLoss
  <2>2. warms[k].walk[p] = priced
    BY <2>1, <1>k DEF KeyedWarm, Priced
  <2>3. warms' = [warms EXCEPT ![k] = v] /\ UNCHANGED disk
    BY <1>5 DEF StoreLoss
  <2>4. engines' = [engines EXCEPT ![e] = [engines[e] EXCEPT !.cache = c]]
    BY <1>5 DEF StoreLoss, Cache
  <2>5. /\ v \in WarmRecord(Engine) /\ v.primes = warms[k].primes
        /\ v.walk = [warms[k].walk EXCEPT ![p] = "done"]
    BY <1>w, <1>e DEF WarmRecord
  <2>6. c \in Matrix /\ \A q \in Pair : c[q] \in {"none", priced}
    BY <2>1, <2>2, <1>c DEF Matrix
  <2> HIDE DEF v, c
  <2>7. warms'[k] = v
    BY <2>3, <2>5, <1>i
  <2>8. \A q \in Pair : v.walk[q] \in {"todo", "done", priced}
    BY <2>5, <1>e, <1>k DEF KeyedWarm
  <2>9. KeyedCaches'
    BY <2>4, <2>6, <1>e, <1>t, CachingKeyed
  <2> QED
    BY <2>3, <2>5, <2>7, <2>8, <2>9, <1>d, <1>g, <1>k DEF KeyedWarm
<1>6. CASE WarmLinksReturns(k)
  <2>1. \E pc \in Step : Goes(k, pc)
    BY <1>6 DEF WarmLinksReturns, Step
  <2>2. UNCHANGED disk
    BY <1>6 DEF WarmLinksReturns
  <2>3. KeyedCaches'
    <3>1. CASE warms[k].cancelled
      BY <1>6, <3>1, <1>h DEF WarmLinksReturns
    <3>2. CASE ~warms[k].cancelled
      <4> DEFINE c == [p \in Pair |-> IF Cache(e)[p] = "none" THEN priced ELSE Cache(e)[p]]
      <4>1. engines' = [engines EXCEPT ![e] = [engines[e] EXCEPT !.cache = c]]
        BY <1>6, <3>2 DEF WarmLinksReturns, Cache
      <4>2. c \in Matrix /\ \A p \in Pair : c[p] \in {"none", priced}
        BY <1>c DEF Matrix
      <4> HIDE DEF c
      <4> QED
        BY <4>1, <4>2, <1>e, <1>t, CachingKeyed
    <3> QED
      BY <3>1, <3>2
  <2> QED
    BY <2>1, <2>2, <2>3, <1>d, <1>j
<1>7. CASE SaveMatrix(k)
  <2>1. Goes(k, "post") /\ UNCHANGED engines
    BY <1>7 DEF SaveMatrix
  <2>2. disk' = disk \/ disk' = [disk EXCEPT ![warms[k].fp] = Cache(e)]
    BY <1>7 DEF SaveMatrix
  <2>3. disk \in [Fingerprint -> Matrix] /\ warms[k].fp.env = priced
    BY <1>t, <1>k, Types DEF KeyedWarm
  <2>4. ASSUME NEW fp \in Fingerprint, NEW p \in Pair PROVE disk'[fp][p] \in {"none", fp.env}
    <3>1. disk[fp][p] \in {"none", fp.env}
      BY <1>t DEF KeyedDisk
    <3>2. disk'[fp] = disk[fp] \/ (fp = warms[k].fp /\ disk'[fp] = Cache(e))
      BY <2>2, <2>3, <1>e
    <3> QED
      BY <3>1, <3>2, <2>3, <1>c
  <2>5. KeyedDisk'
    BY <2>4 DEF KeyedDisk
  <2> QED
    BY <2>1, <2>5, <1>h, <1>j DEF Step
<1>8. CASE Finish(k) \/ AbandonJob(k)
  <2>1. Goes(k, "done") /\ engines' = Held(engines, warms') /\ UNCHANGED disk
    BY <1>8 DEF Finish, AbandonJob
  <2>2. engines \in Seq(EngineRecord)
    BY <1>t, Types
  <2>3. /\ Len(engines') = Len(engines)
        /\ \A d \in 1 .. Len(engines) :
             engines'[d].env = engines[d].env /\ engines'[d].cache \in {engines[d].cache, Nothing}
    BY <2>1, <2>2, Holding
  <2>4. KeyedCaches'
    BY <2>3, <1>t DEF KeyedCaches, Cache, Engine, Nothing
  <2> QED
    BY <2>1, <2>4, <1>d, <1>j DEF Step
<1> QED
  BY <1>1, <1>2, <1>3, <1>4, <1>5, <1>6, <1>7, <1>8 DEF Warm

(* A superseded warm, and a new one, are keyed as before or as they are     *)
(* begun.                                                                   *)
LEMMA StartingKeyed ==
  ASSUME TypeOK, NEW n \in Nat, NEW e \in 1 .. n, NEW fp \in Fingerprint, Starts(n, e, fp),
         \A k \in 1 .. Len(warms) : Live(warms[k]) => KeyedWarm(warms[k]),
         \A d \in 1 .. Engine : engines'[d].env = engines[d].env,
         engines'[e].env = fp.env
  PROVE  \A k \in 1 .. Len(warms') : Live(warms'[k]) => KeyedWarm(warms[k])'
<1>1. Len(warms) \in Nat /\ Len(warms') = Len(warms) + 1
  BY Types DEF Starts
<1>2. ASSUME NEW k \in 1 .. Len(warms), Live(warms'[k]) PROVE KeyedWarm(warms[k])'
  <2>1. Superseded(warms[k], warms'[k])
    BY <1>2 DEF Starts
  <2>2. KeyedWarm(warms[k])
    BY <1>2, <2>1 DEF Superseded, Live
  <2>3. warms[k].eng \in 1 .. Engine
    <3>1. warms[k] \in WarmRecord(Engine)
      BY Types
    <3> QED
      BY <3>1 DEF WarmRecord
  <2> QED
    BY <2>1, <2>2, <2>3 DEF Superseded, KeyedWarm
<1>3. KeyedWarm(warms[Len(warms)])'
  <2>1. /\ warms'[Len(warms')].eng = e /\ warms'[Len(warms')].fp = fp
        /\ warms'[Len(warms')].primes = "none"
        /\ warms'[Len(warms')].walk = [p \in Pair |-> "todo"]
    BY <1>1 DEF Starts, FreshWarm
  <2> QED
    BY <2>1 DEF KeyedWarm
<1> QED
  BY <1>1, <1>2, <1>3

LEMMA PricedKept ==
  ASSUME WarmAssumption, PricedInv, [Next]_warmVars
  PROVE  PricedInv'
<1>t. /\ TypeOK /\ Present /\ TypeOK' /\ Present'
  BY TypesKept DEF PricedInv
<1>n. /\ Engine \in Nat /\ Engine \in 1 .. Engine /\ geomFP \in Fingerprint
      /\ engines \in Seq(EngineRecord) /\ warms \in Seq(WarmRecord(Engine))
      /\ Len(warms) \in Nat /\ DOMAIN warms = 1 .. Len(warms)
  BY <1>t, Types DEF Engine, Present
<1>m. mixed' \in BOOLEAN /\ mixed \in BOOLEAN
  BY <1>t, Types DEF TypeOK
<1>s. \/ \E net \in Network : Build(net)
      \/ Recompute \/ AllowTerrain
      \/ \E priced \in Priced : Environment(priced)
      \/ \E p \in Pair : LivePathLoss(p) \/ Evict(p)
      \/ \E k \in DOMAIN warms : Warm(k)
      \/ UNCHANGED warmVars
  BY DEF Next
<1>z. CASE mixed'
  BY <1>z, <1>t DEF PricedInv, Keyed
<1>a. CASE ~mixed'
  <2> DEFINE KeyedWarms == \A k \in 1 .. Len(warms) : Live(warms[k]) => KeyedWarm(warms[k])
  <2>q. (geomFP.env = engines[Engine].env /\ KeyedCaches /\ KeyedWarms /\ KeyedDisk)' => PricedInv'
    BY <1>t DEF PricedInv, Keyed
  <2>m. ~mixed
    <3>1. CASE \E priced \in Priced : Environment(priced)
      BY <3>1, <1>a DEF Environment
    <3>2. CASE \E k \in DOMAIN warms : Warm(k)
      BY <3>2, <1>a, <1>t, WarmStepTaken DEF WarmStep, Elsewhere
    <3>3. CASE (\E net \in Network : Build(net)) \/ Recompute \/ AllowTerrain
      BY <3>3, <1>a DEF Build, Recompute, AllowTerrain
    <3>4. CASE \E p \in Pair : LivePathLoss(p) \/ Evict(p)
      BY <3>4, <1>a DEF LivePathLoss, Evict
    <3>5. CASE UNCHANGED warmVars
      BY <3>5, <1>a DEF warmVars
    <3> QED
      BY <1>s, <3>1, <3>2, <3>3, <3>4, <3>5
  <2>k. geomFP.env = engines[Engine].env /\ KeyedCaches /\ KeyedWarms /\ KeyedDisk
    BY <2>m DEF PricedInv, Keyed
  <2>1. ASSUME NEW net \in Network, Build(net) PROVE PricedInv'
    <3> DEFINE fp == [net |-> net, env |-> env]
    <3>1. fp \in Fingerprint /\ Rebuilds(net, fp)
      BY <2>1, <1>t, Building DEF Present
    <3>2. geomFP' = fp /\ UNCHANGED disk /\ StartWarm(Engine + 1, fp) /\ fp.env = env
      BY <2>1 DEF Build
    <3> HIDE DEF fp
    <3>3. /\ Engine' = Engine + 1
          /\ \A e \in 1 .. Engine :
               /\ engines'[e].env = engines[e].env
               /\ engines'[e].cache \in {engines[e].cache, Nothing}
          /\ engines'[Engine + 1].env = env /\ engines'[Engine + 1].cache = Carried(fp)
      BY <3>1 DEF Rebuilds, Engine
    <3>4. Starts(Engine + 1, Engine + 1, fp)
      BY <3>1, <3>2, <1>n, <1>t, Starting
    <3>5. KeyedWarms'
      <4>1. Engine + 1 \in Nat /\ Engine + 1 \in 1 .. Engine + 1
        BY <1>n
      <4>2. \A e \in 1 .. Engine : engines'[e].env = engines[e].env
        BY <3>3
      <4>3. engines'[Engine + 1].env = fp.env
        BY <3>2, <3>3
      <4> QED
        BY <3>1, <3>4, <4>1, <4>2, <4>3, <2>k, <1>t, StartingKeyed
    <3>6. \A p \in Pair : Carried(fp)[p] \in {"none", env}
      <4>1. CASE fp = geomFP
        BY <4>1, <3>2, <2>k, <1>n DEF Carried, KeyedCaches
      <4>2. CASE fp # geomFP
        BY <4>2, <3>1, <3>2, <2>k DEF Carried, KeyedDisk
      <4> QED
        BY <4>1, <4>2
    <3>7. ASSUME NEW e \in 1 .. Engine + 1, NEW p \in Pair
          PROVE  engines'[e].cache[p] \in {"none", engines'[e].env}
      <4>1. CASE e \in 1 .. Engine
        BY <4>1, <3>3, <2>k DEF KeyedCaches, Cache, Nothing
      <4>2. CASE e = Engine + 1
        BY <4>2, <3>3, <3>6
      <4> QED
        BY <4>1, <4>2, <1>n
    <3>8. KeyedCaches'
      BY <3>3, <3>7 DEF KeyedCaches, Cache
    <3>9. KeyedDisk' /\ (geomFP.env = engines[Engine].env)'
      BY <3>2, <3>3, <2>k DEF KeyedDisk
    <3> QED
      BY <3>5, <3>8, <3>9, <2>q
  <2>2. CASE Recompute \/ AllowTerrain
    <3>1. StartWarm(Engine, geomFP) /\ UNCHANGED <<geomFP, engines, disk>>
      BY <2>2 DEF Recompute, AllowTerrain
    <3>2. Starts(Engine, Engine, geomFP)
      BY <3>1, <1>n, <1>t, Starting
    <3>3. KeyedWarms'
      <4>1. \A e \in 1 .. Engine : engines'[e].env = engines[e].env
        BY <3>1
      <4>2. engines'[Engine].env = geomFP.env
        BY <3>1, <2>k
      <4> QED
        BY <3>2, <4>1, <4>2, <2>k, <1>n, <1>t, StartingKeyed
    <3>4. KeyedCaches' /\ KeyedDisk' /\ (geomFP.env = engines[Engine].env)'
      BY <3>1, <2>k DEF KeyedCaches, KeyedDisk, Cache, Engine
    <3> QED
      BY <3>3, <3>4, <2>q
  <2>3. ASSUME NEW priced \in Priced, Environment(priced) PROVE PricedInv'
    <3> DEFINE r == [engines[Engine] EXCEPT !.env = priced, !.cache = Nothing]
    <3>1. /\ engines' = [engines EXCEPT ![Engine] = r]
          /\ geomFP' = [geomFP EXCEPT !.env = priced] /\ UNCHANGED <<warms, disk>>
          /\ ~(\E k \in DOMAIN warms : Live(warms[k]) /\ warms[k].eng = Engine)
      BY <2>3, <1>a DEF Environment
    <3>2. r.env = priced /\ r.cache = Nothing
      <4>1. engines[Engine] \in EngineRecord
        BY <1>n DEF Engine
      <4> QED
        BY <4>1 DEF EngineRecord
    <3> HIDE DEF r
    <3>3. /\ Engine' = Engine /\ engines'[Engine] = r
          /\ \A e \in 1 .. Engine : e # Engine => engines'[e] = engines[e]
      BY <3>1, <1>n DEF Engine
    <3>4. KeyedWarms'
      <4> SUFFICES ASSUME NEW k \in 1 .. Len(warms), Live(warms[k])
                   PROVE  KeyedWarm(warms[k])'
        BY <3>1
      <4>1. KeyedWarm(warms[k]) /\ warms[k].eng # Engine
        BY <3>1, <2>k, <1>n
      <4>2. warms[k].eng \in 1 .. Engine
        BY <1>n, <1>t, WarmTypes DEF WarmRecord
      <4>3. engines'[warms[k].eng] = engines[warms[k].eng]
        BY <4>1, <4>2, <3>3
      <4> QED
        BY <4>1, <4>3, <3>1 DEF KeyedWarm
    <3>5. ASSUME NEW e \in 1 .. Engine, NEW p \in Pair
          PROVE  engines'[e].cache[p] \in {"none", engines'[e].env}
      BY <3>2, <3>3, <2>k DEF KeyedCaches, Cache, Nothing
    <3>6. KeyedCaches'
      BY <3>3, <3>5 DEF KeyedCaches, Cache
    <3>7. geomFP'.env = priced
      BY <3>1, <1>n DEF Fingerprint
    <3>8. KeyedDisk' /\ (geomFP.env = engines[Engine].env)'
      BY <3>1, <3>2, <3>3, <3>7, <2>k DEF KeyedDisk
    <3> QED
      BY <3>4, <3>6, <3>8, <2>q
  <2>4. ASSUME NEW p \in Pair, LivePathLoss(p) \/ Evict(p) PROVE PricedInv'
    <3> DEFINE c(x) == [Cache(Engine) EXCEPT ![p] = x]
    <3>1. /\ Cache(Engine) \in Matrix /\ engines[Engine].env \in Priced
          /\ \A q \in Pair : Cache(Engine)[q] \in {"none", engines[Engine].env}
      BY <1>n, <1>t, <2>k, StoreTypes DEF KeyedCaches
    <3>2. PICK x \in {"none", engines[Engine].env} :
            engines' = [engines EXCEPT ![Engine] = [engines[Engine] EXCEPT !.cache = c(x)]]
      BY <2>4 DEF LivePathLoss, Evict, Cache
    <3>3. c(x) \in Matrix /\ \A q \in Pair : c(x)[q] \in {"none", engines[Engine].env}
      BY <3>1 DEF Matrix
    <3> HIDE DEF c
    <3>4. KeyedCaches' /\ KeepsEngines
      BY <3>2, <3>3, <1>n, <1>t, <2>k, CachingKeyed, Caching
    <3>5. UNCHANGED <<geomFP, warms, disk>>
      BY <2>4 DEF LivePathLoss, Evict
    <3>6. Engine' = Engine /\ \A e \in 1 .. Engine : engines'[e].env = engines[e].env
      BY <3>4 DEF KeepsEngines, Engine
    <3>7. KeyedWarms'
      <4> SUFFICES ASSUME NEW k \in 1 .. Len(warms), Live(warms[k])
                   PROVE  KeyedWarm(warms[k])'
        BY <3>5
      <4>1. KeyedWarm(warms[k])
        BY <2>k
      <4>2. warms[k].eng \in 1 .. Engine
        BY <1>n, <1>t, WarmTypes DEF WarmRecord
      <4> QED
        BY <4>1, <4>2, <3>5, <3>6 DEF KeyedWarm
    <3>8. KeyedDisk' /\ (geomFP.env = engines[Engine].env)'
      BY <3>5, <3>6, <2>k, <1>n DEF KeyedDisk
    <3> QED
      BY <3>4, <3>7, <3>8, <2>q
  <2>5. ASSUME NEW k \in DOMAIN warms, Warm(k) PROVE PricedInv'
    <3>1. KeyedCaches' /\ KeyedWarm(warms[k])' /\ KeyedDisk'
      BY <2>5, <2>m, WarmStepKeyed
    <3>2. WarmStep(k)
      BY <2>5, <1>t, WarmStepTaken
    <3>3. /\ Engine' = Engine /\ geomFP' = geomFP
          /\ \A e \in 1 .. Engine : engines'[e].env = engines[e].env
          /\ Len(warms') = Len(warms)
          /\ \A j \in 1 .. Len(warms) : j # k => warms'[j] = warms[j]
      BY <3>2 DEF WarmStep, KeepsEngines, Engine, Elsewhere, Advances, Moves
    <3>4. KeyedWarms'
      <4> SUFFICES ASSUME NEW j \in 1 .. Len(warms), Live(warms'[j])
                   PROVE  KeyedWarm(warms[j])'
        BY <3>3
      <4>1. CASE j = k
        BY <4>1, <3>1
      <4>2. CASE j # k
        <5>1. warms'[j] = warms[j] /\ KeyedWarm(warms[j])
          BY <4>2, <3>3, <2>k
        <5>2. warms[j].eng \in 1 .. Engine
          BY <1>n, <1>t, WarmTypes DEF WarmRecord
        <5> QED
          BY <5>1, <5>2, <3>3 DEF KeyedWarm
      <4> QED
        BY <4>1, <4>2
    <3>5. (geomFP.env = engines[Engine].env)'
      BY <3>3, <2>k, <1>n
    <3> QED
      BY <3>1, <3>4, <3>5, <2>q
  <2>6. CASE UNCHANGED warmVars
    BY <2>6, <2>k, <2>q DEF warmVars, KeyedCaches, KeyedWarm, KeyedDisk, Cache, Engine, Live
  <2> QED
    BY <2>1, <2>2, <2>3, <2>4, <2>5, <2>6 DEF Next
<1> QED
  BY <1>z, <1>a

(* No loss is kept, in memory or on disk, that something else than its key  *)
(* says priced, as long as the buildings were not switched in the middle of *)
(* a warm.                                                                  *)
THEOREM LossesAreAsKeyed == ASSUME WarmAssumption PROVE Spec => []PricedAsKeyed
<1>1. Init => PricedInv
  BY PricedAtFirst
<1>2. PricedInv /\ [Next]_warmVars => PricedInv'
  BY PricedKept
<1>3. PricedInv => PricedAsKeyed
  <2>1. TypeOK /\ Present => Engine \in 1 .. Engine
    BY Types DEF Engine, Present
  <2> QED
    BY <2>1 DEF PricedInv, Keyed, KeyedCaches, KeyedDisk, PricedAsKeyed
<1> QED
  BY <1>1, <1>2, <1>3, PTL DEF Spec
=============================================================================
