-------------------------------- MODULE Warm --------------------------------
(***************************************************************************)
(* The link matrix: what every pair of nodes costs each other, measured by  *)
(* a goroutine of its own (a warm) while verbs replace the network under    *)
(* it, carried across rebuilds and kept on disk.                            *)
(*                                                                          *)
(* A loss is told apart only by what priced it, bare earth or buildings.    *)
(* Verbs and the steps of the engine run on the store's goroutine, one at a *)
(* time; the warms run beside it.                                           *)
(***************************************************************************)
EXTENDS Naturals, Sequences

CONSTANTS
  Network,     \* the networks there are to open
  Pair,        \* the pairs of nodes of each
  Culled,      \* those too far apart to be walked, whose loss is of the radios too
  MaxWarms,    \* how many warms there are
  MaxSwitches  \* how often the buildings are switched

WarmAssumption ==
  /\ Network # {} /\ Pair # {} /\ Culled \subseteq Pair
  /\ MaxWarms \in Nat /\ MaxSwitches \in Nat

Priced == {"bare", "buildings"}
Matrix == [Pair -> Priced \cup {"none"}]
Fingerprint == [net : Network, env : Priced]

VARIABLES
  env,       \* what the session prices paths with
  geomFP,    \* the fingerprint of the geometry it holds
  engines,   \* its engines, the present one last
  disk,      \* the matrices kept, by fingerprint
  warmed,    \* the matrix has been measured
  warms,     \* the warms, the latest last
  links,     \* the warm that posted what the map shows, 0 for none
  job,       \* the row that shows the measurement is open
  resetAt,   \* history: the warms there were when warmed was last taken back
  switches,  \* history: the switches so far
  mixed      \* history: one came while the present engine was being measured

warmVars == <<env, geomFP, engines, disk, warmed, warms, links, job, resetAt, switches, mixed>>

Nothing == [p \in Pair |-> "none"]

Engine == Len(engines)
Cache(e) == engines[e].cache
Primed(e) == \A p \in Pair : Cache(e)[p] # "none"

(* Past its last look at whether it was superseded, and not yet done.       *)
Committed(w) == w.pc \in {"claim", "save", "post", "finish"}
Live(w) == w.pc # "done"

TypeOK ==
  /\ env \in Priced
  /\ geomFP \in Fingerprint
  /\ engines \in Seq([net : Network, env : Priced, cache : Matrix])
  /\ disk \in [Fingerprint -> Matrix]
  /\ warmed \in BOOLEAN /\ job \in BOOLEAN /\ mixed \in BOOLEAN
  /\ warms \in Seq([eng : 1 .. Engine, fp : Fingerprint, cancelled : BOOLEAN, overtaken : BOOLEAN,
                    walk : [Pair -> {"todo", "done"} \cup Priced],
                    primes : Priced \cup {"none"},
                    pc : {"begin", "gpu", "prime", "cores", "check", "claim", "save", "post",
                          "finish", "abandon", "done"}])
  /\ links \in 0 .. Len(warms)
  /\ resetAt \in 0 .. Len(warms) /\ switches \in 0 .. MaxSwitches

FreshWarm(e, fp) ==
  [eng |-> e, fp |-> fp, cancelled |-> FALSE, overtaken |-> FALSE,
   walk |-> [p \in Pair |-> "todo"], primes |-> "none", pc |-> "begin"]

(* A network has been opened, and nothing of it is on disk.                 *)
Init ==
  /\ env = "bare"
  /\ geomFP \in {fp \in Fingerprint : fp.env = env}
  /\ engines = <<[net |-> geomFP.net, env |-> env, cache |-> Nothing]>>
  /\ disk = [fp \in Fingerprint |-> Nothing]
  /\ warmed = FALSE /\ warms = <<FreshWarm(1, geomFP)>> /\ links = 0 /\ job = FALSE
  /\ resetAt = 0 /\ switches = 0 /\ mixed = FALSE

-----------------------------------------------------------------------------
(* The verbs.                                                               *)

(* An engine that has been replaced and that no warm works on is garbage.   *)
Held(engs, ws) ==
  [e \in DOMAIN engs |->
     IF e = Len(engs) \/ \E k \in DOMAIN ws : Live(ws[k]) /\ ws[k].eng = e
     THEN engs[e] ELSE [engs[e] EXCEPT !.cache = Nothing]]

(* warm: the one before is cancelled, wherever it has got to.               *)
StartWarm(e, fp) ==
  /\ Len(warms) < MaxWarms
  /\ warms' = Append([k \in DOMAIN warms |->
                        [warms[k] EXCEPT !.cancelled = TRUE,
                                         !.overtaken = @ \/ Committed(warms[k])]],
                     FreshWarm(e, fp))

(* What a rebuild starts from: this process's matrix if the geometry is the *)
(* same, else the one on disk.                                              *)
Carried(fp) == IF fp = geomFP THEN Cache(Engine) ELSE disk[fp]

(* A slip: a carried matrix is taken for a measured one.                    *)
BuildTrusts(net) ==
  LET fp == [net |-> net, env |-> env]
  IN  /\ engines' = Held(Append(engines, [net |-> net, env |-> env, cache |-> Carried(fp)]), warms)
      /\ geomFP' = fp
      /\ warmed' = (Carried(fp) # Nothing) /\ resetAt' = Len(warms)
      /\ links' = 0
      /\ StartWarm(Engine + 1, fp)
      /\ UNCHANGED <<env, disk, job, switches, mixed>>

(* Any verb that builds another engine, of this network or of another, and  *)
(* warms it.                                                                *)
Build(net) ==
  LET fp == [net |-> net, env |-> env]
  IN  /\ engines' = Held(Append(engines, [net |-> net, env |-> env, cache |-> Carried(fp)]), warms)
      /\ geomFP' = fp
      /\ warmed' = FALSE /\ resetAt' = Len(warms)
      /\ links' = 0
      /\ StartWarm(Engine + 1, fp)
      /\ UNCHANGED <<env, disk, job, switches, mixed>>

Recompute ==
  /\ StartWarm(Engine, geomFP)
  /\ UNCHANGED <<env, geomFP, engines, disk, warmed, links, job, resetAt, switches, mixed>>

(* terrain.allow, when it changes anything.                                 *)
AllowTerrain ==
  /\ warmed' = FALSE /\ resetAt' = Len(warms)
  /\ StartWarm(Engine, geomFP)
  /\ UNCHANGED <<env, geomFP, engines, disk, links, job, switches, mixed>>

(* A slip: the geometry is not keyed again.                                 *)
EnvironmentUnkeyed(priced) ==
  /\ switches < MaxSwitches /\ switches' = switches + 1
  /\ env' = priced
  /\ engines' = [engines EXCEPT ![Engine].env = priced, ![Engine].cache = Nothing]
  /\ mixed' = (mixed \/ \E k \in DOMAIN warms : Live(warms[k]) /\ warms[k].eng = Engine)
  /\ UNCHANGED <<geomFP, disk, warmed, warms, links, job, resetAt>>

(* rf.environment.                                                          *)
Environment(priced) ==
  /\ switches < MaxSwitches /\ switches' = switches + 1
  /\ env' = priced
  /\ engines' = [engines EXCEPT ![Engine].env = priced, ![Engine].cache = Nothing]
  /\ geomFP' = [geomFP EXCEPT !.env = priced]
  /\ mixed' = (mixed \/ \E k \in DOMAIN warms : Live(warms[k]) /\ warms[k].eng = Engine)
  /\ UNCHANGED <<disk, warmed, warms, links, job, resetAt>>

(* A delivery asks what a pair costs; a radio's report takes it back.       *)
LivePathLoss(p) ==
  /\ Cache(Engine)[p] = "none"
  /\ engines' = [engines EXCEPT ![Engine].cache[p] = engines[Engine].env]
  /\ UNCHANGED <<env, geomFP, disk, warmed, warms, links, job, resetAt, switches, mixed>>

Evict(p) ==
  /\ p \in Culled /\ Cache(Engine)[p] # "none"
  /\ engines' = [engines EXCEPT ![Engine].cache[p] = "none"]
  /\ UNCHANGED <<env, geomFP, disk, warmed, warms, links, job, resetAt, switches, mixed>>

-----------------------------------------------------------------------------
(* A warm.                                                                  *)
Goes(k, pc) == warms' = [warms EXCEPT ![k].pc = pc]
Elsewhere == UNCHANGED <<env, geomFP, resetAt, switches, mixed>>

(* A progress report is on the warm's own context: once that is cancelled,  *)
(* it may be refused or may still get through.                              *)
Shown(k) == job' \in {TRUE} \cup (IF warms[k].cancelled THEN {job} ELSE {})

(* With every pair answered there is nothing for the GPU to do.             *)
Begin(k) ==
  /\ warms[k].pc = "begin"
  /\ Shown(k)
  /\ Goes(k, "cores") \/ (~Primed(warms[k].eng) /\ Goes(k, "gpu"))
  /\ UNCHANGED <<engines, disk, warmed, links>> /\ Elsewhere

(* The GPU's losses, priced with the environment as it is and stored later, *)
(* all but the pairs it had no answer for.                                  *)
WarmOnGPU(k) ==
  /\ warms[k].pc = "gpu"
  /\ warms' = [warms EXCEPT ![k].primes = engines[warms[k].eng].env, ![k].pc = "prime"]
  /\ UNCHANGED <<engines, disk, warmed, links, job>> /\ Elsewhere

PrimeLinks(k) ==
  LET w == warms[k]
  IN  /\ w.pc = "prime"
      /\ \E S \in SUBSET Pair :
           engines' = [engines EXCEPT ![w.eng].cache = [p \in Pair |-> IF p \in S THEN w.primes ELSE @[p]]]
      /\ Shown(k)
      /\ warms' = [warms EXCEPT ![k].primes = "none", ![k].pc = "cores"]
      /\ UNCHANGED <<disk, warmed, links>> /\ Elsewhere

(* pathLoss: the cache is asked under the lock, the loss is worked out      *)
(* outside it, and stored under it again.                                   *)
PathLoss(k, p) ==
  LET w == warms[k]
  IN  /\ w.pc = "cores" /\ w.walk[p] = "todo"
      /\ warms' = [warms EXCEPT ![k].walk[p] = IF Cache(w.eng)[p] = "none" THEN engines[w.eng].env ELSE "done"]
      /\ UNCHANGED <<engines, disk, warmed, links, job>> /\ Elsewhere

StoreLoss(k, p) ==
  LET w == warms[k]
  IN  /\ w.pc = "cores" /\ w.walk[p] \in Priced
      /\ engines' = [engines EXCEPT ![w.eng].cache[p] = w.walk[p]]
      /\ warms' = [warms EXCEPT ![k].walk[p] = "done"]
      /\ Shown(k)
      /\ UNCHANGED <<disk, warmed, links>> /\ Elsewhere

(* What is left of a cancelled walk is not begun.                           *)
WalkOver(w) == \A p \in Pair : w.walk[p] = "done" \/ (w.cancelled /\ w.walk[p] = "todo")

(* linksOf, whose answers are of this engine, cached or not.                *)
WarmLinksReturns(k) ==
  LET w == warms[k]
  IN  /\ w.pc = "cores" /\ WalkOver(w)
      /\ IF w.cancelled
         THEN Goes(k, "abandon") /\ UNCHANGED engines
         ELSE /\ Goes(k, "check")
              /\ engines' = [engines EXCEPT ![w.eng].cache =
                               [p \in Pair |-> IF @[p] = "none" THEN engines[w.eng].env ELSE @[p]]]
      /\ UNCHANGED <<disk, warmed, links, job>> /\ Elsewhere

(* A slip: it is not asked again whether the warm was superseded.           *)
CheckNothing(k) ==
  /\ warms[k].pc = "check"
  /\ Goes(k, "claim")
  /\ UNCHANGED <<engines, disk, warmed, links, job>> /\ Elsewhere

Check(k) ==
  /\ warms[k].pc = "check"
  /\ Goes(k, IF warms[k].cancelled THEN "abandon" ELSE "claim")
  /\ UNCHANGED <<engines, disk, warmed, links, job>> /\ Elsewhere

Claim(k) ==
  /\ warms[k].pc = "claim"
  /\ warmed' = TRUE
  /\ Goes(k, "save")
  /\ UNCHANGED <<engines, disk, links, job>> /\ Elsewhere

SaveMatrix(k) ==
  LET w == warms[k]
  IN  /\ w.pc = "save"
      /\ disk' = IF Cache(w.eng) = Nothing THEN disk ELSE [disk EXCEPT ![w.fp] = Cache(w.eng)]
      /\ Goes(k, "post")
      /\ UNCHANGED <<engines, warmed, links, job>> /\ Elsewhere

(* The last posts are not on the warm's own context: they get through.      *)
PostLinks(k) ==
  /\ warms[k].pc = "post"
  /\ links' = k
  /\ Goes(k, "finish")
  /\ UNCHANGED <<engines, disk, warmed, job>> /\ Elsewhere

Finish(k) ==
  /\ warms[k].pc = "finish"
  /\ job' = FALSE
  /\ Goes(k, "done") /\ engines' = Held(engines, warms')
  /\ UNCHANGED <<disk, warmed, links>> /\ Elsewhere

(* A slip: a superseded warm leaves without a word.                         *)
AbandonSilently(k) ==
  /\ warms[k].pc = "abandon"
  /\ Goes(k, "done") /\ engines' = Held(engines, warms')
  /\ UNCHANGED <<disk, warmed, links, job>> /\ Elsewhere

AbandonJob(k) ==
  /\ warms[k].pc = "abandon"
  /\ job' = FALSE
  /\ Goes(k, "done") /\ engines' = Held(engines, warms')
  /\ UNCHANGED <<disk, warmed, links>> /\ Elsewhere

Warm(k) ==
  \/ Begin(k) \/ WarmOnGPU(k) \/ PrimeLinks(k)
  \/ \E p \in Pair : PathLoss(k, p) \/ StoreLoss(k, p)
  \/ WarmLinksReturns(k) \/ Check(k) \/ Claim(k) \/ SaveMatrix(k) \/ PostLinks(k) \/ Finish(k)
  \/ AbandonJob(k)

Next ==
  \/ \E net \in Network : Build(net)
  \/ Recompute \/ AllowTerrain
  \/ \E priced \in Priced : Environment(priced)
  \/ \E p \in Pair : LivePathLoss(p) \/ Evict(p)
  \/ \E k \in DOMAIN warms : Warm(k)

Spec == Init /\ [][Next]_warmVars

FairSpec == Spec /\ \A k \in 1 .. MaxWarms : WF_warmVars(k \in DOMAIN warms /\ Warm(k))

-----------------------------------------------------------------------------
Warming == ~warmed

(* The matrix is said to be measured only when a warm begun since that was  *)
(* last taken back has walked every pair of the engine there is now: a      *)
(* carried matrix does not say it, nor does a superseded warm. Excepted is  *)
(* one superseded after its last look (enginewarm.go:165-171).              *)
MeasuredIsWalked ==
  warmed => \/ \E k \in resetAt + 1 .. Len(warms) :
                 warms[k].eng = Engine /\ \A p \in Pair : warms[k].walk[p] = "done"
            \/ \E k \in 1 .. resetAt : warms[k].overtaken

(* The links on the map are those of the network that is open, except when  *)
(* a warm superseded after its last look posted them (enginewarm.go:181).   *)
LinksAreThisNetworks ==
  links # 0 => \/ engines[warms[links].eng].net = engines[Engine].net
               \/ warms[links].overtaken

(* No loss is kept, in memory or on disk, that something else than its key  *)
(* says priced: a matrix of buildings is never opened over bare earth. Not  *)
(* so once the buildings were switched in the middle of a warm, which       *)
(* stores what it began to work out before, and saves under the key it      *)
(* began with (links.go:101-131, enginewarm.go:175).                        *)
PricedAsKeyed ==
  ~mixed => /\ \A fp \in Fingerprint, p \in Pair : disk[fp][p] \in {"none", fp.env}
            /\ \A p \in Pair : Cache(Engine)[p] \in {"none", geomFP.env}

(* Whatever waits for the workbench to be idle, or for the warm to be over, *)
(* does not wait for ever: no row outlives the warms that post to it.       *)
MeasuringEnds == Warming \/ job ~> ~Warming /\ ~job
=============================================================================
