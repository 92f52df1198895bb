----------------------------- MODULE SerialPort -----------------------------
(***************************************************************************)
(* One node's serial port and everything that wants it: the console pane,   *)
(* the session's own companion client, and the outside clients of a link    *)
(* the node is served on.  One of them holds it at a time.                  *)
(*                                                                         *)
(* Four kinds of goroutine meet here: the store's, which runs the verbs;    *)
(* the bridge's reader, which writes out what the node says; the accept     *)
(* loop of each link; and the reader of each client.                        *)
(***************************************************************************)
EXTENDS Naturals, Sequences

CONSTANTS
  MaxLinks,   \* bound on how often the node is served
  Client,     \* outside clients, each of which connects once
  Backlog,    \* how much output is kept for a console nobody has opened
  MaxClaims,  \* bound on the claims and releases of the port
  MaxSaid     \* bound on how much the node says

SerialPortAssumption ==
  /\ "nobody" \notin Client
  /\ {MaxLinks, Backlog, MaxClaims, MaxSaid} \subseteq Nat

Link == 1 .. MaxLinks
NoClient == "nobody"

(* Who may hold the port: the pipe of a link, or one of these. *)
Nobody == 0
Pane == MaxLinks + 1
Companion == MaxLinks + 2

VARIABLES
  \* Bridge
  console,   \* who is handed what the node says: nobody, the pane's buffer,
             \* the session, or the pipe of a link
  claimed,   \* claimed
  gen,       \* claimGen
  born,      \* claimGen when this firmware was started
  backlog,   \* what nobody was there to read
  writing,   \* what the reader is writing, and to whom
  saidSoFar, \* how much has been said
  \* The console pane
  made,      \* the session has a buffer for this bridge
  buf,       \* what is in it
  scrollback, \* what of that came out of the backlog
  \* Links
  link,      \* the state of each: off, open, closing (the pipe is closed and
             \* the listener not yet), closed
  client,    \* Pipe.client
  release,   \* nodeSerial.release: the claim it undoes, 0 for nil
  got,       \* the claim Attach has made and not stored there yet, 0 for none
  locked,    \* the goroutine that has the pipe's lock, in the middle of Detach
  served,    \* the link the session has the node served on, 0 for none
  \* Clients
  at,        \* where each has got to
  via,       \* the link it connected to
  \* The session
  comp,      \* s.comps has the node
  compGen,   \* the claim its release undoes
  verb,      \* what the store's goroutine is in the middle of
  pending,   \* the scrollback Console is about to write
  \* What has happened
  late       \* a link claimed the port for a client that was dropped, or by a
             \* pipe that was closed, before the claim was stored, and nobody
             \* else has claimed since

bridgeVars == <<console, claimed, gen, born, backlog, writing, saidSoFar>>
paneVars == <<made, buf, scrollback, pending>>
linkVars == <<link, client, release, got, locked, served>>
clientVars == <<at, via>>
sessionVars == <<comp, compGen, verb>>
vars == <<bridgeVars, paneVars, linkVars, clientVars, sessionVars, late>>

Free == [does |-> "nothing", to |-> 0, next |-> "nothing"]

Init ==
  /\ console = Nobody
  /\ claimed = FALSE
  /\ gen = 0
  /\ born = 0
  /\ backlog = << >>
  /\ writing = << >>
  /\ saidSoFar = 0
  /\ made = FALSE
  /\ buf = << >>
  /\ scrollback = {}
  /\ link = [l \in Link |-> "off"]
  /\ client = [l \in Link |-> NoClient]
  /\ release = [l \in Link |-> 0]
  /\ got = [l \in Link |-> 0]
  /\ locked = [l \in Link |-> "nobody"]
  /\ served = 0
  /\ at = [c \in Client |-> "out"]
  /\ via = [c \in Client |-> 0]
  /\ comp = FALSE
  /\ compGen = 0
  /\ verb = Free
  /\ pending = << >>
  /\ late = FALSE

-----------------------------------------------------------------------------
(* The bridge.                                                              *)

Claim(who) ==
  /\ gen < MaxClaims
  /\ gen' = gen + 1
  /\ console' = who
  /\ claimed' = TRUE
  /\ UNCHANGED <<born, backlog, writing, saidSoFar>>

(* A slip the runs must catch: a release clears whoever holds the port.     *)
ReleaseAnybody(g) ==
  IF g # 0
    THEN /\ gen' = gen + 1
         /\ console' = Nobody
         /\ claimed' = FALSE
         /\ UNCHANGED <<born, backlog, writing, saidSoFar>>
    ELSE UNCHANGED bridgeVars

(* The release of claim g undoes that claim and no other. *)
Release(g) ==
  IF g # 0 /\ gen = g
    THEN /\ gen' = gen + 1
         /\ console' = Nobody
         /\ claimed' = FALSE
         /\ UNCHANGED <<born, backlog, writing, saidSoFar>>
    ELSE UNCHANGED bridgeVars

Newest(s) == IF Len(s) <= Backlog THEN s ELSE Tail(s)

(* The node says something: kept if nobody holds the port, and otherwise    *)
(* written, to whoever held it when that was looked up. *)
Say ==
  /\ writing = << >>
  /\ saidSoFar < MaxSaid
  /\ saidSoFar' = saidSoFar + 1
  /\ IF console = Nobody
       THEN backlog' = Newest(Append(backlog, saidSoFar')) /\ UNCHANGED writing
       ELSE writing' = <<[to |-> console, what |-> saidSoFar']>> /\ UNCHANGED backlog
  /\ UNCHANGED <<console, claimed, gen, born, paneVars, linkVars, clientVars, sessionVars, late>>

(* A pipe's lock is asked for and not given while Detach has it.            *)
Unlocked(l) == locked[l] = "nobody"

(* A slip: the console is given what is being written, and then it is      *)
(* written again. *)
WriteTwice ==
  /\ writing # << >>
  /\ writing[1].to \in Link => locked[writing[1].to] # "reader"
  /\ writing' = << >>
  /\ buf' = IF writing[1].to = Pane THEN buf \o <<writing[1].what, writing[1].what>> ELSE buf
  /\ UNCHANGED <<console, claimed, gen, born, backlog, saidSoFar, made, scrollback, pending,
                 linkVars, clientVars, sessionVars, late>>

Write ==
  /\ writing # << >>
  /\ writing[1].to \in Link => locked[writing[1].to] # "reader"
  /\ writing' = << >>
  /\ buf' = IF writing[1].to = Pane THEN Append(buf, writing[1].what) ELSE buf
  /\ UNCHANGED <<console, claimed, gen, born, backlog, saidSoFar, made, scrollback, pending,
                 linkVars, clientVars, sessionVars, late>>

(* The firmware is restarted, by whichever goroutine: a new bridge, with    *)
(* nobody on it and a console buffer of its own to come. *)
Restart ==
  /\ writing = << >>
  /\ gen < MaxClaims
  /\ gen' = gen + 1
  /\ born' = gen + 1
  /\ console' = Nobody
  /\ claimed' = FALSE
  /\ backlog' = << >>
  /\ made' = FALSE
  /\ buf' = << >>
  /\ scrollback' = {}
  /\ pending' = << >>
  /\ UNCHANGED <<writing, saidSoFar, linkVars, clientVars, sessionVars, late>>

-----------------------------------------------------------------------------
(* The console pane.                                                        *)

(* consoleFor attaches a buffer the first time it is asked about a bridge.  *)
(* Console ignores it if the port is claimed; otherwise the backlog is      *)
(* taken, and written once the bridge's lock has been let go. *)
ConsoleFor ==
  /\ verb = Free
  /\ ~made
  /\ made' = TRUE
  /\ IF claimed
       THEN UNCHANGED <<console, backlog, pending, verb>>
       ELSE /\ console' = Pane
            /\ pending' = backlog
            /\ backlog' = << >>
            /\ verb' = [Free EXCEPT !.does = "scrollback"]
  /\ UNCHANGED <<claimed, gen, born, writing, saidSoFar, buf, scrollback, linkVars, clientVars,
                 comp, compGen, late>>

Scrollback ==
  /\ verb.does = "scrollback"
  /\ verb' = Free
  /\ buf' = buf \o pending
  /\ scrollback' = {pending[i] : i \in 1 .. Len(pending)}
  /\ pending' = << >>
  /\ UNCHANGED <<bridgeVars, made, linkVars, clientVars, comp, compGen, late>>

-----------------------------------------------------------------------------
(* The session's verbs.                                                     *)

Then(next) == [does |-> next, to |-> 0, next |-> "nothing"]

(* CompanionLink.Close: the pipe first, the listener after it. *)
CloseLink(l, next) == [does |-> "closePipe", to |-> l, next |-> next]

(* companion.connect: refused while an outside client is attached; an idle  *)
(* listener is closed and its port taken. *)
Connect ==
  /\ verb = Free
  /\ ~comp
  /\ served # 0 => Unlocked(served) /\ client[served] = NoClient
  /\ verb' = IF served = 0 THEN Then("claim") ELSE CloseLink(served, "claim")
  /\ served' = 0
  /\ UNCHANGED <<bridgeVars, paneVars, link, client, release, got, locked, clientVars, comp, compGen, late>>

SessionClaims ==
  /\ verb.does = "claim"
  /\ verb' = Free
  /\ Claim(Companion)
  /\ comp' = TRUE
  /\ compGen' = gen'
  /\ late' = FALSE
  /\ UNCHANGED <<paneVars, linkVars, clientVars>>

(* companion.disconnect. *)
Disconnect ==
  /\ verb = Free
  /\ comp
  /\ Release(compGen)
  /\ comp' = FALSE
  /\ UNCHANGED <<compGen, verb, paneVars, linkVars, clientVars, late>>

(* bench.serve: the session lets go, an older link is closed, and the node  *)
(* is served on a new one. *)
Serve ==
  /\ verb = Free
  /\ \E l \in Link : link[l] = "off"
  /\ IF comp THEN Release(compGen) ELSE UNCHANGED bridgeVars
  /\ comp' = FALSE
  /\ verb' = IF served = 0 THEN Then("listen") ELSE CloseLink(served, "listen")
  /\ served' = 0
  /\ UNCHANGED <<compGen, paneVars, link, client, release, got, locked, clientVars, late>>

Listen(l) ==
  /\ verb.does = "listen"
  /\ verb' = Free
  /\ link[l] = "off"
  /\ \A k \in 1 .. (l - 1) : link[k] # "off"
  /\ link' = [link EXCEPT ![l] = "open"]
  /\ served' = l
  /\ UNCHANGED <<bridgeVars, paneVars, client, release, got, locked, clientVars, comp, compGen, late>>

(* bench.drop: of this node, or of every node with a client. *)
Drop ==
  /\ verb = Free
  /\ served # 0
  /\ verb' = CloseLink(served, "nothing")
  /\ served' = 0
  /\ UNCHANGED <<bridgeVars, paneVars, link, client, release, got, locked, clientVars, comp, compGen, late>>

(* nodeSerial.Detach, which its callers reach with the pipe's lock: the     *)
(* claim that is stored is released, and what is stored then is cleared.    *)
(* Attach does not take that lock: the claim it has made and not stored is  *)
(* not released, and one it stores between the two is forgotten.            *)
DetachReleases(l, who) ==
  /\ Unlocked(l)
  /\ client' = [client EXCEPT ![l] = NoClient]
  /\ IF release[l] = 0
       THEN UNCHANGED <<bridgeVars, locked>>
       ELSE Release(release[l]) /\ locked' = [locked EXCEPT ![l] = who]
  /\ late' = (late \/ (got[l] # 0 /\ got[l] = gen))
  /\ UNCHANGED <<release, got>>

DetachClears(l) ==
  /\ ~Unlocked(l)
  /\ locked' = [locked EXCEPT ![l] = "nobody"]
  /\ release' = [release EXCEPT ![l] = 0]
  /\ UNCHANGED <<bridgeVars, paneVars, link, client, got, served, clientVars, sessionVars, late>>

ClosePipe(l) ==
  /\ verb.does = "closePipe"
  /\ verb.to = l
  /\ verb' = [verb EXCEPT !.does = "closeListener"]
  /\ link' = [link EXCEPT ![l] = "closing"]
  /\ DetachReleases(l, "store")
  /\ UNCHANGED <<paneVars, served, clientVars, comp, compGen>>

CloseListener(l) ==
  /\ verb.does = "closeListener"
  /\ verb.to = l
  /\ locked[l] # "store"
  /\ verb' = Then(verb.next)
  /\ link' = [link EXCEPT ![l] = "closed"]
  /\ UNCHANGED <<bridgeVars, paneVars, client, release, got, locked, served, clientVars, comp, compGen, late>>

-----------------------------------------------------------------------------
(* A client, and the goroutines of the link it came to.                     *)

(* Where a client is while the second half of attach runs for it. *)
Attaching == {"letting", "calling", "claiming", "storing"}

Accept(c, l) ==
  /\ at[c] = "out"
  /\ link[l] \in {"open", "closing"}
  /\ \A d \in Client : via[d] = l => at[d] \notin {"accepted"} \cup Attaching
  /\ at' = [at EXCEPT ![c] = "accepted"]
  /\ via' = [via EXCEPT ![c] = l]
  /\ UNCHANGED <<bridgeVars, paneVars, linkVars, sessionVars, late>>

(* Pipe.attach takes the place of whoever was there, whether or not the     *)
(* pipe has been closed ... *)
AttachClient(c) ==
  LET l == via[c]
  IN  /\ at[c] = "accepted"
      /\ Unlocked(l)
      /\ at' = [at EXCEPT ![c] = "letting"]
      /\ client' = [client EXCEPT ![l] = c]
      /\ UNCHANGED <<bridgeVars, paneVars, link, release, got, locked, served, via, sessionVars, late>>

(* ... and then, with the pipe's lock let go, nodeSerial.Attach looks       *)
(* whether there is a claim to undo ...                                     *)
AttachLooks(c) ==
  /\ at[c] = "letting"
  /\ at' = [at EXCEPT ![c] = IF release[via[c]] = 0 THEN "claiming" ELSE "calling"]
  /\ UNCHANGED <<bridgeVars, paneVars, linkVars, via, sessionVars, late>>

(* ... undoes it - or, if Detach has cleared it since it was looked at,     *)
(* calls nil, or the release that was read and has nothing left to undo ... *)
AttachLetsGo(c) ==
  /\ at[c] = "calling"
  /\ \/ /\ at' = [at EXCEPT ![c] = "claiming"]
        /\ Release(release[via[c]])
     \/ /\ release[via[c]] = 0
        /\ at' = [at EXCEPT ![c] = "panicked"]
        /\ UNCHANGED bridgeVars
  /\ UNCHANGED <<paneVars, linkVars, via, sessionVars, late>>

(* ... claims the port ...                                                  *)
AttachClaims(c) ==
  LET l == via[c]
  IN  /\ at[c] = "claiming"
      /\ at' = [at EXCEPT ![c] = "storing"]
      /\ Claim(l)
      /\ got' = [got EXCEPT ![l] = gen']
      /\ late' = (link[l] # "open" \/ client[l] # c)
      /\ UNCHANGED <<paneVars, link, client, release, locked, served, via, sessionVars>>

(* ... and stores what undoes that, whoever has dropped the client since.   *)
AttachStores(c) ==
  LET l == via[c]
  IN  /\ at[c] = "storing"
      /\ at' = [at EXCEPT ![c] = "on"]
      /\ release' = [release EXCEPT ![l] = got[l]]
      /\ got' = [got EXCEPT ![l] = 0]
      /\ UNCHANGED <<bridgeVars, paneVars, link, client, locked, served, via, sessionVars, late>>

(* dropClient: the client hung up, or was hung up on, or could not be       *)
(* written to. *)
ClientEnds(c) ==
  LET l == via[c]
  IN  /\ at[c] = "on"
      /\ at' = [at EXCEPT ![c] = "gone"]
      /\ IF client[l] = c
           THEN DetachReleases(l, "client")
           ELSE Unlocked(l) /\ UNCHANGED <<client, release, got, locked, bridgeVars, late>>
      /\ UNCHANGED <<paneVars, link, served, via, sessionVars>>

(* A write to a pipe whose client has just changed fails: the new client is *)
(* dropped before the port has been claimed for it, or the claim stored.    *)
WriteFails(c) ==
  LET l == via[c]
  IN  /\ at[c] \in Attaching
      /\ client[l] = c
      /\ writing # << >>
      /\ writing[1].to = l
      /\ DetachReleases(l, "reader")
      /\ UNCHANGED <<paneVars, link, served, clientVars, sessionVars>>

-----------------------------------------------------------------------------
Session ==
  \/ ConsoleFor \/ Scrollback \/ Connect \/ SessionClaims \/ Disconnect \/ Serve \/ Drop
  \/ \E l \in Link : Listen(l) \/ ClosePipe(l) \/ CloseListener(l)

Outside(c) ==
  \/ \E l \in Link : Accept(c, l)
  \/ AttachClient(c) \/ AttachLooks(c) \/ AttachLetsGo(c) \/ AttachClaims(c) \/ AttachStores(c)
  \/ ClientEnds(c) \/ WriteFails(c)

(* A panic ends the process. *)
Panicked == \E c \in Client : at[c] = "panicked"

Next ==
  /\ ~Panicked
  /\ \/ Say \/ Write \/ Restart \/ Session
     \/ \E l \in Link : DetachClears(l)
     \/ \E c \in Client : Outside(c)

Spec == Init /\ [][Next]_vars

-----------------------------------------------------------------------------
TypeOK ==
  /\ console \in {Nobody, Pane, Companion} \cup Link
  /\ claimed \in BOOLEAN
  /\ gen \in Nat /\ born \in 0 .. gen
  /\ backlog \in Seq(1 .. saidSoFar) /\ Len(backlog) <= Backlog
  /\ saidSoFar \in 0 .. MaxSaid
  /\ Len(writing) <= 1
  /\ made \in BOOLEAN
  /\ buf \in Seq(1 .. saidSoFar) /\ pending \in Seq(1 .. saidSoFar)
  /\ scrollback \subseteq 1 .. saidSoFar
  /\ link \in [Link -> {"off", "open", "closing", "closed"}]
  /\ client \in [Link -> Client \cup {NoClient}]
  /\ release \in [Link -> 0 .. gen]
  /\ served \in {0} \cup Link
  /\ got \in [Link -> 0 .. gen]
  /\ locked \in [Link -> {"nobody", "store", "client", "reader"}]
  /\ at \in [Client -> {"out", "accepted", "on", "gone", "panicked"} \cup Attaching]
  /\ via \in [Client -> {0} \cup Link]
  /\ comp \in BOOLEAN
  /\ compGen \in 0 .. gen
  /\ verb.does \in {"nothing", "scrollback", "claim", "listen", "closePipe", "closeListener"}
  /\ late \in BOOLEAN

(* While the session is connected it has the port: no release of an older   *)
(* claim takes it away, and no outside client does - but one whose link had *)
(* been closed before its turn to claim came (and a restart, which gives    *)
(* the node a port nobody holds).                                           *)
SessionKeepsPort == comp /\ compGen > born /\ ~late => console = Companion /\ gen = compGen

(* A client attached to a served node hears it: a stale release never       *)
(* unplugs it, and neither the console nor the session's own client takes   *)
(* the port from it.  A client of a link served before may.                 *)
ClientHears ==
  \A c \in Client :
    at[c] = "on" /\ client[via[c]] = c /\ link[via[c]] = "open" /\ release[via[c]] > born
      => late \/ console = via[c]

(* A port that is claimed has somebody on it.  The exceptions are a pipe    *)
(* that was closed, or lost its client, after the first half of attach and  *)
(* before the claim the second makes was stored.                            *)
ClaimedByWhoIsThere ==
  claimed /\ ~late =>
    \/ console = Companion /\ comp
    \/ console \in Link /\ client[console] # NoClient

(* What the node says is shown once, and in the order it was said, but for  *)
(* scrollback, which may come after what was said later.                    *)
ShownInOrder ==
  \A i, j \in 1 .. Len(buf) : i < j => buf[i] < buf[j] \/ (buf[i] > buf[j] /\ buf[j] \in scrollback)

(* "Released; the console has it back" (companion.go).                      *)
ConsoleHasItBack == made /\ ~claimed /\ verb = Free => console = Pane
=============================================================================
