-------------------------- MODULE SerialPortProofs --------------------------
(***************************************************************************)
(* Proofs about SerialPort: whoever claimed the port keeps it, a claimed    *)
(* port has somebody on it, and the console shows what was said in order.   *)
(*                                                                         *)
(* Two invariants.  Held is about claims: each is undone by its own release *)
(* only, because no two releases, and no release and the session's own, are *)
(* of one claim.  Shown is about what is said: it is in one place at a time *)
(* on its way to the console.                                               *)
(***************************************************************************)
EXTENDS SerialPort, SequenceTheorems, TLAPS

Doing == {"nothing", "scrollback", "claim", "listen", "closePipe", "closeListener"}
After == {"nothing", "claim", "listen"}
Holder == {Pane, Companion} \cup Link
Mid == {"accepted", "letting", "calling", "claiming", "storing"}
Place == Mid \cup {"out", "on", "gone", "panicked"}
Locker == {"store", "client", "reader"}

Types ==
  /\ console \in Holder \cup {Nobody} /\ claimed \in BOOLEAN
  /\ gen \in Nat /\ born \in 0 .. gen
  /\ saidSoFar \in 0 .. MaxSaid
  /\ backlog \in Seq(1 .. saidSoFar) /\ Len(backlog) <= Backlog
  /\ writing \in Seq([to : Holder, what : 1 .. saidSoFar]) /\ Len(writing) <= 1
  /\ made \in BOOLEAN /\ scrollback \subseteq 1 .. saidSoFar
  /\ buf \in Seq(1 .. saidSoFar) /\ pending \in Seq(1 .. saidSoFar)
  /\ link \in [Link -> {"off", "open", "closing", "closed"}]
  /\ client \in [Link -> Client \cup {NoClient}]
  /\ release \in [Link -> 0 .. gen] /\ got \in [Link -> 0 .. gen]
  /\ locked \in [Link -> Locker \cup {"nobody"}]
  /\ served \in Link \cup {0}
  /\ at \in [Client -> Place]
  /\ via \in [Client -> Link \cup {0}]
  /\ comp \in BOOLEAN /\ compGen \in 0 .. gen
  /\ verb \in [does : Doing, to : Link \cup {0}, next : After]
  /\ late \in BOOLEAN

-----------------------------------------------------------------------------
(* Who holds the port.                                                      *)

(* Nobody, and the pane, have not claimed it; everyone else has.            *)
Claimed == (claimed <=> console \notin {Nobody, Pane}) /\ (claimed => gen # 0)

(* A verb that closes a link is about that one, and until it is over the    *)
(* node is served on no other and the session is not connected.             *)
Serving ==
  /\ verb.does \notin {"nothing", "scrollback"} => served = 0 /\ ~comp
  /\ verb.does \in {"closePipe", "closeListener"} => verb.to # 0
  /\ comp => served = 0
  /\ \A l \in Link : link[l] = "open" => l = served \/ (verb.does = "closePipe" /\ verb.to = l)

(* No two releases undo one claim, whether they are stored yet or not, and  *)
(* the one that is to be stored undoes the later claim.                     *)
Undoes ==
  /\ \A k, l \in Link : k # l /\ release[k] = release[l] => release[k] = 0
  /\ \A k, l \in Link : k # l /\ got[k] = got[l] => got[k] = 0
  /\ \A k, l \in Link : got[k] = release[l] => got[k] = 0
  /\ \A l \in Link : got[l] # 0 => release[l] < got[l]
  /\ comp => compGen # 0 /\ \A l \in Link : release[l] # compGen /\ got[l] # compGen

(* A client comes to a link that is or was open; one at a time comes to it, *)
(* and nobody takes its place until it is on.  It has a claim to store when *)
(* it comes to that, and a link whose lock Detach has kept has lost its own *)
(* client.                                                                  *)
Coming ==
  /\ \A c \in Client : at[c] # "out" => via[c] \in Link
  /\ \A c \in Client : via[c] \in Link => link[via[c]] # "off"
  /\ \A c, d \in Client : c # d /\ at[c] \in Mid /\ at[d] \in Mid => via[c] # via[d]
  /\ \A c \in Client : at[c] \in Mid \ {"accepted"} => client[via[c]] \in {c, NoClient}
  /\ \A c \in Client : at[c] = "storing" => got[via[c]] # 0
  /\ \A l \in Link : ~Unlocked(l) => client[l] = NoClient

(* A client that has claimed, and is neither cut off since nor late.        *)
Undo(c) == IF at[c] = "storing" THEN got[via[c]] ELSE release[via[c]]
Plugged(c) ==
  /\ at[c] \in {"on", "storing"} /\ client[via[c]] = c /\ link[via[c]] = "open"
  /\ Undo(c) > born /\ ~late

HeldByClient ==
  \A c \in Client : Plugged(c) => console = via[c] /\ gen = Undo(c)

HeldBySomebody ==
  claimed /\ ~late =>
    \/ console = Companion /\ comp /\ gen = compGen
    \/ /\ console \in Link /\ client[console] # NoClient
       /\ gen = release[console] \/ gen = got[console]

Held == Claimed /\ Serving /\ Undoes /\ Coming /\ SessionKeepsPort /\ HeldByClient /\ HeldBySomebody

-----------------------------------------------------------------------------
(* What has been said.                                                      *)

Rising(s) == \A i, j \in 1 .. Len(s) : i < j => s[i] < s[j]

Without(s, n) == \A i \in 1 .. Len(s) : s[i] # n

(* What is being written is the last thing said, and is nowhere else.       *)
Writing ==
  writing # << >> =>
    /\ writing[1].what = saidSoFar
    /\ Without(backlog, saidSoFar) /\ Without(pending, saidSoFar) /\ Without(buf, saidSoFar)
    /\ writing[1].to = Pane => made

(* Before the console has a buffer nothing is in it or on its way there.    *)
Unmade ==
  /\ ~made => buf = << >> /\ pending = << >> /\ scrollback = {} /\ console # Pane
  /\ verb.does = "scrollback" => scrollback = {}

Apart ==
  /\ Rising(backlog) /\ Rising(pending)
  /\ \A i \in 1 .. Len(pending) : Without(buf, pending[i])

Shown == Writing /\ Unmade /\ Apart /\ ShownInOrder

IInv == Types /\ Held /\ Shown

-----------------------------------------------------------------------------
(* Those who may hold the port are told apart.                              *)
LEMMA Holders ==
  ASSUME SerialPortAssumption
  PROVE  /\ Link \subseteq Nat \ {0} /\ Nobody \notin Link /\ Pane \notin Link /\ Companion \notin Link
         /\ Nobody # Pane /\ Nobody # Companion /\ Pane # Companion
         /\ MaxLinks \in Nat /\ Backlog \in Nat /\ MaxClaims \in Nat /\ MaxSaid \in Nat
BY DEF SerialPortAssumption, Link, Nobody, Pane, Companion

(* A release undoes the claim it was made for, or nothing.                  *)
LEMMA Releases ==
  ASSUME Types, NEW g, Release(g)
  PROVE  /\ UNCHANGED <<born, backlog, writing, saidSoFar>>
         /\ \/ g # 0 /\ gen = g /\ gen' = gen + 1 /\ console' = Nobody /\ claimed' = FALSE
            \/ ~(g # 0 /\ gen = g) /\ UNCHANGED <<gen, console, claimed>>
         /\ gen' \in Nat /\ gen <= gen'
         /\ console' \in Holder \cup {Nobody} /\ claimed' \in BOOLEAN
<1>1. gen \in Nat /\ console \in Holder \cup {Nobody} /\ claimed \in BOOLEAN
  BY DEF Types
<1>2. CASE g # 0 /\ gen = g
  <2>1. /\ gen' = gen + 1 /\ console' = Nobody /\ claimed' = FALSE
        /\ UNCHANGED <<born, backlog, writing, saidSoFar>>
    BY <1>2 DEF Release
  <2>2. gen' \in Nat /\ gen <= gen' /\ console' \in Holder \cup {Nobody}
    BY <1>1, <2>1
  <2>3. claimed' \in BOOLEAN
    BY <2>1
  <2> QED
    BY <1>2, <2>1, <2>2, <2>3
<1>3. CASE ~(g # 0 /\ gen = g)
  <2>1. UNCHANGED bridgeVars
    BY <1>3 DEF Release
  <2> QED
    BY <1>1, <1>3, <2>1 DEF bridgeVars
<1> QED
  BY <1>2, <1>3

LEMMA Claims ==
  ASSUME Types, NEW who \in Holder, Claim(who)
  PROVE  /\ UNCHANGED <<born, backlog, writing, saidSoFar>>
         /\ gen' = gen + 1 /\ gen' \in Nat /\ console' = who /\ claimed' = TRUE
BY DEF Claim, Types

(* Detach undoes the claim that is stored, and the link loses its client:   *)
(* late, if its claim is not stored yet.                                    *)
LEMMA Detaches ==
  ASSUME Types, NEW l \in Link, NEW who \in Locker, DetachReleases(l, who)
  PROVE  /\ Release(release[l]) /\ UNCHANGED <<release, got>> /\ Unlocked(l)
         /\ client' = [client EXCEPT ![l] = NoClient] /\ client'[l] = NoClient
         /\ \A k \in Link \ {l} : client'[k] = client[k] /\ locked'[k] = locked[k]
         /\ locked' \in [Link -> Locker \cup {"nobody"}]
         /\ late' = (late \/ (got[l] # 0 /\ got[l] = gen))
<1>1. Release(release[l])
  BY DEF DetachReleases, Release
<1>2. locked' = locked \/ locked' = [locked EXCEPT ![l] = who]
  BY DEF DetachReleases
<1>3. locked' \in [Link -> Locker \cup {"nobody"}] /\ \A k \in Link \ {l} : locked'[k] = locked[k]
  BY <1>2 DEF Types
<1> QED
  BY <1>1, <1>3 DEF DetachReleases, Types

-----------------------------------------------------------------------------
(* Types.                                                                   *)

LEMMA SaidGrows ==
  ASSUME NEW n \in Nat, NEW s \in Seq(1 .. n)
  PROVE  s \in Seq(1 .. n + 1)
<1>1. 1 .. n \subseteq 1 .. n + 1
  OBVIOUS
<1> QED
  BY <1>1, SeqMonotonic

LEMMA SaidNext ==
  ASSUME NEW n \in Nat, NEW s \in Seq(1 .. n)
  PROVE  /\ Append(s, n + 1) \in Seq(1 .. n + 1)
         /\ Len(Append(s, n + 1)) = Len(s) + 1 /\ Len(s) \in Nat
         /\ \A i \in 1 .. Len(s) : Append(s, n + 1)[i] = s[i] /\ s[i] \in 1 .. n
         /\ Append(s, n + 1)[Len(s) + 1] = n + 1
<1>1. s \in Seq(1 .. n + 1)
  BY SaidGrows
<1> QED
  BY <1>1

LEMMA NewestTyped ==
  ASSUME SerialPortAssumption, NEW S, NEW s \in Seq(S), Len(s) <= Backlog + 1
  PROVE  Newest(s) \in Seq(S) /\ Len(Newest(s)) <= Backlog
<1>1. Backlog \in Nat /\ Len(s) \in Nat
  BY Holders
<1>2. CASE Len(s) <= Backlog
  BY <1>2 DEF Newest
<1>3. CASE ~(Len(s) <= Backlog)
  <2>1. Len(s) = Backlog + 1 /\ s # << >>
    BY <1>1, <1>3
  <2>2. Tail(s) \in Seq(S) /\ Len(Tail(s)) = Len(s) - 1
    BY <2>1
  <2> QED
    BY <1>1, <1>3, <2>1, <2>2 DEF Newest
<1> QED
  BY <1>2, <1>3

LEMMA TypesSaid ==
  ASSUME SerialPortAssumption, Types, Say \/ Write
  PROVE  Types'
<1>1. saidSoFar \in Nat /\ MaxSaid \in Nat
  BY Holders DEF Types
<1>2. CASE Say
  <2>1. saidSoFar' = saidSoFar + 1 /\ saidSoFar' \in 0 .. MaxSaid
    BY <1>1, <1>2 DEF Say
  <2>2. /\ backlog \in Seq(1 .. saidSoFar') /\ buf \in Seq(1 .. saidSoFar')
        /\ pending \in Seq(1 .. saidSoFar') /\ scrollback \subseteq 1 .. saidSoFar'
    BY <1>1, <2>1, SaidGrows DEF Types
  <2>3. UNCHANGED <<console, claimed, gen, born, paneVars, linkVars, clientVars, sessionVars, late>>
    BY <1>2 DEF Say
  <2>4. CASE console = Nobody
    <3>1. backlog' = Newest(Append(backlog, saidSoFar')) /\ writing' = << >>
      BY <1>2, <2>4 DEF Say
    <3>2. /\ Append(backlog, saidSoFar') \in Seq(1 .. saidSoFar')
          /\ Len(Append(backlog, saidSoFar')) <= Backlog + 1
      <4>1. backlog \in Seq(1 .. saidSoFar) /\ Len(backlog) <= Backlog /\ Backlog \in Nat
        BY Holders DEF Types
      <4> QED
        BY <1>1, <2>1, <4>1, SaidNext
    <3>3. backlog' \in Seq(1 .. saidSoFar') /\ Len(backlog') <= Backlog
      BY <3>1, <3>2, NewestTyped
    <3> QED
      BY <2>1, <2>2, <2>3, <3>1, <3>3 DEF Types, paneVars, linkVars, clientVars, sessionVars
  <2>5. CASE console # Nobody
    <3>1. writing' = <<[to |-> console, what |-> saidSoFar']>> /\ backlog' = backlog
      BY <1>2, <2>5 DEF Say
    <3>2. [to |-> console, what |-> saidSoFar'] \in [to : Holder, what : 1 .. saidSoFar']
      BY <1>1, <2>1, <2>5 DEF Types
    <3>3. writing' \in Seq([to : Holder, what : 1 .. saidSoFar']) /\ Len(writing') <= 1
      BY <3>1, <3>2
    <3> QED
      BY <2>1, <2>2, <2>3, <3>1, <3>3 DEF Types, paneVars, linkVars, clientVars, sessionVars
  <2> QED
    BY <2>4, <2>5
<1>3. CASE Write
  <2>1. writing # << >> /\ writing \in Seq([to : Holder, what : 1 .. saidSoFar]) /\ Len(writing) <= 1
    BY <1>3 DEF Write, Types
  <2>2. writing[1] \in [to : Holder, what : 1 .. saidSoFar]
    <3>1. Len(writing) \in Nat /\ Len(writing) # 0
      BY <2>1
    <3>2. 1 \in 1 .. Len(writing)
      BY <3>1
    <3> QED
      BY <2>1, <3>2, ElementOfSeq
  <2>3. writing[1].what \in 1 .. saidSoFar
    BY <2>2
  <2>4. buf' \in Seq(1 .. saidSoFar)
    <3>1. buf' = buf \/ buf' = Append(buf, writing[1].what)
      BY <1>3 DEF Write
    <3>2. buf \in Seq(1 .. saidSoFar)
      BY DEF Types
    <3>3. Append(buf, writing[1].what) \in Seq(1 .. saidSoFar)
      BY <2>3, <3>2, AppendProperties
    <3> QED
      BY <3>1, <3>2, <3>3
  <2>5. writing' \in Seq([to : Holder, what : 1 .. saidSoFar]) /\ Len(writing') <= 1
    BY <1>3 DEF Write
  <2> QED
    BY <1>3, <2>4, <2>5 DEF Write, Types, linkVars, clientVars, sessionVars
<1> QED
  BY <1>2, <1>3

LEMMA TypesVerbs ==
  ASSUME SerialPortAssumption, Types, Session
  PROVE  Types'
<1> USE DEF Types
<1>1. CASE ConsoleFor
  <2>1. verb' \in [does : Doing, to : Link \cup {0}, next : After]
    BY <1>1 DEF ConsoleFor, Free, Doing, After
  <2>2. console' \in Holder \cup {Nobody}
    BY <1>1 DEF ConsoleFor, Holder
  <2>3. /\ backlog' \in Seq(1 .. saidSoFar) /\ Len(backlog') <= Backlog
        /\ pending' \in Seq(1 .. saidSoFar)
    <3>1. << >> \in Seq(1 .. saidSoFar) /\ Len(<< >>) = 0 /\ Backlog \in Nat
      BY Holders, EmptySeq
    <3>2. \/ backlog' = backlog /\ pending' = pending
          \/ backlog' = << >> /\ pending' = backlog
      BY <1>1 DEF ConsoleFor
    <3>3. backlog \in Seq(1 .. saidSoFar) /\ Len(backlog) <= Backlog /\ pending \in Seq(1 .. saidSoFar)
      OBVIOUS
    <3>4. backlog' \in Seq(1 .. saidSoFar) /\ pending' \in Seq(1 .. saidSoFar)
      BY <3>1, <3>2, <3>3
    <3>5. Len(backlog') <= Backlog
      BY <3>1, <3>2, <3>3
    <3> QED
      BY <3>4, <3>5
  <2> QED
    BY <1>1, <2>1, <2>2, <2>3 DEF ConsoleFor, linkVars, clientVars
<1>2. CASE Scrollback
  <2>1. buf' \in Seq(1 .. saidSoFar) /\ pending' \in Seq(1 .. saidSoFar)
    BY <1>2 DEF Scrollback
  <2>2. scrollback' \subseteq 1 .. saidSoFar
    <3>1. \A i \in 1 .. Len(pending) : pending[i] \in 1 .. saidSoFar
      BY ElementOfSeq
    <3> QED
      BY <1>2, <3>1 DEF Scrollback
  <2>3. verb' \in [does : Doing, to : Link \cup {0}, next : After]
    BY <1>2 DEF Scrollback, Free, Doing, After
  <2> QED
    BY <1>2, <2>1, <2>2, <2>3 DEF Scrollback, bridgeVars, linkVars, clientVars
<1>3. CASE Connect
  <2>1. verb' \in [does : Doing, to : Link \cup {0}, next : After]
    BY <1>3 DEF Connect, Then, CloseLink, Doing, After
  <2> QED
    BY <1>3, <2>1 DEF Connect, bridgeVars, paneVars, clientVars
<1>4. CASE SessionClaims
  <2>1. verb' \in [does : Doing, to : Link \cup {0}, next : After]
    BY <1>4 DEF SessionClaims, Free, Doing, After
  <2>2. Companion \in Holder
    BY DEF Holder
  <2>3. Claim(Companion)
    BY <1>4 DEF SessionClaims
  <2>4. /\ UNCHANGED <<born, backlog, writing, saidSoFar>> /\ gen' = gen + 1
        /\ console' = Companion /\ claimed' = TRUE
    BY <2>2, <2>3, Claims
  <2>5. born' \in 0 .. gen' /\ gen' \in Nat /\ compGen' \in 0 .. gen'
    BY <1>4, <2>4 DEF SessionClaims
  <2>6. comp' \in BOOLEAN /\ late' \in BOOLEAN /\ claimed' \in BOOLEAN
    BY <1>4, <2>4 DEF SessionClaims
  <2>7. release' \in [Link -> 0 .. gen'] /\ got' \in [Link -> 0 .. gen']
    BY <1>4, <2>4 DEF SessionClaims, linkVars
  <2> QED
    BY <1>4, <2>1, <2>2, <2>4, <2>5, <2>6, <2>7 DEF SessionClaims, paneVars, linkVars, clientVars
<1>5. ASSUME NEW g, Release(g)
      PROVE  /\ UNCHANGED <<born, backlog, writing, saidSoFar>>
             /\ gen' \in Nat /\ born' \in 0 .. gen' /\ compGen \in 0 .. gen'
             /\ release \in [Link -> 0 .. gen'] /\ got \in [Link -> 0 .. gen']
             /\ console' \in Holder \cup {Nobody} /\ claimed' \in BOOLEAN
  <2>1. /\ UNCHANGED <<born, backlog, writing, saidSoFar>> /\ gen' \in Nat /\ gen <= gen'
        /\ console' \in Holder \cup {Nobody} /\ claimed' \in BOOLEAN
    BY <1>5, Releases
  <2>2. 0 .. gen \subseteq 0 .. gen'
    BY <2>1
  <2> QED
    BY <2>1, <2>2
<1>6. CASE Disconnect
  <2>1. Release(compGen) /\ comp' = FALSE
    BY <1>6 DEF Disconnect
  <2> QED
    BY <1>5, <1>6, <2>1 DEF Disconnect, paneVars, linkVars, clientVars
<1>7. CASE Serve
  <2>1. verb' \in [does : Doing, to : Link \cup {0}, next : After]
    BY <1>7 DEF Serve, Then, CloseLink, Doing, After
  <2>2. /\ UNCHANGED <<born, backlog, writing, saidSoFar>>
        /\ gen' \in Nat /\ born' \in 0 .. gen' /\ compGen \in 0 .. gen'
        /\ release \in [Link -> 0 .. gen'] /\ got \in [Link -> 0 .. gen']
        /\ console' \in Holder \cup {Nobody} /\ claimed' \in BOOLEAN
    <3>1. CASE Release(compGen)
      BY <1>5, <3>1
    <3>2. CASE UNCHANGED bridgeVars
      BY <3>2 DEF bridgeVars
    <3> QED
      BY <1>7, <3>1, <3>2 DEF Serve
  <2> QED
    BY <1>7, <2>1, <2>2 DEF Serve, paneVars, clientVars
<1>8. CASE Drop
  <2>1. verb' \in [does : Doing, to : Link \cup {0}, next : After]
    BY <1>8 DEF Drop, CloseLink, Doing, After
  <2> QED
    BY <1>8, <2>1 DEF Drop, bridgeVars, paneVars, clientVars
<1>9. ASSUME NEW l \in Link, Listen(l)
      PROVE  Types'
  <2>1. verb' \in [does : Doing, to : Link \cup {0}, next : After]
    BY <1>9 DEF Listen, Free, Doing, After
  <2> QED
    BY <1>9, <2>1 DEF Listen, bridgeVars, paneVars, clientVars
<1>10. ASSUME NEW l \in Link, ClosePipe(l)
       PROVE  Types'
  <2>1. verb' \in [does : Doing, to : Link \cup {0}, next : After]
    BY <1>10 DEF ClosePipe, Doing, After
  <2>2. /\ Release(release[l]) /\ UNCHANGED <<release, got>>
        /\ locked' \in [Link -> Locker \cup {"nobody"}] /\ late' \in BOOLEAN
        /\ client' = [client EXCEPT ![l] = NoClient]
    BY <1>10, Detaches DEF ClosePipe, Locker
  <2>3. release' \in [Link -> 0 .. gen'] /\ got' \in [Link -> 0 .. gen']
    BY <1>5, <2>2
  <2>4. client' \in [Link -> Client \cup {NoClient}] /\ link' \in [Link -> {"off", "open", "closing", "closed"}]
    BY <1>10, <2>2 DEF ClosePipe
  <2> QED
    BY <1>5, <1>10, <2>1, <2>2, <2>3, <2>4 DEF ClosePipe, paneVars, clientVars
<1>11. ASSUME NEW l \in Link, CloseListener(l)
       PROVE  Types'
  <2>1. verb' \in [does : Doing, to : Link \cup {0}, next : After]
    BY <1>11 DEF CloseListener, Then, Doing, After
  <2> QED
    BY <1>11, <2>1 DEF CloseListener, bridgeVars, paneVars, clientVars
<1> QED
  BY <1>1, <1>2, <1>3, <1>4, <1>6, <1>7, <1>8, <1>9, <1>10, <1>11 DEF Session

LEMMA TypesOutside ==
  ASSUME SerialPortAssumption, Types, Coming, NEW c \in Client, Outside(c)
  PROVE  Types'
<1> USE DEF Types
<1>1. ASSUME NEW g, Release(g)
      PROVE  /\ UNCHANGED <<born, backlog, writing, saidSoFar>>
             /\ gen' \in Nat /\ born' \in 0 .. gen' /\ compGen \in 0 .. gen'
             /\ release \in [Link -> 0 .. gen'] /\ got \in [Link -> 0 .. gen']
             /\ console' \in Holder \cup {Nobody} /\ claimed' \in BOOLEAN
  <2>1. /\ UNCHANGED <<born, backlog, writing, saidSoFar>> /\ gen' \in Nat /\ gen <= gen'
        /\ console' \in Holder \cup {Nobody} /\ claimed' \in BOOLEAN
    BY <1>1, Releases
  <2>2. 0 .. gen \subseteq 0 .. gen'
    BY <2>1
  <2> QED
    BY <2>1, <2>2
<1>2. ASSUME at[c] # "out"
      PROVE  via[c] \in Link
  BY <1>2 DEF Coming
<1>3. ASSUME NEW l \in Link, Accept(c, l)
      PROVE  Types'
  BY <1>3 DEF Accept, Place, Mid, bridgeVars, paneVars, linkVars, sessionVars
<1>4. CASE AttachClient(c)
  BY <1>2, <1>4 DEF AttachClient, Place, Mid, bridgeVars, paneVars, sessionVars
<1>5. CASE AttachLooks(c)
  BY <1>5 DEF AttachLooks, Place, Mid, bridgeVars, paneVars, linkVars, sessionVars
<1>6. CASE AttachLetsGo(c)
  <2>1. at' \in [Client -> Place]
    BY <1>6 DEF AttachLetsGo, Place, Mid
  <2>2. CASE Release(release[via[c]])
    BY <1>1, <1>6, <2>1, <2>2 DEF AttachLetsGo, paneVars, linkVars, sessionVars
  <2>3. CASE UNCHANGED bridgeVars
    BY <1>6, <2>1, <2>3 DEF AttachLetsGo, bridgeVars, paneVars, linkVars, sessionVars
  <2> QED
    BY <1>6, <2>2, <2>3 DEF AttachLetsGo
<1>7. CASE AttachClaims(c)
  <2>1. via[c] \in Link /\ via[c] \in Holder /\ Claim(via[c])
    BY <1>2, <1>7 DEF AttachClaims, Holder
  <2>2. /\ UNCHANGED <<born, backlog, writing, saidSoFar>> /\ gen' = gen + 1
        /\ console' = via[c] /\ claimed' = TRUE
    BY <2>1, Claims
  <2>3. born' \in 0 .. gen' /\ gen' \in Nat /\ compGen \in 0 .. gen'
    BY <2>2
  <2>4. release' \in [Link -> 0 .. gen'] /\ got' \in [Link -> 0 .. gen']
    <3>1. /\ release \in [Link -> 0 .. gen'] /\ got \in [Link -> 0 .. gen']
          /\ gen' \in 0 .. gen'
      BY <2>2
    <3> QED
      BY <1>7, <3>1 DEF AttachClaims
  <2>5. late' \in BOOLEAN /\ at' \in [Client -> Place]
    BY <1>7 DEF AttachClaims, Place, Mid
  <2> QED
    BY <1>7, <2>1, <2>2, <2>3, <2>4, <2>5 DEF AttachClaims, paneVars, sessionVars
<1>8. CASE AttachStores(c)
  <2>1. via[c] \in Link
    BY <1>2, <1>8 DEF AttachStores
  <2>2. /\ release' \in [Link -> 0 .. gen] /\ got' \in [Link -> 0 .. gen]
        /\ at' \in [Client -> Place]
    BY <1>8, <2>1 DEF AttachStores, Place, Mid
  <2> QED
    BY <1>8, <2>2 DEF AttachStores, bridgeVars, paneVars, sessionVars
<1>9. ASSUME NEW who \in Locker, via[c] \in Link, DetachReleases(via[c], who)
      PROVE  /\ UNCHANGED <<born, backlog, writing, saidSoFar>>
             /\ gen' \in Nat /\ born' \in 0 .. gen' /\ compGen \in 0 .. gen'
             /\ release' \in [Link -> 0 .. gen'] /\ got' \in [Link -> 0 .. gen']
             /\ locked' \in [Link -> Locker \cup {"nobody"}] /\ late' \in BOOLEAN
             /\ console' \in Holder \cup {Nobody} /\ claimed' \in BOOLEAN
             /\ client' \in [Link -> Client \cup {NoClient}]
  <2>1. /\ Release(release[via[c]]) /\ UNCHANGED <<release, got>>
        /\ locked' \in [Link -> Locker \cup {"nobody"}] /\ late' \in BOOLEAN
        /\ client' = [client EXCEPT ![via[c]] = NoClient]
    BY <1>9, Detaches
  <2>2. client' \in [Link -> Client \cup {NoClient}]
    BY <2>1
  <2> QED
    BY <1>1, <2>1, <2>2
<1>10. CASE ClientEnds(c)
  <2>1. via[c] \in Link /\ at' \in [Client -> Place]
    BY <1>2, <1>10 DEF ClientEnds, Place
  <2>2. CASE client[via[c]] = c
    BY <1>9, <1>10, <2>1, <2>2 DEF ClientEnds, Locker, paneVars, sessionVars
  <2>3. CASE client[via[c]] # c
    BY <1>10, <2>1, <2>3 DEF ClientEnds, bridgeVars, paneVars, sessionVars
  <2> QED
    BY <2>2, <2>3
<1>11. CASE WriteFails(c)
  <2>1. via[c] \in Link
    BY <1>2, <1>11 DEF WriteFails, Attaching
  <2> QED
    BY <1>9, <1>11, <2>1 DEF WriteFails, Locker, paneVars, clientVars, sessionVars
<1> QED
  BY <1>3, <1>4, <1>5, <1>6, <1>7, <1>8, <1>10, <1>11 DEF Outside

LEMMA TypesNext ==
  ASSUME SerialPortAssumption, Types, Coming, Next
  PROVE  Types'
<1>1. CASE Restart
  <2>1. gen' \in Nat /\ born' \in 0 .. gen' /\ gen' = gen + 1
    BY <1>1 DEF Restart, Types
  <2>2. 0 .. gen \subseteq 0 .. gen'
    BY <2>1 DEF Types
  <2>3. release' \in [Link -> 0 .. gen'] /\ got' \in [Link -> 0 .. gen'] /\ compGen' \in 0 .. gen'
    BY <1>1, <2>2 DEF Restart, linkVars, sessionVars, Types
  <2>4. /\ backlog' \in Seq(1 .. saidSoFar) /\ Len(backlog') <= Backlog
        /\ buf' \in Seq(1 .. saidSoFar) /\ pending' \in Seq(1 .. saidSoFar)
    BY <1>1, Holders, EmptySeq DEF Restart
  <2> QED
    BY <1>1, <2>1, <2>3, <2>4 DEF Restart, Types, linkVars, clientVars, sessionVars
<1>2. ASSUME NEW l \in Link, DetachClears(l)
      PROVE  Types'
  BY <1>2 DEF DetachClears, Types, bridgeVars, paneVars, clientVars, sessionVars
<1> QED
  BY <1>1, <1>2, TypesSaid, TypesVerbs, TypesOutside DEF Next

-----------------------------------------------------------------------------
(* Who holds the port.  One lemma for each part of Held: a step of its      *)
(* proof for each action that disturbs the part, and one for the others.    *)

(* A client that lets go, or goes, undoes the claim its link has stored, or *)
(* leaves the bridge alone.                                                 *)
LEMMA OutsideReleases ==
  ASSUME Types, Coming, NEW c \in Client, AttachLetsGo(c) \/ ClientEnds(c) \/ WriteFails(c)
  PROVE  /\ via[c] \in Link
         /\ Release(release[via[c]]) \/ UNCHANGED <<console, claimed, gen, born, backlog, writing,
                                                    saidSoFar>>
<1>1. via[c] \in Link
  BY DEF Coming, AttachLetsGo, ClientEnds, WriteFails, Attaching
<1>2. CASE AttachLetsGo(c)
  BY <1>1, <1>2 DEF AttachLetsGo, bridgeVars
<1>3. CASE ClientEnds(c) \/ WriteFails(c)
  <2>1. \/ \E who \in Locker : DetachReleases(via[c], who)
        \/ UNCHANGED bridgeVars
    BY <1>3 DEF ClientEnds, WriteFails, Locker
  <2> QED
    BY <1>1, <2>1, Detaches DEF bridgeVars
<1> QED
  BY <1>2, <1>3

LEMMA ClaimedNext ==
  ASSUME SerialPortAssumption, Types, Claimed, Coming, Next
  PROVE  Claimed'
<1>1. ASSUME NEW g, Release(g)
      PROVE  Claimed'
  BY <1>1, Releases DEF Claimed
<1>2. ASSUME NEW who \in Holder \ {Pane}, Claim(who)
      PROVE  Claimed'
  <2>1. gen' = gen + 1 /\ gen \in Nat /\ console' = who /\ claimed' = TRUE
    BY <1>2, Claims DEF Types
  <2>2. who \notin {Nobody, Pane}
    BY Holders DEF Holder
  <2> QED
    BY <2>1, <2>2 DEF Claimed
<1>3. ASSUME UNCHANGED <<console, claimed, gen>>
      PROVE  Claimed'
  BY <1>3 DEF Claimed
<1>4. CASE Say \/ Write \/ Scrollback \/ Connect \/ Drop
  BY <1>3, <1>4 DEF Say, Write, Scrollback, Connect, Drop, bridgeVars
<1>5. CASE Restart
  BY <1>5 DEF Restart, Claimed
<1>6. CASE ConsoleFor
  BY <1>6 DEF ConsoleFor, Claimed
<1>7. CASE SessionClaims
  <2>1. Companion \in Holder \ {Pane}
    BY Holders DEF Holder
  <2> QED
    BY <1>2, <1>7, <2>1 DEF SessionClaims
<1>8. CASE Disconnect \/ Serve
  BY <1>1, <1>3, <1>8 DEF Disconnect, Serve, bridgeVars
<1>9. ASSUME NEW l \in Link, Listen(l) \/ ClosePipe(l) \/ CloseListener(l) \/ DetachClears(l)
      PROVE  Claimed'
  <2>1. ClosePipe(l) => Release(release[l])
    BY Detaches DEF ClosePipe, Locker
  <2> QED
    BY <1>1, <1>3, <1>9, <2>1 DEF Listen, CloseListener, DetachClears, bridgeVars
<1>10. ASSUME NEW c \in Client, Outside(c)
       PROVE  Claimed'
  <2>1. CASE AttachClaims(c)
    <3>1. via[c] \in Holder \ {Pane}
      BY <2>1, Holders DEF AttachClaims, Coming, Holder
    <3> QED
      BY <1>2, <2>1, <3>1 DEF AttachClaims
  <2>2. CASE AttachLetsGo(c) \/ ClientEnds(c) \/ WriteFails(c)
    BY <1>1, <1>3, <2>2, OutsideReleases
  <2>3. CASE (\E l \in Link : Accept(c, l)) \/ AttachClient(c) \/ AttachLooks(c) \/ AttachStores(c)
    BY <1>3, <2>3 DEF Accept, AttachClient, AttachLooks, AttachStores, bridgeVars
  <2> QED
    BY <1>10, <2>1, <2>2, <2>3 DEF Outside
<1> QED
  BY <1>4, <1>5, <1>6, <1>7, <1>8, <1>9, <1>10 DEF Next, Session

LEMMA ServingNext ==
  ASSUME SerialPortAssumption, Types, Serving, Next
  PROVE  Serving'
<1>1. ASSUME UNCHANGED <<verb, served, comp, link>>
      PROVE  Serving'
  BY <1>1 DEF Serving
<1>2. CASE Say \/ Write \/ Restart
  BY <1>1, <1>2 DEF Say, Write, Restart, sessionVars, linkVars
<1>3. CASE (\E c \in Client : Outside(c)) \/ (\E l \in Link : DetachClears(l))
  BY <1>1, <1>3 DEF Outside, Accept, AttachClient, AttachLooks, AttachLetsGo, AttachClaims,
       AttachStores, ClientEnds, WriteFails, DetachClears, sessionVars, linkVars
<1>4. CASE ConsoleFor \/ Scrollback
  BY <1>4 DEF ConsoleFor, Scrollback, Free, Serving, linkVars
<1>5. CASE Connect
  BY <1>5 DEF Connect, Free, Then, CloseLink, Serving, Types
<1>6. CASE SessionClaims
  BY <1>6 DEF SessionClaims, Free, Serving, linkVars
<1>7. CASE Disconnect
  BY <1>7 DEF Disconnect, Serving, Free, linkVars
<1>8. CASE Serve
  BY <1>8 DEF Serve, Free, Then, CloseLink, Serving, Types
<1>9. CASE Drop
  BY <1>9 DEF Drop, Free, CloseLink, Serving, Types
<1>10. ASSUME NEW l \in Link, Listen(l)
       PROVE  Serving'
  BY <1>10, Holders DEF Listen, Free, Serving, Types
<1>11. ASSUME NEW l \in Link, ClosePipe(l)
       PROVE  Serving'
  BY <1>11, Holders DEF ClosePipe, Serving, Types
<1>12. ASSUME NEW l \in Link, CloseListener(l)
       PROVE  Serving'
  BY <1>12, Holders DEF CloseListener, Then, Serving, Types, After
<1> QED
  BY <1>2, <1>3, <1>4, <1>5, <1>6, <1>7, <1>8, <1>9, <1>10, <1>11, <1>12 DEF Next, Session

LEMMA UndoesNext ==
  ASSUME SerialPortAssumption, Types, Undoes, Coming, Next
  PROVE  Undoes'
<1>1. ASSUME UNCHANGED <<release, got>>, comp' => comp /\ compGen' = compGen
      PROVE  Undoes'
  BY <1>1 DEF Undoes
<1>2. ASSUME NEW l \in Link, DetachClears(l)
      PROVE  Undoes'
  <2>1. /\ UNCHANGED <<got, comp, compGen>>
        /\ release'[l] = 0 /\ \A k \in Link \ {l} : release'[k] = release[k]
        /\ \A k \in Link : got[k] \in Nat
    BY <1>2 DEF DetachClears, Types, sessionVars
  <2>2. \A k \in Link : release'[k] \in {0, release[k]}
    BY <2>1
  <2>3. \A k, h \in Link : k # h /\ release'[k] = release'[h] => release'[k] = 0
    BY <2>1 DEF Undoes
  <2>4. \A k, h \in Link : got[k] = release'[h] => got[k] = 0
    BY <2>2 DEF Undoes
  <2>5. \A k \in Link : got[k] # 0 => release'[k] < got[k]
    BY <2>1, <2>2 DEF Undoes
  <2>6. comp => compGen # 0 /\ \A k \in Link : release'[k] # compGen /\ got[k] # compGen
    BY <2>2 DEF Undoes
  <2> QED
    BY <2>1, <2>3, <2>4, <2>5, <2>6 DEF Undoes
<1>3. /\ gen \in Nat /\ compGen <= gen
      /\ \A l \in Link : /\ release[l] \in Nat /\ release[l] <= gen
                         /\ got[l] \in Nat /\ got[l] <= gen
  BY DEF Types
<1>4. CASE Say \/ Write \/ Restart
  BY <1>1, <1>4 DEF Say, Write, Restart, linkVars, sessionVars
<1>5. CASE ConsoleFor \/ Scrollback \/ Connect \/ Drop \/ Disconnect \/ Serve
  BY <1>1, <1>5 DEF ConsoleFor, Scrollback, Connect, Drop, Disconnect, Serve, linkVars
<1>6. CASE SessionClaims
  <2>1. compGen' = gen + 1 /\ UNCHANGED <<release, got>>
    BY <1>6 DEF SessionClaims, Claim, linkVars
  <2>2. \A l \in Link : release[l] # compGen' /\ got[l] # compGen'
    BY <1>3, <2>1
  <2> QED
    BY <1>3, <2>1, <2>2 DEF Undoes
<1>7. ASSUME NEW l \in Link, Listen(l) \/ ClosePipe(l) \/ CloseListener(l)
      PROVE  Undoes'
  <2>1. ClosePipe(l) => UNCHANGED <<release, got>>
    BY DEF ClosePipe, DetachReleases
  <2> QED
    BY <1>1, <1>7, <2>1 DEF Listen, ClosePipe, CloseListener
<1>8. ASSUME NEW c \in Client, Outside(c)
      PROVE  Undoes'
  <2>1. CASE AttachClaims(c)
    <3>1. /\ via[c] \in Link /\ UNCHANGED <<release, comp, compGen>>
          /\ got' = [got EXCEPT ![via[c]] = gen + 1]
      BY <2>1 DEF AttachClaims, Coming, Claim, sessionVars
    <3>2. got'[via[c]] = gen + 1 /\ \A k \in Link \ {via[c]} : got'[k] = got[k]
      BY <3>1 DEF Types
    <3>3. \A k, l \in Link : k # l /\ got'[k] = got'[l] => got'[k] = 0
      BY <1>3, <3>2 DEF Undoes
    <3>4. \A k, l \in Link : got'[k] = release[l] => got'[k] = 0
      BY <1>3, <3>2 DEF Undoes
    <3>5. \A l \in Link : got'[l] # 0 => release[l] < got'[l]
      BY <1>3, <3>2 DEF Undoes
    <3>6. comp => compGen # 0 /\ \A l \in Link : release[l] # compGen /\ got'[l] # compGen
      BY <1>3, <3>2 DEF Undoes
    <3>7. \A k, l \in Link : k # l /\ release[k] = release[l] => release[k] = 0
      BY DEF Undoes
    <3> QED
      BY <3>1, <3>3, <3>4, <3>5, <3>6, <3>7 DEF Undoes
  <2>2. CASE AttachStores(c)
    <3>1. /\ via[c] \in Link /\ UNCHANGED <<comp, compGen>>
          /\ release' = [release EXCEPT ![via[c]] = got[via[c]]] /\ got' = [got EXCEPT ![via[c]] = 0]
      BY <2>2 DEF AttachStores, Coming, sessionVars
    <3>2. /\ release'[via[c]] = got[via[c]] /\ got'[via[c]] = 0
          /\ \A k \in Link \ {via[c]} : release'[k] = release[k] /\ got'[k] = got[k]
      BY <3>1 DEF Types
    <3>3. \A k, l \in Link : k # l /\ release'[k] = release'[l] => release'[k] = 0
      BY <3>2 DEF Undoes
    <3>4. \A k, l \in Link : k # l /\ got'[k] = got'[l] => got'[k] = 0
      BY <3>2 DEF Undoes
    <3>5. \A k, l \in Link : got'[k] = release'[l] => got'[k] = 0
      BY <3>2 DEF Undoes
    <3>6. \A l \in Link : got'[l] # 0 => release'[l] < got'[l]
      BY <3>2 DEF Undoes
    <3>7. comp => compGen # 0 /\ \A l \in Link : release'[l] # compGen /\ got'[l] # compGen
      BY <3>2 DEF Undoes
    <3> QED
      BY <3>1, <3>3, <3>4, <3>5, <3>6, <3>7 DEF Undoes
  <2>3. CASE ClientEnds(c) \/ WriteFails(c)
    BY <1>1, <2>3 DEF ClientEnds, WriteFails, DetachReleases, sessionVars
  <2>4. CASE (\E l \in Link : Accept(c, l)) \/ AttachClient(c) \/ AttachLooks(c) \/ AttachLetsGo(c)
    BY <1>1, <2>4 DEF Accept, AttachClient, AttachLooks, AttachLetsGo, linkVars, sessionVars
  <2> QED
    BY <1>8, <2>1, <2>2, <2>3, <2>4 DEF Outside
<1> QED
  BY <1>2, <1>4, <1>5, <1>6, <1>7, <1>8 DEF Next, Session

LEMMA ComingNext ==
  ASSUME SerialPortAssumption, Types, Coming, Undoes, Next
  PROVE  Coming'
<1>1. ASSUME UNCHANGED <<at, via, client, got, locked>>,
             \A l \in Link : link[l] # "off" => link'[l] # "off"
      PROVE  Coming'
  BY <1>1 DEF Coming, Unlocked
<1>2. CASE Say \/ Write \/ Restart
  BY <1>1, <1>2 DEF Say, Write, Restart, linkVars, clientVars
<1>3. CASE ConsoleFor \/ Scrollback \/ Connect \/ Drop \/ Disconnect \/ Serve \/ SessionClaims
  BY <1>1, <1>3 DEF ConsoleFor, Scrollback, Connect, Drop, Disconnect, Serve, SessionClaims, linkVars, clientVars
<1>4. ASSUME NEW l \in Link, Listen(l) \/ CloseListener(l)
      PROVE  Coming'
  BY <1>1, <1>4 DEF Listen, CloseListener, clientVars, Types
(* A client is dropped: its link has none, and the lock may be kept. *)
<1>5. ASSUME NEW l \in Link, NEW who \in Locker, DetachReleases(l, who), UNCHANGED via,
             \A k \in Link : link[k] # "off" => link'[k] # "off",
             \A d \in Client : at'[d] = at[d] \/ (at[d] # "out" /\ at'[d] = "gone")
      PROVE  Coming'
  <2>1. /\ client'[l] = NoClient /\ got' = got
        /\ \A k \in Link \ {l} : client'[k] = client[k] /\ locked'[k] = locked[k]
    BY <1>5, Detaches
  <2>2. \A k \in Link : client'[k] \in {client[k], NoClient}
    BY <2>1
  <2>3. \A k \in Link : ~Unlocked(k)' => client'[k] = NoClient
    BY <2>1 DEF Coming, Unlocked
  <2>4. /\ \A c \in Client : at'[c] # "out" => via'[c] \in Link
        /\ \A c \in Client : via'[c] \in Link => link'[via'[c]] # "off"
    BY <1>5 DEF Coming
  <2>5. \A c \in Client : at'[c] \in Mid => at[c] = at'[c]
    BY <1>5 DEF Mid
  <2>6. \A c, d \in Client : c # d /\ at'[c] \in Mid /\ at'[d] \in Mid => via'[c] # via'[d]
    BY <1>5, <2>5 DEF Coming
  <2>7. \A c \in Client : at'[c] \in Mid \ {"accepted"} => client'[via'[c]] \in {c, NoClient}
    BY <1>5, <2>2, <2>4, <2>5 DEF Coming, Mid
  <2>8. \A c \in Client : at'[c] = "storing" => got'[via'[c]] # 0
    BY <1>5, <2>1, <2>5 DEF Coming, Mid
  <2> QED
    BY <2>3, <2>4, <2>6, <2>7, <2>8 DEF Coming
<1>6. ASSUME NEW l \in Link, ClosePipe(l)
      PROVE  Coming'
  <2>1. /\ UNCHANGED <<at, via>> /\ DetachReleases(l, "store") /\ "store" \in Locker
        /\ link' = [link EXCEPT ![l] = "closing"]
    BY <1>6 DEF ClosePipe, clientVars, Locker
  <2>2. \A k \in Link : link[k] # "off" => link'[k] # "off"
    BY <2>1 DEF Types
  <2> QED
    BY <1>5, <2>1, <2>2
<1>7. ASSUME NEW c \in Client, NEW l \in Link, Accept(c, l)
      PROVE  Coming'
  <2>1. /\ UNCHANGED <<link, client, got, locked>> /\ at[c] = "out"
        /\ at' = [at EXCEPT ![c] = "accepted"] /\ via' = [via EXCEPT ![c] = l]
        /\ link[l] # "off"
    BY <1>7 DEF Accept, linkVars
  <2>2. /\ at'[c] = "accepted" /\ via'[c] = l
        /\ \A d \in Client \ {c} : at'[d] = at[d] /\ via'[d] = via[d]
    BY <2>1 DEF Types
  <2>3. \A d \in Client : at[d] \in Mid => via[d] # l
    BY <1>7 DEF Accept, Mid, Attaching
  <2> QED
    BY <2>1, <2>2, <2>3 DEF Coming, Mid, Unlocked
<1>8. ASSUME NEW c \in Client, AttachClient(c)
      PROVE  Coming'
  <2>1. /\ UNCHANGED <<link, via, got, locked>> /\ at[c] = "accepted" /\ via[c] \in Link
        /\ at' = [at EXCEPT ![c] = "letting"] /\ client' = [client EXCEPT ![via[c]] = c]
        /\ Unlocked(via[c])
    BY <1>8 DEF AttachClient, Coming
  <2>2. /\ at'[c] = "letting" /\ \A d \in Client \ {c} : at'[d] = at[d]
        /\ client'[via[c]] = c /\ \A l \in Link \ {via[c]} : client'[l] = client[l]
    BY <2>1 DEF Types
  <2>3. \A d \in Client \ {c} : at[d] \in Mid => via[d] # via[c]
    BY <2>1 DEF Coming, Mid
  <2>4. \A l \in Link : ~Unlocked(l)' => client'[l] = NoClient
    BY <2>1, <2>2 DEF Coming, Unlocked
  <2> QED
    BY <2>1, <2>2, <2>3, <2>4 DEF Coming, Mid
<1>9. ASSUME NEW c \in Client, AttachLooks(c) \/ AttachLetsGo(c)
      PROVE  Coming'
  <2>1. /\ UNCHANGED <<link, via, client, got, locked>> /\ at[c] \in {"letting", "calling"}
        /\ at'[c] \in {"calling", "claiming", "panicked"}
        /\ \A d \in Client \ {c} : at'[d] = at[d]
    BY <1>9 DEF AttachLooks, AttachLetsGo, linkVars, Types
  <2> QED
    BY <2>1 DEF Coming, Mid, Unlocked
<1>10. ASSUME NEW c \in Client, AttachClaims(c)
       PROVE  Coming'
  <2>1. /\ UNCHANGED <<link, via, client, locked>> /\ at[c] = "claiming" /\ via[c] \in Link
        /\ got' = [got EXCEPT ![via[c]] = gen + 1]
        /\ at'[c] = "storing" /\ \A d \in Client \ {c} : at'[d] = at[d]
    BY <1>10 DEF AttachClaims, Claim, Coming, Types
  <2>2. got'[via[c]] # 0 /\ \A l \in Link \ {via[c]} : got'[l] = got[l]
    BY <2>1 DEF Types
  <2>3. \A d \in Client : at'[d] \in Mid => at[d] \in Mid
    BY <2>1 DEF Mid
  <2>4. \A d \in Client : at'[d] = "storing" => got'[via'[d]] # 0
    BY <2>1, <2>2 DEF Coming
  <2> QED
    BY <2>1, <2>3, <2>4 DEF Coming, Mid, Unlocked
(* Nobody else of this link has a claim to store. *)
<1>11. ASSUME NEW c \in Client, AttachStores(c)
       PROVE  Coming'
  <2>1. /\ UNCHANGED <<link, via, client, locked>> /\ at[c] = "storing" /\ via[c] \in Link
        /\ got' = [got EXCEPT ![via[c]] = 0]
        /\ at'[c] = "on" /\ \A d \in Client \ {c} : at'[d] = at[d]
    BY <1>11 DEF AttachStores, Coming, Types
  <2>2. \A l \in Link \ {via[c]} : got'[l] = got[l]
    BY <2>1 DEF Types
  <2>3. \A d \in Client \ {c} : at[d] \in Mid => via[d] # via[c]
    BY <2>1 DEF Coming, Mid
  <2>4. \A d \in Client : at'[d] = "storing" => got'[via'[d]] # 0
    BY <2>1, <2>2, <2>3 DEF Coming, Mid
  <2> QED
    BY <2>1, <2>4 DEF Coming, Mid, Unlocked
<1>12. ASSUME NEW c \in Client, ClientEnds(c)
       PROVE  Coming'
  <2>1. /\ UNCHANGED <<link, via>> /\ via[c] \in Link /\ at[c] = "on"
        /\ at'[c] = "gone" /\ \A d \in Client \ {c} : at'[d] = at[d]
    BY <1>12 DEF ClientEnds, Coming, Types
  <2>2. CASE client[via[c]] = c
    <3>1. DetachReleases(via[c], "client") /\ "client" \in Locker
      BY <1>12, <2>2 DEF ClientEnds, Locker
    <3> QED
      BY <1>5, <2>1, <3>1
  <2>3. CASE client[via[c]] # c
    <3>1. UNCHANGED <<client, got, locked>>
      BY <1>12, <2>3 DEF ClientEnds
    <3> QED
      BY <2>1, <3>1 DEF Coming, Mid, Unlocked
  <2> QED
    BY <2>2, <2>3
<1>13. ASSUME NEW c \in Client, WriteFails(c)
       PROVE  Coming'
  <2>1. /\ UNCHANGED <<link, via, at>> /\ via[c] \in Link
        /\ DetachReleases(via[c], "reader") /\ "reader" \in Locker
    BY <1>13 DEF WriteFails, Attaching, Coming, clientVars, Locker
  <2> QED
    BY <1>5, <2>1
<1>14. ASSUME NEW l \in Link, DetachClears(l)
       PROVE  Coming'
  <2>1. /\ UNCHANGED <<at, via, client, got, link>>
        /\ \A k \in Link : ~Unlocked(k)' => ~Unlocked(k)
    BY <1>14 DEF DetachClears, clientVars, Unlocked, Types
  <2> QED
    BY <2>1 DEF Coming
<1> QED
  BY <1>2, <1>3, <1>4, <1>6, <1>7, <1>8, <1>9, <1>10, <1>11, <1>12, <1>13, <1>14
     DEF Next, Session, Outside

(* One link is open at most, and none while the session is connected or is  *)
(* about to claim.                                                          *)
LEMMA OneOpen ==
  ASSUME SerialPortAssumption, Serving, NEW l \in Link, link[l] = "open"
  PROVE  /\ ~comp /\ verb.does # "claim"
         /\ \A k \in Link : link[k] = "open" => k = l
<1>1. 0 \notin Link
  BY Holders
<1>2. ~comp /\ verb.does # "claim"
  BY <1>1 DEF Serving
<1>3. ASSUME NEW k \in Link, link[k] = "open"
      PROVE  k = l
  BY <1>1, <1>3 DEF Serving
<1> QED
  BY <1>2, <1>3

LEMMA SessionNext ==
  ASSUME SerialPortAssumption, Types, Held, Next
  PROVE  SessionKeepsPort'
<1> USE DEF Held
<1>2. ASSUME NEW l \in Link, Release(release[l]), UNCHANGED <<comp, compGen>>, late => late'
      PROVE  SessionKeepsPort'
  <2>1. comp => release[l] # compGen
    BY DEF Undoes
  <2> QED
    BY <1>2, <2>1, Releases DEF SessionKeepsPort
<1>3. CASE Say \/ Write \/ Scrollback \/ Connect \/ Drop
  BY <1>3 DEF Say, Write, Scrollback, Connect, Drop, bridgeVars, sessionVars, SessionKeepsPort
<1>4. CASE Restart
  <2>1. born' = gen + 1 /\ compGen' = compGen
    BY <1>4 DEF Restart, sessionVars
  <2> QED
    BY <2>1 DEF SessionKeepsPort, Types
<1>5. CASE ConsoleFor
  <2>1. CASE claimed
    BY <1>5, <2>1 DEF ConsoleFor, SessionKeepsPort
  <2>2. CASE ~claimed
    <3>1. console # Companion
      BY <2>2, Holders DEF Claimed
    <3> QED
      BY <1>5, <3>1 DEF ConsoleFor, SessionKeepsPort
  <2> QED
    BY <2>1, <2>2
<1>6. CASE SessionClaims
  BY <1>6 DEF SessionClaims, Claim, SessionKeepsPort
<1>7. CASE Disconnect \/ Serve
  BY <1>7 DEF Disconnect, Serve, SessionKeepsPort
<1>8. ASSUME NEW l \in Link, Listen(l) \/ ClosePipe(l) \/ CloseListener(l) \/ DetachClears(l)
      PROVE  SessionKeepsPort'
  <2>1. CASE ClosePipe(l)
    <3>1. Release(release[l]) /\ UNCHANGED <<comp, compGen>> /\ (late => late')
      BY <2>1, Detaches DEF ClosePipe, Locker
    <3> QED
      BY <1>2, <3>1
  <2>2. CASE Listen(l) \/ CloseListener(l) \/ DetachClears(l)
    BY <2>2 DEF Listen, CloseListener, DetachClears, bridgeVars, sessionVars, SessionKeepsPort
  <2> QED
    BY <1>8, <2>1, <2>2
<1>9. ASSUME NEW c \in Client, Outside(c)
      PROVE  SessionKeepsPort'
  <2>1. CASE AttachClaims(c)
    <3>1. via[c] \in Link /\ comp' = comp
      BY <2>1 DEF AttachClaims, Coming, sessionVars
    <3>2. comp => link[via[c]] # "open"
      BY <3>1, OneOpen
    <3>3. comp => late'
      BY <2>1, <3>2 DEF AttachClaims
    <3> QED
      BY <3>1, <3>3 DEF SessionKeepsPort
  <2>2. CASE (\E l \in Link : Accept(c, l)) \/ AttachClient(c) \/ AttachLooks(c) \/ AttachStores(c)
    BY <2>2 DEF Accept, AttachClient, AttachLooks, AttachStores, bridgeVars, sessionVars, SessionKeepsPort
  <2>3. CASE AttachLetsGo(c) \/ ClientEnds(c) \/ WriteFails(c)
    <3>1. via[c] \in Link /\ UNCHANGED <<comp, compGen>>
      BY <2>3, OutsideReleases DEF AttachLetsGo, ClientEnds, WriteFails, sessionVars
    <3>2. Release(release[via[c]]) \/ UNCHANGED <<console, gen, born>>
      BY <2>3, OutsideReleases
    <3>3. late => late'
      BY <2>3 DEF AttachLetsGo, ClientEnds, WriteFails, DetachReleases
    <3>4. CASE UNCHANGED <<console, gen, born>>
      BY <3>1, <3>3, <3>4 DEF SessionKeepsPort
    <3> QED
      BY <1>2, <3>1, <3>2, <3>3, <3>4
  <2> QED
    BY <1>9, <2>1, <2>2, <2>3 DEF Outside
<1> QED
  BY <1>3, <1>4, <1>5, <1>6, <1>7, <1>8, <1>9 DEF Next, Session

LEMMA SomebodyNext ==
  ASSUME SerialPortAssumption, Types, Held, Next
  PROVE  HeldBySomebody'
<1> USE DEF Held
<1>1. ASSUME UNCHANGED <<claimed, late, console, gen, comp, compGen, release, got>>,
             \A l \in Link : client[l] # NoClient => client'[l] # NoClient
      PROVE  HeldBySomebody'
  BY <1>1 DEF HeldBySomebody
<1>2. ASSUME ~claimed'
      PROVE  HeldBySomebody'
  BY <1>2 DEF HeldBySomebody
(* Whoever has the port let go of it; nobody else's release takes it. *)
<1>3. ASSUME NEW l \in Link, Release(release[l]), UNCHANGED <<comp, compGen, release, got>>,
             \A k \in Link \ {l} : client'[k] = client[k],
             late => late', ~late' /\ got[l] # 0 /\ gen = got[l] => client'[l] = client[l]
      PROVE  HeldBySomebody'
  <2>1. CASE release[l] # 0 /\ gen = release[l]
    BY <1>2, <1>3, <2>1, Releases
  <2>2. CASE ~(release[l] # 0 /\ gen = release[l])
    <3>1. UNCHANGED <<gen, console, claimed>>
      BY <1>3, <2>2, Releases
    <3>2. claimed => gen # release[l] /\ gen # 0
      BY <2>2 DEF Claimed
    <3> QED
      BY <1>3, <3>1, <3>2 DEF HeldBySomebody
  <2> QED
    BY <2>1, <2>2
<1>4. CASE Say \/ Write \/ Scrollback \/ Connect \/ Drop
  BY <1>1, <1>4 DEF Say, Write, Scrollback, Connect, Drop, bridgeVars, linkVars, sessionVars
<1>5. CASE Restart
  BY <1>2, <1>5 DEF Restart
<1>6. CASE ConsoleFor
  <2>1. CASE claimed
    BY <1>1, <1>6, <2>1 DEF ConsoleFor, linkVars
  <2>2. CASE ~claimed
    BY <1>2, <1>6, <2>2 DEF ConsoleFor
  <2> QED
    BY <2>1, <2>2
<1>7. CASE SessionClaims
  BY <1>7 DEF SessionClaims, Claim, HeldBySomebody
<1>8. CASE Disconnect \/ Serve
  <2>1. UNCHANGED <<client, release, got, late>>
    BY <1>8 DEF Disconnect, Serve, linkVars
  <2>2. CASE comp
    <3>1. Release(compGen) /\ compGen # 0
      BY <1>8, <2>2 DEF Disconnect, Serve, Undoes
    <3>2. CASE gen = compGen
      BY <1>2, <3>1, <3>2, Releases
    <3>3. CASE gen # compGen
      <4>1. UNCHANGED <<gen, console, claimed>>
        BY <3>1, <3>3, Releases
      <4> QED
        BY <2>1, <3>3, <4>1 DEF HeldBySomebody
    <3> QED
      BY <3>2, <3>3
  <2>3. CASE ~comp
    <3>1. UNCHANGED <<gen, console, claimed>>
      BY <1>8, <2>3 DEF Disconnect, Serve, bridgeVars
    <3> QED
      BY <2>1, <2>3, <3>1 DEF HeldBySomebody
  <2> QED
    BY <2>2, <2>3
<1>9. ASSUME NEW l \in Link, Listen(l) \/ CloseListener(l)
      PROVE  HeldBySomebody'
  BY <1>1, <1>9 DEF Listen, CloseListener, bridgeVars
(* A client that is dropped is the one the claim that is released is for, or *)
(* else its claim is not stored yet: the port is claimed for nobody.         *)
<1>10. ASSUME NEW l \in Link, NEW who \in Locker, DetachReleases(l, who), UNCHANGED <<comp, compGen>>
       PROVE  HeldBySomebody'
  <2>1. /\ Release(release[l]) /\ UNCHANGED <<release, got>>
        /\ \A k \in Link \ {l} : client'[k] = client[k]
        /\ late' = (late \/ (got[l] # 0 /\ got[l] = gen))
    BY <1>10, Detaches
  <2>2. (late => late') /\ ~(~late' /\ got[l] # 0 /\ gen = got[l])
    BY <2>1
  <2> QED
    BY <1>3, <1>10, <2>1, <2>2
<1>11. ASSUME NEW l \in Link, ClosePipe(l)
       PROVE  HeldBySomebody'
  BY <1>10, <1>11 DEF ClosePipe, Locker
<1>12. ASSUME NEW c \in Client, Outside(c)
       PROVE  HeldBySomebody'
  <2>1. CASE \E l \in Link : Accept(c, l)
    BY <1>1, <2>1 DEF Accept, bridgeVars, linkVars, sessionVars
  <2>2. CASE AttachClient(c)
    <3>1. /\ UNCHANGED <<claimed, late, console, gen, comp, compGen, release, got>>
          /\ client' = [client EXCEPT ![via[c]] = c] /\ c # NoClient
      BY <2>2 DEF AttachClient, bridgeVars, sessionVars, SerialPortAssumption, NoClient
    <3>2. \A l \in Link : client[l] # NoClient => client'[l] # NoClient
      BY <3>1 DEF Types
    <3> QED
      BY <1>1, <3>1, <3>2
  <2>3. CASE AttachLetsGo(c)
    <3>1. /\ via[c] \in Link
          /\ UNCHANGED <<client, release, got, late, comp, compGen>>
      BY <2>3, OutsideReleases DEF AttachLetsGo, linkVars, sessionVars
    <3>2. CASE Release(release[via[c]])
      BY <1>3, <3>1, <3>2
    <3>3. CASE UNCHANGED bridgeVars
      BY <1>1, <3>1, <3>3 DEF bridgeVars
    <3> QED
      BY <2>3, <3>2, <3>3 DEF AttachLetsGo
  <2>4. CASE AttachClaims(c)
    <3>1. /\ via[c] \in Link /\ gen' = gen + 1 /\ console' = via[c]
          /\ got' = [got EXCEPT ![via[c]] = gen'] /\ client' = client
          /\ late' = (link[via[c]] # "open" \/ client[via[c]] # c)
      BY <2>4 DEF AttachClaims, Claim, Coming
    <3>2. got'[via[c]] = gen'
      BY <3>1 DEF Types
    <3>3. c # NoClient
      BY DEF SerialPortAssumption, NoClient
    <3> QED
      BY <3>1, <3>2, <3>3 DEF HeldBySomebody
  (* The claim stored is the one that was to be, and what was stored before *)
  (* it is of an older one.                                                 *)
  <2>5. CASE AttachStores(c)
    <3>1. /\ via[c] \in Link
          /\ UNCHANGED <<claimed, late, console, gen, comp, compGen, client>>
          /\ release' = [release EXCEPT ![via[c]] = got[via[c]]] /\ got' = [got EXCEPT ![via[c]] = 0]
      BY <2>5 DEF AttachStores, Coming, bridgeVars, sessionVars
    <3>2. /\ release'[via[c]] = got[via[c]]
          /\ \A k \in Link \ {via[c]} : release'[k] = release[k] /\ got'[k] = got[k]
      BY <3>1 DEF Types
    <3>3. release[via[c]] < got[via[c]] /\ got[via[c]] <= gen /\ gen # release[via[c]]
      <4>1. got[via[c]] # 0
        BY <2>5 DEF AttachStores, Coming
      <4>2. release[via[c]] \in 0 .. gen /\ got[via[c]] \in 0 .. gen /\ gen \in Nat
        BY <3>1 DEF Types
      <4> QED
        BY <3>1, <4>1, <4>2 DEF Undoes
    <3> QED
      BY <3>1, <3>2, <3>3 DEF HeldBySomebody
  <2>6. CASE ClientEnds(c) \/ WriteFails(c)
    <3>1. via[c] \in Link /\ UNCHANGED <<comp, compGen>>
      BY <2>6, OutsideReleases DEF ClientEnds, WriteFails, sessionVars
    <3>2. CASE \E who \in Locker : DetachReleases(via[c], who)
      BY <1>10, <3>1, <3>2
    <3>3. CASE UNCHANGED <<client, release, got, bridgeVars, late>>
      BY <1>1, <3>1, <3>3 DEF bridgeVars
    <3> QED
      BY <2>6, <3>2, <3>3 DEF ClientEnds, WriteFails, Locker
  <2>7. CASE AttachLooks(c)
    BY <1>1, <2>7 DEF AttachLooks, bridgeVars, linkVars, sessionVars
  <2> QED
    BY <1>12, <2>1, <2>2, <2>3, <2>4, <2>5, <2>6, <2>7 DEF Outside
(* What is cleared is the claim of a client that has gone. *)
<1>13. ASSUME NEW l \in Link, DetachClears(l)
       PROVE  HeldBySomebody'
  <2>1. /\ UNCHANGED <<claimed, late, console, gen, comp, compGen, client, got>>
        /\ client[l] = NoClient /\ \A k \in Link \ {l} : release'[k] = release[k]
    BY <1>13 DEF DetachClears, Coming, Types, bridgeVars, sessionVars
  <2> QED
    BY <2>1 DEF HeldBySomebody
<1> QED
  BY <1>4, <1>5, <1>6, <1>7, <1>8, <1>9, <1>11, <1>12, <1>13 DEF Next, Session

LEMMA ClientNext ==
  ASSUME SerialPortAssumption, Types, Held, Next
  PROVE  HeldByClient'
<1> USE DEF Held
<1>1. ASSUME NEW c \in Client, Plugged(c), UNCHANGED <<console, gen>>,
             Undo(c)' = Undo(c), via'[c] = via[c]
      PROVE  console' = via'[c] /\ gen' = Undo(c)'
  BY <1>1 DEF HeldByClient
(* The release of another link is of another claim. *)
<1>2. ASSUME NEW c \in Client, Plugged(c), NEW l \in Link, l # via[c], Release(release[l])
      PROVE  UNCHANGED <<console, gen>>
  <2>1. via[c] \in Link /\ gen \in {release[via[c]], got[via[c]]}
    BY <1>2 DEF Coming, HeldByClient, Plugged, Undo
  <2>2. ~(release[l] # 0 /\ gen = release[l])
    BY <1>2, <2>1 DEF Undoes
  <2> QED
    BY <1>2, <2>2, Releases
<1>3. ASSUME UNCHANGED <<console, gen, born, release, got, client, link, late, at, via>>
      PROVE  HeldByClient'
  BY <1>3 DEF HeldByClient, Plugged, Undo
<1>4. CASE Say \/ Write \/ Scrollback \/ Connect \/ Drop
  BY <1>3, <1>4 DEF Say, Write, Scrollback, Connect, Drop, bridgeVars, linkVars, clientVars, sessionVars
<1>5. CASE Restart
  <2>1. born' = gen + 1 /\ UNCHANGED <<release, got, at, via>>
    BY <1>5 DEF Restart, linkVars, clientVars
  <2>2. ASSUME NEW c \in Client, Plugged(c)'
        PROVE  FALSE
    <3>1. via'[c] \in Link
      BY <1>5, <2>2 DEF Plugged, Restart, clientVars, Coming
    <3>2. /\ release[via[c]] \in 0 .. gen /\ got[via[c]] \in 0 .. gen /\ gen \in Nat
      BY <2>1, <3>1 DEF Types
    <3> QED
      BY <2>1, <2>2, <3>2 DEF Plugged, Undo
  <2> QED
    BY <2>2 DEF HeldByClient
<1>6. CASE ConsoleFor
  <2>1. CASE claimed
    BY <1>3, <1>6, <2>1 DEF ConsoleFor, linkVars, clientVars
  <2>2. CASE ~claimed
    <3>1. ASSUME NEW c \in Client, Plugged(c)
          PROVE  FALSE
      <4>1. console = via[c] /\ via[c] \in Link
        BY <3>1 DEF HeldByClient, Plugged, Coming
      <4> QED
        BY <2>2, <4>1, Holders DEF Claimed
    <3>2. \A c \in Client : Plugged(c)' => Plugged(c)
      BY <1>6 DEF ConsoleFor, linkVars, clientVars, Plugged, Undo
    <3> QED
      BY <3>1, <3>2 DEF HeldByClient
  <2> QED
    BY <2>1, <2>2
<1>7. ASSUME SessionClaims \/ comp, \A l \in Link : link'[l] = "open" => link[l] = "open",
             UNCHANGED <<at, via>>
      PROVE  HeldByClient'
  <2>1. ASSUME NEW c \in Client, Plugged(c)'
        PROVE  FALSE
    <3>1. via[c] \in Link /\ link[via[c]] = "open"
      BY <1>7, <2>1 DEF Plugged, Coming
    <3>2. ~comp /\ verb.does # "claim"
      BY <3>1, OneOpen
    <3> QED
      BY <1>7, <3>2 DEF SessionClaims
  <2> QED
    BY <2>1 DEF HeldByClient
<1>8. CASE SessionClaims \/ Disconnect \/ Serve
  <2>1. CASE comp \/ SessionClaims
    BY <1>7, <1>8, <2>1 DEF SessionClaims, Disconnect, Serve, linkVars, clientVars
  <2>2. CASE ~comp /\ Serve
    BY <1>3, <2>2 DEF Serve, bridgeVars, clientVars
  <2> QED
    BY <1>8, <2>1, <2>2 DEF Disconnect
<1>9. ASSUME NEW l \in Link, Listen(l)
      PROVE  HeldByClient'
  <2>1. /\ UNCHANGED <<console, gen, born, release, got, client, late, at, via>>
        /\ link' = [link EXCEPT ![l] = "open"] /\ link[l] = "off"
    BY <1>9 DEF Listen, bridgeVars, clientVars
  <2>2. \A k \in Link \ {l} : link'[k] = link[k]
    BY <2>1 DEF Types
  <2>3. ASSUME NEW c \in Client, Plugged(c)'
        PROVE  Plugged(c)
    <3>1. via[c] \in Link /\ via[c] # l
      BY <2>1, <2>3 DEF Plugged, Coming
    <3> QED
      BY <2>1, <2>2, <2>3, <3>1 DEF Plugged, Undo
  <2> QED
    BY <1>1, <2>1, <2>3 DEF HeldByClient, Undo
(* A link loses its client: the client of another keeps its port. *)
<1>10. ASSUME NEW l \in Link, NEW who \in Locker, DetachReleases(l, who), UNCHANGED via,
              \A k \in Link \ {l} : link'[k] = link[k],
              \A c \in Client : at'[c] = at[c] \/ at'[c] = "gone"
       PROVE  HeldByClient'
  <2>1. /\ Release(release[l]) /\ UNCHANGED <<release, got>> /\ client'[l] = NoClient
        /\ \A k \in Link \ {l} : client'[k] = client[k]
        /\ late => late'
    BY <1>10, Detaches
  <2>2. born' = born
    BY <2>1, Releases
  <2>3. ASSUME NEW c \in Client, Plugged(c)'
        PROVE  console' = via'[c] /\ gen' = Undo(c)'
    <3>1. via[c] \in Link /\ via[c] # l /\ at'[c] = at[c]
      BY <1>10, <2>1, <2>3 DEF Plugged, Coming, SerialPortAssumption, NoClient
    <3>2. Undo(c)' = Undo(c)
      BY <1>10, <2>1, <3>1 DEF Undo
    <3>3. Plugged(c)
      BY <1>10, <2>1, <2>2, <2>3, <3>1, <3>2 DEF Plugged
    <3> QED
      BY <1>1, <1>2, <1>10, <2>1, <3>1, <3>2, <3>3
  <2> QED
    BY <2>3 DEF HeldByClient
<1>11. ASSUME NEW l \in Link, ClosePipe(l)
       PROVE  HeldByClient'
  <2>1. /\ UNCHANGED <<at, via>> /\ DetachReleases(l, "store") /\ "store" \in Locker
        /\ \A k \in Link \ {l} : link'[k] = link[k]
    BY <1>11 DEF ClosePipe, clientVars, Locker, Types
  <2> QED
    BY <1>10, <2>1
<1>12. ASSUME NEW l \in Link, CloseListener(l)
       PROVE  HeldByClient'
  <2>1. /\ UNCHANGED <<console, gen, born, release, got, client, late, at, via>>
        /\ link' = [link EXCEPT ![l] = "closed"]
    BY <1>12 DEF CloseListener, bridgeVars, clientVars
  <2>2. \A k \in Link : link'[k] = "open" => link[k] = "open"
    BY <2>1 DEF Types
  <2>3. ASSUME NEW c \in Client, Plugged(c)'
        PROVE  Plugged(c)
    BY <2>1, <2>2, <2>3 DEF Plugged, Coming, Undo
  <2> QED
    BY <1>1, <2>1, <2>3 DEF HeldByClient, Undo
(* Another client comes, or goes: this one is on, and the other's link is   *)
(* another, or has this one's place.                                        *)
<1>13. ASSUME NEW d \in Client, NEW l \in Link, Accept(d, l)
       PROVE  HeldByClient'
  <2>1. /\ UNCHANGED <<console, gen, born, release, got, client, link, late>>
        /\ at' = [at EXCEPT ![d] = "accepted"] /\ via' = [via EXCEPT ![d] = l]
    BY <1>13 DEF Accept, bridgeVars, linkVars
  <2>2. at'[d] = "accepted" /\ \A c \in Client \ {d} : at'[c] = at[c] /\ via'[c] = via[c]
    BY <2>1 DEF Types
  <2>3. ASSUME NEW c \in Client, Plugged(c)'
        PROVE  console' = via'[c] /\ gen' = Undo(c)'
    <3>1. c # d
      BY <2>2, <2>3 DEF Plugged
    <3>2. Undo(c)' = Undo(c)
      BY <2>1, <2>2, <3>1 DEF Undo
    <3>3. Plugged(c)
      BY <2>1, <2>2, <2>3, <3>1, <3>2 DEF Plugged
    <3> QED
      BY <1>1, <2>1, <2>2, <3>1, <3>2, <3>3
  <2> QED
    BY <2>3 DEF HeldByClient
<1>14. ASSUME NEW d \in Client, AttachClient(d)
       PROVE  HeldByClient'
  <2>1. /\ UNCHANGED <<console, gen, born, release, got, link, late, via>> /\ via[d] \in Link
        /\ at' = [at EXCEPT ![d] = "letting"] /\ client' = [client EXCEPT ![via[d]] = d]
    BY <1>14 DEF AttachClient, Coming, bridgeVars
  <2>2. /\ at'[d] = "letting" /\ \A c \in Client \ {d} : at'[c] = at[c]
        /\ client'[via[d]] = d /\ \A k \in Link \ {via[d]} : client'[k] = client[k]
    BY <2>1 DEF Types
  <2>3. ASSUME NEW c \in Client, Plugged(c)'
        PROVE  console' = via'[c] /\ gen' = Undo(c)'
    <3>1. c # d
      BY <2>2, <2>3 DEF Plugged
    <3>2. via[c] \in Link /\ via[c] # via[d]
      BY <2>1, <2>2, <2>3, <3>1 DEF Plugged, Coming
    <3>3. Undo(c)' = Undo(c)
      BY <2>1, <2>2, <3>1 DEF Undo
    <3>4. Plugged(c)
      BY <2>1, <2>2, <2>3, <3>1, <3>2, <3>3 DEF Plugged
    <3> QED
      BY <1>1, <2>1, <3>3, <3>4
  <2> QED
    BY <2>3 DEF HeldByClient
<1>15. ASSUME NEW d \in Client, AttachLooks(d) \/ AttachLetsGo(d)
       PROVE  HeldByClient'
  <2>1. /\ UNCHANGED <<release, got, client, link, late, via>> /\ via[d] \in Link
        /\ at[d] \in {"letting", "calling"} /\ at'[d] \notin {"on", "storing"}
        /\ \A c \in Client \ {d} : at'[c] = at[c]
    BY <1>15 DEF AttachLooks, AttachLetsGo, Coming, linkVars, Types
  <2>2. Release(release[via[d]]) \/ UNCHANGED <<console, gen, born>>
    BY <1>15, OutsideReleases DEF AttachLooks, AttachLetsGo, bridgeVars
  <2>3. born' = born
    BY <2>2, Releases
  <2>4. ASSUME NEW c \in Client, Plugged(c)'
        PROVE  console' = via'[c] /\ gen' = Undo(c)'
    <3>1. c # d
      BY <2>1, <2>4 DEF Plugged
    <3>2. Undo(c)' = Undo(c)
      BY <2>1, <3>1 DEF Undo
    <3>3. Plugged(c)
      BY <2>1, <2>3, <2>4, <3>1, <3>2 DEF Plugged
    <3>4. via[d] # via[c]
      <4>1. client[via[d]] \in {d, NoClient} /\ client[via[c]] = c /\ c # NoClient
        BY <2>1, <3>3 DEF Coming, Mid, Plugged, SerialPortAssumption, NoClient
      <4> QED
        BY <3>1, <4>1
    <3>5. UNCHANGED <<console, gen>>
      BY <1>2, <2>1, <2>2, <3>3, <3>4
    <3> QED
      BY <1>1, <2>1, <3>2, <3>3, <3>5
  <2> QED
    BY <2>4 DEF HeldByClient
<1>16. ASSUME NEW d \in Client, AttachClaims(d)
       PROVE  HeldByClient'
  <2>1. /\ UNCHANGED <<client, link, via>> /\ via[d] \in Link
        /\ at[d] = "claiming" /\ at' = [at EXCEPT ![d] = "storing"] /\ console' = via[d]
        /\ got' = [got EXCEPT ![via[d]] = gen']
        /\ late' = (link[via[d]] # "open" \/ client[via[d]] # d)
    BY <1>16 DEF AttachClaims, Claim, Coming
  <2>2. got'[via[d]] = gen' /\ at'[d] = "storing" /\ \A c \in Client \ {d} : at'[c] = at[c]
    BY <2>1 DEF Types
  <2>3. ASSUME NEW c \in Client, Plugged(c)'
        PROVE  c = d
    <3>1. via[c] \in Link /\ link[via[c]] = "open" /\ client[via[c]] = c
      <4>1. at[c] # "out"
        BY <2>1, <2>2, <2>3 DEF Plugged
      <4> QED
        BY <2>1, <2>3, <4>1 DEF Plugged, Coming
    <3>2. link[via[d]] = "open" /\ client[via[d]] = d
      BY <2>1, <2>3 DEF Plugged
    <3>3. via[c] = via[d]
      BY <2>1, <3>1, <3>2, OneOpen
    <3> QED
      BY <3>1, <3>2, <3>3
  <2> QED
    BY <2>1, <2>2, <2>3 DEF HeldByClient, Undo
(* What it stores is what it has claimed. *)
<1>17. ASSUME NEW d \in Client, AttachStores(d)
       PROVE  HeldByClient'
  <2>1. /\ UNCHANGED <<console, gen, born, client, link, late, via>> /\ via[d] \in Link
        /\ at[d] = "storing" /\ at' = [at EXCEPT ![d] = "on"]
        /\ release' = [release EXCEPT ![via[d]] = got[via[d]]] /\ got' = [got EXCEPT ![via[d]] = 0]
    BY <1>17 DEF AttachStores, Coming, bridgeVars
  <2>2. /\ at'[d] = "on" /\ \A c \in Client \ {d} : at'[c] = at[c]
        /\ release'[via[d]] = got[via[d]]
        /\ \A k \in Link \ {via[d]} : release'[k] = release[k] /\ got'[k] = got[k]
    BY <2>1 DEF Types
  <2>3. ASSUME NEW c \in Client, Plugged(c)'
        PROVE  console' = via'[c] /\ gen' = Undo(c)'
    <3>1. via[c] \in Link /\ client[via[c]] = c
      BY <2>1, <2>2, <2>3 DEF Plugged, Coming
    <3>2. CASE c = d
      <4>1. Undo(c)' = Undo(c)
        BY <2>1, <2>2, <3>2 DEF Undo
      <4>2. Plugged(c)
        BY <2>1, <2>3, <3>2, <4>1 DEF Plugged
      <4> QED
        BY <1>1, <2>1, <4>1, <4>2
    <3>3. CASE c # d
      <4>1. via[d] # via[c]
        <5>1. client[via[d]] \in {d, NoClient} /\ c # NoClient
          BY <2>1 DEF Coming, Mid, SerialPortAssumption, NoClient
        <5> QED
          BY <3>1, <3>3, <5>1
      <4>2. Undo(c)' = Undo(c)
        BY <2>1, <2>2, <3>1, <3>3, <4>1 DEF Undo
      <4>3. Plugged(c)
        BY <2>1, <2>2, <2>3, <3>3, <4>2 DEF Plugged
      <4> QED
        BY <1>1, <2>1, <4>2, <4>3
    <3> QED
      BY <3>2, <3>3
  <2> QED
    BY <2>3 DEF HeldByClient
<1>18. ASSUME NEW d \in Client, ClientEnds(d) \/ WriteFails(d)
       PROVE  HeldByClient'
  <2>1. /\ UNCHANGED <<link, via>> /\ via[d] \in Link
        /\ \A c \in Client : at'[c] = at[c] \/ at'[c] = "gone"
    <3>1. CASE ClientEnds(d)
      BY <3>1 DEF ClientEnds, Coming, Types
    <3>2. CASE WriteFails(d)
      BY <3>2 DEF WriteFails, Attaching, Coming, clientVars
    <3> QED
      BY <1>18, <3>1, <3>2
  <2>2. CASE \E who \in Locker : DetachReleases(via[d], who)
    BY <1>10, <2>1, <2>2
  <2>3. CASE UNCHANGED <<client, release, got, bridgeVars, late>>
    <3>1. ASSUME NEW c \in Client, Plugged(c)'
          PROVE  Plugged(c) /\ Undo(c)' = Undo(c)
      <4>1. at'[c] = at[c]
        BY <2>1, <3>1 DEF Plugged
      <4> QED
        BY <2>1, <2>3, <3>1, <4>1 DEF Plugged, Undo, bridgeVars
    <3> QED
      BY <1>1, <2>1, <2>3, <3>1 DEF HeldByClient, bridgeVars
  <2> QED
    BY <1>18, <2>2, <2>3 DEF ClientEnds, WriteFails, Locker
<1>19. ASSUME NEW l \in Link, DetachClears(l)
       PROVE  HeldByClient'
  <2>1. /\ UNCHANGED <<console, gen, born, client, got, link, late, at, via>>
        /\ client[l] = NoClient /\ \A k \in Link \ {l} : release'[k] = release[k]
    BY <1>19 DEF DetachClears, Coming, Types, bridgeVars, clientVars
  <2>2. ASSUME NEW c \in Client, Plugged(c)'
        PROVE  console' = via'[c] /\ gen' = Undo(c)'
    <3>1. via[c] \in Link /\ via[c] # l
      BY <2>1, <2>2 DEF Plugged, Coming, SerialPortAssumption, NoClient
    <3>2. Undo(c)' = Undo(c)
      BY <2>1, <3>1 DEF Undo
    <3>3. Plugged(c)
      BY <2>1, <2>2, <3>2 DEF Plugged
    <3> QED
      BY <1>1, <2>1, <3>2, <3>3
  <2> QED
    BY <2>2 DEF HeldByClient
<1> QED
  BY <1>4, <1>5, <1>6, <1>8, <1>9, <1>12, <1>13, <1>14, <1>15, <1>16, <1>17,
     <1>11, <1>18, <1>19
     DEF Next, Session, Outside

LEMMA HeldNext ==
  ASSUME SerialPortAssumption, Types, Held, Next
  PROVE  Held'
BY ClaimedNext, ServingNext, UndoesNext, ComingNext, SessionNext, ClientNext, SomebodyNext DEF Held

-----------------------------------------------------------------------------
(* What has been said.                                                      *)

(* A step of anybody else leaves what is said and shown alone.              *)
Elsewhere ==
  /\ UNCHANGED <<backlog, writing, saidSoFar, made, buf, scrollback, pending>>
  /\ verb'.does = "scrollback" => verb.does = "scrollback"
  /\ console' = Pane => console = Pane

LEMMA OthersElsewhere ==
  ASSUME SerialPortAssumption, Types, Coming, Next
  PROVE  Elsewhere \/ Say \/ Write \/ Restart \/ ConsoleFor \/ Scrollback
<1>1. ASSUME NEW g, Release(g)
      PROVE  UNCHANGED <<backlog, writing, saidSoFar>> /\ (console' = Pane => console = Pane)
  BY <1>1, Releases, Holders
<1>2. ASSUME NEW who \in Holder \ {Pane}, Claim(who)
      PROVE  UNCHANGED <<backlog, writing, saidSoFar>> /\ console' # Pane
  BY <1>2, Claims
<1>3. CASE Connect \/ Drop
  BY <1>3 DEF Connect, Drop, Then, CloseLink, Elsewhere, bridgeVars, paneVars
<1>4. CASE SessionClaims
  <2>1. Companion \in Holder \ {Pane}
    BY Holders DEF Holder
  <2>2. Claim(Companion) /\ UNCHANGED paneVars /\ verb'.does # "scrollback"
    BY <1>4 DEF SessionClaims, Free
  <2> QED
    BY <1>2, <2>1, <2>2 DEF Elsewhere, paneVars
<1>5. CASE Disconnect
  BY <1>1, <1>5 DEF Disconnect, Elsewhere, paneVars
<1>6. CASE Serve
  <2>1. UNCHANGED paneVars /\ verb'.does # "scrollback"
    BY <1>6 DEF Serve, Then, CloseLink
  <2>2. Release(compGen) \/ UNCHANGED bridgeVars
    BY <1>6 DEF Serve
  <2> QED
    BY <1>1, <2>1, <2>2 DEF Elsewhere, paneVars, bridgeVars
<1>7. ASSUME NEW l \in Link, Listen(l) \/ ClosePipe(l) \/ CloseListener(l)
      PROVE  Elsewhere
  <2>1. CASE Listen(l)
    BY <2>1 DEF Listen, Free, Elsewhere, bridgeVars, paneVars
  <2>2. CASE ClosePipe(l)
    <3>1. UNCHANGED paneVars /\ verb'.does # "scrollback" /\ Release(release[l])
      BY <2>2, Detaches DEF ClosePipe, Locker, Types
    <3> QED
      BY <1>1, <3>1 DEF Elsewhere, paneVars
  <2>3. CASE CloseListener(l)
    BY <2>3 DEF CloseListener, Then, Types, After, Elsewhere, bridgeVars, paneVars
  <2> QED
    BY <1>7, <2>1, <2>2, <2>3
<1>8. ASSUME NEW c \in Client, Outside(c)
      PROVE  Elsewhere
  <2>1. UNCHANGED <<paneVars, verb>>
    BY <1>8 DEF Outside, Accept, AttachClient, AttachLooks, AttachLetsGo, AttachClaims, AttachStores,
         ClientEnds, WriteFails, sessionVars
  <2>2. UNCHANGED <<backlog, writing, saidSoFar>> /\ (console' = Pane => console = Pane)
    <3>1. CASE AttachClaims(c)
      <4>1. via[c] \in Holder \ {Pane} /\ Claim(via[c])
        BY <3>1, Holders DEF AttachClaims, Coming, Holder
      <4> QED
        BY <1>2, <4>1
    <3>2. CASE AttachLetsGo(c) \/ ClientEnds(c) \/ WriteFails(c)
      BY <1>1, <3>2, OutsideReleases
    <3>3. CASE (\E l \in Link : Accept(c, l)) \/ AttachClient(c) \/ AttachLooks(c) \/ AttachStores(c)
      BY <3>3 DEF Accept, AttachClient, AttachLooks, AttachStores, bridgeVars
    <3> QED
      BY <1>8, <3>1, <3>2, <3>3 DEF Outside
  <2> QED
    BY <2>1, <2>2 DEF Elsewhere, paneVars
<1>9. ASSUME NEW l \in Link, DetachClears(l)
      PROVE  Elsewhere
  BY <1>9 DEF DetachClears, Elsewhere, bridgeVars, paneVars, sessionVars
<1> QED
  BY <1>3, <1>4, <1>5, <1>6, <1>7, <1>8, <1>9 DEF Next, Session

LEMMA RisingNewest ==
  ASSUME SerialPortAssumption, NEW n \in Nat, NEW s \in Seq(1 .. n), Rising(s)
  PROVE  Rising(Newest(Append(s, n + 1)))
<1>1. PICK t : t = Append(s, n + 1)
  OBVIOUS
<1>2. /\ t \in Seq(1 .. n + 1) /\ Len(t) = Len(s) + 1 /\ Len(s) \in Nat
      /\ \A i \in 1 .. Len(s) : t[i] = s[i] /\ s[i] \in 1 .. n
      /\ t[Len(s) + 1] = n + 1
  BY <1>1, SaidNext
<1>3. Rising(t)
  <2>1. ASSUME NEW i \in 1 .. Len(t), NEW j \in 1 .. Len(t), i < j
        PROVE  t[i] < t[j]
    <3>1. i \in 1 .. Len(s) /\ t[i] = s[i] /\ s[i] \in 1 .. n
      <4>1. i \in 1 .. Len(s) + 1 /\ j \in 1 .. Len(s) + 1 /\ Len(s) \in Nat
        BY <1>2
      <4>2. i \in 1 .. Len(s)
        BY <2>1, <4>1
      <4> QED
        BY <1>2, <4>2
    <3>2. CASE j = Len(s) + 1
      BY <1>2, <3>1, <3>2
    <3>3. CASE j # Len(s) + 1
      <4>1. j \in 1 .. Len(s) /\ t[j] = s[j]
        BY <1>2, <3>3
      <4> QED
        BY <2>1, <3>1, <4>1 DEF Rising
    <3> QED
      BY <3>2, <3>3
  <2> QED
    BY <2>1 DEF Rising
<1>4. CASE Len(t) <= Backlog
  BY <1>1, <1>3, <1>4 DEF Newest
<1>5. CASE ~(Len(t) <= Backlog)
  <2>1. /\ Len(Tail(t)) = Len(t) - 1 /\ Len(t) \in Nat
        /\ \A i \in 1 .. Len(Tail(t)) : Tail(t)[i] = t[i + 1]
    <3>1. t # << >>
      BY <1>2
    <3> QED
      BY <1>2, <3>1, HeadTailProperties
  <2>2. Rising(Tail(t))
    BY <1>3, <2>1 DEF Rising
  <2> QED
    BY <1>1, <1>5, <2>2 DEF Newest
<1> QED
  BY <1>4, <1>5

(* What has been said is numbered up to saidSoFar.                          *)
LEMMA NothingNewer ==
  ASSUME Types
  PROVE  /\ saidSoFar \in Nat
         /\ \A i \in 1 .. Len(backlog) : backlog[i] \in 1 .. saidSoFar
         /\ \A i \in 1 .. Len(pending) : pending[i] \in 1 .. saidSoFar
         /\ \A i \in 1 .. Len(buf) : buf[i] \in 1 .. saidSoFar
         /\ Len(backlog) \in Nat /\ Len(pending) \in Nat /\ Len(buf) \in Nat
<1>1. /\ saidSoFar \in Nat /\ backlog \in Seq(1 .. saidSoFar)
      /\ pending \in Seq(1 .. saidSoFar) /\ buf \in Seq(1 .. saidSoFar)
  BY DEF Types
<1>2. /\ \A i \in 1 .. Len(backlog) : backlog[i] \in 1 .. saidSoFar
      /\ \A i \in 1 .. Len(pending) : pending[i] \in 1 .. saidSoFar
      /\ \A i \in 1 .. Len(buf) : buf[i] \in 1 .. saidSoFar
  BY <1>1, ElementOfSeq
<1>3. Len(backlog) \in Nat /\ Len(pending) \in Nat /\ Len(buf) \in Nat
  BY <1>1, LenProperties
<1> QED
  BY <1>1, <1>2, <1>3

LEMMA Concat ==
  ASSUME NEW S, NEW s \in Seq(S), NEW t \in Seq(S)
  PROVE  /\ Len(s) \in Nat /\ Len(t) \in Nat /\ Len(s \o t) = Len(s) + Len(t)
         /\ \A i \in 1 .. Len(s \o t) :
              \/ i \in 1 .. Len(s) /\ (s \o t)[i] = s[i]
              \/ i - Len(s) \in 1 .. Len(t) /\ (s \o t)[i] = t[i - Len(s)] /\ i > Len(s)
<1>1. /\ Len(s) \in Nat /\ Len(t) \in Nat /\ Len(s \o t) = Len(s) + Len(t)
  BY ConcatProperties, LenProperties
<1>2. \A i \in 1 .. Len(s) + Len(t) :
        (s \o t)[i] = IF i <= Len(s) THEN s[i] ELSE t[i - Len(s)]
  BY ConcatProperties
<1>3. ASSUME NEW i \in 1 .. Len(s \o t)
      PROVE  \/ i \in 1 .. Len(s) /\ (s \o t)[i] = s[i]
             \/ i - Len(s) \in 1 .. Len(t) /\ (s \o t)[i] = t[i - Len(s)] /\ i > Len(s)
  <2>1. i \in 1 .. Len(s) + Len(t)
    BY <1>1
  <2>2. CASE i <= Len(s)
    <3>1. (s \o t)[i] = s[i]
      BY <1>2, <2>1, <2>2
    <3> QED
      BY <1>1, <2>1, <2>2, <3>1
  <2>3. CASE ~(i <= Len(s))
    <3>1. (s \o t)[i] = t[i - Len(s)]
      BY <1>2, <2>1, <2>3
    <3>2. i > Len(s) /\ i - Len(s) \in 1 .. Len(t)
      BY <1>1, <2>1, <2>3
    <3> QED
      BY <3>1, <3>2
  <2> QED
    BY <2>2, <2>3
<1> QED
  BY <1>1, <1>3

LEMMA WritingNext ==
  ASSUME SerialPortAssumption, Types, Coming, Writing, Unmade, Next
  PROVE  Writing'
<1>1. CASE Elsewhere
  BY <1>1 DEF Elsewhere, Writing, Without
<1>2. CASE Say
  <2>1. CASE console = Nobody
    BY <1>2, <2>1 DEF Say, Writing
  <2>2. CASE console # Nobody
    <3>1. /\ saidSoFar' = saidSoFar + 1 /\ UNCHANGED <<backlog, pending, buf, made>>
          /\ writing' = <<[to |-> console, what |-> saidSoFar']>>
      BY <1>2, <2>2 DEF Say, paneVars
    <3>2. writing'[1].what = saidSoFar' /\ writing'[1].to = console
      BY <3>1
    <3>3. /\ Without(backlog', saidSoFar') /\ Without(pending', saidSoFar')
          /\ Without(buf', saidSoFar')
      BY <3>1, NothingNewer DEF Without
    <3>4. console = Pane => made'
      BY <3>1 DEF Unmade
    <3> QED
      BY <3>2, <3>3, <3>4 DEF Writing
  <2> QED
    BY <2>1, <2>2
<1>3. CASE Write \/ Restart
  BY <1>3 DEF Write, Restart, Writing
<1>4. CASE ConsoleFor
  <2>1. UNCHANGED <<writing, saidSoFar, buf>> /\ made'
    BY <1>4 DEF ConsoleFor
  <2>2. \/ backlog' = backlog /\ pending' = pending
        \/ backlog' = << >> /\ pending' = backlog
    BY <1>4 DEF ConsoleFor
  <2>3. Without(<< >>, saidSoFar)
    BY DEF Without
  <2> QED
    BY <2>1, <2>2, <2>3 DEF Writing
<1>5. CASE Scrollback
  <2>1. UNCHANGED <<writing, saidSoFar, backlog, made>> /\ buf' = buf \o pending /\ pending' = << >>
    BY <1>5 DEF Scrollback, bridgeVars
  <2>2. Without(buf, saidSoFar) /\ Without(pending, saidSoFar) => Without(buf', saidSoFar)
    BY <2>1, Concat DEF Without, Types
  <2>3. Without(<< >>, saidSoFar)
    BY DEF Without
  <2> QED
    BY <2>1, <2>2, <2>3 DEF Writing
<1> QED
  BY <1>1, <1>2, <1>3, <1>4, <1>5, OthersElsewhere

LEMMA UnmadeNext ==
  ASSUME SerialPortAssumption, Types, Coming, Writing, Unmade, Next
  PROVE  Unmade'
<1>1. CASE Elsewhere
  BY <1>1 DEF Elsewhere, Unmade
<1>2. CASE Say
  BY <1>2 DEF Say, Unmade, paneVars, sessionVars
<1>3. CASE Write
  <2>1. ~made => buf' = buf
    BY <1>3 DEF Write, Writing
  <2> QED
    BY <1>3, <2>1 DEF Write, Unmade, sessionVars
<1>4. CASE Restart
  BY <1>4, Holders DEF Restart, Unmade
<1>5. CASE ConsoleFor
  BY <1>5 DEF ConsoleFor, Unmade
<1>6. CASE Scrollback
  <2>1. UNCHANGED <<made, console>> /\ verb'.does # "scrollback"
    BY <1>6 DEF Scrollback, Free, bridgeVars
  <2>2. ASSUME ~made
        PROVE  buf' = << >> /\ pending' = << >> /\ scrollback' = {}
    <3>1. buf = << >> /\ pending = << >>
      BY <2>2 DEF Unmade
    <3> QED
      BY <1>6, <3>1 DEF Scrollback
  <2> QED
    BY <2>1, <2>2 DEF Unmade
<1> QED
  BY <1>1, <1>2, <1>3, <1>4, <1>5, <1>6, OthersElsewhere

LEMMA ApartNext ==
  ASSUME SerialPortAssumption, Types, Coming, Writing, Unmade, Apart, Next
  PROVE  Apart'
<1>1. CASE Elsewhere
  BY <1>1 DEF Elsewhere, Apart, Rising, Without
<1>2. CASE Say
  <2>1. UNCHANGED <<pending, buf>> /\ backlog' \in {backlog, Newest(Append(backlog, saidSoFar + 1))}
    BY <1>2 DEF Say, paneVars
  <2>2. Rising(Newest(Append(backlog, saidSoFar + 1)))
    BY RisingNewest, NothingNewer DEF Types, Apart
  <2> QED
    BY <2>1, <2>2 DEF Apart, Rising, Without
<1>3. CASE Write
  <2>1. UNCHANGED <<backlog, pending>> /\ writing # << >> /\ buf' \in {buf, Append(buf, saidSoFar)}
    BY <1>3 DEF Write, Writing
  <2>2. CASE buf' = Append(buf, saidSoFar)
    <3>1. /\ buf \in Seq(1 .. saidSoFar) /\ Len(buf) \in Nat /\ Len(buf') = Len(buf) + 1
          /\ buf'[Len(buf) + 1] = saidSoFar /\ \A i \in 1 .. Len(buf) : buf'[i] = buf[i]
      BY <2>2 DEF Types
    <3>2. Without(pending, saidSoFar)
      BY <2>1 DEF Writing
    <3>3. ASSUME NEW i \in 1 .. Len(pending)
          PROVE  Without(buf', pending[i])
      BY <3>1, <3>2, <3>3 DEF Apart, Without
    <3> QED
      BY <2>1, <3>3 DEF Apart, Rising, Without
  <2> QED
    BY <2>1, <2>2 DEF Apart, Rising, Without
<1>4. CASE Restart \/ Scrollback
  <2>1. pending' = << >> /\ (backlog' = backlog \/ backlog' = << >>)
    BY <1>4 DEF Restart, Scrollback, bridgeVars
  <2> QED
    BY <2>1 DEF Apart, Rising
<1>5. CASE ConsoleFor
  <2>1. buf' = << >>
    BY <1>5 DEF ConsoleFor, Unmade
  <2>2. \/ backlog' = backlog /\ pending' = pending
        \/ backlog' = << >> /\ pending' = backlog
    BY <1>5 DEF ConsoleFor
  <2> QED
    BY <2>1, <2>2 DEF Apart, Rising, Without
<1> QED
  BY <1>1, <1>2, <1>3, <1>4, <1>5, OthersElsewhere
LEMMA ShownNext ==
  ASSUME SerialPortAssumption, Types, Coming, Shown, Next
  PROVE  ShownInOrder'
<1> USE DEF Shown
<1>1. CASE Elsewhere \/ Say \/ ConsoleFor
  <2>1. UNCHANGED <<buf, scrollback>>
    BY <1>1 DEF Elsewhere, Say, ConsoleFor, paneVars
  <2> QED
    BY <2>1 DEF ShownInOrder
(* What is written is the last thing said. *)
<1>2. CASE Write
  <2>1. scrollback' = scrollback /\ writing # << >> /\ buf' \in {buf, Append(buf, saidSoFar)}
    BY <1>2 DEF Write, Writing
  <2>2. CASE buf' = Append(buf, saidSoFar)
    <3>1. /\ buf \in Seq(1 .. saidSoFar) /\ Len(buf) \in Nat /\ Len(buf') = Len(buf) + 1
          /\ buf'[Len(buf) + 1] = saidSoFar /\ \A i \in 1 .. Len(buf) : buf'[i] = buf[i]
      BY <2>2 DEF Types
    <3>2. \A i \in 1 .. Len(buf) : buf[i] < saidSoFar
      BY <2>1, NothingNewer DEF Writing, Without
    <3>3. ASSUME NEW i \in 1 .. Len(buf'), NEW j \in 1 .. Len(buf'), i < j
          PROVE  buf'[i] < buf'[j] \/ (buf'[i] > buf'[j] /\ buf'[j] \in scrollback')
      <4>1. i \in 1 .. Len(buf) /\ buf'[i] = buf[i]
        BY <3>1, <3>3
      <4>2. CASE j = Len(buf) + 1
        BY <3>1, <3>2, <4>1, <4>2
      <4>3. CASE j # Len(buf) + 1
        <5>1. j \in 1 .. Len(buf) /\ buf'[j] = buf[j]
          BY <3>1, <4>3
        <5> QED
          BY <2>1, <3>3, <4>1, <5>1 DEF ShownInOrder
      <4> QED
        BY <4>2, <4>3
    <3> QED
      BY <3>3 DEF ShownInOrder
  <2> QED
    BY <2>1, <2>2 DEF ShownInOrder
<1>3. CASE Restart
  BY <1>3 DEF Restart, ShownInOrder
(* Scrollback is older than much of what it is put after, and in order.     *)
<1>4. CASE Scrollback
  <2>1. /\ buf' = buf \o pending /\ scrollback = {}
        /\ scrollback' = {pending[i] : i \in 1 .. Len(pending)}
    BY <1>4 DEF Scrollback, Unmade
  <2>2. buf \in Seq(1 .. saidSoFar) /\ pending \in Seq(1 .. saidSoFar)
    BY DEF Types
  <2>3. /\ Len(buf) \in Nat /\ Len(pending) \in Nat
        /\ \A i \in 1 .. Len(buf') :
             \/ i \in 1 .. Len(buf) /\ buf'[i] = buf[i]
             \/ i - Len(buf) \in 1 .. Len(pending) /\ buf'[i] = pending[i - Len(buf)] /\ i > Len(buf)
    BY <2>1, <2>2, Concat
  <2>4. ASSUME NEW i \in 1 .. Len(buf'), NEW j \in 1 .. Len(buf'), i < j
        PROVE  buf'[i] < buf'[j] \/ (buf'[i] > buf'[j] /\ buf'[j] \in scrollback')
    <3>0. i \in Nat /\ j \in Nat /\ Len(buf) \in Nat
      <4>1. Len(buf') = Len(buf) + Len(pending)
        BY <2>1, <2>2, Concat
      <4> QED
        BY <2>3, <4>1
    <3>1. CASE j <= Len(buf)
      <4>1. /\ i \in 1 .. Len(buf) /\ buf'[i] = buf[i]
            /\ j \in 1 .. Len(buf) /\ buf'[j] = buf[j]
        BY <2>3, <2>4, <3>1
      <4>2. buf[i] < buf[j]
        BY <2>1, <2>4, <4>1 DEF ShownInOrder
      <4> QED
        BY <4>1, <4>2
    <3>2. CASE j > Len(buf)
      <4>0. j - Len(buf) \in 1 .. Len(pending) /\ buf'[j] = pending[j - Len(buf)]
        <5>1. j \notin 1 .. Len(buf)
          BY <3>0, <3>2
        <5> QED
          BY <2>3, <5>1
      <4>1. PICK k \in 1 .. Len(pending) : k = j - Len(buf) /\ buf'[j] = pending[k]
        BY <4>0
      <4>2. pending[k] \in scrollback' /\ pending[k] \in Nat
        BY <2>1, NothingNewer
      <4>3. CASE i <= Len(buf)
        <5>1. i \in 1 .. Len(buf) /\ buf'[i] = buf[i]
          BY <2>3, <4>3
        <5>2. buf[i] \in Nat
          BY <5>1, NothingNewer
        <5>3. Without(buf, pending[k])
          BY DEF Apart
        <5>4. buf[i] # pending[k]
          BY <5>1, <5>3 DEF Without
        <5>5. buf[i] < pending[k] \/ buf[i] > pending[k]
          BY <4>2, <5>2, <5>4
        <5> QED
          BY <4>1, <4>2, <5>1, <5>5
      <4>4. CASE i > Len(buf)
        <5>0. i - Len(buf) \in 1 .. Len(pending) /\ buf'[i] = pending[i - Len(buf)]
          <6>1. i \notin 1 .. Len(buf)
            BY <3>0, <4>4
          <6> QED
            BY <2>3, <6>1
        <5>1. PICK h \in 1 .. Len(pending) : h = i - Len(buf) /\ buf'[i] = pending[h]
          BY <5>0
        <5>2. h < k
          BY <2>4, <3>0, <4>1, <5>1
        <5> QED
          BY <4>1, <5>1, <5>2 DEF Apart, Rising
      <4> QED
        BY <2>3, <4>3, <4>4
    <3> QED
      BY <2>3, <3>1, <3>2
  <2> QED
    BY <2>4 DEF ShownInOrder
<1> QED
  BY <1>1, <1>2, <1>3, <1>4, OthersElsewhere

-----------------------------------------------------------------------------
LEMMA InvInit ==
  ASSUME SerialPortAssumption, Init
  PROVE  IInv
<1>1. Types
  <2>1. MaxSaid \in Nat /\ Backlog \in Nat /\ 0 \in 0 .. MaxSaid
    BY Holders
  <2>2. << >> \in Seq(1 .. 0) /\ << >> \in Seq([to : Holder, what : 1 .. 0]) /\ Len(<< >>) = 0
    BY EmptySeq
  <2>3. Free \in [does : Doing, to : Link \cup {0}, next : After]
    BY DEF Free, Doing, After
  <2>4. saidSoFar = 0 /\ gen = 0 /\ saidSoFar \in 0 .. MaxSaid
    BY <2>1 DEF Init
  <2>5. /\ backlog \in Seq(1 .. saidSoFar) /\ Len(backlog) <= Backlog
        /\ buf \in Seq(1 .. saidSoFar) /\ pending \in Seq(1 .. saidSoFar)
    BY <2>1, <2>2, <2>4 DEF Init
  <2>6. writing \in Seq([to : Holder, what : 1 .. saidSoFar]) /\ Len(writing) <= 1
    BY <2>2, <2>4 DEF Init
  <2>7. /\ scrollback \subseteq 1 .. saidSoFar /\ served \in Link \cup {0}
        /\ link \in [Link -> {"off", "open", "closing", "closed"}]
        /\ client \in [Link -> Client \cup {NoClient}] /\ release \in [Link -> 0 .. gen]
        /\ got \in [Link -> 0 .. gen] /\ locked \in [Link -> Locker \cup {"nobody"}]
        /\ at \in [Client -> Place]
        /\ via \in [Client -> Link \cup {0}]
    BY <2>4 DEF Init, Place, Mid, Locker
  <2>8. /\ claimed \in BOOLEAN /\ made \in BOOLEAN /\ comp \in BOOLEAN /\ late \in BOOLEAN
        /\ console \in Holder \cup {Nobody}
    BY DEF Init
  <2>9. gen \in Nat /\ born \in 0 .. gen /\ compGen \in 0 .. gen
    BY DEF Init
  <2> QED
    BY <2>3, <2>4, <2>5, <2>6, <2>7, <2>8, <2>9 DEF Init, Types
<1>2. Held
  <2>1. Claimed /\ Serving /\ Undoes /\ HeldBySomebody /\ SessionKeepsPort
    BY Holders DEF Init, Claimed, Serving, Undoes, HeldBySomebody, SessionKeepsPort, Free
  <2>2. Coming
    BY Holders DEF Init, Coming, Mid, Unlocked
  <2>3. HeldByClient
    BY DEF Init, HeldByClient, Plugged
  <2> QED
    BY <2>1, <2>2, <2>3 DEF Held
<1>3. Shown
  BY Holders DEF Init, Shown, Writing, Unmade, Apart, Rising, ShownInOrder, Free
<1> QED
  BY <1>1, <1>2, <1>3 DEF IInv

LEMMA InvNext ==
  ASSUME SerialPortAssumption, IInv, [Next]_vars
  PROVE  IInv'
<1> USE DEF IInv
<1>1. CASE Next
  <2>1. Coming
    BY DEF Held
  <2>2. Types'
    BY <1>1, <2>1, TypesNext
  <2>3. Held'
    BY <1>1, HeldNext
  <2>4. Writing' /\ Unmade' /\ Apart' /\ ShownInOrder'
    BY <1>1, <2>1, WritingNext, UnmadeNext, ApartNext, ShownNext DEF Shown
  <2> QED
    BY <2>2, <2>3, <2>4 DEF Shown
<1>2. CASE UNCHANGED vars
  <2>1. Types'
    BY <1>2 DEF vars, bridgeVars, paneVars, linkVars, clientVars, sessionVars, Types
  <2>2. Held'
    BY <1>2 DEF vars, bridgeVars, paneVars, linkVars, clientVars, sessionVars, Held, Claimed, Serving,
         Undoes, Coming, Unlocked, SessionKeepsPort, HeldByClient, Plugged, Undo, HeldBySomebody
  <2>3. Shown'
    BY <1>2 DEF vars, bridgeVars, paneVars, sessionVars, Shown, Writing, Unmade, Apart, Rising,
         Without, ShownInOrder
  <2> QED
    BY <2>1, <2>2, <2>3
<1> QED
  BY <1>1, <1>2

LEMMA InvAlways ==
  ASSUME SerialPortAssumption
  PROVE  Spec => []IInv
<1>1. Init => IInv
  BY InvInit
<1>2. IInv /\ [Next]_vars => IInv'
  BY InvNext
<1> QED
  BY <1>1, <1>2, PTL DEF Spec

(* Every variable keeps its type: the backlog never outgrows its bound, and *)
(* no release is of a claim there has not been.                             *)
THEOREM TypeCorrect ==
  ASSUME SerialPortAssumption
  PROVE  Spec => []TypeOK
<1>1. IInv => TypeOK
  <2> SUFFICES ASSUME Types PROVE TypeOK
    BY DEF IInv
  <2>1. console \in {Nobody, Pane, Companion} \cup Link
    BY DEF Types, Holder
  <2>2. verb.does \in {"nothing", "scrollback", "claim", "listen", "closePipe", "closeListener"}
    BY DEF Types, Doing
  <2>3. at \in [Client -> {"out", "accepted", "on", "gone", "panicked"} \cup Attaching]
    BY DEF Types, Place, Mid, Attaching
  <2>4. locked \in [Link -> {"nobody", "store", "client", "reader"}]
    BY DEF Types, Locker
  <2> QED
    BY <2>1, <2>2, <2>3, <2>4 DEF Types, TypeOK
<1> QED
  BY <1>1, InvAlways, PTL

(* While the session is connected it has the port: no release of an older   *)
(* claim takes it away, and no outside client whose link was open does.     *)
THEOREM SessionKeepsItsPort ==
  ASSUME SerialPortAssumption
  PROVE  Spec => []SessionKeepsPort
<1>1. IInv => SessionKeepsPort
  BY DEF IInv, Held
<1> QED
  BY <1>1, InvAlways, PTL

(* A client that is on and in its place, on the link the node is served on, *)
(* is the one handed what the node says, whatever verbs and clients came    *)
(* between.                                                                 *)
THEOREM ClientsHear ==
  ASSUME SerialPortAssumption
  PROVE  Spec => []ClientHears
<1>1. IInv => ClientHears
  BY DEF IInv, Held, HeldByClient, Plugged, Undo, ClientHears
<1> QED
  BY <1>1, InvAlways, PTL

(* A port that is claimed has the session, or a link with a client, on it.  *)
THEOREM ClaimsAreHeld ==
  ASSUME SerialPortAssumption
  PROVE  Spec => []ClaimedByWhoIsThere
<1>1. IInv => ClaimedByWhoIsThere
  BY DEF IInv, Held, HeldBySomebody, ClaimedByWhoIsThere
<1> QED
  BY <1>1, InvAlways, PTL

(* The console shows everything once and in the order it was said, but for  *)
(* scrollback, however the reader, the pane and a restart interleave.       *)
THEOREM ConsoleIsInOrder ==
  ASSUME SerialPortAssumption
  PROVE  Spec => []ShownInOrder
<1>1. IInv => ShownInOrder
  BY DEF IInv, Shown
<1> QED
  BY <1>1, InvAlways, PTL
=============================================================================
