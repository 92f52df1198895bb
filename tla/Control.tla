------------------------------- MODULE Control -------------------------------
(***************************************************************************)
(* The control socket: requests come in on each connection's reader, wait  *)
(* in one queue and are performed by a pump, their replies going back       *)
(* through the connection's writer.  A connection may also ask to be told   *)
(* of things: what the store then publishes goes into the same buffer, if   *)
(* there is room.  Connections are hung up, and the server closed, at any   *)
(* moment.                                                                  *)
(***************************************************************************)
EXTENDS Naturals, Sequences, FiniteSets

CONSTANTS
  Conn,     \* connections
  Buffer,   \* how many frames a connection's writer may be behind: 64
  Interest, \* the sets of topics each client may ask to be told of
  MaxAsked, \* bound on the requests of each connection
  MaxNotes  \* bound on what the store publishes

Topic == {"snapshot", "log"}

ControlAssumption ==
  /\ Buffer \in Nat \ {0}
  /\ Interest \in [Conn -> SUBSET SUBSET Topic]
  /\ MaxAsked \in [Conn -> Nat] /\ MaxNotes \in Nat

VARIABLES
  \* The connections
  peer,    \* the client's end: "there" or "gone"
  asked,   \* how many requests have been read
  pc,      \* where the reader is
  held,    \* the frame it is queueing, and what it does then
  reply,   \* the reply channel of the request it waits for
  out,     \* the frames queued for the writer
  writer,  \* "running", "draining" or "gone"
  wire,    \* the frames written
  \* The server
  closed,  \* s.closed
  over,    \* the context has been cancelled: nothing is pumped
  queue,   \* s.queue
  batch,   \* what a pump has taken and not yet answered
  refused, \* what Close has taken and not yet answered
  \* The subscriptions
  subs,    \* s.subs, with the topics each asked for
  dropped, \* snapshots coalesced away since the last one sent
  snapped, \* connections a snapshot has been sent to
  note,    \* what Notify is about to send, and to whom
  notes    \* how much has been published

connVars == <<peer, asked, pc, held, reply, out, writer, wire>>
serverVars == <<closed, over, queue, batch, refused>>
subVars == <<subs, dropped, snapped, note, notes>>
vars == <<connVars, serverVars, subVars>>

Reply(id, what) == [is |-> "reply", id |-> id, what |-> what, topics |-> {}, dropped |-> 0]
Ack(id, topics) == [Reply(id, "ack") EXCEPT !.topics = topics]
Note(topic, n) == [is |-> "note", id |-> 0, what |-> "event", topics |-> {topic}, dropped |-> n]

Nothing == [frame |-> Reply(0, "none"), then |-> "leaving"]
NoNote == [topic |-> "log", to |-> {}]

Init ==
  /\ peer = [c \in Conn |-> "there"]
  /\ asked = [c \in Conn |-> 0]
  /\ pc = [c \in Conn |-> "decoding"]
  /\ held = [c \in Conn |-> Nothing]
  /\ reply = [c \in Conn |-> << >>]
  /\ out = [c \in Conn |-> << >>]
  /\ writer = [c \in Conn |-> "running"]
  /\ wire = [c \in Conn |-> << >>]
  /\ closed = FALSE /\ over = FALSE
  /\ queue = << >> /\ batch = << >> /\ refused = << >>
  /\ subs = [c \in {} |-> {}]
  /\ dropped = [c \in Conn |-> 0]
  /\ snapped = {}
  /\ note = NoNote
  /\ notes = 0

Goto(c, label) == pc' = [pc EXCEPT ![c] = label]

(* Queue a frame, and go on to something once it is queued.                 *)
Hold(c, frame, then) ==
  /\ held' = [held EXCEPT ![c] = [frame |-> frame, then |-> then]]
  /\ Goto(c, "sending")

-----------------------------------------------------------------------------
(* serve: one request at a time.                                            *)

Asks(c) ==
  /\ pc[c] = "decoding"
  /\ peer[c] = "there"
  /\ asked[c] < MaxAsked[c]
  /\ asked' = [asked EXCEPT ![c] = @ + 1]

(* A call waits in the queue - unless the server has closed.                *)
Call(c) ==
  /\ Asks(c)
  /\ IF closed
       THEN Hold(c, Reply(asked'[c], "closing"), "leaving") /\ UNCHANGED <<reply, queue>>
       ELSE /\ queue' = Append(queue, c)
            /\ reply' = [reply EXCEPT ![c] = << >>]
            /\ Goto(c, "waiting") /\ UNCHANGED held
  /\ UNCHANGED <<peer, out, writer, wire, closed, over, batch, refused, subVars>>

(* Another protocol, or another release: refused, and hung up on.           *)
Disagree(c) ==
  /\ Asks(c)
  /\ Hold(c, Reply(asked'[c], "refusal"), "leaving")
  /\ UNCHANGED <<peer, reply, out, writer, wire, serverVars, subVars>>

Registers(c, topics) ==
  subs' = [d \in DOMAIN subs \cup {c} |-> IF d = c THEN topics ELSE subs[d]]

(* A slip: the subscription is registered before it is acknowledged. *)
SubscribeFirst(c, topics) ==
  /\ Asks(c)
  /\ Registers(c, topics)
  /\ Hold(c, Ack(asked'[c], topics), "decoding")
  /\ UNCHANGED <<peer, reply, out, writer, wire, serverVars, dropped, snapped, note, notes>>

(* A subscription is acknowledged, and then registered.                     *)
Subscribe(c, topics) ==
  /\ Asks(c)
  /\ Hold(c, Ack(asked'[c], topics), "subscribing")
  /\ UNCHANGED <<peer, reply, out, writer, wire, serverVars, subVars>>

Register(c) ==
  /\ pc[c] = "subscribing"
  /\ Registers(c, held[c].frame.topics)
  /\ Goto(c, "decoding")
  /\ UNCHANGED <<peer, asked, held, reply, out, writer, wire, serverVars, dropped, snapped, note, notes>>

TakeReply(c) ==
  /\ pc[c] = "waiting"
  /\ reply[c] # << >>
  /\ reply' = [reply EXCEPT ![c] = Tail(@)]
  /\ Hold(c, Reply(asked[c], Head(reply[c])), "decoding")
  /\ UNCHANGED <<peer, asked, out, writer, wire, serverVars, subVars>>

(* sendOrGiveUp: there is room, or there is no writer.                      *)
Send(c) ==
  /\ pc[c] = "sending"
  /\ Len(out[c]) < Buffer
  /\ out' = [out EXCEPT ![c] = Append(@, held[c].frame)]
  /\ Goto(c, held[c].then)
  /\ UNCHANGED <<peer, asked, held, reply, writer, wire, serverVars, subVars>>

GiveUp(c) ==
  /\ pc[c] = "sending"
  /\ writer[c] = "gone"
  /\ Goto(c, "leaving")
  /\ UNCHANGED <<peer, asked, held, reply, out, writer, wire, serverVars, subVars>>

(* The client is heard to have gone. *)
DecodeFails(c) ==
  /\ pc[c] = "decoding"
  /\ peer[c] = "gone"
  /\ Goto(c, "leaving")
  /\ UNCHANGED <<peer, asked, held, reply, out, writer, wire, serverVars, subVars>>

(* Unsubscribed, and the writer asked to finish. *)
Leave(c) ==
  /\ pc[c] = "leaving"
  /\ subs' = [d \in DOMAIN subs \ {c} |-> subs[d]]
  /\ Goto(c, "left")
  /\ UNCHANGED <<peer, asked, held, reply, out, writer, wire, serverVars, dropped, snapped, note, notes>>

HangUp(c) ==
  /\ peer[c] = "there"
  /\ peer' = [peer EXCEPT ![c] = "gone"]
  /\ UNCHANGED <<asked, pc, held, reply, out, writer, wire, serverVars, subVars>>

-----------------------------------------------------------------------------
(* The writer: a frame at a time, until one cannot be written.              *)
Write(c) ==
  /\ writer[c] # "gone"
  /\ out[c] # << >>
  /\ out' = [out EXCEPT ![c] = Tail(@)]
  /\ IF peer[c] = "there"
       THEN wire' = [wire EXCEPT ![c] = Append(@, Head(out[c]))] /\ UNCHANGED writer
       ELSE writer' = [writer EXCEPT ![c] = "gone"] /\ UNCHANGED wire
  /\ UNCHANGED <<peer, asked, pc, held, reply, serverVars, subVars>>

(* Told to finish, it writes what is queued by then and stops.              *)
Finish(c) ==
  /\ pc[c] = "left"
  /\ \/ writer[c] = "running" /\ writer' = [writer EXCEPT ![c] = "draining"]
     \/ writer[c] = "draining" /\ out[c] = << >> /\ writer' = [writer EXCEPT ![c] = "gone"]
  /\ UNCHANGED <<peer, asked, pc, held, reply, out, wire, serverVars, subVars>>

-----------------------------------------------------------------------------
(* The pump takes the queue as it is, and performs it.                      *)
Pump ==
  /\ ~over
  /\ batch = << >> /\ queue # << >>
  /\ batch' = queue
  /\ queue' = << >>
  /\ UNCHANGED <<connVars, closed, over, refused, subVars>>

Answers(c, what) ==
  /\ reply[c] = << >>
  /\ reply' = [reply EXCEPT ![c] = Append(@, what)]

(* With the context cancelled the store refuses: an answer all the same.    *)
Perform ==
  /\ batch # << >>
  /\ Answers(Head(batch), IF over THEN "error" ELSE "result")
  /\ batch' = Tail(batch)
  /\ UNCHANGED <<peer, asked, pc, held, out, writer, wire, closed, over, queue, refused, subVars>>

Cancel ==
  /\ ~over
  /\ over' = TRUE
  /\ UNCHANGED <<connVars, closed, queue, batch, refused, subVars>>

(* A slip: what was queued is forgotten. *)
CloseForgets ==
  /\ ~closed
  /\ closed' = TRUE
  /\ queue' = << >>
  /\ UNCHANGED <<connVars, over, batch, refused, subVars>>

(* A slip: what was queued is refused, and left in the queue. *)
CloseLeaves ==
  /\ ~closed
  /\ closed' = TRUE
  /\ refused' = queue
  /\ UNCHANGED <<connVars, over, queue, batch, subVars>>

(* Close takes what is queued, to answer it; nothing is queued after.       *)
Close ==
  /\ ~closed
  /\ closed' = TRUE
  /\ refused' = queue
  /\ queue' = << >>
  /\ UNCHANGED <<connVars, over, batch, subVars>>

Refuse ==
  /\ refused # << >>
  /\ Answers(Head(refused), "closing")
  /\ refused' = Tail(refused)
  /\ UNCHANGED <<peer, asked, pc, held, out, writer, wire, closed, over, queue, batch, subVars>>

-----------------------------------------------------------------------------
(* Notify, on the store's goroutine: to those who ask for the topic now.    *)
Notify(topic) ==
  /\ notes < MaxNotes
  /\ note.to = {}
  /\ notes' = notes + 1
  /\ note' = [topic |-> topic, to |-> {c \in DOMAIN subs : topic \in subs[c]}]
  /\ UNCHANGED <<connVars, serverVars, subs, dropped, snapped>>

(* To each in turn, if there is room; never waiting.                        *)
Offer(c, frame) ==
  out' = IF Len(out[c]) < Buffer THEN [out EXCEPT ![c] = Append(@, frame)] ELSE out

Tell(c) ==
  /\ c \in note.to
  /\ note' = [note EXCEPT !.to = @ \ {c}]
  /\ IF note.topic = "snapshot"
       THEN /\ Offer(c, Note("snapshot", dropped[c]))
            /\ dropped' = [dropped EXCEPT ![c] = 0]
            /\ snapped' = snapped \cup {c}
       ELSE Offer(c, Note(note.topic, 0)) /\ UNCHANGED <<dropped, snapped>>
  /\ UNCHANGED <<peer, asked, pc, held, reply, writer, wire, serverVars, subs, notes>>

(* A snapshot too soon after the last is counted and not sent.              *)
Coalesce(c) ==
  /\ c \in note.to /\ note.topic = "snapshot" /\ c \in snapped
  /\ note' = [note EXCEPT !.to = @ \ {c}]
  /\ dropped' = [dropped EXCEPT ![c] = @ + 1]
  /\ UNCHANGED <<connVars, serverVars, subs, snapped, notes>>

-----------------------------------------------------------------------------
Client(c) == Call(c) \/ Disagree(c) \/ HangUp(c) \/ \E topics \in Interest[c] : Subscribe(c, topics)

Reader(c) == Register(c) \/ TakeReply(c) \/ Send(c) \/ GiveUp(c) \/ DecodeFails(c) \/ Leave(c)

Writer(c) == Write(c) \/ Finish(c)

Publish == (\E topic \in Topic : Notify(topic)) \/ \E c \in Conn : Tell(c) \/ Coalesce(c)

Next ==
  \/ \E c \in Conn : Client(c) \/ Reader(c) \/ Writer(c)
  \/ Pump \/ Perform \/ Cancel \/ Close \/ Refuse
  \/ Publish

Spec == Init /\ [][Next]_vars

(* The goroutines run, a client reads what it is sent or is found to have   *)
(* gone, and a server whose pump has stopped is closed. *)
Fairness ==
  /\ \A c \in Conn : WF_vars(Reader(c)) /\ WF_vars(Writer(c))
  /\ WF_vars(Pump) /\ WF_vars(Perform) /\ WF_vars(over /\ Close) /\ WF_vars(Refuse)

FairSpec == Spec /\ Fairness

-----------------------------------------------------------------------------
Frame ==
  [is : {"reply", "note"}, id : Nat, topics : SUBSET Topic, dropped : 0 .. MaxNotes,
   what : {"none", "ack", "closing", "refusal", "result", "error", "event"}]

TypeOK ==
  /\ \A c \in Conn :
       /\ peer[c] \in {"there", "gone"} /\ writer[c] \in {"running", "draining", "gone"}
       /\ pc[c] \in {"decoding", "waiting", "sending", "subscribing", "leaving", "left"}
       /\ held[c].frame \in Frame
       /\ out[c] \in Seq(Frame) /\ Len(out[c]) <= Buffer
       /\ wire[c] \in Seq(Frame)
       /\ dropped[c] \in 0 .. MaxNotes
  /\ {closed, over} \subseteq BOOLEAN
  /\ DOMAIN subs \subseteq Conn /\ snapped \subseteq Conn /\ note.to \subseteq Conn

Times(c, s) == Cardinality({i \in DOMAIN s : s[i] = c})

(* A reader that waits has one answer coming and no more, whether its call  *)
(* is still queued, taken by a pump, taken by Close, or answered; one that  *)
(* does not wait has none.  So neither the pump nor Close is ever stuck on  *)
(* a reply channel, and no reply answers another request.                   *)
OneAnswerComing ==
  \A c \in Conn :
    Times(c, queue) + Times(c, batch) + Times(c, refused) + Len(reply[c])
      = IF pc[c] = "waiting" THEN 1 ELSE 0

Said(c) == wire[c] \o out[c]

(* Nothing is notified to a client before it has been told that it is       *)
(* subscribed to it: the acknowledgement is not taken for news, nor news    *)
(* for the acknowledgement.                                                 *)
AckBeforeNotes ==
  \A c \in Conn : writer[c] # "gone" => \A i \in DOMAIN Said(c) :
    Said(c)[i].is = "note" =>
      \E j \in 1 .. i - 1 : Said(c)[j].what = "ack" /\ Said(c)[i].topics \subseteq Said(c)[j].topics

(* A connection the server hangs up on has been sent every reply and        *)
(* refusal there was for it.                                                *)
LastWordIsSent ==
  \A c \in Conn : writer[c] = "gone" /\ peer[c] = "there" =>
    Cardinality({i \in DOMAIN wire[c] : wire[c][i].is = "reply"}) = asked[c]

(* Whatever is asked is answered, closing or not, or the client has gone.   *)
Unanswered(c) ==
  peer[c] = "there" /\ Cardinality({i \in DOMAIN wire[c] : wire[c][i].is = "reply"}) < asked[c]

CallsAnswered == \A c \in Conn : Unanswered(c) ~> ~Unanswered(c)
=============================================================================
