---------------------------- MODULE ControlProofs ----------------------------
(***************************************************************************)
(* What is proved of the control socket for any connections, buffers and    *)
(* interests, however its goroutines interleave: its types, that a reader   *)
(* which waits has one answer coming, that news never overtakes the         *)
(* acknowledgement of the subscription to it, and that a connection the     *)
(* server ends has been sent every reply there was for it.                  *)
(***************************************************************************)
EXTENDS Control, FiniteSetTheorems, FunctionTheorems, TLAPS

-----------------------------------------------------------------------------
(* The inductive invariant.                                                 *)

Answer == {"result", "error", "closing"}

(* The shapes TypeOK leaves out, and the bound on what is counted away:     *)
(* each publishing coalesces at most one snapshot of each client.           *)
Types ==
  /\ peer \in [Conn -> {"there", "gone"}] /\ writer \in [Conn -> {"running", "draining", "gone"}]
  /\ pc \in [Conn -> {"decoding", "waiting", "sending", "subscribing", "leaving", "left"}]
  /\ asked \in [Conn -> Nat]
  /\ held \in [Conn -> [frame : Frame, then : {"decoding", "subscribing", "leaving"}]]
  /\ reply \in [Conn -> Seq(Answer)]
  /\ out \in [Conn -> Seq(Frame)] /\ wire \in [Conn -> Seq(Frame)]
  /\ {queue, batch, refused} \subseteq Seq(Conn)
  /\ closed \in BOOLEAN /\ over \in BOOLEAN
  /\ DOMAIN subs \subseteq Conn /\ subs \in [DOMAIN subs -> SUBSET Topic]
  /\ dropped \in [Conn -> Nat] /\ snapped \subseteq Conn
  /\ note \in [topic : Topic, to : SUBSET Conn] /\ notes \in 0 .. MaxNotes

Room == \A c \in Conn : Len(out[c]) <= Buffer

Coalesced ==
  \A c \in Conn : dropped[c] + (IF c \in note.to THEN 1 ELSE 0) <= notes

(* Nothing is refused before the server has closed.                         *)
NoneRefused == ~closed => refused = << >>

(* It was said that c is subscribed to these topics.                        *)
Acked(s, topics) == \E j \in DOMAIN s : s[j].what = "ack" /\ topics \subseteq s[j].topics

(* Whoever is registered, about to be, or about to be notified, was told    *)
(* first.                                                                   *)
Subscribed(c) ==
  writer[c] # "gone" =>
    /\ pc[c] = "sending" /\ held[c].then = "subscribing" => held[c].frame.what = "ack"
    /\ pc[c] = "subscribing" => Acked(Said(c), held[c].frame.topics)
    /\ c \in DOMAIN subs => Acked(Said(c), subs[c])
    /\ c \in note.to => Acked(Said(c), {note.topic})

(* What AckBeforeNotes says of one connection.                              *)
InOrder(s) ==
  \A i \in DOMAIN s : s[i].is = "note" =>
    \E j \in 1 .. i - 1 : s[j].what = "ack" /\ s[i].topics \subseteq s[j].topics

NewsAfterAck(c) == writer[c] # "gone" => InOrder(Said(c))

(* The replies sent or queued, and the one the reader has still to queue,   *)
(* are as many as the requests; and a writer is told to finish only by a    *)
(* reader that has left.                                                    *)
Replies(s) == Cardinality({i \in DOMAIN s : s[i].is = "reply"})

Replied(c) ==
  /\ writer[c] # "running" => pc[c] = "left" \/ peer[c] = "gone"
  /\ peer[c] = "there" /\ writer[c] # "gone" =>
       Replies(Said(c)) + (IF pc[c] \in {"waiting", "sending"} THEN 1 ELSE 0) = asked[c]
  /\ peer[c] = "there" /\ writer[c] = "gone" => Replies(wire[c]) = asked[c]
  /\ pc[c] = "sending" => held[c].frame.is = "reply"

ConnInv(c) == Subscribed(c) /\ NewsAfterAck(c) /\ Replied(c)

IInv == Types /\ Room /\ Coalesced /\ NoneRefused /\ OneAnswerComing /\ \A c \in Conn : ConnInv(c)

-----------------------------------------------------------------------------
(* Counting in sequences.                                                   *)
Places(s, S) == {i \in DOMAIN s : s[i] \in S}
Count(s, S) == Cardinality(Places(s, S))

LEMMA CountIsNat ==
  ASSUME NEW T, NEW s \in Seq(T), NEW S
  PROVE  IsFiniteSet(Places(s, S)) /\ Count(s, S) \in Nat
<1>1. DOMAIN s = 1 .. Len(s) /\ Len(s) \in Nat
  OBVIOUS
<1>2. IsFiniteSet(1 .. Len(s))
  BY <1>1, FS_Interval
<1>3. Places(s, S) \in SUBSET (1 .. Len(s))
  BY <1>1 DEF Places
<1> QED
  BY <1>2, <1>3, FS_Subset, FS_CardinalityType DEF Count

LEMMA CountEmpty == \A S : Count(<< >>, S) = 0
<1>1. \A S : Places(<< >>, S) = {}
  BY DEF Places
<1> QED
  BY <1>1, FS_EmptySet DEF Count

LEMMA CountAppend ==
  ASSUME NEW T, NEW s \in Seq(T), NEW e \in T, NEW S
  PROVE  Count(Append(s, e), S) = Count(s, S) + (IF e \in S THEN 1 ELSE 0)
<1> DEFINE n == Len(s) + 1
<1>1. /\ Len(s) \in Nat /\ DOMAIN s = 1 .. Len(s) /\ DOMAIN Append(s, e) = 1 .. n
      /\ \A i \in DOMAIN s : Append(s, e)[i] = s[i]
      /\ Append(s, e)[n] = e
  OBVIOUS
<1>2. n \notin Places(s, S)
  BY <1>1 DEF Places
<1>3. Places(Append(s, e), S) = IF e \in S THEN Places(s, S) \cup {n} ELSE Places(s, S)
  BY <1>1 DEF Places
<1>4. IsFiniteSet(Places(s, S)) /\ Count(s, S) \in Nat
  BY CountIsNat
<1>5. Cardinality(Places(s, S) \cup {n}) = Cardinality(Places(s, S)) + 1
  BY <1>2, <1>4, FS_AddElement
<1> QED
  BY <1>3, <1>4, <1>5 DEF Count

(* All but the first are one place further up.                              *)
LEMMA CountTail ==
  ASSUME NEW T, NEW s \in Seq(T), s # << >>, NEW S
  PROVE  Count(s, S) = Count(Tail(s), S) + (IF Head(s) \in S THEN 1 ELSE 0)
<1> DEFINE rest == Places(s, S) \ {1}
           up == [i \in Places(Tail(s), S) |-> i + 1]
<1>1. /\ Len(s) \in Nat \ {0} /\ DOMAIN s = 1 .. Len(s) /\ DOMAIN Tail(s) = 1 .. Len(s) - 1
      /\ \A i \in DOMAIN Tail(s) : Tail(s)[i] = s[i + 1]
      /\ Head(s) = s[1] /\ Tail(s) \in Seq(T)
  OBVIOUS
<1>2. up \in Bijection(Places(Tail(s), S), rest)
  <2>1. \A i \in Places(Tail(s), S) : up[i] \in rest
    BY <1>1 DEF Places
  <2>2. \A i, j \in Places(Tail(s), S) : up[i] = up[j] => i = j
    BY <1>1 DEF Places
  <2>3. \A k \in rest : k - 1 \in Places(Tail(s), S) /\ up[k - 1] = k
    BY <1>1 DEF Places
  <2> QED
    BY <2>1, <2>2, <2>3, Fun_IsBij
<1>3. IsFiniteSet(Places(Tail(s), S)) /\ Count(Tail(s), S) \in Nat
  BY <1>1, CountIsNat
<1>4. Cardinality(rest) = Cardinality(Places(Tail(s), S))
  BY <1>2, <1>3, FS_Bijection DEF ExistsBijection
<1>5. IsFiniteSet(Places(s, S)) /\ Count(s, S) \in Nat
  BY CountIsNat
<1>6. Cardinality(rest) = IF 1 \in Places(s, S) THEN Cardinality(Places(s, S)) - 1
                                                ELSE Cardinality(Places(s, S))
  BY <1>5, FS_RemoveElement
<1>7. 1 \in Places(s, S) <=> Head(s) \in S
  BY <1>1 DEF Places
<1> QED
  BY <1>3, <1>4, <1>5, <1>6, <1>7 DEF Count

LEMMA TimesIsCount == \A c, s : Times(c, s) = Count(s, {c})
BY DEF Times, Count, Places

LEMMA RepliesIsCount ==
  ASSUME NEW s \in Seq(Frame)
  PROVE  Replies(s) = Count(s, {f \in Frame : f.is = "reply"})
<1>1. \A i \in DOMAIN s : s[i] \in Frame
  OBVIOUS
<1>2. {i \in DOMAIN s : s[i].is = "reply"} = Places(s, {f \in Frame : f.is = "reply"})
  BY <1>1 DEF Places
<1> QED
  BY <1>2 DEF Replies, Count

-----------------------------------------------------------------------------
(* Types.                                                                   *)
What == {"none", "ack", "closing", "refusal", "result", "error", "event"}

LEMMA FramesAreTyped ==
  ASSUME ControlAssumption
  PROVE  /\ \A id \in Nat, what \in What : Reply(id, what) \in Frame
         /\ \A id \in Nat, topics \in SUBSET Topic : Ack(id, topics) \in Frame
         /\ \A topic \in Topic, n \in 0 .. MaxNotes : Note(topic, n) \in Frame
<1>1. 0 \in 0 .. MaxNotes
  BY DEF ControlAssumption
<1>2. \A id \in Nat, what \in What : Reply(id, what) \in Frame
  BY <1>1 DEF Reply, Frame, What
<1>3. \A id \in Nat, topics \in SUBSET Topic : Ack(id, topics) \in Frame
  <2> TAKE id \in Nat, topics \in SUBSET Topic
  <2>1. Ack(id, topics) = [is |-> "reply", id |-> id, what |-> "ack", topics |-> topics, dropped |-> 0]
    BY DEF Ack, Reply
  <2> QED
    BY <1>1, <2>1 DEF Frame
<1>4. \A topic \in Topic, n \in 0 .. MaxNotes : Note(topic, n) \in Frame
  BY DEF Note, Frame
<1> QED
  BY <1>2, <1>3, <1>4

(* What is queued for the writer, and where the reader goes, by the name of *)
(* the operator that does it.                                               *)
LEMMA HoldTyped ==
  ASSUME Types, NEW c \in Conn, NEW frame \in Frame,
         NEW then \in {"decoding", "subscribing", "leaving"}, Hold(c, frame, then)
  PROVE  /\ held' \in [Conn -> [frame : Frame, then : {"decoding", "subscribing", "leaving"}]]
         /\ pc' \in [Conn -> {"decoding", "waiting", "sending", "subscribing", "leaving", "left"}]
         /\ held'[c].frame = frame /\ held'[c].then = then /\ pc'[c] = "sending"
         /\ \A d \in Conn \ {c} : held'[d] = held[d] /\ pc'[d] = pc[d]
<1> DEFINE h == [frame |-> frame, then |-> then]
<1>1. h \in [frame : Frame, then : {"decoding", "subscribing", "leaving"}]
  OBVIOUS
<1>2. h.frame = frame /\ h.then = then
  OBVIOUS
<1>3. held' = [held EXCEPT ![c] = h] /\ pc' = [pc EXCEPT ![c] = "sending"]
  BY DEF Hold, Goto
<1> HIDE DEF h
<1> QED
  BY <1>1, <1>2, <1>3 DEF Types

(* The client asks.                                                         *)
LEMMA AsksTyped ==
  ASSUME ControlAssumption, Types, NEW c \in Conn, Asks(c)
  PROVE  /\ asked' \in [Conn -> Nat] /\ asked'[c] \in Nat /\ asked'[c] = asked[c] + 1
         /\ \A d \in Conn \ {c} : asked'[d] = asked[d]
         /\ pc[c] = "decoding" /\ peer[c] = "there"
BY DEF Asks, Types

LEMMA ClientTyped ==
  ASSUME ControlAssumption, Types, NEW c \in Conn, Client(c)
  PROVE  Types'
<1>1. CASE Call(c)
  <2>1. asked' \in [Conn -> Nat] /\ asked'[c] \in Nat
    BY <1>1, AsksTyped DEF Call
  <2>2. CASE closed
    <3>1. Hold(c, Reply(asked'[c], "closing"), "leaving") /\ UNCHANGED <<reply, queue>>
      BY <1>1, <2>2 DEF Call
    <3>2. Reply(asked'[c], "closing") \in Frame
      BY <2>1, FramesAreTyped DEF What
    <3>3. /\ held' \in [Conn -> [frame : Frame, then : {"decoding", "subscribing", "leaving"}]]
          /\ pc' \in [Conn -> {"decoding", "waiting", "sending", "subscribing", "leaving", "left"}]
      BY <3>1, <3>2, HoldTyped
    <3> QED
      BY <1>1, <2>1, <3>1, <3>3 DEF Call, Types, subVars
  <2>3. CASE ~closed
    <3>1. queue' \in Seq(Conn) /\ reply' \in [Conn -> Seq(Answer)]
      <4>1. queue' = Append(queue, c) /\ reply' = [reply EXCEPT ![c] = << >>]
        BY <1>1, <2>3 DEF Call
      <4>2. queue \in Seq(Conn) /\ reply \in [Conn -> Seq(Answer)] /\ << >> \in Seq(Answer)
        BY DEF Types
      <4> QED
        BY <4>1, <4>2
    <3>2. pc' = [pc EXCEPT ![c] = "waiting"] /\ held' = held
      BY <1>1, <2>3 DEF Call, Goto
    <3>3. pc' \in [Conn -> {"decoding", "waiting", "sending", "subscribing", "leaving", "left"}]
      BY <3>2 DEF Types
    <3> QED
      BY <1>1, <2>1, <3>1, <3>2, <3>3 DEF Call, Types, subVars
  <2> QED
    BY <2>2, <2>3
<1>2. CASE Disagree(c)
  <2>1. asked' \in [Conn -> Nat] /\ asked'[c] \in Nat
    BY <1>2, AsksTyped DEF Disagree
  <2>2. Reply(asked'[c], "refusal") \in Frame
    BY <2>1, FramesAreTyped DEF What
  <2>3. /\ held' \in [Conn -> [frame : Frame, then : {"decoding", "subscribing", "leaving"}]]
        /\ pc' \in [Conn -> {"decoding", "waiting", "sending", "subscribing", "leaving", "left"}]
    BY <1>2, <2>2, HoldTyped DEF Disagree
  <2> QED
    BY <1>2, <2>1, <2>3 DEF Disagree, Types, subVars, serverVars
<1>3. CASE HangUp(c)
  BY <1>3 DEF HangUp, Types, subVars, serverVars
<1>4. CASE \E topics \in Interest[c] : Subscribe(c, topics)
  <2>1. PICK topics \in Interest[c] : Subscribe(c, topics)
    BY <1>4
  <2>2. topics \in SUBSET Topic
    BY DEF ControlAssumption
  <2>3. asked' \in [Conn -> Nat] /\ asked'[c] \in Nat
    BY <2>1, AsksTyped DEF Subscribe
  <2>4. Ack(asked'[c], topics) \in Frame
    BY <2>2, <2>3, FramesAreTyped
  <2>5. /\ held' \in [Conn -> [frame : Frame, then : {"decoding", "subscribing", "leaving"}]]
        /\ pc' \in [Conn -> {"decoding", "waiting", "sending", "subscribing", "leaving", "left"}]
    BY <2>1, <2>4, HoldTyped DEF Subscribe
  <2> QED
    BY <2>1, <2>3, <2>5 DEF Subscribe, Types, subVars, serverVars
<1> QED
  BY <1>1, <1>2, <1>3, <1>4 DEF Client

LEMMA ReaderTyped ==
  ASSUME ControlAssumption, Types, NEW c \in Conn, Reader(c)
  PROVE  Types'
<1>1. CASE Register(c)
  <2>1. held[c].frame.topics \in SUBSET Topic
    <3>1. held[c].frame \in Frame
      BY DEF Types
    <3> QED
      BY <3>1 DEF Frame
  <2>2. DOMAIN subs' \subseteq Conn /\ subs' \in [DOMAIN subs' -> SUBSET Topic]
    BY <1>1, <2>1 DEF Register, Registers, Types
  <2>3. pc' \in [Conn -> {"decoding", "waiting", "sending", "subscribing", "leaving", "left"}]
    BY <1>1 DEF Register, Goto, Types
  <2> QED
    BY <1>1, <2>2, <2>3 DEF Register, Types, serverVars
<1>2. CASE TakeReply(c)
  <2>1. reply[c] \in Seq(Answer) /\ reply[c] # << >> /\ asked[c] \in Nat
    BY <1>2 DEF TakeReply, Types
  <2>2. Head(reply[c]) \in What /\ Tail(reply[c]) \in Seq(Answer)
    <3>1. Head(reply[c]) \in Answer /\ Tail(reply[c]) \in Seq(Answer)
      BY <2>1
    <3> QED
      BY <3>1 DEF Answer, What
  <2>3. Reply(asked[c], Head(reply[c])) \in Frame
    BY <2>1, <2>2, FramesAreTyped
  <2>4. /\ held' \in [Conn -> [frame : Frame, then : {"decoding", "subscribing", "leaving"}]]
        /\ pc' \in [Conn -> {"decoding", "waiting", "sending", "subscribing", "leaving", "left"}]
    BY <1>2, <2>3, HoldTyped DEF TakeReply
  <2>5. reply' \in [Conn -> Seq(Answer)]
    BY <1>2, <2>2 DEF TakeReply, Types
  <2> QED
    BY <1>2, <2>4, <2>5 DEF TakeReply, Types, serverVars, subVars
<1>3. CASE Send(c)
  <2>1. held[c].frame \in Frame /\ held[c].then \in {"decoding", "subscribing", "leaving"}
    BY DEF Types
  <2>2. out' \in [Conn -> Seq(Frame)]
    BY <1>3, <2>1 DEF Send, Types
  <2>3. pc' \in [Conn -> {"decoding", "waiting", "sending", "subscribing", "leaving", "left"}]
    BY <1>3, <2>1 DEF Send, Goto, Types
  <2> QED
    BY <1>3, <2>2, <2>3 DEF Send, Types, serverVars, subVars
<1>4. CASE GiveUp(c)
  BY <1>4 DEF GiveUp, Goto, Types, serverVars, subVars
<1>5. CASE DecodeFails(c)
  BY <1>5 DEF DecodeFails, Goto, Types, serverVars, subVars
<1>6. CASE Leave(c)
  <2>1. DOMAIN subs' \subseteq Conn /\ subs' \in [DOMAIN subs' -> SUBSET Topic]
    BY <1>6 DEF Leave, Types
  <2>2. pc' \in [Conn -> {"decoding", "waiting", "sending", "subscribing", "leaving", "left"}]
    BY <1>6 DEF Leave, Goto, Types
  <2> QED
    BY <1>6, <2>1, <2>2 DEF Leave, Types, serverVars
<1> QED
  BY <1>1, <1>2, <1>3, <1>4, <1>5, <1>6 DEF Reader

LEMMA WriterTyped ==
  ASSUME Types, NEW c \in Conn, Writer(c)
  PROVE  Types'
<1>1. CASE Write(c)
  <2>1. out[c] \in Seq(Frame) /\ out[c] # << >>
    BY <1>1 DEF Write, Types
  <2>2. Head(out[c]) \in Frame /\ Tail(out[c]) \in Seq(Frame)
    BY <2>1
  <2>3. out' \in [Conn -> Seq(Frame)]
    BY <1>1, <2>2 DEF Write, Types
  <2>4. wire' \in [Conn -> Seq(Frame)] /\ writer' \in [Conn -> {"running", "draining", "gone"}]
    <3>1. /\ wire \in [Conn -> Seq(Frame)] /\ writer \in [Conn -> {"running", "draining", "gone"}]
          /\ Append(wire[c], Head(out[c])) \in Seq(Frame)
      BY <2>2 DEF Types
    <3>2. CASE peer[c] = "there"
      BY <1>1, <3>1, <3>2 DEF Write
    <3>3. CASE peer[c] # "there"
      BY <1>1, <3>1, <3>3 DEF Write
    <3> QED
      BY <3>2, <3>3
  <2> QED
    BY <1>1, <2>3, <2>4 DEF Write, Types, serverVars, subVars
<1>2. CASE Finish(c)
  BY <1>2 DEF Finish, Types, serverVars, subVars
<1> QED
  BY <1>1, <1>2 DEF Writer

Serving == Pump \/ Perform \/ Cancel \/ Close \/ Refuse

LEMMA AnswersTyped ==
  ASSUME Types, NEW c \in Conn, NEW what \in Answer, Answers(c, what)
  PROVE  /\ reply' \in [Conn -> Seq(Answer)]
         /\ reply[c] = << >> /\ reply'[c] = <<what>>
         /\ \A d \in Conn \ {c} : reply'[d] = reply[d]
BY DEF Answers, Types

LEMMA ServingTyped ==
  ASSUME Types, Serving
  PROVE  Types'
<1>1. CASE Pump
  BY <1>1 DEF Pump, Types, connVars, subVars
<1>2. CASE Perform
  <2>1. Head(batch) \in Conn /\ Tail(batch) \in Seq(Conn)
    BY <1>2 DEF Perform, Types
  <2>2. (IF over THEN "error" ELSE "result") \in Answer
    BY DEF Answer
  <2>3. reply' \in [Conn -> Seq(Answer)]
    BY <1>2, <2>1, <2>2, AnswersTyped DEF Perform
  <2> QED
    BY <1>2, <2>1, <2>3 DEF Perform, Types, subVars
<1>3. CASE Cancel
  BY <1>3 DEF Cancel, Types, connVars, subVars
<1>4. CASE Close
  BY <1>4 DEF Close, Types, connVars, subVars
<1>5. CASE Refuse
  <2>1. Head(refused) \in Conn /\ Tail(refused) \in Seq(Conn)
    BY <1>5 DEF Refuse, Types
  <2>2. reply' \in [Conn -> Seq(Answer)]
    BY <1>5, <2>1, AnswersTyped DEF Refuse, Answer
  <2> QED
    BY <1>5, <2>1, <2>2 DEF Refuse, Types, subVars
<1> QED
  BY <1>1, <1>2, <1>3, <1>4, <1>5 DEF Serving

LEMMA OfferTyped ==
  ASSUME Types, NEW c \in Conn, NEW frame \in Frame, Offer(c, frame)
  PROVE  /\ out' \in [Conn -> Seq(Frame)]
         /\ \A d \in Conn \ {c} : out'[d] = out[d]
         /\ out'[c] = out[c] \/ (Len(out[c]) < Buffer /\ out'[c] = Append(out[c], frame))
BY DEF Offer, Types

(* Whatever is told is a frame, offered.                                    *)
LEMMA TellOffers ==
  ASSUME ControlAssumption, Types, Coalesced, NEW c \in Conn, Tell(c)
  PROVE  \E frame \in Frame :
           Offer(c, frame) /\ frame.is = "note" /\ frame.what = "event" /\ frame.topics = {note.topic}
<1>1. dropped[c] \in 0 .. MaxNotes /\ 0 \in 0 .. MaxNotes
  <2>1. dropped[c] \in Nat /\ notes \in 0 .. MaxNotes /\ MaxNotes \in Nat /\ c \in note.to
    BY DEF Tell, Types, ControlAssumption
  <2>2. dropped[c] + 1 <= notes
    BY <2>1 DEF Coalesced
  <2> QED
    BY <2>1, <2>2
<1>2. note.topic \in Topic
  BY DEF Types
<1>3. Note(note.topic, 0) \in Frame /\ Note(note.topic, dropped[c]) \in Frame
  BY <1>1, <1>2, FramesAreTyped
<1>4. Offer(c, Note(note.topic, 0)) \/ Offer(c, Note(note.topic, dropped[c]))
  BY DEF Tell
<1>5. \A n : /\ Note(note.topic, n).is = "note" /\ Note(note.topic, n).what = "event"
             /\ Note(note.topic, n).topics = {note.topic}
  BY DEF Note
<1> QED
  BY <1>3, <1>4, <1>5

LEMMA PublishTyped ==
  ASSUME ControlAssumption, Types, Coalesced, Publish
  PROVE  Types'
<1>1. ASSUME NEW topic \in Topic, Notify(topic)
      PROVE  Types'
  <2>1. note' \in [topic : Topic, to : SUBSET Conn]
    BY <1>1 DEF Notify, Types
  <2>2. notes' \in 0 .. MaxNotes
    BY <1>1 DEF Notify, Types, ControlAssumption
  <2> QED
    BY <1>1, <2>1, <2>2 DEF Notify, Types, connVars, serverVars
<1>2. ASSUME NEW c \in Conn, Tell(c)
      PROVE  Types'
  <2>1. note' \in [topic : Topic, to : SUBSET Conn] /\ note.topic \in Topic
    BY <1>2 DEF Tell, Types
  <2>2. PICK frame \in Frame : Offer(c, frame)
    BY <1>2, TellOffers
  <2>4. out' \in [Conn -> Seq(Frame)]
    BY <2>2, OfferTyped
  <2>5. dropped' \in [Conn -> Nat] /\ snapped' \subseteq Conn
    <3>1. dropped \in [Conn -> Nat] /\ snapped \subseteq Conn
      BY DEF Types
    <3>2. CASE note.topic = "snapshot"
      BY <1>2, <3>1, <3>2 DEF Tell
    <3>3. CASE note.topic # "snapshot"
      BY <1>2, <3>1, <3>3 DEF Tell
    <3> QED
      BY <3>2, <3>3
  <2> QED
    BY <1>2, <2>1, <2>4, <2>5 DEF Tell, Types, serverVars
<1>3. ASSUME NEW c \in Conn, Coalesce(c)
      PROVE  Types'
  <2>1. note' \in [topic : Topic, to : SUBSET Conn]
    BY <1>3 DEF Coalesce, Types
  <2>2. dropped' \in [Conn -> Nat]
    BY <1>3 DEF Coalesce, Types
  <2> QED
    BY <1>3, <2>1, <2>2 DEF Coalesce, Types, connVars, serverVars
<1> QED
  BY <1>1, <1>2, <1>3 DEF Publish

(* The buffers, and what is coalesced away.                                 *)
LEMMA RoomNext ==
  ASSUME ControlAssumption, Types, Room, Coalesced, [Next]_vars
  PROVE  Room'
<1>1. CASE UNCHANGED out
  BY <1>1 DEF Room
<1>2. ASSUME NEW c \in Conn, Send(c)
      PROVE  Room'
  <2>1. held[c].frame \in Frame /\ out[c] \in Seq(Frame) /\ Len(out[c]) < Buffer
    BY <1>2 DEF Send, Types
  <2>2. Len(Append(out[c], held[c].frame)) <= Buffer
    BY <2>1 DEF ControlAssumption
  <2>3. out'[c] = Append(out[c], held[c].frame) /\ \A d \in Conn \ {c} : out'[d] = out[d]
    BY <1>2 DEF Send, Types
  <2> QED
    BY <2>2, <2>3 DEF Room
<1>3. ASSUME NEW c \in Conn, Write(c)
      PROVE  Room'
  <2>1. out[c] \in Seq(Frame) /\ out[c] # << >>
    BY <1>3 DEF Write, Types
  <2>2. Len(Tail(out[c])) <= Len(out[c])
    BY <2>1
  <2>3. out'[c] = Tail(out[c]) /\ \A d \in Conn \ {c} : out'[d] = out[d]
    BY <1>3 DEF Write, Types
  <2>4. Len(Tail(out[c])) \in Nat /\ Len(out[c]) \in Nat /\ Buffer \in Nat
    BY <2>1 DEF ControlAssumption
  <2>5. Len(out[c]) <= Buffer
    BY DEF Room
  <2>6. Len(out'[c]) <= Buffer
    BY <2>2, <2>3, <2>4, <2>5
  <2> QED
    BY <2>3, <2>6 DEF Room
<1>4. ASSUME NEW c \in Conn, Tell(c)
      PROVE  Room'
  <2>1. PICK frame \in Frame : Offer(c, frame)
    BY <1>4, TellOffers
  <2>2. /\ \A d \in Conn \ {c} : out'[d] = out[d]
        /\ out'[c] = out[c] \/ (Len(out[c]) < Buffer /\ out'[c] = Append(out[c], frame))
    BY <2>1, OfferTyped
  <2>3. out[c] \in Seq(Frame) /\ Buffer \in Nat
    BY DEF Types, ControlAssumption
  <2>4. Len(out[c]) < Buffer => Len(Append(out[c], frame)) <= Buffer
    BY <2>3
  <2> QED
    BY <2>2, <2>4 DEF Room
<1>5. CASE UNCHANGED vars
  BY <1>1, <1>5 DEF vars, connVars
<1>6. ASSUME NEW c \in Conn, Client(c) \/ Reader(c) \/ Writer(c)
      PROVE  Room'
  <2>1. Call(c) \/ Disagree(c) \/ HangUp(c) \/ (\E topics \in Interest[c] : Subscribe(c, topics)) => UNCHANGED out
    BY DEF Call, Disagree, HangUp, Subscribe
  <2>2. Register(c) \/ TakeReply(c) \/ GiveUp(c) \/ DecodeFails(c) \/ Leave(c) \/ Finish(c) => UNCHANGED out
    BY DEF Register, TakeReply, GiveUp, DecodeFails, Leave, Finish
  <2> QED
    BY <1>1, <1>2, <1>3, <1>6, <2>1, <2>2 DEF Client, Reader, Writer
<1>7. CASE Serving
  <2>1. UNCHANGED out
    BY <1>7 DEF Serving, Pump, Perform, Cancel, Close, Refuse, connVars
  <2> QED
    BY <1>1, <2>1
<1>8. CASE Publish
  <2>1. (\E topic \in Topic : Notify(topic)) \/ (\E c \in Conn : Coalesce(c)) => UNCHANGED out
    BY DEF Notify, Coalesce, connVars
  <2> QED
    BY <1>1, <1>4, <1>8, <2>1 DEF Publish
<1> QED
  BY <1>5, <1>6, <1>7, <1>8 DEF Next, Serving

LEMMA CoalescedNext ==
  ASSUME ControlAssumption, Types, Coalesced, [Next]_vars
  PROVE  Coalesced'
<1>1. dropped \in [Conn -> Nat] /\ notes \in Nat /\ note \in [topic : Topic, to : SUBSET Conn]
  BY DEF Types, ControlAssumption
<1>2. CASE UNCHANGED <<dropped, note, notes>>
  BY <1>2 DEF Coalesced
<1>3. ASSUME NEW topic \in Topic, Notify(topic)
      PROVE  Coalesced'
  <2>1. notes' = notes + 1 /\ dropped' = dropped /\ note.to = {}
    BY <1>3 DEF Notify
  <2>2. \A c \in Conn : dropped[c] <= notes
    BY <1>1, <2>1 DEF Coalesced
  <2> QED
    BY <1>1, <2>1, <2>2 DEF Coalesced
<1>4. ASSUME NEW c \in Conn, Tell(c)
      PROVE  Coalesced'
  <2>1. notes' = notes /\ c \in note.to /\ note'.to = note.to \ {c}
    BY <1>1, <1>4 DEF Tell
  <2>2. \A d \in Conn : dropped'[d] = dropped[d] \/ dropped'[d] = 0
    BY <1>1, <1>4 DEF Tell
  <2> QED
    BY <1>1, <2>1, <2>2 DEF Coalesced
<1>5. ASSUME NEW c \in Conn, Coalesce(c)
      PROVE  Coalesced'
  <2>1. notes' = notes /\ c \in note.to /\ note'.to = note.to \ {c}
    BY <1>1, <1>5 DEF Coalesce
  <2>2. dropped'[c] = dropped[c] + 1 /\ \A d \in Conn \ {c} : dropped'[d] = dropped[d]
    BY <1>1, <1>5 DEF Coalesce
  <2> QED
    BY <1>1, <2>1, <2>2 DEF Coalesced
<1>6. CASE UNCHANGED vars
  BY <1>2, <1>6 DEF vars, subVars
<1>7. ASSUME NEW c \in Conn, Client(c) \/ Reader(c) \/ Writer(c)
      PROVE  Coalesced'
  <2>1. Client(c) => UNCHANGED <<dropped, note, notes>>
    BY DEF Client, Call, Disagree, HangUp, Subscribe, subVars
  <2>2. Reader(c) => UNCHANGED <<dropped, note, notes>>
    BY DEF Reader, Register, TakeReply, Send, GiveUp, DecodeFails, Leave, subVars
  <2>3. Writer(c) => UNCHANGED <<dropped, note, notes>>
    BY DEF Writer, Write, Finish, subVars
  <2> QED
    BY <1>2, <1>7, <2>1, <2>2, <2>3
<1>8. CASE Serving
  <2>1. UNCHANGED <<dropped, note, notes>>
    BY <1>8 DEF Serving, Pump, Perform, Cancel, Close, Refuse, subVars
  <2> QED
    BY <1>2, <2>1
<1>9. CASE Publish
  BY <1>3, <1>4, <1>5, <1>9 DEF Publish
<1> QED
  BY <1>6, <1>7, <1>8, <1>9 DEF Next, Serving

LEMMA TypesNext ==
  ASSUME ControlAssumption, Types, Room, Coalesced, [Next]_vars
  PROVE  Types' /\ Room' /\ Coalesced'
<1>1. UNCHANGED vars => Types'
  BY DEF vars, connVars, serverVars, subVars, Types
<1>2. Types'
  BY <1>1, ClientTyped, ReaderTyped, WriterTyped, ServingTyped, PublishTyped DEF Next, Serving
<1> QED
  BY <1>2, RoomNext, CoalescedNext

-----------------------------------------------------------------------------
(* One answer.                                                              *)

LEMMA CountedOnce ==
  ASSUME NEW s \in Seq(Conn), NEW c \in Conn
  PROVE  /\ Times(c, s) \in Nat
         /\ Times(c, << >>) = 0
         /\ \A d \in Conn : Times(c, Append(s, d)) = Times(c, s) + (IF d = c THEN 1 ELSE 0)
         /\ s # << >> => Times(c, s) = Times(c, Tail(s)) + (IF Head(s) = c THEN 1 ELSE 0)
<1>1. Times(c, s) \in Nat
  BY CountIsNat, TimesIsCount
<1>2. ASSUME NEW d \in Conn
      PROVE  Times(c, Append(s, d)) = Times(c, s) + (IF d = c THEN 1 ELSE 0)
  <2>1. Count(Append(s, d), {c}) = Count(s, {c}) + (IF d \in {c} THEN 1 ELSE 0)
    BY CountAppend
  <2>2. d \in {c} <=> d = c
    OBVIOUS
  <2> QED
    BY <2>1, <2>2, TimesIsCount
<1>3. s # << >> => Times(c, s) = Times(c, Tail(s)) + (IF Head(s) = c THEN 1 ELSE 0)
  BY CountTail, TimesIsCount
<1>4. Times(c, << >>) = 0
  BY CountEmpty, TimesIsCount
<1> QED
  BY <1>1, <1>2, <1>3, <1>4

LEMMA AnswersAreNat ==
  ASSUME Types, NEW c \in Conn
  PROVE  /\ Times(c, queue) \in Nat /\ Times(c, batch) \in Nat /\ Times(c, refused) \in Nat
         /\ Len(reply[c]) \in Nat
<1>1. {queue, batch, refused} \subseteq Seq(Conn) /\ reply[c] \in Seq(Answer)
  BY DEF Types
<1> QED
  BY <1>1, CountedOnce

LEMMA AnswerKept ==
  ASSUME OneAnswerComing, UNCHANGED <<queue, batch, refused, reply>>,
         \A c \in Conn : pc'[c] = "waiting" <=> pc[c] = "waiting"
  PROVE  OneAnswerComing'
BY DEF OneAnswerComing, Times

LEMMA AnswerClient ==
  ASSUME ControlAssumption, Types, OneAnswerComing, NEW c \in Conn, Client(c)
  PROVE  OneAnswerComing'
<1>1. ASSUME NEW frame, NEW then, Asks(c), Hold(c, frame, then)
      PROVE  \A d \in Conn : pc'[d] = "waiting" <=> pc[d] = "waiting"
  <2>1. pc' = [pc EXCEPT ![c] = "sending"] /\ pc[c] = "decoding"
    BY <1>1 DEF Asks, Hold, Goto
  <2> QED
    BY <2>1 DEF Types
<1>2. CASE Call(c) /\ closed
  BY <1>1, <1>2, AnswerKept DEF Call
<1>3. CASE Call(c) /\ ~closed
  <2>1. /\ queue' = Append(queue, c) /\ reply' = [reply EXCEPT ![c] = << >>]
        /\ pc' = [pc EXCEPT ![c] = "waiting"] /\ pc[c] = "decoding"
        /\ batch' = batch /\ refused' = refused
    BY <1>3 DEF Call, Goto, Asks
  <2>2. \A d \in Conn : Times(d, queue') = Times(d, queue) + (IF c = d THEN 1 ELSE 0)
    BY <2>1, CountedOnce DEF Types
  <2>3. /\ pc'[c] = "waiting" /\ \A d \in Conn \ {c} : pc'[d] = pc[d]
        /\ reply'[c] = << >> /\ \A d \in Conn \ {c} : reply'[d] = reply[d]
    BY <2>1 DEF Types
  <2>4. ASSUME NEW d \in Conn
        PROVE  Times(d, queue') + Times(d, batch') + Times(d, refused') + Len(reply'[d])
                 = IF pc'[d] = "waiting" THEN 1 ELSE 0
    <3>1. Times(d, queue) + Times(d, batch) + Times(d, refused) + Len(reply[d])
            = IF pc[d] = "waiting" THEN 1 ELSE 0
      BY DEF OneAnswerComing
    <3>2. /\ Times(d, queue) \in Nat /\ Times(d, batch) \in Nat /\ Times(d, refused) \in Nat
          /\ Len(reply[d]) \in Nat
      BY AnswersAreNat
    <3>3. batch' = batch /\ refused' = refused
      BY <2>1
    <3>4. CASE d = c
      <4>1. Len(reply[d]) = 0
        <5>1. pc[d] # "waiting"
          BY <2>1, <3>4
        <5> QED
          BY <3>1, <3>2, <5>1
      <4>2. Times(d, queue') = Times(d, queue) + 1
        BY <2>2, <3>4
      <4>3. Len(reply'[d]) = 0
        BY <2>3, <3>4
      <4>4. pc[d] # "waiting" /\ pc'[d] = "waiting"
        BY <2>1, <2>3, <3>4
      <4> QED
        BY <3>1, <3>2, <3>3, <4>1, <4>2, <4>3, <4>4
    <3>5. CASE d # c
      <4>1. Times(d, queue') = Times(d, queue)
        BY <2>2, <3>2, <3>5
      <4>2. Len(reply'[d]) = Len(reply[d]) /\ pc'[d] = pc[d]
        BY <2>3, <3>5
      <4> QED
        BY <3>1, <3>3, <4>1, <4>2
    <3> QED
      BY <3>4, <3>5
  <2> QED
    BY <2>4 DEF OneAnswerComing, Times
<1>4. CASE Disagree(c)
  BY <1>1, <1>4, AnswerKept DEF Disagree, serverVars
<1>5. CASE HangUp(c)
  BY <1>5, AnswerKept DEF HangUp, serverVars
<1>6. CASE \E topics \in Interest[c] : Subscribe(c, topics)
  BY <1>1, <1>6, AnswerKept DEF Subscribe, serverVars
<1> QED
  BY <1>2, <1>3, <1>4, <1>5, <1>6 DEF Client

LEMMA AnswerReader ==
  ASSUME Types, OneAnswerComing, NEW c \in Conn, Reader(c)
  PROVE  OneAnswerComing'
<1>1. ASSUME NEW label \in {"decoding", "subscribing", "leaving", "left"}, pc[c] # "waiting",
             Goto(c, label), UNCHANGED <<queue, batch, refused, reply>>
      PROVE  OneAnswerComing'
  <2>1. \A d \in Conn : pc'[d] = "waiting" <=> pc[d] = "waiting"
    BY <1>1 DEF Goto, Types
  <2> QED
    BY <1>1, <2>1, AnswerKept
<1>2. CASE Register(c)
  BY <1>1, <1>2 DEF Register, serverVars
<1>3. CASE TakeReply(c)
  <2>1. /\ reply' = [reply EXCEPT ![c] = Tail(@)] /\ reply[c] # << >>
        /\ pc' = [pc EXCEPT ![c] = "sending"] /\ pc[c] = "waiting"
        /\ UNCHANGED <<queue, batch, refused>>
    BY <1>3 DEF TakeReply, Hold, Goto, serverVars
  <2>2. /\ pc'[c] = "sending" /\ \A d \in Conn \ {c} : pc'[d] = pc[d]
        /\ reply'[c] = Tail(reply[c]) /\ \A d \in Conn \ {c} : reply'[d] = reply[d]
    BY <2>1 DEF Types
  <2>3. Len(Tail(reply[c])) = Len(reply[c]) - 1
    <3>1. reply[c] \in Seq(Answer)
      BY DEF Types
    <3> QED
      BY <2>1, <3>1
  <2>4. ASSUME NEW d \in Conn
        PROVE  Times(d, queue') + Times(d, batch') + Times(d, refused') + Len(reply'[d])
                 = IF pc'[d] = "waiting" THEN 1 ELSE 0
    <3>1. Times(d, queue) + Times(d, batch) + Times(d, refused) + Len(reply[d])
            = IF pc[d] = "waiting" THEN 1 ELSE 0
      BY DEF OneAnswerComing
    <3>2. /\ Times(d, queue) \in Nat /\ Times(d, batch) \in Nat /\ Times(d, refused) \in Nat
          /\ Len(reply[d]) \in Nat
      BY AnswersAreNat
    <3>3. CASE d = c
      <4>1. Len(reply'[d]) = Len(reply[d]) - 1 /\ pc[d] = "waiting" /\ pc'[d] # "waiting"
        BY <2>1, <2>2, <2>3, <3>3
      <4>2. queue' = queue /\ batch' = batch /\ refused' = refused
        BY <2>1
      <4> QED
        BY <3>1, <3>2, <4>1, <4>2
    <3>4. CASE d # c
      BY <2>1, <2>2, <3>1, <3>4
    <3> QED
      BY <3>3, <3>4
  <2> QED
    BY <2>4 DEF OneAnswerComing, Times
<1>4. CASE Send(c)
  <2>1. held[c].then \in {"decoding", "subscribing", "leaving"}
    BY DEF Types
  <2> QED
    BY <1>1, <1>4, <2>1 DEF Send, serverVars
<1>5. CASE GiveUp(c)
  BY <1>1, <1>5 DEF GiveUp, serverVars
<1>6. CASE DecodeFails(c)
  BY <1>1, <1>6 DEF DecodeFails, serverVars
<1>7. CASE Leave(c)
  BY <1>1, <1>7 DEF Leave, serverVars
<1> QED
  BY <1>2, <1>3, <1>4, <1>5, <1>6, <1>7 DEF Reader

(* An answer is given to the first in a hand, who leaves it.                *)
LEMMA AnswerGiven ==
  ASSUME Types, NEW c \in Conn, NEW what \in Answer, Answers(c, what),
         NEW s \in Seq(Conn), s # << >>, c = Head(s), NEW d \in Conn
  PROVE  Times(d, Tail(s)) + Len(reply'[d]) = Times(d, s) + Len(reply[d])
<1>1. /\ reply[c] = << >> /\ reply'[c] = <<what>>
      /\ \A e \in Conn \ {c} : reply'[e] = reply[e]
  BY AnswersTyped
<1>2. Times(d, s) = Times(d, Tail(s)) + (IF c = d THEN 1 ELSE 0)
  BY CountedOnce
<1>3. Times(d, s) \in Nat /\ Times(d, Tail(s)) \in Nat
  <2>1. Tail(s) \in Seq(Conn)
    OBVIOUS
  <2> QED
    BY <2>1, CountedOnce
<1>4. Len(reply[c]) = 0 /\ Len(reply'[c]) = 1
  BY <1>1
<1>5. CASE d = c
  <2>1. Len(reply[d]) = 0 /\ Len(reply'[d]) = 1 /\ Times(d, s) = Times(d, Tail(s)) + 1
    BY <1>2, <1>4, <1>5
  <2> QED
    BY <1>3, <2>1
<1>6. CASE d # c
  <2>1. Len(reply'[d]) = Len(reply[d]) /\ Times(d, Tail(s)) = Times(d, s)
    BY <1>1, <1>2, <1>3, <1>6
  <2> QED
    BY <2>1
<1> QED
  BY <1>5, <1>6

LEMMA AnswerServing ==
  ASSUME Types, NoneRefused, OneAnswerComing, Serving
  PROVE  OneAnswerComing'
<1>1. pc' = pc
  BY DEF Serving, Pump, Perform, Cancel, Close, Refuse, connVars
<1>2. {queue, batch, refused} \subseteq Seq(Conn)
  BY DEF Types
<1>3. ASSUME NEW d \in Conn
      PROVE  Times(d, queue') + Times(d, batch') + Times(d, refused') + Len(reply'[d])
               = Times(d, queue) + Times(d, batch) + Times(d, refused) + Len(reply[d])
  <2>0. /\ Times(d, queue) \in Nat /\ Times(d, batch) \in Nat /\ Times(d, refused) \in Nat
        /\ Len(reply[d]) \in Nat
    BY AnswersAreNat
  <2>1. CASE Pump
    <3>1. batch = << >> /\ batch' = queue /\ queue' = << >> /\ refused' = refused /\ reply' = reply
      BY <2>1 DEF Pump, connVars
    <3>2. Times(d, << >>) = 0
      BY <1>2, CountedOnce
    <3> QED
      BY <2>0, <3>1, <3>2
  <2>2. CASE Perform
    <3>1. /\ batch # << >> /\ Answers(Head(batch), IF over THEN "error" ELSE "result")
          /\ batch' = Tail(batch) /\ queue' = queue /\ refused' = refused
      BY <2>2 DEF Perform
    <3>2. (IF over THEN "error" ELSE "result") \in Answer /\ Head(batch) \in Conn
      BY <1>2, <3>1 DEF Answer
    <3>3. Times(d, Tail(batch)) + Len(reply'[d]) = Times(d, batch) + Len(reply[d])
      BY <1>2, <3>1, <3>2, AnswerGiven
    <3>4. Times(d, Tail(batch)) \in Nat
      <4>1. Tail(batch) \in Seq(Conn)
        BY <1>2, <3>1
      <4> QED
        BY <4>1, CountedOnce
    <3>5. Len(reply'[d]) \in Nat
      <4>1. reply' \in [Conn -> Seq(Answer)]
        BY <3>1, <3>2, AnswersTyped
      <4>2. reply'[d] \in Seq(Answer)
        BY <4>1
      <4> QED
        BY <4>2
    <3>6. Times(d, batch') + Len(reply'[d]) = Times(d, batch) + Len(reply[d])
      BY <3>1, <3>3
    <3>7. Times(d, batch') \in Nat /\ Times(d, queue') = Times(d, queue) /\ Times(d, refused') = Times(d, refused)
      BY <3>1, <3>4
    <3> DEFINE given == Times(d, batch')
               told == Len(reply'[d])
    <3>8. given \in Nat /\ told \in Nat /\ given + told = Times(d, batch) + Len(reply[d])
      BY <3>5, <3>6, <3>7
    <3>9. Times(d, queue') = Times(d, queue) /\ Times(d, refused') = Times(d, refused)
      BY <3>7
    <3> HIDE DEF given, told
    <3>10. Times(d, queue) + given + Times(d, refused) + told
             = Times(d, queue) + Times(d, batch) + Times(d, refused) + Len(reply[d])
      BY <2>0, <3>8, SMTT(60)
    <3> QED
      BY <3>9, <3>10 DEF given, told
  <2>3. CASE Cancel
    BY <2>3 DEF Cancel, connVars
  <2>4. CASE Close
    <3>1. queue' = << >> /\ refused' = queue /\ batch' = batch /\ reply' = reply
      BY <2>4 DEF Close, connVars
    <3>2. refused = << >>
      BY <2>4 DEF Close, NoneRefused
    <3>3. Times(d, << >>) = 0
      BY <1>2, CountedOnce
    <3> QED
      BY <2>0, <3>1, <3>2, <3>3
  <2>5. CASE Refuse
    <3>1. /\ refused # << >> /\ Answers(Head(refused), "closing")
          /\ refused' = Tail(refused) /\ queue' = queue /\ batch' = batch
      BY <2>5 DEF Refuse
    <3>2. "closing" \in Answer /\ Head(refused) \in Conn
      BY <1>2, <3>1 DEF Answer
    <3>3. Times(d, Tail(refused)) + Len(reply'[d]) = Times(d, refused) + Len(reply[d])
      BY <1>2, <3>1, <3>2, AnswerGiven
    <3>4. Times(d, Tail(refused)) \in Nat
      <4>1. Tail(refused) \in Seq(Conn)
        BY <1>2, <3>1
      <4> QED
        BY <4>1, CountedOnce
    <3>5. Len(reply'[d]) \in Nat
      <4>1. reply' \in [Conn -> Seq(Answer)]
        BY <3>1, <3>2, AnswersTyped
      <4>2. reply'[d] \in Seq(Answer)
        BY <4>1
      <4> QED
        BY <4>2
    <3>6. Times(d, refused') + Len(reply'[d]) = Times(d, refused) + Len(reply[d])
      BY <3>1, <3>3
    <3>7. Times(d, refused') \in Nat /\ Times(d, queue') = Times(d, queue) /\ Times(d, batch') = Times(d, batch)
      BY <3>1, <3>4
    <3> DEFINE given == Times(d, refused')
               told == Len(reply'[d])
    <3>8. given \in Nat /\ told \in Nat /\ given + told = Times(d, refused) + Len(reply[d])
      BY <3>5, <3>6, <3>7
    <3>9. Times(d, queue') = Times(d, queue) /\ Times(d, batch') = Times(d, batch)
      BY <3>7
    <3> HIDE DEF given, told
    <3>10. Times(d, queue) + Times(d, batch) + given + told
             = Times(d, queue) + Times(d, batch) + Times(d, refused) + Len(reply[d])
      BY <2>0, <3>8, SMTT(60)
    <3> QED
      BY <3>9, <3>10 DEF given, told
  <2> QED
    BY <2>1, <2>2, <2>3, <2>4, <2>5 DEF Serving
<1> QED
  BY <1>1, <1>3 DEF OneAnswerComing, Times

-----------------------------------------------------------------------------
(* What a client is told.                                                   *)

(* Writing moves a frame from what is queued to what is written.            *)
LEMMA SaidIsKept ==
  ASSUME NEW w \in Seq(Frame), NEW o \in Seq(Frame), o # << >>
  PROVE  Append(w, Head(o)) \o Tail(o) = w \o o
OBVIOUS

LEMMA SaidGrows ==
  ASSUME NEW w \in Seq(Frame), NEW o \in Seq(Frame), NEW f \in Frame
  PROVE  w \o Append(o, f) = Append(w \o o, f)
OBVIOUS

LEMMA SaidTyped ==
  ASSUME Types, NEW c \in Conn
  PROVE  /\ Said(c) \in Seq(Frame) /\ Len(Said(c)) \in Nat /\ DOMAIN Said(c) = 1 .. Len(Said(c))
         /\ \A i \in DOMAIN Said(c) : Said(c)[i] \in Frame
         /\ wire[c] \in Seq(Frame) /\ out[c] \in Seq(Frame)
<1>1. wire[c] \in Seq(Frame) /\ out[c] \in Seq(Frame)
  BY DEF Types
<1>2. Said(c) \in Seq(Frame)
  BY <1>1 DEF Said
<1> QED
  BY <1>1, <1>2

LEMMA Appended ==
  ASSUME NEW s \in Seq(Frame), NEW f \in Frame, NEW t, t = Append(s, f)
  PROVE  /\ Len(s) \in Nat /\ DOMAIN s = 1 .. Len(s) /\ DOMAIN t = 1 .. Len(s) + 1
         /\ \A i \in DOMAIN s : t[i] = s[i]
         /\ t[Len(s) + 1] = f
OBVIOUS

LEMMA AckedKept ==
  ASSUME NEW s \in Seq(Frame), NEW f \in Frame, NEW topics, Acked(s, topics)
  PROVE  Acked(Append(s, f), topics)
<1>1. PICK j \in DOMAIN s : s[j].what = "ack" /\ topics \subseteq s[j].topics
  BY DEF Acked
<1>2. j \in DOMAIN Append(s, f) /\ Append(s, f)[j] = s[j]
  BY Appended
<1> QED
  BY <1>1, <1>2 DEF Acked

(* One more frame comes in its order if it is no news, or the client was    *)
(* told that this would come.                                               *)
LEMMA InOrderKept ==
  ASSUME NEW s \in Seq(Frame), NEW f \in Frame, InOrder(s), f.is = "note" => Acked(s, f.topics)
  PROVE  InOrder(Append(s, f))
<1> DEFINE t == Append(s, f)
<1>1. /\ Len(s) \in Nat /\ DOMAIN s = 1 .. Len(s) /\ DOMAIN t = 1 .. Len(s) + 1
      /\ \A i \in DOMAIN s : t[i] = s[i]
      /\ t[Len(s) + 1] = f
  BY Appended
<1> HIDE DEF t
<1>2. ASSUME NEW i \in DOMAIN t, t[i].is = "note"
      PROVE  \E j \in 1 .. i - 1 : t[j].what = "ack" /\ t[i].topics \subseteq t[j].topics
  <2>1. CASE i \in DOMAIN s
    <3>1. PICK j \in 1 .. i - 1 : s[j].what = "ack" /\ s[i].topics \subseteq s[j].topics
      <4>1. s[i].is = "note"
        BY <1>1, <1>2, <2>1
      <4> QED
        BY <2>1, <4>1 DEF InOrder
    <3>2. j \in DOMAIN s
      BY <1>1, <2>1
    <3> QED
      BY <1>1, <2>1, <3>1, <3>2
  <2>2. CASE i = Len(s) + 1
    <3>1. PICK j \in DOMAIN s : s[j].what = "ack" /\ f.topics \subseteq s[j].topics
      BY <1>1, <1>2, <2>2 DEF Acked
    <3>2. j \in 1 .. i - 1
      BY <1>1, <2>2
    <3> QED
      BY <1>1, <2>2, <3>1, <3>2
  <2> QED
    BY <1>1, <2>1, <2>2
<1> QED
  BY <1>2 DEF InOrder, t

(* What is said to c grows by at most a frame, and in its order.            *)
Grows(c, f) == Said(c)' = Append(Said(c), f)

LEMMA NewsKept ==
  ASSUME Types, NEW c \in Conn, NewsAfterAck(c), writer'[c] # "gone" => writer[c] # "gone",
         writer'[c] # "gone" =>
           \/ Said(c)' = Said(c)
           \/ \E f \in Frame : Grows(c, f) /\ (f.is = "note" => Acked(Said(c), f.topics))
  PROVE  NewsAfterAck(c)'
<1> SUFFICES ASSUME writer'[c] # "gone"
             PROVE  InOrder(Said(c)')
  BY DEF NewsAfterAck
<1>1. InOrder(Said(c)) /\ Said(c) \in Seq(Frame)
  BY SaidTyped DEF NewsAfterAck
<1>2. CASE \E f \in Frame : Grows(c, f) /\ (f.is = "note" => Acked(Said(c), f.topics))
  <2>1. PICK f \in Frame : Said(c)' = Append(Said(c), f) /\ (f.is = "note" => Acked(Said(c), f.topics))
    BY <1>2 DEF Grows
  <2>2. InOrder(Append(Said(c), f))
    BY <1>1, <2>1, InOrderKept
  <2> QED
    BY <2>1, <2>2
<1> QED
  BY <1>1, <1>2

LEMMA SubscribedKept ==
  ASSUME Types, NEW c \in Conn, writer'[c] # "gone" =>
           /\ writer[c] # "gone"
           /\ Said(c)' = Said(c) \/ \E f \in Frame : Grows(c, f)
           /\ pc'[c] = "sending" /\ held'[c].then = "subscribing" => held'[c].frame.what = "ack"
           /\ pc'[c] = "subscribing" => Acked(Said(c)', held'[c].frame.topics)
           /\ c \in DOMAIN subs' => Acked(Said(c), subs'[c])
           /\ c \in note'.to => Acked(Said(c), {note'.topic})
  PROVE  Subscribed(c)'
<1> SUFFICES ASSUME writer'[c] # "gone"
             PROVE  Subscribed(c)'
  BY DEF Subscribed
<1>1. \A topics : Acked(Said(c), topics) => Acked(Said(c)', topics)
  <2>1. Said(c) \in Seq(Frame)
    BY SaidTyped
  <2> QED
    BY <2>1, AckedKept DEF Grows
<1>2. c \in DOMAIN subs' => Acked(Said(c)', subs'[c])
  BY <1>1
<1>3. c \in note'.to => Acked(Said(c)', {note'.topic})
  BY <1>1
<1> QED
  BY <1>2, <1>3 DEF Subscribed

LEMMA RepliesGrow ==
  ASSUME NEW s \in Seq(Frame), NEW f \in Frame
  PROVE  Replies(s) \in Nat /\ Replies(Append(s, f)) = Replies(s) + (IF f.is = "reply" THEN 1 ELSE 0)
<1> DEFINE S == {g \in Frame : g.is = "reply"}
<1>1. Append(s, f) \in Seq(Frame)
  OBVIOUS
<1>2. Replies(s) = Count(s, S) /\ Replies(Append(s, f)) = Count(Append(s, f), S)
  BY <1>1, RepliesIsCount
<1>3. f \in S <=> f.is = "reply"
  OBVIOUS
<1> HIDE DEF S
<1>4. Count(s, S) \in Nat
  BY CountIsNat
<1>5. Count(Append(s, f), S) = Count(s, S) + (IF f \in S THEN 1 ELSE 0)
  BY CountAppend
<1> QED
  BY <1>2, <1>3, <1>4, <1>5

LEMMA RepliesOwed ==
  ASSUME Types, NEW c \in Conn, Replied(c), peer[c] = "there", writer[c] # "gone"
  PROVE  /\ Replies(Said(c)) \in Nat
         /\ pc[c] \in {"waiting", "sending"} => asked[c] = Replies(Said(c)) + 1
         /\ pc[c] \notin {"waiting", "sending"} => asked[c] = Replies(Said(c))
<1>1. Replies(Said(c)) = Count(Said(c), {f \in Frame : f.is = "reply"})
  BY SaidTyped, RepliesIsCount
<1>2. Replies(Said(c)) \in Nat
  BY <1>1, SaidTyped, CountIsNat
<1>3. Replies(Said(c)) + (IF pc[c] \in {"waiting", "sending"} THEN 1 ELSE 0) = asked[c]
  BY DEF Replied
<1>4. Replies(Said(c)) + 0 = Replies(Said(c))
  BY <1>2
<1>5. CASE pc[c] \in {"waiting", "sending"}
  BY <1>2, <1>3, <1>5
<1>6. CASE pc[c] \notin {"waiting", "sending"}
  BY <1>2, <1>3, <1>4, <1>6
<1> QED
  BY <1>2, <1>5, <1>6

-----------------------------------------------------------------------------
(* What a step does to the connection it is of, and to the others.          *)

Same(c) ==
  /\ peer'[c] = peer[c] /\ asked'[c] = asked[c] /\ pc'[c] = pc[c] /\ held'[c] = held[c]
  /\ out'[c] = out[c] /\ writer'[c] = writer[c] /\ wire'[c] = wire[c]

SameSubs(c) ==
  /\ c \in DOMAIN subs' => c \in DOMAIN subs /\ subs'[c] = subs[c]
  /\ c \in note'.to => c \in note.to /\ note'.topic = note.topic

LEMMA ConnKept ==
  ASSUME Types, NEW c \in Conn, ConnInv(c), Same(c), SameSubs(c)
  PROVE  ConnInv(c)'
<1>1. Said(c)' = Said(c)
  BY DEF Same, Said
<1>2. Subscribed(c)'
  BY <1>1, SubscribedKept DEF ConnInv, Subscribed, Same, SameSubs
<1>3. NewsAfterAck(c)'
  BY <1>1, NewsKept DEF ConnInv, Same
<1>4. Replied(c)'
  BY <1>1 DEF ConnInv, Replied, Same
<1> QED
  BY <1>2, <1>3, <1>4 DEF ConnInv

LEMMA OthersSame ==
  ASSUME Types, NEW c \in Conn, Client(c) \/ Reader(c) \/ Writer(c), NEW d \in Conn \ {c}
  PROVE  Same(d) /\ SameSubs(d)
<1>1. CASE Client(c)
  <2>1. SameSubs(d) /\ UNCHANGED <<out, writer, wire>>
    BY <1>1 DEF Client, Call, Disagree, HangUp, Subscribe, subVars, SameSubs
  <2>2. asked'[d] = asked[d] /\ peer'[d] = peer[d]
    BY <1>1 DEF Client, Call, Disagree, HangUp, Subscribe, Asks, Types
  <2>3. pc'[d] = pc[d] /\ held'[d] = held[d]
    BY <1>1 DEF Client, Call, Disagree, HangUp, Subscribe, Hold, Goto, Types
  <2> QED
    BY <2>1, <2>2, <2>3 DEF Same
<1>2. CASE Reader(c)
  <2>1. UNCHANGED <<peer, asked, writer, wire>>
    BY <1>2 DEF Reader, Register, TakeReply, Send, GiveUp, DecodeFails, Leave
  <2>2. pc'[d] = pc[d] /\ held'[d] = held[d]
    BY <1>2 DEF Reader, Register, TakeReply, Send, GiveUp, DecodeFails, Leave, Hold, Goto, Types
  <2>3. out'[d] = out[d]
    BY <1>2 DEF Reader, Register, TakeReply, Send, GiveUp, DecodeFails, Leave, Types
  <2>4. SameSubs(d)
    BY <1>2 DEF Reader, Register, Registers, TakeReply, Send, GiveUp, DecodeFails, Leave, SameSubs, subVars
  <2> QED
    BY <2>1, <2>2, <2>3, <2>4 DEF Same
<1>3. CASE Writer(c)
  <2>1. SameSubs(d) /\ UNCHANGED <<peer, asked, pc, held>>
    BY <1>3 DEF Writer, Write, Finish, SameSubs, subVars
  <2>2. out'[d] = out[d] /\ writer'[d] = writer[d] /\ wire'[d] = wire[d]
    BY <1>3 DEF Writer, Write, Finish, Types
  <2> QED
    BY <2>1, <2>2 DEF Same
<1> QED
  BY <1>1, <1>2, <1>3

(* A request that is answered at once.                                      *)
LEMMA ConnAsks ==
  ASSUME ControlAssumption, Types, NEW c \in Conn, ConnInv(c), Asks(c),
         NEW frame \in Frame, NEW then \in {"decoding", "subscribing", "leaving"},
         frame.is = "reply", then = "subscribing" => frame.what = "ack",
         Hold(c, frame, then), UNCHANGED <<peer, out, writer, wire, subVars>>
  PROVE  ConnInv(c)'
<1>1. /\ held'[c].frame = frame /\ held'[c].then = then /\ pc'[c] = "sending"
  BY HoldTyped
<1>2. /\ asked'[c] = asked[c] + 1 /\ pc[c] = "decoding" /\ peer[c] = "there"
      /\ asked[c] \in Nat
  BY AsksTyped DEF Types
<1>3. Said(c)' = Said(c)
  BY DEF Said
<1>4. Subscribed(c)'
  BY <1>1, <1>3, SubscribedKept DEF ConnInv, Subscribed, subVars
<1>5. NewsAfterAck(c)'
  BY <1>3, NewsKept DEF ConnInv
<1>6. Replied(c)'
  <2>1. writer[c] = "running"
    BY <1>2 DEF ConnInv, Replied, Types
  <2>2. asked[c] = Replies(Said(c))
    BY <1>2, <2>1, RepliesOwed DEF ConnInv
  <2>3. Replies(Said(c)) + 1 = asked'[c]
    BY <1>2, <2>2
  <2> QED
    BY <1>1, <1>3, <2>1, <2>3 DEF Replied
<1> QED
  BY <1>4, <1>5, <1>6 DEF ConnInv

LEMMA ConnClient ==
  ASSUME ControlAssumption, Types, NEW c \in Conn, ConnInv(c), Client(c)
  PROVE  ConnInv(c)'
<1>1. CASE Call(c) /\ closed
  <2>1. Asks(c) /\ Hold(c, Reply(asked'[c], "closing"), "leaving") /\ UNCHANGED <<peer, out, writer, wire, subVars>>
    BY <1>1 DEF Call
  <2>2. asked'[c] \in Nat
    BY <2>1, AsksTyped
  <2>3. Reply(asked'[c], "closing") \in Frame /\ Reply(asked'[c], "closing").is = "reply"
    BY <2>2, FramesAreTyped DEF What, Reply
  <2> QED
    BY <2>1, <2>3, ConnAsks
<1>2. CASE Call(c) /\ ~closed
  <2>1. Asks(c) /\ Goto(c, "waiting") /\ UNCHANGED <<peer, out, writer, wire, held, subVars>>
    BY <1>2 DEF Call
  <2>2. /\ asked'[c] = asked[c] + 1 /\ pc[c] = "decoding" /\ peer[c] = "there"
        /\ asked[c] \in Nat /\ pc'[c] = "waiting"
    BY <2>1, AsksTyped DEF Types, Goto
  <2>3. Said(c)' = Said(c)
    BY <2>1 DEF Said
  <2>4. Subscribed(c)'
    BY <2>1, <2>2, <2>3, SubscribedKept DEF ConnInv, Subscribed, subVars
  <2>5. NewsAfterAck(c)'
    BY <2>1, <2>3, NewsKept DEF ConnInv
  <2>6. Replied(c)'
    <3>1. writer[c] = "running"
      BY <2>2 DEF ConnInv, Replied, Types
    <3>2. asked[c] = Replies(Said(c))
      BY <2>2, <3>1, RepliesOwed DEF ConnInv
    <3>3. Replies(Said(c)) + 1 = asked'[c]
      BY <2>2, <3>2
    <3> QED
      BY <2>1, <2>2, <2>3, <3>1, <3>3 DEF Replied
  <2> QED
    BY <2>4, <2>5, <2>6 DEF ConnInv
<1>3. CASE Disagree(c)
  <2>1. Asks(c) /\ Hold(c, Reply(asked'[c], "refusal"), "leaving") /\ UNCHANGED <<peer, out, writer, wire, subVars>>
    BY <1>3 DEF Disagree
  <2>2. asked'[c] \in Nat
    BY <2>1, AsksTyped
  <2>3. Reply(asked'[c], "refusal") \in Frame /\ Reply(asked'[c], "refusal").is = "reply"
    BY <2>2, FramesAreTyped DEF What, Reply
  <2> QED
    BY <2>1, <2>3, ConnAsks
<1>4. CASE HangUp(c)
  <2>1. /\ UNCHANGED <<pc, held, out, writer, wire, subVars>>
        /\ peer'[c] = "gone"
    BY <1>4 DEF HangUp, Types
  <2>2. Said(c)' = Said(c)
    BY <2>1 DEF Said
  <2>3. Subscribed(c)'
    BY <2>1, <2>2, SubscribedKept DEF ConnInv, Subscribed, subVars
  <2>4. NewsAfterAck(c)'
    BY <2>1, <2>2, NewsKept DEF ConnInv
  <2>5. Replied(c)'
    BY <2>1 DEF ConnInv, Replied
  <2> QED
    BY <2>3, <2>4, <2>5 DEF ConnInv
<1>5. ASSUME NEW topics \in Interest[c], Subscribe(c, topics)
      PROVE  ConnInv(c)'
  <2>1. Asks(c) /\ Hold(c, Ack(asked'[c], topics), "subscribing") /\ UNCHANGED <<peer, out, writer, wire, subVars>>
    BY <1>5 DEF Subscribe
  <2>2. asked'[c] \in Nat /\ topics \in SUBSET Topic
    BY <2>1, AsksTyped DEF ControlAssumption
  <2>3. Ack(asked'[c], topics) \in Frame
    BY <2>2, FramesAreTyped
  <2>4. Ack(asked'[c], topics).is = "reply" /\ Ack(asked'[c], topics).what = "ack"
    BY DEF Ack, Reply
  <2> QED
    BY <2>1, <2>3, <2>4, ConnAsks
<1> QED
  BY <1>1, <1>2, <1>3, <1>4, <1>5 DEF Client

(* The reader moves, and nothing is said.                                   *)
LEMMA ConnMoves ==
  ASSUME Types, NEW c \in Conn, ConnInv(c), UNCHANGED <<peer, asked, out, writer, wire, note>>,
         pc'[c] \notin {"waiting", "sending", "subscribing"},
         pc[c] \notin {"waiting", "sending"} \/ peer[c] = "gone",
         pc[c] = "left" => pc'[c] = "left",
         writer[c] # "gone" /\ c \in DOMAIN subs' => Acked(Said(c), subs'[c])
  PROVE  ConnInv(c)'
<1>1. Said(c)' = Said(c)
  BY DEF Said
<1>2. Subscribed(c)'
  BY <1>1, SubscribedKept DEF ConnInv, Subscribed
<1>3. NewsAfterAck(c)'
  BY <1>1, NewsKept DEF ConnInv
<1>4. Replied(c)'
  <2>1. /\ peer'[c] = peer[c] /\ writer'[c] = writer[c] /\ wire'[c] = wire[c] /\ asked'[c] = asked[c]
    OBVIOUS
  <2>2. writer'[c] # "running" => pc'[c] = "left" \/ peer'[c] = "gone"
    BY <2>1 DEF ConnInv, Replied
  <2>3. peer'[c] = "there" /\ writer'[c] # "gone" =>
          Replies(Said(c)') + (IF pc'[c] \in {"waiting", "sending"} THEN 1 ELSE 0) = asked'[c]
    <3>1. SUFFICES ASSUME peer[c] = "there", writer[c] # "gone"
                   PROVE  Replies(Said(c)) + 0 = asked[c]
      BY <1>1, <2>1
    <3>2. Replies(Said(c)) \in Nat /\ asked[c] = Replies(Said(c))
      BY <3>1, RepliesOwed DEF ConnInv, Types
    <3> QED
      BY <3>2
  <2>4. peer'[c] = "there" /\ writer'[c] = "gone" => Replies(wire'[c]) = asked'[c]
    BY <2>1 DEF ConnInv, Replied
  <2> QED
    BY <2>2, <2>3, <2>4 DEF Replied
<1> QED
  BY <1>2, <1>3, <1>4 DEF ConnInv

LEMMA ConnReader ==
  ASSUME ControlAssumption, Types, NEW c \in Conn, ConnInv(c), Reader(c)
  PROVE  ConnInv(c)'
<1>1. CASE Register(c)
  <2>1. /\ UNCHANGED <<peer, asked, out, writer, wire, note>>
        /\ pc[c] = "subscribing" /\ pc'[c] = "decoding"
    BY <1>1 DEF Register, Goto, Types
  <2>2. c \in DOMAIN subs' /\ subs'[c] = held[c].frame.topics
    BY <1>1 DEF Register, Registers
  <2>3. writer[c] # "gone" => Acked(Said(c), subs'[c])
    BY <2>1, <2>2 DEF ConnInv, Subscribed
  <2> QED
    BY <2>1, <2>3, ConnMoves
<1>2. CASE TakeReply(c)
  <2>1. /\ UNCHANGED <<peer, asked, out, writer, wire, subVars>>
        /\ pc[c] = "waiting" /\ Hold(c, Reply(asked[c], Head(reply[c])), "decoding")
    BY <1>2 DEF TakeReply
  <2>2. Reply(asked[c], Head(reply[c])) \in Frame /\ Reply(asked[c], Head(reply[c])).is = "reply"
    <3>1. reply[c] \in Seq(Answer) /\ reply[c] # << >> /\ asked[c] \in Nat
      BY <1>2 DEF TakeReply, Types
    <3>2. Head(reply[c]) \in Answer
      BY <3>1
    <3>3. Head(reply[c]) \in What
      BY <3>2 DEF Answer, What
    <3> QED
      BY <3>1, <3>3, FramesAreTyped DEF Reply
  <2>3. /\ pc'[c] = "sending" /\ held'[c].then = "decoding"
        /\ held'[c].frame = Reply(asked[c], Head(reply[c]))
    BY <2>1, <2>2, HoldTyped
  <2>4. Said(c)' = Said(c)
    BY <2>1 DEF Said
  <2>5. Subscribed(c)'
    BY <2>1, <2>3, <2>4, SubscribedKept DEF ConnInv, Subscribed, subVars
  <2>6. NewsAfterAck(c)'
    BY <2>1, <2>4, NewsKept DEF ConnInv
  <2>7. Replied(c)'
    BY <2>1, <2>2, <2>3, <2>4 DEF ConnInv, Replied
  <2> QED
    BY <2>5, <2>6, <2>7 DEF ConnInv
<1>3. CASE Send(c)
  <2>1. /\ UNCHANGED <<peer, asked, held, writer, wire, subs, note>>
        /\ pc[c] = "sending" /\ pc'[c] = held[c].then
        /\ out'[c] = Append(out[c], held[c].frame)
    BY <1>3 DEF Send, Goto, Types, subVars
  <2>2. /\ held[c].frame \in Frame /\ held[c].then \in {"decoding", "subscribing", "leaving"}
        /\ held[c].frame.is = "reply"
    BY <2>1 DEF Types, ConnInv, Replied
  <2>3. Said(c)' = Append(Said(c), held[c].frame)
    <3>1. wire[c] \in Seq(Frame) /\ out[c] \in Seq(Frame)
      BY SaidTyped
    <3>2. Said(c)' = wire[c] \o Append(out[c], held[c].frame)
      BY <2>1 DEF Said
    <3>3. wire[c] \o Append(out[c], held[c].frame) = Append(wire[c] \o out[c], held[c].frame)
      BY <2>2, <3>1, SaidGrows
    <3> QED
      BY <3>2, <3>3 DEF Said
  <2>4. Grows(c, held[c].frame) /\ Said(c) \in Seq(Frame)
    BY <2>3, SaidTyped DEF Grows
  <2>5. writer[c] # "gone" /\ pc'[c] = "subscribing" => Acked(Said(c)', held'[c].frame.topics)
    <3>1. SUFFICES ASSUME writer[c] # "gone", pc'[c] = "subscribing"
                   PROVE  Acked(Said(c)', held[c].frame.topics)
      BY <2>1
    <3>2. held[c].frame.what = "ack"
      BY <2>1, <3>1 DEF ConnInv, Subscribed
    <3>3. /\ Len(Said(c)) + 1 \in DOMAIN Said(c)'
          /\ Said(c)'[Len(Said(c)) + 1] = held[c].frame
      BY <2>2, <2>3, <2>4, Appended
    <3> QED
      BY <3>2, <3>3 DEF Acked
  <2>6. Subscribed(c)'
    BY <2>1, <2>2, <2>4, <2>5, SubscribedKept DEF ConnInv, Subscribed
  <2>7. NewsAfterAck(c)'
    <3>1. held[c].frame.is # "note"
      BY <2>2
    <3> QED
      BY <2>1, <2>2, <2>4, <3>1, NewsKept DEF ConnInv
  <2>8. Replied(c)'
    <3>1. peer'[c] = peer[c] /\ writer'[c] = writer[c] /\ wire'[c] = wire[c] /\ asked'[c] = asked[c]
      BY <2>1
    <3>2. pc'[c] \notin {"waiting", "sending"}
      BY <2>1, <2>2
    <3>3. writer[c] # "running" => peer[c] = "gone"
      BY <2>1 DEF ConnInv, Replied
    <3>4. peer[c] = "there" => Replies(Said(c)') + 0 = asked[c]
      <4>1. SUFFICES ASSUME peer[c] = "there"
                     PROVE  Replies(Said(c)') + 0 = asked[c]
        OBVIOUS
      <4>2. Replies(Said(c)) \in Nat /\ asked[c] = Replies(Said(c)) + 1
        BY <2>1, <3>3, <4>1, RepliesOwed DEF ConnInv, Types
      <4>3. Replies(Said(c)') = Replies(Said(c)) + 1
        BY <2>2, <2>3, <2>4, RepliesGrow
      <4> QED
        BY <4>2, <4>3
    <3> QED
      BY <3>1, <3>2, <3>3, <3>4 DEF Replied, Types
  <2> QED
    BY <2>6, <2>7, <2>8 DEF ConnInv
<1>4. CASE GiveUp(c)
  <2>1. /\ UNCHANGED <<peer, asked, out, writer, wire, note, subs>>
        /\ pc[c] = "sending" /\ pc'[c] = "leaving" /\ writer[c] = "gone"
    BY <1>4 DEF GiveUp, Goto, Types, subVars
  <2>2. peer[c] = "gone"
    BY <2>1 DEF ConnInv, Replied
  <2> QED
    BY <2>1, <2>2, ConnMoves
<1>5. CASE DecodeFails(c)
  <2>1. /\ UNCHANGED <<peer, asked, out, writer, wire, note, subs>>
        /\ pc[c] = "decoding" /\ pc'[c] = "leaving"
    BY <1>5 DEF DecodeFails, Goto, Types, subVars
  <2> QED
    BY <2>1, ConnMoves DEF ConnInv, Subscribed
<1>6. CASE Leave(c)
  <2>1. /\ UNCHANGED <<peer, asked, out, writer, wire, note>>
        /\ pc[c] = "leaving" /\ pc'[c] = "left" /\ c \notin DOMAIN subs'
    BY <1>6 DEF Leave, Goto, Types
  <2> QED
    BY <2>1, ConnMoves
<1> QED
  BY <1>1, <1>2, <1>3, <1>4, <1>5, <1>6 DEF Reader

LEMMA ConnWriter ==
  ASSUME Types, NEW c \in Conn, ConnInv(c), Writer(c)
  PROVE  ConnInv(c)'
<1>1. UNCHANGED <<peer, asked, pc, held, subs, note>>
  BY DEF Writer, Write, Finish, subVars
<1>2. CASE Write(c) /\ peer[c] = "there"
  <2>1. /\ writer' = writer /\ writer[c] # "gone" /\ out[c] # << >>
        /\ out'[c] = Tail(out[c]) /\ wire'[c] = Append(wire[c], Head(out[c]))
    BY <1>2 DEF Write, Types
  <2>2. Said(c)' = Said(c)
    BY <2>1, SaidTyped, SaidIsKept DEF Said
  <2>3. Subscribed(c)'
    BY <1>1, <2>1, <2>2, SubscribedKept DEF ConnInv, Subscribed
  <2>4. NewsAfterAck(c)'
    BY <2>1, <2>2, NewsKept DEF ConnInv
  <2>5. Replied(c)'
    BY <1>1, <2>1, <2>2 DEF ConnInv, Replied
  <2> QED
    BY <2>3, <2>4, <2>5 DEF ConnInv
<1>3. CASE Write(c) /\ peer[c] # "there"
  <2>1. writer'[c] = "gone" /\ peer'[c] = "gone"
    BY <1>1, <1>3 DEF Write, Types
  <2>2. Replied(c)'
    BY <1>1, <2>1 DEF ConnInv, Replied
  <2> QED
    BY <2>1, <2>2 DEF ConnInv, Subscribed, NewsAfterAck
<1>4. CASE Finish(c)
  <2>1. /\ pc[c] = "left" /\ out' = out /\ wire' = wire /\ writer[c] # "gone"
        /\ \/ writer'[c] = "draining"
           \/ writer'[c] = "gone" /\ out[c] = << >>
    BY <1>4 DEF Finish, Types
  <2>2. Said(c)' = Said(c)
    BY <2>1 DEF Said
  <2>3. Subscribed(c)'
    BY <1>1, <2>1, <2>2, SubscribedKept DEF ConnInv, Subscribed
  <2>4. NewsAfterAck(c)'
    BY <2>1, <2>2, NewsKept DEF ConnInv
  <2>5. Replied(c)'
    <3>1. out[c] = << >> => Said(c) = wire[c]
      BY SaidTyped DEF Said
    <3>2. peer[c] = "there" => Replies(Said(c)) \in Nat /\ asked[c] = Replies(Said(c))
      BY <2>1, RepliesOwed DEF ConnInv
    <3>3. peer[c] = "there" => Replies(Said(c)') + 0 = asked[c]
      BY <2>2, <3>2
    <3>4. peer'[c] = peer[c] /\ pc'[c] = "left" /\ wire'[c] = wire[c] /\ asked'[c] = asked[c]
      BY <1>1, <2>1
    <3> QED
      BY <2>1, <3>1, <3>2, <3>3, <3>4 DEF Replied
  <2> QED
    BY <2>3, <2>4, <2>5 DEF ConnInv
<1> QED
  BY <1>2, <1>3, <1>4 DEF Writer

LEMMA ConnPublish ==
  ASSUME ControlAssumption, Types, Coalesced, \A c \in Conn : ConnInv(c), Publish
  PROVE  \A c \in Conn : ConnInv(c)'
<1>1. UNCHANGED <<peer, asked, pc, held, writer, wire, subs>>
  BY DEF Publish, Notify, Tell, Coalesce, connVars
<1>2. ASSUME NEW topic \in Topic, Notify(topic), NEW c \in Conn
      PROVE  ConnInv(c)'
  <2>1. /\ out' = out
        /\ note'.topic = topic /\ note'.to = {d \in DOMAIN subs : topic \in subs[d]}
    BY <1>2 DEF Notify, connVars
  <2>2. Said(c)' = Said(c)
    BY <1>1, <2>1 DEF Said
  <2>3. writer[c] # "gone" /\ c \in note'.to => Acked(Said(c), {note'.topic})
    <3>1. SUFFICES ASSUME writer[c] # "gone", c \in note'.to
                   PROVE  Acked(Said(c), {topic})
      BY <2>1
    <3>2. c \in DOMAIN subs /\ topic \in subs[c]
      BY <2>1, <3>1
    <3>3. Acked(Said(c), subs[c])
      BY <3>1, <3>2 DEF ConnInv, Subscribed
    <3> QED
      BY <3>2, <3>3 DEF Acked
  <2>4. Subscribed(c)'
    BY <1>1, <2>2, <2>3, SubscribedKept DEF ConnInv, Subscribed
  <2>5. NewsAfterAck(c)'
    BY <1>1, <2>2, NewsKept DEF ConnInv
  <2>6. Replied(c)'
    BY <1>1, <2>1, <2>2 DEF ConnInv, Replied
  <2> QED
    BY <2>4, <2>5, <2>6 DEF ConnInv
<1>3. ASSUME NEW d \in Conn, Tell(d), NEW c \in Conn
      PROVE  ConnInv(c)'
  <2>1. PICK frame \in Frame :
          Offer(d, frame) /\ frame.is = "note" /\ frame.what = "event" /\ frame.topics = {note.topic}
    BY <1>3, TellOffers
  <2>2. /\ \A e \in Conn \ {d} : out'[e] = out[e]
        /\ out'[d] = out[d] \/ out'[d] = Append(out[d], frame)
    BY <2>1, OfferTyped
  <2>3. /\ d \in note.to /\ note'.topic = note.topic /\ note'.to = note.to \ {d}
    BY <1>3 DEF Tell, Types
  <2>4. CASE c # d
    <3>1. Same(c) /\ SameSubs(c)
      BY <1>1, <2>2, <2>3, <2>4 DEF Same, SameSubs
    <3> QED
      BY <3>1, ConnKept
  <2>5. CASE c = d
    <3>1. Said(c)' = Said(c) \/ Said(c)' = Append(Said(c), frame)
      <4>1. wire[c] \in Seq(Frame) /\ out[c] \in Seq(Frame) /\ wire' = wire
        BY <1>1, SaidTyped
      <4>2. wire[c] \o Append(out[c], frame) = Append(wire[c] \o out[c], frame)
        BY <4>1, SaidGrows
      <4>3. out'[c] = out[c] \/ out'[c] = Append(out[c], frame)
        BY <2>2, <2>5
      <4> QED
        BY <4>1, <4>2, <4>3 DEF Said
    <3>2. c \notin note'.to
      BY <2>3, <2>5
    <3>3. Subscribed(c)'
      <4>1. \A topics : Acked(Said(c), topics) => Acked(Said(c)', topics)
        <5>1. Said(c) \in Seq(Frame)
          BY SaidTyped
        <5>2. \A topics : Acked(Said(c), topics) => Acked(Append(Said(c), frame), topics)
          BY <5>1, AckedKept
        <5> QED
          BY <3>1, <5>2
      <4>2. writer[c] # "gone" /\ pc[c] = "subscribing" => Acked(Said(c)', held[c].frame.topics)
        BY <4>1 DEF ConnInv, Subscribed
      <4>3. Said(c)' = Said(c) \/ \E f \in Frame : Grows(c, f)
        BY <3>1 DEF Grows
      <4> QED
        BY <1>1, <3>2, <4>2, <4>3, SubscribedKept DEF ConnInv, Subscribed
    <3>4. NewsAfterAck(c)'
      <4>1. writer[c] # "gone" => Acked(Said(c), frame.topics)
        BY <2>1, <2>3, <2>5 DEF ConnInv, Subscribed
      <4> QED
        <5>1. writer'[c] # "gone" => writer[c] # "gone" /\ NewsAfterAck(c)
          BY <1>1 DEF ConnInv
        <5>2. writer'[c] # "gone" =>
                \/ Said(c)' = Said(c)
                \/ Grows(c, frame) /\ (frame.is = "note" => Acked(Said(c), frame.topics))
          BY <3>1, <4>1, <5>1 DEF Grows
        <5>3. NewsAfterAck(c)
          BY DEF ConnInv
        <5> QED
          BY <2>1, <5>1, <5>2, <5>3, NewsKept
    <3>5. Replied(c)'
      <4>1. Replies(Append(Said(c), frame)) = Replies(Said(c))
        <5>1. /\ Replies(Said(c)) \in Nat
              /\ Replies(Append(Said(c), frame)) = Replies(Said(c)) + (IF frame.is = "reply" THEN 1 ELSE 0)
          <6>1. Said(c) \in Seq(Frame)
            BY SaidTyped
          <6> QED
            BY <6>1, RepliesGrow
        <5>2. Replies(Append(Said(c), frame)) = Replies(Said(c)) + 0
          BY <2>1, <5>1
        <5> QED
          BY <5>1, <5>2
      <4>2. Replies(Said(c)') = Replies(Said(c))
        BY <3>1, <4>1
      <4> QED
        BY <1>1, <4>2 DEF ConnInv, Replied
    <3> QED
      BY <3>3, <3>4, <3>5 DEF ConnInv
  <2> QED
    BY <2>4, <2>5
<1>4. ASSUME NEW d \in Conn, Coalesce(d), NEW c \in Conn
      PROVE  ConnInv(c)'
  <2>1. out' = out /\ note'.topic = note.topic /\ note'.to = note.to \ {d}
    BY <1>4 DEF Coalesce, Types, connVars
  <2>2. Same(c) /\ SameSubs(c)
    BY <1>1, <2>1 DEF Same, SameSubs
  <2> QED
    BY <2>2, ConnKept
<1> QED
  BY <1>2, <1>3, <1>4 DEF Publish

-----------------------------------------------------------------------------
LEMMA InvNext ==
  ASSUME ControlAssumption, IInv, [Next]_vars
  PROVE  IInv'
<1> USE DEF IInv
<1>1. Types' /\ Room' /\ Coalesced'
  BY TypesNext
<1>2. NoneRefused'
  <2>1. UNCHANGED <<closed, refused>> => NoneRefused'
    BY DEF NoneRefused
  <2>2. \A c \in Conn : Client(c) \/ Reader(c) \/ Writer(c) => UNCHANGED <<closed, refused>>
    <3> TAKE c \in Conn
    <3>1. Client(c) => UNCHANGED <<closed, refused>>
      BY DEF Client, Call, Disagree, HangUp, Subscribe, serverVars
    <3>2. Reader(c) => UNCHANGED <<closed, refused>>
      BY DEF Reader, Register, TakeReply, Send, GiveUp, DecodeFails, Leave, serverVars
    <3>3. Writer(c) => UNCHANGED <<closed, refused>>
      BY DEF Writer, Write, Finish, serverVars
    <3> QED
      BY <3>1, <3>2, <3>3
  <2>3. Serving => NoneRefused'
    BY DEF Serving, Pump, Perform, Cancel, Close, Refuse, NoneRefused
  <2>4. Publish => UNCHANGED <<closed, refused>>
    BY DEF Publish, Notify, Tell, Coalesce, serverVars
  <2>5. UNCHANGED vars => UNCHANGED <<closed, refused>>
    BY DEF vars, serverVars
  <2> QED
    BY <2>1, <2>2, <2>3, <2>4, <2>5 DEF Next, Serving
<1>3. OneAnswerComing'
  <2>1. \A c \in Conn : Writer(c) => UNCHANGED <<queue, batch, refused, reply, pc>>
    BY DEF Writer, Write, Finish, serverVars
  <2>2. Publish => UNCHANGED <<queue, batch, refused, reply, pc>>
    BY DEF Publish, Notify, Tell, Coalesce, connVars, serverVars
  <2>3. UNCHANGED vars => UNCHANGED <<queue, batch, refused, reply, pc>>
    BY DEF vars, connVars, serverVars
  <2>4. UNCHANGED <<queue, batch, refused, reply, pc>> => OneAnswerComing'
    BY AnswerKept
  <2> QED
    BY <2>1, <2>2, <2>3, <2>4, AnswerClient, AnswerReader, AnswerServing DEF Next, Serving
<1>4. \A c \in Conn : ConnInv(c)'
  <2>1. ASSUME NEW d \in Conn, Client(d) \/ Reader(d) \/ Writer(d), NEW c \in Conn
        PROVE  ConnInv(c)'
    <3>1. CASE c = d
      BY <2>1, <3>1, ConnClient, ConnReader, ConnWriter
    <3>2. CASE c # d
      BY <2>1, <3>2, OthersSame, ConnKept
    <3> QED
      BY <3>1, <3>2
  <2>2. Serving \/ UNCHANGED vars => \A c \in Conn : Same(c) /\ SameSubs(c)
    BY DEF Serving, Pump, Perform, Cancel, Close, Refuse, vars, connVars, subVars, Same, SameSubs
  <2>3. Serving \/ UNCHANGED vars => \A c \in Conn : ConnInv(c)'
    BY <2>2, ConnKept
  <2>4. Publish => \A c \in Conn : ConnInv(c)'
    BY ConnPublish
  <2> QED
    BY <2>1, <2>3, <2>4 DEF Next, Serving
<1> QED
  BY <1>1, <1>2, <1>3, <1>4

LEMMA InvInit ==
  ASSUME ControlAssumption, Init
  PROVE  IInv
<1>1. Nothing.frame \in Frame /\ Nothing \in [frame : Frame, then : {"decoding", "subscribing", "leaving"}]
  <2>1. Reply(0, "none") \in Frame
    BY FramesAreTyped DEF What
  <2> QED
    BY <2>1 DEF Nothing
<1>2. Types
  <2>1. /\ held \in [Conn -> [frame : Frame, then : {"decoding", "subscribing", "leaving"}]]
    BY <1>1 DEF Init
  <2>2. /\ reply \in [Conn -> Seq(Answer)] /\ out \in [Conn -> Seq(Frame)] /\ wire \in [Conn -> Seq(Frame)]
        /\ {queue, batch, refused} \subseteq Seq(Conn)
    BY DEF Init
  <2>3. DOMAIN subs \subseteq Conn /\ subs \in [DOMAIN subs -> SUBSET Topic]
    BY DEF Init
  <2>4. note \in [topic : Topic, to : SUBSET Conn]
    BY DEF Init, NoNote, Topic
  <2>5. notes \in 0 .. MaxNotes
    BY DEF Init, ControlAssumption
  <2> QED
    BY <2>1, <2>2, <2>3, <2>4, <2>5 DEF Init, Types
<1>3. Room /\ Coalesced /\ NoneRefused
  BY DEF Init, Room, Coalesced, NoneRefused, ControlAssumption, NoNote
<1>4. OneAnswerComing
  <2>1. \A c : Times(c, << >>) = 0
    BY TimesIsCount, CountEmpty
  <2> QED
    BY <2>1 DEF Init, OneAnswerComing
<1>5. ASSUME NEW c \in Conn
      PROVE  ConnInv(c)
  <2>1. Said(c) = << >>
    BY DEF Init, Said
  <2>2. Replies(<< >>) = 0
    <3>1. << >> \in Seq(Frame)
      OBVIOUS
    <3> QED
      BY <3>1, RepliesIsCount, CountEmpty
  <2>3. Subscribed(c) /\ NewsAfterAck(c)
    BY <2>1 DEF Init, Subscribed, NewsAfterAck, InOrder, NoNote
  <2>4. Replied(c)
    BY <2>1, <2>2 DEF Init, Replied
  <2> QED
    BY <2>3, <2>4 DEF ConnInv
<1> QED
  BY <1>2, <1>3, <1>4, <1>5 DEF IInv

LEMMA InvAlways ==
  ASSUME ControlAssumption
  PROVE  Spec => []IInv
<1>1. Init => IInv
  BY InvInit
<1>2. IInv /\ [Next]_vars => IInv'
  BY InvNext
<1> QED
  BY <1>1, <1>2, PTL DEF Spec

(* Every variable keeps its type; no writer is ever further behind than its *)
(* buffer, and nothing is counted away twice.                               *)
THEOREM TypeCorrect ==
  ASSUME ControlAssumption
  PROVE  Spec => []TypeOK
<1>1. IInv => TypeOK
  <2> SUFFICES ASSUME Types, Room, Coalesced
               PROVE  TypeOK
    BY DEF IInv
  <2>1. ASSUME NEW c \in Conn
        PROVE  dropped[c] \in 0 .. MaxNotes
    <3>1. dropped[c] \in Nat /\ notes \in 0 .. MaxNotes /\ MaxNotes \in Nat
      BY DEF Types, ControlAssumption
    <3>2. dropped[c] <= notes
      BY <3>1 DEF Coalesced
    <3> QED
      BY <3>1, <3>2
  <2>2. \A c \in Conn : held[c].frame \in Frame
    BY DEF Types
  <2> QED
    BY <2>1, <2>2 DEF Types, Room, TypeOK
<1> QED
  BY <1>1, InvAlways, PTL

(* A reader that waits has one answer coming, and no other has any: neither *)
(* the pump nor Close is ever stuck on a reply channel, and no reply        *)
(* answers another request.                                                 *)
THEOREM AnswersComeOnce ==
  ASSUME ControlAssumption
  PROVE  Spec => []OneAnswerComing
<1>1. IInv => OneAnswerComing
  BY DEF IInv
<1> QED
  BY <1>1, InvAlways, PTL

(* No client is notified of anything before it has been told that it is     *)
(* subscribed to it, however it registers again, leaves, or is published to *)
(* in between.                                                              *)
THEOREM AckComesFirst ==
  ASSUME ControlAssumption
  PROVE  Spec => []AckBeforeNotes
<1>1. IInv => AckBeforeNotes
  BY DEF IInv, ConnInv, NewsAfterAck, InOrder, AckBeforeNotes
<1> QED
  BY <1>1, InvAlways, PTL

(* A connection the server ends has been sent every reply and refusal.      *)
THEOREM EveryReplyIsSent ==
  ASSUME ControlAssumption
  PROVE  Spec => []LastWordIsSent
<1>1. IInv => LastWordIsSent
  BY DEF IInv, ConnInv, Replied, Replies, LastWordIsSent
<1> QED
  BY <1>1, InvAlways, PTL
=============================================================================
