------------------------ MODULE AnswerPipelineProofs ------------------------
(***************************************************************************)
(* The safety of an answer's way from the page to the journal and back,    *)
(* for every set of sessions, candidates, questions and answers, every     *)
(* capacity and any number of faults: PipelineIInv is inductive, and       *)
(* LatestAnswerKept, FinalizedIsComplete, AckAfterRetirement and           *)
(* NoManualReview follow from it.                                          *)
(*                                                                         *)
(* The argument.  A session has one chain, which only its page extends:    *)
(* what the cursor knows, what the journal holds, the watermarks of the    *)
(* outbox, the events and the acknowledgements that wait or travel and the *)
(* state responses are all beginnings of it.  Beginnings of one chain are  *)
(* ordered by length, and two of one length are equal; so "how far" decides*)
(* "what", and each handler only has to show how far it is.  The replies   *)
(* keep their order, which is why a cursor never passes a response that is *)
(* still on its way.                                                       *)
(***************************************************************************)
EXTENDS AnswerPipeline, FiniteSetTheorems, SequenceTheorems, WellFoundedInduction, TLAPS

-----------------------------------------------------------------------------
(* Chains of hashes. *)

\* d is the beginning of c.
Prefix(d, c) == Len(d) <= Len(c) /\ \A i \in 1..Len(d) : d[i] = c[i]

\* The chain ends with the finalize event.
FinalChain(d) == d # ZeroDigest /\ d[Len(d)].kind = "finalize"

\* The answer the chain leaves for a question.
Touching(d, q) == {i \in 1..Len(d) : d[i].question = q}
AnswerIn(d, q) ==
    IF Touching(d, q) = {} THEN NoAnswer
    ELSE d[CHOOSE i \in Touching(d, q) : \A j \in Touching(d, q) : j <= i].answer

\* A body of session k as the page makes it.
IsBody(b, k) ==
    /\ b \in Body /\ b.key = k
    /\ b.kind = "finalize" => b.question = NoQuestion /\ b.answer = NoAnswer
    /\ b.kind # "finalize" => b.question \in Questions
    /\ b.kind = "clear" => b.answer = NoAnswer

\* Everything numbered in session k, in order.
IsHistory(d, k) ==
    d \in Digest /\ \A i \in 1..Len(d) : IsBody(d[i], k) /\ d[i].sequence = i

-----------------------------------------------------------------------------
(* Types: what the page stores and knows, the messages of both directions, *)
(* the journal's answers and the outbox.                                   *)
Draft == [question : Questions, answer : Answers \cup {NoAnswer}]
Shows == UNION {[D -> Answers \cup {NoAnswer}] : D \in SUBSET Questions}
Store == [next : Nat, previous : Digest, known : Nat, knownLast : Digest,
          pending : Seq(Event), drafts : Seq(Draft), finalize : BOOLEAN,
          finalized : BOOLEAN, answers : Shows]
Page == [flight : SUBSET Event, awaiting : BOOLEAN, conflict : BOOLEAN,
         retry : BOOLEAN, edit : BOOLEAN, asked : BOOLEAN]
RequestMessage == [type : {"request"}, key : Keys]
PageMessage == [type : {"event"}, key : Keys, event : Event] \cup RequestMessage
JournalAnswers == UNION {[D -> AnswerState] : D \in SUBSET Questions}
ServerState == [highest : Nat, last : Digest, finalized : BOOLEAN, answers : JournalAnswers]
Durable == {"accepted", "duplicate"}
AckStatus == Durable \cup {"gap", "conflict", "rejected", "unavailable"}
AckMessage == [type : {"ack"}, key : Keys, status : AckStatus, sequence : Nat,
               hash : Digest, highest : Nat]
StateMessage == [type : {"state"}, key : Keys, state : ServerState]
ServerMessage == AckMessage \cup StateMessage \cup [type : {"start"}, key : Keys]
                   \cup [type : {"stop"}]
IsEntry(j) ==
    /\ j.highest \in Nat /\ j.last \in Digest /\ j.finalized \in BOOLEAN
    /\ j.answers \in JournalAnswers

Marks == UNION {[D -> Watermark] : D \in SUBSET Keys}
Image == [version : {CurrentVersion}, events : SUBSET Event, watermarks : Marks]

\* Type correctness of every variable of the pipeline.
PipelineTypeOK ==
    /\ exam \in Keys \cup {NoExam}
    /\ store \in [Keys -> Store]
    /\ page \in Page
    /\ bridge \in Seq(PageMessage)
    /\ agentQueue \in Seq(ServerMessage)
    /\ outbox \in Image
    /\ ingress \in Seq(Event)
    /\ requests \in Seq(RequestMessage)
    /\ inflight \in SUBSET Event
    /\ toServer \in Seq(PageMessage)
    /\ toClient \in Seq(ServerMessage)
    /\ context \in Keys \cup {NoExam}
    /\ DOMAIN journal \subseteq Keys
    /\ \A k \in DOMAIN journal : IsEntry(journal[k])
    /\ journalOpen \in BOOLEAN
    /\ typed \in [Keys -> [Questions -> Answers \cup {NoAnswer}]]

-----------------------------------------------------------------------------
\* What the page has numbered in the session of s.
Chain(s) == IF s.pending = <<>> THEN s.previous ELSE hash_answer_event(s.pending[1])

\* The cursor: the page knows the chain in front of the pending event.
CursorOK(s, k) ==
    /\ s.known = Len(s.previous) /\ s.knownLast = s.previous
    /\ Len(s.pending) <= 1
    /\ s.pending = <<>> => s.next = s.known + 1
    /\ s.pending # <<>> => /\ s.next = s.known + 2
                           /\ s.pending[1].sequence = s.known + 1
                           /\ s.pending[1].previous = s.previous
    /\ IsHistory(Chain(s), k)

\* Nothing follows the finalize event.
FinalOK(s) ==
    /\ s.finalized = FinalChain(s.previous)
    /\ FinalChain(Chain(s)) => s.drafts = <<>> /\ ~s.finalize
    /\ s.finalized => s.pending = <<>>

\* t is the last answer typed for each question.
TypedOK(s, t) ==
    \A q \in Questions :
        /\ \A i \in DraftOf(s, q) : s.drafts[i].answer = t[q]
        /\ DraftOf(s, q) = {} => AnswerIn(Chain(s), q) = t[q]
        /\ q \in DOMAIN s.answers => s.answers[q] = t[q]

\* All of this of the stored state s of session k.
StoreOK(s, k, t) == CursorOK(s, k) /\ FinalOK(s) /\ TypedOK(s, t)

\* A state of the journal says what its chain says.
AnswersOK(r) ==
    \A q \in Questions :
        (IF q \in DOMAIN r.answers THEN r.answers[q].answer ELSE NoAnswer) = AnswerIn(r.last, q)
StateOK(r) ==
    /\ r.highest = Len(r.last)
    /\ r.finalized = FinalChain(r.last)
    /\ AnswersOK(r)

\* StateOf(k), of the journal j.
StateIn(j, k) ==
    IF k \in DOMAIN j
    THEN [highest |-> j[k].highest, last |-> j[k].last,
          finalized |-> j[k].finalized, answers |-> j[k].answers]
    ELSE [highest |-> 0, last |-> ZeroDigest, finalized |-> FALSE, answers |-> <<>>]

\* The journal's state lies between the cursor and the pending event.
JournalOK(s, r) == StateOK(r) /\ Prefix(s.previous, r.last) /\ Prefix(r.last, Chain(s))

\* event_hashes holds the beginnings of the chain.
HashesOK(j) ==
    /\ DOMAIN j.event_hashes = 1..Len(j.last)
    /\ \A n \in 1..Len(j.last) :
          /\ j.event_hashes[n] \in Digest
          /\ Len(j.event_hashes[n]) = n /\ Prefix(j.event_hashes[n], j.last)

\* The messages of a queue.
Elems(q) == {q[i] : i \in 1..Len(q)}

\* Of each session: its chain, how far its cursor is and how far the journal is.
Chains == [k \in Keys |-> Chain(store[k])]
Cursors == [k \in Keys |-> store[k].previous]
Lasts == [k \in Keys |-> StateIn(journal, k).last]

\* The event was numbered by the page.
OnChain(c, e) ==
    e.sequence = Len(hash_answer_event(e)) /\ Prefix(hash_answer_event(e), c[e.key])
EventsOnChain(c, M) == \A m \in M : m.type = "event" => OnChain(c, m.event)
AllOnChain(c, E) == \A e \in E : OnChain(c, e)

\* A session of the outbox: what waits lies between the two watermarks.
MarkOK(c, image, k) ==
    LET w == image.watermarks[k] IN
    /\ w.acknowledged_sequence = Len(w.acknowledged_hash)
    /\ Prefix(w.acknowledged_hash, c[k])
    /\ w.highest = Len(w.last)
    /\ Prefix(w.last, c[k])
    /\ w.acknowledged_sequence <= w.highest
    /\ \A e \in EventsOf(image, k) :
          w.acknowledged_sequence < e.sequence /\ e.sequence <= w.highest
    /\ \A n \in (w.acknowledged_sequence + 1)..w.highest : HasEvent(image, k, n)
OutboxOK(c, image) ==
    /\ AllOnChain(c, image.events)
    /\ \A e \in image.events : e.key \in DOMAIN image.watermarks
    /\ \A k \in DOMAIN image.watermarks : MarkOK(c, image, k)

\* A reply of the server.
IsDurable(m) == m.type = "ack" /\ m.status \in Durable
ReplyOK(p, l, m) ==
    /\ IsDurable(m) =>
          /\ m.sequence # 0 /\ m.sequence = Len(m.hash) /\ Prefix(m.hash, l[m.key])
          /\ m.sequence <= m.highest /\ m.highest <= Len(l[m.key])
    /\ m.type = "state" =>
          StateOK(m.state) /\ Prefix(p[m.key], m.state.last) /\ Prefix(m.state.last, l[m.key])
RepliesOK(p, l, M) == \A m \in M : ReplyOK(p, l, m)

\* Replies keep their order.
Before(m, n) ==
    n.type = "state" =>
        /\ IsDurable(m) /\ m.key = n.key => Prefix(m.hash, n.state.last)
        /\ m.type = "state" /\ m.key = n.key => Prefix(m.state.last, n.state.last)
InOrder(q) == \A i, j \in 1..Len(q) : i < j => Before(q[i], q[j])
AllBefore(M, N) == \A m \in M, n \in N : Before(m, n)

\* What the page hears of has left the outbox.
GoneOK(image, m) ==
    IsDurable(m) => /\ m.key \in DOMAIN image.watermarks
                    /\ m.sequence <= image.watermarks[m.key].acknowledged_sequence
AcksGone(image, M) == \A m \in M : GoneOK(image, m)

\* Page, journal and history agree in every session, and the index of the
\* journal has the hashes of its chain.
StoresOK ==
    \A k \in Keys : StoreOK(store[k], k, typed[k]) /\ JournalOK(store[k], StateIn(journal, k))
JournalsOK == \A k \in DOMAIN journal : HashesOK(journal[k])

\* What travels to the server and waits for it is in order.
EventsHold(c, toService, toServerQueue, waiting, image) ==
    /\ EventsOnChain(c, Elems(toService)) /\ EventsOnChain(c, Elems(toServerQueue))
    /\ AllOnChain(c, Elems(waiting))
    /\ OutboxOK(c, image)

\* What travels to the page is in order.
MessagesHold(p, l, toPage, fromServer, image) ==
    /\ RepliesOK(p, l, Elems(toPage)) /\ RepliesOK(p, l, Elems(fromServer))
    /\ InOrder(toPage) /\ InOrder(fromServer) /\ AllBefore(Elems(toPage), Elems(fromServer))
    /\ AcksGone(image, Elems(toPage))

\* Both, of the queues of the pipeline.
EventsOK == EventsHold(Chains, bridge, toServer, ingress, outbox)
MessagesOK == MessagesHold(Cursors, Lasts, agentQueue, toClient, outbox)

\* The inductive invariant.
PipelineIInv ==
    /\ PipelineTypeOK /\ StoresOK /\ JournalsOK /\ EventsOK /\ MessagesOK /\ NoManualReview

-----------------------------------------------------------------------------
(* Lemmas about chains. *)

\* A chain begins with itself.
LEMMA PrefixRefl ==
  ASSUME NEW d \in Digest
  PROVE  Prefix(d, d)
  BY DEF Prefix, Digest

\* A beginning of a beginning is a beginning.
LEMMA PrefixTrans ==
  ASSUME NEW a \in Digest, NEW b \in Digest, NEW c \in Digest, Prefix(a, b), Prefix(b, c)
  PROVE  Prefix(a, c)
  BY DEF Prefix, Digest

\* Two beginnings of one chain: the shorter is the beginning of the longer.
LEMMA PrefixOrder ==
  ASSUME NEW a \in Digest, NEW b \in Digest, NEW c \in Digest, Prefix(a, c), Prefix(b, c),
         Len(a) <= Len(b)
  PROVE  Prefix(a, b)
  BY DEF Prefix, Digest

\* A beginning that is not shorter is the chain itself.
LEMMA PrefixEqual ==
  ASSUME NEW a \in Digest, NEW b \in Digest, Prefix(a, b), Len(b) <= Len(a)
  PROVE  a = b
  <1>1. Len(a) = Len(b) /\ \A i \in 1..Len(a) : a[i] = b[i]
    BY DEF Prefix, Digest
  <1> QED
    BY <1>1, SeqEqual DEF Digest

\* Two beginnings of one chain that are of one length are equal.
LEMMA PrefixSame ==
  ASSUME NEW a \in Digest, NEW b \in Digest, NEW c \in Digest, Prefix(a, c), Prefix(b, c),
         Len(a) = Len(b)
  PROVE  a = b
  <1>1. Len(a) \in Nat /\ Len(b) \in Nat
    BY DEF Digest
  <1>2. Prefix(a, b)
    BY <1>1, PrefixOrder
  <1> QED
    BY <1>1, <1>2, PrefixEqual

\* The empty chain is the beginning of every chain.
LEMMA PrefixZero ==
  /\ ZeroDigest \in Digest /\ Len(ZeroDigest) = 0
  /\ \A d \in Digest : Prefix(ZeroDigest, d) /\ (Len(d) = 0 => d = ZeroDigest)
  <1>1. ZeroDigest \in Digest /\ Len(ZeroDigest) = 0
    BY EmptySeq DEF ZeroDigest, Digest
  <1>2. ASSUME NEW d \in Digest PROVE Prefix(ZeroDigest, d) /\ (Len(d) = 0 => d = ZeroDigest)
    BY <1>1, <1>2, EmptySeq DEF Prefix, Digest, ZeroDigest
  <1> QED
    BY <1>1, <1>2

\* What an event says beside its predecessor.
BodyOf(e) == [key |-> e.key, candidate |-> e.candidate, sequence |-> e.sequence,
              kind |-> e.kind, question |-> e.question, answer |-> e.answer]

\* hash_answer_event(): the chain of the predecessor and one more body.
LEMMA HashFacts ==
  ASSUME NEW e \in Event
  PROVE  /\ e.previous \in Digest /\ hash_answer_event(e) \in Digest
         /\ Len(e.previous) \in Nat
         /\ Len(hash_answer_event(e)) = Len(e.previous) + 1
         /\ \A i \in 1..Len(e.previous) : hash_answer_event(e)[i] = e.previous[i]
         /\ hash_answer_event(e)[Len(e.previous) + 1] = BodyOf(e)
         /\ hash_answer_event(e) # ZeroDigest
         /\ Prefix(e.previous, hash_answer_event(e))
         /\ BodyOf(e) \in Body
  <1>1. BodyOf(e) \in Body
    BY DEF Event, Body, BodyOf
  <1>2. e.previous \in Seq(Body) /\ e.previous \in Digest
    BY DEF Event, Digest
  <1>3. hash_answer_event(e) = Append(e.previous, BodyOf(e))
    BY DEF hash_answer_event, BodyOf
  <1>4. /\ Append(e.previous, BodyOf(e)) \in Seq(Body)
        /\ Len(Append(e.previous, BodyOf(e))) = Len(e.previous) + 1
        /\ \A i \in 1..Len(e.previous) : Append(e.previous, BodyOf(e))[i] = e.previous[i]
        /\ Append(e.previous, BodyOf(e))[Len(e.previous) + 1] = BodyOf(e)
    BY <1>1, <1>2, AppendProperties
  <1>5. hash_answer_event(e) # ZeroDigest
    BY <1>2, <1>3, <1>4, EmptySeq DEF ZeroDigest
  <1>6. Len(e.previous) \in Nat
    BY <1>2
  <1>7. Prefix(e.previous, hash_answer_event(e))
    BY <1>3, <1>4, <1>6 DEF Prefix
  <1> QED
    BY <1>1, <1>2, <1>3, <1>4, <1>5, <1>6, <1>7 DEF Digest

\* What lies between the predecessor and the chain of an event is one of the two.
LEMMA BetweenPrefixes ==
  ASSUME NEW e \in Event, NEW d \in Digest, Prefix(e.previous, d),
         Prefix(d, hash_answer_event(e))
  PROVE  d = e.previous \/ d = hash_answer_event(e)
  <1>1. /\ e.previous \in Digest /\ hash_answer_event(e) \in Digest
        /\ Len(e.previous) \in Nat /\ Len(d) \in Nat
        /\ Len(hash_answer_event(e)) = Len(e.previous) + 1
    BY HashFacts DEF Digest
  <1>2. Len(e.previous) <= Len(d) /\ Len(d) <= Len(e.previous) + 1
    BY <1>1 DEF Prefix
  <1>3. CASE Len(d) <= Len(e.previous)
    BY <1>1, <1>3, PrefixEqual
  <1>4. CASE Len(hash_answer_event(e)) <= Len(d)
    BY <1>1, <1>4, PrefixEqual
  <1> QED
    BY <1>1, <1>2, <1>3, <1>4

\* An event that leads to a chain is its last step.
LEMMA LastStep ==
  ASSUME NEW e \in Event, NEW f \in Event, hash_answer_event(e) = hash_answer_event(f)
  PROVE  e = f
  <1>1. /\ e.previous \in Digest /\ f.previous \in Digest
        /\ Len(e.previous) \in Nat /\ Len(f.previous) \in Nat
        /\ Len(hash_answer_event(e)) = Len(e.previous) + 1
        /\ Len(hash_answer_event(f)) = Len(f.previous) + 1
        /\ hash_answer_event(e)[Len(e.previous) + 1] = BodyOf(e)
        /\ hash_answer_event(f)[Len(f.previous) + 1] = BodyOf(f)
        /\ Prefix(e.previous, hash_answer_event(e)) /\ Prefix(f.previous, hash_answer_event(f))
        /\ hash_answer_event(e) \in Digest
    BY HashFacts
  <1>2. Len(e.previous) = Len(f.previous)
    BY <1>1
  <1>3. e.previous = f.previous
    BY <1>1, <1>2, PrefixSame
  <1>4. BodyOf(e) = BodyOf(f)
    BY <1>1, <1>2
  <1> QED
    BY <1>3, <1>4 DEF BodyOf, Event

-----------------------------------------------------------------------------
(* The answers of a chain. *)

\* The newest of the steps of a chain about a question.
LEMMA NewestStep ==
  ASSUME NEW d \in Digest, NEW q, Touching(d, q) # {}
  PROVE  \E i \in Touching(d, q) : \A j \in Touching(d, q) : j <= i
  <1>1. Len(d) \in Nat /\ Touching(d, q) \subseteq 1..Len(d)
    BY DEF Digest, Touching
  <1> DEFINE Bounds == {b \in Nat : \A j \in Touching(d, q) : j <= b}
  <1>2. Len(d) \in Bounds
    BY <1>1
  <1>3. PICK b \in Bounds : \A a \in Bounds : ~(<<a, b>> \in OpToRel(<, Nat))
    <2>1. Bounds \subseteq Nat /\ Bounds # {}
      BY <1>2
    <2> HIDE DEF Bounds
    <2> QED
      BY <2>1, NatLessThanWellFounded, WFMin, Zenon
  <1>4. \A a \in Bounds : ~(a < b)
    BY <1>3 DEF OpToRel
  <1>5. b \in Touching(d, q)
    <2> SUFFICES ASSUME b \notin Touching(d, q) PROVE FALSE
      OBVIOUS
    <2>1. PICK j \in Touching(d, q) : TRUE
      OBVIOUS
    <2>2. j <= b /\ j >= 1 /\ b \in Nat /\ j \in Nat
      BY <1>1, <2>1
    <2>3. \A i \in Touching(d, q) : i <= b - 1
      BY <1>1
    <2>4. b - 1 \in Bounds
      BY <2>2, <2>3
    <2> QED
      BY <1>4, <2>2, <2>4
  <1> QED
    BY <1>5

\* One more event changes the answer of its question only.
LEMMA AnswerOfEvent ==
  ASSUME NEW e \in Event, NEW q
  PROVE  AnswerIn(hash_answer_event(e), q)
           = IF e.question = q THEN e.answer ELSE AnswerIn(e.previous, q)
  <1>1. PICK d, h : d = e.previous /\ h = hash_answer_event(e)
    OBVIOUS
  <1>2. PICK n : n = Len(d) + 1
    OBVIOUS
  <1>3. /\ d \in Digest /\ h \in Digest /\ Len(d) \in Nat /\ n \in Nat /\ Len(h) = n
        /\ \A i \in 1..Len(d) : h[i] = d[i]
        /\ h[n] = BodyOf(e)
    BY <1>1, <1>2, HashFacts
  <1>4. h[n].question = e.question /\ h[n].answer = e.answer
    BY <1>3 DEF BodyOf
  <1>5. Touching(h, q) = Touching(d, q) \cup (IF e.question = q THEN {n} ELSE {})
    BY <1>2, <1>3, <1>4 DEF Touching
  <1>6. Touching(d, q) \subseteq 1..Len(d)
    BY DEF Touching
  <1>7. CASE e.question = q
    <2>1. n \in Touching(h, q) /\ \A j \in Touching(h, q) : j <= n
      BY <1>2, <1>3, <1>5, <1>6, <1>7
    <2>2. PICK m : m = CHOOSE i \in Touching(h, q) : \A j \in Touching(h, q) : j <= i
      OBVIOUS
    <2>3. m \in Touching(h, q) /\ \A j \in Touching(h, q) : j <= m
      BY <2>1, <2>2, Zenon
    <2>4. m = n
      BY <1>3, <2>1, <2>3 DEF Touching
    <2>5. AnswerIn(h, q) = h[m].answer
      BY <2>1, <2>2, Zenon DEF AnswerIn
    <2> QED
      BY <1>1, <1>4, <1>7, <2>4, <2>5
  <1>8. CASE e.question # q
    <2>1. Touching(h, q) = Touching(d, q)
      BY <1>5, <1>8
    <2>2. CASE Touching(d, q) = {}
      BY <1>1, <1>8, <2>1, <2>2, Zenon DEF AnswerIn
    <2>3. CASE Touching(d, q) # {}
      <3>1. PICK m : m = CHOOSE i \in Touching(d, q) : \A j \in Touching(d, q) : j <= i
        OBVIOUS
      <3>2. m \in Touching(d, q)
        BY <2>3, <3>1, NewestStep, Zenon, <1>3
      <3>3. h[m] = d[m]
        BY <1>3, <1>6, <3>2
      <3>4. AnswerIn(d, q) = d[m].answer
        BY <2>3, <3>1, Zenon DEF AnswerIn
      <3>5. AnswerIn(h, q) = h[m].answer
        BY <2>1, <2>3, <3>1, Zenon DEF AnswerIn
      <3> QED
        BY <1>1, <1>8, <3>3, <3>4, <3>5
    <2> QED
      BY <2>2, <2>3
  <1> QED
    BY <1>7, <1>8

-----------------------------------------------------------------------------
(* Filters. *)

\* The function that computes a filter.
IsPicking(f, s, I, n) ==
    f = [i \in 0..n |-> IF i = 0 THEN <<>>
                        ELSE IF i \in I THEN Append(f[i - 1], s[i]) ELSE f[i - 1]]

\* It exists.
LEMMA PickingExists ==
  ASSUME NEW s, NEW I
  PROVE  \A n \in Nat : \E f : IsPicking(f, s, I, n)
  <1> DEFINE Bad == {n \in Nat : ~ \E f : IsPicking(f, s, I, n)}
  <1> SUFFICES ASSUME Bad # {} PROVE FALSE
    OBVIOUS
  <1>1. PICK n \in Bad : \A a \in Bad : ~(<<a, n>> \in OpToRel(<, Nat))
    <2>1. Bad \subseteq Nat
      OBVIOUS
    <2> HIDE DEF Bad
    <2> QED
      BY <2>1, NatLessThanWellFounded, WFMin, Zenon
  <1>2. n \in Nat /\ \A a \in Bad : ~(a < n)
    BY <1>1 DEF OpToRel
  <1>3. CASE n = 0
    <2>1. PICK f : f = [i \in 0..0 |-> <<>>]
      OBVIOUS
    <2>2. IsPicking(f, s, I, 0)
      BY <2>1 DEF IsPicking
    <2> QED
      BY <1>3, <2>2
  <1>4. CASE n # 0
    <2>1. PICK m \in Nat : n = m + 1
      BY <1>2, <1>4
    <2>2. PICK f : IsPicking(f, s, I, m)
      BY <1>2, <2>1
    <2>3. PICK g : g = [i \in 0..n |-> IF i = n
                                       THEN IF n \in I THEN Append(f[m], s[n]) ELSE f[m]
                                       ELSE f[i]]
      OBVIOUS
    <2>4. ASSUME NEW i \in 0..n
          PROVE  g[i] = IF i = 0 THEN <<>>
                        ELSE IF i \in I THEN Append(g[i - 1], s[i]) ELSE g[i - 1]
      <3>1. CASE i = n
        BY <2>1, <2>3, <3>1
      <3>2. CASE i # n
        <4>1. i \in 0..m /\ g[i] = f[i]
          BY <2>1, <2>3, <3>2
        <4>2. f[i] = IF i = 0 THEN <<>>
                     ELSE IF i \in I THEN Append(f[i - 1], s[i]) ELSE f[i - 1]
          BY <2>2, <4>1 DEF IsPicking
        <4>3. i # 0 => g[i - 1] = f[i - 1]
          BY <2>1, <2>3, <4>1
        <4> QED
          BY <4>1, <4>2, <4>3
      <3> QED
        BY <3>1, <3>2
    <2>5. IsPicking(g, s, I, n)
      BY <2>3, <2>4 DEF IsPicking
    <2> QED
      BY <2>5
  <1> QED
    BY <1>3, <1>4

\* The filter takes one position after the other.
LEMMA PickedSteps ==
  ASSUME NEW S, NEW s \in Seq(S), NEW I
  PROVE  \E f : /\ Picked(s, I) = f[Len(s)]
                /\ f[0] = <<>>
                /\ \A i \in 1..Len(s) :
                      f[i] = IF i \in I THEN Append(f[i - 1], s[i]) ELSE f[i - 1]
  <1> DEFINE p[i \in 0..Len(s)] ==
            IF i = 0 THEN <<>>
            ELSE IF i \in I THEN Append(p[i - 1], s[i]) ELSE p[i - 1]
  <1>1. Len(s) \in Nat
    OBVIOUS
  <1>2. \E f : f = [i \in 0..Len(s) |-> IF i = 0 THEN <<>>
                        ELSE IF i \in I THEN Append(f[i - 1], s[i]) ELSE f[i - 1]]
    <2>1. \E f : IsPicking(f, s, I, Len(s))
      BY <1>1, PickingExists
    <2> QED
      BY <2>1, Zenon DEF IsPicking
  <1>3. p = [i \in 0..Len(s) |-> IF i = 0 THEN <<>>
                        ELSE IF i \in I THEN Append(p[i - 1], s[i]) ELSE p[i - 1]]
    BY <1>2, Zenon
  <1>4. Picked(s, I) = p[Len(s)]
    BY DEF Picked
  <1> HIDE DEF p
  <1>5. IsPicking(p, s, I, Len(s))
    BY <1>3, Zenon DEF IsPicking
  <1>6. p[0] = <<>>
    BY <1>1, <1>5 DEF IsPicking
  <1>7. ASSUME NEW i \in 1..Len(s)
        PROVE  p[i] = IF i \in I THEN Append(p[i - 1], s[i]) ELSE p[i - 1]
    <2>1. i \in 0..Len(s) /\ i # 0
      BY <1>1
    <2>2. p[i] = IF i = 0 THEN <<>>
                 ELSE IF i \in I THEN Append(p[i - 1], s[i]) ELSE p[i - 1]
      BY <1>3, <2>1, Zenon
    <2> QED
      BY <2>1, <2>2
  <1> QED
    BY <1>4, <1>6, <1>7

\* p consists of elements of s, up to position n, in their order.
PartOf(p, s, n) ==
    \E g \in [1..Len(p) -> 1..n] :
        /\ \A i, j \in 1..Len(p) : i < j => g[i] < g[j]
        /\ \A i \in 1..Len(p) : p[i] = s[g[i]]

\* One more element.
LEMMA PartGrows ==
  ASSUME NEW S, NEW s \in Seq(S), NEW p \in Seq(S), NEW m \in Nat, NEW n \in 1..Len(s),
         n = m + 1, PartOf(p, s, m)
  PROVE  PartOf(p, s, n) /\ PartOf(Append(p, s[n]), s, n) /\ Append(p, s[n]) \in Seq(S)
  <1>1. PICK g \in [1..Len(p) -> 1..m] :
                /\ \A i, j \in 1..Len(p) : i < j => g[i] < g[j]
                /\ \A i \in 1..Len(p) : p[i] = s[g[i]]
    BY DEF PartOf
  <1>2. Len(p) \in Nat /\ s[n] \in S
    OBVIOUS
  <1>3. PartOf(p, s, n)
    <2>1. g \in [1..Len(p) -> 1..n]
      BY <1>1
    <2> QED
      BY <1>1, <2>1 DEF PartOf
  <1>4. PICK r : r = Append(p, s[n])
    OBVIOUS
  <1>5. PICK l \in Nat : l = Len(p) + 1
    BY <1>2
  <1>6. /\ r \in Seq(S) /\ Len(r) = l /\ r[l] = s[n]
        /\ \A i \in 1..Len(p) : r[i] = p[i]
    BY <1>2, <1>4, <1>5, AppendProperties
  <1>7. PICK h : h = [i \in 1..l |-> IF i = l THEN n ELSE g[i]]
    OBVIOUS
  <1>8. h \in [1..Len(r) -> 1..n]
    BY <1>1, <1>2, <1>5, <1>6, <1>7
  <1>9. ASSUME NEW i \in 1..Len(r), NEW j \in 1..Len(r), i < j PROVE h[i] < h[j]
    <2>1. i \in 1..Len(p) /\ h[i] = g[i] /\ g[i] \in 1..m
      <3>1. i \in 1..Len(p) /\ i \in 1..l /\ i # l
        BY <1>2, <1>5, <1>6, <1>9
      <3>2. h[i] = g[i]
        BY <1>7, <3>1
      <3>3. g[i] \in 1..m
        BY <1>1, <3>1
      <3> QED
        BY <3>1, <3>2, <3>3
    <2>2. CASE j = l
      <3>1. j \in 1..l
        BY <1>5, <2>2
      <3>2. h[j] = n
        BY <1>7, <2>2, <3>1
      <3> QED
        BY <2>1, <3>2
    <2>3. CASE j # l
      <3>1. j \in 1..Len(p) /\ h[j] = g[j]
        BY <1>2, <1>5, <1>6, <1>7, <2>3
      <3> QED
        BY <1>1, <1>9, <2>1, <3>1
    <2> QED
      BY <2>2, <2>3
  <1>10. \A i \in 1..Len(r) : r[i] = s[h[i]]
    BY <1>1, <1>2, <1>5, <1>6, <1>7
  <1>11. PartOf(r, s, n)
    BY <1>8, <1>9, <1>10 DEF PartOf
  <1> QED
    BY <1>3, <1>4, <1>6, <1>11

\* A filter leaves elements of the queue in their order.
LEMMA PickedPart ==
  ASSUME NEW S, NEW s \in Seq(S), NEW I
  PROVE  Picked(s, I) \in Seq(S) /\ PartOf(Picked(s, I), s, Len(s))
  <1>1. PICK f : /\ Picked(s, I) = f[Len(s)]
                 /\ f[0] = <<>>
                 /\ \A i \in 1..Len(s) :
                      f[i] = IF i \in I THEN Append(f[i - 1], s[i]) ELSE f[i - 1]
    BY PickedSteps
  <1>2. Len(s) \in Nat
    OBVIOUS
  <1> DEFINE Bad == {n \in 0..Len(s) : ~(f[n] \in Seq(S) /\ PartOf(f[n], s, n))}
  <1>3. Bad = {}
    <2> SUFFICES ASSUME Bad # {} PROVE FALSE
      OBVIOUS
    <2>1. PICK n \in Bad : \A a \in Bad : ~(<<a, n>> \in OpToRel(<, Nat))
      <3>1. Bad \subseteq Nat
        BY <1>2
      <3> HIDE DEF Bad
      <3> QED
        BY <3>1, NatLessThanWellFounded, WFMin, Zenon
    <2>2. n \in 0..Len(s) /\ n \in Nat /\ \A a \in Bad : ~(a < n)
      <3>1. n \in 0..Len(s) /\ n \in Nat /\ Bad \subseteq Nat
        BY <1>2
      <3> HIDE DEF Bad
      <3> QED
        BY <2>1, <3>1 DEF OpToRel
    <2>3. ~(f[n] \in Seq(S) /\ PartOf(f[n], s, n))
      BY <2>1
    <2>4. CASE n = 0
      <3>1. f[0] \in Seq(S) /\ Len(f[0]) = 0
        BY <1>1, EmptySeq
      <3>2. PICK g : g = [i \in 1..0 |-> 0]
        OBVIOUS
      <3>3. g \in [1..0 -> 1..0]
        BY <3>2
      <3>4. PartOf(f[0], s, 0)
        BY <3>1, <3>3 DEF PartOf
      <3> QED
        BY <2>3, <2>4, <3>1, <3>4
    <2>5. CASE n # 0
      <3>1. PICK m \in Nat : n = m + 1
        BY <2>2, <2>5
      <3>2. m \in 0..Len(s) /\ m < n /\ m = n - 1 /\ n \in 1..Len(s)
        BY <1>2, <2>2, <3>1
      <3>3. f[m] \in Seq(S) /\ PartOf(f[m], s, m)
        BY <2>2, <3>2
      <3>4. f[n] = IF n \in I THEN Append(f[m], s[n]) ELSE f[m]
        BY <1>1, <3>2
      <3>5. PICK p \in Seq(S) : p = f[m]
        BY <3>3
      <3>6. PartOf(p, s, n) /\ PartOf(Append(p, s[n]), s, n) /\ Append(p, s[n]) \in Seq(S)
        BY <3>1, <3>2, <3>3, <3>5, PartGrows
      <3> QED
        BY <2>3, <3>4, <3>5, <3>6
    <2> QED
      BY <2>4, <2>5
  <1>4. Len(s) \in 0..Len(s)
    BY <1>2
  <1> QED
    BY <1>1, <1>3, <1>4

\* A queue with at most one element stays or becomes empty.
LEMMA PickedOne ==
  ASSUME NEW S, NEW s \in Seq(S), NEW I, Len(s) <= 1
  PROVE  /\ s # <<>> /\ 1 \in I => Picked(s, I) = s
         /\ s = <<>> \/ 1 \notin I => Picked(s, I) = <<>>
  <1>1. PICK f : /\ Picked(s, I) = f[Len(s)]
                 /\ f[0] = <<>>
                 /\ \A i \in 1..Len(s) :
                      f[i] = IF i \in I THEN Append(f[i - 1], s[i]) ELSE f[i - 1]
    BY PickedSteps
  <1>2. CASE s = <<>>
    BY <1>1, <1>2
  <1>3. CASE s # <<>>
    <2>1. Len(s) = 1 /\ s[1] \in S
      <3>1. Len(s) # 0 /\ Len(s) \in Nat
        BY <1>3, EmptySeq
      <3>2. Len(s) = 1
        BY <3>1
      <3>3. 1 \in 1..Len(s)
        BY <3>2
      <3> QED
        BY <3>2, <3>3, ElementOfSeq
    <2>2. f[1] = IF 1 \in I THEN Append(f[0], s[1]) ELSE f[0]
      <3>1. 1 \in 1..Len(s) /\ 1 - 1 = 0
        BY <2>1
      <3>2. f[1] = IF 1 \in I THEN Append(f[1 - 1], s[1]) ELSE f[1 - 1]
        BY <1>1, <3>1, Zenon
      <3> QED
        BY <3>1, <3>2
    <2>3. Append(<<>>, s[1]) = s
      <3>1. /\ Append(<<>>, s[1]) \in Seq(S)
            /\ Len(Append(<<>>, s[1])) = 1
            /\ Append(<<>>, s[1])[1] = s[1]
        BY <2>1, EmptySeq, AppendProperties
      <3> QED
        BY <2>1, <3>1, SeqEqual
    <2> QED
      BY <1>1, <1>3, <2>1, <2>2, <2>3
  <1> QED
    BY <1>2, <1>3

-----------------------------------------------------------------------------
(* Drafts. *)

\* The drafts of the questions of P are the answers of t.
DraftedAs(s, t, P) == \A p \in P : \A i \in DraftOf(s, p) : s.drafts[i].answer = t[p]

\* x differs from s in its drafts only.
SameButDrafts(x, s) ==
    /\ x \in Store
    /\ x.next = s.next /\ x.previous = s.previous /\ x.known = s.known
    /\ x.knownLast = s.knownLast /\ x.pending = s.pending
    /\ x.finalize = s.finalize /\ x.finalized = s.finalized /\ x.answers = s.answers

\* Every question with a draft keeps one.
StillDrafted(x, s) == \A p \in Questions : DraftOf(s, p) # {} => DraftOf(x, p) # {}

\* The drafts after queueAnswerDraft().
DraftsWith(s, q, a) ==
    IF DraftOf(s, q) = {} THEN Append(s.drafts, [question |-> q, answer |-> a])
    ELSE [i \in 1..Len(s.drafts) |->
            IF i \in DraftOf(s, q) THEN [question |-> q, answer |-> a] ELSE s.drafts[i]]

\* A store with other drafts.
WithDrafts(s, d) == [s EXCEPT !.drafts = d]

\* Only the drafts differ.
LEMMA WithDraftsFacts ==
  ASSUME NEW s \in Store, NEW d \in Seq(Draft)
  PROVE  SameButDrafts(WithDrafts(s, d), s) /\ WithDrafts(s, d).drafts = d
  BY DEF Store, WithDrafts, SameButDrafts

\* queueAnswerDraft(): the question has the draft a, the others are as they were.
LEMMA QueuedDraft ==
  ASSUME NEW s \in Store, NEW q \in Questions, NEW a \in Answers \cup {NoAnswer}, NEW t,
         a = t[q], DraftedAs(s, t, Questions \ {q})
  PROVE  /\ SameButDrafts(queueAnswerDraft(s, q, a), s)
         /\ DraftedAs(queueAnswerDraft(s, q, a), t, Questions)
         /\ StillDrafted(queueAnswerDraft(s, q, a), s)
         /\ DraftOf(queueAnswerDraft(s, q, a), q) # {}
  <1>1. PICK d : d = DraftsWith(s, q, a)
    OBVIOUS
  <1>2. PICK x : x = queueAnswerDraft(s, q, a)
    OBVIOUS
  <1>3. x = WithDrafts(s, d)
    BY <1>1, <1>2, Zenon DEF queueAnswerDraft, DraftsWith, WithDrafts
  <1>4. PICK b \in Draft : b = [question |-> q, answer |-> a] /\ b.question = q /\ b.answer = a
    <2>1. [question |-> q, answer |-> a] \in Draft
      BY DEF Draft
    <2> QED
      BY <2>1, Zenon
  <1>5. PICK o \in Seq(Draft) : o = s.drafts
    BY DEF Store
  <1>6. PICK D : D = DraftOf(s, q)
    OBVIOUS
  <1>7. D = {i \in 1..Len(o) : o[i].question = q} /\ Len(o) \in Nat
    BY <1>5, <1>6 DEF DraftOf
  <1>8. CASE D = {}
    <2>1. d = Append(o, b)
      BY <1>1, <1>4, <1>5, <1>6, <1>8, Zenon DEF DraftsWith
    <2>2. /\ d \in Seq(Draft) /\ Len(d) = Len(o) + 1
          /\ \A i \in 1..Len(o) : d[i] = o[i]
          /\ d[Len(o) + 1] = b
      BY <1>4, <2>1, AppendProperties
    <2>3. SameButDrafts(x, s) /\ x.drafts = d
      BY <1>3, <2>2, WithDraftsFacts
    <2>4. ASSUME NEW p \in Questions, p # q PROVE DraftOf(x, p) = DraftOf(s, p)
      BY <1>4, <1>5, <1>7, <2>2, <2>3, <2>4 DEF DraftOf
    <2>5. DraftOf(x, q) = {Len(o) + 1}
      BY <1>4, <1>7, <1>8, <2>2, <2>3 DEF DraftOf
    <2>6. StillDrafted(x, s) /\ DraftOf(x, q) # {}
      BY <2>4, <2>5 DEF StillDrafted
    <2>7. DraftedAs(x, t, Questions)
      <3> SUFFICES ASSUME NEW p \in Questions, NEW i \in DraftOf(x, p)
                   PROVE  x.drafts[i].answer = t[p]
        BY DEF DraftedAs
      <3>1. CASE p = q
        BY <1>4, <2>2, <2>3, <2>5, <3>1
      <3>2. CASE p # q
        <4>1. i \in DraftOf(s, p)
          BY <2>4, <3>2
        <4>2. s.drafts[i].answer = t[p]
          BY <3>2, <4>1 DEF DraftedAs
        <4>3. i \in 1..Len(o)
          BY <1>5, <4>1 DEF DraftOf
        <4> QED
          BY <1>5, <2>2, <2>3, <4>2, <4>3
      <3> QED
        BY <3>1, <3>2
    <2> QED
      BY <1>2, <2>3, <2>6, <2>7
  <1>9. CASE D # {}
    <2>1. d = [i \in 1..Len(o) |-> IF i \in D THEN b ELSE o[i]]
      BY <1>1, <1>4, <1>5, <1>6, <1>9, Zenon DEF DraftsWith
    <2>2. d \in Seq(Draft) /\ Len(d) = Len(o)
      <3>1. \A i \in 1..Len(o) : (IF i \in D THEN b ELSE o[i]) \in Draft
        BY <1>4
      <3> QED
        BY <1>7, <2>1, <3>1, IsASeq
    <2>3. SameButDrafts(x, s) /\ x.drafts = d
      BY <1>3, <2>2, WithDraftsFacts
    <2>4. ASSUME NEW p \in Questions, p # q PROVE DraftOf(x, p) = DraftOf(s, p)
      BY <1>4, <1>5, <1>7, <2>1, <2>2, <2>3, <2>4 DEF DraftOf
    <2>5. DraftOf(x, q) = D
      BY <1>4, <1>5, <1>7, <2>1, <2>2, <2>3 DEF DraftOf
    <2>6. StillDrafted(x, s) /\ DraftOf(x, q) # {}
      BY <1>6, <1>9, <2>4, <2>5 DEF StillDrafted
    <2>7. DraftedAs(x, t, Questions)
      <3> SUFFICES ASSUME NEW p \in Questions, NEW i \in DraftOf(x, p)
                   PROVE  x.drafts[i].answer = t[p]
        BY DEF DraftedAs
      <3>1. CASE p = q
        BY <1>4, <1>7, <2>1, <2>3, <2>5, <3>1
      <3>2. CASE p # q
        <4>1. i \in DraftOf(s, p)
          BY <2>4, <3>2
        <4>2. s.drafts[i].answer = t[p]
          BY <3>2, <4>1 DEF DraftedAs
        <4>3. i \in 1..Len(o) /\ i \notin D
          BY <1>5, <1>7, <3>2, <4>1 DEF DraftOf
        <4> QED
          BY <1>5, <2>1, <2>3, <4>2, <4>3
      <3> QED
        BY <3>1, <3>2
    <2> QED
      BY <1>2, <2>3, <2>6, <2>7
  <1> QED
    BY <1>8, <1>9

\* The function that ensureDurableAnswers() computes.
IsDrafting(f, s, n) ==
    f = [i \in 0..n |->
            IF i = 0 THEN s
            ELSE LET q == Manifest[i] IN
                 IF q \in DOMAIN s.answers /\ ~AnswerPresent(s, q)
                 THEN queueAnswerDraft(f[i - 1], q, s.answers[q])
                 ELSE f[i - 1]]

\* It exists.
LEMMA DraftingExists ==
  ASSUME NEW s
  PROVE  \A n \in Nat : \E f : IsDrafting(f, s, n)
  <1> DEFINE Bad == {n \in Nat : ~ \E f : IsDrafting(f, s, n)}
  <1> SUFFICES ASSUME Bad # {} PROVE FALSE
    OBVIOUS
  <1>1. PICK n \in Bad : \A a \in Bad : ~(<<a, n>> \in OpToRel(<, Nat))
    <2>1. Bad \subseteq Nat
      OBVIOUS
    <2> HIDE DEF Bad
    <2> QED
      BY <2>1, NatLessThanWellFounded, WFMin, Zenon
  <1>2. n \in Nat /\ \A a \in Bad : ~(a < n)
    BY <1>1 DEF OpToRel
  <1>3. CASE n = 0
    <2>1. PICK f : f = [i \in 0..0 |-> s]
      OBVIOUS
    <2>2. IsDrafting(f, s, 0)
      BY <2>1 DEF IsDrafting
    <2> QED
      BY <1>3, <2>2
  <1>4. CASE n # 0
    <2>1. PICK m \in Nat : n = m + 1
      BY <1>2, <1>4
    <2>2. PICK f : IsDrafting(f, s, m)
      BY <1>2, <2>1
    <2> DEFINE Step(y, i) ==
            LET q == Manifest[i] IN
            IF q \in DOMAIN s.answers /\ ~AnswerPresent(s, q)
            THEN queueAnswerDraft(y, q, s.answers[q])
            ELSE y
    <2>3. f = [i \in 0..m |-> IF i = 0 THEN s ELSE Step(f[i - 1], i)]
      BY <2>2, Zenon DEF IsDrafting
    <2>4. \A g : g = [i \in 0..n |-> IF i = 0 THEN s ELSE Step(g[i - 1], i)]
                   => IsDrafting(g, s, n)
      BY Zenon DEF IsDrafting
    <2> HIDE DEF Step
    <2>5. PICK g : g = [i \in 0..n |-> IF i = n THEN Step(f[m], n) ELSE f[i]]
      OBVIOUS
    <2>6. ASSUME NEW i \in 0..n PROVE g[i] = IF i = 0 THEN s ELSE Step(g[i - 1], i)
      <3>1. CASE i = n
        <4>1. i - 1 = m /\ g[m] = f[m] /\ i # 0
          BY <2>1, <2>5, <3>1
        <4> QED
          BY <2>5, <3>1, <4>1
      <3>2. CASE i # n
        <4>1. i \in 0..m /\ g[i] = f[i]
          BY <2>1, <2>5, <3>2
        <4>2. f[i] = IF i = 0 THEN s ELSE Step(f[i - 1], i)
          BY <2>3, <4>1, Zenon
        <4>3. i # 0 => g[i - 1] = f[i - 1]
          BY <2>1, <2>5, <4>1
        <4> QED
          BY <4>1, <4>2, <4>3
      <3> QED
        BY <3>1, <3>2
    <2>7. g = [i \in 0..n |-> IF i = 0 THEN s ELSE Step(g[i - 1], i)]
      BY <2>5, <2>6
    <2>8. IsDrafting(g, s, n)
      BY <2>4, <2>7
    <2> QED
      BY <2>8
  <1> QED
    BY <1>3, <1>4

\* Manifest is a list of the questions.
LEMMA ManifestFacts ==
  /\ Cardinality(Questions) \in Nat
  /\ \A i \in 1..Cardinality(Questions) : Manifest[i] \in Questions
  <1>1. Cardinality(Questions) \in Nat /\ ExistsBijection(1..Cardinality(Questions), Questions)
    BY FS_CardinalityType, PipelineAssumption
  <1>2. \E f \in [1..Cardinality(Questions) -> Questions] :
           \A i, j \in 1..Cardinality(Questions) : f[i] = f[j] => i = j
    <2>1. PICK f : f \in Bijection(1..Cardinality(Questions), Questions)
      BY <1>1, Zenon DEF ExistsBijection
    <2>2. f \in Injection(1..Cardinality(Questions), Questions)
      BY <2>1, Zenon DEF Bijection
    <2>3. /\ f \in [1..Cardinality(Questions) -> Questions]
          /\ \A i, j \in 1..Cardinality(Questions) : f[i] = f[j] => i = j
      BY <2>2 DEF Injection, IsInjective
    <2> QED
      BY <2>3, Zenon
  <1>3. Manifest \in [1..Cardinality(Questions) -> Questions]
    BY <1>2, Zenon DEF Manifest
  <1> QED
    BY <1>1, <1>3

\* The answers typed: one for each question.
TypedSet == [Questions -> Answers \cup {NoAnswer}]

\* ensureDurableAnswers(): only drafts are added, of answers that are shown.
LEMMA EnsureDrafts ==
  ASSUME NEW s \in Store, NEW t \in TypedSet, DraftedAs(s, t, Questions),
         \A q \in Questions : q \in DOMAIN s.answers => s.answers[q] = t[q]
  PROVE  /\ SameButDrafts(ensureDurableAnswers(s), s)
         /\ DraftedAs(ensureDurableAnswers(s), t, Questions)
         /\ StillDrafted(ensureDurableAnswers(s), s)
  <1> DEFINE N == Cardinality(Questions)
  <1> DEFINE drafted[i \in 0..N] ==
            IF i = 0 THEN s
            ELSE LET q == Manifest[i] IN
                 IF q \in DOMAIN s.answers /\ ~AnswerPresent(s, q)
                 THEN queueAnswerDraft(drafted[i - 1], q, s.answers[q])
                 ELSE drafted[i - 1]
  <1>1. N \in Nat /\ \A i \in 1..N : Manifest[i] \in Questions
    BY ManifestFacts
  <1>2. ensureDurableAnswers(s) = drafted[N]
    BY DEF ensureDurableAnswers
  <1>3. \E f : IsDrafting(f, s, N)
    BY <1>1, DraftingExists
  <1>4. IsDrafting(drafted, s, N)
    BY <1>3, Zenon DEF IsDrafting
  <1> HIDE DEF drafted, N
  <1>5. drafted[0] = s
    BY <1>1, <1>4 DEF IsDrafting
  <1>6. ASSUME NEW i \in 1..N
        PROVE  \/ drafted[i] = drafted[i - 1]
               \/ \E q \in Questions :
                     /\ q \in DOMAIN s.answers
                     /\ drafted[i] = queueAnswerDraft(drafted[i - 1], q, s.answers[q])
    <2>1. i \in 0..N /\ i # 0 /\ Manifest[i] \in Questions
      BY <1>1
    <2>2. drafted[i] = IF i = 0 THEN s
            ELSE LET q == Manifest[i] IN
                 IF q \in DOMAIN s.answers /\ ~AnswerPresent(s, q)
                 THEN queueAnswerDraft(drafted[i - 1], q, s.answers[q])
                 ELSE drafted[i - 1]
      BY <1>4, <2>1, Zenon DEF IsDrafting
    <2> QED
      BY <2>1, <2>2, Zenon
  <1> DEFINE Good(x) == SameButDrafts(x, s) /\ DraftedAs(x, t, Questions) /\ StillDrafted(x, s)
  <1> DEFINE Bad == {n \in 0..N : ~Good(drafted[n])}
  <1>7. Good(s)
    BY DEF SameButDrafts, StillDrafted
  <1>8. ASSUME NEW x, Good(x), NEW q \in Questions, q \in DOMAIN s.answers
        PROVE  Good(queueAnswerDraft(x, q, s.answers[q]))
    <2>1. x \in Store /\ s.answers[q] = t[q] /\ t[q] \in Answers \cup {NoAnswer}
      BY <1>8 DEF SameButDrafts, TypedSet
    <2>2. DraftedAs(x, t, Questions \ {q})
      BY <1>8 DEF DraftedAs
    <2>3. PICK a \in Answers \cup {NoAnswer} : a = s.answers[q]
      BY <2>1
    <2>4. PICK y : y = queueAnswerDraft(x, q, a)
      OBVIOUS
    <2>5. SameButDrafts(y, x) /\ DraftedAs(y, t, Questions) /\ StillDrafted(y, x)
      BY <2>1, <2>2, <2>3, <2>4, QueuedDraft
    <2>6. SameButDrafts(y, s)
      BY <1>8, <2>5, Zenon DEF SameButDrafts
    <2>7. StillDrafted(y, s)
      BY <1>8, <2>5 DEF StillDrafted
    <2> QED
      BY <2>3, <2>4, <2>5, <2>6, <2>7
  <1> HIDE DEF Good
  <1>9. Bad = {}
    <2> SUFFICES ASSUME Bad # {} PROVE FALSE
      OBVIOUS
    <2>1. PICK n \in Bad : \A a \in Bad : ~(<<a, n>> \in OpToRel(<, Nat))
      <3>1. Bad \subseteq Nat
        BY <1>1
      <3> HIDE DEF Bad
      <3> QED
        BY <3>1, NatLessThanWellFounded, WFMin, Zenon
    <2>2. n \in 0..N /\ n \in Nat /\ \A a \in Bad : ~(a < n)
      <3>1. n \in 0..N /\ n \in Nat /\ Bad \subseteq Nat
        BY <1>1
      <3> HIDE DEF Bad
      <3> QED
        BY <2>1, <3>1 DEF OpToRel
    <2>3. ~Good(drafted[n])
      BY <2>1
    <2>4. n # 0
      BY <1>5, <1>7, <2>3
    <2>5. PICK m \in Nat : m = n - 1 /\ m \in 0..N /\ m < n /\ n \in 1..N
      BY <1>1, <2>2, <2>4
    <2>6. Good(drafted[m])
      BY <2>2, <2>5
    <2> QED
      BY <1>6, <1>8, <2>3, <2>5, <2>6
  <1>10. N \in 0..N
    BY <1>1
  <1>11. Good(drafted[N])
    BY <1>9, <1>10
  <1> QED
    BY <1>2, <1>11 DEF Good

-----------------------------------------------------------------------------
(* The page's handlers. *)

\* The fields of a store.
LEMMA StoreFields ==
  ASSUME NEW s \in Store
  PROVE  /\ s.next \in Nat /\ s.previous \in Digest /\ s.known \in Nat /\ s.knownLast \in Digest
         /\ s.pending \in Seq(Event) /\ s.drafts \in Seq(Draft)
         /\ s.finalize \in BOOLEAN /\ s.finalized \in BOOLEAN /\ s.answers \in Shows
  BY DEF Store

\* The chain of a store and its cursor.
LEMMA ChainFacts ==
  ASSUME NEW s \in Store, NEW k, CursorOK(s, k)
  PROVE  /\ Chain(s) \in Digest /\ s.previous \in Digest /\ Prefix(s.previous, Chain(s))
         /\ s.pending = <<>> => Chain(s) = s.previous
         /\ s.pending # <<>> => /\ Len(s.pending) = 1 /\ s.pending[1] \in Event
                                /\ Head(s.pending) = s.pending[1]
                                /\ Chain(s) = hash_answer_event(s.pending[1])
                                /\ Len(Chain(s)) = s.known + 1
  <1>1. s.previous \in Digest /\ s.pending \in Seq(Event) /\ s.known \in Nat
    BY StoreFields
  <1>2. CASE s.pending = <<>>
    <2>1. Chain(s) = s.previous
      BY <1>2 DEF Chain
    <2> QED
      BY <1>1, <1>2, <2>1, PrefixRefl
  <1>3. CASE s.pending # <<>>
    <2>1. Len(s.pending) # 0 /\ Len(s.pending) \in Nat
      BY <1>1, <1>3, EmptySeq
    <2>2. Len(s.pending) = 1
      <3>1. Len(s.pending) <= 1
        BY Zenon DEF CursorOK
      <3>2. \A l \in Nat : l # 0 /\ l <= 1 => l = 1
        OBVIOUS
      <3> QED
        BY <2>1, <3>1, <3>2, Zenon
    <2>3. 1 \in 1..Len(s.pending)
      BY <2>2
    <2>4. PICK e \in Event : e = s.pending[1]
      BY <1>1, <2>3, ElementOfSeq
    <2>5. Head(s.pending) = e
      BY <1>1, <1>3, <2>4, HeadTailProperties
    <2>6. Chain(s) = hash_answer_event(e) /\ e.previous = s.previous /\ s.known = Len(s.previous)
      BY <1>3, <2>4, Zenon DEF Chain, CursorOK
    <2> QED
      BY <1>1, <1>3, <2>2, <2>4, <2>5, <2>6, HashFacts
  <1> QED
    BY <1>2, <1>3

\* The page of session k is in order: t are the answers typed, r is what the journal has.
PageHolds(k, t, r, s, v) ==
    /\ s \in Store /\ v \in Page /\ v.conflict = FALSE
    /\ StoreOK(s, k, t) /\ JournalOK(s, r)

\* The messages posted carry events of the chain.
PostedOK(p, k, c) ==
    /\ p \in Seq(PageMessage)
    /\ \A i \in 1..Len(p) : p[i].type = "event" =>
          /\ p[i].event.key = k
          /\ p[i].event.sequence = Len(hash_answer_event(p[i].event))
          /\ Prefix(hash_answer_event(p[i].event), c)

\* A handler's outcome: the page is in order, its chain has grown, and the cursor
\* has stayed or moved to b.
GoodOutcome(o, k, t, r, s, b) ==
    /\ PageHolds(k, t, r, o.store, o.page)
    /\ Prefix(Chain(s), Chain(o.store))
    /\ o.store.previous = s.previous \/ o.store.previous = b
    /\ PostedOK(o.posted, k, Chain(o.store))

\* The parts of a handler's outcome.
LEMMA OutcomeFields ==
  ASSUME NEW s, NEW v, NEW p
  PROVE  /\ Outcome(s, v, p).store = s /\ Outcome(s, v, p).page = v
         /\ Outcome(s, v, p).posted = p
  BY DEF Outcome

\* Nothing is posted.
LEMMA PostsNothing ==
  ASSUME NEW k, NEW c
  PROVE  PostedOK(<<>>, k, c)
  BY EmptySeq DEF PostedOK

\* A state request is posted.
LEMMA PostsRequest ==
  ASSUME NEW k \in Keys, NEW c
  PROVE  PostedOK(<<PostRequest(k)>>, k, c)
  <1>1. PICK m : m = PostRequest(k)
    OBVIOUS
  <1>2. m \in PageMessage /\ m.type = "request"
    BY <1>1 DEF PostRequest, PageMessage, RequestMessage
  <1>3. <<m>> \in Seq(PageMessage) /\ Len(<<m>>) = 1 /\ <<m>>[1] = m
    BY <1>2
  <1>4. PostedOK(<<m>>, k, c)
    BY <1>2, <1>3 DEF PostedOK
  <1> QED
    BY <1>1, <1>4

\* An event of the chain is posted.
LEMMA PostsEvent ==
  ASSUME NEW k \in Keys, NEW c, NEW e \in Event, e.key = k,
         e.sequence = Len(hash_answer_event(e)), Prefix(hash_answer_event(e), c)
  PROVE  PostedOK(<<PostEvent(e)>>, k, c)
  <1>1. PICK m : m = PostEvent(e)
    OBVIOUS
  <1>2. m \in PageMessage /\ m.event = e
    BY <1>1 DEF PostEvent, PageMessage
  <1>3. <<m>> \in Seq(PageMessage) /\ Len(<<m>>) = 1 /\ <<m>>[1] = m
    BY <1>2
  <1>4. PostedOK(<<m>>, k, c)
    <2> SUFFICES ASSUME NEW i \in 1..1
                 PROVE  /\ <<m>>[i].event.key = k
                        /\ <<m>>[i].event.sequence = Len(hash_answer_event(<<m>>[i].event))
                        /\ Prefix(hash_answer_event(<<m>>[i].event), c)
      BY <1>3 DEF PostedOK
    <2>1. i = 1
      OBVIOUS
    <2>2. <<m>>[i].event = e
      BY <1>2, <1>3, <2>1
    <2> QED
      BY <2>2, Zenon
  <1> QED
    BY <1>1, <1>4

\* A handler that leaves the store: the outcome is good.
LEMMA StoreStays ==
  ASSUME NEW k, NEW t, NEW r, NEW s, NEW v, NEW w, NEW b, NEW p,
         PageHolds(k, t, r, s, v), w \in Page, w.conflict = FALSE, PostedOK(p, k, Chain(s))
  PROVE  GoodOutcome(Outcome(s, w, p), k, t, r, s, b)
  <1>1. /\ Outcome(s, w, p).store = s /\ Outcome(s, w, p).page = w
        /\ Outcome(s, w, p).posted = p
    BY OutcomeFields
  <1>2. PageHolds(k, t, r, s, w)
    BY DEF PageHolds
  <1>3. Prefix(Chain(s), Chain(s))
    BY ChainFacts, PrefixRefl DEF PageHolds, StoreOK
  <1> QED
    BY <1>1, <1>2, <1>3, Zenon DEF GoodOutcome

\* requestExamStateWithRetry().
LEMMA RequestGood ==
  ASSUME NEW k \in Keys, NEW t, NEW r, NEW s, NEW v, NEW b, PageHolds(k, t, r, s, v)
  PROVE  GoodOutcome(requestExamStateWithRetry(k, s, v), k, t, r, s, b)
  <1>1. PICK w : w = [v EXCEPT !.retry = TRUE, !.asked = TRUE]
    OBVIOUS
  <1>2. w \in Page /\ w.conflict = FALSE
    BY <1>1 DEF PageHolds, Page
  <1>3. PICK p : p = IF v.asked THEN <<>> ELSE <<PostRequest(k)>>
    OBVIOUS
  <1>4. PostedOK(p, k, Chain(s))
    <2>1. CASE v.asked
      BY <1>3, <2>1, PostsNothing, Zenon
    <2>2. CASE ~v.asked
      BY <1>3, <2>2, PostsRequest, Zenon
    <2> QED
      BY <2>1, <2>2
  <1>5. requestExamStateWithRetry(k, s, v) = Outcome(s, w, p)
    BY <1>1, <1>3, Zenon DEF requestExamStateWithRetry
  <1>6. GoodOutcome(Outcome(s, w, p), k, t, r, s, b)
    BY <1>2, <1>4, StoreStays
  <1> QED
    BY <1>5, <1>6, Zenon

\* beginStateReconcile().
LEMMA ReconcileGood ==
  ASSUME NEW k \in Keys, NEW t, NEW r, NEW s, NEW v, NEW b, PageHolds(k, t, r, s, v)
  PROVE  GoodOutcome(beginStateReconcile(k, s, v), k, t, r, s, b)
  <1>1. PICK w : w = [v EXCEPT !.awaiting = TRUE]
    OBVIOUS
  <1>2. w \in Page /\ w.conflict = FALSE
    BY <1>1 DEF PageHolds, Page
  <1>3. PageHolds(k, t, r, s, w)
    BY <1>2 DEF PageHolds
  <1>4. beginStateReconcile(k, s, v) = requestExamStateWithRetry(k, s, w)
    BY <1>1, Zenon DEF beginStateReconcile
  <1>5. GoodOutcome(requestExamStateWithRetry(k, s, w), k, t, r, s, b)
    BY <1>3, RequestGood
  <1> QED
    BY <1>4, <1>5, Zenon

\* The event numbered next, when none is pending.
LEMMA NextEventFacts ==
  ASSUME NEW k \in Keys, NEW s \in Store, CursorOK(s, k), s.pending = <<>>,
         NEW kind \in Kinds, NEW q \in Questions \cup {NoQuestion},
         NEW a \in Answers \cup {NoAnswer},
         kind = "finalize" => q = NoQuestion /\ a = NoAnswer,
         kind # "finalize" => q \in Questions, kind = "clear" => a = NoAnswer,
         NEW e, e = NextEvent(k, s, kind, q, a)
  PROVE  /\ e \in Event /\ e.key = k /\ e.sequence = s.known + 1 /\ e.previous = s.previous
         /\ e.kind = kind /\ e.question = q /\ e.answer = a
         /\ Len(hash_answer_event(e)) = s.known + 1
         /\ IsHistory(hash_answer_event(e), k)
         /\ FinalChain(hash_answer_event(e)) <=> kind = "finalize"
  <1>1. /\ s.next \in Nat /\ s.previous \in Digest /\ s.known \in Nat
    BY StoreFields
  <1>2. /\ s.next = s.known + 1 /\ s.known = Len(s.previous) /\ IsHistory(s.previous, k)
    BY Zenon DEF CursorOK, Chain
  <1>3. /\ e \in Event /\ e.key = k /\ e.sequence = s.known + 1 /\ e.previous = s.previous
        /\ e.kind = kind /\ e.question = q /\ e.answer = a
    BY <1>1, <1>2, PipelineAssumption DEF NextEvent, Event
  <1>4. PICK h, n : h = hash_answer_event(e) /\ n = s.known + 1
    OBVIOUS
  <1>5. /\ h \in Digest /\ Len(h) = n /\ h[n] = BodyOf(e) /\ BodyOf(e) \in Body /\ h # ZeroDigest
        /\ \A i \in 1..Len(s.previous) : h[i] = s.previous[i]
    BY <1>2, <1>3, <1>4, HashFacts
  <1>6. /\ BodyOf(e).key = k /\ BodyOf(e).sequence = n /\ BodyOf(e).kind = kind
        /\ BodyOf(e).question = q /\ BodyOf(e).answer = a
    BY <1>3, <1>4 DEF BodyOf
  <1>7. IsBody(BodyOf(e), k)
    BY <1>5, <1>6 DEF IsBody
  <1>8. IsHistory(h, k)
    <2> SUFFICES ASSUME NEW i \in 1..n PROVE IsBody(h[i], k) /\ h[i].sequence = i
      BY <1>5 DEF IsHistory
    <2>1. CASE i = n
      BY <1>5, <1>6, <1>7, <2>1
    <2>2. CASE i # n
      <3>1. i \in 1..Len(s.previous)
        BY <1>1, <1>2, <1>4, <2>2
      <3> QED
        BY <1>2, <1>5, <3>1 DEF IsHistory
    <2> QED
      BY <2>1, <2>2
  <1>9. FinalChain(h) <=> kind = "finalize"
    BY <1>5, <1>6 DEF FinalChain
  <1> QED
    BY <1>3, <1>4, <1>5, <1>8, <1>9

\* The store after Numbered() has numbered event e.
WithPending(s, e, d, f) ==
    [s EXCEPT !.pending = <<e>>, !.drafts = d, !.finalize = f, !.next = s.next + 1]

\* The fields of a store with another pending event.
LEMMA WithPendingFacts ==
  ASSUME NEW s \in Store, NEW e \in Event, NEW d \in Seq(Draft), NEW f \in BOOLEAN
  PROVE  /\ WithPending(s, e, d, f) \in Store
         /\ WithPending(s, e, d, f).next = s.next + 1
         /\ WithPending(s, e, d, f).previous = s.previous
         /\ WithPending(s, e, d, f).known = s.known
         /\ WithPending(s, e, d, f).knownLast = s.knownLast
         /\ WithPending(s, e, d, f).pending = <<e>>
         /\ WithPending(s, e, d, f).drafts = d
         /\ WithPending(s, e, d, f).finalize = f
         /\ WithPending(s, e, d, f).finalized = s.finalized
         /\ WithPending(s, e, d, f).answers = s.answers
  <1>1. <<e>> \in Seq(Event)
    OBVIOUS
  <1>2. s.next + 1 \in Nat
    BY StoreFields
  <1> QED
    BY <1>1, <1>2 DEF Store, WithPending

\* The cursor is in order after an event has been numbered.
LEMMA PendingCursor ==
  ASSUME NEW k \in Keys, NEW s \in Store, CursorOK(s, k), s.pending = <<>>, NEW r \in ServerState,
         JournalOK(s, r), NEW e \in Event, e.sequence = s.known + 1, e.previous = s.previous,
         IsHistory(hash_answer_event(e), k), NEW d \in Seq(Draft), NEW f \in BOOLEAN,
         NEW n, n = WithPending(s, e, d, f)
  PROVE  /\ CursorOK(n, k) /\ JournalOK(n, r) /\ Chain(n) = hash_answer_event(e)
         /\ Prefix(Chain(s), Chain(n)) /\ Chain(s) = s.previous
  <1>1. /\ n \in Store /\ n.next = s.next + 1 /\ n.previous = s.previous /\ n.known = s.known
        /\ n.knownLast = s.knownLast /\ n.pending = <<e>>
    BY WithPendingFacts
  <1>2. /\ s.next \in Nat /\ s.known \in Nat /\ s.next = s.known + 1 /\ s.known = Len(s.previous)
        /\ s.knownLast = s.previous /\ s.previous \in Digest
    BY StoreFields, Zenon DEF CursorOK
  <1>3. <<e>> # <<>> /\ <<e>>[1] = e /\ Len(<<e>>) = 1
    OBVIOUS
  <1>4. Chain(n) = hash_answer_event(e)
    BY <1>1, <1>3, Zenon DEF Chain
  <1>5. n.next = n.known + 2
    BY <1>1, <1>2
  <1>6. CursorOK(n, k)
    <2>1. n.known = Len(n.previous) /\ n.knownLast = n.previous
      BY <1>1, <1>2
    <2>2. Len(n.pending) <= 1 /\ n.pending # <<>>
      BY <1>1, <1>3
    <2>3. n.pending[1].sequence = n.known + 1 /\ n.pending[1].previous = n.previous
      BY <1>1, <1>3
    <2> QED
      BY <1>4, <1>5, <2>1, <2>2, <2>3, Zenon DEF CursorOK
  <1>7. Chain(s) = s.previous
    BY Zenon DEF Chain
  <1>8. Prefix(s.previous, hash_answer_event(e)) /\ hash_answer_event(e) \in Digest
    BY HashFacts
  <1>9. r.last \in Digest
    BY DEF ServerState
  <1>10. StateOK(r) /\ Prefix(s.previous, r.last) /\ Prefix(r.last, s.previous)
    BY <1>7, Zenon DEF JournalOK
  <1>11. Prefix(r.last, hash_answer_event(e))
    BY <1>2, <1>8, <1>9, <1>10, PrefixTrans
  <1>12. JournalOK(n, r)
    BY <1>1, <1>4, <1>10, <1>11, Zenon DEF JournalOK
  <1> QED
    BY <1>4, <1>6, <1>7, <1>8, <1>12, Zenon

\* A draft is numbered.
LEMMA NumberedDraft ==
  ASSUME NEW k \in Keys, NEW t \in TypedSet, NEW r \in ServerState, NEW s \in Store,
         StoreOK(s, k, t), JournalOK(s, r), ~s.finalized, s.pending = <<>>, s.drafts # <<>>,
         NEW b, b = Head(s.drafts), NEW kind,
         kind = IF b.answer = NoAnswer THEN "clear" ELSE "upsert",
         NEW n, n = WithPending(s, NextEvent(k, s, kind, b.question, b.answer), Tail(s.drafts),
                                s.finalize)
  PROVE  n \in Store /\ StoreOK(n, k, t) /\ JournalOK(n, r) /\ Prefix(Chain(s), Chain(n))
  <1>1. CursorOK(s, k) /\ FinalOK(s) /\ TypedOK(s, t)
    BY Zenon DEF StoreOK
  <1>2. PICK o \in Seq(Draft) : o = s.drafts
    BY StoreFields
  <1>3. o # <<>> /\ Len(o) \in Nat /\ Len(o) # 0
    BY <1>2, EmptySeq
  <1>4. /\ b = o[1] /\ b \in Draft /\ 1 \in 1..Len(o)
        /\ Tail(o) \in Seq(Draft) /\ Len(Tail(o)) = Len(o) - 1
        /\ \A i \in 1..Len(Tail(o)) : Tail(o)[i] = o[i + 1]
    <2>1. 1 \in 1..Len(o)
      BY <1>3
    <2>2. b = o[1] /\ b \in Draft
      BY <1>2, <1>3, <2>1, ElementOfSeq, HeadTailProperties
    <2> QED
      BY <1>3, <2>1, <2>2, HeadTailProperties
  <1>5. b.question \in Questions /\ b.answer \in Answers \cup {NoAnswer}
    BY <1>4 DEF Draft
  <1>6. kind \in Kinds /\ kind # "finalize" /\ (kind = "clear" => b.answer = NoAnswer)
    BY DEF Kinds
  <1>7. PICK e : e = NextEvent(k, s, kind, b.question, b.answer)
    OBVIOUS
  <1>8. /\ e \in Event /\ e.key = k /\ e.sequence = s.known + 1 /\ e.previous = s.previous
        /\ e.kind = kind /\ e.question = b.question /\ e.answer = b.answer
        /\ IsHistory(hash_answer_event(e), k)
        /\ ~FinalChain(hash_answer_event(e))
    BY <1>1, <1>5, <1>6, <1>7, NextEventFacts
  <1>9. PICK d \in Seq(Draft) : d = Tail(o)
    BY <1>4
  <1>10. s.finalize \in BOOLEAN /\ n = WithPending(s, e, d, s.finalize)
    BY <1>2, <1>7, <1>9, StoreFields
  <1>11. /\ CursorOK(n, k) /\ JournalOK(n, r) /\ Chain(n) = hash_answer_event(e)
         /\ Prefix(Chain(s), Chain(n)) /\ Chain(s) = s.previous
    BY <1>1, <1>8, <1>10, PendingCursor
  <1>12. /\ n \in Store /\ n.previous = s.previous /\ n.pending = <<e>> /\ n.drafts = d
         /\ n.finalize = s.finalize /\ n.finalized = s.finalized /\ n.answers = s.answers
    BY <1>8, <1>10, WithPendingFacts
  <1>13. FinalOK(n)
    BY <1>1, <1>8, <1>11, <1>12, Zenon DEF FinalOK
  <1>14. TypedOK(n, t)
    <2> SUFFICES ASSUME NEW q \in Questions
                 PROVE  /\ \A i \in DraftOf(n, q) : n.drafts[i].answer = t[q]
                        /\ DraftOf(n, q) = {} => AnswerIn(Chain(n), q) = t[q]
                        /\ q \in DOMAIN n.answers => n.answers[q] = t[q]
      BY DEF TypedOK
    <2>1. /\ \A i \in DraftOf(s, q) : s.drafts[i].answer = t[q]
          /\ DraftOf(s, q) = {} => AnswerIn(Chain(s), q) = t[q]
          /\ q \in DOMAIN s.answers => s.answers[q] = t[q]
      BY <1>1, Zenon DEF TypedOK
    <2>2. ASSUME NEW i \in DraftOf(n, q)
          PROVE  i + 1 \in DraftOf(s, q) /\ n.drafts[i] = s.drafts[i + 1]
      <3>1. i \in 1..Len(d) /\ d[i].question = q
        BY <1>12 DEF DraftOf
      <3>2. i + 1 \in 1..Len(o) /\ d[i] = o[i + 1]
        BY <1>3, <1>4, <1>9, <3>1
      <3> QED
        BY <1>2, <1>12, <3>1, <3>2 DEF DraftOf
    <2>3. \A i \in DraftOf(n, q) : n.drafts[i].answer = t[q]
      BY <2>1, <2>2
    <2>4. AnswerIn(Chain(n), q) = IF e.question = q THEN e.answer ELSE AnswerIn(e.previous, q)
      BY <1>8, <1>11, AnswerOfEvent
    <2>5. ASSUME DraftOf(n, q) = {} PROVE AnswerIn(Chain(n), q) = t[q]
      <3>1. CASE e.question = q
        <4>1. 1 \in DraftOf(s, q)
          BY <1>2, <1>4, <1>8, <3>1 DEF DraftOf
        <4>2. b.answer = t[q]
          BY <1>2, <1>4, <2>1, <4>1
        <4> QED
          BY <1>8, <2>4, <3>1, <4>2
      <3>2. CASE e.question # q
        <4>1. ASSUME NEW i \in DraftOf(s, q) PROVE FALSE
          <5>1. i \in 1..Len(o) /\ o[i].question = q /\ i # 1
            BY <1>2, <1>4, <1>8, <3>2 DEF DraftOf
          <5>2. i - 1 \in 1..Len(d) /\ d[i - 1] = o[(i - 1) + 1] /\ (i - 1) + 1 = i
            BY <1>3, <1>4, <1>9, <5>1
          <5>3. i - 1 \in DraftOf(n, q)
            BY <1>12, <5>1, <5>2 DEF DraftOf
          <5> QED
            BY <2>5, <5>3
        <4>2. DraftOf(s, q) = {}
          BY <4>1
        <4> QED
          BY <1>8, <1>11, <2>1, <2>4, <3>2, <4>2
      <3> QED
        BY <3>1, <3>2
    <2> QED
      BY <1>12, <2>1, <2>3, <2>5
  <1> QED
    BY <1>11, <1>12, <1>13, <1>14, Zenon DEF StoreOK

\* The finalize event is numbered.
LEMMA NumberedFinal ==
  ASSUME NEW k \in Keys, NEW t \in TypedSet, NEW r \in ServerState, NEW s \in Store,
         StoreOK(s, k, t), JournalOK(s, r), ~s.finalized, s.pending = <<>>, s.drafts = <<>>,
         NEW n, n = WithPending(s, NextEvent(k, s, "finalize", NoQuestion, NoAnswer), s.drafts,
                                FALSE)
  PROVE  n \in Store /\ StoreOK(n, k, t) /\ JournalOK(n, r) /\ Prefix(Chain(s), Chain(n))
  <1>1. CursorOK(s, k) /\ FinalOK(s) /\ TypedOK(s, t)
    BY Zenon DEF StoreOK
  <1>2. PICK e : e = NextEvent(k, s, "finalize", NoQuestion, NoAnswer)
    OBVIOUS
  <1>3. "finalize" \in Kinds
    BY DEF Kinds
  <1>4. PICK f : f = "finalize"
    OBVIOUS
  <1>5. /\ e \in Event /\ e.key = k /\ e.sequence = s.known + 1 /\ e.previous = s.previous
        /\ e.question = NoQuestion
        /\ IsHistory(hash_answer_event(e), k)
    <2>1. f # "clear" /\ f \in Kinds
      BY <1>3, <1>4
    <2>2. e = NextEvent(k, s, f, NoQuestion, NoAnswer)
      BY <1>2, <1>4
    <2>3. PICK q \in Questions \cup {NoQuestion} : q = NoQuestion
      OBVIOUS
    <2>4. PICK a \in Answers \cup {NoAnswer} : a = NoAnswer
      OBVIOUS
    <2> QED
      BY <1>1, <1>4, <2>1, <2>2, <2>3, <2>4, NextEventFacts
  <1>6. s.drafts \in Seq(Draft) /\ n = WithPending(s, e, s.drafts, FALSE)
    BY <1>2, StoreFields
  <1>7. /\ CursorOK(n, k) /\ JournalOK(n, r) /\ Chain(n) = hash_answer_event(e)
        /\ Prefix(Chain(s), Chain(n)) /\ Chain(s) = s.previous
    BY <1>1, <1>5, <1>6, PendingCursor
  <1>8. /\ n \in Store /\ n.previous = s.previous /\ n.pending = <<e>> /\ n.drafts = s.drafts
        /\ n.finalize = FALSE /\ n.finalized = s.finalized /\ n.answers = s.answers
    <2>1. PICK x \in BOOLEAN : x = FALSE
      OBVIOUS
    <2>2. n = WithPending(s, e, s.drafts, x)
      BY <1>6, <2>1, Zenon
    <2>3. /\ n \in Store /\ n.previous = s.previous /\ n.pending = <<e>> /\ n.drafts = s.drafts
          /\ n.finalize = x /\ n.finalized = s.finalized /\ n.answers = s.answers
      <3>1. PICK d \in Seq(Draft) : d = s.drafts
        BY <1>6
      <3>2. n = WithPending(s, e, d, x) /\ e \in Event
        BY <1>5, <2>2, <3>1, Zenon
      <3>3. /\ n \in Store /\ n.previous = s.previous /\ n.pending = <<e>> /\ n.drafts = d
            /\ n.finalize = x /\ n.finalized = s.finalized /\ n.answers = s.answers
        <4>1. e \in Event
          BY <3>2
        <4>2. /\ WithPending(s, e, d, x) \in Store
              /\ WithPending(s, e, d, x).previous = s.previous
              /\ WithPending(s, e, d, x).pending = <<e>>
              /\ WithPending(s, e, d, x).drafts = d
              /\ WithPending(s, e, d, x).finalize = x
              /\ WithPending(s, e, d, x).finalized = s.finalized
              /\ WithPending(s, e, d, x).answers = s.answers
          BY <4>1, WithPendingFacts
        <4> QED
          BY <3>2, <4>2, Zenon
      <3> QED
        BY <3>1, <3>3, Zenon
    <2> QED
      BY <2>1, <2>3, Zenon
  <1>9. FinalOK(n)
    BY <1>1, <1>8, Zenon DEF FinalOK
  <1>10. TypedOK(n, t)
    <2> SUFFICES ASSUME NEW q \in Questions
                 PROVE  /\ \A i \in DraftOf(n, q) : n.drafts[i].answer = t[q]
                        /\ DraftOf(n, q) = {} => AnswerIn(Chain(n), q) = t[q]
                        /\ q \in DOMAIN n.answers => n.answers[q] = t[q]
      BY DEF TypedOK
    <2>1. /\ \A i \in DraftOf(s, q) : s.drafts[i].answer = t[q]
          /\ DraftOf(s, q) = {} => AnswerIn(Chain(s), q) = t[q]
          /\ q \in DOMAIN s.answers => s.answers[q] = t[q]
      BY <1>1, Zenon DEF TypedOK
    <2>2. DraftOf(n, q) = DraftOf(s, q)
      BY <1>8, Zenon DEF DraftOf
    <2>3. AnswerIn(Chain(n), q) = IF e.question = q THEN e.answer ELSE AnswerIn(e.previous, q)
      BY <1>5, <1>7, AnswerOfEvent
    <2>4. AnswerIn(Chain(n), q) = AnswerIn(Chain(s), q)
      BY <1>5, <1>7, <2>3, PipelineAssumption
    <2> QED
      BY <1>8, <2>1, <2>2, <2>4, Zenon
  <1> QED
    BY <1>7, <1>8, <1>9, <1>10, Zenon DEF StoreOK

\* Numbered(): a draft or the finalize event is numbered when nothing is pending.
LEMMA NumberedGood ==
  ASSUME NEW k \in Keys, NEW t \in TypedSet, NEW r \in ServerState, NEW s \in Store,
         StoreOK(s, k, t), JournalOK(s, r), ~s.finalized
  PROVE  /\ Numbered(k, s) \in Store /\ StoreOK(Numbered(k, s), k, t)
         /\ JournalOK(Numbered(k, s), r) /\ Prefix(Chain(s), Chain(Numbered(k, s)))
         /\ Numbered(k, s).previous = s.previous
  <1> DEFINE Goal(n) == /\ n \in Store /\ StoreOK(n, k, t) /\ JournalOK(n, r)
                        /\ Prefix(Chain(s), Chain(n)) /\ n.previous = s.previous
  <1>1. Goal(s)
    <2>1. CursorOK(s, k)
      BY Zenon DEF StoreOK
    <2>2. Prefix(Chain(s), Chain(s))
      BY <2>1, ChainFacts, PrefixRefl
    <2> QED
      BY <2>2
  <1>2. ASSUME s.pending = <<>>, s.drafts # <<>>
        PROVE  LET d == Head(s.drafts)
                   kind == IF d.answer = NoAnswer THEN "clear" ELSE "upsert"
               IN Goal([s EXCEPT !.pending = <<NextEvent(k, s, kind, d.question, d.answer)>>,
                                 !.drafts = Tail(s.drafts), !.next = s.next + 1])
    <2>1. PICK d : d = Head(s.drafts)
      OBVIOUS
    <2>2. PICK kind : kind = IF d.answer = NoAnswer THEN "clear" ELSE "upsert"
      OBVIOUS
    <2>3. PICK e : e = NextEvent(k, s, kind, d.question, d.answer)
      OBVIOUS
    <2>4. PICK n : n = [s EXCEPT !.pending = <<e>>, !.drafts = Tail(s.drafts), !.next = s.next + 1]
      OBVIOUS
    <2>5. n = WithPending(s, e, Tail(s.drafts), s.finalize)
      BY <2>4 DEF WithPending, Store
    <2>6. n \in Store /\ StoreOK(n, k, t) /\ JournalOK(n, r) /\ Prefix(Chain(s), Chain(n))
      BY <1>2, <2>1, <2>2, <2>3, <2>5, NumberedDraft
    <2>7. n.previous = s.previous
      BY <2>4 DEF Store
    <2>8. Goal(n)
      BY <2>6, <2>7
    <2> HIDE DEF Goal
    <2> QED
      BY <2>1, <2>2, <2>3, <2>4, <2>8, Zenon
  <1>3. ASSUME s.pending = <<>>, s.drafts = <<>>
        PROVE  Goal([s EXCEPT !.pending = <<NextEvent(k, s, "finalize", NoQuestion, NoAnswer)>>,
                              !.finalize = FALSE, !.next = s.next + 1])
    <2>1. PICK e : e = NextEvent(k, s, "finalize", NoQuestion, NoAnswer)
      OBVIOUS
    <2>2. PICK n : n = [s EXCEPT !.pending = <<e>>, !.finalize = FALSE, !.next = s.next + 1]
      OBVIOUS
    <2>3. n = WithPending(s, e, s.drafts, FALSE)
      BY <2>2 DEF WithPending, Store
    <2>4. n \in Store /\ StoreOK(n, k, t) /\ JournalOK(n, r) /\ Prefix(Chain(s), Chain(n))
      BY <1>3, <2>1, <2>3, NumberedFinal
    <2>5. n.previous = s.previous
      BY <2>2 DEF Store
    <2>6. Goal(n)
      BY <2>4, <2>5
    <2> HIDE DEF Goal
    <2> QED
      BY <2>1, <2>2, <2>6, Zenon
  <1> HIDE DEF Goal
  <1>4. Goal(Numbered(k, s))
    BY <1>1, <1>2, <1>3, Zenon DEF Numbered
  <1> QED
    BY <1>4 DEF Goal

\* The event posted is the pending one: its predecessor is the one the page knows.
LEMMA HeadStays ==
  ASSUME NEW k \in Keys, NEW n \in Store, CursorOK(n, k), n.pending # <<>>
  PROVE  /\ RebasedHead(n) = n.pending[1]
         /\ [n EXCEPT !.pending[1] = RebasedHead(n)] = n
         /\ n.pending[1] \in Event /\ n.pending[1].key = k
         /\ n.pending[1].sequence = Len(hash_answer_event(n.pending[1]))
         /\ Chain(n) = hash_answer_event(n.pending[1])
  <1>1. PICK e \in Event : e = n.pending[1]
    BY ChainFacts
  <1>2. /\ Head(n.pending) = e /\ Chain(n) = hash_answer_event(e) /\ Len(n.pending) = 1
        /\ Len(Chain(n)) = n.known + 1 /\ Chain(n) \in Digest
    BY <1>1, ChainFacts
  <1>3. /\ e.sequence = n.known + 1 /\ e.previous = n.previous /\ n.known = Len(n.previous)
        /\ IsHistory(Chain(n), k)
    BY <1>1, Zenon DEF CursorOK
  <1>4. n.known \in Nat /\ n.previous \in Digest /\ n.pending \in Seq(Event)
    BY StoreFields
  <1>5. e.sequence = 1 => n.previous = ZeroDigest
    BY <1>3, <1>4, PrefixZero
  <1>6. (IF e.sequence = 1 THEN ZeroDigest ELSE n.previous) = e.previous
    BY <1>3, <1>5
  <1>7. RebasedHead(n) = [e EXCEPT !.previous = e.previous]
    BY <1>2, <1>6, Zenon DEF RebasedHead
  <1>8. RebasedHead(n) = e
    BY <1>7 DEF Event
  <1>9. [n EXCEPT !.pending[1] = e] = n
    <2>1. [n.pending EXCEPT ![1] = e] = n.pending
      BY <1>1, <1>2, <1>4
    <2>2. [n EXCEPT !.pending[1] = e] = [n EXCEPT !.pending = [n.pending EXCEPT ![1] = e]]
      BY Zenon
    <2>3. [n EXCEPT !.pending = n.pending] = n
      BY DEF Store
    <2> QED
      BY <2>1, <2>2, <2>3, Zenon
  <1>10. e.key = k
    <2>1. hash_answer_event(e)[Len(e.previous) + 1] = BodyOf(e)
          /\ Len(hash_answer_event(e)) = Len(e.previous) + 1 /\ Len(e.previous) \in Nat
      BY HashFacts
    <2>2. Len(e.previous) + 1 \in 1..Len(Chain(n))
      BY <1>2, <2>1
    <2>3. IsBody(BodyOf(e), k)
      BY <1>2, <1>3, <2>1, <2>2 DEF IsHistory
    <2> QED
      BY <2>3 DEF IsBody, BodyOf
  <1> QED
    BY <1>1, <1>2, <1>3, <1>8, <1>9, <1>10, Zenon

\* flushAnswerBridge().
LEMMA FlushGood ==
  ASSUME NEW k \in Keys, NEW t \in TypedSet, NEW r \in ServerState, NEW s, NEW v, NEW b,
         PageHolds(k, t, r, s, v)
  PROVE  GoodOutcome(flushAnswerBridge(k, s, v), k, t, r, s, b)
  <1> DEFINE Goal(o) == GoodOutcome(o, k, t, r, s, b)
  <1>1. s \in Store /\ v \in Page /\ v.conflict = FALSE /\ StoreOK(s, k, t) /\ JournalOK(s, r)
    BY Zenon DEF PageHolds
  <1>2. Goal(Outcome(s, v, <<>>))
    BY <1>1, StoreStays, PostsNothing
  <1>3. Goal(requestExamStateWithRetry(k, s, v))
    BY RequestGood
  <1>4. PICK n : n = Numbered(k, s)
    OBVIOUS
  <1>5. PICK e : e = RebasedHead(n)
    OBVIOUS
  <1>6. ASSUME ~s.finalized, n.pending # <<>>
        PROVE  Goal(Outcome([n EXCEPT !.pending[1] = e], [v EXCEPT !.flight = {e}], <<PostEvent(e)>>))
    <2>1. /\ n \in Store /\ StoreOK(n, k, t) /\ JournalOK(n, r)
          /\ Prefix(Chain(s), Chain(n)) /\ n.previous = s.previous
      BY <1>1, <1>4, <1>6, NumberedGood
    <2>2. CursorOK(n, k)
      BY <2>1, Zenon DEF StoreOK
    <2>3. /\ [n EXCEPT !.pending[1] = e] = n /\ e \in Event /\ e.key = k
          /\ e.sequence = Len(hash_answer_event(e)) /\ Chain(n) = hash_answer_event(e)
      BY <1>5, <1>6, <2>1, <2>2, HeadStays
    <2>4. PICK w : w = [v EXCEPT !.flight = {e}]
      OBVIOUS
    <2>5. w \in Page /\ w.conflict = FALSE
      BY <1>1, <2>3, <2>4 DEF Page
    <2>6. PageHolds(k, t, r, n, w)
      BY <2>1, <2>5, Zenon DEF PageHolds
    <2>7. hash_answer_event(e) \in Digest
      BY <2>3, HashFacts
    <2>8. PostedOK(<<PostEvent(e)>>, k, Chain(n))
      BY <2>3, <2>7, PrefixRefl, PostsEvent
    <2>9. PICK p : p = <<PostEvent(e)>>
      OBVIOUS
    <2>10. /\ Outcome(n, w, p).store = n /\ Outcome(n, w, p).page = w
           /\ Outcome(n, w, p).posted = p
      BY OutcomeFields
    <2>11. Goal(Outcome(n, w, p))
      BY <2>1, <2>6, <2>8, <2>9, <2>10, Zenon DEF GoodOutcome
    <2> HIDE DEF Goal
    <2> QED
      BY <2>3, <2>4, <2>9, <2>11, Zenon
  <1> HIDE DEF Goal
  <1>7. Goal(flushAnswerBridge(k, s, v))
    BY <1>2, <1>3, <1>4, <1>5, <1>6, Zenon DEF flushAnswerBridge
  <1> QED
    BY <1>7 DEF Goal

\* The chain ends with the finalize event when it is the one pending.
LEMMA PendingFinal ==
  ASSUME NEW s \in Store, NEW k, CursorOK(s, k), s.pending # <<>>
  PROVE  FinalChain(Chain(s)) <=> s.pending[1].kind = "finalize"
  <1>1. PICK e \in Event : e = s.pending[1] /\ Chain(s) = hash_answer_event(e)
    BY ChainFacts
  <1>2. /\ Len(e.previous) \in Nat /\ Len(Chain(s)) = Len(e.previous) + 1
        /\ Chain(s)[Len(e.previous) + 1] = BodyOf(e) /\ Chain(s) # ZeroDigest
    BY <1>1, HashFacts
  <1>3. BodyOf(e).kind = e.kind
    BY DEF BodyOf
  <1> QED
    BY <1>1, <1>2, <1>3 DEF FinalChain

\* An outcome over a store that has grown out of s.
LEMMA GoodOver ==
  ASSUME NEW k, NEW t, NEW r, NEW s, NEW x, NEW b, NEW o, GoodOutcome(o, k, t, r, x, b),
         Chain(s) \in Digest, Chain(x) \in Digest, Prefix(Chain(s), Chain(x)),
         x.previous = s.previous \/ x.previous = b
  PROVE  GoodOutcome(o, k, t, r, s, b)
  <1>1. /\ PageHolds(k, t, r, o.store, o.page) /\ Prefix(Chain(x), Chain(o.store))
        /\ o.store.previous = x.previous \/ o.store.previous = b
        /\ PostedOK(o.posted, k, Chain(o.store))
    BY Zenon DEF GoodOutcome
  <1>2. o.store \in Store /\ CursorOK(o.store, k)
    BY <1>1, Zenon DEF PageHolds, StoreOK
  <1>3. Chain(o.store) \in Digest
    BY <1>2, ChainFacts
  <1>4. Prefix(Chain(s), Chain(o.store))
    BY <1>1, <1>3, PrefixTrans
  <1> QED
    BY <1>1, <1>4, Zenon DEF GoodOutcome

\* A store with the finalize request.
Submitting(x) == [x EXCEPT !.finalize = TRUE]

\* Only the wish to submit differs.
LEMMA SubmittingFacts ==
  ASSUME NEW x \in Store
  PROVE  /\ Submitting(x) \in Store
         /\ Submitting(x).next = x.next /\ Submitting(x).previous = x.previous
         /\ Submitting(x).known = x.known /\ Submitting(x).knownLast = x.knownLast
         /\ Submitting(x).pending = x.pending /\ Submitting(x).drafts = x.drafts
         /\ Submitting(x).finalized = x.finalized /\ Submitting(x).answers = x.answers
  BY DEF Store, Submitting

\* A session that is not submitted has a chain without the finalize event.
LEMMA OpenChain ==
  ASSUME NEW s \in Store, NEW k, CursorOK(s, k), FinalOK(s), ~submitted(s)
  PROVE  ~FinalChain(Chain(s))
  <1>1. ~s.finalized
    BY Zenon DEF submitted
  <1>2. CASE s.pending = <<>>
    <2>1. Chain(s) = s.previous /\ s.finalized = FinalChain(s.previous)
      BY <1>2, Zenon DEF Chain, FinalOK
    <2> QED
      BY <1>1, <2>1, Zenon
  <1>3. CASE s.pending # <<>>
    <2>1. Len(s.pending) = 1
      BY <1>3, ChainFacts
    <2>2. 1 \in 1..Len(s.pending)
      BY <2>1
    <2>3. s.pending[1].kind # "finalize"
      BY <2>2, Zenon DEF submitted
    <2> QED
      BY <1>3, <2>3, PendingFinal, Zenon
  <1> QED
    BY <1>2, <1>3

\* submitResponse().
LEMMA SubmitGood ==
  ASSUME NEW k \in Keys, NEW t \in TypedSet, NEW r \in ServerState, NEW s, NEW v, NEW b,
         PageHolds(k, t, r, s, v), ~submitted(s)
  PROVE  GoodOutcome(submitResponse(k, s, v), k, t, r, s, b)
  <1>1. /\ s \in Store /\ v \in Page /\ v.conflict = FALSE /\ JournalOK(s, r)
        /\ CursorOK(s, k) /\ FinalOK(s) /\ TypedOK(s, t)
    BY Zenon DEF PageHolds, StoreOK
  <1>2. PICK x : x = ensureDurableAnswers(s)
    OBVIOUS
  <1>3. DraftedAs(s, t, Questions) /\ \A q \in Questions : q \in DOMAIN s.answers => s.answers[q] = t[q]
    BY <1>1, Zenon DEF DraftedAs, TypedOK
  <1>4. SameButDrafts(x, s) /\ DraftedAs(x, t, Questions) /\ StillDrafted(x, s)
    BY <1>1, <1>2, <1>3, EnsureDrafts
  <1>5. x \in Store
    BY <1>4, Zenon DEF SameButDrafts
  <1>6. PICK y : y = Submitting(x)
    OBVIOUS
  <1>7. /\ y \in Store /\ y.next = s.next /\ y.previous = s.previous /\ y.known = s.known
        /\ y.knownLast = s.knownLast /\ y.pending = s.pending /\ y.drafts = x.drafts
        /\ y.finalized = s.finalized /\ y.answers = s.answers
    <2>1. /\ y \in Store /\ y.next = x.next /\ y.previous = x.previous /\ y.known = x.known
          /\ y.knownLast = x.knownLast /\ y.pending = x.pending /\ y.drafts = x.drafts
          /\ y.finalized = x.finalized /\ y.answers = x.answers
      BY <1>5, <1>6, SubmittingFacts
    <2> QED
      BY <1>4, <2>1, Zenon DEF SameButDrafts
  <1>8. Chain(y) = Chain(s)
    BY <1>7, Zenon DEF Chain
  <1>9. CursorOK(y, k)
    BY <1>1, <1>7, <1>8, Zenon DEF CursorOK
  <1>10. JournalOK(y, r)
    BY <1>1, <1>7, <1>8, Zenon DEF JournalOK
  <1>11. ~FinalChain(Chain(s))
    BY <1>1, OpenChain
  <1>12. FinalOK(y)
    BY <1>1, <1>7, <1>8, <1>11, Zenon DEF FinalOK
  <1>13. TypedOK(y, t)
    <2> SUFFICES ASSUME NEW q \in Questions
                 PROVE  /\ \A i \in DraftOf(y, q) : y.drafts[i].answer = t[q]
                        /\ DraftOf(y, q) = {} => AnswerIn(Chain(y), q) = t[q]
                        /\ q \in DOMAIN y.answers => y.answers[q] = t[q]
      BY DEF TypedOK
    <2>1. DraftOf(y, q) = DraftOf(x, q)
      BY <1>7, Zenon DEF DraftOf
    <2>2. \A i \in DraftOf(y, q) : y.drafts[i].answer = t[q]
      BY <1>4, <1>7, <2>1, Zenon DEF DraftedAs
    <2>3. DraftOf(y, q) = {} => AnswerIn(Chain(s), q) = t[q]
      BY <1>1, <1>4, <2>1, Zenon DEF StillDrafted, TypedOK
    <2>4. q \in DOMAIN y.answers => y.answers[q] = t[q]
      BY <1>3, <1>7, Zenon
    <2> QED
      BY <1>8, <2>2, <2>3, <2>4, Zenon
  <1>14. PICK w : w = [v EXCEPT !.edit = v.edit \/ ensureDurableAnswers(s) # s]
    OBVIOUS
  <1>15. w \in Page /\ w.conflict = FALSE
    <2>1. PICK p \in BOOLEAN : p = (v.edit \/ ensureDurableAnswers(s) # s)
      OBVIOUS
    <2>2. w = [v EXCEPT !.edit = p]
      BY <1>14, <2>1, Zenon
    <2> QED
      BY <1>1, <2>2 DEF Page
  <1>16. PageHolds(k, t, r, y, w)
    BY <1>7, <1>9, <1>10, <1>12, <1>13, <1>15, Zenon DEF PageHolds, StoreOK
  <1>17. GoodOutcome(flushAnswerBridge(k, y, w), k, t, r, y, b)
    BY <1>16, FlushGood
  <1>18. submitResponse(k, s, v) = flushAnswerBridge(k, y, w)
    BY <1>2, <1>6, <1>14, Zenon DEF submitResponse, Submitting
  <1>19. Chain(s) \in Digest
    BY <1>1, ChainFacts
  <1>20. Chain(y) \in Digest /\ Prefix(Chain(s), Chain(y)) /\ y.previous = s.previous
    BY <1>7, <1>8, <1>19, PrefixRefl
  <1>21. GoodOutcome(flushAnswerBridge(k, y, w), k, t, r, s, b)
    BY <1>17, <1>19, <1>20, GoodOver
  <1> QED
    BY <1>18, <1>21, Zenon

\* The edit timer: flushAnswerBridge() with the timer cleared.
LEMMA EditGood ==
  ASSUME NEW k \in Keys, NEW t \in TypedSet, NEW r \in ServerState, NEW s, NEW v, NEW b,
         PageHolds(k, t, r, s, v)
  PROVE  GoodOutcome(flushAnswerBridge(k, s, [v EXCEPT !.edit = FALSE]), k, t, r, s, b)
  <1>1. PICK w : w = [v EXCEPT !.edit = FALSE]
    OBVIOUS
  <1>2. w \in Page /\ w.conflict = FALSE
    BY <1>1 DEF PageHolds, Page
  <1>3. PageHolds(k, t, r, s, w)
    BY <1>2 DEF PageHolds
  <1>4. GoodOutcome(flushAnswerBridge(k, s, w), k, t, r, s, b)
    BY <1>3, FlushGood
  <1> QED
    BY <1>1, <1>4, Zenon

\* The ACK timer.
LEMMA TimeoutGood ==
  ASSUME NEW k \in Keys, NEW t \in TypedSet, NEW r \in ServerState, NEW s, NEW v, NEW b,
         PageHolds(k, t, r, s, v)
  PROVE  GoodOutcome(ackTimeout(k, s, v), k, t, r, s, b)
  <1>1. PICK w : w = [v EXCEPT !.flight = {}, !.retry = TRUE]
    OBVIOUS
  <1>2. w \in Page /\ w.conflict = FALSE
    BY <1>1 DEF PageHolds, Page
  <1>3. PageHolds(k, t, r, s, w)
    BY <1>2 DEF PageHolds
  <1>4. GoodOutcome(beginStateReconcile(k, s, w), k, t, r, s, b)
    BY <1>3, ReconcileGood
  <1>5. GoodOutcome(Outcome(s, w, <<>>), k, t, r, s, b)
    BY <1>2, StoreStays, PostsNothing
  <1> QED
    BY <1>1, <1>4, <1>5, Zenon DEF ackTimeout

\* The retry timer.
LEMMA RetryGood ==
  ASSUME NEW k \in Keys, NEW t \in TypedSet, NEW r \in ServerState, NEW s, NEW v, NEW b,
         PageHolds(k, t, r, s, v)
  PROVE  GoodOutcome(retryTimer(k, s, v), k, t, r, s, b)
  <1>1. PICK w : w = [v EXCEPT !.retry = FALSE]
    OBVIOUS
  <1>2. w \in Page /\ w.conflict = FALSE
    BY <1>1 DEF PageHolds, Page
  <1>3. PageHolds(k, t, r, s, w)
    BY <1>2 DEF PageHolds
  <1>4. GoodOutcome(flushAnswerBridge(k, s, w), k, t, r, s, b)
    BY <1>3, FlushGood
  <1>5. GoodOutcome(Outcome(s, w, <<>>), k, t, r, s, b)
    BY <1>2, StoreStays, PostsNothing
  <1> QED
    BY <1>1, <1>4, <1>5, Zenon DEF retryTimer

\* A store whose pending event is acknowledged: g tells whether it was the last.
ShiftedTo(s, h, n, f, g) ==
    [s EXCEPT !.pending = <<>>, !.previous = h, !.known = n, !.knownLast = h,
              !.finalize = f, !.finalized = g]

\* The fields of a store whose pending event is acknowledged.
LEMMA ShiftedFacts ==
  ASSUME NEW s \in Store, NEW h \in Digest, NEW n \in Nat, NEW f \in BOOLEAN, NEW g \in BOOLEAN
  PROVE  /\ ShiftedTo(s, h, n, f, g) \in Store
         /\ ShiftedTo(s, h, n, f, g).next = s.next
         /\ ShiftedTo(s, h, n, f, g).previous = h
         /\ ShiftedTo(s, h, n, f, g).known = n
         /\ ShiftedTo(s, h, n, f, g).knownLast = h
         /\ ShiftedTo(s, h, n, f, g).pending = <<>>
         /\ ShiftedTo(s, h, n, f, g).drafts = s.drafts
         /\ ShiftedTo(s, h, n, f, g).finalize = f
         /\ ShiftedTo(s, h, n, f, g).finalized = g
         /\ ShiftedTo(s, h, n, f, g).answers = s.answers
  <1>1. <<>> \in Seq(Event)
    BY EmptySeq
  <1> QED
    BY <1>1 DEF Store, ShiftedTo

\* The page stays in order when the journal has the pending event and the cursor
\* moves to it.
LEMMA ShiftedGood ==
  ASSUME NEW k \in Keys, NEW t \in TypedSet, NEW r \in ServerState, NEW s \in Store,
         StoreOK(s, k, t), JournalOK(s, r), s.pending # <<>>, r.last = Chain(s),
         NEW f \in BOOLEAN, NEW g \in BOOLEAN, NEW x,
         g = FinalChain(Chain(s)), f => s.finalize,
         x = ShiftedTo(s, Chain(s), s.known + 1, f, g)
  PROVE  /\ x \in Store /\ StoreOK(x, k, t) /\ JournalOK(x, r)
         /\ Chain(x) = Chain(s) /\ x.previous = Chain(s)
  <1>1. CursorOK(s, k) /\ FinalOK(s) /\ TypedOK(s, t)
    BY Zenon DEF StoreOK
  <1>2. /\ Chain(s) \in Digest /\ s.known \in Nat /\ s.known + 1 \in Nat
        /\ Len(Chain(s)) = s.known + 1 /\ s.next \in Nat
    BY <1>1, ChainFacts, StoreFields
  <1>3. /\ x \in Store /\ x.next = s.next /\ x.previous = Chain(s) /\ x.known = s.known + 1
        /\ x.knownLast = Chain(s) /\ x.pending = <<>> /\ x.drafts = s.drafts /\ x.finalize = f
        /\ x.finalized = g /\ x.answers = s.answers
    BY <1>2, ShiftedFacts
  <1>4. Chain(x) = Chain(s)
    BY <1>3, Zenon DEF Chain
  <1>5. CursorOK(x, k)
    <2>1. s.next = s.known + 2 /\ IsHistory(Chain(s), k)
      BY <1>1, Zenon DEF CursorOK
    <2>2. x.next = x.known + 1
      BY <1>2, <1>3, <2>1
    <2>3. Len(x.pending) <= 1
      BY <1>3, EmptySeq
    <2> QED
      BY <1>2, <1>3, <1>4, <2>1, <2>2, <2>3, Zenon DEF CursorOK
  <1>6. FinalOK(x)
    <2>1. FinalChain(Chain(x)) => x.drafts = <<>> /\ ~x.finalize
      BY <1>1, <1>3, <1>4, Zenon DEF FinalOK
    <2>2. x.finalized = FinalChain(x.previous)
      BY <1>3, Zenon
    <2> QED
      BY <1>3, <2>1, <2>2, Zenon DEF FinalOK
  <1>7. TypedOK(x, t)
    <2> SUFFICES ASSUME NEW q \in Questions
                 PROVE  /\ \A i \in DraftOf(x, q) : x.drafts[i].answer = t[q]
                        /\ DraftOf(x, q) = {} => AnswerIn(Chain(x), q) = t[q]
                        /\ q \in DOMAIN x.answers => x.answers[q] = t[q]
      BY DEF TypedOK
    <2>1. DraftOf(x, q) = DraftOf(s, q)
      BY <1>3, Zenon DEF DraftOf
    <2>2. /\ \A i \in DraftOf(s, q) : s.drafts[i].answer = t[q]
          /\ DraftOf(s, q) = {} => AnswerIn(Chain(s), q) = t[q]
          /\ q \in DOMAIN s.answers => s.answers[q] = t[q]
      BY <1>1, Zenon DEF TypedOK
    <2> QED
      BY <1>3, <1>4, <2>1, <2>2, Zenon
  <1>8. JournalOK(x, r)
    <2>1. Prefix(Chain(s), Chain(s))
      BY <1>2, PrefixRefl
    <2> QED
      BY <1>3, <1>4, <2>1, Zenon DEF JournalOK
  <1> QED
    BY <1>3, <1>4, <1>5, <1>6, <1>7, <1>8, Zenon DEF StoreOK

\* Where an acknowledgement may move the cursor to.
AckCursor(k, s, ack) == IF IsDurable(ack) /\ ack.key = k THEN ack.hash ELSE s.previous

\* A durable acknowledgement is about what the journal has.
AckKnown(ack, k, last) ==
    IsDurable(ack) /\ ack.key = k =>
        /\ ack.sequence = Len(ack.hash) /\ Prefix(ack.hash, last)
        /\ ack.sequence <= ack.highest /\ ack.highest <= Len(last)

\* A durable acknowledgement of the pending event: the journal's last event.
LEMMA AckIsCurrent ==
  ASSUME NEW k \in Keys, NEW t \in TypedSet, NEW r \in ServerState, NEW s, NEW v,
         NEW ack \in AckMessage, PageHolds(k, t, r, s, v), AckIsForHead(k, s, v, ack),
         ack.status \in Durable, AckKnown(ack, k, r.last)
  PROVE  /\ s.pending # <<>> /\ ack.hash = Chain(s) /\ r.last = Chain(s)
         /\ ack.sequence = s.known + 1 /\ ack.highest = ack.sequence /\ ack.key = k
  <1>1. s \in Store /\ CursorOK(s, k) /\ JournalOK(s, r)
    BY Zenon DEF PageHolds, StoreOK
  <1>2. /\ ack.sequence \in Nat /\ ack.highest \in Nat /\ ack.hash \in Digest /\ ack.type = "ack"
        /\ r.last \in Digest
    BY DEF AckMessage, ServerState
  <1>3. s.pending # <<>> /\ ack.key = k
    BY Zenon DEF AckIsForHead
  <1>4. /\ Head(s.pending) = s.pending[1] /\ Chain(s) = hash_answer_event(s.pending[1])
        /\ Chain(s) \in Digest /\ Len(Chain(s)) = s.known + 1 /\ s.known \in Nat
    BY <1>1, <1>3, ChainFacts, StoreFields
  <1>5. ack.status # "unavailable"
    BY DEF Durable
  <1>6. ack.hash = Chain(s)
    BY <1>4, <1>5, Zenon DEF AckIsForHead
  <1>7. /\ ack.sequence = Len(ack.hash) /\ Prefix(ack.hash, r.last)
        /\ ack.sequence <= ack.highest /\ ack.highest <= Len(r.last)
    BY <1>2, <1>3, Zenon DEF AckKnown, IsDurable
  <1>8. Prefix(r.last, Chain(s))
    BY <1>1, Zenon DEF JournalOK
  <1>9. Len(r.last) <= Len(Chain(s))
    BY <1>8, Zenon DEF Prefix
  <1>10. r.last = Chain(s)
    BY <1>2, <1>4, <1>6, <1>7, <1>9, PrefixEqual
  <1> QED
    BY <1>2, <1>3, <1>4, <1>6, <1>7, <1>10

\* The pending event is acknowledged and leaves the page.
LEMMA AcknowledgedGood ==
  ASSUME NEW k \in Keys, NEW t \in TypedSet, NEW r \in ServerState, NEW s, NEW v,
         NEW ack \in AckMessage, PageHolds(k, t, r, s, v), AckIsForHead(k, s, v, ack),
         ack.status \in Durable, AckKnown(ack, k, r.last)
  PROVE  GoodOutcome(Acknowledged(k, s, v, ack), k, t, r, s, ack.hash)
  <1>1. /\ s \in Store /\ v \in Page /\ JournalOK(s, r) /\ StoreOK(s, k, t)
        /\ CursorOK(s, k) /\ FinalOK(s)
    BY Zenon DEF PageHolds, StoreOK
  <1>2. /\ s.pending # <<>> /\ ack.hash = Chain(s) /\ r.last = Chain(s)
        /\ ack.sequence = s.known + 1 /\ ack.highest = ack.sequence
    BY AckIsCurrent
  <1>3. PICK final \in BOOLEAN : final = (Head(s.pending).kind = "finalize")
    OBVIOUS
  <1>4. Head(s.pending) = s.pending[1] /\ Len(s.pending) = 1 /\ Chain(s) \in Digest
    BY <1>1, <1>2, ChainFacts
  <1>5. final = FinalChain(Chain(s))
    BY <1>1, <1>2, <1>3, <1>4, PendingFinal, Zenon DEF FinalChain
  <1>6. s.finalized = FALSE /\ s.finalize \in BOOLEAN
    BY <1>1, <1>2, StoreFields DEF FinalOK
  <1>7. PICK f \in BOOLEAN : f = (s.finalize /\ ~final)
    OBVIOUS
  <1>8. PICK x : x = Shifted(s, ack)
    OBVIOUS
  <1>9. x = ShiftedTo(s, Chain(s), s.known + 1, f, final)
    <2>1. Tail(s.pending) = <<>>
      <3>1. PICK p \in Seq(Event) : p = s.pending
        BY <1>1, StoreFields
      <3>2. Tail(p) \in Seq(Event) /\ Len(Tail(p)) = Len(p) - 1 /\ Len(p) = 1
        BY <1>2, <1>4, <3>1, HeadTailProperties
      <3>3. Len(Tail(p)) = 0
        BY <3>2
      <3> QED
        BY <3>1, <3>2, <3>3, EmptySeq
    <2>2. x = [s EXCEPT !.pending = Tail(s.pending), !.previous = ack.hash,
                        !.known = IF ack.highest = ack.sequence THEN ack.sequence ELSE @,
                        !.knownLast = IF ack.highest = ack.sequence THEN ack.hash ELSE @,
                        !.finalize = @ /\ ~(ack.highest = ack.sequence /\ Head(s.pending).kind = "finalize"),
                        !.finalized = @ \/ (ack.highest = ack.sequence /\ Head(s.pending).kind = "finalize")]
      BY <1>8, Zenon DEF Shifted
    <2> QED
      BY <1>1, <1>2, <1>3, <1>6, <1>7, <2>1, <2>2 DEF ShiftedTo, Store
  <1>10. /\ x \in Store /\ StoreOK(x, k, t) /\ JournalOK(x, r)
         /\ Chain(x) = Chain(s) /\ x.previous = Chain(s)
    <2>1. f => s.finalize
      BY <1>7, Zenon
    <2> QED
      BY <1>1, <1>2, <1>5, <1>9, <2>1, ShiftedGood
  <1>11. PICK w : w = [v EXCEPT !.flight = {}, !.awaiting = FALSE, !.conflict = FALSE, !.retry = FALSE]
    OBVIOUS
  <1>12. w \in Page /\ w.conflict = FALSE
    BY <1>1, <1>11 DEF Page
  <1>13. PageHolds(k, t, r, x, w)
    BY <1>10, <1>12, Zenon DEF PageHolds
  <1>14. GoodOutcome(flushAnswerBridge(k, x, w), k, t, r, x, ack.hash)
    BY <1>13, FlushGood
  <1>15. Acknowledged(k, s, v, ack) = flushAnswerBridge(k, x, w)
    BY <1>2, <1>8, <1>11, Zenon DEF Acknowledged
  <1>16. Prefix(Chain(s), Chain(x))
    BY <1>4, <1>10, PrefixRefl
  <1>17. GoodOutcome(flushAnswerBridge(k, x, w), k, t, r, s, ack.hash)
    BY <1>2, <1>4, <1>10, <1>14, <1>16, GoodOver
  <1> QED
    BY <1>15, <1>17, Zenon

\* handleAnswerAck().
LEMMA AckGood ==
  ASSUME NEW k \in Keys, NEW t \in TypedSet, NEW r \in ServerState, NEW s, NEW v,
         NEW ack \in AckMessage, PageHolds(k, t, r, s, v), AckKnown(ack, k, r.last)
  PROVE  GoodOutcome(handleAnswerAck(k, s, v, ack), k, t, r, s, AckCursor(k, s, ack))
  <1>1. PICK b : b = AckCursor(k, s, ack)
    OBVIOUS
  <1> DEFINE Goal(o) == GoodOutcome(o, k, t, r, s, b)
  <1>2. v \in Page /\ v.conflict = FALSE
    BY Zenon DEF PageHolds
  <1>3. PICK w : w = [v EXCEPT !.flight = {}]
    OBVIOUS
  <1>4. PICK u : u = [w EXCEPT !.retry = TRUE]
    OBVIOUS
  <1>5. w \in Page /\ w.conflict = FALSE /\ u \in Page /\ u.conflict = FALSE
    BY <1>2, <1>3, <1>4 DEF Page
  <1>6. PageHolds(k, t, r, s, w) /\ PageHolds(k, t, r, s, u)
    BY <1>5, Zenon DEF PageHolds
  <1>7. Goal(Outcome(s, v, <<>>)) /\ Goal(Outcome(s, u, <<>>))
    BY <1>2, <1>5, StoreStays, PostsNothing
  <1>8. Goal(beginStateReconcile(k, s, w)) /\ Goal(beginStateReconcile(k, s, u))
    BY <1>6, ReconcileGood
  <1>9. ASSUME AckIsForHead(k, s, v, ack), ack.status \in {"accepted", "duplicate"}
        PROVE  Goal(Acknowledged(k, s, v, ack))
    <2>1. ack.status \in Durable
      BY <1>9 DEF Durable
    <2>2. ack.type = "ack"
      BY DEF AckMessage
    <2>3. ack.key = k
      BY <1>9, Zenon DEF AckIsForHead
    <2>4. b = ack.hash
      BY <1>1, <2>1, <2>2, <2>3, Zenon DEF AckCursor, IsDurable
    <2>5. GoodOutcome(Acknowledged(k, s, v, ack), k, t, r, s, ack.hash)
      BY <1>9, <2>1, AcknowledgedGood
    <2> QED
      BY <2>4, <2>5, Zenon
  <1> HIDE DEF Goal
  <1>10. Goal(handleAnswerAck(k, s, v, ack))
    BY <1>3, <1>4, <1>7, <1>8, <1>9, Zenon DEF handleAnswerAck
  <1> QED
    BY <1>1, <1>10, Zenon DEF Goal

-----------------------------------------------------------------------------
(* State responses. *)

\* The response is the page's cursor or its whole chain.
LEMMA ResponseIsEither ==
  ASSUME NEW k \in Keys, NEW r \in ServerState, NEW s \in Store, CursorOK(s, k), JournalOK(s, r),
         NEW m \in ServerState, StateOK(m), Prefix(s.previous, m.last), Prefix(m.last, r.last)
  PROVE  /\ m.last = s.previous \/ (s.pending # <<>> /\ m.last = Chain(s) /\ r.last = Chain(s))
         /\ m.last \in Digest /\ r.last \in Digest /\ m.highest = Len(m.last)
  <1>1. /\ Chain(s) \in Digest /\ s.previous \in Digest
        /\ s.pending = <<>> => Chain(s) = s.previous
    BY ChainFacts
  <1>2. m.last \in Digest /\ r.last \in Digest
    BY DEF ServerState
  <1>3. Prefix(r.last, Chain(s))
    BY Zenon DEF JournalOK
  <1>4. Prefix(m.last, Chain(s))
    BY <1>1, <1>2, <1>3, PrefixTrans
  <1>5. CASE s.pending = <<>>
    <2>1. Prefix(m.last, s.previous)
      BY <1>1, <1>4, <1>5, Zenon
    <2>2. Len(s.previous) <= Len(m.last)
      BY DEF Prefix
    <2> QED
      BY <1>1, <1>2, <2>1, <2>2, PrefixEqual DEF StateOK
  <1>6. CASE s.pending # <<>>
    <2>1. PICK e \in Event : e = s.pending[1] /\ Chain(s) = hash_answer_event(e)
      BY <1>6, ChainFacts
    <2>2. e.previous = s.previous
      BY <1>6, <2>1, Zenon DEF CursorOK
    <2>3. m.last = s.previous \/ m.last = Chain(s)
      BY <1>2, <1>4, <2>1, <2>2, BetweenPrefixes
    <2>4. m.last = Chain(s) => r.last = Chain(s)
      <3> HAVE m.last = Chain(s)
      <3>1. Len(r.last) <= Len(m.last)
        BY <1>3 DEF Prefix
      <3> QED
        BY <1>2, <3>1, PrefixEqual
    <2> QED
      BY <1>2, <1>6, <2>3, <2>4 DEF StateOK
  <1> QED
    BY <1>5, <1>6

\* A response is neither stale nor in conflict with the page.
LEMMA ResponseIsCurrent ==
  ASSUME NEW k \in Keys, NEW r \in ServerState, NEW s \in Store, CursorOK(s, k), FinalOK(s),
         JournalOK(s, r), NEW m \in ServerState, StateOK(m), Prefix(s.previous, m.last),
         Prefix(m.last, r.last)
  PROVE  ~StaleOrConflicting(s, m) /\ ~(m.highest < s.known) /\ Verified(s, m)
  <1>1. /\ m.last = s.previous \/ (s.pending # <<>> /\ m.last = Chain(s))
        /\ m.last \in Digest /\ m.highest = Len(m.last)
    BY ResponseIsEither
  <1>2. /\ s.known = Len(s.previous) /\ s.knownLast = s.previous /\ Len(s.pending) <= 1
        /\ s.pending # <<>> => /\ s.pending[1].sequence = s.known + 1
    BY Zenon DEF CursorOK
  <1>3. s.previous \in Digest /\ s.known \in Nat /\ s.pending \in Seq(Event) /\ m.highest \in Nat
    BY StoreFields DEF ServerState
  <1>4. /\ s.pending # <<>> => /\ Len(Chain(s)) = s.known + 1
                               /\ Chain(s) = hash_answer_event(s.pending[1])
        /\ s.pending = <<>> => Len(s.pending) = 0
    BY ChainFacts, EmptySeq
  <1>5. ~(m.highest < s.known) /\ (m.highest = s.known => m.last = s.previous)
    BY <1>1, <1>2, <1>3, <1>4
  <1>6. s.finalized => m.finalized
    <2> HAVE s.finalized
    <2>1. s.pending = <<>> /\ FinalChain(s.previous)
      BY Zenon DEF FinalOK
    <2>2. m.last = s.previous /\ m.finalized = FinalChain(m.last)
      BY <1>1, <2>1, Zenon DEF StateOK
    <2> QED
      BY <2>1, <2>2, Zenon
  <1>7. ~StaleOrConflicting(s, m)
    BY <1>2, <1>5, <1>6, Zenon DEF StaleOrConflicting
  <1>8. Verified(s, m)
    <2> SUFFICES ASSUME NEW i \in Covered(s, m)
                 PROVE  /\ s.pending[i].sequence = m.highest
                        /\ hash_answer_event(s.pending[i]) = m.last
      BY Zenon DEF Verified
    <2>1. i \in 1..Len(s.pending) /\ s.pending[i].sequence <= m.highest
      BY DEF Covered
    <2>2. Len(s.pending) \in Nat
      BY <1>3
    <2>3. i = 1 /\ s.pending # <<>>
      BY <1>2, <1>4, <2>1, <2>2
    <2>4. s.known + 1 <= m.highest
      BY <1>2, <2>1, <2>3
    <2>5. m.last = Chain(s)
      BY <1>1, <1>2, <1>3, <2>4
    <2> QED
      BY <1>1, <1>2, <1>4, <2>3, <2>5
  <1> QED
    BY <1>5, <1>7, <1>8

\* The pending event the watermark covers leaves; one behind it stays as it is.
LEMMA RepairedPending ==
  ASSUME NEW k \in Keys, NEW s \in Store, CursorOK(s, k), NEW m \in ServerState,
         m.highest = Len(m.last),
         m.last = s.previous \/ (s.pending # <<>> /\ m.last = Chain(s))
  PROVE  \/ repairPendingChain(s, m) = s /\ m.last = s.previous
         \/ /\ repairPendingChain(s, m) = ShiftedTo(s, Chain(s), s.known + 1, s.finalize, s.finalized)
            /\ s.pending # <<>> /\ m.last = Chain(s)
  <1>1. PICK p \in Seq(Event) : p = s.pending
    BY StoreFields
  <1> DEFINE I == {i \in 1..Len(p) : p[i].sequence > m.highest}
  <1>2. PICK kept : kept = Picked(p, I)
    OBVIOUS
  <1>3. PICK q : q = [i \in 1..Len(kept) |-> [kept[i] EXCEPT !.previous = IF i = 1 THEN m.last
                                                                        ELSE ZeroDigest]]
    OBVIOUS
  <1>4. repairPendingChain(s, m)
          = [s EXCEPT !.pending = q, !.previous = m.last, !.known = m.highest, !.knownLast = m.last,
                      !.next = IF s.next > m.highest + 1 THEN s.next ELSE m.highest + 1]
    BY <1>1, <1>2, <1>3, Zenon DEF repairPendingChain
  <1>5. /\ s.known = Len(s.previous) /\ s.knownLast = s.previous /\ Len(p) <= 1
        /\ p = <<>> => s.next = s.known + 1
        /\ p # <<>> => /\ s.next = s.known + 2 /\ p[1].sequence = s.known + 1
                       /\ p[1].previous = s.previous
    BY <1>1, Zenon DEF CursorOK
  <1>6. s.next \in Nat /\ s.known \in Nat /\ m.highest \in Nat
    BY StoreFields DEF ServerState
  <1>7. kept = <<>> => q = <<>>
    <2> HAVE kept = <<>>
    <2>1. 1..Len(kept) = {}
      BY EmptySeq
    <2>2. q \in Seq(Event) /\ Len(q) = 0
      BY <1>3, <2>1, EmptySeq
    <2> QED
      BY <2>2, EmptySeq
  <1>8. CASE m.last = s.previous
    <2>1. m.highest = s.known
      BY <1>5, <1>8
    <2>2. q = p
      <3>1. CASE p = <<>>
        BY <1>2, <1>5, <1>7, <3>1, PickedOne
      <3>2. CASE p # <<>>
        <4>1. Len(p) = 1 /\ 1 \in 1..Len(p) /\ p[1] \in Event
          BY <1>1, <3>2, ChainFacts
        <4>2. 1 \in I
          BY <1>5, <1>6, <2>1, <3>2, <4>1
        <4>3. kept = p
          BY <1>2, <1>5, <3>2, <4>2, PickedOne
        <4>4. [p[1] EXCEPT !.previous = m.last] = p[1]
          BY <1>5, <1>8, <3>2, <4>1 DEF Event
        <4>5. q = [i \in 1..1 |-> [p[i] EXCEPT !.previous = IF i = 1 THEN m.last ELSE ZeroDigest]]
          BY <1>3, <4>1, <4>3, Zenon
        <4>6. q \in [1..1 -> Event] /\ q[1] = p[1]
          BY <4>1, <4>4, <4>5
        <4>7. q \in Seq(Event) /\ Len(q) = 1
          <5>1. q \in Seq(Event)
            <6>1. 1 \in Nat /\ Seq(Event) = UNION {[1..l -> Event] : l \in Nat}
              BY SeqDef
            <6> QED
              BY <4>6, <6>1
          <5>2. Len(q) \in Nat /\ DOMAIN q = 1..Len(q) /\ DOMAIN q = 1..1
            BY <4>6, <5>1, LenProperties
          <5>3. \A l \in Nat : 1..l = 1..1 => l = 1
            <6> TAKE l \in Nat
            <6> HAVE 1..l = 1..1
            <6>1. 1 \in 1..l
              OBVIOUS
            <6>2. l \in 1..l
              BY <6>1
            <6>3. l \in 1..1
              BY <6>2
            <6> QED
              BY <6>3
          <5> QED
            BY <5>1, <5>2, <5>3, Zenon
        <4>8. Len(p) = Len(q) /\ \A i \in 1..Len(p) : p[i] = q[i]
          BY <4>1, <4>6, <4>7
        <4> QED
          BY <1>1, <4>7, <4>8, SeqEqual
      <3> QED
        BY <3>1, <3>2
    <2>3. (IF s.next > m.highest + 1 THEN s.next ELSE m.highest + 1) = s.next
      BY <1>5, <1>6, <2>1
    <2>4. repairPendingChain(s, m)
            = [s EXCEPT !.pending = s.pending, !.previous = s.previous, !.known = s.known,
                        !.knownLast = s.knownLast, !.next = s.next]
      BY <1>1, <1>4, <1>5, <1>8, <2>1, <2>2, <2>3, Zenon
    <2>5. repairPendingChain(s, m) = s
      BY <2>4 DEF Store
    <2> QED
      BY <1>8, <2>5
  <1>9. CASE p # <<>> /\ m.last = Chain(s)
    <2>1. m.highest = s.known + 1
      BY <1>1, <1>9, ChainFacts
    <2>2. 1 \notin I
      BY <1>5, <1>6, <1>9, <2>1
    <2>3. q = <<>>
      BY <1>2, <1>5, <1>7, <2>2, PickedOne
    <2>4. (IF s.next > m.highest + 1 THEN s.next ELSE m.highest + 1) = s.next
      BY <1>5, <1>6, <1>9, <2>1
    <2>5. repairPendingChain(s, m) = ShiftedTo(s, Chain(s), s.known + 1, s.finalize, s.finalized)
      BY <1>4, <1>9, <2>1, <2>3, <2>4 DEF Store, ShiftedTo
    <2> QED
      BY <1>1, <1>9, <2>5
  <1> QED
    BY <1>1, <1>8, <1>9

\* What the page shows after a response: the last answer typed, for each question shown.
LEMMA MergedGood ==
  ASSUME NEW k \in Keys, NEW t \in TypedSet, NEW x \in Store, CursorOK(x, k), TypedOK(x, t),
         NEW m \in ServerState, StateOK(m), m.last = x.previous
  PROVE  /\ MergedAnswers(x, m) \in Shows
         /\ \A q \in Questions : q \in DOMAIN MergedAnswers(x, m) => MergedAnswers(x, m)[q] = t[q]
  <1> DEFINE drafted == {x.drafts[i].question : i \in 1..Len(x.drafts)}
             upserted == PendingQuestions(x, "upsert")
             cleared == PendingQuestions(x, "clear")
             D == ((DOMAIN m.answers \cup upserted) \ cleared) \cup drafted
             F(q) == IF q \in drafted THEN x.drafts[CHOOSE i \in DraftOf(x, q) : TRUE].answer
                     ELSE IF q \in upserted
                     THEN x.pending[CHOOSE i \in 1..Len(x.pending) : x.pending[i].question = q].answer
                     ELSE m.answers[q].answer
  <1>1. MergedAnswers(x, m) = [q \in D |-> F(q)]
    BY Zenon DEF MergedAnswers
  <1>2. x.drafts \in Seq(Draft) /\ x.pending \in Seq(Event) /\ x.previous \in Digest
    BY StoreFields
  <1>3. DOMAIN m.answers \subseteq Questions
    BY DEF ServerState, JournalAnswers
  <1>4. drafted \subseteq Questions
    <2> SUFFICES ASSUME NEW i \in 1..Len(x.drafts) PROVE x.drafts[i].question \in Questions
      OBVIOUS
    <2>1. x.drafts[i] \in Draft
      BY <1>2, ElementOfSeq
    <2> QED
      BY <2>1 DEF Draft
  <1>5. ASSUME NEW i \in 1..Len(x.pending)
        PROVE  /\ i = 1 /\ x.pending # <<>> /\ x.pending[1] \in Event
               /\ Chain(x) = hash_answer_event(x.pending[1])
               /\ x.pending[1].previous = m.last
               /\ x.pending[1].kind = "finalize" => x.pending[1].question \notin Questions
               /\ x.pending[1].kind # "finalize" => x.pending[1].question \in Questions
    <2>1. x.pending # <<>>
      BY <1>2, <1>5, EmptySeq
    <2>2. Len(x.pending) = 1
      BY <2>1, ChainFacts
    <2>3. PICK e \in Event : e = x.pending[1] /\ Chain(x) = hash_answer_event(e)
      BY <2>1, ChainFacts
    <2>4. e.previous = x.previous /\ IsHistory(Chain(x), k)
      BY <2>1, <2>3, Zenon DEF CursorOK
    <2>5. /\ hash_answer_event(e)[Len(e.previous) + 1] = BodyOf(e) /\ Len(e.previous) \in Nat
          /\ Len(hash_answer_event(e)) = Len(e.previous) + 1
      BY HashFacts
    <2>6. IsBody(BodyOf(e), k)
      BY <2>3, <2>4, <2>5 DEF IsHistory
    <2>7. /\ e.kind = "finalize" => e.question = NoQuestion
          /\ e.kind # "finalize" => e.question \in Questions
      BY <2>6 DEF IsBody, BodyOf
    <2>8. i = 1
      BY <2>2
    <2> QED
      BY <2>1, <2>3, <2>4, <2>7, <2>8, PipelineAssumption, Zenon
  <1>6. upserted \subseteq Questions
    <2> SUFFICES ASSUME NEW i \in 1..Len(x.pending), x.pending[i].kind = "upsert"
                 PROVE  x.pending[i].question \in Questions
      BY DEF PendingQuestions
    <2>1. i = 1 /\ (x.pending[1].kind # "finalize" => x.pending[1].question \in Questions)
      BY <1>5
    <2> QED
      BY <2>1
  <1>7. D \subseteq Questions
    BY <1>3, <1>4, <1>6
  <1>8. ASSUME NEW q \in D PROVE F(q) = t[q]
    <2>1. q \in Questions
      BY <1>7
    <2>2. CASE q \in drafted
      <3>1. PICK i \in 1..Len(x.drafts) : x.drafts[i].question = q
        BY <2>2
      <3>2. i \in DraftOf(x, q)
        BY <3>1 DEF DraftOf
      <3>3. PICK j : j = CHOOSE l \in DraftOf(x, q) : TRUE
        OBVIOUS
      <3>4. j \in DraftOf(x, q)
        BY <3>2, <3>3, Zenon
      <3>5. x.drafts[j].answer = t[q]
        BY <2>1, <3>4, Zenon DEF TypedOK
      <3> HIDE DEF drafted, upserted
      <3> QED
        BY <2>2, <3>3, <3>5, Zenon
    <2>3. CASE q \notin drafted
      <3>1. DraftOf(x, q) = {}
        BY <2>3 DEF DraftOf
      <3>2. AnswerIn(Chain(x), q) = t[q]
        BY <2>1, <3>1, Zenon DEF TypedOK
      <3>3. CASE q \in upserted
        <4>1. PICK i \in 1..Len(x.pending) : x.pending[i].question = q
          BY <3>3 DEF PendingQuestions
        <4>2. PICK j : j = CHOOSE l \in 1..Len(x.pending) : x.pending[l].question = q
          OBVIOUS
        <4>3. j \in 1..Len(x.pending) /\ x.pending[j].question = q
          BY <4>1, <4>2, Zenon
        <4>4. /\ j = 1 /\ x.pending[1] \in Event /\ Chain(x) = hash_answer_event(x.pending[1])
          BY <1>5, <4>3
        <4>5. AnswerIn(Chain(x), q) = x.pending[1].answer
          BY <4>3, <4>4, AnswerOfEvent
        <4> HIDE DEF drafted, upserted
        <4> QED
          BY <2>3, <3>2, <3>3, <4>2, <4>4, <4>5, Zenon
      <3>4. CASE q \notin upserted
        <4>1. q \in DOMAIN m.answers /\ q \notin cleared
          BY <2>3, <3>4
        <4>2. m.answers[q].answer = AnswerIn(m.last, q)
          BY <2>1, <4>1, Zenon DEF StateOK, AnswersOK
        <4>3. AnswerIn(Chain(x), q) = AnswerIn(m.last, q)
          <5>1. CASE x.pending = <<>>
            BY <5>1, Zenon DEF Chain
          <5>2. CASE x.pending # <<>>
            <6>1. 1 \in 1..Len(x.pending)
              BY <5>2, ChainFacts
            <6>2. /\ x.pending[1] \in Event /\ Chain(x) = hash_answer_event(x.pending[1])
                  /\ x.pending[1].previous = m.last
                  /\ x.pending[1].kind = "finalize" => x.pending[1].question \notin Questions
              BY <1>5, <6>1
            <6>3. x.pending[1].kind \in {"upsert", "clear", "finalize"}
              BY <6>2 DEF Event, Kinds
            <6>4. x.pending[1].question # q
              <7>1. x.pending[1].kind = "upsert" => x.pending[1].question \in upserted
                BY <6>1 DEF PendingQuestions
              <7>2. x.pending[1].kind = "clear" => x.pending[1].question \in cleared
                BY <6>1 DEF PendingQuestions
              <7> QED
                BY <2>1, <3>4, <4>1, <6>2, <6>3, <7>1, <7>2, Zenon
            <6> QED
              BY <6>2, <6>4, AnswerOfEvent
          <5> QED
            BY <5>1, <5>2
        <4> HIDE DEF drafted, upserted
        <4> QED
          BY <2>3, <3>2, <3>4, <4>2, <4>3, Zenon
      <3> QED
        BY <3>3, <3>4
    <2> QED
      BY <2>2, <2>3
  <1>9. \A q \in D : t[q] \in Answers \cup {NoAnswer}
    BY <1>7 DEF TypedSet
  <1> HIDE DEF D, F
  <1>10. [q \in D |-> F(q)] \in [D -> Answers \cup {NoAnswer}]
    BY <1>8, <1>9
  <1>11. [q \in D |-> F(q)] \in Shows
    BY <1>7, <1>10 DEF Shows
  <1>12. \A q \in D : [p \in D |-> F(p)][q] = t[q]
    BY <1>8
  <1> QED
    BY <1>1, <1>11, <1>12

\* A store that shows other answers.
WithAnswers(x, a) == [x EXCEPT !.answers = a]

\* Only the answers shown differ.
LEMMA WithAnswersFacts ==
  ASSUME NEW x \in Store, NEW a \in Shows
  PROVE  /\ WithAnswers(x, a) \in Store
         /\ WithAnswers(x, a).next = x.next /\ WithAnswers(x, a).previous = x.previous
         /\ WithAnswers(x, a).known = x.known /\ WithAnswers(x, a).knownLast = x.knownLast
         /\ WithAnswers(x, a).pending = x.pending /\ WithAnswers(x, a).drafts = x.drafts
         /\ WithAnswers(x, a).finalize = x.finalize /\ WithAnswers(x, a).finalized = x.finalized
         /\ WithAnswers(x, a).answers = a
  BY DEF Store, WithAnswers

\* A store that is finalized.
Finalizing(x) == [x EXCEPT !.finalize = FALSE, !.finalized = TRUE]

\* Only the marks of the submission differ.
LEMMA FinalizingFacts ==
  ASSUME NEW x \in Store
  PROVE  /\ Finalizing(x) \in Store
         /\ Finalizing(x).next = x.next /\ Finalizing(x).previous = x.previous
         /\ Finalizing(x).known = x.known /\ Finalizing(x).knownLast = x.knownLast
         /\ Finalizing(x).pending = x.pending /\ Finalizing(x).drafts = x.drafts
         /\ Finalizing(x).finalize = FALSE /\ Finalizing(x).finalized = TRUE
         /\ Finalizing(x).answers = x.answers
  BY DEF Store, Finalizing

\* The cursor and the chain of y are those of x.
SameCursor(y, x) ==
    /\ y.next = x.next /\ y.previous = x.previous /\ y.known = x.known
    /\ y.knownLast = x.knownLast /\ y.pending = x.pending

\* A store with the same cursor, pending event and chain has its cursor in order.
LEMMA CursorKept ==
  ASSUME NEW k, NEW r, NEW x, NEW y, SameCursor(y, x)
  PROVE  /\ Chain(y) = Chain(x) /\ y.previous = x.previous
         /\ CursorOK(x, k) => CursorOK(y, k)
         /\ JournalOK(x, r) => JournalOK(y, r)
  <1>1. Chain(y) = Chain(x)
    BY Zenon DEF SameCursor, Chain
  <1>2. CursorOK(x, k) => CursorOK(y, k)
    BY <1>1, Zenon DEF SameCursor, CursorOK
  <1>3. JournalOK(x, r) => JournalOK(y, r)
    BY <1>1, Zenon DEF SameCursor, JournalOK
  <1> QED
    BY <1>1, <1>2, <1>3, Zenon DEF SameCursor

\* The answers typed are kept when the drafts are and the answers shown are right.
LEMMA TypedKept ==
  ASSUME NEW t, NEW x, NEW y, TypedOK(x, t), Chain(y) = Chain(x), y.drafts = x.drafts,
         \A q \in Questions : q \in DOMAIN y.answers => y.answers[q] = t[q]
  PROVE  TypedOK(y, t)
  <1> SUFFICES ASSUME NEW q \in Questions
               PROVE  /\ \A i \in DraftOf(y, q) : y.drafts[i].answer = t[q]
                      /\ DraftOf(y, q) = {} => AnswerIn(Chain(y), q) = t[q]
                      /\ q \in DOMAIN y.answers => y.answers[q] = t[q]
    BY DEF TypedOK
  <1>1. DraftOf(y, q) = DraftOf(x, q)
    BY Zenon DEF DraftOf
  <1>2. /\ \A i \in DraftOf(x, q) : x.drafts[i].answer = t[q]
        /\ DraftOf(x, q) = {} => AnswerIn(Chain(x), q) = t[q]
    BY Zenon DEF TypedOK
  <1> QED
    BY <1>1, <1>2, Zenon

\* repairPendingChain() with a response: the cursor is the response's, the chain is kept.
LEMMA RepairedFacts ==
  ASSUME NEW k \in Keys, NEW t \in TypedSet, NEW r \in ServerState, NEW s \in Store,
         StoreOK(s, k, t), JournalOK(s, r), NEW m \in ServerState, StateOK(m),
         Prefix(s.previous, m.last), Prefix(m.last, r.last),
         NEW x, x = repairPendingChain(s, m)
  PROVE  /\ x \in Store /\ CursorOK(x, k) /\ TypedOK(x, t) /\ JournalOK(x, r)
         /\ x.previous = m.last /\ Chain(x) = Chain(s)
         /\ ~m.finalized => FinalOK(x)
         /\ m.finalized => x.pending = <<>> /\ x.drafts = <<>>
  <1>1. CursorOK(s, k) /\ FinalOK(s) /\ TypedOK(s, t)
    BY Zenon DEF StoreOK
  <1>2. /\ m.last = s.previous \/ (s.pending # <<>> /\ m.last = Chain(s) /\ r.last = Chain(s))
        /\ m.highest = Len(m.last) /\ m.last \in Digest
    BY <1>1, ResponseIsEither
  <1>3. \/ x = s /\ m.last = s.previous
        \/ /\ x = ShiftedTo(s, Chain(s), s.known + 1, s.finalize, s.finalized)
           /\ s.pending # <<>> /\ m.last = Chain(s)
    BY <1>1, <1>2, RepairedPending
  <1>4. m.finalized = FinalChain(m.last)
    BY Zenon DEF StateOK
  <1>5. /\ s.finalized = FinalChain(s.previous)
        /\ FinalChain(Chain(s)) => s.drafts = <<>> /\ ~s.finalize
        /\ s.finalized => s.pending = <<>>
    BY <1>1, Zenon DEF FinalOK
  <1>6. /\ Chain(s) \in Digest /\ s.known \in Nat /\ s.next \in Nat /\ s.known + 1 \in Nat
        /\ s.finalize \in BOOLEAN /\ s.finalized \in BOOLEAN
        /\ s.pending = <<>> => Chain(s) = s.previous
    BY <1>1, ChainFacts, StoreFields
  <1>7. CASE x = s /\ m.last = s.previous
    <2>1. m.finalized => s.pending = <<>>
      BY <1>4, <1>5, <1>7, Zenon
    <2>2. m.finalized => s.drafts = <<>>
      BY <1>4, <1>5, <1>6, <1>7, <2>1, Zenon
    <2> QED
      BY <1>1, <1>7, <2>1, <2>2, Zenon
  <1>8. CASE /\ x = ShiftedTo(s, Chain(s), s.known + 1, s.finalize, s.finalized)
             /\ s.pending # <<>> /\ m.last = Chain(s)
    <2>1. /\ x \in Store /\ x.next = s.next /\ x.previous = Chain(s) /\ x.known = s.known + 1
          /\ x.knownLast = Chain(s) /\ x.pending = <<>> /\ x.drafts = s.drafts
          /\ x.finalize = s.finalize /\ x.finalized = s.finalized /\ x.answers = s.answers
      BY <1>6, <1>8, ShiftedFacts
    <2>2. Chain(x) = Chain(s)
      BY <2>1, Zenon DEF Chain
    <2>3. CursorOK(x, k)
      <3>1. s.next = s.known + 2 /\ IsHistory(Chain(s), k) /\ Len(Chain(s)) = s.known + 1
        BY <1>1, <1>8, ChainFacts DEF CursorOK
      <3>2. x.next = x.known + 1
        BY <1>6, <2>1, <3>1
      <3>3. Len(x.pending) <= 1
        BY <2>1, EmptySeq
      <3> QED
        BY <2>1, <2>2, <3>1, <3>2, <3>3, Zenon DEF CursorOK
    <2>4. \A q \in Questions : q \in DOMAIN x.answers => x.answers[q] = t[q]
      BY <1>1, <2>1, Zenon DEF TypedOK
    <2>5. TypedOK(x, t)
      BY <1>1, <2>1, <2>2, <2>4, TypedKept
    <2>6. JournalOK(x, r)
      <3>1. Prefix(m.last, r.last) /\ Prefix(r.last, Chain(s)) /\ StateOK(r)
        BY Zenon DEF JournalOK
      <3> QED
        BY <1>8, <2>1, <2>2, <3>1, Zenon DEF JournalOK
    <2>7. ~m.finalized => FinalOK(x)
      <3> HAVE ~m.finalized
      <3>1. FinalChain(Chain(s)) = FALSE
        BY <1>4, <1>8 DEF FinalChain
      <3>2. x.finalized = FALSE
        BY <1>5, <1>6, <1>8, <2>1
      <3> QED
        BY <2>1, <2>2, <3>1, <3>2, Zenon DEF FinalOK
    <2>8. m.finalized => x.pending = <<>> /\ x.drafts = <<>>
      BY <1>4, <1>5, <1>8, <2>1, Zenon
    <2> QED
      BY <1>8, <2>1, <2>2, <2>3, <2>5, <2>6, <2>7, <2>8, Zenon
  <1> QED
    BY <1>3, <1>7, <1>8

\* applyStateResponse().
LEMMA StateGood ==
  ASSUME NEW k \in Keys, NEW t \in TypedSet, NEW r \in ServerState, NEW s, NEW v,
         NEW m \in ServerState, PageHolds(k, t, r, s, v), StateOK(m),
         Prefix(s.previous, m.last), Prefix(m.last, r.last)
  PROVE  GoodOutcome(applyStateResponse(k, s, v, m), k, t, r, s, m.last)
  <1>1. /\ s \in Store /\ v \in Page /\ v.conflict = FALSE /\ JournalOK(s, r)
        /\ StoreOK(s, k, t) /\ CursorOK(s, k) /\ FinalOK(s)
    BY Zenon DEF PageHolds, StoreOK
  <1>2. ~StaleOrConflicting(s, m) /\ ~(m.highest < s.known) /\ Verified(s, m)
    BY <1>1, ResponseIsCurrent
  <1>3. PICK x : x = repairPendingChain(s, m)
    OBVIOUS
  <1>4. /\ x \in Store /\ CursorOK(x, k) /\ TypedOK(x, t) /\ JournalOK(x, r)
        /\ x.previous = m.last /\ Chain(x) = Chain(s)
        /\ ~m.finalized => FinalOK(x)
        /\ m.finalized => x.pending = <<>> /\ x.drafts = <<>>
    BY <1>1, <1>3, RepairedFacts
  <1>5. PICK a : a = MergedAnswers(x, m)
    OBVIOUS
  <1>6. a \in Shows /\ \A q \in Questions : q \in DOMAIN a => a[q] = t[q]
    BY <1>4, <1>5, MergedGood
  <1>7. PICK y : y = WithAnswers(x, a)
    OBVIOUS
  <1>8. /\ y \in Store /\ SameCursor(y, x) /\ y.drafts = x.drafts /\ y.finalize = x.finalize
        /\ y.finalized = x.finalized /\ y.answers = a
    BY <1>4, <1>6, <1>7, WithAnswersFacts DEF SameCursor
  <1>9. Chain(y) = Chain(s) /\ y.previous = m.last /\ CursorOK(y, k) /\ JournalOK(y, r)
    BY <1>4, <1>8, CursorKept
  <1>10. TypedOK(y, t)
    BY <1>4, <1>6, <1>8, <1>9, TypedKept
  <1>11. ~(x.pending # <<>> /\ Head(x.pending).sequence # m.highest + 1)
    <2> SUFFICES ASSUME x.pending # <<>> PROVE Head(x.pending).sequence = m.highest + 1
      OBVIOUS
    <2>1. Head(x.pending) = x.pending[1]
      BY <1>4, ChainFacts
    <2>2. x.pending[1].sequence = x.known + 1 /\ x.known = Len(x.previous)
      BY <1>4, Zenon DEF CursorOK
    <2>3. m.highest = Len(m.last)
      BY Zenon DEF StateOK
    <2> QED
      BY <1>4, <2>1, <2>2, <2>3, Zenon
  <1>12. PICK w : w = [v EXCEPT !.flight = {}, !.awaiting = FALSE, !.conflict = FALSE, !.retry = FALSE]
    OBVIOUS
  <1>13. w \in Page /\ w.conflict = FALSE
    BY <1>1, <1>12 DEF Page
  <1>14. Chain(s) \in Digest /\ Prefix(Chain(s), Chain(s))
    BY <1>1, ChainFacts, PrefixRefl
  <1> DEFINE Goal(o) == GoodOutcome(o, k, t, r, s, m.last)
  <1>15. ASSUME ~m.finalized PROVE Goal(flushAnswerBridge(k, y, w))
    <2>1. FinalOK(x)
      BY <1>4, <1>15
    <2>2. FinalOK(y)
      BY <1>4, <1>8, <1>9, <2>1, Zenon DEF FinalOK, SameCursor
    <2>3. PageHolds(k, t, r, y, w)
      BY <1>8, <1>9, <1>10, <1>13, <2>2, Zenon DEF PageHolds, StoreOK
    <2>4. GoodOutcome(flushAnswerBridge(k, y, w), k, t, r, y, m.last)
      BY <2>3, FlushGood
    <2> QED
      BY <1>9, <1>14, <2>4, GoodOver
  <1>16. ASSUME m.finalized
         PROVE  y.pending = <<>> /\ y.drafts = <<>> /\ Goal(Outcome(Finalizing(y), w, <<>>))
    <2>1. y.pending = <<>> /\ y.drafts = <<>>
      BY <1>4, <1>8, <1>16, Zenon DEF SameCursor
    <2>2. PICK z : z = Finalizing(y)
      OBVIOUS
    <2>3. /\ z \in Store /\ SameCursor(z, y) /\ z.drafts = y.drafts /\ z.finalize = FALSE
          /\ z.finalized = TRUE /\ z.answers = y.answers
      BY <1>8, <2>2, FinalizingFacts DEF SameCursor
    <2>4. Chain(z) = Chain(s) /\ z.previous = m.last /\ CursorOK(z, k) /\ JournalOK(z, r)
      BY <1>9, <2>3, CursorKept
    <2>5. \A q \in Questions : q \in DOMAIN z.answers => z.answers[q] = t[q]
      BY <1>6, <1>8, <2>3, Zenon
    <2>6. TypedOK(z, t)
      BY <1>9, <1>10, <2>3, <2>4, <2>5, TypedKept
    <2>7. FinalOK(z)
      <3>1. m.finalized = FinalChain(m.last)
        BY Zenon DEF StateOK
      <3>2. FinalChain(m.last) = TRUE
        BY <1>16, <3>1 DEF FinalChain
      <3>3. z.finalized = FinalChain(z.previous)
        BY <2>3, <2>4, <3>2, Zenon
      <3> QED
        BY <2>1, <2>3, <3>3, Zenon DEF FinalOK, SameCursor
    <2>8. PageHolds(k, t, r, z, w)
      BY <1>13, <2>3, <2>4, <2>6, <2>7, Zenon DEF PageHolds, StoreOK
    <2>9. PostedOK(<<>>, k, Chain(z))
      BY PostsNothing
    <2>10. GoodOutcome(Outcome(z, w, <<>>), k, t, r, s, m.last)
      <3>1. /\ Outcome(z, w, <<>>).store = z /\ Outcome(z, w, <<>>).page = w
            /\ Outcome(z, w, <<>>).posted = <<>>
        BY OutcomeFields
      <3> QED
        BY <1>14, <2>4, <2>8, <2>9, <3>1, Zenon DEF GoodOutcome
    <2> QED
      BY <2>1, <2>2, <2>10, Zenon
  <1> HIDE DEF Goal
  <1>17. Goal(applyStateResponse(k, s, v, m))
    BY <1>2, <1>3, <1>5, <1>7, <1>11, <1>12, <1>15, <1>16, Zenon
       DEF applyStateResponse, WithAnswers, Finalizing
  <1> QED
    BY <1>17 DEF Goal

-----------------------------------------------------------------------------
(* Typing. *)

\* The answers typed, with one more.
TypedWith(t, q, a) == [t EXCEPT ![q] = a]

\* saveAnswer(): the answer is drafted and shown.
LEMMA SaveGood ==
  ASSUME NEW k \in Keys, NEW t \in TypedSet, NEW r \in ServerState, NEW s \in Store,
         StoreOK(s, k, t), JournalOK(s, r), ~submitted(s),
         NEW q \in Questions, NEW a \in Answers \cup {NoAnswer}, NEW u, u = TypedWith(t, q, a),
         NEW x, x = saveAnswer(s, q, a)
  PROVE  /\ x \in Store /\ StoreOK(x, k, u) /\ JournalOK(x, r)
         /\ Chain(x) = Chain(s) /\ x.previous = s.previous
  <1>1. CursorOK(s, k) /\ FinalOK(s) /\ TypedOK(s, t)
    BY Zenon DEF StoreOK
  <1>2. u \in TypedSet /\ u[q] = a /\ \A p \in Questions \ {q} : u[p] = t[p]
    BY DEF TypedSet, TypedWith
  <1>3. DraftedAs(s, u, Questions \ {q})
    <2> SUFFICES ASSUME NEW p \in Questions \ {q}, NEW i \in DraftOf(s, p)
                 PROVE  s.drafts[i].answer = u[p]
      BY Zenon DEF DraftedAs
    <2>1. s.drafts[i].answer = t[p]
      BY <1>1 DEF TypedOK
    <2> QED
      BY <1>2, <2>1
  <1>4. PICK y : y = queueAnswerDraft(s, q, a)
    OBVIOUS
  <1>5. /\ SameButDrafts(y, s) /\ DraftedAs(y, u, Questions) /\ StillDrafted(y, s)
        /\ DraftOf(y, q) # {}
    BY <1>2, <1>3, <1>4, QueuedDraft
  <1>6. y \in Store /\ SameCursor(y, s) /\ y.finalize = s.finalize /\ y.finalized = s.finalized
    BY <1>5, Zenon DEF SameButDrafts, SameCursor
  <1>7. PICK b : b = [p \in DOMAIN s.answers \cup {q} |-> IF p = q THEN a ELSE s.answers[p]]
    OBVIOUS
  <1>8. b \in Shows /\ DOMAIN b = DOMAIN s.answers \cup {q} /\ b[q] = a
        /\ \A p \in DOMAIN s.answers : p # q => b[p] = s.answers[p]
    <2>1. PICK D \in SUBSET Questions : s.answers \in [D -> Answers \cup {NoAnswer}]
      BY StoreFields DEF Shows
    <2>2. DOMAIN s.answers = D /\ D \cup {q} \in SUBSET Questions
      BY <2>1
    <2>3. b \in [D \cup {q} -> Answers \cup {NoAnswer}]
      BY <1>7, <2>1, <2>2
    <2>4. b \in Shows
      BY <2>2, <2>3 DEF Shows
    <2> QED
      BY <1>7, <2>4
  <1>9. x = WithAnswers(y, b)
    BY <1>4, <1>7, Zenon DEF saveAnswer, WithAnswers
  <1>10. /\ x \in Store /\ SameCursor(x, y) /\ x.drafts = y.drafts /\ x.finalize = y.finalize
         /\ x.finalized = y.finalized /\ x.answers = b
    BY <1>6, <1>8, <1>9, WithAnswersFacts DEF SameCursor
  <1>11. SameCursor(x, s)
    BY <1>6, <1>10, Zenon DEF SameCursor
  <1>12. Chain(x) = Chain(s) /\ x.previous = s.previous /\ CursorOK(x, k) /\ JournalOK(x, r)
    BY <1>1, <1>11, CursorKept
  <1>13. ~FinalChain(Chain(s))
    BY <1>1, OpenChain
  <1>14. FinalOK(x)
    BY <1>1, <1>6, <1>10, <1>11, <1>12, <1>13, Zenon DEF FinalOK, SameCursor
  <1>15. TypedOK(x, u)
    <2> SUFFICES ASSUME NEW p \in Questions
                 PROVE  /\ \A i \in DraftOf(x, p) : x.drafts[i].answer = u[p]
                        /\ DraftOf(x, p) = {} => AnswerIn(Chain(x), p) = u[p]
                        /\ p \in DOMAIN x.answers => x.answers[p] = u[p]
      BY DEF TypedOK
    <2>1. DraftOf(x, p) = DraftOf(y, p)
      BY <1>10, Zenon DEF DraftOf
    <2>2. \A i \in DraftOf(x, p) : x.drafts[i].answer = u[p]
      BY <1>5, <1>10, <2>1, Zenon DEF DraftedAs
    <2>3. ASSUME DraftOf(x, p) = {} PROVE AnswerIn(Chain(x), p) = u[p]
      <3>1. p # q
        BY <1>5, <2>1, <2>3
      <3>2. DraftOf(s, p) = {}
        BY <1>5, <2>1, <2>3, Zenon DEF StillDrafted
      <3>3. AnswerIn(Chain(s), p) = t[p]
        BY <1>1, <3>2, Zenon DEF TypedOK
      <3> QED
        BY <1>2, <1>12, <3>1, <3>3
    <2>4. ASSUME p \in DOMAIN x.answers PROVE x.answers[p] = u[p]
      <3>1. CASE p = q
        BY <1>2, <1>8, <1>10, <3>1
      <3>2. CASE p # q
        <4>1. p \in DOMAIN s.answers
          BY <1>8, <1>10, <2>4, <3>2
        <4>2. s.answers[p] = t[p]
          BY <1>1, <4>1, Zenon DEF TypedOK
        <4> QED
          BY <1>2, <1>8, <1>10, <3>2, <4>1, <4>2
      <3> QED
        BY <3>1, <3>2
    <2> QED
      BY <2>2, <2>3, <2>4
  <1> QED
    BY <1>10, <1>12, <1>14, <1>15, Zenon DEF StoreOK

-----------------------------------------------------------------------------
(* Queues. *)

\* What the operations on a queue leave in it.
LEMMA ElemsOf ==
  ASSUME NEW S, NEW q \in Seq(S)
  PROVE  /\ Elems(q) \subseteq S
         /\ \A x \in S : /\ Append(q, x) \in Seq(S)
                         /\ Elems(Append(q, x)) = Elems(q) \cup {x}
         /\ q # <<>> => /\ Head(q) \in Elems(q) /\ Tail(q) \in Seq(S)
                        /\ Elems(Tail(q)) \subseteq Elems(q)
  <1>1. Elems(q) \subseteq S
    BY ElementOfSeq DEF Elems
  <1>2. ASSUME NEW x \in S
        PROVE  Append(q, x) \in Seq(S) /\ Elems(Append(q, x)) = Elems(q) \cup {x}
    <2>1. PICK r : r = Append(q, x)
      OBVIOUS
    <2>2. /\ r \in Seq(S) /\ Len(r) = Len(q) + 1 /\ r[Len(q) + 1] = x /\ Len(q) \in Nat
          /\ \A i \in 1..Len(q) : r[i] = q[i]
      BY <2>1, AppendProperties
    <2>3. Elems(r) = Elems(q) \cup {x}
      <3>1. ASSUME NEW y \in Elems(r) PROVE y \in Elems(q) \cup {x}
        <4>1. PICK i \in 1..(Len(q) + 1) : y = r[i]
          BY <2>2 DEF Elems
        <4>2. i \in 1..Len(q) \/ i = Len(q) + 1
          BY <2>2
        <4> QED
          BY <2>2, <4>1, <4>2 DEF Elems
      <3>2. x \in Elems(r)
        BY <2>2 DEF Elems
      <3>3. ASSUME NEW y \in Elems(q) PROVE y \in Elems(r)
        <4>1. PICK i \in 1..Len(q) : y = q[i]
          BY DEF Elems
        <4>2. i \in 1..Len(r) /\ y = r[i]
          BY <2>2, <4>1
        <4> QED
          BY <4>2 DEF Elems
      <3> QED
        BY <3>1, <3>2, <3>3
    <2> QED
      BY <2>1, <2>2, <2>3
  <1>3. ASSUME q # <<>>
        PROVE  Head(q) \in Elems(q) /\ Tail(q) \in Seq(S) /\ Elems(Tail(q)) \subseteq Elems(q)
    <2>1. PICK r : r = Tail(q)
      OBVIOUS
    <2>2. /\ r \in Seq(S) /\ Len(r) = Len(q) - 1 /\ Head(q) = q[1]
          /\ \A i \in 1..Len(r) : r[i] = q[i + 1]
      BY <1>3, <2>1, HeadTailProperties
    <2>3. Len(q) \in Nat /\ Len(q) # 0
      BY <1>3, EmptySeq
    <2>4. Head(q) \in Elems(q)
      BY <2>2, <2>3 DEF Elems
    <2>5. ASSUME NEW y \in Elems(r) PROVE y \in Elems(q)
      <3>1. PICK i \in 1..Len(r) : y = r[i]
        BY DEF Elems
      <3>2. i + 1 \in 1..Len(q) /\ y = q[i + 1]
        BY <2>2, <2>3, <3>1
      <3> QED
        BY <3>2 DEF Elems
    <2> QED
      BY <2>1, <2>2, <2>4, <2>5
  <1> QED
    BY <1>1, <1>2, <1>3

\* Two queues one after the other.
LEMMA ElemsConcat ==
  ASSUME NEW S, NEW q \in Seq(S), NEW p \in Seq(S)
  PROVE  q \o p \in Seq(S) /\ Elems(q \o p) \subseteq Elems(q) \cup Elems(p)
  <1>1. PICK r : r = q \o p
    OBVIOUS
  <1>2. /\ r \in Seq(S) /\ Len(r) = Len(q) + Len(p) /\ Len(q) \in Nat /\ Len(p) \in Nat
        /\ \A i \in 1..(Len(q) + Len(p)) : r[i] = IF i <= Len(q) THEN q[i] ELSE p[i - Len(q)]
    BY <1>1, ConcatProperties
  <1>3. ASSUME NEW y \in Elems(r) PROVE y \in Elems(q) \cup Elems(p)
    <2>1. PICK i \in 1..(Len(q) + Len(p)) : y = r[i]
      BY <1>2 DEF Elems
    <2>2. CASE i <= Len(q)
      <3>1. i \in 1..Len(q) /\ y = q[i]
        BY <1>2, <2>1, <2>2
      <3> QED
        BY <3>1 DEF Elems
    <2>3. CASE ~(i <= Len(q))
      <3>1. i - Len(q) \in 1..Len(p) /\ y = p[i - Len(q)]
        BY <1>2, <2>1, <2>3
      <3> QED
        BY <3>1 DEF Elems
    <2> QED
      BY <2>2, <2>3
  <1> QED
    BY <1>1, <1>2, <1>3

\* The empty queue.
LEMMA ElemsEmpty ==
  /\ Elems(<<>>) = {} /\ InOrder(<<>>)
  /\ \A S : <<>> \in Seq(S)
  BY EmptySeq DEF Elems, InOrder

\* The first reply comes before the others.
LEMMA OrderOfTail ==
  ASSUME NEW S, NEW q \in Seq(S), q # <<>>, InOrder(q)
  PROVE  InOrder(Tail(q)) /\ AllBefore({Head(q)}, Elems(Tail(q)))
  <1>1. PICK r : r = Tail(q)
    OBVIOUS
  <1>2. /\ r \in Seq(S) /\ Len(r) = Len(q) - 1 /\ Head(q) = q[1]
        /\ \A i \in 1..Len(r) : r[i] = q[i + 1]
    BY <1>1, HeadTailProperties
  <1>3. Len(q) \in Nat /\ Len(q) # 0
    BY EmptySeq
  <1>4. ASSUME NEW i \in 1..Len(r) PROVE i + 1 \in 1..Len(q) /\ r[i] = q[i + 1]
    BY <1>2, <1>3
  <1>5. InOrder(r)
    <2> SUFFICES ASSUME NEW i \in 1..Len(r), NEW j \in 1..Len(r), i < j PROVE Before(r[i], r[j])
      BY DEF InOrder
    <2>1. i + 1 \in 1..Len(q) /\ j + 1 \in 1..Len(q) /\ i + 1 < j + 1
      BY <1>4
    <2>2. Before(q[i + 1], q[j + 1])
      BY <2>1 DEF InOrder
    <2> QED
      BY <1>4, <2>2
  <1>6. ASSUME NEW y \in Elems(r) PROVE Before(q[1], y)
    <2>1. PICK j \in 1..Len(r) : y = r[j]
      BY DEF Elems
    <2>2. j + 1 \in 1..Len(q) /\ 1 \in 1..Len(q) /\ 1 < j + 1 /\ y = q[j + 1]
      BY <1>3, <1>4, <2>1
    <2> QED
      BY <2>2 DEF InOrder
  <1> QED
    BY <1>1, <1>2, <1>5, <1>6 DEF AllBefore

\* A reply behind the others.
LEMMA OrderOfAppend ==
  ASSUME NEW S, NEW q \in Seq(S), NEW x \in S, InOrder(q), AllBefore(Elems(q), {x})
  PROVE  InOrder(Append(q, x))
  <1>1. PICK r : r = Append(q, x)
    OBVIOUS
  <1>2. /\ Len(r) = Len(q) + 1 /\ r[Len(q) + 1] = x /\ Len(q) \in Nat
        /\ \A i \in 1..Len(q) : r[i] = q[i]
    BY <1>1, AppendProperties
  <1>3. InOrder(r)
    <2> SUFFICES ASSUME NEW i \in 1..Len(r), NEW j \in 1..Len(r), i < j PROVE Before(r[i], r[j])
      BY DEF InOrder
    <2>1. i \in 1..Len(q) /\ r[i] = q[i]
      BY <1>2
    <2>2. CASE j \in 1..Len(q)
      <3>1. Before(q[i], q[j])
        BY <2>1, <2>2 DEF InOrder
      <3> QED
        BY <1>2, <2>1, <2>2, <3>1
    <2>3. CASE j \notin 1..Len(q)
      <3>1. r[j] = x
        BY <1>2, <2>3
      <3>2. q[i] \in Elems(q)
        BY <2>1 DEF Elems
      <3> QED
        BY <2>1, <3>1, <3>2 DEF AllBefore
    <2> QED
      BY <2>2, <2>3
  <1> QED
    BY <1>1, <1>3

\* A filter keeps the order.
LEMMA OrderOfPicked ==
  ASSUME NEW S, NEW q \in Seq(S), NEW I
  PROVE  /\ Picked(q, I) \in Seq(S) /\ Elems(Picked(q, I)) \subseteq Elems(q)
         /\ InOrder(q) => InOrder(Picked(q, I))
  <1>1. PICK p : p = Picked(q, I)
    OBVIOUS
  <1>2. p \in Seq(S) /\ PartOf(p, q, Len(q))
    BY <1>1, PickedPart
  <1>3. PICK g \in [1..Len(p) -> 1..Len(q)] :
                /\ \A i, j \in 1..Len(p) : i < j => g[i] < g[j]
                /\ \A i \in 1..Len(p) : p[i] = q[g[i]]
    BY <1>2 DEF PartOf
  <1>4. ASSUME NEW y \in Elems(p) PROVE y \in Elems(q)
    <2>1. PICK i \in 1..Len(p) : y = p[i]
      BY DEF Elems
    <2>2. g[i] \in 1..Len(q) /\ y = q[g[i]]
      BY <1>3, <2>1
    <2> QED
      BY <2>2 DEF Elems
  <1>5. ASSUME InOrder(q) PROVE InOrder(p)
    <2> SUFFICES ASSUME NEW i \in 1..Len(p), NEW j \in 1..Len(p), i < j PROVE Before(p[i], p[j])
      BY DEF InOrder
    <2>1. g[i] \in 1..Len(q) /\ g[j] \in 1..Len(q) /\ g[i] < g[j] /\ p[i] = q[g[i]] /\ p[j] = q[g[j]]
      BY <1>3
    <2>2. Before(q[g[i]], q[g[j]])
      BY <1>5, <2>1 DEF InOrder
    <2> QED
      BY <2>1, <2>2
  <1> QED
    BY <1>1, <1>2, <1>4, <1>5

\* Queued(): a bounded queue takes one more element.
LEMMA ElemsQueued ==
  ASSUME NEW S, NEW q \in Seq(S), NEW n, NEW x \in S, n \in Nat \ {0}
  PROVE  Queued(q, n, x) \in Seq(S) /\ Elems(Queued(q, n, x)) \subseteq Elems(q) \cup {x}
  <1>1. PICK p : p = IF Len(q) >= n THEN Tail(q) ELSE q
    OBVIOUS
  <1>2. p \in Seq(S) /\ Elems(p) \subseteq Elems(q)
    <2>1. CASE Len(q) >= n
      <3>1. q # <<>>
        BY <2>1, EmptySeq
      <3> QED
        BY <1>1, <2>1, <3>1, ElemsOf
    <2>2. CASE ~(Len(q) >= n)
      BY <1>1, <2>2
    <2> QED
      BY <2>1, <2>2
  <1>3. Queued(q, n, x) = Append(p, x)
    BY <1>1, Zenon DEF Queued
  <1> QED
    BY <1>2, <1>3, ElemsOf

-----------------------------------------------------------------------------
(* The outbox. *)

\* What every session has numbered.
ChainMap == [Keys -> Digest]

\* The chains are those of their sessions.
Histories(c) == \A k \in Keys : IsHistory(c[k], k)

\* No session disappears and no boundary moves back.
MarksKept(i, j) ==
    \A k \in DOMAIN i.watermarks :
        /\ k \in DOMAIN j.watermarks
        /\ i.watermarks[k].acknowledged_sequence <= j.watermarks[k].acknowledged_sequence

\* The fields of an image and of a watermark.
LEMMA ImageFields ==
  ASSUME NEW i \in Image
  PROVE  /\ i.events \subseteq Event /\ DOMAIN i.watermarks \subseteq Keys
         /\ \A k \in DOMAIN i.watermarks :
              /\ i.watermarks[k] \in Watermark
              /\ i.watermarks[k].highest \in Nat /\ i.watermarks[k].acknowledged_sequence \in Nat
              /\ i.watermarks[k].last \in Digest /\ i.watermarks[k].acknowledged_hash \in Digest
  BY DEF Image, Marks, Watermark

\* An image keeps its own boundaries.
LEMMA MarksKeptRefl ==
  ASSUME NEW i \in Image
  PROVE  MarksKept(i, i)
  BY ImageFields DEF MarksKept

\* What is kept twice is kept.
LEMMA MarksKeptTrans ==
  ASSUME NEW h \in Image, NEW i \in Image, NEW j \in Image, MarksKept(h, i), MarksKept(i, j)
  PROVE  MarksKept(h, j)
  <1> SUFFICES ASSUME NEW k \in DOMAIN h.watermarks
               PROVE  /\ k \in DOMAIN j.watermarks
                      /\ h.watermarks[k].acknowledged_sequence
                           <= j.watermarks[k].acknowledged_sequence
    BY DEF MarksKept
  <1>1. /\ k \in DOMAIN i.watermarks
        /\ h.watermarks[k].acknowledged_sequence <= i.watermarks[k].acknowledged_sequence
    BY DEF MarksKept
  <1>2. /\ k \in DOMAIN j.watermarks
        /\ i.watermarks[k].acknowledged_sequence <= j.watermarks[k].acknowledged_sequence
    BY <1>1 DEF MarksKept
  <1> QED
    BY <1>1, <1>2, ImageFields

\* Two events of one number that the page numbered are one event.
LEMMA OneEvent ==
  ASSUME NEW c \in ChainMap, NEW d \in Event, NEW e \in Event, OnChain(c, d), OnChain(c, e),
         d.key = e.key, d.sequence = e.sequence
  PROVE  d = e
  <1>1. hash_answer_event(d) \in Digest /\ hash_answer_event(e) \in Digest /\ c[e.key] \in Digest
    BY HashFacts DEF ChainMap, Event
  <1>2. /\ Len(hash_answer_event(d)) = Len(hash_answer_event(e))
        /\ Prefix(hash_answer_event(d), c[e.key]) /\ Prefix(hash_answer_event(e), c[e.key])
    BY Zenon DEF OnChain
  <1>3. hash_answer_event(d) = hash_answer_event(e)
    BY <1>1, <1>2, PrefixSame
  <1> QED
    BY <1>3, LastStep

\* A hash names its session.
LEMMA HashNamesKey ==
  ASSUME NEW c \in ChainMap, Histories(c), NEW d \in Digest, Len(d) # 0,
         NEW k \in Keys, NEW x \in Keys, Prefix(d, c[k]), Prefix(d, c[x])
  PROVE  k = x
  <1>1. Len(d) \in Nat /\ c[k] \in Digest /\ c[x] \in Digest
    BY DEF Digest, ChainMap
  <1>2. /\ Len(d) <= Len(c[k]) /\ Len(d) <= Len(c[x]) /\ Len(c[k]) \in Nat /\ Len(c[x]) \in Nat
        /\ d[Len(d)] = c[k][Len(d)] /\ d[Len(d)] = c[x][Len(d)]
    BY <1>1 DEF Prefix, Digest
  <1>3. IsBody(c[k][Len(d)], k) /\ IsBody(c[x][Len(d)], x)
    <2>1. Len(d) \in 1..Len(c[k]) /\ Len(d) \in 1..Len(c[x])
      BY <1>1, <1>2
    <2>2. IsHistory(c[k], k) /\ IsHistory(c[x], x)
      BY DEF Histories
    <2> QED
      BY <2>1, <2>2, Zenon DEF IsHistory
  <1> QED
    BY <1>2, <1>3 DEF IsBody

\* A session whose events and watermark stay is in order as before.
LEMMA MarkSame ==
  ASSUME NEW c, NEW i, NEW j, NEW k, MarkOK(c, i, k), EventsOf(j, k) = EventsOf(i, k),
         j.watermarks[k] = i.watermarks[k]
  PROVE  MarkOK(c, j, k)
  <1>1. \A n : HasEvent(i, k, n) => HasEvent(j, k, n)
    BY Zenon DEF HasEvent
  <1>2. PICK w : w = i.watermarks[k]
    OBVIOUS
  <1>3. /\ w.acknowledged_sequence = Len(w.acknowledged_hash)
        /\ Prefix(w.acknowledged_hash, c[k]) /\ w.highest = Len(w.last) /\ Prefix(w.last, c[k])
        /\ w.acknowledged_sequence <= w.highest
        /\ \A e \in EventsOf(i, k) : w.acknowledged_sequence < e.sequence /\ e.sequence <= w.highest
        /\ \A n \in (w.acknowledged_sequence + 1)..w.highest : HasEvent(i, k, n)
    BY <1>2, Zenon DEF MarkOK
  <1>4. \A n \in (w.acknowledged_sequence + 1)..w.highest : HasEvent(j, k, n)
    BY <1>1, <1>3, Zenon
  <1>5. \A e \in EventsOf(j, k) : w.acknowledged_sequence < e.sequence /\ e.sequence <= w.highest
    BY <1>3, Zenon
  <1>6. j.watermarks[k] = w
    BY <1>2, Zenon
  <1> QED
    BY <1>3, <1>4, <1>5, <1>6, Zenon DEF MarkOK

\* A session in order, spelled out.
LEMMA MarkFacts ==
  ASSUME NEW c, NEW i, NEW k, MarkOK(c, i, k)
  PROVE  /\ i.watermarks[k].acknowledged_sequence = Len(i.watermarks[k].acknowledged_hash)
         /\ Prefix(i.watermarks[k].acknowledged_hash, c[k])
         /\ i.watermarks[k].highest = Len(i.watermarks[k].last)
         /\ Prefix(i.watermarks[k].last, c[k])
         /\ i.watermarks[k].acknowledged_sequence <= i.watermarks[k].highest
         /\ \A e \in EventsOf(i, k) : /\ i.watermarks[k].acknowledged_sequence < e.sequence
                                      /\ e.sequence <= i.watermarks[k].highest
         /\ \A n \in (i.watermarks[k].acknowledged_sequence + 1)..i.watermarks[k].highest :
              HasEvent(i, k, n)
  BY Zenon DEF MarkOK

\* The watermark of the session of an event that is added.
MarkWith(image, e) ==
    [candidate |-> e.candidate, highest |-> e.sequence, last |-> hash_answer_event(e),
     acknowledged_sequence |-> IF e.key \in DOMAIN image.watermarks
                               THEN image.watermarks[e.key].acknowledged_sequence ELSE 0,
     acknowledged_hash |-> IF e.key \in DOMAIN image.watermarks
                           THEN image.watermarks[e.key].acknowledged_hash ELSE ZeroDigest,
     finalized |-> e.kind = "finalize"]

\* Added(): the fields of the image with one more event.
LEMMA AddedFacts ==
  ASSUME NEW i \in Image, NEW e \in Event
  PROVE  /\ Added(i, e) \in Image /\ Added(i, e).events = i.events \cup {e}
         /\ DOMAIN Added(i, e).watermarks = DOMAIN i.watermarks \cup {e.key}
         /\ Added(i, e).watermarks[e.key] = MarkWith(i, e)
         /\ \A k \in DOMAIN i.watermarks : k # e.key => Added(i, e).watermarks[k] = i.watermarks[k]
         /\ MarkWith(i, e) \in Watermark
         /\ MarkWith(i, e).highest = e.sequence /\ MarkWith(i, e).last = hash_answer_event(e)
         /\ e.key \in DOMAIN i.watermarks =>
              /\ MarkWith(i, e).acknowledged_sequence = i.watermarks[e.key].acknowledged_sequence
              /\ MarkWith(i, e).acknowledged_hash = i.watermarks[e.key].acknowledged_hash
         /\ e.key \notin DOMAIN i.watermarks =>
              /\ MarkWith(i, e).acknowledged_sequence = 0
              /\ MarkWith(i, e).acknowledged_hash = ZeroDigest
  <1>1. PICK D \in SUBSET Keys : i.watermarks \in [D -> Watermark]
    BY DEF Image, Marks
  <1>2. DOMAIN i.watermarks = D
    BY <1>1
  <1>3. MarkWith(i, e) \in Watermark
    <2>1. hash_answer_event(e) \in Digest /\ ZeroDigest \in Digest
      BY HashFacts, PrefixZero
    <2>2. e.candidate \in Candidates /\ e.sequence \in Nat
      BY DEF Event
    <2>3. e.key \in D => /\ i.watermarks[e.key].acknowledged_sequence \in Nat
                         /\ i.watermarks[e.key].acknowledged_hash \in Digest
      BY <1>2, ImageFields
    <2> QED
      BY <1>2, <2>1, <2>2, <2>3 DEF MarkWith, Watermark
  <1>4. PICK w : w = [k \in D \cup {e.key} |-> IF k = e.key THEN MarkWith(i, e) ELSE i.watermarks[k]]
    OBVIOUS
  <1>5. e.key \in Keys
    BY DEF Event
  <1>6. w \in [D \cup {e.key} -> Watermark]
    BY <1>1, <1>3, <1>4
  <1>7. w \in Marks
    BY <1>1, <1>5, <1>6 DEF Marks
  <1>8. Added(i, e) = [i EXCEPT !.events = i.events \cup {e}, !.watermarks = w]
    BY <1>2, <1>4, Zenon DEF Added, MarkWith
  <1>9. Added(i, e) \in Image /\ Added(i, e).events = i.events \cup {e} /\ Added(i, e).watermarks = w
    BY <1>7, <1>8 DEF Image
  <1>10. /\ DOMAIN w = D \cup {e.key} /\ w[e.key] = MarkWith(i, e)
         /\ \A k \in D : k # e.key => w[k] = i.watermarks[k]
    BY <1>4
  <1> QED
    BY <1>2, <1>3, <1>9, <1>10 DEF MarkWith

\* What an operation may make of an image.
GoodImage(c, i, j) == j \in Image /\ OutboxOK(c, j) /\ MarksKept(i, j)

\* The image as it was is a good one.
LEMMA SameImage ==
  ASSUME NEW c, NEW i \in Image, OutboxOK(c, i)
  PROVE  GoodImage(c, i, i)
  BY MarksKeptRefl DEF GoodImage

\* An event behind the watermark is added.
LEMMA AddedGood ==
  ASSUME NEW c \in ChainMap, NEW i \in Image, OutboxOK(c, i), NEW e \in Event, OnChain(c, e),
         FollowsWatermark(i, e), NEW j, j = Added(i, e)
  PROVE  GoodImage(c, i, j)
  <1>1. PICK w : w = MarkWith(i, e)
    OBVIOUS
  <1>2. /\ j \in Image /\ j.events = i.events \cup {e}
        /\ DOMAIN j.watermarks = DOMAIN i.watermarks \cup {e.key}
        /\ j.watermarks[e.key] = w /\ w \in Watermark
        /\ \A k \in DOMAIN i.watermarks : k # e.key => j.watermarks[k] = i.watermarks[k]
        /\ w.highest = e.sequence /\ w.last = hash_answer_event(e)
    BY <1>1, AddedFacts
  <1>3. /\ AllOnChain(c, i.events) /\ \A d \in i.events : d.key \in DOMAIN i.watermarks
        /\ \A k \in DOMAIN i.watermarks : MarkOK(c, i, k)
    BY Zenon DEF OutboxOK
  <1>4. /\ e.sequence = Len(hash_answer_event(e)) /\ Prefix(hash_answer_event(e), c[e.key])
        /\ e.sequence \in Nat /\ e.key \in Keys /\ c[e.key] \in Digest
    BY DEF OnChain, Event, ChainMap
  <1>5. MarkOK(c, j, e.key) /\ (e.key \in DOMAIN i.watermarks =>
             w.acknowledged_sequence = i.watermarks[e.key].acknowledged_sequence)
    <2>1. EventsOf(j, e.key) = EventsOf(i, e.key) \cup {e}
      BY <1>2 DEF EventsOf
    <2>2. CASE e.key \in DOMAIN i.watermarks
      <3>1. PICK v : v = i.watermarks[e.key]
        OBVIOUS
      <3>2. /\ v.highest \in Nat /\ v.acknowledged_sequence \in Nat
            /\ v.acknowledged_sequence = w.acknowledged_sequence
            /\ v.acknowledged_hash = w.acknowledged_hash
        BY <1>1, <2>2, <3>1, ImageFields, AddedFacts
      <3>3. MarkOK(c, i, e.key)
        BY <1>3, <2>2
      <3>4. /\ v.acknowledged_sequence = Len(v.acknowledged_hash)
            /\ Prefix(v.acknowledged_hash, c[e.key]) /\ v.acknowledged_sequence <= v.highest
            /\ \A d \in EventsOf(i, e.key) : /\ v.acknowledged_sequence < d.sequence
                                             /\ d.sequence <= v.highest
            /\ \A n \in (v.acknowledged_sequence + 1)..v.highest : HasEvent(i, e.key, n)
        BY <3>1, <3>3, Zenon DEF MarkOK
      <3>5. e.sequence = v.highest + 1
        BY <2>2, <3>1, Zenon DEF FollowsWatermark
      <3>6. ASSUME NEW d \in EventsOf(j, e.key)
            PROVE  w.acknowledged_sequence < d.sequence /\ d.sequence <= w.highest
        <4>1. CASE d = e
          BY <1>2, <1>4, <3>2, <3>4, <3>5, <4>1
        <4>2. CASE d \in EventsOf(i, e.key)
          <5>1. d.sequence \in Nat
            BY <4>2, ImageFields DEF EventsOf, Event
          <5> QED
            BY <1>2, <1>4, <3>2, <3>4, <3>5, <4>2, <5>1
        <4> QED
          BY <2>1, <3>6, <4>1, <4>2
      <3>7. ASSUME NEW n \in (w.acknowledged_sequence + 1)..w.highest PROVE HasEvent(j, e.key, n)
        <4>1. CASE n = e.sequence
          BY <2>1, <4>1 DEF HasEvent
        <4>2. CASE n # e.sequence
          <5>1. n \in (v.acknowledged_sequence + 1)..v.highest
            BY <1>2, <1>4, <3>2, <3>5, <4>2
          <5>2. HasEvent(i, e.key, n)
            BY <3>4, <5>1
          <5> QED
            BY <2>1, <5>2 DEF HasEvent
        <4> QED
          BY <4>1, <4>2
      <3>8. w.acknowledged_sequence <= w.highest
        BY <1>2, <1>4, <3>2, <3>4, <3>5
      <3>9. /\ w.acknowledged_sequence = Len(w.acknowledged_hash)
            /\ Prefix(w.acknowledged_hash, c[e.key])
            /\ w.highest = Len(w.last) /\ Prefix(w.last, c[e.key])
        BY <1>2, <1>4, <3>2, <3>4, Zenon
      <3>10. MarkOK(c, j, e.key)
        BY <1>2, <3>6, <3>7, <3>8, <3>9, Zenon DEF MarkOK
      <3> QED
        BY <3>1, <3>2, <3>10
    <2>3. CASE e.key \notin DOMAIN i.watermarks
      <3>1. w.acknowledged_sequence = 0 /\ w.acknowledged_hash = ZeroDigest
        BY <1>1, <2>3, AddedFacts
      <3>2. e.sequence = 1
        BY <2>3, Zenon DEF FollowsWatermark
      <3>3. EventsOf(i, e.key) = {}
        BY <1>3, <2>3 DEF EventsOf
      <3>4. EventsOf(j, e.key) = {e}
        BY <2>1, <3>3
      <3>5. \A d \in EventsOf(j, e.key) : w.acknowledged_sequence < d.sequence /\ d.sequence <= w.highest
        BY <1>2, <3>1, <3>2, <3>4
      <3>6. ASSUME NEW n \in (w.acknowledged_sequence + 1)..w.highest PROVE HasEvent(j, e.key, n)
        <4>1. n = e.sequence
          BY <1>2, <3>1, <3>2
        <4> QED
          BY <3>4, <4>1 DEF HasEvent
      <3>7. /\ w.acknowledged_sequence = Len(w.acknowledged_hash)
            /\ Prefix(w.acknowledged_hash, c[e.key])
            /\ w.highest = Len(w.last) /\ Prefix(w.last, c[e.key])
            /\ w.acknowledged_sequence <= w.highest
        BY <1>2, <1>4, <3>1, <3>2, PrefixZero
      <3>8. MarkOK(c, j, e.key)
        BY <1>2, <3>5, <3>6, <3>7, Zenon DEF MarkOK
      <3> QED
        BY <2>3, <3>8
    <2> QED
      BY <2>2, <2>3
  <1>6. ASSUME NEW k \in DOMAIN j.watermarks PROVE MarkOK(c, j, k)
    <2>1. CASE k = e.key
      BY <1>5, <2>1
    <2>2. CASE k # e.key
      <3>1. k \in DOMAIN i.watermarks /\ j.watermarks[k] = i.watermarks[k]
        BY <1>2, <2>2
      <3>2. EventsOf(j, k) = EventsOf(i, k)
        BY <1>2, <2>2 DEF EventsOf
      <3> QED
        BY <1>3, <3>1, <3>2, MarkSame
    <2> QED
      BY <2>1, <2>2
  <1>7. AllOnChain(c, j.events)
    BY <1>2, <1>3 DEF AllOnChain
  <1>8. OutboxOK(c, j)
    <2>1. \A d \in j.events : d.key \in DOMAIN j.watermarks
      BY <1>2, <1>3
    <2> QED
      BY <1>6, <1>7, <2>1, Zenon DEF OutboxOK
  <1>9. MarksKept(i, j)
    <2> SUFFICES ASSUME NEW k \in DOMAIN i.watermarks
                 PROVE  /\ k \in DOMAIN j.watermarks
                        /\ i.watermarks[k].acknowledged_sequence
                             <= j.watermarks[k].acknowledged_sequence
      BY DEF MarksKept
    <2>1. i.watermarks[k].acknowledged_sequence \in Nat
      BY ImageFields
    <2>2. i.watermarks[k].acknowledged_sequence = j.watermarks[k].acknowledged_sequence
      BY <1>2, <1>5
    <2> QED
      BY <1>2, <2>1, <2>2
  <1> QED
    BY <1>2, <1>8, <1>9 DEF GoodImage

\* enqueue(): an event the page numbered is never rebased.
LEMMA EnqueueGood ==
  ASSUME NEW c \in ChainMap, NEW i \in Image, OutboxOK(c, i), NEW e \in Event, OnChain(c, e)
  PROVE  GoodImage(c, i, enqueue(i, e).image)
  <1> DEFINE Goal(o) == GoodImage(c, i, o.image)
  <1>1. \A ok : Result(ok, i).image = i
    BY DEF Result
  <1>2. GoodImage(c, i, i)
    BY SameImage
  <1>3. Goal(Result(TRUE, i)) /\ Goal(Result(FALSE, i))
    BY <1>1, <1>2
  <1>4. ASSUME HasEvent(i, e.key, e.sequence) PROVE Goal(EnqueueAgain(i, e))
    <2>1. PICK d : d = EventAt(i, e.key, e.sequence)
      OBVIOUS
    <2>2. d \in EventsOf(i, e.key) /\ d.sequence = e.sequence
      BY <1>4, <2>1, Zenon DEF HasEvent, EventAt, EventWith
    <2>3. d \in i.events /\ d.key = e.key
      BY <2>2 DEF EventsOf
    <2>4. d \in Event /\ OnChain(c, d)
      BY <2>3, ImageFields DEF OutboxOK, AllOnChain
    <2>5. d = e
      BY <2>2, <2>3, <2>4, OneEvent
    <2> HIDE DEF Goal
    <2> QED
      BY <1>3, <2>1, <2>5, Zenon DEF EnqueueAgain
  <1>5. ASSUME FollowsWatermark(i, e) PROVE Goal(Result(TRUE, Added(i, e)))
    <2>1. Result(TRUE, Added(i, e)).image = Added(i, e)
      BY DEF Result
    <2>2. GoodImage(c, i, Added(i, e))
      BY <1>5, AddedGood
    <2> QED
      BY <2>1, <2>2
  <1> HIDE DEF Goal
  <1>6. Goal(enqueue(i, e))
    BY <1>3, <1>4, <1>5, Zenon DEF enqueue
  <1> QED
    BY <1>6 DEF Goal

\* The image with the events of session k up to n gone and the boundary at n.
RetiredTo(i, k, n, hash) ==
    [i EXCEPT !.events = {e \in i.events : e.key # k \/ e.sequence > n},
              !.watermarks[k] = [@ EXCEPT !.acknowledged_sequence = n,
                                          !.acknowledged_hash = hash]]

\* The fields of the image after events have left it.
LEMMA RetiredFacts ==
  ASSUME NEW i \in Image, NEW k \in DOMAIN i.watermarks, NEW n \in Nat, NEW hash \in Digest,
         NEW j, j = RetiredTo(i, k, n, hash)
  PROVE  /\ j \in Image /\ j.events = {e \in i.events : e.key # k \/ e.sequence > n}
         /\ DOMAIN j.watermarks = DOMAIN i.watermarks
         /\ \A x \in DOMAIN i.watermarks : x # k => j.watermarks[x] = i.watermarks[x]
         /\ j.watermarks[k].acknowledged_sequence = n
         /\ j.watermarks[k].acknowledged_hash = hash
         /\ j.watermarks[k].highest = i.watermarks[k].highest
         /\ j.watermarks[k].last = i.watermarks[k].last
  <1>1. PICK D \in SUBSET Keys : i.watermarks \in [D -> Watermark]
    BY DEF Image, Marks
  <1>2. DOMAIN i.watermarks = D
    BY <1>1
  <1>3. PICK w : w = [i.watermarks[k] EXCEPT !.acknowledged_sequence = n, !.acknowledged_hash = hash]
    OBVIOUS
  <1>4. /\ w \in Watermark /\ w.acknowledged_sequence = n /\ w.acknowledged_hash = hash
        /\ w.highest = i.watermarks[k].highest /\ w.last = i.watermarks[k].last
    BY <1>1, <1>2, <1>3 DEF Watermark
  <1>5. PICK m : m = [i.watermarks EXCEPT ![k] = w]
    OBVIOUS
  <1>6. /\ m \in [D -> Watermark] /\ m[k] = w
        /\ \A x \in D : x # k => m[x] = i.watermarks[x]
    BY <1>1, <1>2, <1>4, <1>5
  <1>7. m \in Marks /\ DOMAIN m = D
    BY <1>6 DEF Marks
  <1>8. PICK E : E = {e \in i.events : e.key # k \/ e.sequence > n}
    OBVIOUS
  <1>9. E \subseteq Event
    BY <1>8, ImageFields
  <1>10. j = [i EXCEPT !.events = E, !.watermarks = m]
    BY <1>3, <1>5, <1>8 DEF RetiredTo, Image
  <1>11. j \in Image /\ j.events = E /\ j.watermarks = m
    BY <1>7, <1>9, <1>10 DEF Image
  <1> QED
    BY <1>2, <1>4, <1>6, <1>7, <1>8, <1>11

\* The boundary of a session moves to a later event of its chain.
LEMMA RetiredGood ==
  ASSUME NEW c \in ChainMap, NEW i \in Image, OutboxOK(c, i), NEW k \in DOMAIN i.watermarks,
         NEW n \in Nat, NEW hash \in Digest, n = Len(hash), Prefix(hash, c[k]),
         n > i.watermarks[k].acknowledged_sequence, n <= i.watermarks[k].highest,
         NEW j, j = RetiredTo(i, k, n, hash)
  PROVE  GoodImage(c, i, j) /\ k \in DOMAIN j.watermarks /\ n <= j.watermarks[k].acknowledged_sequence
  <1>1. /\ j \in Image /\ j.events = {e \in i.events : e.key # k \/ e.sequence > n}
        /\ DOMAIN j.watermarks = DOMAIN i.watermarks
        /\ \A x \in DOMAIN i.watermarks : x # k => j.watermarks[x] = i.watermarks[x]
        /\ j.watermarks[k].acknowledged_sequence = n
        /\ j.watermarks[k].acknowledged_hash = hash
        /\ j.watermarks[k].highest = i.watermarks[k].highest
        /\ j.watermarks[k].last = i.watermarks[k].last
    BY RetiredFacts
  <1>2. /\ AllOnChain(c, i.events) /\ \A d \in i.events : d.key \in DOMAIN i.watermarks
        /\ \A x \in DOMAIN i.watermarks : MarkOK(c, i, x)
    BY Zenon DEF OutboxOK
  <1>3. PICK v, w : v = i.watermarks[k] /\ w = j.watermarks[k]
    OBVIOUS
  <1>4. v.highest \in Nat /\ v.acknowledged_sequence \in Nat
    BY <1>3, ImageFields
  <1>5. /\ v.highest = Len(v.last) /\ Prefix(v.last, c[k])
        /\ \A d \in EventsOf(i, k) : v.acknowledged_sequence < d.sequence /\ d.sequence <= v.highest
        /\ \A l \in (v.acknowledged_sequence + 1)..v.highest : HasEvent(i, k, l)
    BY <1>2, <1>3, MarkFacts
  <1>6. EventsOf(j, k) = {e \in EventsOf(i, k) : e.sequence > n}
    BY <1>1 DEF EventsOf
  <1>7. MarkOK(c, j, k)
    <2>1. ASSUME NEW d \in EventsOf(j, k) PROVE w.acknowledged_sequence < d.sequence /\ d.sequence <= w.highest
      <3>1. d \in EventsOf(i, k) /\ d.sequence > n
        BY <1>6
      <3>2. d.sequence \in Nat
        BY <3>1, ImageFields DEF EventsOf, Event
      <3> QED
        BY <1>1, <1>3, <1>5, <3>1, <3>2
    <2>2. ASSUME NEW l \in (w.acknowledged_sequence + 1)..w.highest PROVE HasEvent(j, k, l)
      <3>1. l \in (v.acknowledged_sequence + 1)..v.highest /\ l > n
        BY <1>1, <1>3, <1>4
      <3>2. PICK d \in EventsOf(i, k) : d.sequence = l
        BY <1>5, <3>1 DEF HasEvent
      <3>3. d \in EventsOf(j, k)
        BY <1>6, <3>1, <3>2
      <3> QED
        BY <3>2, <3>3 DEF HasEvent
    <2>3. /\ w.acknowledged_sequence = Len(w.acknowledged_hash)
          /\ Prefix(w.acknowledged_hash, c[k])
          /\ w.highest = Len(w.last) /\ Prefix(w.last, c[k])
          /\ w.acknowledged_sequence <= w.highest
      BY <1>1, <1>3, <1>5
    <2> QED
      BY <1>3, <2>1, <2>2, <2>3, Zenon DEF MarkOK
  <1>8. ASSUME NEW x \in DOMAIN j.watermarks PROVE MarkOK(c, j, x)
    <2>1. CASE x = k
      BY <1>7, <2>1
    <2>2. CASE x # k
      <3>1. x \in DOMAIN i.watermarks /\ j.watermarks[x] = i.watermarks[x]
        BY <1>1, <2>2
      <3>2. EventsOf(j, x) = EventsOf(i, x)
        BY <1>1, <2>2 DEF EventsOf
      <3> QED
        BY <1>2, <3>1, <3>2, MarkSame
    <2> QED
      BY <2>1, <2>2
  <1>9. OutboxOK(c, j)
    <2>1. AllOnChain(c, j.events)
      BY <1>1, <1>2 DEF AllOnChain
    <2>2. \A d \in j.events : d.key \in DOMAIN j.watermarks
      BY <1>1, <1>2
    <2> QED
      BY <1>8, <2>1, <2>2, Zenon DEF OutboxOK
  <1>10. MarksKept(i, j)
    <2> SUFFICES ASSUME NEW x \in DOMAIN i.watermarks
                 PROVE  /\ x \in DOMAIN j.watermarks
                        /\ i.watermarks[x].acknowledged_sequence
                             <= j.watermarks[x].acknowledged_sequence
      BY DEF MarksKept
    <2>1. i.watermarks[x].acknowledged_sequence \in Nat
      BY ImageFields
    <2> QED
      BY <1>1, <2>1
  <1> QED
    BY <1>1, <1>9, <1>10 DEF GoodImage

\* acknowledge() with the hash of an event of session k that the journal has: the
\* image stays in order, and when it answers TRUE the event is behind the boundary.
LEMMA AcknowledgeGood ==
  ASSUME NEW c \in ChainMap, Histories(c), NEW i \in Image, OutboxOK(c, i), NEW x \in Keys,
         NEW n \in Nat, NEW hash \in Digest, n # 0, n = Len(hash), Prefix(hash, c[x]), NEW sid,
         NEW o, o = acknowledge(i, sid, n, hash)
  PROVE  /\ GoodImage(c, i, o.image)
         /\ o.ok => /\ x \in DOMAIN o.image.watermarks
                    /\ n <= o.image.watermarks[x].acknowledged_sequence
  <1> DEFINE Goal(p) == /\ GoodImage(c, i, p.image)
                        /\ p.ok => /\ x \in DOMAIN p.image.watermarks
                                   /\ n <= p.image.watermarks[x].acknowledged_sequence
  <1>1. GoodImage(c, i, i)
    BY SameImage
  <1>2. Goal(Result(FALSE, i))
    BY <1>1 DEF Result
  <1>3. \A k \in DOMAIN i.watermarks : k \in Keys /\ MarkOK(c, i, k)
    BY ImageFields DEF OutboxOK
  <1>4. ASSUME NEW k \in DOMAIN i.watermarks, HasEvent(i, k, n)
        PROVE  Goal(Retired(i, k, n, hash))
    <2>1. PICK d : d = EventAt(i, k, n)
      OBVIOUS
    <2>2. d \in EventsOf(i, k) /\ d.sequence = n
      BY <1>4, <2>1, Zenon DEF HasEvent, EventAt, EventWith
    <2>3. d \in i.events /\ d.key = k
      BY <2>2 DEF EventsOf
    <2>4. OnChain(c, d)
      BY <2>3 DEF OutboxOK, AllOnChain
    <2>5. ASSUME hash_answer_event(d) = hash, n > i.watermarks[k].acknowledged_sequence,
                 n <= i.watermarks[k].highest
          PROVE  Goal(Result(TRUE, RetiredTo(i, k, n, hash)))
      <3>1. Prefix(hash, c[k])
        BY <2>3, <2>4, <2>5 DEF OnChain
      <3>2. k = x
        BY <1>3, <3>1, HashNamesKey
      <3>3. PICK j : j = RetiredTo(i, k, n, hash)
        OBVIOUS
      <3>4. /\ GoodImage(c, i, j) /\ k \in DOMAIN j.watermarks
            /\ n <= j.watermarks[k].acknowledged_sequence
        BY <2>5, <3>1, <3>3, RetiredGood
      <3>5. Goal(Result(TRUE, j))
        BY <3>2, <3>4 DEF Result
      <3> HIDE DEF Goal
      <3> QED
        BY <3>3, <3>5, Zenon
    <2> HIDE DEF Goal
    <2> QED
      BY <1>2, <2>1, <2>5, Zenon DEF Retired, RetiredTo
  <1>5. ASSUME NEW k \in DOMAIN i.watermarks, ~HasEvent(i, k, n)
        PROVE  Goal(AcknowledgedBefore(i, k, n, hash))
    <2>1. PICK w : w = i.watermarks[k]
      OBVIOUS
    <2>2. /\ w.acknowledged_sequence = Len(w.acknowledged_hash)
          /\ Prefix(w.acknowledged_hash, c[k])
          /\ \A l \in (w.acknowledged_sequence + 1)..w.highest : HasEvent(i, k, l)
      BY <1>3, <2>1, MarkFacts
    <2>3. w.highest \in Nat /\ w.acknowledged_sequence \in Nat
      BY <2>1, ImageFields
    <2>4. ASSUME n = w.acknowledged_sequence PROVE Goal(Result(hash = w.acknowledged_hash, i))
      <3>1. PICK ok \in BOOLEAN : ok = (hash = w.acknowledged_hash)
        OBVIOUS
      <3>2. ok => x = k
        BY <1>3, <2>2, <3>1, HashNamesKey
      <3>3. Goal(Result(ok, i))
        BY <1>1, <2>1, <2>3, <2>4, <3>2 DEF Result
      <3> HIDE DEF Goal
      <3> QED
        BY <3>1, <3>3, Zenon
    <2>5. ~(n > w.acknowledged_sequence /\ n = w.highest)
      <3> SUFFICES ASSUME n > w.acknowledged_sequence, n = w.highest PROVE FALSE
        OBVIOUS
      <3>1. n \in (w.acknowledged_sequence + 1)..w.highest
        BY <2>3
      <3> QED
        BY <1>5, <2>2, <3>1
    <2> HIDE DEF Goal
    <2> QED
      BY <1>2, <2>1, <2>4, <2>5, Zenon DEF AcknowledgedBefore
  <1> DEFINE exact == ExactKeys(i, sid, n, hash)
             S == IF exact # {} THEN exact ELSE MatchingKeys(i, sid)
  <1>7. S \subseteq DOMAIN i.watermarks
    <2>1. MatchingKeys(i, sid) \subseteq DOMAIN i.watermarks
      BY DEF MatchingKeys
    <2>2. ExactKeys(i, sid, n, hash) \subseteq MatchingKeys(i, sid)
      BY DEF ExactKeys
    <2> QED
      BY <2>1, <2>2
  <1>8. PICK k : k = CHOOSE y \in S : TRUE
    OBVIOUS
  <1>9. Cardinality(S) = 1 => k \in DOMAIN i.watermarks
    <2> HAVE Cardinality(S) = 1
    <2> HIDE DEF S
    <2>1. S # {}
      <3>1. Cardinality({}) = 0
        BY FS_EmptySet
      <3>2. Cardinality({}) # 1
        BY <3>1
      <3> QED
        BY <3>2, Zenon
    <2>2. k \in S
      BY <1>8, <2>1, Zenon
    <2> QED
      BY <1>7, <2>2
  <1> HIDE DEF Goal
  <1>10. PICK p : p = IF n = 0 \/ Cardinality(S) # 1 THEN Result(FALSE, i)
                      ELSE IF HasEvent(i, k, n) THEN Retired(i, k, n, hash)
                      ELSE AcknowledgedBefore(i, k, n, hash)
    OBVIOUS
  <1>11. acknowledge(i, sid, n, hash) = p
    <2>1. acknowledge(i, sid, n, hash)
            = IF n = 0 \/ Cardinality(S) # 1 THEN Result(FALSE, i)
              ELSE IF HasEvent(i, CHOOSE y \in S : TRUE, n) THEN Retired(i, CHOOSE y \in S : TRUE, n, hash)
              ELSE AcknowledgedBefore(i, CHOOSE y \in S : TRUE, n, hash)
      BY DEF acknowledge
    <2> HIDE DEF S
    <2> QED
      BY <1>8, <1>10, <2>1, Zenon
  <1>12. Goal(p)
    <2> HIDE DEF S
    <2>1. CASE Cardinality(S) # 1
      BY <1>2, <1>10, <2>1, Zenon
    <2>2. CASE Cardinality(S) = 1 /\ HasEvent(i, k, n)
      BY <1>4, <1>9, <1>10, <2>2, Zenon
    <2>3. CASE Cardinality(S) = 1 /\ ~HasEvent(i, k, n)
      BY <1>5, <1>9, <1>10, <2>3, Zenon
    <2> QED
      BY <2>1, <2>2, <2>3
  <1>13. Goal(o)
    BY <1>11, <1>12, Zenon
  <1> QED
    BY <1>13 DEF Goal

\* The function that drain_exam_ingress computes.
IsDraining(f, image, q, n) ==
    f = [i \in 0..n |->
            IF i = 0 THEN [image |-> image, left |-> <<>>]
            ELSE LET one == enqueue(f[i - 1].image, q[i]) IN
                 [image |-> one.image,
                  left |-> IF one.ok THEN f[i - 1].left
                           ELSE Append(f[i - 1].left, q[i])]]

\* It exists.
LEMMA DrainingExists ==
  ASSUME NEW image, NEW q
  PROVE  \A n \in Nat : \E f : IsDraining(f, image, q, n)
  <1> DEFINE Bad == {n \in Nat : ~ \E f : IsDraining(f, image, q, n)}
  <1> SUFFICES ASSUME Bad # {} PROVE FALSE
    OBVIOUS
  <1>1. PICK n \in Bad : \A a \in Bad : ~(<<a, n>> \in OpToRel(<, Nat))
    <2>1. Bad \subseteq Nat
      OBVIOUS
    <2> HIDE DEF Bad
    <2> QED
      BY <2>1, NatLessThanWellFounded, WFMin, Zenon
  <1>2. n \in Nat /\ \A a \in Bad : ~(a < n)
    BY <1>1 DEF OpToRel
  <1> DEFINE s == [image |-> image, left |-> <<>>]
             Step(y, i) == LET one == enqueue(y.image, q[i]) IN
                           [image |-> one.image,
                            left |-> IF one.ok THEN y.left ELSE Append(y.left, q[i])]
  <1>3. \A g, m : g = [i \in 0..m |-> IF i = 0 THEN s ELSE Step(g[i - 1], i)]
                    <=> IsDraining(g, image, q, m)
    BY Zenon DEF IsDraining
  <1> HIDE DEF Step, s
  <1>4. CASE n = 0
    <2>1. PICK f : f = [i \in 0..0 |-> s]
      OBVIOUS
    <2>2. f = [i \in 0..0 |-> IF i = 0 THEN s ELSE Step(f[i - 1], i)]
      BY <2>1
    <2>3. IsDraining(f, image, q, 0)
      BY <1>3, <2>2, Zenon
    <2> QED
      BY <1>4, <2>3
  <1>5. CASE n # 0
    <2>1. PICK m \in Nat : n = m + 1
      BY <1>2, <1>5
    <2>2. PICK f : IsDraining(f, image, q, m)
      BY <1>2, <2>1
    <2>3. f = [i \in 0..m |-> IF i = 0 THEN s ELSE Step(f[i - 1], i)]
      BY <2>2, Zenon DEF IsDraining, Step, s
    <2>4. PICK g : g = [i \in 0..n |-> IF i = n THEN Step(f[m], n) ELSE f[i]]
      OBVIOUS
    <2>5. ASSUME NEW i \in 0..n PROVE g[i] = IF i = 0 THEN s ELSE Step(g[i - 1], i)
      <3>1. CASE i = n
        <4>1. i - 1 = m /\ g[m] = f[m] /\ i # 0
          BY <2>1, <2>4, <3>1
        <4> QED
          BY <2>4, <3>1, <4>1
      <3>2. CASE i # n
        <4>1. i \in 0..m /\ g[i] = f[i]
          BY <2>1, <2>4, <3>2
        <4>2. f[i] = IF i = 0 THEN s ELSE Step(f[i - 1], i)
          BY <2>3, <4>1, Zenon
        <4>3. i # 0 => g[i - 1] = f[i - 1]
          BY <2>1, <2>4, <4>1
        <4> QED
          BY <4>1, <4>2, <4>3
      <3> QED
        BY <3>1, <3>2
    <2>6. g = [i \in 0..n |-> IF i = 0 THEN s ELSE Step(g[i - 1], i)]
      BY <2>4, <2>5
    <2>7. IsDraining(g, image, q, n)
      BY <1>3, <2>6, Zenon
    <2> QED
      BY <2>7
  <1> QED
    BY <1>4, <1>5

\* Drained: the events taken and the events left are those that waited.
LEMMA DrainedGood ==
  ASSUME NEW c \in ChainMap, outbox \in Image, OutboxOK(c, outbox), ingress \in Seq(Event),
         AllOnChain(c, Elems(ingress))
  PROVE  /\ GoodImage(c, outbox, Drained.image)
         /\ Drained.left \in Seq(Event) /\ AllOnChain(c, Elems(Drained.left))
  <1> DEFINE N == Len(ingress)
  <1> DEFINE r[i \in 0..N] ==
            IF i = 0 THEN [image |-> outbox, left |-> <<>>]
            ELSE LET one == enqueue(r[i - 1].image, ingress[i]) IN
                 [image |-> one.image,
                  left |-> IF one.ok THEN r[i - 1].left
                           ELSE Append(r[i - 1].left, ingress[i])]
  <1>1. N \in Nat
    OBVIOUS
  <1>2. Drained = r[N]
    BY DEF Drained
  <1>3. \E f : IsDraining(f, outbox, ingress, N)
    BY <1>1, DrainingExists
  <1>4. IsDraining(r, outbox, ingress, N)
    BY <1>3, Zenon DEF IsDraining
  <1> HIDE DEF r, N
  <1> DEFINE Good(x) == /\ GoodImage(c, outbox, x.image)
                        /\ x.left \in Seq(Event) /\ AllOnChain(c, Elems(x.left))
  <1>5. Good(r[0])
    <2>1. 0 \in 0..N
      BY <1>1
    <2>2. r[0] = [image |-> outbox, left |-> <<>>]
      BY <1>4, <2>1, Zenon DEF IsDraining
    <2>3. r[0].image = outbox /\ r[0].left = <<>>
      BY <2>2
    <2>4. GoodImage(c, outbox, outbox)
      BY SameImage
    <2>5. AllOnChain(c, Elems(<<>>)) /\ <<>> \in Seq(Event)
      BY ElemsEmpty DEF AllOnChain
    <2> QED
      BY <2>3, <2>4, <2>5, Zenon
  <1>6. ASSUME NEW i \in 1..N, Good(r[i - 1]) PROVE Good(r[i])
    <2>1. i \in 0..N /\ i # 0 /\ i \in 1..Len(ingress)
      BY <1>1 DEF N
    <2>2. PICK e \in Event : e = ingress[i]
      BY <2>1, ElementOfSeq
    <2>3. OnChain(c, e)
      BY <2>1, <2>2 DEF AllOnChain, Elems
    <2>4. PICK y : y = r[i - 1]
      OBVIOUS
    <2>5. PICK one : one = enqueue(y.image, e)
      OBVIOUS
    <2>6. r[i] = [image |-> one.image, left |-> IF one.ok THEN y.left ELSE Append(y.left, e)]
      BY <1>4, <2>1, <2>2, <2>4, <2>5, Zenon DEF IsDraining
    <2>7. Good(y)
      BY <1>6, <2>4, Zenon
    <2>8. y.image \in Image /\ OutboxOK(c, y.image) /\ MarksKept(outbox, y.image)
      BY <2>7, Zenon DEF GoodImage
    <2>9. GoodImage(c, y.image, one.image)
      BY <2>3, <2>5, <2>8, EnqueueGood
    <2>10. one.image \in Image /\ OutboxOK(c, one.image) /\ MarksKept(y.image, one.image)
      BY <2>9, Zenon DEF GoodImage
    <2>11. GoodImage(c, outbox, one.image)
      BY <2>8, <2>10, MarksKeptTrans DEF GoodImage
    <2>12. y.left \in Seq(Event) /\ AllOnChain(c, Elems(y.left))
      BY <2>7, Zenon
    <2>13. Append(y.left, e) \in Seq(Event) /\ AllOnChain(c, Elems(Append(y.left, e)))
      BY <2>3, <2>12, ElemsOf DEF AllOnChain
    <2>14. PICK l : l = IF one.ok THEN y.left ELSE Append(y.left, e)
      OBVIOUS
    <2>15. l \in Seq(Event) /\ AllOnChain(c, Elems(l))
      BY <2>12, <2>13, <2>14, Zenon
    <2>16. r[i].image = one.image /\ r[i].left = l
      BY <2>6, <2>14
    <2> QED
      BY <2>11, <2>15, <2>16, Zenon
  <1> HIDE DEF Good
  <1> DEFINE Bad == {n \in 0..N : ~Good(r[n])}
  <1>7. Bad = {}
    <2> SUFFICES ASSUME Bad # {} PROVE FALSE
      OBVIOUS
    <2>1. PICK n \in Bad : \A a \in Bad : ~(<<a, n>> \in OpToRel(<, Nat))
      <3>1. Bad \subseteq Nat
        BY <1>1
      <3> HIDE DEF Bad
      <3> QED
        BY <3>1, NatLessThanWellFounded, WFMin, Zenon
    <2>2. n \in 0..N /\ n \in Nat /\ \A a \in Bad : ~(a < n)
      <3>1. n \in 0..N /\ n \in Nat /\ Bad \subseteq Nat
        BY <1>1
      <3> HIDE DEF Bad
      <3> QED
        BY <2>1, <3>1 DEF OpToRel
    <2>3. ~Good(r[n])
      BY <2>1
    <2>4. n # 0
      BY <1>5, <2>3
    <2>5. PICK m \in Nat : m = n - 1 /\ m \in 0..N /\ m < n /\ n \in 1..N
      BY <1>1, <2>2, <2>4
    <2>6. Good(r[m])
      BY <2>2, <2>5
    <2> QED
      BY <1>6, <2>3, <2>5, <2>6
  <1>8. N \in 0..N
    BY <1>1
  <1>9. Good(r[N])
    BY <1>7, <1>8
  <1> QED
    BY <1>2, <1>9 DEF Good

-----------------------------------------------------------------------------
(* The journal. *)

\* The entries of the journal are in order.
IndexOK(j) == DOMAIN j \subseteq Keys /\ \A k \in DOMAIN j : IsEntry(j[k]) /\ HashesOK(j[k])

\* The empty map of answers.
LEMMA NoAnswersYet ==
  <<>> \in JournalAnswers /\ DOMAIN <<>> = {}
  <1>1. <<>> \in Seq(AnswerState) /\ DOMAIN <<>> = {}
    BY EmptySeq
  <1>2. <<>> = [q \in {} |-> <<>>[q]]
    OBVIOUS
  <1>3. <<>> \in [{} -> AnswerState]
    BY <1>2
  <1> QED
    BY <1>1, <1>3 DEF JournalAnswers

\* The state of a session is one.
LEMMA StateInFacts ==
  ASSUME NEW j, IndexOK(j), NEW k
  PROVE  /\ StateIn(j, k) \in ServerState
         /\ k \in DOMAIN j => /\ StateIn(j, k).highest = j[k].highest /\ StateIn(j, k).last = j[k].last
                              /\ StateIn(j, k).finalized = j[k].finalized
                              /\ StateIn(j, k).answers = j[k].answers
         /\ k \notin DOMAIN j => /\ StateIn(j, k).highest = 0 /\ StateIn(j, k).last = ZeroDigest
                                 /\ StateIn(j, k).finalized = FALSE
                                 /\ StateIn(j, k).answers = <<>>
  <1>1. CASE k \in DOMAIN j
    <2>1. IsEntry(j[k])
      BY <1>1 DEF IndexOK
    <2> QED
      BY <1>1, <2>1 DEF StateIn, IsEntry, ServerState
  <1>2. CASE k \notin DOMAIN j
    BY <1>2, NoAnswersYet, PrefixZero DEF StateIn, ServerState
  <1> QED
    BY <1>1, <1>2

\* SessionFor(): the session an event is checked against is the state of its session.
LEMMA SessionMatches ==
  ASSUME NEW j, IndexOK(j), NEW e \in Event, NEW r, r = StateIn(j, e.key), AnswersOK(r),
         NEW s, s = SessionFor(j, e)
  PROVE  /\ IsEntry(s) /\ HashesOK(s) /\ AnswersOK(s) /\ s.highest = r.highest
         /\ s.last = r.last /\ s.finalized = r.finalized
         /\ e.key \notin DOMAIN j => DOMAIN s.event_hashes = {}
  <1>1. CASE e.key \in DOMAIN j
    <2>1. s = j[e.key]
      BY <1>1, Zenon DEF SessionFor
    <2>2. IsEntry(s) /\ HashesOK(s)
      BY <1>1, <2>1 DEF IndexOK
    <2>3. s.highest = r.highest /\ s.last = r.last /\ s.finalized = r.finalized /\ s.answers = r.answers
      BY <1>1, <2>1 DEF StateIn
    <2>4. AnswersOK(s)
      BY <2>3, Zenon DEF AnswersOK
    <2> QED
      BY <1>1, <2>2, <2>3, <2>4
  <1>2. CASE e.key \notin DOMAIN j
    <2>1. s = NewSession(e)
      BY <1>2, Zenon DEF SessionFor
    <2>2. PICK a : a = [q \in {} |-> [sequence |-> 0, answer |-> NoAnswer, hash |-> ZeroDigest]]
      OBVIOUS
    <2>3. PICK h : h = [n \in {} |-> ZeroDigest]
      OBVIOUS
    <2>4. /\ s.highest = 0 /\ s.last = ZeroDigest /\ s.finalized = FALSE /\ s.event_hashes = h
          /\ s.answers = a
      BY <2>1, <2>2, <2>3 DEF NewSession
    <2>5. /\ r.highest = 0 /\ r.last = ZeroDigest /\ r.finalized = FALSE /\ r.answers = <<>>
      BY <1>2 DEF StateIn
    <2>6. a \in [{} -> AnswerState] /\ DOMAIN a = {} /\ DOMAIN h = {}
      BY <2>2, <2>3
    <2>7. a \in JournalAnswers
      BY <2>6 DEF JournalAnswers
    <2>8. IsEntry(s)
      <3>1. 0 \in Nat /\ FALSE \in BOOLEAN
        OBVIOUS
      <3> QED
        BY <2>4, <2>7, <3>1, PrefixZero, Zenon DEF IsEntry
    <2>9. 1..Len(ZeroDigest) = {}
      BY PrefixZero
    <2>10. HashesOK(s)
      BY <2>4, <2>6, <2>9 DEF HashesOK
    <2>11. AnswersOK(s)
      <3>1. DOMAIN r.answers = {} /\ DOMAIN s.answers = {}
        BY <2>4, <2>5, <2>6, NoAnswersYet
      <3>2. ASSUME NEW q \in Questions PROVE NoAnswer = AnswerIn(s.last, q)
        <4>1. q \notin DOMAIN r.answers
          BY <3>1
        <4> QED
          BY <2>4, <2>5, <4>1, Zenon DEF AnswersOK
      <3> QED
        BY <3>1, <3>2 DEF AnswersOK
    <2> QED
      BY <2>4, <2>5, <2>6, <2>8, <2>10, <2>11
  <1> QED
    BY <1>1, <1>2

\* An event that the journal writes follows its session.
LEMMA WriteFacts ==
  ASSUME NEW j, NEW e, Verdict(j, e) = "write", NEW s, s = SessionFor(j, e)
  PROVE  /\ validate_answer_event(e) /\ ~s.finalized
         /\ e.sequence = s.highest + 1 /\ e.previous = s.last
  <1> USE DEF Verdict
  <1>1. "rejected" # "write" /\ "unavailable" # "write" /\ "conflict" # "write"
        /\ "duplicate" # "write" /\ "gap" # "write"
    OBVIOUS
  <1> QED
    BY <1>1, Zenon

\* A repeated event is the one the journal has.
LEMMA DuplicateFacts ==
  ASSUME NEW j, NEW e, Verdict(j, e) = "duplicate", NEW s, s = SessionFor(j, e)
  PROVE  /\ validate_answer_event(e) /\ e.sequence \in DOMAIN s.event_hashes
         /\ s.event_hashes[e.sequence] = hash_answer_event(e)
  <1> USE DEF Verdict
  <1>1. "rejected" # "duplicate" /\ "unavailable" # "duplicate" /\ "conflict" # "duplicate"
        /\ "write" # "duplicate" /\ "gap" # "duplicate"
    OBVIOUS
  <1> QED
    BY <1>1, Zenon

\* The outcomes of append().
LEMMA VerdictType ==
  ASSUME NEW j, NEW e
  PROVE  Verdict(j, e) \in {"write", "duplicate", "gap", "conflict", "rejected", "unavailable"}
  BY DEF Verdict

\* An event the page numbered has a body as the page makes it.
LEMMA BodyOnChain ==
  ASSUME NEW e \in Event, NEW d \in Digest, NEW k, IsHistory(d, k), Prefix(hash_answer_event(e), d)
  PROVE  IsBody(BodyOf(e), k)
  <1>1. /\ Len(e.previous) \in Nat /\ Len(hash_answer_event(e)) = Len(e.previous) + 1
        /\ hash_answer_event(e)[Len(e.previous) + 1] = BodyOf(e) /\ hash_answer_event(e) \in Digest
    BY HashFacts
  <1>2. PICK n : n = Len(e.previous) + 1
    OBVIOUS
  <1>3. n \in 1..Len(d) /\ BodyOf(e) = d[n]
    BY <1>1, <1>2 DEF Prefix, Digest
  <1> QED
    BY <1>3 DEF IsHistory

\* The answers of a session after an event.
LEMMA AppliedAnswers ==
  ASSUME NEW s, IsEntry(s), AnswersOK(s), NEW e \in Event, e.previous = s.last,
         NEW k, IsBody(BodyOf(e), k)
  PROVE  /\ Apply(s, e).answers \in JournalAnswers
         /\ \A q \in Questions :
              (IF q \in DOMAIN Apply(s, e).answers THEN Apply(s, e).answers[q].answer ELSE NoAnswer)
                 = AnswerIn(hash_answer_event(e), q)
  <1>1. PICK D \in SUBSET Questions : s.answers \in [D -> AnswerState]
    BY DEF IsEntry, JournalAnswers
  <1>2. PICK E : E = QuestionsAfter(s, e)
    OBVIOUS
  <1>3. /\ e.kind = "finalize" => e.question = NoQuestion /\ e.answer = NoAnswer
        /\ e.kind # "finalize" => e.question \in Questions
        /\ e.kind = "clear" => e.answer = NoAnswer
        /\ e.kind \in {"upsert", "clear", "finalize"}
    BY DEF IsBody, BodyOf, Event, Kinds
  <1>4. /\ e.kind = "upsert" => E = D \cup {e.question}
        /\ e.kind = "clear" => E = D \ {e.question}
        /\ e.kind = "finalize" => E = D
    BY <1>1, <1>2 DEF QuestionsAfter
  <1>5. PICK x : x = [sequence |-> e.sequence, answer |-> e.answer, hash |-> hash_answer_event(e)]
    OBVIOUS
  <1>6. x \in AnswerState /\ x.answer = e.answer
    BY <1>5, HashFacts DEF AnswerState, Event
  <1>7. PICK a : a = [q \in E |-> IF q = e.question THEN x ELSE s.answers[q]]
    OBVIOUS
  <1>8. Apply(s, e).answers = a
    BY <1>2, <1>5, <1>7 DEF Apply
  <1>9. E \subseteq Questions
    BY <1>3, <1>4
  <1>10. ASSUME NEW q \in E PROVE q = e.question \/ q \in D
    BY <1>3, <1>4
  <1>11. a \in [E -> AnswerState]
    BY <1>1, <1>6, <1>7, <1>10
  <1>12. a \in JournalAnswers
    BY <1>9, <1>11 DEF JournalAnswers
  <1>13. ASSUME NEW q \in Questions
         PROVE  (IF q \in DOMAIN a THEN a[q].answer ELSE NoAnswer) = AnswerIn(hash_answer_event(e), q)
    <2>1. AnswerIn(hash_answer_event(e), q) = IF e.question = q THEN e.answer ELSE AnswerIn(s.last, q)
      BY AnswerOfEvent
    <2>2. DOMAIN a = E /\ DOMAIN s.answers = D
      BY <1>1, <1>7
    <2>3. CASE e.question = q
      <3>1. e.kind # "finalize"
        BY <1>3, <2>3, PipelineAssumption
      <3>2. CASE e.kind = "upsert"
        <4>1. q \in E /\ a[q] = x
          BY <1>4, <1>7, <2>3, <3>2
        <4> QED
          BY <1>6, <2>1, <2>2, <2>3, <4>1
      <3>3. CASE e.kind = "clear"
        <4>1. q \notin E
          BY <1>4, <2>3, <3>3
        <4> QED
          BY <1>3, <2>1, <2>2, <2>3, <3>3, <4>1
      <3> QED
        BY <1>3, <3>1, <3>2, <3>3
    <2>4. CASE e.question # q
      <3>1. q \in E <=> q \in D
        BY <1>3, <1>4, <2>4
      <3>2. q \in E => a[q] = s.answers[q]
        BY <1>7, <2>4
      <3>3. (IF q \in DOMAIN s.answers THEN s.answers[q].answer ELSE NoAnswer) = AnswerIn(s.last, q)
        BY Zenon DEF AnswersOK
      <3> QED
        BY <2>1, <2>2, <2>4, <3>1, <3>2, <3>3, Zenon
    <2> QED
      BY <2>3, <2>4
  <1> QED
    BY <1>8, <1>12, <1>13

\* A session after the event that follows it.
LEMMA AppliedGood ==
  ASSUME NEW s, IsEntry(s), HashesOK(s), AnswersOK(s), s.highest = Len(s.last),
         NEW e \in Event, e.previous = s.last, e.sequence = s.highest + 1,
         NEW k, IsBody(BodyOf(e), k), NEW x, x = Apply(s, e)
  PROVE  /\ IsEntry(x) /\ HashesOK(x) /\ AnswersOK(x) /\ x.last = hash_answer_event(e)
         /\ x.highest = Len(x.last) /\ x.finalized = FinalChain(x.last)
  <1>1. PICK h : h = hash_answer_event(e)
    OBVIOUS
  <1>2. PICK n \in Nat : n = e.sequence
    BY DEF Event
  <1>3. s.last \in Digest /\ Len(s.last) \in Nat /\ n = Len(s.last) + 1
    BY <1>2 DEF IsEntry, Digest
  <1>4. /\ h \in Digest /\ Len(h) = n /\ Prefix(s.last, h) /\ h # ZeroDigest
        /\ h[n] = BodyOf(e)
    BY <1>1, <1>3, HashFacts
  <1>5. PICK H : H = [l \in DOMAIN s.event_hashes \cup {n} |-> IF l = n THEN h ELSE s.event_hashes[l]]
    OBVIOUS
  <1>6. x.last = h /\ x.highest = n /\ x.event_hashes = H
    BY <1>1, <1>2, <1>5 DEF Apply
  <1>7. PICK f \in BOOLEAN : f = (e.kind = "finalize")
    OBVIOUS
  <1>8. x.finalized = f
    BY <1>7, Zenon DEF Apply
  <1>9. BodyOf(e).kind = e.kind
    BY DEF BodyOf
  <1>10. f = FinalChain(h)
    BY <1>4, <1>7, <1>9, Zenon DEF FinalChain
  <1>11. x.answers \in JournalAnswers /\ AnswersOK(x)
    <2>1. x.answers \in JournalAnswers
      BY AppliedAnswers
    <2>2. \A q \in Questions :
            (IF q \in DOMAIN x.answers THEN x.answers[q].answer ELSE NoAnswer) = AnswerIn(h, q)
      BY <1>1, AppliedAnswers
    <2> QED
      BY <1>6, <2>1, <2>2, Zenon DEF AnswersOK
  <1>12. IsEntry(x)
    BY <1>4, <1>6, <1>7, <1>8, <1>11, Zenon DEF IsEntry
  <1>13. HashesOK(x)
    <2>1. /\ DOMAIN s.event_hashes = 1..Len(s.last)
          /\ \A l \in 1..Len(s.last) : /\ s.event_hashes[l] \in Digest
                                       /\ Len(s.event_hashes[l]) = l
                                       /\ Prefix(s.event_hashes[l], s.last)
      BY Zenon DEF HashesOK
    <2>2. DOMAIN H = 1..n
      BY <1>3, <1>5, <2>1
    <2>3. ASSUME NEW l \in 1..n PROVE H[l] \in Digest /\ Len(H[l]) = l /\ Prefix(H[l], h)
      <3>1. CASE l = n
        <4>1. H[l] = h
          BY <1>5, <3>1
        <4> QED
          BY <1>4, <3>1, <4>1, PrefixRefl
      <3>2. CASE l # n
        <4>1. l \in 1..Len(s.last)
          BY <1>3, <3>2
        <4>2. H[l] = s.event_hashes[l]
          BY <1>5, <2>1, <3>2, <4>1
        <4>3. H[l] \in Digest /\ Len(H[l]) = l /\ Prefix(H[l], s.last)
          BY <2>1, <4>1, <4>2
        <4> QED
          BY <1>3, <1>4, <4>3, PrefixTrans
      <3> QED
        BY <3>1, <3>2
    <2> QED
      BY <1>4, <1>6, <2>2, <2>3 DEF HashesOK
  <1> QED
    BY <1>1, <1>4, <1>6, <1>8, <1>10, <1>11, <1>12, <1>13, Zenon

\* append(): the journal after an event that it writes.
LEMMA WrittenGood ==
  ASSUME NEW j, IndexOK(j), NEW e \in Event, NEW s \in Store, CursorOK(s, e.key),
         JournalOK(s, StateIn(j, e.key)), e.sequence = Len(hash_answer_event(e)),
         Prefix(hash_answer_event(e), Chain(s)), Verdict(j, e) = "write", NEW x, x = Indexed(j, e)
  PROVE  /\ IndexOK(x) /\ JournalOK(s, StateIn(x, e.key))
         /\ StateIn(x, e.key).last = hash_answer_event(e)
         /\ Prefix(StateIn(j, e.key).last, hash_answer_event(e))
         /\ \A y \in Keys : y # e.key => StateIn(x, y) = StateIn(j, y)
         /\ e.sequence # 0 /\ e.key \in DOMAIN x
  <1>1. PICK k \in Keys : k = e.key
    BY DEF Event
  <1>2. PICK r : r = StateIn(j, k)
    OBVIOUS
  <1>3. /\ StateOK(r) /\ Prefix(s.previous, r.last) /\ Prefix(r.last, Chain(s))
    BY <1>1, <1>2, Zenon DEF JournalOK
  <1>4. r.highest = Len(r.last) /\ AnswersOK(r)
    BY <1>3, Zenon DEF StateOK
  <1>5. PICK d : d = SessionFor(j, e)
    OBVIOUS
  <1>6. /\ IsEntry(d) /\ HashesOK(d) /\ AnswersOK(d) /\ d.highest = r.highest /\ d.last = r.last
    BY <1>1, <1>2, <1>4, <1>5, SessionMatches
  <1>7. /\ validate_answer_event(e) /\ e.sequence = d.highest + 1 /\ e.previous = d.last
    BY <1>5, WriteFacts
  <1>8. Chain(s) \in Digest /\ IsHistory(Chain(s), k) /\ s.previous \in Digest
    <2>1. CursorOK(s, k)
      BY <1>1
    <2>2. Chain(s) \in Digest /\ s.previous \in Digest
      BY <2>1, ChainFacts
    <2> QED
      BY <2>1, <2>2, Zenon DEF CursorOK
  <1>9. IsBody(BodyOf(e), k)
    BY <1>8, BodyOnChain
  <1>10. PICK a : a = Apply(d, e)
    OBVIOUS
  <1>11. /\ IsEntry(a) /\ HashesOK(a) /\ AnswersOK(a) /\ a.last = hash_answer_event(e)
         /\ a.highest = Len(a.last) /\ a.finalized = FinalChain(a.last)
    <2>1. d.highest = Len(d.last)
      BY <1>4, <1>6, Zenon
    <2> QED
      BY <1>6, <1>7, <1>9, <1>10, <2>1, AppliedGood
  <1>12. x = [y \in DOMAIN j \cup {k} |-> IF y = k THEN a ELSE j[y]]
    BY <1>1, <1>5, <1>10, Zenon DEF Indexed
  <1>13. DOMAIN x = DOMAIN j \cup {k} /\ x[k] = a /\ \A y \in DOMAIN j : y # k => x[y] = j[y]
    BY <1>12
  <1>14. IndexOK(x)
    BY <1>11, <1>13 DEF IndexOK
  <1>15. PICK z : z = StateIn(x, k)
    OBVIOUS
  <1>16. z.highest = a.highest /\ z.last = a.last /\ z.answers = a.answers
    BY <1>13, <1>15 DEF StateIn
  <1>17. z.finalized = a.finalized
    BY <1>13, <1>15 DEF StateIn
  <1>18. StateOK(z)
    <2>1. AnswersOK(z)
      BY <1>11, <1>16, Zenon DEF AnswersOK
    <2> QED
      BY <1>11, <1>16, <1>17, <2>1, Zenon DEF StateOK
  <1>19. /\ hash_answer_event(e) \in Digest /\ r.last \in Digest
         /\ Prefix(r.last, hash_answer_event(e))
    <2>1. e.previous \in Digest /\ hash_answer_event(e) \in Digest /\ Prefix(e.previous, hash_answer_event(e))
      BY HashFacts
    <2> QED
      BY <1>6, <1>7, <2>1
  <1>20. Prefix(s.previous, hash_answer_event(e))
    BY <1>3, <1>8, <1>19, PrefixTrans
  <1>21. JournalOK(s, z)
    BY <1>11, <1>16, <1>18, <1>20, Zenon DEF JournalOK
  <1>22. ASSUME NEW y \in Keys, y # k PROVE StateIn(x, y) = StateIn(j, y)
    <2>1. y \in DOMAIN x <=> y \in DOMAIN j
      BY <1>13, <1>22
    <2>2. y \in DOMAIN j => x[y] = j[y]
      BY <1>13, <1>22
    <2> QED
      BY <2>1, <2>2, Zenon DEF StateIn
  <1>23. e.sequence # 0
    BY <1>7 DEF validate_answer_event
  <1> QED
    BY <1>1, <1>2, <1>11, <1>13, <1>14, <1>15, <1>16, <1>19, <1>21, <1>22, <1>23, Zenon

\* append(): a repeated event is answered with its own hash, which the journal has.
LEMMA DuplicateGood ==
  ASSUME NEW j, IndexOK(j), NEW e \in Event, StateOK(StateIn(j, e.key)), Verdict(j, e) = "duplicate"
  PROVE  /\ e.key \in DOMAIN j /\ e.sequence # 0
         /\ e.sequence = Len(hash_answer_event(e))
         /\ Prefix(hash_answer_event(e), StateIn(j, e.key).last)
         /\ e.sequence <= j[e.key].highest /\ j[e.key].highest = Len(StateIn(j, e.key).last)
  <1>1. PICK r : r = StateIn(j, e.key)
    OBVIOUS
  <1>2. r.highest = Len(r.last) /\ AnswersOK(r)
    BY <1>1, Zenon DEF StateOK
  <1>3. PICK d : d = SessionFor(j, e)
    OBVIOUS
  <1>4. /\ HashesOK(d) /\ d.last = r.last /\ d.highest = r.highest /\ IsEntry(d)
        /\ e.key \notin DOMAIN j => DOMAIN d.event_hashes = {}
    BY <1>1, <1>2, <1>3, SessionMatches
  <1>5. /\ validate_answer_event(e) /\ e.sequence \in DOMAIN d.event_hashes
        /\ d.event_hashes[e.sequence] = hash_answer_event(e)
    BY <1>3, DuplicateFacts
  <1>6. e.key \in DOMAIN j
    BY <1>4, <1>5
  <1>7. d = j[e.key]
    BY <1>3, <1>6, Zenon DEF SessionFor
  <1>8. /\ DOMAIN d.event_hashes = 1..Len(d.last)
        /\ \A n \in 1..Len(d.last) : /\ Len(d.event_hashes[n]) = n /\ Prefix(d.event_hashes[n], d.last)
    BY <1>4, Zenon DEF HashesOK
  <1>9. e.sequence \in 1..Len(d.last)
    BY <1>5, <1>8
  <1>10. /\ Len(hash_answer_event(e)) = e.sequence /\ Prefix(hash_answer_event(e), d.last)
    BY <1>5, <1>8, <1>9
  <1>11. e.sequence # 0 /\ Len(d.last) \in Nat
    BY <1>4, <1>5 DEF validate_answer_event, IsEntry, Digest
  <1>12. e.sequence <= Len(d.last)
    BY <1>9, <1>11
  <1> QED
    BY <1>1, <1>2, <1>4, <1>6, <1>7, <1>10, <1>11, <1>12, Zenon

-----------------------------------------------------------------------------
(* What a step leaves in order. *)

\* Every chain has stayed or has grown.
Grows(c, d) == \A k \in Keys : Prefix(c[k], d[k])

\* An event the page numbered stays on the chain.
LEMMA OnChainGrows ==
  ASSUME NEW c \in ChainMap, NEW d \in ChainMap, Grows(c, d), NEW e \in Event, OnChain(c, e)
  PROVE  OnChain(d, e)
  <1>1. e.key \in Keys
    BY DEF Event
  <1>2. hash_answer_event(e) \in Digest
    BY HashFacts
  <1>3. c[e.key] \in Digest /\ d[e.key] \in Digest
    BY <1>1 DEF ChainMap
  <1>4. Prefix(c[e.key], d[e.key])
    BY <1>1 DEF Grows
  <1>5. e.sequence = Len(hash_answer_event(e)) /\ Prefix(hash_answer_event(e), c[e.key])
    BY Zenon DEF OnChain
  <1>6. Prefix(hash_answer_event(e), d[e.key])
    BY <1>2, <1>3, <1>4, <1>5, PrefixTrans
  <1> QED
    BY <1>5, <1>6, Zenon DEF OnChain

\* The events that wait or travel stay in order when the chains grow.
LEMMA EventsGrow ==
  ASSUME NEW c \in ChainMap, NEW d \in ChainMap, Grows(c, d)
  PROVE  /\ \A M \in SUBSET PageMessage : EventsOnChain(c, M) => EventsOnChain(d, M)
         /\ \A E \in SUBSET Event : AllOnChain(c, E) => AllOnChain(d, E)
  <1>1. ASSUME NEW M \in SUBSET PageMessage, EventsOnChain(c, M) PROVE EventsOnChain(d, M)
    <2> SUFFICES ASSUME NEW m \in M, m.type = "event" PROVE OnChain(d, m.event)
      BY Zenon DEF EventsOnChain
    <2>1. OnChain(c, m.event)
      BY <1>1, Zenon DEF EventsOnChain
    <2>2. m.event \in Event
      BY DEF PageMessage, RequestMessage
    <2> QED
      BY <2>1, <2>2, OnChainGrows
  <1>2. ASSUME NEW E \in SUBSET Event, AllOnChain(c, E) PROVE AllOnChain(d, E)
    <2> SUFFICES ASSUME NEW e \in E PROVE OnChain(d, e)
      BY Zenon DEF AllOnChain
    <2>1. OnChain(c, e)
      BY <1>2, Zenon DEF AllOnChain
    <2> QED
      BY <2>1, OnChainGrows
  <1> QED
    BY <1>1, <1>2

\* The outbox stays in order when the chains grow.
LEMMA OutboxGrows ==
  ASSUME NEW c \in ChainMap, NEW d \in ChainMap, Grows(c, d), NEW i \in Image, OutboxOK(c, i)
  PROVE  OutboxOK(d, i)
  <1>1. AllOnChain(c, i.events) /\ \A e \in i.events : e.key \in DOMAIN i.watermarks
    BY Zenon DEF OutboxOK
  <1>2. AllOnChain(d, i.events)
    BY <1>1, ImageFields, EventsGrow
  <1>3. ASSUME NEW k \in DOMAIN i.watermarks PROVE MarkOK(d, i, k)
    <2>1. MarkOK(c, i, k)
      BY Zenon DEF OutboxOK
    <2>2. PICK w : w = i.watermarks[k]
      OBVIOUS
    <2>3. k \in Keys /\ w.acknowledged_hash \in Digest /\ w.last \in Digest
      BY <2>2, ImageFields
    <2>4. /\ w.acknowledged_sequence = Len(w.acknowledged_hash)
          /\ Prefix(w.acknowledged_hash, c[k]) /\ w.highest = Len(w.last) /\ Prefix(w.last, c[k])
          /\ w.acknowledged_sequence <= w.highest
          /\ \A e \in EventsOf(i, k) :
                w.acknowledged_sequence < e.sequence /\ e.sequence <= w.highest
          /\ \A n \in (w.acknowledged_sequence + 1)..w.highest : HasEvent(i, k, n)
      BY <2>1, <2>2, Zenon DEF MarkOK
    <2>5. c[k] \in Digest /\ d[k] \in Digest /\ Prefix(c[k], d[k])
      BY <2>3 DEF ChainMap, Grows
    <2>6. Prefix(w.acknowledged_hash, d[k]) /\ Prefix(w.last, d[k])
      BY <2>3, <2>4, <2>5, PrefixTrans
    <2> QED
      BY <2>2, <2>4, <2>6, Zenon DEF MarkOK
  <1> QED
    BY <1>1, <1>2, <1>3, Zenon DEF OutboxOK

\* The parts of a reply.
LEMMA ReplyFields ==
  ASSUME NEW m \in ServerMessage
  PROVE  /\ IsDurable(m) => m.key \in Keys /\ m.hash \in Digest /\ m.sequence \in Nat
                              /\ m.highest \in Nat
         /\ m.type = "state" => m.key \in Keys /\ m.state \in ServerState
                                  /\ m.state.last \in Digest
         /\ m.type = "ack" => m \in AckMessage
         /\ m.type = "start" => m.key \in Keys
  BY DEF ServerMessage, AckMessage, StateMessage, ServerState, IsDurable

\* The replies stay in order when the journal grows.
LEMMA RepliesGrow ==
  ASSUME NEW p \in ChainMap, NEW l \in ChainMap, NEW r \in ChainMap, Grows(l, r),
         NEW M \in SUBSET ServerMessage, RepliesOK(p, l, M)
  PROVE  RepliesOK(p, r, M)
  <1> SUFFICES ASSUME NEW m \in M PROVE ReplyOK(p, r, m)
    BY Zenon DEF RepliesOK
  <1>1. ReplyOK(p, l, m)
    BY Zenon DEF RepliesOK
  <1>2. ASSUME IsDurable(m)
        PROVE  /\ m.sequence # 0 /\ m.sequence = Len(m.hash) /\ Prefix(m.hash, r[m.key])
               /\ m.sequence <= m.highest /\ m.highest <= Len(r[m.key])
    <2>1. /\ m.sequence # 0 /\ m.sequence = Len(m.hash) /\ Prefix(m.hash, l[m.key])
          /\ m.sequence <= m.highest /\ m.highest <= Len(l[m.key])
      BY <1>1, <1>2, Zenon DEF ReplyOK
    <2>2. m.key \in Keys /\ m.hash \in Digest /\ m.highest \in Nat
      BY <1>2, ReplyFields
    <2>3. l[m.key] \in Digest /\ r[m.key] \in Digest /\ Prefix(l[m.key], r[m.key])
      BY <2>2 DEF ChainMap, Grows
    <2>4. Prefix(m.hash, r[m.key])
      BY <2>1, <2>2, <2>3, PrefixTrans
    <2>5. m.highest <= Len(r[m.key])
      BY <2>1, <2>2, <2>3 DEF Prefix, Digest
    <2> QED
      BY <2>1, <2>4, <2>5
  <1>3. ASSUME m.type = "state"
        PROVE  /\ StateOK(m.state) /\ Prefix(p[m.key], m.state.last)
               /\ Prefix(m.state.last, r[m.key])
    <2>1. StateOK(m.state) /\ Prefix(p[m.key], m.state.last) /\ Prefix(m.state.last, l[m.key])
      BY <1>1, <1>3, Zenon DEF ReplyOK
    <2>2. m.key \in Keys /\ m.state.last \in Digest
      BY <1>3, ReplyFields
    <2>3. l[m.key] \in Digest /\ r[m.key] \in Digest /\ Prefix(l[m.key], r[m.key])
      BY <2>2 DEF ChainMap, Grows
    <2> QED
      BY <2>1, <2>2, <2>3, PrefixTrans
  <1> QED
    BY <1>2, <1>3, Zenon DEF ReplyOK

\* The reply h has moved the cursors from p to r, or it has not.
MovedBy(h, p, r) ==
    \A k \in Keys : \/ r[k] = p[k]
                    \/ IsDurable(h) /\ h.key = k /\ r[k] = h.hash
                    \/ h.type = "state" /\ h.key = k /\ r[k] = h.state.last

\* A cursor that follows the first reply stays behind the others.
LEMMA RepliesMoved ==
  ASSUME NEW p, NEW r, NEW l, NEW h, MovedBy(h, p, r),
         NEW M \in SUBSET ServerMessage, RepliesOK(p, l, M), AllBefore({h}, M)
  PROVE  RepliesOK(r, l, M)
  <1> SUFFICES ASSUME NEW m \in M PROVE ReplyOK(r, l, m)
    BY Zenon DEF RepliesOK
  <1>1. ReplyOK(p, l, m)
    BY Zenon DEF RepliesOK
  <1>2. Before(h, m)
    BY DEF AllBefore
  <1>3. ASSUME m.type = "state" PROVE Prefix(r[m.key], m.state.last)
    <2>1. Prefix(p[m.key], m.state.last)
      BY <1>1, <1>3, Zenon DEF ReplyOK
    <2>2. m.key \in Keys
      BY <1>3, ReplyFields
    <2>3. /\ IsDurable(h) /\ h.key = m.key => Prefix(h.hash, m.state.last)
          /\ h.type = "state" /\ h.key = m.key => Prefix(h.state.last, m.state.last)
      BY <1>2, <1>3, Zenon DEF Before
    <2> QED
      BY <2>1, <2>2, <2>3, Zenon DEF MovedBy
  <1> QED
    BY <1>1, <1>3, Zenon DEF ReplyOK

\* Replies the page hears of stay behind the boundary of the outbox.
LEMMA AcksStay ==
  ASSUME NEW i \in Image, NEW j \in Image, MarksKept(i, j), NEW M \in SUBSET ServerMessage,
         AcksGone(i, M)
  PROVE  AcksGone(j, M)
  <1> SUFFICES ASSUME NEW m \in M, IsDurable(m)
               PROVE  /\ m.key \in DOMAIN j.watermarks
                      /\ m.sequence <= j.watermarks[m.key].acknowledged_sequence
    BY Zenon DEF AcksGone, GoneOK
  <1>1. /\ m.key \in DOMAIN i.watermarks
        /\ m.sequence <= i.watermarks[m.key].acknowledged_sequence
    BY Zenon DEF AcksGone, GoneOK
  <1>2. /\ m.key \in DOMAIN j.watermarks
        /\ i.watermarks[m.key].acknowledged_sequence <= j.watermarks[m.key].acknowledged_sequence
    BY <1>1 DEF MarksKept
  <1> QED
    BY <1>1, <1>2, ImageFields, ReplyFields

\* A reply that says what the journal has now, or says nothing of it, comes last.
LEMMA LastReply ==
  ASSUME NEW p, NEW l, NEW M, RepliesOK(p, l, M), NEW n,
         n.type = "state" => n.state.last = l[n.key]
  PROVE  AllBefore(M, {n})
  <1> SUFFICES ASSUME NEW m \in M, n.type = "state"
               PROVE  /\ IsDurable(m) /\ m.key = n.key => Prefix(m.hash, n.state.last)
                      /\ m.type = "state" /\ m.key = n.key => Prefix(m.state.last, n.state.last)
    BY DEF AllBefore, Before
  <1>1. ReplyOK(p, l, m)
    BY Zenon DEF RepliesOK
  <1> QED
    BY <1>1, Zenon DEF ReplyOK

\* What the invariant says of one session.
SessionHolds(k) ==
    /\ store[k] \in Store /\ typed[k] \in TypedSet /\ StateIn(journal, k) \in ServerState
    /\ StoreOK(store[k], k, typed[k]) /\ CursorOK(store[k], k)
    /\ JournalOK(store[k], StateIn(journal, k))
    /\ Chains[k] = Chain(store[k]) /\ Cursors[k] = store[k].previous
    /\ Lasts[k] = StateIn(journal, k).last
    /\ Chain(store[k]) \in Digest /\ store[k].previous \in Digest
    /\ StateIn(journal, k).last \in Digest

\* Every session is in order.
LEMMA SessionsHold ==
  ASSUME PipelineTypeOK, StoresOK, JournalsOK
  PROVE  /\ Chains \in ChainMap /\ Histories(Chains) /\ Cursors \in ChainMap
         /\ Lasts \in ChainMap /\ Grows(Lasts, Chains) /\ IndexOK(journal)
         /\ \A k \in Keys : SessionHolds(k)
  <1>1. IndexOK(journal)
    BY DEF PipelineTypeOK, JournalsOK, IndexOK
  <1>2. ASSUME NEW k \in Keys
        PROVE  /\ SessionHolds(k) /\ IsHistory(Chain(store[k]), k)
               /\ Prefix(StateIn(journal, k).last, Chain(store[k]))
    <2>1. store[k] \in Store /\ typed[k] \in TypedSet
      BY DEF PipelineTypeOK, TypedSet
    <2>2. StateIn(journal, k) \in ServerState
      BY <1>1, StateInFacts
    <2>3. StoreOK(store[k], k, typed[k]) /\ JournalOK(store[k], StateIn(journal, k))
      BY Zenon DEF StoresOK
    <2>4. CursorOK(store[k], k)
      BY <2>3, Zenon DEF StoreOK
    <2>5. Chain(store[k]) \in Digest /\ store[k].previous \in Digest
      BY <2>1, <2>4, ChainFacts
    <2>6. StateIn(journal, k).last \in Digest
      BY <2>2 DEF ServerState
    <2>7. IsHistory(Chain(store[k]), k)
      BY <2>4, Zenon DEF CursorOK
    <2>8. Prefix(StateIn(journal, k).last, Chain(store[k]))
      BY <2>3, Zenon DEF JournalOK
    <2>9. /\ Chains[k] = Chain(store[k]) /\ Cursors[k] = store[k].previous
          /\ Lasts[k] = StateIn(journal, k).last
      BY DEF Chains, Cursors, Lasts
    <2> QED
      BY <2>1, <2>2, <2>3, <2>4, <2>5, <2>6, <2>7, <2>8, <2>9, Zenon DEF SessionHolds
  <1>3. Chains \in ChainMap
    <2>1. \A k \in Keys : Chain(store[k]) \in Digest
      BY <1>2, Zenon DEF SessionHolds
    <2> QED
      BY <2>1 DEF Chains, ChainMap
  <1>4. Cursors \in ChainMap
    <2>1. \A k \in Keys : store[k].previous \in Digest
      BY <1>2, Zenon DEF SessionHolds
    <2> QED
      BY <2>1 DEF Cursors, ChainMap
  <1>5. Lasts \in ChainMap
    <2>1. \A k \in Keys : StateIn(journal, k).last \in Digest
      BY <1>2, Zenon DEF SessionHolds
    <2> QED
      BY <2>1 DEF Lasts, ChainMap
  <1>6. Histories(Chains)
    <2> SUFFICES ASSUME NEW k \in Keys PROVE IsHistory(Chains[k], k)
      BY Zenon DEF Histories
    <2>1. Chains[k] = Chain(store[k])
      BY <1>2, Zenon DEF SessionHolds
    <2> QED
      BY <1>2, <2>1, Zenon
  <1>7. Grows(Lasts, Chains)
    <2> SUFFICES ASSUME NEW k \in Keys PROVE Prefix(Lasts[k], Chains[k])
      BY Zenon DEF Grows
    <2>1. Chains[k] = Chain(store[k]) /\ Lasts[k] = StateIn(journal, k).last
      BY <1>2, Zenon DEF SessionHolds
    <2> QED
      BY <1>2, <2>1, Zenon
  <1> QED
    BY <1>1, <1>2, <1>3, <1>4, <1>5, <1>6, <1>7

\* What the queues hold.
LEMMA QueuesTyped ==
  ASSUME PipelineTypeOK
  PROVE  /\ Elems(bridge) \subseteq PageMessage /\ Elems(toServer) \subseteq PageMessage
         /\ Elems(ingress) \subseteq Event /\ Elems(requests) \subseteq RequestMessage
         /\ Elems(agentQueue) \subseteq ServerMessage /\ Elems(toClient) \subseteq ServerMessage
  BY ElemsOf DEF PipelineTypeOK

\* A part of what was in order is in order.
LEMMA PartsHold ==
  /\ \A c, M, N : N \subseteq M /\ EventsOnChain(c, M) => EventsOnChain(c, N)
  /\ \A c, M, N : N \subseteq M /\ AllOnChain(c, M) => AllOnChain(c, N)
  /\ \A p, l, M, N : N \subseteq M /\ RepliesOK(p, l, M) => RepliesOK(p, l, N)
  /\ \A i, M, N : N \subseteq M /\ AcksGone(i, M) => AcksGone(i, N)
  /\ \A A, B, M, N : A \subseteq M /\ B \subseteq N /\ AllBefore(M, N) => AllBefore(A, B)
  BY DEF EventsOnChain, AllOnChain, RepliesOK, AcksGone, AllBefore

\* Two parts in order are in order together.
LEMMA UnionsHold ==
  /\ \A c, M, N : EventsOnChain(c, M) /\ EventsOnChain(c, N) => EventsOnChain(c, M \cup N)
  /\ \A c, M, N : AllOnChain(c, M) /\ AllOnChain(c, N) => AllOnChain(c, M \cup N)
  /\ \A p, l, M, N : RepliesOK(p, l, M) /\ RepliesOK(p, l, N) => RepliesOK(p, l, M \cup N)
  /\ \A i, M, N : AcksGone(i, M) /\ AcksGone(i, N) => AcksGone(i, M \cup N)
  /\ \A A, M, N : AllBefore(A, M) /\ AllBefore(A, N) => AllBefore(A, M \cup N)
  /\ \A A, M, N : AllBefore(M, A) /\ AllBefore(N, A) => AllBefore(M \cup N, A)
  BY DEF EventsOnChain, AllOnChain, RepliesOK, AcksGone, AllBefore

\* Nothing is in order.
LEMMA NothingHolds ==
  /\ \A c : EventsOnChain(c, {}) /\ AllOnChain(c, {})
  /\ \A p, l : RepliesOK(p, l, {})
  /\ \A i : AcksGone(i, {})
  /\ \A M : AllBefore(M, {}) /\ AllBefore({}, M)
  BY DEF EventsOnChain, AllOnChain, RepliesOK, AcksGone, AllBefore

\* The chains, the cursors and the journal stay where nothing is typed, posted or written.
LEMMA SessionsStay ==
  ASSUME StoresOK, JournalsOK, UNCHANGED <<store, typed, journal>>
  PROVE  StoresOK' /\ JournalsOK' /\ Chains' = Chains /\ Cursors' = Cursors /\ Lasts' = Lasts
  BY DEF StoresOK, JournalsOK, Chains, Cursors, Lasts

\* A step that leaves the sessions and the journal alone.
LEMMA QuietStep ==
  ASSUME PipelineIInv, UNCHANGED <<store, typed, journal>>, PipelineTypeOK', ~page'.conflict,
         EventsHold(Chains, bridge', toServer', ingress', outbox'),
         MessagesHold(Cursors, Lasts, agentQueue', toClient', outbox')
  PROVE  PipelineIInv'
  <1>1. StoresOK' /\ JournalsOK' /\ Chains' = Chains /\ Cursors' = Cursors /\ Lasts' = Lasts
    BY SessionsStay DEF PipelineIInv
  <1>2. EventsOK'
    BY <1>1, Zenon DEF EventsOK, EventsHold
  <1>3. MessagesOK'
    BY <1>1, Zenon DEF MessagesOK, MessagesHold
  <1> QED
    BY <1>1, <1>2, <1>3 DEF PipelineIInv, NoManualReview

\* The parts of the invariant.
LEMMA InvariantParts ==
  ASSUME PipelineIInv
  PROVE  /\ PipelineTypeOK /\ StoresOK /\ JournalsOK /\ ~page.conflict
         /\ EventsHold(Chains, bridge, toServer, ingress, outbox)
         /\ MessagesHold(Cursors, Lasts, agentQueue, toClient, outbox)
  BY Zenon DEF PipelineIInv, EventsOK, MessagesOK, EventsHold, MessagesHold, NoManualReview

-----------------------------------------------------------------------------
(* The service. *)

\* ServiceEvent, ServiceEventUnwritten: the event is in the outbox or it waits in memory.
LEMMA ServiceEventKeeps ==
  ASSUME PipelineIInv, ServiceEvent \/ ServiceEventUnwritten
  PROVE  PipelineIInv'
  <1>1. /\ PipelineTypeOK /\ StoresOK /\ JournalsOK /\ ~page.conflict
        /\ EventsHold(Chains, bridge, toServer, ingress, outbox)
        /\ MessagesHold(Cursors, Lasts, agentQueue, toClient, outbox)
    BY InvariantParts
  <1>2. Chains \in ChainMap
    BY <1>1, SessionsHold
  <1>3. PICK e : e = Head(bridge).event
    OBVIOUS
  <1>4. /\ bridge # <<>> /\ Head(bridge).type = "event" /\ bridge' = Tail(bridge)
        /\ UNCHANGED <<pageVars, agentQueue, requests, inflight, delayed, linkVars, serverVars, typed>>
        /\ \/ outbox' = enqueue(outbox, e).image /\ ingress' = ingress
           \/ outbox' = outbox /\ ingress' = Queued(ingress, MaxIngress, e)
    BY <1>3 DEF ServiceEvent, ServiceEventUnwritten, FromPage, history
  <1>5. bridge \in Seq(PageMessage) /\ outbox \in Image /\ ingress \in Seq(Event)
    BY <1>1 DEF PipelineTypeOK
  <1>6. /\ Head(bridge) \in Elems(bridge) /\ Elems(bridge) \subseteq PageMessage
        /\ bridge' \in Seq(PageMessage) /\ Elems(bridge') \subseteq Elems(bridge)
    BY <1>4, <1>5, ElemsOf
  <1>7. /\ EventsOnChain(Chains, Elems(bridge)) /\ EventsOnChain(Chains, Elems(toServer))
        /\ AllOnChain(Chains, Elems(ingress)) /\ OutboxOK(Chains, outbox)
    BY <1>1, Zenon DEF EventsHold
  <1>8. e \in Event /\ OnChain(Chains, e)
    <2>1. e \in Event
      BY <1>3, <1>4, <1>6 DEF PageMessage, RequestMessage
    <2>2. OnChain(Chains, e)
      BY <1>3, <1>4, <1>6, <1>7, Zenon DEF EventsOnChain
    <2> QED
      BY <2>1, <2>2
  <1>9. outbox' \in Image /\ OutboxOK(Chains, outbox') /\ MarksKept(outbox, outbox')
    <2>1. GoodImage(Chains, outbox, outbox) /\ GoodImage(Chains, outbox, enqueue(outbox, e).image)
      BY <1>2, <1>5, <1>7, <1>8, SameImage, EnqueueGood
    <2>2. GoodImage(Chains, outbox, outbox')
      BY <1>4, <2>1, Zenon
    <2> QED
      BY <2>2, Zenon DEF GoodImage
  <1>10. ingress' \in Seq(Event) /\ AllOnChain(Chains, Elems(ingress'))
    <2>1. CASE ingress' = ingress
      BY <1>5, <1>7, <2>1
    <2>2. CASE ingress' = Queued(ingress, MaxIngress, e)
      <3>1. ingress' \in Seq(Event) /\ Elems(ingress') \subseteq Elems(ingress) \cup {e}
        BY <1>5, <1>8, <2>2, ElemsQueued, PipelineAssumption
      <3>2. AllOnChain(Chains, {e})
        BY <1>8 DEF AllOnChain
      <3>3. AllOnChain(Chains, Elems(ingress) \cup {e})
        BY <1>7, <3>2, UnionsHold
      <3> QED
        BY <3>1, <3>3, PartsHold
    <2> QED
      BY <1>4, <2>1, <2>2
  <1>11. PipelineTypeOK'
    BY <1>1, <1>4, <1>6, <1>9, <1>10
      DEF PipelineTypeOK, pageVars, linkVars, serverVars
  <1>12. EventsHold(Chains, bridge', toServer', ingress', outbox')
    <2>1. EventsOnChain(Chains, Elems(bridge'))
      BY <1>6, <1>7, PartsHold
    <2>2. toServer' = toServer
      BY <1>4 DEF linkVars
    <2> QED
      BY <1>7, <1>9, <1>10, <2>1, <2>2, Zenon DEF EventsHold
  <1>13. MessagesHold(Cursors, Lasts, agentQueue', toClient', outbox')
    <2>1. agentQueue' = agentQueue /\ toClient' = toClient
      BY <1>4 DEF linkVars
    <2>2. AcksGone(outbox, Elems(agentQueue))
      BY <1>1, Zenon DEF MessagesHold
    <2>3. AcksGone(outbox', Elems(agentQueue))
      BY <1>1, <1>5, <1>9, <2>2, AcksStay, QueuesTyped
    <2> QED
      BY <1>1, <2>1, <2>3, Zenon DEF MessagesHold
  <1>14. UNCHANGED <<store, typed, journal>> /\ ~page'.conflict
    BY <1>1, <1>4 DEF pageVars, serverVars
  <1> QED
    BY <1>11, <1>12, <1>13, <1>14, QuietStep

\* A step that leaves alone what travels to the page.
LEMMA SendingStep ==
  ASSUME PipelineIInv, UNCHANGED <<store, typed, journal, agentQueue, toClient>>,
         PipelineTypeOK', ~page'.conflict, MarksKept(outbox, outbox'),
         EventsHold(Chains, bridge', toServer', ingress', outbox')
  PROVE  PipelineIInv'
  <1>1. PipelineTypeOK /\ MessagesHold(Cursors, Lasts, agentQueue, toClient, outbox)
    BY InvariantParts
  <1>2. outbox \in Image /\ outbox' \in Image
    BY <1>1 DEF PipelineTypeOK
  <1>3. AcksGone(outbox, Elems(agentQueue))
    BY <1>1, Zenon DEF MessagesHold
  <1>4. AcksGone(outbox', Elems(agentQueue))
    BY <1>1, <1>2, <1>3, AcksStay, QueuesTyped
  <1>5. MessagesHold(Cursors, Lasts, agentQueue', toClient', outbox')
    BY <1>1, <1>4, Zenon DEF MessagesHold
  <1> QED
    BY <1>5, QuietStep

\* ServiceRequest: a state request of the page is queued.
LEMMA ServiceRequestKeeps ==
  ASSUME PipelineIInv, ServiceRequest
  PROVE  PipelineIInv'
  <1>1. /\ PipelineTypeOK /\ ~page.conflict
        /\ EventsHold(Chains, bridge, toServer, ingress, outbox)
    BY InvariantParts
  <1>2. /\ bridge # <<>> /\ Head(bridge).type = "request" /\ bridge' = Tail(bridge)
        /\ requests' = Queued(requests, MaxRequests, Head(bridge))
        /\ UNCHANGED <<pageVars, agentQueue, outbox, ingress, inflight, delayed,
                       linkVars, serverVars, history>>
    BY DEF ServiceRequest, FromPage
  <1>3. bridge \in Seq(PageMessage) /\ requests \in Seq(RequestMessage) /\ outbox \in Image
    BY <1>1 DEF PipelineTypeOK
  <1>4. /\ Head(bridge) \in PageMessage
        /\ bridge' \in Seq(PageMessage) /\ Elems(bridge') \subseteq Elems(bridge)
    BY <1>2, <1>3, ElemsOf
  <1>5. Head(bridge) \in RequestMessage
    BY <1>2, <1>4 DEF PageMessage, RequestMessage
  <1>6. requests' \in Seq(RequestMessage)
    BY <1>2, <1>3, <1>5, ElemsQueued, PipelineAssumption
  <1>7. PipelineTypeOK'
    BY <1>1, <1>2, <1>4, <1>6
      DEF PipelineTypeOK, pageVars, linkVars, serverVars, history
  <1>8. EventsHold(Chains, bridge', toServer', ingress', outbox')
    <2>1. toServer' = toServer /\ ingress' = ingress /\ outbox' = outbox
      BY <1>2 DEF linkVars
    <2>2. EventsOnChain(Chains, Elems(bridge'))
      BY <1>1, <1>4, PartsHold DEF EventsHold
    <2> QED
      BY <1>1, <2>1, <2>2, Zenon DEF EventsHold
  <1>9. MarksKept(outbox, outbox')
    BY <1>2, <1>3, MarksKeptRefl
  <1> QED
    BY <1>1, <1>2, <1>7, <1>8, <1>9, SendingStep DEF pageVars, linkVars, serverVars, history

\* Connect: the events that wait in memory are offered to the outbox again.
LEMMA ConnectKeeps ==
  ASSUME PipelineIInv, Connect
  PROVE  PipelineIInv'
  <1>1. /\ PipelineTypeOK /\ StoresOK /\ JournalsOK /\ ~page.conflict
        /\ EventsHold(Chains, bridge, toServer, ingress, outbox)
    BY InvariantParts
  <1>2. /\ outbox' = Drained.image /\ ingress' = Drained.left
        /\ UNCHANGED <<pageVars, bridge, agentQueue, requests, inflight, delayed,
                       toServer, toClient, serverVars, history>>
    BY Zenon DEF Connect
  <1>3. Chains \in ChainMap
    BY <1>1, SessionsHold
  <1>4. outbox \in Image /\ ingress \in Seq(Event)
    BY <1>1 DEF PipelineTypeOK
  <1>5. OutboxOK(Chains, outbox) /\ AllOnChain(Chains, Elems(ingress))
    BY <1>1, Zenon DEF EventsHold
  <1>6. /\ GoodImage(Chains, outbox, outbox')
        /\ ingress' \in Seq(Event) /\ AllOnChain(Chains, Elems(ingress'))
    BY <1>2, <1>3, <1>4, <1>5, DrainedGood
  <1>7. outbox' \in Image /\ OutboxOK(Chains, outbox') /\ MarksKept(outbox, outbox')
    BY <1>6, Zenon DEF GoodImage
  <1>8. PipelineTypeOK'
    BY <1>1, <1>2, <1>6, <1>7 DEF PipelineTypeOK, pageVars, serverVars, history
  <1>9. EventsHold(Chains, bridge', toServer', ingress', outbox')
    BY <1>1, <1>2, <1>6, <1>7, Zenon DEF EventsHold
  <1> QED
    BY <1>1, <1>2, <1>7, <1>8, <1>9, SendingStep DEF pageVars, serverVars, history

\* What is sent to the server.
LEMMA SentInOrder ==
  ASSUME PipelineIInv, NEW m \in PageMessage, EventsOnChain(Chains, {m}), toServer' = SentOn(m)
  PROVE  toServer' \in Seq(PageMessage) /\ EventsOnChain(Chains, Elems(toServer'))
  <1>1. toServer \in Seq(PageMessage) /\ EventsOnChain(Chains, Elems(toServer))
    BY InvariantParts, Zenon DEF PipelineTypeOK, EventsHold
  <1>2. CASE toServer' = toServer
    BY <1>1, <1>2
  <1>3. CASE toServer' = Append(toServer, m)
    <2>1. toServer' \in Seq(PageMessage) /\ Elems(toServer') = Elems(toServer) \cup {m}
      BY <1>1, <1>3, ElemsOf
    <2> QED
      BY <1>1, <2>1, UnionsHold
  <1> QED
    BY <1>2, <1>3 DEF SentOn

\* SendRequest: the next request is sent.
LEMMA SendRequestKeeps ==
  ASSUME PipelineIInv, SendRequest
  PROVE  PipelineIInv'
  <1>1. /\ PipelineTypeOK /\ ~page.conflict
        /\ EventsHold(Chains, bridge, toServer, ingress, outbox)
    BY InvariantParts
  <1>2. /\ requests # <<>> /\ requests' = Tail(requests) /\ toServer' = SentOn(Head(requests))
        /\ UNCHANGED <<pageVars, bridge, agentQueue, outbox, ingress, inflight,
                       delayed, link, toClient, serverVars, history>>
    BY Zenon DEF SendRequest
  <1>3. requests \in Seq(RequestMessage) /\ outbox \in Image
    BY <1>1 DEF PipelineTypeOK
  <1>4. Head(requests) \in RequestMessage /\ requests' \in Seq(RequestMessage)
    BY <1>2, <1>3, ElemsOf
  <1>5. Head(requests) \in PageMessage /\ EventsOnChain(Chains, {Head(requests)})
    BY <1>4 DEF PageMessage, RequestMessage, EventsOnChain
  <1>6. toServer' \in Seq(PageMessage) /\ EventsOnChain(Chains, Elems(toServer'))
    BY <1>2, <1>5, SentInOrder
  <1>7. PipelineTypeOK'
    BY <1>1, <1>2, <1>4, <1>6 DEF PipelineTypeOK, pageVars, serverVars, history
  <1>8. EventsHold(Chains, bridge', toServer', ingress', outbox')
    BY <1>1, <1>2, <1>6, Zenon DEF EventsHold
  <1>9. MarksKept(outbox, outbox')
    BY <1>2, <1>3, MarksKeptRefl
  <1> QED
    BY <1>1, <1>2, <1>7, <1>8, <1>9, SendingStep DEF pageVars, serverVars, history

\* SendEvent: an event of the outbox is sent.
LEMMA SendEventKeeps ==
  ASSUME PipelineIInv, NEW e \in outbox.events, SendEvent(e)
  PROVE  PipelineIInv'
  <1>1. /\ PipelineTypeOK /\ ~page.conflict
        /\ EventsHold(Chains, bridge, toServer, ingress, outbox)
    BY InvariantParts
  <1>2. /\ inflight' = inflight \cup {e} /\ toServer' = SentOn(PostEvent(e))
        /\ UNCHANGED <<pageVars, bridge, agentQueue, outbox, ingress, requests,
                       delayed, link, toClient, serverVars, history>>
    BY Zenon DEF SendEvent
  <1>3. outbox \in Image
    BY <1>1 DEF PipelineTypeOK
  <1>4. e \in Event
    BY <1>3, ImageFields
  <1>5. OnChain(Chains, e)
    BY <1>1, Zenon DEF EventsHold, OutboxOK, AllOnChain
  <1>6. PostEvent(e) \in PageMessage /\ PostEvent(e).event = e
    BY <1>4 DEF PostEvent, PageMessage, Event
  <1>7. EventsOnChain(Chains, {PostEvent(e)})
    BY <1>5, <1>6, Zenon DEF EventsOnChain
  <1>8. toServer' \in Seq(PageMessage) /\ EventsOnChain(Chains, Elems(toServer'))
    BY <1>2, <1>6, <1>7, SentInOrder
  <1>9. PipelineTypeOK'
    BY <1>1, <1>2, <1>4, <1>8 DEF PipelineTypeOK, pageVars, serverVars, history
  <1>10. EventsHold(Chains, bridge', toServer', ingress', outbox')
    BY <1>1, <1>2, <1>8, Zenon DEF EventsHold
  <1>11. MarksKept(outbox, outbox')
    BY <1>2, <1>3, MarksKeptRefl
  <1> QED
    BY <1>1, <1>2, <1>9, <1>10, <1>11, SendingStep DEF pageVars, serverVars, history

\* InflightTimeout, DelayPasses: an event may be sent again.
LEMMA TimersKeep ==
  ASSUME PipelineIInv, NEW e, InflightTimeout(e) \/ DelayPasses(e)
  PROVE  PipelineIInv'
  <1>1. /\ PipelineTypeOK /\ ~page.conflict
        /\ EventsHold(Chains, bridge, toServer, ingress, outbox)
    BY InvariantParts
  <1>2. /\ inflight' \subseteq inflight
        /\ UNCHANGED <<pageVars, bridge, agentQueue, outbox, ingress, requests,
                       linkVars, serverVars, history>>
    BY DEF InflightTimeout, DelayPasses
  <1>3. PipelineTypeOK'
    BY <1>1, <1>2 DEF PipelineTypeOK, pageVars, linkVars, serverVars, history
  <1>4. EventsHold(Chains, bridge', toServer', ingress', outbox')
    <2>1. toServer' = toServer
      BY <1>2 DEF linkVars
    <2> QED
      BY <1>1, <1>2, <2>1, Zenon
  <1>5. MarksKept(outbox, outbox')
    BY <1>1, <1>2, MarksKeptRefl DEF PipelineTypeOK
  <1> QED
    BY <1>1, <1>2, <1>3, <1>4, <1>5, SendingStep DEF pageVars, linkVars, serverVars, history

\* The next reply of the server leaves the connection; it is passed on or it ends here.
LEMMA PassedOn ==
  ASSUME NEW p, NEW l, NEW a \in Seq(ServerMessage), NEW t \in Seq(ServerMessage), t # <<>>,
         NEW i \in Image, NEW j \in Image, MessagesHold(p, l, a, t, i), MarksKept(i, j),
         NEW b, b = a \/ (b = Append(a, Head(t)) /\ GoneOK(j, Head(t)))
  PROVE  /\ b \in Seq(ServerMessage) /\ Tail(t) \in Seq(ServerMessage)
         /\ MessagesHold(p, l, b, Tail(t), j)
  <1>1. /\ RepliesOK(p, l, Elems(a)) /\ RepliesOK(p, l, Elems(t)) /\ InOrder(a) /\ InOrder(t)
        /\ AllBefore(Elems(a), Elems(t)) /\ AcksGone(i, Elems(a))
    BY Zenon DEF MessagesHold
  <1>2. PICK h : h = Head(t)
    OBVIOUS
  <1>3. /\ Elems(a) \subseteq ServerMessage /\ Elems(t) \subseteq ServerMessage
        /\ h \in Elems(t) /\ Tail(t) \in Seq(ServerMessage) /\ Elems(Tail(t)) \subseteq Elems(t)
    BY <1>2, ElemsOf
  <1>4. InOrder(Tail(t)) /\ AllBefore({h}, Elems(Tail(t)))
    BY <1>1, <1>2, OrderOfTail
  <1>5. RepliesOK(p, l, Elems(Tail(t))) /\ AllBefore(Elems(a), Elems(Tail(t)))
    BY <1>1, <1>3, PartsHold
  <1>6. AcksGone(j, Elems(a))
    BY <1>1, <1>3, AcksStay
  <1>7. CASE b = a
    BY <1>1, <1>3, <1>4, <1>5, <1>6, <1>7, Zenon DEF MessagesHold
  <1>8. CASE b = Append(a, h) /\ GoneOK(j, h)
    <2>1. b \in Seq(ServerMessage) /\ Elems(b) = Elems(a) \cup {h}
      BY <1>3, <1>8, ElemsOf
    <2>2. RepliesOK(p, l, {h}) /\ AllBefore(Elems(a), {h})
      <3>1. {h} \subseteq Elems(t) /\ Elems(a) \subseteq Elems(a)
        BY <1>3
      <3> QED
        BY <1>1, <3>1, PartsHold
    <2>3. AcksGone(j, {h})
      BY <1>8 DEF AcksGone
    <2>4. InOrder(b)
      BY <1>1, <1>3, <1>8, <2>2, OrderOfAppend
    <2>5. RepliesOK(p, l, Elems(b)) /\ AcksGone(j, Elems(b)) /\ AllBefore(Elems(b), Elems(Tail(t)))
      BY <1>1, <1>4, <1>5, <1>6, <2>1, <2>2, <2>3, UnionsHold
    <2> QED
      BY <1>3, <1>4, <1>5, <2>1, <2>4, <2>5, Zenon DEF MessagesHold
  <1> QED
    BY <1>2, <1>7, <1>8

\* ServiceAck, ServiceAckUnwritten: the event leaves the outbox before the page hears of it.
LEMMA HandleAckKeeps ==
  ASSUME PipelineIInv, NEW written \in BOOLEAN, HandleAck(written)
  PROVE  PipelineIInv'
  <1>1. /\ PipelineTypeOK /\ StoresOK /\ JournalsOK /\ ~page.conflict
        /\ EventsHold(Chains, bridge, toServer, ingress, outbox)
        /\ MessagesHold(Cursors, Lasts, agentQueue, toClient, outbox)
    BY InvariantParts
  <1>2. PICK ack : ack = Head(toClient)
    OBVIOUS
  <1>3. PICK r : r = acknowledge(outbox, SessionId[ack.key], ack.sequence, ack.hash)
    OBVIOUS
  <1>4. /\ toClient # <<>> /\ ack.type = "ack" /\ toClient' = Tail(toClient)
        /\ \/ ack.status \in Durable /\ r.ok /\ outbox' = r.image
           \/ outbox' = outbox
        /\ \/ agentQueue' = agentQueue
           \/ /\ agentQueue' = Append(agentQueue, ack)
              /\ ack.status \in Durable => r.ok /\ outbox' = r.image
        /\ inflight' \subseteq inflight
        /\ UNCHANGED <<pageVars, bridge, ingress, requests, serverVars, typed, link, toServer>>
    <2> DEFINE durable == ack.status \in Durable
               retired == durable /\ written /\ r.ok
    <2>1. /\ toClient # <<>> /\ ack.type = "ack" /\ toClient' = Tail(toClient)
          /\ outbox' = IF retired THEN r.image ELSE outbox
          /\ inflight' = inflight \ Matching(ack)
          /\ agentQueue' = IF Forwarded(ack, durable, retired)
                           THEN Append(agentQueue, ack) ELSE agentQueue
          /\ UNCHANGED <<pageVars, bridge, ingress, requests, serverVars, typed, link, toServer>>
      BY <1>2, <1>3, Zenon DEF HandleAck, FromServer, Durable
    <2>2. Forwarded(ack, durable, retired) => (durable => retired)
      BY DEF Forwarded
    <2>3. inflight' \subseteq inflight
      BY <2>1
    <2>4. \/ durable /\ r.ok /\ outbox' = r.image
          \/ outbox' = outbox
      BY <2>1, Zenon
    <2>5. \/ agentQueue' = agentQueue
          \/ agentQueue' = Append(agentQueue, ack) /\ (durable => r.ok /\ outbox' = r.image)
      BY <2>1, <2>2, Zenon
    <2> QED
      BY <2>1, <2>3, <2>4, <2>5
  <1>5. /\ toClient \in Seq(ServerMessage) /\ agentQueue \in Seq(ServerMessage) /\ outbox \in Image
    BY <1>1 DEF PipelineTypeOK
  <1>6. ack \in Elems(toClient) /\ ack \in ServerMessage
    BY <1>2, <1>4, <1>5, ElemsOf
  <1>7. ack \in AckMessage
    BY <1>4, <1>6, ReplyFields
  <1>8. /\ Chains \in ChainMap /\ Histories(Chains) /\ Lasts \in ChainMap /\ Grows(Lasts, Chains)
    BY <1>1, SessionsHold
  <1>9. OutboxOK(Chains, outbox) /\ ReplyOK(Cursors, Lasts, ack)
    BY <1>1, <1>6, Zenon DEF EventsHold, MessagesHold, RepliesOK
  <1>10. ASSUME ack.status \in Durable
         PROVE  GoodImage(Chains, outbox, r.image) /\ (r.ok => GoneOK(r.image, ack))
    <2>1. IsDurable(ack)
      BY <1>4, <1>10, Zenon DEF IsDurable
    <2>2. ack.key \in Keys /\ ack.hash \in Digest /\ ack.sequence \in Nat
      BY <1>6, <2>1, ReplyFields
    <2>3. ack.sequence # 0 /\ ack.sequence = Len(ack.hash) /\ Prefix(ack.hash, Lasts[ack.key])
      BY <1>9, <2>1, Zenon DEF ReplyOK
    <2>4. Prefix(Lasts[ack.key], Chains[ack.key])
      BY <1>8, <2>2 DEF Grows
    <2>5. Lasts[ack.key] \in Digest /\ Chains[ack.key] \in Digest
      BY <1>8, <2>2 DEF ChainMap
    <2>6. Prefix(ack.hash, Chains[ack.key])
      BY <2>2, <2>3, <2>4, <2>5, PrefixTrans
    <2>7. /\ GoodImage(Chains, outbox, r.image)
          /\ r.ok => /\ ack.key \in DOMAIN r.image.watermarks
                     /\ ack.sequence <= r.image.watermarks[ack.key].acknowledged_sequence
      BY <1>3, <1>5, <1>8, <1>9, <2>2, <2>3, <2>6, AcknowledgeGood
    <2> QED
      BY <2>7, Zenon DEF GoneOK
  <1>11. outbox' \in Image /\ OutboxOK(Chains, outbox') /\ MarksKept(outbox, outbox')
    <2>1. GoodImage(Chains, outbox, outbox)
      BY <1>5, <1>9, SameImage
    <2>2. GoodImage(Chains, outbox, outbox')
      BY <1>4, <1>10, <2>1, Zenon
    <2> QED
      BY <2>2, Zenon DEF GoodImage
  <1>12. \/ agentQueue' = agentQueue
         \/ agentQueue' = Append(agentQueue, Head(toClient)) /\ GoneOK(outbox', Head(toClient))
    <2>1. ack.status \notin Durable => GoneOK(outbox', ack)
      BY DEF GoneOK, IsDurable
    <2> QED
      BY <1>2, <1>4, <1>10, <2>1, Zenon
  <1>13. /\ agentQueue' \in Seq(ServerMessage) /\ toClient' \in Seq(ServerMessage)
         /\ MessagesHold(Cursors, Lasts, agentQueue', toClient', outbox')
    <2>1. PICK b : b = agentQueue'
      OBVIOUS
    <2>2. PICK j \in Image : j = outbox'
      BY <1>11
    <2>3. /\ b \in Seq(ServerMessage) /\ Tail(toClient) \in Seq(ServerMessage)
          /\ MessagesHold(Cursors, Lasts, b, Tail(toClient), j)
      BY <1>1, <1>4, <1>5, <1>11, <1>12, <2>1, <2>2, PassedOn
    <2> QED
      BY <1>4, <2>1, <2>2, <2>3, Zenon
  <1>14. EventsHold(Chains, bridge', toServer', ingress', outbox')
    BY <1>1, <1>4, <1>11, Zenon DEF EventsHold
  <1>15. PipelineTypeOK'
    BY <1>1, <1>4, <1>11, <1>13 DEF PipelineTypeOK, pageVars, serverVars
  <1>16. UNCHANGED <<store, typed, journal>> /\ ~page'.conflict
    BY <1>1, <1>4 DEF pageVars, serverVars
  <1> QED
    BY <1>13, <1>14, <1>15, <1>16, QuietStep

\* ServiceForward: state responses, starts and stops are passed on.
LEMMA ForwardKeeps ==
  ASSUME PipelineIInv, NEW type \in {"state", "start", "stop"}, ServiceForward(type)
  PROVE  PipelineIInv'
  <1>1. /\ PipelineTypeOK /\ ~page.conflict
        /\ EventsHold(Chains, bridge, toServer, ingress, outbox)
        /\ MessagesHold(Cursors, Lasts, agentQueue, toClient, outbox)
    BY InvariantParts
  <1>2. /\ toClient # <<>> /\ Head(toClient).type = type /\ toClient' = Tail(toClient)
        /\ agentQueue' = Append(agentQueue, Head(toClient))
        /\ UNCHANGED <<pageVars, bridge, serviceVars, serverVars, history, link, toServer>>
    BY Zenon DEF ServiceForward, FromServer
  <1>3. /\ toClient \in Seq(ServerMessage) /\ agentQueue \in Seq(ServerMessage) /\ outbox \in Image
    BY <1>1 DEF PipelineTypeOK
  <1>4. GoneOK(outbox, Head(toClient))
    BY <1>2 DEF GoneOK, IsDurable
  <1>5. /\ agentQueue' \in Seq(ServerMessage) /\ toClient' \in Seq(ServerMessage)
        /\ MessagesHold(Cursors, Lasts, agentQueue', toClient', outbox)
    <2>1. MarksKept(outbox, outbox)
      BY <1>3, MarksKeptRefl
    <2>2. PICK b : b = agentQueue'
      OBVIOUS
    <2>3. /\ b \in Seq(ServerMessage) /\ Tail(toClient) \in Seq(ServerMessage)
          /\ MessagesHold(Cursors, Lasts, b, Tail(toClient), outbox)
      BY <1>1, <1>2, <1>3, <1>4, <2>1, <2>2, PassedOn
    <2> QED
      BY <1>2, <2>2, <2>3, Zenon
  <1>6. UNCHANGED <<store, typed, journal, page, exam, bridge, toServer, outbox, ingress,
                    requests, inflight, context, journalOpen>>
    BY <1>2 DEF pageVars, serviceVars, serverVars, history
  <1>7. PipelineTypeOK'
    BY <1>1, <1>5, <1>6 DEF PipelineTypeOK
  <1>8. /\ EventsHold(Chains, bridge', toServer', ingress', outbox')
        /\ MessagesHold(Cursors, Lasts, agentQueue', toClient', outbox')
    BY <1>1, <1>5, <1>6, Zenon
  <1> QED
    BY <1>1, <1>6, <1>7, <1>8, QuietStep

\* A stop behind a part of the replies; the connection is empty.
LEMMA StopInOrder ==
  ASSUME NEW p, NEW l, NEW a \in Seq(ServerMessage), NEW i, InOrder(a),
         RepliesOK(p, l, Elems(a)), AcksGone(i, Elems(a))
  PROVE  /\ Append(a, [type |-> "stop"]) \in Seq(ServerMessage)
         /\ MessagesHold(p, l, Append(a, [type |-> "stop"]), <<>>, i)
  <1>1. PICK m : m = [type |-> "stop"]
    OBVIOUS
  <1>2. m \in ServerMessage /\ m.type = "stop"
    BY <1>1 DEF ServerMessage
  <1>3. Append(a, m) \in Seq(ServerMessage) /\ Elems(Append(a, m)) = Elems(a) \cup {m}
    BY <1>2, ElemsOf
  <1>4. RepliesOK(p, l, {m}) /\ AcksGone(i, {m}) /\ AllBefore(Elems(a), {m})
    BY <1>2 DEF RepliesOK, ReplyOK, AcksGone, GoneOK, IsDurable, AllBefore, Before
  <1>5. InOrder(Append(a, m))
    BY <1>2, <1>4, OrderOfAppend
  <1>6. RepliesOK(p, l, Elems(Append(a, m))) /\ AcksGone(i, Elems(Append(a, m)))
    BY <1>3, <1>4, UnionsHold
  <1>7. RepliesOK(p, l, Elems(<<>>)) /\ InOrder(<<>>) /\ AllBefore(Elems(Append(a, m)), Elems(<<>>))
    BY ElemsEmpty, NothingHolds
  <1>8. MessagesHold(p, l, Append(a, m), <<>>, i)
    BY <1>5, <1>6, <1>7, Zenon DEF MessagesHold
  <1> QED
    BY <1>1, <1>3, <1>8

\* LinkLost, CutNoticed, ServiceRestart: the connection is gone and the exam stops.
LEMMA SessionEndsKeeps ==
  ASSUME PipelineIInv, LinkLost \/ CutNoticed \/ ServiceRestart
  PROVE  PipelineIInv'
  <1>1. /\ PipelineTypeOK /\ ~page.conflict
        /\ EventsHold(Chains, bridge, toServer, ingress, outbox)
        /\ MessagesHold(Cursors, Lasts, agentQueue, toClient, outbox)
    BY InvariantParts
  <1>2. /\ toServer' = <<>> /\ toClient' = <<>> /\ inflight' = {}
        /\ UNCHANGED <<pageVars, outbox, serverVars, typed>>
        /\ \/ bridge' = bridge /\ ingress' = ingress /\ requests' = requests
           \/ bridge' = <<>> /\ ingress' = <<>> /\ requests' = <<>>
        /\ agentQueue' = WithStop(agentQueue) \/ agentQueue' = <<[type |-> "stop"]>>
    <2>1. CASE LinkLost \/ CutNoticed
      BY <2>1, Zenon DEF LinkLost, CutNoticed, SessionEnds
    <2>2. CASE ServiceRestart
      BY <2>2, Zenon DEF ServiceRestart
    <2> QED
      BY <2>1, <2>2, Zenon
  <1>3. agentQueue \in Seq(ServerMessage)
    BY <1>1 DEF PipelineTypeOK
  <1>4. RepliesOK(Cursors, Lasts, Elems(agentQueue)) /\ InOrder(agentQueue) /\ AcksGone(outbox, Elems(agentQueue))
    BY <1>1, Zenon DEF MessagesHold
  <1>5. PICK a \in Seq(ServerMessage) :
            /\ agentQueue' = Append(a, [type |-> "stop"])
            /\ InOrder(a) /\ RepliesOK(Cursors, Lasts, Elems(a)) /\ AcksGone(outbox, Elems(a))
    <2>1. CASE agentQueue' = WithStop(agentQueue)
      <3>1. PICK I : I = {n \in 1..Len(agentQueue) : agentQueue[n].type \notin {"start", "stop"}}
        OBVIOUS
      <3>2. PICK a : a = Picked(agentQueue, I)
        OBVIOUS
      <3>3. agentQueue' = Append(a, [type |-> "stop"])
        BY <2>1, <3>1, <3>2, Zenon DEF WithStop
      <3>4. a \in Seq(ServerMessage) /\ Elems(a) \subseteq Elems(agentQueue) /\ InOrder(a)
        BY <1>3, <1>4, <3>2, OrderOfPicked
      <3>5. RepliesOK(Cursors, Lasts, Elems(a)) /\ AcksGone(outbox, Elems(a))
        BY <1>4, <3>4, PartsHold
      <3> QED
        BY <3>3, <3>4, <3>5, Zenon
    <2>2. CASE agentQueue' = <<[type |-> "stop"]>>
      <3>1. <<[type |-> "stop"]>> = Append(<<>>, [type |-> "stop"])
        OBVIOUS
      <3>2. /\ <<>> \in Seq(ServerMessage) /\ InOrder(<<>>)
            /\ RepliesOK(Cursors, Lasts, Elems(<<>>)) /\ AcksGone(outbox, Elems(<<>>))
        BY ElemsEmpty, NothingHolds
      <3> QED
        BY <2>2, <3>1, <3>2, Zenon
    <2> QED
      BY <1>2, <2>1, <2>2, Zenon
  <1>6. /\ agentQueue' \in Seq(ServerMessage)
        /\ MessagesHold(Cursors, Lasts, agentQueue', toClient', outbox')
    <2>1. outbox' = outbox
      BY <1>2, Zenon
    <2>2. PICK i : i = outbox
      OBVIOUS
    <2>3. /\ Append(a, [type |-> "stop"]) \in Seq(ServerMessage)
          /\ MessagesHold(Cursors, Lasts, Append(a, [type |-> "stop"]), <<>>, i)
      BY <1>5, <2>2, StopInOrder
    <2> QED
      BY <1>2, <1>5, <2>1, <2>2, <2>3, Zenon
  <1>7. PipelineTypeOK'
    <2>1. /\ <<>> \in Seq(PageMessage) /\ <<>> \in Seq(ServerMessage) /\ <<>> \in Seq(Event)
          /\ <<>> \in Seq(RequestMessage)
      BY ElemsEmpty
    <2> QED
      BY <1>1, <1>2, <1>6, <2>1 DEF PipelineTypeOK, pageVars, serverVars
  <1>8. EventsHold(Chains, bridge', toServer', ingress', outbox')
    <2>1. EventsOnChain(Chains, Elems(<<>>)) /\ AllOnChain(Chains, Elems(<<>>))
      BY ElemsEmpty, NothingHolds
    <2> QED
      BY <1>1, <1>2, <2>1, Zenon DEF EventsHold
  <1>9. UNCHANGED <<store, typed, journal>> /\ ~page'.conflict
    BY <1>1, <1>2 DEF pageVars, serverVars
  <1> QED
    BY <1>6, <1>7, <1>8, <1>9, QuietStep

-----------------------------------------------------------------------------
(* The control plane. *)

\* A reply behind the others: it says what the journal has now, or nothing of it.
LEMMA Replied ==
  ASSUME NEW p, NEW l, NEW a \in Seq(ServerMessage), NEW t \in Seq(ServerMessage), NEW i,
         MessagesHold(p, l, a, t, i), NEW m \in ServerMessage, ReplyOK(p, l, m),
         m.type = "state" => m.state.last = l[m.key]
  PROVE  Append(t, m) \in Seq(ServerMessage) /\ MessagesHold(p, l, a, Append(t, m), i)
  <1>1. /\ RepliesOK(p, l, Elems(a)) /\ RepliesOK(p, l, Elems(t)) /\ InOrder(a) /\ InOrder(t)
        /\ AllBefore(Elems(a), Elems(t)) /\ AcksGone(i, Elems(a))
    BY Zenon DEF MessagesHold
  <1>2. Append(t, m) \in Seq(ServerMessage) /\ Elems(Append(t, m)) = Elems(t) \cup {m}
    BY ElemsOf
  <1>3. AllBefore(Elems(a), {m}) /\ AllBefore(Elems(t), {m})
    BY <1>1, LastReply
  <1>4. InOrder(Append(t, m))
    BY <1>1, <1>3, OrderOfAppend
  <1>5. RepliesOK(p, l, {m})
    BY DEF RepliesOK
  <1>6. RepliesOK(p, l, Elems(Append(t, m))) /\ AllBefore(Elems(a), Elems(Append(t, m)))
    BY <1>1, <1>2, <1>3, <1>5, UnionsHold
  <1> QED
    BY <1>1, <1>2, <1>4, <1>6, Zenon DEF MessagesHold

\* A reply that leaves the journal alone.
LEMMA ReplyKeeps ==
  ASSUME PipelineIInv, NEW m \in ServerMessage, ReplyOK(Cursors, Lasts, m),
         m.type = "state" => m.state.last = Lasts[m.key],
         toServer' = toServer \/ (toServer # <<>> /\ toServer' = Tail(toServer)),
         toClient' = Append(toClient, m), context' \in Keys \cup {NoExam}, journalOpen' \in BOOLEAN,
         UNCHANGED <<pageVars, bridge, agentQueue, serviceVars, journal, typed>>
  PROVE  PipelineIInv'
  <1>1. /\ PipelineTypeOK /\ ~page.conflict
        /\ EventsHold(Chains, bridge, toServer, ingress, outbox)
        /\ MessagesHold(Cursors, Lasts, agentQueue, toClient, outbox)
    BY InvariantParts
  <1>2. /\ toClient \in Seq(ServerMessage) /\ agentQueue \in Seq(ServerMessage)
        /\ toServer \in Seq(PageMessage)
    BY <1>1 DEF PipelineTypeOK
  <1>3. toServer' \in Seq(PageMessage) /\ Elems(toServer') \subseteq Elems(toServer)
    BY <1>2, ElemsOf
  <1>4. /\ toClient' \in Seq(ServerMessage)
        /\ MessagesHold(Cursors, Lasts, agentQueue, toClient', outbox)
    BY <1>1, <1>2, Replied
  <1>5. UNCHANGED <<store, typed, journal, page, exam, bridge, outbox, ingress, agentQueue,
                    requests, inflight>>
    BY DEF pageVars, serviceVars
  <1>6. PipelineTypeOK'
    BY <1>1, <1>3, <1>4, <1>5 DEF PipelineTypeOK
  <1>7. EventsHold(Chains, bridge', toServer', ingress', outbox')
    <2>1. EventsOnChain(Chains, Elems(toServer'))
      BY <1>1, <1>3, PartsHold DEF EventsHold
    <2> QED
      BY <1>1, <1>5, <2>1, Zenon DEF EventsHold
  <1>8. MessagesHold(Cursors, Lasts, agentQueue', toClient', outbox')
    BY <1>4, <1>5, Zenon
  <1> QED
    BY <1>1, <1>5, <1>6, <1>7, <1>8, QuietStep

\* ServerRestart, and a connection the server closes: nothing travels to it any more.
LEMMA ClosingKeeps ==
  ASSUME PipelineIInv, toServer' = <<>>, context' \in Keys \cup {NoExam}, journalOpen' \in BOOLEAN,
         UNCHANGED <<pageVars, bridge, agentQueue, serviceVars, toClient, journal, typed>>
  PROVE  PipelineIInv'
  <1>1. /\ PipelineTypeOK /\ ~page.conflict
        /\ EventsHold(Chains, bridge, toServer, ingress, outbox)
    BY InvariantParts
  <1>2. UNCHANGED <<store, typed, journal, page, exam, bridge, outbox, ingress, agentQueue,
                    requests, inflight>>
    BY DEF pageVars, serviceVars
  <1>3. PipelineTypeOK'
    BY <1>1, <1>2, ElemsEmpty DEF PipelineTypeOK
  <1>4. EventsHold(Chains, bridge', toServer', ingress', outbox')
    <2>1. EventsOnChain(Chains, Elems(<<>>))
      BY ElemsEmpty, NothingHolds
    <2> QED
      BY <1>1, <1>2, <2>1, Zenon DEF EventsHold
  <1>5. MarksKept(outbox, outbox')
    BY <1>1, <1>2, MarksKeptRefl DEF PipelineTypeOK
  <1> QED
    BY <1>1, <1>2, <1>3, <1>4, <1>5, SendingStep

\* StartExam, StopExam, ServerRestart.
LEMMA OperatorKeeps ==
  ASSUME PipelineIInv, (\E k \in Keys : StartExam(k)) \/ StopExam \/ ServerRestart
  PROVE  PipelineIInv'
  <1>1. journalOpen \in BOOLEAN
    BY InvariantParts DEF PipelineTypeOK
  <1>2. ASSUME NEW k \in Keys, StartExam(k) PROVE PipelineIInv'
    <2>1. PICK m : m = [type |-> "start", key |-> k]
      OBVIOUS
    <2>2. m \in ServerMessage /\ m.type = "start"
      BY <2>1 DEF ServerMessage
    <2>3. ReplyOK(Cursors, Lasts, m)
      BY <2>2 DEF ReplyOK, IsDurable
    <2>4. /\ context' = k /\ toClient' = Append(toClient, m)
          /\ UNCHANGED <<pageVars, bridge, agentQueue, serviceVars, toServer, journal, journalOpen, typed>>
      BY <1>2, <2>1, Zenon DEF StartExam
    <2> QED
      BY <1>1, <2>2, <2>3, <2>4, ReplyKeeps
  <1>3. ASSUME StopExam PROVE PipelineIInv'
    <2>1. PICK m : m = [type |-> "stop"]
      OBVIOUS
    <2>2. m \in ServerMessage /\ m.type = "stop"
      BY <2>1 DEF ServerMessage
    <2>3. ReplyOK(Cursors, Lasts, m)
      BY <2>2 DEF ReplyOK, IsDurable
    <2>4. /\ context' = NoExam /\ toClient' = Append(toClient, m)
          /\ UNCHANGED <<pageVars, bridge, agentQueue, serviceVars, toServer, journal, journalOpen, typed>>
      BY <1>3, <2>1, Zenon DEF StopExam
    <2> QED
      BY <1>1, <2>2, <2>3, <2>4, ReplyKeeps
  <1>4. ASSUME ServerRestart PROVE PipelineIInv'
    BY <1>4, ClosingKeeps DEF ServerRestart
  <1> QED
    BY <1>2, <1>3, <1>4

\* ServerRequest: the response says what the journal has.
LEMMA ServerRequestKeeps ==
  ASSUME PipelineIInv, ServerRequest
  PROVE  PipelineIInv'
  <1>1. PipelineTypeOK /\ StoresOK /\ JournalsOK
    BY InvariantParts
  <1>2. PICK k : k = Head(toServer).key
    OBVIOUS
  <1>3. /\ toServer # <<>> /\ Head(toServer).type = "request"
        /\ UNCHANGED <<pageVars, bridge, agentQueue, serviceVars, context, history>>
        /\ \/ Disconnects
           \/ /\ Reply([type |-> "state", key |-> k, state |-> StateOf(k)])
              /\ UNCHANGED <<journal, journalOpen>>
    BY <1>2, Zenon DEF ServerRequest, OfType
  <1>4. context \in Keys \cup {NoExam} /\ journalOpen \in BOOLEAN /\ toServer \in Seq(PageMessage)
    BY <1>1 DEF PipelineTypeOK
  <1>5. CASE Disconnects
    BY <1>3, <1>4, <1>5, ClosingKeeps DEF Disconnects, history
  <1>6. CASE /\ Reply([type |-> "state", key |-> k, state |-> StateOf(k)])
             /\ UNCHANGED <<journal, journalOpen>>
    <2>1. k \in Keys
      <3>1. Head(toServer) \in PageMessage
        BY <1>3, <1>4, ElemsOf
      <3> QED
        BY <1>2, <3>1 DEF PageMessage, RequestMessage
    <2>2. StateOf(k) = StateIn(journal, k)
      BY Zenon DEF StateOf, StateIn
    <2>3. PICK r : r = StateIn(journal, k)
      OBVIOUS
    <2>4. SessionHolds(k)
      BY <1>1, <2>1, SessionsHold
    <2>5. /\ r \in ServerState /\ r.last \in Digest /\ JournalOK(store[k], r)
          /\ Cursors[k] = store[k].previous /\ Lasts[k] = r.last
      BY <2>3, <2>4, Zenon DEF SessionHolds
    <2>6. PICK m : m = [type |-> "state", key |-> k, state |-> r]
      OBVIOUS
    <2>7. m \in ServerMessage /\ m.type = "state" /\ m.key = k /\ m.state = r
      BY <2>1, <2>5, <2>6 DEF ServerMessage, StateMessage
    <2>8. ReplyOK(Cursors, Lasts, m)
      <3>1. StateOK(r) /\ Prefix(store[k].previous, r.last)
        BY <2>5, Zenon DEF JournalOK
      <3>2. Prefix(r.last, r.last)
        BY <2>5, PrefixRefl
      <3>3. ~IsDurable(m)
        BY <2>7 DEF IsDurable
      <3> QED
        BY <2>5, <2>7, <3>1, <3>2, <3>3, Zenon DEF ReplyOK
    <2>9. toServer' = Tail(toServer) /\ toClient' = Append(toClient, m)
      BY <1>6, <2>2, <2>3, <2>6, Zenon DEF Reply
    <2>10. m.state.last = Lasts[m.key]
      BY <2>5, <2>7, Zenon
    <2> QED
      BY <1>3, <1>4, <1>6, <2>7, <2>8, <2>9, <2>10, ReplyKeeps DEF history
  <1> QED
    BY <1>3, <1>5, <1>6

\* An acknowledgement and its parts.
AckOf(e, status, hash, n) ==
    [type |-> "ack", key |-> e.key, status |-> status, sequence |-> e.sequence, hash |-> hash,
     highest |-> n]

\* The fields of an acknowledgement.
LEMMA AckOfFacts ==
  ASSUME NEW e \in Event, NEW status, NEW hash \in Digest, NEW n \in Nat,
         NEW m, m = AckOf(e, status, hash, n)
  PROVE  /\ m.type = "ack" /\ m.key = e.key /\ m.status = status /\ m.sequence = e.sequence
         /\ m.hash = hash /\ m.highest = n
         /\ status \in AckStatus => m \in ServerMessage
  <1>1. e.key \in Keys /\ e.sequence \in Nat
    BY DEF Event
  <1>2. /\ m.type = "ack" /\ m.key = e.key /\ m.status = status /\ m.sequence = e.sequence
        /\ m.hash = hash /\ m.highest = n
    BY DEF AckOf
  <1>3. ASSUME status \in AckStatus PROVE m \in AckMessage
    BY <1>1, <1>3 DEF AckOf, AckMessage
  <1> QED
    BY <1>2, <1>3 DEF ServerMessage

\* Ack(): the watermark of an acknowledgement is the journal's, or what replaces it.
LEMMA AckForms ==
  ASSUME IndexOK(journal), NEW e \in Event, NEW status, NEW hash, NEW n
  PROVE  /\ [Ack(e, status, hash) EXCEPT !.highest = n] = AckOf(e, status, hash, n)
         /\ e.key \in DOMAIN journal =>
              /\ Ack(e, status, hash) = AckOf(e, status, hash, journal[e.key].highest)
              /\ journal[e.key].highest \in Nat
         /\ e.key \notin DOMAIN journal => Ack(e, status, hash) = AckOf(e, status, hash, 0)
  <1>1. [Ack(e, status, hash) EXCEPT !.highest = n] = AckOf(e, status, hash, n)
    BY DEF Ack, AckOf
  <1>2. e.key \in DOMAIN journal => journal[e.key].highest \in Nat
    BY DEF IndexOK, IsEntry
  <1>3. e.key \in DOMAIN journal =>
          Ack(e, status, hash) = AckOf(e, status, hash, journal[e.key].highest)
    BY Zenon DEF Ack, AckOf
  <1>4. e.key \notin DOMAIN journal => Ack(e, status, hash) = AckOf(e, status, hash, 0)
    BY Zenon DEF Ack, AckOf
  <1> QED
    BY <1>1, <1>2, <1>3, <1>4

\* An acknowledgement that is not durable says nothing of the journal.
LEMMA RefusalKeeps ==
  ASSUME PipelineIInv, NEW m \in ServerMessage, m.type = "ack", m.status \notin Durable,
         toServer # <<>>, Reply(m), journalOpen' \in BOOLEAN,
         UNCHANGED <<pageVars, bridge, agentQueue, serviceVars, context, journal, typed>>
  PROVE  PipelineIInv'
  <1>1. ReplyOK(Cursors, Lasts, m) /\ m.type # "state"
    BY DEF ReplyOK, IsDurable
  <1>2. context \in Keys \cup {NoExam}
    BY InvariantParts DEF PipelineTypeOK
  <1>3. toServer' = Tail(toServer) /\ toClient' = Append(toClient, m)
    BY Zenon DEF Reply
  <1> QED
    BY <1>1, <1>2, <1>3, ReplyKeeps

\* An event on the connection was numbered by the page.
LEMMA ArrivedEvent ==
  ASSUME PipelineIInv, toServer # <<>>, Head(toServer).type = "event",
         NEW e, e = Head(toServer).event
  PROVE  /\ e \in Event /\ e.key \in Keys /\ hash_answer_event(e) \in Digest
         /\ e.sequence = Len(hash_answer_event(e))
         /\ Prefix(hash_answer_event(e), Chain(store[e.key])) /\ SessionHolds(e.key)
  <1>1. /\ PipelineTypeOK /\ StoresOK /\ JournalsOK
        /\ EventsHold(Chains, bridge, toServer, ingress, outbox)
    BY InvariantParts
  <1>2. toServer \in Seq(PageMessage)
    BY <1>1 DEF PipelineTypeOK
  <1>3. Head(toServer) \in PageMessage /\ Head(toServer) \in Elems(toServer)
    BY <1>2, ElemsOf
  <1>4. e \in Event
    BY <1>3 DEF PageMessage, RequestMessage
  <1>5. e.key \in Keys /\ hash_answer_event(e) \in Digest
    BY <1>4, HashFacts DEF Event
  <1>6. OnChain(Chains, e)
    BY <1>1, <1>3, Zenon DEF EventsHold, EventsOnChain
  <1>7. SessionHolds(e.key)
    BY <1>1, <1>5, SessionsHold
  <1>8. Chains[e.key] = Chain(store[e.key])
    BY <1>7, Zenon DEF SessionHolds
  <1> QED
    BY <1>4, <1>5, <1>6, <1>7, <1>8, Zenon DEF OnChain

\* ServerEvent, an event that is new: the journal has grown by it and says so.
LEMMA AcceptedKeeps ==
  ASSUME PipelineIInv, toServer # <<>>, Head(toServer).type = "event",
         NEW e, e = Head(toServer).event, Verdict(journal, e) = "write",
         journal' = Indexed(journal, e), NEW m,
         m = AckOf(e, "accepted", hash_answer_event(e), e.sequence), Reply(m),
         UNCHANGED <<pageVars, bridge, agentQueue, serviceVars, context, journalOpen, typed>>
  PROVE  PipelineIInv'
  <1>1. /\ PipelineTypeOK /\ StoresOK /\ JournalsOK /\ ~page.conflict
        /\ EventsHold(Chains, bridge, toServer, ingress, outbox)
        /\ MessagesHold(Cursors, Lasts, agentQueue, toClient, outbox)
    BY InvariantParts
  <1>2. /\ e \in Event /\ e.key \in Keys /\ hash_answer_event(e) \in Digest
        /\ e.sequence = Len(hash_answer_event(e))
        /\ Prefix(hash_answer_event(e), Chain(store[e.key])) /\ SessionHolds(e.key)
    BY ArrivedEvent
  <1>3. /\ Chains \in ChainMap /\ Cursors \in ChainMap /\ Lasts \in ChainMap /\ IndexOK(journal)
    BY <1>1, SessionsHold
  <1>4. PICK k \in Keys : k = e.key
    BY <1>2
  <1>5. /\ store[k] \in Store /\ CursorOK(store[k], k) /\ JournalOK(store[k], StateIn(journal, k))
        /\ Lasts[k] = StateIn(journal, k).last
    BY <1>2, <1>4, Zenon DEF SessionHolds
  <1>6. PICK x : x = journal'
    OBVIOUS
  <1>7. /\ IndexOK(x) /\ JournalOK(store[k], StateIn(x, k))
        /\ StateIn(x, k).last = hash_answer_event(e)
        /\ Prefix(StateIn(journal, k).last, hash_answer_event(e))
        /\ \A y \in Keys : y # k => StateIn(x, y) = StateIn(journal, y)
        /\ e.sequence # 0
    <2>1. x = Indexed(journal, e)
      BY <1>6
    <2> QED
      BY <1>2, <1>3, <1>4, <1>5, <2>1, WrittenGood
  <1>8. UNCHANGED <<store, page, exam, bridge, agentQueue, outbox, ingress, requests, inflight,
                    context, journalOpen, typed>>
    BY DEF pageVars, serviceVars
  <1>9. toServer' = Tail(toServer) /\ toClient' = Append(toClient, m)
    BY Zenon DEF Reply
  <1>10. /\ toClient \in Seq(ServerMessage) /\ agentQueue \in Seq(ServerMessage)
         /\ toServer \in Seq(PageMessage)
    BY <1>1 DEF PipelineTypeOK
  <1>11. toServer' \in Seq(PageMessage) /\ Elems(toServer') \subseteq Elems(toServer)
    BY <1>9, <1>10, ElemsOf
  <1>12. StoresOK'
    <2> SUFFICES ASSUME NEW y \in Keys
                 PROVE  StoreOK(store[y], y, typed[y]) /\ JournalOK(store[y], StateIn(x, y))
      BY <1>6, <1>8, Zenon DEF StoresOK
    <2>1. StoreOK(store[y], y, typed[y]) /\ JournalOK(store[y], StateIn(journal, y))
      BY <1>1, Zenon DEF StoresOK
    <2>2. CASE y = k
      BY <1>7, <2>1, <2>2, Zenon
    <2>3. CASE y # k
      BY <1>7, <2>1, <2>3, Zenon
    <2> QED
      BY <2>2, <2>3
  <1>13. JournalsOK'
    BY <1>6, <1>7 DEF JournalsOK, IndexOK
  <1>14. Chains' = Chains /\ Cursors' = Cursors
    BY <1>8 DEF Chains, Cursors
  <1>15. PICK r : r = Lasts'
    OBVIOUS
  <1>16. r = [y \in Keys |-> StateIn(x, y).last]
    BY <1>6, <1>15, Zenon DEF Lasts
  <1>17. r \in ChainMap
    <2>1. \A y \in Keys : StateIn(x, y).last \in Digest
      <3>1. \A y \in Keys : StateIn(x, y) \in ServerState
        BY <1>7, StateInFacts
      <3> QED
        BY <3>1 DEF ServerState
    <2> QED
      BY <1>16, <2>1 DEF ChainMap
  <1>18. Grows(Lasts, r)
    <2> SUFFICES ASSUME NEW y \in Keys PROVE Prefix(Lasts[y], r[y])
      BY Zenon DEF Grows
    <2>1. r[y] = StateIn(x, y).last /\ Lasts[y] = StateIn(journal, y).last
      BY <1>16 DEF Lasts
    <2>2. CASE y = k
      BY <1>7, <2>1, <2>2, Zenon
    <2>3. CASE y # k
      <3>1. r[y] = Lasts[y]
        BY <1>7, <2>1, <2>3, Zenon
      <3>2. Lasts[y] \in Digest
        BY <1>3 DEF ChainMap
      <3> QED
        BY <3>1, <3>2, PrefixRefl
    <2> QED
      BY <2>2, <2>3
  <1>19. MessagesHold(Cursors, r, agentQueue, toClient, outbox)
    <2>1. RepliesOK(Cursors, Lasts, Elems(agentQueue)) /\ RepliesOK(Cursors, Lasts, Elems(toClient))
      BY <1>1, Zenon DEF MessagesHold
    <2>2. RepliesOK(Cursors, r, Elems(agentQueue)) /\ RepliesOK(Cursors, r, Elems(toClient))
      BY <1>1, <1>3, <1>17, <1>18, <2>1, RepliesGrow, QueuesTyped
    <2> QED
      BY <1>1, <2>2, Zenon DEF MessagesHold
  <1>20. /\ m \in ServerMessage /\ m.type = "ack" /\ m.key = k /\ m.sequence = e.sequence
         /\ m.hash = hash_answer_event(e) /\ m.highest = e.sequence
    <2>1. "accepted" \in AckStatus /\ e.sequence \in Nat
      BY <1>2 DEF AckStatus, Durable, Event
    <2> QED
      BY <1>2, <1>4, <2>1, AckOfFacts
  <1>21. ReplyOK(Cursors, r, m)
    <2>1. r[k] = hash_answer_event(e)
      BY <1>7, <1>16
    <2>2. Prefix(hash_answer_event(e), hash_answer_event(e))
      BY <1>2, PrefixRefl
    <2>3. e.sequence <= e.sequence /\ e.sequence <= Len(hash_answer_event(e))
      BY <1>2 DEF Event
    <2>4. m.type # "state"
      BY <1>20
    <2> QED
      BY <1>2, <1>7, <1>20, <2>1, <2>2, <2>3, <2>4, Zenon DEF ReplyOK
  <1>22. /\ toClient' \in Seq(ServerMessage)
         /\ MessagesHold(Cursors, r, agentQueue, toClient', outbox)
    <2>1. m.type # "state"
      BY <1>20
    <2> QED
      BY <1>9, <1>10, <1>19, <1>20, <1>21, <2>1, Replied
  <1>23. PipelineTypeOK'
    <2>1. DOMAIN journal' \subseteq Keys /\ \A y \in DOMAIN journal' : IsEntry(journal'[y])
      BY <1>6, <1>7 DEF IndexOK
    <2> QED
      BY <1>1, <1>8, <1>11, <1>22, <2>1 DEF PipelineTypeOK
  <1>24. EventsOK'
    <2>1. EventsOnChain(Chains, Elems(toServer'))
      BY <1>1, <1>11, PartsHold DEF EventsHold
    <2>2. EventsHold(Chains', bridge', toServer', ingress', outbox')
      BY <1>1, <1>8, <1>14, <2>1, Zenon DEF EventsHold
    <2> QED
      BY <2>2, Zenon DEF EventsOK
  <1>25. MessagesOK'
    BY <1>8, <1>14, <1>15, <1>22, Zenon DEF MessagesOK
  <1>26. NoManualReview'
    BY <1>1, <1>8 DEF NoManualReview
  <1> QED
    BY <1>12, <1>13, <1>23, <1>24, <1>25, <1>26, Zenon DEF PipelineIInv

\* ServerEvent, an event that is not new.
LEMMA AnsweredKeeps ==
  ASSUME PipelineIInv, toServer # <<>>, Head(toServer).type = "event",
         NEW e, e = Head(toServer).event, Verdict(journal, e) # "write",
         Reply(Ack(e, Verdict(journal, e), AckHash(e))),
         UNCHANGED <<pageVars, bridge, agentQueue, serviceVars, context, journal, journalOpen, typed>>
  PROVE  PipelineIInv'
  <1>1. /\ PipelineTypeOK /\ StoresOK /\ JournalsOK
    BY InvariantParts
  <1>2. /\ e \in Event /\ e.key \in Keys /\ hash_answer_event(e) \in Digest
        /\ SessionHolds(e.key)
    BY ArrivedEvent
  <1>3. IndexOK(journal) /\ journalOpen \in BOOLEAN /\ context \in Keys \cup {NoExam}
    BY <1>1, SessionsHold DEF PipelineTypeOK
  <1>4. PICK r : r = StateIn(journal, e.key)
    OBVIOUS
  <1>5. StateOK(r) /\ AnswersOK(r) /\ Lasts[e.key] = r.last
    BY <1>2, <1>4, Zenon DEF SessionHolds, JournalOK, StateOK
  <1>6. PICK v : v = Verdict(journal, e)
    OBVIOUS
  <1>7. v \in {"duplicate", "gap", "conflict", "rejected", "unavailable"} /\ v \in AckStatus
    BY <1>6, VerdictType DEF AckStatus, Durable
  <1>8. AckHash(e) \in Digest
    <2>1. PICK s : s = SessionFor(journal, e)
      OBVIOUS
    <2>2. HashesOK(s)
      BY <1>2, <1>3, <1>4, <1>5, <2>1, SessionMatches
    <2>3. \A n \in DOMAIN s.event_hashes : s.event_hashes[n] \in Digest
      BY <2>2, Zenon DEF HashesOK
    <2>4. AckHash(e) = IF e.sequence \in DOMAIN s.event_hashes THEN s.event_hashes[e.sequence]
                       ELSE hash_answer_event(e)
      BY <2>1, Zenon DEF AckHash
    <2> QED
      BY <1>2, <2>3, <2>4
  <1>9. PICK h \in Digest : h = AckHash(e)
    BY <1>8
  <1>10. PICK m : m = Ack(e, v, h)
    OBVIOUS
  <1>11. Reply(m)
    BY <1>6, <1>9, <1>10, Zenon
  <1>12. PICK n \in Nat : /\ m = AckOf(e, v, h, n)
                          /\ e.key \in DOMAIN journal => n = journal[e.key].highest
    <2>1. CASE e.key \in DOMAIN journal
      BY <1>2, <1>3, <1>10, <2>1, AckForms
    <2>2. CASE e.key \notin DOMAIN journal
      BY <1>2, <1>3, <1>10, <2>2, AckForms
    <2> QED
      BY <2>1, <2>2
  <1>13. /\ m \in ServerMessage /\ m.type = "ack" /\ m.key = e.key /\ m.status = v
         /\ m.sequence = e.sequence /\ m.hash = h /\ m.highest = n
    BY <1>2, <1>7, <1>12, AckOfFacts
  <1>14. CASE v # "duplicate"
    <2>1. m.status \notin Durable
      BY <1>7, <1>13, <1>14 DEF Durable
    <2> QED
      BY <1>3, <1>11, <1>13, <2>1, RefusalKeeps
  <1>15. CASE v = "duplicate"
    <2>1. /\ e.key \in DOMAIN journal /\ e.sequence # 0 /\ e.sequence = Len(hash_answer_event(e))
          /\ Prefix(hash_answer_event(e), r.last)
          /\ e.sequence <= journal[e.key].highest /\ journal[e.key].highest = Len(r.last)
      BY <1>2, <1>3, <1>4, <1>5, <1>6, <1>15, DuplicateGood
    <2>2. h = hash_answer_event(e)
      <3>1. PICK s : s = SessionFor(journal, e)
        OBVIOUS
      <3>2. /\ e.sequence \in DOMAIN s.event_hashes
            /\ s.event_hashes[e.sequence] = hash_answer_event(e)
        BY <1>6, <1>15, <3>1, DuplicateFacts
      <3> QED
        BY <1>9, <3>1, <3>2, Zenon DEF AckHash
    <2>3. n = Len(r.last)
      BY <1>12, <2>1
    <2>4. n <= Len(r.last) /\ e.sequence <= n
      BY <1>12, <2>1, <2>3
    <2>5. m.type # "state"
      BY <1>13
    <2>6. ReplyOK(Cursors, Lasts, m)
      BY <1>5, <1>13, <2>1, <2>2, <2>4, <2>5, Zenon DEF ReplyOK
    <2>7. toServer' = Tail(toServer) /\ toClient' = Append(toClient, m)
      BY <1>11, Zenon DEF Reply
    <2> QED
      BY <1>3, <1>13, <2>5, <2>6, <2>7, ReplyKeeps
  <1> QED
    BY <1>14, <1>15

\* ServerEvent, ServerEventUnwritten.
LEMMA ServerEventKeeps ==
  ASSUME PipelineIInv, ServerEvent \/ ServerEventUnwritten
  PROVE  PipelineIInv'
  <1>1. PICK e : e = Head(toServer).event
    OBVIOUS
  <1>2. toServer # <<>> /\ Head(toServer).type = "event"
    BY DEF ServerEvent, ServerEventUnwritten, OfType
  <1>3. e \in Event /\ hash_answer_event(e) \in Digest
    BY <1>1, <1>2, ArrivedEvent
  <1>4. PipelineTypeOK /\ IndexOK(journal)
    BY InvariantParts, SessionsHold
  <1>5. journalOpen \in BOOLEAN /\ context \in Keys \cup {NoExam}
    BY <1>4 DEF PipelineTypeOK
  <1>6. /\ "unavailable" \in AckStatus /\ "unavailable" \notin Durable /\ ZeroDigest \in Digest
        /\ 0 \in Nat
    BY PrefixZero DEF AckStatus, Durable
  <1>7. CASE ServerEvent
    <2>1. /\ UNCHANGED <<pageVars, bridge, agentQueue, serviceVars, context, history>>
          /\ \/ Disconnects
             \/ /\ Reply([Ack(e, "unavailable", ZeroDigest) EXCEPT !.highest = 0])
                /\ UNCHANGED <<journal, journalOpen>>
             \/ /\ Verdict(journal, e) = "write" /\ journal' = Indexed(journal, e)
                /\ Reply([Ack(e, "accepted", hash_answer_event(e)) EXCEPT !.highest = e.sequence])
                /\ UNCHANGED journalOpen
             \/ /\ Verdict(journal, e) # "write"
                /\ Reply(Ack(e, Verdict(journal, e), AckHash(e)))
                /\ UNCHANGED <<journal, journalOpen>>
      BY <1>1, <1>7, Zenon DEF ServerEvent
    <2>2. UNCHANGED typed
      BY <2>1 DEF history
    <2>3. CASE Disconnects
      BY <1>5, <2>1, <2>2, <2>3, ClosingKeeps DEF Disconnects
    <2>4. CASE /\ Reply([Ack(e, "unavailable", ZeroDigest) EXCEPT !.highest = 0])
               /\ UNCHANGED <<journal, journalOpen>>
      <3>1. PICK m : m = AckOf(e, "unavailable", ZeroDigest, 0)
        OBVIOUS
      <3>2. m \in ServerMessage /\ m.type = "ack" /\ m.status = "unavailable"
        BY <1>3, <1>6, <3>1, AckOfFacts
      <3>3. [Ack(e, "unavailable", ZeroDigest) EXCEPT !.highest = 0] = m
        BY <1>3, <1>4, <3>1, AckForms
      <3>4. Reply(m)
        BY <2>4, <3>3, Zenon
      <3> QED
        BY <1>2, <1>5, <1>6, <2>1, <2>2, <2>4, <3>2, <3>4, RefusalKeeps
    <2>5. CASE /\ Verdict(journal, e) = "write" /\ journal' = Indexed(journal, e)
               /\ Reply([Ack(e, "accepted", hash_answer_event(e)) EXCEPT !.highest = e.sequence])
               /\ UNCHANGED journalOpen
      <3>1. PICK m : m = AckOf(e, "accepted", hash_answer_event(e), e.sequence)
        OBVIOUS
      <3>2. [Ack(e, "accepted", hash_answer_event(e)) EXCEPT !.highest = e.sequence] = m
        BY <1>3, <1>4, <3>1, AckForms
      <3>3. Reply(m)
        BY <2>5, <3>2, Zenon
      <3> QED
        BY <1>1, <1>2, <2>1, <2>2, <2>5, <3>1, <3>3, AcceptedKeeps
    <2>6. CASE /\ Verdict(journal, e) # "write"
               /\ Reply(Ack(e, Verdict(journal, e), AckHash(e)))
               /\ UNCHANGED <<journal, journalOpen>>
      BY <1>1, <1>2, <2>1, <2>2, <2>6, AnsweredKeeps
    <2> QED
      BY <2>1, <2>3, <2>4, <2>5, <2>6, Zenon
  <1>8. CASE ServerEventUnwritten
    <2>1. /\ Reply(Ack(e, "unavailable", hash_answer_event(e))) /\ journalOpen' = FALSE
          /\ UNCHANGED <<pageVars, bridge, agentQueue, serviceVars, context, journal, typed>>
      BY <1>1, <1>8, Zenon DEF ServerEventUnwritten
    <2>2. PICK n \in Nat :
              Ack(e, "unavailable", hash_answer_event(e))
                = AckOf(e, "unavailable", hash_answer_event(e), n)
      <3>1. CASE e.key \in DOMAIN journal
        BY <1>3, <1>4, <3>1, AckForms
      <3>2. CASE e.key \notin DOMAIN journal
        BY <1>3, <1>4, <1>6, <3>2, AckForms
      <3> QED
        BY <3>1, <3>2
    <2>3. PICK m : m = AckOf(e, "unavailable", hash_answer_event(e), n)
      OBVIOUS
    <2>4. m \in ServerMessage /\ m.type = "ack" /\ m.status = "unavailable"
      BY <1>3, <1>6, <2>3, AckOfFacts
    <2>5. Reply(m)
      BY <2>1, <2>2, <2>3, Zenon
    <2>6. journalOpen' \in BOOLEAN /\ m.status \notin Durable
      BY <1>6, <2>1, <2>4
    <2> QED
      BY <1>2, <2>1, <2>4, <2>5, <2>6, RefusalKeeps
  <1> QED
    BY <1>7, <1>8

-----------------------------------------------------------------------------
(* The page. *)

\* Where the reply h may have moved the cursor of session k.
CursorFrom(h, k, old, new) ==
    \/ new = old
    \/ IsDurable(h) /\ h.key = k /\ new = h.hash
    \/ h.type = "state" /\ h.key = k /\ new = h.state.last

\* The replies behind h, which has left the queue of the page.
Behind(h, q) ==
    /\ agentQueue' = q /\ q \in Seq(ServerMessage) /\ InOrder(q)
    /\ Elems(q) \subseteq Elems(agentQueue)
    /\ AllBefore({h}, Elems(q)) /\ AllBefore({h}, Elems(toClient))

\* The page that is loaded is in order.
LEMMA LoadedPage ==
  ASSUME PipelineIInv, exam # NoExam
  PROVE  /\ exam \in Keys /\ typed[exam] \in TypedSet /\ StateIn(journal, exam) \in ServerState
         /\ PageHolds(exam, typed[exam], StateIn(journal, exam), store[exam], page)
  <1>1. PipelineTypeOK /\ StoresOK /\ JournalsOK /\ ~page.conflict
    BY InvariantParts
  <1>2. exam \in Keys /\ page \in Page
    BY <1>1 DEF PipelineTypeOK
  <1>3. SessionHolds(exam)
    BY <1>1, <1>2, SessionsHold
  <1>4. page.conflict = FALSE
    BY <1>1, <1>2 DEF Page
  <1>5. /\ store[exam] \in Store /\ typed[exam] \in TypedSet
        /\ StateIn(journal, exam) \in ServerState /\ StoreOK(store[exam], exam, typed[exam])
        /\ JournalOK(store[exam], StateIn(journal, exam))
    BY <1>3, Zenon DEF SessionHolds
  <1> QED
    BY <1>2, <1>4, <1>5, Zenon DEF PageHolds

\* A handler of the page: its outcome is in order, and its cursor stays behind the replies.
LEMMA PageStepKeeps ==
  ASSUME PipelineIInv, exam # NoExam, NEW o, NEW b, NEW h, NEW q, PageStep(o), UNCHANGED typed,
         GoodOutcome(o, exam, typed[exam], StateIn(journal, exam), store[exam], b),
         CursorFrom(h, exam, store[exam].previous, b), Behind(h, q)
  PROVE  PipelineIInv'
  <1>1. /\ PipelineTypeOK /\ StoresOK /\ JournalsOK
        /\ EventsHold(Chains, bridge, toServer, ingress, outbox)
        /\ MessagesHold(Cursors, Lasts, agentQueue, toClient, outbox)
    BY InvariantParts
  <1>2. PICK k \in Keys : k = exam
    BY LoadedPage
  <1>3. PICK x : x = o.store
    OBVIOUS
  <1>4. PICK r : r = StateIn(journal, k)
    OBVIOUS
  <1>5. /\ PageHolds(k, typed[k], r, x, o.page) /\ Prefix(Chain(store[k]), Chain(x))
        /\ x.previous = store[k].previous \/ x.previous = b
        /\ PostedOK(o.posted, k, Chain(x))
    BY <1>2, <1>3, <1>4, Zenon DEF GoodOutcome
  <1>6. /\ x \in Store /\ o.page \in Page /\ o.page.conflict = FALSE
        /\ StoreOK(x, k, typed[k]) /\ JournalOK(x, r)
    BY <1>5, Zenon DEF PageHolds
  <1>7. /\ store' = [store EXCEPT ![k] = x] /\ page' = o.page /\ bridge' = bridge \o o.posted
        /\ UNCHANGED <<exam, serviceVars, linkVars, serverVars>>
    BY <1>2, <1>3, Zenon DEF PageStep
  <1>8. UNCHANGED <<exam, outbox, ingress, requests, inflight, toServer, toClient, context,
                    journal, journalOpen>>
    BY <1>7 DEF serviceVars, linkVars, serverVars
  <1>9. store \in [Keys -> Store]
    BY <1>1 DEF PipelineTypeOK
  <1>10. PICK st : st = store'
    OBVIOUS
  <1>11. /\ st \in [Keys -> Store] /\ st[k] = x /\ \A y \in Keys : y # k => st[y] = store[y]
    BY <1>6, <1>7, <1>9, <1>10
  <1>12. /\ Chains \in ChainMap /\ Cursors \in ChainMap /\ Lasts \in ChainMap
    BY <1>1, SessionsHold
  <1>13. StoresOK'
    <2> SUFFICES ASSUME NEW y \in Keys
                 PROVE  StoreOK(st[y], y, typed[y]) /\ JournalOK(st[y], StateIn(journal, y))
      BY <1>8, <1>10, Zenon DEF StoresOK
    <2>1. StoreOK(store[y], y, typed[y]) /\ JournalOK(store[y], StateIn(journal, y))
      BY <1>1, Zenon DEF StoresOK
    <2>2. CASE y = k
      BY <1>4, <1>6, <1>11, <2>2, Zenon
    <2>3. CASE y # k
      BY <1>11, <2>1, <2>3, Zenon
    <2> QED
      BY <2>2, <2>3
  <1>14. JournalsOK' /\ Lasts' = Lasts
    BY <1>1, <1>8 DEF JournalsOK, Lasts
  <1>15. PICK d : d = Chains'
    OBVIOUS
  <1>16. d = [y \in Keys |-> Chain(st[y])]
    BY <1>10, <1>15, Zenon DEF Chains
  <1>17. ASSUME NEW y \in Keys
         PROVE  /\ d[y] = Chain(st[y]) /\ Chain(st[y]) \in Digest /\ Prefix(Chains[y], d[y])
    <2>1. d[y] = Chain(st[y])
      BY <1>16
    <2>2. Chains[y] = Chain(store[y]) /\ Chains[y] \in Digest
      BY <1>12 DEF Chains, ChainMap
    <2>3. CASE y = k
      <3>1. Chain(x) \in Digest
        <4>1. CursorOK(x, k)
          BY <1>6, Zenon DEF StoreOK
        <4> QED
          BY <1>6, <4>1, ChainFacts
      <3> QED
        BY <1>5, <1>11, <2>1, <2>2, <2>3, <3>1, Zenon
    <2>4. CASE y # k
      <3>1. d[y] = Chains[y]
        BY <1>11, <2>1, <2>2, <2>4, Zenon
      <3> QED
        BY <2>1, <2>2, <3>1, PrefixRefl
    <2> QED
      BY <2>3, <2>4
  <1>18. d \in ChainMap /\ Grows(Chains, d) /\ d[k] = Chain(x)
    BY <1>11, <1>16, <1>17 DEF ChainMap, Grows
  <1>19. /\ bridge \in Seq(PageMessage) /\ outbox \in Image /\ agentQueue \in Seq(ServerMessage)
    BY <1>1 DEF PipelineTypeOK
  <1>20. o.posted \in Seq(PageMessage) /\ EventsOnChain(d, Elems(o.posted))
    <2>1. o.posted \in Seq(PageMessage)
      BY <1>5, Zenon DEF PostedOK
    <2> SUFFICES ASSUME NEW m \in Elems(o.posted), m.type = "event" PROVE OnChain(d, m.event)
      BY <2>1, Zenon DEF EventsOnChain
    <2>2. PICK n \in 1..Len(o.posted) : m = o.posted[n]
      BY DEF Elems
    <2>3. /\ m.event.key = k /\ m.event.sequence = Len(hash_answer_event(m.event))
          /\ Prefix(hash_answer_event(m.event), Chain(x))
      BY <1>5, <2>2, Zenon DEF PostedOK
    <2> QED
      BY <1>18, <2>3, Zenon DEF OnChain
  <1>21. EventsHold(d, bridge', toServer', ingress', outbox') /\ bridge' \in Seq(PageMessage)
    <2>1. /\ EventsOnChain(Chains, Elems(bridge)) /\ EventsOnChain(Chains, Elems(toServer))
          /\ AllOnChain(Chains, Elems(ingress)) /\ OutboxOK(Chains, outbox)
      BY <1>1, Zenon DEF EventsHold
    <2>2. /\ EventsOnChain(d, Elems(bridge)) /\ EventsOnChain(d, Elems(toServer))
          /\ AllOnChain(d, Elems(ingress))
      <3>1. /\ Elems(bridge) \in SUBSET PageMessage /\ Elems(toServer) \in SUBSET PageMessage
            /\ Elems(ingress) \in SUBSET Event
        BY <1>1, QueuesTyped
      <3> QED
        BY <1>12, <1>18, <2>1, <3>1, EventsGrow
    <2>3. OutboxOK(d, outbox)
      BY <1>12, <1>18, <1>19, <2>1, OutboxGrows
    <2>4. bridge' \in Seq(PageMessage) /\ Elems(bridge') \subseteq Elems(bridge) \cup Elems(o.posted)
      BY <1>7, <1>19, <1>20, ElemsConcat
    <2>5. EventsOnChain(d, Elems(bridge) \cup Elems(o.posted))
      BY <1>20, <2>2, UnionsHold
    <2>6. EventsOnChain(d, Elems(bridge'))
      BY <2>4, <2>5, PartsHold
    <2> QED
      BY <1>8, <2>2, <2>3, <2>4, <2>6, Zenon DEF EventsHold
  <1>22. PICK p : p = Cursors'
    OBVIOUS
  <1>23. MovedBy(h, Cursors, p)
    <2> SUFFICES ASSUME NEW y \in Keys
                 PROVE  \/ p[y] = Cursors[y]
                        \/ IsDurable(h) /\ h.key = y /\ p[y] = h.hash
                        \/ h.type = "state" /\ h.key = y /\ p[y] = h.state.last
      BY Zenon DEF MovedBy
    <2>1. p[y] = st[y].previous /\ Cursors[y] = store[y].previous
      BY <1>10, <1>22 DEF Cursors
    <2>2. CASE y = k
      BY <1>2, <1>5, <1>11, <2>1, <2>2, Zenon DEF CursorFrom
    <2>3. CASE y # k
      BY <1>11, <2>1, <2>3, Zenon
    <2> QED
      BY <2>2, <2>3
  <1>24. MessagesHold(p, Lasts, q, toClient, outbox)
    <2>1. /\ RepliesOK(Cursors, Lasts, Elems(agentQueue)) /\ RepliesOK(Cursors, Lasts, Elems(toClient))
          /\ InOrder(toClient) /\ AllBefore(Elems(agentQueue), Elems(toClient))
          /\ AcksGone(outbox, Elems(agentQueue))
      BY <1>1, Zenon DEF MessagesHold
    <2>2. /\ Elems(q) \subseteq Elems(agentQueue) /\ InOrder(q) /\ AllBefore({h}, Elems(q))
          /\ AllBefore({h}, Elems(toClient)) /\ q \in Seq(ServerMessage)
      BY Zenon DEF Behind
    <2>3. /\ RepliesOK(Cursors, Lasts, Elems(q)) /\ AllBefore(Elems(q), Elems(toClient))
          /\ AcksGone(outbox, Elems(q))
      BY <2>1, <2>2, PartsHold
    <2>4. Elems(q) \in SUBSET ServerMessage /\ Elems(toClient) \in SUBSET ServerMessage
      BY <1>1, <2>2, QueuesTyped, ElemsOf
    <2>5. RepliesOK(p, Lasts, Elems(q)) /\ RepliesOK(p, Lasts, Elems(toClient))
      BY <1>23, <2>1, <2>2, <2>3, <2>4, RepliesMoved
    <2> QED
      BY <2>1, <2>2, <2>3, <2>5, Zenon DEF MessagesHold
  <1>25. agentQueue' = q /\ q \in Seq(ServerMessage)
    BY Zenon DEF Behind
  <1>26. PipelineTypeOK'
    BY <1>1, <1>6, <1>7, <1>8, <1>10, <1>11, <1>21, <1>25 DEF PipelineTypeOK
  <1>27. EventsOK' /\ MessagesOK'
    BY <1>8, <1>14, <1>15, <1>21, <1>22, <1>24, <1>25, Zenon DEF EventsOK, MessagesOK
  <1>28. NoManualReview'
    BY <1>6, <1>7 DEF NoManualReview
  <1> QED
    BY <1>13, <1>14, <1>26, <1>27, <1>28, Zenon DEF PipelineIInv

\* Submit, EditTimer, RetryTimer, AckTimeout: no reply is read.
LEMMA PageTimersKeep ==
  ASSUME PipelineIInv, Submit \/ EditTimer \/ RetryTimer \/ AckTimeout
  PROVE  PipelineIInv'
  <1>1. exam # NoExam /\ agentQueue' = agentQueue /\ typed' = typed
    BY DEF Submit, EditTimer, RetryTimer, AckTimeout, history
  <1>2. PICK h : h = [type |-> "stop"]
    OBVIOUS
  <1>3. ~IsDurable(h) /\ h.type # "state"
    BY <1>2 DEF IsDurable
  <1>4. Behind(h, agentQueue)
    <2>1. agentQueue \in Seq(ServerMessage) /\ InOrder(agentQueue)
      BY InvariantParts DEF PipelineTypeOK, MessagesHold
    <2>2. \A M : AllBefore({h}, M)
      BY <1>3 DEF AllBefore, Before
    <2> QED
      BY <1>1, <2>1, <2>2, Zenon DEF Behind
  <1>5. PICK k \in Keys : k = exam
    BY <1>1, LoadedPage
  <1>6. PICK b : b = store[exam].previous
    OBVIOUS
  <1>7. PICK t \in TypedSet, r \in ServerState : t = typed[exam] /\ r = StateIn(journal, exam)
    BY <1>1, LoadedPage
  <1>8. PICK s, v : s = store[exam] /\ v = page
    OBVIOUS
  <1>9. PageHolds(k, t, r, s, v)
    BY <1>1, <1>5, <1>7, <1>8, LoadedPage, Zenon
  <1>10. PICK o : GoodOutcome(o, k, t, r, s, b) /\ PageStep(o)
    <2>1. CASE Submit
      <3>1. ~submitted(s) /\ PageStep(submitResponse(k, s, v))
        BY <1>5, <1>8, <2>1, Zenon DEF Submit
      <3>2. GoodOutcome(submitResponse(k, s, v), k, t, r, s, b)
        BY <1>9, <3>1, SubmitGood
      <3> QED
        BY <3>1, <3>2, Zenon
    <2>2. CASE EditTimer
      <3>1. PageStep(flushAnswerBridge(k, s, [v EXCEPT !.edit = FALSE]))
        BY <1>5, <1>8, <2>2, Zenon DEF EditTimer
      <3>2. GoodOutcome(flushAnswerBridge(k, s, [v EXCEPT !.edit = FALSE]), k, t, r, s, b)
        BY <1>9, EditGood
      <3> QED
        BY <3>1, <3>2, Zenon
    <2>3. CASE RetryTimer
      <3>1. PageStep(retryTimer(k, s, v))
        BY <1>5, <1>8, <2>3, Zenon DEF RetryTimer
      <3>2. GoodOutcome(retryTimer(k, s, v), k, t, r, s, b)
        BY <1>9, RetryGood
      <3> QED
        BY <3>1, <3>2, Zenon
    <2>4. CASE AckTimeout
      <3>1. PageStep(ackTimeout(k, s, v))
        BY <1>5, <1>8, <2>4, Zenon DEF AckTimeout
      <3>2. GoodOutcome(ackTimeout(k, s, v), k, t, r, s, b)
        BY <1>9, TimeoutGood
      <3> QED
        BY <3>1, <3>2, Zenon
    <2> QED
      BY <2>1, <2>2, <2>3, <2>4
  <1>11. GoodOutcome(o, exam, typed[exam], StateIn(journal, exam), store[exam], b)
    BY <1>5, <1>7, <1>8, <1>10, Zenon
  <1>12. CursorFrom(h, exam, store[exam].previous, b)
    BY <1>6, Zenon DEF CursorFrom
  <1> QED
    BY <1>1, <1>4, <1>10, <1>11, <1>12, PageStepKeeps

\* The next message of the page: what is known of it and of those behind it.
LEMMA NextMessage ==
  ASSUME PipelineIInv, agentQueue # <<>>, agentQueue' = Tail(agentQueue),
         NEW h, h = Head(agentQueue)
  PROVE  h \in ServerMessage /\ ReplyOK(Cursors, Lasts, h) /\ Behind(h, Tail(agentQueue))
  <1>1. PipelineTypeOK /\ MessagesHold(Cursors, Lasts, agentQueue, toClient, outbox)
    BY InvariantParts
  <1>2. agentQueue \in Seq(ServerMessage)
    BY <1>1 DEF PipelineTypeOK
  <1>3. /\ RepliesOK(Cursors, Lasts, Elems(agentQueue)) /\ InOrder(agentQueue)
        /\ AllBefore(Elems(agentQueue), Elems(toClient))
    BY <1>1, Zenon DEF MessagesHold
  <1>4. /\ Elems(agentQueue) \subseteq ServerMessage /\ h \in Elems(agentQueue)
        /\ Tail(agentQueue) \in Seq(ServerMessage)
        /\ Elems(Tail(agentQueue)) \subseteq Elems(agentQueue)
    BY <1>2, ElemsOf
  <1>5. InOrder(Tail(agentQueue)) /\ AllBefore({h}, Elems(Tail(agentQueue)))
    BY <1>2, <1>3, OrderOfTail
  <1>6. AllBefore({h}, Elems(toClient))
    BY <1>3, <1>4, PartsHold
  <1>7. ReplyOK(Cursors, Lasts, h)
    BY <1>3, <1>4, Zenon DEF RepliesOK
  <1> QED
    BY <1>4, <1>5, <1>6, <1>7, Zenon DEF Behind

\* A message that changes no store.
LEMMA ReadingKeeps ==
  ASSUME PipelineIInv, agentQueue # <<>>, agentQueue' = Tail(agentQueue),
         UNCHANGED <<store, typed, serviceVars, linkVars, serverVars>>,
         exam' \in Keys \cup {NoExam}, page' \in Page, ~page'.conflict,
         bridge' \in Seq(PageMessage), EventsOnChain(Chains, Elems(bridge'))
  PROVE  PipelineIInv'
  <1>1. /\ PipelineTypeOK /\ EventsHold(Chains, bridge, toServer, ingress, outbox)
        /\ MessagesHold(Cursors, Lasts, agentQueue, toClient, outbox)
    BY InvariantParts
  <1>2. UNCHANGED <<store, typed, outbox, ingress, requests, inflight, toServer, toClient, context,
                    journal, journalOpen>>
    BY DEF serviceVars, linkVars, serverVars
  <1>3. PICK q : q = Tail(agentQueue)
    OBVIOUS
  <1>4. q \in Seq(ServerMessage) /\ InOrder(q) /\ Elems(q) \subseteq Elems(agentQueue)
    BY <1>3, NextMessage, Zenon DEF Behind
  <1>5. MessagesHold(Cursors, Lasts, q, toClient, outbox)
    <2>1. /\ RepliesOK(Cursors, Lasts, Elems(agentQueue)) /\ RepliesOK(Cursors, Lasts, Elems(toClient))
          /\ InOrder(toClient) /\ AllBefore(Elems(agentQueue), Elems(toClient))
          /\ AcksGone(outbox, Elems(agentQueue))
      BY <1>1, Zenon DEF MessagesHold
    <2>2. /\ RepliesOK(Cursors, Lasts, Elems(q)) /\ AllBefore(Elems(q), Elems(toClient))
          /\ AcksGone(outbox, Elems(q))
      BY <1>4, <2>1, PartsHold
    <2> QED
      BY <1>4, <2>1, <2>2, Zenon DEF MessagesHold
  <1>6. PipelineTypeOK'
    BY <1>1, <1>2, <1>3, <1>4 DEF PipelineTypeOK
  <1>7. /\ EventsHold(Chains, bridge', toServer', ingress', outbox')
        /\ MessagesHold(Cursors, Lasts, agentQueue', toClient', outbox')
    BY <1>1, <1>2, <1>3, <1>5, Zenon DEF EventsHold
  <1> QED
    BY <1>2, <1>6, <1>7, QuietStep

\* A message for a page that is not loaded is lost.
LEMMA LostKeeps ==
  ASSUME PipelineIInv, agentQueue # <<>>, agentQueue' = Tail(agentQueue),
         UNCHANGED <<pageVars, bridge, serviceVars, linkVars, serverVars, typed>>
  PROVE  PipelineIInv'
  <1>1. /\ PipelineTypeOK /\ ~page.conflict
        /\ EventsHold(Chains, bridge, toServer, ingress, outbox)
    BY InvariantParts
  <1>2. /\ exam \in Keys \cup {NoExam} /\ page \in Page /\ bridge \in Seq(PageMessage)
        /\ EventsOnChain(Chains, Elems(bridge))
    BY <1>1 DEF PipelineTypeOK, EventsHold
  <1> QED
    BY <1>1, <1>2, ReadingKeeps DEF pageVars

\* PageAck: a durable acknowledgement moves the cursor to the journal's last event.
LEMMA PageAckKeeps ==
  ASSUME PipelineIInv, PageAck
  PROVE  PipelineIInv'
  <1>1. PICK h : h = Head(agentQueue)
    OBVIOUS
  <1>2. /\ agentQueue # <<>> /\ h.type = "ack" /\ agentQueue' = Tail(agentQueue) /\ typed' = typed
        /\ \/ UNCHANGED <<pageVars, bridge, serviceVars, linkVars, serverVars>>
           \/ exam # NoExam /\ PageStep(handleAnswerAck(exam, store[exam], page, h))
    BY <1>1, Zenon DEF PageAck, FromService, history
  <1>3. CASE UNCHANGED <<pageVars, bridge, serviceVars, linkVars, serverVars>>
    BY <1>2, <1>3, LostKeeps
  <1>4. CASE exam # NoExam /\ PageStep(handleAnswerAck(exam, store[exam], page, h))
    <2>1. h \in ServerMessage /\ ReplyOK(Cursors, Lasts, h) /\ Behind(h, Tail(agentQueue))
      BY <1>1, <1>2, NextMessage
    <2>2. h \in AckMessage
      BY <1>2, <2>1, ReplyFields
    <2>3. /\ exam \in Keys /\ typed[exam] \in TypedSet /\ StateIn(journal, exam) \in ServerState
          /\ PageHolds(exam, typed[exam], StateIn(journal, exam), store[exam], page)
      BY <1>4, LoadedPage
    <2>4. Lasts[exam] = StateIn(journal, exam).last
      BY <2>3 DEF Lasts
    <2>5. AckKnown(h, exam, StateIn(journal, exam).last)
      BY <2>1, <2>4, Zenon DEF AckKnown, ReplyOK
    <2>6. PICK o : o = handleAnswerAck(exam, store[exam], page, h)
      OBVIOUS
    <2>7. PICK b : b = AckCursor(exam, store[exam], h)
      OBVIOUS
    <2>8. GoodOutcome(o, exam, typed[exam], StateIn(journal, exam), store[exam], b)
      <3>1. PICK k \in Keys, t \in TypedSet, r \in ServerState :
                k = exam /\ t = typed[exam] /\ r = StateIn(journal, exam)
        BY <2>3
      <3>2. PICK s, v : s = store[exam] /\ v = page
        OBVIOUS
      <3>3. PageHolds(k, t, r, s, v) /\ AckKnown(h, k, r.last)
        BY <2>3, <2>5, <3>1, <3>2, Zenon
      <3>4. GoodOutcome(handleAnswerAck(k, s, v, h), k, t, r, s, AckCursor(k, s, h))
        BY <2>2, <3>3, AckGood
      <3> QED
        BY <2>6, <2>7, <3>1, <3>2, <3>4, Zenon
    <2>9. CursorFrom(h, exam, store[exam].previous, b)
      BY <2>7, Zenon DEF CursorFrom, AckCursor
    <2>10. PageStep(o)
      BY <1>4, <2>6, Zenon
    <2> QED
      BY <1>2, <1>4, <2>1, <2>8, <2>9, <2>10, PageStepKeeps
  <1> QED
    BY <1>2, <1>3, <1>4

\* PageState: the cursor takes the response's watermark.
LEMMA PageStateKeeps ==
  ASSUME PipelineIInv, PageState
  PROVE  PipelineIInv'
  <1>1. PICK h : h = Head(agentQueue)
    OBVIOUS
  <1>2. /\ agentQueue # <<>> /\ h.type = "state" /\ agentQueue' = Tail(agentQueue) /\ typed' = typed
        /\ \/ UNCHANGED <<pageVars, bridge, serviceVars, linkVars, serverVars>>
           \/ exam = h.key /\ PageStep(applyStateResponse(exam, store[exam], page, h.state))
    BY <1>1, Zenon DEF PageState, FromService, history
  <1>3. CASE UNCHANGED <<pageVars, bridge, serviceVars, linkVars, serverVars>>
    BY <1>2, <1>3, LostKeeps
  <1>4. CASE exam = h.key /\ PageStep(applyStateResponse(exam, store[exam], page, h.state))
    <2>1. h \in ServerMessage /\ ReplyOK(Cursors, Lasts, h) /\ Behind(h, Tail(agentQueue))
      BY <1>1, <1>2, NextMessage
    <2>2. h.key \in Keys /\ h.state \in ServerState
      BY <1>2, <2>1, ReplyFields
    <2>3. exam # NoExam
      BY <1>4, <2>2, PipelineAssumption
    <2>4. /\ exam \in Keys /\ typed[exam] \in TypedSet /\ StateIn(journal, exam) \in ServerState
          /\ PageHolds(exam, typed[exam], StateIn(journal, exam), store[exam], page)
      BY <2>3, LoadedPage
    <2>5. Lasts[exam] = StateIn(journal, exam).last /\ Cursors[exam] = store[exam].previous
      BY <2>4 DEF Lasts, Cursors
    <2>6. /\ StateOK(h.state) /\ Prefix(store[exam].previous, h.state.last)
          /\ Prefix(h.state.last, StateIn(journal, exam).last)
      BY <1>2, <1>4, <2>1, <2>5, Zenon DEF ReplyOK
    <2>7. PICK o : o = applyStateResponse(exam, store[exam], page, h.state)
      OBVIOUS
    <2>8. PICK b : b = h.state.last
      OBVIOUS
    <2>9. GoodOutcome(o, exam, typed[exam], StateIn(journal, exam), store[exam], b)
      <3>1. PICK k \in Keys, t \in TypedSet, r \in ServerState :
                k = exam /\ t = typed[exam] /\ r = StateIn(journal, exam)
        BY <2>4
      <3>2. PICK s, v : s = store[exam] /\ v = page
        OBVIOUS
      <3>3. PICK m \in ServerState : m = h.state
        BY <2>2
      <3>4. /\ PageHolds(k, t, r, s, v) /\ StateOK(m) /\ Prefix(s.previous, m.last)
            /\ Prefix(m.last, r.last)
        BY <2>4, <2>6, <3>1, <3>2, <3>3, Zenon
      <3>5. GoodOutcome(applyStateResponse(k, s, v, m), k, t, r, s, m.last)
        BY <3>4, StateGood
      <3> QED
        BY <2>7, <2>8, <3>1, <3>2, <3>3, <3>5, Zenon
    <2>10. CursorFrom(h, exam, store[exam].previous, b)
      BY <1>2, <1>4, <2>8, Zenon DEF CursorFrom
    <2>11. PageStep(o)
      BY <1>4, <2>7, Zenon
    <2> QED
      BY <1>2, <2>1, <2>3, <2>9, <2>10, <2>11, PageStepKeeps
  <1> QED
    BY <1>2, <1>3, <1>4

\* PageStarts, PageStops: the page is loaded anew or gone, its store stays.
LEMMA PageLoadsKeep ==
  ASSUME PipelineIInv, PageStarts \/ PageStops
  PROVE  PipelineIInv'
  <1>1. /\ PipelineTypeOK /\ StoresOK /\ JournalsOK
        /\ EventsHold(Chains, bridge, toServer, ingress, outbox)
    BY InvariantParts
  <1>2. bridge \in Seq(PageMessage) /\ EventsOnChain(Chains, Elems(bridge))
    BY <1>1 DEF PipelineTypeOK, EventsHold
  <1>3. FreshPage \in Page /\ FreshPage.conflict = FALSE
    BY DEF FreshPage, Page
  <1>4. CASE PageStops
    <2>1. /\ agentQueue # <<>> /\ agentQueue' = Tail(agentQueue) /\ exam' = NoExam
          /\ page' = FreshPage /\ UNCHANGED <<store, bridge, serviceVars, linkVars, serverVars, history>>
      BY <1>4, Zenon DEF PageStops, FromService
    <2> QED
      BY <1>2, <1>3, <2>1, ReadingKeeps DEF history
  <1>5. CASE PageStarts
    <2>1. PICK h : h = Head(agentQueue)
      OBVIOUS
    <2>2. PICK k : k = h.key
      OBVIOUS
    <2>3. PICK o : o = beginStateReconcile(k, store[k], FreshPage)
      OBVIOUS
    <2>4. /\ agentQueue # <<>> /\ h.type = "start" /\ agentQueue' = Tail(agentQueue)
          /\ exam' = k /\ page' = o.page /\ bridge' = bridge \o o.posted
          /\ UNCHANGED <<store, serviceVars, linkVars, serverVars, history>>
      BY <1>5, <2>1, <2>2, <2>3, Zenon DEF PageStarts, FromService
    <2>5. k \in Keys
      BY <2>1, <2>2, <2>4, NextMessage, ReplyFields
    <2>6. SessionHolds(k)
      BY <1>1, <2>5, SessionsHold
    <2>7. PageHolds(k, typed[k], StateIn(journal, k), store[k], FreshPage) /\ Chains[k] = Chain(store[k])
      BY <1>3, <2>6, Zenon DEF PageHolds, SessionHolds
    <2>8. GoodOutcome(o, k, typed[k], StateIn(journal, k), store[k], store[k].previous)
      BY <2>3, <2>5, <2>7, ReconcileGood
    <2>9. o.store = store[k]
      BY <2>3 DEF beginStateReconcile, requestExamStateWithRetry, Outcome
    <2>10. o.page \in Page /\ o.page.conflict = FALSE /\ PostedOK(o.posted, k, Chain(store[k]))
      BY <2>8, <2>9, Zenon DEF GoodOutcome, PageHolds
    <2>11. o.posted \in Seq(PageMessage) /\ EventsOnChain(Chains, Elems(o.posted))
      <3>1. o.posted \in Seq(PageMessage)
        BY <2>10, Zenon DEF PostedOK
      <3> SUFFICES ASSUME NEW m \in Elems(o.posted), m.type = "event" PROVE OnChain(Chains, m.event)
        BY <3>1, Zenon DEF EventsOnChain
      <3>2. PICK n \in 1..Len(o.posted) : m = o.posted[n]
        BY DEF Elems
      <3>3. /\ m.event.key = k /\ m.event.sequence = Len(hash_answer_event(m.event))
            /\ Prefix(hash_answer_event(m.event), Chain(store[k]))
        BY <2>10, <3>2, Zenon DEF PostedOK
      <3> QED
        BY <2>7, <3>3, Zenon DEF OnChain
    <2>12. bridge' \in Seq(PageMessage) /\ EventsOnChain(Chains, Elems(bridge'))
      <3>1. bridge' \in Seq(PageMessage) /\ Elems(bridge') \subseteq Elems(bridge) \cup Elems(o.posted)
        BY <1>2, <2>4, <2>11, ElemsConcat
      <3>2. EventsOnChain(Chains, Elems(bridge) \cup Elems(o.posted))
        BY <1>2, <2>11, UnionsHold
      <3> QED
        BY <3>1, <3>2, PartsHold
    <2> QED
      BY <2>4, <2>5, <2>10, <2>12, ReadingKeeps DEF history
  <1> QED
    BY <1>4, <1>5

\* SecondPasses, and a step in which nothing happens.
LEMMA NothingKeeps ==
  ASSUME PipelineIInv, SecondPasses \/ UNCHANGED vars
  PROVE  PipelineIInv'
  <1>1. /\ PipelineTypeOK /\ ~page.conflict
        /\ EventsHold(Chains, bridge, toServer, ingress, outbox)
    BY InvariantParts
  <1>2. page \in Page
    BY <1>1 DEF PipelineTypeOK
  <1>3. /\ page' \in Page /\ ~page'.conflict
        /\ UNCHANGED <<exam, store, bridge, agentQueue, serviceVars, linkVars, serverVars, typed>>
    <2>1. CASE SecondPasses
      BY <1>1, <1>2, <2>1 DEF SecondPasses, Page, history
    <2>2. CASE UNCHANGED vars
      BY <1>1, <1>2, <2>2 DEF vars, pageVars, history
    <2> QED
      BY <2>1, <2>2
  <1>4. UNCHANGED <<exam, store, bridge, agentQueue, outbox, ingress, requests, inflight, toServer,
                    toClient, context, journal, journalOpen, typed>>
    BY <1>3 DEF serviceVars, linkVars, serverVars
  <1>5. PipelineTypeOK'
    BY <1>1, <1>3, <1>4 DEF PipelineTypeOK
  <1>6. EventsHold(Chains, bridge', toServer', ingress', outbox')
    BY <1>1, <1>4, Zenon
  <1>7. MarksKept(outbox, outbox')
    BY <1>1, <1>4, MarksKeptRefl DEF PipelineTypeOK
  <1> QED
    BY <1>3, <1>4, <1>5, <1>6, <1>7, SendingStep

\* Type: the answer is drafted, the chain stays.
LEMMA TypeKeeps ==
  ASSUME PipelineIInv, NEW q \in Questions, NEW a \in Answers \cup {NoAnswer}, Type(q, a)
  PROVE  PipelineIInv'
  <1>1. /\ PipelineTypeOK /\ StoresOK /\ JournalsOK /\ ~page.conflict
        /\ EventsHold(Chains, bridge, toServer, ingress, outbox)
        /\ MessagesHold(Cursors, Lasts, agentQueue, toClient, outbox)
    BY InvariantParts
  <1>2. /\ exam # NoExam /\ ~submitted(store[exam])
        /\ store' = [store EXCEPT ![exam] = saveAnswer(@, q, a)]
        /\ page' = [page EXCEPT !.edit = TRUE] /\ typed' = [typed EXCEPT ![exam][q] = a]
        /\ UNCHANGED <<exam, bridge, agentQueue, serviceVars, linkVars, serverVars>>
    BY Zenon DEF Type
  <1>3. PICK k \in Keys : k = exam
    BY <1>2, LoadedPage
  <1>4. SessionHolds(k)
    BY <1>1, SessionsHold
  <1>5. PICK s \in Store : s = store[k]
    BY <1>4, Zenon DEF SessionHolds
  <1>6. PICK t \in TypedSet : t = typed[k]
    BY <1>4, Zenon DEF SessionHolds
  <1>7. PICK r \in ServerState : r = StateIn(journal, k)
    BY <1>4, Zenon DEF SessionHolds
  <1>8. PICK x : x = saveAnswer(s, q, a)
    OBVIOUS
  <1>9. PICK u : u = TypedWith(t, q, a)
    OBVIOUS
  <1>10. /\ x \in Store /\ StoreOK(x, k, u) /\ JournalOK(x, r)
         /\ Chain(x) = Chain(s) /\ x.previous = s.previous
    <2>1. StoreOK(s, k, t) /\ JournalOK(s, r) /\ ~submitted(s)
      BY <1>2, <1>3, <1>4, <1>5, <1>6, <1>7, Zenon DEF SessionHolds
    <2> QED
      BY <1>8, <1>9, <2>1, SaveGood
  <1>11. u \in TypedSet
    BY <1>9 DEF TypedSet, TypedWith
  <1>12. store \in [Keys -> Store] /\ typed \in [Keys -> TypedSet] /\ page \in Page
    BY <1>1 DEF PipelineTypeOK, TypedSet
  <1>13. PICK st, ty : st = store' /\ ty = typed'
    OBVIOUS
  <1>14. /\ st \in [Keys -> Store] /\ st[k] = x /\ \A y \in Keys : y # k => st[y] = store[y]
    <2>1. st = [store EXCEPT ![k] = x]
      BY <1>2, <1>3, <1>5, <1>8, <1>12, <1>13
    <2> QED
      BY <1>10, <1>12, <2>1
  <1>15. /\ ty \in [Keys -> TypedSet] /\ ty[k] = u /\ \A y \in Keys : y # k => ty[y] = typed[y]
    <2>1. ty = [typed EXCEPT ![k] = u]
      BY <1>2, <1>3, <1>6, <1>9, <1>12, <1>13 DEF TypedWith
    <2> QED
      BY <1>11, <1>12, <2>1
  <1>16. UNCHANGED <<exam, bridge, agentQueue, outbox, ingress, requests, inflight, toServer,
                     toClient, context, journal, journalOpen>>
    BY <1>2 DEF serviceVars, linkVars, serverVars
  <1>17. StoresOK'
    <2> SUFFICES ASSUME NEW y \in Keys
                 PROVE  StoreOK(st[y], y, ty[y]) /\ JournalOK(st[y], StateIn(journal, y))
      BY <1>13, <1>16, Zenon DEF StoresOK
    <2>1. StoreOK(store[y], y, typed[y]) /\ JournalOK(store[y], StateIn(journal, y))
      BY <1>1, Zenon DEF StoresOK
    <2>2. CASE y = k
      BY <1>7, <1>10, <1>14, <1>15, <2>2, Zenon
    <2>3. CASE y # k
      BY <1>14, <1>15, <2>1, <2>3, Zenon
    <2> QED
      BY <2>2, <2>3
  <1>18. JournalsOK' /\ Lasts' = Lasts
    BY <1>1, <1>16 DEF JournalsOK, Lasts
  <1>19. \A y \in Keys : Chain(st[y]) = Chain(store[y]) /\ st[y].previous = store[y].previous
    BY <1>5, <1>10, <1>14, Zenon
  <1>20. Chains' = Chains /\ Cursors' = Cursors
    BY <1>13, <1>19 DEF Chains, Cursors
  <1>21. page' \in Page /\ ~page'.conflict
    BY <1>1, <1>2, <1>12 DEF Page
  <1>22. PipelineTypeOK'
    BY <1>1, <1>13, <1>14, <1>15, <1>16, <1>21 DEF PipelineTypeOK, TypedSet
  <1>23. EventsOK' /\ MessagesOK'
    BY <1>1, <1>16, <1>18, <1>20, Zenon DEF EventsOK, MessagesOK
  <1>24. NoManualReview'
    BY <1>21 DEF NoManualReview
  <1> QED
    BY <1>17, <1>18, <1>22, <1>23, <1>24, Zenon DEF PipelineIInv

-----------------------------------------------------------------------------
(* The invariant. *)

\* A session nobody has typed in.
LEMMA FreshSession ==
  ASSUME NEW k \in Keys, NEW t, t = [q \in Questions |-> NoAnswer], NEW r, r = StateIn(<<>>, k)
  PROVE  EmptyStore \in Store /\ StoreOK(EmptyStore, k, t) /\ JournalOK(EmptyStore, r)
  <1>1. PICK s : s = EmptyStore
    OBVIOUS
  <1>2. /\ s.next = 1 /\ s.previous = ZeroDigest /\ s.known = 0 /\ s.knownLast = ZeroDigest
        /\ s.pending = <<>> /\ s.drafts = <<>> /\ s.finalize = FALSE /\ s.finalized = FALSE
        /\ DOMAIN s.answers = {}
    BY <1>1 DEF EmptyStore
  <1>3. s \in Store
    <2>1. [q \in {} |-> NoAnswer] \in Shows
      <3>1. [q \in {} |-> NoAnswer] \in [{} -> Answers \cup {NoAnswer}]
        OBVIOUS
      <3> QED
        BY <3>1 DEF Shows
    <2> QED
      BY <1>1, <2>1, PrefixZero, ElemsEmpty DEF EmptyStore, Store
  <1>4. Len(<<>>) = 0 /\ ZeroDigest \in Digest /\ Len(ZeroDigest) = 0
    BY EmptySeq, PrefixZero
  <1>5. Chain(s) = ZeroDigest
    BY <1>2, Zenon DEF Chain
  <1>6. ~FinalChain(ZeroDigest)
    BY DEF FinalChain
  <1>7. IsHistory(ZeroDigest, k)
    BY <1>4 DEF IsHistory
  <1>8. CursorOK(s, k)
    BY <1>2, <1>4, <1>5, <1>7 DEF CursorOK
  <1>9. FinalOK(s)
    <2>1. s.finalized = FinalChain(s.previous)
      BY <1>2 DEF FinalChain
    <2> QED
      BY <1>2, <1>5, <1>6, <2>1, Zenon DEF FinalOK
  <1>10. \A q : AnswerIn(ZeroDigest, q) = NoAnswer
    BY <1>4 DEF AnswerIn, Touching
  <1>11. TypedOK(s, t)
    <2> SUFFICES ASSUME NEW q \in Questions
                 PROVE  /\ \A i \in DraftOf(s, q) : s.drafts[i].answer = t[q]
                        /\ DraftOf(s, q) = {} => AnswerIn(Chain(s), q) = t[q]
                        /\ q \in DOMAIN s.answers => s.answers[q] = t[q]
      BY Zenon DEF TypedOK
    <2>1. DraftOf(s, q) = {} /\ t[q] = NoAnswer
      BY <1>2, <1>4 DEF DraftOf
    <2> QED
      BY <1>2, <1>5, <1>10, <2>1
  <1>12. /\ r.highest = 0 /\ r.last = ZeroDigest /\ r.finalized = FALSE /\ DOMAIN r.answers = {}
    BY NoAnswersYet DEF StateIn
  <1>13. StateOK(r)
    <2>1. AnswersOK(r)
      BY <1>10, <1>12 DEF AnswersOK
    <2>2. r.finalized = FinalChain(r.last)
      BY <1>12 DEF FinalChain
    <2> QED
      BY <1>4, <1>12, <2>1, <2>2, Zenon DEF StateOK
  <1>14. Prefix(ZeroDigest, ZeroDigest)
    BY PrefixZero
  <1> QED
    BY <1>1, <1>2, <1>3, <1>5, <1>8, <1>9, <1>11, <1>12, <1>13, <1>14, Zenon DEF StoreOK, JournalOK

\* The first state is in order.
LEMMA InitKeeps ==
  ASSUME Init
  PROVE  PipelineIInv
  <1>1. /\ exam = NoExam /\ store = [k \in Keys |-> EmptyStore] /\ page = FreshPage
        /\ bridge = <<>> /\ agentQueue = <<>> /\ outbox = EmptyImage
        /\ ingress = <<>> /\ requests = <<>> /\ inflight = {}
        /\ toServer = <<>> /\ toClient = <<>>
        /\ context = NoExam /\ journal = <<>> /\ journalOpen = TRUE
        /\ typed = [k \in Keys |-> [q \in Questions |-> NoAnswer]]
    BY DEF Init
  <1>2. DOMAIN journal = {}
    BY <1>1, NoAnswersYet
  <1>3. ASSUME NEW k \in Keys
        PROVE  /\ store[k] \in Store /\ StoreOK(store[k], k, typed[k])
               /\ JournalOK(store[k], StateIn(journal, k))
    <2>1. store[k] = EmptyStore /\ typed[k] = [q \in Questions |-> NoAnswer]
      BY <1>1
    <2>2. PICK t : t = [q \in Questions |-> NoAnswer]
      OBVIOUS
    <2>3. EmptyStore \in Store /\ StoreOK(EmptyStore, k, t) /\ JournalOK(EmptyStore, StateIn(<<>>, k))
      BY <2>2, FreshSession
    <2> QED
      BY <1>1, <2>1, <2>2, <2>3, Zenon
  <1>4. page \in Page /\ ~page.conflict
    BY <1>1 DEF FreshPage, Page
  <1>5. /\ outbox \in Image /\ outbox.events = {} /\ DOMAIN outbox.watermarks = {}
    <2>1. <<>> \in Marks
      <3>1. <<>> = [k \in {} |-> <<>>[k]]
        BY NoAnswersYet
      <3>2. <<>> \in [{} -> Watermark]
        BY <3>1
      <3> QED
        BY <3>2 DEF Marks
    <2> QED
      BY <1>1, <2>1, NoAnswersYet DEF EmptyImage, Image
  <1>6. PipelineTypeOK
    <2>1. /\ <<>> \in Seq(PageMessage) /\ <<>> \in Seq(ServerMessage) /\ <<>> \in Seq(Event)
          /\ <<>> \in Seq(RequestMessage)
      BY ElemsEmpty
    <2>2. store \in [Keys -> Store]
      BY <1>1, <1>3
    <2>3. typed \in [Keys -> [Questions -> Answers \cup {NoAnswer}]]
      BY <1>1
    <2> QED
      BY <1>1, <1>2, <1>4, <1>5, <2>1, <2>2, <2>3 DEF PipelineTypeOK
  <1>7. StoresOK /\ JournalsOK
    BY <1>2, <1>3 DEF StoresOK, JournalsOK
  <1>8. EventsOK
    <2>1. EventsOnChain(Chains, Elems(<<>>)) /\ AllOnChain(Chains, Elems(<<>>))
      BY ElemsEmpty, NothingHolds
    <2>2. OutboxOK(Chains, outbox)
      BY <1>5, NothingHolds DEF OutboxOK
    <2> QED
      BY <1>1, <2>1, <2>2, Zenon DEF EventsOK, EventsHold
  <1>9. MessagesOK
    <2>1. /\ RepliesOK(Cursors, Lasts, Elems(<<>>)) /\ InOrder(<<>>)
          /\ AllBefore(Elems(<<>>), Elems(<<>>)) /\ AcksGone(outbox, Elems(<<>>))
      BY ElemsEmpty, NothingHolds
    <2> QED
      BY <1>1, <2>1, Zenon DEF MessagesOK, MessagesHold
  <1> QED
    BY <1>4, <1>6, <1>7, <1>8, <1>9 DEF PipelineIInv, NoManualReview

\* Every step of the page, the service, the server, the users and the faults keeps it.
LEMMA StepKeeps ==
  ASSUME PipelineIInv, [Next]_vars
  PROVE  PipelineIInv'
  <1>1. CASE PageNext
    BY <1>1, PageTimersKeep, NothingKeeps, PageAckKeeps, PageStateKeeps, PageLoadsKeep DEF PageNext
  <1>2. CASE ServiceNext
    <2>1. CASE \E e \in outbox.events : SendEvent(e)
      BY <2>1, SendEventKeeps
    <2>2. CASE (\E e \in inflight : InflightTimeout(e)) \/ \E e \in delayed : DelayPasses(e)
      BY <2>2, TimersKeep
    <2>3. CASE ServiceAck
      <3>1. HandleAck(TRUE) /\ TRUE \in BOOLEAN
        BY <2>3 DEF ServiceAck
      <3> QED
        BY <3>1, HandleAckKeeps
    <2>4. CASE \E type \in {"state", "start", "stop"} : ServiceForward(type)
      BY <2>4, ForwardKeeps
    <2> QED
      BY <1>2, <2>1, <2>2, <2>3, <2>4, ServiceEventKeeps, ServiceRequestKeeps, ConnectKeeps,
         SendRequestKeeps, SessionEndsKeeps, Zenon DEF ServiceNext
  <1>3. CASE ServerNext
    BY <1>3, ServerEventKeeps, ServerRequestKeeps DEF ServerNext
  <1>4. CASE Users
    BY <1>4, TypeKeeps, PageTimersKeep, OperatorKeeps DEF Users
  <1>5. CASE Faults
    <2>1. CASE ServiceAckUnwritten
      <3>1. HandleAck(FALSE) /\ FALSE \in BOOLEAN
        BY <2>1 DEF ServiceAckUnwritten
      <3> QED
        BY <3>1, HandleAckKeeps
    <2> QED
      BY <1>5, <2>1, ServiceEventKeeps, SessionEndsKeeps, ServerEventKeeps, OperatorKeeps, Zenon
        DEF Faults
  <1>6. CASE UNCHANGED vars
    BY <1>6, NothingKeeps
  <1> QED
    BY <1>1, <1>2, <1>3, <1>4, <1>5, <1>6, Zenon DEF Next

\* Whatever is lost, late or repeated, the page, the outbox, the journal and everything between
\* them hold beginnings of one chain per session, in order.
THEOREM PipelineInvariant == Spec => []PipelineIInv
  <1>1. Init => PipelineIInv
    BY InitKeeps
  <1>2. PipelineIInv /\ [Next]_vars => PipelineIInv'
    BY StepKeeps
  <1> QED
    BY <1>1, <1>2, PTL DEF Spec

-----------------------------------------------------------------------------
(* What it is for. *)

\* The journal is at the cursor, or it has the pending event.
LEMMA JournalPosition ==
  ASSUME PipelineIInv, NEW k \in Keys, NEW s, s = store[k], NEW d, d = StateIn(journal, k).last
  PROVE  /\ s.pending = <<>> => d = Chain(s)
         /\ s.pending # <<>> => \/ d = Chain(s)
                                \/ d = s.pending[1].previous /\ d = s.previous
         /\ \A q \in Questions : JournalAnswer(k, q) = AnswerIn(d, q)
         /\ s \in Store /\ CursorOK(s, k) /\ FinalOK(s) /\ TypedOK(s, typed[k])
  <1>1. PipelineTypeOK /\ StoresOK /\ JournalsOK
    BY InvariantParts
  <1>2. SessionHolds(k) /\ IndexOK(journal)
    BY <1>1, SessionsHold
  <1>3. /\ s \in Store /\ CursorOK(s, k) /\ StoreOK(s, k, typed[k]) /\ d \in Digest
        /\ JournalOK(s, StateIn(journal, k))
    BY <1>2, Zenon DEF SessionHolds
  <1>4. FinalOK(s) /\ TypedOK(s, typed[k])
    BY <1>3, Zenon DEF StoreOK
  <1>5. Prefix(s.previous, d) /\ Prefix(d, Chain(s)) /\ AnswersOK(StateIn(journal, k))
    BY <1>3, Zenon DEF JournalOK, StateOK
  <1>6. /\ Chain(s) \in Digest /\ s.previous \in Digest
        /\ s.pending = <<>> => Chain(s) = s.previous
        /\ s.pending # <<>> => /\ s.pending[1] \in Event
                               /\ Chain(s) = hash_answer_event(s.pending[1])
    BY <1>3, ChainFacts
  <1>7. ASSUME s.pending = <<>> PROVE d = Chain(s)
    <2>1. Chain(s) = s.previous
      BY <1>6, <1>7
    <2>2. Len(Chain(s)) <= Len(d)
      BY <1>3, <1>5, <1>6, <2>1 DEF Prefix
    <2> QED
      BY <1>3, <1>5, <1>6, <2>2, PrefixEqual
  <1>8. ASSUME s.pending # <<>>
        PROVE  d = Chain(s) \/ (d = s.pending[1].previous /\ d = s.previous)
    <2>1. s.pending[1].previous = s.previous
      BY <1>3, <1>8 DEF CursorOK
    <2>2. PICK e \in Event : e = s.pending[1]
      BY <1>6, <1>8
    <2>3. Prefix(e.previous, d) /\ Prefix(d, hash_answer_event(e)) /\ Chain(s) = hash_answer_event(e)
      BY <1>5, <1>6, <1>8, <2>1, <2>2, Zenon
    <2>4. d = e.previous \/ d = hash_answer_event(e)
      BY <1>3, <2>3, BetweenPrefixes
    <2> QED
      BY <2>1, <2>2, <2>3, <2>4, Zenon
  <1>9. ASSUME NEW q \in Questions PROVE JournalAnswer(k, q) = AnswerIn(d, q)
    <2>1. PICK r : r = StateIn(journal, k)
      OBVIOUS
    <2>2. (IF q \in DOMAIN r.answers THEN r.answers[q].answer ELSE NoAnswer) = AnswerIn(r.last, q)
      BY <1>5, <2>1, Zenon DEF AnswersOK
    <2>3. CASE k \in DOMAIN journal
      <3>1. r.answers = journal[k].answers
        BY <1>2, <2>1, <2>3, StateInFacts
      <3> QED
        BY <2>1, <2>2, <2>3, <3>1, Zenon DEF JournalAnswer
    <2>4. CASE k \notin DOMAIN journal
      <3>1. q \notin DOMAIN r.answers
        BY <1>2, <2>1, <2>4, StateInFacts, NoAnswersYet
      <3> QED
        BY <2>1, <2>2, <2>4, <3>1, Zenon DEF JournalAnswer
    <2> QED
      BY <2>3, <2>4
  <1> QED
    BY <1>3, <1>4, <1>7, <1>8, <1>9

\* The last answer typed for every question is drafted, pending or in the journal.
THEOREM LatestAnswerAlwaysKept == Spec => []LatestAnswerKept
  <1>1. ASSUME PipelineIInv PROVE LatestAnswerKept
    <2> SUFFICES ASSUME NEW k \in Keys, NEW q \in Questions
                 PROVE  LET s == store[k]
                            pended == {i \in 1..Len(s.pending) : s.pending[i].question = q}
                        IN IF DraftOf(s, q) # {}
                           THEN \A i \in DraftOf(s, q) : s.drafts[i].answer = typed[k][q]
                           ELSE IF pended # {}
                           THEN \A i \in pended : s.pending[i].answer = typed[k][q]
                           ELSE JournalAnswer(k, q) = typed[k][q]
      BY Zenon DEF LatestAnswerKept
    <2> DEFINE s == store[k]
               P == {i \in 1..Len(s.pending) : s.pending[i].question = q}
    <2> HIDE DEF s, P
    <2>0. s = store[k] /\ P = {i \in 1..Len(s.pending) : s.pending[i].question = q}
      BY DEF s, P
    <2>1. PICK d : d = StateIn(journal, k).last
      OBVIOUS
    <2>2. /\ s.pending = <<>> => d = Chain(s)
          /\ s.pending # <<>> => d = Chain(s) \/ d = s.pending[1].previous
          /\ JournalAnswer(k, q) = AnswerIn(d, q)
          /\ s \in Store /\ CursorOK(s, k) /\ TypedOK(s, typed[k])
      BY <1>1, <2>0, <2>1, JournalPosition
    <2>3. /\ \A i \in DraftOf(s, q) : s.drafts[i].answer = typed[k][q]
          /\ DraftOf(s, q) = {} => AnswerIn(Chain(s), q) = typed[k][q]
      BY <2>2, Zenon DEF TypedOK
    <2>4. ASSUME DraftOf(s, q) = {}, P # {}
          PROVE  \A i \in P : s.pending[i].answer = typed[k][q]
      <3>1. PICK i \in 1..Len(s.pending) : s.pending[i].question = q
        BY <2>0, <2>4
      <3>2. s.pending # <<>>
        BY <3>1, EmptySeq
      <3>3. /\ Len(s.pending) = 1 /\ s.pending[1] \in Event
            /\ Chain(s) = hash_answer_event(s.pending[1])
        BY <2>2, <3>2, ChainFacts
      <3>4. \A j \in P : j = 1
        BY <2>0, <3>3
      <3>5. s.pending[1].question = q
        BY <3>1, <3>3
      <3>6. AnswerIn(Chain(s), q) = s.pending[1].answer
        BY <3>3, <3>5, AnswerOfEvent
      <3> QED
        BY <2>3, <2>4, <3>4, <3>6
    <2>5. ASSUME DraftOf(s, q) = {}, P = {}
          PROVE  JournalAnswer(k, q) = typed[k][q]
      <3>1. CASE d = Chain(s)
        BY <2>2, <2>3, <2>5, <3>1, Zenon
      <3>2. CASE d # Chain(s)
        <4>1. s.pending # <<>> /\ d = s.pending[1].previous
          BY <2>2, <3>2
        <4>2. /\ Len(s.pending) = 1 /\ s.pending[1] \in Event
              /\ Chain(s) = hash_answer_event(s.pending[1])
          BY <2>2, <4>1, ChainFacts
        <4>3. s.pending[1].question # q
          BY <2>0, <2>5, <4>2
        <4>4. AnswerIn(Chain(s), q) = AnswerIn(d, q)
          BY <4>1, <4>2, <4>3, AnswerOfEvent
        <4> QED
          BY <2>2, <2>3, <2>5, <4>4, Zenon
      <3> QED
        BY <3>1, <3>2
    <2>6. IF DraftOf(s, q) # {}
          THEN \A i \in DraftOf(s, q) : s.drafts[i].answer = typed[k][q]
          ELSE IF P # {} THEN \A i \in P : s.pending[i].answer = typed[k][q]
          ELSE JournalAnswer(k, q) = typed[k][q]
      BY <2>3, <2>4, <2>5, Zenon
    <2> QED
      BY <2>6, Zenon DEF s, P
  <1> QED
    BY <1>1, PipelineInvariant, PTL

\* A finalized session of the journal holds every answer, and the page has no draft left.
THEOREM FinalizedAlwaysComplete == Spec => []FinalizedIsComplete
  <1>1. ASSUME PipelineIInv PROVE FinalizedIsComplete
    <2> SUFFICES ASSUME NEW k \in DOMAIN journal, journal[k].finalized
                 PROVE  /\ \A q \in Questions : JournalAnswer(k, q) = typed[k][q]
                        /\ store[k].drafts = <<>>
      BY Zenon DEF FinalizedIsComplete
    <2>1. PipelineTypeOK /\ StoresOK /\ JournalsOK
      BY <1>1, InvariantParts
    <2>2. k \in Keys
      BY <2>1 DEF PipelineTypeOK
    <2>3. SessionHolds(k) /\ IndexOK(journal)
      BY <2>1, <2>2, SessionsHold
    <2>4. PICK r : r = StateIn(journal, k)
      OBVIOUS
    <2>5. PICK s : s = store[k]
      OBVIOUS
    <2>6. /\ s.pending = <<>> => r.last = Chain(s)
          /\ s.pending # <<>> => r.last = Chain(s) \/ r.last = s.previous
          /\ \A q \in Questions : JournalAnswer(k, q) = AnswerIn(r.last, q)
          /\ s \in Store /\ CursorOK(s, k) /\ FinalOK(s) /\ TypedOK(s, typed[k])
      BY <1>1, <2>2, <2>4, <2>5, JournalPosition
    <2>7. FinalChain(r.last)
      <3>1. StateOK(r)
        BY <2>3, <2>4, Zenon DEF SessionHolds, JournalOK
      <3>2. r.finalized = journal[k].finalized
        BY <2>3, <2>4, StateInFacts
      <3> QED
        BY <3>1, <3>2, Zenon DEF StateOK
    <2>8. r.last = Chain(s)
      <3>1. ASSUME r.last = s.previous PROVE s.pending = <<>>
        BY <2>6, <2>7, <3>1, Zenon DEF FinalOK
      <3> QED
        BY <2>6, <3>1
    <2>9. s.drafts = <<>>
      BY <2>6, <2>7, <2>8, Zenon DEF FinalOK
    <2>10. ASSUME NEW q \in Questions PROVE JournalAnswer(k, q) = typed[k][q]
      <3>1. DraftOf(s, q) = {}
        BY <2>9, EmptySeq DEF DraftOf
      <3>2. AnswerIn(Chain(s), q) = typed[k][q]
        BY <2>6, <3>1, Zenon DEF TypedOK
      <3> QED
        BY <2>6, <2>8, <3>2, Zenon
    <2> QED
      BY <2>5, <2>9, <2>10
  <1> QED
    BY <1>1, PipelineInvariant, PTL

\* The page hears of a durable acknowledgement when the journal has the event and the outbox,
\* which has verified it, no longer holds it.
THEOREM AckAlwaysAfterRetirement == Spec => []AckAfterRetirement
  <1>1. ASSUME PipelineIInv PROVE AckAfterRetirement
    <2> SUFFICES ASSUME NEW i \in 1..Len(agentQueue), NEW m, m = agentQueue[i], m.type = "ack",
                        m.status \in {"accepted", "duplicate"}
                 PROVE  /\ m.sequence \in DOMAIN journal[m.key].event_hashes
                        /\ journal[m.key].event_hashes[m.sequence] = m.hash
                        /\ ~HasEvent(outbox, m.key, m.sequence)
      BY Zenon DEF AckAfterRetirement
    <2>1. /\ PipelineTypeOK /\ StoresOK /\ JournalsOK
          /\ EventsHold(Chains, bridge, toServer, ingress, outbox)
          /\ MessagesHold(Cursors, Lasts, agentQueue, toClient, outbox)
      BY <1>1, InvariantParts
    <2>2. IsDurable(m) /\ m \in Elems(agentQueue)
      BY DEF IsDurable, Durable, Elems
    <2>3. m \in ServerMessage
      BY <2>1, <2>2, QueuesTyped
    <2>4. m.key \in Keys /\ m.hash \in Digest /\ m.sequence \in Nat
      BY <2>2, <2>3, ReplyFields
    <2>5. ReplyOK(Cursors, Lasts, m) /\ GoneOK(outbox, m)
      BY <2>1, <2>2, Zenon DEF MessagesHold, RepliesOK, AcksGone
    <2>6. m.sequence # 0 /\ m.sequence = Len(m.hash) /\ Prefix(m.hash, Lasts[m.key])
      BY <2>2, <2>5, Zenon DEF ReplyOK
    <2>7. PICK d : d = Lasts[m.key]
      OBVIOUS
    <2>8. SessionHolds(m.key) /\ IndexOK(journal)
      BY <2>1, <2>4, SessionsHold
    <2>9. d = StateIn(journal, m.key).last /\ d \in Digest
      BY <2>7, <2>8, Zenon DEF SessionHolds
    <2>10. m.sequence \in 1..Len(d) /\ Len(d) # 0
      BY <2>4, <2>6, <2>7, <2>9 DEF Prefix, Digest
    <2>11. m.key \in DOMAIN journal
      <3>1. PICK y : y = m.key
        OBVIOUS
      <3>2. y \notin DOMAIN journal => StateIn(journal, y).last = ZeroDigest
        BY <2>8, StateInFacts
      <3> QED
        BY <2>9, <2>10, <3>1, <3>2, PrefixZero
    <2>12. d = journal[m.key].last
      <3>1. PICK y : y = m.key
        OBVIOUS
      <3>2. y \in DOMAIN journal => StateIn(journal, y).last = journal[y].last
        BY <2>8, StateInFacts
      <3> QED
        BY <2>9, <2>11, <3>1, <3>2
    <2>13. PICK j : j = journal[m.key]
      OBVIOUS
    <2>14. HashesOK(j)
      BY <2>1, <2>11, <2>13, Zenon DEF JournalsOK
    <2>15. /\ DOMAIN j.event_hashes = 1..Len(d) /\ j.event_hashes[m.sequence] \in Digest
           /\ Len(j.event_hashes[m.sequence]) = m.sequence /\ Prefix(j.event_hashes[m.sequence], d)
      BY <2>10, <2>12, <2>13, <2>14, Zenon DEF HashesOK
    <2>16. j.event_hashes[m.sequence] = m.hash
      BY <2>4, <2>6, <2>7, <2>9, <2>15, PrefixSame
    <2>17. ~HasEvent(outbox, m.key, m.sequence)
      <3>1. /\ m.key \in DOMAIN outbox.watermarks
            /\ m.sequence <= outbox.watermarks[m.key].acknowledged_sequence
        BY <2>2, <2>5, Zenon DEF GoneOK
      <3>2. MarkOK(Chains, outbox, m.key)
        BY <2>1, <3>1, Zenon DEF EventsHold, OutboxOK
      <3>3. outbox \in Image
        BY <2>1 DEF PipelineTypeOK
      <3>4. ASSUME NEW e \in EventsOf(outbox, m.key), e.sequence = m.sequence PROVE FALSE
        <4>1. outbox.watermarks[m.key].acknowledged_sequence < e.sequence
          BY <3>2, MarkFacts
        <4>2. outbox.watermarks[m.key].acknowledged_sequence \in Nat
          BY <3>1, <3>3, ImageFields
        <4> QED
          BY <2>4, <3>1, <3>4, <4>1, <4>2
      <3> QED
        BY <3>4 DEF HasEvent
    <2> QED
      BY <2>10, <2>13, <2>15, <2>16, <2>17
  <1> QED
    BY <1>1, PipelineInvariant, PTL

\* The page never ends in the state that needs manual review.
THEOREM NeverManualReview == Spec => []NoManualReview
  <1>1. PipelineIInv => NoManualReview
    BY Zenon DEF PipelineIInv
  <1> QED
    BY <1>1, PipelineInvariant, PTL

=============================================================================
