------------------------- MODULE AnswerOutboxProofs -------------------------
(***************************************************************************)
(* Proofs about AnswerOutbox, for any sets of sessions, candidates and     *)
(* events, any limits, and any file and journal to start from that a       *)
(* client and its server may have (AnswerOutboxAssumption).                *)
(*                                                                         *)
(* open() computes its checks with choices from sets of events; the proof  *)
(* states them as a relation between a watermark and its waiting events    *)
(* (Session), shows that enqueue(), a rebase and acknowledge() keep it in  *)
(* the session they change, and that an upgraded file has it in every      *)
(* session.  With the server the invariant is that its hashes of a session *)
(* are one chain and that the last event of a session with none waiting is *)
(* in it: then a retired event, and every earlier one, is in the journal.  *)
(***************************************************************************)
EXTENDS AnswerOutbox, FiniteSetTheorems, SequenceTheorems, WellFoundedInduction, TLAPS

-----------------------------------------------------------------------------
(* Hashes. *)

\* hash_answer_event(): the chain of an event is its predecessor's and one
\* more body, which says everything of the event but its predecessor.
LEMMA HashFacts ==
  ASSUME NEW e \in Event
  PROVE  /\ e.previous \in Seq(Body)
         /\ hash_answer_event(e) \in Seq(Body)
         /\ Len(hash_answer_event(e)) = Len(e.previous) + 1
         /\ \A i \in 1..Len(e.previous) : hash_answer_event(e)[i] = e.previous[i]
         /\ hash_answer_event(e)[Len(e.previous) + 1] = Content(e)
         /\ hash_answer_event(e) # ZeroDigest
         /\ Content(e) = [key |-> e.key, candidate |-> e.candidate, sequence |-> e.sequence,
                          kind |-> e.kind, question |-> e.question, answer |-> e.answer]
         /\ Content(e) \in Body
  <1> DEFINE b == [key |-> e.key, candidate |-> e.candidate, sequence |-> e.sequence,
                   kind |-> e.kind, question |-> e.question, answer |-> e.answer]
  <1>1. b \in Body
    BY DEF Event, Body
  <1>2. e.previous \in Seq(Body)
    BY DEF Event, Digest
  <1>3. hash_answer_event(e) = Append(e.previous, b)
    BY DEF hash_answer_event
  <1> HIDE DEF b
  <1>4. /\ Append(e.previous, b) \in Seq(Body)
        /\ Len(Append(e.previous, b)) = Len(e.previous) + 1
        /\ \A i \in 1..Len(e.previous) : Append(e.previous, b)[i] = e.previous[i]
        /\ Append(e.previous, b)[Len(e.previous) + 1] = b
    BY <1>1, <1>2, AppendProperties
  <1>5. Content(e) = b
    BY <1>3, <1>4 DEF Content
  <1>6. hash_answer_event(e) # ZeroDigest
    BY <1>2, <1>3, <1>4, EmptySeq DEF ZeroDigest
  <1> QED
    BY <1>1, <1>2, <1>3, <1>4, <1>5, <1>6 DEF b

-----------------------------------------------------------------------------
(* One session: its watermark and its waiting events. *)

\* No two events of P have one sequence number.
Distinct(P) == \A d, e \in P : d.sequence = e.sequence => d = e

\* What open() checks of each waiting event by itself.
EventsOK(w, P) ==
    \A x \in P : /\ x.sequence \in (w.acknowledged_sequence + 1)..w.highest
                 /\ validate_answer_event(x)
                 /\ x.candidate = w.candidate
                 /\ x.kind = "finalize" => x.sequence = w.highest

\* The first event follows the boundary, every other one the event before it.
ChainOK(w, P) ==
    /\ \A x \in P : x.sequence = w.acknowledged_sequence + 1 =>
                       x.previous = w.acknowledged_hash
    /\ \A x, y \in P : y.sequence = x.sequence + 1 => y.previous = hash_answer_event(x)

\* The watermark is that of the last event.
EndOK(w, P) ==
    \A x \in P : x.sequence = w.highest =>
                    w.last = hash_answer_event(x) /\ (w.finalized <=> x.kind = "finalize")

\* The checks of open() as a relation between the events.
Session(w, P) ==
    /\ valid_watermark(w)
    /\ P = {} => w.acknowledged_sequence = w.highest /\ w.acknowledged_hash = w.last
    /\ \A n \in (w.acknowledged_sequence + 1)..w.highest : \E x \in P : x.sequence = n
    /\ Distinct(P) /\ EventsOK(w, P) /\ ChainOK(w, P) /\ EndOK(w, P)

\* The event with a sequence number.
LEMMA WithFacts ==
  ASSUME NEW P, Distinct(P), NEW x \in P
  PROVE  EventWith(P, x.sequence) = x
  <1>1. /\ EventWith(P, x.sequence) \in P
        /\ EventWith(P, x.sequence).sequence = x.sequence
    BY Zenon DEF EventWith
  <1> QED
    BY <1>1 DEF Distinct

\* The fields of a watermark.
LEMMA MarkFields ==
  ASSUME NEW w \in Watermark
  PROVE  /\ w.highest \in Nat /\ w.acknowledged_sequence \in Nat
         /\ w.last \in Digest /\ w.acknowledged_hash \in Digest
         /\ w.candidate \in Candidates /\ w.finalized \in BOOLEAN
  BY DEF Watermark

\* What open() computes is what the relation says.
LEMMA SessionForm ==
  ASSUME NEW w \in Watermark, NEW P, P \subseteq Event
  PROVE  ConsistentSession(w, P) <=> Session(w, P)
  <1>1. /\ w.highest \in Nat /\ w.acknowledged_sequence \in Nat
        /\ \A x \in P : x.sequence \in Nat
    BY MarkFields DEF Event
  <1>2. CASE P = {}
    <2>1. Distinct(P) /\ EventsOK(w, P) /\ ChainOK(w, P) /\ EndOK(w, P)
      BY <1>2 DEF Distinct, EventsOK, ChainOK, EndOK
    <2>2. w.acknowledged_sequence = w.highest =>
            \A n \in (w.acknowledged_sequence + 1)..w.highest : \E x \in P : x.sequence = n
      BY <1>1
    <2> QED
      BY <1>2, <2>1, <2>2 DEF ConsistentSession, Session
  <1>3. CASE P # {}
    <2>1. ASSUME ConsistentSession(w, P) PROVE Session(w, P)
      <3>1. /\ valid_watermark(w)
            /\ {e.sequence : e \in P} = (w.acknowledged_sequence + 1)..w.highest
            /\ Distinct(P)
            /\ \A e \in P :
                  /\ validate_answer_event(e)
                  /\ e.candidate = w.candidate
                  /\ e.previous =
                       IF e.sequence = w.acknowledged_sequence + 1
                       THEN w.acknowledged_hash
                       ELSE hash_answer_event(EventWith(P, e.sequence - 1))
                  /\ e.kind = "finalize" => e.sequence = w.highest
            /\ w.last = hash_answer_event(LastOf(P))
            /\ w.finalized <=> LastOf(P).kind = "finalize"
        BY <1>3, <2>1 DEF ConsistentSession, Distinct
      <3>2. \A x \in P : x.sequence \in (w.acknowledged_sequence + 1)..w.highest
        BY <3>1
      <3>3. \A n \in (w.acknowledged_sequence + 1)..w.highest : \E x \in P : x.sequence = n
        BY <3>1
      <3>4. EventsOK(w, P)
        BY <3>1, <3>2 DEF EventsOK
      <3>5. ASSUME NEW x \in P, NEW y \in P, y.sequence = x.sequence + 1
            PROVE  y.previous = hash_answer_event(x)
        <4>1. y.sequence - 1 = x.sequence /\ y.sequence # w.acknowledged_sequence + 1
          BY <1>1, <3>2, <3>5
        <4>2. EventWith(P, x.sequence) = x
          BY <3>1, WithFacts
        <4> QED
          BY <3>1, <4>1, <4>2
      <3>6. ChainOK(w, P)
        BY <3>1, <3>5 DEF ChainOK
      <3>7. ASSUME NEW x \in P, x.sequence = w.highest
            PROVE  x = LastOf(P)
        <4>1. \A d \in P : d.sequence <= x.sequence
          BY <1>1, <3>2, <3>7
        <4>2. LastOf(P) \in P /\ \A d \in P : d.sequence <= LastOf(P).sequence
          BY <4>1 DEF LastOf
        <4>3. LastOf(P).sequence = x.sequence
          BY <1>1, <4>1, <4>2
        <4> QED
          BY <3>1, <4>2, <4>3 DEF Distinct
      <3>8. EndOK(w, P)
        BY <3>1, <3>7 DEF EndOK
      <3> QED
        BY <1>3, <3>1, <3>3, <3>4, <3>6, <3>8 DEF Session
    <2>2. ASSUME Session(w, P) PROVE ConsistentSession(w, P)
      <3>1. /\ valid_watermark(w)
            /\ \A n \in (w.acknowledged_sequence + 1)..w.highest : \E x \in P : x.sequence = n
            /\ Distinct(P) /\ EventsOK(w, P) /\ ChainOK(w, P) /\ EndOK(w, P)
        BY <2>2 DEF Session
      <3>2. {e.sequence : e \in P} = (w.acknowledged_sequence + 1)..w.highest
        BY <3>1 DEF EventsOK
      <3>3. PICK z \in P : z.sequence = w.highest
        BY <1>1, <1>3, <3>1 DEF EventsOK
      <3>4. z = LastOf(P)
        <4>1. \A d \in P : d.sequence <= z.sequence
          BY <1>1, <3>1, <3>3 DEF EventsOK
        <4>2. LastOf(P) \in P /\ \A d \in P : d.sequence <= LastOf(P).sequence
          BY <4>1 DEF LastOf
        <4>3. LastOf(P).sequence = z.sequence
          BY <1>1, <4>1, <4>2
        <4> QED
          BY <3>1, <4>2, <4>3 DEF Distinct
      <3>5. w.last = hash_answer_event(LastOf(P)) /\ (w.finalized <=> LastOf(P).kind = "finalize")
        BY <3>1, <3>3, <3>4 DEF EndOK
      <3>6. ASSUME NEW e \in P
            PROVE  e.previous = IF e.sequence = w.acknowledged_sequence + 1
                                THEN w.acknowledged_hash
                                ELSE hash_answer_event(EventWith(P, e.sequence - 1))
        <4>1. CASE e.sequence = w.acknowledged_sequence + 1
          BY <3>1, <4>1 DEF ChainOK
        <4>2. CASE e.sequence # w.acknowledged_sequence + 1
          <5>1. e.sequence - 1 \in (w.acknowledged_sequence + 1)..w.highest
            BY <1>1, <3>1, <4>2 DEF EventsOK
          <5>2. PICK x \in P : x.sequence = e.sequence - 1
            BY <3>1, <5>1
          <5>3. EventWith(P, x.sequence) = x
            BY <3>1, WithFacts
          <5>4. e.sequence = x.sequence + 1
            BY <1>1, <5>2
          <5>5. e.previous = hash_answer_event(x)
            BY <3>1, <5>4 DEF ChainOK
          <5> QED
            BY <4>2, <5>2, <5>3, <5>5
        <4> QED
          BY <4>1, <4>2
      <3>7. \A d, e \in P : d.sequence = e.sequence => d = e
        BY <3>1 DEF Distinct
      <3>8. \A e \in P : /\ validate_answer_event(e)
                         /\ e.candidate = w.candidate
                         /\ e.kind = "finalize" => e.sequence = w.highest
        BY <3>1 DEF EventsOK
      <3> QED
        BY <1>3, <3>1, <3>2, <3>5, <3>6, <3>7, <3>8 DEF ConsistentSession
    <2> QED
      BY <2>1, <2>2
  <1> QED
    BY <1>2, <1>3

-----------------------------------------------------------------------------
(* What enqueue() and acknowledge() do to a session. *)

\* The watermark enqueue() gives the session of e, whose boundary is <<a, h>>.
NewMark(e, a, h) ==
    [candidate |-> e.candidate, highest |-> e.sequence, last |-> hash_answer_event(e),
     acknowledged_sequence |-> a, acknowledged_hash |-> h, finalized |-> e.kind = "finalize"]

\* It is a watermark.
LEMMA NewMarkFacts ==
  ASSUME NEW e \in Event, NEW a \in Nat, NEW h \in Digest
  PROVE  /\ NewMark(e, a, h) \in Watermark
         /\ NewMark(e, a, h).candidate = e.candidate
         /\ NewMark(e, a, h).highest = e.sequence
         /\ NewMark(e, a, h).last = hash_answer_event(e)
         /\ NewMark(e, a, h).acknowledged_sequence = a
         /\ NewMark(e, a, h).acknowledged_hash = h
         /\ NewMark(e, a, h).finalized <=> e.kind = "finalize"
  <1>1. hash_answer_event(e) \in Digest
    BY HashFacts DEF Digest
  <1>2. e.candidate \in Candidates /\ e.sequence \in Nat
    BY DEF Event
  <1> QED
    BY <1>1, <1>2 DEF NewMark, Watermark

\* enqueue() of the first event of a session.
LEMMA FirstKeeps ==
  ASSUME NEW e \in Event, validate_answer_event(e), e.sequence = 1, e.previous = ZeroDigest
  PROVE  Session(NewMark(e, 0, ZeroDigest), {e})
  <1>1. ZeroDigest \in Digest
    BY EmptySeq DEF ZeroDigest, Digest
  <1>2. PICK w \in Watermark :
          /\ w = NewMark(e, 0, ZeroDigest)
          /\ w.candidate = e.candidate
          /\ w.highest = e.sequence
          /\ w.last = hash_answer_event(e)
          /\ w.acknowledged_sequence = 0
          /\ w.acknowledged_hash = ZeroDigest
          /\ w.finalized <=> e.kind = "finalize"
    BY <1>1, NewMarkFacts
  <1>3. valid_watermark(w)
    BY <1>2, HashFacts DEF valid_watermark
  <1>4. Distinct({e}) /\ EventsOK(w, {e}) /\ ChainOK(w, {e}) /\ EndOK(w, {e})
    BY <1>2 DEF Distinct, EventsOK, ChainOK, EndOK
  <1>5. \A n \in (w.acknowledged_sequence + 1)..w.highest : \E x \in {e} : x.sequence = n
    BY <1>2
  <1>6. Session(w, {e})
    BY <1>3, <1>4, <1>5 DEF Session
  <1> QED
    BY <1>2, <1>6

\* enqueue() of an event that follows the last one of its session.
LEMMA AddKeeps ==
  ASSUME NEW w \in Watermark, NEW P, P \subseteq Event, Session(w, P),
         NEW e \in Event, validate_answer_event(e), e.candidate = w.candidate,
         ~w.finalized, e.sequence = w.highest + 1, e.previous = w.last
  PROVE  Session(NewMark(e, w.acknowledged_sequence, w.acknowledged_hash), P \cup {e})
  <1>1. /\ w.highest \in Nat /\ w.acknowledged_sequence \in Nat
        /\ w.acknowledged_hash \in Digest
        /\ e.sequence \in Nat /\ \A x \in P : x.sequence \in Nat
    BY MarkFields DEF Event
  <1>2. PICK v \in Watermark :
          /\ v = NewMark(e, w.acknowledged_sequence, w.acknowledged_hash)
          /\ v.candidate = e.candidate
          /\ v.highest = e.sequence
          /\ v.last = hash_answer_event(e)
          /\ v.acknowledged_sequence = w.acknowledged_sequence
          /\ v.acknowledged_hash = w.acknowledged_hash
          /\ v.finalized <=> e.kind = "finalize"
    BY <1>1, NewMarkFacts
  <1>3. /\ valid_watermark(w)
        /\ P = {} => w.acknowledged_sequence = w.highest /\ w.acknowledged_hash = w.last
        /\ \A n \in (w.acknowledged_sequence + 1)..w.highest : \E x \in P : x.sequence = n
        /\ Distinct(P) /\ EventsOK(w, P) /\ ChainOK(w, P) /\ EndOK(w, P)
    BY DEF Session
  <1>4. valid_watermark(v)
    BY <1>1, <1>2, <1>3, HashFacts DEF valid_watermark
  <1>5. \A x \in P : /\ x.sequence \in (w.acknowledged_sequence + 1)..w.highest
                     /\ x.sequence < e.sequence
    BY <1>1, <1>3 DEF EventsOK
  <1>6. Distinct(P \cup {e})
    BY <1>1, <1>3, <1>5 DEF Distinct
  <1>7. \A n \in (v.acknowledged_sequence + 1)..v.highest : \E x \in P \cup {e} : x.sequence = n
    <2> TAKE n \in (v.acknowledged_sequence + 1)..v.highest
    <2>1. n = e.sequence \/ n \in (w.acknowledged_sequence + 1)..w.highest
      BY <1>1, <1>2
    <2> QED
      BY <1>3, <2>1
  <1>8. \A x \in P : x.kind # "finalize"
    BY <1>3 DEF EventsOK, EndOK
  <1>9. EventsOK(v, P \cup {e})
    <2>1. \A x \in P : x.sequence \in (v.acknowledged_sequence + 1)..v.highest
      BY <1>1, <1>2, <1>5
    <2>2. e.sequence \in (v.acknowledged_sequence + 1)..v.highest
      BY <1>1, <1>2, <1>3 DEF valid_watermark
    <2>3. \A x \in P : validate_answer_event(x) /\ x.candidate = v.candidate
      BY <1>2, <1>3 DEF EventsOK
    <2> QED
      BY <1>2, <1>8, <2>1, <2>2, <2>3 DEF EventsOK
  <1>10. ChainOK(v, P \cup {e})
    <2>1. ASSUME NEW x \in P, e.sequence = x.sequence + 1
          PROVE  e.previous = hash_answer_event(x)
      <3>1. x.sequence = w.highest
        BY <1>1, <2>1
      <3> QED
        BY <1>3, <3>1 DEF EndOK
    <2>2. \A y \in P \cup {e} : y.sequence # e.sequence + 1
      BY <1>1, <1>5
    <2>3. e.sequence = v.acknowledged_sequence + 1 => e.previous = v.acknowledged_hash
      <3> HAVE e.sequence = v.acknowledged_sequence + 1
      <3>1. P = {}
        BY <1>1, <1>2, <1>5
      <3> QED
        BY <1>2, <1>3, <3>1
    <2>4. \A x, y \in P \cup {e} : y.sequence = x.sequence + 1 => y.previous = hash_answer_event(x)
      BY <1>3, <2>1, <2>2 DEF ChainOK
    <2>5. \A x \in P : x.sequence = v.acknowledged_sequence + 1 => x.previous = v.acknowledged_hash
      BY <1>2, <1>3 DEF ChainOK
    <2> QED
      BY <2>3, <2>4, <2>5 DEF ChainOK
  <1>11. EndOK(v, P \cup {e})
    BY <1>1, <1>2, <1>5 DEF EndOK
  <1>12. Session(v, P \cup {e})
    BY <1>4, <1>6, <1>7, <1>9, <1>10, <1>11 DEF Session
  <1> QED
    BY <1>2, <1>12

\* acknowledge() of a waiting event: it and the earlier ones are retired.
LEMMA RetireKeeps ==
  ASSUME NEW w \in Watermark, NEW P, P \subseteq Event, Session(w, P), NEW x \in P,
         NEW v \in Watermark, v.acknowledged_sequence = x.sequence,
         v.acknowledged_hash = hash_answer_event(x),
         v.candidate = w.candidate, v.highest = w.highest, v.last = w.last,
         v.finalized = w.finalized
  PROVE  Session(v, {y \in P : y.sequence > x.sequence})
  <1>1. /\ w.highest \in Nat /\ w.acknowledged_sequence \in Nat
        /\ \A y \in P : y.sequence \in Nat
    BY MarkFields DEF Event
  <1>2. /\ valid_watermark(w)
        /\ \A n \in (w.acknowledged_sequence + 1)..w.highest : \E y \in P : y.sequence = n
        /\ Distinct(P) /\ EventsOK(w, P) /\ ChainOK(w, P) /\ EndOK(w, P)
    BY DEF Session
  <1>3. PICK Q : Q = {y \in P : y.sequence > x.sequence}
    OBVIOUS
  <1>4. x.sequence \in (w.acknowledged_sequence + 1)..w.highest
    BY <1>2 DEF EventsOK
  <1>5. valid_watermark(v)
    BY <1>1, <1>2, <1>4, HashFacts DEF valid_watermark
  <1>6. \A n \in (v.acknowledged_sequence + 1)..v.highest : \E y \in Q : y.sequence = n
    <2> TAKE n \in (v.acknowledged_sequence + 1)..v.highest
    <2>1. n \in (w.acknowledged_sequence + 1)..w.highest /\ n > x.sequence
      BY <1>1, <1>4
    <2>2. PICK y \in P : y.sequence = n
      BY <1>2, <2>1
    <2> QED
      BY <1>3, <2>1, <2>2
  <1>7. Q = {} => v.acknowledged_sequence = v.highest /\ v.acknowledged_hash = v.last
    <2> HAVE Q = {}
    <2>1. v.acknowledged_sequence = v.highest
      BY <1>1, <1>4, <1>6
    <2>2. v.acknowledged_hash = v.last
      BY <1>2, <2>1 DEF EndOK
    <2> QED
      BY <2>1, <2>2
  <1>8. Distinct(Q)
    BY <1>2, <1>3 DEF Distinct
  <1>9. EventsOK(v, Q)
    <2>1. \A y \in Q : y.sequence \in (v.acknowledged_sequence + 1)..v.highest
      BY <1>1, <1>2, <1>3 DEF EventsOK
    <2> QED
      BY <1>2, <1>3, <2>1 DEF EventsOK
  <1>10. ChainOK(v, Q)
    BY <1>2, <1>3 DEF ChainOK
  <1>11. EndOK(v, Q)
    BY <1>2, <1>3 DEF EndOK
  <1>12. Session(v, Q)
    BY <1>5, <1>6, <1>7, <1>8, <1>9, <1>10, <1>11 DEF Session
  <1> QED
    BY <1>3, <1>12

\* The bodies of the n events of P from number a on.
Links(P, a, n) == [i \in 1..n |-> Content(EventWith(P, a + (i - 1)))]

\* They form a chain.
LEMMA LinksFacts ==
  ASSUME NEW P, NEW a \in Nat, NEW n \in Nat,
         \A i \in 1..n : Content(EventWith(P, a + (i - 1))) \in Body
  PROVE  /\ Links(P, a, n) \in Seq(Body)
         /\ Len(Links(P, a, n)) = n
         /\ \A i \in 1..n : Links(P, a, n)[i] = Content(EventWith(P, a + (i - 1)))
  <1>1. Links(P, a, n) \in [1..n -> Body]
    BY DEF Links
  <1>2. Links(P, a, n) \in Seq(Body)
    BY <1>1, SeqDef
  <1>3. DOMAIN Links(P, a, n) = 1..n
    BY DEF Links
  <1>4. Len(Links(P, a, n)) = n
    BY <1>2, <1>3, LenProperties
  <1> QED
    BY <1>2, <1>4 DEF Links

\* There is an event for every number from a to b.
Reaches(P, a, b) == \A n \in a..b : \E y \in P : y.sequence = n

\* What rechaining gives x, the n-th event behind the first.
IsRechained(P, e, x, n) ==
    /\ Rechained(P, e, x) \in Event
    /\ Rechained(P, e, x).key = x.key
    /\ Rechained(P, e, x).candidate = x.candidate
    /\ Rechained(P, e, x).sequence = x.sequence
    /\ Rechained(P, e, x).kind = x.kind
    /\ Rechained(P, e, x).question = x.question
    /\ Rechained(P, e, x).answer = x.answer
    /\ Rechained(P, e, x).previous = e.previous \o Links(P, e.sequence, n)
    /\ Links(P, e.sequence, n) \in Seq(Body)
    /\ Len(Links(P, e.sequence, n)) = n
    /\ \A i \in 1..n : Links(P, e.sequence, n)[i] = Content(EventWith(P, e.sequence + (i - 1)))

\* An event behind the first is rechained.
LEMMA RechainedFacts ==
  ASSUME NEW P, P \subseteq Event, Distinct(P), NEW e \in Event, NEW x \in P,
         NEW n \in Nat, x.sequence = e.sequence + n,
         Reaches(P, e.sequence, x.sequence)
  PROVE  IsRechained(P, e, x, n)
  <1>1. e.sequence \in Nat /\ x.sequence \in Nat /\ x \in Event
    BY DEF Event
  <1>2. n = x.sequence - e.sequence
    BY <1>1
  <1>3. \A i \in 1..n : Content(EventWith(P, e.sequence + (i - 1))) \in Body
    <2> TAKE i \in 1..n
    <2>1. e.sequence + (i - 1) \in e.sequence..x.sequence
      BY <1>1, <1>2
    <2>2. PICK y \in P : y.sequence = e.sequence + (i - 1)
      BY <2>1 DEF Reaches
    <2>3. EventWith(P, y.sequence) = y
      BY WithFacts
    <2> QED
      BY <2>2, <2>3, HashFacts
  <1>4. /\ Links(P, e.sequence, n) \in Seq(Body)
        /\ Len(Links(P, e.sequence, n)) = n
        /\ \A i \in 1..n : Links(P, e.sequence, n)[i] = Content(EventWith(P, e.sequence + (i - 1)))
    BY <1>1, <1>3, LinksFacts
  <1>5. e.previous \in Seq(Body)
    BY HashFacts
  <1>6. PICK p \in Seq(Body) : p = e.previous \o Links(P, e.sequence, n)
    BY <1>4, <1>5, ConcatProperties
  <1>7. Rechained(P, e, x) = [x EXCEPT !.previous = p]
    BY <1>2, <1>6 DEF Rechained, Links
  <1>8. /\ [x EXCEPT !.previous = p] \in Event
        /\ [x EXCEPT !.previous = p].key = x.key
        /\ [x EXCEPT !.previous = p].candidate = x.candidate
        /\ [x EXCEPT !.previous = p].sequence = x.sequence
        /\ [x EXCEPT !.previous = p].kind = x.kind
        /\ [x EXCEPT !.previous = p].question = x.question
        /\ [x EXCEPT !.previous = p].answer = x.answer
        /\ [x EXCEPT !.previous = p].previous = p
    BY <1>1 DEF Event, Digest
  <1> QED
    BY <1>4, <1>6, <1>7, <1>8, Zenon DEF IsRechained

\* h is u and one more body b.
OneMore(h, u, b) ==
    /\ Len(h) = Len(u) + 1
    /\ \A i \in 1..Len(u) : h[i] = u[i]
    /\ h[Len(u) + 1] = b

\* t is s, n bodies long, and one more.
Longer(t, s, n, m) ==
    Len(s) = n /\ m = n + 1 /\ Len(t) = m /\ \A i \in 1..n : t[i] = s[i]

\* A chain behind d with one more body.
LEMMA OneMoreBehind ==
  ASSUME NEW d \in Seq(Body), NEW s \in Seq(Body), NEW t \in Seq(Body), NEW h \in Seq(Body),
         NEW n \in Nat, NEW m \in Nat, Longer(t, s, n, m), OneMore(h, d \o s, t[m])
  PROVE  h = d \o t
  <1>1. Len(s) = n /\ m = n + 1 /\ Len(t) = m /\ \A i \in 1..n : t[i] = s[i]
    BY DEF Longer
  <1>2. PICK l \in Nat : l = Len(d)
    BY LenProperties
  <1>3. PICK u \in Seq(Body) : u = d \o s
    BY ConcatProperties
  <1>4. /\ Len(u) = l + n
        /\ \A i \in 1..(l + n) : u[i] = IF i <= l THEN d[i] ELSE s[i - l]
    BY <1>2, <1>3, <1>1, ConcatProperties
  <1>5. PICK v \in Seq(Body) : v = d \o t
    BY ConcatProperties
  <1>6. /\ Len(v) = l + m
        /\ \A i \in 1..(l + m) : v[i] = IF i <= l THEN d[i] ELSE t[i - l]
    <2>1. /\ Len(d \o t) = Len(d) + Len(t)
          /\ \A i \in 1..(Len(d) + Len(t)) :
                (d \o t)[i] = IF i <= Len(d) THEN d[i] ELSE t[i - Len(d)]
      BY ConcatProperties, Zenon
    <2> QED
      BY <1>2, <1>5, <1>1, <2>1, Zenon
  <1>7. /\ Len(h) = l + m
        /\ \A i \in 1..(l + n) : h[i] = u[i]
        /\ h[l + m] = t[m]
    <2>1. /\ Len(h) = Len(u) + 1
          /\ \A i \in 1..Len(u) : h[i] = u[i]
          /\ h[Len(u) + 1] = t[m]
      BY <1>3, Zenon DEF OneMore
    <2>2. Len(u) + 1 = l + m
      BY <1>4, <1>1
    <2> QED
      BY <1>4, <2>1, <2>2, Zenon
  <1>8. \A i \in 1..(l + m) : h[i] = v[i]
    <2> TAKE i \in 1..(l + m)
    <2>1. CASE i <= l
      <3>1. i \in 1..(l + n)
        BY <1>1, <2>1
      <3>2. h[i] = d[i]
        BY <1>4, <1>7, <2>1, <3>1
      <3> QED
        BY <1>6, <2>1, <3>2
    <2>2. CASE i > l /\ i <= l + n
      <3>1. i - l \in 1..n /\ i \in 1..(l + n) /\ ~(i <= l)
        BY <2>2
      <3>2. h[i] = s[i - l]
        BY <1>4, <1>7, <3>1
      <3>3. v[i] = t[i - l]
        BY <1>6, <3>1
      <3> QED
        BY <1>1, <3>1, <3>2, <3>3
    <2>3. CASE i = l + m
      <3>1. i - l = m /\ ~(i <= l)
        BY <1>1, <2>3
      <3>2. v[i] = t[i - l]
        BY <1>6, <3>1
      <3> QED
        BY <1>7, <2>3, <3>1, <3>2
    <2> QED
      BY <1>1, <2>1, <2>2, <2>3
  <1>9. h = v
    BY <1>6, <1>7, <1>8, SeqEqual
  <1> QED
    BY <1>5, <1>9

\* The rechained successor of x follows the rechained x.
LEMMA RechainedFollows ==
  ASSUME NEW P, P \subseteq Event, Distinct(P), NEW e \in Event, NEW x \in P, NEW y \in P,
         e.sequence <= x.sequence, y.sequence = x.sequence + 1,
         Reaches(P, e.sequence, y.sequence)
  PROVE  Rechained(P, e, y).previous = hash_answer_event(Rechained(P, e, x))
  <1>1. e.sequence \in Nat /\ x.sequence \in Nat /\ y.sequence \in Nat
    BY DEF Event
  <1>2. PICK n \in Nat : n = x.sequence - e.sequence
    BY <1>1
  <1>3. x.sequence = e.sequence + n
    BY <1>1, <1>2
  <1>4. PICK m \in Nat : m = n + 1
    OBVIOUS
  <1>5. y.sequence = e.sequence + m
    BY <1>1, <1>3, <1>4
  <1>6. Reaches(P, e.sequence, x.sequence)
    BY <1>1 DEF Reaches
  <1>7. /\ Rechained(P, e, x) \in Event
        /\ Rechained(P, e, x).key = x.key
        /\ Rechained(P, e, x).candidate = x.candidate
        /\ Rechained(P, e, x).sequence = x.sequence
        /\ Rechained(P, e, x).kind = x.kind
        /\ Rechained(P, e, x).question = x.question
        /\ Rechained(P, e, x).answer = x.answer
        /\ Rechained(P, e, x).previous = e.previous \o Links(P, e.sequence, n)
        /\ Links(P, e.sequence, n) \in Seq(Body)
        /\ Len(Links(P, e.sequence, n)) = n
        /\ \A i \in 1..n : Links(P, e.sequence, n)[i] = Content(EventWith(P, e.sequence + (i - 1)))
    <2>1. IsRechained(P, e, x, n)
      BY <1>3, <1>6, RechainedFacts, Zenon
    <2> QED
      BY <2>1, Zenon DEF IsRechained
  <1>8. /\ Rechained(P, e, y).previous = e.previous \o Links(P, e.sequence, m)
        /\ Links(P, e.sequence, m) \in Seq(Body)
        /\ Len(Links(P, e.sequence, m)) = m
        /\ \A i \in 1..m :
              Links(P, e.sequence, m)[i] = Content(EventWith(P, e.sequence + (i - 1)))
    <2>1. IsRechained(P, e, y, m)
      BY <1>5, RechainedFacts
    <2> QED
      BY <2>1, Zenon DEF IsRechained
  <1>9. PICK r \in Event : r = Rechained(P, e, x)
    BY <1>7, Zenon
  <1>10. PICK s \in Seq(Body) : s = Links(P, e.sequence, n)
    BY <1>7, Zenon
  <1>11. PICK t \in Seq(Body) : t = Links(P, e.sequence, m)
    BY <1>8, Zenon
  <1>12. /\ r.key = x.key /\ r.candidate = x.candidate /\ r.sequence = x.sequence
         /\ r.kind = x.kind /\ r.question = x.question /\ r.answer = x.answer
         /\ r.previous = e.previous \o s
    BY <1>7, <1>9, <1>10, Zenon
  <1>13. Len(s) = n /\ \A i \in 1..n : s[i] = Content(EventWith(P, e.sequence + (i - 1)))
    BY <1>7, <1>10, Zenon
  <1>14. Len(t) = m /\ \A i \in 1..m : t[i] = Content(EventWith(P, e.sequence + (i - 1)))
    BY <1>8, <1>11, Zenon
  <1>15. \A i \in 1..n : t[i] = s[i]
    BY <1>13, <1>14, <1>4
  <1>16. t[m] = Content(x)
    <2>1. m \in 1..m
      BY <1>4
    <2>2. e.sequence + (m - 1) = x.sequence
      BY <1>1, <1>3, <1>4
    <2>3. EventWith(P, x.sequence) = x
      BY WithFacts
    <2>4. t[m] = Content(EventWith(P, e.sequence + (m - 1)))
      BY <1>14, <2>1, Zenon
    <2> QED
      BY <2>2, <2>3, <2>4, Zenon
  <1>17. /\ e.previous \in Seq(Body)
         /\ hash_answer_event(r) \in Seq(Body)
         /\ Len(hash_answer_event(r)) = Len(r.previous) + 1
         /\ \A i \in 1..Len(r.previous) : hash_answer_event(r)[i] = r.previous[i]
         /\ hash_answer_event(r)[Len(r.previous) + 1] = Content(r)
    BY HashFacts, Zenon
  <1>18. Content(r) = Content(x)
    <2>1. x \in Event
      OBVIOUS
    <2> QED
      BY <1>12, <2>1, HashFacts
  <1>19. PICK d \in Seq(Body) : d = e.previous
    BY <1>17, Zenon
  <1>20. PICK h \in Seq(Body) : h = hash_answer_event(r)
    BY <1>17, Zenon
  <1>21. OneMore(h, d \o s, t[m])
    BY <1>12, <1>16, <1>17, <1>18, <1>19, <1>20, Zenon DEF OneMore
  <1>22. Longer(t, s, n, m)
    BY <1>13, <1>14, <1>15, <1>4, Zenon DEF Longer
  <1>23. h = d \o t
    BY <1>21, <1>22, OneMoreBehind
  <1>24. hash_answer_event(r) = e.previous \o t
    BY <1>19, <1>20, <1>23, Zenon
  <1> QED
    BY <1>8, <1>9, <1>11, <1>24, Zenon

\* The first event itself gets the new predecessor.
LEMMA RechainedFirst ==
  ASSUME NEW P, P \subseteq Event, Distinct(P), NEW e \in Event, NEW x \in P,
         x.sequence = e.sequence
  PROVE  /\ IsRechained(P, e, x, 0)
         /\ Rechained(P, e, x).previous = e.previous
  <1>1. x.sequence \in Nat
    BY DEF Event
  <1>2. Reaches(P, e.sequence, x.sequence)
    <2>1. \A n \in e.sequence..x.sequence : n = x.sequence
      BY <1>1
    <2> QED
      BY <2>1 DEF Reaches
  <1>3. x.sequence = e.sequence + 0
    BY <1>1
  <1>4. IsRechained(P, e, x, 0)
    BY <1>2, <1>3, RechainedFacts
  <1>5. PICK s \in Seq(Body) : s = Links(P, e.sequence, 0)
    BY <1>4, Zenon DEF IsRechained
  <1>6. Len(s) = 0
    BY <1>4, <1>5, Zenon DEF IsRechained
  <1>7. s = <<>>
    BY <1>6, EmptySeq
  <1>8. e.previous \in Seq(Body)
    BY HashFacts, Zenon
  <1>9. e.previous \o <<>> = e.previous
    BY <1>8, ConcatEmptySeq, Zenon
  <1>10. Rechained(P, e, x).previous = e.previous \o s
    BY <1>4, <1>5, Zenon DEF IsRechained
  <1> QED
    BY <1>4, <1>7, <1>9, <1>10, Zenon

\* The events of a session chained again behind e.
RechainedEvents(P, e) == {Rechained(P, e, x) : x \in P}

\* Rechaining changes nothing but predecessors.
LEMMA RechainedSame ==
  ASSUME NEW w \in Watermark, NEW P, P \subseteq Event, Session(w, P), NEW e \in Event,
         e.sequence = w.acknowledged_sequence + 1, NEW x \in P
  PROVE  /\ Rechained(P, e, x) \in Event
         /\ Rechained(P, e, x).key = x.key
         /\ Rechained(P, e, x).candidate = x.candidate
         /\ Rechained(P, e, x).sequence = x.sequence
         /\ Rechained(P, e, x).kind = x.kind
         /\ Rechained(P, e, x).question = x.question
         /\ Rechained(P, e, x).answer = x.answer
  <1>1. /\ w.highest \in Nat /\ w.acknowledged_sequence \in Nat
        /\ x.sequence \in Nat /\ e.sequence \in Nat
    BY MarkFields DEF Event
  <1>2. /\ \A n \in (w.acknowledged_sequence + 1)..w.highest : \E y \in P : y.sequence = n
        /\ Distinct(P) /\ EventsOK(w, P)
    BY DEF Session
  <1>3. x.sequence \in (w.acknowledged_sequence + 1)..w.highest
    BY <1>2 DEF EventsOK
  <1>4. Reaches(P, e.sequence, x.sequence)
    BY <1>1, <1>2, <1>3 DEF Reaches
  <1>5. PICK n \in Nat : x.sequence = e.sequence + n
    <2>1. x.sequence - e.sequence \in Nat /\ x.sequence = e.sequence + (x.sequence - e.sequence)
      BY <1>1, <1>3
    <2> QED
      BY <2>1
  <1>6. IsRechained(P, e, x, n)
    BY <1>2, <1>4, <1>5, RechainedFacts
  <1> QED
    BY <1>6, Zenon DEF IsRechained

\* enqueue() of the first waiting event with another predecessor.
LEMMA RebaseKeeps ==
  ASSUME NEW w \in Watermark, NEW P, P \subseteq Event, Session(w, P),
         NEW e \in Event, e.sequence = w.acknowledged_sequence + 1,
         e.sequence = 1 <=> e.previous = ZeroDigest, P # {},
         NEW v \in Watermark, v.acknowledged_sequence = w.acknowledged_sequence,
         v.acknowledged_hash = e.previous,
         v.candidate = w.candidate, v.highest = w.highest,
         v.last = hash_answer_event(Rechained(P, e, EventWith(P, w.highest))),
         v.finalized = w.finalized
  PROVE  Session(v, RechainedEvents(P, e))
  <1>1. /\ w.highest \in Nat /\ w.acknowledged_sequence \in Nat /\ e.sequence \in Nat
        /\ \A x \in P : x.sequence \in Nat
    BY MarkFields DEF Event
  <1>2. /\ valid_watermark(w)
        /\ \A n \in (w.acknowledged_sequence + 1)..w.highest : \E x \in P : x.sequence = n
        /\ Distinct(P) /\ EventsOK(w, P) /\ ChainOK(w, P) /\ EndOK(w, P)
    BY DEF Session
  <1>3. PICK Q : Q = RechainedEvents(P, e)
    OBVIOUS
  <1>4. \A x \in P : x.sequence \in (w.acknowledged_sequence + 1)..w.highest
    BY <1>2 DEF EventsOK
  <1>5. \A x \in P : /\ Rechained(P, e, x) \in Event
                     /\ Rechained(P, e, x).candidate = x.candidate
                     /\ Rechained(P, e, x).sequence = x.sequence
                     /\ Rechained(P, e, x).kind = x.kind
                     /\ Rechained(P, e, x).question = x.question
                     /\ Rechained(P, e, x).answer = x.answer
    <2> TAKE x \in P
    <2> QED
      BY RechainedSame
  <1>6. \A r \in Q : \E x \in P : r = Rechained(P, e, x)
    BY <1>3, Zenon DEF RechainedEvents
  <1>7. \A x \in P : Rechained(P, e, x) \in Q
    BY <1>3, Zenon DEF RechainedEvents
  <1>8. \A x \in P : x.sequence = e.sequence => Rechained(P, e, x).previous = e.previous
    <2> TAKE x \in P
    <2> HAVE x.sequence = e.sequence
    <2> QED
      BY <1>2, RechainedFirst
  <1>9. PICK z \in P : z.sequence = w.highest
    <2>1. w.highest \in (w.acknowledged_sequence + 1)..w.highest
      BY <1>1, <1>4
    <2> QED
      BY <1>2, <2>1
  <1>10. v.last = hash_answer_event(Rechained(P, e, z))
    BY <1>2, <1>9, WithFacts, Zenon
  <1>11. hash_answer_event(Rechained(P, e, z)) # ZeroDigest
    BY <1>5, HashFacts, Zenon
  <1>12. valid_watermark(v)
    BY <1>1, <1>2, <1>10, <1>11 DEF valid_watermark
  <1>13. Distinct(Q)
    <2> SUFFICES ASSUME NEW p \in Q, NEW q \in Q, p.sequence = q.sequence
                 PROVE  p = q
      BY DEF Distinct
    <2>1. PICK x \in P : p = Rechained(P, e, x)
      BY <1>6, Zenon
    <2>2. PICK y \in P : q = Rechained(P, e, y)
      BY <1>6, Zenon
    <2>3. x.sequence = y.sequence
      BY <1>5, <2>1, <2>2, Zenon
    <2>4. x = y
      BY <1>2, <2>3, Zenon DEF Distinct
    <2> QED
      BY <2>1, <2>2, <2>4, Zenon
  <1>14. \A n \in (v.acknowledged_sequence + 1)..v.highest : \E q \in Q : q.sequence = n
    <2> TAKE n \in (v.acknowledged_sequence + 1)..v.highest
    <2>1. PICK x \in P : x.sequence = n
      BY <1>2
    <2> QED
      BY <1>5, <1>7, <2>1, Zenon
  <1>15. EventsOK(v, Q)
    <2> SUFFICES ASSUME NEW q \in Q
                 PROVE  /\ q.sequence \in (v.acknowledged_sequence + 1)..v.highest
                        /\ validate_answer_event(q)
                        /\ q.candidate = v.candidate
                        /\ q.kind = "finalize" => q.sequence = v.highest
      BY DEF EventsOK
    <2>1. PICK x \in P : q = Rechained(P, e, x)
      BY <1>6, Zenon
    <2>2. /\ q.candidate = x.candidate /\ q.sequence = x.sequence /\ q.kind = x.kind
          /\ q.question = x.question /\ q.answer = x.answer
          /\ x.sequence = e.sequence => q.previous = e.previous
      BY <1>5, <1>8, <2>1, Zenon
    <2>3. /\ validate_answer_event(x) /\ x.candidate = w.candidate
          /\ x.kind = "finalize" => x.sequence = w.highest
      BY <1>2, Zenon DEF EventsOK
    <2>4. q.sequence = 1 => q.previous = ZeroDigest
      <3> HAVE q.sequence = 1
      <3>1. x.sequence = e.sequence /\ e.sequence = 1
        BY <1>1, <1>4, <2>2
      <3> QED
        BY <2>2, <3>1
    <2>5. validate_answer_event(q)
      BY <2>2, <2>3, <2>4, Zenon DEF validate_answer_event
    <2> QED
      BY <1>4, <2>2, <2>3, <2>5, Zenon
  <1>16. ChainOK(v, Q)
    <2>1. ASSUME NEW q \in Q, q.sequence = v.acknowledged_sequence + 1
          PROVE  q.previous = v.acknowledged_hash
      <3>1. PICK x \in P : q = Rechained(P, e, x)
        BY <1>6, Zenon
      <3>2. x.sequence = e.sequence
        BY <1>5, <2>1, <3>1, Zenon
      <3> QED
        BY <1>8, <3>1, <3>2, Zenon
    <2>2. ASSUME NEW p \in Q, NEW q \in Q, q.sequence = p.sequence + 1
          PROVE  q.previous = hash_answer_event(p)
      <3>1. PICK x \in P : p = Rechained(P, e, x)
        BY <1>6, Zenon
      <3>2. PICK y \in P : q = Rechained(P, e, y)
        BY <1>6, Zenon
      <3>3. y.sequence = x.sequence + 1
        BY <1>5, <2>2, <3>1, <3>2, Zenon
      <3>4. Reaches(P, e.sequence, y.sequence)
        BY <1>1, <1>2, <1>4 DEF Reaches
      <3>5. e.sequence <= x.sequence
        BY <1>1, <1>4
      <3>6. Rechained(P, e, y).previous = hash_answer_event(Rechained(P, e, x))
        BY <1>2, <3>3, <3>4, <3>5, RechainedFollows
      <3> QED
        BY <3>1, <3>2, <3>6, Zenon
    <2> QED
      BY <2>1, <2>2, Zenon DEF ChainOK
  <1>17. EndOK(v, Q)
    <2> SUFFICES ASSUME NEW q \in Q, q.sequence = v.highest
                 PROVE  v.last = hash_answer_event(q) /\ (v.finalized <=> q.kind = "finalize")
      BY DEF EndOK
    <2>1. PICK x \in P : q = Rechained(P, e, x)
      BY <1>6, Zenon
    <2>2. x.sequence = w.highest /\ q.kind = x.kind
      BY <1>5, <2>1, Zenon
    <2>3. x = z
      BY <1>2, <1>9, <2>2, Zenon DEF Distinct
    <2>4. w.finalized <=> x.kind = "finalize"
      BY <1>2, <2>2, Zenon DEF EndOK
    <2> QED
      BY <1>10, <2>1, <2>2, <2>3, <2>4, Zenon
  <1>18. Q # {}
    BY <1>7, <1>9
  <1>19. Session(v, Q)
    BY <1>12, <1>13, <1>14, <1>15, <1>16, <1>17, <1>18 DEF Session
  <1> QED
    BY <1>3, <1>19

-----------------------------------------------------------------------------
(* Images. *)

\* An image as the service holds it: every session has its watermark, and open()
\* would accept it.
Sound(image) ==
    /\ IsImage(image) /\ image.version = CurrentVersion
    /\ \A e \in image.events : e.key \in DOMAIN image.watermarks
    /\ Cardinality(image.events) <= MaxOutboxEvents
    /\ Cardinality(DOMAIN image.watermarks) <= MaxWatermarks
    /\ \A k \in DOMAIN image.watermarks : Session(image.watermarks[k], EventsOf(image, k))

\* The events of a session are events of it.
LEMMA EventsOfFacts ==
  ASSUME NEW image, IsImage(image), NEW k
  PROVE  /\ EventsOf(image, k) \subseteq Event
         /\ EventsOf(image, k) \subseteq image.events
         /\ \A x \in EventsOf(image, k) : x.key = k
  BY DEF EventsOf, IsImage

\* There is nothing to upgrade in it.
LEMMA SoundIsUpgraded ==
  ASSUME NEW image, Sound(image)
  PROVE  Upgraded(image) = image
  <1>1. /\ image = [version |-> image.version, events |-> image.events,
                    watermarks |-> image.watermarks]
        /\ image.watermarks = [k \in DOMAIN image.watermarks |-> image.watermarks[k]]
        /\ image.version = 4
        /\ \A e \in image.events : e.key \in DOMAIN image.watermarks
    BY DEF Sound, IsImage, CurrentVersion
  <1>2. DOMAIN image.watermarks \cup {e.key : e \in image.events} = DOMAIN image.watermarks
    BY <1>1
  <1>3. ASSUME NEW k \in DOMAIN image.watermarks
        PROVE  UpgradedWatermark(image, k) = image.watermarks[k]
    BY <1>1 DEF UpgradedWatermark
  <1>4. [k \in DOMAIN image.watermarks |-> UpgradedWatermark(image, k)] = image.watermarks
    BY <1>1, <1>3
  <1>5. Upgraded(image) = [version |-> image.version, events |-> image.events,
                           watermarks |-> image.watermarks]
    BY <1>1, <1>2, <1>4 DEF Upgraded, CurrentVersion
  <1> QED
    BY <1>1, <1>5, Zenon

\* open() accepts it.
LEMMA SoundOpens ==
  ASSUME NEW image, Sound(image)
  PROVE  Opens(image)
  <1>1. Upgraded(image) = image
    BY SoundIsUpgraded
  <1>2. ASSUME NEW k \in DOMAIN image.watermarks
        PROVE  ConsistentSession(image.watermarks[k], EventsOf(image, k))
    <2>1. image.watermarks[k] \in Watermark
      BY DEF Sound, IsImage
    <2>2. EventsOf(image, k) \subseteq Event
      BY EventsOfFacts DEF Sound
    <2>3. Session(image.watermarks[k], EventsOf(image, k))
      BY DEF Sound
    <2> QED
      BY <2>1, <2>2, <2>3, SessionForm
  <1>3. /\ Cardinality(image.events) <= MaxOutboxEvents
        /\ Cardinality(DOMAIN image.watermarks) <= MaxWatermarks
    BY DEF Sound
  <1> QED
    BY <1>1, <1>2, <1>3, Zenon DEF Opens

-----------------------------------------------------------------------------
(* The upgrade of open(). *)

\* A finite set of numbers has a bound.
LEMMA FiniteBounded ==
  ASSUME NEW S \in SUBSET Nat, IsFiniteSet(S)
  PROVE  \E b \in Nat : \A x \in S : x <= b
  <1>1. PICK n \in Nat : ExistsSurjection(1..n, S)
    BY FS_NatSurjection, Zenon
  <1>2. PICK f \in Surjection(1..n, S) : TRUE
    BY <1>1, Zenon DEF ExistsSurjection
  <1>3. /\ f \in [1..n -> S]
        /\ \A x \in S : \E i \in 1..n : f[i] = x
    BY <1>2 DEF Surjection
  <1>4. PICK U \in SUBSET Nat : U = {m \in 0..n : ~\E b \in Nat : \A i \in 1..m : f[i] <= b}
    <2>1. \A m \in 0..n : m \in Nat
      OBVIOUS
    <2>2. {m \in 0..n : ~\E b \in Nat : \A i \in 1..m : f[i] <= b} \in SUBSET Nat
      BY <2>1, Zenon
    <2> QED
      BY <2>2, Zenon
  <1>5. U = {}
    <2> SUFFICES ASSUME U # {} PROVE FALSE
      OBVIOUS
    <2>1. PICK m \in U : \A y \in U : ~(<<y, m>> \in OpToRel(<, Nat))
      BY WFMin, NatLessThanWellFounded, Zenon
    <2>2. \A y \in U : y \in Nat /\ m \in Nat /\ ~(y < m)
      BY <2>1 DEF OpToRel
    <2>3. m \in 0..n /\ ~\E b \in Nat : \A i \in 1..m : f[i] <= b
      BY <1>4
    <2>4. m # 0
      <3> SUFFICES ASSUME m = 0 PROVE FALSE
        OBVIOUS
      <3>1. \A i \in 1..m : f[i] <= 0
        OBVIOUS
      <3> QED
        BY <2>3, <3>1
    <2>5. m - 1 \in 0..n /\ m - 1 \notin U
      BY <2>2, <2>3, <2>4
    <2>6. PICK b \in Nat : \A i \in 1..(m - 1) : f[i] <= b
      BY <1>4, <2>5
    <2>7. f[m] \in Nat
      <3>1. m \in 1..n
        BY <2>3, <2>4
      <3>2. f[m] \in S
        BY <1>3, <3>1
      <3> QED
        BY <3>2
    <2>8. PICK c \in Nat : b <= c /\ f[m] <= c
      BY <2>7
    <2>9. ASSUME NEW i \in 1..m PROVE f[i] <= c
      <3>1. CASE i = m
        BY <2>8, <3>1
      <3>2. CASE i # m
        <4>1. i \in 1..(m - 1) /\ i \in 1..n
          BY <2>3, <3>2
        <4>2. f[i] \in S
          BY <1>3, <4>1
        <4>3. f[i] \in Nat
          BY <4>2
        <4> QED
          BY <2>6, <2>8, <4>1, <4>3
      <3> QED
        BY <3>1, <3>2
    <2> QED
      BY <2>3, <2>9
  <1>6. n \in 0..n
    OBVIOUS
  <1>7. PICK b \in Nat : \A i \in 1..n : f[i] <= b
    BY <1>4, <1>5, <1>6
  <1> QED
    BY <1>3, <1>7

\* The sequence numbers of events.
LEMMA NumbersFinite ==
  ASSUME NEW P, P \subseteq Event, IsFiniteSet(P)
  PROVE  /\ {e.sequence : e \in P} \in SUBSET Nat
         /\ IsFiniteSet({e.sequence : e \in P})
  <1>1. {e.sequence : e \in P} \in SUBSET Nat
    BY DEF Event
  <1>2. PICK T : T = {e.sequence : e \in P}
    OBVIOUS
  <1>3. [e \in P |-> e.sequence] \in Surjection(P, T)
    BY <1>2 DEF Surjection
  <1>4. IsFiniteSet(T)
    BY <1>3, FS_Surjection
  <1> QED
    BY <1>1, <1>2, <1>4

\* A session with waiting events has a first one.
LEMMA FirstExists ==
  ASSUME NEW P, P \subseteq Event, P # {}
  PROVE  FirstOf(P) \in P /\ \A d \in P : FirstOf(P).sequence <= d.sequence
  <1>1. PICK S \in SUBSET Nat : S = {e.sequence : e \in P}
    <2>1. {e.sequence : e \in P} \in SUBSET Nat
      BY DEF Event
    <2> QED
      BY <2>1, Zenon
  <1>2. S # {}
    BY <1>1
  <1>3. PICK m \in S : \A y \in S : ~(<<y, m>> \in OpToRel(<, Nat))
    BY <1>2, WFMin, NatLessThanWellFounded, Zenon
  <1>4. \A y \in S : y \in Nat /\ m \in Nat /\ ~(y < m)
    BY <1>3 DEF OpToRel
  <1>5. PICK e \in P : e.sequence = m
    BY <1>1, <1>3
  <1>6. \A d \in P : e.sequence <= d.sequence
    BY <1>1, <1>4, <1>5
  <1> QED
    BY <1>6, Zenon DEF FirstOf

\* It has a last one.
LEMMA LastExists ==
  ASSUME NEW P, P \subseteq Event, P # {}, IsFiniteSet(P)
  PROVE  LastOf(P) \in P /\ \A d \in P : d.sequence <= LastOf(P).sequence
  <1>1. PICK b \in Nat : \A x \in {e.sequence : e \in P} : x <= b
    BY NumbersFinite, FiniteBounded, Zenon
  <1>2. \A e \in P : e.sequence \in Nat /\ e.sequence <= b
    BY <1>1 DEF Event
  <1>3. PICK S \in SUBSET Nat : S = {b - e.sequence : e \in P}
    <2>1. \A e \in P : b - e.sequence \in Nat
      BY <1>2
    <2>2. {b - e.sequence : e \in P} \in SUBSET Nat
      BY <2>1, Zenon
    <2> QED
      BY <2>2, Zenon
  <1>4. S # {}
    BY <1>3
  <1>5. PICK m \in S : \A y \in S : ~(<<y, m>> \in OpToRel(<, Nat))
    BY <1>4, WFMin, NatLessThanWellFounded, Zenon
  <1>6. \A y \in S : y \in Nat /\ m \in Nat /\ ~(y < m)
    BY <1>5 DEF OpToRel
  <1>7. PICK e \in P : m = b - e.sequence
    BY <1>3, <1>5
  <1>8. \A d \in P : d.sequence <= e.sequence
    <2> TAKE d \in P
    <2>1. b - d.sequence \in S
      BY <1>3
    <2>2. ~(b - d.sequence < b - e.sequence)
      BY <1>6, <1>7, <2>1
    <2> QED
      BY <1>2, <2>2
  <1> QED
    BY <1>8, Zenon DEF LastOf

\* The watermark of a session that had none, or that an older format had.
LEMMA UpgradedMark ==
  ASSUME NEW image, IsImage(image), NEW k \in DOMAIN image.watermarks \cup {e.key : e \in image.events},
         \A e \in EventsOf(image, k) : validate_answer_event(e)
  PROVE  /\ UpgradedWatermark(image, k) \in Watermark
         /\ EventsOf(image, k) = {} =>
              /\ k \in DOMAIN image.watermarks
              /\ UpgradedWatermark(image, k).highest = image.watermarks[k].highest
              /\ UpgradedWatermark(image, k).last = image.watermarks[k].last
  <1>1. PICK P : P = EventsOf(image, k)
    OBVIOUS
  <1>2. P \subseteq Event /\ IsFiniteSet(P)
    <2>1. P \subseteq image.events /\ P \subseteq Event
      BY <1>1, EventsOfFacts
    <2>2. IsFiniteSet(image.events)
      BY DEF IsImage
    <2> QED
      BY <2>1, <2>2, FS_Subset
  <1>3. P = {} => k \in DOMAIN image.watermarks
    BY <1>1 DEF EventsOf
  <1> DEFINE edge == IF image.version = 1 THEN LastOf(P) ELSE FirstOf(P)
             stored == IF k \in DOMAIN image.watermarks THEN image.watermarks[k]
                       ELSE NewMark(edge, 0, ZeroDigest)
             bounded == IF image.version >= 3 THEN stored
                        ELSE IF P = {}
                        THEN [stored EXCEPT !.acknowledged_sequence = stored.highest,
                                            !.acknowledged_hash = stored.last]
                        ELSE [stored EXCEPT !.acknowledged_sequence = FirstOf(P).sequence - 1,
                                            !.acknowledged_hash = FirstOf(P).previous]
             mark == IF image.version >= 4 THEN bounded
                     ELSE [bounded EXCEPT !.finalized = \E e \in P : e.kind = "finalize"]
  <1>4. UpgradedWatermark(image, k) = mark
    BY <1>1 DEF UpgradedWatermark, NewMark
  <1>5. P # {} => LastOf(P) \in P /\ FirstOf(P) \in P
    BY <1>2, FirstExists, LastExists
  <1>6. P # {} => edge \in Event
    BY <1>2, <1>5
  <1>7. ZeroDigest \in Digest
    BY EmptySeq DEF ZeroDigest, Digest
  <1>8. stored \in Watermark
    <2>1. CASE k \in DOMAIN image.watermarks
      BY <2>1 DEF IsImage
    <2>2. CASE k \notin DOMAIN image.watermarks
      <3>1. edge \in Event
        BY <1>3, <1>6, <2>2
      <3> HIDE DEF edge
      <3>2. NewMark(edge, 0, ZeroDigest) \in Watermark
        BY <1>7, <3>1, NewMarkFacts
      <3> QED
        BY <2>2, <3>2
    <2> QED
      BY <2>1, <2>2
  <1>9. P = {} => stored = image.watermarks[k]
    BY <1>3
  <1>10. P # {} => FirstOf(P).sequence - 1 \in Nat /\ FirstOf(P).previous \in Digest
    BY <1>1, <1>2, <1>5 DEF Event, validate_answer_event
  <1> HIDE DEF stored, edge
  <1>11. bounded \in Watermark
    <2>1. stored.highest \in Nat /\ stored.last \in Digest
      BY <1>8, MarkFields
    <2>2. ASSUME NEW n \in Nat, NEW h \in Digest
          PROVE  [stored EXCEPT !.acknowledged_sequence = n, !.acknowledged_hash = h] \in Watermark
      BY <1>8 DEF Watermark
    <2> QED
      BY <1>8, <1>10, <2>1, <2>2
  <1>12. bounded.highest = stored.highest /\ bounded.last = stored.last
    BY <1>8 DEF Watermark
  <1> HIDE DEF bounded
  <1>13. (\E e \in P : e.kind = "finalize") \in BOOLEAN
    BY Zenon
  <1>14. ASSUME NEW b \in BOOLEAN
         PROVE  /\ [bounded EXCEPT !.finalized = b] \in Watermark
                /\ [bounded EXCEPT !.finalized = b].highest = bounded.highest
                /\ [bounded EXCEPT !.finalized = b].last = bounded.last
    BY <1>11 DEF Watermark
  <1>15. PICK b \in BOOLEAN : b = \E e \in P : e.kind = "finalize"
    BY <1>13, Zenon
  <1>16. mark = IF image.version >= 4 THEN bounded ELSE [bounded EXCEPT !.finalized = b]
    BY <1>15, Zenon
  <1> HIDE DEF mark
  <1>17. mark \in Watermark /\ mark.highest = stored.highest /\ mark.last = stored.last
    BY <1>11, <1>12, <1>14, <1>16
  <1> QED
    BY <1>1, <1>3, <1>4, <1>9, <1>17, Zenon

\* What open() leaves of a file it accepts.
LEMMA OpenedSound ==
  ASSUME NEW image, IsImage(image), Opens(image)
  PROVE  /\ Sound(Upgraded(image))
         /\ Upgraded(image).events = image.events
         /\ \A k \in DOMAIN Upgraded(image).watermarks :
               EventsOf(image, k) = {} =>
                 /\ k \in DOMAIN image.watermarks
                 /\ Upgraded(image).watermarks[k].highest = image.watermarks[k].highest
                 /\ Upgraded(image).watermarks[k].last = image.watermarks[k].last
  <1>1. PICK D : D = DOMAIN image.watermarks \cup {e.key : e \in image.events}
    OBVIOUS
  <1>2. PICK up : up = Upgraded(image)
    OBVIOUS
  <1>3. up = [version |-> CurrentVersion, events |-> image.events,
              watermarks |-> [k \in D |-> UpgradedWatermark(image, k)]]
    BY <1>1, <1>2, Zenon DEF Upgraded
  <1>4. /\ up.version = CurrentVersion /\ up.events = image.events
        /\ up.watermarks = [k \in D |-> UpgradedWatermark(image, k)]
        /\ up = [version |-> up.version, events |-> up.events, watermarks |-> up.watermarks]
    BY <1>3
  <1>5. DOMAIN up.watermarks = D /\ \A k \in D : up.watermarks[k] = UpgradedWatermark(image, k)
    BY <1>4
  <1>6. /\ Cardinality(image.events) <= MaxOutboxEvents
        /\ Cardinality(D) <= MaxWatermarks
        /\ \A k \in D : ConsistentSession(up.watermarks[k], EventsOf(image, k))
    BY <1>2, <1>5, Zenon DEF Opens
  <1>7. \A k : EventsOf(up, k) = EventsOf(image, k)
    BY <1>4 DEF EventsOf
  <1>8. ASSUME NEW k \in D
        PROVE  /\ up.watermarks[k] \in Watermark
               /\ EventsOf(image, k) = {} =>
                    /\ k \in DOMAIN image.watermarks
                    /\ up.watermarks[k].highest = image.watermarks[k].highest
                    /\ up.watermarks[k].last = image.watermarks[k].last
    <2>1. \A e \in EventsOf(image, k) : validate_answer_event(e)
      BY <1>6, <1>8 DEF ConsistentSession
    <2> QED
      BY <1>1, <1>5, <1>8, <2>1, UpgradedMark
  <1>9. D \subseteq Keys /\ IsFiniteSet(D)
    <2>1. {e.key : e \in image.events} \subseteq Keys
      BY DEF IsImage, Event
    <2>2. PICK T : T = {e.key : e \in image.events}
      OBVIOUS
    <2>3. [e \in image.events |-> e.key] \in Surjection(image.events, T)
      BY <2>2 DEF Surjection
    <2>4. IsFiniteSet(T)
      BY <2>3, FS_Surjection DEF IsImage
    <2>5. IsFiniteSet(DOMAIN image.watermarks \cup T)
      BY <2>4, FS_Union DEF IsImage
    <2> QED
      BY <1>1, <2>1, <2>2, <2>5 DEF IsImage
  <1>10. IsImage(up)
    <2>1. up.watermarks \in [D -> Watermark]
      BY <1>4, <1>5, <1>8
    <2>2. image.events \subseteq Event /\ IsFiniteSet(image.events)
      BY DEF IsImage
    <2>3. up.version \in 1..CurrentVersion
      BY <1>4 DEF CurrentVersion
    <2> QED
      BY <1>4, <1>5, <1>9, <2>1, <2>2, <2>3, Zenon DEF IsImage
  <1>11. \A e \in up.events : e.key \in DOMAIN up.watermarks
    BY <1>1, <1>4, <1>5
  <1>12. ASSUME NEW k \in D
         PROVE  Session(up.watermarks[k], EventsOf(up, k))
    <2>1. EventsOf(up, k) \subseteq Event
      BY <1>10, EventsOfFacts
    <2> QED
      BY <1>6, <1>7, <1>8, <1>12, <2>1, SessionForm
  <1>13. Sound(up)
    BY <1>4, <1>5, <1>6, <1>10, <1>11, <1>12, Zenon DEF Sound
  <1> QED
    BY <1>2, <1>4, <1>5, <1>8, <1>13, Zenon

-----------------------------------------------------------------------------
(* What enqueue() and acknowledge() do to an image: they change one session. *)

\* An image is a record of three fields.
Whole(image) ==
    image = [version |-> image.version, events |-> image.events, watermarks |-> image.watermarks]

\* new is image with watermark w and waiting events P in session k.
Updated(image, new, k, w, P) ==
    /\ Whole(new)
    /\ new.version = image.version
    /\ EventsOf(new, k) = P
    /\ \A j : j # k => EventsOf(new, j) = EventsOf(image, j)
    /\ DOMAIN new.watermarks = DOMAIN image.watermarks \cup {k}
    /\ new.watermarks = [j \in DOMAIN new.watermarks |-> new.watermarks[j]]
    /\ new.watermarks[k] = w
    /\ \A j \in DOMAIN image.watermarks : j # k => new.watermarks[j] = image.watermarks[j]

\* An image with a session changed to another acceptable one is sound.
LEMMA UpdateSound ==
  ASSUME NEW image, Sound(image), NEW new, NEW k \in Keys, NEW w \in Watermark, NEW P,
         P \subseteq Event, Session(w, P), Updated(image, new, k, w, P),
         IsFiniteSet(new.events), Cardinality(new.events) <= MaxOutboxEvents,
         Cardinality(DOMAIN image.watermarks \cup {k}) <= MaxWatermarks
  PROVE  Sound(new)
  <1>1. /\ new = [version |-> new.version, events |-> new.events, watermarks |-> new.watermarks]
        /\ new.version = image.version
        /\ EventsOf(new, k) = P
        /\ \A j : j # k => EventsOf(new, j) = EventsOf(image, j)
        /\ DOMAIN new.watermarks = DOMAIN image.watermarks \cup {k}
        /\ new.watermarks = [j \in DOMAIN new.watermarks |-> new.watermarks[j]]
        /\ new.watermarks[k] = w
        /\ \A j \in DOMAIN image.watermarks : j # k => new.watermarks[j] = image.watermarks[j]
    BY DEF Updated, Whole
  <1>2. /\ image.version = CurrentVersion
        /\ image.version \in 1..CurrentVersion
        /\ image.events \subseteq Event
        /\ DOMAIN image.watermarks \subseteq Keys /\ IsFiniteSet(DOMAIN image.watermarks)
        /\ image.watermarks \in [DOMAIN image.watermarks -> Watermark]
        /\ \A e \in image.events : e.key \in DOMAIN image.watermarks
        /\ \A j \in DOMAIN image.watermarks : Session(image.watermarks[j], EventsOf(image, j))
    BY DEF Sound, IsImage
  <1>3. ASSUME NEW x \in new.events
        PROVE  x \in Event /\ x.key \in DOMAIN new.watermarks
    <2>1. x \in EventsOf(new, x.key)
      BY DEF EventsOf
    <2>2. CASE x.key = k
      BY <1>1, <2>1, <2>2
    <2>3. CASE x.key # k
      <3>1. x \in EventsOf(image, x.key)
        BY <1>1, <2>1, <2>3
      <3>2. x \in image.events
        BY <3>1 DEF EventsOf
      <3> QED
        BY <1>1, <1>2, <3>2
    <2> QED
      BY <2>2, <2>3
  <1>4. ASSUME NEW j \in DOMAIN new.watermarks
        PROVE  /\ new.watermarks[j] \in Watermark
               /\ Session(new.watermarks[j], EventsOf(new, j))
    <2>1. CASE j = k
      BY <1>1, <2>1
    <2>2. CASE j # k
      BY <1>1, <1>2, <1>4, <2>2
    <2> QED
      BY <2>1, <2>2
  <1>5. IsFiniteSet(DOMAIN image.watermarks \cup {k})
    BY <1>2, FS_AddElement
  <1>6. new.watermarks \in [DOMAIN new.watermarks -> Watermark]
    BY <1>1, <1>4
  <1>7. IsImage(new)
    BY <1>1, <1>2, <1>3, <1>5, <1>6 DEF IsImage
  <1> QED
    BY <1>1, <1>2, <1>3, <1>4, <1>7, Zenon DEF Sound

\* An image with other events and watermarks.
With(image, E, W) == [image EXCEPT !.events = E, !.watermarks = W]

\* It differs in them only.
LEMMA ImageWith ==
  ASSUME NEW image, IsImage(image), NEW E, NEW W
  PROVE  /\ With(image, E, W).events = E
         /\ With(image, E, W).watermarks = W
         /\ With(image, E, W).version = image.version
         /\ Whole(With(image, E, W))
  <1>1. image = [version |-> image.version, events |-> image.events,
                 watermarks |-> image.watermarks]
    BY DEF IsImage
  <1>2. PICK v, F, X : v = image.version /\ F = image.events /\ X = image.watermarks
    OBVIOUS
  <1>3. image \in [version : {v}, events : {F}, watermarks : {X}]
    BY <1>1, <1>2
  <1>4. PICK new : new = With(image, E, W)
    OBVIOUS
  <1>5. new \in [version : {v}, events : {E}, watermarks : {W}]
    BY <1>3, <1>4 DEF With
  <1>6. Whole(new) /\ new.version = v /\ new.events = E /\ new.watermarks = W
    BY <1>5 DEF Whole
  <1> QED
    BY <1>2, <1>4, <1>6, Zenon

\* A watermark with another boundary.
Acknowledged(w, n, h) == [w EXCEPT !.acknowledged_sequence = n, !.acknowledged_hash = h]

\* It differs in the boundary only.
LEMMA MarkAcknowledged ==
  ASSUME NEW w \in Watermark, NEW n \in Nat, NEW h \in Digest
  PROVE  /\ Acknowledged(w, n, h) \in Watermark
         /\ Acknowledged(w, n, h).acknowledged_sequence = n
         /\ Acknowledged(w, n, h).acknowledged_hash = h
         /\ Acknowledged(w, n, h).candidate = w.candidate
         /\ Acknowledged(w, n, h).highest = w.highest
         /\ Acknowledged(w, n, h).last = w.last
         /\ Acknowledged(w, n, h).finalized = w.finalized
  BY DEF Watermark, Acknowledged

\* A watermark whose chain has another beginning.
OtherChain(w, g, h) == [w EXCEPT !.acknowledged_hash = g, !.last = h]

\* It differs in the two hashes only.
LEMMA MarkOtherChain ==
  ASSUME NEW w \in Watermark, NEW g \in Digest, NEW h \in Digest
  PROVE  /\ OtherChain(w, g, h) \in Watermark
         /\ OtherChain(w, g, h).acknowledged_sequence = w.acknowledged_sequence
         /\ OtherChain(w, g, h).acknowledged_hash = g
         /\ OtherChain(w, g, h).candidate = w.candidate
         /\ OtherChain(w, g, h).highest = w.highest
         /\ OtherChain(w, g, h).last = h
         /\ OtherChain(w, g, h).finalized = w.finalized
  BY DEF Watermark, OtherChain

\* enqueue() of an event that extends its session.
LEMMA AddedSound ==
  ASSUME NEW image, Sound(image), NEW e \in Event, validate_answer_event(e),
         e.key \in DOMAIN image.watermarks => image.watermarks[e.key].candidate = e.candidate,
         FollowsWatermark(image, e),
         Cardinality(image.events) < MaxOutboxEvents, MaxOutboxEvents \in Nat,
         Cardinality(DOMAIN image.watermarks \cup {e.key}) <= MaxWatermarks
  PROVE  /\ Sound(Added(image, e))
         /\ Added(image, e).events = image.events \cup {e}
         /\ Added(image, e).watermarks = [j \in DOMAIN image.watermarks \cup {e.key} |->
                IF j = e.key THEN Added(image, e).watermarks[e.key] ELSE image.watermarks[j]]
  <1>1. PICK k : k = e.key
    OBVIOUS
  <1>2. PICK P : P = EventsOf(image, k)
    OBVIOUS
  <1>3. k \in Keys
    BY <1>1 DEF Event
  <1>4. /\ IsImage(image) /\ image.events \subseteq Event /\ IsFiniteSet(image.events)
        /\ \A x \in image.events : x.key \in DOMAIN image.watermarks
    BY DEF Sound, IsImage
  <1>5. P \subseteq Event
    BY <1>2, <1>4, EventsOfFacts
  <1>6. PICK a, h : /\ a = IF k \in DOMAIN image.watermarks
                           THEN image.watermarks[k].acknowledged_sequence ELSE 0
                    /\ h = IF k \in DOMAIN image.watermarks
                           THEN image.watermarks[k].acknowledged_hash ELSE ZeroDigest
    OBVIOUS
  <1>7. PICK w : w = NewMark(e, a, h)
    OBVIOUS
  <1>8. PICK D : D = DOMAIN image.watermarks \cup {k}
    OBVIOUS
  <1>9. PICK W : W = [j \in D |-> IF j = k THEN w ELSE image.watermarks[j]]
    OBVIOUS
  <1>10. PICK new : new = Added(image, e)
    OBVIOUS
  <1>11. new = With(image, image.events \cup {e}, W)
    BY <1>1, <1>6, <1>7, <1>8, <1>9, <1>10, Zenon DEF Added, NewMark, With
  <1>12. /\ new.events = image.events \cup {e} /\ new.watermarks = W
         /\ new.version = image.version
         /\ Whole(new)
    <2>1. IsImage(image)
      BY <1>4
    <2>2. /\ With(image, image.events \cup {e}, W).events = image.events \cup {e}
          /\ With(image, image.events \cup {e}, W).watermarks = W
          /\ With(image, image.events \cup {e}, W).version = image.version
          /\ Whole(With(image, image.events \cup {e}, W))
      BY <2>1, ImageWith
    <2> QED
      BY <1>11, <2>2, Zenon
  <1>13. /\ w \in Watermark
         /\ Session(w, P \cup {e})
    <2>1. CASE k \in DOMAIN image.watermarks
      <3>1. PICK m : m = image.watermarks[k]
        OBVIOUS
      <3>2. m \in Watermark /\ Session(m, P)
        BY <1>2, <2>1, <3>1 DEF Sound, IsImage
      <3>3. a = m.acknowledged_sequence /\ h = m.acknowledged_hash
        BY <1>6, <2>1, <3>1
      <3>4. a \in Nat /\ h \in Digest
        BY <3>2, <3>3, MarkFields
      <3>5. ~m.finalized /\ e.sequence = m.highest + 1 /\ e.previous = m.last
        BY <1>1, <2>1, <3>1 DEF FollowsWatermark
      <3>6. e.candidate = m.candidate
        BY <1>1, <2>1, <3>1
      <3>7. Session(NewMark(e, m.acknowledged_sequence, m.acknowledged_hash), P \cup {e})
        BY <1>5, <3>2, <3>5, <3>6, AddKeeps
      <3> QED
        BY <1>7, <3>3, <3>4, <3>7, NewMarkFacts
    <2>2. CASE k \notin DOMAIN image.watermarks
      <3>1. P = {}
        BY <1>2, <1>4, <2>2 DEF EventsOf
      <3>2. a = 0 /\ h = ZeroDigest
        BY <1>6, <2>2
      <3>3. a \in Nat /\ h \in Digest
        BY <3>2, EmptySeq DEF ZeroDigest, Digest
      <3>4. e.sequence = 1 /\ e.previous = ZeroDigest
        BY <1>1, <2>2 DEF FollowsWatermark
      <3>5. Session(NewMark(e, 0, ZeroDigest), {e})
        BY <3>4, FirstKeeps
      <3>6. P \cup {e} = {e}
        BY <3>1
      <3> QED
        BY <1>7, <3>2, <3>3, <3>5, <3>6, NewMarkFacts
    <2> QED
      BY <2>1, <2>2
  <1>14. Updated(image, new, k, w, P \cup {e})
    <2>1. EventsOf(new, k) = P \cup {e} /\ \A j : j # k => EventsOf(new, j) = EventsOf(image, j)
      BY <1>1, <1>2, <1>12 DEF EventsOf
    <2>2. /\ DOMAIN W = D /\ W = [j \in DOMAIN W |-> W[j]] /\ W[k] = w
          /\ \A j \in DOMAIN image.watermarks : j # k => W[j] = image.watermarks[j]
      BY <1>8, <1>9
    <2> QED
      BY <1>8, <1>12, <2>1, <2>2, Zenon DEF Updated
  <1>15. /\ IsFiniteSet(new.events)
         /\ Cardinality(new.events) \in Nat
         /\ Cardinality(new.events) <= Cardinality(image.events) + 1
         /\ Cardinality(image.events) \in Nat
    <2>1. IsFiniteSet(image.events \cup {e})
      BY <1>4, FS_AddElement
    <2>2. Cardinality(image.events \cup {e}) = IF e \in image.events THEN Cardinality(image.events)
                                              ELSE Cardinality(image.events) + 1
      BY <1>4, FS_AddElement
    <2>3. Cardinality(image.events) \in Nat /\ Cardinality(image.events \cup {e}) \in Nat
      BY <1>4, <2>1, FS_CardinalityType
    <2> QED
      BY <1>12, <2>1, <2>2, <2>3
  <1>16. Cardinality(new.events) <= MaxOutboxEvents
    BY <1>15
  <1>17. P \cup {e} \subseteq Event
    BY <1>5
  <1>18. Sound(new)
    BY <1>1, <1>3, <1>13, <1>14, <1>15, <1>16, <1>17, UpdateSound
  <1>19. W[k] = w
    BY <1>8, <1>9
  <1> QED
    BY <1>1, <1>8, <1>9, <1>10, <1>12, <1>18, <1>19, Zenon

\* The image acknowledge() leaves when the events of session k up to n are retired.
RetiredImage(image, k, n, hash) ==
    [image EXCEPT
        !.events = {e \in image.events : e.key # k \/ e.sequence > n},
        !.watermarks[k] = [@ EXCEPT !.acknowledged_sequence = n,
                                    !.acknowledged_hash = hash]]

\* acknowledge() of a waiting event.
LEMMA RetiredSound ==
  ASSUME NEW image, Sound(image), NEW k \in DOMAIN image.watermarks, NEW x \in EventsOf(image, k),
         NEW n, n = x.sequence, NEW hash, hash = hash_answer_event(x)
  PROVE  /\ Sound(RetiredImage(image, k, n, hash))
         /\ RetiredImage(image, k, n, hash).events
              = {e \in image.events : e.key # k \/ e.sequence > n}
         /\ DOMAIN RetiredImage(image, k, n, hash).watermarks = DOMAIN image.watermarks
         /\ RetiredImage(image, k, n, hash).watermarks[k].highest = image.watermarks[k].highest
         /\ RetiredImage(image, k, n, hash).watermarks[k].last = image.watermarks[k].last
         /\ \A j \in DOMAIN image.watermarks :
               j # k => RetiredImage(image, k, n, hash).watermarks[j] = image.watermarks[j]
  <1>1. PICK w : w = image.watermarks[k]
    OBVIOUS
  <1>2. PICK P : P = EventsOf(image, k)
    OBVIOUS
  <1>3. /\ IsImage(image) /\ image.events \subseteq Event /\ IsFiniteSet(image.events)
        /\ w \in Watermark /\ Session(w, P) /\ k \in Keys
        /\ Cardinality(image.events) <= MaxOutboxEvents
        /\ Cardinality(DOMAIN image.watermarks) <= MaxWatermarks
    BY <1>1, <1>2 DEF Sound, IsImage
  <1>4. P \subseteq Event /\ x \in P /\ x \in Event
    BY <1>2, <1>3, EventsOfFacts
  <1>5. x.sequence \in Nat /\ hash_answer_event(x) \in Digest
    BY <1>4, HashFacts DEF Event, Digest
  <1>6. PICK v : v = Acknowledged(w, n, hash)
    OBVIOUS
  <1>7. /\ v \in Watermark /\ v.acknowledged_sequence = x.sequence
        /\ v.acknowledged_hash = hash_answer_event(x)
        /\ v.candidate = w.candidate /\ v.highest = w.highest /\ v.last = w.last
        /\ v.finalized = w.finalized
    BY <1>3, <1>5, <1>6, MarkAcknowledged, Zenon
  <1>8. PICK Q : Q = {y \in P : y.sequence > x.sequence}
    OBVIOUS
  <1>9. Session(v, Q) /\ Q \subseteq Event
    BY <1>3, <1>4, <1>7, <1>8, RetireKeeps
  <1>10. PICK E : E = {e \in image.events : e.key # k \/ e.sequence > n}
    OBVIOUS
  <1>11. PICK W : W = [image.watermarks EXCEPT ![k] = v]
    OBVIOUS
  <1>12. PICK new : new = With(image, E, W)
    OBVIOUS
  <1>13. /\ new.events = E /\ new.watermarks = W /\ new.version = image.version
         /\ Whole(new)
    <2>1. IsImage(image)
      BY <1>3
    <2>2. /\ With(image, E, W).events = E
          /\ With(image, E, W).watermarks = W
          /\ With(image, E, W).version = image.version
          /\ Whole(With(image, E, W))
      BY <2>1, ImageWith
    <2> QED
      BY <1>12, <2>2, Zenon
  <1>14. /\ DOMAIN W = DOMAIN image.watermarks /\ W = [j \in DOMAIN W |-> W[j]] /\ W[k] = v
         /\ \A j \in DOMAIN image.watermarks : j # k => W[j] = image.watermarks[j]
    BY <1>11
  <1>15. Updated(image, new, k, v, Q)
    <2>1. EventsOf(new, k) = Q /\ \A j : j # k => EventsOf(new, j) = EventsOf(image, j)
      BY <1>2, <1>8, <1>10, <1>13 DEF EventsOf
    <2>2. DOMAIN image.watermarks \cup {k} = DOMAIN image.watermarks
      OBVIOUS
    <2> QED
      BY <1>13, <1>14, <2>1, <2>2, Zenon DEF Updated
  <1>16. IsFiniteSet(E) /\ Cardinality(E) <= Cardinality(image.events)
    BY <1>3, <1>10, FS_Subset
  <1>17. Cardinality(E) \in Nat /\ Cardinality(image.events) \in Nat
    BY <1>3, <1>16, FS_CardinalityType
  <1>18. Cardinality(new.events) <= MaxOutboxEvents
    BY <1>3, <1>13, <1>16, <1>17, AnswerOutboxAssumption
  <1>19. DOMAIN image.watermarks \cup {k} = DOMAIN image.watermarks
    OBVIOUS
  <1>20. Sound(new)
    BY <1>3, <1>7, <1>9, <1>13, <1>15, <1>16, <1>18, <1>19, UpdateSound
  <1>21. new = RetiredImage(image, k, n, hash)
    BY <1>1, <1>6, <1>10, <1>11, <1>12, Zenon DEF RetiredImage, With, Acknowledged
  <1> QED
    BY <1>1, <1>7, <1>10, <1>13, <1>14, <1>20, <1>21, Zenon

\* The two events are one answer, whatever their predecessors.
SameBody(x, y) ==
    /\ x.key = y.key /\ x.candidate = y.candidate /\ x.sequence = y.sequence
    /\ x.kind = y.kind /\ x.question = y.question /\ x.answer = y.answer

\* same_event_body_except_predecessor() compares everything but the predecessor.
LEMMA SameBodyForm ==
  ASSUME NEW x \in Event, NEW y \in Event
  PROVE  same_event_body_except_predecessor(x, y) <=> SameBody(x, y)
  <1>1. PICK z \in Event : z = [x EXCEPT !.previous = y.previous]
    BY DEF Event
  <1>2. /\ z.previous = y.previous
        /\ z.key = x.key /\ z.candidate = x.candidate /\ z.sequence = x.sequence
        /\ z.kind = x.kind /\ z.question = x.question /\ z.answer = x.answer
    BY <1>1 DEF Event
  <1>3. z = y <=> SameBody(x, y)
    <2>1. z = y => SameBody(x, y)
      BY <1>2 DEF SameBody
    <2>2. SameBody(x, y) => z = y
      BY <1>2 DEF SameBody, Event
    <2> QED
      BY <2>1, <2>2
  <1>4. same_event_body_except_predecessor(x, y) <=> z = y
    BY <1>1, Zenon DEF same_event_body_except_predecessor
  <1> QED
    BY <1>3, <1>4, Zenon

\* What became of image: new is sound, and the events of the sessions other than k
\* are as they were.
Beside(image, new, k) ==
    /\ Sound(new)
    /\ \A j \in DOMAIN new.watermarks : j # k =>
          /\ j \in DOMAIN image.watermarks
          /\ new.watermarks[j] = image.watermarks[j]
          /\ EventsOf(new, j) = EventsOf(image, j)

\* enqueue() of the first waiting event with another predecessor.
LEMMA RebasedSound ==
  ASSUME NEW image, Sound(image), NEW e \in Event, e.key \in DOMAIN image.watermarks,
         HasEvent(image, e.key, e.sequence),
         e.sequence = image.watermarks[e.key].acknowledged_sequence + 1,
         e.sequence = 1 <=> e.previous = ZeroDigest
  PROVE  /\ Beside(image, Rebased(image, e).image, e.key)
         /\ EventsOf(Rebased(image, e).image, e.key) # {}
         /\ \A x \in image.events : \E y \in Rebased(image, e).image.events : SameBody(y, x)
  <1>1. PICK k : k = e.key
    OBVIOUS
  <1>2. PICK w : w = image.watermarks[k]
    OBVIOUS
  <1>3. PICK P : P = EventsOf(image, k)
    OBVIOUS
  <1>4. /\ IsImage(image) /\ image.events \subseteq Event /\ IsFiniteSet(image.events)
        /\ w \in Watermark /\ Session(w, P) /\ k \in Keys /\ k \in DOMAIN image.watermarks
        /\ Cardinality(image.events) <= MaxOutboxEvents
        /\ Cardinality(DOMAIN image.watermarks) <= MaxWatermarks
    BY <1>1, <1>2, <1>3 DEF Sound, IsImage
  <1>5. P \subseteq Event /\ P # {} /\ e.sequence = w.acknowledged_sequence + 1
    <2>1. P \subseteq Event
      BY <1>3, <1>4, EventsOfFacts
    <2>2. P # {}
      BY <1>1, <1>3 DEF HasEvent
    <2> QED
      BY <1>1, <1>2, <2>1, <2>2
  <1>6. PICK z : z = EventWith(P, w.highest)
    OBVIOUS
  <1>7. PICK h : h = hash_answer_event(Rechained(P, e, z))
    OBVIOUS
  <1>8. h \in Digest /\ e.previous \in Digest
    <2>1. w.highest \in Nat /\ w.acknowledged_sequence \in Nat /\ \A x \in P : x.sequence \in Nat
      BY <1>4, <1>5, MarkFields DEF Event
    <2>2. w.highest \in (w.acknowledged_sequence + 1)..w.highest
      BY <1>4, <1>5, <2>1 DEF Session, EventsOK
    <2>3. \E x \in P : x.sequence = w.highest
      BY <1>4, <2>2 DEF Session
    <2>4. z \in P
      BY <1>6, <2>3, Zenon DEF EventWith
    <2>5. Rechained(P, e, z) \in Event
      BY <1>4, <1>5, <2>4, RechainedSame
    <2> QED
      BY <1>7, <2>5, HashFacts DEF Digest
  <1>9. PICK v : v = OtherChain(w, e.previous, h)
    OBVIOUS
  <1>10. /\ v \in Watermark /\ v.acknowledged_sequence = w.acknowledged_sequence
         /\ v.acknowledged_hash = e.previous
         /\ v.candidate = w.candidate /\ v.highest = w.highest
         /\ v.last = h /\ v.finalized = w.finalized
    BY <1>4, <1>8, <1>9, MarkOtherChain, Zenon
  <1>11. PICK Q : Q = RechainedEvents(P, e)
    OBVIOUS
  <1>12. v.last = hash_answer_event(Rechained(P, e, EventWith(P, w.highest)))
    BY <1>6, <1>7, <1>10, Zenon
  <1>13. Session(v, Q)
    BY <1>4, <1>5, <1>10, <1>11, <1>12, RebaseKeeps
  <1>14. \A x \in P : Rechained(P, e, x) \in Event /\ SameBody(Rechained(P, e, x), x)
    <2> TAKE x \in P
    <2> QED
      BY <1>4, <1>5, RechainedSame DEF SameBody
  <1>15. Q \subseteq Event /\ Q # {}
    BY <1>5, <1>11, <1>14, Zenon DEF RechainedEvents
  <1> DEFINE Moved(x) == IF x.key = k THEN Rechained(P, e, x) ELSE x
  <1>16. \A x \in image.events : SameBody(Moved(x), x)
    <2> TAKE x \in image.events
    <2>1. CASE x.key = k
      <3>1. x \in P
        BY <1>3, <2>1 DEF EventsOf
      <3> QED
        BY <1>14, <2>1, <3>1, Zenon
    <2>2. CASE x.key # k
      BY <2>2, Zenon DEF SameBody
    <2> QED
      BY <2>1, <2>2
  <1>17. PICK E : E = {Moved(x) : x \in image.events}
    OBVIOUS
  <1>18. PICK W : W = [image.watermarks EXCEPT ![k] = v]
    OBVIOUS
  <1>19. PICK new : new = With(image, E, W)
    OBVIOUS
  <1>20. new = Rebased(image, e).image
    <2>1. \A i : Result(TRUE, i).image = i
      BY DEF Result
    <2>2. E = {IF x.key = e.key THEN Rechained(EventsOf(image, e.key), e, x) ELSE x :
                  x \in image.events}
      BY <1>1, <1>3, <1>17
    <2>3. Rebased(image, e) = Result(TRUE, With(image, E, W))
      BY <1>1, <1>2, <1>3, <1>6, <1>7, <1>9, <1>18, <2>2, Zenon
         DEF Rebased, With, OtherChain
    <2> QED
      BY <1>19, <2>1, <2>3, Zenon
  <1>21. new.events = E /\ new.watermarks = W /\ new.version = image.version /\ Whole(new)
    <2>1. /\ With(image, E, W).events = E
          /\ With(image, E, W).watermarks = W
          /\ With(image, E, W).version = image.version
          /\ Whole(With(image, E, W))
      BY <1>4, ImageWith
    <2> QED
      BY <1>19, <2>1, Zenon
  <1>22. /\ DOMAIN W = DOMAIN image.watermarks /\ W = [j \in DOMAIN W |-> W[j]] /\ W[k] = v
         /\ \A j \in DOMAIN image.watermarks : j # k => W[j] = image.watermarks[j]
    BY <1>4, <1>18
  <1>23. /\ \A q \in E : \E x \in image.events : q = Moved(x)
         /\ \A x \in image.events : Moved(x) \in E
    BY <1>17, Zenon
  <1>24. EventsOf(new, k) = Q
    <2>1. ASSUME NEW q \in EventsOf(new, k) PROVE q \in Q
      <3>1. q \in E /\ q.key = k
        BY <1>21, <2>1 DEF EventsOf
      <3>2. PICK x \in image.events : q = Moved(x)
        BY <1>23, <3>1
      <3>3. x.key = k
        BY <1>16, <3>1, <3>2, Zenon DEF SameBody
      <3>4. x \in P /\ q = Rechained(P, e, x)
        BY <1>3, <3>2, <3>3, Zenon DEF EventsOf
      <3> QED
        BY <1>11, <3>4, Zenon DEF RechainedEvents
    <2>2. ASSUME NEW q \in Q PROVE q \in EventsOf(new, k)
      <3>1. PICK x \in P : q = Rechained(P, e, x)
        BY <1>11, <2>2, Zenon DEF RechainedEvents
      <3>2. x \in image.events /\ x.key = k
        BY <1>3 DEF EventsOf
      <3>3. q = Moved(x)
        BY <3>1, <3>2
      <3>4. q \in E /\ q.key = k
        BY <1>16, <1>23, <3>2, <3>3, Zenon DEF SameBody
      <3> QED
        BY <1>21, <3>4, Zenon DEF EventsOf
    <2> QED
      BY <2>1, <2>2
  <1>25. \A j : j # k => EventsOf(new, j) = EventsOf(image, j)
    <2> TAKE j
    <2> HAVE j # k
    <2>1. ASSUME NEW q \in EventsOf(new, j) PROVE q \in EventsOf(image, j)
      <3>1. q \in E /\ q.key = j
        BY <1>21, <2>1 DEF EventsOf
      <3>2. PICK x \in image.events : q = Moved(x)
        BY <1>23, <3>1
      <3>3. x.key = j
        BY <1>16, <3>1, <3>2, Zenon DEF SameBody
      <3>4. q = x
        BY <3>2, <3>3
      <3> QED
        BY <3>3, <3>4 DEF EventsOf
    <2>2. ASSUME NEW q \in EventsOf(image, j) PROVE q \in EventsOf(new, j)
      <3>1. q \in image.events /\ q.key = j
        BY <2>2 DEF EventsOf
      <3>2. Moved(q) = q /\ Moved(q) \in E
        BY <1>23, <3>1
      <3> QED
        BY <1>21, <3>1, <3>2, Zenon DEF EventsOf
    <2> QED
      BY <2>1, <2>2
  <1>26. DOMAIN image.watermarks \cup {k} = DOMAIN image.watermarks
    BY <1>4
  <1>27. Updated(image, new, k, v, Q)
    BY <1>21, <1>22, <1>24, <1>25, <1>26, Zenon DEF Updated
  <1>28. IsFiniteSet(E) /\ Cardinality(E) <= Cardinality(image.events)
    <2>1. [x \in image.events |-> Moved(x)] \in Surjection(image.events, E)
      <3> HIDE DEF Moved
      <3> QED
        BY <1>23 DEF Surjection
    <2> QED
      BY <1>4, <2>1, FS_Surjection
  <1>29. Cardinality(E) \in Nat /\ Cardinality(image.events) \in Nat
    BY <1>4, <1>28, FS_CardinalityType
  <1>30. Cardinality(new.events) <= MaxOutboxEvents
    BY <1>4, <1>21, <1>28, <1>29, AnswerOutboxAssumption
  <1>31. Sound(new)
    BY <1>4, <1>10, <1>13, <1>15, <1>21, <1>26, <1>27, <1>28, <1>30, UpdateSound
  <1>32. Beside(image, new, k)
    BY <1>21, <1>22, <1>25, <1>31, Zenon DEF Beside
  <1>33. \A x \in image.events : \E y \in new.events : SameBody(y, x)
    BY <1>16, <1>21, <1>23, Zenon
  <1> HIDE DEF Moved
  <1>34. EventsOf(new, k) # {}
    BY <1>15, <1>24
  <1> QED
    BY <1>1, <1>20, <1>32, <1>33, <1>34, Zenon

-----------------------------------------------------------------------------
(* The outbox and the server's journal. *)

\* What the server has of each session is one chain.
Server(hashes) ==
    hashes \in [Keys -> Seq(Digest)] /\ \A k \in Keys : IsChain(hashes[k], k)

\* The server has the last event of every session that has none waiting.
Delivered(image, hashes) ==
    \A k \in DOMAIN image.watermarks : GoneIsJournaled(image, hashes[k], k)

\* The server has the answer e, whatever its predecessor.
Reached(hashes, e) ==
    /\ e.sequence <= Len(hashes[e.key])
    /\ LET d == hashes[e.key][e.sequence] IN d[Len(d)] = Content(e)

\* Every answer of A is waiting or has reached the server.
Kept(image, hashes, A) ==
    \A a \in A : (\E x \in image.events : SameBody(x, a)) \/ Reached(hashes, a)

\* It is enough to look at the session that changed.
LEMMA BesideDelivered ==
  ASSUME NEW image, NEW new, NEW k, NEW hashes, Beside(image, new, k), Delivered(image, hashes),
         k \in DOMAIN new.watermarks => GoneIsJournaled(new, hashes[k], k)
  PROVE  Delivered(new, hashes)
  <1> SUFFICES ASSUME NEW j \in DOMAIN new.watermarks
               PROVE  GoneIsJournaled(new, hashes[j], j)
    BY DEF Delivered
  <1>1. CASE j = k
    BY <1>1
  <1>2. CASE j # k
    <2>1. /\ j \in DOMAIN image.watermarks
          /\ new.watermarks[j] = image.watermarks[j]
          /\ EventsOf(new, j) = EventsOf(image, j)
      BY <1>2 DEF Beside
    <2>2. GoneIsJournaled(image, hashes[j], j)
      BY <2>1 DEF Delivered
    <2> QED
      BY <2>1, <2>2, Zenon DEF GoneIsJournaled
  <1> QED
    BY <1>1, <1>2

\* Answers stay where they are while every event stays, as an answer.
LEMMA KeptStays ==
  ASSUME NEW image, NEW new, NEW hashes, NEW A, Kept(image, hashes, A),
         \A x \in image.events : \E y \in new.events : SameBody(y, x)
  PROVE  Kept(new, hashes, A)
  <1> SUFFICES ASSUME NEW a \in A, NEW x \in image.events, SameBody(x, a)
               PROVE  \E y \in new.events : SameBody(y, a)
    BY Zenon DEF Kept
  <1>1. PICK y \in new.events : SameBody(y, x)
    OBVIOUS
  <1>2. SameBody(y, a)
    BY <1>1, Zenon DEF SameBody
  <1> QED
    BY <1>2

\* enqueue() of the last event of a session again, when it is gone already.
LEMMA RetryReached ==
  ASSUME NEW image, Sound(image), NEW hashes, Server(hashes), Delivered(image, hashes),
         NEW e \in Event, RetryOfLast(image, e), ~HasEvent(image, e.key, e.sequence)
  PROVE  Reached(hashes, e)
  <1>1. PICK k : k = e.key
    OBVIOUS
  <1>2. PICK w : w = image.watermarks[k]
    OBVIOUS
  <1>3. PICK P : P = EventsOf(image, k)
    OBVIOUS
  <1>4. k \in DOMAIN image.watermarks /\ e.sequence = w.highest /\ hash_answer_event(e) = w.last
    BY <1>1, <1>2, Zenon DEF RetryOfLast
  <1>5. IsImage(image) /\ w \in Watermark /\ Session(w, P)
    BY <1>2, <1>3, <1>4 DEF Sound, IsImage
  <1>6. P \subseteq Event
    BY <1>3, <1>5, EventsOfFacts
  <1>7. P = {}
    <2>1. ASSUME NEW x \in P PROVE FALSE
      <3>1. w.highest \in Nat /\ w.acknowledged_sequence \in Nat /\ x.sequence \in Nat
        BY <1>5, <1>6, MarkFields DEF Event
      <3>2. w.highest \in (w.acknowledged_sequence + 1)..w.highest
        BY <1>5, <3>1 DEF Session, EventsOK
      <3>3. PICK y \in P : y.sequence = w.highest
        BY <1>5, <3>2 DEF Session
      <3> QED
        BY <1>1, <1>3, <1>4, <3>3, Zenon DEF HasEvent
    <2> QED
      BY <2>1
  <1>8. w.highest <= Len(hashes[k]) /\ hashes[k][w.highest] = w.last
    BY <1>2, <1>3, <1>4, <1>7, Zenon DEF Delivered, GoneIsJournaled
  <1>9. e.sequence <= Len(hashes[k]) /\ hashes[k][e.sequence] = hash_answer_event(e)
    BY <1>4, <1>8, Zenon
  <1> QED
    BY <1>1, <1>9, Zenon DEF Reached, Content

\* enqueue(): what it answers TRUE for is waiting or with the server, and nothing
\* that was is lost.
LEMMA EnqueueSafe ==
  ASSUME NEW image, Sound(image), NEW hashes, Server(hashes), Delivered(image, hashes),
         NEW A, Kept(image, hashes, A), NEW e \in Event
  PROVE  /\ Sound(enqueue(image, e).image)
         /\ Delivered(enqueue(image, e).image, hashes)
         /\ Kept(enqueue(image, e).image, hashes, A)
         /\ enqueue(image, e).ok => Kept(enqueue(image, e).image, hashes, {e})
  <1> DEFINE Goal(r) == /\ Sound(r.image) /\ Delivered(r.image, hashes)
                        /\ Kept(r.image, hashes, A)
                        /\ r.ok => Kept(r.image, hashes, {e})
  <1>1. \A b, i : Result(b, i).ok = b /\ Result(b, i).image = i
    BY DEF Result
  <1>2. Goal(Result(FALSE, image))
    <2>1. Result(FALSE, image).ok = FALSE /\ Result(FALSE, image).image = image
      BY <1>1, Zenon
    <2> QED
      BY <2>1, Zenon
  <1>3. Kept(image, hashes, {e}) => Goal(Result(TRUE, image))
    <2>1. Result(TRUE, image).image = image
      BY <1>1, Zenon
    <2> QED
      BY <2>1, Zenon
  <1>4. image.events \subseteq Event /\ \A x \in image.events : x.key \in DOMAIN image.watermarks
    BY DEF Sound, IsImage
  <1>5. ASSUME validate_answer_event(e), HasEvent(image, e.key, e.sequence)
        PROVE  Goal(EnqueueAgain(image, e))
    <2>1. PICK x : x = EventAt(image, e.key, e.sequence)
      OBVIOUS
    <2>2. x \in EventsOf(image, e.key)
      BY <1>5, <2>1, Zenon DEF HasEvent, EventAt, EventWith
    <2>3. x \in image.events /\ x \in Event /\ e.key \in DOMAIN image.watermarks
      BY <1>4, <2>2 DEF EventsOf
    <2>4. CASE x = e
      <3>1. EnqueueAgain(image, e) = Result(TRUE, image)
        BY <2>1, <2>4, Zenon DEF EnqueueAgain
      <3>2. Kept(image, hashes, {e})
        BY <2>3, <2>4, Zenon DEF Kept, SameBody
      <3> QED
        BY <1>3, <3>1, <3>2, Zenon
    <2>5. CASE /\ x # e
               /\ same_event_body_except_predecessor(x, e)
               /\ ~image.watermarks[e.key].finalized
               /\ e.sequence = image.watermarks[e.key].acknowledged_sequence + 1
               /\ e.sequence = 1 <=> e.previous = ZeroDigest
      <3>1. EnqueueAgain(image, e) = Rebased(image, e)
        BY <2>1, <2>5, Zenon DEF EnqueueAgain
      <3>2. PICK new : new = Rebased(image, e).image
        OBVIOUS
      <3>3. /\ Beside(image, new, e.key)
            /\ EventsOf(new, e.key) # {}
            /\ \A y \in image.events : \E z \in new.events : SameBody(z, y)
        BY <1>5, <2>3, <2>5, <3>2, RebasedSound
      <3>4. GoneIsJournaled(new, hashes[e.key], e.key)
        BY <3>3 DEF GoneIsJournaled
      <3>5. Delivered(new, hashes)
        BY <3>3, <3>4, BesideDelivered
      <3>6. Kept(new, hashes, A)
        BY <3>3, KeptStays
      <3>7. SameBody(x, e)
        BY <2>3, <2>5, SameBodyForm
      <3>8. Kept(image, hashes, {e})
        BY <2>3, <3>7, Zenon DEF Kept
      <3>9. Kept(new, hashes, {e})
        BY <3>3, <3>8, KeptStays
      <3> QED
        BY <3>1, <3>2, <3>3, <3>5, <3>6, <3>9, Zenon DEF Beside
    <2>6. CASE /\ x # e
               /\ ~(/\ same_event_body_except_predecessor(x, e)
                    /\ ~image.watermarks[e.key].finalized
                    /\ e.sequence = image.watermarks[e.key].acknowledged_sequence + 1
                    /\ e.sequence = 1 <=> e.previous = ZeroDigest)
      <3>1. EnqueueAgain(image, e) = Result(FALSE, image)
        BY <2>1, <2>6, Zenon DEF EnqueueAgain
      <3> QED
        BY <1>2, <3>1, Zenon
    <2> QED
      BY <2>4, <2>5, <2>6, Zenon
  <1>6. ASSUME validate_answer_event(e),
               e.key \in DOMAIN image.watermarks => image.watermarks[e.key].candidate = e.candidate,
               FollowsWatermark(image, e), Cardinality(image.events) < MaxOutboxEvents,
               Cardinality(DOMAIN image.watermarks \cup {e.key}) <= MaxWatermarks
        PROVE  Goal(Result(TRUE, Added(image, e)))
    <2>1. PICK new : new = Added(image, e)
      OBVIOUS
    <2>2. /\ Sound(new) /\ new.events = image.events \cup {e}
          /\ new.watermarks = [j \in DOMAIN image.watermarks \cup {e.key} |->
                IF j = e.key THEN new.watermarks[e.key] ELSE image.watermarks[j]]
      BY <1>6, <2>1, AddedSound, AnswerOutboxAssumption
    <2>3. \A j \in DOMAIN new.watermarks : j # e.key =>
              j \in DOMAIN image.watermarks /\ new.watermarks[j] = image.watermarks[j]
      <3>1. PICK V : V = new.watermarks
        OBVIOUS
      <3>2. V = [j \in DOMAIN image.watermarks \cup {e.key} |->
                   IF j = e.key THEN V[e.key] ELSE image.watermarks[j]]
        BY <2>2, <3>1, Zenon
      <3>3. \A j \in DOMAIN V : j # e.key =>
              j \in DOMAIN image.watermarks /\ V[j] = image.watermarks[j]
        BY <3>2
      <3> QED
        BY <3>1, <3>3, Zenon
    <2>4. /\ \A j : j # e.key => EventsOf(new, j) = EventsOf(image, j)
          /\ e \in EventsOf(new, e.key)
      BY <2>2 DEF EventsOf
    <2>5. Beside(image, new, e.key)
      BY <2>2, <2>3, <2>4, Zenon DEF Beside
    <2>6. GoneIsJournaled(new, hashes[e.key], e.key)
      BY <2>4 DEF GoneIsJournaled
    <2>7. Delivered(new, hashes)
      BY <2>5, <2>6, BesideDelivered
    <2>8. \A x \in image.events : \E y \in new.events : SameBody(y, x)
      BY <2>2 DEF SameBody
    <2>9. Kept(new, hashes, A)
      BY <2>8, KeptStays
    <2>10. Kept(new, hashes, {e})
      BY <2>2 DEF Kept, SameBody
    <2>11. Result(TRUE, new).image = new
      BY <1>1, Zenon
    <2> QED
      BY <2>1, <2>2, <2>7, <2>9, <2>10, <2>11, Zenon
  <1>7. ASSUME RetryOfLast(image, e), ~HasEvent(image, e.key, e.sequence)
        PROVE  Goal(Result(TRUE, image))
    <2>1. Reached(hashes, e)
      BY <1>7, RetryReached
    <2> QED
      BY <1>3, <2>1, Zenon DEF Kept
  <1> HIDE DEF Goal
  <1>8. Goal(enqueue(image, e))
    <2>1. CASE ~validate_answer_event(e)
      BY <1>2, <2>1, Zenon DEF enqueue
    <2>2. CASE validate_answer_event(e) /\ HasEvent(image, e.key, e.sequence)
      <3>1. enqueue(image, e) = EnqueueAgain(image, e)
        BY <2>2, Zenon DEF enqueue
      <3> QED
        BY <1>5, <2>2, <3>1, Zenon
    <2>3. CASE validate_answer_event(e) /\ ~HasEvent(image, e.key, e.sequence)
      <3>1. CASE e.key \in DOMAIN image.watermarks /\ image.watermarks[e.key].candidate # e.candidate
        BY <1>2, <2>3, <3>1, Zenon DEF enqueue
      <3>2. CASE /\ ~(/\ e.key \in DOMAIN image.watermarks
                      /\ image.watermarks[e.key].candidate # e.candidate)
                 /\ RetryOfLast(image, e)
        BY <1>7, <2>3, <3>2, Zenon DEF enqueue
      <3>3. CASE /\ ~(/\ e.key \in DOMAIN image.watermarks
                      /\ image.watermarks[e.key].candidate # e.candidate)
                 /\ ~RetryOfLast(image, e)
        <4>1. CASE /\ FollowsWatermark(image, e)
                   /\ Cardinality(image.events) < MaxOutboxEvents
                   /\ Cardinality(DOMAIN image.watermarks \cup {e.key}) <= MaxWatermarks
          <5>1. enqueue(image, e) = Result(TRUE, Added(image, e))
            BY <2>3, <3>3, <4>1, Zenon DEF enqueue
          <5> QED
            BY <1>6, <2>3, <3>3, <4>1, <5>1, Zenon
        <4>2. CASE ~(/\ FollowsWatermark(image, e)
                     /\ Cardinality(image.events) < MaxOutboxEvents
                     /\ Cardinality(DOMAIN image.watermarks \cup {e.key}) <= MaxWatermarks)
          <5>1. enqueue(image, e) = Result(FALSE, image)
            BY <2>3, <3>3, <4>2, Zenon DEF enqueue
          <5> QED
            BY <1>2, <5>1, Zenon
        <4> QED
          BY <4>1, <4>2
      <3> QED
        BY <3>1, <3>2, <3>3, Zenon
    <2> QED
      BY <2>1, <2>2, <2>3, Zenon
  <1> QED
    BY <1>8 DEF Goal

\* A hash of a chain is a hash of each of its parts.
LEMMA ChainFacts ==
  ASSUME NEW k, NEW h \in Seq(Digest), IsChain(h, k), NEW n \in 1..Len(h)
  PROVE  /\ h[n] \in Seq(Body) /\ Len(h[n]) = n
         /\ \A i \in 1..n : h[n][i] = h[i][i]
         /\ h[n][n].key = k
  <1>1. Len(h) \in Nat /\ n \in Nat
    BY LenProperties
  <1>2. h[n] \in Digest
    BY ElementOfSeq
  <1>3. h[n] = [m \in 1..n |-> h[m][m]] /\ h[n][n].key = k
    BY DEF IsChain
  <1>4. PICK g \in Seq(Body) : g = h[n]
    BY <1>2 DEF Digest
  <1>5. DOMAIN g = 1..n /\ \A i \in 1..n : g[i] = h[i][i]
    BY <1>3, <1>4
  <1>6. DOMAIN g = 1..Len(g) /\ Len(g) \in Nat
    BY <1>4, LenProperties
  <1>7. Len(g) = n
    BY <1>1, <1>5, <1>6
  <1> QED
    BY <1>3, <1>4, <1>5, <1>7, Zenon

\* When the server has an event of the client's chain it has the one before.
LEMMA PredecessorReached ==
  ASSUME NEW k, NEW h \in Seq(Digest), IsChain(h, k), NEW y \in Event, NEW x \in Event,
         x.sequence = y.sequence + 1, x.previous = hash_answer_event(y), y.sequence # 0,
         x.sequence <= Len(h), hash_answer_event(x) = h[x.sequence]
  PROVE  hash_answer_event(y) = h[y.sequence]
  <1>1. PICK m \in Nat, n \in Nat : m = y.sequence /\ n = x.sequence
    BY DEF Event
  <1>2. n = m + 1 /\ m \in 1..Len(h) /\ n \in 1..Len(h)
    <2>1. Len(h) \in Nat
      BY LenProperties
    <2> QED
      BY <1>1, <2>1
  <1>3. /\ h[n] \in Seq(Body) /\ Len(h[n]) = n
        /\ \A i \in 1..n : h[n][i] = h[i][i]
    BY <1>2, ChainFacts
  <1>4. /\ h[m] \in Seq(Body) /\ Len(h[m]) = m
        /\ \A i \in 1..m : h[m][i] = h[i][i]
    BY <1>2, ChainFacts
  <1>5. PICK p \in Seq(Body) : p = x.previous /\ p = hash_answer_event(y)
    BY HashFacts
  <1>6. PICK q \in Seq(Body) : q = hash_answer_event(x) /\ q = h[n]
    BY <1>1, <1>3
  <1>7. Len(q) = Len(p) + 1 /\ \A i \in 1..Len(p) : q[i] = p[i]
    BY <1>5, <1>6, HashFacts
  <1>8. Len(p) \in Nat
    BY <1>5, LenProperties
  <1>9. Len(p) = m
    BY <1>2, <1>3, <1>6, <1>7, <1>8
  <1>10. PICK g \in Seq(Body) : g = h[m]
    BY <1>4
  <1>11. \A i \in 1..m : p[i] = g[i]
    <2> TAKE i \in 1..m
    <2>1. i \in 1..n
      BY <1>2
    <2>2. q[i] = h[i][i] /\ g[i] = h[i][i]
      BY <1>3, <1>4, <1>6, <1>10, <2>1, Zenon
    <2>3. q[i] = p[i]
      BY <1>7, <1>9, Zenon
    <2> QED
      BY <2>2, <2>3, Zenon
  <1>12. Len(g) = Len(p)
    BY <1>4, <1>9, <1>10
  <1>13. p = g
    BY <1>5, <1>9, <1>10, <1>11, <1>12, SeqEqual
  <1> QED
    BY <1>1, <1>5, <1>10, <1>13, Zenon

\* When the server has an event of a session it has all those before it.
LEMMA EarlierReached ==
  ASSUME NEW k, NEW h \in Seq(Digest), IsChain(h, k), NEW w \in Watermark, NEW P,
         P \subseteq Event, Session(w, P), NEW x \in P, x.sequence <= Len(h),
         hash_answer_event(x) = h[x.sequence]
  PROVE  \A y \in P : y.sequence <= x.sequence => hash_answer_event(y) = h[y.sequence]
  <1>1. /\ w.highest \in Nat /\ w.acknowledged_sequence \in Nat
        /\ x.sequence \in Nat /\ \A y \in P : y.sequence \in Nat
        /\ Len(h) \in Nat
    BY MarkFields, LenProperties DEF Event
  <1>2. /\ \A n \in (w.acknowledged_sequence + 1)..w.highest : \E y \in P : y.sequence = n
        /\ Distinct(P) /\ EventsOK(w, P) /\ ChainOK(w, P)
    BY DEF Session
  <1>3. \A y \in P : y.sequence \in (w.acknowledged_sequence + 1)..w.highest
    BY <1>2 DEF EventsOK
  <1> DEFINE Bad(y) == y.sequence <= x.sequence /\ hash_answer_event(y) # h[y.sequence]
             gaps == {d \in Nat : \E y \in P : Bad(y) /\ y.sequence + d = x.sequence}
  <1>4. gaps \in SUBSET Nat
    BY Zenon
  <1>5. PICK B \in SUBSET Nat : B = gaps
    BY <1>4, Zenon
  <1>6. B = {}
    <2> SUFFICES ASSUME B # {} PROVE FALSE
      OBVIOUS
    <2>1. PICK d \in B : \A c \in B : ~(<<c, d>> \in OpToRel(<, Nat))
      BY WFMin, NatLessThanWellFounded, Zenon
    <2>2. d \in Nat /\ \A c \in B : ~(c < d)
      BY <2>1 DEF OpToRel
    <2>3. PICK y \in P : Bad(y) /\ y.sequence + d = x.sequence
      BY <1>5, <2>1, Zenon
    <2>4. y.sequence # x.sequence
      BY <1>2, <2>3, Zenon DEF Distinct
    <2>5. y.sequence + 1 \in (w.acknowledged_sequence + 1)..w.highest /\ d # 0
      BY <1>1, <1>3, <2>2, <2>3, <2>4
    <2>6. PICK z \in P : z.sequence = y.sequence + 1
      BY <1>2, <2>5
    <2>7. PICK c \in Nat : d = c + 1
      <3>1. d - 1 \in Nat /\ d = (d - 1) + 1
        BY <2>2, <2>5
      <3> QED
        BY <3>1
    <2>8. c \notin B /\ z.sequence + c = x.sequence /\ z.sequence <= x.sequence
      <3>1. c < d
        BY <2>7
      <3>2. c \notin B
        BY <2>2, <3>1
      <3>3. y.sequence + d = x.sequence
        BY <2>3
      <3>4. y.sequence \in Nat /\ x.sequence \in Nat
        BY <1>1
      <3>5. z.sequence + c = x.sequence /\ z.sequence <= x.sequence
        BY <2>6, <2>7, <3>3, <3>4
      <3> QED
        BY <3>2, <3>5
    <2>9. ~Bad(z)
      BY <1>5, <2>7, <2>8, Zenon
    <2>10. hash_answer_event(z) = h[z.sequence]
      BY <2>8, <2>9
    <2>11. z.previous = hash_answer_event(y)
      BY <1>2, <2>6 DEF ChainOK
    <2>12. y.sequence # 0 /\ z.sequence <= Len(h)
      BY <1>1, <1>3, <2>8
    <2>13. y \in Event /\ z \in Event
      OBVIOUS
    <2> HIDE DEF Bad, gaps
    <2>14. hash_answer_event(y) = h[y.sequence]
      BY <2>6, <2>10, <2>11, <2>12, <2>13, PredecessorReached
    <2> QED
      BY <2>3, <2>14 DEF Bad
  <1> QED
    <2> SUFFICES ASSUME NEW y \in P, Bad(y) PROVE FALSE
      OBVIOUS
    <2>1. PICK d \in Nat : y.sequence + d = x.sequence
      <3>1. x.sequence - y.sequence \in Nat /\ y.sequence + (x.sequence - y.sequence) = x.sequence
        BY <1>1
      <3> QED
        BY <3>1
    <2>2. d \in B
      BY <1>5, <2>1, Zenon
    <2> QED
      BY <1>6, <2>2

\* acknowledge() of a waiting event with a hash of the server: what it retires has
\* reached the server.
LEMMA RetiredSafe ==
  ASSUME NEW image, Sound(image), NEW hashes, Server(hashes), Delivered(image, hashes),
         NEW A, A \subseteq Event, Kept(image, hashes, A), NEW k \in DOMAIN image.watermarks,
         NEW j \in Keys, NEW n \in 1..Len(hashes[j]), HasEvent(image, k, n)
  PROVE  /\ Sound(Retired(image, k, n, hashes[j][n]).image)
         /\ Delivered(Retired(image, k, n, hashes[j][n]).image, hashes)
         /\ Kept(Retired(image, k, n, hashes[j][n]).image, hashes, A)
  <1>1. PICK hash : hash = hashes[j][n]
    OBVIOUS
  <1>2. PICK x : x = EventAt(image, k, n)
    OBVIOUS
  <1>3. PICK P : P = EventsOf(image, k)
    OBVIOUS
  <1>4. PICK w : w = image.watermarks[k]
    OBVIOUS
  <1>5. /\ IsImage(image) /\ image.events \subseteq Event
        /\ w \in Watermark /\ Session(w, P) /\ k \in Keys
    BY <1>3, <1>4 DEF Sound, IsImage
  <1>6. P \subseteq Event /\ \A y \in P : y.key = k
    BY <1>3, <1>5, EventsOfFacts
  <1>7. x \in P /\ x.sequence = n
    BY <1>2, <1>3, Zenon DEF HasEvent, EventAt, EventWith
  <1>8. \A b, i : Result(b, i).image = i
    BY DEF Result
  <1>9. CASE ~(/\ hash_answer_event(EventAt(image, k, n)) = hash
               /\ n > image.watermarks[k].acknowledged_sequence
               /\ n <= image.watermarks[k].highest)
    <2>1. Retired(image, k, n, hash) = Result(FALSE, image)
      BY <1>9, Zenon DEF Retired
    <2>2. Retired(image, k, n, hash).image = image
      BY <1>8, <2>1, Zenon
    <2> QED
      BY <1>1, <2>2, Zenon
  <1>10. CASE /\ hash_answer_event(EventAt(image, k, n)) = hash
              /\ n > image.watermarks[k].acknowledged_sequence
              /\ n <= image.watermarks[k].highest
    <2>1. PICK new : new = RetiredImage(image, k, n, hash)
      OBVIOUS
    <2>2. Retired(image, k, n, hash).image = new
      <3>1. Retired(image, k, n, hash) = Result(TRUE, new)
        BY <1>10, <2>1, Zenon DEF Retired, RetiredImage
      <3> QED
        BY <1>8, <3>1, Zenon
    <2>3. hash_answer_event(x) = hash
      BY <1>2, <1>10, Zenon
    <2>4. /\ Sound(new)
          /\ new.events = {e \in image.events : e.key # k \/ e.sequence > n}
          /\ DOMAIN new.watermarks = DOMAIN image.watermarks
          /\ new.watermarks[k].highest = image.watermarks[k].highest
          /\ new.watermarks[k].last = image.watermarks[k].last
          /\ \A i \in DOMAIN image.watermarks : i # k => new.watermarks[i] = image.watermarks[i]
      BY <1>3, <1>7, <2>1, <2>3, RetiredSound
    <2>5. hashes[j] \in Seq(Digest) /\ IsChain(hashes[j], j)
      BY DEF Server
    <2>6. x \in Event /\ n \in Nat
      BY <1>6, <1>7 DEF Event
    <2>7. k = j
      <3>1. Len(hash) = n /\ hash[n].key = j
        BY <1>1, <2>5, ChainFacts
      <3>2. /\ x.previous \in Seq(Body) /\ Len(hash) = Len(x.previous) + 1
            /\ hash[Len(x.previous) + 1] = Content(x) /\ Content(x).key = x.key
        BY <2>3, <2>6, HashFacts
      <3>3. hash[n] = Content(x)
        BY <3>1, <3>2
      <3> QED
        BY <1>6, <1>7, <3>1, <3>2, <3>3, Zenon
    <2>8. PICK h \in Seq(Digest) : h = hashes[k]
      BY <2>5, <2>7
    <2>9. IsChain(h, k) /\ n \in 1..Len(h) /\ Len(h) \in Nat /\ h[n] = hash
      <3>1. Len(h) \in Nat
        BY LenProperties
      <3> QED
        BY <1>1, <2>5, <2>7, <2>8, <3>1
    <2>10. x.sequence <= Len(h) /\ hash_answer_event(x) = h[x.sequence]
      BY <1>7, <2>3, <2>9
    <2>11. \A y \in P : y.sequence <= x.sequence => hash_answer_event(y) = h[y.sequence]
      BY <1>5, <1>6, <1>7, <2>9, <2>10, EarlierReached
    <2>12. \A i : i # k => EventsOf(new, i) = EventsOf(image, i)
      BY <2>4 DEF EventsOf
    <2>13. Beside(image, new, k)
      BY <2>4, <2>12, Zenon DEF Beside
    <2>14. GoneIsJournaled(new, hashes[k], k)
      <3> SUFFICES ASSUME EventsOf(new, k) = {}
                   PROVE  w.highest <= Len(h) /\ h[w.highest] = w.last
        BY <1>4, <2>4, <2>8, Zenon DEF GoneIsJournaled
      <3>1. w.highest \in Nat /\ w.acknowledged_sequence \in Nat
        BY <1>5, MarkFields
      <3>2. w.highest \in (w.acknowledged_sequence + 1)..w.highest
        BY <1>4, <1>10, <2>6, <3>1
      <3>3. PICK z \in P : z.sequence = w.highest
        BY <1>5, <3>2 DEF Session
      <3>4. ~(z.sequence > n)
        BY <1>3, <2>4 DEF EventsOf
      <3>5. n = w.highest
        BY <1>4, <1>10, <2>6, <3>1, <3>3, <3>4
      <3>6. w.last = hash_answer_event(x)
        BY <1>5, <1>7, <3>5 DEF Session, EndOK
      <3> QED
        BY <2>3, <2>9, <3>5, <3>6
    <2>15. Delivered(new, hashes)
      BY <2>13, <2>14, BesideDelivered
    <2>16. Kept(new, hashes, A)
      <3> SUFFICES ASSUME NEW a \in A, NEW y \in image.events, SameBody(y, a), y \notin new.events
                   PROVE  Reached(hashes, a)
        BY Zenon DEF Kept
      <3>1. y.key = k /\ ~(y.sequence > n) /\ y \in Event /\ a \in Event
        BY <1>5, <2>4
      <3>2. y \in P
        BY <1>3, <3>1 DEF EventsOf
      <3>3. y.sequence \in Nat /\ y.sequence <= x.sequence /\ y.sequence <= Len(h)
        BY <1>7, <2>6, <2>9, <3>1 DEF Event
      <3>4. hash_answer_event(y) = h[y.sequence]
        BY <2>11, <3>2, <3>3
      <3>5. a.key = k /\ a.sequence = y.sequence
        BY <3>1, Zenon DEF SameBody
      <3>6. Content(a) = Content(y)
        <4>1. Content(a) = [key |-> a.key, candidate |-> a.candidate, sequence |-> a.sequence,
                            kind |-> a.kind, question |-> a.question, answer |-> a.answer]
          BY <3>1, HashFacts
        <4>2. Content(y) = [key |-> y.key, candidate |-> y.candidate, sequence |-> y.sequence,
                            kind |-> y.kind, question |-> y.question, answer |-> y.answer]
          BY <3>1, HashFacts
        <4> QED
          BY <4>1, <4>2, Zenon DEF SameBody
      <3>7. hashes[a.key][a.sequence] = hash_answer_event(y) /\ a.sequence <= Len(hashes[a.key])
        BY <2>8, <3>3, <3>4, <3>5, Zenon
      <3> QED
        BY <3>6, <3>7, Zenon DEF Reached, Content
    <2> QED
      BY <1>1, <2>2, <2>4, <2>15, <2>16, Zenon
  <1> QED
    BY <1>9, <1>10

\* acknowledge() of an event that is not waiting changes nothing: the last event of a
\* session with a boundary below it is waiting.
LEMMA AcknowledgedBeforeSame ==
  ASSUME NEW image, Sound(image), NEW k \in DOMAIN image.watermarks, NEW n \in Nat, NEW hash,
         ~HasEvent(image, k, n)
  PROVE  AcknowledgedBefore(image, k, n, hash).image = image
  <1>1. PICK w : w = image.watermarks[k]
    OBVIOUS
  <1>2. PICK P : P = EventsOf(image, k)
    OBVIOUS
  <1>3. w \in Watermark /\ Session(w, P)
    BY <1>1, <1>2 DEF Sound, IsImage
  <1>4. w.highest \in Nat /\ w.acknowledged_sequence \in Nat
    BY <1>3, MarkFields
  <1>5. ~(n > w.acknowledged_sequence /\ n = w.highest)
    <2> SUFFICES ASSUME n > w.acknowledged_sequence, n = w.highest PROVE FALSE
      OBVIOUS
    <2>1. n \in (w.acknowledged_sequence + 1)..w.highest
      BY <1>4
    <2>2. PICK x \in P : x.sequence = n
      BY <1>3, <2>1 DEF Session
    <2> QED
      BY <1>2, <2>2, Zenon DEF HasEvent
  <1>6. \A b, i : Result(b, i).image = i
    BY DEF Result
  <1>7. \E b : AcknowledgedBefore(image, k, n, hash) = Result(b, image)
    BY <1>1, <1>5, Zenon DEF AcknowledgedBefore
  <1> QED
    BY <1>6, <1>7, Zenon

\* acknowledge() with a hash of the server.
LEMMA AcknowledgeSafe ==
  ASSUME NEW image, Sound(image), NEW hashes, Server(hashes), Delivered(image, hashes),
         NEW A, A \subseteq Event, Kept(image, hashes, A),
         NEW j \in Keys, NEW n \in 1..Len(hashes[j]), NEW sid
  PROVE  /\ Sound(acknowledge(image, sid, n, hashes[j][n]).image)
         /\ Delivered(acknowledge(image, sid, n, hashes[j][n]).image, hashes)
         /\ Kept(acknowledge(image, sid, n, hashes[j][n]).image, hashes, A)
  <1>1. PICK hash : hash = hashes[j][n]
    OBVIOUS
  <1> DEFINE S == IF ExactKeys(image, sid, n, hash) # {} THEN ExactKeys(image, sid, n, hash)
                  ELSE MatchingKeys(image, sid)
             k == CHOOSE x \in S : TRUE
  <1>2. acknowledge(image, sid, n, hash) =
          IF n = 0 \/ Cardinality(S) # 1 THEN Result(FALSE, image)
          ELSE IF HasEvent(image, k, n) THEN Retired(image, k, n, hash)
          ELSE AcknowledgedBefore(image, k, n, hash)
    BY Zenon DEF acknowledge
  <1>3. S \subseteq DOMAIN image.watermarks
    BY DEF ExactKeys, MatchingKeys
  <1>4. S # {} => k \in S
    BY Zenon
  <1> HIDE DEF S, k
  <1>5. n \in Nat
    <2>1. hashes[j] \in Seq(Digest)
      BY DEF Server
    <2> QED
      BY <2>1, LenProperties
  <1>6. CASE n = 0 \/ Cardinality(S) # 1
    <2>1. acknowledge(image, sid, n, hash) = Result(FALSE, image)
      BY <1>2, <1>6, Zenon
    <2>2. Result(FALSE, image).image = image
      BY DEF Result
    <2> QED
      BY <1>1, <2>1, <2>2, Zenon
  <1>7. CASE ~(n = 0 \/ Cardinality(S) # 1)
    <2>1. S # {}
      <3> SUFFICES ASSUME S = {} PROVE FALSE
        OBVIOUS
      <3>1. Cardinality({}) = 0
        BY FS_EmptySet
      <3> QED
        BY <1>7, <3>1
    <2>2. k \in DOMAIN image.watermarks
      BY <1>3, <1>4, <2>1
    <2>3. CASE HasEvent(image, k, n)
      <3>1. acknowledge(image, sid, n, hash) = Retired(image, k, n, hash)
        BY <1>2, <1>7, <2>3, Zenon
      <3>2. /\ Sound(Retired(image, k, n, hashes[j][n]).image)
            /\ Delivered(Retired(image, k, n, hashes[j][n]).image, hashes)
            /\ Kept(Retired(image, k, n, hashes[j][n]).image, hashes, A)
        BY <2>2, <2>3, RetiredSafe
      <3> QED
        BY <1>1, <3>1, <3>2, Zenon
    <2>4. CASE ~HasEvent(image, k, n)
      <3>1. acknowledge(image, sid, n, hash) = AcknowledgedBefore(image, k, n, hash)
        BY <1>2, <1>7, <2>4, Zenon
      <3>2. AcknowledgedBefore(image, k, n, hash).image = image
        BY <1>5, <2>2, <2>4, AcknowledgedBeforeSame
      <3> QED
        BY <1>1, <3>1, <3>2, Zenon
    <2> QED
      BY <2>3, <2>4
  <1> QED
    BY <1>6, <1>7

\* enqueue() accepts only what validate_answer_event() does.
LEMMA EnqueueValid ==
  ASSUME NEW image, NEW e \in Event, enqueue(image, e).ok
  PROVE  e.sequence # 0
  <1> SUFFICES ASSUME ~validate_answer_event(e) PROVE FALSE
    BY DEF validate_answer_event
  <1>1. enqueue(image, e) = Result(FALSE, image)
    BY Zenon DEF enqueue
  <1>2. Result(FALSE, image).ok = FALSE
    BY DEF Result
  <1> QED
    BY <1>1, <1>2, Zenon

\* The chain of a session with one more hash, that of the event that follows.
LEMMA ChainGrows ==
  ASSUME NEW k, NEW h \in Seq(Digest), IsChain(h, k), NEW e \in Event, e.key = k,
         e.previous = IF h = <<>> THEN ZeroDigest ELSE h[Len(h)]
  PROVE  /\ Append(h, hash_answer_event(e)) \in Seq(Digest)
         /\ Len(Append(h, hash_answer_event(e))) = Len(h) + 1
         /\ \A i \in 1..Len(h) : Append(h, hash_answer_event(e))[i] = h[i]
         /\ IsChain(Append(h, hash_answer_event(e)), k)
  <1>1. PICK d : d = hash_answer_event(e)
    OBVIOUS
  <1>2. d \in Seq(Body) /\ d \in Digest
    BY <1>1, HashFacts DEF Digest
  <1>3. PICK g : g = Append(h, d)
    OBVIOUS
  <1>4. PICK n \in Nat : n = Len(h)
    BY LenProperties
  <1>5. g \in Seq(Digest) /\ Len(g) = n + 1 /\ (\A i \in 1..n : g[i] = h[i]) /\ g[n + 1] = d
    BY <1>2, <1>3, <1>4, AppendProperties
  <1>6. PICK p \in Seq(Body) : p = e.previous
    BY HashFacts
  <1>7. Len(p) = n /\ \A i \in 1..n : p[i] = h[i][i]
    <2>1. CASE n = 0
      <3>1. h = <<>>
        BY <1>4, <2>1, EmptySeq
      <3>2. p = <<>>
        BY <1>6, <3>1 DEF ZeroDigest
      <3> QED
        BY <2>1, <3>2, EmptySeq
    <2>2. CASE n # 0
      <3>1. h # <<>>
        BY <1>4, <2>2, EmptySeq
      <3>2. p = h[n]
        BY <1>4, <1>6, <3>1
      <3>3. n \in 1..Len(h)
        BY <1>4, <2>2
      <3>4. Len(h[n]) = n /\ \A i \in 1..n : h[n][i] = h[i][i]
        BY <3>3, ChainFacts
      <3> QED
        BY <3>2, <3>4, Zenon
    <2> QED
      BY <2>1, <2>2
  <1>8. /\ Len(d) = n + 1
        /\ \A i \in 1..n : d[i] = p[i]
        /\ d[n + 1] = Content(e) /\ Content(e).key = k
    BY <1>1, <1>6, <1>7, HashFacts
  <1>9. \A i \in 1..(n + 1) : d[i] = g[i][i]
    <2> TAKE i \in 1..(n + 1)
    <2>1. CASE i = n + 1
      BY <1>5, <2>1
    <2>2. CASE i # n + 1
      <3>1. i \in 1..n
        BY <2>2
      <3> QED
        BY <1>5, <1>7, <1>8, <3>1, Zenon
    <2> QED
      BY <2>1, <2>2
  <1>10. IsChain(g, k)
    <2> SUFFICES ASSUME NEW i \in 1..Len(g)
                 PROVE  g[i] = [m \in 1..i |-> g[m][m]] /\ g[i][i].key = k
      BY DEF IsChain
    <2>1. CASE i = n + 1
      <3>1. DOMAIN d = 1..(n + 1)
        BY <1>2, <1>8, LenProperties
      <3>2. d = [m \in DOMAIN d |-> d[m]]
        BY <1>2
      <3>3. d = [m \in 1..(n + 1) |-> g[m][m]]
        BY <1>9, <3>1, <3>2
      <3>4. g[i] = d
        BY <1>5, <2>1
      <3>5. d[i].key = k
        BY <1>8, <2>1
      <3> QED
        BY <2>1, <3>3, <3>4, <3>5
    <2>2. CASE i # n + 1
      <3>1. i \in 1..n /\ i \in 1..Len(h)
        BY <1>4, <1>5, <2>2
      <3>2. h[i] = [m \in 1..i |-> h[m][m]] /\ h[i][i].key = k
        BY <3>1 DEF IsChain
      <3>3. \A m \in 1..i : g[m] = h[m]
        BY <1>5, <3>1
      <3>4. [m \in 1..i |-> h[m][m]] = [m \in 1..i |-> g[m][m]]
        BY <3>3
      <3>5. g[i] = h[i]
        BY <1>5, <3>1
      <3> QED
        BY <3>2, <3>4, <3>5, Zenon
    <2> QED
      BY <2>1, <2>2
  <1> QED
    BY <1>1, <1>3, <1>4, <1>5, <1>10, Zenon

\* The server appends a waiting event.
LEMMA AcceptSafe ==
  ASSUME NEW image, IsImage(image), NEW hashes, Server(hashes), Delivered(image, hashes),
         NEW A, A \subseteq Event, \A a \in A : a.sequence # 0, Kept(image, hashes, A),
         NEW e \in image.events,
         e.previous = IF hashes[e.key] = <<>> THEN ZeroDigest
                      ELSE hashes[e.key][Len(hashes[e.key])],
         NEW new, new = [hashes EXCEPT ![e.key] = Append(@, hash_answer_event(e))]
  PROVE  Server(new) /\ Delivered(image, new) /\ Kept(image, new, A)
  <1>1. e \in Event
    BY DEF IsImage
  <1>2. PICK k \in Keys : k = e.key
    BY <1>1 DEF Event
  <1>3. PICK h \in Seq(Digest) : h = hashes[k]
    BY DEF Server
  <1>4. IsChain(h, k) /\ hashes \in [Keys -> Seq(Digest)]
    BY <1>3 DEF Server
  <1>5. PICK g : g = Append(h, hash_answer_event(e))
    OBVIOUS
  <1>6. e.previous = IF h = <<>> THEN ZeroDigest ELSE h[Len(h)]
    BY <1>2, <1>3, Zenon
  <1>7. /\ g \in Seq(Digest) /\ Len(g) = Len(h) + 1
        /\ \A i \in 1..Len(h) : g[i] = h[i]
        /\ IsChain(g, k)
    BY <1>1, <1>2, <1>4, <1>5, <1>6, ChainGrows
  <1>8. /\ new \in [Keys -> Seq(Digest)] /\ new[k] = g
        /\ \A j \in Keys : j # k => new[j] = hashes[j]
    <2>1. new = [hashes EXCEPT ![k] = g]
      BY <1>2, <1>3, <1>5
    <2> QED
      BY <1>4, <1>7, <2>1
  <1>9. Server(new)
    <2>1. ASSUME NEW j \in Keys PROVE IsChain(new[j], j)
      <3>1. CASE j = k
        BY <1>7, <1>8, <3>1
      <3>2. CASE j # k
        BY <1>8, <3>2, Zenon DEF Server
      <3> QED
        BY <3>1, <3>2
    <2> QED
      BY <1>8, <2>1 DEF Server
  <1>10. Delivered(image, new)
    <2> SUFFICES ASSUME NEW j \in DOMAIN image.watermarks
                 PROVE  GoneIsJournaled(image, new[j], j)
      BY DEF Delivered
    <2>1. CASE j = k
      <3>1. e \in EventsOf(image, j)
        BY <1>2, <2>1 DEF EventsOf
      <3> QED
        BY <3>1 DEF GoneIsJournaled
    <2>2. CASE j # k
      <3>1. new[j] = hashes[j]
        BY <1>8, <2>2 DEF IsImage
      <3> QED
        BY <3>1, Zenon DEF Delivered
    <2> QED
      BY <2>1, <2>2
  <1>11. ASSUME NEW a \in A, Reached(hashes, a) PROVE Reached(new, a)
    <2>1. a.key \in Keys /\ a.sequence \in Nat /\ a.sequence # 0
      BY DEF Event
    <2>2. CASE a.key # k
      <3>1. new[a.key] = hashes[a.key]
        BY <1>8, <2>1, <2>2
      <3> QED
        BY <1>11, <3>1, Zenon DEF Reached
    <2>3. CASE a.key = k
      <3>1. hashes[a.key] = h /\ new[a.key] = g
        BY <1>3, <1>8, <2>3
      <3>2. a.sequence <= Len(h) /\ LET d == h[a.sequence] IN d[Len(d)] = Content(a)
        BY <1>11, <3>1, Zenon DEF Reached
      <3>3. Len(h) \in Nat
        BY LenProperties
      <3>4. a.sequence <= Len(g) /\ g[a.sequence] = h[a.sequence]
        BY <1>7, <2>1, <3>2, <3>3
      <3> QED
        BY <3>1, <3>2, <3>4, Zenon DEF Reached
    <2> QED
      BY <2>2, <2>3
  <1>12. Kept(image, new, A)
    BY <1>11, Zenon DEF Kept
  <1> QED
    BY <1>9, <1>10, <1>12

-----------------------------------------------------------------------------
(* The invariant. *)

\* The file opens; while the service has it open, memory and file agree and hold a
\* complete image; what left the file is with the server, and no accepted answer is
\* missing in both.
OutboxIInv ==
    /\ IsImage(disk) /\ Opens(disk)
    /\ open => mem = disk /\ Sound(disk)
    /\ Server(journal) /\ Delivered(disk, journal)
    /\ promised \subseteq Event /\ \A a \in promised : a.sequence # 0
    /\ Kept(disk, journal, promised)

\* Every file found at start satisfies it.
LEMMA InitOutbox == Init => OutboxIInv
  <1> SUFFICES ASSUME Init PROVE OutboxIInv
    OBVIOUS
  <1>1. PICK s \in InitialStates : disk = s.image /\ journal = s.journal
    BY DEF Init
  <1>2. Found(disk, journal)
    BY <1>1, AnswerOutboxAssumption
  <1>3. IsImage(disk) /\ Opens(disk) /\ Server(journal) /\ Delivered(disk, journal)
    BY <1>2, Zenon DEF Found, Server, Delivered
  <1>4. promised = {} /\ open = FALSE
    BY DEF Init
  <1> QED
    BY <1>3, <1>4 DEF OutboxIInv, Kept

\* A complete image is one open() accepts.
LEMMA SoundFile ==
  ASSUME NEW image, Sound(image)
  PROVE  IsImage(image) /\ Opens(image)
  BY SoundOpens DEF Sound

\* open(), which completes a file of an older format.
LEMMA OpenOutbox == OutboxIInv /\ Open => OutboxIInv'
  <1> SUFFICES ASSUME OutboxIInv, Open PROVE OutboxIInv'
    OBVIOUS
  <1>1. PICK new : new = Upgraded(disk)
    OBVIOUS
  <1>2. /\ Sound(new) /\ new.events = disk.events
        /\ \A k \in DOMAIN new.watermarks :
              EventsOf(disk, k) = {} =>
                /\ k \in DOMAIN disk.watermarks
                /\ new.watermarks[k].highest = disk.watermarks[k].highest
                /\ new.watermarks[k].last = disk.watermarks[k].last
    BY <1>1, OpenedSound DEF OutboxIInv
  <1>3. disk' = new /\ mem' = new /\ journal' = journal /\ promised' = promised
    BY <1>1 DEF Open
  <1>4. Delivered(new, journal)
    <2> SUFFICES ASSUME NEW k \in DOMAIN new.watermarks, EventsOf(new, k) = {}
                 PROVE  /\ new.watermarks[k].highest <= Len(journal[k])
                        /\ journal[k][new.watermarks[k].highest] = new.watermarks[k].last
      BY Zenon DEF Delivered, GoneIsJournaled
    <2>1. EventsOf(disk, k) = {}
      BY <1>2 DEF EventsOf
    <2>2. k \in DOMAIN disk.watermarks
      BY <1>2, <2>1
    <2>3. /\ disk.watermarks[k].highest <= Len(journal[k])
          /\ journal[k][disk.watermarks[k].highest] = disk.watermarks[k].last
      BY <2>1, <2>2, Zenon DEF OutboxIInv, Delivered, GoneIsJournaled
    <2> QED
      BY <1>2, <2>1, <2>3, Zenon
  <1>5. Kept(new, journal, promised)
    BY <1>2, Zenon DEF OutboxIInv, Kept
  <1>6. IsImage(new) /\ Opens(new)
    BY <1>2, SoundFile
  <1> QED
    BY <1>2, <1>3, <1>4, <1>5, <1>6, Zenon DEF OutboxIInv

\* enqueue().
LEMMA EnqueueOutbox ==
  ASSUME OutboxIInv, NEW e \in Events, Enqueue(e)
  PROVE  OutboxIInv'
  <1>1. PICK r : r = enqueue(mem, e)
    OBVIOUS
  <1>2. /\ open /\ open' = open /\ journal' = journal
        /\ mem' = r.image /\ disk' = r.image
        /\ promised' = IF r.ok THEN promised \cup {e} ELSE promised
    BY <1>1, Zenon DEF Enqueue
  <1>3. e \in Event
    BY AnswerOutboxAssumption
  <1>4. /\ Sound(mem) /\ Server(journal) /\ Delivered(mem, journal)
        /\ Kept(mem, journal, promised)
    BY <1>2, Zenon DEF OutboxIInv
  <1>5. /\ Sound(r.image) /\ Delivered(r.image, journal) /\ Kept(r.image, journal, promised)
        /\ r.ok => Kept(r.image, journal, {e})
    BY <1>1, <1>3, <1>4, EnqueueSafe
  <1>6. r.ok => e.sequence # 0
    BY <1>1, <1>3, EnqueueValid
  <1>7. IsImage(r.image) /\ Opens(r.image)
    BY <1>5, SoundFile
  <1>8. Kept(r.image, journal, promised') /\ promised' \subseteq Event
        /\ \A a \in promised' : a.sequence # 0
    <2>1. promised \subseteq Event /\ \A a \in promised : a.sequence # 0
      BY DEF OutboxIInv
    <2>2. CASE r.ok
      <3>1. promised' = promised \cup {e}
        BY <1>2, <2>2
      <3>2. Kept(r.image, journal, promised \cup {e})
        BY <1>5, <2>2, Zenon DEF Kept
      <3> QED
        BY <1>3, <1>6, <2>1, <2>2, <3>1, <3>2
    <2>3. CASE ~r.ok
      <3>1. promised' = promised
        BY <1>2, <2>3
      <3> QED
        BY <1>5, <2>1, <3>1
    <2> QED
      BY <2>2, <2>3
  <1> QED
    BY <1>2, <1>4, <1>5, <1>7, <1>8, Zenon DEF OutboxIInv

\* acknowledge().
LEMMA AcknowledgeOutbox ==
  ASSUME OutboxIInv, NEW k \in Keys, NEW n, Acknowledge(k, n)
  PROVE  OutboxIInv'
  <1>1. PICK r : r = acknowledge(mem, SessionId[k], n, journal[k][n])
    OBVIOUS
  <1>2. /\ open /\ open' = open /\ journal' = journal /\ promised' = promised
        /\ mem' = r.image /\ disk' = r.image
        /\ n \in 1..Len(journal[k])
    BY <1>1, Zenon DEF Acknowledge
  <1>3. /\ Sound(mem) /\ Server(journal) /\ Delivered(mem, journal)
        /\ promised \subseteq Event /\ (\A a \in promised : a.sequence # 0)
        /\ Kept(mem, journal, promised)
    BY <1>2, Zenon DEF OutboxIInv
  <1>4. Sound(r.image) /\ Delivered(r.image, journal) /\ Kept(r.image, journal, promised)
    BY <1>1, <1>2, <1>3, AcknowledgeSafe
  <1>5. IsImage(r.image) /\ Opens(r.image)
    BY <1>4, SoundFile
  <1> QED
    BY <1>2, <1>3, <1>4, <1>5, Zenon DEF OutboxIInv

\* The server appends a waiting event.
LEMMA AcceptOutbox ==
  ASSUME OutboxIInv, NEW e \in Events, ServerAccepts(e)
  PROVE  OutboxIInv'
  <1>1. /\ open /\ open' = open /\ disk' = disk /\ mem' = mem /\ promised' = promised
        /\ e \in mem.events
        /\ e.previous = ServerLast(e.key)
        /\ journal' = [journal EXCEPT ![e.key] = Append(@, hash_answer_event(e))]
    BY DEF ServerAccepts
  <1>2. /\ mem = disk /\ Sound(disk) /\ IsImage(disk) /\ Opens(disk)
        /\ Server(journal) /\ Delivered(disk, journal)
        /\ promised \subseteq Event /\ (\A a \in promised : a.sequence # 0)
        /\ Kept(disk, journal, promised)
    BY <1>1 DEF OutboxIInv
  <1>3. e \in disk.events
    BY <1>1, <1>2
  <1>4. e.previous = IF journal[e.key] = <<>> THEN ZeroDigest
                     ELSE journal[e.key][Len(journal[e.key])]
    BY <1>1, Zenon DEF ServerLast
  <1>5. Server(journal') /\ Delivered(disk, journal') /\ Kept(disk, journal', promised)
    BY <1>1, <1>2, <1>3, <1>4, AcceptSafe
  <1> QED
    BY <1>1, <1>2, <1>5, Zenon DEF OutboxIInv

\* A process that ends leaves the file before or after a write it was in.
LEMMA CrashOutbox == OutboxIInv /\ Crash => OutboxIInv'
  <1> SUFFICES ASSUME OutboxIInv, Crash PROVE OutboxIInv'
    OBVIOUS
  <1>1. open /\ open' = FALSE /\ journal' = journal /\ promised' = promised
    BY DEF Crash
  <1>2. /\ mem = disk /\ Sound(mem) /\ Server(journal) /\ Delivered(mem, journal)
        /\ promised \subseteq Event /\ (\A a \in promised : a.sequence # 0)
        /\ Kept(mem, journal, promised)
    BY <1>1, Zenon DEF OutboxIInv
  <1>3. Sound(disk') /\ Delivered(disk', journal) /\ Kept(disk', journal, promised)
    <2>1. CASE disk' = disk
      BY <1>2, <2>1, Zenon
    <2>2. CASE \E e \in Events : disk' \in WriteOutcomes(disk, enqueue(mem, e).image)
      <3>1. PICK e \in Events : disk' \in WriteOutcomes(disk, enqueue(mem, e).image)
        BY <2>2
      <3>2. e \in Event
        BY AnswerOutboxAssumption
      <3>3. /\ Sound(enqueue(mem, e).image) /\ Delivered(enqueue(mem, e).image, journal)
            /\ Kept(enqueue(mem, e).image, journal, promised)
        BY <1>2, <3>2, EnqueueSafe
      <3>4. disk' = disk \/ disk' = enqueue(mem, e).image
        BY <3>1 DEF WriteOutcomes
      <3> QED
        BY <1>2, <3>3, <3>4, Zenon
    <2>3. CASE \E k \in Keys : \E n \in 1..Len(journal[k]) :
                 disk' \in WriteOutcomes(disk,
                             acknowledge(mem, SessionId[k], n, journal[k][n]).image)
      <3>1. PICK k \in Keys : \E n \in 1..Len(journal[k]) :
              disk' \in WriteOutcomes(disk,
                          acknowledge(mem, SessionId[k], n, journal[k][n]).image)
        BY <2>3
      <3>2. PICK n \in 1..Len(journal[k]) :
              disk' \in WriteOutcomes(disk,
                          acknowledge(mem, SessionId[k], n, journal[k][n]).image)
        BY <3>1
      <3>3. PICK r : r = acknowledge(mem, SessionId[k], n, journal[k][n])
        OBVIOUS
      <3>4. Sound(r.image) /\ Delivered(r.image, journal) /\ Kept(r.image, journal, promised)
        BY <1>2, <3>3, AcknowledgeSafe
      <3>5. disk' = disk \/ disk' = r.image
        BY <3>2, <3>3, Zenon DEF WriteOutcomes
      <3> QED
        BY <1>2, <3>4, <3>5, Zenon
    <2> QED
      BY <2>1, <2>2, <2>3, Zenon DEF Crash
  <1>4. IsImage(disk') /\ Opens(disk')
    BY <1>3, SoundFile
  <1> QED
    BY <1>1, <1>2, <1>3, <1>4, Zenon DEF OutboxIInv

\* Every step keeps it.
LEMMA StepOutbox == OutboxIInv /\ [Next]_vars => OutboxIInv'
  <1> SUFFICES ASSUME OutboxIInv, [Next]_vars PROVE OutboxIInv'
    OBVIOUS
  <1>1. CASE UNCHANGED vars
    BY <1>1, Zenon DEF vars, OutboxIInv
  <1>2. CASE Open
    BY <1>2, OpenOutbox
  <1>3. CASE Close
    <2>1. open' = FALSE /\ disk' = disk /\ journal' = journal /\ promised' = promised
      BY <1>3 DEF Close
    <2> QED
      BY <2>1, Zenon DEF OutboxIInv
  <1>4. CASE Crash
    BY <1>4, CrashOutbox
  <1>5. CASE \E e \in Events : Enqueue(e) \/ ServerAccepts(e)
    BY <1>5, EnqueueOutbox, AcceptOutbox
  <1>6. CASE \E k \in Keys : \E n \in 1..MaxOutboxEvents : Acknowledge(k, n)
    BY <1>6, AcknowledgeOutbox
  <1> QED
    BY <1>1, <1>2, <1>3, <1>4, <1>5, <1>6, Zenon DEF Next

-----------------------------------------------------------------------------
(* The theorems. *)

\* The invariant of the outbox and the server's journal holds in every state.
THEOREM OutboxInvariant == Spec => []OutboxIInv
  BY InitOutbox, StepOutbox, PTL DEF Spec

\* AnswerOutbox::open(): the file on disk passes its checks after every sequence of
\* enqueues, rebases, acknowledgements and crashes, whatever format it started in.
THEOREM FilesAlwaysOpen == Spec => []FileAlwaysOpens
  <1>1. OutboxIInv => FileAlwaysOpens
    BY DEF OutboxIInv, FileAlwaysOpens
  <1> QED
    BY <1>1, OutboxInvariant, PTL

\* AnswerOutbox::enqueue() and acknowledge(): an answer that enqueue() accepted is
\* waiting on disk or is in the server's journal with the same content; retiring every
\* earlier event with the acknowledged one, rebasing and crashing lose none.
THEOREM NoAnswersLost == Spec => []NoAnswerLost
  <1>1. OutboxIInv => NoAnswerLost
    <2> SUFFICES ASSUME OutboxIInv, NEW e \in promised
                 PROVE  \/ \E x \in disk.events : same_event_body_except_predecessor(x, e)
                        \/ Journaled(e)
      BY DEF NoAnswerLost
    <2>1. e \in Event /\ disk.events \subseteq Event
      BY DEF OutboxIInv, IsImage
    <2>2. CASE \E x \in disk.events : SameBody(x, e)
      <3>1. PICK x \in disk.events : SameBody(x, e)
        BY <2>2
      <3>2. same_event_body_except_predecessor(x, e)
        BY <2>1, <3>1, SameBodyForm
      <3> QED
        BY <3>2
    <2>3. CASE Reached(journal, e)
      BY <2>3, Zenon DEF Reached, Journaled
    <2> QED
      BY <2>2, <2>3, Zenon DEF OutboxIInv, Kept
  <1> QED
    BY <1>1, OutboxInvariant, PTL

=============================================================================
