------------------------ MODULE AnswerJournalProofs ------------------------
(***************************************************************************)
(* Proofs about AnswerJournal, for every set of processes, sessions and    *)
(* events and every quota.                                                 *)
(*                                                                         *)
(* The invariant speaks of a replay R of the file: R[i] is the index that  *)
(* open() has built after i records.  It says that a replay of all the     *)
(* complete records exists, that only the last item of the file may be     *)
(* incomplete, and that the process owning the lease holds R[cursor] in    *)
(* memory.  A step of open() moves along R, an append extends R, cutting   *)
(* the incomplete tail off leaves R as it is.                              *)
(***************************************************************************)
EXTENDS AnswerJournal, Integers, TLAPS

\* Number of complete records when only the last item may be incomplete.
Complete(f) == IF Len(f) # 0 /\ f[Len(f)] = Torn THEN Len(f) - 1 ELSE Len(f)

\* R is the replay of the first n items of f.
IsReplay(f, R, n) ==
    /\ R[0] = <<>>
    /\ \A i \in 1..n : /\ f[i] \in Event
                       /\ Recoverable(R[i - 1], f[i])
                       /\ R[i] = Indexed(R[i - 1], f[i])

\* The index knows the first n items of f and nothing else.
Knows(f, index, n) ==
    /\ DOMAIN index \subseteq Keys
    /\ \A k \in DOMAIN index : IsSessionData(index[k])
    /\ \A i \in 1..n :
          /\ f[i].key \in DOMAIN index
          /\ f[i].sequence \in DOMAIN index[f[i].key].event_hashes
          /\ index[f[i].key].event_hashes[f[i].sequence] = hash_answer_event(f[i])
          /\ f[i].sequence <= index[f[i].key].highest
          /\ f[i].kind = "finalize" => /\ index[f[i].key].finalized
                                       /\ index[f[i].key].highest = f[i].sequence
    /\ \A k \in DOMAIN index : \A m \in DOMAIN index[k].event_hashes :
          \E i \in 1..n : /\ f[i].key = k
                          /\ f[i].sequence = m
                          /\ hash_answer_event(f[i]) = index[k].event_hashes[m]

Owned == \A p \in Procs : phase[p] # "closed" => lease = p

Replayed(R) ==
    /\ IsReplay(file, R, Complete(file))
    /\ \A i \in 0..Complete(file) : Knows(file, R[i], i)
    /\ \A p \in Procs : phase[p] # "closed" =>
          /\ cursor[p] \in 0..Complete(file)
          /\ sessions[p] = R[cursor[p]]
    /\ \A p \in Procs : phase[p] = "open" => cursor[p] = Len(file)

AckedInFile == \A a \in acked : \E i \in 1..Complete(file) : file[i] = a

IInv == TypeOK /\ Owned /\ AckedInFile /\ (\E R : Replayed(R))

----------------------------------------------------------------------------
(***************************************************************************)
(* Events, hashes and sessions.                                            *)
(***************************************************************************)

\* The digest of an event is a chain of bodies.
LEMMA HashType == \A e \in Event : hash_answer_event(e) \in Digest
  <1> SUFFICES ASSUME NEW e \in Event PROVE hash_answer_event(e) \in Digest
    OBVIOUS
  <1> DEFINE b == [key |-> e.key, candidate |-> e.candidate,
                   sequence |-> e.sequence, kind |-> e.kind,
                   question |-> e.question, answer |-> e.answer]
  <1>1. b \in Body
    BY DEF Event, Body
  <1>2. e.previous \in Seq(Body)
    BY DEF Event, Digest
  <1> HIDE DEF b
  <1>3. Append(e.previous, b) \in Seq(Body)
    BY <1>1, <1>2
  <1> QED
    BY <1>3 DEF hash_answer_event, Digest, b

\* Two events with the same digest are the same event: the chain ends in the
\* body, and what is before it is the previous digest.
LEMMA HashInjective ==
  \A d, e \in Event : hash_answer_event(d) = hash_answer_event(e) => d = e
  <1> SUFFICES ASSUME NEW d \in Event, NEW e \in Event,
                      hash_answer_event(d) = hash_answer_event(e)
               PROVE  d = e
    OBVIOUS
  <1> DEFINE b(x) == [key |-> x.key, candidate |-> x.candidate,
                      sequence |-> x.sequence, kind |-> x.kind,
                      question |-> x.question, answer |-> x.answer]
  <1>1. d.previous \in Seq(Body) /\ e.previous \in Seq(Body)
    BY DEF Event, Digest
  <1>2. b(d) \in Body /\ b(e) \in Body
    BY DEF Event, Body
  <1>3. Append(d.previous, b(d)) = Append(e.previous, b(e))
    BY DEF hash_answer_event
  <1> HIDE DEF b
  <1>4. \A s, t \in Seq(Body), x, y \in Body :
           Append(s, x) = Append(t, y) => s = t /\ x = y
    <2> SUFFICES ASSUME NEW s \in Seq(Body), NEW t \in Seq(Body),
                        NEW x \in Body, NEW y \in Body,
                        Append(s, x) = Append(t, y)
                 PROVE  s = t /\ x = y
      OBVIOUS
    <2>1. Len(s) = Len(t)
      <3>1. Len(Append(s, x)) = Len(s) + 1 /\ Len(Append(t, y)) = Len(t) + 1
        OBVIOUS
      <3> QED BY <3>1
    <2>2. x = y
      <3>1. Append(s, x)[Len(s) + 1] = x /\ Append(t, y)[Len(t) + 1] = y
        OBVIOUS
      <3> QED BY <3>1, <2>1
    <2>3. \A i \in 1..Len(s) : s[i] = t[i]
      <3> SUFFICES ASSUME NEW i \in 1..Len(s) PROVE s[i] = t[i]
        OBVIOUS
      <3>1. Append(s, x)[i] = s[i] /\ Append(t, y)[i] = t[i]
        BY <2>1
      <3> QED BY <3>1
    <2>4. s = t
      BY <2>1, <2>3
    <2> QED BY <2>2, <2>4
  <1>5. d.previous = e.previous /\ b(d) = b(e)
    BY <1>1, <1>2, <1>3, <1>4
  <1>6. /\ d.key = e.key /\ d.candidate = e.candidate
        /\ d.sequence = e.sequence /\ d.kind = e.kind
        /\ d.question = e.question /\ d.answer = e.answer
    BY <1>5 DEF b
  <1> QED BY <1>5, <1>6 DEF Event

\* A session of the index, or the empty session of a first event, is typed.
LEMMA SessionForType ==
  ASSUME NEW index, NEW e \in Event,
         \A k \in DOMAIN index : IsSessionData(index[k])
  PROVE  IsSessionData(SessionFor(index, e))
  <1>1. CASE e.key \in DOMAIN index
    BY <1>1 DEF SessionFor
  <1>2. CASE e.key \notin DOMAIN index
    <2>1. NewSession(e).candidate \in Candidates
      BY DEF NewSession, Event
    <2>2. ZeroDigest \in Digest
      BY DEF ZeroDigest, Digest
    <2> QED
      BY <1>2, <2>1, <2>2
      DEF SessionFor, NewSession, IsSessionData, IsMap
  <1> QED BY <1>1, <1>2

\* Applying an event keeps the session typed.
LEMMA ApplyType ==
  ASSUME NEW s, NEW e \in Event, IsSessionData(s), validate_answer_event(e)
  PROVE  IsSessionData(Apply(s, e))
  <1> DEFINE t == Apply(s, e)
  <1>1. hash_answer_event(e) \in Digest
    BY HashType
  <1>2. /\ DOMAIN t = {"candidate", "highest", "last", "finalized",
                       "event_hashes", "answers"}
        /\ t.candidate \in Candidates
        /\ t.highest \in Nat
        /\ t.last \in Digest
        /\ t.finalized \in BOOLEAN
    BY <1>1 DEF Apply, IsSessionData, Event
  <1>3. DOMAIN t.event_hashes \subseteq Nat /\ IsMap(t.event_hashes, Digest)
    BY <1>1 DEF Apply, IsSessionData, IsMap, Event
  <1>4. DOMAIN t.answers \subseteq Questions
    <2>1. DOMAIN t.answers = QuestionsAfter(s, e)
      BY DEF Apply
    <2>2. e.kind = "upsert" => e.question \in Questions
      BY DEF validate_answer_event
    <2> QED BY <2>1, <2>2 DEF QuestionsAfter, IsSessionData
  <1>5. IsMap(t.answers, AnswerState)
    <2>1. \A q \in QuestionsAfter(s, e) : q # e.question => s.answers[q] \in AnswerState
      BY DEF QuestionsAfter, IsSessionData, IsMap
    <2>2. [sequence |-> e.sequence, answer |-> e.answer,
           hash |-> hash_answer_event(e)] \in AnswerState
      BY <1>1 DEF AnswerState, Event
    <2> QED BY <2>1, <2>2 DEF Apply, IsMap
  <1> QED BY <1>2, <1>3, <1>4, <1>5 DEF IsSessionData

\* Indexing a record that passes the checks of the replay loop extends what
\* the index knows by that record.
LEMMA IndexedKnows ==
  ASSUME NEW f, NEW index, NEW n \in Nat,
         \A i \in 1..(n + 1) : f[i] \in Event,
         Knows(f, index, n), Recoverable(index, f[n + 1])
  PROVE  Knows(f, Indexed(index, f[n + 1]), n + 1)
  <1> DEFINE e == f[n + 1]
             s == SessionFor(index, e)
             new == Indexed(index, e)
             h == hash_answer_event(e)
  <1>0. n + 1 \in 1..(n + 1) /\ \A i \in 1..(n + 1) : i = n + 1 \/ i \in 1..n
    OBVIOUS
  <1>1. e \in Event
    BY <1>0
  <1>2. IsSessionData(s) /\ IsSessionData(Apply(s, e))
    BY <1>1, SessionForType, ApplyType DEF Knows, Recoverable
  <1>3. DOMAIN new = DOMAIN index \cup {e.key}
    BY DEF Indexed
  <1>4. new[e.key] = Apply(s, e)
    BY DEF Indexed
  <1>5. \A k \in DOMAIN index : k # e.key => new[k] = index[k]
    BY DEF Indexed
  <1>6. /\ e.sequence = s.highest + 1 /\ ~s.finalized
        /\ s.highest \in Nat /\ e.sequence \in Nat
    BY <1>1, <1>2 DEF Recoverable, Follows, IsSessionData, Event
  <1>7. /\ Apply(s, e).highest = e.sequence
        /\ Apply(s, e).finalized = (e.kind = "finalize")
        /\ DOMAIN Apply(s, e).event_hashes = DOMAIN s.event_hashes \cup {e.sequence}
        /\ Apply(s, e).event_hashes[e.sequence] = h
        /\ \A m \in DOMAIN s.event_hashes :
              m # e.sequence => Apply(s, e).event_hashes[m] = s.event_hashes[m]
    BY DEF Apply
  <1>8. e.key \in DOMAIN index => s = index[e.key]
    BY DEF SessionFor
  <1>9. e.key \notin DOMAIN index => DOMAIN s.event_hashes = {}
    BY DEF SessionFor, NewSession
  <1> HIDE DEF e, s, new, h
  <1>10. DOMAIN new \subseteq Keys /\ \A k \in DOMAIN new : IsSessionData(new[k])
    BY <1>1, <1>2, <1>3, <1>4, <1>5 DEF Knows, Event
  <1>11. ASSUME NEW i \in 1..(n + 1)
         PROVE  /\ f[i].key \in DOMAIN new
                /\ f[i].sequence \in DOMAIN new[f[i].key].event_hashes
                /\ new[f[i].key].event_hashes[f[i].sequence] = hash_answer_event(f[i])
                /\ f[i].sequence <= new[f[i].key].highest
                /\ f[i].kind = "finalize" => /\ new[f[i].key].finalized
                                             /\ new[f[i].key].highest = f[i].sequence
    <2>1. CASE i = n + 1
      <3>1. f[i] = e
        BY <2>1 DEF e
      <3>2. new[e.key].highest = e.sequence /\ e.sequence <= e.sequence
        BY <1>4, <1>6, <1>7
      <3>3. e.kind = "finalize" => new[e.key].finalized
        BY <1>4, <1>7, Zenon
      <3>4. /\ e.key \in DOMAIN new
            /\ e.sequence \in DOMAIN new[e.key].event_hashes
            /\ new[e.key].event_hashes[e.sequence] = hash_answer_event(e)
        BY <1>3, <1>4, <1>7 DEF h
      <3> QED BY <3>1, <3>2, <3>3, <3>4
    <2>2. CASE i \in 1..n
      <3>1. /\ f[i].key \in DOMAIN index
            /\ f[i].sequence \in DOMAIN index[f[i].key].event_hashes
            /\ index[f[i].key].event_hashes[f[i].sequence] = hash_answer_event(f[i])
            /\ f[i].sequence <= index[f[i].key].highest
            /\ f[i].kind = "finalize" => /\ index[f[i].key].finalized
                                         /\ index[f[i].key].highest = f[i].sequence
        BY <2>2 DEF Knows
      <3>2. CASE f[i].key # e.key
        BY <3>1, <3>2, <1>3, <1>5
      <3>3. CASE f[i].key = e.key
        <4>1. s = index[e.key]
          BY <3>1, <3>3, <1>8
        <4>2. f[i].sequence \in Nat
          BY DEF Event
        <4>3. f[i].sequence # e.sequence /\ f[i].sequence <= e.sequence
          BY <3>1, <3>3, <4>1, <4>2, <1>6
        <4>4. f[i].kind # "finalize"
          BY <3>1, <3>3, <4>1, <1>6
        <4> QED BY <3>1, <3>3, <4>1, <4>3, <4>4, <1>3, <1>4, <1>7
      <3> QED BY <3>2, <3>3
    <2> QED BY <2>1, <2>2, <1>0
  <1>12. ASSUME NEW k \in DOMAIN new, NEW m \in DOMAIN new[k].event_hashes
         PROVE  \E i \in 1..(n + 1) :
                   /\ f[i].key = k
                   /\ f[i].sequence = m
                   /\ hash_answer_event(f[i]) = new[k].event_hashes[m]
    <2>1. CASE k = e.key /\ m = e.sequence
      BY <2>1, <1>0, <1>4, <1>7 DEF e, h
    <2>2. CASE ~(k = e.key /\ m = e.sequence)
      <3>1. /\ k \in DOMAIN index
            /\ m \in DOMAIN index[k].event_hashes
            /\ new[k].event_hashes[m] = index[k].event_hashes[m]
        BY <2>2, <1>3, <1>4, <1>5, <1>7, <1>8, <1>9
      <3>2. PICK i \in 1..n : /\ f[i].key = k
                              /\ f[i].sequence = m
                              /\ hash_answer_event(f[i]) = index[k].event_hashes[m]
        BY <3>1 DEF Knows
      <3>3. i \in 1..(n + 1)
        OBVIOUS
      <3> QED BY <3>1, <3>2, <3>3
    <2> QED BY <2>1, <2>2
  <1>13. Knows(f, new, n + 1)
    BY <1>10, <1>11, <1>12 DEF Knows
  <1> QED BY <1>13 DEF new, e

\* What is known of a prefix does not depend on the rest of the file.
LEMMA KnowsPrefix ==
  ASSUME NEW f, NEW g, NEW index, NEW n \in Nat,
         \A i \in 1..n : f[i] = g[i], Knows(f, index, n)
  PROVE  Knows(g, index, n)
  BY DEF Knows

\* A replay of a prefix does not depend on the rest of the file.
LEMMA ReplayPrefix ==
  ASSUME NEW f, NEW g, NEW R, NEW n \in Nat,
         \A i \in 1..n : f[i] = g[i], IsReplay(f, R, n)
  PROVE  IsReplay(g, R, n)
  BY DEF IsReplay

----------------------------------------------------------------------------
(***************************************************************************)
(* The steps.                                                              *)
(***************************************************************************)

\* An event that append() decides to write passes the checks of open().
LEMMA WriteIsRecoverable ==
  ASSUME NEW index, NEW e \in Event, Verdict(index, e) = "write"
  PROVE  Recoverable(index, e)
  <1>1. /\ validate_answer_event(e) /\ SessionQuotaLeft(index, e)
        /\ SessionFor(index, e).candidate = e.candidate
        /\ AnswerQuotaLeft(SessionFor(index, e), e)
        /\ ~SessionFor(index, e).finalized
        /\ e.sequence = SessionFor(index, e).highest + 1
        /\ e.previous = SessionFor(index, e).last
    BY Zenon DEF Verdict
  <1>2. IsRecord(e)
    BY ConstantsAssumption DEF IsRecord
  <1> QED BY <1>1, <1>2 DEF Recoverable, Follows

\* An event answered "duplicate" is a record of the file the index knows.
LEMMA DuplicateIsRecord ==
  ASSUME NEW f, NEW index, NEW n \in Nat, NEW e \in Event,
         \A i \in 1..n : f[i] \in Event,
         Knows(f, index, n), Verdict(index, e) = "duplicate"
  PROVE  \E i \in 1..n : f[i] = e
  <1> DEFINE s == SessionFor(index, e)
  <1>1. e.sequence \in DOMAIN s.event_hashes
        /\ s.event_hashes[e.sequence] = hash_answer_event(e)
    BY Zenon DEF Verdict
  <1>2. e.key \in DOMAIN index
    BY <1>1 DEF SessionFor, NewSession
  <1>3. s = index[e.key]
    BY <1>2 DEF SessionFor
  <1>4. PICK i \in 1..n : hash_answer_event(f[i]) = hash_answer_event(e)
    BY <1>1, <1>2, <1>3 DEF Knows
  <1> QED BY <1>4, HashInjective

\* A record that passes the checks extends the replay by one index.
LEMMA ExtendReplay ==
  ASSUME NEW f, NEW g, NEW R, NEW n \in Nat, NEW e \in Event,
         \A i \in 1..n : g[i] = f[i], g[n + 1] = e,
         IsReplay(f, R, n), \A i \in 0..n : Knows(f, R[i], i),
         Recoverable(R[n], e)
  PROVE  \E S : /\ IsReplay(g, S, n + 1)
                /\ \A i \in 0..(n + 1) : Knows(g, S[i], i)
                /\ \A i \in 0..n : S[i] = R[i]
                /\ S[n + 1] = Indexed(R[n], e)
  <1> DEFINE S == [i \in 0..(n + 1) |-> IF i = n + 1 THEN Indexed(R[n], e) ELSE R[i]]
  <1>1. \A i \in 0..n : S[i] = R[i]
    OBVIOUS
  <1>2. S[n + 1] = Indexed(R[n], e)
    OBVIOUS
  <1> HIDE DEF S
  <1>3. \A i \in 1..(n + 1) : g[i] \in Event
    BY DEF IsReplay
  <1>4. IsReplay(g, S, n + 1)
    <2>1. S[0] = <<>>
      BY <1>1 DEF IsReplay
    <2>2. ASSUME NEW i \in 1..(n + 1)
          PROVE  Recoverable(S[i - 1], g[i]) /\ S[i] = Indexed(S[i - 1], g[i])
      <3>1. CASE i = n + 1
        <4>1. i - 1 = n /\ S[n] = R[n]
          BY <3>1, <1>1
        <4> QED BY <3>1, <4>1, <1>2
      <3>2. CASE i \in 1..n
        <4>1. S[i - 1] = R[i - 1] /\ S[i] = R[i] /\ g[i] = f[i]
          BY <3>2, <1>1
        <4> QED BY <3>2, <4>1 DEF IsReplay
      <3> QED BY <3>1, <3>2
    <2> QED BY <2>1, <2>2, <1>3 DEF IsReplay
  <1>5. ASSUME NEW i \in 0..n PROVE Knows(g, R[i], i)
    BY KnowsPrefix
  <1>6. Knows(g, Indexed(R[n], e), n + 1)
    <2>1. Knows(g, R[n], n) /\ Recoverable(R[n], g[n + 1])
      BY <1>5
    <2> QED BY <2>1, <1>3, IndexedKnows
  <1>7. ASSUME NEW i \in 0..(n + 1) PROVE Knows(g, S[i], i)
    <2>1. CASE i = n + 1
      BY <2>1, <1>2, <1>6
    <2>2. CASE i \in 0..n
      BY <2>2, <1>1, <1>5
    <2> QED BY <2>1, <2>2
  <1> QED BY <1>1, <1>2, <1>4, <1>7

\* The loop of open() goes on as long as complete records are left, and only
\* so long.
LEMMA MoreIsComplete ==
  ASSUME NEW p \in Procs, TypeOK, cursor[p] \in 0..Complete(file),
         \A i \in 1..Complete(file) : file[i] \in Event
  PROVE  /\ MoreRecords(p) <=> cursor[p] < Complete(file)
         /\ Complete(file) \in Nat /\ Complete(file) <= Len(file)
  <1>1. Len(file) \in Nat /\ cursor[p] \in Nat
    BY DEF TypeOK
  <1>2. Torn \notin Event
    BY ConstantsAssumption
  <1> QED BY <1>1, <1>2 DEF MoreRecords, Complete

\* Indexing an event that passes the checks keeps an index typed.
LEMMA IndexedType ==
  ASSUME NEW index, NEW e \in Event, validate_answer_event(e),
         DOMAIN index \subseteq Keys,
         \A k \in DOMAIN index : IsSessionData(index[k])
  PROVE  /\ DOMAIN Indexed(index, e) \subseteq Keys
         /\ \A k \in DOMAIN Indexed(index, e) : IsSessionData(Indexed(index, e)[k])
  <1>1. IsSessionData(Apply(SessionFor(index, e), e))
    BY SessionForType, ApplyType
  <1>2. e.key \in Keys
    BY DEF Event
  <1> QED BY <1>1, <1>2 DEF Indexed

\* The replay loop never runs past the end of the file.
CursorInFile == \A p \in Procs : phase[p] = "recovering" => cursor[p] <= Len(file)

\* Every step keeps the type invariant.
LEMMA TypeStep == TypeOK /\ CursorInFile /\ [Next]_vars => TypeOK'
  <1> SUFFICES ASSUME TypeOK, CursorInFile, [Next]_vars PROVE TypeOK'
    OBVIOUS
  <1> USE DEF TypeOK
  <1>0. ASSUME NEW p \in Procs, sessions' = [sessions EXCEPT ![p] = <<>>]
        PROVE  /\ DOMAIN sessions' = Procs
               /\ \A q \in Procs :
                     /\ DOMAIN sessions'[q] \subseteq Keys
                     /\ \A k \in DOMAIN sessions'[q] : IsSessionData(sessions'[q][k])
    <2>1. DOMAIN (<<>>) = {}
      OBVIOUS
    <2> QED BY <1>0, <2>1
  <1>1. ASSUME NEW p \in Procs, NEW e \in Event, validate_answer_event(e),
               sessions' = [sessions EXCEPT ![p] = Indexed(sessions[p], e)]
        PROVE  /\ DOMAIN sessions' = Procs
               /\ \A q \in Procs :
                     /\ DOMAIN sessions'[q] \subseteq Keys
                     /\ \A k \in DOMAIN sessions'[q] : IsSessionData(sessions'[q][k])
    BY <1>1, IndexedType
  <1>2. ASSUME NEW e \in Event, file' \in Residue(e)
        PROVE  file' \in Seq(Event \cup {Torn})
    <2>1. Append(file, Torn) \in Seq(Event \cup {Torn})
      OBVIOUS
    <2>2. Append(file, e) \in Seq(Event \cup {Torn})
      OBVIOUS
    <2>3. file' \in {file, Append(file, Torn), Append(file, e)}
      BY <1>2 DEF Residue
    <2> QED BY <2>1, <2>2, <2>3
  <1>3. ASSUME NEW p \in Procs, BeginOpen(p) PROVE TypeOK'
    BY <1>3, <1>0 DEF BeginOpen
  <1>4. ASSUME NEW p \in Procs, OpenFails(p) PROVE TypeOK'
    BY <1>4, <1>0 DEF OpenFails, Released
  <1>5. ASSUME NEW p \in Procs, Recover(p) PROVE TypeOK'
    <2> DEFINE x == file[cursor[p] + 1]
    <2>1. CASE Recoverable(sessions[p], x)
      <3>1. x \in Event \cup {Torn}
        BY <1>5 DEF Recover, MoreRecords
      <3>2. x \in Event /\ validate_answer_event(x)
        BY <2>1, <3>1 DEF Recoverable, IsRecord
      <3>3. sessions' = [sessions EXCEPT ![p] = Indexed(sessions[p], x)]
        BY <1>5, <2>1 DEF Recover
      <3>4. /\ DOMAIN sessions' = Procs
            /\ \A q \in Procs :
                  /\ DOMAIN sessions'[q] \subseteq Keys
                  /\ \A k \in DOMAIN sessions'[q] : IsSessionData(sessions'[q][k])
        BY <3>2, <3>3, <1>1
      <3>5. /\ cursor' = [cursor EXCEPT ![p] = cursor[p] + 1]
            /\ UNCHANGED <<phase, lease, file, acked>>
        BY <1>5, <2>1 DEF Recover
      <3> QED BY <3>4, <3>5
    <2>2. CASE ~Recoverable(sessions[p], x)
      BY <1>5, <2>2 DEF Recover
    <2> QED BY <2>1, <2>2
  <1>6. ASSUME NEW p \in Procs, FinishOpen(p) PROVE TypeOK'
    <2>1. cursor[p] <= Len(file)
      BY <1>6 DEF FinishOpen, CursorInFile
    <2> QED BY <1>6, <2>1 DEF FinishOpen, ValidLength
  <1>7. ASSUME NEW p \in Procs, TruncateFails(p) PROVE TypeOK'
    BY <1>7 DEF TruncateFails
  <1>8. ASSUME NEW p \in Procs, Close(p) PROVE TypeOK'
    BY <1>8 DEF Close, Released
  <1>9. ASSUME NEW p \in Procs, Crash(p) PROVE TypeOK'
    BY <1>9, <1>0 DEF Crash, Released
  <1>10. ASSUME NEW p \in Procs, NEW e \in Events,
                AppendRefused(p, e) \/ AppendDuplicate(p, e) \/ AppendAccepted(p, e)
                \/ AppendStorageFails(p, e) \/ CrashInAppend(p, e)
         PROVE  TypeOK'
    <2>0. e \in Event
      BY ConstantsAssumption
    <2>1. CASE AppendRefused(p, e)
      BY <2>1 DEF AppendRefused, vars
    <2>2. CASE AppendDuplicate(p, e)
      BY <2>0, <2>2 DEF AppendDuplicate
    <2>3. CASE AppendAccepted(p, e)
      <3>1. validate_answer_event(e)
        BY <2>0, <2>3, WriteIsRecoverable DEF AppendAccepted, Recoverable
      <3>2. /\ DOMAIN sessions' = Procs
            /\ \A q \in Procs :
                  /\ DOMAIN sessions'[q] \subseteq Keys
                  /\ \A k \in DOMAIN sessions'[q] : IsSessionData(sessions'[q][k])
        BY <2>0, <2>3, <3>1, <1>1 DEF AppendAccepted
      <3>3. file' \in Seq(Event \cup {Torn})
        BY <2>0, <2>3 DEF AppendAccepted, FileAfterAppend
      <3> QED BY <2>0, <2>3, <3>2, <3>3 DEF AppendAccepted
    <2>4. CASE AppendStorageFails(p, e)
      BY <2>0, <2>4, <1>2 DEF AppendStorageFails, PhaseAfterStorageFailure
    <2>5. CASE CrashInAppend(p, e)
      BY <2>0, <2>5, <1>0, <1>2 DEF CrashInAppend, Released
    <2> QED BY <1>10, <2>1, <2>2, <2>3, <2>4, <2>5
  <1>11. CASE UNCHANGED vars
    BY <1>11 DEF vars
  <1> QED
    BY <1>3, <1>4, <1>5, <1>6, <1>7, <1>8, <1>9, <1>10, <1>11 DEF Next

\* Every step keeps the lease with the process that has the journal open.
LEMMA OwnedStep == TypeOK /\ Owned /\ [Next]_vars => Owned'
  <1> SUFFICES ASSUME TypeOK, Owned, [Next]_vars PROVE Owned'
    OBVIOUS
  <1> USE DEF TypeOK, Owned
  <1>0. NoProc \notin Procs
    BY ConstantsAssumption
  <1>1. CASE UNCHANGED vars
    BY <1>1 DEF vars
  <1>2. ASSUME NEW p \in Procs, BeginOpen(p) PROVE Owned'
    BY <1>0, <1>2 DEF BeginOpen, Acquirable
  <1>3. ASSUME NEW p \in Procs,
               OpenFails(p) \/ Close(p) \/ Crash(p) \/ TruncateFails(p)
        PROVE  Owned'
    BY <1>3 DEF OpenFails, Close, Crash, TruncateFails, Released
  <1>4. ASSUME NEW p \in Procs, Recover(p) PROVE Owned'
    BY <1>4 DEF Recover
  <1>5. ASSUME NEW p \in Procs, FinishOpen(p) PROVE Owned'
    BY <1>5 DEF FinishOpen
  <1>6. ASSUME NEW p \in Procs, NEW e \in Events,
               AppendRefused(p, e) \/ AppendDuplicate(p, e) \/ AppendAccepted(p, e)
               \/ AppendStorageFails(p, e) \/ CrashInAppend(p, e)
        PROVE  Owned'
    BY <1>6 DEF AppendRefused, AppendDuplicate, AppendAccepted, vars,
                AppendStorageFails, CrashInAppend, PhaseAfterStorageFailure, Released
  <1> QED
    BY <1>1, <1>2, <1>3, <1>4, <1>5, <1>6 DEF Next

----------------------------------------------------------------------------
(***************************************************************************)
(* The replay: what each step does to the file and to the indexes.         *)
(***************************************************************************)

\* While the file stays as it is, a replay stays one when every process that
\* is not closed afterwards holds an index of it.
LEMMA SameFile ==
  ASSUME NEW R, Replayed(R), file' = file,
         \A p \in Procs : phase'[p] # "closed" =>
            /\ cursor'[p] \in 0..Complete(file)
            /\ sessions'[p] = R[cursor'[p]]
            /\ phase'[p] = "open" => cursor'[p] = Len(file)
  PROVE  Replayed(R)'
  <1>1. Complete(file') = Complete(file)
    OBVIOUS
  <1>2. /\ IsReplay(file', R, Complete(file'))
        /\ \A i \in 0..Complete(file') : Knows(file', R[i], i)
    BY <1>1 DEF Replayed
  <1> QED BY <1>1, <1>2 DEF Replayed

\* A residue of a failed append keeps a replay of the file.
LEMMA ResidueReplayed ==
  ASSUME NEW R, NEW e \in Event, NEW p \in Procs, TypeOK, Owned, Replayed(R),
         phase[p] = "open", Recoverable(sessions[p], e), file' \in Residue(e),
         \A q \in Procs : phase'[q] = IF q = p THEN "closed" ELSE phase[q]
  PROVE  /\ \E S : Replayed(S)'
         /\ Complete(file) <= Complete(file')
         /\ \A i \in 1..Complete(file) : file'[i] = file[i]
  <1> DEFINE n == Len(file)
  <1>0. n \in Nat /\ Complete(file) = n /\ sessions[p] = R[n]
        /\ cursor[p] = n /\ Torn \notin Event
    <2>1. cursor[p] = n /\ cursor[p] \in 0..Complete(file) /\ sessions[p] = R[cursor[p]]
      BY DEF Replayed
    <2>2. n \in Nat
      BY DEF TypeOK
    <2>3. Complete(file) = n
      BY <2>1, <2>2 DEF Complete
    <2> QED BY <2>1, <2>2, <2>3, ConstantsAssumption
  <1>1. \A q \in Procs : phase'[q] = "closed"
    BY DEF Owned
  <1>2. /\ IsReplay(file, R, n) /\ \A i \in 0..n : Knows(file, R[i], i)
    BY <1>0 DEF Replayed
  <1>3. CASE file' = file
    <2>1. Replayed(R)'
      BY <1>1, <1>3, SameFile
    <2> QED BY <1>0, <1>3, <2>1
  <1>4. CASE file' = Append(file, Torn)
    <2>1. /\ Len(file') = n + 1 /\ file'[n + 1] = Torn
          /\ \A i \in 1..n : file'[i] = file[i]
      BY <1>0, <1>4 DEF TypeOK
    <2>2. Complete(file') = n
      BY <1>0, <2>1 DEF Complete
    <2>3. IsReplay(file', R, n)
      BY <1>0, <1>2, <2>1, ReplayPrefix
    <2>4. ASSUME NEW i \in 0..n PROVE Knows(file', R[i], i)
      BY <1>0, <1>2, <2>1, KnowsPrefix
    <2>5. Replayed(R)'
      BY <1>1, <2>2, <2>3, <2>4 DEF Replayed
    <2> QED BY <1>0, <2>1, <2>2, <2>5
  <1>5. CASE file' = Append(file, e)
    <2>1. /\ Len(file') = n + 1 /\ file'[n + 1] = e
          /\ \A i \in 1..n : file'[i] = file[i]
      BY <1>0, <1>5 DEF TypeOK
    <2>2. Complete(file') = n + 1
      BY <1>0, <2>1 DEF Complete
    <2>3. Recoverable(R[n], e)
      BY <1>0
    <2>4. PICK S : /\ IsReplay(file', S, n + 1)
                   /\ \A i \in 0..(n + 1) : Knows(file', S[i], i)
      BY <1>0, <1>2, <2>1, <2>3, ExtendReplay
    <2>5. Replayed(S)'
      BY <1>1, <2>2, <2>4 DEF Replayed
    <2> QED BY <1>0, <2>1, <2>2, <2>5
  <1>6. file' \in {file, Append(file, Torn), Append(file, e)}
    BY DEF Residue
  <1> QED BY <1>3, <1>4, <1>5, <1>6

\* The invariant is inductive: one case per action.
LEMMA ReplayStep ==
  TypeOK /\ Owned /\ AckedInFile /\ (\E R : Replayed(R)) /\ [Next]_vars
     => AckedInFile' /\ (\E R : Replayed(R)')
  <1> SUFFICES ASSUME TypeOK, Owned, AckedInFile, NEW R, Replayed(R), [Next]_vars
               PROVE  AckedInFile' /\ (\E S : Replayed(S)')
    OBVIOUS
  <1> DEFINE n == Complete(file)
             Held == \A p \in Procs : phase'[p] # "closed" =>
                        /\ cursor'[p] \in 0..n
                        /\ sessions'[p] = R[cursor'[p]]
                        /\ phase'[p] = "open" => cursor'[p] = Len(file)
  <1>0. /\ n \in Nat /\ n <= Len(file)
        /\ IsReplay(file, R, n)
        /\ \A i \in 0..n : Knows(file, R[i], i)
        /\ \A i \in 1..n : file[i] \in Event
    <2>1. Len(file) \in Nat
      BY DEF TypeOK
    <2>2. n \in Nat /\ n <= Len(file)
      BY <2>1 DEF Complete
    <2> QED BY <2>2 DEF Replayed, IsReplay
  <1>1. /\ \A p \in Procs : phase[p] # "closed" =>
              cursor[p] \in 0..n /\ sessions[p] = R[cursor[p]]
        /\ \A p \in Procs : phase[p] = "open" => cursor[p] = Len(file)
    BY DEF Replayed
  <1>2. ASSUME file' = file, acked' = acked, Held
        PROVE  AckedInFile' /\ (\E S : Replayed(S)')
    BY <1>2, SameFile DEF AckedInFile
  <1>3. CASE UNCHANGED vars
    BY <1>1, <1>2, <1>3 DEF vars
  <1>4. ASSUME NEW p \in Procs, BeginOpen(p)
        PROVE  AckedInFile' /\ (\E S : Replayed(S)')
    <2>1. \A q \in Procs : q # p => phase'[q] = "closed"
      BY <1>4, ConstantsAssumption DEF BeginOpen, Acquirable, Owned, TypeOK
    <2>2. phase'[p] = "recovering" /\ cursor'[p] = 0 /\ sessions'[p] = <<>>
      BY <1>4 DEF BeginOpen, TypeOK
    <2>3. R[0] = <<>> /\ 0 \in 0..n
      BY <1>0 DEF IsReplay
    <2>4. Held
      BY <2>1, <2>2, <2>3
    <2> QED BY <1>2, <1>4, <2>4 DEF BeginOpen
  <1>5. ASSUME NEW p \in Procs,
               OpenFails(p) \/ Close(p) \/ Crash(p) \/ TruncateFails(p)
        PROVE  AckedInFile' /\ (\E S : Replayed(S)')
    <2>1. /\ file' = file /\ acked' = acked
          /\ \A q \in Procs : phase'[q] # "closed" =>
                /\ q # p /\ phase'[q] = phase[q] /\ cursor'[q] = cursor[q]
                /\ sessions'[q] = sessions[q]
      BY <1>5 DEF OpenFails, Close, Crash, TruncateFails, TypeOK
    <2>2. Held
      BY <1>1, <2>1
    <2> QED BY <1>2, <2>1, <2>2
  <1>6. ASSUME NEW p \in Procs, Recover(p)
        PROVE  AckedInFile' /\ (\E S : Replayed(S)')
    <2> DEFINE c == cursor[p]
               x == file[c + 1]
    <2>1. /\ file' = file /\ acked' = acked /\ c \in 0..n /\ sessions[p] = R[c]
      BY <1>1, <1>6 DEF Recover
    <2>2. c < n
      BY <1>0, <1>6, <2>1, MoreIsComplete DEF Recover
    <2>3. c + 1 \in 1..n /\ (c + 1) - 1 = c
      BY <1>0, <2>1, <2>2
    <2>4. Recoverable(sessions[p], x) /\ R[c + 1] = Indexed(R[c], x)
      BY <1>0, <2>1, <2>3 DEF IsReplay
    <2>5. /\ sessions' = [sessions EXCEPT ![p] = Indexed(sessions[p], x)]
          /\ cursor' = [cursor EXCEPT ![p] = c + 1]
          /\ phase' = phase /\ phase[p] = "recovering"
      BY <1>6, <2>4 DEF Recover
    <2>6. Held
      <3>1. sessions'[p] = R[c + 1] /\ cursor'[p] = c + 1 /\ phase'[p] # "open"
        BY <2>1, <2>4, <2>5 DEF TypeOK
      <3>2. \A q \in Procs : q # p =>
               sessions'[q] = sessions[q] /\ cursor'[q] = cursor[q]
        BY <2>5 DEF TypeOK
      <3> QED BY <1>1, <2>3, <2>5, <3>1, <3>2
    <2> QED BY <1>2, <2>1, <2>6
  <1>7. ASSUME NEW p \in Procs, FinishOpen(p)
        PROVE  AckedInFile' /\ (\E S : Replayed(S)')
    <2>1. /\ cursor[p] \in 0..n /\ sessions[p] = R[cursor[p]]
          /\ phase[p] = "recovering"
      BY <1>1, <1>7 DEF FinishOpen
    <2>2. cursor[p] = n
      BY <1>0, <1>7, <2>1, MoreIsComplete DEF FinishOpen
    <2>3. /\ Len(file') = n /\ \A i \in 1..n : file'[i] = file[i]
      BY <1>0, <1>7, <2>2 DEF FinishOpen, ValidLength, TypeOK
    <2>4. Complete(file') = n
      <3>1. n # 0 => n \in 1..n /\ file[n] \in Event
        BY <1>0
      <3>2. ~(Len(file') # 0 /\ file'[Len(file')] = Torn)
        BY <2>3, <3>1, ConstantsAssumption
      <3> QED BY <2>3, <3>2 DEF Complete
    <2>5. IsReplay(file', R, n)
      BY <1>0, <2>3, ReplayPrefix
    <2>6. ASSUME NEW i \in 0..n PROVE Knows(file', R[i], i)
      BY <1>0, <2>3, KnowsPrefix
    <2>7. /\ \A q \in Procs : q # p => phase'[q] = "closed"
          /\ cursor' = cursor /\ sessions' = sessions
      BY <1>7, <2>1 DEF FinishOpen, Owned, TypeOK
    <2>8. Replayed(R)'
      BY <1>0, <2>1, <2>2, <2>3, <2>4, <2>5, <2>6, <2>7 DEF Replayed
    <2>9. AckedInFile'
      BY <1>7, <2>3, <2>4 DEF AckedInFile, FinishOpen
    <2> QED BY <2>8, <2>9
  <1>8. ASSUME NEW p \in Procs, NEW e \in Events, AppendRefused(p, e)
        PROVE  AckedInFile' /\ (\E S : Replayed(S)')
    BY <1>1, <1>2, <1>8 DEF AppendRefused, vars
  <1>9. ASSUME NEW p \in Procs, NEW e \in Events, AppendDuplicate(p, e)
        PROVE  AckedInFile' /\ (\E S : Replayed(S)')
    <2>1. /\ cursor[p] \in 0..n /\ cursor[p] = Len(file) /\ sessions[p] = R[cursor[p]]
          /\ e \in Event
      BY <1>1, <1>9, ConstantsAssumption DEF AppendDuplicate
    <2>2. cursor[p] = n
      BY <1>0, <2>1
    <2>3. Knows(file, sessions[p], n)
      BY <1>0, <2>1, <2>2
    <2>4. \E i \in 1..n : file[i] = e
      BY <1>0, <1>9, <2>1, <2>3, DuplicateIsRecord DEF AppendDuplicate
    <2>5. AckedInFile'
      BY <1>9, <2>4 DEF AckedInFile, AppendDuplicate
    <2>6. Replayed(R)'
      BY <1>1, <1>9, SameFile DEF AppendDuplicate
    <2> QED BY <2>5, <2>6
  <1>10. ASSUME NEW p \in Procs, NEW e \in Events, AppendAccepted(p, e)
         PROVE  AckedInFile' /\ (\E S : Replayed(S)')
    <2>1. /\ cursor[p] \in 0..n /\ cursor[p] = Len(file) /\ sessions[p] = R[cursor[p]]
          /\ e \in Event
      BY <1>1, <1>10, ConstantsAssumption DEF AppendAccepted
    <2>2. cursor[p] = n /\ Len(file) = n
      BY <1>0, <2>1
    <2>3. Recoverable(R[n], e)
      BY <1>10, <2>1, <2>2, WriteIsRecoverable DEF AppendAccepted
    <2>4. /\ Len(file') = n + 1 /\ file'[n + 1] = e
          /\ \A i \in 1..n : file'[i] = file[i]
      BY <1>0, <1>10, <2>1, <2>2 DEF AppendAccepted, FileAfterAppend, TypeOK
    <2>5. Complete(file') = n + 1
      BY <1>0, <2>1, <2>4, ConstantsAssumption DEF Complete
    <2>6. PICK S : /\ IsReplay(file', S, n + 1)
                   /\ \A i \in 0..(n + 1) : Knows(file', S[i], i)
                   /\ S[n + 1] = Indexed(R[n], e)
      BY <1>0, <2>1, <2>3, <2>4, ExtendReplay
    <2>7. /\ \A q \in Procs : q # p => phase'[q] = "closed"
          /\ cursor'[p] = n + 1 /\ sessions'[p] = Indexed(R[n], e)
          /\ phase'[p] = "open"
      BY <1>10, <2>1, <2>2 DEF AppendAccepted, Owned, TypeOK
    <2>8. Replayed(S)'
      BY <1>0, <2>4, <2>5, <2>6, <2>7 DEF Replayed
    <2>9. n + 1 \in 1..Complete(file') /\ 1..n \subseteq 1..Complete(file')
      BY <1>0, <2>5
    <2>10. AckedInFile'
      BY <1>10, <2>4, <2>9 DEF AckedInFile, AppendAccepted
    <2> QED BY <2>8, <2>10
  <1>11. ASSUME NEW p \in Procs, NEW e \in Events,
                AppendStorageFails(p, e) \/ CrashInAppend(p, e)
         PROVE  AckedInFile' /\ (\E S : Replayed(S)')
    <2>1. /\ phase[p] = "open" /\ e \in Event /\ file' \in Residue(e)
          /\ Verdict(sessions[p], e) = "write" /\ acked' = acked
          /\ \A q \in Procs : phase'[q] = IF q = p THEN "closed" ELSE phase[q]
      BY <1>11, ConstantsAssumption
      DEF AppendStorageFails, CrashInAppend, PhaseAfterStorageFailure, TypeOK
    <2>2. Recoverable(sessions[p], e)
      BY <2>1, WriteIsRecoverable
    <2>3. /\ \E S : Replayed(S)'
          /\ Complete(file) <= Complete(file')
          /\ \A i \in 1..Complete(file) : file'[i] = file[i]
      BY <2>1, <2>2, ResidueReplayed
    <2>4. Complete(file') \in Int
      <3>1. file' \in Seq(Event \cup {Torn})
        BY TypeStep, <1>0, <1>1 DEF TypeOK, CursorInFile
      <3> QED BY <3>1 DEF Complete
    <2>5. AckedInFile'
      BY <1>0, <2>1, <2>3, <2>4 DEF AckedInFile
    <2> QED BY <2>3, <2>5
  <1> QED
    BY <1>3, <1>4, <1>5, <1>6, <1>7, <1>8, <1>9, <1>10, <1>11 DEF Next

----------------------------------------------------------------------------
(***************************************************************************)
(* The theorems.                                                           *)
(***************************************************************************)
\* The empty file of a new installation satisfies the invariant.
LEMMA InitIInv == Init => IInv
  <1> SUFFICES ASSUME Init PROVE IInv
    OBVIOUS
  <1> DEFINE R == [i \in {0} |-> <<>>]
  <1>1. Len(file) = 0 /\ Complete(file) = 0 /\ DOMAIN (<<>>) = {}
    BY DEF Init, Complete
  <1>2. TypeOK
    BY <1>1 DEF Init, TypeOK
  <1>3. Owned /\ AckedInFile
    BY DEF Init, Owned, AckedInFile
  <1>4. R[0] = <<>>
    OBVIOUS
  <1> HIDE DEF R
  <1>5. IsReplay(file, R, 0) /\ Knows(file, R[0], 0)
    BY <1>1, <1>4 DEF IsReplay, Knows
  <1>6. Replayed(R)
    BY <1>1, <1>5 DEF Replayed, Init
  <1> QED BY <1>2, <1>3, <1>6 DEF IInv

\* Every step of every process keeps the invariant.
LEMMA StepIInv == IInv /\ [Next]_vars => IInv'
  <1> SUFFICES ASSUME IInv, [Next]_vars PROVE IInv'
    OBVIOUS
  <1>1. CursorInFile
    <2>1. PICK R : Replayed(R)
      BY DEF IInv
    <2>2. Len(file) \in Nat
      BY DEF IInv, TypeOK
    <2> QED BY <2>1, <2>2 DEF Replayed, CursorInFile, Complete
  <1>2. TypeOK' /\ Owned'
    BY <1>1, TypeStep, OwnedStep DEF IInv
  <1>3. AckedInFile' /\ (\E R : Replayed(R)')
    BY ReplayStep DEF IInv
  <1> QED BY <1>2, <1>3 DEF IInv

\* The inductive invariant holds in every reachable state of the journal.
THEOREM InvariantThm == Spec => []IInv
  BY InitIInv, StepIInv, PTL DEF Spec

\* The state of the journal always has the types the code gives it.
THEOREM TypeOKThm == Spec => []TypeOK
  <1>1. IInv => TypeOK
    BY DEF IInv
  <1> QED BY <1>1, InvariantThm, PTL

\* append(): an acknowledged answer is a complete record of the file for ever,
\* over crashes, failed writes, failed rollbacks and reopenings.
THEOREM AckedDurableThm == Spec => []AckedDurable
  <1>1. IInv => AckedDurable
    <2> SUFFICES ASSUME IInv, NEW a \in acked PROVE a \in Records
      BY DEF AckedDurable
    <2>1. PICK i \in 1..Complete(file) : file[i] = a
      BY DEF IInv, AckedInFile
    <2>2. Len(file) \in Nat /\ a \in Event /\ Torn \notin Event
      BY ConstantsAssumption DEF IInv, TypeOK
    <2>3. i \in 1..Len(file) /\ IsRecord(file[i])
      BY <2>1, <2>2 DEF Complete, IsRecord
    <2> QED BY <2>1, <2>3 DEF Records
  <1> QED BY <1>1, InvariantThm, PTL

\* open(): the replay loop accepts every complete record of a file that this
\* code has written, whatever failures left the file as it is.
THEOREM ReopenNeverFailsThm == Spec => []ReopenNeverFails
  <1>1. IInv => ReopenNeverFails
    <2> SUFFICES ASSUME IInv, NEW p \in Procs, phase[p] = "recovering", MoreRecords(p)
                 PROVE  Recoverable(sessions[p], file[cursor[p] + 1])
      BY DEF ReopenNeverFails
    <2>1. PICK R : Replayed(R)
      BY DEF IInv
    <2> DEFINE c == cursor[p]
    <2>2. /\ c \in 0..Complete(file) /\ sessions[p] = R[c]
          /\ IsReplay(file, R, Complete(file)) /\ TypeOK
      BY <2>1 DEF Replayed, IInv
    <2>3. \A i \in 1..Complete(file) : file[i] \in Event
      BY <2>2 DEF IsReplay
    <2>4. c < Complete(file) /\ Complete(file) \in Nat
      BY <2>2, <2>3, MoreIsComplete
    <2>5. c + 1 \in 1..Complete(file) /\ (c + 1) - 1 = c
      BY <2>2, <2>4
    <2> QED BY <2>2, <2>5 DEF IsReplay
  <1> QED BY <1>1, InvariantThm, PTL

\* The index of the process that has the journal open knows exactly the
\* records of the file.
THEOREM IndexMatchesFileThm == Spec => []IndexMatchesFile
  <1>1. IInv => IndexMatchesFile
    <2> SUFFICES ASSUME IInv, NEW p \in Procs, phase[p] = "open"
                 PROVE  /\ cursor[p] = Len(file)
                        /\ \A i \in 1..Len(file) : IsRecord(file[i])
                        /\ Knows(file, sessions[p], Len(file))
      BY DEF IndexMatchesFile, Knows
    <2>1. PICK R : Replayed(R)
      BY DEF IInv
    <2>2. /\ cursor[p] \in 0..Complete(file) /\ sessions[p] = R[cursor[p]]
          /\ cursor[p] = Len(file)
      BY <2>1 DEF Replayed
    <2>3. Len(file) \in Nat
      BY DEF IInv, TypeOK
    <2>4. Complete(file) = Len(file)
      BY <2>2, <2>3 DEF Complete
    <2>5. Knows(file, sessions[p], Len(file))
      BY <2>1, <2>2, <2>4 DEF Replayed
    <2>6. \A i \in 1..Len(file) : IsRecord(file[i])
      BY <2>1, <2>4 DEF Replayed, IsReplay, Recoverable
    <2> QED BY <2>2, <2>5, <2>6
  <1> QED BY <1>1, InvariantThm, PTL

\* No two acknowledgements of one session disagree, and none is for an event
\* after an acknowledged finalize.
THEOREM AcksNeverDisagreeThm == Spec => []AcksNeverDisagree
  <1>1. IInv => AcksNeverDisagree
    <2> SUFFICES ASSUME IInv, NEW a \in acked, NEW b \in acked, a.key = b.key
                 PROVE  /\ a.sequence = b.sequence => a = b
                        /\ a.kind = "finalize" => b.sequence <= a.sequence
      BY DEF AcksNeverDisagree
    <2>1. PICK R : Replayed(R)
      BY DEF IInv
    <2> DEFINE n == Complete(file)
               s == R[n][a.key]
    <2>2. PICK i \in 1..n : file[i] = a
      BY DEF IInv, AckedInFile
    <2>3. PICK j \in 1..n : file[j] = b
      BY DEF IInv, AckedInFile
    <2>4. n \in Nat /\ a \in Event /\ b \in Event
      BY DEF IInv, TypeOK, Complete
    <2>5. Knows(file, R[n], n)
      BY <2>1, <2>4 DEF Replayed
    <2>6. a.sequence = b.sequence => a = b
      <3>1. /\ s.event_hashes[a.sequence] = hash_answer_event(a)
            /\ s.event_hashes[b.sequence] = hash_answer_event(b)
        BY <2>2, <2>3, <2>5 DEF Knows
      <3> QED BY <3>1, <2>4, HashInjective
    <2>7. a.kind = "finalize" => b.sequence <= a.sequence
      BY <2>2, <2>3, <2>5 DEF Knows
    <2> QED BY <2>6, <2>7
  <1> QED BY <1>1, InvariantThm, PTL

\* Complete records are never rewritten, moved or removed by any step.
THEOREM JournalOnlyGrowsThm == Spec => JournalOnlyGrows
  <1> DEFINE Kept == \A i \in 1..Len(file) :
                        IsRecord(file[i]) => i <= Len(file') /\ file'[i] = file[i]
  <1>1. IInv /\ [Next]_vars => Kept
    <2> SUFFICES ASSUME IInv, [Next]_vars PROVE Kept
      OBVIOUS
    <2>0. file \in Seq(Event \cup {Torn}) /\ Len(file) \in Nat
      BY DEF IInv, TypeOK
    <2>1. CASE file' = file
      BY <2>0, <2>1
    <2>2. ASSUME NEW x \in Event \cup {Torn}, file' = Append(file, x) PROVE Kept
      BY <2>0, <2>2
    <2>3. ASSUME NEW e \in Events, file' \in Residue(e) PROVE Kept
      <3>1. file' \in {file, Append(file, Torn), Append(file, e)} /\ e \in Event
        BY <2>3, ConstantsAssumption DEF Residue
      <3> QED BY <2>1, <2>2, <3>1
    <2>4. ASSUME NEW p \in Procs, FinishOpen(p) PROVE Kept
      <3>1. PICK R : Replayed(R)
        BY DEF IInv
      <3>2. /\ cursor[p] \in 0..Complete(file) /\ TypeOK
            /\ \A i \in 1..Complete(file) : file[i] \in Event
        BY <2>4, <3>1 DEF Replayed, IsReplay, FinishOpen, IInv
      <3>3. cursor[p] = Complete(file) /\ Complete(file) \in Nat
            /\ Complete(file) <= Len(file)
        BY <2>4, <3>2, MoreIsComplete DEF FinishOpen
      <3>4. /\ Len(file') = Complete(file)
            /\ \A i \in 1..Complete(file) : file'[i] = file[i]
        BY <2>0, <2>4, <3>3 DEF FinishOpen, ValidLength
      <3>5. \A i \in 1..Len(file) : IsRecord(file[i]) => i \in 1..Complete(file)
        BY <2>0 DEF Complete, IsRecord
      <3> QED BY <3>3, <3>4, <3>5
    <2>5. ASSUME NEW p \in Procs, NEW e \in Events, AppendAccepted(p, e) PROVE Kept
      <3>1. e \in Event /\ file' = Append(file, e)
        BY <2>5, ConstantsAssumption DEF AppendAccepted, FileAfterAppend
      <3> QED BY <2>2, <3>1
    <2> QED
      BY <2>1, <2>3, <2>4, <2>5
      DEF Next, vars, BeginOpen, OpenFails, Recover, TruncateFails, Close, Crash,
          AppendRefused, AppendDuplicate, AppendStorageFails, CrashInAppend
  <1>2. IInv /\ [Next]_vars => [Kept]_vars
    BY <1>1
  <1> QED BY <1>2, InvariantThm, PTL DEF Spec, JournalOnlyGrows

=============================================================================
