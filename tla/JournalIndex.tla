---------------------------- MODULE JournalIndex ----------------------------
(***************************************************************************)
(* The in-memory index of the answer journal and the decisions append()    *)
(* takes from it (common/src/answer_journal.cpp, AnswerJournal::Impl).     *)
(***************************************************************************)
EXTENDS AnswerEvents, FiniteSets

CONSTANTS
    MaxSessions,      \* kMaximumJournalSessions
    MaxStateEntries   \* kMaximumStateEntries

(***************************************************************************)
(* The in-memory session: Impl::SessionData.                               *)
(***************************************************************************)
AnswerState == [sequence: Nat, answer: Answers \cup {NoAnswer}, hash: Digest]

IsMap(f, T) == f = [x \in DOMAIN f |-> f[x]] /\ \A x \in DOMAIN f : f[x] \in T

IsSessionData(s) ==
    /\ DOMAIN s = {"candidate", "highest", "last", "finalized",
                   "event_hashes", "answers"}
    /\ s.candidate \in Candidates
    /\ s.highest \in Nat
    /\ s.last \in Digest
    /\ s.finalized \in BOOLEAN
    /\ DOMAIN s.event_hashes \subseteq Nat /\ IsMap(s.event_hashes, Digest)
    /\ DOMAIN s.answers \subseteq Questions /\ IsMap(s.answers, AnswerState)

NewSession(e) ==
    [candidate |-> e.candidate, highest |-> 0, last |-> ZeroDigest,
     finalized |-> FALSE, event_hashes |-> [n \in {} |-> ZeroDigest],
     answers |-> [q \in {} |-> [sequence |-> 0, answer |-> NoAnswer,
                                hash |-> ZeroDigest]]]

\* try_emplace: the session of the event, created empty when it is missing.
SessionFor(index, e) ==
    IF e.key \in DOMAIN index THEN index[e.key] ELSE NewSession(e)

\* Domain of the answers map after the event is applied.
QuestionsAfter(s, e) ==
    CASE e.kind = "upsert" -> DOMAIN s.answers \cup {e.question}
      [] e.kind = "clear"  -> DOMAIN s.answers \ {e.question}
      [] OTHER             -> DOMAIN s.answers

\* The event follows the session it is applied to.
Follows(s, e) ==
    /\ e.sequence = s.highest + 1
    /\ e.previous = s.last
    /\ s.candidate = e.candidate
    /\ ~s.finalized

\* The session after apply_recovered() has indexed the event.
Apply(s, e) ==
    [candidate |-> s.candidate,
     highest |-> e.sequence,
     last |-> hash_answer_event(e),
     finalized |-> (e.kind = "finalize"),
     event_hashes |->
        [n \in DOMAIN s.event_hashes \cup {e.sequence} |->
            IF n = e.sequence THEN hash_answer_event(e) ELSE s.event_hashes[n]],
     answers |->
        [q \in QuestionsAfter(s, e) |->
            IF q = e.question
            THEN [sequence |-> e.sequence, answer |-> e.answer,
                  hash |-> hash_answer_event(e)]
            ELSE s.answers[q]]]

Indexed(index, e) ==
    [k \in DOMAIN index \cup {e.key} |->
        IF k = e.key THEN Apply(SessionFor(index, e), e) ELSE index[k]]

SessionQuotaLeft(index, e) ==
    e.key \in DOMAIN index \/ Cardinality(DOMAIN index) < MaxSessions

AnswerQuotaLeft(s, e) ==
    \/ e.kind # "upsert"
    \/ e.question \in DOMAIN s.answers
    \/ Cardinality(DOMAIN s.answers) < MaxStateEntries

----------------------------------------------------------------------------
(***************************************************************************)
(* append(): the checks in the order the code makes them.                  *)
(***************************************************************************)
\* A bug the checks must catch: the sequence number alone decides.
VerdictBySequence(index, e) ==
    LET s == SessionFor(index, e) IN
    IF e.sequence \in DOMAIN s.event_hashes THEN "duplicate"
    ELSE IF s.finalized THEN "rejected" ELSE "write"

Verdict(index, e) ==
    LET s == SessionFor(index, e) IN
    IF ~validate_answer_event(e) THEN "rejected"
    ELSE IF ~SessionQuotaLeft(index, e) THEN "unavailable"
    ELSE IF s.candidate # e.candidate THEN "conflict"
    ELSE IF e.sequence \in DOMAIN s.event_hashes
         THEN IF s.event_hashes[e.sequence] = hash_answer_event(e)
              THEN "duplicate" ELSE "conflict"
    ELSE IF ~AnswerQuotaLeft(s, e) THEN "rejected"
    ELSE IF s.finalized THEN "rejected"
    ELSE IF e.sequence # s.highest + 1 THEN "gap"
    ELSE IF e.previous # s.last THEN "conflict"
    ELSE "write"
=============================================================================
