---------------------------- MODULE AnswerEvents ----------------------------
(***************************************************************************)
(* The answer event shared by the exam page, the client outbox and the     *)
(* server journal (common/include/nstu/exam_sync.hpp), its hash and its    *)
(* validation.  A session key stands for package id, package digest,       *)
(* client id and session id; the question revision is part of the answer.  *)
(***************************************************************************)
EXTENDS Naturals, Sequences

CONSTANTS
    Keys,             \* session keys: package, digest, client and session id
    Candidates,       \* candidate identities
    Questions,        \* question identifiers
    Answers,          \* answer payloads, with the question revision
    NoQuestion,       \* the empty question id of a finalize event
    NoAnswer          \* the empty payload of clear and finalize events

(***************************************************************************)
(* Events and their hashes.  SHA-256 is taken to be injective: the digest  *)
(* of an event is the chain of bodies that leads to it, and all zeroes is  *)
(* the empty chain.                                                        *)
(***************************************************************************)
Kinds == {"upsert", "clear", "finalize"}

Body == [key: Keys, candidate: Candidates, sequence: Nat, kind: Kinds,
         question: Questions \cup {NoQuestion},
         answer: Answers \cup {NoAnswer}]

Digest == Seq(Body)
ZeroDigest == <<>>

Event == [key: Keys, candidate: Candidates, sequence: Nat, previous: Digest,
          kind: Kinds, question: Questions \cup {NoQuestion},
          answer: Answers \cup {NoAnswer}]

hash_answer_event(e) ==
    Append(e.previous,
           [key |-> e.key, candidate |-> e.candidate, sequence |-> e.sequence,
            kind |-> e.kind, question |-> e.question, answer |-> e.answer])

validate_answer_event(e) ==
    /\ e.sequence # 0
    /\ e.kind # "finalize" => e.question \in Questions
    /\ e.kind = "finalize" => e.question = NoQuestion /\ e.answer = NoAnswer
    /\ e.kind = "clear" => e.answer = NoAnswer
    /\ e.sequence = 1 => e.previous = ZeroDigest

(***************************************************************************)
(* The elements of a queue at the positions of I, in their order: what a   *)
(* filter of the page and of the service leaves.                           *)
(***************************************************************************)
Picked(s, I) ==
    LET picked[i \in 0..Len(s)] ==
            IF i = 0 THEN <<>>
            ELSE IF i \in I THEN Append(picked[i - 1], s[i]) ELSE picked[i - 1]
    IN picked[Len(s)]
=============================================================================
