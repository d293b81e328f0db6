--------------------------- MODULE MCAnswerOutbox ---------------------------
(* A small instance of AnswerOutbox: two sessions that share a session id,   *)
(* chains of up to three events, a rebased second event, and files of the    *)
(* older formats to start from.                                              *)
EXTENDS AnswerOutbox, TLC

Ev(k, n, prev, kind, q, a) ==
    [key |-> k, candidate |-> "c1", sequence |-> n, previous |-> prev,
     kind |-> kind, question |-> q, answer |-> a]

A1 == Ev("k1", 1, ZeroDigest, "upsert", "q1", "a")
\* The answer the server has at sequence 1 when another page wrote it.
B1 == Ev("k1", 1, ZeroDigest, "upsert", "q1", "b")
A2 == Ev("k1", 2, hash_answer_event(A1), "upsert", "q1", "b")
\* The same second answer after the page learned of the other predecessor.
R2 == [A2 EXCEPT !.previous = hash_answer_event(B1)]
A3(p) == Ev("k1", 3, hash_answer_event(p), "finalize", NoQuestion, NoAnswer)
C3(p) == Ev("k1", 3, hash_answer_event(p), "clear", "q1", NoAnswer)
D1 == Ev("k2", 1, ZeroDigest, "upsert", "q1", "a")
D2 == Ev("k2", 2, hash_answer_event(D1), "finalize", NoQuestion, NoAnswer)

MCEvents == {A1, B1, A2, R2, A3(A2), A3(R2), C3(A2), D1, D2,
             [A2 EXCEPT !.candidate = "c2"]}

Nothing == [k \in Keys |-> <<>>]
Image(v, events, marks) == [version |-> v, events |-> events, watermarks |-> marks]
Mark(n, last, m, acked) ==
    [k1 |-> [candidate |-> "c1", highest |-> n, last |-> last,
             acknowledged_sequence |-> m, acknowledged_hash |-> acked,
             finalized |-> FALSE]]

H(e) == hash_answer_event(e)
MCInitialStates ==
    {[image |-> EmptyImage, journal |-> Nothing],
     \* The client lost its outbox; the server remembers the session.
     [image |-> EmptyImage, journal |-> [Nothing EXCEPT !["k1"] = <<H(B1)>>]],
     \* Version 1: events alone, the first one acknowledged earlier.
     [image |-> Image(1, {A2, A3(A2)}, <<>>),
      journal |-> [Nothing EXCEPT !["k1"] = <<H(A1)>>]],
     \* Version 2: a highest event that is gone, so it was acknowledged.
     [image |-> Image(2, {D1}, Mark(2, H(A2), 0, ZeroDigest) @@
                               [k2 |-> [candidate |-> "c1", highest |-> 1,
                                        last |-> H(D1),
                                        acknowledged_sequence |-> 0,
                                        acknowledged_hash |-> ZeroDigest,
                                        finalized |-> FALSE]]),
      journal |-> [Nothing EXCEPT !["k1"] = <<H(A1), H(A2)>>]],
     \* Version 3: an acknowledged boundary and a waiting event; the server
     \* has another first answer, so the page will rebase the second one.
     [image |-> Image(3, {A2}, Mark(2, H(A2), 1, H(A1))),
      journal |-> [Nothing EXCEPT !["k1"] = <<H(B1)>>]]}

MCSessionId == [k \in Keys |-> "s1"]
=============================================================================
