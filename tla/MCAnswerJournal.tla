-------------------------- MODULE MCAnswerJournal --------------------------
(* A small instance of AnswerJournal: two server processes, two sessions     *)
(* that fit the session quota and a third that does not, chains of up to     *)
(* three events, and events that do not follow the chain.                    *)
EXTENDS AnswerJournal

Ev(k, c, n, prev, kind, q, a) ==
    [key |-> k, candidate |-> c, sequence |-> n, previous |-> prev,
     kind |-> kind, question |-> q, answer |-> a]

First == {Ev("k1", "c1", 1, ZeroDigest, "upsert", "q1", "a"),
          Ev("k1", "c1", 1, ZeroDigest, "upsert", "q1", "b")}

\* Second events: an overwrite, a clear, a finalize; for one predecessor only,
\* a question beyond the quota and another candidate.
Second ==
    {Ev("k1", "c1", 2, hash_answer_event(f), kq[1], kq[2], kq[3]) :
        f \in First, kq \in {<<"clear", "q1", NoAnswer>>,
                             <<"finalize", NoQuestion, NoAnswer>>}}
    \cup {Ev("k1", c, 2, hash_answer_event(f), "upsert", "q2", "a") :
        f \in {g \in First : g.answer = "a"}, c \in {"c1", "c2"}}

Third ==
    {Ev("k1", "c1", 3, hash_answer_event(f), "upsert", "q2", "b") :
        f \in {g \in Second : g.kind \in {"clear", "finalize"}}}

Other ==
    {Ev("k2", "c2", 1, ZeroDigest, "finalize", NoQuestion, NoAnswer),
     Ev("k3", "c1", 1, ZeroDigest, "upsert", "q1", "a"),
     Ev("k2", "c2", 1, hash_answer_event(CHOOSE f \in First : TRUE),
        "upsert", "q1", "a")}

MCEvents == First \cup Second \cup Third \cup Other
=============================================================================
