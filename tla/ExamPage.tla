------------------------------ MODULE ExamPage ------------------------------
(***************************************************************************)
(* The exam page's recovery logic (exam/web/app.js): the record it keeps   *)
(* in the browser's storage per session, its volatile state, and the       *)
(* handlers that compute the next state and the messages posted to the     *)
(* host.  Storage is taken to accept every write; the state hash, which    *)
(* the journal computes from the answers, is determined by the last event  *)
(* hash and is compared through it.                                        *)
(***************************************************************************)
EXTENDS AnswerEvents, FiniteSets

CONSTANT Candidate    \* the candidate of the exam context

\* state.durable and state.answers, as stored for one context.
EmptyStore ==
    [next |-> 1, previous |-> ZeroDigest, known |-> 0, knownLast |-> ZeroDigest,
     pending |-> <<>>, drafts |-> <<>>, finalize |-> FALSE, finalized |-> FALSE,
     answers |-> [q \in {} |-> NoAnswer]]

\* The volatile state: the event in flight (and with it the ACK timer), the
\* flags awaitingStateReconcile and recoveryConflict, the retry and edit
\* timers, and whether a state request was posted within the last second.
FreshPage ==
    [flight |-> {}, awaiting |-> FALSE, conflict |-> FALSE, retry |-> FALSE,
     edit |-> FALSE, asked |-> FALSE]

Outcome(s, v, posted) == [store |-> s, page |-> v, posted |-> posted]

PostEvent(e) == [type |-> "event", key |-> e.key, event |-> e]
PostRequest(k) == [type |-> "request", key |-> k]

\* The controls are locked: updateSubmissionLock.
submitted(s) ==
    \/ s.finalized \/ s.finalize
    \/ \E i \in 1..Len(s.pending) : s.pending[i].kind = "finalize"

\* requestExamState posts at most once a second; the retry stays armed.
requestExamStateWithRetry(k, s, v) ==
    Outcome(s, [v EXCEPT !.retry = TRUE, !.asked = TRUE],
            IF v.asked THEN <<>> ELSE <<PostRequest(k)>>)

beginStateReconcile(k, s, v) ==
    requestExamStateWithRetry(k, s, [v EXCEPT !.awaiting = TRUE])

----------------------------------------------------------------------------
DraftOf(s, q) == {i \in 1..Len(s.drafts) : s.drafts[i].question = q}

\* An object property keeps its place when it is assigned again.
queueAnswerDraft(s, q, a) ==
    [s EXCEPT !.drafts =
        IF DraftOf(s, q) = {} THEN Append(s.drafts, [question |-> q, answer |-> a])
        ELSE [i \in 1..Len(s.drafts) |->
                IF i \in DraftOf(s, q) THEN [question |-> q, answer |-> a]
                ELSE s.drafts[i]]]

saveAnswer(s, q, a) ==
    [queueAnswerDraft(s, q, a) EXCEPT !.answers =
        [x \in DOMAIN s.answers \cup {q} |-> IF x = q THEN a ELSE s.answers[x]]]

NextEvent(k, s, kind, q, a) ==
    [key |-> k, candidate |-> Candidate, sequence |-> s.next,
     previous |-> s.previous, kind |-> kind, question |-> q, answer |-> a]

\* A bug the checks must catch: the finalize event does not wait for drafts.
NumberedFinalizeFirst(k, s) ==
    IF s.pending # <<>> \/ (s.drafts = <<>> /\ ~s.finalize) THEN s
    ELSE IF s.finalize
    THEN [s EXCEPT !.pending = <<NextEvent(k, s, "finalize", NoQuestion, NoAnswer)>>,
                   !.finalize = FALSE, !.next = s.next + 1]
    ELSE LET d == Head(s.drafts)
             kind == IF d.answer = NoAnswer THEN "clear" ELSE "upsert"
         IN [s EXCEPT !.pending = <<NextEvent(k, s, kind, d.question, d.answer)>>,
                      !.drafts = Tail(s.drafts), !.next = s.next + 1]

\* A draft becomes a numbered event only when no event is pending, and the
\* finalize event only when no draft is left.
Numbered(k, s) ==
    IF s.pending # <<>> THEN s
    ELSE IF s.drafts # <<>>
    THEN LET d == Head(s.drafts)
             kind == IF d.answer = NoAnswer THEN "clear" ELSE "upsert"
         IN [s EXCEPT !.pending = <<NextEvent(k, s, kind, d.question, d.answer)>>,
                      !.drafts = Tail(s.drafts), !.next = s.next + 1]
    ELSE IF s.finalize
    THEN [s EXCEPT !.pending = <<NextEvent(k, s, "finalize", NoQuestion, NoAnswer)>>,
                   !.finalize = FALSE, !.next = s.next + 1]
    ELSE s

\* The first pending event with the predecessor the page knows.
RebasedHead(n) ==
    [Head(n.pending) EXCEPT !.previous =
        IF Head(n.pending).sequence = 1 THEN ZeroDigest ELSE n.previous]

flushAnswerBridge(k, s, v) ==
    LET n == Numbered(k, s)
        e == RebasedHead(n)
    IN IF s.finalized \/ v.conflict THEN Outcome(s, v, <<>>)
       ELSE IF v.awaiting THEN requestExamStateWithRetry(k, s, v)
       ELSE IF n.pending = <<>> \/ \E f \in v.flight : f.sequence = e.sequence
       THEN Outcome(s, v, <<>>)
       ELSE IF e.sequence > 1 /\ n.previous = ZeroDigest
       THEN requestExamStateWithRetry(k, s, v)
       ELSE Outcome([n EXCEPT !.pending[1] = e], [v EXCEPT !.flight = {e}],
                    <<PostEvent(e)>>)

----------------------------------------------------------------------------
\* ensureDurableAnswers: every answer shown that is neither drafted nor pending
\* is drafted again; questions are taken in the order of the manifest.
AnswerPresent(s, q) ==
    \/ \E i \in DraftOf(s, q) : s.drafts[i].answer = s.answers[q]
    \/ \E i \in 1..Len(s.pending) :
          s.pending[i].question = q /\ s.pending[i].answer = s.answers[q]

Manifest == CHOOSE f \in [1..Cardinality(Questions) -> Questions] :
                \A i, j \in 1..Cardinality(Questions) : f[i] = f[j] => i = j

ensureDurableAnswers(s) ==
    LET drafted[i \in 0..Cardinality(Questions)] ==
            IF i = 0 THEN s
            ELSE LET q == Manifest[i] IN
                 IF q \in DOMAIN s.answers /\ ~AnswerPresent(s, q)
                 THEN queueAnswerDraft(drafted[i - 1], q, s.answers[q])
                 ELSE drafted[i - 1]
    IN drafted[Cardinality(Questions)]

submitResponse(k, s, v) ==
    flushAnswerBridge(k, [ensureDurableAnswers(s) EXCEPT !.finalize = TRUE],
                      [v EXCEPT !.edit = v.edit \/ ensureDurableAnswers(s) # s])

\* A bug the checks must catch: nothing follows the end of the wait.
ackTimeoutWithoutRetry(k, s, v) == Outcome(s, [v EXCEPT !.flight = {}], <<>>)

\* The ACK timer of the event in flight has run out.
ackTimeout(k, s, v) ==
    LET released == [v EXCEPT !.flight = {}, !.retry = TRUE] IN
    IF s.pending = <<>> THEN Outcome(s, released, <<>>)
    ELSE beginStateReconcile(k, s, released)

\* "A retry timer can outlive an ACK that already advanced to another event."
retryTimer(k, s, v) ==
    LET fired == [v EXCEPT !.retry = FALSE] IN
    IF v.flight # {} THEN Outcome(s, fired, <<>>)
    ELSE flushAnswerBridge(k, s, fired)

----------------------------------------------------------------------------
(***************************************************************************)
(* handleAnswerAck: an acknowledgement concerns the first pending event or *)
(* is ignored.                                                             *)
(***************************************************************************)
AckIsForHead(k, s, v, ack) ==
    /\ s.pending # <<>>
    /\ ack.key = k
    /\ ack.sequence = Head(s.pending).sequence
    /\ \/ ack.hash = hash_answer_event(Head(s.pending))
       \/ /\ ack.status = "unavailable" /\ ack.hash = ZeroDigest
          /\ v.flight = {Head(s.pending)}

\* What the page takes for a cursor that contradicts its own.
cursorMismatch(s, ack) ==
    \/ ack.highest < s.known
    \/ /\ ack.highest = ack.sequence
       /\ s.knownLast # ZeroDigest
       /\ ack.hash # s.knownLast

\* The acknowledged event leaves; the cursor follows when the server's
\* watermark is the event itself.
Shifted(s, ack) ==
    LET current == ack.highest = ack.sequence
        final == current /\ Head(s.pending).kind = "finalize"
    IN [s EXCEPT !.pending = Tail(s.pending), !.previous = ack.hash,
                 !.known = IF current THEN ack.sequence ELSE @,
                 !.knownLast = IF current THEN ack.hash ELSE @,
                 !.finalize = @ /\ ~final, !.finalized = @ \/ final]

Acknowledged(k, s, v, ack) ==
    LET settled == [v EXCEPT !.flight = {}, !.awaiting = FALSE,
                             !.conflict = FALSE, !.retry = FALSE]
    IN IF ack.highest = ack.sequence
       THEN flushAnswerBridge(k, Shifted(s, ack), settled)
       ELSE beginStateReconcile(k, Shifted(s, ack), settled)

handleAnswerAck(k, s, v, ack) ==
    LET released == [v EXCEPT !.flight = {}] IN
    IF ~AckIsForHead(k, s, v, ack) THEN Outcome(s, v, <<>>)
    ELSE IF ack.status \in {"accepted", "duplicate"}
    THEN IF cursorMismatch(s, ack) THEN beginStateReconcile(k, s, released)
         ELSE Acknowledged(k, s, v, ack)
    ELSE IF ack.status \in {"gap", "conflict"}
    THEN beginStateReconcile(k, s, [released EXCEPT !.retry = TRUE])
    ELSE Outcome(s, [released EXCEPT !.retry = TRUE], <<>>)

----------------------------------------------------------------------------
(***************************************************************************)
(* applyStateResponse: the server's watermark replaces the page's cursor   *)
(* when every pending event it covers is the one the server has.           *)
(***************************************************************************)
Covered(s, r) == {i \in 1..Len(s.pending) : s.pending[i].sequence <= r.highest}

\* A bug the checks must catch: an event is looked for among the answers, where
\* one that deletes an answer is never found.
VerifiedByAnswers(s, r) ==
    \A i \in Covered(s, r) : \E q \in DOMAIN r.answers :
        r.answers[q].hash = hash_answer_event(s.pending[i])

\* Each covered event is identified by its own hash.
Verified(s, r) ==
    \A i \in Covered(s, r) :
        LET e == s.pending[i] IN
        IF e.sequence = r.highest THEN hash_answer_event(e) = r.last
        ELSE \E q \in DOMAIN r.answers :
                /\ r.answers[q].sequence = e.sequence
                /\ r.answers[q].hash = hash_answer_event(e)

StaleOrConflicting(s, r) ==
    \/ /\ r.highest = s.known /\ r.highest > 0
       /\ s.knownLast # ZeroDigest /\ r.last # s.knownLast
    \/ s.finalized /\ ~r.finalized
    \/ /\ r.highest = 0 /\ s.known = 0
       /\ s.previous # ZeroDigest /\ s.knownLast = ZeroDigest

\* The pending events behind the watermark, chained to it again.
repairPendingChain(s, r) ==
    LET kept == Picked(s.pending, {i \in 1..Len(s.pending) : s.pending[i].sequence > r.highest})
    IN
    [s EXCEPT
        !.pending = [i \in 1..Len(kept) |->
                        [kept[i] EXCEPT !.previous = IF i = 1 THEN r.last
                                                     ELSE ZeroDigest]],
        !.previous = r.last, !.known = r.highest, !.knownLast = r.last,
        !.next = IF s.next > r.highest + 1 THEN s.next ELSE r.highest + 1]

\* The server's answers, overlaid with the pending event and then with drafts.
PendingQuestions(s, kind) ==
    {s.pending[i].question : i \in {j \in 1..Len(s.pending) : s.pending[j].kind = kind}}

\* A bug the checks must catch: the server's answers replace newer drafts.
ServerAnswers(s, r) == [q \in DOMAIN r.answers |-> r.answers[q].answer]

MergedAnswers(s, r) ==
    LET drafted == {s.drafts[i].question : i \in 1..Len(s.drafts)}
        upserted == PendingQuestions(s, "upsert")
    IN [q \in ((DOMAIN r.answers \cup upserted) \ PendingQuestions(s, "clear"))
                  \cup drafted |->
          IF q \in drafted THEN s.drafts[CHOOSE i \in DraftOf(s, q) : TRUE].answer
          ELSE IF q \in upserted
          THEN s.pending[CHOOSE i \in 1..Len(s.pending) : s.pending[i].question = q].answer
          ELSE r.answers[q].answer]

applyStateResponse(k, s, v, r) ==
    LET repaired == repairPendingChain(s, r)
        merged == [repaired EXCEPT !.answers = MergedAnswers(repaired, r)]
        settled == [v EXCEPT !.flight = {}, !.awaiting = FALSE,
                             !.conflict = FALSE, !.retry = FALSE]
    IN IF StaleOrConflicting(s, r)
       THEN Outcome(s, [v EXCEPT !.conflict = @ \/ v.awaiting], <<>>)
       ELSE IF r.highest < s.known
       THEN Outcome(s, [v EXCEPT !.retry = @ \/ v.awaiting], <<>>)
       ELSE IF ~Verified(s, r)
               \/ (repaired.pending # <<>>
                     /\ Head(repaired.pending).sequence # r.highest + 1)
       THEN Outcome(s, [v EXCEPT !.conflict = TRUE], <<>>)
       ELSE IF r.finalized
       THEN IF merged.pending # <<>> \/ merged.drafts # <<>>
            THEN Outcome(merged, [settled EXCEPT !.conflict = TRUE], <<>>)
            ELSE Outcome([merged EXCEPT !.finalize = FALSE, !.finalized = TRUE],
                         settled, <<>>)
       ELSE flushAnswerBridge(k, merged, settled)
=============================================================================
