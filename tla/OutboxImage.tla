---------------------------- MODULE OutboxImage ----------------------------
(***************************************************************************)
(* The contents of the client's answer outbox and the operations that      *)
(* compute the next contents (common/src/answer_journal.cpp, class         *)
(* AnswerOutbox).  An image holds the events waiting for the server and,   *)
(* per session, the watermark that survives them.                          *)
(***************************************************************************)
EXTENDS AnswerEvents, FiniteSets

CONSTANTS
    SessionId,          \* the session id inside a session key
    MaxOutboxEvents,    \* kMaximumOutboxEvents
    MaxWatermarks       \* kMaximumOutboxWatermarks

CurrentVersion == 4     \* kOutboxVersion

Watermark == [candidate: Candidates, highest: Nat, last: Digest,
              acknowledged_sequence: Nat, acknowledged_hash: Digest,
              finalized: BOOLEAN]

EmptyImage == [version |-> CurrentVersion, events |-> {}, watermarks |-> <<>>]

EventsOf(image, k) == {e \in image.events : e.key = k}

EventWith(events, n) == CHOOSE e \in events : e.sequence = n

EventAt(image, k, n) == EventWith(EventsOf(image, k), n)

HasEvent(image, k, n) == \E e \in EventsOf(image, k) : e.sequence = n

\* What an event adds to the chain of its session.
Content(e) == hash_answer_event(e)[Len(hash_answer_event(e))]

same_event_body_except_predecessor(d, e) == [d EXCEPT !.previous = e.previous] = e

valid_watermark(w) ==
    /\ w.highest # 0
    /\ w.last # ZeroDigest
    /\ w.acknowledged_sequence <= w.highest
    /\ w.acknowledged_sequence = 0 <=> w.acknowledged_hash = ZeroDigest

----------------------------------------------------------------------------
(***************************************************************************)
(* open(): older formats are completed, then everything is validated.      *)
(***************************************************************************)
FirstOf(events) == CHOOSE e \in events : \A d \in events : e.sequence <= d.sequence
LastOf(events) == CHOOSE e \in events : \A d \in events : d.sequence <= e.sequence

\* The watermark open() ends up with: version 1 has none, version 2 adds the
\* highest event, version 3 the acknowledged boundary, version 4 the
\* finalization marker; a session without one gets it from its events.
UpgradedWatermark(image, k) ==
    LET pending == EventsOf(image, k)
        edge == IF image.version = 1 THEN LastOf(pending) ELSE FirstOf(pending)
        stored == IF k \in DOMAIN image.watermarks THEN image.watermarks[k]
                  ELSE [candidate |-> edge.candidate, highest |-> edge.sequence,
                        last |-> hash_answer_event(edge),
                        acknowledged_sequence |-> 0,
                        acknowledged_hash |-> ZeroDigest,
                        finalized |-> edge.kind = "finalize"]
        bounded == IF image.version >= 3 THEN stored
                   ELSE IF pending = {}
                   THEN [stored EXCEPT !.acknowledged_sequence = stored.highest,
                                       !.acknowledged_hash = stored.last]
                   ELSE [stored EXCEPT
                            !.acknowledged_sequence = FirstOf(pending).sequence - 1,
                            !.acknowledged_hash = FirstOf(pending).previous]
    IN IF image.version >= 4 THEN bounded
       ELSE [bounded EXCEPT !.finalized = \E e \in pending : e.kind = "finalize"]

Upgraded(image) ==
    [version |-> CurrentVersion, events |-> image.events,
     watermarks |-> [k \in DOMAIN image.watermarks \cup {e.key : e \in image.events} |->
                        UpgradedWatermark(image, k)]]

\* The checks of open() of a session's watermark and its waiting events.
ConsistentSession(w, pending) ==
    /\ valid_watermark(w)
    /\ IF pending = {}
       THEN /\ w.acknowledged_sequence = w.highest
            /\ w.acknowledged_hash = w.last
       ELSE /\ {e.sequence : e \in pending}
                  = (w.acknowledged_sequence + 1)..w.highest
            /\ \A d, e \in pending : d.sequence = e.sequence => d = e
            /\ \A e \in pending :
                  /\ validate_answer_event(e)
                  /\ e.candidate = w.candidate
                  /\ e.previous =
                       IF e.sequence = w.acknowledged_sequence + 1
                       THEN w.acknowledged_hash
                       ELSE hash_answer_event(EventWith(pending, e.sequence - 1))
                  /\ e.kind = "finalize" => e.sequence = w.highest
            /\ w.last = hash_answer_event(LastOf(pending))
            /\ w.finalized <=> LastOf(pending).kind = "finalize"

\* The whole file is accepted by open(), which also encodes what an older
\* format was completed to.
Opens(image) ==
    /\ Cardinality(image.events) <= MaxOutboxEvents
    /\ Cardinality(DOMAIN Upgraded(image).watermarks) <= MaxWatermarks
    /\ \A k \in DOMAIN Upgraded(image).watermarks :
          ConsistentSession(Upgraded(image).watermarks[k], EventsOf(image, k))

----------------------------------------------------------------------------
(***************************************************************************)
(* enqueue() and acknowledge() answer TRUE or FALSE and leave an image; an *)
(* image that differs from the current one is written before it is used.   *)
(***************************************************************************)
Result(ok, image) == [ok |-> ok, image |-> image]

\* A bug the checks must catch: the events behind the rebased one keep their
\* old predecessors.
RebasedAlone(image, e) ==
    Result(TRUE, [image EXCEPT
        !.events = (image.events \ {EventAt(image, e.key, e.sequence)}) \cup {e},
        !.watermarks[e.key].acknowledged_hash = e.previous])

\* x with the predecessor it gets when e takes the place of the first waiting
\* event: from there the chain leads through the waiting events before x.
Rechained(pending, e, x) ==
    [x EXCEPT !.previous = e.previous \o
        [i \in 1..(x.sequence - e.sequence) |->
            Content(EventWith(pending, e.sequence + (i - 1)))]]

\* The first waiting event gets another predecessor: it and every later event
\* of the session are chained again, and the boundary takes the new hash.
Rebased(image, e) ==
    LET pending == EventsOf(image, e.key)
        last == EventWith(pending, image.watermarks[e.key].highest)
    IN Result(TRUE, [image EXCEPT
            !.events = {IF x.key = e.key THEN Rechained(pending, e, x) ELSE x :
                           x \in image.events},
            !.watermarks[e.key] =
                [@ EXCEPT !.acknowledged_hash = e.previous,
                          !.last = hash_answer_event(Rechained(pending, e, last))]])

\* The sequence number is waiting already: the same event again, or the same
\* answer with another predecessor.  Behind the first waiting event the only
\* valid predecessor is the one the event has, so only the first is rebased.
EnqueueAgain(image, e) ==
    LET w == image.watermarks[e.key]
        existing == EventAt(image, e.key, e.sequence)
    IN IF existing = e THEN Result(TRUE, image)
       ELSE IF /\ same_event_body_except_predecessor(existing, e)
               /\ ~w.finalized
               /\ e.sequence = w.acknowledged_sequence + 1
               /\ e.sequence = 1 <=> e.previous = ZeroDigest
       THEN Rebased(image, e)
       ELSE Result(FALSE, image)

\* The image with one more event and the watermark moved to it.
Added(image, e) ==
    LET known == e.key \in DOMAIN image.watermarks
        w == [candidate |-> e.candidate, highest |-> e.sequence,
              last |-> hash_answer_event(e),
              acknowledged_sequence |->
                 IF known THEN image.watermarks[e.key].acknowledged_sequence ELSE 0,
              acknowledged_hash |->
                 IF known THEN image.watermarks[e.key].acknowledged_hash
                 ELSE ZeroDigest,
              finalized |-> e.kind = "finalize"]
    IN [image EXCEPT !.events = image.events \cup {e},
                     !.watermarks = [k \in DOMAIN image.watermarks \cup {e.key} |->
                        IF k = e.key THEN w ELSE image.watermarks[k]]]

\* The event extends the session: no gap, the right predecessor.
FollowsWatermark(image, e) ==
    IF e.key \in DOMAIN image.watermarks
    THEN LET w == image.watermarks[e.key] IN
         /\ ~w.finalized
         /\ e.sequence = w.highest + 1
         /\ e.previous = w.last
    ELSE e.sequence = 1 /\ e.previous = ZeroDigest

\* A retry of the last event of the session, which may be gone already.
RetryOfLast(image, e) ==
    /\ e.key \in DOMAIN image.watermarks
    /\ e.sequence = image.watermarks[e.key].highest
    /\ hash_answer_event(e) = image.watermarks[e.key].last

enqueue(image, e) ==
    IF ~validate_answer_event(e) THEN Result(FALSE, image)
    ELSE IF HasEvent(image, e.key, e.sequence) THEN EnqueueAgain(image, e)
    ELSE IF /\ e.key \in DOMAIN image.watermarks
            /\ image.watermarks[e.key].candidate # e.candidate
    THEN Result(FALSE, image)
    ELSE IF RetryOfLast(image, e) THEN Result(TRUE, image)
    ELSE IF /\ FollowsWatermark(image, e)
            /\ Cardinality(image.events) < MaxOutboxEvents
            /\ Cardinality(DOMAIN image.watermarks \cup {e.key}) <= MaxWatermarks
    THEN Result(TRUE, Added(image, e))
    ELSE Result(FALSE, image)

\* The sessions an acknowledgement may be about: those with its session id,
\* and among them those that know its hash.
MatchingKeys(image, sid) ==
    {k \in DOMAIN image.watermarks : SessionId[k] = sid}

ExactKeys(image, sid, n, hash) ==
    {k \in MatchingKeys(image, sid) :
        LET w == image.watermarks[k] IN
        \/ \E e \in EventsOf(image, k) : e.sequence = n /\ hash_answer_event(e) = hash
        \/ n = w.acknowledged_sequence /\ hash = w.acknowledged_hash
        \/ n = w.highest /\ hash = w.last}

\* A bug the checks must catch: the hash is not compared with the event's.
RetiredByNumber(image, k, n, hash) ==
    Result(TRUE, [image EXCEPT
        !.events = {e \in image.events : e.key # k \/ e.sequence > n},
        !.watermarks[k] = [@ EXCEPT !.acknowledged_sequence = n,
                                    !.acknowledged_hash = hash]])

\* A waiting event is acknowledged: it and all earlier ones are retired.
Retired(image, k, n, hash) ==
    IF /\ hash_answer_event(EventAt(image, k, n)) = hash
       /\ n > image.watermarks[k].acknowledged_sequence
       /\ n <= image.watermarks[k].highest
    THEN Result(TRUE, [image EXCEPT
            !.events = {e \in image.events : e.key # k \/ e.sequence > n},
            !.watermarks[k] = [@ EXCEPT !.acknowledged_sequence = n,
                                        !.acknowledged_hash = hash]])
    ELSE Result(FALSE, image)

\* The event is gone: only a repetition of the boundary, or the last event of
\* the session, can still be verified.
AcknowledgedBefore(image, k, n, hash) ==
    LET w == image.watermarks[k] IN
    IF n = w.acknowledged_sequence
    THEN Result(hash = w.acknowledged_hash, image)
    ELSE IF n > w.acknowledged_sequence /\ n = w.highest /\ hash = w.last
    THEN Result(TRUE, [image EXCEPT
            !.watermarks[k] = [@ EXCEPT !.acknowledged_sequence = n,
                                        !.acknowledged_hash = hash]])
    ELSE Result(FALSE, image)

acknowledge(image, sid, n, hash) ==
    LET exact == ExactKeys(image, sid, n, hash)
        selected == IF exact # {} THEN exact ELSE MatchingKeys(image, sid)
        k == CHOOSE x \in selected : TRUE
    IN IF n = 0 \/ Cardinality(selected) # 1 THEN Result(FALSE, image)
       ELSE IF HasEvent(image, k, n) THEN Retired(image, k, n, hash)
       ELSE AcknowledgedBefore(image, k, n, hash)
=============================================================================
