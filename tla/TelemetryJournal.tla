-------------------------- MODULE TelemetryJournal --------------------------
(***************************************************************************)
(* The telemetry journal of the server                                     *)
(* (server/src/exam_telemetry_journal.cpp) behind its queue and its worker *)
(* thread (server/src/control_plane.cpp).                                  *)
(*                                                                         *)
(* Clients send a batch until it is acknowledged, so the journal keeps an  *)
(* index of what it accepted: the hashes of each producer's newest         *)
(* sequences, and below them a replay floor.  The index is in memory and   *)
(* in a metadata file that is rewritten after each change; whether that    *)
(* succeeded is not looked at when a batch was recorded, and neither is,   *)
(* when the journal is opened, whether the file could be read.  The        *)
(* batches themselves are appended to a ring of segment files.             *)
(*                                                                         *)
(* A batch is its session, producer, sequence and content.  Wall-clock     *)
(* ages are chosen: any tracked sequence may be past its retention when    *)
(* the journal is opened, a context may outlive its longest time.          *)
(***************************************************************************)
EXTENDS Naturals, Sequences, FiniteSets, Functions

CONSTANTS
    TelemetrySessions, Producers, Contents,
    TornRecord,               \* what a write that failed half way leaves
    MaxSequence,              \* bound: sequences of a producer
    MaxContexts,              \* kMaximumActiveContexts
    MaxGenerations,           \* kMaximumLifetimeGenerationsPerContext
    MaxHashes,                \* kMaximumHashesPerProducer
    MaxSegmentRecords,        \* kDetailSegmentBytes, in records
    SegmentCount,             \* kDetailSegmentCount
    MaxQueuedBatches,         \* kMaximumQueuedTelemetryBatches
    MaxReceived,              \* bound: batches the server receives
    MaxTelemetryFaults        \* bound: failures

ASSUME TelemetryJournalAssumption ==
    /\ MaxSequence \in Nat /\ MaxContexts \in Nat /\ MaxGenerations \in Nat
    /\ MaxHashes \in Nat /\ MaxSegmentRecords \in Nat \ {0}
    /\ SegmentCount \in Nat \ {0} /\ MaxQueuedBatches \in Nat
    /\ MaxReceived \in Nat /\ MaxTelemetryFaults \in Nat

Batches == [session : TelemetrySessions, producer : Producers,
            sequence : 1 .. MaxSequence, content : Contents]

VARIABLES
    exam_context,      \* session of the exam that is under way, or "none"
    tele_contexts,     \* contexts of the journal's memory: session -> record
    tele_metadata,     \* contexts and active segment of the metadata file
    segments,          \* segment files: sequences of batches and torn records
    active_segment,    \* index of the segment that is appended to
    tele_queue,        \* telemetry_queue_
    tele_open,         \* the journal is open (the server runs)
    accepted,          \* history: acknowledgements "accepted" per batch key
    index_losses,      \* history: how often an index was lost
    received, tele_faults

telemetryVars == <<exam_context, tele_contexts, tele_metadata, segments,
                   active_segment, tele_queue, tele_open, accepted, index_losses,
                   received, tele_faults>>

NewContext == [stopped |-> FALSE, overdue |-> FALSE, generations |-> 0,
               producers |-> <<>>]

NewProducer(generation) ==
    [generation |-> generation, current |-> 1, floor |-> 0,
     tracked |-> <<>>, conflicts |-> {}]

TelemetryInit ==
    /\ exam_context = "none"
    /\ tele_contexts = <<>>
    /\ tele_metadata = [contexts |-> <<>>, active |-> 1]
    /\ segments = [i \in 1 .. SegmentCount |-> <<>>]
    /\ active_segment = 1
    /\ tele_queue = <<>>
    /\ tele_open = TRUE
    /\ accepted = [b \in {} |-> 0]
    /\ index_losses = 0
    /\ received = 0 /\ tele_faults = 0

TelemetryFault ==
    tele_faults < MaxTelemetryFaults /\ tele_faults' = tele_faults + 1

-----------------------------------------------------------------------------
(* The index.                                                              *)

is_context_active(contexts, session) ==
    /\ session \in DOMAIN contexts
    /\ ~contexts[session].stopped /\ ~contexts[session].overdue

\* The metadata file is written aside and renamed over the old one.
persist_metadata(contexts, active) ==
    tele_metadata' = [contexts |-> contexts, active |-> active]

\* A failed write leaves the old file; no caller looks.
PersistOrFail(contexts, active) ==
    \/ persist_metadata(contexts, active) /\ UNCHANGED tele_faults
    \/ TelemetryFault /\ UNCHANGED tele_metadata

Key(b) == <<b.session, b.producer, b.sequence>>

Without(f, k) == Restrict(f, DOMAIN f \ {k})

With(f, k, v) == [x \in DOMAIN f \cup {k} |-> IF x = k THEN v ELSE f[x]]

Least(S) == CHOOSE x \in S : \A y \in S : x <= y

Greatest(a, b) == IF a < b THEN b ELSE a

\* A bug the checks must catch: eviction does not raise the replay floor.
evict_oldest_forgetting(p) ==
    IF Cardinality(DOMAIN p.tracked) <= MaxHashes THEN p
    ELSE [p EXCEPT !.tracked = Without(@, Least(DOMAIN p.tracked))]

\* More hashes than are kept: the oldest sequence goes below the floor.
evict_oldest(p) ==
    IF Cardinality(DOMAIN p.tracked) <= MaxHashes THEN p
    ELSE LET oldest == Least(DOMAIN p.tracked)
         IN [p EXCEPT !.tracked = Without(@, oldest),
                      !.floor = Greatest(@, oldest)]

\* Sequences received before the retention threshold, here those of `old`.
prune_expired(p, old) ==
    LET gone == DOMAIN p.tracked \cap old
    IN [p EXCEPT !.tracked = Restrict(@, DOMAIN @ \ gone),
                 !.floor = IF gone = {} THEN @
                           ELSE Greatest(@, CHOOSE x \in gone : \A y \in gone : y <= x)]

\* What record_batch() finds for a batch: an acknowledgement without a
\* record, or "accepted" when it is to be stored.
Verdict(contexts, b) ==
    LET c == contexts[b.session]
        unseen == b.producer \notin DOMAIN c.producers
        p == IF unseen THEN NewProducer(c.generations + 1)
                       ELSE c.producers[b.producer]
    IN IF \/ ~is_context_active(contexts, b.session)
          \/ unseen /\ (c.generations >= MaxGenerations \/ b.sequence # 1)
       THEN "rejected"
       ELSE IF b.sequence \in p.conflicts THEN "conflict"
       ELSE IF b.sequence \in DOMAIN p.tracked
       THEN IF p.tracked[b.sequence] = b.content THEN "duplicate" ELSE "new conflict"
       ELSE IF b.sequence <= p.floor THEN "rejected"
       ELSE "accepted"

\* The producer is admitted before anything is stored.
admit_producer(contexts, b) ==
    LET c == contexts[b.session]
    IN IF b.producer \in DOMAIN c.producers THEN contexts
       ELSE [contexts EXCEPT ![b.session] =
               [c EXCEPT !.generations = @ + 1,
                         !.producers = With(@, b.producer, NewProducer(c.generations + 1))]]

remember(p, b) ==
    evict_oldest([p EXCEPT !.tracked = With(@, b.sequence, b.content),
                           !.current = Greatest(@, b.sequence)])

track(contexts, b) ==
    [contexts EXCEPT ![b.session].producers[b.producer] = remember(@, b)]

note_conflict(contexts, b) ==
    [contexts EXCEPT ![b.session].producers[b.producer].conflicts = @ \cup {b.sequence}]

-----------------------------------------------------------------------------
(* The segments.                                                           *)

\* A full segment is left for the next of the ring, which is emptied.
RotatedIndex ==
    IF Len(segments[active_segment]) < MaxSegmentRecords
    THEN active_segment ELSE (active_segment % SegmentCount) + 1

rotate_segment ==
    IF RotatedIndex = active_segment THEN segments
    ELSE [segments EXCEPT ![RotatedIndex] = <<>>]

append_record(record) ==
    segments' = [rotate_segment EXCEPT ![RotatedIndex] = Append(@, record)]

\* Each segment is cut at its first record that does not check out.
recover_and_sanitize_segments ==
    [i \in 1 .. SegmentCount |->
        LET torn == {k \in 1 .. Len(segments[i]) : segments[i][k] = TornRecord}
        IN IF torn = {} THEN segments[i] ELSE SubSeq(segments[i], 1, Least(torn) - 1)]

-----------------------------------------------------------------------------
(* Operations.                                                             *)

\* start_exam(): the context is authorized if the quota allows.
authorize_context(s) ==
    /\ tele_open /\ exam_context = "none"
    /\ exam_context' = s
    /\ IF Cardinality(DOMAIN tele_contexts) >= MaxContexts
          /\ s \notin DOMAIN tele_contexts
       THEN UNCHANGED <<tele_contexts, tele_metadata, tele_faults>>
       ELSE /\ tele_contexts' =
                 With(tele_contexts, s,
                      IF s \in DOMAIN tele_contexts
                      THEN [tele_contexts[s] EXCEPT !.stopped = FALSE, !.overdue = FALSE]
                      ELSE NewContext)
            /\ PersistOrFail(tele_contexts', active_segment)
    /\ UNCHANGED <<segments, active_segment, tele_queue, tele_open, accepted,
                   index_losses, received>>

\* stop_exam(): stop_authorization() wipes the index of the context, then
\* remove_context() the context.  The session may be authorized anew.
stop_authorization ==
    /\ tele_open /\ exam_context # "none"
    /\ exam_context' = "none"
    /\ tele_contexts' = Without(tele_contexts, exam_context)
    /\ PersistOrFail(tele_contexts', active_segment)
    /\ accepted' = Restrict(accepted,
                            {k \in DOMAIN accepted : k[1] # exam_context})
    /\ UNCHANGED <<segments, active_segment, tele_queue, tele_open, index_losses,
                   received>>

\* A batch of the exam under way is queued; otherwise, and when the rate
\* limiter or the queue refuses, it is answered without being recorded.
process_exam_telemetry_batch(b) ==
    /\ tele_open /\ received < MaxReceived
    /\ received' = received + 1
    /\ \/ /\ b.session = exam_context /\ Len(tele_queue) < MaxQueuedBatches
          /\ tele_queue' = Append(tele_queue, b)
       \/ UNCHANGED tele_queue
    /\ UNCHANGED <<exam_context, tele_contexts, tele_metadata, segments,
                   active_segment, tele_open, accepted, index_losses, tele_faults>>

Answered == tele_queue' = Tail(tele_queue)

\* The worker records what is queued, whatever has become of the exam.
record_batch_answered ==
    /\ tele_open /\ tele_queue # <<>>
    /\ LET b == Head(tele_queue)
           v == Verdict(tele_contexts, b)
       IN /\ v # "accepted"
          /\ IF v = "new conflict"
             THEN /\ tele_contexts' = note_conflict(tele_contexts, b)
                  /\ PersistOrFail(tele_contexts', active_segment)
             ELSE UNCHANGED <<tele_contexts, tele_metadata, tele_faults>>
    /\ Answered
    /\ UNCHANGED <<exam_context, segments, active_segment, tele_open, accepted,
                   index_losses, received>>

record_batch ==
    /\ tele_open /\ tele_queue # <<>>
    /\ LET b == Head(tele_queue)
           admitted == admit_producer(tele_contexts, b)
       IN /\ Verdict(tele_contexts, b) = "accepted"
          /\ tele_contexts' = track(admitted, b)
          /\ append_record(b)
          /\ active_segment' = RotatedIndex
          /\ PersistOrFail(tele_contexts', RotatedIndex)
          /\ accepted' = With(accepted, Key(b),
                              IF Key(b) \in DOMAIN accepted THEN accepted[Key(b)] + 1
                                                            ELSE 1)
    /\ Answered
    /\ UNCHANGED <<exam_context, tele_open, index_losses, received>>

\* The segment cannot be written, or only in part; "unavailable".
record_batch_failed ==
    /\ tele_open /\ tele_queue # <<>>
    /\ LET b == Head(tele_queue)
       IN /\ Verdict(tele_contexts, b) = "accepted"
          /\ tele_contexts' = admit_producer(tele_contexts, b)
    /\ append_record(TornRecord) \/ segments' = rotate_segment
    /\ active_segment' = RotatedIndex
    /\ TelemetryFault
    /\ Answered
    /\ UNCHANGED <<exam_context, tele_metadata, tele_open, accepted, index_losses,
                   received>>

context_overdue ==
    /\ \E s \in DOMAIN tele_contexts :
          /\ ~tele_contexts[s].overdue
          /\ tele_contexts' = [tele_contexts EXCEPT ![s].overdue = TRUE]
    /\ TelemetryFault
    /\ UNCHANGED <<exam_context, tele_metadata, segments, active_segment, tele_queue,
                   tele_open, accepted, index_losses, received>>

\* The index is lost unless `held` is all there is to it.
LoseIndex(index, held) ==
    index_losses' = IF index = held THEN index_losses ELSE index_losses + 1

\* The server ends.  A clean end persists the index once more; a crash leaves
\* what the last write that succeeded put into the file.
journal_closed ==
    /\ tele_open /\ TelemetryFault
    /\ tele_open' = FALSE
    /\ \/ persist_metadata(tele_contexts, active_segment) /\ UNCHANGED index_losses
       \/ UNCHANGED tele_metadata /\ LoseIndex(tele_contexts, tele_metadata.contexts)
    /\ tele_contexts' = <<>> /\ tele_queue' = <<>> /\ exam_context' = "none"
    /\ UNCHANGED <<segments, active_segment, accepted, received>>

\* The index of `contexts` without the sequences of `old`.
PruneContexts(contexts, old) ==
    [s \in DOMAIN contexts |->
        [contexts[s] EXCEPT !.producers =
            [p \in DOMAIN contexts[s].producers |->
                prune_expired(contexts[s].producers[p], old)]]]

\* open(): load the index, cut the segments, prune what is too old.  The file
\* is written again only when something was pruned.
journal_opened ==
    /\ ~tele_open
    /\ tele_open' = TRUE
    /\ \E old \in SUBSET (1 .. MaxSequence) :
          tele_contexts' = PruneContexts(tele_metadata.contexts, old)
    /\ IF tele_contexts' = tele_metadata.contexts
       THEN UNCHANGED <<tele_metadata, tele_faults>>
       ELSE PersistOrFail(tele_contexts', tele_metadata.active)
    /\ segments' = recover_and_sanitize_segments
    /\ active_segment' = tele_metadata.active
    /\ UNCHANGED <<exam_context, tele_queue, accepted, index_losses, received>>

\* open() when load_metadata() fails: the file is missing, cannot be opened, is
\* too long, ends early or does not check out.  open() does not look and goes on
\* without an index; the file stays until the next write.
load_metadata_failed ==
    /\ ~tele_open /\ TelemetryFault
    /\ tele_open' = TRUE
    /\ tele_contexts' = <<>>
    /\ LoseIndex(tele_metadata.contexts, <<>>)
    /\ segments' = recover_and_sanitize_segments
    /\ active_segment' = 1
    /\ UNCHANGED <<exam_context, tele_metadata, tele_queue, accepted, received>>

TelemetryNext ==
    \/ \E s \in TelemetrySessions : authorize_context(s)
    \/ stop_authorization
    \/ \E b \in Batches : process_exam_telemetry_batch(b)
    \/ record_batch_answered \/ record_batch \/ record_batch_failed
    \/ context_overdue \/ journal_closed \/ journal_opened \/ load_metadata_failed

TelemetrySpec == TelemetryInit /\ [][TelemetryNext]_telemetryVars

-----------------------------------------------------------------------------
\* A batch is accepted at most once by every index of its context, although its
\* sender repeats it, the index gives up its hash and the server restarts: what
\* left the index is below the replay floor.  Only a lost index, one that a crash
\* took before it was on disk or that open() could not read, lets it in once more.
AcceptedOnce ==
    \A k \in DOMAIN accepted : accepted[k] <= 1 + index_losses

=============================================================================
