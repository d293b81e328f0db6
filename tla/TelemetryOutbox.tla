-------------------------- MODULE TelemetryOutbox --------------------------
(***************************************************************************)
(* The protected telemetry outbox of the client service                    *)
(* (common/src/exam_telemetry_outbox.cpp) as operators.  Every public call *)
(* runs under one mutex, so the only things that can happen inside a call  *)
(* are a storage operation that fails and the death of the process.  A     *)
(* call is therefore a function on a "run" record r:                       *)
(*                                                                         *)
(*   box, co   the memory of the outbox and of the coordinator that owns it *)
(*   disk      the files: payload file, ".expiry" barrier, ".revoked"      *)
(*             marker, coordinator state and its ".blocked" marker         *)
(*   ops       how many storage operations the call has made               *)
(*   outage    which of them fail: none, one, or all from one on; in a     *)
(*             "torn" outage a failed ".blocked" write leaves its name     *)
(*   seen      the disks the call has passed through: a crash during the   *)
(*             call leaves one of them                                     *)
(*   now, ok   the wall clock, and the result of the last operation        *)
(*                                                                         *)
(* Times are in units of which Retention make the 30 days; the 5 s         *)
(* in-flight timeout and the 2..60 s backoff are shorter than a unit, so   *)
(* whether they have passed is a choice of the poll.  Files that are       *)
(* corrupt or in the version 1 format are outside the model, and so is     *)
(* clear(), which the service never calls.                                 *)
(***************************************************************************)
EXTENDS Integers, Sequences, FiniteSets, FiniteSetsExt, SequencesExt

CONSTANTS
    Contexts,               \* exam contexts; each is one session id
    Retention,              \* kTelemetryRetentionMilliseconds
    MaximumOutboxBatches,   \* kMaximumTelemetryOutboxBatches
    MaximumLossContexts,    \* kMaximumLossContexts
    None                    \* an absent file or value

ASSUME OutboxAssumption ==
    /\ Retention \in Nat \ {0}
    /\ MaximumOutboxBatches \in Nat \ {0}
    /\ MaximumLossContexts \in Nat \ {0}

-----------------------------------------------------------------------------
(* Data *)

\* TelemetryBatch: its context, producer and sequence number, its samples, and
\* when it was first enqueued.
Batches == [ctx : Contexts, prod : Nat, seq : Nat, body : Nat, stamp : Nat \ {0}]
\* OutboxRecord
Records == [batch : Batches, arrived : Nat \ {0}, waiting : BOOLEAN,
            in_flight : BOOLEAN, observed : BOOLEAN]
Losses == [rejected : Nat, conflict : Nat, expired : Nat, first : Nat]
LossTables == UNION {[cs -> Losses] : cs \in SUBSET Contexts}
\* The payload file
Files == [records : Seq(Records), losses : LossTables, owed : [Contexts -> Int], written : Nat]

ASSUME NoneAssumption == None \notin Contexts \cup Batches \cup Files

-----------------------------------------------------------------------------
(* Storage operations *)

Fails(outage, op) ==
    \/ outage.kind # "none" /\ op = outage.first
    \/ outage.kind \in {"lasting", "torn"} /\ op > outage.first

\* One storage operation that turns the disk into d: it fails without effect,
\* or it is durable at once (write-through temporary file, then a rename).
\* Like every step below it does nothing once the call has failed: a call
\* reads as the composition of its steps, and returns at the first failure.
Storage(r, d) ==
    IF ~r.ok THEN r
    ELSE IF Fails(r.outage, r.ops + 1)
    THEN [r EXCEPT !.ops = @ + 1, !.ok = FALSE]
    ELSE [r EXCEPT !.ops = @ + 1, !.disk = d, !.seen = Append(@, d)]

\* A read, a stat or an unprotect: it may fail and changes nothing.
ReadFile(r) == Storage(r, r.disk)

Failed(r) == [r EXCEPT !.ok = FALSE]

\* The call goes on although a step has failed.
Anyway(r) == [r EXCEPT !.ok = TRUE]

-----------------------------------------------------------------------------
(* What the outbox keeps *)

\* Loss counters of one context.  The counters of rejected, conflicting and
\* expired batches saturate; first is when the slot first counted anything.
EmptyLoss == [rejected |-> 0, conflict |-> 0, expired |-> 0, first |-> 0]
TotalLoss(loss) == loss.rejected + loss.conflict + loss.expired
HasCounted(loss) == TotalLoss(loss) > 0
Counted(loss, kind, now) ==
    [[loss EXCEPT ![kind] = IF @ < MaximumOutboxBatches THEN @ + 1 ELSE @]
        EXCEPT !.first = IF @ = 0 THEN now ELSE @]

\* History only: how many batches of each context this file has held that
\* were neither accepted by the server nor purged, and whose loss counter has
\* not itself expired.  The code keeps no such table; no operator reads it.
Owing(owed, c) == [owed EXCEPT ![c] = @ + 1]
Settled(owed, c) == [owed EXCEPT ![c] = @ - 1]
Forgotten(owed, losses, cs) ==
    [c \in Contexts |-> IF c \in cs \cap DOMAIN losses
                        THEN owed[c] - TotalLoss(losses[c]) ELSE owed[c]]

Record(batch, now) ==
    [batch |-> batch, arrived |-> now, waiting |-> FALSE,
     in_flight |-> FALSE, observed |-> FALSE]

ClosedBox ==
    [is_open |-> FALSE, records |-> <<>>, losses |-> <<>>,
     retry_pending |-> FALSE, expired_losses |-> {}, barrier |-> 0,
     owed |-> [c \in Contexts |-> 0]]

\* The payload file: records without their in-memory flags, and the losses.
FileOf(box, now) ==
    [records |-> [i \in DOMAIN box.records |->
                    [box.records[i] EXCEPT !.in_flight = FALSE, !.observed = FALSE]],
     losses |-> box.losses, owed |-> box.owed, written |-> now]

ExpiredAt(since, now) == since # 0 /\ now >= since /\ now - since >= Retention
Stamp(rec) == Min({rec.arrived, rec.batch.stamp})

SetLoss(losses, c, loss) ==
    [k \in DOMAIN losses \cup {c} |-> IF k = c THEN loss ELSE losses[k]]
LossOf(losses, c) == IF c \in DOMAIN losses THEN losses[c] ELSE EmptyLoss

-----------------------------------------------------------------------------
(* Writes *)

\* persist_locked
PersistBox(r) == Storage(r, [r.disk EXCEPT !.file = FileOf(r.box, r.now)])

\* A change of the outbox that is undone in memory if it cannot be written.
RestoreUnless(r, box) == IF r.ok THEN r ELSE [r EXCEPT !.box = box]
PersistOrRestore(r, box) ==
    IF r.ok THEN RestoreUnless(PersistBox([r EXCEPT !.box = box]), r.box) ELSE r

SetBarrier(r, at) == IF r.ok THEN [r EXCEPT !.box.barrier = at] ELSE r

\* persist_expiry_barrier
PersistBarrier(r, now) ==
    IF r.box.barrier >= now THEN r
    ELSE SetBarrier(Storage(r, [r.disk EXCEPT !.expiry = now]), now)

\* clear_expiry_barrier
ClearBarrier(r) == SetBarrier(Storage(r, [r.disk EXCEPT !.expiry = 0]), 0)

-----------------------------------------------------------------------------
(* prune_expired_locked *)

\* The expired records and loss slots, noted in memory.
Observed(rec, now) == [rec EXCEPT !.observed = @ \/ ExpiredAt(Stamp(rec), now)]
Marked(box, now) ==
    [box EXCEPT
        !.records = [i \in DOMAIN @ |-> Observed(@[i], now)],
        !.expired_losses = @ \cup {c \in DOMAIN box.losses :
                                    ExpiredAt(box.losses[c].first, now)}]
AnyMarked(box) ==
    box.expired_losses # {} \/ \E i \in DOMAIN box.records : box.records[i].observed

\* Without the marked records, each counted as an expired batch, and without
\* the marked loss slots.
Sorted(box, rec, now) ==
    LET c == rec.batch.ctx
    IN  IF rec.observed
        THEN [box EXCEPT !.losses = SetLoss(@, c, Counted(LossOf(@, c), "expired", now))]
        ELSE [box EXCEPT !.records = Append(@, rec)]
Pruned(box, now) ==
    LET kept == [c \in DOMAIN box.losses \ box.expired_losses |-> box.losses[c]]
        empty == [box EXCEPT !.records = <<>>, !.losses = kept,
                             !.owed = Forgotten(@, box.losses, box.expired_losses)]
        sorted[i \in 0..Len(box.records)] ==
            IF i = 0 THEN empty ELSE Sorted(sorted[i - 1], box.records[i], now)
    IN  sorted[Len(box.records)]

\* Every marked record has a slot to be counted in.
SlotsSuffice(box) ==
    LET counted == {i \in DOMAIN box.records : box.records[i].observed}
    IN  Cardinality((DOMAIN box.losses \ box.expired_losses)
                    \cup {box.records[i].batch.ctx : i \in counted}) <= MaximumLossContexts

\* What is marked is durable as a barrier before the payload file is
\* replaced, and stays marked in memory when the replacement fails.
PruneMarked(r, now) ==
    LET Bar(x) == IF x.box.retry_pending THEN PersistBarrier(x, now) ELSE x
        Replace(x) ==
            IF x.ok /\ SlotsSuffice(x.box)
            THEN PersistOrRestore(x, Pruned(x.box, Min({now, x.now}))) ELSE Failed(x)
        Finish(x) ==
            IF x.ok THEN ClearBarrier([x EXCEPT !.box.retry_pending = FALSE,
                                                !.box.expired_losses = {}])
            ELSE x
    IN  Finish(Replace(Bar(r)))

\* Observations are made at the later of the clock and the barrier.
PruneExpired(r, at, force) ==
    LET now == Max({at, r.box.barrier})
        box == Marked(r.box, now)
        pending == box.retry_pending \/ AnyMarked(box)
    IN  IF ~r.ok THEN r
        ELSE IF pending \/ force
        THEN PruneMarked([r EXCEPT !.box = [box EXCEPT !.retry_pending = pending]], now)
        ELSE IF r.box.barrier # 0 THEN ClearBarrier(r) ELSE r

-----------------------------------------------------------------------------
(* open *)

\* close, and what a failed open leaves: every later open uses a new object.
CloseBox(r) == [r EXCEPT !.box = ClosedBox]

\* What a stored record becomes in memory at a clock that may have gone back.
Loaded(rec, now) == [rec EXCEPT !.arrived = Min({@, now})]
LoadedLoss(loss, now) == [loss EXCEPT !.first = Min({@, now})]

\* The file is valid: load it, drop the loss slots that never counted
\* anything, and prune; a clamped or dropped value forces a rewrite.
LoadFile(r, now) ==
    LET file == r.disk.file
        kept == {c \in DOMAIN file.losses : HasCounted(file.losses[c])}
        box == [r.box EXCEPT
                    !.is_open = TRUE,
                    !.records = [i \in DOMAIN file.records |-> Loaded(file.records[i], now)],
                    !.losses = [c \in kept |-> LoadedLoss(file.losses[c], now)],
                    !.owed = file.owed]
        clamped == box.records # file.records \/ box.losses # file.losses
    IN  IF r.ok THEN PruneExpired([r EXCEPT !.box = box], now, clamped) ELSE r

CreateFile(r) == ClearBarrier(PersistBox([r EXCEPT !.box.is_open = TRUE]))

\* TelemetryOutbox::open on a fresh object: a payload file nobody wrote for
\* the retention period is deleted, the barrier is adopted, a revoked payload
\* is deleted before its marker, and what remains is loaded or created.
DeleteFile(r) == Storage(r, [r.disk EXCEPT !.file = None])
DropAged(r) ==
    IF r.disk.file # None /\ r.disk.file.written <= r.now - Retention
    THEN DeleteFile(r) ELSE r
\* A bug the checks must catch: the barrier file is not read back.
BarrierIgnored(r) == r
AdoptBarrier(r) ==
    IF r.ok /\ r.disk.expiry # 0
    THEN ReadFile([r EXCEPT !.box.barrier = r.disk.expiry]) ELSE r
DropRevoked(r) ==
    LET Unmark(x) == Storage(x, [x.disk EXCEPT !.revoked = FALSE])
    IN  IF r.disk.revoked THEN Unmark(DeleteFile(r)) ELSE r
LoadOrCreate(r) ==
    IF r.disk.file = None THEN CreateFile(r)
    ELSE LoadFile(ReadFile(r), Max({r.now, r.box.barrier}))
ClosedUnless(r) == IF r.ok THEN r ELSE CloseBox(r)
OpenBox(r) ==
    IF r.ok THEN ClosedUnless(LoadOrCreate(DropRevoked(AdoptBarrier(DropAged(
                    [r EXCEPT !.box = ClosedBox])))))
    ELSE r

-----------------------------------------------------------------------------
(* enqueue, acknowledge, next_batch_to_send, clear_inflight, purge *)

SameIdentity(a, b) == a.prod = b.prod /\ a.seq = b.seq

\* A loss slot is reserved in the same write as the payload, so that a later
\* terminal answer always has somewhere to be counted: a slot of the context,
\* a free one, or one that counts nothing and belongs to no pending batch.
UnusedSlots(box) ==
    {c \in DOMAIN box.losses :
        /\ ~HasCounted(box.losses[c])
        /\ \A i \in DOMAIN box.records : box.records[i].batch.ctx # c}
HasRoom(losses, c) == c \in DOMAIN losses \/ Cardinality(DOMAIN losses) < MaximumLossContexts
Reserved(box, c) ==
    LET reused == IF HasRoom(box.losses, c) THEN {} ELSE {CHOOSE k \in UnusedSlots(box) : TRUE}
    IN  [k \in (DOMAIN box.losses \ reused) \cup {c} |-> LossOf(box.losses, k)]

CanEnqueue(box, batch) ==
    /\ \A i \in DOMAIN box.records :
        /\ box.records[i].batch.ctx = batch.ctx
        /\ ~SameIdentity(box.records[i].batch, batch)
    /\ HasRoom(box.losses, batch.ctx) \/ UnusedSlots(box) # {}
    /\ Len(box.records) < MaximumOutboxBatches

Enqueue(r, batch) ==
    LET Sweep(x) == IF x.box.retry_pending \/ x.box.barrier # 0
                    THEN PruneExpired(x, x.now, FALSE) ELSE x
        Insert(x) ==
            IF x.ok /\ CanEnqueue(x.box, batch)
            THEN PersistOrRestore(x,
                    [x.box EXCEPT !.records = Append(@, Record(batch, x.now)),
                                  !.losses = Reserved(x.box, batch.ctx),
                                  !.owed = Owing(@, batch.ctx)])
            ELSE Failed(x)
    IN  IF ~r.ok THEN r ELSE IF r.box.is_open THEN Insert(Sweep(r)) ELSE Failed(r)

\* acknowledge: the ack names a batch by session, producer, sequence and
\* hash, that is, by the batch itself.  A rejection or a conflict is counted
\* in the same write that drops the batch.
Retired(box, i) == [box EXCEPT !.records = RemoveAt(@, i)]
Accepted(box, i) == [Retired(box, i) EXCEPT !.owed = Settled(@, box.records[i].batch.ctx)]
CountedLoss(box, c, status, now) ==
    [box EXCEPT !.losses = SetLoss(@, c, Counted(LossOf(@, c), status, now))]

\* A bug the checks must catch: terminal answers not counted.
AnsweredUncounted(box, i, status, now) ==
    IF status = "unavailable" THEN box
    ELSE IF status \in {"accepted", "duplicate"} THEN Accepted(box, i) ELSE Retired(box, i)
Answered(box, i, status, now) ==
    CASE status = "unavailable" ->
            [box EXCEPT !.records[i].in_flight = FALSE, !.records[i].waiting = TRUE]
      [] status \in {"accepted", "duplicate"} -> Accepted(box, i)
      [] status \in {"rejected", "conflict"} ->
            CountedLoss(Retired(box, i), box.records[i].batch.ctx, status, now)

Acknowledge(r, batch, status) ==
    LET Sweep(x) == IF x.box.is_open /\ x.box.retry_pending
                    THEN PruneExpired(x, x.now, FALSE) ELSE x
        Find(x) == {i \in DOMAIN x.box.records : x.box.records[i].batch = batch}
        Apply(x, i) ==
            IF status \in {"rejected", "conflict"} /\ ~HasRoom(x.box.losses, batch.ctx)
            THEN Failed(x)
            ELSE PersistOrRestore(x, Answered(x.box, i, status, x.now))
        Answer(x) ==
            IF x.ok /\ x.box.is_open /\ Find(x) # {}
            THEN Apply(x, CHOOSE i \in Find(x) : TRUE) ELSE x
    IN  Answer(Sweep(r))

\* The records next_batch_to_send may return once it has pruned: the first
\* one that is neither in flight nor backing off, or an earlier one whose
\* timeout has passed.
Eligible(box) ==
    {i \in DOMAIN box.records :
        /\ ~box.records[i].observed
        /\ \A j \in 1..(i - 1) : box.records[j].in_flight \/ box.records[j].waiting}

\* next_batch_to_send, the record at i having been chosen
Offer(r, i) ==
    [r EXCEPT !.box =
        [@ EXCEPT !.records[i].in_flight = TRUE, !.records[i].waiting = FALSE]]

ClearInflight(r) ==
    [r EXCEPT !.box.records =
        [i \in DOMAIN @ |-> [@[i] EXCEPT !.in_flight = FALSE]]]

\* What purge leaves in memory; losses already counted stay.
Wiped(box) ==
    LET Held(c) == {i \in DOMAIN box.records : box.records[i].batch.ctx = c}
    IN  [box EXCEPT
            !.records = <<>>,
            !.losses = [c \in DOMAIN @ \ box.expired_losses |-> @[c]],
            !.owed = Forgotten([c \in Contexts |-> @[c] - Cardinality(Held(c))],
                               box.losses, box.expired_losses),
            !.expired_losses = {}, !.retry_pending = FALSE]

\* purge: an empty payload, or else the ".revoked" marker and the deletion of
\* the file; then this object refuses to open again.
Purge(r) ==
    LET Mark(x) == Storage(x, [x.disk EXCEPT !.revoked = TRUE])
        MarkUnless(x) ==
            IF x.ok THEN x ELSE Failed(CloseBox(DeleteFile(Anyway(Mark(Anyway(x))))))
    IN  IF ~r.ok THEN r
        ELSE IF r.box.is_open THEN MarkUnless(PersistBox([r EXCEPT !.box = Wiped(@)]))
        ELSE Failed(r)
=============================================================================
