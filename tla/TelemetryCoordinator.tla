------------------------ MODULE TelemetryCoordinator ------------------------
(***************************************************************************)
(* The service coordinator that owns the telemetry outbox and the          *)
(* lifecycle of an exam context (client/src/exam_telemetry_service.cpp and *)
(* exam_telemetry_lifecycle.cpp), as operators on the run records of       *)
(* TelemetryOutbox.  Its memory r.co:                                      *)
(*                                                                         *)
(*   ctx, life, archive   the bound context, its lifecycle state, and the  *)
(*                        contexts revoked before it                       *)
(*   prod, seq            the producer id and the next sequence number     *)
(*   pending, started     the write-ahead intent of a batch, and its age   *)
(*   dirty, cleanup       memory is ahead of the state file; a revoked     *)
(*                        payload is still to be purged                    *)
(*                                                                         *)
(* The counters of dropped samples and their own retention are left out:   *)
(* nothing decides on them; that counting makes the memory dirty is kept.  *)
(***************************************************************************)
EXTENDS TelemetryOutbox

CONSTANTS
    MaximumRevoked,         \* kMaximumRevokedTelemetryIdentities
    MaximumSequence         \* the largest 64-bit sequence number

ASSUME CoordinatorAssumption ==
    /\ MaximumRevoked \in Nat \ {0}
    /\ MaximumSequence \in Nat \ {0, 1}

LifecycleStates == {"disabled", "enabled", "suspended", "revoked"}

\* The protected state file
States == [ctx : Contexts \cup {None}, life : LifecycleStates, archive : SUBSET Contexts,
           prod : Nat, seq : Nat, pending : Batches \cup {None}, started : Nat]

ASSUME NoStateAssumption == None \notin States

Unbound ==
    [is_open |-> FALSE, ctx |-> None, life |-> "disabled", archive |-> {},
     prod |-> 0, seq |-> 1, pending |-> None, started |-> 0,
     dirty |-> FALSE, cleanup |-> FALSE]

\* What the protected state file holds.
StateOf(co) ==
    [ctx |-> co.ctx, life |-> co.life, archive |-> co.archive, prod |-> co.prod,
     seq |-> co.seq, pending |-> co.pending, started |-> co.started]

-----------------------------------------------------------------------------
(* ExamTelemetryLifecycle *)

IsRevoked(co) == co.life = "revoked"
\* A bug the checks must catch: the current context is not looked at.
ArchivedOnly(co, c) == c \in co.archive
IdentityRevoked(co, c) == c \in co.archive \/ (IsRevoked(co) /\ co.ctx = c)

\* on_disconnect and on_service_shutdown
Suspend(co) == [co EXCEPT !.life = IF @ = "enabled" THEN "suspended" ELSE @]

\* on_service_restart: an enabled context comes back suspended.
Restart(life) == IF life = "enabled" THEN "suspended" ELSE life

\* set_context: a revoked context is archived before it is replaced, and a
\* full archive refuses every context it does not already hold.
NeedsArchive(co) == IsRevoked(co) /\ co.ctx # None /\ co.ctx \notin co.archive
CanBind(co, c) ==
    \/ c = co.ctx
    \/ Cardinality(co.archive) < MaximumRevoked
    \/ ~NeedsArchive(co) /\ c \in co.archive
Bind(co, c) ==
    LET archive == IF NeedsArchive(co) THEN co.archive \cup {co.ctx} ELSE co.archive
    IN  IF c = co.ctx THEN co
        ELSE [co EXCEPT !.ctx = c, !.archive = archive,
                        !.life = IF c \in archive THEN "revoked" ELSE "disabled"]

-----------------------------------------------------------------------------
(* Durable state *)

\* persist_state_locked
Clean(r) == IF r.ok THEN [r EXCEPT !.co.dirty = FALSE] ELSE r
PersistState(r) == Clean(Storage(r, [r.disk EXCEPT !.state = StateOf(r.co)]))

\* write_revocation_refusal_marker: the name is created exclusively, and a
\* marker whose content could not be confirmed is left in place.
WriteBlocked(r) ==
    LET d == [r.disk EXCEPT !.blocked = TRUE]
        Torn(x) == IF ~x.ok /\ x.outage.kind = "torn"
                   THEN [x EXCEPT !.disk = d, !.seen = Append(@, d)] ELSE x
    IN  IF r.disk.blocked THEN Failed(r) ELSE Torn(Storage(r, d))

\* touch_loss and add_saturated
CountLoss(r) == [r EXCEPT !.co.dirty = TRUE]

\* The payload cleanup of a revoked context; a purge that failed has closed
\* the outbox, so a fresh one follows its markers first.
CleanUp(r) ==
    LET Reopen(x) == IF x.box.is_open THEN x ELSE OpenBox(x)
        Unblock(x) == Storage(x, [x.disk EXCEPT !.blocked = FALSE])
        Finish(x) == IF x.ok THEN [x EXCEPT !.co.cleanup = FALSE] ELSE x
    IN  IF r.co.cleanup THEN Finish(Unblock(Purge(Reopen(r)))) ELSE r

\* flush_locked when no batch is pending
FlushState(r) == CleanUp(IF r.co.dirty THEN PersistState(r) ELSE r)

\* persist_revocation_locked: the revocation is durable as state or as the
\* refusal marker before the payload is purged.
PersistRevocation(r) ==
    LET Refuse(x) == Failed(Purge(Anyway(WriteBlocked(Anyway(x)))))
        Settle(x) == IF x.ok THEN FlushState(x) ELSE Refuse(x)
    IN  Settle(PersistState(r))

\* A bug the checks must catch: the write-ahead intent is not dropped.
RevokedWithIntent(co) ==
    [co EXCEPT !.life = "revoked", !.cleanup = TRUE, !.dirty = TRUE]
\* on_explicit_stop of the lifecycle, with what the coordinator drops
Revoked(co) ==
    [co EXCEPT !.life = "revoked", !.pending = None, !.started = 0,
               !.cleanup = TRUE, !.dirty = TRUE]

\* revoke_pending_locked
RevokePending(r) ==
    Failed(PersistRevocation([CountLoss(r) EXCEPT !.co = Revoked(@)]))

PendingExpired(r) ==
    /\ r.co.pending # None
    /\ ExpiredAt(Min({r.co.started, r.co.pending.stamp}), r.now)

\* finish_pending_locked: the intent is enqueued unless the file holds it
\* already, then the sequence moves on.
FinishPending(r) ==
    LET p == r.co.pending
        at == {i \in DOMAIN r.box.records : SameIdentity(r.box.records[i].batch, p)}
        counted == /\ p.ctx \notin r.box.expired_losses
                   /\ LossOf(r.box.losses, p.ctx).expired # 0
        Advance(x) ==
            IF x.ok
            THEN PersistState([x EXCEPT !.co.seq = @ + 1, !.co.pending = None,
                                        !.co.started = 0, !.co.dirty = TRUE])
            ELSE x
    IN  IF ~r.ok \/ p = None THEN r
        ELSE IF at = {} /\ counted THEN RevokePending(r)
        ELSE IF \E i \in at : r.box.records[i].batch # p THEN Failed(r)
        ELSE Advance(IF at = {} THEN Enqueue(r, p) ELSE r)

\* flush_locked
Flush(r) ==
    IF ~r.ok THEN r
    ELSE IF PendingExpired(r) THEN RevokePending(r) ELSE FinishPending(FlushState(r))

\* maintain_locked
MaintainOpen(r) ==
    LET Prune(x) == IF x.box.is_open THEN PruneExpired(x, x.now, FALSE) ELSE x
    IN  Prune(Flush(r))

-----------------------------------------------------------------------------
(* open *)

\* load_state_locked accepts the file: the pending intent belongs to the
\* current context, producer and sequence and is not from the future, and a
\* context of the archive is saved as revoked.
Loadable(s, now) ==
    /\ s.ctx = None => s.prod = 0 /\ s.seq = 1 /\ s.life = "disabled"
    /\ s.ctx # None => s.prod # 0
    /\ Cardinality(s.archive) <= MaximumRevoked
    /\ s.ctx \in s.archive => s.life = "revoked"
    /\ s.pending # None =>
        /\ s.started # 0 /\ s.started <= now
        /\ s.pending.ctx = s.ctx /\ s.pending.prod = s.prod /\ s.pending.seq = s.seq
        /\ s.life # "revoked" /\ s.seq < MaximumSequence
    /\ s.pending = None => s.started = 0

\* A bug the checks must catch: the next sequence number is not restored.
LoadedFromOne(s) ==
    [Unbound EXCEPT !.ctx = s.ctx, !.life = Restart(s.life), !.archive = s.archive,
                    !.prod = s.prod, !.pending = s.pending, !.started = s.started]
LoadedState(s) ==
    [Unbound EXCEPT !.ctx = s.ctx, !.life = Restart(s.life), !.archive = s.archive,
                    !.prod = s.prod, !.seq = s.seq, !.pending = s.pending,
                    !.started = s.started]

\* The durable batches belong to the state: same context and producer, and no
\* sequence the state has not used.
Consistent(co, records) ==
    /\ \A i \in DOMAIN records :
        LET b == records[i].batch
        IN  /\ b.ctx = co.ctx /\ b.prod = co.prod
            /\ b.seq < co.seq \/ (co.pending # None /\ b.seq = co.pending.seq)
    /\ \A i, j \in DOMAIN records :
        records[i].batch.seq = records[j].batch.seq => i = j

\* The files alone decide these refusals.
RefusesFiles(disk, now) ==
    \/ disk.blocked
    \/ disk.state # None /\ ~Loadable(disk.state, now)
    \/ disk.state = None /\ disk.file # None
    \/ disk.state # None /\ disk.state.pending # None /\ disk.file = None

\* The steps of ExamTelemetryServiceCoordinator::open: the payload file is
\* read, its records are adopted and checked against the state, and what
\* fails leaves the coordinator closed.
Recall(r, loaded) == ReadFile([r EXCEPT !.co = loaded])
Adopt(r) == [r EXCEPT !.co.is_open = TRUE, !.co.cleanup = IsRevoked(r.co)]
CheckFiles(r) == IF Consistent(r.co, r.box.records) THEN r ELSE Failed(r)
RefuseUnlessOk(r) == IF r.ok THEN r ELSE CloseBox([r EXCEPT !.co = Unbound])

\* ExamTelemetryServiceCoordinator::open in a new process
OpenCoordinator(r) ==
    LET fresh == r.disk.state = None
        loaded == IF fresh THEN Unbound ELSE LoadedState(r.disk.state)
        aged == loaded.pending # None /\ r.disk.file.written <= r.now - Retention
        Publish(x) == IF fresh THEN PersistState(x) ELSE x
        Recover(x) == IF x.ok /\ aged THEN RevokePending(x) ELSE Flush(x)
        opened == Recover(CheckFiles(Adopt(OpenBox(Publish(Recall(r, loaded))))))
    IN  RefuseUnlessOk(IF RefusesFiles(r.disk, r.now) THEN Failed(r) ELSE opened)

-----------------------------------------------------------------------------
(* Commands of the server and of the agent *)

\* on_server_enable for context c; prod is the producer id drawn for it.
ServerEnable(r, c, prod) ==
    LET Resume(x) == PersistState([x EXCEPT !.co.life = "enabled"])
        Introduce(x) ==
            PersistState([x EXCEPT !.co =
                [Bind(x.co, c) EXCEPT !.life = "enabled", !.prod = prod, !.seq = 1]])
        SuspendUnless(x) ==
            IF x.ok THEN x ELSE [x EXCEPT !.co = [Suspend(@) EXCEPT !.dirty = TRUE]]
        Admit(x) ==
            IF ~x.ok THEN x
            ELSE IF \/ IdentityRevoked(x.co, c)
                    \/ x.co.ctx \notin {None, c} /\ ~IsRevoked(x.co)
                    \/ ~CanBind(x.co, c)
            THEN Failed(x)
            ELSE SuspendUnless(IF x.co.ctx = c THEN Resume(x) ELSE Introduce(x))
    IN  Admit(Flush(r))

\* on_disconnect
ServerDisconnect(r) ==
    Flush([ClearInflight(r) EXCEPT !.co = [Suspend(@) EXCEPT !.dirty = TRUE]])

\* on_service_shutdown followed by close
ServiceShutdown(r) == Flush(Anyway(ServerDisconnect(r)))

\* on_explicit_stop
ExplicitStop(r) ==
    IF r.co.ctx = None THEN r ELSE PersistRevocation([r EXCEPT !.co = Revoked(@)])

\* ingest_samples: each chunk becomes a write-ahead intent that Flush moves
\* into the outbox; what cannot be taken is counted as dropped.
DropRemaining(r) == Failed(Flush(CountLoss(Anyway(r))))
IngestChunk(r, body, last) ==
    LET batch == [ctx |-> r.co.ctx, prod |-> r.co.prod, seq |-> r.co.seq,
                  body |-> body, stamp |-> r.now]
        Intend(x) == [x EXCEPT !.co.pending = batch, !.co.started = x.now,
                               !.co.dirty = TRUE]
        DropUnless(x) ==
            IF x.ok \/ last THEN x ELSE Failed(PersistState(CountLoss(Anyway(x))))
    IN  IF \/ r.co.seq = MaximumSequence
           \/ Len(r.box.records) >= MaximumOutboxBatches
        THEN DropRemaining(r)
        ELSE DropUnless(Flush(Intend(r)))
Ingest(r, bodies) ==
    LET Chunk(x, i) == IF x.ok THEN IngestChunk(x, bodies[i], i = Len(bodies)) ELSE x
        Chunks(x) ==
            LET after[i \in 0..Len(bodies)] ==
                    IF i = 0 THEN x ELSE Chunk(after[i - 1], i)
            IN  after[Len(bodies)]
        Take(x) == IF x.ok THEN Chunks(x) ELSE DropRemaining(x)
    IN  IF r.co.life = "enabled" THEN Take(Flush(r)) ELSE DropRemaining(r)

\* on_server_ack
ServerAck(r, batch, status) == Acknowledge(Flush(r), batch, status)

\* maintain: with the refusal marker on disk and no open coordinator, the old
\* payload and state are scrubbed; the marker stays.
Maintain(r) ==
    LET DeleteState(x) == Storage(x, [x.disk EXCEPT !.state = None])
    IN  IF r.co.is_open THEN MaintainOpen(r)
        ELSE IF r.disk.blocked THEN DeleteState(DeleteFile(r))
        ELSE Failed(r)
=============================================================================
