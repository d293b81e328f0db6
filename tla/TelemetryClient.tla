-------------------------- MODULE TelemetryClient --------------------------
(***************************************************************************)
(* The client service as a user of its telemetry coordinator               *)
(* (client/service/main.cpp through client/src/exam_telemetry_router.cpp): *)
(* start, the server's enable, acknowledgement and stop, the agent's       *)
(* samples, the one-per-second poll and maintenance, disconnect, shutdown. *)
(* Any call may meet failing storage, the process may die inside any call, *)
(* and the wall clock may be set forward or back between calls.            *)
(***************************************************************************)
EXTENDS TelemetryCoordinator

CONSTANTS
    LastTime,       \* bound: the clock stays in 1..LastTime
    MaxBodies,      \* bound: sample chunks the agent delivers
    MaxMishaps,     \* bound: calls that meet failing storage, and deaths of
                    \* the process inside a call, together
    MaxSetbacks,    \* bound: times the clock is set back
    Statuses,       \* bound: the answers the server gives
    MaxOps          \* bound: the first operation of a call that can fail

ASSUME ClientAssumption ==
    /\ {LastTime, MaxBodies, MaxMishaps, MaxSetbacks, MaxOps} \subseteq Nat
    /\ Statuses \subseteq {"accepted", "duplicate", "rejected", "conflict", "unavailable"}

VARIABLES
    up,         \* the service process runs
    box, co,    \* its memory
    disk,       \* the files
    now,        \* the wall clock
    prods,      \* producer ids drawn so far
    bodies,     \* chunks delivered so far
    mishaps,    \* mishaps so far
    setbacks,   \* times the clock was set back
    offered,    \* history: every batch ever handed to the connection
    witnessed,  \* history: contexts whose revocation was ever durable
    barred,     \* history: batches whose expiry was ever durable
    outlived,   \* history: intents that outlived what knew of their expiry
    late        \* history: batches handed over after either

vars == <<up, box, co, disk, now, prods, bodies, mishaps, setbacks, offered, witnessed,
          barred, outlived, late>>

EmptyDisk == [file |-> None, expiry |-> 0, revoked |-> FALSE,
              state |-> None, blocked |-> FALSE]

\* The files revoke context c: whatever process reads them next will not
\* collect or upload for it.
RevokedOnDisk(d, c) ==
    d.state # None /\ (c \in d.state.archive \/ (d.state.ctx = c /\ d.state.life = "revoked"))
\* The files say that the batch has expired.
BarredOnDisk(d) ==
    IF d.file = None \/ d.expiry = 0 THEN {}
    ELSE {d.file.records[i].batch : i \in
            {k \in DOMAIN d.file.records : ExpiredAt(Stamp(d.file.records[k]), d.expiry)}}

Init ==
    /\ up = FALSE /\ box = ClosedBox /\ co = Unbound /\ disk = EmptyDisk
    /\ now = 1 /\ prods = 0 /\ bodies = 0
    /\ mishaps = 0 /\ setbacks = 0 /\ offered = {} /\ witnessed = {} /\ barred = {}
    /\ outlived = {}
    /\ late = [revoked |-> {}, expired |-> {}]

-----------------------------------------------------------------------------
(* Storage faults: one operation of the call fails, or all from one on. *)

NoOutage == [kind |-> "none", first |-> 0]

Call(outage) ==
    [box |-> box, co |-> co, disk |-> disk, ops |-> 0, outage |-> outage,
     seen |-> <<disk>>, now |-> now, ok |-> TRUE]

Outages ==
    {NoOutage} \cup
    (IF mishaps = MaxMishaps THEN {}
     ELSE [kind : {"once", "lasting", "torn"}, first : 1..MaxOps])

\* The outage strikes an operation the call makes, a torn one the marker.
Hits(r) ==
    /\ r.outage.first <= r.ops
    /\ r.outage.kind = "torn" => r.disk.blocked

BarredIn(seen) == UNION {BarredOnDisk(seen[k]) : k \in DOMAIN seen}

\* A write-ahead intent is durable, and the payload file is deleted or the
\* counter of expired batches of its context is dropped.
Drops(d, e) ==
    /\ d.state # None /\ d.state.pending # None /\ d.file # None
    /\ LET c == d.state.pending.ctx
       IN  \/ e.file = None
           \/ LossOf(d.file.losses, c).expired # 0 /\ LossOf(e.file.losses, c).expired = 0
OutlivedIn(seen) ==
    {seen[k - 1].state.pending : k \in {i \in DOMAIN seen \ {1} : Drops(seen[i - 1], seen[i])}}

Cost(r) == IF r.outage = NoOutage THEN 0 ELSE 1

\* The call r returns.
Returns(r) ==
    /\ Hits(r)
    /\ box' = r.box /\ co' = r.co /\ disk' = r.disk
    /\ witnessed' = witnessed \cup {c \in Contexts : RevokedOnDisk(r.disk, c)}
    /\ barred' = barred \cup BarredIn(r.seen)
    /\ outlived' = outlived \cup OutlivedIn(r.seen)
    /\ mishaps' = mishaps + Cost(r)
    /\ UNCHANGED <<now, setbacks>>

\* The process dies inside the call r, leaving one of the disks it made.
Dies(r) ==
    /\ Hits(r)
    /\ mishaps + Cost(r) < MaxMishaps
    /\ \E k \in DOMAIN r.seen :
        /\ k # 1
        /\ disk' = r.seen[k]
        /\ witnessed' = witnessed \cup {c \in Contexts : RevokedOnDisk(r.seen[k], c)}
        /\ barred' = barred \cup BarredIn(SubSeq(r.seen, 1, k))
        /\ outlived' = outlived \cup OutlivedIn(SubSeq(r.seen, 1, k))
    /\ up' = FALSE /\ box' = ClosedBox /\ co' = Unbound
    /\ mishaps' = mishaps + Cost(r) + 1
    /\ UNCHANGED <<now, setbacks, offered, late>>

\* A call of the running service that sends nothing.
Step(r) ==
    /\ up
    /\ \/ Returns(r) /\ UNCHANGED <<up, offered, late>>
       \/ Dies(r)

-----------------------------------------------------------------------------
(* The service *)

\* Service start: handle_restart.  A coordinator that refuses stays closed
\* for the life of the process.
Start ==
    /\ ~up
    /\ \E outage \in Outages :
        LET r == OpenCoordinator(Call(outage))
        IN  \/ Returns(r) /\ up' = TRUE /\ UNCHANGED <<offered, late>>
            \/ Dies(r)
    /\ UNCHANGED <<prods, bodies>>

\* exam_telemetry_enable
Enable(c) ==
    /\ co.is_open
    /\ \E outage \in Outages : Step(ServerEnable(Call(outage), c, prods + 1))
    /\ prods' = IF co'.prod = prods + 1 \/ (disk'.state # None /\ disk'.state.prod = prods + 1)
                THEN prods + 1 ELSE prods
    /\ UNCHANGED bodies

\* exam_telemetry_samples from the agent, one or two chunks
Samples ==
    /\ co.is_open
    /\ \E n \in 1..2, outage \in Outages :
        /\ bodies + n <= MaxBodies
        /\ Step(Ingest(Call(outage), [i \in 1..n |-> bodies + i]))
        /\ bodies' = bodies + n
    /\ UNCHANGED prods

\* exam_telemetry_ack: the answer to any batch sent so far, in any order
Ack ==
    /\ co.is_open
    /\ \E b \in offered, status \in Statuses, outage \in Outages :
        Step(ServerAck(Call(outage), b, status))
    /\ UNCHANGED <<prods, bodies>>

\* exam_stop
Stop ==
    /\ co.is_open
    /\ \E outage \in Outages : Step(ExplicitStop(Call(outage)))
    /\ UNCHANGED <<prods, bodies>>

\* The connection is gone: handle_disconnect.
Disconnect ==
    /\ co.is_open
    /\ \E outage \in Outages : Step(ServerDisconnect(Call(outage)))
    /\ UNCHANGED <<prods, bodies>>

\* handle_maintenance, every second
Maintenance ==
    /\ \E outage \in Outages : Step(Maintain(Call(outage)))
    /\ UNCHANGED <<prods, bodies>>

HandedOver(b) ==
    /\ offered' = offered \cup {b}
    /\ late' = [revoked |-> late.revoked \cup {x \in {b} : x.ctx \in witnessed'},
                expired |-> late.expired \cup ({b} \cap barred')]

\* poll_outbound_batch: maintenance, the lifecycle check and a second prune
Pollable(r) ==
    LET Check(x) == IF x.ok /\ x.co.life = "enabled" THEN PruneExpired(x, x.now, FALSE)
                    ELSE Failed(x)
    IN  Check(MaintainOpen(r))

\* The poll, once a second, and the batch it chooses, if any
Poll ==
    /\ up /\ co.is_open
    /\ \E outage \in Outages :
        LET r == Pollable(Call(outage))
        IN  \/ /\ r.ok
               /\ \E i \in Eligible(r.box) :
                    /\ Returns(Offer(r, i))
                    /\ HandedOver(r.box.records[i].batch)
               /\ UNCHANGED up
            \/ /\ r.ok => \A i \in DOMAIN r.box.records :
                            r.box.records[i].in_flight \/ r.box.records[i].waiting
               /\ Returns(r) /\ UNCHANGED <<up, offered, late>>
            \/ Dies(r)
    /\ UNCHANGED <<prods, bodies>>

\* Orderly service stop: handle_shutdown, then the process ends.
HandleShutdown(r) == IF r.co.is_open THEN ServiceShutdown(r) ELSE r
Shutdown ==
    /\ up
    /\ \E outage \in Outages :
        LET r == HandleShutdown(Call(outage))
        IN  \/ Returns(CloseBox([r EXCEPT !.co = Unbound])) /\ up' = FALSE
               /\ UNCHANGED <<offered, late>>
            \/ Dies(r)
    /\ UNCHANGED <<prods, bodies>>

\* The process dies between two calls.
Crash ==
    /\ up /\ up' = FALSE /\ box' = ClosedBox /\ co' = Unbound
    /\ UNCHANGED <<disk, now, setbacks, prods, bodies, mishaps, offered, witnessed, barred,
                  outlived, late>>

\* The wall clock moves on, or is set back.
Clock ==
    /\ \/ now < LastTime /\ now' = now + 1 /\ setbacks' = setbacks
       \/ setbacks < MaxSetbacks /\ now' \in 1..(now - 1) /\ setbacks' = setbacks + 1
    /\ UNCHANGED <<up, box, co, disk, prods, bodies, mishaps, offered, witnessed, barred,
                  outlived, late>>

Next ==
    \/ Start
    \/ \E c \in Contexts : Enable(c)
    \/ Samples
    \/ Ack
    \/ Stop
    \/ Disconnect
    \/ Maintenance
    \/ Poll
    \/ Shutdown
    \/ Crash
    \/ Clock

Spec == Init /\ [][Next]_vars

-----------------------------------------------------------------------------
(* Properties *)

\* No batch of a context is handed to the connection once its revocation is
\* durable, whatever process reads the files, across failed writes and crashes.
RevokedNeverSent == late.revoked = {}

\* A batch whose expiry is durable is not sent again, also when the clock is
\* set back, unless it was still a write-ahead intent when the payload file or
\* the counter that knew of its expiry was dropped.
ExpiredNeverSent == late.expired \subseteq outlived

\* What the files say of the end of a context or of a batch binds every later
\* process: nothing revoked and nothing expired is sent.
NothingSentLate == RevokedNeverSent /\ ExpiredNeverSent

\* The expiry barrier keeps every batch that was seen to be expired from being
\* sent after the clock is set back.
ExpiredNeverRevived == late.expired = {}

\* A producer and a sequence number name one batch for ever: the write-ahead
\* intent keeps a restart from sending different samples under an identity
\* the server has already seen.
IdentityNeverReused ==
    \A a, b \in offered : SameIdentity(a, b) => a = b

\* The files the service leaves, at whatever point it dies, are files it
\* opens again: only the ".blocked" marker, a clock behind the pending
\* intent, or a payload file deleted under a pending intent refuse.
OwnFilesOpen ==
    /\ ~disk.blocked /\ disk.state # None
       /\ (disk.state.pending # None => disk.file # None /\ disk.state.started <= now)
       => ~RefusesFiles(disk, now)
    /\ disk.state # None /\ disk.file # None /\ ~disk.revoked /\ ~disk.blocked
       => \/ Consistent(disk.state, disk.file.records)
          \/ disk.state.life = "revoked"

\* Every batch the payload file ever held is still in it, was accepted, was
\* purged with its context, or is counted as lost (counters saturate at
\* MaximumOutboxBatches, which the bound MaxBodies does not exceed).
LossesCounted ==
    disk.file # None =>
    \A c \in Contexts :
        disk.file.owed[c] =
            TotalLoss(LossOf(disk.file.losses, c))
            + Cardinality({i \in DOMAIN disk.file.records :
                            disk.file.records[i].batch.ctx = c})

=============================================================================
