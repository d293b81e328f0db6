-------------------------- MODULE TelemetryProofs --------------------------
(*****************************************************************************)
(* Proofs about the telemetry client, for any contexts, capacities,          *)
(* lifetimes, number of batches, faults and deaths of the process and any    *)
(* clock: nothing is sent that the files have revoked or hold expired, no    *)
(* identity names two batches, and the service opens the files it leaves.    *)
(*                                                                           *)
(* A call is a composition of storage operations, and the process may die    *)
(* after each of them; so the invariant is kept by every operation and not   *)
(* only by every call.  Ready says of a run that each of the disks it has    *)
(* passed through promises what a restart needs (FilesOK, ExpiryOK), given   *)
(* the batches that were known and those that were expired at that point.    *)
(* Good adds the memory: the open outbox mirrors the payload file, and the   *)
(* coordinator knows at least what the state file knows (Bound).  One lemma  *)
(* per operation says what it does to a ready or a good run, one per call    *)
(* puts these together, and one per action passes from the last disk of the  *)
(* call, or the one the process died on, to the next state.                  *)
(*                                                                           *)
(* Two thoughts carry the rest.  A batch is known from the moment a payload  *)
(* file holds it, and no state that could give its number to another one     *)
(* follows: the number is used, or it is the intent's (Before).  And a batch *)
(* that was seen to be expired is either hidden by the barrier beside the    *)
(* file (Shows), or counted, and the count keeps an intent from entering the *)
(* outbox again (Remembers).                                                 *)
(*****************************************************************************)
EXTENDS TelemetryClient, FiniteSetTheorems, SequenceTheorems, WellFoundedInduction, TLAPS

-----------------------------------------------------------------------------
(* Types. *)

Disks == [file : Files \cup {None}, expiry : Nat, revoked : BOOLEAN,
          state : States \cup {None}, blocked : BOOLEAN]
Boxes == [is_open : BOOLEAN, records : Seq(Records), losses : LossTables,
          retry_pending : BOOLEAN, expired_losses : SUBSET Contexts, barrier : Nat,
          owed : [Contexts -> Int]]
Coordinators ==
    [is_open : BOOLEAN, ctx : Contexts \cup {None}, life : LifecycleStates,
     archive : SUBSET Contexts, prod : Nat, seq : Nat, pending : Batches \cup {None},
     started : Nat, dirty : BOOLEAN, cleanup : BOOLEAN]
Faults == [kind : {"none", "once", "lasting", "torn"}, first : Nat]
Runs == [box : Boxes, co : Coordinators, disk : Disks, ops : Nat, outage : Faults,
         seen : Seq(Disks), now : Nat \ {0}, ok : BOOLEAN]

-----------------------------------------------------------------------------
(* What a disk promises. *)

\* The batches of a list of records, and of the payload file.
BatchesOf(records) == {records[i].batch : i \in DOMAIN records}
FileBatches(d) == IF d.file = None THEN {} ELSE BatchesOf(d.file.records)

\* No identity twice.
Distinct(records) ==
    \A i, j \in DOMAIN records : SameIdentity(records[i].batch, records[j].batch) => i = j
Unique(bs) == \A a, b \in bs : SameIdentity(a, b) => a = b

\* The contexts that a state, in memory or on disk, holds revoked.
RevokedBy(x) == x.archive \cup (IF x.life = "revoked" THEN {x.ctx} ELSE {})

\* The batch has an earlier number than the next one, or is the intent.
Before(x, b) == b.prod = x.prod => b.seq < x.seq \/ b = x.pending \/ x.life = "revoked"

\* The batch can be in the payload file of the state.
Fits(x, b) ==
    /\ b.ctx = x.ctx /\ b.prod = x.prod
    /\ b.seq < x.seq \/ (x.pending # None /\ b.seq = x.pending.seq)

\* A state that load_state_locked accepts, apart from the clock.
Shaped(x) ==
    /\ x.ctx = None => x.prod = 0 /\ x.seq = 1 /\ x.life = "disabled"
    /\ x.ctx # None => x.prod # 0
    /\ IsFiniteSet(x.archive) /\ Cardinality(x.archive) <= MaximumRevoked
    /\ x.ctx \in x.archive => x.life = "revoked"
    /\ x.pending # None =>
        /\ x.started # 0
        /\ x.pending.ctx = x.ctx /\ x.pending.prod = x.prod /\ x.pending.seq = x.seq
        /\ x.life # "revoked" /\ x.seq < MaximumSequence
    /\ x.pending = None => x.started = 0
    /\ x.seq <= MaximumSequence

\* A state of a producer up to p, when the batches known are bs.
StateFits(x, p, bs) == x.prod <= p /\ Shaped(x) /\ \A b \in bs : Before(x, b)

\* The batches known are what they are named for.
KnownOK(bs) == Unique(bs) /\ bs \subseteq Batches /\ \A b \in bs : b.prod # 0 /\ b.prod <= prods

\* What the files say of contexts, identities and batches.
FilesOK(d, p, bs) ==
    /\ FileBatches(d) \subseteq bs
    /\ KnownOK(bs)
    /\ d.file # None => Distinct(d.file.records)
    /\ d.state # None => StateFits(d.state, p, bs)
    /\ \/ d.blocked
       \/ d.state = None /\ witnessed = {}
       \/ d.state # None /\ witnessed \subseteq RevokedBy(d.state)
    /\ d.state # None /\ ~d.revoked /\ ~d.blocked /\ d.state.life # "revoked"
        => \A b \in FileBatches(d) : Fits(d.state, b)

\* The files show the expiry of every batch of es that they could revive.
Shows(records, at, es) ==
    \A i \in DOMAIN records :
        records[i].batch \in es => at # 0 /\ ExpiredAt(Stamp(records[i]), at)
Remembers(d, es) ==
    \/ d.blocked
    \/ d.state = None
    \/ d.state.pending \notin es
    \/ /\ d.file # None
       /\ \/ d.state.pending \in FileBatches(d)
          \/ LossOf(d.file.losses, d.state.pending.ctx).expired # 0
ExpiryOK(d, es) ==
    /\ d.file # None => Shows(d.file.records, d.expiry, es)
    /\ Remembers(d, es)

-----------------------------------------------------------------------------
(* What a run has passed through. *)

KnownAt(seen, k) == offered \cup barred \cup UNION {FileBatches(seen[j]) : j \in 1..k}
BarredAt(seen, k) == barred \cup UNION {BarredOnDisk(seen[j]) : j \in 1..k}
GoneAt(seen, k) ==
    outlived \cup {seen[j - 1].state.pending : j \in {i \in 2..k : Drops(seen[i - 1], seen[i])}}
ExpiredAtStep(seen, k) == BarredAt(seen, k) \ GoneAt(seen, k)

Known(r) == KnownAt(r.seen, Len(r.seen))
Expired(r) == ExpiredAtStep(r.seen, Len(r.seen))

SeenOK(r, p) ==
    /\ Len(r.seen) >= 1 /\ r.seen[Len(r.seen)] = r.disk
    /\ \A k \in 1..Len(r.seen) :
        /\ FilesOK(r.seen[k], p, KnownAt(r.seen, k))
        /\ ExpiryOK(r.seen[k], ExpiredAtStep(r.seen, k))

\* The counters of expired batches agree.
SameExpired(l, m) == \A c \in Contexts : LossOf(l, c).expired = LossOf(m, c).expired

\* The records of x are at least as old as those of y.
Older(x, y) ==
    \A i \in DOMAIN x, j \in DOMAIN y :
        x[i].batch = y[j].batch => Stamp(x[i]) <= Stamp(y[j])

\* An open outbox b mirrors the file of the disk d, and the barrier hides
\* every record whose batch is in es.
Mirrors(b, d, es) ==
    /\ d.file # None /\ ~d.revoked
    /\ BatchesOf(b.records) = BatchesOf(d.file.records)
    /\ Distinct(b.records)
    /\ Older(b.records, d.file.records)
    /\ SameExpired(b.losses, d.file.losses)
    /\ b.barrier = d.expiry
    /\ Shows(b.records, b.barrier, es)
    /\ b.expired_losses # {} => b.retry_pending
Mirror(r) == Mirrors(r.box, r.disk, Expired(r))

BoxOK(r, p) == r \in Runs /\ SeenOK(r, p) /\ (r.box.is_open => Mirror(r))

\* Memory that is not ahead of the state file: a restart suspends.
Saved(m, s) ==
    /\ s.ctx = m.ctx /\ s.archive = m.archive /\ s.prod = m.prod /\ s.seq = m.seq
    /\ s.pending = m.pending /\ s.started = m.started
    /\ s.life = m.life \/ (s.life = "enabled" /\ m.life = "suspended")

\* The coordinator knows at least what the files know.
Bound(r, p) ==
    /\ StateFits(r.co, p, Known(r))
    /\ r.disk.state # None
    /\ RevokedBy(r.disk.state) \cup witnessed \subseteq RevokedBy(r.co)
    /\ ~r.co.dirty => Saved(r.co, r.disk.state)
    /\ r.disk.blocked => r.co.cleanup
    /\ r.co.cleanup => IsRevoked(r.co)
    /\ ~r.co.cleanup => r.box.is_open
    /\ ~IsRevoked(r.co) => \A b \in FileBatches(r.disk) : Fits(r.co, b)
    /\ IsRevoked(r.co) /\ ~r.co.cleanup => FileBatches(r.disk) = {}

Good(r, p) == BoxOK(r, p) /\ Bound(r, p) /\ r.co.pending \notin Expired(r)

-----------------------------------------------------------------------------
(* The later and the earlier of two times. *)

LEMMA MinOfTwo ==
  ASSUME NEW a \in Int, NEW b \in Int
  PROVE  Min({a, b}) = IF a <= b THEN a ELSE b
  BY DEF Min

LEMMA MaxOfTwo ==
  ASSUME NEW a \in Int, NEW b \in Int
  PROVE  Max({a, b}) = IF a >= b THEN a ELSE b
  BY DEF Max

-----------------------------------------------------------------------------
(* One storage operation. *)

\* A storage operation changes the disk as asked, or nothing but the result.
LEMMA StorageFrame ==
  ASSUME NEW r \in Runs, NEW d \in Disks, NEW s, s = Storage(r, d)
  PROVE  /\ s \in Runs /\ s.co = r.co /\ s.box = r.box /\ s.now = r.now
         /\ s.outage = r.outage
         /\ s.ok => r.ok /\ s.disk = d /\ s.seen = Append(r.seen, d)
         /\ ~s.ok => s.disk = r.disk /\ s.seen = r.seen
         /\ s.ops >= r.ops
         /\ r.ok => s.ops = r.ops + 1 /\ (s.ok <=> ~Fails(r.outage, r.ops + 1))
  <1>1. r.seen \in Seq(Disks) /\ r.ops \in Nat /\ r.ok \in BOOLEAN
    BY DEF Runs
  <1>2. PICK q \in Seq(Disks) : q = Append(r.seen, d)
    <2>1. Append(r.seen, d) \in Seq(Disks)
      BY <1>1
    <2> QED
      BY <2>1, Zenon
  <1>2a. PICK n \in Nat : n = r.ops + 1
    <2>1. r.ops \in Nat
      BY DEF Runs
    <2> QED
      BY <2>1
  <1>3. CASE ~r.ok
    <2>1. s = r
      BY <1>3 DEF Storage
    <2> QED
      BY <1>1, <1>3, <2>1
  <1>4. CASE r.ok /\ Fails(r.outage, r.ops + 1)
    <2>1. s = [r EXCEPT !.ops = n, !.ok = FALSE]
      BY <1>4, <1>2a DEF Storage
    <2>2. s \in Runs /\ s.ok = FALSE /\ s.ops = n
      BY <1>1, <2>1 DEF Runs
    <2>3. /\ s.co = r.co /\ s.box = r.box /\ s.now = r.now /\ s.outage = r.outage
          /\ s.disk = r.disk /\ s.seen = r.seen
      BY <1>1, <2>1 DEF Runs
    <2> QED
      BY <1>1, <1>4, <1>2a, <2>2, <2>3
  <1>5. CASE r.ok /\ ~Fails(r.outage, r.ops + 1)
    <2>1. s = [r EXCEPT !.ops = n, !.disk = d, !.seen = q]
      BY <1>2, <1>5, <1>2a DEF Storage
    <2>2. s \in Runs /\ s.ok = r.ok /\ s.ops = n
      BY <1>1, <2>1 DEF Runs
    <2>3. /\ s.co = r.co /\ s.box = r.box /\ s.now = r.now /\ s.outage = r.outage
          /\ s.disk = d /\ s.seen = q
      BY <1>1, <2>1 DEF Runs
    <2> QED
      BY <1>1, <1>2, <1>5, <1>2a, <2>2, <2>3
  <1> QED
    BY <1>3, <1>4, <1>5

\* What the files no longer know of an intent once the disk d is followed by e.
Lost(d, e) == IF Drops(d, e) THEN {d.state.pending} ELSE {}

\* The disks q are the disks seen and, at m, the disk d.
Grown(seen, d, q, n, m) ==
    /\ q \in Seq(Disks) /\ Len(q) = m /\ q[m] = d
    /\ \A k \in 1..n : /\ q[k] = seen[k] /\ KnownAt(q, k) = KnownAt(seen, k)
                       /\ ExpiredAtStep(q, k) = ExpiredAtStep(seen, k)
    /\ KnownAt(q, m) = KnownAt(seen, n) \cup FileBatches(d)
    /\ ExpiredAtStep(q, m) \subseteq
          (BarredAt(seen, n) \cup BarredOnDisk(d)) \ (GoneAt(seen, n) \cup Lost(seen[n], d))

\* The next disk of a run adds what it holds and shows.
LEMMA SeenGrows ==
  ASSUME NEW seen \in Seq(Disks), NEW d \in Disks, NEW n \in Nat, NEW m \in Nat, NEW q,
         n = Len(seen), n >= 1, m = n + 1, q = Append(seen, d)
  PROVE  Grown(seen, d, q, n, m)
  <1>1. /\ q \in Seq(Disks) /\ Len(q) = m /\ q[m] = d
        /\ \A k \in 1..n : q[k] = seen[k]
    BY AppendProperties
  <1>2. ASSUME NEW k \in 1..n
        PROVE  KnownAt(q, k) = KnownAt(seen, k) /\ BarredAt(q, k) = BarredAt(seen, k)
    <2>1. \A j \in 1..k : q[j] = seen[j]
      BY <1>1
    <2>2. {FileBatches(q[j]) : j \in 1..k} = {FileBatches(seen[j]) : j \in 1..k}
      BY <2>1
    <2>3. {BarredOnDisk(q[j]) : j \in 1..k} = {BarredOnDisk(seen[j]) : j \in 1..k}
      BY <2>1
    <2> QED
      BY <2>2, <2>3, Zenon DEF KnownAt, BarredAt
  <1>3. ASSUME NEW k \in 1..n PROVE GoneAt(q, k) = GoneAt(seen, k)
    <2>1. \A j \in 2..k : q[j] = seen[j] /\ q[j - 1] = seen[j - 1]
      BY <1>1
    <2>2. \A j \in 2..k : Drops(q[j - 1], q[j]) = Drops(seen[j - 1], seen[j])
      BY <2>1
    <2>3. {i \in 2..k : Drops(q[i - 1], q[i])} = {i \in 2..k : Drops(seen[i - 1], seen[i])}
      BY <2>1, Zenon
    <2>4. {q[j - 1].state.pending : j \in {i \in 2..k : Drops(q[i - 1], q[i])}}
            = {seen[j - 1].state.pending : j \in {i \in 2..k : Drops(seen[i - 1], seen[i])}}
      BY <2>1, <2>3
    <2> QED
      BY <2>4, Zenon DEF GoneAt
  <1>4. n \in 1..n /\ n \in 1..m /\ m \in 1..m
    OBVIOUS
  <1>5. KnownAt(q, m) = KnownAt(seen, n) \cup FileBatches(d)
    <2>1. \A j : j \in 1..m <=> j \in 1..n \/ j = m
      OBVIOUS
    <2>2. UNION {FileBatches(q[j]) : j \in 1..m}
            = (UNION {FileBatches(seen[j]) : j \in 1..n}) \cup FileBatches(d)
      BY <1>1, <2>1
    <2> QED
      BY <2>2 DEF KnownAt
  <1>6. BarredAt(q, m) = BarredAt(seen, n) \cup BarredOnDisk(d)
    <2>1. \A j : j \in 1..m <=> j \in 1..n \/ j = m
      OBVIOUS
    <2>2. UNION {BarredOnDisk(q[j]) : j \in 1..m}
            = (UNION {BarredOnDisk(seen[j]) : j \in 1..n}) \cup BarredOnDisk(d)
      BY <1>1, <2>1
    <2> QED
      BY <2>2 DEF BarredAt
  <1>7. GoneAt(seen, n) \cup Lost(seen[n], d) \subseteq GoneAt(q, m)
    <2>1. GoneAt(q, n) \subseteq GoneAt(q, m)
      <3>1. 2..n \subseteq 2..m
        OBVIOUS
      <3> QED
        BY <3>1 DEF GoneAt
    <2>2. Lost(seen[n], d) \subseteq GoneAt(q, m)
      <3> SUFFICES ASSUME Drops(seen[n], d) PROVE seen[n].state.pending \in GoneAt(q, m)
        BY DEF Lost
      <3>1. m \in 2..m /\ m - 1 = n
        OBVIOUS
      <3>2. Drops(q[m - 1], q[m]) /\ q[m - 1].state.pending = seen[n].state.pending
        BY <1>1, <1>4, <3>1
      <3> QED
        BY <3>1, <3>2 DEF GoneAt
    <2> QED
      BY <1>3, <1>4, <2>1, <2>2
  <1> QED
    BY <1>1, <1>2, <1>3, <1>5, <1>6, <1>7 DEF ExpiredAtStep, Grown

\* A run whose disks are all in order.
Ready(r, p) == r \in Runs /\ SeenOK(r, p)

\* What may be revived once d has followed the disk of the run.
After(r, d) ==
    (Expired(r) \cup (BarredOnDisk(d) \ GoneAt(r.seen, Len(r.seen)))) \ Lost(r.disk, d)

\* The disk d may follow the disk of the run.
Follows(r, d, p) ==
    /\ d \in Disks
    /\ FilesOK(d, p, Known(r) \cup FileBatches(d))
    /\ ExpiryOK(d, After(r, d))

\* The run s is the run r after a write of d that succeeded or failed.
Wrote(r, s, d, p) ==
    /\ Ready(s, p) /\ s.co = r.co /\ s.box = r.box /\ s.now = r.now /\ s.outage = r.outage
    /\ s.ok => /\ r.ok /\ s.disk = d
               /\ Known(s) = Known(r) \cup FileBatches(d) /\ Expired(s) \subseteq After(r, d)
    /\ ~s.ok => s.disk = r.disk /\ Known(s) = Known(r) /\ Expired(s) = Expired(r)

\* The fewer batches could be revived, the less the files have to show.
LEMMA FewerExpired ==
  ASSUME NEW d, NEW es, NEW fs, fs \subseteq es, ExpiryOK(d, es)
  PROVE  ExpiryOK(d, fs)
  BY DEF ExpiryOK, Shows, Remembers

\* A write of a disk that may follow keeps the run in order.
LEMMA StorageOK ==
  ASSUME NEW r, NEW d, NEW p, Ready(r, p), Follows(r, d, p), NEW s, s = Storage(r, d)
  PROVE  Wrote(r, s, d, p)
  <1>1. r \in Runs /\ d \in Disks /\ SeenOK(r, p)
    BY DEF Ready, Follows
  <1>2. /\ s \in Runs /\ s.co = r.co /\ s.box = r.box /\ s.now = r.now
        /\ s.outage = r.outage
        /\ s.ok => r.ok /\ s.disk = d /\ s.seen = Append(r.seen, d)
        /\ ~s.ok => s.disk = r.disk /\ s.seen = r.seen
    BY <1>1, StorageFrame
  <1>3. CASE ~s.ok
    <2>1. SeenOK(s, p) /\ Known(s) = Known(r) /\ Expired(s) = Expired(r)
      BY <1>1, <1>2, <1>3 DEF SeenOK, Known, Expired
    <2> QED
      BY <1>2, <1>3, <2>1 DEF Wrote, Ready
  <1>4. CASE s.ok
    <2>1. PICK n \in Nat : n = Len(r.seen) /\ n >= 1 /\ r.seen[n] = r.disk
      <3>1. r.seen \in Seq(Disks)
        BY <1>1 DEF Runs
      <3>2. Len(r.seen) \in Nat
        BY <3>1
      <3> QED
        BY <1>1, <3>2 DEF SeenOK
    <2>2. PICK m \in Nat : m = n + 1
      OBVIOUS
    <2>3. PICK q : q = Append(r.seen, d)
      OBVIOUS
    <2>4. r.seen \in Seq(Disks)
      BY <1>1 DEF Runs
    <2>5. /\ q \in Seq(Disks) /\ Len(q) = m /\ q[m] = d
          /\ \A k \in 1..n : /\ q[k] = r.seen[k] /\ KnownAt(q, k) = KnownAt(r.seen, k)
                             /\ ExpiredAtStep(q, k) = ExpiredAtStep(r.seen, k)
          /\ KnownAt(q, m) = KnownAt(r.seen, n) \cup FileBatches(d)
          /\ ExpiredAtStep(q, m) \subseteq
                (BarredAt(r.seen, n) \cup BarredOnDisk(d))
                    \ (GoneAt(r.seen, n) \cup Lost(r.seen[n], d))
      <3>1. PICK x \in Seq(Disks) : x = r.seen
        BY <2>4
      <3>2. n = Len(x) /\ n >= 1 /\ m = n + 1 /\ q = Append(x, d) /\ d \in Disks
        BY <1>1, <2>1, <2>2, <2>3, <3>1
      <3>3. Grown(x, d, q, n, m)
        BY <3>2, SeenGrows
      <3> QED
        BY <3>1, <3>3, Zenon DEF Grown
    <2>6. s.seen = q /\ s.disk = d
      BY <1>2, <1>4, <2>3
    <2>7. Known(s) = Known(r) \cup FileBatches(d) /\ Expired(s) \subseteq After(r, d)
      <3>1. Known(r) = KnownAt(r.seen, n) /\ Expired(r) = ExpiredAtStep(r.seen, n)
        BY <2>1 DEF Known, Expired
      <3>2. Known(s) = KnownAt(q, m) /\ Expired(s) = ExpiredAtStep(q, m)
        BY <2>5, <2>6 DEF Known, Expired
      <3> QED
        BY <2>1, <2>5, <3>1, <3>2 DEF After, ExpiredAtStep
    <2>8. ASSUME NEW k \in 1..m
          PROVE  FilesOK(q[k], p, KnownAt(q, k)) /\ ExpiryOK(q[k], ExpiredAtStep(q, k))
      <3>1. CASE k = m
        <4>1. FilesOK(d, p, KnownAt(q, m))
          BY <2>1, <2>5 DEF Follows, Known
        <4>2. ExpiryOK(d, ExpiredAtStep(q, m))
          <5>1. ExpiryOK(d, After(r, d)) /\ ExpiredAtStep(q, m) \subseteq After(r, d)
            BY <2>1, <2>5 DEF Follows, After, Expired, ExpiredAtStep
          <5> QED
            BY <5>1, FewerExpired
        <4> QED
          BY <2>5, <3>1, <4>1, <4>2
      <3>2. CASE k # m
        <4>1. k \in 1..n
          BY <2>2, <3>2
        <4>2. FilesOK(r.seen[k], p, KnownAt(r.seen, k))
              /\ ExpiryOK(r.seen[k], ExpiredAtStep(r.seen, k))
          BY <1>1, <2>1, <4>1 DEF SeenOK
        <4> QED
          BY <2>5, <4>1, <4>2
      <3> QED
        BY <3>1, <3>2
    <2>9. SeenOK(s, p)
      <3>1. Len(q) >= 1
        BY <2>1, <2>2, <2>5
      <3> QED
        BY <2>5, <2>6, <2>8, <3>1 DEF SeenOK
    <2> QED
      BY <1>2, <1>4, <2>6, <2>7, <2>9 DEF Wrote, Ready
  <1> QED
    BY <1>3, <1>4

-----------------------------------------------------------------------------
(* Records and lists of records. *)

LEMMA FunIsSeq ==
  ASSUME NEW S, NEW n \in Nat, NEW q \in [1..n -> S]
  PROVE  q \in Seq(S) /\ Len(q) = n /\ DOMAIN q = 1..n
  OBVIOUS

LEMMA SeqIsFun ==
  ASSUME NEW S, NEW q \in Seq(S)
  PROVE  Len(q) \in Nat /\ DOMAIN q = 1..Len(q) /\ \A i \in 1..Len(q) : q[i] \in S
  OBVIOUS

\* Two records of the same batch and time.
Twin(a, b) == a.batch = b.batch /\ a.arrived = b.arrived

LEMMA RecordObserved ==
  ASSUME NEW rec \in Records, NEW e \in BOOLEAN, NEW q, q = [rec EXCEPT !.observed = e]
  PROVE  q \in Records /\ Twin(q, rec) /\ q.observed = e
  BY DEF Records, Twin

LEMMA RecordFlight ==
  ASSUME NEW rec \in Records, NEW e \in BOOLEAN, NEW f \in BOOLEAN, NEW q,
         q = [rec EXCEPT !.in_flight = e, !.waiting = f]
  PROVE  q \in Records /\ Twin(q, rec) /\ q.observed = rec.observed
  BY DEF Records, Twin

LEMMA RecordInFlight ==
  ASSUME NEW rec \in Records, NEW e \in BOOLEAN, NEW q, q = [rec EXCEPT !.in_flight = e]
  PROVE  q \in Records /\ Twin(q, rec) /\ q.observed = rec.observed
  BY DEF Records, Twin

LEMMA RecordStored ==
  ASSUME NEW rec \in Records, NEW q,
         q = [rec EXCEPT !.in_flight = FALSE, !.observed = FALSE]
  PROVE  q \in Records /\ Twin(q, rec)
  BY DEF Records, Twin

LEMMA RecordArrived ==
  ASSUME NEW rec \in Records, NEW t \in Nat \ {0}, NEW q, q = [rec EXCEPT !.arrived = t]
  PROVE  q \in Records /\ q.batch = rec.batch /\ q.arrived = t
  BY DEF Records

\* The lists hold the same records, apart from their flags.
Alike(a, b) ==
    /\ a \in Seq(Records) /\ b \in Seq(Records) /\ Len(a) = Len(b)
    /\ \A i \in 1..Len(a) : Twin(a[i], b[i])

LEMMA AlikeSame ==
  ASSUME NEW a, NEW b, Alike(a, b)
  PROVE  /\ BatchesOf(a) = BatchesOf(b) /\ (Distinct(a) <=> Distinct(b))
         /\ \A t, es : Shows(a, t, es) <=> Shows(b, t, es)
  <1>1. /\ DOMAIN a = 1..Len(a) /\ DOMAIN b = 1..Len(a)
        /\ \A i \in 1..Len(a) : a[i].batch = b[i].batch /\ Stamp(a[i]) = Stamp(b[i])
    <2>1. DOMAIN a = 1..Len(a) /\ DOMAIN b = 1..Len(a)
      BY DEF Alike
    <2>2. ASSUME NEW i \in 1..Len(a)
          PROVE  a[i].batch = b[i].batch /\ Stamp(a[i]) = Stamp(b[i])
      <3>1. a[i].batch = b[i].batch /\ a[i].arrived = b[i].arrived
        BY DEF Alike, Twin
      <3> QED
        BY <3>1, Zenon DEF Stamp
    <2> QED
      BY <2>1, <2>2
  <1>2. BatchesOf(a) = BatchesOf(b)
    BY <1>1 DEF BatchesOf
  <1>3. Distinct(a) <=> Distinct(b)
    BY <1>1 DEF Distinct
  <1>4. ASSUME NEW t, NEW es PROVE Shows(a, t, es) <=> Shows(b, t, es)
    BY <1>1 DEF Shows
  <1> QED
    BY <1>2, <1>3, <1>4

LEMMA AlikeSelf ==
  ASSUME NEW a \in Seq(Records)
  PROVE  Alike(a, a)
  BY DEF Alike, Twin

\* The time of a record.
LEMMA StampTime ==
  ASSUME NEW rec \in Records
  PROVE  /\ Stamp(rec) \in Nat \ {0}
         /\ Stamp(rec) = IF rec.arrived <= rec.batch.stamp THEN rec.arrived ELSE rec.batch.stamp
  <1>1. rec.arrived \in Nat \ {0} /\ rec.batch \in Batches
    BY DEF Records
  <1>2. rec.batch.stamp \in Nat \ {0}
    BY <1>1 DEF Batches
  <1>3. rec.arrived \in Int /\ rec.batch.stamp \in Int
    BY <1>1, <1>2
  <1> QED
    BY <1>1, <1>2, <1>3, MinOfTwo DEF Stamp

\* What has expired stays expired, also under an earlier stamp.
LEMMA ExpiredStays ==
  ASSUME NEW a \in Nat, NEW b \in Nat \ {0}, b <= a, NEW t \in Nat, NEW u \in Nat, t <= u,
         ExpiredAt(a, t)
  PROVE  ExpiredAt(b, u)
  BY OutboxAssumption DEF ExpiredAt

-----------------------------------------------------------------------------
(* Induction over a set of numbers. *)

LEMMA SetInduction ==
  ASSUME NEW S \in SUBSET Nat, 0 \in S, \A i \in S : i + 1 \in S
  PROVE  S = Nat
  <1> DEFINE Bad == Nat \ S
  <1> SUFFICES ASSUME Bad # {} PROVE FALSE
    OBVIOUS
  <1>1. PICK n \in Bad : \A a \in Bad : ~(<<a, n>> \in OpToRel(<, Nat))
    <2>1. Bad \subseteq Nat
      OBVIOUS
    <2> HIDE DEF Bad
    <2> QED
      BY <2>1, NatLessThanWellFounded, WFMin, Zenon
  <1>2. n \in Nat /\ n \notin S /\ \A a \in Bad : ~(a < n)
    BY <1>1 DEF OpToRel
  <1>3. PICK m \in Nat : n = m + 1
    BY <1>2
  <1>4. m \in S
    BY <1>2, <1>3
  <1> QED
    BY <1>2, <1>3, <1>4

-----------------------------------------------------------------------------
(* The removal of expired records. *)

\* The function that sorts the records of b one after the other, from z on.
IsSorting(f, b, z, t, n) ==
    f = [i \in 0..n |-> IF i = 0 THEN z ELSE Sorted(f[i - 1], b.records[i], t)]

LEMMA SortingExists ==
  ASSUME NEW b, NEW z, NEW t, NEW n \in Nat
  PROVE  \E f : IsSorting(f, b, z, t, n)
  <1> DEFINE S == {k \in Nat : \E f : IsSorting(f, b, z, t, k)}
  <1>1. 0 \in S
    <2>1. PICK f : f = [i \in 0..0 |-> z]
      OBVIOUS
    <2>2. IsSorting(f, b, z, t, 0)
      BY <2>1 DEF IsSorting
    <2> QED
      BY <2>2
  <1>2. ASSUME NEW m \in S PROVE m + 1 \in S
    <2>1. PICK k \in Nat : k = m + 1 /\ m \in Nat
      OBVIOUS
    <2>2. PICK f : IsSorting(f, b, z, t, m)
      OBVIOUS
    <2>3. PICK g : g = [i \in 0..k |-> IF i = k THEN Sorted(f[m], b.records[k], t) ELSE f[i]]
      OBVIOUS
    <2>4. ASSUME NEW i \in 0..k
          PROVE  g[i] = IF i = 0 THEN z ELSE Sorted(g[i - 1], b.records[i], t)
      <3>1. CASE i = k
        BY <2>1, <2>3, <3>1
      <3>2. CASE i # k
        <4>1. i \in 0..m /\ g[i] = f[i]
          BY <2>1, <2>3, <3>2
        <4>2. f[i] = IF i = 0 THEN z ELSE Sorted(f[i - 1], b.records[i], t)
          BY <2>2, <4>1 DEF IsSorting
        <4>3. i # 0 => g[i - 1] = f[i - 1]
          BY <2>1, <2>3, <4>1
        <4> QED
          BY <4>1, <4>2, <4>3
      <3> QED
        BY <3>1, <3>2
    <2>5. IsSorting(g, b, z, t, k)
      BY <2>3, <2>4 DEF IsSorting
    <2> QED
      BY <2>1, <2>5
  <1>3. S \in SUBSET Nat
    OBVIOUS
  <1>4. S = Nat
    <2> HIDE DEF S
    <2> QED
      BY <1>1, <1>2, <1>3, SetInduction
  <1> QED
    BY <1>4

\* What pruning starts from.
Cleared(b) ==
    [b EXCEPT !.records = <<>>,
              !.losses = [c \in DOMAIN b.losses \ b.expired_losses |-> b.losses[c]],
              !.owed = Forgotten(@, b.losses, b.expired_losses)]

LEMMA PrunedSteps ==
  ASSUME NEW b \in Boxes, NEW t, NEW n \in Nat, n = Len(b.records)
  PROVE  \E f : /\ Pruned(b, t) = f[n]
                /\ f[0] = Cleared(b)
                /\ \A i \in 1..n : f[i] = Sorted(f[i - 1], b.records[i], t)
  <1> DEFINE z == Cleared(b)
             p[i \in 0..Len(b.records)] ==
                 IF i = 0 THEN z ELSE Sorted(p[i - 1], b.records[i], t)
  <1>1. Pruned(b, t) = p[n]
    BY DEF Pruned, Cleared
  <1>2. \E f : f = [i \in 0..Len(b.records) |->
                        IF i = 0 THEN z ELSE Sorted(f[i - 1], b.records[i], t)]
    <2>1. \E f : IsSorting(f, b, z, t, Len(b.records))
      BY SortingExists
    <2> QED
      BY <2>1, Zenon DEF IsSorting
  <1>3. p = [i \in 0..Len(b.records) |->
                IF i = 0 THEN z ELSE Sorted(p[i - 1], b.records[i], t)]
    <2> HIDE DEF z
    <2> QED
      BY <1>2, Zenon
  <1> HIDE DEF p
  <1>4. p[0] = z
    <2>1. 0 \in 0..Len(b.records)
      OBVIOUS
    <2> QED
      BY <1>3, <2>1, Zenon
  <1>5. ASSUME NEW i \in 1..n PROVE p[i] = Sorted(p[i - 1], b.records[i], t)
    <2>1. i \in 0..Len(b.records) /\ i # 0
      OBVIOUS
    <2> QED
      BY <1>3, <2>1, Zenon
  <1> QED
    BY <1>1, <1>4, <1>5

-----------------------------------------------------------------------------
(* Loss counters. *)

LEMMA TableParts ==
  ASSUME NEW l \in LossTables
  PROVE  /\ DOMAIN l \subseteq Contexts
         /\ \A c \in DOMAIN l : l[c] \in Losses
         /\ \A c : LossOf(l, c) \in Losses
  <1>1. PICK cs \in SUBSET Contexts : l \in [cs -> Losses]
    BY DEF LossTables
  <1>2. EmptyLoss \in Losses
    BY DEF EmptyLoss, Losses
  <1> QED
    BY <1>1, <1>2 DEF LossOf

LEMMA TableMade ==
  ASSUME NEW cs \in SUBSET Contexts, NEW l \in [cs -> Losses]
  PROVE  l \in LossTables /\ DOMAIN l = cs
  BY DEF LossTables

\* Part of a table.
LEMMA TablePart ==
  ASSUME NEW l \in LossTables, NEW cs, NEW m, m = [c \in DOMAIN l \ cs |-> l[c]]
  PROVE  /\ m \in LossTables
         /\ \A c : LossOf(m, c) = IF c \in cs THEN EmptyLoss ELSE LossOf(l, c)
  <1>1. DOMAIN l \ cs \in SUBSET Contexts /\ m \in [DOMAIN l \ cs -> Losses]
    BY TableParts
  <1>2. m \in LossTables /\ DOMAIN m = DOMAIN l \ cs
    BY <1>1, TableMade
  <1> QED
    BY <1>2 DEF LossOf

LEMMA TableSet ==
  ASSUME NEW l \in LossTables, NEW c \in Contexts, NEW x \in Losses, NEW m,
         m = SetLoss(l, c, x)
  PROVE  /\ m \in LossTables
         /\ \A k : LossOf(m, k) = IF k = c THEN x ELSE LossOf(l, k)
  <1>1. /\ DOMAIN l \cup {c} \in SUBSET Contexts
        /\ m \in [DOMAIN l \cup {c} -> Losses]
    BY TableParts DEF SetLoss
  <1>2. m \in LossTables /\ DOMAIN m = DOMAIN l \cup {c}
    BY <1>1, TableMade
  <1> QED
    BY <1>2 DEF LossOf, SetLoss

\* Counting keeps a counter of expired batches above zero, and brings it there.
LEMMA CountedOK ==
  ASSUME NEW x \in Losses, NEW t \in Nat, NEW k \in {"rejected", "conflict", "expired"}
  PROVE  /\ Counted(x, k, t) \in Losses
         /\ k = "expired" => Counted(x, k, t).expired # 0
         /\ k # "expired" => Counted(x, k, t).expired = x.expired
  <1>0. x.rejected \in Nat /\ x.conflict \in Nat /\ x.expired \in Nat /\ x.first \in Nat
    BY DEF Losses
  <1>1. PICK f \in Nat : f = IF x.first = 0 THEN t ELSE x.first
    BY <1>0
  <1>2. CASE k = "expired"
    <2>1. PICK e \in Nat : e = (IF x.expired < MaximumOutboxBatches THEN x.expired + 1
                                ELSE x.expired) /\ e # 0
      BY <1>0, OutboxAssumption
    <2>2. PICK y : y = [x EXCEPT !["expired"] = e]
      OBVIOUS
    <2>3. y \in Losses /\ y.expired = e /\ y.first = x.first
      BY <2>2 DEF Losses
    <2>4. PICK z : z = [y EXCEPT !.first = f]
      OBVIOUS
    <2>5. z \in Losses /\ z.expired = e
      BY <2>3, <2>4 DEF Losses
    <2>6. Counted(x, k, t) = z
      BY <1>1, <1>2, <2>1, <2>2, <2>3, <2>4 DEF Counted
    <2> QED
      BY <1>2, <2>1, <2>5, <2>6
  <1>3. CASE k = "rejected"
    <2>1. PICK e \in Nat : e = IF x.rejected < MaximumOutboxBatches THEN x.rejected + 1
                               ELSE x.rejected
      BY <1>0
    <2>2. PICK y : y = [x EXCEPT !["rejected"] = e]
      OBVIOUS
    <2>3. y \in Losses /\ y.expired = x.expired /\ y.first = x.first
      BY <2>2 DEF Losses
    <2>4. PICK z : z = [y EXCEPT !.first = f]
      OBVIOUS
    <2>5. z \in Losses /\ z.expired = x.expired
      BY <2>3, <2>4 DEF Losses
    <2>6. Counted(x, k, t) = z
      BY <1>1, <1>3, <2>1, <2>2, <2>3, <2>4 DEF Counted
    <2> QED
      BY <1>3, <2>5, <2>6
  <1>4. CASE k = "conflict"
    <2>1. PICK e \in Nat : e = IF x.conflict < MaximumOutboxBatches THEN x.conflict + 1
                               ELSE x.conflict
      BY <1>0
    <2>2. PICK y : y = [x EXCEPT !["conflict"] = e]
      OBVIOUS
    <2>3. y \in Losses /\ y.expired = x.expired /\ y.first = x.first
      BY <2>2 DEF Losses
    <2>4. PICK z : z = [y EXCEPT !.first = f]
      OBVIOUS
    <2>5. z \in Losses /\ z.expired = x.expired
      BY <2>3, <2>4 DEF Losses
    <2>6. Counted(x, k, t) = z
      BY <1>1, <1>4, <2>1, <2>2, <2>3, <2>4 DEF Counted
    <2> QED
      BY <1>4, <2>5, <2>6
  <1> QED
    BY <1>2, <1>3, <1>4

-----------------------------------------------------------------------------
(* Boxes. *)

LEMMA BoxParts ==
  ASSUME NEW b \in Boxes
  PROVE  /\ b.is_open \in BOOLEAN /\ b.records \in Seq(Records) /\ b.losses \in LossTables
         /\ b.retry_pending \in BOOLEAN /\ b.expired_losses \in SUBSET Contexts
         /\ b.barrier \in Nat /\ b.owed \in [Contexts -> Int]
  BY DEF Boxes

\* The boxes agree but for their records, losses and the history.
SameShell(x, b) ==
    /\ x \in Boxes /\ x.is_open = b.is_open /\ x.barrier = b.barrier
    /\ x.retry_pending = b.retry_pending /\ x.expired_losses = b.expired_losses

LEMMA ShellRecords ==
  ASSUME NEW b \in Boxes, NEW q \in Seq(Records), NEW x, x = [b EXCEPT !.records = q]
  PROVE  SameShell(x, b) /\ x.records = q /\ x.losses = b.losses
  BY DEF Boxes, SameShell

LEMMA ShellLosses ==
  ASSUME NEW b \in Boxes, NEW l \in LossTables, NEW x, x = [b EXCEPT !.losses = l]
  PROVE  SameShell(x, b) /\ x.records = b.records /\ x.losses = l
  BY DEF Boxes, SameShell

LEMMA ShellAll ==
  ASSUME NEW b \in Boxes, NEW q \in Seq(Records), NEW l \in LossTables,
         NEW o \in [Contexts -> Int], NEW x,
         x = [b EXCEPT !.records = q, !.losses = l, !.owed = o]
  PROVE  SameShell(x, b) /\ x.records = q /\ x.losses = l
  BY DEF Boxes, SameShell

\* The counters are numbers, and so is what is owed.
LEMMA ForgottenType ==
  ASSUME NEW o \in [Contexts -> Int], NEW l \in LossTables, NEW cs
  PROVE  Forgotten(o, l, cs) \in [Contexts -> Int]
  <1>1. ASSUME NEW c \in DOMAIN l PROVE TotalLoss(l[c]) \in Int
    <2>1. l[c] \in Losses
      BY TableParts
    <2>2. l[c].rejected \in Nat /\ l[c].conflict \in Nat /\ l[c].expired \in Nat
      BY <2>1 DEF Losses
    <2> QED
      BY <2>2 DEF TotalLoss
  <1>2. ASSUME NEW c \in Contexts
        PROVE (IF c \in cs \cap DOMAIN l THEN o[c] - TotalLoss(l[c]) ELSE o[c]) \in Int
    <2>1. o[c] \in Int
      OBVIOUS
    <2>2. CASE c \in cs \cap DOMAIN l
      <3>1. TotalLoss(l[c]) \in Int
        BY <1>1, <2>2
      <3> QED
        BY <2>1, <2>2, <3>1
    <2> QED
      BY <2>1, <2>2
  <1> QED
    BY <1>2 DEF Forgotten

\* The box x holds, of the first i records of b, the ones without a mark, and
\* counts the others.
SortedUpTo(x, b, i) ==
    /\ SameShell(x, b)
    /\ Distinct(x.records)
    /\ \A k \in DOMAIN x.records :
        \E j \in 1..i : x.records[k] = b.records[j] /\ ~b.records[j].observed
    /\ \A j \in 1..i : b.records[j].observed
                       => LossOf(x.losses, b.records[j].batch.ctx).expired # 0
    /\ \A j \in 1..i : ~b.records[j].observed => b.records[j].batch \in BatchesOf(x.records)
    /\ \A c : c \notin b.expired_losses /\ LossOf(b.losses, c).expired # 0
                => LossOf(x.losses, c).expired # 0

LEMMA ClearedSorted ==
  ASSUME NEW b \in Boxes
  PROVE  SortedUpTo(Cleared(b), b, 0)
  <1>1. PICK x : x = Cleared(b)
    OBVIOUS
  <1>2. PICK l : l = [c \in DOMAIN b.losses \ b.expired_losses |-> b.losses[c]]
    OBVIOUS
  <1>2z. b.losses \in LossTables
    BY BoxParts
  <1>2a. l \in LossTables
    BY <1>2, <1>2z, TablePart, Zenon
  <1>2b. \A c : LossOf(l, c) = IF c \in b.expired_losses THEN EmptyLoss ELSE LossOf(b.losses, c)
    BY <1>2, <1>2z, TablePart
  <1>3. PICK o : o = Forgotten(b.owed, b.losses, b.expired_losses)
    OBVIOUS
  <1>3a. o \in [Contexts -> Int]
    BY <1>3, BoxParts, ForgottenType
  <1>4. <<>> \in Seq(Records)
    BY EmptySeq
  <1>5. x = [b EXCEPT !.records = <<>>, !.losses = l, !.owed = o]
    BY <1>1, <1>2, <1>3 DEF Cleared
  <1>6. SameShell(x, b) /\ x.records = <<>> /\ x.losses = l
    BY <1>2a, <1>3a, <1>4, <1>5 DEF Boxes, SameShell
  <1>7. DOMAIN x.records = {}
    BY <1>6
  <1>8. Distinct(x.records)
    BY <1>7 DEF Distinct
  <1>9. ~ \E j \in 1..0 : TRUE
    OBVIOUS
  <1> QED
    BY <1>1, <1>2b, <1>6, <1>7, <1>8, <1>9, Zenon DEF SortedUpTo

LEMMA SortedStep ==
  ASSUME NEW b \in Boxes, Distinct(b.records), NEW t \in Nat, NEW x,
         NEW i \in Nat, NEW m \in Nat, m = i + 1, m <= Len(b.records), SortedUpTo(x, b, i)
  PROVE  SortedUpTo(Sorted(x, b.records[m], t), b, m)
  <1>1. PICK rec : rec = b.records[m]
    OBVIOUS
  <1>2. DOMAIN b.records = 1..Len(b.records) /\ m \in 1..Len(b.records)
    BY BoxParts, SeqIsFun
  <1>3. rec \in Records /\ rec.observed \in BOOLEAN
    <2>1. b.records \in Seq(Records)
      BY BoxParts
    <2>2. rec \in Records
      BY <1>1, <1>2, <2>1
    <2> QED
      BY <2>2 DEF Records
  <1>4. rec.batch.ctx \in Contexts
    <2>1. rec.batch \in Batches
      BY <1>3 DEF Records
    <2> QED
      BY <2>1 DEF Batches
  <1>5. PICK y : y = Sorted(x, rec, t)
    OBVIOUS
  <1>6. x \in Boxes /\ x.records \in Seq(Records) /\ x.losses \in LossTables
    BY BoxParts DEF SortedUpTo, SameShell
  <1>7. \A j : j \in 1..m <=> j \in 1..i \/ j = m
    OBVIOUS
  <1>8. CASE rec.observed
    <2>1. PICK z : z = Counted(LossOf(x.losses, rec.batch.ctx), "expired", t)
      OBVIOUS
    <2>2. z \in Losses /\ z.expired # 0
      <3>1. PICK u \in Losses : u = LossOf(x.losses, rec.batch.ctx)
        BY <1>6, TableParts
      <3> QED
        BY <2>1, <3>1, CountedOK
    <2>3. PICK l : l = SetLoss(x.losses, rec.batch.ctx, z)
      OBVIOUS
    <2>4. l \in LossTables
      BY <1>4, <1>6, <2>2, <2>3, TableSet
    <2>5. \A k : LossOf(l, k) = IF k = rec.batch.ctx THEN z ELSE LossOf(x.losses, k)
      BY <1>4, <1>6, <2>2, <2>3, TableSet
    <2>6. y = [x EXCEPT !.losses = l]
      BY <1>5, <1>8, <2>1, <2>3 DEF Sorted
    <2>7. SameShell(y, x) /\ y.records = x.records /\ y.losses = l
      BY <1>6, <2>4, <2>6, ShellLosses
    <2>8. \A c : LossOf(x.losses, c).expired # 0 => LossOf(y.losses, c).expired # 0
      BY <2>2, <2>5, <2>7
    <2>9. SameShell(y, b)
      BY <2>7 DEF SameShell, SortedUpTo
    <2>10. LossOf(y.losses, rec.batch.ctx).expired # 0
      BY <2>2, <2>5, <2>7
    <2>11. SortedUpTo(y, b, m)
      BY <1>1, <1>7, <1>8, <2>7, <2>8, <2>9, <2>10 DEF SortedUpTo
    <2> QED
      BY <1>1, <1>5, <2>11
  <1>9. CASE ~rec.observed
    <2>1. PICK q : q = Append(x.records, rec)
      OBVIOUS
    <2>2. PICK n \in Nat : n = Len(x.records)
      BY <1>6
    <2>3. /\ q \in Seq(Records) /\ q[n + 1] = rec /\ DOMAIN q = 1..(n + 1)
          /\ DOMAIN x.records = 1..n
          /\ \A k \in 1..n : q[k] = x.records[k]
      BY <1>3, <1>6, <2>1, <2>2
    <2>4. y = [x EXCEPT !.records = q]
      BY <1>5, <1>9, <2>1 DEF Sorted
    <2>5. SameShell(y, x) /\ y.records = q /\ y.losses = x.losses
      BY <1>6, <2>3, <2>4, ShellRecords
    <2>6. SameShell(y, b)
      BY <2>5 DEF SameShell, SortedUpTo
    <2>7. \A k : k \in 1..(n + 1) <=> k \in 1..n \/ k = n + 1
      BY <2>2
    <2>8. \A k \in DOMAIN q : \E j \in 1..m : q[k] = b.records[j] /\ ~b.records[j].observed
      <3>1. ASSUME NEW k \in 1..n
            PROVE  \E j \in 1..i : q[k] = b.records[j] /\ ~b.records[j].observed
        <4>1. PICK j \in 1..i : x.records[k] = b.records[j] /\ ~b.records[j].observed
          BY <2>3, Zenon DEF SortedUpTo
        <4> QED
          BY <2>3, <4>1
      <3>2. m \in 1..m
        OBVIOUS
      <3>3. ASSUME NEW k \in DOMAIN q
            PROVE  \E j \in 1..m : q[k] = b.records[j] /\ ~b.records[j].observed
        <4>1. CASE k = n + 1
          BY <1>1, <1>9, <2>3, <3>2, <4>1
        <4>2. CASE k \in 1..n
          BY <1>7, <3>1, <4>2
        <4> QED
          BY <2>3, <2>7, <4>1, <4>2
      <3> QED
        BY <3>3
    <2>9. Distinct(q)
      <3>1. ASSUME NEW k \in 1..n
            PROVE  ~SameIdentity(q[k].batch, rec.batch) /\ ~SameIdentity(rec.batch, q[k].batch)
        <4>1. PICK j \in 1..i : x.records[k] = b.records[j]
          BY <2>3 DEF SortedUpTo
        <4>2. j \in 1..Len(b.records) /\ j # m
          OBVIOUS
        <4> QED
          BY <1>1, <1>2, <2>3, <4>1, <4>2 DEF Distinct
      <3>2. \A k, l \in 1..n : SameIdentity(q[k].batch, q[l].batch) => k = l
        BY <2>3 DEF SortedUpTo, Distinct
      <3> QED
        BY <2>3, <2>7, <3>1, <3>2, Zenon DEF Distinct
    <2>10. BatchesOf(x.records) \subseteq BatchesOf(q) /\ rec.batch \in BatchesOf(q)
      BY <2>3, <2>7 DEF BatchesOf
    <2>11. \A j \in 1..m : ~b.records[j].observed => b.records[j].batch \in BatchesOf(q)
      <3>1. \A j \in 1..i : ~b.records[j].observed => b.records[j].batch \in BatchesOf(q)
        BY <2>10 DEF SortedUpTo
      <3> QED
        BY <1>1, <1>7, <2>10, <3>1
    <2>12. SortedUpTo(y, b, m)
      BY <1>1, <1>7, <1>9, <2>5, <2>6, <2>8, <2>9, <2>11 DEF SortedUpTo
    <2> QED
      BY <1>1, <1>5, <2>12
  <1> QED
    BY <1>3, <1>8, <1>9

\* Pruning keeps the records without a mark and counts the others.
LEMMA PrunedOK ==
  ASSUME NEW b \in Boxes, Distinct(b.records), NEW t \in Nat
  PROVE  SortedUpTo(Pruned(b, t), b, Len(b.records))
  <1>1. PICK n \in Nat : n = Len(b.records)
    BY BoxParts
  <1>2. PICK f : /\ Pruned(b, t) = f[n]
                 /\ f[0] = Cleared(b)
                 /\ \A i \in 1..n : f[i] = Sorted(f[i - 1], b.records[i], t)
    BY <1>1, PrunedSteps
  <1> DEFINE S == {k \in Nat : k <= n => SortedUpTo(f[k], b, k)}
  <1>3. 0 \in S
    BY <1>2, ClearedSorted
  <1>4. ASSUME NEW i \in S PROVE i + 1 \in S
    <2>1. PICK m \in Nat : m = i + 1 /\ i \in Nat
      OBVIOUS
    <2>2. ASSUME m <= n PROVE SortedUpTo(f[m], b, m)
      <3>1. m \in 1..n /\ m - 1 = i /\ i <= n
        BY <2>1, <2>2
      <3>2. f[m] = Sorted(f[i], b.records[m], t)
        BY <1>2, <3>1
      <3>3. SortedUpTo(f[i], b, i)
        BY <3>1
      <3>4. m <= Len(b.records)
        BY <1>1, <2>2
      <3>5. SortedUpTo(Sorted(f[i], b.records[m], t), b, m)
        <4> HIDE DEF S
        <4> QED
          BY <2>1, <3>3, <3>4, SortedStep
      <3> QED
        BY <3>2, <3>5
    <2> QED
      BY <2>1, <2>2
  <1>5. S = Nat
    <2>1. S \in SUBSET Nat
      OBVIOUS
    <2> HIDE DEF S
    <2> QED
      BY <1>3, <1>4, <2>1, SetInduction
  <1>6. n \in S
    BY <1>5
  <1>7. SortedUpTo(f[n], b, n)
    BY <1>6
  <1> QED
    BY <1>1, <1>2, <1>7

-----------------------------------------------------------------------------
(* Which disk may follow. *)

LEMMA DiskParts ==
  ASSUME NEW d \in Disks
  PROVE  /\ d.file \in Files \cup {None} /\ d.expiry \in Nat /\ d.revoked \in BOOLEAN
         /\ d.state \in States \cup {None} /\ d.blocked \in BOOLEAN
  BY DEF Disks

LEMMA FileParts ==
  ASSUME NEW f \in Files
  PROVE  /\ f.records \in Seq(Records) /\ f.losses \in LossTables
         /\ f.owed \in [Contexts -> Int] /\ f.written \in Nat /\ f # None
  <1>1. f # None
    BY NoneAssumption
  <1> QED
    BY <1>1 DEF Files

LEMMA StateParts ==
  ASSUME NEW x \in States
  PROVE  /\ x.ctx \in Contexts \cup {None} /\ x.life \in LifecycleStates
         /\ x.archive \in SUBSET Contexts /\ x.prod \in Nat /\ x.seq \in Nat
         /\ x.pending \in Batches \cup {None} /\ x.started \in Nat /\ x # None
  <1>1. x # None
    BY NoStateAssumption
  <1> QED
    BY <1>1 DEF States

LEMMA RunParts ==
  ASSUME NEW r \in Runs
  PROVE  /\ r.box \in Boxes /\ r.co \in Coordinators /\ r.disk \in Disks /\ r.ops \in Nat
         /\ r.outage \in Faults /\ r.seen \in Seq(Disks) /\ r.now \in Nat \ {0}
         /\ r.ok \in BOOLEAN
  BY DEF Runs

\* What is known at the disk of a run in order.
ReadyAt(r, p) ==
    /\ r.disk \in Disks
    /\ FilesOK(r.disk, p, Known(r))
    /\ ExpiryOK(r.disk, Expired(r))
    /\ Expired(r) \subseteq Known(r) /\ Known(r) \subseteq Batches /\ None \notin Expired(r)

LEMMA ReadyFacts ==
  ASSUME NEW r, NEW p, Ready(r, p)
  PROVE  ReadyAt(r, p)
  <1>1. r \in Runs /\ SeenOK(r, p)
    BY DEF Ready
  <1>2. r.seen \in Seq(Disks) /\ r.disk \in Disks
    BY <1>1, RunParts
  <1>3. PICK n \in Nat : n = Len(r.seen) /\ n \in 1..Len(r.seen) /\ r.seen[n] = r.disk
    <2>1. Len(r.seen) \in Nat
      BY <1>2
    <2> QED
      BY <1>1, <2>1 DEF SeenOK
  <1>4. FilesOK(r.disk, p, Known(r)) /\ ExpiryOK(r.disk, Expired(r))
    BY <1>1, <1>3 DEF SeenOK, Known, Expired
  <1>5. Expired(r) \subseteq Known(r)
    <2>1. \A d : BarredOnDisk(d) \subseteq FileBatches(d)
      BY DEF BarredOnDisk, FileBatches, BatchesOf
    <2>2. BarredAt(r.seen, n) \subseteq KnownAt(r.seen, n)
      BY <2>1 DEF BarredAt, KnownAt
    <2> QED
      BY <1>3, <2>2 DEF Expired, Known, ExpiredAtStep
  <1>6. Known(r) \subseteq Batches
    BY <1>4 DEF FilesOK, KnownOK
  <1>7. None \notin Expired(r)
    BY <1>5, <1>6, NoneAssumption
  <1> QED
    BY <1>2, <1>4, <1>5, <1>6, <1>7 DEF ReadyAt

\* A file shows the expiry of what it bars.
LEMMA ShowsAfter ==
  ASSUME NEW d \in Disks, NEW es, d.file # None, Distinct(d.file.records),
         Shows(d.file.records, d.expiry, es)
  PROVE  Shows(d.file.records, d.expiry, es \cup BarredOnDisk(d))
  <1> SUFFICES ASSUME NEW i \in DOMAIN d.file.records,
                      d.file.records[i].batch \in BarredOnDisk(d)
               PROVE  d.expiry # 0 /\ ExpiredAt(Stamp(d.file.records[i]), d.expiry)
    BY DEF Shows
  <1>1. PICK k \in DOMAIN d.file.records :
            /\ ExpiredAt(Stamp(d.file.records[k]), d.expiry)
            /\ d.file.records[i].batch = d.file.records[k].batch
            /\ d.expiry # 0
    BY DEF BarredOnDisk
  <1>2. i = k
    BY <1>1 DEF Distinct, SameIdentity
  <1> QED
    BY <1>1, <1>2

\* What the next disk has to show and to remember.
LEMMA ExpiryStep ==
  ASSUME NEW r, NEW p, Ready(r, p), NEW d \in Disks,
         d.file # None => Distinct(d.file.records) /\ Shows(d.file.records, d.expiry, Expired(r)),
         Remembers(d, Expired(r) \ Lost(r.disk, d))
  PROVE  ExpiryOK(d, After(r, d))
  <1>1. d.file # None => Shows(d.file.records, d.expiry, After(r, d))
    <2>1. d.file # None => Shows(d.file.records, d.expiry, Expired(r) \cup BarredOnDisk(d))
      BY ShowsAfter
    <2> QED
      BY <2>1 DEF Shows, After
  <1>2. Remembers(d, After(r, d))
    <2>1. CASE d.state.pending \in BarredOnDisk(d)
      BY <2>1 DEF BarredOnDisk, FileBatches, BatchesOf, Remembers
    <2>2. CASE d.state.pending \notin BarredOnDisk(d)
      BY <2>2 DEF Remembers, After
    <2> QED
      BY <2>1, <2>2
  <1> QED
    BY <1>1, <1>2 DEF ExpiryOK

LEMMA SameFollows ==
  ASSUME NEW r, NEW p, Ready(r, p)
  PROVE  Follows(r, r.disk, p)
  <1>1. ReadyAt(r, p)
    BY ReadyFacts
  <1>2. Known(r) \cup FileBatches(r.disk) = Known(r)
    BY <1>1 DEF ReadyAt, FilesOK
  <1>3. r.disk.file # None => /\ Distinct(r.disk.file.records)
                              /\ Shows(r.disk.file.records, r.disk.expiry, Expired(r))
    BY <1>1 DEF ReadyAt, FilesOK, ExpiryOK
  <1>4. Remembers(r.disk, Expired(r) \ Lost(r.disk, r.disk))
    BY <1>1 DEF ReadyAt, ExpiryOK, Remembers
  <1>5. ExpiryOK(r.disk, After(r, r.disk))
    BY <1>1, <1>3, <1>4, ExpiryStep DEF ReadyAt
  <1> QED
    BY <1>1, <1>2, <1>5 DEF Follows, ReadyAt

\* The payload file is replaced by one with no new batch.
LEMMA RewriteFollows ==
  ASSUME NEW r, NEW p, Ready(r, p), NEW f \in Files, NEW d, d = [r.disk EXCEPT !.file = f],
         BatchesOf(f.records) \subseteq FileBatches(r.disk), Distinct(f.records),
         Shows(f.records, r.disk.expiry, Expired(r)),
         \/ r.disk.blocked \/ r.disk.state = None
         \/ r.disk.state.pending \notin FileBatches(r.disk) \ BatchesOf(f.records)
         \/ LossOf(f.losses, r.disk.state.pending.ctx).expired # 0
  PROVE  Follows(r, d, p)
  <1>1. ReadyAt(r, p)
    BY ReadyFacts
  <1>2. /\ d \in Disks /\ d.file = f /\ d.file # None /\ d.expiry = r.disk.expiry
        /\ d.revoked = r.disk.revoked /\ d.state = r.disk.state /\ d.blocked = r.disk.blocked
    <2>1. f # None
      BY FileParts
    <2> QED
      BY <1>1, <2>1 DEF ReadyAt, Disks
  <1>3. FileBatches(d) = BatchesOf(f.records)
    BY <1>2 DEF FileBatches
  <1>4. Known(r) \cup FileBatches(d) = Known(r)
    BY <1>1, <1>3 DEF ReadyAt, FilesOK
  <1>5. FilesOK(d, p, Known(r))
    <2>1. FilesOK(r.disk, p, Known(r))
      BY <1>1 DEF ReadyAt
    <2> QED
      BY <1>2, <1>3, <2>1 DEF FilesOK
  <1>6. Remembers(d, Expired(r) \ Lost(r.disk, d))
    <2> SUFFICES ASSUME ~d.blocked, d.state # None, d.state.pending \in Expired(r),
                        d.state.pending \notin Lost(r.disk, d),
                        d.state.pending \notin FileBatches(d)
                 PROVE  LossOf(d.file.losses, d.state.pending.ctx).expired # 0
      BY <1>2 DEF Remembers
    <2>1. /\ r.disk.file # None
          /\ \/ r.disk.state.pending \in FileBatches(r.disk)
             \/ LossOf(r.disk.file.losses, r.disk.state.pending.ctx).expired # 0
      BY <1>1, <1>2 DEF ReadyAt, ExpiryOK, Remembers
    <2>2. CASE r.disk.state.pending \in FileBatches(r.disk)
      BY <1>2, <1>3, <2>2
    <2>3. CASE LossOf(r.disk.file.losses, r.disk.state.pending.ctx).expired # 0
      <3>1. r.disk.state.pending # None
        BY <1>1, <1>2 DEF ReadyAt
      <3>2. ~Drops(r.disk, d)
        BY <1>2 DEF Lost
      <3> QED
        BY <1>2, <2>1, <2>3, <3>1, <3>2 DEF Drops
    <2> QED
      BY <2>1, <2>2, <2>3
  <1>7. ExpiryOK(d, After(r, d))
    BY <1>2, <1>6, ExpiryStep
  <1> QED
    BY <1>2, <1>4, <1>5, <1>7 DEF Follows

\* The payload file is deleted.
LEMMA DeleteFollows ==
  ASSUME NEW r, NEW p, Ready(r, p), NEW d, d = [r.disk EXCEPT !.file = None]
  PROVE  Follows(r, d, p)
  <1>1. ReadyAt(r, p)
    BY ReadyFacts
  <1>2. /\ d \in Disks /\ d.file = None /\ d.expiry = r.disk.expiry
        /\ d.revoked = r.disk.revoked /\ d.state = r.disk.state /\ d.blocked = r.disk.blocked
    BY <1>1 DEF ReadyAt, Disks
  <1>3. FileBatches(d) = {}
    BY <1>2 DEF FileBatches
  <1>4. Known(r) \cup FileBatches(d) = Known(r)
    BY <1>3
  <1>5. FilesOK(d, p, Known(r))
    <2>1. FilesOK(r.disk, p, Known(r))
      BY <1>1 DEF ReadyAt
    <2> QED
      BY <1>2, <1>3, <2>1 DEF FilesOK
  <1>6. Remembers(d, Expired(r) \ Lost(r.disk, d))
    <2> SUFFICES ASSUME ~d.blocked, d.state # None, d.state.pending \in Expired(r)
                 PROVE  d.state.pending \in Lost(r.disk, d)
      BY DEF Remembers
    <2>1. r.disk.file # None /\ r.disk.state.pending # None
      BY <1>1, <1>2 DEF ReadyAt, ExpiryOK, Remembers
    <2> QED
      BY <1>2, <2>1 DEF Lost, Drops
  <1>7. ExpiryOK(d, After(r, d))
    BY <1>2, <1>6, ExpiryStep
  <1> QED
    BY <1>2, <1>4, <1>5, <1>7 DEF Follows

\* The barrier is raised.
LEMMA BarrierFollows ==
  ASSUME NEW r, NEW p, Ready(r, p), NEW t \in Nat, r.disk.expiry <= t, NEW d,
         d = [r.disk EXCEPT !.expiry = t]
  PROVE  Follows(r, d, p)
  <1>1. ReadyAt(r, p)
    BY ReadyFacts
  <1>2. /\ d \in Disks /\ d.file = r.disk.file /\ d.expiry = t
        /\ d.revoked = r.disk.revoked /\ d.state = r.disk.state /\ d.blocked = r.disk.blocked
    BY <1>1 DEF ReadyAt, Disks
  <1>3. FileBatches(d) = FileBatches(r.disk)
    BY <1>2 DEF FileBatches
  <1>4. Known(r) \cup FileBatches(d) = Known(r)
    BY <1>1, <1>3 DEF ReadyAt, FilesOK
  <1>5. FilesOK(d, p, Known(r))
    <2>1. FilesOK(r.disk, p, Known(r))
      BY <1>1 DEF ReadyAt
    <2> QED
      BY <1>2, <1>3, <2>1 DEF FilesOK
  <1>6. Remembers(d, Expired(r) \ Lost(r.disk, d))
    BY <1>1, <1>2, <1>3 DEF ReadyAt, ExpiryOK, Remembers
  <1>7. d.file # None => Distinct(d.file.records) /\ Shows(d.file.records, d.expiry, Expired(r))
    <2> SUFFICES ASSUME d.file # None PROVE Shows(d.file.records, d.expiry, Expired(r))
      BY <1>5 DEF FilesOK
    <2> SUFFICES ASSUME NEW i \in DOMAIN d.file.records,
                        d.file.records[i].batch \in Expired(r)
                 PROVE  t # 0 /\ ExpiredAt(Stamp(d.file.records[i]), t)
      BY <1>2 DEF Shows
    <2>1. r.disk.expiry # 0 /\ ExpiredAt(Stamp(d.file.records[i]), r.disk.expiry)
      BY <1>1, <1>2 DEF ReadyAt, ExpiryOK, Shows
    <2>2. d.file.records[i] \in Records
      <3>1. d.file.records \in Seq(Records)
        BY <1>2, DiskParts, FileParts
      <3> QED
        BY <3>1
    <2>3. Stamp(d.file.records[i]) \in Nat \ {0}
      BY <2>2, StampTime
    <2>4. r.disk.expiry \in Nat
      BY <1>1, DiskParts DEF ReadyAt
    <2>5. PICK a \in Nat \ {0}, e \in Nat : a = Stamp(d.file.records[i]) /\ e = r.disk.expiry
      BY <2>3, <2>4
    <2>6. ExpiredAt(a, t) /\ t # 0
      BY <2>1, <2>5, ExpiredStays
    <2> QED
      BY <2>5, <2>6
  <1>8. ExpiryOK(d, After(r, d))
    BY <1>2, <1>6, <1>7, ExpiryStep
  <1> QED
    BY <1>2, <1>4, <1>5, <1>8 DEF Follows

\* The barrier is cleared when it no longer hides a record.
LEMMA ClearFollows ==
  ASSUME NEW r, NEW p, Ready(r, p), FileBatches(r.disk) \cap Expired(r) = {}, NEW d,
         d = [r.disk EXCEPT !.expiry = 0]
  PROVE  Follows(r, d, p)
  <1>1. ReadyAt(r, p)
    BY ReadyFacts
  <1>2. /\ d \in Disks /\ d.file = r.disk.file /\ d.expiry = 0
        /\ d.revoked = r.disk.revoked /\ d.state = r.disk.state /\ d.blocked = r.disk.blocked
    BY <1>1 DEF ReadyAt, Disks
  <1>3. FileBatches(d) = FileBatches(r.disk)
    BY <1>2 DEF FileBatches
  <1>4. Known(r) \cup FileBatches(d) = Known(r)
    BY <1>1, <1>3 DEF ReadyAt, FilesOK
  <1>5. FilesOK(d, p, Known(r))
    <2>1. FilesOK(r.disk, p, Known(r))
      BY <1>1 DEF ReadyAt
    <2> QED
      BY <1>2, <1>3, <2>1 DEF FilesOK
  <1>6. Remembers(d, Expired(r) \ Lost(r.disk, d))
    BY <1>1, <1>2, <1>3 DEF ReadyAt, ExpiryOK, Remembers
  <1>7. d.file # None => Distinct(d.file.records) /\ Shows(d.file.records, d.expiry, Expired(r))
    BY <1>2, <1>3, <1>5 DEF FilesOK, FileBatches, BatchesOf, Shows
  <1>8. ExpiryOK(d, After(r, d))
    BY <1>2, <1>6, <1>7, ExpiryStep
  <1> QED
    BY <1>2, <1>4, <1>5, <1>8 DEF Follows

\* The ".revoked" marker is written, or removed once the payload is deleted.
LEMMA MarkFollows ==
  ASSUME NEW r, NEW p, Ready(r, p), NEW e \in BOOLEAN, e \/ r.disk.file = None, NEW d,
         d = [r.disk EXCEPT !.revoked = e]
  PROVE  Follows(r, d, p)
  <1>1. ReadyAt(r, p)
    BY ReadyFacts
  <1>2. /\ d \in Disks /\ d.file = r.disk.file /\ d.expiry = r.disk.expiry
        /\ d.revoked = e /\ d.state = r.disk.state /\ d.blocked = r.disk.blocked
    BY <1>1 DEF ReadyAt, Disks
  <1>3. FileBatches(d) = FileBatches(r.disk) /\ (e \/ FileBatches(d) = {})
    BY <1>2 DEF FileBatches
  <1>4. Known(r) \cup FileBatches(d) = Known(r)
    BY <1>1, <1>3 DEF ReadyAt, FilesOK
  <1>5. FilesOK(d, p, Known(r))
    <2>1. FilesOK(r.disk, p, Known(r))
      BY <1>1 DEF ReadyAt
    <2> QED
      BY <1>2, <1>3, <2>1 DEF FilesOK
  <1>6. Remembers(d, Expired(r) \ Lost(r.disk, d))
    BY <1>1, <1>2, <1>3 DEF ReadyAt, ExpiryOK, Remembers
  <1>7. d.file # None => Distinct(d.file.records) /\ Shows(d.file.records, d.expiry, Expired(r))
    BY <1>1, <1>2 DEF ReadyAt, FilesOK, ExpiryOK
  <1>8. ExpiryOK(d, After(r, d))
    BY <1>2, <1>6, <1>7, ExpiryStep
  <1> QED
    BY <1>2, <1>4, <1>5, <1>8 DEF Follows

\* The state file is replaced.
LEMMA StateFollows ==
  ASSUME NEW r, NEW p, Ready(r, p), NEW x \in States, NEW d, d = [r.disk EXCEPT !.state = x],
         StateFits(x, p, Known(r)), witnessed \subseteq RevokedBy(x),
         x.life # "revoked" => \A b \in FileBatches(r.disk) : Fits(x, b),
         x.pending \notin Expired(r)
  PROVE  Follows(r, d, p)
  <1>1. ReadyAt(r, p)
    BY ReadyFacts
  <1>2. /\ d \in Disks /\ d.file = r.disk.file /\ d.expiry = r.disk.expiry
        /\ d.revoked = r.disk.revoked /\ d.state = x /\ d.state # None
        /\ d.blocked = r.disk.blocked
    BY <1>1, StateParts DEF ReadyAt, Disks
  <1>3. FileBatches(d) = FileBatches(r.disk)
    BY <1>2 DEF FileBatches
  <1>4. Known(r) \cup FileBatches(d) = Known(r)
    BY <1>1, <1>3 DEF ReadyAt, FilesOK
  <1>5. FilesOK(d, p, Known(r))
    <2>1. FilesOK(r.disk, p, Known(r))
      BY <1>1 DEF ReadyAt
    <2> QED
      BY <1>2, <1>3, <2>1 DEF FilesOK
  <1>6. Remembers(d, Expired(r) \ Lost(r.disk, d))
    BY <1>2 DEF Remembers
  <1>7. d.file # None => Distinct(d.file.records) /\ Shows(d.file.records, d.expiry, Expired(r))
    BY <1>1, <1>2 DEF ReadyAt, FilesOK, ExpiryOK
  <1>8. ExpiryOK(d, After(r, d))
    BY <1>2, <1>6, <1>7, ExpiryStep
  <1> QED
    BY <1>2, <1>4, <1>5, <1>8 DEF Follows

\* The ".blocked" marker is written, or removed once the state is durable.
LEMMA BlockFollows ==
  ASSUME NEW r, NEW p, Ready(r, p), NEW e \in BOOLEAN, NEW d,
         d = [r.disk EXCEPT !.blocked = e],
         \/ e
         \/ /\ r.disk.state # None /\ witnessed \subseteq RevokedBy(r.disk.state)
            /\ r.disk.state.life = "revoked"
  PROVE  Follows(r, d, p)
  <1>1. ReadyAt(r, p)
    BY ReadyFacts
  <1>2. /\ d \in Disks /\ d.file = r.disk.file /\ d.expiry = r.disk.expiry
        /\ d.revoked = r.disk.revoked /\ d.state = r.disk.state /\ d.blocked = e
    BY <1>1 DEF ReadyAt, Disks
  <1>3. FileBatches(d) = FileBatches(r.disk)
    BY <1>2 DEF FileBatches
  <1>4. Known(r) \cup FileBatches(d) = Known(r)
    BY <1>1, <1>3 DEF ReadyAt, FilesOK
  <1>5. FilesOK(d, p, Known(r))
    <2>1. FilesOK(r.disk, p, Known(r))
      BY <1>1 DEF ReadyAt
    <2> QED
      BY <1>2, <1>3, <2>1 DEF FilesOK
  <1>6. Remembers(d, Expired(r) \ Lost(r.disk, d))
    <2>1. CASE e
      BY <1>2, <2>1 DEF Remembers
    <2>2. CASE ~e
      <3>1. StateFits(r.disk.state, p, Known(r)) /\ r.disk.state.life = "revoked"
        BY <1>1, <2>2 DEF ReadyAt, FilesOK
      <3>2. r.disk.state.pending = None
        BY <3>1 DEF StateFits, Shaped
      <3> QED
        BY <1>1, <1>2, <3>2 DEF Remembers, ReadyAt
    <2> QED
      BY <2>1, <2>2
  <1>7. d.file # None => Distinct(d.file.records) /\ Shows(d.file.records, d.expiry, Expired(r))
    BY <1>1, <1>2 DEF ReadyAt, FilesOK, ExpiryOK
  <1>8. ExpiryOK(d, After(r, d))
    BY <1>2, <1>6, <1>7, ExpiryStep
  <1> QED
    BY <1>2, <1>4, <1>5, <1>8 DEF Follows

\* The state of a blocked service is deleted.
LEMMA ScrubFollows ==
  ASSUME NEW r, NEW p, Ready(r, p), r.disk.blocked, NEW d, d = [r.disk EXCEPT !.state = None]
  PROVE  Follows(r, d, p)
  <1>1. ReadyAt(r, p)
    BY ReadyFacts
  <1>2. /\ d \in Disks /\ d.file = r.disk.file /\ d.expiry = r.disk.expiry
        /\ d.revoked = r.disk.revoked /\ d.state = None /\ d.blocked = r.disk.blocked
    BY <1>1 DEF ReadyAt, Disks
  <1>3. FileBatches(d) = FileBatches(r.disk)
    BY <1>2 DEF FileBatches
  <1>4. Known(r) \cup FileBatches(d) = Known(r)
    BY <1>1, <1>3 DEF ReadyAt, FilesOK
  <1>5. FilesOK(d, p, Known(r))
    <2>1. FilesOK(r.disk, p, Known(r))
      BY <1>1 DEF ReadyAt
    <2> QED
      BY <1>2, <1>3, <2>1 DEF FilesOK
  <1>6. Remembers(d, Expired(r) \ Lost(r.disk, d))
    BY <1>2 DEF Remembers
  <1>7. d.file # None => Distinct(d.file.records) /\ Shows(d.file.records, d.expiry, Expired(r))
    BY <1>1, <1>2 DEF ReadyAt, FilesOK, ExpiryOK
  <1>8. ExpiryOK(d, After(r, d))
    BY <1>2, <1>6, <1>7, ExpiryStep
  <1> QED
    BY <1>2, <1>4, <1>5, <1>8 DEF Follows

\* The write-ahead intent of the state file enters the payload file.
LEMMA InsertFollows ==
  ASSUME NEW r, Ready(r, prods), prods \in Nat, NEW f \in Files, NEW d,
         d = [r.disk EXCEPT !.file = f],
         r.disk.file # None, r.disk.state # None,
         NEW b, b = r.disk.state.pending, b # None, b \notin Expired(r),
         BatchesOf(f.records) = FileBatches(r.disk) \cup {b}, Distinct(f.records),
         Shows(f.records, r.disk.expiry, Expired(r))
  PROVE  Follows(r, d, prods)
  <1>1. ReadyAt(r, prods)
    BY ReadyFacts
  <1>2. /\ d \in Disks /\ d.file = f /\ d.file # None /\ d.expiry = r.disk.expiry
        /\ d.revoked = r.disk.revoked /\ d.state = r.disk.state /\ d.blocked = r.disk.blocked
    <2>1. f # None
      BY FileParts
    <2> QED
      BY <1>1, <2>1 DEF ReadyAt, Disks
  <1>3. FileBatches(d) = FileBatches(r.disk) \cup {b}
    BY <1>2 DEF FileBatches
  <1>4. Known(r) \cup FileBatches(d) = Known(r) \cup {b}
    BY <1>1, <1>3 DEF ReadyAt, FilesOK
  <1>5. FilesOK(r.disk, prods, Known(r))
    BY <1>1 DEF ReadyAt
  <1>6. StateFits(d.state, prods, Known(r)) /\ d.state \in States
    BY <1>1, <1>2, <1>5, DiskParts DEF FilesOK
  <1>7. /\ b \in Batches /\ b.prod = d.state.prod /\ b.seq = d.state.seq /\ b.ctx = d.state.ctx
        /\ d.state.life # "revoked" /\ d.state.prod <= prods /\ b.seq \in Nat
        /\ d.state.prod # 0
    <2>1. b \in Batches
      BY <1>2, <1>6, StateParts
    <2>2. b.ctx # None
      BY <2>1, NoneAssumption DEF Batches
    <2> QED
      BY <1>2, <1>6, <2>1, <2>2 DEF StateFits, Shaped, Batches
  <1>8. KnownOK(Known(r) \cup {b})
    <2>1. KnownOK(Known(r))
      BY <1>5 DEF FilesOK
    <2>2. ASSUME NEW a \in Known(r), SameIdentity(a, b) \/ SameIdentity(b, a) PROVE a = b
      <3>1. a.prod = d.state.prod /\ a.seq = b.seq
        BY <1>7, <2>2 DEF SameIdentity
      <3>2. a.seq < d.state.seq \/ a = d.state.pending
        BY <1>6, <1>7, <3>1 DEF StateFits, Before
      <3> QED
        BY <1>2, <1>7, <3>1, <3>2
    <2>3. Unique(Known(r) \cup {b})
      BY <2>1, <2>2 DEF KnownOK, Unique
    <2> QED
      BY <1>7, <2>1, <2>3 DEF KnownOK
  <1>9. StateFits(d.state, prods, Known(r) \cup {b})
    BY <1>2, <1>6 DEF StateFits, Before
  <1>10. FilesOK(d, prods, Known(r) \cup {b})
    <2>1. Fits(d.state, b)
      BY <1>2, <1>7 DEF Fits
    <2> QED
      BY <1>2, <1>3, <1>5, <1>8, <1>9, <2>1 DEF FilesOK
  <1>11. Remembers(d, Expired(r) \ Lost(r.disk, d))
    BY <1>2 DEF Remembers
  <1>12. ExpiryOK(d, After(r, d))
    BY <1>2, <1>11, ExpiryStep
  <1> QED
    BY <1>2, <1>4, <1>10, <1>12 DEF Follows

-----------------------------------------------------------------------------
(* Steps of the outbox. *)

\* The run s is r after steps that leave the coordinator, the state and the
\* ".blocked" marker alone and bring no new batch.
Calm(r, s, p) ==
    /\ Ready(s, p)
    /\ s.co = r.co /\ s.now = r.now /\ s.outage = r.outage
    /\ s.disk.state = r.disk.state /\ s.disk.blocked = r.disk.blocked
    /\ FileBatches(s.disk) \subseteq FileBatches(r.disk)
    /\ Known(s) = Known(r)
    /\ Expired(s) \subseteq Expired(r) \cup FileBatches(r.disk)

LEMMA CalmSelf ==
  ASSUME NEW r, NEW p, Ready(r, p)
  PROVE  Calm(r, r, p)
  BY DEF Calm

LEMMA CalmChain ==
  ASSUME NEW r, NEW s, NEW t, NEW p, Calm(r, s, p), Calm(s, t, p)
  PROVE  Calm(r, t, p)
  BY DEF Calm

\* The runs differ in their memory and their result only.
SameDisks(r, s) ==
    /\ s \in Runs /\ s.disk = r.disk /\ s.seen = r.seen /\ s.ops = r.ops
    /\ s.now = r.now /\ s.outage = r.outage

LEMMA SameReady ==
  ASSUME NEW r, NEW s, NEW p, Ready(r, p), SameDisks(r, s)
  PROVE  /\ Ready(s, p) /\ Known(s) = Known(r) /\ Expired(s) = Expired(r)
         /\ s.co = r.co => Calm(r, s, p)
  BY DEF Ready, SameDisks, SeenOK, Known, Expired, Calm

LEMMA BoxSet ==
  ASSUME NEW r \in Runs, NEW b \in Boxes, NEW s, s = [r EXCEPT !.box = b]
  PROVE  SameDisks(r, s) /\ s.box = b /\ s.co = r.co /\ s.ok = r.ok
  BY DEF Runs, SameDisks

LEMMA CoSet ==
  ASSUME NEW r \in Runs, NEW c \in Coordinators, NEW s, s = [r EXCEPT !.co = c]
  PROVE  SameDisks(r, s) /\ s.box = r.box /\ s.co = c /\ s.ok = r.ok
  BY DEF Runs, SameDisks

LEMMA OkSet ==
  ASSUME NEW r \in Runs, NEW e \in BOOLEAN, NEW s, s = [r EXCEPT !.ok = e]
  PROVE  SameDisks(r, s) /\ s.box = r.box /\ s.co = r.co /\ s.ok = e
  BY DEF Runs, SameDisks

\* A write with no new batch.
LEMMA WroteCalm ==
  ASSUME NEW r, NEW s, NEW d, NEW p, Ready(r, p), Wrote(r, s, d, p),
         d.state = r.disk.state, d.blocked = r.disk.blocked,
         FileBatches(d) \subseteq FileBatches(r.disk)
  PROVE  Calm(r, s, p)
  <1>1. FileBatches(r.disk) \subseteq Known(r)
    BY ReadyFacts DEF ReadyAt, FilesOK
  <1>2. BarredOnDisk(d) \subseteq FileBatches(d)
    BY DEF BarredOnDisk, FileBatches, BatchesOf
  <1>3. CASE s.ok
    BY <1>1, <1>2, <1>3 DEF Wrote, Calm, After
  <1>4. CASE ~s.ok
    BY <1>1, <1>2, <1>4 DEF Wrote, Calm
  <1> QED
    BY <1>3, <1>4

\* A read changes nothing.
LEMMA ReadOK ==
  ASSUME NEW r, NEW s, NEW p, Ready(r, p), s = ReadFile(r)
  PROVE  /\ Calm(r, s, p) /\ s.box = r.box /\ s.disk = r.disk /\ (s.ok => r.ok)
         /\ Expired(s) \subseteq Expired(r) \cup BarredOnDisk(r.disk)
  <1>1. Wrote(r, s, r.disk, p)
    BY SameFollows, StorageOK DEF ReadFile
  <1>2. Calm(r, s, p)
    BY <1>1, WroteCalm
  <1> QED
    BY <1>1, <1>2 DEF Wrote, After

LEMMA FileOfOK ==
  ASSUME NEW b \in Boxes, NEW t \in Nat, NEW f, f = FileOf(b, t)
  PROVE  f \in Files /\ Alike(f.records, b.records) /\ f.losses = b.losses
  <1>1. b.records \in Seq(Records) /\ b.losses \in LossTables /\ b.owed \in [Contexts -> Int]
    BY BoxParts
  <1>2. PICK q : q = [i \in DOMAIN b.records |->
                        [b.records[i] EXCEPT !.in_flight = FALSE, !.observed = FALSE]]
    OBVIOUS
  <1>3. PICK n \in Nat : n = Len(b.records) /\ DOMAIN b.records = 1..n
    BY <1>1
  <1>4. ASSUME NEW i \in 1..n PROVE q[i] \in Records /\ Twin(q[i], b.records[i])
    <2>1. b.records[i] \in Records
      BY <1>1, <1>3
    <2>2. q[i] = [b.records[i] EXCEPT !.in_flight = FALSE, !.observed = FALSE]
      BY <1>2, <1>3
    <2> QED
      BY <2>1, <2>2, RecordStored
  <1>5. q \in [1..n -> Records]
    BY <1>2, <1>3, <1>4
  <1>6. q \in Seq(Records) /\ Len(q) = n
    BY <1>5, FunIsSeq
  <1>7. Alike(q, b.records)
    BY <1>1, <1>3, <1>4, <1>6 DEF Alike
  <1>8. f = [records |-> q, losses |-> b.losses, owed |-> b.owed, written |-> t]
    BY <1>2 DEF FileOf
  <1> QED
    BY <1>1, <1>6, <1>7, <1>8 DEF Files

\* A file just written is mirrored.
LEMMA FreshMirror ==
  ASSUME NEW s, NEW p, Ready(s, p), s.disk.file # None, ~s.disk.revoked,
         Alike(s.disk.file.records, s.box.records), s.disk.file.losses = s.box.losses,
         s.box.barrier = s.disk.expiry, s.box.expired_losses # {} => s.box.retry_pending
  PROVE  Mirror(s)
  <1>1. Distinct(s.disk.file.records)
        /\ Shows(s.disk.file.records, s.disk.expiry, Expired(s))
    BY ReadyFacts DEF ReadyAt, FilesOK, ExpiryOK
  <1>2. /\ BatchesOf(s.disk.file.records) = BatchesOf(s.box.records)
        /\ Distinct(s.box.records)
        /\ Shows(s.box.records, s.disk.expiry, Expired(s))
    BY <1>1, AlikeSame
  <1>3. Older(s.box.records, s.disk.file.records)
    <2> SUFFICES ASSUME NEW i \in DOMAIN s.box.records, NEW j \in DOMAIN s.disk.file.records,
                        s.box.records[i].batch = s.disk.file.records[j].batch
                 PROVE  Stamp(s.box.records[i]) <= Stamp(s.disk.file.records[j])
      BY DEF Older
    <2>1. /\ j \in DOMAIN s.box.records /\ s.box.records[i] \in Records
          /\ s.box.records[j].batch = s.disk.file.records[j].batch
          /\ s.box.records[j].arrived = s.disk.file.records[j].arrived
      BY DEF Alike, Twin
    <2>2. i = j
      BY <1>2, <2>1 DEF Distinct, SameIdentity
    <2>3. Stamp(s.box.records[i]) = Stamp(s.disk.file.records[j])
      BY <2>1, <2>2, Zenon DEF Stamp
    <2>4. Stamp(s.box.records[i]) \in Nat
      BY <2>1, StampTime
    <2> QED
      BY <2>3, <2>4
  <1>4. SameExpired(s.box.losses, s.disk.file.losses)
    BY DEF SameExpired
  <1> QED
    BY <1>2, <1>3, <1>4 DEF Mirror, Mirrors

\* The file of a run just written is the image of its box.
Image(r, s) ==
    /\ s.box = r.box
    /\ s.ok => /\ r.ok /\ s.disk.file # None
               /\ s.disk.expiry = r.disk.expiry /\ s.disk.revoked = r.disk.revoked
               /\ Alike(s.disk.file.records, s.box.records)
               /\ s.disk.file.losses = s.box.losses
               /\ FileBatches(s.disk) = BatchesOf(s.box.records)
    /\ ~s.ok => s.disk = r.disk /\ Expired(s) = Expired(r)

\* The payload file is replaced by the image of a box with no new batch.
LEMMA RewriteOK ==
  ASSUME NEW r, NEW p, Ready(r, p), NEW s, s = PersistBox(r),
         BatchesOf(r.box.records) \subseteq FileBatches(r.disk), Distinct(r.box.records),
         Shows(r.box.records, r.disk.expiry, Expired(r)),
         \/ r.disk.blocked \/ r.disk.state = None
         \/ r.disk.state.pending \notin FileBatches(r.disk) \ BatchesOf(r.box.records)
         \/ LossOf(r.box.losses, r.disk.state.pending.ctx).expired # 0
  PROVE  Calm(r, s, p) /\ Image(r, s)
  <1>1. r \in Runs /\ r.box \in Boxes /\ r.now \in Nat /\ r.disk \in Disks
    BY RunParts DEF Ready
  <1>2. PICK f : f = FileOf(r.box, r.now)
    OBVIOUS
  <1>3. f \in Files /\ Alike(f.records, r.box.records) /\ f.losses = r.box.losses
    BY <1>1, <1>2, FileOfOK
  <1>4. PICK d : d = [r.disk EXCEPT !.file = f]
    OBVIOUS
  <1>5. /\ d.file = f /\ d.expiry = r.disk.expiry /\ d.revoked = r.disk.revoked
        /\ d.state = r.disk.state /\ d.blocked = r.disk.blocked /\ f # None
    BY <1>1, <1>3, <1>4, FileParts DEF Disks
  <1>6. /\ BatchesOf(f.records) = BatchesOf(r.box.records) /\ Distinct(f.records)
        /\ Shows(f.records, r.disk.expiry, Expired(r))
    BY <1>3, AlikeSame
  <1>7. Follows(r, d, p)
    BY <1>3, <1>4, <1>6, RewriteFollows
  <1>8. Wrote(r, s, d, p)
    BY <1>2, <1>4, <1>7, StorageOK DEF PersistBox
  <1>9. FileBatches(d) = BatchesOf(r.box.records)
    BY <1>5, <1>6 DEF FileBatches
  <1>10. Calm(r, s, p)
    BY <1>5, <1>8, <1>9, WroteCalm
  <1>11. Image(r, s)
    BY <1>3, <1>5, <1>8, <1>9 DEF Wrote, Image
  <1> QED
    BY <1>10, <1>11

\* The box is replaced by b, with no new batch, unless the write fails.
Replaced(r, s, b, p) ==
    /\ Calm(r, s, p) /\ Mirror(s)
    /\ s.ok => /\ r.ok /\ s.box = b /\ s.disk.expiry = r.disk.expiry
               /\ FileBatches(s.disk) = BatchesOf(b.records)
    /\ ~s.ok => s.box = r.box

LEMMA ReplaceOK ==
  ASSUME NEW r, NEW p, Ready(r, p), Mirror(r), r.ok, NEW b \in Boxes, NEW s,
         s = PersistOrRestore(r, b), b.barrier = r.box.barrier,
         b.expired_losses # {} => b.retry_pending,
         BatchesOf(b.records) \subseteq BatchesOf(r.box.records), Distinct(b.records),
         Shows(b.records, r.disk.expiry, Expired(r)),
         \/ r.disk.blocked \/ r.disk.state = None
         \/ r.disk.state.pending \notin BatchesOf(r.box.records) \ BatchesOf(b.records)
         \/ LossOf(b.losses, r.disk.state.pending.ctx).expired # 0
  PROVE  Replaced(r, s, b, p)
  <1>1. r \in Runs /\ r.box \in Boxes
    BY RunParts DEF Ready
  <1>2. PICK x : x = [r EXCEPT !.box = b]
    OBVIOUS
  <1>3. SameDisks(r, x) /\ x.box = b /\ x.co = r.co /\ x.ok = r.ok
    BY <1>1, <1>2 DEF Runs, SameDisks
  <1>4. Ready(x, p) /\ Expired(x) = Expired(r) /\ Calm(r, x, p) /\ x.disk = r.disk
    BY <1>3, SameReady DEF SameDisks
  <1>5. FileBatches(x.disk) = BatchesOf(r.box.records)
    BY <1>4 DEF Mirror, Mirrors, FileBatches
  <1>6. PICK y : y = PersistBox(x)
    OBVIOUS
  <1>7. Calm(x, y, p) /\ Image(x, y)
    <2>1. Shows(x.box.records, x.disk.expiry, Expired(x)) /\ Distinct(x.box.records)
      BY <1>3, <1>4
    <2>2. \/ x.disk.blocked \/ x.disk.state = None
          \/ x.disk.state.pending \notin FileBatches(x.disk) \ BatchesOf(x.box.records)
          \/ LossOf(x.box.losses, x.disk.state.pending.ctx).expired # 0
      BY <1>3, <1>4, <1>5
    <2>3. BatchesOf(x.box.records) \subseteq FileBatches(x.disk)
      BY <1>3, <1>5
    <2> QED
      BY <1>4, <1>6, <2>1, <2>2, <2>3, RewriteOK
  <1>8. Calm(r, y, p)
    BY <1>4, <1>7, CalmChain
  <1>9. s = IF y.ok THEN y ELSE [y EXCEPT !.box = r.box]
    BY <1>2, <1>6 DEF PersistOrRestore, RestoreUnless
  <1>10. CASE y.ok
    <2>1. ~y.disk.revoked /\ y.box = b /\ y.disk.expiry = r.disk.expiry
      BY <1>3, <1>4, <1>7, <1>10 DEF Image, Mirror, Mirrors
    <2>2. b.barrier = y.disk.expiry
      BY <2>1 DEF Mirror, Mirrors
    <2>3. Mirror(y)
      BY <1>7, <1>10, <2>1, <2>2, FreshMirror DEF Image, Calm
    <2> QED
      BY <1>3, <1>7, <1>8, <1>9, <1>10, <2>1, <2>3 DEF Replaced, Image
  <1>11. CASE ~y.ok
    <2>1. s = [y EXCEPT !.box = r.box] /\ y \in Runs
      BY <1>7, <1>9, <1>11 DEF Calm, Ready
    <2>2. SameDisks(y, s) /\ s.box = r.box /\ s.co = y.co /\ s.ok = y.ok
      BY <1>1, <2>1, BoxSet
    <2>3. Calm(y, s, p) /\ Expired(s) = Expired(y) /\ s.disk = y.disk
      BY <1>7, <2>2, SameReady DEF Calm, SameDisks
    <2>4. Calm(r, s, p)
      BY <1>8, <2>3, CalmChain
    <2>5. Mirror(s)
      BY <1>4, <1>7, <1>11, <2>2, <2>3 DEF Mirror, Image
    <2> QED
      BY <1>11, <2>2, <2>4, <2>5 DEF Replaced
  <1> QED
    BY <1>10, <1>11

-----------------------------------------------------------------------------
(* The expiry barrier. *)

\* The boxes differ in their barrier only.
SameContent(x, b) ==
    /\ x \in Boxes /\ x.is_open = b.is_open /\ x.records = b.records
    /\ x.losses = b.losses /\ x.retry_pending = b.retry_pending
    /\ x.expired_losses = b.expired_losses

LEMMA BarrierSet ==
  ASSUME NEW r \in Runs, NEW t \in Nat, NEW s, s = [r EXCEPT !.box.barrier = t]
  PROVE  /\ SameDisks(r, s) /\ s.co = r.co /\ s.ok = r.ok
         /\ SameContent(s.box, r.box) /\ s.box.barrier = t
  <1>1. r.box \in Boxes
    BY RunParts
  <1>2. PICK b : b = [r.box EXCEPT !.barrier = t]
    OBVIOUS
  <1>3. b \in Boxes /\ SameContent(b, r.box) /\ b.barrier = t
    BY <1>1, <1>2 DEF Boxes, SameContent
  <1>4. s = [r EXCEPT !.box = b]
    BY <1>2
  <1>5. SameDisks(r, s) /\ s.co = r.co /\ s.ok = r.ok /\ s.box = b
    BY <1>3, <1>4 DEF Runs, SameDisks
  <1> QED
    BY <1>3, <1>5

\* A barrier at t.
BarrierAt(r, s, t, p) ==
    /\ Calm(r, s, p) /\ Mirror(s) /\ SameContent(s.box, r.box)
    /\ s.ok => r.ok /\ s.box.barrier = t
    /\ ~s.ok => s.box.barrier = r.box.barrier

LEMMA PersistBarrierOK ==
  ASSUME NEW r, NEW p, Ready(r, p), Mirror(r), NEW t \in Nat, r.box.barrier <= t, NEW s,
         s = PersistBarrier(r, t)
  PROVE  BarrierAt(r, s, t, p)
  <1>1. r \in Runs /\ r.disk \in Disks /\ r.box \in Boxes
    BY RunParts DEF Ready
  <1>2. SameContent(r.box, r.box) /\ r.box.barrier \in Nat
    BY <1>1, BoxParts DEF SameContent
  <1>3. CASE r.box.barrier >= t
    <2>1. s = r /\ r.box.barrier = t
      BY <1>2, <1>3 DEF PersistBarrier
    <2> QED
      BY <1>2, <2>1, CalmSelf DEF BarrierAt
  <1>4. CASE ~(r.box.barrier >= t)
    <2>1. PICK d : d = [r.disk EXCEPT !.expiry = t]
      OBVIOUS
    <2>2. PICK y : y = Storage(r, d)
      OBVIOUS
    <2>3. s = IF y.ok THEN [y EXCEPT !.box.barrier = t] ELSE y
      BY <1>4, <2>1, <2>2 DEF PersistBarrier, SetBarrier
    <2>4. r.disk.expiry <= t
      BY DEF Mirror, Mirrors
    <2>5. Follows(r, d, p)
      BY <2>1, <2>4, BarrierFollows
    <2>6. Wrote(r, y, d, p)
      BY <2>2, <2>5, StorageOK
    <2>7. /\ d.file = r.disk.file /\ d.expiry = t /\ d.revoked = r.disk.revoked
          /\ d.state = r.disk.state /\ d.blocked = r.disk.blocked
      BY <1>1, <2>1 DEF Disks
    <2>8. FileBatches(d) = FileBatches(r.disk)
      BY <2>7 DEF FileBatches
    <2>9. Calm(r, y, p)
      BY <2>6, <2>7, <2>8, WroteCalm
    <2>10. CASE ~y.ok
      <3>1. s = y /\ y.box = r.box /\ y.disk = r.disk /\ Expired(y) = Expired(r)
        BY <2>3, <2>6, <2>10 DEF Wrote
      <3>2. Mirror(y)
        BY <3>1 DEF Mirror
      <3> QED
        BY <1>2, <2>9, <2>10, <3>1, <3>2 DEF BarrierAt
    <2>11. CASE y.ok
      <3>1. y \in Runs /\ y.disk = d /\ y.box = r.box /\ r.ok
        BY <2>6, <2>11 DEF Wrote, Ready
      <3>2. /\ SameDisks(y, s) /\ s.co = y.co /\ s.ok = y.ok
            /\ SameContent(s.box, y.box) /\ s.box.barrier = t
        BY <2>3, <2>11, <3>1, BarrierSet
      <3>3. Calm(y, s, p) /\ Expired(s) = Expired(y) /\ s.disk = d /\ Ready(s, p)
        BY <2>9, <3>1, <3>2, SameReady DEF Calm, SameDisks
      <3>4. Calm(r, s, p)
        BY <2>9, <3>3, CalmChain
      <3>5. Shows(r.box.records, t, Expired(s))
        <4> SUFFICES ASSUME NEW i \in DOMAIN r.box.records,
                            r.box.records[i].batch \in Expired(s)
                     PROVE  t # 0 /\ ExpiredAt(Stamp(r.box.records[i]), t)
          BY DEF Shows
        <4>1. Shows(d.file.records, t, Expired(s)) /\ d.file # None
          BY <2>7, <3>3, ReadyFacts DEF ReadyAt, ExpiryOK, Mirror, Mirrors
        <4>2. PICK j \in DOMAIN d.file.records :
                  r.box.records[i].batch = d.file.records[j].batch
          <5>1. r.box.records[i].batch \in BatchesOf(r.box.records)
            BY DEF BatchesOf
          <5>2. r.box.records[i].batch \in BatchesOf(d.file.records)
            BY <2>7, <5>1 DEF Mirror, Mirrors
          <5> QED
            BY <5>2 DEF BatchesOf
        <4>3. t # 0 /\ ExpiredAt(Stamp(d.file.records[j]), t)
          BY <4>1, <4>2 DEF Shows
        <4>4. Stamp(r.box.records[i]) <= Stamp(d.file.records[j])
          BY <2>7, <4>2 DEF Mirror, Mirrors, Older
        <4>5. r.box.records[i] \in Records /\ d.file.records[j] \in Records
          <5>1. r.box.records \in Seq(Records) /\ d.file.records \in Seq(Records)
            BY <1>1, <2>7, <4>1, BoxParts, DiskParts, FileParts
          <5> QED
            BY <5>1
        <4>6. Stamp(r.box.records[i]) \in Nat \ {0} /\ Stamp(d.file.records[j]) \in Nat
          BY <4>5, StampTime
        <4>7. ExpiredAt(Stamp(r.box.records[i]), t)
          BY <4>3, <4>4, <4>6, ExpiredStays
        <4> QED
          BY <4>3, <4>7
      <3>6. Mirror(s)
        <4>1. s.disk.file = r.disk.file /\ s.disk.expiry = t /\ ~s.disk.revoked
          BY <2>7, <3>3 DEF Mirror, Mirrors
        <4>2. s.box.records = r.box.records /\ s.box.losses = r.box.losses
              /\ (s.box.expired_losses # {} => s.box.retry_pending)
          BY <3>1, <3>2 DEF SameContent, Mirror, Mirrors
        <4> QED
          BY <3>2, <3>5, <4>1, <4>2 DEF Mirror, Mirrors
      <3> QED
        BY <2>11, <3>1, <3>2, <3>4, <3>6 DEF BarrierAt
    <2> QED
      BY <2>10, <2>11
  <1> QED
    BY <1>3, <1>4

LEMMA ClearBarrierOK ==
  ASSUME NEW r, NEW p, Ready(r, p), Mirror(r), BatchesOf(r.box.records) \cap Expired(r) = {},
         NEW s, s = ClearBarrier(r)
  PROVE  BarrierAt(r, s, 0, p)
  <1>1. r \in Runs /\ r.disk \in Disks /\ r.box \in Boxes
    BY RunParts DEF Ready
  <1>2. SameContent(r.box, r.box)
    BY <1>1 DEF SameContent
  <1>3. PICK d : d = [r.disk EXCEPT !.expiry = 0]
    OBVIOUS
  <1>4. PICK y : y = Storage(r, d)
    OBVIOUS
  <1>5. s = IF y.ok THEN [y EXCEPT !.box.barrier = 0] ELSE y
    BY <1>3, <1>4 DEF ClearBarrier, SetBarrier
  <1>6. FileBatches(r.disk) \cap Expired(r) = {}
    BY DEF Mirror, Mirrors, FileBatches
  <1>7. Wrote(r, y, d, p)
    BY <1>3, <1>4, <1>6, ClearFollows, StorageOK
  <1>8. /\ d.file = r.disk.file /\ d.expiry = 0 /\ d.revoked = r.disk.revoked
        /\ d.state = r.disk.state /\ d.blocked = r.disk.blocked
    BY <1>1, <1>3 DEF Disks
  <1>9. FileBatches(d) = FileBatches(r.disk)
    BY <1>8 DEF FileBatches
  <1>10. Calm(r, y, p)
    BY <1>7, <1>8, <1>9, WroteCalm
  <1>11. CASE ~y.ok
    <2>1. s = y /\ y.box = r.box /\ y.disk = r.disk /\ Expired(y) = Expired(r)
      BY <1>5, <1>7, <1>11 DEF Wrote
    <2>2. Mirror(y)
      BY <2>1 DEF Mirror
    <2> QED
      BY <1>2, <1>10, <1>11, <2>1, <2>2 DEF BarrierAt
  <1>12. CASE y.ok
    <2>1. y \in Runs /\ y.disk = d /\ y.box = r.box /\ r.ok /\ Expired(y) \subseteq Expired(r)
      BY <1>7, <1>8, <1>12 DEF Wrote, Ready, After, BarredOnDisk
    <2>2. /\ SameDisks(y, s) /\ s.co = y.co /\ s.ok = y.ok
          /\ SameContent(s.box, y.box) /\ s.box.barrier = 0
      <3>1. PICK z \in Nat : z = 0
        OBVIOUS
      <3>2. s = [y EXCEPT !.box.barrier = z]
        BY <1>5, <1>12, <3>1
      <3> QED
        BY <2>1, <3>1, <3>2, BarrierSet
    <2>3. Calm(y, s, p) /\ Expired(s) = Expired(y) /\ s.disk = d
      BY <1>10, <2>1, <2>2, SameReady DEF Calm, SameDisks
    <2>4. Calm(r, s, p)
      BY <1>10, <2>3, CalmChain
    <2>5. Shows(r.box.records, 0, Expired(s))
      BY <2>1, <2>3 DEF Shows, BatchesOf
    <2>6. Mirror(s)
      <3>1. s.disk.file = r.disk.file /\ s.disk.expiry = 0 /\ ~s.disk.revoked
        BY <1>8, <2>3 DEF Mirror, Mirrors
      <3>2. s.box.records = r.box.records /\ s.box.losses = r.box.losses
            /\ (s.box.expired_losses # {} => s.box.retry_pending)
        BY <2>1, <2>2 DEF SameContent, Mirror, Mirrors
      <3> QED
        BY <2>2, <2>5, <3>1, <3>2 DEF Mirror, Mirrors
    <2> QED
      BY <1>12, <2>1, <2>2, <2>4, <2>6 DEF BarrierAt
  <1> QED
    BY <1>11, <1>12

-----------------------------------------------------------------------------
(* prune_expired_locked *)

\* Every record of the box that has expired at t is marked.
MarksAll(b, t) ==
    \A i \in DOMAIN b.records : ExpiredAt(Stamp(b.records[i]), t) => b.records[i].observed

\* The box m is b with its expired records and loss slots marked.
MarkedBox(m, b, t) ==
    /\ m \in Boxes /\ m.is_open = b.is_open /\ m.losses = b.losses
    /\ m.barrier = b.barrier /\ m.retry_pending = b.retry_pending
    /\ Alike(m.records, b.records) /\ MarksAll(m, t)

LEMMA MarkedOK ==
  ASSUME NEW b \in Boxes, NEW t \in Nat, NEW m, m = Marked(b, t)
  PROVE  MarkedBox(m, b, t)
  <1>1. b.records \in Seq(Records) /\ b.losses \in LossTables /\ b.expired_losses \subseteq Contexts
    BY BoxParts
  <1>2. PICK q : q = [i \in DOMAIN b.records |-> Observed(b.records[i], t)]
    OBVIOUS
  <1>3. PICK e : e = b.expired_losses \cup {c \in DOMAIN b.losses :
                                              ExpiredAt(b.losses[c].first, t)}
    OBVIOUS
  <1>4. e \in SUBSET Contexts
    BY <1>1, <1>3, TableParts
  <1>5. PICK n \in Nat : n = Len(b.records) /\ DOMAIN b.records = 1..n
    BY <1>1
  <1>6. ASSUME NEW i \in 1..n
        PROVE  /\ q[i] \in Records /\ Twin(q[i], b.records[i])
               /\ ExpiredAt(Stamp(q[i]), t) => q[i].observed
    <2>1. b.records[i] \in Records
      BY <1>1, <1>5
    <2>2. PICK o : o = (b.records[i].observed \/ ExpiredAt(Stamp(b.records[i]), t))
      OBVIOUS
    <2>3. o \in BOOLEAN
      BY <2>2
    <2>4. q[i] = [b.records[i] EXCEPT !.observed = o]
      BY <1>2, <1>5, <2>2 DEF Observed
    <2>5. q[i] \in Records /\ Twin(q[i], b.records[i]) /\ q[i].observed = o
      BY <2>1, <2>3, <2>4, RecordObserved
    <2>6. Stamp(q[i]) = Stamp(b.records[i])
      BY <2>5, Zenon DEF Twin, Stamp
    <2> QED
      BY <2>2, <2>5, <2>6
  <1>7. q \in [1..n -> Records]
    BY <1>2, <1>5, <1>6
  <1>8. q \in Seq(Records) /\ Len(q) = n /\ DOMAIN q = 1..n
    BY <1>7, FunIsSeq
  <1>9. Alike(q, b.records)
    BY <1>1, <1>5, <1>6, <1>8 DEF Alike
  <1>10. m = [b EXCEPT !.records = q, !.expired_losses = e]
    <2>1. m = [[b EXCEPT !.records = q] EXCEPT !.expired_losses = @ \cup {c \in DOMAIN b.losses :
                                              ExpiredAt(b.losses[c].first, t)}]
      BY <1>2 DEF Marked
    <2>2. [b EXCEPT !.records = q].expired_losses = b.expired_losses
      BY <1>8 DEF Boxes
    <2> QED
      BY <1>3, <2>1, <2>2
  <1>11. /\ m \in Boxes /\ m.is_open = b.is_open /\ m.losses = b.losses
         /\ m.barrier = b.barrier /\ m.retry_pending = b.retry_pending /\ m.records = q
    BY <1>4, <1>8, <1>10 DEF Boxes
  <1>12. MarksAll(m, t)
    BY <1>6, <1>8, <1>11 DEF MarksAll
  <1> QED
    BY <1>9, <1>11, <1>12 DEF MarkedBox

\* Nothing marked, or nothing left of what is marked: nothing has expired.
LEMMA UnmarkedLive ==
  ASSUME NEW b \in Boxes, NEW t \in Nat, b.barrier <= t, MarksAll(b, t), NEW es,
         Shows(b.records, b.barrier, es), NEW q,
         \A k \in DOMAIN q : \E i \in DOMAIN b.records :
            q[k] = b.records[i] /\ ~b.records[i].observed
  PROVE  /\ BatchesOf(q) \cap es = {}
         /\ \A k \in DOMAIN q : ~ExpiredAt(Stamp(q[k]), b.barrier)
  <1>1. ASSUME NEW k \in DOMAIN q
        PROVE  ~ExpiredAt(Stamp(q[k]), b.barrier) /\ q[k].batch \notin es
    <2>1. PICK i \in DOMAIN b.records : q[k] = b.records[i] /\ ~b.records[i].observed
      OBVIOUS
    <2>2. b.records[i] \in Records /\ b.barrier \in Nat
      <3>1. b.records \in Seq(Records) /\ b.barrier \in Nat
        BY BoxParts
      <3> QED
        BY <3>1
    <2>3. Stamp(b.records[i]) \in Nat \ {0}
      BY <2>2, StampTime
    <2>4. ~ExpiredAt(Stamp(b.records[i]), t)
      BY <2>1 DEF MarksAll
    <2>5. ~ExpiredAt(Stamp(b.records[i]), b.barrier)
      <3>1. PICK a \in Nat \ {0}, u \in Nat : a = Stamp(b.records[i]) /\ u = b.barrier
        BY <2>2, <2>3
      <3>2. ~ExpiredAt(a, t) /\ u <= t
        BY <2>4, <3>1
      <3>3. ~ExpiredAt(a, u)
        BY <3>2, ExpiredStays
      <3> QED
        BY <3>1, <3>3
    <2> QED
      BY <2>1, <2>5 DEF Shows
  <1> QED
    BY <1>1 DEF BatchesOf

\* The outbox was swept: what is left in it has not expired.
Swept(r, s, p) ==
    /\ Calm(r, s, p) /\ Mirror(s) /\ s.box.is_open = r.box.is_open
    /\ s.ok => r.ok /\ s.box.barrier = 0 /\ s.box.expired_losses = {}

LEMMA PruneMarkedOK ==
  ASSUME NEW r, NEW p, Ready(r, p), Mirror(r), NEW t \in Nat, r.box.barrier <= t,
         MarksAll(r.box, t), NEW s, s = PruneMarked(r, t)
  PROVE  Swept(r, s, p)
  <1>1. r \in Runs /\ r.box \in Boxes
    BY RunParts DEF Ready
  <1>2. PICK x1 : x1 = IF r.box.retry_pending THEN PersistBarrier(r, t) ELSE r
    OBVIOUS
  <1>3. PICK x2 : x2 = IF x1.ok /\ SlotsSuffice(x1.box)
                       THEN PersistOrRestore(x1, Pruned(x1.box, Min({t, x1.now})))
                       ELSE Failed(x1)
    OBVIOUS
  <1>4. s = IF x2.ok THEN ClearBarrier([x2 EXCEPT !.box.retry_pending = FALSE,
                                                  !.box.expired_losses = {}])
            ELSE x2
    BY <1>2, <1>3 DEF PruneMarked
  <1>5. /\ Calm(r, x1, p) /\ Mirror(x1) /\ SameContent(x1.box, r.box)
        /\ x1.box.barrier <= t /\ (x1.ok => r.ok)
    <2>1. CASE r.box.retry_pending
      <3>1. BarrierAt(r, x1, t, p)
        BY <1>2, <2>1, PersistBarrierOK
      <3> QED
        BY <3>1 DEF BarrierAt
    <2>2. CASE ~r.box.retry_pending
      BY <1>1, <1>2, <2>2, CalmSelf DEF SameContent
    <2> QED
      BY <2>1, <2>2
  <1>6. x1 \in Runs /\ x1.box \in Boxes /\ Ready(x1, p) /\ MarksAll(x1.box, t)
    BY <1>5, RunParts DEF Calm, Ready, SameContent, MarksAll
  <1>7. CASE ~(x1.ok /\ SlotsSuffice(x1.box))
    <2>1. x2 = [x1 EXCEPT !.ok = FALSE]
      BY <1>3, <1>7 DEF Failed
    <2>2. SameDisks(x1, x2) /\ x2.box = x1.box /\ x2.co = x1.co /\ x2.ok = FALSE
      BY <1>6, <2>1, OkSet
    <2>3. Calm(x1, x2, p) /\ Expired(x2) = Expired(x1) /\ x2.disk = x1.disk
      BY <1>6, <2>2, SameReady DEF SameDisks
    <2>4. Mirror(x2)
      BY <1>5, <2>2, <2>3 DEF Mirror
    <2>5. Calm(r, x2, p)
      BY <1>5, <2>3, CalmChain
    <2> QED
      BY <1>4, <1>5, <2>2, <2>4, <2>5 DEF Swept, SameContent
  <1>8. CASE x1.ok /\ SlotsSuffice(x1.box)
    <2>1. PICK u \in Nat : u = Min({t, x1.now})
      <3>1. x1.now \in Nat
        BY <1>6, RunParts
      <3>2. Min({t, x1.now}) \in Nat
        BY <3>1, MinOfTwo
      <3> QED
        BY <3>2
    <2>2. PICK b : b = Pruned(x1.box, u)
      OBVIOUS
    <2>3. PICK n \in Nat : n = Len(x1.box.records) /\ DOMAIN x1.box.records = 1..n
      <3>1. x1.box.records \in Seq(Records)
        BY <1>6, BoxParts
      <3> QED
        BY <3>1
    <2>4. SortedUpTo(b, x1.box, n)
      <3>1. Distinct(x1.box.records)
        BY <1>5 DEF Mirror, Mirrors
      <3> QED
        BY <1>6, <2>2, <2>3, <3>1, PrunedOK
    <2>5. \A k \in DOMAIN b.records : \E i \in DOMAIN x1.box.records :
                b.records[k] = x1.box.records[i] /\ ~x1.box.records[i].observed
      BY <2>3, <2>4 DEF SortedUpTo
    <2>6. b \in Boxes /\ b.barrier = x1.box.barrier /\ b.is_open = x1.box.is_open
          /\ (b.expired_losses # {} => b.retry_pending) /\ Distinct(b.records)
      BY <1>5, <2>4 DEF SortedUpTo, SameShell, Mirror, Mirrors
    <2>7. BatchesOf(b.records) \subseteq BatchesOf(x1.box.records)
      BY <2>5 DEF BatchesOf
    <2>8. Shows(b.records, x1.disk.expiry, Expired(x1))
      <3>1. Shows(x1.box.records, x1.disk.expiry, Expired(x1))
        BY <1>5 DEF Mirror, Mirrors
      <3> QED
        BY <2>5, <3>1 DEF Shows
    <2>9. \/ x1.disk.state.pending \notin BatchesOf(x1.box.records) \ BatchesOf(b.records)
          \/ LossOf(b.losses, x1.disk.state.pending.ctx).expired # 0
      <3> SUFFICES ASSUME x1.disk.state.pending \in BatchesOf(x1.box.records),
                          x1.disk.state.pending \notin BatchesOf(b.records)
                   PROVE  LossOf(b.losses, x1.disk.state.pending.ctx).expired # 0
        OBVIOUS
      <3>1. PICK j \in 1..n : x1.box.records[j].batch = x1.disk.state.pending
        BY <2>3 DEF BatchesOf
      <3>2. x1.box.records[j].observed
        BY <2>4, <3>1 DEF SortedUpTo
      <3> QED
        BY <2>4, <3>1, <3>2 DEF SortedUpTo
    <2>10. Replaced(x1, x2, b, p)
      <3>1. x2 = PersistOrRestore(x1, b)
        BY <1>3, <1>8, <2>1, <2>2
      <3> QED
        BY <1>5, <1>6, <1>8, <2>6, <2>7, <2>8, <2>9, <3>1, ReplaceOK
    <2>11. Calm(r, x2, p) /\ Mirror(x2) /\ x2 \in Runs /\ Ready(x2, p)
      BY <1>5, <2>10, CalmChain DEF Replaced, Calm, Ready
    <2>12. CASE ~x2.ok
      BY <1>4, <1>5, <2>10, <2>11, <2>12 DEF Swept, Replaced, SameContent
    <2>13. CASE x2.ok
      <3>1. x2.box = b
        BY <2>10, <2>13 DEF Replaced
      <3>2. PICK c : c = [[b EXCEPT !.retry_pending = FALSE] EXCEPT !.expired_losses = {}]
        OBVIOUS
      <3>3. /\ c \in Boxes /\ c.expired_losses = {} /\ c.barrier = b.barrier
            /\ c.is_open = b.is_open /\ c.records = b.records /\ c.losses = b.losses
        BY <2>6, <3>2 DEF Boxes
      <3>4. PICK y : y = [x2 EXCEPT !.box = c]
        OBVIOUS
      <3>5. SameDisks(x2, y) /\ y.box = c /\ y.co = x2.co /\ y.ok = x2.ok
        BY <2>11, <3>3, <3>4 DEF Runs, SameDisks
      <3>6. s = ClearBarrier(y)
        <4>1. [x2 EXCEPT !.box.retry_pending = FALSE, !.box.expired_losses = {}] = y
          BY <2>11, <3>1, <3>2, <3>4 DEF Runs
        <4> QED
          BY <1>4, <2>13, <4>1
      <3>7. Ready(y, p) /\ Calm(x2, y, p) /\ Expired(y) = Expired(x2) /\ y.disk = x2.disk
        BY <2>11, <3>5, SameReady DEF SameDisks
      <3>8. Mirror(y)
        BY <2>11, <3>1, <3>3, <3>5, <3>7 DEF Mirror, Mirrors
      <3>9. \A k \in DOMAIN b.records : ~ExpiredAt(Stamp(b.records[k]), b.barrier)
        <4>1. Shows(x1.box.records, x1.box.barrier, Expired(x1))
          BY <1>5 DEF Mirror, Mirrors
        <4> QED
          BY <1>5, <1>6, <2>5, <2>6, <4>1, UnmarkedLive
      <3>10. BatchesOf(y.box.records) \cap Expired(y) = {}
        BY <3>3, <3>5, <3>8, <3>9 DEF Mirror, Mirrors, Shows, BatchesOf
      <3>11. BarrierAt(y, s, 0, p)
        BY <3>6, <3>7, <3>8, <3>10, ClearBarrierOK
      <3>12. Calm(x2, s, p)
        BY <3>7, <3>11, CalmChain DEF BarrierAt
      <3>13. Calm(r, s, p)
        BY <2>11, <3>12, CalmChain
      <3>14. /\ s.box.is_open = r.box.is_open
             /\ s.ok => r.ok /\ s.box.barrier = 0 /\ s.box.expired_losses = {}
        <4>1. s.box.is_open = y.box.is_open /\ s.box.expired_losses = y.box.expired_losses
          BY <3>11 DEF BarrierAt, SameContent
        <4>2. y.box.is_open = r.box.is_open /\ y.box.expired_losses = {} /\ r.ok
          BY <1>5, <1>8, <2>6, <3>3, <3>5 DEF SameContent
        <4> QED
          BY <3>11, <4>1, <4>2 DEF BarrierAt
      <3> QED
        BY <3>11, <3>13, <3>14 DEF Swept, BarrierAt
    <2> QED
      BY <2>12, <2>13
  <1> QED
    BY <1>7, <1>8

LEMMA PruneExpiredOK ==
  ASSUME NEW r, NEW p, Ready(r, p), Mirror(r), NEW at \in Nat, NEW force \in BOOLEAN, NEW s,
         s = PruneExpired(r, at, force)
  PROVE  Swept(r, s, p)
  <1>1. r \in Runs /\ r.box \in Boxes /\ r.box.barrier \in Nat
    BY RunParts, BoxParts DEF Ready
  <1>2. PICK t \in Nat : t = Max({at, r.box.barrier}) /\ r.box.barrier <= t
    <2>1. Max({at, r.box.barrier}) = IF at >= r.box.barrier THEN at ELSE r.box.barrier
      BY <1>1, MaxOfTwo
    <2> QED
      BY <1>1, <2>1
  <1>3. PICK m : m = Marked(r.box, t)
    OBVIOUS
  <1>4. /\ m \in Boxes /\ m.is_open = r.box.is_open /\ m.losses = r.box.losses
        /\ m.barrier = r.box.barrier /\ m.retry_pending = r.box.retry_pending
        /\ Alike(m.records, r.box.records) /\ MarksAll(m, t)
    <2>1. MarkedBox(m, r.box, t)
      BY <1>1, <1>3, MarkedOK
    <2> QED
      BY <2>1 DEF MarkedBox
  <1>5. PICK e : e = (m.retry_pending \/ AnyMarked(m))
    OBVIOUS
  <1>6. e \in BOOLEAN
    BY <1>5
  <1>7. s = IF ~r.ok THEN r
            ELSE IF e \/ force
            THEN PruneMarked([r EXCEPT !.box = [m EXCEPT !.retry_pending = e]], t)
            ELSE IF r.box.barrier # 0 THEN ClearBarrier(r) ELSE r
    BY <1>2, <1>3, <1>5 DEF PruneExpired
  <1>8. CASE ~r.ok
    BY <1>7, <1>8, CalmSelf DEF Swept
  <1>9. CASE r.ok /\ (e \/ force)
    <2>1. PICK b : b = [m EXCEPT !.retry_pending = e]
      OBVIOUS
    <2>2. /\ b \in Boxes /\ b.is_open = r.box.is_open /\ b.losses = r.box.losses
          /\ b.barrier = r.box.barrier /\ b.retry_pending = e
          /\ b.records = m.records /\ b.expired_losses = m.expired_losses
      BY <1>4, <1>6, <2>1 DEF Boxes
    <2>3. PICK x : x = [r EXCEPT !.box = b]
      OBVIOUS
    <2>4. SameDisks(r, x) /\ x.box = b /\ x.co = r.co /\ x.ok = r.ok
      BY <1>1, <2>2, <2>3 DEF Runs, SameDisks
    <2>5. Ready(x, p) /\ Calm(r, x, p) /\ Expired(x) = Expired(r) /\ x.disk = r.disk
      BY <2>4, SameReady DEF SameDisks
    <2>6. Mirror(x)
      <3>1. /\ BatchesOf(b.records) = BatchesOf(r.box.records)
            /\ (Distinct(b.records) <=> Distinct(r.box.records))
            /\ (Shows(b.records, b.barrier, Expired(r))
                    <=> Shows(r.box.records, b.barrier, Expired(r)))
        BY <1>4, <2>2, AlikeSame
      <3>2. Older(b.records, r.disk.file.records)
        <4> SUFFICES ASSUME NEW i \in DOMAIN b.records, NEW j \in DOMAIN r.disk.file.records,
                            b.records[i].batch = r.disk.file.records[j].batch
                     PROVE  Stamp(b.records[i]) <= Stamp(r.disk.file.records[j])
          BY DEF Older
        <4>1. /\ i \in DOMAIN r.box.records
              /\ b.records[i].batch = r.box.records[i].batch
              /\ b.records[i].arrived = r.box.records[i].arrived
          BY <1>4, <2>2 DEF Alike, Twin
        <4>2. Stamp(b.records[i]) = Stamp(r.box.records[i])
          BY <4>1, Zenon DEF Stamp
        <4>3. Stamp(r.box.records[i]) <= Stamp(r.disk.file.records[j])
          BY <4>1 DEF Mirror, Mirrors, Older
        <4> QED
          BY <4>2, <4>3
      <3>3. b.expired_losses # {} => b.retry_pending
        BY <1>5, <2>2 DEF AnyMarked
      <3>4. Mirrors(r.box, r.disk, Expired(r))
        BY DEF Mirror
      <3> QED
        BY <2>2, <2>4, <2>5, <3>1, <3>2, <3>3, <3>4 DEF Mirror, Mirrors
    <2>7. MarksAll(x.box, t) /\ x.box.barrier <= t
      BY <1>2, <1>4, <2>2, <2>4 DEF MarksAll
    <2>8. s = PruneMarked(x, t)
      BY <1>7, <1>9, <2>1, <2>3
    <2>9. Swept(x, s, p)
      BY <2>5, <2>6, <2>7, <2>8, PruneMarkedOK
    <2>10. Calm(r, s, p)
      BY <2>5, <2>9, CalmChain DEF Swept
    <2> QED
      BY <1>9, <2>2, <2>4, <2>9, <2>10 DEF Swept
  <1>10. CASE r.ok /\ ~(e \/ force)
    <2>1. ~AnyMarked(m) /\ ~r.box.retry_pending
      BY <1>4, <1>5, <1>10
    <2>2. BatchesOf(r.box.records) \cap Expired(r) = {}
      <3>1. \A k \in DOMAIN m.records : \E i \in DOMAIN m.records :
                m.records[k] = m.records[i] /\ ~m.records[i].observed
        BY <2>1 DEF AnyMarked
      <3>2. Shows(m.records, m.barrier, Expired(r))
        BY <1>4, AlikeSame DEF Mirror, Mirrors
      <3>3. m.barrier <= t
        BY <1>2, <1>4
      <3>4. BatchesOf(m.records) \cap Expired(r) = {}
        BY <1>4, <3>1, <3>2, <3>3, UnmarkedLive
      <3> QED
        BY <1>4, <3>4, AlikeSame
    <2>3. r.box.expired_losses = {}
      BY <2>1 DEF Mirror, Mirrors
    <2>4. CASE r.box.barrier = 0
      <3>1. s = r
        BY <1>7, <1>10, <2>4
      <3> QED
        BY <2>3, <2>4, <3>1, CalmSelf DEF Swept
    <2>5. CASE r.box.barrier # 0
      <3>1. s = ClearBarrier(r)
        BY <1>7, <1>10, <2>5
      <3>2. BarrierAt(r, s, 0, p)
        BY <2>2, <3>1, ClearBarrierOK
      <3> QED
        BY <2>3, <3>2 DEF BarrierAt, Swept, SameContent
    <2> QED
      BY <2>4, <2>5
  <1> QED
    BY <1>8, <1>9, <1>10

-----------------------------------------------------------------------------
(* open *)

\* An outbox that holds nothing.
Shut(b) ==
    /\ b \in Boxes /\ b.records = <<>> /\ b.losses = <<>> /\ b.expired_losses = {}
    /\ b.retry_pending = FALSE

LEMMA ClosedBoxOK == Shut(ClosedBox) /\ ClosedBox.is_open = FALSE /\ ClosedBox.barrier = 0
  <1>1. <<>> \in Seq(Records)
    BY EmptySeq
  <1>2. <<>> \in LossTables
    <2>1. <<>> \in [{} -> Losses]
      OBVIOUS
    <2> QED
      BY <2>1 DEF LossTables
  <1>3. [c \in Contexts |-> 0] \in [Contexts -> Int]
    OBVIOUS
  <1> QED
    BY <1>1, <1>2, <1>3 DEF ClosedBox, Shut, Boxes

\* A write that leaves the box alone.
Kept(r, s, p) == Calm(r, s, p) /\ s.box = r.box /\ (s.ok => r.ok)

LEMMA KeptSelf ==
  ASSUME NEW r, NEW p, Ready(r, p)
  PROVE  Kept(r, r, p)
  BY CalmSelf DEF Kept

LEMMA KeptChain ==
  ASSUME NEW r, NEW s, NEW t, NEW p, Kept(r, s, p), Kept(s, t, p)
  PROVE  Kept(r, t, p)
  BY CalmChain DEF Kept

LEMMA DeleteFileOK ==
  ASSUME NEW r, NEW p, Ready(r, p), NEW s, s = DeleteFile(r)
  PROVE  /\ Kept(r, s, p)
         /\ s.disk.expiry = r.disk.expiry /\ s.disk.revoked = r.disk.revoked
         /\ s.ok => s.disk.file = None
  <1>1. r.disk \in Disks
    BY RunParts DEF Ready
  <1>2. PICK d : d = [r.disk EXCEPT !.file = None]
    OBVIOUS
  <1>3. /\ d.file = None /\ d.expiry = r.disk.expiry /\ d.revoked = r.disk.revoked
        /\ d.state = r.disk.state /\ d.blocked = r.disk.blocked
    BY <1>1, <1>2 DEF Disks
  <1>4. Wrote(r, s, d, p)
    BY <1>2, DeleteFollows, StorageOK DEF DeleteFile
  <1>5. FileBatches(d) \subseteq FileBatches(r.disk)
    BY <1>3 DEF FileBatches
  <1>6. Calm(r, s, p)
    BY <1>3, <1>4, <1>5, WroteCalm
  <1> QED
    BY <1>3, <1>4, <1>6 DEF Wrote, Kept

LEMMA MarkOK ==
  ASSUME NEW r, NEW p, Ready(r, p), NEW e \in BOOLEAN, e \/ r.disk.file = None, NEW s,
         s = Storage(r, [r.disk EXCEPT !.revoked = e])
  PROVE  /\ Kept(r, s, p)
         /\ s.disk.expiry = r.disk.expiry /\ s.disk.file = r.disk.file
         /\ s.ok => s.disk.revoked = e
  <1>1. r.disk \in Disks
    BY RunParts DEF Ready
  <1>2. PICK d : d = [r.disk EXCEPT !.revoked = e]
    OBVIOUS
  <1>3. /\ d.file = r.disk.file /\ d.expiry = r.disk.expiry /\ d.revoked = e
        /\ d.state = r.disk.state /\ d.blocked = r.disk.blocked
    BY <1>1, <1>2 DEF Disks
  <1>4. Wrote(r, s, d, p)
    BY <1>2, MarkFollows, StorageOK
  <1>5. FileBatches(d) \subseteq FileBatches(r.disk)
    BY <1>3 DEF FileBatches
  <1>6. Calm(r, s, p)
    BY <1>3, <1>4, <1>5, WroteCalm
  <1> QED
    BY <1>3, <1>4, <1>6 DEF Wrote, Kept

LEMMA DropAgedOK ==
  ASSUME NEW r, NEW p, Ready(r, p), NEW s, s = DropAged(r)
  PROVE  Kept(r, s, p)
  BY KeptSelf, DeleteFileOK DEF DropAged

LEMMA DropRevokedOK ==
  ASSUME NEW r, NEW p, Ready(r, p), NEW s, s = DropRevoked(r)
  PROVE  /\ Kept(r, s, p) /\ s.disk.expiry = r.disk.expiry
         /\ s.ok => ~s.disk.revoked
  <1>1. CASE ~r.disk.revoked
    <2>1. s = r
      BY <1>1 DEF DropRevoked
    <2> QED
      BY <1>1, <2>1, KeptSelf
  <1>2. CASE r.disk.revoked
    <2>1. PICK y : y = DeleteFile(r)
      OBVIOUS
    <2>2. s = Storage(y, [y.disk EXCEPT !.revoked = FALSE])
      BY <1>2, <2>1 DEF DropRevoked
    <2>3. /\ Kept(r, y, p) /\ y.disk.expiry = r.disk.expiry
          /\ y.ok => y.disk.file = None
      BY <2>1, DeleteFileOK
    <2>4. CASE ~y.ok
      <3>1. s = y
        BY <2>2, <2>4 DEF Storage
      <3> QED
        BY <2>3, <2>4, <3>1
    <2>5. CASE y.ok
      <3>1. Ready(y, p) /\ y.disk.file = None
        BY <2>3, <2>5 DEF Kept, Calm
      <3>2. PICK e \in BOOLEAN : e = FALSE
        OBVIOUS
      <3>3. s = Storage(y, [y.disk EXCEPT !.revoked = e])
        BY <2>2, <3>2
      <3>4. Kept(y, s, p) /\ s.disk.expiry = y.disk.expiry /\ (s.ok => s.disk.revoked = e)
        BY <3>1, <3>3, MarkOK
      <3>5. Kept(r, s, p)
        BY <2>3, <3>4, KeptChain
      <3> QED
        BY <2>3, <3>2, <3>4, <3>5
    <2> QED
      BY <2>4, <2>5
  <1> QED
    BY <1>1, <1>2

LEMMA AdoptBarrierOK ==
  ASSUME NEW r, NEW p, Ready(r, p), Shut(r.box), r.box.barrier = 0, NEW s, s = AdoptBarrier(r)
  PROVE  /\ Calm(r, s, p) /\ Shut(s.box) /\ s.box.is_open = r.box.is_open
         /\ s.ok => r.ok /\ s.box.barrier = s.disk.expiry
  <1>1. r \in Runs /\ r.disk \in Disks /\ r.disk.expiry \in Nat
    BY RunParts, DiskParts DEF Ready
  <1>2. CASE ~(r.ok /\ r.disk.expiry # 0)
    <2>1. s = r
      BY <1>2 DEF AdoptBarrier
    <2> QED
      BY <1>2, <2>1, CalmSelf
  <1>3. CASE r.ok /\ r.disk.expiry # 0
    <2>1. PICK t \in Nat : t = r.disk.expiry
      BY <1>1
    <2>2. PICK y : y = [r EXCEPT !.box.barrier = t]
      OBVIOUS
    <2>3. s = ReadFile(y)
      BY <1>3, <2>1, <2>2 DEF AdoptBarrier
    <2>4. /\ SameDisks(r, y) /\ y.co = r.co /\ y.ok = r.ok
          /\ SameContent(y.box, r.box) /\ y.box.barrier = t
      BY <1>1, <2>2, BarrierSet
    <2>5. Ready(y, p) /\ Calm(r, y, p) /\ y.disk = r.disk
      BY <2>4, SameReady DEF SameDisks
    <2>6. Calm(y, s, p) /\ s.box = y.box /\ s.disk = y.disk
      BY <2>3, <2>5, ReadOK
    <2>7. Calm(r, s, p)
      BY <2>5, <2>6, CalmChain
    <2>8. Shut(s.box) /\ s.box.is_open = r.box.is_open
      BY <2>4, <2>6 DEF Shut, SameContent
    <2> QED
      BY <1>3, <2>1, <2>4, <2>5, <2>6, <2>7, <2>8
  <1> QED
    BY <1>2, <1>3

LEMMA EmptyRecords ==
  ASSUME NEW q, q = <<>>
  PROVE  /\ BatchesOf(q) = {} /\ Distinct(q) /\ DOMAIN q = {}
         /\ \A t, es : Shows(q, t, es)
  <1>1. DOMAIN q = {}
    OBVIOUS
  <1> QED
    BY <1>1 DEF BatchesOf, Distinct, Shows

\* The outbox was opened, and what is in it has not expired.
Opened(r, s, p) ==
    /\ Calm(r, s, p)
    /\ s.ok => /\ r.ok /\ s.box.is_open /\ Mirror(s)
               /\ s.box.barrier = 0 /\ s.box.expired_losses = {}

LEMMA CreateFileOK ==
  ASSUME NEW r, NEW p, Ready(r, p), Shut(r.box), r.disk.file = None,
         r.ok => r.box.barrier = r.disk.expiry /\ ~r.disk.revoked, NEW s, s = CreateFile(r)
  PROVE  Opened(r, s, p)
  <1>1. r \in Runs /\ r.box \in Boxes
    BY RunParts DEF Ready
  <1>2. PICK b : b = [r.box EXCEPT !.is_open = TRUE]
    OBVIOUS
  <1>3. Shut(b) /\ b.is_open = TRUE /\ b.barrier = r.box.barrier
    BY <1>1, <1>2 DEF Boxes, Shut
  <1>4. PICK x : x = [r EXCEPT !.box = b]
    OBVIOUS
  <1>5. SameDisks(r, x) /\ x.box = b /\ x.co = r.co /\ x.ok = r.ok
    BY <1>1, <1>3, <1>4 DEF Runs, SameDisks, Shut
  <1>6. Ready(x, p) /\ Calm(r, x, p) /\ Expired(x) = Expired(r) /\ x.disk = r.disk
    BY <1>5, SameReady DEF SameDisks
  <1>7. PICK y : y = PersistBox(x)
    OBVIOUS
  <1>8. s = ClearBarrier(y)
    <2>1. [r EXCEPT !.box.is_open = TRUE] = x
      BY <1>1, <1>2, <1>4 DEF Runs
    <2> QED
      BY <1>7, <2>1 DEF CreateFile
  <1>9. /\ BatchesOf(b.records) = {} /\ Distinct(b.records)
        /\ \A t, es : Shows(b.records, t, es)
    <2>1. b.records = <<>>
      BY <1>3 DEF Shut
    <2> QED
      BY <2>1, EmptyRecords
  <1>10. FileBatches(x.disk) = {}
    BY <1>6 DEF FileBatches
  <1>11. Calm(x, y, p) /\ Image(x, y)
    <2>1. /\ BatchesOf(x.box.records) \subseteq FileBatches(x.disk) /\ Distinct(x.box.records)
          /\ Shows(x.box.records, x.disk.expiry, Expired(x))
          /\ x.disk.state.pending \notin FileBatches(x.disk) \ BatchesOf(x.box.records)
      BY <1>5, <1>9, <1>10
    <2> QED
      BY <1>6, <1>7, <2>1, RewriteOK
  <1>12. Calm(r, y, p)
    BY <1>6, <1>11, CalmChain
  <1>13. CASE ~y.ok
    <2>1. s = y
      BY <1>8, <1>13 DEF ClearBarrier, SetBarrier, Storage
    <2> QED
      BY <1>12, <1>13, <2>1 DEF Opened
  <1>14. CASE y.ok
    <2>1. r.ok /\ y.box = b /\ y.disk.expiry = r.disk.expiry /\ y.disk.revoked = r.disk.revoked
      BY <1>5, <1>6, <1>11, <1>14 DEF Image
    <2>2. b.barrier = y.disk.expiry /\ b.expired_losses = {}
      BY <1>3, <2>1 DEF Shut
    <2>3. Mirror(y)
      BY <1>11, <1>14, <2>1, <2>2, FreshMirror DEF Image, Calm
    <2>4. BatchesOf(y.box.records) \cap Expired(y) = {}
      BY <1>9, <2>1
    <2>5. BarrierAt(y, s, 0, p)
      BY <1>8, <1>11, <2>3, <2>4, ClearBarrierOK DEF Calm
    <2>6. Calm(r, s, p)
      BY <1>12, <2>5, CalmChain DEF BarrierAt
    <2> QED
      BY <1>3, <2>1, <2>2, <2>5, <2>6 DEF Opened, BarrierAt, SameContent
  <1> QED
    BY <1>13, <1>14

\* What a stored record becomes.
LEMMA LoadedOK ==
  ASSUME NEW rec \in Records, NEW t \in Nat \ {0}, NEW q, q = Loaded(rec, t)
  PROVE  q \in Records /\ q.batch = rec.batch /\ Stamp(q) <= Stamp(rec)
  <1>1. rec.arrived \in Nat \ {0} /\ rec.batch \in Batches
    BY DEF Records
  <1>2. rec.batch.stamp \in Nat \ {0}
    BY <1>1 DEF Batches
  <1>3. PICK a \in Nat \ {0} : a = Min({rec.arrived, t}) /\ a <= rec.arrived
    BY <1>1, MinOfTwo
  <1>4. q = [rec EXCEPT !.arrived = a]
    BY <1>3 DEF Loaded
  <1>5. q \in Records /\ q.batch = rec.batch /\ q.arrived = a
    BY <1>4, RecordArrived
  <1>6. /\ Stamp(q) = IF q.arrived <= q.batch.stamp THEN q.arrived ELSE q.batch.stamp
        /\ Stamp(rec) = IF rec.arrived <= rec.batch.stamp THEN rec.arrived ELSE rec.batch.stamp
    BY <1>5, StampTime
  <1> QED
    BY <1>1, <1>2, <1>3, <1>5, <1>6

LEMMA LoadedLossOK ==
  ASSUME NEW x \in Losses, NEW t \in Nat, NEW y, y = LoadedLoss(x, t)
  PROVE  y \in Losses /\ y.expired = x.expired
  <1>1. x.first \in Nat
    BY DEF Losses
  <1>2. PICK a \in Nat : a = Min({x.first, t})
    BY <1>1, MinOfTwo
  <1>3. y = [x EXCEPT !.first = a]
    BY <1>2 DEF LoadedLoss
  <1> QED
    BY <1>3 DEF Losses

LEMMA LoadFileOK ==
  ASSUME NEW r, NEW p, Ready(r, p), Shut(r.box), r.disk.file # None, NEW t \in Nat \ {0},
         r.ok => r.box.barrier = r.disk.expiry /\ ~r.disk.revoked, NEW s, s = LoadFile(r, t)
  PROVE  Opened(r, s, p)
  <1>1. r \in Runs /\ r.box \in Boxes /\ r.disk \in Disks
    BY RunParts DEF Ready
  <1>2. CASE ~r.ok
    <2>1. s = r
      BY <1>2 DEF LoadFile
    <2> QED
      BY <1>2, <2>1, CalmSelf DEF Opened
  <1>3. CASE r.ok
    <2>1. PICK f : f = r.disk.file
      OBVIOUS
    <2>2. /\ f \in Files /\ f.records \in Seq(Records) /\ f.losses \in LossTables
          /\ f.owed \in [Contexts -> Int]
      BY <1>1, <2>1, DiskParts, FileParts
    <2>3. PICK q : q = [i \in DOMAIN f.records |-> Loaded(f.records[i], t)]
      OBVIOUS
    <2>4. PICK cs : cs = {c \in DOMAIN f.losses : HasCounted(f.losses[c])}
      OBVIOUS
    <2>5. PICK l : l = [c \in cs |-> LoadedLoss(f.losses[c], t)]
      OBVIOUS
    <2>6. PICK b : b = [[[[r.box EXCEPT !.is_open = TRUE] EXCEPT !.records = q]
                            EXCEPT !.losses = l] EXCEPT !.owed = f.owed]
      OBVIOUS
    <2>7. PICK e : e = (b.records # f.records \/ b.losses # f.losses)
      OBVIOUS
    <2>8. PICK x : x = [r EXCEPT !.box = b]
      OBVIOUS
    <2>9. s = PruneExpired(x, t, e)
      BY <1>3, <2>1, <2>3, <2>4, <2>5, <2>6, <2>7, <2>8 DEF LoadFile
    <2>10. PICK n \in Nat : n = Len(f.records) /\ DOMAIN f.records = 1..n
      BY <2>2
    <2>11. ASSUME NEW i \in 1..n
           PROVE  /\ q[i] \in Records /\ q[i].batch = f.records[i].batch
                  /\ Stamp(q[i]) <= Stamp(f.records[i])
      <3>1. f.records[i] \in Records
        BY <2>2, <2>10
      <3>2. q[i] = Loaded(f.records[i], t)
        BY <2>3, <2>10
      <3> QED
        BY <3>1, <3>2, LoadedOK
    <2>12. q \in [1..n -> Records]
      BY <2>3, <2>10, <2>11
    <2>13. q \in Seq(Records) /\ DOMAIN q = 1..n
      BY <2>12, FunIsSeq
    <2>14. l \in LossTables /\ DOMAIN l = cs /\ cs \subseteq DOMAIN f.losses
      <3>1. cs \in SUBSET Contexts /\ cs \subseteq DOMAIN f.losses
        BY <2>2, <2>4, TableParts
      <3>2. \A c \in cs : LoadedLoss(f.losses[c], t) \in Losses
        BY <2>2, <3>1, TableParts, LoadedLossOK
      <3>3. l \in [cs -> Losses]
        BY <2>5, <3>2
      <3> QED
        BY <3>1, <3>3, TableMade
    <2>15. /\ b \in Boxes /\ b.is_open = TRUE /\ b.records = q /\ b.losses = l
           /\ b.barrier = r.box.barrier /\ b.expired_losses = {}
      BY <1>1, <2>2, <2>6, <2>13, <2>14 DEF Boxes, Shut
    <2>16. SameDisks(r, x) /\ x.box = b /\ x.co = r.co /\ x.ok = r.ok
      BY <1>1, <2>8, <2>15 DEF Runs, SameDisks
    <2>17. Ready(x, p) /\ Calm(r, x, p) /\ Expired(x) = Expired(r) /\ x.disk = r.disk
      BY <2>16, SameReady DEF SameDisks
    <2>18. Distinct(f.records) /\ Shows(f.records, r.disk.expiry, Expired(r))
      BY <2>1, ReadyFacts DEF ReadyAt, FilesOK, ExpiryOK
    <2>19. BatchesOf(q) = BatchesOf(f.records) /\ Distinct(q)
      BY <2>10, <2>11, <2>13, <2>18 DEF BatchesOf, Distinct
    <2>20. Older(q, f.records)
      <3> SUFFICES ASSUME NEW i \in 1..n, NEW j \in 1..n, q[i].batch = f.records[j].batch
                   PROVE  Stamp(q[i]) <= Stamp(f.records[j])
        BY <2>10, <2>13 DEF Older
      <3>1. i = j
        BY <2>10, <2>11, <2>18 DEF Distinct, SameIdentity
      <3> QED
        BY <2>11, <3>1
    <2>21. Shows(q, r.disk.expiry, Expired(r))
      <3> SUFFICES ASSUME NEW i \in 1..n, q[i].batch \in Expired(r)
                   PROVE  r.disk.expiry # 0 /\ ExpiredAt(Stamp(q[i]), r.disk.expiry)
        BY <2>13 DEF Shows
      <3>1. r.disk.expiry # 0 /\ ExpiredAt(Stamp(f.records[i]), r.disk.expiry)
        BY <2>10, <2>11, <2>18 DEF Shows
      <3>2. f.records[i] \in Records /\ q[i] \in Records /\ r.disk.expiry \in Nat
        BY <1>1, <2>2, <2>10, <2>11, DiskParts
      <3>3. Stamp(f.records[i]) \in Nat /\ Stamp(q[i]) \in Nat \ {0}
            /\ Stamp(q[i]) <= Stamp(f.records[i])
        BY <2>11, <3>2, StampTime
      <3>4. ExpiredAt(Stamp(q[i]), r.disk.expiry)
        BY <3>1, <3>2, <3>3, ExpiredStays
      <3> QED
        BY <3>1, <3>4
    <2>22. SameExpired(l, f.losses)
      <3> SUFFICES ASSUME NEW c \in Contexts
                   PROVE  LossOf(l, c).expired = LossOf(f.losses, c).expired
        BY DEF SameExpired
      <3>1. CASE c \in cs
        <4>1. f.losses[c] \in Losses /\ l[c] = LoadedLoss(f.losses[c], t)
          BY <2>2, <2>5, <2>14, <3>1, TableParts
        <4>2. l[c].expired = f.losses[c].expired
          BY <4>1, LoadedLossOK
        <4> QED
          BY <2>14, <3>1, <4>2 DEF LossOf
      <3>2. CASE c \in DOMAIN f.losses /\ c \notin cs
        <4>1. f.losses[c] \in Losses /\ ~HasCounted(f.losses[c])
          BY <2>2, <2>4, <3>2, TableParts
        <4>2. f.losses[c].rejected \in Nat /\ f.losses[c].conflict \in Nat
              /\ f.losses[c].expired \in Nat
          BY <4>1 DEF Losses
        <4>3. f.losses[c].expired = 0
          <5>1. ~(f.losses[c].rejected + f.losses[c].conflict + f.losses[c].expired > 0)
            BY <4>1, Zenon DEF HasCounted, TotalLoss
          <5>2. \A i, j, k \in Nat : ~(i + j + k > 0) => k = 0
            OBVIOUS
          <5> QED
            BY <4>2, <5>1, <5>2, Zenon
        <4>4. LossOf(l, c) = EmptyLoss /\ EmptyLoss.expired = 0
          BY <2>14, <3>2 DEF LossOf, EmptyLoss
        <4> QED
          BY <3>2, <4>3, <4>4 DEF LossOf
      <3>3. CASE c \notin DOMAIN f.losses
        BY <2>14, <3>3 DEF LossOf
      <3> QED
        BY <3>1, <3>2, <3>3
    <2>23. Mirror(x)
      BY <1>3, <2>1, <2>15, <2>16, <2>17, <2>19, <2>20, <2>21, <2>22 DEF Mirror, Mirrors
    <2>24. Swept(x, s, p)
      BY <2>7, <2>9, <2>17, <2>23, PruneExpiredOK
    <2>25. Calm(r, s, p)
      BY <2>17, <2>24, CalmChain DEF Swept
    <2> QED
      BY <2>15, <2>16, <2>24, <2>25 DEF Swept, Opened
  <1> QED
    BY <1>2, <1>3

LEMMA OpenBoxOK ==
  ASSUME NEW r, NEW p, Ready(r, p), NEW s, s = OpenBox(r)
  PROVE  Opened(r, s, p) /\ (r.ok /\ ~s.ok => s.box = ClosedBox)
  <1>1. r \in Runs
    BY DEF Ready
  <1>2. CASE ~r.ok
    <2>1. s = r
      BY <1>2 DEF OpenBox
    <2> QED
      BY <1>2, <2>1, CalmSelf DEF Opened
  <1>3. CASE r.ok
    <2>1. PICK z : z = ClosedBox
      OBVIOUS
    <2>2. Shut(z) /\ z.is_open = FALSE /\ z.barrier = 0 /\ z \in Boxes
      BY <2>1, ClosedBoxOK DEF Shut
    <2>3. PICK x0 : x0 = [r EXCEPT !.box = z]
      OBVIOUS
    <2>4. PICK x1 : x1 = DropAged(x0)
      OBVIOUS
    <2>5. PICK x2 : x2 = AdoptBarrier(x1)
      OBVIOUS
    <2>6. PICK x3 : x3 = DropRevoked(x2)
      OBVIOUS
    <2>7. PICK x4 : x4 = LoadOrCreate(x3)
      OBVIOUS
    <2>8. s = IF x4.ok THEN x4 ELSE [x4 EXCEPT !.box = z]
      BY <1>3, <2>1, <2>3, <2>4, <2>5, <2>6, <2>7 DEF OpenBox, ClosedUnless, CloseBox
    <2>9. SameDisks(r, x0) /\ x0.box = z /\ x0.co = r.co /\ x0.ok = r.ok
      BY <1>1, <2>2, <2>3 DEF Runs, SameDisks
    <2>10. Ready(x0, p) /\ Calm(r, x0, p)
      BY <2>9, SameReady
    <2>11. Kept(x0, x1, p)
      BY <2>4, <2>10, DropAgedOK
    <2>12. Ready(x1, p) /\ Calm(r, x1, p) /\ Shut(x1.box) /\ x1.box.barrier = 0
      BY <2>2, <2>9, <2>10, <2>11, CalmChain DEF Kept, Calm
    <2>13. /\ Calm(x1, x2, p) /\ Shut(x2.box)
           /\ x2.ok => x1.ok /\ x2.box.barrier = x2.disk.expiry
      BY <2>5, <2>12, AdoptBarrierOK
    <2>14. Ready(x2, p) /\ Calm(r, x2, p)
      BY <2>12, <2>13, CalmChain DEF Calm
    <2>15. /\ Kept(x2, x3, p) /\ x3.disk.expiry = x2.disk.expiry
           /\ x3.ok => ~x3.disk.revoked
      BY <2>6, <2>14, DropRevokedOK
    <2>16. /\ Ready(x3, p) /\ Calm(r, x3, p) /\ Shut(x3.box)
           /\ x3.ok => x3.box.barrier = x3.disk.expiry /\ ~x3.disk.revoked
      BY <2>13, <2>14, <2>15, CalmChain DEF Kept, Calm
    <2>17. Opened(x3, x4, p)
      <3>1. CASE x3.disk.file = None
        <4>1. x4 = CreateFile(x3)
          BY <2>7, <3>1 DEF LoadOrCreate
        <4> QED
          BY <2>16, <3>1, <4>1, CreateFileOK
      <3>2. CASE x3.disk.file # None
        <4>1. PICK y : y = ReadFile(x3)
          OBVIOUS
        <4>2. PICK t \in Nat \ {0} : t = Max({x3.now, x3.box.barrier})
          <5>1. x3.now \in Nat \ {0} /\ x3.box.barrier \in Nat
            BY <2>16, RunParts, BoxParts DEF Ready
          <5>2. Max({x3.now, x3.box.barrier})
                    = IF x3.now >= x3.box.barrier THEN x3.now ELSE x3.box.barrier
            BY <5>1, MaxOfTwo
          <5> QED
            BY <5>1, <5>2
        <4>3. x4 = LoadFile(y, t)
          BY <2>7, <3>2, <4>1, <4>2 DEF LoadOrCreate
        <4>4. Calm(x3, y, p) /\ y.box = x3.box /\ y.disk = x3.disk /\ (y.ok => x3.ok)
          BY <2>16, <4>1, ReadOK
        <4>5. /\ Ready(y, p) /\ Shut(y.box) /\ y.disk.file # None
              /\ y.ok => y.box.barrier = y.disk.expiry /\ ~y.disk.revoked
          BY <2>16, <3>2, <4>4 DEF Calm
        <4>6. Opened(y, x4, p)
          BY <4>3, <4>5, LoadFileOK
        <4>7. Calm(x3, x4, p)
          BY <4>4, <4>6, CalmChain DEF Opened
        <4> QED
          BY <4>4, <4>6, <4>7 DEF Opened
      <3> QED
        BY <3>1, <3>2
    <2>18. Calm(r, x4, p) /\ x4 \in Runs /\ Ready(x4, p)
      BY <2>16, <2>17, CalmChain DEF Opened, Calm, Ready
    <2>19. CASE x4.ok
      BY <1>3, <2>8, <2>17, <2>18, <2>19 DEF Opened
    <2>20. CASE ~x4.ok
      <3>1. s = [x4 EXCEPT !.box = z]
        BY <2>8, <2>20
      <3>2. SameDisks(x4, s) /\ s.box = z /\ s.co = x4.co /\ s.ok = x4.ok
        BY <2>2, <2>18, <3>1 DEF Runs, SameDisks
      <3>3. Calm(r, s, p)
        BY <2>18, <3>2, SameReady, CalmChain
      <3> QED
        BY <2>1, <2>20, <3>2, <3>3 DEF Opened
    <2> QED
      BY <2>19, <2>20
  <1> QED
    BY <1>2, <1>3

-----------------------------------------------------------------------------
(* purge *)

LEMMA WipedOK ==
  ASSUME NEW b \in Boxes, NEW w, w = Wiped(b)
  PROVE  /\ w \in Boxes /\ w.records = <<>> /\ w.is_open = b.is_open
         /\ w.barrier = b.barrier /\ w.expired_losses = {}
  <1>1. /\ b.records \in Seq(Records) /\ b.losses \in LossTables
        /\ b.owed \in [Contexts -> Int]
    BY BoxParts
  <1>2. <<>> \in Seq(Records)
    BY EmptySeq
  <1>3. PICK l : l = [c \in DOMAIN b.losses \ b.expired_losses |-> b.losses[c]]
    OBVIOUS
  <1>4. l \in LossTables
    BY <1>1, <1>3, TablePart
  <1>5. PICK o : o = [c \in Contexts |-> b.owed[c]
                        - Cardinality({i \in DOMAIN b.records : b.records[i].batch.ctx = c})]
    OBVIOUS
  <1>6. o \in [Contexts -> Int]
    <2>1. ASSUME NEW c \in Contexts
          PROVE  b.owed[c] - Cardinality({i \in DOMAIN b.records : b.records[i].batch.ctx = c})
                    \in Int
      <3>1. PICK n \in Nat : DOMAIN b.records = 1..n
        BY <1>1
      <3>2. IsFiniteSet(1..n)
        BY FS_Interval
      <3>3. Cardinality({i \in DOMAIN b.records : b.records[i].batch.ctx = c}) \in Nat
        <4>1. {i \in DOMAIN b.records : b.records[i].batch.ctx = c} \subseteq 1..n
          BY <3>1
        <4> QED
          BY <3>2, <4>1, FS_Subset, FS_CardinalityType
      <3>4. b.owed[c] \in Int
        BY <1>1
      <3> QED
        BY <3>3, <3>4
    <2> QED
      BY <1>5, <2>1
  <1>7. PICK u : u = Forgotten(o, b.losses, b.expired_losses)
    OBVIOUS
  <1>8. u \in [Contexts -> Int]
    BY <1>1, <1>6, <1>7, ForgottenType
  <1>9. w = [b EXCEPT !.records = <<>>, !.losses = l, !.owed = u,
                      !.expired_losses = {}, !.retry_pending = FALSE]
    BY <1>3, <1>5, <1>7 DEF Wiped
  <1> QED
    BY <1>2, <1>4, <1>8, <1>9 DEF Boxes

\* The storage stays out of order.
Broken(r) == \A n \in Nat : n > r.ops => Fails(r.outage, n)

LEMMA StorageBroken ==
  ASSUME NEW r, NEW p, Ready(r, p), Broken(r), NEW d \in Disks, NEW s, s = Storage(r, d)
  PROVE  /\ Calm(r, s, p) /\ s.box = r.box /\ s.disk = r.disk /\ Expired(s) = Expired(r)
         /\ ~s.ok
  <1>1. r \in Runs /\ r.ops \in Nat /\ r.ok \in BOOLEAN
    BY RunParts DEF Ready
  <1>2. r.ops + 1 \in Nat /\ r.ops + 1 > r.ops
    BY <1>1
  <1>3. Fails(r.outage, r.ops + 1)
    BY <1>2, Zenon DEF Broken
  <1>4. ~s.ok /\ s \in Runs /\ s.co = r.co /\ s.box = r.box /\ s.now = r.now
        /\ s.outage = r.outage /\ s.disk = r.disk /\ s.seen = r.seen
    <2>1. ~s.ok
      BY <1>1, <1>3, StorageFrame
    <2> QED
      BY <1>1, <2>1, StorageFrame
  <1>5. Known(s) = Known(r) /\ Expired(s) = Expired(r) /\ SeenOK(s, p)
    BY <1>4 DEF Known, Expired, SeenOK, Ready
  <1> QED
    BY <1>4, <1>5 DEF Calm, Ready

\* Emptying the payload file loses no intent.
PurgeSafe(r) ==
    r.disk.blocked \/ r.disk.state = None \/ r.disk.state.pending = None \/ Broken(r)

Purged(r, s, p) ==
    /\ Calm(r, s, p)
    /\ s.box.is_open => Mirror(s) /\ r.box.is_open
    /\ s.ok => r.ok /\ s.box.is_open /\ FileBatches(s.disk) = {}

LEMMA PurgeOK ==
  ASSUME NEW r, NEW p, Ready(r, p), r.box.is_open => Mirror(r), PurgeSafe(r), NEW s, s = Purge(r)
  PROVE  Purged(r, s, p)
  <1>1. r \in Runs /\ r.box \in Boxes /\ r.disk \in Disks
    BY RunParts DEF Ready
  <1>2. CASE ~r.ok
    <2>1. s = r
      BY <1>2 DEF Purge
    <2> QED
      BY <1>2, <2>1, CalmSelf DEF Purged
  <1>3. CASE r.ok /\ ~r.box.is_open
    <2>1. s = [r EXCEPT !.ok = FALSE]
      BY <1>3 DEF Purge, Failed
    <2>2. SameDisks(r, s) /\ s.box = r.box /\ s.co = r.co /\ s.ok = FALSE
      BY <1>1, <2>1, OkSet
    <2>3. Calm(r, s, p)
      BY <2>2, SameReady
    <2> QED
      BY <1>3, <2>2, <2>3 DEF Purged
  <1>4. CASE r.ok /\ r.box.is_open
    <2>1. PICK w : w = Wiped(r.box)
      OBVIOUS
    <2>2. /\ w \in Boxes /\ w.records = <<>> /\ w.is_open = r.box.is_open
          /\ w.barrier = r.box.barrier /\ w.expired_losses = {}
      BY <1>1, <2>1, WipedOK
    <2>3. PICK x : x = [r EXCEPT !.box = w]
      OBVIOUS
    <2>4. SameDisks(r, x) /\ x.box = w /\ x.co = r.co /\ x.ok = r.ok
      BY <1>1, <2>2, <2>3 DEF Runs, SameDisks
    <2>5. Ready(x, p) /\ Calm(r, x, p) /\ Expired(x) = Expired(r) /\ x.disk = r.disk
      BY <2>4, SameReady DEF SameDisks
    <2>6. PICK y : y = PersistBox(x)
      OBVIOUS
    <2>7. PICK z1 : z1 = Storage(Anyway(y), [Anyway(y).disk EXCEPT !.revoked = TRUE])
      OBVIOUS
    <2>8. PICK z2 : z2 = DeleteFile(Anyway(z1))
      OBVIOUS
    <2>9. s = IF y.ok THEN y ELSE Failed(CloseBox(z2))
      BY <1>4, <2>1, <2>3, <2>6, <2>7, <2>8 DEF Purge
    <2>10. /\ BatchesOf(w.records) = {} /\ Distinct(w.records)
           /\ \A t, es : Shows(w.records, t, es)
      BY <2>2, EmptyRecords
    <2>11. Calm(x, y, p) /\ (y.ok => Image(x, y))
      <3>1. CASE Broken(r)
        <4>1. Broken(x)
          BY <2>4, <3>1 DEF Broken, SameDisks
        <4>2. PICK f : f = FileOf(x.box, x.now)
          OBVIOUS
        <4>3. x.box \in Boxes /\ x.now \in Nat /\ x.disk \in Disks
          BY <2>5, RunParts DEF Ready
        <4>4. f \in Files
          BY <4>2, <4>3, FileOfOK
        <4>5. PICK d \in Disks : d = [x.disk EXCEPT !.file = f]
          <5>1. [x.disk EXCEPT !.file = f] \in Disks
            BY <4>3, <4>4 DEF Disks
          <5> QED
            BY <5>1
        <4>6. y = Storage(x, d)
          BY <2>6, <4>2, <4>5 DEF PersistBox
        <4> QED
          BY <2>5, <4>1, <4>6, StorageBroken
      <3>2. CASE ~Broken(r)
        <4>1. /\ BatchesOf(x.box.records) \subseteq FileBatches(x.disk)
              /\ Distinct(x.box.records)
              /\ Shows(x.box.records, x.disk.expiry, Expired(x))
          BY <2>4, <2>10
        <4>2. \/ x.disk.blocked \/ x.disk.state = None
              \/ x.disk.state.pending \notin FileBatches(x.disk) \ BatchesOf(x.box.records)
          <5>1. None \notin FileBatches(x.disk)
            BY <2>5, ReadyFacts, NoneAssumption DEF ReadyAt, FilesOK
          <5> QED
            BY <2>5, <3>2, <5>1 DEF PurgeSafe
        <4> QED
          BY <2>5, <2>6, <4>1, <4>2, RewriteOK
      <3> QED
        BY <3>1, <3>2
    <2>12. Calm(r, y, p) /\ Ready(y, p) /\ y \in Runs
      BY <2>5, <2>11, CalmChain DEF Calm, Ready
    <2>13. CASE y.ok
      <3>1. y.box = w /\ y.disk.expiry = r.disk.expiry /\ y.disk.revoked = r.disk.revoked
        BY <2>4, <2>5, <2>11, <2>13 DEF Image
      <3>2. w.barrier = y.disk.expiry /\ ~y.disk.revoked
        BY <1>4, <2>2, <3>1 DEF Mirror, Mirrors
      <3>3. Mirror(y)
        BY <2>2, <2>11, <2>12, <2>13, <3>1, <3>2, FreshMirror DEF Image
      <3>4. FileBatches(y.disk) = {}
        BY <2>10, <2>11, <2>13, <3>1 DEF Image
      <3> QED
        BY <1>4, <2>2, <2>9, <2>12, <2>13, <3>1, <3>3, <3>4 DEF Purged
    <2>14. CASE ~y.ok
      <3>1. PICK u : u = Anyway(y)
        OBVIOUS
      <3>2. SameDisks(y, u) /\ u.box = y.box /\ u.co = y.co
        BY <2>12, <3>1, OkSet DEF Anyway
      <3>3. Ready(u, p) /\ Calm(r, u, p)
        BY <2>12, <3>2, SameReady, CalmChain
      <3>4. Kept(u, z1, p)
        <4>1. PICK e \in BOOLEAN : e = TRUE
          OBVIOUS
        <4>2. z1 = Storage(u, [u.disk EXCEPT !.revoked = e])
          BY <2>7, <3>1, <4>1
        <4> QED
          BY <3>3, <4>1, <4>2, MarkOK
      <3>5. Ready(z1, p) /\ Calm(r, z1, p) /\ z1 \in Runs
        BY <3>3, <3>4, CalmChain DEF Kept, Calm, Ready
      <3>6. PICK v : v = Anyway(z1)
        OBVIOUS
      <3>7. SameDisks(z1, v) /\ v.box = z1.box /\ v.co = z1.co
        BY <3>5, <3>6, OkSet DEF Anyway
      <3>8. Ready(v, p) /\ Calm(r, v, p)
        BY <3>5, <3>7, SameReady, CalmChain
      <3>9. Kept(v, z2, p)
        BY <2>8, <3>6, <3>8, DeleteFileOK
      <3>10. Ready(z2, p) /\ Calm(r, z2, p) /\ z2 \in Runs
        BY <3>8, <3>9, CalmChain DEF Kept, Calm, Ready
      <3>11. PICK c \in Boxes : c = ClosedBox /\ c.is_open = FALSE
        BY ClosedBoxOK DEF Shut
      <3>12. PICK a : a = [z2 EXCEPT !.box = c]
        OBVIOUS
      <3>13. SameDisks(z2, a) /\ a.box = c /\ a.co = z2.co /\ a \in Runs
        BY <3>10, <3>11, <3>12 DEF Runs, SameDisks
      <3>14. Ready(a, p) /\ Calm(r, a, p)
        BY <3>10, <3>13, SameReady, CalmChain
      <3>15. s = [a EXCEPT !.ok = FALSE]
        BY <2>9, <2>14, <3>11, <3>12 DEF Failed, CloseBox
      <3>16. SameDisks(a, s) /\ s.box = a.box /\ s.co = a.co /\ s.ok = FALSE
        BY <3>13, <3>15, OkSet
      <3>17. Calm(r, s, p)
        BY <3>14, <3>16, SameReady, CalmChain
      <3> QED
        BY <3>11, <3>13, <3>16, <3>17 DEF Purged
    <2> QED
      BY <2>13, <2>14
  <1> QED
    BY <1>2, <1>3, <1>4

-----------------------------------------------------------------------------
(* acknowledge *)

LEMMA RemovedOK ==
  ASSUME NEW a \in Seq(Records), NEW i \in DOMAIN a, NEW q, q = RemoveAt(a, i)
  PROVE  /\ q \in Seq(Records) /\ BatchesOf(q) \subseteq BatchesOf(a)
         /\ Distinct(a) => Distinct(q)
         /\ \A t, es : Shows(a, t, es) => Shows(q, t, es)
  <1>1. PICK n \in Nat : n = Len(a) /\ DOMAIN a = 1..n
    OBVIOUS
  <1>2. PICK x : x = SubSeq(a, 1, i - 1)
    OBVIOUS
  <1>3. PICK y : y = SubSeq(a, i + 1, n)
    OBVIOUS
  <1>4. q = x \o y
    BY <1>1, <1>2, <1>3 DEF RemoveAt
  <1>5. x \in Seq(Records) /\ Len(x) = i - 1 /\ \A k \in 1..(i - 1) : x[k] = a[k]
    BY <1>1, <1>2
  <1>6. y \in Seq(Records) /\ Len(y) = n - i /\ \A k \in 1..(n - i) : y[k] = a[k + i]
    BY <1>1, <1>3
  <1>7. q \in Seq(Records) /\ Len(q) = n - 1
    BY <1>1, <1>4, <1>5, <1>6
  <1>8. ASSUME NEW k \in 1..(n - 1) PROVE q[k] = IF k < i THEN a[k] ELSE a[k + 1]
    <2>1. CASE k < i
      BY <1>1, <1>4, <1>5, <1>6, <2>1
    <2>2. CASE ~(k < i)
      <3>1. PICK j \in 1..(n - i) : j = k - (i - 1)
        BY <1>1, <2>2
      <3>2. q[k] = y[j]
        BY <1>1, <1>4, <1>5, <1>6, <2>2, <3>1
      <3>3. y[j] = a[j + i] /\ j + i = k + 1
        BY <1>1, <1>6, <3>1
      <3> QED
        BY <2>2, <3>2, <3>3
    <2> QED
      BY <2>1, <2>2
  <1>9. PICK g : g = [k \in 1..(n - 1) |-> IF k < i THEN k ELSE k + 1]
    OBVIOUS
  <1>10. /\ \A k \in 1..(n - 1) : g[k] \in 1..n /\ q[k] = a[g[k]]
         /\ \A k, l \in 1..(n - 1) : g[k] = g[l] => k = l
    <2>1. \A k \in 1..(n - 1) : g[k] \in 1..n /\ q[k] = a[g[k]]
      BY <1>1, <1>8, <1>9
    <2>2. \A k, l \in 1..(n - 1) : g[k] = g[l] => k = l
      BY <1>1, <1>9
    <2> QED
      BY <2>1, <2>2
  <1>11. DOMAIN q = 1..(n - 1)
    BY <1>7
  <1>12. BatchesOf(q) \subseteq BatchesOf(a)
    BY <1>1, <1>10, <1>11 DEF BatchesOf
  <1>13. Distinct(a) => Distinct(q)
    BY <1>1, <1>10, <1>11 DEF Distinct
  <1>14. \A t, es : Shows(a, t, es) => Shows(q, t, es)
    BY <1>1, <1>10, <1>11 DEF Shows
  <1> QED
    BY <1>7, <1>12, <1>13, <1>14

\* The answer to a batch.
Answers == {"accepted", "duplicate", "rejected", "conflict", "unavailable"}

\* The box a is b, without records or with other flags.
Fewer(a, b) ==
    /\ SameShell(a, b) /\ BatchesOf(a.records) \subseteq BatchesOf(b.records)
    /\ Distinct(b.records) => Distinct(a.records)
    /\ \A t, es : Shows(b.records, t, es) => Shows(a.records, t, es)

\* Other flags of one record.
LEMMA FlagsOK ==
  ASSUME NEW b \in Boxes, NEW i \in DOMAIN b.records, NEW e \in BOOLEAN, NEW f \in BOOLEAN,
         NEW a, a = [b EXCEPT !.records[i].in_flight = e, !.records[i].waiting = f]
  PROVE  SameShell(a, b) /\ Alike(a.records, b.records) /\ a.losses = b.losses
  <1>1. b.records \in Seq(Records)
    BY BoxParts
  <1>2. b.records[i] \in Records
    BY <1>1
  <1>3. PICK rec : rec = [b.records[i] EXCEPT !.in_flight = e, !.waiting = f]
    OBVIOUS
  <1>4. rec \in Records /\ Twin(rec, b.records[i])
    BY <1>2, <1>3, RecordFlight
  <1>5. PICK q : q = [b.records EXCEPT ![i] = rec]
    OBVIOUS
  <1>6. q \in Seq(Records) /\ Len(q) = Len(b.records) /\ DOMAIN q = DOMAIN b.records
    BY <1>1, <1>4, <1>5
  <1>7. \A k \in 1..Len(q) : Twin(q[k], b.records[k])
    <2>1. \A k \in DOMAIN q : q[k] = IF k = i THEN rec ELSE b.records[k]
      BY <1>5, <1>6
    <2>2. DOMAIN q = 1..Len(q)
      BY <1>6
    <2> QED
      BY <1>4, <2>1, <2>2 DEF Twin
  <1>8. a = [b EXCEPT !.records = q]
    <2>1. PICK u : u = [b.records[i] EXCEPT !.in_flight = e]
      OBVIOUS
    <2>2. PICK v : v = [b.records EXCEPT ![i] = u]
      OBVIOUS
    <2>3. PICK c : c = [b EXCEPT !.records = v]
      OBVIOUS
    <2>4. c = [b EXCEPT !.records[i].in_flight = e]
      BY <2>1, <2>2, <2>3
    <2>5. a = [c EXCEPT !.records[i].waiting = f]
      BY <2>4
    <2>6. c.records = v /\ v[i] = u
      BY <2>2, <2>3 DEF Boxes
    <2>7. [v EXCEPT ![i] = [u EXCEPT !.waiting = f]] = q
      BY <1>1, <1>3, <1>5, <2>1, <2>2
    <2>8. a = [c EXCEPT !.records = q]
      BY <2>5, <2>6, <2>7
    <2> QED
      BY <2>3, <2>8 DEF Boxes
  <1>9. SameShell(a, b) /\ a.records = q /\ a.losses = b.losses
    BY <1>6, <1>8 DEF Boxes, SameShell
  <1> QED
    BY <1>1, <1>6, <1>7, <1>9 DEF Alike

LEMMA RetiredOK ==
  ASSUME NEW b \in Boxes, NEW i \in DOMAIN b.records, NEW a, a = Retired(b, i)
  PROVE  Fewer(a, b) /\ a.losses = b.losses /\ a.owed = b.owed
  <1>1. b.records \in Seq(Records)
    BY BoxParts
  <1>2. PICK q : q = RemoveAt(b.records, i)
    OBVIOUS
  <1>3. /\ q \in Seq(Records) /\ BatchesOf(q) \subseteq BatchesOf(b.records)
        /\ Distinct(b.records) => Distinct(q)
        /\ \A t, es : Shows(b.records, t, es) => Shows(q, t, es)
    BY <1>1, <1>2, RemovedOK
  <1>4. a = [b EXCEPT !.records = q]
    BY <1>2 DEF Retired
  <1>5. SameShell(a, b) /\ a.records = q /\ a.losses = b.losses /\ a.owed = b.owed
    BY <1>3, <1>4 DEF Boxes, SameShell
  <1> QED
    BY <1>3, <1>5 DEF Fewer

LEMMA AnsweredOK ==
  ASSUME NEW b \in Boxes, NEW i \in DOMAIN b.records, NEW k \in Answers, NEW t \in Nat, NEW a,
         a = Answered(b, i, k, t)
  PROVE  Fewer(a, b)
  <1>1. PICK x : x = Retired(b, i)
    OBVIOUS
  <1>2. Fewer(x, b) /\ x.losses = b.losses /\ x.owed = b.owed /\ x \in Boxes
    BY <1>1, RetiredOK DEF Fewer, SameShell
  <1>3. PICK c \in Contexts : c = b.records[i].batch.ctx
    <2>1. b.records \in Seq(Records)
      BY BoxParts
    <2>2. b.records[i] \in Records
      BY <2>1
    <2>3. b.records[i].batch \in Batches
      BY <2>2 DEF Records
    <2> QED
      BY <2>3 DEF Batches
  <1>4. CASE k = "unavailable"
    <2>1. a = [b EXCEPT !.records[i].in_flight = FALSE, !.records[i].waiting = TRUE]
      BY <1>4 DEF Answered
    <2>2. PICK e \in BOOLEAN, f \in BOOLEAN : e = FALSE /\ f = TRUE
      OBVIOUS
    <2>3. a = [b EXCEPT !.records[i].in_flight = e, !.records[i].waiting = f]
      BY <2>1, <2>2
    <2>4. SameShell(a, b) /\ Alike(a.records, b.records)
      BY <2>3, FlagsOK
    <2> QED
      BY <2>4, AlikeSame DEF Fewer
  <1>5. CASE k \in {"accepted", "duplicate"}
    <2>1. a = Accepted(b, i)
      BY <1>5 DEF Answered
    <2>2. x.owed \in [Contexts -> Int]
      BY <1>2, BoxParts
    <2>3. PICK o : o = [x.owed EXCEPT ![c] = @ - 1]
      OBVIOUS
    <2>4. o \in [Contexts -> Int]
      <3>1. x.owed[c] - 1 \in Int
        BY <2>2
      <3> QED
        BY <2>2, <2>3, <3>1
    <2>5. a = [x EXCEPT !.owed = o]
      BY <1>1, <1>3, <2>1, <2>3 DEF Accepted, Settled
    <2>6. SameShell(a, x) /\ a.records = x.records
      BY <1>2, <2>4, <2>5 DEF Boxes, SameShell
    <2> QED
      BY <1>2, <2>6 DEF Fewer, SameShell
  <1>6. CASE k \in {"rejected", "conflict"}
    <2>1. a = CountedLoss(x, c, k, t)
      BY <1>1, <1>3, <1>6 DEF Answered
    <2>2. x.losses \in LossTables
      BY <1>2, BoxParts
    <2>3. PICK y \in Losses : y = Counted(LossOf(x.losses, c), k, t)
      <3>1. PICK u \in Losses : u = LossOf(x.losses, c)
        BY <2>2, TableParts
      <3>2. Counted(u, k, t) \in Losses
        BY <1>6, CountedOK
      <3> QED
        BY <3>1, <3>2
    <2>4. PICK l : l = SetLoss(x.losses, c, y)
      OBVIOUS
    <2>5. l \in LossTables
      BY <2>2, <2>4, TableSet
    <2>6. a = [x EXCEPT !.losses = l]
      BY <2>1, <2>3, <2>4 DEF CountedLoss
    <2>7. SameShell(a, x) /\ a.records = x.records
      BY <1>2, <2>5, <2>6 DEF Boxes, SameShell
    <2> QED
      BY <1>2, <2>7 DEF Fewer, SameShell
  <1> QED
    BY <1>4, <1>5, <1>6 DEF Answers

\* The outbox was touched without a new batch.
Touched(r, s, p) ==
    /\ Calm(r, s, p) /\ s.box.is_open = r.box.is_open
    /\ s.box.is_open => Mirror(s)
    /\ s.ok => r.ok

LEMMA AcknowledgeOK ==
  ASSUME NEW r, NEW p, Ready(r, p), r.box.is_open => Mirror(r),
         r.ok => r.disk.state # None /\ r.disk.state.pending = None,
         NEW b, NEW k \in Answers, NEW s, s = Acknowledge(r, b, k)
  PROVE  Touched(r, s, p)
  <1>1. PICK x : x = IF r.box.is_open /\ r.box.retry_pending
                     THEN PruneExpired(r, r.now, FALSE) ELSE r
    OBVIOUS
  <1>2. Touched(r, x, p)
    <2>1. CASE r.box.is_open /\ r.box.retry_pending
      <3>1. r.now \in Nat
        BY RunParts DEF Ready
      <3>2. Swept(r, x, p)
        BY <1>1, <2>1, <3>1, PruneExpiredOK
      <3> QED
        BY <3>2 DEF Swept, Touched
    <2>2. CASE ~(r.box.is_open /\ r.box.retry_pending)
      BY <1>1, <2>2, CalmSelf DEF Touched
    <2> QED
      BY <2>1, <2>2
  <1>3. PICK at : at = {i \in DOMAIN x.box.records : x.box.records[i].batch = b}
    OBVIOUS
  <1>4. PICK i : i = CHOOSE j \in at : TRUE
    OBVIOUS
  <1>5. s = IF x.ok /\ x.box.is_open /\ at # {}
            THEN IF k \in {"rejected", "conflict"} /\ ~HasRoom(x.box.losses, b.ctx)
                 THEN Failed(x)
                 ELSE PersistOrRestore(x, Answered(x.box, i, k, x.now))
            ELSE x
    BY <1>1, <1>3, <1>4 DEF Acknowledge
  <1>6. Ready(x, p) /\ x \in Runs /\ x.box \in Boxes /\ x.now \in Nat
    BY <1>2, RunParts DEF Touched, Calm, Ready
  <1>7. CASE ~(x.ok /\ x.box.is_open /\ at # {})
    BY <1>2, <1>5, <1>7
  <1>8. CASE /\ x.ok /\ x.box.is_open /\ at # {}
             /\ k \in {"rejected", "conflict"} /\ ~HasRoom(x.box.losses, b.ctx)
    <2>1. s = [x EXCEPT !.ok = FALSE]
      BY <1>5, <1>8 DEF Failed
    <2>2. SameDisks(x, s) /\ s.box = x.box /\ s.co = x.co /\ s.ok = FALSE
      BY <1>6, <2>1, OkSet
    <2>3. Calm(x, s, p) /\ Expired(s) = Expired(x) /\ s.disk = x.disk
      BY <1>6, <2>2, SameReady DEF SameDisks
    <2>4. Calm(r, s, p) /\ Mirror(s)
      BY <1>2, <1>8, <2>2, <2>3, CalmChain DEF Touched, Mirror
    <2> QED
      BY <1>2, <2>2, <2>4 DEF Touched
  <1>9. CASE /\ x.ok /\ x.box.is_open /\ at # {}
             /\ ~(k \in {"rejected", "conflict"} /\ ~HasRoom(x.box.losses, b.ctx))
    <2>1. i \in DOMAIN x.box.records
      BY <1>3, <1>4, <1>9
    <2>2. PICK a : a = Answered(x.box, i, k, x.now)
      OBVIOUS
    <2>3. Fewer(a, x.box)
      BY <1>6, <2>1, <2>2, AnsweredOK
    <2>4. s = PersistOrRestore(x, a)
      BY <1>5, <1>9, <2>2
    <2>5. Mirrors(x.box, x.disk, Expired(x))
      BY <1>2, <1>9 DEF Touched, Mirror
    <2>6. x.disk.state # None /\ x.disk.state.pending = None
      BY <1>2, <1>9 DEF Touched, Calm
    <2>7. None \notin BatchesOf(x.box.records)
      <3>1. None \notin FileBatches(x.disk)
        BY <1>6, ReadyFacts, NoneAssumption DEF ReadyAt, FilesOK
      <3> QED
        BY <2>5, <3>1 DEF Mirrors, FileBatches
    <2>8. /\ a \in Boxes /\ a.barrier = x.box.barrier /\ a.is_open = x.box.is_open
          /\ a.expired_losses # {} => a.retry_pending
          /\ BatchesOf(a.records) \subseteq BatchesOf(x.box.records) /\ Distinct(a.records)
          /\ Shows(a.records, x.disk.expiry, Expired(x))
      BY <2>3, <2>5 DEF Fewer, SameShell, Mirrors
    <2>9. Replaced(x, s, a, p)
      <3>1. x.disk.state.pending \notin BatchesOf(x.box.records) \ BatchesOf(a.records)
        BY <2>6, <2>7
      <3> QED
        BY <1>6, <1>9, <2>4, <2>5, <2>8, <3>1, ReplaceOK DEF Mirror
    <2>10. Calm(r, s, p)
      BY <1>2, <2>9, CalmChain DEF Touched, Replaced
    <2>11. s.box.is_open = x.box.is_open
      BY <2>8, <2>9 DEF Replaced
    <2> QED
      BY <1>2, <1>9, <2>9, <2>10, <2>11 DEF Touched, Replaced
  <1> QED
    BY <1>7, <1>8, <1>9

-----------------------------------------------------------------------------
(* enqueue *)

\* The box a is b with the batch k at its end.
Longer(a, b, k) ==
    /\ SameShell(a, b) /\ BatchesOf(a.records) = BatchesOf(b.records) \cup {k}
    /\ Distinct(b.records) => Distinct(a.records)
    /\ \A t, es : Shows(b.records, t, es) /\ k \notin es => Shows(a.records, t, es)

LEMMA InsertedOK ==
  ASSUME NEW b \in Boxes, NEW k \in Batches, NEW t \in Nat \ {0}, CanEnqueue(b, k), NEW a,
         a = [b EXCEPT !.records = Append(@, Record(k, t)), !.losses = Reserved(b, k.ctx),
                       !.owed = Owing(@, k.ctx)]
  PROVE  Longer(a, b, k)
  <1>1. /\ b.records \in Seq(Records) /\ b.losses \in LossTables
        /\ b.owed \in [Contexts -> Int]
    BY BoxParts
  <1>2. PICK c \in Contexts : c = k.ctx
    BY DEF Batches
  <1>3. PICK rec : rec = Record(k, t)
    OBVIOUS
  <1>4. rec \in Records /\ rec.batch = k
    BY <1>3 DEF Record, Records
  <1>5. PICK q : q = Append(b.records, rec)
    OBVIOUS
  <1>6. PICK n \in Nat : n = Len(b.records) /\ DOMAIN b.records = 1..n
    BY <1>1
  <1>7. /\ q \in Seq(Records) /\ q[n + 1] = rec /\ DOMAIN q = 1..(n + 1)
        /\ \A i \in 1..n : q[i] = b.records[i]
    BY <1>1, <1>4, <1>5, <1>6
  <1>8. PICK l : l = Reserved(b, c)
    OBVIOUS
  <1>9. l \in LossTables
    <2>1. PICK ks : ks = (DOMAIN b.losses
                            \ (IF HasRoom(b.losses, c) THEN {}
                               ELSE {CHOOSE j \in UnusedSlots(b) : TRUE})) \cup {c}
      OBVIOUS
    <2>2. l = [j \in ks |-> LossOf(b.losses, j)]
      BY <1>8, <2>1 DEF Reserved
    <2>3. ks \in SUBSET Contexts
      BY <1>1, <2>1, TableParts
    <2>4. \A j : LossOf(b.losses, j) \in Losses
      BY <1>1, TableParts
    <2>5. l \in [ks -> Losses]
      BY <2>2, <2>4
    <2> QED
      BY <2>3, <2>5, TableMade
  <1>10. PICK o : o = [b.owed EXCEPT ![c] = @ + 1]
    OBVIOUS
  <1>11. o \in [Contexts -> Int]
    <2>1. b.owed[c] + 1 \in Int
      BY <1>1
    <2> QED
      BY <1>1, <1>10, <2>1
  <1>12. a = [b EXCEPT !.records = q, !.losses = l, !.owed = o]
    BY <1>2, <1>3, <1>5, <1>8, <1>10 DEF Owing
  <1>13. SameShell(a, b) /\ a.records = q
    BY <1>7, <1>9, <1>11, <1>12 DEF Boxes, SameShell
  <1>14. \A i : i \in 1..(n + 1) <=> i \in 1..n \/ i = n + 1
    BY <1>6
  <1>15. BatchesOf(q) = BatchesOf(b.records) \cup {k}
    BY <1>4, <1>6, <1>7, <1>14 DEF BatchesOf
  <1>16. ASSUME Distinct(b.records) PROVE Distinct(q)
    <2>1. \A i \in 1..n : ~SameIdentity(q[i].batch, k) /\ ~SameIdentity(k, q[i].batch)
      BY <1>6, <1>7 DEF CanEnqueue, SameIdentity
    <2>2. \A i, j \in 1..n : SameIdentity(q[i].batch, q[j].batch) => i = j
      BY <1>6, <1>7, <1>16 DEF Distinct
    <2> QED
      BY <1>4, <1>7, <1>14, <2>1, <2>2, Zenon DEF Distinct
  <1>17. ASSUME NEW u, NEW es, Shows(b.records, u, es), k \notin es PROVE Shows(q, u, es)
    BY <1>4, <1>6, <1>7, <1>14, <1>17 DEF Shows
  <1> QED
    BY <1>13, <1>15, <1>16, <1>17 DEF Longer

\* The batch b may have entered the outbox.
Enqueued(r, s, b) ==
    /\ Ready(s, prods)
    /\ s.co = r.co /\ s.now = r.now /\ s.outage = r.outage
    /\ s.disk.state = r.disk.state /\ s.disk.blocked = r.disk.blocked
    /\ s.box.is_open = r.box.is_open /\ (s.box.is_open => Mirror(s))
    /\ s.ok => r.ok
    /\ FileBatches(s.disk) \subseteq FileBatches(r.disk) \cup {b}
    /\ Known(s) \subseteq Known(r) \cup {b}
    /\ Expired(s) \subseteq Expired(r) \cup FileBatches(r.disk) /\ b \notin Expired(s)

LEMMA EnqueueOK ==
  ASSUME NEW r, prods \in Nat, Ready(r, prods), r.box.is_open => Mirror(r), r.ok,
         r.disk.state # None, NEW b \in Batches, b = r.disk.state.pending, b \notin Expired(r),
         b \notin BatchesOf(r.box.records), NEW s, s = Enqueue(r, b)
  PROVE  Enqueued(r, s, b)
  <1>1. r \in Runs /\ r.now \in Nat \ {0}
    BY RunParts DEF Ready
  <1>2. CASE ~r.box.is_open
    <2>1. s = [r EXCEPT !.ok = FALSE]
      BY <1>2 DEF Enqueue, Failed
    <2>2. SameDisks(r, s) /\ s.box = r.box /\ s.co = r.co /\ s.ok = FALSE
      BY <1>1, <2>1, OkSet
    <2>3. Calm(r, s, prods) /\ Expired(s) = Expired(r)
      BY <2>2, SameReady
    <2> QED
      BY <1>2, <2>2, <2>3 DEF Enqueued, Calm
  <1>3. CASE r.box.is_open
    <2>1. PICK x : x = IF r.box.retry_pending \/ r.box.barrier # 0
                       THEN PruneExpired(r, r.now, FALSE) ELSE r
      OBVIOUS
    <2>2. PICK a : a = [x.box EXCEPT !.records = Append(@, Record(b, x.now)),
                                     !.losses = Reserved(x.box, b.ctx),
                                     !.owed = Owing(@, b.ctx)]
      OBVIOUS
    <2>3. s = IF x.ok /\ CanEnqueue(x.box, b) THEN PersistOrRestore(x, a) ELSE Failed(x)
      BY <1>3, <2>1, <2>2 DEF Enqueue
    <2>4. /\ Touched(r, x, prods) /\ x.box.is_open /\ Mirror(x)
          /\ x.ok => x.box.barrier = 0
      <3>1. CASE r.box.retry_pending \/ r.box.barrier # 0
        <4>1. Swept(r, x, prods)
          BY <1>1, <1>3, <2>1, <3>1, PruneExpiredOK
        <4> QED
          BY <1>3, <4>1 DEF Swept, Touched
      <3>2. CASE ~(r.box.retry_pending \/ r.box.barrier # 0)
        BY <1>3, <2>1, <3>2, CalmSelf DEF Touched
      <3> QED
        BY <3>1, <3>2
    <2>5. /\ Ready(x, prods) /\ Calm(r, x, prods) /\ x \in Runs /\ x.box \in Boxes
          /\ x.now \in Nat \ {0} /\ x.disk \in Disks
      BY <2>4, RunParts DEF Touched, Calm, Ready
    <2>6. b \notin Expired(x)
      <3>1. b \notin FileBatches(r.disk)
        BY <1>3 DEF Mirror, Mirrors, FileBatches
      <3> QED
        BY <2>5, <3>1 DEF Calm
    <2>7. CASE ~(x.ok /\ CanEnqueue(x.box, b))
      <3>1. s = [x EXCEPT !.ok = FALSE]
        BY <2>3, <2>7 DEF Failed
      <3>2. SameDisks(x, s) /\ s.box = x.box /\ s.co = x.co /\ s.ok = FALSE
        BY <2>5, <3>1, OkSet
      <3>3. Calm(x, s, prods) /\ Expired(s) = Expired(x) /\ s.disk = x.disk
        BY <2>5, <3>2, SameReady DEF SameDisks
      <3>4. Calm(r, s, prods) /\ Mirror(s)
        BY <2>4, <2>5, <3>2, <3>3, CalmChain DEF Mirror
      <3> QED
        BY <2>4, <2>6, <3>2, <3>3, <3>4 DEF Enqueued, Calm, Touched
    <2>8. CASE x.ok /\ CanEnqueue(x.box, b)
      <3>1. Longer(a, x.box, b)
        BY <2>2, <2>5, <2>8, InsertedOK
      <3>2. PICK w : w = [x EXCEPT !.box = a]
        OBVIOUS
      <3>3. SameDisks(x, w) /\ w.box = a /\ w.co = x.co /\ w.ok = x.ok /\ a \in Boxes
        BY <2>5, <3>1, <3>2 DEF Runs, SameDisks, Longer, SameShell
      <3>4. Ready(w, prods) /\ Calm(x, w, prods) /\ Expired(w) = Expired(x) /\ w.disk = x.disk
            /\ Known(w) = Known(x) /\ w.now = x.now
        BY <2>5, <3>3, SameReady DEF SameDisks
      <3>5. PICK f : f = FileOf(a, w.now)
        OBVIOUS
      <3>6. f \in Files /\ Alike(f.records, a.records) /\ f.losses = a.losses
        BY <2>5, <3>3, <3>4, <3>5, FileOfOK
      <3>7. PICK d : d = [w.disk EXCEPT !.file = f]
        OBVIOUS
      <3>8. PICK y : y = Storage(w, d)
        OBVIOUS
      <3>9. s = IF y.ok THEN y ELSE [y EXCEPT !.box = x.box]
        BY <2>3, <2>8, <3>2, <3>3, <3>5, <3>7, <3>8
           DEF PersistOrRestore, RestoreUnless, PersistBox
      <3>10. /\ d.file = f /\ d.expiry = x.disk.expiry /\ d.revoked = x.disk.revoked
             /\ d.state = x.disk.state /\ d.blocked = x.disk.blocked /\ f # None
        BY <2>5, <3>4, <3>6, <3>7, FileParts DEF Disks
      <3>11. Mirrors(x.box, x.disk, Expired(x))
        BY <2>4 DEF Mirror
      <3>12. /\ BatchesOf(a.records) = FileBatches(w.disk) \cup {b} /\ Distinct(a.records)
             /\ Shows(a.records, w.disk.expiry, Expired(w))
        <4>1. FileBatches(w.disk) = BatchesOf(x.box.records)
          BY <3>4, <3>11 DEF Mirrors, FileBatches
        <4>2. Distinct(x.box.records) /\ Shows(x.box.records, w.disk.expiry, Expired(w))
          BY <3>4, <3>11 DEF Mirrors
        <4> QED
          BY <2>6, <3>1, <3>4, <4>1, <4>2 DEF Longer
      <3>13. Wrote(w, y, d, prods)
        <4>1. /\ BatchesOf(f.records) = FileBatches(w.disk) \cup {b} /\ Distinct(f.records)
              /\ Shows(f.records, w.disk.expiry, Expired(w))
          BY <3>6, <3>12, AlikeSame
        <4>2. /\ w.disk.file # None /\ w.disk.state # None /\ b = w.disk.state.pending
              /\ b # None /\ b \notin Expired(w)
          BY <2>5, <2>6, <3>4, <3>11, NoneAssumption DEF Mirrors, Calm
        <4>3. Follows(w, d, prods)
          BY <3>4, <3>6, <3>7, <4>1, <4>2, InsertFollows
        <4> QED
          BY <3>4, <3>8, <4>3, StorageOK
      <3>14. CASE y.ok
        <4>1. /\ s = y /\ Ready(s, prods) /\ s.co = x.co /\ s.now = x.now
              /\ s.outage = x.outage /\ s.box = a /\ s.disk = d
              /\ Known(s) = Known(x) \cup FileBatches(d) /\ Expired(s) \subseteq After(w, d)
          BY <3>3, <3>4, <3>9, <3>13, <3>14 DEF Wrote, Calm
        <4>2. FileBatches(d) = FileBatches(x.disk) \cup {b}
          BY <3>4, <3>6, <3>10, <3>12, AlikeSame DEF FileBatches
        <4>3. FileBatches(x.disk) \subseteq Known(x)
          BY <2>5, ReadyFacts DEF ReadyAt, FilesOK
        <4>4. Known(s) \subseteq Known(r) \cup {b}
          BY <2>5, <4>1, <4>2, <4>3 DEF Calm
        <4>5. BarredOnDisk(d) = {}
          BY <2>4, <2>8, <3>10, <3>11 DEF BarredOnDisk, Mirrors
        <4>6. Expired(s) \subseteq Expired(x)
          BY <3>4, <4>1, <4>5 DEF After
        <4>7. Mirror(s)
          <5>1. /\ a.barrier = d.expiry /\ ~d.revoked
                /\ a.expired_losses # {} => a.retry_pending
            BY <3>1, <3>10, <3>11 DEF Mirrors, Longer, SameShell
          <5> QED
            BY <3>6, <3>10, <4>1, <5>1, FreshMirror
        <4>8. s.box.is_open = r.box.is_open
          BY <1>3, <2>4, <3>1, <4>1 DEF Longer, SameShell
        <4>9. /\ s.co = r.co /\ s.now = r.now /\ s.outage = r.outage
              /\ s.disk.state = r.disk.state /\ s.disk.blocked = r.disk.blocked
          BY <2>5, <3>10, <4>1 DEF Calm
        <4>10. /\ FileBatches(s.disk) \subseteq FileBatches(r.disk) \cup {b}
               /\ Expired(s) \subseteq Expired(r) \cup FileBatches(r.disk)
               /\ b \notin Expired(s)
          BY <2>5, <2>6, <4>1, <4>2, <4>6 DEF Calm
        <4> QED
          BY <4>1, <4>4, <4>7, <4>8, <4>9, <4>10 DEF Enqueued
      <3>15. CASE ~y.ok
        <4>1. s = [y EXCEPT !.box = x.box] /\ y \in Runs /\ Ready(y, prods)
          BY <3>9, <3>13, <3>15 DEF Wrote, Ready
        <4>2. SameDisks(y, s) /\ s.box = x.box /\ s.co = y.co /\ s.ok = y.ok
          BY <2>5, <4>1, BoxSet
        <4>3. Ready(s, prods) /\ Expired(s) = Expired(y) /\ s.disk = y.disk
              /\ Known(s) = Known(y) /\ s.now = y.now /\ s.outage = y.outage
          BY <4>1, <4>2, SameReady DEF SameDisks
        <4>4. /\ y.disk = x.disk /\ Known(y) = Known(x) /\ Expired(y) = Expired(x)
              /\ y.co = x.co /\ y.now = x.now /\ y.outage = x.outage
          BY <3>3, <3>4, <3>13, <3>15 DEF Wrote, Calm
        <4>5. Mirror(s)
          BY <3>11, <4>2, <4>3, <4>4 DEF Mirror
        <4> QED
          BY <2>4, <2>5, <2>6, <3>15, <4>2, <4>3, <4>4, <4>5 DEF Enqueued, Calm, Touched
      <3> QED
        BY <3>14, <3>15
    <2> QED
      BY <2>7, <2>8
  <1> QED
    BY <1>2, <1>3

-----------------------------------------------------------------------------
(* The coordinator. *)

LEMMA CoParts ==
  ASSUME NEW c \in Coordinators
  PROVE  /\ c.is_open \in BOOLEAN /\ c.ctx \in Contexts \cup {None} /\ c.life \in LifecycleStates
         /\ c.archive \in SUBSET Contexts /\ c.prod \in Nat /\ c.seq \in Nat
         /\ c.pending \in Batches \cup {None} /\ c.started \in Nat
         /\ c.dirty \in BOOLEAN /\ c.cleanup \in BOOLEAN
  BY DEF Coordinators

\* A disk that bars no more than the disk of the run brings nothing to revive.
LEMMA SameBarred ==
  ASSUME NEW r, NEW p, Ready(r, p), NEW d, BarredOnDisk(d) \subseteq BarredOnDisk(r.disk)
  PROVE  After(r, d) \subseteq Expired(r)
  <1>1. r \in Runs /\ SeenOK(r, p)
    BY DEF Ready
  <1>2. PICK n \in Nat : n = Len(r.seen) /\ n \in 1..n /\ r.seen[n] = r.disk
    <2>1. Len(r.seen) \in Nat
      BY <1>1, RunParts
    <2> QED
      BY <1>1, <2>1 DEF SeenOK
  <1>3. BarredOnDisk(r.disk) \subseteq BarredAt(r.seen, n)
    BY <1>2 DEF BarredAt
  <1> QED
    BY <1>2, <1>3 DEF After, Expired, ExpiredAtStep

\* A run whose coordinator knows what the files know, but for the expiry of
\* its intent.
Near(r, p) == Ready(r, p) /\ (r.box.is_open => Mirror(r)) /\ Bound(r, p)

LEMMA GoodIsNear ==
  ASSUME NEW r, NEW p
  PROVE  Good(r, p) <=> Near(r, p) /\ r.co.pending \notin Expired(r)
  BY DEF Good, Near, BoxOK, Ready

\* The coordinators agree but for dirty and cleanup.
SameMind(x, y) ==
    /\ x.is_open = y.is_open /\ x.ctx = y.ctx /\ x.life = y.life /\ x.archive = y.archive
    /\ x.prod = y.prod /\ x.seq = y.seq /\ x.pending = y.pending /\ x.started = y.started

LEMMA SameMindSelf ==
  ASSUME NEW x
  PROVE  SameMind(x, x)
  BY DEF SameMind

\* What a state needs to be bound, seen by coordinators of the same mind.
LEMMA SameMindFits ==
  ASSUME NEW x, NEW y, SameMind(x, y)
  PROVE  /\ \A p, bs : StateFits(x, p, bs) <=> StateFits(y, p, bs)
         /\ RevokedBy(x) = RevokedBy(y) /\ (IsRevoked(x) <=> IsRevoked(y))
         /\ \A b : Fits(x, b) <=> Fits(y, b)
         /\ \A m : Saved(x, m) <=> Saved(y, m)
  BY DEF SameMind, StateFits, Shaped, Before, RevokedBy, IsRevoked, Fits, Saved

\* A coordinator without an intent stays good under steps of its outbox.
LEMMA CalmGood ==
  ASSUME NEW r, NEW s, NEW p, Good(r, p), Calm(r, s, p), s.box.is_open => Mirror(s),
         r.co.cleanup \/ s.box.is_open, r.co.pending = None
  PROVE  Good(s, p)
  <1>1. Bound(s, p)
    BY DEF Good, Bound, Calm
  <1>2. None \notin Expired(s)
    BY ReadyFacts DEF ReadyAt, Calm
  <1> QED
    BY <1>1, <1>2 DEF Good, BoxOK, Calm, Ready

\* The result may be set at will.
LEMMA OkGood ==
  ASSUME NEW r, NEW p, Good(r, p), NEW e \in BOOLEAN, NEW s, s = [r EXCEPT !.ok = e]
  PROVE  Good(s, p) /\ s.co = r.co /\ s.box = r.box /\ s.disk = r.disk /\ s.ok = e
         /\ s.now = r.now /\ s.outage = r.outage /\ s.ops = r.ops
  <1>1. Ready(r, p) /\ r \in Runs
    BY DEF Good, BoxOK, Ready
  <1>2. SameDisks(r, s) /\ s.box = r.box /\ s.co = r.co /\ s.ok = e
    BY <1>1, OkSet
  <1>3. Ready(s, p) /\ Known(s) = Known(r) /\ Expired(s) = Expired(r) /\ s.disk = r.disk
    BY <1>1, <1>2, SameReady DEF SameDisks
  <1>4. Good(s, p)
    BY <1>2, <1>3 DEF Good, BoxOK, Ready, Bound, Mirror
  <1> QED
    BY <1>2, <1>3, <1>4 DEF SameDisks

\* The state file holds what the coordinator knows.
LEMMA StateOfOK ==
  ASSUME NEW c \in Coordinators, NEW x, x = StateOf(c)
  PROVE  /\ x \in States /\ Saved(c, x) /\ RevokedBy(x) = RevokedBy(c)
         /\ x.life = c.life /\ x.pending = c.pending
         /\ \A p, bs : StateFits(c, p, bs) => StateFits(x, p, bs)
         /\ \A b : Fits(c, b) => Fits(x, b)
  <1>1. /\ x.ctx = c.ctx /\ x.life = c.life /\ x.archive = c.archive /\ x.prod = c.prod
        /\ x.seq = c.seq /\ x.pending = c.pending /\ x.started = c.started
    BY DEF StateOf
  <1>2. x \in States
    BY CoParts DEF StateOf, States
  <1>3. Saved(c, x) /\ RevokedBy(x) = RevokedBy(c) /\ \A b : Fits(c, b) => Fits(x, b)
    BY <1>1 DEF Saved, RevokedBy, Fits
  <1>4. ASSUME NEW p, NEW bs, StateFits(c, p, bs) PROVE StateFits(x, p, bs)
    BY <1>1, <1>4 DEF StateFits, Shaped, Before
  <1> QED
    BY <1>1, <1>2, <1>3, <1>4

\* The run s is r after a write of its state that succeeded or failed.
StateWritten(r, s, p) ==
    /\ Ready(s, p) /\ s.box = r.box /\ s.now = r.now /\ s.outage = r.outage
    /\ Known(s) = Known(r) /\ Expired(s) \subseteq Expired(r)
    /\ s.disk.file = r.disk.file /\ s.disk.expiry = r.disk.expiry
    /\ s.disk.revoked = r.disk.revoked /\ s.disk.blocked = r.disk.blocked
    /\ SameMind(s.co, r.co) /\ s.co.cleanup = r.co.cleanup
    /\ s.ok => r.ok /\ s.co.dirty = FALSE /\ s.disk.state = StateOf(r.co)
    /\ ~s.ok => s.co = r.co /\ s.disk = r.disk
    /\ r.ok /\ ~s.ok => Fails(r.outage, r.ops + 1) /\ s.ops = r.ops + 1

LEMMA PersistStateBase ==
  ASSUME NEW r, NEW p, Ready(r, p), StateFits(r.co, p, Known(r)),
         witnessed \subseteq RevokedBy(r.co),
         ~IsRevoked(r.co) => \A b \in FileBatches(r.disk) : Fits(r.co, b),
         r.co.pending \notin Expired(r), NEW s, s = PersistState(r)
  PROVE  StateWritten(r, s, p)
  <1>1. r \in Runs /\ r.disk \in Disks /\ r.co \in Coordinators
    BY RunParts DEF Ready
  <1>2. PICK x : x = StateOf(r.co)
    OBVIOUS
  <1>3. /\ x \in States /\ RevokedBy(x) = RevokedBy(r.co)
        /\ x.life = r.co.life /\ x.pending = r.co.pending
        /\ \A bs : StateFits(r.co, p, bs) => StateFits(x, p, bs)
        /\ \A b : Fits(r.co, b) => Fits(x, b)
    BY <1>1, <1>2, StateOfOK
  <1>4. PICK d : d = [r.disk EXCEPT !.state = x]
    OBVIOUS
  <1>5. /\ d \in Disks /\ d.file = r.disk.file /\ d.expiry = r.disk.expiry
        /\ d.revoked = r.disk.revoked /\ d.blocked = r.disk.blocked /\ d.state = x
    BY <1>1, <1>3, <1>4 DEF Disks
  <1>6. PICK y : y = Storage(r, d)
    OBVIOUS
  <1>7. s = IF y.ok THEN [y EXCEPT !.co.dirty = FALSE] ELSE y
    BY <1>2, <1>4, <1>6 DEF PersistState, Clean
  <1>8. Follows(r, d, p)
    BY <1>3, <1>4, StateFollows DEF IsRevoked
  <1>9. Wrote(r, y, d, p)
    BY <1>6, <1>8, StorageOK
  <1>10. FileBatches(d) = FileBatches(r.disk) /\ BarredOnDisk(d) = BarredOnDisk(r.disk)
    BY <1>5 DEF FileBatches, BarredOnDisk
  <1>11. FileBatches(r.disk) \subseteq Known(r)
    BY ReadyFacts DEF ReadyAt, FilesOK
  <1>12. CASE ~y.ok
    <2>1. s = y
      BY <1>7, <1>12
    <2>2. r.ok => Fails(r.outage, r.ops + 1) /\ s.ops = r.ops + 1
      BY <1>1, <1>5, <1>6, <1>12, <2>1, StorageFrame
    <2> QED
      BY <1>9, <1>12, <2>1, <2>2, SameMindSelf DEF Wrote, StateWritten
  <1>13. CASE y.ok
    <2>1. y.co = r.co /\ y \in Runs /\ Ready(y, p)
      BY <1>9 DEF Wrote, Ready
    <2>2. PICK c : c = [r.co EXCEPT !.dirty = FALSE]
      OBVIOUS
    <2>3. c \in Coordinators /\ SameMind(c, r.co) /\ c.dirty = FALSE /\ c.cleanup = r.co.cleanup
      BY <1>1, <2>2 DEF Coordinators, SameMind
    <2>4. s = [y EXCEPT !.co = c]
      BY <1>7, <1>13, <2>1, <2>2
    <2>5. SameDisks(y, s) /\ s.box = y.box /\ s.co = c /\ s.ok = y.ok
      BY <2>1, <2>3, <2>4, CoSet
    <2>6. Ready(s, p) /\ Known(s) = Known(y) /\ Expired(s) = Expired(y) /\ s.disk = y.disk
          /\ s.now = y.now /\ s.outage = y.outage
      BY <2>1, <2>5, SameReady DEF SameDisks
    <2>7. Known(s) = Known(r) /\ Expired(s) \subseteq Expired(r)
      BY <1>9, <1>10, <1>11, <1>13, <2>6, SameBarred DEF Wrote
    <2> QED
      BY <1>2, <1>5, <1>9, <1>13, <2>3, <2>5, <2>6, <2>7 DEF StateWritten, Wrote
  <1> QED
    BY <1>12, <1>13

LEMMA PersistStateOK ==
  ASSUME NEW r, NEW p, Good(r, p), NEW s, s = PersistState(r)
  PROVE  Good(s, p) /\ StateWritten(r, s, p)
  <1>1. Ready(r, p) /\ Bound(r, p) /\ r.co.pending \notin Expired(r) /\ r.co \in Coordinators
    BY RunParts DEF Good, BoxOK, Ready
  <1>2. StateWritten(r, s, p)
    BY <1>1, PersistStateBase DEF Bound
  <1>3. FileBatches(s.disk) = FileBatches(r.disk)
    BY <1>2 DEF FileBatches, StateWritten
  <1>4. s.box.is_open => Mirror(s)
    BY <1>2 DEF Good, BoxOK, Mirror, Mirrors, Shows, StateWritten
  <1>5. Bound(s, p)
    <2>1. /\ \A bs : StateFits(s.co, p, bs) <=> StateFits(r.co, p, bs)
          /\ RevokedBy(s.co) = RevokedBy(r.co) /\ (IsRevoked(s.co) <=> IsRevoked(r.co))
          /\ \A b : Fits(s.co, b) <=> Fits(r.co, b)
          /\ \A m : Saved(s.co, m) <=> Saved(r.co, m)
      BY <1>2, SameMindFits DEF StateWritten
    <2>2. CASE s.ok
      <3>1. PICK x : x = s.disk.state
        OBVIOUS
      <3>2. x = StateOf(r.co)
        BY <1>2, <2>2, <3>1 DEF StateWritten
      <3>3. x \in States /\ Saved(r.co, x) /\ RevokedBy(x) = RevokedBy(r.co) /\ x # None
        BY <1>1, <3>2, StateOfOK, StateParts
      <3> QED
        BY <1>1, <1>2, <1>3, <2>1, <3>1, <3>3 DEF Bound, StateWritten
    <2>3. CASE ~s.ok
      BY <1>1, <1>2, <1>3, <2>1, <2>3 DEF Bound, StateWritten
    <2> QED
      BY <2>2, <2>3
  <1>6. s.co.pending \notin Expired(s)
    BY <1>1, <1>2 DEF StateWritten, SameMind
  <1> QED
    BY <1>2, <1>4, <1>5, <1>6 DEF Good, BoxOK, StateWritten, Ready

\* The payload of a revoked context was removed, or still has to be.
Cleaned(r, s, p) ==
    /\ Good(s, p) /\ s.now = r.now /\ s.outage = r.outage
    /\ SameMind(s.co, r.co) /\ s.co.dirty = r.co.dirty
    /\ s.disk.state = r.disk.state
    /\ Known(s) = Known(r) /\ FileBatches(s.disk) \subseteq FileBatches(r.disk)
    /\ s.ok => r.ok /\ ~s.co.cleanup
    /\ ~r.co.cleanup => s = r

\* The files of a state that was saved revoked hold no intent.
LEMMA SavedRevoked ==
  ASSUME NEW r, NEW p, Good(r, p), IsRevoked(r.co)
  PROVE  /\ r.co.pending = None
         /\ ~r.co.dirty => r.disk.state.life = "revoked" /\ r.disk.state.pending = None
  <1>1. r.co.pending = None
    BY DEF Good, Bound, StateFits, Shaped, IsRevoked
  <1> QED
    BY <1>1 DEF Good, Bound, Saved, IsRevoked

LEMMA CleanUpOK ==
  ASSUME NEW r, NEW p, Good(r, p), r.ok => ~r.co.dirty, NEW s, s = CleanUp(r)
  PROVE  Cleaned(r, s, p)
  <1>1. Ready(r, p) /\ Bound(r, p) /\ r \in Runs /\ r.co \in Coordinators /\ r.ok \in BOOLEAN
        /\ r.co.cleanup \in BOOLEAN
    BY RunParts, CoParts DEF Good, BoxOK, Ready
  <1>2. CASE ~r.co.cleanup
    <2>1. s = r
      BY <1>2 DEF CleanUp
    <2> QED
      BY <1>2, <2>1, SameMindSelf DEF Cleaned
  <1>3. CASE r.co.cleanup /\ ~r.ok
    <2>1. OpenBox(r) = r /\ Purge(r) = r /\ \A d : Storage(r, d) = r
      BY <1>3 DEF OpenBox, Purge, Storage
    <2>2. s = r
      BY <1>3, <2>1 DEF CleanUp
    <2> QED
      BY <1>3, <2>2, SameMindSelf DEF Cleaned
  <1>4. CASE r.co.cleanup /\ r.ok
    <2>1. /\ IsRevoked(r.co) /\ r.co.pending = None
          /\ r.disk.state.life = "revoked" /\ r.disk.state.pending = None
      BY <1>1, <1>4, SavedRevoked DEF Bound
    <2>2. PICK x1 : x1 = IF r.box.is_open THEN r ELSE OpenBox(r)
      OBVIOUS
    <2>3. PICK x2 : x2 = Purge(x1)
      OBVIOUS
    <2>4. PICK d : d = [x2.disk EXCEPT !.blocked = FALSE]
      OBVIOUS
    <2>5. PICK x3 : x3 = Storage(x2, d)
      OBVIOUS
    <2>6. s = IF x3.ok THEN [x3 EXCEPT !.co.cleanup = FALSE] ELSE x3
      BY <1>4, <2>2, <2>3, <2>4, <2>5 DEF CleanUp
    <2>7. Calm(r, x1, p) /\ (x1.box.is_open => Mirror(x1))
      <3>1. CASE r.box.is_open
        BY <1>1, <2>2, <3>1, CalmSelf DEF Good, BoxOK
      <3>2. CASE ~r.box.is_open
        BY <1>1, <1>4, <2>2, <3>2, OpenBoxOK, ClosedBoxOK DEF Opened
      <3> QED
        BY <3>1, <3>2
    <2>8. Purged(x1, x2, p)
      <3>1. PurgeSafe(x1) /\ Ready(x1, p)
        BY <2>1, <2>7 DEF PurgeSafe, Calm
      <3> QED
        BY <2>3, <2>7, <3>1, PurgeOK
    <2>9. Calm(r, x2, p) /\ (x2.box.is_open => Mirror(x2))
      BY <2>7, <2>8, CalmChain DEF Purged
    <2>10. Good(x2, p) /\ x2.co = r.co /\ x2.disk.state = r.disk.state /\ Ready(x2, p)
      <3>1. Good(x2, p)
        BY <1>4, <2>1, <2>9, CalmGood
      <3> QED
        BY <2>9, <3>1 DEF Calm
    <2>11. x2 \in Runs /\ x2.disk \in Disks
      BY <2>10, RunParts DEF Ready
    <2>12. CASE ~x2.ok
      <3>1. s = x2
        BY <2>5, <2>6, <2>12 DEF Storage
      <3> QED
        BY <1>4, <2>9, <2>10, <2>12, <3>1, SameMindSelf DEF Cleaned, Calm
    <2>13. CASE x2.ok
      <3>1. PICK e \in BOOLEAN : e = FALSE
        OBVIOUS
      <3>2. Follows(x2, d, p)
        <4>1. d = [x2.disk EXCEPT !.blocked = e]
          BY <2>4, <3>1
        <4>2. /\ x2.disk.state # None /\ x2.disk.state.life = "revoked"
              /\ Saved(r.co, x2.disk.state)
          BY <1>1, <1>4, <2>1, <2>10 DEF Bound
        <4>3. RevokedBy(x2.disk.state) = RevokedBy(r.co)
          BY <2>1, <4>2 DEF Saved, RevokedBy, IsRevoked
        <4>4. witnessed \subseteq RevokedBy(x2.disk.state)
          BY <1>1, <4>3 DEF Bound
        <4> QED
          BY <2>10, <4>1, <4>2, <4>4, BlockFollows
      <3>3. Wrote(x2, x3, d, p)
        BY <2>5, <2>10, <3>2, StorageOK
      <3>4. /\ d.file = x2.disk.file /\ d.expiry = x2.disk.expiry
            /\ d.revoked = x2.disk.revoked /\ d.state = x2.disk.state /\ d.blocked = FALSE
        BY <2>4, <2>11 DEF Disks
      <3>5. FileBatches(d) = FileBatches(x2.disk) /\ BarredOnDisk(d) = BarredOnDisk(x2.disk)
        BY <3>4 DEF FileBatches, BarredOnDisk
      <3>6. FileBatches(x2.disk) \subseteq Known(x2) /\ FileBatches(x2.disk) = {}
        BY <2>8, <2>10, <2>13, ReadyFacts DEF ReadyAt, FilesOK, Purged
      <3>7. CASE ~x3.ok
        <4>1. Calm(x2, x3, p) /\ x3.box = x2.box /\ x3.disk = x2.disk
          BY <3>3, <3>7 DEF Wrote, Calm
        <4>2. Expired(x3) = Expired(x2)
          BY <3>3, <3>7 DEF Wrote
        <4>3. x3.box.is_open => Mirror(x3)
          BY <2>9, <4>1, <4>2 DEF Mirror
        <4>4. Good(x3, p)
          BY <1>4, <2>1, <2>10, <4>1, <4>3, CalmGood
        <4>5. s = x3
          BY <2>6, <3>7
        <4> QED
          BY <1>4, <2>9, <3>7, <4>1, <4>4, <4>5, SameMindSelf DEF Cleaned, Calm
      <3>8. CASE x3.ok
        <4>1. PICK c : c = [r.co EXCEPT !.cleanup = FALSE]
          OBVIOUS
        <4>2. /\ c \in Coordinators /\ SameMind(c, r.co) /\ c.cleanup = FALSE
              /\ c.dirty = r.co.dirty
          BY <1>1, <4>1 DEF Coordinators, SameMind
        <4>3. x3.co = r.co /\ x3 \in Runs /\ Ready(x3, p)
          BY <2>10, <3>3 DEF Wrote, Ready
        <4>4. s = [x3 EXCEPT !.co = c]
          BY <2>6, <3>8, <4>1, <4>3
        <4>5. SameDisks(x3, s) /\ s.box = x3.box /\ s.co = c /\ s.ok = x3.ok
          BY <4>2, <4>3, <4>4, CoSet
        <4>6. /\ Ready(s, p) /\ Known(s) = Known(x3) /\ Expired(s) = Expired(x3)
              /\ s.disk = d /\ s.now = x3.now /\ s.outage = x3.outage
          BY <3>3, <3>8, <4>3, <4>5, SameReady DEF SameDisks, Wrote
        <4>7. Known(s) = Known(x2) /\ Expired(s) \subseteq Expired(x2) /\ s.box = x2.box
          BY <2>10, <3>3, <3>5, <3>6, <3>8, <4>5, <4>6, SameBarred DEF Wrote
        <4>8. Known(s) = Known(r)
          BY <2>9, <4>7 DEF Calm
        <4>9. s.box.is_open /\ Mirror(s)
          BY <2>8, <2>9, <2>13, <3>4, <4>6, <4>7 DEF Purged, Mirror, Mirrors, Shows
        <4>10. FileBatches(s.disk) = {}
          BY <3>5, <3>6, <4>6
        <4>11. /\ \A bs : StateFits(c, p, bs) <=> StateFits(r.co, p, bs)
               /\ RevokedBy(c) = RevokedBy(r.co) /\ (IsRevoked(c) <=> IsRevoked(r.co))
               /\ \A m : Saved(c, m) <=> Saved(r.co, m)
          BY <4>2, SameMindFits
        <4>12. Bound(s, p)
          BY <1>1, <1>4, <2>10, <3>4, <4>2, <4>5, <4>6, <4>8, <4>9, <4>10, <4>11 DEF Bound
        <4>13. s.co.pending \notin Expired(s)
          BY <2>1, <4>2, <4>5, <4>6, ReadyFacts DEF SameMind, ReadyAt
        <4>14. Good(s, p)
          BY <4>6, <4>9, <4>12, <4>13 DEF Good, BoxOK, Ready
        <4> QED
          BY <1>4, <2>9, <2>10, <3>3, <3>4, <4>2, <4>5, <4>6, <4>8, <4>10, <4>14
          DEF Cleaned, Wrote, Calm
      <3> QED
        BY <3>7, <3>8
    <2> QED
      BY <2>12, <2>13
  <1> QED
    BY <1>1, <1>2, <1>3, <1>4

\* The memory was saved and cleaned up, or still has to be.
Flushed(r, s, p) ==
    /\ Good(s, p) /\ s.now = r.now /\ s.outage = r.outage /\ SameMind(s.co, r.co)
    /\ Known(s) = Known(r) /\ FileBatches(s.disk) \subseteq FileBatches(r.disk)
    /\ s.ok => r.ok /\ ~s.co.dirty /\ ~s.co.cleanup

LEMMA FlushStateOK ==
  ASSUME NEW r, NEW p, Good(r, p), NEW s, s = FlushState(r)
  PROVE  Flushed(r, s, p)
  <1>1. PICK x : x = IF r.co.dirty THEN PersistState(r) ELSE r
    OBVIOUS
  <1>2. s = CleanUp(x)
    BY <1>1 DEF FlushState
  <1>3. /\ Good(x, p) /\ (x.ok => r.ok /\ ~x.co.dirty) /\ x.now = r.now /\ x.outage = r.outage
        /\ SameMind(x.co, r.co) /\ Known(x) = Known(r)
        /\ FileBatches(x.disk) = FileBatches(r.disk)
    <2>1. CASE r.co.dirty
      BY <1>1, <2>1, PersistStateOK DEF StateWritten, FileBatches
    <2>2. CASE ~r.co.dirty
      BY <1>1, <2>2, SameMindSelf
    <2> QED
      BY <2>1, <2>2
  <1>4. Cleaned(x, s, p)
    BY <1>2, <1>3, CleanUpOK
  <1> QED
    BY <1>3, <1>4 DEF Cleaned, Flushed, SameMind

\* A coordinator that gives up its context.
LEMMA RevokedOK ==
  ASSUME NEW r, NEW p, Near(r, p), r.co.ctx # None, NEW s, s = [r EXCEPT !.co = Revoked(@)]
  PROVE  /\ Good(s, p) /\ s.box = r.box /\ SameDisks(r, s) /\ s.ok = r.ok
         /\ s.co.life = "revoked" /\ s.co.cleanup /\ s.co.dirty /\ s.co.pending = None
         /\ s.co.ctx = r.co.ctx /\ s.co.prod = r.co.prod /\ s.co.archive = r.co.archive
         /\ s.co.is_open = r.co.is_open
  <1>1. /\ r \in Runs /\ r.co \in Coordinators /\ Ready(r, p) /\ Bound(r, p)
        /\ r.box.is_open => Mirror(r)
    BY RunParts DEF Near, Ready
  <1>2. PICK c : c = Revoked(r.co)
    OBVIOUS
  <1>3. /\ c \in Coordinators /\ c.life = "revoked" /\ c.cleanup = TRUE /\ c.dirty = TRUE
        /\ c.pending = None /\ c.started = 0 /\ c.ctx = r.co.ctx /\ c.prod = r.co.prod
        /\ c.seq = r.co.seq /\ c.archive = r.co.archive /\ c.is_open = r.co.is_open
    BY <1>1, <1>2 DEF Revoked, Coordinators, LifecycleStates
  <1>4. s = [r EXCEPT !.co = c]
    BY <1>2
  <1>5. SameDisks(r, s) /\ s.box = r.box /\ s.co = c /\ s.ok = r.ok
    BY <1>1, <1>3, <1>4 DEF Runs, SameDisks
  <1>6. Ready(s, p) /\ Known(s) = Known(r) /\ Expired(s) = Expired(r) /\ s.disk = r.disk
    BY <1>1, <1>5, SameReady DEF SameDisks
  <1>7. StateFits(c, p, Known(r))
    BY <1>1, <1>3 DEF Bound, StateFits, Shaped, Before
  <1>8. RevokedBy(r.co) \subseteq RevokedBy(c)
    BY <1>3 DEF RevokedBy
  <1>9. Bound(s, p)
    BY <1>1, <1>3, <1>5, <1>6, <1>7, <1>8 DEF Bound, IsRevoked
  <1>10. s.co.pending \notin Expired(s)
    BY <1>3, <1>5, <1>6, ReadyFacts DEF ReadyAt
  <1>11. s.box.is_open => Mirror(s)
    BY <1>1, <1>5, <1>6 DEF Mirror
  <1> QED
    BY <1>3, <1>5, <1>6, <1>9, <1>10, <1>11 DEF Good, BoxOK, Ready

\* The refusal marker is on disk, or its write failed without a trace.
Refused(r, s, p) ==
    /\ Good(s, p) /\ s.box = r.box /\ s.co = r.co /\ s.now = r.now /\ s.outage = r.outage
    /\ s.disk.state = r.disk.state /\ FileBatches(s.disk) = FileBatches(r.disk)
    /\ Known(s) = Known(r)
    /\ \/ s.disk.blocked
       \/ Fails(r.outage, r.ops + 1) /\ s.ops = r.ops + 1

\* A run whose disks are those of a write of the marker.
LEMMA MarkerGood ==
  ASSUME NEW r, NEW p, Good(r, p), r.co.cleanup, r.co.pending = None, NEW d,
         d = [r.disk EXCEPT !.blocked = TRUE], NEW s \in Runs, s.disk = d,
         s.seen = Append(r.seen, d), s.box = r.box, s.co = r.co
  PROVE  /\ Good(s, p) /\ s.disk.blocked /\ s.disk.state = r.disk.state
         /\ FileBatches(s.disk) = FileBatches(r.disk) /\ Known(s) = Known(r)
  <1>1. Ready(r, p) /\ r \in Runs /\ r.disk \in Disks
    BY RunParts DEF Good, BoxOK, Ready
  <1>2. Follows(r, d, p)
    <2>1. PICK e \in BOOLEAN : e = TRUE
      OBVIOUS
    <2> QED
      BY <1>1, <2>1, BlockFollows
  <1>3. /\ d \in Disks /\ d.file = r.disk.file /\ d.expiry = r.disk.expiry
        /\ d.revoked = r.disk.revoked /\ d.state = r.disk.state /\ d.blocked = TRUE
    BY <1>1 DEF Disks
  <1>4. PICK o \in Faults : o.kind = "none"
    <2>1. [kind |-> "none", first |-> 0] \in Faults
      BY DEF Faults
    <2> QED
      BY <2>1
  <1>5. PICK e \in BOOLEAN : e = TRUE
    OBVIOUS
  <1>6. PICK q : q = [r EXCEPT !.outage = o, !.ok = e]
    OBVIOUS
  <1>7. /\ q \in Runs /\ q.disk = r.disk /\ q.seen = r.seen /\ q.ok /\ q.outage = o
    BY <1>1, <1>5, <1>6 DEF Runs
  <1>8. Ready(q, p) /\ Known(q) = Known(r) /\ Expired(q) = Expired(r)
    BY <1>1, <1>7 DEF Ready, SeenOK, Known, Expired
  <1>9. Follows(q, d, p)
    BY <1>2, <1>7, <1>8 DEF Follows, After
  <1>10. PICK y : y = Storage(q, d)
    OBVIOUS
  <1>11. Wrote(q, y, d, p)
    BY <1>8, <1>9, <1>10, StorageOK
  <1>12. y.ok /\ y.disk = d /\ y.seen = Append(r.seen, d)
    <2>1. ~Fails(q.outage, q.ops + 1)
      BY <1>4, <1>7 DEF Fails
    <2>2. y.ok
      BY <1>3, <1>7, <1>10, <2>1, StorageFrame
    <2>3. y.disk = d /\ y.seen = Append(q.seen, d)
      BY <1>3, <1>7, <1>10, <2>2, StorageFrame
    <2> QED
      BY <1>7, <2>2, <2>3
  <1>13. Ready(s, p) /\ Known(s) = Known(y) /\ Expired(s) = Expired(y)
    BY <1>11, <1>12 DEF Wrote, Ready, SeenOK, Known, Expired
  <1>14. FileBatches(d) = FileBatches(r.disk) /\ BarredOnDisk(d) = BarredOnDisk(r.disk)
    BY <1>3 DEF FileBatches, BarredOnDisk
  <1>15. FileBatches(r.disk) \subseteq Known(r)
    BY <1>1, ReadyFacts DEF ReadyAt, FilesOK
  <1>16. Known(s) = Known(r) /\ Expired(s) \subseteq Expired(r)
    <2>1. After(q, d) \subseteq Expired(q)
      BY <1>7, <1>8, <1>14, SameBarred
    <2> QED
      BY <1>8, <1>11, <1>12, <1>13, <1>14, <1>15, <2>1 DEF Wrote
  <1>17. s.box.is_open => Mirror(s)
    BY <1>3, <1>16 DEF Good, BoxOK, Mirror, Mirrors, Shows
  <1>18. Bound(s, p)
    BY <1>3, <1>14, <1>16 DEF Good, Bound
  <1>19. s.co.pending \notin Expired(s)
    BY <1>13, ReadyFacts DEF ReadyAt
  <1> QED
    BY <1>3, <1>13, <1>14, <1>16, <1>17, <1>18, <1>19 DEF Good, BoxOK, Ready

LEMMA WriteBlockedOK ==
  ASSUME NEW r, NEW p, Good(r, p), r.ok, r.co.cleanup, r.co.pending = None, NEW s,
         s = WriteBlocked(r)
  PROVE  Refused(r, s, p)
  <1>1. Ready(r, p) /\ r \in Runs /\ r.disk \in Disks /\ r.seen \in Seq(Disks)
    BY RunParts DEF Good, BoxOK, Ready
  <1>2. CASE r.disk.blocked
    <2>1. PICK e \in BOOLEAN : e = FALSE
      OBVIOUS
    <2>2. s = [r EXCEPT !.ok = e]
      BY <1>2, <2>1 DEF WriteBlocked, Failed
    <2>3. Good(s, p) /\ s.co = r.co /\ s.box = r.box /\ s.disk = r.disk
          /\ s.now = r.now /\ s.outage = r.outage
      BY <2>2, OkGood
    <2>4. SameDisks(r, s)
      BY <1>1, <2>2, OkSet
    <2> QED
      BY <1>1, <1>2, <2>3, <2>4, SameReady DEF Refused
  <1>3. CASE ~r.disk.blocked
    <2>1. PICK d : d = [r.disk EXCEPT !.blocked = TRUE]
      OBVIOUS
    <2>2. PICK y : y = Storage(r, d)
      OBVIOUS
    <2>3. s = IF ~y.ok /\ y.outage.kind = "torn"
              THEN [y EXCEPT !.disk = d, !.seen = Append(y.seen, d)] ELSE y
      BY <1>3, <2>1, <2>2 DEF WriteBlocked
    <2>4. d \in Disks
      BY <1>1, <2>1 DEF Disks
    <2>5. /\ y \in Runs /\ y.co = r.co /\ y.box = r.box /\ y.now = r.now
          /\ y.outage = r.outage /\ y.ops = r.ops + 1
          /\ y.ok => y.disk = d /\ y.seen = Append(r.seen, d)
          /\ ~y.ok => y.disk = r.disk /\ y.seen = r.seen /\ Fails(r.outage, r.ops + 1)
      <3>1. /\ y \in Runs /\ y.co = r.co /\ y.box = r.box /\ y.now = r.now
            /\ y.outage = r.outage /\ y.ops = r.ops + 1
        BY <1>1, <2>2, <2>4, StorageFrame
      <3>2. y.ok => y.disk = d /\ y.seen = Append(r.seen, d)
        <4>1. PICK u \in Runs : u = r
          BY <1>1
        <4>2. PICK v : v = Storage(u, d)
          OBVIOUS
        <4>3. v.ok => v.disk = d /\ v.seen = Append(u.seen, d)
          BY <2>4, <4>2, StorageFrame
        <4> QED
          BY <2>2, <4>1, <4>2, <4>3
      <3>3. ~y.ok => y.disk = r.disk /\ y.seen = r.seen
        BY <1>1, <2>2, <2>4, StorageFrame
      <3>4. ~y.ok => Fails(r.outage, r.ops + 1)
        BY <1>1, <2>2, <2>4, StorageFrame
      <3> QED
        BY <3>1, <3>2, <3>3, <3>4
    <2>6. CASE y.ok
      <3>1. s = y
        BY <2>3, <2>6
      <3> QED
        BY <2>1, <2>5, <2>6, <3>1, MarkerGood DEF Refused
    <2>7. CASE ~y.ok /\ y.outage.kind = "torn"
      <3>0. Append(r.seen, d) \in Seq(Disks)
        BY <1>1, <2>4
      <3>1. PICK q \in Seq(Disks) : q = Append(r.seen, d)
        BY <3>0, Zenon
      <3>2. s = [y EXCEPT !.disk = d, !.seen = q]
        BY <2>3, <2>5, <2>7, <3>1
      <3>3. /\ s \in Runs /\ s.disk = d /\ s.seen = q /\ s.box = y.box /\ s.co = y.co
            /\ s.now = y.now /\ s.outage = y.outage
        BY <2>4, <2>5, <3>2 DEF Runs
      <3>4. s.seen = Append(r.seen, d) /\ s.box = r.box /\ s.co = r.co
        BY <2>5, <3>1, <3>3
      <3>5. /\ Good(s, p) /\ s.disk.blocked /\ s.disk.state = r.disk.state
            /\ FileBatches(s.disk) = FileBatches(r.disk) /\ Known(s) = Known(r)
        BY <2>1, <3>3, <3>4, MarkerGood
      <3> QED
        BY <2>5, <3>3, <3>4, <3>5 DEF Refused
    <2>8. CASE ~y.ok /\ y.outage.kind # "torn"
      <3>1. s = y
        BY <2>3, <2>8
      <3>2. Ready(s, p) /\ Known(s) = Known(r) /\ Expired(s) = Expired(r)
        BY <1>1, <2>5, <2>8, <3>1 DEF Ready, SeenOK, Known, Expired
      <3>3. Good(s, p)
        BY <2>5, <2>8, <3>1, <3>2 DEF Good, BoxOK, Ready, Bound, Mirror
      <3> QED
        BY <2>5, <2>8, <3>1, <3>2, <3>3 DEF Refused
    <2> QED
      BY <2>6, <2>7, <2>8
  <1> QED
    BY <1>2, <1>3

\* Two operations in a row fail only when all later ones do.
LEMMA FailsForGood ==
  ASSUME NEW o \in Faults, NEW n \in Nat, Fails(o, n), Fails(o, n + 1)
  PROVE  \A m \in Nat : m > n + 1 => Fails(o, m)
  BY DEF Fails, Faults

LEMMA PersistRevocationOK ==
  ASSUME NEW r, NEW p, Good(r, p), r.ok, r.co.life = "revoked", r.co.cleanup, NEW s,
         s = PersistRevocation(r)
  PROVE  Flushed(r, s, p)
  <1>1. r \in Runs /\ r.co.pending = None /\ r.ops \in Nat /\ r.outage \in Faults
    BY SavedRevoked, RunParts DEF Good, BoxOK, IsRevoked
  <1>2. PICK x : x = PersistState(r)
    OBVIOUS
  <1>3. Good(x, p) /\ StateWritten(r, x, p)
    BY <1>2, PersistStateOK
  <1>4. x.now = r.now /\ x.outage = r.outage /\ SameMind(x.co, r.co) /\ Known(x) = Known(r)
        /\ FileBatches(x.disk) = FileBatches(r.disk)
    BY <1>3 DEF StateWritten, FileBatches
  <1>5. CASE x.ok
    <2>1. s = FlushState(x)
      BY <1>2, <1>5 DEF PersistRevocation
    <2>2. Flushed(x, s, p)
      BY <1>3, <2>1, FlushStateOK
    <2> QED
      BY <1>4, <2>2 DEF Flushed, SameMind
  <1>6. CASE ~x.ok
    <2>1. PICK e \in BOOLEAN : e = TRUE
      OBVIOUS
    <2>2. PICK f \in BOOLEAN : f = FALSE
      OBVIOUS
    <2>3. PICK x1 : x1 = [x EXCEPT !.ok = e]
      OBVIOUS
    <2>4. PICK x2 : x2 = WriteBlocked(x1)
      OBVIOUS
    <2>5. PICK x3 : x3 = [x2 EXCEPT !.ok = e]
      OBVIOUS
    <2>6. PICK x4 : x4 = Purge(x3)
      OBVIOUS
    <2>7. s = [x4 EXCEPT !.ok = f]
      BY <1>2, <1>6, <2>1, <2>2, <2>3, <2>4, <2>5, <2>6
      DEF PersistRevocation, Anyway, Failed
    <2>8. x.co = r.co /\ Fails(r.outage, r.ops + 1) /\ x.ops = r.ops + 1
      BY <1>3, <1>6 DEF StateWritten
    <2>9. /\ Good(x1, p) /\ x1.co = r.co /\ x1.disk = x.disk /\ x1.ok
          /\ x1.now = x.now /\ x1.outage = x.outage /\ x1.ops = x.ops
      <3>1. /\ Good(x1, p) /\ x1.co = x.co /\ x1.disk = x.disk /\ x1.ok = e
            /\ x1.now = x.now /\ x1.outage = x.outage /\ x1.ops = x.ops
        BY <1>3, <2>3, OkGood
      <3> QED
        BY <2>1, <2>8, <3>1
    <2>10. Known(x1) = Known(x)
      BY <2>3, <1>3 DEF Good, BoxOK, Runs, Known
    <2>11. Refused(x1, x2, p)
      BY <1>1, <2>4, <2>9, WriteBlockedOK
    <2>12. /\ Good(x3, p) /\ x3.co = r.co /\ x3.disk = x2.disk /\ x3.ok
           /\ x3.now = x2.now /\ x3.outage = x2.outage /\ x3.ops = x2.ops
      <3>1. Good(x2, p) /\ x2.co = r.co
        BY <2>9, <2>11 DEF Refused
      <3>2. /\ Good(x3, p) /\ x3.co = x2.co /\ x3.disk = x2.disk /\ x3.ok = e
            /\ x3.now = x2.now /\ x3.outage = x2.outage /\ x3.ops = x2.ops
        BY <2>5, <3>1, OkGood
      <3> QED
        BY <2>1, <3>1, <3>2
    <2>13. Known(x3) = Known(x2)
      <3>1. x2 \in Runs
        BY <2>11 DEF Refused, Good, BoxOK
      <3> QED
        BY <2>5, <3>1 DEF Runs, Known
    <2>14. PurgeSafe(x3)
      <3>1. CASE x2.disk.blocked
        BY <2>12, <3>1 DEF PurgeSafe
      <3>2. CASE ~x2.disk.blocked
        <4>1. Fails(x1.outage, x1.ops + 1) /\ x2.ops = x1.ops + 1 /\ x2.outage = x1.outage
          BY <2>11, <3>2 DEF Refused
        <4>2. PICK n \in Nat : n = r.ops + 1
          BY <1>1
        <4>3. Fails(r.outage, n) /\ Fails(r.outage, n + 1) /\ x3.ops = n + 1
              /\ x3.outage = r.outage
          BY <1>4, <2>8, <2>9, <2>12, <4>1, <4>2
        <4>4. \A m \in Nat : m > n + 1 => Fails(r.outage, m)
          BY <1>1, <4>2, <4>3, FailsForGood
        <4>5. Broken(x3)
          BY <4>3, <4>4 DEF Broken
        <4> QED
          BY <4>5 DEF PurgeSafe
      <3> QED
        BY <3>1, <3>2
    <2>15. Ready(x3, p) /\ (x3.box.is_open => Mirror(x3))
      BY <2>12 DEF Good, BoxOK, Ready
    <2>16. Purged(x3, x4, p)
      BY <2>6, <2>14, <2>15, PurgeOK
    <2>17. Good(x4, p)
      BY <1>1, <2>12, <2>16, CalmGood DEF Purged
    <2>18. /\ Good(s, p) /\ s.co = x4.co /\ s.disk = x4.disk /\ s.ok = f
           /\ s.now = x4.now /\ s.outage = x4.outage
      BY <2>7, <2>17, OkGood
    <2>19. Known(s) = Known(x4)
      <3>1. x4 \in Runs
        BY <2>17 DEF Good, BoxOK
      <3> QED
        BY <2>7, <3>1 DEF Runs, Known
    <2>20. /\ s.co = r.co /\ s.now = r.now /\ s.outage = r.outage /\ Known(s) = Known(r)
           /\ FileBatches(s.disk) \subseteq FileBatches(r.disk)
      BY <1>4, <2>9, <2>10, <2>11, <2>12, <2>13, <2>16, <2>18, <2>19
      DEF Refused, Purged, Calm
    <2> QED
      BY <2>2, <2>18, <2>20, SameMindSelf DEF Flushed
  <1> QED
    BY <1>5, <1>6

\* What a coordinator keeps when it gives up its context.
Relinquished(r, s, p) ==
    /\ Good(s, p) /\ s.now = r.now /\ s.outage = r.outage
    /\ s.co.is_open = r.co.is_open /\ s.co.ctx = r.co.ctx /\ s.co.prod = r.co.prod
    /\ s.co.archive = r.co.archive /\ s.co.life = "revoked" /\ s.co.pending = None
    /\ Known(s) = Known(r) /\ FileBatches(s.disk) \subseteq FileBatches(r.disk)

LEMMA RevokeOK ==
  ASSUME NEW r, NEW p, Near(r, p), r.ok, r.co.ctx # None, NEW s,
         s = PersistRevocation([r EXCEPT !.co = Revoked(@)])
  PROVE  Relinquished(r, s, p)
  <1>1. PICK x : x = [r EXCEPT !.co = Revoked(@)]
    OBVIOUS
  <1>2. /\ Good(x, p) /\ SameDisks(r, x) /\ x.ok = r.ok
        /\ x.co.life = "revoked" /\ x.co.cleanup /\ x.co.pending = None
        /\ x.co.ctx = r.co.ctx /\ x.co.prod = r.co.prod /\ x.co.archive = r.co.archive
        /\ x.co.is_open = r.co.is_open
    BY <1>1, RevokedOK
  <1>3. Flushed(x, s, p)
    BY <1>1, <1>2, PersistRevocationOK
  <1>4. Known(x) = Known(r) /\ x.disk = r.disk /\ x.now = r.now /\ x.outage = r.outage
    BY <1>2, SameReady DEF Near, SameDisks
  <1> QED
    BY <1>2, <1>3, <1>4 DEF Flushed, SameMind, Relinquished

LEMMA RevokePendingOK ==
  ASSUME NEW r, NEW p, Near(r, p), r.ok, r.co.pending # None, NEW s, s = RevokePending(r)
  PROVE  Relinquished(r, s, p) /\ ~s.ok
  <1>1. Ready(r, p) /\ r \in Runs /\ r.co \in Coordinators /\ Bound(r, p)
    BY RunParts DEF Near, Ready
  <1>2. PICK c : c = [r.co EXCEPT !.dirty = TRUE]
    OBVIOUS
  <1>3. c \in Coordinators /\ SameMind(c, r.co) /\ c.dirty = TRUE /\ c.cleanup = r.co.cleanup
    BY <1>1, <1>2 DEF Coordinators, SameMind
  <1>4. PICK x : x = [r EXCEPT !.co = c]
    OBVIOUS
  <1>5. CountLoss(r) = x
    BY <1>2, <1>4 DEF CountLoss
  <1>6. SameDisks(r, x) /\ x.box = r.box /\ x.co = c /\ x.ok = r.ok
    BY <1>1, <1>3, <1>4 DEF Runs, SameDisks
  <1>7. /\ Ready(x, p) /\ Known(x) = Known(r) /\ Expired(x) = Expired(r) /\ x.disk = r.disk
        /\ x.now = r.now /\ x.outage = r.outage
    BY <1>1, <1>6, SameReady DEF SameDisks
  <1>8. /\ \A bs : StateFits(c, p, bs) <=> StateFits(r.co, p, bs)
        /\ RevokedBy(c) = RevokedBy(r.co) /\ (IsRevoked(c) <=> IsRevoked(r.co))
        /\ \A b : Fits(c, b) <=> Fits(r.co, b)
    BY <1>3, SameMindFits
  <1>9. Bound(x, p)
    BY <1>1, <1>3, <1>6, <1>7, <1>8 DEF Bound
  <1>10. Near(x, p)
    BY <1>6, <1>7, <1>9 DEF Near, Mirror
  <1>11. x.co.ctx # None
    <2>1. r.co.pending \in Batches /\ r.co.pending.ctx = r.co.ctx
      BY <1>1, CoParts DEF Bound, StateFits, Shaped
    <2>2. r.co.pending.ctx \in Contexts
      BY <2>1 DEF Batches
    <2>3. x.co.ctx = r.co.ctx
      BY <1>3, <1>6 DEF SameMind
    <2> QED
      BY <2>1, <2>2, <2>3, NoneAssumption
  <1>12. PICK y : y = PersistRevocation([x EXCEPT !.co = Revoked(@)])
    OBVIOUS
  <1>13. Relinquished(x, y, p)
    BY <1>6, <1>10, <1>11, <1>12, RevokeOK
  <1>14. PICK e \in BOOLEAN : e = FALSE
    OBVIOUS
  <1>15. s = [y EXCEPT !.ok = e]
    BY <1>5, <1>12, <1>14 DEF RevokePending, Failed
  <1>16. /\ Good(s, p) /\ s.co = y.co /\ s.disk = y.disk /\ s.ok = e
         /\ s.now = y.now /\ s.outage = y.outage
    BY <1>13, <1>15, OkGood DEF Relinquished
  <1>17. Known(s) = Known(y)
    <2>1. y \in Runs
      BY <1>13 DEF Relinquished, Good, BoxOK
    <2> QED
      BY <1>15, <2>1 DEF Runs, Known
  <1> QED
    BY <1>3, <1>6, <1>7, <1>13, <1>14, <1>16, <1>17 DEF Relinquished, SameMind

\* The intent was moved into the outbox, given up, or is still to be moved.
Finished(r, s) ==
    /\ Good(s, prods) /\ s.now = r.now /\ s.outage = r.outage
    /\ s.co.is_open = r.co.is_open /\ s.co.ctx = r.co.ctx /\ s.co.prod = r.co.prod
    /\ s.co.archive = r.co.archive
    /\ s.ok => r.ok /\ s.co.pending = None /\ s.co.life = r.co.life
               /\ ~s.co.dirty /\ ~s.co.cleanup

\* The coordinator with its intent behind it.
Advanced(c, d) ==
    /\ d \in Coordinators /\ d.is_open = c.is_open /\ d.ctx = c.ctx /\ d.life = c.life
    /\ d.archive = c.archive /\ d.prod = c.prod /\ d.seq = c.seq + 1 /\ d.pending = None
    /\ d.started = 0 /\ d.dirty = TRUE /\ d.cleanup = c.cleanup

LEMMA AdvancedFits ==
  ASSUME NEW c \in Coordinators, NEW d, Advanced(c, d), c.pending # None, NEW p, NEW bs,
         bs \subseteq Batches, StateFits(c, p, bs)
  PROVE  /\ StateFits(d, p, bs) /\ RevokedBy(d) = RevokedBy(c) /\ ~IsRevoked(c)
         /\ \A b \in Batches : Fits(c, b) => Fits(d, b)
  <1>1. /\ c.pending.seq = c.seq /\ c.pending.ctx = c.ctx /\ c.seq < MaximumSequence
        /\ c.seq \in Nat /\ c.life # "revoked" /\ c.pending \in Batches /\ Shaped(c)
    BY CoParts DEF StateFits, Shaped
  <1>2. c.ctx # None
    BY <1>1, NoneAssumption DEF Batches
  <1>3. MaximumSequence \in Nat
    BY CoordinatorAssumption
  <1>4. Shaped(d)
    <2>1. d.seq <= MaximumSequence
      BY <1>1, <1>3 DEF Advanced
    <2> QED
      BY <1>1, <1>2, <2>1 DEF Shaped, Advanced
  <1>5. ASSUME NEW b \in bs PROVE Before(d, b)
    <2>1. Before(c, b) /\ b.seq \in Nat
      BY DEF StateFits, Batches
    <2> QED
      BY <1>1, <2>1 DEF Before, Advanced
  <1>6. ASSUME NEW b \in Batches, Fits(c, b) PROVE Fits(d, b)
    <2>1. b.seq \in Nat
      BY DEF Batches
    <2> QED
      BY <1>1, <1>6, <2>1 DEF Fits, Advanced
  <1>7. RevokedBy(d) = RevokedBy(c) /\ d.prod <= p
    BY DEF RevokedBy, Advanced, StateFits
  <1> QED
    BY <1>1, <1>4, <1>5, <1>6, <1>7 DEF StateFits, IsRevoked

\* The intent is in the outbox: the sequence number moves on.
LEMMA AdvanceOK ==
  ASSUME NEW r, prods \in Nat, Good(r, prods), r.ok, r.co.pending # None, ~r.co.cleanup, NEW s,
         s = PersistState([r EXCEPT !.co.seq = @ + 1, !.co.pending = None,
                                    !.co.started = 0, !.co.dirty = TRUE])
  PROVE  Finished(r, s)
  <1>1. r \in Runs /\ r.co \in Coordinators /\ Ready(r, prods) /\ Bound(r, prods)
        /\ r.co.seq \in Nat
    BY RunParts, CoParts DEF Good, BoxOK, Ready
  <1>2. PICK n \in Nat : n = r.co.seq + 1
    BY <1>1
  <1>3. PICK c : c = [r.co EXCEPT !.seq = n, !.pending = None, !.started = 0, !.dirty = TRUE]
    OBVIOUS
  <1>4. Advanced(r.co, c)
    BY <1>1, <1>2, <1>3 DEF Advanced, Coordinators
  <1>5. PICK y : y = [r EXCEPT !.co = c]
    OBVIOUS
  <1>6. s = PersistState(y)
    BY <1>1, <1>2, <1>3, <1>5
  <1>7. SameDisks(r, y) /\ y.box = r.box /\ y.co = c /\ y.ok = r.ok
    BY <1>1, <1>4, <1>5 DEF Advanced, Runs, SameDisks
  <1>8. /\ Ready(y, prods) /\ Known(y) = Known(r) /\ Expired(y) = Expired(r)
        /\ y.disk = r.disk /\ y.now = r.now /\ y.outage = r.outage
    BY <1>1, <1>7, SameReady DEF SameDisks
  <1>9. Known(r) \subseteq Batches /\ None \notin Expired(r) /\ FileBatches(r.disk) \subseteq Batches
    BY <1>1, ReadyFacts DEF ReadyAt, FilesOK
  <1>10. /\ StateFits(c, prods, Known(r)) /\ RevokedBy(c) = RevokedBy(r.co) /\ ~IsRevoked(r.co)
         /\ \A b \in Batches : Fits(r.co, b) => Fits(c, b)
    BY <1>1, <1>4, <1>9, AdvancedFits DEF Bound
  <1>11. Bound(y, prods)
    BY <1>1, <1>4, <1>7, <1>8, <1>9, <1>10 DEF Bound, Advanced, IsRevoked
  <1>12. Good(y, prods)
    BY <1>4, <1>7, <1>8, <1>9, <1>11 DEF Good, BoxOK, Ready, Mirror, Advanced
  <1>13. Good(s, prods) /\ StateWritten(y, s, prods)
    BY <1>6, <1>12, PersistStateOK
  <1> QED
    BY <1>4, <1>7, <1>8, <1>13 DEF StateWritten, SameMind, Advanced, Finished

\* The places of the outbox that hold the identity of the batch.
Places(b, k) == {i \in DOMAIN b.records : SameIdentity(b.records[i].batch, k)}
CountedAway(b, k) ==
    /\ k.ctx \notin b.expired_losses
    /\ LossOf(b.losses, k.ctx).expired # 0

LEMMA FailedFinished ==
  ASSUME NEW r, Good(r, prods), NEW s, s = Failed(r)
  PROVE  Finished(r, s)
  <1>1. PICK e \in BOOLEAN : e = FALSE
    OBVIOUS
  <1>2. s = [r EXCEPT !.ok = e]
    BY <1>1 DEF Failed
  <1>3. Good(s, prods) /\ s.co = r.co /\ s.ok = e /\ s.now = r.now /\ s.outage = r.outage
    BY <1>2, OkGood
  <1> QED
    BY <1>1, <1>3 DEF Finished

LEMMA FinishPendingOK ==
  ASSUME NEW r, prods \in Nat, Near(r, prods), r.ok => ~r.co.dirty /\ ~r.co.cleanup,
         r.co.pending \in Expired(r) =>
            r.ok /\ Places(r.box, r.co.pending) = {} /\ CountedAway(r.box, r.co.pending),
         NEW s, s = FinishPending(r)
  PROVE  Finished(r, s)
  <1>1. Ready(r, prods) /\ r \in Runs /\ r.co \in Coordinators /\ Bound(r, prods)
        /\ r.ok \in BOOLEAN /\ (r.box.is_open => Mirror(r))
    BY RunParts DEF Near, Ready
  <1>2. CASE ~r.ok \/ r.co.pending = None
    <2>1. s = r
      BY <1>2 DEF FinishPending
    <2>2. Good(r, prods)
      BY <1>1, <1>2, GoodIsNear, ReadyFacts DEF ReadyAt
    <2> QED
      BY <1>2, <2>1, <2>2 DEF Finished
  <1>3. CASE r.ok /\ r.co.pending # None
    <2>1. PICK b \in Batches : b = r.co.pending
      BY <1>1, <1>3, CoParts
    <2>2. PICK at : at = Places(r.box, b)
      OBVIOUS
    <2>3. s = IF at = {} /\ CountedAway(r.box, b) THEN RevokePending(r)
              ELSE IF \E i \in at : r.box.records[i].batch # b THEN Failed(r)
              ELSE LET x == IF at = {} THEN Enqueue(r, b) ELSE r
                   IN  IF x.ok
                       THEN PersistState([x EXCEPT !.co.seq = @ + 1, !.co.pending = None,
                                                   !.co.started = 0, !.co.dirty = TRUE])
                       ELSE x
      BY <1>3, <2>1, <2>2 DEF FinishPending, Places, CountedAway
    <2>4. CASE at = {} /\ CountedAway(r.box, b)
      <3>1. s = RevokePending(r)
        BY <2>3, <2>4
      <3>2. Relinquished(r, s, prods) /\ ~s.ok
        BY <1>3, <3>1, RevokePendingOK
      <3> QED
        BY <3>2 DEF Relinquished, Finished
    <2>5. CASE ~(at = {} /\ CountedAway(r.box, b))
      <3>1. b \notin Expired(r) /\ Good(r, prods)
        BY <2>1, <2>2, <2>5, GoodIsNear
      <3>2. CASE \E i \in at : r.box.records[i].batch # b
        <4>1. s = Failed(r)
          BY <2>3, <2>5, <3>2
        <4> QED
          BY <3>1, <4>1, FailedFinished
      <3>3. CASE ~\E i \in at : r.box.records[i].batch # b
        <4>1. PICK x : x = IF at = {} THEN Enqueue(r, b) ELSE r
          OBVIOUS
        <4>2. s = IF x.ok
                  THEN PersistState([x EXCEPT !.co.seq = @ + 1, !.co.pending = None,
                                              !.co.started = 0, !.co.dirty = TRUE])
                  ELSE x
          BY <2>3, <2>5, <3>3, <4>1
        <4>3. Good(x, prods) /\ x.co = r.co /\ x.now = r.now /\ x.outage = r.outage
          <5>1. CASE at = {}
            <6>1. x = Enqueue(r, b)
              BY <4>1, <5>1
            <6>2. r.disk.state # None /\ r.disk.state.pending = b
              BY <1>1, <1>3, <2>1 DEF Bound, Saved
            <6>3. b \notin BatchesOf(r.box.records)
              BY <2>2, <5>1 DEF Places, BatchesOf, SameIdentity
            <6>4. Enqueued(r, x, b)
              BY <1>1, <1>3, <3>1, <6>1, <6>2, <6>3, EnqueueOK
            <6>5. StateFits(x.co, prods, Known(x))
              BY <1>1, <2>1, <6>4 DEF Enqueued, Bound, StateFits, Before
            <6>6. Fits(r.co, b)
              BY <1>1, <1>3, <2>1 DEF Fits, Bound, StateFits, Shaped
            <6>7. ~IsRevoked(r.co)
              BY <1>1, <1>3 DEF IsRevoked, Bound, StateFits, Shaped
            <6>8. Bound(x, prods)
              BY <1>1, <1>3, <6>4, <6>5, <6>6, <6>7 DEF Bound, Enqueued
            <6>9. Good(x, prods)
              BY <2>1, <6>4, <6>8 DEF Good, BoxOK, Ready, Enqueued
            <6> QED
              BY <6>4, <6>9 DEF Enqueued
          <5>2. CASE at # {}
            BY <3>1, <4>1, <5>2
          <5> QED
            BY <5>1, <5>2
        <4>4. CASE ~x.ok
          <5>1. s = x
            BY <4>2, <4>4
          <5> QED
            BY <4>3, <4>4, <5>1 DEF Finished
        <4>5. CASE x.ok
          <5>1. s = PersistState([x EXCEPT !.co.seq = @ + 1, !.co.pending = None,
                                           !.co.started = 0, !.co.dirty = TRUE])
            BY <4>2, <4>5
          <5>2. Finished(x, s)
            BY <1>3, <4>3, <4>5, <5>1, AdvanceOK
          <5> QED
            BY <1>3, <4>3, <5>2 DEF Finished
        <4> QED
          BY <4>4, <4>5
      <3> QED
        BY <3>2, <3>3
    <2> QED
      BY <2>4, <2>5
  <1> QED
    BY <1>1, <1>2, <1>3

\* flush_locked
LEMMA FlushOK ==
  ASSUME NEW r, prods \in Nat, Good(r, prods), NEW s, s = Flush(r)
  PROVE  Finished(r, s)
  <1>1. r \in Runs /\ r.ok \in BOOLEAN /\ Near(r, prods)
    BY RunParts, GoodIsNear DEF Good, BoxOK
  <1>2. CASE ~r.ok
    <2>1. s = r
      BY <1>2 DEF Flush
    <2> QED
      BY <1>2, <2>1 DEF Finished
  <1>3. CASE r.ok /\ PendingExpired(r)
    <2>1. s = RevokePending(r) /\ r.co.pending # None
      BY <1>3 DEF Flush, PendingExpired
    <2>2. Relinquished(r, s, prods) /\ ~s.ok
      BY <1>1, <1>3, <2>1, RevokePendingOK
    <2> QED
      BY <2>2 DEF Relinquished, Finished
  <1>4. CASE r.ok /\ ~PendingExpired(r)
    <2>1. PICK x : x = FlushState(r)
      OBVIOUS
    <2>2. s = FinishPending(x)
      BY <1>4, <2>1 DEF Flush
    <2>3. Flushed(r, x, prods)
      BY <2>1, FlushStateOK
    <2>4. Near(x, prods) /\ x.co.pending \notin Expired(x)
      BY <2>3, GoodIsNear DEF Flushed
    <2>5. Finished(x, s)
      BY <2>2, <2>3, <2>4, FinishPendingOK DEF Flushed
    <2> QED
      BY <1>4, <2>3, <2>5 DEF Flushed, Finished, SameMind
  <1> QED
    BY <1>1, <1>2, <1>3, <1>4

-----------------------------------------------------------------------------
(* The calls of the service. *)

\* Other flags of the records keep the outbox in step with the file.
LEMMA AlikeMirror ==
  ASSUME NEW a, NEW b, SameShell(a, b), Alike(a.records, b.records), a.losses = b.losses,
         NEW d, NEW es, Mirrors(b, d, es)
  PROVE  Mirrors(a, d, es)
  <1>1. /\ BatchesOf(a.records) = BatchesOf(b.records)
        /\ (Distinct(a.records) <=> Distinct(b.records))
        /\ \A t, fs : Shows(a.records, t, fs) <=> Shows(b.records, t, fs)
    BY AlikeSame
  <1>2. /\ DOMAIN a.records = DOMAIN b.records
        /\ \A i \in DOMAIN a.records :
            a.records[i].batch = b.records[i].batch /\ Stamp(a.records[i]) = Stamp(b.records[i])
    <2>1. DOMAIN a.records = 1..Len(a.records) /\ DOMAIN b.records = 1..Len(a.records)
      BY DEF Alike
    <2>2. ASSUME NEW i \in 1..Len(a.records)
          PROVE  /\ a.records[i].batch = b.records[i].batch
                 /\ Stamp(a.records[i]) = Stamp(b.records[i])
      <3>1. a.records[i].batch = b.records[i].batch /\ a.records[i].arrived = b.records[i].arrived
        BY DEF Alike, Twin
      <3> QED
        BY <3>1, Zenon DEF Stamp
    <2> QED
      BY <2>1, <2>2
  <1>3. Older(a.records, d.file.records)
    BY <1>2 DEF Mirrors, Older
  <1> QED
    BY <1>1, <1>3 DEF Mirrors, SameShell

LEMMA FlagsGood ==
  ASSUME NEW r, NEW p, Good(r, p), NEW s, SameDisks(r, s), s.co = r.co,
         SameShell(s.box, r.box), Alike(s.box.records, r.box.records),
         s.box.losses = r.box.losses
  PROVE  Good(s, p)
  <1>1. Ready(r, p)
    BY DEF Good, BoxOK, Ready
  <1>2. Ready(s, p) /\ Known(s) = Known(r) /\ Expired(s) = Expired(r) /\ s.disk = r.disk
    BY <1>1, SameReady DEF SameDisks
  <1>3. s.box.is_open => Mirror(s)
    BY <1>2, AlikeMirror DEF Good, BoxOK, Mirror, SameShell
  <1>4. Bound(s, p)
    BY <1>2 DEF Good, Bound, SameShell
  <1> QED
    BY <1>2, <1>3, <1>4 DEF Good, BoxOK, Ready

LEMMA ClearInflightOK ==
  ASSUME NEW r, NEW p, Good(r, p), NEW s, s = ClearInflight(r)
  PROVE  Good(s, p) /\ s.co = r.co /\ s.now = r.now /\ s.outage = r.outage /\ s.ok = r.ok
  <1>1. r \in Runs /\ r.box \in Boxes /\ r.box.records \in Seq(Records)
    BY RunParts, BoxParts DEF Good, BoxOK
  <1>2. PICK n \in Nat : n = Len(r.box.records) /\ DOMAIN r.box.records = 1..n
                         /\ \A i \in 1..n : r.box.records[i] \in Records
    BY <1>1, SeqIsFun
  <1>3. PICK q : q = [i \in 1..n |-> [r.box.records[i] EXCEPT !.in_flight = FALSE]]
    OBVIOUS
  <1>4. ASSUME NEW i \in 1..n PROVE q[i] \in Records /\ Twin(q[i], r.box.records[i])
    <2>1. PICK e \in BOOLEAN : e = FALSE
      OBVIOUS
    <2>2. q[i] = [r.box.records[i] EXCEPT !.in_flight = e]
      BY <1>3, <2>1
    <2> QED
      BY <1>2, <2>2, RecordInFlight
  <1>5. q \in Seq(Records) /\ Len(q) = n
    <2>1. q \in [1..n -> Records]
      BY <1>3, <1>4
    <2> QED
      BY <2>1, FunIsSeq
  <1>6. Alike(q, r.box.records)
    BY <1>1, <1>2, <1>4, <1>5 DEF Alike
  <1>7. PICK b : b = [r.box EXCEPT !.records = q]
    OBVIOUS
  <1>8. SameShell(b, r.box) /\ b.records = q /\ b.losses = r.box.losses /\ b \in Boxes
    BY <1>1, <1>5, <1>7, ShellRecords DEF SameShell
  <1>9. s = [r EXCEPT !.box = b]
    BY <1>2, <1>3, <1>7 DEF ClearInflight
  <1>10. SameDisks(r, s) /\ s.box = b /\ s.co = r.co /\ s.ok = r.ok
    BY <1>1, <1>8, <1>9 DEF Runs, SameDisks
  <1>11. Good(s, p)
    BY <1>6, <1>8, <1>10, FlagsGood
  <1> QED
    BY <1>10, <1>11 DEF SameDisks

\* Other lifecycle of the same context.
Paused(c, d) ==
    /\ d \in Coordinators /\ d.is_open = c.is_open /\ d.ctx = c.ctx
    /\ d.life = IF c.life = "enabled" THEN "suspended" ELSE c.life
    /\ d.archive = c.archive /\ d.prod = c.prod /\ d.seq = c.seq /\ d.pending = c.pending
    /\ d.started = c.started /\ d.dirty = TRUE /\ d.cleanup = c.cleanup

LEMMA PausedOK ==
  ASSUME NEW c \in Coordinators, NEW d, d = [Suspend(c) EXCEPT !.dirty = TRUE]
  PROVE  Paused(c, d)
  <1>1. PICK k \in LifecycleStates : k = IF c.life = "enabled" THEN "suspended" ELSE c.life
    BY CoParts DEF LifecycleStates
  <1>2. d = [c EXCEPT !.life = k, !.dirty = TRUE]
    BY <1>1 DEF Suspend
  <1> QED
    BY <1>1, <1>2 DEF Paused, Coordinators

LEMMA PausedGood ==
  ASSUME NEW r, NEW p, Good(r, p), NEW s, SameDisks(r, s), s.box = r.box, Paused(r.co, s.co)
  PROVE  Good(s, p)
  <1>1. Ready(r, p) /\ Bound(r, p)
    BY DEF Good, BoxOK, Ready
  <1>2. Ready(s, p) /\ Known(s) = Known(r) /\ Expired(s) = Expired(r) /\ s.disk = r.disk
    BY <1>1, SameReady DEF SameDisks
  <1>3. s.box.is_open => Mirror(s)
    BY <1>2 DEF Good, BoxOK, Mirror
  <1>4. (s.co.life = "revoked") <=> (r.co.life = "revoked")
    BY DEF Paused
  <1>5. StateFits(s.co, p, Known(r))
    <2>1. StateFits(r.co, p, Known(r))
      BY <1>1 DEF Bound
    <2>2. Shaped(s.co)
      BY <1>4, <2>1 DEF StateFits, Shaped, Paused
    <2>3. \A b \in Known(r) : Before(s.co, b)
      BY <1>4, <2>1 DEF StateFits, Before, Paused
    <2> QED
      BY <2>1, <2>2, <2>3 DEF StateFits, Paused
  <1>6. RevokedBy(s.co) = RevokedBy(r.co) /\ \A b : Fits(s.co, b) <=> Fits(r.co, b)
    BY <1>4 DEF RevokedBy, Fits, Paused
  <1>7. Bound(s, p)
    BY <1>1, <1>2, <1>4, <1>5, <1>6 DEF Bound, IsRevoked, Paused
  <1> QED
    BY <1>2, <1>3, <1>7 DEF Good, BoxOK, Ready, Paused

\* What every call leaves.
Acted(r, s, p) == Good(s, p) /\ s.now = r.now /\ s.co.is_open = r.co.is_open

LEMMA DisconnectOK ==
  ASSUME NEW r, prods \in Nat, Good(r, prods), NEW s, s = ServerDisconnect(r)
  PROVE  Acted(r, s, prods)
  <1>1. PICK x : x = ClearInflight(r)
    OBVIOUS
  <1>2. Good(x, prods) /\ x.co = r.co /\ x.now = r.now
    BY <1>1, ClearInflightOK
  <1>3. x \in Runs /\ x.co \in Coordinators
    BY <1>2, RunParts DEF Good, BoxOK
  <1>4. PICK c : c = [Suspend(x.co) EXCEPT !.dirty = TRUE]
    OBVIOUS
  <1>5. Paused(x.co, c) /\ c \in Coordinators
    BY <1>3, <1>4, PausedOK DEF Paused
  <1>6. PICK y : y = [x EXCEPT !.co = c]
    OBVIOUS
  <1>7. SameDisks(x, y) /\ y.box = x.box /\ y.co = c
    BY <1>3, <1>5, <1>6 DEF Runs, SameDisks
  <1>8. s = Flush(y)
    BY <1>1, <1>4, <1>6 DEF ServerDisconnect
  <1>9. Good(y, prods)
    BY <1>2, <1>5, <1>7, PausedGood
  <1>10. Finished(y, s)
    BY <1>8, <1>9, FlushOK
  <1> QED
    BY <1>2, <1>5, <1>7, <1>10 DEF Finished, Acted, SameDisks, Paused

LEMMA ShutdownOK ==
  ASSUME NEW r, prods \in Nat, Good(r, prods), NEW s, s = ServiceShutdown(r)
  PROVE  Acted(r, s, prods)
  <1>1. PICK x : x = ServerDisconnect(r)
    OBVIOUS
  <1>2. PICK e \in BOOLEAN : e = TRUE
    OBVIOUS
  <1>3. PICK y : y = [x EXCEPT !.ok = e]
    OBVIOUS
  <1>4. s = Flush(y)
    BY <1>1, <1>2, <1>3 DEF ServiceShutdown, Anyway
  <1>5. Acted(r, x, prods)
    BY <1>1, DisconnectOK
  <1>6. Good(y, prods) /\ y.co = x.co /\ y.now = x.now
    BY <1>3, <1>5, OkGood DEF Acted
  <1>7. Finished(y, s)
    BY <1>4, <1>6, FlushOK
  <1> QED
    BY <1>5, <1>6, <1>7 DEF Acted, Finished

LEMMA StopOK ==
  ASSUME NEW r, NEW p, Good(r, p), r.ok, NEW s, s = ExplicitStop(r)
  PROVE  Acted(r, s, p)
  <1>1. CASE r.co.ctx = None
    BY <1>1 DEF ExplicitStop, Acted
  <1>2. CASE r.co.ctx # None
    <2>1. s = PersistRevocation([r EXCEPT !.co = Revoked(@)])
      BY <1>2 DEF ExplicitStop
    <2>2. Relinquished(r, s, p)
      BY <1>2, <2>1, RevokeOK, GoodIsNear
    <2> QED
      BY <2>2 DEF Relinquished, Acted
  <1> QED
    BY <1>1, <1>2

\* A sweep of the outbox by a coordinator without an intent.
LEMMA SweepGood ==
  ASSUME NEW r, NEW p, Good(r, p), r.box.is_open, r.ok => r.co.pending = None /\ ~r.co.cleanup,
         NEW s, s = PruneExpired(r, r.now, FALSE)
  PROVE  /\ Good(s, p) /\ s.co = r.co /\ s.now = r.now /\ s.outage = r.outage
         /\ s.ok => r.ok /\ s.box.is_open /\ s.box.barrier = 0
  <1>1. r \in Runs /\ Ready(r, p) /\ Mirror(r) /\ r.now \in Nat
    BY RunParts DEF Good, BoxOK, Ready
  <1>2. CASE ~r.ok
    <2>1. s = r
      BY <1>2 DEF PruneExpired
    <2> QED
      BY <1>2, <2>1
  <1>3. CASE r.ok
    <2>1. PICK e \in BOOLEAN : e = FALSE
      OBVIOUS
    <2>2. s = PruneExpired(r, r.now, e)
      BY <2>1
    <2>3. Swept(r, s, p)
      BY <1>1, <2>2, PruneExpiredOK
    <2>4. Good(s, p)
      BY <1>3, <2>3, CalmGood DEF Swept
    <2> QED
      BY <2>3, <2>4 DEF Swept, Calm
  <1> QED
    BY <1>2, <1>3

LEMMA MaintainOpenOK ==
  ASSUME NEW r, prods \in Nat, Good(r, prods), NEW s, s = MaintainOpen(r)
  PROVE  Finished(r, s) /\ (s.ok => s.box.is_open)
  <1>1. PICK x : x = Flush(r)
    OBVIOUS
  <1>2. s = IF x.box.is_open THEN PruneExpired(x, x.now, FALSE) ELSE x
    BY <1>1 DEF MaintainOpen
  <1>3. Finished(r, x)
    BY <1>1, FlushOK
  <1>4. CASE x.box.is_open
    <2>1. /\ Good(s, prods) /\ s.co = x.co /\ s.now = x.now /\ s.outage = x.outage
          /\ s.ok => x.ok /\ s.box.is_open
      BY <1>2, <1>3, <1>4, SweepGood DEF Finished
    <2> QED
      BY <1>3, <2>1 DEF Finished
  <1>5. CASE ~x.box.is_open
    <2>1. s = x
      BY <1>2, <1>5
    <2>2. s.ok => s.box.is_open
      BY <1>3, <2>1 DEF Finished, Good, Bound
    <2> QED
      BY <1>3, <2>1, <2>2
  <1> QED
    BY <1>4, <1>5

\* A batch is chosen only from a swept outbox of an enabled context.
LEMMA PollableOK ==
  ASSUME NEW r, prods \in Nat, Good(r, prods), NEW s, s = Pollable(r)
  PROVE  /\ Acted(r, s, prods)
         /\ s.ok => s.co.life = "enabled" /\ s.box.is_open /\ s.box.barrier = 0
  <1>1. PICK x : x = MaintainOpen(r)
    OBVIOUS
  <1>2. s = IF x.ok /\ x.co.life = "enabled" THEN PruneExpired(x, x.now, FALSE) ELSE Failed(x)
    BY <1>1 DEF Pollable
  <1>3. Finished(r, x) /\ (x.ok => x.box.is_open)
    BY <1>1, MaintainOpenOK
  <1>4. CASE x.ok /\ x.co.life = "enabled"
    <2>1. s = PruneExpired(x, x.now, FALSE)
      BY <1>2, <1>4
    <2>2. /\ Good(s, prods) /\ s.co = x.co /\ s.now = x.now /\ s.outage = x.outage
          /\ s.ok => x.ok /\ s.box.is_open /\ s.box.barrier = 0
      <3>1. Good(x, prods) /\ x.box.is_open /\ x.co.pending = None /\ ~x.co.cleanup
        BY <1>3, <1>4 DEF Finished
      <3> QED
        BY <2>1, <3>1, SweepGood
    <2> QED
      BY <1>3, <1>4, <2>2 DEF Finished, Acted
  <1>5. CASE ~(x.ok /\ x.co.life = "enabled")
    <2>1. s = Failed(x) /\ Good(x, prods)
      BY <1>2, <1>3, <1>5 DEF Finished
    <2>2. Finished(x, s)
      BY <2>1, FailedFinished
    <2>3. s.ok = FALSE
      <3>1. x \in Runs
        BY <2>1 DEF Good, BoxOK
      <3> QED
        BY <2>1, <3>1 DEF Failed, Runs
    <2> QED
      BY <1>3, <2>2, <2>3 DEF Finished, Acted
  <1> QED
    BY <1>4, <1>5

LEMMA AckOK ==
  ASSUME NEW r, prods \in Nat, Good(r, prods), NEW b, NEW k \in Answers, NEW s,
         s = ServerAck(r, b, k)
  PROVE  Acted(r, s, prods)
  <1>1. PICK x : x = Flush(r)
    OBVIOUS
  <1>2. s = Acknowledge(x, b, k)
    BY <1>1 DEF ServerAck
  <1>3. Finished(r, x) /\ Good(x, prods) /\ Ready(x, prods) /\ (x.box.is_open => Mirror(x))
        /\ Bound(x, prods)
    BY <1>1, FlushOK DEF Finished, Good, BoxOK, Ready
  <1>4. x.ok => x.disk.state # None /\ x.disk.state.pending = None
    BY <1>3 DEF Finished, Bound, Saved
  <1>5. Touched(x, s, prods)
    BY <1>2, <1>3, <1>4, AcknowledgeOK
  <1>6. CASE x.co.pending = None
    <2>1. Good(s, prods)
      BY <1>3, <1>5, <1>6, CalmGood DEF Touched, Bound
    <2> QED
      BY <1>3, <1>5, <2>1 DEF Touched, Finished, Acted, Calm
  <1>7. CASE x.co.pending # None
    <2>1. ~x.ok
      BY <1>3, <1>7 DEF Finished
    <2>2. s = x
      BY <1>2, <2>1 DEF Acknowledge, PruneExpired
    <2> QED
      BY <1>3, <2>2 DEF Finished, Acted
  <1> QED
    BY <1>6, <1>7

\* A later producer id may be drawn at any time.
LEMMA GoodLater ==
  ASSUME NEW r, NEW p \in Nat, NEW q \in Nat, p <= q, Good(r, p)
  PROVE  Good(r, q)
  <1>1. ASSUME NEW x \in States \cup Coordinators, NEW bs, StateFits(x, p, bs)
        PROVE  StateFits(x, q, bs)
    <2>1. x.prod \in Nat
      BY DEF States, Coordinators
    <2> QED
      BY <1>1, <2>1 DEF StateFits
  <1>2. r \in Runs /\ r.co \in Coordinators /\ r.seen \in Seq(Disks) /\ SeenOK(r, p) /\ Bound(r, p)
    BY RunParts DEF Good, BoxOK
  <1>3. ASSUME NEW k \in 1..Len(r.seen)
        PROVE  FilesOK(r.seen[k], q, KnownAt(r.seen, k))
    <2>1. FilesOK(r.seen[k], p, KnownAt(r.seen, k)) /\ r.seen[k] \in Disks
      BY <1>2 DEF SeenOK
    <2>2. r.seen[k].state # None => r.seen[k].state \in States
      BY <2>1 DEF Disks
    <2> QED
      BY <1>1, <2>1, <2>2 DEF FilesOK
  <1>4. SeenOK(r, q)
    BY <1>2, <1>3 DEF SeenOK
  <1>5. Bound(r, q)
    BY <1>1, <1>2 DEF Bound
  <1> QED
    BY <1>2, <1>4, <1>5 DEF Good, BoxOK

\* The coordinator c may be written as enabled over the files of the run.
Enables(r, c, p) ==
    /\ c \in Coordinators /\ c.is_open = r.co.is_open /\ c.life = "enabled"
    /\ c.pending = None /\ c.cleanup = FALSE
    /\ StateFits(c, p, Known(r)) /\ RevokedBy(r.co) \subseteq RevokedBy(c)
    /\ \A b \in FileBatches(r.disk) : Fits(c, b)

LEMMA EnablesOK ==
  ASSUME NEW r, NEW p, Good(r, p), r.ok, ~r.co.cleanup, NEW c, Enables(r, c, p), NEW z,
         z = PersistState([r EXCEPT !.co = c]), NEW s,
         s = IF z.ok THEN z ELSE [z EXCEPT !.co = [Suspend(@) EXCEPT !.dirty = TRUE]]
  PROVE  Acted(r, s, p)
  <1>1. r \in Runs /\ Ready(r, p) /\ Bound(r, p) /\ r.box.is_open /\ Mirror(r)
    BY DEF Good, BoxOK, Ready, Bound
  <1>2. PICK y : y = [r EXCEPT !.co = c]
    OBVIOUS
  <1>3. SameDisks(r, y) /\ y.box = r.box /\ y.co = c /\ y.ok = r.ok
    BY <1>1, <1>2 DEF Runs, SameDisks, Enables
  <1>4. /\ Ready(y, p) /\ Known(y) = Known(r) /\ Expired(y) = Expired(r)
        /\ y.disk = r.disk /\ y.now = r.now
    BY <1>1, <1>3, SameReady DEF SameDisks
  <1>5. None \notin Expired(r)
    BY <1>1, ReadyFacts DEF ReadyAt
  <1>6. witnessed \subseteq RevokedBy(c)
    BY <1>1 DEF Bound, Enables
  <1>7. StateWritten(y, z, p)
    <2>1. /\ StateFits(y.co, p, Known(y)) /\ witnessed \subseteq RevokedBy(y.co)
          /\ \A b \in FileBatches(y.disk) : Fits(y.co, b)
          /\ y.co.pending \notin Expired(y)
      BY <1>3, <1>4, <1>5, <1>6 DEF Enables
    <2> QED
      BY <1>2, <1>4, <2>1, PersistStateBase
  <1>8. /\ Ready(z, p) /\ z.box = r.box /\ Known(z) = Known(r) /\ Expired(z) \subseteq Expired(r)
        /\ z.disk.file = r.disk.file /\ z.disk.expiry = r.disk.expiry
        /\ z.disk.revoked = r.disk.revoked /\ z.disk.blocked = r.disk.blocked
        /\ SameMind(z.co, c) /\ z.co.cleanup = FALSE /\ z.now = r.now
    BY <1>3, <1>4, <1>7 DEF StateWritten, Enables
  <1>9. z \in Runs /\ z.co \in Coordinators
    BY <1>8, RunParts DEF Ready
  <1>10. FileBatches(z.disk) = FileBatches(r.disk)
    BY <1>8 DEF FileBatches
  <1>11. Mirror(z)
    BY <1>1, <1>8 DEF Mirror, Mirrors, Shows
  <1>12. r.disk.blocked = FALSE
    BY <1>1, RunParts, DiskParts DEF Bound
  <1>13. CASE z.ok
    <2>1. s = z
      BY <1>13
    <2>2. PICK x : x = z.disk.state
      OBVIOUS
    <2>3. x = StateOf(c) /\ z.co.dirty = FALSE
      BY <1>3, <1>7, <1>13, <2>2 DEF StateWritten
    <2>4. x \in States /\ Saved(c, x) /\ RevokedBy(x) = RevokedBy(c) /\ x # None
      BY <2>3, StateOfOK, StateParts DEF Enables
    <2>5. /\ \A bs : StateFits(z.co, p, bs) <=> StateFits(c, p, bs)
          /\ RevokedBy(z.co) = RevokedBy(c) /\ (IsRevoked(z.co) <=> IsRevoked(c))
          /\ \A b : Fits(z.co, b) <=> Fits(c, b)
          /\ \A m : Saved(z.co, m) <=> Saved(c, m)
      BY <1>8, SameMindFits
    <2>6. ~IsRevoked(c)
      BY DEF Enables, IsRevoked
    <2>7. Bound(z, p)
      BY <1>1, <1>6, <1>8, <1>10, <1>12, <2>2, <2>3, <2>4, <2>5, <2>6 DEF Bound, Enables
    <2>8. z.co.pending \notin Expired(z)
      BY <1>5, <1>8 DEF SameMind, Enables
    <2> QED
      BY <1>8, <1>9, <1>11, <2>1, <2>7, <2>8 DEF Good, BoxOK, Ready, Acted, SameMind, Enables
  <1>14. CASE ~z.ok
    <2>1. PICK d : d = [Suspend(z.co) EXCEPT !.dirty = TRUE]
      OBVIOUS
    <2>2. Paused(z.co, d) /\ d \in Coordinators
      <3>1. Paused(z.co, d)
        BY <1>9, <2>1, PausedOK
      <3> QED
        BY <3>1 DEF Paused
    <2>3. s = [z EXCEPT !.co = d]
      BY <1>14, <2>1
    <2>4. SameDisks(z, s) /\ s.box = z.box /\ s.co = d
      BY <1>9, <2>2, <2>3 DEF Runs, SameDisks
    <2>5. /\ Ready(s, p) /\ Known(s) = Known(z) /\ Expired(s) = Expired(z)
          /\ s.disk = z.disk /\ s.now = z.now
      <3>1. Ready(s, p) /\ Known(s) = Known(z) /\ Expired(s) = Expired(z)
        BY <1>8, <2>4, SameReady
      <3> QED
        BY <2>4, <3>1 DEF SameDisks
    <2>6. /\ d.ctx = c.ctx /\ d.life = "suspended" /\ d.archive = c.archive /\ d.prod = c.prod
          /\ d.seq = c.seq /\ d.pending = None /\ d.started = c.started /\ d.dirty = TRUE
          /\ d.cleanup = FALSE /\ d.is_open = r.co.is_open
      BY <1>8, <2>2 DEF Paused, SameMind, Enables
    <2>7. StateFits(d, p, Known(r)) /\ RevokedBy(d) = RevokedBy(c)
          /\ \A b : Fits(c, b) => Fits(d, b)
      <3>1. StateFits(c, p, Known(r)) /\ c.life = "enabled" /\ c.pending = None
        BY DEF Enables
      <3>2. Shaped(d)
        BY <2>6, <3>1 DEF StateFits, Shaped
      <3>3. \A b \in Known(r) : Before(d, b)
        BY <2>6, <3>1 DEF StateFits, Before
      <3> QED
        BY <2>6, <3>1, <3>2, <3>3 DEF StateFits, RevokedBy, Fits
    <2>8. z.disk = r.disk
      BY <1>4, <1>7, <1>14 DEF StateWritten
    <2>9. Bound(s, p)
      BY <1>1, <1>8, <1>12, <2>4, <2>5, <2>6, <2>7, <2>8 DEF Bound, Enables, IsRevoked
    <2>10. s.co.pending \notin Expired(s)
      BY <1>5, <1>8, <2>4, <2>5, <2>6
    <2>11. Mirror(s)
      BY <1>11, <2>4, <2>5 DEF Mirror
    <2> QED
      BY <1>8, <2>4, <2>5, <2>6, <2>9, <2>10, <2>11 DEF Good, BoxOK, Ready, Acted
  <1> QED
    BY <1>13, <1>14

\* The context of the coordinator is enabled again.
LEMMA ResumeEnables ==
  ASSUME NEW r, NEW p, Good(r, p), r.co.pending = None, ~r.co.cleanup, ~IsRevoked(r.co),
         r.co.ctx # None, r.co.ctx \notin r.co.archive, NEW c, c = [r.co EXCEPT !.life = "enabled"]
  PROVE  Enables(r, c, p)
  <1>1. r \in Runs /\ r.co \in Coordinators /\ Bound(r, p) /\ StateFits(r.co, p, Known(r))
        /\ r.co.cleanup \in BOOLEAN
    BY RunParts, CoParts DEF Good, BoxOK, Bound
  <1>2. /\ c \in Coordinators /\ c.life = "enabled" /\ c.is_open = r.co.is_open
        /\ c.ctx = r.co.ctx /\ c.archive = r.co.archive /\ c.prod = r.co.prod
        /\ c.seq = r.co.seq /\ c.pending = None /\ c.started = r.co.started
        /\ c.cleanup = FALSE
    BY <1>1 DEF Coordinators, LifecycleStates
  <1>3. Shaped(c)
    BY <1>1, <1>2 DEF StateFits, Shaped
  <1>4. \A b \in Known(r) : Before(c, b)
    BY <1>1, <1>2 DEF StateFits, Before, IsRevoked
  <1>5. RevokedBy(r.co) \subseteq RevokedBy(c)
    BY <1>2 DEF RevokedBy, IsRevoked
  <1>6. \A b \in FileBatches(r.disk) : Fits(c, b)
    BY <1>1, <1>2 DEF Bound, Fits
  <1> QED
    BY <1>1, <1>2, <1>3, <1>4, <1>5, <1>6 DEF Enables, StateFits

\* The archive with the context that is replaced.
LEMMA ArchiveOK ==
  ASSUME NEW c \in Coordinators, Shaped(c), Cardinality(c.archive) < MaximumRevoked, NEW a,
         a = IF NeedsArchive(c) THEN c.archive \cup {c.ctx} ELSE c.archive
  PROVE  /\ a \in SUBSET Contexts /\ IsFiniteSet(a) /\ Cardinality(a) <= MaximumRevoked
         /\ RevokedBy(c) \subseteq a /\ a \subseteq c.archive \cup {c.ctx}
  <1>1. c.ctx \in Contexts \cup {None} /\ c.archive \in SUBSET Contexts /\ IsFiniteSet(c.archive)
    BY CoParts DEF Shaped
  <1>2. Cardinality(c.archive) \in Nat /\ MaximumRevoked \in Nat
    BY <1>1, FS_CardinalityType, CoordinatorAssumption
  <1>3. CASE NeedsArchive(c)
    <2>1. a = c.archive \cup {c.ctx} /\ c.ctx \notin c.archive /\ c.ctx \in Contexts
      BY <1>1, <1>3 DEF NeedsArchive
    <2>2. IsFiniteSet(a) /\ Cardinality(a) = Cardinality(c.archive) + 1
      BY <1>1, <2>1, FS_AddElement
    <2> QED
      BY <1>1, <1>2, <2>1, <2>2 DEF RevokedBy
  <1>4. CASE ~NeedsArchive(c)
    <2>1. a = c.archive
      BY <1>4
    <2>2. IsRevoked(c) => c.ctx \in c.archive
      BY <1>4 DEF NeedsArchive, Shaped, IsRevoked
    <2> QED
      BY <1>1, <1>2, <2>1, <2>2 DEF RevokedBy, IsRevoked
  <1> QED
    BY <1>3, <1>4

\* A new context takes the place of none or of a revoked one.
LEMMA IntroduceEnables ==
  ASSUME NEW r, prods \in Nat, NEW p \in Nat, p = prods + 1, Good(r, p), r.co.pending = None,
         ~r.co.cleanup, NEW k \in Contexts, k # r.co.ctx, ~IdentityRevoked(r.co, k),
         r.co.ctx = None \/ IsRevoked(r.co), CanBind(r.co, k), NEW c,
         c = [Bind(r.co, k) EXCEPT !.life = "enabled", !.prod = p, !.seq = 1]
  PROVE  Enables(r, c, p)
  <1>1. r \in Runs /\ r.co \in Coordinators /\ Bound(r, p) /\ StateFits(r.co, p, Known(r))
        /\ Shaped(r.co) /\ Ready(r, p) /\ r.co.cleanup \in BOOLEAN
    BY RunParts, CoParts DEF Good, BoxOK, Bound, StateFits, Ready
  <1>2. k \notin r.co.archive /\ Cardinality(r.co.archive) < MaximumRevoked
    BY DEF IdentityRevoked, CanBind
  <1>3. PICK a : a = IF NeedsArchive(r.co) THEN r.co.archive \cup {r.co.ctx} ELSE r.co.archive
    OBVIOUS
  <1>4. /\ a \in SUBSET Contexts /\ IsFiniteSet(a) /\ Cardinality(a) <= MaximumRevoked
        /\ RevokedBy(r.co) \subseteq a /\ k \notin a
    BY <1>1, <1>2, <1>3, ArchiveOK
  <1>5. PICK m \in LifecycleStates : m = IF k \in a THEN "revoked" ELSE "disabled"
    BY DEF LifecycleStates
  <1>6. Bind(r.co, k) = [r.co EXCEPT !.ctx = k, !.archive = a, !.life = m]
    BY <1>3, <1>5 DEF Bind
  <1>7. PICK u : u = Bind(r.co, k)
    OBVIOUS
  <1>8. /\ u \in Coordinators /\ u.ctx = k /\ u.archive = a /\ u.is_open = r.co.is_open
        /\ u.pending = r.co.pending /\ u.started = r.co.started /\ u.cleanup = r.co.cleanup
    BY <1>1, <1>4, <1>6, <1>7 DEF Coordinators
  <1>9. c = [u EXCEPT !.life = "enabled", !.prod = p, !.seq = 1]
    BY <1>7
  <1>10. /\ c \in Coordinators /\ c.life = "enabled" /\ c.is_open = r.co.is_open
         /\ c.ctx = k /\ c.archive = a /\ c.prod = p /\ c.seq = 1 /\ c.pending = None
         /\ c.started = r.co.started /\ c.cleanup = FALSE
    <2>1. c \in Coordinators
      <3>1. PICK l \in LifecycleStates : l = "enabled"
        BY DEF LifecycleStates
      <3>2. PICK n \in Nat : n = 1
        OBVIOUS
      <3>3. c = [u EXCEPT !.life = l, !.prod = p, !.seq = n]
        BY <1>9, <3>1, <3>2
      <3>4. u \in Coordinators
        BY <1>8
      <3> QED
        BY <3>3, <3>4 DEF Coordinators
    <2>2. /\ c.life = "enabled" /\ c.prod = p /\ c.seq = 1 /\ c.is_open = u.is_open
          /\ c.ctx = u.ctx /\ c.archive = u.archive /\ c.pending = u.pending
          /\ c.started = u.started /\ c.cleanup = u.cleanup
      BY <1>8, <1>9 DEF Coordinators
    <2>3. r.co.cleanup = FALSE
      BY <1>1
    <2> QED
      BY <1>8, <2>1, <2>2, <2>3
  <1>11. Shaped(c)
    <2>1. c.started = 0 /\ k # None /\ 1 <= MaximumSequence /\ p # 0
      BY <1>1, <1>10, NoneAssumption, CoordinatorAssumption DEF Shaped
    <2> QED
      BY <1>4, <1>10, <2>1 DEF Shaped
  <1>12. \A b \in Known(r) : Before(c, b)
    <2>1. KnownOK(Known(r))
      BY <1>1, ReadyFacts DEF ReadyAt, FilesOK
    <2> QED
      BY <1>10, <2>1 DEF Before, KnownOK, Batches
  <1>13. RevokedBy(r.co) \subseteq RevokedBy(c)
    BY <1>4, <1>10 DEF RevokedBy
  <1>14. FileBatches(r.disk) = {}
    <2>1. FileBatches(r.disk) \subseteq Batches
      BY <1>1, ReadyFacts DEF ReadyAt, FilesOK
    <2>2. CASE IsRevoked(r.co)
      BY <1>1, <2>2 DEF Bound
    <2>3. CASE ~IsRevoked(r.co)
      <3>1. \A b \in FileBatches(r.disk) : b.ctx = None /\ b.ctx \in Contexts
        BY <1>1, <2>1, <2>3 DEF Bound, Fits, Batches
      <3> QED
        BY <3>1, NoneAssumption
    <2> QED
      BY <2>2, <2>3
  <1>15. c.prod <= p
    BY <1>10
  <1> QED
    BY <1>10, <1>11, <1>12, <1>13, <1>14, <1>15 DEF Enables, StateFits

LEMMA EnableOK ==
  ASSUME NEW r, prods \in Nat, Good(r, prods), NEW k \in Contexts, NEW p \in Nat, p = prods + 1,
         NEW s, s = ServerEnable(r, k, p)
  PROVE  Acted(r, s, p)
  <1>1. PICK x : x = Flush(r)
    OBVIOUS
  <1>2. Finished(r, x)
    BY <1>1, FlushOK
  <1>3. Good(x, prods) /\ x.now = r.now /\ x.co.is_open = r.co.is_open
    BY <1>2 DEF Finished
  <1>4. Good(x, p)
    BY <1>3, GoodLater
  <1>5. CASE ~x.ok
    <2>1. s = x
      BY <1>1, <1>5 DEF ServerEnable
    <2> QED
      BY <1>3, <1>4, <2>1 DEF Acted
  <1>6. CASE /\ x.ok
             /\ \/ IdentityRevoked(x.co, k)
                \/ x.co.ctx \notin {None, k} /\ ~IsRevoked(x.co)
                \/ ~CanBind(x.co, k)
    <2>1. s = Failed(x)
      BY <1>1, <1>6 DEF ServerEnable
    <2>2. PICK e \in BOOLEAN : e = FALSE
      OBVIOUS
    <2>3. s = [x EXCEPT !.ok = e]
      BY <2>1, <2>2 DEF Failed
    <2>4. Good(s, p) /\ s.co = x.co /\ s.now = x.now
      BY <1>4, <2>3, OkGood
    <2> QED
      BY <1>3, <2>4 DEF Acted
  <1>7. CASE /\ x.ok /\ ~IdentityRevoked(x.co, k) /\ CanBind(x.co, k)
             /\ x.co.ctx \in {None, k} \/ IsRevoked(x.co)
    <2>1. x.co.pending = None /\ ~x.co.cleanup
      BY <1>2, <1>7 DEF Finished
    <2>2. PICK c : c = IF x.co.ctx = k THEN [x.co EXCEPT !.life = "enabled"]
                       ELSE [Bind(x.co, k) EXCEPT !.life = "enabled", !.prod = p, !.seq = 1]
      OBVIOUS
    <2>3. PICK z : z = PersistState([x EXCEPT !.co = c])
      OBVIOUS
    <2>4. s = IF z.ok THEN z ELSE [z EXCEPT !.co = [Suspend(@) EXCEPT !.dirty = TRUE]]
      <3>1. CASE x.co.ctx = k
        <4>1. PersistState([x EXCEPT !.co.life = "enabled"]) = z
          BY <2>2, <2>3, <3>1
        <4> QED
          BY <1>1, <1>7, <3>1, <4>1 DEF ServerEnable
      <3>2. CASE x.co.ctx # k
        <4>1. PersistState([x EXCEPT !.co = [Bind(x.co, k) EXCEPT !.life = "enabled",
                                                                 !.prod = p, !.seq = 1]]) = z
          BY <2>2, <2>3, <3>2
        <4> QED
          BY <1>1, <1>7, <3>2, <4>1 DEF ServerEnable
      <3> QED
        BY <3>1, <3>2
    <2>5. Enables(x, c, p)
      <3>1. CASE x.co.ctx = k
        <4>1. k # None /\ ~IsRevoked(x.co) /\ x.co.ctx \notin x.co.archive
          BY <1>7, <3>1, NoneAssumption DEF IdentityRevoked
        <4>2. c = [x.co EXCEPT !.life = "enabled"]
          BY <2>2, <3>1
        <4> QED
          BY <1>4, <2>1, <3>1, <4>1, <4>2, ResumeEnables
      <3>2. CASE x.co.ctx # k
        <4>1. c = [Bind(x.co, k) EXCEPT !.life = "enabled", !.prod = p, !.seq = 1]
          BY <2>2, <3>2
        <4> QED
          BY <1>4, <1>7, <2>1, <3>2, <4>1, IntroduceEnables
      <3> QED
        BY <3>1, <3>2
    <2>6. Acted(x, s, p)
      BY <1>4, <1>7, <2>1, <2>3, <2>4, <2>5, EnablesOK
    <2> QED
      BY <1>3, <2>6 DEF Acted
  <1> QED
    BY <1>5, <1>6, <1>7

-----------------------------------------------------------------------------
(* Samples of the agent. *)

LEMMA CountLossOK ==
  ASSUME NEW r, NEW p, Good(r, p), NEW s, s = CountLoss(r)
  PROVE  Good(s, p) /\ s.now = r.now /\ s.co.is_open = r.co.is_open /\ s.ok = r.ok
  <1>1. Ready(r, p) /\ r \in Runs /\ r.co \in Coordinators /\ Bound(r, p)
    BY RunParts DEF Good, BoxOK, Ready
  <1>2. PICK c : c = [r.co EXCEPT !.dirty = TRUE]
    OBVIOUS
  <1>3. c \in Coordinators /\ SameMind(c, r.co) /\ c.dirty = TRUE /\ c.cleanup = r.co.cleanup
    BY <1>1, <1>2 DEF Coordinators, SameMind
  <1>4. s = [r EXCEPT !.co = c]
    BY <1>2 DEF CountLoss
  <1>5. SameDisks(r, s) /\ s.box = r.box /\ s.co = c /\ s.ok = r.ok
    BY <1>1, <1>3, <1>4 DEF Runs, SameDisks
  <1>6. /\ Ready(s, p) /\ Known(s) = Known(r) /\ Expired(s) = Expired(r)
        /\ s.disk = r.disk /\ s.now = r.now
    <2>1. Ready(s, p) /\ Known(s) = Known(r) /\ Expired(s) = Expired(r)
      BY <1>1, <1>5, SameReady
    <2> QED
      BY <1>5, <2>1 DEF SameDisks
  <1>7. /\ \A bs : StateFits(c, p, bs) <=> StateFits(r.co, p, bs)
        /\ RevokedBy(c) = RevokedBy(r.co) /\ (IsRevoked(c) <=> IsRevoked(r.co))
        /\ \A b : Fits(c, b) <=> Fits(r.co, b)
    BY <1>3, SameMindFits
  <1>8. Bound(s, p)
    BY <1>1, <1>3, <1>5, <1>6, <1>7 DEF Bound
  <1>9. s.box.is_open => Mirror(s)
    BY <1>5, <1>6 DEF Good, BoxOK, Mirror
  <1> QED
    BY <1>3, <1>5, <1>6, <1>8, <1>9 DEF Good, BoxOK, Ready, SameMind

LEMMA AnywayOK ==
  ASSUME NEW r, NEW p, Good(r, p), NEW s, s = Anyway(r)
  PROVE  Good(s, p) /\ s.co = r.co /\ s.now = r.now
  <1>1. PICK e \in BOOLEAN : e = TRUE
    OBVIOUS
  <1>2. s = [r EXCEPT !.ok = e]
    BY <1>1 DEF Anyway
  <1> QED
    BY <1>2, OkGood

LEMMA FailedOK ==
  ASSUME NEW r, NEW p, Good(r, p), NEW s, s = Failed(r)
  PROVE  Acted(r, s, p) /\ ~s.ok
  <1>1. PICK e \in BOOLEAN : e = FALSE
    OBVIOUS
  <1>2. s = [r EXCEPT !.ok = e]
    BY <1>1 DEF Failed
  <1>3. Good(s, p) /\ s.co = r.co /\ s.now = r.now /\ s.ok = e
    BY <1>2, OkGood
  <1> QED
    BY <1>1, <1>3 DEF Acted

LEMMA DropRemainingOK ==
  ASSUME NEW r, prods \in Nat, Good(r, prods), NEW s, s = DropRemaining(r)
  PROVE  Acted(r, s, prods) /\ ~s.ok
  <1>1. PICK x : x = Anyway(r)
    OBVIOUS
  <1>2. PICK y : y = CountLoss(x)
    OBVIOUS
  <1>3. PICK z : z = Flush(y)
    OBVIOUS
  <1>4. s = Failed(z)
    BY <1>1, <1>2, <1>3 DEF DropRemaining
  <1>5. Good(x, prods) /\ x.co = r.co /\ x.now = r.now
    BY <1>1, AnywayOK
  <1>6. Good(y, prods) /\ y.now = x.now /\ y.co.is_open = x.co.is_open
    BY <1>2, <1>5, CountLossOK
  <1>7. Finished(y, z)
    BY <1>3, <1>6, FlushOK
  <1>8. Acted(z, s, prods) /\ ~s.ok
    BY <1>4, <1>7, FailedOK DEF Finished
  <1> QED
    BY <1>5, <1>6, <1>7, <1>8 DEF Acted, Finished

\* The coordinator with a new intent.
Intends(c, b, t, d) ==
    /\ d \in Coordinators /\ d.is_open = c.is_open /\ d.ctx = c.ctx /\ d.life = c.life
    /\ d.archive = c.archive /\ d.prod = c.prod /\ d.seq = c.seq /\ d.pending = b
    /\ d.started = t /\ d.dirty = TRUE /\ d.cleanup = c.cleanup

\* The state is ready for another intent.
Idle(c) == c.pending = None /\ c.life = "enabled" /\ ~c.cleanup

\* The intent of the next batch.
NextBatch(r, body) ==
    [ctx |-> r.co.ctx, prod |-> r.co.prod, seq |-> r.co.seq, body |-> body, stamp |-> r.now]
Intended(r, b) == [r EXCEPT !.co.pending = b, !.co.started = r.now, !.co.dirty = TRUE]

LEMMA IntendOK ==
  ASSUME NEW r, prods \in Nat, Good(r, prods), Idle(r.co), r.co.seq # MaximumSequence,
         NEW body \in Nat, NEW b, b = NextBatch(r, body), NEW s, s = Intended(r, b)
  PROVE  /\ Good(s, prods) /\ s.ok = r.ok /\ s.now = r.now /\ s.co.is_open = r.co.is_open
         /\ s.co.life = "enabled"
  <1>1. Ready(r, prods) /\ r \in Runs /\ r.co \in Coordinators /\ Bound(r, prods)
        /\ r.now \in Nat \ {0} /\ StateFits(r.co, prods, Known(r)) /\ Shaped(r.co)
    BY RunParts DEF Good, BoxOK, Ready, Bound, StateFits
  <1>2. r.co.ctx \in Contexts /\ r.co.ctx # None /\ r.co.prod \in Nat /\ r.co.seq \in Nat
    BY <1>1, CoParts DEF Shaped, Idle
  <1>3. b \in Batches /\ b # None
    <2>1. b \in Batches
      BY <1>1, <1>2 DEF Batches, NextBatch
    <2> QED
      BY <2>1, NoneAssumption
  <1>4. b.ctx = r.co.ctx /\ b.prod = r.co.prod /\ b.seq = r.co.seq
    BY DEF NextBatch
  <1>5. PICK t \in Nat \ {0} : t = r.now
    BY <1>1
  <1>6. PICK c : c = [r.co EXCEPT !.pending = b, !.started = t, !.dirty = TRUE]
    OBVIOUS
  <1>7. Intends(r.co, b, t, c)
    <2> HIDE DEF Intends
    <2>1. c \in Coordinators
      BY <1>1, <1>3, <1>5, <1>6 DEF Coordinators
    <2>2. /\ c.is_open = r.co.is_open /\ c.ctx = r.co.ctx /\ c.life = r.co.life
          /\ c.archive = r.co.archive /\ c.prod = r.co.prod /\ c.seq = r.co.seq
          /\ c.pending = b /\ c.started = t /\ c.dirty = TRUE /\ c.cleanup = r.co.cleanup
      BY <1>1, <1>6 DEF Coordinators
    <2> QED
      BY <2>1, <2>2 DEF Intends
  <1>8. s = [r EXCEPT !.co = c]
    BY <1>1, <1>5, <1>6 DEF Intended
  <1>9. SameDisks(r, s) /\ s.box = r.box /\ s.co = c /\ s.ok = r.ok
    <2>1. c \in Coordinators
      BY <1>7 DEF Intends
    <2> QED
      BY <1>1, <1>8, <2>1 DEF Runs, SameDisks
  <1>10. /\ Ready(s, prods) /\ Known(s) = Known(r) /\ Expired(s) = Expired(r)
         /\ s.disk = r.disk /\ s.now = r.now
    <2>1. Ready(s, prods) /\ Known(s) = Known(r) /\ Expired(s) = Expired(r)
      BY <1>1, <1>9, SameReady
    <2> QED
      BY <1>9, <2>1 DEF SameDisks
  <1>11. Known(r) \subseteq Batches /\ Expired(r) \subseteq Known(r)
         /\ FileBatches(r.disk) \subseteq Batches
    BY <1>1, ReadyFacts DEF ReadyAt, FilesOK
  <1>12. ASSUME NEW k \in Known(r), k.prod = r.co.prod PROVE k.seq < r.co.seq
    <2>1. k # None
      BY <1>11, NoneAssumption
    <2> QED
      BY <1>1, <1>12, <2>1 DEF StateFits, Before, Idle
  <1>13. b \notin Known(r)
    BY <1>2, <1>4, <1>12
  <1>14. StateFits(c, prods, Known(r))
    <2>1. r.co.seq < MaximumSequence
      BY <1>1, <1>2, CoordinatorAssumption DEF Shaped
    <2>2. Shaped(c)
      BY <1>1, <1>2, <1>3, <1>4, <1>5, <1>7, <2>1 DEF Shaped, Intends, Idle
    <2>3. \A k \in Known(r) : Before(c, k)
      BY <1>7, <1>12 DEF Before, Intends
    <2> QED
      BY <1>1, <1>7, <2>2, <2>3 DEF StateFits, Intends
  <1>15. RevokedBy(c) = RevokedBy(r.co) /\ \A k : Fits(r.co, k) => Fits(c, k)
    BY <1>7 DEF RevokedBy, Intends, Fits, Idle
  <1>16. Bound(s, prods)
    BY <1>1, <1>7, <1>9, <1>10, <1>14, <1>15 DEF Bound, Intends, Idle, IsRevoked
  <1>17. s.box.is_open => Mirror(s)
    BY <1>9, <1>10 DEF Good, BoxOK, Mirror
  <1>18. s.co.pending \notin Expired(s)
    BY <1>7, <1>9, <1>10, <1>11, <1>13 DEF Intends
  <1> QED
    BY <1>7, <1>9, <1>10, <1>16, <1>17, <1>18 DEF Good, BoxOK, Ready, Intends, Idle

\* A chunk was taken, or the rest of the samples dropped.
Taken(r, s) == Acted(r, s, prods) /\ (s.ok => Idle(s.co))

LEMMA IngestChunkOK ==
  ASSUME NEW r, prods \in Nat, Good(r, prods), Idle(r.co), NEW body \in Nat,
         NEW last \in BOOLEAN, NEW s, s = IngestChunk(r, body, last)
  PROVE  Taken(r, s)
  <1>1. CASE r.co.seq = MaximumSequence \/ Len(r.box.records) >= MaximumOutboxBatches
    <2>1. s = DropRemaining(r)
      BY <1>1 DEF IngestChunk
    <2> QED
      BY <2>1, DropRemainingOK DEF Taken
  <1>2. CASE ~(r.co.seq = MaximumSequence \/ Len(r.box.records) >= MaximumOutboxBatches)
    <2>1. PICK b : b = NextBatch(r, body)
      OBVIOUS
    <2>2. PICK x : x = Intended(r, b)
      OBVIOUS
    <2>3. PICK y : y = Flush(x)
      OBVIOUS
    <2>4. s = IF y.ok \/ last THEN y ELSE Failed(PersistState(CountLoss(Anyway(y))))
      BY <1>2, <2>1, <2>2, <2>3 DEF IngestChunk, NextBatch, Intended
    <2>5. /\ Good(x, prods) /\ x.now = r.now /\ x.co.is_open = r.co.is_open
          /\ x.co.life = "enabled"
      BY <1>2, <2>1, <2>2, IntendOK
    <2>6. Finished(x, y)
      BY <2>3, <2>5, FlushOK
    <2>7. y.ok => Idle(y.co)
      BY <2>5, <2>6 DEF Finished, Idle
    <2>8. Acted(r, y, prods)
      BY <2>5, <2>6 DEF Finished, Acted
    <2>9. CASE y.ok \/ last
      <3>1. s = y
        BY <2>4, <2>9
      <3> QED
        BY <2>7, <2>8, <3>1 DEF Taken
    <2>10. CASE ~(y.ok \/ last)
      <3>1. PICK u : u = Anyway(y)
        OBVIOUS
      <3>2. PICK v : v = CountLoss(u)
        OBVIOUS
      <3>3. PICK w : w = PersistState(v)
        OBVIOUS
      <3>4. s = Failed(w)
        BY <2>4, <2>10, <3>1, <3>2, <3>3
      <3>5. Good(u, prods) /\ u.co = y.co /\ u.now = y.now
        BY <2>8, <3>1, AnywayOK DEF Acted
      <3>6. Good(v, prods) /\ v.now = u.now /\ v.co.is_open = u.co.is_open
        BY <3>2, <3>5, CountLossOK
      <3>7. Good(w, prods) /\ StateWritten(v, w, prods)
        BY <3>3, <3>6, PersistStateOK
      <3>8. Acted(w, s, prods) /\ ~s.ok
        BY <3>4, <3>7, FailedOK
      <3> QED
        BY <2>8, <3>5, <3>6, <3>7, <3>8 DEF Acted, Taken, StateWritten, SameMind
    <2> QED
      BY <2>9, <2>10
  <1> QED
    BY <1>1, <1>2

\* The chunk i of the samples qs.
ChunkOf(x, qs, i) == IF x.ok THEN IngestChunk(x, qs[i], i = Len(qs)) ELSE x
IsTaking(f, x, qs, n) == f = [i \in 0..n |-> IF i = 0 THEN x ELSE ChunkOf(f[i - 1], qs, i)]

LEMMA TakingExists ==
  ASSUME NEW x, NEW qs, NEW n \in Nat
  PROVE  \E f : IsTaking(f, x, qs, n)
  <1> DEFINE S == {k \in Nat : \E f : IsTaking(f, x, qs, k)}
  <1>1. 0 \in S
    <2>1. PICK f : f = [i \in 0..0 |-> x]
      OBVIOUS
    <2>2. IsTaking(f, x, qs, 0)
      BY <2>1 DEF IsTaking
    <2> QED
      BY <2>2
  <1>2. ASSUME NEW m \in S PROVE m + 1 \in S
    <2>1. PICK k \in Nat : k = m + 1 /\ m \in Nat
      OBVIOUS
    <2>2. PICK f : IsTaking(f, x, qs, m)
      OBVIOUS
    <2>3. PICK g : g = [i \in 0..k |-> IF i = k THEN ChunkOf(f[m], qs, k) ELSE f[i]]
      OBVIOUS
    <2>4. ASSUME NEW i \in 0..k
          PROVE  g[i] = IF i = 0 THEN x ELSE ChunkOf(g[i - 1], qs, i)
      <3>1. CASE i = k
        BY <2>1, <2>3, <3>1
      <3>2. CASE i # k
        <4>1. i \in 0..m /\ g[i] = f[i]
          BY <2>1, <2>3, <3>2
        <4>2. f[i] = IF i = 0 THEN x ELSE ChunkOf(f[i - 1], qs, i)
          BY <2>2, <4>1 DEF IsTaking
        <4>3. i # 0 => g[i - 1] = f[i - 1]
          BY <2>1, <2>3, <4>1
        <4> QED
          BY <4>1, <4>2, <4>3
      <3> QED
        BY <3>1, <3>2
    <2>5. IsTaking(g, x, qs, k)
      BY <2>3, <2>4 DEF IsTaking
    <2> QED
      BY <2>1, <2>5
  <1>3. S \in SUBSET Nat
    OBVIOUS
  <1>4. S = Nat
    <2> HIDE DEF S
    <2> QED
      BY <1>1, <1>2, <1>3, SetInduction
  <1> QED
    BY <1>4

LEMMA TakingOK ==
  ASSUME NEW x, prods \in Nat, Good(x, prods), x.ok => Idle(x.co), NEW n \in Nat,
         NEW qs \in Seq(Nat), n = Len(qs), NEW f, IsTaking(f, x, qs, n)
  PROVE  Taken(x, f[n])
  <1>1. f[0] = x /\ \A i \in 1..n : f[i] = ChunkOf(f[i - 1], qs, i)
    <2>1. 0 \in 0..n
      OBVIOUS
    <2>2. f[0] = x
      BY <2>1, Zenon DEF IsTaking
    <2>3. ASSUME NEW i \in 1..n PROVE f[i] = ChunkOf(f[i - 1], qs, i)
      <3>1. i \in 0..n /\ i # 0
        OBVIOUS
      <3> QED
        BY <3>1, Zenon DEF IsTaking
    <2> QED
      BY <2>2, <2>3
  <1> DEFINE S == {k \in Nat : k <= n => Taken(x, f[k])}
  <1>2. 0 \in S
    BY <1>1 DEF Taken, Acted
  <1>3. ASSUME NEW i \in S PROVE i + 1 \in S
    <2>1. PICK m \in Nat : m = i + 1 /\ i \in Nat
      OBVIOUS
    <2>2. ASSUME m <= n PROVE Taken(x, f[m])
      <3>1. m \in 1..n /\ m - 1 = i /\ i <= n
        BY <2>1, <2>2
      <3>2. f[m] = ChunkOf(f[i], qs, m)
        BY <1>1, <3>1
      <3>3. Taken(x, f[i])
        BY <3>1
      <3>4. PICK y : y = f[i]
        OBVIOUS
      <3>5. Good(y, prods) /\ y.now = x.now /\ y.co.is_open = x.co.is_open
            /\ (y.ok => Idle(y.co))
        BY <3>3, <3>4 DEF Taken, Acted
      <3>6. CASE y.ok
        <4>1. PICK e \in BOOLEAN : e = (m = Len(qs))
          OBVIOUS
        <4>2. qs[m] \in Nat
          BY <3>1
        <4>3. PICK body \in Nat : body = qs[m]
          BY <4>2
        <4>4. f[m] = IngestChunk(y, body, e)
          BY <3>2, <3>4, <3>6, <4>1, <4>3 DEF ChunkOf
        <4>5. Taken(y, f[m])
          BY <3>5, <3>6, <4>4, IngestChunkOK
        <4> QED
          BY <3>5, <4>5 DEF Taken, Acted
      <3>7. CASE ~y.ok
        BY <3>2, <3>3, <3>4, <3>7 DEF ChunkOf
      <3> QED
        BY <3>6, <3>7
    <2> QED
      BY <2>1, <2>2
  <1>4. S = Nat
    <2>1. S \in SUBSET Nat
      OBVIOUS
    <2> HIDE DEF S
    <2> QED
      BY <1>2, <1>3, <2>1, SetInduction
  <1>5. n \in S
    BY <1>4
  <1> QED
    BY <1>5

LEMMA IngestOK ==
  ASSUME NEW r, prods \in Nat, Good(r, prods), NEW qs \in Seq(Nat), NEW s, s = Ingest(r, qs)
  PROVE  Acted(r, s, prods)
  <1>1. CASE r.co.life # "enabled"
    <2>1. s = DropRemaining(r)
      BY <1>1 DEF Ingest
    <2> QED
      BY <2>1, DropRemainingOK
  <1>2. CASE r.co.life = "enabled"
    <2>1. PICK x : x = Flush(r)
      OBVIOUS
    <2>2. Finished(r, x)
      BY <2>1, FlushOK
    <2>3. Good(x, prods) /\ (x.ok => Idle(x.co)) /\ x.now = r.now /\ x.co.is_open = r.co.is_open
      BY <1>2, <2>2 DEF Finished, Idle
    <2>4. CASE ~x.ok
      <3>1. s = DropRemaining(x)
        BY <1>2, <2>1, <2>4 DEF Ingest
      <3>2. Acted(x, s, prods)
        BY <2>3, <3>1, DropRemainingOK
      <3> QED
        BY <2>3, <3>2 DEF Acted
    <2>5. CASE x.ok
      <3> DEFINE after[i \in 0..Len(qs)] == IF i = 0 THEN x ELSE ChunkOf(after[i - 1], qs, i)
      <3>1. s = after[Len(qs)]
        BY <1>2, <2>1, <2>5 DEF Ingest, ChunkOf
      <3>2. \E f : f = [i \in 0..Len(qs) |-> IF i = 0 THEN x ELSE ChunkOf(f[i - 1], qs, i)]
        <4>0. Len(qs) \in Nat
          OBVIOUS
        <4>1. \E f : IsTaking(f, x, qs, Len(qs))
          BY <4>0, TakingExists
        <4> QED
          BY <4>1, Zenon DEF IsTaking
      <3>3. after = [i \in 0..Len(qs) |-> IF i = 0 THEN x ELSE ChunkOf(after[i - 1], qs, i)]
        BY <3>2, Zenon
      <3> HIDE DEF after
      <3>4. IsTaking(after, x, qs, Len(qs))
        BY <3>3, Zenon DEF IsTaking
      <3>5. Taken(x, after[Len(qs)])
        BY <2>3, <3>4, TakingOK
      <3> QED
        BY <2>3, <3>1, <3>5 DEF Taken, Acted
    <2> QED
      BY <2>4, <2>5
  <1> QED
    BY <1>1, <1>2

-----------------------------------------------------------------------------
(* open. *)

\* An expired intent that the files remember has been counted, and is not in
\* the outbox.
LEMMA CountedIntent ==
  ASSUME NEW r, prods \in Nat, Near(r, prods), r.box.is_open, r.box.barrier = 0,
         r.box.expired_losses = {}, ~r.co.dirty, ~r.co.cleanup, r.co.pending \in Expired(r)
  PROVE  Places(r.box, r.co.pending) = {} /\ CountedAway(r.box, r.co.pending)
  <1>1. Ready(r, prods) /\ Mirror(r) /\ Bound(r, prods) /\ ReadyAt(r, prods)
    BY ReadyFacts DEF Near
  <1>2. PICK b : b = r.co.pending
    OBVIOUS
  <1>3. b \in Batches /\ b \in Known(r) /\ b \in Expired(r) /\ b.ctx \in Contexts
    BY <1>1, <1>2 DEF ReadyAt, Batches
  <1>4. b \notin BatchesOf(r.box.records)
    BY <1>1, <1>3 DEF Mirror, Mirrors, Shows, BatchesOf
  <1>5. BatchesOf(r.box.records) = FileBatches(r.disk) /\ FileBatches(r.disk) \subseteq Known(r)
        /\ Unique(Known(r))
    BY <1>1 DEF Mirror, Mirrors, FileBatches, ReadyAt, FilesOK, KnownOK
  <1>6. Places(r.box, b) = {}
    BY <1>3, <1>4, <1>5 DEF Places, BatchesOf, Unique
  <1>7. r.disk.state # None /\ r.disk.state.pending = b /\ ~r.disk.blocked
    BY <1>1, <1>2 DEF Bound, Saved
  <1>8. LossOf(r.disk.file.losses, b.ctx).expired # 0
    BY <1>1, <1>3, <1>4, <1>5, <1>7 DEF ReadyAt, ExpiryOK, Remembers
  <1>9. LossOf(r.box.losses, b.ctx).expired # 0
    BY <1>1, <1>3, <1>8 DEF Mirror, Mirrors, SameExpired
  <1> QED
    BY <1>2, <1>6, <1>9 DEF CountedAway

\* A coordinator that has loaded its files.
Loads(r) ==
    /\ Near(r, prods) /\ r.box.is_open /\ r.box.barrier = 0 /\ r.box.expired_losses = {}
    /\ ~r.co.dirty /\ (r.co.cleanup <=> IsRevoked(r.co)) /\ r.co.is_open

LEMMA LoadsFlush ==
  ASSUME NEW r, prods \in Nat, Loads(r), r.ok, NEW s, s = Flush(r)
  PROVE  Finished(r, s)
  <1>1. Near(r, prods) /\ Ready(r, prods) /\ Bound(r, prods)
    BY DEF Loads, Near
  <1>2. CASE r.co.pending \notin Expired(r)
    BY <1>1, <1>2, FlushOK, GoodIsNear
  <1>3. CASE r.co.pending \in Expired(r)
    <2>1. r.co.pending # None
      BY <1>1, <1>3, ReadyFacts DEF ReadyAt
    <2>2. CASE PendingExpired(r)
      <3>1. s = RevokePending(r)
        BY <2>2 DEF Flush
      <3>2. Relinquished(r, s, prods) /\ ~s.ok
        BY <1>1, <2>1, <3>1, RevokePendingOK
      <3> QED
        BY <3>2 DEF Relinquished, Finished
    <2>3. CASE ~PendingExpired(r)
      <3>1. ~IsRevoked(r.co) /\ ~r.co.cleanup /\ ~r.co.dirty
        BY <1>1, <2>1 DEF Loads, Bound, StateFits, Shaped, IsRevoked
      <3>2. FlushState(r) = r
        BY <3>1 DEF FlushState, CleanUp
      <3>3. s = FinishPending(r)
        BY <2>3, <3>2 DEF Flush
      <3>4. Places(r.box, r.co.pending) = {} /\ CountedAway(r.box, r.co.pending)
        BY <1>1, <1>3, <3>1, CountedIntent DEF Loads
      <3> QED
        BY <1>1, <3>1, <3>3, <3>4, FinishPendingOK
    <2> QED
      BY <2>2, <2>3
  <1> QED
    BY <1>2, <1>3

\* The files on disk may be opened by c: it holds what the state holds.
Restored(r, c) ==
    /\ c \in Coordinators /\ ~c.dirty
    /\ r.disk.state # None /\ ~r.disk.blocked
    /\ Saved(c, r.disk.state) /\ StateFits(c, prods, Known(r))
    /\ witnessed \subseteq RevokedBy(r.disk.state)

\* The outbox is opened under a coordinator that was restored.
LEMMA AdoptOK ==
  ASSUME NEW r, Ready(r, prods), Restored(r, r.co), NEW x, x = OpenBox(r), x.ok, NEW s,
         s = [x EXCEPT !.co.is_open = TRUE, !.co.cleanup = IsRevoked(x.co)]
  PROVE  Loads(s) /\ s.now = r.now /\ s.ok = x.ok
  <1>1. Opened(r, x, prods)
    BY OpenBoxOK
  <1>2. /\ Calm(r, x, prods) /\ x.box.is_open /\ Mirror(x) /\ x.box.barrier = 0
        /\ x.box.expired_losses = {}
    BY <1>1 DEF Opened
  <1>3. x.co = r.co /\ x.co \in Coordinators /\ Ready(x, prods) /\ x \in Runs
        /\ x.disk.state = r.disk.state /\ x.disk.blocked = r.disk.blocked /\ Known(x) = Known(r)
        /\ x.now = r.now
    BY <1>2, RunParts DEF Calm, Ready
  <1>4. PICK e \in BOOLEAN : e = IsRevoked(x.co)
    BY DEF IsRevoked
  <1>5. PICK c : c = [x.co EXCEPT !.is_open = TRUE, !.cleanup = e]
    OBVIOUS
  <1>6. /\ c \in Coordinators /\ c.is_open = TRUE /\ c.ctx = x.co.ctx /\ c.life = x.co.life
        /\ c.archive = x.co.archive /\ c.prod = x.co.prod /\ c.seq = x.co.seq
        /\ c.pending = x.co.pending /\ c.started = x.co.started /\ c.dirty = x.co.dirty
        /\ c.cleanup = e
    BY <1>3, <1>5 DEF Coordinators
  <1>7. s = [x EXCEPT !.co = c]
    BY <1>3, <1>4, <1>5
  <1>8. SameDisks(x, s) /\ s.box = x.box /\ s.co = c /\ s.ok = x.ok
    BY <1>3, <1>6, <1>7 DEF Runs, SameDisks
  <1>9. /\ Ready(s, prods) /\ Known(s) = Known(x) /\ Expired(s) = Expired(x)
        /\ s.disk = x.disk /\ s.now = x.now
    <2>1. Ready(s, prods) /\ Known(s) = Known(x) /\ Expired(s) = Expired(x)
      BY <1>3, <1>8, SameReady
    <2> QED
      BY <1>8, <2>1 DEF SameDisks
  <1>10. Mirror(s)
    BY <1>2, <1>8, <1>9 DEF Mirror
  <1>11. StateFits(c, prods, Known(r)) /\ RevokedBy(c) = RevokedBy(r.co)
         /\ Saved(c, r.disk.state)
    BY <1>3, <1>6 DEF Restored, StateFits, Shaped, Before, RevokedBy, Saved
  <1>12. RevokedBy(r.disk.state) = RevokedBy(c)
    BY <1>11 DEF RevokedBy, Saved
  <1>13. ~IsRevoked(c) => \A b \in FileBatches(s.disk) : Fits(c, b)
    <2>1. SUFFICES ASSUME ~IsRevoked(c), NEW b \in FileBatches(s.disk) PROVE Fits(c, b)
      OBVIOUS
    <2>2. r.disk.state.life # "revoked"
      BY <1>11, <2>1 DEF Saved, IsRevoked
    <2>3. FilesOK(s.disk, prods, Known(s)) /\ ~s.disk.revoked /\ ~s.disk.blocked
      BY <1>3, <1>9, <1>10, ReadyFacts DEF ReadyAt, Mirror, Mirrors, Restored
    <2>4. s.disk.state = r.disk.state /\ r.disk.state # None
      BY <1>3, <1>9 DEF Restored
    <2>5. Fits(r.disk.state, b)
      BY <2>1, <2>2, <2>3, <2>4 DEF FilesOK
    <2> QED
      BY <1>11, <2>5 DEF Fits, Saved
  <1>14. (c.cleanup <=> IsRevoked(c)) /\ ~c.dirty
    BY <1>3, <1>4, <1>6 DEF IsRevoked, Restored
  <1>15. Bound(s, prods)
    BY <1>2, <1>3, <1>8, <1>9, <1>11, <1>12, <1>13, <1>14 DEF Bound, Restored
  <1> QED
    BY <1>2, <1>3, <1>6, <1>8, <1>9, <1>10, <1>14, <1>15 DEF Loads, Near

LEMMA UnboundOK ==
  /\ Unbound \in Coordinators /\ Shaped(Unbound) /\ Unbound.is_open = FALSE
  /\ Unbound.prod = 0 /\ Unbound.pending = None /\ Unbound.life = "disabled"
  /\ Unbound.archive = {} /\ Unbound.dirty = FALSE /\ Unbound.cleanup = FALSE
  <1>1. Unbound \in Coordinators
    BY DEF Unbound, Coordinators, LifecycleStates
  <1>2. IsFiniteSet({}) /\ Cardinality({}) = 0
    BY FS_EmptySet
  <1>3. Shaped(Unbound)
    BY <1>2, CoordinatorAssumption DEF Shaped, Unbound
  <1> QED
    BY <1>1, <1>3 DEF Unbound

\* What load_state_locked makes of the state file.
LEMMA LoadedStateOK ==
  ASSUME NEW x \in States, NEW c, c = LoadedState(x)
  PROVE  /\ c \in Coordinators /\ ~c.dirty /\ Saved(c, x)
         /\ \A p, bs : StateFits(x, p, bs) => StateFits(c, p, bs)
  <1>1. /\ x.ctx \in Contexts \cup {None} /\ x.life \in LifecycleStates
        /\ x.archive \in SUBSET Contexts /\ x.prod \in Nat /\ x.seq \in Nat
        /\ x.pending \in Batches \cup {None} /\ x.started \in Nat
    BY StateParts
  <1>2. PICK l : l = Restart(x.life)
    OBVIOUS
  <1>3. l \in LifecycleStates /\ l = IF x.life = "enabled" THEN "suspended" ELSE x.life
    BY <1>1, <1>2 DEF Restart, LifecycleStates
  <1>4. c = [Unbound EXCEPT !.ctx = x.ctx, !.life = l, !.archive = x.archive, !.prod = x.prod,
                            !.seq = x.seq, !.pending = x.pending, !.started = x.started]
    BY <1>2 DEF LoadedState
  <1>5. /\ c \in Coordinators /\ c.ctx = x.ctx /\ c.life = l /\ c.archive = x.archive
        /\ c.prod = x.prod /\ c.seq = x.seq /\ c.pending = x.pending /\ c.started = x.started
    <2>1. PICK u \in Coordinators : u = Unbound /\ u.dirty = FALSE
      BY UnboundOK
    <2>2. c = [u EXCEPT !.ctx = x.ctx, !.life = l, !.archive = x.archive, !.prod = x.prod,
                        !.seq = x.seq, !.pending = x.pending, !.started = x.started]
      BY <1>4, <2>1
    <2>3. c \in Coordinators
      BY <1>1, <1>3, <2>2 DEF Coordinators
    <2> QED
      BY <2>1, <2>2, <2>3 DEF Coordinators
  <1>6. c.dirty = FALSE
    BY <1>4, UnboundOK DEF Coordinators
  <1>7. Saved(c, x)
    BY <1>3, <1>5 DEF Saved
  <1>8. ASSUME NEW p, NEW bs, StateFits(x, p, bs) PROVE StateFits(c, p, bs)
    <2>1. Shaped(c)
      BY <1>3, <1>5, <1>8 DEF StateFits, Shaped
    <2>2. \A b \in bs : Before(c, b)
      BY <1>3, <1>5, <1>8 DEF StateFits, Before
    <2> QED
      BY <1>5, <1>8, <2>1, <2>2 DEF StateFits
  <1> QED
    BY <1>5, <1>6, <1>7, <1>8

\* The state is read, or published when there is none.
LEMMA PublishOK ==
  ASSUME NEW r, prods \in Nat, Ready(r, prods), ~RefusesFiles(r.disk, r.now), NEW c,
         c = IF r.disk.state = None THEN Unbound ELSE LoadedState(r.disk.state),
         NEW x, x = ReadFile([r EXCEPT !.co = c]), NEW s,
         s = IF r.disk.state = None THEN PersistState(x) ELSE x
  PROVE  /\ Ready(s, prods) /\ s.now = r.now /\ SameMind(s.co, c)
         /\ s.ok => Restored(s, s.co)
  <1>1. r \in Runs /\ r.disk \in Disks /\ ReadyAt(r, prods) /\ FilesOK(r.disk, prods, Known(r))
    BY ReadyFacts DEF Ready, ReadyAt
  <1>2. /\ ~r.disk.blocked
        /\ r.disk.state = None => r.disk.file = None
    BY DEF RefusesFiles
  <1>3. c \in Coordinators /\ c.dirty = FALSE
    BY <1>1, DiskParts, UnboundOK, LoadedStateOK, CoParts
  <1>4. PICK y : y = [r EXCEPT !.co = c]
    OBVIOUS
  <1>5. SameDisks(r, y) /\ y.co = c
    BY <1>1, <1>3, <1>4 DEF Runs, SameDisks
  <1>6. /\ Ready(y, prods) /\ Known(y) = Known(r) /\ y.disk = r.disk /\ y.now = r.now
    <2>1. Ready(y, prods) /\ Known(y) = Known(r)
      BY <1>5, SameReady
    <2> QED
      BY <1>5, <2>1 DEF SameDisks
  <1>7. Calm(y, x, prods) /\ x.disk = y.disk
    BY <1>4, <1>6, ReadOK
  <1>8. /\ Ready(x, prods) /\ Known(x) = Known(r) /\ x.disk = r.disk /\ x.now = r.now /\ x.co = c
    BY <1>5, <1>6, <1>7 DEF Calm
  <1>9. CASE r.disk.state # None
    <2>1. s = x /\ c = LoadedState(r.disk.state) /\ r.disk.state \in States
      BY <1>1, <1>9, DiskParts
    <2>2. StateFits(r.disk.state, prods, Known(r)) /\ witnessed \subseteq RevokedBy(r.disk.state)
      BY <1>1, <1>2, <1>9 DEF FilesOK
    <2>3. Saved(c, r.disk.state) /\ StateFits(c, prods, Known(r))
      BY <2>1, <2>2, LoadedStateOK
    <2> QED
      BY <1>2, <1>3, <1>8, <1>9, <2>1, <2>2, <2>3, SameMindSelf DEF Restored
  <1>10. CASE r.disk.state = None
    <2>1. s = PersistState(x) /\ c = Unbound
      BY <1>10
    <2>2. witnessed = {} /\ FileBatches(r.disk) = {}
      BY <1>1, <1>2, <1>10 DEF FilesOK, FileBatches
    <2>3. StateFits(c, prods, Known(r))
      <3>1. KnownOK(Known(r))
        BY <1>1 DEF FilesOK
      <3>2. \A b \in Known(r) : Before(c, b)
        BY <2>1, <3>1, UnboundOK DEF KnownOK, Before
      <3>3. c.prod <= prods
        BY <2>1, UnboundOK
      <3> QED
        BY <2>1, <3>2, <3>3, UnboundOK DEF StateFits
    <2>4. None \notin Expired(x)
      BY <1>8, ReadyFacts DEF ReadyAt
    <2>5. StateWritten(x, s, prods)
      BY <1>8, <2>1, <2>2, <2>3, <2>4, UnboundOK, PersistStateBase
    <2>6. ASSUME s.ok PROVE Restored(s, s.co)
      <3>1. PICK z : z = s.disk.state
        OBVIOUS
      <3>2. z = StateOf(c) /\ s.co.dirty = FALSE /\ SameMind(s.co, c) /\ Known(s) = Known(r)
            /\ s.disk.blocked = r.disk.blocked /\ Ready(s, prods)
        BY <1>8, <2>5, <2>6, <3>1 DEF StateWritten
      <3>3. z \in States /\ Saved(c, z) /\ z # None
        BY <1>3, <3>2, StateOfOK, StateParts
      <3>4. Saved(s.co, z) /\ StateFits(s.co, prods, Known(s))
        BY <2>3, <3>2, <3>3, SameMindFits
      <3>5. s.co \in Coordinators
        BY <3>2, RunParts DEF Ready
      <3> QED
        BY <1>2, <2>2, <3>1, <3>2, <3>3, <3>4, <3>5 DEF Restored
    <2> QED
      BY <1>8, <2>5, <2>6 DEF StateWritten
  <1> QED
    BY <1>9, <1>10

\* A refused open leaves no coordinator and no outbox.
Closed(r) == r.box = ClosedBox /\ r.co = Unbound

LEMMA CloseOK ==
  ASSUME NEW r, NEW p, Ready(r, p), NEW s, s = CloseBox([r EXCEPT !.co = Unbound])
  PROVE  Ready(s, p) /\ Closed(s) /\ s.now = r.now /\ s.ok = r.ok
  <1>1. r \in Runs
    BY DEF Ready
  <1>2. PICK c \in Coordinators : c = Unbound
    BY UnboundOK
  <1>3. PICK b \in Boxes : b = ClosedBox
    BY ClosedBoxOK DEF Shut
  <1>4. s = [r EXCEPT !.co = c, !.box = b]
    BY <1>2, <1>3 DEF CloseBox
  <1>5. SameDisks(r, s) /\ s.co = c /\ s.box = b /\ s.ok = r.ok
    BY <1>1, <1>4 DEF Runs, SameDisks
  <1>6. Ready(s, p)
    BY <1>5, SameReady
  <1> QED
    BY <1>2, <1>3, <1>5, <1>6 DEF Closed, SameDisks

\* A service that has started: with a coordinator, or without one.
Started(r, s) ==
    /\ Ready(s, prods) /\ s.now = r.now
    /\ \/ Closed(s)
       \/ Good(s, prods) /\ s.co.is_open

LEMMA StartOK ==
  ASSUME NEW r, prods \in Nat, Ready(r, prods), NEW s, s = OpenCoordinator(r)
  PROVE  Started(r, s)
  <1>1. PICK c : c = IF r.disk.state = None THEN Unbound ELSE LoadedState(r.disk.state)
    OBVIOUS
  <1>2. PICK x2 : x2 = ReadFile([r EXCEPT !.co = c])
    OBVIOUS
  <1>3. PICK x3 : x3 = IF r.disk.state = None THEN PersistState(x2) ELSE x2
    OBVIOUS
  <1>4. PICK x4 : x4 = OpenBox(x3)
    OBVIOUS
  <1>5. PICK x5 : x5 = [x4 EXCEPT !.co.is_open = TRUE, !.co.cleanup = IsRevoked(x4.co)]
    OBVIOUS
  <1>6. PICK x6 : x6 = IF Consistent(x5.co, x5.box.records) THEN x5 ELSE Failed(x5)
    OBVIOUS
  <1>7. PICK aged \in BOOLEAN :
            aged = (c.pending # None /\ r.disk.file.written <= r.now - Retention)
    OBVIOUS
  <1>8. PICK x7 : x7 = IF x6.ok /\ aged THEN RevokePending(x6) ELSE Flush(x6)
    OBVIOUS
  <1>9. PICK x8 : x8 = IF RefusesFiles(r.disk, r.now) THEN Failed(r) ELSE x7
    OBVIOUS
  <1>10. s = IF x8.ok THEN x8 ELSE CloseBox([x8 EXCEPT !.co = Unbound])
    <2>1. s = RefuseUnlessOk(x8)
      <3>1. CASE RefusesFiles(r.disk, r.now)
        BY <1>9, <3>1 DEF OpenCoordinator
      <3>2. CASE ~RefusesFiles(r.disk, r.now)
        <4>1. x2 = Recall(r, c) /\ x5 = Adopt(x4) /\ x6 = CheckFiles(x5)
          BY <1>2, <1>5, <1>6 DEF Recall, Adopt, CheckFiles
        <4>2. s = RefuseUnlessOk(
                    IF x6.ok /\ (c.pending # None /\ r.disk.file.written <= r.now - Retention)
                    THEN RevokePending(x6) ELSE Flush(x6))
          <5>1. CASE r.disk.state = None
            BY <1>1, <1>3, <1>4, <3>2, <4>1, <5>1 DEF OpenCoordinator
          <5>2. CASE r.disk.state # None
            BY <1>1, <1>3, <1>4, <3>2, <4>1, <5>2 DEF OpenCoordinator
          <5> QED
            BY <5>1, <5>2
        <4> QED
          BY <1>7, <1>8, <1>9, <3>2, <4>2
      <3> QED
        BY <3>1, <3>2
    <2> QED
      BY <2>1 DEF RefuseUnlessOk
  <1>11. r \in Runs
    BY DEF Ready
  <1>12. Ready(x8, prods) /\ x8.now = r.now /\ (x8.ok => Good(x8, prods) /\ x8.co.is_open)
    <2>1. CASE RefusesFiles(r.disk, r.now)
      <3>1. PICK e \in BOOLEAN : e = FALSE
        OBVIOUS
      <3>2. x8 = [r EXCEPT !.ok = e]
        BY <1>9, <2>1, <3>1 DEF Failed
      <3>3. SameDisks(r, x8) /\ x8.ok = e
        BY <1>11, <3>2, OkSet
      <3>4. Ready(x8, prods)
        BY <3>3, SameReady
      <3> QED
        BY <3>1, <3>3, <3>4 DEF SameDisks
    <2>2. CASE ~RefusesFiles(r.disk, r.now)
      <3>1. /\ Ready(x3, prods) /\ x3.now = r.now /\ SameMind(x3.co, c)
            /\ x3.ok => Restored(x3, x3.co)
        BY <1>1, <1>2, <1>3, <2>2, PublishOK
      <3>2. Opened(x3, x4, prods)
        BY <1>4, <3>1, OpenBoxOK
      <3>3. /\ Ready(x4, prods) /\ x4.now = r.now /\ x4.co = x3.co /\ (x4.ok => x3.ok)
            /\ x4 \in Runs /\ x4.co \in Coordinators
        BY <3>1, <3>2, RunParts DEF Opened, Calm, Ready
      <3>3a. SameDisks(x4, x5) /\ x5.ok = x4.ok /\ x5.co.pending = x4.co.pending
        <4>1. PICK e \in BOOLEAN : e = IsRevoked(x4.co)
          BY DEF IsRevoked
        <4>2. PICK d : d = [x4.co EXCEPT !.is_open = TRUE, !.cleanup = e]
          OBVIOUS
        <4>3. d \in Coordinators /\ d.pending = x4.co.pending
          BY <3>3, <4>2 DEF Coordinators
        <4>4. x5 = [x4 EXCEPT !.co = d]
          BY <1>5, <3>3, <4>1, <4>2
        <4>5. SameDisks(x4, x5) /\ x5.ok = x4.ok /\ x5.co = d
          BY <3>3, <4>3, <4>4 DEF Runs, SameDisks
        <4> QED
          BY <4>3, <4>5
      <3>4. CASE ~x4.ok
        <4>5. SameDisks(x4, x5) /\ x5.ok = x4.ok
          BY <3>3a
        <4>6. Ready(x5, prods) /\ x5 \in Runs /\ x5.now = r.now
          <5>1. Ready(x5, prods)
            BY <3>3, <4>5, SameReady
          <5> QED
            BY <3>3, <4>5, <5>1 DEF SameDisks
        <4>7. Ready(x6, prods) /\ x6.now = r.now /\ ~x6.ok
          <5>1. CASE Consistent(x5.co, x5.box.records)
            BY <1>6, <3>4, <4>5, <4>6, <5>1
          <5>2. CASE ~Consistent(x5.co, x5.box.records)
            <6>1. PICK f \in BOOLEAN : f = FALSE
              OBVIOUS
            <6>2. x6 = [x5 EXCEPT !.ok = f]
              BY <1>6, <5>2, <6>1 DEF Failed
            <6>3. SameDisks(x5, x6) /\ x6.ok = f
              BY <4>6, <6>2, OkSet
            <6>4. Ready(x6, prods)
              BY <4>6, <6>3, SameReady
            <6> QED
              BY <4>6, <6>1, <6>3, <6>4 DEF SameDisks
          <5> QED
            BY <5>1, <5>2
        <4>8. x7 = x6 /\ x8 = x7
          BY <1>8, <1>9, <2>2, <4>7 DEF Flush
        <4> QED
          BY <4>7, <4>8
      <3>5. CASE x4.ok
        <4>1. Restored(x3, x3.co)
          BY <3>1, <3>3, <3>5
        <4>2. Loads(x5) /\ x5.now = x3.now /\ x5.ok = x4.ok
          BY <1>4, <1>5, <3>1, <3>5, <4>1, AdoptOK
        <4>3. Near(x5, prods) /\ Ready(x5, prods) /\ x5 \in Runs /\ x5.co.is_open
          BY <4>2 DEF Loads, Near, Ready
        <4>4. CASE ~Consistent(x5.co, x5.box.records)
          <5>1. PICK f \in BOOLEAN : f = FALSE
            OBVIOUS
          <5>2. x6 = [x5 EXCEPT !.ok = f]
            BY <1>6, <4>4, <5>1 DEF Failed
          <5>3. SameDisks(x5, x6) /\ x6.ok = f
            BY <4>3, <5>2, OkSet
          <5>4. Ready(x6, prods)
            BY <4>3, <5>3, SameReady
          <5>5. x7 = x6 /\ x8 = x7
            BY <1>8, <1>9, <2>2, <5>1, <5>3 DEF Flush
          <5> QED
            BY <3>1, <4>2, <5>1, <5>3, <5>4, <5>5 DEF SameDisks
        <4>5. CASE Consistent(x5.co, x5.box.records)
          <5>1. x6 = x5 /\ x6.ok
            BY <1>6, <3>5, <4>2, <4>5
          <5>2. CASE aged
            <6>1. x7 = RevokePending(x5) /\ x8 = x7
              BY <1>8, <1>9, <2>2, <5>1, <5>2
            <6>2. x5.co.pending # None
              BY <1>7, <3>1, <3>3, <3>3a, <5>2 DEF SameMind
            <6>3. Relinquished(x5, x7, prods) /\ ~x7.ok
              BY <4>3, <5>1, <6>1, <6>2, RevokePendingOK
            <6> QED
              BY <3>1, <4>2, <6>1, <6>3 DEF Relinquished, Good, BoxOK, Ready
          <5>3. CASE ~aged
            <6>1. x7 = Flush(x5) /\ x8 = x7
              BY <1>8, <1>9, <2>2, <5>1, <5>3
            <6>2. Finished(x5, x7)
              BY <4>2, <5>1, <6>1, LoadsFlush
            <6> QED
              BY <3>1, <4>2, <4>3, <6>1, <6>2 DEF Finished, Good, BoxOK, Ready
          <5> QED
            BY <5>2, <5>3
        <4> QED
          BY <4>4, <4>5
      <3> QED
        BY <3>4, <3>5
    <2> QED
      BY <2>1, <2>2
  <1>13. CASE x8.ok
    BY <1>10, <1>12, <1>13 DEF Started
  <1>14. CASE ~x8.ok
    BY <1>10, <1>12, <1>14, CloseOK DEF Started
  <1> QED
    BY <1>13, <1>14

\* Maintenance of a service whose coordinator is closed: the scrubbing of the
\* files behind the refusal marker.
LEMMA ScrubOK ==
  ASSUME NEW r, NEW p, Ready(r, p), Closed(r), NEW s, s = Maintain(r)
  PROVE  Ready(s, p) /\ Closed(s) /\ s.now = r.now
  <1>1. r \in Runs /\ r.disk \in Disks /\ ~r.co.is_open
    BY RunParts, UnboundOK DEF Ready, Closed
  <1>2. CASE ~r.disk.blocked
    <2>1. PICK f \in BOOLEAN : f = FALSE
      OBVIOUS
    <2>2. s = [r EXCEPT !.ok = f]
      BY <1>1, <1>2, <2>1 DEF Failed, Maintain
    <2>3. SameDisks(r, s) /\ s.box = r.box /\ s.co = r.co
      BY <1>1, <2>2, OkSet
    <2>4. Ready(s, p)
      BY <2>3, SameReady
    <2> QED
      BY <2>3, <2>4 DEF SameDisks, Closed
  <1>3. CASE r.disk.blocked
    <2>1. PICK x : x = DeleteFile(r)
      OBVIOUS
    <2>2. PICK d : d = [x.disk EXCEPT !.state = None]
      OBVIOUS
    <2>3. s = Storage(x, d)
      BY <1>1, <1>3, <2>1, <2>2 DEF Maintain
    <2>4. Kept(r, x, p)
      BY <2>1, DeleteFileOK
    <2>5. Ready(x, p) /\ x.disk.blocked /\ x.box = r.box /\ x.co = r.co /\ x.now = r.now
      BY <1>3, <2>4 DEF Kept, Calm
    <2>6. Follows(x, d, p)
      BY <2>2, <2>5, ScrubFollows
    <2>7. Wrote(x, s, d, p)
      BY <2>3, <2>5, <2>6, StorageOK
    <2> QED
      BY <2>5, <2>7 DEF Wrote, Closed
  <1> QED
    BY <1>2, <1>3

-----------------------------------------------------------------------------
(* The inductive invariant. *)

\* The batches that may reach the server, or have, and those the files hold
\* expired.
Knows == offered \cup barred \cup FileBatches(disk)
Shown == (barred \cup BarredOnDisk(disk)) \ outlived

\* The coordinator c and the box b know at least what the files know.
BoundTo(c, b, d, p, bs, es) ==
    /\ StateFits(c, p, bs)
    /\ d.state # None
    /\ RevokedBy(d.state) \cup witnessed \subseteq RevokedBy(c)
    /\ ~c.dirty => Saved(c, d.state)
    /\ d.blocked => c.cleanup
    /\ c.cleanup => IsRevoked(c)
    /\ ~c.cleanup => b.is_open
    /\ ~IsRevoked(c) => \A k \in FileBatches(d) : Fits(c, k)
    /\ IsRevoked(c) /\ ~c.cleanup => FileBatches(d) = {}
    /\ b.is_open => Mirrors(b, d, es)
    /\ c.pending \notin es

ClientTypes ==
    /\ up \in BOOLEAN /\ prods \in Nat /\ bodies \in Nat /\ now \in Nat \ {0}
    /\ disk \in Disks /\ box \in Boxes /\ co \in Coordinators

ClientInv ==
    /\ ClientTypes
    /\ late.revoked = {} /\ late.expired \subseteq outlived
    /\ FilesOK(disk, prods, Knows) /\ ExpiryOK(disk, Shown)
    /\ co.is_open => up /\ BoundTo(co, box, disk, prods, Knows, Shown)
    /\ ~co.is_open => box = ClosedBox /\ co = Unbound

LEMMA GoodIsBound ==
  ASSUME NEW r, NEW p
  PROVE  Good(r, p) <=> Ready(r, p) /\ BoundTo(r.co, r.box, r.disk, p, Known(r), Expired(r))
  BY DEF Good, BoxOK, Ready, Bound, BoundTo, Mirror

\* A call starts from what the invariant says.
LEMMA CallOK ==
  ASSUME ClientInv, NEW o \in Outages, NEW r, r = Call(o)
  PROVE  /\ Ready(r, prods) /\ r.now = now /\ r.co = co /\ r.box = box /\ r.ok /\ prods \in Nat
         /\ co.is_open => Good(r, prods)
         /\ ~co.is_open => Closed(r)
  <1>1. /\ up \in BOOLEAN /\ prods \in Nat /\ now \in Nat \ {0}
        /\ disk \in Disks /\ box \in Boxes /\ co \in Coordinators
    BY DEF ClientInv, ClientTypes
  <1>2. o \in Faults
    BY ClientAssumption DEF Outages, NoOutage, Faults
  <1>3. PICK q : q = <<disk>>
    OBVIOUS
  <1>4. q \in Seq(Disks) /\ Len(q) = 1 /\ q[1] = disk
    BY <1>1, <1>3
  <1>5. r = [box |-> box, co |-> co, disk |-> disk, ops |-> 0, outage |-> o,
             seen |-> q, now |-> now, ok |-> TRUE]
    BY <1>3 DEF Call
  <1>6. r \in Runs
    BY <1>1, <1>2, <1>4, <1>5 DEF Runs
  <1>7. /\ r.box = box /\ r.co = co /\ r.disk = disk /\ r.seen = q /\ r.now = now /\ r.ok
    BY <1>5
  <1>8. KnownAt(q, 1) = Knows
    BY <1>4 DEF KnownAt, Knows
  <1>9. ExpiredAtStep(q, 1) = Shown
    <2>1. BarredAt(q, 1) = barred \cup BarredOnDisk(disk)
      BY <1>4 DEF BarredAt
    <2>2. GoneAt(q, 1) = outlived
      BY DEF GoneAt
    <2> QED
      BY <2>1, <2>2 DEF ExpiredAtStep, Shown
  <1>10. Known(r) = Knows /\ Expired(r) = Shown
    BY <1>4, <1>7, <1>8, <1>9 DEF Known, Expired
  <1>11. Ready(r, prods)
    <2>1. FilesOK(disk, prods, Knows) /\ ExpiryOK(disk, Shown)
      BY DEF ClientInv
    <2>2. SeenOK(r, prods)
      <3>1. \A k \in 1..Len(q) : k = 1
        BY <1>4
      <3>2. \A k \in 1..Len(q) : /\ FilesOK(q[k], prods, KnownAt(q, k))
                                 /\ ExpiryOK(q[k], ExpiredAtStep(q, k))
        BY <1>4, <1>8, <1>9, <2>1, <3>1
      <3>3. Len(q) >= 1 /\ q[Len(q)] = disk
        BY <1>4
      <3> QED
        BY <1>7, <3>2, <3>3 DEF SeenOK
    <2> QED
      BY <1>6, <2>2 DEF Ready
  <1>12. ASSUME co.is_open PROVE Good(r, prods)
    <2>1. BoundTo(co, box, disk, prods, Knows, Shown)
      BY <1>12 DEF ClientInv
    <2> QED
      BY <1>7, <1>10, <1>11, <2>1, GoodIsBound
  <1>13. ASSUME ~co.is_open PROVE Closed(r)
    BY <1>7, <1>13 DEF ClientInv, Closed
  <1> QED
    BY <1>1, <1>7, <1>11, <1>12, <1>13

-----------------------------------------------------------------------------
(* What a call leaves, when it returns and when the process dies in it. *)

\* The files of the run r after its k-th disk, and what they have shown.
Left(r, k) ==
    /\ disk' = r.seen[k]
    /\ witnessed' = witnessed \cup {c \in Contexts : RevokedOnDisk(r.seen[k], c)}
    /\ barred' = BarredAt(r.seen, k) /\ outlived' = GoneAt(r.seen, k)

LEMMA HistoryOK ==
  ASSUME NEW q \in Seq(Disks), NEW k \in 1..Len(q), NEW z, z = SubSeq(q, 1, k)
  PROVE  /\ barred \cup BarredIn(z) = BarredAt(q, k)
         /\ outlived \cup OutlivedIn(z) = GoneAt(q, k)
  <1>1. DOMAIN z = 1..k /\ \A j \in 1..k : z[j] = q[j]
    BY SubSeqProperties
  <1>2. k \in Nat /\ DOMAIN z \ {1} = 2..k
    BY <1>1
  <1>3. BarredIn(z) = UNION {BarredOnDisk(q[j]) : j \in 1..k}
    BY <1>1 DEF BarredIn
  <1>4. \A i \in 2..k : z[i] = q[i] /\ z[i - 1] = q[i - 1]
    BY <1>1, <1>2
  <1>5. {i \in DOMAIN z \ {1} : Drops(z[i - 1], z[i])} = {i \in 2..k : Drops(q[i - 1], q[i])}
    BY <1>2, <1>4
  <1>6. OutlivedIn(z) = {q[j - 1].state.pending : j \in {i \in 2..k : Drops(q[i - 1], q[i])}}
    <2>1. PICK S : S = {i \in 2..k : Drops(q[i - 1], q[i])}
      OBVIOUS
    <2>2. OutlivedIn(z) = {z[j - 1].state.pending : j \in S}
      BY <1>5, <2>1 DEF OutlivedIn
    <2>3. \A j \in S : z[j - 1].state.pending = q[j - 1].state.pending
      BY <1>4, <2>1
    <2>4. {z[j - 1].state.pending : j \in S} = {q[j - 1].state.pending : j \in S}
      BY <2>3
    <2> QED
      BY <2>1, <2>2, <2>4
  <1> QED
    BY <1>3, <1>6 DEF BarredAt, GoneAt

LEMMA ReturnsLeft ==
  ASSUME NEW r, NEW p, Ready(r, p), Returns(r)
  PROVE  /\ Left(r, Len(r.seen)) /\ Len(r.seen) \in 1..Len(r.seen)
         /\ box' = r.box /\ co' = r.co /\ disk' = r.disk /\ now' = now
  <1>1. r.seen \in Seq(Disks) /\ Len(r.seen) >= 1 /\ r.seen[Len(r.seen)] = r.disk
    BY RunParts DEF Ready, SeenOK
  <1>2. PICK q \in Seq(Disks) : q = r.seen
    BY <1>1
  <1>3. PICK k : k = Len(q)
    OBVIOUS
  <1>4. k \in 1..Len(q) /\ q[k] = r.disk
    BY <1>1, <1>2, <1>3
  <1>5. SubSeq(q, 1, k) = q
    BY <1>3
  <1>6. barred \cup BarredIn(q) = BarredAt(q, k) /\ outlived \cup OutlivedIn(q) = GoneAt(q, k)
    BY <1>4, <1>5, HistoryOK
  <1>7. Left(r, k)
    BY <1>2, <1>4, <1>6 DEF Left, Returns
  <1> QED
    BY <1>2, <1>3, <1>4, <1>7 DEF Returns

LEMMA DiesLeft ==
  ASSUME NEW r, NEW p, Ready(r, p), Dies(r)
  PROVE  /\ \E k \in 1..Len(r.seen) : Left(r, k)
         /\ box' = ClosedBox /\ co' = Unbound /\ up' = FALSE
         /\ now' = now /\ offered' = offered /\ late' = late
  <1>1. PICK q \in Seq(Disks) : q = r.seen
    BY RunParts DEF Ready
  <1>2. PICK k \in DOMAIN q :
            /\ disk' = q[k]
            /\ witnessed' = witnessed \cup {c \in Contexts : RevokedOnDisk(q[k], c)}
            /\ barred' = barred \cup BarredIn(SubSeq(q, 1, k))
            /\ outlived' = outlived \cup OutlivedIn(SubSeq(q, 1, k))
    BY <1>1 DEF Dies
  <1>3. k \in 1..Len(q)
    OBVIOUS
  <1>4. /\ barred \cup BarredIn(SubSeq(q, 1, k)) = BarredAt(q, k)
        /\ outlived \cup OutlivedIn(SubSeq(q, 1, k)) = GoneAt(q, k)
    BY <1>3, HistoryOK
  <1>5. Left(r, k)
    BY <1>1, <1>2, <1>4 DEF Left
  <1> QED
    BY <1>1, <1>3, <1>5 DEF Dies

\* Producer ids that are drawn are not forgotten.
Drawn(d, c) ==
    /\ prods' \in Nat /\ prods <= prods'
    /\ d.state # None => d.state.prod <= prods'
    /\ c.prod <= prods'

LEMMA FilesLater ==
  ASSUME NEW d \in Disks, NEW c, NEW p, NEW bs, NEW cs, FilesOK(d, p, bs), prods \in Nat,
         FileBatches(d) \subseteq cs, cs \subseteq bs, Drawn(d, c),
         witnessed' \subseteq witnessed \cup {x \in Contexts : RevokedOnDisk(d, x)}
  PROVE  FilesOK(d, prods, cs)'
  <1>1. KnownOK(bs) /\ Unique(cs) /\ cs \subseteq Batches
    BY DEF FilesOK, KnownOK, Unique
  <1>2. \A b \in cs : b.prod # 0 /\ b.prod <= prods'
    <2> SUFFICES ASSUME NEW b \in cs PROVE b.prod # 0 /\ b.prod <= prods'
      OBVIOUS
    <2>1. b.prod \in Nat /\ b.prod # 0 /\ b.prod <= prods
      BY <1>1 DEF KnownOK, Batches
    <2> QED
      BY <2>1 DEF Drawn
  <1>3. KnownOK(cs)'
    BY <1>1, <1>2 DEF KnownOK
  <1>4. d.state # None => StateFits(d.state, prods', cs)
    BY DEF FilesOK, StateFits, Drawn
  <1>5. d.state # None => {x \in Contexts : RevokedOnDisk(d, x)} \subseteq RevokedBy(d.state)
    BY DEF RevokedOnDisk, RevokedBy
  <1>6. \/ d.blocked
        \/ d.state = None /\ witnessed' = {}
        \/ d.state # None /\ witnessed' \subseteq RevokedBy(d.state)
    <2>1. d.state = None => {x \in Contexts : RevokedOnDisk(d, x)} = {}
      BY DEF RevokedOnDisk
    <2> QED
      BY <1>5, <2>1 DEF FilesOK
  <1>7. /\ d.file # None => Distinct(d.file.records)
        /\ d.state # None /\ ~d.revoked /\ ~d.blocked /\ d.state.life # "revoked"
           => \A b \in FileBatches(d) : Fits(d.state, b)
    BY DEF FilesOK
  <1> QED
    BY <1>3, <1>4, <1>6, <1>7 DEF FilesOK

LEMMA BarredHeld ==
  ASSUME NEW d
  PROVE  BarredOnDisk(d) \subseteq FileBatches(d)
  BY DEF BarredOnDisk, FileBatches, BatchesOf

LEMMA LeftFiles ==
  ASSUME NEW r, NEW p, Ready(r, p), NEW k \in 1..Len(r.seen), Left(r, k), prods \in Nat,
         Drawn(r.seen[k], co'), offered' \subseteq KnownAt(r.seen, k)
  PROVE  /\ disk' \in Disks
         /\ FilesOK(disk, prods, Knows)' /\ ExpiryOK(disk, Shown)'
         /\ Knows' \subseteq KnownAt(r.seen, k)
         /\ Shown' \subseteq ExpiredAtStep(r.seen, k)
  <1>1. PICK q \in Seq(Disks) : q = r.seen
    BY RunParts DEF Ready
  <1>2. PICK d : d = disk'
    OBVIOUS
  <1>3. d \in Disks /\ d = q[k] /\ k \in 1..Len(q) /\ k \in Nat
    BY <1>1, <1>2 DEF Left
  <1>4. FilesOK(d, p, KnownAt(q, k)) /\ ExpiryOK(d, ExpiredAtStep(q, k))
    BY <1>1, <1>3 DEF Ready, SeenOK
  <1>5. PICK cs : cs = Knows'
    OBVIOUS
  <1>6. PICK es : es = Shown'
    OBVIOUS
  <1>7. cs = offered' \cup BarredAt(q, k) \cup FileBatches(d)
    BY <1>1, <1>2, <1>5 DEF Knows, Left
  <1>8. BarredAt(q, k) \subseteq KnownAt(q, k) /\ FileBatches(d) \subseteq KnownAt(q, k)
    <2>1. \A j \in 1..k : BarredOnDisk(q[j]) \subseteq FileBatches(q[j])
      BY BarredHeld
    <2>2. k \in 1..k
      BY <1>3
    <2>3. FileBatches(d) \subseteq UNION {FileBatches(q[j]) : j \in 1..k}
      BY <1>3, <2>2
    <2>4. UNION {BarredOnDisk(q[j]) : j \in 1..k} \subseteq UNION {FileBatches(q[j]) : j \in 1..k}
      BY <2>1
    <2> QED
      BY <2>3, <2>4 DEF BarredAt, KnownAt
  <1>9. cs \subseteq KnownAt(q, k) /\ FileBatches(d) \subseteq cs
    BY <1>1, <1>7, <1>8
  <1>10. es = (BarredAt(q, k) \cup BarredOnDisk(d)) \ GoneAt(q, k)
    BY <1>1, <1>2, <1>6 DEF Shown, Left
  <1>11. es \subseteq ExpiredAtStep(q, k)
    <2>1. BarredOnDisk(d) \subseteq BarredAt(q, k)
      <3>1. k \in 1..k
        BY <1>3
      <3> QED
        BY <1>3, <3>1 DEF BarredAt
    <2> QED
      BY <1>10, <2>1 DEF ExpiredAtStep
  <1>12. FilesOK(d, prods, cs)'
    <2>1. PICK c : c = co'
      OBVIOUS
    <2>2. Drawn(d, c)
      BY <1>1, <1>3, <2>1 DEF Drawn
    <2>3. witnessed' \subseteq witnessed \cup {x \in Contexts : RevokedOnDisk(d, x)}
      BY <1>1, <1>3 DEF Left
    <2> QED
      BY <1>3, <1>4, <1>9, <2>2, <2>3, FilesLater
  <1>13. ExpiryOK(d, es)
    BY <1>4, <1>11 DEF ExpiryOK, Shows, Remembers
  <1>14. FilesOK(disk, prods, Knows)'
    BY <1>2, <1>5, <1>12 DEF FilesOK, KnownOK
  <1>15. ExpiryOK(disk, Shown)'
    BY <1>2, <1>6, <1>13
  <1> QED
    BY <1>1, <1>2, <1>3, <1>5, <1>6, <1>9, <1>11, <1>14, <1>15

\* A good run leaves a coordinator that knows what the files know.
LEMMA LeftBound ==
  ASSUME NEW r, NEW p, Good(r, p), Left(r, Len(r.seen)), disk' = r.disk, box' = r.box,
         co' = r.co, Drawn(r.disk, co'), Knows' \subseteq Known(r), Shown' \subseteq Expired(r)
  PROVE  BoundTo(co, box, disk, prods, Knows, Shown)'
  <1>1. PICK c : c = co'
    OBVIOUS
  <1>2. PICK b : b = box'
    OBVIOUS
  <1>3. PICK d : d = disk'
    OBVIOUS
  <1>4. PICK cs : cs = Knows'
    OBVIOUS
  <1>5. PICK es : es = Shown'
    OBVIOUS
  <1>6. BoundTo(c, b, d, p, Known(r), Expired(r)) /\ cs \subseteq Known(r) /\ es \subseteq Expired(r)
    BY <1>1, <1>2, <1>3, <1>4, <1>5, GoodIsBound
  <1>7. StateFits(c, prods', cs)
    BY <1>1, <1>6 DEF BoundTo, StateFits, Drawn
  <1>8. RevokedBy(d.state) \cup witnessed' \subseteq RevokedBy(c)
    <2>1. {x \in Contexts : RevokedOnDisk(d, x)} \subseteq RevokedBy(d.state)
      BY DEF RevokedOnDisk, RevokedBy
    <2>2. witnessed' = witnessed \cup {x \in Contexts : RevokedOnDisk(d, x)}
      BY <1>3 DEF Left
    <2> QED
      BY <1>6, <2>1, <2>2 DEF BoundTo
  <1>9. /\ b.is_open => Mirrors(b, d, es)
        /\ c.pending \notin es
    BY <1>6 DEF BoundTo, Mirrors, Shows
  <1>10. BoundTo(c, b, d, prods, cs, es)'
    BY <1>6, <1>7, <1>8, <1>9 DEF BoundTo
  <1> QED
    BY <1>1, <1>2, <1>3, <1>4, <1>5, <1>10 DEF BoundTo

\* Nothing sent in this step.
LEMMA SilentOK ==
  ASSUME ClientInv, NEW r, NEW k, Left(r, k), offered' = offered, late' = late
  PROVE  /\ offered' \subseteq KnownAt(r.seen, k)
         /\ late'.revoked = {} /\ late'.expired \subseteq outlived'
  BY DEF ClientInv, Left, KnownAt, GoneAt

\* A call that returns with its coordinator open.
LEMMA ReturnsOK ==
  ASSUME ClientInv, NEW r, NEW p, Good(r, p), r.co.is_open, Returns(r), Drawn(r.disk, r.co),
         offered' \subseteq Known(r), late'.revoked = {}, late'.expired \subseteq outlived',
         up' = TRUE, bodies' \in Nat
  PROVE  ClientInv'
  <1>1. Ready(r, p) /\ r \in Runs
    BY GoodIsBound DEF Ready
  <1>2. /\ Left(r, Len(r.seen)) /\ Len(r.seen) \in 1..Len(r.seen)
        /\ box' = r.box /\ co' = r.co /\ disk' = r.disk /\ now' = now
    BY <1>1, ReturnsLeft
  <1>3. r.seen[Len(r.seen)] = r.disk /\ KnownAt(r.seen, Len(r.seen)) = Known(r)
        /\ ExpiredAtStep(r.seen, Len(r.seen)) = Expired(r)
    BY <1>1 DEF Ready, SeenOK, Known, Expired
  <1>4. prods \in Nat /\ now' \in Nat \ {0} /\ prods' \in Nat
    BY <1>2 DEF ClientInv, ClientTypes, Drawn
  <1>5. Drawn(r.seen[Len(r.seen)], co')
    BY <1>2, <1>3
  <1>6. /\ disk' \in Disks
        /\ FilesOK(disk, prods, Knows)' /\ ExpiryOK(disk, Shown)'
        /\ Knows' \subseteq Known(r)
        /\ Shown' \subseteq Expired(r)
    BY <1>1, <1>2, <1>3, <1>4, <1>5, LeftFiles
  <1>7. BoundTo(co, box, disk, prods, Knows, Shown)'
    BY <1>2, <1>6, LeftBound
  <1>8. box' \in Boxes /\ co' \in Coordinators
    BY <1>1, <1>2, RunParts
  <1>9. ClientTypes'
    BY <1>4, <1>6, <1>8 DEF ClientTypes
  <1>10. co'.is_open
    BY <1>2
  <1> QED
    BY <1>6, <1>7, <1>9, <1>10 DEF ClientInv

\* A step after which the service has no coordinator.
LEMMA ShutOK ==
  ASSUME ClientInv, NEW r, NEW p, Ready(r, p), NEW k \in 1..Len(r.seen), Left(r, k),
         Drawn(r.seen[k], co'), offered' = offered, late' = late, now' = now,
         box' = ClosedBox, co' = Unbound, up' \in BOOLEAN, bodies' \in Nat
  PROVE  ClientInv'
  <1>1. /\ offered' \subseteq KnownAt(r.seen, k)
        /\ late'.revoked = {} /\ late'.expired \subseteq outlived'
    BY SilentOK
  <1>2. prods \in Nat /\ now' \in Nat \ {0} /\ prods' \in Nat
    BY DEF ClientInv, ClientTypes, Drawn
  <1>3. /\ disk' \in Disks
        /\ FilesOK(disk, prods, Knows)' /\ ExpiryOK(disk, Shown)'
    BY <1>1, <1>2, LeftFiles
  <1>4. box' \in Boxes /\ co' \in Coordinators /\ ~co'.is_open
    BY ClosedBoxOK, UnboundOK DEF Shut
  <1>5. ClientTypes'
    BY <1>2, <1>3, <1>4 DEF ClientTypes
  <1> QED
    BY <1>1, <1>3, <1>4, <1>5 DEF ClientInv

LEMMA ReturnsClosed ==
  ASSUME ClientInv, NEW r, NEW p, Ready(r, p), Closed(r), Returns(r), Drawn(r.disk, Unbound),
         offered' = offered, late' = late, up' \in BOOLEAN, bodies' \in Nat
  PROVE  ClientInv'
  <1>1. /\ Left(r, Len(r.seen)) /\ Len(r.seen) \in 1..Len(r.seen)
        /\ box' = r.box /\ co' = r.co /\ disk' = r.disk /\ now' = now
    BY ReturnsLeft
  <1>2. r.seen[Len(r.seen)] = r.disk
    BY DEF Ready, SeenOK
  <1>3. box' = ClosedBox /\ co' = Unbound /\ Drawn(r.seen[Len(r.seen)], co')
    BY <1>1, <1>2 DEF Closed
  <1> QED
    BY <1>1, <1>3, ShutOK

\* The process dies in a call.
LEMMA DiesOK ==
  ASSUME ClientInv, NEW r, NEW p, Ready(r, p), Dies(r), Drawn(disk', Unbound), bodies' \in Nat
  PROVE  ClientInv'
  <1>1. /\ \E k \in 1..Len(r.seen) : Left(r, k)
        /\ box' = ClosedBox /\ co' = Unbound /\ up' = FALSE
        /\ now' = now /\ offered' = offered /\ late' = late
    BY DiesLeft
  <1>2. PICK k \in 1..Len(r.seen) : Left(r, k)
    BY <1>1
  <1>3. Drawn(r.seen[k], co')
    BY <1>1, <1>2 DEF Left
  <1> QED
    BY <1>1, <1>2, <1>3, ShutOK

\* Calls that draw no producer id.
LEMMA DrawnSame ==
  ASSUME NEW r, Ready(r, prods), prods \in Nat, prods' = prods
  PROVE  /\ \A k \in 1..Len(r.seen) : Drawn(r.seen[k], Unbound)
         /\ Drawn(r.disk, Unbound)
         /\ Good(r, prods) => Drawn(r.disk, r.co)
  <1>1. \A k \in 1..Len(r.seen) : r.seen[k].state # None => r.seen[k].state.prod <= prods
    BY DEF Ready, SeenOK, FilesOK, StateFits
  <1>2. r.disk = r.seen[Len(r.seen)] /\ Len(r.seen) \in 1..Len(r.seen)
    BY RunParts DEF Ready, SeenOK
  <1>3. Unbound.prod <= prods /\ prods <= prods
    BY UnboundOK
  <1>4. Good(r, prods) => r.co.prod <= prods
    BY DEF Good, Bound, StateFits
  <1> QED
    BY <1>1, <1>2, <1>3, <1>4 DEF Drawn

\* A call of an open coordinator that sends nothing.
LEMMA StepOK ==
  ASSUME ClientInv, NEW r, NEW p, Good(r, p), r.co.is_open, Step(r), bodies' \in Nat,
         up' = TRUE => Drawn(r.disk, r.co), up' # TRUE => Drawn(disk', Unbound)
  PROVE  ClientInv'
  <1>1. Ready(r, p)
    BY GoodIsBound
  <1>2. CASE Returns(r) /\ UNCHANGED <<up, offered, late>>
    <2>1. up' = TRUE /\ offered' = offered /\ late' = late /\ Returns(r)
      BY <1>2 DEF Step, ClientInv, ClientTypes
    <2>2. Left(r, Len(r.seen))
      BY <1>1, <2>1, ReturnsLeft
    <2>3. /\ offered' \subseteq Known(r)
          /\ late'.revoked = {} /\ late'.expired \subseteq outlived'
      BY <2>1, <2>2, SilentOK DEF Known
    <2> QED
      BY <2>1, <2>3, ReturnsOK
  <1>3. CASE Dies(r)
    <2>1. Drawn(disk', Unbound)
      BY <1>3 DEF Dies
    <2> QED
      BY <1>1, <1>3, <2>1, DiesOK
  <1> QED
    BY <1>2, <1>3 DEF Step

\* The same, when no producer id is drawn.
LEMMA PlainOK ==
  ASSUME ClientInv, co.is_open, NEW o \in Outages, NEW x, x = Call(o), NEW r,
         Good(x, prods) => Acted(x, r, prods), Step(r), bodies' \in Nat, prods' = prods
  PROVE  ClientInv'
  <1>1. Good(x, prods) /\ x.co = co /\ prods \in Nat
    BY CallOK
  <1>2. Good(r, prods) /\ r.co.is_open
    BY <1>1 DEF Acted
  <1>3. Ready(r, prods)
    BY <1>2, GoodIsBound
  <1>4. Drawn(r.disk, r.co) /\ \A k \in 1..Len(r.seen) : Drawn(r.seen[k], Unbound)
    BY <1>1, <1>2, <1>3, DrawnSame
  <1>5. ASSUME up' # TRUE PROVE Drawn(disk', Unbound)
    <2>1. Dies(r)
      BY <1>5 DEF Step, ClientInv, ClientTypes
    <2>2. PICK k \in 1..Len(r.seen) : Left(r, k)
      BY <1>3, <2>1, DiesLeft
    <2> QED
      BY <1>4, <2>2 DEF Left
  <1> QED
    BY <1>2, <1>4, <1>5, StepOK

LEMMA StopStep ==
  ASSUME ClientInv, Stop
  PROVE  ClientInv'
  <1>1. PICK o \in Outages : Step(ExplicitStop(Call(o)))
    BY DEF Stop
  <1>2. PICK x : x = Call(o)
    OBVIOUS
  <1>3. PICK r : r = ExplicitStop(x)
    OBVIOUS
  <1>4. Step(r)
    BY <1>1, <1>2, <1>3
  <1>5. x.ok
    BY <1>2, CallOK
  <1>6. Good(x, prods) => Acted(x, r, prods)
    BY <1>3, <1>5, StopOK
  <1>7. co.is_open /\ prods' = prods /\ bodies' \in Nat
    BY DEF Stop, ClientInv, ClientTypes
  <1> QED
    BY <1>2, <1>4, <1>6, <1>7, PlainOK

LEMMA DisconnectStep ==
  ASSUME ClientInv, Disconnect
  PROVE  ClientInv'
  <1>1. PICK o \in Outages : Step(ServerDisconnect(Call(o)))
    BY DEF Disconnect
  <1>2. PICK x : x = Call(o)
    OBVIOUS
  <1>3. PICK r : r = ServerDisconnect(x)
    OBVIOUS
  <1>4. Step(r)
    BY <1>1, <1>2, <1>3
  <1>5. co.is_open /\ prods' = prods /\ bodies' \in Nat /\ prods \in Nat
    BY DEF Disconnect, ClientInv, ClientTypes
  <1>6. Good(x, prods) => Acted(x, r, prods)
    BY <1>3, <1>5, DisconnectOK
  <1> QED
    BY <1>2, <1>4, <1>5, <1>6, PlainOK

LEMMA AckStep ==
  ASSUME ClientInv, Ack
  PROVE  ClientInv'
  <1>1. PICK b \in offered, k \in Statuses, o \in Outages : Step(ServerAck(Call(o), b, k))
    BY DEF Ack
  <1>2. PICK x : x = Call(o)
    OBVIOUS
  <1>3. PICK r : r = ServerAck(x, b, k)
    OBVIOUS
  <1>4. Step(r)
    BY <1>1, <1>2, <1>3
  <1>5. co.is_open /\ prods' = prods /\ bodies' \in Nat /\ prods \in Nat
    BY DEF Ack, ClientInv, ClientTypes
  <1>6. k \in Answers
    BY ClientAssumption DEF Answers
  <1>7. Good(x, prods) => Acted(x, r, prods)
    BY <1>3, <1>5, <1>6, AckOK
  <1> QED
    BY <1>2, <1>4, <1>5, <1>7, PlainOK

LEMMA SamplesStep ==
  ASSUME ClientInv, Samples
  PROVE  ClientInv'
  <1>1. PICK n \in 1..2, o \in Outages :
            /\ Step(Ingest(Call(o), [i \in 1..n |-> bodies + i]))
            /\ bodies' = bodies + n
    BY DEF Samples
  <1>2. PICK x : x = Call(o)
    OBVIOUS
  <1>3. PICK qs : qs = [i \in 1..n |-> bodies + i]
    OBVIOUS
  <1>4. PICK r : r = Ingest(x, qs)
    OBVIOUS
  <1>5. Step(r)
    BY <1>1, <1>2, <1>3, <1>4
  <1>6. co.is_open /\ prods' = prods /\ bodies \in Nat /\ prods \in Nat
    BY DEF Samples, ClientInv, ClientTypes
  <1>7. qs \in Seq(Nat) /\ bodies' \in Nat
    <2>1. n \in Nat /\ \A i \in 1..n : bodies + i \in Nat
      BY <1>6
    <2>2. [i \in 1..n |-> bodies + i] \in Seq(Nat)
      BY <2>1
    <2> QED
      BY <1>1, <1>3, <1>6, <2>2
  <1>8. Good(x, prods) => Acted(x, r, prods)
    BY <1>4, <1>6, <1>7, IngestOK
  <1> QED
    BY <1>2, <1>5, <1>6, <1>7, <1>8, PlainOK

LEMMA MaintenanceStep ==
  ASSUME ClientInv, Maintenance
  PROVE  ClientInv'
  <1>1. PICK o \in Outages : Step(Maintain(Call(o)))
    BY DEF Maintenance
  <1>2. PICK x : x = Call(o)
    OBVIOUS
  <1>3. PICK r : r = Maintain(x)
    OBVIOUS
  <1>4. Step(r)
    BY <1>1, <1>2, <1>3
  <1>5. prods' = prods /\ bodies' \in Nat /\ prods \in Nat /\ co.is_open \in BOOLEAN
    BY CoParts DEF Maintenance, ClientInv, ClientTypes
  <1>6. x.co = co /\ Ready(x, prods) /\ (co.is_open => Good(x, prods)) /\ (~co.is_open => Closed(x))
    BY <1>2, CallOK
  <1>7. CASE co.is_open
    <2>1. r = MaintainOpen(x)
      BY <1>3, <1>6, <1>7 DEF Maintain
    <2>2. Finished(x, r)
      BY <1>5, <1>6, <1>7, <2>1, MaintainOpenOK
    <2>3. Good(x, prods) => Acted(x, r, prods)
      BY <2>2 DEF Finished, Acted
    <2> QED
      BY <1>2, <1>4, <1>5, <1>7, <2>3, PlainOK
  <1>8. CASE ~co.is_open
    <2>1. Ready(r, prods) /\ Closed(r)
      BY <1>3, <1>6, <1>8, ScrubOK
    <2>2. Drawn(r.disk, Unbound) /\ \A k \in 1..Len(r.seen) : Drawn(r.seen[k], Unbound)
      BY <1>5, <2>1, DrawnSame
    <2>3. CASE Returns(r) /\ UNCHANGED <<up, offered, late>>
      BY <1>5, <2>1, <2>2, <2>3, ReturnsClosed DEF ClientInv, ClientTypes
    <2>4. CASE Dies(r)
      <3>1. PICK k \in 1..Len(r.seen) : Left(r, k)
        BY <2>1, <2>4, DiesLeft
      <3>2. Drawn(disk', Unbound)
        BY <2>2, <3>1 DEF Left
      <3> QED
        BY <1>5, <2>1, <2>4, <3>2, DiesOK
    <2> QED
      BY <1>4, <2>3, <2>4 DEF Step
  <1> QED
    BY <1>5, <1>7, <1>8

LEMMA StartStep ==
  ASSUME ClientInv, Start
  PROVE  ClientInv'
  <1>1. PICK o \in Outages :
            LET r == OpenCoordinator(Call(o))
            IN  \/ Returns(r) /\ up' = TRUE /\ UNCHANGED <<offered, late>>
                \/ Dies(r)
    BY DEF Start
  <1>2. PICK x : x = Call(o)
    OBVIOUS
  <1>3. PICK r : r = OpenCoordinator(x)
    OBVIOUS
  <1>4. \/ Returns(r) /\ up' = TRUE /\ UNCHANGED <<offered, late>>
        \/ Dies(r)
    BY <1>1, <1>2, <1>3
  <1>5. prods' = prods /\ bodies' \in Nat /\ prods \in Nat
    BY DEF Start, ClientInv, ClientTypes
  <1>6. Ready(x, prods)
    BY <1>2, CallOK
  <1>7. Started(x, r)
    BY <1>3, <1>5, <1>6, StartOK
  <1>8. Ready(r, prods)
    BY <1>7 DEF Started
  <1>9. /\ Drawn(r.disk, Unbound) /\ \A k \in 1..Len(r.seen) : Drawn(r.seen[k], Unbound)
        /\ Good(r, prods) => Drawn(r.disk, r.co)
    BY <1>5, <1>8, DrawnSame
  <1>10. CASE Dies(r)
    <2>1. PICK k \in 1..Len(r.seen) : Left(r, k)
      BY <1>8, <1>10, DiesLeft
    <2>2. Drawn(disk', Unbound)
      BY <1>9, <2>1 DEF Left
    <2> QED
      BY <1>5, <1>8, <1>10, <2>2, DiesOK
  <1>11. CASE Returns(r) /\ up' = TRUE /\ UNCHANGED <<offered, late>>
    <2>1. CASE Closed(r)
      BY <1>5, <1>8, <1>9, <1>11, <2>1, ReturnsClosed
    <2>2. CASE Good(r, prods) /\ r.co.is_open
      <3>1. Left(r, Len(r.seen))
        BY <1>8, <1>11, ReturnsLeft
      <3>2. /\ offered' \subseteq Known(r)
            /\ late'.revoked = {} /\ late'.expired \subseteq outlived'
        BY <1>11, <3>1, SilentOK DEF Known
      <3> QED
        BY <1>5, <1>9, <1>11, <2>2, <3>2, ReturnsOK
    <2> QED
      BY <1>7, <2>1, <2>2 DEF Started
  <1> QED
    BY <1>4, <1>10, <1>11

LEMMA EnableStep ==
  ASSUME ClientInv, NEW c \in Contexts, Enable(c)
  PROVE  ClientInv'
  <1>1. PICK o \in Outages : Step(ServerEnable(Call(o), c, prods + 1))
    BY DEF Enable
  <1>2. PICK x : x = Call(o)
    OBVIOUS
  <1>3. prods \in Nat /\ bodies' \in Nat /\ co.is_open
    BY DEF Enable, ClientInv, ClientTypes
  <1>4. PICK p \in Nat : p = prods + 1
    BY <1>3
  <1>5. PICK r : r = ServerEnable(x, c, p)
    OBVIOUS
  <1>6. Step(r)
    BY <1>1, <1>2, <1>4, <1>5
  <1>7. Good(x, prods) /\ x.co = co
    BY <1>2, <1>3, CallOK
  <1>8. Acted(x, r, p)
    BY <1>3, <1>4, <1>5, <1>7, EnableOK
  <1>9. Good(r, p) /\ r.co.is_open
    BY <1>3, <1>7, <1>8 DEF Acted
  <1>10. Ready(r, p) /\ r \in Runs
    BY <1>9, GoodIsBound DEF Ready
  <1>11. prods' = IF co'.prod = p \/ (disk'.state # None /\ disk'.state.prod = p) THEN p ELSE prods
    BY <1>4 DEF Enable
  <1>12. prods' \in Nat /\ prods <= prods'
    BY <1>3, <1>4, <1>11
  <1>13. r.co.prod \in Nat /\ r.co.prod <= p
    BY <1>9, <1>10, RunParts, CoParts DEF Good, Bound, StateFits
  <1>14. \A k \in 1..Len(r.seen) : r.seen[k].state # None
                                   => r.seen[k].state.prod \in Nat /\ r.seen[k].state.prod <= p
    <2> SUFFICES ASSUME NEW k \in 1..Len(r.seen), r.seen[k].state # None
                 PROVE  r.seen[k].state.prod \in Nat /\ r.seen[k].state.prod <= p
      OBVIOUS
    <2>1. r.seen[k] \in Disks
      BY <1>10, RunParts
    <2>2. r.seen[k].state \in States
      BY <2>1, DiskParts
    <2> QED
      BY <1>10, <2>2, StateParts DEF Ready, SeenOK, FilesOK, StateFits
  <1>15. ASSUME up' = TRUE PROVE Drawn(r.disk, r.co)
    <2>1. Returns(r)
      BY <1>6, <1>15 DEF Step, Dies
    <2>2. co' = r.co /\ disk' = r.disk /\ Len(r.seen) \in 1..Len(r.seen)
      BY <1>10, <2>1, ReturnsLeft
    <2>3. r.disk = r.seen[Len(r.seen)]
      BY <1>10 DEF Ready, SeenOK
    <2>4. r.disk.state # None => r.disk.state.prod \in Nat /\ r.disk.state.prod <= p
      BY <1>14, <2>2, <2>3
    <2> QED
      BY <1>3, <1>4, <1>11, <1>12, <1>13, <2>2, <2>4 DEF Drawn
  <1>16. ASSUME up' # TRUE PROVE Drawn(disk', Unbound)
    <2>1. Dies(r)
      BY <1>6, <1>16 DEF Step, ClientInv, ClientTypes
    <2>2. PICK k \in 1..Len(r.seen) : Left(r, k)
      BY <1>10, <2>1, DiesLeft
    <2>3. disk' = r.seen[k]
      BY <2>2 DEF Left
    <2>4. disk'.state # None => disk'.state.prod \in Nat /\ disk'.state.prod <= p
      BY <1>14, <2>3
    <2>5. Unbound.prod <= prods'
      BY <1>12, UnboundOK
    <2> QED
      BY <1>3, <1>4, <1>11, <1>12, <2>4, <2>5 DEF Drawn
  <1> QED
    BY <1>3, <1>6, <1>9, <1>15, <1>16, StepOK

LEMMA ShutdownStep ==
  ASSUME ClientInv, Shutdown
  PROVE  ClientInv'
  <1>1. PICK o \in Outages :
            LET r == HandleShutdown(Call(o))
            IN  \/ Returns(CloseBox([r EXCEPT !.co = Unbound])) /\ up' = FALSE
                   /\ UNCHANGED <<offered, late>>
                \/ Dies(r)
    BY DEF Shutdown
  <1>2. PICK x : x = Call(o)
    OBVIOUS
  <1>3. PICK r : r = HandleShutdown(x)
    OBVIOUS
  <1>4. PICK s : s = CloseBox([r EXCEPT !.co = Unbound])
    OBVIOUS
  <1>5. \/ Returns(s) /\ up' = FALSE /\ UNCHANGED <<offered, late>>
        \/ Dies(r)
    BY <1>1, <1>2, <1>3, <1>4
  <1>6. prods' = prods /\ bodies' \in Nat /\ prods \in Nat
    BY DEF Shutdown, ClientInv, ClientTypes
  <1>7. Ready(x, prods) /\ x.co = co /\ (co.is_open => Good(x, prods))
    BY <1>2, CallOK
  <1>8. Ready(r, prods)
    <2>1. CASE co.is_open
      <3>1. r = ServiceShutdown(x)
        BY <1>3, <1>7, <2>1 DEF HandleShutdown
      <3>2. Acted(x, r, prods)
        BY <1>6, <1>7, <2>1, <3>1, ShutdownOK
      <3> QED
        BY <3>2, GoodIsBound DEF Acted
    <2>2. CASE ~co.is_open
      BY <1>3, <1>7, <2>2 DEF HandleShutdown
    <2> QED
      BY <2>1, <2>2
  <1>9. Ready(s, prods) /\ Closed(s)
    BY <1>4, <1>8, CloseOK
  <1>10. CASE Returns(s) /\ up' = FALSE /\ UNCHANGED <<offered, late>>
    <2>1. Drawn(s.disk, Unbound)
      BY <1>6, <1>9, DrawnSame
    <2> QED
      BY <1>6, <1>9, <1>10, <2>1, ReturnsClosed
  <1>11. CASE Dies(r)
    <2>1. \A k \in 1..Len(r.seen) : Drawn(r.seen[k], Unbound)
      BY <1>6, <1>8, DrawnSame
    <2>2. PICK k \in 1..Len(r.seen) : Left(r, k)
      BY <1>8, <1>11, DiesLeft
    <2>3. Drawn(disk', Unbound)
      BY <2>1, <2>2 DEF Left
    <2> QED
      BY <1>6, <1>8, <1>11, <2>3, DiesOK
  <1> QED
    BY <1>5, <1>10, <1>11

\* The record at i is on its way.
Sent(b, i) == [b EXCEPT !.records[i].in_flight = TRUE, !.records[i].waiting = FALSE]

LEMMA SentOK ==
  ASSUME NEW b \in Boxes, NEW i \in DOMAIN b.records, NEW a, a = Sent(b, i)
  PROVE  SameShell(a, b) /\ Alike(a.records, b.records) /\ a.losses = b.losses
  <1>1. PICK e \in BOOLEAN, f \in BOOLEAN : e = TRUE /\ f = FALSE
    OBVIOUS
  <1>2. a = [b EXCEPT !.records[i].in_flight = e, !.records[i].waiting = f]
    BY <1>1 DEF Sent
  <1>3. SameShell(a, b) /\ Alike(a.records, b.records)
    BY <1>2, FlagsOK
  <1>4. a.losses = b.losses
    BY DEF Sent, Boxes
  <1> QED
    BY <1>3, <1>4

\* The batch handed over: known, of a context the coordinator has not
\* revoked, and not expired.
LEMMA OfferOK ==
  ASSUME NEW r, prods \in Nat, Good(r, prods), r.co.life = "enabled", r.box.is_open,
         r.box.barrier = 0, NEW i \in DOMAIN r.box.records, NEW s, s = Offer(r, i),
         NEW b, b = r.box.records[i].batch
  PROVE  /\ Good(s, prods) /\ s.co = r.co /\ s.disk = r.disk /\ s.seen = r.seen
         /\ b \in Known(r) /\ b.ctx \notin RevokedBy(r.co) /\ b \notin Expired(r)
  <1>1. r \in Runs /\ Mirror(r) /\ Bound(r, prods) /\ Ready(r, prods)
    BY GoodIsBound DEF Good, BoxOK
  <1>2. r.box \in Boxes
    BY <1>1, RunParts
  <1>5. PICK a : a = Sent(r.box, i)
    OBVIOUS
  <1>6. SameShell(a, r.box) /\ Alike(a.records, r.box.records) /\ a.losses = r.box.losses
    BY <1>2, <1>5, SentOK
  <1>7. a \in Boxes
    BY <1>6 DEF SameShell
  <1>8. s = [r EXCEPT !.box = a]
    BY <1>5 DEF Offer, Sent
  <1>9. SameDisks(r, s) /\ s.box = a /\ s.co = r.co
    BY <1>1, <1>7, <1>8, BoxSet
  <1>10. Good(s, prods)
    BY <1>6, <1>9, FlagsGood
  <1>11. b \in FileBatches(r.disk)
    BY <1>1 DEF Mirror, Mirrors, BatchesOf, FileBatches
  <1>12. FileBatches(r.disk) \subseteq Known(r)
    BY <1>1, ReadyFacts DEF ReadyAt, FilesOK
  <1>13. b \notin Expired(r)
    BY <1>1 DEF Mirror, Mirrors, Shows
  <1>14. ~IsRevoked(r.co) /\ r.co.life # "revoked"
    BY DEF IsRevoked
  <1>15. b.ctx = r.co.ctx /\ r.co.ctx \notin r.co.archive
    BY <1>1, <1>11, <1>14 DEF Bound, Fits, StateFits, Shaped
  <1>16. b.ctx \notin RevokedBy(r.co)
    BY <1>14, <1>15 DEF RevokedBy
  <1> QED
    BY <1>9, <1>10, <1>11, <1>12, <1>13, <1>16 DEF SameDisks

LEMMA PollStep ==
  ASSUME ClientInv, Poll
  PROVE  ClientInv'
  <1>1. PICK o \in Outages :
            LET r == Pollable(Call(o))
            IN  \/ /\ r.ok
                   /\ \E i \in Eligible(r.box) :
                        /\ Returns(Offer(r, i))
                        /\ HandedOver(r.box.records[i].batch)
                   /\ UNCHANGED up
                \/ Returns(r) /\ UNCHANGED <<up, offered, late>>
                \/ Dies(r)
    BY DEF Poll
  <1>2. PICK x : x = Call(o)
    OBVIOUS
  <1>3. PICK r : r = Pollable(x)
    OBVIOUS
  <1>4. \/ /\ r.ok
           /\ \E i \in Eligible(r.box) :
                /\ Returns(Offer(r, i))
                /\ HandedOver(r.box.records[i].batch)
           /\ UNCHANGED up
        \/ Returns(r) /\ UNCHANGED <<up, offered, late>>
        \/ Dies(r)
    BY <1>1, <1>2, <1>3
  <1>5. prods' = prods /\ bodies' \in Nat /\ prods \in Nat /\ co.is_open /\ up = TRUE
    BY DEF Poll, ClientInv, ClientTypes
  <1>6. Good(x, prods) /\ x.co = co
    BY <1>2, <1>5, CallOK
  <1>7. /\ Acted(x, r, prods)
        /\ r.ok => r.co.life = "enabled" /\ r.box.is_open /\ r.box.barrier = 0
    BY <1>3, <1>5, <1>6, PollableOK
  <1>8. CASE (Returns(r) /\ UNCHANGED <<up, offered, late>>) \/ Dies(r)
    <2>1. Step(r)
      BY <1>5, <1>8 DEF Step
    <2> QED
      BY <1>2, <1>5, <1>7, <2>1, PlainOK
  <1>9. CASE /\ r.ok
             /\ \E i \in Eligible(r.box) :
                  /\ Returns(Offer(r, i))
                  /\ HandedOver(r.box.records[i].batch)
             /\ UNCHANGED up
    <2>1. PICK i \in Eligible(r.box) :
              Returns(Offer(r, i)) /\ HandedOver(r.box.records[i].batch)
      BY <1>9
    <2>2. i \in DOMAIN r.box.records
      BY DEF Eligible
    <2>3. PICK s : s = Offer(r, i)
      OBVIOUS
    <2>4. PICK b : b = r.box.records[i].batch
      OBVIOUS
    <2>5. Good(r, prods) /\ r.co.is_open
      BY <1>5, <1>6, <1>7 DEF Acted
    <2>6. /\ Good(s, prods) /\ s.co = r.co /\ s.disk = r.disk /\ s.seen = r.seen
          /\ b \in Known(r) /\ b.ctx \notin RevokedBy(r.co) /\ b \notin Expired(r)
      BY <1>5, <1>7, <1>9, <2>2, <2>3, <2>4, <2>5, OfferOK
    <2>7. Returns(s) /\ HandedOver(b) /\ up' = TRUE
      BY <1>5, <1>9, <2>1, <2>3, <2>4
    <2>8. Ready(s, prods)
      BY <2>6, GoodIsBound
    <2>9. Left(s, Len(s.seen)) /\ disk' = s.disk
      BY <2>7, <2>8, ReturnsLeft
    <2>10. Known(s) = Known(r) /\ Expired(s) = Expired(r)
      BY <2>6 DEF Known, Expired
    <2>11. offered' \subseteq Known(s)
      <3>1. offered \subseteq Known(s)
        BY DEF Known, KnownAt
      <3> QED
        BY <2>6, <2>7, <2>10, <3>1 DEF HandedOver
    <2>12. b.ctx \notin witnessed'
      <3>1. witnessed \cup RevokedBy(r.disk.state) \subseteq RevokedBy(r.co)
            /\ r.disk.state # None
        BY <2>5 DEF Good, Bound
      <3>2. \A c : RevokedOnDisk(r.disk, c) => c \in RevokedBy(r.disk.state)
        BY DEF RevokedOnDisk, RevokedBy
      <3>3. witnessed' = witnessed \cup {c \in Contexts : RevokedOnDisk(r.disk, c)}
        BY <2>6, <2>7 DEF Returns
      <3> QED
        BY <2>6, <3>1, <3>2, <3>3
    <2>13. b \in barred' => b \in outlived'
      BY <2>6, <2>9, <2>10 DEF Left, Expired, ExpiredAtStep
    <2>14. outlived \subseteq outlived'
      BY <2>9 DEF Left, GoneAt
    <2>15. late'.revoked = {} /\ late'.expired \subseteq outlived'
      <3>1. late.revoked = {} /\ late.expired \subseteq outlived
        BY DEF ClientInv
      <3>2. /\ late'.revoked = late.revoked \cup {z \in {b} : z.ctx \in witnessed'}
            /\ late'.expired = late.expired \cup ({b} \cap barred')
        BY <2>7 DEF HandedOver
      <3> QED
        BY <2>12, <2>13, <2>14, <3>1, <3>2
    <2>16. Drawn(s.disk, s.co)
      BY <1>5, <2>6, <2>8, DrawnSame
    <2>17. s.co.is_open
      BY <2>5, <2>6
    <2> QED
      BY <1>5, <2>6, <2>7, <2>11, <2>15, <2>16, <2>17, ReturnsOK
  <1> QED
    BY <1>4, <1>8, <1>9

LEMMA CrashStep ==
  ASSUME ClientInv, Crash
  PROVE  ClientInv'
  <1>1. /\ disk' = disk /\ now' = now /\ prods' = prods /\ bodies' = bodies
        /\ offered' = offered /\ witnessed' = witnessed /\ barred' = barred
        /\ outlived' = outlived /\ late' = late
    BY DEF Crash
  <1>2. box' = ClosedBox /\ co' = Unbound /\ up' \in BOOLEAN
    BY DEF Crash
  <1>3. box' \in Boxes /\ co' \in Coordinators /\ ~co'.is_open
    BY <1>2, ClosedBoxOK, UnboundOK DEF Shut
  <1>4. ClientTypes'
    BY <1>1, <1>2, <1>3 DEF ClientInv, ClientTypes
  <1>5. Knows' = Knows /\ Shown' = Shown
    BY <1>1 DEF Knows, Shown
  <1>6. FilesOK(disk, prods, Knows)' /\ ExpiryOK(disk, Shown)'
    BY <1>1, <1>5 DEF ClientInv, FilesOK, KnownOK
  <1> QED
    BY <1>1, <1>2, <1>3, <1>4, <1>6 DEF ClientInv

\* The invariant says nothing of the clock but that it is not 0.
LEMMA ClockStep ==
  ASSUME ClientInv, now' \in Nat \ {0},
         UNCHANGED <<up, box, co, disk, prods, bodies, offered, witnessed, barred, outlived, late>>
  PROVE  ClientInv'
  <1>1. /\ disk' = disk /\ prods' = prods /\ bodies' = bodies /\ up' = up /\ box' = box /\ co' = co
        /\ offered' = offered /\ witnessed' = witnessed /\ barred' = barred
        /\ outlived' = outlived /\ late' = late
    OBVIOUS
  <1>2. ClientTypes'
    BY <1>1 DEF ClientInv, ClientTypes
  <1>3. Knows' = Knows /\ Shown' = Shown
    BY <1>1 DEF Knows, Shown
  <1>4. FilesOK(disk, prods, Knows)' /\ ExpiryOK(disk, Shown)'
    BY <1>1, <1>3 DEF ClientInv, FilesOK, KnownOK
  <1>5. co.is_open => BoundTo(co, box, disk, prods, Knows, Shown)'
    BY <1>1, <1>3 DEF ClientInv, BoundTo
  <1> QED
    BY <1>1, <1>2, <1>4, <1>5 DEF ClientInv

LEMMA ClientInit == Init => ClientInv
  <1> SUFFICES ASSUME Init PROVE ClientInv
    OBVIOUS
  <1>1. /\ disk.file = None /\ disk.state = None /\ disk \in Disks
    BY DEF Init, EmptyDisk, Disks
  <1>2. FileBatches(disk) = {} /\ BarredOnDisk(disk) = {}
    BY <1>1 DEF FileBatches, BarredOnDisk
  <1>3. Knows = {} /\ Shown = {}
    BY <1>2 DEF Knows, Shown, Init
  <1>4. FilesOK(disk, prods, Knows)
    BY <1>1, <1>2, <1>3 DEF Init, FilesOK, KnownOK, Unique
  <1>5. ExpiryOK(disk, Shown)
    BY <1>1, <1>3 DEF ExpiryOK, Remembers
  <1>6. box \in Boxes /\ co \in Coordinators /\ ~co.is_open
    BY ClosedBoxOK, UnboundOK DEF Init, Shut
  <1>7. ClientTypes
    <2>1. prods \in Nat /\ bodies \in Nat /\ now \in Nat \ {0}
      BY DEF Init
    <2>2. up \in BOOLEAN
      BY Zenon DEF Init
    <2> QED
      BY <1>1, <1>6, <2>1, <2>2 DEF ClientTypes
  <1> QED
    BY <1>4, <1>5, <1>6, <1>7 DEF Init, ClientInv

LEMMA ClientNext ==
  ASSUME ClientInv, [Next]_vars
  PROVE  ClientInv'
  <1>1. now \in Nat \ {0}
    BY DEF ClientInv, ClientTypes
  <1>2. CASE Next
    <2>1. CASE Start
      BY <2>1, StartStep
    <2>2. ASSUME NEW c \in Contexts, Enable(c) PROVE ClientInv'
      BY <2>2, EnableStep
    <2>3. CASE Samples
      BY <2>3, SamplesStep
    <2>4. CASE Ack
      BY <2>4, AckStep
    <2>5. CASE Stop
      BY <2>5, StopStep
    <2>6. CASE Disconnect
      BY <2>6, DisconnectStep
    <2>7. CASE Maintenance
      BY <2>7, MaintenanceStep
    <2>8. CASE Poll
      BY <2>8, PollStep
    <2>9. CASE Shutdown
      BY <2>9, ShutdownStep
    <2>10. CASE Crash
      BY <2>10, CrashStep
    <2>11. CASE Clock
      <3>1. now' \in Nat \ {0}
        BY <1>1, <2>11 DEF Clock
      <3>2. UNCHANGED <<up, box, co, disk, prods, bodies, offered, witnessed, barred, outlived,
                        late>>
        BY <2>11 DEF Clock
      <3> QED
        BY <3>1, <3>2, ClockStep
    <2> QED
      BY <1>2, <2>1, <2>2, <2>3, <2>4, <2>5, <2>6, <2>7, <2>8, <2>9, <2>10, <2>11 DEF Next
  <1>3. CASE UNCHANGED vars
    BY <1>1, <1>3, ClockStep DEF vars
  <1> QED
    BY <1>2, <1>3

\* The files and the memory of the service agree as ClientInv says, whatever
\* call returns, fails or dies, and wherever the clock is set.
THEOREM ClientInvHolds == Spec => []ClientInv
  <1>1. Init => ClientInv
    BY ClientInit
  <1>2. ClientInv /\ [Next]_vars => ClientInv'
    BY ClientNext
  <1> QED
    BY <1>1, <1>2, PTL DEF Spec

\* No batch is handed to the connection once the files say that its context
\* is revoked, or that it has expired (unless the files lost that knowledge).
THEOREM NothingSentLateHolds == Spec => []NothingSentLate
  <1>1. ClientInv => NothingSentLate
    BY DEF ClientInv, NothingSentLate, RevokedNeverSent, ExpiredNeverSent
  <1> QED
    BY <1>1, ClientInvHolds, PTL

\* A producer and a sequence number name one batch for ever, over restarts,
\* failed writes and a clock that is set back.
THEOREM IdentityNeverReusedHolds == Spec => []IdentityNeverReused
  <1>1. ClientInv => IdentityNeverReused
    <2>1. ClientInv => Unique(Knows)
      BY DEF ClientInv, FilesOK, KnownOK
    <2> QED
      BY <2>1 DEF Unique, Knows, IdentityNeverReused
  <1> QED
    BY <1>1, ClientInvHolds, PTL

\* The files left at any point, by a call or by a death in one, are files the
\* service opens again, but for the marker, the clock and the lost payload.
THEOREM OwnFilesOpenHolds == Spec => []OwnFilesOpen
  <1>1. ASSUME ClientInv PROVE OwnFilesOpen
    <2>1. disk \in Disks /\ FilesOK(disk, prods, Knows)
      BY <1>1 DEF ClientInv, ClientTypes
    <2>2. ASSUME ~disk.blocked, disk.state # None,
                 disk.state.pending # None => disk.file # None /\ disk.state.started <= now
          PROVE  ~RefusesFiles(disk, now)
      <3>1. Shaped(disk.state)
        BY <2>1, <2>2 DEF FilesOK, StateFits
      <3>2. Loadable(disk.state, now)
        BY <2>2, <3>1 DEF Shaped, Loadable
      <3> QED
        BY <2>2, <3>2 DEF RefusesFiles
    <2>3. ASSUME disk.state # None, disk.file # None, ~disk.revoked, ~disk.blocked,
                 disk.state.life # "revoked"
          PROVE  Consistent(disk.state, disk.file.records)
      <3>1. \A i \in DOMAIN disk.file.records : Fits(disk.state, disk.file.records[i].batch)
        BY <2>1, <2>3 DEF FilesOK, FileBatches, BatchesOf
      <3>2. Distinct(disk.file.records)
        BY <2>1, <2>3 DEF FilesOK
      <3>3. \A i, j \in DOMAIN disk.file.records :
                disk.file.records[i].batch.seq = disk.file.records[j].batch.seq => i = j
        BY <3>1, <3>2 DEF Fits, Distinct, SameIdentity
      <3> QED
        BY <3>1, <3>3 DEF Consistent, Fits
    <2> QED
      BY <2>2, <2>3 DEF OwnFilesOpen
  <1> QED
    BY <1>1, ClientInvHolds, PTL
====
