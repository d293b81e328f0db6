--------------------------- MODULE AnswerJournal ---------------------------
(***************************************************************************)
(* The authoritative answer journal of the classroom server                *)
(* (common/src/answer_journal.cpp, class AnswerJournal): an append-only    *)
(* file of answer events, an index of it held in memory by the process     *)
(* that owns the file, and a lease that keeps every other process out.     *)
(*                                                                         *)
(* open() is modelled as the loop it is: the file is read once, then one   *)
(* record is replayed per step, then the incomplete tail is cut off.  A    *)
(* process may die between any two steps and in the middle of an append.   *)
(***************************************************************************)
EXTENDS JournalIndex

CONSTANTS
    Procs,            \* processes that may open the journal
    Events,           \* the events clients present to the server
    MaxRecords,       \* kMaximumJournalBytes, counted in records
    NoProc,           \* the lease is free
    Torn              \* an incomplete record: a proper prefix of its bytes

VARIABLES
    file,      \* the file: complete records, possibly an incomplete one
    lease,     \* the process holding "<path>.lock"
    phase,     \* per process: closed, recovering (inside open()), open
    cursor,    \* per process: records replayed by open() so far
    sessions,  \* per process: the in-memory index, by session key
    acked      \* events answered "accepted" or "duplicate" (history)

vars == <<file, lease, phase, cursor, sessions, acked>>

ASSUME ConstantsAssumption ==
    /\ Events \subseteq Event
    /\ Torn \notin Event
    /\ NoProc \notin Procs
    /\ MaxSessions \in Nat /\ MaxStateEntries \in Nat /\ MaxRecords \in Nat

----------------------------------------------------------------------------
(***************************************************************************)
(* open(): take the lease, replay the file, cut off the incomplete tail.   *)
(***************************************************************************)
IsRecord(x) == x # Torn

\* A bug the checks must catch: the lease is not consulted.
AcquirableIgnoringOthers(p) == TRUE

\* lease.release() of the own lease, then acquire().
Acquirable(p) == lease \in {p, NoProc}

Released(p) == IF lease = p THEN NoProc ELSE lease

BeginOpen(p) ==
    /\ phase[p] # "recovering"
    /\ Acquirable(p)
    /\ lease' = p
    /\ phase' = [phase EXCEPT ![p] = "recovering"]
    /\ cursor' = [cursor EXCEPT ![p] = 0]
    /\ sessions' = [sessions EXCEPT ![p] = <<>>]
    /\ UNCHANGED <<file, acked>>

\* The directory, the lock or the read fails: nothing is open any more.
OpenFails(p) ==
    /\ phase[p] # "recovering"
    /\ phase' = [phase EXCEPT ![p] = "closed"]
    /\ cursor' = [cursor EXCEPT ![p] = 0]
    /\ sessions' = [sessions EXCEPT ![p] = <<>>]
    /\ lease' = Released(p)
    /\ UNCHANGED <<file, acked>>

\* The next item read is a complete record, or the loop has ended.
MoreRecords(p) ==
    /\ cursor[p] < Len(file)
    /\ ~(file[cursor[p] + 1] = Torn /\ cursor[p] + 1 = Len(file))

\* The checks one iteration of the replay loop makes.
Recoverable(index, x) ==
    /\ IsRecord(x)
    /\ validate_answer_event(x)
    /\ SessionQuotaLeft(index, x)
    /\ AnswerQuotaLeft(SessionFor(index, x), x)
    /\ Follows(SessionFor(index, x), x)

\* One iteration: the record is indexed, or open() gives up with the file.
Recover(p) ==
    /\ phase[p] = "recovering"
    /\ MoreRecords(p)
    /\ LET x == file[cursor[p] + 1] IN
       IF Recoverable(sessions[p], x)
       THEN /\ sessions' = [sessions EXCEPT ![p] = Indexed(sessions[p], x)]
            /\ cursor' = [cursor EXCEPT ![p] = cursor[p] + 1]
            /\ UNCHANGED <<phase, lease>>
       ELSE /\ phase' = [phase EXCEPT ![p] = "closed"]
            /\ lease' = NoProc
            /\ UNCHANGED <<sessions, cursor>>
    /\ UNCHANGED <<file, acked>>

\* A bug the checks must catch: the offset before the last record is kept.
LengthBeforeLastRecord(p) == IF cursor[p] = 0 THEN 0 ELSE cursor[p] - 1

\* What resize_file() leaves of the file.
ValidLength(p) == cursor[p]

FinishOpen(p) ==
    /\ phase[p] = "recovering"
    /\ ~MoreRecords(p)
    /\ file' = SubSeq(file, 1, ValidLength(p))
    /\ phase' = [phase EXCEPT ![p] = "open"]
    /\ UNCHANGED <<lease, cursor, sessions, acked>>

\* The incomplete tail cannot be cut off: open() fails and gives the lease up.
TruncateFails(p) ==
    /\ phase[p] = "recovering"
    /\ ~MoreRecords(p)
    /\ cursor[p] < Len(file)
    /\ phase' = [phase EXCEPT ![p] = "closed"]
    /\ lease' = NoProc
    /\ UNCHANGED <<file, cursor, sessions, acked>>

Close(p) ==
    /\ phase[p] # "recovering"
    /\ phase' = [phase EXCEPT ![p] = "closed"]
    /\ lease' = Released(p)
    /\ UNCHANGED <<file, cursor, sessions, acked>>

----------------------------------------------------------------------------
(***************************************************************************)
(* append(): answered from the index, or written, flushed and indexed.     *)
(***************************************************************************)
\* The event is answered from the index; a rejected first event leaves none.
AppendRefused(p, e) ==
    /\ phase[p] = "open"
    /\ Verdict(sessions[p], e) \notin {"write", "duplicate"}
    /\ UNCHANGED vars

AppendDuplicate(p, e) ==
    /\ phase[p] = "open"
    /\ Verdict(sessions[p], e) = "duplicate"
    /\ acked' = acked \cup {e}
    /\ UNCHANGED <<file, lease, phase, cursor, sessions>>

\* A bug the checks must catch: the event is acknowledged although append_file
\* left the record in a buffer that is lost.
FileUnchanged(e) == file

FileAfterAppend(e) == Append(file, e)

\* append_file() returns after FlushFileBuffers: the record is durable before
\* it is indexed and acknowledged.
AppendAccepted(p, e) ==
    /\ phase[p] = "open"
    /\ Verdict(sessions[p], e) = "write"
    /\ Len(file) < MaxRecords
    /\ file' = FileAfterAppend(e)
    /\ sessions' = [sessions EXCEPT ![p] = Indexed(sessions[p], e)]
    /\ cursor' = [cursor EXCEPT ![p] = cursor[p] + 1]
    /\ acked' = acked \cup {e}
    /\ UNCHANGED <<lease, phase>>

\* What a failed or interrupted append_file() leaves of the record: nothing
\* (also after a rollback), a prefix of it, or all of it when the flush or the
\* rollback failed after the last byte was written.
Residue(e) ==
    {file} \cup (IF Len(file) < MaxRecords
                 THEN {Append(file, Torn), Append(file, e)} ELSE {})

\* A bug the checks must catch: appends go on after a storage failure.
PhaseStaysOpen == "open"

\* "Do not append again after a storage failure": impl_->open = false.
PhaseAfterStorageFailure == "closed"

AppendStorageFails(p, e) ==
    /\ phase[p] = "open"
    /\ Verdict(sessions[p], e) = "write"
    /\ file' \in Residue(e)
    /\ phase' = [phase EXCEPT ![p] = PhaseAfterStorageFailure]
    /\ UNCHANGED <<lease, cursor, sessions, acked>>

\* The process ends: the operating system closes its handles.
Crash(p) ==
    /\ phase' = [phase EXCEPT ![p] = "closed"]
    /\ cursor' = [cursor EXCEPT ![p] = 0]
    /\ sessions' = [sessions EXCEPT ![p] = <<>>]
    /\ lease' = Released(p)
    /\ UNCHANGED <<file, acked>>

\* The process ends inside append_file().
CrashInAppend(p, e) ==
    /\ phase[p] = "open"
    /\ Verdict(sessions[p], e) = "write"
    /\ file' \in Residue(e)
    /\ phase' = [phase EXCEPT ![p] = "closed"]
    /\ cursor' = [cursor EXCEPT ![p] = 0]
    /\ sessions' = [sessions EXCEPT ![p] = <<>>]
    /\ lease' = Released(p)
    /\ UNCHANGED acked

----------------------------------------------------------------------------
Init ==
    /\ file = <<>>
    /\ lease = NoProc
    /\ phase = [p \in Procs |-> "closed"]
    /\ cursor = [p \in Procs |-> 0]
    /\ sessions = [p \in Procs |-> <<>>]
    /\ acked = {}

Next ==
    \E p \in Procs :
        \/ BeginOpen(p) \/ OpenFails(p) \/ Recover(p) \/ FinishOpen(p)
        \/ TruncateFails(p) \/ Close(p) \/ Crash(p)
        \/ \E e \in Events :
              \/ AppendRefused(p, e) \/ AppendDuplicate(p, e)
              \/ AppendAccepted(p, e) \/ AppendStorageFails(p, e)
              \/ CrashInAppend(p, e)

Spec == Init /\ [][Next]_vars

----------------------------------------------------------------------------
\* Type invariant: the file holds records or an incomplete one, and each
\* process indexes sessions of the shape Impl::SessionData gives them.
TypeOK ==
    /\ file \in Seq(Event \cup {Torn})
    /\ lease \in Procs \cup {NoProc}
    /\ phase \in [Procs -> {"closed", "recovering", "open"}]
    /\ cursor \in [Procs -> Nat]
    /\ DOMAIN sessions = Procs
    /\ \A p \in Procs :
          /\ DOMAIN sessions[p] \subseteq Keys
          /\ \A k \in DOMAIN sessions[p] : IsSessionData(sessions[p][k])
    /\ acked \subseteq Event

\* The complete records of the file.
Records == {file[i] : i \in {j \in 1..Len(file) : IsRecord(file[j])}}

\* An answer the server acknowledged is in the journal file, whatever crashes,
\* failed writes, failed rollbacks and reopenings happened since: append()
\* answers only after append_file() has flushed the record.
AckedDurable == acked \subseteq Records

\* open() never turns away a file this code has written: whichever write
\* failed or was interrupted, every record the replay loop meets passes the
\* header, quota, candidate and chain checks, so no failure of one append can
\* make the earlier answers unreadable.
ReopenNeverFails ==
    \A p \in Procs :
        phase[p] = "recovering" /\ MoreRecords(p) =>
            Recoverable(sessions[p], file[cursor[p] + 1])

\* While a process has the journal open, its index knows exactly the records
\* of the file: each record of the file has its hash in the index and each
\* hash in the index is the hash of a record, with no other process writing.
IndexMatchesFile ==
    \A p \in Procs : phase[p] = "open" =>
        /\ cursor[p] = Len(file)
        /\ \A i \in 1..Len(file) :
              /\ IsRecord(file[i])
              /\ file[i].key \in DOMAIN sessions[p]
              /\ file[i].sequence \in DOMAIN sessions[p][file[i].key].event_hashes
              /\ sessions[p][file[i].key].event_hashes[file[i].sequence]
                    = hash_answer_event(file[i])
        /\ \A k \in DOMAIN sessions[p] :
              \A n \in DOMAIN sessions[p][k].event_hashes :
                 \E i \in 1..Len(file) :
                    file[i].key = k /\ file[i].sequence = n

\* The server never acknowledges two different events for one place in one
\* session, nor any event after an acknowledged finalize, even when the two
\* answers are given by different server processes.
AcksNeverDisagree ==
    \A a, b \in acked :
        a.key = b.key =>
            /\ a.sequence = b.sequence => a = b
            /\ a.kind = "finalize" => b.sequence <= a.sequence

\* Complete records are never rewritten, moved or removed: recovery removes
\* an incomplete tail and nothing else.
JournalOnlyGrows ==
    [][\A i \in 1..Len(file) :
          IsRecord(file[i]) => i <= Len(file') /\ file'[i] = file[i]]_vars

=============================================================================
