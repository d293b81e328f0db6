---------------------------- MODULE AnswerOutbox ----------------------------
(***************************************************************************)
(* The client's write-ahead outbox for answers: the file, the copy the     *)
(* service holds in memory, and the server that acknowledges what it has   *)
(* put in its journal.  Every change is encoded, written to a temporary    *)
(* file, flushed and renamed over the outbox, and only then taken over in  *)
(* memory; the process may die on either side of the rename.               *)
(***************************************************************************)
EXTENDS OutboxImage

CONSTANTS
    Events,          \* events the agent hands to the service
    InitialStates    \* a file found on disk with the server's journal for it

IsImage(image) ==
    /\ image = [version |-> image.version, events |-> image.events,
                watermarks |-> image.watermarks]
    /\ image.version \in 1..CurrentVersion
    /\ image.events \subseteq Event /\ IsFiniteSet(image.events)
    /\ DOMAIN image.watermarks \subseteq Keys /\ IsFiniteSet(DOMAIN image.watermarks)
    /\ image.watermarks \in [DOMAIN image.watermarks -> Watermark]

\* The hashes a server has of session k: of growing parts of one chain.
IsChain(hashes, k) ==
    \A i \in 1..Len(hashes) :
        /\ hashes[i] = [m \in 1..i |-> hashes[m][m]]
        /\ hashes[i][i].key = k

\* The last event of a session that has none waiting is the server's.
GoneIsJournaled(image, hashes, k) ==
    EventsOf(image, k) = {} =>
        LET w == image.watermarks[k] IN
        w.highest <= Len(hashes) /\ hashes[w.highest] = w.last

\* What a client and its server may have: a file of any version that opens,
\* and a journal that holds what left the file.
Found(image, hashes) ==
    /\ IsImage(image) /\ Opens(image)
    /\ hashes \in [Keys -> Seq(Digest)]
    /\ \A k \in Keys : IsChain(hashes[k], k)
    /\ \A k \in DOMAIN image.watermarks : GoneIsJournaled(image, hashes[k], k)

ASSUME AnswerOutboxAssumption ==
    /\ Events \subseteq Event
    /\ MaxOutboxEvents \in Nat /\ MaxWatermarks \in Nat
    /\ \A s \in InitialStates : Found(s.image, s.journal)

VARIABLES
    disk,      \* the outbox file
    mem,       \* Impl::events and Impl::watermarks
    open,      \* Impl::open
    journal,   \* per session: hashes of the events the server has accepted
    promised   \* events enqueue() answered TRUE for (history)

vars == <<disk, mem, open, journal, promised>>

\* Answers the service sends the server one by one and the server appends.
\* Written for the outbox's use of it; AnswerJournal has the server's side.
ServerLast(k) ==
    IF journal[k] = <<>> THEN ZeroDigest ELSE journal[k][Len(journal[k])]

ServerAccepts(e) ==
    /\ open
    /\ e \in mem.events
    /\ e.sequence = Len(journal[e.key]) + 1
    /\ e.previous = ServerLast(e.key)
    /\ journal' = [journal EXCEPT ![e.key] = Append(@, hash_answer_event(e))]
    /\ UNCHANGED <<disk, mem, open, promised>>

\* An older format is completed and rewritten before it is exposed.
Open ==
    /\ ~open
    /\ Opens(disk)
    /\ open' = TRUE
    /\ mem' = Upgraded(disk)
    /\ disk' = Upgraded(disk)
    /\ UNCHANGED <<journal, promised>>

Close ==
    /\ open
    /\ open' = FALSE
    /\ UNCHANGED <<disk, mem, journal, promised>>

Enqueue(e) ==
    /\ open
    /\ LET r == enqueue(mem, e) IN
       /\ mem' = r.image
       /\ disk' = r.image
       /\ promised' = IF r.ok THEN promised \cup {e} ELSE promised
    /\ UNCHANGED <<open, journal>>

\* The service hands every acknowledgement of the server to the outbox, also
\* a late one and one it has seen before.
Acknowledge(k, n) ==
    /\ open
    /\ n \in 1..Len(journal[k])
    /\ LET r == acknowledge(mem, SessionId[k], n, journal[k][n]) IN
       /\ mem' = r.image
       /\ disk' = r.image
    /\ UNCHANGED <<open, journal, promised>>

\* What an interrupted write_all_file() leaves: the old file or the new one.
WriteOutcomes(before, after) == {before, after}

\* The process ends, possibly inside a write; enqueue() has answered nobody.
Crash ==
    /\ open
    /\ open' = FALSE
    /\ mem' = EmptyImage
    /\ \/ disk' = disk
       \/ \E e \in Events : disk' \in WriteOutcomes(disk, enqueue(mem, e).image)
       \/ \E k \in Keys : \E n \in 1..Len(journal[k]) :
             disk' \in WriteOutcomes(disk,
                         acknowledge(mem, SessionId[k], n, journal[k][n]).image)
    /\ UNCHANGED <<journal, promised>>

Init ==
    /\ \E s \in InitialStates : disk = s.image /\ journal = s.journal
    /\ mem = EmptyImage
    /\ open = FALSE
    /\ promised = {}

Next ==
    \/ Open \/ Close \/ Crash
    \/ \E e \in Events : Enqueue(e) \/ ServerAccepts(e)
    \/ \E k \in Keys : \E n \in 1..MaxOutboxEvents : Acknowledge(k, n)

Spec == Init /\ [][Next]_vars

----------------------------------------------------------------------------
\* Whatever sequence of enqueues, rebases, acknowledgements and crashes led to
\* it, the file on disk passes all the checks of open(): the service never
\* locks itself out of the answers it still has to deliver.
FileAlwaysOpens == Opens(disk)

\* The body of the event, without its predecessor, is in the server's journal
\* at the event's place.
Journaled(e) ==
    /\ e.sequence <= Len(journal[e.key])
    /\ LET d == journal[e.key][e.sequence] IN d[Len(d)] = Content(e)

\* An answer that enqueue() accepted is waiting on disk or is in the server's
\* journal, with the same content: acknowledgements, which retire every
\* earlier event of the session too, rebases and crashes lose none.
NoAnswerLost ==
    \A e \in promised :
        \/ \E x \in disk.events : same_event_body_except_predecessor(x, e)
        \/ Journaled(e)

=============================================================================
