------------------------------ MODULE AuditTrail ------------------------------
(***************************************************************************)
(* The activity audit: the spool of a client and the sink of the server    *)
(* (common/src/audit.cpp), the upload of the client service                *)
(* (client/service/main.cpp) and its handler in the control plane          *)
(* (server/src/control_plane.cpp).                                         *)
(*                                                                         *)
(* A record is its sequence number in the client's spool.  The client      *)
(* sends what is at the head of the spool every few seconds, acknowledged  *)
(* or not; the server writes record by record and acknowledges the last    *)
(* one it wrote.  Several uploads can be under way, and connections break. *)
(***************************************************************************)
EXTENDS Naturals, Sequences, SequencesExt

CONSTANTS
    SpoolCapacity,    \* records a client keeps (4096)
    ChunkRecords,     \* kMaximumEventsPerChunk, or as many as fit a chunk
    AuditBurst,       \* chunks a client may send at once (3)
    FileLines,        \* lines that fit a file of the sink
    SinkFiles,        \* kMaximumSinkFiles
    MaxRecords,       \* bound: events a client emits
    MaxUploads,       \* bound: uploads and acknowledgements under way
    MaxAuditFaults    \* bound: failures

ASSUME AuditAssumption ==
    /\ SpoolCapacity \in Nat \ {0} /\ ChunkRecords \in Nat \ {0}
    /\ AuditBurst \in Nat \ {0} /\ FileLines \in Nat \ {0}
    /\ SinkFiles \in Nat \ {0} /\ MaxRecords \in Nat /\ MaxUploads \in Nat
    /\ MaxAuditFaults \in Nat

VARIABLES
    spool,            \* g_audit_spool: sequence numbers, oldest first
    next_sequence,    \* next_sequence_ of the spool
    dropped,          \* history: records the full spool discarded
    audit_wire,       \* chunks on their way to the server
    ack_wire,         \* acknowledgements on their way back
    writing,          \* the chunk the server is writing, and how far it is
    audit_tokens,     \* UploadRateLimiter: the client's tokens
    sink,             \* Sink: is it open, lines of audit.log, rotated files
    stored,           \* history: records written and flushed
    unstored,         \* history: records acknowledged by a server without sink
    audit_faults

auditVars == <<spool, next_sequence, dropped, audit_wire, ack_wire, writing,
               audit_tokens, sink, stored, unstored, audit_faults>>

NotWriting == [on |-> FALSE, chunk |-> <<>>, last |-> 0]

AuditInit ==
    /\ spool = <<>> /\ next_sequence = 1 /\ dropped = {}
    /\ audit_wire = <<>> /\ ack_wire = <<>>
    /\ writing = NotWriting
    /\ audit_tokens = AuditBurst
    /\ sink \in [open : BOOLEAN, lines : {0}, rotated : {0}]
    /\ stored = {} /\ unstored = {}
    /\ audit_faults = 0

AuditFault == audit_faults < MaxAuditFaults /\ audit_faults' = audit_faults + 1

-----------------------------------------------------------------------------
(* The client.                                                             *)

\* Spool::emit(): the oldest records make room.
emit ==
    LET excess == IF Len(spool) >= SpoolCapacity
                  THEN Len(spool) - SpoolCapacity + 1 ELSE 0
    IN  /\ next_sequence <= MaxRecords
        /\ spool' = Append(SubSeq(spool, excess + 1, Len(spool)), next_sequence)
        /\ dropped' = dropped \cup ToSet(SubSeq(spool, 1, excess))
        /\ next_sequence' = next_sequence + 1
        /\ UNCHANGED <<audit_wire, ack_wire, writing, audit_tokens, sink, stored,
                       unstored, audit_faults>>

\* peek_chunk() and encode_audit_chunk(): the head of the spool, as far as it
\* fits.
peek_chunk == SubSeq(spool, 1, IF Len(spool) < ChunkRecords THEN Len(spool)
                               ELSE ChunkRecords)

\* next_outbound(): the upload whose time has come.
send_audit_upload ==
    /\ spool # <<>>
    /\ Len(audit_wire) + Len(ack_wire) < MaxUploads
    /\ audit_wire' = Append(audit_wire, peek_chunk)
    /\ UNCHANGED <<spool, next_sequence, dropped, ack_wire, writing, audit_tokens,
                   sink, stored, unstored, audit_faults>>

\* Spool::acknowledge(): records leave at the front, up to the first one that
\* is not acknowledged.
acknowledge(last) ==
    LET popped == CHOOSE n \in 0 .. Len(spool) :
                     /\ \A k \in 1 .. n : spool[k] <= last
                     /\ n < Len(spool) => spool[n + 1] > last
    IN  SubSeq(spool, popped + 1, Len(spool))

receive_audit_ack ==
    /\ ack_wire # <<>>
    /\ ack_wire' = Tail(ack_wire)
    /\ spool' = acknowledge(Head(ack_wire))
    /\ UNCHANGED <<next_sequence, dropped, audit_wire, writing, audit_tokens, sink,
                   stored, unstored, audit_faults>>

-----------------------------------------------------------------------------
(* The server.                                                             *)

encode_audit_ack(last) == ack_wire' = Append(ack_wire, last)

\* UploadRateLimiter::allow()
allow == audit_tokens >= 1

\* The handler of an upload.  A throttled chunk is acknowledged with 0; a
\* server without a sink acknowledges everything and keeps nothing.
process_audit_upload ==
    /\ audit_wire # <<>> /\ ~writing.on
    /\ audit_wire' = Tail(audit_wire)
    /\ IF allow
       THEN /\ audit_tokens' = audit_tokens - 1
            /\ IF sink.open
               THEN /\ writing' = [on |-> TRUE, chunk |-> Head(audit_wire), last |-> 0]
                    /\ UNCHANGED <<ack_wire, unstored>>
               ELSE /\ encode_audit_ack(Last(Head(audit_wire)))
                    /\ unstored' = unstored \cup ToSet(Head(audit_wire))
                    /\ UNCHANGED writing
       ELSE /\ encode_audit_ack(0)
            /\ UNCHANGED <<audit_tokens, writing, unstored>>
    /\ UNCHANGED <<spool, next_sequence, dropped, sink, stored, audit_faults>>

rotate_locked(s) ==
    [s EXCEPT !.lines = 0,
              !.rotated = IF @ < SinkFiles - 1 THEN @ + 1 ELSE @]

\* Sink::write() of one line, flushed: into a new file when the old is full.
sink_write == IF sink.lines >= FileLines THEN [rotate_locked(sink) EXCEPT !.lines = 1]
              ELSE [sink EXCEPT !.lines = @ + 1]

write_next ==
    /\ writing.on /\ writing.chunk # <<>>
    /\ sink' = sink_write
    /\ stored' = stored \cup {Head(writing.chunk)}
    /\ writing' = [writing EXCEPT !.chunk = Tail(@), !.last = Head(writing.chunk)]
    /\ UNCHANGED <<spool, next_sequence, dropped, audit_wire, ack_wire, audit_tokens,
                   unstored, audit_faults>>

\* A bug the checks must catch: the record that could not be written is
\* skipped and the ones behind it are acknowledged.
write_fails_skipping ==
    /\ writing.on /\ writing.chunk # <<>> /\ AuditFault
    /\ writing' = [writing EXCEPT !.chunk = Tail(@)]
    /\ UNCHANGED <<spool, next_sequence, dropped, audit_wire, ack_wire, audit_tokens,
                   sink, stored, unstored>>

\* A write, flush or rotation fails: the file goes back to its old length
\* (it may have been rotated already) and the rest of the chunk is given up.
write_fails ==
    /\ writing.on /\ writing.chunk # <<>> /\ AuditFault
    /\ sink' \in {sink, IF sink.lines >= FileLines THEN rotate_locked(sink) ELSE sink}
    /\ writing' = [writing EXCEPT !.chunk = <<>>]
    /\ UNCHANGED <<spool, next_sequence, dropped, audit_wire, ack_wire, audit_tokens,
                   stored, unstored>>

send_audit_ack ==
    /\ writing.on /\ writing.chunk = <<>>
    /\ encode_audit_ack(writing.last)
    /\ writing' = NotWriting
    /\ UNCHANGED <<spool, next_sequence, dropped, audit_wire, audit_tokens, sink,
                   stored, unstored, audit_faults>>

\* audit_emit(): the server's own events go to the same sink (as often as
\* the bound on failures allows).
audit_emit ==
    /\ sink.open /\ AuditFault
    /\ sink' = sink_write
    /\ UNCHANGED <<spool, next_sequence, dropped, audit_wire, ack_wire, writing,
                   audit_tokens, stored, unstored>>

\* Time passes: a token, up to the burst.
refill ==
    /\ audit_tokens < AuditBurst
    /\ audit_tokens' = audit_tokens + 1
    /\ UNCHANGED <<spool, next_sequence, dropped, audit_wire, ack_wire, writing, sink,
                   stored, unstored, audit_faults>>

-----------------------------------------------------------------------------
(* External: the connection breaks, or the server restarts.                *)

audit_link_lost ==
    /\ AuditFault
    /\ audit_wire' = <<>> /\ ack_wire' = <<>>
    /\ UNCHANGED <<spool, next_sequence, dropped, writing, audit_tokens, sink, stored,
                   unstored>>

server_restarts ==
    /\ AuditFault
    /\ audit_wire' = <<>> /\ ack_wire' = <<>> /\ writing' = NotWriting
    /\ audit_tokens' = AuditBurst
    /\ \E open \in BOOLEAN : sink' = [sink EXCEPT !.open = open]
    /\ UNCHANGED <<spool, next_sequence, dropped, stored, unstored>>

\* The client service restarts: the spool is memory, and its numbers start
\* again at 1.
client_restarts ==
    /\ AuditFault
    /\ spool' = <<>> /\ next_sequence' = 1 /\ dropped' = {}
    /\ audit_wire' = <<>> /\ ack_wire' = <<>> /\ writing' = NotWriting
    /\ stored' = {} /\ unstored' = {}
    /\ UNCHANGED <<audit_tokens, sink>>

AuditNext ==
    \/ emit
    \/ send_audit_upload
    \/ receive_audit_ack
    \/ process_audit_upload
    \/ write_next
    \/ write_fails
    \/ send_audit_ack
    \/ audit_emit
    \/ refill
    \/ audit_link_lost
    \/ server_restarts
    \/ client_restarts

AuditSpec == AuditInit /\ [][AuditNext]_auditVars

-----------------------------------------------------------------------------
\* While the client service runs, a record it emitted is still in its spool,
\* or was written and flushed by the server, or was discarded by the full
\* spool and counted, or was acknowledged by a server that has no sink: no
\* order of repeated uploads, failed writes and late acknowledgements lets an
\* acknowledgement take away a record that was not written (Spool::acknowledge(),
\* the audit_upload handler).
RecordAccountedFor ==
    \A s \in 1 .. next_sequence - 1 :
        s \in ToSet(spool) \cup stored \cup dropped \cup unstored

=============================================================================
