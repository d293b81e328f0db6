---------------------------- MODULE FileTransfer ----------------------------
(***************************************************************************)
(* Sending a file to a student machine: distribute_file() of the server    *)
(* (server/src/control_plane.cpp), the receiver of the client service      *)
(* (client/service/main.cpp) and their messages                            *)
(* (common/src/file_distribution.cpp).                                     *)
(*                                                                         *)
(* The server streams blindly: it looks up the connection anew for every   *)
(* command and reads no status.  The receiver writes a part file next to   *)
(* the target and renames it when size and digest agree.  A file is its    *)
(* name, its size in units, the number of zero units it ends with and the  *)
(* session that carried it.  The digest is taken of a zero-filled buffer   *)
(* of the declared size, so it cannot tell a missing zero from one that is *)
(* there.  Commands are bounded by the dispatcher's queue, so a transfer   *)
(* can break off anywhere.                                                 *)
(***************************************************************************)
EXTENDS Naturals, Sequences, FiniteSets

CONSTANTS
    SafeNames,          \* names is_safe_filename() lets through
    UnsafeNames,        \* names sanitize_filename() has to replace
    DefaultName,        \* "received_file.bin"
    MaxFileSize,        \* kMaxFileSize
    MaxChunkSize,       \* kMaxChunkSize
    ChunkHeader,        \* bytes in front of the data of a chunk (20)
    MaxCommandPayload,  \* protocol::kMaxCommandPayload
    MaxSendQueue,       \* commands the dispatcher holds for a connection
    MaxTransfers,       \* bound: transfers an operator starts
    MaxFileFaults       \* bound: failures

ASSUME FileAssumption ==
    /\ DefaultName \in SafeNames
    /\ MaxFileSize \in Nat /\ MaxChunkSize \in Nat \ {0} /\ ChunkHeader \in Nat
    /\ MaxCommandPayload \in Nat /\ MaxSendQueue \in Nat
    /\ MaxTransfers \in Nat /\ MaxFileFaults \in Nat

VARIABLES
    sending,       \* the running distribute_file(): stage, session, file, offset
    file_session,  \* s_file_session_counter
    file_wire,     \* commands queued or under way
    file_link,     \* the client has an authenticated connection
    receiving,     \* g_file_receive_session
    parts,         \* part files on disk: name -> what they hold
    published,     \* files of the students' folder: name -> what they hold
    file_exam,     \* "none", "started" (server) or "armed" (client too)
    file_faults

fileVars == <<sending, file_session, file_wire, file_link, receiving, parts,
              published, file_exam, file_faults>>

Nothing == [session |-> 0, units |-> 0, size |-> 0, zeros |-> 0]

NotSending == [stage |-> "idle", session |-> 0, name |-> DefaultName, size |-> 0,
               zeros |-> 0, offset |-> 0]

NotReceiving == [active |-> FALSE, session |-> 0, name |-> DefaultName, total |-> 0,
                 received |-> 0, finishing |-> FALSE]

FileInit ==
    /\ sending = NotSending
    /\ file_session = 1
    /\ file_wire = <<>>
    /\ file_link = TRUE
    /\ receiving = NotReceiving
    /\ parts = [n \in SafeNames |-> Nothing]
    /\ published = [n \in SafeNames |-> Nothing]
    /\ file_exam = "none"
    /\ file_faults = 0

FileFault == file_faults < MaxFileFaults /\ file_faults' = file_faults + 1

-----------------------------------------------------------------------------
(* Names and messages.                                                     *)

is_safe_filename(name) == name \in SafeNames

sanitize_filename(name) == IF is_safe_filename(name) THEN name ELSE DefaultName

compute_staging_path(name) == name \in SafeNames

\* The zeros stand for the digest, which is computed over all of the file.
encode_file_dist_start(session, name, size, zeros) ==
    [type |-> "start", session |-> session, name |-> name, size |-> size,
     zeros |-> zeros]

decode_file_dist_start(m) == is_safe_filename(m.name) /\ m.size <= MaxFileSize

encode_file_dist_chunk(session, offset, units) ==
    [type |-> "chunk", session |-> session, offset |-> offset, units |-> units]

decode_file_dist_chunk(m) == m.units \in 1 .. MaxChunkSize

encode_file_dist_finish(session) == [type |-> "finish", session |-> session]

\* The length on the wire of what a chunk carries.
PayloadLength(m) == IF m.type = "chunk" THEN ChunkHeader + m.units ELSE 0

-----------------------------------------------------------------------------
(* The server.                                                             *)

\* send_command() refuses what is too long, what finds no connection and
\* what does not fit the queue.
CanSendFile(m) ==
    /\ file_link
    /\ PayloadLength(m) <= MaxCommandPayload
    /\ Len(file_wire) < MaxSendQueue

\* Send m and go on as `after`, or give up: no cancel is sent.
SendFileCommand(m, after) ==
    IF CanSendFile(m)
    THEN file_wire' = Append(file_wire, m) /\ sending' = after
    ELSE sending' = NotSending /\ UNCHANGED file_wire

distribute_file(name, size, zeros) ==
    /\ sending.stage = "idle" /\ file_exam = "none" /\ file_link
    /\ size <= MaxFileSize
    /\ file_session <= MaxTransfers
    /\ sending' = [stage |-> "start", session |-> file_session,
                   name |-> sanitize_filename(name), size |-> size,
                   zeros |-> zeros, offset |-> 0]
    /\ file_session' = file_session + 1
    /\ UNCHANGED <<file_wire, file_link, receiving, parts, published, file_exam,
                   file_faults>>

distribute_file_start ==
    /\ sending.stage = "start"
    /\ SendFileCommand(encode_file_dist_start(sending.session, sending.name, sending.size,
                                              sending.zeros),
            [sending EXCEPT !.stage = "data"])
    /\ UNCHANGED <<file_session, file_link, receiving, parts, published, file_exam,
                   file_faults>>

distribute_file_chunk ==
    /\ sending.stage = "data" /\ sending.offset < sending.size
    /\ LET rest == sending.size - sending.offset
           units == IF rest < MaxChunkSize THEN rest ELSE MaxChunkSize
       IN SendFileCommand(encode_file_dist_chunk(sending.session, sending.offset, units),
               [sending EXCEPT !.offset = @ + units])
    /\ UNCHANGED <<file_session, file_link, receiving, parts, published, file_exam,
                   file_faults>>

distribute_file_finish ==
    /\ sending.stage = "data" /\ sending.offset = sending.size
    /\ SendFileCommand(encode_file_dist_finish(sending.session), NotSending)
    /\ UNCHANGED <<file_session, file_link, receiving, parts, published, file_exam,
                   file_faults>>

-----------------------------------------------------------------------------
(* The receiver: the control thread of the service.                        *)

FileCommand(type) ==
    /\ file_wire # <<>> /\ Head(file_wire).type = type
    /\ ~receiving.finishing
    /\ file_wire' = Tail(file_wire)
    /\ UNCHANGED <<sending, file_session, file_link, file_exam>>

\* Close the part file, remove it, forget the session.
discard_part(r, p) ==
    IF r.active THEN [p EXCEPT ![r.name] = Nothing] ELSE p

\* A start replaces a transfer that was under way.
receive_start ==
    /\ FileCommand("start")
    /\ LET m == Head(file_wire)
           discarded == discard_part(receiving, parts)
       IN IF \/ ~decode_file_dist_start(m) \/ file_exam = "armed"
             \/ ~compute_staging_path(m.name)
          THEN UNCHANGED <<receiving, parts, file_faults>>
          ELSE \/ /\ receiving' = [active |-> TRUE, session |-> m.session,
                                   name |-> m.name, total |-> m.size,
                                   received |-> 0, finishing |-> FALSE]
                  /\ parts' = [discarded EXCEPT ![m.name] =
                                 [session |-> m.session, units |-> 0, size |-> m.size,
                                  zeros |-> m.zeros]]
                  /\ UNCHANGED file_faults
               \/ /\ FileFault                        \* the part file cannot be opened
                  /\ receiving' = NotReceiving
                  /\ parts' = [discarded EXCEPT ![m.name] = Nothing]
    /\ UNCHANGED published

Discard ==
    /\ receiving' = NotReceiving
    /\ parts' = discard_part(receiving, parts)

IsForSession(m) == receiving.active /\ receiving.session = m.session

receive_chunk ==
    /\ FileCommand("chunk")
    /\ LET m == Head(file_wire)
           fits == /\ m.offset = receiving.received
                   /\ receiving.received + m.units <= receiving.total
       IN \/ /\ ~(decode_file_dist_chunk(m) /\ IsForSession(m))
             /\ UNCHANGED <<receiving, parts, file_faults>>
          \/ /\ decode_file_dist_chunk(m) /\ IsForSession(m)
             /\ file_exam = "armed" \/ ~fits
             /\ Discard
             /\ UNCHANGED file_faults
          \/ /\ decode_file_dist_chunk(m) /\ IsForSession(m)
             /\ file_exam # "armed" /\ fits
             /\ \/ /\ receiving' = [receiving EXCEPT !.received = @ + m.units]
                   /\ parts' = [parts EXCEPT ![receiving.name].units = @ + m.units]
                   /\ UNCHANGED file_faults
                \/ Discard /\ FileFault
    /\ UNCHANGED published

\* A bug the checks must catch: the digest of the part file is not computed.
part_verified_by_size(p) == receiving.received = receiving.total

\* The counted size agrees and so does the digest.  What is on disk is read into
\* a zero-filled buffer of the declared size, and a read that ends early passes:
\* the units that are missing count as zeros.
part_verified(p) ==
    receiving.received = receiving.total /\ p.units + p.zeros >= p.size

\* flush() and close() are not checked: the end of what was counted may not be
\* on disk.  The old target is removed before the part file takes its name.
receive_finish ==
    /\ FileCommand("finish")
    /\ \/ /\ ~IsForSession(Head(file_wire))
          /\ UNCHANGED <<receiving, parts, published, file_faults>>
       \/ /\ IsForSession(Head(file_wire))
          /\ file_exam = "armed"
          /\ Discard
          /\ UNCHANGED <<published, file_faults>>
       \/ /\ IsForSession(Head(file_wire))
          /\ file_exam # "armed"
          /\ \E flushed \in 0 .. parts[receiving.name].units :
                LET p == [parts[receiving.name] EXCEPT !.units = flushed]
                IN /\ IF flushed = parts[receiving.name].units
                      THEN UNCHANGED file_faults
                      ELSE FileFault
                   /\ IF part_verified(p)
                      THEN /\ parts' = [parts EXCEPT ![receiving.name] = p]
                           /\ published' = [published EXCEPT ![receiving.name] = Nothing]
                           /\ receiving' = [receiving EXCEPT !.finishing = TRUE]
                      ELSE Discard /\ UNCHANGED published

\* The rename: an exam that was armed since the check does not stop it.
receive_commit ==
    /\ receiving.finishing
    /\ \/ /\ published' = [published EXCEPT ![receiving.name] = parts[receiving.name]]
          /\ UNCHANGED file_faults
       \/ FileFault /\ UNCHANGED published
    /\ Discard
    /\ UNCHANGED <<sending, file_session, file_wire, file_link, file_exam>>

\* The session of the control thread ended: what was received is dropped.
file_session_ended ==
    /\ ~file_link /\ ~receiving.finishing
    /\ file_link' = TRUE
    /\ Discard
    /\ UNCHANGED <<sending, file_session, file_wire, published, file_exam, file_faults>>

-----------------------------------------------------------------------------
(* Surroundings: exams, connections, processes.                            *)

file_exam_step ==
    /\ file_exam' = CASE file_exam = "none"    -> "started"
                      [] file_exam = "started" -> "armed"
                      [] OTHER                 -> "none"
    /\ UNCHANGED <<sending, file_session, file_wire, file_link, receiving, parts,
                   published, file_faults>>

file_link_lost ==
    /\ file_link /\ FileFault
    /\ file_link' = FALSE
    /\ file_wire' = <<>>
    /\ UNCHANGED <<sending, file_session, receiving, parts, published, file_exam>>

\* Part files stay on disk.
file_service_crashed ==
    /\ FileFault
    /\ file_link' = FALSE /\ file_wire' = <<>>
    /\ receiving' = NotReceiving
    /\ UNCHANGED <<sending, file_session, parts, published, file_exam>>

\* Session numbers start over.
file_server_crashed ==
    /\ FileFault
    /\ file_link' = FALSE /\ file_wire' = <<>>
    /\ sending' = NotSending /\ file_session' = 1
    /\ UNCHANGED <<receiving, parts, published, file_exam>>

FileNext ==
    \/ \E n \in SafeNames \cup UnsafeNames, s \in 0 .. MaxFileSize + 1 :
          \E z \in 0 .. s : distribute_file(n, s, z)
    \/ distribute_file_start \/ distribute_file_chunk \/ distribute_file_finish
    \/ receive_start \/ receive_chunk \/ receive_finish \/ receive_commit
    \/ file_session_ended
    \/ file_exam_step \/ file_link_lost
    \/ file_service_crashed \/ file_server_crashed

FileSpec == FileInit /\ [][FileNext]_fileVars

-----------------------------------------------------------------------------
\* What a student finds in the folder is what the teacher sent, whatever broke
\* off, crashed, or was not written: never a unit more than the file has, and
\* nothing missing but zeros it ends with, which the digest takes as read when the
\* part file is short (docs/INDEV_STATUS.md:125 promises a full verification).
PublishedAsSent ==
    \A n \in SafeNames :
        LET f == published[n] IN f.size - f.zeros <= f.units /\ f.units <= f.size

=============================================================================
