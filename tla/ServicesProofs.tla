--------------------------- MODULE ServicesProofs ---------------------------
(*****************************************************************************)
(* Proofs about the services beside the exam: the distribution of files, the *)
(* remote sessions, the staging of updates, the maintenance intents, the     *)
(* telemetry journal, the audit trail, the packet loss of a video receiver   *)
(* and the pictures it decodes; and about the student's station: the agent   *)
(* on the desktop, the discovery of the server and the configuration of the  *)
(* write filter; for every value of their constants.                         *)
(*                                                                           *)
(* Each part has an inductive invariant of its own.  What they have in common*)
(* is that the property speaks of what is on disk, running or let through,   *)
(* and the invariant adds what the program's memory knows of it: the part    *)
(* file of a transfer that is finishing is as it was sent but for zeros at   *)
(* its end, a digest that can still come out right covers every byte of the  *)
(* part file, an intent that ran and has not expired is in the replay cache, *)
(* a batch that was accepted is in the index of the journal or below the     *)
(* floor of its producer.  Where the code loses a cache or an index the      *)
(* invariant counts the losses.                                              *)
(*                                                                           *)
(* Three of them tie numbers to a history: the spool of the audit trail is a *)
(* run of numbers and everything in front of it is settled; the ring of the  *)
(* loss tracker says of every packet of the window whether it has arrived,   *)
(* and the counters are cardinalities of sets of packets in front of the     *)
(* window; an opening of the publisher uses a frame id for one capture, so   *)
(* that a frame is whole once it holds as many fragments as were sent, and   *)
(* mixed only by two openings under one stream and time.                     *)
(*                                                                           *)
(* The agent is shared by a UI thread and a pipe thread that both call       *)
(* BlockInput without a lock.  Its invariant therefore speaks of the calls   *)
(* that are still to come: as long as the two threads never had calls under  *)
(* way at the same time, the last call still to come, or Windows itself when *)
(* there is none, agrees with the agent's flags.                             *)
(*                                                                           *)
(* Discovery answers a request at most once because the responder remembers  *)
(* it for as long as its time is acceptable.  Its invariant ties what was    *)
(* answered to what is remembered, and is given up only where the code gives *)
(* it up: when the responder is restarted, when its memory is full and when  *)
(* the wall clock is set back.                                               *)
(*                                                                           *)
(* A call that configures the filter writes its settings one by one and      *)
(* undoes them when a write fails.  Its invariant says which settings are    *)
(* written and which are still to come, so that the last write of an ordered *)
(* call is made when every other one is, and undone before every other one.  *)
(* A write whose answer was lost is the one setting it leaves open.          *)
(*****************************************************************************)
EXTENDS FileTransfer, RemoteSession, UpdateStaging, MaintenanceIntents, TelemetryJournal,
        AuditTrail, PacketLoss, VideoStream, StudentAgent, Discovery, WriteFilterSetup,
        FiniteSetTheorems, FunctionTheorems, SequenceTheorems, WellFoundedInduction, TLAPS

-----------------------------------------------------------------------------
(* File distribution. *)
\* What a part file or a published file holds.
FileContent == [session : Nat, units : Nat, size : Nat, zeros : Nat]

\* The commands of a distribution on the wire.
FileMessages ==
    [type : {"start"}, session : Nat, name : SafeNames, size : Nat,
     zeros : Nat]
      \cup [type : {"chunk"}, session : Nat, offset : Nat, units : Nat]
      \cup [type : {"finish"}, session : Nat]

\* The sender never reads past the end of the file it distributes.
SenderOK ==
    /\ sending \in [stage : {"idle", "start", "data"}, session : Nat, name : SafeNames,
                    size : Nat, zeros : Nat, offset : Nat]
    /\ sending.offset <= sending.size
    /\ file_session \in Nat
    /\ file_wire \in Seq(FileMessages)

\* What the receiver keeps in memory and on its disk is well-formed.
ReceiverOK ==
    /\ receiving \in [active : BOOLEAN, session : Nat, name : SafeNames, total : Nat,
                      received : Nat, finishing : BOOLEAN]
    /\ parts \in [SafeNames -> FileContent]
    /\ published \in [SafeNames -> FileContent]

\* What a file on disk holds is what was sent, but for zeros at its end.
AsSent(f) == f.size - f.zeros <= f.units /\ f.units <= f.size

\* The part file of a transfer has the size the transfer declared and never more
\* than the receiver counted, and that never exceeds the size.
PartCounted ==
    receiving.active =>
       /\ parts[receiving.name].size = receiving.total
       /\ parts[receiving.name].units <= receiving.received
       /\ receiving.received <= receiving.total

\* Between the check of a part file and its rename nothing writes to it.
FinishingWhole == receiving.finishing => AsSent(parts[receiving.name])

\* The inductive invariant.
FileIInv == SenderOK /\ ReceiverOK /\ PartCounted /\ FinishingWhole /\ PublishedAsSent

\* At the start nothing is sent, received or published.
LEMMA FileInitInv == FileInit => FileIInv
  <1> SUFFICES ASSUME FileInit PROVE FileIInv
    OBVIOUS
  <1>1. NotSending \in [stage : {"idle", "start", "data"}, session : Nat, name : SafeNames,
                    size : Nat, zeros : Nat, offset : Nat]
    BY FileAssumption DEF NotSending
  <1>2. NotReceiving \in [active : BOOLEAN, session : Nat, name : SafeNames, total : Nat,
                      received : Nat, finishing : BOOLEAN]
    BY FileAssumption DEF NotReceiving
  <1>3. Nothing \in FileContent /\ AsSent(Nothing)
    BY DEF Nothing, FileContent, AsSent
  <1> QED
    BY <1>1, <1>2, <1>3 DEF FileInit, FileIInv, SenderOK, ReceiverOK, PartCounted, FinishingWhole,
       PublishedAsSent, AsSent, NotSending, NotReceiving

\* Whatever is sent, or not, the sender stays well-formed.
LEMMA SendFileStep ==
  ASSUME SenderOK, NEW m \in FileMessages, NEW after, SendFileCommand(m, after),
         file_session' = file_session,
         after \in [stage : {"idle", "start", "data"}, session : Nat, name : SafeNames,
                    size : Nat, zeros : Nat, offset : Nat],
         after.offset <= after.size
  PROVE  SenderOK'
  <1>1. NotSending \in [stage : {"idle", "start", "data"}, session : Nat, name : SafeNames,
                    size : Nat, zeros : Nat, offset : Nat] /\ NotSending.offset <= NotSending.size
    BY FileAssumption DEF NotSending
  <1>2. file_wire' \in Seq(FileMessages)
    <2>1. file_wire \in Seq(FileMessages)
      BY DEF SenderOK
    <2>2. file_wire' = Append(file_wire, m) \/ file_wire' = file_wire
      BY DEF SendFileCommand
    <2> HIDE DEF FileMessages
    <2> QED
      BY <2>1, <2>2
  <1> QED
    BY <1>1, <1>2 DEF SendFileCommand, SenderOK

\* Every step of distribute_file() and of the receiver leaves the sender
\* well-formed.
LEMMA FileSenderStep == ASSUME SenderOK, [FileNext]_fileVars PROVE SenderOK'
  <1>1. ASSUME NEW n \in SafeNames \cup UnsafeNames, NEW s \in 0 .. MaxFileSize + 1,
               NEW z \in 0 .. s, distribute_file(n, s, z)
        PROVE  SenderOK'
    <2>1. sanitize_filename(n) \in SafeNames /\ s \in Nat /\ z \in Nat
      BY FileAssumption DEF sanitize_filename, is_safe_filename
    <2>2. /\ sending' = [stage |-> "start", session |-> file_session,
                         name |-> sanitize_filename(n), size |-> s, zeros |-> z,
                         offset |-> 0]
          /\ file_session' = file_session + 1 /\ UNCHANGED file_wire
      BY <1>1 DEF distribute_file
    <2> QED
      BY <2>1, <2>2 DEF SenderOK
  <1>2. CASE distribute_file_start
    <2> DEFINE m == encode_file_dist_start(sending.session, sending.name, sending.size,
                                           sending.zeros)
    <2>1. m \in FileMessages
      BY DEF encode_file_dist_start, FileMessages, SenderOK
    <2> DEFINE after == [sending EXCEPT !.stage = "data"]
    <2>2. after \in [stage : {"idle", "start", "data"}, session : Nat, name : SafeNames,
                     size : Nat, zeros : Nat, offset : Nat] /\ after.offset <= after.size
      BY DEF SenderOK
    <2>3. SendFileCommand(m, after) /\ file_session' = file_session
      BY <1>2 DEF distribute_file_start
    <2> HIDE DEF m, after
    <2> QED
      BY <2>1, <2>2, <2>3, SendFileStep
  <1>3. CASE distribute_file_chunk
    <2> DEFINE rest == sending.size - sending.offset
               units == IF rest < MaxChunkSize THEN rest ELSE MaxChunkSize
               m == encode_file_dist_chunk(sending.session, sending.offset, units)
               after == [sending EXCEPT !.offset = @ + units]
    <2>1. units \in Nat /\ sending.offset + units <= sending.size
      BY FileAssumption, <1>3 DEF SenderOK, distribute_file_chunk
    <2>2. m \in FileMessages
      BY <2>1 DEF encode_file_dist_chunk, FileMessages, SenderOK
    <2>3. after \in [stage : {"idle", "start", "data"}, session : Nat, name : SafeNames,
                     size : Nat, zeros : Nat, offset : Nat] /\ after.offset <= after.size
      <3> HIDE DEF units
      <3> QED
        BY <2>1 DEF SenderOK
    <2>4. SendFileCommand(m, after) /\ file_session' = file_session
      BY <1>3 DEF distribute_file_chunk
    <2> HIDE DEF m, after, units
    <2> QED
      BY <2>2, <2>3, <2>4, SendFileStep
  <1>4. CASE distribute_file_finish
    <2>1. encode_file_dist_finish(sending.session) \in FileMessages
      BY DEF encode_file_dist_finish, FileMessages, SenderOK
    <2>2. NotSending \in [stage : {"idle", "start", "data"}, session : Nat, name : SafeNames,
                    size : Nat, zeros : Nat, offset : Nat] /\ NotSending.offset <= NotSending.size
      BY FileAssumption DEF NotSending
    <2> QED
      BY <1>4, <2>1, <2>2, SendFileStep DEF distribute_file_finish
  <1>5. CASE \E type \in {"start", "chunk", "finish"} : FileCommand(type)
    <2>1. /\ file_wire # <<>> /\ file_wire' = Tail(file_wire)
          /\ UNCHANGED <<sending, file_session>>
      BY <1>5 DEF FileCommand
    <2> QED
      BY <2>1 DEF SenderOK
  <1>6. CASE file_link_lost \/ file_service_crashed
    <2>1. file_wire' = <<>> /\ UNCHANGED <<sending, file_session>>
      BY <1>6 DEF file_link_lost, file_service_crashed
    <2> QED
      BY <2>1 DEF SenderOK
  <1>7. CASE file_server_crashed
    BY <1>7, FileAssumption DEF file_server_crashed, SenderOK, NotSending
  <1>8. CASE UNCHANGED <<sending, file_session, file_wire>>
    BY <1>8 DEF SenderOK
  <1> QED
    BY <1>1, <1>2, <1>3, <1>4, <1>5, <1>6, <1>7, <1>8
       DEF FileNext, fileVars, receive_start, receive_chunk, receive_finish,
           receive_commit, file_session_ended, file_exam_step

\* Dropping a transfer leaves whole files alone and nothing is finishing.
LEMMA DiscardStep ==
  ASSUME ReceiverOK, Discard
  PROVE  /\ receiving' \in [active : BOOLEAN, session : Nat, name : SafeNames, total : Nat,
                             received : Nat, finishing : BOOLEAN]
         /\ ~receiving'.finishing
         /\ parts' \in [SafeNames -> FileContent]
  <1>1. NotReceiving \in [active : BOOLEAN, session : Nat, name : SafeNames, total : Nat,
                      received : Nat, finishing : BOOLEAN] /\ ~NotReceiving.finishing
    BY FileAssumption DEF NotReceiving
  <1>2. Nothing \in FileContent
    BY DEF Nothing, FileContent
  <1> QED
    BY <1>1, <1>2 DEF Discard, discard_part, ReceiverOK

\* No chunk, finish, loss of the link or crash lets the part file and the
\* receiver's count drift apart, gets a file into the folder that was not checked,
\* or lets a part file change between its check and its rename.
LEMMA FileReceiverStep ==
  ASSUME SenderOK, ReceiverOK, PartCounted, FinishingWhole, PublishedAsSent,
         [FileNext]_fileVars
  PROVE  ReceiverOK' /\ PartCounted' /\ FinishingWhole' /\ PublishedAsSent'
  <1> DEFINE Goal == ReceiverOK' /\ PartCounted' /\ FinishingWhole' /\ PublishedAsSent'
  <1>d. ASSUME Discard, UNCHANGED published
        PROVE  Goal
    <2>1. ~receiving'.active
      BY <1>d DEF Discard, NotReceiving
    <2> QED
      BY <1>d, <2>1, DiscardStep
         DEF ReceiverOK, PartCounted, FinishingWhole, PublishedAsSent
  <1>u. ASSUME UNCHANGED <<receiving, parts, published>>
        PROVE  Goal
    BY <1>u DEF ReceiverOK, PartCounted, FinishingWhole, PublishedAsSent
  <1>n. Nothing \in FileContent /\ AsSent(Nothing)
    BY DEF Nothing, FileContent, AsSent
  <1>r. NotReceiving \in [active : BOOLEAN, session : Nat, name : SafeNames, total : Nat,
                      received : Nat, finishing : BOOLEAN]
        /\ ~NotReceiving.finishing /\ ~NotReceiving.active
    BY FileAssumption DEF NotReceiving
  <1>1. CASE receive_start
    <2> DEFINE m == Head(file_wire)
               discarded == discard_part(receiving, parts)
    <2>1. m \in FileMessages /\ m.type = "start"
      BY <1>1 DEF receive_start, FileCommand, SenderOK
    <2>2. m.name \in SafeNames /\ m.size \in Nat /\ m.session \in Nat /\ m.zeros \in Nat
      BY <2>1 DEF FileMessages
    <2>3. discarded \in [SafeNames -> FileContent]
      BY <1>n DEF discard_part, ReceiverOK
    <2>4. ~receiving.finishing /\ UNCHANGED published
      BY <1>1 DEF receive_start, FileCommand
    <2> HIDE DEF discarded
    <2>5. CASE UNCHANGED <<receiving, parts>>
      BY <2>4, <2>5, <1>u
    <2>6. CASE /\ receiving' = [active |-> TRUE, session |-> m.session,
                                name |-> m.name, total |-> m.size,
                                received |-> 0, finishing |-> FALSE]
               /\ parts' = [discarded EXCEPT ![m.name] =
                              [session |-> m.session, units |-> 0, size |-> m.size,
                               zeros |-> m.zeros]]
      <3> HIDE DEF m
      <3>1. receiving' \in [active : BOOLEAN, session : Nat, name : SafeNames, total : Nat,
                            received : Nat, finishing : BOOLEAN] /\ ~receiving'.finishing
        BY <2>6, <2>2
      <3>2. [session |-> m.session, units |-> 0, size |-> m.size, zeros |-> m.zeros]
               \in FileContent
        BY <2>2 DEF FileContent
      <3>3. parts' \in [SafeNames -> FileContent]
        BY <2>6, <2>3, <3>2
      <3>4. PartCounted'
        <4>1. receiving'.name = m.name /\ receiving'.total = m.size /\ receiving'.received = 0
          BY <2>6
        <4>2. parts'[m.name].size = m.size /\ parts'[m.name].units = 0
          BY <2>6, <2>3, <2>2
        <4> QED
          BY <4>1, <4>2, <2>2 DEF PartCounted
      <3> QED
        BY <3>1, <3>3, <3>4, <2>4 DEF ReceiverOK, FinishingWhole, PublishedAsSent
    <2>7. CASE /\ receiving' = NotReceiving
               /\ parts' = [discarded EXCEPT ![m.name] = Nothing]
      <3> HIDE DEF m
      <3> QED
        BY <2>7, <2>3, <1>n, <1>r, <2>4
           DEF ReceiverOK, PartCounted, FinishingWhole, PublishedAsSent
    <2> QED
      BY <1>1, <2>5, <2>6, <2>7 DEF receive_start, discarded
  <1>2. CASE receive_chunk
    <2> DEFINE m == Head(file_wire)
    <2>1. m \in FileMessages /\ m.type = "chunk"
      BY <1>2 DEF receive_chunk, FileCommand, SenderOK
    <2>2. m.units \in Nat
      BY <2>1 DEF FileMessages
    <2>4. ~receiving.finishing /\ UNCHANGED published
      BY <1>2 DEF receive_chunk, FileCommand
    <2>5. CASE UNCHANGED <<receiving, parts>>
      BY <2>4, <2>5, <1>u
    <2>6. CASE Discard
      BY <2>4, <2>6, <1>d
    <2>7. CASE /\ receiving.active
               /\ receiving.received + m.units <= receiving.total
               /\ receiving' = [receiving EXCEPT !.received = @ + m.units]
               /\ parts' = [parts EXCEPT ![receiving.name].units = @ + m.units]
      <3> HIDE DEF m
      <3>1. receiving' \in [active : BOOLEAN, session : Nat, name : SafeNames, total : Nat,
                            received : Nat, finishing : BOOLEAN] /\ ~receiving'.finishing
        BY <2>7, <2>2, <2>4 DEF ReceiverOK
      <3>2. parts' \in [SafeNames -> FileContent]
        BY <2>7, <2>2 DEF ReceiverOK, FileContent
      <3>3. PartCounted'
        <4>1. /\ receiving'.name = receiving.name /\ receiving'.total = receiving.total
              /\ receiving'.received = receiving.received + m.units
          BY <2>7 DEF ReceiverOK
        <4>2. /\ parts'[receiving.name].size = parts[receiving.name].size
              /\ parts'[receiving.name].units = parts[receiving.name].units + m.units
          BY <2>7 DEF ReceiverOK, FileContent
        <4>3. /\ receiving.received \in Nat /\ receiving.total \in Nat
              /\ parts[receiving.name].units \in Nat
          BY DEF ReceiverOK, FileContent
        <4> QED
          BY <4>1, <4>2, <4>3, <2>2, <2>7 DEF PartCounted
      <3> QED
        BY <3>1, <3>2, <3>3, <2>4 DEF ReceiverOK, FinishingWhole, PublishedAsSent
    <2> QED
      BY <1>2, <2>5, <2>6, <2>7 DEF receive_chunk, IsForSession
  <1>3. CASE receive_finish
    <2>5. CASE UNCHANGED <<receiving, parts, published>>
      BY <2>5, <1>u
    <2>6. CASE Discard /\ UNCHANGED published
      BY <2>6, <1>d
    <2>7. ASSUME NEW flushed \in 0 .. parts[receiving.name].units, NEW p,
                 p = [parts[receiving.name] EXCEPT !.units = flushed],
                 receiving.active, part_verified(p),
                 parts' = [parts EXCEPT ![receiving.name] = p],
                 published' = [published EXCEPT ![receiving.name] = Nothing],
                 receiving' = [receiving EXCEPT !.finishing = TRUE]
          PROVE  Goal
      <3>1. /\ parts[receiving.name] \in FileContent /\ receiving.name \in SafeNames
            /\ receiving.received \in Nat /\ receiving.total \in Nat
        BY DEF ReceiverOK
      <3>2. flushed \in Nat /\ flushed <= parts[receiving.name].units
        BY <3>1 DEF FileContent
      <3>3. /\ p \in FileContent /\ p.units = flushed
            /\ p.size = parts[receiving.name].size /\ p.zeros = parts[receiving.name].zeros
        BY <2>7, <3>1, <3>2 DEF FileContent
      <3>4. AsSent(p) /\ p.units <= receiving.received
        <4>1. /\ parts[receiving.name].units \in Nat /\ parts[receiving.name].zeros \in Nat
              /\ parts[receiving.name].size \in Nat
          BY <3>1 DEF FileContent
        <4>2. p.units + p.zeros >= p.size
          BY <2>7 DEF part_verified
        <4> QED
          BY <4>1, <4>2, <3>1, <3>2, <3>3, <2>7 DEF PartCounted, AsSent
      <3>5. /\ receiving'.name = receiving.name /\ receiving'.total = receiving.total
            /\ receiving'.received = receiving.received
        BY <2>7 DEF ReceiverOK
      <3>6. parts'[receiving.name] = p
        BY <2>7, <3>1 DEF ReceiverOK
      <3>7. ReceiverOK'
        <4>1. receiving' \in [active : BOOLEAN, session : Nat, name : SafeNames, total : Nat,
                              received : Nat, finishing : BOOLEAN]
          BY <2>7 DEF ReceiverOK
        <4> QED
          BY <4>1, <2>7, <3>3, <1>n DEF ReceiverOK
      <3>8. PartCounted' /\ FinishingWhole'
        BY <3>3, <3>4, <3>5, <3>6, <2>7 DEF PartCounted, FinishingWhole
      <3>9. PublishedAsSent'
        BY <2>7, <1>n DEF PublishedAsSent, ReceiverOK, AsSent
      <3> QED
        BY <3>7, <3>8, <3>9
    <2> QED
      BY <1>3, <2>5, <2>6, <2>7 DEF receive_finish, IsForSession
  <1>4. CASE receive_commit
    <2>1. receiving.finishing /\ receiving.name \in SafeNames /\ Discard
      BY <1>4 DEF receive_commit, ReceiverOK
    <2>2. published' \in [SafeNames -> FileContent] /\ PublishedAsSent'
      BY <1>4, <2>1 DEF receive_commit, ReceiverOK, FinishingWhole, PublishedAsSent, AsSent
    <2>3. ~receiving'.active
      BY <2>1 DEF Discard, NotReceiving
    <2> QED
      BY <2>1, <2>2, <2>3, DiscardStep DEF ReceiverOK, PartCounted, FinishingWhole
  <1>5. CASE file_session_ended
    BY <1>5, <1>d DEF file_session_ended
  <1>6. CASE file_service_crashed
    BY <1>6, <1>r DEF file_service_crashed, ReceiverOK, PartCounted, FinishingWhole,
       PublishedAsSent
  <1>7. CASE UNCHANGED <<receiving, parts, published>>
    BY <1>7, <1>u
  <1> QED
    BY <1>1, <1>2, <1>3, <1>4, <1>5, <1>6, <1>7
       DEF FileNext, fileVars, distribute_file, distribute_file_start,
           distribute_file_chunk, distribute_file_finish, file_exam_step,
           file_link_lost, file_server_crashed

\* What a student finds is what was sent, but for zeros at the end of the file, for
\* every set of names, chunk size and file size: receive_finish renames only what
\* its count and the digest agree on.
THEOREM FilesAsSent == FileSpec => []PublishedAsSent
  <1>1. FileIInv /\ [FileNext]_fileVars => FileIInv'
    BY FileSenderStep, FileReceiverStep DEF FileIInv
  <1>2. FileIInv => PublishedAsSent
    BY DEF FileIInv
  <1> QED
    BY FileInitInv, <1>1, <1>2, PTL DEF FileSpec

-----------------------------------------------------------------------------
(* Remote sessions. *)
\* What run() has started by the time it is where it is: a viewer only from its
\* launch on, a preflight only while it waits for one.
WorkerInv ==
    /\ preflight \in BOOLEAN
    /\ worker_at \in {"none", "preflight", "authorize", "launch", "contain",
                      "watch", "closing", "exited"}
    /\ worker_at = "none" => session \in {"idle", "failed", "exited"}
    /\ worker_at = "preflight" => session = "preflighting"
    /\ worker_at \in {"authorize", "launch", "contain"} => session = "launching"
    /\ worker_at = "watch" => session = "running"
    /\ worker_at = "closing" => session = "stopping"
    /\ worker_at = "exited" => session \in {"running", "stopping"}
    /\ preflight => worker_at = "preflight"
    /\ worker_at \notin {"contain", "watch", "closing"} => viewer = "none"

\* A streaming host the client started, and neither failed to stop nor lost with
\* its service, is known to its supervisor.
HostInv ==
    /\ supervisor \in [active : BOOLEAN, started : BOOLEAN] /\ abandoned \in BOOLEAN
    /\ remote_wire \in Seq({"remote_start", "remote_end", "exam_start"})
    /\ stream_host = "started" /\ ~abandoned => supervisor.active /\ supervisor.started

\* The inductive invariant: the server's worker and the client's host.
RemoteIInv == WorkerInv /\ HostInv

\* Before the first session nothing runs on either side.
LEMMA RemoteInitInv == RemoteInit => RemoteIInv
  <1>1. RemoteInit => WorkerInv
    BY Zenon DEF RemoteInit, WorkerInv
  <1>2. RemoteInit => HostInv
    <2> SUFFICES ASSUME RemoteInit PROVE HostInv
      OBVIOUS
    <2>1. supervisor \in [active : BOOLEAN, started : BOOLEAN] /\ abandoned \in BOOLEAN
      BY DEF RemoteInit, NewSupervisor
    <2> QED
      BY <2>1 DEF RemoteInit, HostInv
  <1> QED
    BY <1>1, <1>2 DEF RemoteIInv

\* Every step of the server's worker, of the operator and of the interlocks
\* keeps the worker's state and its processes together.
LEMMA RemoteWorkerStep == ASSUME WorkerInv, [RemoteNext]_remoteVars PROVE WorkerInv'
  <1> USE DEF WorkerInv, ActiveStates
  <1>1. CASE start_remote_session
    BY <1>1 DEF start_remote_session
  <1>2. CASE preflight_launch
    <2>1. preflight' \in BOOLEAN /\ worker_at = "preflight" /\ viewer' = viewer
      BY <1>2 DEF preflight_launch
    <2>2. CASE UNCHANGED <<session, worker_at>>
      BY <2>1, <2>2
    <2>3. CASE set_state("failed") /\ UNCHANGED preflight
      BY <1>2, <2>1, <2>3 DEF preflight_launch, set_state
    <2> QED
      BY <1>2, <2>2, <2>3 DEF preflight_launch
  <1>3. CASE preflight_done
    BY <1>3 DEF preflight_done, set_state
  <1>4. CASE authorize
    BY <1>4 DEF authorize, set_state
  <1>5. CASE launch
    BY <1>5 DEF launch, set_state
  <1>6. CASE contain
    BY <1>6 DEF contain, set_state
  <1>7. CASE watch_stop
    BY <1>7 DEF watch_stop
  <1>8. CASE viewer_exits
    BY <1>8 DEF viewer_exits
  <1>9. CASE session_exited
    BY <1>9 DEF session_exited, set_state
  <1>10. CASE UNCHANGED <<session, worker_at, viewer, preflight>>
    BY <1>10
  <1> QED
    BY <1>1, <1>2, <1>3, <1>4, <1>5, <1>6, <1>7, <1>8, <1>9, <1>10
       DEF RemoteNext, remoteVars, serverVars, stop_remote_session, enforce_interlocks,
           open_remote_window, close_remote_window, receive_remote_command,
           client_service_stops, client_service_crashes, client_service_starts,
           remote_exam_starts, remote_exam_ends, remote_disconnects, remote_reconnects

\* Every command, exam and disconnect keeps the streaming host known to the
\* supervisor that started it.
LEMMA StreamHostStep == ASSUME HostInv, [RemoteNext]_remoteVars PROVE HostInv'
  <1> USE DEF HostInv, clientVars
  <1>a. ASSUME UNCHANGED clientVars, remote_wire' \in Seq({"remote_start", "remote_end", "exam_start"})
        PROVE HostInv'
    BY <1>a
  <1>b. ASSUME StopHost, remote_wire' \in Seq({"remote_start", "remote_end", "exam_start"}) PROVE HostInv'
    <2>1. supervisor' \in [active : BOOLEAN, started : BOOLEAN]
      BY <1>b DEF StopHost, NewSupervisor
    <2>2. CASE stream_host' = "stopped" /\ abandoned' = FALSE
      BY <1>b, <2>1, <2>2
    <2>3. CASE abandoned' = (stream_host = "started") /\ UNCHANGED stream_host
      BY <1>b, <2>1, <2>3
    <2> QED
      BY <1>b, <2>2, <2>3 DEF StopHost
  <1>c. ASSUME handle_remote_session_stop, remote_wire' \in Seq({"remote_start", "remote_end", "exam_start"}) PROVE HostInv'
    BY <1>b, <1>c DEF handle_remote_session_stop
  <1>1. CASE open_remote_window
    BY <1>1, <1>a DEF open_remote_window, SendRemote
  <1>2. CASE close_remote_window
    BY <1>2, <1>a DEF close_remote_window, SendRemote
  <1>3. CASE receive_remote_command
    <2>1. remote_wire' \in Seq({"remote_start", "remote_end", "exam_start"})
      BY <1>3 DEF receive_remote_command
    <2>2. CASE handle_remote_session_start
      <3>1. CASE /\ stream_host' = "started" /\ abandoned' = FALSE
                 /\ supervisor' = [active |-> TRUE, started |-> TRUE]
        <4>1. /\ supervisor' \in [active : BOOLEAN, started : BOOLEAN]
              /\ supervisor'.active /\ supervisor'.started
          BY <3>1
        <4> QED
          BY <2>1, <3>1, <4>1
      <3>2. CASE /\ supervisor' = [supervisor EXCEPT !.active = TRUE]
                 /\ UNCHANGED <<stream_host, abandoned>>
        BY <2>1, <3>2
      <3> QED
        BY <2>2, <3>1, <3>2 DEF handle_remote_session_start
    <2>3. CASE handle_remote_session_stop
      BY <2>1, <2>3, <1>c
    <2>4. CASE handle_exam_lockdown
      BY <2>1, <2>4, <1>b DEF handle_exam_lockdown
    <2>5. Head(remote_wire) \in {"remote_start", "remote_end", "exam_start"}
      BY <1>3 DEF receive_remote_command
    <2> QED
      BY <1>3, <2>2, <2>3, <2>4, <2>5 DEF receive_remote_command
  <1>4. CASE remote_exam_starts
    BY <1>4, <1>a DEF remote_exam_starts, SendRemote
  <1>5. CASE remote_disconnects
    BY <1>5, <1>c DEF remote_disconnects
  <1>6. CASE client_service_stops
    BY <1>6, <1>c DEF client_service_stops
  <1>7. CASE client_service_crashes
    <2>1. /\ supervisor' \in [active : BOOLEAN, started : BOOLEAN]
          /\ abandoned' = (stream_host = "started") /\ stream_host' = stream_host
          /\ remote_wire' = <<>>
      BY <1>7 DEF client_service_crashes, NewSupervisor
    <2> QED
      BY <2>1
  <1>8. CASE UNCHANGED <<supervisor, stream_host, abandoned, remote_wire>>
    BY <1>8
  <1> QED
    BY <1>1, <1>2, <1>3, <1>4, <1>5, <1>6, <1>7, <1>8
       DEF RemoteNext, remoteVars, worldVars, start_remote_session, stop_remote_session,
           enforce_interlocks, preflight_launch, preflight_done, authorize, launch,
           contain, watch_stop, viewer_exits, session_exited, remote_exam_ends,
           remote_reconnects, client_service_starts

\* A session that failed or exited has left no viewer and no preflight running,
\* and a streaming host runs only while its session is on unless Windows refused to
\* stop it or the client service died, however the steps of
\* RemoteSessionProcess::Impl::run(), StreamHostSupervisor, the service and the
\* wire interleave.
THEOREM RemoteSafe == RemoteSpec => []NothingLeftBehind
  <1>1. RemoteIInv /\ [RemoteNext]_remoteVars => RemoteIInv'
    BY RemoteWorkerStep, StreamHostStep DEF RemoteIInv
  <1>2. RemoteIInv => NothingLeftBehind
    BY DEF RemoteIInv, WorkerInv, HostInv, NothingLeftBehind, ActiveStates
  <1> QED
    BY RemoteInitInv, <1>1, <1>2, PTL DEF RemoteSpec

-----------------------------------------------------------------------------
(* Update staging. *)
\* What a file or a directory holds, and what a record of the controller says.
StagedFiles == [of : Nat, units : Nat, own : BOOLEAN, lost : Nat]

\* What a record of the controller, in memory or on disk, can say.
StagingRecords ==
    [state : {"no file", "torn", "idle", "downloading", "staged", "apply_pending_reboot",
              "validating", "committed", "rolling_back", "failed", "deferred"},
     target : Nat, staged : Nat, reboot : BOOLEAN, backup : BOOLEAN]

\* Type correctness of the controller, its files and its directories.
StagingTypeOK ==
    /\ staging \in StagingRecords /\ record_file \in StagingRecords
    /\ hashing \in [on : BOOLEAN, right : BOOLEAN]
    /\ part_file \in StagedFiles /\ pkg_file \in StagedFiles
    /\ active_dir \in StagedFiles /\ backup_dir \in StagedFiles

\* As long as the digest can come out right, the part file holds units of the
\* package that is being downloaded and of no other.
HashedIsOwn ==
    hashing.on /\ hashing.right => part_file.own /\ part_file.of \in {0, staging.target}

\* While a download runs, what the part file holds and what the disk lost of it is
\* what the controller counted.
PartIsCounted ==
    hashing.on /\ staging.state = "downloading" =>
        part_file.units + part_file.lost = staging.staged

\* The inductive invariant.
StagingIInv == StagingTypeOK /\ HashedIsOwn /\ PartIsCounted /\ InstalledIsSigned

\* The initial files and records are files and records, and own.
LEMMA StagingConstants ==
  /\ NoFile \in StagedFiles /\ NoFile.own /\ NoFile.of = 0
  /\ NoFile.units = 0 /\ NoFile.lost = 0 /\ ~Exists(NoFile)
  /\ NotHashing \in [on : BOOLEAN, right : BOOLEAN] /\ ~NotHashing.on
  /\ StagingRecord \in StagingRecords /\ NoRecord \in StagingRecords
  /\ TornRecordFile \in StagingRecords
  <1>1. /\ NoFile \in StagedFiles /\ NoFile.own /\ NoFile.of = 0
        /\ NoFile.units = 0 /\ NoFile.lost = 0
    BY DEF NoFile, StagedFiles
  <1>2. NotHashing \in [on : BOOLEAN, right : BOOLEAN] /\ ~NotHashing.on
    BY DEF NotHashing
  <1>3. StagingRecord \in StagingRecords
    BY DEF StagingRecord, StagingRecords
  <1>4. NoRecord \in StagingRecords /\ TornRecordFile \in StagingRecords
    BY DEF StagingRecord, StagingRecords, NoRecord, TornRecordFile
  <1>5. ~Exists(NoFile)
    BY DEF Exists
  <1> QED
    BY <1>1, <1>2, <1>3, <1>4, <1>5

\* A fresh installation has nothing staged.
LEMMA StagingInitInv == StagingInit => StagingIInv
  <1> SUFFICES ASSUME StagingInit PROVE StagingIInv
    OBVIOUS
  <1>1. active_dir \in StagedFiles /\ active_dir.own
    BY StagingAssumption DEF StagingInit, StagedFiles
  <1>2. StagingTypeOK
    BY <1>1, StagingConstants DEF StagingInit, StagingTypeOK
  <1>3. HashedIsOwn
    BY StagingConstants DEF StagingInit, HashedIsOwn
  <1>4. InstalledIsSigned
    BY <1>1, StagingConstants DEF StagingInit, InstalledIsSigned
  <1>5. PartIsCounted
    BY StagingConstants DEF StagingInit, PartIsCounted
  <1> QED
    BY <1>2, <1>3, <1>4, <1>5 DEF StagingIInv

\* What a save leaves in the record file is a record.
LEMMA SaveType ==
  ASSUME StagingTypeOK, NEW r \in StagingRecords, save_record_to_disk(r)
  PROVE  record_file' \in StagingRecords
  BY StagingConstants DEF save_record_to_disk, StagingTypeOK

\* A step of the controller that does not append, and that leaves the hash and
\* the target alone or ends the download.
LEMMA StagingFrame ==
  ASSUME StagingIInv,
         staging' \in StagingRecords, record_file' \in StagingRecords,
         \/ hashing' = NotHashing /\ part_file' \in {part_file, NoFile}
         \/ /\ UNCHANGED <<hashing, part_file>> /\ staging'.target = staging.target
            /\ staging'.state = "downloading" => staging' = staging,
         pkg_file' \in StagedFiles, pkg_file'.own,
         Exists(pkg_file') => pkg_file'.units + pkg_file'.lost = PackageUnits,
         active_dir' \in StagedFiles, active_dir'.own,
         backup_dir' \in StagedFiles, backup_dir'.own
  PROVE  StagingIInv'
  <1>1. StagingTypeOK'
    BY StagingConstants DEF StagingIInv, StagingTypeOK
  <1>2. HashedIsOwn'
    BY StagingConstants DEF StagingIInv, HashedIsOwn
  <1>3. InstalledIsSigned'
    BY DEF InstalledIsSigned, Exists
  <1>4. PartIsCounted'
    BY StagingConstants DEF StagingIInv, PartIsCounted
  <1> QED
    BY <1>1, <1>2, <1>3, <1>4 DEF StagingIInv

\* abort_staging() drops the part file and touches no installation.
LEMMA AbortStep == ASSUME StagingIInv, abort_staging PROVE StagingIInv'
  <1>1. staging' \in StagingRecords
    BY DEF abort_staging, StagingIInv, StagingTypeOK, StagingRecords
  <1>2. record_file' \in StagingRecords
    BY <1>1, SaveType DEF abort_staging, StagingIInv
  <1> QED
    BY <1>1, <1>2, StagingFrame
       DEF abort_staging, StagingIInv, StagingTypeOK, InstalledIsSigned

\* Counting a unit changes neither the type nor the target of a record.
LEMMA CountedUp ==
  ASSUME NEW r \in StagingRecords
  PROVE  /\ [r EXCEPT !.staged = @ + 1] \in StagingRecords
         /\ [r EXCEPT !.staged = @ + 1].target = r.target
         /\ [r EXCEPT !.staged = @ + 1].staged = r.staged + 1
  <1>1. r.staged \in Nat
    BY DEF StagingRecords
  <1>2. r.staged + 1 \in Nat
    BY <1>1
  <1> QED
    BY <1>2 DEF StagingRecords

\* Every operation of the update controller, failing or not, and every crash
\* preserves the invariant.
LEMMA StagingStep == ASSUME StagingIInv, [StagingNext]_stagingVars PROVE StagingIInv'
  <1> USE StagingConstants
  <1>t. /\ staging \in StagingRecords /\ record_file \in StagingRecords
        /\ hashing \in [on : BOOLEAN, right : BOOLEAN]
        /\ part_file \in StagedFiles
        /\ pkg_file \in StagedFiles /\ pkg_file.own
        /\ Exists(pkg_file) => pkg_file.units + pkg_file.lost = PackageUnits
        /\ active_dir \in StagedFiles /\ active_dir.own
        /\ backup_dir \in StagedFiles /\ backup_dir.own
    BY DEF StagingIInv, StagingTypeOK, InstalledIsSigned
  <1>a. \A n \in 0 .. active_dir.units : /\ [active_dir EXCEPT !.units = n] \in StagedFiles
                                         /\ [active_dir EXCEPT !.units = n].own
    BY <1>t DEF StagedFiles
  <1>p. \A n \in 0 .. pkg_file.units : /\ [pkg_file EXCEPT !.units = n] \in StagedFiles
                                       /\ [pkg_file EXCEPT !.units = n].own
    BY <1>t DEF StagedFiles
  <1>1. CASE init
    <2>1. staging' \in StagingRecords
      BY <1>1, <1>t DEF init, StagingRecords
    <2>2. record_file' \in StagingRecords
      BY <1>1, <1>t, <2>1, SaveType DEF init, StagingIInv
    <2> QED
      BY <1>1, <1>t, <2>1, <2>2, StagingFrame DEF init
  <1>2. CASE set_deferred
    <2>1. /\ staging' \in StagingRecords /\ staging'.target = staging.target
          /\ staging'.state # "downloading"
      BY <1>2, <1>t DEF set_deferred, StagingRecords
    <2>2. record_file' \in StagingRecords
      BY <1>2, <2>1, SaveType DEF set_deferred, StagingIInv
    <2> QED
      BY <1>2, <1>t, <2>1, <2>2, StagingFrame DEF set_deferred
  <1>3. CASE receive_manifest
    <2>a. PICK m \in Manifests : begin_staging(m)
      BY <1>3 DEF receive_manifest
    <2>0. m.version \in Nat /\ m.reboot \in BOOLEAN
      BY StagingAssumption DEF Manifests
    <2>1. staging' \in StagingRecords
      BY <2>0, <2>a, <1>t DEF begin_staging, StagingRecords
    <2>2. record_file' \in StagingRecords
      BY <2>1, <2>a, SaveType DEF begin_staging, StagingIInv
    <2>3. hashing' \in [on : BOOLEAN, right : BOOLEAN]
      BY <2>a DEF begin_staging
    <2>4. part_file' = NoFile /\ pkg_file' = NoFile /\ UNCHANGED <<active_dir, backup_dir>>
      BY <2>a DEF begin_staging
    <2>5. StagingTypeOK'
      BY <1>t, <2>1, <2>2, <2>3, <2>4 DEF StagingTypeOK
    <2> QED
      <3>1. staging'.staged = 0
        BY <2>a, <1>t DEF begin_staging, StagingRecords
      <3>2. PartIsCounted'
        BY <2>4, <3>1 DEF PartIsCounted
      <3> QED
        BY <1>t, <2>4, <2>5, <3>2 DEF StagingIInv, HashedIsOwn, InstalledIsSigned
  <1>4. CASE begin_staging_fails
    BY <1>4, <1>t, StagingFrame DEF begin_staging_fails
  <1>5. ASSUME NEW own \in BOOLEAN, append_chunk(own) PROVE StagingIInv'
    <2>1. CASE abort_staging
      BY <2>1, AbortStep
    <2>2. CASE ~abort_staging
      <3>1. PICK n \in {0, 1} : part_file' = Appended(part_file, n, own)
        BY <1>5, <2>2 DEF append_chunk
      <3>2. /\ hashing' = [hashing EXCEPT !.right = @ /\ own]
            /\ staging' = [staging EXCEPT !.staged = @ + 1]
            /\ UNCHANGED <<record_file, pkg_file, active_dir, backup_dir>>
            /\ hashing.on /\ staging.state = "downloading"
        BY <1>5, <2>2 DEF append_chunk, Streaming
      <3>3. /\ staging' \in StagingRecords /\ staging'.target = staging.target
            /\ staging'.staged = staging.staged + 1
        BY <1>t, <3>2, CountedUp
      <3>4. hashing' \in [on : BOOLEAN, right : BOOLEAN]
        BY <1>t, <3>2
      <3>5. hashing'.right => hashing.right /\ own
        BY <1>t, <3>2
      <3>6. /\ part_file' \in StagedFiles
            /\ part_file'.of = staging.target
            /\ part_file'.own <=> part_file.own /\ own /\ part_file.of \in {0, staging.target}
            /\ part_file'.units = part_file.units + n /\ part_file'.lost = part_file.lost + (1 - n)
        <4>1. part_file.units \in Nat /\ staging.target \in Nat /\ part_file.lost \in Nat
          BY <1>t DEF StagedFiles, StagingRecords
        <4> QED
          BY <3>1, <4>1 DEF Appended, StagedFiles
      <3>7. StagingTypeOK'
        BY <1>t, <3>2, <3>3, <3>4, <3>6 DEF StagingTypeOK
      <3>8. HashedIsOwn'
        BY <3>2, <3>3, <3>5, <3>6 DEF StagingIInv, HashedIsOwn
      <3>9. PartIsCounted'
        <4>1. part_file.units + part_file.lost = staging.staged
          BY <3>2 DEF StagingIInv, PartIsCounted
        <4>2. part_file.units \in Nat /\ part_file.lost \in Nat /\ n \in {0, 1}
          BY <1>t DEF StagedFiles
        <4> QED
          BY <3>3, <3>6, <4>1, <4>2 DEF PartIsCounted
      <3> QED
        BY <1>t, <3>2, <3>7, <3>8, <3>9 DEF StagingIInv, InstalledIsSigned
    <2> QED
      BY <2>1, <2>2
  <1>6. CASE append_chunk_fails
    BY <1>6, AbortStep DEF append_chunk_fails
  <1>7. CASE finalize_staging
    <2>1. CASE abort_staging
      BY <2>1, AbortStep
    <2>2. CASE ~abort_staging
      <3>1. /\ hashing.on /\ hashing.right
            /\ staging.state = "downloading" /\ staging.staged = PackageUnits
            /\ hashing' = NotHashing /\ pkg_file' = part_file /\ part_file' = NoFile
            /\ staging' = [staging EXCEPT !.state = IF staging.reboot
                                                    THEN "apply_pending_reboot"
                                                    ELSE "staged"]
            /\ save_record_to_disk(staging')
            /\ UNCHANGED <<active_dir, backup_dir>>
        BY <1>7, <2>2 DEF finalize_staging, Streaming
      <3>2. staging' \in StagingRecords
        BY <1>t, <3>1 DEF StagingRecords
      <3>3. record_file' \in StagingRecords
        BY <3>1, <3>2, SaveType DEF StagingIInv
      <3>4. part_file.own /\ part_file.units + part_file.lost = PackageUnits
        BY <3>1 DEF StagingIInv, HashedIsOwn, PartIsCounted
      <3> QED
        BY <1>t, <3>1, <3>2, <3>3, <3>4, StagingFrame
    <2> QED
      BY <2>1, <2>2
  <1>8. CASE apply_staged_update
    <2>1. /\ staging' \in StagingRecords /\ staging'.target = staging.target
          /\ staging'.state # "downloading"
      BY <1>8, <1>t DEF apply_staged_update, StagingRecords
    <2>2. active_dir' \in StagedFiles /\ active_dir'.own
      <3>1. pkg_file.of \in Nat
        BY <1>t DEF StagedFiles
      <3> QED
        BY <1>8, <3>1 DEF apply_staged_update, EmptyDir, StagedFiles
    <2> QED
      BY <1>8, <1>t, <2>1, <2>2, StagingFrame DEF apply_staged_update
  <1>9. CASE apply_move_fails
    <2>1. /\ staging' \in StagingRecords /\ staging'.target = staging.target
          /\ staging'.state # "downloading"
      BY <1>9, <1>t DEF apply_move_fails, StagingRecords
    <2>2. /\ active_dir' \in {active_dir, NoFile} /\ backup_dir' \in {active_dir, NoFile}
          /\ UNCHANGED <<hashing, record_file, part_file, pkg_file>>
      BY <1>9 DEF apply_move_fails
    <2> QED
      BY <1>t, <2>1, <2>2, StagingFrame
  <1>10. CASE apply_copy
    <2>1. active_dir' \in StagedFiles /\ active_dir'.own
      BY <1>10, <1>t, <1>p DEF apply_copy
    <2> QED
      BY <1>10, <1>t, <2>1, StagingFrame DEF apply_copy
  <1>11. CASE apply_record
    <2>1. /\ staging' \in StagingRecords /\ staging'.target = staging.target
          /\ staging'.state # "downloading"
      BY <1>11, <1>t DEF apply_record, StagingRecords
    <2>2. record_file' \in StagingRecords
      BY <1>11, <2>1, SaveType DEF apply_record, StagingIInv
    <2> QED
      BY <1>11, <1>t, <2>1, <2>2, StagingFrame DEF apply_record
  <1>12. CASE commit_update
    <2>1. /\ staging' \in StagingRecords /\ staging'.target = staging.target
          /\ staging'.state # "downloading"
      BY <1>12, <1>t DEF commit_update, StagingRecords
    <2>2. record_file' \in StagingRecords
      BY <1>12, <2>1, SaveType DEF commit_update, StagingIInv
    <2> QED
      BY <1>12, <1>t, <2>1, <2>2, StagingFrame DEF commit_update
  <1>13. CASE rollback_update
    <2>1. /\ staging' \in StagingRecords /\ staging'.target = staging.target
          /\ staging'.state # "downloading"
      BY <1>13, <1>t DEF rollback_update, StagingRecords
    <2>2. record_file' \in StagingRecords
      BY <1>13, <1>t, <2>1, SaveType DEF rollback_update, StagingIInv
    <2> QED
      BY <1>13, <1>t, <2>1, <2>2, StagingFrame DEF rollback_update
  <1>14. CASE rollback_rename
    <2>1. /\ staging' \in StagingRecords /\ staging'.target = staging.target
          /\ staging'.state # "downloading"
      BY <1>14, <1>t DEF rollback_rename, StagingRecords
    <2>2. record_file' \in StagingRecords
      BY <1>14, <2>1, SaveType DEF rollback_rename, StagingIInv
    <2> QED
      BY <1>14, <1>t, <2>1, <2>2, StagingFrame DEF rollback_rename
  <1>17. CASE rollback_fails
    <2>1. /\ staging' \in StagingRecords /\ staging'.target = staging.target
          /\ staging'.state # "downloading"
      BY <1>17, <1>t DEF rollback_fails, StagingRecords
    <2>2. record_file' \in StagingRecords
      BY <1>17, <1>t, <2>1 DEF rollback_fails
    <2>3. active_dir' \in StagedFiles /\ active_dir'.own
      BY <1>17, <1>t, <1>a DEF rollback_fails
    <2> QED
      BY <1>17, <1>t, <2>1, <2>2, <2>3, StagingFrame DEF rollback_fails
  <1>15. CASE staging_crash
    <2>1. active_dir' \in StagedFiles /\ active_dir'.own
      BY <1>15, <1>t, <1>p DEF staging_crash
    <2> QED
      BY <1>15, <1>t, <2>1, StagingFrame DEF staging_crash
  <1>16. CASE UNCHANGED stagingVars
    BY <1>16, <1>t, StagingFrame DEF stagingVars
  <1> QED
    BY <1>1, <1>2, <1>3, <1>4, <1>5, <1>6, <1>7, <1>8, <1>9, <1>10, <1>11, <1>12,
       <1>13, <1>14, <1>15, <1>16, <1>17 DEF StagingNext

\* The package, the installation and its backup hold only bytes the digest of
\* the signed manifest covered, and the package all of them that the disk took, for every set of manifests and every size
\* (finalize_staging(), apply_staged_update(), rollback_update()).
THEOREM InstalledSafe == StagingSpec => []InstalledIsSigned
  <1>1. StagingIInv /\ [StagingNext]_stagingVars => StagingIInv'
    BY StagingStep
  <1>2. StagingIInv => InstalledIsSigned
    BY DEF StagingIInv
  <1> QED
    BY StagingInitInv, <1>1, <1>2, PTL DEF StagingSpec

-----------------------------------------------------------------------------
(* Maintenance intents. *)
\* Type correctness; an identifier is signed once.
IntentTypeOK ==
    /\ intents \subseteq Intents
    /\ intent_clock \in Nat
    /\ authorized \in [IntentIds -> Nat]
    /\ cache_losses \in Nat
    /\ \A i, j \in intents : i.id = j.id => i = j

\* An intent that ran can no longer be accepted: it expired, or the cache
\* still holds it.
CannotRun(i) == i.expires < intent_clock \/ in_cache(i)

\* An intent that ran since the cache last lost one cannot run again.
RanIsRemembered ==
    \A i \in intents : authorized[i.id] # 0 =>
        \/ authorized[i.id] <= cache_losses
        \/ authorized[i.id] = 1 + cache_losses /\ CannotRun(i)

\* Only signed intents are ever let through.
OnlySignedRan ==
    \A id \in IntentIds : authorized[id] # 0 => \E i \in intents : i.id = id

\* The inductive invariant.
IntentIInv == IntentTypeOK /\ RanIsRemembered /\ OnlySignedRan /\ IntentRunsOnce

\* At first nothing is signed, seen or let through.
LEMMA IntentInitInv == IntentInit => IntentIInv
  BY DEF IntentInit, IntentIInv, IntentTypeOK, RanIsRemembered, OnlySignedRan, IntentRunsOnce

\* The fields of an intent.
LEMMA IntentFields == \A i \in Intents : i.id \in IntentIds /\ i.expires \in Nat
  BY IntentAssumption DEF Intents

\* Signing, authorizing, configuring the filter, the passing of time and the
\* losses of the cache preserve the invariant: accept() forgets an entry only
\* after its intent has expired.
LEMMA IntentStep == ASSUME IntentIInv, [IntentNext]_intentVars PROVE IntentIInv'
  <1> USE DEF IntentIInv, IntentTypeOK, RanIsRemembered, OnlySignedRan, IntentRunsOnce,
              CannotRun, in_cache, historyVars
  <1>1. ASSUME NEW i \in Intents, sign_maintenance_intent(i) PROVE IntentIInv'
    BY <1>1, IntentFields DEF sign_maintenance_intent
  <1>2. ASSUME NEW i \in intents, authorize_maintenance_intent(i) PROVE IntentIInv'
    <2>1. i \in Intents /\ i.id \in IntentIds /\ i.expires \in Nat
      BY IntentFields
    <2>2. /\ replay_accept(i) /\ intent_clock <= i.expires
          /\ UNCHANGED <<intents, intent_clock, cache_losses>>
      BY <1>2 DEF authorize_maintenance_intent
    <2>3. CASE intents_seen' = unexpired /\ UNCHANGED authorized
      BY <2>2, <2>3, IntentFields DEF unexpired
    <2>4. CASE /\ ~replayed(i)
               /\ intents_seen' = unexpired \cup
                     {[id |-> i.id, nonce |-> i.nonce, expires |-> i.expires]}
               /\ authorized' = [authorized EXCEPT ![i.id] = @ + 1]
      <3>1. ~CannotRun(i)
        BY <2>1, <2>2, <2>4 DEF replayed, unexpired
      <3>2. authorized[i.id] <= cache_losses
        BY <2>1, <3>1
      <3>3. authorized' \in [IntentIds -> Nat] /\ authorized'[i.id] = 1 + authorized[i.id]
        BY <2>1, <2>4
      <3>4. \A id \in IntentIds \ {i.id} : authorized'[id] = authorized[id]
        BY <2>4
      <3>5. RanIsRemembered'
        <4> SUFFICES ASSUME NEW j \in intents, authorized'[j.id] # 0
                     PROVE  \/ authorized'[j.id] <= cache_losses
                            \/ authorized'[j.id] = 1 + cache_losses /\ CannotRun(j)'
          BY <2>2
        <4>1. CASE j.id = i.id
          <5>1. j = i
            BY <4>1
          <5> DEFINE e == [id |-> i.id, nonce |-> i.nonce, expires |-> i.expires]
          <5>2. e \in intents_seen' /\ e.id = i.id /\ e.expires = i.expires
            BY <2>4
          <5>3. authorized'[i.id] <= 1 + cache_losses
            BY <2>1, <3>2, <3>3
          <5> QED
            BY <2>1, <3>3, <5>1, <5>2, <5>3
        <4>2. CASE j.id # i.id
          BY <4>2, <2>2, <2>4, <3>4, IntentFields DEF unexpired
        <4> QED
          BY <4>1, <4>2
      <3> QED
        BY <2>1, <2>2, <3>2, <3>3, <3>4, <3>5
    <2> QED
      BY <2>2, <2>3, <2>4 DEF replay_accept
  <1>3. CASE filter_configured
    BY <1>3 DEF filter_configured
  <1>4. CASE intent_tick
    BY <1>4, IntentFields DEF intent_tick
  <1>5. CASE replay_clear
    <2>1. UNCHANGED <<intents, intent_clock, authorized>> /\ intents_seen' = {}
      BY <1>5 DEF replay_clear
    <2>2. CASE unexpired = {} /\ cache_losses' = cache_losses
      <3>1. \A i \in intents : CannotRun(i) => i.expires < intent_clock
        BY <2>2, IntentFields DEF unexpired
      <3> QED
        BY <2>1, <2>2, <3>1, IntentFields
    <2>3. CASE cache_losses' = cache_losses + 1
      BY <2>1, <2>3, IntentFields
    <2> QED
      BY <1>5, <2>2, <2>3 DEF replay_clear
  <1>6. ASSUME NEW t \in 1 .. MaxClock, intent_clock_set_back(t) PROVE IntentIInv'
    <2>1. UNCHANGED <<intents, intents_seen, authorized>> /\ intent_clock' = t
      BY <1>6 DEF intent_clock_set_back
    <2>2. CASE cache_losses' = cache_losses + 1
      BY <2>1, <2>2, IntentFields
    <2>3. CASE /\ cache_losses' = cache_losses
               /\ \A i \in intents : authorized[i.id] # 0 /\ t <= i.expires
                                      /\ i.expires < intent_clock => in_cache(i)
      BY <2>1, <2>3, IntentFields
    <2> QED
      BY <1>6, <2>2, <2>3 DEF intent_clock_set_back
  <1>7. CASE UNCHANGED intentVars
    BY <1>7 DEF intentVars
  <1> QED
    BY <1>1, <1>2, <1>3, <1>4, <1>5, <1>6, <1>7 DEF IntentNext

\* A maintenance intent runs at most once, and once more for each loss of the
\* cache, for every set of identifiers, nonces and lifetimes
\* (MaintenanceReplayProtector::accept()).
THEOREM IntentsOnce == IntentSpec => []IntentRunsOnce
  <1>1. IntentIInv /\ [IntentNext]_intentVars => IntentIInv'
    BY IntentStep
  <1>2. IntentIInv => IntentRunsOnce
    BY DEF IntentIInv
  <1> QED
    BY IntentInitInv, <1>1, <1>2, PTL DEF IntentSpec

-----------------------------------------------------------------------------
(* The telemetry journal. *)
\* Functions from some elements of D to R.
PartialMap(D, R) == UNION {[S -> R] : S \in SUBSET D}

\* What the journal knows of a producer.
ProducerRecords ==
    [generation : Nat, current : Nat, floor : Nat,
     tracked : PartialMap(1 .. MaxSequence, Contents), conflicts : SUBSET (1 .. MaxSequence)]

\* ... and of an exam.
ContextRecords ==
    [stopped : BOOLEAN, overdue : BOOLEAN, generations : Nat,
     producers : PartialMap(Producers, ProducerRecords)]

\* An index.
Indexes == PartialMap(TelemetrySessions, ContextRecords)

\* Sequence n is in the index of a producer, or below its replay floor.
Known(p, n) == n \in DOMAIN p.tracked \/ n <= p.floor

\* An index would recognise the batch of key k.
Covers(f, k) ==
    /\ k[1] \in DOMAIN f
    /\ k[2] \in DOMAIN f[k[1]].producers
    /\ Known(f[k[1]].producers[k[2]], k[3])

\* The keys of batches.
BatchKeys == TelemetrySessions \X Producers \X (1 .. MaxSequence)

\* Type correctness.
TelemetryTypeOK ==
    /\ tele_contexts \in Indexes /\ tele_metadata.contexts \in Indexes
    /\ tele_queue \in Seq(Batches) /\ tele_open \in BOOLEAN
    /\ index_losses \in Nat
    /\ DOMAIN accepted \subseteq BatchKeys
    /\ \A k \in DOMAIN accepted : accepted[k] \in Nat

\* The index that counts: in memory, or on disk while the server is down.
TheIndex == IF tele_open THEN tele_contexts ELSE tele_metadata.contexts

\* A batch was accepted before the last index was lost, as often as one was lost,
\* or the index recognises it.
OnceAndKnown(f, n, k) == n <= index_losses \/ (n = 1 + index_losses /\ Covers(f, k))

\* Every batch that was accepted since the last index was lost was accepted once
\* since, and is recognised.
AcceptedKnown == \A k \in DOMAIN accepted : OnceAndKnown(TheIndex, accepted[k], k)

\* The inductive invariant.
TelemetryIInv == TelemetryTypeOK /\ AcceptedKnown

\* A partial function.
LEMMA IsPartialFunction ==
  ASSUME NEW D, NEW R
  PROVE  \A f : f \in PartialMap(D, R) <=> DOMAIN f \subseteq D /\ f \in [DOMAIN f -> R]
  BY DEF PartialMap

\* The empty function.
LEMMA NothingKnown ==
  ASSUME NEW D, NEW R
  PROVE  <<>> \in PartialMap(D, R) /\ DOMAIN <<>> = {}
  <1>1. <<>> \in [{} -> R] /\ DOMAIN <<>> = {}
    OBVIOUS
  <1>2. {} \in SUBSET D
    OBVIOUS
  <1> QED
    BY <1>1, <1>2 DEF PartialMap

\* Restricted to some of its arguments.
LEMMA Restricted ==
  ASSUME NEW D, NEW R, NEW f \in PartialMap(D, R), NEW S, S \subseteq DOMAIN f
  PROVE  /\ Restrict(f, S) \in PartialMap(D, R) /\ DOMAIN Restrict(f, S) = S
         /\ \A x \in S : Restrict(f, S)[x] = f[x]
  <1>1. DOMAIN f \subseteq D /\ f \in [DOMAIN f -> R]
    BY IsPartialFunction, Zenon
  <1>2. Restrict(f, S) \in [S -> R]
    BY <1>1 DEF Restrict
  <1>3. Restrict(f, S) \in PartialMap(D, R)
    BY <1>1, <1>2 DEF PartialMap
  <1> QED
    BY <1>3 DEF Restrict

\* The least sequence of a set.
LEMMA LeastExists ==
  ASSUME NEW S \in SUBSET Nat, S # {}
  PROVE  Least(S) \in S /\ \A y \in S : Least(S) <= y
  <1>1. PICK m \in S : \A y \in S : ~(<<y, m>> \in OpToRel(<, Nat))
    BY WFMin, NatLessThanWellFounded, Zenon
  <1>2. \A y \in S : y \in Nat /\ m \in Nat /\ ~(y < m)
    BY <1>1 DEF OpToRel
  <1>3. \E x \in S : \A y \in S : x <= y
    BY <1>2
  <1> QED
    BY <1>3 DEF Least

\* The greatest of a set of sequences.
LEMMA GreatestExists ==
  ASSUME NEW n \in Nat, NEW S \in SUBSET (1 .. n), S # {}
  PROVE  \E x \in S : \A y \in S : y <= x
  <1>1. PICK T \in SUBSET Nat : T = {n - x : x \in S}
    <2>1. \A z \in {n - x : x \in S} : z \in Nat
      OBVIOUS
    <2>2. {n - x : x \in S} \in SUBSET Nat
      BY <2>1, Zenon
    <2> QED
      BY <2>2, Zenon
  <1>2. T # {}
    BY <1>1
  <1>3. PICK m \in T : \A y \in T : ~(<<y, m>> \in OpToRel(<, Nat))
    BY <1>2, WFMin, NatLessThanWellFounded, Zenon
  <1>4. \A y \in T : y \in Nat /\ m \in Nat /\ ~(y < m)
    BY <1>3 DEF OpToRel
  <1>5. PICK x \in S : m = n - x
    BY <1>1, <1>3
  <1>6. \A y \in S : y <= x
    <2> TAKE y \in S
    <2>1. n - y \in T
      BY <1>1
    <2>2. ~(n - y < n - x)
      BY <1>4, <1>5, <2>1
    <2> QED
      BY <2>2
  <1> QED
    BY <1>6

\* evict_oldest(): what leaves the index of a producer is below its floor.
LEMMA EvictionRemembers ==
  ASSUME NEW p \in ProducerRecords
  PROVE  /\ evict_oldest(p) \in ProducerRecords
         /\ \A n \in 1 .. MaxSequence : Known(p, n) => Known(evict_oldest(p), n)
  <1>1. CASE Cardinality(DOMAIN p.tracked) <= MaxHashes
    BY <1>1 DEF evict_oldest
  <1>2. CASE ~(Cardinality(DOMAIN p.tracked) <= MaxHashes)
    <2>1. DOMAIN p.tracked # {}
      BY <1>2, FS_EmptySet, TelemetryJournalAssumption
    <2>2. p.tracked \in PartialMap(1 .. MaxSequence, Contents) /\ p.floor \in Nat
      BY DEF ProducerRecords
    <2>3. DOMAIN p.tracked \subseteq 1 .. MaxSequence
      BY <2>2, IsPartialFunction, Zenon
    <2>4. DOMAIN p.tracked \in SUBSET Nat
      BY <2>3
    <2>5. PICK oldest \in DOMAIN p.tracked : oldest = Least(DOMAIN p.tracked)
      BY <2>1, <2>4, LeastExists, Zenon
    <2>6. oldest \in Nat
      BY <2>3
    <2>7. PICK kept \in PartialMap(1 .. MaxSequence, Contents) :
             kept = Without(p.tracked, oldest) /\ DOMAIN kept = DOMAIN p.tracked \ {oldest}
      <3>1. DOMAIN p.tracked \ {oldest} \subseteq DOMAIN p.tracked
        OBVIOUS
      <3>2. /\ Restrict(p.tracked, DOMAIN p.tracked \ {oldest}) \in PartialMap(1 .. MaxSequence, Contents)
            /\ DOMAIN Restrict(p.tracked, DOMAIN p.tracked \ {oldest}) = DOMAIN p.tracked \ {oldest}
        <4>1. PICK f \in PartialMap(1 .. MaxSequence, Contents) : f = p.tracked
          BY <2>2, Zenon
        <4>2. PICK S \in SUBSET DOMAIN f : S = DOMAIN p.tracked \ {oldest}
          BY <4>1
        <4>3. Restrict(f, S) \in PartialMap(1 .. MaxSequence, Contents) /\ DOMAIN Restrict(f, S) = S
          BY Restricted
        <4> QED
          BY <4>1, <4>2, <4>3, Zenon
      <3>3. /\ Without(p.tracked, oldest) \in PartialMap(1 .. MaxSequence, Contents)
            /\ DOMAIN Without(p.tracked, oldest) = DOMAIN p.tracked \ {oldest}
        BY <3>2, Zenon DEF Without
      <3> QED
        BY <3>3, Zenon
    <2>8. evict_oldest(p) = [p EXCEPT !.tracked = kept, !.floor = Greatest(p.floor, oldest)]
      BY <1>2, <2>5, <2>7 DEF evict_oldest
    <2>9. PICK floor \in Nat : floor = Greatest(p.floor, oldest) /\ p.floor <= floor /\ oldest <= floor
      BY <2>2, <2>6 DEF Greatest
    <2>10. evict_oldest(p) \in ProducerRecords
      BY <2>8, <2>9 DEF ProducerRecords
    <2>11. evict_oldest(p).tracked = kept /\ evict_oldest(p).floor = floor
      BY <2>8, <2>9 DEF ProducerRecords
    <2>12. \A n \in 1 .. MaxSequence : Known(p, n) => Known(evict_oldest(p), n)
      BY <2>2, <2>7, <2>9, <2>11, TelemetryJournalAssumption DEF Known
    <2> QED
      BY <2>10, <2>12
  <1> QED
    BY <1>1, <1>2

\* prune_expired(): the same for sequences past their retention.
LEMMA PruningRemembers ==
  ASSUME NEW p \in ProducerRecords, NEW old \in SUBSET (1 .. MaxSequence)
  PROVE  /\ prune_expired(p, old) \in ProducerRecords
         /\ \A n \in 1 .. MaxSequence : Known(p, n) => Known(prune_expired(p, old), n)
  <1>1. p.tracked \in PartialMap(1 .. MaxSequence, Contents) /\ p.floor \in Nat
    BY DEF ProducerRecords
  <1>2. PICK gone \in SUBSET (1 .. MaxSequence) : gone = DOMAIN p.tracked \cap old
    OBVIOUS
  <1>3. PICK kept \in PartialMap(1 .. MaxSequence, Contents) :
           kept = Restrict(p.tracked, DOMAIN p.tracked \ gone) /\ DOMAIN kept = DOMAIN p.tracked \ gone
    <2>1. DOMAIN p.tracked \ gone \subseteq DOMAIN p.tracked
      OBVIOUS
    <2>2. /\ Restrict(p.tracked, DOMAIN p.tracked \ gone) \in PartialMap(1 .. MaxSequence, Contents)
          /\ DOMAIN Restrict(p.tracked, DOMAIN p.tracked \ gone) = DOMAIN p.tracked \ gone
      <3>1. PICK f \in PartialMap(1 .. MaxSequence, Contents) : f = p.tracked
        BY <1>1, Zenon
      <3>2. PICK S \in SUBSET DOMAIN f : S = DOMAIN p.tracked \ gone
        BY <3>1
      <3>3. Restrict(f, S) \in PartialMap(1 .. MaxSequence, Contents) /\ DOMAIN Restrict(f, S) = S
        BY Restricted
      <3> QED
        BY <3>1, <3>2, <3>3, Zenon
    <2> QED
      BY <2>2, Zenon
  <1>4. PICK floor \in Nat :
           /\ floor = IF gone = {} THEN p.floor
                      ELSE Greatest(p.floor, CHOOSE x \in gone : \A y \in gone : y <= x)
           /\ p.floor <= floor /\ \A n \in gone : n <= floor
    <2>1. CASE gone = {}
      BY <1>1, <2>1
    <2>2. CASE gone # {}
      <3>1. \E x \in gone : \A y \in gone : y <= x
        BY <2>2, GreatestExists, TelemetryJournalAssumption, Zenon
      <3>2. PICK x \in gone : x = (CHOOSE z \in gone : \A y \in gone : y <= z) /\ \A y \in gone : y <= x
        BY <3>1, Zenon
      <3>3. x \in Nat
        OBVIOUS
      <3>4. PICK floor \in Nat : floor = Greatest(p.floor, x) /\ p.floor <= floor /\ x <= floor
        BY <1>1, <3>3 DEF Greatest
      <3>5. \A n \in gone : n <= floor
        BY <3>2, <3>3, <3>4, TelemetryJournalAssumption
      <3> QED
        BY <2>2, <3>2, <3>4, <3>5
    <2> QED
      BY <2>1, <2>2
  <1>5. prune_expired(p, old) = [p EXCEPT !.tracked = kept, !.floor = floor]
    BY <1>2, <1>3, <1>4 DEF prune_expired
  <1>6. prune_expired(p, old) \in ProducerRecords
    BY <1>5 DEF ProducerRecords
  <1>7. prune_expired(p, old).tracked = kept /\ prune_expired(p, old).floor = floor
    BY <1>5 DEF ProducerRecords
  <1>8. \A n \in 1 .. MaxSequence : Known(p, n) => Known(prune_expired(p, old), n)
    <2> SUFFICES ASSUME NEW n \in 1 .. MaxSequence, Known(p, n)
                 PROVE  n \in DOMAIN kept \/ n <= floor
      BY <1>7 DEF Known
    <2>1. n \in Nat
      BY TelemetryJournalAssumption
    <2>2. CASE n \in DOMAIN p.tracked
      BY <1>3, <1>4, <2>2
    <2>3. CASE n <= p.floor
      BY <1>1, <1>4, <2>1, <2>3
    <2> QED
      BY <2>2, <2>3 DEF Known
  <1> QED
    BY <1>6, <1>8

\* Index g recognises what index f does.
Recalls(f, g) == \A k \in BatchKeys : Covers(f, k) => Covers(g, k)

\* A producer's index q recognises what p does.
RecallsProducer(p, q) == \A n \in 1 .. MaxSequence : Known(p, n) => Known(q, n)

\* A context with producers m recognises what one with producers l does.
RecallsProducers(l, m) ==
    \A r \in DOMAIN l : r \in DOMAIN m /\ RecallsProducer(l[r], m[r])

\* Index g is index f but for the context of session s, which is c.
ReplacesContext(f, g, s, c) ==
    DOMAIN g = DOMAIN f \cup {s} /\ g[s] = c /\ \A x \in DOMAIN f : x # s => g[x] = f[x]

\* An index whose contexts recognise as much recognises as much.
LEMMA RecallsByContext ==
  ASSUME NEW f \in Indexes, NEW g,
         \A s \in DOMAIN f : s \in DOMAIN g /\ RecallsProducers(f[s].producers, g[s].producers)
  PROVE  Recalls(f, g)
  <1> SUFFICES ASSUME NEW k \in BatchKeys, Covers(f, k)
               PROVE  Covers(g, k)
    BY DEF Recalls
  <1>1. k[3] \in 1 .. MaxSequence
    BY DEF BatchKeys
  <1>2. k[1] \in DOMAIN f /\ k[2] \in DOMAIN f[k[1]].producers /\ Known(f[k[1]].producers[k[2]], k[3])
    BY DEF Covers
  <1>3. k[1] \in DOMAIN g /\ k[2] \in DOMAIN g[k[1]].producers
    BY <1>2 DEF RecallsProducers
  <1>4. RecallsProducer(f[k[1]].producers[k[2]], g[k[1]].producers[k[2]])
    BY <1>2 DEF RecallsProducers
  <1>5. Known(g[k[1]].producers[k[2]], k[3])
    BY <1>1, <1>2, <1>4, Zenon DEF RecallsProducer
  <1> QED
    BY <1>3, <1>5, Zenon DEF Covers

\* The producers of a context recognise themselves.
LEMMA RecallsItself ==
  ASSUME NEW l
  PROVE  RecallsProducers(l, l)
  BY Zenon DEF RecallsProducers, RecallsProducer

\* A context replaced by one that recognises as much, or a new one.
LEMMA ContextReplaced ==
  ASSUME NEW f \in Indexes, NEW g, NEW s, NEW c, ReplacesContext(f, g, s, c),
         s \in DOMAIN f => RecallsProducers(f[s].producers, c.producers)
  PROVE  Recalls(f, g)
  <1>1. ASSUME NEW x \in DOMAIN f
        PROVE  x \in DOMAIN g /\ RecallsProducers(f[x].producers, g[x].producers)
    <2>1. CASE x = s
      BY <2>1, Zenon DEF ReplacesContext
    <2>2. CASE x # s
      <3>1. x \in DOMAIN g /\ g[x] = f[x]
        BY <2>2, Zenon DEF ReplacesContext
      <3>2. RecallsProducers(f[x].producers, f[x].producers)
        BY RecallsItself, Zenon
      <3> QED
        BY <3>1, <3>2, Zenon
    <2> QED
      BY <2>1, <2>2, Zenon
  <1> QED
    BY <1>1, RecallsByContext, Zenon

\* The parts of an index.
LEMMA IndexParts ==
  ASSUME NEW f \in Indexes, NEW s \in DOMAIN f
  PROVE  /\ s \in TelemetrySessions /\ f[s] \in ContextRecords
         /\ f[s].producers \in PartialMap(Producers, ProducerRecords)
         /\ \A r \in DOMAIN f[s].producers : r \in Producers /\ f[s].producers[r] \in ProducerRecords
  <1>1. DOMAIN f \subseteq TelemetrySessions /\ f \in [DOMAIN f -> ContextRecords]
    BY IsPartialFunction, Zenon DEF Indexes
  <1>2. s \in TelemetrySessions /\ f[s] \in ContextRecords
    BY <1>1
  <1>3. f[s].producers \in PartialMap(Producers, ProducerRecords)
    BY <1>2 DEF ContextRecords
  <1>4. DOMAIN f[s].producers \subseteq Producers /\ f[s].producers \in [DOMAIN f[s].producers -> ProducerRecords]
    BY <1>3, IsPartialFunction, Zenon
  <1> QED
    BY <1>2, <1>3, <1>4

\* An index with a context replaced, by EXCEPT or by adding it.
LEMMA ContextPut ==
  ASSUME NEW f \in Indexes, NEW s \in TelemetrySessions, NEW c \in ContextRecords
  PROVE  /\ With(f, s, c) \in Indexes /\ ReplacesContext(f, With(f, s, c), s, c)
         /\ s \in DOMAIN f => [f EXCEPT ![s] = c] = With(f, s, c)
  <1>1. /\ With(f, s, c) \in Indexes /\ DOMAIN With(f, s, c) = DOMAIN f \cup {s}
        /\ With(f, s, c)[s] = c /\ \A x \in DOMAIN f : x # s => With(f, s, c)[x] = f[x]
    <2>1. DOMAIN f \subseteq TelemetrySessions /\ f \in [DOMAIN f -> ContextRecords]
      BY IsPartialFunction, Zenon DEF Indexes
    <2>2. With(f, s, c) \in [DOMAIN f \cup {s} -> ContextRecords]
      BY <2>1 DEF With
    <2>3. DOMAIN f \cup {s} \in SUBSET TelemetrySessions
      BY <2>1
    <2>4. With(f, s, c) \in Indexes
      BY <2>2, <2>3, Zenon DEF Indexes, PartialMap
    <2> QED
      BY <2>1, <2>2, <2>4 DEF With
  <1>2. ASSUME s \in DOMAIN f
        PROVE  [f EXCEPT ![s] = c] = With(f, s, c)
    <2>1. DOMAIN f \cup {s} = DOMAIN f
      BY <1>2
    <2>2. DOMAIN f \subseteq TelemetrySessions /\ f \in [DOMAIN f -> ContextRecords]
      BY IsPartialFunction, Zenon DEF Indexes
    <2> QED
      BY <1>2, <2>1, <2>2 DEF With
  <1> QED
    BY <1>1, <1>2, Zenon DEF ReplacesContext

\* A context with the record of one producer replaced or added.
LEMMA ProducerPut ==
  ASSUME NEW c \in ContextRecords, NEW r \in Producers, NEW q \in ProducerRecords,
         r \in DOMAIN c.producers => RecallsProducer(c.producers[r], q)
  PROVE  /\ With(c.producers, r, q) \in PartialMap(Producers, ProducerRecords)
         /\ RecallsProducers(c.producers, With(c.producers, r, q))
         /\ r \in DOMAIN With(c.producers, r, q) /\ With(c.producers, r, q)[r] = q
         /\ r \in DOMAIN c.producers => [c.producers EXCEPT ![r] = q] = With(c.producers, r, q)
  <1>1. PICK l \in PartialMap(Producers, ProducerRecords) : l = c.producers
    <2>1. c.producers \in PartialMap(Producers, ProducerRecords)
      BY DEF ContextRecords
    <2> QED
      BY <2>1, Zenon
  <1>2. /\ With(l, r, q) \in PartialMap(Producers, ProducerRecords) /\ DOMAIN With(l, r, q) = DOMAIN l \cup {r}
        /\ With(l, r, q)[r] = q /\ \A x \in DOMAIN l : x # r => With(l, r, q)[x] = l[x]
    <2>1. DOMAIN l \subseteq Producers /\ l \in [DOMAIN l -> ProducerRecords]
      BY IsPartialFunction, Zenon
    <2>2. With(l, r, q) \in [DOMAIN l \cup {r} -> ProducerRecords]
      BY <2>1 DEF With
    <2>3. DOMAIN l \cup {r} \in SUBSET Producers
      BY <2>1
    <2>4. With(l, r, q) \in PartialMap(Producers, ProducerRecords)
      BY <2>2, <2>3, Zenon DEF PartialMap
    <2> QED
      BY <2>1, <2>2, <2>4 DEF With
  <1>3. RecallsProducers(l, With(l, r, q))
    <2> SUFFICES ASSUME NEW x \in DOMAIN l
                 PROVE  x \in DOMAIN With(l, r, q) /\ RecallsProducer(l[x], With(l, r, q)[x])
      BY DEF RecallsProducers
    <2>1. CASE x = r
      BY <1>1, <1>2, <2>1, Zenon
    <2>2. CASE x # r
      BY <1>2, <2>2, Zenon DEF RecallsProducer
    <2> QED
      BY <2>1, <2>2
  <1>4. ASSUME r \in DOMAIN l
        PROVE  [l EXCEPT ![r] = q] = With(l, r, q)
    <2>1. DOMAIN l \cup {r} = DOMAIN l
      BY <1>4
    <2>2. l \in [DOMAIN l -> ProducerRecords]
      BY IsPartialFunction, Zenon
    <2> QED
      BY <1>4, <2>1, <2>2 DEF With
  <1>5. r \in DOMAIN With(l, r, q)
    BY <1>2
  <1> QED
    BY <1>1, <1>2, <1>3, <1>4, <1>5, Zenon

\* Index f with q for the record of producer r of session s.
ReplaceProducer(f, s, r, q) == [f EXCEPT ![s].producers[r] = q]

\* A record of a producer is replaced by one that recognises as much.
LEMMA ProducerReplaced ==
  ASSUME NEW f \in Indexes, NEW s \in DOMAIN f, NEW r \in DOMAIN f[s].producers,
         NEW q \in ProducerRecords, RecallsProducer(f[s].producers[r], q)
  PROVE  /\ ReplaceProducer(f, s, r, q) \in Indexes /\ Recalls(f, ReplaceProducer(f, s, r, q))
         /\ s \in DOMAIN ReplaceProducer(f, s, r, q)
         /\ r \in DOMAIN ReplaceProducer(f, s, r, q)[s].producers
         /\ ReplaceProducer(f, s, r, q)[s].producers[r] = q
  <1>1. s \in TelemetrySessions /\ f[s] \in ContextRecords /\ r \in Producers
    BY IndexParts, Zenon
  <1>2. PICK l : l = With(f[s].producers, r, q)
    BY Zenon
  <1>3. /\ l \in PartialMap(Producers, ProducerRecords) /\ RecallsProducers(f[s].producers, l)
        /\ r \in DOMAIN l /\ l[r] = q /\ [f[s].producers EXCEPT ![r] = q] = l
    <2>1. PICK d \in ContextRecords : d = f[s]
      BY <1>1, Zenon
    <2>2. r \in DOMAIN d.producers => RecallsProducer(d.producers[r], q)
      BY <2>1, Zenon
    <2>3. /\ With(d.producers, r, q) \in PartialMap(Producers, ProducerRecords)
          /\ RecallsProducers(d.producers, With(d.producers, r, q))
          /\ r \in DOMAIN With(d.producers, r, q) /\ With(d.producers, r, q)[r] = q
          /\ r \in DOMAIN d.producers => [d.producers EXCEPT ![r] = q] = With(d.producers, r, q)
      BY <1>1, <2>2, ProducerPut, Zenon
    <2> QED
      BY <1>2, <2>1, <2>3, Zenon
  <1>4. PICK c : c = [f[s] EXCEPT !.producers = l]
    BY Zenon
  <1>5. c \in ContextRecords /\ c.producers = l
    BY <1>1, <1>3, <1>4 DEF ContextRecords
  <1>7. /\ With(f, s, c) \in Indexes /\ ReplacesContext(f, With(f, s, c), s, c)
        /\ [f EXCEPT ![s] = c] = With(f, s, c)
    BY <1>1, <1>5, ContextPut, Zenon
  <1>8. Recalls(f, With(f, s, c))
    BY <1>3, <1>5, <1>7, ContextReplaced, Zenon
  <1>9. s \in DOMAIN With(f, s, c) /\ With(f, s, c)[s] = c
    BY <1>7 DEF ReplacesContext
  <1>10. ReplaceProducer(f, s, r, q) = With(f, s, c)
    <2>1. [f EXCEPT ![s].producers[r] = q] = [f EXCEPT ![s] = [f[s] EXCEPT !.producers = [f[s].producers EXCEPT ![r] = q]]]
      OBVIOUS
    <2> QED
      BY <1>3, <1>4, <1>7, <2>1, Zenon DEF ReplaceProducer
  <1> QED
    BY <1>3, <1>5, <1>7, <1>8, <1>9, <1>10, Zenon

\* admit_producer(): a new producer knows nothing yet.
LEMMA AdmittedIndex ==
  ASSUME NEW f \in Indexes, NEW b \in Batches, b.session \in DOMAIN f
  PROVE  /\ admit_producer(f, b) \in Indexes /\ Recalls(f, admit_producer(f, b))
         /\ b.session \in DOMAIN admit_producer(f, b)
         /\ b.producer \in DOMAIN admit_producer(f, b)[b.session].producers
  <1> DEFINE s == b.session
             r == b.producer
             g == admit_producer(f, b)
  <1>1. s \in TelemetrySessions /\ f[s] \in ContextRecords /\ r \in Producers
    BY IndexParts DEF Batches
  <1>2. CASE r \in DOMAIN f[s].producers
    <2>1. g = f
      BY <1>2 DEF admit_producer
    <2>2. Recalls(f, f)
      BY Zenon DEF Recalls
    <2> QED
      BY <1>2, <2>1, <2>2, Zenon
  <1>3. CASE r \notin DOMAIN f[s].producers
    <2>1. f[s].generations + 1 \in Nat
      BY <1>1 DEF ContextRecords
    <2>2. PICK q \in ProducerRecords : q = NewProducer(f[s].generations + 1)
      <3>1. <<>> \in PartialMap(1 .. MaxSequence, Contents)
        BY NothingKnown, Zenon
      <3>2. NewProducer(f[s].generations + 1) \in ProducerRecords
        BY <2>1, <3>1 DEF NewProducer, ProducerRecords
      <3> QED
        BY <3>2, Zenon
    <2>3. PICK l : l = With(f[s].producers, r, q)
      BY Zenon
    <2>4. l \in PartialMap(Producers, ProducerRecords) /\ RecallsProducers(f[s].producers, l) /\ r \in DOMAIN l
      BY <1>1, <1>3, <2>3, ProducerPut, Zenon
    <2>5. PICK c : c = [f[s] EXCEPT !.generations = @ + 1, !.producers = l]
      BY Zenon
    <2>6. c \in ContextRecords /\ c.producers = l
      BY <1>1, <2>1, <2>4, <2>5 DEF ContextRecords
    <2>7. g = [f EXCEPT ![s] = c]
      BY <1>3, <2>2, <2>3, <2>5 DEF admit_producer
    <2>8. /\ With(f, s, c) \in Indexes /\ ReplacesContext(f, With(f, s, c), s, c)
          /\ [f EXCEPT ![s] = c] = With(f, s, c)
      BY <1>1, <2>6, ContextPut, Zenon
    <2>9. Recalls(f, With(f, s, c))
      BY <2>4, <2>6, <2>8, ContextReplaced, Zenon
    <2>10. s \in DOMAIN With(f, s, c) /\ With(f, s, c)[s] = c
      BY <2>8 DEF ReplacesContext
    <2> QED
      BY <2>4, <2>6, <2>7, <2>8, <2>9, <2>10, Zenon
  <1> QED
    BY <1>2, <1>3, Zenon

\* A sequence is added to those tracked.
LEMMA SequenceAdded ==
  ASSUME NEW f \in PartialMap(1 .. MaxSequence, Contents), NEW n \in 1 .. MaxSequence, NEW v \in Contents
  PROVE  /\ With(f, n, v) \in PartialMap(1 .. MaxSequence, Contents)
         /\ DOMAIN With(f, n, v) = DOMAIN f \cup {n}
  <1>1. DOMAIN f \subseteq 1 .. MaxSequence /\ f \in [DOMAIN f -> Contents]
    BY IsPartialFunction, Zenon
  <1>2. With(f, n, v) \in [DOMAIN f \cup {n} -> Contents]
    BY <1>1 DEF With
  <1>3. DOMAIN f \cup {n} \in SUBSET (1 .. MaxSequence)
    BY <1>1
  <1>4. With(f, n, v) \in PartialMap(1 .. MaxSequence, Contents)
    BY <1>2, <1>3, Zenon DEF PartialMap
  <1> QED
    BY <1>2, <1>4

\* track(): the batch is recognised from now on, and what was stays so.
LEMMA TrackedIndex ==
  ASSUME NEW f \in Indexes, NEW b \in Batches, b.session \in DOMAIN f,
         b.producer \in DOMAIN f[b.session].producers
  PROVE  track(f, b) \in Indexes /\ Recalls(f, track(f, b)) /\ Covers(track(f, b), Key(b))
  <1> DEFINE s == b.session
             r == b.producer
             n == b.sequence
  <1>1. r \in Producers /\ f[s].producers[r] \in ProducerRecords
    BY IndexParts, Zenon
  <1>2. PICK p \in ProducerRecords : p = f[s].producers[r]
    BY <1>1, Zenon
  <1>3. n \in 1 .. MaxSequence /\ b.content \in Contents
    BY DEF Batches
  <1>4. p.tracked \in PartialMap(1 .. MaxSequence, Contents) /\ p.current \in Nat
    BY DEF ProducerRecords
  <1>5. PICK t \in PartialMap(1 .. MaxSequence, Contents) :
           t = With(p.tracked, n, b.content) /\ DOMAIN t = DOMAIN p.tracked \cup {n}
    <2>1. /\ With(p.tracked, n, b.content) \in PartialMap(1 .. MaxSequence, Contents)
          /\ DOMAIN With(p.tracked, n, b.content) = DOMAIN p.tracked \cup {n}
      BY <1>3, <1>4, SequenceAdded
    <2> QED
      BY <2>1, Zenon
  <1>6. PICK m \in Nat : m = Greatest(p.current, n)
    BY <1>3, <1>4, TelemetryJournalAssumption DEF Greatest
  <1>7. PICK o : o = [p EXCEPT !.tracked = t, !.current = m]
    BY Zenon
  <1>8. o \in ProducerRecords /\ o.tracked = t /\ o.floor = p.floor
    BY <1>7 DEF ProducerRecords
  <1>9. PICK q \in ProducerRecords : q = evict_oldest(o)
    BY <1>8, EvictionRemembers, Zenon
  <1>10. \A x \in 1 .. MaxSequence : Known(o, x) => Known(q, x)
    BY <1>8, <1>9, EvictionRemembers, Zenon
  <1>11. \A x \in 1 .. MaxSequence : Known(p, x) => Known(o, x)
    BY <1>5, <1>8 DEF Known
  <1>12. RecallsProducer(p, q)
    BY <1>10, <1>11, Zenon DEF RecallsProducer
  <1>13. Known(o, n)
    BY <1>5, <1>8 DEF Known
  <1>14. Known(q, n)
    BY <1>3, <1>10, <1>13, Zenon
  <1>15. track(f, b) = ReplaceProducer(f, s, r, q)
    <2>1. q = remember(p, b)
      BY <1>5, <1>6, <1>7, <1>9 DEF remember
    <2> QED
      BY <1>2, <2>1, Zenon DEF track, ReplaceProducer
  <1>16. PICK g : g = ReplaceProducer(f, s, r, q)
    BY Zenon
  <1>17. /\ g \in Indexes /\ Recalls(f, g) /\ s \in DOMAIN g /\ r \in DOMAIN g[s].producers
         /\ g[s].producers[r] = q
    <2>1. PICK s0 \in DOMAIN f : s0 = s
      BY Zenon
    <2>2. PICK r0 \in DOMAIN f[s0].producers : r0 = r
      BY <2>1, Zenon
    <2>3. RecallsProducer(f[s0].producers[r0], q)
      BY <1>2, <1>12, <2>1, <2>2, Zenon
    <2>4. /\ ReplaceProducer(f, s0, r0, q) \in Indexes /\ Recalls(f, ReplaceProducer(f, s0, r0, q))
          /\ s0 \in DOMAIN ReplaceProducer(f, s0, r0, q)
          /\ r0 \in DOMAIN ReplaceProducer(f, s0, r0, q)[s0].producers
          /\ ReplaceProducer(f, s0, r0, q)[s0].producers[r0] = q
      BY <2>3, ProducerReplaced
    <2> QED
      BY <1>16, <2>1, <2>2, <2>4, Zenon
  <1>18. Key(b)[1] = s /\ Key(b)[2] = r /\ Key(b)[3] = n
    BY DEF Key
  <1>19. Covers(g, Key(b))
    BY <1>14, <1>17, <1>18, Zenon DEF Covers
  <1> QED
    BY <1>15, <1>16, <1>17, <1>19, Zenon

\* A conflict is noted; what was recognised stays so.
LEMMA ConflictNoted ==
  ASSUME NEW f \in Indexes, NEW b \in Batches, b.session \in DOMAIN f,
         b.producer \in DOMAIN f[b.session].producers
  PROVE  note_conflict(f, b) \in Indexes /\ Recalls(f, note_conflict(f, b))
  <1> DEFINE s == b.session
             r == b.producer
  <1>1. r \in Producers /\ f[s].producers[r] \in ProducerRecords
    BY IndexParts, Zenon
  <1>2. PICK p \in ProducerRecords : p = f[s].producers[r]
    BY <1>1, Zenon
  <1>3. b.sequence \in 1 .. MaxSequence
    BY DEF Batches
  <1>4. PICK q : q = [p EXCEPT !.conflicts = @ \cup {b.sequence}]
    BY Zenon
  <1>5. q \in ProducerRecords /\ q.tracked = p.tracked /\ q.floor = p.floor
    BY <1>3, <1>4 DEF ProducerRecords
  <1>6. RecallsProducer(p, q)
    BY <1>5 DEF RecallsProducer, Known
  <1>7. note_conflict(f, b) = ReplaceProducer(f, s, r, q)
    BY <1>2, <1>4 DEF note_conflict, ReplaceProducer
  <1> QED
    <2>1. PICK s0 \in DOMAIN f : s0 = s
      BY Zenon
    <2>2. PICK r0 \in DOMAIN f[s0].producers : r0 = r
      BY <2>1, Zenon
    <2>3. RecallsProducer(f[s0].producers[r0], q) /\ q \in ProducerRecords
      BY <1>2, <1>5, <1>6, <2>1, <2>2, Zenon
    <2>4. ReplaceProducer(f, s0, r0, q) \in Indexes /\ Recalls(f, ReplaceProducer(f, s0, r0, q))
      BY <2>3, ProducerReplaced
    <2> QED
      BY <1>7, <2>1, <2>2, <2>4, Zenon

\* record_batch(): what is to be stored is not recognised by the index.
LEMMA AcceptedIsNew ==
  ASSUME NEW f \in Indexes, NEW b \in Batches, Verdict(f, b) = "accepted"
  PROVE  b.session \in DOMAIN f /\ ~Covers(f, Key(b))
  <1> DEFINE c == f[b.session]
             p == c.producers[b.producer]
  <1>1. b.session \in DOMAIN f
    BY DEF Verdict, is_context_active
  <1>2. ASSUME b.producer \in DOMAIN c.producers
        PROVE  b.sequence \notin DOMAIN p.tracked /\ ~(b.sequence <= p.floor)
    BY <1>2 DEF Verdict
  <1>3. Key(b)[1] = b.session /\ Key(b)[2] = b.producer /\ Key(b)[3] = b.sequence
    BY DEF Key
  <1> QED
    BY <1>1, <1>2, <1>3, Zenon DEF Covers, Known

\* A conflict that is new is with a batch of the index.
LEMMA ConflictIsKnown ==
  ASSUME NEW f \in Indexes, NEW b \in Batches, Verdict(f, b) = "new conflict"
  PROVE  b.session \in DOMAIN f /\ b.producer \in DOMAIN f[b.session].producers
  <1>1. b.session \in DOMAIN f
    BY DEF Verdict, is_context_active
  <1>2. ASSUME b.producer \notin DOMAIN f[b.session].producers
        PROVE  FALSE
    <2>1. DOMAIN NewProducer(f[b.session].generations + 1).tracked = {}
      BY NothingKnown DEF NewProducer
    <2>2. b.sequence \in DOMAIN NewProducer(f[b.session].generations + 1).tracked
      BY <1>2 DEF Verdict
    <2> QED
      BY <2>1, <2>2
  <1> QED
    BY <1>1, <1>2, Zenon

\* A step that accepts nothing and loses nothing of the index.
LEMMA NothingAccepted ==
  ASSUME TelemetryIInv, TelemetryTypeOK', UNCHANGED <<accepted, index_losses>>,
         Recalls(TheIndex, TheIndex')
  PROVE  TelemetryIInv'
  <1>1. ASSUME NEW k \in DOMAIN accepted
        PROVE  OnceAndKnown(TheIndex', accepted[k], k)
    <2>1. OnceAndKnown(TheIndex, accepted[k], k)
      BY Zenon DEF TelemetryIInv, AcceptedKnown
    <2>2. k \in BatchKeys
      BY DEF TelemetryIInv, TelemetryTypeOK
    <2> QED
      BY <2>1, <2>2, Zenon DEF Recalls, OnceAndKnown
  <1>2. accepted' = accepted /\ index_losses' = index_losses
    OBVIOUS
  <1> QED
    BY <1>1, <1>2, Zenon DEF TelemetryIInv, AcceptedKnown, OnceAndKnown

\* The metadata file is replaced by an index, or stays.
LEMMA PersistedIndex ==
  ASSUME NEW f \in Indexes, NEW a, tele_metadata.contexts \in Indexes, PersistOrFail(f, a)
  PROVE  tele_metadata'.contexts \in Indexes
  <1>1. CASE persist_metadata(f, a)
    BY <1>1 DEF persist_metadata
  <1>2. CASE UNCHANGED tele_metadata
    BY <1>2, Zenon
  <1> QED
    BY <1>1, <1>2 DEF PersistOrFail

\* authorize_context(): a context is opened again, or a new one is empty.
LEMMA AuthorizedOnce ==
  ASSUME TelemetryIInv, NEW s \in TelemetrySessions, authorize_context(s)
  PROVE  TelemetryIInv'
  <1>1. /\ tele_open /\ tele_open' = tele_open /\ tele_queue' = tele_queue
        /\ UNCHANGED <<accepted, index_losses>>
    BY DEF authorize_context
  <1>2. tele_contexts \in Indexes /\ tele_metadata.contexts \in Indexes
    BY DEF TelemetryIInv, TelemetryTypeOK
  <1>3. /\ tele_contexts' \in Indexes /\ tele_metadata'.contexts \in Indexes
        /\ Recalls(tele_contexts, tele_contexts')
    <2>1. CASE UNCHANGED <<tele_contexts, tele_metadata, tele_faults>>
      <3>1. tele_contexts' = tele_contexts /\ tele_metadata' = tele_metadata
        BY <2>1
      <3> QED
        BY <1>2, <3>1, Zenon DEF Recalls
    <2> DEFINE c == IF s \in DOMAIN tele_contexts
                    THEN [tele_contexts[s] EXCEPT !.stopped = FALSE, !.overdue = FALSE]
                    ELSE NewContext
    <2>2. CASE /\ tele_contexts' = With(tele_contexts, s, c)
               /\ PersistOrFail(tele_contexts', active_segment)
      <3>1. c \in ContextRecords /\ (s \in DOMAIN tele_contexts => c.producers = tele_contexts[s].producers)
        <4>1. CASE s \in DOMAIN tele_contexts
          <5>1. tele_contexts[s] \in ContextRecords
            BY <1>2, <4>1, IndexParts, Zenon
          <5> QED
            BY <4>1, <5>1 DEF ContextRecords
        <4>2. CASE s \notin DOMAIN tele_contexts
          <5>1. <<>> \in PartialMap(Producers, ProducerRecords)
            BY NothingKnown, Zenon
          <5> QED
            BY <4>2, <5>1 DEF ContextRecords, NewContext
        <4> QED
          BY <4>1, <4>2
      <3> HIDE DEF c
      <3>2. With(tele_contexts, s, c) \in Indexes /\ ReplacesContext(tele_contexts, With(tele_contexts, s, c), s, c)
        BY <1>2, <3>1, ContextPut, Zenon
      <3>3. s \in DOMAIN tele_contexts => RecallsProducers(tele_contexts[s].producers, c.producers)
        BY <3>1, RecallsItself, Zenon
      <3>4. Recalls(tele_contexts, With(tele_contexts, s, c))
        BY <1>2, <3>2, <3>3, ContextReplaced, Zenon
      <3>5. tele_metadata'.contexts \in Indexes
        BY <1>2, <2>2, <3>2, PersistedIndex, Zenon
      <3> QED
        BY <2>2, <3>2, <3>4, <3>5, Zenon
    <2> QED
      BY <2>1, <2>2 DEF authorize_context
  <1>4. TelemetryTypeOK'
    BY <1>1, <1>3, Zenon DEF TelemetryTypeOK, TelemetryIInv
  <1>5. Recalls(TheIndex, TheIndex')
    BY <1>1, <1>3, Zenon DEF TheIndex
  <1> QED
    BY <1>1, <1>4, <1>5, NothingAccepted, Zenon

\* stop_authorization(): the context goes, and with it what was accepted for it.
LEMMA StoppedOnce ==
  ASSUME TelemetryIInv, stop_authorization
  PROVE  TelemetryIInv'
  <1>1. tele_open /\ tele_open' = tele_open /\ tele_queue' = tele_queue /\ index_losses' = index_losses
    BY DEF stop_authorization
  <1>2. tele_contexts \in Indexes /\ tele_metadata.contexts \in Indexes /\ DOMAIN accepted \subseteq BatchKeys
    BY DEF TelemetryIInv, TelemetryTypeOK
  <1>3. PICK S \in SUBSET DOMAIN tele_contexts : S = DOMAIN tele_contexts \ {exam_context}
    OBVIOUS
  <1>4. /\ Restrict(tele_contexts, S) \in Indexes /\ DOMAIN Restrict(tele_contexts, S) = S
        /\ \A x \in S : Restrict(tele_contexts, S)[x] = tele_contexts[x]
    BY <1>2, Restricted DEF Indexes
  <1>5. tele_contexts' = Restrict(tele_contexts, S)
    BY <1>3, Zenon DEF stop_authorization, Without
  <1>6. tele_metadata'.contexts \in Indexes
    <2>1. PersistOrFail(tele_contexts', active_segment)
      BY DEF stop_authorization
    <2>2. PICK f \in Indexes : f = tele_contexts'
      BY <1>4, <1>5, Zenon
    <2>3. PersistOrFail(f, active_segment)
      BY <2>1, <2>2, Zenon
    <2> QED
      BY <1>2, <2>3, PersistedIndex, Zenon
  <1>7. /\ DOMAIN accepted' = {k \in DOMAIN accepted : k[1] # exam_context}
        /\ \A k \in DOMAIN accepted' : accepted'[k] = accepted[k]
    BY DEF stop_authorization, Restrict
  <1>8. TelemetryTypeOK'
    <2>1. DOMAIN accepted' \subseteq BatchKeys
      BY <1>2, <1>7
    <2>2. \A k \in DOMAIN accepted' : accepted'[k] \in Nat
      BY <1>7 DEF TelemetryTypeOK, TelemetryIInv
    <2> QED
      BY <1>1, <1>4, <1>5, <1>6, <2>1, <2>2, Zenon DEF TelemetryTypeOK, TelemetryIInv
  <1>9. ASSUME NEW k \in DOMAIN accepted'
        PROVE  OnceAndKnown(tele_contexts', accepted'[k], k)
    <2>1. k \in DOMAIN accepted /\ k[1] # exam_context /\ accepted'[k] = accepted[k]
      BY <1>7
    <2>2. OnceAndKnown(tele_contexts, accepted[k], k)
      BY <1>1, <1>9, <2>1, Zenon DEF TelemetryIInv, AcceptedKnown, TheIndex
    <2>3. ASSUME Covers(tele_contexts, k)
          PROVE  Covers(tele_contexts', k)
      <3>1. k[1] \in S
        BY <1>3, <2>1, <2>3 DEF Covers
      <3>2. k[1] \in DOMAIN tele_contexts' /\ tele_contexts'[k[1]] = tele_contexts[k[1]]
        BY <1>4, <1>5, <3>1, Zenon
      <3> QED
        BY <2>3, <3>2, Zenon DEF Covers
    <2> QED
      BY <2>1, <2>2, <2>3, Zenon DEF OnceAndKnown
  <1>10. TheIndex' = tele_contexts'
    BY <1>1, Zenon DEF TheIndex
  <1> QED
    BY <1>1, <1>8, <1>9, <1>10, Zenon DEF TelemetryIInv, AcceptedKnown, OnceAndKnown

\* A batch is queued, or answered without being recorded.
LEMMA QueuedOnce ==
  ASSUME TelemetryIInv, NEW b \in Batches, process_exam_telemetry_batch(b)
  PROVE  TelemetryIInv'
  <1>1. UNCHANGED <<tele_contexts, tele_metadata, tele_open, accepted, index_losses>>
    BY DEF process_exam_telemetry_batch
  <1>2. tele_queue' = Append(tele_queue, b) \/ tele_queue' = tele_queue
    BY DEF process_exam_telemetry_batch
  <1>3. tele_queue' \in Seq(Batches)
    BY <1>2 DEF TelemetryIInv, TelemetryTypeOK
  <1>4. TelemetryTypeOK'
    BY <1>1, <1>3 DEF TelemetryTypeOK, TelemetryIInv
  <1>5. Recalls(TheIndex, TheIndex')
    BY <1>1 DEF TheIndex, Recalls
  <1> QED
    BY <1>1, <1>4, <1>5, NothingAccepted

\* The head of the queue is a batch, and the rest is a queue.
LEMMA QueueHead ==
  ASSUME TelemetryIInv, tele_queue # <<>>, Answered
  PROVE  Head(tele_queue) \in Batches /\ tele_queue' \in Seq(Batches)
  <1>1. tele_queue \in Seq(Batches)
    BY DEF TelemetryIInv, TelemetryTypeOK
  <1> QED
    BY <1>1 DEF Answered

\* A batch that is answered without being stored.
LEMMA AnsweredOnce ==
  ASSUME TelemetryIInv, record_batch_answered
  PROVE  TelemetryIInv'
  <1>1. tele_open /\ tele_open' = tele_open /\ UNCHANGED <<accepted, index_losses>>
    BY DEF record_batch_answered
  <1>2. Head(tele_queue) \in Batches /\ tele_queue' \in Seq(Batches)
    BY QueueHead DEF record_batch_answered
  <1>3. PICK b \in Batches : b = Head(tele_queue)
    BY <1>2, Zenon
  <1>4. tele_contexts \in Indexes /\ tele_metadata.contexts \in Indexes
    BY DEF TelemetryIInv, TelemetryTypeOK
  <1>5. /\ tele_contexts' \in Indexes /\ tele_metadata'.contexts \in Indexes
        /\ Recalls(tele_contexts, tele_contexts')
    <2>1. CASE UNCHANGED <<tele_contexts, tele_metadata, tele_faults>>
      <3>1. tele_contexts' = tele_contexts /\ tele_metadata' = tele_metadata
        BY <2>1
      <3> QED
        BY <1>4, <3>1, Zenon DEF Recalls
    <2>2. CASE /\ Verdict(tele_contexts, b) = "new conflict"
               /\ tele_contexts' = note_conflict(tele_contexts, b)
               /\ PersistOrFail(tele_contexts', active_segment)
      <3>1. b.session \in DOMAIN tele_contexts /\ b.producer \in DOMAIN tele_contexts[b.session].producers
        BY <1>4, <2>2, ConflictIsKnown, Zenon
      <3>2. tele_contexts' \in Indexes /\ Recalls(tele_contexts, tele_contexts')
        BY <1>4, <2>2, <3>1, ConflictNoted, Zenon
      <3>3. tele_metadata'.contexts \in Indexes
        <4>1. PICK f \in Indexes : f = tele_contexts'
          BY <3>2, Zenon
        <4>2. PersistOrFail(f, active_segment)
          BY <2>2, <4>1, Zenon
        <4> QED
          BY <1>4, <4>2, PersistedIndex, Zenon
      <3> QED
        BY <3>2, <3>3
    <2>3. \/ UNCHANGED <<tele_contexts, tele_metadata, tele_faults>>
          \/ /\ Verdict(tele_contexts, b) = "new conflict"
             /\ tele_contexts' = note_conflict(tele_contexts, b)
             /\ PersistOrFail(tele_contexts', active_segment)
      BY <1>3, Zenon DEF record_batch_answered
    <2> QED
      BY <2>1, <2>2, <2>3, Zenon
  <1>6. TelemetryTypeOK'
    BY <1>1, <1>2, <1>5, Zenon DEF TelemetryTypeOK, TelemetryIInv
  <1>7. Recalls(TheIndex, TheIndex')
    BY <1>1, <1>5, Zenon DEF TheIndex
  <1> QED
    BY <1>1, <1>6, <1>7, NothingAccepted, Zenon

\* record_batch(): the batch is stored, and was not accepted before.
LEMMA RecordedOnce ==
  ASSUME TelemetryIInv, record_batch
  PROVE  TelemetryIInv'
  <1>1. tele_open /\ tele_open' = tele_open /\ index_losses' = index_losses
    BY DEF record_batch
  <1>2. Head(tele_queue) \in Batches /\ tele_queue' \in Seq(Batches)
    BY QueueHead DEF record_batch
  <1>3. PICK b \in Batches : b = Head(tele_queue)
    BY <1>2, Zenon
  <1>4. /\ tele_contexts \in Indexes /\ tele_metadata.contexts \in Indexes
        /\ DOMAIN accepted \subseteq BatchKeys
    BY DEF TelemetryIInv, TelemetryTypeOK
  <1>5. /\ Verdict(tele_contexts, b) = "accepted"
        /\ tele_contexts' = track(admit_producer(tele_contexts, b), b)
        /\ PersistOrFail(tele_contexts', RotatedIndex)
        /\ accepted' = With(accepted, Key(b), IF Key(b) \in DOMAIN accepted THEN accepted[Key(b)] + 1 ELSE 1)
    BY <1>3, Zenon DEF record_batch
  <1>6. b.session \in DOMAIN tele_contexts /\ ~Covers(tele_contexts, Key(b))
    BY <1>4, <1>5, AcceptedIsNew, Zenon
  <1>7. PICK f : f = admit_producer(tele_contexts, b)
    BY Zenon
  <1>8. /\ f \in Indexes /\ Recalls(tele_contexts, f)
        /\ b.session \in DOMAIN f /\ b.producer \in DOMAIN f[b.session].producers
    BY <1>4, <1>6, <1>7, AdmittedIndex, Zenon
  <1>9. tele_contexts' \in Indexes /\ Recalls(f, tele_contexts') /\ Covers(tele_contexts', Key(b))
    BY <1>5, <1>7, <1>8, TrackedIndex, Zenon
  <1>10. Recalls(tele_contexts, tele_contexts')
    BY <1>8, <1>9, Zenon DEF Recalls
  <1>11. tele_metadata'.contexts \in Indexes
    <2>1. PICK g \in Indexes : g = tele_contexts'
      BY <1>9, Zenon
    <2>2. PersistOrFail(g, RotatedIndex)
      BY <1>5, <2>1, Zenon
    <2> QED
      BY <1>4, <2>2, PersistedIndex, Zenon
  <1>12. Key(b) \in BatchKeys
    BY DEF Key, BatchKeys, Batches
  <1>13. PICK key \in BatchKeys : key = Key(b)
    BY <1>12, Zenon
  <1>14. /\ DOMAIN accepted' = DOMAIN accepted \cup {key}
         /\ \A k \in DOMAIN accepted : k # key => accepted'[k] = accepted[k]
         /\ accepted'[key] = IF key \in DOMAIN accepted THEN accepted[key] + 1 ELSE 1
    BY <1>5, <1>13 DEF With
  <1>15. TelemetryTypeOK'
    <2>1. DOMAIN accepted' \subseteq BatchKeys
      BY <1>4, <1>14
    <2>2. \A k \in DOMAIN accepted : accepted[k] \in Nat
      BY DEF TelemetryTypeOK, TelemetryIInv
    <2>3. \A k \in DOMAIN accepted' : accepted'[k] \in Nat
      BY <1>14, <2>2
    <2> QED
      BY <1>1, <1>2, <1>9, <1>11, <2>1, <2>3, Zenon DEF TelemetryTypeOK, TelemetryIInv
  <1>16. ASSUME NEW k \in DOMAIN accepted'
         PROVE  OnceAndKnown(tele_contexts', accepted'[k], k)
    <2>1. \A x \in DOMAIN accepted : OnceAndKnown(tele_contexts, accepted[x], x)
      BY <1>1, Zenon DEF TelemetryIInv, AcceptedKnown, TheIndex
    <2>2. CASE k = key
      <3>1. key \in DOMAIN accepted => accepted[key] <= index_losses
        BY <1>6, <1>13, <2>1, Zenon DEF OnceAndKnown
      <3>2. /\ index_losses \in Nat
            /\ key \in DOMAIN accepted => accepted[key] \in Nat
        BY DEF TelemetryTypeOK, TelemetryIInv
      <3>3. accepted'[key] <= index_losses \/ accepted'[key] = 1 + index_losses
        BY <1>14, <3>1, <3>2
      <3>4. Covers(tele_contexts', key)
        BY <1>9, <1>13, Zenon
      <3> QED
        BY <2>2, <3>3, <3>4, Zenon DEF OnceAndKnown
    <2>3. CASE k # key
      <3>1. k \in DOMAIN accepted /\ k \in BatchKeys
        BY <1>4, <1>14, <2>3
      <3> QED
        BY <1>10, <1>14, <2>1, <2>3, <3>1, Zenon DEF Recalls, OnceAndKnown
    <2> QED
      BY <2>2, <2>3
  <1>17. TheIndex' = tele_contexts'
    BY <1>1, Zenon DEF TheIndex
  <1> QED
    BY <1>1, <1>15, <1>16, <1>17, Zenon DEF TelemetryIInv, AcceptedKnown, OnceAndKnown

\* The segment cannot be written: the producer is admitted, nothing is accepted.
LEMMA FailedOnce ==
  ASSUME TelemetryIInv, record_batch_failed
  PROVE  TelemetryIInv'
  <1>1. tele_open /\ tele_open' = tele_open /\ tele_metadata' = tele_metadata /\ UNCHANGED <<accepted, index_losses>>
    BY DEF record_batch_failed
  <1>2. Head(tele_queue) \in Batches /\ tele_queue' \in Seq(Batches)
    BY QueueHead DEF record_batch_failed
  <1>3. PICK b \in Batches : b = Head(tele_queue)
    BY <1>2, Zenon
  <1>4. tele_contexts \in Indexes /\ tele_metadata.contexts \in Indexes
    BY DEF TelemetryIInv, TelemetryTypeOK
  <1>5. Verdict(tele_contexts, b) = "accepted" /\ tele_contexts' = admit_producer(tele_contexts, b)
    BY <1>3, Zenon DEF record_batch_failed
  <1>6. b.session \in DOMAIN tele_contexts
    BY <1>4, <1>5, AcceptedIsNew, Zenon
  <1>7. tele_contexts' \in Indexes /\ Recalls(tele_contexts, tele_contexts')
    BY <1>4, <1>5, <1>6, AdmittedIndex, Zenon
  <1>8. TelemetryTypeOK'
    BY <1>1, <1>2, <1>7, Zenon DEF TelemetryTypeOK, TelemetryIInv
  <1>9. Recalls(TheIndex, TheIndex')
    BY <1>1, <1>7, Zenon DEF TheIndex
  <1> QED
    BY <1>1, <1>8, <1>9, NothingAccepted, Zenon

\* A context outlives its longest time; its index stays, also while the server is down.
LEMMA OverdueOnce ==
  ASSUME TelemetryIInv, context_overdue
  PROVE  TelemetryIInv'
  <1>1. tele_metadata' = tele_metadata /\ tele_open' = tele_open /\ tele_queue' = tele_queue
        /\ UNCHANGED <<accepted, index_losses>>
    BY DEF context_overdue
  <1>2. PICK s \in DOMAIN tele_contexts : tele_contexts' = [tele_contexts EXCEPT ![s].overdue = TRUE]
    BY Zenon DEF context_overdue
  <1>3. tele_contexts \in Indexes /\ tele_metadata.contexts \in Indexes
    BY DEF TelemetryIInv, TelemetryTypeOK
  <1>4. s \in TelemetrySessions /\ tele_contexts[s] \in ContextRecords
    BY <1>3, IndexParts, Zenon
  <1>5. PICK c : c = [tele_contexts[s] EXCEPT !.overdue = TRUE]
    BY Zenon
  <1>6. c \in ContextRecords /\ c.producers = tele_contexts[s].producers
    BY <1>4, <1>5 DEF ContextRecords
  <1>7. tele_contexts' = [tele_contexts EXCEPT ![s] = c]
    BY <1>2, <1>5
  <1>8. /\ With(tele_contexts, s, c) \in Indexes /\ ReplacesContext(tele_contexts, With(tele_contexts, s, c), s, c)
        /\ [tele_contexts EXCEPT ![s] = c] = With(tele_contexts, s, c)
    BY <1>3, <1>4, <1>6, ContextPut, Zenon
  <1>9. RecallsProducers(tele_contexts[s].producers, c.producers)
    BY <1>6, RecallsItself, Zenon
  <1>10. tele_contexts' \in Indexes /\ Recalls(tele_contexts, tele_contexts')
    BY <1>3, <1>7, <1>8, <1>9, ContextReplaced, Zenon
  <1>11. TelemetryTypeOK'
    BY <1>1, <1>3, <1>10, Zenon DEF TelemetryTypeOK, TelemetryIInv
  <1>12. Recalls(TheIndex, TheIndex')
    <2>1. Recalls(tele_metadata.contexts, tele_metadata.contexts)
      BY Zenon DEF Recalls
    <2>2. CASE tele_open
      BY <1>1, <1>10, <2>2, Zenon DEF TheIndex
    <2>3. CASE ~tele_open
      BY <1>1, <2>1, <2>3, Zenon DEF TheIndex
    <2> QED
      BY <2>2, <2>3
  <1> QED
    BY <1>1, <1>11, <1>12, NothingAccepted, Zenon

\* Once an index is lost, every batch may be accepted once more.
LEMMA LostForgives ==
  ASSUME TelemetryIInv, index_losses' = index_losses + 1, accepted' = accepted
  PROVE  AcceptedKnown'
  <1>1. index_losses \in Nat /\ \A k \in DOMAIN accepted : accepted[k] \in Nat
    BY DEF TelemetryIInv, TelemetryTypeOK
  <1>2. \A k \in DOMAIN accepted : accepted[k] <= index_losses \/ accepted[k] = 1 + index_losses
    BY Zenon DEF TelemetryIInv, AcceptedKnown, OnceAndKnown
  <1>3. \A k \in DOMAIN accepted' : accepted'[k] <= index_losses'
    BY <1>1, <1>2
  <1> QED
    BY <1>3, Zenon DEF AcceptedKnown, OnceAndKnown

\* The server ends: the index is on disk, or it counts as lost.
LEMMA ClosedOnce ==
  ASSUME TelemetryIInv, journal_closed
  PROVE  TelemetryIInv'
  <1>1. /\ tele_open /\ tele_open' = FALSE /\ tele_contexts' = <<>> /\ tele_queue' = <<>>
        /\ accepted' = accepted
    BY DEF journal_closed
  <1>2. /\ tele_contexts \in Indexes /\ tele_metadata.contexts \in Indexes /\ index_losses \in Nat
        /\ DOMAIN accepted \subseteq BatchKeys /\ \A k \in DOMAIN accepted : accepted[k] \in Nat
    BY DEF TelemetryIInv, TelemetryTypeOK
  <1>3. /\ tele_metadata'.contexts \in Indexes
        /\ \/ index_losses' = index_losses /\ tele_metadata'.contexts = tele_contexts
           \/ index_losses' = index_losses + 1
    <2>1. CASE persist_metadata(tele_contexts, active_segment) /\ UNCHANGED index_losses
      <3>1. tele_metadata'.contexts = tele_contexts
        BY <2>1 DEF persist_metadata
      <3> QED
        BY <1>2, <2>1, <3>1, Zenon
    <2>2. CASE UNCHANGED tele_metadata /\ LoseIndex(tele_contexts, tele_metadata.contexts)
      BY <1>2, <2>2, Zenon DEF LoseIndex
    <2> QED
      BY <2>1, <2>2 DEF journal_closed
  <1>4. TelemetryTypeOK'
    <2>1. tele_contexts' \in Indexes
      BY <1>1, NothingKnown, Zenon DEF Indexes
    <2>2. tele_queue' \in Seq(Batches) /\ tele_open' \in BOOLEAN
      <3>1. <<>> \in Seq(Batches)
        OBVIOUS
      <3> QED
        BY <1>1, <3>1, Zenon
    <2>3. index_losses' \in Nat
      BY <1>2, <1>3
    <2> QED
      BY <1>1, <1>2, <1>3, <2>1, <2>2, <2>3, Zenon DEF TelemetryTypeOK
  <1>5. CASE index_losses' = index_losses /\ tele_metadata'.contexts = tele_contexts
    <2>1. TheIndex' = TheIndex
      BY <1>1, <1>5, Zenon DEF TheIndex
    <2> QED
      BY <1>1, <1>4, <1>5, <2>1, Zenon DEF TelemetryIInv, AcceptedKnown, OnceAndKnown
  <1>6. CASE index_losses' = index_losses + 1
    BY <1>1, <1>4, <1>6, LostForgives DEF TelemetryIInv
  <1> QED
    BY <1>3, <1>5, <1>6

\* open() prunes what the index tracks, never what it recognises.
LEMMA PrunedRecalls ==
  ASSUME NEW f \in Indexes, NEW old \in SUBSET (1 .. MaxSequence)
  PROVE  PruneContexts(f, old) \in Indexes /\ Recalls(f, PruneContexts(f, old))
  <1> DEFINE producers(s) == [p \in DOMAIN f[s].producers |-> prune_expired(f[s].producers[p], old)]
             g == PruneContexts(f, old)
  <1>1. ASSUME NEW s \in DOMAIN f
        PROVE  /\ s \in TelemetrySessions /\ g[s] \in ContextRecords /\ g[s].producers = producers(s)
               /\ RecallsProducers(f[s].producers, producers(s))
    <2>1. /\ s \in TelemetrySessions /\ f[s] \in ContextRecords
          /\ \A r \in DOMAIN f[s].producers : r \in Producers /\ f[s].producers[r] \in ProducerRecords
      BY IndexParts, Zenon
    <2>2. ASSUME NEW r \in DOMAIN f[s].producers
          PROVE  /\ prune_expired(f[s].producers[r], old) \in ProducerRecords
                 /\ RecallsProducer(f[s].producers[r], prune_expired(f[s].producers[r], old))
      BY <2>1, PruningRemembers, Zenon DEF RecallsProducer
    <2>3. producers(s) \in [DOMAIN f[s].producers -> ProducerRecords]
      BY <2>2
    <2>4. DOMAIN f[s].producers \in SUBSET Producers
      BY <2>1
    <2>5. producers(s) \in PartialMap(Producers, ProducerRecords)
      BY <2>3, <2>4, Zenon DEF PartialMap
    <2>6. \A r \in DOMAIN f[s].producers : producers(s)[r] = prune_expired(f[s].producers[r], old)
      OBVIOUS
    <2>7. RecallsProducers(f[s].producers, producers(s))
      <3>1. DOMAIN producers(s) = DOMAIN f[s].producers
        OBVIOUS
      <3> HIDE DEF producers
      <3> QED
        BY <2>2, <2>6, <3>1, Zenon DEF RecallsProducers
    <2>8. g[s] = [f[s] EXCEPT !.producers = producers(s)]
      BY Zenon DEF PruneContexts
    <2>9. g[s] \in ContextRecords /\ g[s].producers = producers(s)
      <3> HIDE DEF producers, g
      <3> QED
        BY <2>1, <2>5, <2>8 DEF ContextRecords
    <2> QED
      BY <2>1, <2>7, <2>9
  <1>2. DOMAIN g = DOMAIN f
    BY Zenon DEF PruneContexts
  <1>3. g \in [DOMAIN f -> ContextRecords]
    <2>1. g = [s \in DOMAIN f |-> g[s]]
      BY Zenon DEF PruneContexts
    <2> HIDE DEF g
    <2> QED
      BY <1>1, <2>1
  <1>4. DOMAIN f \in SUBSET TelemetrySessions
    BY <1>1
  <1>5. g \in Indexes
    <2> HIDE DEF g
    <2> QED
      BY <1>3, <1>4, Zenon DEF Indexes, PartialMap
  <1>6. Recalls(f, g)
    <2> HIDE DEF g, producers
    <2>1. \A s \in DOMAIN f : s \in DOMAIN g /\ RecallsProducers(f[s].producers, g[s].producers)
      BY <1>1, <1>2, Zenon
    <2> QED
      BY <2>1, RecallsByContext, Zenon
  <1> QED
    BY <1>5, <1>6

\* open(): the index that is read recognises what was accepted.
LEMMA OpenedOnce ==
  ASSUME TelemetryIInv, journal_opened
  PROVE  TelemetryIInv'
  <1>1. /\ ~tele_open /\ tele_open' = TRUE /\ tele_queue' = tele_queue
        /\ UNCHANGED <<accepted, index_losses>>
    BY DEF journal_opened
  <1>2. tele_metadata.contexts \in Indexes
    BY DEF TelemetryIInv, TelemetryTypeOK
  <1>3. PICK old \in SUBSET (1 .. MaxSequence) :
           tele_contexts' = PruneContexts(tele_metadata.contexts, old)
    BY Zenon DEF journal_opened
  <1>4. tele_contexts' \in Indexes /\ Recalls(tele_metadata.contexts, tele_contexts')
    BY <1>2, <1>3, PrunedRecalls, Zenon
  <1>5. tele_metadata'.contexts \in Indexes
    <2>1. PICK f \in Indexes : f = tele_contexts'
      BY <1>4, Zenon
    <2>2. tele_metadata' = tele_metadata \/ PersistOrFail(f, tele_metadata.active)
      BY <2>1 DEF journal_opened
    <2>3. CASE tele_metadata' = tele_metadata
      BY <1>2, <2>3
    <2>4. CASE PersistOrFail(f, tele_metadata.active)
      BY <1>2, <2>4, PersistedIndex, Zenon
    <2> QED
      BY <2>2, <2>3, <2>4
  <1>6. TelemetryTypeOK'
    BY <1>1, <1>4, <1>5, Zenon DEF TelemetryTypeOK, TelemetryIInv
  <1>7. Recalls(TheIndex, TheIndex')
    BY <1>1, <1>4, Zenon DEF TheIndex
  <1> QED
    BY <1>1, <1>6, <1>7, NothingAccepted, Zenon

\* open() without the file: an index that held anything is lost.
LEMMA UnreadOnce ==
  ASSUME TelemetryIInv, load_metadata_failed
  PROVE  TelemetryIInv'
  <1>1. /\ ~tele_open /\ tele_open' = TRUE /\ tele_queue' = tele_queue
        /\ tele_contexts' = <<>> /\ UNCHANGED <<accepted, tele_metadata>>
        /\ LoseIndex(tele_metadata.contexts, <<>>)
    BY DEF load_metadata_failed
  <1>2. tele_contexts' \in Indexes
    BY <1>1, NothingKnown, Zenon DEF Indexes
  <1>3. CASE tele_metadata.contexts = <<>>
    <2>1. index_losses' = index_losses
      BY <1>1, <1>3, Zenon DEF LoseIndex
    <2>2. TheIndex' = TheIndex
      BY <1>1, <1>3, Zenon DEF TheIndex
    <2>3. TelemetryTypeOK'
      BY <1>1, <1>2, <2>1, Zenon DEF TelemetryTypeOK, TelemetryIInv
    <2> QED
      BY <1>1, <2>1, <2>2, <2>3, Zenon DEF TelemetryIInv, AcceptedKnown, OnceAndKnown
  <1>4. CASE tele_metadata.contexts # <<>>
    <2>1. index_losses' = index_losses + 1
      BY <1>1, <1>4, Zenon DEF LoseIndex
    <2>2. index_losses' \in Nat
      BY <2>1 DEF TelemetryTypeOK, TelemetryIInv
    <2>3. TelemetryTypeOK'
      BY <1>1, <1>2, <2>2, Zenon DEF TelemetryTypeOK, TelemetryIInv
    <2> QED
      BY <1>1, <2>1, <2>3, LostForgives DEF TelemetryIInv
  <1> QED
    BY <1>3, <1>4

\* Every step keeps what was accepted recognised.
LEMMA TelemetryStep ==
  ASSUME TelemetryIInv, [TelemetryNext]_telemetryVars
  PROVE  TelemetryIInv'
  <1>1. CASE UNCHANGED telemetryVars
    BY <1>1 DEF telemetryVars, TelemetryIInv, TelemetryTypeOK, AcceptedKnown, TheIndex,
       OnceAndKnown
  <1>2. CASE \E s \in TelemetrySessions : authorize_context(s)
    BY <1>2, AuthorizedOnce
  <1>3. CASE \E b \in Batches : process_exam_telemetry_batch(b)
    BY <1>3, QueuedOnce
  <1> QED
    BY <1>1, <1>2, <1>3, StoppedOnce, AnsweredOnce, RecordedOnce, FailedOnce, OverdueOnce,
       ClosedOnce, OpenedOnce, UnreadOnce DEF TelemetryNext

\* However often a client repeats a batch, whatever hashes the index gives up and
\* whenever the server is restarted, a batch is accepted at most once more than an
\* index was lost: taken by a crash before it was on disk, or not read by open().
THEOREM BatchesAcceptedOnce == TelemetrySpec => []AcceptedOnce
  <1>1. TelemetryInit => TelemetryIInv
    <2> SUFFICES ASSUME TelemetryInit PROVE TelemetryIInv
      OBVIOUS
    <2>1. tele_contexts \in Indexes /\ tele_metadata.contexts \in Indexes
      <3>1. tele_contexts = <<>> /\ tele_metadata.contexts = <<>>
        BY DEF TelemetryInit
      <3> QED
        BY <3>1, NothingKnown, Zenon DEF Indexes
    <2>2. DOMAIN accepted = {} /\ tele_queue = <<>> /\ tele_open = TRUE /\ index_losses = 0
      BY DEF TelemetryInit
    <2>3. <<>> \in Seq(Batches) /\ {} \subseteq BatchKeys
      OBVIOUS
    <2>4. TelemetryTypeOK
      BY <2>1, <2>2, <2>3 DEF TelemetryTypeOK
    <2>5. AcceptedKnown
      BY <2>2 DEF AcceptedKnown
    <2> QED
      BY <2>4, <2>5 DEF TelemetryIInv
  <1>2. TelemetryIInv /\ [TelemetryNext]_telemetryVars => TelemetryIInv'
    BY TelemetryStep
  <1>3. TelemetryIInv => AcceptedOnce
    <2> SUFFICES ASSUME TelemetryIInv PROVE AcceptedOnce
      OBVIOUS
    <2>1. index_losses \in Nat /\ \A k \in DOMAIN accepted : accepted[k] \in Nat
      BY DEF TelemetryIInv, TelemetryTypeOK
    <2>2. \A k \in DOMAIN accepted :
             accepted[k] <= index_losses \/ accepted[k] = 1 + index_losses
      BY Zenon DEF TelemetryIInv, AcceptedKnown, OnceAndKnown
    <2> QED
      BY <2>1, <2>2 DEF AcceptedOnce
  <1> QED
    BY <1>1, <1>2, <1>3, PTL DEF TelemetrySpec

-----------------------------------------------------------------------------
(* Audit trail. *)
\* q holds the numbers from lo on.
Consecutive(q, lo) ==
    /\ q \in Seq(Nat \ {0})
    /\ \A k \in 1 .. Len(q) : q[k] = lo + k - 1

\* No acknowledgement can lose any of the first n records.
Settled(n) == \A s \in 1 .. n : s \in stored \cup dropped \cup unstored

\* c is a run of records in front of which everything is settled.
IsRun(c) == \E lo \in Nat \ {0} : Consecutive(c, lo) /\ Settled(lo - 1)

\* Type correctness of the spool, the two wires and the writer.
AuditTypeOK ==
    /\ next_sequence \in Nat \ {0}
    /\ audit_wire \in Seq(Seq(Nat \ {0}))
    /\ ack_wire \in Seq(Nat)
    /\ writing \in [on : BOOLEAN, chunk : Seq(Nat \ {0}), last : Nat]

\* The spool is the tail of what was emitted.
SpoolIsTail ==
    \E lo \in Nat \ {0} : /\ Consecutive(spool, lo) /\ Settled(lo - 1)
                          /\ next_sequence = lo + Len(spool)

\* Chunks on their way or being written are runs, an acknowledgement speaks of
\* settled records only.
WireSettled ==
    /\ \A i \in 1 .. Len(audit_wire) : audit_wire[i] # <<>> /\ IsRun(audit_wire[i])
    /\ \A i \in 1 .. Len(ack_wire) : Settled(ack_wire[i])
    /\ IsRun(writing.chunk)
    /\ Settled(writing.last)
    /\ writing.chunk # <<>> => Settled(writing.chunk[1] - 1)

\* The inductive invariant.
AuditIInv == AuditTypeOK /\ SpoolIsTail /\ WireSettled

\* What remains of a run behind its first n records is a run.
LEMMA ConsecutiveDrop ==
  ASSUME NEW q, NEW lo \in Nat \ {0}, Consecutive(q, lo), NEW n \in 0 .. Len(q)
  PROVE  LET r == SubSeq(q, n + 1, Len(q))
         IN  Consecutive(r, lo + n) /\ Len(r) = Len(q) - n
  <1> DEFINE r == SubSeq(q, n + 1, Len(q))
  <1>1. q \in Seq(Nat \ {0}) /\ Len(q) \in Nat /\ n \in Nat
    BY DEF Consecutive
  <1>2. /\ r \in Seq(Nat \ {0}) /\ Len(r) = Len(q) - n
        /\ \A k \in 1 .. Len(r) : r[k] = q[n + k]
    BY <1>1
  <1> HIDE DEF r
  <1>3. \A k \in 1 .. Len(r) : r[k] = (lo + n) + k - 1
    <2> SUFFICES ASSUME NEW k \in 1 .. Len(r) PROVE r[k] = (lo + n) + k - 1
      OBVIOUS
    <2>1. n + k \in 1 .. Len(q)
      BY <1>1, <1>2
    <2>2. q[n + k] = lo + (n + k) - 1
      BY <2>1 DEF Consecutive
    <2> QED
      BY <1>1, <1>2, <2>2
  <1>4. Consecutive(r, lo + n)
    BY <1>2, <1>3 DEF Consecutive
  <1> QED
    BY <1>2, <1>4 DEF r

\* The first n records of a run are a run.
LEMMA ConsecutiveTake ==
  ASSUME NEW q, NEW lo \in Nat \ {0}, Consecutive(q, lo), NEW n \in 0 .. Len(q)
  PROVE  LET r == SubSeq(q, 1, n)
         IN  Consecutive(r, lo) /\ Len(r) = n
  <1>1. q \in Seq(Nat \ {0}) /\ Len(q) \in Nat /\ n \in Nat
    BY DEF Consecutive
  <1>2. /\ SubSeq(q, 1, n) \in Seq(Nat \ {0}) /\ Len(SubSeq(q, 1, n)) = n
        /\ \A k \in 1 .. n : SubSeq(q, 1, n)[k] = q[k]
    BY <1>1
  <1> QED
    BY <1>1, <1>2 DEF Consecutive

\* A run extended by the next number is a run.
LEMMA ConsecutiveAppend ==
  ASSUME NEW q, NEW lo \in Nat \ {0}, Consecutive(q, lo)
  PROVE  LET r == Append(q, lo + Len(q))
         IN  Consecutive(r, lo) /\ Len(r) = Len(q) + 1
  <1> DEFINE x == lo + Len(q)
  <1>1. q \in Seq(Nat \ {0}) /\ Len(q) \in Nat /\ x \in Nat \ {0}
    BY DEF Consecutive
  <1> HIDE DEF x
  <1>2. /\ Append(q, x) \in Seq(Nat \ {0}) /\ Len(Append(q, x)) = Len(q) + 1
        /\ \A k \in 1 .. Len(q) : Append(q, x)[k] = q[k]
        /\ Append(q, x)[Len(q) + 1] = x
    BY <1>1
  <1>3. \A k \in 1 .. Len(q) + 1 : Append(q, x)[k] = lo + k - 1
    <2> SUFFICES ASSUME NEW k \in 1 .. Len(q) + 1 PROVE Append(q, x)[k] = lo + k - 1
      OBVIOUS
    <2>1. CASE k \in 1 .. Len(q)
      BY <1>2, <2>1 DEF Consecutive
    <2>2. CASE k = Len(q) + 1
      BY <1>1, <1>2, <2>2 DEF x
    <2> QED
      BY <1>1, <2>1, <2>2
  <1> QED
    BY <1>2, <1>3 DEF Consecutive, x

\* Every number of the range of a run occurs in it.
LEMMA ConsecutiveSet ==
  ASSUME NEW q, NEW lo \in Nat \ {0}, Consecutive(q, lo),
         NEW s \in lo .. lo + Len(q) - 1
  PROVE  s \in ToSet(q)
  <1>1. q \in Seq(Nat \ {0}) /\ Len(q) \in Nat
    BY DEF Consecutive
  <1>2. s - lo + 1 \in 1 .. Len(q)
    BY <1>1
  <1>3. q[s - lo + 1] = lo + (s - lo + 1) - 1
    BY <1>2 DEF Consecutive
  <1>4. q[s - lo + 1] = s
    BY <1>3
  <1> QED
    BY <1>1, <1>2, <1>4 DEF ToSet

\* The first and the last number of a run, and the run behind the first.
LEMMA ConsecutiveFirst ==
  ASSUME NEW q, NEW lo \in Nat \ {0}, Consecutive(q, lo), q # <<>>
  PROVE  /\ Head(q) = lo /\ q[1] = lo /\ Len(q) \in Nat \ {0}
         /\ Last(q) = lo + Len(q) - 1
         /\ Consecutive(Tail(q), lo + 1)
  <1>1. q \in Seq(Nat \ {0}) /\ Len(q) \in Nat \ {0}
    BY DEF Consecutive
  <1>2. q[1] = lo + 1 - 1 /\ q[Len(q)] = lo + Len(q) - 1
    BY <1>1 DEF Consecutive
  <1>3. q[1] = lo /\ Head(q) = q[1] /\ Last(q) = q[Len(q)]
    BY <1>1, <1>2 DEF Last
  <1>4. Tail(q) \in Seq(Nat \ {0}) /\ Len(Tail(q)) = Len(q) - 1
        /\ \A k \in 1 .. Len(q) - 1 : Tail(q)[k] = q[k + 1]
    BY <1>1
  <1>5. \A k \in 1 .. Len(q) - 1 : Tail(q)[k] = (lo + 1) + k - 1
    <2> SUFFICES ASSUME NEW k \in 1 .. Len(q) - 1 PROVE Tail(q)[k] = (lo + 1) + k - 1
      OBVIOUS
    <2>1. k + 1 \in 1 .. Len(q)
      BY <1>1
    <2>2. q[k + 1] = lo + (k + 1) - 1
      BY <2>1 DEF Consecutive
    <2> QED
      BY <1>4, <2>2
  <1> QED
    BY <1>1, <1>2, <1>3, <1>4, <1>5 DEF Consecutive

\* Records that are settled stay settled while the histories grow.
LEMMA SettledGrows ==
  ASSUME stored \cup dropped \cup unstored \subseteq stored' \cup dropped' \cup unstored'
  PROVE  /\ \A n : Settled(n) => Settled(n)'
         /\ \A c : IsRun(c) => IsRun(c)'
  BY DEF Settled, IsRun, Consecutive

\* An empty chunk is a run and acknowledges nothing.
LEMMA EmptyRun == IsRun(<<>>) /\ Settled(0)
  <1>1. Settled(0)
    BY DEF Settled
  <1>2. Consecutive(<<>>, 1)
    BY DEF Consecutive
  <1> QED
    BY <1>1, <1>2 DEF IsRun

\* What the loop of acknowledge() leaves: the records behind the last number.
LEMMA AcknowledgeKeeps ==
  ASSUME NEW lo \in Nat \ {0}, Consecutive(spool, lo), NEW last \in Nat
  PROVE  \E n \in 0 .. Len(spool) :
            /\ acknowledge(last) = SubSeq(spool, n + 1, Len(spool))
            /\ n # 0 => lo + n - 1 <= last
  <1> DEFINE P(n) == /\ \A k \in 1 .. n : spool[k] <= last
                     /\ n < Len(spool) => spool[n + 1] > last
             popped == CHOOSE n \in 0 .. Len(spool) : P(n)
  <1>1. Len(spool) \in Nat
    BY DEF Consecutive
  <1>2. \A k \in 1 .. Len(spool) : spool[k] = lo + k - 1
    BY DEF Consecutive
  <1>3. \E n \in 0 .. Len(spool) : P(n)
    <2>1. CASE last < lo
      <3>1. P(0)
        BY <1>1, <1>2, <2>1
      <3> QED
        BY <3>1, <1>1
    <2>2. CASE last >= lo + Len(spool)
      <3>1. P(Len(spool))
        BY <1>1, <1>2, <2>2
      <3> QED
        BY <3>1, <1>1
    <2>3. CASE last >= lo /\ last < lo + Len(spool)
      <3>1. last - lo + 1 \in 0 .. Len(spool)
        BY <1>1, <2>3
      <3>2. P(last - lo + 1)
        <4>1. \A k \in 1 .. last - lo + 1 : spool[k] <= last
          BY <1>1, <1>2, <2>3
        <4>2. last - lo + 1 < Len(spool) => spool[last - lo + 1 + 1] > last
          BY <1>1, <1>2, <2>3
        <4> QED
          BY <4>1, <4>2
      <3> QED
        BY <3>1, <3>2
    <2> QED
      BY <1>1, <2>1, <2>2, <2>3
  <1>4. popped \in 0 .. Len(spool) /\ P(popped)
    BY <1>3
  <1>5. acknowledge(last) = SubSeq(spool, popped + 1, Len(spool))
    BY DEF acknowledge
  <1> HIDE DEF popped
  <1>6. popped # 0 => lo + popped - 1 <= last
    BY <1>1, <1>2, <1>4
  <1> QED
    BY <1>4, <1>5, <1>6

\* Nothing has been emitted at the start.
LEMMA AuditInitInv == AuditInit => AuditIInv
  <1> SUFFICES ASSUME AuditInit PROVE AuditIInv
    OBVIOUS
  <1>1. NotWriting \in [on : BOOLEAN, chunk : Seq(Nat \ {0}), last : Nat]
        /\ NotWriting.chunk = <<>> /\ NotWriting.last = 0
    BY DEF NotWriting
  <1>2. AuditTypeOK
    BY <1>1 DEF AuditInit, AuditTypeOK
  <1>3. SpoolIsTail
    BY DEF AuditInit, SpoolIsTail, Settled, Consecutive
  <1>4. WireSettled
    BY <1>1, EmptyRun DEF AuditInit, WireSettled
  <1> QED
    BY <1>2, <1>3, <1>4 DEF AuditIInv

\* Every step of the spool, the upload, the writer and the acknowledgements
\* preserves the invariant.
LEMMA AuditStep == ASSUME AuditIInv, [AuditNext]_auditVars PROVE AuditIInv'
  <1>t. AuditTypeOK /\ SpoolIsTail /\ WireSettled
    BY DEF AuditIInv
  <1>w. NotWriting \in [on : BOOLEAN, chunk : Seq(Nat \ {0}), last : Nat]
        /\ NotWriting.chunk = <<>> /\ NotWriting.last = 0
    BY DEF NotWriting
  <1>n. IsRun(<<>>)' /\ Settled(0)'
    BY EmptyRun, PTL
  <1>p. PICK lo \in Nat \ {0} : /\ Consecutive(spool, lo) /\ Settled(lo - 1)
                                /\ next_sequence = lo + Len(spool)
    BY <1>t DEF SpoolIsTail
  <1>q. spool \in Seq(Nat \ {0}) /\ Len(spool) \in Nat
    BY <1>p DEF Consecutive
  \* The spool is not touched and nothing is lost from the histories.
  <1>s. ASSUME UNCHANGED <<spool, next_sequence>>,
               stored \cup dropped \cup unstored \subseteq stored' \cup dropped' \cup unstored'
        PROVE  SpoolIsTail'
    <2>1. Settled(lo - 1)' /\ Consecutive(spool', lo)
      BY <1>p, <1>s, SettledGrows
    <2> QED
      BY <1>p, <1>s, <2>1 DEF SpoolIsTail
  \* An acknowledgement of settled records joins the others.
  <1>a. ASSUME NEW a \in Nat, Settled(a)', encode_audit_ack(a),
               stored \cup dropped \cup unstored \subseteq stored' \cup dropped' \cup unstored'
        PROVE  /\ ack_wire' \in Seq(Nat)
               /\ \A i \in 1 .. Len(ack_wire') : Settled(ack_wire[i])'
    <2>1. /\ ack_wire \in Seq(Nat) /\ ack_wire' = Append(ack_wire, a)
          /\ \A i \in 1 .. Len(ack_wire) : Settled(ack_wire[i])
      BY <1>t, <1>a DEF AuditTypeOK, WireSettled, encode_audit_ack
    <2>2. /\ ack_wire' \in Seq(Nat)
          /\ \A i \in 1 .. Len(ack_wire') :
                ack_wire'[i] = a \/ \E j \in 1 .. Len(ack_wire) : ack_wire'[i] = ack_wire[j]
      BY <2>1
    <2> QED
      BY <1>a, <2>1, <2>2, SettledGrows
  <1>1. CASE emit
    <2> DEFINE excess == IF Len(spool) >= SpoolCapacity
                         THEN Len(spool) - SpoolCapacity + 1 ELSE 0
    <2>0. excess \in 0 .. Len(spool)
      <3>1. SpoolCapacity \in Nat \ {0}
        BY AuditAssumption
      <3> QED
        BY <1>q, <3>1
    <2>1. PICK n \in 0 .. Len(spool) : n = excess
      BY <2>0
    <2>2. /\ spool' = Append(SubSeq(spool, n + 1, Len(spool)), next_sequence)
          /\ dropped' = dropped \cup ToSet(SubSeq(spool, 1, n))
          /\ next_sequence' = next_sequence + 1
          /\ UNCHANGED <<audit_wire, ack_wire, writing, stored, unstored>>
      BY <1>1, <2>1 DEF emit
    <2>3. PICK r : /\ r = SubSeq(spool, n + 1, Len(spool))
                   /\ Consecutive(r, lo + n) /\ Len(r) = Len(spool) - n
      BY <1>p, ConsecutiveDrop
    <2>4. PICK g : /\ g = SubSeq(spool, 1, n)
                   /\ Consecutive(g, lo) /\ Len(g) = n
      BY <1>p, ConsecutiveTake
    <2>5. next_sequence = (lo + n) + Len(r) /\ lo + n \in Nat \ {0} /\ n \in Nat
      <3>1. n \in Nat /\ lo \in Nat \ {0} /\ Len(r) = Len(spool) - n /\ Len(spool) \in Nat
            /\ next_sequence = lo + Len(spool)
        BY <1>p, <1>q, <2>3
      <3> QED
        BY <3>1
    <2>6. Consecutive(spool', lo + n) /\ Len(spool') = Len(r) + 1
      BY <2>2, <2>3, <2>5, ConsecutiveAppend
    <2>7. \A s \in 1 .. (lo + n) - 1 : s \in (stored \cup dropped \cup unstored)'
      <3> SUFFICES ASSUME NEW s \in 1 .. (lo + n) - 1
                   PROVE  s \in (stored \cup dropped \cup unstored)'
        OBVIOUS
      <3>1. CASE s \in 1 .. lo - 1
        BY <1>p, <2>2, <3>1 DEF Settled
      <3>2. CASE s \in lo .. lo + Len(g) - 1
        BY <2>2, <2>4, <3>2, ConsecutiveSet
      <3> QED
        BY <2>4, <2>5, <3>1, <3>2
    <2>8. Settled((lo + n) - 1)'
      BY <2>7 DEF Settled
    <2>9. SpoolIsTail'
      <3>1. next_sequence' = (lo + n) + Len(spool')
        <4>1. next_sequence' = next_sequence + 1 /\ Len(r) \in Nat
          BY <2>2, <2>3 DEF Consecutive
        <4> QED
          BY <2>5, <2>6, <4>1
      <3> QED
        BY <2>5, <2>6, <2>8, <3>1 DEF SpoolIsTail
    <2>10. AuditTypeOK'
      BY <1>t, <2>2 DEF AuditTypeOK
    <2>11. WireSettled'
      BY <1>t, <2>2, SettledGrows DEF WireSettled
    <2> QED
      BY <2>9, <2>10, <2>11 DEF AuditIInv
  <1>2. CASE send_audit_upload
    <2> DEFINE len == IF Len(spool) < ChunkRecords THEN Len(spool) ELSE ChunkRecords
    <2>1. /\ spool # <<>> /\ audit_wire' = Append(audit_wire, peek_chunk)
          /\ UNCHANGED <<spool, next_sequence, dropped, ack_wire, writing, stored, unstored>>
      BY <1>2 DEF send_audit_upload
    <2>2. len \in 0 .. Len(spool) /\ len # 0
      <3>1. ChunkRecords \in Nat \ {0} /\ Len(spool) # 0
        BY <1>q, <2>1, AuditAssumption
      <3> QED
        BY <1>q, <3>1
    <2>3. PICK n \in 0 .. Len(spool) : n = len /\ n # 0
      BY <2>2
    <2>4. Consecutive(peek_chunk, lo) /\ Len(peek_chunk) = n
      BY <1>p, <2>3, ConsecutiveTake DEF peek_chunk
    <2>5. peek_chunk # <<>> /\ IsRun(peek_chunk) /\ peek_chunk \in Seq(Nat \ {0})
      BY <1>p, <2>3, <2>4 DEF IsRun, Consecutive
    <2>6. PICK c \in Seq(Nat \ {0}) : c = peek_chunk
      BY <2>5
    <2>7. /\ audit_wire \in Seq(Seq(Nat \ {0}))
          /\ \A i \in 1 .. Len(audit_wire) : audit_wire[i] # <<>> /\ IsRun(audit_wire[i])
      BY <1>t DEF AuditTypeOK, WireSettled
    <2>8. /\ audit_wire' \in Seq(Seq(Nat \ {0}))
          /\ \A i \in 1 .. Len(audit_wire') :
                 audit_wire'[i] = c \/ \E j \in 1 .. Len(audit_wire) : audit_wire'[i] = audit_wire[j]
      BY <2>1, <2>6, <2>7
    <2>9. \A x : IsRun(x) => IsRun(x)'
      BY <2>1, SettledGrows
    <2>10. \A i \in 1 .. Len(audit_wire') : audit_wire'[i] # <<>> /\ IsRun(audit_wire[i])'
      BY <2>5, <2>6, <2>7, <2>8, <2>9
    <2>11. AuditTypeOK'
      BY <1>t, <2>1, <2>8 DEF AuditTypeOK
    <2>12. WireSettled'
      BY <1>t, <2>1, <2>10, SettledGrows DEF WireSettled
    <2> QED
      BY <1>s, <2>1, <2>11, <2>12 DEF AuditIInv
  <1>3. CASE receive_audit_ack
    <2>1. /\ ack_wire # <<>> /\ ack_wire' = Tail(ack_wire)
          /\ spool' = acknowledge(Head(ack_wire))
          /\ UNCHANGED <<next_sequence, dropped, audit_wire, writing, stored, unstored>>
      BY <1>3 DEF receive_audit_ack
    <2>2. PICK last \in Nat : last = Head(ack_wire) /\ Settled(last)
      BY <1>t, <2>1 DEF AuditTypeOK, WireSettled
    <2>3. PICK n \in 0 .. Len(spool) :
             /\ acknowledge(last) = SubSeq(spool, n + 1, Len(spool))
             /\ n # 0 => lo + n - 1 <= last
      BY <1>p, AcknowledgeKeeps
    <2>4. Consecutive(spool', lo + n) /\ Len(spool') = Len(spool) - n
      BY <1>p, <2>1, <2>2, <2>3, ConsecutiveDrop
    <2>5. Settled((lo + n) - 1)
      BY <1>p, <2>2, <2>3 DEF Settled
    <2>6. SpoolIsTail'
      <3>1. lo + n \in Nat \ {0} /\ next_sequence' = (lo + n) + Len(spool')
        <4>1. n \in Nat /\ next_sequence' = lo + Len(spool)
          BY <1>p, <1>q, <2>1
        <4> QED
          BY <1>q, <2>4, <4>1
      <3>2. Settled((lo + n) - 1)'
        BY <2>1, <2>5, SettledGrows
      <3> QED
        BY <2>4, <3>1, <3>2 DEF SpoolIsTail
    <2>7. AuditTypeOK'
      BY <1>t, <2>1 DEF AuditTypeOK
    <2>8. WireSettled'
      <3>1. \A i \in 1 .. Len(ack_wire') : Settled(ack_wire'[i])
        BY <1>t, <2>1 DEF AuditTypeOK, WireSettled
      <3> QED
        BY <1>t, <2>1, <3>1, SettledGrows DEF WireSettled
    <2> QED
      BY <2>6, <2>7, <2>8 DEF AuditIInv
  <1>4. CASE process_audit_upload
    <2>1. /\ audit_wire # <<>> /\ audit_wire' = Tail(audit_wire)
          /\ UNCHANGED <<spool, next_sequence, dropped, stored>>
      BY <1>4 DEF process_audit_upload
    <2>2. /\ audit_wire \in Seq(Seq(Nat \ {0})) /\ ack_wire \in Seq(Nat)
          /\ \A i \in 1 .. Len(audit_wire) : audit_wire[i] # <<>> /\ IsRun(audit_wire[i])
      BY <1>t DEF AuditTypeOK, WireSettled
    <2>3. PICK c \in Seq(Nat \ {0}) : c = Head(audit_wire) /\ c # <<>> /\ IsRun(c)
      BY <2>1, <2>2
    <2>4. PICK first \in Nat \ {0} : Consecutive(c, first) /\ Settled(first - 1)
      BY <2>3 DEF IsRun
    <2>5. /\ c[1] = first /\ Last(c) = first + Len(c) - 1 /\ Len(c) \in Nat \ {0}
      BY <2>3, <2>4, ConsecutiveFirst
    <2>6. stored \cup dropped \cup unstored \subseteq stored' \cup dropped' \cup unstored'
      BY <1>4 DEF process_audit_upload
    <2>7. /\ audit_wire' \in Seq(Seq(Nat \ {0}))
          /\ \A i \in 1 .. Len(audit_wire') : audit_wire'[i] = audit_wire[i + 1] /\ i + 1 \in 1 .. Len(audit_wire)
      BY <2>1, <2>2
    <2>8. \A i \in 1 .. Len(audit_wire') : audit_wire'[i] # <<>> /\ IsRun(audit_wire[i])'
      BY <2>2, <2>6, <2>7, SettledGrows
    <2>9. CASE /\ writing' = [on |-> TRUE, chunk |-> c, last |-> 0]
               /\ UNCHANGED <<ack_wire, unstored>>
      <3>1. /\ writing' \in [on : BOOLEAN, chunk : Seq(Nat \ {0}), last : Nat]
            /\ writing'.chunk = c /\ writing'.last = 0
        BY <2>9
      <3>2. AuditTypeOK'
        BY <1>t, <2>1, <2>7, <2>9, <3>1 DEF AuditTypeOK
      <3>3. IsRun(writing.chunk)' /\ Settled(writing.chunk[1] - 1)' /\ Settled(writing.last)'
        BY <1>n, <2>3, <2>4, <2>5, <2>6, <3>1, SettledGrows
      <3>4. WireSettled'
        BY <1>t, <2>6, <2>8, <2>9, <3>3, SettledGrows DEF WireSettled
      <3> QED
        BY <1>s, <2>1, <2>6, <3>2, <3>4 DEF AuditIInv
    <2>10. CASE /\ encode_audit_ack(Last(c)) /\ unstored' = unstored \cup ToSet(c)
                /\ UNCHANGED writing
      <3>1. \A s \in 1 .. first + Len(c) - 1 : s \in (stored \cup dropped \cup unstored)'
        <4> SUFFICES ASSUME NEW s \in 1 .. first + Len(c) - 1
                     PROVE  s \in (stored \cup dropped \cup unstored)'
          OBVIOUS
        <4>1. CASE s \in 1 .. first - 1
          BY <2>4, <2>6, <4>1 DEF Settled
        <4>2. CASE s \in first .. first + Len(c) - 1
          BY <2>4, <2>10, <4>2, ConsecutiveSet
        <4> QED
          BY <2>5, <4>1, <4>2
      <3>2. Last(c) \in Nat /\ Settled(Last(c))'
        BY <2>5, <3>1 DEF Settled
      <3>3. ack_wire' \in Seq(Nat) /\ \A i \in 1 .. Len(ack_wire') : Settled(ack_wire[i])'
        BY <1>a, <2>6, <2>10, <3>2
      <3>4. AuditTypeOK'
        BY <1>t, <2>1, <2>7, <2>10, <3>3 DEF AuditTypeOK
      <3>5. WireSettled'
        BY <1>t, <2>6, <2>8, <2>10, <3>3, SettledGrows DEF WireSettled
      <3> QED
        BY <1>s, <2>1, <2>6, <3>4, <3>5 DEF AuditIInv
    <2>11. CASE encode_audit_ack(0) /\ UNCHANGED <<writing, unstored>>
      <3>1. ack_wire' \in Seq(Nat) /\ \A i \in 1 .. Len(ack_wire') : Settled(ack_wire[i])'
        BY <1>a, <1>n, <2>6, <2>11
      <3>2. AuditTypeOK'
        BY <1>t, <2>1, <2>7, <2>11, <3>1 DEF AuditTypeOK
      <3>3. WireSettled'
        BY <1>t, <2>6, <2>8, <2>11, <3>1, SettledGrows DEF WireSettled
      <3> QED
        BY <1>s, <2>1, <2>6, <3>2, <3>3 DEF AuditIInv
    <2> QED
      BY <1>4, <2>3, <2>9, <2>10, <2>11 DEF process_audit_upload
  <1>5. CASE write_next
    <2>1. /\ writing.chunk # <<>> /\ stored' = stored \cup {Head(writing.chunk)}
          /\ writing' = [writing EXCEPT !.chunk = Tail(@), !.last = Head(writing.chunk)]
          /\ UNCHANGED <<spool, next_sequence, dropped, audit_wire, ack_wire, unstored>>
      BY <1>5 DEF write_next
    <2>2. PICK c \in Seq(Nat \ {0}) : c = writing.chunk /\ c # <<>> /\ IsRun(c)
      BY <1>t, <2>1 DEF AuditTypeOK, WireSettled
    <2>3. PICK first \in Nat \ {0} : Consecutive(c, first) /\ Settled(first - 1)
      BY <2>2 DEF IsRun
    <2>4. Head(c) = first /\ Consecutive(Tail(c), first + 1)
      BY <2>2, <2>3, ConsecutiveFirst
    <2>5. Settled(first)'
      BY <2>1, <2>2, <2>3, <2>4 DEF Settled
    <2>6. stored \cup dropped \cup unstored \subseteq stored' \cup dropped' \cup unstored'
      BY <2>1
    <2>7. /\ writing' \in [on : BOOLEAN, chunk : Seq(Nat \ {0}), last : Nat]
          /\ writing'.chunk = Tail(c) /\ writing'.last = first
      <3>1. Tail(c) \in Seq(Nat \ {0})
        BY <2>4 DEF Consecutive
      <3> QED
        BY <1>t, <2>1, <2>2, <2>4, <3>1 DEF AuditTypeOK
    <2>8. IsRun(writing.chunk)' /\ Settled(writing.last)'
      <3>1. first = (first + 1) - 1 /\ first + 1 \in Nat \ {0}
        OBVIOUS
      <3> QED
        BY <2>4, <2>5, <2>7, <3>1 DEF IsRun
    <2>9. writing'.chunk # <<>> => Settled(writing.chunk[1] - 1)'
      <3> SUFFICES ASSUME Tail(c) # <<>> PROVE Settled(writing.chunk[1] - 1)'
        BY <2>7
      <3>1. Tail(c)[1] = first + 1
        <4>1. first + 1 \in Nat \ {0}
          OBVIOUS
        <4> QED
          BY <2>4, <4>1, ConsecutiveFirst, Zenon
      <3>2. first = (first + 1) - 1
        OBVIOUS
      <3>3. writing'.chunk[1] - 1 = first
        BY <2>7, <3>1, <3>2, Zenon
      <3> QED
        BY <2>5, <3>3, Zenon
    <2>10. AuditTypeOK'
      BY <1>t, <2>1, <2>7 DEF AuditTypeOK
    <2>11. WireSettled'
      BY <1>t, <2>1, <2>6, <2>8, <2>9, SettledGrows DEF WireSettled
    <2> QED
      BY <1>s, <2>1, <2>6, <2>10, <2>11 DEF AuditIInv
  <1>6. CASE write_fails
    <2>1. /\ writing' = [writing EXCEPT !.chunk = <<>>]
          /\ UNCHANGED <<spool, next_sequence, dropped, audit_wire, ack_wire, stored, unstored>>
      BY <1>6 DEF write_fails
    <2>2. /\ writing' \in [on : BOOLEAN, chunk : Seq(Nat \ {0}), last : Nat]
          /\ writing'.chunk = <<>> /\ writing'.last = writing.last
      <3>0. <<>> \in Seq(Nat \ {0})
        OBVIOUS
      <3>1. PICK e \in Seq(Nat \ {0}) : e = <<>>
        BY <3>0, Zenon
      <3>2. writing' = [writing EXCEPT !.chunk = e]
        BY <2>1, <3>1
      <3>3. /\ writing' \in [on : BOOLEAN, chunk : Seq(Nat \ {0}), last : Nat]
            /\ writing'.chunk = e /\ writing'.last = writing.last
        BY <1>t, <3>2 DEF AuditTypeOK
      <3> QED
        BY <3>1, <3>3
    <2>3. AuditTypeOK'
      BY <1>t, <2>1, <2>2 DEF AuditTypeOK
    <2>4. WireSettled'
      BY <1>t, <1>n, <2>1, <2>2, SettledGrows DEF WireSettled
    <2> QED
      BY <1>s, <2>1, <2>3, <2>4 DEF AuditIInv
  <1>7. CASE send_audit_ack
    <2>1. /\ encode_audit_ack(writing.last) /\ writing' = NotWriting
          /\ UNCHANGED <<spool, next_sequence, dropped, audit_wire, stored, unstored>>
      BY <1>7 DEF send_audit_ack
    <2>2. PICK a \in Nat : a = writing.last /\ Settled(a)
      BY <1>t DEF AuditTypeOK, WireSettled
    <2>3. ack_wire' \in Seq(Nat) /\ \A i \in 1 .. Len(ack_wire') : Settled(ack_wire[i])'
      BY <1>a, <2>1, <2>2, SettledGrows
    <2>4. AuditTypeOK'
      BY <1>t, <1>w, <2>1, <2>3 DEF AuditTypeOK
    <2>5. WireSettled'
      BY <1>t, <1>n, <1>w, <2>1, <2>3, SettledGrows DEF WireSettled
    <2> QED
      BY <1>s, <2>1, <2>4, <2>5 DEF AuditIInv
  <1>8. CASE audit_emit \/ refill \/ UNCHANGED auditVars
    <2>1. UNCHANGED <<spool, next_sequence, dropped, audit_wire, ack_wire, writing, stored,
                      unstored>>
      BY <1>8 DEF audit_emit, refill, auditVars
    <2>2. AuditTypeOK'
      BY <1>t, <2>1 DEF AuditTypeOK
    <2>3. WireSettled'
      BY <1>t, <2>1, SettledGrows DEF WireSettled
    <2> QED
      BY <1>s, <2>1, <2>2, <2>3 DEF AuditIInv
  <1>9. CASE audit_link_lost \/ server_restarts
    <2>1. /\ audit_wire' = <<>> /\ ack_wire' = <<>> /\ writing' \in {writing, NotWriting}
          /\ UNCHANGED <<spool, next_sequence, dropped, stored, unstored>>
      BY <1>9 DEF audit_link_lost, server_restarts
    <2>2. AuditTypeOK'
      BY <1>t, <1>w, <2>1 DEF AuditTypeOK
    <2>3. WireSettled'
      BY <1>t, <1>n, <1>w, <2>1, SettledGrows DEF WireSettled
    <2> QED
      BY <1>s, <2>1, <2>2, <2>3 DEF AuditIInv
  <1>10. CASE client_restarts
    <2>1. /\ spool' = <<>> /\ next_sequence' = 1
          /\ audit_wire' = <<>> /\ ack_wire' = <<>> /\ writing' = NotWriting
      BY <1>10 DEF client_restarts
    <2>2. AuditTypeOK'
      BY <1>w, <2>1 DEF AuditTypeOK
    <2>3. SpoolIsTail'
      <3>1. Consecutive(<<>>, 1) /\ Settled(1 - 1)'
        BY DEF Consecutive, Settled
      <3> QED
        BY <2>1, <3>1 DEF SpoolIsTail
    <2>4. WireSettled'
      BY <1>n, <1>w, <2>1 DEF WireSettled
    <2> QED
      BY <2>2, <2>3, <2>4 DEF AuditIInv
  <1> QED
    BY <1>1, <1>2, <1>3, <1>4, <1>5, <1>6, <1>7, <1>8, <1>9, <1>10 DEF AuditNext

\* A record a client service has emitted is in its spool, was stored, was
\* counted as dropped or was taken by a server without a sink, for every spool
\* capacity and chunk size (Spool::acknowledge(), the audit_upload handler).
THEOREM RecordsAccounted == AuditSpec => []RecordAccountedFor
  <1>1. AuditIInv /\ [AuditNext]_auditVars => AuditIInv'
    BY AuditStep
  <1>2. AuditIInv => RecordAccountedFor
    <2> SUFFICES ASSUME AuditIInv, NEW s \in 1 .. next_sequence - 1
                 PROVE  s \in ToSet(spool) \cup stored \cup dropped \cup unstored
      BY DEF RecordAccountedFor
    <2>1. PICK lo \in Nat \ {0} : /\ Consecutive(spool, lo) /\ Settled(lo - 1)
                                   /\ next_sequence = lo + Len(spool)
      BY DEF AuditIInv, SpoolIsTail
    <2>2. CASE s \in 1 .. lo - 1
      BY <2>1, <2>2 DEF Settled
    <2>3. CASE s \in lo .. lo + Len(spool) - 1
      BY <2>1, <2>3, ConsecutiveSet
    <2> QED
      BY <2>1, <2>2, <2>3 DEF Consecutive
  <1> QED
    BY AuditInitInv, <1>1, <1>2, PTL DEF AuditSpec

-----------------------------------------------------------------------------
(* Packet loss. *)
\* The slot of the i-th packet of a window whose first slot is h.
Slot(h, i) == IF h + i < ReorderWindow THEN h + i ELSE h + i - ReorderWindow

\* The slots of the packets P of a window that starts at packet a.
SlotsOf(h, a, P) == {Slot(h, p - a) : p \in P}

\* How many of the packets a .. b - 1 are in A.
Arrived(a, b, A) == Cardinality((a .. b - 1) \cap A)

\* How many of them are missing.
NotArrived(a, b, A) == Cardinality((a .. b - 1) \ A)

\* The counters of a tracker.
LossStats == [received : Nat, lost : Nat, unique : Nat]

\* A window, as advance() returns it, that agrees with what has arrived.
WindowExact(w) ==
    /\ w.ring \in [Slots -> BOOLEAN] /\ w.head \in Slots
    /\ w.start \in Nat /\ loss_first \in Nat /\ loss_first <= w.start
    /\ w.stats \in LossStats
    /\ loss_arrived \subseteq loss_first .. w.start + ReorderWindow - 1
    /\ \A i \in Slots : w.ring[Slot(w.head, i)] <=> w.start + i \in loss_arrived
    /\ w.stats.received = Arrived(loss_first, w.start, loss_arrived)
    /\ w.stats.lost = NotArrived(loss_first, w.start, loss_arrived)
    /\ w.stats.unique = Cardinality(loss_arrived)

\* The inductive invariant.
LossIInv ==
    /\ sequence_set \in BOOLEAN
    /\ packet_seen => sequence_set
    /\ WindowExact(Window)
    /\ ~sequence_set => /\ loss_arrived = {} /\ ring = NoneReceived
                        /\ window_start = loss_first

\* The fields of the current window.
LEMMA WindowFields ==
  /\ Window.ring = ring /\ Window.head = head /\ Window.start = window_start
  /\ Window.stats = lossStats
  BY DEF Window

\* In the window the remainder is one comparison and one subtraction.
LEMMA SlotIsRemainder ==
  ASSUME NEW h \in Slots, NEW i \in Slots
  PROVE  (h + i) % ReorderWindow = Slot(h, i) /\ Slot(h, i) \in Slots
  <1> DEFINE W == ReorderWindow
  <1>1. W \in Nat \ {0} /\ h \in 0 .. W - 1 /\ i \in 0 .. W - 1
    BY LossAssumption DEF Slots
  <1> HIDE DEF W
  <1>2. CASE h + i < W
    <2>1. (h + i) % W = h + i
      BY <1>1, <1>2
    <2> QED
      BY <1>1, <1>2, <2>1 DEF Slot, Slots, W
  <1>3. CASE h + i >= W
    <2>1. (h + i) % W = h + i - W
      <3>1. PICK r \in 0 .. W - 1 : r = h + i - W
        BY <1>1, <1>3
      <3>2. (r + W) % W = r
        BY <1>1
      <3>3. h + i = r + W
        BY <1>1, <3>1
      <3> QED
        BY <3>1, <3>2, <3>3
    <2> QED
      BY <1>1, <1>3, <2>1 DEF Slot, Slots, W
  <1> QED
    BY <1>1, <1>2, <1>3

\* Two packets of one window have different slots.
LEMMA SlotInjective ==
  ASSUME NEW h \in Slots
  PROVE  \A i, j \in Slots : Slot(h, i) = Slot(h, j) => i = j
  BY LossAssumption DEF Slot, Slots

\* Every slot belongs to a packet of the window.
LEMMA SlotOnto ==
  ASSUME NEW h \in Slots, NEW s \in Slots
  PROVE  \E i \in Slots : Slot(h, i) = s
  <1> DEFINE i == IF s >= h THEN s - h ELSE s - h + ReorderWindow
  <1>1. i \in Slots /\ Slot(h, i) = s
    BY LossAssumption DEF Slot, Slots
  <1> QED
    BY <1>1

\* Moving the head by n moves the slots by n.
LEMMA SlotShift ==
  ASSUME NEW h \in Slots, NEW n \in Slots, NEW i \in Slots
  PROVE  /\ n + i < ReorderWindow => Slot(Slot(h, n), i) = Slot(h, n + i)
         /\ n + i >= ReorderWindow => Slot(Slot(h, n), i) = Slot(h, n + i - ReorderWindow)
  BY LossAssumption DEF Slot, Slots

\* Packets of one window have slots of their own: as many slots as packets.
LEMMA SlotsCount ==
  ASSUME NEW h \in Slots, NEW a \in Nat, NEW P \in SUBSET (a .. a + ReorderWindow - 1)
  PROVE  Cardinality(SlotsOf(h, a, P)) = Cardinality(P)
  <1> DEFINE Q == {Slot(h, p - a) : p \in P}
             f == [p \in P |-> Slot(h, p - a)]
  <1>1. \A p \in P : p - a \in Slots /\ p \in Int
    BY LossAssumption DEF Slots
  <1>2. \A p, q \in P : f[p] = f[q] => p = q
    <2> SUFFICES ASSUME NEW p \in P, NEW q \in P, Slot(h, p - a) = Slot(h, q - a) PROVE p = q
      OBVIOUS
    <2>1. p - a = q - a
      BY <1>1, SlotInjective
    <2> QED
      BY <1>1, <2>1
  <1>3. f \in [P -> Q] /\ \A s \in Q : \E p \in P : f[p] = s
    OBVIOUS
  <1>4. f \in Bijection(P, Q)
    BY <1>2, <1>3 DEF Bijection, Injection, Surjection, IsInjective
  <1>5. ExistsBijection(P, Q)
    BY <1>4 DEF ExistsBijection
  <1>6. IsFiniteSet(P)
    <2>1. IsFiniteSet(a .. a + ReorderWindow - 1)
      BY LossAssumption, FS_Interval
    <2> QED
      BY <2>1, FS_Subset
  <1> QED
    BY <1>5, <1>6, FS_Bijection DEF SlotsOf

\* What finalize_slots() adds for the first n packets of the window.
LEMMA LeadingCount ==
  ASSUME WindowExact(Window), NEW n \in 0 .. ReorderWindow,
         NEW L, L = {Slot(head, i) : i \in 0 .. n - 1}
  PROVE  /\ Cardinality({s \in L : ring[s]}) =
               Arrived(window_start, window_start + n, loss_arrived)
         /\ Cardinality({s \in L : ~ring[s]}) =
               NotArrived(window_start, window_start + n, loss_arrived)
  <1> DEFINE new == window_start .. window_start + n - 1
  <1>1. /\ head \in Slots /\ window_start \in Nat
        /\ \A i \in Slots : ring[Slot(head, i)] <=> window_start + i \in loss_arrived
    BY WindowFields DEF WindowExact
  <1>2. \A i \in 0 .. n - 1 : i \in Slots
    BY LossAssumption DEF Slots
  <1>3. {s \in L : ring[s]} = SlotsOf(head, window_start, new \cap loss_arrived)
    <2>1. ASSUME NEW i \in 0 .. n - 1, ring[Slot(head, i)]
          PROVE  \E p \in new \cap loss_arrived : Slot(head, i) = Slot(head, p - window_start)
      <3>1. window_start + i \in new \cap loss_arrived /\ (window_start + i) - window_start = i
        BY <1>1, <1>2, <2>1
      <3> QED
        BY <3>1
    <2>2. ASSUME NEW p \in new \cap loss_arrived
          PROVE  \E i \in 0 .. n - 1 : Slot(head, p - window_start) = Slot(head, i) /\ ring[Slot(head, i)]
      <3>1. p - window_start \in 0 .. n - 1 /\ window_start + (p - window_start) = p
        BY <1>1
      <3> QED
        BY <1>1, <1>2, <3>1
    <2> QED
      BY <2>1, <2>2 DEF SlotsOf
  <1>4. {s \in L : ~ring[s]} = SlotsOf(head, window_start, new \ loss_arrived)
    <2>1. ASSUME NEW i \in 0 .. n - 1, ~ring[Slot(head, i)]
          PROVE  \E p \in new \ loss_arrived : Slot(head, i) = Slot(head, p - window_start)
      <3>1. window_start + i \in new \ loss_arrived /\ (window_start + i) - window_start = i
        BY <1>1, <1>2, <2>1
      <3> QED
        BY <3>1
    <2>2. ASSUME NEW p \in new \ loss_arrived
          PROVE  \E i \in 0 .. n - 1 : Slot(head, p - window_start) = Slot(head, i) /\ ~ring[Slot(head, i)]
      <3>1. p - window_start \in 0 .. n - 1 /\ window_start + (p - window_start) = p
        BY <1>1
      <3> QED
        BY <1>1, <1>2, <3>1
    <2> QED
      BY <2>1, <2>2 DEF SlotsOf
  <1>5. new \subseteq window_start .. window_start + ReorderWindow - 1
    BY <1>1, LossAssumption
  <1> HIDE DEF new
  <1>6. /\ new \cap loss_arrived \in SUBSET (window_start .. window_start + ReorderWindow - 1)
        /\ new \ loss_arrived \in SUBSET (window_start .. window_start + ReorderWindow - 1)
    BY <1>5
  <1> QED
    <2>0. /\ Cardinality(SlotsOf(head, window_start, new \cap loss_arrived)) =
                Cardinality(new \cap loss_arrived)
          /\ Cardinality(SlotsOf(head, window_start, new \ loss_arrived)) =
                Cardinality(new \ loss_arrived)
      BY <1>1, <1>6, SlotsCount
    <2>1. /\ Cardinality({s \in L : ring[s]}) = Cardinality(new \cap loss_arrived)
          /\ Cardinality({s \in L : ~ring[s]}) = Cardinality(new \ loss_arrived)
      BY <1>3, <1>4, <2>0, Zenon
    <2> QED
      <3>1. /\ Arrived(window_start, window_start + n, loss_arrived) =
                 Cardinality(new \cap loss_arrived)
            /\ NotArrived(window_start, window_start + n, loss_arrived) =
                 Cardinality(new \ loss_arrived)
        <4>0. window_start \in Nat /\ n \in Nat
          BY <1>1, LossAssumption
        <4>1. new = window_start .. (window_start + n) - 1
          BY <4>0 DEF new
        <4> QED
          BY <4>1, Zenon DEF Arrived, NotArrived
      <3> QED
        BY <2>1, <3>1, Zenon

\* The cardinality of a union of disjoint finite sets.
LEMMA DisjointCount ==
  ASSUME NEW S, NEW T, IsFiniteSet(S), IsFiniteSet(T), S \cap T = {}
  PROVE  Cardinality(S \cup T) = Cardinality(S) + Cardinality(T)
  <1>1. Cardinality(S \cup T) = Cardinality(S) + Cardinality(T) - Cardinality(S \cap T)
    BY FS_Union
  <1>2. Cardinality(S \cap T) = 0
    BY FS_EmptySet
  <1>3. Cardinality(S) \in Nat /\ Cardinality(T) \in Nat
    BY FS_CardinalityType
  <1> QED
    BY <1>1, <1>2, <1>3

\* Counts add up over two ranges of packets, one after the other.
LEMMA CountsAdd ==
  ASSUME NEW a \in Nat, NEW b \in Nat, NEW c \in Nat, a <= b, b <= c, NEW A
  PROVE  /\ Arrived(a, c, A) = Arrived(a, b, A) + Arrived(b, c, A)
         /\ NotArrived(a, c, A) = NotArrived(a, b, A) + NotArrived(b, c, A)
         /\ Arrived(a, b, A) \in Nat /\ NotArrived(a, b, A) \in Nat
         /\ Arrived(b, c, A) \in Nat /\ NotArrived(b, c, A) \in Nat
  <1>1. IsFiniteSet(a .. b - 1) /\ IsFiniteSet(b .. c - 1)
    BY FS_Interval
  <1>2. (a .. c - 1) = (a .. b - 1) \cup (b .. c - 1) /\ (a .. b - 1) \cap (b .. c - 1) = {}
    OBVIOUS
  <1> DEFINE X == a .. b - 1
             Y == b .. c - 1
             Z == a .. c - 1
  <1>3. IsFiniteSet(X) /\ IsFiniteSet(Y) /\ Z = X \cup Y /\ X \cap Y = {}
    BY <1>1, <1>2
  <1> HIDE DEF X, Y, Z
  <1>4. /\ IsFiniteSet(X \cap A) /\ IsFiniteSet(Y \cap A)
        /\ IsFiniteSet(X \ A) /\ IsFiniteSet(Y \ A)
    BY <1>3, FS_Intersection, FS_Difference
  <1>5. /\ Z \cap A = (X \cap A) \cup (Y \cap A) /\ (X \cap A) \cap (Y \cap A) = {}
        /\ Z \ A = (X \ A) \cup (Y \ A) /\ (X \ A) \cap (Y \ A) = {}
    BY <1>3
  <1>6. /\ Cardinality(X \cap A) \in Nat /\ Cardinality(Y \cap A) \in Nat
        /\ Cardinality(X \ A) \in Nat /\ Cardinality(Y \ A) \in Nat
    BY <1>4, FS_CardinalityType
  <1>7. Cardinality(Z \cap A) = Cardinality(X \cap A) + Cardinality(Y \cap A)
    BY <1>4, <1>5, DisjointCount
  <1>8. Cardinality(Z \ A) = Cardinality(X \ A) + Cardinality(Y \ A)
    BY <1>4, <1>5, DisjointCount
  <1> QED
    BY <1>6, <1>7, <1>8 DEF X, Y, Z, Arrived, NotArrived

\* How finalize_slots() changes the counts.
LEMMA FinalizeCounts ==
  ASSUME NEW st \in LossStats, NEW S, NEW x \in Nat, NEW y \in Nat,
         x = Cardinality({s \in S : ring[s]}), y = Cardinality({s \in S : ~ring[s]})
  PROVE  /\ finalize_slots(st, S) \in LossStats
         /\ finalize_slots(st, S).received = st.received + x
         /\ finalize_slots(st, S).lost = st.lost + y
         /\ finalize_slots(st, S).unique = st.unique
  <1>1. finalize_slots(st, S) = [st EXCEPT !.received = st.received + x, !.lost = st.lost + y]
    BY DEF finalize_slots
  <1>2. st.received + x \in Nat /\ st.lost + y \in Nat
    <2>1. st.received \in Nat /\ st.lost \in Nat
      BY DEF LossStats
    <2> QED
      BY <2>1
  <1> QED
    BY <1>1, <1>2 DEF LossStats

\* advance() keeps the window exact, within the window and beyond it.
LEMMA AdvanceExact ==
  ASSUME WindowExact(Window), NEW n \in Nat
  PROVE  WindowExact(advance(n)) /\ advance(n).start = window_start + n
  <1> DEFINE W == ReorderWindow
             c == window_start + n
  <1>0. W \in Nat \ {0}
    BY LossAssumption
  <1>1. /\ ring \in [Slots -> BOOLEAN] /\ head \in Slots
        /\ window_start \in Nat /\ loss_first \in Nat /\ loss_first <= window_start
        /\ lossStats \in LossStats
        /\ loss_arrived \subseteq loss_first .. window_start + ReorderWindow - 1
        /\ \A i \in Slots : ring[Slot(head, i)] <=> window_start + i \in loss_arrived
        /\ lossStats.received = Arrived(loss_first, window_start, loss_arrived)
        /\ lossStats.lost = NotArrived(loss_first, window_start, loss_arrived)
        /\ lossStats.unique = Cardinality(loss_arrived)
    BY WindowFields DEF WindowExact
  <1>2. c \in Nat /\ window_start <= c /\ loss_first <= c
    BY <1>1
  <1>3. loss_arrived \subseteq loss_first .. c + ReorderWindow - 1
    BY <1>0, <1>1
  <1>4. /\ Arrived(loss_first, c, loss_arrived) =
               lossStats.received + Arrived(window_start, c, loss_arrived)
        /\ NotArrived(loss_first, c, loss_arrived) =
               lossStats.lost + NotArrived(window_start, c, loss_arrived)
        /\ Arrived(window_start, c, loss_arrived) \in Nat
        /\ NotArrived(window_start, c, loss_arrived) \in Nat
    <2> HIDE DEF c
    <2>1. loss_first \in Nat /\ window_start \in Nat /\ loss_first <= window_start
      BY <1>1
    <2>2. /\ Arrived(loss_first, c, loss_arrived) =
               Arrived(loss_first, window_start, loss_arrived)
                 + Arrived(window_start, c, loss_arrived)
          /\ NotArrived(loss_first, c, loss_arrived) =
               NotArrived(loss_first, window_start, loss_arrived)
                 + NotArrived(window_start, c, loss_arrived)
      BY <1>2, <2>1, CountsAdd
    <2>3. /\ Arrived(window_start, c, loss_arrived) \in Nat
          /\ NotArrived(window_start, c, loss_arrived) \in Nat
      BY <1>2, <2>1, CountsAdd
    <2> QED
      BY <1>1, <2>2, <2>3
  <1>7. CASE n < W
    <2>1. n \in Slots /\ n \in 0 .. W
      BY <1>0, <1>7 DEF Slots
    <2>2. Leading(n) = {Slot(head, i) : i \in 0 .. n - 1}
      <3>1. \A i \in 0 .. n - 1 : (head + i) % ReorderWindow = Slot(head, i)
        <4> SUFFICES ASSUME NEW i \in 0 .. n - 1 PROVE (head + i) % ReorderWindow = Slot(head, i)
          OBVIOUS
        <4>1. i \in Slots
          BY <1>0, <1>7 DEF Slots
        <4> QED
          BY <1>1, <4>1, SlotIsRemainder
      <3> QED
        BY <3>1 DEF Leading
    <2>3. (head + n) % ReorderWindow = Slot(head, n) /\ Slot(head, n) \in Slots
      BY <1>1, <2>1, SlotIsRemainder
    <2> DEFINE r == [s \in Slots |-> ring[s] /\ s \notin Leading(n)]
               t == finalize_slots(lossStats, Leading(n))
    <2>4. advance(n) = [ring |-> r, head |-> Slot(head, n), start |-> c, stats |-> t]
      BY <1>7, <2>1, <2>3, <1>0 DEF advance, Slots
    <2>5. r \in [Slots -> BOOLEAN]
      BY <1>1
    <2>6. /\ Cardinality({s \in Leading(n) : ring[s]}) = Arrived(window_start, c, loss_arrived)
          /\ Cardinality({s \in Leading(n) : ~ring[s]}) = NotArrived(window_start, c, loss_arrived)
      BY <2>1, <2>2, LeadingCount
    <2>7. /\ t \in LossStats
          /\ t.received = Arrived(loss_first, c, loss_arrived)
          /\ t.lost = NotArrived(loss_first, c, loss_arrived)
          /\ t.unique = Cardinality(loss_arrived)
      <3> HIDE DEF c
      <3> QED
        BY <1>1, <1>4, <2>6, FinalizeCounts
    <2>8. ASSUME NEW i \in Slots
          PROVE  r[Slot(Slot(head, n), i)] <=> c + i \in loss_arrived
      <3>0. i \in Nat /\ i < W
        BY <1>0 DEF Slots
      <3>1. CASE n + i < W
        <4>1. n + i \in Slots
          BY <1>0, <3>0, <3>1 DEF Slots
        <4>2. Slot(Slot(head, n), i) = Slot(head, n + i) /\ Slot(head, n + i) \in Slots
          BY <1>1, <2>1, <3>1, <4>1, SlotShift, SlotIsRemainder
        <4>3. Slot(head, n + i) \notin Leading(n)
          <5> SUFFICES ASSUME NEW j \in 0 .. n - 1, Slot(head, n + i) = Slot(head, j) PROVE FALSE
            BY <2>2
          <5>1. j \in Slots
            BY <1>0, <1>7 DEF Slots
          <5>2. n + i = j
            BY <1>1, <4>1, <5>1, SlotInjective
          <5> QED
            BY <3>0, <5>2
        <4>4. window_start + (n + i) = c + i
          BY <1>1, <3>0
        <4>5. ring[Slot(head, n + i)] <=> c + i \in loss_arrived
          BY <1>1, <4>1, <4>4
        <4> QED
          BY <4>2, <4>3, <4>5
      <3>2. CASE n + i >= W
        <4>1. n + i - W \in 0 .. n - 1
          BY <1>0, <3>0, <3>2
        <4>2. Slot(Slot(head, n), i) = Slot(head, n + i - W)
          BY <1>1, <2>1, <3>2, SlotShift
        <4>3. Slot(Slot(head, n), i) \in Leading(n)
          BY <2>2, <4>1, <4>2
        <4>4. Slot(Slot(head, n), i) \in Slots
          BY <2>3, SlotIsRemainder
        <4>5. c + i \notin loss_arrived
          BY <1>0, <1>1, <3>0, <3>2
        <4> QED
          BY <4>3, <4>4, <4>5
      <3> QED
        BY <1>0, <3>0, <3>1, <3>2
    <2> HIDE DEF r, t, c
    <2> QED
      BY <1>1, <1>2, <1>3, <2>3, <2>4, <2>5, <2>7, <2>8 DEF WindowExact, c
  <1>8. CASE n >= W
    <2> DEFINE u == finalize_slots(lossStats, Slots)
               t == [u EXCEPT !.lost = @ + n - W]
               b == window_start + W
    <2>1. Slots = {Slot(head, i) : i \in 0 .. W - 1}
      <3>1. \A i \in Slots : Slot(head, i) \in Slots
        BY <1>1, SlotIsRemainder
      <3>2. \A s \in Slots : \E i \in Slots : s = Slot(head, i)
        BY <1>1, SlotOnto
      <3> QED
        BY <3>1, <3>2 DEF Slots
    <2>2. /\ Cardinality({s \in Slots : ring[s]}) = Arrived(window_start, b, loss_arrived)
          /\ Cardinality({s \in Slots : ~ring[s]}) = NotArrived(window_start, b, loss_arrived)
      <3>1. W \in 0 .. ReorderWindow
        BY <1>0
      <3> QED
        BY <2>1, <3>1, LeadingCount
    <2>3. b \in Nat /\ window_start <= b /\ b <= c
      BY <1>0, <1>1, <1>8
    \* None of the packets beyond the window has arrived.
    <2>4. /\ (b .. c - 1) \cap loss_arrived = {}
          /\ (b .. c - 1) \ loss_arrived = b .. c - 1
      BY <1>0, <1>1, <2>3
    <2>5. Cardinality(b .. c - 1) = n - W
      <3>1. b \in Int /\ c - 1 \in Int
        BY <1>2, <2>3
      <3>2. Cardinality(b .. c - 1) = IF b > c - 1 THEN 0 ELSE (c - 1) - b + 1
        BY <3>1, FS_Interval
      <3> QED
        BY <1>0, <1>1, <1>8, <3>2
    <2>6. /\ Arrived(window_start, b, loss_arrived) \in Nat
          /\ NotArrived(window_start, b, loss_arrived) \in Nat
          /\ Arrived(window_start, c, loss_arrived) = Arrived(window_start, b, loss_arrived)
          /\ NotArrived(window_start, c, loss_arrived) =
                NotArrived(window_start, b, loss_arrived) + (n - W)
      <3>1. Arrived(b, c, loss_arrived) = 0
        BY <2>4, FS_EmptySet DEF Arrived
      <3>2. NotArrived(b, c, loss_arrived) = n - W
        BY <2>4, <2>5 DEF NotArrived
      <3> HIDE DEF b, c
      <3>3. window_start \in Nat
        BY <1>1
      <3>4. /\ Arrived(window_start, b, loss_arrived) \in Nat
            /\ NotArrived(window_start, b, loss_arrived) \in Nat
            /\ Arrived(window_start, c, loss_arrived) =
                  Arrived(window_start, b, loss_arrived) + Arrived(b, c, loss_arrived)
            /\ NotArrived(window_start, c, loss_arrived) =
                  NotArrived(window_start, b, loss_arrived) + NotArrived(b, c, loss_arrived)
        BY <1>2, <2>3, <3>3, CountsAdd
      <3> QED
        BY <3>1, <3>2, <3>4
    <2>7. /\ u \in LossStats
          /\ u.received = lossStats.received + Arrived(window_start, b, loss_arrived)
          /\ u.lost = lossStats.lost + NotArrived(window_start, b, loss_arrived)
          /\ u.unique = lossStats.unique
      <3> HIDE DEF b
      <3> QED
        BY <1>1, <2>2, <2>6, FinalizeCounts
    <2> HIDE DEF u, b
    <2>8. u.lost + n - W \in Nat /\ u.lost + n - W = u.lost + (n - W)
      <3>1. u.lost \in Nat
        BY <2>7 DEF LossStats
      <3> QED
        BY <1>0, <1>8, <3>1
    <2>9. /\ t \in LossStats
          /\ t.received = u.received /\ t.unique = u.unique /\ t.lost = u.lost + (n - W)
      BY <2>7, <2>8 DEF LossStats
    <2> HIDE DEF t
    <2>10. /\ t.received = Arrived(loss_first, c, loss_arrived)
           /\ t.lost = NotArrived(loss_first, c, loss_arrived)
           /\ t.unique = Cardinality(loss_arrived)
      <3>1. n - W \in Nat /\ lossStats.lost \in Nat
        BY <1>0, <1>1, <1>8 DEF LossStats
      <3> HIDE DEF c
      <3> QED
        BY <1>1, <1>4, <2>6, <2>7, <2>9, <3>1
    <2>11. advance(n) = [ring |-> NoneReceived, head |-> 0, start |-> c, stats |-> t]
      BY <1>8 DEF advance, t, u
    <2>12. 0 \in Slots /\ NoneReceived \in [Slots -> BOOLEAN]
      BY <1>0 DEF Slots, NoneReceived
    <2>13. ASSUME NEW i \in Slots
           PROVE  NoneReceived[Slot(0, i)] <=> c + i \in loss_arrived
      <3>1. Slot(0, i) \in Slots
        BY <2>12, SlotIsRemainder
      <3>2. c + i \notin loss_arrived
        BY <1>0, <1>1, <1>8 DEF Slots
      <3> QED
        BY <3>1, <3>2 DEF NoneReceived
    <2> HIDE DEF c
    <2> QED
      BY <1>1, <1>2, <1>3, <2>9, <2>10, <2>11, <2>12, <2>13 DEF WindowExact, c
  <1> QED
    BY <1>0, <1>7, <1>8

\* A tracker that was reset agrees with what has arrived, which is nothing.
LEMMA LossInitInv == LossInit => LossIInv
  <1> SUFFICES ASSUME LossInit PROVE LossIInv
    OBVIOUS
  <1>1. PICK a \in Nat : /\ ring = NoneReceived /\ head = 0 /\ window_start = a
                         /\ lossStats = [received |-> 0, lost |-> 0, unique |-> 0]
                         /\ loss_first = a /\ loss_arrived = {} /\ sequence_set \in BOOLEAN
                         /\ ~packet_seen
    <2>1. CASE LossReset(FALSE, 0)
      BY <2>1 DEF LossReset
    <2>2. ASSUME NEW a \in 0 .. MaxPacket, LossReset(TRUE, a)
          PROVE  a \in Nat /\ sequence_set \in BOOLEAN
      BY <2>2, LossAssumption DEF LossReset
    <2>3. CASE \E a \in 0 .. MaxPacket : LossReset(TRUE, a)
      BY <2>2, <2>3 DEF LossReset
    <2> QED
      BY <2>1, <2>3 DEF LossInit
  <1>2. 0 \in Slots /\ NoneReceived \in [Slots -> BOOLEAN]
    BY LossAssumption DEF Slots, NoneReceived
  <1>3. Arrived(a, a, {}) = 0 /\ NotArrived(a, a, {}) = 0 /\ Cardinality({}) = 0
    <2>1. (a .. a - 1) \cap {} = {} /\ (a .. a - 1) \ {} = {}
      OBVIOUS
    <2> QED
      BY <2>1, FS_EmptySet DEF Arrived, NotArrived
  <1>4. \A i \in Slots : ~NoneReceived[Slot(0, i)]
    BY <1>2, SlotIsRemainder DEF NoneReceived
  <1>5. lossStats \in LossStats /\ lossStats.received = 0 /\ lossStats.lost = 0
        /\ lossStats.unique = 0
    BY <1>1 DEF LossStats
  <1>6. WindowExact(Window)
    BY <1>1, <1>2, <1>3, <1>4, <1>5, WindowFields DEF WindowExact
  <1> QED
    BY <1>1, <1>6 DEF LossIInv

\* A packet of the window arrives.
LEMMA ArriveExact ==
  ASSUME NEW w, WindowExact(w), NEW i \in Slots, w.start + i \notin loss_arrived,
         ring' = [w.ring EXCEPT ![Slot(w.head, i)] = TRUE],
         head' = w.head, window_start' = w.start,
         lossStats' = [w.stats EXCEPT !.unique = @ + 1],
         loss_arrived' = loss_arrived \cup {w.start + i}, loss_first' = loss_first
  PROVE  WindowExact(Window)'
  <1>1. /\ w.ring \in [Slots -> BOOLEAN] /\ w.head \in Slots
        /\ w.start \in Nat /\ loss_first \in Nat /\ loss_first <= w.start
        /\ w.stats \in LossStats
        /\ loss_arrived \subseteq loss_first .. w.start + ReorderWindow - 1
        /\ \A j \in Slots : w.ring[Slot(w.head, j)] <=> w.start + j \in loss_arrived
        /\ w.stats.received = Arrived(loss_first, w.start, loss_arrived)
        /\ w.stats.lost = NotArrived(loss_first, w.start, loss_arrived)
        /\ w.stats.unique = Cardinality(loss_arrived)
    BY DEF WindowExact
  <1>2. i \in Nat /\ i <= ReorderWindow - 1 /\ ReorderWindow \in Nat
    BY LossAssumption DEF Slots
  <1>3. /\ Arrived(loss_first, w.start, loss_arrived') = Arrived(loss_first, w.start, loss_arrived)
        /\ NotArrived(loss_first, w.start, loss_arrived') = NotArrived(loss_first, w.start, loss_arrived)
    <2>1. w.start + i \notin loss_first .. w.start - 1
      BY <1>1, <1>2
    <2>2. /\ (loss_first .. w.start - 1) \cap loss_arrived' = (loss_first .. w.start - 1) \cap loss_arrived
          /\ (loss_first .. w.start - 1) \ loss_arrived' = (loss_first .. w.start - 1) \ loss_arrived
      BY <2>1
    <2> QED
      BY <2>2 DEF Arrived, NotArrived
  <1>4. Cardinality(loss_arrived') = Cardinality(loss_arrived) + 1
    <2>1. IsFiniteSet(loss_first .. w.start + ReorderWindow - 1)
      BY <1>1, <1>2, FS_Interval
    <2>2. IsFiniteSet(loss_arrived)
      BY <1>1, <2>1, FS_Subset
    <2> QED
      BY <2>2, FS_AddElement
  <1>5. /\ lossStats' \in LossStats /\ lossStats'.received = w.stats.received
        /\ lossStats'.lost = w.stats.lost /\ lossStats'.unique = w.stats.unique + 1
    <2>1. w.stats.unique + 1 \in Nat
      <3>1. w.stats.unique \in Nat
        BY <1>1 DEF LossStats
      <3> QED
        BY <3>1
    <2> QED
      BY <1>1, <2>1 DEF LossStats
  <1>6. \A j \in Slots : ring'[Slot(w.head, j)] <=> w.start + j \in loss_arrived'
    <2> SUFFICES ASSUME NEW j \in Slots
                 PROVE  ring'[Slot(w.head, j)] <=> w.start + j \in loss_arrived'
      OBVIOUS
    <2>1. Slot(w.head, j) \in Slots /\ Slot(w.head, i) \in Slots
      BY <1>1, SlotIsRemainder
    <2>2. CASE j = i
      BY <1>1, <2>1, <2>2
    <2>3. CASE j # i
      <3>1. Slot(w.head, j) # Slot(w.head, i)
        BY <1>1, <2>3, SlotInjective
      <3>2. ring'[Slot(w.head, j)] = w.ring[Slot(w.head, j)]
        BY <1>1, <2>1, <3>1
      <3>3. w.start + j # w.start + i
        BY <1>1, <2>3 DEF Slots
      <3> QED
        BY <1>1, <3>2, <3>3
    <2> QED
      BY <2>2, <2>3
  <1>7. ring' \in [Slots -> BOOLEAN]
    <2>1. Slot(w.head, i) \in Slots
      BY <1>1, SlotIsRemainder
    <2> QED
      BY <1>1, <2>1
  <1>8. loss_arrived' \subseteq loss_first .. w.start + ReorderWindow - 1
    BY <1>1, <1>2
  <1>9. /\ Window'.ring = ring' /\ Window'.head = w.head /\ Window'.start = w.start
        /\ Window'.stats = lossStats'
    BY DEF Window
  <1> QED
    BY <1>1, <1>3, <1>4, <1>5, <1>6, <1>7, <1>8, <1>9 DEF WindowExact

\* A window is stored back into the tracker.
LEMMA StoreExact ==
  ASSUME NEW w, WindowExact(w), ring' = w.ring, head' = w.head, window_start' = w.start,
         lossStats' = w.stats, UNCHANGED <<loss_first, loss_arrived>>
  PROVE  WindowExact(Window)'
  <1>1. /\ Window'.ring = w.ring /\ Window'.head = w.head /\ Window'.start = w.start
        /\ Window'.stats = w.stats
    BY DEF Window
  <1> QED
    BY <1>1 DEF WindowExact

\* Every packet, late, early, repeated or after a gap of any size, and every
\* finalize_through() keeps the window exact.
LEMMA LossStep == ASSUME LossIInv, [LossNext]_lossVars PROVE LossIInv'
  <1>0. WindowExact(Window) /\ sequence_set \in BOOLEAN
    BY DEF LossIInv
  <1>t. window_start \in Nat /\ head \in Slots /\ ReorderWindow \in Nat \ {0}
    BY <1>0, WindowFields, LossAssumption DEF WindowExact
  <1>1. ASSUME NEW seq \in 0 .. MaxPacket, observe_first(seq) PROVE LossIInv'
    <2>1. /\ ~sequence_set /\ sequence_set' = TRUE /\ window_start' = seq
          /\ ring' = [ring EXCEPT ![head] = TRUE]
          /\ lossStats' = [lossStats EXCEPT !.unique = @ + 1]
          /\ loss_first' = seq /\ loss_arrived' = {seq} /\ UNCHANGED head
      BY <1>1 DEF observe_first
    <2>2. /\ loss_arrived = {} /\ ring = NoneReceived /\ window_start = loss_first
      BY <2>1 DEF LossIInv
    <2>3. lossStats \in LossStats /\ lossStats.received = 0 /\ lossStats.lost = 0
          /\ lossStats.unique = 0
      <3>1. (window_start .. window_start - 1) = {}
        BY <1>t
      <3>2. /\ Arrived(loss_first, window_start, loss_arrived) = 0
            /\ NotArrived(loss_first, window_start, loss_arrived) = 0
            /\ Cardinality(loss_arrived) = 0
        BY <2>2, <3>1, FS_EmptySet DEF Arrived, NotArrived
      <3> QED
        BY <1>0, <3>2, WindowFields DEF WindowExact
    <2>4. /\ lossStats' \in LossStats /\ lossStats'.received = 0
          /\ lossStats'.lost = 0 /\ lossStats'.unique = 1
      BY <2>1, <2>3 DEF LossStats
    <2>5. /\ ring' \in [Slots -> BOOLEAN] /\ ring'[head]
          /\ \A s \in Slots \ {head} : ~ring'[s]
      BY <1>t, <2>1, <2>2 DEF NoneReceived
    <2>6. \A i \in Slots : ring'[Slot(head, i)] <=> seq + i \in {seq}
      <3> SUFFICES ASSUME NEW i \in Slots PROVE ring'[Slot(head, i)] <=> i = 0
        BY <1>t DEF Slots
      <3>1. Slot(head, i) \in Slots /\ (Slot(head, i) = head <=> i = 0)
        BY <1>t, SlotIsRemainder DEF Slot, Slots
      <3> QED
        BY <2>5, <3>1
    <2>7. Arrived(seq, seq, {seq}) = 0 /\ NotArrived(seq, seq, {seq}) = 0 /\ Cardinality({seq}) = 1
      <3>1. (seq .. seq - 1) \cap {seq} = {} /\ (seq .. seq - 1) \ {seq} = {}
        OBVIOUS
      <3> QED
        BY <3>1, FS_EmptySet, FS_Singleton DEF Arrived, NotArrived
    <2>8. {seq} \subseteq seq .. seq + ReorderWindow - 1 /\ seq \in Nat
      BY <1>t, LossAssumption
    <2>9. /\ Window'.ring = ring' /\ Window'.head = head /\ Window'.start = seq
          /\ Window'.stats = lossStats'
      BY <2>1 DEF Window
    <2>10. WindowExact(Window)'
      BY <1>t, <2>1, <2>4, <2>5, <2>6, <2>7, <2>8, <2>9 DEF WindowExact
    <2> QED
      BY <2>1, <2>10 DEF LossIInv
  <1>2. ASSUME NEW seq \in 0 .. MaxPacket, observe(seq) PROVE LossIInv'
    <2> DEFINE w == IF seq - window_start >= ReorderWindow
                    THEN advance(seq - window_start - ReorderWindow + 1) ELSE Window
               i == seq - w.start
    <2>1. /\ sequence_set /\ seq >= window_start
          /\ head' = w.head /\ window_start' = w.start
          /\ IF w.ring[(w.head + i) % ReorderWindow]
             THEN ring' = w.ring /\ lossStats' = w.stats /\ UNCHANGED loss_arrived
             ELSE /\ ring' = [w.ring EXCEPT ![(w.head + i) % ReorderWindow] = TRUE]
                  /\ lossStats' = [w.stats EXCEPT !.unique = @ + 1]
                  /\ loss_arrived' = loss_arrived \cup {seq}
          /\ UNCHANGED <<sequence_set, loss_first>>
      BY <1>2 DEF observe
    <2>2. seq \in Nat
      BY LossAssumption
    <2>3. WindowExact(w) /\ w.start \in Nat /\ i \in Slots
      <3>1. CASE seq - window_start >= ReorderWindow
        <4>1. seq - window_start - ReorderWindow + 1 \in Nat
          BY <1>t, <2>2, <3>1
        <4>2. /\ WindowExact(w)
              /\ w.start = window_start + (seq - window_start - ReorderWindow + 1)
          BY <1>0, <3>1, <4>1, AdvanceExact
        <4> HIDE DEF w
        <4>3. w.start \in Nat /\ i = ReorderWindow - 1
          BY <1>t, <2>2, <3>1, <4>2
        <4> QED
          BY <1>t, <4>2, <4>3 DEF Slots
      <3>2. CASE seq - window_start < ReorderWindow
        <4>1. WindowExact(w) /\ w.start = window_start
          BY <1>0, <1>t, <2>2, <3>2, WindowFields
        <4> QED
          BY <1>t, <2>1, <2>2, <3>2, <4>1 DEF Slots
      <3> QED
        BY <1>t, <2>2, <3>1, <3>2
    <2> HIDE DEF w
    <2>4. w.head \in Slots
      BY <2>3 DEF WindowExact
    <2>5. w.start + i = seq
      BY <2>2, <2>3
    <2>6. (w.head + i) % ReorderWindow = Slot(w.head, i)
      BY <2>3, <2>4, SlotIsRemainder
    <2>7. w.ring[Slot(w.head, i)] <=> w.start + i \in loss_arrived
      BY <2>3 DEF WindowExact
    <2> HIDE DEF i
    <2>8. WindowExact(Window)'
      <3>1. CASE w.ring[Slot(w.head, i)]
        BY <2>1, <2>3, <2>6, <3>1, StoreExact
      <3>2. CASE ~w.ring[Slot(w.head, i)]
        BY <2>1, <2>3, <2>5, <2>6, <2>7, <3>2, ArriveExact
      <3> QED
        BY <3>1, <3>2
    <2> QED
      BY <2>1, <2>8 DEF LossIInv
  <1>3. ASSUME NEW seq \in 0 .. MaxPacket, finalize_through(seq) PROVE LossIInv'
    <2> DEFINE w == advance(seq - window_start + 1)
    <2>1. /\ packet_seen /\ seq >= window_start
          /\ ring' = w.ring /\ head' = w.head /\ window_start' = w.start /\ lossStats' = w.stats
          /\ UNCHANGED <<sequence_set, loss_first, loss_arrived>>
      BY <1>3 DEF finalize_through
    <2>2. WindowExact(w)
      <3>1. seq - window_start + 1 \in Nat
        BY <1>t, <2>1, LossAssumption
      <3> QED
        BY <1>0, <3>1, AdvanceExact
    <2> HIDE DEF w
    <2>3. WindowExact(Window)'
      BY <2>1, <2>2, StoreExact
    <2> QED
      BY <1>0, <2>1, <2>3 DEF LossIInv
  <1>4. CASE UNCHANGED lossVars
    <2>1. WindowExact(Window)'
      BY <1>0, <1>4, WindowFields, StoreExact DEF lossVars
    <2> QED
      BY <1>4, <2>1 DEF LossIInv, lossVars
  <1> QED
    BY <1>1, <1>2, <1>3, <1>4 DEF LossNext

\* The received, lost and unique counters of PacketLossTracker are exact, for
\* every size of the reorder window and every order of packets (observe(),
\* advance()).
THEOREM LossCountedExactly == LossSpec => []LossExact
  <1>1. LossIInv /\ [LossNext]_lossVars => LossIInv'
    BY LossStep
  <1>2. LossIInv => LossExact
    BY WindowFields DEF LossIInv, WindowExact, LossExact, Arrived, NotArrived
  <1> QED
    BY LossInitInv, <1>1, <1>2, PTL DEF LossSpec

-----------------------------------------------------------------------------
(* Video. *)
\* What the publisher sends.
Datagrams ==
    [stream : Nat, frame : Nat \ {0}, index : Nat, count : Nat \ {0}, time : Nat,
     key : BOOLEAN, capture : Nat, opening : Nat]

\* What the jitter buffer and the decoder get.
Pictures == [frame : Nat, count : Nat, got : SUBSET Datagrams, key : BOOLEAN]

\* Two datagrams under one stream and frame id show one capture unless two openings
\* of the publisher sent them.
OneShot(d, e) ==
    d.opening = e.opening /\ d.frame = e.frame => d.capture = e.capture

\* The fragments S of a frame: of one stream, time and opening's capture, with
\* different numbers up to the count.
Matching(S, id, st, n, t) ==
    /\ \A g \in S : /\ g.index \in 1 .. n /\ g.time = t
                    /\ g.frame = id /\ g.stream = st
    /\ \A g, h \in S : (g.index = h.index => g = h) /\ OneShot(g, h)

\* A frame under way holds fragments that were sent and that match.
IsPartial(p, id) ==
    /\ p \in [count : Nat \ {0}, time : Nat, got : SUBSET Datagrams, key : BOOLEAN]
    /\ p.got \subseteq air
    /\ Matching(p.got, id, stream, p.count, p.time)

\* A picture is whole.
Whole(f) ==
    /\ f \in Pictures
    /\ {g.index : g \in f.got} = 1 .. f.count
    /\ \A g, h \in f.got :
          \/ g.capture = h.capture
          \/ g.opening # h.opening /\ g.stream = h.stream /\ g.time = h.time

\* What is sent: an opening of the publisher uses a frame id for one capture.
SendingOK ==
    /\ encoder_key \in BOOLEAN /\ capture \in Nat /\ opens \in Nat
    /\ publisher \in [open : BOOLEAN, stream : Nat, next : Nat \ {0}]
    /\ air \subseteq Datagrams
    /\ \A d \in air : d.opening <= opens /\ (d.opening = opens => d.frame < publisher.next)
    /\ \A d, e \in air : OneShot(d, e)

\* What is being put together.
PartialsOK == \A id \in DOMAIN partial : id \in Nat /\ IsPartial(partial[id], id)

\* The frames of the jitter buffer are whole, all different and all later than
\* the last one released.
JitterOK ==
    /\ last_released \in Nat
    /\ \A f \in jitter : Whole(f) /\ f.frame > last_released
    /\ \A f, g \in jitter : f.frame = g.frame => f = g

\* What was released.
ReleasedOK ==
    /\ released \in Seq(Pictures)
    /\ \A i \in 1 .. Len(released) : Whole(released[i])
    /\ \A i \in 1 .. Len(released) - 1 : released[i].frame < released[i + 1].frame
    /\ released # <<>> => released[Len(released)].frame = last_released

\* The inductive invariant.
VideoIInv == SendingOK /\ PartialsOK /\ JitterOK /\ ReleasedOK

\* A frame of which as many fragments arrived as were sent has them all.
LEMMA AllArrived ==
  ASSUME NEW n \in Nat, NEW S, Cardinality(S) = n,
         \A g \in S : g.index \in 1 .. n,
         \A g, h \in S : g.index = h.index => g = h
  PROVE  {g.index : g \in S} = 1 .. n
  <1> DEFINE f == [g \in S |-> g.index]
             T == {g.index : g \in S}
  <1>1. f \in Bijection(S, T)
    BY DEF Bijection, Injection, Surjection, IsInjective
  <1>2. ExistsBijection(S, T)
    BY <1>1 DEF ExistsBijection
  <1>3. IsFiniteSet(1 .. n) /\ Cardinality(1 .. n) = n
    BY FS_Interval
  <1>4. T \subseteq 1 .. n
    OBVIOUS
  <1>5. IsFiniteSet(T)
    BY <1>3, <1>4, FS_Subset
  <1>6. IsFiniteSet(S)
    <2>1. ExistsBijection(T, S)
      BY <1>2, Fun_ExistsBijSymmetric
    <2> HIDE DEF T
    <2> QED
      BY <1>5, <2>1, FS_Bijection
  <1>7. Cardinality(T) = n
    <2> HIDE DEF T
    <2> QED
      BY <1>2, <1>6, FS_Bijection
  <1> QED
    <2> HIDE DEF T
    <2>1. T = 1 .. n
      BY <1>3, <1>4, <1>7, FS_Subset
    <2> QED
      BY <2>1 DEF T

\* The frame that pop_ready() takes.
LEMMA EarliestExists ==
  ASSUME NEW S \in SUBSET Nat, S # {}
  PROVE  Min(S) \in S /\ \A y \in S : Min(S) <= y
  <1>1. PICK m \in S : \A y \in S : ~(<<y, m>> \in OpToRel(<, Nat))
    BY WFMin, NatLessThanWellFounded, Zenon
  <1>2. \A y \in S : y \in Nat /\ m \in Nat /\ ~(y < m)
    BY <1>1 DEF OpToRel
  <1>3. \E x \in S : \A y \in S : x =< y
    BY <1>2
  <1> QED
    BY <1>3 DEF Min

\* publish() sends numbered fragments of a new capture, under a new id of this
\* opening.
LEMMA Published ==
  ASSUME SendingOK, publish
  PROVE  SendingOK' /\ air \subseteq air'
  <1>1. PICK time \in 0 .. MaxTime, n \in 1 .. MaxFrameFragments : \E sent \in 0 .. n :
           air' = air \cup {d \in packetize(time, n) : d.index <= sent}
    BY DEF publish
  <1>2. /\ n \in Nat \ {0} /\ time \in Nat
        /\ publisher.next \in Nat \ {0} /\ publisher.stream \in Nat
        /\ capture \in Nat /\ capture + 1 \in Nat /\ opens \in Nat /\ encoder_key \in BOOLEAN
    BY VideoAssumption DEF SendingOK
  <1>3. ASSUME NEW d \in packetize(time, n)
        PROVE  /\ d \in Datagrams /\ d.opening = opens /\ d.frame = publisher.next
               /\ d.capture = capture + 1
    <2>1. PICK i \in 1 .. n :
             d = [stream |-> publisher.stream, frame |-> publisher.next, index |-> i, count |-> n,
                  time |-> time, key |-> encoder_key, capture |-> capture + 1,
                  opening |-> opens]
      BY DEF packetize
    <2>2. i \in Nat
      OBVIOUS
    <2>3. PICK id \in Nat \ {0}, st \in Nat, k \in BOOLEAN, c \in Nat, o \in Nat :
             /\ id = publisher.next /\ st = publisher.stream /\ k = encoder_key
             /\ c = capture + 1 /\ o = opens
      BY <1>2
    <2>4. d = [stream |-> st, frame |-> id, index |-> i, count |-> n, time |-> time, key |-> k,
               capture |-> c, opening |-> o]
      BY <2>1, <2>3
    <2> QED
      BY <1>2, <2>2, <2>3, <2>4 DEF Datagrams
  <1>4. \A d \in air' : d \in air \/ d \in packetize(time, n)
    BY <1>1
  <1>5. air' \subseteq Datagrams /\ air \subseteq air'
    BY <1>1, <1>3, <1>4 DEF SendingOK
  <1>6. /\ publisher' \in [open : BOOLEAN, stream : Nat, next : Nat \ {0}]
        /\ publisher'.next = publisher.next + 1
    BY <1>2 DEF publish, SendingOK
  <1>7. encoder_key' \in BOOLEAN /\ opens' = opens /\ capture' \in Nat
    BY <1>2 DEF publish
  <1>8. ASSUME NEW d \in air'
        PROVE  d.opening <= opens' /\ (d.opening = opens' => d.frame < publisher'.next)
    <2>1. CASE d \in air
      <3>1. d.frame \in Nat /\ d.opening <= opens /\ (d.opening = opens => d.frame < publisher.next)
        BY <2>1 DEF SendingOK, Datagrams
      <3> QED
        BY <1>2, <1>6, <1>7, <3>1
    <2>2. CASE d \in packetize(time, n)
      BY <1>2, <1>3, <1>6, <1>7, <2>2
    <2> QED
      BY <1>4, <2>1, <2>2
  <1>9. ASSUME NEW d \in air', NEW e \in air' PROVE OneShot(d, e)
    <2>1. CASE d \in air /\ e \in air
      BY <2>1 DEF SendingOK
    <2>2. CASE d \in packetize(time, n) /\ e \in packetize(time, n)
      BY <1>3, <2>2 DEF OneShot
    <2>3. ASSUME NEW x \in air, NEW y \in packetize(time, n)
          PROVE  ~(x.opening = y.opening /\ x.frame = y.frame)
      <3>1. x.frame \in Nat /\ (x.opening = opens => x.frame < publisher.next)
        BY DEF SendingOK, Datagrams
      <3>2. y.opening = opens /\ y.frame = publisher.next
        BY <1>3
      <3> QED
        BY <1>2, <3>1, <3>2
    <2> QED
      BY <1>4, <2>1, <2>2, <2>3 DEF OneShot
  <1> QED
    BY <1>5, <1>6, <1>7, <1>8, <1>9 DEF SendingOK

\* Frames under way stay what they are while more is sent.
LEMMA PartialsKept ==
  ASSUME PartialsOK, air \subseteq air', UNCHANGED <<partial, stream>>
  PROVE  PartialsOK'
  BY DEF PartialsOK, IsPartial, Matching, OneShot

\* jitter_push() of a whole frame.
LEMMA Buffered ==
  ASSUME JitterOK, NEW f, Whole(f), jitter' = jitter_push(f), UNCHANGED last_released
  PROVE  JitterOK'
  <1>1. f.frame \in Nat
    BY DEF Whole, Pictures
  <1>2. CASE f.frame <= last_released \/ f.frame \in IdsOf(jitter)
    <2>1. jitter' = jitter
      BY <1>2 DEF jitter_push
    <2> QED
      BY <2>1 DEF JitterOK
  <1>3. CASE ~(f.frame <= last_released \/ f.frame \in IdsOf(jitter))
    <2>1. jitter' \subseteq jitter \cup {f}
      BY <1>3 DEF jitter_push
    <2>2. \A g \in jitter : g.frame # f.frame
      BY <1>3 DEF IdsOf
    <2>3. f.frame > last_released
      BY <1>1, <1>3 DEF JitterOK
    <2> QED
      BY <2>1, <2>2, <2>3 DEF JitterOK
  <1> QED
    BY <1>2, <1>3

\* push(): a fragment joins its frame or completes it.
LEMMA Pushed ==
  ASSUME VideoIInv, NEW d \in air, push(d)
  PROVE  VideoIInv'
  <1> USE DEF VideoIInv
  <1>1. d \in Datagrams /\ d.count \in Nat \ {0} /\ d.time \in Nat
        /\ d.frame \in Nat /\ d.key \in BOOLEAN
    BY DEF SendingOK, Datagrams
  <1>2. PICK p : p = IF d.frame \in DOMAIN partial THEN partial[d.frame] ELSE Partial(d)
    OBVIOUS
  <1>3. IsPartial(p, d.frame)
    <2>1. IsPartial(Partial(d), d.frame)
      BY <1>1 DEF IsPartial, Partial, Matching
    <2> QED
      BY <1>2, <2>1 DEF PartialsOK
  <1>4. PICK q : q = [p EXCEPT !.got = @ \cup {d}, !.key = @ \/ d.key]
    OBVIOUS
  <1>5. /\ d.stream = stream /\ d.index \in 1 .. d.count
        /\ ~conflicting(p, d) /\ \A g \in p.got : g.index # d.index
        /\ \/ /\ Cardinality(q.got) = q.count
              /\ partial' = Forget(partial, d.frame)
              /\ jitter' = jitter_push([frame |-> d.frame, count |-> q.count,
                                        got |-> q.got, key |-> q.key])
           \/ /\ partial' = [id \in DOMAIN partial \cup {d.frame} |->
                                IF id = d.frame THEN q ELSE partial[id]]
              /\ UNCHANGED jitter
        /\ UNCHANGED <<encoder_key, capture, publisher, opens, air, stream, last_released, released>>
    BY <1>2, <1>4 DEF push
  <1>6. p.count = d.count /\ p.time = d.time
    BY <1>5 DEF conflicting
  <1>7. /\ q.count = p.count /\ q.time = p.time
        /\ q.got = p.got \cup {d}
        /\ q.key \in BOOLEAN
    BY <1>1, <1>3, <1>4 DEF IsPartial
  <1>8. IsPartial(q, d.frame)
    <2>1. q.got \in SUBSET Datagrams /\ q.got \subseteq air
      BY <1>1, <1>3, <1>7 DEF IsPartial
    <2>2. Matching(q.got, d.frame, stream, q.count, q.time)
      <3>1. Matching(p.got, d.frame, stream, p.count, p.time)
        BY <1>3 DEF IsPartial
      <3>2. \A g, h \in q.got : OneShot(g, h)
        BY <2>1 DEF SendingOK
      <3>3. \A g \in q.got : g \in p.got \/ g = d
        BY <1>7
      <3>4. \A g \in q.got : /\ g.index \in 1 .. q.count /\ g.time = q.time
                             /\ g.frame = d.frame /\ g.stream = stream
        BY <1>5, <1>6, <1>7, <3>1, <3>3 DEF Matching
      <3>5. \A g, h \in q.got : g.index = h.index => g = h
        BY <1>5, <3>1, <3>3 DEF Matching
      <3> QED
        BY <3>2, <3>4, <3>5 DEF Matching
    <2>3. q \in [count : Nat \ {0}, time : Nat, got : SUBSET Datagrams, key : BOOLEAN]
      <3>1. p \in [count : Nat \ {0}, time : Nat, got : SUBSET Datagrams, key : BOOLEAN]
        BY <1>3 DEF IsPartial
      <3>2. q = [p EXCEPT !.got = q.got, !.key = q.key]
        BY <1>4, <3>1
      <3> QED
        BY <1>7, <2>1, <3>1, <3>2
    <2> QED
      BY <2>1, <2>2, <2>3 DEF IsPartial
  <1>9. SendingOK' /\ (ReleasedOK /\ last_released' = last_released => ReleasedOK')
    BY <1>5 DEF SendingOK, ReleasedOK
  <1>10. CASE /\ Cardinality(q.got) = q.count
              /\ partial' = Forget(partial, d.frame)
              /\ jitter' = jitter_push([frame |-> d.frame, count |-> q.count,
                                        got |-> q.got, key |-> q.key])
    <2>1. PICK f : f = [frame |-> d.frame, count |-> q.count, got |-> q.got, key |-> q.key]
      OBVIOUS
    <2>2. q.count \in Nat /\ Matching(q.got, d.frame, stream, q.count, q.time)
      BY <1>8 DEF IsPartial
    <2>3. {g.index : g \in q.got} = 1 .. q.count
      <3>1. /\ \A g \in q.got : g.index \in 1 .. q.count
            /\ \A g, h \in q.got : g.index = h.index => g = h
        BY <2>2 DEF Matching
      <3> QED
        BY <1>10, <2>2, <3>1, AllArrived
    <2>4. \A g, h \in q.got :
             \/ g.capture = h.capture
             \/ g.opening # h.opening /\ g.stream = h.stream /\ g.time = h.time
      BY <2>2 DEF Matching, OneShot
    <2>5. f \in Pictures /\ f.got = q.got /\ f.count = q.count
      BY <1>1, <1>8, <2>1 DEF Pictures, IsPartial
    <2>6. Whole(f)
      BY <2>3, <2>4, <2>5 DEF Whole
    <2>7. JitterOK'
      BY <1>5, <1>10, <2>1, <2>6, Buffered
    <2>8. PartialsOK'
      BY <1>5, <1>10 DEF PartialsOK, Forget, Restrict, IsPartial
    <2> QED
      BY <1>5, <1>9, <2>7, <2>8
  <1>11. CASE partial' = [id \in DOMAIN partial \cup {d.frame} |->
                                IF id = d.frame THEN q ELSE partial[id]] /\ UNCHANGED jitter
    <2>1. /\ DOMAIN partial' = DOMAIN partial \cup {d.frame}
          /\ \A id \in DOMAIN partial' : partial'[id] = IF id = d.frame THEN q ELSE partial[id]
      BY <1>11
    <2>2. PartialsOK'
      <3>1. ASSUME NEW id \in DOMAIN partial' PROVE id \in Nat /\ IsPartial(partial'[id], id)
        BY <1>1, <1>8, <2>1 DEF PartialsOK
      <3>2. UNCHANGED <<air, stream>>
        BY <1>5
      <3> QED
        BY <3>1, <3>2 DEF PartialsOK, IsPartial
    <2>3. JitterOK'
      BY <1>5, <1>11 DEF JitterOK
    <2> QED
      BY <1>5, <1>9, <2>2, <2>3
  <1> QED
    BY <1>5, <1>10, <1>11

\* pop_ready(): the earliest frame is released.
LEMMA Popped ==
  ASSUME VideoIInv, pop_ready
  PROVE  VideoIInv'
  <1> USE DEF VideoIInv
  <1>1. PICK f : f = CHOOSE g \in jitter : g.frame = Min(IdsOf(jitter))
    OBVIOUS
  <1>2. /\ jitter' = jitter \ {f} /\ last_released' = f.frame /\ released' = Append(released, f)
        /\ jitter # {}
        /\ UNCHANGED <<encoder_key, capture, publisher, opens, air, stream, partial>>
    BY <1>1 DEF pop_ready
  <1>3. IdsOf(jitter) \in SUBSET Nat /\ IdsOf(jitter) # {}
    BY <1>2 DEF IdsOf, JitterOK, Whole, Pictures
  <1>4. Min(IdsOf(jitter)) \in IdsOf(jitter) /\ \A y \in IdsOf(jitter) : Min(IdsOf(jitter)) <= y
    BY <1>3, EarliestExists
  <1>5. \E g \in jitter : g.frame = Min(IdsOf(jitter))
    BY <1>4 DEF IdsOf
  <1>6. f \in jitter /\ f.frame = Min(IdsOf(jitter))
    BY <1>1, <1>5
  <1>7. \A g \in jitter : f.frame <= g.frame
    BY <1>4, <1>6 DEF IdsOf
  <1>8. /\ f.frame \in Nat /\ f.frame > last_released /\ Whole(f) /\ f \in Pictures
        /\ last_released \in Nat /\ \A g \in jitter : g.frame \in Nat
    BY <1>6 DEF JitterOK, Whole, Pictures
  <1>9. JitterOK'
    <2>1. \A g \in jitter' : g.frame > f.frame
      BY <1>2, <1>6, <1>7, <1>8 DEF JitterOK
    <2> QED
      BY <1>2, <1>8, <2>1 DEF JitterOK
  <1>10. ReleasedOK'
    <2>1. PICK r \in Seq(Pictures) : r = released
      BY DEF ReleasedOK
    <2>2. PICK s : s = Append(r, f)
      OBVIOUS
    <2>3. /\ s \in Seq(Pictures) /\ Len(s) = Len(r) + 1 /\ Len(r) \in Nat
      BY <1>8, <2>2
    <2>4. s[Len(r) + 1] = f /\ \A i \in 1 .. Len(r) : s[i] = r[i]
      BY <1>8, <2>2
    <2>5. \A i \in 1 .. Len(s) : Whole(s[i])
      <3>1. \A i \in 1 .. Len(s) : i \in 1 .. Len(r) \/ i = Len(r) + 1
        BY <2>3
      <3> QED
        BY <1>8, <2>1, <2>4, <3>1 DEF ReleasedOK
    <2>6. ASSUME NEW i \in 1 .. Len(s) - 1 PROVE s[i].frame < s[i + 1].frame
      <3>1. CASE i = Len(r)
        <4>1. r # <<>> /\ s[i] = r[Len(r)] /\ s[i + 1] = f
          BY <2>3, <2>4, <3>1
        <4>2. r[Len(r)].frame = last_released
          BY <2>1, <4>1 DEF ReleasedOK
        <4> QED
          BY <1>8, <4>1, <4>2
      <3>2. CASE i # Len(r)
        <4>1. i \in 1 .. Len(r) - 1 /\ i + 1 \in 1 .. Len(r) /\ i \in 1 .. Len(r)
          BY <2>3, <3>2
        <4> QED
          BY <2>1, <2>4, <4>1 DEF ReleasedOK
      <3> QED
        BY <3>1, <3>2
    <2>7. s # <<>> /\ s[Len(s)] = f
      BY <2>3, <2>4
    <2>8. released' = s
      BY <1>2, <2>1, <2>2
    <2> QED
      BY <1>2, <2>3, <2>5, <2>6, <2>7, <2>8 DEF ReleasedOK
  <1>11. SendingOK' /\ PartialsOK'
    BY <1>2 DEF SendingOK, PartialsOK, IsPartial
  <1> QED
    BY <1>9, <1>10, <1>11

\* The inductive invariant holds in every state of a stream.
LEMMA VideoInvariant == VideoSpec => []VideoIInv
  <1>1. VideoInit => VideoIInv
    <2> SUFFICES ASSUME VideoInit PROVE VideoIInv
      OBVIOUS
    <2>1. SendingOK
      <3>1. 1 \in Nat \ {0} /\ 0 \in Nat
        OBVIOUS
      <3>2. publisher \in [open : BOOLEAN, stream : Nat, next : Nat \ {0}]
        BY <3>1 DEF VideoInit
      <3>3. encoder_key \in BOOLEAN /\ capture \in Nat /\ opens \in Nat /\ air = {}
        BY <3>1, Zenon DEF VideoInit
      <3> QED
        BY <3>2, <3>3 DEF SendingOK
    <2>2. PartialsOK
      <3>1. DOMAIN partial = {}
        BY DEF VideoInit
      <3> QED
        BY <3>1 DEF PartialsOK
    <2>3. JitterOK
      BY DEF VideoInit, JitterOK
    <2>4. released = <<>> /\ <<>> \in Seq(Pictures) /\ Len(<<>>) = 0
      BY DEF VideoInit
    <2>5. ReleasedOK
      BY <2>4 DEF ReleasedOK
    <2> QED
      BY <2>1, <2>2, <2>3, <2>5 DEF VideoIInv
  <1>2. VideoIInv /\ [VideoNext]_videoVars => VideoIInv'
    <2> SUFFICES ASSUME VideoIInv, [VideoNext]_videoVars PROVE VideoIInv'
      OBVIOUS
    <2>1. CASE air \subseteq air' /\ UNCHANGED receiverVars /\ SendingOK'
      <3>1. PartialsOK'
        BY <2>1, PartialsKept DEF VideoIInv, receiverVars
      <3> QED
        BY <2>1, <3>1 DEF VideoIInv, receiverVars, JitterOK, ReleasedOK
    <2>2. CASE \/ pipeline_start \/ pipeline_stop \/ backoff_over \/ poll_recovering
               \/ poll_fails
      <3>1. /\ UNCHANGED <<capture, publisher, opens, air, receiverVars>>
            /\ encoder_key' \in BOOLEAN
        BY <2>2 DEF VideoIInv, SendingOK, pipeline_start, pipeline_stop, backoff_over,
                    poll_recovering, poll_fails, enter_recovery, reset_components
      <3>2. SendingOK'
        BY <3>1 DEF VideoIInv, SendingOK
      <3> QED
        BY <2>1, <3>1, <3>2
    <2>3. CASE (\E id \in Streams : open_publisher(id)) \/ close_publisher
      <3>1. CASE close_publisher
        <4>1. /\ UNCHANGED <<encoder_key, capture, opens, air, receiverVars>>
              /\ publisher' \in [open : BOOLEAN, stream : Nat, next : Nat \ {0}]
              /\ publisher'.next = publisher.next
          BY <3>1 DEF VideoIInv, SendingOK, close_publisher
        <4>2. SendingOK'
          BY <4>1 DEF VideoIInv, SendingOK
        <4> QED
          BY <2>1, <4>1, <4>2
      <3>2. CASE \E id \in Streams : open_publisher(id)
        <4>1. PICK id \in Streams : open_publisher(id)
          BY <3>2
        <4>2. /\ UNCHANGED <<encoder_key, capture, air, receiverVars>> /\ opens' = opens + 1
              /\ publisher' \in [open : BOOLEAN, stream : Nat, next : Nat \ {0}]
          BY <4>1, VideoAssumption DEF open_publisher
        <4>3. ASSUME NEW d \in air PROVE d.opening <= opens' /\ d.opening # opens'
          <5>1. d.opening \in Nat /\ opens \in Nat /\ d.opening <= opens
            BY DEF VideoIInv, SendingOK, Datagrams
          <5> QED
            BY <4>2, <5>1
        <4>4. SendingOK'
          BY <4>2, <4>3 DEF VideoIInv, SendingOK
        <4> QED
          BY <2>1, <4>2, <4>4
      <3> QED
        BY <2>3, <3>1, <3>2
    <2>4. CASE publish
      BY <2>1, <2>4, Published DEF VideoIInv, publish
    <2>9. CASE \E id \in Streams : receiver_reset(id)
      <3>1. /\ DOMAIN partial' = {} /\ jitter' = {} /\ last_released' = 0 /\ released' = <<>>
            /\ UNCHANGED <<encoder_key, capture, publisher, opens, air>>
        BY <2>9 DEF receiver_reset
      <3>2. SendingOK' /\ PartialsOK' /\ JitterOK'
        BY <3>1 DEF VideoIInv, SendingOK, PartialsOK, JitterOK
      <3>3. <<>> \in Seq(Pictures) /\ Len(<<>>) = 0
        OBVIOUS
      <3>4. ReleasedOK'
        BY <3>1, <3>3 DEF ReleasedOK
      <3> QED
        BY <3>2, <3>4 DEF VideoIInv
    <2>5. CASE \E d \in air : push(d)
      BY <2>5, Pushed
    <2>6. CASE \E id \in DOMAIN partial : expire(id)
      <3>1. PICK id \in DOMAIN partial : expire(id)
        BY <2>6
      <3>2. PartialsOK'
        BY <3>1 DEF VideoIInv, PartialsOK, IsPartial, expire, Forget, Restrict
      <3> QED
        BY <3>1, <3>2 DEF VideoIInv, SendingOK, JitterOK, ReleasedOK, expire
    <2>7. CASE pop_ready
      BY <2>7, Popped
    <2>8. CASE UNCHANGED videoVars
      BY <2>8 DEF VideoIInv, SendingOK, PartialsOK, IsPartial, JitterOK, ReleasedOK, videoVars
    <2> QED
      BY <2>2, <2>3, <2>4, <2>5, <2>6, <2>7, <2>8, <2>9 DEF VideoNext
  <1> QED
    BY <1>1, <1>2, PTL DEF VideoSpec

\* The decoder gets whole pictures in the order of their ids, for every number of
\* fragments, frames in flight and remembered frames and whatever is lost, repeated
\* or overtaken; two captures meet in one only when a publisher was opened again
\* under its stream id and both bear the same time (FrameReassembler::push(),
\* FrameJitterBuffer, VideoPacketizer::packetize()).
THEOREM PicturesWhole == VideoSpec => []PicturesWholeInOrder
  <1>1. VideoIInv => PicturesWholeInOrder
    BY DEF VideoIInv, ReleasedOK, Whole, PicturesWholeInOrder
  <1> QED
    BY <1>1, VideoInvariant, PTL


-----------------------------------------------------------------------------
(* The agent of a student's desktop. *)
\* The threads that call BlockInput.
Threads == {"ui", "pipe"}

\* The other thread.
Other(t) == IF t = "ui" THEN "pipe" ELSE "ui"

\* The states of the agent process.
Agents ==
    [visible : SUBSET Windows, locked : BOOLEAN, suppressed : BOOLEAN,
     was_visible : SUBSET Windows, viewing : BOOLEAN, mode : {"focus", "windowed"},
     lock_input : BOOLEAN, demo : BOOLEAN, remote : BOOLEAN, connected : BOOLEAN,
     host : {"idle", "engaged", "failed"},
     pairing : {"hidden", "choices", "code", "status", "waiting"},
     blocked : BOOLEAN, calls : [Threads -> Seq(BOOLEAN)], raced : BOOLEAN,
     restored : BOOLEAN]

\* The messages a thread posts.
AgentMessages ==
    [type : {"broadcast", "annotation"}, on : BOOLEAN]
    \cup [type : {"mode"}, mode : {"focus", "windowed"}, on : BOOLEAN]
    \cup [type : {"server_offline", "host_status", "exam", "service_gone"}]

\* The keyboard and mouse are to be blocked, for a demonstration or by remote control.
Held(a) == a.demo \/ a.remote

\* The last of a thread's calls blocks exactly when the input is to be blocked.
LastSays(q, held) == q # <<>> /\ (q[Len(q)] <=> held)

\* As long as the threads' calls have not met, one thread has none, and the last
\* call to come, or Windows itself, agrees with the agent's flags.
Told(a) ==
    ~a.raced =>
        /\ a.calls["ui"] = <<>> \/ a.calls["pipe"] = <<>>
        /\ \A t \in Threads : a.calls[t] # <<>> => LastSays(a.calls[t], Held(a))
        /\ (\A t \in Threads : a.calls[t] = <<>>) => (a.blocked <=> Held(a))

\* What a function of thread t may do to the flags and the thread's calls.
Moved(a, b, t) ==
    /\ b.calls[Other(t)] = a.calls[Other(t)]
    /\ b.blocked = a.blocked /\ b.raced = a.raced
    /\ \/ b.calls[t] = a.calls[t] /\ (Held(b) <=> Held(a))
       \/ LastSays(b.calls[t], Held(b))

\* What of the agent the windows around an exam are not about.
SameControl(a, b) ==
    /\ b.remote = a.remote /\ b.connected = a.connected /\ b.viewing = a.viewing
    /\ b.pairing = a.pairing /\ b.host = a.host

\* Nothing of a teacher is left on the screen, nor will the end of an exam show it.
Clean(a) ==
    /\ "chat" \notin a.visible /\ "chat" \notin a.was_visible
    /\ "broadcast" \in a.visible => a.restored
    /\ a.demo => a.restored

\* A call added to a thread's calls is its last one.
LEMMA LastAdded ==
  ASSUME NEW q \in Seq(BOOLEAN), NEW v \in BOOLEAN, NEW held \in BOOLEAN, v <=> held
  PROVE  Append(q, v) \in Seq(BOOLEAN) /\ LastSays(Append(q, v), held)
  <1>1. Append(q, v) \in Seq(BOOLEAN) /\ Len(Append(q, v)) = Len(q) + 1
    OBVIOUS
  <1>2. Append(q, v)[Len(q) + 1] = v
    OBVIOUS
  <1>3. Append(q, v) # <<>>
    BY <1>1
  <1>4. PICK r \in Seq(BOOLEAN) : r = Append(q, v)
    BY <1>1, Zenon
  <1>5. r # <<>> /\ r[Len(r)] = v
    BY <1>1, <1>2, <1>3, <1>4
  <1>6. LastSays(r, held)
    BY <1>5, Zenon DEF LastSays
  <1> QED
    BY <1>1, <1>4, <1>6, Zenon

\* What functions of one thread do one after the other, they do together.
LEMMA MovedOn ==
  ASSUME NEW a, NEW b, NEW c, NEW t, Moved(a, b, t), Moved(b, c, t)
  PROVE  Moved(a, c, t)
  <1>1. CASE c.calls[t] = b.calls[t] /\ (Held(c) <=> Held(b))
    <2>1. LastSays(b.calls[t], Held(b)) => LastSays(c.calls[t], Held(c))
      BY <1>1, Zenon DEF LastSays
    <2> QED
      BY <1>1, <2>1, Zenon DEF Moved
  <1>2. CASE LastSays(c.calls[t], Held(c))
    BY <1>2, Zenon DEF Moved
  <1> QED
    BY <1>1, <1>2, Zenon DEF Moved

\* apply_broadcast_input_lock() records what it was asked for, and its call, if it
\* has to make one, agrees with the flags.
LEMMA InputLocked ==
  ASSUME NEW a \in Agents, NEW t \in Threads, NEW lock \in BOOLEAN, NEW b,
         b = apply_broadcast_input_lock(a, t, lock)
  PROVE  /\ b \in Agents /\ Moved(a, b, t) /\ SameControl(a, b)
         /\ b.demo = lock
         /\ b.visible = a.visible /\ b.was_visible = a.was_visible /\ b.restored = a.restored
         /\ b.suppressed = a.suppressed /\ b.mode = a.mode /\ b.lock_input = a.lock_input
  <1>1. CASE a.demo = lock
    <2>1. b = a
      BY <1>1 DEF apply_broadcast_input_lock
    <2> QED
      BY <1>1, <2>1, Zenon DEF Moved, SameControl, Held
  <1>2. CASE a.demo # lock
    <2>0. t \in {"ui", "pipe"} /\ Other(t) \in {"ui", "pipe"} /\ Other(t) # t
      BY DEF Threads, Other
    <2>1. a.calls \in [Threads -> Seq(BOOLEAN)] /\ a.demo \in BOOLEAN /\ a.remote \in BOOLEAN
      BY DEF Agents
    <2>2. PICK q \in Seq(BOOLEAN) : q = IF a.remote THEN a.calls[t] ELSE Append(a.calls[t], lock)
      <3>1. a.calls[t] \in Seq(BOOLEAN)
        BY <2>1
      <3>2. Append(a.calls[t], lock) \in Seq(BOOLEAN)
        BY <3>1
      <3>3. (IF a.remote THEN a.calls[t] ELSE Append(a.calls[t], lock)) \in Seq(BOOLEAN)
        BY <3>1, <3>2, Zenon
      <3> QED
        BY <3>3, Zenon
    <2>3. b = [a EXCEPT !.demo = lock, !.calls = [a.calls EXCEPT ![t] = q]]
      BY <1>2, <2>2 DEF apply_broadcast_input_lock
    <2>4. [a.calls EXCEPT ![t] = q] \in [Threads -> Seq(BOOLEAN)]
      BY <2>1
    <2>5. [a EXCEPT !.demo = lock, !.calls = [a.calls EXCEPT ![t] = q]] \in Agents
      BY <2>4 DEF Agents
    <2>6. b \in Agents
      BY <2>3, <2>5, Zenon
    <2>7. /\ b.demo = lock /\ b.calls = [a.calls EXCEPT ![t] = q]
          /\ b.blocked = a.blocked /\ b.raced = a.raced /\ SameControl(a, b)
          /\ b.visible = a.visible /\ b.was_visible = a.was_visible /\ b.restored = a.restored
          /\ b.suppressed = a.suppressed /\ b.mode = a.mode /\ b.lock_input = a.lock_input
      BY <2>3 DEF Agents, SameControl
    <2>8. b.calls[t] = q /\ b.calls[Other(t)] = a.calls[Other(t)]
      BY <2>0, <2>1, <2>7
    <2>9. CASE a.remote
      <3>1. q = a.calls[t]
        BY <2>2, <2>9
      <3>2. b.remote
        BY <2>7, <2>9, Zenon DEF SameControl
      <3>3. Held(b) <=> Held(a)
        BY <2>9, <3>2, Zenon DEF Held
      <3> QED
        BY <2>6, <2>7, <2>8, <3>1, <3>3, Zenon DEF Moved
    <2>10. CASE ~a.remote
      <3>1. q = Append(a.calls[t], lock) /\ a.calls[t] \in Seq(BOOLEAN)
        BY <2>1, <2>2, <2>10
      <3>2. lock <=> Held(b)
        BY <2>7, <2>10, Zenon DEF SameControl, Held
      <3>3. Held(b) \in BOOLEAN
        BY DEF Held
      <3>4. LastSays(q, Held(b))
        BY <3>1, <3>2, <3>3, LastAdded, Zenon
      <3> QED
        BY <2>6, <2>7, <2>8, <3>4, Zenon DEF Moved
    <2> QED
      BY <2>9, <2>10
  <1> QED
    BY <1>1, <1>2

\* stop_remote_control() ends remote control, and its call agrees with the flags.
LEMMA RemoteStopped ==
  ASSUME NEW a \in Agents, NEW b, b = stop_remote_control(a)
  PROVE  /\ b \in Agents /\ Moved(a, b, "pipe") /\ ~b.remote
         /\ b.connected = a.connected /\ b.viewing = a.viewing
         /\ b.pairing = a.pairing /\ b.host = a.host
         /\ b.calls["ui"] = a.calls["ui"]
  <1>0. a.calls \in [Threads -> Seq(BOOLEAN)] /\ a.demo \in BOOLEAN /\ a.remote \in BOOLEAN
    BY DEF Agents
  <1>1. CASE ~a.remote
    <2>1. b = a
      BY <1>1 DEF stop_remote_control
    <2> QED
      BY <1>1, <2>1, Zenon DEF Moved, Held
  <1>2. CASE a.remote
    <2>1. PICK q \in Seq(BOOLEAN) : q = IF a.demo THEN a.calls["pipe"]
                                        ELSE Append(a.calls["pipe"], FALSE)
      <3>1. a.calls["pipe"] \in Seq(BOOLEAN)
        BY <1>0 DEF Threads
      <3>2. Append(a.calls["pipe"], FALSE) \in Seq(BOOLEAN)
        BY <3>1
      <3>3. (IF a.demo THEN a.calls["pipe"] ELSE Append(a.calls["pipe"], FALSE)) \in Seq(BOOLEAN)
        BY <3>1, <3>2, Zenon
      <3> QED
        BY <3>3, Zenon
    <2>2. b = [a EXCEPT !.remote = FALSE, !.calls = [a.calls EXCEPT !["pipe"] = q]]
      BY <1>2, <2>1 DEF stop_remote_control
    <2>3. [a.calls EXCEPT !["pipe"] = q] \in [Threads -> Seq(BOOLEAN)]
      BY <1>0
    <2>4. [a EXCEPT !.remote = FALSE, !.calls = [a.calls EXCEPT !["pipe"] = q]] \in Agents
      BY <2>3 DEF Agents
    <2>5. b \in Agents
      BY <2>2, <2>4, Zenon
    <2>6. /\ b.remote = FALSE /\ b.calls = [a.calls EXCEPT !["pipe"] = q]
          /\ b.blocked = a.blocked /\ b.raced = a.raced /\ b.demo = a.demo
          /\ b.connected = a.connected /\ b.viewing = a.viewing
          /\ b.pairing = a.pairing /\ b.host = a.host
      BY <2>2 DEF Agents
    <2>7. b.calls["pipe"] = q /\ b.calls["ui"] = a.calls["ui"]
      BY <1>0, <2>6 DEF Threads
    <2>8. Other("pipe") = "ui"
      BY DEF Other
    <2>9. CASE a.demo
      <3>1. q = a.calls["pipe"]
        BY <2>1, <2>9
      <3>2. Held(b) <=> Held(a)
        BY <2>6, <2>9, Zenon DEF Held
      <3> QED
        BY <2>5, <2>6, <2>7, <2>8, <3>1, <3>2, Zenon DEF Moved
    <2>10. CASE ~a.demo
      <3>1. q = Append(a.calls["pipe"], FALSE) /\ a.calls["pipe"] \in Seq(BOOLEAN)
        BY <1>0, <2>1, <2>10 DEF Threads
      <3>2. FALSE <=> Held(b)
        BY <2>6, <2>10, Zenon DEF Held
      <3>3. Held(b) \in BOOLEAN /\ FALSE \in BOOLEAN
        BY DEF Held
      <3>4. LastSays(q, Held(b))
        BY <3>1, <3>2, <3>3, LastAdded, Zenon
      <3> QED
        BY <2>5, <2>6, <2>7, <2>8, <3>4, Zenon DEF Moved
    <2> QED
      BY <2>9, <2>10
  <1> QED
    BY <1>1, <1>2

\* What a handler of the UI thread does to the agent: it leaves alone what it does not
\* control, and its calls agree with the flags.
Handled(a, b) == b \in Agents /\ Moved(a, b, "ui") /\ SameControl(a, b)

\* Handlers one after the other.
LEMMA HandledOn ==
  ASSUME NEW a, NEW b, NEW c, Handled(a, b), Handled(b, c)
  PROVE  Handled(a, c)
  <1>1. Moved(a, c, "ui")
    BY MovedOn, Zenon DEF Handled
  <1> QED
    BY <1>1, Zenon DEF Handled, SameControl

\* The agent with other windows.
Rewindowed(a, v, w, s, r) ==
    [a EXCEPT !.visible = v, !.was_visible = w, !.suppressed = s, !.restored = r]

\* A change of the windows makes no calls.
LEMMA WindowsOnly ==
  ASSUME NEW a \in Agents, NEW v \in SUBSET Windows, NEW w \in SUBSET Windows,
         NEW s \in BOOLEAN, NEW r \in BOOLEAN, NEW b,
         b = Rewindowed(a, v, w, s, r)
  PROVE  /\ Handled(a, b)
         /\ b.visible = v /\ b.was_visible = w /\ b.restored = r /\ b.demo = a.demo
         /\ b.mode = a.mode /\ b.lock_input = a.lock_input
  <1>1. Rewindowed(a, v, w, s, r) \in Agents
    BY DEF Agents, Rewindowed
  <1>2. b \in Agents
    BY <1>1, Zenon
  <1>3. /\ b.visible = v /\ b.was_visible = w /\ b.restored = r /\ b.demo = a.demo
        /\ b.mode = a.mode /\ b.lock_input = a.lock_input
        /\ b.calls = a.calls /\ b.blocked = a.blocked /\ b.raced = a.raced
        /\ SameControl(a, b)
    BY DEF Agents, SameControl, Rewindowed
  <1>4. Held(b) <=> Held(a)
    BY <1>3, Zenon DEF SameControl, Held
  <1>5. Moved(a, b, "ui")
    BY <1>3, <1>4, Zenon DEF Moved
  <1> QED
    BY <1>2, <1>3, <1>5, Zenon DEF Handled

\* Showing and hiding a window.
LEMMA ShownHidden ==
  ASSUME NEW a \in Agents, NEW w \in Windows
  PROVE  /\ Handled(a, Show(a, w)) /\ Handled(a, Hide(a, w))
         /\ Show(a, w).visible = a.visible \cup {w} /\ Hide(a, w).visible = a.visible \ {w}
         /\ Show(a, w).was_visible = a.was_visible /\ Hide(a, w).was_visible = a.was_visible
         /\ Show(a, w).restored = a.restored /\ Hide(a, w).restored = a.restored
         /\ Show(a, w).demo = a.demo /\ Hide(a, w).demo = a.demo
  <1>1. /\ a.visible \in SUBSET Windows /\ a.was_visible \in SUBSET Windows
        /\ a.suppressed \in BOOLEAN /\ a.restored \in BOOLEAN
    BY DEF Agents
  <1>2. \A v \in SUBSET Windows :
           [a EXCEPT !.visible = v]
              = Rewindowed(a, v, a.was_visible, a.suppressed, a.restored)
    BY DEF Agents, Rewindowed
  <1>3. ASSUME NEW v \in SUBSET Windows, NEW b, b = [a EXCEPT !.visible = v]
        PROVE  /\ Handled(a, b) /\ b.visible = v /\ b.was_visible = a.was_visible
               /\ b.restored = a.restored /\ b.demo = a.demo
    <2>1. b = Rewindowed(a, v, a.was_visible, a.suppressed, a.restored)
      BY <1>2, <1>3, Zenon
    <2> QED
      BY <1>1, <2>1, WindowsOnly
  <1>4. a.visible \cup {w} \in SUBSET Windows /\ a.visible \ {w} \in SUBSET Windows
    BY <1>1
  <1>5. Show(a, w) = [a EXCEPT !.visible = a.visible \cup {w}]
    BY DEF Show
  <1>6. Hide(a, w) = [a EXCEPT !.visible = a.visible \ {w}]
    BY DEF Hide
  <1>7. /\ Handled(a, Show(a, w)) /\ Show(a, w).visible = a.visible \cup {w}
        /\ Show(a, w).was_visible = a.was_visible
        /\ Show(a, w).restored = a.restored /\ Show(a, w).demo = a.demo
    BY <1>3, <1>4, <1>5, Zenon
  <1>8. /\ Handled(a, Hide(a, w)) /\ Hide(a, w).visible = a.visible \ {w}
        /\ Hide(a, w).was_visible = a.was_visible
        /\ Hide(a, w).restored = a.restored /\ Hide(a, w).demo = a.demo
    BY <1>3, <1>4, <1>6, Zenon
  <1> QED
    BY <1>7, <1>8, Zenon

\* apply_broadcast_input_lock() on the UI thread.
LEMMA InputLockedByUi ==
  ASSUME NEW a \in Agents, NEW lock \in BOOLEAN, NEW b,
         b = apply_broadcast_input_lock(a, "ui", lock)
  PROVE  /\ Handled(a, b) /\ b.demo = lock
         /\ b.visible = a.visible /\ b.was_visible = a.was_visible /\ b.restored = a.restored
  <1>1. "ui" \in Threads
    BY DEF Threads
  <1>2. b \in Agents /\ Moved(a, b, "ui") /\ SameControl(a, b)
    BY <1>1, InputLocked
  <1>3. /\ b.demo = lock
        /\ b.visible = a.visible /\ b.was_visible = a.was_visible /\ b.restored = a.restored
    BY <1>1, InputLocked
  <1> QED
    BY <1>2, <1>3, Zenon DEF Handled

\* The windows come back when the exam is over, and what comes back of a broadcast
\* that ended meanwhile is noted.
LEMMA WindowsRestored ==
  ASSUME NEW a \in Agents, NEW b, b = restore_exam_suppressed_windows(a)
  PROVE  Handled(a, b) /\ (Clean(a) /\ ~a.viewing => Clean(b))
  <1>0. /\ a.visible \in SUBSET Windows /\ a.was_visible \in SUBSET Windows
        /\ a.suppressed \in BOOLEAN /\ a.restored \in BOOLEAN /\ a.viewing \in BOOLEAN
        /\ a.lock_input \in BOOLEAN
    BY DEF Agents
  <1>1. CASE ~a.suppressed
    <2>1. b = a
      BY <1>1 DEF restore_exam_suppressed_windows
    <2> QED
      BY <2>1, Zenon DEF Handled, Moved, SameControl
  <1>2. CASE a.suppressed
    <2> DEFINE back == "broadcast" \in a.was_visible
    <2>0. PICK r \in BOOLEAN : r = (a.restored \/ (back /\ ~a.viewing))
      OBVIOUS
    <2>3. PICK s \in BOOLEAN : s = FALSE
      OBVIOUS
    <2>1. PICK c : c = Rewindowed(a, a.was_visible, a.was_visible, s, r)
      OBVIOUS
    <2>2. c = [a EXCEPT !.visible = a.was_visible, !.suppressed = FALSE, !.restored = r]
      BY <2>1, <2>3 DEF Agents, Rewindowed
    <2>4. Handled(a, c) /\ c.visible = a.was_visible /\ c.was_visible = a.was_visible
          /\ c.restored = r /\ c.demo = a.demo
      BY <1>0, <2>1, WindowsOnly
    <2>5. b = IF back /\ a.mode = "focus" /\ a.lock_input
              THEN apply_broadcast_input_lock(c, "ui", TRUE) ELSE c
      BY <1>2, <2>0, <2>2 DEF restore_exam_suppressed_windows
    <2>6. Clean(a) /\ ~a.viewing => Clean(c)
      BY <2>0, <2>4, Zenon DEF Clean
    <2>7. CASE back /\ a.mode = "focus" /\ a.lock_input
      <3>1. b = apply_broadcast_input_lock(c, "ui", TRUE)
        BY <2>5, <2>7, Zenon
      <3>2. c \in Agents /\ TRUE \in BOOLEAN
        BY <2>4, Zenon DEF Handled
      <3>3. /\ Handled(c, b) /\ b.demo = TRUE
            /\ b.visible = c.visible /\ b.was_visible = c.was_visible /\ b.restored = c.restored
        BY <3>1, <3>2, InputLockedByUi, Zenon
      <3>4. Handled(a, b)
        BY <2>4, <3>3, HandledOn, Zenon
      <3>5. ~a.viewing => b.restored
        BY <2>0, <2>4, <2>7, <3>3, Zenon
      <3>6. Clean(a) /\ ~a.viewing => Clean(b)
        BY <2>6, <3>3, <3>5, Zenon DEF Clean
      <3> QED
        BY <3>4, <3>6
    <2>8. CASE ~(back /\ a.mode = "focus" /\ a.lock_input)
      <3>1. b = c
        BY <2>5, <2>8, Zenon
      <3> QED
        BY <2>4, <2>6, <3>1, Zenon
    <2> QED
      BY <2>7, <2>8
  <1> QED
    BY <1>0, <1>1, <1>2

\* restore_control_window_order() takes the windows away or brings them back.
LEMMA Reordered ==
  ASSUME NEW a \in Agents, NEW b, b = restore_control_window_order(a)
  PROVE  Handled(a, b) /\ (Clean(a) /\ ~a.viewing => Clean(b))
  <1>0. /\ a.visible \in SUBSET Windows /\ a.was_visible \in SUBSET Windows
        /\ a.suppressed \in BOOLEAN /\ a.restored \in BOOLEAN
    BY DEF Agents
  <1>1. CASE exam_host_engaged(a)
    <2>0. PICK w \in SUBSET Windows : w = IF a.suppressed THEN a.was_visible ELSE a.visible
      BY <1>0
    <2>3. PICK s \in BOOLEAN : s = TRUE
      OBVIOUS
    <2>1. PICK c : c = Rewindowed(a, {}, w, s, a.restored)
      OBVIOUS
    <2>2. c = [a EXCEPT !.suppressed = TRUE, !.visible = {}, !.was_visible = w]
      BY <2>1, <2>3 DEF Agents, Rewindowed
    <2>4. Handled(a, c) /\ c.visible = {} /\ c.was_visible = w /\ c.restored = a.restored
      BY <1>0, <2>1, WindowsOnly
    <2>5. b = apply_broadcast_input_lock(c, "ui", FALSE)
      <3>1. c = [a EXCEPT !.suppressed = TRUE, !.visible = {},
                          !.was_visible = IF a.suppressed THEN @ ELSE a.visible]
        BY <2>0, <2>2
      <3> QED
        BY <1>1, <3>1, Zenon DEF restore_control_window_order
    <2>6. c \in Agents /\ FALSE \in BOOLEAN
      BY <2>4, Zenon DEF Handled
    <2>7. /\ Handled(c, b) /\ b.demo = FALSE
          /\ b.visible = c.visible /\ b.was_visible = c.was_visible /\ b.restored = c.restored
      BY <2>5, <2>6, InputLockedByUi, Zenon
    <2>8. Handled(a, b)
      BY <2>4, <2>7, HandledOn, Zenon
    <2>9. Clean(a) => "chat" \notin w
      BY <2>0, Zenon DEF Clean
    <2>10. Clean(a) => Clean(b)
      BY <2>4, <2>7, <2>9, Zenon DEF Clean
    <2> QED
      BY <2>8, <2>10
  <1>2. CASE ~exam_host_engaged(a)
    <2>1. b = restore_exam_suppressed_windows(a)
      BY <1>2, Zenon DEF restore_control_window_order
    <2> QED
      BY <2>1, WindowsRestored, Zenon
  <1> QED
    BY <1>1, <1>2

\* Nothing that has to do with blocking the input changes.
SameInput(a, b) ==
    /\ b.calls = a.calls /\ b.blocked = a.blocked /\ b.raced = a.raced
    /\ b.demo = a.demo /\ b.remote = a.remote

\* Such a change makes no calls, and keeps the flags in agreement with them.
LEMMA InputAlone ==
  ASSUME NEW a, NEW b, SameInput(a, b)
  PROVE  (\A t \in Threads : Moved(a, b, t)) /\ (Told(a) => Told(b))
  <1>1. Held(b) <=> Held(a)
    BY Zenon DEF SameInput, Held
  <1>2. \A t \in Threads : Moved(a, b, t)
    BY <1>1, Zenon DEF SameInput, Moved
  <1>3. \A t \in Threads : LastSays(a.calls[t], Held(a)) => LastSays(b.calls[t], Held(b))
    BY <1>1, Zenon DEF SameInput, LastSays
  <1>4. Told(a) => Told(b)
    BY <1>1, <1>3, Zenon DEF SameInput, Told
  <1> QED
    BY <1>2, <1>4

\* What a handler of one thread leaves is consistent once it is noted that the
\* threads' calls met.
LEMMA ToldNoted ==
  ASSUME NEW a \in Agents, NEW b \in Agents, NEW t \in Threads,
         Told(a), Moved(a, b, t), NEW c, c = Noted(b)
  PROVE  /\ c \in Agents /\ Told(c)
         /\ SameControl(b, c) /\ (Clean(b) => Clean(c))
  <1>0. b.raced \in BOOLEAN /\ a.raced \in BOOLEAN
    BY DEF Agents
  <1>1. PICK r \in BOOLEAN : r = (b.raced \/ (b.calls["ui"] # <<>> /\ b.calls["pipe"] # <<>>))
    OBVIOUS
  <1>2. c = [b EXCEPT !.raced = r]
    BY <1>1 DEF Noted
  <1>3. [b EXCEPT !.raced = r] \in Agents
    BY DEF Agents
  <1>4. c \in Agents
    BY <1>2, <1>3, Zenon
  <1>5. /\ c.raced = r /\ c.calls = b.calls /\ c.blocked = b.blocked /\ c.demo = b.demo
        /\ c.visible = b.visible /\ c.was_visible = b.was_visible /\ c.restored = b.restored
        /\ SameControl(b, c)
    BY <1>2 DEF Agents, SameControl
  <1>6. Held(c) <=> Held(b)
    BY <1>5, Zenon DEF SameControl, Held
  <1>7. Clean(b) => Clean(c)
    BY <1>5, Zenon DEF Clean
  <1>8. Told(c)
    <2> SUFFICES ASSUME ~c.raced
                 PROVE  /\ c.calls["ui"] = <<>> \/ c.calls["pipe"] = <<>>
                        /\ \A x \in Threads : c.calls[x] # <<>> => LastSays(c.calls[x], Held(c))
                        /\ (\A x \in Threads : c.calls[x] = <<>>) => (c.blocked <=> Held(c))
      BY Zenon DEF Told
    <2>1. ~b.raced /\ (b.calls["ui"] = <<>> \/ b.calls["pipe"] = <<>>)
      BY <1>1, <1>5, Zenon
    <2>2. ~a.raced
      BY <2>1, Zenon DEF Moved
    <2>3. /\ \A x \in Threads : a.calls[x] # <<>> => LastSays(a.calls[x], Held(a))
          /\ (\A x \in Threads : a.calls[x] = <<>>) => (a.blocked <=> Held(a))
      BY <2>2, Zenon DEF Told
    <2>4. PICK u : u = Other(t)
      OBVIOUS
    <2>5. u \in Threads /\ \A x \in Threads : x = t \/ x = u
      BY <2>4 DEF Other, Threads
    <2>6. b.calls[t] = <<>> \/ b.calls[u] = <<>>
      BY <2>1, <2>4 DEF Other, Threads
    <2>7. b.calls[u] = a.calls[u] /\ b.blocked = a.blocked
      BY <2>4, Zenon DEF Moved
    <2>8. CASE b.calls[t] = a.calls[t] /\ (Held(b) <=> Held(a))
      <3>1. \A x \in Threads : b.calls[x] = a.calls[x]
        BY <2>5, <2>7, <2>8, Zenon
      <3>2. Held(c) <=> Held(a)
        BY <1>6, <2>8, Zenon
      <3>3. \A x \in Threads : c.calls[x] # <<>> => LastSays(c.calls[x], Held(c))
        BY <1>5, <2>3, <3>1, <3>2, Zenon DEF LastSays
      <3>4. (\A x \in Threads : c.calls[x] = <<>>) => (c.blocked <=> Held(c))
        BY <1>5, <2>3, <2>7, <3>1, <3>2, Zenon
      <3> QED
        BY <1>5, <2>1, <3>3, <3>4, Zenon
    <2>9. CASE LastSays(b.calls[t], Held(b))
      <3>1. b.calls[t] # <<>> /\ b.calls[u] = <<>>
        BY <2>6, <2>9, Zenon DEF LastSays
      <3>2. LastSays(c.calls[t], Held(c))
        BY <1>5, <1>6, <2>9, Zenon DEF LastSays
      <3>3. \A x \in Threads : c.calls[x] # <<>> => LastSays(c.calls[x], Held(c))
        BY <1>5, <2>5, <3>1, <3>2, Zenon
      <3>4. ~(\A x \in Threads : c.calls[x] = <<>>)
        BY <1>5, <3>1, Zenon
      <3> QED
        BY <1>5, <2>1, <3>3, <3>4, Zenon
    <2> QED
      BY <2>4, <2>8, <2>9, Zenon DEF Moved
  <1> QED
    BY <1>4, <1>5, <1>7, <1>8

\* A sent message leaves no calls behind: the pipe thread waits for them.
LEMMA ToldSent ==
  ASSUME NEW a \in Agents, NEW b \in Agents, Told(a), Moved(a, b, "ui"),
         a.calls["ui"] = <<>>, a.calls["pipe"] = <<>>, NEW c, c = Sent(b)
  PROVE  c \in Agents /\ Told(c)
  <1>0. /\ b.calls \in [Threads -> Seq(BOOLEAN)] /\ b.calls["ui"] \in Seq(BOOLEAN)
        /\ "ui" \in Threads /\ "pipe" \in Threads
    BY DEF Agents, Threads
  <1>1. b.calls["pipe"] = <<>> /\ b.blocked = a.blocked /\ b.raced = a.raced
    BY DEF Moved, Other
  <1>2. CASE b.calls["ui"] = <<>>
    <2>1. c = b
      BY <1>2 DEF Sent
    <2>2. ~LastSays(b.calls["ui"], Held(b))
      BY <1>2, Zenon DEF LastSays
    <2>3. Held(b) <=> Held(a)
      BY <2>2, Zenon DEF Moved
    <2>4. \A x \in Threads : a.calls[x] = <<>> /\ b.calls[x] = <<>>
      BY <1>1, <1>2 DEF Threads
    <2>5. Told(b)
      BY <1>1, <2>3, <2>4, <1>0, Zenon DEF Told
    <2> QED
      BY <2>1, <2>5, Zenon
  <1>3. CASE b.calls["ui"] # <<>>
    <2>1. LastSays(b.calls["ui"], Held(b))
      BY <1>3, Zenon DEF Moved
    <2>2. PICK v \in BOOLEAN : v = b.calls["ui"][Len(b.calls["ui"])]
      BY <1>0, <1>3
    <2>3. v <=> Held(b)
      BY <2>1, <2>2, Zenon DEF LastSays
    <2>4. c = [b EXCEPT !.blocked = v, !.calls = [b.calls EXCEPT !["ui"] = <<>>]]
      BY <1>3, <2>2 DEF Sent
    <2>5. <<>> \in Seq(BOOLEAN)
      OBVIOUS
    <2>6. [b.calls EXCEPT !["ui"] = <<>>] \in [Threads -> Seq(BOOLEAN)]
      BY <1>0, <2>5
    <2>7. [b EXCEPT !.blocked = v, !.calls = [b.calls EXCEPT !["ui"] = <<>>]] \in Agents
      BY <2>6 DEF Agents
    <2>8. c \in Agents
      BY <2>4, <2>7, Zenon
    <2>9. /\ c.calls = [b.calls EXCEPT !["ui"] = <<>>] /\ c.blocked = v
          /\ c.demo = b.demo /\ c.remote = b.remote
      BY <2>4 DEF Agents
    <2>10. \A x \in Threads : c.calls[x] = <<>>
      BY <1>0, <1>1, <2>9 DEF Threads
    <2>11. c.blocked <=> Held(c)
      BY <2>3, <2>9, Zenon DEF Held
    <2>12. Told(c)
      BY <1>0, <2>10, <2>11, Zenon DEF Told
    <2> QED
      BY <2>8, <2>12
  <1> QED
    BY <1>2, <1>3

\* The agent after a call of BlockInput by thread t.
InputCalled(a, t) ==
    [a EXCEPT !.blocked = Head(a.calls[t]), !.calls = [a.calls EXCEPT ![t] = Tail(a.calls[t])]]

\* One call of BlockInput brings Windows closer to the flags.
LEMMA ToldBlocked ==
  ASSUME NEW a \in Agents, NEW t \in Threads, Told(a), a.calls[t] # <<>>, NEW c,
         c = InputCalled(a, t)
  PROVE  /\ c \in Agents /\ Told(c)
         /\ SameControl(a, c) /\ (Clean(a) => Clean(c))
  <1>0. a.calls \in [Threads -> Seq(BOOLEAN)] /\ a.calls[t] \in Seq(BOOLEAN)
    BY DEF Agents
  <1>1. PICK q \in Seq(BOOLEAN) : q = a.calls[t]
    BY <1>0, Zenon
  <1>2. q # <<>>
    BY <1>1
  <1>3. /\ Tail(q) \in Seq(BOOLEAN) /\ Head(q) \in BOOLEAN /\ Head(q) = q[1]
        /\ Len(q) \in Nat /\ Len(q) > 0 /\ Len(Tail(q)) = Len(q) - 1
    BY <1>2
  <1>4. PICK r \in Seq(BOOLEAN) : r = Tail(q)
    BY <1>3, Zenon
  <1>5. PICK v \in BOOLEAN : v = Head(q)
    BY <1>3, Zenon
  <1>6. c = [a EXCEPT !.blocked = v, !.calls = [a.calls EXCEPT ![t] = r]]
    BY <1>1, <1>4, <1>5 DEF InputCalled
  <1>7. [a.calls EXCEPT ![t] = r] \in [Threads -> Seq(BOOLEAN)]
    BY <1>0
  <1>8. [a EXCEPT !.blocked = v, !.calls = [a.calls EXCEPT ![t] = r]] \in Agents
    BY <1>7 DEF Agents
  <1>9. c \in Agents
    BY <1>6, <1>8, Zenon
  <1>10. /\ c.blocked = v /\ c.calls = [a.calls EXCEPT ![t] = r]
         /\ c.demo = a.demo /\ c.raced = a.raced
         /\ c.visible = a.visible /\ c.was_visible = a.was_visible /\ c.restored = a.restored
         /\ SameControl(a, c)
    BY <1>6 DEF Agents, SameControl
  <1>11. Clean(a) => Clean(c)
    BY <1>10, Zenon DEF Clean
  <1>12. Held(c) <=> Held(a)
    BY <1>10, Zenon DEF SameControl, Held
  <1>13. Told(c)
    <2> SUFFICES ASSUME ~c.raced
                 PROVE  /\ c.calls["ui"] = <<>> \/ c.calls["pipe"] = <<>>
                        /\ \A x \in Threads : c.calls[x] # <<>> => LastSays(c.calls[x], Held(c))
                        /\ (\A x \in Threads : c.calls[x] = <<>>) => (c.blocked <=> Held(c))
      BY Zenon DEF Told
    <2>1. ~a.raced
      BY <1>10, Zenon
    <2>2. a.calls["ui"] = <<>> \/ a.calls["pipe"] = <<>>
      BY <2>1, Zenon DEF Told
    <2>3. LastSays(q, Held(a))
      BY <1>1, <2>1, Zenon DEF Told
    <2>4. \A x \in Threads : x # t => a.calls[x] = <<>>
      BY <2>2 DEF Threads
    <2>5. c.calls[t] = r /\ \A x \in Threads : x # t => c.calls[x] = <<>>
      BY <1>0, <1>10, <2>4
    <2>6. c.calls["ui"] = <<>> \/ c.calls["pipe"] = <<>>
      BY <2>5 DEF Threads
    <2>7. r # <<>> => r[Len(r)] = q[Len(q)]
      <3> SUFFICES ASSUME r # <<>> PROVE r[Len(r)] = q[Len(q)]
        OBVIOUS
      <3>1. Len(r) = Len(q) - 1 /\ Len(r) \in 1 .. Len(q) - 1
        BY <1>3, <1>4
      <3>2. \A i \in 1 .. Len(q) - 1 : Tail(q)[i] = q[i + 1]
        BY <1>2
      <3>3. r[Len(r)] = q[Len(r) + 1]
        BY <1>4, <3>1, <3>2
      <3> QED
        BY <1>3, <3>1, <3>3
    <2>8. r = <<>> => q[Len(q)] = v
      <3> SUFFICES ASSUME r = <<>> PROVE q[Len(q)] = v
        OBVIOUS
      <3>0. Tail(q) = <<>> /\ Len(<<>>) = 0
        BY <1>4
      <3>1. Len(q) = 1
        <4>1. Len(q) \in Nat /\ Len(Tail(q)) = Len(q) - 1
          BY <1>3
        <4>2. Len(q) - 1 = 0
          BY <3>0, <4>1, Zenon
        <4> QED
          BY <4>1, <4>2
      <3>2. q[Len(q)] = q[1]
        BY <3>1, Zenon
      <3> QED
        BY <1>3, <1>5, <3>2, Zenon
    <2>9. r # <<>> => LastSays(r, Held(c))
      BY <1>12, <2>3, <2>7, Zenon DEF LastSays
    <2>10. \A x \in Threads : c.calls[x] # <<>> => LastSays(c.calls[x], Held(c))
      BY <2>5, <2>9, Zenon
    <2>11. r = <<>> => (c.blocked <=> Held(c))
      BY <1>10, <1>12, <2>3, <2>8, Zenon DEF LastSays
    <2> QED
      BY <2>5, <2>6, <2>10, <2>11, Zenon
  <1> QED
    BY <1>9, <1>10, <1>11, <1>13

\* The messages that show a broadcast or change how it is shown.
Showing == {"broadcast", "mode"}

\* What the UI thread may do to the control the service has: end it, never begin it.
Calmed(a, b) ==
    /\ b.remote => a.remote
    /\ b.pairing \in {"choices", "code"} => a.pairing \in {"choices", "code"}
    /\ b.connected => a.connected
    /\ b.viewing => a.viewing
    /\ b.host = "engaged" => a.host = "engaged"

\* A teacher who went away: nothing of the chat and the broadcast stays.
LEMMA ServerOffline ==
  ASSUME NEW a \in Agents, NEW b, b = on_server_online(a, FALSE)
  PROVE  b \in Agents /\ Moved(a, b, "ui") /\ Calmed(a, b) /\ Clean(b)
  <1>1. PICK c : c = apply_broadcast_input_lock(a, "ui", FALSE)
    OBVIOUS
  <1>2. FALSE \in BOOLEAN
    OBVIOUS
  <1>3. /\ Handled(a, c) /\ c.demo = FALSE
        /\ c.visible = a.visible /\ c.was_visible = a.was_visible /\ c.restored = a.restored
    BY <1>1, <1>2, InputLockedByUi, Zenon
  <1>4. c \in Agents
    BY <1>3, Zenon DEF Handled
  <1>5. PICK v \in SUBSET Windows : v = c.visible \ {"broadcast", "chat"}
    BY <1>4 DEF Agents
  <1>6. PICK w \in SUBSET Windows : w = c.was_visible \ {"chat"}
    BY <1>4 DEF Agents
  <1>7. b = [c EXCEPT !.connected = FALSE, !.viewing = FALSE, !.visible = v, !.was_visible = w]
    BY <1>1, <1>5, <1>6 DEF on_server_online
  <1>8. [c EXCEPT !.connected = FALSE, !.viewing = FALSE, !.visible = v, !.was_visible = w] \in Agents
    BY <1>4 DEF Agents
  <1>9. b \in Agents
    BY <1>7, <1>8, Zenon
  <1>10. /\ b.connected = FALSE /\ b.viewing = FALSE /\ b.visible = v /\ b.was_visible = w
         /\ SameInput(c, b) /\ b.pairing = c.pairing /\ b.host = c.host
    BY <1>4, <1>7 DEF Agents, SameInput
  <1>11. Moved(c, b, "ui")
    BY <1>10, InputAlone, Zenon DEF Threads
  <1>12. Moved(a, b, "ui")
    BY <1>3, <1>11, MovedOn, Zenon DEF Handled
  <1>13. Calmed(a, b)
    BY <1>3, <1>10, Zenon DEF Handled, SameControl, SameInput, Calmed
  <1>14. "chat" \notin b.visible /\ "chat" \notin b.was_visible /\ "broadcast" \notin b.visible
    BY <1>5, <1>6, <1>10
  <1>15. Clean(b)
    BY <1>3, <1>10, <1>14, Zenon DEF Clean, SameInput
  <1> QED
    BY <1>9, <1>12, <1>13, <1>15

\* A picture of a broadcast arrived, or the broadcast ended.
LEMMA BroadcastUpdated ==
  ASSUME NEW a \in Agents, NEW show \in BOOLEAN, NEW b, b = on_broadcast_updated(a, show)
  PROVE  Handled(a, b)
  <1>1. /\ "broadcast" \in Windows /\ a.demo \in BOOLEAN /\ a.lock_input \in BOOLEAN
        /\ a.mode \in {"focus", "windowed"}
    BY DEF Windows, Agents
  <1>2. PICK x \in {Show(a, "broadcast"), Hide(a, "broadcast")}, lock \in BOOLEAN :
           b = IF a.mode = "focus"
               THEN restore_control_window_order(apply_broadcast_input_lock(x, "ui", lock))
               ELSE apply_broadcast_input_lock(x, "ui", lock)
    <2>1. PICK lock \in BOOLEAN : lock = (a.demo \/ a.lock_input)
      OBVIOUS
    <2>2. CASE ~show
      BY <2>2 DEF on_broadcast_updated
    <2>3. CASE show /\ a.mode = "focus"
      BY <2>1, <2>3 DEF on_broadcast_updated
    <2>4. CASE show /\ a.mode # "focus"
      BY <2>4 DEF on_broadcast_updated
    <2> QED
      BY <2>2, <2>3, <2>4
  <1>3. Handled(a, x)
    BY <1>1, <1>2, ShownHidden, Zenon
  <1>4. PICK y : y = apply_broadcast_input_lock(x, "ui", lock)
    OBVIOUS
  <1>5. x \in Agents
    BY <1>3, Zenon DEF Handled
  <1>6. Handled(x, y)
    BY <1>4, <1>5, InputLockedByUi, Zenon
  <1>7. Handled(a, y) /\ y \in Agents
    BY <1>3, <1>6, HandledOn, Zenon DEF Handled
  <1>8. CASE a.mode = "focus"
    <2>1. b = restore_control_window_order(y)
      BY <1>2, <1>4, <1>8, Zenon
    <2>2. Handled(y, b)
      BY <1>7, <2>1, Reordered, Zenon
    <2> QED
      BY <1>7, <2>2, HandledOn, Zenon
  <1>9. CASE a.mode # "focus"
    BY <1>2, <1>4, <1>7, <1>9, Zenon
  <1> QED
    BY <1>8, <1>9

\* The broadcast is shown in another mode.
LEMMA ModeChanged ==
  ASSUME NEW a \in Agents, NEW mode, NEW on \in BOOLEAN, NEW b,
         b = on_mode_changed(a, mode, on)
  PROVE  Handled(a, b)
  <1>1. "broadcast" \in Windows /\ a.viewing \in BOOLEAN
    BY DEF Windows, Agents
  <1>2. PICK lock \in BOOLEAN : lock = (mode = "focus" /\ on /\ a.viewing)
    OBVIOUS
  <1>3. PICK x : x = IF a.viewing THEN Show(a, "broadcast") ELSE a
    OBVIOUS
  <1>4. Handled(a, a)
    BY Zenon DEF Handled, Moved, SameControl
  <1>5. Handled(a, x)
    BY <1>1, <1>3, <1>4, ShownHidden, Zenon
  <1>6. x \in Agents
    BY <1>5, Zenon DEF Handled
  <1>7. b = apply_broadcast_input_lock(x, "ui", lock)
    BY <1>2, <1>3 DEF on_mode_changed
  <1>8. Handled(x, b)
    BY <1>6, <1>7, InputLockedByUi, Zenon
  <1> QED
    BY <1>5, <1>8, HandledOn, Zenon

\* An annotation is shown or taken away.
LEMMA AnnotationUpdated ==
  ASSUME NEW a \in Agents, NEW show \in BOOLEAN, NEW b, b = on_annotation_updated(a, show)
  PROVE  Handled(a, b) /\ (Clean(a) /\ ~a.viewing => Clean(b))
  <1>1. "annotation" \in Windows /\ a.visible \in SUBSET Windows
    BY DEF Windows, Agents
  <1>2. PICK x : x = IF show THEN Show(a, "annotation") ELSE Hide(a, "annotation")
    OBVIOUS
  <1>3. x = Show(a, "annotation") \/ x = Hide(a, "annotation")
    BY <1>2
  <1>4. /\ Handled(a, x) /\ x.was_visible = a.was_visible /\ x.restored = a.restored
        /\ x.demo = a.demo
        /\ x.visible = a.visible \cup {"annotation"} \/ x.visible = a.visible \ {"annotation"}
    <2>1. CASE x = Show(a, "annotation")
      BY <1>1, <2>1, ShownHidden, Zenon
    <2>2. CASE x = Hide(a, "annotation")
      BY <1>1, <2>2, ShownHidden, Zenon
    <2> QED
      BY <1>3, <2>1, <2>2
  <1>5. ("chat" \in x.visible <=> "chat" \in a.visible)
        /\ ("broadcast" \in x.visible <=> "broadcast" \in a.visible)
    BY <1>4
  <1>6. Clean(a) => Clean(x)
    BY <1>4, <1>5, Zenon DEF Clean
  <1>7. x \in Agents /\ x.viewing = a.viewing
    BY <1>4, Zenon DEF Handled, SameControl
  <1>8. b = restore_control_window_order(x)
    BY <1>2, Zenon DEF on_annotation_updated
  <1>9. Handled(x, b) /\ (Clean(x) /\ ~x.viewing => Clean(b))
    BY <1>7, <1>8, Reordered, Zenon
  <1> QED
    BY <1>4, <1>6, <1>7, <1>9, HandledOn, Zenon

\* Any posted message.
LEMMA MessageHandled ==
  ASSUME agent \in Agents, NEW m \in AgentMessages, NEW b, b = Posted(m)
  PROVE  /\ b \in Agents /\ Moved(agent, b, "ui") /\ Calmed(agent, b)
         /\ m.type \notin Showing /\ ~agent.viewing /\ Clean(agent) => Clean(b)
         /\ m.type = "server_offline" => Clean(b)
  <1>1. \A c : Handled(agent, c) => c \in Agents /\ Moved(agent, c, "ui") /\ Calmed(agent, c)
    BY Zenon DEF Handled, SameControl, Calmed
  <1>2. CASE m.type = "broadcast"
    <2>1. m.on \in BOOLEAN
      BY <1>2 DEF AgentMessages
    <2>2. b = on_broadcast_updated(agent, m.on)
      BY <1>2 DEF Posted
    <2>3. Handled(agent, b)
      BY <2>1, <2>2, BroadcastUpdated, Zenon
    <2>4. m.type \in Showing /\ m.type # "server_offline"
      BY <1>2 DEF Showing
    <2> QED
      BY <1>1, <2>3, <2>4, Zenon
  <1>3. CASE m.type = "mode"
    <2>1. m.on \in BOOLEAN
      BY <1>3 DEF AgentMessages
    <2>2. b = on_mode_changed(agent, m.mode, m.on)
      BY <1>3 DEF Posted
    <2>3. Handled(agent, b)
      BY <2>1, <2>2, ModeChanged, Zenon
    <2>4. m.type \in Showing /\ m.type # "server_offline"
      BY <1>3 DEF Showing
    <2> QED
      BY <1>1, <2>3, <2>4, Zenon
  <1>4. CASE m.type = "annotation"
    <2>1. m.on \in BOOLEAN
      BY <1>4 DEF AgentMessages
    <2>2. b = on_annotation_updated(agent, m.on)
      BY <1>4 DEF Posted
    <2>3. Handled(agent, b) /\ (Clean(agent) /\ ~agent.viewing => Clean(b))
      BY <2>1, <2>2, AnnotationUpdated, Zenon
    <2>4. m.type # "server_offline"
      BY <1>4
    <2> QED
      BY <1>1, <2>3, <2>4, Zenon
  <1>5. CASE m.type = "server_offline"
    <2>1. b = on_server_online(agent, FALSE)
      BY <1>5 DEF Posted
    <2> QED
      BY <2>1, ServerOffline, Zenon
  <1>6. CASE m.type = "host_status"
    <2>0. m.type # "server_offline"
      BY <1>6
    <2>1. CASE agent.host = "failed"
      <3>1. PICK c : c = [agent EXCEPT !.host = "idle"]
        OBVIOUS
      <3>2. [agent EXCEPT !.host = "idle"] \in Agents
        BY DEF Agents
      <3>3. c \in Agents
        BY <3>1, <3>2, Zenon
      <3>4. /\ SameInput(agent, c) /\ c.host = "idle" /\ c.pairing = agent.pairing
            /\ c.connected = agent.connected /\ c.viewing = agent.viewing
            /\ c.visible = agent.visible /\ c.was_visible = agent.was_visible
            /\ c.restored = agent.restored
        BY <3>1 DEF Agents, SameInput
      <3>5. Moved(agent, c, "ui")
        BY <3>4, InputAlone, Zenon DEF Threads
      <3>6. Clean(agent) => Clean(c)
        BY <3>4, Zenon DEF Clean, SameInput
      <3>7. b = restore_control_window_order(c)
        BY <1>6, <2>1, <3>1 DEF Posted
      <3>8. Handled(c, b) /\ (Clean(c) /\ ~c.viewing => Clean(b))
        BY <3>3, <3>7, Reordered, Zenon
      <3>9. Moved(agent, b, "ui")
        BY <3>5, <3>8, MovedOn, Zenon DEF Handled
      <3>10. Calmed(agent, b)
        BY <3>4, <3>8, Zenon DEF Handled, SameControl, SameInput, Calmed
      <3> QED
        BY <2>0, <3>4, <3>6, <3>8, <3>9, <3>10, Zenon DEF Handled
    <2>2. CASE agent.host # "failed"
      <3>1. b = agent
        BY <1>6, <2>2 DEF Posted
      <3> QED
        BY <2>0, <3>1, Zenon DEF Moved, Calmed
    <2> QED
      BY <2>1, <2>2
  <1>7. CASE m.type \in {"exam", "service_gone"}
    <2>0. m.type # "server_offline"
      BY <1>7
    <2>1. b = restore_control_window_order(agent)
      BY <1>7 DEF Posted
    <2>2. Handled(agent, b) /\ (Clean(agent) /\ ~agent.viewing => Clean(b))
      BY <2>1, Reordered, Zenon
    <2> QED
      BY <1>1, <2>0, <2>2, Zenon
  <1>8. m.type \in {"broadcast", "annotation", "mode", "server_offline", "host_status", "exam",
                    "service_gone"}
    BY DEF AgentMessages
  <1> QED
    BY <1>2, <1>3, <1>4, <1>5, <1>6, <1>7, <1>8

\* The queue holds the end of the teacher's connection, and nothing after it shows a
\* broadcast again.
Ends(s) ==
    \E i \in 1 .. Len(s) : /\ s[i].type = "server_offline"
                           /\ \A j \in i + 1 .. Len(s) : s[j].type \notin Showing

\* The queue holds nothing that shows a broadcast.
Quiet(s) == \A j \in 1 .. Len(s) : s[j].type \notin Showing

\* The queue holds a message that makes the UI thread look for exam commands.
Awaited(s) == \E i \in 1 .. Len(s) : s[i].type = "exam"

\* What holds without a pipe: nothing the service controls is on, an exam has its stop
\* waiting, and the screen is clean or a message that cleans it is in the queue.
LetGo(a, s, e) ==
    /\ ~a.remote /\ ~a.connected /\ ~a.viewing
    /\ a.pairing \notin {"choices", "code"}
    /\ e \in {<<>>, <<"stop">>}
    /\ a.host = "engaged" => e # <<>>
    /\ Ends(s) \/ (Clean(a) /\ Quiet(s))

\* The inductive invariant.
AgentIInv ==
    /\ agent \in Agents /\ agent_pipe \in BOOLEAN /\ posted \in Seq(AgentMessages)
    /\ Told(agent)
    /\ exam_commands # <<>> => Awaited(posted)
    /\ ~agent_pipe => LetGo(agent, posted, exam_commands)

\* A step that begins nothing leaves the student let go.
LEMMA StillLetGo ==
  ASSUME NEW a, NEW b, NEW s, NEW e, LetGo(a, s, e), Calmed(a, b), Clean(a) => Clean(b)
  PROVE  LetGo(b, s, e)
  <1>1. /\ ~b.remote /\ ~b.connected /\ ~b.viewing /\ b.pairing \notin {"choices", "code"}
        /\ e \in {<<>>, <<"stop">>}
        /\ b.host = "engaged" => e # <<>>
    BY Zenon DEF LetGo, Calmed
  <1>2. Ends(s) \/ (Clean(b) /\ Quiet(s))
    BY Zenon DEF LetGo
  <1> QED
    BY <1>1, <1>2, Zenon DEF LetGo

\* The next message of the queue.
LEMMA QueueShrinks ==
  ASSUME NEW s \in Seq(AgentMessages), s # <<>>
  PROVE  /\ Tail(s) \in Seq(AgentMessages) /\ Head(s) \in AgentMessages
         /\ Quiet(s) => Quiet(Tail(s)) /\ Head(s).type \notin Showing
         /\ Ends(s) => Ends(Tail(s)) \/ (Head(s).type = "server_offline" /\ Quiet(Tail(s)))
         /\ Awaited(s) => Awaited(Tail(s)) \/ Head(s).type = "exam"
  <1>1. /\ Tail(s) \in Seq(AgentMessages) /\ Head(s) = s[1] /\ Len(s) \in Nat \ {0}
        /\ Len(Tail(s)) = Len(s) - 1
    OBVIOUS
  <1>2. \A i \in 1 .. Len(s) - 1 : Tail(s)[i] = s[i + 1]
    OBVIOUS
  <1>3. s[1] \in AgentMessages
    BY <1>1
  <1>4. PICK r \in Seq(AgentMessages) : r = Tail(s)
    BY <1>1, Zenon
  <1>5. PICK n \in Nat : n = Len(r) /\ Len(s) = n + 1
    <2>1. Len(r) = Len(s) - 1
      BY <1>1, <1>4, Zenon
    <2>2. Len(s) \in Nat \ {0}
      BY <1>1
    <2>3. Len(r) \in Nat /\ Len(s) = Len(r) + 1
      BY <2>1, <2>2
    <2> QED
      BY <2>3, Zenon
  <1>6. \A i \in 1 .. n : r[i] = s[i + 1]
    BY <1>2, <1>4, <1>5
  <1>7. Quiet(s) => Quiet(r) /\ s[1].type \notin Showing
    <2> SUFFICES ASSUME Quiet(s) PROVE Quiet(r) /\ s[1].type \notin Showing
      OBVIOUS
    <2>1. \A j \in 1 .. n + 1 : s[j].type \notin Showing
      BY <1>5 DEF Quiet
    <2>2. \A j \in 1 .. n : r[j].type \notin Showing
      <3> TAKE j \in 1 .. n
      <3>1. j + 1 \in 1 .. n + 1
        OBVIOUS
      <3> QED
        BY <1>6, <2>1, <3>1
    <2> QED
      BY <1>5, <2>1, <2>2 DEF Quiet
  <1>8. Ends(s) => Ends(r) \/ (s[1].type = "server_offline" /\ Quiet(r))
    <2> SUFFICES ASSUME Ends(s) PROVE Ends(r) \/ (s[1].type = "server_offline" /\ Quiet(r))
      OBVIOUS
    <2>1. PICK i \in 1 .. n + 1 : /\ s[i].type = "server_offline"
                                  /\ \A j \in i + 1 .. n + 1 : s[j].type \notin Showing
      BY <1>5 DEF Ends
    <2>2. CASE i = 1
      <3>1. \A j \in 1 .. n : r[j].type \notin Showing
        <4> TAKE j \in 1 .. n
        <4>1. j + 1 \in i + 1 .. n + 1
          BY <2>2
        <4> QED
          BY <1>6, <2>1, <4>1
      <3> QED
        BY <1>5, <2>1, <2>2, <3>1 DEF Quiet
    <2>3. CASE i # 1
      <3>1. i - 1 \in 1 .. n /\ i - 1 + 1 = i
        BY <2>3
      <3>2. r[i - 1].type = "server_offline"
        BY <1>6, <2>1, <3>1
      <3>3. \A j \in (i - 1) + 1 .. n : r[j].type \notin Showing
        <4> TAKE j \in (i - 1) + 1 .. n
        <4>1. j + 1 \in i + 1 .. n + 1 /\ j \in 1 .. n
          OBVIOUS
        <4> QED
          BY <1>6, <2>1, <4>1
      <3> QED
        BY <1>5, <3>1, <3>2, <3>3 DEF Ends
    <2> QED
      BY <2>2, <2>3
  <1>9. Awaited(s) => Awaited(r) \/ s[1].type = "exam"
    <2> SUFFICES ASSUME Awaited(s), s[1].type # "exam" PROVE Awaited(r)
      OBVIOUS
    <2>1. PICK i \in 1 .. n + 1 : s[i].type = "exam"
      BY <1>5 DEF Awaited
    <2>2. i - 1 \in 1 .. n /\ (i - 1) + 1 = i
      BY <2>1
    <2>3. r[i - 1].type = "exam"
      BY <1>6, <2>1, <2>2
    <2> QED
      BY <1>5, <2>2, <2>3 DEF Awaited
  <1>10. Head(s) \in AgentMessages
    BY <1>1, <1>3, Zenon
  <1> QED
    BY <1>1, <1>4, <1>7, <1>8, <1>9, <1>10

\* Posting adds to the end of the queue.
LEMMA QueueGrows ==
  ASSUME NEW s \in Seq(AgentMessages), NEW r \in Seq(AgentMessages)
  PROVE  /\ s \o r \in Seq(AgentMessages)
         /\ Awaited(s) \/ Awaited(r) => Awaited(s \o r)
         /\ Ends(r) => Ends(s \o r)
         /\ Quiet(r) => (Ends(s) => Ends(s \o r)) /\ (Quiet(s) => Quiet(s \o r))
  <1>1. s \o r \in Seq(AgentMessages) /\ Len(s \o r) = Len(s) + Len(r)
    OBVIOUS
  <1>2. PICK m \in Nat, n \in Nat : m = Len(s) /\ n = Len(r)
    OBVIOUS
  <1>3. /\ \A i \in 1 .. m : (s \o r)[i] = s[i]
        /\ \A i \in 1 .. n : (s \o r)[m + i] = r[i]
    BY <1>2
  <1>4. PICK q \in Seq(AgentMessages) : q = s \o r
    BY <1>1, Zenon
  <1>5. Len(q) = m + n
    BY <1>1, <1>2, <1>4
  <1>6. /\ \A i \in 1 .. m : q[i] = s[i]
        /\ \A i \in 1 .. n : q[m + i] = r[i]
    BY <1>3, <1>4, Zenon
  <1>7. \A i \in m + 1 .. m + n : q[i] = r[i - m] /\ i - m \in 1 .. n
    <2> TAKE i \in m + 1 .. m + n
    <2>1. i - m \in 1 .. n /\ m + (i - m) = i
      OBVIOUS
    <2> QED
      BY <1>6, <2>1
  <1>8. Awaited(s) \/ Awaited(r) => Awaited(q)
    <2>1. ASSUME Awaited(s) PROVE Awaited(q)
      <3>1. PICK i \in 1 .. m : s[i].type = "exam"
        BY <1>2, <2>1 DEF Awaited
      <3>2. i \in 1 .. m + n /\ q[i].type = "exam"
        BY <1>6, <3>1
      <3> QED
        BY <1>5, <3>2 DEF Awaited
    <2>2. ASSUME Awaited(r) PROVE Awaited(q)
      <3>1. PICK i \in 1 .. n : r[i].type = "exam"
        BY <1>2, <2>2 DEF Awaited
      <3>2. m + i \in 1 .. m + n /\ q[m + i].type = "exam"
        BY <1>6, <3>1
      <3> QED
        BY <1>5, <3>2 DEF Awaited
    <2> QED
      BY <2>1, <2>2
  <1>9. Ends(r) => Ends(q)
    <2> SUFFICES ASSUME Ends(r) PROVE Ends(q)
      OBVIOUS
    <2>1. PICK i \in 1 .. n : /\ r[i].type = "server_offline"
                              /\ \A j \in i + 1 .. n : r[j].type \notin Showing
      BY <1>2 DEF Ends
    <2>2. m + i \in 1 .. m + n /\ q[m + i].type = "server_offline"
      BY <1>6, <2>1
    <2>3. \A j \in (m + i) + 1 .. m + n : q[j].type \notin Showing
      <3> TAKE j \in (m + i) + 1 .. m + n
      <3>1. j \in m + 1 .. m + n /\ j - m \in i + 1 .. n
        OBVIOUS
      <3> QED
        BY <1>7, <2>1, <3>1
    <2> QED
      BY <1>5, <2>2, <2>3 DEF Ends
  <1>10. ASSUME Quiet(r) PROVE (Ends(s) => Ends(q)) /\ (Quiet(s) => Quiet(q))
    <2>0. \A j \in m + 1 .. m + n : q[j].type \notin Showing
      BY <1>2, <1>7, <1>10 DEF Quiet
    <2>1. ASSUME Ends(s) PROVE Ends(q)
      <3>1. PICK i \in 1 .. m : /\ s[i].type = "server_offline"
                                /\ \A j \in i + 1 .. m : s[j].type \notin Showing
        BY <1>2, <2>1 DEF Ends
      <3>2. i \in 1 .. m + n /\ q[i].type = "server_offline"
        BY <1>6, <3>1
      <3>3. \A j \in i + 1 .. m + n : q[j].type \notin Showing
        <4> TAKE j \in i + 1 .. m + n
        <4>1. CASE j <= m
          <5>1. j \in i + 1 .. m /\ j \in 1 .. m
            BY <4>1
          <5> QED
            BY <1>6, <3>1, <5>1
        <4>2. CASE j > m
          <5>1. j \in m + 1 .. m + n
            BY <4>2
          <5> QED
            BY <2>0, <5>1
        <4> QED
          BY <4>1, <4>2
      <3> QED
        BY <1>5, <3>2, <3>3 DEF Ends
    <2>2. ASSUME Quiet(s) PROVE Quiet(q)
      <3>1. \A j \in 1 .. m : q[j].type \notin Showing
        BY <1>2, <1>6, <2>2 DEF Quiet
      <3>2. \A j \in 1 .. m + n : j \in 1 .. m \/ j \in m + 1 .. m + n
        OBVIOUS
      <3>3. \A j \in 1 .. m + n : q[j].type \notin Showing
        BY <2>0, <3>1, <3>2, Zenon
      <3> QED
        BY <1>5, <3>3 DEF Quiet
    <2> QED
      BY <2>1, <2>2
  <1> QED
    BY <1>1, <1>4, <1>8, <1>9, <1>10, Zenon

\* With the pipe connected, what the two threads do has only to keep the calls in order.
LEMMA PipeUp ==
  ASSUME agent' \in Agents, Told(agent'), agent_pipe' = TRUE, posted' \in Seq(AgentMessages),
         exam_commands' # <<>> => Awaited(posted')
  PROVE  AgentIInv'
  BY DEF AgentIInv

\* A step of the UI thread or a call of BlockInput that begins nothing.
LEMMA NothingBegun ==
  ASSUME AgentIInv, agent' \in Agents, Told(agent'),
         ~agent_pipe => Calmed(agent, agent') /\ (Clean(agent) => Clean(agent')),
         UNCHANGED <<agent_pipe, posted, exam_commands>>
  PROVE  AgentIInv'
  <1>1. ~agent_pipe => LetGo(agent', posted, exam_commands)
    BY StillLetGo, Zenon DEF AgentIInv
  <1> QED
    BY <1>1, Zenon DEF AgentIInv

\* BlockInput is called.
LEMMA BlockInputStep ==
  ASSUME AgentIInv, NEW t \in Threads, block_input(t)
  PROVE  AgentIInv'
  <1>1. agent \in Agents /\ Told(agent) /\ agent.calls[t] # <<>>
    BY Zenon DEF AgentIInv, block_input
  <1>2. agent' = InputCalled(agent, t)
    BY DEF block_input, InputCalled
  <1>3. PICK c : c = agent'
    OBVIOUS
  <1>4. /\ c \in Agents /\ Told(c) /\ SameControl(agent, c) /\ (Clean(agent) => Clean(c))
    BY <1>1, <1>2, <1>3, ToldBlocked
  <1>5. Calmed(agent, c)
    BY <1>4, Zenon DEF SameControl, Calmed
  <1>6. UNCHANGED <<agent_pipe, posted, exam_commands>>
    BY DEF block_input
  <1> QED
    BY <1>3, <1>4, <1>5, <1>6, NothingBegun, Zenon

\* The UI thread handles the next posted message.
LEMMA DispatchStep ==
  ASSUME AgentIInv, ui_dispatch
  PROVE  AgentIInv'
  <1>1. agent \in Agents /\ Told(agent) /\ posted \in Seq(AgentMessages) /\ posted # <<>>
    BY Zenon DEF AgentIInv, ui_dispatch
  <1>2. PICK m : m = Head(posted)
    OBVIOUS
  <1>3. PICK b : b = Posted(m)
    OBVIOUS
  <1>4. PICK c : c = Noted(b)
    OBVIOUS
  <1>5. PICK s : s = Tail(posted)
    OBVIOUS
  <1>6. /\ agent' = c /\ posted' = s /\ agent_pipe' = agent_pipe
        /\ exam_commands' = exam_commands
        /\ m.type = "exam" => exam_commands = <<>>
    BY <1>2, <1>3, <1>4, <1>5, Zenon DEF ui_dispatch
  <1>7. /\ s \in Seq(AgentMessages) /\ m \in AgentMessages
        /\ Quiet(posted) => Quiet(s) /\ m.type \notin Showing
        /\ Ends(posted) => Ends(s) \/ (m.type = "server_offline" /\ Quiet(s))
        /\ Awaited(posted) => Awaited(s) \/ m.type = "exam"
    BY <1>1, <1>2, <1>5, QueueShrinks
  <1>8. b \in Agents /\ Moved(agent, b, "ui") /\ Calmed(agent, b)
    BY <1>1, <1>3, <1>7, MessageHandled
  <1>9. /\ m.type \notin Showing /\ ~agent.viewing /\ Clean(agent) => Clean(b)
        /\ m.type = "server_offline" => Clean(b)
    BY <1>1, <1>3, <1>7, MessageHandled
  <1>10. "ui" \in Threads
    BY DEF Threads
  <1>11. c \in Agents /\ Told(c) /\ SameControl(b, c) /\ (Clean(b) => Clean(c))
    BY <1>1, <1>4, <1>8, <1>10, ToldNoted
  <1>12. Calmed(agent, c)
    BY <1>8, <1>11, Zenon DEF SameControl, Calmed
  <1>13. exam_commands # <<>> => Awaited(s)
    BY <1>6, <1>7, Zenon DEF AgentIInv
  <1>14. ~agent_pipe => LetGo(c, s, exam_commands)
    <2> SUFFICES ASSUME ~agent_pipe PROVE LetGo(c, s, exam_commands)
      OBVIOUS
    <2>1. LetGo(agent, posted, exam_commands)
      BY Zenon DEF AgentIInv
    <2>2. Ends(s) \/ (Clean(c) /\ Quiet(s))
      <3>1. CASE Ends(posted)
        BY <1>7, <1>9, <1>11, <3>1, Zenon
      <3>2. CASE Clean(agent) /\ Quiet(posted)
        <4>1. ~agent.viewing
          BY <2>1, Zenon DEF LetGo
        <4> QED
          BY <1>7, <1>9, <1>11, <3>2, <4>1, Zenon
      <3> QED
        BY <2>1, <3>1, <3>2, Zenon DEF LetGo
    <2>3. /\ ~c.remote /\ ~c.connected /\ ~c.viewing /\ c.pairing \notin {"choices", "code"}
          /\ exam_commands \in {<<>>, <<"stop">>}
          /\ c.host = "engaged" => exam_commands # <<>>
      BY <1>12, <2>1, Zenon DEF LetGo, Calmed
    <2> QED
      BY <2>2, <2>3, Zenon DEF LetGo
  <1>15. agent_pipe' \in BOOLEAN
    BY <1>6 DEF AgentIInv
  <1> QED
    BY <1>6, <1>7, <1>11, <1>13, <1>14, <1>15, Zenon DEF AgentIInv

\* The UI thread takes an exam command.
LEMMA ExamCommandStep ==
  ASSUME AgentIInv, ui_exam_command
  PROVE  AgentIInv'
  <1>1. agent \in Agents /\ Told(agent) /\ posted \in Seq(AgentMessages)
        /\ exam_commands # <<>> /\ Awaited(posted)
    BY Zenon DEF AgentIInv, ui_exam_command
  <1>2. PICK host \in (IF Head(exam_commands) = "stop" THEN {"idle"}
                       ELSE {agent.host, "engaged", "idle"}) :
           agent' = Noted(restore_control_window_order([agent EXCEPT !.host = host]))
    BY Zenon DEF ui_exam_command
  <1>3. host \in {"idle", "engaged", "failed"}
    BY <1>1, <1>2 DEF Agents
  <1>4. PICK a : a = [agent EXCEPT !.host = host]
    OBVIOUS
  <1>5. [agent EXCEPT !.host = host] \in Agents
    BY <1>1, <1>3 DEF Agents
  <1>6. a \in Agents
    BY <1>4, <1>5, Zenon
  <1>7. /\ SameInput(agent, a) /\ a.host = host /\ a.pairing = agent.pairing
        /\ a.connected = agent.connected /\ a.viewing = agent.viewing
        /\ a.visible = agent.visible /\ a.was_visible = agent.was_visible
        /\ a.restored = agent.restored
    BY <1>1, <1>4 DEF Agents, SameInput
  <1>8. "ui" \in Threads
    BY DEF Threads
  <1>9. Moved(agent, a, "ui")
    BY <1>7, <1>8, InputAlone, Zenon
  <1>10. Clean(agent) => Clean(a)
    BY <1>7, Zenon DEF Clean, SameInput
  <1>11. PICK b : b = restore_control_window_order(a)
    OBVIOUS
  <1>12. Handled(a, b) /\ (Clean(a) /\ ~a.viewing => Clean(b))
    BY <1>6, <1>11, Reordered, Zenon
  <1>13. Moved(agent, b, "ui") /\ b \in Agents
    BY <1>9, <1>12, MovedOn, Zenon DEF Handled
  <1>14. PICK c : c = Noted(b)
    OBVIOUS
  <1>15. c \in Agents /\ Told(c) /\ SameControl(b, c) /\ (Clean(b) => Clean(c))
    BY <1>1, <1>8, <1>13, <1>14, ToldNoted
  <1>16. /\ agent' = c /\ posted' = posted /\ agent_pipe' = agent_pipe
         /\ exam_commands' = Tail(exam_commands)
    BY <1>2, <1>4, <1>11, <1>14, Zenon DEF ui_exam_command
  <1>17. ~agent_pipe => LetGo(c, posted, exam_commands')
    <2> SUFFICES ASSUME ~agent_pipe PROVE LetGo(c, posted, exam_commands')
      OBVIOUS
    <2>1. LetGo(agent, posted, exam_commands)
      BY Zenon DEF AgentIInv
    <2>2. exam_commands = <<"stop">>
      BY <1>1, <2>1, Zenon DEF LetGo
    <2>3. Head(<<"stop">>) = "stop" /\ Tail(<<"stop">>) = <<>>
      OBVIOUS
    <2>4. host = "idle" /\ exam_commands' = <<>>
      BY <1>2, <1>16, <2>2, <2>3
    <2>5. c.host = "idle" /\ Calmed(agent, c)
      BY <1>7, <1>12, <1>15, <2>4, Zenon DEF Handled, SameControl, SameInput, Calmed
    <2>6. Clean(agent) => Clean(c)
      <3>1. ~a.viewing
        BY <1>7, <2>1, Zenon DEF LetGo
      <3> QED
        BY <1>10, <1>12, <1>15, <3>1, Zenon
    <2>7. LetGo(c, posted, exam_commands)
      BY <2>1, <2>5, <2>6, StillLetGo, Zenon
    <2>8. c.host # "engaged"
      BY <2>5
    <2> QED
      BY <2>4, <2>7, <2>8, Zenon DEF LetGo
  <1>18. agent_pipe' \in BOOLEAN
    BY <1>16 DEF AgentIInv
  <1> QED
    BY <1>1, <1>15, <1>16, <1>17, <1>18, Zenon DEF AgentIInv

\* The student opens the chat or the status from the tray.
LEMMA TrayStep ==
  ASSUME AgentIInv, ui_tray
  PROVE  AgentIInv'
  <1>0. agent \in Agents /\ Told(agent) /\ UNCHANGED <<agent_pipe, posted, exam_commands>>
    BY Zenon DEF AgentIInv, ui_tray
  <1>1. CASE ~agent.connected
    <2>1. agent' = [agent EXCEPT !.pairing = "status"]
      BY <1>1 DEF ui_tray, show_pairing
    <2>2. [agent EXCEPT !.pairing = "status"] \in Agents
      BY <1>0 DEF Agents
    <2>3. agent' \in Agents
      BY <2>1, <2>2, Zenon
    <2>4. /\ SameInput(agent, agent') /\ agent'.host = agent.host /\ agent'.pairing = "status"
          /\ agent'.connected = agent.connected /\ agent'.viewing = agent.viewing
          /\ agent'.visible = agent.visible /\ agent'.was_visible = agent.was_visible
          /\ agent'.restored = agent.restored
      BY <1>0, <2>1 DEF Agents, SameInput
    <2>5. "status" \notin {"choices", "code"}
      OBVIOUS
    <2>6. Calmed(agent, agent')
      BY <2>4, <2>5, Zenon DEF Calmed, SameInput
    <2>7. Clean(agent) => Clean(agent')
      BY <2>4, Zenon DEF Clean, SameInput
    <2>8. Told(agent')
      BY <1>0, <2>4, InputAlone, Zenon
    <2> QED
      BY <1>0, <2>3, <2>6, <2>7, <2>8, NothingBegun, Zenon
  <1>2. CASE agent.connected
    <2>1. agent' = Show(agent, "chat") \/ agent' = Hide(agent, "chat")
      BY <1>2 DEF ui_tray
    <2>2. "chat" \in Windows
      BY DEF Windows
    <2>3. Handled(agent, agent')
      BY <1>0, <2>1, <2>2, ShownHidden, Zenon
    <2>4. agent' \in Agents
      BY <2>3, Zenon DEF Handled
    <2>5. agent'.calls = agent.calls /\ agent'.blocked = agent.blocked
          /\ agent'.raced = agent.raced /\ agent'.demo = agent.demo /\ agent'.remote = agent.remote
      BY <1>0, <2>1 DEF Agents, Show, Hide
    <2>6. Told(agent')
      BY <1>0, <2>5, InputAlone, Zenon DEF SameInput
    <2>7. agent_pipe
      BY <1>2, Zenon DEF AgentIInv, LetGo
    <2> QED
      BY <1>0, <2>4, <2>6, <2>7, NothingBegun, Zenon
  <1> QED
    BY <1>1, <1>2

\* The student closes a window.
LEMMA CloseStep ==
  ASSUME AgentIInv, NEW w \in Windows, ui_close(w)
  PROVE  AgentIInv'
  <1>0. agent \in Agents /\ Told(agent) /\ UNCHANGED <<agent_pipe, posted, exam_commands>>
        /\ agent' = Hide(agent, w)
    BY Zenon DEF AgentIInv, ui_close
  <1>1. /\ Handled(agent, agent') /\ agent'.visible = agent.visible \ {w}
        /\ agent'.was_visible = agent.was_visible
        /\ agent'.restored = agent.restored /\ agent'.demo = agent.demo
    BY <1>0, ShownHidden, Zenon
  <1>2. agent' \in Agents /\ Calmed(agent, agent')
    BY <1>1, Zenon DEF Handled, SameControl, Calmed
  <1>3. agent'.calls = agent.calls /\ agent'.blocked = agent.blocked
        /\ agent'.raced = agent.raced /\ agent'.demo = agent.demo /\ agent'.remote = agent.remote
    BY <1>0 DEF Agents, Hide
  <1>4. Told(agent')
    BY <1>0, <1>3, InputAlone, Zenon DEF SameInput
  <1>5. Clean(agent) => Clean(agent')
    BY <1>1, Zenon DEF Clean
  <1> QED
    BY <1>0, <1>2, <1>4, <1>5, NothingBegun, Zenon

\* The pairing window goes on, or away.
LEMMA PairingStep ==
  ASSUME AgentIInv, submit_pairing_selection \/ pairing_status_over
  PROVE  AgentIInv'
  <1>0. agent \in Agents /\ Told(agent) /\ UNCHANGED <<agent_pipe, posted, exam_commands>>
    BY Zenon DEF AgentIInv, submit_pairing_selection, pairing_status_over
  <1>1. PICK v \in {"waiting", "hidden"} : agent' = [agent EXCEPT !.pairing = v]
    BY DEF submit_pairing_selection, pairing_status_over, hide_pairing_view
  <1>2. [agent EXCEPT !.pairing = v] \in Agents
    BY <1>0 DEF Agents
  <1>3. agent' \in Agents
    BY <1>1, <1>2, Zenon
  <1>4. /\ SameInput(agent, agent') /\ agent'.host = agent.host /\ agent'.pairing = v
        /\ agent'.connected = agent.connected /\ agent'.viewing = agent.viewing
        /\ agent'.visible = agent.visible /\ agent'.was_visible = agent.was_visible
        /\ agent'.restored = agent.restored
    BY <1>0, <1>1 DEF Agents, SameInput
  <1>5. v \notin {"choices", "code"}
    OBVIOUS
  <1>6. Calmed(agent, agent')
    BY <1>4, <1>5, Zenon DEF Calmed, SameInput
  <1>7. Clean(agent) => Clean(agent')
    BY <1>4, Zenon DEF Clean, SameInput
  <1>8. Told(agent')
    BY <1>0, <1>4, InputAlone, Zenon
  <1> QED
    BY <1>0, <1>3, <1>6, <1>7, <1>8, NothingBegun, Zenon

\* The recovery chord ends the exam on the screen.
LEMMA RecoveryStep ==
  ASSUME AgentIInv, recovery_chord
  PROVE  AgentIInv'
  <1>0. agent \in Agents /\ Told(agent) /\ posted \in Seq(AgentMessages)
        /\ agent_pipe \in BOOLEAN
        /\ UNCHANGED <<agent_pipe, posted, exam_commands>>
        /\ agent' = [agent EXCEPT !.host = "idle"]
    BY Zenon DEF AgentIInv, recovery_chord
  <1>1. [agent EXCEPT !.host = "idle"] \in Agents
    BY <1>0 DEF Agents
  <1>2. agent' \in Agents
    BY <1>0, <1>1, Zenon
  <1>3. /\ SameInput(agent, agent') /\ agent'.host = "idle" /\ agent'.pairing = agent.pairing
        /\ agent'.connected = agent.connected /\ agent'.viewing = agent.viewing
        /\ agent'.visible = agent.visible /\ agent'.was_visible = agent.was_visible
        /\ agent'.restored = agent.restored
    BY <1>0 DEF Agents, SameInput
  <1>4. Calmed(agent, agent')
    BY <1>3 DEF Calmed, SameInput
  <1>5. Clean(agent) => Clean(agent')
    BY <1>3, Zenon DEF Clean, SameInput
  <1>6. Told(agent')
    BY <1>0, <1>3, InputAlone, Zenon
  <1>7. ~agent_pipe => LetGo(agent', posted, exam_commands)
    <2> SUFFICES ASSUME ~agent_pipe PROVE LetGo(agent', posted, exam_commands)
      OBVIOUS
    <2>1. LetGo(agent, posted, exam_commands)
      BY Zenon DEF AgentIInv
    <2> QED
      BY <1>4, <1>5, <2>1, StillLetGo, Zenon
  <1>8. exam_commands # <<>> => Awaited(posted)
    BY Zenon DEF AgentIInv
  <1> QED
    BY <1>0, <1>2, <1>6, <1>7, <1>8, Zenon DEF AgentIInv

\* The exam host fails.
LEMMA HostFailsStep ==
  ASSUME AgentIInv, host_fails
  PROVE  AgentIInv'
  <1>0. agent \in Agents /\ Told(agent) /\ posted \in Seq(AgentMessages)
        /\ agent_pipe \in BOOLEAN
        /\ UNCHANGED <<agent_pipe, exam_commands>>
        /\ agent' = [agent EXCEPT !.host = "failed"]
    BY Zenon DEF AgentIInv, host_fails
  <1>1. [agent EXCEPT !.host = "failed"] \in Agents
    BY <1>0 DEF Agents
  <1>2. agent' \in Agents
    BY <1>0, <1>1, Zenon
  <1>3. /\ SameInput(agent, agent') /\ agent'.host = "failed" /\ agent'.pairing = agent.pairing
        /\ agent'.connected = agent.connected /\ agent'.viewing = agent.viewing
        /\ agent'.visible = agent.visible /\ agent'.was_visible = agent.was_visible
        /\ agent'.restored = agent.restored
    BY <1>0 DEF Agents, SameInput
  <1>4. Calmed(agent, agent')
    BY <1>3 DEF Calmed, SameInput
  <1>5. Clean(agent) => Clean(agent')
    BY <1>3, Zenon DEF Clean, SameInput
  <1>6. Told(agent')
    BY <1>0, <1>3, InputAlone, Zenon
  <1>7. PICK m \in AgentMessages : m = [type |-> "host_status"]
    BY DEF AgentMessages
  <1>8. <<m>> \in Seq(AgentMessages) /\ Len(<<m>>) = 1 /\ <<m>>[1] = m
    OBVIOUS
  <1>9. Quiet(<<m>>)
    BY <1>7, <1>8 DEF Quiet, Showing
  <1>10. posted' = posted \o <<m>>
    <2>1. posted' = Append(posted, m)
      BY <1>7 DEF host_fails
    <2> QED
      BY <1>0, <2>1
  <1>11. /\ posted' \in Seq(AgentMessages)
         /\ Awaited(posted) => Awaited(posted')
         /\ Ends(posted) => Ends(posted')
         /\ Quiet(posted) => Quiet(posted')
    BY <1>0, <1>8, <1>9, <1>10, QueueGrows, Zenon
  <1>12. exam_commands' # <<>> => Awaited(posted')
    BY <1>0, <1>11, Zenon DEF AgentIInv
  <1>13. ~agent_pipe => LetGo(agent', posted', exam_commands)
    <2> SUFFICES ASSUME ~agent_pipe PROVE LetGo(agent', posted', exam_commands)
      OBVIOUS
    <2>1. LetGo(agent, posted, exam_commands)
      BY Zenon DEF AgentIInv
    <2>2. LetGo(agent', posted, exam_commands)
      BY <1>4, <1>5, <2>1, StillLetGo, Zenon
    <2> QED
      BY <1>11, <2>2, Zenon DEF LetGo
  <1> QED
    BY <1>0, <1>2, <1>6, <1>11, <1>12, <1>13, Zenon DEF AgentIInv

\* The screen is locked or unlocked.
LEMMA LockHandled ==
  ASSUME NEW a \in Agents, NEW lock \in BOOLEAN, NEW b, b = on_lock(a, lock)
  PROVE  b \in Agents /\ Moved(a, b, "ui")
  <1>1. CASE exam_host_engaged(a)
    BY <1>1, Zenon DEF on_lock, Moved
  <1>2. CASE ~exam_host_engaged(a)
    <2>0. "lock" \in Windows /\ "ui" \in Threads
      BY DEF Windows, Threads
    <2>1. PICK c : c = [a EXCEPT !.locked = lock]
      OBVIOUS
    <2>2. [a EXCEPT !.locked = lock] \in Agents
      BY DEF Agents
    <2>3. c \in Agents
      BY <2>1, <2>2, Zenon
    <2>4. SameInput(a, c)
      BY <2>1 DEF Agents, SameInput
    <2>5. Moved(a, c, "ui")
      BY <2>0, <2>4, InputAlone, Zenon
    <2>6. PICK d \in {Show(c, "lock"), Hide(c, "lock")} : b = restore_control_window_order(d)
      <3>1. CASE lock
        <4>1. [a EXCEPT !.locked = TRUE] = c
          BY <2>1, <3>1
        <4> QED
          BY <1>2, <3>1, <4>1, Zenon DEF on_lock
      <3>2. CASE ~lock
        <4>1. [a EXCEPT !.locked = FALSE] = c
          BY <2>1, <3>2
        <4> QED
          BY <1>2, <3>2, <4>1, Zenon DEF on_lock
      <3> QED
        BY <3>1, <3>2
    <2>7. Handled(c, d)
      BY <2>0, <2>3, <2>6, ShownHidden, Zenon
    <2>8. d \in Agents
      BY <2>7, Zenon DEF Handled
    <2>9. Handled(d, b)
      BY <2>6, <2>8, Reordered, Zenon
    <2>10. Moved(a, d, "ui")
      BY <2>5, <2>7, MovedOn, Zenon DEF Handled
    <2>11. Moved(a, b, "ui") /\ b \in Agents
      BY <2>9, <2>10, MovedOn, Zenon DEF Handled
    <2> QED
      BY <2>11
  <1> QED
    BY <1>1, <1>2

\* What the pipe thread finds when it takes a message.
LEMMA WhenReceived ==
  ASSUME AgentIInv, Received
  PROVE  /\ agent \in Agents /\ Told(agent) /\ posted \in Seq(AgentMessages)
         /\ exam_commands # <<>> => Awaited(posted)
         /\ agent_pipe' = TRUE /\ agent.calls["pipe"] = <<>>
  <1>1. agent_pipe' = agent_pipe /\ agent_pipe
    BY Zenon DEF Received
  <1>2. agent_pipe \in BOOLEAN
    BY Zenon DEF AgentIInv
  <1>3. agent_pipe' = TRUE
    BY <1>1, <1>2
  <1> QED
    BY <1>3, Zenon DEF AgentIInv, Received, PipeFree

\* The pipe thread sends a message on and waits.
LEMMA SentStep ==
  ASSUME AgentIInv, receive_sent \/ receive_server_online
  PROVE  AgentIInv'
  <1>0. Received /\ UiFree /\ UNCHANGED <<posted, exam_commands>>
    BY Zenon DEF receive_sent, receive_server_online
  <1>1. /\ agent \in Agents /\ Told(agent) /\ posted \in Seq(AgentMessages)
        /\ exam_commands # <<>> => Awaited(posted)
        /\ agent_pipe' = TRUE /\ agent.calls["pipe"] = <<>>
    BY <1>0, WhenReceived, Zenon
  <1>2. agent.calls["ui"] = <<>>
    BY <1>0, Zenon DEF UiFree
  <1>3. "ui" \in Threads /\ "chat" \in Windows /\ TRUE \in BOOLEAN /\ FALSE \in BOOLEAN
    BY DEF Threads, Windows
  <1>4. PICK b : agent' = Sent(b) /\ b \in Agents /\ Moved(agent, b, "ui")
    <2>1. CASE receive_sent
      <3>1. PICK b \in {on_lock(agent, TRUE), on_lock(agent, FALSE), on_chat(agent)} :
               agent' = Sent(b)
        BY <2>1, Zenon DEF receive_sent
      <3>2. \A c : c = on_lock(agent, TRUE) => c \in Agents /\ Moved(agent, c, "ui")
        BY <1>1, <1>3, LockHandled, Zenon
      <3>3. \A c : c = on_lock(agent, FALSE) => c \in Agents /\ Moved(agent, c, "ui")
        BY <1>1, <1>3, LockHandled, Zenon
      <3>4. on_chat(agent) = agent \/ on_chat(agent) = Show(agent, "chat")
        BY Zenon DEF on_chat
      <3>5. Handled(agent, Show(agent, "chat"))
        BY <1>1, <1>3, ShownHidden, Zenon
      <3>6. Moved(agent, agent, "ui")
        BY Zenon DEF Moved
      <3>7. on_chat(agent) \in Agents /\ Moved(agent, on_chat(agent), "ui")
        BY <1>1, <3>4, <3>5, <3>6, Zenon DEF Handled
      <3> QED
        BY <3>1, <3>2, <3>3, <3>7, Zenon
    <2>2. CASE receive_server_online
      <3>1. PICK now \in BOOLEAN : agent' = Sent(on_server_online(agent, now))
        BY <2>2, Zenon DEF receive_server_online
      <3>2. PICK b : b = on_server_online(agent, now)
        OBVIOUS
      <3>3. CASE now
        <4>1. b = [agent EXCEPT !.connected = TRUE]
          BY <3>2, <3>3 DEF on_server_online
        <4>2. [agent EXCEPT !.connected = TRUE] \in Agents
          BY <1>1 DEF Agents
        <4>3. b \in Agents
          BY <4>1, <4>2, Zenon
        <4>4. SameInput(agent, b)
          BY <1>1, <4>1 DEF Agents, SameInput
        <4>5. Moved(agent, b, "ui")
          BY <1>3, <4>4, InputAlone, Zenon
        <4> QED
          BY <3>1, <3>2, <4>3, <4>5, Zenon
      <3>4. CASE ~now
        <4>1. b = on_server_online(agent, FALSE)
          BY <3>2, <3>4
        <4>2. b \in Agents /\ Moved(agent, b, "ui")
          BY <1>1, <4>1, ServerOffline, Zenon
        <4> QED
          BY <3>1, <3>2, <4>2, Zenon
      <3> QED
        BY <3>3, <3>4
    <2> QED
      BY <2>1, <2>2
  <1>5. agent' \in Agents /\ Told(agent')
    BY <1>1, <1>2, <1>4, ToldSent
  <1> QED
    BY <1>0, <1>1, <1>5, PipeUp, Zenon

\* Remote control begins or ends.
LEMMA RemoteStep ==
  ASSUME AgentIInv, receive_remote
  PROVE  AgentIInv'
  <1>0. Received /\ UNCHANGED <<posted, exam_commands>>
    BY Zenon DEF receive_remote
  <1>1. /\ agent \in Agents /\ Told(agent) /\ posted \in Seq(AgentMessages)
        /\ exam_commands # <<>> => Awaited(posted)
        /\ agent_pipe' = TRUE /\ agent.calls["pipe"] = <<>>
    BY <1>0, WhenReceived, Zenon
  <1>2. "pipe" \in Threads /\ "ui" \in Threads /\ Other("pipe") = "ui"
    BY DEF Threads, Other
  <1>3. PICK b : agent' = Noted(b) /\ b \in Agents /\ Moved(agent, b, "pipe")
    <2>1. CASE agent' = Noted(stop_remote_control(agent))
      <3>1. PICK b : b = stop_remote_control(agent)
        OBVIOUS
      <3>2. b \in Agents /\ Moved(agent, b, "pipe")
        BY <1>1, <3>1, RemoteStopped, Zenon
      <3> QED
        BY <2>1, <3>1, <3>2, Zenon
    <2>2. CASE agent' = Noted([agent EXCEPT !.remote = TRUE, !.calls["pipe"] = Append(@, TRUE)])
      <3>1. agent.calls \in [Threads -> Seq(BOOLEAN)] /\ agent.calls["pipe"] \in Seq(BOOLEAN)
        BY <1>1 DEF Agents, Threads
      <3>2. Append(agent.calls["pipe"], TRUE) \in Seq(BOOLEAN)
        BY <3>1
      <3>3. PICK q \in Seq(BOOLEAN) : q = Append(agent.calls["pipe"], TRUE)
        BY <3>2, Zenon
      <3>4. PICK b : b = [agent EXCEPT !.remote = TRUE, !.calls = [agent.calls EXCEPT !["pipe"] = q]]
        OBVIOUS
      <3>5. agent' = Noted(b)
        BY <2>2, <3>3, <3>4
      <3>6. [agent.calls EXCEPT !["pipe"] = q] \in [Threads -> Seq(BOOLEAN)]
        BY <3>1
      <3>7. [agent EXCEPT !.remote = TRUE, !.calls = [agent.calls EXCEPT !["pipe"] = q]] \in Agents
        BY <1>1, <3>6 DEF Agents
      <3>8. b \in Agents
        BY <3>4, <3>7, Zenon
      <3>9. /\ b.remote = TRUE /\ b.calls = [agent.calls EXCEPT !["pipe"] = q]
            /\ b.blocked = agent.blocked /\ b.raced = agent.raced
        BY <1>1, <3>4 DEF Agents
      <3>10. b.calls["pipe"] = q /\ b.calls["ui"] = agent.calls["ui"]
        BY <1>2, <3>1, <3>9
      <3>11. TRUE <=> Held(b)
        BY <3>9, Zenon DEF Held
      <3>12. Held(b) \in BOOLEAN /\ TRUE \in BOOLEAN
        BY DEF Held
      <3>13. LastSays(q, Held(b))
        BY <3>1, <3>3, <3>11, <3>12, LastAdded, Zenon
      <3>14. Moved(agent, b, "pipe")
        BY <1>2, <3>9, <3>10, <3>13, Zenon DEF Moved
      <3> QED
        BY <3>5, <3>8, <3>14, Zenon
    <2> QED
      BY <2>1, <2>2, Zenon DEF receive_remote
  <1>4. agent' \in Agents /\ Told(agent')
    BY <1>1, <1>2, <1>3, ToldNoted
  <1> QED
    BY <1>0, <1>1, <1>4, PipeUp, Zenon

\* The pipe thread changes a flag and posts a message.
LEMMA PostedOn ==
  ASSUME AgentIInv, Received, NEW m \in AgentMessages, Post(<<m>>), agent' \in Agents, Told(agent'),
         exam_commands' = exam_commands \/ m.type = "exam"
  PROVE  AgentIInv'
  <1>1. /\ posted \in Seq(AgentMessages) /\ agent_pipe' = TRUE
        /\ exam_commands # <<>> => Awaited(posted)
    BY WhenReceived, Zenon
  <1>2. <<m>> \in Seq(AgentMessages) /\ Len(<<m>>) = 1 /\ <<m>>[1] = m
    OBVIOUS
  <1>3. m.type = "exam" => Awaited(<<m>>)
    BY <1>2 DEF Awaited
  <1>4. posted' = posted \o <<m>>
    BY Zenon DEF Post
  <1>5. posted' \in Seq(AgentMessages) /\ (Awaited(posted) \/ Awaited(<<m>>) => Awaited(posted'))
    BY <1>1, <1>2, <1>4, QueueGrows, Zenon
  <1>6. exam_commands' # <<>> => Awaited(posted')
    BY <1>1, <1>3, <1>5, Zenon
  <1> QED
    BY <1>1, <1>5, <1>6, PipeUp, Zenon

\* A picture, a mode, an annotation or an exam command of the service.
LEMMA PostStep ==
  ASSUME AgentIInv,
         \/ receive_host_snapshot \/ receive_broadcast_mode
         \/ receive_overlay \/ receive_exam
  PROVE  AgentIInv'
  <1>0. Received
    BY Zenon DEF receive_host_snapshot, receive_broadcast_mode, receive_overlay, receive_exam
  <1>1. agent \in Agents /\ Told(agent)
    BY <1>0, WhenReceived, Zenon
  <1>2. CASE receive_host_snapshot
    <2>1. agent' = [agent EXCEPT !.viewing = TRUE] /\ exam_commands' = exam_commands
      BY <1>2, Zenon DEF receive_host_snapshot
    <2>2. [agent EXCEPT !.viewing = TRUE] \in Agents
      BY <1>1 DEF Agents
    <2>3. agent' \in Agents
      BY <2>1, <2>2, Zenon
    <2>4. SameInput(agent, agent')
      BY <1>1, <2>1 DEF Agents, SameInput
    <2>5. Told(agent')
      BY <1>1, <2>4, InputAlone, Zenon
    <2>6. PICK m \in AgentMessages : m = [type |-> "broadcast", on |-> TRUE]
      BY DEF AgentMessages
    <2>7. Post(<<m>>)
      BY <1>2, <2>6, Zenon DEF receive_host_snapshot
    <2> QED
      BY <1>0, <2>1, <2>3, <2>5, <2>7, PostedOn, Zenon
  <1>3. CASE receive_broadcast_mode
    <2>1. PICK mode \in {"focus", "windowed"}, lock \in BOOLEAN :
             /\ agent' = [agent EXCEPT !.mode = mode, !.lock_input = lock]
             /\ Post(<<[type |-> "mode", mode |-> mode, on |-> lock]>>)
      BY <1>3, Zenon DEF receive_broadcast_mode
    <2>2. [agent EXCEPT !.mode = mode, !.lock_input = lock] \in Agents
      BY <1>1 DEF Agents
    <2>3. agent' \in Agents
      BY <2>1, <2>2, Zenon
    <2>4. SameInput(agent, agent')
      BY <1>1, <2>1 DEF Agents, SameInput
    <2>5. Told(agent')
      BY <1>1, <2>4, InputAlone, Zenon
    <2>6. PICK m \in AgentMessages : m = [type |-> "mode", mode |-> mode, on |-> lock]
      BY DEF AgentMessages
    <2>7. Post(<<m>>) /\ exam_commands' = exam_commands
      BY <1>3, <2>1, <2>6, Zenon DEF receive_broadcast_mode
    <2> QED
      BY <1>0, <2>3, <2>5, <2>7, PostedOn, Zenon
  <1>4. CASE receive_overlay
    <2>1. PICK on \in BOOLEAN : Post(<<[type |-> "annotation", on |-> on]>>)
      BY <1>4, Zenon DEF receive_overlay
    <2>2. PICK m \in AgentMessages : m = [type |-> "annotation", on |-> on]
      BY DEF AgentMessages
    <2>3. Post(<<m>>) /\ agent' = agent /\ exam_commands' = exam_commands
      BY <1>4, <2>1, <2>2, Zenon DEF receive_overlay
    <2> QED
      BY <1>0, <1>1, <2>3, PostedOn, Zenon
  <1>5. CASE receive_exam
    <2>1. PICK m \in AgentMessages : m = [type |-> "exam"]
      BY DEF AgentMessages
    <2>2. Post(<<m>>) /\ agent' = agent
      BY <1>5, <2>1, Zenon DEF receive_exam
    <2>3. m.type = "exam"
      BY <2>1
    <2> QED
      BY <1>0, <1>1, <2>2, <2>3, PostedOn, Zenon
  <1> QED
    BY <1>2, <1>3, <1>4, <1>5

\* The broadcast ends.
LEMMA BroadcastStopStep ==
  ASSUME AgentIInv, receive_broadcast_stop
  PROVE  AgentIInv'
  <1>0. Received /\ exam_commands' = exam_commands
    BY Zenon DEF receive_broadcast_stop
  <1>1. agent \in Agents /\ Told(agent)
    BY <1>0, WhenReceived, Zenon
  <1>2. PICK a : a = [agent EXCEPT !.viewing = FALSE]
    OBVIOUS
  <1>3. [agent EXCEPT !.viewing = FALSE] \in Agents
    BY <1>1 DEF Agents
  <1>4. a \in Agents
    BY <1>2, <1>3, Zenon
  <1>5. SameInput(agent, a)
    BY <1>1, <1>2 DEF Agents, SameInput
  <1>6. "pipe" \in Threads /\ FALSE \in BOOLEAN
    BY DEF Threads
  <1>7. Moved(agent, a, "pipe")
    BY <1>5, <1>6, InputAlone, Zenon
  <1>8. PICK b : b = apply_broadcast_input_lock(a, "pipe", FALSE)
    OBVIOUS
  <1>9. b \in Agents /\ Moved(a, b, "pipe")
    BY <1>4, <1>6, <1>8, InputLocked
  <1>10. Moved(agent, b, "pipe")
    BY <1>7, <1>9, MovedOn, Zenon
  <1>11. agent' = Noted(b)
    BY <1>2, <1>8, Zenon DEF receive_broadcast_stop
  <1>12. agent' \in Agents /\ Told(agent')
    BY <1>1, <1>6, <1>9, <1>10, <1>11, ToldNoted
  <1>13. PICK m \in AgentMessages : m = [type |-> "broadcast", on |-> FALSE]
    BY DEF AgentMessages
  <1>14. Post(<<m>>)
    BY <1>13, Zenon DEF receive_broadcast_stop
  <1> QED
    BY <1>0, <1>12, <1>14, PostedOn, Zenon

\* The service pairs, or the pipe is connected.
LEMMA PairOrConnectStep ==
  ASSUME AgentIInv, receive_pairing \/ pipe_connected
  PROVE  AgentIInv'
  <1>1. CASE receive_pairing
    <2>0. Received /\ UNCHANGED <<posted, exam_commands>>
      BY <1>1, Zenon DEF receive_pairing
    <2>1. /\ agent \in Agents /\ Told(agent) /\ posted \in Seq(AgentMessages)
          /\ exam_commands # <<>> => Awaited(posted)
          /\ agent_pipe' = TRUE
      BY <2>0, WhenReceived, Zenon
    <2>2. PICK v \in {"choices", "code", "status"} : agent' = [agent EXCEPT !.pairing = v]
      BY <1>1 DEF receive_pairing, show_pairing
    <2>3. [agent EXCEPT !.pairing = v] \in Agents
      BY <2>1 DEF Agents
    <2>4. agent' \in Agents
      BY <2>2, <2>3, Zenon
    <2>5. SameInput(agent, agent')
      BY <2>1, <2>2 DEF Agents, SameInput
    <2>6. Told(agent')
      BY <2>1, <2>5, InputAlone, Zenon
    <2> QED
      BY <2>0, <2>1, <2>4, <2>6, PipeUp, Zenon
  <1>2. CASE pipe_connected
    <2>1. agent_pipe' = TRUE /\ agent' = agent /\ posted' = posted /\ exam_commands' = exam_commands
      BY <1>2, Zenon DEF pipe_connected
    <2> QED
      BY <2>1, PipeUp, Zenon DEF AgentIInv
  <1> QED
    BY <1>1, <1>2

\* The pipe is lost: everything the service controls ends at once, and the queue ends
\* what is on the screen.
LEMMA PipeLostStep ==
  ASSUME AgentIInv, pipe_lost
  PROVE  AgentIInv'
  <1>1. agent \in Agents /\ Told(agent) /\ posted \in Seq(AgentMessages)
    BY Zenon DEF AgentIInv
  <1>2. "pipe" \in Threads /\ FALSE \in BOOLEAN
    BY DEF Threads
  <1>3. PICK a : a = stop_remote_control(agent)
    OBVIOUS
  <1>4. a \in Agents /\ Moved(agent, a, "pipe") /\ ~a.remote
    BY <1>1, <1>3, RemoteStopped
  <1>5. PICK b : b = [a EXCEPT !.pairing = "hidden"]
    OBVIOUS
  <1>6. [a EXCEPT !.pairing = "hidden"] \in Agents
    BY <1>4 DEF Agents
  <1>7. b \in Agents
    BY <1>5, <1>6, Zenon
  <1>8. SameInput(a, b) /\ b.pairing = "hidden" /\ b.remote = a.remote
    BY <1>4, <1>5 DEF Agents, SameInput
  <1>9. Moved(a, b, "pipe")
    BY <1>2, <1>8, InputAlone, Zenon
  <1>10. PICK c : c = apply_broadcast_input_lock(b, "pipe", FALSE)
    OBVIOUS
  <1>11. c \in Agents /\ Moved(b, c, "pipe") /\ SameControl(b, c)
    BY <1>2, <1>7, <1>10, InputLocked
  <1>12. PICK d : d = [c EXCEPT !.connected = FALSE, !.viewing = FALSE]
    OBVIOUS
  <1>13. [c EXCEPT !.connected = FALSE, !.viewing = FALSE] \in Agents
    BY <1>11 DEF Agents
  <1>14. d \in Agents
    BY <1>12, <1>13, Zenon
  <1>15. /\ SameInput(c, d) /\ d.connected = FALSE /\ d.viewing = FALSE
         /\ d.pairing = c.pairing
    BY <1>11, <1>12 DEF Agents, SameInput
  <1>16. Moved(c, d, "pipe")
    BY <1>2, <1>15, InputAlone, Zenon
  <1>17. Moved(agent, b, "pipe")
    BY <1>4, <1>9, MovedOn, Zenon
  <1>18. Moved(agent, c, "pipe")
    BY <1>11, <1>17, MovedOn, Zenon
  <1>19. Moved(agent, d, "pipe")
    BY <1>16, <1>18, MovedOn, Zenon
  <1>20. PICK e : e = Noted(d)
    OBVIOUS
  <1>21. agent' = e
    BY <1>3, <1>5, <1>10, <1>12, <1>20, Zenon DEF pipe_lost, hide_pairing_view
  <1>22. e \in Agents /\ Told(e) /\ SameControl(d, e)
    BY <1>1, <1>2, <1>14, <1>19, <1>20, ToldNoted
  <1>23. ~e.remote /\ ~e.connected /\ ~e.viewing /\ e.pairing = "hidden"
    BY <1>4, <1>8, <1>11, <1>15, <1>22, Zenon DEF SameControl, SameInput
  <1>24. exam_commands' = <<"stop">>
    BY DEF pipe_lost, queue_exam_command_for_ui
  <1>25. PICK m1 \in AgentMessages, m2 \in AgentMessages, m3 \in AgentMessages, m4 \in AgentMessages :
            /\ m1 = [type |-> "broadcast", on |-> FALSE] /\ m2 = [type |-> "server_offline"]
            /\ m3 = [type |-> "exam"] /\ m4 = [type |-> "service_gone"]
    BY DEF AgentMessages
  <1>26. PICK r \in Seq(AgentMessages) : r = <<m1, m2, m3, m4>>
    <2>1. <<m1, m2, m3, m4>> \in Seq(AgentMessages)
      OBVIOUS
    <2> QED
      BY <2>1, Zenon
  <1>27. /\ Len(r) = 4
         /\ r[2].type = "server_offline" /\ r[3].type = "exam" /\ r[4].type = "service_gone"
    BY <1>25, <1>26
  <1>28. Ends(r)
    <2>1. \A j \in 3 .. 4 : r[j].type \notin Showing
      BY <1>27 DEF Showing
    <2>2. 2 \in 1 .. Len(r) /\ \A j \in 2 + 1 .. Len(r) : r[j].type \notin Showing
      BY <1>27, <2>1
    <2> QED
      BY <1>27, <2>2, Zenon DEF Ends
  <1>29. Awaited(r)
    <2>1. 3 \in 1 .. Len(r)
      BY <1>27
    <2> QED
      BY <1>27, <2>1, Zenon DEF Awaited
  <1>30. posted' = posted \o r
    BY <1>25, <1>26, Zenon DEF pipe_lost, Post
  <1>31. posted' \in Seq(AgentMessages) /\ Ends(posted') /\ Awaited(posted')
    BY <1>1, <1>28, <1>29, <1>30, QueueGrows, Zenon
  <1>32. <<"stop">> # <<>>
    OBVIOUS
  <1>33. "hidden" \notin {"choices", "code"}
    OBVIOUS
  <1>34. LetGo(agent', posted', exam_commands')
    BY <1>21, <1>23, <1>24, <1>31, <1>32, <1>33, Zenon DEF LetGo
  <1>35. agent_pipe' = FALSE
    BY DEF pipe_lost
  <1> QED
    BY <1>21, <1>22, <1>31, <1>34, <1>35, <1>2, Zenon DEF AgentIInv

\* The inductive invariant holds in every state of the agent.
LEMMA AgentInvariant == AgentSpec => []AgentIInv
  <1>1. AgentInit => AgentIInv
    <2> SUFFICES ASSUME AgentInit PROVE AgentIInv
      OBVIOUS
    <2>1. agent = NewAgent /\ agent_pipe = FALSE /\ posted = <<>> /\ exam_commands = <<>>
      BY DEF AgentInit
    <2>2. <<>> \in Seq(BOOLEAN) /\ <<>> \in Seq(AgentMessages) /\ Len(<<>>) = 0
      OBVIOUS
    <2>3. PICK q \in [Threads -> Seq(BOOLEAN)] : q = [ui |-> <<>>, pipe |-> <<>>]
      <3>1. [ui |-> <<>>, pipe |-> <<>>] = [t \in Threads |-> <<>>]
        BY DEF Threads
      <3>2. [t \in Threads |-> <<>>] \in [Threads -> Seq(BOOLEAN)]
        BY <2>2
      <3> QED
        BY <3>1, <3>2, Zenon
    <2>4. agent.calls = q /\ q["ui"] = <<>> /\ q["pipe"] = <<>>
      BY <2>1, <2>3 DEF NewAgent
    <2>5. agent \in Agents
      <3>1. agent = [NewAgent EXCEPT !.calls = q]
        BY <2>1, <2>3 DEF NewAgent
      <3>2. [NewAgent EXCEPT !.calls = q] \in Agents
        BY DEF NewAgent, Agents
      <3> QED
        BY <3>1, <3>2, Zenon
    <2>6. /\ ~agent.remote /\ ~agent.connected /\ ~agent.viewing /\ ~agent.demo /\ ~agent.blocked
          /\ agent.pairing = "hidden" /\ agent.host = "idle"
          /\ agent.visible = {} /\ agent.was_visible = {}
      BY <2>1 DEF NewAgent
    <2>7. ~Held(agent) /\ Clean(agent)
      BY <2>6, Zenon DEF Held, Clean
    <2>8. Told(agent)
      BY <2>4, <2>6, <2>7 DEF Told, Threads
    <2>9. Quiet(posted)
      BY <2>1, <2>2 DEF Quiet
    <2>10. "idle" # "engaged" /\ "hidden" \notin {"choices", "code"}
      OBVIOUS
    <2>11. LetGo(agent, posted, exam_commands)
      BY <2>1, <2>6, <2>7, <2>9, <2>10, Zenon DEF LetGo
    <2> QED
      BY <2>1, <2>2, <2>5, <2>8, <2>11, Zenon DEF AgentIInv
  <1>2. AgentIInv /\ [AgentNext]_agentVars => AgentIInv'
    <2> SUFFICES ASSUME AgentIInv, [AgentNext]_agentVars PROVE AgentIInv'
      OBVIOUS
    <2>1. CASE \E t \in {"ui", "pipe"} : block_input(t)
      BY <2>1, BlockInputStep, Zenon DEF Threads
    <2>2. CASE ui_dispatch
      BY <2>2, DispatchStep
    <2>3. CASE ui_exam_command
      BY <2>3, ExamCommandStep
    <2>4. CASE ui_tray
      BY <2>4, TrayStep
    <2>5. CASE \E w \in Windows : ui_close(w)
      BY <2>5, CloseStep, Zenon
    <2>6. CASE submit_pairing_selection \/ pairing_status_over
      BY <2>6, PairingStep
    <2>7. CASE host_fails \/ recovery_chord
      BY <2>7, HostFailsStep, RecoveryStep
    <2>8. CASE receive_sent \/ receive_server_online
      BY <2>8, SentStep
    <2>9. CASE receive_remote
      BY <2>9, RemoteStep
    <2>10. CASE \/ receive_host_snapshot \/ receive_broadcast_mode
                \/ receive_overlay \/ receive_exam
      BY <2>10, PostStep
    <2>11. CASE receive_broadcast_stop
      BY <2>11, BroadcastStopStep
    <2>12. CASE receive_pairing \/ pipe_connected
      BY <2>12, PairOrConnectStep
    <2>13. CASE pipe_lost
      BY <2>13, PipeLostStep
    <2>14. CASE UNCHANGED agentVars
      BY <2>14, Zenon DEF AgentIInv, agentVars
    <2> QED
      BY <2>1, <2>2, <2>3, <2>4, <2>5, <2>6, <2>7, <2>8, <2>9, <2>10, <2>11, <2>12, <2>13,
         <2>14, Zenon DEF AgentNext
  <1> QED
    BY <1>1, <1>2, PTL DEF AgentSpec

\* A student whose service is gone is let go (pipe_control_loop and window_proc of
\* client/agent/main.cpp): once the UI thread has handled what the loss of the pipe
\* posted, no exam, no remote control, no chat and no pairing code are left, and the
\* keyboard and mouse are free unless the two threads' calls of BlockInput met or an
\* exam's end brought back a broadcast that had ended, however many messages the
\* service sent and however often the pipe was lost and connected again.
THEOREM StudentsReleased == AgentSpec => []StudentReleased
  <1>1. AgentIInv => StudentReleased
    <2> SUFFICES ASSUME AgentIInv, ~agent_pipe, posted = <<>>,
                        agent.calls = [ui |-> <<>>, pipe |-> <<>>]
                 PROVE  /\ ~exam_host_engaged(agent)
                        /\ ~agent.remote
                        /\ "chat" \notin agent.visible
                        /\ agent.pairing \notin {"choices", "code"}
                        /\ "broadcast" \in agent.visible => agent.restored
                        /\ agent.blocked => agent.restored \/ agent.raced
      BY Zenon DEF StudentReleased
    <2>1. LetGo(agent, posted, exam_commands) /\ Told(agent)
      BY Zenon DEF AgentIInv
    <2>2. ~Ends(posted) /\ ~Awaited(posted)
      BY DEF Ends, Awaited
    <2>3. Clean(agent)
      BY <2>1, <2>2, Zenon DEF LetGo
    <2>4. ~exam_host_engaged(agent)
      BY <2>1, <2>2, Zenon DEF LetGo, AgentIInv, exam_host_engaged
    <2>5. \A t \in Threads : agent.calls[t] = <<>>
      BY DEF Threads
    <2>6. agent.blocked => agent.restored \/ agent.raced
      BY <2>1, <2>3, <2>5, Zenon DEF Told, Held, Clean, LetGo
    <2> QED
      BY <2>1, <2>3, <2>4, <2>6, Zenon DEF Clean, LetGo
  <1> QED
    BY <1>1, AgentInvariant, PTL

-----------------------------------------------------------------------------
(* Discovery. *)
\* An entry of the replay protector.
ReplayEntries == [key : Sweeps, expires_at : Int]

\* What was answered to a sweep.
Answers == [port : ControlPorts \cup {0}, again : BOOLEAN]

\* Type correctness of the responder; its limiter is left open.
IsResponder(r) ==
    r \in [bound : BOOLEAN, running : BOOLEAN, port : ControlPorts \cup {0}, known : BOOLEAN,
           replay : Seq(ReplayEntries), sources : {r.sources}]

\* Type correctness.
DiscoveryTypeOK ==
    /\ unix \in Int /\ sweep.nonce \in 0 .. MaxSweeps
    /\ sweep = [nonce |-> sweep.nonce, offset |-> sweep.offset, endpoints |-> sweep.endpoints]
    /\ requests \subseteq [nonce : Sweeps, time : Int]
    /\ IsResponder(responder)
    /\ discovery \in [answers : [Sweeps -> SUBSET Answers], forgotten : SUBSET Sweeps,
                      stepped : BOOLEAN]

\* A sweep has one request, and what is known of a request was sent.
AskedOnce ==
    /\ \A d \in requests : d.nonce <= sweep.nonce
    /\ \A d, e \in requests : d.nonce = e.nonce => d = e
    /\ \A n \in Sweeps : discovery.answers[n] # {} => n <= sweep.nonce
    /\ \A n \in Remembered(responder.replay) : n <= sweep.nonce

\* An entry outlives the time in which its request is valid.
Outlives(q, d) ==
    \A i \in DOMAIN q : q[i].key = d.nonce => q[i].expires_at >= d.time + MaximumClockSkew

\* The protector keeps an answered request from being answered again.
Guarded(d, q, h, now) ==
    h.answers[d.nonce] # {} =>
        \/ d.nonce \in h.forgotten \/ h.stepped
        \/ d.nonce \in Remembered(q)
        \/ d.time + MaximumClockSkew < now

\* An answer that repeats one has an excuse.
Excused(h) ==
    \A n \in Sweeps : (\E x \in h.answers[n] : x.again) => n \in h.forgotten \/ h.stepped

\* A response tells of an answer.
Announced(r, h) == r.nonce \in Sweeps /\ \E x \in h.answers[r.nonce] : x.port = r.port

\* The inductive invariant.
DiscoveryIInv ==
    /\ DiscoveryTypeOK
    /\ AskedOnce
    /\ \A d \in requests : Outlives(responder.replay, d)
    /\ \A d \in requests : Guarded(d, responder.replay, discovery, unix)
    /\ Excused(discovery)
    /\ \A r \in responses : Announced(r, discovery)
    /\ \A p \in sweep.endpoints : \E x \in discovery.answers[sweep.nonce] : x.port = p

\* The size of a prefix.
LEMMA UpTo ==
  ASSUME NEW n \in Nat
  PROVE  IsFiniteSet(1 .. n) /\ Cardinality(1 .. n) = n
  <1>1. 1 \in Int /\ n \in Int
    OBVIOUS
  <1>2. /\ IsFiniteSet(1 .. n)
        /\ Cardinality(1 .. n) = IF 1 > n THEN 0 ELSE n - 1 + 1
    BY <1>1, FS_Interval, Zenon
  <1> QED
    BY <1>2

\* What pruning leaves: every entry is kept, or it had expired.
LEMMA Pruned ==
  ASSUME NEW q \in Seq(ReplayEntries), unix \in Int
  PROVE  /\ prune(q) \in Seq(ReplayEntries)
         /\ \A i \in DOMAIN prune(q) : \E j \in DOMAIN q : prune(q)[i] = q[j]
         /\ \A i \in DOMAIN q : expired(q[i]) \/ \E j \in DOMAIN prune(q) : prune(q)[j] = q[i]
  <1> DEFINE P == {i \in DOMAIN q : \A j \in 1 .. i : expired(q[j])}
  <1>1. DOMAIN q = 1 .. Len(q) /\ Len(q) \in Nat
    OBVIOUS
  <1>2. PICK n \in Nat : n = Len(q)
    BY <1>1
  <1>3. IsFiniteSet(1 .. n) /\ Cardinality(1 .. n) = n
    BY UpTo
  <1>4. P \subseteq 1 .. n
    BY <1>1, <1>2
  <1>5. IsFiniteSet(P) /\ Cardinality(P) \in Nat /\ Cardinality(P) <= n
    BY <1>3, <1>4, FS_Subset, FS_CardinalityType
  <1>6. PICK k \in Nat : k = Cardinality(P) /\ k <= n
    BY <1>5, Zenon
  <1>7. \A i \in 1 .. k : expired(q[i])
    <2> SUFFICES ASSUME NEW i \in 1 .. k, ~expired(q[i]) PROVE FALSE
      OBVIOUS
    <2>1. P \subseteq 1 .. i - 1
      <3> SUFFICES ASSUME NEW x \in P PROVE x \in 1 .. i - 1
        OBVIOUS
      <3>1. x \in 1 .. n /\ \A j \in 1 .. x : expired(q[j])
        BY <1>1, <1>2
      <3>2. CASE x >= i
        <4>1. i \in 1 .. x
          BY <3>1, <3>2
        <4> QED
          BY <3>1, <4>1
      <3> QED
        BY <3>1, <3>2
    <2>2. IsFiniteSet(1 .. i - 1) /\ Cardinality(1 .. i - 1) = i - 1
      <3>1. i - 1 \in Nat
        OBVIOUS
      <3>2. PICK m \in Nat : m = i - 1
        BY <3>1
      <3>3. IsFiniteSet(1 .. m) /\ Cardinality(1 .. m) = m
        BY UpTo
      <3> QED
        BY <3>2, <3>3, Zenon
    <2>3. Cardinality(P) <= i - 1
      BY <2>1, <2>2, FS_Subset
    <2> QED
      BY <1>6, <2>3
  <1>8. prune(q) = SubSeq(q, 1 + k, n)
    BY <1>2, <1>6 DEF prune
  <1>9. PICK a \in 1 .. n + 1 : a = 1 + k
    <2>1. k <= n
      BY <1>6
    <2>2. 1 + k \in 1 .. n + 1
      BY <2>1
    <2> QED
      BY <2>2, Zenon
  <1>10. PICK s : s = SubSeq(q, a, n)
    OBVIOUS
  <1>11. s \in Seq(ReplayEntries) /\ Len(s) = n - k /\ \A i \in 1 .. n - k : s[i] = q[i + k]
    <2>1. a \in 1 .. (Len(q) + 1) /\ n \in (a - 1) .. Len(q) /\ n - a + 1 = n - k
      BY <1>2, <1>6, <1>9
    <2>2. SubSeq(q, a, n) \in Seq(ReplayEntries) /\ Len(SubSeq(q, a, n)) = n - a + 1
      BY <2>1, SubSeqProperties
    <2>3. \A i \in 1 .. n - a + 1 : SubSeq(q, a, n)[i] = q[a + i - 1]
      BY <2>1, SubSeqProperties
    <2>4. \A i \in 1 .. n - k : a + i - 1 = i + k
      BY <1>6, <1>9
    <2> QED
      BY <1>10, <2>1, <2>2, <2>3, <2>4
  <1>12. \A i \in DOMAIN s : \E j \in DOMAIN q : s[i] = q[j]
    <2> TAKE i \in DOMAIN s
    <2>1. i \in 1 .. n - k /\ i + k \in 1 .. n
      BY <1>6, <1>11
    <2> QED
      BY <1>1, <1>2, <1>11, <2>1
  <1>13. \A i \in DOMAIN q : expired(q[i]) \/ \E j \in DOMAIN s : s[j] = q[i]
    <2> TAKE i \in DOMAIN q
    <2>1. CASE i <= k
      <3>1. i \in 1 .. k
        BY <1>1, <2>1
      <3> QED
        BY <1>7, <3>1
    <2>2. CASE i > k
      <3>1. i - k \in 1 .. n - k /\ (i - k) + k = i
        BY <1>1, <1>2, <1>6, <2>2
      <3>2. i - k \in DOMAIN s /\ s[i - k] = q[i]
        BY <1>11, <3>1
      <3> QED
        BY <3>2
    <2> QED
      BY <1>1, <2>1, <2>2
  <1>14. prune(q) = s
    BY <1>8, <1>9, <1>10, Zenon
  <1> HIDE DEF P
  <1> QED
    BY <1>11, <1>12, <1>13, <1>14, Zenon

\* Making room keeps entries only.
LEMMA RoomMade ==
  ASSUME NEW q \in Seq(ReplayEntries)
  PROVE  /\ MakeRoom(q) \in Seq(ReplayEntries)
         /\ \A i \in DOMAIN MakeRoom(q) : \E j \in DOMAIN q : MakeRoom(q)[i] = q[j]
  <1>0. PICK c \in Nat \ {0} : c = DiscoveryCapacity
    BY DiscoveryAssumption
  <1>1. CASE Len(q) < c
    <2>1. MakeRoom(q) = q
      BY <1>0, <1>1 DEF MakeRoom
    <2> QED
      BY <2>1, Zenon
  <1>2. CASE Len(q) >= c
    <2>1. PICK n \in Nat : n = Len(q)
      OBVIOUS
    <2>2. PICK a \in 1 .. n + 1 : a = n - c + 2
      <3>1. n >= c
        BY <1>2, <2>1
      <3>2. n - c + 2 \in 1 .. n + 1
        BY <3>1
      <3> QED
        BY <3>2, Zenon
    <2>3. MakeRoom(q) = SubSeq(q, a, n)
      BY <1>0, <1>2, <2>1, <2>2 DEF MakeRoom
    <2>4. a \in 1 .. (Len(q) + 1) /\ n \in (a - 1) .. Len(q)
      BY <2>1
    <2>5. PICK s : s = SubSeq(q, a, n)
      OBVIOUS
    <2>6. s \in Seq(ReplayEntries) /\ Len(s) = n - a + 1
      BY <2>4, <2>5, SubSeqProperties
    <2>7. \A i \in 1 .. n - a + 1 : s[i] = q[a + i - 1]
      BY <2>4, <2>5, SubSeqProperties
    <2>8. \A i \in DOMAIN s : \E j \in DOMAIN q : s[i] = q[j]
      <3> TAKE i \in DOMAIN s
      <3>1. i \in 1 .. n - a + 1 /\ a + i - 1 \in DOMAIN q
        BY <2>1, <2>6
      <3> QED
        BY <2>7, <3>1
    <2> QED
      BY <2>3, <2>5, <2>6, <2>8, Zenon
  <1> QED
    BY <1>0, <1>1, <1>2

\* The later of two times.
LEMMA LaterTime ==
  ASSUME NEW a \in Int, NEW b \in Int
  PROVE  Max({a, b}) \in Int /\ Max({a, b}) >= b
  <1>1. \E x \in {a, b} : \A y \in {a, b} : x >= y
    OBVIOUS
  <1>2. PICK m : m = Max({a, b})
    OBVIOUS
  <1>3. m \in {a, b} /\ \A y \in {a, b} : m >= y
    BY <1>1, <1>2, Zenon DEF Max
  <1> QED
    BY <1>2, <1>3

\* What is remembered are requests of sweeps.
LEMMA SweepsRemembered ==
  ASSUME NEW q \in Seq(ReplayEntries)
  PROVE  Remembered(q) \subseteq Sweeps
  <1> SUFFICES ASSUME NEW x \in Remembered(q) PROVE x \in Sweeps
    OBVIOUS
  <1>1. PICK i \in DOMAIN q : x = q[i].key
    BY Zenon DEF Remembered
  <1>2. q[i] \in ReplayEntries
    OBVIOUS
  <1>3. q[i].key \in Sweeps
    BY <1>2 DEF ReplayEntries
  <1> QED
    BY <1>1, <1>3, Zenon

\* Every entry was there before, or it is the one of request d.
OldOrOf(entries, q, d) ==
    \A i \in DOMAIN entries :
        \/ \E j \in DOMAIN q : entries[i] = q[j]
        \/ /\ entries[i].key = d.nonce
           /\ entries[i].expires_at >= d.time + MaximumClockSkew

\* accept(): a request that is remembered is refused, any other is remembered for as
\* long as it is valid.
LEMMA Accepted ==
  ASSUME NEW q \in Seq(ReplayEntries), NEW d \in [nonce : Sweeps, time : Int], unix \in Int,
         NEW yes, NEW entries, yes = accept(q, d).yes, entries = accept(q, d).entries
  PROVE  /\ entries \in Seq(ReplayEntries) /\ yes \in BOOLEAN
         /\ OldOrOf(entries, q, d)
         /\ yes => d.nonce \in Remembered(entries) /\ d.nonce \notin Remembered(prune(q))
         /\ ~yes => entries = prune(q)
  <1>0. MaximumClockSkew \in Nat
    BY DiscoveryAssumption
  <1>1. PICK live : live = prune(q)
    OBVIOUS
  <1>2. live \in Seq(ReplayEntries) /\ \A i \in DOMAIN live : \E j \in DOMAIN q : live[i] = q[j]
    BY <1>1, Pruned
  <1>3. CASE d.nonce \in Remembered(live)
    <2>1. yes = FALSE /\ entries = live
      BY <1>1, <1>3 DEF accept
    <2> QED
      BY <1>1, <1>2, <1>3, <2>1 DEF OldOrOf
  <1>4. CASE d.nonce \notin Remembered(live)
    <2>1. PICK r : r = MakeRoom(live)
      OBVIOUS
    <2>2. r \in Seq(ReplayEntries) /\ \A i \in DOMAIN r : \E j \in DOMAIN live : r[i] = live[j]
      BY <1>2, <2>1, RoomMade
    <2>3. PICK e : e = [key |-> d.nonce, expires_at |-> Max({unix, d.time}) + MaximumClockSkew]
      OBVIOUS
    <2>4. d.time \in Int /\ d.nonce \in Sweeps
      OBVIOUS
    <2>5. PICK m \in Int : m = Max({unix, d.time}) /\ m >= d.time
      BY <2>4, LaterTime, Zenon
    <2>6. e = [key |-> d.nonce, expires_at |-> m + MaximumClockSkew]
      BY <2>3, <2>5, Zenon
    <2>7. e \in ReplayEntries /\ e.key = d.nonce /\ e.expires_at >= d.time + MaximumClockSkew
      BY <1>0, <2>4, <2>5, <2>6 DEF ReplayEntries
    <2>8. yes = TRUE /\ entries = Append(r, e)
      BY <1>1, <1>4, <2>1, <2>3 DEF accept
    <2>9. Append(r, e) \in Seq(ReplayEntries) /\ Len(Append(r, e)) = Len(r) + 1
      BY <2>2, <2>7
    <2>10. (\A i \in 1 .. Len(r) : Append(r, e)[i] = r[i]) /\ Append(r, e)[Len(r) + 1] = e
      BY <2>2, <2>7
    <2>11. PICK n \in Nat : n = Len(r) /\ DOMAIN r = 1 .. n
      BY <2>2
    <2>12. /\ entries \in Seq(ReplayEntries) /\ DOMAIN entries = 1 .. n + 1
           /\ (\A i \in 1 .. n : entries[i] = r[i]) /\ entries[n + 1] = e
      <3>1. entries \in Seq(ReplayEntries) /\ Len(entries) = n + 1
        BY <2>8, <2>9, <2>11, Zenon
      <3>2. (\A i \in 1 .. n : entries[i] = r[i]) /\ entries[n + 1] = e
        BY <2>8, <2>10, <2>11, Zenon
      <3> QED
        BY <3>1, <3>2
    <2>13. OldOrOf(entries, q, d)
      <3> SUFFICES ASSUME NEW i \in DOMAIN entries
                   PROVE  \/ \E j \in DOMAIN q : entries[i] = q[j]
                          \/ /\ entries[i].key = d.nonce
                             /\ entries[i].expires_at >= d.time + MaximumClockSkew
        BY Zenon DEF OldOrOf
      <3>1. i \in 1 .. n \/ i = n + 1
        BY <2>12
      <3>2. CASE i \in 1 .. n
        <4>1. PICK k \in DOMAIN live : r[i] = live[k]
          BY <2>2, <2>11, <3>2, Zenon
        <4>2. PICK j \in DOMAIN q : live[k] = q[j]
          BY <1>2, Zenon
        <4> QED
          BY <2>12, <3>2, <4>1, <4>2, Zenon
      <3>3. CASE i = n + 1
        BY <2>7, <2>12, <3>3, Zenon
      <3> QED
        BY <3>1, <3>2, <3>3
    <2>14. d.nonce \in Remembered(entries)
      <3>1. n + 1 \in DOMAIN entries /\ entries[n + 1].key = d.nonce
        BY <2>7, <2>12
      <3> QED
        BY <3>1, Zenon DEF Remembered
    <2> QED
      BY <1>1, <1>4, <2>8, <2>12, <2>13, <2>14
  <1> QED
    BY <1>3, <1>4

\* A remembered request stays remembered when the protector prunes, or it has
\* become too old to be valid.
LEMMA PruneKeeps ==
  ASSUME NEW q \in Seq(ReplayEntries), NEW d \in [nonce : Sweeps, time : Int], unix \in Int,
         Outlives(q, d), d.nonce \in Remembered(q)
  PROVE  d.nonce \in Remembered(prune(q)) \/ d.time + MaximumClockSkew < unix
  <1>0. MaximumClockSkew \in Nat
    BY DiscoveryAssumption
  <1>1. PICK i \in DOMAIN q : q[i].key = d.nonce
    BY Zenon DEF Remembered
  <1>2. q[i].expires_at >= d.time + MaximumClockSkew
    BY <1>1, Zenon DEF Outlives
  <1>3. q[i] \in ReplayEntries
    BY <1>1
  <1>4. CASE expired(q[i])
    <2>1. q[i].expires_at < unix
      BY <1>4 DEF expired
    <2>2. q[i].expires_at \in Int /\ d.time \in Int
      BY <1>3 DEF ReplayEntries
    <2> QED
      BY <1>0, <1>2, <2>1, <2>2
  <1>5. CASE ~expired(q[i])
    <2>1. PICK j \in DOMAIN prune(q) : prune(q)[j] = q[i]
      BY <1>1, <1>5, Pruned
    <2> QED
      BY <1>1, <2>1, Zenon DEF Remembered
  <1> QED
    BY <1>4, <1>5

\* A step of the responder that neither remembers nor answers anything.
LEMMA ResponderAlone ==
  ASSUME DiscoveryIInv, IsResponder(responder'), responder'.replay = responder.replay,
         UNCHANGED <<unix, sweep, requests, responses, discovery>>
  PROVE  DiscoveryIInv'
  <1>1. DiscoveryTypeOK'
    BY DEF DiscoveryIInv, DiscoveryTypeOK
  <1>2. AskedOnce'
    BY Zenon DEF DiscoveryIInv, AskedOnce
  <1> QED
    BY <1>1, <1>2, Zenon DEF DiscoveryIInv

\* The limiter's entries, the thread and the known key are no concern of the protector.
LEMMA ResponderStep ==
  ASSUME DiscoveryIInv,
         UNCHANGED <<unix, sweep, requests, responses, discovery>>,
         \/ \E e : responder' = [responder EXCEPT !.sources = e]
         \/ responder' = [responder EXCEPT !.running = FALSE]
         \/ responder' = [responder EXCEPT !.known = FALSE]
  PROVE  DiscoveryIInv'
  <1>1. IsResponder(responder)
    BY Zenon DEF DiscoveryIInv, DiscoveryTypeOK
  <1>2. IsResponder(responder') /\ responder'.replay = responder.replay
    <2>1. CASE \E e : responder' = [responder EXCEPT !.sources = e]
      <3>1. PICK e : responder' = [responder EXCEPT !.sources = e]
        BY <2>1
      <3> QED
        BY <1>1, <3>1 DEF IsResponder
    <2>2. CASE responder' = [responder EXCEPT !.running = FALSE]
      BY <1>1, <2>2 DEF IsResponder
    <2>3. CASE responder' = [responder EXCEPT !.known = FALSE]
      BY <1>1, <2>3 DEF IsResponder
    <2> QED
      BY <2>1, <2>2, <2>3
  <1> QED
    BY <1>2, ResponderAlone, Zenon

\* A sweep begins: its request is new.
LEMMA SweepStep ==
  ASSUME DiscoveryIInv, NEW offset \in ClientOffsets, discover_authenticated_servers(offset)
  PROVE  DiscoveryIInv'
  <1>0. offset \in Int /\ MaxSweeps \in Nat
    BY DiscoveryAssumption
  <1>1. /\ unix \in Int /\ sweep.nonce \in 0 .. MaxSweeps
        /\ requests \subseteq [nonce : Sweeps, time : Int]
        /\ IsResponder(responder)
        /\ discovery \in [answers : [Sweeps -> SUBSET Answers], forgotten : SUBSET Sweeps,
                          stepped : BOOLEAN]
    BY Zenon DEF DiscoveryIInv, DiscoveryTypeOK
  <1>2. PICK n \in Sweeps : n = sweep.nonce + 1
    BY <1>0, <1>1 DEF discover_authenticated_servers, Sweeps
  <1>3. PICK d : d = [nonce |-> n, time |-> unix + offset]
    OBVIOUS
  <1>4. d \in [nonce : Sweeps, time : Int] /\ d.nonce = n
    BY <1>0, <1>1, <1>3
  <1>5. /\ sweep' = [nonce |-> n, offset |-> offset, endpoints |-> {}]
        /\ unix' = unix /\ responses' = responses /\ responder' = responder
        /\ discovery' = discovery
    BY <1>2 DEF discover_authenticated_servers
  <1>6. sweep'.nonce = n /\ sweep'.endpoints = {}
    BY <1>5
  <1>7. requests' = requests \cup {d}
    BY <1>3, <1>6 DEF discover_authenticated_servers, SentToTargets, create_request
  <1>8. DiscoveryTypeOK'
    <2>1. sweep'.nonce \in 0 .. MaxSweeps
      BY <1>0, <1>6 DEF Sweeps
    <2>2. sweep' = [nonce |-> sweep'.nonce, offset |-> sweep'.offset, endpoints |-> sweep'.endpoints]
      BY <1>5
    <2>3. requests' \subseteq [nonce : Sweeps, time : Int]
      BY <1>1, <1>4, <1>7
    <2> QED
      BY <1>1, <1>5, <2>1, <2>2, <2>3 DEF DiscoveryTypeOK
  <1>9. \A x \in Sweeps : x <= sweep.nonce => x <= n /\ x # n
    BY <1>0, <1>1, <1>2 DEF Sweeps
  <1>10. AskedOnce
    BY Zenon DEF DiscoveryIInv
  <1>11. \A e \in requests : e.nonce \in Sweeps /\ e.nonce <= n /\ e.nonce # n
    <2> TAKE e \in requests
    <2>1. e.nonce \in Sweeps /\ e.nonce <= sweep.nonce
      BY <1>1, <1>10 DEF AskedOnce
    <2> QED
      BY <1>9, <2>1
  <1>12. \A x \in Remembered(responder.replay) : x \in Sweeps /\ x <= n /\ x # n
    <2> TAKE x \in Remembered(responder.replay)
    <2>2. responder.replay \in Seq(ReplayEntries)
      BY <1>1 DEF IsResponder
    <2>3. x \in Sweeps
      BY <2>2, SweepsRemembered
    <2>4. x <= sweep.nonce
      BY <1>10, Zenon DEF AskedOnce
    <2> QED
      BY <1>9, <2>3, <2>4
  <1>13. discovery.answers[n] = {}
    BY <1>9, <1>10, Zenon DEF AskedOnce
  <1>14. AskedOnce'
    <2>1. \A e \in requests' : e.nonce <= n
      <3>1. n <= n
        BY DEF Sweeps
      <3> QED
        BY <1>4, <1>7, <1>11, <3>1
    <2>2. \A e, f \in requests' : e.nonce = f.nonce => e = f
      <3>1. \A e, f \in requests : e.nonce = f.nonce => e = f
        BY <1>10, Zenon DEF AskedOnce
      <3> QED
        BY <1>4, <1>7, <1>11, <3>1
    <2>3. \A x \in Sweeps : discovery.answers[x] # {} => x <= n
      BY <1>9, <1>10, Zenon DEF AskedOnce
    <2> QED
      BY <1>5, <1>6, <1>12, <2>1, <2>2, <2>3, Zenon DEF AskedOnce
  <1>15. Outlives(responder.replay, d)
    BY <1>4, <1>12, Zenon DEF Outlives, Remembered
  <1>16. Guarded(d, responder.replay, discovery, unix)
    BY <1>4, <1>13, Zenon DEF Guarded
  <1>17. \A e \in requests' : e \in requests \/ e = d
    BY <1>7
  <1> QED
    BY <1>5, <1>6, <1>8, <1>14, <1>15, <1>16, <1>17, Zenon DEF DiscoveryIInv

\* A response is counted when it answers this sweep.
LEMMA ResponseStep ==
  ASSUME DiscoveryIInv, receive_response
  PROVE  DiscoveryIInv'
  <1>1. PICK r \in responses : /\ verify_response(r)
                               /\ sweep' = [sweep EXCEPT !.endpoints = @ \cup {r.port}]
    BY Zenon DEF receive_response
  <1>2. /\ UNCHANGED <<unix, requests, responses, responder, discovery>>
        /\ r.nonce = sweep.nonce
    BY <1>1, Zenon DEF receive_response, verify_response
  <1>3. sweep = [nonce |-> sweep.nonce, offset |-> sweep.offset, endpoints |-> sweep.endpoints]
    BY Zenon DEF DiscoveryIInv, DiscoveryTypeOK
  <1>4. sweep' = [nonce |-> sweep.nonce, offset |-> sweep.offset,
                  endpoints |-> sweep.endpoints \cup {r.port}]
    BY <1>1, <1>3
  <1>5. /\ sweep'.nonce = sweep.nonce /\ sweep'.endpoints = sweep.endpoints \cup {r.port}
        /\ sweep' = [nonce |-> sweep'.nonce, offset |-> sweep'.offset,
                     endpoints |-> sweep'.endpoints]
    BY <1>4
  <1>6. \E x \in discovery.answers[sweep.nonce] : x.port = r.port
    BY <1>2, Zenon DEF DiscoveryIInv, Announced
  <1>7. DiscoveryTypeOK'
    BY <1>2, <1>5 DEF DiscoveryIInv, DiscoveryTypeOK
  <1>8. AskedOnce'
    BY <1>2, <1>5, Zenon DEF DiscoveryIInv, AskedOnce
  <1>9. \A p \in sweep'.endpoints : \E x \in discovery.answers[sweep.nonce] : x.port = p
    BY <1>5, <1>6 DEF DiscoveryIInv
  <1> QED
    BY <1>2, <1>5, <1>7, <1>8, <1>9, Zenon DEF DiscoveryIInv

\* The responder starts or stops, and forgets what it remembered.
LEMMA ForgetStep ==
  ASSUME DiscoveryIInv, Forgets, UNCHANGED <<unix, sweep, requests, responses>>,
         NEW on \in BOOLEAN, NEW port \in ControlPorts \cup {0},
         responder' = [responder EXCEPT !.bound = on, !.running = on, !.port = port,
                                        !.replay = <<>>]
  PROVE  DiscoveryIInv'
  <1>1. IsResponder(responder)
        /\ discovery \in [answers : [Sweeps -> SUBSET Answers], forgotten : SUBSET Sweeps,
                          stepped : BOOLEAN]
    BY Zenon DEF DiscoveryIInv, DiscoveryTypeOK
  <1>2. <<>> \in Seq(ReplayEntries) /\ DOMAIN <<>> = {}
    OBVIOUS
  <1>3. IsResponder(responder') /\ responder'.replay = <<>>
    BY <1>1, <1>2 DEF IsResponder
  <1>4. responder.replay \in Seq(ReplayEntries)
    BY <1>1 DEF IsResponder
  <1>5. Remembered(responder.replay) \subseteq Sweeps
    BY <1>4, SweepsRemembered
  <1>6. PICK f \in SUBSET Sweeps : f = discovery.forgotten \cup Remembered(responder.replay)
    BY <1>1, <1>5
  <1>7. discovery' = [discovery EXCEPT !.forgotten = f]
    BY <1>6 DEF Forgets
  <1>8. [discovery EXCEPT !.forgotten = f]
           \in [answers : [Sweeps -> SUBSET Answers], forgotten : SUBSET Sweeps, stepped : BOOLEAN]
    BY <1>1
  <1>9. /\ discovery' \in [answers : [Sweeps -> SUBSET Answers], forgotten : SUBSET Sweeps,
                           stepped : BOOLEAN]
        /\ discovery'.answers = discovery.answers /\ discovery'.stepped = discovery.stepped
        /\ discovery'.forgotten = f
    BY <1>1, <1>7, <1>8
  <1>10. Remembered(<<>>) = {}
    BY <1>2 DEF Remembered
  <1>11. DiscoveryTypeOK'
    BY <1>3, <1>9 DEF DiscoveryIInv, DiscoveryTypeOK
  <1>12. AskedOnce'
    BY <1>3, <1>9, <1>10, Zenon DEF DiscoveryIInv, AskedOnce
  <1>13. \A d \in requests : Outlives(<<>>, d)
    BY <1>2 DEF Outlives
  <1>14. \A d \in requests : Guarded(d, <<>>, discovery', unix)
    BY <1>6, <1>9, Zenon DEF DiscoveryIInv, Guarded
  <1>15. Excused(discovery')
    BY <1>6, <1>9, Zenon DEF DiscoveryIInv, Excused
  <1>16. \A r \in responses : Announced(r, discovery')
    BY <1>9, Zenon DEF DiscoveryIInv, Announced
  <1> QED
    BY <1>3, <1>9, <1>11, <1>12, <1>13, <1>14, <1>15, <1>16, Zenon DEF DiscoveryIInv

\* The clocks.
LEMMA ClockStep ==
  ASSUME DiscoveryIInv, discovery_tick \/ clock_set_back
  PROVE  DiscoveryIInv'
  <1>1. /\ unix \in Int
        /\ discovery \in [answers : [Sweeps -> SUBSET Answers], forgotten : SUBSET Sweeps,
                          stepped : BOOLEAN]
        /\ requests \subseteq [nonce : Sweeps, time : Int] /\ MaximumClockSkew \in Nat
    BY DiscoveryAssumption DEF DiscoveryIInv, DiscoveryTypeOK
  <1>2. CASE discovery_tick
    <2>1. unix' = unix + 1 /\ UNCHANGED <<sweep, requests, responses, responder, discovery>>
      BY <1>2, Zenon DEF discovery_tick
    <2>2. DiscoveryTypeOK'
      BY <1>1, <2>1 DEF DiscoveryIInv, DiscoveryTypeOK
    <2>3. AskedOnce'
      BY <2>1, Zenon DEF DiscoveryIInv, AskedOnce
    <2>4. \A d \in requests : d.time + MaximumClockSkew < unix => d.time + MaximumClockSkew < unix'
      <3> TAKE d \in requests
      <3>1. d.time \in Int
        BY <1>1
      <3> QED
        BY <1>1, <2>1, <3>1
    <2>5. \A d \in requests : Guarded(d, responder.replay, discovery, unix')
      BY <2>4, Zenon DEF DiscoveryIInv, Guarded
    <2> QED
      BY <2>1, <2>2, <2>3, <2>5, Zenon DEF DiscoveryIInv
  <1>3. CASE clock_set_back
    <2>1. /\ unix' = unix - 1 /\ discovery' = [discovery EXCEPT !.stepped = TRUE]
          /\ UNCHANGED <<sweep, requests, responses, responder>>
      BY <1>3, Zenon DEF clock_set_back
    <2>2. [discovery EXCEPT !.stepped = TRUE]
             \in [answers : [Sweeps -> SUBSET Answers], forgotten : SUBSET Sweeps, stepped : BOOLEAN]
      BY <1>1
    <2>3. /\ discovery' \in [answers : [Sweeps -> SUBSET Answers], forgotten : SUBSET Sweeps,
                             stepped : BOOLEAN]
          /\ discovery'.answers = discovery.answers /\ discovery'.stepped = TRUE
      BY <1>1, <2>1, <2>2
    <2>4. DiscoveryTypeOK'
      BY <1>1, <2>1, <2>3 DEF DiscoveryIInv, DiscoveryTypeOK
    <2>5. AskedOnce'
      BY <2>1, <2>3, Zenon DEF DiscoveryIInv, AskedOnce
    <2>6. discovery'.stepped
      BY <2>3
    <2>7. \A d \in requests : Guarded(d, responder.replay, discovery', unix')
      BY <2>6, Zenon DEF Guarded
    <2>8. Excused(discovery')
      BY <2>6, Zenon DEF Excused
    <2>9. \A r \in responses : Announced(r, discovery')
      BY <2>3, Zenon DEF DiscoveryIInv, Announced
    <2> QED
      BY <2>1, <2>3, <2>4, <2>5, <2>7, <2>8, <2>9, Zenon DEF DiscoveryIInv
  <1> QED
    BY <1>2, <1>3

\* A request of a known client, in time: answered unless it is remembered.
LEMMA AnswerStep ==
  ASSUME DiscoveryIInv, NEW d \in requests, NEW gate, run_answer(d, gate),
         UNCHANGED <<unix, sweep, requests>>
  PROVE  DiscoveryIInv'
  <1>0. MaximumClockSkew \in Nat
    BY DiscoveryAssumption
  <1>1. /\ unix \in Int /\ IsResponder(responder)
        /\ requests \subseteq [nonce : Sweeps, time : Int]
        /\ discovery \in [answers : [Sweeps -> SUBSET Answers], forgotten : SUBSET Sweeps,
                          stepped : BOOLEAN]
    BY Zenon DEF DiscoveryIInv, DiscoveryTypeOK
  <1>2. d \in [nonce : Sweeps, time : Int] /\ d.nonce \in Sweeps /\ d.time \in Int
    BY <1>1
  <1>3. PICK q \in Seq(ReplayEntries) : q = responder.replay
    <2>1. responder.replay \in Seq(ReplayEntries)
      BY <1>1 DEF IsResponder
    <2> QED
      BY <2>1, Zenon
  <1>4. PICK yes, entries : yes = accept(q, d).yes /\ entries = accept(q, d).entries
    OBVIOUS
  <1>5. /\ entries \in Seq(ReplayEntries) /\ yes \in BOOLEAN /\ OldOrOf(entries, q, d)
        /\ yes => d.nonce \in Remembered(entries) /\ d.nonce \notin Remembered(prune(q))
        /\ ~yes => entries = prune(q)
    BY <1>1, <1>2, <1>4, Accepted
  <1>6. \A i \in DOMAIN entries :
           \/ \E j \in DOMAIN q : entries[i] = q[j]
           \/ /\ entries[i].key = d.nonce
              /\ entries[i].expires_at >= d.time + MaximumClockSkew
    BY <1>5, Zenon DEF OldOrOf
  <1>7. PICK evicted : evicted = IF yes THEN Remembered(prune(q)) \ Remembered(entries) ELSE {}
    OBVIOUS
  <1>8. PICK heard : heard = [responder EXCEPT !.replay = entries, !.sources = gate.sources]
    OBVIOUS
  <1>9. PICK known : known = [discovery EXCEPT !.forgotten = @ \cup evicted]
    OBVIOUS
  <1>10. ~(d.time + MaximumClockSkew < unix)
    <2>1. d.time - unix \in -MaximumClockSkew .. MaximumClockSkew
      BY Zenon DEF run_answer, verify_request, time_is_valid
    <2> QED
      BY <1>0, <1>1, <1>2, <2>1
  <1>11. \/ /\ ~yes \/ (yes /\ DiscoveryFault)
            /\ responder' = heard /\ discovery' = known /\ responses' = responses
         \/ /\ yes
            /\ responses' = responses \cup {create_response(d)}
            /\ responder' = [heard EXCEPT !.sources = limiter_record_success(@, SweepSource)]
            /\ discovery' = [known EXCEPT !.answers[d.nonce] =
                                @ \cup {[port |-> responder.port, again |-> @ # {}]}]
    BY <1>3, <1>4, <1>7, <1>8, <1>9 DEF run_answer
  (* The protector. *)
  <1>12. Outlives(q, d) /\ \A e \in requests : Outlives(q, e)
    BY <1>3, Zenon DEF DiscoveryIInv
  <1>13. \A e \in requests : Outlives(entries, e)
    <2> SUFFICES ASSUME NEW e \in requests, NEW i \in DOMAIN entries, entries[i].key = e.nonce
                 PROVE  entries[i].expires_at >= e.time + MaximumClockSkew
      BY Zenon DEF Outlives
    <2>1. CASE \E j \in DOMAIN q : entries[i] = q[j]
      BY <1>12, <2>1, Zenon DEF Outlives
    <2>2. CASE entries[i].key = d.nonce /\ entries[i].expires_at >= d.time + MaximumClockSkew
      <3>1. e = d
        BY <2>2, Zenon DEF DiscoveryIInv, AskedOnce
      <3> QED
        BY <2>2, <3>1
    <2> QED
      BY <1>6, <2>1, <2>2
  <1>14. \A x \in Remembered(entries) : x \in Remembered(q) \/ x = d.nonce
    <2> TAKE x \in Remembered(entries)
    <2>1. PICK i \in DOMAIN entries : x = entries[i].key
      BY Zenon DEF Remembered
    <2> QED
      BY <1>6, <2>1, Zenon DEF Remembered
  <1>15. \A e \in requests :
            e.nonce \in Remembered(q) =>
               \/ e.nonce \in evicted \/ e.nonce \in Remembered(entries)
               \/ e.time + MaximumClockSkew < unix
    <2> TAKE e \in requests
    <2> HAVE e.nonce \in Remembered(q)
    <2>0. e \in [nonce : Sweeps, time : Int] /\ Outlives(q, e)
      BY <1>1, <1>12
    <2>1. e.nonce \in Remembered(prune(q)) \/ e.time + MaximumClockSkew < unix
      BY <1>1, <2>0, PruneKeeps
    <2>2. CASE yes
      BY <1>7, <2>1, <2>2
    <2>3. CASE ~yes
      BY <1>5, <2>1, <2>3
    <2> QED
      BY <1>5, <2>2, <2>3
  <1>16. evicted \subseteq Sweeps
    <2>1. prune(q) \in Seq(ReplayEntries)
      BY <1>1, Pruned
    <2>2. Remembered(prune(q)) \subseteq Sweeps
      BY <2>1, SweepsRemembered
    <2> QED
      BY <1>7, <2>2
  (* The history. *)
  <1>17. /\ known \in [answers : [Sweeps -> SUBSET Answers], forgotten : SUBSET Sweeps,
                       stepped : BOOLEAN]
         /\ known.answers = discovery.answers /\ known.stepped = discovery.stepped
         /\ known.forgotten = discovery.forgotten \cup evicted
    <2>1. discovery.forgotten \cup evicted \in SUBSET Sweeps
      BY <1>1, <1>16
    <2>2. [discovery EXCEPT !.forgotten = discovery.forgotten \cup evicted]
             \in [answers : [Sweeps -> SUBSET Answers], forgotten : SUBSET Sweeps, stepped : BOOLEAN]
      BY <1>1, <2>1
    <2>3. known = [discovery EXCEPT !.forgotten = discovery.forgotten \cup evicted]
      BY <1>9
    <2> QED
      BY <1>1, <2>2, <2>3
  <1>18. IsResponder(heard) /\ heard.replay = entries /\ heard.port = responder.port
    BY <1>1, <1>5, <1>8 DEF IsResponder
  <1>19. IsResponder(responder') /\ responder'.replay = entries
    <2>1. CASE responder' = heard
      BY <1>18, <2>1, Zenon
    <2>2. CASE responder' = [heard EXCEPT !.sources = limiter_record_success(@, SweepSource)]
      <3>1. PICK s : responder' = [heard EXCEPT !.sources = s]
        BY <2>2
      <3> QED
        BY <1>18, <3>1 DEF IsResponder
    <2> QED
      BY <1>11, <2>1, <2>2
  <1>20. d.nonce <= sweep.nonce
    BY Zenon DEF DiscoveryIInv, AskedOnce
  <1>21. \A x \in Remembered(entries) : x <= sweep.nonce
    BY <1>3, <1>14, <1>20, Zenon DEF DiscoveryIInv, AskedOnce
  <1>22. CASE responder' = heard /\ discovery' = known /\ responses' = responses
    <2>1. DiscoveryTypeOK'
      BY <1>17, <1>19, <1>22 DEF DiscoveryIInv, DiscoveryTypeOK
    <2>2. AskedOnce'
      BY <1>17, <1>19, <1>21, <1>22, Zenon DEF DiscoveryIInv, AskedOnce
    <2>3. \A e \in requests : Guarded(e, entries, known, unix)
      BY <1>3, <1>15, <1>17, Zenon DEF DiscoveryIInv, Guarded
    <2>4. Excused(known)
      BY <1>17, Zenon DEF DiscoveryIInv, Excused
    <2>5. \A r \in responses : Announced(r, known)
      BY <1>17, Zenon DEF DiscoveryIInv, Announced
    <2> QED
      BY <1>13, <1>17, <1>19, <1>22, <2>1, <2>2, <2>3, <2>4, <2>5, Zenon DEF DiscoveryIInv
  <1>23. CASE /\ yes
              /\ responses' = responses \cup {create_response(d)}
              /\ discovery' = [known EXCEPT !.answers[d.nonce] =
                                  @ \cup {[port |-> responder.port, again |-> @ # {}]}]
    <2>1. responder.port \in ControlPorts \cup {0}
      BY <1>1 DEF IsResponder
    <2>2. PICK again \in BOOLEAN : again = (discovery.answers[d.nonce] # {})
      OBVIOUS
    <2>3. PICK x \in Answers : x = [port |-> responder.port, again |-> again]
      BY <2>1 DEF Answers
    <2>4. discovery.answers \in [Sweeps -> SUBSET Answers]
      BY <1>1
    <2>5. PICK A \in [Sweeps -> SUBSET Answers] :
             A = [discovery.answers EXCEPT ![d.nonce] = @ \cup {x}]
      <3>1. [discovery.answers EXCEPT ![d.nonce] = @ \cup {x}] \in [Sweeps -> SUBSET Answers]
        BY <1>2, <2>4
      <3> QED
        BY <3>1, Zenon
    <2>6. discovery' = [known EXCEPT !.answers = A]
      BY <1>17, <1>23, <2>2, <2>3, <2>5
    <2>7. [known EXCEPT !.answers = A]
             \in [answers : [Sweeps -> SUBSET Answers], forgotten : SUBSET Sweeps, stepped : BOOLEAN]
      BY <1>17
    <2>8. /\ discovery' \in [answers : [Sweeps -> SUBSET Answers], forgotten : SUBSET Sweeps,
                             stepped : BOOLEAN]
          /\ discovery'.answers = A /\ discovery'.stepped = discovery.stepped
          /\ discovery'.forgotten = discovery.forgotten \cup evicted
      BY <1>17, <2>6, <2>7
    <2>9. /\ A[d.nonce] = discovery.answers[d.nonce] \cup {x}
          /\ \A n \in Sweeps : n # d.nonce => A[n] = discovery.answers[n]
          /\ \A n \in Sweeps : discovery.answers[n] \subseteq A[n]
      BY <1>2, <2>4, <2>5
    <2>10. again => d.nonce \in discovery.forgotten \/ discovery.stepped
      <3>1. Guarded(d, q, discovery, unix)
        BY <1>3, Zenon DEF DiscoveryIInv
      <3>2. d.nonce \in Remembered(q) => FALSE
        <4> HAVE d.nonce \in Remembered(q)
        <4>1. d.nonce \in Remembered(prune(q)) \/ d.time + MaximumClockSkew < unix
          BY <1>1, <1>2, <1>12, PruneKeeps
        <4> QED
          BY <1>5, <1>10, <1>23, <4>1, Zenon
      <3> QED
        BY <1>10, <2>2, <3>1, <3>2, Zenon DEF Guarded
    <2>11. Excused(discovery')
      <3> SUFFICES ASSUME NEW n \in Sweeps, NEW y \in A[n], y.again
                   PROVE  n \in discovery'.forgotten \/ discovery'.stepped
        BY <2>8, Zenon DEF Excused
      <3>1. CASE y \in discovery.answers[n]
        BY <2>8, <3>1, Zenon DEF DiscoveryIInv, Excused
      <3>2. CASE y = x /\ n = d.nonce
        <4>1. again
          BY <2>3, <3>2
        <4> QED
          BY <2>8, <2>10, <3>2, <4>1, Zenon
      <3> QED
        BY <2>9, <3>1, <3>2
    <2>12. \A e \in requests : Guarded(e, entries, discovery', unix)
      <3> TAKE e \in requests
      <3>1. CASE e.nonce = d.nonce
        BY <1>5, <1>23, <3>1, Zenon DEF Guarded
      <3>2. CASE e.nonce # d.nonce
        <4>1. A[e.nonce] = discovery.answers[e.nonce]
          BY <1>1, <2>9, <3>2
        <4>2. Guarded(e, q, discovery, unix)
          BY <1>3, Zenon DEF DiscoveryIInv
        <4> QED
          BY <1>15, <2>8, <4>1, <4>2, Zenon DEF Guarded
      <3> QED
        BY <3>1, <3>2
    <2>13. \A r \in responses' : Announced(r, discovery')
      <3> TAKE r \in responses'
      <3>1. CASE r \in responses
        BY <2>8, <2>9, <3>1, Zenon DEF DiscoveryIInv, Announced
      <3>2. CASE r = create_response(d)
        <4>1. r.nonce = d.nonce /\ r.port = responder.port
          BY <3>2 DEF create_response
        <4>2. x \in A[r.nonce] /\ x.port = r.port
          BY <2>3, <2>9, <4>1
        <4> QED
          BY <1>2, <2>8, <4>1, <4>2, Zenon DEF Announced
      <3> QED
        BY <1>23, <3>1, <3>2
    <2>14. DiscoveryTypeOK'
      BY <1>19, <2>8 DEF DiscoveryIInv, DiscoveryTypeOK
    <2>15. \A n \in Sweeps : A[n] # {} => n <= sweep.nonce
      BY <1>20, <2>9, Zenon DEF DiscoveryIInv, AskedOnce
    <2>16. AskedOnce'
      BY <1>19, <1>21, <2>8, <2>15, Zenon DEF DiscoveryIInv, AskedOnce
    <2>17. \A p \in sweep.endpoints : \E y \in A[sweep.nonce] : y.port = p
      <3> TAKE p \in sweep.endpoints
      <3>1. PICK y \in discovery.answers[sweep.nonce] : y.port = p
        BY Zenon DEF DiscoveryIInv
      <3>2. CASE sweep.nonce \in Sweeps
        BY <2>9, <3>1, <3>2
      <3>3. CASE sweep.nonce \notin Sweeps
        <4>1. A[sweep.nonce] = discovery.answers[sweep.nonce]
          BY <1>2, <2>4, <2>5, <3>3
        <4> QED
          BY <3>1, <4>1, Zenon
      <3> QED
        BY <3>2, <3>3
    <2> QED
      BY <1>13, <1>19, <2>8, <2>11, <2>12, <2>13, <2>14, <2>16, <2>17, Zenon DEF DiscoveryIInv
  <1> QED
    BY <1>11, <1>22, <1>23

\* The inductive invariant holds in every state of discovery.
LEMMA DiscoveryInvariant == DiscoverySpec => []DiscoveryIInv
  <1>1. DiscoveryInit => DiscoveryIInv
    <2> SUFFICES ASSUME DiscoveryInit PROVE DiscoveryIInv
      OBVIOUS
    <2>0. MaxSweeps \in Nat
      BY DiscoveryAssumption
    <2>1. /\ unix = 5 /\ sweep = [nonce |-> 0, offset |-> 0, endpoints |-> {}]
          /\ requests = {} /\ responses = {}
      BY DEF DiscoveryInit
    <2>2. PICK A \in [Sweeps -> SUBSET Answers] : A = [n \in Sweeps |-> {}]
      OBVIOUS
    <2>3. discovery = [answers |-> A, forgotten |-> {}, stepped |-> FALSE]
      BY <2>2 DEF DiscoveryInit
    <2>4. <<>> \in Seq(ReplayEntries) /\ DOMAIN <<>> = {}
      OBVIOUS
    <2>5. IsResponder(responder) /\ responder.replay = <<>>
      BY <2>4 DEF DiscoveryInit, IsResponder
    <2>6. Remembered(<<>>) = {}
      BY <2>4 DEF Remembered
    <2>7. discovery \in [answers : [Sweeps -> SUBSET Answers], forgotten : SUBSET Sweeps,
                         stepped : BOOLEAN]
          /\ discovery.answers = A
      BY <2>3
    <2>8. sweep.nonce = 0 /\ sweep.endpoints = {}
          /\ sweep = [nonce |-> sweep.nonce, offset |-> sweep.offset, endpoints |-> sweep.endpoints]
      BY <2>1
    <2>9. DiscoveryTypeOK
      BY <2>0, <2>1, <2>5, <2>7, <2>8 DEF DiscoveryTypeOK
    <2>10. \A n \in Sweeps : discovery.answers[n] = {}
      BY <2>2, <2>7
    <2>11. AskedOnce
      BY <2>1, <2>5, <2>6, <2>10 DEF AskedOnce
    <2>12. Excused(discovery)
      BY <2>10 DEF Excused
    <2> QED
      BY <2>1, <2>8, <2>9, <2>11, <2>12 DEF DiscoveryIInv
  <1>2. DiscoveryIInv /\ [DiscoveryNext]_discoveryVars => DiscoveryIInv'
    <2> SUFFICES ASSUME DiscoveryIInv, [DiscoveryNext]_discoveryVars PROVE DiscoveryIInv'
      OBVIOUS
    <2>1. CASE \E offset \in ClientOffsets : discover_authenticated_servers(offset)
      BY <2>1, SweepStep, Zenon
    <2>2. CASE receive_response
      BY <2>2, ResponseStep
    <2>3. CASE \E p \in ControlPorts : responder_start(p)
      <3>1. PICK p \in ControlPorts : responder_start(p)
        BY <2>3
      <3>2. p \in ControlPorts \cup {0}
        OBVIOUS
      <3>3. PICK on \in BOOLEAN : on = TRUE
        OBVIOUS
      <3>4. responder' = [responder EXCEPT !.bound = on, !.running = on, !.port = p,
                                           !.replay = <<>>]
        BY <3>1, <3>3, Zenon DEF responder_start
      <3>5. Forgets /\ UNCHANGED <<unix, sweep, requests, responses>>
        BY <3>1, Zenon DEF responder_start
      <3> QED
        BY <3>2, <3>4, <3>5, ForgetStep, Zenon
    <2>4. CASE responder_stop
      <3>1. PICK on \in BOOLEAN : on = FALSE
        OBVIOUS
      <3>2. PICK p \in ControlPorts \cup {0} : p = 0
        OBVIOUS
      <3>3. responder' = [responder EXCEPT !.bound = on, !.running = on, !.port = p,
                                           !.replay = <<>>]
        BY <2>4, <3>1, <3>2, Zenon DEF responder_stop
      <3>4. Forgets /\ UNCHANGED <<unix, sweep, requests, responses>>
        BY <2>4, Zenon DEF responder_stop
      <3> QED
        BY <3>3, <3>4, ForgetStep, Zenon
    <2>5. CASE responder_wait_fails
      <3>1. /\ responder' = [responder EXCEPT !.running = FALSE]
            /\ UNCHANGED <<unix, sweep, requests, responses, discovery>>
        BY <2>5, Zenon DEF responder_wait_fails
      <3> QED
        BY <3>1, ResponderStep, Zenon
    <2>6. CASE \E s \in DiscoverySources : run_bad_datagram(s) \/ run_pairing_probe(s)
      <3>1. PICK s \in DiscoverySources : run_bad_datagram(s) \/ run_pairing_probe(s)
        BY <2>6
      <3>2. /\ \E e : responder' = [responder EXCEPT !.sources = e]
            /\ UNCHANGED <<unix, sweep, requests, responses, discovery>>
        BY <3>1, Zenon DEF run_bad_datagram, run_pairing_probe
      <3> QED
        BY <3>2, ResponderStep, Zenon
    <2>7. CASE run_request
      <3>0. PICK d \in requests :
               \E x : \/ run_refuse(d, x) \/ run_answer(d, x)
                      \/ /\ responder' = [responder EXCEPT !.sources = x.sources]
                         /\ UNCHANGED <<responses, discovery, discovery_faults>>
        BY <2>7, Zenon DEF run_request
      <3>1. PICK gate : \/ run_refuse(d, gate) \/ run_answer(d, gate)
                        \/ /\ responder' = [responder EXCEPT !.sources = gate.sources]
                           /\ UNCHANGED <<responses, discovery, discovery_faults>>
        BY <3>0
      <3>2. UNCHANGED <<unix, sweep, requests>>
        BY <2>7, Zenon DEF run_request
      <3>3. CASE run_answer(d, gate)
        BY <3>2, <3>3, AnswerStep, Zenon
      <3>4. CASE run_refuse(d, gate)
        <4>1. /\ \E e : responder' = [responder EXCEPT !.sources = e]
              /\ UNCHANGED <<unix, sweep, requests, responses, discovery>>
          BY <3>2, <3>4, Zenon DEF run_refuse
        <4> QED
          BY <4>1, ResponderStep, Zenon
      <3>5. CASE /\ responder' = [responder EXCEPT !.sources = gate.sources]
                 /\ UNCHANGED <<responses, discovery, discovery_faults>>
        BY <3>2, <3>5, ResponderStep, Zenon
      <3> QED
        BY <3>1, <3>3, <3>4, <3>5
    <2>8. CASE key_revoked
      <3>1. /\ responder' = [responder EXCEPT !.known = FALSE]
            /\ UNCHANGED <<unix, sweep, requests, responses, discovery>>
        BY <2>8, Zenon DEF key_revoked
      <3> QED
        BY <3>1, ResponderStep, Zenon
    <2>9. CASE discovery_tick \/ clock_set_back
      BY <2>9, ClockStep
    <2>10. CASE UNCHANGED discoveryVars
      <3>1. UNCHANGED <<unix, sweep, requests, responses, responder, discovery>>
        BY <2>10, Zenon DEF discoveryVars
      <3>2. IsResponder(responder') /\ responder'.replay = responder.replay
        BY <3>1, Zenon DEF DiscoveryIInv, DiscoveryTypeOK
      <3> QED
        BY <3>1, <3>2, ResponderAlone, Zenon
    <2> QED
      BY <2>1, <2>2, <2>3, <2>4, <2>5, <2>6, <2>7, <2>8, <2>9, <2>10, Zenon DEF DiscoveryNext
  <1> QED
    BY <1>1, <1>2, PTL DEF DiscoverySpec

\* A sweep's request is answered once, however often and late it arrives, unless the
\* responder was restarted, ran out of room or had its clock set back; and a sweep finds
\* only ports announced in answer to it (ReplayProtector::accept() of
\* common/src/auth.cpp, the responder and the client of common/src/discovery.cpp), for
\* any clock skew, any capacity and any number of sweeps.
THEOREM SweepsAnsweredOnce == DiscoverySpec => []OneAnswerPerSweep
  <1>1. DiscoveryIInv => OneAnswerPerSweep
    BY Zenon DEF DiscoveryIInv, Excused, OneAnswerPerSweep
  <1> QED
    BY <1>1, DiscoveryInvariant, PTL

-----------------------------------------------------------------------------
(* The configuration of the write filter. *)
\* Thresholds found in order, f has in order too, a lost answer apart.
OrderKept(before, u, f) ==
    InOrder(before) /\ u \cap {"warning", "critical"} = {} =>
       f["critical"] = 0 \/ f["warning"] < f["critical"]

\* What is left of a call that was taken back.
TakenBack(u, before, target) ==
    [s \in SettingNames |-> IF s \in u THEN target[s] ELSE before[s]]

\* Settings of a machine.
IsSettings(f) ==
    /\ f = [s \in SettingNames |-> f[s]]
    /\ \A s \in Mandatory \cup {"enabled"} : f[s] \in BOOLEAN
    /\ f["warning"] \in Nat /\ f["critical"] \in Nat

\* The last write of an order.
Final(order) == order[Len(order)]

\* The calls that must make their last write last.
Ordered(kind) == kind \in {"configure", "overlay"}

\* The kinds of calls that write.
Kinds == {"configure", "overlay", "defender", "servicing", "disable"}

\* An order of writes; the last write of an ordered call has one place in it.
IsOrder(kind, order) ==
    /\ order \in Seq(SettingNames) /\ order # <<>>
    /\ Ordered(kind) => \A i \in DOMAIN order : order[i] = Final(order) => i = Len(order)

\* Type correctness of the call under way.
IsTask(t) ==
    /\ t \in [kind : Kinds, order : Seq(SettingNames), todo : SUBSET SettingNames,
              written : SUBSET SettingNames, undoing : BOOLEAN, undone : BOOLEAN]
    /\ IsOrder(t.kind, t.order)
    /\ t.todo \cup t.written \subseteq Range(t.order)

\* The settings are those from before with the writes made, seen or not.
AsWritten(t, u, f, before, target) ==
    \A s \in SettingNames : f[s] = IF s \in t.written \cup u THEN target[s] ELSE before[s]

\* A call that writes: what is neither written nor to be written is as it is to
\* be, and the last write of the order leaves nothing to do.
Writing(t, f, before, target) ==
    /\ t.undone
    /\ t.todo \cap t.written = {}
    /\ AsWritten(t, {}, f, before, target)
    /\ \A s \in SettingNames : s \notin t.todo \cup t.written => target[s] = before[s]
    /\ \A s \in t.todo : target[s] # before[s]
    /\ Ordered(t.kind) /\ Final(t.order) \in t.written => t.todo = {}

\* A call that is taken back: its last write was never made, or its answer lost.
Undoing(t, u, f, before, target) ==
    /\ t.written \cap u = {}
    /\ Ordered(t.kind) => Final(t.order) \notin t.written
    /\ Ordered(t.kind) /\ Final(t.order) \notin u => f[Final(t.order)] = before[Final(t.order)]
    /\ \A s \in SettingNames : f[s] \in {before[s], target[s]}
    /\ t.undone => AsWritten(t, u, f, before, target)

\* What each kind of call is to change, and in which order.
Purpose(kind, order, before, target) ==
    /\ kind = "configure" => Final(order) = "enabled" /\ \A m \in Mandatory : target[m] = TRUE
    /\ kind # "configure" =>
          /\ \A m \in Mandatory : target[m] = before[m]
          /\ target["enabled"] \in {FALSE, before["enabled"]}
    /\ kind = "overlay" =>
          /\ Final(order) \in {"warning", "critical"} /\ target["warning"] < target["critical"]
          /\ Final(order) = "warning" => target["critical"] >= before["critical"]
          /\ Final(order) = "critical" => target["critical"] < before["critical"]
    /\ kind # "overlay" =>
          target["warning"] = before["warning"] /\ target["critical"] = before["critical"]

\* A filter that NSTU armed had its exclusions before the call, or this call has
\* made its last write.
ArmedBefore(t, before) ==
    \/ \A m \in Mandatory : before[m] = TRUE
    \/ ~t.undoing /\ t.kind = "configure" /\ Final(t.order) \in t.written

\* The inductive invariant.
FilterIInv ==
    /\ IsSettings(settings) /\ armed_by_nstu \in BOOLEAN
    /\ armed_by_nstu => \A m \in Mandatory : settings[m] = TRUE
    /\ OrderKept(settings_before, unseen, settings)
    /\ filter_task # NoTask =>
          /\ IsTask(filter_task)
          /\ IsSettings(settings_before) /\ IsSettings(filter_target)
          /\ Purpose(filter_task.kind, filter_task.order, settings_before, filter_target)
          /\ ~filter_task.undoing =>
                unseen = {} /\ Writing(filter_task, settings, settings_before, filter_target)
          /\ filter_task.undoing =>
                Undoing(filter_task, unseen, settings, settings_before, filter_target)
          /\ armed_by_nstu => ArmedBefore(filter_task, settings_before)
    /\ filter_task = NoTask /\ filter_result.kind # "none" =>
          settings = IF filter_result.succeeded THEN filter_target
                     ELSE IF filter_result.rolled_back
                     THEN TakenBack(unseen, settings_before, filter_target)
                     ELSE settings

\* What a call leaves of the settings is settings: the thresholds stay in order
\* with the writes made, in their order, and with some of them taken back.
LEMMA SettingsStay ==
  ASSUME NEW t, NEW u, NEW f, NEW before, NEW target, IsTask(t), IsSettings(before), IsSettings(target),
         Purpose(t.kind, t.order, before, target), f = [s \in SettingNames |-> f[s]],
         Writing(t, f, before, target) \/ Undoing(t, u, f, before, target)
  PROVE  /\ IsSettings(f) /\ \A s \in SettingNames : f[s] \in {before[s], target[s]}
         /\ OrderKept(before, u, f)
  <1>1. \A s \in SettingNames : f[s] \in {before[s], target[s]}
    BY DEF Writing, Undoing, AsWritten
  <1>2. \A s \in Mandatory \cup {"enabled"} : f[s] \in BOOLEAN
    <2>1. \A s \in Mandatory \cup {"enabled"} : s \in SettingNames
      BY DEF SettingNames, OwnSettings
    <2> QED
      BY <1>1, <2>1, Zenon DEF IsSettings
  <1>3. "warning" \in SettingNames /\ "critical" \in SettingNames
    BY DEF SettingNames, OwnSettings
  <1>4. /\ before["warning"] \in Nat /\ before["critical"] \in Nat
        /\ target["warning"] \in Nat /\ target["critical"] \in Nat
    BY DEF IsSettings
  <1>5. f["warning"] \in Nat /\ f["critical"] \in Nat
    BY <1>1, <1>3, <1>4
  <1>6. OrderKept(before, u, f)
    <2> SUFFICES ASSUME InOrder(before), u \cap {"warning", "critical"} = {}
                 PROVE  f["critical"] = 0 \/ f["warning"] < f["critical"]
      BY DEF OrderKept
    <2>0. \/ before["warning"] < before["critical"]
          \/ before["warning"] = 0 /\ before["critical"] = 0
      BY DEF InOrder
    <2>1. CASE t.kind # "overlay"
      <3>1. target["warning"] = before["warning"] /\ target["critical"] = before["critical"]
        BY <2>1 DEF Purpose
      <3>2. f["warning"] = before["warning"] /\ f["critical"] = before["critical"]
        BY <1>1, <1>3, <3>1
      <3> QED
        BY <2>0, <3>2
    <2>2. CASE t.kind = "overlay" /\ Final(t.order) = "warning"
      <3>1. target["critical"] >= before["critical"] /\ target["warning"] < target["critical"]
        BY <2>2 DEF Purpose
      <3>2. \/ f["warning"] = before["warning"]
            \/ f["warning"] = target["warning"] /\ f["critical"] = target["critical"]
        <4>1. CASE Undoing(t, u, f, before, target)
          <5>1. "warning" \notin u
            OBVIOUS
          <5> QED
            BY <2>2, <4>1, <5>1 DEF Undoing, Ordered
        <4>2. CASE Writing(t, f, before, target)
          <5>1. CASE "warning" \in t.written
            <6>1. t.todo = {}
              BY <2>2, <4>2, <5>1 DEF Writing, Ordered
            <6>2. \A s \in SettingNames : f[s] = target[s]
              BY <4>2, <6>1 DEF Writing, AsWritten
            <6> QED
              BY <1>3, <6>2
          <5>2. CASE "warning" \notin t.written
            BY <1>3, <4>2, <5>2 DEF Writing, AsWritten
          <5> QED
            BY <5>1, <5>2
        <4> QED
          BY <4>1, <4>2
      <3>3. f["critical"] = before["critical"] \/ f["critical"] = target["critical"]
        BY <1>1, <1>3
      <3> QED
        BY <1>4, <2>0, <3>1, <3>2, <3>3
    <2>3. CASE t.kind = "overlay" /\ Final(t.order) = "critical"
      <3>1. target["critical"] < before["critical"] /\ target["warning"] < target["critical"]
        BY <2>3 DEF Purpose
      <3>2. \/ f["critical"] = before["critical"]
            \/ f["warning"] = target["warning"] /\ f["critical"] = target["critical"]
        <4>1. CASE Undoing(t, u, f, before, target)
          <5>1. "critical" \notin u
            OBVIOUS
          <5> QED
            BY <2>3, <4>1, <5>1 DEF Undoing, Ordered
        <4>2. CASE Writing(t, f, before, target)
          <5>1. CASE "critical" \in t.written
            <6>1. t.todo = {}
              BY <2>3, <4>2, <5>1 DEF Writing, Ordered
            <6>2. \A s \in SettingNames : f[s] = target[s]
              BY <4>2, <6>1 DEF Writing, AsWritten
            <6> QED
              BY <1>3, <6>2
          <5>2. CASE "critical" \notin t.written
            BY <1>3, <4>2, <5>2 DEF Writing, AsWritten
          <5> QED
            BY <5>1, <5>2
        <4> QED
          BY <4>1, <4>2
      <3>3. f["warning"] = before["warning"] \/ f["warning"] = target["warning"]
        BY <1>1, <1>3
      <3> QED
        BY <1>4, <2>0, <3>1, <3>2, <3>3
    <2> QED
      BY <2>1, <2>2, <2>3 DEF Purpose
  <1> QED
    BY <1>1, <1>2, <1>5, <1>6, Zenon DEF IsSettings

\* A filter that was armed when the call began keeps its exclusions.
LEMMA ExclusionsStay ==
  ASSUME NEW kind, NEW order, NEW f, NEW before, NEW target,
         Purpose(kind, order, before, target),
         \A m \in Mandatory : before[m] = TRUE,
         \A s \in SettingNames : f[s] \in {before[s], target[s]}
  PROVE  \A m \in Mandatory : f[m] = TRUE
  <1> TAKE m \in Mandatory
  <1>1. f[m] = before[m] \/ f[m] = target[m]
    BY DEF SettingNames, OwnSettings
  <1>2. target[m] = TRUE \/ target[m] = before[m]
    BY Zenon DEF Purpose
  <1> QED
    BY <1>1, <1>2, Zenon

\* What is known of a call under way.
LEMMA UnderWay ==
  ASSUME FilterIInv, ~Idle
  PROVE  /\ IsTask(filter_task) /\ filter_task # NoTask
         /\ IsSettings(settings) /\ IsSettings(settings_before) /\ IsSettings(filter_target)
         /\ Purpose(filter_task.kind, filter_task.order, settings_before, filter_target)
         /\ ~filter_task.undoing =>
               unseen = {} /\ Writing(filter_task, settings, settings_before, filter_target)
         /\ filter_task.undoing =>
               Undoing(filter_task, unseen, settings, settings_before, filter_target)
         /\ armed_by_nstu \in BOOLEAN
         /\ armed_by_nstu => ArmedBefore(filter_task, settings_before)
         /\ armed_by_nstu => \A m \in Mandatory : settings[m] = TRUE
  <1>1. filter_task # NoTask
    BY DEF Idle, NoTask
  <1> QED
    BY <1>1, Zenon DEF FilterIInv

\* A task is not the absence of one.
LEMMA TaskIsNone ==
  ASSUME NEW t, IsTask(t)
  PROVE  t # NoTask
  <1>1. t.kind \in Kinds
    BY DEF IsTask
  <1> QED
    BY <1>1 DEF NoTask, Kinds

\* The invariant in the middle of a call.
LEMMA InTheMiddle ==
  ASSUME NEW t, t = filter_task', IsTask(t),
         IsSettings(settings)', IsSettings(settings_before)', IsSettings(filter_target)',
         Purpose(t.kind, t.order, settings_before', filter_target'),
         OrderKept(settings_before', unseen', settings'),
         IF t.undoing THEN Undoing(t, unseen', settings', settings_before', filter_target')
                      ELSE unseen' = {} /\ Writing(t, settings', settings_before', filter_target'),
         armed_by_nstu' \in BOOLEAN,
         armed_by_nstu' => ArmedBefore(t, settings_before'),
         armed_by_nstu' => \A m \in Mandatory : settings'[m] = TRUE
  PROVE  FilterIInv'
  <1>1. filter_task' # NoTask
    BY TaskIsNone, Zenon
  <1>2. /\ t.undoing => Undoing(t, unseen', settings', settings_before', filter_target')
        /\ ~t.undoing => unseen' = {} /\ Writing(t, settings', settings_before', filter_target')
    BY Zenon
  <1> QED
    BY <1>1, <1>2, Zenon DEF FilterIInv

\* A settings function with one value changed.
LEMMA OneSetting ==
  ASSUME NEW f, f = [s \in SettingNames |-> f[s]], NEW s \in SettingNames, NEW v, NEW g,
         g = [f EXCEPT ![s] = v]
  PROVE  /\ g = [x \in SettingNames |-> g[x]] /\ g[s] = v
         /\ \A x \in SettingNames : x # s => g[x] = f[x]
  OBVIOUS

\* A write is made: the exclusions come before the filter is armed.
LEMMA WriteKeeps ==
  ASSUME FilterIInv, filter_write
  PROVE  FilterIInv'
  <1>1. /\ ~Idle /\ ~filter_task.undoing /\ settings_before' = settings_before /\ filter_target' = filter_target
        /\ unseen' = unseen
    BY DEF filter_write
  <1>2. PICK s \in filter_task.todo :
           /\ IsNextWrite(s)
           /\ settings' = [settings EXCEPT ![s] = filter_target[s]]
           /\ filter_task' = [filter_task EXCEPT !.todo = @ \ {s}, !.written = @ \cup {s}]
           /\ armed_by_nstu' = IF s = "enabled" THEN filter_target[s] ELSE armed_by_nstu
    BY Zenon DEF filter_write
  <1>3. /\ IsTask(filter_task) /\ IsSettings(settings) /\ IsSettings(settings_before) /\ IsSettings(filter_target)
        /\ Purpose(filter_task.kind, filter_task.order, settings_before, filter_target)
        /\ unseen = {} /\ Writing(filter_task, settings, settings_before, filter_target)
        /\ armed_by_nstu \in BOOLEAN
        /\ armed_by_nstu => ArmedBefore(filter_task, settings_before)
        /\ armed_by_nstu => \A m \in Mandatory : settings[m] = TRUE
    BY <1>1, UnderWay, Zenon
  <1>4. PICK t : t = filter_task'
    BY Zenon
  <1>5. /\ t.kind = filter_task.kind /\ t.order = filter_task.order /\ t.undoing = filter_task.undoing
        /\ t.undone = filter_task.undone /\ t.todo = filter_task.todo \ {s}
        /\ t.written = filter_task.written \cup {s} /\ s \in SettingNames
    BY <1>2, <1>3, <1>4 DEF IsTask
  <1>6. IsTask(t)
    <2>1. t \in [kind : Kinds, order : Seq(SettingNames), todo : SUBSET SettingNames,
              written : SUBSET SettingNames, undoing : BOOLEAN, undone : BOOLEAN]
      BY <1>2, <1>3, <1>4 DEF IsTask
    <2>2. t.todo \cup t.written \subseteq Range(t.order)
      <3>1. filter_task.todo \cup filter_task.written \subseteq Range(filter_task.order)
        BY <1>3 DEF IsTask
      <3>2. t.todo \cup t.written \subseteq filter_task.todo \cup filter_task.written
        BY <1>5
      <3> QED
        BY <1>5, <3>1, <3>2, Zenon
    <2> QED
      BY <1>3, <1>5, <2>1, <2>2, Zenon DEF IsTask
  <1>7. /\ settings' = [x \in SettingNames |-> settings'[x]] /\ settings'[s] = filter_target[s]
        /\ \A x \in SettingNames : x # s => settings'[x] = settings[x]
    <2>1. settings = [x \in SettingNames |-> settings[x]]
      BY <1>3 DEF IsSettings
    <2> QED
      BY <1>2, <1>5, <2>1, OneSetting
  <1>8. Ordered(t.kind) /\ s = Final(t.order) => t.todo = {}
    <2> SUFFICES ASSUME Ordered(t.kind), s = Final(t.order), NEW x \in t.todo
                 PROVE  FALSE
      OBVIOUS
    <2>1. x \in filter_task.todo /\ x # s
      BY <1>5
    <2>2. PICK i \in DOMAIN t.order : t.order[i] = s /\ \A j \in 1 .. i - 1 : t.order[j] \notin filter_task.todo
      BY <1>2, <1>5 DEF IsNextWrite
    <2>3. i = Len(t.order)
      BY <1>6, <2>2 DEF IsTask, IsOrder
    <2>4. x \in Range(t.order)
      BY <1>6 DEF IsTask
    <2>5. PICK j \in DOMAIN t.order : t.order[j] = x
      BY <2>4 DEF Range
    <2>6. t.order \in Seq(SettingNames)
      BY <1>6 DEF IsTask
    <2>7. j # i /\ j \in 1 .. Len(t.order)
      BY <2>1, <2>2, <2>5, <2>6
    <2>8. j \in 1 .. i - 1
      BY <2>3, <2>6, <2>7
    <2> QED
      BY <2>1, <2>2, <2>5, <2>8
  <1>9. Writing(t, settings', settings_before, filter_target)
    <2>1. t.undone
      BY <1>3, <1>5 DEF Writing
    <2>2. t.todo \cap t.written = {} /\ s \notin filter_task.written
      BY <1>3, <1>5 DEF Writing
    <2>3. AsWritten(t, {}, settings', settings_before, filter_target)
      <3> SUFFICES ASSUME NEW x \in SettingNames
                   PROVE  settings'[x] = IF x \in t.written \cup {} THEN filter_target[x] ELSE settings_before[x]
        BY DEF AsWritten
      <3>1. CASE x = s
        BY <1>5, <1>7, <3>1
      <3>2. CASE x # s
        <4>1. settings[x] = IF x \in filter_task.written \cup {} THEN filter_target[x] ELSE settings_before[x]
          BY <1>3, Zenon DEF Writing, AsWritten
        <4>2. x \in t.written \cup {} <=> x \in filter_task.written \cup {}
          BY <1>5, <3>2
        <4> QED
          BY <1>7, <3>2, <4>1, <4>2, Zenon
      <3> QED
        BY <3>1, <3>2
    <2>4. \A x \in SettingNames : x \notin t.todo \cup t.written => filter_target[x] = settings_before[x]
      <3>1. \A x : x \notin t.todo \cup t.written => x \notin filter_task.todo \cup filter_task.written
        BY <1>5
      <3> QED
        BY <1>3, <3>1, Zenon DEF Writing
    <2>5. \A x \in t.todo : filter_target[x] # settings_before[x]
      BY <1>3, <1>5 DEF Writing
    <2>6. Ordered(t.kind) /\ Final(t.order) \in t.written => t.todo = {}
      <3> SUFFICES ASSUME Ordered(t.kind), Final(t.order) \in t.written, s # Final(t.order)
                   PROVE  FALSE
        BY <1>8
      <3>1. Final(filter_task.order) \in filter_task.written
        BY <1>5
      <3>2. filter_task.todo = {}
        BY <1>3, <1>5, <3>1, Zenon DEF Writing
      <3> QED
        BY <3>2
    <2> QED
      BY <2>1, <2>2, <2>3, <2>4, <2>5, <2>6, Zenon DEF Writing
  <1>10. /\ IsSettings(settings') /\ \A x \in SettingNames : settings'[x] \in {settings_before[x], filter_target[x]}
         /\ OrderKept(settings_before, unseen, settings')
    <2>1. Purpose(t.kind, t.order, settings_before, filter_target)
      BY <1>3, <1>5, Zenon
    <2>2. PICK f : f = settings'
      BY Zenon
    <2>3. f = [x \in SettingNames |-> f[x]] /\ Writing(t, f, settings_before, filter_target)
      BY <1>7, <1>9, <2>2, Zenon
    <2>4. /\ IsSettings(f) /\ \A x \in SettingNames : f[x] \in {settings_before[x], filter_target[x]}
          /\ OrderKept(settings_before, unseen, f)
      BY <1>3, <1>6, <2>1, <2>3, SettingsStay, Zenon
    <2> QED
      BY <2>2, <2>4, Zenon
  <1>11. /\ armed_by_nstu' \in BOOLEAN
         /\ armed_by_nstu' => ArmedBefore(t, settings_before)
         /\ armed_by_nstu' => \A m \in Mandatory : settings'[m] = TRUE
    <2>1. CASE s = "enabled"
      <3>1. armed_by_nstu' = filter_target["enabled"] /\ filter_target["enabled"] \in BOOLEAN
        BY <1>2, <1>3, <2>1, Zenon DEF IsSettings
      <3>2. ASSUME armed_by_nstu'
            PROVE  ArmedBefore(t, settings_before) /\ \A m \in Mandatory : settings'[m] = TRUE
        <4>1. filter_target["enabled"] = TRUE /\ filter_target["enabled"] # settings_before["enabled"]
          <5>1. filter_target[s] # settings_before[s]
            BY <1>3, Zenon DEF Writing
          <5> QED
            BY <2>1, <3>1, <3>2, <5>1, Zenon
        <4>2. t.kind = "configure"
          <5>1. filter_task.kind # "configure" => filter_target["enabled"] \in {FALSE, settings_before["enabled"]}
            BY <1>3, Zenon DEF Purpose
          <5> QED
            BY <1>5, <4>1, <5>1, Zenon
        <4>3. Final(t.order) = s /\ \A m \in Mandatory : filter_target[m] = TRUE
          BY <1>3, <1>5, <2>1, <4>2, Zenon DEF Purpose
        <4>4. t.todo = {}
          BY <1>8, <4>2, <4>3 DEF Ordered
        <4>5. ASSUME NEW m \in Mandatory PROVE settings'[m] = TRUE
          <5>1. m \in SettingNames
            BY DEF SettingNames, OwnSettings
          <5>2. settings'[m] = IF m \in t.written \cup {} THEN filter_target[m] ELSE settings_before[m]
            BY <1>9, <5>1, Zenon DEF Writing, AsWritten
          <5>3. m \notin t.written \cup {} => filter_target[m] = settings_before[m]
            BY <1>9, <4>4, <5>1 DEF Writing
          <5> QED
            BY <4>3, <5>2, <5>3, Zenon
        <4>6. ArmedBefore(t, settings_before)
          BY <1>1, <1>5, <4>2, <4>3 DEF ArmedBefore
        <4> QED
          BY <4>5, <4>6
      <3> QED
        BY <3>1, <3>2, Zenon
    <2>2. CASE s # "enabled"
      <3>1. armed_by_nstu' = armed_by_nstu
        BY <1>2, <2>2, Zenon
      <3>2. ASSUME armed_by_nstu
            PROVE  ArmedBefore(t, settings_before) /\ \A m \in Mandatory : settings'[m] = TRUE
        <4>1. \A m \in Mandatory : settings_before[m] = TRUE
          <5> SUFFICES ASSUME filter_task.kind = "configure", Final(filter_task.order) \in filter_task.written
                       PROVE  FALSE
            BY <1>3, <3>2, Zenon DEF ArmedBefore
          <5>1. filter_task.todo = {}
            BY <1>3 DEF Writing, Ordered
          <5> QED
            BY <5>1
        <4>2. ArmedBefore(t, settings_before)
          BY <4>1, Zenon DEF ArmedBefore
        <4>3. PICK f : f = settings'
          BY Zenon
        <4>4. \A m \in Mandatory : f[m] = TRUE
          BY <1>3, <1>10, <4>1, <4>3, ExclusionsStay, Zenon
        <4> QED
          BY <4>2, <4>3, <4>4, Zenon
      <3> QED
        BY <1>3, <3>1, <3>2, Zenon
    <2> QED
      BY <2>1, <2>2, Zenon
  <1>12. ~t.undoing /\ Purpose(t.kind, t.order, settings_before, filter_target)
    BY <1>1, <1>3, <1>5, Zenon
  <1> QED
    BY <1>1, <1>3, <1>4, <1>6, <1>9, <1>10, <1>11, <1>12, InTheMiddle, Zenon

\* A write fails: the last write of an ordered call is still to come, or it was
\* this one and its answer is lost.
LEMMA FailureKeeps ==
  ASSUME FilterIInv, filter_write_fails
  PROVE  FilterIInv'
  <1>1. /\ ~Idle /\ ~filter_task.undoing
        /\ settings_before' = settings_before /\ filter_target' = filter_target
        /\ armed_by_nstu' = armed_by_nstu /\ filter_task' = [filter_task EXCEPT !.undoing = TRUE]
    BY DEF filter_write_fails
  <1>2. /\ IsTask(filter_task) /\ IsSettings(settings) /\ IsSettings(settings_before) /\ IsSettings(filter_target)
        /\ Purpose(filter_task.kind, filter_task.order, settings_before, filter_target)
        /\ unseen = {} /\ Writing(filter_task, settings, settings_before, filter_target)
        /\ armed_by_nstu \in BOOLEAN
        /\ armed_by_nstu => ArmedBefore(filter_task, settings_before)
    BY <1>1, UnderWay, Zenon
  <1>3. PICK s \in filter_task.todo :
           \/ settings' = [settings EXCEPT ![s] = filter_target[s]] /\ unseen' = {s}
           \/ settings' = settings /\ unseen' = unseen
    BY Zenon DEF filter_write_fails
  <1>4. PICK t, u, f : t = filter_task' /\ u = unseen' /\ f = settings'
    BY Zenon
  <1>5. /\ t.kind = filter_task.kind /\ t.order = filter_task.order /\ t.undoing
        /\ t.undone = filter_task.undone /\ t.todo = filter_task.todo /\ t.written = filter_task.written
    BY <1>1, <1>2, <1>4 DEF IsTask
  <1>6. IsTask(t)
    <2>1. t \in [kind : Kinds, order : Seq(SettingNames), todo : SUBSET SettingNames,
              written : SUBSET SettingNames, undoing : BOOLEAN, undone : BOOLEAN]
      BY <1>1, <1>2, <1>4 DEF IsTask
    <2> QED
      BY <1>2, <1>5, <2>1, Zenon DEF IsTask
  <1>7. s \in SettingNames /\ s \notin t.written
    BY <1>2, <1>5 DEF IsTask, Writing
  <1>8. /\ f = [x \in SettingNames |-> f[x]] /\ t.written \cap u = {}
        /\ \A x \in SettingNames : f[x] = IF x \in u THEN filter_target[x] ELSE settings[x]
    <2>1. settings = [x \in SettingNames |-> settings[x]]
      BY <1>2 DEF IsSettings
    <2>2. CASE settings' = settings /\ unseen' = unseen
      BY <1>2, <1>4, <2>1, <2>2
    <2>3. CASE settings' = [settings EXCEPT ![s] = filter_target[s]] /\ unseen' = {s}
      <3>1. /\ f = [x \in SettingNames |-> f[x]] /\ f[s] = filter_target[s]
            /\ \A x \in SettingNames : x # s => f[x] = settings[x]
        BY <1>4, <1>7, <2>1, <2>3, OneSetting
      <3>2. u = {s}
        BY <1>4, <2>3
      <3> QED
        BY <1>7, <3>1, <3>2
    <2> QED
      BY <1>3, <2>2, <2>3
  <1>9. AsWritten(t, u, f, settings_before, filter_target)
    <2> SUFFICES ASSUME NEW x \in SettingNames
                 PROVE  f[x] = IF x \in t.written \cup u THEN filter_target[x] ELSE settings_before[x]
      BY DEF AsWritten
    <2>1. settings[x] = IF x \in filter_task.written \cup {} THEN filter_target[x] ELSE settings_before[x]
      BY <1>2, Zenon DEF Writing, AsWritten
    <2>2. f[x] = IF x \in u THEN filter_target[x] ELSE settings[x]
      BY <1>8
    <2> QED
      BY <1>5, <2>1, <2>2
  <1>10. \A x \in SettingNames : f[x] \in {settings_before[x], filter_target[x]}
    BY <1>9 DEF AsWritten
  <1>11. Ordered(t.kind) => Final(t.order) \notin t.written
    BY <1>2, <1>3, <1>5 DEF Writing
  <1>12. Ordered(t.kind) /\ Final(t.order) \notin u => f[Final(t.order)] = settings_before[Final(t.order)]
    <2> SUFFICES ASSUME Ordered(t.kind), Final(t.order) \notin u
                 PROVE  f[Final(t.order)] = settings_before[Final(t.order)]
      OBVIOUS
    <2>1. t.order \in Seq(SettingNames) /\ t.order # <<>>
      BY <1>6 DEF IsTask, IsOrder
    <2>2. Final(t.order) \in SettingNames
      BY <2>1 DEF Final
    <2>3. Final(t.order) \notin t.written \cup u
      BY <1>11
    <2> QED
      BY <1>9, <2>2, <2>3, Zenon DEF AsWritten
  <1>13. Undoing(t, u, f, settings_before, filter_target)
    BY <1>8, <1>9, <1>10, <1>11, <1>12, Zenon DEF Undoing
  <1>14. Purpose(t.kind, t.order, settings_before, filter_target)
    BY <1>2, <1>5, Zenon
  <1>15. IsSettings(f) /\ OrderKept(settings_before, u, f)
    BY <1>2, <1>6, <1>8, <1>13, <1>14, SettingsStay, Zenon
  <1>16. armed_by_nstu => ArmedBefore(t, settings_before) /\ \A m \in Mandatory : f[m] = TRUE
    <2> SUFFICES ASSUME armed_by_nstu
                 PROVE  ArmedBefore(t, settings_before) /\ \A m \in Mandatory : f[m] = TRUE
      BY Zenon
    <2>1. \A m \in Mandatory : settings_before[m] = TRUE
      <3> SUFFICES ASSUME filter_task.kind = "configure", Final(filter_task.order) \in filter_task.written
                   PROVE  FALSE
        BY <1>2, Zenon DEF ArmedBefore
      <3> QED
        BY <1>2, <1>3 DEF Writing, Ordered
    <2>2. ArmedBefore(t, settings_before)
      BY <2>1, Zenon DEF ArmedBefore
    <2>3. \A m \in Mandatory : f[m] = TRUE
      BY <1>10, <1>14, <2>1, ExclusionsStay, Zenon
    <2> QED
      BY <2>2, <2>3
  <1> QED
    BY <1>1, <1>2, <1>4, <1>5, <1>6, <1>13, <1>14, <1>15, <1>16, InTheMiddle, Zenon

\* A write is taken back, or that fails; it was not the last of an ordered call.
LEMMA UndoKeeps ==
  ASSUME FilterIInv, filter_undo
  PROVE  FilterIInv'
  <1>1. /\ filter_task.undoing
        /\ settings_before' = settings_before /\ filter_target' = filter_target
        /\ armed_by_nstu' = armed_by_nstu /\ unseen' = unseen
    BY DEF filter_undo
  <1>2. ~Idle
    <2>1. filter_task # NoTask
      BY <1>1 DEF NoTask
    <2>2. filter_task.kind \in Kinds
      BY <2>1 DEF FilterIInv, IsTask
    <2> QED
      BY <2>2 DEF Idle, Kinds
  <1>3. PICK s \in filter_task.written, fine \in BOOLEAN :
           /\ fine  => /\ settings' = [settings EXCEPT ![s] = settings_before[s]]
                       /\ filter_task' = [filter_task EXCEPT !.written = @ \ {s}]
           /\ ~fine => /\ settings' \in {settings, [settings EXCEPT ![s] = settings_before[s]]}
                       /\ filter_task' = [filter_task EXCEPT !.written = @ \ {s}, !.undone = FALSE]
    <2>1. PICK s \in filter_task.written :
             \/ /\ settings' = [settings EXCEPT ![s] = settings_before[s]]
                /\ filter_task' = [filter_task EXCEPT !.written = @ \ {s}]
             \/ /\ filter_task' = [filter_task EXCEPT !.written = @ \ {s}, !.undone = FALSE]
                /\ settings' \in {settings, [settings EXCEPT ![s] = settings_before[s]]}
      BY Zenon DEF filter_undo
    <2>2. TRUE \in BOOLEAN /\ FALSE \in BOOLEAN
      OBVIOUS
    <2> QED
      BY <2>1, <2>2, Zenon
  <1>4. /\ IsTask(filter_task) /\ IsSettings(settings) /\ IsSettings(settings_before) /\ IsSettings(filter_target)
        /\ Purpose(filter_task.kind, filter_task.order, settings_before, filter_target)
        /\ Undoing(filter_task, unseen, settings, settings_before, filter_target)
        /\ armed_by_nstu \in BOOLEAN
        /\ armed_by_nstu => ArmedBefore(filter_task, settings_before)
    BY <1>1, <1>2, UnderWay, Zenon
  <1>5. PICK t : t = filter_task'
    BY Zenon
  <1>6. /\ t.kind = filter_task.kind /\ t.order = filter_task.order /\ t.undoing
        /\ t.todo = filter_task.todo /\ t.written = filter_task.written \ {s} /\ s \in SettingNames
        /\ t.undone => fine /\ filter_task.undone
        /\ t \in [kind : Kinds, order : Seq(SettingNames), todo : SUBSET SettingNames,
                  written : SUBSET SettingNames, undoing : BOOLEAN, undone : BOOLEAN]
    <2>1. CASE fine
      BY <1>1, <1>3, <1>4, <1>5, <2>1 DEF IsTask
    <2>2. CASE ~fine
      BY <1>1, <1>3, <1>4, <1>5, <2>2 DEF IsTask
    <2> QED
      BY <2>1, <2>2
  <1>7. IsTask(t)
    <2>1. filter_task.todo \cup filter_task.written \subseteq Range(filter_task.order)
      BY <1>4 DEF IsTask
    <2>2. t.todo \cup t.written \subseteq filter_task.todo \cup filter_task.written
      BY <1>6
    <2>3. t.todo \cup t.written \subseteq Range(t.order)
      BY <1>6, <2>1, <2>2, Zenon
    <2> QED
      BY <1>4, <1>6, <2>3, Zenon DEF IsTask
  <1>8. /\ settings' = [x \in SettingNames |-> settings'[x]]
        /\ fine => settings'[s] = settings_before[s]
        /\ ~fine => settings'[s] \in {settings[s], settings_before[s]}
        /\ \A x \in SettingNames : x # s => settings'[x] = settings[x]
    <2>1. settings = [x \in SettingNames |-> settings[x]]
      BY <1>4 DEF IsSettings
    <2>2. CASE settings' = [settings EXCEPT ![s] = settings_before[s]]
      BY <1>6, <2>1, <2>2, OneSetting
    <2>3. CASE ~fine /\ settings' = settings
      BY <2>1, <2>3
    <2> QED
      BY <1>3, <2>2, <2>3
  <1>9. Undoing(t, unseen, settings', settings_before, filter_target)
    <2>0. /\ t.written \cap unseen = {} /\ s \notin unseen
          /\ Ordered(t.kind) => Final(t.order) \notin t.written
      BY <1>4, <1>6 DEF Undoing
    <2>1. Ordered(t.kind) /\ Final(t.order) \notin unseen
             => settings'[Final(t.order)] = settings_before[Final(t.order)]
      <3> SUFFICES ASSUME Ordered(t.kind), Final(t.order) \notin unseen
                   PROVE  settings'[Final(t.order)] = settings_before[Final(t.order)]
        OBVIOUS
      <3>1. Final(t.order) \notin filter_task.written /\ settings[Final(t.order)] = settings_before[Final(t.order)]
        BY <1>4, <1>6, Zenon DEF Undoing
      <3>2. Final(t.order) # s /\ Final(t.order) \notin t.written
        BY <1>6, <3>1
      <3>3. t.order \in Seq(SettingNames) /\ t.order # <<>>
        BY <1>7 DEF IsTask, IsOrder
      <3>4. Final(t.order) \in SettingNames
        BY <3>3 DEF Final
      <3> QED
        BY <1>8, <3>1, <3>2, <3>4, Zenon
    <2>2. ASSUME NEW x \in SettingNames
          PROVE  settings'[x] \in {settings_before[x], filter_target[x]}
      <3>1. settings[x] \in {settings_before[x], filter_target[x]}
        BY <1>4, Zenon DEF Undoing
      <3>2. settings'[x] = settings[x] \/ settings'[x] = settings_before[x]
        BY <1>8
      <3> QED
        BY <3>1, <3>2
    <2>3. t.undone => AsWritten(t, unseen, settings', settings_before, filter_target)
      <3> SUFFICES ASSUME t.undone, NEW x \in SettingNames
                   PROVE  settings'[x] = IF x \in t.written \cup unseen THEN filter_target[x] ELSE settings_before[x]
        BY DEF AsWritten
      <3>1. fine /\ filter_task.undone
        BY <1>6
      <3>2. settings[x] = IF x \in filter_task.written \cup unseen THEN filter_target[x] ELSE settings_before[x]
        BY <1>4, <3>1, Zenon DEF Undoing, AsWritten
      <3>3. CASE x = s
        <4>1. s \notin t.written \cup unseen
          BY <1>6, <2>0
        <4> QED
          BY <1>8, <3>1, <3>3, <4>1, Zenon
      <3>4. CASE x # s
        <4>1. x \in t.written \cup unseen <=> x \in filter_task.written \cup unseen
          BY <1>6, <3>4
        <4> QED
          BY <1>8, <3>2, <3>4, <4>1, Zenon
      <3> QED
        BY <3>3, <3>4
    <2> QED
      BY <2>0, <2>1, <2>2, <2>3, Zenon DEF Undoing
  <1>10. PICK f : f = settings'
    BY Zenon
  <1>11. Purpose(t.kind, t.order, settings_before, filter_target)
    BY <1>4, <1>6, Zenon
  <1>12. /\ IsSettings(f) /\ \A x \in SettingNames : f[x] \in {settings_before[x], filter_target[x]}
         /\ OrderKept(settings_before, unseen, f)
    <2>1. f = [x \in SettingNames |-> f[x]] /\ Undoing(t, unseen, f, settings_before, filter_target)
      BY <1>8, <1>9, <1>10, Zenon
    <2> QED
      BY <1>4, <1>7, <1>11, <2>1, SettingsStay, Zenon
  <1>13. armed_by_nstu => ArmedBefore(t, settings_before) /\ \A m \in Mandatory : f[m] = TRUE
    <2> SUFFICES ASSUME armed_by_nstu
                 PROVE  ArmedBefore(t, settings_before) /\ \A m \in Mandatory : f[m] = TRUE
      BY Zenon
    <2>1. \A m \in Mandatory : settings_before[m] = TRUE
      BY <1>1, <1>4, Zenon DEF ArmedBefore
    <2>2. ArmedBefore(t, settings_before)
      BY <2>1, Zenon DEF ArmedBefore
    <2>3. \A m \in Mandatory : f[m] = TRUE
      BY <1>11, <1>12, <2>1, ExclusionsStay, Zenon
    <2> QED
      BY <2>2, <2>3
  <1> QED
    BY <1>1, <1>4, <1>5, <1>6, <1>7, <1>9, <1>10, <1>11, <1>12, <1>13, InTheMiddle, Zenon

\* Equal settings.
LEMMA SameSettings ==
  ASSUME NEW f, NEW g, IsSettings(f), IsSettings(g), \A s \in SettingNames : f[s] = g[s]
  PROVE  f = g
  <1>1. f = [s \in SettingNames |-> f[s]] /\ g = [s \in SettingNames |-> g[s]]
    BY DEF IsSettings
  <1>2. [s \in SettingNames |-> f[s]] = [s \in SettingNames |-> g[s]]
    OBVIOUS
  <1> QED
    BY <1>1, <1>2, Zenon

\* The call returns, done or taken back, and what it returns is true.
LEMMA FinishKeeps ==
  ASSUME FilterIInv, filter_done \/ filter_undone
  PROVE  FilterIInv'
  <1>1. /\ settings' = settings /\ settings_before' = settings_before /\ filter_target' = filter_target
        /\ armed_by_nstu' = armed_by_nstu /\ unseen' = unseen /\ filter_task' = NoTask
    BY DEF filter_done, filter_undone, Finish
  <1>2. settings' = IF filter_result'.succeeded THEN filter_target'
                    ELSE IF filter_result'.rolled_back
                    THEN TakenBack(unseen', settings_before', filter_target') ELSE settings'
    <2>1. CASE filter_done
      <3>1. ~Idle /\ ~filter_task.undoing /\ filter_task.todo = {} /\ filter_result'.succeeded
        BY <2>1 DEF filter_done, Finish
      <3>2. /\ Writing(filter_task, settings, settings_before, filter_target)
            /\ IsSettings(settings) /\ IsSettings(filter_target)
        BY <3>1, UnderWay, Zenon
      <3>3. \A s \in SettingNames : settings[s] = filter_target[s]
        BY <3>1, <3>2 DEF Writing, AsWritten
      <3>4. settings = filter_target
        BY <3>2, <3>3, SameSettings, Zenon
      <3> QED
        BY <1>1, <3>1, <3>4, Zenon
    <2>2. CASE filter_undone
      <3>1. filter_task.undoing /\ filter_task.written = {}
            /\ filter_result'.succeeded = FALSE /\ filter_result'.rolled_back = filter_task.undone
        BY <2>2 DEF filter_undone, Finish
      <3>2. filter_task # NoTask
        BY <3>1 DEF NoTask
      <3>3. Undoing(filter_task, unseen, settings, settings_before, filter_target) /\ IsSettings(settings)
        BY <3>1, <3>2, Zenon DEF FilterIInv
      <3>4. filter_task.undone => \A s \in SettingNames :
               settings[s] = IF s \in unseen THEN filter_target[s] ELSE settings_before[s]
        BY <3>1, <3>3 DEF Undoing, AsWritten
      <3>5. filter_task.undone => settings = TakenBack(unseen, settings_before, filter_target)
        <4>1. settings = [s \in SettingNames |-> settings[s]]
          BY <3>3 DEF IsSettings
        <4> QED
          BY <3>4, <4>1 DEF TakenBack
      <3> QED
        BY <1>1, <3>1, <3>5, Zenon
    <2> QED
      BY <2>1, <2>2
  <1> QED
    BY <1>1, <1>2, Zenon DEF FilterIInv

\* The machine restarts; the settings are what they are.
LEMMA RestartKeeps ==
  ASSUME FilterIInv, filter_restart
  PROVE  FilterIInv'
  <1>1. /\ settings' = settings /\ armed_by_nstu' = armed_by_nstu /\ filter_task' = NoTask
        /\ filter_result' = NoResult /\ unseen' = unseen /\ settings_before' = settings_before
    BY DEF filter_restart
  <1>2. filter_result'.kind = "none"
    BY <1>1 DEF NoResult
  <1> QED
    BY <1>1, <1>2, Zenon DEF FilterIInv

\* Nothing written: the order is the one found.
LEMMA OrderStays ==
  ASSUME NEW f, IsSettings(f)
  PROVE  OrderKept(f, {}, f)
  BY DEF OrderKept, InOrder, IsSettings

\* A call is refused; nothing was written.
LEMMA RefusalKeeps ==
  ASSUME FilterIInv, Called, NEW kind, Refused(kind)
  PROVE  FilterIInv'
  <1>1. /\ settings' = settings /\ armed_by_nstu' = armed_by_nstu /\ filter_task' = filter_task
        /\ settings_before' = settings /\ filter_target' = settings /\ unseen' = {}
    BY DEF Called, Refused, Returns
  <1>2. filter_task = NoTask
    <2> SUFFICES ASSUME filter_task # NoTask PROVE FALSE
      OBVIOUS
    <2>1. filter_task.kind \in Kinds
      BY DEF FilterIInv, IsTask
    <2> QED
      BY <2>1 DEF Called, Idle, Kinds
  <1>3. IsSettings(settings)
    BY DEF FilterIInv
  <1>4. OrderKept(settings, {}, settings)
    BY <1>3, OrderStays
  <1>5. settings = TakenBack({}, settings, settings)
    BY <1>3 DEF IsSettings, TakenBack
  <1> QED
    BY <1>1, <1>2, <1>4, <1>5, Zenon DEF FilterIInv

\* A call begins: what is missing is to be written, in the call's order.
LEMMA BeginKeeps ==
  ASSUME FilterIInv, Called, NEW kind \in Kinds, NEW order, NEW target, Begins(kind, order, target),
         IsOrder(kind, order) \/ order = <<>>, IsSettings(target),
         \A s \in SettingNames : s \notin Range(order) => target[s] = settings[s],
         Purpose(kind, order, settings, target)
  PROVE  FilterIInv'
  <1>1. /\ settings' = settings /\ armed_by_nstu' = armed_by_nstu
        /\ settings_before' = settings /\ filter_target' = target /\ unseen' = {}
    BY DEF Called, Begins
  <1>2. /\ IsSettings(settings) /\ armed_by_nstu \in BOOLEAN
        /\ armed_by_nstu => \A m \in Mandatory : settings[m] = TRUE
        /\ OrderKept(settings, {}, settings)
    BY OrderStays DEF FilterIInv
  <1>3. CASE Missing(order, target) = {}
    <2>1. filter_task = NoTask
      <3> SUFFICES ASSUME filter_task # NoTask PROVE FALSE
        OBVIOUS
      <3>1. filter_task.kind \in Kinds
        BY DEF FilterIInv, IsTask
      <3> QED
        BY <3>1 DEF Called, Idle, Kinds
    <2>2. filter_task' = filter_task
      BY <1>3 DEF Begins, Returns
    <2>3. \A s \in SettingNames : settings[s] = target[s]
      BY <1>3 DEF Missing
    <2>4. settings = target
      BY <1>2, <2>3, SameSettings, Zenon
    <2>5. filter_result'.succeeded
      BY <1>3 DEF Begins, Returns
    <2> QED
      BY <1>1, <1>2, <2>1, <2>2, <2>4, <2>5, Zenon DEF FilterIInv
  <1>4. CASE Missing(order, target) # {}
    <2>1. IsOrder(kind, order)
      <3> SUFFICES ASSUME order = <<>> PROVE FALSE
        OBVIOUS
      <3>1. Range(order) = {}
        BY DEF Range
      <3> QED
        BY <1>4, <3>1 DEF Missing
    <2>2. PICK todo : todo = Missing(order, target)
      BY Zenon
    <2>3. todo \subseteq Range(order) /\ todo \subseteq SettingNames /\ \A s \in todo : target[s] # settings[s]
      <3>1. Range(order) \subseteq SettingNames
        <4>1. order \in Seq(SettingNames)
          BY <2>1 DEF IsOrder
        <4> QED
          BY <4>1 DEF Range
      <3> QED
        BY <2>2, <3>1 DEF Missing
    <2>4. \A s \in SettingNames : s \notin todo => target[s] = settings[s]
      BY <2>2 DEF Missing
    <2>5. PICK t : t = filter_task'
      BY Zenon
    <2>6. t = [NoTask EXCEPT !.kind = kind, !.order = order, !.todo = todo]
      BY <1>4, <2>2, <2>5 DEF Begins
    <2>7. t = [kind |-> kind, order |-> order, todo |-> todo, written |-> {}, undoing |-> FALSE, undone |-> TRUE]
      BY <2>6 DEF NoTask
    <2>8. IsTask(t)
      <3>1. order \in Seq(SettingNames)
        BY <2>1 DEF IsOrder
      <3>2. t \in [kind : Kinds, order : Seq(SettingNames), todo : SUBSET SettingNames,
                   written : SUBSET SettingNames, undoing : BOOLEAN, undone : BOOLEAN]
        BY <2>3, <2>7, <3>1
      <3>3. t.kind = kind /\ t.order = order /\ t.todo \cup t.written \subseteq Range(order)
        BY <2>3, <2>7
      <3> QED
        BY <2>1, <3>2, <3>3, Zenon DEF IsTask
    <2>9. t.kind = kind /\ t.order = order /\ ~t.undoing /\ t.undone /\ t.todo = todo /\ t.written = {}
      BY <2>7
    <2>10. Writing(t, settings, settings, target)
      <3>1. AsWritten(t, {}, settings, settings, target)
        BY <2>9 DEF AsWritten
      <3>2. t.todo \cap t.written = {} /\ Final(t.order) \notin t.written
        BY <2>9
      <3>3. \A s \in SettingNames : s \notin t.todo \cup t.written => target[s] = settings[s]
        BY <2>4, <2>9
      <3>4. \A s \in t.todo : target[s] # settings[s]
        BY <2>3, <2>9
      <3> QED
        BY <2>9, <3>1, <3>2, <3>3, <3>4, Zenon DEF Writing
    <2>11. armed_by_nstu => ArmedBefore(t, settings)
      BY <1>2, Zenon DEF ArmedBefore
    <2>12. Purpose(t.kind, t.order, settings, target)
      BY <2>9, Zenon
    <2> QED
      BY <1>1, <1>2, <2>5, <2>8, <2>9, <2>10, <2>11, <2>12, InTheMiddle, Zenon
  <1> QED
    BY <1>3, <1>4

\* The names of the settings.
LEMMA OwnNames ==
  /\ Mandatory \subseteq SettingNames /\ "enabled" \in SettingNames /\ "servicing" \in SettingNames
  /\ "type" \in SettingNames /\ "size" \in SettingNames
  /\ "warning" \in SettingNames /\ "critical" \in SettingNames
  BY DEF SettingNames, OwnSettings, Mandatory

\* The settings have these names.
LEMMA SettingsDomain ==
  ASSUME FilterIInv
  PROVE  IsSettings(settings) /\ DOMAIN settings = SettingNames
  BY DEF FilterIInv, IsSettings

\* configure_uwf(): everything mandatory, and Enable() last.
LEMMA ConfigureKeeps ==
  ASSUME FilterIInv, configure_filter
  PROVE  FilterIInv'
  <1> DEFINE target == [s \in DOMAIN settings |->
                          IF s \in Mandatory \cup {"enabled"} THEN TRUE ELSE settings[s]]
  <1>1. Called /\ (Refused("configure") \/ Begins("configure", ConfigureOrder, target))
    BY Zenon DEF configure_filter
  <1>2. CASE Refused("configure")
    BY <1>1, <1>2, RefusalKeeps, Zenon
  <1>3. CASE Begins("configure", ConfigureOrder, target)
    <2>1. IsSettings(settings) /\ DOMAIN settings = SettingNames
      BY SettingsDomain, Zenon
    <2>2. ConfigureOrder = <<"volume", "file", "registry", "enabled">>
      BY DEF ConfigureOrder
    <2>3. ConfigureOrder \in Seq(SettingNames)
      BY <2>2, OwnNames DEF Mandatory
    <2>4. Final(ConfigureOrder) = "enabled" /\ Len(ConfigureOrder) = 4
      BY <2>2 DEF Final
    <2>5. \A i \in DOMAIN ConfigureOrder : ConfigureOrder[i] = "enabled" => i = 4
      BY <2>2
    <2>6. IsOrder("configure", ConfigureOrder)
      BY <2>2, <2>3, <2>4, <2>5 DEF IsOrder
    <2>7. Mandatory \cup {"enabled"} \subseteq Range(ConfigureOrder)
      <3>1. /\ "volume" = ConfigureOrder[1] /\ "file" = ConfigureOrder[2] /\ "registry" = ConfigureOrder[3]
            /\ "enabled" = ConfigureOrder[4] /\ DOMAIN ConfigureOrder = 1 .. 4
        BY <2>2
      <3> QED
        BY <3>1 DEF Range, Mandatory
    <2>8. /\ \A s \in Mandatory \cup {"enabled"} : target[s] = TRUE
          /\ \A s \in SettingNames : s \notin Mandatory \cup {"enabled"} => target[s] = settings[s]
      BY <2>1, OwnNames
    <2>9. target = [s \in SettingNames |-> target[s]]
      BY <2>1
    <2>10. target["warning"] = settings["warning"] /\ target["critical"] = settings["critical"]
      BY <2>8, OwnNames DEF Mandatory
    <2> HIDE DEF target
    <2>11. IsSettings(target)
      <3>1. \A s \in Mandatory \cup {"enabled"} : target[s] \in BOOLEAN
        BY <2>8
      <3> QED
        BY <2>1, <2>9, <2>10, <3>1, Zenon DEF IsSettings
    <2>12. \A s \in SettingNames : s \notin Range(ConfigureOrder) => target[s] = settings[s]
      BY <2>7, <2>8
    <2>13. Purpose("configure", ConfigureOrder, settings, target)
      BY <2>4, <2>8, <2>10 DEF Purpose
    <2> QED
      BY <1>1, <1>3, <2>6, <2>11, <2>12, <2>13, BeginKeeps DEF Kinds
  <1> QED
    BY <1>1, <1>2, <1>3

\* The size of the overlay, when there is one.
LEMMA OverlayBig ==
  ASSUME NEW type \in {"ram", "disk"}, NEW ram \in Nat, NEW free \in Nat,
         uwf_maximum_size_mb(type, ram, free) # 0
  PROVE  uwf_maximum_size_mb(type, ram, free) \in Nat /\ uwf_maximum_size_mb(type, ram, free) >= 1024
  <1>1. CASE type = "ram"
    <2>1. uwf_maximum_size_mb(type, ram, free) = clamp(ram \div 4, 1024, 4096)
      BY <1>1 DEF uwf_maximum_size_mb
    <2>2. ram \div 4 \in Int
      OBVIOUS
    <2> QED
      BY <2>1, <2>2 DEF clamp
  <1>2. CASE type # "ram"
    <2>1. uwf_maximum_size_mb(type, ram, free) = clamp(free \div 4, 1024, 8192)
      BY <1>2 DEF uwf_maximum_size_mb
    <2>2. free \div 4 \in Int
      OBVIOUS
    <2> QED
      BY <2>1, <2>2 DEF clamp
  <1> QED
    BY <1>1, <1>2

\* The order of the overlay's writes ends with the threshold that may come last.
LEMMA OverlayOrdered ==
  ASSUME NEW target
  PROVE  /\ IsOrder("overlay", OverlayOrder(target))
         /\ {"type", "size", "warning", "critical"} \subseteq Range(OverlayOrder(target))
         /\ Final(OverlayOrder(target)) =
              IF target["critical"] >= settings["critical"] THEN "warning" ELSE "critical"
  <1>1. PICK first, second :
           /\ OverlayOrder(target) = first \o second
           /\ first = <<"size", "type">> \/ first = <<"type", "size">>
           /\ \/ target["critical"] >= settings["critical"] /\ second = <<"critical", "warning">>
              \/ ~(target["critical"] >= settings["critical"]) /\ second = <<"warning", "critical">>
    BY Zenon DEF OverlayOrder
  <1>2. PICK a, b : first = <<a, b>> /\ {a, b} = {"type", "size"}
    <2>1. CASE first = <<"size", "type">>
      BY <2>1
    <2>2. CASE first = <<"type", "size">>
      BY <2>2
    <2> QED
      BY <1>1, <2>1, <2>2
  <1>3. PICK c, d :
           /\ second = <<c, d>> /\ {c, d} = {"warning", "critical"} /\ c # d
           /\ d = IF target["critical"] >= settings["critical"] THEN "warning" ELSE "critical"
    <2>1. CASE target["critical"] >= settings["critical"] /\ second = <<"critical", "warning">>
      BY <2>1
    <2>2. CASE ~(target["critical"] >= settings["critical"]) /\ second = <<"warning", "critical">>
      BY <2>2
    <2> QED
      BY <1>1, <2>1, <2>2
  <1>4. PICK o : o = OverlayOrder(target)
    BY Zenon
  <1>5. o \in Seq(SettingNames) /\ Len(o) = 4 /\ o[1] = a /\ o[2] = b /\ o[3] = c /\ o[4] = d /\ DOMAIN o = 1 .. 4
    <2>1. a \in SettingNames /\ b \in SettingNames /\ c \in SettingNames /\ d \in SettingNames
      BY <1>2, <1>3, OwnNames
    <2>2. first \in Seq(SettingNames) /\ Len(first) = 2 /\ first[1] = a /\ first[2] = b
      BY <1>2, <2>1
    <2>3. second \in Seq(SettingNames) /\ Len(second) = 2 /\ second[1] = c /\ second[2] = d
      BY <1>3, <2>1
    <2>4. /\ o \in Seq(SettingNames) /\ Len(o) = Len(first) + Len(second)
          /\ \A i \in 1 .. Len(first) + Len(second) :
                o[i] = IF i <= Len(first) THEN first[i] ELSE second[i - Len(first)]
      <3>1. /\ first \o second \in Seq(SettingNames) /\ Len(first \o second) = Len(first) + Len(second)
            /\ \A i \in 1 .. Len(first) + Len(second) :
                  (first \o second)[i] = IF i <= Len(first) THEN first[i] ELSE second[i - Len(first)]
        BY <2>2, <2>3, ConcatProperties, Zenon
      <3> QED
        BY <1>1, <1>4, <3>1, Zenon
    <2> QED
      BY <2>2, <2>3, <2>4
  <1>6. Final(o) = d /\ o # <<>>
    BY <1>5 DEF Final
  <1>7. d # a /\ d # b /\ d # c
    BY <1>2, <1>3
  <1>8. \A i \in DOMAIN o : o[i] = d => i = 4
    BY <1>5, <1>7
  <1>9. IsOrder("overlay", o)
    BY <1>5, <1>6, <1>8 DEF IsOrder
  <1>10. {a, b, c, d} \subseteq Range(o)
    BY <1>5 DEF Range
  <1>11. {"type", "size", "warning", "critical"} = {a, b, c, d}
    BY <1>2, <1>3
  <1> QED
    BY <1>3, <1>4, <1>6, <1>9, <1>10, <1>11, Zenon

\* configure_uwf_overlay(): the thresholds stay apart.
LEMMA OverlayKeeps ==
  ASSUME FilterIInv, configure_uwf_overlay
  PROVE  FilterIInv'
  <1>1. Called
    BY DEF configure_uwf_overlay
  <1>2. PICK type \in {"ram", "disk"}, ram \in RamSizes, free \in FreeDiskSizes :
           \/ Refused("overlay")
           \/ /\ uwf_maximum_size_mb(type, ram, free) # 0
              /\ Begins("overlay",
                        OverlayOrder(OverlayTarget(type, uwf_maximum_size_mb(type, ram, free))),
                        OverlayTarget(type, uwf_maximum_size_mb(type, ram, free)))
    BY Zenon DEF configure_uwf_overlay
  <1>3. CASE Refused("overlay")
    BY <1>1, <1>3, RefusalKeeps, Zenon
  <1>4. CASE /\ uwf_maximum_size_mb(type, ram, free) # 0
             /\ Begins("overlay",
                       OverlayOrder(OverlayTarget(type, uwf_maximum_size_mb(type, ram, free))),
                       OverlayTarget(type, uwf_maximum_size_mb(type, ram, free)))
    <2>1. PICK size \in Nat : size = uwf_maximum_size_mb(type, ram, free) /\ size >= 1024
      <3>1. ram \in Nat /\ free \in Nat
        BY FilterAssumption
      <3>2. /\ uwf_maximum_size_mb(type, ram, free) \in Nat
            /\ uwf_maximum_size_mb(type, ram, free) >= 1024
        BY <1>4, <3>1, OverlayBig
      <3> QED
        BY <3>2, Zenon
    <2>2. PICK target : target = OverlayTarget(type, size)
      BY Zenon
    <2>3. IsSettings(settings) /\ DOMAIN settings = SettingNames
      BY SettingsDomain, Zenon
    <2>4. PICK warning \in Nat, critical \in Nat :
             warning = (size * 75) \div 100 /\ critical = (size * 90) \div 100 /\ warning < critical
      <3>1. (size * 75) \div 100 \in Nat /\ (size * 90) \div 100 \in Nat
        BY <2>1
      <3>2. (size * 75) \div 100 < (size * 90) \div 100
        BY <2>1
      <3> QED
        BY <3>1, <3>2, Zenon
    <2>5. target = [settings EXCEPT !["type"] = type, !["size"] = size, !["warning"] = warning, !["critical"] = critical]
      BY <2>2, <2>4 DEF OverlayTarget
    <2>6. /\ target = [s \in SettingNames |-> target[s]] /\ target["warning"] = warning /\ target["critical"] = critical
          /\ \A s \in SettingNames : s \notin {"type", "size", "warning", "critical"} => target[s] = settings[s]
      <3>1. settings = [s \in SettingNames |-> settings[s]]
        BY <2>3 DEF IsSettings
      <3> QED
        BY <2>5, <3>1, OwnNames
    <2>7. \A s \in Mandatory \cup {"enabled"} : target[s] = settings[s]
      BY <2>6, OwnNames DEF Mandatory
    <2>8. IsSettings(target)
      <3>1. target["warning"] \in Nat /\ target["critical"] \in Nat
        BY <2>4, <2>6
      <3>2. \A s \in Mandatory \cup {"enabled"} : target[s] \in BOOLEAN
        BY <2>3, <2>7, Zenon DEF IsSettings
      <3> QED
        BY <2>6, <3>1, <3>2, Zenon DEF IsSettings
    <2>9. PICK order : order = OverlayOrder(target)
      BY Zenon
    <2>10. /\ IsOrder("overlay", order) /\ {"type", "size", "warning", "critical"} \subseteq Range(order)
           /\ Final(order) = IF target["critical"] >= settings["critical"] THEN "warning" ELSE "critical"
      BY <2>9, OverlayOrdered, Zenon
    <2>11. \A s \in SettingNames : s \notin Range(order) => target[s] = settings[s]
      BY <2>6, <2>10
    <2>12. Purpose("overlay", order, settings, target)
      <3>1. target["critical"] \in Nat /\ settings["critical"] \in Nat
        BY <2>3, <2>8 DEF IsSettings
      <3>2. \/ target["critical"] >= settings["critical"] /\ Final(order) = "warning"
            \/ target["critical"] < settings["critical"] /\ Final(order) = "critical"
        BY <2>10, <3>1
      <3>3. /\ \A m \in Mandatory : target[m] = settings[m]
            /\ target["enabled"] \in {FALSE, settings["enabled"]}
        BY <2>7
      <3>4. target["warning"] < target["critical"]
        BY <2>4, <2>6
      <3> QED
        BY <3>2, <3>3, <3>4 DEF Purpose
    <2>13. Begins("overlay", order, target)
      BY <1>4, <2>1, <2>2, <2>9, Zenon
    <2> QED
      BY <1>1, <2>8, <2>10, <2>11, <2>12, <2>13, BeginKeeps DEF Kinds
  <1> QED
    BY <1>2, <1>3, <1>4

\* add_uwf_defender_exclusions(): only paths that are none of NSTU's settings.
LEMMA DefenderKeeps ==
  ASSUME FilterIInv, add_uwf_defender_exclusions
  PROVE  FilterIInv'
  <1> DEFINE target == [s \in DOMAIN settings |-> IF s \in Range(DefenderPaths) THEN TRUE ELSE settings[s]]
  <1>1. Called /\ Begins("defender", DefenderPaths, target)
    BY DEF add_uwf_defender_exclusions
  <1>2. IsSettings(settings) /\ DOMAIN settings = SettingNames
    BY SettingsDomain, Zenon
  <1>3. IsOrder("defender", DefenderPaths) \/ DefenderPaths = <<>>
    <2>1. DefenderPaths \in Seq(STRING)
      BY FilterAssumption
    <2>2. \A i \in DOMAIN DefenderPaths : DefenderPaths[i] \in SettingNames
      BY DEF SettingNames, Range
    <2>3. DefenderPaths \in Seq(SettingNames)
      BY <2>1, <2>2
    <2> QED
      BY <2>3 DEF IsOrder, Ordered
  <1>4. \A s \in SettingNames : s \notin Range(DefenderPaths) => target[s] = settings[s]
    BY <1>2
  <1>5. \A s \in OwnSettings : target[s] = settings[s]
    <2>1. \A s \in OwnSettings : s \in SettingNames /\ s \notin Range(DefenderPaths)
      BY FilterAssumption DEF SettingNames
    <2> QED
      BY <1>4, <2>1, Zenon
  <1>6. target = [s \in SettingNames |-> target[s]]
    BY <1>2
  <1> HIDE DEF target
  <1>7. /\ \A s \in Mandatory \cup {"enabled"} : target[s] = settings[s]
        /\ target["warning"] = settings["warning"] /\ target["critical"] = settings["critical"]
    BY <1>5 DEF OwnSettings
  <1>8. IsSettings(target)
    <2>1. \A s \in Mandatory \cup {"enabled"} : target[s] \in BOOLEAN
      BY <1>2, <1>7, Zenon DEF IsSettings
    <2> QED
      BY <1>2, <1>6, <1>7, <2>1, Zenon DEF IsSettings
  <1>9. Purpose("defender", DefenderPaths, settings, target)
    <2>1. target["enabled"] \in {FALSE, settings["enabled"]} /\ \A m \in Mandatory : target[m] = settings[m]
      BY <1>7
    <2> QED
      BY <1>7, <2>1 DEF Purpose
  <1> QED
    BY <1>1, <1>3, <1>4, <1>8, <1>9, BeginKeeps DEF Kinds

\* A call of one write, that arms nothing.
LEMMA SingleWriteKeeps ==
  ASSUME FilterIInv, Called, NEW kind \in {"servicing", "disable"}, NEW s \in {"servicing", "enabled"},
         NEW v \in BOOLEAN, s = "enabled" => v = FALSE, NEW target, target = [settings EXCEPT ![s] = v],
         Begins(kind, <<s>>, target)
  PROVE  FilterIInv'
  <1>1. IsSettings(settings) /\ settings = [x \in SettingNames |-> settings[x]]
    BY SettingsDomain DEF IsSettings
  <1>2. s \in SettingNames
    BY OwnNames
  <1>3. /\ target = [x \in SettingNames |-> target[x]] /\ target[s] = v
        /\ \A x \in SettingNames : x # s => target[x] = settings[x]
    BY <1>1, <1>2, OneSetting
  <1>4. \A m \in Mandatory : target[m] = settings[m]
    BY <1>3, OwnNames DEF Mandatory
  <1>5. target["warning"] = settings["warning"] /\ target["critical"] = settings["critical"]
    BY <1>3, OwnNames
  <1>6. target["enabled"] \in {FALSE, settings["enabled"]}
    BY <1>3, OwnNames, Zenon
  <1>7. IsSettings(target)
    <2>1. \A x \in Mandatory \cup {"enabled"} : target[x] \in BOOLEAN
      BY <1>1, <1>4, <1>6, Zenon DEF IsSettings
    <2> QED
      BY <1>1, <1>3, <1>5, <2>1, Zenon DEF IsSettings
  <1>8. IsOrder(kind, <<s>>)
    <2>1. <<s>> \in Seq(SettingNames) /\ <<s>> # <<>>
      BY <1>2
    <2>2. ~Ordered(kind)
      BY DEF Ordered
    <2> QED
      BY <2>1, <2>2 DEF IsOrder
  <1>9. \A x \in SettingNames : x \notin Range(<<s>>) => target[x] = settings[x]
    <2>1. s \in Range(<<s>>)
      BY DEF Range
    <2> QED
      BY <1>3, <2>1, Zenon
  <1>10. Purpose(kind, <<s>>, settings, target)
    BY <1>4, <1>5, <1>6, Zenon DEF Purpose
  <1>11. kind \in Kinds
    BY DEF Kinds
  <1> QED
    BY <1>7, <1>8, <1>9, <1>10, <1>11, BeginKeeps, Zenon

\* set_uwf_servicing().
LEMMA ServicingKeeps ==
  ASSUME FilterIInv, set_uwf_servicing
  PROVE  FilterIInv'
  <1>1. Called
    BY DEF set_uwf_servicing
  <1>2. PICK on \in BOOLEAN : \/ Refused("servicing")
                              \/ Begins("servicing", <<"servicing">>, [settings EXCEPT !["servicing"] = on])
    BY Zenon DEF set_uwf_servicing
  <1>3. CASE Refused("servicing")
    BY <1>1, <1>3, RefusalKeeps, Zenon
  <1>4. CASE Begins("servicing", <<"servicing">>, [settings EXCEPT !["servicing"] = on])
    <2>1. PICK target : target = [settings EXCEPT !["servicing"] = on]
      BY Zenon
    <2>2. Begins("servicing", <<"servicing">>, target)
      BY <1>4, <2>1, Zenon
    <2>3. "servicing" # "enabled" /\ "servicing" \in {"servicing", "disable"} /\ "servicing" \in {"servicing", "enabled"}
      OBVIOUS
    <2> QED
      BY <1>1, <2>1, <2>2, <2>3, SingleWriteKeeps, Zenon
  <1> QED
    BY <1>2, <1>3, <1>4

\* disable_uwf().
LEMMA DisableKeeps ==
  ASSUME FilterIInv, disable_uwf
  PROVE  FilterIInv'
  <1>1. /\ Called
        /\ \/ Refused("disable")
           \/ Begins("disable", <<"enabled">>, [settings EXCEPT !["enabled"] = FALSE])
    BY Zenon DEF disable_uwf
  <1>2. CASE Refused("disable")
    BY <1>1, <1>2, RefusalKeeps, Zenon
  <1>3. CASE Begins("disable", <<"enabled">>, [settings EXCEPT !["enabled"] = FALSE])
    <2>1. PICK off \in BOOLEAN : off = FALSE
      OBVIOUS
    <2>2. PICK target : target = [settings EXCEPT !["enabled"] = off]
      BY Zenon
    <2>3. Begins("disable", <<"enabled">>, target)
      BY <1>3, <2>1, <2>2, Zenon
    <2>4. "disable" \in {"servicing", "disable"} /\ "enabled" \in {"servicing", "enabled"}
      OBVIOUS
    <2> QED
      BY <1>1, <2>1, <2>2, <2>3, <2>4, SingleWriteKeeps, Zenon
  <1> QED
    BY <1>1, <1>2, <1>3

\* Every step keeps the filter safe.
LEMMA FilterStepKeeps ==
  ASSUME FilterIInv, [FilterNext]_filterVars
  PROVE  FilterIInv'
  <1>1. CASE UNCHANGED filterVars
    <2>1. /\ settings' = settings /\ filter_task' = filter_task /\ filter_result' = filter_result
          /\ settings_before' = settings_before /\ filter_target' = filter_target
          /\ armed_by_nstu' = armed_by_nstu /\ unseen' = unseen
      BY <1>1 DEF filterVars
    <2> QED
      BY <2>1, Zenon DEF FilterIInv
  <1>2. CASE read_fails
    BY <1>2, RefusalKeeps DEF read_fails
  <1> QED
    BY <1>1, <1>2, ConfigureKeeps, OverlayKeeps, DefenderKeeps, ServicingKeeps, DisableKeeps,
       WriteKeeps, FailureKeeps, FinishKeeps, UndoKeeps, RestartKeeps DEF FilterNext

\* A machine as it is found.
LEMMA FilterFound ==
  ASSUME FilterInit
  PROVE  FilterIInv
  <1>1. PICK on \in BOOLEAN, mandatory \in SUBSET Mandatory, type \in {"ram", "disk"},
             size \in OverlaySizes, warning \in ThresholdLevels, critical \in ThresholdLevels :
           settings = FoundSettings(on, mandatory, type, size, warning, critical)
    BY Zenon DEF FilterInit
  <1>2. settings["warning"] = warning /\ settings["critical"] = critical
    BY <1>1, OwnNames DEF Mandatory, FoundSettings
  <1>3. settings["enabled"] = on
    BY <1>1, OwnNames DEF Mandatory, FoundSettings
  <1>4. ASSUME NEW m \in Mandatory
        PROVE  settings[m] \in BOOLEAN
    <2>1. m \in SettingNames
      BY OwnNames
    <2>2. settings[m] = CASE m \in Mandatory -> m \in mandatory
                          [] m = "enabled" -> on
                          [] m = "type" -> type
                          [] m = "size" -> size
                          [] m = "warning" -> warning
                          [] m = "critical" -> critical
                          [] OTHER -> FALSE
      BY <1>1, <2>1, Zenon DEF FoundSettings
    <2>3. /\ m # "enabled" /\ m # "type" /\ m # "size" /\ m # "warning" /\ m # "critical"
      BY DEF Mandatory
    <2>4. settings[m] = (m \in mandatory)
      BY <2>2, <2>3
    <2>5. (m \in mandatory) \in BOOLEAN
      OBVIOUS
    <2> QED
      BY <2>4, <2>5
  <1>5. settings["warning"] \in Nat /\ settings["critical"] \in Nat
    BY <1>2, FilterAssumption
  <1>6. settings = [s \in SettingNames |-> settings[s]]
    BY <1>1 DEF FoundSettings
  <1>7. \A s \in Mandatory \cup {"enabled"} : settings[s] \in BOOLEAN
    <2> TAKE s \in Mandatory \cup {"enabled"}
    <2>1. CASE s = "enabled"
      BY <1>3, <2>1, Zenon
    <2>2. CASE s \in Mandatory
      BY <1>4, <2>2, Zenon
    <2> QED
      BY <2>1, <2>2
  <1>8. IsSettings(settings)
    BY <1>5, <1>6, <1>7, Zenon DEF IsSettings
  <1>9. /\ filter_task = NoTask /\ filter_result.kind = "none" /\ armed_by_nstu = FALSE
        /\ settings_before = settings /\ unseen = {}
    BY DEF FilterInit, NoResult
  <1>10. OrderKept(settings_before, unseen, settings)
    BY <1>8, <1>9, OrderStays
  <1> QED
    BY <1>8, <1>9, <1>10, Zenon DEF FilterIInv

\* Whatever call fails or seems to, whichever undo fails and whenever the machine
\* restarts, a filter that configure_uwf() says it armed has its exclusions,
\* thresholds found in order stay in order unless the answer to the write of one
\* of them was lost, and what a call returned is true but for such a write.
THEOREM FiltersArmedSafely == FilterSpec => []FilterArmedSafely
  <1>1. FilterInit => FilterIInv
    BY FilterFound
  <1>2. FilterIInv /\ [FilterNext]_filterVars => FilterIInv'
    BY FilterStepKeeps
  <1>3. FilterIInv => FilterArmedSafely
    <2> SUFFICES ASSUME FilterIInv PROVE FilterArmedSafely
      OBVIOUS
    <2>1. armed_by_nstu => \A s \in Mandatory : settings[s]
      BY Zenon DEF FilterIInv
    <2>2. InOrder(settings_before) /\ unseen \cap {"warning", "critical"} = {} =>
             settings["critical"] = 0 \/ settings["warning"] < settings["critical"]
      BY Zenon DEF FilterIInv, OrderKept
    <2>3. Idle => filter_task = NoTask
      <3> SUFFICES ASSUME Idle, filter_task # NoTask PROVE FALSE
        OBVIOUS
      <3>1. filter_task.kind \in Kinds
        BY DEF FilterIInv, IsTask
      <3> QED
        BY <3>1 DEF Idle, Kinds
    <2> QED
      BY <2>1, <2>2, <2>3, Zenon DEF FilterIInv, FilterArmedSafely, TakenBack
  <1> QED
    BY <1>1, <1>2, <1>3, PTL DEF FilterSpec

=============================================================================
