# Verification of NSTU

NSTU manages a Windows classroom: a server application on the teacher's
computer and a service with an agent on every student computer. The part that
must never go wrong is the exam: what a candidate types has to end in the
server's answer journal, once, in order and complete, although browsers,
services, connections and servers stop at any time. Around it are the parts an
exam stands on: the connection and the server's picture of a seat, the keys, the
write filter, the lockdown, and the services of an ordinary lesson. This
directory holds TLA+ models of these parts, the TLC runs that check them and
machine-checked proofs.

## 1. Inventory

| Component | Source | State | Operations |
|---|---|---|---|
| Exam page | `exam/web/app.js` | per session in browser storage: answers, drafts, the numbered pending events, cursor (next sequence, previous hash, server's highest and last hash), finalization flags; volatile: event in flight, timers, reconciliation flags | `saveAnswer`, `flushAnswerBridge`, `handleAnswerAck`, `applyStateResponse`, `submitResponse`, timers |
| Exam host, bridge | `client/src/exam_host.cpp`, `exam_bridge.cpp` | the WebView2 page, its state and generation, pending browser callbacks, a queue of 64 messages | inspects the package, starts, navigates and ends the page, passes messages on after validation |
| Student desktop agent | `client/agent/main.cpp` | flags, windows and input block of the desktop, the UI thread's queue | messages of the service on the pipe thread, windows and timers on the UI thread, loss of the pipe |
| Client service | `client/service/main.cpp`, `client/src/client_control.cpp` | ingress queue, outbox, outbound queue, in-flight and retry tables, agent queue | `queue_exam_event_payload`, `drain_exam_ingress`, `pop_outbound_message`, `handle_server_command`, `remote_control_loop` |
| Answer outbox | `common/src/answer_journal.cpp`, `AnswerOutbox` | one file and its copy in memory: waiting events, one watermark per session | `open` (four formats), `enqueue`, `acknowledge`, `close` |
| Control plane | `server/src/control_plane.cpp` | connections and their owner per client, registry, active exam contexts, pending pairings, key store, journals | publication and teardown of connections, operator commands, `start_exam`, `stop_exam`, reports of the write filter, pairing, enrollment, file distribution, `process_exam_answer_event`, `process_exam_state_request` |
| Answer journal | `common/src/answer_journal.cpp`, `AnswerJournal` | an append-only file, a lease, an index in memory | `open` (replay), `append`, `state`, `close` |
| Exam telemetry, client | `common/src/exam_telemetry_outbox.cpp`, `client/src/exam_telemetry_service.cpp`, `exam_telemetry_lifecycle.cpp`, `exam_telemetry_router.cpp` | payload file, `.expiry` barrier, `.revoked` marker, coordinator state with the write-ahead intent, `.blocked` marker, and their copies in memory | `open`, `on_server_enable`, `ingest_samples`, `on_server_ack`, `next_batch_to_send`, `on_explicit_stop`, `on_disconnect`, `on_service_shutdown`, `maintain` |
| Exam telemetry, server | `server/src/exam_telemetry_journal.cpp`, the worker in `control_plane.cpp` | segments, metadata, a worker queue | authorize, record, recover, remove |
| Exam start and lockdown | `server/include/nstu/exam_start_barrier.hpp`, `client/src/exam_lockdown_controller.cpp` | readiness per client; what has been locked down | synchronized start; lock and undo |
| Control channel | `common/src/control_channel.cpp`, `iocp_dispatcher.cpp`, `auth.cpp` | handshake stage, sequence numbers, pending I/O | handshake, authenticated commands, teardown |
| Pairing, discovery, keys | `common/src/pairing.cpp`, `discovery.cpp`, `keyring.cpp`, `client/src/client_pairing.cpp` | pairing windows and selections, key generations | discover, pair, enrol, rotate |
| Updates, maintenance | `common/src/update_staging.cpp`, `update_manifest.cpp`, `maintenance_intent.cpp` | staged files, an intent that survives a reboot | stage, verify, commit, resume |
| Video | `common/src/frame_reassembler.cpp`, `packet_loss.cpp`, `video/src/recovering_pipeline.cpp` | partial frames, loss windows, recovery state | capture, publish, reassemble, release, recover |
| File distribution | `common/src/file_distribution.cpp`, `control_plane.cpp`, `client/service/main.cpp` | the running transfer, part files, published files | start, chunk, finish, abort |
| Remote sessions | `server/src/remote_session_process.cpp`, `client/src/stream_host_service.cpp` | state and worker of a session, viewer process, streaming host | launch, contain, stop, expire |
| Audit | `common/src/audit.cpp` | the client's spool, the server's sink with its rotated files | emit, upload, write, acknowledge |
| Write filter setup | `setup/src/uwf.cpp` | the next session's settings, held by Windows | configure, size the overlay, exclude, service, disable |

**How they interact.** The page posts an answer event to the host, the host
checks it against its own context and writes it to the service's pipe. The
service puts it into the outbox, on disk, before anything else. A scheduler
sends one event per session over the authenticated connection; the server
appends it to the journal, flushed, and answers. The service retires the event
from the outbox and only then passes the ACK to the page, which numbers the
next draft. Next to this a page that starts, or is in doubt, asks the server
for its state and reconciles with it. Every disconnect stops the exam on the
client: the page is torn down and lives on in the browser's storage.

Before an exam the machine reboots into its write filter and reports that; the
server keeps the proof in the registry, tied to the boot and to the connection
that carried it, and admits the exam only with it. The start reaches the service,
which arms the network block on a worker thread and queues the exam for the
agent; the agent's UI thread starts the host, whose page says when it is ready,
and only then does the server release the questions.

**What is hard.** Three processes with their own durable state (storage,
outbox, journal) and their own timers; every message can be lost with its
connection and repeated by a timer; an ACK races with the timeout that asks for
the state instead; the exam is stopped and resumed in between; a write fails or
the process dies in the middle of it; two server processes may be started.
Telemetry adds a clock: samples expire after 30 days, and the clock can be set
back after somebody has seen them expire. A client's old connection is torn down
after its new one speaks; a browser callback arrives an exam too late; a
configuration of the write filter breaks off between two calls; two threads
release the keyboard for different reasons.

**What makes it correct.** Journal: acknowledged means durable, readable for
ever, and consistent with every other acknowledgement. Outbox: always opens,
never drops what the server does not have. Page: the candidate's last answer is
always somewhere it will be delivered from, finalization comes last. Together:
an ACK reaches the page only after the outbox has let go of the event, and
whatever was typed arrives. Telemetry: a stop that reached the disk ends
collection and upload for good, a batch keeps its identity across restarts, and
what is not delivered is counted. Seat: one connection speaks for a client, and an
exam runs only where the filter provably protects. Lockdown: a stop beats a slow
start, and everything an exam locks is unlocked whatever dies. Keys: consented to
by student and teacher, and never lost by one side. Services: what is published,
installed, acknowledged, shown or counted is exactly what was sent.

`PROJECT.json` lists the hazards line by line with the properties that catch
them.

## 2. Modules

| Module | Models |
|---|---|
| `AnswerEvents` | the answer event, its validation and its hash |
| `JournalIndex` | the journal's index and the decisions of `append` |
| `AnswerJournal` | the journal file, its lease, `open` as the loop it is, every failure |
| `AnswerJournalProofs` | theorems about `AnswerJournal` |
| `OutboxImage` | the contents of the outbox, `enqueue`, `acknowledge`, the checks and upgrades of `open` |
| `AnswerOutbox` | the outbox file against crashes and a server that acknowledges |
| `AnswerOutboxProofs` | theorems about `AnswerOutbox` |
| `ExamPage` | the page's handlers as functions from a state to a state and messages |
| `AnswerPipeline` | page, service, connection and control plane composed |
| `AnswerPipelineProofs` | theorems about `AnswerPipeline` |
| `TelemetryOutbox` | the telemetry outbox: its calls as compositions of storage operations |
| `TelemetryCoordinator` | the coordinator and the lifecycle of a context, on top of it |
| `TelemetryClient` | the service that drives them, with failing storage, deaths and a moving clock |
| `ClientRegistry` | a client's registry record and its methods |
| `SeatOwnership` | abstract: what the server promises of one client's seat |
| `Classroom` | service, connections, dispatcher and control plane around one seat; implements `SeatOwnership` |
| `Pairing` | both sides of on-screen pairing, enrollment by secret, key store and keyring file |
| `ExamLockdown` | the lockdown controller, its decision and the network filters, as functions on a record |
| `ExamHost` | package checks, host states and browser callbacks, as functions |
| `ExamSession` | server, service threads, pipe, agent threads and host of one machine composed, on top of both |
| `FileTransfer` | `distribute_file` and the receiver |
| `TelemetryJournal` | the server's telemetry journal, its queue and worker |
| `UpdateStaging` | download, verification, application and rollback of an update |
| `MaintenanceIntents` | authorisation of signed intents and the replay cache |
| `AuditTrail` | spool, upload, sink, acknowledgement |
| `VideoStream` | recovery, publisher, reassembler, jitter buffer |
| `PacketLoss` | the loss tracker's ring |
| `RemoteSession` | the viewer's worker, the operator's interlocks, the streaming host |
| `WriteFilterSetup` | the write filter's configuration, call by call |
| `StudentAgent` | the agent's two threads, windows and input block |
| `Discovery` | sweeps, the responder, replay protection and rate limiting |
| `MCServices` | the last eleven services and their bounds in one run |
| `MC...` | further instances for TLC |
| `ClassroomProofs`, `PairingProofs`, `ExamSessionProofs` | theorems about the three composed modules of the same names |
| `TelemetryProofs` | theorems about `TelemetryClient` |
| `ServicesProofs` | theorems about `FileTransfer`, `RemoteSession`, `UpdateStaging`, `MaintenanceIntents`, `TelemetryJournal`, `AuditTrail`, `PacketLoss`, `VideoStream`, `StudentAgent`, `Discovery`, `WriteFilterSetup` |

`OutboxImage`, `JournalIndex` and `ExamPage` are pure: each handler is an
operator that returns the next contents. The state machines around them
(`AnswerJournal`, `AnswerOutbox`, `AnswerPipeline`) share them, so the pipeline
runs exactly the decisions that are checked, or proved about, in isolation.

Correspondence with the code, beyond the names:

- A *session key* is the tuple of package, digest, client and session id; the
  outbox additionally needs `SessionId[k]`, as ACKs carry only the session id.
- A *digest* is the chain of bodies it commits to: SHA-256 is taken to be
  injective. The state hash of the journal is a function of the chain and is
  compared through it. The client's time stamp is fixed when an event is
  numbered and adds nothing to its identity.
- `AnswerJournal!Recover` is one iteration of the replay loop. The steps of
  `append` between its checks and its return happen under one mutex and are one
  action, with an action of its own for each way it ends: refused, duplicate,
  accepted, storage failure, death in the middle. `Residue` is what
  `append_file` leaves when a write, a flush or a rollback fails.
- A write of the outbox is a new file renamed over the old one:
  `WriteOutcomes` is the old or the new contents, nothing in between.
- In the pipeline `store` is the browser's storage, `page` the variables that
  die with the page, `bridge` and `agentQueue` the way through host, bridge and
  pipe, `ingress`, `requests`, `inflight`, `delayed` the service's queues and
  tables, `link`, `toServer`, `toClient` the connection (`cut`: closed by the
  server, not yet noticed by the client), `context` the active exam context.
  `inflight` and `delayed` together are `g_exam_inflight` and
  `g_exam_retry_after`.
- Timers are actions that may happen at any time while they are armed, so every
  race of a timeout with the message it waits for is explored.
- `Type` takes a value that differs from the one shown; the end of an input
  method composition may save the same value once more, which drafts an equal
  answer again and leads to no new situation.

- A call of the telemetry client runs under one mutex and makes up to a dozen
  storage operations. It is a function on a *run record* that carries memory,
  disk, a count of operations and the disks passed through. Each step does
  nothing once the call has failed, so a call reads as the composition of its
  steps, and `Anyway` marks where the code goes on after a failure. The actions
  of `TelemetryClient` choose which operation fails (one, all from one on, or,
  for the refusal marker, a write that leaves only the name), let the call
  return, or let the process die on one of the disks it made. The code's
  operations that only look at a file before changing it are one operation with
  the change: both fail with the same effect.
- The telemetry clock counts in units of which `Retention` make the 30 days.
  The 5 s in-flight timeout and the 2 to 60 s backoff are far below a unit, so
  whether they have passed is a choice of `Poll`. A context is one session id;
  a batch is its context, producer, sequence, body and time stamp, and an ACK
  names the whole batch, as the code compares its hash.
- `owed` in the payload file and `offered`, `witnessed`, `barred` and `late` are
  history: no operator of the code's decisions reads them.

- `Classroom` has one client and numbers its connections. A connection is accepted,
  authenticated, published, read and torn down in separate steps, as the code does
  with the ownership lock released in between; an operator's command and a report
  of the same connection exclude each other by its mutex and are one step each.
  `SeatRefined` maps the connections with a state to `known`, the registry's status
  to `online`, and the connection that carried the current proof to `proof`;
  `carrier` is history for that mapping.
- In `Pairing` an attempt's number stands for its connection, transcript and key, so
  a confirmation tag verifies exactly when it is of the same attempt. Saving the
  keyring replaces the file or fails. `approve_pairing` and `process_enrollment`
  are several steps each, as they share no lock; `approve_fails` is the ends of an
  approval before the key is saved. Expired requests are removed at any moment,
  because a hello on an I/O thread does it too.
- In `ExamSession` a session is started once, so the generation of the host and the
  epoch of the controller are the session they were raised for. The stale window of
  the heartbeat and the longest duration of an exam are events. `pc` is where the
  control and the pipe thread are inside the handlers that release a lock. The host's
  last check of the package, in `on_controller_created`, and the loading of the page by
  the browser are steps apart: `page` is `checked` in between, and `late` records a
  change of the files since the check.
- The service's outbound queue carries many messages no property of `Classroom` speaks
  of; `queue_other_message` is one of them pushing out the oldest report, and `dropped`
  records that the last one went that way or with a worker that failed.
- In `WriteFilterSetup` each WMI call is a step; the three configuring operations
  share one shape and differ in the order of writes (`ConfigureOrder` and its kin).
  Of a call under way `todo` holds the writes that change something and are still to
  be made, `written` those to undo; `IsNextWrite` and `IsLastWrite` take them in order.
  A call of WMI that fails may have taken effect, when its answer could not be read;
  `unseen` is that setting. A threshold of 0 is one that is not set.
- In `FileTransfer` the last `zeros` units of a file are zero bytes: what the receiver
  reads into its zero-filled buffer has the digest of the file when at most these are
  missing. In `UpdateStaging` `lost` counts the units a stream dropped unnoticed.
- The client service of `RemoteSession` stops, dies and starts again; `abandoned` is a
  streaming host whose stop Windows refused or whose service died.
- In `StudentAgent` a message that is sent is handled at once, one that is posted
  waits its turn; the calls of `BlockInput` a handler ends with are steps of their
  own, because the other thread can come between the flag and the call.
- In `VideoStream` and `Discovery` a datagram once sent stays in the air and may
  arrive any number of times. The time in a video header is any of `0 .. MaxTime`, also
  the same for two captures (0 is a capture in which only the pointer moved), and a
  publisher may be opened again under the same stream id. Clocks are small numbers where expiry is compared at
  a boundary (`MaintenanceIntents`, `Discovery`) and events elsewhere.
- Signatures, digests and authentication tags are taken as given: they verify
  exactly when they are of what they were made for.

Simplifications: the telemetry files are the service's own (no corrupt files,
no version 1 files, hence no quarantine), the counters of dropped samples are
left out, and so are temporary files. The browser's storage accepts every write (the page tells the
candidate and refuses to submit otherwise); a state response is one message
(the chunks are reassembled or dropped as a whole); one client and one
candidate; the outbox file is not lost. In `AnswerPipeline` the journal's file
is its index, because `AnswerJournal` shows that they agree at every moment an
event is answered.

## 3. Runs

| Run | Instance | Distinct states | Shows |
|---|---|---|---|
| `answer_journal` | 2 processes, 3 sessions with room for 2, 15 events of which many do not fit the chain, 4 records | 43,656 | `AckedDurable`, `ReopenNeverFails`, `IndexMatchesFile`, `AcksNeverDisagree`, `JournalOnlyGrows` |
| `answer_outbox` | 2 sessions with one session id, chains of 3, files of formats 1 to 4 | 47,485 | `FileAlwaysOpens`, `NoAnswerLost` |
| `answer_pipeline` | 2 edits, a submission, 2 starts, 1 stop, 1 fault | 3.2 million | `LatestAnswerKept`, `FinalizedIsComplete`, `AckAfterRetirement`, `NoManualReview` |
| `answers_arrive` | 1 edit, 1 fault, fairness | 22,962 | `AnswersArrive`, `OutboxDrains` |
| `telemetry_client` | 2 contexts, outbox of 2, loss table and archive of 1, 2 chunks, 1 mishap, clock 1..2 set back once | 137,793 | `NothingSentLate`, `IdentityNeverReused`, `OwnFilesOpen`, `LossesCounted` |
| `classroom` | 2 connections, 2 boots, 2 commands, 1 fault, queues of 1 | 3.9 million | `ProofIsTrue`, `ExamOnlyProtected`, `SequenceUnbroken`, `ReportOnItsWay`, and the refinement `SeatRefined` |
| `pairing` | 1 student and the provisioned machine, 2 attempts, 2 windows, 1 fault | 1.4 million | `KeysSurvive`, `KeysNeedConsent` |
| `exam_session` | 2 exams or failures, 1 command on its way, fairness | 304,050 | `ReadyIsReal`, `StopWins`, `AlteredOnlyLate`, `NetworkReleased`, `ExamEnds` |
| `services` | eleven services one at a time, see below | 1.9 million | `PublishedAsSent`, `AcceptedOnce`, `InstalledIsSigned`, `IntentRunsOnce`, `RecordAccountedFor`, `PicturesWholeInOrder`, `LossExact`, `NothingLeftBehind`, `FilterArmedSafely`, `StudentReleased`, `OneAnswerPerSweep` |
| `page_ack` | 2 edits | violation | `ValidAckRetires` |
| `stale_session` | 2 sessions, 1 edit, 1 stop | violation | `StaleSessionNeverBlocks` |
| `expiry_revived` | 1 context, 4 deaths, clock 1..5 set back once | violation | `ExpiredNeverRevived` |

What the newer properties say, each at the place where the code could go wrong:

| Property | Statement |
|---|---|
| `SeatRefined` | however connections overlap, race and break, the seat has one owner, is online exactly while owned, and a proof ends with the connection that carried it |
| `ProofIsTrue`, `ExamOnlyProtected` | a proof in the registry is of the owner's boot and true; no exam is admitted for, or runs in, an unprotected session |
| `SequenceUnbroken`, `ReportOnItsWay` | a full send queue leaves no gap in the numbers; the report that verifies a reconnected client is lost by nothing but the service's own queue or worker |
| `KeysSurvive`, `KeysNeedConsent` | a machine's saved key is known to the server in memory and on disk; no pairing key exists without both consents |
| `ReadyIsReal`, `AlteredOnlyLate` | readiness is the page's of this very session; altered files are shown only when they changed after the host's last check, however late the browser's callbacks come |
| `StopWins`, `NetworkReleased`, `ExamEnds` | a stop beats a slow arming; the block is lifted and the kiosk ends whatever dies |
| `NothingSentLate` | no telemetry is sent after its revocation is durable, and none after its expiry is, unless it was an intent that outlived the file or the counter that knew of the expiry |
| `PublishedAsSent` | students find the file that was sent, short at most of zeros it ends with (difference A) |
| `AcceptedOnce` | a repeated telemetry batch is accepted once, across eviction and restarts, and once more for each index that was lost |
| `InstalledIsSigned` | what is installed comes from one verified package, and the package file misses nothing but what the disk lost unnoticed (difference B) |
| `IntentRunsOnce` | a maintenance intent is let through once, whatever expires or fills up, and once more for each time the cache lost one that was still good |
| `RecordAccountedFor` | an audit record is spooled, written, or counted as dropped |
| `PicturesWholeInOrder`, `LossExact` | whole pictures of one capture, in order, but for a publisher opened again under the same stream id; exact loss counts |
| `NothingLeftBehind` | a session that ended leaves no process, and no streaming host unless its stop was refused or the client service died (difference C) |
| `FilterArmedSafely` | a filter NSTU knows it armed has its exclusions, thresholds found in order stay in order, and a result tells the truth, but for a write whose answer was lost (differences D and E) |
| `StudentReleased` | without a service no exam, no control, no dead window and no blocked input remain |
| `OneAnswerPerSweep` | a discovery request is answered once, and only with the port of this sweep |

`services` combines modules that share no variable: `part` is chosen at the start,
and only that service takes steps, so the state spaces add up. Each behaviour of
the run is a behaviour of one service with its own bounds.

**Bounds.** Journal: a chain of three events covers an overwrite, a deletion, a
finalization and an event after it; a session more than the quota and a
question more than the quota exercise both refusals; with two processes and
four records a failed write of each shape is followed by a reopening, a second
failure and another reopening. Outbox: a rebase needs a boundary, a rebased
event and one behind it, which is three; two sessions with the same id exercise
the choice among them. Pipeline: `MaxEdits = 2` gives a first and a second
event, so that a late ACK of one meets the other, and an overwrite or a
deletion; `MaxFaults = 1` puts one lost connection, restart or failed write
anywhere; queues of length one make every limit bite. Telemetry: two contexts
and an archive of one fill the archive; one loss slot makes the second context
compete for it; with `Retention = 1` and two clock values a batch is young,
expired and, after the clock is set back, young again; one mishap fails any of
the first eight operations of any call, or ends the process after any of them,
anywhere in a behaviour. A crash between two calls is not a mishap and happens
any number of times. Seat: two connections overlap, two boots make a proof of the
first one stale, two commands and queues of one fill a queue, and one fault cuts a
connection, restarts a side, ends a worker or overfills the service's queue anywhere. Pairing: two attempts of one machine
overlap and supersede each other. Exam session: two events are an exam and a
failure, or an exam and the next one. Services: every table, ring, cache and queue
holds one or two entries and sees at least one more, two failures allow one inside
the handling of another, the ring of the loss tracker (3) is shorter than the
longest jump (6), and the clocks run past every expiry. `MaxIntentFaults = 1` ends the
process or sets the clock back once; two captures of one time under two openings of one
stream (`MaxCaptures`, `MaxOpens`, `MaxTime`, `Streams`) are the least that can be
confused; `MaxAgentQueue = 2` and `MaxBridgeMessages = 1` fill the queues in front of
the agent and of the page. One overlay size is offered, with thresholds found below,
above and unset, so that both orders of writing happen. The agent was also run once
with five messages (8.8 million states) without a violation. Larger instances of the pipeline were
also run once without a violation: two questions, two faults, two answers
(1.5 to 4.2 million states).

Deadlock is not checked in these runs: once the budgets of edits, starts, commands
and faults are used up and everything is delivered, the system rightly rests.

**Fairness.** Timers of the page fire and the loops of the service (25 to 100
ms) and of the server go on: weak fairness for each. Strong fairness is used in
two places. A message for the page is handled although the bridge to the
service is full now and then; the service empties it far faster than the page's
timers, of a second and more, can fill it. An event is sent although
`pop_outbound_message` prefers a state request whenever there is one; the page
posts at most one a second. In `ExamSession` the reading and writing of pipe and
connection, the supervisor's tick, the UI thread's messages, the detection of a lost
peer and the restart of a service are weakly fair: each is a loop or a blocking wait
of a thread of its own, and Windows restarts the service. A call Windows refuses is
a fault of the budget, and the supervisor tries again. Nothing is assumed of candidates, operators or
faults.

**Findings.**

1. `page_ack` (`exam/web/app.js:1354`): the page compares the hash of an
   acknowledged event with the hash of the event before it. From the second
   event of a session on, every good ACK is called invalid, and the event is
   retired by the state request that follows. Nothing is lost; each answer costs
   a second exchange.
2. `stale_session` (`server/src/control_plane.cpp:2379`): an event of a session
   that is over stays in the outbox, is sent during the next session and makes
   the server close the connection. That stops the running exam, and the event
   is sent again after the reconnect. `docs/EXAM_ASSESSMENT.md:252` says that a
   stale session is prevented from blocking a new one.
3. `expiry_revived` (`common/src/exam_telemetry_outbox.cpp:473`): a batch is an
   intent and in the payload file when it expires; the barrier is written and the
   process dies; the clock is set back; the restarted process replaces the payload
   file, counting the batch as expired under the set-back clock, and dies before it
   clears the barrier. The next process judges that counter at the barrier's time,
   drops it as older than the retention period, finds neither batch nor counter, and
   enqueues and sends the intent again. `tasks/improvement-plan.md:9` says that a
   clock rollback cannot revive an observed expired batch.
**Other differences from the documents.** Five more met while modelling have no run of
their own: the passing property makes the exception the code needs, and fails in
`services` without it.

- A. Short files (`client/service/main.cpp:2436`): the receiver reads its part file into
  a zero-filled buffer of the declared size and accepts a read that ends early. A file
  that ends with zeros whose end was never written passes the digest and is published
  short. `docs/INDEV_STATUS.md:125` promises a full verification before the rename.
- B. Short packages (`common/src/update_staging.cpp:669`): size and digest of an update
  are those of the chunks handed over; the stream that writes them is closed without a
  check and the file is never read back. `docs/AUTO_UPDATE_LTSC.md:175` calls a staged
  package verified.
- C. A host left running (`client/src/stream_host_service.cpp:223`): the supervisor
  forgets a host whether or not its stop succeeded, and a service that died starts
  without looking for one. `client/include/nstu/stream_host_service.hpp:31-34` says that
  the host is stopped with the session and the connection.
- D. An armed filter without exclusions (`setup/src/uwf.cpp:634`): an `Enable()` that
  took effect but whose answer could not be read counts as failed; its exclusions are
  taken back and the filter stays armed. `setup/include/nstu/setup/uwf.hpp:76-77` says
  that it is armed only after the exclusions.
- E. Thresholds out of order (`setup/src/uwf.cpp:1027`): where a warning threshold is set
  and no critical one, the critical one is written first, below the warning.
  `docs/INDEV_STATUS.md:147` promises strictly ordered thresholds.

**Exceptions the properties make.** Where the code gives a promise up, the property
leaves out exactly that case, through a history variable or a condition, and says so:

- an enrollment that overlaps an approval, whichever began first, can lose its key, or
  the approval its, when the save of one fails and its snapshot is restored (`overlap`
  in `Pairing`, `control_plane.cpp:1404`);
- `disarm()` clears the filters outside its mutex; a block applied in between is
  taken for absent and stays until something clears it
  (`exam_lockdown_controller.cpp:357`);
- an intent whose batch was seen to be expired can outlive the payload file, deleted
  for its age, or the counter of expired batches, dropped as in finding 3 (`outlived`
  in `TelemetryClient`);
- a telemetry index whose write failed unnoticed is lost with the process, and one that
  cannot be read is given up by `open`; a repeated batch is then stored again
  (`exam_telemetry_journal.cpp:896` and `518`, `index_losses`);
- a report on the write filter is pushed out of the service's queue by other messages,
  or ends with its worker (`client/service/main.cpp:654` and `1517`, `dropped`): the
  machine then stays unverified until the next report;
- the cache of maintenance intents ends with its process, and a clock set back makes an
  intent good again that it has dropped (`maintenance_intent.hpp:206`, `cache_losses`);
- files of the package that change between the host's last check and the end of the
  loading are shown (`exam_host.cpp:2267`, `late`);
- a publisher opened again under the same stream id repeats its frame ids, and two
  captures of the same time can be joined (`frame_reassembler.cpp:90`;
  `docs/PACKET_LOSS.md:10` wants a new stream id);
- what differences A to E are about: zeros at the end of a file, units the disk lost, a
  host whose stop was refused or whose service died (`abandoned`), a write of the
  filter whose answer was lost (`unseen`), and thresholds that were not in order before;
- the end of an exam shows again a broadcast that ended during it, and the agent's
  two threads can leave the input blocked when their calls overtake each other
  (`client/agent/main.cpp:361` and `142`);
- the discovery responder forgets what it answered when it restarts, is full, or its
  clock is set back; a telemetry service refuses its files under a clock that is
  behind (`OwnFilesOpen`).

Open points met while reading that no run states: a restarted server numbers write
filter operations from 1 again (`control_plane.cpp:2705`), so a late report of an
old operation can match a new one; an `apply_staged_update` repeated after a failed
copy removes the only backup first (`update_staging.cpp:810`); a failure recorded
while a source is blocked can lift the block (`rate_limiter.cpp:87`); sessions'
watermarks in the outbox are never removed (`answer_journal.cpp:1300`), a full
journal cannot encode its refusal (`answer_journal.cpp:1059`), and a client that
lost its outbox cannot continue a session (`answer_journal.cpp:2010`).

Each property also has a mutant: a version of one definition with a plausible
bug, marked `A bug the checks must catch` in the modules, under which TLC finds
that property violated.

## 4. Proofs

Every theorem is of the specification the runs check, for all values of the
constants that satisfy the assumption of its module. Each follows one argument:
an inductive invariant that the initial states satisfy and every action keeps,
checked by TLC on a small instance before it was proved, and the property as its
consequence.

| Module | Theorems | Inductive invariant |
|---|---|---|
| `AnswerJournalProofs` | `TypeOKThm`, `AckedDurableThm`, `ReopenNeverFailsThm`, `IndexMatchesFileThm`, `AcksNeverDisagreeThm`, `JournalOnlyGrowsThm` | `IInv` |
| `AnswerOutboxProofs` | `FilesAlwaysOpen`, `NoAnswersLost` | `OutboxIInv` |
| `AnswerPipelineProofs` | `PipelineInvariant`, `LatestAnswerAlwaysKept`, `FinalizedAlwaysComplete`, `AckAlwaysAfterRetirement`, `NeverManualReview` | `PipelineIInv` |
| `ClassroomProofs` | `SeatImplemented` (the refinement `SeatRefined`), `ProofsAreTrue`, `ExamsOnlyProtected`, `SequencesUnbroken`, `ReportsOnTheirWay` | `ClassroomIInv` |
| `PairingProofs` | `KeysNeverLost`, `KeysConsented` | `PairingIInv` |
| `ExamSessionProofs` | `ReadinessIsReal`, `StopsWin`, `PagesCheckedLast` | `SessionIInv` |
| `ServicesProofs` | `FilesAsSent`, `RemoteSafe`, `InstalledSafe`, `IntentsOnce`, `BatchesAcceptedOnce`, `RecordsAccounted`, `LossCountedExactly`, `PicturesWhole`, `StudentsReleased`, `SweepsAnsweredOnce`, `FiltersArmedSafely` | one each |
| `TelemetryProofs` | `ClientInvHolds`, `NothingSentLateHolds`, `IdentityNeverReusedHolds`, `OwnFilesOpenHolds` | `ClientInv` |

**Assumptions.** Bounds, capacities and lifetimes are natural numbers, positive
where the code's constant is. Beyond that: what stands for nothing is not a value
(`NoProc`, `Torn`, `NoExam`), the provisioned machine is not one of those that pair
on screen, and the antivirus paths are none of the settings NSTU writes itself. The
pipeline assumes that an exam has finitely many questions and that the two queues of
the service have room for one entry (`PipelineAssumption`).
For the telemetry client, what stands for no file, no state and no intent is none of
these, and nothing is assumed of the answers of the server but their kinds.
The outbox starts from any file, of any of the four formats, that `open` accepts, and
any journal whose hashes of a session are one chain and that holds the last event of
every session with none waiting (`Found`); the empty file and the empty journal are one
such pair.

**The journal.** None of the properties is inductive. `AckedDurable` needs to know
that recovery never cuts off a complete record; that needs the replay to succeed,
`ReopenNeverFails`; that needs every record to fit the chain before it, also the
record of a failed append that was written but never indexed; that needs the index
of the writer to be the replay of the file, which holds because of the lease. `IInv`
says all of this at once through a *replay* `R` of the file, where `R[i]` is the
index after `i` records:

- `Owned`: a process that is not closed holds the lease;
- `Replayed(R)`: every complete record is recoverable from `R[i - 1]` and leads
  to `R[i]`; only the last item may be incomplete; the process that is not
  closed has `sessions = R[cursor]`, and `cursor = Len(file)` when it is open;
- `Knows`: `R[i]` holds the hashes of the first `i` records and no others;
- `AckedInFile`: an acknowledged event is a complete record.

A step of `open` moves along `R`, an append extends it, a failed append extends
it by a record that nobody has indexed yet, and cutting the tail leaves it
alone. `R` is quantified in the invariant rather than defined recursively, so
that no induction over the file is needed: each step says how the old replay
gives the new one. `TypeOKThm` is about the shape of the index, a lemma of the other
proofs rather than a result of its own, so no run lists it.

**The outbox.** `open` checks a session with choices from its events: the first, the
last, the one with the number before. The proof first shows these checks equivalent to
a relation between a watermark and a set of events (`Session`): numbers without a gap
between boundary and watermark, every event behind its neighbour, the watermark that of
the last. Adding an event, retiring a prefix and rebasing the first event keep it in the
session they change and leave the others alone; the rebased chain is a concatenation
of the new predecessor and the bodies that follow, so that no induction is needed. For
`NoAnswerLost` the invariant adds the server: its hashes of a session are one chain, and
the last event of a session with none waiting is among them (`Delivered`). The hash
that an acknowledgement carries is then that of an event of the same session and place,
and each earlier event of the client's chain has the hash the server has at its place,
by going down from the acknowledged one; so everything that is retired is in the
journal. The proof also shows a branch of `acknowledge` that no state reaches: an
acknowledgement that is beyond the boundary and of the last event, which is gone
(`AcknowledgedBeforeSame`).

**The pipeline.** The four properties relate what is at one end to what is at the
other, and every queue, file and restart lies between. `PipelineIInv` rests on one
fact: a session has one chain of events, which only its page extends (`Chain`), and
whatever anybody holds is a beginning of it. Beginnings of one chain are ordered by
length and equal when they are equally long (`PrefixOrder`), so each handler only has
to show how far it is. The parts:

- `StoreOK`: the page knows the chain in front of its one pending event; nothing
  follows a finalize event; the last answer typed is the draft's or the chain's;
- `JournalOK`: the journal lies between the page's cursor and the pending event, and
  its answers are those of its chain; `HashesOK`: its index holds the beginnings;
- `EventsOK`: events in the bridge, the ingress queue, the outbox and on the
  connection are of the chain, and the outbox holds, without a gap, what is between its
  two watermarks;
- `MessagesOK`: a reply on its way says what the journal had, and a state response
  is not behind the cursor when it arrives, because replies keep their order; a
  durable acknowledgement that the service has passed on is behind the boundary of
  the outbox.

`NoManualReview` is part of the induction: the page raises the conflict when a response
contradicts its cursor or its pending event, and each such test is shown to fail on
beginnings of its chain. The order of the replies is what makes this true: a late
state response that overtook an acknowledgement would be behind the cursor. It holds
across connections too: what the service took from an earlier one stays in the queue to
the agent, in front of what comes from the next, and the rest is gone with the socket.
The number of edits, restarts, disconnections and failures is any number, and session
keys may share the session id by which the outbox looks up an acknowledgement.
For the proof the filters of the page and of the service are written with `Picked`, a
recursive function, in place of `SelectSeq`.

**The seat.** That the owner's proof is true when an exam is admitted depends on every
report still under way: a report that a connection carries is of the boot that
connection was opened in, and says "protected" only of a boot that was. `ClassroomIInv`
says so for the service's queue and both ends of every connection (`TableOK`,
`ServiceOK`), that the ends the service holds are exactly the attached ones (`EndsOK`),
and that the registry is online exactly while the seat has a live owner, whose
connection carried the proof (`SeatOK`). Each action is then shown to keep it and to be
a step of `SeatOwnership` or none, which is the refinement.

**Pairing.** The key of a machine can be overwritten by any copy of the key store an
approval or an enrollment keeps while it works, to encode or to roll back.
`PairingIInv` therefore says of every such copy, not only of the store and the file,
that it holds what was handed out to a machine and not replaced since (`KeepsOK`), as
long as no enrollment overlapped an approval, and that its keys are of approved
attempts (`KeysOK`). The proof attempt found that the exception was first drawn too
narrowly: an approval that begins while an enrollment has taken its copy and not yet
written it overlaps too, and `overlap` now says so.

**The exam session.** `StopsWin` rests on the order of starts and stops on their way:
a start finds nothing running once what is before it is carried out (`Alternate`), so
the newest token of the controller is the running exam's or nobody's (`BlockOK`).
`ReadinessIsReal` follows the report from the page to the server through every queue.
`PagesCheckedLast` needs of every callback still to come that a page past the check has
the files it was checked with, or that they changed late.

**The services.** The property speaks of what is on disk, running or let through; the
invariant adds what the program's memory knows of it.

| Property | What the invariant adds |
|---|---|
| `PublishedAsSent` | the part file of a transfer that is finishing holds what was counted but for zeros at its end |
| `NothingLeftBehind` | where the worker is says which processes it has; a host that runs and is not given up is one the supervisor knows it started |
| `InstalledIsSigned` | as long as the digest can come out right, the part file holds units of the package that is being downloaded and of no other, and with those lost as many as were counted |
| `IntentRunsOnce` | an intent that has run as often as it may cannot run again: it is in the replay cache or has expired |
| `AcceptedOnce` | an accepted batch is in its producer's index or below its floor, in memory and in the metadata on disk, unless it was accepted less often than indexes were lost |
| `RecordAccountedFor` | the spool is a run of numbers, and every number before it is settled, also after an acknowledgement that comes late |
| `LossExact` | the ring says of every packet of the window whether it arrived, and the counters are cardinalities of the packets before it |
| `PicturesWholeInOrder` | an opening of the publisher uses a frame id for one capture, and a frame under way holds fragments of one stream and time, so it is whole when it holds as many as were sent, and mixed only by two openings |
| `StudentReleased` | as long as the two threads never had calls under way at once, the last call still to come, or Windows itself, agrees with the agent's flags |
| `OneAnswerPerSweep` | a request that was answered and can still be accepted is remembered |
| `FilterArmedSafely` | a setting is at its target when written and as before when not, but for the one whose answer was lost, so `Enable()` is reached with every exclusion in place and undone before any of them, and the order of the threshold writes keeps them apart |

**The telemetry client.** A call makes up to a dozen storage operations, any of which
may fail or be the last of the process, so an invariant of the states between calls is
not enough: every operation has to leave a disk that a restart can live with. The run
record carries the disks it has passed through, and the proof says of each of them
(`Ready`), with the batches known and the batches expired up to that disk:

- `FilesOK`: identities are unique among all batches sent, expired or stored; the state
  file has each number as used or as its intent; a durable revocation is in the state
  file's archive or lifecycle, or the refusal marker is there; the payload file fits the
  state;
- `ExpiryOK`: a stored batch that was seen expired has the barrier beside it, and an
  intent that was is still stored or has its context's count of expired batches.

`Good` adds the memory: the open outbox mirrors the payload file, and the coordinator
knows at least what the state file knows. It may be ahead of the file (`dirty`, a
cleanup still to come); what it may never be is behind. There is one lemma per storage
operation, one per step of a call and one per call; `ClientInv` is `Good` for the state
between calls, and an action passes to it from the last disk of the call (`ReturnsOK`)
or from the one the process died on (`DiesOK`). `NothingSentLate` holds at the poll
because it is preceded by a sweep: an enabled context is not in the archive, and after
the sweep no barrier is left, so nothing in the outbox is known to be expired.
`Pruned` and `Ingest` are written with recursive functions for the proof.

The intents of `outlived` are the exception that finding 3 is about: the invariant is
not inductive without them.

**Only model-checked.** `LossesCounted`: the counters saturate at the capacity of the
outbox, so the equation holds only while no more batches are made than that, which the
run's bound ensures and no other constant does; it is a property of the instance. The
liveness properties (`AnswersArrive`, `OutboxDrains`, `NetworkReleased`, `ExamEnds`) and
the three violations are for TLC: the prover handles neither fairness nor `ENABLED`.

## 5. Plan

1. State responses in several chunks (`app.js:1915`), and a change of the client's
   identity while events are queued.
2. The barrier of a start with several clients, and the re-arm watchdog of the
   video.

## 6. Not modelled

- The user interface of the operator (`server/app/main.cpp` apart from the remote
  session interlocks), drawing, chat, help requests, snapshots, wake-on-LAN: state
  that is shown and passed on, on which no decision depends.
- The diagnostics of the setup program: read-only checks of Windows.
- Byte encodings, cryptography, encoders and the enumeration of adapters: taken as
  given, as described in section 2.
- Room profiles, telemetry counters, grading, the sealed export and the support
  bundle: functions of their input without state of their own.
- The authoring page: an offline form that writes a package.
- Windows wrappers other than the network filters.
