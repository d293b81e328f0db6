--------------------------- MODULE AnswerPipeline ---------------------------
(***************************************************************************)
(* One answer's way from the exam page to the server's journal and back:   *)
(* the page, the client service with its outbox, the authenticated         *)
(* connection, and the control plane with its journal                      *)
(* (exam/web/app.js, client/service/main.cpp, server/src/control_plane.cpp)*)
(*                                                                         *)
(* ExamPage, OutboxImage and JournalIndex give the handlers' results; this *)
(* module adds the queues between them, the losses and the restarts.       *)
(***************************************************************************)
EXTENDS ExamPage, OutboxImage, JournalIndex

CONSTANTS
    NoExam,        \* no exam is shown, no context is active
    MaxEdits,      \* bound: answers the candidate types
    MaxSubmits,    \* bound: times the candidate submits
    MaxStarts,     \* bound: exams the operator starts
    MaxStops,      \* bound: exams the operator stops
    MaxFaults,     \* bound: lost connections, restarts and failed writes
    MaxIngress,    \* kMaximumQueuedExamIngress
    MaxRequests,   \* kMaximumQueuedOutboundMessages
    MaxPosted,     \* bound: messages between page and service, either way
    MaxSent        \* bound: messages of one kind on the connection, either way

\* An exam has finitely many questions; the marks for "none" are no question
\* and no session; a queue has room for one entry.
ASSUME PipelineAssumption ==
    /\ IsFiniteSet(Questions) /\ NoQuestion \notin Questions
    /\ Candidate \in Candidates
    /\ NoExam \notin Keys
    /\ MaxIngress \in Nat \ {0} /\ MaxRequests \in Nat \ {0}

VARIABLES
    exam,       \* the session whose page is loaded, or NoExam
    store,      \* per session: the page's record in browser storage
    page,       \* the volatile state of the loaded page
    bridge,     \* messages from the page to the service
    agentQueue, \* g_agent_queue: messages from the service to the page
    outbox,     \* the answer outbox
    ingress,    \* g_exam_ingress_queue
    requests,   \* g_outbound_queue: state requests of the page
    inflight,   \* g_exam_inflight: events sent, their timeout running
    delayed,    \* g_exam_retry_after of events that are not in flight
    link,       \* the authenticated connection: down, up, or cut by the server
    toServer, toClient,  \* what travels on it
    context,    \* active_exam_contexts_: the session of the client, or NoExam
    journal,    \* the journal's index, which survives with its file
    journalOpen,
    budget,     \* edits, submissions, starts, stops and faults left
    typed       \* per session and question: the last answer typed (history)

pageVars == <<exam, store, page>>
serviceVars == <<outbox, ingress, requests, inflight, delayed>>
serverVars == <<context, journal, journalOpen>>
linkVars == <<link, toServer, toClient>>
history == <<budget, typed>>
vars == <<pageVars, bridge, agentQueue, serviceVars, linkVars, serverVars, history>>

Spend(what) ==
    /\ budget[what] > 0
    /\ budget' = [budget EXCEPT ![what] = @ - 1]

----------------------------------------------------------------------------
(***************************************************************************)
(* The page.                                                               *)
(***************************************************************************)
PageStep(outcome) ==
    /\ Len(bridge) < MaxPosted
    /\ store' = [store EXCEPT ![exam] = outcome.store]
    /\ page' = outcome.page
    /\ bridge' = bridge \o outcome.posted
    /\ UNCHANGED <<exam, serviceVars, linkVars, serverVars>>

\* The answer the page shows.
Shown(s, q) == IF q \in DOMAIN s.answers THEN s.answers[q] ELSE NoAnswer

\* The candidate types an answer or deletes one: an input event comes with a
\* value that differs from the one shown.
Type(q, a) ==
    /\ exam # NoExam
    /\ ~submitted(store[exam])
    /\ a # Shown(store[exam], q)
    /\ Spend("edits")
    /\ store' = [store EXCEPT ![exam] = saveAnswer(@, q, a)]
    /\ page' = [page EXCEPT !.edit = TRUE]
    /\ typed' = [typed EXCEPT ![exam][q] = a]
    /\ UNCHANGED <<exam, bridge, agentQueue, serviceVars, linkVars, serverVars>>

\* The candidate submits, or the countdown has reached zero.
Submit ==
    /\ exam # NoExam
    /\ ~submitted(store[exam])
    /\ Spend("submits")
    /\ PageStep(submitResponse(exam, store[exam], page))
    /\ UNCHANGED <<agentQueue, typed>>

EditTimer ==
    /\ exam # NoExam /\ page.edit
    /\ PageStep(flushAnswerBridge(exam, store[exam], [page EXCEPT !.edit = FALSE]))
    /\ UNCHANGED <<agentQueue, history>>

RetryTimer ==
    /\ exam # NoExam /\ page.retry
    /\ PageStep(retryTimer(exam, store[exam], page))
    /\ UNCHANGED <<agentQueue, history>>

AckTimeout ==
    /\ exam # NoExam /\ page.flight # {}
    /\ PageStep(ackTimeout(exam, store[exam], page))
    /\ UNCHANGED <<agentQueue, history>>

SecondPasses ==
    /\ exam # NoExam /\ page.asked
    /\ page' = [page EXCEPT !.asked = FALSE]
    /\ UNCHANGED <<exam, store, bridge, agentQueue, serviceVars, linkVars,
                   serverVars, history>>

\* The next message of the service: an answer for the page, which is lost on
\* a page that is not loaded, or the start or the end of an exam.
FromService(type) ==
    /\ agentQueue # <<>> /\ Head(agentQueue).type = type
    /\ agentQueue' = Tail(agentQueue)

PageAck ==
    /\ FromService("ack")
    /\ IF exam = NoExam
       THEN UNCHANGED <<pageVars, bridge, serviceVars, linkVars, serverVars>>
       ELSE PageStep(handleAnswerAck(exam, store[exam], page, Head(agentQueue)))
    /\ UNCHANGED history

PageState ==
    /\ FromService("state")
    /\ IF exam # Head(agentQueue).key
       THEN UNCHANGED <<pageVars, bridge, serviceVars, linkVars, serverVars>>
       ELSE PageStep(applyStateResponse(exam, store[exam], page,
                                        Head(agentQueue).state))
    /\ UNCHANGED history

\* A page that starts asks the server for the state it has.
PageStarts ==
    /\ FromService("start")
    /\ LET k == Head(agentQueue).key
           outcome == beginStateReconcile(k, store[k], FreshPage)
       IN /\ exam' = k
          /\ page' = outcome.page
          /\ Len(bridge) < MaxPosted
          /\ bridge' = bridge \o outcome.posted
    /\ UNCHANGED <<store, serviceVars, linkVars, serverVars, history>>

PageStops ==
    /\ FromService("stop")
    /\ exam' = NoExam
    /\ page' = FreshPage
    /\ UNCHANGED <<store, bridge, serviceVars, linkVars, serverVars, history>>

----------------------------------------------------------------------------
(***************************************************************************)
(* The service.                                                            *)
(***************************************************************************)
FromPage(type) ==
    /\ bridge # <<>> /\ Head(bridge).type = type
    /\ bridge' = Tail(bridge)

\* A full queue gives up its oldest entry.
Queued(queue, limit, x) ==
    Append(IF Len(queue) >= limit THEN Tail(queue) ELSE queue, x)

\* queue_exam_event_payload: the event is in the outbox, on disk, or it waits
\* in memory for the next attempt.
ServiceEvent ==
    /\ FromPage("event")
    /\ LET e == Head(bridge).event
           r == enqueue(outbox, e)
       IN IF r.ok THEN outbox' = r.image /\ UNCHANGED ingress
                  ELSE ingress' = Queued(ingress, MaxIngress, e) /\ UNCHANGED outbox
    /\ UNCHANGED <<pageVars, agentQueue, requests, inflight, delayed, linkVars,
                   serverVars, history>>

\* The outbox cannot be written.
ServiceEventUnwritten ==
    /\ FromPage("event")
    /\ Spend("faults")
    /\ ingress' = Queued(ingress, MaxIngress, Head(bridge).event)
    /\ UNCHANGED <<pageVars, agentQueue, outbox, requests, inflight, delayed,
                   linkVars, serverVars, typed>>

ServiceRequest ==
    /\ FromPage("request")
    /\ requests' = Queued(requests, MaxRequests, Head(bridge))
    /\ UNCHANGED <<pageVars, agentQueue, outbox, ingress, inflight, delayed,
                   linkVars, serverVars, history>>

\* drain_exam_ingress: one attempt for every event that waits, in order.
Drained ==
    LET r[i \in 0..Len(ingress)] ==
            IF i = 0 THEN [image |-> outbox, left |-> <<>>]
            ELSE LET one == enqueue(r[i - 1].image, ingress[i]) IN
                 [image |-> one.image,
                  left |-> IF one.ok THEN r[i - 1].left
                           ELSE Append(r[i - 1].left, ingress[i])]
    IN r[Len(ingress)]

\* remote_control_loop: the queue is drained and the connection made.
Connect ==
    /\ link = "down"
    /\ link' = "up"
    /\ outbox' = Drained.image
    /\ ingress' = Drained.left
    /\ UNCHANGED <<pageVars, bridge, agentQueue, requests, inflight, delayed,
                   toServer, toClient, serverVars, history>>

\* What is sent on a connection the server has closed is lost.
SentOn(m) == IF link = "up" THEN Append(toServer, m) ELSE toServer

Room(type) ==
    Cardinality({i \in 1..Len(toServer) : toServer[i].type = type}) < MaxSent

\* pop_outbound_message: commands of the queue go first.
SendRequest ==
    /\ link # "down" /\ Room("request")
    /\ requests # <<>>
    /\ requests' = Tail(requests)
    /\ toServer' = SentOn(Head(requests))
    /\ UNCHANGED <<pageVars, bridge, agentQueue, outbox, ingress, inflight,
                   delayed, link, toClient, serverVars, history>>

\* The first event of a session that is not held back; none while an event of
\* the session is in flight.
Sendable(e) ==
    /\ \A f \in inflight : f.key # e.key
    /\ e \notin delayed
    /\ \A d \in EventsOf(outbox, e.key) : d.sequence < e.sequence => d \in delayed

SendEvent(e) ==
    /\ link # "down" /\ Room("event")
    /\ requests = <<>>
    /\ e \in outbox.events
    /\ Sendable(e)
    /\ inflight' = inflight \cup {e}
    /\ toServer' = SentOn(PostEvent(e))
    /\ UNCHANGED <<pageVars, bridge, agentQueue, outbox, ingress, requests,
                   delayed, link, toClient, serverVars, history>>

\* kExamAckTimeout has passed, or the retry delay of an event not in flight.
InflightTimeout(e) ==
    /\ inflight' = inflight \ {e}
    /\ UNCHANGED <<pageVars, bridge, agentQueue, outbox, ingress, requests,
                   delayed, linkVars, serverVars, history>>

\* A bug the checks must catch: a refused event is never due again.
DelayRestarts(e) == e \in delayed /\ UNCHANGED vars

DelayPasses(e) ==
    /\ delayed' = delayed \ {e}
    /\ UNCHANGED <<pageVars, bridge, agentQueue, outbox, ingress, requests,
                   inflight, linkVars, serverVars, history>>

FromServer(type) ==
    /\ link # "down" /\ Len(agentQueue) < MaxPosted
    /\ toClient # <<>> /\ Head(toClient).type = type
    /\ toClient' = Tail(toClient)
    /\ UNCHANGED <<link, toServer>>

\* inflight_matches_ack.
Matching(ack) ==
    {f \in inflight : /\ f.key = ack.key /\ f.sequence = ack.sequence
                      /\ hash_answer_event(f) = ack.hash}

\* A bug the checks must catch: the page hears of the ACK although the outbox
\* did not take it.
ForwardedAlways(ack, durable, retired) == Matching(ack) # {}

\* "Never forward it to the browser": an ACK without its event in flight, or
\* one the outbox could not verify, ends here.
Forwarded(ack, durable, retired) == Matching(ack) # {} /\ (durable => retired)

\* The exam_answer_ack branch of handle_server_command.
HandleAck(written) ==
    /\ FromServer("ack")
    /\ LET ack == Head(toClient)
           durable == ack.status \in {"accepted", "duplicate"}
           r == acknowledge(outbox, SessionId[ack.key], ack.sequence, ack.hash)
           retired == durable /\ written /\ r.ok
       IN /\ outbox' = IF retired THEN r.image ELSE outbox
          /\ inflight' = inflight \ Matching(ack)
          /\ delayed' = IF retired THEN delayed \ Matching(ack)
                        ELSE delayed \cup Matching(ack)
          /\ agentQueue' = IF Forwarded(ack, durable, retired)
                           THEN Append(agentQueue, ack) ELSE agentQueue
    /\ UNCHANGED <<pageVars, bridge, ingress, requests, serverVars, typed>>

ServiceAck == HandleAck(TRUE) /\ UNCHANGED budget

ServiceAckUnwritten == HandleAck(FALSE) /\ Spend("faults")

\* State responses and exam commands are passed on.
ServiceForward(type) ==
    /\ FromServer(type)
    /\ agentQueue' = Append(agentQueue, Head(toClient))
    /\ UNCHANGED <<pageVars, bridge, serviceVars, serverVars, history>>

\* queue_exam_stop: older starts and stops are removed, the stop is last.
WithStop(queue) ==
    Append(Picked(queue, {i \in 1..Len(queue) : queue[i].type \notin {"start", "stop"}}),
           [type |-> "stop"])

\* The connection ends on the client's side: what was in flight is sent again,
\* and the exam is stopped.
SessionEnds ==
    /\ link # "down"
    /\ link' = "down"
    /\ toServer' = <<>> /\ toClient' = <<>>
    /\ inflight' = {} /\ delayed' = {}
    /\ agentQueue' = WithStop(agentQueue)
    /\ UNCHANGED <<pageVars, bridge, outbox, ingress, requests, serverVars, typed>>

LinkLost == link = "up" /\ SessionEnds /\ Spend("faults")

CutNoticed == link = "cut" /\ SessionEnds /\ UNCHANGED budget

\* The service ends and starts again; the agent stops the exam when the pipe
\* breaks.
ServiceRestart ==
    /\ Spend("faults")
    /\ link' = "down"
    /\ toServer' = <<>> /\ toClient' = <<>>
    /\ ingress' = <<>> /\ requests' = <<>> /\ inflight' = {} /\ delayed' = {}
    /\ bridge' = <<>>
    /\ agentQueue' = <<[type |-> "stop"]>>
    /\ UNCHANGED <<pageVars, outbox, serverVars, typed>>

----------------------------------------------------------------------------
(***************************************************************************)
(* The control plane and its journal.                                      *)
(***************************************************************************)
OfType(type) ==
    /\ link = "up" /\ Len(toClient) < MaxSent
    /\ toServer # <<>> /\ Head(toServer).type = type

Ack(e, status, hash) ==
    [type |-> "ack", key |-> e.key, status |-> status, sequence |-> e.sequence,
     hash |-> hash,
     highest |-> IF e.key \in DOMAIN journal THEN journal[e.key].highest ELSE 0]

\* A conflict is answered with the hash the journal has.
AckHash(e) ==
    LET s == SessionFor(journal, e) IN
    IF e.sequence \in DOMAIN s.event_hashes THEN s.event_hashes[e.sequence]
    ELSE hash_answer_event(e)

Reply(m) ==
    /\ toServer' = Tail(toServer)
    /\ toClient' = Append(toClient, m)
    /\ UNCHANGED link

Disconnects ==
    /\ link' = "cut"
    /\ toServer' = <<>>
    /\ UNCHANGED <<toClient, journal, journalOpen>>

\* process_exam_answer_event; the outcome of a journal without room for another
\* session has no ACK that could be encoded.
ServerEvent ==
    /\ OfType("event")
    /\ LET e == Head(toServer).event IN
       IF context # e.key THEN Disconnects
       ELSE IF ~journalOpen
       THEN /\ Reply([Ack(e, "unavailable", ZeroDigest) EXCEPT !.highest = 0])
            /\ UNCHANGED <<journal, journalOpen>>
       ELSE IF ~SessionQuotaLeft(journal, e) THEN Disconnects
       ELSE IF Verdict(journal, e) = "write"
       THEN /\ journal' = Indexed(journal, e)
            /\ Reply([Ack(e, "accepted", hash_answer_event(e))
                        EXCEPT !.highest = e.sequence])
            /\ UNCHANGED journalOpen
       ELSE /\ Reply(Ack(e, Verdict(journal, e), AckHash(e)))
            /\ UNCHANGED <<journal, journalOpen>>
    /\ UNCHANGED <<pageVars, bridge, agentQueue, serviceVars, context, history>>

\* The journal cannot be written and closes until the server starts again.
ServerEventUnwritten ==
    /\ OfType("event")
    /\ LET e == Head(toServer).event IN
       /\ context = e.key /\ journalOpen /\ Verdict(journal, e) = "write"
       /\ Reply(Ack(e, "unavailable", hash_answer_event(e)))
    /\ journalOpen' = FALSE
    /\ Spend("faults")
    /\ UNCHANGED <<pageVars, bridge, agentQueue, serviceVars, context, journal, typed>>

StateOf(k) ==
    IF k \in DOMAIN journal
    THEN [highest |-> journal[k].highest, last |-> journal[k].last,
          finalized |-> journal[k].finalized, answers |-> journal[k].answers]
    ELSE [highest |-> 0, last |-> ZeroDigest, finalized |-> FALSE, answers |-> <<>>]

\* process_exam_state_request.
ServerRequest ==
    /\ OfType("request")
    /\ LET k == Head(toServer).key IN
       IF context # k \/ ~journalOpen THEN Disconnects
       ELSE /\ Reply([type |-> "state", key |-> k, state |-> StateOf(k)])
            /\ UNCHANGED <<journal, journalOpen>>
    /\ UNCHANGED <<pageVars, bridge, agentQueue, serviceVars, context, history>>

\* The operator starts an exam on a connected client that has none.
StartExam(k) ==
    /\ link = "up" /\ context = NoExam
    /\ Spend("starts")
    /\ context' = k
    /\ toClient' = Append(toClient, [type |-> "start", key |-> k])
    /\ UNCHANGED <<pageVars, bridge, agentQueue, serviceVars, link, toServer,
                   journal, journalOpen, typed>>

\* The stop is sent to a connected client, whether or not it has an exam.
StopExam ==
    /\ link = "up"
    /\ Spend("stops")
    /\ context' = NoExam
    /\ toClient' = Append(toClient, [type |-> "stop"])
    /\ UNCHANGED <<pageVars, bridge, agentQueue, serviceVars, link, toServer,
                   journal, journalOpen, typed>>

\* The server ends and starts again: the journal is read back, the contexts
\* are gone.
ServerRestart ==
    /\ Spend("faults")
    /\ context' = NoExam
    /\ journalOpen' = TRUE
    /\ link' = IF link = "up" THEN "cut" ELSE link
    /\ toServer' = <<>>
    /\ UNCHANGED <<pageVars, bridge, agentQueue, serviceVars, toClient, journal, typed>>

----------------------------------------------------------------------------
Init ==
    /\ exam = NoExam
    /\ store = [k \in Keys |-> EmptyStore]
    /\ page = FreshPage
    /\ bridge = <<>> /\ agentQueue = <<>>
    /\ outbox = EmptyImage
    /\ ingress = <<>> /\ requests = <<>> /\ inflight = {} /\ delayed = {}
    /\ link = "down" /\ toServer = <<>> /\ toClient = <<>>
    /\ context = NoExam /\ journal = <<>> /\ journalOpen = TRUE
    /\ budget = [edits |-> MaxEdits, submits |-> MaxSubmits, starts |-> MaxStarts,
                 stops |-> MaxStops, faults |-> MaxFaults]
    /\ typed = [k \in Keys |-> [q \in Questions |-> NoAnswer]]

PageNext ==
    \/ EditTimer \/ RetryTimer \/ AckTimeout \/ SecondPasses
    \/ PageAck \/ PageState \/ PageStarts \/ PageStops

ServiceNext ==
    \/ ServiceEvent \/ ServiceRequest \/ Connect \/ SendRequest
    \/ \E e \in outbox.events : SendEvent(e)
    \/ \E e \in inflight : InflightTimeout(e)
    \/ \E e \in delayed : DelayPasses(e)
    \/ ServiceAck \/ CutNoticed
    \/ \E type \in {"state", "start", "stop"} : ServiceForward(type)

ServerNext == ServerEvent \/ ServerRequest

Users ==
    \/ \E q \in Questions, a \in Answers \cup {NoAnswer} : Type(q, a)
    \/ Submit \/ StopExam
    \/ \E k \in Keys : StartExam(k)

Faults ==
    \/ ServiceEventUnwritten \/ ServiceAckUnwritten \/ LinkLost \/ ServiceRestart
    \/ ServerEventUnwritten \/ ServerRestart

Next == PageNext \/ ServiceNext \/ ServerNext \/ Users \/ Faults

\* Timers fire, queues are polled and sockets served: every loop of the three
\* processes goes on.  Nothing is assumed of candidates, operators and faults.
Fairness ==
    /\ WF_vars(EditTimer) /\ WF_vars(RetryTimer) /\ WF_vars(AckTimeout)
    /\ WF_vars(SecondPasses)
    /\ SF_vars(PageAck \/ PageState \/ PageStarts \/ PageStops)
    /\ WF_vars(ServiceEvent \/ ServiceRequest)
    /\ WF_vars(Connect) /\ WF_vars(CutNoticed)
    /\ WF_vars(SendRequest) /\ SF_vars(\E e \in outbox.events : SendEvent(e))
    /\ WF_vars(\E e \in inflight : InflightTimeout(e))
    /\ WF_vars(\E e \in delayed : DelayPasses(e))
    /\ WF_vars(ServiceAck \/ \E type \in {"state", "start", "stop"} : ServiceForward(type))
    /\ WF_vars(ServerNext)

Spec == Init /\ [][Next]_vars /\ Fairness

----------------------------------------------------------------------------
\* The answer the journal holds for the question, NoAnswer when it holds none.
JournalAnswer(k, q) ==
    IF k \in DOMAIN journal /\ q \in DOMAIN journal[k].answers
    THEN journal[k].answers[q].answer ELSE NoAnswer

\* The last answer typed for a question is drafted in the browser's storage, or
\* numbered and pending there, or it is the answer the server's journal has:
\* lost and late acknowledgements, repeated events, state responses,
\* reconnects and restarts never drop it and never bring an older one back.
LatestAnswerKept ==
    \A k \in Keys, q \in Questions :
        LET s == store[k]
            pended == {i \in 1..Len(s.pending) : s.pending[i].question = q}
        IN IF DraftOf(s, q) # {}
           THEN \A i \in DraftOf(s, q) : s.drafts[i].answer = typed[k][q]
           ELSE IF pended # {}
           THEN \A i \in pended : s.pending[i].answer = typed[k][q]
           ELSE JournalAnswer(k, q) = typed[k][q]

\* A session the journal has finalized holds the last answer typed for every
\* question, and the page has no draft left: the finalize event cannot
\* overtake an answer.
FinalizedIsComplete ==
    \A k \in DOMAIN journal : journal[k].finalized =>
        /\ \A q \in Questions : JournalAnswer(k, q) = typed[k][q]
        /\ store[k].drafts = <<>>

\* A durable ACK on its way to the page is about an event that the journal has
\* and that the outbox has verified and no longer holds.
AckAfterRetirement ==
    \A i \in 1..Len(agentQueue) :
        LET m == agentQueue[i] IN
        m.type = "ack" /\ m.status \in {"accepted", "duplicate"} =>
            /\ m.sequence \in DOMAIN journal[m.key].event_hashes
            /\ journal[m.key].event_hashes[m.sequence] = m.hash
            /\ ~HasEvent(outbox, m.key, m.sequence)

\* As long as the browser's storage survives, the page never ends in the state
\* that needs manual review, whichever responses are late or repeated.
NoManualReview == ~page.conflict

Waiting(k) ==
    store[k].drafts # <<>> \/ store[k].pending # <<>> \/ store[k].finalize

\* While the exam is shown, whatever the candidate typed or submitted reaches
\* the journal, and the page learns of it, whatever is lost on the way.
AnswersArrive ==
    \A k \in Keys : exam = k ~> (~Waiting(k) \/ exam # k)

\* An event in the outbox is delivered while the server has its session active
\* and its journal open, also after the exam was stopped on the client.
OutboxDrains ==
    \A k \in Keys :
        context = k ~> (EventsOf(outbox, k) = {} \/ context # k \/ ~journalOpen)

\* An answer of a session that is over never ends the connection, and with it
\* the exam, of the session that is active: "This prevents a stale exam session
\* from blocking or contaminating a new session"
\* (docs/EXAM_ASSESSMENT.md:252).
StaleSessionNeverBlocks ==
    [][(/\ context # NoExam /\ context' = context /\ link = "up" /\ link' = "cut"
        /\ toServer # <<>> /\ Head(toServer).type = "event")
          => Head(toServer).key = context]_vars

\* An accepted ACK with the session, sequence, hash and contiguous watermark of
\* the first pending event retires it (docs/EXAM_ASSESSMENT.md:182).
ValidAck(ack) ==
    /\ ack.type = "ack" /\ ack.status = "accepted"
    /\ AckIsForHead(exam, store[exam], page, ack)
    /\ ack.sequence = store[exam].known + 1
    /\ ack.highest = ack.sequence

ValidAckRetires ==
    [][(/\ exam # NoExam /\ agentQueue # <<>>
        /\ agentQueue' = Tail(agentQueue) /\ ValidAck(Head(agentQueue)))
          => store'[exam].known = Head(agentQueue).sequence]_vars
=============================================================================
