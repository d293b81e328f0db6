----------------------------- MODULE ExamSession -----------------------------
(***************************************************************************)
(* The life of an exam on one student machine, from the teacher's start to *)
(* the end of the kiosk: the server's context (server/src/control_plane.cpp), *)
(* the control and pipe threads, the arm worker and the supervisor of the  *)
(* service (client/service/main.cpp), the pipe and UI threads of the agent *)
(* (client/agent/main.cpp), the host with its browser callbacks (ExamHost) *)
(* and the network block (ExamLockdown).                                   *)
(*                                                                         *)
(* Connections break, the agent, the service and the server die, Windows   *)
(* refuses calls and package files change.  MaxEvents bounds how many     *)
(* exams are started and how many failures happen, together.               *)
(***************************************************************************)
EXTENDS ExamHost

CONSTANTS
    MaxEvents,        \* exams the teacher starts and failures, together
    MaxCommands,      \* commands on their way to the client
    MaxAgentQueue     \* kMaximumQueuedAgentMessages

\* NoExam is not the number of a session.
ASSUME SessionAssumption ==
    /\ MaxEvents \in Nat /\ MaxCommands \in Nat /\ MaxAgentQueue \in Nat \ {0}
    /\ NoExam \notin 1 .. MaxEvents

Sessions == 1 .. MaxEvents

Threads == {"control", "pipe"}

VARIABLES
    ctx, next,                      \* server: active context, next session
    conn, down, outq,               \* control connection; commands; reports
    svc, pc, agentQ, worker, suppressed, lock,   \* the service
    pipe, agentLost,       \* the named pipe
    agent, agentOut, bridge, host, callbacks,           \* the agent
    package,                        \* the exam's files
    svcExam, everReady,             \* history: see the properties
    faults

serverVars == <<ctx, next>>
linkVars == <<conn, down, outq>>
serviceVars == <<svc, pc, agentQ, worker, suppressed, lock, svcExam>>
pipeVars == <<pipe, agentLost>>
agentVars == <<agent, agentOut, bridge, host, callbacks, everReady>>
vars == <<serverVars, linkVars, serviceVars, pipeVars, agentVars,
          package, faults>>

NoContext == [session |-> NoExam, ready |-> FALSE, begun |-> FALSE]

NoWorker == [stage |-> "none", token |-> NoExam]

Origin(ok, class) == [wellformed |-> ok, addresses |-> {class}]

\* Packages a teacher may deploy: sound ones and ones with a single defect.
Packages ==
    [defects : {{}}, origins : {{Origin(TRUE, "public")},
                                {Origin(TRUE, "loopback")},
                                {Origin(FALSE, "public")}}]
    \cup [defects : {{d} : d \in Defects}, origins : {{Origin(TRUE, "public")}}]

Init ==
    /\ ctx = NoContext /\ next = 1
    /\ conn = "up" /\ down = <<>> /\ outq = <<>>
    /\ svc = "up" /\ pc = [t \in Threads |-> "idle"]
    /\ agentQ = <<>> /\ worker = NoWorker /\ suppressed = FALSE
    /\ lock = new_controller(NoExam)
    /\ pipe = "up" /\ agentLost = FALSE
    /\ agent = "up" /\ agentOut = <<>> /\ bridge = new_bridge
    /\ host = new_host /\ callbacks = {}
    /\ package \in Packages
    /\ svcExam = NoExam /\ everReady = {}
    /\ faults = 0

WithinBudget == next - 1 + faults < MaxEvents

Fault == WithinBudget /\ faults' = faults + 1

-----------------------------------------------------------------------------
(* The server.                                                             *)

\* MaxCommands commands are under way at a time.
send_authenticated(command) ==
    /\ conn = "up" /\ Len(down) < MaxCommands
    /\ down' = Append(down, command)

\* One context per client; a session id is never used twice.  That the
\* client must have proved its protection is Classroom's subject.
start_exam ==
    /\ WithinBudget
    /\ ctx = NoContext
    /\ send_authenticated([type |-> "start", session |-> next])
    /\ ctx' = [NoContext EXCEPT !.session = next]
    /\ next' = next + 1
    /\ UNCHANGED <<conn, outq, serviceVars, pipeVars, agentVars, package, faults>>

begin_exam ==
    /\ ctx.ready /\ ~ctx.begun
    /\ send_authenticated([type |-> "begin", session |-> ctx.session])
    /\ ctx' = [ctx EXCEPT !.begun = TRUE]
    /\ UNCHANGED <<next, conn, outq, serviceVars, pipeVars, agentVars, package,
                   faults>>

\* The stop is sent first, the context removed only when that succeeded.
stop_exam ==
    /\ ctx # NoContext
    /\ send_authenticated([type |-> "stop", session |-> NoExam])
    /\ ctx' = NoContext
    /\ UNCHANGED <<next, conn, outq, serviceVars, pipeVars, agentVars, package,
                   faults>>

\* A report of another session than the active one costs the connection.
process_exam_ready ==
    /\ conn = "up" /\ outq # <<>>
    /\ outq' = Tail(outq)
    /\ IF ctx.session = Head(outq).session
       THEN ctx' = [ctx EXCEPT !.ready = TRUE] /\ UNCHANGED <<conn, down>>
       ELSE conn' = "cut" /\ down' = <<>> /\ UNCHANGED ctx
    /\ UNCHANGED <<next, serviceVars, pipeVars, agentVars, package, faults>>

-----------------------------------------------------------------------------
(* The service: the control thread dispatches commands, the pipe thread    *)
(* serves the agent; both call queue_exam_stop().                          *)

Steps(t, from, to) == svc = "up" /\ pc[t] = from /\ pc' = [pc EXCEPT ![t] = to]

\* At its limit the queue to the agent drops its oldest message.
queue_agent_message(q, m) == Append(IF Len(q) < MaxAgentQueue THEN q ELSE Tail(q), m)

\* The queue half of queue_exam_stop().
exam_stop_queued(q) ==
    queue_agent_message(SelectSeq(q, LAMBDA m : m.type \notin {"start", "begin", "stop"}),
                        [type |-> "stop", session |-> NoExam])

Command(type) ==
    /\ conn = "up" /\ down # <<>> /\ Head(down).type = type
    /\ down' = Tail(down)

handle_exam_start ==
    /\ Command("start")
    /\ Steps("control", "idle", "attempt")
    /\ agentQ' = queue_agent_message(agentQ, Head(down))
    /\ svcExam' = Head(down).session
    /\ UNCHANGED <<serverVars, conn, outq, svc, worker, suppressed, lock,
                   pipeVars, agentVars, package, faults>>

handle_exam_start_attempt ==
    /\ Steps("control", "attempt", "spawn")
    /\ lock' = begin_attempt(lock, svcExam)
    /\ UNCHANGED <<serverVars, linkVars, svc, agentQ, worker, suppressed, svcExam,
                   pipeVars, agentVars, package, faults>>

\* Assigning the jthread joins the previous worker on the control thread.
handle_exam_start_spawn ==
    /\ Steps("control", "spawn", "idle")
    /\ worker.stage = "none"
    /\ worker' = [stage |-> "verify", token |-> svcExam]
    /\ UNCHANGED <<serverVars, linkVars, svc, agentQ, suppressed, lock,
                   svcExam, pipeVars, agentVars, package, faults>>

handle_exam_stop ==
    /\ Command("stop")
    /\ Steps("control", "idle", "disarm")
    /\ agentQ' = exam_stop_queued(agentQ)
    /\ svcExam' = NoExam
    /\ UNCHANGED <<serverVars, conn, outq, svc, worker, suppressed, lock,
                   pipeVars, agentVars, package, faults>>

handle_exam_begin ==
    /\ Command("begin")
    /\ Steps("control", "idle", "idle")
    /\ agentQ' = queue_agent_message(agentQ, Head(down))
    /\ \/ \E within \in BOOLEAN : lock' = update_duration(lock, within)
       \/ UNCHANGED lock                                \* a duration of 0
    /\ UNCHANGED <<serverVars, conn, outq, svc, worker, suppressed, svcExam,
                   pipeVars, agentVars, package, faults>>

\* A bug the checks must catch: a lost connection leaves the exam running.
control_session_ended_keeping ==
    /\ conn = "cut"
    /\ Steps("control", "idle", "idle")
    /\ conn' = "down"
    /\ UNCHANGED <<serverVars, down, outq, agentQ, svcExam, svc, worker,
                   suppressed, lock, pipeVars, agentVars, package, faults>>

\* run_client_control_session() returned: the exam ends, fail closed.
control_session_ended ==
    /\ conn = "cut"
    /\ Steps("control", "idle", "disarm")
    /\ conn' = "down"
    /\ agentQ' = exam_stop_queued(agentQ)
    /\ svcExam' = NoExam
    /\ UNCHANGED <<serverVars, down, outq, svc, worker, suppressed, lock,
                   pipeVars, agentVars, package, faults>>

control_reconnected ==
    /\ conn = "down"
    /\ Steps("control", "idle", "idle")
    /\ conn' = "up"
    /\ UNCHANGED <<serverVars, down, outq, serviceVars, pipeVars, agentVars,
                   package, faults>>

\* The rest of queue_exam_stop(), on either thread: disarm() takes the
\* mutex, clears without it, takes it again; then the suppression ends.
disarm(t) ==
    /\ Steps(t, "disarm", IF lock.blocked THEN "clear" ELSE "idle")
    /\ lock' = disarm_locked(lock)
    /\ suppressed' = (suppressed /\ lock.blocked)
    /\ UNCHANGED <<serverVars, linkVars, svc, agentQ, worker, svcExam, pipeVars,
                   agentVars, package, faults>>

disarm_clear(t) ==
    /\ \/ /\ Steps(t, "clear", "record")
          /\ lock' = clear_filters(lock)
          /\ UNCHANGED <<suppressed, faults>>
       \/ /\ Steps(t, "clear", "idle")
          /\ Fault
          /\ suppressed' = FALSE
          /\ UNCHANGED lock
    /\ UNCHANGED <<serverVars, linkVars, svc, agentQ, worker, svcExam, pipeVars,
                   agentVars, package>>

disarm_record(t) ==
    /\ Steps(t, "record", "idle")
    /\ lock' = disarm_recorded(lock)
    /\ suppressed' = FALSE
    /\ UNCHANGED <<serverVars, linkVars, svc, agentQ, worker, svcExam, pipeVars,
                   agentVars, package, faults>>

\* run_exam_arm_worker(): the package is verified, its origins resolved, and
\* the controller armed if the attempt is still the current one.
exam_arm_worker ==
    /\ svc = "up" /\ worker.stage = "verify"
    /\ IF /\ inspect_exam_package(package)
          /\ may_arm(lock, worker.token,
                resolve_allowed_origins(extract_exam_lockdown_policy(package)))
       THEN /\ lock' = arm(lock, worker.token)
            /\ worker' = [worker EXCEPT !.stage = "armed"]
       ELSE worker' = NoWorker /\ UNCHANGED lock
    /\ UNCHANGED <<serverVars, linkVars, svc, pc, agentQ, suppressed,
                   svcExam, pipeVars, agentVars, package, faults>>

exam_arm_worker_suppression ==
    /\ svc = "up" /\ worker.stage = "armed"
    /\ suppressed' = TRUE
    /\ worker' = NoWorker
    /\ UNCHANGED <<serverVars, linkVars, svc, pc, agentQ, lock, svcExam,
                   pipeVars, agentVars, package, faults>>

\* agent_supervisor_loop(): reconcile the filters with the decision.
supervisor_tick ==
    /\ svc = "up"
    /\ lock' = tick(lock)
    /\ UNCHANGED <<serverVars, linkVars, svc, pc, agentQ, worker, suppressed,
                   svcExam, pipeVars, agentVars, package, faults>>

supervisor_tick_failed ==
    /\ svc = "up"
    /\ wants_apply(poll(lock)) \/ wants_clear(poll(lock))
    /\ \E opened \in BOOLEAN : lock' = tick_failed(lock, opened)
    /\ Fault
    /\ UNCHANGED <<serverVars, linkVars, svc, pc, agentQ, worker, suppressed,
                   svcExam, pipeVars, agentVars, package>>

\* The pipe thread writes what is queued; the agent's pipe thread hands
\* commands and page messages to the bridge.
pipe_write ==
    /\ svc = "up" /\ pipe = "up" /\ pc["pipe"] = "idle" /\ agentQ # <<>>
    /\ agentQ' = Tail(agentQ)
    /\ bridge' = IF Head(agentQ).type = "begin"
                 THEN publish(bridge, Head(agentQ))
                 ELSE publish_exam_command(bridge, Head(agentQ))
    /\ UNCHANGED <<serverVars, linkVars, svc, pc, worker, suppressed, lock, svcExam,
                   pipeVars, agent, agentOut, host, callbacks, everReady, package,
                   faults>>

\* It reads what the agent's queue holds.
pipe_read ==
    /\ svc = "up" /\ pipe = "up" /\ pc["pipe"] = "idle" /\ agentOut # <<>>
    /\ agentOut' = Tail(agentOut)
    /\ outq' = Append(outq, Head(agentOut))
    /\ UNCHANGED <<serverVars, conn, down, serviceVars, pipeVars, agent, bridge,
                   host, callbacks, everReady, package, faults>>

pipe_lost ==
    /\ pipe = "broken"
    /\ Steps("pipe", "idle", "disarm")
    /\ pipe' = "down"
    /\ agentQ' = exam_stop_queued(agentQ)
    /\ UNCHANGED <<serverVars, linkVars, svc, worker, suppressed, lock,
                   svcExam, agentLost, agentVars, package, faults>>

pipe_connected ==
    /\ svc = "up" /\ pipe = "down" /\ pc["pipe"] = "idle"
    /\ agent = "up" /\ ~agentLost
    /\ pipe' = "up"
    /\ UNCHANGED <<serverVars, linkVars, serviceVars, agentLost,
                   agentVars, package, faults>>

\* launch_agent() replaces an agent that is gone.
launch_agent ==
    /\ svc = "up" /\ agent = "dead" /\ pipe = "down"
    /\ agent' = "up"
    /\ UNCHANGED <<serverVars, linkVars, serviceVars, pipeVars, agentOut, bridge,
                   host, callbacks, everReady, package, faults>>

\* service_main(): memory is gone, the filters are swept or stay.
service_restarted ==
    /\ svc = "down"
    /\ svc' = "up"
    /\ \/ lock' = startup_sweep(lock)
       \/ lock.filters # NoExam /\ UNCHANGED lock      \* Windows refuses
    /\ UNCHANGED <<serverVars, linkVars, pc, agentQ, worker, suppressed,
                   svcExam, pipeVars, agentVars, package, faults>>

-----------------------------------------------------------------------------
(* The agent.                                                              *)

\* pipe_control_loop() stops the exam when it loses the service.
agent_pipe_lost ==
    /\ agent = "up" /\ agentLost
    /\ agentLost' = FALSE
    /\ bridge' = publish_exam_command(bridge, [type |-> "stop", session |-> NoExam])
    /\ UNCHANGED <<serverVars, linkVars, serviceVars, pipe, agent,
                   agentOut, host, callbacks, everReady, package, faults>>

Callback(kind, h) ==
    [kind |-> kind, generation |-> h.generation, session |-> h.session]

\* start_exam_from_command_ui() refuses before it touches the running host.
may_start(p) == validate_exam_path_policy(p) /\ validate_exam_user_data_path(p)

\* The UI thread takes a command; a start replaces what runs.
ui_exam_command ==
    /\ agent = "up" /\ bridge.commands # <<>>
    /\ LET command == Head(bridge.commands)
           started == host_start(host, command.session)
       IN \/ /\ command.type = "start"
             /\ may_start(package)
             /\ parse_manifest_and_context(package)
             /\ host' = started
             /\ callbacks' = callbacks \cup {Callback("created", started)}
          \/ /\ command.type = "start"
             /\ ~(may_start(package) /\ parse_manifest_and_context(package))
             /\ host' = IF may_start(package) THEN host_stop(started) ELSE host
             /\ UNCHANGED callbacks
          \/ /\ command.type = "stop"
             /\ host' = host_stop(host)
             /\ UNCHANGED callbacks
    /\ bridge' = clear_responses(try_pop_exam_command(bridge))
    /\ UNCHANGED <<serverVars, linkVars, serviceVars, pipeVars, agent, agentOut,
                   everReady, package, faults>>

\* The environment exists: its controller is asked for.  That either fails is a
\* case of host_fails.
on_environment_created(c) ==
    /\ c.kind = "created"
    /\ callbacks' = (callbacks \ {c}) \cup {Callback("controller", host)}
    /\ UNCHANGED <<host, agentOut, everReady, faults>>

\* The controller exists: read the package once more and send the browser to its
\* page, which it loads in a process of its own.
on_controller_created(c) ==
    /\ c.kind = "controller"
    /\ IF package_snapshot_is_current(package)
       THEN /\ host' = [host EXCEPT !.page = "checked"]
            /\ callbacks' = (callbacks \ {c})
                  \cup {Callback("navigated", host), Callback("page", host)}
       ELSE host' = host_failed(host) /\ callbacks' = callbacks \ {c}
    /\ UNCHANGED <<agentOut, everReady, faults>>

on_navigation_completed(c) ==
    /\ c.kind = "navigated"
    /\ \/ /\ \E page \in page_loaded(host, package) :
                host' = [host EXCEPT !.state = "running", !.webview_ready = TRUE, !.page = page]
          /\ UNCHANGED faults
       \/ host' = host_failed(host) /\ Fault
    /\ callbacks' = callbacks \ {c}
    /\ UNCHANGED <<agentOut, everReady>>

\* exam_ready of the page: the report names the host's own context, once.
on_web_message(c) ==
    /\ c.kind = "page"
    /\ callbacks' = callbacks \ {c}
    /\ everReady' = everReady \cup {c.session}
    /\ host' = [host EXCEPT !.ready_reported = TRUE]
    /\ agentOut' = IF host.ready_reported THEN agentOut
                   ELSE Append(agentOut, [type |-> "ready",
                                          session |-> host.session])
    /\ UNCHANGED faults

webview_callback(c) ==
    /\ agent = "up"
    /\ \/ /\ callback_is_current(host, c.generation)
          /\ \/ on_environment_created(c)
             \/ on_controller_created(c)
             \/ on_navigation_completed(c)
             \/ on_web_message(c)
       \/ /\ ~callback_is_current(host, c.generation)
          /\ callbacks' = callbacks \ {c}
          /\ UNCHANGED <<host, agentOut, everReady, faults>>
    /\ UNCHANGED <<serverVars, linkVars, serviceVars, pipeVars, agent, bridge,
                   package>>

\* on_process_failed(), or the watchdog of the initialization.
host_fails ==
    /\ agent = "up"
    /\ \/ exam_host_engaged(host) /\ Fault
       \/ host.state = "initializing" /\ UNCHANGED faults
    /\ host' = host_failed(host)
    /\ UNCHANGED <<serverVars, linkVars, serviceVars, pipeVars, agent, agentOut,
                   bridge, callbacks, everReady, package>>

\* The message a failure posts, or the technician's key chord.
host_stopped ==
    /\ agent = "up"
    /\ \/ host.state = "failed" /\ UNCHANGED faults
       \/ exam_host_engaged(host) /\ Fault
    /\ host' = host_stop(host)
    /\ bridge' = clear_responses(bridge)
    /\ UNCHANGED <<serverVars, linkVars, serviceVars, pipeVars, agent, agentOut,
                   callbacks, everReady, package>>

\* An exam_begin of the host's own exam releases the page.
drain_bridge ==
    /\ agent = "up" /\ host.webview_ready /\ bridge.messages # <<>>
    /\ bridge' = try_pop(bridge)
    /\ host' = [host EXCEPT !.begun =
                  @ \/ Head(bridge.messages).session = host.session]
    /\ UNCHANGED <<serverVars, linkVars, serviceVars, pipeVars, agent, agentOut,
                   callbacks, everReady, package, faults>>

\* Heartbeats reach the service: the host sends them and the pipe is up.
HostAlive == agent = "up" /\ pipe = "up" /\ sends_alive(host)

\* The alive timer: an exam_alive reaches the service while the pipe is up.
exam_alive ==
    /\ svc = "up" /\ HostAlive
    /\ lock' = heartbeat(lock)
    /\ UNCHANGED <<serverVars, linkVars, svc, pc, agentQ, worker, suppressed, svcExam,
                   pipeVars, agentVars, package, faults>>

-----------------------------------------------------------------------------
(* Time and failures.                                                      *)

\* 90 s without a heartbeat, against a timer of 10 s.
stale_window_elapsed ==
    /\ lock.fresh /\ ~HostAlive
    /\ lock' = [lock EXCEPT !.fresh = FALSE]
    /\ UNCHANGED <<serverVars, linkVars, svc, pc, agentQ, worker, suppressed,
                   svcExam, pipeVars, agentVars, package, faults>>

longest_duration_elapsed ==
    /\ lock.within /\ lock.armed /\ Fault
    /\ lock' = [lock EXCEPT !.within = FALSE]
    /\ UNCHANGED <<serverVars, linkVars, svc, pc, agentQ, worker, suppressed,
                   svcExam, pipeVars, agentVars, package>>

connection_lost ==
    /\ conn = "up" /\ Fault
    /\ conn' = "cut" /\ down' = <<>>
    /\ UNCHANGED <<serverVars, outq, serviceVars, pipeVars, agentVars, package>>

\* Contexts are in memory only.
server_crashed ==
    /\ Fault
    /\ ctx' = NoContext
    /\ conn' = IF conn = "up" THEN "cut" ELSE conn
    /\ down' = <<>>
    /\ UNCHANGED <<next, outq, serviceVars, pipeVars, agentVars, package>>

\* Messages the agent has written are lost, others wait for the next pipe.
pipe_broken ==
    /\ pipe = "up" /\ Fault
    /\ pipe' = "broken" /\ agentLost' = TRUE
    /\ agentOut' \in {agentOut, <<>>}
    /\ UNCHANGED <<serverVars, linkVars, serviceVars, agent, bridge, host,
                   callbacks, everReady, package>>

agent_died ==
    /\ agent = "up" /\ Fault
    /\ agent' = "dead"
    /\ pipe' = IF pipe = "up" THEN "broken" ELSE pipe
    /\ agentLost' = FALSE
    /\ agentOut' = <<>> /\ bridge' = new_bridge
    /\ host' = new_host /\ callbacks' = {}
    /\ UNCHANGED <<serverVars, linkVars, serviceVars, everReady, package>>

\* The filters are not removed with the process that added them.
service_crashed ==
    /\ svc = "up" /\ Fault
    /\ svc' = "down"
    /\ pc' = [t \in Threads |-> "idle"]
    /\ agentQ' = <<>> /\ outq' = <<>> /\ down' = <<>>
    /\ worker' = NoWorker /\ suppressed' = FALSE
    /\ lock' = new_controller(lock.filters)
    /\ svcExam' = NoExam
    /\ conn' = "down"
    /\ pipe' = "down"
    /\ agentLost' = (agent = "up" /\ (agentLost \/ pipe = "up"))
    /\ UNCHANGED <<serverVars, agentVars, package>>

package_changed ==
    /\ Fault
    /\ package' = [package EXCEPT !.defects = @ \cup {"digest"}]
    /\ host' = [host EXCEPT !.late = host.page # "none"]
    /\ UNCHANGED <<serverVars, linkVars, serviceVars, pipeVars, agent, agentOut,
                   bridge, callbacks, everReady>>

-----------------------------------------------------------------------------
Next ==
    \/ start_exam \/ begin_exam \/ stop_exam \/ process_exam_ready
    \/ handle_exam_start \/ handle_exam_start_attempt \/ handle_exam_start_spawn
    \/ handle_exam_stop \/ handle_exam_begin
    \/ control_session_ended \/ control_reconnected
    \/ \E t \in Threads : disarm(t) \/ disarm_clear(t) \/ disarm_record(t)
    \/ exam_arm_worker \/ exam_arm_worker_suppression
    \/ supervisor_tick \/ supervisor_tick_failed
    \/ pipe_write \/ pipe_read \/ pipe_lost \/ pipe_connected
    \/ launch_agent \/ service_restarted
    \/ agent_pipe_lost \/ ui_exam_command
    \/ \E c \in callbacks : webview_callback(c)
    \/ host_fails \/ host_stopped \/ drain_bridge \/ exam_alive
    \/ stale_window_elapsed \/ longest_duration_elapsed
    \/ connection_lost \/ server_crashed \/ pipe_broken \/ agent_died
    \/ service_crashed \/ package_changed

\* Threads that are not blocked go on: the control and pipe threads, the
\* supervisor, the agent's threads; a window that can elapse does; the
\* service control manager restarts the service.
Fairness ==
    /\ WF_vars(handle_exam_start \/ handle_exam_stop \/ handle_exam_begin)
    /\ WF_vars(handle_exam_start_attempt) /\ WF_vars(handle_exam_start_spawn)
    /\ WF_vars(control_session_ended)
    /\ \A t \in Threads : WF_vars(disarm(t) \/ disarm_clear(t) \/ disarm_record(t))
    /\ WF_vars(exam_arm_worker \/ exam_arm_worker_suppression)
    /\ WF_vars(supervisor_tick)
    /\ WF_vars(pipe_write) /\ WF_vars(pipe_read) /\ WF_vars(pipe_lost)
    /\ WF_vars(pipe_connected) /\ WF_vars(service_restarted)
    /\ WF_vars(agent_pipe_lost)
    /\ WF_vars(ui_exam_command)
    /\ WF_vars(stale_window_elapsed)

Spec == Init /\ [][Next]_vars /\ Fairness

-----------------------------------------------------------------------------
(* Properties.                                                             *)

\* The server releases the questions only to a page that said it was ready:
\* readiness in the context (process_exam_ready) means the page of that very
\* session reported it, not a late browser callback of an earlier exam.
ReadyIsReal == ctx.ready => ctx.session \in everReady

\* Once the control thread has carried out a stop, the network block is not
\* armed for that exam any more, however slow the worker that verifies its
\* package was: the token of begin_attempt() is out of date.
StopWins ==
    pc["control"] = "idle" /\ lock.armed => lock.config = svcExam

\* A page made of altered files is on the screen only when they were altered after
\* the host's own check, while the browser was loading them: a change between the
\* check of the start and the callbacks of the browser, however late these come,
\* ends the exam instead (package_snapshot_is_current(), which leaves the rest of
\* the gap to the deployment).
AlteredOnlyLate == host.page = "altered" => host.late

\* The block of a machine without a living exam host is lifted, whatever
\* stopped or died, as long as the controller knows that it is up.
NetworkReleased ==
    lock.filters # NoExam /\ lock.blocked /\ ~HostAlive
        ~> lock.filters = NoExam \/ ~lock.blocked \/ HostAlive

\* An exam the server has no context of any more (it was stopped, or the
\* server restarted) leaves the student's screen.
ExamEnds ==
    \A s \in Sessions :
        (exam_host_engaged(host) /\ host.session = s /\ ctx.session # s)
            ~> ~(exam_host_engaged(host) /\ host.session = s)

=============================================================================
