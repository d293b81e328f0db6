------------------------- MODULE ExamSessionProofs --------------------------
(***************************************************************************)
(* Proofs about ExamSession for any number of exams, failures and commands *)
(* under way: a context is ready only when the page of its own session     *)
(* said so, a stop that the control thread carried out is not undone by a  *)
(* worker that was slow, and a change of the exam's files reaches the page  *)
(* only after the host's own check of them.                                *)
(***************************************************************************)
EXTENDS ExamSession, SequenceTheorems, TLAPS

\* A session id, or none.
Exams == Sessions \cup {NoExam}

\* What the server sends.
Orders == [type : {"start", "begin", "stop"}, session : Exams]

\* The reports of pages that were ready.
Readies == [type : {"ready"}, session : everReady]

\* A host: its generation is its session's.
IsHost(h) ==
    h \in [state : {"idle", "initializing", "running", "failed"},
           generation : {h.session}, session : {h.session}, webview_ready : BOOLEAN,
           ready_reported : BOOLEAN, page : {"none", "checked", "verified", "altered"},
           late : BOOLEAN, begun : BOOLEAN]

\* Readiness travels from the page over the host, the agent's queue and the
\* service's queue into the context, always under the session it is about.
ReadyOK ==
    /\ IsHost(host)
    /\ \A c \in callbacks : c.generation = c.session
    /\ agentOut \in Seq(Readies) /\ outq \in Seq(Readies)
    /\ ctx \in [session : {ctx.session}, ready : BOOLEAN, begun : BOOLEAN]
    /\ ctx.ready => ctx.session \in everReady

\* The files p of a page that was checked are as they were, or have changed late.
PageSound(h, p) ==
    /\ h.page # "none" /\ ~h.late => inspect_exam_package(p)
    /\ h.page = "altered" => h.late

\* The page of the host.
PageOK == PageSound(host, package)

\* Nothing runs once the orders q are carried out where exam x runs.
Closed(x, q) ==
    \/ \E k \in 1..Len(q) : q[k].type = "stop" /\ \A j \in k..Len(q) : q[j].type # "start"
    \/ x = NoExam /\ \A j \in 1..Len(q) : q[j].type # "start"

\* A start in q finds nothing running.
Alternate(x, q) ==
    \A j \in 1..Len(q) : q[j].type = "start" =>
        /\ q[j].session # NoExam
        /\ \/ \E k \in 1..(j - 1) : q[k].type = "stop" /\ \A i \in k..(j - 1) : q[i].type # "start"
           \/ x = NoExam /\ \A i \in 1..(j - 1) : q[i].type # "start"

\* The orders on their way to the control thread.
OrdersOK ==
    /\ next \in Nat \ {0} /\ faults \in Nat
    /\ ctx.session \in Exams
    /\ down \in Seq(Orders) /\ svcExam \in Exams
    /\ conn \in {"up", "cut", "down"}
    /\ conn # "up" => down = <<>>
    /\ conn = "down" => svcExam = NoExam
    /\ conn = "up" => Alternate(svcExam, down) /\ (ctx = NoContext => Closed(svcExam, down))

\* The controller's memory.
Controllers ==
    [epoch : Exams, armed : BOOLEAN, desired : BOOLEAN, applied : BOOLEAN, config : Exams,
     fresh : BOOLEAN, within : BOOLEAN, blocked : BOOLEAN, retries : Nat, gave_up : BOOLEAN,
     filters : Exams]

\* The newest token is the running exam's or nobody's, and so is the block's
\* configuration, except while the control thread is about to disarm.
BlockOK ==
    /\ pc \in [Threads -> {"idle", "attempt", "spawn", "disarm", "clear", "record"}]
    /\ lock \in Controllers
    /\ worker \in [stage : {"none", "verify", "armed"}, token : Exams]
    /\ worker.stage = "verify" => worker.token # NoExam
    /\ lock.armed => lock.config # NoExam
    /\ pc["control"] # "disarm" => /\ lock.epoch \in {NoExam, svcExam}
                                   /\ lock.armed => lock.config = svcExam
    /\ pc["control"] \in {"disarm", "clear", "record"} => svcExam = NoExam
    /\ pc["control"] \in {"attempt", "spawn"} => svcExam # NoExam
    /\ pc["control"] = "attempt" => lock.epoch = NoExam /\ ~lock.armed

\* The inductive invariant.
SessionIInv == ReadyOK /\ PageOK /\ OrdersOK /\ BlockOK

-----------------------------------------------------------------------------
(* Readiness.                                                               *)

\* A queue of reports stays one while more pages become ready.
LEMMA SeqGrows ==
  ASSUME NEW S, NEW T, S \subseteq T, NEW q \in Seq(S)
  PROVE  q \in Seq(T)
  OBVIOUS

\* Queues of reports: what is taken, added and lost.
LEMMA ReportQueue ==
  ASSUME NEW S, NEW q \in Seq(S)
  PROVE  /\ <<>> \in Seq(S)
         /\ q # <<>> => Head(q) \in S /\ Tail(q) \in Seq(S)
         /\ \A m \in S : Append(q, m) \in Seq(S)
  OBVIOUS

\* What the operations of the host leave of it.
LEMMA HostOperations ==
  ASSUME NEW h, IsHost(h), NEW s
  PROVE  /\ IsHost(new_host) /\ IsHost(host_stop(h)) /\ IsHost(host_failed(h))
         /\ IsHost(host_start(h, s)) /\ host_start(h, s).generation = host_start(h, s).session
         /\ IsHost([h EXCEPT !.page = "checked"])
         /\ \A page \in {"none", "checked", "verified", "altered"} :
               IsHost([h EXCEPT !.state = "running", !.webview_ready = TRUE, !.page = page])
         /\ \A b \in BOOLEAN : IsHost([h EXCEPT !.late = b])
         /\ IsHost([h EXCEPT !.ready_reported = TRUE])
         /\ \A b \in BOOLEAN : IsHost([h EXCEPT !.begun = b])
  <1>1. IsHost(new_host) /\ IsHost(host_stop(h))
    BY DEF new_host, host_stop, IsHost
  <1>2. IsHost(host_failed(h))
    BY DEF host_failed, IsHost
  <1>3. IsHost(host_start(h, s)) /\ host_start(h, s).generation = host_start(h, s).session
    BY DEF host_start, host_stop, new_host, IsHost
  <1>4. IsHost([h EXCEPT !.page = "checked"])
    BY DEF IsHost
  <1>5. \A page \in {"none", "checked", "verified", "altered"} :
           IsHost([h EXCEPT !.state = "running", !.webview_ready = TRUE, !.page = page])
    BY DEF IsHost
  <1>8. \A b \in BOOLEAN : IsHost([h EXCEPT !.late = b])
    BY DEF IsHost
  <1>6. IsHost([h EXCEPT !.ready_reported = TRUE])
    BY DEF IsHost
  <1>7. \A b \in BOOLEAN : IsHost([h EXCEPT !.begun = b])
    BY DEF IsHost
  <1> QED
    BY <1>1, <1>2, <1>3, <1>4, <1>5, <1>6, <1>7, <1>8

\* Steps that touch no report, no page and no readiness.
LEMMA ReadyKept ==
  ASSUME ReadyOK, UNCHANGED <<host, callbacks, agentOut, outq, everReady>>,
         ctx' = ctx \/ ctx' = NoContext \/ (\E s : ctx' = [NoContext EXCEPT !.session = s])
             \/ ctx' = [ctx EXCEPT !.begun = TRUE]
  PROVE  ReadyOK'
  <1>1. /\ ctx' \in [session : {ctx'.session}, ready : BOOLEAN, begun : BOOLEAN]
        /\ ctx'.ready => ctx'.session \in everReady
    <2>1. CASE ctx' = ctx
      BY <2>1 DEF ReadyOK
    <2>2. CASE ctx' = NoContext
      BY <2>2 DEF NoContext
    <2>3. CASE \E s : ctx' = [NoContext EXCEPT !.session = s]
      <3>1. PICK s : ctx' = [NoContext EXCEPT !.session = s]
        BY <2>3
      <3> QED
        BY <3>1 DEF NoContext
    <2>4. CASE ctx' = [ctx EXCEPT !.begun = TRUE]
      BY <2>4 DEF ReadyOK
    <2> QED
      BY <2>1, <2>2, <2>3, <2>4
  <1> QED
    BY <1>1 DEF ReadyOK, Readies

\* The reports of the page and what the host does.
LEMMA ReadyStep ==
  ASSUME ReadyOK, Next
  PROVE  ReadyOK'
  <1>1. CASE start_exam \/ begin_exam \/ stop_exam
    BY <1>1, ReadyKept DEF start_exam, begin_exam, stop_exam, agentVars
  <1>2. CASE server_crashed
    BY <1>2, ReadyKept DEF server_crashed, agentVars
  <1>3. CASE process_exam_ready
    <2>1. /\ outq # <<>> /\ outq' = Tail(outq)
          /\ UNCHANGED <<host, callbacks, agentOut, everReady>>
          /\ ctx' = ctx \/ (ctx.session = Head(outq).session /\ ctx' = [ctx EXCEPT !.ready = TRUE])
      BY <1>3 DEF process_exam_ready, agentVars
    <2>2. Head(outq) \in Readies /\ Tail(outq) \in Seq(Readies)
      BY <2>1, ReportQueue DEF ReadyOK
    <2>3. /\ ctx' \in [session : {ctx'.session}, ready : BOOLEAN, begun : BOOLEAN]
          /\ ctx'.ready => ctx'.session \in everReady
      BY <2>1, <2>2 DEF ReadyOK, Readies
    <2> QED
      BY <2>1, <2>2, <2>3 DEF ReadyOK, Readies
  <1>4. CASE \/ handle_exam_start \/ handle_exam_start_attempt \/ handle_exam_start_spawn
             \/ handle_exam_stop \/ handle_exam_begin \/ control_session_ended
             \/ control_reconnected
             \/ exam_arm_worker \/ exam_arm_worker_suppression
             \/ supervisor_tick \/ supervisor_tick_failed
    BY <1>4, ReadyKept DEF handle_exam_start, handle_exam_start_attempt, handle_exam_start_spawn,
         handle_exam_stop, handle_exam_begin, control_session_ended, control_reconnected,
         exam_arm_worker, exam_arm_worker_suppression, supervisor_tick, supervisor_tick_failed,
         agentVars, serverVars, linkVars
  <1>5. CASE \E t \in Threads : disarm(t) \/ disarm_clear(t) \/ disarm_record(t)
    BY <1>5, ReadyKept DEF disarm, disarm_clear, disarm_record, agentVars, serverVars, linkVars
  <1>6. CASE \/ pipe_write \/ pipe_lost \/ pipe_connected \/ launch_agent \/ service_restarted
             \/ agent_pipe_lost \/ exam_alive \/ stale_window_elapsed
             \/ longest_duration_elapsed \/ connection_lost
    BY <1>6, ReadyKept DEF pipe_write, pipe_lost, pipe_connected, launch_agent, service_restarted,
         agent_pipe_lost, exam_alive, stale_window_elapsed, longest_duration_elapsed,
         connection_lost, agentVars, serverVars, linkVars
  <1>7. CASE pipe_read
    <2>1. /\ agentOut # <<>> /\ agentOut' = Tail(agentOut) /\ outq' = Append(outq, Head(agentOut))
          /\ UNCHANGED <<host, callbacks, everReady, ctx>>
      BY <1>7 DEF pipe_read, serverVars
    <2>2. Tail(agentOut) \in Seq(Readies) /\ Append(outq, Head(agentOut)) \in Seq(Readies)
      BY <2>1, ReportQueue DEF ReadyOK
    <2> QED
      BY <2>1, <2>2 DEF ReadyOK, Readies
  <1>8. CASE ui_exam_command
    <2>1. /\ UNCHANGED <<agentOut, outq, ctx, everReady>>
          /\ \E s : /\ host' \in {host, host_start(host, s), host_stop(host_start(host, s)),
                                  host_stop(host)}
                    /\ callbacks' \in {callbacks,
                                       callbacks \cup {Callback("created", host_start(host, s))}}
      BY <1>8 DEF ui_exam_command, serverVars, linkVars
    <2>2. PICK s : /\ host' \in {host, host_start(host, s), host_stop(host_start(host, s)),
                                 host_stop(host)}
                   /\ callbacks' \in {callbacks,
                                      callbacks \cup {Callback("created", host_start(host, s))}}
      BY <2>1
    <2>3. IsHost(host) /\ IsHost(host_start(host, s))
      BY HostOperations DEF ReadyOK
    <2>4. IsHost(host')
      BY <2>2, <2>3, HostOperations
    <2>5. \A c \in callbacks' : c.generation = c.session
      <3>1. host_start(host, s).generation = host_start(host, s).session
        BY <2>3, HostOperations
      <3>2. LET c == Callback("created", host_start(host, s)) IN c.generation = c.session
        BY <3>1 DEF Callback
      <3> QED
        BY <2>2, <3>2 DEF ReadyOK
    <2> QED
      BY <2>1, <2>4, <2>5 DEF ReadyOK, Readies
  <1>9. CASE \E c \in callbacks : webview_callback(c)
    <2>1. PICK c \in callbacks : webview_callback(c)
      BY <1>9
    <2>2. UNCHANGED <<outq, ctx>>
      BY <2>1 DEF webview_callback, serverVars, linkVars
    <2>3. CASE ~callback_is_current(host, c.generation)
      <3>1. callbacks' = callbacks \ {c} /\ UNCHANGED <<host, agentOut, everReady>>
        BY <2>1, <2>3 DEF webview_callback
      <3> QED
        BY <2>2, <3>1 DEF ReadyOK, Readies
    <2>4. CASE callback_is_current(host, c.generation)
      <3>0. IsHost(host) /\ c.generation = host.generation /\ c.session = host.session
        BY <2>4 DEF callback_is_current, ReadyOK, IsHost
      <3>1. CASE on_environment_created(c)
        <4>1. /\ UNCHANGED <<host, agentOut, everReady>>
              /\ callbacks' = (callbacks \ {c}) \cup {Callback("controller", host)}
          BY <3>1 DEF on_environment_created
        <4>2. \A d \in callbacks' : d.generation = d.session
          BY <3>0, <4>1 DEF ReadyOK, Callback, IsHost
        <4> QED
          BY <2>2, <4>1, <4>2 DEF ReadyOK, Readies
      <3>4. CASE on_controller_created(c)
        <4>1. UNCHANGED <<agentOut, everReady>>
          BY <3>4 DEF on_controller_created
        <4>2. CASE package_snapshot_is_current(package)
          <5>1. /\ host' = [host EXCEPT !.page = "checked"]
                /\ callbacks' = (callbacks \ {c})
                      \cup {Callback("navigated", host), Callback("page", host)}
            BY <3>4, <4>2 DEF on_controller_created
          <5>2. IsHost(host')
            BY <3>0, <5>1, HostOperations
          <5>3. \A d \in callbacks' : d.generation = d.session
            BY <3>0, <5>1 DEF ReadyOK, Callback, IsHost
          <5> QED
            BY <2>2, <4>1, <5>1, <5>2, <5>3 DEF ReadyOK, Readies
        <4>3. CASE ~package_snapshot_is_current(package)
          <5>1. host' = host_failed(host) /\ callbacks' = callbacks \ {c}
            BY <3>4, <4>3 DEF on_controller_created
          <5> QED
            BY <2>2, <3>0, <4>1, <5>1, HostOperations DEF ReadyOK, Readies
        <4> QED
          BY <4>2, <4>3
      <3>2. CASE on_navigation_completed(c)
        <4>1. /\ UNCHANGED <<agentOut, everReady>> /\ callbacks' = callbacks \ {c}
              /\ \/ \E page \in {"none", "checked", "verified", "altered"} :
                       host' = [host EXCEPT !.state = "running", !.webview_ready = TRUE,
                                            !.page = page]
                 \/ host' = host_failed(host)
          BY <3>2 DEF on_navigation_completed, page_loaded
        <4>2. IsHost(host')
          <5>1. CASE host' = host_failed(host)
            BY <3>0, <5>1, HostOperations
          <5>2. CASE \E page \in {"none", "checked", "verified", "altered"} :
                       host' = [host EXCEPT !.state = "running", !.webview_ready = TRUE,
                                            !.page = page]
            <6>1. PICK page \in {"none", "checked", "verified", "altered"} :
                       host' = [host EXCEPT !.state = "running", !.webview_ready = TRUE,
                                            !.page = page]
              BY <5>2
            <6> QED
              BY <3>0, <6>1 DEF IsHost
          <5> QED
            BY <4>1, <5>1, <5>2
        <4> QED
          BY <2>2, <4>1, <4>2 DEF ReadyOK, Readies
      <3>3. CASE on_web_message(c)
        <4>1. /\ callbacks' = callbacks \ {c} /\ everReady' = everReady \cup {host.session}
              /\ host' = [host EXCEPT !.ready_reported = TRUE]
              /\ agentOut' \in {agentOut, Append(agentOut, [type |-> "ready",
                                                            session |-> host.session])}
          BY <3>0, <3>3 DEF on_web_message
        <4>2. IsHost(host')
          BY <3>0, <4>1, HostOperations
        <4>3. Readies \subseteq Readies' /\ [type |-> "ready", session |-> host.session] \in Readies'
          BY <4>1 DEF Readies
        <4>4. agentOut \in Seq(Readies') /\ outq \in Seq(Readies')
          BY <4>3, SeqGrows DEF ReadyOK
        <4>5. agentOut' \in Seq(Readies')
          BY <4>1, <4>3, <4>4, ReportQueue
        <4>6. everReady \subseteq everReady'
          BY <4>1
        <4> QED
          BY <2>2, <4>1, <4>2, <4>4, <4>5, <4>6 DEF ReadyOK
      <3> QED
        BY <2>1, <2>4, <3>1, <3>2, <3>3, <3>4 DEF webview_callback
    <2> QED
      BY <2>3, <2>4
  <1>10. CASE host_fails \/ host_stopped \/ drain_bridge
    <2>1. /\ UNCHANGED <<agentOut, outq, ctx, everReady, callbacks>>
          /\ \/ host' = host_failed(host) \/ host' = host_stop(host)
             \/ \E b \in BOOLEAN : host' = [host EXCEPT !.begun = b]
      BY <1>10 DEF ReadyOK, IsHost, host_fails, host_stopped, drain_bridge, serverVars, linkVars
    <2>2. IsHost(host')
      <3>1. IsHost(host)
        BY DEF ReadyOK
      <3>2. CASE host' = host_failed(host) \/ host' = host_stop(host)
        BY <3>1, <3>2, HostOperations
      <3>3. CASE \E b \in BOOLEAN : host' = [host EXCEPT !.begun = b]
        <4>1. PICK b \in BOOLEAN : host' = [host EXCEPT !.begun = b]
          BY <3>3
        <4>2. IsHost([host EXCEPT !.begun = b])
          BY <3>1, HostOperations
        <4> QED
          BY <4>1, <4>2
      <3> QED
        BY <2>1, <3>2, <3>3
    <2> QED
      BY <2>1, <2>2 DEF ReadyOK, Readies
  <1>11. CASE pipe_broken
    <2>1. /\ agentOut' \in {agentOut, <<>>} /\ UNCHANGED <<outq, ctx, everReady, host, callbacks>>
      BY <1>11 DEF pipe_broken, serverVars, linkVars
    <2> QED
      BY <2>1, ReportQueue DEF ReadyOK, Readies
  <1>12. CASE agent_died
    <2>1. /\ agentOut' = <<>> /\ host' = new_host /\ callbacks' = {}
          /\ UNCHANGED <<outq, ctx, everReady>>
      BY <1>12 DEF agent_died, serverVars, linkVars
    <2> QED
      BY <2>1, ReportQueue, HostOperations DEF ReadyOK, Readies
  <1>13. CASE service_crashed
    <2>1. outq' = <<>> /\ UNCHANGED <<agentOut, ctx, everReady, host, callbacks>>
      BY <1>13 DEF service_crashed, serverVars, agentVars
    <2> QED
      BY <2>1, ReportQueue DEF ReadyOK, Readies
  <1>14. CASE package_changed
    <2>1. /\ UNCHANGED <<outq, ctx, agentOut, everReady, callbacks>>
          /\ \E b \in BOOLEAN : host' = [host EXCEPT !.late = b]
      BY <1>14 DEF package_changed, serverVars, linkVars
    <2>2. IsHost(host')
      <3>1. PICK b \in BOOLEAN : host' = [host EXCEPT !.late = b]
        BY <2>1
      <3> QED
        BY <3>1 DEF ReadyOK, IsHost
    <2> QED
      BY <2>1, <2>2 DEF ReadyOK, Readies
  <1> QED
    BY <1>1, <1>2, <1>3, <1>4, <1>5, <1>6, <1>7, <1>8, <1>9, <1>10, <1>11, <1>12, <1>13, <1>14
       DEF Next

-----------------------------------------------------------------------------
(* The page.                                                                *)

\* A host without a page, and one that keeps its page.
LEMMA PageKept ==
  ASSUME NEW h, IsHost(h), NEW p, PageSound(h, p), NEW s
  PROVE  /\ PageSound(new_host, p) /\ PageSound(host_stop(h), p)
         /\ PageSound(host_start(h, s), p) /\ PageSound(host_stop(host_start(h, s)), p)
         /\ PageSound(host_failed(h), p)
         /\ PageSound([h EXCEPT !.ready_reported = TRUE], p)
         /\ \A b : PageSound([h EXCEPT !.begun = b], p)
  <1>1. PageSound(new_host, p)
    BY DEF PageSound, new_host
  <1>2. PageSound(host_start(h, s), p)
    BY DEF PageSound, host_start, host_stop, new_host
  <1>3. PageSound(host_failed(h), p)
    BY DEF PageSound, host_failed, IsHost
  <1>4. PageSound([h EXCEPT !.ready_reported = TRUE], p)
    BY DEF PageSound, IsHost
  <1>5. \A b : PageSound([h EXCEPT !.begun = b], p)
    BY DEF PageSound, IsHost
  <1> QED
    BY <1>1, <1>2, <1>3, <1>4, <1>5 DEF host_stop

\* on_controller_created() reads the files again; after it only a late change is
\* on the page.
LEMMA PageStep ==
  ASSUME ReadyOK, PageOK, Next
  PROVE  PageOK'
  <1>0. IsHost(host) /\ PageSound(host, package)
    BY DEF ReadyOK, PageOK
  <1>1. CASE UNCHANGED <<host, package>>
    BY <1>1 DEF PageOK
  <1>2. CASE ui_exam_command
    <2>1. /\ UNCHANGED package
          /\ \E s : host' \in {host, host_start(host, s), host_stop(host_start(host, s)),
                              host_stop(host)}
      BY <1>2 DEF ui_exam_command
    <2>2. PageSound(host', package)
      BY <1>0, <2>1, PageKept
    <2> QED
      BY <2>1, <2>2 DEF PageOK
  <1>3. CASE \E c \in callbacks : webview_callback(c)
    <2>1. PICK c \in callbacks : webview_callback(c)
      BY <1>3
    <2>2. UNCHANGED package
      BY <2>1 DEF webview_callback
    <2>3. \/ UNCHANGED host \/ on_controller_created(c) \/ on_navigation_completed(c)
          \/ on_web_message(c)
      BY <2>1 DEF webview_callback, on_environment_created
    <2>4. CASE on_controller_created(c)
      <3>1. CASE package_snapshot_is_current(package)
        <4>1. host' = [host EXCEPT !.page = "checked"] /\ inspect_exam_package(package)
          BY <2>4, <3>1 DEF on_controller_created, package_snapshot_is_current
        <4>2. host'.page = "checked"
          BY <1>0, <4>1 DEF IsHost
        <4>3. PageSound(host', package)
          BY <4>1, <4>2 DEF PageSound
        <4> QED
          BY <2>2, <4>3 DEF PageOK
      <3>2. CASE ~package_snapshot_is_current(package)
        <4>1. host' = host_failed(host)
          BY <2>4, <3>2 DEF on_controller_created
        <4> QED
          BY <1>0, <2>2, <4>1, PageKept DEF PageOK
      <3> QED
        BY <3>1, <3>2
    <2>5. CASE on_navigation_completed(c)
      <3>1. CASE host' = host_failed(host)
        BY <1>0, <2>2, <3>1, PageKept DEF PageOK
      <3>2. CASE \E page \in page_loaded(host, package) :
                   host' = [host EXCEPT !.state = "running", !.webview_ready = TRUE, !.page = page]
        <4>1. PICK page \in page_loaded(host, package) :
                 host' = [host EXCEPT !.state = "running", !.webview_ready = TRUE, !.page = page]
          BY <3>2
        <4>2. host'.page = page /\ host'.late = host.late
          BY <1>0, <4>1 DEF IsHost
        <4>3. /\ page # "none" => host.page # "none"
              /\ page = "altered" => ~inspect_exam_package(package)
          BY DEF page_loaded
        <4>4. PageSound(host', package)
          BY <1>0, <4>2, <4>3 DEF PageSound
        <4> QED
          BY <2>2, <4>4 DEF PageOK
      <3> QED
        BY <2>5, <3>1, <3>2 DEF on_navigation_completed
    <2>6. CASE on_web_message(c)
      <3>1. host' = [host EXCEPT !.ready_reported = TRUE]
        BY <2>6 DEF on_web_message
      <3> QED
        BY <1>0, <2>2, <3>1, PageKept DEF PageOK
    <2> QED
      BY <1>1, <2>2, <2>3, <2>4, <2>5, <2>6
  <1>4. CASE host_fails \/ host_stopped \/ drain_bridge \/ agent_died
    <2>1. /\ UNCHANGED package
          /\ \/ host' \in {host_failed(host), host_stop(host), new_host}
             \/ \E b : host' = [host EXCEPT !.begun = b]
      BY <1>4 DEF host_fails, host_stopped, drain_bridge, agent_died
    <2>2. CASE host' \in {host_failed(host), host_stop(host), new_host}
      BY <1>0, <2>1, <2>2, PageKept DEF PageOK
    <2>3. CASE \E b : host' = [host EXCEPT !.begun = b]
      <3>1. PICK b : host' = [host EXCEPT !.begun = b]
        BY <2>3
      <3>2. PageSound([host EXCEPT !.begun = b], package)
        BY <1>0, PageKept
      <3> QED
        BY <2>1, <3>1, <3>2 DEF PageOK
    <2> QED
      BY <2>1, <2>2, <2>3
  <1>5. CASE package_changed
    <2>1. host' = [host EXCEPT !.late = host.page # "none"]
      BY <1>5 DEF package_changed
    <2>2. host'.page = host.page /\ host'.late = (host.page # "none")
      BY <1>0, <2>1 DEF IsHost
    <2> QED
      BY <2>2 DEF PageOK, PageSound
  <1>6. CASE start_exam \/ begin_exam \/ stop_exam \/ process_exam_ready
    BY <1>1, <1>6 DEF start_exam, begin_exam, stop_exam, process_exam_ready, agentVars
  <1>7. CASE \/ handle_exam_start \/ handle_exam_start_attempt \/ handle_exam_start_spawn
             \/ handle_exam_stop \/ handle_exam_begin \/ control_session_ended
             \/ control_reconnected
             \/ \E t \in Threads : disarm(t) \/ disarm_clear(t) \/ disarm_record(t)
    BY <1>1, <1>7 DEF handle_exam_start, handle_exam_start_attempt, handle_exam_start_spawn,
         handle_exam_stop, handle_exam_begin, control_session_ended, control_reconnected,
         disarm, disarm_clear, disarm_record, agentVars
  <1>8. CASE \/ exam_arm_worker \/ exam_arm_worker_suppression
             \/ supervisor_tick \/ supervisor_tick_failed
             \/ pipe_write \/ pipe_read \/ pipe_lost \/ pipe_connected
             \/ launch_agent \/ service_restarted \/ agent_pipe_lost \/ exam_alive
    BY <1>1, <1>8 DEF exam_arm_worker, exam_arm_worker_suppression, supervisor_tick,
         supervisor_tick_failed, pipe_write, pipe_read, pipe_lost, pipe_connected, launch_agent,
         service_restarted, agent_pipe_lost, exam_alive, agentVars
  <1>9. CASE \/ stale_window_elapsed \/ longest_duration_elapsed
             \/ connection_lost \/ server_crashed \/ pipe_broken \/ service_crashed
    BY <1>1, <1>9 DEF stale_window_elapsed, longest_duration_elapsed, connection_lost,
         server_crashed, pipe_broken, service_crashed, agentVars
  <1> QED
    BY <1>2, <1>3, <1>4, <1>5, <1>6, <1>7, <1>8, <1>9 DEF Next

-----------------------------------------------------------------------------
(* The orders on their way.                                                 *)

\* send_authenticated(): a start is only sent where nothing will be running.
LEMMA OrderSent ==
  ASSUME NEW x, NEW q \in Seq(Orders), NEW m \in Orders, Alternate(x, q),
         m.type = "start" => Closed(x, q) /\ m.session # NoExam
  PROVE  /\ Append(q, m) \in Seq(Orders) /\ Alternate(x, Append(q, m))
         /\ m.type = "stop" => Closed(x, Append(q, m))
         /\ m.type = "begin" /\ Closed(x, q) => Closed(x, Append(q, m))
  <1>1. PICK n \in Nat : n = Len(q)
    OBVIOUS
  <1>2. PICK r : r = Append(q, m)
    OBVIOUS
  <1>3. /\ r \in Seq(Orders) /\ Len(r) = n + 1 /\ r[n + 1] = m
        /\ \A i \in 1..n : r[i] = q[i]
    BY <1>1, <1>2
  <1>4. Alternate(x, r)
    <2> SUFFICES ASSUME NEW j \in 1..(n + 1), r[j].type = "start"
                 PROVE  /\ r[j].session # NoExam
                        /\ \/ \E k \in 1..(j - 1) : /\ r[k].type = "stop"
                                                    /\ \A i \in k..(j - 1) : r[i].type # "start"
                           \/ x = NoExam /\ \A i \in 1..(j - 1) : r[i].type # "start"
      BY <1>3 DEF Alternate
    <2>1. \A i \in 1..(j - 1) : i \in 1..n /\ r[i] = q[i]
      BY <1>3
    <2>2. CASE j \in 1..n
      <3>1. r[j] = q[j]
        BY <1>3, <2>2
      <3>2. /\ q[j].session # NoExam
            /\ \/ \E k \in 1..(j - 1) : /\ q[k].type = "stop"
                                        /\ \A i \in k..(j - 1) : q[i].type # "start"
               \/ x = NoExam /\ \A i \in 1..(j - 1) : q[i].type # "start"
        BY <1>1, <2>2, <3>1 DEF Alternate
      <3>3. \A k \in 1..(j - 1) : \A i \in k..(j - 1) : i \in 1..(j - 1)
        OBVIOUS
      <3> QED
        BY <2>1, <3>1, <3>2, <3>3
    <2>3. CASE j = n + 1
      <3>1. r[j] = m /\ j - 1 = n
        BY <1>3, <2>3
      <3>2. m.session # NoExam /\ Closed(x, q)
        BY <3>1
      <3>3. \A k \in 1..n : \A i \in k..n : i \in 1..n
        OBVIOUS
      <3> QED
        BY <1>1, <1>3, <3>1, <3>2, <3>3 DEF Closed
    <2> QED
      BY <2>2, <2>3
  <1>5. ASSUME m.type = "stop" PROVE Closed(x, r)
    <2>1. n + 1 \in 1..Len(r) /\ r[n + 1].type = "stop"
      BY <1>3, <1>5
    <2>2. \A j \in (n + 1)..Len(r) : r[j].type # "start"
      BY <1>3, <1>5
    <2> QED
      BY <2>1, <2>2 DEF Closed
  <1>6. ASSUME m.type = "begin", Closed(x, q) PROVE Closed(x, r)
    <2>1. \A j \in 1..Len(r) : r[j].type = "start" => j \in 1..n /\ q[j].type = "start"
      BY <1>3, <1>6
    <2>2. CASE \E k \in 1..Len(q) : q[k].type = "stop" /\ \A j \in k..Len(q) : q[j].type # "start"
      <3>1. PICK k \in 1..n : q[k].type = "stop" /\ \A j \in k..n : q[j].type # "start"
        BY <1>1, <2>2
      <3>2. k \in 1..Len(r) /\ r[k].type = "stop"
        BY <1>3, <3>1
      <3>3. \A j \in k..Len(r) : j \in 1..Len(r) /\ (j \in 1..n => j \in k..n)
        BY <1>3
      <3> QED
        BY <2>1, <3>1, <3>2, <3>3 DEF Closed
    <2>3. CASE x = NoExam /\ \A j \in 1..Len(q) : q[j].type # "start"
      BY <1>1, <2>1, <2>3 DEF Closed
    <2> QED
      BY <1>6, <2>2, <2>3 DEF Closed
  <1> QED
    BY <1>2, <1>3, <1>4, <1>5, <1>6

\* The control thread carries out the first order.
LEMMA OrderTaken ==
  ASSUME NEW x, NEW y, NEW q \in Seq(Orders), q # <<>>, Alternate(x, q),
         Head(q).type = "stop" => y = NoExam,
         Head(q).type = "begin" => y = x
  PROVE  /\ Tail(q) \in Seq(Orders) /\ Alternate(y, Tail(q))
         /\ Closed(x, q) => Closed(y, Tail(q))
         /\ Head(q) \in Orders
         /\ Head(q).type = "start" => x = NoExam /\ Head(q).session # NoExam
  <1>1. PICK r : r = Tail(q)
    OBVIOUS
  <1>2. PICK n \in Nat : n = Len(r)
    BY <1>1
  <1>3. /\ r \in Seq(Orders) /\ Len(q) = n + 1 /\ Head(q) = q[1] /\ Head(q) \in Orders
        /\ \A i \in 1..n : i + 1 \in 1..(n + 1) /\ r[i] = q[i + 1]
    BY <1>1, <1>2
  <1>4. Head(q).type = "start" => x = NoExam /\ Head(q).session # NoExam
    <2>1. 1 \in 1..Len(q) /\ 1..(1 - 1) = {}
      BY <1>3
    <2> QED
      BY <1>3, <2>1 DEF Alternate
  <1>h. Head(q).type \in {"start", "begin", "stop"}
    BY <1>3 DEF Orders
  <1>s. ASSUME NEW k \in 2..(n + 1) PROVE k - 1 \in 1..n /\ r[k - 1] = q[k]
    BY <1>3
  <1>5. Alternate(y, r)
    <2> SUFFICES ASSUME NEW j \in 1..n, r[j].type = "start"
                 PROVE  /\ r[j].session # NoExam
                        /\ \/ \E k \in 1..(j - 1) : /\ r[k].type = "stop"
                                                    /\ \A i \in k..(j - 1) : r[i].type # "start"
                           \/ y = NoExam /\ \A i \in 1..(j - 1) : r[i].type # "start"
      BY <1>2 DEF Alternate
    <2>1. j + 1 \in 1..Len(q) /\ r[j] = q[j + 1] /\ (j + 1) - 1 = j
      BY <1>3
    <2>2. /\ q[j + 1].session # NoExam
          /\ \/ \E k \in 1..j : q[k].type = "stop" /\ \A i \in k..j : q[i].type # "start"
             \/ x = NoExam /\ \A i \in 1..j : q[i].type # "start"
      BY <2>1 DEF Alternate
    <2>3. ASSUME \A i \in 1..j : q[i].type # "start", y = NoExam
          PROVE  \A i \in 1..(j - 1) : r[i].type # "start"
      <3>1. \A i \in 1..(j - 1) : i + 1 \in 1..j /\ i \in 1..n
        OBVIOUS
      <3> QED
        BY <1>3, <2>3, <3>1
    <2>4. CASE x = NoExam /\ \A i \in 1..j : q[i].type # "start"
      <3>1. 1 \in 1..j
        OBVIOUS
      <3>2. y = NoExam
        BY <1>h, <1>3, <2>4, <3>1
      <3> QED
        BY <2>1, <2>2, <2>3, <2>4, <3>2
    <2>5. CASE \E k \in 1..j : q[k].type = "stop" /\ \A i \in k..j : q[i].type # "start"
      <3>1. PICK k \in 1..j : q[k].type = "stop" /\ \A i \in k..j : q[i].type # "start"
        BY <2>5
      <3>2. CASE k = 1
        <4>1. y = NoExam
          BY <1>3, <3>1, <3>2
        <4> QED
          BY <2>1, <2>2, <2>3, <3>1, <3>2, <4>1
      <3>3. CASE k # 1
        <4>1. k \in 2..(n + 1) /\ k - 1 \in 1..(j - 1)
          BY <3>3
        <4>2. r[k - 1].type = "stop"
          BY <1>s, <3>1, <4>1
        <4>3. \A i \in (k - 1)..(j - 1) : i + 1 \in k..j /\ i \in 1..n
          BY <4>1
        <4>4. \A i \in (k - 1)..(j - 1) : r[i].type # "start"
          BY <1>3, <3>1, <4>3
        <4> QED
          BY <2>1, <2>2, <4>1, <4>2, <4>4
      <3> QED
        BY <3>2, <3>3
    <2> QED
      BY <2>2, <2>4, <2>5
  <1>6. ASSUME Closed(x, q) PROVE Closed(y, r)
    <2>1. CASE x = NoExam /\ \A j \in 1..Len(q) : q[j].type # "start"
      <3>1. 1 \in 1..Len(q)
        BY <1>3
      <3>2. y = NoExam
        BY <1>h, <1>3, <2>1, <3>1
      <3>3. \A j \in 1..n : r[j].type # "start"
        BY <1>3, <2>1
      <3> QED
        BY <1>2, <3>2, <3>3 DEF Closed
    <2>2. CASE \E k \in 1..Len(q) : q[k].type = "stop" /\ \A j \in k..Len(q) : q[j].type # "start"
      <3>1. PICK k \in 1..(n + 1) : q[k].type = "stop" /\ \A j \in k..(n + 1) : q[j].type # "start"
        BY <1>3, <2>2
      <3>2. CASE k = 1
        <4>1. y = NoExam
          BY <1>3, <3>1, <3>2
        <4>2. \A j \in 1..n : r[j].type # "start"
          BY <1>3, <3>1, <3>2
        <4> QED
          BY <1>2, <4>1, <4>2 DEF Closed
      <3>3. CASE k # 1
        <4>1. k \in 2..(n + 1) /\ k - 1 \in 1..n
          BY <3>3
        <4>2. r[k - 1].type = "stop"
          BY <1>s, <3>1, <4>1
        <4>3. \A i \in (k - 1)..n : i + 1 \in k..(n + 1) /\ i \in 1..n
          BY <4>1
        <4>4. \A i \in (k - 1)..n : r[i].type # "start"
          BY <1>3, <3>1, <4>3
        <4> QED
          BY <1>2, <4>1, <4>2, <4>4 DEF Closed
      <3> QED
        BY <3>2, <3>3
    <2> QED
      BY <1>6, <2>1, <2>2 DEF Closed
  <1> QED
    BY <1>1, <1>3, <1>4, <1>5, <1>6

\* Steps that neither send nor carry out an order.
LEMMA OrdersKept ==
  ASSUME OrdersOK, UNCHANGED <<next, ctx, conn, down, svcExam>>,
         faults' = faults \/ faults' = faults + 1
  PROVE  OrdersOK'
  <1>1. faults' \in Nat
    BY DEF OrdersOK
  <1> QED
    BY <1>1 DEF OrdersOK, Alternate, Closed, NoContext

\* A connection that is not up carries nothing.
LEMMA OrdersDropped ==
  ASSUME OrdersOK, next' = next, faults' = faults \/ faults' = faults + 1,
         ctx' = ctx \/ ctx' = NoContext,
         conn' \in {"cut", "down"}, down' = <<>>, svcExam' \in {svcExam, NoExam},
         conn' = "down" => svcExam' = NoExam
  PROVE  OrdersOK'
  <1>1. faults' \in Nat /\ ctx'.session \in Exams /\ svcExam' \in Exams
    BY DEF OrdersOK, NoContext, Exams
  <1>2. <<>> \in Seq(Orders)
    OBVIOUS
  <1> QED
    BY <1>1, <1>2 DEF OrdersOK

\* The server's steps, the control thread's steps and the failures.
LEMMA OrdersStep ==
  ASSUME ReadyOK, OrdersOK, Next
  PROVE  OrdersOK'
  <1>0. \A t \in {"start", "begin", "stop"}, s \in Exams : [type |-> t, session |-> s] \in Orders
    BY DEF Orders
  <1>n. NoExam \in Exams
    BY DEF Exams
  <1>1. CASE start_exam
    <2>1. /\ ctx = NoContext /\ conn = "up" /\ WithinBudget
          /\ down' = Append(down, [type |-> "start", session |-> next])
          /\ ctx' = [NoContext EXCEPT !.session = next] /\ next' = next + 1
          /\ UNCHANGED <<conn, faults, svcExam>>
      BY <1>1 DEF start_exam, send_authenticated, serviceVars
    <2>2. next \in Sessions /\ next \in Exams /\ next # NoExam /\ next + 1 \in Nat \ {0}
      <3>1. next \in 1..MaxEvents
        BY <2>1, SessionAssumption DEF WithinBudget, OrdersOK
      <3> QED
        BY <3>1, SessionAssumption DEF Sessions, Exams
    <2>3. PICK m \in Orders : m = [type |-> "start", session |-> next]
      BY <1>0, <2>2
    <2>4. Alternate(svcExam, down) /\ Closed(svcExam, down) /\ down \in Seq(Orders)
      BY <2>1 DEF OrdersOK
    <2>5. down' \in Seq(Orders) /\ Alternate(svcExam, down')
      <3>1. m.type = "start" /\ m.session # NoExam /\ down' = Append(down, m)
        BY <2>1, <2>2, <2>3
      <3> QED
        BY <2>4, <3>1, OrderSent
    <2>6. ctx'.session = next /\ ctx' # NoContext
      BY <2>1, <2>2 DEF NoContext
    <2> QED
      BY <2>1, <2>2, <2>5, <2>6 DEF OrdersOK, Alternate, NoContext
  <1>2. CASE begin_exam
    <2>1. /\ conn = "up" /\ down' = Append(down, [type |-> "begin", session |-> ctx.session])
          /\ ctx' = [ctx EXCEPT !.begun = TRUE]
          /\ UNCHANGED <<next, conn, faults, svcExam>>
      BY <1>2 DEF begin_exam, send_authenticated, serviceVars
    <2>2. PICK m \in Orders : m = [type |-> "begin", session |-> ctx.session]
      BY <1>0 DEF OrdersOK
    <2>3. Alternate(svcExam, down) /\ down \in Seq(Orders)
      BY <2>1 DEF OrdersOK
    <2>4. down' \in Seq(Orders) /\ Alternate(svcExam, down')
      BY <2>1, <2>2, <2>3, OrderSent
    <2>5. ctx'.session = ctx.session /\ ctx' # NoContext
      <3>1. ctx'.session = ctx.session /\ ctx'.begun = TRUE
        BY <2>1 DEF ReadyOK
      <3>2. NoContext.begun = FALSE
        BY DEF NoContext
      <3> QED
        BY <3>1, <3>2
    <2> QED
      BY <2>1, <2>4, <2>5 DEF OrdersOK, Alternate, NoContext
  <1>3. CASE stop_exam
    <2>1. /\ conn = "up" /\ down' = Append(down, [type |-> "stop", session |-> NoExam])
          /\ ctx' = NoContext
          /\ UNCHANGED <<next, conn, faults, svcExam>>
      BY <1>3 DEF stop_exam, send_authenticated, serviceVars
    <2>2. PICK m \in Orders : m = [type |-> "stop", session |-> NoExam]
      BY <1>0, <1>n
    <2>3. Alternate(svcExam, down) /\ down \in Seq(Orders)
      BY <2>1 DEF OrdersOK
    <2>4. down' \in Seq(Orders) /\ Alternate(svcExam, down') /\ Closed(svcExam, down')
      BY <2>1, <2>2, <2>3, OrderSent
    <2>5. ctx'.session = NoExam
      BY <2>1 DEF NoContext
    <2> QED
      BY <1>n, <2>1, <2>4, <2>5 DEF OrdersOK, Alternate, Closed, NoContext
  <1>4. CASE process_exam_ready
    <2>1. /\ conn = "up" /\ UNCHANGED <<next, faults, svcExam>>
          /\ \/ ctx' = [ctx EXCEPT !.ready = TRUE] /\ UNCHANGED <<conn, down>>
             \/ conn' = "cut" /\ down' = <<>> /\ ctx' = ctx
      BY <1>4 DEF process_exam_ready, serviceVars
    <2>2. CASE conn' = "cut" /\ down' = <<>> /\ ctx' = ctx
      BY <2>1, <2>2, OrdersDropped
    <2>3. CASE ctx' = [ctx EXCEPT !.ready = TRUE] /\ UNCHANGED <<conn, down>>
      <3>a. ctx'.session = ctx.session /\ ctx'.ready = TRUE
        BY <2>3 DEF ReadyOK
      <3>b. NoContext.ready = FALSE
        BY DEF NoContext
      <3>1. ctx'.session = ctx.session /\ ctx' # NoContext
        BY <3>a, <3>b
      <3> QED
        BY <2>1, <2>3, <3>1 DEF OrdersOK, Alternate, NoContext
    <2> QED
      BY <2>1, <2>2, <2>3
  <1>5. CASE handle_exam_start \/ handle_exam_stop \/ handle_exam_begin
    <2>1. /\ conn = "up" /\ down # <<>> /\ down' = Tail(down)
          /\ UNCHANGED <<next, ctx, conn, faults>>
          /\ \/ Head(down).type = "start" /\ svcExam' = Head(down).session
             \/ Head(down).type = "stop" /\ svcExam' = NoExam
             \/ Head(down).type = "begin" /\ svcExam' = svcExam
      BY <1>5 DEF handle_exam_start, handle_exam_stop, handle_exam_begin, Command, serverVars
    <2>2. Alternate(svcExam, down) /\ down \in Seq(Orders)
      BY <2>1 DEF OrdersOK
    <2>3. PICK y : y = svcExam'
      OBVIOUS
    <2>4. /\ Head(down).type = "stop" => y = NoExam
          /\ Head(down).type = "begin" => y = svcExam
      BY <2>1, <2>3
    <2>5. /\ Tail(down) \in Seq(Orders) /\ Alternate(y, Tail(down))
          /\ Closed(svcExam, down) => Closed(y, Tail(down))
          /\ Head(down) \in Orders
      BY <2>1, <2>2, <2>4, OrderTaken
    <2>6. y \in Exams
      BY <1>n, <2>1, <2>3, <2>5 DEF OrdersOK, Orders
    <2>7. /\ down' \in Seq(Orders) /\ Alternate(svcExam', down') /\ svcExam' \in Exams
          /\ Closed(svcExam, down) => Closed(svcExam', down')
      BY <2>1, <2>3, <2>5, <2>6, Zenon
    <2> QED
      BY <2>1, <2>7 DEF OrdersOK
  <1>6. CASE control_session_ended
    <2>1. /\ conn = "cut" /\ conn' = "down" /\ svcExam' = NoExam
          /\ UNCHANGED <<next, ctx, down, faults>>
      BY <1>6 DEF control_session_ended, serverVars
    <2>2. down' = <<>>
      BY <2>1 DEF OrdersOK
    <2> QED
      BY <2>1, <2>2, OrdersDropped
  <1>7. CASE control_reconnected
    <2>1. /\ conn = "down" /\ conn' = "up" /\ UNCHANGED <<next, ctx, down, faults, svcExam>>
      BY <1>7 DEF control_reconnected, serverVars, serviceVars
    <2>2. down = <<>> /\ svcExam = NoExam
      BY <2>1 DEF OrdersOK
    <2>3. Alternate(NoExam, <<>>) /\ Closed(NoExam, <<>>)
      BY DEF Alternate, Closed
    <2> QED
      BY <2>1, <2>2, <2>3 DEF OrdersOK, Alternate, Closed
  <1>8. CASE connection_lost \/ server_crashed \/ service_crashed
    <2>1. /\ next' = next /\ faults' = faults + 1
          /\ ctx' = ctx \/ ctx' = NoContext
          /\ down' = <<>>
          /\ \/ conn' = "cut" /\ svcExam' = svcExam
             \/ conn' = "down" /\ svcExam' = NoExam
             \/ conn # "up" /\ conn' = conn /\ svcExam' = svcExam
      BY <1>8 DEF connection_lost, server_crashed, service_crashed, Fault, serverVars, serviceVars
    <2>2. CASE conn' = "cut" /\ svcExam' = svcExam
      BY <2>1, <2>2, OrdersDropped
    <2>3. CASE conn' = "down" /\ svcExam' = NoExam
      BY <2>1, <2>3, OrdersDropped
    <2>4. CASE conn # "up" /\ conn' = conn /\ svcExam' = svcExam
      <3>1. conn' \in {"cut", "down"} /\ (conn' = "down" => svcExam' = NoExam)
        BY <2>4 DEF OrdersOK
      <3> QED
        BY <2>1, <2>4, <3>1, OrdersDropped
    <2> QED
      BY <2>1, <2>2, <2>3, <2>4
  <1>9. CASE \/ handle_exam_start_attempt \/ handle_exam_start_spawn
             \/ exam_arm_worker \/ exam_arm_worker_suppression
             \/ supervisor_tick \/ supervisor_tick_failed
    BY <1>9, OrdersKept DEF handle_exam_start_attempt, handle_exam_start_spawn, exam_arm_worker,
         exam_arm_worker_suppression, supervisor_tick, supervisor_tick_failed, Fault, serverVars,
         linkVars
  <1>10. CASE \E t \in Threads : disarm(t) \/ disarm_clear(t) \/ disarm_record(t)
    BY <1>10, OrdersKept DEF disarm, disarm_clear, disarm_record, Fault, serverVars, linkVars
  <1>11. CASE \/ pipe_write \/ pipe_read \/ pipe_lost \/ pipe_connected
              \/ launch_agent \/ service_restarted \/ agent_pipe_lost \/ ui_exam_command
    BY <1>11, OrdersKept DEF pipe_write, pipe_read, pipe_lost, pipe_connected, launch_agent,
         service_restarted, agent_pipe_lost, ui_exam_command, serverVars, linkVars, serviceVars
  <1>12. CASE \E c \in callbacks : webview_callback(c)
    BY <1>12, OrdersKept DEF webview_callback, on_environment_created, on_controller_created,
                             on_navigation_completed,
         on_web_message, Fault, serverVars, linkVars, serviceVars
  <1>13. CASE \/ host_fails \/ host_stopped \/ drain_bridge \/ exam_alive
              \/ stale_window_elapsed \/ longest_duration_elapsed
    BY <1>13, OrdersKept DEF host_fails, host_stopped, drain_bridge, exam_alive,
         stale_window_elapsed, longest_duration_elapsed, Fault, serverVars, linkVars, serviceVars
  <1>14. CASE pipe_broken \/ agent_died \/ package_changed
    BY <1>14, OrdersKept DEF pipe_broken, agent_died, package_changed, Fault, serverVars, linkVars,
         serviceVars
  <1> QED
    BY <1>1, <1>2, <1>3, <1>4, <1>5, <1>6, <1>7, <1>8, <1>9, <1>10, <1>11, <1>12, <1>13, <1>14
       DEF Next

-----------------------------------------------------------------------------
(* The network block.                                                       *)

\* What most operations of the controller leave alone.
SameBlock(c, d) ==
    d \in Controllers /\ d.epoch = c.epoch /\ d.armed = c.armed /\ d.config = c.config

\* What the operations of the controller leave of it: none but arm() arms, none
\* but begin_attempt() takes a token.
LEMMA ControllerOperations ==
  ASSUME NEW c \in Controllers, NEW b \in BOOLEAN, NEW s \in Exams
  PROVE  /\ SameBlock(c, update_duration(c, b))
         /\ SameBlock(c, heartbeat(c))
         /\ SameBlock(c, tick(c))
         /\ SameBlock(c, tick_failed(c, b))
         /\ SameBlock(c, clear_filters(c))
         /\ SameBlock(c, startup_sweep(c))
         /\ SameBlock(c, disarm_recorded(c))
         /\ SameBlock(c, [c EXCEPT !.fresh = FALSE])
         /\ SameBlock(c, [c EXCEPT !.within = FALSE])
         /\ SameBlock(c, c)
         /\ /\ disarm_locked(c) \in Controllers
            /\ disarm_locked(c).epoch = NoExam /\ ~disarm_locked(c).armed
         /\ /\ begin_attempt(c, s) \in Controllers /\ begin_attempt(c, s).epoch = s
            /\ begin_attempt(c, s).armed = c.armed /\ begin_attempt(c, s).config = c.config
         /\ /\ arm(c, s) \in Controllers /\ arm(c, s).epoch = c.epoch
            /\ arm(c, s).config = s
         /\ /\ new_controller(s) \in Controllers /\ ~new_controller(s).armed
            /\ new_controller(s).epoch = NoExam
  <1>n. NoExam \in Exams
    BY DEF Exams
  <1>1. SameBlock(c, update_duration(c, b)) /\ SameBlock(c, c)
    BY DEF update_duration, new_lockdown, Controllers, SameBlock
  <1>2. /\ SameBlock(c, heartbeat(c)) /\ SameBlock(c, [c EXCEPT !.fresh = FALSE])
        /\ SameBlock(c, [c EXCEPT !.within = FALSE])
    BY DEF heartbeat, Controllers, SameBlock
  <1>3. /\ SameBlock(c, clear_filters(c)) /\ SameBlock(c, startup_sweep(c))
        /\ SameBlock(c, disarm_recorded(c))
    BY <1>n DEF clear_filters, startup_sweep, disarm_recorded, Controllers, SameBlock
  <1>4. PICK p : p = poll(c)
    OBVIOUS
  <1>5. SameBlock(c, p)
    BY <1>4 DEF poll, should_block, Controllers, SameBlock
  <1>6. SameBlock(c, tick(c))
    <2>1. CASE tick(c) = [apply_filters(p) EXCEPT !.retries = @ + 1, !.blocked = TRUE]
      <3>1. PICK a : a = apply_filters(p)
        OBVIOUS
      <3>2. SameBlock(c, a) /\ a.retries + 1 \in Nat
        BY <1>5, <3>1 DEF apply_filters, Controllers, SameBlock
      <3>3. PICK n \in Nat : n = a.retries + 1
        BY <3>2
      <3>4. tick(c) = [a EXCEPT !.retries = n, !.blocked = TRUE]
        BY <2>1, <3>1, <3>3
      <3> QED
        BY <3>2, <3>4 DEF Controllers, SameBlock
    <2>2. CASE tick(c) = disarm_recorded(clear_filters(p))
      <3>1. PICK a : a = clear_filters(p)
        OBVIOUS
      <3>2. SameBlock(c, a)
        BY <1>n, <1>5, <3>1 DEF clear_filters, Controllers, SameBlock
      <3>3. tick(c) = [a EXCEPT !.blocked = FALSE, !.retries = 0]
        BY <2>2, <3>1 DEF disarm_recorded
      <3>4. a \in Controllers
        BY <3>2 DEF SameBlock
      <3>z. [a EXCEPT !.blocked = FALSE, !.retries = 0] \in Controllers
        BY <3>4 DEF Controllers
      <3>5. tick(c) \in Controllers
        BY <3>3, <3>z, Zenon
      <3>6. /\ tick(c).epoch = a.epoch /\ tick(c).armed = a.armed /\ tick(c).config = a.config
        BY <3>3, <3>4 DEF Controllers
      <3> QED
        BY <3>2, <3>5, <3>6 DEF SameBlock
    <2>3. CASE tick(c) = p
      BY <1>5, <2>3
    <2> QED
      BY <1>4, <2>1, <2>2, <2>3 DEF tick
  <1>7. SameBlock(c, tick_failed(c, b))
    <2>1. CASE ~wants_apply(p)
      BY <1>4, <1>5, <2>1 DEF tick_failed
    <2>2. CASE wants_apply(p)
      <3>1. PICK a : a = apply_filters_failed(p, b)
        OBVIOUS
      <3>2. SameBlock(c, a) /\ a.retries + 1 \in Nat
        BY <1>n, <1>5, <3>1 DEF apply_filters_failed, Controllers, SameBlock
      <3>3. PICK n \in Nat : n = a.retries + 1
        BY <3>2
      <3>4. (p.retries + 1 >= MaxApplyRetries) \in BOOLEAN
        BY <1>5, LockdownAssumption DEF SameBlock, Controllers
      <3>5. PICK g \in BOOLEAN : g = (p.retries + 1 >= MaxApplyRetries)
        BY <3>4, Zenon
      <3>6. tick_failed(c, b) = [a EXCEPT !.retries = n, !.gave_up = g]
        BY <1>4, <2>2, <3>1, <3>3, <3>5 DEF tick_failed
      <3> QED
        BY <3>2, <3>6 DEF Controllers, SameBlock
    <2> QED
      BY <2>1, <2>2
  <1>8. /\ disarm_locked(c) \in Controllers
        /\ disarm_locked(c).epoch = NoExam /\ ~disarm_locked(c).armed
    BY <1>n DEF disarm_locked, Controllers
  <1>9. /\ begin_attempt(c, s) \in Controllers /\ begin_attempt(c, s).epoch = s
        /\ begin_attempt(c, s).armed = c.armed /\ begin_attempt(c, s).config = c.config
    BY DEF begin_attempt, Controllers
  <1>10. /\ arm(c, s) \in Controllers /\ arm(c, s).epoch = c.epoch /\ arm(c, s).config = s
    BY DEF arm, new_lockdown, Controllers
  <1>11. /\ new_controller(s) \in Controllers /\ ~new_controller(s).armed
         /\ new_controller(s).epoch = NoExam
    BY <1>n DEF new_controller, Controllers
  <1> QED
    BY <1>1, <1>2, <1>3, <1>6, <1>7, <1>8, <1>9, <1>10, <1>11

\* A step that keeps the token, what is armed and the control thread's place.
LEMMA BlockKept ==
  ASSUME BlockOK, UNCHANGED svcExam,
         pc' \in [Threads -> {"idle", "attempt", "spawn", "disarm", "clear", "record"}],
         pc'["control"] = pc["control"],
         worker' = worker \/ worker' = NoWorker,
         lock' \in Controllers, lock'.epoch = lock.epoch, lock'.armed = lock.armed,
         lock'.config = lock.config
  PROVE  BlockOK'
  <1>1. /\ worker' \in [stage : {"none", "verify", "armed"}, token : Exams]
        /\ worker'.stage = "verify" => worker'.token # NoExam
    BY DEF BlockOK, NoWorker, Exams
  <1> QED
    BY <1>1 DEF BlockOK

\* The steps of the two threads, the worker, the supervisor and time.
LEMMA BlockStep ==
  ASSUME OrdersOK, BlockOK, Next
  PROVE  BlockOK'
  <1> DEFINE Places == {"idle", "attempt", "spawn", "disarm", "clear", "record"}
  <1>0. /\ lock \in Controllers /\ pc \in [Threads -> Places] /\ svcExam \in Exams
        /\ worker \in [stage : {"none", "verify", "armed"}, token : Exams]
        /\ worker.token \in Exams /\ "control" \in Threads /\ "pipe" \in Threads
    BY DEF BlockOK, OrdersOK, Threads
  <1>n. NoExam \in Exams
    BY DEF Exams
  <1>1. CASE \/ start_exam \/ begin_exam \/ stop_exam \/ process_exam_ready
             \/ control_reconnected \/ connection_lost \/ server_crashed \/ package_changed
    <2>1. UNCHANGED <<svcExam, lock, worker>> /\ (pc' = pc \/ pc' = [pc EXCEPT !["control"] = "idle"])
          /\ pc'["control"] = pc["control"]
      BY <1>0, <1>1 DEF start_exam, begin_exam, stop_exam, process_exam_ready, control_reconnected,
           connection_lost, server_crashed, package_changed, serviceVars, Steps
    <2>2. pc' \in [Threads -> Places]
      BY <1>0, <2>1
    <2> QED
      BY <1>0, <2>1, <2>2, BlockKept
  <1>2. CASE \/ pipe_read \/ pipe_connected \/ launch_agent \/ pipe_write \/ pipe_broken
             \/ agent_pipe_lost \/ ui_exam_command \/ host_fails \/ host_stopped \/ drain_bridge
             \/ agent_died
    <2>1. UNCHANGED <<svcExam, lock, worker, pc>>
      BY <1>2 DEF pipe_read, pipe_connected, launch_agent, pipe_write, pipe_broken,
           agent_pipe_lost, ui_exam_command, host_fails, host_stopped, drain_bridge, agent_died,
           serviceVars
    <2> QED
      BY <1>0, <2>1, BlockKept
  <1>3. CASE \E c \in callbacks : webview_callback(c)
    <2>1. UNCHANGED <<svcExam, lock, worker, pc>>
      BY <1>3 DEF webview_callback, serviceVars
    <2> QED
      BY <1>0, <2>1, BlockKept
  <1>4. CASE handle_exam_start
    <2>1. /\ conn = "up" /\ down # <<>> /\ Head(down).type = "start"
          /\ pc["control"] = "idle" /\ pc' = [pc EXCEPT !["control"] = "attempt"]
          /\ svcExam' = Head(down).session /\ UNCHANGED <<worker, lock>>
      BY <1>4 DEF handle_exam_start, Command, Steps
    <2>2. svcExam = NoExam /\ svcExam' # NoExam
      BY <2>1, OrderTaken DEF OrdersOK
    <2>3. lock.epoch = NoExam /\ ~lock.armed
      BY <2>1, <2>2 DEF BlockOK
    <2>4. pc' \in [Threads -> Places] /\ pc'["control"] = "attempt"
      BY <1>0, <2>1
    <2> QED
      BY <1>0, <2>1, <2>2, <2>3, <2>4 DEF BlockOK
  <1>5. CASE handle_exam_start_attempt
    <2>1. /\ pc["control"] = "attempt" /\ pc' = [pc EXCEPT !["control"] = "spawn"]
          /\ lock' = begin_attempt(lock, svcExam) /\ UNCHANGED <<worker, svcExam>>
      BY <1>5 DEF handle_exam_start_attempt, Steps
    <2>2. /\ lock' \in Controllers /\ lock'.epoch = svcExam
          /\ lock'.armed = lock.armed /\ lock'.config = lock.config
      BY <1>0, <2>1, ControllerOperations
    <2>4. pc' \in [Threads -> Places] /\ pc'["control"] = "spawn"
      BY <1>0, <2>1
    <2> QED
      BY <1>0, <2>1, <2>2, <2>4 DEF BlockOK
  <1>6. CASE handle_exam_start_spawn
    <2>1. /\ pc["control"] = "spawn" /\ pc' = [pc EXCEPT !["control"] = "idle"]
          /\ worker' = [stage |-> "verify", token |-> svcExam] /\ UNCHANGED <<lock, svcExam>>
      BY <1>6 DEF handle_exam_start_spawn, Steps
    <2>2. svcExam # NoExam
      BY <2>1 DEF BlockOK
    <2>3. /\ worker' \in [stage : {"none", "verify", "armed"}, token : Exams]
          /\ worker'.token # NoExam
      BY <1>0, <2>1, <2>2
    <2>4. pc' \in [Threads -> Places] /\ pc'["control"] = "idle"
      BY <1>0, <2>1
    <2> QED
      BY <1>0, <2>1, <2>2, <2>3, <2>4 DEF BlockOK
  <1>7. CASE handle_exam_stop \/ control_session_ended
    <2>1. /\ pc' = [pc EXCEPT !["control"] = "disarm"]
          /\ svcExam' = NoExam /\ UNCHANGED <<worker, lock>>
      BY <1>7 DEF handle_exam_stop, control_session_ended, Steps
    <2>4. pc' \in [Threads -> Places] /\ pc'["control"] = "disarm"
      BY <1>0, <2>1
    <2> QED
      BY <1>0, <2>1, <2>4 DEF BlockOK
  <1>8. CASE handle_exam_begin
    <2>1. /\ pc["control"] = "idle" /\ pc' = [pc EXCEPT !["control"] = "idle"]
          /\ UNCHANGED <<worker, svcExam>>
          /\ lock' = lock \/ \E within \in BOOLEAN : lock' = update_duration(lock, within)
      BY <1>8 DEF handle_exam_begin, Steps
    <2>s. SameBlock(lock, lock')
      <3>1. CASE lock' = lock
        BY <1>0, <1>n, <3>1, ControllerOperations
      <3>2. CASE \E within \in BOOLEAN : lock' = update_duration(lock, within)
        <4>1. PICK within \in BOOLEAN : lock' = update_duration(lock, within)
          BY <3>2
        <4> QED
          BY <1>0, <1>n, <4>1, ControllerOperations
      <3> QED
        BY <2>1, <3>1, <3>2
    <2>3. /\ lock' \in Controllers /\ lock'.epoch = lock.epoch
          /\ lock'.armed = lock.armed /\ lock'.config = lock.config
      BY <2>s DEF SameBlock
    <2>4. pc' \in [Threads -> Places] /\ pc'["control"] = "idle"
      BY <1>0, <2>1
    <2> QED
      BY <2>1, <2>3, <2>4, BlockKept
  <1>9. CASE \E t \in Threads : disarm(t)
    <2>1. PICK t \in Threads : disarm(t)
      BY <1>9
    <2>2. PICK to \in {"clear", "idle"} :
             /\ pc[t] = "disarm" /\ pc' = [pc EXCEPT ![t] = to]
             /\ lock' = disarm_locked(lock) /\ UNCHANGED <<worker, svcExam>>
      BY <2>1 DEF disarm, Steps
    <2>3. lock' \in Controllers /\ lock'.epoch = NoExam /\ ~lock'.armed
      BY <1>0, <1>n, <2>2, ControllerOperations
    <2>4. pc' \in [Threads -> Places] /\ pc'["control"] \in {"clear", "idle", pc["control"]}
      BY <1>0, <2>2
    <2>5. pc'["control"] # pc["control"] => svcExam = NoExam
      BY <1>0, <2>2 DEF BlockOK
    <2> QED
      BY <1>0, <2>2, <2>3, <2>4, <2>5 DEF BlockOK
  <1>10. CASE \E t \in Threads : disarm_clear(t) \/ disarm_record(t)
    <2>1. PICK t \in Threads : disarm_clear(t) \/ disarm_record(t)
      BY <1>10
    <2>2. PICK to \in {"record", "idle"} :
             /\ pc[t] \in {"clear", "record"} /\ pc' = [pc EXCEPT ![t] = to]
             /\ lock' \in {lock, clear_filters(lock), disarm_recorded(lock)}
             /\ UNCHANGED <<worker, svcExam>>
      BY <2>1 DEF disarm_clear, disarm_record, Steps
    <2>r. /\ SameBlock(lock, lock) /\ SameBlock(lock, clear_filters(lock))
          /\ SameBlock(lock, disarm_recorded(lock))
      BY <1>0, <1>n, ControllerOperations
    <2>s. SameBlock(lock, lock')
      BY <2>2, <2>r, Zenon
    <2>3. /\ lock' \in Controllers /\ lock'.epoch = lock.epoch
          /\ lock'.armed = lock.armed /\ lock'.config = lock.config
      BY <2>s DEF SameBlock
    <2>4. pc' \in [Threads -> Places] /\ pc'["control"] \in {"record", "idle", pc["control"]}
      BY <1>0, <2>2
    <2>5. pc'["control"] # pc["control"] => svcExam = NoExam /\ pc["control"] # "disarm"
      BY <1>0, <2>2 DEF BlockOK
    <2>6. CASE pc'["control"] = pc["control"]
      BY <2>2, <2>3, <2>4, <2>6, BlockKept
    <2>7. CASE pc'["control"] # pc["control"]
      BY <1>0, <2>2, <2>3, <2>4, <2>5, <2>7 DEF BlockOK
    <2> QED
      BY <2>6, <2>7
  <1>11. CASE exam_arm_worker
    <2>1. /\ worker.stage = "verify" /\ UNCHANGED <<svcExam, pc>>
          /\ \/ /\ worker.token = lock.epoch
                /\ lock' = arm(lock, worker.token)
                /\ worker' = [worker EXCEPT !.stage = "armed"]
             \/ worker' = NoWorker /\ lock' = lock
      BY <1>11 DEF exam_arm_worker, may_arm
    <2>2. CASE worker' = NoWorker /\ lock' = lock
      BY <1>0, <2>1, <2>2, BlockKept
    <2>3. CASE /\ worker.token = lock.epoch
               /\ lock' = arm(lock, worker.token)
               /\ worker' = [worker EXCEPT !.stage = "armed"]
      <3>1. worker.token # NoExam
        BY <2>1 DEF BlockOK
      <3>2. lock' \in Controllers /\ lock'.epoch = lock.epoch /\ lock'.config = worker.token
        BY <1>0, <2>3, ControllerOperations
      <3>3. /\ worker' \in [stage : {"none", "verify", "armed"}, token : Exams]
            /\ worker'.stage = "armed"
        BY <1>0, <2>3
      <3>4. pc["control"] # "disarm" => worker.token = svcExam /\ pc["control"] # "attempt"
        BY <2>3, <3>1 DEF BlockOK
      <3> QED
        BY <1>0, <2>1, <3>1, <3>2, <3>3, <3>4, <2>3 DEF BlockOK
    <2> QED
      BY <2>1, <2>2, <2>3
  <1>12. CASE exam_arm_worker_suppression
    BY <1>0, <1>12, BlockKept DEF exam_arm_worker_suppression
  <1>13. CASE \/ supervisor_tick \/ supervisor_tick_failed \/ exam_alive \/ service_restarted
              \/ stale_window_elapsed \/ longest_duration_elapsed
    <2>1. /\ UNCHANGED <<svcExam, pc, worker>>
          /\ \E b \in BOOLEAN :
                lock' \in {lock, tick(lock), tick_failed(lock, b), heartbeat(lock),
                           startup_sweep(lock), [lock EXCEPT !.fresh = FALSE],
                           [lock EXCEPT !.within = FALSE]}
      BY <1>13 DEF supervisor_tick, supervisor_tick_failed, exam_alive, service_restarted,
           stale_window_elapsed, longest_duration_elapsed
    <2>2. PICK b \in BOOLEAN :
             lock' \in {lock, tick(lock), tick_failed(lock, b), heartbeat(lock),
                        startup_sweep(lock), [lock EXCEPT !.fresh = FALSE],
                        [lock EXCEPT !.within = FALSE]}
      BY <2>1
    <2>r. /\ SameBlock(lock, lock) /\ SameBlock(lock, tick(lock))
          /\ SameBlock(lock, tick_failed(lock, b)) /\ SameBlock(lock, heartbeat(lock))
          /\ SameBlock(lock, startup_sweep(lock))
          /\ SameBlock(lock, [lock EXCEPT !.fresh = FALSE])
          /\ SameBlock(lock, [lock EXCEPT !.within = FALSE])
      BY <1>0, <1>n, ControllerOperations
    <2>s. SameBlock(lock, lock')
      BY <2>2, <2>r, Zenon
    <2>3. /\ lock' \in Controllers /\ lock'.epoch = lock.epoch
          /\ lock'.armed = lock.armed /\ lock'.config = lock.config
      BY <2>s DEF SameBlock
    <2> QED
      BY <1>0, <2>1, <2>3, BlockKept
  <1>14. CASE pipe_lost
    <2>1. /\ pc' = [pc EXCEPT !["pipe"] = "disarm"] /\ UNCHANGED <<svcExam, lock, worker>>
      BY <1>14 DEF pipe_lost, Steps
    <2>2. pc' \in [Threads -> Places] /\ pc'["control"] = pc["control"]
      BY <1>0, <2>1
    <2> QED
      BY <1>0, <2>1, <2>2, BlockKept
  <1>15. CASE service_crashed
    <2>1. /\ pc' = [t \in Threads |-> "idle"] /\ worker' = NoWorker
          /\ lock' = new_controller(lock.filters) /\ svcExam' = NoExam
      BY <1>15 DEF service_crashed
    <2>2. lock.filters \in Exams
      BY <1>0 DEF Controllers
    <2>3. lock' \in Controllers /\ lock'.epoch = NoExam /\ ~lock'.armed
      BY <1>0, <2>1, <2>2, ControllerOperations
    <2>4. pc' \in [Threads -> Places] /\ pc'["control"] = "idle"
      BY <1>0, <2>1
    <2>5. /\ worker' \in [stage : {"none", "verify", "armed"}, token : Exams]
          /\ worker'.stage = "none"
      BY <1>n, <2>1 DEF NoWorker
    <2> QED
      BY <2>1, <2>3, <2>4, <2>5 DEF BlockOK
  <1> QED
    BY <1>1, <1>2, <1>3, <1>4, <1>5, <1>6, <1>7, <1>8, <1>9, <1>10, <1>11, <1>12, <1>13, <1>14,
       <1>15 DEF Next

-----------------------------------------------------------------------------
(* The theorems.                                                            *)

\* The four parts of the invariant hold throughout.
LEMMA SessionInvariant == Spec => []SessionIInv
  <1>1. Init => SessionIInv
    <2> SUFFICES ASSUME Init PROVE SessionIInv
      OBVIOUS
    <2>n. NoExam \in Exams
      BY DEF Exams
    <2>e. <<>> \in Seq(Orders) /\ <<>> \in Seq(Readies)
      OBVIOUS
    <2>1. ReadyOK
      BY <2>e DEF Init, ReadyOK, IsHost, new_host, NoContext
    <2>2. OrdersOK
      <3>1. Alternate(NoExam, <<>>) /\ Closed(NoExam, <<>>)
        BY DEF Alternate, Closed
      <3> QED
        BY <2>n, <2>e, <3>1 DEF Init, OrdersOK, NoContext
    <2>3. BlockOK
      <3>1. lock \in Controllers /\ ~lock.armed /\ lock.epoch = NoExam
        BY <2>n DEF Init, new_controller, Controllers
      <3> QED
        BY <2>n, <3>1 DEF Init, BlockOK, NoWorker, Threads
    <2>4. PageOK
      BY DEF Init, PageOK, PageSound, new_host
    <2> QED
      BY <2>1, <2>2, <2>3, <2>4 DEF SessionIInv
  <1>2. SessionIInv /\ [Next]_vars => SessionIInv'
    <2> SUFFICES ASSUME SessionIInv, [Next]_vars PROVE SessionIInv'
      OBVIOUS
    <2>1. CASE Next
      BY <2>1, ReadyStep, PageStep, OrdersStep, BlockStep DEF SessionIInv
    <2>2. CASE UNCHANGED vars
      <3>1. UNCHANGED <<ctx, next, conn, down, outq, pc, worker, lock, svcExam, agentOut, host,
                        callbacks, everReady, package, faults>>
        BY <2>2 DEF vars, serverVars, linkVars, serviceVars, agentVars
      <3> QED
        BY <3>1 DEF SessionIInv, ReadyOK, PageOK, OrdersOK, BlockOK, Readies
    <2> QED
      BY <2>1, <2>2
  <1> QED
    BY <1>1, <1>2, PTL DEF Spec

\* process_exam_ready() marks a context ready only when the page of its own
\* session reported it, whatever late reports of earlier exams arrive.
THEOREM ReadinessIsReal == Spec => []ReadyIsReal
  <1>1. SessionIInv => ReadyIsReal
    BY DEF SessionIInv, ReadyOK, ReadyIsReal
  <1> QED
    BY <1>1, SessionInvariant, PTL

\* A stop the control thread has carried out stays carried out: a worker whose
\* begin_attempt() token is out of date arms no network block.
THEOREM StopsWin == Spec => []StopWins
  <1>1. SessionIInv => StopWins
    BY DEF SessionIInv, BlockOK, StopWins
  <1> QED
    BY <1>1, SessionInvariant, PTL

\* A page of altered files is one whose files changed after the host's own check
\* (package_snapshot_is_current()).
THEOREM PagesCheckedLast == Spec => []AlteredOnlyLate
  <1>1. SessionIInv => AlteredOnlyLate
    BY DEF SessionIInv, PageOK, PageSound, AlteredOnlyLate
  <1> QED
    BY <1>1, SessionInvariant, PTL

=============================================================================
