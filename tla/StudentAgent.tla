---------------------------- MODULE StudentAgent ----------------------------
(***************************************************************************)
(* The agent of a student's desktop (client/agent/main.cpp).  A thread     *)
(* reads the service's pipe; the windows belong to the UI thread.  The     *)
(* pipe thread changes some state itself, sends (SendMessage: it waits     *)
(* until the UI thread handled it, ahead of the UI thread's queue) or      *)
(* posts (PostMessage: handled in order, later).  Both threads block and   *)
(* release the keyboard and mouse (BlockInput), for a demonstration and    *)
(* for remote control, and an exam takes the other windows off the screen  *)
(* and puts them back.                                                     *)
(*                                                                         *)
(* What a handler does to its flags and windows is one step; its calls of  *)
(* BlockInput follow, one at a time, and the other thread may come         *)
(* between.  Text, pictures and drawing are left out.                      *)
(***************************************************************************)
EXTENDS Naturals, Sequences

CONSTANTS
    MaxAgentMessages,   \* bound: messages the service sends
    MaxPosted,          \* bound: posted messages waiting for the UI thread
    MaxAgentFaults      \* bound: lost pipes, failures of the exam host

ASSUME AgentAssumption ==
    MaxAgentMessages \in Nat /\ MaxPosted \in Nat /\ MaxAgentFaults \in Nat

Windows == {"chat", "lock", "annotation", "broadcast"}

VARIABLES
    agent,           \* the flags and windows of the agent process
    agent_pipe,      \* the pipe to the service is connected
    posted,          \* the UI thread's queue of posted messages
    exam_commands,   \* exam commands of the bridge that the UI thread has to pop
    agent_messages, agent_faults

agentVars == <<agent, agent_pipe, posted, exam_commands, agent_messages, agent_faults>>

\* wWinMain(): the windows are created hidden.
NewAgent == [
    visible |-> {},        \* windows that are shown
    locked |-> FALSE,      \* g_locked
    suppressed |-> FALSE,  \* g_exam_controls_suppressed
    was_visible |-> {},    \* g_*_was_visible_for_exam
    viewing |-> FALSE,     \* g_viewing_broadcast
    mode |-> "focus",      \* g_broadcast_mode
    lock_input |-> FALSE,  \* g_broadcast_lock_input
    demo |-> FALSE,        \* g_demo_input_locked
    remote |-> FALSE,      \* g_remote_control_active
    connected |-> FALSE,   \* g_server_connected
    host |-> "idle",       \* the exam host: "idle", "engaged", "failed"
    pairing |-> "hidden",  \* g_pairing_view
    blocked |-> FALSE,     \* Windows blocks the keyboard and mouse
    calls |-> [ui |-> <<>>, pipe |-> <<>>],  \* BlockInput calls still to be made
    raced |-> FALSE,       \* history: calls of both threads met
    restored |-> FALSE]    \* history: an exam's end showed a broadcast that had ended

AgentInit ==
    /\ agent = NewAgent
    /\ agent_pipe = FALSE /\ posted = <<>> /\ exam_commands = <<>>
    /\ agent_messages = 0 /\ agent_faults = 0

-----------------------------------------------------------------------------
(* Blocking input.  `t` is the thread that runs the function.              *)

apply_broadcast_input_lock(a, t, lock) ==
    IF a.demo = lock THEN a
    ELSE [a EXCEPT !.demo = lock,
                   !.calls[t] = IF a.remote THEN @ ELSE Append(@, lock)]

stop_remote_control(a) ==
    IF ~a.remote THEN a
    ELSE [a EXCEPT !.remote = FALSE,
                   !.calls["pipe"] = IF a.demo THEN @ ELSE Append(@, FALSE)]

\* What a handler leaves: note when both threads have calls to make.
Noted(a) ==
    [a EXCEPT !.raced = @ \/ (a.calls["ui"] # <<>> /\ a.calls["pipe"] # <<>>)]

\* A sent message is handled to its end while the pipe thread waits.
Sent(a) ==
    IF a.calls["ui"] = <<>> THEN a
    ELSE [a EXCEPT !.blocked = a.calls["ui"][Len(a.calls["ui"])], !.calls["ui"] = <<>>]

\* One call of BlockInput.
block_input(t) ==
    /\ agent.calls[t] # <<>>
    /\ agent' = [agent EXCEPT !.blocked = Head(agent.calls[t]),
                              !.calls[t] = Tail(@)]
    /\ UNCHANGED <<agent_pipe, posted, exam_commands, agent_messages, agent_faults>>

-----------------------------------------------------------------------------
(* The windows around an exam.                                             *)

exam_host_engaged(a) == a.host = "engaged"

Show(a, w) == [a EXCEPT !.visible = @ \cup {w}]
Hide(a, w) == [a EXCEPT !.visible = @ \ {w}]

restore_exam_suppressed_windows(a) ==
    LET back  == "broadcast" \in a.was_visible
        shown == [a EXCEPT !.visible = a.was_visible, !.suppressed = FALSE,
                           !.restored = @ \/ (back /\ ~a.viewing)]
    IN  IF ~a.suppressed THEN a
        ELSE IF back /\ a.mode = "focus" /\ a.lock_input
             THEN apply_broadcast_input_lock(shown, "ui", TRUE)
             ELSE shown

restore_control_window_order(a) ==
    IF exam_host_engaged(a)
    THEN apply_broadcast_input_lock(
            [a EXCEPT !.suppressed = TRUE, !.visible = {},
                      !.was_visible = IF a.suppressed THEN @ ELSE a.visible],
            "ui", FALSE)
    ELSE restore_exam_suppressed_windows(a)

\* The pairing window shows choices, a code or an outcome, or goes away.
show_pairing(a, view) == [a EXCEPT !.pairing = view]
hide_pairing_view(a) == [a EXCEPT !.pairing = "hidden"]

-----------------------------------------------------------------------------
(* The UI thread: messages the pipe thread sends it.                       *)

on_lock(a, lock) ==
    IF exam_host_engaged(a) THEN a
    ELSE restore_control_window_order(
            IF lock THEN Show([a EXCEPT !.locked = TRUE], "lock")
                    ELSE Hide([a EXCEPT !.locked = FALSE], "lock"))

\* A bug the checks must catch: the end of an exam may show the chat window
\* again, although the teacher went away during the exam.
on_server_online_keeping(a, now) ==
    IF now THEN [a EXCEPT !.connected = TRUE]
    ELSE [apply_broadcast_input_lock(a, "ui", FALSE) EXCEPT
             !.connected = FALSE, !.viewing = FALSE,
             !.visible = @ \ {"broadcast", "chat"}]

on_server_online(a, now) ==
    IF now THEN [a EXCEPT !.connected = TRUE]
    ELSE [apply_broadcast_input_lock(a, "ui", FALSE) EXCEPT
             !.connected = FALSE, !.viewing = FALSE,
             !.visible = @ \ {"broadcast", "chat"},
             !.was_visible = @ \ {"chat"}]

on_chat(a) == IF exam_host_engaged(a) THEN a ELSE Show(a, "chat")

(* ... and messages from its queue.                                        *)

on_broadcast_updated(a, show) ==
    LET updated == CASE ~show -> apply_broadcast_input_lock(Hide(a, "broadcast"), "ui", FALSE)
                     [] show /\ a.mode = "focus" ->
                          apply_broadcast_input_lock(Show(a, "broadcast"), "ui",
                                                     a.demo \/ a.lock_input)
                     [] OTHER -> apply_broadcast_input_lock(Show(a, "broadcast"), "ui", FALSE)
    IN  IF a.mode = "focus" THEN restore_control_window_order(updated) ELSE updated

on_mode_changed(a, mode, lock) ==
    apply_broadcast_input_lock(IF a.viewing THEN Show(a, "broadcast") ELSE a, "ui",
                               mode = "focus" /\ lock /\ a.viewing)

on_annotation_updated(a, show) ==
    restore_control_window_order(
        IF show THEN Show(a, "annotation") ELSE Hide(a, "annotation"))

Posted(m) ==
    CASE m.type = "broadcast"      -> on_broadcast_updated(agent, m.on)
      [] m.type = "mode"           -> on_mode_changed(agent, m.mode, m.on)
      [] m.type = "annotation"     -> on_annotation_updated(agent, m.on)
      [] m.type = "server_offline" -> on_server_online(agent, FALSE)
      [] m.type = "host_status"    -> IF agent.host = "failed"
                                      THEN restore_control_window_order(
                                              [agent EXCEPT !.host = "idle"])
                                      ELSE agent
      [] m.type \in {"exam", "service_gone"} -> restore_control_window_order(agent)

UiFree == agent.calls["ui"] = <<>>

\* The UI thread takes the next posted message.
ui_dispatch ==
    /\ UiFree /\ posted # <<>>
    /\ Head(posted).type = "exam" => exam_commands = <<>>
    /\ agent' = Noted(Posted(Head(posted)))
    /\ posted' = Tail(posted)
    /\ UNCHANGED <<agent_pipe, exam_commands, agent_messages, agent_faults>>

\* An exam command: the host is stopped, or started, which may be refused or fail.
ui_exam_command ==
    /\ UiFree /\ posted # <<>> /\ Head(posted).type = "exam" /\ exam_commands # <<>>
    /\ \E host \in IF Head(exam_commands) = "stop" THEN {"idle"}
                   ELSE {agent.host, "engaged", "idle"} :
          agent' = Noted(restore_control_window_order([agent EXCEPT !.host = host]))
    /\ exam_commands' = Tail(exam_commands)
    /\ UNCHANGED <<agent_pipe, posted, agent_messages, agent_faults>>

\* The student: the tray icon, and closing a window.
ui_tray ==
    /\ UiFree /\ ~exam_host_engaged(agent)
    /\ agent' = IF ~agent.connected THEN show_pairing(agent, "status")
                ELSE IF "chat" \in agent.visible THEN Hide(agent, "chat")
                ELSE Show(agent, "chat")
    /\ UNCHANGED <<agent_pipe, posted, exam_commands, agent_messages, agent_faults>>

ui_close(w) ==
    /\ UiFree /\ w \in agent.visible /\ w # "annotation"
    /\ agent' = Hide(agent, w)
    /\ UNCHANGED <<agent_pipe, posted, exam_commands, agent_messages, agent_faults>>

submit_pairing_selection ==
    /\ UiFree /\ agent.pairing = "choices"
    /\ agent' = [agent EXCEPT !.pairing = "waiting"]
    /\ UNCHANGED <<agent_pipe, posted, exam_commands, agent_messages, agent_faults>>

\* The timer of a pairing status that has been up for eight seconds.
pairing_status_over ==
    /\ UiFree /\ agent.pairing = "status"
    /\ agent' = hide_pairing_view(agent)
    /\ UNCHANGED <<agent_pipe, posted, exam_commands, agent_messages, agent_faults>>

AgentFault == agent_faults < MaxAgentFaults /\ agent_faults' = agent_faults + 1

\* The exam host fails, which a callback reports to the UI thread.
host_fails ==
    /\ UiFree /\ exam_host_engaged(agent) /\ AgentFault
    /\ Len(posted) < MaxPosted
    /\ agent' = [agent EXCEPT !.host = "failed"]
    /\ posted' = Append(posted, [type |-> "host_status"])
    /\ UNCHANGED <<agent_pipe, exam_commands, agent_messages>>

\* The technician's recovery chord stops the host from its own window; the
\* windows the exam hid stay hidden until the next message restores them.
recovery_chord ==
    /\ UiFree /\ exam_host_engaged(agent)
    /\ agent' = [agent EXCEPT !.host = "idle"]
    /\ UNCHANGED <<agent_pipe, posted, exam_commands, agent_messages, agent_faults>>

-----------------------------------------------------------------------------
(* The pipe thread: a message of the service.                              *)

PipeFree == agent.calls["pipe"] = <<>>

Received ==
    /\ agent_pipe /\ PipeFree
    /\ agent_messages < MaxAgentMessages /\ agent_messages' = agent_messages + 1
    /\ UNCHANGED <<agent_pipe, agent_faults>>

\* Messages it sends on to the UI thread and waits for.
receive_sent ==
    /\ Received /\ UiFree
    /\ \E a \in {on_lock(agent, TRUE), on_lock(agent, FALSE), on_chat(agent)} :
          agent' = Sent(a)
    /\ UNCHANGED <<posted, exam_commands>>

receive_server_online ==
    /\ Received /\ UiFree
    /\ \E now \in BOOLEAN : agent' = Sent(on_server_online(agent, now))
    /\ UNCHANGED <<posted, exam_commands>>

receive_remote ==
    /\ Received
    /\ agent' = Noted(stop_remote_control(agent))
       \/ agent' = Noted([agent EXCEPT !.remote = TRUE,
                                       !.calls["pipe"] = Append(@, TRUE)])
    /\ UNCHANGED <<posted, exam_commands>>

Post(messages) ==
    /\ Len(posted) + Len(messages) <= MaxPosted
    /\ posted' = posted \o messages

receive_host_snapshot ==
    /\ Received
    /\ agent' = [agent EXCEPT !.viewing = TRUE]
    /\ Post(<<[type |-> "broadcast", on |-> TRUE]>>)
    /\ UNCHANGED exam_commands

receive_broadcast_mode ==
    /\ Received
    /\ \E mode \in {"focus", "windowed"}, lock \in BOOLEAN :
          /\ agent' = [agent EXCEPT !.mode = mode, !.lock_input = lock]
          /\ Post(<<[type |-> "mode", mode |-> mode, on |-> lock]>>)
    /\ UNCHANGED exam_commands

receive_broadcast_stop ==
    /\ Received
    /\ agent' = Noted(apply_broadcast_input_lock(
                         [agent EXCEPT !.viewing = FALSE], "pipe", FALSE))
    /\ Post(<<[type |-> "broadcast", on |-> FALSE]>>)
    /\ UNCHANGED exam_commands

receive_overlay ==
    /\ Received
    /\ \E on \in BOOLEAN : Post(<<[type |-> "annotation", on |-> on]>>)
    /\ UNCHANGED <<agent, exam_commands>>

\* The bridge keeps one start, and a stop clears what came before it.
queue_exam_command_for_ui(c) ==
    IF c = "stop" THEN <<"stop">>
    ELSE Append(SelectSeq(exam_commands, LAMBDA x : x # "start"), "start")

receive_exam ==
    /\ Received
    /\ \E c \in {"start", "stop"} : exam_commands' = queue_exam_command_for_ui(c)
    /\ Post(<<[type |-> "exam"]>>)
    /\ UNCHANGED agent

receive_pairing ==
    /\ Received
    /\ \E view \in {"choices", "code", "status"} :
          agent' = show_pairing(agent, view)
    /\ UNCHANGED <<posted, exam_commands>>

\* The pipe is lost.  What the service controlled ends, and an exam too.
pipe_lost ==
    /\ agent_pipe /\ PipeFree /\ AgentFault
    /\ agent_pipe' = FALSE
    /\ agent' = Noted([apply_broadcast_input_lock(
                           hide_pairing_view(stop_remote_control(agent)), "pipe", FALSE)
                          EXCEPT !.connected = FALSE, !.viewing = FALSE])
    /\ exam_commands' = queue_exam_command_for_ui("stop")
    /\ Post(<<[type |-> "broadcast", on |-> FALSE], [type |-> "server_offline"],
              [type |-> "exam"], [type |-> "service_gone"]>>)
    /\ UNCHANGED agent_messages

pipe_connected ==
    /\ ~agent_pipe /\ PipeFree
    /\ agent_pipe' = TRUE
    /\ UNCHANGED <<agent, posted, exam_commands, agent_messages, agent_faults>>

AgentNext ==
    \/ \E t \in {"ui", "pipe"} : block_input(t)
    \/ ui_dispatch \/ ui_exam_command
    \/ ui_tray
    \/ \E w \in Windows : ui_close(w)
    \/ submit_pairing_selection \/ pairing_status_over
    \/ host_fails \/ recovery_chord
    \/ receive_sent \/ receive_server_online \/ receive_remote
    \/ receive_host_snapshot \/ receive_broadcast_mode \/ receive_broadcast_stop
    \/ receive_overlay \/ receive_exam \/ receive_pairing
    \/ pipe_lost \/ pipe_connected

AgentSpec == AgentInit /\ [][AgentNext]_agentVars

-----------------------------------------------------------------------------
\* A student is not left in the teacher's hands when the service is gone.  Once
\* the UI thread has handled what the loss of the pipe posted, no exam is on
\* the screen, nobody controls the machine, no chat with nobody behind it and no
\* pairing code is shown, and the keyboard and mouse are free (pipe_control_loop
\* and window_proc).  The two exceptions are kept as history: the end of an exam
\* shows again a broadcast that ended meanwhile, and the two threads' calls of
\* BlockInput can overtake each other.
StudentReleased ==
    ~agent_pipe /\ posted = <<>> /\ agent.calls = [ui |-> <<>>, pipe |-> <<>>] =>
        /\ ~exam_host_engaged(agent)
        /\ ~agent.remote
        /\ "chat" \notin agent.visible
        /\ agent.pairing \notin {"choices", "code"}
        /\ "broadcast" \in agent.visible => agent.restored
        /\ agent.blocked => agent.restored \/ agent.raced

=============================================================================
