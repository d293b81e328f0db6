---------------------------- MODULE RemoteSession ----------------------------
(***************************************************************************)
(* A remote session with a student machine: the viewer process of the      *)
(* server (server/src/remote_session_process.cpp) with its worker thread,  *)
(* the interlocks of the operator's main loop (server/app/main.cpp), and   *)
(* the streaming host of the client                                        *)
(* (client/src/stream_host_service.cpp), driven by the commands the        *)
(* client service gets (client/service/main.cpp).                          *)
(*                                                                         *)
(* Two kinds of session exist.  The viewer is started by the worker after  *)
(* a preflight and an authorization, and tells the client nothing; the     *)
(* older window sends remote_start and remote_end, which start and stop    *)
(* the streaming host.  That host is a Windows service of its own: it      *)
(* outlives the client service, whose supervisor knows only in memory that *)
(* it started it.                                                          *)
(***************************************************************************)
EXTENDS Naturals, Sequences

CONSTANTS
    MaxSessions,       \* bound: sessions of either kind an operator starts
    MaxRemoteCommands, \* commands under way to the client
    MaxRemoteFaults    \* bound: failures

ASSUME RemoteAssumption ==
    MaxSessions \in Nat /\ MaxRemoteCommands \in Nat /\ MaxRemoteFaults \in Nat

VARIABLES
    session,       \* current.state of the RemoteSessionProcess
    stop_requested,
    worker_at,     \* where run() is
    viewer,        \* the child: "none", "suspended", "contained"
    preflight,     \* the preflight process runs
    remote_exam,   \* exam_active() of the client
    remote_online, \* the client's status is not offline
    remote_window, \* the older window: "closed", "target", or "blank" when
                   \* it was opened and its command could not be sent
    remote_wire,   \* commands on their way to the client
    client_service,\* the client's service: "up" or "down"
    supervisor,    \* StreamHostSupervisor
    stream_host,   \* the host: "stopped", "started" (by the supervisor) or
                   \* "foreign" (it was running already)
    abandoned,     \* history: since the host was started Windows refused to
                   \* stop it or the client service died
    sessions, remote_faults

remoteVars == <<session, stop_requested, worker_at, viewer, preflight, remote_exam,
                remote_online, remote_window, remote_wire, client_service, supervisor,
                stream_host, abandoned, sessions, remote_faults>>

serverVars == <<session, stop_requested, worker_at, viewer, preflight>>
clientVars == <<client_service, supervisor, stream_host, abandoned>>
worldVars == <<remote_exam, remote_online, remote_window, remote_wire, sessions>>

ActiveStates == {"preflighting", "launching", "running", "stopping"}

NewSupervisor == [active |-> FALSE, started |-> FALSE]

RemoteInit ==
    /\ session = "idle" /\ stop_requested = FALSE /\ worker_at = "none"
    /\ viewer = "none" /\ preflight = FALSE
    /\ remote_exam = FALSE /\ remote_online = TRUE
    /\ remote_window = "closed" /\ remote_wire = <<>>
    /\ client_service = "up" /\ supervisor = NewSupervisor
    /\ stream_host \in {"stopped", "foreign"} /\ abandoned = FALSE
    /\ sessions = 0 /\ remote_faults = 0

RemoteFault == remote_faults < MaxRemoteFaults /\ remote_faults' = remote_faults + 1

-----------------------------------------------------------------------------
(* The operator's thread.                                                  *)

\* What a snapshot of the registry says of the client, besides that it is online:
\* how many records have its id, whether its connection is authenticated, whether
\* its address is a number.
RegistrySnapshots == [records : 0 .. 2, authenticated : BOOLEAN, numeric : BOOLEAN]

resolve_remote_session_target(found) ==
    found.records = 1 /\ remote_online /\ found.authenticated /\ found.numeric

\* The start button, and RemoteSessionProcess::start(), which first waits for
\* the worker of the previous session.
start_remote_session ==
    /\ remote_window = "closed" /\ session \notin ActiveStates
    /\ ~remote_exam
    /\ \E found \in RegistrySnapshots : resolve_remote_session_target(found)
    /\ worker_at = "none"
    /\ sessions < MaxSessions /\ sessions' = sessions + 1
    /\ session' = "preflighting" /\ stop_requested' = FALSE
    /\ worker_at' = "preflight"
    /\ UNCHANGED <<viewer, preflight, remote_exam, remote_online, remote_window,
                   remote_wire, clientVars, remote_faults>>

\* stop() does nothing to a session that is over.
stop_session == session \in ActiveStates /\ stop_requested' = TRUE

\* The operator stops the session, or shuts the program down.
stop_remote_session ==
    /\ stop_session
    /\ UNCHANGED <<session, worker_at, viewer, preflight, worldVars, clientVars,
                   remote_faults>>

\* Every frame of the main loop: an exam or a lost client ends the session.
enforce_interlocks ==
    /\ session \in {"running", "preflighting", "launching"}
    /\ remote_exam \/ ~remote_online
    /\ stop_session
    /\ UNCHANGED <<session, worker_at, viewer, preflight, worldVars, clientVars,
                   remote_faults>>

CanSendRemote == remote_online /\ Len(remote_wire) < MaxRemoteCommands

SendRemote(command) ==
    remote_wire' = IF CanSendRemote THEN Append(remote_wire, command) ELSE remote_wire

\* The older window asks nobody whether an exam is running.
open_remote_window ==
    /\ remote_window = "closed" /\ session \notin ActiveStates /\ remote_online
    /\ sessions < MaxSessions /\ sessions' = sessions + 1
    /\ SendRemote("remote_start")
    /\ remote_window' = IF CanSendRemote THEN "target" ELSE "blank"
    /\ UNCHANGED <<serverVars, clientVars, remote_exam, remote_online, remote_faults>>

close_remote_window ==
    /\ remote_window # "closed"
    /\ IF remote_window = "target" THEN SendRemote("remote_end") ELSE UNCHANGED remote_wire
    /\ remote_window' = "closed"
    /\ UNCHANGED <<serverVars, clientVars, remote_exam, remote_online, sessions,
                   remote_faults>>

-----------------------------------------------------------------------------
(* The worker.                                                             *)

set_state(state) == session' = state /\ worker_at' = "none"

\* run_preflight(): the viewer is asked for what it can show.
preflight_launch ==
    /\ worker_at = "preflight" /\ ~preflight
    /\ \/ /\ preflight' = TRUE
          /\ UNCHANGED <<session, worker_at, remote_faults>>
       \/ /\ RemoteFault
          /\ set_state("failed")
          /\ UNCHANGED preflight
    /\ UNCHANGED <<stop_requested, viewer, worldVars, clientVars>>

\* It answers; or it is terminated when a stop is requested, when it times
\* out, or when its answer is not what was asked for.
preflight_done ==
    /\ worker_at = "preflight" /\ preflight
    /\ preflight' = FALSE
    /\ \/ session' = "launching" /\ worker_at' = "authorize" /\ UNCHANGED remote_faults
       \/ stop_requested /\ set_state("failed") /\ UNCHANGED remote_faults
       \/ RemoteFault /\ set_state("failed")
    /\ UNCHANGED <<stop_requested, viewer, worldVars, clientVars>>

\* The authorization is the last look at the exam before the launch.
authorize ==
    /\ worker_at = "authorize"
    /\ IF remote_exam THEN set_state("failed")
       ELSE worker_at' = "launch" /\ UNCHANGED session
    /\ UNCHANGED <<stop_requested, viewer, preflight, worldVars, clientVars,
                   remote_faults>>

launch ==
    /\ worker_at = "launch"
    /\ \/ /\ viewer' = "suspended" /\ worker_at' = "contain"
          /\ UNCHANGED <<session, remote_faults>>
       \/ RemoteFault /\ set_state("failed") /\ UNCHANGED viewer
    /\ UNCHANGED <<stop_requested, preflight, worldVars, clientVars>>

\* A bug the checks must catch: the suspended process is left behind when it
\* cannot be put into its job.
contain_leaving ==
    /\ worker_at = "contain"
    /\ \/ /\ viewer' = "contained" /\ worker_at' = "watch" /\ session' = "running"
          /\ UNCHANGED remote_faults
       \/ RemoteFault /\ set_state("failed") /\ UNCHANGED viewer
    /\ UNCHANGED <<stop_requested, preflight, worldVars, clientVars>>

\* The child is put into a job that dies with the server, and resumed.
contain ==
    /\ worker_at = "contain"
    /\ \/ /\ viewer' = "contained" /\ worker_at' = "watch" /\ session' = "running"
          /\ UNCHANGED remote_faults
       \/ RemoteFault /\ set_state("failed") /\ viewer' = "none"
    /\ UNCHANGED <<stop_requested, preflight, worldVars, clientVars>>

\* The loop of run(): it notices a stop and closes the viewer's windows.
watch_stop ==
    /\ worker_at = "watch" /\ stop_requested
    /\ session' = "stopping" /\ worker_at' = "closing"
    /\ UNCHANGED <<stop_requested, viewer, preflight, worldVars, clientVars,
                   remote_faults>>

\* The viewer ends by itself, after being asked to, or by force.
viewer_exits ==
    /\ worker_at \in {"watch", "closing"}
    /\ viewer' = "none" /\ worker_at' = "exited"
    /\ UNCHANGED <<session, stop_requested, preflight, worldVars, clientVars,
                   remote_faults>>

session_exited ==
    /\ worker_at = "exited"
    /\ set_state("exited")
    /\ UNCHANGED <<stop_requested, viewer, preflight, worldVars, clientVars,
                   remote_faults>>

-----------------------------------------------------------------------------
(* The client.                                                             *)

\* start_stream_host_service() finds the host running, starts it, or fails.
handle_remote_session_start ==
    \/ /\ stream_host = "stopped"
       /\ stream_host' = "started" /\ abandoned' = FALSE
       /\ supervisor' = [active |-> TRUE, started |-> TRUE]
       /\ UNCHANGED remote_faults
    \/ /\ stream_host # "stopped"
       /\ supervisor' = [supervisor EXCEPT !.active = TRUE]
       /\ UNCHANGED <<stream_host, abandoned, remote_faults>>
    \/ /\ stream_host = "stopped" /\ RemoteFault
       /\ supervisor' = [supervisor EXCEPT !.active = TRUE]
       /\ UNCHANGED <<stream_host, abandoned>>

\* stop_stream_host_service(), whose result nobody looks at: after a failure
\* the supervisor no longer knows that the host is its own.
StopHost ==
    /\ supervisor' = NewSupervisor
    /\ \/ /\ stream_host' = "stopped" /\ abandoned' = FALSE
          /\ UNCHANGED remote_faults
       \/ /\ stream_host # "stopped" /\ RemoteFault
          /\ abandoned' = (stream_host = "started")
          /\ UNCHANGED stream_host

\* A bug the checks must catch: a session that ends leaves the host to the next one.
handle_remote_session_stop_keeping ==
    /\ supervisor' = [supervisor EXCEPT !.active = FALSE]
    /\ UNCHANGED <<stream_host, abandoned, remote_faults>>

\* Also handle_disconnect().
handle_remote_session_stop ==
    IF supervisor.started THEN StopHost
    ELSE /\ supervisor' = [supervisor EXCEPT !.active = FALSE]
         /\ UNCHANGED <<stream_host, abandoned, remote_faults>>

\* An exam stops the host whoever started it.
handle_exam_lockdown == StopHost

receive_remote_command ==
    /\ remote_wire # <<>>
    /\ remote_wire' = Tail(remote_wire)
    /\ CASE Head(remote_wire) = "remote_start" -> handle_remote_session_start
         [] Head(remote_wire) = "remote_end" -> handle_remote_session_stop
         [] Head(remote_wire) = "exam_start" -> handle_exam_lockdown
    /\ UNCHANGED <<serverVars, remote_exam, remote_online, remote_window, client_service,
                   sessions>>

\* service_main() is told to stop: the session ends with the service.
client_service_stops ==
    /\ client_service = "up" /\ client_service' = "down"
    /\ remote_online' = FALSE /\ remote_wire' = <<>> /\ remote_exam' = FALSE
    /\ handle_remote_session_stop
    /\ UNCHANGED <<serverVars, remote_window, sessions>>

\* It dies, and with it what the supervisor knew; the host goes on.
client_service_crashes ==
    /\ client_service = "up" /\ client_service' = "down"
    /\ remote_online' = FALSE /\ remote_wire' = <<>> /\ remote_exam' = FALSE
    /\ supervisor' = NewSupervisor
    /\ abandoned' = (stream_host = "started")
    /\ RemoteFault
    /\ UNCHANGED <<serverVars, remote_window, stream_host, sessions>>

\* Its start sweeps the filters of an exam, and no streaming host.
client_service_starts ==
    /\ client_service = "down" /\ client_service' = "up"
    /\ UNCHANGED <<serverVars, worldVars, supervisor, stream_host, abandoned, remote_faults>>

-----------------------------------------------------------------------------
(* External: exams begin and end, the client's connection breaks.          *)

remote_exam_starts ==
    /\ ~remote_exam /\ remote_online
    /\ Len(remote_wire) < MaxRemoteCommands
    /\ remote_exam' = TRUE
    /\ SendRemote("exam_start")
    /\ UNCHANGED <<serverVars, clientVars, remote_online, remote_window, sessions,
                   remote_faults>>

remote_exam_ends ==
    /\ remote_exam /\ remote_exam' = FALSE
    /\ UNCHANGED <<serverVars, clientVars, remote_online, remote_window, remote_wire,
                   sessions, remote_faults>>

remote_disconnects ==
    /\ remote_online /\ remote_online' = FALSE
    /\ remote_wire' = <<>>
    /\ remote_exam' = FALSE
    /\ handle_remote_session_stop
    /\ UNCHANGED <<serverVars, remote_window, client_service, sessions>>

remote_reconnects ==
    /\ client_service = "up"
    /\ ~remote_online /\ remote_online' = TRUE
    /\ UNCHANGED <<serverVars, clientVars, remote_exam, remote_window, remote_wire,
                   sessions, remote_faults>>

RemoteNext ==
    \/ start_remote_session
    \/ stop_remote_session
    \/ enforce_interlocks
    \/ open_remote_window
    \/ close_remote_window
    \/ preflight_launch
    \/ preflight_done
    \/ authorize
    \/ launch
    \/ contain
    \/ watch_stop
    \/ viewer_exits
    \/ session_exited
    \/ receive_remote_command
    \/ client_service_crashes
    \/ client_service_stops
    \/ client_service_starts
    \/ remote_exam_starts
    \/ remote_exam_ends
    \/ remote_disconnects
    \/ remote_reconnects

RemoteSpec == RemoteInit /\ [][RemoteNext]_remoteVars

-----------------------------------------------------------------------------
\* A session leaves nothing behind: once its state says that it failed or
\* exited no process of it runs, whichever stop, timeout, refusal or failure
\* ended it; and a streaming host the client started for a teacher runs only
\* while a session is on, unless since that start Windows refused to stop it or
\* the client service died (RemoteSessionProcess::Impl::run(),
\* StreamHostSupervisor; the promise at stream_host_service.hpp:31-34 has no such
\* exception).
NothingLeftBehind ==
    /\ session \notin ActiveStates => viewer = "none" /\ ~preflight
    /\ stream_host = "started" => supervisor.active \/ abandoned

=============================================================================
