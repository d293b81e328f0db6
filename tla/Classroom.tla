----------------------------- MODULE Classroom ------------------------------
(***************************************************************************)
(* One client's seat: its service (client/service/main.cpp,                *)
(* client/src/client_control.cpp) dials the server's control plane         *)
(* (server/src/control_plane.cpp) over connections of the dispatcher       *)
(* (common/src/iocp_dispatcher.cpp), and the server decides from what the  *)
(* connections report whether an exam may start on the machine.            *)
(*                                                                         *)
(* Connections are numbered in the order they are accepted.  Each one has  *)
(* a thread of the server that reads it, a thread that closes it, and a    *)
(* mutex the operator's commands share with its reader.                    *)
(***************************************************************************)
EXTENDS ClientRegistry, Sequences, FiniteSets

CONSTANTS
    MaxConnections,  \* connections the client opens
    MaxBoot,         \* boots of the client machine
    MaxCommands,     \* operator commands
    MaxFaults,       \* broken connections, restarts, failed workers, full queues
    MaxPending,      \* commands a connection's send queue holds
    MaxOutbound      \* messages the service's queue holds

ASSUME BoundsAssumption ==
    /\ {MaxConnections, MaxBoot, MaxPending, MaxOutbound} \subseteq Nat \ {0}
    /\ {MaxCommands, MaxFaults} \subseteq Nat

Conns == 1..MaxConnections
NoConn == 0

VARIABLES
    machine,   \* the client machine: its boot, its write filter, and whether its
               \* edition of Windows has one
    service,   \* the client service's memory
    conn,      \* every connection, both ends
    owner,     \* client_connections_: the connection that speaks for the client
    record,    \* the client's registry record
    exam,      \* the active exam context: NoExam, or the boot it was admitted on
    starting,  \* a start_exam call in progress
    used,      \* budgets spent: connections, commands, faults, operations
    carrier    \* history: the connection whose report last set the record's proof

vars == <<machine, service, conn, owner, record, exam, starting, used, carrier>>

NoExam == 0

NewConnection ==
    [stage |-> "none", open |-> FALSE, live |-> FALSE, client |-> "none", boot |-> 0,
     previous |-> NoConn, next |-> 0, down |-> <<>>, expect |-> 0,
     up |-> <<>>, reported |-> FALSE]

\* A service process starts without an operation, a link or queued messages.
\* dropped is history: the last report about protection was lost in the service.
NewService ==
    [op |-> 0, action |-> 0, phase |-> "idle", worker |-> "idle",
     link |-> NoConn, race |-> {}, winner |-> NoConn, out |-> <<>>,
     exam |-> FALSE, dropped |-> FALSE]

\* What is left of a connection once the server has forgotten it.
Dead == [NewConnection EXCEPT !.stage = "failed", !.client = "gone"]

Forget(t, c, stage) ==
    [t EXCEPT ![c] = IF t[c].client = "gone" THEN [Dead EXCEPT !.stage = stage]
                     ELSE [Dead EXCEPT !.stage = stage, !.client = t[c].client,
                                       !.boot = t[c].boot, !.down = t[c].down,
                                       !.expect = t[c].expect]]

\* The client's end goes away; the server is not told.
Hang(t, c) ==
    [t EXCEPT ![c] = IF t[c].live THEN [t[c] EXCEPT !.client = "gone", !.down = <<>>]
                     ELSE [Dead EXCEPT !.stage = t[c].stage]]

NotStarting == [conn |-> NoConn, step |-> "idle"]

Init ==
    /\ \E on, supported \in BOOLEAN :
          /\ on => supported
          /\ machine = [boot |-> 1, guarded |-> on, armed |-> on, guardedBoots |-> {},
                        supported |-> supported]
    /\ service = NewService
    /\ conn = [c \in Conns |-> NewConnection]
    /\ owner = NoConn
    /\ record = NoRecord
    /\ exam = NoExam
    /\ starting = NotStarting
    /\ used = [connections |-> 0, commands |-> 0, faults |-> 0, actions |-> 0, base |-> 0]
    /\ carrier = NoConn

\* Boots in which the write filter protects the machine.
GuardedBoots == machine.guardedBoots \cup (IF machine.guarded THEN {machine.boot} ELSE {})

-----------------------------------------------------------------------------
(* The dispatcher.  Its send queue, the posted send and the network are one  *)
(* sequence per connection: sends are posted one at a time, in order.       *)

\* A send is refused on a closed connection and at the queue's limit.
CanSend(c) == conn[c].open /\ Len(conn[c].down) < MaxPending

\* A command is sealed with the sender's next number.
encode_authenticated_command(t, c, message) == [message EXCEPT !.seq = t[c].next]

\* A bug the checks must catch: the sequence advances although the queue is full.
send_authenticated_skip(t, c, message) ==
    [t EXCEPT ![c].next = @ + 1,
              ![c].down = IF CanSend(c) THEN Append(@, encode_authenticated_command(t, c, message)) ELSE @]

\* The next sequence number goes out with the command, or nothing changes.
send_authenticated_locked(t, c, message) ==
    IF CanSend(c)
    THEN [t EXCEPT ![c].next = @ + 1,
                   ![c].down = Append(@, encode_authenticated_command(t, c, message))]
    ELSE t

\* The socket closes; what was sent may still arrive, and the control plane
\* hears of it later.
close_connection(t, c) == IF c = NoConn THEN t ELSE [t EXCEPT ![c].open = FALSE]

\* The peer is gone or silent beyond the idle timeout.
watchdog_loop(c) ==
    /\ conn[c].open
    /\ conn[c].client = "gone"
    /\ conn' = close_connection(conn, c)
    /\ UNCHANGED <<machine, service, owner, record, exam, starting, used, carrier>>

Fault == [used EXCEPT !.faults = @ + 1]

\* A connection breaks, at any time.
TransportFails(c) ==
    /\ used.faults < MaxFaults
    /\ conn[c].open /\ conn[c].client # "gone"
    /\ conn' = close_connection(conn, c)
    /\ used' = Fault
    /\ UNCHANGED <<machine, service, owner, record, exam, starting, carrier>>

-----------------------------------------------------------------------------
(* The control plane: ownership of the seat.                                *)

is_current_state(c) ==
    /\ conn[c].live
    /\ conn[c].stage = "authenticated"
    /\ owner = c

\* A handshake that has sent its acceptance goes on when its connection closes.
Unfinished(c) == IF conn[c].stage = "accepted" THEN "accepted" ELSE "failed"

\* A bug the checks must catch: any disconnect marks the client offline.
on_disconnected_any(c) ==
    /\ conn[c].live /\ ~conn[c].open
    /\ conn' = Forget(conn, c, Unfinished(c))
    /\ owner' = NoConn
    /\ record' = demote_uwf_verification(set_status(record, "offline"))
    /\ UNCHANGED <<machine, service, exam, starting, used, carrier>>

\* Only the connection that still owns the seat takes it down with it.
on_disconnected(c) ==
    /\ conn[c].live /\ ~conn[c].open
    /\ conn' = Forget(conn, c, Unfinished(c))
    /\ IF owner = c
       THEN /\ owner' = NoConn
            /\ record' = demote_uwf_verification(set_status(record, "offline"))
       ELSE UNCHANGED <<owner, record>>
    /\ UNCHANGED <<machine, service, exam, starting, used, carrier>>

\* Hello, challenge and proof are exchanged and the acceptance leaves; the seat
\* is claimed in the next step.
handshake(c) ==
    /\ conn[c].open /\ conn[c].stage = "auth_hello"
    /\ conn' = [conn EXCEPT ![c].stage = "accepted"]
    /\ UNCHANGED <<machine, service, owner, record, exam, starting, used, carrier>>

\* A bug the checks must catch: the earlier session's proof is not retired.
publish_keeping_proof(c) ==
    /\ conn[c].stage = "accepted" /\ conn[c].live
    /\ conn' = [conn EXCEPT ![c].stage = "authenticated", ![c].previous = owner]
    /\ owner' = c
    /\ record' = upsert(record, "online")
    /\ UNCHANGED <<machine, service, exam, starting, used, carrier>>

\* Under the ownership lock: the seat changes hands, an earlier proof ends and
\* the client is online.
publish(c) ==
    /\ conn[c].stage = "accepted"
    /\ IF conn[c].live
       THEN /\ conn' = [conn EXCEPT ![c].stage = "authenticated", ![c].previous = owner]
            /\ owner' = c
            /\ record' = upsert(demote_uwf_verification(record), "online")
       ELSE /\ conn' = [conn EXCEPT ![c].stage = "failed"]
            /\ UNCHANGED <<owner, record>>
    /\ UNCHANGED <<machine, service, exam, starting, used, carrier>>

\* The connection the seat was taken from is closed, outside the lock.
disconnect_previous(c) ==
    /\ conn[c].previous # NoConn
    /\ conn' = [close_connection(conn, conn[c].previous) EXCEPT ![c].previous = NoConn]
    /\ UNCHANGED <<machine, service, owner, record, exam, starting, used, carrier>>

\* The connection's mutex is held by a handshake that has not returned and by
\* an exam start between its admission and its send.
Locked(c) ==
    \/ conn[c].previous # NoConn
    \/ starting.step = "admitted" /\ starting.conn = c

UwfReports == {"uwf_report", "uwf_fleet_status"}

\* What a client message does to the record of the seat's owner.
Report(m) ==
    CASE m.type = "hello"            -> touch(upsert(record, "online"))
      [] m.type = "uwf_report"       -> set_uwf_report(record, m.outcome)
      [] m.type = "uwf_fleet_status" -> set_uwf_fleet_status(record, m)

\* The reader of a connection takes its next message.  A report of protection
\* from a connection that lost the seat closes it; a heartbeat or a status is
\* ignored.
process_authenticated(c) ==
    /\ conn[c].stage = "authenticated" /\ conn[c].live /\ ~Locked(c)
    /\ conn[c].up # <<>>
    /\ LET m    == Head(conn[c].up)
           rest == [conn EXCEPT ![c].up = Tail(@)]
           uwf  == m.type \in UwfReports
       IN  IF is_current_state(c)
           THEN /\ record' = Report(m)
                /\ conn' = [rest EXCEPT ![c].reported = @ \/ uwf]
                /\ carrier' = IF m.phase = "verified_protected" THEN c ELSE carrier
           ELSE /\ conn' = IF uwf THEN close_connection(rest, c) ELSE rest
                /\ UNCHANGED <<record, carrier>>
    /\ UNCHANGED <<machine, service, owner, exam, starting, used>>

-----------------------------------------------------------------------------
(* The control plane: the operator's commands.                              *)

Command(type) == [type |-> type, seq |-> 0, op |-> 0, action |-> 0]

Spend == [used EXCEPT !.commands = @ + 1]

\* A command for the connection that owns the seat now, once its mutex is free.
send_command(message) ==
    IF owner = NoConn \/ Locked(owner) THEN conn
    ELSE send_authenticated_locked(conn, owner, message)

\* The configuration of a single machine: sent and forgotten.
configure_uwf_command ==
    /\ used.commands < MaxCommands
    /\ conn' = send_command(Command("uwf_configure"))
    /\ used' = Spend
    /\ UNCHANGED <<machine, service, owner, record, exam, starting, carrier>>

\* The operation is recorded before it is sent, whatever becomes of the send.
configure_uwf_fleet ==
    /\ used.commands < MaxCommands
    /\ record.known
    /\ LET action == used.actions + 1
           op     == action - used.base
       IN  /\ record' = begin_uwf_fleet_operation(record, op)
           /\ conn' = send_command([Command("uwf_fleet_configure") EXCEPT
                                       !.op = op, !.action = action])
           /\ used' = [Spend EXCEPT !.actions = action]
    /\ UNCHANGED <<machine, service, owner, exam, starting, carrier>>

\* start_exam picks the connection before it takes any lock.
start_exam ==
    /\ used.commands < MaxCommands
    /\ starting = NotStarting
    /\ owner # NoConn
    /\ starting' = [conn |-> owner, step |-> "selected"]
    /\ used' = Spend
    /\ UNCHANGED <<machine, service, conn, owner, record, exam, carrier>>

\* A bug the checks must catch: the proof is read without the ownership check.
admit_any ==
    /\ starting.step = "selected"
    /\ LET c == starting.conn
       IN  IF proves_current_protection(record) /\ exam = NoExam
           THEN /\ exam' = conn[c].boot
                /\ starting' = [starting EXCEPT !.step = "admitted"]
           ELSE /\ starting' = NotStarting
                /\ UNCHANGED exam
    /\ UNCHANGED <<machine, service, conn, owner, record, used, carrier>>

\* Under the connection's mutex and the ownership lock: the connection still
\* owns the seat, the record proves protection, and no exam is active.
admit ==
    /\ starting.step = "selected"
    /\ LET c == starting.conn
       IN  /\ conn[c].previous = NoConn
           /\ IF is_current_state(c) /\ proves_current_protection(record) /\ exam = NoExam
              THEN /\ exam' = conn[c].boot
                   /\ starting' = [starting EXCEPT !.step = "admitted"]
              ELSE /\ starting' = NotStarting
                   /\ UNCHANGED exam
    /\ UNCHANGED <<machine, service, conn, owner, record, used, carrier>>

\* The start leaves, or the context is withdrawn.
send_exam_start ==
    /\ starting.step = "admitted"
    /\ LET c == starting.conn
       IN  /\ conn' = send_authenticated_locked(conn, c, Command("exam_start"))
           /\ exam' = IF CanSend(c) THEN exam ELSE NoExam
    /\ starting' = NotStarting
    /\ UNCHANGED <<machine, service, owner, record, used, carrier>>

\* The context goes only after the stop is queued.
stop_exam ==
    /\ used.commands < MaxCommands
    /\ exam # NoExam
    /\ owner # NoConn /\ ~Locked(owner)
    /\ conn' = send_command(Command("exam_stop"))
    /\ exam' = IF CanSend(owner) THEN NoExam ELSE exam
    /\ used' = Spend
    /\ UNCHANGED <<machine, service, owner, record, starting, carrier>>

\* The server process restarts: registry, contexts and operation numbers are
\* memory.
RestartServer ==
    /\ used.faults < MaxFaults
    /\ conn' = [c \in Conns |-> IF conn[c].stage = "none" THEN conn[c] ELSE Forget(conn, c, "failed")[c]]
    /\ owner' = NoConn
    /\ record' = NoRecord
    /\ exam' = NoExam
    /\ starting' = NotStarting
    /\ used' = [Fault EXCEPT !.base = used.actions]
    /\ UNCHANGED <<machine, service, carrier>>

-----------------------------------------------------------------------------
(* The client service.                                                      *)

Message(type) ==
    [type |-> type, outcome |-> "none", operation |-> 0,
     action |-> 0, boot |-> machine.boot, phase |-> "idle", proves |-> FALSE]

\* The queue drops its oldest message at its limit.
queue_outbound_message(s, message) ==
    [s EXCEPT !.out = Append(IF Len(@) < MaxOutbound THEN @ ELSE Tail(@), message),
              !.dropped = FALSE]

\* The messages that share the queue, of which no property speaks (freeze state,
\* wake-on-LAN, metadata, snapshots, readiness, chat, help, file status), push the
\* oldest report out when they fill it.
queue_other_message ==
    /\ service.out # <<>>
    /\ used.faults < MaxFaults
    /\ service' = [service EXCEPT !.out = Tail(@), !.dropped = Tail(service.out) = <<>>]
    /\ used' = Fault
    /\ UNCHANGED <<machine, conn, owner, record, exam, starting, carrier>>

\* A fleet status names the operation the service works on; a claim of
\* protection stands on the probe in the same report.
queue_fleet_status(s, phase, proves) ==
    LET shown == IF phase = "verified_protected" /\ ~proves THEN "failed" ELSE phase
    IN  queue_outbound_message(
            [s EXCEPT !.phase = shown],
            [Message("uwf_fleet_status") EXCEPT
                !.operation = s.op, !.action = s.action, !.phase = shown, !.proves = proves])

queue_uwf_report(s, outcome) ==
    queue_outbound_message(s, [Message("uwf_report") EXCEPT !.outcome = outcome])

\* The provider's answer about the running session: whether its volume is
\* protected and the filter on, and "no" when anything could not be read.
probe_uwf_protection == {machine.guarded, FALSE}

probe_uwf_state == probe_uwf_protection

\* One thread at a time works on the write filter; a report gives way.
report_current_fleet_state_async(s) ==
    IF s.worker = "idle" THEN [s EXCEPT !.worker = "report"] ELSE s

\* A bug the checks must catch: the worker ends without a report when the
\* machine is not protected.
report_only_protection ==
    /\ service.worker = "report"
    /\ \E proves \in probe_uwf_state :
          service' = IF proves
                     THEN [queue_fleet_status(service, "verified_protected", TRUE)
                              EXCEPT !.worker = "idle"]
                     ELSE [service EXCEPT !.worker = "idle"]
    /\ UNCHANGED <<machine, conn, owner, record, exam, starting, used, carrier>>

\* What a probe that proves nothing says: that the edition has no filter, or
\* nothing about it when it failed.
UnsupportedProbe == {FALSE, ~machine.supported}

\* The machine as it is, not as an operation hoped.
report_current_fleet_state ==
    /\ service.worker = "report"
    /\ \E proves \in probe_uwf_state, unsupported \in UnsupportedProbe :
          LET phase == IF proves THEN "verified_protected"
                       ELSE IF unsupported THEN "unsupported"
                       ELSE IF service.phase = "verified_protected" THEN "verifying"
                       ELSE service.phase
          IN  service' = [queue_fleet_status(service, phase, proves) EXCEPT !.worker = "idle"]
    /\ UNCHANGED <<machine, conn, owner, record, exam, starting, used, carrier>>

\* An exception ends the worker, or its thread cannot be created: no report.
report_current_fleet_state_fails ==
    /\ service.worker = "report"
    /\ used.faults < MaxFaults
    /\ service' = [service EXCEPT !.worker = "idle", !.dropped = service.out = <<>>]
    /\ used' = Fault
    /\ UNCHANGED <<machine, conn, owner, record, exam, starting, carrier>>

\* A repeated operation number only reports; a busy service refuses.
configure_uwf_fleet_async(s, m) ==
    IF m.op = s.op THEN report_current_fleet_state_async(s)
    ELSE LET taken == [s EXCEPT !.op = m.op, !.action = m.action, !.phase = "requested"]
         IN  IF s.worker # "idle" THEN queue_fleet_status(taken, "failed", FALSE)
             ELSE [taken EXCEPT !.worker = "fleet"]

configure_uwf_async(s) ==
    IF s.worker # "idle" THEN queue_uwf_report(s, "busy") ELSE [s EXCEPT !.worker = "legacy"]

\* The fleet worker: proof first, mutation only where it is missing.
FleetProbe ==
    /\ service.worker = "fleet"
    /\ \E proves \in probe_uwf_state, unsupported \in UnsupportedProbe :
          service' = IF proves
                     THEN [queue_fleet_status(service, "verified_protected", TRUE)
                              EXCEPT !.worker = "idle"]
                     ELSE IF unsupported
                     THEN [queue_fleet_status(service, "unsupported", FALSE)
                              EXCEPT !.worker = "idle"]
                     ELSE [queue_fleet_status(service, "configuring", FALSE)
                              EXCEPT !.worker = "configure"]
    /\ UNCHANGED <<machine, conn, owner, record, exam, starting, used, carrier>>

\* What arming the filter for the next session comes to.
configure_uwf ==
    {"failed", IF ~machine.supported THEN "unsupported_edition"
               ELSE IF machine.guarded THEN "already_enabled"
               ELSE IF machine.armed THEN "reboot_pending" ELSE "armed"}

Armed(outcome) == outcome \in {"already_enabled", "reboot_pending", "armed"}

\* Whether the restart was asked for and scheduled makes no difference to the
\* server: both phases wait for another boot.
FleetConfigure ==
    /\ service.worker = "configure"
    /\ \E outcome \in configure_uwf :
          /\ machine' = [machine EXCEPT !.armed = @ \/ Armed(outcome)]
          /\ service' = [queue_fleet_status(service,
                             IF Armed(outcome) THEN "awaiting_restart"
                             ELSE IF outcome = "unsupported_edition" THEN "unsupported"
                             ELSE "failed",
                             machine.guarded) EXCEPT !.worker = "idle"]
    /\ UNCHANGED <<conn, owner, record, exam, starting, used, carrier>>

LegacyConfigure ==
    /\ service.worker = "legacy"
    /\ \E outcome \in configure_uwf :
          /\ machine' = [machine EXCEPT !.armed = @ \/ Armed(outcome)]
          /\ service' = [queue_uwf_report(service, outcome) EXCEPT !.worker = "idle"]
    /\ UNCHANGED <<conn, owner, record, exam, starting, used, carrier>>

\* What a command of the server does to the service.
handle_server_command(s, m) ==
    CASE m.type = "exam_start"          -> [s EXCEPT !.exam = TRUE]
      [] m.type = "exam_stop"           -> [s EXCEPT !.exam = FALSE]
      [] m.type = "uwf_configure"       -> configure_uwf_async(s)
      [] m.type = "uwf_fleet_configure" -> configure_uwf_fleet_async(s, m)

\* A connection is opened: the server accepts it and waits for a hello.
Accept(t, c) ==
    [t EXCEPT ![c] = [NewConnection EXCEPT !.stage = "auth_hello", !.open = TRUE, !.live = TRUE,
                                           !.client = "dialing", !.boot = machine.boot]]

\* remote_control_loop without a session: queue the state report and dial the
\* configured address.
Dial ==
    /\ service.link = NoConn /\ service.race = {} /\ service.winner = NoConn
    /\ used.connections < MaxConnections
    /\ LET c == used.connections + 1
       IN  /\ conn' = Accept(conn, c)
           /\ service' = [report_current_fleet_state_async(service) EXCEPT !.race = {c}]
           /\ used' = [used EXCEPT !.connections = c]
    /\ UNCHANGED <<machine, owner, record, exam, starting, carrier>>

\* The discovery branch dials the address it found while nobody has won.
DiscoveryDial ==
    /\ Cardinality(service.race) = 1 /\ service.winner = NoConn
    /\ used.connections < MaxConnections
    /\ LET c == used.connections + 1
       IN  /\ conn' = Accept(conn, c)
           /\ service' = [service EXCEPT !.race = @ \cup {c}]
           /\ used' = [used EXCEPT !.connections = c]
    /\ UNCHANGED <<machine, owner, record, exam, starting, carrier>>

\* The client's half of the handshake ends when the acceptance arrives.
client_handshake(c) == conn[c].stage \in {"accepted", "authenticated"}

\* A branch ends: the first accepted connection wins, another one is closed,
\* and a connection that broke before it was accepted is given up.  When both
\* branches are joined the session runs on the winner and says hello, which
\* stands for the status reports and heartbeats that follow it as well.
claim(c) ==
    /\ c \in service.race
    /\ client_handshake(c) \/ ~conn[c].open
    /\ \E winner \in {service.winner, c} :
          LET left == service.race \ {c}
              lost == IF winner = c THEN conn ELSE Hang(conn, c)
          IN  /\ winner = c => /\ service.winner = NoConn
                              /\ client_handshake(c)
              /\ winner # c => service.winner # NoConn \/ ~conn[c].open
              /\ IF left = {} /\ winner # NoConn
                 THEN /\ service' = [service EXCEPT !.race = {}, !.winner = NoConn, !.link = winner]
                      /\ conn' = [lost EXCEPT ![winner].client = "linked",
                                              ![winner].up = Append(@, Message("hello"))]
                 ELSE /\ service' = [service EXCEPT !.race = left, !.winner = winner]
                      /\ conn' = lost
    /\ UNCHANGED <<machine, owner, record, exam, starting, used, carrier>>

\* One round of the session loop: a queued message goes up.
SendOutbound ==
    /\ service.link # NoConn
    /\ service.out # <<>>
    /\ conn[service.link].up = <<>>
    /\ conn' = [conn EXCEPT ![service.link].up = Append(@, Head(service.out))]
    /\ service' = [service EXCEPT !.out = Tail(@)]
    /\ UNCHANGED <<machine, owner, record, exam, starting, used, carrier>>

\* Only the next number is accepted.
ControlSequenceGuard(c, m) == m.seq = conn[c].expect

\* The session reads a command; a number out of sequence ends the session.
ReceiveCommand ==
    /\ service.link # NoConn
    /\ LET c == service.link
       IN  /\ conn[c].down # <<>>
           /\ LET m == Head(conn[c].down)
              IN  IF ControlSequenceGuard(c, m)
                  THEN /\ conn' = [conn EXCEPT ![c].down = Tail(@), ![c].expect = @ + 1]
                       /\ service' = handle_server_command(service, m)
                  ELSE /\ conn' = Hang(conn, c)
                       /\ service' = [service EXCEPT !.link = NoConn, !.exam = FALSE]
    /\ UNCHANGED <<machine, owner, record, exam, starting, used, carrier>>

\* The session finds its connection closed: the exam ends with it.
EndSession ==
    /\ service.link # NoConn
    /\ ~conn[service.link].open
    /\ service' = [service EXCEPT !.link = NoConn, !.exam = FALSE]
    /\ conn' = Hang(conn, service.link)
    /\ UNCHANGED <<machine, owner, record, exam, starting, used, carrier>>

\* Every connection of the service loses its client end.
Abandon ==
    [c \in Conns |-> IF conn[c].client \in {"dialing", "linked"} THEN Hang(conn, c)[c]
                     ELSE conn[c]]

RestartService ==
    /\ used.faults < MaxFaults
    /\ service' = NewService
    /\ conn' = Abandon
    /\ used' = Fault
    /\ UNCHANGED <<machine, owner, record, exam, starting, carrier>>

\* The bounds leave the machine another session.
SessionsLeft == machine.boot < MaxBoot /\ used.faults < MaxFaults

\* The machine restarts into what was armed for its next session.
Reboot ==
    /\ SessionsLeft
    /\ used' = Fault
    /\ machine' = [machine EXCEPT !.boot = @ + 1, !.guarded = machine.armed,
                                  !.guardedBoots = GuardedBoots]
    /\ service' = NewService
    /\ conn' = Abandon
    /\ UNCHANGED <<owner, record, exam, starting, carrier>>

\* Maintenance on the machine itself turns protection off for the next session.
Disarm ==
    /\ machine.armed /\ SessionsLeft
    /\ machine' = [machine EXCEPT !.armed = FALSE]
    /\ UNCHANGED <<service, conn, owner, record, exam, starting, used, carrier>>

-----------------------------------------------------------------------------
ServerStep ==
    \E c \in Conns :
        \/ watchdog_loop(c) \/ on_disconnected(c)
        \/ handshake(c) \/ publish(c)
        \/ disconnect_previous(c) \/ process_authenticated(c)

AdmissionStep == admit \/ send_exam_start

OperatorStep == configure_uwf_command \/ configure_uwf_fleet \/ start_exam \/ stop_exam

WorkerStep ==
    \/ report_current_fleet_state \/ report_current_fleet_state_fails
    \/ FleetProbe \/ FleetConfigure \/ LegacyConfigure
    \/ queue_other_message

ClientStep ==
    \/ Dial \/ DiscoveryDial \/ SendOutbound
    \/ ReceiveCommand \/ EndSession
    \/ \E c \in Conns : claim(c)

FaultStep ==
    \/ RestartServer \/ RestartService \/ Reboot \/ Disarm
    \/ \E c \in Conns : TransportFails(c)

Next == ServerStep \/ AdmissionStep \/ OperatorStep \/ WorkerStep \/ ClientStep \/ FaultStep

Spec == Init /\ [][Next]_vars

-----------------------------------------------------------------------------
(* Properties.                                                              *)

ConnectionType ==
    [stage : {"none", "auth_hello", "accepted", "authenticated", "failed"},
     open : BOOLEAN, live : BOOLEAN, client : {"none", "dialing", "linked", "gone"},
     boot : 0..MaxBoot, previous : Conns \cup {NoConn}, next : Nat, expect : Nat,
     down : Seq([type : STRING, seq : Nat, op : Nat, action : Nat]),
     up : Seq([type : STRING, outcome : STRING, operation : Nat,
               action : Nat, boot : 1..MaxBoot, phase : Phases, proves : BOOLEAN]),
     reported : BOOLEAN]

Seat == INSTANCE SeatOwnership WITH
    known <- {c \in Conns : conn[c].live},
    online <- record.status # "offline",
    proof <- IF proves_current_protection(record) THEN carrier ELSE NoConn

\* The control plane implements SeatOwnership: however connections overlap,
\* race and break, the seat has one owner, is online exactly while it is owned,
\* and a proof counts only for the connection that carried it and ends with it
\* (publication, mutate_current_registry and on_disconnected).
SeatRefined == Seat!Spec

\* A proof in the registry is true: it is of the boot that opened the owning
\* connection, and in that boot the filter protected the machine
\* (proves_current_protection, demote_uwf_verification, report_current_fleet_state).
ProofIsTrue ==
    proves_current_protection(record) =>
        /\ owner # NoConn
        /\ record.uwf.verifiedBoot = conn[owner].boot
        /\ conn[owner].boot \in GuardedBoots

\* No exam is admitted for, or runs in, a session of the machine that is not
\* protected, whatever became of the connection between selection, admission
\* and delivery (start_exam, exam_start at the client).
ExamOnlyProtected ==
    /\ exam # NoExam => exam \in GuardedBoots
    /\ service.exam => machine.guarded

\* The commands on a connection are numbered without a gap from the one the
\* client expects, so the client never ends a session over a number
\* (send_authenticated_locked, the dispatcher's queue, ControlSequenceGuard).
SequenceUnbroken ==
    \A c \in Conns :
        conn[c].open /\ conn[c].client \in {"dialing", "linked"} =>
            LET sent == conn[c].down
            IN  /\ conn[c].next = conn[c].expect + Len(sent)
                /\ \A i \in 1..Len(sent) : sent[i].seq = conn[c].expect + i - 1

\* A connection that takes the seat leaves the machine unverified, and the
\* report that resolves it is forgotten only inside the service: while the seat's
\* owner has not reported, a report is in the service's worker, in its queue or on
\* the wire, or the connection is coming to its end, unless the last report was
\* pushed out of the queue by other messages or its worker failed
\* (report_current_fleet_state_async gives way to a running worker; a report goes
\* up on the connection that is linked, which need not be the last that was dialled).
ReportOnItsWay ==
    owner # NoConn /\ ~conn[owner].reported =>
        \/ ~conn[owner].open \/ conn[owner].client = "gone"
        \/ service.worker # "idle"
        \/ \E i \in 1..Len(service.out) : service.out[i].type \in UwfReports
        \/ \E i \in 1..Len(conn[owner].up) : conn[owner].up[i].type \in UwfReports
        \/ service.dropped

=============================================================================
