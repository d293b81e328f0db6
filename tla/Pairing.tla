------------------------------ MODULE Pairing -------------------------------
(***************************************************************************)
(* How a machine gets its key: by on-screen pairing (client_pairing.cpp,   *)
(* control_plane.cpp), where a student compares a code and the teacher     *)
(* approves the request, or by an enrollment secret (provision.cpp,        *)
(* enrollment.cpp).  The server keeps the keys in memory (key_store.cpp)   *)
(* and in a protected file (keyring.cpp, secret_store.cpp).                *)
(*                                                                         *)
(* Attempts are numbered, and an attempt's number also names its           *)
(* connection and the key both ends derive from its transcript.  Peers are *)
(* honest: a confirmation tag verifies exactly when it belongs to the      *)
(* attempt.  Time is not counted: a request may expire at any moment.      *)
(***************************************************************************)
EXTENDS Naturals, Sequences, FiniteSets, FiniteSetsExt

CONSTANTS
    Students,       \* machines that pair on screen
    MaxAttempts,    \* pairing attempts of all machines
    MaxRequests,    \* kMaximumPendingPairings
    MaxWindows,     \* times the teacher opens the pairing window
    MaxFaults       \* crashes, restarts, broken connections, failed writes

\* The machine provisioned with the enrollment secret.
Provisioned == "provisioned"

ASSUME PairingAssumption ==
    /\ IsFiniteSet(Students) /\ Provisioned \notin Students
    /\ {MaxAttempts, MaxRequests, MaxWindows} \subseteq Nat \ {0}
    /\ MaxFaults \in Nat

Attempts == 1..MaxAttempts

\* The key derived from the enrollment secret.
TokenKey == MaxAttempts + 1
NoKey == 0
NoConfig == [id |-> 0, key |-> NoKey]

VARIABLES
    link,      \* every attempt: both ends and the frames between them
    request,   \* pending_pairings_: "none", "requested", "confirmed"
    window,    \* the pairing window and its discovery beacon
    store,     \* KeyStore entries_
    disk,      \* the keyring file
    operator,  \* approve_pairing on the teacher's thread
    enroll,    \* process_enrollment on an I/O thread
    config,    \* client-config.bin of every machine
    used,      \* budgets spent: attempts, faults
    approved,  \* history: attempts the teacher approved, in order
    overlap    \* history: an approval and an enrollment ran at the same time

vars == <<link, request, window, store, disk, operator, enroll, config, used,
          approved, overlap>>

NoLink ==
    [client |-> Provisioned, mine |-> "none", up |-> <<>>, down |-> <<>>,
     open |-> FALSE, known |-> FALSE, stage |-> "initial", settled |-> FALSE,
     yes |-> FALSE, window |-> 0]

Idle == [step |-> "idle", attempt |-> 0, number |-> 0, previous |-> {}, image |-> {}]

Init ==
    /\ link = [a \in Attempts |-> NoLink]
    /\ request = [a \in Attempts |-> "none"]
    /\ window = [open |-> FALSE, beacon |-> FALSE, count |-> 0]
    /\ store = {} /\ disk = {}
    /\ operator = Idle /\ enroll = Idle
    /\ config = [c \in Students \cup {Provisioned} |-> NoConfig]
    /\ used = [attempts |-> 0, faults |-> 0]
    /\ approved = <<>>
    /\ overlap = FALSE

Fault == /\ used.faults < MaxFaults
         /\ used' = [used EXCEPT !.faults = @ + 1]

-----------------------------------------------------------------------------
(* The key store.                                                           *)

Entry(c, id, key) == [client |-> c, id |-> id, key |-> key, revoked |-> FALSE]

\* A new number for the client's new key; the older ones are revoked and wiped.
NextId(s, c) == 1 + Max({0} \cup {e.id : e \in {f \in s : f.client = c}})

rotate(s, c, key) ==
    {IF e.client = c THEN [e EXCEPT !.revoked = TRUE, !.key = NoKey] ELSE e : e \in s}
        \cup {Entry(c, NextId(s, c), key)}

\* A key under a chosen number; refused when the number is taken.
CanEnroll(s, c, id) == \A e \in s : <<e.client, e.id>> # <<c, id>>

\* The file's records: a revoked key leaves only its number behind.
encode_keyring(s) == {<<e.client, e.id, e.revoked, IF e.revoked THEN NoKey ELSE e.key>> : e \in s}
decode_keyring(w) ==
    {[client |-> x[1], id |-> x[2], revoked |-> x[3], key |-> x[4]] : x \in w}

\* The file is replaced as a whole by a rename, or stays as it was.
save_machine_secret(image, written) == disk' = IF written THEN image ELSE disk

resolve(s, c, id) == {e.key : e \in {f \in s : f.client = c /\ f.id = id /\ ~f.revoked}}

-----------------------------------------------------------------------------
(* The student's machine.                                                   *)

Busy(c) == \E a \in Attempts : link[a].client = c /\ link[a].mine \notin {"none", "over"}

\* A probe is answered only while the beacon is on.
answer_pairing_probe == window.beacon

\* Servers that answered the sweep: this one or none.
discover_pairing_candidates == {s \in {"server"} : answer_pairing_probe}

\* A connection whose first frame is the hello.
pair_with_server(c) ==
    [NoLink EXCEPT !.client = c, !.mine = "hello", !.up = <<"hello">>, !.open = TRUE,
                   !.known = TRUE]

\* A machine without an identity looks for a server and says hello.
attempt_pairing(c) ==
    /\ config[c] = NoConfig /\ ~Busy(c)
    /\ discover_pairing_candidates # {}
    /\ used.attempts < MaxAttempts
    /\ link' = [link EXCEPT ![used.attempts + 1] = pair_with_server(c)]
    /\ used' = [used EXCEPT !.attempts = @ + 1]
    /\ UNCHANGED <<request, window, store, disk, operator, enroll, config, approved, overlap>>

\* What is left of an attempt that both ends have ended.
Rest(l) ==
    IF l.mine = "over" /\ ~l.known /\ l.stage \notin {"deriving", "offering"}
    THEN [NoLink EXCEPT !.client = l.client, !.mine = "over", !.stage = "failed", !.yes = l.yes]
    ELSE l

\* The attempt ends at the client, for whatever reason, and its socket closes.
Leave(t, a) == [t EXCEPT ![a] = Rest([t[a] EXCEPT !.mine = "over", !.down = <<>>])]

\* The code is shown once the offer arrives.
ShowCode(a) ==
    /\ link[a].mine = "hello" /\ link[a].down # <<>>
    /\ link' = IF Head(link[a].down).type = "offer"
               THEN [link EXCEPT ![a].mine = "student", ![a].down = Tail(@)]
               ELSE Leave(link, a)
    /\ UNCHANGED <<request, window, store, disk, operator, enroll, config, used, approved, overlap>>

\* Only an explicit yes to the code on the screen counts.
StudentChoices == {"confirmed", "rejected", "timed_out", "no_ui"}
evaluate_student_confirmation(choice) == IF choice = "confirmed" THEN "save" ELSE "refuse"

\* The student answers, and the confirmation tag goes out or the attempt is over.
StudentAnswers(a) ==
    /\ link[a].mine = "student"
    /\ \E choice \in StudentChoices :
          link' = IF evaluate_student_confirmation(choice) = "save"
                  THEN [link EXCEPT ![a].mine = "approval", ![a].yes = TRUE,
                                    ![a].up = Append(@, "confirm")]
                  ELSE Leave(link, a)
    /\ UNCHANGED <<request, window, store, disk, operator, enroll, config, used, approved, overlap>>

\* A reject frame or a lost socket ends the attempt.
AttemptEnds(a) ==
    /\ link[a].mine \in {"hello", "student", "approval"}
    /\ \/ link[a].down # <<>> /\ Head(link[a].down).type = "reject"
       \/ ~link[a].open
    /\ link' = Leave(link, a)
    /\ UNCHANGED <<request, window, store, disk, operator, enroll, config, used, approved, overlap>>

\* The approval does not come before the deadline, or the service stops.
approval_deadline(a) ==
    /\ link[a].mine = "approval"
    /\ Fault
    /\ link' = Leave(link, a)
    /\ UNCHANGED <<request, window, store, disk, operator, enroll, config, approved, overlap>>

\* Waiting on a human, the client keeps the connection alive.  (Its heartbeats
\* before the confirmation change nothing at either end and are left out.)
Heartbeat(a) ==
    /\ link[a].mine = "approval" /\ link[a].up = <<>> /\ link[a].open
    /\ link' = [link EXCEPT ![a].up = <<"heartbeat">>]
    /\ UNCHANGED <<request, window, store, disk, operator, enroll, config, used, approved, overlap>>

\* The approval arrives with the key's number; the identity is saved, or the
\* machine keeps nothing and pairs again.
ReceiveAccept(a) ==
    /\ link[a].mine = "approval"
    /\ link[a].down # <<>> /\ Head(link[a].down).type = "accept"
    /\ link' = Leave(link, a)
    /\ \/ /\ config' = [config EXCEPT ![link[a].client] = [id |-> Head(link[a].down).id, key |-> a]]
          /\ UNCHANGED used
       \/ Fault /\ UNCHANGED config
    /\ UNCHANGED <<request, window, store, disk, operator, enroll, approved, overlap>>

-----------------------------------------------------------------------------
(* The control plane's connections.                                         *)

Frame(type) == [type |-> type, id |-> 0]

Send(t, a, frame) == IF t[a].open THEN [t EXCEPT ![a].down = Append(@, frame)] ELSE t

Disconnect(t, a) == [t EXCEPT ![a] = Rest([t[a] EXCEPT !.open = FALSE, !.stage = "failed"])]

\* A refusal is sent, and the connection closed after it.
refuse_pairing(t, a) == Disconnect(Send(t, a, Frame("reject")), a)

settle_pairing_connection(t, a) == IF t[a].known THEN [t EXCEPT ![a].settled = TRUE] ELSE t

\* Every abandoned request is answered and its connection settled.
refuse_abandoned(t, abandoned) ==
    [a \in Attempts |-> IF a \in abandoned
                        THEN settle_pairing_connection(Send(t, a, Frame("reject")), a)[a]
                        ELSE t[a]]

Pending == {a \in Attempts : request[a] # "none"}

Received(a, frame) ==
    /\ link[a].known /\ link[a].up # <<>> /\ Head(link[a].up) = frame

Consumed(a) == [link EXCEPT ![a].up = Tail(@)]

\* A hello arrives and the keys are derived, while the connection may go away.
derive_pairing_secrets(a) ==
    /\ Received(a, "hello") /\ link[a].stage = "initial"
    /\ link' = [Consumed(a) EXCEPT ![a].stage = "deriving"]
    /\ UNCHANGED <<request, window, store, disk, operator, enroll, config, used, approved, overlap>>

\* A bug the checks must catch: the request counts as confirmed from the start.
process_pairing_hello_confirmed(a) ==
    /\ link[a].stage = "deriving"
    /\ request' = [request EXCEPT ![a] = "confirmed"]
    /\ link' = [link EXCEPT ![a].stage = "offering", ![a].window = window.count]
    /\ UNCHANGED <<window, store, disk, operator, enroll, config, used, approved, overlap>>

\* The hello is recorded while the window is open and there is room for it.
process_pairing_hello(a) ==
    /\ link[a].stage = "deriving"
    /\ IF window.open /\ Cardinality(Pending) < MaxRequests
       THEN /\ request' = [request EXCEPT ![a] = "requested"]
            /\ link' = [link EXCEPT ![a].stage = "offering", ![a].window = window.count]
       ELSE /\ link' = refuse_pairing(link, a)
            /\ UNCHANGED request
    /\ UNCHANGED <<window, store, disk, operator, enroll, config, used, approved, overlap>>

\* The rest of the hello: the offer leaves, or the request is dropped again.
send_offer(a) ==
    /\ link[a].stage = "offering"
    /\ IF link[a].open
       THEN /\ link' = [Send(link, a, Frame("offer")) EXCEPT ![a].stage = "offered"]
            /\ UNCHANGED request
       ELSE /\ link' = [link EXCEPT ![a] = Rest([link[a] EXCEPT !.stage = "failed"])]
            /\ request' = [request EXCEPT ![a] = "none"]
    /\ UNCHANGED <<window, store, disk, operator, enroll, config, used, approved, overlap>>

\* The confirmation counts for a request that is still pending.
process_pairing_confirm(a) ==
    /\ Received(a, "confirm") /\ link[a].stage = "offered"
    /\ IF request[a] # "none"
       THEN /\ request' = [request EXCEPT ![a] = "confirmed"]
            /\ link' = [Consumed(a) EXCEPT ![a].stage = "pending"]
       ELSE /\ link' = Disconnect(Consumed(a), a)
            /\ UNCHANGED request
    /\ UNCHANGED <<window, store, disk, operator, enroll, config, used, approved, overlap>>

\* Heartbeats are answered until the request is settled; the next one then
\* closes the connection.  A confirmation is out of place by now.
process_pairing_wait(a) ==
    /\ link[a].known /\ link[a].up # <<>> /\ link[a].stage \in {"offered", "pending"}
    /\ ~(Head(link[a].up) = "confirm" /\ link[a].stage = "offered")
    /\ link' = IF link[a].stage = "pending" /\ link[a].settled
               THEN Disconnect(Consumed(a), a)
               ELSE Consumed(a)
    /\ UNCHANGED <<request, window, store, disk, operator, enroll, config, used, approved, overlap>>

\* The dispatcher notices that the peer is gone, or the network breaks.
ConnectionCloses(a) ==
    /\ link[a].open
    /\ \/ link[a].mine = "over" /\ UNCHANGED used
       \/ link[a].mine # "over" /\ Fault
    /\ link' = [link EXCEPT ![a].open = FALSE]
    /\ UNCHANGED <<request, window, store, disk, operator, enroll, config, approved, overlap>>

\* The control plane forgets the connection and its request.
on_disconnected(a) ==
    /\ link[a].known /\ ~link[a].open
    /\ link' = [link EXCEPT ![a] = Rest([link[a] EXCEPT !.known = FALSE, !.up = <<>>])]
    /\ request' = [request EXCEPT ![a] = "none"]
    /\ UNCHANGED <<window, store, disk, operator, enroll, config, used, approved, overlap>>

-----------------------------------------------------------------------------
(* The teacher's thread.                                                    *)

\* The beacon changes before the window does.
set_pairing_beacon(open) ==
    /\ operator.step = "idle" /\ window.open = window.beacon /\ window.open # open
    /\ open => window.count < MaxWindows
    /\ window' = [window EXCEPT !.beacon = open, !.count = IF open THEN @ + 1 ELSE @]
    /\ operator' = [Idle EXCEPT !.step = "window"]
    /\ UNCHANGED <<link, request, store, disk, enroll, config, used, approved, overlap>>

\* Closing the window refuses everything it admitted.
set_pairing_window ==
    /\ operator.step = "window"
    /\ window' = [window EXCEPT !.open = window.beacon]
    /\ IF window.beacon
       THEN UNCHANGED <<link, request>>
       ELSE /\ request' = [a \in Attempts |-> "none"]
            /\ link' = refuse_abandoned(link, Pending)
    /\ operator' = Idle
    /\ UNCHANGED <<store, disk, enroll, config, used, approved, overlap>>

\* A frame of the operator's window, or the hello of another machine on an I/O
\* thread, retires a request that ran out of time.
expire_pending_pairings ==
    /\ \E a \in Pending :
          /\ request' = [request EXCEPT ![a] = "none"]
          /\ link' = refuse_abandoned(link, {a})
    /\ UNCHANGED <<window, store, disk, operator, enroll, config, used, approved, overlap>>

reject_pairing(a) ==
    /\ operator.step = "idle" /\ request[a] # "none"
    /\ request' = [request EXCEPT ![a] = "none"]
    /\ link' = settle_pairing_connection(Send(link, a, Frame("reject")), a)
    /\ UNCHANGED <<window, store, disk, operator, enroll, config, used, approved, overlap>>

\* The request leaves the table; from here on it cannot be withdrawn.
approve_pairing(a) ==
    /\ operator.step = "idle" /\ request[a] = "confirmed"
    /\ request' = [request EXCEPT ![a] = "none"]
    /\ operator' = [Idle EXCEPT !.step = "snapshot", !.attempt = a]
    /\ approved' = Append(approved, a)
    /\ overlap' = (overlap \/ enroll.step \in {"accept", "encode", "write"})
    /\ UNCHANGED <<link, window, store, disk, enroll, config, used>>

approve_snapshot ==
    /\ operator.step = "snapshot"
    /\ operator' = [operator EXCEPT !.step = "rotate", !.previous = store]
    /\ UNCHANGED <<link, request, window, store, disk, enroll, config, used, approved, overlap>>

\* The identity, the tag or the rotation fails: the approval ends with the request
\* gone from the table and the machine left waiting.
approve_fails ==
    /\ operator.step \in {"snapshot", "rotate"} /\ Fault
    /\ operator' = Idle
    /\ UNCHANGED <<link, request, window, store, disk, enroll, config, approved, overlap>>

\* A bug the checks must catch: the acceptance leaves before the key is saved.
approve_rotate_unsaved ==
    /\ operator.step = "rotate"
    /\ store' = rotate(store, link[operator.attempt].client, operator.attempt)
    /\ operator' = [operator EXCEPT !.step = "settle",
                                    !.number = NextId(store, link[operator.attempt].client)]
    /\ UNCHANGED <<link, request, window, disk, enroll, config, used, approved, overlap>>

approve_rotate ==
    /\ operator.step = "rotate"
    /\ store' = rotate(store, link[operator.attempt].client, operator.attempt)
    /\ operator' = [operator EXCEPT !.step = "encode",
                                    !.number = NextId(store, link[operator.attempt].client)]
    /\ UNCHANGED <<link, request, window, disk, enroll, config, used, approved, overlap>>

\* save_keyring copies the store first and replaces the file afterwards.
approve_encode ==
    /\ operator.step = "encode"
    /\ operator' = [operator EXCEPT !.step = "write", !.image = encode_keyring(store)]
    /\ UNCHANGED <<link, request, window, store, disk, enroll, config, used, approved, overlap>>

\* The file is replaced as a whole, or the store goes back to the snapshot.
approve_write ==
    /\ operator.step = "write"
    /\ \/ /\ save_machine_secret(operator.image, TRUE)
          /\ operator' = [operator EXCEPT !.step = "settle", !.previous = {}, !.image = {}]
          /\ UNCHANGED <<store, used>>
       \/ /\ Fault
          /\ save_machine_secret(operator.image, FALSE)
          /\ store' = operator.previous
          /\ operator' = Idle
    /\ UNCHANGED <<link, request, window, enroll, config, approved, overlap>>

approve_settle ==
    /\ operator.step = "settle"
    /\ link' = settle_pairing_connection(link, operator.attempt)
    /\ operator' = [operator EXCEPT !.step = "send"]
    /\ UNCHANGED <<request, window, store, disk, enroll, config, used, approved, overlap>>

\* The key's number goes to the client if its connection is still there.
approve_send ==
    /\ operator.step = "send"
    /\ link' = Send(link, operator.attempt, [type |-> "accept", id |-> operator.number])
    /\ operator' = Idle
    /\ UNCHANGED <<request, window, store, disk, enroll, config, used, approved, overlap>>

-----------------------------------------------------------------------------
(* Enrollment with the shared secret, under the enrollment mutex.           *)

TokenId == 1

\* nstu-provision sends one request.
provision ==
    /\ enroll.step = "idle" /\ config[Provisioned] = NoConfig
    /\ enroll' = [Idle EXCEPT !.step = "requested"]
    /\ UNCHANGED <<link, request, window, store, disk, operator, config, used, approved, overlap>>

enroll_snapshot ==
    /\ enroll.step = "requested"
    /\ enroll' = [enroll EXCEPT !.step = "accept", !.previous = store]
    /\ overlap' = (overlap \/ operator.step \in {"snapshot", "rotate", "encode", "write"})
    /\ UNCHANGED <<link, request, window, store, disk, operator, config, used, approved>>

\* The number is free, or the request fails.
enroll_accept ==
    /\ enroll.step = "accept"
    /\ IF CanEnroll(store, Provisioned, TokenId)
       THEN /\ store' = store \cup {Entry(Provisioned, TokenId, TokenKey)}
            /\ enroll' = [enroll EXCEPT !.step = "encode"]
       ELSE enroll' = [Idle EXCEPT !.step = "failed"] /\ UNCHANGED store
    /\ UNCHANGED <<link, request, window, disk, operator, config, used, approved, overlap>>

enroll_encode ==
    /\ enroll.step = "encode"
    /\ enroll' = [enroll EXCEPT !.step = "write", !.image = encode_keyring(store)]
    /\ UNCHANGED <<link, request, window, store, disk, operator, config, used, approved, overlap>>

enroll_write ==
    /\ enroll.step = "write"
    /\ \/ /\ save_machine_secret(enroll.image, TRUE)
          /\ enroll' = [Idle EXCEPT !.step = "accepted"]
          /\ UNCHANGED <<store, used>>
       \/ /\ Fault
          /\ save_machine_secret(enroll.image, FALSE)
          /\ store' = enroll.previous
          /\ enroll' = Idle
    /\ UNCHANGED <<link, request, window, operator, config, approved, overlap>>

\* The tool saves the identity when the acceptance reaches it.
provision_saves ==
    /\ enroll.step = "accepted"
    /\ \/ /\ config' = [config EXCEPT ![Provisioned] = [id |-> TokenId, key |-> TokenKey]]
          /\ UNCHANGED used
       \/ Fault /\ UNCHANGED config
    /\ enroll' = [Idle EXCEPT !.step = "done"]
    /\ UNCHANGED <<link, request, window, store, disk, operator, approved, overlap>>

-----------------------------------------------------------------------------
\* The server process ends and starts again with the keyring file.
ServerRestarts ==
    /\ Fault
    /\ link' = [a \in Attempts |->
                   IF link[a].mine = "none" THEN link[a]
                   ELSE Rest([link[a] EXCEPT !.open = FALSE, !.known = FALSE, !.up = <<>>,
                                             !.stage = "failed"])]
    /\ request' = [a \in Attempts |-> "none"]
    /\ window' = [window EXCEPT !.open = FALSE, !.beacon = FALSE]
    /\ store' = decode_keyring(disk)
    /\ operator' = Idle
    /\ enroll' = IF enroll.step \in {"accepted", "done"} THEN enroll ELSE Idle
    /\ UNCHANGED <<disk, config, approved, overlap>>

Client(a) ==
    \/ ShowCode(a) \/ StudentAnswers(a) \/ AttemptEnds(a) \/ approval_deadline(a)
    \/ Heartbeat(a) \/ ReceiveAccept(a)

Server(a) ==
    \/ derive_pairing_secrets(a) \/ process_pairing_hello(a) \/ send_offer(a)
    \/ process_pairing_confirm(a) \/ process_pairing_wait(a) \/ ConnectionCloses(a) \/ on_disconnected(a)

Teacher ==
    \/ \E open \in BOOLEAN : set_pairing_beacon(open)
    \/ set_pairing_window \/ expire_pending_pairings
    \/ \E a \in Attempts : reject_pairing(a) \/ approve_pairing(a)
    \/ approve_snapshot \/ approve_rotate \/ approve_encode \/ approve_write
    \/ approve_fails \/ approve_settle \/ approve_send

Enrollment ==
    \/ provision \/ enroll_snapshot \/ enroll_accept \/ enroll_encode \/ enroll_write
    \/ provision_saves

Next ==
    \/ \E c \in Students : attempt_pairing(c)
    \/ \E a \in Attempts : Client(a) \/ Server(a)
    \/ Teacher \/ Enrollment \/ ServerRestarts

Spec == Init /\ [][Next]_vars

-----------------------------------------------------------------------------
\* Approved after attempt k for the same machine.
Superseded(k) ==
    \E i, j \in DOMAIN approved :
        i < j /\ approved[i] = k /\ link[approved[j]].client = link[k].client

\* An identity a machine has saved is one the server knows, in memory and in the
\* file it starts from: a failed write, a restart or a late answer never leaves a
\* machine with a key the server lost.  Only a later approval for the same
\* machine (control_plane.cpp:1390 rotates its key) or a token enrollment that
\* overlapped an approval (control_plane.cpp:1950 and 1356 share no lock) does.
KeysSurvive ==
    \A c \in Students \cup {Provisioned} :
        config[c] # NoConfig /\ ~overlap =>
            \/ /\ resolve(store, c, config[c].id) = {config[c].key}
               /\ resolve(decode_keyring(disk), c, config[c].id) = {config[c].key}
            \/ c # Provisioned /\ Superseded(config[c].key)

\* A pairing key exists, in memory, in the file or at the machine, only for an
\* attempt whose student confirmed the code and which the teacher then approved.
KeysNeedConsent ==
    \A a \in Attempts :
        a \in {e.key : e \in store \cup decode_keyring(disk)} \cup {config[c].key : c \in Students} =>
            link[a].yes /\ a \in {approved[i] : i \in DOMAIN approved}

=============================================================================
