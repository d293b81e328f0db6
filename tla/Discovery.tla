----------------------------- MODULE Discovery -----------------------------
(***************************************************************************)
(* How a client finds its server (common/src/discovery.cpp).  A sweep      *)
(* broadcasts one request, authenticated with the client's key; the        *)
(* responder of a server answers it with the port of its control channel.  *)
(* A request reaches the responder through several adapters and may be     *)
(* delayed, so the responder remembers the requests it answered            *)
(* (ReplayProtector, common/src/auth.cpp), and it counts what each source  *)
(* does wrong (HandshakeRateLimiter, common/src/rate_limiter.cpp).         *)
(*                                                                         *)
(* A nonce is the number of its sweep.  A datagram once sent may arrive    *)
(* any number of times, or never.                                          *)
(***************************************************************************)
EXTENDS Integers, Sequences, FiniteSets, FiniteSetsExt

CONSTANTS
    DiscoverySources,     \* addresses datagrams come from
    SweepSource,          \* the client's own address
    ClientOffsets,        \* how far the client's clock may be off
    ControlPorts,         \* ports a server's control channel may have
    MaximumClockSkew,     \* bound of the code: seconds between two clocks
    DiscoveryCapacity,    \* bound of the code: remembered requests
    MaximumSources, MaximumFailures, LimiterWindow, LimiterBlock,  \* limiter policy
    EndpointLimit,        \* bound of the code: endpoints of a sweep
    MaxSweeps, MaxSteady, MaxDiscoveryFaults       \* bounds of the model

ASSUME DiscoveryAssumption ==
    /\ SweepSource \in DiscoverySources /\ ClientOffsets \subseteq Int
    /\ {MaximumClockSkew, DiscoveryCapacity, MaximumSources, MaximumFailures,
        LimiterWindow, LimiterBlock, EndpointLimit} \subseteq Nat \ {0}
    /\ {MaxSweeps, MaxSteady, MaxDiscoveryFaults} \subseteq Nat

VARIABLES
    steady,      \* the server's steady clock
    unix,        \* the server's wall clock
    sweep,       \* the client's current sweep
    requests,    \* requests on the network
    responses,   \* responses on the network
    responder,   \* [bound, running, port, known, replay, sources]
    discovery,   \* history: [answers, forgotten, stepped]
    discovery_faults   \* bad datagrams, failures and interventions so far

discoveryVars == <<steady, unix, sweep, requests, responses, responder, discovery,
                   discovery_faults>>

Sweeps == 1..MaxSweeps

\* Entries of the limiter, by source.
Tracked == DOMAIN responder.sources

DiscoveryInit ==
    /\ steady = 1 /\ unix = 5
    /\ sweep = [nonce |-> 0, offset |-> 0, endpoints |-> {}]
    /\ requests = {} /\ responses = {}
    /\ responder = [bound |-> FALSE, running |-> FALSE, port |-> 0, known |-> TRUE,
                    replay |-> <<>>, sources |-> <<>>]
    /\ discovery = [answers |-> [n \in Sweeps |-> {}], forgotten |-> {}, stepped |-> FALSE]
    /\ discovery_faults = 0

DiscoveryFault ==
    /\ discovery_faults < MaxDiscoveryFaults
    /\ discovery_faults' = discovery_faults + 1

-----------------------------------------------------------------------------
(* The limiter.  `e` maps a source to its entry.                           *)

reset_window_locked(entry) ==
    LET fresh == IF entry.window_start = 0 \/ steady - entry.window_start >= LimiterWindow
                 THEN [entry EXCEPT !.failures = 0, !.window_start = steady,
                                    !.blocked_until = 0]
                 ELSE entry
    IN  [fresh EXCEPT !.blocked_until = IF @ <= steady THEN 0 ELSE @]

Put(e, s, entry) == [x \in DOMAIN e \cup {s} |-> IF x = s THEN entry ELSE e[x]]
Untrack(e, s) == [x \in DOMAIN e \ {s} |-> e[x]]

\* Whether a datagram of `s` is looked at, and the entries afterwards.
limiter_allow(s) ==
    LET seen == [responder.sources[s] EXCEPT !.last_seen = steady]
        entry == IF seen.blocked_until > steady THEN seen ELSE reset_window_locked(seen)
    IN  IF s \notin Tracked THEN [yes |-> TRUE, sources |-> responder.sources]
        ELSE [yes |-> entry.blocked_until <= steady /\ entry.failures < MaximumFailures,
              sources |-> Put(responder.sources, s, entry)]

\* One failure adds at most one source, so one source goes at most: one of
\* those seen longest ago.
trim_locked(e) ==
    IF Cardinality(DOMAIN e) <= MaximumSources THEN {e}
    ELSE {Untrack(e, s) : s \in {x \in DOMAIN e :
             \A y \in DOMAIN e : e[x].last_seen <= e[y].last_seen}}

limiter_record_failure(e, s) ==
    LET old == IF s \in DOMAIN e THEN reset_window_locked(e[s])
               ELSE [failures |-> 0, window_start |-> steady, blocked_until |-> 0,
                     last_seen |-> steady]
        count == IF old.failures < MaximumFailures THEN old.failures + 1 ELSE old.failures
    IN  trim_locked(Put(e, s, [failures |-> count, window_start |-> old.window_start,
                               blocked_until |-> IF count >= MaximumFailures
                                                 THEN steady + LimiterBlock
                                                 ELSE old.blocked_until,
                               last_seen |-> steady]))

limiter_record_success(e, s) == Untrack(e, s)

-----------------------------------------------------------------------------
(* Remembered requests.                                                    *)

time_is_valid(time, now) == time - now \in -MaximumClockSkew..MaximumClockSkew

\* A bug the checks must catch: a request is forgotten in the last second in
\* which it is still valid.
expired_early(entry) == entry.expires_at <= unix

expired(entry) == entry.expires_at < unix

\* accept(): expired entries leave only at the front of the queue.
prune(q) ==
    SubSeq(q, 1 + Cardinality({i \in DOMAIN q : \A j \in 1..i : expired(q[j])}), Len(q))

Remembered(q) == {q[i].key : i \in DOMAIN q}

MakeRoom(q) == IF Len(q) >= DiscoveryCapacity
               THEN SubSeq(q, Len(q) - DiscoveryCapacity + 2, Len(q)) ELSE q

accept(q, d) ==
    LET live == prune(q)
    IN  IF d.nonce \in Remembered(live) THEN [yes |-> FALSE, entries |-> live]
        ELSE [yes |-> TRUE,
              entries |-> Append(MakeRoom(live),
                             [key |-> d.nonce,
                              expires_at |-> Max({unix, d.time}) + MaximumClockSkew])]

-----------------------------------------------------------------------------
(* The client: discover_authenticated_servers().                           *)

ClientNow == unix + sweep.offset

create_request(nonce, offset) == [nonce |-> nonce, time |-> unix + offset]

\* A request goes to the broadcast address of every adapter and to the general
\* one, so a server may get it several times.
SentToTargets(d) == requests \cup {d}

\* The sweep before it has ended, at its deadline or its limit.
discover_authenticated_servers(offset) ==
    /\ sweep.nonce < MaxSweeps
    /\ sweep' = [nonce |-> sweep.nonce + 1, offset |-> offset,
               endpoints |-> {}]
    /\ requests' = SentToTargets(create_request(sweep'.nonce, offset))
    /\ UNCHANGED <<steady, unix, responses, responder, discovery, discovery_faults>>

verify_response(r) ==
    /\ r.nonce = sweep.nonce
    /\ time_is_valid(r.time, ClientNow)

receive_response ==
    /\ Cardinality(sweep.endpoints) < EndpointLimit
    /\ \E r \in responses :
          /\ verify_response(r)
          /\ sweep' = [sweep EXCEPT !.endpoints = @ \cup {r.port}]
    /\ UNCHANGED <<steady, unix, requests, responses, responder, discovery,
                   discovery_faults>>

-----------------------------------------------------------------------------
(* The responder.                                                          *)

Forgets == discovery' = [discovery EXCEPT !.forgotten = @ \cup Remembered(responder.replay)]

responder_start(port) ==
    /\ ~responder.running /\ ~responder.bound
    /\ responder' = [responder EXCEPT !.bound = TRUE, !.running = TRUE, !.port = port,
                                      !.replay = <<>>]
    /\ Forgets
    /\ UNCHANGED <<steady, unix, sweep, requests, responses, discovery_faults>>

responder_stop ==
    /\ responder.bound /\ DiscoveryFault
    /\ responder' = [responder EXCEPT !.bound = FALSE, !.running = FALSE, !.port = 0,
                                      !.replay = <<>>]
    /\ Forgets
    /\ UNCHANGED <<steady, unix, sweep, requests, responses>>

\* select() fails: the thread ends, and the socket stays bound until stop().
responder_wait_fails ==
    /\ responder.running /\ DiscoveryFault
    /\ responder' = [responder EXCEPT !.running = FALSE]
    /\ UNCHANGED <<steady, unix, sweep, requests, responses, discovery>>

verify_request(d) == responder.known /\ time_is_valid(d.time, unix)

create_response(d) == [nonce |-> d.nonce, time |-> unix, port |-> responder.port]

\* run() with a datagram it cannot read, one of the wrong size, or a pairing
\* probe that is malformed or too old.
run_bad_datagram(s) ==
    /\ responder.running
    /\ DiscoveryFault
    /\ LET gate == limiter_allow(s)
       IN  \E e \in IF gate.yes THEN limiter_record_failure(gate.sources, s) ELSE {gate.sources} :
              responder' = [responder EXCEPT !.sources = e]
    /\ UNCHANGED <<steady, unix, sweep, requests, responses, discovery>>

\* run() with a pairing probe: answered while the pairing window is open, which
\* clears the sender's record, or left alone when it is closed or the answer fails.
run_pairing_probe(s) ==
    /\ responder.running /\ s \in Tracked
    /\ LET gate == limiter_allow(s)
       IN  \E e \in {gate.sources}
                      \cup (IF gate.yes THEN {limiter_record_success(gate.sources, s)} ELSE {}) :
              responder' = [responder EXCEPT !.sources = e]
    /\ UNCHANGED <<steady, unix, sweep, requests, responses, discovery, discovery_faults>>

\* run() with a request: refused for its key or its time, dropped as a repetition,
\* or answered, and the answer may fail to be sent.
run_refuse(d, gate) ==
    /\ ~verify_request(d)
    /\ DiscoveryFault
    /\ \E e \in limiter_record_failure(gate.sources, SweepSource) :
          responder' = [responder EXCEPT !.sources = e]
    /\ UNCHANGED <<responses, discovery>>

run_answer(d, gate) ==
    LET check == accept(responder.replay, d)
        evicted == IF check.yes
                   THEN Remembered(prune(responder.replay)) \ Remembered(check.entries)
                   ELSE {}
        heard == [responder EXCEPT !.replay = check.entries, !.sources = gate.sources]
        known == [discovery EXCEPT !.forgotten = @ \cup evicted]
    IN  /\ verify_request(d)
        /\ \/ /\ ~check.yes
              /\ responder' = heard /\ discovery' = known
              /\ UNCHANGED <<responses, discovery_faults>>
           \/ /\ check.yes
              /\ responses' = responses \cup {create_response(d)}
              /\ responder' = [heard EXCEPT !.sources = limiter_record_success(@, SweepSource)]
              /\ discovery' = [known EXCEPT
                    !.answers[d.nonce] = @ \cup {[port |-> responder.port,
                                                  again |-> @ # {}]}]
              /\ UNCHANGED discovery_faults
           \/ /\ check.yes /\ DiscoveryFault
              /\ responder' = heard /\ discovery' = known
              /\ UNCHANGED responses

run_request ==
    /\ responder.running
    /\ \E d \in requests :
          LET gate == limiter_allow(SweepSource)
          IN  IF gate.yes THEN run_refuse(d, gate) \/ run_answer(d, gate)
              ELSE /\ responder' = [responder EXCEPT !.sources = gate.sources]
                   /\ UNCHANGED <<responses, discovery, discovery_faults>>
    /\ UNCHANGED <<steady, unix, sweep, requests>>

\* The operator revokes the client's key.
key_revoked ==
    /\ responder.known /\ DiscoveryFault
    /\ responder' = [responder EXCEPT !.known = FALSE]
    /\ UNCHANGED <<steady, unix, sweep, requests, responses, discovery>>

discovery_tick ==
    /\ steady < MaxSteady
    /\ steady' = steady + 1 /\ unix' = unix + 1
    /\ UNCHANGED <<sweep, requests, responses, responder, discovery, discovery_faults>>

\* The wall clock is set back.
clock_set_back ==
    /\ DiscoveryFault
    /\ unix' = unix - 1
    /\ discovery' = [discovery EXCEPT !.stepped = TRUE]
    /\ UNCHANGED <<steady, sweep, requests, responses, responder>>

DiscoveryNext ==
    \/ \E offset \in ClientOffsets : discover_authenticated_servers(offset)
    \/ receive_response
    \/ \E p \in ControlPorts : responder_start(p)
    \/ responder_stop \/ responder_wait_fails
    \/ \E s \in DiscoverySources : run_bad_datagram(s) \/ run_pairing_probe(s)
    \/ run_request
    \/ key_revoked \/ discovery_tick \/ clock_set_back

DiscoverySpec == DiscoveryInit /\ [][DiscoveryNext]_discoveryVars

-----------------------------------------------------------------------------
\* A sweep's request is answered once, however often and however late it
\* arrives, unless the responder was restarted, remembered too many later
\* requests or had its clock set back; and what a sweep finds is a port that
\* was announced in answer to this sweep, never one of an earlier sweep whose
\* server has moved (ReplayProtector::accept, verify_response).
OneAnswerPerSweep ==
    /\ \A n \in Sweeps :
          (\E x \in discovery.answers[n] : x.again) =>
              n \in discovery.forgotten \/ discovery.stepped
    /\ \A p \in sweep.endpoints : \E x \in discovery.answers[sweep.nonce] : x.port = p

=============================================================================
