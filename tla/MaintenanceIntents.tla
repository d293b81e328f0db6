-------------------------- MODULE MaintenanceIntents --------------------------
(***************************************************************************)
(* Authorising a maintenance intent on a client                            *)
(* (common/src/maintenance_intent.cpp): a signed request of the            *)
(* deployment authority, valid for one client, one state of the machine    *)
(* and a short time, and meant to be carried out once.                     *)
(*                                                                         *)
(* The channel that carries intents is external: it may delay, repeat and  *)
(* garble them.  The replay cache lives as long as its process, which may  *)
(* be restarted at any time, and the wall clock may be set back.           *)
(***************************************************************************)
EXTENDS Naturals, FiniteSets

\* The parameters an operation has to carry: none, or those of its kind.
OperationParameters ==
    [enable_filter |-> "none", restart_client |-> "restart"]

CONSTANTS
    IntentIds, Nonces,
    Operations,        \* MaintenanceOperation: the operations that are asked for
    MaxClock,          \* bound: the wall clock runs from 1 to here
    MaxLifetime,       \* kMaximumMaintenanceIntentLifetimeSeconds
    ClockSkew,         \* kMaintenanceClockSkewSeconds
    ReplayCapacity,    \* entries of the replay cache
    MaxIntents,        \* bound: intents that are signed
    MaxIntentFaults    \* bound: restarts of the client and clocks set back

ASSUME IntentAssumption ==
    /\ Operations \subseteq DOMAIN OperationParameters
    /\ MaxClock \in Nat \ {0} /\ MaxLifetime \in Nat /\ ClockSkew \in Nat
    /\ ReplayCapacity \in Nat \ {0} /\ MaxIntents \in Nat /\ MaxIntentFaults \in Nat

VARIABLES
    intents,       \* signed intents, each of which may arrive at any time
    intent_clock,  \* the client's wall clock
    intents_seen,  \* MaintenanceReplayProtector: intents_ and nonces_
    restore_state, \* the state of the machine's write filter
    authorized,    \* history: how often each intent of `intents' was let through
    cache_losses,  \* history: how often the cache lost an intent that is still good
    intent_faults  \* restarts and clocks set back so far

historyVars == <<cache_losses, intent_faults>>

intentVars ==
    <<intents, intent_clock, intents_seen, restore_state, authorized, historyVars>>

FilterStates == {"not_applicable", "off", "on"}

RestoreStates ==
    [feature : {"disabled", "enabled"}, current_filter : FilterStates,
     next_filter : FilterStates]

\* A disabled feature has no filter; an enabled one has.
validate_restore_state(s) ==
    /\ (s.feature = "disabled") <=> (s.current_filter = "not_applicable")
    /\ (s.feature = "disabled") <=> (s.next_filter = "not_applicable")

Unprotected == [feature |-> "enabled", current_filter |-> "off", next_filter |-> "off"]

Intents ==
    [id : IntentIds, nonce : Nonces, issued : 1 .. MaxClock, expires : 1 .. MaxClock,
     expected : {Unprotected, [Unprotected EXCEPT !.next_filter = "on"],
                 [Unprotected EXCEPT !.feature = "disabled"]},
     operation : Operations, parameters : {"none", "restart"},
     mine : BOOLEAN]

valid_operation_parameters(i) == i.parameters = OperationParameters[i.operation]

validate_maintenance_intent_shape(i) ==
    /\ i.expires >= i.issued
    /\ i.expires - i.issued <= MaxLifetime
    /\ validate_restore_state(i.expected)
    /\ valid_operation_parameters(i)

IntentInit ==
    /\ intents = {}
    /\ intent_clock = 1
    /\ intents_seen = {}
    /\ restore_state = Unprotected
    /\ authorized = [id \in IntentIds |-> 0]
    /\ cache_losses = 0 /\ intent_faults = 0

-----------------------------------------------------------------------------
(* The deployment authority.                                               *)

\* An intent that is not well formed is neither signed nor encoded.
sign_maintenance_intent(i) ==
    /\ Cardinality(intents) < MaxIntents
    /\ validate_maintenance_intent_shape(i)
    /\ \A j \in intents : j.id # i.id
    /\ intents' = intents \cup {i}
    /\ UNCHANGED <<intent_clock, intents_seen, restore_state, authorized, historyVars>>

\* A garbled intent does not decode or fails its tag.
decode_signed_maintenance_intent(i) ==
    validate_maintenance_intent_shape(i) /\ i \in intents

verify_maintenance_intent_tag(i) == i \in intents

-----------------------------------------------------------------------------
(* The client.                                                             *)

\* A bug the checks must catch: an entry is forgotten in the last second in
\* which its intent is still good.
unexpired_early == {e \in intents_seen : e.expires > intent_clock}

unexpired == {e \in intents_seen : e.expires >= intent_clock}

replayed(i) == \E e \in unexpired : e.id = i.id \/ e.nonce = i.nonce

\* MaintenanceReplayProtector::accept(): entries that expired go first, even
\* when the intent is refused afterwards.
replay_accept(i) ==
    IF replayed(i) \/ Cardinality(unexpired) >= ReplayCapacity
    THEN /\ intents_seen' = unexpired
         /\ UNCHANGED authorized
    ELSE /\ intents_seen' = unexpired \cup
                {[id |-> i.id, nonce |-> i.nonce, expires |-> i.expires]}
         /\ authorized' = [authorized EXCEPT ![i.id] = @ + 1]

authorize_maintenance_intent(i) ==
    /\ decode_signed_maintenance_intent(i)
    /\ verify_maintenance_intent_tag(i)
    /\ i.issued <= intent_clock + ClockSkew
    /\ intent_clock <= i.expires
    /\ i.mine
    /\ i.expected = restore_state
    /\ replay_accept(i)
    /\ UNCHANGED <<intents, intent_clock, restore_state, historyVars>>

\* The cache still holds an intent.
in_cache(i) == \E e \in intents_seen : e.id = i.id /\ e.expires = i.expires

\* MaintenanceReplayProtector::clear(), or the end of its process: the cache is
\* not durable.  It is a loss when an intent in it is still good.
replay_clear ==
    /\ intent_faults < MaxIntentFaults
    /\ intent_faults' = intent_faults + 1
    /\ intents_seen' = {}
    /\ cache_losses' = IF unexpired = {} THEN cache_losses ELSE cache_losses + 1
    /\ UNCHANGED <<intents, intent_clock, restore_state, authorized>>

-----------------------------------------------------------------------------
(* External: what carries out an intent, the operator at the machine, and  *)
(* time.                                                                   *)

filter_configured ==
    /\ restore_state' \in {s \in RestoreStates : validate_restore_state(s)}
    /\ restore_state' # restore_state
    /\ restore_state'.feature = "enabled" /\ restore_state'.current_filter = "off"
    /\ UNCHANGED <<intents, intent_clock, intents_seen, authorized, historyVars>>

intent_tick ==
    /\ intent_clock < MaxClock
    /\ intent_clock' = intent_clock + 1
    /\ UNCHANGED <<intents, intents_seen, restore_state, authorized, historyVars>>

\* The wall clock is set back.  It is a loss when an intent that ran is good
\* again and is no longer in the cache.
intent_clock_set_back(t) ==
    /\ intent_faults < MaxIntentFaults
    /\ t < intent_clock
    /\ intent_clock' = t
    /\ intent_faults' = intent_faults + 1
    /\ cache_losses' =
           IF \E i \in intents : authorized[i.id] # 0 /\ t <= i.expires
                                 /\ i.expires < intent_clock /\ ~in_cache(i)
           THEN cache_losses + 1 ELSE cache_losses
    /\ UNCHANGED <<intents, intents_seen, restore_state, authorized>>

IntentNext ==
    \/ \E i \in Intents : sign_maintenance_intent(i)
    \/ \E i \in intents : authorize_maintenance_intent(i)
    \/ filter_configured
    \/ intent_tick
    \/ replay_clear
    \/ \E t \in 1 .. MaxClock : intent_clock_set_back(t)

IntentSpec == IntentInit /\ [][IntentNext]_intentVars

-----------------------------------------------------------------------------
\* However often an intent arrives it is let through once, and once more for each
\* time the cache lost an intent that was still good, because its process ended or
\* because the wall clock was set back behind the expiry of an intent already
\* dropped.  Neither time, nor other intents, nor a cache at its limit is such a
\* loss: an entry is kept for as long as its intent could still be accepted
\* (MaintenanceReplayProtector::accept(), authorize_maintenance_intent()).
IntentRunsOnce == \A id \in IntentIds : authorized[id] <= 1 + cache_losses

=============================================================================
