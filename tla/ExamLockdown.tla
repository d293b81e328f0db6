---------------------------- MODULE ExamLockdown ----------------------------
(***************************************************************************)
(* The network block of an exam: the controller of the client service      *)
(* (client/src/exam_lockdown_controller.cpp), the decision it wraps        *)
(* (client/include/nstu/exam_network_lockdown.hpp) and the Windows filters *)
(* it installs (common/src/wfp_allowlist.cpp), as operations on a record.  *)
(*                                                                         *)
(* Time is abstracted to the two questions the decision asks of it: has a  *)
(* heartbeat arrived within the stale window (fresh), and is the exam      *)
(* still inside its longest duration (within).  The filters installed in   *)
(* Windows (filters: the exam whose allowlist they hold) are a field of    *)
(* their own, because the flag that says so (blocked, actually_blocked_)   *)
(* is only what the controller believes.                                   *)
(* The epoch counter is abstracted to the exam whose attempt took the      *)
(* newest token, NoExam once disarm() has moved the counter on: an exam    *)
(* has one attempt, so a token equals the counter exactly when its exam is *)
(* that one.                                                               *)
(***************************************************************************)
EXTENDS Naturals, FiniteSets

CONSTANTS
    NoExam,           \* no session
    MaxOrigins,       \* the most origins that are resolved (32)
    MaxApplyRetries   \* kMaxApplyRetries

ASSUME LockdownAssumption ==
    /\ MaxOrigins \in Nat
    /\ MaxApplyRetries \in Nat \ {0}

\* A controller of a service that just started.  The filters are Windows'.
new_controller(filters) ==
    [epoch |-> NoExam, armed |-> FALSE, desired |-> FALSE, applied |-> FALSE,
     config |-> NoExam, fresh |-> FALSE, within |-> FALSE,
     blocked |-> FALSE, retries |-> 0, gave_up |-> FALSE,
     filters |-> filters]

-----------------------------------------------------------------------------
(* The addresses an exam may reach.  An origin is what the manifest        *)
(* declares: whether it parses, and the classes of its addresses.          *)

parse_origin_hostname(origin) == origin.wellformed

is_disallowed_ipv4(address) ==
    address \in {"unspecified", "loopback", "link_local", "multicast"}

\* Malformed origins are skipped, the others kept; too many are all refused.
resolve_allowed_origins(origins) ==
    IF Cardinality(origins) > MaxOrigins
    THEN {}
    ELSE {a \in UNION {o.addresses : o \in {x \in origins :
                                               parse_origin_hostname(x)}} :
             ~is_disallowed_ipv4(a)}

-----------------------------------------------------------------------------
(* The Windows filters.  apply() removes what is there before it adds, and *)
(* removes what it added when it fails half way; it does nothing when the  *)
(* filtering engine cannot be opened.                                      *)

apply_filters(c) == [c EXCEPT !.filters = c.config]

apply_filters_failed(c, opened) ==
    IF opened THEN [c EXCEPT !.filters = NoExam] ELSE c

clear_filters(c) == [c EXCEPT !.filters = NoExam]

-----------------------------------------------------------------------------
(* The controller.                                                         *)

begin_attempt(c, session) == [c EXCEPT !.epoch = session]

should_block(c) == c.desired /\ c.within /\ c.fresh

poll(c) == [c EXCEPT !.applied = should_block(c)]

\* A new ExamNetworkLockdown replaces the old one: applied_ starts FALSE.
new_lockdown(c, session) ==
    [c EXCEPT !.config = session, !.desired = TRUE, !.applied = FALSE]

\* A bug the checks must catch: the token of the attempt is not compared.
may_arm_any_token(c, token, addresses) == addresses # {}

may_arm(c, token, addresses) ==
    /\ token = c.epoch
    /\ addresses # {}

arm(c, session) ==
    [new_lockdown(c, session) EXCEPT
        !.armed = TRUE, !.fresh = TRUE, !.within = TRUE,
        !.retries = 0, !.gave_up = FALSE]

\* exam_begin carries the real duration; the start and the last heartbeat
\* stay, so only the longest duration is measured anew.
update_duration(c, within) ==
    IF c.armed THEN [new_lockdown(c, c.config) EXCEPT !.within = within] ELSE c

heartbeat(c) == IF c.armed THEN [c EXCEPT !.fresh = TRUE] ELSE c

\* disarm() under the mutex; the filters are cleared after it is released.
\* Nothing asks a disarmed controller about time until arm() sets it anew.
disarm_locked(c) ==
    [c EXCEPT !.epoch = NoExam, !.armed = FALSE, !.desired = FALSE,
              !.fresh = FALSE, !.within = FALSE]

\* disarm() takes the mutex again to record that the filters are gone.
disarm_recorded(c) == [c EXCEPT !.blocked = FALSE, !.retries = 0]

wants_apply(c) ==
    c.applied /\ ~c.blocked /\ ~c.gave_up /\ c.retries < MaxApplyRetries

wants_clear(c) == ~c.applied /\ c.blocked

\* A bug the checks must catch: only an explicit stop clears the block.
tick_never_clears(c) ==
    LET p == poll(c)
    IN IF wants_apply(p)
       THEN [apply_filters(p) EXCEPT !.retries = @ + 1, !.blocked = TRUE]
       ELSE p

\* tick(): the supervisor's reconciliation, every two seconds.
tick(c) ==
    LET p == poll(c)
    IN CASE wants_apply(p) -> [apply_filters(p) EXCEPT !.retries = @ + 1,
                                                       !.blocked = TRUE]
         [] wants_clear(p) -> disarm_recorded(clear_filters(p))
         [] OTHER          -> p

\* The same tick when Windows refuses the call.
tick_failed(c, opened) ==
    LET p == poll(c)
    IN IF wants_apply(p)
       THEN [apply_filters_failed(p, opened) EXCEPT
               !.retries = @ + 1, !.gave_up = p.retries + 1 >= MaxApplyRetries]
       ELSE p

\* startup_sweep(): filters a crashed service left are removed, once.
startup_sweep(c) == clear_filters(c)

=============================================================================
