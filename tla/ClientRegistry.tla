--------------------------- MODULE ClientRegistry ---------------------------
(***************************************************************************)
(* One client's record in the server's registry                            *)
(* (server/src/client_registry.cpp, client_registry.hpp).  Every operator  *)
(* is a method of ClientRegistry, called under the registry's mutex, as a  *)
(* function from the record before to the record after.                    *)
(*                                                                         *)
(* A boot identity is a number, 0 when none was reported.  Of a probe only *)
(* whether it proves protection is kept (probe_proves_protection).  Help,  *)
(* snapshot, wake-on-LAN and version fields are left out: no other field   *)
(* depends on them.                                                        *)
(***************************************************************************)
EXTENDS Naturals

NoBoot == 0

Phases == {"idle", "requested", "configuring", "awaiting_restart", "restarting",
           "verifying", "verified_protected", "failed", "unsupported"}

Statuses == {"connecting", "online", "degraded", "locked", "offline"}

UwfFleetState ==
    [phase : Phases, operation : Nat, restartExpected : BOOLEAN,
     configureBoot : Nat, observedBoot : Nat, verifiedBoot : Nat, proves : BOOLEAN]

ClientRecord == [known : BOOLEAN, status : Statuses, uwf : UwfFleetState]

NoRecord ==
    [known |-> FALSE, status |-> "offline",
     uwf |-> [phase |-> "idle", operation |-> 0, restartExpected |-> FALSE,
              configureBoot |-> NoBoot, observedBoot |-> NoBoot,
              verifiedBoot |-> NoBoot, proves |-> FALSE]]

\* The exam gate: phase, evidence and boot must agree.
proves_current_protection(r) ==
    /\ r.uwf.phase = "verified_protected"
    /\ r.uwf.proves
    /\ r.uwf.verifiedBoot # NoBoot
    /\ r.uwf.verifiedBoot = r.uwf.observedBoot

\* A status report or a new connection: what other reports told is kept.
upsert(r, status) == [r EXCEPT !.known = TRUE, !.status = status]

set_status(r, status) == [r EXCEPT !.status = status]

\* A heartbeat brings a client that was taken for silent back.
touch(r) ==
    [r EXCEPT !.status = IF @ \in {"connecting", "offline"} THEN "online" ELSE @]

\* The proof goes, the last observed boot stays.
retire_uwf_proof(r) ==
    [r EXCEPT !.uwf.phase = "verifying", !.uwf.verifiedBoot = NoBoot, !.uwf.proves = FALSE]

demote_uwf_verification(r) ==
    IF r.uwf.phase = "verified_protected" THEN retire_uwf_proof(r) ELSE r

\* The phase the report of a single configuration attempt stands for.
phase_for_configure_outcome(outcome) ==
    CASE outcome \in {"armed", "reboot_pending"} -> "awaiting_restart"
      [] outcome = "already_enabled"             -> "verifying"
      [] outcome = "unsupported_edition"         -> "unsupported"
      [] OTHER                                   -> "failed"

\* An attempt is no evidence: whatever it reports, an earlier proof ends.
set_uwf_report(r, outcome) ==
    LET phase == phase_for_configure_outcome(outcome)
        waits == phase = "awaiting_restart"
    IN  [r EXCEPT !.uwf.phase = phase,
                  !.uwf.restartExpected = @ \/ waits,
                  !.uwf.configureBoot = IF waits /\ @ = NoBoot THEN r.uwf.observedBoot ELSE @,
                  !.uwf.verifiedBoot = NoBoot,
                  !.uwf.proves = FALSE]

\* An operation is recorded, with the boot it is issued against, before it is
\* sent.
begin_uwf_fleet_operation(r, operation) ==
    [r EXCEPT !.uwf.operation = operation,
              !.uwf.restartExpected = FALSE,
              !.uwf.phase = "requested",
              !.uwf.configureBoot = r.uwf.observedBoot,
              !.uwf.verifiedBoot = NoBoot,
              !.uwf.proves = FALSE]

\* Applies a client's fleet status.  A report of a superseded operation changes
\* nothing; a claim of protection needs evidence and, once a restart is
\* expected, another boot.
set_uwf_fleet_status(r, report) ==
    LET uwf      == r.uwf
        late     == report.operation # 0 /\ uwf.operation # 0
                    /\ report.operation # uwf.operation
        waits    == report.phase \in {"awaiting_restart", "restarting"}
        expected == uwf.restartExpected \/ waits
        pinned   == IF waits /\ uwf.configureBoot = NoBoot
                    THEN report.boot ELSE uwf.configureBoot
        phase    == IF report.phase # "verified_protected" THEN report.phase
                    ELSE IF ~report.proves THEN "failed"
                    ELSE IF expected /\ pinned # NoBoot /\ report.boot = pinned
                    THEN "verifying"
                    ELSE "verified_protected"
    IN  IF late THEN r
        ELSE [r EXCEPT !.uwf =
                [phase |-> phase,
                 operation |-> IF report.operation # 0 THEN report.operation ELSE uwf.operation,
                 restartExpected |-> expected,
                 configureBoot |-> pinned,
                 observedBoot |-> report.boot,
                 verifiedBoot |-> IF phase = "verified_protected" THEN report.boot ELSE NoBoot,
                 proves |-> report.proves]]
=============================================================================
