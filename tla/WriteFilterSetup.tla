-------------------------- MODULE WriteFilterSetup --------------------------
(***************************************************************************)
(* How a machine's write filter (UWF) is configured                        *)
(* (setup/src/uwf.cpp): arming it with the exclusions NSTU's data needs,   *)
(* sizing its overlay, excluding the antivirus, servicing mode, disabling  *)
(* it.  The settings belong to Windows and are written one WMI call at a   *)
(* time; a call can fail, a call that took effect can seem to fail, and    *)
(* the service can die between two calls.                                  *)
(*                                                                         *)
(* configure_uwf(), configure_uwf_overlay() and                            *)
(* add_uwf_defender_exclusions() have one shape: what is missing is read   *)
(* first, the writes follow in an order of their own, and when one fails   *)
(* those already made are undone from the last to the first.               *)
(***************************************************************************)
EXTENDS Naturals, Sequences, Functions

CONSTANTS
    RamSizes, FreeDiskSizes,  \* MiB a machine may have
    OverlaySizes,             \* overlay sizes and thresholds a machine may have
    ThresholdLevels,          \* been left with, in MiB
    DefenderPaths,            \* kDefenderExclusionPaths, a sequence
    MaxFilterCalls,           \* bound: configuration calls
    MaxFilterFaults           \* bound: failing WMI calls

Mandatory == {"volume", "file", "registry"}

OwnSettings ==
    Mandatory \cup {"enabled", "servicing", "type", "size", "warning", "critical"}

ASSUME FilterAssumption ==
    /\ RamSizes \subseteq Nat /\ FreeDiskSizes \subseteq Nat
    /\ OverlaySizes \subseteq Nat /\ ThresholdLevels \subseteq Nat
    /\ DefenderPaths \in Seq(STRING) /\ Range(DefenderPaths) \cap OwnSettings = {}
    /\ MaxFilterCalls \in Nat /\ MaxFilterFaults \in Nat

VARIABLES
    settings,        \* the next session's settings and the live thresholds
    filter_current,  \* CurrentEnabled of UWF_Filter
    servicing_now,   \* ServicingEnabled of the current session
    filter_task,     \* the call under way: kind, writes to do, writes made
    filter_result,   \* what the last call returned
    settings_before, \* history: the settings when that call began
    filter_target,   \* history: the settings it was to reach
    armed_by_nstu,   \* history: configure_uwf() armed the filter and was told so
    unseen,          \* history: the setting this call wrote without being told
    filter_calls, filter_faults

filterVars == <<settings, filter_current, servicing_now, filter_task, filter_result,
                settings_before, filter_target, armed_by_nstu, unseen, filter_calls,
                filter_faults>>

SettingNames == OwnSettings \cup Range(DefenderPaths)

NoTask == [kind |-> "none", order |-> <<>>, todo |-> {}, written |-> {},
           undoing |-> FALSE, undone |-> TRUE]

NoResult == [kind |-> "none", succeeded |-> FALSE, rolled_back |-> TRUE]

FoundSettings(on, mandatory, type, size, warning, critical) ==
    [s \in SettingNames |-> CASE s \in Mandatory -> s \in mandatory
                              [] s = "enabled" -> on
                              [] s = "type" -> type
                              [] s = "size" -> size
                              [] s = "warning" -> warning
                              [] s = "critical" -> critical
                              [] OTHER -> FALSE]

\* A machine whose administrator may have configured the filter before; a
\* threshold of 0 is unset.
FilterInit ==
    /\ \E on \in BOOLEAN, mandatory \in SUBSET Mandatory, type \in {"ram", "disk"},
          size \in OverlaySizes, warning, critical \in ThresholdLevels :
         /\ warning < critical \/ critical = 0
         /\ filter_current = on
         /\ settings = FoundSettings(on, mandatory, type, size, warning, critical)
    /\ servicing_now = FALSE
    /\ filter_task = NoTask /\ filter_result = NoResult
    /\ settings_before = settings /\ filter_target = settings
    /\ armed_by_nstu = FALSE /\ unseen = {}
    /\ filter_calls = 0 /\ filter_faults = 0

Idle == filter_task.kind = "none"

FilterFault == filter_faults < MaxFilterFaults /\ filter_faults' = filter_faults + 1

-----------------------------------------------------------------------------
(* Beginning a call.                                                       *)

\* The writes of `order` that change something.
Missing(order, target) == {s \in Range(order) : settings[s] # target[s]}

\* The call returns at once: nothing to do, or refused.
Returns(kind, succeeded) ==
    /\ filter_result' = [kind |-> kind, succeeded |-> succeeded, rolled_back |-> TRUE]
    /\ UNCHANGED filter_task

Begins(kind, order, target) ==
    /\ filter_target' = target
    /\ settings_before' = settings
    /\ IF Missing(order, target) = {} THEN Returns(kind, TRUE)
       ELSE /\ filter_task' = [NoTask EXCEPT !.kind = kind, !.order = order,
                                             !.todo = Missing(order, target)]
            /\ UNCHANGED filter_result

Refused(kind) ==
    /\ Returns(kind, FALSE)
    /\ settings_before' = settings /\ filter_target' = settings

Called ==
    /\ Idle
    /\ filter_calls < MaxFilterCalls /\ filter_calls' = filter_calls + 1
    /\ unseen' = {}
    /\ UNCHANGED <<settings, filter_current, servicing_now, armed_by_nstu, filter_faults>>

\* What configure_uwf() is told and finds out before it may write.
Readiness == [edition : {"unknown", "unsupported", "supported"},
              feature : {"unknown", "missing", "enabled"},
              provider : BOOLEAN, data_root_valid : BOOLEAN,
              diagnostics_passed : BOOLEAN, checkpoint : BOOLEAN]

is_uwf_supported_product(edition) == edition = "supported"

evaluate_uwf_enable(r) ==
    CASE r.edition = "unknown" \/ r.feature = "unknown" -> "probe_unavailable"
      [] ~is_uwf_supported_product(r.edition) -> "unsupported_edition"
      [] r.feature = "missing" -> "feature_missing"
      [] ~r.provider -> "provider_unavailable"
      [] filter_current # settings["enabled"] -> "reboot_pending"
      [] ~r.data_root_valid -> "invalid_data_root"
      [] ~r.diagnostics_passed -> "readiness_failed"
      [] ~r.checkpoint -> "checkpoint_required"
      [] OTHER -> IF filter_current THEN "already_enabled" ELSE "ready"

\* A bug the checks must catch: the filter is enabled before its exclusions
\* are in place.
ConfigureOrder_enable_first == <<"volume", "enabled", "file", "registry">>

\* Enable() comes last, when everything the filter must not swallow is excluded.
ConfigureOrder == <<"volume", "file", "registry", "enabled">>

configure_filter ==
    /\ Called
    /\ \E gate \in {evaluate_uwf_enable(r) : r \in Readiness} :
          IF gate \in {"ready", "already_enabled"}
          THEN Begins("configure", ConfigureOrder,
                      [s \in DOMAIN settings |->
                          IF s \in Mandatory \cup {"enabled"} THEN TRUE ELSE settings[s]])
          ELSE Refused("configure")

clamp(n, low, high) == IF n < low THEN low ELSE IF n > high THEN high ELSE n

\* The size of the overlay, 0 when the machine is too small for one.
uwf_maximum_size_mb(type, ram, free) ==
    IF type = "ram"
    THEN IF ram < 4096 THEN 0 ELSE clamp(ram \div 4, 1024, 4096)
    ELSE IF free < 2048 THEN 0 ELSE clamp(free \div 4, 1024, 8192)

OverlayTarget(type, size) ==
    [settings EXCEPT !["type"] = type, !["size"] = size,
                     !["warning"] = (size * 75) \div 100,
                     !["critical"] = (size * 90) \div 100]

\* The thresholds are raised from the top and lowered from the bottom, so that
\* the warning stays below the critical level throughout.
OverlayOrder(target) ==
    (IF settings["type"] # target["type"] /\ target["type"] = "disk"
     THEN <<"size", "type">> ELSE <<"type", "size">>)
    \o (IF target["critical"] >= settings["critical"]
        THEN <<"critical", "warning">> ELSE <<"warning", "critical">>)

configure_uwf_overlay ==
    /\ Called
    /\ \E type \in {"ram", "disk"}, ram \in RamSizes, free \in FreeDiskSizes :
          LET size == uwf_maximum_size_mb(type, ram, free)
          IN  IF filter_current \/ size = 0 THEN Refused("overlay")
              ELSE Begins("overlay", OverlayOrder(OverlayTarget(type, size)),
                          OverlayTarget(type, size))

add_uwf_defender_exclusions ==
    /\ Called
    /\ Begins("defender", DefenderPaths,
              [s \in DOMAIN settings |-> IF s \in Range(DefenderPaths) THEN TRUE ELSE settings[s]])

set_uwf_servicing ==
    /\ Called
    /\ \E on \in BOOLEAN :
          IF servicing_now /\ on THEN Refused("servicing")
          ELSE Begins("servicing", <<"servicing">>, [settings EXCEPT !["servicing"] = on])

disable_uwf ==
    /\ Called
    /\ IF ~filter_current /\ settings["enabled"] THEN Refused("disable")
       ELSE Begins("disable", <<"enabled">>, [settings EXCEPT !["enabled"] = FALSE])

\* A probe of the machine fails, and the call returns without having written.
read_fails ==
    /\ Called
    /\ Refused("read")

-----------------------------------------------------------------------------
(* The writes of the call under way.                                       *)

Finish(succeeded) ==
    /\ filter_result' = [kind |-> filter_task.kind, succeeded |-> succeeded,
                         rolled_back |-> filter_task.undone]
    /\ filter_task' = NoTask

\* s is the next write of the call: nothing before it is left to do.
IsNextWrite(s) ==
    \E i \in DOMAIN filter_task.order :
        /\ filter_task.order[i] = s
        /\ \A j \in 1 .. i - 1 : filter_task.order[j] \notin filter_task.todo

\* s is the next write to undo: the last of those made.
IsLastWrite(s) ==
    \E i \in DOMAIN filter_task.order :
        /\ filter_task.order[i] = s
        /\ \A j \in i + 1 .. Len(filter_task.order) :
              filter_task.order[j] \notin filter_task.written

\* A WMI method succeeds.
filter_write ==
    /\ ~Idle /\ ~filter_task.undoing
    /\ \E s \in filter_task.todo :
          /\ IsNextWrite(s)
          /\ settings' = [settings EXCEPT ![s] = filter_target[s]]
          /\ filter_task' = [filter_task EXCEPT !.todo = @ \ {s}, !.written = @ \cup {s}]
          /\ armed_by_nstu' = IF s = "enabled" THEN filter_target[s] ELSE armed_by_nstu
    /\ UNCHANGED <<filter_current, servicing_now, filter_result, settings_before,
                   filter_target, unseen, filter_calls, filter_faults>>

\* It fails, and the writes made so far are to be undone.  call() also says so
\* when the method ran but its answer cannot be read: then the write is made,
\* and is not among those to be undone.
filter_write_fails ==
    /\ ~Idle /\ ~filter_task.undoing
    /\ FilterFault
    /\ filter_task' = [filter_task EXCEPT !.undoing = TRUE]
    /\ \E s \in filter_task.todo :
          /\ IsNextWrite(s)
          /\ \/ /\ settings' = [settings EXCEPT ![s] = filter_target[s]]
                /\ unseen' = {s}
             \/ UNCHANGED <<settings, unseen>>
    /\ UNCHANGED <<filter_current, servicing_now, filter_result,
                   settings_before, filter_target, armed_by_nstu, filter_calls>>

filter_done ==
    /\ ~Idle /\ ~filter_task.undoing /\ filter_task.todo = {}
    /\ Finish(TRUE)
    /\ UNCHANGED <<settings, filter_current, servicing_now, settings_before,
                   filter_target, armed_by_nstu, unseen, filter_calls, filter_faults>>

\* rollback(): an undo that fails, or seems to, is noted and the others still
\* run.
filter_undo ==
    /\ filter_task.undoing
    /\ \E s \in filter_task.written :
          /\ IsLastWrite(s)
          /\ \/ /\ settings' = [settings EXCEPT ![s] = settings_before[s]]
                /\ filter_task' = [filter_task EXCEPT !.written = @ \ {s}]
                /\ UNCHANGED filter_faults
             \/ /\ FilterFault
                /\ settings' \in {settings, [settings EXCEPT ![s] = settings_before[s]]}
                /\ filter_task' = [filter_task EXCEPT !.written = @ \ {s}, !.undone = FALSE]
    /\ UNCHANGED <<filter_current, servicing_now, filter_result, settings_before,
                   filter_target, armed_by_nstu, unseen, filter_calls>>

filter_undone ==
    /\ filter_task.undoing /\ filter_task.written = {}
    /\ Finish(FALSE)
    /\ UNCHANGED <<settings, filter_current, servicing_now, settings_before,
                   filter_target, armed_by_nstu, unseen, filter_calls, filter_faults>>

-----------------------------------------------------------------------------
\* The machine restarts, with or without a call under way: the next session's
\* settings take effect, and an enabled filter protects what they say.
filter_restart ==
    /\ filter_current' = settings["enabled"]
    /\ servicing_now' = settings["servicing"]
    /\ filter_task' = NoTask /\ filter_result' = NoResult
    /\ UNCHANGED <<settings, settings_before, filter_target, armed_by_nstu, unseen,
                   filter_calls, filter_faults>>

FilterNext ==
    \/ configure_filter
    \/ configure_uwf_overlay
    \/ add_uwf_defender_exclusions
    \/ set_uwf_servicing
    \/ disable_uwf
    \/ read_fails
    \/ filter_write
    \/ filter_write_fails
    \/ filter_done
    \/ filter_undo
    \/ filter_undone
    \/ filter_restart

FilterSpec == FilterInit /\ [][FilterNext]_filterVars

-----------------------------------------------------------------------------
\* A warning threshold below the critical one, or neither set.
InOrder(f) == f["warning"] < f["critical"] \/ (f["warning"] = 0 /\ f["critical"] = 0)

\* The write filter is never left in a state that loses data.  A filter that
\* configure_uwf() says it armed protects the volume with both exclusions in
\* place, even when a later call fails, its rollback fails or the machine
\* restarts between two writes.  Thresholds found in order stay in order at every
\* moment, the one write whose answer was lost apart.  And what a call returns is
\* true: everything is as it was to be, or, taken back, as it was before, again
\* but for a write whose answer was lost (configure_uwf(),
\* configure_uwf_overlay(), add_uwf_defender_exclusions()).  The documents make
\* neither exception (uwf.hpp:76-77, docs/INDEV_STATUS.md:147).
FilterArmedSafely ==
    /\ armed_by_nstu => \A s \in Mandatory : settings[s]
    /\ InOrder(settings_before) /\ unseen \cap {"warning", "critical"} = {} =>
          settings["critical"] = 0 \/ settings["warning"] < settings["critical"]
    /\ filter_result.kind # "none" /\ Idle =>
          settings = IF filter_result.succeeded THEN filter_target
                     ELSE IF filter_result.rolled_back
                     THEN [s \in SettingNames |->
                              IF s \in unseen THEN filter_target[s] ELSE settings_before[s]]
                     ELSE settings

=============================================================================
