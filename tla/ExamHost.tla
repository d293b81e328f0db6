------------------------------ MODULE ExamHost ------------------------------
(***************************************************************************)
(* The exam host of the interactive agent (client/src/exam_host.cpp): the  *)
(* package checks it makes, its states, and the asynchronous WebView2      *)
(* callbacks, which outlive the operation that asked for them and are told *)
(* apart by its generation.  Also the bridge between the agent's pipe      *)
(* thread and its UI thread (client/src/exam_bridge.cpp).                  *)
(*                                                                         *)
(* The generation counter is abstracted to the exam the operation was      *)
(* started for, NoExam after a stop: an exam is started once, so two       *)
(* generations are equal exactly when these are.                           *)
(*                                                                         *)
(* A package is the set of defects its files have, and the origins its     *)
(* manifest declares.                                                      *)
(***************************************************************************)
EXTENDS ExamLockdown, Sequences

CONSTANT MaxBridgeMessages   \* kMaximumExamBridgeMessages

ASSUME BridgeAssumption == MaxBridgeMessages \in Nat \ {0}

Defects == {"reparse", "outside", "profile", "json", "shape", "asset",
            "digest", "context"}

-----------------------------------------------------------------------------
(* What is checked of a package.                                           *)

path_has_reparse_point(p) == "reparse" \in p.defects

path_is_within(p) == "outside" \notin p.defects

validate_exam_path_policy(p) == ~path_has_reparse_point(p) /\ path_is_within(p)

\* The browser profile lies below its own root.
validate_exam_user_data_path(p) == "profile" \notin p.defects

parse_json_object(p) == "json" \notin p.defects

validate_manifest_shape(p) ==
    /\ "shape" \notin p.defects
    /\ Cardinality(p.origins) <= MaxOrigins
    /\ \A o \in p.origins : parse_origin_hostname(o)

collect_manifest_assets(p) == parse_json_object(p) /\ validate_manifest_shape(p)

validate_manifest_asset_files(p) ==
    collect_manifest_assets(p) /\ "asset" \notin p.defects

inspect_exam_package(p) ==
    /\ validate_exam_path_policy(p)
    /\ validate_manifest_asset_files(p)
    /\ "digest" \notin p.defects

parse_context(p) == "context" \notin p.defects

parse_manifest_and_context(p) ==
    /\ validate_exam_user_data_path(p)
    /\ inspect_exam_package(p)
    /\ parse_context(p)

\* The addresses of the network block, read from the manifest by the service.
extract_exam_lockdown_policy(p) == p.origins

-----------------------------------------------------------------------------
(* The host: state, generation of the current operation, session of the    *)
(* exam, whether the page is loaded, whether its readiness was reported    *)
(* and whether the page was released.  Of the page also what it was made   *)
(* of: nothing yet, files that were checked and are being loaded, or files *)
(* as they were checked or altered; late is history, the files changed     *)
(* after the host's own check of them.                                     *)

new_host ==
    [state |-> "idle", generation |-> NoExam, session |-> NoExam,
     webview_ready |-> FALSE, ready_reported |-> FALSE, page |-> "none",
     late |-> FALSE, begun |-> FALSE]

\* stop(): a new generation, the handlers removed, the window destroyed.
host_stop(h) == new_host

\* A bug the checks must catch: callbacks are not told apart by generation.
callback_is_current_any(h, generation) == h.state # "failed"

callback_is_current(h, generation) ==
    h.state # "failed" /\ h.generation = generation

\* A bug the checks must catch: the files are not read again.
package_snapshot_assumed(p) == TRUE

package_snapshot_is_current(p) == inspect_exam_package(p)

\* The browser was sent to the files and reads them while they can still change.
\* Altered ones may have been read before or after they were.
page_loaded(h, p) ==
    IF h.page = "none" THEN {"none"}
    ELSE IF inspect_exam_package(p) THEN {"verified"} ELSE {"verified", "altered"}

\* start(): stop(), then a generation of its own, then the checks.
host_start(h, session) ==
    [host_stop(h) EXCEPT !.state = "initializing",
                         !.generation = session, !.session = session]

\* The states in which the alive timer sends exam_alive.
sends_alive(h) == h.state \in {"initializing", "running"}

\* set_host_state(): a failure also closes the page.
host_failed(h) == [h EXCEPT !.state = "failed", !.webview_ready = FALSE]

\* exam_host_engaged(): the kiosk covers the desktop.
exam_host_engaged(h) == h.state \notin {"idle", "failed"}

-----------------------------------------------------------------------------
(* The bridge: commands of the pipe thread for the UI thread, and messages *)
(* for the page.                                                           *)

new_bridge == [commands |-> <<>>, messages |-> <<>>]

\* A stop removes every waiting command, a start every waiting start.
publish_exam_command(b, c) ==
    [b EXCEPT !.commands =
        IF c.type = "stop" THEN <<c>>
        ELSE Append(SelectSeq(@, LAMBDA x : x.type # "start"), c)]

\* At the limit the oldest message goes.
publish(b, m) ==
    [b EXCEPT !.messages = Append(IF Len(@) < MaxBridgeMessages THEN @ ELSE Tail(@), m)]

try_pop_exam_command(b) == [b EXCEPT !.commands = Tail(@)]

try_pop(b) == [b EXCEPT !.messages = Tail(@)]

clear_responses(b) == [b EXCEPT !.messages = <<>>]

=============================================================================
