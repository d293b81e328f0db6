---------------------------- MODULE UpdateStaging ----------------------------
(***************************************************************************)
(* Installing an update: the signed manifest                               *)
(* (common/src/update_manifest.cpp) and the staging controller             *)
(* (common/src/update_staging.cpp), over crashes and failing disks.        *)
(*                                                                         *)
(* A package is a version; a file on disk is the version it holds, how     *)
(* many units of it, whether all of them are the package's own, and        *)
(* (history) how many the disk lost of those it was handed.  The digest is *)
(* computed over the chunks handed to append_chunk(), never over the       *)
(* file.  The program that drives the controller is not part of the    *)
(* repository: it is assumed to verify a manifest before begin_staging(),  *)
(* and not to use a controller whose init() failed.                        *)
(***************************************************************************)
EXTENDS Naturals

CONSTANTS
    MaxVersion,        \* bound: versions that are published, 1 is installed
    PackageUnits,      \* length of a package
    MaxDownloads,      \* bound: calls of begin_staging()
    MaxStagingFaults   \* bound: failures and crashes

ASSUME StagingAssumption ==
    /\ MaxVersion \in Nat \ {0} /\ PackageUnits \in Nat \ {0}
    /\ MaxDownloads \in Nat /\ MaxStagingFaults \in Nat

VARIABLES
    staging,         \* record_
    hashing,         \* hash context: is_streaming_, and whether the digest
                     \* of what was appended can still come out right
    record_file,     \* staging_record.json
    part_file, pkg_file,       \* update_package.part, update_package.pkg
    active_dir, backup_dir,    \* the installation and its backup
    staging_at,      \* where the controller is: "down", "idle", or a point
                     \* inside apply_staged_update() or rollback_update()
    downloads, staging_faults

stagingVars == <<staging, hashing, record_file, part_file, pkg_file, active_dir,
                 backup_dir, staging_at, downloads, staging_faults>>

NoFile == [of |-> 0, units |-> 0, own |-> TRUE, lost |-> 0]

\* A directory that exists and is empty.
EmptyDir(version) == [of |-> version, units |-> 0, own |-> TRUE, lost |-> 0]

Exists(file) == file # NoFile

StagingRecord == [state |-> "idle", target |-> 0, staged |-> 0, reboot |-> TRUE,
                  backup |-> FALSE]

NoRecord == [StagingRecord EXCEPT !.state = "no file"]
TornRecordFile == [StagingRecord EXCEPT !.state = "torn"]

NotHashing == [on |-> FALSE, right |-> TRUE]

StagingInit ==
    /\ staging = StagingRecord
    /\ hashing = NotHashing
    /\ record_file = NoRecord
    /\ part_file = NoFile /\ pkg_file = NoFile
    /\ active_dir = [of |-> 1, units |-> PackageUnits, own |-> TRUE, lost |-> 0]
    /\ backup_dir = NoFile
    /\ staging_at = "down"
    /\ downloads = 0 /\ staging_faults = 0

StagingFault ==
    staging_faults < MaxStagingFaults /\ staging_faults' = staging_faults + 1

-----------------------------------------------------------------------------
(* The manifest.                                                           *)

\* Rollout percentages around the bucket of the machine, and the full rollout.
Manifests ==
    [version : 1 .. MaxVersion, min_supported : 1 .. MaxVersion, rollout : {0, 1, 100},
     signed : BOOLEAN, for_client : BOOLEAN, well_formed : BOOLEAN,
     reboot : BOOLEAN]

\* What the driver says of the machine: whether it may install its own version
\* again, and whether its GUID is known.
Environments == [allow_same_version : BOOLEAN, guid : BOOLEAN]

verify_manifest_signature(m) == m.signed

\* The GUID hashed, mod 100; this machine's is 0.
compute_canary_bucket == 0

\* Windows build, rollout bounds, digest syntax and URL scheme are one test:
\* well_formed.
verify_manifest_against_environment(m, env, current) ==
    /\ verify_manifest_signature(m)
    /\ m.for_client
    /\ m.version > current \/ (m.version = current /\ env.allow_same_version)
    /\ current >= m.min_supported
    /\ m.rollout < 100 => env.guid /\ compute_canary_bucket < m.rollout
    /\ m.well_formed

-----------------------------------------------------------------------------
(* The record on disk: truncated, then written; nobody looks at the result *)
(* of the save, and a crash in between leaves it torn.                     *)

save_record_to_disk(r) ==
    \/ record_file' = r /\ UNCHANGED staging_faults
    \/ StagingFault /\ record_file' \in {record_file, TornRecordFile}

import_staging_record(file) == file \notin {NoRecord, TornRecordFile}

\* init() of a new process.  With a torn record it fails, and goes on failing.
init ==
    /\ staging_at = "down"
    /\ record_file # TornRecordFile
    /\ staging_at' = "idle"
    /\ hashing' = NotHashing
    /\ IF import_staging_record(record_file)
       THEN IF record_file.state = "downloading"
            THEN /\ staging' = [record_file EXCEPT !.state = "failed"]
                 /\ part_file' = NoFile
                 /\ save_record_to_disk(staging')
            ELSE /\ staging' = record_file
                 /\ UNCHANGED <<part_file, record_file, staging_faults>>
       ELSE /\ staging' = StagingRecord
            /\ UNCHANGED <<part_file, record_file, staging_faults>>
    /\ UNCHANGED <<pkg_file, active_dir, backup_dir, downloads>>

set_deferred ==
    /\ staging_at = "idle"
    /\ staging' = [staging EXCEPT !.state = "deferred"]
    /\ save_record_to_disk(staging')
    /\ UNCHANGED <<hashing, part_file, pkg_file, active_dir, backup_dir,
                   staging_at, downloads>>

-----------------------------------------------------------------------------
(* The download.                                                           *)

\* A bug the checks must catch: a partial file left by an earlier download,
\* which append_chunk() would go on appending to, is not removed.
begin_staging_keeping_part(m) ==
    /\ downloads' = downloads + 1
    /\ pkg_file' = NoFile
    /\ hashing' = [on |-> TRUE, right |-> TRUE]
    /\ staging' = [staging EXCEPT !.state = "downloading", !.target = m.version,
                                  !.staged = 0, !.reboot = m.reboot]
    /\ save_record_to_disk(staging')
    /\ UNCHANGED <<part_file, active_dir, backup_dir, staging_at>>

\* begin_staging() while no exam runs; during one it returns at once.
begin_staging(m) ==
    /\ downloads' = downloads + 1
    /\ part_file' = NoFile /\ pkg_file' = NoFile
    /\ hashing' = [on |-> TRUE, right |-> TRUE]
    /\ staging' = [staging EXCEPT !.state = "downloading", !.target = m.version,
                                  !.staged = 0, !.reboot = m.reboot]
    /\ save_record_to_disk(staging')
    /\ UNCHANGED <<active_dir, backup_dir, staging_at>>

\* The same, failing after the stale files were removed (no hash provider).
begin_staging_fails ==
    /\ staging_at = "idle" /\ StagingFault
    /\ part_file' = NoFile /\ pkg_file' = NoFile
    /\ hashing' = NotHashing
    /\ UNCHANGED <<staging, record_file, active_dir, backup_dir, staging_at,
                   downloads>>

receive_manifest ==
    /\ staging_at = "idle" /\ downloads < MaxDownloads
    /\ \E m \in Manifests :
          /\ \E env \in Environments :
                verify_manifest_against_environment(m, env, active_dir.of)
          /\ begin_staging(m)

abort_staging ==
    /\ hashing' = NotHashing
    /\ part_file' = NoFile
    /\ staging' = [staging EXCEPT !.state = "failed"]
    /\ save_record_to_disk(staging')
    /\ UNCHANGED <<pkg_file, active_dir, backup_dir, staging_at, downloads>>

Streaming ==
    staging_at = "idle" /\ staging.state = "downloading" /\ hashing.on

Appended(file, units, own) ==
    [of |-> staging.target, units |-> file.units + units,
     own |-> file.own /\ own /\ file.of \in {0, staging.target},
     lost |-> file.lost + (1 - units)]

\* A chunk of one unit, the package's own or not.  The stream that writes it
\* is closed without a check: a unit can be missing from the file.
append_chunk(own) ==
    /\ Streaming
    /\ IF staging.staged < PackageUnits
       THEN /\ \/ part_file' = Appended(part_file, 1, own) /\ UNCHANGED staging_faults
               \/ part_file' = Appended(part_file, 0, own) /\ StagingFault
            /\ hashing' = [hashing EXCEPT !.right = @ /\ own]
            /\ staging' = [staging EXCEPT !.staged = @ + 1]
            /\ UNCHANGED <<record_file, pkg_file, active_dir, backup_dir, staging_at,
                           downloads>>
       ELSE abort_staging

\* A write that is seen to fail, and the caller giving up, abort.
append_chunk_fails == Streaming /\ abort_staging

finalize_staging ==
    /\ Streaming
    /\ IF staging.staged = PackageUnits /\ hashing.right
       THEN /\ hashing' = NotHashing
            /\ pkg_file' = part_file /\ part_file' = NoFile
            /\ staging' = [staging EXCEPT !.state = IF staging.reboot
                                                    THEN "apply_pending_reboot"
                                                    ELSE "staged"]
            /\ save_record_to_disk(staging')
            /\ UNCHANGED <<active_dir, backup_dir, staging_at, downloads>>
       ELSE abort_staging

-----------------------------------------------------------------------------
(* Installing.                                                             *)

\* The first half of apply_staged_update(): the previous backup is deleted
\* and the installation becomes the backup.
apply_staged_update ==
    /\ staging_at = "idle"
    /\ staging.state \in {"staged", "apply_pending_reboot"}
    /\ Exists(pkg_file)
    /\ staging_at' = "moved"
    /\ backup_dir' = active_dir
    /\ active_dir' = EmptyDir(pkg_file.of)
    /\ staging' = [staging EXCEPT !.backup = @ \/ Exists(active_dir)]
    /\ UNCHANGED <<hashing, record_file, part_file, pkg_file, downloads,
                   staging_faults>>

\* The rename fails, or the new directory cannot be made and the installation
\* is moved back, or not even that.  The previous backup is gone all the same.
apply_move_fails ==
    /\ staging_at = "idle"
    /\ staging.state \in {"staged", "apply_pending_reboot"}
    /\ Exists(pkg_file) /\ StagingFault
    /\ \/ backup_dir' = NoFile /\ UNCHANGED <<staging, active_dir>>
       \/ /\ Exists(active_dir)
          /\ backup_dir' = NoFile /\ UNCHANGED active_dir
          /\ staging' = [staging EXCEPT !.backup = FALSE]
       \/ /\ Exists(active_dir)
          /\ backup_dir' = active_dir /\ active_dir' = NoFile
          /\ staging' = [staging EXCEPT !.backup = TRUE]
    /\ UNCHANGED <<hashing, record_file, part_file, pkg_file, staging_at, downloads>>

\* The package is copied into the new installation, whole or, when the copy
\* fails, in part: the directory exists by then, so nothing is moved back.
apply_copy ==
    /\ staging_at = "moved"
    /\ \/ /\ active_dir' = pkg_file
          /\ staging_at' = "copied"
          /\ UNCHANGED staging_faults
       \/ /\ \E n \in 0 .. pkg_file.units : active_dir' = [pkg_file EXCEPT !.units = n]
          /\ staging_at' = "idle"
          /\ StagingFault
    /\ UNCHANGED <<staging, hashing, record_file, part_file, pkg_file, backup_dir,
                   downloads>>

apply_record ==
    /\ staging_at = "copied"
    /\ staging_at' = "idle"
    /\ staging' = [staging EXCEPT !.state = "validating"]
    /\ save_record_to_disk(staging')
    /\ UNCHANGED <<hashing, part_file, pkg_file, active_dir, backup_dir, downloads>>

commit_update ==
    /\ staging_at = "idle" /\ staging.state = "validating"
    /\ backup_dir' = IF staging.backup THEN NoFile ELSE backup_dir
    /\ pkg_file' = NoFile
    /\ staging' = [staging EXCEPT !.state = "committed", !.backup = FALSE]
    /\ save_record_to_disk(staging')
    /\ UNCHANGED <<hashing, part_file, active_dir, staging_at, downloads>>

\* rollback_update() deletes the installation, then renames the backup.
rollback_update ==
    /\ staging_at = "idle" /\ staging.state = "validating"
    /\ IF staging.backup /\ Exists(backup_dir)
       THEN /\ active_dir' = NoFile
            /\ staging_at' = "removed"
            /\ UNCHANGED <<staging, record_file, staging_faults>>
       ELSE /\ staging' = [staging EXCEPT !.state = "failed"]
            /\ save_record_to_disk(staging')
            /\ UNCHANGED <<active_dir, staging_at>>
    /\ UNCHANGED <<hashing, part_file, pkg_file, backup_dir, downloads>>

rollback_rename ==
    /\ staging_at = "removed"
    /\ staging_at' = "idle"
    /\ active_dir' = backup_dir /\ backup_dir' = NoFile
    /\ staging' = [staging EXCEPT !.state = "rolling_back", !.backup = FALSE]
    /\ save_record_to_disk(staging')
    /\ UNCHANGED <<hashing, part_file, pkg_file, downloads>>

\* The installation cannot be deleted, or only in part, or the rename fails:
\* the backup stays where it is.
rollback_fails ==
    /\ StagingFault
    /\ \/ /\ staging_at = "idle" /\ staging.state = "validating"
          /\ staging.backup /\ Exists(backup_dir)
          /\ \E n \in 0 .. active_dir.units : active_dir' = [active_dir EXCEPT !.units = n]
       \/ staging_at = "removed" /\ UNCHANGED active_dir
    /\ staging_at' = "idle"
    /\ staging' = [staging EXCEPT !.state = "failed"]
    /\ record_file' \in {staging', record_file, TornRecordFile}
    /\ UNCHANGED <<hashing, part_file, pkg_file, backup_dir, downloads>>

\* The process dies; a copy under way may have been written in part.
staging_crash ==
    /\ staging_at # "down" /\ StagingFault
    /\ staging_at' = "down"
    /\ staging' = StagingRecord /\ hashing' = NotHashing
    /\ IF staging_at = "moved"
       THEN \E n \in 0 .. pkg_file.units : active_dir' = [pkg_file EXCEPT !.units = n]
       ELSE UNCHANGED active_dir
    /\ UNCHANGED <<record_file, part_file, pkg_file, backup_dir, downloads>>

StagingNext ==
    \/ init
    \/ set_deferred
    \/ receive_manifest
    \/ begin_staging_fails
    \/ \E own \in BOOLEAN : append_chunk(own)
    \/ append_chunk_fails
    \/ finalize_staging
    \/ apply_staged_update
    \/ apply_move_fails
    \/ apply_copy
    \/ apply_record
    \/ commit_update
    \/ rollback_update
    \/ rollback_rename
    \/ rollback_fails
    \/ staging_crash

StagingSpec == StagingInit /\ [][StagingNext]_stagingVars

-----------------------------------------------------------------------------
\* What the package file, the installation and its backup hold comes from the
\* one package whose verified manifest was staged, and the package file misses
\* nothing of it but what the disk lost unnoticed: no crash, failed save or
\* interrupted download lets a part file mix two downloads, repeats or skips a
\* chunk, or lets bytes the digest did not cover be installed
\* (finalize_staging(), apply_staged_update()).  docs/AUTO_UPDATE_LTSC.md:175
\* promises a whole package; the file is not read back, so lost units stay lost.
InstalledIsSigned ==
    /\ \A f \in {pkg_file, active_dir, backup_dir} : f.own
    /\ Exists(pkg_file) => pkg_file.units + pkg_file.lost = PackageUnits

=============================================================================
