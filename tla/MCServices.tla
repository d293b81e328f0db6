----------------------------- MODULE MCServices -----------------------------
(***************************************************************************)
(* The services that share no state with each other, checked in one run:   *)
(* in each behaviour one of them, chosen at the start, takes its steps and *)
(* the others stay at an initial state, so that the state spaces add up    *)
(* instead of multiplying.                                                 *)
(***************************************************************************)
EXTENDS FileTransfer, TelemetryJournal, UpdateStaging, MaintenanceIntents, AuditTrail,
        VideoStream, PacketLoss, RemoteSession, WriteFilterSetup,
        StudentAgent, Discovery

VARIABLE part

Parts == {"files", "telemetry", "staging", "intents", "audit", "video", "loss",
          "remote", "filter", "agent", "discovery"}

\* Two of the folders of kDefenderExclusionPaths.
DefenderFolders == <<"platform", "definitions">>

UntouchedSettings == FoundSettings(FALSE, {}, "ram", 2048, 0, 0)

\* A service that takes no step needs only one of its initial states.
Init ==
    /\ part \in Parts
    /\ FileInit /\ TelemetryInit /\ StagingInit /\ IntentInit /\ VideoInit
    /\ AgentInit /\ DiscoveryInit
    /\ AuditInit /\ (part # "audit" => sink.open)
    /\ LossInit /\ (part # "loss" => ~sequence_set)
    /\ RemoteInit /\ (part # "remote" => stream_host = "stopped")
    /\ FilterInit /\ (part # "filter" => settings = UntouchedSettings)

FilesStep ==
    /\ part = "files" /\ FileNext
    /\ UNCHANGED <<part, telemetryVars, stagingVars, intentVars, auditVars, videoVars,
                   lossVars, remoteVars, filterVars,
                   agentVars, discoveryVars>>

TelemetryStep ==
    /\ part = "telemetry" /\ TelemetryNext
    /\ UNCHANGED <<part, fileVars, stagingVars, intentVars, auditVars, videoVars,
                   lossVars, remoteVars, filterVars,
                   agentVars, discoveryVars>>

StagingStep ==
    /\ part = "staging" /\ StagingNext
    /\ UNCHANGED <<part, fileVars, telemetryVars, intentVars, auditVars, videoVars,
                   lossVars, remoteVars, filterVars,
                   agentVars, discoveryVars>>

IntentsStep ==
    /\ part = "intents" /\ IntentNext
    /\ UNCHANGED <<part, fileVars, telemetryVars, stagingVars, auditVars, videoVars,
                   lossVars, remoteVars, filterVars,
                   agentVars, discoveryVars>>

AuditStep ==
    /\ part = "audit" /\ AuditNext
    /\ UNCHANGED <<part, fileVars, telemetryVars, stagingVars, intentVars, videoVars,
                   lossVars, remoteVars, filterVars,
                   agentVars, discoveryVars>>

VideoStep ==
    /\ part = "video" /\ VideoNext
    /\ UNCHANGED <<part, fileVars, telemetryVars, stagingVars, intentVars, auditVars,
                   lossVars, remoteVars, filterVars,
                   agentVars, discoveryVars>>

LossStep ==
    /\ part = "loss" /\ LossNext
    /\ UNCHANGED <<part, fileVars, telemetryVars, stagingVars, intentVars, auditVars,
                   videoVars, remoteVars, filterVars,
                   agentVars, discoveryVars>>

RemoteStep ==
    /\ part = "remote" /\ RemoteNext
    /\ UNCHANGED <<part, fileVars, telemetryVars, stagingVars, intentVars, auditVars,
                   videoVars, lossVars, filterVars,
                   agentVars, discoveryVars>>

FilterStep ==
    /\ part = "filter" /\ FilterNext
    /\ UNCHANGED <<part, fileVars, telemetryVars, stagingVars, intentVars, auditVars,
                   videoVars, lossVars, remoteVars,
                   agentVars, discoveryVars>>

AgentStep ==
    /\ part = "agent" /\ AgentNext
    /\ UNCHANGED <<part, fileVars, telemetryVars, stagingVars, intentVars, auditVars,
                   videoVars, lossVars, remoteVars, filterVars, discoveryVars>>

DiscoveryStep ==
    /\ part = "discovery" /\ DiscoveryNext
    /\ UNCHANGED <<part, fileVars, telemetryVars, stagingVars, intentVars, auditVars,
                   videoVars, lossVars, remoteVars, filterVars, agentVars>>

Next ==
    \/ FilesStep
    \/ TelemetryStep
    \/ StagingStep
    \/ IntentsStep
    \/ AuditStep
    \/ VideoStep
    \/ LossStep
    \/ RemoteStep
    \/ FilterStep
    \/ AgentStep
    \/ DiscoveryStep

=============================================================================
