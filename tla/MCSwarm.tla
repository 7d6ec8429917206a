------------------------------ MODULE MCSwarm ------------------------------
\* The modules of the swarm and of its training data share no state: one of
\* them is explored at a time, while the others stay at one of their first
\* states.  Two of them are explored in two parts: the Warden without quarantine
\* events ("tiers") and without anything but those ("files"), the environment
\* over its resets and over restarts of its process.
EXTENDS EscrowBridge, ChildLedger, WardenAudit, LobEpisode, ReplayMemory, TradePipeline,
        TrainingTable, SovereignChild

VARIABLE subject

Subjects == {"escrow", "ledger", "tiers", "files", "resets", "restarts", "replay", "pipeline", "table",
             "child"}
Warden   == {"tiers", "files"}
Episode  == {"resets", "restarts"}

ThreeFiles == <<3, 0, 1>>

SwarmInit ==
    /\ subject \in Subjects
    /\ EscrowInit /\ LedgerInit /\ WardenInit /\ EpisodeInit /\ ReplayInit
    /\ IF subject = "pipeline" THEN PipelineInit ELSE bucketing = "cudf" /\ PipelineInit
    /\ IF subject = "table" THEN TableInit ELSE daily = [l \in Legs |-> Times] /\ TableInit
    /\ IF subject = "child" THEN ChildInit
       ELSE name = "PPO-DilatedCNN" /\ trainer = "PPO" /\ ChildInit

marketVars     == <<escrowVars, ledgerVars, wardenVars>>
experienceVars == <<episodeVars, replayVars>>
dataVars       == <<pipelineVars, tableVars>>

SwarmNext ==
    /\ UNCHANGED subject
    /\ \/ /\ subject = "escrow" /\ EscrowNext
          /\ UNCHANGED <<ledgerVars, wardenVars, experienceVars, dataVars, childVars>>
       \/ /\ subject = "ledger" /\ LedgerNext
          /\ UNCHANGED <<escrowVars, wardenVars, experienceVars, dataVars, childVars>>
       \/ /\ subject \in Warden /\ WardenNext
          /\ subject = "tiers" => UNCHANGED quarantine
          /\ subject = "files" => UNCHANGED <<child, stale>>
          /\ UNCHANGED <<escrowVars, ledgerVars, experienceVars, dataVars, childVars>>
       \/ /\ subject \in Episode /\ EpisodeNext
          /\ subject = "resets" => UNCHANGED envs
          /\ subject = "restarts" => env'.name = env.name
          /\ UNCHANGED <<marketVars, replayVars, dataVars, childVars>>
       \/ /\ subject = "replay" /\ ReplayNext
          /\ UNCHANGED <<marketVars, episodeVars, dataVars, childVars>>
       \/ /\ subject = "pipeline" /\ PipelineNext
          /\ UNCHANGED <<marketVars, experienceVars, tableVars, childVars>>
       \/ /\ subject = "table" /\ TableNext
          /\ UNCHANGED <<marketVars, experienceVars, pipelineVars, childVars>>
       \/ /\ subject = "child" /\ ChildNext
          /\ UNCHANGED <<marketVars, experienceVars, dataVars>>

swarmVars == <<subject, marketVars, experienceVars, dataVars, childVars>>

\* The fairness of each module's own specification, for the one explored.
SwarmFairness ==
    /\ \A p \in Settlers : WF_escrowVars(subject = "escrow" /\ Settle(p))
    /\ WF_wardenVars(subject \in Warden /\ (AuditDue \/ AuditStep("auditor")))
    /\ WF_episodeVars(subject \in Episode /\ ResetOrStep)
    /\ \A e \in EpisodeIds : WF_episodeVars(subject \in Episode /\ Prefetch(e))

SwarmSpec == SwarmInit /\ [][SwarmNext]_swarmVars /\ SwarmFairness
=============================================================================
