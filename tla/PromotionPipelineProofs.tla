---------------------- MODULE PromotionPipelineProofs ----------------------
(***************************************************************************)
(* Theorems of PromotionPipeline for every tournament, every assignment of *)
(* algorithms and every number of approvals at once, except the last one,  *)
(* which needs approvals one at a time.                                    *)
(***************************************************************************)
EXTENDS PromotionPipeline, TLAPS

\* Weights are never one of the three special values.
LEMMA FreshIsWeights ==
    ASSUME made \in [Agents -> 0..MaxVersions], NEW a \in Agents, made[a] < MaxVersions
    PROVE  Fresh(a) \in Weights /\ made[a] + 1 \in 0..MaxVersions
BY PipelineAssumption DEF Fresh, Weights

\* Both ways the weights in memory may change keep the types.
LEMMA ReshapeTyped ==
    ASSUME PromotionTypeOK, trainer.at # "none", NEW a \in Agents, PerhapsReshape(a)
    PROVE  /\ made' \in [Agents -> 0..MaxVersions]
           /\ memory' \in [Agents -> Weights \union {Nothing}]
           /\ \A b \in Agents : memory'[b] \in Weights
<1>1. CASE Reshape(a)
  <2>1. Fresh(a) \in Weights /\ made[a] + 1 \in 0..MaxVersions
    BY <1>1, FreshIsWeights DEF Reshape, PromotionTypeOK
  <2> QED BY <1>1, <2>1 DEF PromotionTypeOK, Reshape
<1>2. CASE UNCHANGED <<made, memory>>
  BY <1>2 DEF PromotionTypeOK
<1> QED BY <1>1, <1>2 DEF PerhapsReshape

-----------------------------------------------------------------------------
\* The values the steps store are of the right kind, and a trainer that runs has
\* models to evaluate (PromotionTypeOK).
THEOREM PipelineTypeCorrect == PromotionSpec => []PromotionTypeOK
<1>1. PromotionInit => PromotionTypeOK
  <2> SUFFICES ASSUME PromotionInit PROVE PromotionTypeOK
    OBVIOUS
  <2>1. made \in [Agents -> 0..MaxVersions]
    BY PipelineAssumption DEF PromotionInit
  <2>2. gate \in [Agents -> SUBSET Weights]
    BY DEF PromotionInit
  <2>3. job \in [Approvers -> [at : {"idle"}, agent : {Nothing}, via : {"memory"}, model : {Nothing}]]
    BY DEF PromotionInit, NoJob
  <2> QED BY <2>1, <2>2, <2>3 DEF PromotionInit, PromotionTypeOK, Files
<1>2. PromotionTypeOK /\ [PromotionNext]_promotionVars => PromotionTypeOK'
  <2> SUFFICES ASSUME PromotionTypeOK, [PromotionNext]_promotionVars PROVE PromotionTypeOK'
    OBVIOUS
  <2>1. CASE StartTrading
    BY <2>1 DEF StartTrading, Loadable, PromotionTypeOK, checkpoints, queue
  <2>2. CASE StartTraining
    <3>1. \A a \in Agents : Fresh(a) \in Weights /\ made[a] + 1 \in 0..MaxVersions
      BY <2>2, FreshIsWeights DEF StartTraining, PromotionTypeOK
    <3> QED BY <2>2, <3>1 DEF StartTraining, PromotionTypeOK, checkpoints, queue
  <2>3. CASE Stop
    BY <2>3 DEF Stop, PromotionTypeOK, checkpoints, queue
  <2>4. CASE Restart
    BY <2>4 DEF Restart, PromotionTypeOK, NoJob, Files
  <2>5. ASSUME NEW a \in Agents, Learn(a) PROVE PromotionTypeOK'
    <3>1. PerhapsReshape(a) /\ trainer.at # "none"
      BY <2>5 DEF Learn, PerhapsReshape
    <3>2. /\ made' \in [Agents -> 0..MaxVersions]
          /\ memory' \in [Agents -> Weights \union {Nothing}]
          /\ \A b \in Agents : memory'[b] \in Weights
      BY <3>1, ReshapeTyped
    <3> QED BY <2>5, <3>2 DEF Learn, PromotionTypeOK, Files, queue
  <2>6. ASSUME NEW a \in Agents, Save(a) PROVE PromotionTypeOK'
    <3>1. /\ made' \in [Agents -> 0..MaxVersions]
          /\ memory' \in [Agents -> Weights \union {Nothing}]
          /\ \A b \in Agents : memory'[b] \in Weights
      BY <2>6, ReshapeTyped DEF Save
    <3>2. disk' \in [Agents -> Files]
      BY <2>6 DEF Save, PromotionTypeOK, Files
    <3> QED BY <2>6, <3>1, <3>2 DEF Save, PromotionTypeOK, queue
  <2>7. ASSUME NEW a \in Agents, LearnFails(a) PROVE PromotionTypeOK'
    <3>1. /\ made' \in [Agents -> 0..MaxVersions]
          /\ memory' \in [Agents -> Weights \union {Nothing}]
          /\ \A b \in Agents : memory'[b] \in Weights
      BY <2>7, ReshapeTyped DEF LearnFails
    <3> QED BY <2>7, <3>1 DEF LearnFails, PromotionTypeOK, checkpoints, queue
  <2>8. ASSUME NEW child \in Agents, NEW parent \in Agents, Exploit(child, parent)
        PROVE  PromotionTypeOK'
    BY <2>8 DEF Exploit, Loadable, PromotionTypeOK, queue
  <2>9. ASSUME NEW a \in Agents, NEW passes \in BOOLEAN, Evaluate(a, passes)
        PROVE  PromotionTypeOK'
    <3>1. CASE passes
      <4>1. memory[a] \in Weights
        BY <2>9 DEF Evaluate, PromotionTypeOK
      <4> QED BY <2>9, <3>1, <4>1 DEF Evaluate, PromotionTypeOK, checkpoints
    <3>2. CASE ~passes
      BY <2>9, <3>2 DEF Evaluate, PromotionTypeOK, checkpoints
    <3> QED BY <3>1, <3>2
  <2>10. CASE WriteRecord
    BY <2>10 DEF WriteRecord, PromotionTypeOK, checkpoints
  <2>11. CASE Wake
    BY <2>11 DEF Wake, PromotionTypeOK, checkpoints, queue
  <2>12. ASSUME NEW p \in Approvers, Find(p) PROVE PromotionTypeOK'
    BY <2>12 DEF Find, PromotionTypeOK, NoJob, checkpoints
  <2>13. ASSUME NEW p \in Approvers, Copy(p) PROVE PromotionTypeOK'
    <3>1. disk[job[p].agent] \in Files
      BY <2>13 DEF Copy, PromotionTypeOK
    <3>2. deployed' \in Files
      BY <2>13, <3>1 DEF Copy, PromotionTypeOK, Files
    <3>3. \/ job' = [job EXCEPT ![p].at = "load"]
          \/ job' = [job EXCEPT ![p].at = "finish"]
          \/ job' = [job EXCEPT ![p] = NoJob]
      BY <2>13 DEF Copy, To
    <3>4. UNCHANGED <<made, memory, disk, gate, pending, records, live, trainer, running>>
      BY <2>13 DEF Copy, queue
    <3>5. job[p].agent \in Agents
      BY <2>13 DEF Copy, PromotionTypeOK
    <3> QED BY <3>2, <3>3, <3>4, <3>5 DEF PromotionTypeOK, NoJob
  <2>14. ASSUME NEW p \in Approvers, Load(p) PROVE PromotionTypeOK'
    BY <2>14 DEF Load, Loadable, To, PromotionTypeOK, checkpoints, queue
  <2>15. ASSUME NEW p \in Approvers, Assign(p) PROVE PromotionTypeOK'
    BY <2>15 DEF Assign, To, PromotionTypeOK, checkpoints, queue
  <2>16. ASSUME NEW p \in Approvers, Finish(p) PROVE PromotionTypeOK'
    BY <2>16 DEF Finish, PromotionTypeOK, NoJob, checkpoints
  <2>17. ASSUME NEW p \in Approvers, NEW a \in Agents, Ask(p, a) PROVE PromotionTypeOK'
    BY <2>17 DEF Ask, PromotionTypeOK, JobFor, checkpoints, queue
  <2>18. CASE UNCHANGED promotionVars
    BY <2>18 DEF PromotionTypeOK, promotionVars, checkpoints, queue
  <2> QED
    BY <2>1, <2>2, <2>3, <2>4, <2>5, <2>6, <2>7, <2>8, <2>9, <2>10, <2>11, <2>12, <2>13,
       <2>14, <2>15, <2>16, <2>17, <2>18 DEF PromotionNext, TrainerStep, ApproverStep
<1> QED BY <1>1, <1>2, PTL DEF PromotionSpec

-----------------------------------------------------------------------------
\* The models on their way to the server are its own kind as well.
AlgorithmInv ==
    /\ LiveKeepsItsAlgorithm
    /\ \A p \in Approvers : job[p].at = "assign" => Loadable(job[p].model, ServerAlgorithm)

\* Whatever is approved, the server's model keeps its algorithm (LiveKeepsItsAlgorithm).
THEOREM AlgorithmIsKept == PromotionSpec => []LiveKeepsItsAlgorithm
<1>1. PromotionInit => AlgorithmInv
  BY PipelineAssumption DEF PromotionInit, AlgorithmInv, LiveKeepsItsAlgorithm, NoJob
<1>2. PromotionTypeOK /\ AlgorithmInv /\ [PromotionNext]_promotionVars => AlgorithmInv'
  <2> SUFFICES ASSUME PromotionTypeOK, AlgorithmInv, [PromotionNext]_promotionVars PROVE AlgorithmInv'
    OBVIOUS
  <2> USE DEF AlgorithmInv, LiveKeepsItsAlgorithm
  <2>1. CASE StartTrading
    BY <2>1, PipelineAssumption DEF StartTrading, Loadable
  <2>2. CASE Restart
    BY <2>2, PipelineAssumption DEF Restart, NoJob
  <2>3. ASSUME NEW p \in Approvers, Load(p) PROVE AlgorithmInv'
    BY <2>3 DEF Load, To, PromotionTypeOK
  <2>4. ASSUME NEW p \in Approvers, Assign(p) PROVE AlgorithmInv'
    BY <2>4 DEF Assign, To, PromotionTypeOK, Loadable
  <2>5. ASSUME NEW p \in Approvers, Find(p) \/ Copy(p) \/ Finish(p) \/ \E a \in Agents : Ask(p, a)
        PROVE  AlgorithmInv'
    <3>1. live' = live
      BY <2>5 DEF Find, Copy, Finish, Ask
    <3>2. \A q \in Approvers : job'[q].at = "assign" => job'[q] = job[q]
      <4>1. CASE Find(p)
        BY <4>1 DEF Find, NoJob, PromotionTypeOK
      <4>2. CASE Copy(p)
        BY <4>2 DEF Copy, To, NoJob, PromotionTypeOK
      <4>3. CASE Finish(p)
        BY <4>3 DEF Finish, NoJob, PromotionTypeOK
      <4>4. ASSUME NEW a \in Agents, Ask(p, a)
            PROVE  \A q \in Approvers : job'[q].at = "assign" => job'[q] = job[q]
        BY <4>4 DEF Ask, JobFor, PromotionTypeOK
      <4> QED BY <2>5, <4>1, <4>2, <4>3, <4>4
    <3> QED BY <3>1, <3>2
  <2>6. CASE TrainerStep \/ StartTraining \/ Stop \/ UNCHANGED promotionVars
    <3>1. UNCHANGED <<live, job>>
      BY <2>6 DEF TrainerStep, Learn, Save, LearnFails, Exploit, Evaluate, WriteRecord, Wake,
                  StartTraining, Stop, promotionVars
    <3> QED BY <3>1
  <2> QED BY <2>1, <2>2, <2>3, <2>4, <2>5, <2>6 DEF PromotionNext, ApproverStep
<1>3. AlgorithmInv => LiveKeepsItsAlgorithm
  BY DEF AlgorithmInv
<1> QED BY <1>1, <1>2, <1>3, PipelineTypeCorrect, PTL DEF PromotionSpec

-----------------------------------------------------------------------------
\* The record about to be written is one of an agent that passed.
PassedInv ==
    /\ OnlyPassedAgentsArePromoted
    /\ trainer.at = "queue" => gate[trainer.agent] # {}

\* No agent gets near the deployed file without a pass (OnlyPassedAgentsArePromoted).
THEOREM PassesComeFirst == PromotionSpec => []OnlyPassedAgentsArePromoted
<1>1. PromotionInit => PassedInv
  BY DEF PromotionInit, PassedInv, OnlyPassedAgentsArePromoted, NoJob
<1>2. PromotionTypeOK /\ PassedInv /\ [PromotionNext]_promotionVars => PassedInv'
  <2> SUFFICES ASSUME PromotionTypeOK, PassedInv, [PromotionNext]_promotionVars PROVE PassedInv'
    OBVIOUS
  <2> USE DEF PassedInv, OnlyPassedAgentsArePromoted
  <2>1. CASE Restart
    BY <2>1 DEF Restart, NoJob
  <2>2. ASSUME NEW a \in Agents, NEW passes \in BOOLEAN, Evaluate(a, passes) PROVE PassedInv'
    <3>1. CASE passes
      <4>1. gate' = [gate EXCEPT ![a] = @ \union {memory[a]}] /\ pending' = pending \union {a}
        BY <2>2, <3>1 DEF Evaluate
      <4>2. \A b \in Agents : gate[b] # {} \/ b = a => gate'[b] # {}
        BY <4>1 DEF PromotionTypeOK
      <4> QED BY <2>2, <3>1, <4>1, <4>2 DEF Evaluate, PromotionTypeOK
    <3>2. CASE ~passes
      BY <2>2, <3>2 DEF Evaluate
    <3> QED BY <3>1, <3>2
  <2>3. CASE WriteRecord
    BY <2>3 DEF WriteRecord, PromotionTypeOK
  <2>4. ASSUME NEW p \in Approvers, Find(p) PROVE PassedInv'
    BY <2>4 DEF Find, NoJob, PromotionTypeOK
  <2>5. ASSUME NEW p \in Approvers,
               Copy(p) \/ Load(p) \/ Assign(p) \/ Finish(p) \/ \E a \in Agents : Ask(p, a)
        PROVE  PassedInv'
    <3>1. /\ UNCHANGED <<gate, pending, trainer>>
          /\ records' \subseteq records
      BY <2>5 DEF Copy, Load, Assign, Finish, Ask, queue
    <3>2. \A q \in Approvers : job'[q].at # "copy" \/ job'[q] = job[q]
      <4>1. CASE Copy(p)
        BY <4>1 DEF Copy, To, NoJob, PromotionTypeOK
      <4>2. CASE Load(p) \/ Assign(p)
        BY <4>2 DEF Load, Assign, To, PromotionTypeOK
      <4>3. CASE Finish(p)
        BY <4>3 DEF Finish, NoJob, PromotionTypeOK
      <4>4. ASSUME NEW a \in Agents, Ask(p, a)
            PROVE  \A q \in Approvers : job'[q].at # "copy" \/ job'[q] = job[q]
        BY <4>4 DEF Ask, JobFor, PromotionTypeOK
      <4> QED BY <2>5, <4>1, <4>2, <4>3, <4>4
    <3> QED BY <3>1, <3>2
  <2>6. CASE \/ \E a \in Agents : Learn(a) \/ Save(a) \/ LearnFails(a)
             \/ \E child, parent \in Agents : Exploit(child, parent)
             \/ Wake \/ StartTraining \/ StartTrading \/ Stop \/ UNCHANGED promotionVars
    <3>1. UNCHANGED <<gate, pending, records, job>>
      BY <2>6 DEF Learn, Save, LearnFails, Exploit, Wake, StartTraining, StartTrading, Stop,
                  queue, promotionVars
    <3>2. trainer' = trainer \/ trainer'.at # "queue"
      <4>1. ASSUME NEW a \in Agents, Learn(a) \/ Save(a) \/ LearnFails(a)
            PROVE  trainer'.at # "queue"
        <5>1. CASE Learn(a)
          BY <5>1 DEF Learn, PromotionTypeOK
        <5>2. CASE Save(a)
          BY <5>2 DEF Save
        <5>3. CASE LearnFails(a)
          BY <5>3 DEF LearnFails, PromotionTypeOK
        <5> QED BY <4>1, <5>1, <5>2, <5>3
      <4>2. ASSUME NEW child \in Agents, NEW parent \in Agents, Exploit(child, parent)
            PROVE  trainer'.at # "queue"
        BY <4>2 DEF Exploit, PromotionTypeOK
      <4>3. CASE Wake \/ StartTraining
        BY <4>3 DEF Wake, StartTraining
      <4> QED BY <2>6, <4>1, <4>2, <4>3 DEF StartTrading, Stop, promotionVars
    <3> QED BY <3>1, <3>2
  <2> QED BY <2>1, <2>2, <2>3, <2>4, <2>5, <2>6 DEF PromotionNext, TrainerStep, ApproverStep
<1>3. PassedInv => OnlyPassedAgentsArePromoted
  BY DEF PassedInv
<1> QED BY <1>1, <1>2, <1>3, PipelineTypeCorrect, PTL DEF PromotionSpec

-----------------------------------------------------------------------------
\* A model about to go live is the deployed file.
DeployedInv ==
    /\ LiveIsDeployed
    /\ \A p \in Approvers : job[p].at = "assign" => job[p].model = deployed

\* Approvals one at a time leave the server with the deployed file (LiveIsDeployed).
THEOREM ApprovalsOneAtATime ==
    (\A p, q \in Approvers : p = q) => (PromotionSpec => []LiveIsDeployed)
<1> SUFFICES ASSUME \A p, q \in Approvers : p = q PROVE PromotionSpec => []LiveIsDeployed
  OBVIOUS
<1>1. PromotionInit => DeployedInv
  BY DEF PromotionInit, DeployedInv, LiveIsDeployed, NoJob
<1>2. PromotionTypeOK /\ DeployedInv /\ [PromotionNext]_promotionVars => DeployedInv'
  <2> SUFFICES ASSUME PromotionTypeOK, DeployedInv, [PromotionNext]_promotionVars PROVE DeployedInv'
    OBVIOUS
  <2> USE DEF DeployedInv, LiveIsDeployed, Swapping
  <2>1. CASE StartTrading
    BY <2>1 DEF StartTrading, checkpoints
  <2>2. CASE Restart
    BY <2>2 DEF Restart, NoJob
  <2>3. ASSUME NEW p \in Approvers, Copy(p) PROVE DeployedInv'
    <3>1. job[p].at = "copy" /\ live' = live /\ job'[p].at # "assign"
      BY <2>3 DEF Copy, To, NoJob, PromotionTypeOK
    <3>2. job'[p].at = "load" \/ deployed' = deployed \/ deployed' = Torn
      BY <2>3 DEF Copy, To, PromotionTypeOK
    <3>3. ~Loadable(Torn, ServerAlgorithm)
      BY PipelineAssumption DEF Loadable
    <3> QED BY <3>1, <3>2, <3>3
  <2>4. ASSUME NEW p \in Approvers, Load(p) PROVE DeployedInv'
    BY <2>4 DEF Load, To, checkpoints, PromotionTypeOK
  <2>5. ASSUME NEW p \in Approvers, Assign(p) PROVE DeployedInv'
    BY <2>5 DEF Assign, To, checkpoints, PromotionTypeOK
  <2>6. ASSUME NEW p \in Approvers, Find(p) \/ Finish(p) \/ \E a \in Agents : Ask(p, a)
        PROVE  DeployedInv'
    <3>1. UNCHANGED <<live, deployed>>
      BY <2>6 DEF Find, Finish, Ask, checkpoints
    <3>2. \A q \in Approvers : \/ job'[q] = job[q]
                               \/ /\ job[q].at \notin {"load", "assign"}
                                  /\ job'[q].at \notin {"load", "assign"}
      <4>1. CASE Find(p)
        BY <4>1 DEF Find, NoJob, PromotionTypeOK
      <4>2. CASE Finish(p)
        BY <4>2 DEF Finish, NoJob, PromotionTypeOK
      <4>3. ASSUME NEW a \in Agents, Ask(p, a)
            PROVE  \A q \in Approvers : \/ job'[q] = job[q]
                                   \/ /\ job[q].at \notin {"load", "assign"}
                                      /\ job'[q].at \notin {"load", "assign"}
        BY <4>3 DEF Ask, JobFor, PromotionTypeOK
      <4> QED BY <2>6, <4>1, <4>2, <4>3
    <3> QED BY <3>1, <3>2
  <2>7. CASE TrainerStep \/ StartTraining \/ Stop \/ UNCHANGED promotionVars
    <3>1. UNCHANGED <<live, job, deployed>>
      BY <2>7 DEF TrainerStep, Learn, Save, LearnFails, Exploit, Evaluate, WriteRecord, Wake,
                  StartTraining, Stop, promotionVars, checkpoints
    <3> QED BY <3>1
  <2> QED BY <2>1, <2>2, <2>3, <2>4, <2>5, <2>6, <2>7 DEF PromotionNext, ApproverStep
<1>3. DeployedInv => LiveIsDeployed
  BY DEF DeployedInv
<1> QED BY <1>1, <1>2, <1>3, PipelineTypeCorrect, PTL DEF PromotionSpec
=============================================================================
