------------------------- MODULE PromotionPipeline -------------------------
(***************************************************************************)
(* From a training cycle to the model that trades:                         *)
(* training/continuous_trainer.py, crucible_tournament.py, the approval    *)
(* endpoint of execution/control_panel_api.py and hot_swap_model() of      *)
(* execution/live_inference_server.py, all in one control-panel process.   *)
(* The trainer runs on the event loop and only yields it while it sleeps   *)
(* between cycles; an approval runs on a worker thread, so its steps       *)
(* interleave with those of the cycle.  Weights are [by, n], the n-th ones *)
(* agent "by" has produced; a checkpoint half written is Torn.  A copy is  *)
(* one step, which may raise, or die with the process, half way.           *)
(* DeploymentConfig refuses auto_promotion, so every promotion is approved.*)
(***************************************************************************)
EXTENDS Integers

CONSTANTS
    Nothing,         \* no file, no model, nobody
    Torn,            \* a file half written
    Baseline,        \* the MomentumBaseline fallback
    Agents,          \* the tournament's agents
    Algorithm,       \* the algorithm of each agent
    ServerAlgorithm, \* the one the inference server loads its model with
    Approvers,       \* worker threads that run approvals
    MaxVersions      \* bound: weights an agent may produce

Weights == [by : Agents, n : 1..MaxVersions]
Files   == Weights \union {Nothing, Torn}

ASSUME PipelineAssumption ==
    /\ MaxVersions \in Nat /\ Nothing \notin Agents
    /\ Nothing \notin Weights /\ Torn \notin Weights /\ Baseline \notin Weights
    /\ Nothing # Torn /\ Nothing # Baseline

VARIABLES
    made,      \* how many weights each agent has produced
    memory,    \* agent.trainer.model
    disk,      \* the agent's checkpoint file
    gate,      \* history: the weights each agent passed the evaluation with
    pending,   \* pending_promotions, in memory
    records,   \* state/pending_promotions/agent_*.json
    deployed,  \* state/deployed/weights_promoted.zip
    live,      \* the model of the inference server, Nothing before there is one
    trainer,   \* run_continuous: where it is, agents left to train, the agent at hand
    running,   \* is_running
    job        \* each approval: where it is, its agent, how it found it, the model loaded

checkpoints   == <<deployed, disk>>
queue         == <<pending, records>>
promotionVars == <<made, memory, checkpoints, gate, queue, live, trainer, running, job>>

NoJob     == [at |-> "idle", agent |-> Nothing, via |-> "memory", model |-> Nothing]
JobFor(a) == [at |-> "asked", agent |-> a, via |-> "memory", model |-> Nothing]

PromotionInit ==
    /\ made = [a \in Agents |-> 0]
    /\ memory = [a \in Agents |-> Nothing] /\ disk = [a \in Agents |-> Nothing]
    /\ gate = [a \in Agents |-> {}]
    /\ pending = {} /\ records = {}
    /\ deployed = Nothing /\ live = Nothing
    /\ trainer = [at |-> "none", todo |-> {}, agent |-> Nothing] /\ running = FALSE
    /\ job = [p \in Approvers |-> NoJob]

\* The event loop serves requests only while the trainer does not hold it.
LoopIsFree == trainer.at \in {"none", "off", "sleep"}

\* SB3 loads a whole file saved by the algorithm it is told to load.
Loadable(file, algorithm) == file \in Weights /\ Algorithm[file.by] = algorithm

-----------------------------------------------------------------------------
Fresh(a) == [by |-> a, n |-> made[a] + 1]

\* The weights of agent a change in memory: by learning, by a plasticity reset.
Reshape(a) ==
    /\ made[a] < MaxVersions
    /\ made' = [made EXCEPT ![a] = @ + 1]
    /\ memory' = [memory EXCEPT ![a] = Fresh(a)]

PerhapsReshape(a) == Reshape(a) \/ UNCHANGED <<made, memory>>

\* from_config(): load_frozen_model, which falls back to the baseline.
StartTrading ==
    /\ LoopIsFree /\ live = Nothing
    /\ live' = IF Loadable(deployed, ServerAlgorithm) THEN deployed ELSE Baseline
    /\ UNCHANGED <<made, memory, checkpoints, gate, queue, trainer, running, job>>

\* /api/training/start, then run_continuous up to its first cycle: new networks.
StartTraining ==
    /\ live # Nothing /\ trainer.at \in {"none", "off"}
    /\ \A a \in Agents : made[a] < MaxVersions
    /\ made' = [a \in Agents |-> made[a] + 1]
    /\ memory' = [a \in Agents |-> Fresh(a)]
    /\ trainer' = [at |-> "train", todo |-> Agents, agent |-> Nothing] /\ running' = TRUE
    /\ UNCHANGED <<checkpoints, gate, queue, live, job>>

\* TournamentAgent.train: learn, then save over the checkpoint.
Learn(a) ==
    /\ trainer.at = "train" /\ a \in trainer.todo
    /\ Reshape(a)
    /\ disk' = [disk EXCEPT ![a] = Torn]
    /\ trainer' = [trainer EXCEPT !.at = "save", !.agent = a]
    /\ UNCHANGED <<gate, queue, deployed, live, running, job>>

\* The save ends, or raises half way, which train() only logs; maybe_reset() follows.
Save(a) ==
    /\ trainer.at = "save" /\ trainer.agent = a
    /\ disk' \in {disk, [disk EXCEPT ![a] = memory[a]]}
    /\ PerhapsReshape(a)
    /\ trainer' = [at |-> "train", todo |-> trainer.todo \ {a}, agent |-> Nothing]
    /\ UNCHANGED <<gate, queue, deployed, live, running, job>>

\* learn() raises, before or after it has moved the weights; nothing is saved.
LearnFails(a) ==
    /\ trainer.at = "train" /\ a \in trainer.todo
    /\ PerhapsReshape(a)
    /\ trainer' = [trainer EXCEPT !.todo = @ \ {a}]
    /\ UNCHANGED <<checkpoints, gate, queue, live, running, job>>

\* _execute_pbt_step: the worst agent's checkpoint becomes the best one's, torn or not; its
\* model too, when its algorithm can load that file.  The default roster exploits one.
Exploit(child, parent) ==
    /\ trainer.at = "train" /\ trainer.todo = {}
    /\ child # parent /\ disk[parent] # Nothing
    /\ disk' = [disk EXCEPT ![child] = disk[parent]]
    /\ memory' = IF Loadable(disk[parent], Algorithm[child])
                 THEN [memory EXCEPT ![child] = disk[parent]] ELSE memory
    /\ trainer' = [trainer EXCEPT !.at = "ranked"]
    /\ UNCHANGED <<made, gate, queue, deployed, live, running, job>>

EvaluateAlwaysQueues(a, passes) ==
    /\ trainer.at \in {"train", "ranked"} /\ trainer.todo = {}
    /\ gate' = IF passes THEN [gate EXCEPT ![a] = @ \union {memory[a]}] ELSE gate
    /\ pending' = pending \union {a}
    /\ trainer' = [at |-> "queue", todo |-> {}, agent |-> a]
    /\ UNCHANGED <<made, memory, checkpoints, records, live, running, job>>

\* _evaluate_and_promote: the model in memory is evaluated; a pass is queued.
Evaluate(a, passes) ==
    /\ trainer.at \in {"train", "ranked"} /\ trainer.todo = {}
    /\ IF passes
       THEN /\ gate' = [gate EXCEPT ![a] = @ \union {memory[a]}]
            /\ pending' = pending \union {a}
            /\ trainer' = [at |-> "queue", todo |-> {}, agent |-> a]
       ELSE /\ trainer' = [at |-> "sleep", todo |-> {}, agent |-> Nothing]
            /\ UNCHANGED <<gate, pending>>
    /\ UNCHANGED <<made, memory, checkpoints, records, live, running, job>>

\* _queue_pending_promotion, second half: the record on disk, or an OSError logged.
WriteRecord ==
    /\ trainer.at = "queue"
    /\ records' \in {records, records \union {trainer.agent}}
    /\ trainer' = [at |-> "sleep", todo |-> {}, agent |-> Nothing]
    /\ UNCHANGED <<made, memory, checkpoints, gate, pending, live, running, job>>

\* asyncio.sleep ends; the loop test.
Wake ==
    /\ trainer.at = "sleep"
    /\ trainer' = IF running THEN [at |-> "train", todo |-> Agents, agent |-> Nothing]
                  ELSE [at |-> "off", todo |-> {}, agent |-> Nothing]
    /\ UNCHANGED <<made, memory, checkpoints, gate, queue, live, running, job>>

\* /api/training/stop
Stop ==
    /\ trainer.at = "sleep" /\ running
    /\ running' = FALSE
    /\ UNCHANGED <<made, memory, checkpoints, gate, queue, live, trainer, job>>

-----------------------------------------------------------------------------
To(p, at) == job' = [job EXCEPT ![p].at = at]

\* /api/promotions/{a}/approve, handed to a worker thread.
Ask(p, a) ==
    /\ trainer.at \in {"off", "sleep"} /\ job[p].at = "idle"
    /\ job' = [job EXCEPT ![p] = JobFor(a)]
    /\ UNCHANGED <<made, memory, checkpoints, gate, queue, live, trainer, running>>

\* approve_pending_promotion: the champion in memory, else its record, else 404.
Find(p) ==
    LET a == job[p].agent
    IN  /\ job[p].at = "asked"
        /\ \/ /\ a \in pending
              /\ job' = [job EXCEPT ![p].at = "copy", ![p].via = "memory"]
           \/ /\ a \notin pending /\ a \in records
              /\ job' = [job EXCEPT ![p].at = "copy", ![p].via = "record"]
           \/ /\ a \notin pending \union records
              /\ job' = [job EXCEPT ![p] = NoJob]
        /\ pending' = pending \ {a}
        /\ UNCHANGED <<made, memory, checkpoints, gate, records, live, trainer, running>>

CopyWaitsForTheFile(p) ==
    /\ job[p].at = "copy" /\ disk[job[p].agent] # Nothing
    /\ deployed' = disk[job[p].agent] /\ To(p, "load")
    /\ UNCHANGED <<made, memory, disk, gate, queue, live, trainer, running>>

\* shutil.copy2 of whatever the checkpoint path holds now.  With nothing there, or when
\* the copy raises, a champion in memory is dropped with an error; a record is kept.
Copy(p) ==
    LET src == disk[job[p].agent]
    IN  /\ job[p].at = "copy"
        /\ \/ src # Nothing /\ deployed' = src /\ To(p, "load")
           \/ /\ deployed' \in {deployed} \union (IF src = Nothing THEN {} ELSE {Torn})
              /\ \/ job[p].via = "memory" /\ To(p, "finish")
                 \/ job[p].via = "record" /\ job' = [job EXCEPT ![p] = NoJob]
        /\ UNCHANGED <<made, memory, disk, gate, queue, live, trainer, running>>

LoadFromTheCheckpoint(p) ==
    /\ job[p].at = "load"
    /\ IF Loadable(disk[job[p].agent], ServerAlgorithm)
       THEN job' = [job EXCEPT ![p].at = "assign", ![p].model = disk[job[p].agent]]
       ELSE To(p, "finish")
    /\ UNCHANGED <<made, memory, checkpoints, gate, queue, live, trainer, running>>

\* hot_swap_model: the candidate is loaded first; a failure keeps the current model,
\* and the False it returns is dropped.
Load(p) ==
    /\ job[p].at = "load"
    /\ IF Loadable(deployed, ServerAlgorithm)
       THEN job' = [job EXCEPT ![p].at = "assign", ![p].model = deployed]
       ELSE To(p, "finish")
    /\ UNCHANGED <<made, memory, checkpoints, gate, queue, live, trainer, running>>

\* hot_swap_model, under _model_lock
Assign(p) ==
    /\ job[p].at = "assign"
    /\ live' = job[p].model
    /\ To(p, "finish")
    /\ UNCHANGED <<made, memory, checkpoints, gate, queue, trainer, running>>

\* The record goes, and the request is answered.
Finish(p) ==
    /\ job[p].at = "finish"
    /\ records' = records \ {job[p].agent}
    /\ job' = [job EXCEPT ![p] = NoJob]
    /\ UNCHANGED <<made, memory, checkpoints, gate, pending, live, trainer, running>>

\* The process dies, perhaps in the middle of a copy.  Only the files are left.
Restart ==
    /\ live # Nothing
    /\ deployed' \in {deployed} \union
           (IF \E p \in Approvers : job[p].at = "copy" /\ disk[job[p].agent] # Nothing
            THEN {Torn} ELSE {})
    /\ memory' = [a \in Agents |-> Nothing] /\ pending' = {} /\ live' = Nothing
    /\ trainer' = [at |-> "none", todo |-> {}, agent |-> Nothing] /\ running' = FALSE
    /\ job' = [p \in Approvers |-> NoJob]
    /\ UNCHANGED <<made, disk, gate, records>>

TrainerStep ==
    \/ \E a \in Agents : Learn(a) \/ Save(a) \/ LearnFails(a)
    \/ \E child, parent \in Agents : Exploit(child, parent)
    \/ \E a \in Agents, passes \in BOOLEAN : Evaluate(a, passes)
    \/ WriteRecord \/ Wake

ApproverStep(p) == Find(p) \/ Copy(p) \/ Load(p) \/ Assign(p) \/ Finish(p)

PromotionNext ==
    \/ StartTrading \/ StartTraining \/ Stop \/ Restart
    \/ TrainerStep
    \/ \E p \in Approvers : ApproverStep(p) \/ \E a \in Agents : Ask(p, a)

PromotionSpec == PromotionInit /\ [][PromotionNext]_promotionVars

\* A thread that has an approval carries it through.
FairPromotionSpec == PromotionSpec /\ \A p \in Approvers : WF_promotionVars(ApproverStep(p))

-----------------------------------------------------------------------------
PromotionTypeOK ==
    /\ made \in [Agents -> 0..MaxVersions]
    /\ memory \in [Agents -> Weights \union {Nothing}]
    /\ disk \in [Agents -> Files]
    /\ gate \in [Agents -> SUBSET Weights]
    /\ pending \subseteq Agents /\ records \subseteq Agents
    /\ deployed \in Files
    /\ live \in Weights \union {Nothing, Baseline}
    /\ trainer \in [at : {"none", "off", "train", "save", "ranked", "queue", "sleep"},
                    todo : SUBSET Agents, agent : Agents \union {Nothing}]
    /\ running \in BOOLEAN
    /\ job \in [Approvers -> [at : {"idle", "asked", "copy", "load", "assign", "finish"},
                              agent : Agents \union {Nothing}, via : {"memory", "record"},
                              model : Weights \union {Nothing}]]
    /\ trainer.at # "none" => \A a \in Agents : memory[a] \in Weights
    /\ trainer.at \in {"save", "queue"} => trainer.agent \in Agents
    /\ \A p \in Approvers : job[p].at # "idle" => job[p].agent \in Agents
    /\ \A p \in Approvers : job[p].at = "assign" => job[p].model \in Weights

\* A swap is under way: the file is in place and the model not yet.
Swapping == \E p \in Approvers : job[p].at \in {"load", "assign"}

\* With one approval at a time, between swaps the model that trades is the deployed
\* file, or that file is one the server cannot load: across retraining under the
\* approval's feet, refused swaps and restarts (approve_pending_promotion,
\* hot_swap_model).
LiveIsDeployed ==
    live # Nothing /\ ~Swapping
      => live = deployed \/ ~Loadable(deployed, ServerAlgorithm)

\* Whatever algorithm wins the tournament, the model that trades is of the algorithm
\* the server was built with: hot_swap_model is never told another (line 463).
LiveKeepsItsAlgorithm == live \in Weights => Algorithm[live.by] = ServerAlgorithm

\* Nothing is queued, recorded or on its way to the deployed file for an agent that
\* never passed the evaluation, restarts and stale records included.
OnlyPassedAgentsArePromoted ==
    \A a \in Agents :
      a \in pending \union records \/ (\E p \in Approvers : job[p].at = "copy"
                                                         /\ job[p].agent = a)
        => gate[a] # {}

\* An approval that was taken up is answered.
ApprovalsAreAnswered == \A p \in Approvers : job[p].at # "idle" ~> job[p].at = "idle"

\* README.md:32-34, "before any checkpoint reaches deployment": whole weights that are
\* deployed have passed the evaluation.
GateHolds == deployed \in Weights => \E a \in Agents : deployed \in gate[a]
=============================================================================
