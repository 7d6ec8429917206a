--------------------------- MODULE SovereignChild ---------------------------
(***************************************************************************)
(* One child of the swarm, from its construction to the end of its loop:   *)
(* the model its trainer builds, the petition for a tier, and at every     *)
(* step the survival mode, the tag of a new high, the insight broadcast    *)
(* with it and the rollback of a drawdown.  The market is an input: the    *)
(* equity and the cash after each step.  The ledger of the child is        *)
(* ChildLedger, the trade a petition for weights starts is EscrowBridge;   *)
(* training, buffers and the observation's noise are left out.             *)
(***************************************************************************)
EXTENDS Integers, FiniteSets

CONSTANTS
    ModelNames,   \* the models asked for, one that is not registered among them
    ChildEquities, ChildCashes, \* what a step may leave, in dollars
    TagStep,      \* tag_step_dollar
    LoopSteps     \* max_steps

ASSUME ChildAssumption ==
    /\ ChildEquities \subseteq Nat /\ ChildCashes \subseteq Int
    /\ TagStep \in Nat \ {0} /\ LoopSteps \in Nat

StartEquity == 10    \* initial_cash, and GitFinancialRollback's first mark
RollbackAt  == 15    \* drawdown_rollback_threshold, in percent
NoTrainer   == "none"

\* _register_all_models(): the algorithm of a registered model.
Registered == [m \in {"PPO-Transformer", "PPO-DilatedCNN", "SAC-DilatedCNN", "DuelingDQN",
                      "Momentum-Baseline", "BuyAndHold-Baseline"} |->
                 CASE m \in {"PPO-Transformer", "PPO-DilatedCNN"} -> "PPO"
                   [] m = "SAC-DilatedCNN"    -> "SAC"
                   [] m = "DuelingDQN"        -> "DQN"
                   [] m = "Momentum-Baseline" -> "rule"
                   [] OTHER                   -> "static"]

\* build_model(): an unknown name gets DuelingDQN.
Built(m) == IF m \in DOMAIN Registered THEN Registered[m] ELSE "DQN"
Trainable(algo) == algo \in {"PPO", "SAC", "DQN"}

VARIABLES
    name,      \* model_name
    trainer,   \* rl_trainer: the algorithm it was built with, or NoTrainer
    phase,     \* "ready", "running", "ended" or "raised"
    steps,     \* steps of the loop
    tier,      \* current_tier
    account,   \* env.accounting: [equity, peak, breached], breached for max_drawdown
    survival,  \* survival_mode
    marks,     \* GitFinancialRollback: [hwm, lastTagged, version]
    rolled,    \* did_rollback of the last step
    adverts,   \* tags whose insight was broadcast
    kept,     \* the trainer's checkpoint is on the disk
    petitions  \* requests to buy the weights of a peer

childVars == <<name, trainer, phase, steps, tier, account, survival, marks, rolled, adverts,
               kept, petitions>>

\* __init__(): without stable-baselines3, or when the trainer cannot be built,
\* the child goes on with none.
ChildInit ==
    /\ name \in ModelNames
    /\ trainer \in {NoTrainer, Built(name)}
    /\ phase = "ready" /\ steps = 0 /\ tier = 2 /\ survival = "NORMAL"
    /\ account = [equity |-> StartEquity, peak |-> StartEquity, breached |-> FALSE]
    /\ marks = [hwm |-> StartEquity, lastTagged |-> StartEquity, version |-> 0]
    /\ rolled = FALSE /\ adverts = {} /\ kept = FALSE /\ petitions = 0

-----------------------------------------------------------------------------
\* petition_and_adapt() and env.reset(): the Warden grants a tier, throttles, or
\* answers without one; the accounting engine is new.
BeginLoop ==
    /\ phase = "ready" /\ phase' = "running"
    /\ tier' \in {1, 2, 3}
    /\ UNCHANGED <<name, trainer, steps, account, survival, marks, rolled, adverts, kept, petitions>>

\* think(): the trainer predicts, when the registry knows the name and the model
\* takes the call.  What it falls back on is a model nobody ever sets.
CanThink == trainer # NoTrainer /\ name \in DOMAIN Registered /\ Trainable(trainer)

ThinkRaises ==
    /\ phase = "running" /\ ~CanThink /\ phase' = "raised"
    /\ UNCHANGED <<name, trainer, steps, tier, account, survival, marks, rolled, adverts, kept, petitions>>

\* A drawdown of the threshold or more, from the peak.
Fallen(equity, peak) == 100 * (peak - equity) >= RollbackAt * peak

\* max_drawdown reaches the threshold: it is the largest of the episode.
Drawdown(equity, peak) == account.breached \/ Fallen(equity, peak)

\* record_step(): the first step's equity is the first peak.
Recorded(equity) ==
    LET peak == IF steps = 0 \/ equity > account.peak THEN equity ELSE account.peak
    IN  [equity |-> equity, peak |-> peak, breached |-> Drawdown(equity, peak)]

\* check_and_enforce_survival_mode().
Survival(equity, cash) ==
    CASE equity < 3 \/ cash < 0   -> "CRITICAL"
      [] equity < 5 \/ cash < 5   -> "LOW_COMPUTE"
      [] equity > 20 /\ cash > 20 -> "HIGH"
      [] OTHER                    -> "NORMAL"

\* A child that comes into need asks its best peer for weights, if it has one.
Petitions(mode) ==
    IF mode # survival /\ mode \in {"LOW_COMPUTE", "CRITICAL"}
    THEN petitions' \in {petitions, petitions + 1} ELSE UNCHANGED petitions

\* Variation: the gain is counted from the mark, which every new high moves.
TagsFromMark(equity) == equity - marks.hwm >= TagStep

\* check_and_checkpoint().
Tags(equity) == equity - marks.lastTagged >= TagStep

Marked(equity) ==
    [hwm        |-> IF equity > marks.hwm THEN equity ELSE marks.hwm,
     lastTagged |-> IF Tags(equity) THEN equity ELSE marks.lastTagged,
     version    |-> IF Tags(equity) THEN marks.version + 1 ELSE marks.version]

\* execute_rollback_if_breached(): no weights are given to it, so only the mark
\* goes back.
RollsBack(acc, m) == acc.breached /\ m.version > 0

\* One step of run_crucible_loop(); the tag is broadcast with a path of weights
\* when the lifetime ratio is high.
LoopStep(equity, cash, high, ends) ==
    /\ phase = "running" /\ CanThink /\ steps < LoopSteps
    /\ steps' = steps + 1
    /\ account' = Recorded(equity)
    /\ survival' = Survival(equity, cash)
    /\ Petitions(survival')
    /\ LET m == Marked(equity)
       IN  /\ adverts' = IF Tags(equity) /\ high THEN adverts \union {m.version} ELSE adverts
           /\ rolled' = RollsBack(account', m)
           /\ marks' = IF rolled' THEN [m EXCEPT !.hwm = m.lastTagged] ELSE m
    /\ phase' = IF ends \/ steps' = LoopSteps THEN "ended" ELSE phase
    /\ UNCHANGED <<name, trainer, tier, kept>>

\* run_crucible_loop_sb3(): the trainer owns the steps, and what is left when it
\* is done is tagged and broadcast.  Nothing here rolls back.
TrainLoop(equity, peak, high) ==
    /\ phase = "ready" /\ trainer # NoTrainer /\ peak >= equity
    /\ UNCHANGED <<name, trainer, steps, tier, survival, rolled, petitions>>
    /\ \/ /\ Trainable(trainer) /\ phase' = "ended" /\ kept' = TRUE
          /\ \E breached \in {Drawdown(equity, peak), TRUE} :
                account' = [equity |-> equity, peak |-> peak, breached |-> breached]
          /\ marks' = Marked(equity)
          /\ adverts' = IF Tags(equity) /\ high THEN {marks'.version} ELSE {}
       \/ /\ ~Trainable(trainer) /\ phase' = "raised"
          /\ UNCHANGED <<account, marks, adverts, kept>>

ChildNext ==
    \/ BeginLoop \/ ThinkRaises
    \/ \E equity \in ChildEquities, cash \in ChildCashes, high, ends \in BOOLEAN :
          LoopStep(equity, cash, high, ends)
    \/ \E equity, peak \in ChildEquities, high \in BOOLEAN : TrainLoop(equity, peak, high)

ChildSpec == ChildInit /\ [][ChildNext]_childVars

-----------------------------------------------------------------------------
\* Through gains of any size, losses and rollbacks of the loop, what a rollback goes
\* back to is worth less than a tag step below the peak that the drawdown is
\* measured from.
PeaksAreTagged == steps > 0 => account.peak < marks.lastTagged + TagStep
=============================================================================
