--------------------------- MODULE PromotionGates ---------------------------
(***************************************************************************)
(* The two gates a start of the inference server goes through: the record  *)
(* a promotion left beside the deployed checkpoint, and the weeks on the   *)
(* testnet before a live start.  Three programs write the checkpoint: the  *)
(* training script, which records its verdict; the confirmation script,    *)
(* whose record names no target; the continuous trainer, which records     *)
(* nothing and swaps the model of the running server, past the gate.  A    *)
(* script copies first and records after, and may die between or within.   *)
(*                                                                         *)
(* The verdict is an input.  Of a checkpoint only its algorithm and its    *)
(* verdict are kept; of a log line, what the gate reads of it: a verdict   *)
(* and a path, which is a spelling of the one file.  The operator runs one *)
(* script at a time.                                                       *)
(***************************************************************************)
EXTENDS Integers, SequencesExt

CONSTANTS
    Algos,      \* algorithms of checkpoints
    Configured, \* DEPLOY_CONFIG.model_name's algorithm
    Spellings,  \* how the operator's --state-dir makes the training script name the file
    MinWeeks,   \* min_weeks_testnet_before_live
    MaxWeeks,   \* bound on the clock
    MaxCopies,  \* bound on the checkpoints that are written
    Nothing     \* no file, no script, no server

ASSUME GatesAssumption ==
    /\ Spellings \subseteq {"relative", "backslashed", "absolute"}
    /\ Configured \in Algos /\ MinWeeks \in Nat \ {0} /\ MaxWeeks \in Nat /\ MaxCopies \in Nat
    /\ Nothing \notin Int

Torn == -1

VARIABLES
    week,         \* the calendar
    deployed,     \* the checkpoint file: [algo, passed, recorded], or Nothing; recorded is
                  \* the path under which its own record is in the log, or "none"
    promotions,   \* promotion_log.jsonl: [verdict, target]
    torn,         \* its last line has no end
    script,       \* what a running script has still to record, or Nothing
    swap,         \* "none", or the trainer has "copied" and has still to swap, or its copy
                  \* was "overwritten" since
    testnetSince, \* testnet_first_session.json: Nothing, Torn or a week
    trader,       \* [mode, model, via, acknowledged, skipped], or Nothing
    firstTestnet, \* history: when a testnet server first asked the gate, or Nothing
    copies        \* number of checkpoints written

gateVars == <<week, deployed, promotions, torn, script, swap, testnetSince, trader,
              firstTestnet, copies>>

GatesInit ==
    /\ week = 0 /\ deployed = Nothing /\ promotions = <<>> /\ torn = FALSE
    /\ script = Nothing /\ swap = "none" /\ testnetSince = Nothing /\ trader = Nothing
    /\ firstTestnet = Nothing /\ copies = 0

File(algo, passed, recorded) == [algo |-> algo, passed |-> passed, recorded |-> recorded]

----------------------------------------------------------------------------
\* A script that overwrites what the trainer has copied for its swap.
Overwritten == swap' = IF swap = "none" THEN "none" ELSE "overwritten"

\* main() of the training script: a failed verdict is promoted with --force,
\* and an airgap that was skipped counts as failed.
TrainAndPromote(algo, passed, path) ==
    /\ script = Nothing /\ copies < MaxCopies
    /\ deployed' = File(algo, passed, "none")
    /\ script' = [verdict |-> IF passed THEN "passed" ELSE "failed", target |-> path]
    /\ copies' = copies + 1 /\ Overwritten
    /\ UNCHANGED <<week, promotions, torn, testnetSince, trader, firstTestnet>>

\* main() of the confirmation script, for a .zip: no way past a failed verdict, and
\* a record without a target.
ConfirmAndPromote(algo) ==
    /\ script = Nothing /\ copies < MaxCopies
    /\ deployed' = File(algo, TRUE, "none")
    /\ script' = [verdict |-> "passed", target |-> "none"]
    /\ copies' = copies + 1 /\ Overwritten
    /\ UNCHANGED <<week, promotions, torn, testnetSince, trader, firstTestnet>>

\* The append of one record.  It goes on the end of a torn line, and then is
\* part of a line that is not JSON.
Record ==
    /\ script # Nothing /\ script' = Nothing
    /\ torn' = FALSE
    /\ promotions' = IF torn THEN promotions ELSE Append(promotions, script)
    /\ deployed' = IF torn THEN deployed ELSE [deployed EXCEPT !.recorded = script.target]
    /\ UNCHANGED <<week, swap, testnetSince, trader, firstTestnet, copies>>

\* The script dies: before its append, within it, or within its copy.
ScriptDies ==
    /\ script # Nothing /\ script' = Nothing
    /\ \/ UNCHANGED <<deployed, torn>>
       \/ torn' = TRUE /\ UNCHANGED deployed
       \/ deployed' = [deployed EXCEPT !.algo = Nothing] /\ UNCHANGED torn
    /\ UNCHANGED <<week, promotions, swap, testnetSince, trader, firstTestnet, copies>>

\* _promote_champion() copies, for a champion that its own evaluation passed,
\* and then asks the running server to swap.
TrainerCopies(algo) ==
    /\ copies < MaxCopies /\ swap = "none" /\ script = Nothing
    /\ deployed' = File(algo, TRUE, "none")
    /\ swap' = "copied" /\ copies' = copies + 1
    /\ UNCHANGED <<week, promotions, torn, script, testnetSince, trader, firstTestnet>>

----------------------------------------------------------------------------
\* The server's weights_path, DEPLOY_CONFIG.frozen_model_path.
FrozenModelPath == "relative"

\* _norm(): separators and dots are evened out; an absolute path stays one.
Norm(path) == IF path = "backslashed" THEN "relative" ELSE path

\* The records whose target is the server's path, whole lines only.
Matching == {i \in DOMAIN promotions : Norm(promotions[i].target) = Norm(FrozenModelPath)}

\* Variation: the first record that names the checkpoint decides.
FirstMatching == IF Matching = {} THEN "none" ELSE promotions[Min(Matching)].verdict

\* Of the records that name the checkpoint, the last.
LastMatching == IF Matching = {} THEN "none" ELSE promotions[Max(Matching)].verdict

\* _check_promotion_gate(), where an acknowledgement is an environment variable.
\* The log cannot always be read, and then nothing is refused.
GateOpens(acknowledged, readable) == readable /\ LastMatching = "failed" => acknowledged

\* load_frozen_model(): a file of another algorithm, or one that is cut short,
\* makes the server trade the baseline.
Loaded == IF deployed # Nothing /\ deployed.algo = Configured THEN deployed ELSE Nothing

\* _enforce_testnet_gate() of a live start.  A torn file raises.
WeeksEnough ==
    testnetSince \notin {Nothing, Torn} /\ week - testnetSince >= MinWeeks

\* Variation: a paper start leaves the date too.
DatedByAnyStart(mode) ==
    IF mode # "live" /\ testnetSince = Nothing THEN testnetSince' \in {week, Torn}
    ELSE UNCHANGED testnetSince

\* The same of a testnet start: the first one leaves its date, or half of it.
Dated(mode) ==
    IF mode = "testnet" /\ testnetSince = Nothing THEN testnetSince' \in {week, Torn}
    ELSE UNCHANGED testnetSince

\* __init__() of the server.  The model is loaded before the testnet gate, and
\* what follows the gate may still fail, the date left behind.
StartServer(mode, acknowledged, readable, skipped) ==
    /\ trader = Nothing
    /\ GateOpens(acknowledged, readable)
    /\ mode = "live" => skipped \/ WeeksEnough
    /\ Dated(mode)
    /\ firstTestnet' = IF mode = "testnet" /\ firstTestnet = Nothing THEN week ELSE firstTestnet
    /\ \/ /\ testnetSince' # Torn \/ testnetSince = Torn
          /\ trader' = [mode |-> mode, model |-> Loaded, via |-> "start",
                        acknowledged |-> acknowledged \/ ~readable,
                        skipped |-> skipped /\ mode = "live"]
       \/ mode = "testnet" /\ UNCHANGED trader
    /\ UNCHANGED <<week, deployed, promotions, torn, script, swap, copies>>

\* hot_swap_model() with the path _promote_champion() gives it, which has no
\* ".zip" and so is the target of no record.  The baseline is not accepted.
SwapModel ==
    /\ swap # "none" /\ swap' = "none"
    /\ trader' = IF trader # Nothing /\ Loaded # Nothing
                 THEN [trader EXCEPT !.model = Loaded, !.via = swap] ELSE trader
    /\ UNCHANGED <<week, deployed, promotions, torn, script, testnetSince, firstTestnet, copies>>

\* The process ends, with the trainer in it.
StopServer ==
    /\ trader # Nothing /\ trader' = Nothing /\ swap' = "none"
    /\ UNCHANGED <<week, deployed, promotions, torn, script, testnetSince, firstTestnet, copies>>

WeekPasses ==
    /\ week < MaxWeeks /\ week' = week + 1
    /\ UNCHANGED <<deployed, promotions, torn, script, swap, testnetSince, trader,
                   firstTestnet, copies>>

GatesNext ==
    \/ \E algo \in Algos :
          (\E passed \in BOOLEAN, path \in Spellings : TrainAndPromote(algo, passed, path))
             \/ ConfirmAndPromote(algo) \/ TrainerCopies(algo)
    \/ Record \/ ScriptDies \/ SwapModel \/ StopServer \/ WeekPasses
    \/ \E mode \in {"paper", "testnet", "live"}, acknowledged, readable, skipped \in BOOLEAN :
          StartServer(mode, acknowledged, readable, skipped)

GatesSpec == GatesInit /\ [][GatesNext]_gateVars

----------------------------------------------------------------------------
\* A server trades a checkpoint that failed its validation only when the operator
\* acknowledged it, when the log could not be read, when a script overwrote what the
\* trainer had copied before its swap, or when the failure is not in the log under
\* the server's own path: the script died or was not done, its record joined a torn
\* line, or it names the file in another way.
FailedNeverTrades ==
    trader # Nothing =>
       \/ trader.via = "overwritten" \/ trader.model = Nothing \/ trader.acknowledged
       \/ trader.model.passed \/ Norm(trader.model.recorded) # Norm(FrozenModelPath)

\* "Refuses to load a checkpoint whose own most recent promotion record says it
\* failed the gate, unless the operator explicitly acknowledges it"
\* (live_inference_server.py:74-76), however the record names the checkpoint.
FailedIsAcknowledged ==
    trader # Nothing =>
       \/ trader.via = "overwritten" \/ trader.model = Nothing \/ trader.acknowledged
       \/ trader.model.passed \/ trader.model.recorded = "none"

\* A live server the operator skipped no gate for runs at least MinWeeks after
\* the first start on the testnet, whatever failed, was torn or was restarted.
LiveAfterTestnet ==
    trader # Nothing =>
       (trader.mode = "live" /\ ~trader.skipped =>
          firstTestnet # Nothing /\ week - firstTestnet >= MinWeeks)
=============================================================================
