-------------------------- MODULE OrderComposition --------------------------
(***************************************************************************)
(* From a decision of the policy to the position it leads to, when the     *)
(* composition layer is on: _maybe_act() of the inference server asks the  *)
(* guardian, LiveOrderComposer.compose_order() gathers the risk budget, a  *)
(* cached toxicity reading and the performance streak, SignalComposer      *)
(* sizes the order by the predictor's opinion and asks the guardian about  *)
(* its cost, and the result is submitted or dropped.                       *)
(*                                                                         *)
(* A proposal is a number of parts of the equity, WholeEquity parts being  *)
(* all of it; multipliers and throttles are parts of Unit, so that a       *)
(* composed size is exact in parts of Unit^4.  The ramps between a         *)
(* throttle's two ends are left out.  An order fills in full (TradeDesk    *)
(* has the others), and the guardian is reduced to what it knows of the    *)
(* equity.                                                                 *)
(***************************************************************************)
EXTENDS Integers, FiniteSetsExt

CONSTANTS
    Modes,        \* of "paper" and "live"
    Callers,      \* of "server" and "library": who drives the composer
    WholeEquity,  \* parts of the equity
    SizeLimit,    \* max_position_fraction, in parts
    Proposals,    \* actions of the policy, in parts; at 0 it is in the deadzone
    Equities,     \* amounts of equity
    Seed,         \* PaperExchange.initial_cash
    LossLimit,    \* max_daily_loss_pct, as an amount
    Ttl,          \* toxicity_cache_ttl_seconds
    LossStreak    \* losses in a row that throttle: loss_streak_caution_start

Unit == 2
Base == [agree |-> 2, greedy |-> 3, unconfirmed |-> 1, disagree |-> 0]
ThrottleFloor == 1
MaxSize == 3

ASSUME CompositionAssumption ==
    /\ Modes \subseteq {"paper", "live"} /\ Callers \subseteq {"server", "library"}
    /\ WholeEquity \in Nat \ {0} /\ SizeLimit \in 0 .. WholeEquity
    /\ Proposals \subseteq -WholeEquity .. WholeEquity
    /\ Equities \subseteq Nat \ {0} /\ Seed \in Equities /\ LossLimit \in Nat \ {0}
    /\ Ttl \in Nat \ {0} /\ LossStreak \in Nat \ {0}

NoReading == "None"
Readings  == {"calm", "toxic", NoReading}
\* No opinion (no model, no window, a predictor that raises) is a low confidence.
Opinions  == [side : {-1, 0, 1}, confidence : {"low", "trusted", "full"}]

VARIABLES
    mode, caller,
    account,   \* [equity, position]: the position in parts of Unit^4
    guardian,  \* [known, dayStart, dayOver, halted]; known is state.current_equity
    streak,    \* losses in a row, up to LossStreak
    disk,      \* what a toxicity reload would answer
    cache,     \* [reading, age]: _cached_toxicity and the time since it was cached
    readAge,   \* history: time since the cached reading was on the disk
    decision   \* history: the last decision's [bucket, nothing, over, age]

compositionVars == <<mode, caller, account, guardian, streak, disk, cache, readAge, decision>>

\* __init__(): a live guardian is not told the equity, which is not fetched yet.
CompositionInit ==
    /\ mode \in Modes /\ caller \in Callers
    /\ account = [equity |-> Seed, position |-> 0]
    /\ guardian = IF mode = "paper"
                  THEN [known |-> Seed, dayStart |-> Seed, dayOver |-> FALSE, halted |-> FALSE]
                  ELSE [known |-> 0, dayStart |-> 0, dayOver |-> FALSE, halted |-> FALSE]
    /\ streak = 0 /\ disk = NoReading /\ cache = [reading |-> NoReading, age |-> 0] /\ readAge = 0
    /\ decision = [bucket |-> "flat_rl", nothing |-> TRUE, over |-> FALSE, age |-> 0]

-----------------------------------------------------------------------------
\* _reset_daily_if_needed(): the first equity, or the first after a day.
DayStart == IF guardian.dayStart = 0 \/ guardian.dayOver THEN account.equity ELSE guardian.dayStart

\* risk_budget_used_fraction(): from the day's start and state.current_equity.
BudgetUsed == DayStart - guardian.known >= LossLimit

\* Variation: a hit makes the cached reading new again.
CachedSliding == IF cache.reading # NoReading /\ cache.age < Ttl
                 THEN [reading |-> cache.reading, age |-> 0]
                 ELSE [reading |-> disk, age |-> 0]

\* _current_toxicity_reading(): the cached reading within its time, the disk
\* otherwise; a reload that fails or finds nothing is cached as None.
Cached == IF cache.reading # NoReading /\ cache.age < Ttl THEN cache ELSE [reading |-> disk, age |-> 0]

Hit == cache.reading # NoReading /\ cache.age < Ttl

-----------------------------------------------------------------------------
Sign(p) == IF p > 0 THEN 1 ELSE IF p < 0 THEN -1 ELSE 0
Size(p) == IF p < 0 THEN -p ELSE p

\* compose(): where the predictor's opinion puts the proposal.
Bucket(p, o) ==
    IF p = 0 THEN "flat_rl"
    ELSE IF o.confidence = "low" \/ o.side = 0 THEN "unconfirmed"
    ELSE IF o.side = Sign(p) THEN "agree" ELSE "disagree"

BaseOf(p, o) == IF Bucket(p, o) = "agree" /\ o.confidence = "full" THEN Base.greedy ELSE Base[Bucket(p, o)]

Throttle(on) == IF on THEN ThrottleFloor ELSE Unit

\* The composed size, in parts of Unit^4, under the hard cap.
Scaled(p, o) ==
    IF Bucket(p, o) = "flat_rl" THEN 0
    ELSE Min({BaseOf(p, o) * Throttle(BudgetUsed) * Throttle(Cached.reading = "toxic")
                           * Throttle(streak = LossStreak),
              MaxSize * Unit * Unit * Unit})

Cost(p, o) == Size(p) * Scaled(p, o) * account.equity

\* check_order_allowed(): the order's cost against what the guardian knows.
\* Its halt, kill-switch and rate tests were passed a moment ago in check().
CostVetoed(p, o) == Cost(p, o) > guardian.known * SizeLimit * Unit * Unit * Unit * Unit

OverLimit(p, o) == Cost(p, o) > account.equity * SizeLimit * Unit * Unit * Unit * Unit

Suppressed(p, o) == Bucket(p, o) # "flat_rl" /\ (Scaled(p, o) = 0 \/ CostVetoed(p, o))

\* The position after _maybe_act(): a suppressed order is not submitted at all.
Target(p, o) == IF Suppressed(p, o) THEN account.position
                ELSE Sign(p) * Min({Size(p) * Scaled(p, o), WholeEquity * Unit * Unit * Unit * Unit})

LosesTheDay == DayStart - account.equity >= LossLimit

\* _maybe_act() with a composer, for an action the guardian's check() approves.
Compose(p, o) ==
    /\ ~guardian.halted /\ Size(p) <= SizeLimit /\ ~LosesTheDay
    /\ guardian' = [guardian EXCEPT !.dayStart = DayStart, !.dayOver = FALSE]
    /\ account' = [account EXCEPT !.position = Target(p, o)]
    /\ cache' = Cached /\ readAge' = IF Hit THEN readAge ELSE 0
    /\ decision' = [bucket |-> IF Bucket(p, o) # "flat_rl" /\ Scaled(p, o) > 0 /\ CostVetoed(p, o)
                           THEN "risk_vetoed" ELSE Bucket(p, o),
                nothing |-> Bucket(p, o) # "flat_rl" /\ Suppressed(p, o),
                over |-> OverLimit(p, o),
                age |-> IF Hit THEN readAge ELSE 0]
    /\ UNCHANGED <<mode, caller, streak, disk>>

\* check() finds the daily loss reached and halts.
HaltOnLoss ==
    /\ ~guardian.halted /\ LosesTheDay
    /\ guardian' = [guardian EXCEPT !.dayStart = DayStart, !.dayOver = FALSE, !.halted = TRUE]
    /\ UNCHANGED <<mode, caller, account, streak, disk, cache, readAge, decision>>

\* The market moves the equity of an open position.
Move(e) ==
    /\ account.position # 0 /\ e # account.equity
    /\ account' = [account EXCEPT !.equity = e]
    /\ UNCHANGED <<mode, caller, guardian, streak, disk, cache, readAge, decision>>

\* record_fill() and update_equity(), which the docstrings ask of the caller.
\* The server calls neither.
RecordFill(pnl) ==
    /\ caller = "library"
    /\ streak' = IF pnl < 0 THEN Min({streak + 1, LossStreak}) ELSE 0
    /\ guardian' = [guardian EXCEPT !.known = account.equity]
    /\ UNCHANGED <<mode, caller, account, disk, cache, readAge, decision>>

\* reset_for_new_session(): after a halt was reviewed, or for a new day.
ResetForNewSession ==
    /\ caller = "library" /\ streak' = 0
    /\ UNCHANGED <<mode, caller, account, guardian, disk, cache, readAge, decision>>

\* Time: the cached reading ages, and a day may end.
Pass ==
    /\ cache' = [cache EXCEPT !.age = Min({@ + 1, Ttl})]
    /\ readAge' = Min({readAge + 1, Ttl})
    /\ \E d \in BOOLEAN : guardian' = [guardian EXCEPT !.dayOver = @ \/ d]
    /\ UNCHANGED <<mode, caller, account, streak, disk, decision>>

\* What an injected builder answers; the server uses TrainingTableBuilder, which
\* has no latest_toxicity_reading(), and each of its reloads fails.
Forge(r) ==
    /\ caller = "library" /\ r # disk /\ disk' = r
    /\ UNCHANGED <<mode, caller, account, guardian, streak, cache, readAge, decision>>

CompositionNext ==
    \/ \E p \in Proposals, o \in Opinions : Compose(p, o)
    \/ HaltOnLoss
    \/ \E e \in Equities : Move(e)
    \/ \E pnl \in {-1, 1} : RecordFill(pnl)
    \/ ResetForNewSession
    \/ Pass
    \/ \E r \in Readings : Forge(r)

CompositionSpec == CompositionInit /\ [][CompositionNext]_compositionVars

-----------------------------------------------------------------------------
\* An order is never sized by a toxicity reading the disk gave Ttl or longer ago.
ToxicityWithinTtl == decision.age < Ttl

\* Only an order that costs more than the account's limit is vetoed for its
\* cost: the comments on risk_check_fn and on the guardian's baseline say it is
\* judged by the account's true equity.
VetoJudgesTheAccount == decision.bucket = "risk_vetoed" => decision.over
=============================================================================
