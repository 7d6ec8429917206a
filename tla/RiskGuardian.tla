---------------------------- MODULE RiskGuardian ----------------------------
(***************************************************************************)
(* The sticky-halt risk layer, execution/risk_guardian.py: the lifetime of *)
(* one RiskGuardian object.  Every method runs to completion on the event  *)
(* loop (none of them awaits), so each is one action; execute_safe_order,  *)
(* which awaits the exchange, is one action up to the await and one after. *)
(* Times are whole units, fractions are percentages and money is a number  *)
(* of quote units.  What a second thread or a crash does to this object is *)
(* module GuardianOperations.                                              *)
(***************************************************************************)
EXTENDS Integers, FiniteSets

CONSTANTS
    None,
    MaxOrders,          \* RiskLimits.max_orders_per_minute
    RateWindow,         \* the 60 seconds of the order-rate window
    DayLength,          \* the 86400 seconds of the daily-loss window
    ReminderInterval,   \* RiskLimits.halt_reminder_interval_sec
    MinHold,            \* RiskLimits.min_hold_ticks
    MaxFraction,        \* RiskLimits.max_position_fraction, percent
    LossPct,            \* RiskLimits.max_daily_loss_pct, percent
    DrawdownPct,        \* RiskLimits.max_drawdown_halt, percent
    StartingEquity,     \* the constructor's starting_equity, or None
    Fractions,          \* the target fractions a caller may propose, percent
    Equities,           \* the equities a caller may report
    Costs,              \* the order costs a caller may propose
    Drawdowns,          \* the maximum drawdowns a caller may report, percent
    EntryPoints,        \* the methods this deployment calls
    MaxInFlight,        \* concurrent execute_safe_order tasks
    DiskOutcomes,       \* {TRUE}, or {TRUE, FALSE} when a write may raise OSError
    MaxTime, MaxTick    \* bounds on the clock and on the decision counter

NeverFlipped == -1000000000
Reasons == {"kill_switch", "daily_loss", "drawdown"}

ASSUME LimitsAssumption ==
    /\ MaxOrders \in Nat \ {0} /\ RateWindow \in Nat \ {0}
    /\ DayLength \in Nat \ {0} /\ ReminderInterval \in Nat
    /\ MinHold \in Nat /\ MinHold <= -NeverFlipped
    /\ MaxFraction \in Nat /\ LossPct \in Nat /\ DrawdownPct \in Nat

ASSUME InputsAssumption ==
    /\ Fractions \subseteq Int /\ Equities \subseteq Int /\ Costs \subseteq Nat
    /\ Drawdowns \subseteq Nat
    /\ StartingEquity \in Nat \cup {None} /\ None \notin Int \cup Reasons
    /\ EntryPoints \subseteq {"check", "order", "equity"}
    /\ MaxInFlight \in Nat /\ MaxTime \in Nat /\ MaxTick \in Nat
    /\ DiskOutcomes \subseteq BOOLEAN /\ DiskOutcomes # {}

VARIABLES
    now,              \* time.time()
    tick,             \* the caller's decision counter
    halt,             \* _halted, state.is_halted, the two reasons, the two times
    dailyStart,       \* _daily_start_equity
    dailyStartTime,   \* _daily_start_time
    currentEquity,    \* state.current_equity
    peakEquity,       \* state.peak_equity
    orderTimestamps,  \* _order_timestamps, each entry named by the order's number
    lastFlipTick,     \* _last_flip_tick
    inFlight,         \* execute_safe_order tasks awaiting the exchange
    killSwitch,       \* the KILL_SWITCH file exists
    activeHalt,       \* the reason in ACTIVE_HALT.json, or None when there is no file
    alertLog,         \* the last line of halt_alerts.log.jsonl
    orders            \* every order recorded so far: its number, time and tick

baseline == <<dailyStart, dailyStartTime>>
tracked  == <<currentEquity, peakEquity>>
ledger   == <<orderTimestamps, lastFlipTick, inFlight, orders>>
files    == <<activeHalt, alertLog>>
vars == <<now, tick, halt, baseline, tracked, ledger, killSwitch, files>>

-----------------------------------------------------------------------------
Running == [halted |-> FALSE, isHalted |-> FALSE, reason |-> None, message |-> None,
            triggeredAt |-> None, lastAlertAt |-> None]

Tripped(reason) == [halted |-> TRUE, isHalted |-> TRUE, reason |-> reason,
                    message |-> reason, triggeredAt |-> now, lastAlertAt |-> now]

Seed == IF StartingEquity = None THEN 0 ELSE StartingEquity

Init ==
    /\ now = 0 /\ tick = 0
    /\ halt = Running
    /\ dailyStart = StartingEquity /\ dailyStartTime = 0
    /\ currentEquity = Seed /\ peakEquity = Seed
    /\ orderTimestamps = {} /\ lastFlipTick = NeverFlipped
    /\ inFlight = 0 /\ orders = {}
    /\ killSwitch = FALSE
    /\ activeHalt = None /\ alertLog = [event |-> "none", at |-> 0]

FireAlertKeepsMarker(event, marker) ==
    /\ alertLog' = [event |-> event, at |-> now]
    /\ activeHalt' = IF marker = None THEN activeHalt ELSE marker

\* One history line and the marker; either write may fail and is then only logged.
FireAlert(event, marker) ==
    /\ \E ok \in DiskOutcomes : alertLog' = IF ok THEN [event |-> event, at |-> now] ELSE alertLog
    /\ \E ok \in DiskOutcomes : activeHalt' = IF ok THEN marker ELSE activeHalt

TriggerHalt(reason) ==
    /\ halt' = Tripped(reason)
    /\ FireAlert("triggered", reason)

ReminderDueFromTrigger == now - halt.triggeredAt >= ReminderInterval

ReminderDue == halt.lastAlertAt # None => now - halt.lastAlertAt >= ReminderInterval

MaybeSendReminder ==
    IF ReminderDue
    THEN /\ halt' = [halt EXCEPT !.lastAlertAt = now]
         /\ FireAlert("reminder", halt.reason)
    ELSE UNCHANGED <<halt, files>>

DayOver == dailyStart = None \/ now - dailyStartTime >= DayLength

ResetDailyIfNeeded(equity) ==
    /\ dailyStart' = IF DayOver THEN equity ELSE dailyStart
    /\ dailyStartTime' = IF DayOver THEN now ELSE dailyStartTime

\* A baseline of zero disables the test, as `if self._daily_start_equity and ...` does.
LossBreached(start, equity) ==
    start # None /\ start > 0 /\ (start - equity) * 100 >= LossPct * start

PeakDrawdownBreached(peak, equity) ==
    peak > 0 /\ (peak - equity) * 100 >= DrawdownPct * peak

RecentOrders == {o \in orderTimestamps : now - o.at < RateWindow}

RateLimitedLate == Cardinality(RecentOrders) > MaxOrders

RateLimited == Cardinality(RecentOrders) >= MaxOrders

NewOrder(t) == [no |-> Cardinality(orders), at |-> now, tick |-> t]

-----------------------------------------------------------------------------
Abs(x) == IF x < 0 THEN -x ELSE x

PlainRejectHoldsLess(target, stale) ==
    stale \/ Abs(target) > MaxFraction \/ tick' - lastFlipTick < MinHold - 1

\* The early returns of check() that leave every field alone.
PlainReject(target, stale) ==
    \/ stale
    \/ Abs(target) > MaxFraction
    \/ tick' - lastFlipTick < MinHold

\* check() from the order-rate test on: prune, rebase, the two halts, approval.
\* An approved order is recorded and submitted unless the caller's composer suppresses it.
CheckLimits(equity, drawdown, submits) ==
    LET breach == CASE LossBreached(dailyStart', equity) -> "daily_loss"
                    [] OTHER -> IF drawdown >= DrawdownPct THEN "drawdown" ELSE None
    IN  \/ /\ RateLimited
           /\ orderTimestamps' = RecentOrders
           /\ UNCHANGED <<halt, baseline, lastFlipTick, orders, files>>
        \/ /\ ~RateLimited
           /\ ResetDailyIfNeeded(equity)
           /\ breach # None
           /\ TriggerHalt(breach)
           /\ orderTimestamps' = RecentOrders
           /\ UNCHANGED <<lastFlipTick, orders>>
        \/ /\ ~RateLimited
           /\ ResetDailyIfNeeded(equity)
           /\ breach = None
           /\ IF submits
              THEN /\ orderTimestamps' = RecentOrders \cup {NewOrder(tick')}
                   /\ lastFlipTick' = tick'
                   /\ orders' = orders \cup {NewOrder(tick')}
              ELSE /\ orderTimestamps' = RecentOrders
                   /\ UNCHANGED <<lastFlipTick, orders>>
           /\ UNCHANGED <<halt, files>>

\* One decision of the trading loop: check(), then record_order_submitted().
Check(target, equity, drawdown, stale, submits) ==
    /\ "check" \in EntryPoints
    /\ tick < MaxTick /\ tick' = tick + 1
    /\ \/ /\ halt.halted
          /\ MaybeSendReminder
          /\ UNCHANGED <<baseline, orderTimestamps, lastFlipTick, orders>>
       \/ /\ ~halt.halted /\ killSwitch
          /\ TriggerHalt("kill_switch")
          /\ UNCHANGED <<baseline, orderTimestamps, lastFlipTick, orders>>
       \/ /\ ~halt.halted /\ ~killSwitch
          /\ PlainReject(target, stale)
          /\ UNCHANGED <<halt, baseline, orderTimestamps, lastFlipTick, orders, files>>
       \/ /\ ~halt.halted /\ ~killSwitch
          /\ ~PlainReject(target, stale)
          /\ CheckLimits(equity, drawdown, submits)
    /\ UNCHANGED <<now, tracked, inFlight, killSwitch>>

\* update_equity() may trip twice in one call; the drawdown's reason is the last written.
UpdateEquity(equity) ==
    /\ "equity" \in EntryPoints
    /\ currentEquity' = equity
    /\ peakEquity' = IF equity > peakEquity THEN equity ELSE peakEquity
    /\ ResetDailyIfNeeded(equity)
    /\ LET loss == LossBreached(dailyStart', equity)
           drop == PeakDrawdownBreached(peakEquity', equity)
       IN  IF loss \/ drop THEN TriggerHalt(IF drop THEN "drawdown" ELSE "daily_loss")
                           ELSE UNCHANGED <<halt, files>>
    /\ UNCHANGED <<now, tick, ledger, killSwitch>>

\* execute_safe_order() up to its await: check_order_allowed() on an order of this cost.
SafeOrderCheck(cost) ==
    /\ "order" \in EntryPoints
    /\ \/ /\ halt.halted \/ halt.isHalted
          /\ MaybeSendReminder
          /\ UNCHANGED <<orderTimestamps, inFlight>>
       \/ /\ ~halt.halted /\ ~halt.isHalted /\ killSwitch
          /\ TriggerHalt("kill_switch")
          /\ UNCHANGED <<orderTimestamps, inFlight>>
       \/ /\ ~halt.halted /\ ~halt.isHalted /\ ~killSwitch
          /\ IF cost * 100 > currentEquity * MaxFraction
             THEN UNCHANGED <<orderTimestamps, inFlight>>
             ELSE /\ orderTimestamps' = RecentOrders
                  /\ \/ RateLimited /\ UNCHANGED inFlight
                     \/ ~RateLimited /\ inFlight < MaxInFlight /\ inFlight' = inFlight + 1
          /\ UNCHANGED <<halt, files>>
    /\ UNCHANGED <<now, tick, baseline, tracked, lastFlipTick, orders, killSwitch>>

\* The exchange answers: record_order_executed().
SafeOrderDone ==
    /\ inFlight > 0 /\ inFlight' = inFlight - 1
    /\ Cardinality(orders) < MaxTick
    /\ orderTimestamps' = orderTimestamps \cup {NewOrder(None)}
    /\ orders' = orders \cup {NewOrder(None)}
    /\ UNCHANGED <<now, tick, halt, baseline, tracked, lastFlipTick, killSwitch, files>>

\* The exchange raises (banned or any other error): nothing is recorded.
SafeOrderFails ==
    /\ inFlight > 0 /\ inFlight' = inFlight - 1
    /\ UNCHANGED <<now, tick, halt, baseline, tracked, orderTimestamps, lastFlipTick,
                   orders, killSwitch, files>>

ResetHaltClearsWindow ==
    /\ halt.isHalted
    /\ halt' = Running /\ orderTimestamps' = {}
    /\ FireAlert("resolved", None)
    /\ UNCHANGED <<now, tick, baseline, tracked, lastFlipTick, inFlight, orders, killSwitch>>

\* reset_halt(), guarded by the control panel's "not currently halted" refusal.
ResetHalt ==
    /\ halt.isHalted
    /\ halt' = Running
    /\ FireAlert("resolved", None)
    /\ UNCHANGED <<now, tick, baseline, tracked, ledger, killSwitch>>

\* get_risk_summary() also prunes the window.
GetRiskSummary ==
    /\ orderTimestamps' = RecentOrders
    /\ UNCHANGED <<now, tick, halt, baseline, tracked, lastFlipTick, inFlight, orders,
                   killSwitch, files>>

ToggleKillSwitch ==
    /\ killSwitch' = ~killSwitch
    /\ UNCHANGED <<now, tick, halt, baseline, tracked, ledger, files>>

Tick ==
    /\ now < MaxTime /\ now' = now + 1
    /\ UNCHANGED <<tick, halt, baseline, tracked, ledger, killSwitch, files>>

Next ==
    \/ \E target \in Fractions, equity \in Equities, drawdown \in Drawdowns,
          stale, submits \in BOOLEAN : Check(target, equity, drawdown, stale, submits)
    \/ \E equity \in Equities : UpdateEquity(equity)
    \/ \E cost \in Costs : SafeOrderCheck(cost)
    \/ SafeOrderDone
    \/ SafeOrderFails
    \/ ResetHalt
    \/ GetRiskSummary
    \/ ToggleKillSwitch
    \/ Tick

Spec == Init /\ [][Next]_vars
-----------------------------------------------------------------------------
HaltRecord == [halted : BOOLEAN, isHalted : BOOLEAN, reason : Reasons \cup {None},
               message : Reasons \cup {None}, triggeredAt : Nat \cup {None},
               lastAlertAt : Nat \cup {None}]
OrderRecord == [no : Nat, at : Nat, tick : Nat \cup {None}]

TypeOK ==
    /\ now \in Nat /\ tick \in Nat
    /\ halt \in HaltRecord
    /\ dailyStart \in Int \cup {None} /\ dailyStartTime \in Nat
    /\ currentEquity \in Int /\ peakEquity \in Int
    /\ orderTimestamps \subseteq OrderRecord /\ orders \subseteq OrderRecord
    /\ lastFlipTick \in Nat \cup {NeverFlipped}
    /\ inFlight \in 0..MaxInFlight
    /\ killSwitch \in BOOLEAN
    /\ activeHalt \in Reasons \cup {None}
    /\ alertLog \in [event : {"none", "triggered", "reminder", "resolved"}, at : Nat]

\* The two halted flags and the two reasons never drift apart, whichever entry
\* point halts and however the disk behaves: check() tests one flag,
\* check_order_allowed() both, the control panel the other (risk_guardian.py:143-153).
FlagsAgree ==
    /\ halt.halted = halt.isHalted
    /\ halt.halted <=> halt.reason # None
    /\ halt.halted <=> halt.triggeredAt # None
    /\ halt.halted => halt.triggeredAt <= halt.lastAlertAt

\* While every write succeeds, ACTIVE_HALT.json "exists iff currently halted",
\* names the current reason, and the alert history ends on an open alert exactly
\* while the guardian is halted (risk_guardian.py:48, _fire_alert).
MarkerTellsTheTruth ==
    /\ activeHalt = halt.reason
    /\ halt.halted <=> alertLog.event \in {"triggered", "reminder"}

\* However the pruning of _order_timestamps by check(), check_order_allowed() and
\* get_risk_summary() interleaves with the clock, no window of RateWindow units holds
\* more than MaxOrders recorded orders, but for those execute_safe_order() was awaiting
\* when another was let through: it records an order only after the exchange answered
\* (risk_guardian.py:406), so each may add one beyond the limit, and exactly one.
OrdersIn(window) == {o \in orders : now - o.at < window}
Unseen == IF "check" \in EntryPoints \/ MaxInFlight = 0 THEN MaxInFlight ELSE MaxInFlight - 1
RateLimit == Cardinality(OrdersIn(RateWindow)) <= MaxOrders + Unseen

\* Two orders of the trading loop are at least min_hold_ticks decisions apart,
\* through any halts, resets and suppressed orders between them (_last_flip_tick).
HoldRespected ==
    \A a, b \in orders :
        (a.no < b.no /\ a.tick # None /\ b.tick # None) => b.tick - a.tick >= MinHold

\* While halted, a new alert comes no sooner than halt_reminder_interval_sec after
\* the one before ("re-alert at most this often while halted", risk_guardian.py:50).
AlertsSpaced ==
    [][halt.halted /\ halt'.halted /\ alertLog' # alertLog
         => now - alertLog.at >= ReminderInterval]_vars

\* The guardian implements the abstract gate: a latch that only an operator opens
\* and a sliding budget of orders, of which none is recorded while latched.
Gate == INSTANCE RiskGate WITH latched <- halt.halted, admitted <- orders
ImplementsGate == Gate!Spec
=============================================================================
