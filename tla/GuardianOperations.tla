-------------------------- MODULE GuardianOperations --------------------------
(***************************************************************************)
(* RiskGuardian as it is deployed: check() runs on the event loop, while   *)
(* the control panel's /api/risk/halt/reset is a plain def that FastAPI    *)
(* runs on a pool of worker threads, any number of them at a time and with *)
(* no lock, and a supervisor restarts a crashed process.                   *)
(* The statements that touch the halt fields or the two alert files are    *)
(* steps of their own; everything else of check() shares nothing with the  *)
(* other threads and stays with the step that reads _halted.               *)
(***************************************************************************)
EXTENDS RiskGuardian, Sequences

CONSTANTS
    Workers,                  \* the worker threads requests are handled on
    MaxResets, MaxRestarts    \* bounds on operator resets and on crashes

ASSUME OperationsAssumption == MaxResets \in Nat /\ MaxRestarts \in Nat

VARIABLES
    loop,      \* the event loop inside check(): what it does, its next statement
    panel,     \* each worker thread's next statement of reset_halt(), 0 outside
    resets, restarts,
    owed,      \* history: a halt was raised, with no reset accepted and no restart since
    overlapped \* history: this process accepted a reset while another was running

opsVars == <<vars, loop, panel, resets, restarts, owed, overlapped>>

\* The fields in the order _trigger_halt and reset_halt assign them.
Fields == <<"halted", "isHalted", "reason", "message", "triggeredAt", "lastAlertAt">>

OutsideCheck == [op |-> "none", step |-> 0, reason |-> None]

OpsInit ==
    /\ Init
    /\ loop = OutsideCheck /\ panel = [w \in Workers |-> 0]
    /\ resets = 0 /\ restarts = 0 /\ owed = FALSE /\ overlapped = FALSE

AppendLog(event) == alertLog' = [event |-> event, at |-> now]

\* check() while halted: enter _maybe_send_reminder.
LoopHalted ==
    /\ halt.halted
    /\ loop' = [op |-> "remind", step |-> 6, reason |-> None]
    /\ UNCHANGED <<baseline, orderTimestamps, lastFlipTick, orders, owed>>

\* check() while running: a halt condition enters _trigger_halt, the rest completes.
LoopRunning(target, equity, drawdown, stale) ==
    /\ ~halt.halted
    /\ \E reason \in Reasons \cup {None} :
          /\ \/ /\ killSwitch /\ reason = "kill_switch"
                /\ UNCHANGED <<baseline, orderTimestamps, lastFlipTick, orders>>
             \/ /\ ~killSwitch /\ PlainReject(target, stale) /\ reason = None
                /\ UNCHANGED <<baseline, orderTimestamps, lastFlipTick, orders>>
             \/ /\ ~killSwitch /\ ~PlainReject(target, stale)
                /\ orderTimestamps' = RecentOrders
                /\ RateLimited /\ reason = None
                /\ UNCHANGED <<baseline, lastFlipTick, orders>>
             \/ /\ ~killSwitch /\ ~PlainReject(target, stale) /\ ~RateLimited
                /\ ResetDailyIfNeeded(equity)
                /\ reason = IF LossBreached(dailyStart', equity) THEN "daily_loss"
                            ELSE IF drawdown >= DrawdownPct THEN "drawdown" ELSE None
                /\ IF reason = None
                   THEN /\ orderTimestamps' = RecentOrders \cup {NewOrder(tick')}
                        /\ lastFlipTick' = tick' /\ orders' = orders \cup {NewOrder(tick')}
                   ELSE /\ orderTimestamps' = RecentOrders
                        /\ UNCHANGED <<lastFlipTick, orders>>
          /\ loop' = IF reason = None THEN OutsideCheck
                     ELSE [op |-> "trip", step |-> 1, reason |-> reason]
          /\ owed' = (owed \/ reason # None)

LoopCheck(target, equity, drawdown, stale) ==
    /\ loop.op = "none"
    /\ tick < MaxTick /\ tick' = tick + 1
    /\ LoopHalted \/ LoopRunning(target, equity, drawdown, stale)
    /\ UNCHANGED <<now, halt, tracked, inFlight, killSwitch, files, panel, resets, restarts,
                   overlapped>>

\* One assignment of _trigger_halt; _last_alert_at copies the field, not the clock.
LoopTripField ==
    /\ loop.op = "trip" /\ loop.step \in 1..6
    /\ halt' = [halt EXCEPT ![Fields[loop.step]] =
                   IF loop.step = 6 THEN halt.triggeredAt
                   ELSE Tripped(loop.reason)[Fields[loop.step]]]
    /\ loop' = [loop EXCEPT !.step = @ + 1]
    /\ UNCHANGED files

\* _maybe_send_reminder: claim the reminder, or leave it when none is due.
LoopRemind ==
    /\ loop.op = "remind" /\ loop.step = 6
    /\ \/ /\ ReminderDue
          /\ halt' = [halt EXCEPT !.lastAlertAt = now]
          /\ loop' = [op |-> "remind", step |-> 7, reason |-> halt.reason]
       \/ /\ ~ReminderDue
          /\ loop' = OutsideCheck /\ UNCHANGED halt
    /\ UNCHANGED files

\* _fire_alert on the loop: the history line, then the marker.
LoopFireAlert ==
    \/ /\ loop.op # "none" /\ loop.step = 7
       /\ AppendLog(IF loop.op = "trip" THEN "triggered" ELSE "reminder")
       /\ loop' = [loop EXCEPT !.step = 8]
       /\ UNCHANGED <<halt, activeHalt>>
    \/ /\ loop.op # "none" /\ loop.step = 8
       /\ activeHalt' = loop.reason
       /\ loop' = OutsideCheck
       /\ UNCHANGED <<halt, alertLog>>

LoopStep ==
    /\ LoopTripField \/ LoopRemind \/ LoopFireAlert
    /\ UNCHANGED <<now, tick, baseline, tracked, ledger, killSwitch, panel, resets, restarts,
                   owed, overlapped>>

Resetting == {w \in Workers : panel[w] # 0}

PanelAcceptAlways(w) ==
    /\ panel[w] = 0 /\ resets < MaxResets
    /\ panel' = [panel EXCEPT ![w] = 1] /\ resets' = resets + 1 /\ owed' = FALSE
    /\ overlapped' = (overlapped \/ Resetting # {})
    /\ UNCHANGED <<vars, loop, restarts>>

\* The endpoint accepts a reset only while state.is_halted, whatever other threads do.
PanelAccept(w) ==
    /\ panel[w] = 0 /\ resets < MaxResets
    /\ halt.isHalted
    /\ panel' = [panel EXCEPT ![w] = 1] /\ resets' = resets + 1 /\ owed' = FALSE
    /\ overlapped' = (overlapped \/ Resetting # {})
    /\ UNCHANGED <<vars, loop, restarts>>

\* reset_halt: the resolved line, the marker's removal, then the six assignments.
PanelStep(w) ==
    /\ panel[w] # 0
    /\ \/ panel[w] = 1 /\ AppendLog("resolved") /\ UNCHANGED <<halt, activeHalt>>
       \/ panel[w] = 2 /\ activeHalt' = None /\ UNCHANGED <<halt, alertLog>>
       \/ /\ panel[w] \in 3..8
          /\ halt' = [halt EXCEPT ![Fields[panel[w] - 2]] = Running[Fields[panel[w] - 2]]]
          /\ UNCHANGED files
    /\ panel' = [panel EXCEPT ![w] = (@ + 1) % 9]
    /\ UNCHANGED <<now, tick, baseline, tracked, ledger, killSwitch, loop, resets, restarts,
                   owed, overlapped>>

\* The process dies and is started again: __init__ runs, no file is read back.
Restart ==
    /\ restarts < MaxRestarts /\ restarts' = restarts + 1
    /\ halt' = Running /\ tick' = 0
    /\ dailyStart' = StartingEquity /\ dailyStartTime' = now
    /\ currentEquity' = Seed /\ peakEquity' = Seed
    /\ orderTimestamps' = {} /\ lastFlipTick' = NeverFlipped /\ inFlight' = 0
    /\ loop' = OutsideCheck /\ panel' = [w \in Workers |-> 0]
    /\ owed' = FALSE /\ overlapped' = FALSE
    /\ UNCHANGED <<now, killSwitch, files, orders, resets>>

Outside ==
    /\ Tick \/ ToggleKillSwitch
    /\ UNCHANGED <<loop, panel, resets, restarts, owed, overlapped>>

OpsNext ==
    \/ \E target \in Fractions, equity \in Equities, drawdown \in Drawdowns,
          stale \in BOOLEAN : LoopCheck(target, equity, drawdown, stale)
    \/ LoopStep
    \/ \E w \in Workers : PanelAccept(w) \/ PanelStep(w)
    \/ Restart
    \/ Outside

OpsSpec == OpsInit /\ [][OpsNext]_opsVars

-----------------------------------------------------------------------------
Quiet == loop.op = "none" /\ Resetting = {}

\* However resets on the panel's threads interleave with checks on the loop, the flags
\* can only drift towards refusing: once all threads are out, a guardian the panel
\* shows as halted also refuses orders, unless two resets of this process overlapped.
DriftIsFailSafe == Quiet /\ halt.isHalted => halt.halted \/ overlapped

\* A halt raised while a reset is still clearing the previous one is not lost: only
\* a reset accepted after it was raised ends it, unless two resets overlapped.
HaltNotLost == Quiet /\ owed => halt.halted \/ overlapped

\* "A halt should be rare, loud, and end only when a human decides it should"
\* (risk_guardian.py:136): a halt nobody has reset since it was raised still holds.
HumanDecides == Quiet /\ owed => halt.halted
=============================================================================
