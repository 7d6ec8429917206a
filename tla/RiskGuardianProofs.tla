------------------------- MODULE RiskGuardianProofs -------------------------
(***************************************************************************)
(* Proofs about the risk guardian, for every value of the constants: first *)
(* the handlers one at a time (RiskGuardian), then a reset on the panel's  *)
(* thread and a check on the loop, statement by statement                  *)
(* (GuardianOperations): the flags drift only towards refusing and no      *)
(* newer halt is lost, for any number of decisions, resets and restarts.   *)
(***************************************************************************)
EXTENDS GuardianOperations, FiniteSetTheorems, TLAPS

\* TypeOK is inductive only with the finiteness of the order ledger, which gives
\* each new order a natural number.
Typed ==
    /\ TypeOK
    /\ IsFiniteSet(orders)
    /\ orderTimestamps \subseteq orders

\* What FireAlert leaves in the two files is always well typed.
LEMMA FireAlertTyped ==
    ASSUME TypeOK, NEW event \in {"triggered", "reminder", "resolved"},
           NEW marker \in Reasons \cup {None}, FireAlert(event, marker)
    PROVE  /\ activeHalt' \in Reasons \cup {None}
           /\ alertLog' \in [event : {"none", "triggered", "reminder", "resolved"}, at : Nat]
<1>1. now \in Nat /\ activeHalt \in Reasons \cup {None}
      /\ alertLog \in [event : {"none", "triggered", "reminder", "resolved"}, at : Nat]
  BY DEF TypeOK
<1> QED BY <1>1 DEF FireAlert

LEMMA TriggerTyped ==
    ASSUME TypeOK, NEW reason \in Reasons, TriggerHalt(reason)
    PROVE  /\ halt' \in HaltRecord
           /\ activeHalt' \in Reasons \cup {None}
           /\ alertLog' \in [event : {"none", "triggered", "reminder", "resolved"}, at : Nat]
<1>1. now \in Nat
  BY DEF TypeOK
<1>2. halt' \in HaltRecord
  BY <1>1 DEF TriggerHalt, Tripped, HaltRecord
<1>3. FireAlert("triggered", reason)
  BY DEF TriggerHalt
<1> QED BY <1>2, <1>3, FireAlertTyped

LEMMA ReminderTyped ==
    ASSUME TypeOK, MaybeSendReminder
    PROVE  /\ halt' \in HaltRecord
           /\ activeHalt' \in Reasons \cup {None}
           /\ alertLog' \in [event : {"none", "triggered", "reminder", "resolved"}, at : Nat]
<1>1. now \in Nat /\ halt \in HaltRecord
  BY DEF TypeOK
<1>2. CASE ReminderDue
  <2>1. FireAlert("reminder", halt.reason) /\ halt' = [halt EXCEPT !.lastAlertAt = now]
    BY <1>2 DEF MaybeSendReminder
  <2>2. halt.reason \in Reasons \cup {None} /\ halt' \in HaltRecord
    BY <1>1, <2>1 DEF HaltRecord
  <2> QED BY <2>1, <2>2, FireAlertTyped
<1>3. CASE ~ReminderDue
  BY <1>1, <1>3 DEF MaybeSendReminder, files, TypeOK
<1> QED BY <1>2, <1>3

\* The next order's record is well typed and the ledger stays finite with it.
LEMMA NewOrderTyped ==
    ASSUME Typed, NEW t \in Nat \cup {None}
    PROVE  NewOrder(t) \in OrderRecord /\ IsFiniteSet(orders \cup {NewOrder(t)})
<1>1. Cardinality(orders) \in Nat
  BY FS_CardinalityType DEF Typed
<1>2. NewOrder(t) \in OrderRecord
  BY <1>1 DEF Typed, TypeOK, NewOrder, OrderRecord
<1> QED BY <1>2, FS_AddElement DEF Typed

LEMMA DailyTyped ==
    ASSUME TypeOK, NEW equity \in Int, ResetDailyIfNeeded(equity)
    PROVE  dailyStart' \in Int \cup {None} /\ dailyStartTime' \in Nat
BY DEF TypeOK, ResetDailyIfNeeded

LEMMA CheckTyped ==
    ASSUME Typed,
           NEW target \in Fractions, NEW equity \in Equities, NEW drawdown \in Drawdowns,
           NEW stale \in BOOLEAN, NEW submits \in BOOLEAN,
           Check(target, equity, drawdown, stale, submits)
    PROVE  Typed'
<1>1. tick' \in Nat /\ tick' = tick + 1 /\ now' = now /\ inFlight' = inFlight
      /\ killSwitch' = killSwitch /\ currentEquity' = currentEquity /\ peakEquity' = peakEquity
  BY DEF Check, tracked, Typed, TypeOK
<1>2. CASE halt.halted /\ MaybeSendReminder
           /\ UNCHANGED <<baseline, orderTimestamps, lastFlipTick, orders>>
  BY <1>1, <1>2, ReminderTyped DEF Typed, TypeOK, baseline
<1>3. CASE TriggerHalt("kill_switch")
           /\ UNCHANGED <<baseline, orderTimestamps, lastFlipTick, orders>>
  <2>1. "kill_switch" \in Reasons
    BY DEF Reasons
  <2> QED BY <1>1, <1>3, <2>1, TriggerTyped DEF Typed, TypeOK, baseline
<1>4. CASE UNCHANGED <<halt, baseline, orderTimestamps, lastFlipTick, orders, files>>
  BY <1>1, <1>4 DEF Typed, TypeOK, baseline, files
<1>5. CASE CheckLimits(equity, drawdown, submits)
  <2>1. RecentOrders \subseteq orders /\ RecentOrders \subseteq OrderRecord /\ equity \in Int
    BY InputsAssumption DEF RecentOrders, Typed, TypeOK
  <2>2. CASE orderTimestamps' = RecentOrders
             /\ UNCHANGED <<halt, baseline, lastFlipTick, orders, files>>
    BY <1>1, <2>1, <2>2 DEF Typed, TypeOK, baseline, files
  <2>3. CASE /\ ResetDailyIfNeeded(equity)
             /\ \E breach \in {"daily_loss", "drawdown"} : TriggerHalt(breach)
             /\ orderTimestamps' = RecentOrders
             /\ UNCHANGED <<lastFlipTick, orders>>
    <3>1. PICK breach \in Reasons : TriggerHalt(breach)
      BY <2>3 DEF Reasons
    <3> QED BY <1>1, <2>1, <2>3, <3>1, TriggerTyped, DailyTyped DEF Typed, TypeOK
  <2>4. CASE /\ ResetDailyIfNeeded(equity)
             /\ orderTimestamps' = RecentOrders \cup {NewOrder(tick')}
             /\ lastFlipTick' = tick'
             /\ orders' = orders \cup {NewOrder(tick')}
             /\ UNCHANGED <<halt, files>>
    <3>1. NewOrder(tick') \in OrderRecord /\ IsFiniteSet(orders')
      BY <1>1, <2>4, NewOrderTyped
    <3> QED BY <1>1, <2>1, <2>4, <3>1, DailyTyped DEF Typed, TypeOK, files
  <2>5. CASE /\ ResetDailyIfNeeded(equity)
             /\ orderTimestamps' = RecentOrders
             /\ UNCHANGED <<lastFlipTick, orders>>
             /\ UNCHANGED <<halt, files>>
    BY <1>1, <2>1, <2>5, DailyTyped DEF Typed, TypeOK, files
  <2> QED BY <1>5, <2>2, <2>3, <2>4, <2>5 DEF CheckLimits
<1> QED BY <1>2, <1>3, <1>4, <1>5 DEF Check

LEMMA SafeOrderTyped ==
    ASSUME Typed, NEW cost \in Costs, SafeOrderCheck(cost)
    PROVE  Typed'
<1>1. /\ now' = now /\ tick' = tick /\ currentEquity' = currentEquity
      /\ peakEquity' = peakEquity /\ dailyStart' = dailyStart
      /\ dailyStartTime' = dailyStartTime /\ lastFlipTick' = lastFlipTick
      /\ orders' = orders /\ killSwitch' = killSwitch
  BY DEF SafeOrderCheck, baseline, tracked
<1>2. CASE MaybeSendReminder /\ UNCHANGED <<orderTimestamps, inFlight>>
  BY <1>1, <1>2, ReminderTyped DEF Typed, TypeOK
<1>3. CASE TriggerHalt("kill_switch") /\ UNCHANGED <<orderTimestamps, inFlight>>
  <2>1. "kill_switch" \in Reasons
    BY DEF Reasons
  <2> QED BY <1>1, <1>3, <2>1, TriggerTyped DEF Typed, TypeOK
<1>4. CASE /\ UNCHANGED <<halt, files>>
           /\ orderTimestamps' \subseteq orderTimestamps
           /\ \/ inFlight' = inFlight
              \/ inFlight < MaxInFlight /\ inFlight' = inFlight + 1
  <2>1. inFlight' \in 0..MaxInFlight
    BY <1>4, InputsAssumption DEF Typed, TypeOK
  <2> QED BY <1>1, <1>4, <2>1 DEF Typed, TypeOK, files
<1>5. RecentOrders \subseteq orderTimestamps
  BY DEF RecentOrders
<1> QED BY <1>2, <1>3, <1>4, <1>5 DEF SafeOrderCheck

\* Every step of the guardian keeps its state well typed.
LEMMA TypedStep == Typed /\ [Next]_vars => Typed'
<1> SUFFICES ASSUME Typed, [Next]_vars PROVE Typed'
  OBVIOUS
<1>1. ASSUME NEW target \in Fractions, NEW equity \in Equities, NEW drawdown \in Drawdowns,
             NEW stale \in BOOLEAN, NEW submits \in BOOLEAN,
             Check(target, equity, drawdown, stale, submits)
      PROVE  Typed'
  BY <1>1, CheckTyped
<1>2. ASSUME NEW equity \in Equities, UpdateEquity(equity) PROVE Typed'
  <2>1. equity \in Int
    BY InputsAssumption
  <2>2. /\ halt' \in HaltRecord /\ activeHalt' \in Reasons \cup {None}
        /\ alertLog' \in [event : {"none", "triggered", "reminder", "resolved"}, at : Nat]
    <3>1. CASE UNCHANGED <<halt, files>>
      BY <3>1 DEF Typed, TypeOK, files
    <3>2. CASE \E reason \in {"daily_loss", "drawdown"} : TriggerHalt(reason)
      BY <3>2, TriggerTyped DEF Typed, Reasons
    <3> QED BY <1>2, <3>1, <3>2 DEF UpdateEquity
  <2> QED BY <1>2, <2>1, <2>2, DailyTyped DEF UpdateEquity, Typed, TypeOK, ledger
<1>3. ASSUME NEW cost \in Costs, SafeOrderCheck(cost) PROVE Typed'
  BY <1>3, SafeOrderTyped
<1>4. CASE SafeOrderDone
  <2>1. NewOrder(None) \in OrderRecord /\ IsFiniteSet(orders')
    BY <1>4, NewOrderTyped DEF SafeOrderDone
  <2> QED BY <1>4, <2>1, InputsAssumption
          DEF SafeOrderDone, Typed, TypeOK, baseline, tracked, files
<1>5. CASE SafeOrderFails
  BY <1>5, InputsAssumption DEF SafeOrderFails, Typed, TypeOK, baseline, tracked, files
<1>6. CASE ResetHalt
  <2>1. Running \in HaltRecord
    BY DEF Running, HaltRecord
  <2> QED BY <1>6, <2>1, FireAlertTyped DEF ResetHalt, Typed, TypeOK, baseline, tracked, ledger
<1>7. CASE GetRiskSummary
  BY <1>7 DEF GetRiskSummary, RecentOrders, Typed, TypeOK, baseline, tracked, files
<1>8. CASE ToggleKillSwitch
  BY <1>8 DEF ToggleKillSwitch, Typed, TypeOK, baseline, tracked, ledger, files
<1>9. CASE Tick
  BY <1>9 DEF Tick, Typed, TypeOK, baseline, tracked, ledger, files
<1>10. CASE UNCHANGED vars
  BY <1>10 DEF vars, Typed, TypeOK, baseline, tracked, ledger, files
<1> QED BY <1>1, <1>2, <1>3, <1>4, <1>5, <1>6, <1>7, <1>8, <1>9, <1>10 DEF Next

LEMMA TypedInit == Init => Typed
<1> SUFFICES ASSUME Init PROVE Typed
  OBVIOUS
<1>1. IsFiniteSet({})
  BY FS_EmptySet
<1>2. Running \in HaltRecord
  BY DEF Running, HaltRecord
<1>3. now \in Nat /\ tick \in Nat /\ dailyStartTime \in Nat /\ inFlight \in 0..MaxInFlight
  BY InputsAssumption DEF Init
<1>4. dailyStart \in Int \cup {None} /\ currentEquity \in Int /\ peakEquity \in Int
  BY InputsAssumption DEF Init, Seed
<1>5. orders = {} /\ orderTimestamps = {} /\ halt = Running
      /\ killSwitch = FALSE /\ activeHalt = None /\ lastFlipTick = NeverFlipped
  BY DEF Init
<1>6. alertLog \in [event : {"none", "triggered", "reminder", "resolved"}, at : Nat]
  BY DEF Init
<1> QED BY <1>1, <1>2, <1>3, <1>4, <1>5, <1>6 DEF Typed, TypeOK

\* Type correctness of the guardian's whole state.
THEOREM TypeCorrect == Spec => []TypeOK
<1>1. Typed => TypeOK
  BY DEF Typed
<1> QED BY <1>1, TypedInit, TypedStep, PTL DEF Spec

-----------------------------------------------------------------------------
\* How a step may change the halt fields.
HaltChange ==
    \/ halt' = halt /\ now' \in {now, now + 1}
    \/ /\ now' = now
       /\ \/ halt' = Running
          \/ \E reason \in Reasons : halt' = Tripped(reason)
          \/ (halt.halted \/ halt.isHalted) /\ halt' = [halt EXCEPT !.lastAlertAt = now]

LEMMA HaltStep == TypeOK /\ [Next]_vars => HaltChange
<1> SUFFICES ASSUME TypeOK, [Next]_vars PROVE HaltChange
  OBVIOUS
<1>1. ASSUME MaybeSendReminder, halt.halted \/ halt.isHalted, now' = now PROVE HaltChange
  BY <1>1 DEF MaybeSendReminder, HaltChange
<1>2. ASSUME NEW reason \in Reasons, TriggerHalt(reason), now' = now PROVE HaltChange
  BY <1>2 DEF TriggerHalt, HaltChange
<1>3. ASSUME NEW target \in Fractions, NEW equity \in Equities, NEW drawdown \in Drawdowns,
             NEW stale \in BOOLEAN, NEW submits \in BOOLEAN,
             Check(target, equity, drawdown, stale, submits)
      PROVE  HaltChange
  <2>1. now' = now
    BY <1>3 DEF Check
  <2>2. ASSUME CheckLimits(equity, drawdown, submits) PROVE HaltChange
    <3>1. \/ UNCHANGED halt
          \/ \E reason \in {"daily_loss", "drawdown"} : TriggerHalt(reason)
      BY <2>2 DEF CheckLimits
    <3> QED BY <2>1, <3>1, <1>2 DEF HaltChange, Reasons
  <2>3. ASSUME TriggerHalt("kill_switch") PROVE HaltChange
    BY <2>1, <2>3, <1>2 DEF Reasons
  <2> QED BY <1>3, <2>1, <2>2, <2>3, <1>1 DEF Check, HaltChange
<1>4. ASSUME NEW equity \in Equities, UpdateEquity(equity) PROVE HaltChange
  <2>1. now' = now
    BY <1>4 DEF UpdateEquity
  <2>2. \/ UNCHANGED halt
        \/ \E reason \in {"daily_loss", "drawdown"} : TriggerHalt(reason)
    BY <1>4 DEF UpdateEquity
  <2> QED BY <2>1, <2>2, <1>2 DEF HaltChange, Reasons
<1>5. ASSUME NEW cost \in Costs, SafeOrderCheck(cost) PROVE HaltChange
  <2>1. now' = now
    BY <1>5 DEF SafeOrderCheck
  <2>2. ASSUME TriggerHalt("kill_switch") PROVE HaltChange
    BY <2>1, <2>2, <1>2 DEF Reasons
  <2> QED BY <1>5, <2>1, <2>2, <1>1 DEF SafeOrderCheck, HaltChange
<1>6. CASE SafeOrderDone \/ SafeOrderFails \/ GetRiskSummary \/ ToggleKillSwitch
  BY <1>6 DEF SafeOrderDone, SafeOrderFails, GetRiskSummary, ToggleKillSwitch, HaltChange
<1>7. CASE ResetHalt
  BY <1>7 DEF ResetHalt, HaltChange
<1>8. CASE Tick \/ UNCHANGED vars
  BY <1>8 DEF Tick, vars, HaltChange
<1> QED BY <1>3, <1>4, <1>5, <1>6, <1>7, <1>8 DEF Next

\* FlagsAgree needs, to be inductive, that no alert is dated in the future.
HaltInv ==
    /\ FlagsAgree
    /\ halt.halted => halt.lastAlertAt <= now
    /\ halt.halted => halt.lastAlertAt \in Nat

LEMMA HaltInvStep == Typed /\ HaltInv /\ [Next]_vars => HaltInv'
<1> SUFFICES ASSUME Typed, HaltInv, [Next]_vars PROVE HaltInv'
  OBVIOUS
<1>1. TypeOK /\ now \in Nat /\ halt \in HaltRecord /\ HaltChange
  BY HaltStep DEF Typed, TypeOK
<1>2. CASE halt' = halt /\ now' \in {now, now + 1}
  BY <1>1, <1>2 DEF HaltInv, FlagsAgree, HaltRecord
<1>3. CASE now' = now /\ halt' = Running
  BY <1>3 DEF Running, HaltInv, FlagsAgree
<1>4. ASSUME NEW reason \in Reasons, now' = now, halt' = Tripped(reason) PROVE HaltInv'
  BY <1>1, <1>4, InputsAssumption DEF Tripped, HaltInv, FlagsAgree
<1>5. CASE now' = now /\ (halt.halted \/ halt.isHalted) /\ halt' = [halt EXCEPT !.lastAlertAt = now]
  <2>1. /\ halt'.halted = halt.halted /\ halt'.isHalted = halt.isHalted
        /\ halt'.reason = halt.reason /\ halt'.triggeredAt = halt.triggeredAt
        /\ halt'.lastAlertAt = now
    BY <1>1, <1>5 DEF HaltRecord
  <2>2. halt.triggeredAt \in Nat /\ halt.lastAlertAt \in Nat /\ halt.triggeredAt <= now
    BY <1>1, <1>5 DEF HaltInv, FlagsAgree, HaltRecord
  <2> QED BY <1>1, <1>5, <2>1, <2>2 DEF HaltInv, FlagsAgree
<1> QED BY <1>1, <1>2, <1>3, <1>4, <1>5 DEF HaltChange

\* The two halted flags and the two reasons agree after every method, and the
\* times of a halt are in order, however many alerts or markers fail to be written.
THEOREM FlagsNeverDisagree == Spec => []FlagsAgree
<1>1. Init => HaltInv
  BY DEF Init, Running, HaltInv, FlagsAgree
<1>2. HaltInv => FlagsAgree
  BY DEF HaltInv
<1> QED BY <1>1, <1>2, TypedInit, TypedStep, HaltInvStep, PTL DEF Spec

-----------------------------------------------------------------------------
\* What a step may do to the halt and to its two files: a trip, a reminder and a
\* reset each send one alert.  Only update_equity() trips what is halted already.
AlertChange ==
    \/ UNCHANGED <<halt, files>> /\ now' \in {now, now + 1}
    \/ /\ now' = now
       /\ \/ /\ halt.halted => "equity" \in EntryPoints
             /\ \E reason \in Reasons : TriggerHalt(reason)
          \/ (halt.halted \/ halt.isHalted) /\ MaybeSendReminder
          \/ halt' = Running /\ FireAlert("resolved", None)

LEMMA AlertStep == [Next]_vars => AlertChange
<1> SUFFICES ASSUME [Next]_vars PROVE AlertChange
  OBVIOUS
<1>1. ASSUME NEW target \in Fractions, NEW equity \in Equities, NEW drawdown \in Drawdowns,
             NEW stale \in BOOLEAN, NEW submits \in BOOLEAN,
             Check(target, equity, drawdown, stale, submits)
      PROVE  AlertChange
  <2>1. now' = now
    BY <1>1 DEF Check
  <2>2. ASSUME ~halt.halted, CheckLimits(equity, drawdown, submits) PROVE AlertChange
    <3>1. \/ UNCHANGED <<halt, files>>
          \/ \E reason \in {"daily_loss", "drawdown"} : TriggerHalt(reason)
      BY <2>2 DEF CheckLimits
    <3> QED BY <2>1, <2>2, <3>1 DEF AlertChange, Reasons
  <2>3. ASSUME ~halt.halted, TriggerHalt("kill_switch") PROVE AlertChange
    BY <2>1, <2>3 DEF AlertChange, Reasons
  <2>4. ASSUME halt.halted, MaybeSendReminder PROVE AlertChange
    BY <2>1, <2>4 DEF AlertChange
  <2>5. ASSUME UNCHANGED <<halt, files>> PROVE AlertChange
    BY <2>1, <2>5 DEF AlertChange
  <2> QED BY <1>1, <2>2, <2>3, <2>4, <2>5 DEF Check
<1>2. ASSUME NEW equity \in Equities, UpdateEquity(equity) PROVE AlertChange
  <2>1. now' = now /\ "equity" \in EntryPoints
    BY <1>2 DEF UpdateEquity
  <2>2. \/ UNCHANGED <<halt, files>>
        \/ \E reason \in {"daily_loss", "drawdown"} : TriggerHalt(reason)
    BY <1>2 DEF UpdateEquity
  <2> QED BY <2>1, <2>2 DEF AlertChange, Reasons
<1>3. ASSUME NEW cost \in Costs, SafeOrderCheck(cost) PROVE AlertChange
  <2>1. now' = now
    BY <1>3 DEF SafeOrderCheck
  <2>2. ASSUME ~halt.halted, TriggerHalt("kill_switch") PROVE AlertChange
    BY <2>1, <2>2 DEF AlertChange, Reasons
  <2>3. ASSUME halt.halted \/ halt.isHalted, MaybeSendReminder PROVE AlertChange
    BY <2>1, <2>3 DEF AlertChange
  <2>4. ASSUME UNCHANGED <<halt, files>> PROVE AlertChange
    BY <2>1, <2>4 DEF AlertChange
  <2> QED BY <1>3, <2>2, <2>3, <2>4 DEF SafeOrderCheck
<1>4. CASE SafeOrderDone \/ SafeOrderFails \/ GetRiskSummary \/ ToggleKillSwitch
  BY <1>4 DEF SafeOrderDone, SafeOrderFails, GetRiskSummary, ToggleKillSwitch, AlertChange
<1>5. CASE ResetHalt
  BY <1>5 DEF ResetHalt, AlertChange
<1>6. CASE Tick \/ UNCHANGED vars
  BY <1>6 DEF Tick, vars, AlertChange
<1> QED BY <1>1, <1>2, <1>3, <1>4, <1>5, <1>6 DEF Next

LEMMA MarkerStep ==
    DiskOutcomes = {TRUE} /\ Typed /\ HaltInv /\ MarkerTellsTheTruth /\ [Next]_vars => MarkerTellsTheTruth'
<1> SUFFICES ASSUME DiskOutcomes = {TRUE}, Typed, HaltInv, MarkerTellsTheTruth, [Next]_vars
             PROVE  MarkerTellsTheTruth'
  OBVIOUS
<1>1. AlertChange /\ halt \in HaltRecord /\ (halt.isHalted => halt.halted)
  BY AlertStep DEF Typed, TypeOK, HaltInv, FlagsAgree
<1>2. ASSUME NEW event, NEW marker, FireAlert(event, marker)
      PROVE  alertLog'.event = event /\ activeHalt' = marker
  BY <1>2 DEF FireAlert
<1>3. CASE UNCHANGED <<halt, files>>
  BY <1>3 DEF MarkerTellsTheTruth, files
<1>4. ASSUME NEW reason \in Reasons, TriggerHalt(reason) PROVE MarkerTellsTheTruth'
  <2>1. halt' = Tripped(reason) /\ alertLog'.event = "triggered" /\ activeHalt' = reason
    BY <1>2, <1>4 DEF TriggerHalt
  <2> QED BY <2>1 DEF MarkerTellsTheTruth, Tripped
<1>5. CASE (halt.halted \/ halt.isHalted) /\ MaybeSendReminder /\ ReminderDue
  <2>1. /\ halt' = [halt EXCEPT !.lastAlertAt = now]
        /\ alertLog'.event = "reminder" /\ activeHalt' = halt.reason
    BY <1>2, <1>5 DEF MaybeSendReminder
  <2>2. halt'.halted = halt.halted /\ halt'.reason = halt.reason
    BY <1>1, <2>1 DEF HaltRecord
  <2> QED BY <1>1, <1>5, <2>1, <2>2 DEF MarkerTellsTheTruth
<1>6. CASE MaybeSendReminder /\ ~ReminderDue
  BY <1>3, <1>6 DEF MaybeSendReminder
<1>7. CASE halt' = Running /\ FireAlert("resolved", None)
  <2>1. alertLog'.event = "resolved" /\ activeHalt' = None
    BY <1>2, <1>7
  <2> QED BY <1>7, <2>1 DEF MarkerTellsTheTruth, Running
<1> QED BY <1>1, <1>3, <1>4, <1>5, <1>6, <1>7 DEF AlertChange

\* On a disk that takes every write, the marker file and the end of the alert
\* history say what the flags say, whichever entry points are used.
THEOREM MarkerIsTrue ==
    ASSUME DiskOutcomes = {TRUE}
    PROVE  Spec => []MarkerTellsTheTruth
<1>1. Init => HaltInv /\ MarkerTellsTheTruth
  BY DEF Init, Running, HaltInv, FlagsAgree, MarkerTellsTheTruth
<1>2. DiskOutcomes = {TRUE}
  OBVIOUS
<1>3. Typed /\ HaltInv /\ MarkerTellsTheTruth /\ [Next]_vars => MarkerTellsTheTruth'
  BY <1>2, MarkerStep
<1> QED BY <1>1, <1>3, TypedInit, TypedStep, HaltInvStep, PTL DEF Spec

\* The last line of the history is no younger than the time that is compared;
\* it is older where a line could not be written.
Logged ==
    /\ alertLog.at <= now
    /\ halt.halted => alertLog.at <= halt.lastAlertAt

LEMMA SpacingStep ==
    "equity" \notin EntryPoints /\ Typed /\ HaltInv /\ Logged /\ [Next]_vars
      => /\ Logged'
         /\ halt.halted /\ halt'.halted /\ alertLog' # alertLog => now - alertLog.at >= ReminderInterval
<1> SUFFICES ASSUME "equity" \notin EntryPoints, Typed, HaltInv, Logged, AlertChange
             PROVE  /\ Logged'
                    /\ halt.halted /\ halt'.halted /\ alertLog' # alertLog
                         => now - alertLog.at >= ReminderInterval
  BY AlertStep
<1>1. /\ halt \in HaltRecord /\ now \in Nat /\ alertLog.at \in Nat /\ alertLog.at <= now
      /\ (halt.isHalted => halt.halted)
      /\ (halt.halted => halt.lastAlertAt \in Nat /\ halt.lastAlertAt <= now /\ halt.lastAlertAt # None)
  BY InputsAssumption DEF Typed, TypeOK, HaltInv, FlagsAgree, Logged
<1>2. ASSUME NEW event, NEW marker, FireAlert(event, marker) PROVE alertLog'.at \in Nat /\ alertLog'.at <= now
  BY <1>1, <1>2 DEF FireAlert
<1>3. CASE UNCHANGED <<halt, files>> /\ now' \in {now, now + 1}
  BY <1>1, <1>3 DEF Logged, files
<1>4. ASSUME now' = now, ~halt.halted, NEW reason \in Reasons, TriggerHalt(reason) PROVE Logged'
  <2>1. halt' = Tripped(reason) /\ alertLog'.at <= now
    BY <1>2, <1>4 DEF TriggerHalt
  <2> QED BY <1>4, <2>1 DEF Logged, Tripped
<1>5. CASE now' = now /\ (halt.halted \/ halt.isHalted) /\ MaybeSendReminder /\ ReminderDue
  <2>1. halt' = [halt EXCEPT !.lastAlertAt = now] /\ alertLog'.at <= now
    BY <1>2, <1>5 DEF MaybeSendReminder
  <2>2. halt'.lastAlertAt = now
    BY <1>1, <2>1 DEF HaltRecord
  <2>3. now - halt.lastAlertAt >= ReminderInterval
    BY <1>1, <1>5 DEF ReminderDue
  <2>4. alertLog.at <= halt.lastAlertAt
    BY <1>1, <1>5 DEF Logged
  <2> QED BY <1>1, <1>5, <2>1, <2>2, <2>3, <2>4, LimitsAssumption DEF Logged
<1>6. CASE now' = now /\ MaybeSendReminder /\ ~ReminderDue
  BY <1>3, <1>6 DEF MaybeSendReminder
<1>7. CASE now' = now /\ halt' = Running /\ FireAlert("resolved", None)
  BY <1>2, <1>7 DEF Logged, Running
<1> QED BY <1>3, <1>4, <1>5, <1>6, <1>7 DEF AlertChange

\* Where update_equity() is not called, a halted guardian alerts at most once in
\* ReminderInterval, although it is reminded by two early returns and writes fail.
THEOREM AlertsComeSpaced ==
    ASSUME "equity" \notin EntryPoints
    PROVE  Spec => AlertsSpaced
<1>1. Init => HaltInv /\ Logged
  BY DEF Init, Running, HaltInv, FlagsAgree, Logged
<1>2. Typed /\ HaltInv /\ Logged /\ [Next]_vars => Logged'
  BY SpacingStep
<1>3. Typed /\ HaltInv /\ Logged /\ [Next]_vars
        => [halt.halted /\ halt'.halted /\ alertLog' # alertLog => now - alertLog.at >= ReminderInterval]_vars
  BY SpacingStep
<1> QED BY <1>1, <1>2, <1>3, TypedInit, TypedStep, HaltInvStep, PTL DEF Spec, AlertsSpaced

-----------------------------------------------------------------------------
\* How a step may change the order ledger: leave or prune it, admit one more task of
\* execute_safe_order, record an order of the trading loop, or one of such a task.
LedgerKept ==
    /\ UNCHANGED <<orders, lastFlipTick>>
    /\ orderTimestamps' = orderTimestamps \/ orderTimestamps' = RecentOrders
    /\ tick' \in Nat /\ tick' >= tick /\ now' \in {now, now + 1}
    /\ \/ inFlight' = inFlight
       \/ inFlight > 0 /\ inFlight' = inFlight - 1
       \/ /\ "order" \in EntryPoints /\ ~RateLimited /\ now' = now
          /\ inFlight < MaxInFlight /\ inFlight' = inFlight + 1

LoopOrders ==
    /\ "check" \in EntryPoints /\ ~halt.halted /\ ~RateLimited
    /\ tick' = tick + 1 /\ ~(tick' - lastFlipTick < MinHold)
    /\ orders' = orders \cup {NewOrder(tick')}
    /\ orderTimestamps' = RecentOrders \cup {NewOrder(tick')}
    /\ lastFlipTick' = tick'
    /\ UNCHANGED <<now, halt, inFlight>>

LedgerChange == LedgerKept \/ LoopOrders \/ SafeOrderDone

LEMMA LedgerStep == Typed /\ [Next]_vars => LedgerChange
<1> SUFFICES ASSUME Typed, [Next]_vars PROVE LedgerChange
  OBVIOUS
<1>0. tick \in Nat /\ now \in Nat
  BY DEF Typed, TypeOK
<1>1. ASSUME NEW target \in Fractions, NEW equity \in Equities, NEW drawdown \in Drawdowns,
             NEW stale \in BOOLEAN, NEW submits \in BOOLEAN,
             Check(target, equity, drawdown, stale, submits)
      PROVE  LedgerChange
  <2>1. /\ tick' = tick + 1 /\ now' = now /\ inFlight' = inFlight
        /\ "check" \in EntryPoints
    BY <1>1 DEF Check
  <2>2. CASE UNCHANGED <<orderTimestamps, lastFlipTick, orders>>
    BY <1>0, <2>1, <2>2 DEF LedgerChange, LedgerKept
  <2>3. CASE ~halt.halted /\ ~PlainReject(target, stale) /\ CheckLimits(equity, drawdown, submits)
    <3>1. CASE orderTimestamps' = RecentOrders /\ UNCHANGED <<lastFlipTick, orders>>
      BY <1>0, <2>1, <3>1 DEF LedgerChange, LedgerKept
    <3>2. CASE /\ ~RateLimited
               /\ orderTimestamps' = RecentOrders \cup {NewOrder(tick')}
               /\ lastFlipTick' = tick'
               /\ orders' = orders \cup {NewOrder(tick')}
               /\ UNCHANGED <<halt, files>>
      <4>1. ~(tick' - lastFlipTick < MinHold)
        BY <2>3 DEF PlainReject
      <4> QED BY <2>1, <2>3, <3>2, <4>1 DEF LedgerChange, LoopOrders
    <3> QED BY <2>3, <3>1, <3>2 DEF CheckLimits
  <2> QED BY <1>1, <2>2, <2>3 DEF Check
<1>2. ASSUME NEW equity \in Equities, UpdateEquity(equity) PROVE LedgerChange
  BY <1>0, <1>2 DEF UpdateEquity, ledger, LedgerChange, LedgerKept
<1>3. ASSUME NEW cost \in Costs, SafeOrderCheck(cost) PROVE LedgerChange
  <2>1. /\ UNCHANGED <<now, tick, orders, lastFlipTick>> /\ "order" \in EntryPoints
        /\ orderTimestamps' = orderTimestamps \/ orderTimestamps' = RecentOrders
    BY <1>3 DEF SafeOrderCheck
  <2>2. \/ inFlight' = inFlight
        \/ ~RateLimited /\ inFlight < MaxInFlight /\ inFlight' = inFlight + 1
    BY <1>3 DEF SafeOrderCheck
  <2> QED BY <1>0, <2>1, <2>2 DEF LedgerChange, LedgerKept
<1>4. CASE SafeOrderFails
  BY <1>0, <1>4 DEF SafeOrderFails, LedgerChange, LedgerKept
<1>5. CASE ResetHalt \/ GetRiskSummary \/ ToggleKillSwitch \/ Tick \/ UNCHANGED vars
  BY <1>0, <1>5 DEF ResetHalt, GetRiskSummary, ToggleKillSwitch, Tick, vars, ledger,
                    LedgerChange, LedgerKept
<1> QED BY <1>1, <1>2, <1>3, <1>4, <1>5 DEF Next, LedgerChange

\* Order numbers stay below the count, so a new order is never one already recorded.
Numbered == \A o \in orders : o.no < Cardinality(orders)

LEMMA NewOrderIsNew ==
    ASSUME Typed, Numbered, NEW t \in Nat \cup {None}
    PROVE  /\ NewOrder(t) \notin orders
           /\ Cardinality(orders) \in Nat
           /\ Cardinality(orders \cup {NewOrder(t)}) = Cardinality(orders) + 1
<1>1. Cardinality(orders) \in Nat
  BY FS_CardinalityType DEF Typed
<1>2. NewOrder(t).no = Cardinality(orders)
  BY DEF NewOrder
<1>3. NewOrder(t) \notin orders
  BY <1>1, <1>2 DEF Numbered
<1> QED BY <1>1, <1>3, FS_AddElement DEF Typed

LEMMA NumberedStep == Typed /\ Numbered /\ [Next]_vars => Numbered'
<1> SUFFICES ASSUME Typed, Numbered, [Next]_vars PROVE Numbered'
  OBVIOUS
<1>1. CASE orders' = orders
  BY <1>1 DEF Numbered
<1>2. ASSUME NEW t \in Nat \cup {None}, orders' = orders \cup {NewOrder(t)} PROVE Numbered'
  <2>1. Cardinality(orders) \in Nat /\ Cardinality(orders') = Cardinality(orders) + 1
    BY <1>2, NewOrderIsNew
  <2>2. NewOrder(t).no = Cardinality(orders)
    BY DEF NewOrder
  <2>3. \A o \in orders : o.no \in Nat
    BY DEF Typed, TypeOK, OrderRecord
  <2> QED BY <1>2, <2>1, <2>2, <2>3 DEF Numbered
<1>3. tick + 1 \in Nat
  BY DEF Typed, TypeOK
<1> QED BY <1>1, <1>2, <1>3, LedgerStep DEF LedgerChange, LedgerKept, LoopOrders, SafeOrderDone

LEMMA NumberedInit == Init => Numbered
BY DEF Init, Numbered

\* Every recorded order of the loop is dated no later than the last flip.
FlipInv ==
    \A o \in orders : o.tick # None =>
        lastFlipTick \in Nat /\ o.tick <= lastFlipTick /\ lastFlipTick <= tick

HoldInv == Numbered /\ FlipInv /\ HoldRespected

LEMMA HoldStep == Typed /\ HoldInv /\ [Next]_vars => HoldInv'
<1> SUFFICES ASSUME Typed, HoldInv, [Next]_vars PROVE HoldInv'
  OBVIOUS
<1>0. /\ tick \in Nat /\ Numbered /\ Numbered' /\ MinHold \in Nat
      /\ \A o \in orders : o \in OrderRecord
  BY NumberedStep, LimitsAssumption DEF Typed, TypeOK, HoldInv
<1>1. CASE LedgerKept
  BY <1>0, <1>1 DEF LedgerKept, HoldInv, FlipInv, HoldRespected
<1>2. CASE LoopOrders
  <2>1. /\ tick' = tick + 1 /\ tick' \in Nat /\ lastFlipTick' = tick'
        /\ orders' = orders \cup {NewOrder(tick')}
        /\ ~(tick' - lastFlipTick < MinHold)
    BY <1>0, <1>2 DEF LoopOrders
  <2>2. NewOrder(tick').tick = tick' /\ NewOrder(tick').no = Cardinality(orders)
    BY DEF NewOrder
  <2>3. Cardinality(orders) \in Nat
    BY FS_CardinalityType DEF Typed
  <2>4. \A o \in orders : /\ o.no \in Nat /\ o.no < Cardinality(orders)
                         /\ o.tick \in Nat \cup {None}
    BY <1>0 DEF Numbered, OrderRecord
  <2>5. \A o \in orders : o.tick # None =>
            lastFlipTick \in Nat /\ o.tick <= lastFlipTick /\ lastFlipTick <= tick
    BY DEF HoldInv, FlipInv
  <2>6. FlipInv'
    BY <1>0, <2>1, <2>2, <2>4, <2>5 DEF FlipInv
  <2>7. ASSUME NEW a \in orders', NEW b \in orders',
               a.no < b.no, a.tick # None, b.tick # None
        PROVE  b.tick - a.tick >= MinHold
    <3>1. CASE a \in orders /\ b \in orders
      BY <2>7, <3>1 DEF HoldInv, HoldRespected
    <3>2. CASE a \in orders /\ b = NewOrder(tick')
      <4>1. a.tick \in Nat /\ lastFlipTick \in Nat /\ a.tick <= lastFlipTick
        BY <2>4, <2>5, <2>7, <3>2
      <4>2. b.tick = tick'
        BY <2>2, <3>2
      <4> QED BY <1>0, <2>1, <4>1, <4>2
    <3>3. CASE a = NewOrder(tick')
      BY <2>1, <2>2, <2>3, <2>4, <2>7, <3>3
    <3> QED BY <2>1, <3>1, <3>2, <3>3
  <2> QED BY <1>0, <2>6, <2>7 DEF HoldInv, HoldRespected
<1>3. CASE SafeOrderDone
  <2>1. /\ tick' = tick /\ lastFlipTick' = lastFlipTick
        /\ orders' = orders \cup {NewOrder(None)} /\ NewOrder(None).tick = None
    BY <1>3 DEF SafeOrderDone, NewOrder
  <2> QED BY <1>0, <2>1 DEF HoldInv, FlipInv, HoldRespected
<1> QED BY <1>1, <1>2, <1>3, LedgerStep DEF LedgerChange

\* Two orders of the trading loop are min_hold_ticks decisions apart, through every
\* halt, reset, rejection and order of another entry point between them.
THEOREM HoldIsRespected == Spec => []HoldRespected
<1>1. Init => HoldInv
  BY DEF Init, HoldInv, Numbered, FlipInv, HoldRespected
<1>2. HoldInv => HoldRespected
  BY DEF HoldInv
<1> QED BY <1>1, <1>2, TypedInit, TypedStep, HoldStep, PTL DEF Spec

-----------------------------------------------------------------------------
\* RateLimit needs two more facts: pruning never drops an order that still counts,
\* and the orders in flight have their place in the budget.
RateInv ==
    /\ Numbered
    /\ OrdersIn(RateWindow) \subseteq orderTimestamps
    /\ Cardinality(OrdersIn(RateWindow)) + inFlight <= MaxOrders + Unseen

\* The orders that count are finitely many, all in the pruned window.
LEMMA WindowFinite ==
    ASSUME Typed, OrdersIn(RateWindow) \subseteq orderTimestamps
    PROVE  /\ IsFiniteSet(OrdersIn(RateWindow)) /\ Cardinality(OrdersIn(RateWindow)) \in Nat
           /\ OrdersIn(RateWindow) \subseteq RecentOrders
           /\ Cardinality(RecentOrders) \in Nat
           /\ Cardinality(OrdersIn(RateWindow)) <= Cardinality(RecentOrders)
<1>1. IsFiniteSet(orders) /\ OrdersIn(RateWindow) \subseteq orders /\ RecentOrders \subseteq orders
  BY DEF Typed, OrdersIn, RecentOrders
<1>2. IsFiniteSet(OrdersIn(RateWindow)) /\ IsFiniteSet(RecentOrders)
  BY <1>1, FS_Subset
<1>3. OrdersIn(RateWindow) \subseteq RecentOrders
  BY DEF OrdersIn, RecentOrders
<1> QED BY <1>2, <1>3, FS_Subset, FS_CardinalityType

\* An order recorded now joins the window; nothing else in it changes.
LEMMA WindowGrows ==
    ASSUME Typed, RateInv, NEW t \in Nat \cup {None},
           orders' = orders \cup {NewOrder(t)}, now' = now
    PROVE  /\ OrdersIn(RateWindow)' = OrdersIn(RateWindow) \cup {NewOrder(t)}
           /\ Cardinality(OrdersIn(RateWindow)') = Cardinality(OrdersIn(RateWindow)) + 1
<1>1. NewOrder(t).at = now /\ NewOrder(t) \notin orders
  BY NewOrderIsNew DEF NewOrder, RateInv
<1>2. now \in Nat /\ RateWindow > 0
  BY LimitsAssumption DEF Typed, TypeOK
<1>3. OrdersIn(RateWindow)' = OrdersIn(RateWindow) \cup {NewOrder(t)}
  BY <1>1, <1>2 DEF OrdersIn
<1>4. NewOrder(t) \notin OrdersIn(RateWindow)
  BY <1>1 DEF OrdersIn
<1>5. IsFiniteSet(OrdersIn(RateWindow))
  BY WindowFinite DEF RateInv
<1> QED BY <1>3, <1>4, <1>5, FS_AddElement

LEMMA RateStep ==
    ASSUME Typed, RateInv, [Next]_vars
    PROVE  RateInv'
<1>0. /\ now \in Nat /\ inFlight \in 0..MaxInFlight /\ MaxInFlight \in Nat
      /\ MaxOrders \in Nat /\ RateWindow \in Nat /\ Unseen \in Nat /\ Unseen >= MaxInFlight - 1
      /\ \A o \in orders : o.at \in Nat
  BY LimitsAssumption, InputsAssumption DEF Typed, TypeOK, OrderRecord, Unseen
<1>1. Numbered'
  BY NumberedStep DEF RateInv
<1>2. /\ IsFiniteSet(OrdersIn(RateWindow)) /\ Cardinality(OrdersIn(RateWindow)) \in Nat
      /\ OrdersIn(RateWindow) \subseteq RecentOrders /\ Cardinality(RecentOrders) \in Nat
      /\ Cardinality(OrdersIn(RateWindow)) <= Cardinality(RecentOrders)
      /\ Cardinality(OrdersIn(RateWindow)) + inFlight <= MaxOrders + Unseen
      /\ OrdersIn(RateWindow) \subseteq orderTimestamps
  BY WindowFinite DEF RateInv
<1>3. CASE LedgerKept
  <2>1. OrdersIn(RateWindow)' \subseteq OrdersIn(RateWindow)
    BY <1>0, <1>3 DEF LedgerKept, OrdersIn
  <2>2. OrdersIn(RateWindow)' \subseteq orderTimestamps'
    BY <1>2, <1>3, <2>1 DEF LedgerKept
  <2>3. /\ Cardinality(OrdersIn(RateWindow)') \in Nat
        /\ Cardinality(OrdersIn(RateWindow)') <= Cardinality(OrdersIn(RateWindow))
    BY <1>2, <2>1, FS_Subset, FS_CardinalityType
  <2>4. CASE inFlight' = inFlight \/ (inFlight > 0 /\ inFlight' = inFlight - 1)
    <3>1. Cardinality(OrdersIn(RateWindow)') + inFlight' <= MaxOrders + Unseen
      BY <1>0, <1>2, <2>3, <2>4
    <3> QED BY <1>1, <2>2, <3>1 DEF RateInv
  <2>5. CASE ~RateLimited /\ inFlight < MaxInFlight /\ inFlight' = inFlight + 1
    <3>1. inFlight' \in Nat /\ inFlight' <= Unseen + 1
      BY <1>0, <2>5
    <3>2. Cardinality(OrdersIn(RateWindow)') <= MaxOrders - 1
      BY <1>0, <1>2, <2>3, <2>5 DEF RateLimited
    <3>3. Cardinality(OrdersIn(RateWindow)') + inFlight' <= MaxOrders + Unseen
      BY <1>0, <2>3, <3>1, <3>2
    <3> QED BY <1>1, <2>2, <3>3 DEF RateInv
  <2> QED BY <1>3, <2>4, <2>5 DEF LedgerKept
<1>4. CASE LoopOrders
  <2>1. /\ orders' = orders \cup {NewOrder(tick')} /\ now' = now /\ inFlight' = inFlight
        /\ orderTimestamps' = RecentOrders \cup {NewOrder(tick')}
        /\ tick' \in Nat
    BY <1>4 DEF LoopOrders, Typed, TypeOK
  <2>2. inFlight <= Unseen
    BY <1>0, <1>4 DEF LoopOrders, Unseen
  <2>3. Cardinality(RecentOrders) < MaxOrders
    BY <1>0, <1>2, <1>4 DEF LoopOrders, RateLimited
  <2>4. /\ OrdersIn(RateWindow)' = OrdersIn(RateWindow) \cup {NewOrder(tick')}
        /\ Cardinality(OrdersIn(RateWindow)') = Cardinality(OrdersIn(RateWindow)) + 1
    BY <2>1, WindowGrows
  <2>5. OrdersIn(RateWindow)' \subseteq orderTimestamps'
    BY <1>2, <2>1, <2>4
  <2>6. Cardinality(OrdersIn(RateWindow)') + inFlight' <= MaxOrders + Unseen
    BY <1>0, <1>2, <2>1, <2>2, <2>3, <2>4
  <2> QED BY <1>1, <2>5, <2>6 DEF RateInv
<1>5. CASE SafeOrderDone
  <2>1. /\ orders' = orders \cup {NewOrder(None)} /\ now' = now
        /\ inFlight > 0 /\ inFlight' = inFlight - 1
        /\ orderTimestamps' = orderTimestamps \cup {NewOrder(None)}
    BY <1>5 DEF SafeOrderDone
  <2>2. /\ OrdersIn(RateWindow)' = OrdersIn(RateWindow) \cup {NewOrder(None)}
        /\ Cardinality(OrdersIn(RateWindow)') = Cardinality(OrdersIn(RateWindow)) + 1
    BY <2>1, WindowGrows
  <2>3. OrdersIn(RateWindow)' \subseteq orderTimestamps'
    BY <1>2, <2>1, <2>2
  <2>4. Cardinality(OrdersIn(RateWindow)') + inFlight' <= MaxOrders + Unseen
    BY <1>0, <1>2, <2>1, <2>2
  <2> QED BY <1>1, <2>3, <2>4 DEF RateInv
<1> QED BY <1>3, <1>4, <1>5, LedgerStep DEF LedgerChange

LEMMA RateInit == Init => RateInv
<1> SUFFICES ASSUME Init PROVE RateInv
  OBVIOUS
<1>1. OrdersIn(RateWindow) = {} /\ inFlight = 0 /\ Numbered
  BY DEF Init, OrdersIn, Numbered
<1>2. Cardinality({}) = 0
  BY FS_EmptySet
<1>3. Cardinality(OrdersIn(RateWindow)) + inFlight <= MaxOrders + Unseen
  BY <1>1, <1>2, LimitsAssumption, InputsAssumption DEF Unseen
<1> QED BY <1>1, <1>3 DEF RateInv

\* No window of RateWindow units ever holds more than MaxOrders recorded orders and one
\* for each task of execute_safe_order() that was unseen, whoever calls and prunes.
THEOREM RateIsLimited == Spec => []RateLimit
<1>1. Typed /\ RateInv => RateLimit
  <2> SUFFICES ASSUME Typed, RateInv PROVE RateLimit
    OBVIOUS
  <2>1. /\ Cardinality(OrdersIn(RateWindow)) \in Nat /\ inFlight \in Nat
        /\ MaxOrders \in Nat /\ Unseen \in Int
    BY WindowFinite, LimitsAssumption, InputsAssumption DEF RateInv, Typed, TypeOK, Unseen
  <2> QED BY <2>1 DEF RateInv, RateLimit
<1>2. Typed /\ RateInv /\ [Next]_vars => RateInv'
  BY RateStep
<1> QED BY <1>1, <1>2, TypedInit, TypedStep, RateInit, PTL DEF Spec

-----------------------------------------------------------------------------
\* The gate counts with its own instance of FiniteSets.
LEMMA GateCounts == \A S : Gate!Cardinality(S) = Cardinality(S)
BY DEF Gate!Cardinality, Cardinality, Gate!IsFiniteSet, IsFiniteSet

\* One step of a guardian driven by its loop is a step of the gate, or none.
LEMMA GateStep ==
    ASSUME MaxInFlight = 0, Typed, RateInv, [Next]_vars
    PROVE  [Gate!Next]_(Gate!vars)
<1>0. TypeOK /\ HaltChange /\ LedgerChange /\ halt \in HaltRecord
  BY HaltStep, LedgerStep DEF Typed, TypeOK
<1>1. CASE LedgerKept
  <2>1. orders' = orders
    BY <1>1 DEF LedgerKept
  <2>2. CASE halt' = halt /\ now' \in {now, now + 1}
    BY <2>1, <2>2 DEF Gate!Next, Gate!Advance, Gate!vars
  <2>3. CASE now' = now /\ halt' = Running
    <3>1. halt'.halted = FALSE /\ halt.halted \in BOOLEAN
      BY <1>0, <2>3 DEF Running, HaltRecord
    <3> QED BY <2>1, <2>3, <3>1 DEF Gate!Next, Gate!Resume, Gate!vars
  <2>4. ASSUME NEW reason \in Reasons, now' = now, halt' = Tripped(reason)
        PROVE  [Gate!Next]_(Gate!vars)
    <3>1. halt'.halted = TRUE
      BY <2>4 DEF Tripped
    <3> QED BY <2>1, <2>4, <3>1 DEF Gate!Next, Gate!Trip
  <2>5. CASE now' = now /\ halt' = [halt EXCEPT !.lastAlertAt = now]
    <3>1. halt'.halted = halt.halted
      BY <1>0, <2>5 DEF HaltRecord
    <3> QED BY <2>1, <2>5, <3>1 DEF Gate!vars
  <2> QED BY <1>0, <2>2, <2>3, <2>4, <2>5 DEF HaltChange
<1>2. CASE LoopOrders
  <2>1. /\ ~halt.halted /\ halt' = halt /\ now' = now /\ ~RateLimited
        /\ orders' = orders \cup {NewOrder(tick')}
    BY <1>2 DEF LoopOrders
  <2>2. Gate!Recent = OrdersIn(RateWindow)
    BY DEF Gate!Recent, OrdersIn
  <2>3. Cardinality(Gate!Recent) < MaxOrders
    <3>1. /\ Cardinality(OrdersIn(RateWindow)) \in Nat /\ Cardinality(RecentOrders) \in Nat
          /\ Cardinality(OrdersIn(RateWindow)) <= Cardinality(RecentOrders)
          /\ MaxOrders \in Nat
      BY WindowFinite, LimitsAssumption DEF RateInv
    <3>2. Cardinality(RecentOrders) < MaxOrders
      BY <2>1, <3>1 DEF RateLimited
    <3> QED BY <2>2, <3>1, <3>2
  <2>4. NewOrder(tick').no = Cardinality(orders) /\ NewOrder(tick').at = now
    BY DEF NewOrder
  <2>5. Gate!Admit
    BY <2>1, <2>3, <2>4, GateCounts DEF Gate!Admit
  <2> QED BY <2>5 DEF Gate!Next
<1>3. CASE SafeOrderDone
  BY <1>3 DEF SafeOrderDone, Typed, TypeOK
<1> QED BY <1>0, <1>1, <1>2, <1>3 DEF LedgerChange

\* The guardian of a trading loop implements the abstract gate: orders only while the
\* latch is open, the latch opened by an operator alone, the sliding budget kept.
THEOREM GuardianImplementsGate ==
    ASSUME MaxInFlight = 0
    PROVE  Spec => ImplementsGate
<1>1. Init => Gate!Init
  BY DEF Init, Gate!Init, Running
<1>2. Typed /\ RateInv /\ [Next]_vars => RateInv'
  BY RateStep
<1>3. Typed /\ RateInv /\ [Next]_vars => [Gate!Next]_(Gate!vars)
  BY GateStep
<1> QED BY <1>1, <1>2, <1>3, TypedInit, TypedStep, RateInit, PTL
        DEF Spec, ImplementsGate, Gate!Spec
-----------------------------------------------------------------------------
\* The reset and the check as threads: GuardianOperations.
LoopState == [op : {"none", "trip", "remind"}, step : 0 .. 8, reason : Reasons \cup {None}]

Threads ==
    /\ now \in Nat /\ halt \in HaltRecord
    /\ loop \in LoopState /\ panel \in [Workers -> 0 .. 8]
    /\ owed \in BOOLEAN /\ overlapped \in BOOLEAN

Tripping(step) == loop.op = "trip" /\ loop.step = step
Clearing       == \E w \in Workers : panel[w] \in 1 .. 3   \* _halted not yet assigned
Lowering       == \E w \in Workers : panel[w] = 4          \* about to lower is_halted

Alone == \A u, w \in Workers : panel[u] # 0 /\ panel[w] # 0 => u = w

\* Where the loop and a lone reset may be.  A reset is accepted only with both flags
\* up and a trip begins only with _halted down, so they never start against each other.
FlagsFollow ==
    /\ halt.isHalted /\ ~halt.halted => Lowering
    /\ Clearing => halt.halted /\ halt.isHalted /\ ~owed
    /\ Tripping(1) => ~halt.halted /\ ~Clearing
    /\ Tripping(2) => halt.halted /\ ~Clearing /\ (halt.isHalted => Lowering)
    /\ owed /\ ~halt.halted => Tripping(1)

OpsInv == Threads /\ (overlapped \/ (Alone /\ FlagsFollow))

-----------------------------------------------------------------------------
LEMMA RunningIsAHalt == Running \in HaltRecord /\ ~Running.halted /\ ~Running.isHalted
BY DEF Running, HaltRecord

LEMMA OutsideIsALoop == OutsideCheck \in LoopState /\ OutsideCheck.op = "none"
BY DEF OutsideCheck, LoopState

\* One assignment of _trigger_halt() or reset_halt() changes its field alone.
LEMMA OneField ==
    ASSUME halt \in HaltRecord, NEW k \in 1 .. 6, NEW v,
           k \in {1, 2} => v \in BOOLEAN,
           k \in {3, 4} => v \in Reasons \cup {None},
           k \in {5, 6} => v \in Nat \cup {None},
           halt' = [halt EXCEPT ![Fields[k]] = v]
    PROVE  /\ halt' \in HaltRecord
           /\ k = 1 => halt'.halted = v /\ halt'.isHalted = halt.isHalted
           /\ k = 2 => halt'.halted = halt.halted /\ halt'.isHalted = v
           /\ k \in 3 .. 6 => halt'.halted = halt.halted /\ halt'.isHalted = halt.isHalted
<1>1. CASE k = 1
  <2>1. halt' = [halt EXCEPT !.halted = v]
    BY <1>1 DEF Fields
  <2> QED BY <1>1, <2>1 DEF HaltRecord
<1>2. CASE k = 2
  <2>1. halt' = [halt EXCEPT !.isHalted = v]
    BY <1>2 DEF Fields
  <2> QED BY <1>2, <2>1 DEF HaltRecord
<1>3. CASE k = 3
  <2>1. halt' = [halt EXCEPT !.reason = v]
    BY <1>3 DEF Fields
  <2> QED BY <1>3, <2>1 DEF HaltRecord
<1>4. CASE k = 4
  <2>1. halt' = [halt EXCEPT !.message = v]
    BY <1>4 DEF Fields
  <2> QED BY <1>4, <2>1 DEF HaltRecord
<1>5. CASE k = 5
  <2>1. halt' = [halt EXCEPT !.triggeredAt = v]
    BY <1>5 DEF Fields
  <2> QED BY <1>5, <2>1 DEF HaltRecord
<1>6. CASE k = 6
  <2>1. halt' = [halt EXCEPT !.lastAlertAt = v]
    BY <1>6 DEF Fields
  <2> QED BY <1>6, <2>1 DEF HaltRecord
<1> QED BY <1>1, <1>2, <1>3, <1>4, <1>5, <1>6

\* What the two threads assign, field by field.
LEMMA TripFlags ==
    ASSUME NEW reason, NEW k \in {1, 2}
    PROVE  Tripped(reason)[Fields[k]] = TRUE
<1>1. Fields[k] = "halted" \/ Fields[k] = "isHalted"
  BY DEF Fields
<1> QED BY <1>1 DEF Tripped

LEMMA TripReasons ==
    ASSUME NEW reason, NEW k \in {3, 4}
    PROVE  Tripped(reason)[Fields[k]] = reason
<1>1. Fields[k] = "reason" \/ Fields[k] = "message"
  BY DEF Fields
<1> QED BY <1>1 DEF Tripped

LEMMA TripTime == \A reason : Tripped(reason)[Fields[5]] = now
<1>1. Fields[5] = "triggeredAt"
  BY DEF Fields
<1> QED BY <1>1 DEF Tripped

LEMMA ResetValues ==
    ASSUME NEW k \in 1 .. 6
    PROVE  /\ k \in {1, 2} => Running[Fields[k]] = FALSE
           /\ k \in 3 .. 6 => Running[Fields[k]] = None
<1>1. ASSUME k \in {1, 2} PROVE Running[Fields[k]] = FALSE
  <2>1. Fields[k] = "halted" \/ Fields[k] = "isHalted"
    BY <1>1 DEF Fields
  <2> QED BY <2>1 DEF Running
<1>2. ASSUME k \in 3 .. 6 PROVE Running[Fields[k]] = None
  <2>1. Fields[k] \in {"reason", "message", "triggeredAt", "lastAlertAt"}
    BY <1>2 DEF Fields
  <2> QED BY <2>1 DEF Running
<1> QED BY <1>1, <1>2

-----------------------------------------------------------------------------
LEMMA OpsInvInit == OpsInit => OpsInv
<1> SUFFICES ASSUME OpsInit PROVE OpsInv
  OBVIOUS
<1>1. /\ now = 0 /\ halt = Running /\ loop = OutsideCheck
      /\ panel = [w \in Workers |-> 0] /\ owed = FALSE /\ overlapped = FALSE
  BY DEF OpsInit, Init
<1>2. panel \in [Workers -> 0 .. 8] /\ now \in Nat
  BY <1>1
<1>3. owed \in BOOLEAN /\ overlapped \in BOOLEAN
  BY <1>1
<1>4. Threads
  BY <1>1, <1>2, <1>3, RunningIsAHalt, OutsideIsALoop DEF Threads
<1>5. ~Clearing /\ ~Lowering /\ Alone
  BY <1>1 DEF Clearing, Lowering, Alone
<1> QED BY <1>1, <1>4, <1>5, RunningIsAHalt, OutsideIsALoop DEF OpsInv, FlagsFollow, Tripping

\* A step that leaves the flags and the panel alone, and is not inside a trip.
LEMMA FlagsAlone ==
    ASSUME OpsInv, Threads', halt'.halted = halt.halted, halt'.isHalted = halt.isHalted,
           UNCHANGED <<panel, overlapped>>,
           \/ UNCHANGED <<loop, owed>>
           \/ ~Tripping(1) /\ ~Tripping(1)' /\ ~Tripping(2)' /\ UNCHANGED owed
    PROVE  OpsInv'
BY DEF OpsInv, FlagsFollow, Alone, Tripping, Clearing, Lowering

LEMMA CheckStep ==
    ASSUME OpsInv, NEW target, NEW equity, NEW drawdown, NEW stale,
           LoopCheck(target, equity, drawdown, stale)
    PROVE  OpsInv'
<1>1. UNCHANGED <<now, halt, panel, overlapped>> /\ loop.op = "none"
  BY DEF LoopCheck
<1>2. CASE LoopHalted
  <2>1. loop' = [op |-> "remind", step |-> 6, reason |-> None] /\ UNCHANGED owed
    BY <1>2 DEF LoopHalted
  <2>2. Threads'
    BY <1>1, <2>1 DEF OpsInv, Threads, LoopState
  <2> QED BY <1>1, <2>1, <2>2, FlagsAlone DEF Tripping
<1>3. CASE LoopRunning(target, equity, drawdown, stale)
  <2>1. PICK reason \in Reasons \cup {None} :
            /\ ~halt.halted
            /\ loop' = IF reason = None THEN OutsideCheck
                       ELSE [op |-> "trip", step |-> 1, reason |-> reason]
            /\ owed' = (owed \/ reason # None)
    BY <1>3 DEF LoopRunning
  <2>2. CASE reason = None
    <3>1. owed' = owed /\ loop' = OutsideCheck
      BY <2>1, <2>2 DEF OpsInv, Threads
    <3>2. Threads'
      BY <1>1, <3>1, OutsideIsALoop DEF OpsInv, Threads
    <3> QED BY <1>1, <3>1, <3>2, OutsideIsALoop, FlagsAlone DEF Tripping
  <2>3. CASE reason # None
    <3>1. owed' = TRUE /\ loop' = [op |-> "trip", step |-> 1, reason |-> reason]
      BY <2>1, <2>3
    <3>2. Threads'
      BY <1>1, <3>1 DEF OpsInv, Threads, LoopState
    <3> QED BY <1>1, <2>1, <3>1, <3>2 DEF OpsInv, FlagsFollow, Alone, Tripping, Clearing, Lowering
  <2> QED BY <2>2, <2>3
<1> QED BY <1>2, <1>3 DEF LoopCheck

LEMMA TripStep ==
    ASSUME OpsInv, LoopTripField, UNCHANGED <<now, panel, owed, overlapped>>
    PROVE  OpsInv'
<1> PICK k \in 1 .. 6 : k = loop.step
  BY DEF LoopTripField
<1> DEFINE v == IF k = 6 THEN halt.triggeredAt ELSE Tripped(loop.reason)[Fields[k]]
<1>1. /\ loop.op = "trip" /\ loop.step = k
      /\ halt' = [halt EXCEPT ![Fields[k]] = v]
      /\ loop' = [loop EXCEPT !.step = @ + 1]
  BY DEF LoopTripField
<1>2. loop.reason \in Reasons \cup {None} /\ now \in Nat
      /\ halt \in HaltRecord /\ halt.triggeredAt \in Nat \cup {None}
  BY DEF OpsInv, Threads, LoopState, HaltRecord
<1>3. /\ k \in {1, 2} => v = TRUE
      /\ k \in {3, 4} => v \in Reasons \cup {None}
      /\ k \in {5, 6} => v \in Nat \cup {None}
  <2>1. k \in 1 .. 5 => v = Tripped(loop.reason)[Fields[k]]
    OBVIOUS
  <2>2. k = 6 => v = halt.triggeredAt
    OBVIOUS
  <2> HIDE DEF v
  <2>3. ASSUME k \in {1, 2} PROVE v = TRUE
    <3>1. v = Tripped(loop.reason)[Fields[k]]
      BY <2>1, <2>3
    <3>2. Tripped(loop.reason)[Fields[k]] = TRUE
      BY <2>3, TripFlags
    <3> QED BY <3>1, <3>2, Zenon
  <2>4. ASSUME k \in {3, 4} PROVE v \in Reasons \cup {None}
    BY <1>2, <2>1, <2>4, TripReasons
  <2>5. ASSUME k \in {5, 6} PROVE v \in Nat \cup {None}
    BY <1>2, <2>1, <2>2, <2>5, TripTime
  <2> QED BY <2>3, <2>4, <2>5
<1>4. loop' \in LoopState /\ loop'.op = "trip" /\ loop'.step = k + 1
  BY <1>1 DEF OpsInv, Threads, LoopState
<1> HIDE DEF v
<1>5. /\ halt' \in HaltRecord
      /\ k = 1 => halt'.halted = TRUE /\ halt'.isHalted = halt.isHalted
      /\ k = 2 => halt'.halted = halt.halted /\ halt'.isHalted = TRUE
      /\ k \in 3 .. 6 => halt'.halted = halt.halted /\ halt'.isHalted = halt.isHalted
  <2>1. k \in {1, 2} => v \in BOOLEAN
    BY <1>3
  <2>2. /\ halt' \in HaltRecord
        /\ k = 1 => halt'.halted = v /\ halt'.isHalted = halt.isHalted
        /\ k = 2 => halt'.halted = halt.halted /\ halt'.isHalted = v
        /\ k \in 3 .. 6 => halt'.halted = halt.halted /\ halt'.isHalted = halt.isHalted
    BY <1>1, <1>2, <1>3, <2>1, OneField
  <2> QED BY <1>3, <2>2
<1>6. Threads'
  BY <1>4, <1>5 DEF OpsInv, Threads
<1>7. CASE k = 1
  BY <1>1, <1>4, <1>5, <1>6, <1>7 DEF OpsInv, FlagsFollow, Alone, Tripping, Clearing, Lowering
<1>8. CASE k = 2
  BY <1>1, <1>4, <1>5, <1>6, <1>8 DEF OpsInv, FlagsFollow, Alone, Tripping, Clearing, Lowering
<1>9. CASE k \in 3 .. 6
  <2>1. halt'.halted = halt.halted /\ halt'.isHalted = halt.isHalted
    BY <1>5, <1>9
  <2>2. ~Tripping(1) /\ ~Tripping(1)' /\ ~Tripping(2)'
    BY <1>1, <1>4, <1>9 DEF Tripping
  <2> QED BY <1>6, <2>1, <2>2, FlagsAlone
<1> QED BY <1>7, <1>8, <1>9

LEMMA OtherLoopSteps ==
    ASSUME OpsInv, LoopRemind \/ LoopFireAlert, UNCHANGED <<now, panel, owed, overlapped>>
    PROVE  OpsInv'
<1>1. halt' \in HaltRecord /\ halt'.halted = halt.halted /\ halt'.isHalted = halt.isHalted
  BY DEF OpsInv, Threads, LoopRemind, LoopFireAlert, HaltRecord
<1>2. loop' \in LoopState
  BY OutsideIsALoop DEF OpsInv, Threads, LoopRemind, LoopFireAlert, LoopState, HaltRecord
<1>3. ~Tripping(1) /\ ~Tripping(1)' /\ ~Tripping(2)'
  BY OutsideIsALoop DEF OpsInv, Threads, LoopState, LoopRemind, LoopFireAlert, Tripping
<1>4. Threads'
  BY <1>1, <1>2 DEF OpsInv, Threads
<1> QED BY <1>1, <1>3, <1>4, FlagsAlone

LEMMA AcceptStep ==
    ASSUME OpsInv, NEW w \in Workers, PanelAccept(w)
    PROVE  OpsInv'
<1>1. /\ panel[w] = 0 /\ panel' = [panel EXCEPT ![w] = 1] /\ owed' = FALSE /\ halt.isHalted
      /\ UNCHANGED <<now, halt, loop>> /\ overlapped' = (overlapped \/ Resetting # {})
  BY DEF PanelAccept, vars
<1>2. Threads'
  <2>1. panel' \in [Workers -> 0 .. 8]
    BY <1>1 DEF OpsInv, Threads
  <2>2. owed' \in BOOLEAN
    BY <1>1
  <2>3. overlapped' \in BOOLEAN
    BY <1>1
  <2> QED BY <1>1, <2>1, <2>2, <2>3 DEF OpsInv, Threads
<1>3. CASE overlapped'
  BY <1>2, <1>3 DEF OpsInv
<1>4. CASE ~overlapped /\ Resetting = {}
  <2>1. \A u \in Workers : panel[u] = 0 /\ (u # w => panel'[u] = 0)
    BY <1>1, <1>4 DEF Resetting, OpsInv, Threads
  <2>2. ~Clearing /\ ~Lowering /\ Alone'
    BY <2>1 DEF Clearing, Lowering, Alone
  <2> QED BY <1>1, <1>2, <1>4, <2>2 DEF OpsInv, FlagsFollow, Tripping
<1> QED BY <1>1, <1>3, <1>4 DEF OpsInv, Threads

LEMMA ResetStep ==
    ASSUME OpsInv, NEW w \in Workers, PanelStep(w)
    PROVE  OpsInv'
<1>1. /\ panel[w] \in 1 .. 8 /\ panel' = [panel EXCEPT ![w] = (panel[w] + 1) % 9]
      /\ UNCHANGED <<now, loop, owed, overlapped>>
  BY DEF OpsInv, Threads, PanelStep
<1>2. panel' = [panel EXCEPT ![w] = IF panel[w] = 8 THEN 0 ELSE panel[w] + 1]
  <2>1. (panel[w] + 1) % 9 = IF panel[w] = 8 THEN 0 ELSE panel[w] + 1
    BY <1>1
  <2> QED BY <1>1, <2>1, Zenon
<1>3. panel' \in [Workers -> 0 .. 8]
  BY <1>1, <1>2 DEF OpsInv, Threads
<1>4. ASSUME ~overlapped
      PROVE  /\ Clearing <=> panel[w] \in 1 .. 3
             /\ Lowering <=> panel[w] = 4
             /\ Clearing' <=> panel[w] \in 1 .. 2
             /\ Lowering' <=> panel[w] = 3
             /\ Alone' /\ FlagsFollow
  <2>1. Alone /\ FlagsFollow /\ panel \in [Workers -> 0 .. 8]
    BY <1>4 DEF OpsInv, Threads
  <2>2. \A u \in Workers : u # w => panel[u] = 0 /\ panel'[u] = 0
    BY <1>1, <1>2, <2>1 DEF Alone
  <2>3. panel'[w] = IF panel[w] = 8 THEN 0 ELSE panel[w] + 1
    BY <1>2, <2>1
  <2>4. Alone'
    BY <2>2 DEF Alone
  <2>5. (Clearing <=> panel[w] \in 1 .. 3) /\ (Lowering <=> panel[w] = 4)
    <3>1. \A u \in Workers : panel[u] \in 1 .. 4 => u = w
      BY <2>2
    <3> QED BY <3>1 DEF Clearing, Lowering
  <2>6. (Clearing' <=> panel'[w] \in 1 .. 3) /\ (Lowering' <=> panel'[w] = 4)
    <3>1. \A u \in Workers : panel'[u] \in 1 .. 4 => u = w
      BY <2>2
    <3> QED BY <3>1 DEF Clearing, Lowering
  <2> QED BY <1>1, <2>1, <2>3, <2>4, <2>5, <2>6
<1>5. CASE panel[w] \in {1, 2}
  <2>1. UNCHANGED halt
    BY <1>5 DEF PanelStep
  <2>2. Threads'
    BY <1>1, <1>3, <2>1 DEF OpsInv, Threads
  <2> QED BY <1>1, <1>4, <1>5, <2>1, <2>2 DEF OpsInv, FlagsFollow, Tripping
<1>6. CASE panel[w] \in 3 .. 8
  <2> PICK k \in 1 .. 6 : k = panel[w] - 2
    BY <1>6
  <2>1. halt' = [halt EXCEPT ![Fields[k]] = Running[Fields[k]]]
    BY <1>6 DEF PanelStep
  <2>2. /\ k \in {1, 2} => Running[Fields[k]] = FALSE
        /\ k \in 3 .. 6 => Running[Fields[k]] = None
    BY ResetValues
  <2>3. halt \in HaltRecord
    BY DEF OpsInv, Threads
  <2>4. /\ halt' \in HaltRecord
        /\ k = 1 => halt'.halted = FALSE /\ halt'.isHalted = halt.isHalted
        /\ k = 2 => halt'.halted = halt.halted /\ halt'.isHalted = FALSE
        /\ k \in 3 .. 6 => halt'.halted = halt.halted /\ halt'.isHalted = halt.isHalted
    <3> DEFINE v == Running[Fields[k]]
    <3>1. k \in {1, 2} => v = FALSE
      BY <2>2
    <3>2. k \in 3 .. 6 => v = None
      BY <2>2
    <3>3. halt' = [halt EXCEPT ![Fields[k]] = v]
      BY <2>1
    <3> HIDE DEF v
    <3>4. k \in {1, 2} => v \in BOOLEAN
      BY <3>1
    <3>5. (k \in {3, 4} => v \in Reasons \cup {None}) /\ (k \in {5, 6} => v \in Nat \cup {None})
      BY <3>2
    <3>6. /\ halt' \in HaltRecord
          /\ k = 1 => halt'.halted = v /\ halt'.isHalted = halt.isHalted
          /\ k = 2 => halt'.halted = halt.halted /\ halt'.isHalted = v
          /\ k \in 3 .. 6 => halt'.halted = halt.halted /\ halt'.isHalted = halt.isHalted
      BY <2>3, <3>3, <3>4, <3>5, OneField
    <3> QED BY <3>1, <3>6
  <2>5. Threads'
    BY <1>1, <1>3, <2>4 DEF OpsInv, Threads
  <2>6. /\ panel[w] = 3 <=> k = 1
        /\ panel[w] = 4 <=> k = 2
        /\ panel[w] \in 5 .. 8 <=> k \in 3 .. 6
    BY <1>1
  <2>7. CASE overlapped
    BY <1>1, <2>5, <2>7 DEF OpsInv
  <2>8. ASSUME ~overlapped PROVE Alone' /\ FlagsFollow'
    <3>1. CASE k = 1
      BY <1>1, <1>4, <2>4, <2>6, <2>8, <3>1 DEF FlagsFollow, Tripping
    <3>2. CASE k = 2
      BY <1>1, <1>4, <2>4, <2>6, <2>8, <3>2 DEF FlagsFollow, Tripping
    <3>3. CASE k \in 3 .. 6
      BY <1>1, <1>4, <2>4, <2>6, <2>8, <3>3 DEF FlagsFollow, Tripping
    <3> QED BY <3>1, <3>2, <3>3
  <2> QED BY <2>5, <2>7, <2>8 DEF OpsInv
<1> QED BY <1>1, <1>5, <1>6

LEMMA RestartStep ==
    ASSUME OpsInv, Restart
    PROVE  OpsInv'
<1>1. /\ halt' = Running /\ loop' = OutsideCheck /\ panel' = [w \in Workers |-> 0]
      /\ owed' = FALSE /\ overlapped' = FALSE /\ now' = now
  BY DEF Restart
<1>2. panel' \in [Workers -> 0 .. 8]
  BY <1>1
<1>3. owed' \in BOOLEAN /\ overlapped' \in BOOLEAN
  BY <1>1
<1>4. Threads'
  BY <1>1, <1>2, <1>3, RunningIsAHalt, OutsideIsALoop DEF OpsInv, Threads
<1>5. ~Clearing' /\ ~Lowering' /\ Alone'
  BY <1>1 DEF Clearing, Lowering, Alone
<1> QED BY <1>1, <1>4, <1>5, RunningIsAHalt, OutsideIsALoop DEF OpsInv, FlagsFollow, Tripping

LEMMA OpsInvNext == OpsInv /\ [OpsNext]_opsVars => OpsInv'
<1> SUFFICES ASSUME OpsInv, [OpsNext]_opsVars PROVE OpsInv'
  OBVIOUS
<1>1. CASE LoopStep
  BY <1>1, TripStep, OtherLoopSteps DEF LoopStep
<1>2. CASE Outside
  <2>1. now' \in {now, now + 1} /\ UNCHANGED <<halt, loop, panel, owed, overlapped>>
    BY <1>2 DEF Outside, Tick, ToggleKillSwitch
  <2>2. Threads'
    BY <2>1 DEF OpsInv, Threads
  <2> QED BY <2>1, <2>2, FlagsAlone
<1>3. CASE UNCHANGED opsVars
  <2>1. UNCHANGED <<now, halt, loop, panel, owed, overlapped>>
    BY <1>3 DEF opsVars, vars
  <2>2. Threads'
    BY <2>1 DEF OpsInv, Threads
  <2> QED BY <2>1, <2>2, FlagsAlone
<1> QED BY <1>1, <1>2, <1>3, CheckStep, AcceptStep, ResetStep, RestartStep DEF OpsNext

-----------------------------------------------------------------------------
\* However halts, checks and resets interleave: once all threads are out, a guardian
\* the panel shows as halted refuses orders, in a process where no two resets overlapped.
THEOREM DriftStaysSafe == OpsSpec => []DriftIsFailSafe
<1>1. OpsInv => DriftIsFailSafe
  BY DEF OpsInv, FlagsFollow, Lowering, DriftIsFailSafe, Quiet, Resetting
<1> QED BY <1>1, OpsInvInit, OpsInvNext, PTL DEF OpsSpec

\* A halt raised after the last accepted reset still holds when all threads are out,
\* whatever of that reset was still running when it was raised, in such a process.
THEOREM NewerHaltsStay == OpsSpec => []HaltNotLost
<1>1. OpsInv => HaltNotLost
  BY DEF OpsInv, FlagsFollow, HaltNotLost, Quiet, Tripping
<1> QED BY <1>1, OpsInvInit, OpsInvNext, PTL DEF OpsSpec
=============================================================================
