---------------------- MODULE LiveExchangeBridgeProofs ----------------------
(* Proofs about LiveExchangeBridge, for every account, price and fault set. *)
EXTENDS LiveExchangeBridge, TLAPS

\* update_equity keeps the accounting record a record of integers.
LEMMA UpdateEquityTyped ==
    ASSUME BridgeTypeOK, NEW cash \in Int, NEW equity \in Int
    PROVE  /\ UpdateAccounting(cash, equity) \in [cash : Int, equity : Int, peak : Int, drawdown : Int]
           /\ UpdateAccounting(cash, equity).cash = cash
<1> DEFINE peak == Larger(accounting.peak, equity)
<1>1. accounting.peak \in Int /\ accounting.drawdown \in Int
  BY DEF BridgeTypeOK
<1>2. peak \in Int
  BY <1>1 DEF Larger
<1>3. ASSUME peak > 0 PROVE ((peak - equity) * 100) \div peak \in Int
  <2>1. (peak - equity) * 100 \in Int
    BY <1>2
  <2> HIDE DEF peak
  <2> QED BY <1>2, <1>3, <2>1
<1>4. (IF peak > 0 THEN Larger(accounting.drawdown, ((peak - equity) * 100) \div peak)
                   ELSE accounting.drawdown) \in Int
  <2> HIDE DEF peak
  <2> QED BY <1>1, <1>3 DEF Larger
<1> HIDE DEF peak
<1>5. UpdateAccounting(cash, equity) =
         [cash |-> cash, equity |-> equity, peak |-> peak,
          drawdown |-> IF peak > 0
                       THEN Larger(accounting.drawdown, ((peak - equity) * 100) \div peak)
                       ELSE accounting.drawdown]
  BY DEF UpdateAccounting, peak
<1> QED BY <1>2, <1>4, <1>5

LEMMA SettleTyped ==
    ASSUME BridgeTypeOK, NEW qty \in Int, NEW fee \in Fees, Affordable(qty, fee), Settle(qty, fee)
    PROVE  /\ account' \in [base : Nat, cash : Nat]
           /\ account'.base = account.base + qty
           /\ account'.cash = account.cash - (qty * price + fee)
           /\ rec' = [rec EXCEPT !.clean = FALSE]
<1>1. account.base \in Nat /\ account.cash \in Nat /\ price \in Nat /\ fee \in Nat
  BY BridgeAssumption DEF BridgeTypeOK
<1>2. qty * price \in Int
  BY <1>1
<1>3. account.base + qty \in Nat /\ account.cash - (qty * price + fee) \in Nat
  BY <1>1, <1>2 DEF Affordable
<1> QED BY <1>3 DEF Settle, Dirtied

RecSet == [pc : {"off", "asking", "base", "both", "sleeping"},
           base : Nat, cash : Nat, clean : BOOLEAN]
FillSet == [qty : Int, price : Nat, fee : Nat]
OrdSet == [pc : {"idle", "sent", "answered"}, delta : Int, fill : FillSet]

\* The facts the cause of a drift rests on: what a clean reconcile has read is still
\* true, and an order that has not been answered carries no fill.
ReadsHold ==
    /\ rec.pc \in {"base", "both"} /\ rec.clean => rec.base = account.base
    /\ rec.pc = "both" /\ rec.clean => rec.cash = account.cash
NoEarlyFill == ord.pc = "sent" => ord.fill = NoFill
Blind == "unreconciled" \in drift => ord.pc = "idle" /\ accounting.equity = 0

Inv == BridgeTypeOK /\ ReadsHold /\ NoEarlyFill /\ Blind /\ DriftHasACause

LEMMA InitInv == BridgeInit => Inv
<1> SUFFICES ASSUME BridgeInit PROVE Inv
  OBVIOUS
<1>1. BridgeTypeOK
  BY BridgeAssumption DEF BridgeInit, BridgeTypeOK, Idle, NoFill, Causes
<1> QED BY <1>1 DEF BridgeInit, Inv, ReadsHold, NoEarlyFill, Blind, DriftHasACause, Idle

LEMMA Steps == Inv /\ [BridgeNext]_bridgeVars => Inv'
<1> SUFFICES ASSUME Inv, [BridgeNext]_bridgeVars PROVE Inv'
  OBVIOUS
<1> USE DEF Inv
<1>1. /\ account \in [base : Nat, cash : Nat] /\ price \in Prices /\ price \in Nat
      /\ positionQty \in Int /\ initialCash \in Int
      /\ accounting \in [cash : Int, equity : Int, peak : Int, drawdown : Int]
      /\ lastMid \in Prices \cup {NoPrice} /\ bookStale \in BOOLEAN
      /\ rec \in RecSet /\ ord \in OrdSet
      /\ placed \in 0..MaxSubmits /\ deposited \in 0..MaxDeposits
      /\ MaxSubmits \in Nat /\ MaxDeposits \in Nat
      /\ drift \subseteq Causes
  BY BridgeAssumption DEF BridgeTypeOK, RecSet, OrdSet, FillSet
<1>2. NoFill \in FillSet /\ Idle \in OrdSet
  BY DEF NoFill, FillSet, Idle, OrdSet
<1>3. ASSUME NEW twoSided \in BOOLEAN, OnDepthUpdate(twoSided) PROVE Inv'
  <2>1. rec' \in RecSet /\ (rec' = rec \/ rec'.pc = "asking")
    BY <1>1, <1>3 DEF OnDepthUpdate, RecSet
  <2> QED BY <1>1, <1>3, <2>1
          DEF OnDepthUpdate, cache, BridgeTypeOK, RecSet, OrdSet, FillSet, ReadsHold, NoEarlyFill,
              Blind, DriftHasACause, Filled
<1>4. CASE BookAges \/ MarketMoves
  BY <1>1, <1>4 DEF BookAges, MarketMoves, cache, BridgeTypeOK, ReadsHold, NoEarlyFill, Blind,
                    DriftHasACause, Filled
<1>5. ASSUME NEW amount \in Deposits, Deposit(amount) PROVE Inv'
  <2>1. amount \in Nat /\ account' \in [base : Nat, cash : Nat]
    BY <1>1, <1>5, BridgeAssumption DEF Deposit
  <2>2. rec' \in RecSet /\ rec'.clean = FALSE
    BY <1>1, <1>5 DEF Deposit, Dirtied, RecSet
  <2>3. deposited' \in 0..MaxDeposits
    BY <1>1, <1>5 DEF Deposit
  <2>4. /\ "deposit" \in drift' /\ drift' \subseteq Causes
        /\ "unreconciled" \in drift' => "unreconciled" \in drift
    BY <1>1, <1>5 DEF Deposit, Causes
  <2> QED BY <1>1, <1>5, <2>1, <2>2, <2>3, <2>4
          DEF Deposit, cache, BridgeTypeOK, RecSet, ReadsHold, NoEarlyFill, Blind, DriftHasACause, Filled
<1>6. ASSUME NEW target \in Targets, Submit(target) PROVE Inv'
  <2>1. lastMid \in Nat \ {0} /\ target \in Int
    BY <1>1, <1>6, BridgeAssumption DEF Submit, Ready, ReadyBlind
  <2>2. (target * accounting.equity) \div (100 * lastMid) \in Int
    <3>1. target * accounting.equity \in Int
      BY <1>1, <2>1
    <3>2. 100 * lastMid \in Int /\ 100 * lastMid > 0
      BY <2>1
    <3> QED BY <3>1, <3>2
  <2>3. PICK delta \in Int : ord' = [pc |-> "sent", delta |-> delta, fill |-> NoFill]
    BY <1>1, <1>6, <2>2 DEF Submit
  <2>4. placed' \in 0..MaxSubmits
    BY <1>1, <1>6 DEF Submit
  <2>5. ord' \in OrdSet /\ ord'.fill = NoFill /\ ord'.pc = "sent"
    BY <1>2, <2>3 DEF OrdSet
  <2>6. "unreconciled" \notin drift
    BY <1>1, <1>6 DEF Submit, Ready, ReadyBlind, Blind
  <2>7. ord.pc = "idle"
    BY <1>6 DEF Submit
  <2> QED BY <1>1, <1>6, <2>4, <2>5, <2>6, <2>7
          DEF Submit, cache, BridgeTypeOK, OrdSet, FillSet, ReadsHold, NoEarlyFill, Blind,
              DriftHasACause, Filled
<1>7. ASSUME NEW fee \in Fees, ExchangeFills(fee) PROVE Inv'
  <2>1. fee \in Nat /\ ord.delta \in Int /\ ord.pc = "sent"
    BY <1>1, <1>7, BridgeAssumption DEF ExchangeFills, OrdSet
  <2>2. /\ account' \in [base : Nat, cash : Nat]
        /\ account'.base = account.base + ord.delta
        /\ account'.cash = account.cash - (ord.delta * price + fee)
        /\ rec' = [rec EXCEPT !.clean = FALSE]
    BY <1>7, <2>1, SettleTyped DEF ExchangeFills
  <2>3. rec' \in RecSet /\ rec'.clean = FALSE
    BY <1>1, <2>2 DEF RecSet
  <2>4. /\ ord'.pc = "answered"
        /\ ord'.fill = [qty |-> ord.delta, price |-> price, fee |-> fee]
        /\ ord' \in OrdSet
    BY <1>1, <1>7, <2>1 DEF ExchangeFills, OrdSet, FillSet
  <2>5. ord'.fill # NoFill
    BY <1>7, <2>1, <2>4 DEF ExchangeFills, NoFill
  <2>6. DriftHasACause'
    BY <1>1, <1>7, <2>1, <2>2, <2>4, <2>5 DEF ExchangeFills, cache, DriftHasACause, Filled
  <2> QED BY <1>1, <1>7, <2>1, <2>2, <2>3, <2>4, <2>6
          DEF ExchangeFills, cache, BridgeTypeOK, RecSet, OrdSet, FillSet, ReadsHold, NoEarlyFill, Blind
<1>8. ASSUME NEW qty \in (ord.delta..-1) \cup (1..ord.delta), NEW fee \in Fees,
             ExchangeSettlesUnreported(qty, fee)
      PROVE  Inv'
  <2>1. qty \in Int /\ ord.pc = "sent"
    BY <1>1, <1>8 DEF ExchangeSettlesUnreported, OrdSet
  <2>2. account' \in [base : Nat, cash : Nat] /\ rec' = [rec EXCEPT !.clean = FALSE]
    BY <1>8, <2>1, SettleTyped DEF ExchangeSettlesUnreported
  <2>3. rec' \in RecSet /\ rec'.clean = FALSE
    BY <1>1, <2>2 DEF RecSet
  <2>4. ord' \in OrdSet /\ ord'.pc = "answered"
    BY <1>1, <1>8 DEF ExchangeSettlesUnreported, OrdSet
  <2>5. "unreported" \in drift' /\ drift' \subseteq Causes /\ "unreconciled" \notin drift'
    BY <1>1, <1>8, <2>1 DEF ExchangeSettlesUnreported, Causes, Blind
  <2> QED BY <1>1, <1>8, <2>2, <2>3, <2>4, <2>5
          DEF ExchangeSettlesUnreported, cache, BridgeTypeOK, RecSet, OrdSet, FillSet, ReadsHold,
              NoEarlyFill, Blind, DriftHasACause
<1>8b. ASSUME NEW fee \in Fees, ExchangeFillsFeeInBase(fee) PROVE Inv'
  <2>1. fee \in Nat /\ ord.delta \in Int /\ ord.pc = "sent"
    BY <1>1, <1>8b, BridgeAssumption DEF ExchangeFillsFeeInBase, OrdSet
  <2>2. /\ ord.delta * price \in Int /\ ord.delta > fee
        /\ account.cash - ord.delta * price >= 0
        /\ account' = [base |-> account.base + ord.delta - fee,
                       cash |-> account.cash - ord.delta * price]
    BY <1>1, <1>8b, <2>1 DEF ExchangeFillsFeeInBase
  <2>3. account' \in [base : Nat, cash : Nat]
    BY <1>1, <2>1, <2>2
  <2>4. rec' \in RecSet /\ rec'.clean = FALSE
    BY <1>1, <1>8b DEF ExchangeFillsFeeInBase, Dirtied, RecSet
  <2>5. ord' \in OrdSet /\ ord'.pc = "answered"
    BY <1>1, <1>8b, <2>1 DEF ExchangeFillsFeeInBase, OrdSet, FillSet
  <2>6. "base_fee" \in drift' /\ drift' \subseteq Causes /\ "unreconciled" \notin drift'
    BY <1>1, <1>8b, <2>1 DEF ExchangeFillsFeeInBase, Causes, Blind
  <2> QED BY <1>1, <1>8b, <2>3, <2>4, <2>5, <2>6
          DEF ExchangeFillsFeeInBase, cache, BridgeTypeOK, RecSet, OrdSet, FillSet, ReadsHold,
              NoEarlyFill, Blind, DriftHasACause
<1>9. CASE ExchangeRejects
  <2>1. /\ ord' \in OrdSet /\ ord'.pc = "answered" /\ ord.pc = "sent"
        /\ ord'.fill = NoFill /\ ord.fill = NoFill
    BY <1>1, <1>9 DEF ExchangeRejects, OrdSet, NoEarlyFill
  <2> QED BY <1>1, <1>9, <2>1
          DEF ExchangeRejects, cache, BridgeTypeOK, OrdSet, FillSet, ReadsHold, NoEarlyFill, Blind,
              DriftHasACause, Filled
<1>10. CASE ApplyAnswer
  <2>1. ord.pc = "answered" /\ ord' = Idle /\ ord' \in OrdSet /\ ord'.pc = "idle"
    BY <1>2, <1>10 DEF ApplyAnswer, Idle
  <2>2. "unreconciled" \notin drift
    BY <2>1 DEF Blind
  <2>3. UNCHANGED <<account, price, initialCash, lastMid, bookStale, rec, placed, deposited, drift>>
    BY <1>10 DEF ApplyAnswer
  <2>4. CASE ~Filled /\ UNCHANGED <<positionQty, accounting>>
    BY <1>1, <2>1, <2>2, <2>3, <2>4
    DEF BridgeTypeOK, OrdSet, FillSet, ReadsHold, NoEarlyFill, Blind, DriftHasACause, Filled
  <2>5. CASE Filled
    <3> DEFINE qty == positionQty + ord.fill.qty
               cash == accounting.cash - (ord.fill.qty * ord.fill.price + ord.fill.fee)
               equity == cash + qty * ord.fill.price
    <3>1. positionQty' = qty /\ accounting' = UpdateAccounting(cash, equity)
      BY <1>10, <2>5 DEF ApplyAnswer
    <3>2. ord.fill.qty \in Int /\ ord.fill.price \in Int /\ ord.fill.fee \in Int
      BY <1>1 DEF OrdSet, FillSet
    <3>3. qty \in Int /\ cash \in Int /\ equity \in Int
      BY <1>1, <3>2
    <3>4. drift = {} => qty = account.base /\ cash = account.cash
      BY <2>5 DEF DriftHasACause
    <3> HIDE DEF qty, cash, equity
    <3>5. /\ accounting' \in [cash : Int, equity : Int, peak : Int, drawdown : Int]
          /\ accounting'.cash = cash
      BY <3>1, <3>3, UpdateEquityTyped
    <3>6. ~Filled'
      BY <2>1 DEF Filled
    <3>7. DriftHasACause'
      BY <1>1, <2>3, <3>1, <3>3, <3>4, <3>5, <3>6 DEF DriftHasACause
    <3> QED BY <1>1, <2>1, <2>2, <2>3, <3>1, <3>3, <3>5, <3>7
            DEF BridgeTypeOK, OrdSet, FillSet, ReadsHold, NoEarlyFill, Blind
  <2> QED BY <1>10, <2>4, <2>5 DEF ApplyAnswer
<1>11. CASE ReadBase
  <2>1. /\ rec'.pc = "base" /\ rec'.base = account.base /\ rec' \in RecSet
    BY <1>1, <1>11 DEF ReadBase, RecSet
  <2> QED BY <1>1, <1>11, <2>1
          DEF ReadBase, cache, BridgeTypeOK, RecSet, ReadsHold, NoEarlyFill, Blind, DriftHasACause, Filled
<1>12. CASE ReadQuote
  <2>1. /\ rec'.pc = "both" /\ rec'.base = rec.base /\ rec'.cash = account.cash
        /\ rec'.clean = rec.clean /\ rec.pc = "base" /\ rec' \in RecSet
    BY <1>1, <1>12 DEF ReadQuote, RecSet
  <2> QED BY <1>1, <1>12, <2>1
          DEF ReadQuote, cache, BridgeTypeOK, RecSet, ReadsHold, NoEarlyFill, Blind, DriftHasACause, Filled
<1>13. CASE ReconcileFails \/ ReconcileWakes
  <2>1. rec' \in RecSet /\ rec'.pc \in {"sleeping", "asking"}
    BY <1>1, <1>13 DEF ReconcileFails, ReconcileWakes, RecSet
  <2> QED BY <1>1, <1>13, <2>1
          DEF ReconcileFails, ReconcileWakes, cache, BridgeTypeOK, RecSet, ReadsHold, NoEarlyFill,
              Blind, DriftHasACause, Filled
<1>14. CASE Overwrite
  <2> DEFINE equity == rec.cash + rec.base * (IF lastMid = NoPrice THEN 0 ELSE lastMid)
  <2>1. rec.cash \in Int /\ rec.base \in Int /\ equity \in Int
    BY <1>1, BridgeAssumption DEF RecSet
  <2>2. /\ positionQty' = rec.base /\ accounting' = UpdateAccounting(rec.cash, equity)
        /\ initialCash' = IF initialCash = 0 THEN equity ELSE initialCash
        /\ UNCHANGED <<account, price, lastMid, bookStale, ord, placed, deposited>>
        /\ drift' = IF rec.clean /\ ~Filled THEN {} ELSE {"overlap"}
        /\ rec.pc = "both" /\ rec' = [rec EXCEPT !.pc = "sleeping"]
    BY <1>14 DEF Overwrite
  <2> HIDE DEF equity
  <2>3. /\ accounting' \in [cash : Int, equity : Int, peak : Int, drawdown : Int]
        /\ accounting'.cash = rec.cash
    BY <2>1, <2>2, UpdateEquityTyped
  <2>4. rec' \in RecSet /\ rec'.pc = "sleeping"
    BY <1>1, <2>2 DEF RecSet
  <2>5. drift' \subseteq Causes /\ "unreconciled" \notin drift'
    BY <2>2 DEF Causes
  <2>6. ASSUME drift' = {} PROVE positionQty' = account.base /\ accounting'.cash = account.cash /\ ~Filled
    BY <2>2, <2>3, <2>6 DEF ReadsHold
  <2>7. DriftHasACause'
    <3>1. ~Filled => ~Filled'
      BY <2>2 DEF Filled
    <3>2. positionQty' \in Int /\ accounting'.cash \in Int /\ account' = account
      BY <2>1, <2>2, <2>3
    <3>3. SUFFICES ASSUME drift' = {}
                   PROVE  /\ positionQty' + 0 = account.base
                          /\ accounting'.cash - 0 = account.cash
                          /\ ~Filled'
      BY <3>2 DEF DriftHasACause
    <3> QED BY <2>6, <3>1, <3>2, <3>3
  <2> QED BY <1>1, <2>1, <2>2, <2>3, <2>4, <2>5, <2>7
          DEF BridgeTypeOK, RecSet, ReadsHold, NoEarlyFill, Blind
<1>15. CASE UNCHANGED bridgeVars
  BY <1>1, <1>15 DEF bridgeVars, cache, BridgeTypeOK, ReadsHold, NoEarlyFill, Blind, DriftHasACause, Filled
<1> QED BY <1>3, <1>4, <1>5, <1>6, <1>7, <1>8, <1>9, <1>10, <1>11, <1>12, <1>13, <1>14, <1>15, <1>8b
        DEF BridgeNext, ExchangeAnswers, Reconcile

\* The cached position and cash differ from the account only by an answered fill not
\* yet applied, or through a deposit, an unreported settlement or an overlapping
\* reconcile.
THEOREM DriftOnlyFromItsCauses == BridgeSpec => []DriftHasACause
<1>1. Inv => DriftHasACause
  BY DEF Inv
<1> QED BY <1>1, InitInv, Steps, PTL DEF BridgeSpec

\* No order leaves before the account has been read.
THEOREM TradesOnlyReconciled == BridgeSpec => []NeverTradesBlind
<1>1. Inv => NeverTradesBlind
  BY DEF Inv, Blind, NeverTradesBlind
<1> QED BY <1>1, InitInv, Steps, PTL DEF BridgeSpec

\* Type correctness of the bridge and of the account it trades on.
THEOREM BridgeTypeCorrect == BridgeSpec => []BridgeTypeOK
<1>1. Inv => BridgeTypeOK
  BY DEF Inv
<1> QED BY <1>1, InitInv, Steps, PTL DEF BridgeSpec
=============================================================================
