------------------------- MODULE LiveExchangeBridge -------------------------
(***************************************************************************)
(* The bridge between a trading loop and a real spot account,              *)
(* execution/live_exchange_bridge.py, over BinanceSpotAdapter.  It keeps a *)
(* cached position and cash, changed by the answer to each of its own      *)
(* orders and overwritten by a background task that reads the two balances *)
(* one after the other.  Both tasks await the exchange, so the account may *)
(* change between a request, its answer and the answer's use.              *)
(* The account is the exchange's; quantities and money are whole units and *)
(* fractions percentages.                                                  *)
(***************************************************************************)
EXTENDS Integers

CONSTANTS
    NoPrice,                     \* no mid price seen yet (None)
    InitialBase, InitialCash,    \* what the account holds when the process starts
    Prices,                      \* market prices
    Fees,                        \* the fee of a fill, in quote units
    Targets,                     \* target fractions of the trading loop, percent
    Deposits,                    \* amounts other parties may pay in
    Faults,                      \* what the exchange may do, of ExchangeFaults
    MaxSubmits, MaxDeposits       \* bounds on orders placed and on deposits

ExchangeFaults == {"reject", "partial", "timeout", "base_fee", "unreachable"}

ASSUME BridgeAssumption ==
    /\ InitialBase \in Nat /\ InitialCash \in Nat
    /\ Prices \subseteq Nat \ {0} /\ Fees \subseteq Nat
    /\ Targets \subseteq Int /\ Deposits \subseteq Nat
    /\ Faults \subseteq ExchangeFaults
    /\ MaxSubmits \in Nat /\ MaxDeposits \in Nat
    /\ NoPrice \notin Int

VARIABLES
    account,       \* the exchange's own books: [base, cash]
    price,         \* the market price
    positionQty,   \* position_qty
    accounting,    \* accounting: [cash, equity, peak, drawdown], the drawdown in percent
    initialCash,   \* initial_cash
    lastMid,       \* last_mid_price, or NoPrice
    bookStale,     \* book_is_stale()
    rec,           \* the reconcile task: where it is, and the balances it has read
    ord,           \* the submit_target_position call: where it is, its order, the answer
    placed,        \* orders sent so far (bounded)
    deposited,     \* deposits so far (bounded)
    drift          \* what has pulled the cache from the account since a clean reconcile

cache      == <<positionQty, accounting, initialCash>>
bridgeVars == <<account, price, cache, lastMid, bookStale, rec, ord, placed, deposited, drift>>

NoFill == [qty |-> 0, price |-> 0, fee |-> 0]
Idle   == [pc |-> "idle", delta |-> 0, fill |-> NoFill]

BridgeInit ==
    /\ account = [base |-> InitialBase, cash |-> InitialCash]
    /\ price \in Prices
    /\ positionQty = 0 /\ initialCash = 0
    /\ accounting = [cash |-> 0, equity |-> 0, peak |-> 0, drawdown |-> 0]
    /\ lastMid = NoPrice /\ bookStale = TRUE
    /\ rec = [pc |-> "off", base |-> 0, cash |-> 0, clean |-> FALSE]
    /\ ord = Idle
    /\ placed = 0 /\ deposited = 0
    /\ drift = {"unreconciled"}

-----------------------------------------------------------------------------
Larger(a, b) == IF a > b THEN a ELSE b

UpdateAccountingKeepsCash(cash, equity) ==
    [cash |-> accounting.cash, equity |-> equity, peak |-> Larger(accounting.peak, equity),
     drawdown |-> accounting.drawdown]

\* _AccountingShim.update_equity: peak and maximum drawdown only ever grow.
UpdateAccounting(cash, equity) ==
    LET peak == Larger(accounting.peak, equity)
    IN  [cash |-> cash, equity |-> equity, peak |-> peak,
         drawdown |-> IF peak > 0
                      THEN Larger(accounting.drawdown, ((peak - equity) * 100) \div peak)
                      ELSE accounting.drawdown]

\* The account changed under a reconcile that has already read a balance.
Dirtied == [rec EXCEPT !.clean = FALSE]

\* on_depth_update(): the feed awaits its callback, so no update comes while an order
\* is out.  A one-sided book counts as fresh and leaves the old mid price.
OnDepthUpdate(twoSided) ==
    /\ ord.pc = "idle"
    /\ lastMid' = (IF twoSided THEN price ELSE lastMid) /\ bookStale' = FALSE
    /\ rec' = IF rec.pc = "off" THEN [rec EXCEPT !.pc = "asking"] ELSE rec
    /\ UNCHANGED <<account, price, cache, ord, placed, deposited, drift>>

BookAges ==
    /\ ~bookStale /\ bookStale' = TRUE
    /\ UNCHANGED <<account, price, cache, lastMid, rec, ord, placed, deposited, drift>>

MarketMoves ==
    /\ price' \in Prices \ {price}
    /\ UNCHANGED <<account, cache, lastMid, bookStale, rec, ord, placed, deposited, drift>>

Deposit(amount) ==
    /\ deposited < MaxDeposits /\ deposited' = deposited + 1
    /\ account' = [account EXCEPT !.cash = @ + amount]
    /\ drift' = drift \cup {"deposit"}
    /\ rec' = Dirtied
    /\ UNCHANGED <<price, cache, lastMid, bookStale, ord, placed>>

-----------------------------------------------------------------------------
ReadyBlind == lastMid # NoPrice /\ ~bookStale

\* The early returns: no book, a stale book, nothing to trade with.
Ready == ReadyBlind /\ accounting.equity > 0

\* submit_target_position() up to its first await.
Submit(target) ==
    LET wanted == (target * accounting.equity) \div (100 * lastMid)
        delta  == IF wanted < 0 THEN -positionQty ELSE wanted - positionQty
    IN  /\ ord.pc = "idle" /\ placed < MaxSubmits
        /\ Ready
        /\ ord' = [pc |-> "sent", delta |-> delta, fill |-> NoFill]
        /\ placed' = placed + 1
        /\ UNCHANGED <<account, price, cache, lastMid, bookStale, rec, deposited, drift>>

Affordable(qty, fee) ==
    /\ account.base + qty >= 0
    /\ account.cash - (qty * price + fee) >= 0

\* The exchange moves base and cash by a signed quantity at the market price.
Settle(qty, fee) ==
    /\ account' = [base |-> account.base + qty, cash |-> account.cash - (qty * price + fee)]
    /\ rec' = Dirtied

\* A market order closes: the answer reports the whole fill.
ExchangeFills(fee) ==
    /\ ord.pc = "sent" /\ ord.delta # 0
    /\ Affordable(ord.delta, fee)
    /\ Settle(ord.delta, fee)
    /\ ord' = [ord EXCEPT !.pc = "answered",
                          !.fill = [qty |-> ord.delta, price |-> price, fee |-> fee]]
    /\ UNCHANGED <<price, cache, lastMid, bookStale, placed, deposited, drift>>

\* The same with the commission of a buy taken from the base it bought, as Binance
\* does: place_market_order() reports a number, and the bridge takes it for quote.
ExchangeFillsFeeInBase(fee) ==
    /\ "base_fee" \in Faults
    /\ ord.pc = "sent" /\ ord.delta > fee /\ fee > 0
    /\ account.cash - ord.delta * price >= 0
    /\ account' = [base |-> account.base + ord.delta - fee, cash |-> account.cash - ord.delta * price]
    /\ rec' = Dirtied
    /\ ord' = [ord EXCEPT !.pc = "answered",
                          !.fill = [qty |-> ord.delta, price |-> price, fee |-> fee]]
    /\ drift' = drift \cup {"base_fee"}
    /\ UNCHANGED <<price, cache, lastMid, bookStale, placed, deposited>>

\* It settles, in part or with its answer lost to a timeout; what the adapter
\* returns is not "filled" ("open", or the exception's "rejected").
ExchangeSettlesUnreported(qty, fee) ==
    /\ ord.pc = "sent"
    /\ \/ "timeout" \in Faults /\ qty = ord.delta
       \/ "partial" \in Faults /\ ((0 < qty /\ qty < ord.delta) \/ (ord.delta < qty /\ qty < 0))
    /\ qty # 0 /\ Affordable(qty, fee)
    /\ Settle(qty, fee)
    /\ ord' = [ord EXCEPT !.pc = "answered"]
    /\ drift' = drift \cup {"unreported"}
    /\ UNCHANGED <<price, cache, lastMid, bookStale, placed, deposited>>

\* Rejected by the exchange or by the local filters, banned, or an exception.
ExchangeRejects ==
    /\ ord.pc = "sent"
    /\ "reject" \in Faults \/ ord.delta = 0 \/ \E fee \in Fees : ~Affordable(ord.delta, fee)
    /\ ord' = [ord EXCEPT !.pc = "answered"]
    /\ UNCHANGED <<account, price, cache, lastMid, bookStale, rec, placed, deposited, drift>>

Filled == ord.pc = "answered" /\ ord.fill # NoFill

\* The rest of submit_target_position(): a fill moves the cache, any other answer ends it.
ApplyAnswer ==
    /\ ord.pc = "answered"
    /\ ord' = Idle
    /\ \/ /\ Filled
          /\ LET qty  == positionQty + ord.fill.qty
                 cash == accounting.cash - (ord.fill.qty * ord.fill.price + ord.fill.fee)
             IN  /\ positionQty' = qty
                 /\ accounting' = UpdateAccounting(cash, cash + qty * ord.fill.price)
       \/ /\ ~Filled
          /\ UNCHANGED <<positionQty, accounting>>
    /\ UNCHANGED <<account, price, initialCash, lastMid, bookStale, rec, placed, deposited, drift>>

-----------------------------------------------------------------------------
\* _reconcile_once(): two get_balance() calls, each answered at some moment of its own.
ReadBase ==
    /\ rec.pc = "asking"
    /\ rec' = [pc |-> "base", base |-> account.base, cash |-> 0, clean |-> TRUE]
    /\ UNCHANGED <<account, price, cache, lastMid, bookStale, ord, placed, deposited, drift>>

ReadQuote ==
    /\ rec.pc = "base"
    /\ rec' = [rec EXCEPT !.pc = "both", !.cash = account.cash]
    /\ UNCHANGED <<account, price, cache, lastMid, bookStale, ord, placed, deposited, drift>>

ReconcileFailsForGood ==
    /\ "unreachable" \in Faults
    /\ rec.pc \in {"asking", "base"}
    /\ rec' = [rec EXCEPT !.pc = "stopped"]
    /\ UNCHANGED <<account, price, cache, lastMid, bookStale, ord, placed, deposited, drift>>

\* connect() or a get_balance() raises: logged, and tried again at the next interval.
ReconcileFails ==
    /\ "unreachable" \in Faults
    /\ rec.pc \in {"asking", "base"}
    /\ rec' = [rec EXCEPT !.pc = "sleeping"]
    /\ UNCHANGED <<account, price, cache, lastMid, bookStale, ord, placed, deposited, drift>>

\* Both answers are in: the cache becomes what they said.
Overwrite ==
    /\ rec.pc = "both"
    /\ LET mid    == IF lastMid = NoPrice THEN 0 ELSE lastMid
           equity == rec.cash + rec.base * mid
       IN  /\ positionQty' = rec.base
           /\ accounting' = UpdateAccounting(rec.cash, equity)
           /\ initialCash' = IF initialCash = 0 THEN equity ELSE initialCash
    /\ drift' = IF rec.clean /\ ~Filled THEN {} ELSE {"overlap"}
    /\ rec' = [rec EXCEPT !.pc = "sleeping"]
    /\ UNCHANGED <<account, price, lastMid, bookStale, ord, placed, deposited>>

\* reconcile_interval_sec has passed.
ReconcileWakes ==
    /\ rec.pc = "sleeping"
    /\ rec' = [rec EXCEPT !.pc = "asking"]
    /\ UNCHANGED <<account, price, cache, lastMid, bookStale, ord, placed, deposited, drift>>

Reconcile == ReadBase \/ ReadQuote \/ Overwrite \/ ReconcileWakes

ExchangeAnswers ==
    \/ \E fee \in Fees : ExchangeFills(fee) \/ ExchangeFillsFeeInBase(fee)
    \/ \E qty \in (ord.delta..-1) \cup (1..ord.delta), fee \in Fees : ExchangeSettlesUnreported(qty, fee)
    \/ ExchangeRejects

BridgeNext ==
    \/ \E twoSided \in BOOLEAN : OnDepthUpdate(twoSided)
    \/ BookAges
    \/ MarketMoves
    \/ \E amount \in Deposits : Deposit(amount)
    \/ \E target \in Targets : Submit(target)
    \/ ExchangeAnswers
    \/ ApplyAnswer
    \/ Reconcile
    \/ ReconcileFails

BridgeSpec == BridgeInit /\ [][BridgeNext]_bridgeVars

\* The event loop runs a task that is ready, the feed keeps sending, the exchange
\* answers every order, and a balance request that is retried forever succeeds.
FairBridgeSpec ==
    /\ BridgeSpec
    /\ WF_bridgeVars(\E twoSided \in BOOLEAN : OnDepthUpdate(twoSided))
    /\ WF_bridgeVars(ExchangeAnswers) /\ WF_bridgeVars(ApplyAnswer)
    /\ SF_bridgeVars(ReadBase) /\ SF_bridgeVars(ReadQuote) /\ WF_bridgeVars(Overwrite) /\ WF_bridgeVars(ReconcileWakes)

-----------------------------------------------------------------------------
Causes == {"unreconciled", "deposit", "unreported", "base_fee", "overlap"}

BridgeTypeOK ==
    /\ account \in [base : Nat, cash : Nat]
    /\ price \in Prices
    /\ positionQty \in Int /\ initialCash \in Int
    /\ accounting \in [cash : Int, equity : Int, peak : Int, drawdown : Int]
    /\ lastMid \in Prices \cup {NoPrice} /\ bookStale \in BOOLEAN
    /\ rec \in [pc : {"off", "asking", "base", "both", "sleeping"},
                base : Nat, cash : Nat, clean : BOOLEAN]
    /\ ord \in [pc : {"idle", "sent", "answered"}, delta : Int,
                fill : [qty : Int, price : Nat, fee : Nat]]
    /\ placed \in 0..MaxSubmits /\ deposited \in 0..MaxDeposits
    /\ drift \subseteq Causes

\* The cache follows the account exactly, one answered fill apart, until a deposit, a fee
\* taken in base, an order that settles unreported, or a reconcile that overlaps an
\* order: these are the only ways the two come apart (submit_target_position, _reconcile_once).
DriftHasACause ==
    drift = {} =>
        /\ positionQty + (IF Filled THEN ord.fill.qty ELSE 0) = account.base
        /\ accounting.cash -
              (IF Filled THEN ord.fill.qty * ord.fill.price + ord.fill.fee ELSE 0) = account.cash

\* No order leaves before a reconcile has read the account ("so we don't trade blind
\* against a stale initial_cash=0"): the equity test stands in for a flag.
NeverTradesBlind == ord.pc # "idle" => "unreconciled" \notin drift

\* Once the reconcile task has been started and orders and deposits have stopped, the
\* cache comes to agree with the account and stays so, however many reconciles were
\* torn, late or failed before.
Agrees == positionQty = account.base /\ accounting.cash = account.cash
EventuallyAgrees == (rec.pc # "off") ~> []Agrees

\* A reconcile "corrects the locally-cached accounting state" (live_exchange_bridge.py:191):
\* at one price and without fees the account's worth is constant, so the drawdown
\* RiskGuardian reads can only be 0.
NoPhantomDrawdown ==
    (Prices = {price} /\ Fees = {0} /\ Deposits = {}) => accounting.drawdown = 0
=============================================================================
