--------------------------- MODULE WeightsMarket ---------------------------
(***************************************************************************)
(* What escrow/escrow_contract.py promises a swarm that does not trust     *)
(* itself: a trade locks its price out of the buyer's balance, and then    *)
(* moves exactly once, to the seller or back.  No process, file or failure *)
(* is visible here.                                                        *)
(***************************************************************************)
EXTENDS Integers

CONSTANTS Children, Offers, Trades, StartBalance

VARIABLES
    balance,  \* container_balances
    trades    \* escrow_transactions

Unused == [status |-> "none"]

MarketInit ==
    /\ balance = [c \in Children |-> StartBalance]
    /\ trades = [t \in Trades |-> Unused]

LockFunds(t, buyer, seller, price) ==
    /\ trades[t] = Unused /\ buyer # seller
    /\ price <= balance[buyer]
    /\ balance' = [balance EXCEPT ![buyer] = @ - price]
    /\ trades' = [trades EXCEPT ![t] =
            [status |-> "locked", buyer |-> buyer, seller |-> seller, price |-> price]]

Release(t, status, payee) ==
    /\ trades[t].status = "locked"
    /\ balance' = [balance EXCEPT ![payee] = @ + trades[t].price]
    /\ trades' = [trades EXCEPT ![t].status = status]

MarketNext ==
    \E t \in Trades :
        \/ \E buyer, seller \in Children, price \in Offers : LockFunds(t, buyer, seller, price)
        \/ Release(t, "settled", trades[t].seller)
        \/ Release(t, "refunded", trades[t].buyer)

MarketSpec == MarketInit /\ [][MarketNext]_<<balance, trades>>
=============================================================================
