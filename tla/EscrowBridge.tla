---------------------------- MODULE EscrowBridge ----------------------------
(***************************************************************************)
(* Trading model weights between the children of the swarm:                *)
(* escrow/escrow_contract.py and validation_airgap.py, as                  *)
(* swarm/social_relay.py uses them.  Every child is a process of its own   *)
(* over one SQLite file; it broadcasts its weights, and when it struggles  *)
(* buys a peer's: the balance is read in one connection, the price locked  *)
(* in another, the weights are validated for minutes, the money moves in   *)
(* one commit and the file is copied after it.  A process may die between  *)
(* any two of these, and any access to the database may raise, in which    *)
(* case nothing of that transaction is committed.  settle_or_refund() may  *)
(* be called by hand for a trade nobody works on.                          *)
(*                                                                         *)
(* Weights are "good" if the ten splits would pass them and "bad" if not;  *)
(* with no loadable file the random baseline is judged, either way.  A     *)
(* child's path names the file itself or, as run_crucible_loop_sb3() does, *)
(* omits the ".zip" that only the validation tries to append.              *)
(***************************************************************************)
EXTENDS WeightsMarket, FiniteSetsExt

CONSTANTS
    NoOne,
    Operator,   \* whoever calls settle_or_refund() by hand
    PathKinds   \* what children broadcast: "exact" paths, "bare" ones

ASSUME EscrowAssumption ==
    /\ Offers \subseteq Nat /\ StartBalance \in Nat
    /\ Operator \notin Children /\ NoOne \notin Trades

VARIABLES
    insight,    \* each child's packet in the relay directory: its path's kind
    weights,    \* the file each child's path leads to
    acquired,   \* weights_acquired_peer*.pt of each buyer
    worker,     \* where each process is in initiate_escrow() / settle_or_refund()
    abandoned   \* history: trades left locked by a crash or a database error

files      == <<insight, weights>>
escrowVars == <<balance, trades, insight, weights, acquired, worker, abandoned>>

Settlers == Children \union {Operator}
Idle     == [at |-> "idle", trade |-> NoOne, seller |-> NoOne, price |-> 0, passed |-> FALSE]

EscrowInit ==
    /\ MarketInit
    /\ insight = [c \in Children |-> NoOne]
    /\ weights = [c \in Children |-> NoOne]
    /\ acquired = [c \in Children |-> NoOne]
    /\ worker = [p \in Settlers |-> Idle]
    /\ abandoned = {}

-----------------------------------------------------------------------------
\* rl_trainer.save(): a child learns, for better or worse, and overwrites its checkpoint.
SaveWeights(c) ==
    /\ \E quality \in {"good", "bad"} : weights' = [weights EXCEPT ![c] = quality]
    /\ UNCHANGED <<balance, trades, insight, acquired, worker, abandoned>>

\* broadcast_market_insight(), signed, so every reader accepts it.
Broadcast(c) ==
    /\ insight[c] = NoOne
    /\ \E kind \in PathKinds : insight' = [insight EXCEPT ![c] = kind]
    /\ UNCHANGED <<balance, trades, weights, acquired, worker, abandoned>>

\* query_top_peers(): packets that verify, of others; their order is not modelled.
Peers(c) == {s \in Children \ {c} : insight[s] # NoOne}

\* request_peer_weights_via_escrow() and initiate_escrow() up to its test of the
\* balance; a failed read counts as a balance of 0 and a refusal changes nothing.
Ask(c, s, price) ==
    /\ worker[c].at = "idle" /\ s \in Peers(c)
    /\ price <= balance[c]
    /\ worker' = [worker EXCEPT ![c] = [Idle EXCEPT !.at = "checked", !.seller = s, !.price = price]]
    /\ UNCHANGED <<balance, trades, files, acquired, abandoned>>

\* The second connection: debit and record in one commit, whatever the balance is by now.
Lock(c, t) ==
    /\ worker[c].at = "checked" /\ trades[t] = Unused
    /\ balance' = [balance EXCEPT ![c] = @ - worker[c].price]
    /\ trades' = [trades EXCEPT ![t] = [status |-> "locked", buyer |-> c,
                                        seller |-> worker[c].seller, price |-> worker[c].price]]
    /\ worker' = [worker EXCEPT ![c] = [Idle EXCEPT !.at = "settling", !.trade = t]]
    /\ UNCHANGED <<files, acquired, abandoned>>

\* initiate_escrow() raises: the lock is not committed, also when two ids collide.
LockFails(c) ==
    /\ worker[c].at = "checked"
    /\ worker' = [worker EXCEPT ![c] = Idle]
    /\ UNCHANGED <<balance, trades, files, acquired, abandoned>>

\* _load_model_from_weights() and ten episodes: without a file, a random policy.
Verdicts(file) ==
    CASE file = "good" -> {TRUE}
      [] file = "bad"  -> {FALSE}
      [] OTHER         -> BOOLEAN

\* Variation: the status is not tested at all.
ValidateAnyStatus(p) ==
    /\ worker[p].at = "settling"
    /\ \E passed \in Verdicts(weights[trades[worker[p].trade].seller]) :
           worker' = [worker EXCEPT ![p].at = "judged", ![p].passed = passed]
    /\ UNCHANGED <<balance, trades, files, acquired, abandoned>>

\* settle_or_refund() up to the verdict; the status is read before, not tested again after.
Validate(p) ==
    /\ worker[p].at = "settling" /\ trades[worker[p].trade].status = "locked"
    /\ \E passed \in Verdicts(weights[trades[worker[p].trade].seller]) :
           worker' = [worker EXCEPT ![p].at = "judged", ![p].passed = passed]
    /\ UNCHANGED <<balance, trades, files, acquired, abandoned>>

\* ... or its early return.
NotLocked(p) ==
    /\ worker[p].at = "settling" /\ trades[worker[p].trade].status # "locked"
    /\ worker' = [worker EXCEPT ![p] = Idle]
    /\ UNCHANGED <<balance, trades, files, acquired, abandoned>>

\* Variation: weights that could not be loaded are not refunded.
RefundOfWeights(p) ==
    LET t == worker[p].trade IN
    /\ worker[p].at = "judged" /\ ~worker[p].passed /\ weights[trades[t].seller] # NoOne
    /\ balance' = [balance EXCEPT ![trades[t].buyer] = @ + trades[t].price]
    /\ trades' = [trades EXCEPT ![t].status = "refunded"]
    /\ worker' = [worker EXCEPT ![p] = Idle]
    /\ abandoned' = abandoned \ {t}
    /\ UNCHANGED <<files, acquired>>

\* The buyer's money and the status in one commit.
Refund(p) ==
    LET t == worker[p].trade IN
    /\ worker[p].at = "judged" /\ ~worker[p].passed
    /\ balance' = [balance EXCEPT ![trades[t].buyer] = @ + trades[t].price]
    /\ trades' = [trades EXCEPT ![t].status = "refunded"]
    /\ worker' = [worker EXCEPT ![p] = Idle]
    /\ abandoned' = abandoned \ {t}
    /\ UNCHANGED <<files, acquired>>

Pay(p) ==
    LET t == worker[p].trade IN
    /\ worker[p].at = "judged" /\ worker[p].passed
    /\ balance' = [balance EXCEPT ![trades[t].seller] = @ + trades[t].price]
    /\ trades' = [trades EXCEPT ![t].status = "settled"]
    /\ worker' = [worker EXCEPT ![p].at = "paid"]
    /\ abandoned' = abandoned \ {t}
    /\ UNCHANGED <<files, acquired>>

\* The copy: of the file the path names exactly, as it is by now; an error is dropped.
Copied(t) ==
    LET seller == trades[t].seller IN
    IF insight[seller] = "exact" /\ weights[seller] # NoOne
    THEN {weights[seller], acquired[trades[t].buyer]}
    ELSE {acquired[trades[t].buyer]}

Deliver(p) ==
    LET t == worker[p].trade IN
    /\ worker[p].at = "paid"
    /\ \E copy \in Copied(t) : acquired' = [acquired EXCEPT ![trades[t].buyer] = copy]
    /\ worker' = [worker EXCEPT ![p] = Idle]
    /\ UNCHANGED <<balance, trades, files, abandoned>>

\* The process dies, or the database raises: an open transaction is rolled back.
Stop(p) ==
    /\ worker[p].at # "idle"
    /\ worker' = [worker EXCEPT ![p] = Idle]
    /\ abandoned' = abandoned \union
           (IF worker[p].at \in {"settling", "judged"} THEN {worker[p].trade} ELSE {})
    /\ UNCHANGED <<balance, trades, files, acquired>>

\* By hand, for any trade nobody works on any more, answered or not.
Retry(t) ==
    /\ worker[Operator].at = "idle" /\ trades[t] # Unused
    /\ \A p \in Settlers : worker[p].trade # t
    /\ worker' = [worker EXCEPT ![Operator] = [Idle EXCEPT !.at = "settling", !.trade = t]]
    /\ abandoned' = abandoned \ {t}
    /\ UNCHANGED <<balance, trades, files, acquired>>

-----------------------------------------------------------------------------
ChildStep(c) ==
    \/ SaveWeights(c)
    \/ Broadcast(c)
    \/ \E s \in Children, price \in Offers : Ask(c, s, price)
    \/ \E t \in Trades : Lock(c, t)
    \/ LockFails(c)

Settle(p) == Validate(p) \/ NotLocked(p) \/ Refund(p) \/ Pay(p) \/ Deliver(p)

EscrowNext ==
    \/ \E c \in Children : ChildStep(c)
    \/ \E p \in Settlers : Settle(p)
    \/ \E p \in Settlers : Stop(p)
    \/ \E t \in Trades : Retry(t)

EscrowSpec     == EscrowInit /\ [][EscrowNext]_escrowVars
FairEscrowSpec == EscrowSpec /\ \A p \in Settlers : WF_escrowVars(Settle(p))

-----------------------------------------------------------------------------
Market == INSTANCE WeightsMarket

\* Processes that crash, retry and race with each other still trade as
\* WeightsMarket says: nothing is locked without cover, and a trade moves once.
ImplementsMarket == Market!MarketSpec

\* A locked trade is settled or refunded, unless the process working on it
\* died or could not write: the code has nothing that would find it again.
LockedIsAnswered ==
    \A t \in Trades :
        (trades[t].status = "locked") ~> (trades[t].status # "locked" \/ t \in abandoned)
=============================================================================
