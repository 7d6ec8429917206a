------------------------------ MODULE MCOrders ------------------------------
\* What an order is held against: the guardian's limits with every entry point
\* in use, and the account behind the bridge.  They share no state: one of them is
\* explored at a time, while the other stays at its first state.
EXTENDS MCRiskGuardian, MCLiveExchangeBridge

VARIABLE topic

OrdersInit ==
    /\ topic \in {"limits", "account"}
    /\ Init /\ BridgeInit
    /\ topic = "limits" => price = 1

OrdersNext ==
    /\ UNCHANGED topic
    /\ \/ topic = "limits"  /\ Next       /\ UNCHANGED bridgeVars
       \/ topic = "account" /\ BridgeNext /\ UNCHANGED vars

\* The fairness of FairBridgeSpec, for the bridge.
OrdersFairness ==
    /\ WF_bridgeVars(topic = "account" /\ \E twoSided \in BOOLEAN : OnDepthUpdate(twoSided))
    /\ WF_bridgeVars(topic = "account" /\ ExchangeAnswers)
    /\ WF_bridgeVars(topic = "account" /\ ApplyAnswer)
    /\ SF_bridgeVars(topic = "account" /\ ReadBase)
    /\ SF_bridgeVars(topic = "account" /\ ReadQuote)
    /\ WF_bridgeVars(topic = "account" /\ Overwrite)
    /\ WF_bridgeVars(topic = "account" /\ ReconcileWakes)

OrdersSpec == OrdersInit /\ [][OrdersNext]_<<topic, vars, bridgeVars>> /\ OrdersFairness
=============================================================================
