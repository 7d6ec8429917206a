------------------------------- MODULE MCDesk -------------------------------
\* The modules of trading and of its control share no state: one of them is
\* explored at a time, while the others stay at one of their first states.  Of
\* the supervisor's, two crashes in three units of time open the breaker, and
\* the backoff doubles once.
EXTENDS DepthFeed, TradeDesk, CapitalAllocation, OrderComposition, ControlPanel,
        CommandChannel, ProcessSupervisor, ExchangeCalls, PromotionGates

VARIABLE topic

Topics == {"feed", "desk", "capital", "order", "panel", "channel", "process",
           "calls", "gates"}

SameInterval == [s \in 1 .. 2 |-> s]
SameLimit    == [s \in 1 .. 2 |-> 2]

DeskGroupInit ==
    /\ topic \in Topics
    /\ IF topic = "feed" THEN FeedInit ELSE client = "live" /\ FeedInit
    /\ IF topic = "desk" THEN DeskInit
       ELSE feed = [kind |-> "real", stop |-> FALSE, socket |-> 0] /\ DeskInit
    /\ AllocationInit /\ CompositionInit
    /\ PanelInit /\ ChannelInit /\ Init
    /\ IF topic = "calls" THEN CallsInit ELSE venue = "binance" /\ CallsInit
    /\ GatesInit

tradingVars == <<deskVars, allocationVars, compositionVars>>
controlVars == <<panelVars, channelVars, vars>>
doorVars    == <<callVars, gateVars>>

DeskGroupNext ==
    /\ UNCHANGED topic
    /\ \/ /\ topic = "feed" /\ FeedNext
          /\ UNCHANGED <<tradingVars, controlVars, doorVars>>
       \/ /\ topic = "desk" /\ DeskNext
          /\ UNCHANGED <<feedVars, allocationVars, compositionVars, controlVars, doorVars>>
       \/ /\ topic = "capital" /\ AllocationNext
          /\ UNCHANGED <<feedVars, deskVars, compositionVars, controlVars, doorVars>>
       \/ /\ topic = "order" /\ CompositionNext
          /\ UNCHANGED <<feedVars, deskVars, allocationVars, controlVars, doorVars>>
       \/ /\ topic = "panel" /\ PanelNext
          /\ UNCHANGED <<feedVars, tradingVars, channelVars, vars, doorVars>>
       \/ /\ topic = "channel" /\ ChannelNext
          /\ UNCHANGED <<feedVars, tradingVars, panelVars, vars, doorVars>>
       \/ /\ topic = "process" /\ Next
          /\ UNCHANGED <<feedVars, tradingVars, panelVars, channelVars, doorVars>>
       \/ /\ topic = "calls" /\ CallsNext
          /\ UNCHANGED <<feedVars, tradingVars, controlVars, gateVars>>
       \/ /\ topic = "gates" /\ GatesNext
          /\ UNCHANGED <<feedVars, tradingVars, controlVars, callVars>>

deskGroupVars == <<topic, feedVars, tradingVars, controlVars, doorVars>>

\* The fairness of each module's own specification, for the one explored.
DeskGroupFairness ==
    /\ WF_deskVars(topic = "desk" /\ MarketSends)
    /\ WF_deskVars(topic = "desk" /\ (ReadMessage \/ MakeMessage))
    /\ WF_deskVars(topic = "desk" /\ DispatchStep)
    /\ WF_deskVars(topic = "desk" /\ (DispatchEnds \/ HaltAll))
    /\ WF_panelVars(topic = "panel" /\ TradingStep)
    /\ WF_panelVars(topic = "panel" /\ TrainingStep)
    /\ WF_vars(topic = "process" /\ MainLoop)
    /\ WF_vars(topic = "process" /\ Handler)
    /\ WF_vars(topic = "process" /\ Tick)

DeskGroupSpec == DeskGroupInit /\ [][DeskGroupNext]_deskGroupVars /\ DeskGroupFairness
=============================================================================
