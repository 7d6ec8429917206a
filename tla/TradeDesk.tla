----------------------------- MODULE TradeDesk -----------------------------
(***************************************************************************)
(* Several sleeves on one feed: SharedLiveFeedHub hands every message to   *)
(* each sleeve's LivePaperInferenceServer._on_update() in turn, a sleeve   *)
(* decides on its own cadence and sends its order to its own PaperExchange,*)
(* and MultiSleeveOrchestrator's PortfolioRiskAggregator looks at their    *)
(* exposure together every n messages, halting all through the kill-switch *)
(* file that each sleeve's guardian polls.                                 *)
(*                                                                         *)
(* A position is a number of parts of the sleeve's equity, Whole parts     *)
(* being all of it; prices, fees and the book's levels are left out, and   *)
(* a fill takes the position anywhere up to its target.  The guardian is   *)
(* reduced to its halt (RiskGuardian models it).  All sleeves of one       *)
(* orchestrator share its state_dir, and with it the kill-switch file.     *)
(***************************************************************************)
EXTENDS Integers, FiniteSetsExt, Functions

CONSTANTS
    FeedKinds,     \* of "real" and "synthetic"
    Sleeves,       \* number of sleeves, in the order of their subscription
    Interval,      \* sleeve -> updates between two decisions
    PositionLimit, \* sleeve -> max_position_fraction
    Whole,         \* parts of a sleeve's equity
    ExposureLimit, \* max_total_exposure_fraction, in parts over all sleeves
    WarmUp,        \* updates that fill an observation buffer
    CheckEvery,    \* portfolio_check_every_n_dispatches: 50
    MaxQueued,     \* bound: messages waiting in the socket
    MaxRaises,     \* bound: updates on which a sleeve raises
    MaxOperations  \* bound: things an operator does

SleeveIds == 1 .. Sleeves
Parts     == 0 .. Whole

ASSUME DeskAssumption ==
    /\ FeedKinds \subseteq {"real", "synthetic"} /\ Sleeves \in Nat \ {0}
    /\ Interval \in [SleeveIds -> Nat \ {0}] /\ Whole \in Nat \ {0}
    /\ PositionLimit \in [SleeveIds -> Parts] /\ ExposureLimit \in Nat
    /\ WarmUp \in Nat \ {0} /\ CheckEvery \in Nat \ {0}
    /\ MaxQueued \in Nat \ {0} /\ MaxRaises \in Nat /\ MaxOperations \in Nat

VARIABLES
    feed,      \* [kind, stop, socket]: the feed, its _stop, messages not yet read
    hub,       \* [at, next, count, called]: where the dispatch is, and history: whom it called
    sleeve,    \* each sleeve: [warm, since, parts, target, halted]
    killFile,  \* the KILL_SWITCH file
    portfolioHalted,  \* PortfolioRiskAggregator.halted
    deskSpent  \* [raises, operations]: what the bounds count

deskVars == <<feed, hub, sleeve, killFile, portfolioHalted, deskSpent>>

NewSleeve == [warm |-> 0, since |-> 0, parts |-> 0, target |-> 0, halted |-> FALSE]

\* __init__(): the sleeves subscribe, then hub._dispatch is replaced.
DeskInit ==
    /\ feed \in [kind : FeedKinds, stop : {FALSE}, socket : {0}]
    /\ hub = [at |-> "reading", next |-> 1, count |-> 0, called |-> {}]
    /\ sleeve = [s \in SleeveIds |-> NewSleeve]
    /\ killFile = FALSE /\ portfolioHalted = FALSE
    /\ deskSpent = [raises |-> 0, operations |-> 0]

-----------------------------------------------------------------------------
\* The exchange goes on sending whatever the process is doing.
MarketSends ==
    /\ feed.kind = "real" /\ feed.socket < MaxQueued
    /\ feed' = [feed EXCEPT !.socket = @ + 1]
    /\ UNCHANGED <<hub, sleeve, killFile, portfolioHalted, deskSpent>>

Dispatching == [hub EXCEPT !.at = "dispatch", !.next = 1, !.called = {}, !.count = (@ + 1) % CheckEvery]

\* The read loop of BinanceLiveDepthFeed.run(): one message, one dispatch.
ReadMessage ==
    /\ hub.at = "reading" /\ ~feed.stop /\ feed.socket > 0
    /\ feed' = [feed EXCEPT !.socket = @ - 1]
    /\ hub' = Dispatching
    /\ UNCHANGED <<sleeve, killFile, portfolioHalted, deskSpent>>

\* SyntheticReplayFeed.run(): a snapshot of its own making.
MakeMessage ==
    /\ hub.at = "reading" /\ ~feed.stop /\ feed.kind = "synthetic"
    /\ hub' = Dispatching
    /\ UNCHANGED <<feed, sleeve, killFile, portfolioHalted, deskSpent>>

\* stop() lets the loop end; run()'s finally closes the sleeves' exchanges.
DeskEnds ==
    /\ hub.at = "reading" /\ feed.stop
    /\ hub' = [hub EXCEPT !.at = "ended"]
    /\ UNCHANGED <<feed, sleeve, killFile, portfolioHalted, deskSpent>>

\* Past sleeve s: the next subscriber, or the end of the dispatch.
Past(s) == [hub EXCEPT !.at = IF s = Sleeves THEN "dispatched" ELSE "dispatch",
                       !.next = s + 1, !.called = @ \union {s}]

\* on_depth_update() marks to market: prices move a position that is neither
\* nothing nor everything.
Drifted(p) == IF p \in {0, Whole} THEN {p} ELSE {q \in 1 .. Whole - 1 : q - p \in {-1, 0, 1}}

\* _maybe_act(): is this update one that decides?
Warm(s) == Min({sleeve[s].warm + 1, WarmUp})
Due(s)  == Warm(s) = WarmUp /\ sleeve[s].since + 1 >= Interval[s]

\* An update without a decision: the buffer fills, or the cadence is not due.
Observe(s) ==
    /\ hub.at = "dispatch" /\ hub.next = s /\ ~Due(s)
    /\ \E p \in Drifted(sleeve[s].parts) :
          sleeve' = [sleeve EXCEPT ![s].warm = Warm(s), ![s].parts = p,
                                   ![s].since = IF Warm(s) = WarmUp THEN @ + 1 ELSE @]
    /\ hub' = Past(s)
    /\ UNCHANGED <<feed, killFile, portfolioHalted, deskSpent>>

Decided(s, p) == [sleeve[s] EXCEPT !.warm = WarmUp, !.since = 0, !.parts = p]

\* Variation: the file is looked at only for orders within the position limit.
HaltsPolledLast(s, t) == sleeve[s].halted \/ (killFile /\ t <= PositionLimit[s])

\* check(): latched, or latched now by the file.
Halts(s, t) == sleeve[s].halted \/ killFile

\* A decision that sends no order: halted, over the limit, held back by the
\* guardian's other limits, or too small a change for an order.
DecideNothing(s) ==
    /\ hub.at = "dispatch" /\ hub.next = s /\ Due(s)
    /\ \E p \in Drifted(sleeve[s].parts), t \in Parts, ownLimit \in BOOLEAN :
          sleeve' = [sleeve EXCEPT ![s] = [Decided(s, p) EXCEPT !.halted = Halts(s, t) \/ (ownLimit /\ t <= PositionLimit[s])]]
    /\ hub' = Past(s)
    /\ UNCHANGED <<feed, killFile, portfolioHalted, deskSpent>>

\* An approved decision: submit_target_position() sleeps out its latency inside
\* the dispatch, and nothing else is read meanwhile.
SubmitOrder(s) ==
    /\ hub.at = "dispatch" /\ hub.next = s /\ Due(s)
    /\ \E p \in Drifted(sleeve[s].parts), t \in Parts :
          /\ ~Halts(s, t) /\ t <= PositionLimit[s] /\ t # p
          /\ sleeve' = [sleeve EXCEPT ![s] = [Decided(s, p) EXCEPT !.target = t]]
    /\ hub' = [hub EXCEPT !.at = "latency"]
    /\ UNCHANGED <<feed, killFile, portfolioHalted, deskSpent>>

\* The fill walks the book the process last read, as deep as it is visible: the
\* position goes up to the target, or part of the way, or stays.
Fill(s) ==
    /\ hub.at = "latency" /\ hub.next = s
    /\ \E p \in Parts :
          /\ p \in sleeve[s].parts .. sleeve[s].target \/ p \in sleeve[s].target .. sleeve[s].parts
          /\ sleeve' = [sleeve EXCEPT ![s].parts = p, ![s].target = 0]
    /\ hub' = Past(s)
    /\ UNCHANGED <<feed, killFile, portfolioHalted, deskSpent>>

\* Variation: an exception of one sleeve ends the dispatch.
SleeveRaisesToTheHub(s) ==
    /\ hub.at = "dispatch" /\ hub.next = s /\ deskSpent.raises < MaxRaises
    /\ deskSpent' = [deskSpent EXCEPT !.raises = @ + 1]
    /\ hub' = [hub EXCEPT !.at = "dispatched", !.next = s + 1, !.called = @ \union {s}]
    /\ UNCHANGED <<feed, sleeve, killFile, portfolioHalted>>

\* _dispatch() catches what a sleeve raises and goes on to the next.
SleeveRaises(s) ==
    /\ hub.at = "dispatch" /\ hub.next = s /\ deskSpent.raises < MaxRaises
    /\ deskSpent' = [deskSpent EXCEPT !.raises = @ + 1]
    /\ hub' = Past(s)
    /\ UNCHANGED <<feed, sleeve, killFile, portfolioHalted>>

-----------------------------------------------------------------------------
\* total_exposure_fraction(), over sleeves of equal capital.
Exposure == MapThenSumSet(LAMBDA s : sleeve[s].parts, SleeveIds)

Breach == Exposure > ExposureLimit

\* _dispatch_with_portfolio_check() replaced the hub's attribute after the real
\* feed had bound the original: only the synthetic feed, which is handed the
\* attribute by run(), passes here.
Checked == feed.kind = "synthetic" /\ hub.count = 0

DispatchEnds ==
    /\ hub.at = "dispatched" /\ ~(Checked /\ ~portfolioHalted /\ Breach)
    /\ hub' = [hub EXCEPT !.at = "reading"]
    /\ UNCHANGED <<feed, sleeve, killFile, portfolioHalted, deskSpent>>

\* check_and_maybe_halt(): halted is set first; a failed write is only logged.
HaltAll ==
    /\ hub.at = "dispatched" /\ Checked /\ ~portfolioHalted /\ Breach
    /\ portfolioHalted' = TRUE
    /\ killFile' \in {TRUE, killFile}
    /\ hub' = [hub EXCEPT !.at = "reading"]
    /\ UNCHANGED <<feed, sleeve, deskSpent>>

-----------------------------------------------------------------------------
OperatorDoes == deskSpent.operations < MaxOperations
                /\ deskSpent' = [deskSpent EXCEPT !.operations = @ + 1]

\* An operator stops the desk, makes or removes the file, or resets a sleeve.
StopDesk   == /\ OperatorDoes /\ ~feed.stop /\ feed' = [feed EXCEPT !.stop = TRUE]
              /\ UNCHANGED <<hub, sleeve, killFile, portfolioHalted>>
TouchFile  == /\ OperatorDoes /\ killFile' = ~killFile
              /\ UNCHANGED <<feed, hub, sleeve, portfolioHalted>>
ResetSleeve(s) == /\ OperatorDoes /\ sleeve[s].halted
                  /\ sleeve' = [sleeve EXCEPT ![s].halted = FALSE]
                  /\ UNCHANGED <<feed, hub, killFile, portfolioHalted>>

DeskNext ==
    \/ MarketSends \/ ReadMessage \/ MakeMessage \/ DeskEnds \/ DispatchEnds \/ HaltAll
    \/ \E s \in SleeveIds : Observe(s) \/ DecideNothing(s) \/ SubmitOrder(s) \/ Fill(s)
                            \/ SleeveRaises(s) \/ ResetSleeve(s)
    \/ StopDesk \/ TouchFile

DispatchStep == \E s \in SleeveIds : Observe(s) \/ DecideNothing(s) \/ SubmitOrder(s) \/ Fill(s)

DeskSpec == DeskInit /\ [][DeskNext]_deskVars

\* The market goes on, and the event loop runs what is ready.
FairDeskSpec ==
    /\ DeskSpec
    /\ WF_deskVars(MarketSends) /\ WF_deskVars(ReadMessage \/ MakeMessage)
    /\ WF_deskVars(DispatchStep) /\ WF_deskVars(DispatchEnds \/ HaltAll)

-----------------------------------------------------------------------------
\* "every subscriber sees the exact same sequence of messages" (shared_feed_hub:37):
\* a dispatch ends only when each sleeve was given the message, although some
\* raise and some sleep out an order within it.
SleevesHearAlike == hub.at = "dispatched" => hub.called = SleeveIds

\* On the feed that passes the check, an exposure over the limit halts the
\* portfolio; and the file, "so every sleeve's own RiskGuardian ... picks it up on
\* its very next check" (multi_sleeve_orchestrator:78), halts every sleeve,
\* whatever its orders look like: unless the breach, the file or the desk goes first.
HaltsArrive ==
    /\ (feed.kind = "synthetic" /\ Breach) ~> (portfolioHalted \/ ~Breach \/ feed.stop)
    /\ \A s \in SleeveIds : killFile ~> (sleeve[s].halted \/ ~killFile \/ feed.stop)
=============================================================================
