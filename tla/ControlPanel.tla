---------------------------- MODULE ControlPanel ----------------------------
(***************************************************************************)
(* Starting and stopping through the panel: the one server and the one     *)
(* trainer of execution/control_panel_api.py's AppState, whose endpoints,  *)
(* trading loop and training loop share one event loop.  A task exists     *)
(* from create_task() on and does its first step later; in between other   *)
(* requests are served.  A session ends when its feed sees stop() at the   *)
(* next message, or gives up by itself; either way the server closes its   *)
(* exchange, and the panel keeps the server object for the next start.     *)
(***************************************************************************)
EXTENDS Integers

CONSTANT MaxStarts   \* bound: starts of each kind

ASSUME PanelAssumption == MaxStarts \in Nat

VARIABLES
    server,    \* AppState.server: built, its exchange closed, its feed's _stop
    trading,   \* _server_task: "none", "created", "running" or "done"
    trainer,   \* is_running
    training,  \* _trainer_task: the same, or "sleeping"
    starts,    \* bound's counters
    story      \* history: stops accepted, and the one before the trainer's first step

panelVars == <<server, trading, trainer, training, starts, story>>

PanelInit ==
    /\ server = [built |-> FALSE, closed |-> FALSE, stop |-> FALSE]
    /\ trading = "none" /\ trainer = FALSE /\ training = "none"
    /\ starts = [trading |-> 0, training |-> 0]
    /\ story = [tradingAsked |-> FALSE, trainingAsked |-> FALSE, early |-> FALSE]

TradingRuns  == trading \in {"created", "running"}
TrainingRuns == training \in {"created", "running", "sleeping"}

-----------------------------------------------------------------------------
\* POST /api/trading/start: the server is built once.
StartTrading ==
    /\ ~TradingRuns /\ starts.trading < MaxStarts
    /\ server' = [server EXCEPT !.built = TRUE]
    /\ trading' = "created"
    /\ starts' = [starts EXCEPT !.trading = @ + 1]
    /\ story' = [story EXCEPT !.tradingAsked = FALSE]
    /\ UNCHANGED <<trainer, training>>

\* Variation: a stop that only a running session sees.
StopTradingOfTheSession ==
    /\ TradingRuns
    /\ server' = [server EXCEPT !.stop = (trading = "running")]
    /\ story' = [story EXCEPT !.tradingAsked = TRUE]
    /\ UNCHANGED <<trading, trainer, training, starts>>

\* POST /api/trading/stop: nothing ever clears the feed's _stop again.
StopTrading ==
    /\ TradingRuns
    /\ server' = [server EXCEPT !.stop = TRUE]
    /\ story' = [story EXCEPT !.tradingAsked = TRUE]
    /\ UNCHANGED <<trading, trainer, training, starts>>

\* run_forever() reaches the feed, whose loop tests _stop first.
SessionBegins ==
    /\ trading = "created"
    /\ trading' = IF server.stop THEN "done" ELSE "running"
    /\ server' = [server EXCEPT !.closed = @ \/ server.stop]
    /\ UNCHANGED <<trainer, training, starts, story>>

\* The next message or reconnect shows the feed that it was stopped.
SessionStops ==
    /\ trading = "running" /\ server.stop
    /\ trading' = "done"
    /\ server' = [server EXCEPT !.closed = TRUE]
    /\ UNCHANGED <<trainer, training, starts, story>>

\* Out of resyncs the feed returns.
SessionGivesUp ==
    /\ trading = "running" /\ ~server.stop
    /\ trading' = "done"
    /\ server' = [server EXCEPT !.closed = TRUE]
    /\ UNCHANGED <<trainer, training, starts, story>>

-----------------------------------------------------------------------------
\* POST /api/training/start.
StartTraining ==
    /\ server.built /\ ~TrainingRuns /\ starts.training < MaxStarts
    /\ training' = "created"
    /\ starts' = [starts EXCEPT !.training = @ + 1]
    /\ story' = [story EXCEPT !.trainingAsked = FALSE, !.early = FALSE]
    /\ UNCHANGED <<server, trading, trainer>>

\* POST /api/training/stop.
StopTraining ==
    /\ TrainingRuns
    /\ trainer' = FALSE
    /\ story' = [story EXCEPT !.trainingAsked = TRUE, !.early = @ \/ training = "created"]
    /\ UNCHANGED <<server, trading, training, starts>>

\* run_continuous(): is_running is set here, and the agents may fail to load.
TrainerBegins ==
    /\ training = "created"
    /\ \/ training' = "running" /\ trainer' = TRUE
       \/ training' = "done" /\ trainer' = FALSE
    /\ UNCHANGED <<server, trading, starts, story>>

\* A cycle holds the event loop until its evaluation or its sleep.
TrainerSleeps ==
    /\ training = "running"
    /\ training' = "sleeping"
    /\ UNCHANGED <<server, trading, trainer, starts, story>>

\* The loop's test after the sleep.
TrainerWakes ==
    /\ training = "sleeping"
    /\ training' = IF trainer THEN "running" ELSE "done"
    /\ UNCHANGED <<server, trading, trainer, starts, story>>

-----------------------------------------------------------------------------
TradingStep  == SessionBegins \/ SessionStops
TrainingStep == TrainerBegins \/ TrainerSleeps \/ TrainerWakes

PanelNext ==
    \/ StartTrading \/ StopTrading \/ TradingStep \/ SessionGivesUp
    \/ StartTraining \/ StopTraining \/ TrainingStep

PanelSpec == PanelInit /\ [][PanelNext]_panelVars

\* The event loop runs its tasks, and messages or reconnects keep coming.
FairPanelSpec == PanelSpec /\ WF_panelVars(TradingStep) /\ WF_panelVars(TrainingStep)

-----------------------------------------------------------------------------
\* An accepted stop ends the session, also one that comes between the start and
\* the task's first step; and it ends the training, unless it came before that
\* step, which sets is_running again.
StopsAreHeard ==
    /\ (TradingRuns /\ story.tradingAsked) ~> ~TradingRuns
    /\ (TrainingRuns /\ story.trainingAsked) ~> (~TrainingRuns \/ story.early)

\* "You can start/stop trading and training" (README.md:51): a session that was
\* started, and not told to stop again, comes to run.
StartedTrades == (trading = "created") ~> (trading = "running" \/ story.tradingAsked)
=============================================================================
