# TradeJack, specified in TLA+

Specifications of TradeJack: of the parts that decide whether, with what and against which
account it trades, and of the parts that produce what it trades with. They are checked by TLC on
small instances; the properties that matter most are proved by TLAPS for every value of the
constants. Paths below are relative to the repository.

1. [The system](#the-system) 2. [Modules](#modules) 3. [Runs](#runs)
4. [Fairness](#fairness) 5. [Proofs](#proofs) 6. [Findings](#where-code-and-documents-disagree)
7. [Other behaviours](#behaviours-no-document-rules-out) 8. [Not modelled](#not-modelled)
9. [Plan](#plan)

## The system

TradeJack trains reinforcement-learning agents on order-book replay, promotes the best one
and trades with it. Python, asyncio, one event loop per process, state kept in files and SQLite.

### Trading and its control

| Component | State | Operations | What is hard | What makes it correct |
|---|---|---|---|---|
| `execution/risk_guardian.py` | two halted flags, reasons and times, daily baseline, equity and peak, order times, last flip tick; `KILL_SWITCH`, `ACTIVE_HALT.json`, alert history | `check`, `record_order_submitted`, `update_equity`, `check_order_allowed`, `execute_safe_order`, `get_risk_summary`, `reset_halt` | resets on several worker threads; an await between check and record; failed writes; restarts | halts are sticky, orders bounded and spaced, the marker says what is so |
| `execution/live_exchange_bridge.py` | cached position, cash, equity, peak, drawdown; reconcile task; order in flight | depth update, reconcile, submit target | two tasks await the exchange: torn reads, late answers, timeouts, partial fills | the cache is the account, or there is a reason; it comes to agree again |
| `execution/exchange_adapter.py`, `oanda_adapter.py` | connection, heartbeat, ban tracker | connect, balances, ticker, market order | a ban met by one of several callers in two processes | a registered ban stops the calls |
| `execution/live_inference_server.py` | model, buffer, tick, first testnet start | gates, start, think, act, hot swap, stop | model swapped from a thread; torn log and state files | what failed its validation does not trade; live comes after the testnet |
| `execution/live_composer.py`, `composition_layer.py`, `position_throttle.py`, `performance_tracker.py` | cached toxicity, loss streak | compose one order | readings that age, an equity nobody updates | an order is sized by fresh data and judged by the account |
| `execution/binance_live_feed.py`, `data_forge/lob_collector.py` | local order book, resync count | connect, apply a diff, resync, give up | gaps, reconnects, snapshots older or newer than the diffs | the book is the exchange's |
| `execution/multi_sleeve_orchestrator.py`, `shared_feed_hub.py`, `paper_exchange.py` | sleeves, one feed, exposure halt | dispatch, check exposure, halt all | sequential dispatch with a sleep in it, a halt through a file | every sleeve hears every message, and every halt |
| `execution/portfolio_allocator.py`, `portfolio_orchestrator.py` | role holders, dwell counts, capital | run cycle | scores and prices that come and go | capital stays in the pool, roles do not flap |
| `execution/control_panel_api.py` | server, trainer, their tasks | start and stop trading and training, reset, approve | `def` endpoints run on worker threads; tasks start later than requests | requests do what they say |
| `execution/command_channel.py` | command files | issue, poll | crashes, raising handlers, a command issued while its file is read | one poll takes what was issued before it |
| `scripts/process_supervisor.py` over `genesis_prime.py` | child, restart times, backoff, alert file | spawn, poll, back off, open the breaker, signal handler | signals between any two statements; exit codes; its own death | no orphans, crashes answered, crash loops bounded |
| `scripts/train_and_promote.py`, `promote_candidate.py` | checkpoint file, promotion log | copy, record | a death between or within the two; a path spelled in another way | the log tells of the file |

### Learning and the swarm

| Component | State | Operations | What is hard | What makes it correct |
|---|---|---|---|---|
| `training/continuous_trainer.py`, `crucible_tournament.py` | agents, checkpoints, pending promotions and records, deployed file | cycle, exploit, evaluate, queue, approve, promote | approval against a running cycle; crashes; failed copies and swaps | what trades was evaluated, approved and is the deployed file |
| `escrow/`, `swarm/social_relay.py` | balances, transactions | lock, validate, settle, refund, copy | several processes over one SQLite file | money is conserved, a trade moves once |
| `physics/portfolio_tracker.py` | ledger rows, pending tax, largest drawdown | record a step, flush, read taxes | a flush thread per episode, without a lock | taxes are charged once |
| `warden/` | summaries, tiers, quotas, locks, quarantine | audit, tax, tier, terminate, purge | two auditing processes that share files | restrictions arrive; files are erased only when they earned it |
| `swarm/child_agent.py`, `git_rollback.py`, `rl_trainer.py` | model, tags, marks | three training loops, tag, broadcast, roll back | tags, drawdowns and broadcasts interleave | a rollback goes back to near the peak |
| `swarm/replay_buffer.py` | ring, position, priorities | push, learn, save, load | restarts that lose or restore part of it | the latest experience is kept |
| `physics/lob_env.py`, `data_forge/kvikio_streamer.py` | episode, prefetch threads, cached rows | reset, step, prefetch | threads of past episodes | rows come in the market's order |
| `data_forge/lob_collector.py`, `live_trade_bridge.py`, `feature_engineering.py`, `storage_manager.py` | buffers, live, raw and physics files | capture, flush, bridge, engineer, evict | flush failures, midnight, two writers | a trade is in one place, a row in one file |
| `data_forge/training_table_builder.py`, `time_alignment.py`, `training/supervised_predictor.py` | legs, grid, table, folds, leg file | load, align, split, fit, write | staleness counts, embargo, the time a prediction is written at | nothing knows its future |

How they meet: the feed awaits `server._on_update` (through the hub when there are several sleeves),
which updates the exchange object (paper or bridge), lets the model think, asks
`RiskGuardian.check`, composes and records the order and awaits the exchange. The trainer lives on
the same event loop and hands weights to the server through the deployed file and
`hot_swap_model`. The panel is in the same process but answers `def` endpoints on worker threads. The
supervisor sees only the process: its exit code and signals. The children of the swarm are
processes that meet in SQLite files; the Warden's two processes meet them there and in lock
files. The collector's files reach the trainer through the data forge.

## Modules

| Module | Models |
|---|---|
| `RiskGate` | abstract: a latch only an operator opens, and a sliding budget of orders |
| `RiskGuardian` | the guardian's methods, each one action |
| `GuardianOperations` | extends it: the event loop and the panel's worker threads, statement by statement, and restarts |
| `LiveExchangeBridge` | the bridge, what the adapter answers, and the account behind them |
| `ExchangeCalls` | who calls the exchange when, bans, heartbeats, both venues |
| `PromotionPipeline` | trainer, approval threads, deployed file and hot swap |
| `PromotionGates` | what the two scripts copy and record; both gates of a server's start |
| `OrderComposition` | one order from the policy's proposal to the position |
| `DepthFeed` | the local order book, for the live feed and for the collector |
| `TradeDesk` | hub, sleeves, paper exchanges, exposure check and kill-switch file |
| `CapitalAllocation` | roles and capital, cycle after cycle |
| `ControlPanel`, `CommandChannel` | endpoints and tasks; command files |
| `ProcessSupervisor` | supervisor loop, signal handler, and child |
| `WeightsMarket` | abstract: a lock is covered, and a trade moves once |
| `EscrowBridge` | extends it: buyers, settlers, crashes and SQLite errors |
| `ChildLedger` | a child's engines and flush threads, and its taxes |
| `WardenAudit` | audits by two processes, watchdog locks, quarantine |
| `SovereignChild` | a child's construction, loops, tags and rollbacks |
| `ReplayMemory` | the experience ring through saves and restarts |
| `LobEpisode` | episodes, prefetch threads and the cache between files |
| `TradePipeline` | a trade from the socket to the training rows |
| `TrainingTable` | legs, grid, staleness, folds, and the predictor's leg |
| `Extremes` | lemmas: what `Min` and `Max` of a set of naturals are |
| `*Proofs` | theorems |
| `MC*` | constants for TLC, and what is explored together |

Definitions that follow a comment beginning "Variation:" stand next to the definition they vary.
No specification uses them: each is a plausible mistake in the code that one of the properties
must catch.

How the state of the larger modules corresponds to the code:

**RiskGuardian.** Fields keep their names. `halt` gathers the six fields `_trigger_halt` and
`reset_halt` assign together. `Check` is one decision of `_maybe_act`: tick, `check()` with all
its early returns in their order, and `record_order_submitted()` unless the composer
suppressed the order (`submits`). `SafeOrderCheck`, `SafeOrderDone`, `SafeOrderFails` are
`execute_safe_order` up to and after its await. `orders` and the order numbers are history, so that a
property can speak of orders the code has pruned. Fractions are percentages; a comparison such as
`loss_pct >= limit` becomes its integer cross-product. `EntryPoints` says which methods a
deployment calls.

**GuardianOperations.** `check()` on the loop is split where it touches what the panel's thread
touches: each assignment of `_trigger_halt`, the read and claim of `_maybe_send_reminder`, the two
files of `_fire_alert`; `reset_halt` likewise. The rest of `check()` shares nothing with the panel
and stays in one step. `panel` has an entry per worker thread, since the endpoint is a plain `def`
without a lock: a second reset is accepted while a first is running, as long as the flag it looks
at is still up, and `overlapped` records that. `owed` is history: a halt nobody has reset. `Restart`
is `__init__` again: it reads no file.

**LiveExchangeBridge.** `account` is the exchange's truth. `rec` is `_reconcile_once` with its
two reads; `ord` is `submit_target_position` with its answer. `drift` is history: what has
happened since a clean reconcile that could make cache and account differ. The feed awaits
its callback, so no depth update comes while an order is out, and one order is out at a time.

**ExchangeCalls.** `call` is what each of three users waits for: the reconcile task, the order, and
the dashboard, a process with an adapter of its own. `adapter` is what `BinanceSpotAdapter`
remembers. A ban of the exchange's is on the address, so it answers all of them; only the order's
path registers it. `told` is history.

**PromotionPipeline.** Weights are the n-th an agent produced. The trainer holds the event loop
through a cycle, so requests are taken only while it sleeps; an approval already on its worker
thread goes on meanwhile. Each step of the approval that touches something shared is an action:
find, copy, load, assign, finish. A save or a copy can fail half way and leave `Torn`. The
evaluation's verdict is a free choice, and so is which agent is the champion, the best or the worst.

**PromotionGates.** `deployed` is the checkpoint file, the promotion log a sequence of what its
lines say, `Torn` a line or a state file half written. A line names the file as the operator spelled
`--state-dir`; `Norm` is what the server's `_norm` makes of a spelling, and it does not resolve an
absolute path. `swap` follows the trainer from its copy to its swap, and tells whether a script has
overwritten the copy in between. `StartServer` loads the model, then goes through
both gates, then dates the first testnet start, in the code's order. The operator runs one script at a time.

**OrderComposition.** A proposal is a number of parts of the equity; multipliers and throttles are
parts of `Unit`, so a composed size is exact. `decision` records which branch an order took.

**DepthFeed.** The quantity at a level is the number of the update that set it, so a wrong level
shows. Diffs sent while nobody is connected are lost; a REST snapshot may be `RestLag` updates old.

**TradeDesk.** `hub` is the dispatch loop: whom it called, whom it calls next. A sleeve's order sleeps
out its latency inside the dispatch, as `PaperExchange` does. The kill-switch file is one for all sleeves.

**ProcessSupervisor.** `pc` follows `run()`. A signal may come between any two statements; the
handler then holds the thread until the child is gone. Times are ages and times left, capped at
`Window + 1`, so the state space is finite although the system runs for ever. `restarts` is the list
the breaker reads, pruned as the code prunes it; `spawns` is history: the ages of the latest
`MaxRestarts + 1` spawns of this supervisor, which the list is judged by. The child boots, trades,
stops, crashes, or ends by itself because its feed gave up. A supervisor that is itself killed is at
`killed` and not `done`, so that its death excuses what its own end does not.

**EscrowBridge.** `worker` is what each process is doing with which trade, `balance` and `trades`
the two tables. Each connection to SQLite is one step, and any may raise. `abandoned` is history:
trades whose process died or could not write.

**ChildLedger.** `engine` and `flusher` have one entry per episode, because `reset()` closes
neither. The flush thread reads the new assessments, loads `pending_tax` and stores the sum in three
steps; the step that takes and zeroes it may come in between (`raced`).

**CommandChannel.** A command's file holds the number of the issue that wrote it. The poller is
external: no process of the repository polls, so what is checked is what one that does would get.

**SovereignChild.** `account` keeps the equity, the peak and whether the largest drawdown has reached
the threshold; `marks` is what `GitFinancialRollback` remembers. The legacy loop tags and rolls back at
every step; the SB3 loop tags what is left when its trainer is done, and rolls nothing back.

**ReplayMemory.** A transition is the number of its push. `Save` empties the file before it writes, so
a save that fails or dies leaves none that can be loaded. `line` is history: what the ring should be a
suffix of.

**LobEpisode.** A row is its number in the market's time over all files; a day without bars has a file
without rows. The tail of a file goes into the cache and before the next file's rows under the name
the environment has at that moment, and any fetch or save of it may fail. `tainted` is
history: a thread was given a tail other than that of its own last batch.

**TradePipeline**, **TrainingTable.** A trade is its number; a value in the table is the time it was
observed at; a fitted model is the last time it saw. Time is counted in the finest unit rows are stamped
with, so a grid of a larger step has values between its points, which the exact join drops. The
embargo is an input. `TrainAndWriteLeg` ends in `raised` where the verdict is a promotion.

## Runs

| Run | Shows | Bounds |
|---|---|---|
| `server` | of the guardian: marker, hold time, alert spacing and the refinement of `RiskGate`, for the loop's use; of the pipeline: what trades, from whom; answers | guardian: 2 orders per window, a day of 4 and a window of 3 within the clock bound: days roll over, windows slide, several halts and resets follow each other. Pipeline: 2 agents of different algorithms, 2 weights each, 1 approval at a time, any number of restarts |
| `orders` | of the guardian: the rate limit with every entry point; of the bridge: what makes the cache differ, and eventual agreement | guardian: `check()` with 1 safe order in flight and 4 orders around a window that slides once, on a disk that takes every write; the theorem has any number and any disk. Bridge: 2 orders, 1 deposit, 2 prices, all faults: every order can overlap a reconcile, fail or settle unreported |
| `races` | drift only towards refusing; no newer halt lost; unless two resets overlapped | 2 worker threads, 2 resets, 1 restart, 3 decisions: a reset can overlap the next halt and the other reset |
| `desk` | fifteen properties of nine modules of trading and its control | below |
| `swarm` | thirteen properties of eight modules of the swarm and its data | below |
| `phantom`, `gate`, `veto`, `panel`, `resets`, `spelling`, `giveup` | one documented promise each that the code does not keep: see [below](#where-code-and-documents-disagree) | as little as the counterexample needs |

The modules of `MCServer` share no state with each other, nor do those of `MCOrders`, `MCDesk` or
`MCSwarm`. Each of these runs picks one at its start (`topic`, `subject`) and leaves the others at a first state, so
the state space is the sum of theirs and not the product. The Warden is explored in two parts, without
quarantine events and with nothing else, as the two halves touch different files; the environment over
its resets, and over restarts of its process.

What the bounds of `desk` let happen: a book with two levels and four updates (a gap, an overlap, a
snapshot older than the first diff); two sleeves of different cadence, one of which raises; three
instruments for two roles over any number of cycles; a reading that ages past its limit; two starts
of each kind; a command issued again while its file is read; two crashes in three units of time, and
any number of lives, one of them killed; a ban, its end, and a second life that forgot it; two
checkpoints of two algorithms with every torn file and two spellings of their path.

And of `swarm`: two children that each sell and buy, and an operator who settles by hand; two
engines flushing, one of them closed; two auditors over one child; files shorter than a tail or
without rows, tails that are lost, and a queue of one batch that is full; a ring of two, pushed past
its end, saved whole or torn and restored twice; two days with a trade before midnight flushed after
it; two legs with a missing and an unreadable file, on a grid of every unit and of every second one;
the default embargo, one that touches and one that does not; three model names, one of them unknown;
gains larger than a tag's step, a loss past the threshold and a recovery from it.

Every trace bound is a constant named in the module's list as a bound. Deadlock is checked in
`gate` and `veto`. The other systems really stop: a clock, a counter, the market or the
supervisor comes to its end.

What the properties are restricted to, and why:

- `RateLimit` counts what the code counts. `execute_safe_order` records an order only when the
  exchange has answered, so each order that waits for its answer is unseen by the next check:
  beside `check()` every one in flight can be one beyond the limit, among concurrent calls of
  itself all but one (`Unseen`). The loop alone, as the repository runs it, keeps the limit exactly.
- `DriftIsFailSafe` and `HaltNotLost` leave out a process in which two resets ran at once. There both
  break: the slower reset can clear `_halted` under a new halt, and leave `is_halted` up. The run
  `resets` is about that. `AlertsSpaced` is for the loop's entry point: `update_equity` alerts again
  on every call in a halt.
- `FailedNeverTrades` is for a failure that is in the log under a path that `_norm` equates with the
  server's own: the run `spelling` has the others. And it leaves out a failed checkpoint that a
  script put over what the trainer had copied and was about to swap in: `hot_swap_model` reads no log,
  so it goes live.
- `LiveIsDeployed` is for one approval at a time: two worker threads can copy and assign in opposite orders.
- `ImplementsMarket` holds because each child is one process; a trade is retried by hand only
  while nobody works on it.
- `KeepsTheLatest` is for a buffer restarted with the same capacity: with a larger one the position
  restored is no longer that of the oldest. Its run gives one capacity; its theorem takes any, and
  assumes that no step changes it. A save that fails loses the former file too, and the next process
  then starts with an empty past.
- `RowsOnce` is for the cudf implementation of the buckets. The polars one keeps an open
  bucket's row, and a trade may end a row in two files. It holds partly because a day that is
  engineered again after its rows are in the next file gives a file without rows.
- `TimeMovesForward` leaves out an episode that was given the tail of another (`tainted`), which
  [does happen](#where-code-and-documents-disagree). At a file without rows the batch is the tail alone, and the last
  row is traded on again.
- `StaleMeansOld` speaks of values on the grid. Values between its points are dropped and counted
  nowhere, and a leg without any yet counts as seen at the first point. The documents say otherwise of both.
- `FoldsDoNotTouch` is for the default embargo and for a configured one of at least lookback +
  horizon - 1 rows. `PredictorConfig.embargo` takes any number, and under a smaller one folds do touch.
- `PeaksAreTagged` is of the legacy loop; the SB3 loop tags only the equity its training ended with.
- `DeadLettersEarned` says nothing of quarantine entries that are appended between an auditor's read
  and its truncation and are lost: they delay an isolation. It leaves out events both auditors have read.
- `OnePollIsEnough` takes a command as taken when its file is gone: that it was also acted on does not
  hold, as a command issued between the read and the removal goes with the one that was read.
- `StopsAreHeard` leaves out a stop of training that comes before the task's first step, which sets
  `is_running` again and so undoes it.
- `ChargedWhatItRead` allows a step to take a tax twice if it comes between the load and the
  store of `pending_tax`.
- `RestrictionsReachTheChild` and `HaltsArrive` name what may go first: bankruptcy, the reason
  passing, the desk being stopped. `HaltsArrive` is for the synthetic feed: over the real one the check
  is never reached; and for a kill-switch file that could be written.

## Fairness

- Bridge: weak fairness of the tasks the event loop runs, of the feed's updates and of the
  exchange's answers; strong fairness of the two balance requests, since each is retried for ever
  and may fail any number of times but not always. Orders and deposits have no fairness and
  are bounded: agreement is claimed once they stop.
- Supervisor: weak fairness of its loop, of its handler (`_poll_wait` has a deadline and ends in
  SIGKILL) and of time. Nothing is assumed of the child: it may hang, crash or ignore signals.
- Pipeline: weak fairness of an approval's own thread, nothing else. The trainer may stop for ever.
- Desk: weak fairness of the market's messages, of the feed's loop, and of the dispatch it awaits.
  A sleeve that raises is caught; an operator's acts have no fairness.
- Panel: weak fairness of the tasks on the event loop. Requests have none.
- Escrow: weak fairness of each process's next step in a trade it holds; a crash takes it away.
- Warden: weak fairness of the auditor's timer and of the steps of its audit. The API's audits have none.
- Episodes: weak fairness of the environment's caller and of each prefetch thread.
- The guardian, the book, the command channel, capital, composition, the gates, the ledger and the data modules claim no
  liveness; nothing in them waits.

## Proofs

All proofs are for arbitrary constants under the named assumptions of the modules, which are
naturals where the code has counts and limits, special values distinct from data, and the orderings the
configuration checks. TLC evaluates them in every run.

- `RiskGuardianProofs`. `TypeCorrect`, then `FlagsNeverDisagree`: every method writes the six halt
  fields together, and it needs that the last alert's time is never in the future. `HoldIsRespected`
  needs that `lastFlipTick` is the latest tick of the loop's orders, that no order's tick is ahead of the
  decision counter, and that order numbers grow with ticks. `RateIsLimited` needs that the pruned
  list holds every order of the current window, as pruning by any of three methods drops only what no
  window will count again; and that the orders of the window beyond the limit are no more than
  were in flight, unseen, when a later one was let through.
  `GuardianImplementsGate` (no safe order in flight) maps each method to a step of `RiskGate` or a
  stutter. An order in flight across a halt would be recorded while the latch is shut, which is why it is
  excluded. `MarkerIsTrue` (a disk that takes every write) follows from one lemma that says which alert
  each step sends. `AlertsComeSpaced` (no `update_equity`) needs that while the guardian is halted the
  last line of the history is no younger than the alert whose time it remembers (`Logged`).
  Of the threads (`GuardianOperations`), `DriftStaysSafe` and `NewerHaltsStay`, for any number of
  workers: neither property is inductive, since both look only at moments when all threads are out. The
  invariant `FlagsFollow` says where the threads may be while no two resets have overlapped: a
  reset is accepted only with both flags up and a trip begins only with `_halted` down, so they never
  start against each other; and only a reset at its fourth statement may see the flags differ the
  dangerous way. `Alone` says that without an overlap at most one worker is in a reset.
- `LiveExchangeBridgeProofs`. `DriftOnlyFromItsCauses` rests on an invariant about reconciles in
  flight: while `rec.clean`, the balances read are those of the account, and an empty `drift` implies
  equality up to one unapplied fill. `TradesOnlyReconciled` rests on an unreconciled bridge holding zero
  equity and no order under way.
- `ProcessSupervisorProofs`. `OrphansExplained`: outside the spawn window, a live child is
  the one `_proc` names or a handler has dealt with it, unless a cause was recorded.
  `AlertForbidsSpawning`: with the alert on, the loop is over. `CrashesAreBounded` relates the two
  lists. What the breaker reads is the end of what happened: from the list's end backwards, each recorded
  crash is no older than the spawn of the process that crashed (`Matches`), while a child is looked
  after the record is one behind (`Settled`), and the list drops a crash only when it is out of the
  window, and then so is its spawn. The breaker lets the loop go on only with fewer than `MaxRestarts`
  on record, so of one spawn more than that the oldest is out of the window.
- `PromotionPipelineProofs`. Type correctness, then three small invariants. `AlgorithmInv` and
  `DeployedInv` say of the model an approval has loaded what the property says of the one that
  trades. `PassedInv` adds the agent about to be recorded. `ApprovalsOneAtATime` assumes a single approver.
- `DeskProofs`. `BansAreKept`: the step that lets an order's 418 be noted registers the ban, and only
  a new process forgets either (`Noted`); and no order is under way during one (`NoOrder`).
  `LiveComesLate`: the date in the file is no earlier than the first testnet start, and both are past
  (`Since`). `FailuresAreRefused` (`Logs`): a verdict that is in the log under a path `_norm` equates with the
  server's own is the last one that names the checkpoint, and a script that has still to record carries
  the verdict of the file it has copied, so nothing recorded in between hides a failure. `BooksAreExact` (`BookInv`): what the diffs on the wire
  and the book's last update name has happened and stays so, and a diff that continues a true book
  leaves a true book. `AllSleevesHear` (`HeardInOrder`): a dispatch has called the sleeves before the
  next one, no others. `ReadingsAreFresh` (`AgeIsTrue`): the age in the cache is the age of the reading.
  `HoldersStay` (`HeldTrue`): the two holders differ and the dwell counted is the tenure; a best
  instrument exists, as they are finitely many. `CapitalFits`: the property counts the parts of the pool
  that have been given, each with its instrument, instead of summing over the instruments, since a sum
  over a set is a recursion the provers cannot unfold. At most two instruments are given any, and the
  cap of the Primary and two fifths of what it gets fit the pool for every rounding of the divisions.
  `PollsTakeAll` (`OnTheList`): what had been issued before a poll began is gone, on its list or in hand.
- `SwarmProofs`. `PeaksStayTagged` (`Tagged`): a step that brings the equity a tag step above the last tag makes a
  tag, and a rollback lowers the mark and neither the tag nor the peak. `TaxesAreCharged`: what an engine has read is in what it charged and in what is pending,
  and, while the thread adds, in what the thread loaded too (`Balanced`); the sums assessed only grow.
  `IsolationIsEarned` (`Strict`): of each file, what is counted as strikes, held by a process
  that has emptied the log and still has to count it, and in the log, is never more than what was
  appended. It breaks exactly where both processes hold the same lines, and `overlapped` records that.
  `EscrowImplementsMarket` is a refinement with the identity on both tables. `EscrowInv` says what a
  process knows of its trade: the balance it checked still covers the price, as only the buyer's own
  process takes from it (`JobTrue`), and nobody else works on that trade (`OneEach`), so the status it
  read before validating is still the status when it pays.
- `DataProofs`. `FoldsAreApart`: what a row touches reaches `Lookback` back and `Horizon` on, which the
  default embargo and any of `LongEnough` cover for every grid; its only invariant is that grids have a
  length (`GridTyped`). `FlagsCountStaleness` counts the points of a group: they are those since the
  last value that was on the grid.
  `TradesAreKept` (`Placed`): a captured trade is in the buffer, lost, or in one day's file.
  `RowsAreWrittenOnce` needs two more invariants. `Ordered`: a flush empties the whole buffer, so
  files of later days hold later trades, and one flush goes to one file. `Sourced`: a raw file is a part
  of the day's live files or the bulk download of a day that is over, and a file of rows that has any
  has the row of its last trade. Then the cut at the latest row of the earlier file leaves nothing
  another file has. `RingsAreKept` (`Ring`): the slots before the position hold the latest of the line and
  those from it on the ones before, for the buffer and for the saved file alike. `TimeIsKept`: for an
  episode whose cache is its own (`Untainted`), the batches a thread has offered, the one it holds and
  the tails it has saved rise, none beyond the first row it has not loaded, and each batch is later than
  the one before beyond the tail they share. A file shorter than that tail is why only the last row and
  those behind a full tail can be compared (`Later`), and one without rows why the last may be the same
  (`Before`).
- `Extremes`: the library defines `Min` and `Max` by `CHOOSE`; the lemmas say they are attained.

Every invariant and action property of a passing run that needs no fairness is stated by a theorem.
Only model-checked: all liveness (`EventuallyAgrees`, `CrashesAreAnswered`, `StopsWhenTold`,
`ApprovalsAreAnswered`, `HaltsArrive`, `StopsAreHeard`, `LockedIsAnswered`,
`RestrictionsReachTheChild`, `OldThreadsEnd`), which needs fairness and `ENABLED`, out of TLAPS's
reach here.

## Where code and documents disagree

Each of these has a run whose counterexample TLC prints.

1. `phantom`: a reconcile overlapping an order books a drawdown that never happened and keeps it for
   good (`live_exchange_bridge.py:203`, against its docstring at 191-192).
2. `gate`: the model that is evaluated and the checkpoint that is deployed can be different weights
   (`continuous_trainer.py:458`, against `README.md:32-34`).
3. `veto`: with the composer on, a live server's orders are judged by an equity that stays 0, and all
   are vetoed (`risk_guardian.py:292`, against `live_inference_server.py:426-429` and `669-670`).
4. `resets`: of two resets accepted for one halt, the slower one also ends the next halt
   (`control_panel_api.py:278`, against `risk_guardian.py:136-137`).
5. `spelling`: a failed promotion recorded under an absolute path is not seen by the gate, and its
   checkpoint trades unacknowledged (`live_inference_server.py:105`, against 74-76).
6. `giveup`: a feed that gives up ends the process with code 0, and the supervisor ends with it
   (`process_supervisor.py:236`, against 4-6 and `docs/PROCESS_SUPERVISION.md:3-6`).
7. `panel`: trading that is started again after a stop ends at once, and the panel answers ok
   (`control_panel_api.py:214`, against `frontend/control-panel/README.md:4`).

These were read in the source while modelling. They have no run, as one line of code shows each; the
models do what the code does.

- `write_predictions_leg` always raises: it imports a schema that is not there, and uses `os`, which it
  never imports (`supervised_predictor.py:442`). So neither the leg is written nor, behind it, the model
  saved (`train_supervised_predictor.py:160-170`); its docstrings (11 and 120) promise both.
- A leg's values between grid points are dropped by the exact join (`time_alignment.py:130`), where
  `docs/DATA_FORGE_FX_TOXICITY_PLAN.md:80-82` says irregular timestamps forward-fill onto the grid.
- A leg that has no value yet is null, and not flagged for its first buckets
  (`time_alignment.py:149`), where 13-15 say there is always a number.
- An episode can be given the tail of another: the thread reads the container's name when it uses it,
  and a reset has changed it by then (`lob_env.py:192`, against 191).
- The replay buffer evicts the oldest (`replay_buffer.py:129`, against "priority-based eviction", 8).
- A rollback is judged by the greatest drawdown there ever was (`child_agent.py:333`), so it is repeated
  after a full recovery, where `git_rollback.py:85` and `docs/SWARM_EVOLUTION.md:78` speak of the
  present one.
- Nothing calls `poll_and_execute` (`command_channel.py:68`), where its module says the trading loop does
  (24-26), and `README.md:51-52` builds on it. A command issued between the read and the removal of an
  earlier one is removed without being acted on (110, against 26-27).

## Behaviours no document rules out

The models have them because the code does; no run is about them.

Trading:
- A reset on the panel's thread can leave the two halted flags different; the drift is towards
  refusing, but the panel then refuses to reset too. A restart clears a sticky halt. A marker written by
  a reminder may outlive the halt a reset on the other thread has just cleared.
- A signal during a spawn leaves an orphan. The feed's resync count is never reset.
- `connect()` never looks at the ban tracker; a 418 to `get_ticker()` is swallowed and the order still
  sent, one to `get_balance()` not registered; a restart forgets the ban, and the dashboard never knew it.
- Behind OANDA the bridge asks for balances the adapter answers with 0.0 without a call, and
  so never trades.
- `PortfolioRiskAggregator.halted` is never reset, and the multi-sleeve real feed bypasses the
  exposure check.
- An instrument with score 0 can receive the Secondary's capital.

Promotion:
- A promotion can replace the file and keep the old model, and a restart then trades the baseline. An
  approval whose copy failed answers True, and one may remove the record of a newer one.
- `promote_candidate.py` records no target path, and the continuous trainer records nothing and
  deploys to a path without ".zip": neither is seen by the promotion gate. Between the trainer's
  copy and its swap a script can overwrite the file: a failed model goes live. A log that cannot be read
  lets any model load; a torn testnet file refuses live for good. The model is loaded before the gates.

Swarm and data:
- The validation of the escrow judges a random policy where the algorithm is not one it can load.
  The significance gate of the walk-forward evaluator is never reached.
- `check_circuit_breaker()` is called by nobody. The Warden stops containers by another name than they
  were started with.
- An unknown or rule-based model name raises at the child's first decision. The legacy loop never trains,
  the SB3 loop never rolls back, a rollback restores no weights, and the paths a child
  advertises never exist.
- `save_to_disk()` has no caller. A save that is cut off leaves a file that cannot be read, and the former
  one is gone.

## Not modelled

Numeric work (features, policies, regression, matching, rewards, statistics, gradients), data
download and conversion, read-only views, reports and one-shot scripts: their results are inputs
or free choices of the models. Wholly left out for that reason: session reports and streaming
features, the ingestion scripts, the Warden's other services, `swarm/baselines.py`,
`self_mod_manager.py` (only tests call it) and the progress ledger, the continual-learning
regularisers, scenario injection.

Of the components that are modelled in part: the bridge's fill ledger and `close()`; the adapter's
limit orders, filters and history reads, which nothing on the live path calls; the panel's status
reads and authentication; the server's telemetry; EWC re-anchoring; the ramps between a throttle's
ends; the depth partitions of the collector; `respawn_child()`.
`PROJECT.json` lists every component with its status.

## Plan

Done: the guardian, bridge, supervisor and promotion pipeline; then the escrow, ledger and Warden; panel
and command channel; feed, desk and capital; composition; exchange calls and gates; the child, its
experience, its environment and its data; and their proofs.

What would add most next, in order:

1. The trading session composed: `TradeDesk` over `RiskGuardian`, refining `RiskGate` for each sleeve,
   with the refinement proved.
2. The bridge's shutdown: an order that is cancelled while its answer is awaited.
3. The replay buffer restarted with another capacity: which transitions it keeps then.
