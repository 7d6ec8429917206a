---------------------------- MODULE ChildLedger ----------------------------
(***************************************************************************)
(* A child's ledger.sqlite and the survival tax: the accounting engine of  *)
(* physics/portfolio_tracker.py with its flush thread, one new engine per  *)
(* env.reset() (the older ones are never closed and go on flushing), the   *)
(* taxes that warden_core.py's audits and oom_watchdog.py insert from      *)
(* other processes, and the audits' reading of the newest row.             *)
(*                                                                         *)
(* An engine learns its taxes only when it flushes: the thread sums what   *)
(* is new in tax_assessments and adds it to pending_tax, which the next    *)
(* record_step() takes out of cash and equity.  Equity, ratios and         *)
(* drawdown decide nothing here: a row is the episode that wrote it.       *)
(***************************************************************************)
EXTENDS Integers, Sequences, FiniteSetsExt

CONSTANTS
    Amounts,       \* what one assessment may charge
    MaxTaxes,      \* bound: assessments of the child
    MaxSteps,      \* bound: steps, in all episodes
    MaxEpisodes,   \* bound: engines
    MaxFlushFails  \* bound: flushes that SQLite refuses

ASSUME LedgerAssumption ==
    /\ Amounts \subseteq Nat \ {0}
    /\ MaxTaxes \in Nat /\ MaxSteps \in Nat /\ MaxEpisodes \in Nat \ {0} /\ MaxFlushFails \in Nat

VARIABLES
    owed,       \* tax_assessments: owed[i] is the sum of the first i amounts
    taxedAt,    \* the UNIQUE (market_timestamp, tax_type) of those rows
    rows,       \* portfolio_state: tick_id -> the episode that wrote the row
    episode,    \* the engine env.accounting refers to
    engine,     \* every engine of the process, by episode
    flusher,    \* every engine's _flush_worker
    closed,     \* the engines env.close() has closed
    failures    \* flushes refused so far

ledgerVars == <<owed, taxedAt, rows, episode, engine, flusher, closed, failures>>

Episodes == 1 .. MaxEpisodes
OwedUpTo(i) == IF i = 0 THEN 0 ELSE owed[i]

NewEngine  == [ticks |-> 0, lastTax |-> 0, pending |-> 0, queue |-> {},
               charged |-> 0, raced |-> FALSE]   \* charged and raced are history
IdleThread == [at |-> "waiting", batch |-> {}, loaded |-> 0, sum |-> 0]

\* init_child_ledger() has put the starting capital at tick 0.
LedgerInit ==
    /\ owed = <<>> /\ taxedAt = {}
    /\ rows = [t \in {0} |-> 0]
    /\ episode = 1
    /\ engine = [e \in Episodes |-> NewEngine]
    /\ flusher = [e \in Episodes |-> IdleThread]
    /\ closed = {} /\ failures = 0

-----------------------------------------------------------------------------
StepsTaken == MapThenSumSet(LAMBDA e : engine[e].ticks, Episodes)

\* env.step() and record_step(): the pending tax is taken, in one go between two
\* switches of the interpreter, and the row is queued.
Step ==
    LET e == engine[episode] IN
    /\ episode \notin closed /\ StepsTaken < MaxSteps
    /\ engine' = [engine EXCEPT ![episode] =
           [e EXCEPT !.ticks = @ + 1, !.pending = 0, !.charged = @ + e.pending,
                     !.raced = @ \/ (flusher[episode].at = "adding" /\ e.pending > 0),
                     !.queue = @ \union {e.ticks + 1}]]
    /\ UNCHANGED <<owed, taxedAt, rows, episode, flusher, closed, failures>>

\* env.reset(): a new engine; the old one's thread is left running with its queue.
Reset ==
    /\ episode < MaxEpisodes
    /\ episode' = episode + 1
    /\ UNCHANGED <<owed, taxedAt, rows, engine, flusher, closed, failures>>

\* env.close(): the thread is stopped, and the last _flush_worker() returns at once.
Close ==
    /\ closed' = closed \union {episode}
    /\ UNCHANGED <<owed, taxedAt, rows, episode, engine, flusher, failures>>

-----------------------------------------------------------------------------
\* _flush_worker(): get() and get_nowait() until the queue is empty;
\* the thread of a closed engine may still be in get().
TakeBatch(e) ==
    /\ flusher[e].at = "waiting" /\ engine[e].queue # {}
    /\ flusher' = [flusher EXCEPT ![e] = [@ EXCEPT !.at = "writing", !.batch = engine[e].queue]]
    /\ engine' = [engine EXCEPT ![e].queue = {}]
    /\ UNCHANGED <<owed, taxedAt, rows, episode, closed, failures>>

WriteLockFree == \A e \in Episodes : flusher[e].at # "adding"

\* Variation: SUM over all assessments.
ReadTaxesFromTheFirst(e) ==
    /\ flusher[e].at = "writing" /\ WriteLockFree
    /\ flusher' = [flusher EXCEPT ![e] = [@ EXCEPT !.at = "adding", !.loaded = engine[e].pending,
                                                   !.sum = OwedUpTo(Len(owed))]]
    /\ engine' = [engine EXCEPT ![e].lastTax = Len(owed)]
    /\ UNCHANGED <<owed, taxedAt, rows, episode, closed, failures>>

\* executemany() opens the transaction; SUM(amount) of the ids above the last,
\* which is remembered at once; then "+=" loads pending_tax.
ReadTaxes(e) ==
    LET last == engine[e].lastTax IN
    /\ flusher[e].at = "writing" /\ WriteLockFree
    /\ flusher' = [flusher EXCEPT ![e] = [@ EXCEPT !.at = "adding", !.loaded = engine[e].pending,
                                                   !.sum = OwedUpTo(Len(owed)) - OwedUpTo(last)]]
    /\ engine' = [engine EXCEPT ![e].lastTax = Len(owed)]
    /\ UNCHANGED <<owed, taxedAt, rows, episode, closed, failures>>

\* INSERT OR REPLACE: over the rows of the same tick_id.
Written(e) ==
    [t \in DOMAIN rows \union flusher[e].batch |-> IF t \in flusher[e].batch THEN e ELSE rows[t]]

\* The sum is stored and the batch committed.  With nothing new (row[0] is None)
\* pending_tax is not touched.
AddAndCommit(e) ==
    /\ flusher[e].at = "adding"
    /\ engine' = IF flusher[e].sum = 0 THEN engine
                 ELSE [engine EXCEPT ![e].pending = flusher[e].loaded + flusher[e].sum]
    /\ rows' = Written(e)
    /\ flusher' = [flusher EXCEPT ![e] = IdleThread]
    /\ UNCHANGED <<owed, taxedAt, episode, closed, failures>>

\* SQLite raises: before the taxes are read, or at the commit, after they were
\* added.  The batch is dropped either way.
FlushFails(e) ==
    /\ failures < MaxFlushFails
    /\ \/ /\ flusher[e].at = "writing"
          /\ UNCHANGED engine
       \/ /\ flusher[e].at = "adding"
          /\ engine' = IF flusher[e].sum = 0 THEN engine
                       ELSE [engine EXCEPT ![e].pending = flusher[e].loaded + flusher[e].sum]
    /\ flusher' = [flusher EXCEPT ![e] = IdleThread]
    /\ failures' = failures + 1
    /\ UNCHANGED <<owed, taxedAt, rows, episode, closed>>

Flush(e) == TakeBatch(e) \/ ReadTaxes(e) \/ AddAndCommit(e) \/ FlushFails(e)

-----------------------------------------------------------------------------
\* ORDER BY tick_id DESC LIMIT 1.  The market time of tick t is t: every
\* episode replays the same files.
NewestTick == Max(DOMAIN rows)

\* apply_survival_tax(): INSERT OR IGNORE.  Two processes audit.
Tax(amount) ==
    /\ WriteLockFree
    /\ Len(owed) < MaxTaxes /\ NewestTick \notin taxedAt
    /\ owed' = Append(owed, OwedUpTo(Len(owed)) + amount)
    /\ taxedAt' = taxedAt \union {NewestTick}
    /\ UNCHANGED <<rows, episode, engine, flusher, closed, failures>>

\* apply_oom_penalty(): at its own wall-clock time, which no tax shares.
OomPenalty(amount) ==
    /\ WriteLockFree
    /\ Len(owed) < MaxTaxes
    /\ owed' = Append(owed, OwedUpTo(Len(owed)) + amount)
    /\ UNCHANGED <<taxedAt, rows, episode, engine, flusher, closed, failures>>

-----------------------------------------------------------------------------
LedgerNext ==
    \/ Step
    \/ Reset
    \/ Close
    \/ \E e \in Episodes : Flush(e)
    \/ \E amount \in Amounts : Tax(amount)
    \/ \E amount \in Amounts : OomPenalty(amount)

LedgerSpec == LedgerInit /\ [][LedgerNext]_ledgerVars

-----------------------------------------------------------------------------
\* However flushes fail and episodes change, an engine charges what it has read,
\* no less; and no more, unless a step took the pending tax while the thread was
\* adding to it.
ChargedWhatItRead ==
    \A e \in Episodes :
        LET x == engine[e]
            due == OwedUpTo(x.lastTax) - (IF flusher[e].at = "adding" THEN flusher[e].sum ELSE 0)
        IN  /\ x.charged + x.pending >= due
            /\ x.raced \/ x.charged + x.pending = due
=============================================================================
