--------------------------- MODULE TradePipeline ---------------------------
(***************************************************************************)
(* A trade's way from the stream to the training rows: LOBCollector of     *)
(* data_forge/lob_collector.py buffers and flushes it to the live files of *)
(* the day, bridge_live_trades_to_raw() copies those beside the bulk       *)
(* download, and TradeFlowPhysics of data_forge/feature_engineering.py     *)
(* turns a day's raw file into rows.  Two processes do the last step:      *)
(* ContinuousTrainer._bridge_live_data() for yesterday and today, once a   *)
(* cycle, and LiveTailDaemon.execute_daily_sync() for yesterday.           *)
(*                                                                         *)
(* A trade is its number in the market's time, of quantity 1; a row is the *)
(* last trade of its volume bucket.  The features of a row are left out.   *)
(***************************************************************************)
EXTENDS Integers, Sequences, FiniteSetsExt

CONSTANTS
    Workers,      \* which of "trainer" and "daemon" run
    Engines,      \* of "cudf" and "polars", the two implementations of the bucketing
    BucketSize,   \* trades of a bucket: a volume of 10 in the code
    MaxDay,       \* bound: days
    MaxTrades,    \* bound: trades in the market
    MaxStops,     \* bound: times the collector ends or crashes
    MaxCycles,    \* bound: cycles and syncs
    MaxEvictions  \* bound: files evicted

ASSUME PipelineAssumption ==
    /\ Workers \subseteq {"trainer", "daemon"} /\ Engines \subseteq {"cudf", "polars"}
    /\ BucketSize \in Nat \ {0} /\ MaxDay \in Nat \ {0} /\ MaxTrades \in Nat
    /\ MaxStops \in Nat /\ MaxCycles \in Nat /\ MaxEvictions \in Nat

VARIABLES
    today,       \* the UTC day
    dayOf,       \* the market: each trade's day
    collector,   \* [up, buffer]: the collector's run() and its trades_buffer
    captured,    \* history: trades the collector received
    lost,        \* history: trades that were in a buffer that died
    live,        \* data_store/live: day -> trades of its trades_HH.parquet files
    bridged,     \* data_store/raw: day -> the live-bridged file, {} for none
    bulk,        \* data_store/raw: days with a bulk download
    physics,        \* data_store/processed: day -> physics.parquet: its rows and its last
                 \* one; history: the trades and the remainder it was made of
    remainder,   \* state.json: day -> volume_remainder
    bucketing,      \* the implementation this machine has
    job,      \* what each worker is doing
    spent        \* [stops, cycles, evictions]: what the bounds count

pipelineVars == <<today, dayOf, collector, captured, lost, live, bridged, bulk, physics, remainder, bucketing, job, spent>>
dataFiles        == <<live, bridged, bulk, physics, remainder>>
machine      == <<today, dayOf, bucketing>>
capture      == <<collector, captured, lost>>

MarketDays == 1 .. MaxDay
MarketTrades == DOMAIN dayOf
TradesOf(d) == {t \in MarketTrades : dayOf[t] = d}
NoRows    == [is |-> FALSE, at |-> {}, last |-> 0, raw |-> {}, prev |-> 0]
AtRest    == [at |-> "rest", days |-> {}, day |-> 0, raw |-> {}, prev |-> 0]

PipelineInit ==
    /\ today = 1 /\ dayOf = <<>> /\ captured = {} /\ lost = {}
    /\ collector = [up |-> TRUE, buffer |-> {}]
    /\ live = [d \in MarketDays |-> {}] /\ bridged = [d \in MarketDays |-> {}]
    /\ bulk = {} /\ physics = [d \in MarketDays |-> NoRows]
    /\ remainder = [d \in MarketDays |-> 0] /\ bucketing \in Engines
    /\ job = [w \in Workers |-> AtRest]
    /\ spent = [stops |-> 0, cycles |-> 0, evictions |-> 0]

-----------------------------------------------------------------------------
\* The market trades; a running collector buffers what it is sent.
TradeArrives ==
    /\ Len(dayOf) < MaxTrades
    /\ dayOf' = Append(dayOf, today)
    /\ IF collector.up
       THEN /\ collector' = [collector EXCEPT !.buffer = @ \union {Len(dayOf) + 1}]
            /\ captured' = captured \union {Len(dayOf) + 1}
       ELSE UNCHANGED <<collector, captured>>
    /\ UNCHANGED <<today, bucketing, lost, live, bridged, bulk, physics, remainder, job, spent>>

Midnight ==
    /\ today < MaxDay
    /\ today' = today + 1
    /\ UNCHANGED <<dayOf, bucketing, capture, dataFiles, job, spent>>

\* _flush_trades_buffer(): the partition is that of the flush's own hour.
FlushTrades ==
    /\ collector.up /\ collector.buffer # {}
    /\ live' = [live EXCEPT ![today] = @ \union collector.buffer]
    /\ collector' = [collector EXCEPT !.buffer = {}]
    /\ UNCHANGED <<machine, captured, lost, bridged, bulk, physics, remainder, job, spent>>

\* Variation: the buffer is cleared whether or not the write succeeded.
FlushTradesFailsClearing ==
    /\ collector.up /\ collector.buffer # {}
    /\ collector' = [collector EXCEPT !.buffer = {}]
    /\ UNCHANGED <<machine, captured, lost, dataFiles, job, spent>>

\* The write of the temporary file fails: logged, the buffer is kept.
FlushTradesFails ==
    /\ collector.up /\ collector.buffer # {}
    /\ UNCHANGED pipelineVars

\* run() ends at a closed socket or its duration; its finally flushes once.
CollectorEnds ==
    /\ collector.up /\ spent.stops < MaxStops
    /\ collector' = [up |-> FALSE, buffer |-> {}]
    /\ \/ live' = [live EXCEPT ![today] = @ \union collector.buffer] /\ UNCHANGED lost
       \/ lost' = lost \union collector.buffer /\ UNCHANGED live
    /\ spent' = [spent EXCEPT !.stops = @ + 1]
    /\ UNCHANGED <<machine, captured, bridged, bulk, physics, remainder, job>>

CollectorStarts ==
    /\ ~collector.up
    /\ collector' = [up |-> TRUE, buffer |-> {}]
    /\ UNCHANGED <<machine, captured, lost, dataFiles, job, spent>>

-----------------------------------------------------------------------------
\* _bridge_live_data() takes both dates at the start of the cycle.
CycleStarts ==
    /\ job["trainer"].at = "rest" /\ spent.cycles < MaxCycles
    /\ job' = [job EXCEPT !["trainer"] = [AtRest EXCEPT !.at = "next", !.days = {today - 1, today} \ {0}]]
    /\ spent' = [spent EXCEPT !.cycles = @ + 1]
    /\ UNCHANGED <<machine, capture, dataFiles>>

\* bridge_live_trades_to_raw(): the day's live files, or nothing to do.
Bridge ==
    LET w == job["trainer"]
        d == Min(w.days)
    IN /\ w.at = "next" /\ w.days # {}
       /\ bridged' = [bridged EXCEPT ![d] = IF live[d] = {} THEN @ ELSE live[d]]
       /\ job' = [job EXCEPT !["trainer"] =
                        IF live[d] = {} THEN [w EXCEPT !.days = @ \ {d}]
                        ELSE [w EXCEPT !.at = "load", !.days = @ \ {d}, !.day = d]]
       /\ UNCHANGED <<machine, capture, live, bulk, physics, remainder, spent>>

\* execute_daily_sync(): yesterday's bulk file, unless the download fails, which
\* returns "" and raises nothing.
SyncStarts ==
    /\ job["daemon"].at = "rest" /\ spent.cycles < MaxCycles /\ today > 1
    /\ \/ TradesOf(today - 1) # {} /\ bulk' = bulk \union {today - 1}
       \/ UNCHANGED bulk
    /\ job' = [job EXCEPT !["daemon"] = [AtRest EXCEPT !.at = "load", !.day = today - 1]]
    /\ spent' = [spent EXCEPT !.cycles = @ + 1]
    /\ UNCHANGED <<machine, capture, live, bridged, physics, remainder>>

\* An ingest run by hand, of any day that is over.
BulkArrives ==
    /\ \E d \in MarketDays : /\ d < today /\ d \notin bulk /\ TradesOf(d) # {}
                             /\ bulk' = bulk \union {d}
    /\ UNCHANGED <<machine, capture, live, bridged, physics, remainder, job, spent>>

-----------------------------------------------------------------------------
\* _select_aggtrades_file(): the bulk file if there is one.
RawOf(d)         == IF d \in bulk THEN TradesOf(d) ELSE bridged[d]
\* _get_previous_remainder(): keyed by the day before.
RemainderFor(d)  == IF d = 1 THEN 0 ELSE remainder[d - 1]
Done(w)          == IF job[w].days = {} THEN AtRest ELSE [AtRest EXCEPT !.at = "next", !.days = job[w].days]

\* process_daily_file() reads the raw file and the remainder before it.
LoadDay(w) ==
    LET d == job[w].day
    IN /\ job[w].at = "load"
       /\ job' = [job EXCEPT ![w] = IF RawOf(d) = {} THEN Done(w)
                         ELSE [@ EXCEPT !.at = "save", !.raw = RawOf(d), !.prev = RemainderFor(d)]]
       /\ UNCHANGED <<machine, capture, dataFiles, spent>>

\* _save_remainder(): the volume left over after the day's last bucket.
SaveRemainder(w) ==
    LET d == job[w].day
    IN /\ job[w].at = "save"
       /\ remainder' = [remainder EXCEPT ![d] = (job[w].prev + Cardinality(job[w].raw)) % BucketSize]
       /\ job' = [job EXCEPT ![w].at = "write"]
       /\ UNCHANGED <<machine, capture, live, bridged, bulk, physics, spent>>

\* The buckets: a trade ends one if the next trade falls into another.
Ranked(raw, t)     == Cardinality({u \in raw : u <= t})
Buckets(raw, prev) ==
    {t \in raw : t = Max(raw) \/ (prev + Ranked(raw, t)) \div BucketSize
                                 # (prev + Ranked(raw, t) + 1) \div BucketSize}

\* _get_dynamic_lookback_path(): the last other file there is, earlier or later.
LookbackDay(d) == LET others == {e \in MarketDays \ {d} : physics[e].is}
               IN IF others = {} THEN NoRows ELSE physics[Max(others)]

\* The rows after the seed, whose time is its latest one under cudf and that of
\* its last row under polars.
Cut(seed)   == IF bucketing = "cudf" THEN Max(seed.at) ELSE seed.last
\* Variation: the seed's own rows are not sliced off again.
KeptRowsAndSeed(w) == LET seed == LookbackDay(job[w].day)
                      IN Buckets(job[w].raw, job[w].prev) \union seed.at

\* An empty seed: no comparison with its missing time holds under cudf.
KeptRows(w) == LET seed == LookbackDay(job[w].day)
                   all  == Buckets(job[w].raw, job[w].prev)
               IN IF ~seed.is THEN all
                  ELSE IF seed.at = {} THEN {}
                  ELSE {t \in all : t > Cut(seed)}

\* unique() without maintain_order leaves the order, so the last row, open.
WriteRows(w) ==
    LET d == job[w].day
    IN /\ job[w].at = "write"
       /\ ~(bucketing = "polars" /\ LookbackDay(d).is /\ LookbackDay(d).at = {})
       /\ \E last \in IF KeptRows(w) = {} THEN {0}
                      ELSE IF bucketing = "cudf" THEN {Max(KeptRows(w))} ELSE KeptRows(w) :
             physics' = [physics EXCEPT ![d] = [is |-> TRUE, at |-> KeptRows(w), last |-> last,
                                           raw |-> job[w].raw, prev |-> job[w].prev]]
       /\ job' = [job EXCEPT ![w] = Done(w)]
       /\ UNCHANGED <<machine, capture, live, bridged, bulk, remainder, spent>>

\* item() on the empty seed raises: the rest of the cycle, or the sync, is lost.
WriteRaises(w) ==
    /\ job[w].at = "write"
    /\ bucketing = "polars" /\ LookbackDay(job[w].day).is /\ LookbackDay(job[w].day).at = {}
    /\ job' = [job EXCEPT ![w] = AtRest]
    /\ UNCHANGED <<machine, capture, dataFiles, spent>>

CycleEnds ==
    /\ job["trainer"].at = "next" /\ job["trainer"].days = {}
    /\ job' = [job EXCEPT !["trainer"] = AtRest]
    /\ UNCHANGED <<machine, capture, dataFiles, spent>>

\* evict_lru() under disk pressure: raw files and rows go, live files never.
Evict ==
    /\ spent.evictions < MaxEvictions
    /\ spent' = [spent EXCEPT !.evictions = @ + 1]
    /\ \E d \in MarketDays :
          \/ d \in bulk /\ bulk' = bulk \ {d} /\ UNCHANGED <<bridged, physics>>
          \/ bridged[d] # {} /\ bridged' = [bridged EXCEPT ![d] = {}] /\ UNCHANGED <<bulk, physics>>
          \/ physics[d].is /\ physics' = [physics EXCEPT ![d] = NoRows] /\ UNCHANGED <<bulk, bridged>>
    /\ UNCHANGED <<machine, capture, live, remainder, job>>

PipelineNext ==
    \/ TradeArrives \/ Midnight
    \/ FlushTrades \/ FlushTradesFails \/ CollectorEnds \/ CollectorStarts
    \/ "trainer" \in Workers /\ (CycleStarts \/ Bridge \/ CycleEnds)
    \/ "daemon" \in Workers /\ SyncStarts
    \/ BulkArrives \/ Evict
    \/ \E w \in Workers : LoadDay(w) \/ SaveRemainder(w) \/ WriteRows(w) \/ WriteRaises(w)

PipelineSpec == PipelineInit /\ [][PipelineNext]_pipelineVars

-----------------------------------------------------------------------------
\* Every trade the collector received is in exactly one place: its buffer, one
\* day's live file, or lost with a buffer that died; eviction and rewriting of
\* the files derived from them never touch it.
CapturedOnce ==
    \A t \in captured :
        Cardinality({d \in MarketDays : t \in live[d]})
          + (IF t \in collector.buffer THEN 1 ELSE 0) + (IF t \in lost THEN 1 ELSE 0) = 1

\* No trade ends a row in two days' files, although a trade buffered over
\* midnight is in the live file of the day after and in its own day's bulk file.
\* (Under polars the cut is a row of open order, and it may.)
RowsOnce ==
    bucketing = "cudf" => \A d, e \in MarketDays : d # e => physics[d].at \intersect physics[e].at = {}
=============================================================================
