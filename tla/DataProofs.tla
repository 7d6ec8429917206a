----------------------------- MODULE DataProofs ------------------------------
(***************************************************************************)
(* Theorems of the four modules of the data that models are trained on: no *)
(* fold tests on what it trained on and a flag says how old a value is     *)
(* (TrainingTable), every trade is kept and every row is written once      *)
(* (TradePipeline), a ring holds the latest of its transitions             *)
(* (ReplayMemory), and the rows of an episode move forward in time         *)
(* (LobEpisode).                                                           *)
(***************************************************************************)
EXTENDS TrainingTable, TradePipeline, ReplayMemory, LobEpisode, Extremes, FiniteSetTheorems,
        SequenceTheorems, TLAPS

-----------------------------------------------------------------------------
\* The grid a build lays over the legs has an integral length.
GridTyped ==
    /\ daily \in [Legs -> SUBSET Times]
    /\ grid.length \in Int

LEMMA GridTypedInv == TableSpec => []GridTyped
<1>1. TableInit => GridTyped
  BY DEF TableInit, GridTyped, NoGrid
<1>2. GridTyped /\ [TableNext]_tableVars => GridTyped'
  <2> SUFFICES ASSUME GridTyped, [TableNext]_tableVars PROVE GridTyped'
    OBVIOUS
  <2>1. ASSUME NEW step \in Frequencies, NEW unreadable \in SUBSET (Legs \X (1 .. Days)),
               Build(step, unreadable)
        PROVE  GridTyped'
    <3> DEFINE read == Read(unreadable)
               all  == UNION {read[l] : l \in DOMAIN read}
    <3>1. PICK l \in DOMAIN read : TRUE
      BY <2>1 DEF Build
    <3>2. DOMAIN read \subseteq Legs /\ \A k \in DOMAIN read : read[k] # {} /\ read[k] \subseteq Times
      BY DEF Read, LegRead, GridTyped
    <3>3. all # {} /\ all \subseteq Times
      BY <3>1, <3>2
    <3>4. Days * DayLength \in Nat /\ all \subseteq 0 .. Days * DayLength
      <4>1. Days \in Nat /\ DayLength \in Nat
        BY TableAssumption
      <4>2. Days * DayLength \in Nat
        BY <4>1
      <4> QED BY <3>3, <4>2 DEF Times
    <3>5. Min(all) \in Nat /\ Max(all) \in Nat
      <4>1. all \subseteq Nat
        BY <3>4
      <4> QED BY <3>3, <3>4, <4>1, MinIsIn, MaxIsIn
    <3>6. step \in Nat \ {0}
      BY TableAssumption
    <3>7. grid'.length = (Max(all) - Min(all)) \div step + 1
      BY <2>1 DEF Build, GridOver
    <3>8. grid'.length \in Int
      BY <3>5, <3>6, <3>7
    <3> QED BY <2>1, <3>8 DEF Build, GridTyped
  <2>2. CASE TrainAndWriteLeg \/ FitAndGate \/ UNCHANGED tableVars
    BY <2>2 DEF TrainAndWriteLeg, FitAndGate, tableVars, GridTyped
  <2> QED BY <2>1, <2>2 DEF TableNext
<1> QED BY <1>1, <1>2, PTL DEF TableSpec

\* What a row touches: from the start of its window to the end of its label.
LEMMA Reach ==
    ASSUME NEW r \in Int, NEW t \in Touched(r)
    PROVE  t \in Int /\ r <= t /\ t <= r + Lookback + Horizon - 1
BY TableAssumption DEF Touched, Inputs, Label, Origin

\* For every lookback, horizon, number of folds and length of the table, and for
\* the default embargo and every configured one of Lookback + Horizon - 1 rows or
\* more, no fold learns from what it is tested on (FoldsDoNotTouch).
THEOREM FoldsAreApart == TableSpec => []FoldsDoNotTouch
<1>1. GridTyped => FoldsDoNotTouch
  <2> SUFFICES ASSUME GridTyped,
                      NEW e \in LongEnough, NEW i \in UsableFolds(e),
                      NEW r \in TrainRows(i), NEW q \in TestRows(e, i),
                      NEW t \in Touched(r), t \in Touched(q)
               PROVE  FALSE
    BY DEF FoldsDoNotTouch
  <2>1. Lookback \in Nat /\ Horizon \in Nat /\ Splits \in Nat \ {0}
    BY TableAssumption
  <2>2. RowCount \in Int
    BY <2>1 DEF GridTyped, RowCount, Max
  <2>3. FoldSize \in Int /\ i \in Nat
    BY <2>1, <2>2 DEF FoldSize, UsableFolds
  <2>4. i * FoldSize \in Int
    BY <2>3
  <2>5. r \in Int /\ r <= i * FoldSize
    BY <2>4 DEF TrainRows
  <2> DEFINE gap == ResolvedEmbargo(e)
  <2>8. gap \in Int /\ gap >= Lookback + Horizon - 1
    BY <2>1, TableAssumption DEF LongEnough, ResolvedEmbargo
  <2>6. q \in Int /\ q >= i * FoldSize + gap + 1
    <3> HIDE DEF gap
    <3>1. q \in i * FoldSize + gap + 1 .. Min({i * FoldSize + gap + FoldSize, RowCount})
      BY DEF TestRows, gap
    <3> QED BY <2>4, <2>8, <3>1
  <2>7. t \in Int /\ t <= r + Lookback + Horizon - 1 /\ q <= t
    BY <2>5, <2>6, Reach
  <2> HIDE DEF gap
  <2> QED BY <2>1, <2>4, <2>5, <2>6, <2>7, <2>8
<1> QED BY <1>1, GridTypedInv, PTL

\* The group of a point is that of the last point with a value, and of no point
\* before that; before the first value, all points are in one group.
LEMMA DistanceCounts ==
    ASSUME NEW g, NEW times, NEW i \in Nat, NEW m \in 1 .. i, Had(g, times, m) \/ m = 1,
           \A j \in m + 1 .. i : ~Had(g, times, j)
    PROVE  Distance(g, times, i) = i - m
<1> DEFINE Seen(j) == {k \in 1 .. j : Had(g, times, k)}
<1>1. ASSUME NEW j \in 1 .. i PROVE IsFiniteSet(Seen(j)) /\ Cardinality(Seen(j)) \in Nat /\ Seen(j) \subseteq Seen(i)
  <2>1. IsFiniteSet(1 .. j) /\ Seen(j) \subseteq 1 .. j
    BY FS_Interval
  <2> QED BY <2>1, FS_Subset, FS_CardinalityType
<1>2. ASSUME NEW j \in m .. i PROVE Seen(j) = Seen(i)
  OBVIOUS
<1>3. ASSUME NEW j \in 1 .. m - 1 PROVE Cardinality(Seen(j)) # Cardinality(Seen(i))
  <2>1. m \in Seen(i) /\ m \notin Seen(j)
    OBVIOUS
  <2>2. IsFiniteSet(Seen(i)) /\ Seen(j) \subseteq Seen(i) /\ Seen(j) # Seen(i)
    BY <1>1, <2>1
  <2> HIDE DEF Seen
  <2> QED BY <2>2, FS_Subset
<1>4. CASE Had(g, times, i)
  <2>1. m = i
    BY <1>4
  <2> QED BY <1>4, <2>1 DEF Distance
<1>5. CASE ~Had(g, times, i)
  <2>1. {j \in 1 .. i - 1 : Cardinality(Seen(j)) = Cardinality(Seen(i))} = m .. i - 1
    <3> HIDE DEF Seen
    <3> QED BY <1>2, <1>3
  <2>2. Cardinality(m .. i - 1) = i - m
    BY FS_Interval
  <2> QED BY <1>5, <2>1, <2>2 DEF Distance, Group
<1> QED BY <1>4, <1>5

\* The table is what align() makes of the legs that were loaded.
Aligned == DOMAIN table = {} \/ table = Align(grid, loaded)

\* For every frequency, staleness and set of missing files: a flag says how long
\* ago, in points of the grid, the leg last had a value on it.
THEOREM FlagsCountStaleness == TableSpec => []StaleMeansOld
<1>1. TableInit => Aligned
  BY DEF TableInit, Aligned
<1>2. Aligned /\ [TableNext]_tableVars => Aligned'
  <2>1. ASSUME NEW step, NEW unreadable, Build(step, unreadable) PROVE Aligned'
    BY <2>1 DEF Build, Aligned
  <2>2. Aligned /\ (TrainAndWriteLeg \/ FitAndGate \/ UNCHANGED tableVars) => Aligned'
    BY DEF TrainAndWriteLeg, FitAndGate, tableVars, Aligned, Align, AlignOne
  <2> QED BY <2>1, <2>2 DEF TableNext
<1>3. Aligned /\ GridTyped => StaleMeansOld
  <2> SUFFICES ASSUME Aligned, GridTyped, NEW l \in DOMAIN table, NEW i \in 1 .. grid.length
               PROVE  table[l][i].stale <=> i - LastOnGrid(l, i) > MaxStaleness
    BY DEF StaleMeansOld
  <2> DEFINE m == LastOnGrid(l, i)
             dated == {j \in 1 .. i : Had(grid, loaded[l], j)}
  <2>1. i \in Nat \ {0} /\ grid.length \in Int
    BY DEF GridTyped
  <2>2. m \in {1} \union dated /\ \A j \in {1} \union dated : j <= m
    <3>1. {1} \union dated \subseteq 0 .. i
      BY <2>1
    <3>2. m = Max({1} \union dated)
      BY DEF LastOnGrid, Had
    <3> HIDE DEF m, dated
    <3> QED BY <2>1, <3>1, <3>2, MaxBounds
  <2>3. m \in 1 .. i /\ (Had(grid, loaded[l], m) \/ m = 1)
    <3> HIDE DEF m
    <3> QED BY <2>1, <2>2
  <2>4. \A j \in m + 1 .. i : ~Had(grid, loaded[l], j)
    <3> HIDE DEF m
    <3> QED BY <2>1, <2>2, <2>3
  <2>5. Distance(grid, loaded[l], i) = i - m
    <3> HIDE DEF m
    <3> QED BY <2>1, <2>3, <2>4, DistanceCounts
  <2>6. table[l][i] = [from |-> Filled(grid, loaded[l], i), stale |-> Distance(grid, loaded[l], i) > MaxStaleness]
    <3>1. table = Align(grid, loaded)
      BY DEF Aligned
    <3>2. l \in DOMAIN loaded
      BY <3>1 DEF Align
    <3>3. table[l] = AlignOne(grid, loaded[l])
      BY <3>1, <3>2 DEF Align
    <3>4. i \in 1 .. grid.length
      OBVIOUS
    <3> QED BY <3>3, <3>4 DEF AlignOne
  <2>7. table[l][i].stale <=> i - m > MaxStaleness
    <3>1. table[l][i].stale = (Distance(grid, loaded[l], i) > MaxStaleness)
      BY <2>6
    <3>2. table[l][i].stale = (i - m > MaxStaleness)
      <4> HIDE DEF m
      <4> QED BY <2>5, <3>1, Zenon
    <3> QED BY <3>2
  <2> QED BY <2>7
<1> QED BY <1>1, <1>2, <1>3, GridTypedInv, PTL DEF TableSpec

-----------------------------------------------------------------------------
\* The market's days go up, and every trade in a buffer, a file or lost was
\* captured.
MarketTyped ==
    /\ today \in MarketDays /\ dayOf \in Seq(MarketDays)
    /\ \A t \in MarketTrades : dayOf[t] <= today
    /\ \A t, u \in MarketTrades : u < t => dayOf[u] <= dayOf[t]
    /\ captured \subseteq MarketTrades

CaptureTyped ==
    /\ collector \in [up : BOOLEAN, buffer : SUBSET captured]
    /\ ~collector.up => collector.buffer = {}
    /\ live \in [MarketDays -> SUBSET captured]
    /\ lost \subseteq captured

\* Where a captured trade is.
DaysOf(t) == {d \in MarketDays : t \in live[d]}

Placed ==
    \A t \in captured :
        \/ t \in collector.buffer /\ t \notin lost /\ DaysOf(t) = {}
        \/ t \notin collector.buffer /\ t \in lost /\ DaysOf(t) = {}
        \/ t \notin collector.buffer /\ t \notin lost /\ \E d \in MarketDays : DaysOf(t) = {d}

CaptureInv == MarketTyped /\ CaptureTyped /\ Placed

LEMMA MarketStep == MarketTyped /\ CaptureTyped /\ [PipelineNext]_pipelineVars => MarketTyped'
<1> SUFFICES ASSUME MarketTyped, CaptureTyped, [PipelineNext]_pipelineVars PROVE MarketTyped'
  OBVIOUS
<1>1. CASE TradeArrives
  <2>1. /\ dayOf' \in Seq(MarketDays) /\ Len(dayOf') = Len(dayOf) + 1 /\ dayOf'[Len(dayOf) + 1] = today
        /\ \A t \in 1 .. Len(dayOf) : dayOf'[t] = dayOf[t]
    BY <1>1 DEF TradeArrives, MarketTyped
  <2>2. today' = today /\ captured' \subseteq captured \union {Len(dayOf) + 1}
    BY <1>1 DEF TradeArrives
  <2>3. today \in Int /\ \A t \in MarketTrades : dayOf[t] \in Int
    BY PipelineAssumption DEF MarketTyped, MarketDays, MarketTrades
  <2> QED BY <2>1, <2>2, <2>3 DEF MarketTyped, MarketTrades
<1>2. CASE Midnight
  BY <1>2, PipelineAssumption DEF Midnight, capture, MarketTyped, MarketTrades, MarketDays
<1>3. CASE UNCHANGED <<today, dayOf, captured>>
  BY <1>3 DEF MarketTyped, MarketTrades
<1> QED BY <1>1, <1>2, <1>3 DEF PipelineNext, pipelineVars, machine, capture, FlushTrades, FlushTradesFails,
        CollectorEnds, CollectorStarts, CycleStarts, Bridge, CycleEnds, SyncStarts, BulkArrives, Evict,
        LoadDay, SaveRemainder, WriteRows, WriteRaises

\* What a step does to the buffer, the live files and the lost trades.
CaptureStep ==
    \/ /\ TradeArrives
    \/ /\ collector' = [collector EXCEPT !.buffer = {}]
       /\ live' = [live EXCEPT ![today] = @ \union collector.buffer]
       /\ UNCHANGED lost
    \/ /\ collector' = [up |-> FALSE, buffer |-> {}]
       /\ live' = [live EXCEPT ![today] = @ \union collector.buffer]
       /\ UNCHANGED lost
    \/ /\ collector' = [up |-> FALSE, buffer |-> {}]
       /\ lost' = lost \union collector.buffer
       /\ UNCHANGED live
    \/ CollectorStarts
    \/ UNCHANGED <<collector, live, lost>>

LEMMA CaptureSteps == 
    ASSUME [PipelineNext]_pipelineVars 
    PROVE  CaptureStep /\ (TradeArrives \/ UNCHANGED captured)
BY DEF CaptureStep, PipelineNext, pipelineVars, machine, capture, dataFiles, FlushTrades, FlushTradesFails,
       CollectorEnds, CollectorStarts, CycleStarts, Bridge, CycleEnds, SyncStarts, BulkArrives, Evict,
       LoadDay, SaveRemainder, WriteRows, WriteRaises, Midnight

LEMMA CaptureNext == CaptureInv /\ [PipelineNext]_pipelineVars => CaptureInv'
<1> SUFFICES ASSUME CaptureInv, [PipelineNext]_pipelineVars PROVE CaptureTyped' /\ Placed'
  BY MarketStep DEF CaptureInv
<1> USE DEF CaptureInv
<1>1. CaptureStep /\ (TradeArrives \/ UNCHANGED captured)
  BY CaptureSteps
<1>2. today \in MarketDays
  BY DEF MarketTyped
<1>3. CASE TradeArrives
  <2>1. CASE collector.up
    <3> DEFINE new == Len(dayOf) + 1
    <3>1. /\ collector' = [collector EXCEPT !.buffer = @ \union {new}] /\ captured' = captured \union {new}
          /\ live' = live /\ lost' = lost
      BY <1>3, <2>1 DEF TradeArrives
    <3>2. new \notin captured
      BY DEF MarketTyped, MarketTrades
    <3> HIDE DEF new
    <3>3. CaptureTyped'
      BY <2>1, <3>1 DEF CaptureTyped
    <3>4. DaysOf(new) = {} /\ new \notin lost
      BY <3>2 DEF CaptureTyped, DaysOf
    <3> QED BY <3>1, <3>2, <3>3, <3>4 DEF CaptureTyped, Placed, DaysOf
  <2>2. CASE ~collector.up
    BY <1>3, <2>2 DEF TradeArrives, CaptureTyped, Placed, DaysOf
  <2> QED BY <2>1, <2>2
<1>4. CASE /\ live' = [live EXCEPT ![today] = @ \union collector.buffer] /\ UNCHANGED <<lost, captured>>
           /\ collector' \in [up : BOOLEAN, buffer : {{}}]
  <2>1. CaptureTyped'
    BY <1>2, <1>4 DEF CaptureTyped
  <2>2. ASSUME NEW t \in captured PROVE DaysOf(t)' = IF t \in collector.buffer THEN DaysOf(t) \union {today} ELSE DaysOf(t)
    BY <1>2, <1>4 DEF CaptureTyped, DaysOf
  <2>3. ASSUME NEW t \in captured, t \in collector.buffer PROVE DaysOf(t)' = {today}
    BY <2>2, <2>3 DEF Placed
  <2> QED BY <1>2, <1>4, <2>1, <2>2, <2>3 DEF Placed
<1>5. CASE /\ lost' = lost \union collector.buffer /\ UNCHANGED <<live, captured>>
           /\ collector' \in [up : BOOLEAN, buffer : {{}}]
  BY <1>5 DEF CaptureTyped, Placed, DaysOf
<1>6. CASE CollectorStarts /\ UNCHANGED captured
  BY <1>6 DEF CollectorStarts, capture, dataFiles, CaptureTyped, Placed, DaysOf
<1>7. CASE UNCHANGED <<collector, live, lost, captured>>
  BY <1>7 DEF CaptureTyped, Placed, DaysOf
<1>8. /\ [collector EXCEPT !.buffer = {}] \in [up : BOOLEAN, buffer : {{}}]
      /\ [up |-> FALSE, buffer |-> {}] \in [up : BOOLEAN, buffer : {{}}]
  BY DEF CaptureTyped
<1>9. CASE CaptureStep /\ UNCHANGED captured
  BY <1>3, <1>4, <1>5, <1>6, <1>7, <1>8, <1>9, Zenon DEF CaptureStep
<1> QED BY <1>1, <1>3, <1>9

LEMMA CaptureInit == PipelineInit => CaptureInv
BY PipelineAssumption DEF PipelineInit, CaptureInv, MarketTyped, CaptureTyped, Placed, MarketDays, MarketTrades

\* For any number of days, trades, failed writes and ends of the collector: a
\* trade it has received is in one place (CapturedOnce).
THEOREM TradesAreKept == PipelineSpec => []CapturedOnce
<1>1. CaptureInv => CapturedOnce
  <2> SUFFICES ASSUME CaptureInv, NEW t \in captured
               PROVE  Cardinality(DaysOf(t)) + (IF t \in collector.buffer THEN 1 ELSE 0) + (IF t \in lost THEN 1 ELSE 0) = 1
    BY DEF CapturedOnce, DaysOf
  <2>1. Cardinality({}) = 0 /\ \A d : Cardinality({d}) = 1
    BY FS_EmptySet, FS_Singleton
  <2>2. CASE t \in collector.buffer /\ t \notin lost /\ DaysOf(t) = {}
    BY <2>1, <2>2
  <2>3. CASE t \notin collector.buffer /\ t \in lost /\ DaysOf(t) = {}
    BY <2>1, <2>3
  <2>4. CASE t \notin collector.buffer /\ t \notin lost /\ \E d \in MarketDays : DaysOf(t) = {d}
    <3>1. Cardinality(DaysOf(t)) = 1
      BY <2>1, <2>4
    <3> HIDE DEF DaysOf
    <3> QED BY <2>4, <3>1
  <2> QED BY <2>2, <2>3, <2>4 DEF CaptureInv, Placed
<1> QED BY <1>1, CaptureInit, CaptureNext, PTL DEF PipelineSpec

-----------------------------------------------------------------------------
\* The collector flushes its whole buffer, so the files of later days hold later
\* trades, and two trades of one buffer go to one day.
Ordered ==
    /\ \A d \in MarketDays : live[d] # {} => d <= today
    /\ \A d \in MarketDays : \A t \in live[d] : dayOf[t] <= d
    /\ \A d \in MarketDays : \A t \in live[d], u \in collector.buffer : t < u /\ d <= dayOf[u]
    /\ \A d, e \in MarketDays : \A t \in live[d], u \in live[e] :
          u < t => e <= d /\ (dayOf[t] < e => d = e)

\* What a day's raw file may hold: trades of the day's live files, or the bulk
\* download of a day that is over.
Raws(d) == (SUBSET live[d]) \union {trades \in {TradesOf(d)} : d < today}

\* What a worker may be at, and what a file of rows may be.
Jobs ==
    {j \in [at : {"rest", "next", "load", "save", "write"}, days : SUBSET MarketDays, day : Nat,
            raw : SUBSET Nat, prev : Nat] :
        /\ j.at \in {"load", "save", "write"} => j.day \in MarketDays
        /\ j.at \in {"save", "write"} => j.raw # {} /\ j.raw \in Raws(j.day)}

RowFiles(d) ==
    {p \in [is : BOOLEAN, at : SUBSET Nat, last : Nat, raw : SUBSET Nat, prev : Nat] :
        /\ p.raw \in Raws(d) /\ p.at \subseteq p.raw
        /\ p.at # {} => Max(p.raw) \in p.at
        /\ ~p.is => p.at = {}}

Sourced ==
    /\ bulk \subseteq 1 .. today - 1
    /\ bridged \in [MarketDays -> SUBSET Nat] /\ \A d \in MarketDays : bridged[d] \subseteq live[d]
    /\ remainder \in [MarketDays -> Nat]
    /\ job \in [Workers -> Jobs]
    /\ DOMAIN physics = MarketDays /\ \A d \in MarketDays : physics[d] \in RowFiles(d)

OneWay == CaptureInv /\ Ordered /\ Sourced /\ RowsOnce

LEMMA Buffered == CaptureTyped => collector.buffer \subseteq captured
BY DEF CaptureTyped

LEMMA OrderedNext == CaptureInv /\ Ordered /\ [PipelineNext]_pipelineVars => Ordered'
<1> SUFFICES ASSUME CaptureInv, Ordered, [PipelineNext]_pipelineVars PROVE Ordered'
  OBVIOUS
<1>1. CaptureStep /\ (TradeArrives \/ UNCHANGED captured)
  BY CaptureSteps
<1>2. /\ MarketTyped /\ CaptureTyped /\ today \in MarketDays
      /\ MarketDays \subseteq Nat /\ captured \subseteq Nat
  BY PipelineAssumption DEF CaptureInv, MarketTyped, MarketDays, MarketTrades
<1>3. \A t \in captured : dayOf[t] \in Nat /\ dayOf[t] <= today
  <2>1. \A t \in captured : t \in 1 .. Len(dayOf) /\ dayOf[t] \in MarketDays
    BY <1>2 DEF MarketTyped, MarketTrades
  <2> QED BY <1>2, <2>1 DEF MarketTyped, MarketTrades
<1>4. CASE TradeArrives
  <2> DEFINE new == Len(dayOf) + 1
  <2>1. /\ collector'.buffer \subseteq collector.buffer \union {new}
        /\ live' = live /\ today' = today
        /\ dayOf'[new] = today /\ \A t \in captured : dayOf'[t] = dayOf[t]
    BY <1>2, <1>4 DEF TradeArrives, MarketTyped, CaptureTyped, MarketTrades
  <2>2. new \in Nat /\ \A t \in captured : t < new
    BY <1>2 DEF MarketTyped, MarketTrades
  <2>3. \A d \in MarketDays : live[d] \subseteq captured
    BY <1>2 DEF CaptureTyped
  <2> HIDE DEF new
  <2>4. \A d \in MarketDays : \A t \in live[d] : dayOf'[t] = dayOf[t] /\ t < new /\ d <= today
    BY <2>1, <2>2, <2>3 DEF Ordered
  <2>5. /\ \A d \in MarketDays : live'[d] # {} => d <= today'
        /\ \A d \in MarketDays : \A t \in live'[d] : dayOf'[t] <= d
    BY <2>1, <2>4 DEF Ordered
  <2>6. \A d, e \in MarketDays : \A t \in live'[d], u \in live'[e] :
          u < t => e <= d /\ (dayOf'[t] < e => d = e)
    BY <2>1, <2>4 DEF Ordered
  <2>7. ASSUME NEW d \in MarketDays, NEW t \in live'[d], NEW u \in collector'.buffer
        PROVE  t < u /\ d <= dayOf'[u]
    <3>1. CASE u = new
      BY <2>1, <2>4, <2>7, <3>1
    <3>2. CASE u \in collector.buffer
      BY <1>2, <2>1, <2>7, <3>2, Buffered DEF Ordered
    <3> QED BY <2>1, <3>1, <3>2
  <2> QED BY <2>5, <2>6, <2>7 DEF Ordered
<1>5. CASE Midnight
  <2>1. today' = today + 1 /\ UNCHANGED <<dayOf, live, collector>>
    BY <1>5 DEF Midnight, capture, dataFiles
  <2> QED BY <1>2, <2>1 DEF Ordered
<1>6. CASE /\ live' = [live EXCEPT ![today] = @ \union collector.buffer]
           /\ collector'.buffer = {} /\ UNCHANGED <<dayOf, today>>
  <2>1. \A d \in MarketDays : live'[d] = IF d = today THEN live[d] \union collector.buffer ELSE live[d]
    BY <1>2, <1>6 DEF CaptureTyped
  <2>2. collector.buffer \subseteq captured
    BY <1>2, Buffered
  <2>3. \A d \in MarketDays : live[d] \subseteq captured
    BY <1>2 DEF CaptureTyped
  <2>4. ASSUME NEW d \in MarketDays, NEW e \in MarketDays, NEW t \in live'[d], NEW u \in live'[e], u < t
        PROVE  e <= d /\ (dayOf[t] < e => d = e)
    <3>1. t \in captured /\ u \in captured /\ t \in Nat /\ u \in Nat
      BY <1>2, <2>1, <2>2, <2>3, <2>4
    <3>2. CASE t \in live[d] /\ u \in live[e]
      BY <2>4, <3>2 DEF Ordered
    <3>3. CASE t \in live[d] /\ u \in collector.buffer
      BY <2>4, <3>1, <3>3 DEF Ordered
    <3>4. CASE t \in collector.buffer /\ d = today /\ u \in live[e]
      BY <1>2, <1>3, <3>1, <3>4 DEF Ordered
    <3>5. CASE t \in collector.buffer /\ d = today /\ u \in collector.buffer /\ e = today
      BY <1>2, <3>5
    <3> QED BY <2>1, <2>4, <3>2, <3>3, <3>4, <3>5
  <2>5. \A d \in MarketDays : live'[d] # {} => d <= today
    <3>1. today <= today
      BY <1>2
    <3> QED BY <2>1, <3>1 DEF Ordered
  <2>6. \A d \in MarketDays : \A t \in live'[d] : dayOf[t] <= d
    BY <1>3, <2>1, <2>2 DEF Ordered
  <2> QED BY <1>6, <2>4, <2>5, <2>6 DEF Ordered
<1>7. CASE collector'.buffer \subseteq collector.buffer /\ UNCHANGED <<dayOf, today, live>>
  BY <1>7 DEF Ordered
<1>8. TradeArrives \/ Midnight \/ UNCHANGED <<dayOf, today>>
  BY DEF PipelineNext, pipelineVars, machine, FlushTrades, FlushTradesFails,
        CollectorEnds, CollectorStarts, CycleStarts, Bridge, CycleEnds, SyncStarts, BulkArrives, Evict,
        LoadDay, SaveRemainder, WriteRows, WriteRaises
<1>9. [collector EXCEPT !.buffer = {}].buffer = {}
  BY <1>2 DEF CaptureTyped
<1>10. [up |-> FALSE, buffer |-> {}].buffer = {} /\ [up |-> TRUE, buffer |-> {}].buffer = {}
  OBVIOUS
<1>11. CASE UNCHANGED <<dayOf, today>>
  <2>1. CASE /\ live' = [live EXCEPT ![today] = @ \union collector.buffer] /\ collector'.buffer = {}
    BY <1>6, <1>11, <2>1
  <2>2. CASE live' = live /\ collector'.buffer \subseteq collector.buffer
    BY <1>7, <1>11, <2>2
  <2>3. CASE TradeArrives
    BY <1>4, <2>3
  <2>4. CASE CollectorStarts
    BY <1>10, <2>2, <2>4, Zenon DEF CollectorStarts, dataFiles
  <2> QED BY <1>1, <1>9, <1>10, <2>1, <2>2, <2>3, <2>4, Zenon DEF CaptureStep
<1> QED BY <1>4, <1>5, <1>8, <1>11

\* What a file may hold, it may go on holding as the market and the collector go on.
LEMMA RawStays ==
    ASSUME CaptureInv, [PipelineNext]_pipelineVars, NEW d \in MarketDays
    PROVE  Raws(d) \subseteq Raws(d)' /\ today <= today' /\ today' \in Nat /\ live[d] \subseteq live'[d]
<1>1. live[d] \subseteq live'[d]
  BY CaptureSteps DEF CaptureInv, MarketTyped, CaptureTyped, CaptureStep, CollectorStarts, TradeArrives, dataFiles
<1>2. (TradeArrives /\ today' = today) \/ (dayOf' = dayOf /\ (today' = today \/ today' = today + 1))
  BY DEF PipelineNext, pipelineVars, machine, capture, FlushTrades, FlushTradesFails,
        CollectorEnds, CollectorStarts, CycleStarts, Bridge, CycleEnds, SyncStarts, BulkArrives, Evict,
        LoadDay, SaveRemainder, WriteRows, WriteRaises, Midnight, TradeArrives
<1>3. d \in Nat /\ today \in Nat /\ today <= today' /\ today' \in Nat
  BY <1>2, PipelineAssumption DEF MarketDays, CaptureInv, MarketTyped
<1>4. ASSUME d < today PROVE TradesOf(d)' = TradesOf(d)
  <2>1. CASE TradeArrives
    <3>1. /\ dayOf \in Seq(MarketDays) /\ today \in MarketDays /\ today' = today
          /\ dayOf' = Append(dayOf, today)
      BY <2>1 DEF TradeArrives, CaptureInv, MarketTyped
    <3>2. DOMAIN dayOf = 1 .. Len(dayOf) /\ DOMAIN dayOf' = 1 .. Len(dayOf) + 1
      BY <3>1
    <3>3. dayOf'[Len(dayOf) + 1] # d /\ \A t \in 1 .. Len(dayOf) : dayOf'[t] = dayOf[t]
      BY <1>3, <1>4, <3>1
    <3> QED BY <3>1, <3>2, <3>3 DEF TradesOf, MarketTrades
  <2>2. CASE dayOf' = dayOf
    BY <2>2 DEF TradesOf, MarketTrades
  <2> QED BY <1>2, <2>1, <2>2
<1> QED BY <1>1, <1>3, <1>4 DEF Raws

LEMMA JobsStay == ASSUME CaptureInv, [PipelineNext]_pipelineVars PROVE Jobs \subseteq Jobs'
BY RawStays, Zenon DEF Jobs

LEMMA RowFilesStay ==
    ASSUME CaptureInv, [PipelineNext]_pipelineVars, NEW d \in MarketDays PROVE RowFiles(d) \subseteq RowFiles(d)'
BY RawStays, Zenon DEF RowFiles

\* A day's raw file is some trades of the market.
LEMMA RawsAreTrades ==
    ASSUME CaptureInv, NEW d \in MarketDays, NEW raw \in Raws(d), raw # {}
    PROVE  /\ raw \subseteq MarketTrades /\ Cardinality(raw) \in Nat
           /\ Max(raw) \in raw /\ \A t \in raw : t <= Max(raw)
<1>1. raw \subseteq MarketTrades /\ MarketTrades = 1 .. Len(dayOf) /\ Len(dayOf) \in Nat
  <2>1. MarketTrades = 1 .. Len(dayOf) /\ Len(dayOf) \in Nat
    BY DEF CaptureInv, MarketTyped, MarketTrades
  <2>2. live[d] \subseteq captured /\ captured \subseteq MarketTrades
    BY DEF CaptureInv, MarketTyped, CaptureTyped
  <2>3. raw \subseteq live[d] \/ raw = TradesOf(d)
    BY DEF Raws
  <2>4. TradesOf(d) \subseteq MarketTrades
    BY DEF TradesOf
  <2> QED BY <2>1, <2>2, <2>3, <2>4
<1>2. IsFiniteSet(raw)
  <2>1. IsFiniteSet(1 .. Len(dayOf))
    BY <1>1, FS_Interval
  <2> QED BY <1>1, <2>1, FS_Subset
<1>3. raw \subseteq 0 .. Len(dayOf)
  BY <1>1
<1> QED BY <1>1, <1>2, <1>3, MaxBounds, FS_CardinalityType

\* A seed is cut at the last trade its day's rows were made of.
LEMMA SeedsAreCut ==
    ASSUME CaptureInv, Sourced, NEW e \in MarketDays, physics[e].at # {}
    PROVE  /\ Cut(physics[e]) \in Nat
           /\ bucketing = "cudf" => Cut(physics[e]) = Max(physics[e].raw)
<1> DEFINE at == physics[e].at  raw == physics[e].raw
<1>1. /\ raw \in Raws(e) /\ raw \subseteq Nat /\ raw # {} /\ at \subseteq raw
      /\ Max(raw) \in at /\ physics[e].last \in Nat
  BY DEF Sourced, RowFiles
<1>2. raw \subseteq 0 .. Len(dayOf) /\ Len(dayOf) \in Nat /\ \A t \in raw : t <= Max(raw)
  <2>1. raw \subseteq MarketTrades /\ \A t \in raw : t <= Max(raw)
    <3> HIDE DEF raw
    <3> QED BY <1>1, RawsAreTrades
  <2> QED BY <2>1 DEF CaptureInv, MarketTyped, MarketTrades
<1>3. at \subseteq 0 .. Len(dayOf) /\ at # {}
  BY <1>1, <1>2
<1>4. Max(at) \in at /\ \A t \in at : t <= Max(at)
  <2> HIDE DEF at
  <2> QED BY <1>2, <1>3, MaxBounds
<1>5. Max(at) \in Nat /\ Max(at) = Max(raw)
  <2>1. Max(at) <= Max(raw) /\ Max(raw) <= Max(at) /\ Max(at) \in Nat /\ Max(raw) \in Nat
    <3> HIDE DEF at, raw
    <3> QED BY <1>1, <1>2, <1>4
  <2> HIDE DEF at, raw
  <2> QED BY <2>1
<1> QED BY <1>1, <1>5 DEF Cut

LEMMA SeedIsAFile ==
    ASSUME Sourced, NEW d
    PROVE  \/ LookbackDay(d) = NoRows /\ \A e \in MarketDays \ {d} : ~physics[e].is
           \/ \E e \in MarketDays \ {d} :
                /\ LookbackDay(d) = physics[e] /\ physics[e].is
                /\ \A f \in MarketDays \ {d} : physics[f].is => f <= e
<1> DEFINE others == {e \in MarketDays \ {d} : physics[e].is}
<1>1. CASE others = {}
  BY <1>1 DEF LookbackDay
<1>2. CASE others # {}
  <2>1. others \subseteq 0 .. MaxDay /\ MaxDay \in Nat
    BY PipelineAssumption DEF MarketDays
  <2>2. Max(others) \in others /\ \A f \in others : f <= Max(others)
    <3> HIDE DEF others
    <3> QED BY <1>2, <2>1, MaxBounds
  <2> QED BY <1>2, <2>2 DEF LookbackDay
<1> QED BY <1>1, <1>2

\* What the rows of a day are made of ends one of them.
LEMMA KeptAreRows ==
    ASSUME CaptureInv, Sourced, NEW w \in Workers, job[w].at = "write", NEW last \in Nat
    PROVE  [is |-> TRUE, at |-> KeptRows(w), last |-> last, raw |-> job[w].raw, prev |-> job[w].prev]
             \in RowFiles(job[w].day)
<1> DEFINE d == job[w].day  raw == job[w].raw  all == Buckets(raw, job[w].prev)
<1>1. d \in MarketDays /\ raw \in Raws(d) /\ raw # {} /\ raw \subseteq Nat /\ job[w].prev \in Nat
  BY DEF Sourced, Jobs
<1>2. Max(raw) \in raw /\ \A t \in raw : t <= Max(raw)
  <2> HIDE DEF d, raw
  <2> QED BY <1>1, RawsAreTrades
<1>3. all \subseteq raw /\ Max(raw) \in all
  BY <1>2 DEF Buckets
<1>4. KeptRows(w) \subseteq all
  BY DEF KeptRows
<1>5. KeptRows(w) # {} => Max(raw) \in KeptRows(w)
  <2> DEFINE seed == LookbackDay(d)
  <2>1. CASE ~seed.is
    BY <1>3, <2>1 DEF KeptRows
  <2>2. CASE seed.is /\ seed.at # {}
    <3>1. KeptRows(w) = {t \in all : t > Cut(seed)}
      BY <2>2 DEF KeptRows
    <3>2. Max(raw) \in Nat
      BY <1>1, <1>2
    <3>3. Cut(seed) \in Int
      <4>1. PICK e \in MarketDays : seed = physics[e]
        <5>1. ~NoRows.is
          BY DEF NoRows
        <5> HIDE DEF d
        <5> QED BY <2>2, <5>1, SeedIsAFile
      <4> HIDE DEF seed
      <4> QED BY <2>2, <4>1, SeedsAreCut
    <3> HIDE DEF seed, all
    <3> QED BY <1>1, <1>2, <1>3, <3>1, <3>2, <3>3
  <2>3. CASE seed.is /\ seed.at = {}
    BY <2>3 DEF KeptRows
  <2> QED BY <2>1, <2>2, <2>3
<1>6. KeptRows(w) \subseteq Nat
  BY <1>1, <1>3, <1>4
<1> HIDE DEF raw, d, all
<1> QED BY <1>1, <1>3, <1>4, <1>5, <1>6 DEF RowFiles, raw, d

LEMMA SourcedNext == CaptureInv /\ Sourced /\ [PipelineNext]_pipelineVars => Sourced'
<1> SUFFICES ASSUME CaptureInv, Sourced, [PipelineNext]_pipelineVars PROVE Sourced'
  OBVIOUS
<1>1. /\ Jobs \subseteq Jobs' /\ \A d \in MarketDays : RowFiles(d) \subseteq RowFiles(d)'
      /\ \A d \in MarketDays : Raws(d) \subseteq Raws(d)' /\ live[d] \subseteq live'[d]
      /\ 1 .. today - 1 \subseteq 1 .. today' - 1
      /\ today \in MarketDays /\ MarketDays \subseteq Nat /\ MarketDays = 1 .. MaxDay
  <2>1. /\ Jobs \subseteq Jobs' /\ \A d \in MarketDays : RowFiles(d) \subseteq RowFiles(d)'
        /\ \A d \in MarketDays : Raws(d) \subseteq Raws(d)' /\ live[d] \subseteq live'[d]
    BY JobsStay, RowFilesStay, RawStays
  <2>2. today \in MarketDays /\ MarketDays \subseteq Nat /\ MarketDays = 1 .. MaxDay
    BY PipelineAssumption DEF MarketDays, CaptureInv, MarketTyped
  <2>3. today <= today' /\ today' \in Nat
    BY <2>2, RawStays
  <2>4. 1 .. today - 1 \subseteq 1 .. today' - 1
    <3>1. \A a, b \in Nat : a <= b => 1 .. a - 1 \subseteq 1 .. b - 1
      OBVIOUS
    <3>2. today \in Nat
      BY <2>2
    <3> QED BY <2>3, <3>1, <3>2, Zenon
  <2> QED BY <2>1, <2>2, <2>4, Zenon
\* The files the jobs are made of.
<1>2. ASSUME bulk' \subseteq 1 .. today' - 1, job' \in [Workers -> Jobs'],
             UNCHANGED <<bridged, physics, remainder>>
      PROVE  Sourced'
  BY <1>1, <1>2 DEF Sourced
<1>3. /\ bulk \subseteq 1 .. today' - 1 /\ job \in [Workers -> Jobs] /\ job \in [Workers -> Jobs']
  BY <1>1 DEF Sourced
<1>4. CASE UNCHANGED <<dataFiles, job>> \/ UNCHANGED <<bulk, bridged, physics, remainder, job>>
  BY <1>2, <1>3, <1>4 DEF dataFiles
<1>5. ASSUME NEW w \in Workers, NEW x \in Jobs, job' = [job EXCEPT ![w] = x] PROVE job' \in [Workers -> Jobs']
  BY <1>1, <1>3, <1>5
<1>6. AtRest \in Jobs /\ \A ds \in SUBSET MarketDays : [AtRest EXCEPT !.at = "next", !.days = ds] \in Jobs
  BY DEF Jobs, AtRest
<1>7. \A w \in Workers : Done(w) \in Jobs
  BY <1>3, <1>6 DEF Done, Jobs
<1>8. CASE "trainer" \in Workers /\ CycleStarts
  <2>1. {today - 1, today} \ {0} \in SUBSET MarketDays
    <3>1. today \in 1 .. MaxDay /\ MaxDay \in Nat
      BY <1>1, PipelineAssumption
    <3>2. \A e \in {today - 1, today} \ {0} : e \in 1 .. MaxDay
      BY <3>1
    <3> QED BY <1>1, <3>2
  <2> QED BY <1>2, <1>3, <1>5, <1>6, <1>8, <2>1 DEF CycleStarts, dataFiles
<1>9. CASE "trainer" \in Workers /\ Bridge
  <2> DEFINE w == job["trainer"]  d == Min(w.days)
  <2>1. w \in Jobs /\ w.days \subseteq MarketDays /\ w.days # {} /\ w.at = "next"
    BY <1>3, <1>9 DEF Bridge, Jobs
  <2>2. d \in w.days /\ d \in MarketDays
    BY <1>1, <2>1, MinIsIn
  <2>3. live[d] \in SUBSET Nat /\ live' = live
    BY <1>9, <2>2 DEF Bridge, CaptureInv, CaptureTyped, MarketTyped, MarketTrades
  <2>4. bridged' = [bridged EXCEPT ![d] = IF live[d] = {} THEN @ ELSE live[d]]
    BY <1>9 DEF Bridge
  <2>5. job' = [job EXCEPT !["trainer"] = IF live[d] = {} THEN [w EXCEPT !.days = @ \ {d}]
                        ELSE [w EXCEPT !.at = "load", !.days = @ \ {d}, !.day = d]]
    BY <1>9 DEF Bridge
  <2> HIDE DEF w, d
  <2>6. /\ [w EXCEPT !.days = @ \ {d}] \in Jobs
        /\ [w EXCEPT !.at = "load", !.days = @ \ {d}, !.day = d] \in Jobs
    BY <1>1, <2>1, <2>2 DEF Jobs
  <2>7. job' \in [Workers -> Jobs']
    BY <1>5, <1>9, <2>5, <2>6
  <2>8. bridged' \in [MarketDays -> SUBSET Nat] /\ \A e \in MarketDays : bridged'[e] \subseteq live'[e]
    BY <2>2, <2>3, <2>4 DEF Sourced
  <2>9. UNCHANGED <<bulk, physics, remainder>>
    BY <1>9 DEF Bridge
  <2> QED BY <1>1, <1>3, <2>7, <2>8, <2>9 DEF Sourced
<1>10. CASE "trainer" \in Workers /\ CycleEnds
  BY <1>2, <1>3, <1>5, <1>6, <1>10 DEF CycleEnds, dataFiles
<1>11. CASE "daemon" \in Workers /\ SyncStarts
  <2>1. [AtRest EXCEPT !.at = "load", !.day = today - 1] \in Jobs
    <3>1. today \in 1 .. MaxDay /\ MaxDay \in Nat /\ today > 1
      BY <1>1, <1>11, PipelineAssumption DEF SyncStarts
    <3>2. today - 1 \in MarketDays /\ today - 1 \in Nat
      BY <1>1, <3>1
    <3> QED BY <3>2 DEF Jobs, AtRest
  <2>2. bulk' \subseteq 1 .. today' - 1
    BY <1>1, <1>3, <1>11 DEF SyncStarts, machine
  <2> QED BY <1>2, <1>5, <1>11, <2>1, <2>2 DEF SyncStarts
<1>12. CASE BulkArrives
  <2>1. PICK d \in MarketDays : d < today /\ bulk' = bulk \union {d}
    BY <1>12 DEF BulkArrives
  <2>2. d \in 1 .. MaxDay /\ today \in 1 .. MaxDay /\ today' = today
    BY <1>1, <1>12, <2>1 DEF BulkArrives, machine
  <2>3. d \in 1 .. today - 1
    BY <2>1, <2>2, PipelineAssumption
  <2>4. bulk' \subseteq 1 .. today' - 1
    BY <1>3, <2>1, <2>2, <2>3
  <2> QED BY <1>2, <1>3, <1>12, <2>4 DEF BulkArrives
<1>13. CASE Evict
  <2>1. UNCHANGED <<live, remainder, job>>
    BY <1>13 DEF Evict
  <2>2. \A d \in MarketDays : NoRows \in RowFiles(d)
    BY DEF RowFiles, Raws, NoRows
  <2>3. PICK d \in MarketDays :
          \/ bulk' = bulk \ {d} /\ UNCHANGED <<bridged, physics>>
          \/ bridged' = [bridged EXCEPT ![d] = {}] /\ UNCHANGED <<bulk, physics>>
          \/ physics' = [physics EXCEPT ![d] = NoRows] /\ UNCHANGED <<bulk, bridged>>
    BY <1>13 DEF Evict
  <2>4. bulk' \subseteq 1 .. today' - 1
    BY <1>3, <2>3
  <2>5. bridged' \in [MarketDays -> SUBSET Nat] /\ \A e \in MarketDays : bridged'[e] \subseteq live'[e]
    BY <2>1, <2>3 DEF Sourced
  <2>6. DOMAIN physics' = MarketDays /\ \A e \in MarketDays : physics'[e] \in RowFiles(e)
    BY <2>2, <2>3 DEF Sourced
  <2> QED BY <1>1, <1>3, <2>1, <2>4, <2>5, <2>6 DEF Sourced
<1>14. ASSUME NEW w \in Workers, LoadDay(w) PROVE Sourced'
  <2> DEFINE d == job[w].day  x == [job[w] EXCEPT !.at = "save", !.raw = RawOf(d), !.prev = RemainderFor(d)]
  <2>1. job[w] \in Jobs /\ d \in MarketDays
    BY <1>3, <1>14 DEF LoadDay, Jobs
  <2>2. RawOf(d) \in Raws(d) /\ RawOf(d) \in SUBSET Nat
    BY <1>1, <2>1 DEF RawOf, Raws, Sourced, CaptureInv, MarketTyped, TradesOf, MarketTrades
  <2>3. RemainderFor(d) \in Nat
    <3>1. d \in 1 .. MaxDay /\ MaxDay \in Nat
      BY <1>1, <2>1, PipelineAssumption
    <3>2. d # 1 => d - 1 \in MarketDays
      BY <1>1, <3>1
    <3>3. remainder \in [MarketDays -> Nat]
      BY DEF Sourced
    <3> HIDE DEF d
    <3> QED BY <3>2, <3>3 DEF RemainderFor
  <2>4. ASSUME RawOf(d) # {} PROVE x \in Jobs
    BY <2>1, <2>2, <2>3, <2>4 DEF Jobs
  <2>5. job' = [job EXCEPT ![w] = IF RawOf(d) = {} THEN Done(w) ELSE x]
    BY <1>14 DEF LoadDay
  <2> HIDE DEF x
  <2>6. job' \in [Workers -> Jobs']
    BY <1>5, <1>7, <2>4, <2>5
  <2> QED BY <1>2, <1>3, <1>14, <2>6 DEF LoadDay, dataFiles
<1>15. ASSUME NEW w \in Workers, SaveRemainder(w) PROVE Sourced'
  <2> DEFINE d == job[w].day  x == [job[w] EXCEPT !.at = "write"]
  <2>1. job[w] \in Jobs /\ d \in MarketDays /\ job[w].raw \in Raws(d) /\ job[w].raw # {} /\ job[w].prev \in Nat
    BY <1>3, <1>15 DEF SaveRemainder, Jobs
  <2>2. Cardinality(job[w].raw) \in Nat
    BY <2>1, RawsAreTrades
  <2>3. (job[w].prev + Cardinality(job[w].raw)) % BucketSize \in Nat
    BY <2>1, <2>2, PipelineAssumption
  <2>4. remainder' \in [MarketDays -> Nat]
    BY <1>15, <2>1, <2>3 DEF SaveRemainder, Sourced
  <2>5. x \in Jobs
    BY <1>15, <2>1 DEF SaveRemainder, Jobs
  <2>6. job' = [job EXCEPT ![w] = x]
    BY <1>15 DEF SaveRemainder
  <2> HIDE DEF x
  <2>7. job' \in [Workers -> Jobs']
    BY <1>5, <2>5, <2>6
  <2> QED BY <1>1, <1>3, <1>15, <2>4, <2>7 DEF SaveRemainder, Sourced
<1>16. ASSUME NEW w \in Workers, WriteRows(w) PROVE Sourced'
  <2> DEFINE d == job[w].day
  <2>1. job[w] \in Jobs /\ d \in MarketDays /\ job[w].raw \in Raws(d) /\ job[w].raw # {}
    BY <1>3, <1>16 DEF WriteRows, Jobs
  <2>2. PICK last \in IF KeptRows(w) = {} THEN {0}
                      ELSE IF bucketing = "cudf" THEN {Max(KeptRows(w))} ELSE KeptRows(w) :
             physics' = [physics EXCEPT ![d] = [is |-> TRUE, at |-> KeptRows(w), last |-> last,
                                           raw |-> job[w].raw, prev |-> job[w].prev]]
    BY <1>16 DEF WriteRows
  <2>3. last \in Nat
    <3>1. KeptRows(w) \subseteq job[w].raw
      BY DEF KeptRows, Buckets
    <3>2. job[w].raw \subseteq 0 .. Len(dayOf) /\ Len(dayOf) \in Nat
      <4>1. job[w].raw \subseteq MarketTrades
        BY <2>1, RawsAreTrades
      <4> QED BY <4>1 DEF CaptureInv, MarketTyped, MarketTrades
    <3>3. KeptRows(w) # {} => Max(KeptRows(w)) \in KeptRows(w)
      BY <3>1, <3>2, MaxIsIn
    <3> QED BY <2>2, <3>1, <3>2, <3>3
  <2>4. [is |-> TRUE, at |-> KeptRows(w), last |-> last, raw |-> job[w].raw, prev |-> job[w].prev] \in RowFiles(d)
    BY <1>16, <2>3, KeptAreRows DEF WriteRows
  <2> HIDE DEF d
  <2>5. DOMAIN physics' = MarketDays /\ \A e \in MarketDays : physics'[e] \in RowFiles(e)
    BY <2>1, <2>2, <2>4 DEF Sourced
  <2>6. job' \in [Workers -> Jobs']
    BY <1>5, <1>7, <1>16 DEF WriteRows
  <2> QED BY <1>1, <1>3, <1>16, <2>5, <2>6 DEF WriteRows, Sourced
<1>17. ASSUME NEW w \in Workers, WriteRaises(w) PROVE Sourced'
  BY <1>2, <1>3, <1>5, <1>6, <1>17 DEF WriteRaises, dataFiles
<1> QED BY <1>4, <1>8, <1>9, <1>10, <1>11, <1>12, <1>13, <1>14, <1>15, <1>16, <1>17 
    DEF PipelineNext, pipelineVars, TradeArrives, Midnight, FlushTrades, FlushTradesFails, CollectorEnds,
        CollectorStarts, dataFiles

\* The seed is the last day there is, so a trade after it is in no earlier file.
LEMMA KeptAreNew ==
    ASSUME CaptureInv, Ordered, Sourced, bucketing = "cudf",
           NEW w \in Workers, job[w].at = "write", NEW e \in MarketDays \ {job[w].day}
    PROVE  KeptRows(w) \intersect physics[e].at = {}
<1> SUFFICES ASSUME NEW t \in KeptRows(w), t \in physics[e].at PROVE FALSE
  OBVIOUS
<1> DEFINE d == job[w].day
<1>1. d \in MarketDays /\ job[w].raw \in Raws(d) /\ t \in job[w].raw
  BY DEF Sourced, Jobs, KeptRows, Buckets
<1>2. \A f \in MarketDays : physics[f] \in RowFiles(f)
  BY DEF Sourced
<1>3. /\ physics[e].is /\ t \in physics[e].raw /\ physics[e].raw \in Raws(e)
  BY <1>2 DEF RowFiles
<1>4. PICK m \in MarketDays \ {d} : LookbackDay(d) = physics[m] /\ physics[m].is /\ e <= m
  <2> HIDE DEF d
  <2> QED BY <1>3, SeedIsAFile DEF d
<1>5. physics[m].at # {} /\ t > Cut(physics[m])
  BY <1>4 DEF KeptRows
<1> DEFINE u == Max(physics[m].raw)
<1>6. u \in physics[m].raw /\ physics[m].raw \in Raws(m) /\ t > u
  BY <1>2, <1>5, SeedsAreCut DEF RowFiles
<1> HIDE DEF d, u
<1>7. /\ job[w].raw \subseteq MarketTrades /\ physics[m].raw \subseteq MarketTrades
      /\ \A x \in physics[m].raw : x <= u
  BY <1>1, <1>6, RawsAreTrades DEF u
<1>8. t \in Nat /\ u \in Nat /\ dayOf[t] \in Nat /\ dayOf[u] \in Nat /\ dayOf[u] <= dayOf[t]
  <2>1. t \in DOMAIN dayOf /\ u \in DOMAIN dayOf /\ dayOf \in Seq(MarketDays) /\ MarketDays \subseteq Nat
    <3>1. dayOf \in Seq(MarketDays) /\ MarketDays \subseteq Nat
      BY PipelineAssumption DEF CaptureInv, MarketTyped, MarketDays
    <3>2. t \in DOMAIN dayOf /\ u \in DOMAIN dayOf
      BY <1>1, <1>6, <1>7 DEF MarketTrades
    <3> QED BY <3>1, <3>2, Zenon DEF MarketTrades
  <2>2. dayOf[t] \in Nat /\ dayOf[u] \in Nat
    <3>1. \A x \in DOMAIN dayOf : dayOf[x] \in MarketDays
      BY <2>1
    <3> QED BY <2>1, <3>1
  <2>3. \A x, y \in MarketTrades : y < x => dayOf[y] <= dayOf[x]
    BY DEF CaptureInv, MarketTyped
  <2> QED BY <1>1, <1>6, <1>7, <2>1, <2>2, <2>3
<1>9. d \in Nat /\ e \in Nat /\ m \in Nat /\ d # e /\ m # d /\ e < m
  <2>1. e # m
    BY <1>3, <1>6, <1>7, <1>8
  <2> QED BY <1>1, <1>4, <2>1, PipelineAssumption DEF MarketDays, d
<1>10. \/ t \in live[d] \/ dayOf[t] = d
  BY <1>1 DEF Raws, TradesOf
<1>11. \/ t \in live[e] \/ dayOf[t] = e
  BY <1>3 DEF Raws, TradesOf
<1>12. \/ u \in live[m] \/ dayOf[u] = m
  BY <1>6 DEF Raws, TradesOf
<1>13. /\ u \in live[m] /\ t \in live[d] => m <= d /\ (dayOf[t] < m => d = m)
       /\ u \in live[m] /\ t \in live[e] => m <= e
       /\ t \in live[e] => dayOf[t] <= e
  BY <1>1, <1>6 DEF Ordered
<1> QED BY <1>8, <1>9, <1>10, <1>11, <1>12, <1>13

LEMMA RowsNext == OneWay /\ [PipelineNext]_pipelineVars => RowsOnce'
<1> SUFFICES ASSUME OneWay, [PipelineNext]_pipelineVars, bucketing = "cudf" PROVE RowsOnce'
  BY DEF RowsOnce, PipelineNext, pipelineVars, machine, capture, dataFiles, TradeArrives, FlushTrades,
         FlushTradesFails, CollectorEnds, CollectorStarts, CycleStarts, Bridge, CycleEnds, SyncStarts,
         BulkArrives, Evict, LoadDay, SaveRemainder, WriteRows, WriteRaises, Midnight
<1> DEFINE Apart(p) == \A d, e \in MarketDays : d # e => p[d].at \intersect p[e].at = {}
<1>1. DOMAIN physics = MarketDays /\ Apart(physics)
  BY DEF OneWay, Sourced, RowsOnce
<1>2. ASSUME NEW d \in MarketDays, NEW x, physics' = [physics EXCEPT ![d] = x],
             \A e \in MarketDays \ {d} : x.at \intersect physics[e].at = {}
      PROVE  Apart(physics')
  <2> TAKE f, g \in MarketDays
  <2>1. physics'[f] = (IF f = d THEN x ELSE physics[f]) /\ physics'[g] = (IF g = d THEN x ELSE physics[g])
    BY <1>1, <1>2
  <2>2. physics'[f] = physics[f] /\ physics'[g] = physics[g] => (f # g => physics'[f].at \intersect physics'[g].at = {})
    BY <1>1
  <2>3. \A s : s \intersect x.at = x.at \intersect s
    OBVIOUS
  <2> QED BY <1>2, <2>1, <2>2, <2>3
<1>3. CASE Evict
  <2>1. physics' = physics \/ \E d \in MarketDays : physics' = [physics EXCEPT ![d] = NoRows]
    BY <1>3 DEF Evict
  <2>2. NoRows.at = {}
    BY DEF NoRows
  <2> HIDE DEF Apart
  <2>3. Apart(physics')
    BY <1>1, <1>2, <2>1, <2>2
  <2> QED BY <2>3 DEF RowsOnce, Apart
<1>4. ASSUME NEW w \in Workers, WriteRows(w) PROVE RowsOnce'
  <2> DEFINE d == job[w].day
  <2>1. d \in MarketDays /\ job[w].at = "write"
    BY <1>4 DEF WriteRows, OneWay, Sourced, Jobs
  <2>2. PICK last : physics' = [physics EXCEPT ![d] = [is |-> TRUE, at |-> KeptRows(w), last |-> last,
                                           raw |-> job[w].raw, prev |-> job[w].prev]]
    BY <1>4 DEF WriteRows
  <2>3. \A e \in MarketDays \ {d} : KeptRows(w) \intersect physics[e].at = {}
    BY <2>1, KeptAreNew DEF OneWay
  <2>4. PICK x : x.at = KeptRows(w) /\ physics' = [physics EXCEPT ![d] = x]
    BY <2>2
  <2>5. \A e \in MarketDays \ {d} : x.at \intersect physics[e].at = {}
    BY <2>3, <2>4
  <2> HIDE DEF Apart, d
  <2>6. Apart(physics')
    BY <1>2, <2>1, <2>4, <2>5
  <2> QED BY <2>6 DEF RowsOnce, Apart
<1>5. CASE UNCHANGED physics
  BY <1>1, <1>5 DEF RowsOnce
<1> QED BY <1>3, <1>4, <1>5
    DEF PipelineNext, pipelineVars, dataFiles, TradeArrives, FlushTrades,
        FlushTradesFails, CollectorEnds, CollectorStarts, CycleStarts, Bridge, CycleEnds, SyncStarts,
        BulkArrives, LoadDay, SaveRemainder, WriteRaises, Midnight

LEMMA OneWayInit == PipelineInit => OneWay
<1> SUFFICES ASSUME PipelineInit PROVE Ordered /\ Sourced /\ RowsOnce
  BY CaptureInit DEF OneWay
<1>1. \A d \in MarketDays : NoRows \in RowFiles(d)
  BY DEF RowFiles, Raws, NoRows
<1>2. AtRest \in Jobs
  BY DEF Jobs, AtRest
<1> QED BY <1>1, <1>2, PipelineAssumption DEF PipelineInit, Ordered, Sourced, RowsOnce, MarketDays, NoRows

\* For any number of days, trades, workers, cycles, ends of the collector and
\* evictions: under the cut by the latest row, no trade ends a row of two files
\* (RowsOnce).
THEOREM RowsAreWrittenOnce == PipelineSpec => []RowsOnce
<1>1. OneWay /\ [PipelineNext]_pipelineVars => OneWay'
  BY CaptureNext, OrderedNext, SourcedNext, RowsNext DEF OneWay
<1>2. OneWay => RowsOnce
  BY DEF OneWay
<1> QED BY <1>1, <1>2, OneWayInit, PTL DEF PipelineSpec

-----------------------------------------------------------------------------
\* A ring of n slots, in list order: as many of the line's transitions as fit,
\* the latest one before the position and the oldest at it.
Ring(held, past, at, n) ==
    /\ held \in Seq(Nat) /\ past \in Seq(Nat) /\ at \in 1 .. n /\ Len(held) <= n
    /\ Len(held) < n => /\ at = Len(held) + 1 /\ Len(past) = Len(held)
                        /\ \A i \in 1 .. Len(held) : held[i] = past[i]
    /\ Len(held) = n => /\ Len(past) >= n
                        /\ \A i \in 1 .. n :
                              /\ i < at  => held[i] = past[Len(past) - at + 1 + i]
                              /\ i >= at => held[i] = past[Len(past) - n - at + 1 + i]

\* The past is in order, and has happened.
Past(past, now) == /\ past \in Seq(Nat) /\ \A i \in DOMAIN past : past[i] <= now
                   /\ \A i, j \in DOMAIN past : i < j => past[i] < past[j]

RingInv ==
    /\ capacity \in Nat \ {0} /\ pushes \in Nat
    /\ Ring(slots, line, place, capacity) /\ Past(line, pushes)
    /\ saved # NoFile => Ring(saved.slots, savedLine, saved.place, capacity) /\ Past(savedLine, pushes)

LEMMA NextPlace ==
    ASSUME NEW n \in Nat \ {0}, NEW at \in 1 .. n
    PROVE  (at % n) + 1 = IF at = n THEN 1 ELSE at + 1
<1>1. CASE at = n
  <2>1. n % n = 0
    OBVIOUS
  <2> QED BY <1>1, <2>1
<1>2. CASE at < n
  <2>1. at % n = at
    BY <1>2
  <2> QED BY <1>2, <2>1
<1> QED BY <1>1, <1>2

\* One transition more.
LEMMA RingTurns ==
    ASSUME NEW n \in Nat \ {0}, NEW held, NEW past, NEW at, Ring(held, past, at, n), NEW t \in Nat
    PROVE  Ring(IF Len(held) < n THEN Append(held, t) ELSE [held EXCEPT ![at] = t],
                Append(past, t), (at % n) + 1, n)
<1> DEFINE next == IF at = n THEN 1 ELSE at + 1
           more == Append(past, t)
           L    == Len(past)
<1>1. (at % n) + 1 = next /\ next \in 1 .. n
  <2>1. at \in 1 .. n
    BY DEF Ring
  <2> QED BY <2>1, NextPlace
<1>2. /\ more \in Seq(Nat) /\ Len(more) = L + 1 /\ L \in Nat
      /\ \A i \in 1 .. L : more[i] = past[i]
      /\ more[L + 1] = t
  BY DEF Ring
<1> HIDE DEF more, L
<1>3. CASE Len(held) < n
  <2> DEFINE now == Append(held, t)
  <2>1. /\ now \in Seq(Nat) /\ Len(now) = Len(held) + 1 /\ Len(held) \in Nat
        /\ \A i \in 1 .. Len(held) : now[i] = held[i]
        /\ now[Len(held) + 1] = t
    BY DEF Ring
  <2>2. at = Len(held) + 1 /\ L = Len(held) /\ \A i \in 1 .. Len(held) : held[i] = past[i]
    BY <1>3 DEF Ring, L
  <2>3. \A i \in 1 .. Len(now) : now[i] = more[i]
    BY <1>2, <2>1, <2>2
  <2> HIDE DEF now
  <2>4. ASSUME Len(now) < n PROVE Ring(now, more, next, n)
    <3>1. next = Len(now) + 1
      BY <1>3, <2>1, <2>2, <2>4
    <3>2. Len(more) = Len(now) /\ Len(now) # n /\ Len(now) <= n
      BY <1>2, <2>1, <2>2, <2>4
    <3> HIDE DEF next
    <3> QED BY <1>1, <1>2, <2>1, <2>3, <2>4, <3>1, <3>2 DEF Ring
  <2>5. ASSUME Len(now) = n PROVE Ring(now, more, next, n)
    <3>1. next = 1 /\ Len(more) = n
      BY <1>2, <2>1, <2>2, <2>5
    <3>2. \A i \in 1 .. n : Len(more) - n - next + 1 + i = i
      BY <1>2, <3>1
    <3> HIDE DEF next
    <3>3. \A i \in 1 .. n : i >= next => now[i] = more[Len(more) - n - next + 1 + i]
      BY <2>3, <2>5, <3>2
    <3>4. \A i \in 1 .. n : ~(i < next)
      BY <3>1
    <3> QED BY <1>1, <1>2, <2>1, <2>5, <3>1, <3>3, <3>4 DEF Ring
  <2>6. Len(now) < n \/ Len(now) = n
    BY <1>3, <2>1
  <2> QED BY <1>1, <1>3, <2>4, <2>5, <2>6 DEF more, now
<1>4. CASE Len(held) = n
  <2> DEFINE now == [held EXCEPT ![at] = t]
  <2>1. /\ now \in Seq(Nat) /\ Len(now) = n /\ at \in 1 .. n
        /\ \A i \in 1 .. n : now[i] = IF i = at THEN t ELSE held[i]
    BY <1>4 DEF Ring
  <2>2. /\ L >= n
        /\ \A i \in 1 .. n : /\ i < at  => held[i] = past[L - at + 1 + i]
                             /\ i >= at => held[i] = past[L - n - at + 1 + i]
    BY <1>4 DEF Ring, L
  <2> HIDE DEF now
  <2>3. ASSUME NEW i \in 1 .. n, i < next PROVE now[i] = more[L + 1 - next + 1 + i]
    <3>1. at < n /\ next = at + 1
      BY <2>1, <2>3
    <3>2. CASE i = at
      BY <1>2, <2>1, <3>1, <3>2
    <3>3. CASE i < at
      <4>1. L - at + 1 + i \in 1 .. L /\ L + 1 - next + 1 + i = L - at + 1 + i
        <5>1. i \in Nat /\ at \in Nat /\ L \in Nat /\ i < at /\ at <= L /\ 1 <= i
          BY <1>2, <2>1, <2>2, <3>3
        <5> HIDE DEF next
        <5> QED BY <3>1, <5>1
      <4>2. now[i] = held[i] /\ held[i] = past[L - at + 1 + i]
        BY <2>1, <2>2, <3>3
      <4> HIDE DEF next
      <4> QED BY <1>2, <4>1, <4>2
    <3> QED BY <2>1, <2>3, <3>1, <3>2, <3>3
  <2>4. ASSUME NEW i \in 1 .. n, i >= next PROVE now[i] = more[L + 1 - n - next + 1 + i]
    <3>1. CASE at < n
      <4>1. next = at + 1 /\ i > at
        BY <2>1, <2>4, <3>1
      <4>2. L - n - at + 1 + i \in 1 .. L /\ L + 1 - n - next + 1 + i = L - n - at + 1 + i
        <5>1. i \in Nat /\ at \in Nat /\ L \in Nat /\ n \in Nat /\ i > at /\ n <= L /\ i <= n /\ 1 <= at
          BY <1>2, <2>1, <2>2, <4>1
        <5> HIDE DEF next
        <5> QED BY <4>1, <5>1
      <4>3. now[i] = held[i] /\ held[i] = past[L - n - at + 1 + i]
        BY <2>1, <2>2, <4>1
      <4> HIDE DEF next
      <4> QED BY <1>2, <4>2, <4>3
    <3>2. CASE at = n /\ i < n
      <4>1. next = 1
        BY <3>2
      <4>2. L - at + 1 + i \in 1 .. L /\ L + 1 - n - next + 1 + i = L - at + 1 + i
        BY <1>2, <2>1, <2>2, <3>2, <4>1
      <4> HIDE DEF next
      <4>3. now[i] = held[i] /\ held[i] = past[L - at + 1 + i]
        BY <2>1, <2>2, <3>2
      <4> QED BY <1>2, <4>2, <4>3
    <3>3. CASE at = n /\ i = n
      <4>1. next = 1 /\ L + 1 - n - 1 + 1 + i = L + 1
        BY <1>2, <3>3
      <4> HIDE DEF next
      <4> QED BY <1>2, <2>1, <3>3, <4>1
    <3> QED BY <2>1, <3>1, <3>2, <3>3
  <2> HIDE DEF next
  <2>5. \A i \in 1 .. n : /\ i < next  => now[i] = more[Len(more) - next + 1 + i]
                          /\ i >= next => now[i] = more[Len(more) - n - next + 1 + i]
    <3> TAKE i \in 1 .. n
    <3>1. L + 1 = Len(more)
      BY <1>2
    <3>2. i < next => now[i] = more[L + 1 - next + 1 + i]
      BY <2>3
    <3>3. i >= next => now[i] = more[L + 1 - n - next + 1 + i]
      BY <2>4
    <3>4. /\ L + 1 - next + 1 + i = Len(more) - next + 1 + i
          /\ L + 1 - n - next + 1 + i = Len(more) - n - next + 1 + i
      <4>1. L \in Nat /\ n \in Nat /\ next \in Nat /\ i \in Nat
        BY <1>1, <1>2
      <4> QED BY <3>1, <4>1
    <3> QED BY <3>2, <3>3, <3>4, Zenon
  <2>6. Len(more) >= n
    BY <1>2, <2>2
  <2>7. Ring(now, more, next, n)
    BY <1>1, <1>2, <2>1, <2>5, <2>6 DEF Ring
  <2> QED BY <1>1, <1>4, <2>7 DEF now, more
<1>5. Len(held) < n \/ Len(held) = n
  BY DEF Ring
<1> QED BY <1>3, <1>4, <1>5

LEMMA PastGrows ==
    ASSUME NEW past, NEW now \in Nat, Past(past, now)
    PROVE  Past(Append(past, now + 1), now + 1) /\ Past(past, now + 1)
<1> DEFINE more == Append(past, now + 1)
<1>1. /\ more \in Seq(Nat) /\ DOMAIN more = 1 .. Len(past) + 1 /\ DOMAIN past = 1 .. Len(past) /\ Len(past) \in Nat
      /\ \A i \in 1 .. Len(past) : more[i] = past[i] /\ past[i] \in Nat
      /\ more[Len(past) + 1] = now + 1
  BY DEF Past
<1> HIDE DEF more
<1>2. Past(past, now + 1)
  BY <1>1 DEF Past
<1>3. Past(more, now + 1)
  <2>1. \A i \in 1 .. Len(past) : past[i] <= now
    BY <1>1 DEF Past
  <2>2. \A i \in 1 .. Len(past) + 1 : more[i] <= now + 1
    BY <1>1, <2>1
  <2>3. ASSUME NEW i \in 1 .. Len(past) + 1, NEW j \in 1 .. Len(past) + 1, i < j PROVE more[i] < more[j]
    <3>1. i \in 1 .. Len(past)
      BY <1>1, <2>3
    <3>2. CASE j = Len(past) + 1
      BY <1>1, <2>1, <3>1, <3>2
    <3>3. CASE j \in 1 .. Len(past)
      BY <1>1, <2>3, <3>1, <3>3 DEF Past
    <3> QED BY <1>1, <3>2, <3>3
  <2> QED BY <1>1, <2>2, <2>3 DEF Past
<1> QED BY <1>2, <1>3 DEF more

\* A full ring has the last n transitions of its past, another one all of them.
LEMMA RingRemembers ==
    ASSUME NEW n \in Nat \ {0}, NEW held, NEW past, NEW at, NEW now \in Nat,
           Ring(held, past, at, n), Past(past, now)
    PROVE  /\ {held[i] : i \in DOMAIN held}
                = {past[i] : i \in {j \in DOMAIN past : j > Len(past) - Len(held)}}
           /\ Cardinality({held[i] : i \in DOMAIN held}) = Len(held)
<1> DEFINE k == Len(held)  L == Len(past)  
           from(i) == IF i < at THEN L - at + 1 + i ELSE L - n - at + 1 + i
           index(i) == IF k < n THEN i ELSE from(i)
<1>1. /\ DOMAIN held = 1 .. k /\ DOMAIN past = 1 .. L /\ k \in Nat /\ L \in Nat
      /\ k <= n /\ k <= L /\ at \in 1 .. n
      /\ \A i \in 1 .. k : held[i] \in Nat
  <2>1. held \in Seq(Nat) /\ past \in Seq(Nat) /\ at \in 1 .. n /\ k <= n
    BY DEF Ring
  <2>2. k <= L
    <3>1. CASE k < n
      BY <2>1, <3>1 DEF Ring
    <3>2. CASE k = n
      BY <2>1, <3>2 DEF Ring
    <3> QED BY <2>1, <3>1, <3>2
  <2> QED BY <2>1, <2>2
<1>2. k < n => k = L
  BY DEF Ring
<1>3. ASSUME NEW i \in 1 .. k PROVE index(i) \in L - k + 1 .. L /\ held[i] = past[index(i)]
  <2>1. CASE k < n
    <3>1. held[i] = past[i] /\ index(i) = i
      BY <2>1 DEF Ring
    <3>2. i \in L - k + 1 .. L
      <4>1. k = L
        BY <1>2, <2>1
      <4> HIDE DEF k, L
      <4> QED BY <1>1, <4>1
    <3> HIDE DEF index
    <3> QED BY <3>1, <3>2
  <2>2. CASE k = n
    <3>1. i < at => held[i] = past[L - at + 1 + i]
      BY <2>2 DEF Ring
    <3>2. i >= at => held[i] = past[L - n - at + 1 + i]
      BY <2>2 DEF Ring
    <3>3. from(i) \in L - k + 1 .. L
      <4>1. i \in Nat /\ at \in Nat /\ L \in Nat /\ n \in Nat /\ k = n /\ 1 <= i /\ i <= n /\ 1 <= at /\ at <= n
        BY <1>1, <2>2
      <4> HIDE DEF k, L
      <4> QED BY <4>1
    <3>4. index(i) = from(i)
      BY <2>2
    <3>5. held[i] = past[from(i)]
      <4>1. i \in Int /\ at \in Int
        BY <1>1
      <4> HIDE DEF k, L
      <4> QED BY <3>1, <3>2, <4>1
    <3> HIDE DEF from, index, k, L
    <3> QED BY <3>3, <3>4, <3>5
  <2>3. k < n \/ k = n
    <3> HIDE DEF k, L
    <3> QED BY <1>1
  <2> QED BY <2>1, <2>2, <2>3
<1>4. ASSUME NEW j \in L - k + 1 .. L PROVE \E i \in 1 .. k : index(i) = j
  <2>0. j \in Nat /\ L \in Nat /\ k \in Nat /\ n \in Nat /\ at \in Nat /\ 1 <= at /\ at <= n /\ j <= L /\ j >= L - k + 1
    BY <1>1
  <2>1. CASE k < n
    BY <1>2, <2>0, <2>1
  <2>2. CASE k = n /\ j > L - at + 1
    <3>1. j - L + at - 1 \in 1 .. k /\ index(j - L + at - 1) = j
      <4> HIDE DEF k, L
      <4> QED BY <2>0, <2>2
    <3> QED BY <3>1
  <2>3. CASE k = n /\ j <= L - at + 1
    <3>1. j - L + n + at - 1 \in 1 .. k /\ index(j - L + n + at - 1) = j
      <4> HIDE DEF k, L
      <4> QED BY <2>0, <2>3
    <3> QED BY <3>1
  <2>4. k < n \/ (k = n /\ j > L - at + 1) \/ (k = n /\ j <= L - at + 1)
    <3>1. k <= n
      BY <1>1
    <3> HIDE DEF k, L
    <3> QED BY <2>0, <3>1
  <2> QED BY <2>1, <2>2, <2>3, <2>4
<1>5. ASSUME NEW i \in 1 .. k, NEW j \in 1 .. k, index(i) = index(j) PROVE i = j
  <2>0. i \in Nat /\ j \in Nat /\ L \in Nat /\ n \in Nat /\ k \in Nat /\ at \in Nat /\ 1 <= i /\ i <= n /\ 1 <= j /\ j <= n
    BY <1>1
  <2> HIDE DEF k, L
  <2> QED BY <1>5, <2>0
<1> HIDE DEF index, from
<1>6. {held[i] : i \in 1 .. k} = {past[i] : i \in {j \in 1 .. L : j > L - k}}
  <2>1. ASSUME NEW i \in 1 .. k PROVE \E j \in 1 .. L : j > L - k /\ held[i] = past[j]
    <3>1. index(i) \in 1 .. L /\ index(i) > L - k
      <4>1. index(i) \in L - k + 1 .. L
        BY <1>3
      <4> HIDE DEF k, L
      <4> QED BY <1>1, <4>1
    <3> QED BY <1>3, <3>1
  <2>2. ASSUME NEW j \in 1 .. L, j > L - k PROVE \E i \in 1 .. k : held[i] = past[j]
    <3>1. j \in L - k + 1 .. L
      BY <1>1, <2>2
    <3> QED BY <1>3, <1>4, <3>1
  <2> HIDE DEF k, L
  <2> QED BY <2>1, <2>2
<1>7. Cardinality({held[i] : i \in 1 .. k}) = k
  <2> DEFINE S == {held[i] : i \in 1 .. k}  f == [i \in 1 .. k |-> held[i]]
  <2>1. ASSUME NEW i \in 1 .. k, NEW j \in 1 .. k, held[i] = held[j] PROVE i = j
    <3>1. index(i) \in DOMAIN past /\ index(j) \in DOMAIN past /\ past[index(i)] = past[index(j)]
      <4>1. index(i) \in L - k + 1 .. L /\ index(j) \in L - k + 1 .. L
        BY <1>3
      <4>2. past[index(i)] = past[index(j)]
        BY <1>3, <2>1
      <4> HIDE DEF k, L
      <4> QED BY <1>1, <4>1, <4>2
    <3>2. past[index(i)] \in Nat /\ index(i) \in Nat /\ index(j) \in Nat
      BY <1>1, <3>1 DEF Past
    <3>3. ~(index(i) < index(j)) /\ ~(index(j) < index(i))
      BY <3>1, <3>2 DEF Past
    <3> QED BY <1>5, <3>2, <3>3
  <2>2. f \in Bijection(1 .. k, S)
    <3> HIDE DEF k
    <3> QED BY <2>1 DEF Bijection, Injection, Surjection, IsInjective
  <2> HIDE DEF k, S, f
  <2> QED BY <1>1, <2>2, FS_CountingElements DEF ExistsBijection, S
<1> QED BY <1>1, <1>6, <1>7

LEMMA RingStart == ReplayInit => RingInv
<1> SUFFICES ASSUME ReplayInit PROVE RingInv
  OBVIOUS
<1>1. capacity \in Nat \ {0} /\ slots = <<>> /\ line = <<>> /\ place = 1 /\ saved = NoFile /\ pushes = 0
  BY ReplayAssumption DEF ReplayInit
<1>2. <<>> \in Seq(Nat) /\ Len(<<>>) = 0 /\ DOMAIN <<>> = {}
  OBVIOUS
<1> QED BY <1>1, <1>2 DEF RingInv, Ring, Past

LEMMA RingNext ==
    ASSUME RingInv, [ReplayNext]_replayVars, [capacity' = capacity]_replayVars
    PROVE  RingInv'
<1>1. CASE Push
  <2>1. /\ pushes' = pushes + 1 /\ line' = Append(line, pushes + 1) /\ slots' = Stored(pushes + 1)
        /\ place' = (place % capacity) + 1 /\ UNCHANGED <<capacity, saved, savedLine>>
    BY <1>1 DEF Push
  <2>2. pushes \in Nat /\ pushes + 1 \in Nat /\ capacity \in Nat \ {0}
    BY DEF RingInv
  <2>3. Ring(slots', line', place', capacity')
    BY <2>1, <2>2, RingTurns DEF RingInv, Stored
  <2>4. Past(line', pushes') /\ (saved # NoFile => Past(savedLine, pushes + 1))
    BY <2>1, <2>2, PastGrows DEF RingInv
  <2> QED BY <2>1, <2>2, <2>3, <2>4 DEF RingInv
<1>2. CASE Save
  <2>1. /\ saved' = NoFile \/ (saved'.slots = slots /\ saved'.place = place /\ savedLine' = line)
        /\ UNCHANGED <<capacity, slots, place, line, pushes>>
    BY <1>2 DEF Save
  <2> QED BY <2>1 DEF RingInv
<1>3. ASSUME NEW n \in Capacities, Restart(n) PROVE RingInv'
  <2>1. capacity' = capacity /\ n = capacity /\ UNCHANGED <<saved, savedLine, pushes>>
    BY <1>3 DEF Restart, replayVars
  <2>2. /\ slots' = SlotsLoaded(capacity) /\ place' = PlaceLoaded(capacity)
        /\ line' = IF SlotsLoaded(capacity) = <<>> THEN <<>> ELSE savedLine
    BY <1>3, <2>1 DEF Restart
  <2>3. capacity \in Nat \ {0} /\ <<>> \in Seq(Nat) /\ Len(<<>>) = 0 /\ DOMAIN <<>> = {}
    BY DEF RingInv
  <2>4. Ring(<<>>, <<>>, 1, capacity) /\ Past(<<>>, pushes)
    BY <2>3 DEF Ring, Past
  <2>5. CASE saved = NoFile
    <3>1. slots' = <<>> /\ place' = 1 /\ line' = <<>>
      <4>1. saved.slots = <<>>
        BY <2>5 DEF NoFile
      <4> QED BY <2>2, <2>5, <4>1 DEF SlotsLoaded, PlaceLoaded
    <3> QED BY <2>1, <2>3, <2>4, <2>5, <3>1 DEF RingInv
  <2>6. CASE saved # NoFile
    <3>1. Ring(saved.slots, savedLine, saved.place, capacity) /\ Past(savedLine, pushes)
      BY <2>6 DEF RingInv
    <3>2. saved.slots \in Seq(Nat) /\ ~(Len(saved.slots) > capacity)
      BY <2>3, <3>1 DEF Ring
    <3>3. slots' = saved.slots /\ place' = saved.place
      BY <2>2, <2>6, <3>2 DEF SlotsLoaded, PlaceLoaded
    <3>4. line' = savedLine
      <4>1. CASE saved.slots = <<>>
        <5>1. Len(saved.slots) = 0
          BY <4>1
        <5>2. Len(savedLine) = 0 /\ savedLine \in Seq(Nat)
          BY <2>3, <3>1, <5>1 DEF Ring
        <5>3. savedLine = <<>>
          BY <5>2
        <5> QED BY <2>2, <3>2, <4>1, <5>3 DEF SlotsLoaded
      <4>2. CASE saved.slots # <<>>
        BY <2>2, <3>2, <4>2 DEF SlotsLoaded
      <4> QED BY <4>1, <4>2
    <3> QED BY <2>1, <2>3, <3>1, <3>3, <3>4 DEF RingInv
  <2> QED BY <2>5, <2>6
<1>4. CASE UNCHANGED <<capacity, slots, place, saved, line, savedLine, pushes>>
  BY <1>4 DEF RingInv
<1> QED BY <1>1, <1>2, <1>3, <1>4 DEF ReplayNext, Sample, UpdatePriorities, replayVars

\* For any sizes a buffer may have, any number of pushes, saves and restarts: as
\* long as it is restarted with its own capacity, the buffer holds the latest
\* transitions of its past, each once (KeepsTheLatest).
THEOREM RingsAreKept == ReplaySpec /\ [][capacity' = capacity]_replayVars => []KeepsTheLatest
<1>1. RingInv => KeepsTheLatest
  <2> SUFFICES ASSUME RingInv PROVE KeepsTheLatest
    OBVIOUS
  <2>1. /\ Ring(slots, line, place, capacity) /\ Past(line, pushes)
        /\ capacity \in Nat \ {0} /\ pushes \in Nat
    BY DEF RingInv
  <2>2. Len(slots) <= capacity
    BY <2>1 DEF Ring
  <2>3. Remembered = Recent(Len(slots)) /\ Cardinality(Remembered) = Len(slots)
    BY <2>1, RingRemembers DEF Remembered, Recent
  <2> QED BY <2>2, <2>3 DEF KeepsTheLatest
<1> QED BY <1>1, RingStart, RingNext, PTL DEF ReplaySpec

-----------------------------------------------------------------------------
\* The rows before a file are those before the file before it, and that file's.
LEMMA RowsAddUp ==
    ASSUME NEW f \in Partitions
    PROVE  /\ FirstRow(f) \in Nat /\ FileRows[f] \in Nat
           /\ FirstRow(f + 1) = FirstRow(f) + FileRows[f]
<1> DEFINE In(g) == {g} \X (1 .. FileRows[g])
           Before == UNION {In(g) : g \in 1 .. f - 1}
<1>1. /\ Partitions = 1 .. Len(FileRows) /\ Len(FileRows) \in Nat /\ f \in Nat /\ 1 <= f
      /\ \A g \in 1 .. f : FileRows[g] \in Nat
  BY EpisodeAssumption DEF Partitions
<1>2. \A g \in 1 .. f : IsFiniteSet(In(g)) /\ Cardinality(In(g)) = FileRows[g]
  <2> TAKE g \in 1 .. f
  <2>1. IsFiniteSet(1 .. FileRows[g]) /\ Cardinality(1 .. FileRows[g]) = FileRows[g]
    <3>1. FileRows[g] \in Nat
      BY <1>1
    <3>2. /\ IsFiniteSet(1 .. FileRows[g])
          /\ Cardinality(1 .. FileRows[g]) = IF 1 > FileRows[g] THEN 0 ELSE FileRows[g] - 1 + 1
      <4>1. 1 \in Int /\ FileRows[g] \in Int
        BY <3>1
      <4> QED BY <4>1, FS_Interval, Zenon
    <3> QED BY <3>1, <3>2
  <2>2. IsFiniteSet({g}) /\ Cardinality({g}) = 1
    BY FS_Singleton
  <2>3. IsFiniteSet(In(g)) /\ Cardinality(In(g)) = 1 * FileRows[g]
    <3>1. IsFiniteSet({g} \X (1 .. FileRows[g]))
            /\ Cardinality({g} \X (1 .. FileRows[g])) = Cardinality({g}) * Cardinality(1 .. FileRows[g])
      BY <2>1, <2>2, FS_Product, Zenon
    <3> QED BY <2>1, <2>2, <3>1
  <2> QED BY <1>1, <2>3
<1>3. IsFiniteSet(Before)
  <2> DEFINE all == {In(g) : g \in 1 .. f - 1}  image == [g \in 1 .. f - 1 |-> In(g)]
  <2>1. image \in Surjection(1 .. f - 1, all)
    BY DEF Surjection
  <2>2. IsFiniteSet(1 .. f - 1)
    BY <1>1, FS_Interval
  <2>3. IsFiniteSet(all)
    <3> HIDE DEF all, image
    <3> QED BY <2>1, <2>2, FS_Surjection
  <2>4. \A T \in all : IsFiniteSet(T)
    BY <1>1, <1>2
  <2> HIDE DEF all, In
  <2> QED BY <2>3, <2>4, FS_UNION DEF all
<1>4. UNION {In(g) : g \in 1 .. (f + 1) - 1} = Before \union In(f)
  <2>1. 1 .. (f + 1) - 1 = (1 .. f - 1) \union {f}
    BY <1>1
  <2> HIDE DEF In
  <2> QED BY <2>1
<1>5. Before \intersect In(f) = {}
  <2> SUFFICES ASSUME NEW g \in 1 .. f - 1, NEW x \in In(g), x \in In(f) PROVE FALSE
    OBVIOUS
  <2>1. x[1] = g /\ x[1] = f
    OBVIOUS
  <2> QED BY <1>1, <2>1
<1> HIDE DEF Before, In
<1>6. Cardinality(Before \union In(f)) = Cardinality(Before) + FileRows[f] /\ Cardinality(Before) \in Nat
  <2>1. IsFiniteSet(In(f)) /\ Cardinality(In(f)) = FileRows[f] /\ FileRows[f] \in Nat
    BY <1>1, <1>2
  <2>2. Cardinality(Before \intersect In(f)) = 0
    BY <1>5, FS_EmptySet
  <2>3. Cardinality(Before) \in Nat
    BY <1>3, FS_CardinalityType
  <2>4. Cardinality(Before \union In(f)) = Cardinality(Before) + Cardinality(In(f)) - Cardinality(Before \intersect In(f))
    BY <1>3, <2>1, FS_Union
  <2> QED BY <2>1, <2>2, <2>3, <2>4
<1>7. FirstRow(f) = Cardinality(Before) /\ FirstRow(f + 1) = Cardinality(Before \union In(f))
  BY <1>4 DEF FirstRow, Before, In
<1> QED BY <1>1, <1>6, <1>7

-----------------------------------------------------------------------------
\* Rows in the market's order, up to one of them; a row traded on before another
\* of file f; a batch of f all of whose rows beyond a full tail, and whose last
\* one, may be traded on after another's; and one whose last row no row of the
\* other is later than.
Rising(b, top) ==
    /\ b \in Seq(Nat)
    /\ \A i \in DOMAIN b : b[i] <= top
    /\ \A i, j \in DOMAIN b : i < j => b[i] < b[j]

Before(x, y, f) == x < y \/ (x = y /\ FileRows[f] = 0)

Later(b, c, f) ==
    \A i \in DOMAIN b, j \in DOMAIN c : j > Kept \/ j = Len(c) => Before(b[i], c[j], f)

UpTo(b, c) == c # <<>> => \A i \in DOMAIN b : b[i] <= c[Len(c)]

LEMMA LaterIsUpTo ==
    ASSUME NEW b \in Seq(Nat), NEW c \in Seq(Nat), NEW f, Later(b, c, f)
    PROVE  UpTo(b, c)
<1> SUFFICES ASSUME c # <<>>, NEW i \in DOMAIN b PROVE b[i] <= c[Len(c)]
  BY DEF UpTo
<1>1. Len(c) \in DOMAIN c /\ b[i] \in Nat /\ c[Len(c)] \in Nat
  OBVIOUS
<1>2. Before(b[i], c[Len(c)], f)
  BY <1>1 DEF Later
<1> QED BY <1>1, <1>2 DEF Before

LEMMA RisesToItself == ASSUME NEW b, NEW top, Rising(b, top) PROVE UpTo(b, b)
<1> SUFFICES ASSUME b # <<>>, NEW i \in DOMAIN b PROVE b[i] <= b[Len(b)]
  BY DEF UpTo
<1>1. b \in Seq(Nat) /\ Len(b) \in Nat /\ DOMAIN b = 1 .. Len(b)
  BY DEF Rising
<1>2. Len(b) \in DOMAIN b /\ b[i] \in Nat /\ i <= Len(b) /\ i \in Nat
  BY <1>1
<1> QED BY <1>1, <1>2 DEF Rising

\* What the bridge keeps of it.
LEMMA LastAreRows == ASSUME NEW b \in Seq(Nat) PROVE LastRows(b) \in Seq(Nat)
<1> DEFINE m == Len(b) - Kept + 1
<1>1. Len(b) \in Nat /\ Kept \in Nat \ {0}
  BY EpisodeAssumption
<1>2. CASE Len(b) > Kept
  <2>1. m \in 1 .. Len(b)
    BY <1>1, <1>2
  <2>2. \A i \in m .. Len(b) : b[i] \in Nat
    BY <1>1, <2>1
  <2>3. m \in Int /\ Len(b) \in Int /\ m <= Len(b)
    BY <1>1, <2>1
  <2> HIDE DEF m
  <2>4. SubSeq(b, m, Len(b)) \in Seq(Nat)
    BY <2>2, <2>3, SubSeqProperties
  <2> QED BY <1>1, <1>2, <2>4 DEF LastRows, m
<1>3. CASE Len(b) <= Kept
  BY <1>3 DEF LastRows
<1> QED BY <1>1, <1>2, <1>3

LEMMA TailRises ==
    ASSUME NEW top, NEW b, Rising(b, top)
    PROVE  /\ Rising(LastRows(b), top) /\ Len(LastRows(b)) <= Kept
           /\ LastRows(b) # <<>> => b # <<>> /\ LastRows(b)[Len(LastRows(b))] = b[Len(b)]
<1> DEFINE m == Len(b) - Kept + 1  s == SubSeq(b, m, Len(b))
<1>1. b \in Seq(Nat) /\ Len(b) \in Nat /\ Kept \in Nat \ {0}
  BY EpisodeAssumption DEF Rising
<1>2. CASE Len(b) <= Kept
  BY <1>2 DEF LastRows
<1>3. CASE Len(b) > Kept
  <2>1. /\ m \in 1 .. Len(b) /\ Len(b) - m + 1 = Kept
    BY <1>1, <1>3
  <2>2. \A i \in m .. Len(b) : b[i] \in Nat
    BY <1>1, <2>1
  <2>3. m \in Int /\ Len(b) \in Int /\ m <= Len(b)
    BY <1>1, <2>1
  <2> HIDE DEF m
  <2>4. /\ s \in Seq(Nat) /\ Len(s) = Len(b) - m + 1
        /\ \A i \in 1 .. Len(b) - m + 1 : s[i] = b[m + i - 1]
    BY <2>2, <2>3, SubSeqProperties
  <2> HIDE DEF s
  <2>5. \A i \in 1 .. Kept : m + i - 1 \in 1 .. Len(b) /\ s[i] = b[m + i - 1]
    BY <1>1, <2>1, <2>4
  <2>6. DOMAIN s = 1 .. Kept /\ Len(s) = Kept
    BY <2>1, <2>4
  <2>7. Rising(s, top)
    <3>1. \A i \in 1 .. Kept : s[i] <= top
      <4>1. \A i \in 1 .. Len(b) : b[i] <= top
        BY <1>1 DEF Rising
      <4> QED BY <2>5, <4>1
    <3>2. ASSUME NEW i \in 1 .. Kept, NEW j \in 1 .. Kept, i < j PROVE s[i] < s[j]
      <4>1. m + i - 1 < m + j - 1
        BY <1>1, <2>3, <3>2
      <4>2. \A x, y \in 1 .. Len(b) : x < y => b[x] < b[y]
        BY <1>1 DEF Rising
      <4>3. m + i - 1 \in 1 .. Len(b) /\ m + j - 1 \in 1 .. Len(b) /\ s[i] = b[m + i - 1] /\ s[j] = b[m + j - 1]
        BY <2>5
      <4> QED BY <4>1, <4>2, <4>3
    <3> QED BY <2>4, <2>6, <3>1, <3>2 DEF Rising
  <2>8. Kept \in 1 .. Kept /\ m + Kept - 1 = Len(b)
    BY <1>1, <2>1, <2>3
  <2>9. s[Kept] = b[Len(b)] /\ b # <<>>
    BY <1>1, <1>3, <2>5, <2>8
  <2> QED BY <1>1, <1>3, <2>6, <2>7, <2>9 DEF LastRows, s, m
<1> QED BY <1>1, <1>2, <1>3

\* A file's rows behind the tail of an earlier batch, or behind none.
LEMMA LoadedRises ==
    ASSUME NEW f \in Partitions, NEW w, Rising(w, FirstRow(f)), NEW tail \in {<<>>, LastRows(w)}
    PROVE  /\ Rising(tail \o RowsOf(f), FirstRow(f + 1))
           /\ \A b : Rising(b, FirstRow(f)) /\ UpTo(b, w) => Later(b, tail \o RowsOf(f), f)
<1> DEFINE new == RowsOf(f)  all == tail \o new  k == Len(tail)
<1>1. /\ FirstRow(f) \in Nat /\ FileRows[f] \in Nat
      /\ FirstRow(f + 1) = FirstRow(f) + FileRows[f] /\ Kept \in Nat
  BY RowsAddUp, EpisodeAssumption
<1>2. new \in Seq(Nat) /\ Len(new) = FileRows[f] /\ \A i \in 1 .. FileRows[f] : new[i] = FirstRow(f) + i
  BY <1>1 DEF RowsOf
<1>3. /\ Rising(tail, FirstRow(f)) /\ k <= Kept /\ tail \in Seq(Nat) /\ k \in Nat
      /\ tail # <<>> => w # <<>> /\ tail[k] = w[Len(w)]
  <2>1. CASE tail = <<>>
    BY <1>1, <2>1 DEF Rising
  <2>2. CASE tail = LastRows(w)
    <3>1. /\ Rising(LastRows(w), FirstRow(f)) /\ Len(LastRows(w)) <= Kept
          /\ LastRows(w) # <<>> => w # <<>> /\ LastRows(w)[Len(LastRows(w))] = w[Len(w)]
      BY TailRises
    <3> QED BY <2>2, <3>1 DEF Rising
  <2> QED BY <2>1, <2>2
<1> HIDE DEF new
<1>4. /\ all \in Seq(Nat) /\ DOMAIN all = 1 .. k + FileRows[f] /\ Len(all) = k + FileRows[f]
      /\ \A i \in 1 .. k + FileRows[f] : all[i] = IF i <= k THEN tail[i] ELSE new[i - k]
  <2>1. /\ tail \o new \in Seq(Nat) /\ Len(tail \o new) = Len(tail) + Len(new)
        /\ \A i \in 1 .. Len(tail) + Len(new) : (tail \o new)[i] = IF i <= Len(tail) THEN tail[i] ELSE new[i - Len(tail)]
    BY <1>2, <1>3, ConcatProperties, Zenon
  <2> QED BY <1>2, <1>3, <2>1
<1> HIDE DEF all
<1>5. ASSUME NEW i \in 1 .. k + FileRows[f], i > k PROVE all[i] = FirstRow(f) + (i - k)
  <2>1. i - k \in 1 .. FileRows[f]
    BY <1>1, <1>3, <1>5
  <2> HIDE DEF k
  <2> QED BY <1>1, <1>2, <1>3, <1>4, <1>5, <2>1
<1>9. /\ \A i \in 1 .. k : tail[i] \in Nat /\ tail[i] <= FirstRow(f)
      /\ \A i, j \in 1 .. k : i < j => tail[i] < tail[j]
  BY <1>3 DEF Rising
<1>6. ASSUME NEW i \in 1 .. k + FileRows[f], i <= k PROVE all[i] = tail[i] /\ tail[i] <= FirstRow(f) /\ i \in 1 .. k /\ tail[i] \in Nat
  <2>1. i \in 1 .. k
    BY <1>1, <1>3, <1>6
  <2> HIDE DEF k
  <2> QED BY <1>4, <1>6, <1>9, <2>1
<1>7. Rising(all, FirstRow(f + 1))
  <2>1. ASSUME NEW i \in 1 .. k + FileRows[f] PROVE all[i] <= FirstRow(f + 1)
    <3>1. CASE i > k
      <4> HIDE DEF k
      <4> QED BY <1>1, <1>3, <1>5, <3>1
    <3>2. CASE i <= k
      BY <1>1, <1>6, <3>2
    <3> HIDE DEF k
    <3> QED BY <1>1, <1>3, <3>1, <3>2
  <2>2. ASSUME NEW i \in 1 .. k + FileRows[f], NEW j \in 1 .. k + FileRows[f], i < j PROVE all[i] < all[j]
    <3>1. CASE i <= k /\ j <= k
      BY <1>6, <1>9, <2>2, <3>1
    <3>2. CASE i <= k /\ j > k
      <4>1. all[j] = FirstRow(f) + (j - k) /\ all[i] \in Nat /\ all[i] <= FirstRow(f)
        BY <1>5, <1>6, <3>2
      <4> HIDE DEF k
      <4> QED BY <1>1, <1>3, <3>2, <4>1
    <3>3. CASE i > k /\ j > k
      <4>1. all[j] = FirstRow(f) + (j - k) /\ all[i] = FirstRow(f) + (i - k)
        BY <1>5, <3>3
      <4> HIDE DEF k
      <4> QED BY <1>1, <1>3, <2>2, <4>1
    <3> HIDE DEF k
    <3> QED BY <1>1, <1>3, <2>2, <3>1, <3>2, <3>3
  <2> QED BY <1>4, <2>1, <2>2 DEF Rising
<1>8. ASSUME NEW b, Rising(b, FirstRow(f)), UpTo(b, w) PROVE Later(b, all, f)
  <2> SUFFICES ASSUME NEW i \in DOMAIN b, NEW j \in 1 .. k + FileRows[f], j > Kept \/ j = k + FileRows[f]
               PROVE  Before(b[i], all[j], f)
    BY <1>4 DEF Later
  <2>1. CASE FileRows[f] # 0
    <3>1. j > k
      <4> HIDE DEF k
      <4> QED BY <1>1, <1>3, <2>1
    <3>2. all[j] = FirstRow(f) + (j - k) /\ b[i] \in Nat /\ b[i] <= FirstRow(f)
      BY <1>5, <1>8, <3>1 DEF Rising
    <3> HIDE DEF k
    <3>3. b[i] < all[j]
      BY <1>1, <1>3, <3>1, <3>2
    <3> QED BY <3>3 DEF Before
  <2>2. CASE FileRows[f] = 0
    <3>1. j = k /\ k # 0
      <4> HIDE DEF k
      <4> QED BY <1>1, <1>3, <2>2
    <3>2. all[j] = tail[k] /\ tail[k] \in Nat /\ tail # <<>>
      BY <1>6, <3>1
    <3>3. b[i] <= tail[k] /\ b[i] \in Nat
      BY <1>3, <1>8, <3>2 DEF UpTo, Rising
    <3> HIDE DEF k
    <3> QED BY <2>2, <3>2, <3>3 DEF Before
  <2> QED BY <2>1, <2>2
<1> QED BY <1>7, <1>8 DEF all, new

-----------------------------------------------------------------------------
\* Batches on their way to the environment, and its trades.
Batches == [rows : Seq(Nat), of : Int]
Deals   == [row : Nat, of : Int]

EnvRecord == [at : {"closing", "joining", "first", "stepping", "switching", "done"},
              name : EpisodeIds, serving : 0 .. MaxResets, batch : Seq(Nat), of : Int, pos : Nat]
ThreadRecord == [at : {"none", "next", "saving", "offering", "ended"},
                 file : 1 .. Len(FileRows) + 1, name : 0 .. MaxResets, batch : Seq(Nat)]

EpisodeTyped ==
    /\ fifo \in [EpisodeIds -> Seq(Nat)]
    /\ env \in EnvRecord
    /\ env.at \in {"first", "stepping", "switching"} => env.serving \in EpisodeIds
    /\ env.at \in {"stepping", "switching"} => env.batch # <<>>
    /\ thread \in [EpisodeIds -> ThreadRecord]
    /\ \A e \in EpisodeIds :
          thread[e].at = "saving" => thread[e].file \in Partitions /\ thread[e].name \in EpisodeIds
    /\ queue \in [EpisodeIds -> Seq(Batches)]
    /\ envs \in Nat /\ seen \in Seq(Deals)

\* The first row a thread has not loaded, and its latest batch's file.
Top(e)   == FirstRow(thread[e].file)
Ahead(e) == IF thread[e].at = "saving" THEN FirstRow(thread[e].file + 1) ELSE Top(e)
Of(e)    == IF thread[e].at = "saving" THEN thread[e].file ELSE thread[e].file - 1

\* The batches a thread has offered, and its latest.
Offered(e) ==
    /\ \A i \in DOMAIN queue[e] : Rising(queue[e][i].rows, Top(e))
    /\ \A i, j \in DOMAIN queue[e] : i < j => Later(queue[e][i].rows, queue[e][j].rows, queue[e][j].of)

Holds(e) ==
    /\ Rising(thread[e].batch, Ahead(e))
    /\ \A i \in DOMAIN queue[e] : UpTo(queue[e][i].rows, thread[e].batch)
    /\ thread[e].at \in {"saving", "offering"} =>
          \A i \in DOMAIN queue[e] : Later(queue[e][i].rows, thread[e].batch, Of(e))

\* The batch the environment is at is before those.
Serves(e) ==
    env.at \in {"stepping", "switching"} /\ env.serving = e =>
        /\ Rising(env.batch, Top(e)) /\ UpTo(env.batch, thread[e].batch)
        /\ \A i \in DOMAIN queue[e] : Later(env.batch, queue[e][i].rows, queue[e][i].of)
        /\ thread[e].at \in {"saving", "offering"} => Later(env.batch, thread[e].batch, Of(e))

\* Where it is in that batch.
Index    == IF env.pos + SeqLen > Len(env.batch) THEN Len(env.batch) ELSE env.pos + SeqLen
Traded ==
    /\ \A i, j \in DOMAIN seen : i < j => Before(seen[i].row, seen[j].row, seen[j].of)
    /\ env.at = "first" => seen = <<>>
    /\ env.at = "stepping" => \A i \in DOMAIN seen : Before(seen[i].row, env.batch[Index], env.of)
    /\ env.at = "switching" => \A i \in DOMAIN seen : \E j \in DOMAIN env.batch : seen[i].row <= env.batch[j]

Untainted(e) == Offered(e) /\ Holds(e) /\ Serves(e)

EpisodeInv ==
    /\ EpisodeTyped
    /\ \A e \in EpisodeIds \ tainted : Untainted(e)
    /\ env.serving \notin tainted => Traded

LEMMA FirstRecords == NewEnv \in EnvRecord /\ Unborn \in ThreadRecord
<1>1. <<>> \in Seq(Nat)
  OBVIOUS
<1>2. 1 \in EpisodeIds /\ 1 \in 1 .. Len(FileRows) + 1
  BY EpisodeAssumption DEF EpisodeIds
<1> QED BY <1>1, <1>2, EpisodeAssumption DEF NewEnv, Unborn, EnvRecord, ThreadRecord

LEMMA EmptyRises == ASSUME NEW top PROVE Rising(<<>>, top) /\ \A b : UpTo(b, <<>>)
BY DEF Rising, UpTo

LEMMA EpisodeStart == EpisodeInit => EpisodeInv
<1> SUFFICES ASSUME EpisodeInit PROVE EpisodeInv
  OBVIOUS
<1>1. <<>> \in Seq(Nat) /\ <<>> \in Seq(Batches) /\ <<>> \in Seq(Deals) /\ DOMAIN <<>> = {}
  OBVIOUS
<1>2. /\ env.at = "closing"
      /\ \A e \in EpisodeIds : thread[e].at = "none" /\ thread[e].batch = <<>> /\ queue[e] = <<>>
  BY DEF EpisodeInit, Unborn, NewEnv
<1>3. EpisodeTyped
  BY <1>1, <1>2, FirstRecords DEF EpisodeInit, EpisodeTyped
<1>4. \A e \in EpisodeIds : Untainted(e)
  BY <1>1, <1>2, EmptyRises DEF Untainted, Offered, Holds, Serves
<1>5. Traded
  BY <1>1, <1>2 DEF EpisodeInit, Traded
<1> QED BY <1>3, <1>4, <1>5 DEF EpisodeInv

\* A step that leaves the threads alone, but for batches taken from the front of
\* a queue, and the served batch too.
LEMMA ThreadsRest ==
    ASSUME NEW e \in EpisodeIds, EpisodeTyped, Offered(e), Holds(e), UNCHANGED thread,
           queue'[e] = queue[e] \/ (queue[e] # <<>> /\ queue'[e] = Tail(queue[e]))
    PROVE  Offered(e)' /\ Holds(e)'
<1>2. CASE queue'[e] = queue[e]
  BY <1>2 DEF Offered, Holds, Top, Ahead, Of
<1>3. CASE queue[e] # <<>> /\ queue'[e] = Tail(queue[e])
  <2>1. queue[e] \in Seq(Batches)
    BY DEF EpisodeTyped
  <2>2. /\ DOMAIN queue'[e] = 1 .. Len(queue[e]) - 1 /\ DOMAIN queue[e] = 1 .. Len(queue[e]) /\ Len(queue[e]) \in Nat
        /\ \A i \in 1 .. Len(queue[e]) - 1 : queue'[e][i] = queue[e][i + 1]
    BY <1>3, <2>1, HeadTailProperties
  <2>3. \A i \in DOMAIN queue'[e] : i + 1 \in DOMAIN queue[e] /\ queue'[e][i] = queue[e][i + 1]
    BY <2>2
  <2>4. \A i, j \in DOMAIN queue'[e] : i < j => i + 1 < j + 1
    BY <2>2
  <2>5. Offered(e)'
    <3>1. \A i \in DOMAIN queue'[e] : Rising(queue'[e][i].rows, Top(e))
      BY <2>3 DEF Offered
    <3>2. \A i, j \in DOMAIN queue'[e] :
             i < j => Later(queue'[e][i].rows, queue'[e][j].rows, queue'[e][j].of)
      BY <2>3, <2>4 DEF Offered
    <3> QED BY <3>1, <3>2 DEF Offered, Top
  <2>6. Holds(e)'
    BY <2>3 DEF Holds, Top, Ahead, Of
  <2> QED BY <2>5, <2>6
<1> QED BY <1>2, <1>3

\* Each step keeps the types.
LEMMA GotTyped ==
    ASSUME EpisodeTyped, env.serving \in EpisodeIds, NEW pos \in Nat, Got(pos)
    PROVE  LET b == queue[env.serving][1] IN
           /\ env' = [env EXCEPT !.at = IF b.rows = <<>> THEN "done" ELSE "stepping",
                                 !.batch = b.rows, !.of = b.of, !.pos = pos]
           /\ queue[env.serving] # <<>> /\ 1 \in DOMAIN queue[env.serving]
           /\ queue' \in [EpisodeIds -> Seq(Batches)] /\ env' \in EnvRecord /\ b \in Batches
           /\ \A e \in EpisodeIds : queue'[e] = IF e = env.serving THEN Tail(queue[e]) ELSE queue[e]
<1> DEFINE s == env.serving  b == queue[s][1]
<1>1. queue[s] \in Seq(Batches) /\ queue[s] # <<>>
  BY DEF Got, EpisodeTyped
<1>2. Tail(queue[s]) \in Seq(Batches) /\ Head(queue[s]) = b /\ 1 \in DOMAIN queue[s] /\ b \in Batches
  BY <1>1
<1>3. env' = [env EXCEPT !.at = IF b.rows = <<>> THEN "done" ELSE "stepping",
                         !.batch = b.rows, !.of = b.of, !.pos = pos]
  BY <1>2 DEF Got
<1>4. env' \in EnvRecord
  <2>1. b.rows \in Seq(Nat) /\ b.of \in Int
    BY <1>2 DEF Batches
  <2> HIDE DEF b
  <2> QED BY <1>3, <2>1 DEF EpisodeTyped, EnvRecord
<1>5. queue' = [queue EXCEPT ![s] = Tail(@)] /\ queue \in [EpisodeIds -> Seq(Batches)]
  BY DEF Got, EpisodeTyped
<1>6. \A e \in EpisodeIds : queue'[e] = IF e = s THEN Tail(queue[e]) ELSE queue[e]
  BY <1>5
<1>7. queue' \in [EpisodeIds -> Seq(Batches)]
  <2> HIDE DEF s
  <2> QED BY <1>2, <1>5
<1> QED BY <1>1, <1>2, <1>3, <1>4, <1>6, <1>7

LEMMA EnvironmentTyped ==
    ASSUME EpisodeTyped, env' \in EnvRecord, queue' \in [EpisodeIds -> Seq(Batches)], seen' \in Seq(Deals),
           env'.at \in {"first", "stepping", "switching"} => env'.serving \in EpisodeIds,
           env'.at \in {"stepping", "switching"} => env'.batch # <<>>,
           UNCHANGED <<fifo, thread, envs>>
    PROVE  EpisodeTyped'
BY DEF EpisodeTyped

LEMMA ThreadTyped ==
    ASSUME EpisodeTyped, NEW e \in EpisodeIds, NEW x \in ThreadRecord, thread' = [thread EXCEPT ![e] = x],
           x.at = "saving" => x.file \in Partitions /\ x.name \in EpisodeIds,
           UNCHANGED <<env, envs, seen>>, queue' \in [EpisodeIds -> Seq(Batches)],
           fifo' \in [EpisodeIds -> Seq(Nat)]
    PROVE  EpisodeTyped'
<1>1. thread' \in [EpisodeIds -> ThreadRecord] /\ \A d \in EpisodeIds : thread'[d] = IF d = e THEN x ELSE thread[d]
  BY DEF EpisodeTyped
<1> QED BY <1>1 DEF EpisodeTyped

-----------------------------------------------------------------------------
LEMMA NamesStep == ASSUME EpisodeInv, ResetNames \/ CloseQueue PROVE EpisodeInv'
<1>1. /\ EpisodeTyped /\ UNCHANGED <<fifo, thread, queue, envs, tainted, seen>>
      /\ env'.at \in {"closing", "joining"} /\ env'.serving = env.serving /\ env' \in EnvRecord
  <2>1. env \in EnvRecord /\ (env.name < MaxResets => env.name + 1 \in EpisodeIds)
    BY EpisodeAssumption DEF EpisodeInv, EpisodeTyped, EnvRecord, EpisodeIds
  <2> QED BY <2>1 DEF EpisodeInv, EpisodeTyped, ResetNames, CloseQueue, threads, EnvRecord
<1>2. EpisodeTyped'
  BY <1>1, EnvironmentTyped DEF EpisodeTyped
<1>3. \A e \in EpisodeIds \ tainted : Untainted(e)'
  BY <1>1, ThreadsRest DEF EpisodeInv, Untainted, Serves
<1> QED BY <1>1, <1>2, <1>3 DEF EpisodeInv, Traded

LEMMA StartStep == ASSUME EpisodeInv, StartQueue PROVE EpisodeInv'
<1> DEFINE s == env.name  new == [Unborn EXCEPT !.at = "next"]
<1>1. /\ EpisodeTyped /\ UNCHANGED <<fifo, envs, tainted>> /\ s \in EpisodeIds
      /\ env' = [env EXCEPT !.at = "first", !.serving = s, !.pos = 0] /\ seen' = <<>>
      /\ thread' = [thread EXCEPT ![s] = new] /\ queue' = [queue EXCEPT ![s] = <<>>]
  BY DEF EpisodeInv, EpisodeTyped, EnvRecord, StartQueue
<1>2. env' \in EnvRecord /\ env'.at = "first" /\ env'.serving = s
  <2>1. env \in EnvRecord
    BY <1>1 DEF EpisodeTyped
  <2>2. s \in 0 .. MaxResets
    BY <1>1, EpisodeAssumption DEF EpisodeIds
  <2> HIDE DEF s
  <2> QED BY <1>1, <2>1, <2>2 DEF EnvRecord
<1>3. new \in ThreadRecord /\ new.at = "next" /\ new.batch = <<>>
  BY FirstRecords DEF ThreadRecord, Unborn
<1> HIDE DEF s, new
<1>4. /\ <<>> \in Seq(Nat) /\ <<>> \in Seq(Batches) /\ <<>> \in Seq(Deals) /\ DOMAIN <<>> = {}
      /\ \A e \in EpisodeIds : /\ thread'[e] = IF e = s THEN new ELSE thread[e]
                               /\ queue'[e] = IF e = s THEN <<>> ELSE queue[e]
      /\ thread' \in [EpisodeIds -> ThreadRecord] /\ queue' \in [EpisodeIds -> Seq(Batches)]
  BY <1>1, <1>3 DEF EpisodeTyped
<1>5. EpisodeTyped'
  BY <1>1, <1>2, <1>3, <1>4 DEF EpisodeTyped
<1>6. ASSUME NEW e \in EpisodeIds \ tainted PROVE Untainted(e)'
  <2>1. Serves(e)'
    BY <1>2 DEF Serves
  <2>2. CASE e = s
    BY <1>3, <1>4, <2>1, <2>2, EmptyRises DEF Untainted, Offered, Holds
  <2>3. CASE e # s
    <3>1. UNCHANGED <<thread[e], queue[e]>>
      BY <1>4, <2>3
    <3> QED BY <2>1, <3>1 DEF EpisodeInv, Untainted, Offered, Holds, Top, Ahead, Of
  <2> QED BY <2>2, <2>3
<1>7. Traded'
  BY <1>1, <1>2, <1>4 DEF Traded
<1> QED BY <1>1, <1>5, <1>6, <1>7 DEF EpisodeInv

\* The environment goes on to the next batch of its queue, or ends.
LEMMA GotStep ==
    ASSUME EpisodeInv, NEW pos \in Nat, env.at \in {"first", "switching"}, Got(pos) \/ GotNone,
           UNCHANGED <<fifo, thread, stopped, envs, seen, tainted>>,
           env.at = "switching" => pos = ResumeAt
    PROVE  EpisodeInv'
<1> DEFINE s == env.serving
<1>1. EpisodeTyped /\ s \in EpisodeIds
  BY DEF EpisodeInv, EpisodeTyped
<1>2. CASE GotNone
  <2>1. UNCHANGED queue /\ env'.at = "done" /\ env'.serving = s /\ env' \in EnvRecord
    BY <1>1, <1>2 DEF GotNone, EpisodeTyped, EnvRecord
  <2>2. EpisodeTyped'
    BY <1>1, <2>1, EnvironmentTyped DEF EpisodeTyped
  <2>3. \A e \in EpisodeIds \ tainted : Untainted(e)'
    BY <1>1, <2>1, ThreadsRest DEF EpisodeInv, Untainted, Serves
  <2> QED BY <2>1, <2>2, <2>3 DEF EpisodeInv, Traded
<1>3. CASE Got(pos)
  <2> DEFINE b == queue[s][1].rows  f == queue[s][1].of  at == IF b = <<>> THEN "done" ELSE "stepping"
  <2>1. /\ env' = [env EXCEPT !.at = at, !.batch = b, !.of = f, !.pos = pos]
        /\ queue[s] # <<>> /\ 1 \in DOMAIN queue[s] /\ b \in Seq(Nat)
        /\ queue' \in [EpisodeIds -> Seq(Batches)] /\ env' \in EnvRecord
        /\ \A e \in EpisodeIds : queue'[e] = IF e = s THEN Tail(queue[e]) ELSE queue[e]
    BY <1>1, <1>3, GotTyped DEF Batches
  <2>2. env'.at = at /\ env'.batch = b /\ env'.of = f /\ env'.pos = pos /\ env'.serving = s
    <3> HIDE DEF b, f, at
    <3> QED BY <1>1, <2>1 DEF EpisodeTyped, EnvRecord
  <2>3. EpisodeTyped'
    BY <1>1, <2>1, <2>2, EnvironmentTyped DEF EpisodeTyped
  <2>4. ASSUME NEW e \in EpisodeIds \ tainted PROVE Untainted(e)'
    <3>1. Offered(e) /\ Holds(e)
      BY DEF EpisodeInv, Untainted
    <3>2. Offered(e)' /\ Holds(e)'
      BY <1>1, <2>1, <3>1, ThreadsRest
    <3>3. CASE e = s
      <4>1. queue[s] \in Seq(Batches)
        BY <1>1 DEF EpisodeTyped
      <4>2. \A i \in DOMAIN queue'[s] : 1 < i + 1 /\ i + 1 \in DOMAIN queue[s] /\ queue'[s][i] = queue[s][i + 1]
        <5>1. \A i \in 1 .. Len(Tail(queue[s])) : Tail(queue[s])[i] = queue[s][i + 1]
          BY <2>1, <4>1, HeadTailProperties
        <5>2. Tail(queue[s]) \in Seq(Batches) /\ Len(Tail(queue[s])) = Len(queue[s]) - 1 /\ queue'[s] = Tail(queue[s])
          BY <1>1, <2>1, <4>1, HeadTailProperties
        <5> HIDE DEF s
        <5> QED BY <4>1, <5>1, <5>2
      <4>3. Rising(b, Top(s)) /\ \A i \in DOMAIN queue'[s] : Later(b, queue'[s][i].rows, queue'[s][i].of)
        BY <2>1, <3>1, <3>3, <4>2 DEF Offered
      <4>4. /\ UpTo(b, thread[s].batch)
            /\ thread[s].at \in {"saving", "offering"} => Later(b, thread[s].batch, Of(s))
        BY <2>1, <3>1, <3>3 DEF Holds
      <4> HIDE DEF s, b
      <4> QED BY <2>2, <3>2, <3>3, <4>3, <4>4 DEF Untainted, Serves, Top, Of
    <3>4. CASE e # s
      BY <2>2, <3>2, <3>4 DEF Untainted, Serves
    <3> QED BY <3>3, <3>4
  <2>5. ASSUME s \notin tainted PROVE Traded'
    <3>1. Traded
      BY <2>5 DEF EpisodeInv
    <3>2. CASE env.at = "first" \/ b = <<>>
      <4>1. env'.at \in {"done", "stepping"} /\ (env'.at = "stepping" => env.at = "first")
        BY <2>2, <3>2
      <4> QED BY <3>1, <4>1 DEF Traded
    <3>3. CASE env.at = "switching" /\ b # <<>>
      <4>1. Later(env.batch, b, f) /\ env.batch \in Seq(Nat)
        <5>1. Serves(s) /\ env \in EnvRecord
          BY <1>1, <2>5 DEF EpisodeInv, EpisodeTyped, Untainted
        <5> QED BY <2>1, <3>3, <5>1 DEF Serves, EnvRecord
      <4>2. /\ pos = (IF 0 > Kept - SeqLen + 1 THEN 0 ELSE Kept - SeqLen + 1) /\ Kept \in Nat /\ SeqLen \in Nat \ {0}
        BY <3>3, EpisodeAssumption DEF ResumeAt, LargerOf
      <4>3. b \in Seq(Nat) /\ Len(b) \in Nat \ {0}
        BY <2>1, <3>3
      <4> DEFINE k == IF pos + SeqLen > Len(b) THEN Len(b) ELSE pos + SeqLen
      <4>4. k \in DOMAIN b /\ (k > Kept \/ k = Len(b))
        <5>1. pos + SeqLen > Kept /\ pos + SeqLen \in Nat
          BY <4>2
        <5> HIDE DEF b
        <5>2. DOMAIN b = 1 .. Len(b)
          BY <4>3
        <5>3. pos + SeqLen \in Nat \ {0} /\ Len(b) \in Nat \ {0}
          BY <4>2, <4>3
        <5>4. k \in 1 .. Len(b)
          BY <5>3
        <5>5. k > Kept \/ k = Len(b)
          BY <5>1
        <5> QED BY <5>2, <5>4, <5>5
      <4>5. Index' = k /\ env'.batch[Index'] = b[k] /\ env'.of = f
        BY <2>2 DEF Index
      <4> HIDE DEF k
      <4>6. b[k] \in Nat
        BY <4>3, <4>4
      <4> HIDE DEF b, f
      <4>7. \A i \in DOMAIN env.batch : Before(env.batch[i], b[k], f) /\ env.batch[i] \in Nat
        BY <4>1, <4>4 DEF Later
      <4>8. \A i \in DOMAIN seen : Before(seen[i].row, b[k], f)
        <5> TAKE i \in DOMAIN seen
        <5>1. PICK j \in DOMAIN env.batch : seen[i].row <= env.batch[j]
          BY <3>1, <3>3 DEF Traded
        <5>2. seen[i].row \in Nat
          <6>1. seen \in Seq(Deals)
            BY <1>1 DEF EpisodeTyped
          <6>2. seen[i] \in Deals
            BY <6>1
          <6> QED BY <6>2 DEF Deals
        <5>3. Before(env.batch[j], b[k], f) /\ env.batch[j] \in Nat
          BY <4>7
        <5> QED BY <4>6, <5>1, <5>2, <5>3 DEF Before
      <4> QED BY <2>2, <3>1, <3>3, <4>5, <4>8 DEF Traded
    <3> QED BY <1>1, <3>2, <3>3
  <2>6. env'.at # "first"
    BY <2>2
  <2> QED BY <2>2, <2>3, <2>4, <2>5 DEF EpisodeInv
<1> QED BY <1>2, <1>3

\* A step trades the row it is at; the threshold is never beyond the last row.
LEMMA TradeStep == ASSUME EpisodeInv, EnvStep PROVE EpisodeInv'
<1> DEFINE b == env.batch  next == IF env.pos + 1 >= LargerOf(1, Len(b) - SeqLen) THEN "switching" ELSE "stepping"
           deal == [row |-> b[Index], of |-> env.of]
<1>1. /\ EpisodeTyped /\ UNCHANGED <<fifo, thread, queue, envs, tainted>> /\ env \in EnvRecord
      /\ env.at = "stepping" /\ b # <<>> /\ b \in Seq(Nat) /\ env.pos \in Nat /\ env.serving \in EpisodeIds
      /\ seen \in Seq(Deals) /\ env.of \in Int
  BY DEF EpisodeInv, EpisodeTyped, EnvStep, threads, EnvRecord
<1>2. /\ env' \in EnvRecord /\ env'.at = next /\ env'.batch = b /\ env'.pos = env.pos + 1 /\ env'.serving = env.serving
      /\ env'.of = env.of /\ next \in {"switching", "stepping"}
  <2>1. env' = [env EXCEPT !.pos = @ + 1, !.at = next] /\ next \in {"switching", "stepping"}
    BY DEF EnvStep
  <2>2. env.pos + 1 \in Nat
    BY <1>1
  <2> HIDE DEF next
  <2> QED BY <1>1, <2>1, <2>2 DEF EnvRecord
<1>3. Index \in DOMAIN b /\ Index \in Nat /\ Len(b) \in Nat \ {0} /\ DOMAIN b = 1 .. Len(b)
      /\ Index = IF env.pos + SeqLen > Len(b) THEN Len(b) ELSE env.pos + SeqLen
  <2>1. Len(b) \in Nat \ {0} /\ DOMAIN b = 1 .. Len(b)
    BY <1>1
  <2>2. env.pos + SeqLen \in Nat \ {0}
    BY <1>1, EpisodeAssumption
  <2> QED BY <2>1, <2>2 DEF Index
<1>4. /\ seen' = Append(seen, deal) /\ deal.row = b[Index] /\ deal.of = env.of /\ b[Index] \in Nat /\ deal \in Deals
  BY <1>1, <1>3 DEF EnvStep, TradedRow, Index, Deals
<1> HIDE DEF b, next, deal
<1>5. EpisodeTyped'
  <2>1. seen' \in Seq(Deals) /\ queue' \in [EpisodeIds -> Seq(Batches)]
    BY <1>1, <1>4 DEF EpisodeTyped
  <2>2. env'.batch # <<>> /\ env'.serving \in EpisodeIds
    BY <1>1, <1>2 DEF b
  <2> QED BY <1>1, <1>2, <2>1, <2>2, EnvironmentTyped
<1>6. \A e \in EpisodeIds \ tainted : Untainted(e)'
  BY <1>1, <1>2, ThreadsRest DEF EpisodeInv, Untainted, Serves, b, Top, Of
<1>7. ASSUME env.serving \notin tainted PROVE Traded'
  <2>1. Traded /\ Rising(b, Top(env.serving))
    BY <1>1, <1>7 DEF EpisodeInv, Untainted, Serves, b
  <2>2. /\ DOMAIN seen' = 1 .. Len(seen) + 1 /\ DOMAIN seen = 1 .. Len(seen) /\ Len(seen) \in Nat
        /\ \A i \in 1 .. Len(seen) : seen'[i] = seen[i] /\ seen[i] \in Deals
        /\ seen'[Len(seen) + 1] = deal
    BY <1>1, <1>4
  <2>3. \A i \in 1 .. Len(seen) : Before(seen[i].row, b[Index], env.of) /\ seen[i].row \in Nat
    BY <1>1, <2>1, <2>2 DEF Traded, b, Deals
  <2>4. \A i, j \in DOMAIN seen' : i < j => Before(seen'[i].row, seen'[j].row, seen'[j].of)
    <3> SUFFICES ASSUME NEW i \in 1 .. Len(seen) + 1, NEW j \in 1 .. Len(seen) + 1, i < j
                 PROVE  Before(seen'[i].row, seen'[j].row, seen'[j].of)
      BY <2>2
    <3>1. i \in 1 .. Len(seen)
      BY <2>2
    <3>2. CASE j = Len(seen) + 1
      BY <1>4, <2>2, <2>3, <3>1, <3>2
    <3>3. CASE j \in 1 .. Len(seen)
      BY <2>1, <2>2, <3>1, <3>3 DEF Traded
    <3> QED BY <2>2, <3>2, <3>3
  <2>5. \A i \in DOMAIN seen' : seen'[i].row <= b[Index] /\ seen'[i].row \in Nat
    <3> SUFFICES ASSUME NEW i \in 1 .. Len(seen) + 1 PROVE seen'[i].row <= b[Index] /\ seen'[i].row \in Nat
      BY <2>2
    <3>1. CASE i \in 1 .. Len(seen)
      BY <1>4, <2>2, <2>3, <3>1 DEF Before
    <3>2. CASE i = Len(seen) + 1
      BY <1>4, <2>2, <3>2
    <3> QED BY <2>2, <3>1, <3>2
  <2>6. CASE next = "switching"
    BY <1>2, <1>3, <2>4, <2>5, <2>6 DEF Traded
  <2>7. CASE next = "stepping"
    <3>1. env.pos + 1 < Len(b) - SeqLen
      <4>1. ~(env.pos + 1 >= LargerOf(1, Len(b) - SeqLen))
        BY <2>7 DEF next
      <4> QED BY <1>1, <1>3, <4>1, EpisodeAssumption DEF LargerOf
    <3>2. Index' = env.pos + 1 + SeqLen /\ Index = env.pos + SeqLen
      <4>1. Index' = IF env.pos + 1 + SeqLen > Len(b) THEN Len(b) ELSE env.pos + 1 + SeqLen
        BY <1>2 DEF Index
      <4> QED BY <1>1, <1>3, <3>1, <4>1, EpisodeAssumption
    <3>3. Index' \in DOMAIN b /\ Index < Index'
      <4>1. env.pos \in Nat /\ SeqLen \in Nat /\ Len(b) \in Nat
        BY <1>1, <1>3, EpisodeAssumption
      <4>2. env.pos + 1 + SeqLen \in 1 .. Len(b) /\ env.pos + SeqLen < env.pos + 1 + SeqLen
        BY <3>1, <4>1
      <4> QED BY <1>3, <3>2, <4>2
    <3>4. b[Index] < b[Index']
      BY <1>3, <2>1, <3>3 DEF Rising
    <3>5. b[Index'] \in Nat
      BY <1>1, <3>3 DEF b
    <3>6. \A i \in DOMAIN seen' : seen'[i].row < b[Index']
      BY <1>4, <2>5, <3>4, <3>5
    <3>7. \A i \in DOMAIN seen' : Before(seen'[i].row, b[Index'], env.of)
      BY <3>6 DEF Before
    <3>8. env'.batch[Index'] = b[Index']
      BY <1>2
    <3> QED BY <1>2, <2>4, <2>7, <3>7, <3>8 DEF Traded
  <2> QED BY <1>2, <2>6, <2>7
<1> QED BY <1>1, <1>2, <1>5, <1>6, <1>7 DEF EpisodeInv

\* Another environment, with no thread yet.
LEMMA MakeStep == ASSUME EpisodeInv, MakeEnv PROVE EpisodeInv'
<1>1. <<>> \in Seq(Nat) /\ <<>> \in Seq(Batches) /\ <<>> \in Seq(Deals) /\ DOMAIN <<>> = {}
  OBVIOUS
<1>2. /\ EpisodeTyped /\ fifo' = fifo /\ envs' = envs + 1 /\ env' = NewEnv /\ seen' = <<>>
      /\ thread' = [e \in EpisodeIds |-> Unborn] /\ queue' = [e \in EpisodeIds |-> <<>>]
  BY DEF EpisodeInv, MakeEnv
<1>3. /\ env'.at = "closing"
      /\ \A e \in EpisodeIds : thread'[e].at = "none" /\ thread'[e].batch = <<>> /\ queue'[e] = <<>>
  BY <1>2 DEF NewEnv, Unborn
<1>4. EpisodeTyped'
  BY <1>1, <1>2, <1>3, FirstRecords DEF EpisodeTyped
<1>5. \A e \in EpisodeIds : Untainted(e)'
  BY <1>1, <1>3, EmptyRises DEF Untainted, Offered, Holds, Serves
<1>6. Traded'
  BY <1>1, <1>2, <1>3 DEF Traded
<1> QED BY <1>4, <1>5, <1>6 DEF EpisodeInv

-----------------------------------------------------------------------------
LEMMA RisesFurther ==
    ASSUME NEW top \in Nat, NEW more \in Nat, top <= more, NEW b, Rising(b, top)
    PROVE  Rising(b, more)
BY DEF Rising

LEMMA NextFile ==
    ASSUME NEW f \in Partitions, NEW b, Rising(b, FirstRow(f))
    PROVE  Rising(b, FirstRow(f + 1))
<1>1. FirstRow(f) \in Nat /\ FirstRow(f + 1) \in Nat /\ FirstRow(f) <= FirstRow(f + 1)
  BY RowsAddUp
<1> QED BY <1>1, RisesFurther

\* A step of one thread leaves the episodes of the others as they were.
LEMMA OneThread ==
    ASSUME EpisodeInv, NEW e \in EpisodeIds, UNCHANGED <<env, seen>>, tainted \subseteq tainted',
           EpisodeTyped', e \notin tainted' => Untainted(e)',
           \A d \in EpisodeIds \ {e} : thread'[d] = thread[d] /\ queue'[d] = queue[d]
    PROVE  EpisodeInv'
<1>1. ASSUME NEW d \in EpisodeIds \ tainted', d # e PROVE Untainted(d)'
  <2>1. Untainted(d) /\ thread'[d] = thread[d] /\ queue'[d] = queue[d]
    BY <1>1 DEF EpisodeInv
  <2> QED BY <2>1 DEF Untainted, Offered, Holds, Serves, Top, Ahead, Of
<1>2. env'.serving \notin tainted' => Traded'
  BY DEF EpisodeInv, Traded, Index
<1> QED BY <1>1, <1>2 DEF EpisodeInv

\* A load: the tail is that of the thread's last batch, or empty, or it taints it.
LEMMA LoadStep == ASSUME EpisodeInv, NEW e \in EpisodeIds, Load(e) PROVE EpisodeInv'
<1> DEFINE w == thread[e]
<1>1. PICK tail \in {<<>>, fifo[env.name]} :
          /\ thread' = [thread EXCEPT ![e] = [w EXCEPT !.at = "saving", !.name = env.name,
                                                       !.batch = tail \o RowsOf(w.file)]]
          /\ tainted' = IF tail \in {<<>>, LastRows(w.batch)} THEN tainted ELSE tainted \union {e}
  BY DEF Load
<1> DEFINE new == tail \o RowsOf(w.file)
           x == [w EXCEPT !.at = "saving", !.name = env.name, !.batch = new]
<1>2. /\ EpisodeTyped /\ w \in ThreadRecord /\ w.file \in Partitions /\ w.at = "next"
      /\ env.name \in EpisodeIds /\ tail \in Seq(Nat)
      /\ thread' = [thread EXCEPT ![e] = x] /\ UNCHANGED <<fifo, env, queue, envs, seen>>
  <2>1. /\ EpisodeTyped /\ w \in ThreadRecord /\ w.file \in Partitions /\ w.at = "next"
        /\ env.name \in EpisodeIds /\ UNCHANGED <<fifo, env, queue, envs, seen>>
    BY DEF EpisodeInv, EpisodeTyped, EnvRecord, Load
  <2>2. fifo[env.name] \in Seq(Nat) /\ <<>> \in Seq(Nat)
    BY <2>1 DEF EpisodeTyped
  <2> QED BY <1>1, <2>1, <2>2
<1>3. new \in Seq(Nat)
  <2>1. FirstRow(w.file) \in Nat /\ FileRows[w.file] \in Nat
    BY <1>2, RowsAddUp
  <2>2. RowsOf(w.file) \in Seq(Nat)
    BY <2>1 DEF RowsOf
  <2> QED BY <1>2, <2>2
<1> HIDE DEF new
<1>4. /\ x \in ThreadRecord /\ x.at = "saving" /\ x.name = env.name /\ x.batch = new /\ x.file = w.file
  <2>1. env.name \in 0 .. MaxResets
    BY <1>2, EpisodeAssumption DEF EpisodeIds
  <2> QED BY <1>2, <1>3, <2>1 DEF ThreadRecord
<1> HIDE DEF x
<1>5. EpisodeTyped'
  <2>1. queue' \in [EpisodeIds -> Seq(Batches)] /\ fifo' \in [EpisodeIds -> Seq(Nat)]
    BY <1>2 DEF EpisodeTyped
  <2> HIDE DEF w
  <2> QED BY <1>2, <1>4, <2>1, ThreadTyped
<1>6. \A d \in EpisodeIds : thread'[d] = IF d = e THEN x ELSE thread[d]
  BY <1>2 DEF EpisodeTyped
<1>7. ASSUME e \notin tainted' PROVE Untainted(e)'
  <2>1. tail \in {<<>>, LastRows(w.batch)} /\ Untainted(e)
    BY <1>1, <1>7 DEF EpisodeInv
  <2>2. /\ Rising(w.batch, FirstRow(w.file)) /\ Top(e) = FirstRow(w.file)
        /\ \A i \in DOMAIN queue[e] : Rising(queue[e][i].rows, FirstRow(w.file)) /\ UpTo(queue[e][i].rows, w.batch)
        /\ \A i, j \in DOMAIN queue[e] : i < j => Later(queue[e][i].rows, queue[e][j].rows, queue[e][j].of)
        /\ env.at \in {"stepping", "switching"} /\ env.serving = e =>
              /\ Rising(env.batch, FirstRow(w.file)) /\ UpTo(env.batch, w.batch)
              /\ \A i \in DOMAIN queue[e] : Later(env.batch, queue[e][i].rows, queue[e][i].of)
    BY <1>2, <2>1 DEF Untainted, Offered, Holds, Serves, Ahead, Top
  <2>3. /\ Rising(new, FirstRow(w.file + 1))
        /\ \A b : Rising(b, FirstRow(w.file)) /\ UpTo(b, w.batch) => Later(b, new, w.file)
    <3> DEFINE f == w.file  old == w.batch
    <3>1. f \in Partitions /\ Rising(old, FirstRow(f)) /\ tail \in {<<>>, LastRows(old)}
      BY <1>2, <2>1, <2>2
    <3> HIDE DEF f, old
    <3>2. /\ Rising(tail \o RowsOf(f), FirstRow(f + 1))
          /\ \A b : Rising(b, FirstRow(f)) /\ UpTo(b, old) => Later(b, tail \o RowsOf(f), f)
      BY <3>1, LoadedRises
    <3> QED BY <3>2 DEF f, old, new
  <2>4. /\ Top(e)' = FirstRow(w.file) /\ Ahead(e)' = FirstRow(w.file + 1) /\ Of(e)' = w.file
        /\ thread'[e].batch = new
    BY <1>4, <1>6 DEF Top, Ahead, Of
  <2>5. \A b \in Seq(Nat) : Rising(b, FirstRow(w.file)) /\ UpTo(b, w.batch) => Later(b, new, w.file) /\ UpTo(b, new)
    BY <1>3, <2>3, LaterIsUpTo
  <2> HIDE DEF w
  <2>6. Offered(e)'
    BY <1>2, <2>2, <2>4 DEF Offered
  <2>7. Holds(e)'
    <3>1. \A i \in DOMAIN queue[e] : queue[e][i].rows \in Seq(Nat)
      BY <2>2 DEF Rising
    <3> QED BY <1>2, <2>2, <2>3, <2>4, <2>5, <3>1 DEF Holds
  <2>8. Serves(e)'
    <3>1. env.at \in {"stepping", "switching"} /\ env.serving = e => env.batch \in Seq(Nat)
      BY <2>2 DEF Rising
    <3> QED BY <1>2, <2>2, <2>4, <2>5, <3>1 DEF Serves
  <2> QED BY <2>6, <2>7, <2>8 DEF Untainted
<1>8. tainted \subseteq tainted'
  BY <1>1
<1> QED BY <1>2, <1>5, <1>6, <1>7, <1>8, OneThread

\* A file passed over is behind the thread.
LEMMA FailStep == ASSUME EpisodeInv, NEW e \in EpisodeIds, LoadFails(e) PROVE EpisodeInv'
<1> DEFINE w == thread[e]  x == [w EXCEPT !.file = @ + 1]
<1>1. /\ EpisodeTyped /\ w \in ThreadRecord /\ w.file \in Partitions /\ w.at = "next"
      /\ thread' = [thread EXCEPT ![e] = x] /\ UNCHANGED <<fifo, env, queue, envs, seen, tainted>>
  BY DEF EpisodeInv, EpisodeTyped, LoadFails
<1>2. x \in ThreadRecord /\ x.at = "next" /\ x.file = w.file + 1 /\ x.batch = w.batch
  <2>1. w.file + 1 \in 1 .. Len(FileRows) + 1
    BY <1>1, EpisodeAssumption DEF Partitions
  <2> QED BY <1>1, <2>1 DEF ThreadRecord
<1> HIDE DEF x
<1>3. EpisodeTyped'
  <2>1. queue' \in [EpisodeIds -> Seq(Batches)] /\ fifo' \in [EpisodeIds -> Seq(Nat)]
    BY <1>1 DEF EpisodeTyped
  <2> HIDE DEF w
  <2> QED BY <1>1, <1>2, <2>1, ThreadTyped
<1>4. \A d \in EpisodeIds : thread'[d] = IF d = e THEN x ELSE thread[d]
  BY <1>1 DEF EpisodeTyped
<1>5. ASSUME e \notin tainted' PROVE Untainted(e)'
  <2>1. Untainted(e)
    BY <1>1, <1>5 DEF EpisodeInv
  <2>2. /\ Top(e)' = FirstRow(w.file + 1) /\ Ahead(e)' = Top(e)' /\ Top(e) = FirstRow(w.file) /\ Ahead(e) = Top(e)
        /\ thread'[e].at = "next" /\ thread'[e].batch = w.batch
    BY <1>1, <1>2, <1>4 DEF Top, Ahead
  <2>3. \A b : Rising(b, Top(e)) => Rising(b, Top(e)')
    <3> DEFINE f == w.file
    <3>1. f \in Partitions
      BY <1>1
    <3> HIDE DEF f
    <3>2. \A b : Rising(b, FirstRow(f)) => Rising(b, FirstRow(f + 1))
      BY <3>1, NextFile
    <3> QED BY <2>2, <3>2 DEF f
  <2>4. Offered(e)'
    BY <1>1, <2>1, <2>3 DEF Untainted, Offered
  <2>5. Holds(e)' /\ Serves(e)'
    BY <1>1, <2>1, <2>2, <2>3 DEF Untainted, Holds, Serves
  <2> QED BY <2>4, <2>5 DEF Untainted
<1> QED BY <1>1, <1>3, <1>4, <1>5, OneThread

\* The tail of what it loaded takes the place of the name's, or does not.
LEMMA SaveStep == ASSUME EpisodeInv, NEW e \in EpisodeIds, SaveTail(e) PROVE EpisodeInv'
<1> DEFINE w == thread[e]  x == [w EXCEPT !.at = "offering", !.file = w.file + 1]
<1>1. /\ EpisodeTyped /\ w \in ThreadRecord /\ w.file \in Partitions /\ w.at = "saving" /\ w.batch \in Seq(Nat)
      /\ thread' = [thread EXCEPT ![e] = x]
      /\ UNCHANGED <<env, queue, envs, seen, tainted>>
  BY DEF EpisodeInv, EpisodeTyped, ThreadRecord, SaveTail
<1>2. x \in ThreadRecord /\ x.at = "offering" /\ x.file = w.file + 1 /\ x.batch = w.batch
  <2>1. w.file + 1 \in 1 .. Len(FileRows) + 1
    BY <1>1, EpisodeAssumption DEF Partitions
  <2> QED BY <1>1, <2>1 DEF ThreadRecord
<1>3. fifo' \in [EpisodeIds -> Seq(Nat)]
  <2>1. PICK stored \in BOOLEAN : fifo' = IF stored THEN [fifo EXCEPT ![w.name] = LastRows(w.batch)] ELSE fifo
    BY DEF SaveTail
  <2>2. LastRows(w.batch) \in Seq(Nat) /\ fifo \in [EpisodeIds -> Seq(Nat)]
    BY <1>1, LastAreRows DEF EpisodeTyped
  <2> QED BY <2>1, <2>2
<1> HIDE DEF x
<1>4. EpisodeTyped'
  <2>1. queue' \in [EpisodeIds -> Seq(Batches)]
    BY <1>1 DEF EpisodeTyped
  <2> HIDE DEF w
  <2> QED BY <1>1, <1>2, <1>3, <2>1, ThreadTyped
<1>5. \A d \in EpisodeIds : thread'[d] = IF d = e THEN x ELSE thread[d]
  BY <1>1 DEF EpisodeTyped
<1>6. ASSUME e \notin tainted' PROVE Untainted(e)'
  <2>1. Untainted(e)
    BY <1>1, <1>6 DEF EpisodeInv
  <2>2. /\ Top(e)' = FirstRow(w.file + 1) /\ Ahead(e)' = Top(e)' /\ Top(e) = FirstRow(w.file) /\ Ahead(e) = Top(e)'
        /\ Of(e)' = w.file /\ Of(e) = w.file
        /\ thread'[e].at = "offering" /\ thread'[e].batch = w.batch
    <3>1. w.file \in Int
      BY <1>1, EpisodeAssumption DEF Partitions
    <3>2. /\ thread'[e].at = "offering" /\ thread'[e].at # "saving" /\ thread'[e].batch = w.batch /\ thread'[e].file = w.file + 1
          /\ thread[e].at = "saving" /\ thread[e].file = w.file
      BY <1>1, <1>2, <1>5
    <3>3. Of(e)' = w.file /\ Of(e) = w.file
      <4>1. Of(e)' = thread'[e].file - 1
        BY <3>2, Zenon DEF Of
      <4>2. Of(e) = w.file
        BY <3>2, Zenon DEF Of
      <4> HIDE DEF w
      <4> QED BY <3>1, <3>2, <4>1, <4>2
    <3>4. /\ Top(e)' = FirstRow(w.file + 1) /\ Ahead(e)' = Top(e)'
          /\ Top(e) = FirstRow(w.file) /\ Ahead(e) = FirstRow(w.file + 1)
      BY <3>2, Zenon DEF Top, Ahead
    <3> QED BY <3>2, <3>3, <3>4
  <2>3. \A b : Rising(b, Top(e)) => Rising(b, Top(e)')
    <3> DEFINE f == w.file
    <3>1. f \in Partitions
      BY <1>1
    <3> HIDE DEF f
    <3>2. \A b : Rising(b, FirstRow(f)) => Rising(b, FirstRow(f + 1))
      BY <3>1, NextFile
    <3> QED BY <2>2, <3>2 DEF f
  <2>4. Offered(e)'
    BY <1>1, <2>1, <2>3 DEF Untainted, Offered
  <2>5. Holds(e)' /\ Serves(e)'
    BY <1>1, <2>1, <2>2, <2>3 DEF Untainted, Holds, Serves
  <2> QED BY <2>4, <2>5 DEF Untainted
<1> QED BY <1>1, <1>4, <1>5, <1>6, OneThread

\* A batch that is offered may be traded after those that wait.
LEMMA OfferStep == ASSUME EpisodeInv, NEW e \in EpisodeIds, Offer(e) PROVE EpisodeInv'
<1> DEFINE w == thread[e]  x == [w EXCEPT !.at = "next"]  b == [rows |-> w.batch, of |-> w.file - 1]
           q == queue[e]
<1>1. /\ EpisodeTyped /\ w \in ThreadRecord /\ w.at = "offering" /\ q \in Seq(Batches)
      /\ thread' = [thread EXCEPT ![e] = x] /\ queue' = [queue EXCEPT ![e] = Append(q, b)]
      /\ UNCHANGED <<fifo, env, envs, seen, tainted>>
  BY DEF EpisodeInv, EpisodeTyped, Offer
<1>2. /\ x \in ThreadRecord /\ x.at = "next" /\ x.file = w.file /\ x.batch = w.batch
      /\ b \in Batches /\ b.rows = w.batch /\ b.of = w.file - 1
  <2>1. w.file - 1 \in Int
    BY <1>1, EpisodeAssumption DEF ThreadRecord
  <2> QED BY <1>1, <2>1 DEF ThreadRecord, Batches
<1> HIDE DEF x, b
<1>3. \A d \in EpisodeIds : /\ thread'[d] = IF d = e THEN x ELSE thread[d]
                            /\ queue'[d] = IF d = e THEN Append(q, b) ELSE queue[d]
  BY <1>1 DEF EpisodeTyped
<1>4. EpisodeTyped'
  <2>1. Append(q, b) \in Seq(Batches)
    BY <1>1, <1>2
  <2>2. queue' \in [EpisodeIds -> Seq(Batches)] /\ fifo' \in [EpisodeIds -> Seq(Nat)]
    BY <1>1, <2>1 DEF EpisodeTyped
  <2> HIDE DEF w
  <2> QED BY <1>1, <1>2, <2>2, ThreadTyped
<1>5. ASSUME e \notin tainted' PROVE Untainted(e)'
  <2>1. Untainted(e)
    BY <1>1, <1>5 DEF EpisodeInv
  <2>2. /\ Top(e)' = Top(e) /\ Ahead(e)' = Top(e) /\ Ahead(e) = Top(e) /\ Of(e) = b.of
        /\ thread'[e].at = "next" /\ thread'[e].batch = b.rows /\ w.batch = b.rows
    BY <1>1, <1>2, <1>3 DEF Top, Ahead, Of
  <2>3. /\ Rising(b.rows, Top(e)) /\ UpTo(b.rows, b.rows)
        /\ \A i \in DOMAIN q : Later(q[i].rows, b.rows, b.of) /\ UpTo(q[i].rows, b.rows) /\ Rising(q[i].rows, Top(e))
        /\ \A i, j \in DOMAIN q : i < j => Later(q[i].rows, q[j].rows, q[j].of)
    BY <1>1, <2>1, <2>2, RisesToItself DEF Untainted, Offered, Holds
  <2>4. env.at \in {"stepping", "switching"} /\ env.serving = e =>
          /\ Rising(env.batch, Top(e)) /\ UpTo(env.batch, b.rows) /\ Later(env.batch, b.rows, b.of)
          /\ \A i \in DOMAIN q : Later(env.batch, q[i].rows, q[i].of)
    BY <1>1, <2>1, <2>2 DEF Untainted, Serves
  <2> HIDE DEF q, w
  <2> DEFINE p == Append(q, b)
  <2>5. /\ \A i \in DOMAIN p : (i \in DOMAIN q /\ p[i] = q[i]) \/ (i = Len(q) + 1 /\ p[i] = b)
        /\ \A i \in DOMAIN q : i < Len(q) + 1 /\ ~(Len(q) + 1 < i)
        /\ ~(Len(q) + 1 < Len(q) + 1) /\ queue'[e] = p
    <3>1. queue'[e] = p
      BY <1>3
    <3> QED BY <1>1, <1>2, <3>1
  <2> HIDE DEF p
  <2>6. Offered(e)'
    <3>1. \A i \in DOMAIN p : Rising(p[i].rows, Top(e))
      BY <2>3, <2>5
    <3>2. \A i, j \in DOMAIN p : i < j => Later(p[i].rows, p[j].rows, p[j].of)
      BY <2>3, <2>5
    <3> QED BY <2>2, <2>5, <3>1, <3>2 DEF Offered
  <2>7. Holds(e)'
    BY <2>2, <2>3, <2>5 DEF Holds
  <2>8. Serves(e)'
    BY <1>1, <2>2, <2>4, <2>5 DEF Serves
  <2> QED BY <2>6, <2>7, <2>8 DEF Untainted
<1> QED BY <1>1, <1>3, <1>4, <1>5, OneThread

LEMMA EndStep == ASSUME EpisodeInv, NEW e \in EpisodeIds, Ends(e) PROVE EpisodeInv'
<1> DEFINE w == thread[e]  x == [w EXCEPT !.at = "ended"]
<1>1. /\ EpisodeTyped /\ w \in ThreadRecord /\ w.at \in {"next", "offering"}
      /\ thread' = [thread EXCEPT ![e] = x] /\ UNCHANGED <<fifo, env, queue, envs, seen, tainted>>
  BY DEF EpisodeInv, EpisodeTyped, Ends
<1>2. x \in ThreadRecord /\ x.at = "ended" /\ x.file = w.file /\ x.batch = w.batch
  BY <1>1 DEF ThreadRecord
<1> HIDE DEF x
<1>3. EpisodeTyped'
  <2>1. queue' \in [EpisodeIds -> Seq(Batches)] /\ fifo' \in [EpisodeIds -> Seq(Nat)]
    BY <1>1 DEF EpisodeTyped
  <2> HIDE DEF w
  <2> QED BY <1>1, <1>2, <2>1, ThreadTyped
<1>4. \A d \in EpisodeIds : thread'[d] = IF d = e THEN x ELSE thread[d]
  BY <1>1 DEF EpisodeTyped
<1>5. e \notin tainted' => Untainted(e)'
  BY <1>1, <1>2, <1>4 DEF EpisodeInv, Untainted, Offered, Holds, Serves, Top, Ahead
<1> QED BY <1>1, <1>3, <1>4, <1>5, OneThread

LEMMA EpisodeNextKeeps == EpisodeInv /\ [EpisodeNext]_episodeVars => EpisodeInv'
<1> SUFFICES ASSUME EpisodeInv, [EpisodeNext]_episodeVars PROVE EpisodeInv'
  OBVIOUS
<1>1. CASE UNCHANGED episodeVars
  <2>1. EpisodeTyped' /\ (env'.serving \notin tainted' => Traded')
    BY <1>1 DEF EpisodeInv, EpisodeTyped, Traded, Index, episodeVars
  <2>2. \A e \in EpisodeIds \ tainted' : Untainted(e)'
    BY <1>1 DEF EpisodeInv, Untainted, Offered, Holds, Serves, Top, Ahead, Of, episodeVars
  <2> QED BY <2>1, <2>2 DEF EpisodeInv
<1>2. CASE ResetNames \/ CloseQueue
  BY <1>2, NamesStep
<1>3. CASE StartQueue
  BY <1>3, StartStep
<1>4. CASE FirstBatch
  <2>1. 0 \in Nat /\ env.at \in {"first", "switching"} /\ env.at # "switching"
    BY <1>4 DEF FirstBatch
  <2>2. Got(0) \/ GotNone
    BY <1>4 DEF FirstBatch
  <2>3. UNCHANGED <<fifo, thread, stopped, envs, seen, tainted>>
    BY <1>4 DEF FirstBatch
  <2> QED BY <2>1, <2>2, <2>3, GotStep
<1>5. CASE EnvStep
  BY <1>5, TradeStep
<1>6. CASE Switch
  <2>1. ResumeAt \in Nat
    BY EpisodeAssumption DEF ResumeAt, LargerOf
  <2>2. Got(ResumeAt) \/ GotNone
    BY <1>6 DEF Switch
  <2>3. env.at = "switching" /\ UNCHANGED <<fifo, thread, stopped, envs, seen, tainted>>
    BY <1>6 DEF Switch
  <2> QED BY <2>1, <2>2, <2>3, GotStep
<1>7. CASE MakeEnv
  BY <1>7, MakeStep
<1>8. CASE \E e \in EpisodeIds : Prefetch(e)
  BY <1>8, LoadStep, FailStep, SaveStep, OfferStep, EndStep DEF Prefetch
<1> QED BY <1>1, <1>2, <1>3, <1>4, <1>5, <1>6, <1>7, <1>8 DEF EpisodeNext, ResetOrStep

\* The rows an episode trades on move forward in time, whatever the files'
\* lengths, the tail that is kept, and the loads and tails that fail: each batch
\* is read from the first row that is later than all that were traded on before
\* it, or of a file without rows from the last of those; until its thread is
\* given a tail other than that of its last batch.
THEOREM TimeIsKept == EpisodeSpec => []TimeMovesForward
<1>1. EpisodeInv => TimeMovesForward
  BY DEF EpisodeInv, Traded, Before, TimeMovesForward
<1> QED BY <1>1, EpisodeStart, EpisodeNextKeeps, PTL DEF EpisodeSpec
=============================================================================
