--------------------------- MODULE TrainingTable ---------------------------
(***************************************************************************)
(* From the daily files of the data forge to a gated predictor:            *)
(* TrainingTableBuilder.load_legs()/build() of                             *)
(* data_forge/training_table_builder.py, TimeAligner of                    *)
(* data_forge/time_alignment.py, the walk-forward folds, gate and leg of   *)
(* training/supervised_predictor.py with scripts/train_supervised_predictor*)
(* and the SignalPredictor of data_forge/predictor.py.                     *)
(*                                                                         *)
(* Time is counted in the finest unit any producer stamps its rows with; a *)
(* shared grid may be coarser.  A value is abstracted to the time it was   *)
(* observed at, which is what the properties ask about; what a model       *)
(* learns is abstracted to the last point it saw.                          *)
(***************************************************************************)
EXTENDS Integers, FiniteSets, FiniteSetsExt, Functions

CONSTANTS
    Legs,         \* crypto, fx, sentiment
    Days,         \* number of daily files of a leg
    DayLength,    \* buckets in a day
    Frequencies,  \* frequencies of the shared grid, in buckets
    MaxStaleness, \* max_staleness_buckets
    Lookback, Horizon, Splits,
    Embargoes,    \* embargoes a configuration may ask for, None for the default
    None,
    RowsPerFold,  \* usable rows a fold needs: 10
    MaxUnreadableFiles  \* bound: daily files that cannot be read, in one build

ASSUME TableAssumption ==
    /\ Days \in Nat \ {0} /\ DayLength \in Nat \ {0} /\ Frequencies \subseteq Nat \ {0}
    /\ MaxStaleness \in Nat /\ Lookback \in Nat \ {0} /\ Horizon \in Nat \ {0}
    /\ Splits \in Nat \ {0} /\ RowsPerFold \in Nat \ {0} /\ MaxUnreadableFiles \in Nat
    /\ Embargoes \subseteq Nat \union {None} /\ None \notin Nat

Times == 1 .. Days * DayLength
DayOf(t) == (t - 1) \div DayLength + 1
Never == 0

VARIABLES
    daily,      \* leg -> times that have a row in a daily file
    loaded,     \* leg -> times that were read, of the legs that are not empty
    grid,       \* [start, step, length] of the shared grid; length 0 before a build
    table,      \* leg -> point of the grid -> [from, stale]
    training,   \* what became of train_and_write_leg()
    signal      \* SignalPredictor.model: the last point it learnt from, or Never

tableVars == <<daily, loaded, grid, table, training, signal>>

NoGrid == [start |-> 0, step |-> 1, length |-> 0]

TableInit ==
    /\ daily \in [Legs -> SUBSET Times] /\ loaded = <<>> /\ grid = NoGrid /\ table = <<>>
    /\ training = "idle" /\ signal = Never

-----------------------------------------------------------------------------
\* _load_leg(): the files that exist and can be read.  A leg with none is
\* schemaless, and _align_one() drops it.
LegRead(l, unreadable) == {t \in daily[l] : <<l, DayOf(t)>> \notin unreadable}
Read(unreadable) == [l \in {k \in Legs : LegRead(k, unreadable) # {}} |-> LegRead(l, unreadable)]

\* _build_grid(): from the first timestamp of any leg to the last.
GridOver(read, step) ==
    LET all == UNION {read[l] : l \in DOMAIN read} IN
    [start |-> Min(all), step |-> step, length |-> (Max(all) - Min(all)) \div step + 1]

TimeAt(g, i) == g.start + (i - 1) * g.step

-----------------------------------------------------------------------------
\* _align_one(): a row joins where its timestamp is exactly the grid's.
Had(g, times, i) == TimeAt(g, i) \in times

\* The group of a point: how many real values there were up to it.
Group(g, times, i) == Cardinality({j \in 1 .. i : Had(g, times, j)})

\* Variation: the distance is counted over every earlier point without a value.
DistanceOverall(g, times, i) ==
    IF Had(g, times, i) THEN 0 ELSE Cardinality({j \in 1 .. i - 1 : ~Had(g, times, j)}) + 1

\* Its place within its group, 0 where there is a real value.
Distance(g, times, i) ==
    IF Had(g, times, i) THEN 0
    ELSE Cardinality({j \in 1 .. i - 1 : Group(g, times, j) = Group(g, times, i)})

\* forward_fill(): the last real value.
Filled(g, times, i) ==
    LET seen == {j \in 1 .. i : Had(g, times, j)} IN
    IF seen = {} THEN Never ELSE Max(seen)

AlignOne(g, times) ==
    [i \in 1 .. g.length |-> [from |-> Filled(g, times, i), stale |-> Distance(g, times, i) > MaxStaleness]]

\* align(): every leg that is not empty, on the one grid.
Align(g, legs) == [l \in DOMAIN legs |-> AlignOne(g, legs[l])]

\* build(): load, align, write; nothing when every leg is empty.
Build(step, unreadable) ==
    /\ grid = NoGrid /\ DOMAIN Read(unreadable) # {}
    /\ loaded' = Read(unreadable)
    /\ grid' = GridOver(loaded', step)
    /\ table' = Align(grid', loaded')
    /\ UNCHANGED <<daily, training, signal>>

-----------------------------------------------------------------------------
\* build_features_and_labels(): row r is built at an origin, from the window
\* that ends there and the returns strictly after it.
RowCount   == Max({0, grid.length - Lookback - Horizon + 1})
Origin(r)  == r + Lookback - 1
Inputs(r)  == Origin(r) - Lookback + 1 .. Origin(r)
Label(r)   == Origin(r) + 1 .. Origin(r) + Horizon
Touched(r) == Inputs(r) \union Label(r)

\* Variation: no gap between train and test, as in a plain time-series split.
NoEmbargo(e) == IF e = None THEN 0 ELSE e

\* resolved_embargo(): the one asked for, or the default.
ResolvedEmbargo(e) == IF e = None THEN Lookback + Horizon ELSE e

FoldSize == RowCount \div (Splits + 1)

\* PurgedTimeSeriesSplit.split(): rows are numbered from 1.
TrainRows(i)   == 1 .. i * FoldSize
TestRows(e, i) ==
    LET start == i * FoldSize + ResolvedEmbargo(e) IN start + 1 .. Min({start + FoldSize, RowCount})
UsableFolds(e) == {i \in 1 .. Splits : FoldSize > 0 /\ TestRows(e, i) # {}}

EnoughRows == RowCount >= (Splits + 1) * RowsPerFold

\* evaluate_promotion(): with two folds or more, the edges decide.
MayPass(e) == EnoughRows /\ Cardinality(UsableFolds(e)) >= 2

\* The last point that a model fitted on all rows has learnt from.
LearntThrough == Origin(RowCount) + Horizon

\* train_and_write_leg(), with the default embargo: what passes the gate is
\* announced as promoted and fitted on all rows.  The first daily file of its
\* predictions is not written and the model is not saved: write_predictions_leg()
\* imports a SupervisedPredictionSchema that data_forge/schema.py does not define.
TrainAndWriteLeg ==
    /\ grid # NoGrid /\ training = "idle"
    /\ \/ training' = "rejected"
       \/ MayPass(None) /\ training' = "raised"
    /\ UNCHANGED <<daily, loaded, grid, table, signal>>

\* fit_and_gate(): it writes no leg, and a refusal keeps the former model.
FitAndGate ==
    /\ grid # NoGrid /\ signal = Never
    /\ \E e \in Embargoes : MayPass(e)
    /\ signal' = LearntThrough
    /\ UNCHANGED <<daily, loaded, grid, table, training>>

TableNext ==
    \/ \E step \in Frequencies, unreadable \in SUBSET (Legs \X (1 .. Days)) :
          Cardinality(unreadable) <= MaxUnreadableFiles /\ Build(step, unreadable)
    \/ TrainAndWriteLeg
    \/ FitAndGate

TableSpec == TableInit /\ [][TableNext]_tableVars

-----------------------------------------------------------------------------
\* The last point of the grid up to i at which the leg has a value; a leg that
\* was never seen counts as if it had been seen at the first point.
LastOnGrid(l, i) == Max({1} \union {j \in 1 .. i : TimeAt(grid, j) \in loaded[l]})

\* A flag says exactly whether max_staleness_buckets have passed since the last
\* value on the grid, through gaps, days that could not be read and legs that
\* start late.  It does not speak of values between two points of the grid.
StaleMeansOld ==
    \A l \in DOMAIN table : \A i \in 1 .. grid.length :
        table[l][i].stale <=> i - LastOnGrid(l, i) > MaxStaleness

\* The embargoes under which no window or label can reach over the gap.
LongEnough == {e \in Embargoes : e = None \/ e >= Lookback + Horizon - 1}

\* No test row's window or label touches a train row's, in any fold, under the
\* default embargo and under a configured one of at least that many rows less one.
FoldsDoNotTouch ==
    \A e \in LongEnough : \A i \in UsableFolds(e) : \A r \in TrainRows(i), q \in TestRows(e, i) :
        Touched(r) \intersect Touched(q) = {}
=============================================================================
