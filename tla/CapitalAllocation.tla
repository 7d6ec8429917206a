------------------------- MODULE CapitalAllocation -------------------------
(***************************************************************************)
(* Which instrument gets Primary capital and which Secondary, cycle after  *)
(* cycle: PortfolioOrchestrator.run_cycle() of                             *)
(* execution/portfolio_orchestrator.py reads the LiveInstrumentSources,    *)
(* PortfolioAllocator.allocate() of execution/portfolio_allocator.py       *)
(* scores, ranks and keeps incumbents; the file the result is written to   *)
(* is left out.                                                            *)
(*                                                                         *)
(* Instruments are numbered in the order of their signals, which breaks    *)
(* ties.  An opportunity score is a small integer: the Kelly arithmetic is *)
(* abstracted to its value, the correlation to a pair being correlated or  *)
(* not, capital to whole parts of the tradeable pool.                      *)
(***************************************************************************)
EXTENDS Integers, FiniteSetsExt

CONSTANTS
    Instruments,     \* number of instruments
    Scores,          \* opportunity scores a gated instrument can have
    FullScore,       \* the score from which the Kelly fraction is bet in full
    MinObservations, \* returns before there is a volatility: 10 in the code
    MinDwell,        \* min_dwell_cycles: 5
    Pool,            \* parts of the tradeable pool, 1 - reserve_fraction
    Kelly,           \* parts bet on a full score
    MaxUnreadable,   \* bound: sources whose price cannot be read, in one cycle
    NoInstrument

ASSUME AllocationAssumption ==
    /\ Instruments \in Nat \ {0} /\ Scores \subseteq Nat /\ 0 \in Scores
    /\ FullScore \in Nat \ {0} /\ MinObservations \in Nat /\ MinDwell \in Nat \ {0}
    /\ MaxUnreadable \in Nat /\ Pool \in Nat /\ Kelly \in Nat /\ NoInstrument \notin 1 .. Instruments

VARIABLES
    returns,   \* VolatilityCorrelationTracker: log returns seen, up to MinObservations
    priced,    \* instruments that have a last price
    holder,    \* _role_incumbent: role -> instrument
    dwell,     \* _cycles_in_role: instrument -> cycles
    score,     \* the last cycle's scores, NoScore for an ungated instrument
    capital,   \* the last cycle's target_capital_fraction
    tenure     \* history: role -> cycles its holder has had it

allocationVars == <<returns, priced, holder, dwell, score, capital, tenure>>

Universe == 1 .. Instruments
Roles    == {"primary", "secondary"}
NoScore  == -1

AllocationInit ==
    /\ returns = [i \in Universe |-> 0] /\ priced = {}
    /\ holder = [r \in Roles |-> NoInstrument] /\ dwell = [i \in Universe |-> 0]
    /\ score = [i \in Universe |-> NoScore] /\ capital = [i \in Universe |-> 0]
    /\ tenure = [r \in Roles |-> 0]

-----------------------------------------------------------------------------
\* update(): the first price makes no return, a price that cannot be read none.
Returns(readable) == [i \in Universe |-> IF i \in readable \intersect priced
                                         THEN Min({returns[i] + 1, MinObservations}) ELSE returns[i]]

\* _opportunity_score(): no opinion without a gate or a volatility.
Score(readable, seen, i) == IF Returns(readable)[i] < MinObservations THEN NoScore ELSE seen[i]

\* The first of the best, as a stable sort by descending score puts it.
Best(by, from) == Min({i \in from : \A j \in from : by[j] <= by[i]})

\* A challenger needs a fifth more than the incumbent's score of this cycle.
Beats(challenger, incumbent) == 5 * challenger >= 6 * incumbent

\* _select_with_hysteresis(): the incumbent stays while it has a score and its
\* dwell is short or no challenger beats it.
Select(role, by, from) ==
    LET top == Best(by, from)
        inc == holder[role]
    IN IF from = {} THEN NoInstrument
       ELSE IF inc \notin from THEN top
       ELSE IF dwell[inc] < MinDwell \/ ~Beats(by[top], by[inc]) THEN inc
       ELSE top

\* Twice the score, so that the penalty of a correlated pair halves it exactly.
Adjusted(by, correlated) == [i \in Universe |-> IF i \in correlated THEN by[i] ELSE 2 * by[i]]

\* Variation: the dwell is carried over into a new role.
NewDwellCarried(to) == [i \in Universe |-> IF \E r \in Roles : to[r] = i THEN Min({dwell[i] + 1, MinDwell}) ELSE 0]

\* Cycles in the current role, from 1 again when the role changed.
NewDwell(to) == [i \in Universe |->
                    IF \E r \in Roles : to[r] = i
                    THEN IF \E r \in Roles : to[r] = i /\ holder[r] = i THEN Min({dwell[i] + 1, MinDwell}) ELSE 1
                    ELSE 0]

NewHeld(to) == [r \in Roles |-> IF to[r] = NoInstrument THEN 0
                                ELSE IF to[r] = holder[r] THEN Min({tenure[r] + 1, MinDwell}) ELSE 1]

\* Variation: the cap does not leave room for Secondary.
PrimaryCapWhole(secondary) == Pool

\* Primary and Secondary, two fifths of it, together fit the pool.
PrimaryCap(secondary) == IF secondary = NoInstrument THEN Pool ELSE (5 * Pool) \div 7

Capital(to, by) ==
    LET p == Min({PrimaryCap(to["secondary"]), (Kelly * Min({FullScore, by[to["primary"]]})) \div FullScore})
    IN [i \in Universe |-> IF i = to["primary"] THEN p ELSE IF i = to["secondary"] THEN (2 * p) \div 5 ELSE 0]

\* Nothing clears the floor: every role and every dwell is forgotten.
Dropped == [r \in Roles |-> NoInstrument]

\* allocate(): Primary first, then Secondary among the rest, penalised for its
\* correlation with Primary.
Assigned(by, ranked, correlated) ==
    LET p == Select("primary", by, ranked) IN
    [r \in Roles |-> IF r = "primary" THEN p
                     ELSE Select("secondary", Adjusted(by, correlated), ranked \ {p})]

\* run_cycle(): what each source shows now (a source whose price cannot be read
\* shows what it showed last, or anything else it may), and which of the ranked
\* instruments are correlated with Primary.
RunCycle ==
    \E unreadable \in {u \in SUBSET Universe : Cardinality(u) <= MaxUnreadable},
       seen \in [Universe -> Scores \union {NoScore}] :
       LET readable == Universe \ unreadable
           scores == [i \in Universe |-> Score(readable, seen, i)]
           ranked == {i \in Universe : scores[i] # NoScore}
           live   == \E i \in ranked : scores[i] > 0
       IN /\ returns' = Returns(readable) /\ priced' = priced \union readable
          /\ score' = scores
          /\ \E correlated \in SUBSET (ranked \ {Select("primary", scores, ranked)}) :
                holder' = IF live THEN Assigned(scores, ranked, correlated) ELSE Dropped
          /\ dwell' = NewDwell(holder') /\ tenure' = NewHeld(holder')
          /\ capital' = IF live THEN Capital(holder', scores) ELSE [i \in Universe |-> 0]

AllocationNext == RunCycle

AllocationSpec == AllocationInit /\ [][AllocationNext]_allocationVars

-----------------------------------------------------------------------------
\* The parts of the tradeable pool that instruments have been given, each with
\* its instrument.
Given == UNION {{i} \X (1 .. capital[i]) : i \in Universe}

\* The capital of all instruments together never leaves the tradeable pool,
\* whatever the scores and the role changes.
CapitalWithinPool == Cardinality(Given) <= Pool

\* A holder that still has a score, and is not itself moved to the other role,
\* keeps its role for MinDwell cycles, whatever is offered instead.
RolesAreHeld ==
    [][\A r \in Roles :
          LET i == holder[r]
          IN i # NoInstrument /\ tenure[r] < MinDwell
                /\ score'[i] # NoScore /\ (\E j \in Universe : score'[j] > 0)
                /\ holder'["primary"] # i
             => holder'[r] = i]_allocationVars

=============================================================================
