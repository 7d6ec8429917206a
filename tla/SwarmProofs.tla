----------------------------- MODULE SwarmProofs -----------------------------
(***************************************************************************)
(* Theorems of four modules of the swarm: a rollback's tag is near the peak*)
(* (SovereignChild), an engine charges the taxes it has read (ChildLedger),*)
(* a file is isolated only for strikes (WardenAudit), and the escrow       *)
(* implements WeightsMarket, for any number of children, trades and prices,*)
(* through crashes, database errors, retries by hand and weights that      *)
(* change while they are judged (EscrowBridge).                            *)
(***************************************************************************)
EXTENDS SovereignChild, ChildLedger, WardenAudit, EscrowBridge, FiniteSetTheorems, TLAPS

-----------------------------------------------------------------------------
\* The amounts a child compares, and the peak of its loop against its last tag.
Tagged ==
    /\ account.peak \in Nat /\ marks.lastTagged \in Nat /\ steps \in Nat
    /\ DOMAIN marks = {"hwm", "lastTagged", "version"}
    /\ PeaksAreTagged

LEMMA StepOfTheLoop ==
    ASSUME Tagged, NEW equity \in ChildEquities, NEW cash \in ChildCashes,
           NEW high \in BOOLEAN, NEW ends \in BOOLEAN, LoopStep(equity, cash, high, ends)
    PROVE  Tagged'
<1> DEFINE m == Marked(equity)
<1>1. equity \in Nat /\ TagStep \in Nat \ {0}
  BY ChildAssumption
<1>2. /\ m.lastTagged \in Nat /\ DOMAIN m = {"hwm", "lastTagged", "version"}
      /\ marks.lastTagged <= m.lastTagged /\ equity < m.lastTagged + TagStep
  BY <1>1 DEF Tagged, Marked, Tags
<1>3. /\ marks' = IF rolled' THEN [m EXCEPT !.hwm = m.lastTagged] ELSE m
      /\ account' = Recorded(equity) /\ steps' = steps + 1
  BY DEF LoopStep
<1>4. account'.peak = (IF steps = 0 \/ equity > account.peak THEN equity ELSE account.peak)
  BY <1>3 DEF Recorded
<1> HIDE DEF m
<1>5. marks'.lastTagged = m.lastTagged /\ DOMAIN marks' = {"hwm", "lastTagged", "version"}
  BY <1>2, <1>3
<1>6. steps > 0 => account.peak < marks.lastTagged + TagStep
  BY DEF Tagged, PeaksAreTagged
<1> QED BY <1>1, <1>2, <1>3, <1>4, <1>5, <1>6 DEF Tagged, PeaksAreTagged

LEMMA StepOfTheTrainer ==
    ASSUME Tagged, steps = 0, NEW equity \in ChildEquities, NEW peak \in ChildEquities,
           NEW high \in BOOLEAN, TrainLoop(equity, peak, high)
    PROVE  Tagged'
<1>1. equity \in Nat /\ peak \in Nat /\ steps' = 0
  BY ChildAssumption DEF TrainLoop
<1>2. CASE UNCHANGED <<account, marks>>
  BY <1>1, <1>2 DEF Tagged, PeaksAreTagged
<1>3. CASE marks' = Marked(equity) /\ \E breached : account' = [equity |-> equity, peak |-> peak, breached |-> breached]
  <2>1. account'.peak = peak
    BY <1>3
  <2>2. marks'.lastTagged \in Nat /\ DOMAIN marks' = {"hwm", "lastTagged", "version"}
    BY <1>1, <1>3 DEF Tagged, Marked
  <2> QED BY <1>1, <2>1, <2>2 DEF Tagged, PeaksAreTagged
<1> QED BY <1>2, <1>3 DEF TrainLoop

\* A child has made no step before its loop begins.
Ready == phase = "ready" => steps = 0

\* For every size of a tag step and any equities: what a loop's rollback goes back
\* to is worth less than a tag step below the peak (PeaksAreTagged).
THEOREM PeaksStayTagged == ChildSpec => []PeaksAreTagged
<1>1. ChildInit => Tagged /\ Ready
  BY DEF ChildInit, Tagged, Ready, PeaksAreTagged, StartEquity
<1>2. Tagged /\ Ready /\ [ChildNext]_childVars => Tagged' /\ Ready'
  <2> SUFFICES ASSUME Tagged, Ready, [ChildNext]_childVars PROVE Tagged' /\ Ready'
    OBVIOUS
  <2>1. CASE BeginLoop \/ ThinkRaises \/ UNCHANGED childVars
    BY <2>1 DEF BeginLoop, ThinkRaises, childVars, Tagged, Ready, PeaksAreTagged
  <2>2. ASSUME NEW equity \in ChildEquities, NEW cash \in ChildCashes,
               NEW high \in BOOLEAN, NEW ends \in BOOLEAN, LoopStep(equity, cash, high, ends)
        PROVE  Tagged' /\ Ready'
    <3>1. Ready'
      BY <2>2 DEF LoopStep, Ready
    <3> QED BY <2>2, <3>1, StepOfTheLoop
  <2>3. ASSUME NEW equity \in ChildEquities, NEW peak \in ChildEquities, NEW high \in BOOLEAN,
               TrainLoop(equity, peak, high)
        PROVE  Tagged' /\ Ready'
    <3>1. steps = 0 /\ Ready'
      BY <2>3 DEF TrainLoop, Ready
    <3> QED BY <2>3, <3>1, StepOfTheTrainer
  <2> QED BY <2>1, <2>2, <2>3 DEF ChildNext
<1>3. Tagged => PeaksAreTagged
  BY DEF Tagged
<1> QED BY <1>1, <1>2, <1>3, PTL DEF ChildSpec

-----------------------------------------------------------------------------
Engine  == [ticks : Nat, lastTax : Nat, pending : Nat, queue : SUBSET Nat, charged : Nat, raced : BOOLEAN]
Flusher == [at : {"waiting", "writing", "adding"}, batch : SUBSET Nat, loaded : Nat, sum : Nat]

\* The sums of the assessments only grow.
Assessed ==
    /\ owed \in Seq(Nat)
    /\ \A i, j \in 0 .. Len(owed) : i <= j => OwedUpTo(i) <= OwedUpTo(j)

\* What an engine has read is in what it charged and in what is pending; while
\* the thread adds, it is in what the thread loaded as well, since a step in
\* between moves the pending tax and the thread stores what it loaded.
Balanced(x, f, read) ==
    LET due == read - (IF f.at = "adding" THEN f.sum ELSE 0)
    IN  /\ x.charged + x.pending >= due
        /\ x.raced \/ x.charged + x.pending = due
        /\ f.at = "adding" => /\ x.charged + f.loaded >= due
                              /\ x.raced \/ x.charged + f.loaded = due

Charged(e) == /\ engine[e].lastTax \in 0 .. Len(owed)
              /\ Balanced(engine[e], flusher[e], OwedUpTo(engine[e].lastTax))

LedgerInv ==
    /\ Assessed
    /\ engine \in [Episodes -> Engine] /\ flusher \in [Episodes -> Flusher]
    /\ episode \in Episodes
    /\ \A e \in Episodes : Charged(e)

LEMMA LedgerInvInit == LedgerInit => LedgerInv
<1> SUFFICES ASSUME LedgerInit PROVE LedgerInv
  OBVIOUS
<1>1. NewEngine \in Engine /\ IdleThread \in Flusher
  BY DEF NewEngine, Engine, IdleThread, Flusher
<1>2. owed = <<>> /\ engine = [e \in Episodes |-> NewEngine] /\ flusher = [e \in Episodes |-> IdleThread]
      /\ episode = 1
  BY DEF LedgerInit
<1>3. Assessed
  BY <1>2 DEF Assessed, OwedUpTo
<1>4. 1 \in Episodes
  BY LedgerAssumption DEF Episodes
<1>5. ASSUME NEW e \in Episodes PROVE Charged(e)
  <2>1. engine[e] = NewEngine /\ flusher[e] = IdleThread /\ OwedUpTo(0) = 0
    BY <1>2 DEF OwedUpTo
  <2> QED BY <1>2, <2>1 DEF Charged, Balanced, NewEngine, IdleThread
<1> QED BY <1>1, <1>2, <1>3, <1>4, <1>5 DEF LedgerInv

LEMMA SumsAreNat ==
    ASSUME Assessed, NEW n \in 0 .. Len(owed)
    PROVE  OwedUpTo(n) \in Nat /\ n \in Nat /\ Len(owed) \in 0 .. Len(owed)
<1>1. owed \in Seq(Nat)
  BY DEF Assessed
<1>2. n = 0 \/ n \in 1 .. Len(owed)
  OBVIOUS
<1> QED BY <1>1, <1>2 DEF OwedUpTo

LEMMA SumsStay ==
    ASSUME Assessed, UNCHANGED owed \/ \E y \in Nat : owed' = Append(owed, y), NEW n \in 0 .. Len(owed)
    PROVE  OwedUpTo(n)' = OwedUpTo(n) /\ OwedUpTo(n) \in Nat /\ Len(owed) <= Len(owed')
<1>1. owed \in Seq(Nat)
  BY DEF Assessed
<1>2. n = 0 \/ n \in 1 .. Len(owed)
  OBVIOUS
<1>3. n \in 1 .. Len(owed) => owed'[n] = owed[n] /\ owed[n] \in Nat
  BY <1>1
<1> QED BY <1>1, <1>2, <1>3 DEF OwedUpTo

\* An engine a step leaves alone, with its thread, keeps what it knows.
LEMMA OthersCharged ==
    ASSUME Assessed, UNCHANGED owed \/ \E y \in Nat : owed' = Append(owed, y),
           NEW e \in Episodes, Charged(e), engine'[e] = engine[e], flusher'[e] = flusher[e]
    PROVE  Charged(e)'
<1>1. engine[e].lastTax \in 0 .. Len(owed)
  BY DEF Charged
<1> QED BY <1>1, SumsStay DEF Charged

LEMMA OneEngine ==
    ASSUME LedgerInv, UNCHANGED <<owed, episode>>, NEW e \in Episodes, NEW x \in Engine, NEW f \in Flusher,
           engine' = [engine EXCEPT ![e] = x], flusher' = [flusher EXCEPT ![e] = f],
           x.lastTax \in 0 .. Len(owed), Balanced(x, f, OwedUpTo(x.lastTax))
    PROVE  LedgerInv'
<1>1. Assessed'
  BY DEF LedgerInv, Assessed, OwedUpTo
<1>2. engine' \in [Episodes -> Engine] /\ flusher' \in [Episodes -> Flusher]
  BY DEF LedgerInv
<1>3. ASSUME NEW d \in Episodes PROVE Charged(d)'
  <2>1. CASE d = e
    <3>1. engine'[d] = x /\ flusher'[d] = f
      BY <2>1 DEF LedgerInv
    <3>2. OwedUpTo(x.lastTax)' = OwedUpTo(x.lastTax)
      BY DEF OwedUpTo
    <3> QED BY <3>1, <3>2 DEF Charged
  <2>2. CASE d # e
    <3>1. engine'[d] = engine[d] /\ flusher'[d] = flusher[d]
      BY <2>2 DEF LedgerInv
    <3> QED BY <3>1, OthersCharged DEF LedgerInv
  <2> QED BY <2>1, <2>2
<1> QED BY <1>1, <1>2, <1>3 DEF LedgerInv

LEMMA StepCharges == ASSUME LedgerInv, Step PROVE LedgerInv'
<1> DEFINE e == engine[episode]
           f == flusher[episode]
           b == e.raced \/ (f.at = "adding" /\ e.pending > 0)
           q == e.queue \union {e.ticks + 1}
           x == [e EXCEPT !.ticks = @ + 1, !.pending = 0, !.charged = @ + e.pending, !.raced = b, !.queue = q]
<1>1. /\ episode \in Episodes /\ e \in Engine /\ f \in Flusher /\ Assessed
      /\ e.lastTax \in 0 .. Len(owed) /\ Balanced(e, f, OwedUpTo(e.lastTax))
  BY DEF LedgerInv, Charged
<1>2. OwedUpTo(e.lastTax) \in Nat
  BY <1>1, SumsAreNat
<1>3. engine' = [engine EXCEPT ![episode] = x] /\ flusher' = [flusher EXCEPT ![episode] = f]
      /\ UNCHANGED <<owed, episode>>
  BY DEF Step, LedgerInv
<1>4. b \in BOOLEAN /\ (~b => ~e.raced /\ (f.at = "adding" => ~(e.pending > 0)))
  BY <1>1, Zenon DEF Engine
<1> HIDE DEF e, f
<1>5. q \in SUBSET Nat /\ e.ticks + 1 \in Nat /\ e.charged + e.pending \in Nat /\ e.pending \in Nat /\ e.charged \in Nat
  BY <1>1 DEF Engine
<1> HIDE DEF b, q
<1>6. x \in Engine
  BY <1>1, <1>4, <1>5 DEF Engine
<1>7. x.lastTax = e.lastTax /\ x.pending = 0 /\ x.charged = e.charged + e.pending /\ x.raced = b
  BY <1>1 DEF Engine
<1> HIDE DEF x
<1>8. Balanced(x, f, OwedUpTo(x.lastTax))
  <2>1. f.at = "adding" => f.sum \in Nat /\ f.loaded \in Nat
    BY <1>1 DEF Flusher
  <2> QED BY <1>1, <1>2, <1>4, <1>5, <1>7, <2>1 DEF Balanced
<1> QED BY <1>1, <1>3, <1>6, <1>7, <1>8, OneEngine

LEMMA FlushCharges == ASSUME LedgerInv, NEW e \in Episodes, Flush(e) PROVE LedgerInv'
<1> DEFINE x == engine[e]
           f == flusher[e]
<1>1. /\ x \in Engine /\ f \in Flusher /\ UNCHANGED <<owed, episode>>
      /\ x.lastTax \in 0 .. Len(owed) /\ Balanced(x, f, OwedUpTo(x.lastTax))
      /\ Assessed
  BY DEF LedgerInv, Charged, Flush, TakeBatch, ReadTaxes, AddAndCommit, FlushFails
<1>0. OwedUpTo(x.lastTax) \in Nat /\ Len(owed) \in 0 .. Len(owed) /\ x.lastTax \in Nat
  BY <1>1, SumsAreNat
<1>2. CASE TakeBatch(e)
  <2> DEFINE y == [x EXCEPT !.queue = {}]
             g == [f EXCEPT !.at = "writing", !.batch = x.queue]
  <2>1. engine' = [engine EXCEPT ![e] = y] /\ flusher' = [flusher EXCEPT ![e] = g] /\ f.at = "waiting"
    BY <1>2 DEF TakeBatch, LedgerInv
  <2> HIDE DEF x, f
  <2>2. y \in Engine /\ y.lastTax = x.lastTax /\ y.pending = x.pending /\ y.charged = x.charged
    BY <1>1 DEF Engine
  <2>3. (y.raced <=> x.raced) /\ g \in Flusher /\ g.at = "writing"
    BY <1>1 DEF Engine, Flusher
  <2> HIDE DEF y, g
  <2>4. Balanced(y, g, OwedUpTo(y.lastTax))
    BY <1>0, <1>1, <2>1, <2>2, <2>3 DEF Balanced
  <2> QED BY <1>1, <2>1, <2>2, <2>3, <2>4, OneEngine
<1>3. CASE ReadTaxes(e)
  <2> DEFINE all == OwedUpTo(Len(owed))
             y == [x EXCEPT !.lastTax = Len(owed)]
             g == [f EXCEPT !.at = "adding", !.loaded = x.pending, !.sum = all - OwedUpTo(x.lastTax)]
  <2>1. engine' = [engine EXCEPT ![e] = y] /\ flusher' = [flusher EXCEPT ![e] = g] /\ f.at = "writing"
    BY <1>3 DEF ReadTaxes, LedgerInv
  <2>2. all \in Nat /\ all >= OwedUpTo(x.lastTax) /\ Len(owed) \in Nat
    BY <1>0, <1>1, SumsAreNat DEF Assessed
  <2> HIDE DEF x, f, all
  <2>3. y \in Engine /\ y.lastTax = Len(owed) /\ y.pending = x.pending /\ y.charged = x.charged
    BY <1>1, <2>2 DEF Engine
  <2>4. (y.raced <=> x.raced) /\ x.pending \in Nat /\ all - OwedUpTo(x.lastTax) \in Nat /\ x.charged \in Nat
    BY <1>0, <1>1, <2>2 DEF Engine
  <2>7. g \in Flusher /\ g.at = "adding" /\ g.loaded = x.pending /\ g.sum = all - OwedUpTo(x.lastTax)
    BY <1>1, <2>4 DEF Flusher
  <2>5. OwedUpTo(y.lastTax) = all
    BY <2>3 DEF all
  <2> HIDE DEF y, g
  <2>6. Balanced(y, g, all)
    BY <1>0, <1>1, <2>1, <2>2, <2>3, <2>4, <2>7 DEF Balanced
  <2> QED BY <1>0, <1>1, <2>1, <2>3, <2>4, <2>5, <2>6, <2>7, OneEngine
<1>4. CASE flusher' = [flusher EXCEPT ![e] = IdleThread] /\ UNCHANGED engine /\ (f.at = "adding" => f.sum = 0)
  <2>1. engine' = [engine EXCEPT ![e] = x]
    BY <1>4 DEF LedgerInv
  <2>2. IdleThread \in Flusher /\ IdleThread.at = "waiting"
    BY DEF IdleThread, Flusher
  <2> HIDE DEF x, f
  <2>3. Balanced(x, IdleThread, OwedUpTo(x.lastTax))
    BY <1>0, <1>1, <1>4, <2>2 DEF Balanced
  <2> QED BY <1>1, <1>4, <2>1, <2>2, <2>3, OneEngine
<1>5. CASE /\ flusher' = [flusher EXCEPT ![e] = IdleThread] /\ f.at = "adding"
           /\ engine' = [engine EXCEPT ![e].pending = f.loaded + f.sum]
  <2> DEFINE y == [x EXCEPT !.pending = f.loaded + f.sum]
  <2>1. engine' = [engine EXCEPT ![e] = y]
    BY <1>5 DEF LedgerInv
  <2>2. IdleThread \in Flusher /\ IdleThread.at = "waiting"
    BY DEF IdleThread, Flusher
  <2> HIDE DEF x, f
  <2>3. f.loaded \in Nat /\ f.sum \in Nat /\ x.charged \in Nat
    BY <1>1 DEF Engine, Flusher
  <2>4. y \in Engine /\ y.lastTax = x.lastTax /\ y.pending = f.loaded + f.sum /\ y.charged = x.charged
    BY <1>1, <2>3 DEF Engine
  <2>5. y.raced <=> x.raced
    BY <1>1 DEF Engine
  <2> HIDE DEF y
  <2>6. Balanced(y, IdleThread, OwedUpTo(y.lastTax))
    <3>1. x.charged + f.loaded >= OwedUpTo(x.lastTax) - f.sum
          /\ (x.raced \/ x.charged + f.loaded = OwedUpTo(x.lastTax) - f.sum)
      BY <1>1, <1>5 DEF Balanced
    <3> QED BY <1>0, <2>2, <2>3, <2>4, <2>5, <3>1 DEF Balanced
  <2> QED BY <1>1, <1>5, <2>1, <2>2, <2>4, <2>6, OneEngine
<1>6. AddAndCommit(e) \/ FlushFails(e) => <1>4!1 \/ <1>5!1
  BY DEF AddAndCommit, FlushFails
<1> QED BY <1>2, <1>3, <1>4, <1>5, <1>6 DEF Flush

LEMMA AssessmentCharges ==
    ASSUME LedgerInv, NEW amount \in Amounts, owed' = Append(owed, OwedUpTo(Len(owed)) + amount),
           UNCHANGED <<engine, flusher, episode>>
    PROVE  LedgerInv'
<1>1. owed \in Seq(Nat) /\ Assessed /\ amount \in Nat
  BY LedgerAssumption DEF LedgerInv, Assessed
<1>0. Len(owed) \in Nat /\ Len(owed) \in 0 .. Len(owed)
  BY <1>1
<1> DEFINE y == OwedUpTo(Len(owed)) + amount
<1>2. y \in Nat /\ y >= OwedUpTo(Len(owed))
  BY <1>0, <1>1, SumsAreNat
<1>9. owed' = Append(owed, y)
  OBVIOUS
<1> HIDE DEF y
<1>3. Len(owed') = Len(owed) + 1 /\ owed'[Len(owed) + 1] = y /\ owed' \in Seq(Nat)
  BY <1>1, <1>2, <1>9
<1>4. ASSUME NEW n \in Nat, n = Len(owed) + 1 PROVE OwedUpTo(n)' = y
  BY <1>0, <1>1, <1>3, <1>4 DEF OwedUpTo
<1>5. \A n \in 0 .. Len(owed) : OwedUpTo(n)' = OwedUpTo(n) /\ OwedUpTo(n) \in Nat
  BY <1>1, <1>2, <1>9, SumsStay, SumsAreNat
<1>6. \A i, j \in 0 .. Len(owed') : i <= j => OwedUpTo(i)' <= OwedUpTo(j)'
  <2> SUFFICES ASSUME NEW i \in 0 .. Len(owed'), NEW j \in 0 .. Len(owed'), i <= j
               PROVE  OwedUpTo(i)' <= OwedUpTo(j)'
    OBVIOUS
  <2>1. CASE j \in 0 .. Len(owed)
    BY <1>0, <1>1, <1>5, <2>1 DEF Assessed
  <2>2. CASE j = Len(owed) + 1 /\ i \in 0 .. Len(owed)
    <3>1. OwedUpTo(i) <= OwedUpTo(Len(owed))
      BY <1>0, <1>1, <2>2 DEF Assessed
    <3> QED BY <1>0, <1>2, <1>4, <1>5, <2>2, <3>1
  <2>3. CASE j = Len(owed) + 1 /\ i = Len(owed) + 1
    BY <1>0, <1>2, <1>4, <2>3
  <2> QED BY <1>0, <1>1, <1>3, <2>1, <2>2, <2>3
<1>7. Assessed'
  BY <1>3, <1>6 DEF Assessed
<1>8. \A e \in Episodes : Charged(e)'
  BY <1>1, <1>2, <1>9, OthersCharged DEF LedgerInv
<1> QED BY <1>7, <1>8 DEF LedgerInv

LEMMA LedgerInvNext == LedgerInv /\ [LedgerNext]_ledgerVars => LedgerInv'
<1> SUFFICES ASSUME LedgerInv, [LedgerNext]_ledgerVars PROVE LedgerInv'
  OBVIOUS
<1>1. ASSUME UNCHANGED <<owed, engine, flusher>>, episode' \in Episodes PROVE LedgerInv'
  <2>1. Assessed' /\ \A e \in Episodes : Charged(e)'
    BY <1>1 DEF LedgerInv, Assessed, Charged, OwedUpTo
  <2> QED BY <1>1, <2>1 DEF LedgerInv
<1>2. CASE Reset
  <2>1. episode' \in Episodes
    BY <1>2, LedgerAssumption DEF Reset, LedgerInv, Episodes
  <2> QED BY <1>1, <1>2, <2>1 DEF Reset
<1>3. CASE Close \/ UNCHANGED ledgerVars
  BY <1>1, <1>3 DEF Close, ledgerVars, LedgerInv
<1>4. ASSUME NEW amount \in Amounts, Tax(amount) \/ OomPenalty(amount) PROVE LedgerInv'
  BY <1>4, AssessmentCharges DEF Tax, OomPenalty
<1> QED BY <1>2, <1>3, <1>4, StepCharges, FlushCharges DEF LedgerNext

\* For any assessments, episodes and failing flushes: an engine charges all it has
\* read, and no more unless a step came while the thread was adding.
THEOREM TaxesAreCharged == LedgerSpec => []ChargedWhatItRead
<1>1. LedgerInv => ChargedWhatItRead
  BY DEF LedgerInv, Charged, Balanced, ChargedWhatItRead
<1> QED BY <1>1, LedgerInvInit, LedgerInvNext, PTL DEF LedgerSpec

-----------------------------------------------------------------------------
LEMMA CountIsNat == ASSUME NEW f, NEW S, NEW lines \in Seq(S) PROVE Count(f, lines) \in Nat
<1>1. IsFiniteSet(1 .. Len(lines))
  BY FS_Interval
<1>2. {i \in DOMAIN lines : lines[i] = f} \subseteq 1 .. Len(lines)
  OBVIOUS
<1> QED BY <1>1, <1>2, FS_Subset, FS_CardinalityType DEF Count

LEMMA CountOfNone == \A f : Count(f, <<>>) = 0
<1>1. \A f : {i \in DOMAIN <<>> : <<>>[i] = f} = {}
  OBVIOUS
<1> QED BY <1>1, FS_EmptySet DEF Count

LEMMA CountOfAppended ==
    ASSUME NEW S, NEW lines \in Seq(S), NEW g \in S, NEW f
    PROVE  Count(f, Append(lines, g)) = IF f = g THEN Count(f, lines) + 1 ELSE Count(f, lines)
<1> DEFINE now == {i \in DOMAIN lines : lines[i] = f}
           new == Len(lines) + 1
           next == {i \in DOMAIN Append(lines, g) : Append(lines, g)[i] = f}
<1>1. next = IF f = g THEN now \union {new} ELSE now
  OBVIOUS
<1>2. IsFiniteSet(now) /\ new \notin now
  <2>1. IsFiniteSet(1 .. Len(lines)) /\ now \subseteq 1 .. Len(lines)
    BY FS_Interval
  <2> QED BY <2>1, FS_Subset
<1> HIDE DEF now, new, next
<1>3. Cardinality(now \union {new}) = Cardinality(now) + 1
  BY <1>2, FS_AddElement
<1> QED BY <1>1, <1>3 DEF Count, now, next

LEMMA NothingCounted ==
    ASSUME NEW S, NEW lines \in Seq(S), \A f \in S : Count(f, lines) = 0
    PROVE  lines = <<>>
<1> SUFFICES ASSUME lines # <<>> PROVE FALSE
  OBVIOUS
<1> DEFINE f == lines[1]  at == {i \in DOMAIN lines : lines[i] = f}
<1>1. f \in S /\ 1 \in at /\ at \subseteq 1 .. Len(lines)
  OBVIOUS
<1>2. IsFiniteSet(at)
  BY <1>1, FS_Interval, FS_Subset
<1>3. Cardinality(at) = 0
  BY <1>1 DEF Count
<1> HIDE DEF at
<1> QED BY <1>1, <1>2, <1>3, FS_EmptySet

-----------------------------------------------------------------------------
\* What a process is at, and what it holds of the log.
Phases == {"idle", "checking", "truncating", "counting", "reading", "judging", "respawning", "petition"}
Audited == [at : Phases, healthy : BOOLEAN, lines : Seq(Files), kid : Swarm,
            seen : {"missing", "broke", "poor", "fair", "top"}, lock : BOOLEAN,
            alive : SUBSET Swarm, freed : SUBSET Swarm]

WardenTyped ==
    /\ row \in [Swarm -> {"missing", "broke", "poor", "fair", "top"}] /\ locked \in [Swarm -> BOOLEAN]
    /\ stale \in BOOLEAN /\ overlapped \in BOOLEAN
    /\ log \in Seq(Files) /\ strikes \in [Files -> Nat] /\ appended \in [Files -> Nat]
    /\ deadLetter \subseteq Files
    /\ proc \in [Processes -> Audited]

Held(p, f) == IF proc[p].at = "counting" THEN Count(f, proc[p].lines) ELSE 0

\* What is counted, held or logged of a file was appended once, unless both
\* processes read the same lines.
Strict ==
    /\ proc["api"].at = "truncating" /\ proc["auditor"].at = "truncating"
         => proc["api"].lines = <<>> /\ proc["auditor"].lines = <<>>
    /\ \A p \in Processes : proc[p].at = "truncating"
         => \A f \in Files : Count(f, proc[p].lines) <= Count(f, log)
    /\ \A f \in Files : strikes[f] + Held("api", f) + Held("auditor", f) + Count(f, log) <= appended[f]

StrikesInv == WardenTyped /\ (overlapped \/ Strict) /\ DeadLettersEarned

LEMMA StrikesInit == WardenInit => StrikesInv
<1> SUFFICES ASSUME WardenInit PROVE StrikesInv
  OBVIOUS
<1>1. 0 \in Swarm
  BY WardenAssumption DEF Swarm
<1>2. Resting \in Audited
  <2>1. <<>> \in Seq(Files)
    OBVIOUS
  <2> QED BY <1>1, <2>1 DEF Resting, Audited, Phases
<1>3. WardenTyped
  <2>1. log \in Seq(Files)
    BY DEF WardenInit
  <2> QED BY <1>2, <2>1 DEF WardenInit, WardenTyped
<1>4. Strict
  BY CountOfNone DEF WardenInit, Strict, Held, Resting, Processes
<1> QED BY <1>3, <1>4 DEF StrikesInv, DeadLettersEarned, WardenInit

\* A step that neither reads, nor empties, nor counts the log.
LEMMA ElsewhereStep ==
    ASSUME StrikesInv, UNCHANGED quarantine, WardenTyped',
           proc' = proc \/ \E p \in Processes : \E x \in Audited :
               /\ proc' = [proc EXCEPT ![p] = x]
               /\ x.at \notin {"truncating", "counting"} /\ proc[p].at \notin {"truncating", "counting"}
    PROVE  StrikesInv'
<1>1. /\ \A p \in Processes : 
           /\ proc'[p].at \in {"truncating", "counting"} => proc'[p] = proc[p]
           /\ proc[p].at \in {"truncating", "counting"} => proc'[p] = proc[p]
  BY DEF StrikesInv, WardenTyped
<1>2. \A p \in Processes, f \in Files : Held(p, f)' = Held(p, f)
  BY <1>1 DEF Held
<1>3. Strict => Strict'
  BY <1>1, <1>2 DEF Strict, quarantine, Processes
<1> QED BY <1>3 DEF StrikesInv, DeadLettersEarned, quarantine

LEMMA QuarantineStep == ASSUME StrikesInv, NEW g \in Files, Quarantine(g) PROVE StrikesInv'
<1>1. /\ log \in Seq(Files) /\ log' = Append(log, g) /\ appended' = [appended EXCEPT ![g] = @ + 1]
      /\ UNCHANGED <<row, locked, stale, strikes, deadLetter, proc, overlapped>>
  BY DEF Quarantine, child, StrikesInv, WardenTyped
<1>2. WardenTyped'
  <2>1. log' \in Seq(Files)
    BY <1>1
  <2> QED BY <1>1, <2>1 DEF StrikesInv, WardenTyped
<1>3. \A f \in Files : /\ appended[f] \in Nat /\ appended'[f] \in Nat /\ appended[f] <= appended'[f]
                       /\ Count(f, log) \in Nat /\ Count(f, log)' \in Nat
                       /\ Count(f, log)' - Count(f, log) = appended'[f] - appended[f]
  <2> TAKE f \in Files
  <2>1. appended'[f] = (IF f = g THEN appended[f] + 1 ELSE appended[f]) /\ appended[f] \in Nat
    BY <1>1 DEF StrikesInv, WardenTyped
  <2>2. Count(f, log)' = (IF f = g THEN Count(f, log) + 1 ELSE Count(f, log)) /\ Count(f, log) \in Nat
    <3>1. Count(f, log)' = Count(f, Append(log, g))
      BY <1>1 DEF Count
    <3> QED BY <1>1, <3>1, CountOfAppended, CountIsNat
  <2> QED BY <2>1, <2>2
<1>4. Strict => Strict'
  <2> SUFFICES ASSUME Strict PROVE Strict'
    OBVIOUS
  <2>1. \A p \in Processes, f \in Files : Held(p, f)' = Held(p, f) /\ Held(p, f) \in Nat
    BY <1>1, CountIsNat DEF Held, StrikesInv, WardenTyped, Audited
  <2>2. \A p \in Processes : proc'[p].at = "truncating" => \A f \in Files : Count(f, proc'[p].lines) <= Count(f, log)'
    <3> SUFFICES ASSUME NEW p \in Processes, proc[p].at = "truncating", NEW f \in Files
                 PROVE  Count(f, proc[p].lines) <= Count(f, log)'
      BY <1>1
    <3>1. Count(f, proc[p].lines) \in Nat /\ Count(f, proc[p].lines) <= Count(f, log)
      BY CountIsNat DEF StrikesInv, WardenTyped, Audited, Strict
    <3> QED BY <1>3, <3>1
  <2>3. ASSUME NEW f \in Files
        PROVE  strikes'[f] + Held("api", f)' + Held("auditor", f)' + Count(f, log)' <= appended'[f]
    <3>1. strikes'[f] = strikes[f] /\ strikes[f] \in Nat
      BY <1>1 DEF StrikesInv, WardenTyped
    <3>2. strikes[f] + Held("api", f) + Held("auditor", f) + Count(f, log) <= appended[f]
      BY DEF Strict
    <3>3. /\ Held("api", f)' = Held("api", f) /\ Held("auditor", f)' = Held("auditor", f)
          /\ Held("api", f) \in Nat /\ Held("auditor", f) \in Nat
      BY <2>1 DEF Processes
    <3> HIDE DEF Held, Count
    <3>4. \A a, b, c, d, e, d1, e1 \in Nat : a + b + c + d <= e /\ d1 - d = e1 - e => a + b + c + d1 <= e1
      OBVIOUS
    <3>5. strikes[f] + Held("api", f) + Held("auditor", f) + Count(f, log)' <= appended'[f]
      BY <1>3, <3>1, <3>2, <3>3, <3>4
    <3> QED BY <3>1, <3>3, <3>5
  <2> QED BY <1>1, <2>2, <2>3 DEF Strict
<1>5. DeadLettersEarned'
  BY <1>1, <1>2, <1>3, WardenAssumption DEF StrikesInv, WardenTyped, DeadLettersEarned
<1> QED BY <1>1, <1>2, <1>4, <1>5 DEF StrikesInv

LEMMA CheckStep == ASSUME StrikesInv, NEW p \in Processes, CheckHealth(p) PROVE StrikesInv'
<1> DEFINE x == IF stale THEN Begin(p, FALSE) ELSE [proc[p] EXCEPT !.at = "truncating", !.lines = log]
<1>1. /\ proc' = [proc EXCEPT ![p] = x] /\ proc[p].at = "checking"
      /\ UNCHANGED <<row, locked, stale, strikes, deadLetter, log, appended>>
  BY DEF CheckHealth, child
<1>2. overlapped' = (overlapped \/ (~stale /\ log # <<>> /\ \E q \in Processes \ {p} : proc[q].at = "truncating"))
  BY DEF CheckHealth
<1>3. x \in Audited
  <2>1. proc[p] \in Audited /\ log \in Seq(Files) /\ <<>> \in Seq(Files) /\ 0 \in Swarm
    BY WardenAssumption DEF StrikesInv, WardenTyped, Swarm
  <2> QED BY <2>1 DEF Begin, Audited, Phases
<1>4. WardenTyped'
  BY <1>1, <1>2, <1>3 DEF StrikesInv, WardenTyped
<1>5. \A q \in Processes : proc'[q] = IF q = p THEN x ELSE proc[q]
  BY <1>1, <1>3 DEF StrikesInv, WardenTyped
<1>6. \A q \in Processes, f \in Files : Held(q, f)' = Held(q, f)
  BY <1>1, <1>5 DEF Held, Begin, StrikesInv, WardenTyped, Audited
<1>7. ASSUME ~overlapped' PROVE Strict'
  <2>1. Strict /\ ~overlapped
    BY <1>2, <1>7 DEF StrikesInv
  <2>2. CASE stale
    <3>1. x.at = "reading"
      BY <2>2 DEF Begin, StrikesInv, WardenTyped, Audited
    <3> HIDE DEF x
    <3> QED BY <1>1, <1>5, <1>6, <2>1, <3>1 DEF Strict, Processes
  <2>3. CASE ~stale
    <3>1. x.at = "truncating" /\ x.lines = log
      BY <2>3 DEF StrikesInv, WardenTyped, Audited
    <3>2. ASSUME NEW q \in Processes \ {p}, proc[q].at = "truncating"
          PROVE  log = <<>> /\ proc[q].lines = <<>>
      <4>1. log = <<>>
        BY <1>2, <1>7, <2>3, <3>2
      <4>2. proc[q].lines \in Seq(Files) /\ \A f \in Files : Count(f, proc[q].lines) <= Count(f, log)
        BY <2>1, <3>2 DEF Strict, StrikesInv, WardenTyped, Audited
      <4>3. \A f \in Files : Count(f, log) = 0 /\ Count(f, proc[q].lines) \in Nat
        BY <4>1, <4>2, CountOfNone, CountIsNat
      <4>4. \A f \in Files : Count(f, proc[q].lines) = 0
        BY <4>2, <4>3
      <4> QED BY <4>1, <4>2, <4>4, NothingCounted
    <3>3. \A f \in Files : Count(f, log) <= Count(f, log)
      BY CountIsNat DEF StrikesInv, WardenTyped
    <3> HIDE DEF x
    <3>4. /\ proc'["api"].at = "truncating" /\ proc'["auditor"].at = "truncating"
              => proc'["api"].lines = <<>> /\ proc'["auditor"].lines = <<>>
      BY <1>5, <3>1, <3>2 DEF Processes
    <3> QED BY <1>1, <1>5, <1>6, <2>1, <3>1, <3>3, <3>4 DEF Strict, Processes
  <2> QED BY <2>2, <2>3
<1> QED BY <1>1, <1>2, <1>4, <1>7 DEF StrikesInv, DeadLettersEarned

LEMMA TruncateStep == ASSUME StrikesInv, NEW p \in Processes, Truncate(p) PROVE StrikesInv'
<1> DEFINE x == [proc[p] EXCEPT !.at = "counting"]
<1>1. /\ proc' = [proc EXCEPT ![p] = x] /\ proc[p].at = "truncating" /\ log' = <<>>
      /\ UNCHANGED <<row, locked, stale, strikes, deadLetter, appended, overlapped>>
  BY DEF Truncate, child, StrikesInv, WardenTyped
<1>2. x \in Audited /\ x.at = "counting" /\ x.lines = proc[p].lines /\ x.lines \in Seq(Files)
  BY DEF Audited, StrikesInv, WardenTyped, Phases
<1>3. WardenTyped'
  <2>1. log' \in Seq(Files)
    BY <1>1
  <2> QED BY <1>1, <1>2, <2>1 DEF StrikesInv, WardenTyped
<1>4. \A q \in Processes : proc'[q] = IF q = p THEN x ELSE proc[q]
  BY <1>1 DEF StrikesInv, WardenTyped
<1> HIDE DEF x
<1>5. ASSUME Strict PROVE Strict'
  <2>1. \A f \in Files : Count(f, log)' = 0
    BY <1>1, CountOfNone DEF Count
  <2>2. ASSUME NEW q \in Processes \ {p}, proc[q].at = "truncating" PROVE proc[q].lines = <<>>
    BY <1>1, <1>5, <2>2 DEF Strict, Processes
  <2>3. \A q \in Processes : proc'[q].at = "truncating" => \A f \in Files : Count(f, proc'[q].lines) <= Count(f, log)'
    BY <1>2, <1>4, <2>1, <2>2, CountOfNone
  <2>4. ASSUME NEW f \in Files
        PROVE  strikes'[f] + Held("api", f)' + Held("auditor", f)' + Count(f, log)' <= appended'[f]
    <3>1. PICK q \in Processes : q # p /\ {p, q} = {"api", "auditor"}
      BY DEF Processes
    <3>2. Held(p, f) = 0 /\ Held(p, f)' = Count(f, proc[p].lines) /\ Held(q, f)' = Held(q, f)
      BY <1>1, <1>2, <1>4, <3>1 DEF Held
    <3>3. /\ Count(f, proc[p].lines) \in Nat /\ Count(f, log) \in Nat /\ Held(q, f) \in Nat
          /\ strikes[f] \in Nat /\ appended[f] \in Nat
      BY CountIsNat DEF StrikesInv, WardenTyped, Audited, Held
    <3>4. Count(f, proc[p].lines) <= Count(f, log)
      BY <1>1, <1>5 DEF Strict
    <3>5. strikes[f] + Held("api", f) + Held("auditor", f) + Count(f, log) <= appended[f]
      BY <1>5 DEF Strict
    <3>6. (p = "api" /\ q = "auditor") \/ (p = "auditor" /\ q = "api")
      BY <3>1
    <3> HIDE DEF Held, Count
    <3>7. strikes[f] + Held("api", f)' + Held("auditor", f)' <= appended[f]
      BY <3>2, <3>3, <3>4, <3>5, <3>6
    <3>8. Held("api", f)' \in Nat /\ Held("auditor", f)' \in Nat
      BY <3>2, <3>3, <3>6
    <3> QED BY <1>1, <2>1, <3>3, <3>7, <3>8
  <2>5. ~(proc'["api"].at = "truncating" /\ proc'["auditor"].at = "truncating")
    BY <1>2, <1>4 DEF Processes
  <2> QED BY <2>3, <2>4, <2>5 DEF Strict
<1> QED BY <1>1, <1>3, <1>5 DEF StrikesInv, DeadLettersEarned

LEMMA CountStep == ASSUME StrikesInv, NEW p \in Processes, CountStrikes(p) PROVE StrikesInv'
<1> DEFINE n(f) == Count(f, proc[p].lines)
<1>1. /\ proc[p].at = "counting" /\ proc[p] \in Audited
      /\ UNCHANGED <<row, locked, stale, log, appended, overlapped>>
  BY DEF CountStrikes, child, StrikesInv, WardenTyped
<1>2. PICK h \in BOOLEAN : proc' = [proc EXCEPT ![p] = Begin(p, h)]
  BY DEF CountStrikes
<1>3. Begin(p, h) \in Audited /\ Begin(p, h).at = "reading"
  <2>1. <<>> \in Seq(Files) /\ 0 \in Swarm
    BY WardenAssumption DEF Swarm
  <2> QED BY <1>1, <2>1 DEF Begin, Audited, Phases
<1>4. \A q \in Processes : proc'[q] = IF q = p THEN Begin(p, h) ELSE proc[q]
  BY <1>2 DEF StrikesInv, WardenTyped
<1>5. \A f \in Files : /\ n(f) \in Nat /\ Count(f, log) \in Nat /\ strikes[f] \in Nat /\ appended[f] \in Nat
                       /\ Held("api", f) \in Nat /\ Held("auditor", f) \in Nat
  BY CountIsNat DEF StrikesInv, WardenTyped, Audited, Held, Processes
<1>6. /\ deadLetter' \subseteq deadLetter \union StruckOut(p) /\ deadLetter \subseteq deadLetter'
      /\ DOMAIN strikes' = Files
      /\ \A f \in Files : strikes'[f] \in {strikes[f], strikes[f] + n(f)}
      /\ strikes' = [f \in Files |-> strikes'[f]]
  BY DEF CountStrikes, StrikesInv, WardenTyped
<1>7. strikes' \in [Files -> Nat] /\ deadLetter' \subseteq Files
  <2>1. \A f \in Files : strikes'[f] \in Nat
    BY <1>5, <1>6
  <2> QED BY <1>6, <2>1 DEF StruckOut, StrikesInv, WardenTyped
<1>8. WardenTyped'
  BY <1>1, <1>2, <1>3, <1>7 DEF StrikesInv, WardenTyped
<1>9. ASSUME Strict, NEW f \in Files PROVE strikes[f] + n(f) + Count(f, log) <= appended[f]
  <2>1. strikes[f] + Held("api", f) + Held("auditor", f) + Count(f, log) <= appended[f]
    BY <1>9 DEF Strict
  <2>2. Held(p, f) = n(f) /\ p \in {"api", "auditor"}
    BY <1>1 DEF Held, Processes
  <2> HIDE DEF n, Held
  <2> QED BY <1>5, <2>1, <2>2
<1>10. ASSUME Strict PROVE Strict'
  <2>1. ASSUME NEW f \in Files
        PROVE  strikes'[f] + Held("api", f)' + Held("auditor", f)' + Count(f, log)' <= appended'[f]
    <3>1. PICK q \in Processes : (p = "api" /\ q = "auditor") \/ (p = "auditor" /\ q = "api")
      BY DEF Processes
    <3>2. Held(p, f) = n(f) /\ Held(p, f)' = 0 /\ Held(q, f)' = Held(q, f)
      BY <1>1, <1>3, <1>4, <3>1 DEF Held
    <3>3. strikes[f] + Held("api", f) + Held("auditor", f) + Count(f, log) <= appended[f]
      BY <1>10 DEF Strict
    <3>4. Count(f, log)' = Count(f, log)
      BY <1>1 DEF Count
    <3>5. strikes'[f] = strikes[f] \/ strikes'[f] = strikes[f] + n(f)
      BY <1>6
    <3> HIDE DEF Held, n
    <3> QED BY <1>1, <1>5, <3>1, <3>2, <3>3, <3>4, <3>5
  <2> HIDE DEF n
  <2> QED BY <1>1, <1>3, <1>4, <1>10, <2>1 DEF Strict, Processes
<1>11. ASSUME Strict, NEW f \in StruckOut(p) PROVE appended[f] >= Strikes
  <2>1. f \in Files /\ strikes[f] + n(f) >= Strikes
    BY DEF StruckOut
  <2> HIDE DEF n
  <2> QED BY <1>5, <1>9, <1>11, <2>1, WardenAssumption
<1> QED BY <1>1, <1>6, <1>8, <1>10, <1>11 DEF StrikesInv, DeadLettersEarned

LEMMA StrikesNext == StrikesInv /\ [WardenNext]_wardenVars => StrikesInv'
<1> SUFFICES ASSUME StrikesInv, [WardenNext]_wardenVars PROVE StrikesInv'
  OBVIOUS
<1>1. /\ WardenTyped /\ proc \in [Processes -> Audited] /\ SwarmSize \in Nat \ {0}
      /\ row \in [Swarm -> {"missing", "broke", "poor", "fair", "top"}] /\ locked \in [Swarm -> BOOLEAN]
      /\ stale \in BOOLEAN
      /\ "api" \in Processes /\ "auditor" \in Processes
  BY WardenAssumption DEF StrikesInv, WardenTyped, Processes
\* The process stays away from the log.
<1>2. ASSUME UNCHANGED quarantine, NEW p \in Processes, NEW x \in Audited, proc' = [proc EXCEPT ![p] = x],
             x.at \notin {"truncating", "counting"}, proc[p].at \notin {"truncating", "counting"},
             row' \in [Swarm -> {"missing", "broke", "poor", "fair", "top"}], UNCHANGED <<locked, stale>>
      PROVE  StrikesInv'
  <2>1. WardenTyped'
    BY <1>1, <1>2 DEF WardenTyped, quarantine
  <2> QED BY <1>2, <2>1, ElsewhereStep
<1>3. ASSUME UNCHANGED <<quarantine, proc>>, row' \in [Swarm -> {"missing", "broke", "poor", "fair", "top"}],
             locked' \in [Swarm -> BOOLEAN], stale' \in BOOLEAN
      PROVE  StrikesInv'
  <2>1. WardenTyped'
    BY <1>1, <1>3 DEF WardenTyped, quarantine
  <2> QED BY <1>3, <2>1, ElsewhereStep
<1>4. ASSUME NEW c \in Swarm, Trade(c) PROVE StrikesInv'
  <2>1. row' \in [Swarm -> {"missing", "broke", "poor", "fair", "top"}]
    BY <1>1, <1>4, WardenAssumption DEF Trade
  <2> QED BY <1>1, <1>3, <1>4, <2>1 DEF Trade
<1>5. ASSUME NEW c \in Swarm, LockOrExpire(c) PROVE StrikesInv'
  <2>1. locked' \in [Swarm -> BOOLEAN]
    BY <1>1, <1>5 DEF LockOrExpire
  <2> QED BY <1>1, <1>3, <1>5, <2>1 DEF LockOrExpire
<1>6. CASE Heartbeat
  <2>1. stale' \in BOOLEAN /\ UNCHANGED <<row, locked, proc, quarantine>>
    BY <1>1, <1>6 DEF Heartbeat, child
  <2> QED BY <1>1, <1>3, <2>1
<1>7. CASE AuditDue
  <2>1. [proc["auditor"] EXCEPT !.at = "checking"] \in Audited
    BY <1>1 DEF Audited, Phases
  <2>2. [proc["auditor"] EXCEPT !.at = "checking"].at = "checking"
    BY <1>1 DEF Audited
  <2> QED BY <1>1, <1>2, <1>7, <2>1, <2>2 DEF AuditDue, child
<1>8. CASE RunAudit
  <2>1. [proc["api"] EXCEPT !.at = "checking"] \in Audited
    BY <1>1 DEF Audited, Phases
  <2>2. [proc["api"] EXCEPT !.at = "checking"].at = "checking"
    BY <1>1 DEF Audited
  <2> QED BY <1>1, <1>2, <1>8, <2>1, <2>2 DEF RunAudit, child
<1>9. ASSUME NEW p \in Processes, ReadLedger(p) PROVE StrikesInv'
  <2> DEFINE c == proc[p].kid  x == [proc[p] EXCEPT !.at = "judging", !.seen = row[c], !.lock = locked[c]]
  <2>1. c \in Swarm /\ proc[p] \in Audited
    BY <1>1 DEF Audited
  <2>2. row[c] \in {"missing", "broke", "poor", "fair", "top"} /\ locked[c] \in BOOLEAN
    BY <1>1, <2>1
  <2>3. x \in Audited /\ x.at = "judging"
    BY <2>1, <2>2 DEF Audited, Phases
  <2>4. /\ proc' = [proc EXCEPT ![p] = x] /\ proc[p].at = "reading"
        /\ UNCHANGED <<quarantine, row, locked, stale>>
    BY <1>9 DEF ReadLedger, child
  <2> HIDE DEF x
  <2> QED BY <1>1, <1>2, <2>3, <2>4
<1>10. ASSUME NEW p \in Processes
       PROVE  /\ [Advance(p) EXCEPT !.freed = @ \union {proc[p].kid}] \in Audited
              /\ [Advance(p) EXCEPT !.alive = @ \union {proc[p].kid}] \in Audited
              /\ [Advance(p) EXCEPT !.freed = @ \union {proc[p].kid}].at \in {"respawning", "reading"}
              /\ [Advance(p) EXCEPT !.alive = @ \union {proc[p].kid}].at \in {"respawning", "reading"}
  <2>1. proc[p] \in Audited /\ proc[p].kid \in Swarm /\ (proc[p].kid + 1) % SwarmSize \in Swarm
    <3>1. proc[p] \in Audited /\ proc[p].kid \in Swarm
      BY <1>1 DEF Audited
    <3>2. proc[p].kid + 1 \in Nat
      BY <1>1, <3>1 DEF Swarm
    <3>3. (proc[p].kid + 1) % SwarmSize \in 0 .. SwarmSize - 1
      BY <1>1, <3>2
    <3> QED BY <3>1, <3>3 DEF Swarm
  <2>2. Advance(p) \in Audited /\ Advance(p).at \in {"respawning", "reading"}
    BY <2>1 DEF Advance, Audited, Phases
  <2> HIDE DEF Advance
  <2> QED BY <2>1, <2>2 DEF Audited
<1>11. ASSUME NEW p \in Processes, Purge(p) \/ Skip(p) \/ Assign(p) PROVE StrikesInv'
  <2>1. PICK x \in Audited : proc' = [proc EXCEPT ![p] = x] /\ x.at \in {"respawning", "reading"}
    BY <1>10, <1>11, Zenon DEF Purge, Skip, Assign
  <2>2. proc[p].at = "judging" /\ UNCHANGED <<quarantine, row, locked, stale>>
    BY <1>11 DEF Purge, Skip, Assign, child
  <2> QED BY <1>1, <1>2, <2>1, <2>2
<1>12. \A b \in BOOLEAN : [Resting EXCEPT !.healthy = b] \in Audited /\ [Resting EXCEPT !.healthy = b].at = "idle"
  <2>1. <<>> \in Seq(Files) /\ 0 \in Swarm
    BY <1>1 DEF Swarm
  <2> QED BY <2>1 DEF Resting, Audited, Phases
<1>13. ASSUME NEW p \in Processes, Respawn(p) PROVE StrikesInv'
  <2>1. PICK b \in BOOLEAN : proc' = [proc EXCEPT ![p] = [Resting EXCEPT !.healthy = b]]
    BY <1>1, <1>13 DEF Respawn, Audited
  <2>2. row' \in [Swarm -> {"missing", "broke", "poor", "fair", "top"}]
    BY <1>1, <1>13 DEF Respawn
  <2>3. proc[p].at = "respawning" /\ UNCHANGED <<quarantine, locked, stale>>
    BY <1>13 DEF Respawn
  <2> QED BY <1>2, <1>12, <2>1, <2>2, <2>3
<1>14. ASSUME NEW c \in Swarm, Petition(c) PROVE StrikesInv'
  <2> DEFINE x == [proc["api"] EXCEPT !.at = "petition", !.kid = c, !.seen = row[c], !.lock = locked[c]]
  <2>1. x \in Audited /\ x.at = "petition"
    BY <1>1 DEF Audited, Phases
  <2>2. proc' = [proc EXCEPT !["api"] = x] /\ proc["api"].at = "idle" /\ UNCHANGED <<quarantine, row, locked, stale>>
    BY <1>14 DEF Petition, child
  <2> HIDE DEF x
  <2> QED BY <1>1, <1>2, <2>1, <2>2
<1>15. CASE Answer
  <2>1. proc["api"].healthy \in BOOLEAN
    BY <1>1 DEF Audited
  <2>2. /\ proc' = [proc EXCEPT !["api"] = [Resting EXCEPT !.healthy = proc["api"].healthy]]
        /\ proc["api"].at = "petition" /\ UNCHANGED <<quarantine, row, locked, stale>>
    BY <1>15 DEF Answer, child
  <2> QED BY <1>1, <1>2, <1>12, <2>1, <2>2
<1>16. CASE UNCHANGED wardenVars
  BY <1>1, <1>3, <1>16 DEF wardenVars, quarantine
<1> QED BY <1>4, <1>5, <1>6, <1>7, <1>8, <1>9, <1>11, <1>13, <1>14, <1>15, <1>16,
           QuarantineStep, CheckStep, TruncateStep, CountStep
        DEF WardenNext, AuditStep

\* For any number of children, files, strikes and audits: a file is isolated for
\* events of its own, unless both processes read the same lines (DeadLettersEarned).
THEOREM IsolationIsEarned == WardenSpec => []DeadLettersEarned
<1>1. StrikesInv => DeadLettersEarned
  BY DEF StrikesInv
<1> QED BY <1>1, StrikesInit, StrikesNext, PTL DEF WardenSpec

-----------------------------------------------------------------------------
TradeRecord == [status : {"locked", "settled", "refunded"},
             buyer : Children, seller : Children, price : Offers]

Job == [at : {"idle", "checked", "settling", "judged", "paid"}, trade : Trades \union {NoOne},
        seller : Children \union {NoOne}, price : Int, passed : BOOLEAN]

MarketTyped ==
    /\ balance \in [Children -> Int]
    /\ trades \in [Trades -> {Unused} \union TradeRecord]

\* What a process knows of the trade it works on: the balance it checked still
\* covers the price, as only the buyer's own process takes from it; and what it
\* judges is still locked, as it is the only one that works on it.
JobTrue(p) ==
    /\ worker[p] \in Job
    /\ worker[p].at \in {"idle", "checked"} => worker[p].trade = NoOne
    /\ worker[p].at = "checked" =>
          /\ p \in Children /\ worker[p].price \in Offers /\ worker[p].price <= balance[p]
          /\ worker[p].seller \in Children \ {p}
    /\ worker[p].at \in {"settling", "judged", "paid"} =>
          worker[p].trade \in Trades /\ trades[worker[p].trade] # Unused
    /\ worker[p].at = "judged" => trades[worker[p].trade].status = "locked"

OneEach == \A p, q \in Settlers : p # q /\ worker[p].trade # NoOne => worker[p].trade # worker[q].trade

EscrowInv ==
    /\ MarketTyped /\ worker \in [Settlers -> Job]
    /\ \A p \in Settlers : JobTrue(p)
    /\ OneEach

LEMMA UnusedIsNotRecorded == Unused \notin TradeRecord
BY DEF Unused, TradeRecord

LEMMA IdleIsAJob == Idle \in Job
BY DEF Idle, Job

LEMMA SettlingIsAJob ==
    ASSUME NEW t \in Trades
    PROVE  [Idle EXCEPT !.at = "settling", !.trade = t] \in Job
BY IdleIsAJob DEF Job

LEMMA InvInit == EscrowInit => EscrowInv
<1> SUFFICES ASSUME EscrowInit PROVE EscrowInv
  OBVIOUS
<1>1. MarketTyped
  BY EscrowAssumption DEF EscrowInit, MarketInit, MarketTyped
<1>2. worker \in [Settlers -> Job] /\ \A p \in Settlers : worker[p] = Idle
  BY IdleIsAJob DEF EscrowInit
<1> QED BY <1>1, <1>2, IdleIsAJob DEF EscrowInv, JobTrue, OneEach, Idle

\* A step of one process that leaves the others' trades alone and takes from
\* nobody else's balance leaves what they know true.
LEMMA OthersStayTrue ==
    ASSUME EscrowInv, NEW p \in Settlers, NEW j \in Job,
           worker' = [worker EXCEPT ![p] = j],
           MarketTyped',
           \A c \in Children : c # p => balance[c] <= balance'[c],
           \A t \in Trades : trades'[t] = trades[t] \/ \A q \in Settlers : q # p => worker[q].trade # t,
           JobTrue(p)',
           j.trade # NoOne => \A q \in Settlers : q # p => worker[q].trade # j.trade
    PROVE  EscrowInv'
<1>1. worker' \in [Settlers -> Job] /\ worker'[p] = j
  BY DEF EscrowInv
<1>2. ASSUME NEW q \in Settlers, q # p PROVE JobTrue(q)'
  <2>1. worker'[q] = worker[q] /\ JobTrue(q)
    BY <1>2 DEF EscrowInv
  <2>2. worker[q].trade \in Trades => trades'[worker[q].trade] = trades[worker[q].trade]
    BY <1>2
  <2>3. worker[q].at = "checked" => worker[q].price <= balance'[q]
    <3>1. worker[q].at = "checked" => q \in Children /\ worker[q].price \in Int
      BY <2>1 DEF JobTrue, Job
    <3> QED BY <1>2, <2>1, <3>1 DEF JobTrue, EscrowInv, MarketTyped
  <2> QED BY <2>1, <2>2, <2>3 DEF JobTrue
<1>3. OneEach'
  BY <1>1 DEF OneEach, EscrowInv
<1> QED BY <1>1, <1>2, <1>3 DEF EscrowInv

\* A step of the market, or one it does not see.
MarketStep == [Market!MarketNext]_<<balance, trades>>

LEMMA JobIsTyped ==
    ASSUME EscrowInv, NEW p \in Settlers
    PROVE  worker[p] \in Job /\ JobTrue(p) /\ (worker[p].trade = NoOne \/ worker[p].trade \in Trades)
BY DEF EscrowInv, Job

LEMMA UnusedIsNobodys ==
    ASSUME EscrowInv, NEW t \in Trades, trades[t] = Unused
    PROVE  \A q \in Settlers : worker[q].trade # t
<1> SUFFICES ASSUME NEW q \in Settlers, worker[q].trade = t PROVE FALSE
  OBVIOUS
<1> QED BY JobIsTyped, EscrowAssumption DEF JobTrue, Job

\* What is needed of a step that changes neither balances nor trades.
LEMMA QuietStep ==
    ASSUME EscrowInv, NEW p \in Settlers, NEW j \in Job,
           worker' = [worker EXCEPT ![p] = j], UNCHANGED <<balance, trades>>,
           JobTrue(p)',
           j.trade # NoOne => \A q \in Settlers : q # p => worker[q].trade # j.trade
    PROVE  EscrowInv' /\ MarketStep
<1>1. MarketTyped'
  BY DEF EscrowInv, MarketTyped
<1>2. \A c \in Children : balance[c] <= balance'[c]
  BY DEF EscrowInv, MarketTyped
<1>3. EscrowInv'
  BY <1>1, <1>2, OthersStayTrue
<1> QED BY <1>3 DEF MarketStep

LEMMA GoIdle ==
    ASSUME EscrowInv, NEW p \in Settlers,
           worker' = [worker EXCEPT ![p] = Idle], UNCHANGED <<balance, trades>>
    PROVE  EscrowInv' /\ MarketStep
<1>1. worker'[p] = Idle
  BY DEF EscrowInv
<1>2. JobTrue(p)'
  BY <1>1, IdleIsAJob DEF JobTrue, Idle
<1> QED BY <1>2, IdleIsAJob, QuietStep DEF Idle

LEMMA AskStep ==
    ASSUME EscrowInv, NEW c \in Children, NEW s \in Children, NEW price \in Offers, Ask(c, s, price)
    PROVE  EscrowInv' /\ MarketStep
<1> DEFINE j == [Idle EXCEPT !.at = "checked", !.seller = s, !.price = price]
<1>1. j \in Job
  <2>1. price \in Int
    BY EscrowAssumption
  <2> QED BY <2>1, IdleIsAJob DEF Job
<1>2. worker' = [worker EXCEPT ![c] = j] /\ c \in Settlers /\ UNCHANGED <<balance, trades>>
  BY DEF Ask, Settlers
<1>3. worker'[c] = j
  BY <1>2 DEF EscrowInv
<1>4. s \in Children \ {c} /\ price <= balance[c]
  BY DEF Ask, Peers
<1>5. j.trade = NoOne /\ j.at = "checked" /\ j.price = price /\ j.seller = s
  BY DEF Idle
<1> HIDE DEF j
<1>6. JobTrue(c)'
  BY <1>1, <1>2, <1>3, <1>4, <1>5 DEF JobTrue
<1> QED BY <1>1, <1>2, <1>5, <1>6, QuietStep

\* The balance read before is still there, so the market lets the price be locked.
LEMMA LockStep ==
    ASSUME EscrowInv, NEW c \in Children, NEW t \in Trades, Lock(c, t)
    PROVE  EscrowInv' /\ MarketStep
<1> DEFINE j == [Idle EXCEPT !.at = "settling", !.trade = t]
           seller == worker[c].seller
           price == worker[c].price
           lockedTrade == [status |-> "locked", buyer |-> c, seller |-> seller, price |-> price]
<1>1. j \in Job
  BY SettlingIsAJob
<1>2. /\ worker' = [worker EXCEPT ![c] = j] /\ c \in Settlers
      /\ balance' = [balance EXCEPT ![c] = @ - price]
      /\ trades' = [trades EXCEPT ![t] = lockedTrade]
      /\ trades[t] = Unused /\ worker[c].at = "checked"
  BY DEF Lock, Settlers
<1>3. price \in Offers /\ price <= balance[c] /\ seller \in Children \ {c} /\ price \in Nat
  BY <1>2, JobIsTyped, EscrowAssumption DEF JobTrue
<1>4. lockedTrade \in TradeRecord /\ lockedTrade # Unused
  BY <1>3 DEF TradeRecord, Unused
<1>5. j.trade = t /\ j.at = "settling" /\ worker'[c] = j
  BY <1>2 DEF EscrowInv, Idle
<1> HIDE DEF j
<1>6. MarketTyped'
  BY <1>2, <1>3, <1>4 DEF EscrowInv, MarketTyped
<1>7. trades'[t] = lockedTrade /\ \A u \in Trades : u # t => trades'[u] = trades[u]
  BY <1>2 DEF EscrowInv, MarketTyped
<1>8. \A d \in Children : d # c => balance[d] <= balance'[d]
  BY <1>2 DEF EscrowInv, MarketTyped
<1>9. \A q \in Settlers : worker[q].trade # t
  BY <1>2, UnusedIsNobodys
<1>10. JobTrue(c)'
  BY <1>1, <1>4, <1>5, <1>7, EscrowAssumption DEF JobTrue
<1>11. EscrowInv'
  BY <1>1, <1>2, <1>5, <1>6, <1>7, <1>8, <1>9, <1>10, OthersStayTrue
<1>12. Market!LockFunds(t, c, seller, price)
  BY <1>2, <1>3 DEF Market!LockFunds, Market!Unused, Unused
<1>13. Market!MarketNext
  BY <1>3, <1>12 DEF Market!MarketNext
<1> QED BY <1>11, <1>13 DEF MarketStep

LEMMA ValidateStep ==
    ASSUME EscrowInv, NEW p \in Settlers, Validate(p)
    PROVE  EscrowInv' /\ MarketStep
<1>1. PICK passed \in BOOLEAN : worker' = [worker EXCEPT ![p].at = "judged", ![p].passed = passed]
  BY DEF Validate, Verdicts
<1> DEFINE j == [worker[p] EXCEPT !.at = "judged", !.passed = passed]
<1>2. worker[p] \in Job /\ worker[p].at = "settling" /\ UNCHANGED <<balance, trades>>
  BY JobIsTyped DEF Validate
<1>3. j \in Job /\ j.at = "judged" /\ j.trade = worker[p].trade
  BY <1>2 DEF Job
<1>4. worker' = [worker EXCEPT ![p] = j]
  BY <1>1 DEF EscrowInv
<1> HIDE DEF j
<1>5. worker'[p] = j
  BY <1>4 DEF EscrowInv
<1>6. j.trade \in Trades /\ trades[j.trade] # Unused /\ trades[j.trade].status = "locked"
  BY <1>2, <1>3, JobIsTyped DEF JobTrue, Validate
<1>7. JobTrue(p)'
  BY <1>2, <1>3, <1>5, <1>6 DEF JobTrue
<1>8. \A q \in Settlers : q # p => worker[q].trade # j.trade
  BY <1>3, <1>6, EscrowAssumption DEF EscrowInv, OneEach
<1> QED BY <1>2, <1>3, <1>4, <1>7, <1>8, QuietStep

\* The two ways a judged trade ends: it is still locked, and its money moves once.
LEMMA ReleaseStep ==
    ASSUME EscrowInv, NEW p \in Settlers, worker[p].at = "judged",
           NEW t \in Trades, t = worker[p].trade,
           NEW status \in {"settled", "refunded"}, NEW payee \in Children,
           payee = IF status = "settled" THEN trades[t].seller ELSE trades[t].buyer,
           balance' = [balance EXCEPT ![payee] = @ + trades[t].price],
           trades' = [trades EXCEPT ![t].status = status],
           NEW j \in Job, worker' = [worker EXCEPT ![p] = j],
           j.trade \in {t, NoOne}, j.at \in {"idle", "paid"},
           j.at = "paid" <=> j.trade = t
    PROVE  EscrowInv' /\ MarketStep
<1>1. trades[t] \in TradeRecord /\ trades[t].status = "locked" /\ trades[t].price \in Nat
  BY JobIsTyped, EscrowAssumption DEF JobTrue, EscrowInv, MarketTyped, TradeRecord, Unused
<1>2. MarketTyped'
  <2>1. balance' \in [Children -> Int]
    BY <1>1 DEF EscrowInv, MarketTyped
  <2>2. [trades[t] EXCEPT !.status = status] \in TradeRecord
    BY <1>1 DEF TradeRecord
  <2>3. trades' = [trades EXCEPT ![t] = [trades[t] EXCEPT !.status = status]]
    OBVIOUS
  <2> QED BY <2>1, <2>2, <2>3 DEF EscrowInv, MarketTyped
<1>3. \A d \in Children : balance[d] <= balance'[d]
  BY <1>1 DEF EscrowInv, MarketTyped
<1>4. \A q \in Settlers : q # p => worker[q].trade # t
  BY EscrowAssumption DEF EscrowInv, OneEach
<1>5. trades'[t] # Unused /\ \A u \in Trades : u # t => trades'[u] = trades[u]
  <2>1. trades'[t].status = status
    BY <1>1 DEF EscrowInv, MarketTyped, TradeRecord
  <2> QED BY <2>1 DEF EscrowInv, MarketTyped, Unused
<1>6. worker'[p] = j
  BY DEF EscrowInv
<1>7. JobTrue(p)'
  BY <1>5, <1>6, EscrowAssumption DEF JobTrue
<1>8. EscrowInv'
  BY <1>2, <1>3, <1>4, <1>5, <1>7, OthersStayTrue
<1>9. Market!Release(t, "settled", trades[t].seller) \/ Market!Release(t, "refunded", trades[t].buyer)
  BY <1>1 DEF Market!Release
<1>10. Market!MarketNext
  BY <1>9 DEF Market!MarketNext
<1> QED BY <1>8, <1>10 DEF MarketStep

LEMMA JudgedIsRecorded ==
    ASSUME EscrowInv, NEW p \in Settlers, worker[p].at = "judged"
    PROVE  /\ worker[p].trade \in Trades
           /\ trades[worker[p].trade].buyer \in Children /\ trades[worker[p].trade].seller \in Children
BY JobIsTyped DEF JobTrue, EscrowInv, MarketTyped, TradeRecord

LEMMA RefundStep ==
    ASSUME EscrowInv, NEW p \in Settlers, Refund(p)
    PROVE  EscrowInv' /\ MarketStep
<1> DEFINE t == worker[p].trade
<1>1. t \in Trades /\ trades[t].buyer \in Children /\ worker[p].at = "judged"
  BY JudgedIsRecorded DEF Refund
<1>2. Idle.trade = NoOne /\ Idle.at = "idle" /\ t # NoOne
  BY <1>1, EscrowAssumption DEF Idle
<1>3. /\ balance' = [balance EXCEPT ![trades[t].buyer] = @ + trades[t].price]
      /\ trades' = [trades EXCEPT ![t].status = "refunded"]
      /\ worker' = [worker EXCEPT ![p] = Idle]
  BY DEF Refund
<1> HIDE DEF t
<1> QED BY <1>1, <1>2, <1>3, IdleIsAJob, ReleaseStep DEF t

LEMMA PayStep ==
    ASSUME EscrowInv, NEW p \in Settlers, Pay(p)
    PROVE  EscrowInv' /\ MarketStep
<1> DEFINE t == worker[p].trade
           j == [worker[p] EXCEPT !.at = "paid"]
<1>1. t \in Trades /\ trades[t].seller \in Children /\ worker[p].at = "judged"
  BY JudgedIsRecorded DEF Pay
<1>2. j \in Job /\ j.trade = t /\ j.at = "paid"
  BY JobIsTyped DEF Job
<1>3. /\ balance' = [balance EXCEPT ![trades[t].seller] = @ + trades[t].price]
      /\ trades' = [trades EXCEPT ![t].status = "settled"]
      /\ worker' = [worker EXCEPT ![p] = j]
  BY DEF Pay, EscrowInv
<1> HIDE DEF t, j
<1> QED BY <1>1, <1>2, <1>3, ReleaseStep DEF t

LEMMA RetryStep ==
    ASSUME EscrowInv, NEW t \in Trades, Retry(t)
    PROVE  EscrowInv' /\ MarketStep
<1> DEFINE j == [Idle EXCEPT !.at = "settling", !.trade = t]
<1>1. j \in Job /\ j.at = "settling" /\ j.trade = t
  BY SettlingIsAJob DEF Idle
<1>2. /\ worker' = [worker EXCEPT ![Operator] = j] /\ Operator \in Settlers
      /\ trades[t] # Unused /\ UNCHANGED <<balance, trades>>
      /\ \A q \in Settlers : worker[q].trade # t
  BY DEF Retry, Settlers
<1> HIDE DEF j
<1>3. worker'[Operator] = j
  BY <1>2 DEF EscrowInv
<1>4. JobTrue(Operator)'
  BY <1>1, <1>2, <1>3 DEF JobTrue
<1> QED BY <1>1, <1>2, <1>4, QuietStep

LEMMA EveryStep == EscrowInv /\ [EscrowNext]_escrowVars => EscrowInv' /\ MarketStep
<1> SUFFICES ASSUME EscrowInv, [EscrowNext]_escrowVars PROVE EscrowInv' /\ MarketStep
  OBVIOUS
<1>1. ASSUME UNCHANGED <<balance, trades, worker>> PROVE EscrowInv' /\ MarketStep
  BY <1>1 DEF EscrowInv, MarketTyped, JobTrue, OneEach, MarketStep
<1>2. CASE UNCHANGED escrowVars
  BY <1>1, <1>2 DEF escrowVars
<1>3. ASSUME NEW c \in Children, ChildStep(c) PROVE EscrowInv' /\ MarketStep
  <2> c \in Settlers
    BY DEF Settlers
  <2>1. CASE SaveWeights(c)
    BY <1>1, <2>1 DEF SaveWeights
  <2>2. CASE Broadcast(c)
    BY <1>1, <2>2 DEF Broadcast
  <2>3. CASE \E s \in Children, price \in Offers : Ask(c, s, price)
    BY <2>3, AskStep
  <2>4. CASE \E t \in Trades : Lock(c, t)
    BY <2>4, LockStep
  <2>5. CASE LockFails(c)
    BY <2>5, GoIdle DEF LockFails
  <2> QED BY <1>3, <2>1, <2>2, <2>3, <2>4, <2>5 DEF ChildStep
<1>4. ASSUME NEW p \in Settlers, Settle(p) PROVE EscrowInv' /\ MarketStep
  <2>1. CASE NotLocked(p)
    BY <2>1, GoIdle DEF NotLocked
  <2>2. CASE Deliver(p)
    BY <2>2, GoIdle DEF Deliver
  <2> QED BY <1>4, <2>1, <2>2, ValidateStep, RefundStep, PayStep DEF Settle
<1>5. ASSUME NEW p \in Settlers, Stop(p) PROVE EscrowInv' /\ MarketStep
  BY <1>5, GoIdle DEF Stop
<1> QED BY <1>2, <1>3, <1>4, <1>5, RetryStep DEF EscrowNext

\* Whatever the processes do, crash and race on, what the database shows is what
\* the abstract market does: a lock is covered by the balance, and a locked
\* trade's price goes once, to its seller or back to its buyer.
THEOREM EscrowImplementsMarket == EscrowSpec => ImplementsMarket
<1>1. EscrowInit => Market!MarketInit
  BY DEF EscrowInit, MarketInit, Market!MarketInit, Unused, Market!Unused
<1> QED BY <1>1, InvInit, EveryStep, PTL
        DEF EscrowSpec, ImplementsMarket, Market!MarketSpec, MarketStep

=============================================================================
