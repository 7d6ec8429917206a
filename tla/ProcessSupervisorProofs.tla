----------------------- MODULE ProcessSupervisorProofs -----------------------
(***************************************************************************)
(* Theorems about ProcessSupervisor for every choice of its constants: what *)
(* it takes to leave a trading process behind, what the alert forbids, and *)
(* how often a process that crashes is spawned.                            *)
(***************************************************************************)
EXTENDS ProcessSupervisor, Extremes, SequenceTheorems, TLAPS

Steady == {"off", "loop", "spawning", "ended", "backoff", "done", "killed"}

Shape ==
    /\ pc \in Steady \cup {"forked", "polling"}
    /\ child \in {"none", "booting", "trading", "stopping", "dead"}
    /\ orphans \in Nat

\* Until a signal races a spawn or the supervisor is killed, the child is alive only
\* while run() looks after it, and a shutdown under way has already seen it end.
Attended ==
    causes = {} =>
        /\ orphans = 0
        /\ pc \in Steady => ~Live
        /\ pc \in {"spawning", "forked"} => ~shuttingDown
        /\ (pc = "polling" /\ shuttingDown /\ ~handler) => ~Live

Polls == pc = "polling" => held

Shut == alert => ~Up

Inv == Shape /\ Attended /\ Polls /\ Shut

LEMMA InitInv == Init => Inv
  BY DEF Init, Inv, Shape, Attended, Polls, Shut, Steady, Live, Up

\* A step of the child, of an orphan or of the clock.
LEMMA ChildInv ==
  ASSUME Inv, Child \/ Tick
  PROVE  Inv'
<1> USE DEF Inv, Shape, Attended, Polls, Shut, Steady, Live, Up
<1>1. CASE ChildBoots \/ ChildCrashes \/ ChildStops \/ FeedGivesUp
  BY <1>1 DEF ChildBoots, ChildCrashes, ChildStops, FeedGivesUp, Becomes, loop, past
<1>2. CASE OperatorStopsChild
  BY <1>2 DEF OperatorStopsChild, Terminated, loop, past
<1>3. CASE OrphanEnds
  <2>1. orphans > 0 /\ orphans' = orphans - 1 /\ orphans' \in Nat
    BY <1>3 DEF OrphanEnds
  <2>2. UNCHANGED <<pc, shuttingDown, held, alert, handler, child, causes>>
    BY <1>3 DEF OrphanEnds, loop, proc, past
  <2> QED BY <2>1, <2>2
<1>4. CASE Tick
  BY <1>4 DEF Tick, proc
<1> QED BY <1>1, <1>2, <1>3, <1>4 DEF Child

\* A step of the supervisor's own thread, or its end.
LEMMA SupervisorInv ==
  ASSUME Inv, Start \/ MainLoop \/ Signal \/ Handler \/ SupervisorDies \/ DeleteAlert
  PROVE  Inv'
<1> USE DEF Inv, Shape, Attended, Polls, Shut, Steady, Live, Up
<1>1. CASE Start
  BY <1>1 DEF Start, Refused
<1>2. CASE Loop
  BY <1>2 DEF Loop, proc, past
<1>3. CASE Fork
  BY <1>3 DEF Fork
<1>4. CASE Assign
  BY <1>4 DEF Assign, proc, past
<1>5. CASE Poll
  BY <1>5 DEF Poll, InnerLoopEnds, proc, past
<1>6. CASE StopCleanly
  <2>1. UNCHANGED <<shuttingDown, held, alert, handler, causes>> /\ pc' = "done" /\ pc = "ended"
    BY <1>6 DEF StopCleanly, Leave, past
  <2>2. /\ orphans' \in Nat /\ (~Live => orphans' = orphans)
        /\ child' \in {"none", "dead"} \cup {child} /\ ~Live'
    BY <1>6 DEF StopCleanly, Leave
  <2> QED BY <2>1, <2>2
<1>7. CASE RecordRestart
  <2>1. /\ UNCHANGED <<shuttingDown, held, handler, child, orphans, causes>> /\ pc = "ended"
        /\ (pc' = "done" \/ (pc' = "backoff" /\ alert' = alert))
    BY <1>7 DEF RecordRestart, proc, past
  <2> QED BY <2>1
<1>8. CASE Wake
  <2>1. UNCHANGED <<shuttingDown, held, alert, handler, child, orphans, causes>>
        /\ pc = "backoff" /\ pc' = "loop"
    BY <1>8 DEF Wake, proc, past
  <2> QED BY <2>1
<1>9. CASE Signal
  <2>1. /\ UNCHANGED <<pc, held, alert, orphans>> /\ shuttingDown' = TRUE
        /\ Up /\ ~handler
        /\ causes' = IF pc \in {"spawning", "forked"} THEN causes \cup {"raced"} ELSE causes
    BY <1>9 DEF Signal
  <2>2. CASE held /\ Live
    <3>1. handler' = TRUE /\ child' \in {"dead", "stopping"}
      BY <1>9, <2>2 DEF Signal, Terminated
    <3> QED BY <2>1, <2>2, <3>1
  <2>3. CASE ~(held /\ Live)
    <3>1. UNCHANGED <<child, handler>>
      BY <1>9, <2>3 DEF Signal, proc
    <3> QED BY <2>1, <2>3, <3>1
  <2> QED BY <2>2, <2>3
<1>10. CASE HandlerReturns
  BY <1>10 DEF HandlerReturns, loop, proc, past
<1>11. CASE HandlerKills
  BY <1>11 DEF HandlerKills, loop, past
<1>12. CASE SupervisorDies
  <2>1. UNCHANGED <<shuttingDown, held, alert>> /\ pc' = "killed"
        /\ causes' = IF Live THEN causes \cup {"killed"} ELSE causes
    BY <1>12 DEF SupervisorDies, Leave
  <2>2. /\ orphans' \in Nat /\ (~Live => orphans' = orphans)
        /\ child' \in {"none", "dead"} \cup {child} /\ ~Live'
    BY <1>12 DEF SupervisorDies, Leave
  <2> QED BY <2>1, <2>2
<1>13. CASE DeleteAlert
  BY <1>13 DEF DeleteAlert, proc, past
<1> QED BY <1>1, <1>2, <1>3, <1>4, <1>5, <1>6, <1>7, <1>8, <1>9, <1>10, <1>11, <1>12, <1>13
        DEF MainLoop, Handler

LEMMA NextInv == Inv /\ [Next]_vars => Inv'
<1>1. CASE UNCHANGED vars
  BY <1>1 DEF vars, loop, proc, past, Inv, Shape, Attended, Polls, Shut, Steady, Live, Up
<1> QED BY <1>1, ChildInv, SupervisorInv DEF Next

LEMMA Always == Spec => []Inv
  BY InitInv, NextInv, PTL DEF Spec

\* A trading process is left behind only by a signal during a spawn or by the death of
\* the supervisor itself.
THEOREM OrphansExplained == Spec => []OrphansHaveACause
<1>1. Inv => OrphansHaveACause
  BY DEF Inv, Attended, OrphansHaveACause
<1> QED BY <1>1, Always, PTL

\* The alert file keeps every supervisor from spawning until it is deleted.
THEOREM AlertForbidsSpawning == Spec => BreakerHolds
<1>1. Inv /\ [Next]_vars => [alert => child' # "booting" \/ child = "booting"]_vars
  <2> SUFFICES ASSUME Inv, Next, alert PROVE child' # "booting" \/ child = "booting"
    OBVIOUS
  <2>1. pc \in {"off", "done", "killed"}
    BY DEF Inv, Shut, Shape, Steady, Up
  <2>2. CASE Fork
    BY <2>1, <2>2 DEF Fork
  <2>3. CASE MainLoop /\ ~Fork
    BY <2>1, <2>3 DEF MainLoop, Loop, Assign, Poll, InnerLoopEnds, StopCleanly, RecordRestart, Wake
  <2>4. CASE Start
    BY <2>4 DEF Start, Refused
  <2>5. CASE Signal \/ SupervisorDies \/ DeleteAlert \/ Tick
    BY <2>1, <2>5 DEF Up, Signal, SupervisorDies, DeleteAlert, Tick, proc
  <2>6. CASE Handler
    BY <2>6 DEF Handler, HandlerReturns, HandlerKills, proc
  <2>7. CASE Child
    BY <2>7 DEF Child, ChildBoots, ChildCrashes, ChildStops, FeedGivesUp, OperatorStopsChild,
                OrphanEnds, Becomes, Terminated, proc
  <2> QED BY <2>2, <2>3, <2>4, <2>5, <2>6, <2>7 DEF Next
<1> QED BY <1>1, Always, PTL DEF Spec, BreakerHolds

-----------------------------------------------------------------------------
\* Of n spawns, the crash of each is on record and no older than the spawn, or
\* the spawn is out of the window.
Matches(r, s, n) ==
    /\ Len(r) <= n
    /\ \A i \in 1 .. Len(r) : r[i] <= s[n - Len(r) + i]
    /\ \A j \in 1 .. n - Len(r) : s[j] > Window

\* The spawns whose crash is on record: all but that of the child looked after.
Settled == IF pc \in {"forked", "polling", "ended"} THEN Len(spawns) - 1 ELSE Len(spawns)

CrashInv ==
    /\ restarts \in Seq(Nat) /\ spawns \in Seq(Nat) /\ Len(spawns) <= MaxRestarts + 1
    /\ pc \notin {"off", "done", "killed"} => Len(restarts) < MaxRestarts /\ Matches(restarts, spawns, Settled)
    /\ CrashLoopBounded

LEMMA AgesGrow ==
    ASSUME NEW a \in Nat
    PROVE  /\ Older(a) \in Nat
           /\ a > Window => Older(a) > Window
           /\ \A b \in Nat : a <= b => Older(a) <= Older(b)
<1>1. Window \in Nat
  BY SupervisorAssumption
<1>2. \A x, y \in Nat : Min({x, y}) = IF x <= y THEN x ELSE y
  <2> SUFFICES ASSUME NEW x \in Nat, NEW y \in Nat PROVE Min({x, y}) = IF x <= y THEN x ELSE y
    OBVIOUS
  <2> DEFINE m == Min({x, y})
  <2>1. m \in {x, y} /\ m <= x /\ m <= y
    BY LeastOfTwo
  <2> HIDE DEF m
  <2> QED BY <2>1 DEF m
<1>3. \A x \in Nat : Older(x) = IF x + 1 <= Window + 1 THEN x + 1 ELSE Window + 1
  <2> TAKE x \in Nat
  <2>1. x + 1 \in Nat /\ Window + 1 \in Nat
    BY <1>1
  <2> QED BY <1>2, <2>1 DEF Older
<1>4. \A x \in Nat : Older(x) \in Nat /\ (x > Window => Older(x) > Window)
  BY <1>1, <1>3
<1>5. \A b \in Nat : a <= b => Older(a) <= Older(b)
  BY <1>1, <1>3
<1> QED BY <1>4, <1>5

\* Time passes for both alike.
LEMMA MatchesLater ==
    ASSUME NEW r \in Seq(Nat), NEW s \in Seq(Nat), NEW n \in Nat, n <= Len(s), Matches(r, s, n),
           NEW r1, r1 = [i \in DOMAIN r |-> Older(r[i])],
           NEW s1, s1 = [i \in DOMAIN s |-> Older(s[i])]
    PROVE  r1 \in Seq(Nat) /\ s1 \in Seq(Nat) /\ Len(s1) = Len(s) /\ Len(r1) = Len(r) /\ Matches(r1, s1, n)
<1>1. /\ Len(r) \in Nat /\ Len(s) \in Nat /\ Window \in Nat /\ Len(r) <= n
      /\ DOMAIN r = 1 .. Len(r) /\ DOMAIN s = 1 .. Len(s)
  BY SupervisorAssumption DEF Matches
<1>2. /\ \A i \in 1 .. Len(r) : r[i] \in Nat /\ r1[i] = Older(r[i]) /\ r1[i] \in Nat
      /\ \A i \in 1 .. Len(s) : s[i] \in Nat /\ s1[i] = Older(s[i]) /\ s1[i] \in Nat
  <2>1. ASSUME NEW q \in Seq(Nat), NEW q1, q1 = [i \in DOMAIN q |-> Older(q[i])]
        PROVE  \A i \in 1 .. Len(q) : q[i] \in Nat /\ q1[i] = Older(q[i]) /\ q1[i] \in Nat
    <3> TAKE i \in 1 .. Len(q)
    <3>1. q[i] \in Nat /\ i \in DOMAIN q
      OBVIOUS
    <3>2. q1[i] = Older(q[i])
      BY <2>1, <3>1
    <3>3. Older(q[i]) \in Nat
      BY <3>1, AgesGrow, Zenon
    <3> QED BY <3>1, <3>2, <3>3
  <2> QED BY <2>1
<1>3. r1 \in Seq(Nat) /\ s1 \in Seq(Nat) /\ Len(r1) = Len(r) /\ Len(s1) = Len(s)
  <2>1. r1 = [i \in 1 .. Len(r) |-> Older(r[i])] /\ s1 = [i \in 1 .. Len(s) |-> Older(s[i])]
    BY <1>1
  <2>2. \A i \in 1 .. Len(r) : Older(r[i]) \in Nat
    BY <1>2
  <2>3. \A i \in 1 .. Len(s) : Older(s[i]) \in Nat
    BY <1>2
  <2> QED BY <1>1, <2>1, <2>2, <2>3
<1>4. ASSUME NEW i \in 1 .. Len(r) PROVE r1[i] <= s1[n - Len(r) + i]
  <2> DEFINE j == n - Len(r) + i
  <2>1. j \in 1 .. Len(s) /\ r[i] <= s[j]
    BY <1>1 DEF Matches
  <2> HIDE DEF j
  <2>2. Older(r[i]) <= Older(s[j])
    <3> DEFINE a == r[i]  b == s[j]
    <3>1. a \in Nat /\ b \in Nat /\ a <= b
      BY <1>2, <2>1
    <3> HIDE DEF a, b
    <3>2. Older(a) <= Older(b)
      BY <3>1, AgesGrow, Zenon
    <3> QED BY <3>2 DEF a, b
  <2> QED BY <1>2, <2>1, <2>2 DEF j
<1>5. ASSUME NEW j \in 1 .. n - Len(r) PROVE s1[j] > Window
  <2>1. j \in 1 .. Len(s) /\ s[j] > Window
    BY <1>1 DEF Matches
  <2> DEFINE b == s[j]
  <2>2. b \in Nat /\ b > Window /\ s1[j] = Older(b)
    BY <1>2, <2>1
  <2> HIDE DEF b
  <2>3. Older(b) > Window
    BY <2>2, AgesGrow, Zenon
  <2> QED BY <2>2, <2>3
<1> QED BY <1>1, <1>3, <1>4, <1>5 DEF Matches

LEMMA Grown ==
    ASSUME NEW q \in Seq(Nat)
    PROVE  /\ Append(q, 0) \in Seq(Nat) /\ Len(Append(q, 0)) = Len(q) + 1
           /\ \A j \in 1 .. Len(q) : Append(q, 0)[j] = q[j]
OBVIOUS

\* A spawn: the oldest of those kept is out of the window.
LEMMA SpawnMatches ==
    ASSUME NEW r \in Seq(Nat), NEW s \in Seq(Nat), Len(s) <= MaxRestarts + 1, Len(r) < MaxRestarts,
           Matches(r, s, Len(s)),
           NEW s1, s1 = Append(IF Len(s) > MaxRestarts THEN Tail(s) ELSE s, 0)
    PROVE  s1 \in Seq(Nat) /\ Len(s1) <= MaxRestarts + 1 /\ Len(s1) # 0 /\ Matches(r, s1, Len(s1) - 1)
<1> DEFINE k == Len(r)  n == Len(s)
<1>1. k \in Nat /\ n \in Nat /\ MaxRestarts \in Nat \ {0} /\ k <= n /\ k < MaxRestarts /\ n <= MaxRestarts + 1
  BY SupervisorAssumption DEF Matches
<1>2. /\ \A i \in 1 .. k : r[i] <= s[n - k + i]
      /\ \A j \in 1 .. n - k : s[j] > Window
  BY DEF Matches
<1>3. CASE n > MaxRestarts
  <2>1. s # <<>>
    BY <1>1, <1>3
  <2>2. /\ Tail(s) \in Seq(Nat) /\ Len(Tail(s)) = n - 1
        /\ \A j \in 1 .. n - 1 : Tail(s)[j] = s[j + 1]
    BY <2>1, HeadTailProperties
  <2> DEFINE t == Tail(s)
  <2>3. s1 = Append(t, 0)
    BY <1>3
  <2> HIDE DEF t
  <2>0. /\ t \in Seq(Nat) /\ Len(t) = n - 1
        /\ \A j \in 1 .. n - 1 : t[j] = s[j + 1]
    BY <2>2 DEF t
  <2>4. /\ s1 \in Seq(Nat) /\ Len(s1) = Len(t) + 1
        /\ \A j \in 1 .. Len(t) : s1[j] = t[j]
    BY <2>0, <2>3, Grown
  <2>5. Len(s1) = n /\ \A j \in 1 .. n - 1 : s1[j] = s[j + 1]
    <3> HIDE DEF n
    <3> QED BY <1>1, <2>0, <2>4
  <2>6. ASSUME NEW i \in 1 .. k PROVE r[i] <= s1[n - 1 - k + i]
    <3> HIDE DEF k, n
    <3>1. n - 1 - k + i \in 1 .. n - 1 /\ (n - 1 - k + i) + 1 = n - k + i
      BY <1>1, <1>3
    <3> QED BY <1>2, <2>5, <3>1
  <2>7. ASSUME NEW j \in 1 .. n - 1 - k PROVE s1[j] > Window
    <3> HIDE DEF k, n
    <3>1. j \in 1 .. n - 1 /\ j + 1 \in 1 .. n - k
      BY <1>1
    <3> QED BY <1>2, <2>5, <3>1
  <2>8. k <= n - 1 /\ n # 0
    <3> HIDE DEF k, n
    <3> QED BY <1>1, <1>3
  <2> QED BY <1>1, <2>4, <2>5, <2>6, <2>7, <2>8 DEF Matches
<1>4. CASE ~(n > MaxRestarts)
  <2>1. s1 = Append(s, 0)
    BY <1>4
  <2>2. /\ s1 \in Seq(Nat) /\ Len(s1) = n + 1
        /\ \A j \in 1 .. n : s1[j] = s[j]
    BY <2>1, Grown
  <2>3. ASSUME NEW i \in 1 .. k PROVE r[i] <= s1[n - k + i]
    <3> HIDE DEF k, n
    <3>1. n - k + i \in 1 .. n
      BY <1>1
    <3> QED BY <1>2, <2>2, <3>1
  <2>4. ASSUME NEW j \in 1 .. n - k PROVE s1[j] > Window
    <3> HIDE DEF k, n
    <3>1. j \in 1 .. n
      BY <1>1
    <3> QED BY <1>2, <2>2, <3>1
  <2>5. Len(s1) - 1 = n /\ Len(s1) <= MaxRestarts + 1 /\ Len(s1) # 0
    <3> HIDE DEF n
    <3> QED BY <1>1, <1>4, <2>2
  <2> QED BY <1>1, <2>2, <2>3, <2>4, <2>5 DEF Matches
<1> QED BY <1>3, <1>4

\* The entries of a list of ages are numbers.
LEMMA AgesAreNumbers == ASSUME NEW ages \in Seq(Nat) PROVE \A i \in 1 .. Len(ages) : ages[i] \in Nat
  OBVIOUS

\* A crash: what is dropped from the record is out of the window, and so is its
\* spawn.
LEMMA DroppedMatches ==
    ASSUME NEW r \in Seq(Nat), NEW s \in Seq(Nat), Matches(r, s, Len(s) - 1),
           NEW all \in Seq(Nat), Len(all) = Len(r) + 1, all[Len(r) + 1] = 0,
           \A i \in 1 .. Len(r) : all[i] = r[i],
           NEW m \in 1 .. Len(r) + 1, \A i \in 1 .. m - 1 : all[i] > Window,
           NEW r1 \in Seq(Nat), Len(r1) = Len(r) + 2 - m,
           \A i \in 1 .. Len(r) + 2 - m : r1[i] = all[m + i - 1]
    PROVE  Matches(r1, s, Len(s))
<1> DEFINE k == Len(r)  n == Len(s)
<1>1. k \in Nat /\ n \in Nat /\ Window \in Nat /\ k <= n - 1 /\ m \in 1 .. k + 1
  <2>1. k \in Nat /\ n \in Nat /\ m \in 1 .. k + 1
    OBVIOUS
  <2>2. k <= n - 1
    BY DEF Matches
  <2> QED BY <2>1, <2>2, SupervisorAssumption
<1>2. /\ \A i \in 1 .. k : r[i] <= s[n - 1 - k + i]
      /\ \A j \in 1 .. n - 1 - k : s[j] > Window
  BY DEF Matches
<1>3. \A j \in 1 .. n : s[j] \in Nat
  BY AgesAreNumbers
<1>4. \A i \in 1 .. k + 1 : all[i] \in Nat
  BY AgesAreNumbers
<1>5. /\ all[k + 1] = 0 /\ \A i \in 1 .. k : all[i] = r[i]
      /\ \A i \in 1 .. m - 1 : all[i] > Window
      /\ Len(r1) = k + 2 - m /\ \A i \in 1 .. k + 2 - m : r1[i] = all[m + i - 1]
  OBVIOUS
<1> HIDE DEF k, n
<1>6. ASSUME NEW i \in 1 .. k + 1 PROVE all[i] <= s[n - 1 - k + i]
  <2>1. CASE i \in 1 .. k
    BY <1>2, <1>5, <2>1
  <2>2. CASE i = k + 1
    <3>1. n - 1 - k + i = n /\ n \in 1 .. n
      BY <1>1, <2>2
    <3>2. s[n] \in Nat /\ all[i] = 0 /\ s[n - 1 - k + i] = s[n]
      BY <1>3, <1>5, <2>2, <3>1
    <3> QED BY <3>2
  <2> QED BY <1>1, <2>1, <2>2
<1>7. ASSUME NEW i \in 1 .. k + 2 - m PROVE r1[i] <= s[n - (k + 2 - m) + i]
  <2>1. m + i - 1 \in 1 .. k + 1 /\ n - 1 - k + (m + i - 1) = n - (k + 2 - m) + i
    BY <1>1
  <2> QED BY <1>5, <1>6, <2>1
<1>8. ASSUME NEW j \in 1 .. n - (k + 2 - m) PROVE s[j] > Window
  <2>1. CASE j \in 1 .. n - 1 - k
    BY <1>2, <2>1
  <2>2. CASE j \notin 1 .. n - 1 - k
    <3> DEFINE i == j - (n - 1 - k)
    <3>1. i \in 1 .. m - 1 /\ i \in 1 .. k + 1 /\ n - 1 - k + i = j /\ j \in 1 .. n
      BY <1>1, <2>2
    <3> HIDE DEF i
    <3>2. all[i] > Window /\ all[i] <= s[j] /\ all[i] \in Nat /\ s[j] \in Nat
      BY <1>3, <1>4, <1>5, <1>6, <3>1
    <3> DEFINE a == all[i]  b == s[j]
    <3>3. a > Window /\ a <= b /\ a \in Nat /\ b \in Nat /\ Window \in Nat
      BY <1>1, <3>2
    <3> HIDE DEF a, b
    <3>4. b > Window
      BY <3>3
    <3> QED BY <3>4 DEF b
  <2> QED BY <2>1, <2>2
<1>9. Len(r1) <= n
  BY <1>1, <1>5
<1> QED BY <1>5, <1>7, <1>8, <1>9 DEF Matches, n

\* The record from its first age within the window on.
LEMMA YoungestStay ==
    ASSUME NEW all \in Seq(Nat), Len(all) # 0, all[Len(all)] = 0, NEW m,
           m = Min({i \in DOMAIN all : all[i] <= Window})
    PROVE  /\ m \in 1 .. Len(all)
           /\ \A i \in 1 .. m - 1 : all[i] > Window
<1> DEFINE young == {i \in DOMAIN all : all[i] <= Window}
<1>1. Len(all) \in Nat \ {0} /\ DOMAIN all = 1 .. Len(all) /\ Window \in Nat
  BY SupervisorAssumption
<1>2. young \subseteq Nat /\ Len(all) \in young
  BY <1>1
<1>3. m = Min(young)
  OBVIOUS
<1>4. \A i \in 1 .. Len(all) : i \in young <=> all[i] <= Window
  BY <1>1
<1>5. young \subseteq 1 .. Len(all)
  BY <1>1
<1> HIDE DEF young
<1>6. m \in young /\ \A x \in young : m <= x
  BY <1>2, <1>3, MinIsIn
<1>7. m \in 1 .. Len(all)
  BY <1>5, <1>6
<1>8. ASSUME NEW i \in 1 .. m - 1 PROVE all[i] > Window
  <2>1. i \in 1 .. Len(all) /\ ~(m <= i)
    BY <1>1, <1>7
  <2>2. all[i] \in Nat /\ ~(all[i] <= Window)
    BY <1>4, <1>6, <2>1
  <2> QED BY <1>1, <2>2
<1> QED BY <1>7, <1>8

LEMMA RecordMatches ==
    ASSUME CrashInv, Matches(restarts, spawns, Len(spawns) - 1)
    PROVE  Recorded \in Seq(Nat) /\ Matches(Recorded, spawns, Len(spawns))
<1> DEFINE all == Append(restarts, 0)  m == Min({i \in DOMAIN all : all[i] <= Window})  l == Len(all)
<1>1. restarts \in Seq(Nat) /\ spawns \in Seq(Nat) /\ Len(restarts) \in Nat
  BY DEF CrashInv
<1>2. /\ all \in Seq(Nat) /\ l = Len(restarts) + 1 /\ all[Len(restarts) + 1] = 0
      /\ \A i \in 1 .. Len(restarts) : all[i] = restarts[i]
  BY <1>1
<1>3. Recorded = SubSeq(all, m, l)
  BY DEF Recorded
<1> HIDE DEF all
<1>4. m \in 1 .. l /\ \A i \in 1 .. m - 1 : all[i] > Window
  <2>1. Len(all) # 0 /\ all[Len(all)] = 0
    BY <1>1, <1>2
  <2> QED BY <1>2, <2>1, YoungestStay
<1> HIDE DEF m
<1>5. /\ \A i \in m .. l : all[i] \in Nat
      /\ m \in Int /\ l \in Int /\ m <= l
  <2>1. l \in Nat /\ \A i \in 1 .. l : all[i] \in Nat
    BY <1>2
  <2> HIDE DEF l
  <2> QED BY <1>4, <2>1
<1> HIDE DEF l
<1>6. /\ Recorded \in Seq(Nat) /\ Len(Recorded) = l - m + 1
      /\ \A i \in 1 .. l - m + 1 : Recorded[i] = all[m + i - 1]
  BY <1>3, <1>5, SubSeqProperties
<1>7. l - m + 1 = Len(restarts) + 2 - m /\ l = Len(restarts) + 1
  BY <1>1, <1>2, <1>5
<1>8. /\ Len(all) = Len(restarts) + 1 /\ m \in 1 .. Len(restarts) + 1
      /\ Len(Recorded) = Len(restarts) + 2 - m
      /\ \A i \in 1 .. Len(restarts) + 2 - m : Recorded[i] = all[m + i - 1]
  <2>1. l = Len(all)
    BY DEF l
  <2> QED BY <1>4, <1>6, <1>7, <2>1
<1> QED BY <1>1, <1>2, <1>4, <1>6, <1>8, DroppedMatches

\* As the breaker is shut, the first of max_restarts + 1 spawns is past its window.
LEMMA MatchesBound ==
    ASSUME NEW r \in Seq(Nat), NEW s \in Seq(Nat), NEW n \in {Len(s), Len(s) - 1}, Matches(r, s, n),
           Len(r) < MaxRestarts, Len(s) > MaxRestarts
    PROVE  s[1] > Window
<1>1. Len(r) \in Nat /\ Len(s) \in Nat /\ MaxRestarts \in Nat
  BY SupervisorAssumption
<1>2. 1 \in 1 .. n - Len(r)
  BY <1>1
<1> QED BY <1>2 DEF Matches

LEMMA CrashInvNext == CrashInv /\ [Next]_vars => CrashInv'
<1> SUFFICES ASSUME CrashInv, [Next]_vars PROVE CrashInv'
  OBVIOUS
<1> USE SupervisorAssumption
<1>1. restarts \in Seq(Nat) /\ spawns \in Seq(Nat) /\ Len(spawns) <= MaxRestarts + 1 /\ Len(spawns) \in Nat
  BY DEF CrashInv
\* Steps that spawn nothing and record nothing.
<1>2. ASSUME UNCHANGED <<restarts, spawns>>, pc' \in {"done", "killed"} \/ (pc \notin {"off", "done", "killed"} /\ Settled' = Settled)
             \/ pc' = pc
      PROVE  CrashInv'
  BY <1>2 DEF CrashInv, Settled, CrashLoopBounded
<1>3. CASE Start
  BY <1>3 DEF Start, CrashInv, Matches, Settled, CrashLoopBounded
<1>4. CASE Fork
  <2>1. /\ pc = "spawning" /\ pc' = "forked" /\ restarts' = restarts
        /\ spawns' = Append(IF Len(spawns) > MaxRestarts THEN Tail(spawns) ELSE spawns, 0)
    BY <1>4 DEF Fork
  <2>2. Len(restarts) < MaxRestarts /\ Matches(restarts, spawns, Len(spawns))
    BY <2>1 DEF CrashInv, Settled
  <2>3. /\ spawns' \in Seq(Nat) /\ Len(spawns') <= MaxRestarts + 1 /\ Matches(restarts, spawns', Len(spawns') - 1)
    BY <1>1, <2>1, <2>2, SpawnMatches
  <2>4. Len(spawns') > MaxRestarts => spawns'[1] > Window
    BY <1>1, <2>2, <2>3, MatchesBound
  <2> QED BY <1>1, <2>1, <2>2, <2>3, <2>4 DEF CrashInv, Settled, CrashLoopBounded
<1>5. CASE RecordRestart
  <2>1. /\ pc = "ended" /\ restarts' = Recorded /\ spawns' = spawns
        /\ pc' = "done" \/ (pc' = "backoff" /\ ~Tripped(Recorded))
    BY <1>5 DEF RecordRestart, past
  <2>2. Matches(restarts, spawns, Len(spawns) - 1)
    BY <2>1 DEF CrashInv, Settled
  <2>3. restarts' \in Seq(Nat) /\ Matches(restarts', spawns, Len(spawns))
    BY <2>1, <2>2, RecordMatches
  <2>4. pc' = "backoff" => Len(restarts') < MaxRestarts
    BY <2>1, <2>3 DEF Tripped
  <2> QED BY <1>1, <2>1, <2>3, <2>4 DEF CrashInv, Settled, CrashLoopBounded
<1>6. CASE Tick
  <2>1. /\ pc' = pc /\ restarts' = [i \in DOMAIN restarts |-> Older(restarts[i])]
        /\ spawns' = [i \in DOMAIN spawns |-> Older(spawns[i])]
    BY <1>6 DEF Tick
  <2>2. ASSUME NEW q \in Seq(Nat) PROVE Matches(<<>>, q, 0)
    BY DEF Matches
  <2>3. /\ spawns' \in Seq(Nat) /\ Len(spawns') = Len(spawns)
        /\ restarts' \in Seq(Nat) /\ Len(restarts') = Len(restarts)
    <3>1. DOMAIN restarts = 1 .. Len(restarts) /\ DOMAIN spawns = 1 .. Len(spawns) /\ Len(restarts) \in Nat
      BY <1>1
    <3>2. ASSUME NEW q \in Seq(Nat) PROVE \A i \in 1 .. Len(q) : Older(q[i]) \in Nat
      <4> TAKE i \in 1 .. Len(q)
      <4>1. q[i] \in Nat
        OBVIOUS
      <4> QED BY <4>1, AgesGrow, Zenon
    <3>3. /\ \A i \in 1 .. Len(restarts) : Older(restarts[i]) \in Nat
          /\ \A i \in 1 .. Len(spawns) : Older(spawns[i]) \in Nat
      BY <1>1, <3>2
    <3> QED BY <1>1, <2>1, <3>1, <3>2, <3>3
  <2>4. ASSUME pc \notin {"off", "done", "killed"} PROVE Matches(restarts', spawns', Settled)
    <3>1. Settled \in Nat /\ Settled <= Len(spawns) /\ Matches(restarts, spawns, Settled)
      <4>1. Matches(restarts, spawns, Settled)
        BY <2>4 DEF CrashInv
      <4>2. Len(restarts) \in Nat /\ Len(restarts) <= Settled
        BY <1>1, <4>1 DEF Matches
      <4> QED BY <1>1, <4>1, <4>2 DEF Settled
    <3> QED BY <1>1, <2>1, <3>1, MatchesLater
  <2>5. Len(spawns) > MaxRestarts => spawns'[1] > Window
    <3> SUFFICES ASSUME Len(spawns) > MaxRestarts PROVE spawns'[1] > Window
      OBVIOUS
    <3> DEFINE a == spawns[1]
    <3>1. a > Window /\ 1 \in 1 .. Len(spawns)
      BY <1>1 DEF CrashInv, CrashLoopBounded
    <3>2. a \in Nat /\ spawns'[1] = Older(a)
      BY <1>1, <2>1, <3>1
    <3> HIDE DEF a
    <3>3. Older(a) > Window
      BY <3>1, <3>2, AgesGrow, Zenon
    <3> QED BY <3>2, <3>3
  <2>6. Settled' = Settled
    BY <2>1, <2>3 DEF Settled
  <2> QED BY <1>1, <2>1, <2>3, <2>4, <2>5, <2>6 DEF CrashInv, CrashLoopBounded
<1>7. CASE Loop \/ Assign \/ Poll \/ Wake
  BY <1>2, <1>7 DEF Loop, Assign, Poll, Wake, past, Settled
<1>8. CASE StopCleanly \/ SupervisorDies
  BY <1>2, <1>8 DEF StopCleanly, SupervisorDies, Leave, past
<1>9. CASE Signal \/ Handler \/ DeleteAlert
  BY <1>2, <1>9 DEF Signal, Handler, HandlerReturns, HandlerKills, DeleteAlert, loop, past
<1>10. CASE Child
  BY <1>2, <1>10 DEF Child, ChildBoots, ChildCrashes, ChildStops, FeedGivesUp, OperatorStopsChild,
                     OrphanEnds, Becomes, loop, past
<1>11. CASE UNCHANGED vars
  BY <1>2, <1>11 DEF vars, loop, past
<1> QED BY <1>3, <1>4, <1>5, <1>6, <1>7, <1>8, <1>9, <1>10, <1>11 DEF Next, MainLoop

\* No restart_window ever sees max_restarts + 1 spawns of one supervisor, whatever
\* the backoff: the record the breaker reads keeps a crash for as long as its
\* spawn is in the window.
THEOREM CrashesAreBounded == Spec => []CrashLoopBounded
<1>1. Init => CrashInv
  BY SupervisorAssumption DEF Init, CrashInv, CrashLoopBounded
<1>2. CrashInv => CrashLoopBounded
  BY DEF CrashInv
<1> QED BY <1>1, <1>2, CrashInvNext, PTL DEF Spec
=============================================================================
