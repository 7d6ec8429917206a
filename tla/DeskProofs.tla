---------------------------- MODULE DeskProofs -----------------------------
(***************************************************************************)
(* Theorems of seven modules of the trading process: what a ban stops        *)
(* (ExchangeCalls), that a live start comes after the weeks on the testnet *)
(* and a checkpoint that failed is refused (PromotionGates), that the      *)
(* local book is the exchange's (DepthFeed), that every sleeve hears every *)
(* message (TradeDesk), how old a toxicity reading may be                  *)
(* (OrderComposition), that roles are held and capital stays within the    *)
(* pool (CapitalAllocation), and what a poll of the command directory has  *)
(* taken when it returns (CommandChannel).                                 *)
(***************************************************************************)
EXTENDS ExchangeCalls, PromotionGates, DepthFeed, TradeDesk, OrderComposition, CapitalAllocation,
        CommandChannel, Extremes, FiniteSetTheorems, TLAPS

-----------------------------------------------------------------------------
\* What an adapter remembers.
Tracker == [connected : BOOLEAN, heartbeat : Int, bannedUntil : Int]

\* The step that lets an order's 418 be noted registers the ban, and only a new
\* process forgets either: the two always agree.
Noted ==
    /\ now \in Nat /\ told \in Int
    /\ adapter \in [Hosts -> Tracker]
    /\ call \in [Users -> Calls \union {"idle"}]
    /\ told # Never => adapter["trading"].bannedUntil = told + BanFloor

LEMMA NotedInit == CallsInit => Noted
BY DEF CallsInit, Noted, Tracker, NewAdapter, Users, Hosts, Never

LEMMA NotedNext == Noted /\ [CallsNext]_callVars => Noted'
<1> SUFFICES ASSUME Noted, [CallsNext]_callVars PROVE Noted'
  OBVIOUS
<1> USE CallsAssumption DEF Noted, Users, Hosts, Tracker
<1>1. ASSUME NEW u \in Users, Begin(u) PROVE Noted'
  BY <1>1 DEF Begin, FirstCall, Ask, Reads, Calls
<1>2. ASSUME NEW u \in Users, Connected(u) PROVE Noted'
  <2>1. HostOf(u) \in Hosts
    BY DEF HostOf
  <2>2. call' \in [Users -> Calls \union {"idle"}]
    BY <1>2 DEF Connected, Ends, Ask, Reads, Calls
  <2>3. adapter' \in {[adapter EXCEPT ![HostOf(u)].connected = TRUE, ![HostOf(u)].heartbeat = now],
                      [adapter EXCEPT ![HostOf(u)].connected = FALSE]}
    BY <1>2 DEF Connected
  <2>4. adapter' \in [Hosts -> Tracker]
    <3>1. CASE adapter' = [adapter EXCEPT ![HostOf(u)].connected = TRUE, ![HostOf(u)].heartbeat = now]
      <4>1. adapter' = [h \in Hosts |-> IF h = HostOf(u)
                          THEN [adapter[h] EXCEPT !.connected = TRUE, !.heartbeat = now] ELSE adapter[h]]
        BY <3>1, <2>1
      <4>2. ASSUME NEW r \in Tracker
            PROVE  [r EXCEPT !.connected = TRUE, !.heartbeat = now] \in Tracker
        <5>1. \A s \in Tracker : [s EXCEPT !.connected = TRUE] \in Tracker
          OBVIOUS
        <5>2. \A s \in Tracker : [s EXCEPT !.heartbeat = now] \in Tracker
          OBVIOUS
        <5> QED BY <5>1, <5>2
      <4>3. \A h \in Hosts : adapter[h] \in Tracker
        OBVIOUS
      <4> HIDE DEF Tracker
      <4>4. \A h \in Hosts : adapter'[h] \in Tracker
        <5> TAKE h \in Hosts
        <5>1. CASE h = HostOf(u)
          <6>1. adapter'[h] = [adapter[h] EXCEPT !.connected = TRUE, !.heartbeat = now]
            BY <4>1, <5>1
          <6>2. adapter[h] \in Tracker
            BY <4>3
          <6> QED BY <6>1, <6>2, <4>2
        <5>2. CASE h # HostOf(u)
          BY <4>1, <4>3, <5>2
        <5> QED BY <5>1, <5>2
      <4> QED BY <4>1, <4>4
    <3>2. CASE adapter' = [adapter EXCEPT ![HostOf(u)].connected = FALSE]
      BY <3>2, <2>1
    <3> QED BY <2>3, <3>1, <3>2
  <2>5. adapter'["trading"].bannedUntil = adapter["trading"].bannedUntil
    BY <2>1, <2>3
  <2> QED BY <1>2, <2>2, <2>4, <2>5 DEF Connected
<1>3. ASSUME NEW u \in Users, BalanceRead(u) PROVE Noted'
  <2>1. HostOf(u) \in Hosts
    BY DEF HostOf
  <2>2. call' \in [Users -> Calls \union {"idle"}]
    BY <1>3 DEF BalanceRead, Ends, Ask, Calls
  <2>3. /\ adapter' \in [Hosts -> Tracker]
        /\ adapter'["trading"].bannedUntil = adapter["trading"].bannedUntil
    BY <1>3, <2>1 DEF BalanceRead, Heard
  <2> QED BY <1>3, <2>2, <2>3 DEF BalanceRead
<1>4. CASE OrderBegins
  BY <1>4 DEF OrderBegins, Ask, Calls
<1>5. CASE TickerRead
  <2>1. call' \in [Users -> Calls \union {"idle"}]
    BY <1>5 DEF TickerRead, Calls
  <2>2. /\ adapter' \in [Hosts -> Tracker]
        /\ adapter'["trading"].bannedUntil = adapter["trading"].bannedUntil
    BY <1>5 DEF TickerRead, Heard
  <2> QED BY <1>5, <2>1, <2>2 DEF TickerRead
<1>6. CASE OrderAnswered
  <2>1. call' \in [Users -> Calls \union {"idle"}]
    BY <1>6 DEF OrderAnswered, Ends
  <2>2. CASE adapter' = Heard("trading") /\ UNCHANGED told
    BY <1>6, <2>1, <2>2 DEF OrderAnswered, Heard
  <2>3. CASE UNCHANGED <<adapter, told>>
    BY <1>6, <2>1, <2>3 DEF OrderAnswered
  <2>4. CASE adapter' = RegisterBan /\ told' = now
    BY <1>6, <2>1, <2>4 DEF OrderAnswered, RegisterBan
  <2> QED BY <1>6, <2>2, <2>3, <2>4 DEF OrderAnswered
<1>7. CASE NewProcess
  BY <1>7 DEF NewProcess, NewAdapter, Never
<1>8. CASE ExchangeBans \/ ExchangeForgives
  BY <1>8 DEF ExchangeBans, ExchangeForgives
<1>9. CASE CallTick
  BY <1>9 DEF CallTick
<1>10. CASE UNCHANGED callVars
  BY <1>10 DEF callVars
<1> QED BY <1>1, <1>2, <1>3, <1>4, <1>5, <1>6, <1>7, <1>8, <1>9, <1>10 DEF CallsNext

\* No order is under way while a ban is noted: it began after the floor.
WithinBan  == told # Never /\ now < told + BanFloor
NoOrder    == WithinBan => call["order"] = "idle"

\* What a user asks for under a noted ban is not called.
LEMMA AskRefuses ==
    ASSUME Noted, WithinBan, NEW u \in {"reconcile", "order"}, NEW v \in Users,
           NEW c, Ask(v, c) \/ Ends(v)
    PROVE  call'[u] = call[u] \/ call'[u] = "idle"
BY DEF Noted, WithinBan, Ask, Ends, Banned, HostOf, Users

\* Only time and an order's answer change whether a ban is noted.
LEMMA NoOrderNext == Noted /\ NoOrder /\ [CallsNext]_callVars => NoOrder'
<1> SUFFICES ASSUME Noted, NoOrder, [CallsNext]_callVars, WithinBan' PROVE call'["order"] = "idle"
  BY DEF NoOrder
<1> USE CallsAssumption DEF NoOrder, WithinBan
<1>1. ASSUME NEW v \in Users, Begin(v) PROVE call'["order"] = "idle"
  BY <1>1 DEF Begin, FirstCall, Ask, Noted, Users
<1>2. ASSUME NEW v \in Users, Connected(v) PROVE call'["order"] = "idle"
  <2>1. \E c : Ask(v, c) \/ Ends(v)
    BY <1>2 DEF Connected
  <2> QED BY <1>2, <2>1, AskRefuses DEF Connected
<1>3. ASSUME NEW v \in Users, BalanceRead(v) PROVE call'["order"] = "idle"
  <2>1. \E c : Ask(v, c) \/ Ends(v)
    BY <1>3 DEF BalanceRead
  <2> QED BY <1>3, <2>1, AskRefuses DEF BalanceRead
<1>4. CASE OrderBegins
  BY <1>4, AskRefuses DEF OrderBegins, Users
<1>5. CASE TickerRead
  BY <1>5 DEF TickerRead
<1>6. CASE OrderAnswered
  BY <1>6 DEF OrderAnswered, Ends, Noted, Users
<1>7. CASE NewProcess
  BY <1>7 DEF NewProcess, Users
<1>8. CASE ExchangeBans \/ ExchangeForgives
  BY <1>8 DEF ExchangeBans, ExchangeForgives
<1>9. CASE CallTick
  BY <1>9 DEF CallTick, Noted
<1>10. CASE UNCHANGED callVars
  BY <1>10 DEF callVars
<1> QED BY <1>1, <1>2, <1>3, <1>4, <1>5, <1>6, <1>7, <1>8, <1>9, <1>10 DEF CallsNext

\* While a ban is noted nothing is called, a connection apart.
LEMMA OnlyConnects ==
    ASSUME Noted, NoOrder, WithinBan, CallsNext, NEW u \in {"reconcile", "order"}, Makes(u)
    PROVE  call'[u] = "connect"
<1> USE CallsAssumption DEF Makes
<1>1. ASSUME NEW v \in Users, Begin(v) PROVE call'[u] = "connect"
  <2>1. CASE Alive(HostOf(v))
    <3>1. Ask(v, Reads(v)[1])
      BY <1>1, <2>1 DEF Begin, FirstCall
    <3> QED BY <3>1, AskRefuses
  <2>2. CASE call' = [call EXCEPT ![v] = "connect"]
    BY <2>2 DEF Noted, Users
  <2> QED BY <1>1, <2>1, <2>2 DEF Begin, FirstCall
<1>2. ASSUME NEW v \in Users, Connected(v) PROVE FALSE
  <2>1. \E c : Ask(v, c) \/ Ends(v)
    BY <1>2 DEF Connected
  <2> QED BY <2>1, AskRefuses
<1>3. ASSUME NEW v \in Users, BalanceRead(v) PROVE FALSE
  <2>1. \E c : Ask(v, c) \/ Ends(v)
    BY <1>3 DEF BalanceRead
  <2> QED BY <2>1, AskRefuses
<1>4. CASE OrderBegins
  BY <1>4, AskRefuses DEF OrderBegins, Users
<1>5. CASE TickerRead \/ OrderAnswered
  BY <1>5 DEF TickerRead, OrderAnswered, NoOrder
<1>6. CASE NewProcess
  BY <1>6 DEF NewProcess, Users
<1>7. CASE ExchangeBans \/ ExchangeForgives \/ CallTick
  BY <1>7 DEF ExchangeBans, ExchangeForgives, CallTick
<1> QED BY <1>1, <1>2, <1>3, <1>4, <1>5, <1>6, <1>7 DEF CallsNext

\* For every floor and heartbeat, after an order's 418 nothing but a connection
\* is called until the floor is over (BanStopsCalls).
THEOREM BansAreKept == CallsSpec => BanStopsCalls
<1>1. CallsInit => NoOrder
  BY DEF CallsInit, NoOrder, WithinBan
<1>2. Noted /\ NoOrder /\ [CallsNext]_callVars =>
        [\A u \in {"reconcile", "order"} :
            Makes(u) /\ told # Never /\ now < told + BanFloor => call'[u] = "connect"]_callVars
  BY OnlyConnects DEF WithinBan
<1> QED BY <1>1, <1>2, NotedInit, NotedNext, NoOrderNext, PTL DEF CallsSpec, BanStopsCalls
-----------------------------------------------------------------------------
\* The date in the file is no earlier than the first testnet start, and both are
\* in the past; a server that runs is a record, whatever was swapped into it.
Since ==
    /\ week \in Nat /\ testnetSince \in Nat \union {Nothing, Torn}
    /\ firstTestnet # Nothing => firstTestnet \in Nat /\ firstTestnet <= week
    /\ testnetSince # Nothing => firstTestnet # Nothing
    /\ testnetSince \in Nat  => firstTestnet <= testnetSince /\ testnetSince <= week
    /\ trader # Nothing =>
          \E chosen, model, via, acknowledged, skipped :
             trader = [mode |-> chosen, model |-> model, via |-> via,
                       acknowledged |-> acknowledged, skipped |-> skipped]

SinceInv == Since /\ LiveAfterTestnet

LEMMA SinceStart ==
    ASSUME SinceInv,
           NEW chosen \in {"paper", "testnet", "live"}, NEW acknowledged \in BOOLEAN,
           NEW readable \in BOOLEAN, NEW skipped \in BOOLEAN,
           StartServer(chosen, acknowledged, readable, skipped)
    PROVE  SinceInv'
<1> USE GatesAssumption DEF SinceInv, Since, Torn
<1>1. /\ week' = week /\ Dated(chosen)
      /\ firstTestnet' = IF chosen = "testnet" /\ firstTestnet = Nothing THEN week ELSE firstTestnet
  BY DEF StartServer
<1>2. /\ firstTestnet' # Nothing => firstTestnet' \in Nat /\ firstTestnet' <= week'
      /\ firstTestnet # Nothing => firstTestnet' = firstTestnet
  BY <1>1
<1>3. /\ testnetSince' \in Nat \union {Nothing, Torn}
      /\ testnetSince' # Nothing => firstTestnet' # Nothing
      /\ testnetSince' \in Nat  => firstTestnet' <= testnetSince' /\ testnetSince' <= week'
  <2>1. CASE chosen = "testnet" /\ testnetSince = Nothing
    BY <1>1, <1>2, <2>1 DEF Dated
  <2>2. CASE ~(chosen = "testnet" /\ testnetSince = Nothing)
    BY <1>1, <1>2, <2>2 DEF Dated
  <2> QED BY <2>1, <2>2
<1>4. CASE UNCHANGED trader
  BY <1>1, <1>2, <1>3, <1>4 DEF LiveAfterTestnet
<1>5. CASE trader' = [mode |-> chosen, model |-> Loaded, via |-> "start",
                      acknowledged |-> acknowledged \/ ~readable,
                      skipped |-> skipped /\ chosen = "live"]
  <2>1. ASSUME trader'.mode = "live", ~trader'.skipped
        PROVE  firstTestnet' # Nothing /\ week' - firstTestnet' >= MinWeeks
    <3>1. WeeksEnough
      BY <1>5, <2>1 DEF StartServer
    <3>2. testnetSince \in Nat /\ firstTestnet # Nothing /\ week - testnetSince >= MinWeeks
      BY <3>1 DEF WeeksEnough
    <3> QED BY <1>1, <1>2, <3>2
  <2>2. Since'
    BY <1>1, <1>2, <1>3, <1>5
  <2> QED BY <2>1, <2>2 DEF LiveAfterTestnet
<1> QED BY <1>4, <1>5 DEF StartServer

LEMMA SinceNext == SinceInv /\ [GatesNext]_gateVars => SinceInv'
<1> SUFFICES ASSUME SinceInv, [GatesNext]_gateVars PROVE SinceInv'
  OBVIOUS
<1> USE GatesAssumption DEF SinceInv, Since, LiveAfterTestnet
<1>1. ASSUME NEW algo \in Algos, NEW passed \in BOOLEAN, NEW path,
             TrainAndPromote(algo, passed, path) \/ ConfirmAndPromote(algo) \/ TrainerCopies(algo)
      PROVE  SinceInv'
  BY <1>1 DEF TrainAndPromote, ConfirmAndPromote, TrainerCopies
<1>2. CASE Record \/ ScriptDies
  BY <1>2 DEF Record, ScriptDies
<1>3. CASE SwapModel
  BY <1>3 DEF SwapModel
<1>4. CASE StopServer
  BY <1>4 DEF StopServer
<1>5. CASE WeekPasses
  BY <1>5 DEF WeekPasses, Torn
<1>6. ASSUME NEW chosen \in {"paper", "testnet", "live"}, NEW acknowledged \in BOOLEAN,
             NEW readable \in BOOLEAN, NEW skipped \in BOOLEAN,
             StartServer(chosen, acknowledged, readable, skipped)
      PROVE  SinceInv'
  BY <1>6, SinceStart
<1>7. CASE UNCHANGED gateVars
  BY <1>7 DEF gateVars
<1> QED BY <1>1, <1>2, <1>3, <1>4, <1>5, <1>6, <1>7 DEF GatesNext

\* For every number of weeks and of checkpoints, a live server runs at least
\* MinWeeks after the first start on the testnet (LiveAfterTestnet).
THEOREM LiveComesLate == GatesSpec => []LiveAfterTestnet
<1>1. GatesInit => SinceInv
  BY GatesAssumption DEF GatesInit, SinceInv, Since, LiveAfterTestnet
<1>2. SinceInv => LiveAfterTestnet
  BY DEF SinceInv
<1> QED BY <1>1, <1>2, SinceNext, PTL DEF GatesSpec

\* What the log says of the checkpoint that is deployed: the record of a verdict
\* that is in the log is the last one that names it, and a script that has still
\* to record has the verdict of the checkpoint it has copied.
Verdict(passed) == IF passed THEN "passed" ELSE "failed"

Targets == Spellings \union {"none"}
Entries == [verdict : {"passed", "failed"}, target : Targets]
Ours(path) == Norm(path) = Norm(FrozenModelPath)

Logs ==
    /\ promotions \in Seq(Entries)
    /\ deployed # Nothing =>
          \E algo \in Algos \union {Nothing}, passed \in BOOLEAN, recorded \in Targets :
             /\ deployed = File(algo, passed, recorded)
             /\ Ours(recorded) => LastMatching = Verdict(passed)
    /\ script # Nothing =>
          \E algo \in Algos, passed \in BOOLEAN, target \in Targets :
             /\ deployed = File(algo, passed, "none")
             /\ script = [verdict |-> Verdict(passed), target |-> target]
    /\ swap \in {"none", "copied", "overwritten"}
    /\ swap = "copied" => script = Nothing /\ (deployed # Nothing => deployed.passed)

\* A record that names the checkpoint is the one that counts.
LEMMA LastIsAppended ==
    ASSUME promotions \in Seq(Entries), NEW r \in Entries, Ours(r.target),
           promotions' = Append(promotions, r)
    PROVE  LastMatching' = r.verdict
<1>1. /\ Len(promotions) + 1 \in DOMAIN promotions' /\ promotions'[Len(promotions) + 1] = r
      /\ DOMAIN promotions' = 1 .. Len(promotions) + 1
  OBVIOUS
<1>2. Len(promotions) + 1 \in Matching'
  BY <1>1 DEF Matching, Ours
<1>3. Matching' \subseteq 1 .. Len(promotions) + 1
  BY <1>1 DEF Matching
<1>4. Max(Matching') = Len(promotions) + 1
  <2> HIDE DEF Matching
  <2>1. Len(promotions) + 1 \in Nat
    OBVIOUS
  <2> DEFINE n == Len(promotions) + 1
           T == Matching'
  <2> HIDE DEF n, T
  <2>2. n \in T /\ T \subseteq 1 .. n /\ n \in Nat
    BY <1>2, <1>3, <2>1 DEF n, T
  <2>3. T \subseteq Int /\ \A x \in T : x <= n
    BY <2>2
  <2>4. Max(T) = n
    BY <2>2, <2>3, LargestIs
  <2> QED BY <2>4 DEF n, T
<1> QED BY <1>1, <1>2, <1>4 DEF LastMatching

LEMMA NoneIsNotOurs == ~Ours("none")
BY DEF Ours, Norm, FrozenModelPath

LEMMA LogsNext == Logs /\ [GatesNext]_gateVars => Logs'
<1> SUFFICES ASSUME Logs, [GatesNext]_gateVars PROVE Logs'
  OBVIOUS
<1>1. ASSUME NEW algo \in Algos, NEW passed \in BOOLEAN, NEW path \in Spellings,
             TrainAndPromote(algo, passed, path)
      PROVE  Logs'
  <2>1. /\ deployed' = File(algo, passed, "none") /\ promotions' = promotions
        /\ script' = [verdict |-> Verdict(passed), target |-> path]
        /\ swap' \in {"none", "overwritten"}
    BY <1>1 DEF TrainAndPromote, Overwritten, Verdict
  <2> QED BY <2>1, NoneIsNotOurs DEF Logs, Targets
<1>2. ASSUME NEW algo \in Algos, ConfirmAndPromote(algo) PROVE Logs'
  <2>1. /\ deployed' = File(algo, TRUE, "none") /\ promotions' = promotions
        /\ script' = [verdict |-> Verdict(TRUE), target |-> "none"]
        /\ swap' \in {"none", "overwritten"}
    BY <1>2 DEF ConfirmAndPromote, Overwritten, Verdict
  <2> QED BY <2>1, NoneIsNotOurs DEF Logs, Targets
<1>3. ASSUME NEW algo \in Algos, TrainerCopies(algo) PROVE Logs'
  <2>1. /\ deployed' = File(algo, TRUE, "none") /\ UNCHANGED <<promotions, script>>
        /\ script = Nothing /\ swap' = "copied"
    BY <1>3 DEF TrainerCopies
  <2>2. deployed' # Nothing => deployed'.passed
    BY <2>1 DEF File
  <2> QED BY <2>1, <2>2, NoneIsNotOurs DEF Logs, Targets
<1>4. CASE Record
  <2>1. PICK algo \in Algos, passed \in BOOLEAN, target \in Targets :
           /\ deployed = File(algo, passed, "none")
           /\ script = [verdict |-> Verdict(passed), target |-> target]
    BY <1>4 DEF Record, Logs
  <2>2. script \in Entries /\ script.verdict = Verdict(passed) /\ script.target = target
    BY <2>1 DEF Entries, Verdict
  <2>3. swap' \in {"none", "overwritten"} /\ script' = Nothing
    BY <1>4 DEF Record, Logs
  <2>4. CASE torn
    BY <1>4, <2>1, <2>3, <2>4, NoneIsNotOurs DEF Record, Logs, Targets
  <2>5. CASE ~torn
    <3>1. deployed' = File(algo, passed, target) /\ promotions' = Append(promotions, script)
      BY <1>4, <2>1, <2>2, <2>5 DEF Record, File
    <3>2. promotions' \in Seq(Entries)
      BY <2>2, <3>1 DEF Logs
    <3>3. Ours(target) => LastMatching' = Verdict(passed)
      BY <2>2, <3>1, LastIsAppended DEF Logs
    <3> QED BY <2>3, <3>1, <3>2, <3>3 DEF Logs
  <2> QED BY <2>4, <2>5
<1>5. CASE ScriptDies
  <2>1. PICK algo \in Algos, passed \in BOOLEAN : deployed = File(algo, passed, "none")
    BY <1>5 DEF ScriptDies, Logs
  <2>2. \E last : deployed' = File(last, passed, "none") /\ last \in Algos \union {Nothing}
    BY <1>5, <2>1 DEF ScriptDies, File
  <2>3. swap' \in {"none", "overwritten"} /\ script' = Nothing /\ promotions' = promotions
    BY <1>5 DEF ScriptDies, Logs
  <2> QED BY <2>2, <2>3, NoneIsNotOurs DEF Logs, Targets
<1>6. CASE SwapModel \/ StopServer
  BY <1>6 DEF SwapModel, StopServer, Logs, LastMatching, Matching
<1>7. CASE WeekPasses \/ UNCHANGED gateVars
  BY <1>7 DEF WeekPasses, gateVars, Logs, LastMatching, Matching
<1>8. ASSUME NEW chosen \in {"paper", "testnet", "live"}, NEW acknowledged \in BOOLEAN,
             NEW readable \in BOOLEAN, NEW skipped \in BOOLEAN,
             StartServer(chosen, acknowledged, readable, skipped)
      PROVE  Logs'
  BY <1>8 DEF StartServer, Logs, LastMatching, Matching
<1> QED BY <1>1, <1>2, <1>3, <1>4, <1>5, <1>6, <1>7, <1>8 DEF GatesNext

LEMMA TraderNext ==
    ASSUME Logs, SinceInv, FailedNeverTrades, [GatesNext]_gateVars
    PROVE  FailedNeverTrades'
<1>1. CASE UNCHANGED trader
  BY <1>1 DEF FailedNeverTrades
<1>2. CASE SwapModel
  <2>1. CASE trader # Nothing /\ Loaded # Nothing
    <3>1. trader' = [trader EXCEPT !.model = Loaded, !.via = swap]
      BY <1>2, <2>1 DEF SwapModel
    <3>2. trader'.model = Loaded /\ trader'.via = swap
      BY <2>1, <3>1 DEF SinceInv, Since
    <3>3. swap \in {"copied", "overwritten"}
      BY <1>2 DEF SwapModel, Logs
    <3>4. swap = "copied" => Loaded.passed
      BY <2>1 DEF Loaded, Logs
    <3> QED BY <3>2, <3>3, <3>4 DEF FailedNeverTrades
  <2> QED BY <1>1, <1>2, <2>1 DEF SwapModel
<1>3. CASE StopServer
  BY <1>3 DEF StopServer, FailedNeverTrades
<1>4. ASSUME NEW chosen \in {"paper", "testnet", "live"}, NEW acknowledged \in BOOLEAN,
             NEW readable \in BOOLEAN, NEW skipped \in BOOLEAN,
             StartServer(chosen, acknowledged, readable, skipped),
             Loaded # Nothing, ~acknowledged, readable
      PROVE  Loaded.passed \/ ~Ours(Loaded.recorded)
  <2>1. Loaded = deployed /\ LastMatching # "failed"
    BY <1>4 DEF Loaded, StartServer, GateOpens
  <2> QED BY <1>4, <2>1 DEF Logs, File, Verdict
<1>5. ASSUME NEW chosen \in {"paper", "testnet", "live"}, NEW acknowledged \in BOOLEAN,
             NEW readable \in BOOLEAN, NEW skipped \in BOOLEAN,
             StartServer(chosen, acknowledged, readable, skipped)
      PROVE  FailedNeverTrades'
  <2>1. CASE UNCHANGED trader
    BY <1>1, <2>1
  <2>2. CASE trader' = [mode |-> chosen, model |-> Loaded, via |-> "start",
                        acknowledged |-> acknowledged \/ ~readable,
                        skipped |-> skipped /\ chosen = "live"]
    <3>1. Loaded = Nothing \/ acknowledged \/ ~readable \/ Loaded.passed \/ ~Ours(Loaded.recorded)
      BY <1>4, <1>5
    <3>2. /\ trader'.model = Loaded
          /\ trader'.acknowledged = (acknowledged \/ ~readable)
      BY <2>2
    <3> QED BY <3>1, <3>2, Zenon DEF FailedNeverTrades, Ours
  <2> QED BY <1>5, <2>1, <2>2 DEF StartServer
<1> QED BY <1>1, <1>2, <1>3, <1>5 DEF GatesNext, gateVars, TrainAndPromote, ConfirmAndPromote,
        TrainerCopies, Record, ScriptDies, WeekPasses

\* A checkpoint whose last verdict under the server's path is a failure is not
\* traded, unless an operator acknowledged it, its log could not be read or a script
\* overwrote a swap: for any spellings, weeks, torn lines, dying scripts and restarts
\* (FailedNeverTrades).
THEOREM FailuresAreRefused == GatesSpec => []FailedNeverTrades
<1>1. GatesInit => Logs /\ FailedNeverTrades
  BY DEF GatesInit, Logs, FailedNeverTrades
<1>2. GatesInit => SinceInv
  BY GatesAssumption DEF GatesInit, SinceInv, Since, LiveAfterTestnet
<1> QED BY <1>1, <1>2, LogsNext, SinceNext, TraderNext, PTL DEF GatesSpec

-----------------------------------------------------------------------------
Diff == [first : Nat \ {0}, final : 0 .. LatestUpdate]
Wire == [up : BOOLEAN, diffs : Seq(Diff)]

\* The updates a diff stands for have happened, and so has the book's last.
Happened ==
    /\ touched \in Seq(Levels)
    /\ sent \in 0 .. LatestUpdate
    /\ wire \in Wire
    /\ book = [levels |-> book.levels, last |-> book.last, initialized |-> book.initialized]
    /\ book.last \in 0 .. LatestUpdate /\ book.initialized \in BOOLEAN

BookInv == Happened /\ BookIsExact

LEMMA BookInit == FeedInit => BookInv
<1> SUFFICES ASSUME FeedInit PROVE BookInv
  OBVIOUS
<1>1. wire = [up |-> FALSE, diffs |-> <<>>] /\ <<>> \in Seq(Diff)
  BY DEF FeedInit
<1>2. wire \in Wire
  BY <1>1 DEF Wire
<1>3. touched = <<>> /\ LatestUpdate = 0 /\ sent = 0
  BY DEF FeedInit, LatestUpdate
<1>4. book.last = 0 /\ book.initialized = FALSE
      /\ book = [levels |-> book.levels, last |-> book.last, initialized |-> book.initialized]
  BY DEF FeedInit
<1>5. touched \in Seq(Levels) /\ 0 \in 0 .. LatestUpdate
  BY <1>3
<1> QED BY <1>2, <1>3, <1>4, <1>5 DEF BookInv, Happened, BookIsExact

\* What the exchange's book was does not change.
LEMMA PastStays ==
    ASSUME touched \in Seq(Levels), NEW l \in Levels, touched' = Append(touched, l),
           NEW n \in 0 .. LatestUpdate
    PROVE  TrueBook(n)' = TrueBook(n)
<1>1. \A i \in 1 .. n : touched'[i] = touched[i]
  BY DEF LatestUpdate
<1>2. \A k \in Levels : {i \in 1 .. n : touched'[i] = k} = {i \in 1 .. n : touched[i] = k}
  BY <1>1
<1> QED BY <1>2 DEF TrueBook

\* A level that no update between two moments touched is the same at both.
LEMMA UntouchedStays ==
    ASSUME NEW m \in Nat, NEW n \in Nat, m <= n, NEW l \in Levels,
           \A i \in m + 1 .. n : touched[i] # l
    PROVE  TrueBook(n)[l] = TrueBook(m)[l]
<1>1. {i \in 1 .. n : touched[i] = l} = {i \in 1 .. m : touched[i] = l}
  OBVIOUS
<1> QED BY <1>1 DEF TrueBook

\* A diff that neither is stale nor follows a gap leaves the exchange's book.
LEMMA AppliedIsExact ==
    ASSUME BookInv, book.initialized, NEW d \in Diff, ~Stale(d), ~Gap(d)
    PROVE  Applied(d).levels = TrueBook(d.final)
<1>1. /\ book.last < d.final /\ d.first <= book.last + 1
      /\ book.last \in Nat /\ d.final \in Nat /\ d.first \in Nat
  BY DEF Stale, Gap, Diff, BookInv, Happened, LatestUpdate
<1>2. Applied(d).levels = [l \in Levels |-> IF \E i \in d.first .. d.final : touched[i] = l
                                            THEN TrueBook(d.final)[l] ELSE book.levels[l]]
  BY DEF Applied, BookInv, Happened
<1>3. ASSUME NEW l \in Levels, ~ \E i \in d.first .. d.final : touched[i] = l
      PROVE  book.levels[l] = TrueBook(d.final)[l]
  <2>1. \A i \in book.last + 1 .. d.final : touched[i] # l
    BY <1>1, <1>3
  <2>2. TrueBook(d.final)[l] = TrueBook(book.last)[l]
    BY <1>1, <2>1, UntouchedStays
  <2> QED BY <2>2 DEF BookInv, BookIsExact
<1>4. TrueBook(d.final) = [l \in Levels |-> TrueBook(d.final)[l]]
  BY DEF TrueBook
<1>5. \A l \in Levels : Applied(d).levels[l] = TrueBook(d.final)[l]
  BY <1>2, <1>3
<1> HIDE DEF Applied
<1> QED BY <1>2, <1>4, <1>5

LEMMA SnapshotIsExact ==
    ASSUME BookInv, RestAnswers
    PROVE  /\ book' = [levels |-> book'.levels, last |-> book'.last, initialized |-> book'.initialized]
           /\ book'.last \in 0 .. LatestUpdate /\ book'.initialized \in BOOLEAN
           /\ book'.levels = TrueBook(book'.last)
BY DEF RestAnswers, Snapshot

\* Steps in which nothing happens at the exchange.
LEMMA QuietExchange ==
    ASSUME BookInv, UNCHANGED touched, sent' \in 0 .. LatestUpdate, wire' \in Wire,
           \/ UNCHANGED book
           \/ RestAnswers
           \/ book' = [book EXCEPT !.initialized = FALSE]
           \/ \E d \in Diff : ~Stale(d) /\ ~Gap(d) /\ book' = Applied(d)
    PROVE  BookInv'
<1>1. LatestUpdate' = LatestUpdate /\ Diff' = Diff /\ Wire' = Wire /\ \A n : TrueBook(n)' = TrueBook(n)
  BY DEF LatestUpdate, Diff, Wire, TrueBook
<1> DEFINE Kept == /\ book' = [levels |-> book'.levels, last |-> book'.last, initialized |-> book'.initialized]
                   /\ book'.last \in 0 .. LatestUpdate /\ book'.initialized \in BOOLEAN
                   /\ book'.initialized => book'.levels = TrueBook(book'.last)
<1>2. Kept
  <2>1. CASE UNCHANGED book
    BY <2>1 DEF BookInv, Happened, BookIsExact
  <2>2. CASE RestAnswers
    BY <2>2, SnapshotIsExact
  <2>3. CASE book' = [book EXCEPT !.initialized = FALSE]
    BY <2>3 DEF BookInv, Happened
  <2>4. ASSUME NEW d \in Diff, ~Stale(d), ~Gap(d), book' = Applied(d)
        PROVE  Kept
    <3>1. book'.initialized = book.initialized /\ book'.last = d.final
          /\ book' = [levels |-> book'.levels, last |-> book'.last, initialized |-> book'.initialized]
      BY <2>4 DEF Applied, BookInv, Happened
    <3>2. book.initialized => book'.levels = TrueBook(d.final)
      BY <2>4, AppliedIsExact
    <3> QED BY <2>4, <3>1, <3>2 DEF Diff, BookInv, Happened
  <2> QED BY <2>1, <2>2, <2>3, <2>4
<1> QED BY <1>1, <1>2 DEF BookInv, Happened, BookIsExact

LEMMA BookNext == BookInv /\ [FeedNext]_feedVars => BookInv'
<1> SUFFICES ASSUME BookInv, [FeedNext]_feedVars PROVE BookInv'
  OBVIOUS
<1>1. /\ wire \in Wire /\ wire.up \in BOOLEAN /\ wire.diffs \in Seq(Diff)
      /\ sent \in 0 .. LatestUpdate /\ LatestUpdate \in Nat
  BY DEF BookInv, Happened, Wire, LatestUpdate
<1>2. ASSUME NEW l \in Levels, UpdateLevel(l) PROVE BookInv'
  <2>1. touched \in Seq(Levels) /\ touched' = Append(touched, l) /\ UNCHANGED <<sent, wire, book>>
    BY <1>2 DEF UpdateLevel, BookInv, Happened
  <2>2. touched' \in Seq(Levels) /\ LatestUpdate' = LatestUpdate + 1
    BY <2>1 DEF LatestUpdate
  <2>3. 0 .. LatestUpdate \subseteq 0 .. LatestUpdate'
    BY <1>1, <2>2
  <2>4. Diff \subseteq Diff'
    BY <2>3 DEF Diff
  <2>5. wire' \in Wire'
    <3>1. wire.diffs \in Seq(Diff')
      BY <1>1, <2>4
    <3> QED BY <1>1, <2>1, <3>1 DEF Wire
  <2>6. TrueBook(book.last)' = TrueBook(book.last)
    <3>1. book.last \in 0 .. LatestUpdate
      BY DEF BookInv, Happened
    <3>2. \A n \in 0 .. LatestUpdate : TrueBook(n)' = TrueBook(n)
      BY <2>1, PastStays
    <3> QED BY <2>1, <3>1, <3>2 DEF TrueBook
  <2> QED BY <2>1, <2>2, <2>3, <2>5, <2>6 DEF BookInv, Happened, BookIsExact
<1>3. CASE SendDiff
  <2>1. [first |-> sent + 1, final |-> LatestUpdate] \in Diff
    BY <1>1 DEF Diff
  <2>2. Append(wire.diffs, [first |-> sent + 1, final |-> LatestUpdate]) \in Seq(Diff)
    BY <1>1, <2>1
  <2>3. wire' \in Wire
    BY <1>1, <1>3, <2>2 DEF SendDiff, Wire
  <2> QED BY <1>1, <1>3, <2>3, QuietExchange DEF SendDiff
<1>4. CASE Break
  <2>1. PICK n \in 0 .. Len(wire.diffs) : wire' = [up |-> FALSE, diffs |-> SubSeq(wire.diffs, 1, n)]
    BY <1>4 DEF Break
  <2>2. SubSeq(wire.diffs, 1, n) \in Seq(Diff)
    BY <1>1
  <2>3. wire' \in Wire
    BY <2>1, <2>2 DEF Wire
  <2> QED BY <1>1, <1>4, <2>3, QuietExchange DEF Break
<1>5. CASE ClientStep
  <2>1. CASE Connect
    <3>1. <<>> \in Seq(Diff)
      OBVIOUS
    <3>2. wire' \in Wire /\ sent' \in 0 .. LatestUpdate
      BY <1>1, <2>1, <3>1 DEF Connect, Wire
    <3> QED BY <2>1, <3>2, QuietExchange DEF Connect
  <2>2. CASE FirstSnapshot
    BY <1>1, <2>2, QuietExchange DEF FirstSnapshot, RestRefuses
  <2>3. CASE ReadDiff
    <3> DEFINE d == Head(wire.diffs)
    <3>1. d \in Diff /\ Tail(wire.diffs) \in Seq(Diff)
      BY <1>1, <2>3 DEF ReadDiff
    <3>2. wire' \in Wire
      BY <1>1, <2>3, <3>1 DEF ReadDiff, Wire
    <3>3. \/ UNCHANGED book
          \/ book' = [book EXCEPT !.initialized = FALSE]
          \/ ~Stale(d) /\ ~Gap(d) /\ book' = Applied(d)
      BY <2>3 DEF ReadDiff
    <3>4. UNCHANGED <<touched, sent>>
      BY <2>3 DEF ReadDiff
    <3> HIDE DEF d
    <3> QED BY <1>1, <3>1, <3>2, <3>3, <3>4, QuietExchange
  <2>4. CASE Resync
    BY <1>1, <2>4, QuietExchange DEF Resync, RestRefuses
  <2>5. CASE Closed
    BY <1>1, <2>5, QuietExchange DEF Closed
  <2> QED BY <1>5, <2>1, <2>2, <2>3, <2>4, <2>5 DEF ClientStep
<1>6. CASE UNCHANGED feedVars
  BY <1>1, <1>6, QuietExchange DEF feedVars
<1> QED BY <1>2, <1>3, <1>4, <1>5, <1>6 DEF FeedNext

\* Whatever is lost, late or breaks, for any number of levels and updates: a book
\* that passes for initialized is the exchange's as of the update it names.
THEOREM BooksAreExact == FeedSpec => []BookIsExact
<1>1. BookInv => BookIsExact
  BY DEF BookInv
<1> QED BY <1>1, BookInit, BookNext, PTL DEF FeedSpec

-----------------------------------------------------------------------------
Hub == [at : {"reading", "dispatch", "latency", "dispatched", "ended"},
        next : Nat, count : Int, called : SUBSET SleeveIds]

\* Within a dispatch the sleeves before the next one were called, whatever any
\* of them did with the message.
HeardInOrder ==
    /\ hub \in Hub
    /\ hub.at \in {"dispatch", "latency"} => hub.next \in SleeveIds /\ hub.called = 1 .. hub.next - 1
    /\ hub.at = "dispatched" => hub.called = SleeveIds

LEMMA HeardInit == DeskInit => HeardInOrder
BY DEF DeskInit, HeardInOrder, Hub

LEMMA DispatchHears == ASSUME HeardInOrder, hub' = Dispatching PROVE HeardInOrder'
<1>1. (hub.count + 1) % CheckEvery \in Int
  BY DeskAssumption DEF HeardInOrder, Hub
<1>2. 1 \in SleeveIds /\ 1 .. 0 = {}
  BY DeskAssumption DEF SleeveIds
<1>3. hub' = [at |-> "dispatch", next |-> 1, count |-> (hub.count + 1) % CheckEvery, called |-> {}]
  BY DEF HeardInOrder, Hub, Dispatching
<1>4. hub' \in Hub
  BY <1>1, <1>3 DEF Hub
<1> QED BY <1>2, <1>3, <1>4 DEF HeardInOrder

LEMMA PastHears ==
    ASSUME HeardInOrder, NEW s \in SleeveIds, hub.at \in {"dispatch", "latency"}, hub.next = s, hub' = Past(s)
    PROVE  HeardInOrder'
<1>1. hub' = [at |-> IF s = Sleeves THEN "dispatched" ELSE "dispatch", next |-> s + 1,
              count |-> hub.count, called |-> hub.called \union {s}]
  BY DEF HeardInOrder, Hub, Past
<1>2. hub'.called = 1 .. s
  BY <1>1 DEF HeardInOrder, SleeveIds
<1>3. hub' \in Hub
  BY <1>1, DeskAssumption DEF HeardInOrder, Hub, SleeveIds
<1> QED BY <1>1, <1>2, <1>3, DeskAssumption DEF HeardInOrder, SleeveIds

LEMMA HeardNext == HeardInOrder /\ [DeskNext]_deskVars => HeardInOrder'
<1> SUFFICES ASSUME HeardInOrder, [DeskNext]_deskVars PROVE HeardInOrder'
  OBVIOUS
<1>1. CASE UNCHANGED hub
  BY <1>1 DEF HeardInOrder, Hub
<1>2. CASE ReadMessage \/ MakeMessage
  BY <1>2, DispatchHears DEF ReadMessage, MakeMessage
<1>3. CASE DeskEnds \/ DispatchEnds \/ HaltAll
  BY <1>3 DEF DeskEnds, DispatchEnds, HaltAll, HeardInOrder, Hub
<1>4. ASSUME NEW s \in SleeveIds, SubmitOrder(s) PROVE HeardInOrder'
  BY <1>4 DEF SubmitOrder, HeardInOrder, Hub
<1>5. ASSUME NEW s \in SleeveIds, Observe(s) \/ DecideNothing(s) \/ Fill(s) \/ SleeveRaises(s)
      PROVE  HeardInOrder'
  <2>1. hub.at \in {"dispatch", "latency"} /\ hub.next = s /\ hub' = Past(s)
    BY <1>5 DEF Observe, DecideNothing, Fill, SleeveRaises
  <2> QED BY <2>1, PastHears
<1>6. ASSUME NEW s \in SleeveIds, ResetSleeve(s) PROVE UNCHANGED hub
  BY <1>6 DEF ResetSleeve
<1>7. CASE MarketSends \/ StopDesk \/ TouchFile \/ UNCHANGED deskVars
  BY <1>1, <1>7 DEF MarketSends, StopDesk, TouchFile, deskVars
<1> QED BY <1>1, <1>2, <1>3, <1>4, <1>5, <1>6, <1>7 DEF DeskNext

\* For any number of sleeves, whichever raise or sleep out an order's latency:
\* a dispatch has called them all when it ends.
THEOREM AllSleevesHear == DeskSpec => []SleevesHearAlike
<1>1. HeardInOrder => SleevesHearAlike
  BY DEF HeardInOrder, SleevesHearAlike
<1> QED BY <1>1, HeardInit, HeardNext, PTL DEF DeskSpec

-----------------------------------------------------------------------------
\* The cache's age is the time since the disk was read.
AgeIsTrue ==
    /\ cache = [reading |-> cache.reading, age |-> readAge]
    /\ readAge \in Nat
    /\ decision.age < Ttl

LEMMA AgeInit == CompositionInit => AgeIsTrue
BY CompositionAssumption DEF CompositionInit, AgeIsTrue

LEMMA AgeNext == AgeIsTrue /\ [CompositionNext]_compositionVars => AgeIsTrue'
<1> SUFFICES ASSUME AgeIsTrue, [CompositionNext]_compositionVars PROVE AgeIsTrue'
  OBVIOUS
<1>1. ASSUME NEW p \in Proposals, NEW o \in Opinions, Compose(p, o) PROVE AgeIsTrue'
  <2>1. /\ cache' = Cached /\ readAge' = IF Hit THEN readAge ELSE 0
        /\ decision'.age = IF Hit THEN readAge ELSE 0
    BY <1>1 DEF Compose
  <2>2. CASE Hit
    BY <2>1, <2>2 DEF Hit, Cached, AgeIsTrue
  <2>3. CASE ~Hit
    BY <2>1, <2>3, CompositionAssumption DEF Hit, Cached, AgeIsTrue
  <2> QED BY <2>2, <2>3
<1>2. CASE Pass
  <2>1. Min({readAge + 1, Ttl}) \in Nat
    <3>1. readAge + 1 \in Nat /\ Ttl \in Nat
      BY CompositionAssumption DEF AgeIsTrue
    <3>2. Min({readAge + 1, Ttl}) \in {readAge + 1, Ttl}
      BY <3>1, LeastOfTwo
    <3> QED BY <3>1, <3>2
  <2> QED BY <1>2, <2>1 DEF Pass, AgeIsTrue
<1>3. CASE UNCHANGED <<cache, readAge, decision>>
  BY <1>3 DEF AgeIsTrue
<1>4. CASE HaltOnLoss \/ ResetForNewSession \/ UNCHANGED compositionVars
  BY <1>3, <1>4 DEF HaltOnLoss, ResetForNewSession, compositionVars
<1>5. ASSUME NEW e \in Equities, Move(e) PROVE AgeIsTrue'
  BY <1>3, <1>5 DEF Move
<1>6. ASSUME NEW pnl \in {-1, 1}, RecordFill(pnl) PROVE AgeIsTrue'
  BY <1>3, <1>6 DEF RecordFill
<1>7. ASSUME NEW r \in Readings, Forge(r) PROVE AgeIsTrue'
  BY <1>3, <1>7 DEF Forge
<1> QED BY <1>1, <1>2, <1>4, <1>5, <1>6, <1>7 DEF CompositionNext

\* However often an order uses the cached reading, and however seldom it is
\* asked for: none is sized by one that left the disk Ttl or longer ago.
THEOREM ReadingsAreFresh == CompositionSpec => []ToxicityWithinTtl
<1>1. AgeIsTrue => ToxicityWithinTtl
  BY DEF AgeIsTrue, ToxicityWithinTtl
<1> QED BY <1>1, AgeInit, AgeNext, PTL DEF CompositionSpec

-----------------------------------------------------------------------------
\* Of finitely many instruments one has the best score, and Best is one of those:
\* as many have a better one than the fewest have, and none if any had.
LEMMA BestIsRanked ==
    ASSUME NEW from, from \subseteq Universe, from # {}, NEW by \in [Universe -> Int]
    PROVE  Best(by, from) \in from
<1> DEFINE Better(i) == {j \in from : by[j] > by[i]}
           counts    == {Cardinality(Better(i)) : i \in from}
<1>1. IsFiniteSet(from)
  <2>1. IsFiniteSet(Universe)
    BY FS_Interval, AllocationAssumption DEF Universe
  <2> QED BY <2>1, FS_Subset
<1>2. \A i \in from : IsFiniteSet(Better(i)) /\ Cardinality(Better(i)) \in Nat
  BY <1>1, FS_Subset, FS_CardinalityType
<1>3. PICK n \in counts : \A m \in counts : n <= m
  <2>1. counts \subseteq Nat /\ counts # {}
    BY <1>2
  <2> HIDE DEF counts
  <2> QED BY <2>1, LeastExists
<1>4. PICK i \in from : n = Cardinality(Better(i))
  OBVIOUS
<1>5. ASSUME NEW j \in from, by[j] > by[i] PROVE FALSE
  <2>1. Better(j) \subseteq Better(i) /\ j \in Better(i) /\ j \notin Better(j)
    <3>1. \A k \in from : by[k] \in Int
      OBVIOUS
    <3> QED BY <1>5, <3>1
  <2>2. Cardinality(Better(j)) < Cardinality(Better(i))
    <3>1. Cardinality(Better(j)) <= Cardinality(Better(i))
          /\ (Cardinality(Better(j)) = Cardinality(Better(i)) => Better(j) = Better(i))
      BY <1>2, <2>1, FS_Subset
    <3>2. Better(j) # Better(i)
      BY <2>1
    <3>3. Cardinality(Better(j)) \in Nat /\ Cardinality(Better(i)) \in Nat
      BY <1>2
    <3> HIDE DEF Better
    <3> QED BY <3>1, <3>2, <3>3
  <2>3. Cardinality(Better(j)) \in counts /\ Cardinality(Better(j)) \in Nat /\ n \in Nat
    BY <1>2, <1>4
  <2>4. n <= Cardinality(Better(j))
    BY <1>3, <2>3
  <2> HIDE DEF Better
  <2> QED BY <1>4, <2>2, <2>3, <2>4
<1> DEFINE best == {k \in from : \A j \in from : by[j] <= by[k]}
<1>6. i \in best
  <2>1. \A j \in from : by[j] \in Int
    OBVIOUS
  <2>2. \A j \in from : ~(by[j] > by[i])
    BY <1>5
  <2> QED BY <2>1, <2>2
<1>7. best \subseteq Nat
  <2>1. from \subseteq Nat
    BY AllocationAssumption DEF Universe
  <2> QED BY <2>1
<1>8. Best(by, from) = Min(best)
  BY DEF Best
<1> HIDE DEF best
<1> QED BY <1>6, <1>7, <1>8, MinIsIn DEF best

LEMMA SelectIsRanked ==
    ASSUME NEW role \in Roles, NEW from, from \subseteq Universe, NEW by \in [Universe -> Int]
    PROVE  Select(role, by, from) \in from \union {NoInstrument}
BY BestIsRanked DEF Select

\* The holders are two instruments, and how long each has held its role is what
\* its dwell says.
HeldTrue ==
    /\ holder \in [Roles -> Universe \union {NoInstrument}]
    /\ tenure \in [Roles -> Nat]
    /\ holder["primary"] = NoInstrument \/ holder["primary"] # holder["secondary"]
    /\ \A r \in Roles : holder[r] # NoInstrument => dwell[holder[r]] = tenure[r]

\* What a cycle makes of the roles, for the scores it reads.
LEMMA CycleAssigns ==
    ASSUME AllocationNext
    PROVE  \/ holder' = Dropped /\ ~\E j \in Universe : score'[j] > 0
           \/ \E correlated \in SUBSET Universe :
                 holder' = Assigned(score', {i \in Universe : score'[i] # NoScore}, correlated)
<1>1. PICK unreadable \in SUBSET Universe, seen \in [Universe -> Scores \union {NoScore}] :
        LET scores == [i \in Universe |-> Score(Universe \ unreadable, seen, i)]
            ranked == {i \in Universe : scores[i] # NoScore}
            live   == \E i \in ranked : scores[i] > 0
        IN /\ score' = scores
           /\ \E correlated \in SUBSET (ranked \ {Select("primary", scores, ranked)}) :
                 holder' = IF live THEN Assigned(scores, ranked, correlated) ELSE Dropped
  BY DEF AllocationNext, RunCycle
<1> DEFINE ranked == {i \in Universe : score'[i] # NoScore}
<1>2. PICK correlated \in SUBSET Universe :
        holder' = IF \E i \in ranked : score'[i] > 0 THEN Assigned(score', ranked, correlated) ELSE Dropped
  BY <1>1
<1>3. (\E j \in Universe : score'[j] > 0) => \E i \in ranked : score'[i] > 0
  BY DEF NoScore
<1> QED BY <1>2, <1>3

\* What two roles get, when the one that is filled first is p and the other q.
LEMMA RolesAreFilled ==
    ASSUME HeldTrue, NEW p \in Universe \union {NoInstrument}, NEW q \in Universe \union {NoInstrument},
           holder' = [r \in Roles |-> IF r = "primary" THEN p ELSE q], p = NoInstrument \/ p # q,
           dwell' = NewDwell(holder'), tenure' = NewHeld(holder')
    PROVE  HeldTrue'
<1>1. /\ holder' \in [Roles -> Universe \union {NoInstrument}]
      /\ holder'["primary"] = NoInstrument \/ holder'["primary"] # holder'["secondary"]
  BY DEF Roles
<1>2. ASSUME NEW n \in Nat PROVE Min({n + 1, MinDwell}) \in Nat
  <2>1. n + 1 \in Nat /\ MinDwell \in Nat
    BY AllocationAssumption
  <2>2. Min({n + 1, MinDwell}) \in {n + 1, MinDwell}
    BY <2>1, LeastOfTwo
  <2> QED BY <2>1, <2>2
<1>3. tenure' \in [Roles -> Nat]
  <2>1. \A r \in Roles : tenure[r] \in Nat /\ Min({tenure[r] + 1, MinDwell}) \in Nat
    BY <1>2 DEF HeldTrue
  <2> QED BY <2>1 DEF NewHeld
<1>4. ASSUME NEW r \in Roles, holder'[r] # NoInstrument PROVE dwell'[holder'[r]] = tenure'[r]
  <2>1. holder'[r] \in Universe
    BY <1>1, <1>4
  <2>2. ASSUME NEW s \in Roles, holder'[s] = holder'[r] PROVE s = r
    BY <1>1, <1>4, <2>2 DEF Roles
  <2>3. CASE holder[r] = holder'[r]
    <3>1. dwell'[holder'[r]] = Min({dwell[holder'[r]] + 1, MinDwell})
      BY <2>1, <2>3 DEF NewDwell
    <3>2. tenure'[r] = Min({tenure[r] + 1, MinDwell})
      BY <1>4, <2>3 DEF NewHeld
    <3> QED BY <1>4, <2>3, <3>1, <3>2 DEF HeldTrue
  <2>4. CASE holder[r] # holder'[r]
    <3>1. dwell'[holder'[r]] = 1
      BY <2>1, <2>2, <2>4 DEF NewDwell
    <3>2. tenure'[r] = 1
      BY <1>4, <2>4 DEF NewHeld
    <3> QED BY <3>1, <3>2
  <2> QED BY <2>3, <2>4
<1> QED BY <1>1, <1>3, <1>4 DEF HeldTrue

LEMMA ScoresAreNumbers == AllocationNext => score' \in [Universe -> Int]
<1> SUFFICES ASSUME AllocationNext PROVE score' \in [Universe -> Int]
  OBVIOUS
<1>1. PICK unreadable \in SUBSET Universe, seen \in [Universe -> Scores \union {NoScore}] :
         score' = [i \in Universe |-> Score(Universe \ unreadable, seen, i)]
  BY DEF AllocationNext, RunCycle
<1>2. ASSUME NEW i \in Universe PROVE Score(Universe \ unreadable, seen, i) \in Int
  <2>1. seen[i] \in Scores \/ seen[i] = NoScore
    BY <1>1
  <2>2. NoScore \in Int /\ Scores \subseteq Int
    BY AllocationAssumption DEF NoScore
  <2> QED BY <2>1, <2>2 DEF Score
<1> QED BY <1>1, <1>2

LEMMA HeldStep ==
    ASSUME HeldTrue, AllocationNext
    PROVE  /\ HeldTrue'
           /\ \A r \in Roles :
                 /\ holder[r] # NoInstrument /\ tenure[r] < MinDwell
                 /\ score'[holder[r]] # NoScore /\ (\E j \in Universe : score'[j] > 0)
                 /\ holder'["primary"] # holder[r]
                 => holder'[r] = holder[r]
<1>1. dwell' = NewDwell(holder') /\ tenure' = NewHeld(holder') /\ score' \in [Universe -> Int]
  BY ScoresAreNumbers DEF AllocationNext, RunCycle
<1>2. CASE holder' = Dropped /\ ~\E j \in Universe : score'[j] > 0
  <2>1. holder' = [r \in Roles |-> IF r = "primary" THEN NoInstrument ELSE NoInstrument]
    BY <1>2 DEF Dropped
  <2> QED BY <1>1, <1>2, <2>1, RolesAreFilled
<1>3. ASSUME NEW correlated \in SUBSET Universe,
             holder' = Assigned(score', {i \in Universe : score'[i] # NoScore}, correlated)
      PROVE  /\ HeldTrue'
             /\ \A r \in Roles :
                   /\ holder[r] # NoInstrument /\ tenure[r] < MinDwell /\ score'[holder[r]] # NoScore
                   /\ holder'["primary"] # holder[r]
                   => holder'[r] = holder[r]
  <2> DEFINE ranked == {i \in Universe : score'[i] # NoScore}
             by == Adjusted(score', correlated)
             p  == Select("primary", score', ranked)
             q  == Select("secondary", by, ranked \ {p})
  <2>1. by \in [Universe -> Int]
    BY <1>1 DEF Adjusted
  <2>2. "primary" \in Roles /\ "secondary" \in Roles
    BY DEF Roles
  <2> HIDE DEF by
  <2>3. p \in ranked \union {NoInstrument}
    BY <1>1, <2>2, SelectIsRanked
  <2>4. q \in (ranked \ {p}) \union {NoInstrument}
    BY <2>1, <2>2, SelectIsRanked
  <2>5. holder' = [r \in Roles |-> IF r = "primary" THEN p ELSE q]
    BY <1>3 DEF Assigned, by, p, q, ranked
  <2> HIDE DEF p, q
  <2>6. HeldTrue'
    <3>1. p = NoInstrument \/ p # q
      BY <2>3, <2>4
    <3> QED BY <1>1, <2>3, <2>4, <2>5, <3>1, RolesAreFilled
  <2>7. ASSUME NEW r \in Roles, holder[r] # NoInstrument, tenure[r] < MinDwell,
               score'[holder[r]] # NoScore, holder'["primary"] # holder[r]
        PROVE  holder'[r] = holder[r]
    <3>1. holder[r] \in ranked /\ dwell[holder[r]] < MinDwell
      BY <2>7 DEF HeldTrue
    <3>2. CASE r = "primary"
      <4>1. p = holder[r]
        BY <3>1, <3>2 DEF Select, p
      <4> QED BY <2>5, <3>2, <4>1
    <3>3. CASE r = "secondary"
      <4>1. holder[r] \in ranked \ {p}
        BY <2>2, <2>5, <2>7, <3>1
      <4>2. q = holder[r]
        BY <3>1, <3>3, <4>1 DEF Select, q
      <4> QED BY <2>5, <3>3, <4>2
    <3> QED BY <3>2, <3>3 DEF Roles
  <2> QED BY <2>6, <2>7
<1> QED BY <1>2, <1>3, CycleAssigns

\* For any number of instruments, scores, dwell and correlations: a holder with a
\* score keeps its role for MinDwell cycles, unless it moves to Primary.
THEOREM HoldersStay == AllocationSpec => RolesAreHeld
<1>1. AllocationInit => HeldTrue
  BY DEF AllocationInit, HeldTrue, Roles
<1>2. HeldTrue /\ [AllocationNext]_allocationVars => HeldTrue'
  <2>1. HeldTrue /\ UNCHANGED allocationVars => HeldTrue'
    BY DEF HeldTrue, allocationVars
  <2> QED BY <2>1, HeldStep
<1>3. HeldTrue /\ [AllocationNext]_allocationVars =>
        [\A r \in Roles :
            LET i == holder[r]
            IN i # NoInstrument /\ tenure[r] < MinDwell
                  /\ score'[i] # NoScore /\ (\E j \in Universe : score'[j] > 0)
                  /\ holder'["primary"] # i
               => holder'[r] = i]_allocationVars
  BY HeldStep
<1> QED BY <1>1, <1>2, <1>3, PTL DEF AllocationSpec, RolesAreHeld

\* The parts of one instrument.
LEMMA PartsOfOne ==
    ASSUME NEW i, NEW n \in Int
    PROVE  /\ IsFiniteSet({i} \X (1 .. n))
           /\ Cardinality({i} \X (1 .. n)) = IF n > 0 THEN n ELSE 0
<1>1. /\ IsFiniteSet(1 .. n) /\ Cardinality(1 .. n) = IF 1 > n THEN 0 ELSE n - 1 + 1
  <2>1. 1 \in Int
    OBVIOUS
  <2> QED BY <2>1, FS_Interval, Zenon
<1>2. IsFiniteSet({i}) /\ Cardinality({i}) = 1
  BY FS_Singleton
<1>3. /\ IsFiniteSet({i} \X (1 .. n))
      /\ Cardinality({i} \X (1 .. n)) = Cardinality({i}) * Cardinality(1 .. n)
  BY <1>1, <1>2, FS_Product, Zenon
<1>4. Cardinality(1 .. n) = IF n > 0 THEN n ELSE 0
  BY <1>1
<1>5. Cardinality({i} \X (1 .. n)) = 1 * Cardinality(1 .. n)
  BY <1>2, <1>3
<1> QED BY <1>3, <1>4, <1>5

\* What a full Primary and its Secondary are given fits the pool.
LEMMA GivenFits ==
    ASSUME NEW to \in [Roles -> Universe \union {NoInstrument}], to["primary"] \in Universe,
           NEW by \in [Universe -> Int], capital' = Capital(to, by)
    PROVE  CapitalWithinPool'
<1> DEFINE first == to["primary"]  second == to["secondary"]
           p == Min({PrimaryCap(second), (Kelly * Min({FullScore, by[first]})) \div FullScore})
           q == IF second = NoInstrument THEN 0 ELSE (2 * p) \div 5
<1>1. capital' = [i \in Universe |-> IF i = first THEN p ELSE IF i = second THEN (2 * p) \div 5 ELSE 0]
  BY DEF Capital
<1>2. p \in Int /\ p <= PrimaryCap(second)
  <2>1. PrimaryCap(second) \in Int
    <3>1. Pool \in Int /\ (5 * Pool) \div 7 \in Int
      BY AllocationAssumption
    <3> QED BY <3>1 DEF PrimaryCap
  <2>2. (Kelly * Min({FullScore, by[first]})) \div FullScore \in Int
    <3> DEFINE m == Min({FullScore, by[first]})
    <3>1. FullScore \in Int /\ FullScore > 0 /\ Kelly \in Int /\ by[first] \in Int
      BY AllocationAssumption
    <3>2. m \in Int
      BY <3>1, LeastOfTwo
    <3> HIDE DEF m
    <3>3. Kelly * m \in Int
      BY <3>1, <3>2
    <3> DEFINE k == Kelly * m
    <3>4. k \in Int /\ FullScore \in Int /\ FullScore > 0
      BY <3>1, <3>3
    <3> HIDE DEF k
    <3>5. k \div FullScore \in Int
      BY <3>4
    <3> QED BY <3>5 DEF k, m
  <2> QED BY <2>1, <2>2, LeastOfTwo
<1> HIDE DEF p
<1>3. /\ q \in Int /\ Pool \in Nat
      /\ (IF p > 0 THEN p ELSE 0) + (IF q > 0 THEN q ELSE 0) <= Pool
  <2>1. Pool \in Nat
    BY AllocationAssumption
  <2>2. CASE second = NoInstrument
    BY <1>2, <2>1, <2>2 DEF PrimaryCap
  <2>3. CASE second # NoInstrument
    <3>1. p <= (5 * Pool) \div 7 /\ q = (2 * p) \div 5
      BY <1>2, <2>3 DEF PrimaryCap
    <3> HIDE DEF q
    <3> QED BY <1>2, <2>1, <3>1
  <2> QED BY <2>2, <2>3
<1> DEFINE F == {first} \X (1 .. p)  S == {second} \X (1 .. q)
<1>4. Given' \subseteq F \union S
  <2>1. \A i \in Universe : i # NoInstrument
    BY AllocationAssumption DEF Universe
  <2>2. \A i \in Universe : capital'[i] = IF i = first THEN p ELSE IF i = second THEN q ELSE 0
    BY <1>1, <2>1
  <2> SUFFICES ASSUME NEW i \in Universe, NEW x \in {i} \X (1 .. capital'[i]) PROVE x \in F \union S
    BY DEF Given
  <2>3. CASE i = first
    BY <2>2, <2>3
  <2>4. CASE i # first /\ i = second
    BY <2>2, <2>4
  <2>5. CASE i # first /\ i # second
    BY <2>2, <2>5
  <2> QED BY <2>3, <2>4, <2>5
<1>5. /\ IsFiniteSet(F) /\ Cardinality(F) = IF p > 0 THEN p ELSE 0
      /\ IsFiniteSet(S) /\ Cardinality(S) = IF q > 0 THEN q ELSE 0
  <2> HIDE DEF q, first, second
  <2> QED BY <1>2, <1>3, PartsOfOne
<1> HIDE DEF F, S, q
<1>6. /\ IsFiniteSet(F \union S) /\ IsFiniteSet(F \intersect S)
      /\ Cardinality(F \union S) = Cardinality(F) + Cardinality(S) - Cardinality(F \intersect S)
      /\ Cardinality(F \intersect S) \in Nat
  <2>1. IsFiniteSet(F \union S) /\ Cardinality(F \union S) = Cardinality(F) + Cardinality(S) - Cardinality(F \intersect S)
    BY <1>5, FS_Union
  <2>2. IsFiniteSet(F \intersect S)
    BY <1>5, FS_Intersection
  <2> QED BY <2>1, <2>2, FS_CardinalityType
<1>7. Cardinality(Given') <= Cardinality(F \union S) /\ Cardinality(Given') \in Nat
  BY <1>4, <1>6, FS_Subset, FS_CardinalityType
<1>8. Cardinality(Given') <= Pool
  BY <1>2, <1>3, <1>5, <1>6, <1>7
<1> QED BY <1>8 DEF CapitalWithinPool

LEMMA NothingFits ==
    ASSUME NEW c, c = [i \in Universe |-> 0]
    PROVE  Cardinality(UNION {{i} \X (1 .. c[i]) : i \in Universe}) <= Pool
<1>1. \A i \in Universe : {i} \X (1 .. c[i]) = {}
  OBVIOUS
<1>2. UNION {{i} \X (1 .. c[i]) : i \in Universe} = {}
  BY <1>1
<1> QED BY <1>2, FS_EmptySet, AllocationAssumption

\* A cycle with an opportunity has a Primary.
LEMMA CycleFits == ASSUME AllocationNext PROVE CapitalWithinPool'
<1>1. PICK unreadable \in SUBSET Universe, seen \in [Universe -> Scores \union {NoScore}] :
        LET scores == [i \in Universe |-> Score(Universe \ unreadable, seen, i)]
            ranked == {i \in Universe : scores[i] # NoScore}
            live   == \E i \in ranked : scores[i] > 0
        IN /\ score' = scores
           /\ \E correlated \in SUBSET (ranked \ {Select("primary", scores, ranked)}) :
                 holder' = IF live THEN Assigned(scores, ranked, correlated) ELSE Dropped
           /\ capital' = IF live THEN Capital(holder', scores) ELSE [i \in Universe |-> 0]
  BY DEF AllocationNext, RunCycle
<1> DEFINE ranked == {i \in Universe : score'[i] # NoScore}
           live   == \E i \in ranked : score'[i] > 0
<1>2. PICK correlated \in SUBSET Universe :
        holder' = IF live THEN Assigned(score', ranked, correlated) ELSE Dropped
  BY <1>1
<1>3. capital' = IF live THEN Capital(holder', score') ELSE [i \in Universe |-> 0]
  BY <1>1
<1>4. CASE ~live
  <2>1. capital' = [i \in Universe |-> 0]
    BY <1>3, <1>4
  <2>2. Cardinality(Given') <= Pool
    BY <2>1, NothingFits DEF Given
  <2> QED BY <2>2 DEF CapitalWithinPool
<1>5. CASE live
  <2> DEFINE by == Adjusted(score', correlated)
             p  == Select("primary", score', ranked)
             q  == Select("secondary", by, ranked \ {p})
  <2>1. score' \in [Universe -> Int] /\ by \in [Universe -> Int] /\ "primary" \in Roles /\ "secondary" \in Roles
    BY ScoresAreNumbers DEF Adjusted, Roles
  <2> HIDE DEF by
  <2>2. p \in ranked
    <3>1. ranked # {}
      BY <1>5
    <3> HIDE DEF ranked
    <3>2. ranked \subseteq Universe
      BY DEF ranked
    <3>3. Best(score', ranked) \in ranked
      BY <2>1, <3>1, <3>2, BestIsRanked
    <3> QED BY <3>1, <3>3 DEF Select
  <2>3. q \in Universe \union {NoInstrument}
    BY <2>1, SelectIsRanked
  <2>4. holder' = [r \in Roles |-> IF r = "primary" THEN p ELSE q]
    BY <1>2, <1>5 DEF Assigned, by
  <2> HIDE DEF p, q
  <2>5. holder' \in [Roles -> Universe \union {NoInstrument}] /\ holder'["primary"] \in Universe
    BY <2>1, <2>2, <2>3, <2>4
  <2>6. capital' = Capital(holder', score')
    BY <1>3, <1>5
  <2> HIDE DEF live, ranked
  <2> QED BY <2>1, <2>5, <2>6, GivenFits
<1> QED BY <1>4, <1>5

\* Whatever the pool, the score that is bet in full, the scores and the roles: what
\* the instruments are given together fits the tradeable pool.
THEOREM CapitalFits == AllocationSpec => []CapitalWithinPool
<1>1. AllocationInit => CapitalWithinPool
  BY NothingFits DEF AllocationInit, CapitalWithinPool, Given
<1>2. CapitalWithinPool /\ [AllocationNext]_allocationVars => CapitalWithinPool'
  <2>1. CapitalWithinPool /\ UNCHANGED allocationVars => CapitalWithinPool'
    BY DEF CapitalWithinPool, Given, allocationVars
  <2> QED BY <2>1, CycleFits
<1> QED BY <1>1, <1>2, PTL DEF AllocationSpec

-----------------------------------------------------------------------------
\* While a poll is under way, whatever had been issued before it began is gone, still
\* on its list, or in hand.
OnTheList ==
    /\ dir \in [Commands -> Nat] /\ issued \in Nat /\ crashed \in Nat
    /\ \A c \in Commands : dir[c] <= issued
    /\ poller \in [at : {"waiting", "next", "read", "executed"}, left : SUBSET Commands,
                   command : SUBSET Commands, since : Nat]
    /\ poller.at # "waiting" =>
          /\ poller.since <= issued
          /\ \A c \in Commands : \/ dir[c] = 0 \/ dir[c] > poller.since
                                 \/ c \in poller.left \/ c \in poller.command
    /\ poller.at = "next" => poller.command = {}

LEMMA ListNext == OnTheList /\ [ChannelNext]_channelVars => OnTheList'
<1> SUFFICES ASSUME OnTheList, [ChannelNext]_channelVars PROVE OnTheList'
  OBVIOUS
<1> USE DEF OnTheList
<1>1. ASSUME NEW c \in Commands, Issue(c) PROVE OnTheList'
  BY <1>1 DEF Issue
<1>2. CASE List
  <2>1. poller' = [at |-> "next", left |-> {c \in Commands : dir[c] # 0}, command |-> {},
                   since |-> issued]
    BY <1>2 DEF List, Waiting
  <2>2. dir' = dir /\ issued' = issued /\ crashed' = crashed
    BY <1>2 DEF List
  <2> QED BY <2>1, <2>2
<1>3. ASSUME NEW c \in Commands, ReadCommand(c) PROVE OnTheList'
  BY <1>3 DEF ReadCommand
<1>4. CASE Execute
  BY <1>4 DEF Execute
<1>5. CASE RemoveCommand
  <2>1. poller' = [poller EXCEPT !.at = "next", !.command = {}] /\ issued' = issued /\ crashed' = crashed
    BY <1>5 DEF RemoveCommand
  <2>2. \A c \in Commands : dir'[c] = IF c \in poller.command THEN 0 ELSE dir[c]
    BY <1>5 DEF RemoveCommand
  <2>3. dir' \in [Commands -> Nat]
    BY <1>5 DEF RemoveCommand
  <2>4. poller.at # "waiting"
    BY <1>5 DEF RemoveCommand
  <2>5. poller' \in [at : {"waiting", "next", "read", "executed"}, left : SUBSET Commands,
                     command : SUBSET Commands, since : Nat]
        /\ poller'.since = poller.since /\ poller'.left = poller.left
        /\ poller'.at = "next" /\ poller'.command = {}
    BY <2>1
  <2>6. \A c \in Commands : dir'[c] = 0 \/ dir'[c] > poller.since \/ c \in poller.left
    BY <2>2, <2>4
  <2>7. \A c \in Commands : dir'[c] <= issued
    BY <2>2, <2>3
  <2> QED BY <2>1, <2>3, <2>4, <2>5, <2>6, <2>7
<1>6. CASE Return \/ Crash
  BY <1>6 DEF Return, Crash, Waiting
<1>7. CASE UNCHANGED channelVars
  BY <1>7 DEF channelVars
<1> QED BY <1>1, <1>2, <1>3, <1>4, <1>5, <1>6, <1>7 DEF ChannelNext, PollStep

\* One poll takes every command that was issued before it began.
THEOREM PollsTakeAll == ChannelSpec => OnePollIsEnough
<1>1. ChannelInit => OnTheList
  BY DEF ChannelInit, OnTheList, Waiting
<1>2. ASSUME OnTheList, [ChannelNext]_channelVars, poller.at = "next", poller'.at = "waiting",
             UNCHANGED crashed
      PROVE  \A c \in Commands : dir[c] = 0 \/ dir[c] > poller.since
  <2>1. ~Crash
    BY <1>2 DEF OnTheList, Crash
  <2>2. poller' # poller /\ poller'.at # "read"
    BY <1>2
  <2>3. Return
    BY <1>2, <2>1, <2>2 DEF OnTheList, channelVars, ChannelNext, PollStep, Issue, List,
                            ReadCommand, Execute, RemoveCommand, Waiting
  <2> QED BY <1>2, <2>3 DEF OnTheList, Return
<1>3. OnTheList /\ [ChannelNext]_channelVars
      => [poller.at = "next" /\ poller'.at = "waiting" /\ UNCHANGED crashed
          => \A c \in Commands : dir[c] = 0 \/ dir[c] > poller.since]_channelVars
  BY <1>2
<1> QED BY <1>1, <1>3, ListNext, PTL DEF ChannelSpec, OnePollIsEnough
=============================================================================
