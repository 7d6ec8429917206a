--------------------------- MODULE ExchangeCalls ---------------------------
(***************************************************************************)
(* Who calls the exchange, when, and what a ban stops.  The trading        *)
(* process has one adapter and two users of it on one event loop: the      *)
(* reconcile task of LiveExchangeBridge and the order in flight.  The      *)
(* dashboard is another process with an adapter of its own on the same     *)
(* address.  A call is made by the client library (ccxt for Binance,       *)
(* oandapyV20 for OANDA) and answered later; what runs between an answer   *)
(* and the next call of the same user is one step, as nothing awaits.      *)
(*                                                                         *)
(* Behind OANDA a pair is spelled without a separator, so neither of the   *)
(* two assets the bridge asks for is the account's currency: get_balance() *)
(* answers 0 without a call, and the bridge never has anything to trade.   *)
(* The pacing of the client library and amounts are left out: funds says   *)
(* that the equity the bridge saw is above 0.                              *)
(***************************************************************************)
EXTENDS Integers

CONSTANTS
    Venues,         \* of "binance" and "oanda": the broker behind the bridge
    BanFloor,       \* the 120 s of register_ban()
    HeartbeatLife,  \* the 120 s of is_connected()
    Every,          \* reconcile_interval_sec
    MaxTime,        \* bound on the clock
    MaxBans,        \* bound on the exchange's bans
    MaxProcesses    \* bound on the lives of the trading process

ASSUME CallsAssumption ==
    /\ Venues \subseteq {"binance", "oanda"}
    /\ {BanFloor, HeartbeatLife, Every, MaxTime, MaxProcesses} \subseteq Nat \ {0}
    /\ MaxBans \in Nat

Users == {"reconcile", "order", "dashboard"}
Hosts == {"trading", "dashboard"}
HostOf(u) == IF u = "dashboard" THEN "dashboard" ELSE "trading"
\* The reads of a user, in their order.
Reads(u) == CASE u = "reconcile" -> <<"base", "quote">>
              [] u = "order"     -> <<"ticker">>
              [] u = "dashboard" -> <<"balances">>
Calls == {"connect", "base", "quote", "balances", "ticker", "place"}
Never == -1

VARIABLES
    now,       \* time.time()
    venue,     \* config.broker
    banning,   \* the exchange answers 418
    adapter,   \* per host: [connected, heartbeat, bannedUntil]
    call,      \* per user: the call in flight, or "idle"
    dueAt,     \* when the reconcile task wakes up
    funds,     \* accounting.equity > 0
    told,      \* history: when an order of this process was last answered 418
    callCounts \* history: [bans, processes]

callVars == <<now, venue, banning, adapter, call, dueAt, funds, told, callCounts>>

\* BinanceSpotAdapter.__init__() and OandaAdapter.__init__(): no connection yet.
NewAdapter == [connected |-> FALSE, heartbeat |-> Never, bannedUntil |-> Never]

CallsInit ==
    /\ now = 0 /\ venue \in Venues /\ banning = FALSE
    /\ adapter = [h \in Hosts |-> NewAdapter]
    /\ call = [u \in Users |-> "idle"] /\ dueAt = 0 /\ funds = FALSE
    /\ told = Never /\ callCounts = [bans |-> 0, processes |-> 1]

\* is_connected(): OANDA's has no heartbeat.
Alive(h) ==
    /\ adapter[h].connected
    /\ venue = "binance" \/ h = "dashboard" => now - adapter[h].heartbeat < HeartbeatLife

\* is_banned(): a ban of the process's own tracker, as register_ban() noted it.
Banned(h) == now < adapter[h].bannedUntil

\* _post_call_bookkeeping() of a call that was answered.
Heard(h) == [adapter EXCEPT ![h].heartbeat = now]

\* What follows when user u comes to its call c: a call within a known ban
\* raises, which ends what the user was doing.
Ask(u, c) == call' = [call EXCEPT ![u] = IF Banned(HostOf(u)) THEN "idle" ELSE c]

Ends(u)   == call' = [call EXCEPT ![u] = "idle"]
Sleeps(u) == IF u = "reconcile" THEN dueAt' = now + Every ELSE UNCHANGED dueAt

----------------------------------------------------------------------------
\* connect() creates a client and loads the markets: it asks for no ban.
FirstCall(u) ==
    IF Alive(HostOf(u)) THEN Ask(u, Reads(u)[1])
    ELSE call' = [call EXCEPT ![u] = "connect"]

\* _reconcile_once() of the loop, and api_balance() of a browser that asks.
Begin(u) ==
    /\ u # "order" /\ call[u] = "idle"
    /\ u = "reconcile" => now >= dueAt /\ ~(venue = "oanda" /\ Alive("trading"))
    /\ FirstCall(u)
    /\ IF call'[u] = "idle" THEN Sleeps(u) ELSE UNCHANGED dueAt
    /\ UNCHANGED <<now, venue, banning, adapter, funds, told, callCounts>>

\* connect() is answered.  Behind OANDA what follows needs no call: two
\* balances of 0.
Connected(u) ==
    /\ call[u] = "connect"
    /\ LET h == HostOf(u)
       IN  \/ /\ banning => venue = "oanda" /\ u = "reconcile"
              /\ adapter' = [adapter EXCEPT ![h].connected = TRUE, ![h].heartbeat = now]
              /\ IF venue = "oanda" /\ u = "reconcile" THEN Ends(u) ELSE Ask(u, Reads(u)[1])
           \/ /\ adapter' = [adapter EXCEPT ![h].connected = FALSE]
              /\ Ends(u)
    /\ IF call'[u] = "idle" THEN Sleeps(u) ELSE UNCHANGED dueAt
    /\ UNCHANGED <<now, venue, banning, funds, told, callCounts>>

\* get_balance() and get_all_balances() are answered; an error, a 418 among
\* them, raises and is noted nowhere.
BalanceRead(u) ==
    /\ call[u] \in {"base", "quote", "balances"}
    /\ \/ /\ ~banning
          /\ adapter' = Heard(HostOf(u))
          /\ IF call[u] = "base" THEN Ask(u, "quote") /\ UNCHANGED funds
             ELSE Ends(u) /\ funds' = (funds \/ u = "reconcile")
       \/ Ends(u) /\ UNCHANGED <<adapter, funds>>
    /\ IF call'[u] = "idle" THEN Sleeps(u) ELSE UNCHANGED dueAt
    /\ UNCHANGED <<now, venue, banning, told, callCounts>>

\* submit_target_position() to place_market_order(): first the ticker.
OrderBegins ==
    /\ call["order"] = "idle" /\ funds
    /\ Ask("order", "ticker")
    /\ UNCHANGED <<now, venue, banning, adapter, dueAt, funds, told, callCounts>>

\* The ticker is answered, or its error is swallowed, a 418 too.  Then the
\* filters may refuse the order locally, or it is sent with no new test.
TickerRead ==
    /\ call["order"] = "ticker"
    /\ \/ ~banning /\ adapter' = Heard("trading")
       \/ UNCHANGED adapter
    /\ \E next \in {"idle", "place"} : call' = [call EXCEPT !["order"] = next]
    /\ UNCHANGED <<now, venue, banning, dueAt, funds, told, callCounts>>

\* register_ban() with no time to retry at, which is how it is always called.
RegisterBan == [adapter EXCEPT !["trading"].bannedUntil = now + BanFloor]

\* Variation: a ban is one more rejection, as it once was.
OrderAnsweredAsRejected ==
    /\ call["order"] = "place"
    /\ Ends("order")
    /\ \/ ~banning /\ adapter' = Heard("trading") /\ UNCHANGED told
       \/ ~banning /\ UNCHANGED <<adapter, told>>
       \/ banning /\ told' = now /\ UNCHANGED adapter
    /\ UNCHANGED <<now, venue, banning, dueAt, funds, callCounts>>

\* The order is answered: filled, or an error that _handle_ccxt_exception()
\* takes for a ban only when the exchange says so.
OrderAnswered ==
    /\ call["order"] = "place"
    /\ Ends("order")
    /\ \/ ~banning /\ adapter' = Heard("trading") /\ UNCHANGED told
       \/ ~banning /\ UNCHANGED <<adapter, told>>
       \/ banning /\ adapter' = RegisterBan /\ told' = now
    /\ UNCHANGED <<now, venue, banning, dueAt, funds, callCounts>>

\* close() of the bridge and the adapter, and a new process: the ban is
\* forgotten with the tracker.
NewProcess ==
    /\ callCounts.processes < MaxProcesses
    /\ callCounts' = [callCounts EXCEPT !.processes = @ + 1]
    /\ adapter' = [adapter EXCEPT !["trading"] = NewAdapter]
    /\ call' = [u \in Users |-> IF u = "dashboard" THEN call[u] ELSE "idle"]
    /\ dueAt' = now /\ funds' = FALSE /\ told' = Never
    /\ UNCHANGED <<now, venue, banning>>

----------------------------------------------------------------------------
\* The exchange bans the address, and forgives it.
ExchangeBans ==
    /\ ~banning /\ callCounts.bans < MaxBans
    /\ banning' = TRUE /\ callCounts' = [callCounts EXCEPT !.bans = @ + 1]
    /\ UNCHANGED <<now, venue, adapter, call, dueAt, funds, told>>

ExchangeForgives ==
    /\ banning /\ banning' = FALSE
    /\ UNCHANGED <<now, venue, adapter, call, dueAt, funds, told, callCounts>>

CallTick ==
    /\ now < MaxTime /\ now' = now + 1
    /\ UNCHANGED <<venue, banning, adapter, call, dueAt, funds, told, callCounts>>

CallsNext ==
    \/ \E u \in Users : Begin(u) \/ Connected(u) \/ BalanceRead(u)
    \/ OrderBegins \/ TickerRead \/ OrderAnswered \/ NewProcess
    \/ ExchangeBans \/ ExchangeForgives \/ CallTick

CallsSpec == CallsInit /\ [][CallsNext]_callVars

----------------------------------------------------------------------------
\* User u makes a call in this step.
Makes(u) == call'[u] # call[u] /\ call'[u] # "idle"

\* Once an order was answered 418, the process makes no call for as long as the
\* tracker's floor, by whichever of its users; only a reconnection, which a
\* heartbeat that ran out asks for, goes by the tracker.
BanStopsCalls ==
    [][\A u \in {"reconcile", "order"} :
          Makes(u) /\ told # Never /\ now < told + BanFloor => call'[u] = "connect"]_callVars
=============================================================================
