------------------------------ MODULE DepthFeed ------------------------------
(***************************************************************************)
(* The local copy of the exchange's order book: LocalOrderBook of          *)
(* data_forge/lob_collector.py, kept by two clients of Binance's depth     *)
(* stream, BinanceLiveDepthFeed of execution/binance_live_feed.py (the     *)
(* live process) and LOBCollector (the archive).                           *)
(*                                                                         *)
(* The exchange numbers its updates; an update changes one price level,    *)
(* and the quantity at a level is the number of the update that set it.    *)
(* What the stream sends is a diff: the levels that the updates            *)
(* first .. last touched.  A diff sent while nobody is connected is lost.  *)
(***************************************************************************)
EXTENDS Integers, Sequences, FiniteSetsExt

CONSTANTS
    Levels,       \* price levels
    Clients,      \* which clients to explore: a subset of {"live", "collector"}
    RestLag,      \* how many updates a REST snapshot may be old
    MaxResyncs,   \* max_resyncs_before_giveup: 20
    MaxUpdates,   \* bound: updates of the exchange
    MaxBreaks,    \* bound: connections that break
    MaxRestFails  \* bound: REST requests that fail

ASSUME FeedAssumption ==
    /\ Clients \subseteq {"live", "collector"} /\ RestLag \in Nat /\ MaxResyncs \in Nat
    /\ MaxUpdates \in Nat /\ MaxBreaks \in Nat /\ MaxRestFails \in Nat

VARIABLES
    client,     \* who runs
    touched,    \* the exchange: the level each update changed
    sent,       \* the last update the stream told this connection
    wire,       \* the socket: [up, diffs], the diffs not read yet
    book,       \* LocalOrderBook: [levels, last, initialized]
    feedAt,     \* where run() is
    resyncs,    \* resync_count
    breaks,     \* connections broken
    restFails   \* REST requests failed

feedVars == <<client, touched, sent, wire, book, feedAt, resyncs, breaks, restFails>>

LatestUpdate == Len(touched)

\* The exchange's own book after its first n updates.
TrueBook(n) == [l \in Levels |-> Max({0} \union {i \in 1 .. n : touched[i] = l})]

FeedInit ==
    /\ client \in Clients
    /\ touched = <<>> /\ sent = 0
    /\ wire = [up |-> FALSE, diffs |-> <<>>]
    /\ book = [levels |-> [l \in Levels |-> 0], last |-> 0, initialized |-> FALSE]
    /\ feedAt = IF client = "live" THEN "first" ELSE "connecting"
    /\ resyncs = 0 /\ breaks = 0 /\ restFails = 0

-----------------------------------------------------------------------------
\* The exchange: a level changes ...
UpdateLevel(l) ==
    /\ LatestUpdate < MaxUpdates
    /\ touched' = Append(touched, l)
    /\ UNCHANGED <<client, sent, wire, book, feedAt, resyncs, breaks, restFails>>

\* ... every 100 ms the stream sends what changed ...
SendDiff ==
    /\ wire.up /\ sent < LatestUpdate
    /\ wire' = [wire EXCEPT !.diffs = Append(@, [first |-> sent + 1, final |-> LatestUpdate])]
    /\ sent' = LatestUpdate
    /\ UNCHANGED <<client, touched, book, feedAt, resyncs, breaks, restFails>>

\* ... and a connection breaks, with whatever was still on its way.
Break ==
    /\ wire.up /\ breaks < MaxBreaks
    /\ \E n \in 0 .. Len(wire.diffs) : wire' = [up |-> FALSE, diffs |-> SubSeq(wire.diffs, 1, n)]
    /\ breaks' = breaks + 1
    /\ UNCHANGED <<client, touched, sent, book, feedAt, resyncs, restFails>>

-----------------------------------------------------------------------------
\* apply_snapshot(): the book is replaced.
Snapshot(n) == [levels |-> TrueBook(n), last |-> n, initialized |-> TRUE]

\* _fetch_rest_snapshot() answers.
RestAnswers ==
    \E n \in 0 .. LatestUpdate : n + RestLag >= LatestUpdate /\ book' = Snapshot(n)

RestRefuses ==
    /\ restFails < MaxRestFails
    /\ restFails' = restFails + 1
    /\ UNCHANGED book

\* ws_connect(): what changed before is not sent.  The live feed asked for its
\* first snapshot before this, the collector asks after it.
Connect ==
    /\ feedAt = "connecting"
    /\ wire' = [up |-> TRUE, diffs |-> <<>>]
    /\ sent' = LatestUpdate
    /\ feedAt' = IF client = "collector" THEN "first" ELSE "reading"
    /\ UNCHANGED <<client, touched, book, resyncs, breaks, restFails>>

\* The first snapshot: without it run() ends.
FirstSnapshot ==
    /\ feedAt = "first"
    /\ \/ /\ RestAnswers
          /\ feedAt' = IF client = "live" THEN "connecting" ELSE "reading"
          /\ UNCHANGED restFails
       \/ /\ RestRefuses
          /\ feedAt' = "ended"
    /\ UNCHANGED <<client, touched, sent, wire, resyncs, breaks>>

\* apply_diff() for one diff: stale, after a gap, or applied.
Stale(d) == d.final <= book.last

\* Variation: one missing update is not a gap.
GapOffByOne(d) == book.initialized /\ d.first > book.last + 2
Gap(d)         == book.initialized /\ d.first > book.last + 1

Applied(d) ==
    [book EXCEPT !.last = d.final,
                 !.levels = [l \in Levels |->
                     IF \E i \in d.first .. d.final : touched[i] = l
                     THEN TrueBook(d.final)[l] ELSE @[l]]]

\* run() takes the next message.  A gap starts _resync(); the live feed gives up
\* after too many, the collector never does.
ReadDiff ==
    LET d == Head(wire.diffs) IN
    /\ feedAt = "reading" /\ wire.diffs # <<>>
    /\ wire' = [wire EXCEPT !.diffs = Tail(@)]
    /\ \/ /\ Stale(d)
          /\ UNCHANGED <<book, resyncs, feedAt>>
       \/ /\ ~Stale(d) /\ Gap(d)
          /\ resyncs' = resyncs + 1
          /\ IF client = "live" /\ resyncs + 1 > MaxResyncs
             THEN feedAt' = "ended" /\ UNCHANGED book
             ELSE feedAt' = "resyncing" /\ book' = [book EXCEPT !.initialized = FALSE]
       \/ /\ ~Stale(d) /\ ~Gap(d)
          /\ book' = Applied(d)
          /\ UNCHANGED <<resyncs, feedAt>>
    /\ UNCHANGED <<client, touched, sent, breaks, restFails>>

\* _resync(): a refused request is slept over, and reading goes on.
Resync ==
    /\ feedAt = "resyncing"
    /\ \/ RestAnswers /\ UNCHANGED restFails
       \/ RestRefuses
    /\ feedAt' = "reading"
    /\ UNCHANGED <<client, touched, sent, wire, resyncs, breaks>>

\* The socket is closed: the live feed connects again, with the book it has;
\* the collector's run() ends.
Closed ==
    /\ feedAt = "reading" /\ ~wire.up /\ wire.diffs = <<>>
    /\ feedAt' = IF client = "live" THEN "connecting" ELSE "ended"
    /\ UNCHANGED <<client, touched, sent, wire, book, resyncs, breaks, restFails>>

ClientStep == Connect \/ FirstSnapshot \/ ReadDiff \/ Resync \/ Closed

FeedNext ==
    \/ \E l \in Levels : UpdateLevel(l)
    \/ SendDiff \/ Break
    \/ ClientStep

FeedSpec == FeedInit /\ [][FeedNext]_feedVars
-----------------------------------------------------------------------------
\* A book that passes for initialized, the only kind that is traded on or
\* stored, is the exchange's own as of its last update: no loss, break, old
\* snapshot or overlap of diff and snapshot leaves a wrong level.
BookIsExact == book.initialized => book.levels = TrueBook(book.last)
=============================================================================
