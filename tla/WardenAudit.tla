---------------------------- MODULE WardenAudit ----------------------------
(***************************************************************************)
(* The Warden over its children: warden/warden_core.py, run by two         *)
(* processes of warden/compute_server.py that share only files (the API    *)
(* server, one request at a time, and the auditor, every few seconds or    *)
(* ticks), the watchdog's lock (warden/oom_watchdog.py), the containers    *)
(* that scripts/genesis_prime.py started and the quarantine events that    *)
(* data_forge writes.                                                      *)
(*                                                                         *)
(* A ledger's newest row is "missing", "broke" (the tax exceeds what is    *)
(* left), "poor", "fair" or "top", which is what assign_memory_tier()      *)
(* tells apart; a child with few ticks is "fair".  The tax itself is       *)
(* ChildLedger's subject.                                                  *)
(***************************************************************************)
EXTENDS Integers, Sequences, FiniteSets

CONSTANTS
    SwarmSize,   \* children are 0 .. SwarmSize - 1
    Files,       \* files that may fail their schema
    Strikes,     \* events that isolate a file: 3 in the code
    MaxEvents,   \* bound: quarantine events of one file
    Rows,        \* what a child's trading may make of its ledger
    Docker,      \* whether docker is installed: else the children are threads
    MaxApiAudits,\* bound: POST /run_audit
    NoTier

ASSUME WardenAssumption ==
    /\ SwarmSize \in Nat \ {0} /\ Strikes \in Nat \ {0} /\ MaxEvents \in Nat
    /\ Docker \in BOOLEAN /\ MaxApiAudits \in Nat
    /\ Rows \subseteq {"broke", "poor", "fair", "top"}

VARIABLES
    row,        \* the newest row of each ledger
    locked,     \* the newest oom_penalties.lock_until is ahead
    quota,      \* the tier in vram_quota.json
    running,    \* names of the containers that run
    stale,      \* the heartbeat is more than four hours old
    log,        \* quarantine_events.jsonl
    strikes,    \* quarantine_retries.retry_count of the files not in the DLQ
    deadLetter, \* files whose status is DLQ
    asked,      \* audits the API was asked for
    proc,       \* what the two processes are doing
    appended,   \* history: events written for each file
    overlapped  \* history: both processes read the same events

child      == <<row, locked>>
quarantine == <<log, strikes, deadLetter, appended, overlapped>>
wardenVars == <<row, locked, quota, running, stale, log, strikes, deadLetter,
                asked, proc, appended, overlapped>>

Swarm     == 0 .. SwarmSize - 1
Processes == {"api", "auditor"}

SpawnedAs(c) == <<"tradejack_child", c>>   \* spawn_sovereign_swarm()
KnownAs(c)   == <<"swarm_child", c>>       \* terminate_insolvent_child()

Resting == [at |-> "idle", healthy |-> TRUE, lines |-> <<>>, kid |-> 0,
            seen |-> "missing", lock |-> FALSE, alive |-> {}, freed |-> {}]

WardenInit ==
    /\ row = [c \in Swarm |-> "missing"]
    /\ locked = [c \in Swarm |-> FALSE]
    /\ quota = [c \in Swarm |-> NoTier]
    /\ running = IF Docker THEN {SpawnedAs(c) : c \in Swarm} ELSE {}
    /\ stale = FALSE
    /\ log = <<>> /\ strikes = [f \in Files |-> 0] /\ deadLetter = {}
    /\ asked = 0
    /\ proc = [p \in Processes |-> Resting]
    /\ appended = [f \in Files |-> 0] /\ overlapped = FALSE

-----------------------------------------------------------------------------
\* The child's accounting writes a row; a stopped container writes none.
Trade(c) ==
    /\ Docker => SpawnedAs(c) \in running
    /\ \E r \in Rows : row' = [row EXCEPT ![c] = r]
    /\ UNCHANGED <<asked, locked, quota, running, stale, proc, quarantine>>

\* apply_oom_penalty() and the end of its day.
LockOrExpire(c) ==
    /\ locked' = [locked EXCEPT ![c] = ~@]
    /\ UNCHANGED <<asked, row, quota, running, stale, proc, quarantine>>

\* live_tail_daemon's heartbeat grows old, or comes back.
Heartbeat ==
    /\ stale' = ~stale
    /\ UNCHANGED <<asked, child, quota, running, proc, quarantine>>

\* _validate_schema_lazy(): one appended line.
Quarantine(f) ==
    /\ appended[f] < MaxEvents
    /\ log' = Append(log, f)
    /\ appended' = [appended EXCEPT ![f] = @ + 1]
    /\ UNCHANGED <<asked, child, quota, running, stale, strikes, deadLetter, proc, overlapped>>

-----------------------------------------------------------------------------
\* _audit_worker_process(): five seconds or 500 ticks
\* have passed, which may be at any time.
AuditDue ==
    /\ proc["auditor"].at = "idle"
    /\ proc' = [proc EXCEPT !["auditor"].at = "checking"]
    /\ UNCHANGED <<asked, child, quota, running, stale, quarantine>>

\* POST /run_audit.
RunAudit ==
    /\ proc["api"].at = "idle" /\ asked < MaxApiAudits
    /\ asked' = asked + 1
    /\ proc' = [proc EXCEPT !["api"].at = "checking"]
    /\ UNCHANGED <<child, quota, running, stale, quarantine>>

Begin(p, healthy) == [proc[p] EXCEPT !.at = "reading", !.healthy = healthy, !.kid = 0,
                                     !.lines = <<>>, !.alive = {}, !.freed = {}]

\* _check_data_pipeline_health(): an old heartbeat ends it.  Else the log is read ...
CheckHealth(p) ==
    /\ proc[p].at = "checking"
    /\ proc' = [proc EXCEPT ![p] = IF stale THEN Begin(p, FALSE)
                                   ELSE [@ EXCEPT !.at = "truncating", !.lines = log]]
    /\ overlapped' = (overlapped \/ (~stale /\ log # <<>>
                         /\ \E q \in Processes \ {p} : proc[q].at = "truncating"))
    /\ UNCHANGED <<asked, child, quota, running, stale, log, strikes, deadLetter, appended>>

\* ... emptied, with whatever was appended since ...
Truncate(p) ==
    /\ proc[p].at = "truncating"
    /\ log' = <<>>
    /\ proc' = [proc EXCEPT ![p].at = "counting"]
    /\ UNCHANGED <<asked, child, quota, running, stale, strikes, deadLetter, appended, overlapped>>

Count(f, lines) == Cardinality({i \in DOMAIN lines : lines[i] = f})

\* Variation: one strike fewer.
StruckOutEarly(p) == {f \in Files \ deadLetter :
                        Count(f, proc[p].lines) > 0 /\ strikes[f] + Count(f, proc[p].lines) >= Strikes - 1}

\* The last strike isolates the file.
StruckOut(p) == {f \in Files \ deadLetter :
                   Count(f, proc[p].lines) > 0 /\ strikes[f] + Count(f, proc[p].lines) >= Strikes}

\* ... and counted in one transaction; an exception leaves nothing counted, and
\* the pipeline healthy.
CountStrikes(p) ==
    /\ proc[p].at = "counting"
    /\ \/ /\ deadLetter' = deadLetter \union StruckOut(p)
          /\ strikes' = [f \in Files |-> IF f \in deadLetter \union StruckOut(p) THEN strikes[f]
                                         ELSE strikes[f] + Count(f, proc[p].lines)]
          /\ proc' = [proc EXCEPT ![p] = Begin(p, StruckOut(p) = {})]
       \/ /\ proc[p].lines # <<>>
          /\ proc' = [proc EXCEPT ![p] = Begin(p, TRUE)]
          /\ UNCHANGED <<strikes, deadLetter>>
    /\ UNCHANGED <<asked, child, quota, running, stale, log, appended, overlapped>>

-----------------------------------------------------------------------------
\* Variation: the alpha is looked at before the lock.
TierByAlphaFirst(healthy, seen, lock) ==
    CASE ~healthy      -> 3
      [] seen = "top"  -> 1
      [] lock          -> 3
      [] seen = "fair" -> 2
      [] OTHER         -> 3

\* assign_memory_tier() for a summary that is alive.
Tier(healthy, seen, lock) ==
    CASE ~healthy      -> 3
      [] lock          -> 3
      [] seen = "top"  -> 1
      [] seen = "fair" -> 2
      [] OTHER         -> 3

\* The next child, or the end of the cycle.
Advance(p) ==
    [proc[p] EXCEPT !.at = IF proc[p].kid + 1 = SwarmSize THEN "respawning" ELSE "reading",
                    !.kid = (proc[p].kid + 1) % SwarmSize, !.seen = "missing", !.lock = FALSE]

\* run_audit_cycle() at one child: the summary, alive by default, from the newest row.
ReadLedger(p) ==
    LET c == proc[p].kid IN
    /\ proc[p].at = "reading"
    /\ proc' = [proc EXCEPT ![p] = [@ EXCEPT !.at = "judging", !.seen = row[c], !.lock = locked[c]]]
    /\ UNCHANGED <<asked, child, quota, running, stale, quarantine>>

\* apply_survival_tax() and terminate_insolvent_child(): without docker the purge
\* raises and the child passes for alive.
Purge(p) ==
    LET c == proc[p].kid IN
    /\ proc[p].at = "judging" /\ proc[p].seen = "broke" /\ Docker
    /\ running' = running \ {KnownAs(c)}
    /\ proc' = [proc EXCEPT ![p] = [Advance(p) EXCEPT !.freed = @ \union {c}]]
    /\ UNCHANGED <<asked, child, quota, stale, quarantine>>

\* A ledger that is missing or has no row: the slot is free.
Skip(p) ==
    LET c == proc[p].kid IN
    /\ proc[p].at = "judging" /\ proc[p].seen = "missing"
    /\ proc' = [proc EXCEPT ![p] = [Advance(p) EXCEPT !.freed = @ \union {c}]]
    /\ UNCHANGED <<asked, child, quota, running, stale, quarantine>>

\* assign_memory_tier() and _enforce_container_hardware_slice().
Assign(p) ==
    LET c == proc[p].kid IN
    /\ proc[p].at = "judging" /\ proc[p].seen # "missing" /\ ~(proc[p].seen = "broke" /\ Docker)
    /\ quota' = [quota EXCEPT ![c] = Tier(proc[p].healthy, proc[p].seen, proc[p].lock)]
    /\ proc' = [proc EXCEPT ![p] = [Advance(p) EXCEPT !.alive = @ \union {c}]]
    /\ UNCHANGED <<asked, child, running, stale, quarantine>>

\* The freed slots, as many as there are parents, in the order of the children;
\* init_child_ledger() writes a first row where there is none, and only there.
Respawned(p) ==
    {c \in proc[p].freed : Cardinality({d \in proc[p].freed : d < c}) < Cardinality(proc[p].alive)}

Respawn(p) ==
    /\ proc[p].at = "respawning"
    /\ row' = [c \in Swarm |-> IF c \in Respawned(p) /\ row[c] = "missing" THEN "fair" ELSE row[c]]
    /\ proc' = [proc EXCEPT ![p] = [Resting EXCEPT !.healthy = (p = "auditor" \/ proc[p].healthy)]]
    /\ UNCHANGED <<asked, locked, quota, running, stale, quarantine>>

\* POST /petition_vram: the ledger is read ...
Petition(c) ==
    /\ proc["api"].at = "idle" /\ row[c] # "missing"
    /\ proc' = [proc EXCEPT !["api"] = [@ EXCEPT !.at = "petition", !.kid = c,
                                                 !.seen = row[c], !.lock = locked[c]]]
    /\ UNCHANGED <<asked, child, quota, running, stale, quarantine>>

\* ... and answered by the tier, for which this process's own view of the
\* pipeline counts; no tax is applied and nobody is purged.
Answer ==
    /\ proc["api"].at = "petition"
    /\ quota' = [quota EXCEPT ![proc["api"].kid] =
                    Tier(proc["api"].healthy, proc["api"].seen, proc["api"].lock)]
    /\ proc' = [proc EXCEPT !["api"] = [Resting EXCEPT !.healthy = proc["api"].healthy]]
    /\ UNCHANGED <<asked, child, running, stale, quarantine>>

-----------------------------------------------------------------------------
AuditStep(p) ==
    \/ CheckHealth(p) \/ Truncate(p) \/ CountStrikes(p)
    \/ ReadLedger(p) \/ Purge(p) \/ Skip(p) \/ Assign(p) \/ Respawn(p)

WardenNext ==
    \/ \E c \in Swarm : Trade(c) \/ LockOrExpire(c) \/ Petition(c)
    \/ Heartbeat
    \/ \E f \in Files : Quarantine(f)
    \/ AuditDue \/ RunAudit
    \/ \E p \in Processes : AuditStep(p)
    \/ Answer

WardenSpec     == WardenInit /\ [][WardenNext]_wardenVars
FairWardenSpec == WardenSpec /\ WF_wardenVars(AuditDue \/ AuditStep("auditor"))

-----------------------------------------------------------------------------
\* A child that the watchdog locked, or whose data went stale, is cut to tier 3,
\* whatever its ledger earned it and whatever the API grants in between, unless
\* it goes broke or the reason passes first.
RestrictionsReachTheChild ==
    \A c \in Swarm :
        /\ (locked[c] /\ row[c] # "missing") ~> (quota[c] = 3 \/ ~locked[c] \/ row[c] = "broke")
        /\ (stale /\ row[c] # "missing") ~> (quota[c] = 3 \/ ~stale \/ row[c] = "broke")

\* No file is erased and isolated before enough events of its own, unless both
\* processes read the same ones.
DeadLettersEarned == \A f \in deadLetter : appended[f] >= Strikes \/ overlapped
=============================================================================
