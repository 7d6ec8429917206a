-------------------------- MODULE ProcessSupervisor --------------------------
(***************************************************************************)
(* scripts/process_supervisor.py over the trading process it runs,         *)
(* scripts/genesis_prime.py's run_live().  The supervisor's main loop and  *)
(* its signal handler share one thread: a signal is delivered between two  *)
(* statements and the loop resumes when the handler returns.  Durations    *)
(* are whole units of time, kept as the time left or the time gone by, so  *)
(* nothing bounds how long the system runs.                                *)
(***************************************************************************)
EXTENDS Integers, Sequences, FiniteSetsExt

CONSTANTS
    InitialBackoff, MaxBackoff,  \* initial_backoff_sec, max_backoff_sec
    Multiplier,                  \* backoff_multiplier
    MaxRestarts, Window,         \* max_restarts, restart_window
    Faults,                      \* "killed": the supervisor itself dies, as by SIGKILL
    MaxOrphans                   \* bound on trading processes left without a supervisor

ASSUME SupervisorAssumption ==
    /\ {InitialBackoff, MaxBackoff, Multiplier, MaxRestarts, MaxOrphans} \subseteq Nat \ {0}
    /\ InitialBackoff <= MaxBackoff
    /\ Window \in Nat /\ MaxBackoff <= Window
    /\ Faults \subseteq {"killed"}

VARIABLES
    pc,            \* where run() is; "off" before the first run, "done" when it has
                   \* returned, "killed" when its process was
    handler,       \* the signal handler is waiting for the child to exit
    shuttingDown,  \* _shutting_down
    held,          \* _proc is the latest child (else None, or a child that has exited)
    restarts,      \* _restart_timestamps: the age of each
    backoff,       \* _current_backoff
    sleepLeft,     \* what is left of time.sleep(_current_backoff)
    alert,         \* CIRCUIT_BREAKER_OPEN.json exists
    child,         \* the latest child: none, booting, trading, stopping, dead
    code,          \* its exit code once dead: 0, or 1 for any other
    asked,         \* somebody sent it SIGTERM
    orphans,       \* processes still trading that a supervisor has left behind
    causes,        \* what has left children behind: "raced", "killed"
    spawns         \* the ages of this supervisor's latest spawns, up to Window + 1

loop  == <<pc, shuttingDown, held, restarts, backoff, sleepLeft, alert>>
proc  == <<child, code, asked>>
past  == <<causes, spawns>>
vars  == <<loop, handler, proc, orphans, past>>

Live == child \in {"booting", "trading", "stopping"}

Init ==
    /\ pc = "off" /\ handler = FALSE /\ shuttingDown = FALSE /\ held = FALSE
    /\ restarts = <<>> /\ backoff = InitialBackoff /\ sleepLeft = 0 /\ alert = FALSE
    /\ child = "none" /\ code = 0 /\ asked = FALSE /\ orphans = 0
    /\ causes = {} /\ spawns = <<>>

-----------------------------------------------------------------------------
Up == pc \notin {"off", "done", "killed"}

\* The supervisor's process ends: a child still alive goes on without it.
Leave(how) ==
    /\ pc' = how
    /\ orphans' = orphans + (IF Live THEN 1 ELSE 0)
    /\ child' = IF Live THEN "none" ELSE child

\* run() refuses while the alert file exists.
Refused == alert

\* An operator, or the OS, runs the script.
Start ==
    /\ ~Up /\ orphans < MaxOrphans
    /\ pc' = IF Refused THEN "done" ELSE "loop"
    /\ shuttingDown' = FALSE /\ held' = FALSE
    /\ restarts' = <<>> /\ backoff' = InitialBackoff /\ sleepLeft' = 0
    /\ child' = "none" /\ code' = 0 /\ asked' = FALSE
    /\ spawns' = <<>>
    /\ UNCHANGED <<alert, handler, orphans, causes>>

\* while not self._shutting_down
Loop ==
    /\ pc = "loop" /\ ~handler
    /\ pc' = IF shuttingDown THEN "done" ELSE "spawning"
    /\ UNCHANGED <<shuttingDown, held, restarts, backoff, sleepLeft, alert,
                   handler, proc, orphans, past>>

\* self._proc = self._spawn(): the child exists before the attribute names it.
Fork ==
    /\ pc = "spawning" /\ ~handler
    /\ pc' = "forked" /\ held' = FALSE
    /\ child' = "booting" /\ code' = 0 /\ asked' = FALSE
    /\ spawns' = Append(IF Len(spawns) > MaxRestarts THEN Tail(spawns) ELSE spawns, 0)
    /\ UNCHANGED <<shuttingDown, restarts, backoff, sleepLeft, alert, handler, orphans, causes>>

Assign ==
    /\ pc = "forked" /\ ~handler
    /\ pc' = "polling" /\ held' = TRUE
    /\ UNCHANGED <<shuttingDown, restarts, backoff, sleepLeft, alert,
                   handler, proc, orphans, past>>

\* The inner loop ends when the child has exited, or else when a shutdown is on.
InnerLoopEnds == child = "dead" \/ shuttingDown

Poll ==
    /\ pc = "polling" /\ ~handler
    /\ InnerLoopEnds
    /\ pc' = "ended"
    /\ UNCHANGED <<shuttingDown, held, restarts, backoff, sleepLeft, alert,
                   handler, proc, orphans, past>>

-----------------------------------------------------------------------------
\* _record_restart(): the new time goes in, those older than the window go out
\* from the front.
Recorded ==
    LET all == Append(restarts, 0)
    IN  SubSeq(all, Min({i \in DOMAIN all : all[i] <= Window}), Len(all))

TrippedLate(times) == Len(times) > MaxRestarts

Tripped(times) == Len(times) >= MaxRestarts

\* A shutdown, or the child's exit code 0, ends run() with 0.
StopCleanly ==
    /\ pc = "ended" /\ ~handler
    /\ shuttingDown \/ code = 0
    /\ Leave("done")
    /\ UNCHANGED <<shuttingDown, held, restarts, backoff, sleepLeft, alert,
                   handler, code, asked, past>>

\* Variation: the breaker opens, and nobody is told.
RecordRestartUnpaged ==
    /\ pc = "ended" /\ ~handler
    /\ ~shuttingDown /\ code # 0
    /\ restarts' = Recorded
    /\ IF Tripped(Recorded) THEN pc' = "done" /\ sleepLeft' = sleepLeft
                           ELSE pc' = "backoff" /\ sleepLeft' = backoff
    /\ UNCHANGED <<alert, shuttingDown, held, backoff, handler, proc, orphans, past>>

\* Any other exit is recorded; the breaker opens for good, or the loop backs off.
RecordRestart ==
    /\ pc = "ended" /\ ~handler
    /\ ~shuttingDown /\ code # 0
    /\ restarts' = Recorded
    /\ \/ /\ Tripped(Recorded)
          /\ alert' = TRUE /\ pc' = "done" /\ sleepLeft' = sleepLeft
       \/ /\ ~Tripped(Recorded)
          /\ pc' = "backoff" /\ sleepLeft' = backoff /\ alert' = alert
    /\ UNCHANGED <<shuttingDown, held, backoff, handler, proc, orphans, past>>

\* A signal does not cut the sleep short.
Rested == sleepLeft = 0

NextBackoff == Min({backoff * Multiplier, MaxBackoff})

Wake ==
    /\ pc = "backoff" /\ ~handler /\ Rested
    /\ pc' = "loop"
    /\ backoff' = NextBackoff
    /\ UNCHANGED <<shuttingDown, held, restarts, sleepLeft, alert,
                   handler, proc, orphans, past>>

-----------------------------------------------------------------------------
\* SIGTERM reaches the child: run_live() installs its handler only once the server
\* and the trainer are built, and until then the default action kills the process.
Terminated ==
    /\ child' = IF child = "booting" THEN "dead" ELSE "stopping"
    /\ code' = IF child = "booting" THEN 1 ELSE code
    /\ asked' = TRUE

\* SIGINT or SIGTERM to the supervisor, between any two statements of the loop.
Signal ==
    /\ Up /\ ~handler
    /\ shuttingDown' = TRUE
    /\ IF held /\ Live
       THEN Terminated /\ handler' = TRUE
       ELSE UNCHANGED <<proc, handler>>
    /\ causes' = IF pc \in {"spawning", "forked"} THEN causes \cup {"raced"} ELSE causes
    /\ UNCHANGED <<pc, held, restarts, backoff, sleepLeft, alert, orphans, spawns>>

HandlerDoesNotWait == handler /\ handler' = FALSE /\ UNCHANGED <<loop, proc, orphans, past>>
HandlerNeverKills == handler /\ Live /\ UNCHANGED vars

\* _poll_wait() has seen the child exit.
HandlerReturns ==
    /\ handler /\ child = "dead"
    /\ handler' = FALSE
    /\ UNCHANGED <<loop, proc, orphans, past>>

\* graceful_shutdown_timeout_sec has passed: SIGKILL.
HandlerKills ==
    /\ handler /\ Live
    /\ child' = "dead" /\ code' = 1
    /\ handler' = FALSE
    /\ UNCHANGED <<loop, asked, orphans, past>>

SupervisorDies ==
    /\ "killed" \in Faults
    /\ Up
    /\ Leave("killed") /\ handler' = FALSE
    /\ causes' = IF Live THEN causes \cup {"killed"} ELSE causes
    /\ UNCHANGED <<shuttingDown, held, restarts, backoff, sleepLeft, alert,
                   code, asked, spawns>>

\* A human has read the alert and deletes it.
DeleteAlert ==
    /\ alert /\ alert' = FALSE
    /\ UNCHANGED <<pc, shuttingDown, held, restarts, backoff, sleepLeft,
                   handler, proc, orphans, past>>

-----------------------------------------------------------------------------
Becomes(from, to, exit) ==
    /\ child \in from /\ child' = to /\ code' = exit
    /\ UNCHANGED <<loop, handler, asked, orphans, past>>

\* The server and the trainer are built and run_live() waits for the first to end.
ChildBoots == Becomes({"booting"}, "trading", code)

\* An unhandled exception, or a kill from outside.
ChildCrashes == Becomes({"booting", "trading", "stopping"}, "dead", 1)

\* stop_event: server.stop(), trainer.stop(), the tasks cancelled and gathered.
ChildStops == Becomes({"stopping"}, "dead", 0)

\* The feed has had enough of failed resyncs: feed.run() returns, so do server.run()
\* and run_live(), with no exception.
FeedGivesUp == Becomes({"trading", "stopping"}, "dead", 0)

\* An operator stops the child itself.
OperatorStopsChild ==
    /\ child \in {"booting", "trading"} /\ ~asked
    /\ Terminated
    /\ UNCHANGED <<loop, handler, orphans, past>>

OrphanEnds ==
    /\ orphans > 0 /\ orphans' = orphans - 1
    /\ UNCHANGED <<loop, handler, proc, past>>

Older(age) == Min({age + 1, Window + 1})

Tick ==
    /\ restarts' = [i \in DOMAIN restarts |-> Older(restarts[i])]
    /\ spawns' = [i \in DOMAIN spawns |-> Older(spawns[i])]
    /\ sleepLeft' = Max({sleepLeft - 1, 0})
    /\ UNCHANGED <<pc, shuttingDown, held, backoff, alert, handler, proc, orphans, causes>>

MainLoop == Loop \/ Fork \/ Assign \/ Poll \/ StopCleanly \/ RecordRestart \/ Wake

Handler == HandlerReturns \/ HandlerKills

Child == ChildBoots \/ ChildCrashes \/ ChildStops \/ FeedGivesUp \/ OperatorStopsChild \/ OrphanEnds

Next ==
    \/ Start \/ MainLoop \/ Signal \/ Handler
    \/ SupervisorDies \/ DeleteAlert
    \/ Child
    \/ Tick

Spec == Init /\ [][Next]_vars

\* The scheduler runs the supervisor, whose handler waits no longer than its timeout,
\* and time passes.  Nothing is promised of the child.
FairSpec == Spec /\ WF_vars(MainLoop) /\ WF_vars(Handler) /\ WF_vars(Tick)

-----------------------------------------------------------------------------
TypeOK ==
    /\ pc \in {"off", "loop", "spawning", "forked", "polling", "ended", "backoff", "done", "killed"}
    /\ {handler, shuttingDown, held, alert, asked} \subseteq BOOLEAN
    /\ restarts \in Seq(0..Window + 1) /\ Len(restarts) <= MaxRestarts
    /\ backoff \in InitialBackoff..MaxBackoff /\ sleepLeft \in 0..backoff
    /\ child \in {"none", "booting", "trading", "stopping", "dead"} /\ code \in {0, 1}
    /\ orphans \in 0..MaxOrphans
    /\ causes \subseteq {"raced", "killed"}
    /\ spawns \in Seq(0..Window + 1) /\ Len(spawns) <= MaxRestarts + 1

\* A trading process outlives its supervisor only if a signal came while the child
\* was being spawned, or the supervisor was itself killed (run, _handle).
OrphansHaveACause == orphans > 0 => causes # {}

\* The breaker bounds the crash loop: no window of restart_window seconds ever sees
\* max_restarts + 1 spawns of one supervisor (_record_restart, _circuit_breaker_tripped).
CrashLoopBounded ==
    Len(spawns) > MaxRestarts => spawns[1] > Window

\* Once the breaker has opened, nothing is spawned until a human deletes the alert.
BreakerHolds == [][alert => child' # "booting" \/ child = "booting"]_vars

\* Told to stop, paging a human, or gone: what excuses a supervisor from a restart.
Excused == shuttingDown \/ alert \/ pc = "killed"

\* A child that died with any code but 0 is answered by a new process or the alert,
\* through signals, backoffs and what the child does meanwhile, unless the
\* supervisor is told to stop or killed.
CrashesAreAnswered == (pc = "polling" /\ child = "dead" /\ code # 0) ~> (child = "booting" \/ Excused)

\* "Nothing restarted the trading process if it exited -- an unhandled exception, the
\* feed giving up after repeated failed resyncs, an OOM kill, anything"
\* (process_supervisor.py:4-6): an end that nobody asked the child for is answered.
EndsAreAnswered == (pc = "polling" /\ child = "dead" /\ ~asked) ~> (child = "booting" \/ Excused)

\* Whatever the child does with SIGTERM, a supervisor told to stop comes to its end.
StopsWhenTold == shuttingDown ~> pc \in {"done", "killed"}
=============================================================================
