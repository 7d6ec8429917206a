----------------------------- MODULE LobEpisode -----------------------------
(***************************************************************************)
(* Episodes of the training environment: TradeJackLOBEnv.reset() and       *)
(* step() of physics/lob_env.py, its DoubleBufferQueue with one prefetch   *)
(* thread per episode, and the FIFO bridge of data_forge/kvikio_streamer,  *)
(* which puts the last rows of a file before those of the next and keeps   *)
(* them in fifo_state.sqlite, by the container name of the episode.        *)
(*                                                                         *)
(* A row is its number in the market's time over all files.  Prices, the   *)
(* reward and the account (ChildLedger's subject) are left out: what an    *)
(* episode must not do is see the market's rows in a wrong order.          *)
(***************************************************************************)
EXTENDS Integers, Sequences, FiniteSets

CONSTANTS
    FileRows,     \* rows of each partition file, in the order of their dates; a day without bars has none
    Kept,         \* rows the bridge keeps: 100 in the code
    SeqLen,       \* rows of an observation: 64
    MaxPrefetch,  \* batches a queue holds: 2
    MaxResets,  \* bound: episodes of one environment
    MaxEnvs       \* bound: environments of one child, one after the other

ASSUME EpisodeAssumption ==
    /\ FileRows \in Seq(Nat) /\ Kept \in Nat \ {0} /\ SeqLen \in Nat \ {0}
    /\ MaxPrefetch \in Nat \ {0} /\ MaxResets \in Nat \ {0} /\ MaxEnvs \in Nat \ {0}

VARIABLES
    fifo,     \* container_fifo: episode (the name's only variable part) -> tail
    env,      \* the environment's own fields and where its thread is
    thread,   \* the prefetch threads, by episode
    queue,    \* buffer_queue, by episode
    stopped,  \* stop_event, by episode
    envs,     \* environments made so far
    seen,     \* history: the rows this episode has traded on, each with its file
    tainted   \* history: episodes whose thread was given a tail other than its last batch's

episodeVars == <<fifo, env, thread, queue, stopped, envs, seen, tainted>>
threads     == <<thread, queue, stopped>>

EpisodeIds == 1 .. MaxResets
Partitions      == DOMAIN FileRows
FirstRow(f) == Cardinality(UNION {{g} \X (1 .. FileRows[g]) : g \in 1 .. f - 1})
RowsOf(f)   == [i \in 1 .. FileRows[f] |-> FirstRow(f) + i]
LastRows(s) == IF Len(s) <= Kept THEN s ELSE SubSeq(s, Len(s) - Kept + 1, Len(s))
LargerOf(a, b)  == IF a > b THEN a ELSE b

Unborn == [at |-> "none", file |-> 1, name |-> 0, batch |-> <<>>]

\* __init__() ends in reset(), whose first act is to name the episode.
NewEnv == [at |-> "closing", name |-> 1, serving |-> 0,
           batch |-> <<>>, of |-> 0, pos |-> 0]

EpisodeInit ==
    /\ fifo = [e \in EpisodeIds |-> <<>>]
    /\ env = NewEnv
    /\ thread = [e \in EpisodeIds |-> Unborn]
    /\ queue = [e \in EpisodeIds |-> <<>>]
    /\ stopped = {} /\ envs = 1 /\ seen = <<>> /\ tainted = {}

-----------------------------------------------------------------------------
\* reset(): the name changes while the last episode's thread still runs.
ResetNames ==
    /\ env.at \in {"stepping", "done"} /\ env.name < MaxResets
    /\ env' = [env EXCEPT !.at = "closing", !.name = @ + 1]
    /\ UNCHANGED <<fifo, threads, envs, seen, tainted>>

\* DoubleBufferQueue.close(): the thread is told to stop ...
CloseQueue ==
    /\ env.at = "closing"
    /\ env' = [env EXCEPT !.at = "joining"]
    /\ stopped' = IF env.serving = 0 THEN stopped ELSE stopped \union {env.serving}
    /\ UNCHANGED <<fifo, thread, queue, envs, seen, tainted>>

\* ... and joined for a second, which a load may outlast; then the new queue
\* and its thread.
StartQueue ==
    /\ env.at = "joining"
    /\ env' = [env EXCEPT !.at = "first", !.serving = env.name, !.pos = 0]
    /\ thread' = [thread EXCEPT ![env.name] = [Unborn EXCEPT !.at = "next"]]
    /\ queue' = [queue EXCEPT ![env.name] = <<>>]
    /\ seen' = <<>>
    /\ UNCHANGED <<tainted, fifo, stopped, envs>>

\* get_next_batch(): a batch, or None: the thread has ended, or the time has.
\* Of a batch without rows no observation can be made: np.pad() raises, and the
\* episode is over.
Got(pos) ==
    /\ queue[env.serving] # <<>>
    /\ LET b == Head(queue[env.serving]) IN
       env' = [env EXCEPT !.at = IF b.rows = <<>> THEN "done" ELSE "stepping",
                          !.batch = b.rows, !.of = b.of, !.pos = pos]
    /\ queue' = [queue EXCEPT ![env.serving] = Tail(@)]

GotNone ==
    /\ queue[env.serving] = <<>>
    /\ env' = [env EXCEPT !.at = "done"]
    /\ UNCHANGED queue

FirstBatch ==
    /\ env.at = "first"
    /\ Got(0) \/ GotNone
    /\ UNCHANGED <<fifo, thread, stopped, envs, seen, tainted>>

\* _get_scalar() clamps the index; sequences here begin at 1.
TradedRow == env.batch[LET i == env.pos + SeqLen IN IF i > Len(env.batch) THEN Len(env.batch) ELSE i]

\* step(): the trade, and the pointer; at the threshold the next batch is due.
EnvStep ==
    /\ env.at = "stepping"
    /\ seen' = Append(seen, [row |-> TradedRow, of |-> env.of])
    /\ env' = [env EXCEPT !.pos = @ + 1,
                          !.at = IF env.pos + 1 >= LargerOf(1, Len(env.batch) - SeqLen)
                                 THEN "switching" ELSE "stepping"]
    /\ UNCHANGED <<fifo, threads, envs, tainted>>

\* Variation: every batch is read from its first row.
ResumeAtZero == 0

\* The observation of the first step ends at the first row after a full tail.
ResumeAt == LargerOf(0, Kept - SeqLen + 1)

Switch ==
    /\ env.at = "switching"
    /\ Got(ResumeAt) \/ GotNone
    /\ UNCHANGED <<fifo, thread, stopped, envs, seen, tainted>>

\* Another environment of this child, in a new process: episode_id is 0 again,
\* fifo_state.sqlite is not.
MakeEnv ==
    /\ envs < MaxEnvs
    /\ envs' = envs + 1
    /\ env' = NewEnv
    /\ thread' = [e \in EpisodeIds |-> Unborn]
    /\ queue' = [e \in EpisodeIds |-> <<>>]
    /\ stopped' = {} /\ seen' = <<>> /\ tainted' = {}
    /\ UNCHANGED fifo

-----------------------------------------------------------------------------
\* _partition_streamer() and load_file_to_tensor(): the name as it is now, and
\* the tail saved under it, or none if it cannot be fetched, before the file's
\* rows.
Load(e) ==
    LET w == thread[e] IN
    /\ w.at = "next" /\ w.file \in Partitions
    /\ \E tail \in {<<>>, fifo[env.name]} :
          /\ thread' = [thread EXCEPT ![e] = [@ EXCEPT !.at = "saving", !.name = env.name,
                                                       !.batch = tail \o RowsOf(w.file)]]
          /\ tainted' = IF tail \in {<<>>, LastRows(w.batch)} THEN tainted ELSE tainted \union {e}
    /\ UNCHANGED <<fifo, env, queue, stopped, envs, seen>>

\* A file that fails its schema or cannot be read is passed over.
LoadFails(e) ==
    /\ thread[e].at = "next" /\ thread[e].file \in Partitions
    /\ thread' = [thread EXCEPT ![e].file = @ + 1]
    /\ UNCHANGED <<fifo, env, queue, stopped, envs, seen, tainted>>

\* The tail for the next load; an error of the database is only logged.
SaveTail(e) ==
    LET w == thread[e] IN
    /\ w.at = "saving"
    /\ \E saved \in BOOLEAN : fifo' = IF saved THEN [fifo EXCEPT ![w.name] = LastRows(w.batch)] ELSE fifo
    /\ thread' = [thread EXCEPT ![e] = [w EXCEPT !.at = "offering", !.file = w.file + 1]]
    /\ UNCHANGED <<env, queue, stopped, envs, seen, tainted>>

\* _worker_loop(): a full queue is waited for; the next load follows at once.
Offer(e) ==
    /\ thread[e].at = "offering" /\ e \notin stopped /\ Len(queue[e]) < MaxPrefetch
    /\ queue' = [queue EXCEPT ![e] = Append(@, [rows |-> thread[e].batch, of |-> thread[e].file - 1])]
    /\ thread' = [thread EXCEPT ![e].at = "next"]
    /\ UNCHANGED <<fifo, env, stopped, envs, seen, tainted>>

\* Variation: a full queue is waited for without looking at stop_event.
EndsUnlessFull(e) ==
    /\ \/ thread[e].at = "next" /\ thread[e].file \notin Partitions
       \/ thread[e].at = "offering" /\ e \in stopped /\ Len(queue[e]) < MaxPrefetch
    /\ thread' = [thread EXCEPT ![e].at = "ended"]
    /\ UNCHANGED <<fifo, env, queue, stopped, envs, seen, tainted>>

Ends(e) ==
    /\ \/ thread[e].at = "next" /\ thread[e].file \notin Partitions
       \/ thread[e].at = "offering" /\ e \in stopped
    /\ thread' = [thread EXCEPT ![e].at = "ended"]
    /\ UNCHANGED <<fifo, env, queue, stopped, envs, seen, tainted>>

Prefetch(e) == Load(e) \/ LoadFails(e) \/ SaveTail(e) \/ Offer(e) \/ Ends(e)

-----------------------------------------------------------------------------
ResetOrStep == CloseQueue \/ StartQueue \/ FirstBatch \/ EnvStep \/ Switch

EpisodeNext ==
    \/ ResetNames \/ ResetOrStep \/ MakeEnv
    \/ \E e \in EpisodeIds : Prefetch(e)

EpisodeSpec == EpisodeInit /\ [][EpisodeNext]_episodeVars

\* The threads run, and the training loop goes on stepping.
FairEpisodeSpec ==
    /\ EpisodeSpec
    /\ WF_episodeVars(ResetOrStep)
    /\ \A e \in EpisodeIds : WF_episodeVars(Prefetch(e))

-----------------------------------------------------------------------------
\* Over every change of batch, with files shorter than a tail, without rows or
\* missing, and tails that are lost, the rows an episode trades on move forward
\* in time; only at a file without rows is the last one traded on again.  Not so
\* once its thread was given a tail other than that of its last batch, which the name
\* of the cache does not prevent although lob_env.py:191 says so.
TimeMovesForward ==
    \A i, j \in DOMAIN seen : i < j /\ env.serving \notin tainted =>
        \/ seen[i].row < seen[j].row
        \/ seen[i].row = seen[j].row /\ FileRows[seen[j].of] = 0

\* A prefetch thread whose episode is over ends, even if its queue is full.
OldThreadsEnd ==
    \A e \in EpisodeIds : e \in stopped ~> (thread[e].at \in {"none", "ended"})
=============================================================================
