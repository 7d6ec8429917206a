---------------------------- MODULE ReplayMemory ----------------------------
(***************************************************************************)
(* The experience an off-policy agent learns from: PrioritizedReplayBuffer *)
(* of swarm/replay_buffer.py behind SB3ReplayBufferAdapter, saved to disk  *)
(* and restored by the next process (the buffer of swarm/rl_mechanics.py   *)
(* is the same ring without the priorities).                               *)
(*                                                                         *)
(* A transition is the number of its push.  A priority is Fresh (what push *)
(* sets, or a TD error as large), Learnt (from a smaller TD error) or      *)
(* Unset, the zero of an index nobody wrote: it is never sampled.          *)
(***************************************************************************)
EXTENDS Integers, Sequences, FiniteSets

CONSTANTS
    Capacities,  \* buffer sizes a process may be started with
    MaxPushes,   \* bound: transitions
    MaxRestarts  \* bound: restarts of the process

ASSUME ReplayAssumption ==
    Capacities \subseteq Nat \ {0} /\ Capacities # {} /\ MaxPushes \in Nat /\ MaxRestarts \in Nat

Unset  == 0
Learnt == 1
Fresh  == 2

VARIABLES
    capacity,  \* of this process's buffer
    slots,     \* buffer: the transitions in list order
    priority,  \* priorities: index -> priority
    place,     \* position: where the next push goes, counted from 1
    sampled,   \* _last_sampled_indices
    saved,     \* replay_buffer.pkl, or NoFile: there is none, or none that can be loaded
    line,      \* history: the transitions this buffer's past consists of
    savedLine, \* history: the line of the saved file
    pushes, restarts

replayVars == <<capacity, slots, priority, place, sampled, saved, line, savedLine, pushes, restarts>>

NoFile == [slots |-> <<>>, priority |-> <<>>, place |-> 0]

Blank(n) == [i \in 1 .. n |-> Unset]

ReplayInit ==
    /\ capacity \in Capacities
    /\ slots = <<>> /\ priority = Blank(capacity) /\ place = 1
    /\ sampled = {}
    /\ saved = NoFile /\ line = <<>> /\ savedLine = <<>> /\ pushes = 0 /\ restarts = 0

-----------------------------------------------------------------------------
\* push(): append until the buffer is full, then overwrite at the position.
Stored(t) == IF Len(slots) < capacity THEN Append(slots, t) ELSE [slots EXCEPT ![place] = t]

Push ==
    /\ pushes < MaxPushes
    /\ pushes' = pushes + 1 /\ line' = Append(line, pushes')
    /\ slots' = Stored(pushes')
    /\ priority' = [priority EXCEPT ![place] = Fresh]
    /\ place' = (place % capacity) + 1
    /\ UNCHANGED <<capacity, sampled, saved, savedLine, restarts>>

\* sample(): only indices with a priority have a probability.
Samplable == {i \in DOMAIN slots : priority[i] # Unset}

\* sample(), one transition of the batch.  Hindsight relabels a copy of it.
Sample(i) ==
    /\ i \in Samplable
    /\ sampled' = {i}
    /\ UNCHANGED <<capacity, slots, priority, place, saved, line, savedLine, pushes, restarts>>

\* update_priorities_from_last_sample(): at the indices of the last sample.
UpdatePriorities ==
    /\ sampled # {}
    /\ \E p \in {Learnt, Fresh} :
          priority' = [i \in DOMAIN priority |-> IF i \in sampled THEN p ELSE priority[i]]
    /\ UNCHANGED <<capacity, slots, place, sampled, saved, line, savedLine, pushes, restarts>>

\* save_to_disk(): open("wb") empties the file that was there, and the pickle is
\* then written into it.  A save that ends in between, by an error (which is
\* logged) or with its process, leaves a file that cannot be loaded.
Save ==
    /\ \E written \in BOOLEAN :
          /\ saved' = IF written
                       THEN [slots |-> slots, priority |-> SubSeq(priority, 1, Len(slots)), place |-> place]
                       ELSE NoFile
          /\ savedLine' = IF written THEN line ELSE <<>>
    /\ UNCHANGED <<capacity, slots, priority, place, sampled, line, pushes, restarts>>

\* Variation: the position is not restored.
PlaceForgotten(n) == 1

\* _load_from_disk(): what the file says, or an empty buffer when it cannot be
\* loaded or its priorities do not fit a smaller one.
PlaceLoaded(n) == IF saved = NoFile \/ Len(saved.slots) > n THEN 1 ELSE saved.place
SlotsLoaded(n) == IF Len(saved.slots) > n THEN <<>> ELSE saved.slots

PriorityLoaded(n) ==
    IF Len(saved.slots) > n THEN Blank(n)
    ELSE [i \in 1 .. n |-> IF i <= Len(saved.slots) THEN saved.priority[i] ELSE Unset]

\* The process ends at any time, saved or not, and another one is started.
Restart(n) ==
    /\ restarts < MaxRestarts
    /\ restarts' = restarts + 1 /\ capacity' = n
    /\ slots' = SlotsLoaded(n) /\ priority' = PriorityLoaded(n) /\ place' = PlaceLoaded(n)
    /\ sampled' = {}
    /\ line' = IF SlotsLoaded(n) = <<>> THEN <<>> ELSE savedLine
    /\ UNCHANGED <<saved, savedLine, pushes>>

ReplayNext ==
    \/ Push
    \/ \E i \in 1 .. Len(slots) : Sample(i)
    \/ UpdatePriorities
    \/ Save
    \/ \E n \in Capacities : Restart(n)

ReplaySpec == ReplayInit /\ [][ReplayNext]_replayVars

-----------------------------------------------------------------------------
Remembered == {slots[i] : i \in DOMAIN slots}
Recent(n)  == {line[i] : i \in {j \in DOMAIN line : j > Len(line) - n}}

\* Through any number of saves and restarts the buffer holds the latest
\* transitions of its past, each once: what a full ring evicts is the oldest, and
\* a restart resumes where the file that could be loaded left off.
KeepsTheLatest == Len(slots) <= capacity /\ Cardinality(Remembered) = Len(slots) /\ Remembered = Recent(Len(slots))
=============================================================================
