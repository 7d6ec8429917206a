--------------------------- MODULE CommandChannel ---------------------------
(***************************************************************************)
(* The file-based command channel of execution/command_channel.py: any     *)
(* process issues a command by renaming a file into place, one poller      *)
(* lists the directory, and reads, executes and removes the files of that  *)
(* list one after the other.  The module's comment has the trading loop    *)
(* poll; no loop of the repository does, so what is said here is said of a *)
(* deployment that adds one.  Its handlers may raise; a payload is the     *)
(* number of its issue.                                                    *)
(***************************************************************************)
EXTENDS Integers, FiniteSets

CONSTANTS
    Commands,     \* file names without ".cmd"
    Handled,      \* those with a registered handler
    MaxIssues,    \* bound: commands issued
    MaxCrashes    \* bound: deaths of the polling process

ASSUME ChannelAssumption ==
    /\ Handled \subseteq Commands /\ MaxIssues \in Nat /\ MaxCrashes \in Nat

VARIABLES
    dir,       \* the payload in each command's file: an issue's number, or 0 for no file
    poller,    \* where poll_and_execute() is
    issued,    \* issues so far
    crashed    \* deaths so far

channelVars == <<dir, poller, issued, crashed>>

\* Between two polls.  In one: the names still to do, the command in hand, and,
\* as history, how many had been issued when it began.
Waiting == [at |-> "waiting", left |-> {}, command |-> {}, since |-> 0]

ChannelInit ==
    /\ dir = [c \in Commands |-> 0]
    /\ poller = Waiting
    /\ issued = 0 /\ crashed = 0

\* issue_command(): os.replace() over whatever is pending.
Issue(c) ==
    /\ issued < MaxIssues
    /\ issued' = issued + 1
    /\ dir' = [dir EXCEPT ![c] = issued + 1]
    /\ UNCHANGED <<poller, crashed>>

\* poll_and_execute(): os.listdir().
List ==
    /\ poller.at = "waiting"
    /\ \E c \in Commands : dir[c] # 0
    /\ poller' = [Waiting EXCEPT !.at = "next", !.left = {c \in Commands : dir[c] # 0}, !.since = issued]
    /\ UNCHANGED <<dir, issued, crashed>>

\* open() and json.load() of one name of the list, in the directory's order; a
\* file that cannot be read is an empty payload.
ReadCommand(c) ==
    /\ poller.at = "next" /\ c \in poller.left
    /\ poller' = [poller EXCEPT !.at = "read", !.left = @ \ {c}, !.command = {c}]
    /\ UNCHANGED <<dir, issued, crashed>>

\* The handler, if any; that it raises makes no difference.
Execute ==
    /\ poller.at = "read"
    /\ poller' = [poller EXCEPT !.at = "executed"]
    /\ UNCHANGED <<dir, issued, crashed>>

\* Variation: a command nobody handles is left alone.
RemoveHandled ==
    /\ poller.at = "executed"
    /\ dir' = [c \in Commands |-> IF c \in poller.command \intersect Handled THEN 0 ELSE dir[c]]
    /\ poller' = [poller EXCEPT !.at = "next", !.command = {}]
    /\ UNCHANGED <<issued, crashed>>

\* os.remove(): the name, whatever is behind it by now.
RemoveCommand ==
    /\ poller.at = "executed"
    /\ dir' = [c \in Commands |-> IF c \in poller.command THEN 0 ELSE dir[c]]
    /\ poller' = [poller EXCEPT !.at = "next", !.command = {}]
    /\ UNCHANGED <<issued, crashed>>

Return ==
    /\ poller.at = "next" /\ poller.left = {}
    /\ poller' = Waiting
    /\ UNCHANGED <<dir, issued, crashed>>

\* The polling process dies and starts again; the files stay.
Crash ==
    /\ crashed < MaxCrashes /\ poller.at # "waiting"
    /\ poller' = Waiting
    /\ crashed' = crashed + 1
    /\ UNCHANGED <<dir, issued>>

-----------------------------------------------------------------------------
PollStep == List \/ (\E c \in Commands : ReadCommand(c)) \/ Execute \/ RemoveCommand \/ Return

ChannelNext == (\E c \in Commands : Issue(c)) \/ PollStep \/ Crash

ChannelSpec == ChannelInit /\ [][ChannelNext]_channelVars

-----------------------------------------------------------------------------
\* One poll is enough: when it returns, every command that had been issued before
\* it began has left the directory, whether its handler ran, raised or was missing,
\* and whatever was issued and whoever died meanwhile.
OnePollIsEnough ==
    [][poller.at = "next" /\ poller'.at = "waiting" /\ UNCHANGED crashed
       => \A c \in Commands : dir[c] = 0 \/ dir[c] > poller.since]_channelVars
=============================================================================
