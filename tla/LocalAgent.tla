----------------------------- MODULE LocalAgent -----------------------------
(***************************************************************************)
(* The agent an instance runs for itself (apps/api                         *)
(* services/local-agent.ts, plugins/local-agent.ts, and the lock every     *)
(* agent takes, clients/agent lock.rs).                                    *)
(*                                                                         *)
(* startLocalAgent is called by the wizard, by the server once it listens, *)
(* and by a job every minute: it provisions a row, a key and agent.toml,   *)
(* and starts a supervisor that keeps the agent's process up.  Calls await *)
(* the database and may overlap each other and the end of the server.  A   *)
(* process outlives a server that crashes, and for a while one that asked  *)
(* it to leave; it holds the lock beside agent.toml as long as it lives.   *)
(*                                                                         *)
(* A call is made once; the key and the row it creates bear its name.      *)
(* Here there is a page, supervision is on, a binary is at hand and the    *)
(* platform has flock.  Delays are left out: a timer fires at any time.    *)
(***************************************************************************)
EXTENDS Naturals

CONSTANTS
    Calls,      \* calls of startLocalAgent, each made at most once
    None,       \* no call, no key
    MaxBoots,   \* bound on the times the server starts, for TLC
    MaxMoves,   \* bound on the changes of the address it is reached at, for TLC
    MaxDeaths,  \* bound on the deaths of agents that were running, for TLC
    MaxFaults   \* bound on crashes and failed statements, for TLC

MAX_REFUSALS == 3

ASSUME LocalAgentAssumption ==
    /\ None \notin Calls
    /\ MaxBoots \in Nat /\ MaxMoves \in Nat /\ MaxDeaths \in Nat /\ MaxFaults \in Nat

VARIABLES
    api,         \* the server: "up", "closing" or "down"
    boots,       \* times it started
    server,      \* the address agents reach it at, numbered
    step,        \* where each call is
    existing,    \* the row it found
    row,         \* agents: the key of the local row each call inserted, or None
    file,        \* agent.toml: the key and the address it can be read to hold, or None
    supervisor,  \* "none", "on" or "stopping": it gave up
    refusals,    \* its exits within five seconds of a start, in a row
    timer,       \* it waits to start again
    child,       \* its process: "none", "starting", "young", "settled"
    stray,       \* a process no supervisor has: "none", "starting", "running", "leaving"
    deaths,      \* deaths of agents so far
    tainted,     \* ghost: two calls overlapped, or one was cut short
    refused,     \* ghost: its last agent refused to run, or died at once
    late,        \* ghost: a supervisor was begun once the server was closing
    crashed,     \* ghost: the server ended without closing
    faults       \* crashes and failed statements so far

calls   == <<step, existing>>
process == <<supervisor, refusals, timer, child, stray, deaths>>
ghosts  == <<tainted, refused, late, crashed>>
vars == <<api, boots, server, step, existing, row, file, supervisor, refusals, timer, child, stray,
          deaths, tainted, refused, late, crashed, faults>>

Keys   == Calls
Absent == [key |-> None, server |-> None]

Rows == {c \in Calls : row[c] # None}

TypeOK ==
    /\ api \in {"up", "closing", "down"} /\ boots \in 0 .. MaxBoots /\ server \in 0 .. MaxMoves
    /\ step \in [Calls -> {"new", "read", "issue", "row", "write", "supervise", "done"}]
    /\ existing \in [Calls -> Calls \union {None}]
    /\ row \in [Calls -> Keys \union {None}]
    /\ file \in [key : Keys \union {None}, server : (0 .. MaxMoves) \union {None}]
    /\ supervisor \in {"none", "on", "stopping"} /\ refusals \in 0 .. MAX_REFUSALS
    /\ timer \in BOOLEAN
    /\ child \in {"none", "starting", "young", "settled"}
    /\ stray \in {"none", "starting", "running", "leaving"}
    /\ deaths \in 0 .. MaxDeaths /\ faults \in 0 .. MaxFaults
    /\ tainted \in BOOLEAN /\ refused \in BOOLEAN /\ late \in BOOLEAN /\ crashed \in BOOLEAN

Init ==
    /\ api = "down" /\ boots = 0 /\ server = 0
    /\ step = [c \in Calls |-> "new"] /\ existing = [c \in Calls |-> None]
    /\ row = [c \in Calls |-> None] /\ file = Absent
    /\ supervisor = "none" /\ refusals = 0 /\ timer = FALSE
    /\ child = "none" /\ stray = "none" /\ deaths = 0
    /\ tainted = FALSE /\ refused = FALSE /\ late = FALSE /\ crashed = FALSE
    /\ faults = 0

Goes(c, from, to) == step[c] = from /\ step' = [step EXCEPT ![c] = to]

UnderWay == {c \in Calls : step[c] \notin {"new", "done"}}

\* The calls go with the server they run in.
Cut == [c \in Calls |-> IF c \in UnderWay THEN "done" ELSE step[c]]

-----------------------------------------------------------------------------
(* Provisioning. *)

Begin(c) ==
    /\ api = "up" /\ Goes(c, "new", "read")
    /\ tainted' = (tainted \/ UnderWay # {})
    /\ UNCHANGED <<api, boots, server, existing, row, file, process, refused, late, crashed, faults>>

\* A row and a file that says where the server is: nothing to do.  A file that
\* says something else, and has a key, is written again with that key.
Read(c) ==
    /\ step[c] = "read"
    /\ \E x \in IF Rows = {} THEN {None} ELSE Rows :
          /\ existing' = [existing EXCEPT ![c] = x]
          /\ IF x # None /\ (file.server = server \/ file.key # None)
             THEN /\ Goes(c, "read", "supervise")
                  /\ file' = IF file.server = server THEN file ELSE [key |-> file.key, server |-> server]
             ELSE Goes(c, "read", "issue") /\ UNCHANGED file
    /\ UNCHANGED <<api, boots, server, row, process, ghosts, faults>>

\* A key; nothing else remembers it until the row does.
Issue(c) ==
    /\ Goes(c, "issue", "row")
    /\ UNCHANGED <<api, boots, server, existing, row, file, process, ghosts, faults>>

\* Mutation of Register: the row keeps the key it had.
RegisterKeeps(c) ==
    /\ Goes(c, "row", "write")
    /\ row' = IF existing[c] = None THEN [row EXCEPT ![c] = c] ELSE row
    /\ UNCHANGED <<api, boots, server, existing, file, process, ghosts, faults>>

\* The row that was found is given the key, or one is inserted.
Register(c) ==
    /\ Goes(c, "row", "write")
    /\ row' = [row EXCEPT ![IF existing[c] = None THEN c ELSE existing[c]] = c]
    /\ UNCHANGED <<api, boots, server, existing, file, process, ghosts, faults>>

WriteConfig(c) ==
    /\ Goes(c, "write", "supervise")
    /\ file' = [key |-> c, server |-> server]
    /\ UNCHANGED <<api, boots, server, existing, row, process, ghosts, faults>>

\* Read is about to write a file again that says where the server was.
Rewrites(c) == step[c] = "read" /\ Rows # {} /\ file.key # None /\ file.server # server

\* The file cannot be opened, or is truncated and left empty or without its key.
WriteFails(c) ==
    /\ step[c] = "write" \/ Rewrites(c)
    /\ faults < MaxFaults /\ faults' = faults + 1
    /\ step' = [step EXCEPT ![c] = "done"] /\ tainted' = TRUE
    /\ file' \in {file, Absent, [key |-> None, server |-> server]}
    /\ UNCHANGED <<api, boots, server, existing, row, process, refused, late, crashed>>

CallFails(c) ==
    /\ step[c] \in {"read", "issue", "row"} /\ faults < MaxFaults /\ faults' = faults + 1
    /\ step' = [step EXCEPT ![c] = "done"] /\ tainted' = TRUE
    /\ UNCHANGED <<api, boots, server, existing, row, file, process, refused, late, crashed>>

\* The volume is wiped, or the database restored without it.
Wiped ==
    /\ file # Absent /\ faults < MaxFaults /\ faults' = faults + 1
    /\ file' = Absent
    /\ UNCHANGED <<api, boots, server, calls, row, process, ghosts>>

-----------------------------------------------------------------------------
(* Supervising. *)

\* One supervisor per server, whoever comes first; and after stopLocalAgent it
\* may well be the first.
Supervise(c) ==
    /\ Goes(c, "supervise", "done")
    /\ IF supervisor = "none"
       THEN /\ supervisor' = "on" /\ child' = "starting"
            /\ refused' = FALSE /\ late' = (late \/ api = "closing")
       ELSE UNCHANGED <<supervisor, child, refused, late>>
    /\ UNCHANGED <<api, boots, server, existing, row, file, refusals, timer, stray, deaths, tainted,
                   crashed, faults>>

Start ==
    /\ timer /\ timer' = FALSE
    /\ child' = "starting"
    /\ UNCHANGED <<api, boots, server, calls, row, file, supervisor, refusals, stray, deaths, ghosts, faults>>

\* Node cannot start it: an error and no exit, so nothing starts it again.
SpawnFails ==
    /\ child = "starting" /\ faults < MaxFaults /\ faults' = faults + 1
    /\ child' = "none"
    /\ UNCHANGED <<api, boots, server, calls, row, file, supervisor, refusals, timer, stray, deaths, ghosts>>

LockIsFree == child \notin {"young", "settled"} /\ stray \notin {"running", "leaving"}

\* An agent runs with the lock and a config that has a key.
Runs ==
    /\ child = "starting" /\ LockIsFree /\ file.key # None
    /\ child' = "young"
    /\ UNCHANGED <<api, boots, server, calls, row, file, supervisor, refusals, timer, stray, deaths, ghosts, faults>>

Settles ==
    /\ child = "young" /\ child' = "settled" /\ refused' = FALSE
    /\ UNCHANGED <<api, boots, server, calls, row, file, supervisor, refusals, timer, stray, deaths,
                   tainted, late, crashed, faults>>

\* Mutation of Exit: every exit counts.
ExitCounts(quick) ==
    LET n == refusals + 1 IN
    /\ refusals' = n /\ child' = "none"
    /\ IF n >= MAX_REFUSALS THEN supervisor' = "stopping" /\ UNCHANGED timer
       ELSE timer' = TRUE /\ UNCHANGED supervisor

\* An exit within five seconds is a refusal; the third in a row is the last.
Exit(quick) ==
    LET n == IF quick THEN refusals + 1 ELSE 0 IN
    /\ refusals' = n /\ child' = "none"
    /\ IF n >= MAX_REFUSALS THEN supervisor' = "stopping" /\ UNCHANGED timer
       ELSE timer' = TRUE /\ UNCHANGED supervisor

\* Another agent has the lock, or the config cannot be read.
Refuses ==
    /\ child = "starting" /\ (~LockIsFree \/ file.key = None)
    /\ Exit(TRUE) /\ refused' = TRUE
    /\ UNCHANGED <<api, boots, server, calls, row, file, stray, deaths, tainted, late, crashed, faults>>

Dies ==
    /\ child \in {"young", "settled"} /\ deaths < MaxDeaths /\ deaths' = deaths + 1
    /\ Exit(child = "young") /\ refused' = (refused \/ child = "young")
    /\ UNCHANGED <<api, boots, server, calls, row, file, stray, tainted, late, crashed, faults>>

\* A stray takes the lock too, leaves in its own time if it was told to, or dies.
StrayRuns ==
    /\ stray = "starting"
    /\ stray' = IF child \notin {"young", "settled"} /\ file.key # None THEN "running" ELSE "none"
    /\ UNCHANGED <<api, boots, server, calls, row, file, supervisor, refusals, timer, child, deaths, ghosts, faults>>

StrayLeaves ==
    /\ stray = "leaving" /\ stray' = "none"
    /\ UNCHANGED <<api, boots, server, calls, row, file, supervisor, refusals, timer, child, deaths, ghosts, faults>>

StrayDies ==
    /\ stray = "running" /\ deaths < MaxDeaths /\ deaths' = deaths + 1 /\ stray' = "none"
    /\ UNCHANGED <<api, boots, server, calls, row, file, supervisor, refusals, timer, child, ghosts, faults>>

-----------------------------------------------------------------------------
(* The server. *)

Boot ==
    /\ api = "down" /\ boots < MaxBoots /\ boots' = boots + 1
    /\ api' = "up"
    /\ server' \in server .. MaxMoves
    /\ UNCHANGED <<calls, row, file, process, ghosts, faults>>

\* What becomes of the process: if there is another stray, that one has the
\* lock and this one goes by itself, unless the other has just left.
Abandoned(as) ==
    IF child = "none" THEN {stray}
    ELSE IF stray = "none" THEN {IF child = "starting" /\ as = "running" THEN "starting" ELSE as}
    ELSE {stray} \union {x \in {"starting"} : stray = "leaving" /\ as = "running"}

\* Mutation of Close: the timer is forgotten, and so is the supervisor.
CloseLeavesIt ==
    /\ api = "up" /\ api' = "closing"
    /\ supervisor' = "none" /\ timer' = FALSE /\ refusals' = 0
    /\ child' = "none" /\ stray' \in Abandoned("running")
    /\ UNCHANGED <<boots, server, calls, row, file, deaths, ghosts, faults>>

\* stopLocalAgent: the timer is cleared and the process told to leave.
Close ==
    /\ api = "up" /\ api' = "closing"
    /\ supervisor' = "none" /\ timer' = FALSE /\ refusals' = 0
    /\ child' = "none" /\ stray' \in Abandoned("leaving")
    /\ UNCHANGED <<boots, server, calls, row, file, deaths, ghosts, faults>>

Ends ==
    /\ api' = "down" /\ step' = Cut /\ tainted' = (tainted \/ UnderWay # {})
    /\ supervisor' = "none" /\ timer' = FALSE /\ refusals' = 0
    /\ child' = "none" /\ stray' \in Abandoned("running")
    /\ UNCHANGED <<boots, server, existing, row, file, deaths, refused, late>>

Ended == api = "closing" /\ Ends /\ UNCHANGED <<crashed, faults>>

Crash ==
    /\ api # "down" /\ faults < MaxFaults /\ faults' = faults + 1
    /\ Ends /\ crashed' = TRUE

Call(c) ==
    Begin(c) \/ Read(c) \/ Issue(c) \/ Register(c) \/ WriteConfig(c) \/ Supervise(c)

Next ==
    \/ \E c \in Calls : Call(c) \/ WriteFails(c) \/ CallFails(c)
    \/ Wiped
    \/ Start \/ SpawnFails \/ Runs \/ Settles \/ Refuses \/ Dies
    \/ StrayRuns \/ StrayLeaves \/ StrayDies
    \/ Boot \/ Close \/ Ended \/ Crash

Spec == Init /\ [][Next]_vars

\* A timer fires, and a process that starts gets somewhere.  No call need be
\* made, and agents that run may die or not.
Fairness == WF_vars(Start) /\ WF_vars(Runs) /\ WF_vars(Settles) /\ WF_vars(Refuses)

FairSpec == Spec /\ Fairness

-----------------------------------------------------------------------------
(* Properties. *)

\* There is one local row, and agent.toml holds its key, unless two calls
\* overlapped or one was cut short: restores and moves of the server are
\* repaired, and neither makes a second agent of it.
KeyIsItsRow ==
    UnderWay = {} /\ ~tainted =>
       /\ \A x, y \in Rows : x = y
       /\ file # Absent => \E x \in Rows : row[x] = file.key

\* A server that closes takes its agent with it, the one it was about to start
\* again too; what it leaves running was started by a call that closing did not
\* wait for, or belonged to a server that crashed.
StopsWithItsServer == api = "down" /\ stray \in {"starting", "running"} => late \/ crashed

\* However often its agent dies once it has settled, a supervisor has it up
\* again: it gives up on agents that refuse to run only.  An agent that could
\* not even be started is the exception.
AgentComesBack ==
    supervisor # "none" ~>
       \/ child = "settled" \/ refused \/ api # "up"
       \/ supervisor = "on" /\ child = "none" /\ ~timer

=============================================================================
