------------------------ MODULE InstructionDelivery ------------------------
(***************************************************************************)
(* How an instruction asked in the console reaches the machine it is for. *)
(*                                                                         *)
(* The console inserts a row (apps/api routes/agents.ts).  A machine that  *)
(* holds a key on the server ("direct": an agent, or a relay) keeps a beat *)
(* open, is told that something waits, and polls /agent/jobs; the server   *)
(* marks the rows handed over as it reads them.  A machine behind a relay  *)
(* ("zone") has the same conversation with its relay, which keeps its      *)
(* zone's instructions in memory (clients/agent proxy.rs).  Every machine  *)
(* carries out what it was handed one by one, answers each one, and leaves *)
(* if one of them was a restart (commands.rs).                             *)
(*                                                                         *)
(* One action is what happens between two awaits of the code.  Replies and *)
(* answers may be lost, a process may die anywhere, and a supervisor       *)
(* starts it again.  Timers are not modelled: a beat or a poll may happen  *)
(* whenever the loop that makes it is at the point where it would.         *)
(***************************************************************************)
EXTENDS Naturals, FiniteSets

CONSTANTS
    Direct,         \* machines with a key on the server: agents and relays
    Zone,           \* machines behind a relay
    Via,            \* Via[z] is the relay the zone machine z speaks to
    Instructions,   \* identities of the agent_commands rows
    NoMachine,      \* the row does not exist yet
    NoInstruction,  \* nothing is being carried out
    AskedKinds,     \* the kinds the console asks for, for TLC
    MaxFaults       \* bound on crashes and lost replies, for TLC

Machines == Direct \union Zone

\* The instructions told apart by what they do to delivery: `stop` silences a
\* machine, `resume` undoes a pause or a stop, `restart` (and an upgrade that
\* installed something) ends the process, everything else is an "order".
Kinds == {"order", "restart", "stop", "resume"}

ASSUME DeliveryAssumption ==
    /\ Direct \intersect Zone = {}
    /\ Via \in [Zone -> Direct]
    /\ NoMachine \notin Machines
    /\ NoInstruction \notin Instructions
    /\ AskedKinds \subseteq Kinds
    /\ MaxFaults \in Nat

Relays   == {Via[z] : z \in Zone}
ZoneOf(m) == {z \in Zone : Via[z] = m}

Modes  == {"active", "stopped"}
Phases == {"down", "boot", "run"}

\* Where a machine's loop is.  A direct machine goes from "checked" (the server
\* has read the table and is reading the zone) to "held" (it listens); a zone
\* machine is "subscribed" before its relay checks.
Loops == {"idle", "subscribed", "checked", "held", "told", "polling", "applying"}
Beating == {"subscribed", "checked", "held"}

VARIABLES
    agent,         \* server: the machine each agent_commands row is for
    kind,          \* server: what each row asks
    delivered,     \* server: rows handed over
    answered,      \* server: rows whose answer came back
    waking,        \* server: rows inserted whose wake() has not run yet
    phase,         \* process: down, in its startup pass, or running
    loop,          \* process: where its refresh loop is
    signal,        \* the beat of this machine has been woken
    missed,        \* ghost: rows there when the server began to listen
    reply,         \* instructions in the /agent/jobs reply on its way
    zoneCommands,  \* relay: instructions held for its zone, in memory
    todo,          \* handed to commands::apply and not carried out yet
    answering,     \* carried out, its answer not sent yet
    leaving,       \* this batch holds a restart
    settings,      \* the state the batch works on (a relay's is a copy)
    mode,          \* the running state the process goes by
    file,          \* the running state in the config file
    booted,        \* ghost: the state the file had when the process started
    times,         \* ghost: how often each instruction was carried out
    by,            \* ghost: pairs of a machine and what it carried out
    lost,          \* ghost: handed over, and gone before it was carried out
    faults         \* crashes and lost replies so far

rows     == <<agent, kind, delivered, answered>>
server   == <<rows, waking>>
beats    == <<signal, missed>>
batch    == <<todo, answering, leaving, settings>>
running  == <<mode, file, booted>>
ghosts   == <<times, by, lost>>
vars == <<agent, kind, delivered, answered, waking, phase, loop, signal, missed, reply, zoneCommands, todo,
          answering, leaving, settings, mode, file, booted, times, by, lost, faults>>

TypeOK ==
    /\ agent \in [Instructions -> Machines \union {NoMachine}]
    /\ kind \in [Instructions -> Kinds]
    /\ delivered \in SUBSET Instructions
    /\ answered \in SUBSET Instructions
    /\ waking \in SUBSET Instructions
    /\ phase \in [Machines -> Phases]
    /\ loop \in [Machines -> Loops]
    /\ signal \in [Machines -> BOOLEAN]
    /\ missed \in [Machines -> SUBSET Instructions]
    /\ reply \in [Machines -> SUBSET Instructions]
    /\ zoneCommands \in [Machines -> SUBSET Instructions]
    /\ todo \in [Machines -> SUBSET Instructions]
    /\ answering \in [Machines -> Instructions \union {NoInstruction}]
    /\ leaving \in [Machines -> BOOLEAN]
    /\ settings \in [Machines -> Modes]
    /\ mode \in [Machines -> Modes]
    /\ file \in [Machines -> Modes]
    /\ booted \in [Machines -> Modes]
    /\ times \in [Instructions -> Nat]
    /\ by \in SUBSET (Machines \X Instructions)
    /\ lost \in SUBSET Instructions
    /\ faults \in 0 .. MaxFaults

-----------------------------------------------------------------------------
(* What the server and a relay read. *)

Asked(i)       == agent[i] # NoMachine
Undelivered(i) == Asked(i) /\ i \notin delivered

\* The machines whose instructions a poll of m collects from the server: its
\* own and, when it is a relay, its zone's.
SpokenFor(m) == {m} \union ZoneOf(m)

\* A relay opens its listener once its startup pass is over.
Reachable(m) == m \in Zone => phase[Via[m]] = "run"

\* Mutation of WaitsFor: the relay looks its zone's instructions up by its own name.
WaitsForRelay(m) ==
    IF m \in Direct
    THEN {i \in Instructions : Undelivered(i) /\ agent[i] \in SpokenFor(m)}
    ELSE {i \in zoneCommands[Via[m]] : agent[i] = Via[m]}

\* What waits for m where m asks: undelivered rows for a direct machine, what
\* its relay holds for a zone machine.
WaitsFor(m) ==
    IF m \in Direct
    THEN {i \in Instructions : Undelivered(i) /\ agent[i] \in SpokenFor(m)}
    ELSE {i \in zoneCommands[Via[m]] : agent[i] = m}

\* Mutation of Listening: the relay subscribes after its check, as the server does.
ListeningLate(m) == loop[m] = "held"

\* Where a change is noticed by the beat of m.  The relay subscribes before it
\* checks; the server starts to listen after it has checked.
Listening(m) == loop[m] \in (IF m \in Zone THEN Beating ELSE {"held"})

Init ==
    /\ agent = [i \in Instructions |-> NoMachine]
    /\ kind = [i \in Instructions |-> "order"]
    /\ delivered = {}
    /\ answered = {}
    /\ waking = {}
    /\ phase = [m \in Machines |-> "run"]
    /\ loop = [m \in Machines |-> "idle"]
    /\ signal = [m \in Machines |-> FALSE]
    /\ missed = [m \in Machines |-> {}]
    /\ reply = [m \in Machines |-> {}]
    /\ zoneCommands = [m \in Machines |-> {}]
    /\ todo = [m \in Machines |-> {}]
    /\ answering = [m \in Machines |-> NoInstruction]
    /\ leaving = [m \in Machines |-> FALSE]
    /\ settings = [m \in Machines |-> "active"]
    /\ mode = [m \in Machines |-> "active"]
    /\ file = [m \in Machines |-> "active"]
    /\ booted = [m \in Machines |-> "active"]
    /\ times = [i \in Instructions |-> 0]
    /\ by = {}
    /\ lost = {}
    /\ faults = 0

-----------------------------------------------------------------------------
(* The console. *)

\* POST /:slug/agents/:agentId/commands: the row is inserted ...
Ask(i, m, k) ==
    /\ ~Asked(i)
    /\ agent' = [agent EXCEPT ![i] = m]
    /\ kind' = [kind EXCEPT ![i] = k]
    /\ waking' = waking \union {i}
    /\ UNCHANGED <<delivered, answered, phase, loop, beats, reply, zoneCommands, batch, running, ghosts, faults>>

\* ... and then whoever holds a beat for the machine is woken: its own beat
\* and the one of its relay.
Woken(i) == {agent[i]} \union {Via[z] : z \in Zone \intersect {agent[i]}}

Wake(i) ==
    /\ i \in waking
    /\ waking' = waking \ {i}
    /\ signal' = [m \in Machines |-> signal[m] \/ (m \in Direct \intersect Woken(i) /\ Listening(m))]
    /\ UNCHANGED <<rows, phase, loop, missed, reply, zoneCommands, batch, running, ghosts, faults>>

-----------------------------------------------------------------------------
(* The beat: runner::run and the two heartbeat handlers. *)

CanAsk(m) == phase[m] = "run" /\ loop[m] = "idle" /\ mode[m] = "active" /\ Reachable(m)

\* A zone machine's beat reaches its relay, which subscribes first ...
Subscribe(m) ==
    /\ m \in Zone /\ CanAsk(m)
    /\ loop' = [loop EXCEPT ![m] = "subscribed"]
    /\ signal' = [signal EXCEPT ![m] = FALSE]
    /\ UNCHANGED <<server, phase, missed, reply, zoneCommands, batch, running, ghosts, faults>>

\* ... and then looks.  The server looks at once.
Check(m) ==
    /\ IF m \in Zone THEN loop[m] = "subscribed" ELSE CanAsk(m)
    /\ loop' = [loop EXCEPT ![m] = IF WaitsFor(m) # {} THEN "told" ELSE "checked"]
    /\ signal' = [signal EXCEPT ![m] = WaitsFor(m) = {} /\ @]
    /\ UNCHANGED <<server, phase, missed, reply, zoneCommands, batch, running, ghosts, faults>>

\* Nothing waits: the beat is held.  Only now does the server listen.
Hold(m) ==
    /\ loop[m] = "checked"
    /\ loop' = [loop EXCEPT ![m] = "held"]
    /\ signal' = [signal EXCEPT ![m] = m \in Zone /\ @]
    /\ missed' = [missed EXCEPT ![m] = IF m \in Direct THEN WaitsFor(m) \ waking ELSE {}]
    /\ UNCHANGED <<server, phase, reply, zoneCommands, batch, running, ghosts, faults>>

\* The listener is taken off as the beat is answered.
StopsListening(m) ==
    /\ signal' = [signal EXCEPT ![m] = FALSE]
    /\ missed' = [missed EXCEPT ![m] = {}]

\* Woken: the table is read again, never the signal trusted.
Woke(m) ==
    /\ loop[m] = "held" /\ signal[m]
    /\ loop' = [loop EXCEPT ![m] = IF WaitsFor(m) # {} THEN "told" ELSE "idle"]
    /\ StopsListening(m)
    /\ UNCHANGED <<server, phase, reply, zoneCommands, batch, running, ghosts, faults>>

\* Mutation of BeatExpires: the hold has no timer, only the signal ends it.
BeatNeverExpires(m) == Woke(m)

\* The hold runs out, and the beat starts again.
BeatExpires(m) ==
    /\ loop[m] = "held"
    /\ loop' = [loop EXCEPT ![m] = "idle"]
    /\ StopsListening(m)
    /\ UNCHANGED <<server, phase, reply, zoneCommands, batch, running, ghosts, faults>>

\* The connection is dropped, or nobody is there: the beat starts again.
BeatDropped(m) ==
    /\ loop[m] \in Beating
    /\ faults < MaxFaults /\ faults' = faults + 1
    /\ loop' = [loop EXCEPT ![m] = "idle"]
    /\ StopsListening(m)
    /\ UNCHANGED <<server, phase, reply, zoneCommands, batch, running, ghosts>>

-----------------------------------------------------------------------------
(* The poll: GET /agent/jobs. *)

\* Mutation of Polls: an agent's startup pass does not look at its state either.
PollsAtBoot(m) ==
    \/ phase[m] = "run" /\ loop[m] \in {"idle", "told"} /\ mode[m] = "active"
    \/ phase[m] = "boot" /\ loop[m] = "idle"

\* Which machines poll: one whose beat said so or whose refresh is due, and one
\* in its startup pass.  A stopped agent asks for nothing, at startup or later;
\* a relay's startup pass does not look at its state.
Polls(m) ==
    \/ phase[m] = "run" /\ loop[m] \in {"idle", "told"} /\ mode[m] = "active"
    \/ phase[m] = "boot" /\ loop[m] = "idle" /\ (m \in Relays \/ mode[m] = "active")

\* Mutation of PollServer: read, and marked only once answered.
PollUnmarked(m) ==
    /\ m \in Direct /\ Polls(m)
    /\ reply' = [reply EXCEPT ![m] = WaitsFor(m)]
    /\ loop' = [loop EXCEPT ![m] = "polling"]
    /\ UNCHANGED <<server, phase, beats, zoneCommands, batch, running, ghosts, faults>>

\* The server marks what it hands over as it reads it.
PollServer(m) ==
    /\ m \in Direct /\ Polls(m)
    /\ reply' = [reply EXCEPT ![m] = WaitsFor(m)]
    /\ delivered' = delivered \union WaitsFor(m)
    /\ loop' = [loop EXCEPT ![m] = "polling"]
    /\ UNCHANGED <<agent, kind, answered, waking, phase, beats, zoneCommands, batch, running, ghosts, faults>>

\* Mutation of PollRelay: handed over, and kept until it is answered.
PollRelayKeeps(m) ==
    /\ m \in Zone /\ Polls(m) /\ Reachable(m)
    /\ reply' = [reply EXCEPT ![m] = WaitsFor(m)]
    /\ loop' = [loop EXCEPT ![m] = "polling"]
    /\ UNCHANGED <<server, phase, beats, zoneCommands, batch, running, ghosts, faults>>

\* The relay removes what it hands over as it hands it over.
PollRelay(m) ==
    /\ m \in Zone /\ Polls(m) /\ Reachable(m)
    /\ reply' = [reply EXCEPT ![m] = WaitsFor(m)]
    /\ zoneCommands' = [zoneCommands EXCEPT ![Via[m]] = @ \ WaitsFor(m)]
    /\ loop' = [loop EXCEPT ![m] = "polling"]
    /\ UNCHANGED <<server, phase, beats, batch, running, ghosts, faults>>

\* Mutation of ReplyArrives: a relay carries its zone's instructions out itself.
ReplyTakenWhole(m) ==
    /\ loop[m] = "polling"
    /\ todo' = [todo EXCEPT ![m] = reply[m]]
    /\ reply' = [reply EXCEPT ![m] = {}]
    /\ settings' = [settings EXCEPT ![m] = mode[m]]
    /\ loop' = [loop EXCEPT ![m] = "applying"]
    /\ UNCHANGED <<server, phase, beats, zoneCommands, answering, leaving, running, ghosts, faults>>

\* Mutation of ReplyArrives: the startup pass reads the field and drops it.
ReplyDroppedAtBoot(m) ==
    /\ loop[m] = "polling"
    /\ todo' = [todo EXCEPT ![m] = IF phase[m] = "boot" THEN {} ELSE reply[m]]
    /\ reply' = [reply EXCEPT ![m] = {}]
    /\ settings' = [settings EXCEPT ![m] = mode[m]]
    /\ loop' = [loop EXCEPT ![m] = "applying"]
    /\ UNCHANGED <<server, phase, beats, zoneCommands, answering, leaving, running, ghosts, faults>>

\* The reply arrives.  A relay files what is for its zone and wakes the beats it
\* holds; its own instructions go to commands::apply.
ReplyArrives(m) ==
    /\ loop[m] = "polling"
    /\ LET zone == {i \in reply[m] : agent[i] # m}
       IN  /\ todo' = [todo EXCEPT ![m] = reply[m] \ zone]
           /\ zoneCommands' = [zoneCommands EXCEPT ![m] = @ \union zone]
           /\ signal' = [z \in Machines |->
                            signal[z] \/ (zone # {} /\ z \in ZoneOf(m) /\ Listening(z))]
    /\ reply' = [reply EXCEPT ![m] = {}]
    /\ settings' = [settings EXCEPT ![m] = mode[m]]
    /\ loop' = [loop EXCEPT ![m] = "applying"]
    /\ UNCHANGED <<server, phase, missed, answering, leaving, running, ghosts, faults>>

\* Mutation of ReplyLost: the server takes back what was not acknowledged.
ReplyTakenBack(m) ==
    /\ loop[m] = "polling"
    /\ faults < MaxFaults /\ faults' = faults + 1
    /\ delivered' = delivered \ reply[m]
    /\ reply' = [reply EXCEPT ![m] = {}]
    /\ loop' = [loop EXCEPT ![m] = "idle"]
    /\ phase' = [phase EXCEPT ![m] = "run"]
    /\ UNCHANGED <<agent, kind, answered, waking, beats, zoneCommands, batch, running, ghosts>>

\* The reply is lost after the server (or relay) has marked it handed over.
ReplyLost(m) ==
    /\ loop[m] = "polling"
    /\ faults < MaxFaults /\ faults' = faults + 1
    /\ lost' = lost \union reply[m]
    /\ reply' = [reply EXCEPT ![m] = {}]
    /\ loop' = [loop EXCEPT ![m] = "idle"]
    /\ phase' = [phase EXCEPT ![m] = "run"]
    /\ UNCHANGED <<server, beats, zoneCommands, batch, running, times, by>>

\* The startup pass asks nothing, or nobody answers: the process runs on.
BootWithoutPoll(m) ==
    /\ phase[m] = "boot" /\ loop[m] = "idle"
    /\ phase' = [phase EXCEPT ![m] = "run"]
    /\ UNCHANGED <<server, loop, beats, reply, zoneCommands, batch, running, ghosts, faults>>

-----------------------------------------------------------------------------
(* Carrying out: commands::apply and its callers. *)

\* Mutation of After: the verb is stored where the state belongs.
AfterVerb(k, st) == IF k \in {"stop", "resume"} THEN k ELSE st

\* The state an instruction leaves behind.
After(k, st) ==
    IF k = "stop" THEN "stopped" ELSE IF k = "resume" THEN "active" ELSE st

\* One instruction is carried out.  RETURNING promises no order, so any of those
\* handed over may come next.  An agent works on its live config and writes it
\* at once; a relay works on a copy.
Carry(m, i) ==
    /\ loop[m] = "applying" /\ answering[m] = NoInstruction /\ i \in todo[m]
    /\ todo' = [todo EXCEPT ![m] = @ \ {i}]
    /\ answering' = [answering EXCEPT ![m] = i]
    /\ leaving' = [leaving EXCEPT ![m] = @ \/ kind[i] = "restart"]
    /\ settings' = [settings EXCEPT ![m] = After(kind[i], @)]
    /\ IF m \in Relays
       THEN UNCHANGED <<mode, file>>
       ELSE /\ mode' = [mode EXCEPT ![m] = settings'[m]]
            /\ file' = [file EXCEPT ![m] = settings'[m]]
    /\ times' = [times EXCEPT ![i] = @ + 1]
    /\ by' = by \union {<<m, i>>}
    /\ UNCHANGED <<server, phase, loop, beats, reply, zoneCommands, booted, lost, faults>>

\* The answer reaches the server; a zone machine's goes through its relay.
Answer(m) ==
    /\ answering[m] # NoInstruction /\ Reachable(m)
    /\ answered' = answered \union {answering[m]}
    /\ answering' = [answering EXCEPT ![m] = NoInstruction]
    /\ UNCHANGED <<agent, kind, delivered, waking, phase, loop, beats, reply, zoneCommands,
                   todo, leaving, settings, running, ghosts, faults>>

\* Carried out, but it could not say so: a warning, and never sent again.
AnswerLost(m) ==
    /\ answering[m] # NoInstruction
    /\ answering' = [answering EXCEPT ![m] = NoInstruction]
    /\ UNCHANGED <<server, phase, loop, beats, reply, zoneCommands, todo, leaving, settings,
                   running, ghosts, faults>>

\* The end of a process: what only its memory held is gone, and the beats of its
\* zone with it.
Cut(m) == {m} \union {z \in ZoneOf(m) : loop[z] \in Beating}

Ends(m) ==
    /\ phase' = [phase EXCEPT ![m] = "down"]
    /\ lost' = lost \union todo[m] \union reply[m] \union zoneCommands[m]
    /\ todo' = [todo EXCEPT ![m] = {}]
    /\ reply' = [reply EXCEPT ![m] = {}]
    /\ zoneCommands' = [zoneCommands EXCEPT ![m] = {}]
    /\ answering' = [answering EXCEPT ![m] = NoInstruction]
    /\ leaving' = [leaving EXCEPT ![m] = FALSE]
    /\ settings' = [settings EXCEPT ![m] = "active"]
    /\ loop' = [z \in Machines |-> IF z \in Cut(m) THEN "idle" ELSE loop[z]]
    /\ signal' = [z \in Machines |-> z \notin Cut(m) /\ signal[z]]
    /\ missed' = [missed EXCEPT ![m] = {}]

\* Everything handed over has been dealt with.  A relay merges its copy of the
\* state under its lock and saves it, and leaves if it was told to; an agent
\* leaves at once, and saves its config only when it stays.
BatchDone(m) ==
    /\ loop[m] = "applying" /\ todo[m] = {} /\ answering[m] = NoInstruction
    /\ mode' = [mode EXCEPT ![m] = settings[m]]
    /\ \/ /\ leaving[m]
          /\ file' = [file EXCEPT ![m] = IF m \in Relays THEN settings[m] ELSE @]
          /\ Ends(m)
       \/ /\ ~leaving[m]
          /\ file' = [file EXCEPT ![m] = settings[m]]
          /\ phase' = [phase EXCEPT ![m] = "run"]
          /\ loop' = [loop EXCEPT ![m] = "idle"]
          /\ settings' = [settings EXCEPT ![m] = "active"]
          /\ UNCHANGED <<lost, todo, reply, zoneCommands, answering, leaving, beats>>
    /\ UNCHANGED <<server, booted, times, by, faults>>

-----------------------------------------------------------------------------
(* Processes come and go. *)

Crash(m) ==
    /\ phase[m] # "down"
    /\ faults < MaxFaults /\ faults' = faults + 1
    /\ Ends(m)
    /\ UNCHANGED <<server, running, times, by>>

\* The supervisor starts it again, whatever the exit was.
Start(m) ==
    /\ phase[m] = "down"
    /\ phase' = [phase EXCEPT ![m] = "boot"]
    /\ mode' = [mode EXCEPT ![m] = file[m]]
    /\ booted' = [booted EXCEPT ![m] = file[m]]
    /\ UNCHANGED <<server, loop, beats, reply, zoneCommands, batch, file, ghosts, faults>>

\* `tern-agent resume` in a shell: it writes the file and asks for a restart.
ShellResume(m) ==
    /\ m \notin Relays /\ file[m] = "stopped"
    /\ file' = [file EXCEPT ![m] = "active"]
    /\ UNCHANGED <<server, phase, loop, beats, reply, zoneCommands, batch, mode, booted,
                   ghosts, faults>>

\* The operator restarts it for the resume to take effect.
ShellRestart(m) ==
    /\ phase[m] = "run" /\ loop[m] = "idle" /\ file[m] # mode[m]
    /\ Ends(m)
    /\ UNCHANGED <<server, running, times, by, faults>>

-----------------------------------------------------------------------------
Console == \E i \in Instructions : Wake(i) \/ \E m \in Machines, k \in AskedKinds : Ask(i, m, k)
Beat(m)  == Subscribe(m) \/ Check(m) \/ Hold(m) \/ Woke(m) \/ BeatExpires(m)
Poll(m)  == PollServer(m) \/ PollRelay(m)
Apply(m) == (\E i \in Instructions : Carry(m, i)) \/ Answer(m) \/ AnswerLost(m) \/ BatchDone(m)

\* What a machine's process does of itself, and what happens to it.
Turn(m)  == Beat(m) \/ Poll(m) \/ ReplyArrives(m) \/ BootWithoutPoll(m) \/ Apply(m) \/ Start(m)
Fault(m) == BeatDropped(m) \/ ReplyLost(m) \/ Crash(m)
Shell(m) == ShellResume(m) \/ ShellRestart(m)

Next == Console \/ \E m \in Machines : Turn(m) \/ Fault(m) \/ Shell(m)

Spec == Init /\ [][Next]_vars

\* A process that runs keeps going round its loop, and one that is down is
\* started again (Restart=always, KeepAlive); a wake() follows its insert.
FairSpec == Spec /\ (\A m \in Machines : WF_vars(Turn(m)))
                 /\ (\A i \in Instructions : WF_vars(Wake(i)))

-----------------------------------------------------------------------------
(* Safety. *)

\* Where an instruction that was handed over may be.
Places == {"reply", "relay", "todo"}
At(p, m, i) ==
    \/ p = "reply" /\ i \in reply[m]
    \/ p = "relay" /\ i \in zoneCommands[m]
    \/ p = "todo"  /\ i \in todo[m]

\* An instruction is in one place at most, and only between being handed over
\* and being carried out: whatever is lost on the way, no poll, relay or restart
\* makes a second copy of it.
InOnePlace ==
    /\ \A i \in Instructions, p, q \in Places, m, n \in Machines :
          At(p, m, i) /\ At(q, n, i) => p = q /\ m = n
    /\ \A i \in Instructions, p \in Places, m \in Machines :
          At(p, m, i) => i \in delivered /\ times[i] = 0 /\ i \notin lost

\* "Once is the promise": no instruction is carried out twice, and none that was
\* never handed over or was lost on the way (agents.ts, `Handed over and marked`).
CarriedOnce ==
    \A i \in Instructions :
        /\ times[i] <= 1
        /\ times[i] = 1 => i \in delivered /\ i \notin lost

\* Only the machine the console named carries it out, and the console never
\* reads an answer to something that did not happen.
AnsweredByItsMachine ==
    /\ \A i \in Instructions, m \in Machines : <<m, i>> \in by => agent[i] = m
    /\ \A i \in Instructions : i \in answered => <<agent[i], i>> \in by

\* Nothing that was handed over vanishes while every process involved lives: it
\* is somewhere, was carried out, or went with a process or a reply that died.
NothingVanishes ==
    \A i \in Instructions :
        i \in delivered =>
            times[i] = 1 \/ i \in lost \/ \E p \in Places, m \in Machines : At(p, m, i)

\* No held beat sleeps through an instruction.  A relay's never does, because it
\* subscribes before it checks (proxy.rs, zone_woken).  The server's may, but
\* only through one that was asked between its check and its listening.
NoBeatSleepsThrough ==
    /\ \A z \in Zone :
          loop[z] \in {"checked", "held"} /\ ~signal[z] => WaitsFor(z) = {}
    /\ \A d \in Direct :
          loop[d] = "held" /\ ~signal[d] => WaitsFor(d) \subseteq waking \union missed[d]

\* A process that found itself stopped when it started stays stopped: nothing
\* the console asks can resume it (main.rs, `A stopped agent asks for nothing,
\* including at startup`).  An agent keeps this promise.
StaysStopped(m) == phase[m] # "down" /\ booted[m] = "stopped" => mode[m] = "stopped"
StoppedAgentStaysStopped == \A m \in Machines \ Relays : StaysStopped(m)

\* A relay makes the same promise (proxy.rs, `A stopped relay says nothing
\* upstream, and that includes asking for instructions`).
StoppedRelayStaysStopped == \A m \in Relays : StaysStopped(m)

\* What makes those inductive: what is handed over sits where the step that uses
\* it expects it, and nowhere else.
Bookkeeping ==
    /\ \A m \in Machines :
          /\ loop[m] # "polling" => reply[m] = {}
          /\ loop[m] # "applying" => todo[m] = {} /\ answering[m] = NoInstruction
          /\ \A i \in reply[m] : agent[i] \in SpokenFor(m)
          /\ \A i \in zoneCommands[m] : agent[i] \in ZoneOf(m)
          /\ \A i \in todo[m] : agent[i] = m
          /\ answering[m] # NoInstruction => <<m, answering[m]>> \in by
    /\ \A i \in Instructions :
          /\ ~Asked(i) => i \notin delivered
          /\ i \notin delivered => times[i] = 0
          /\ i \in lost => i \in delivered
    /\ \A m \in Machines, i \in Instructions : <<m, i>> \in by => i \in delivered /\ times[i] > 0

-----------------------------------------------------------------------------
(* Liveness, under FairSpec. *)

\* What is asked of a machine is handed over, unless the one that would fetch it
\* was stopped, whatever wakeups were missed and whatever crashed meanwhile.
EventuallyHandedOver ==
    \A i \in Instructions, d \in Direct :
        (Undelivered(i) /\ agent[i] \in SpokenFor(d))
            ~> (i \in delivered \/ mode[d] = "stopped")

\* What a relay holds for a machine of its zone does not stay there, unless that
\* machine was stopped.
EventuallyPassedOn ==
    \A i \in Instructions, z \in Zone :
        (i \in zoneCommands[Via[z]] /\ agent[i] = z)
            ~> (i \notin zoneCommands[Via[z]] \/ mode[z] = "stopped")

-----------------------------------------------------------------------------
(* What the console is promised, whatever the path. *)

status == [i \in Instructions |->
    IF agent[i] = NoMachine THEN "none"
    ELSE IF i \notin delivered THEN "waiting"
    ELSE IF i \in answered THEN "answered"
    ELSE IF times[i] > 0 THEN "carried"
    ELSE IF i \in lost THEN "lost"
    ELSE "handed"]

Promise == INSTANCE InstructionPromise WITH Instructions <- Instructions, status <- status
PromiseKept == Promise!Spec

=============================================================================
