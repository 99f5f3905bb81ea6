------------------------------- MODULE Relay --------------------------------
(***************************************************************************)
(* A relay (clients/agent proxy.rs): the config it shares between tasks,   *)
(* the file that config is saved to, and the queue its zone fills and its  *)
(* forward loop empties.                                                   *)
(*                                                                         *)
(* Handlers and loops are tasks of one process around one lock, which none *)
(* of them holds over a call upstream: an action is what happens under the *)
(* lock, and what was read before a call is used after it.  Checking a     *)
(* zone code upstream is such a call, but nothing read before it is used   *)
(* after it, so pairing is one action.  Keys are numbered per machine in   *)
(* the order they are issued.  Writing the queue always succeeds here      *)
(* (AgentRunner is where it fails).  The config is written in place: a     *)
(* write that fails, or that a crash cuts short, may leave a file that     *)
(* does not parse, and a relay that cannot read its file does not start.   *)
(***************************************************************************)
EXTENDS Naturals, Sequences, FiniteSets, Functions

CONSTANTS
    Zone,         \* the machines that may pair here
    Loop,         \* the refresh loop, as a task that declares the zone
    QueueLimit,   \* QUEUE_LIMIT, 5 000 in the code
    Chunk,        \* what one push takes, 200 in the code
    AskedKinds,   \* the instructions the console asks of the relay, for TLC
    MaxKeys,      \* bound on the keys issued to one machine, for TLC
    MaxPoints,    \* bound on the points the zone sends, for TLC
    MaxAsks,      \* bound on instructions, for TLC
    MaxFaults     \* bound on crashes and failed writes, for TLC

Kinds  == {"pause", "resume", "stop", "restart"}
States == {"active", "paused", "stopped"}
Keys   == 0 .. MaxKeys
Points == 1 .. MaxPoints

\* The tasks that declare the zone: the loop, and one spawned by a pairing.
Tasks == Zone \union {Loop}

ASSUME RelayAssumption ==
    /\ Loop \notin Zone
    /\ QueueLimit \in Nat \ {0} /\ Chunk \in Nat \ {0}
    /\ AskedKinds \subseteq Kinds
    /\ MaxKeys \in Nat /\ MaxPoints \in Nat /\ MaxAsks \in Nat /\ MaxFaults \in Nat

VARIABLES
    phase,       \* "down", "boot" (the startup pass) or "serve"
    keys,        \* config.local_keys in memory: 0 is no entry
    state,       \* config.state in memory
    keyFile,     \* config.local_keys in proxy.toml
    stateFile,   \* config.state in proxy.toml, "torn" if it does not parse
    issued,      \* ghost: the last key each machine was answered
    declaring,   \* tasks that wait for the answer to a declaration
    copiedKeys,  \* the clone of the config each of them made
    copiedState,
    asked,       \* instructions that wait for the relay
    asks,        \* how many were asked
    loop,        \* where the refresh loop is
    todo,        \* handed over and not carried out yet
    settings,    \* the copy of the state they work on
    leaving,     \* one of them was a restart
    queue,       \* the zone's points, in memory and in the queue file
    sent,        \* points accepted from the zone so far
    sending,     \* the chunk the forward loop waits an answer for
    hold,        \* the forward loop's hold has not run out
    received,    \* ghost: points the server has got
    evictions,   \* ghost: how many points had to make room
    dropped,     \* ghost: points taken off the queue by drop_front
    faults       \* crashes and failed writes so far

config   == <<keys, state>>
written  == <<keyFile, stateFile>>
copies   == <<declaring, copiedKeys, copiedState>>
orders   == <<asked, asks, todo, settings, leaving>>
forward  == <<queue, sent, sending, hold, received, evictions, dropped>>
vars == <<phase, keys, state, keyFile, stateFile, issued, declaring, copiedKeys, copiedState, asked,
          asks, loop, todo, settings, leaving, queue, sent, sending, hold, received, evictions,
          dropped, faults>>

TypeOK ==
    /\ phase \in {"down", "boot", "serve"}
    /\ keys \in [Zone -> Keys] /\ keyFile \in [Zone -> Keys] /\ issued \in [Zone -> Keys]
    /\ state \in States /\ stateFile \in States \union {"torn"} /\ settings \in States
    /\ declaring \in SUBSET Tasks
    /\ copiedKeys \in [Tasks -> [Zone -> Keys]]
    /\ copiedState \in [Tasks -> States]
    /\ asked \in SUBSET Kinds /\ todo \in SUBSET Kinds
    /\ asks \in 0 .. MaxAsks
    /\ loop \in {"sleep", "apply", "declare"}
    /\ leaving \in BOOLEAN /\ hold \in BOOLEAN
    /\ queue \in Seq(Points) /\ sending \in Seq(Points)
    /\ received \in SUBSET Points
    /\ sent \in 0 .. MaxPoints
    /\ evictions \in Nat
    /\ dropped \in SUBSET Points
    /\ faults \in 0 .. MaxFaults

NoKeys == [m \in Zone |-> 0]

Init ==
    /\ phase = "down"
    /\ keys = NoKeys /\ keyFile = NoKeys /\ issued = NoKeys
    /\ state = "active" /\ stateFile = "active" /\ settings = "active"
    /\ declaring = {} /\ copiedKeys = [t \in Tasks |-> NoKeys]
    /\ copiedState = [t \in Tasks |-> "active"]
    /\ asked = {} /\ asks = 0 /\ loop = "sleep" /\ todo = {} /\ leaving = FALSE
    /\ queue = <<>> /\ sent = 0 /\ sending = <<>> /\ hold = FALSE
    /\ received = {} /\ evictions = 0 /\ dropped = {}
    /\ faults = 0

Fault == faults < MaxFaults /\ faults' = faults + 1

\* The file was truncated, and not or not all of it written.
Torn == keyFile' = NoKeys /\ stateFile' = "torn"

\* ProxyConfig::save of the keys k and the state s; every caller goes on when
\* it fails, which may be before or after the file is truncated.
Save(k, s) ==
    \/ keyFile' = k /\ stateFile' = s /\ UNCHANGED faults
    \/ Fault /\ (UNCHANGED written \/ Torn)

-----------------------------------------------------------------------------
(* Declaring the zone: clone under the lock, call, write the clone. *)

Clone(t) ==
    /\ declaring' = declaring \union {t}
    /\ copiedKeys' = [copiedKeys EXCEPT ![t] = keys']
    /\ copiedState' = [copiedState EXCEPT ![t] = state]

Declared(t) ==
    /\ declaring' = declaring \ {t}
    /\ copiedKeys' = [copiedKeys EXCEPT ![t] = NoKeys]
    /\ copiedState' = [copiedState EXCEPT ![t] = "active"]
    /\ loop' = IF t = Loop THEN "sleep" ELSE loop

\* Mutation of DeclareZone: the clone becomes the config.
DeclareWritesBack(t) ==
    /\ t \in declaring
    /\ Declared(t)
    /\ Save(copiedKeys[t], copiedState[t])
    /\ keys' = copiedKeys[t] /\ state' = copiedState[t]
    /\ UNCHANGED <<phase, issued, orders, forward>>

\* Mutation of DeclareZone: the inventory is declared and not saved.
DeclareUnsaved(t) ==
    /\ t \in declaring
    /\ Declared(t)
    /\ UNCHANGED <<phase, config, written, issued, orders, forward, faults>>

\* Upstream took it: the clone is saved.
DeclareZone(t) ==
    /\ t \in declaring
    /\ Declared(t)
    /\ Save(copiedKeys[t], copiedState[t])
    /\ UNCHANGED <<phase, config, issued, orders, forward>>

\* Upstream did not answer: a warning, and nothing is saved.
DeclareFails(t) ==
    /\ t \in declaring
    /\ Declared(t)
    /\ UNCHANGED <<phase, config, written, issued, orders, forward, faults>>

-----------------------------------------------------------------------------
(* The zone. *)

\* A machine pairs, or pairs again: its entry is added or replaced and saved
\* under the lock, and a task is spawned that declares the zone.
Pair(m) ==
    /\ phase = "serve" /\ m \notin declaring
    /\ issued[m] < MaxKeys
    /\ issued' = [issued EXCEPT ![m] = @ + 1]
    /\ keys' = [keys EXCEPT ![m] = issued'[m]]
    /\ Save(keys', state)
    /\ Clone(m)
    /\ UNCHANGED <<phase, state, orders, loop, forward>>

\* identify: the key a machine presents is the last one it was answered.
Known(m) == issued[m] # 0 /\ keys[m] = issued[m]

Newest(s) == SubSeq(s, IF Len(s) > QueueLimit THEN Len(s) - QueueLimit + 1 ELSE 1, Len(s))

\* A point is accepted once it is in the queue; the oldest makes room.
Ingest(m) ==
    /\ phase = "serve" /\ Known(m)
    /\ sent < MaxPoints /\ sent' = sent + 1
    /\ queue' = Newest(Append(queue, sent'))
    /\ evictions' = evictions + (Len(queue) + 1 - Len(queue'))
    /\ UNCHANGED <<phase, config, written, issued, copies, loop, orders, sending, hold, received, dropped, faults>>

-----------------------------------------------------------------------------
(* The forward loop. *)

First(n, s) == SubSeq(s, 1, IF Len(s) < n THEN Len(s) ELSE n)
Rest(n, s)  == SubSeq(s, (IF Len(s) < n THEN Len(s) ELSE n) + 1, Len(s))

\* Mutation of Push: popped, then sent.
PushPops ==
    /\ phase = "serve" /\ ~hold /\ sending = <<>>
    /\ state = "active" /\ queue # <<>>
    /\ sending' = First(Chunk, queue)
    /\ queue' = Rest(Chunk, queue)
    /\ UNCHANGED <<phase, config, written, issued, copies, loop, orders, sent, hold, received, evictions, dropped, faults>>

\* A chunk is copied under the lock and sent without it.  A relay that is paused
\* or stopped starts no push.
Push ==
    /\ phase = "serve" /\ ~hold /\ sending = <<>>
    /\ state = "active" /\ queue # <<>>
    /\ sending' = First(Chunk, queue)
    /\ UNCHANGED <<phase, config, written, issued, copies, loop, orders, queue, sent, hold, received, evictions, dropped, faults>>

Arrive == received' = received \union Range(sending)

\* Confirmed: as many points as were sent are taken off the front.
Pushed ==
    /\ sending # <<>>
    /\ Arrive
    /\ queue' = Rest(Len(sending), queue)
    /\ dropped' = dropped \union Range(First(Len(sending), queue))
    /\ sending' = <<>>
    /\ UNCHANGED <<phase, config, written, issued, copies, loop, orders, sent, hold, evictions, faults>>

\* No answer, whether or not the server took it: everything is kept, and the
\* loop holds off.
NotPushed ==
    /\ sending # <<>>
    /\ Arrive \/ UNCHANGED received
    /\ sending' = <<>> /\ hold' = TRUE
    /\ UNCHANGED <<phase, config, written, issued, copies, loop, orders, queue, sent, evictions, dropped, faults>>

\* Mutation of HoldExpires: only an empty queue lifts the hold.
HoldForGood ==
    /\ hold /\ queue = <<>> /\ hold' = FALSE
    /\ UNCHANGED <<phase, config, written, issued, copies, loop, orders, queue, sent, sending, received, evictions, dropped, faults>>

HoldExpires ==
    /\ hold /\ hold' = FALSE
    /\ UNCHANGED <<phase, config, written, issued, copies, loop, orders, queue, sent, sending, received, evictions, dropped, faults>>

-----------------------------------------------------------------------------
(* The startup pass, the refresh loop and the relay's own instructions. *)

Ask(k) ==
    /\ asks < MaxAsks /\ asks' = asks + 1
    /\ asked' = asked \union {k}
    /\ UNCHANGED <<phase, config, written, issued, copies, loop, todo, settings, leaving, forward, faults>>

\* The config and the queue are read; a config that does not parse ends it at
\* once.  The startup poll does not look at the state.
Start ==
    /\ phase = "down" /\ stateFile # "torn"
    /\ phase' = "boot"
    /\ keys' = keyFile /\ state' = stateFile
    /\ UNCHANGED <<written, issued, copies, loop, orders, forward, faults>>

Asks == loop = "sleep" /\ (phase = "boot" \/ (phase = "serve" /\ state # "stopped"))

\* The poll is answered with instructions, which work on a copy of the settings.
Polled ==
    /\ Asks /\ asked # {}
    /\ todo' = asked /\ asked' = {}
    /\ settings' = state
    /\ loop' = "apply"
    /\ UNCHANGED <<phase, config, written, issued, copies, asks, leaving, forward, faults>>

\* Where the startup pass and a turn of the loop go on.
GoesOn ==
    /\ phase' = "serve"
    /\ loop' = IF phase = "boot" THEN "sleep" ELSE "declare"

\* The poll brings no instruction, or fails and the cached assignment is kept.
PolledNothing ==
    /\ Asks
    /\ GoesOn
    /\ UNCHANGED <<config, written, issued, copies, orders, forward, faults>>

\* Mutation of StateOf: the verb is stored where the state belongs.
StateOfVerb(k) == k

StateOf(k) == CASE k = "pause" -> "paused" [] k = "resume" -> "active" [] k = "stop" -> "stopped"

\* One instruction is carried out on the copy, and answered.
Carry(k) ==
    /\ loop = "apply" /\ k \in todo
    /\ todo' = todo \ {k}
    /\ leaving' = (leaving \/ k = "restart")
    /\ settings' = IF k = "restart" THEN settings ELSE StateOf(k)
    /\ UNCHANGED <<phase, config, written, issued, copies, loop, asked, asks, forward, faults>>

\* The end of the process: every task ends with it.
Dies ==
    /\ phase' = "down"
    /\ declaring' = {} /\ copiedKeys' = [t \in Tasks |-> NoKeys]
    /\ copiedState' = [t \in Tasks |-> "active"]
    /\ loop' = "sleep" /\ todo' = {} /\ settings' = "active" /\ leaving' = FALSE
    /\ sending' = <<>> /\ hold' = FALSE
    /\ UNCHANGED <<keys, issued, asked, asks, queue, sent, received, evictions, dropped>>

\* The copy is merged under the lock, field by field, and the live config saved;
\* then a restart leaves.
Merge ==
    /\ loop = "apply" /\ todo = {}
    /\ state' = settings
    /\ Save(keys, settings)
    /\ IF leaving
       THEN Dies
       ELSE /\ GoesOn
            /\ settings' = "active"
            /\ UNCHANGED <<keys, issued, copies, asked, asks, todo, leaving, forward>>

\* The turn of the loop ends with a declaration.
LoopDeclares ==
    /\ phase = "serve" /\ loop = "declare" /\ Loop \notin declaring
    /\ UNCHANGED keys
    /\ Clone(Loop)
    /\ UNCHANGED <<phase, state, written, issued, loop, orders, forward, faults>>

\* Somebody may be writing the file: a machine pairs, a declaration was
\* answered, or instructions are merged.
Saving == phase = "serve" \/ (loop = "apply" /\ todo = {})

\* A crash, which may cut a save short, or the graceful shutdown on SIGTERM,
\* which writes nothing.
Crash ==
    /\ phase # "down" /\ Fault
    /\ UNCHANGED written \/ (Saving /\ Torn)
    /\ Dies
    /\ UNCHANGED state

-----------------------------------------------------------------------------
Serving  == (\E m \in Zone : Pair(m) \/ Ingest(m)) \/ \E k \in AskedKinds : Ask(k)
Refresh  == Start \/ Polled \/ PolledNothing \/ (\E k \in Kinds : Carry(k)) \/ Merge \/ LoopDeclares
Forward  == Push \/ Pushed \/ NotPushed
Declare(t) == DeclareZone(t) \/ DeclareFails(t)

Next == Serving \/ Refresh \/ Forward \/ HoldExpires \/ Crash \/ \E t \in Tasks : Declare(t)

Spec == Init /\ [][Next]_vars

\* Each task goes on, timers run out, and upstream answers again and again.
FairSpec ==
    /\ Spec
    /\ WF_vars(Refresh) /\ WF_vars(Forward) /\ WF_vars(HoldExpires) /\ SF_vars(Pushed)
    /\ \A t \in Tasks : WF_vars(Declare(t)) /\ SF_vars(DeclareZone(t))

-----------------------------------------------------------------------------
(* Safety. *)

\* While a relay runs, no task makes it forget a machine that paired: what the
\* loops and the instructions carried over a call is never written back over
\* the live list (proxy.rs, apply_own_commands).
NoPairingForgotten ==
    [][phase = "serve" /\ phase' = "serve" => \A m \in Zone : keys'[m] >= keys[m]]_vars

\* No more points are missing than had to make room: whatever a push that was
\* in flight when the queue overflowed takes off the front, a lost answer, a
\* crash or a restart costs no point of its own.
RoomIsPaidOnce ==
    Cardinality((1 .. sent) \ (Range(queue) \union received)) <= evictions

\* What drop_front takes off the queue is what upstream has confirmed
\* (runner.rs, drop_front).  The code does not keep this, once points arrive while
\* a full queue is being pushed.
DropsOnlyConfirmed == dropped \subseteq received

\* A machine that was answered a key is still known after the relay restarts
\* (proxy.rs, apply_own_commands and declare_zone).  The code does not keep this,
\* with two machines that pair while one of them is declared.
PairedSurvivesRestart == phase = "serve" => \A m \in Zone : keys[m] = issued[m]

-----------------------------------------------------------------------------
(* Liveness, under FairSpec. *)

\* Nothing starts this relay again: it ended with a file that does not parse.
Broken == phase = "down" /\ stateFile = "torn"

\* The zone's points reach the server however long it was away and whatever
\* crashes, unless the relay is paused or stopped, the point made room for
\* others, or the relay ended before a torn file was written again.
ForwardDrains ==
    \A p \in Points :
        p \in Range(queue) ~> (p \notin Range(queue) \/ state # "active" \/ Broken)

\* The file says what the relay knows, and can be read.
InStep == stateFile # "torn" /\ keyFile = keys

\* A file that a late declaration left behind, or a write that failed tore,
\* catches up with the relay that serves, unless it is stopped or ends first.
FileCatchesUp ==
    (phase = "serve" /\ ~InStep) ~> (phase # "serve" \/ InStep \/ state = "stopped")

=============================================================================
