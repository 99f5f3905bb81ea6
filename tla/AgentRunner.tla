---------------------------- MODULE AgentRunner -----------------------------
(***************************************************************************)
(* One agent process from start to exit: the startup pass of main.rs, the  *)
(* loop of runner.rs, the instructions of commands.rs, and the two files   *)
(* that outlive the process, the config and the queue of points.           *)
(*                                                                         *)
(* The loop is one task, so an action is what happens between two awaits.  *)
(* Writes may fail or be cut short by the death of the process; both files *)
(* are truncated before they are written.  A SIGTERM is only heard where   *)
(* the loop listens for it.  How instructions reach the agent is           *)
(* InstructionDelivery's business: here they are a set that waits.         *)
(***************************************************************************)
EXTENDS Naturals, Sequences, Functions

CONSTANTS
    QueueLimit,   \* QUEUE_LIMIT, 5 000 in the code
    Chunk,        \* CHUNK, 200 in the code
    AskedKinds,   \* the instructions the console asks, for TLC
    MaxPoints,    \* bound on measurements, for TLC
    MaxAsks,      \* bound on instructions, for TLC
    MaxFaults     \* bound on crashes, signals and failed writes, for TLC

Kinds == {"pause", "resume", "stop", "restart"}

ASSUME RunnerAssumption ==
    /\ QueueLimit \in Nat \ {0} /\ Chunk \in Nat \ {0}
    /\ AskedKinds \subseteq Kinds
    /\ MaxPoints \in Nat \ {0, 1} /\ MaxAsks \in Nat /\ MaxFaults \in Nat

\* Points are numbered in the order they are measured.
Points == 1 .. MaxPoints
States == {"active", "paused", "stopped"}

\* Where the process is.  "boot" and "open" are main.rs, the others the loop.
Places == {"down", "boot", "open", "top", "asleep", "beat", "refresh", "apply",
           "measure", "flush", "sending"}

\* Why the queue in memory is ahead of its file.
Reasons == {"saved", "legacy", "hold", "disk"}

\* Why a point is in no file, in no memory and not on the server.
Fates == Reasons \union {"none", "evicted", "crash", "term", "status"}

VARIABLES
    pc,        \* where the process is
    booting,   \* "apply" belongs to the startup pass
    mem,       \* config.state of the process
    file,      \* the state in the config file, "torn" if it does not parse
    asked,     \* instructions that wait for the agent
    asks,      \* how many were asked
    todo,      \* handed over and not carried out yet
    leaving,   \* one of them was a restart
    batch,     \* measured, not in the queue yet
    queue,     \* the queue in memory
    disk,      \* the queue file
    legacy,    \* the queue file of the misnamed era
    measured,  \* how many points were measured
    hold,      \* flush_hold has not run out
    termed,    \* a SIGTERM was swallowed
    unsaved,   \* ghost: why the queue is ahead of its file
    arrivals,  \* ghost: points in the order the server first got them
    fate,      \* ghost: why a point is gone
    told,      \* ghost: the state the console was last told, if it still counts
    refused,   \* ghost: the state before an instruction that was refused
    faults     \* crashes, signals and failed writes so far

config == <<mem, file, told, refused>>
orders == <<asked, asks, todo, leaving>>
points == <<batch, measured>>
saved  == <<disk, unsaved>>
flags  == <<booting, termed>>
vars == <<pc, booting, mem, file, asked, asks, todo, leaving, batch, queue, disk, legacy,
          measured, hold, termed, unsaved, arrivals, fate, told, refused, faults>>

TypeOK ==
    /\ pc \in Places
    /\ booting \in BOOLEAN
    /\ mem \in States
    /\ file \in States \union {"torn"}
    /\ asked \in SUBSET Kinds /\ todo \in SUBSET Kinds
    /\ asks \in 0 .. MaxAsks
    /\ leaving \in BOOLEAN
    /\ batch \in Seq(Points) /\ queue \in Seq(Points)
    /\ disk \in Seq(Points) /\ legacy \in Seq(Points)
    /\ measured \in 0 .. MaxPoints
    /\ hold \in BOOLEAN /\ termed \in BOOLEAN
    /\ unsaved \in Reasons
    /\ arrivals \in Seq(Points)
    /\ fate \in [Points -> Fates]
    /\ told \in States \union {"none"}
    /\ refused \in States \union {"none"}
    /\ faults \in 0 .. MaxFaults

\* What the server has, and what the machine still has.
received == Range(arrivals)
Kept     == Range(batch) \union Range(queue) \union Range(disk) \union Range(legacy)

\* A fresh install, or a machine upgraded with points under both names.
Init ==
    /\ pc = "down" /\ booting = FALSE /\ hold = FALSE /\ termed = FALSE
    /\ mem = "active" /\ file = "active"
    /\ asked = {} /\ asks = 0 /\ todo = {} /\ leaving = FALSE
    /\ batch = <<>> /\ queue = <<>>
    /\ \/ legacy = <<>>  /\ disk = <<>>  /\ measured = 0
       \/ legacy = <<1>> /\ disk = <<2>> /\ measured = 2
    /\ unsaved = "saved" /\ arrivals = <<>> /\ fate = [p \in Points |-> "none"]
    /\ told = "none" /\ refused = "none"
    /\ faults = 0

Fault  == faults < MaxFaults /\ faults' = faults + 1

\* Points that were somewhere before a step and are nowhere after it.
Mourn(cause) ==
    fate' = [p \in Points |-> IF p \in Kept \ (Kept' \union received') THEN cause ELSE fate[p]]

-----------------------------------------------------------------------------
(* The queue's file and the process's end. *)

\* Queue::persist: best effort.  A write that fails may have truncated the file.
Persist ==
    \/ disk' = queue' /\ unsaved' = "saved" /\ UNCHANGED faults
    \/ Fault /\ disk' \in {disk, <<>>} /\ unsaved' = "disk"

Dies ==
    /\ pc' = "down"
    /\ batch' = <<>> /\ queue' = <<>> /\ todo' = {}
    /\ booting' = FALSE /\ leaving' = FALSE /\ termed' = FALSE /\ hold' = FALSE
    /\ UNCHANGED <<mem, asked, asks, legacy, measured, arrivals>>

\* A crash may cut a write of either file short.
Crash ==
    /\ pc # "down" /\ Fault
    /\ disk' \in {disk} \union (IF pc = "sending" THEN {<<>>} ELSE {})
    /\ file' \in {file} \union (IF pc = "apply" THEN {"torn"} ELSE {})
    /\ Dies /\ Mourn("crash")
    /\ unsaved' = "saved"
    /\ UNCHANGED <<told, refused>>

\* The supervisor stops waiting for a process that did not hear its SIGTERM.
Kill ==
    /\ termed
    /\ UNCHANGED <<disk, file, told, refused, faults>>
    /\ Dies /\ Mourn(IF unsaved \in {"legacy", "disk"} THEN unsaved ELSE "term")
    /\ unsaved' = "saved"

\* SIGTERM where the loop listens, between iterations and inside a beat: the
\* queue is written and the process leaves.
TermHeard ==
    /\ pc \in {"top", "beat"} /\ faults < MaxFaults
    /\ \/ disk' = queue /\ faults' = faults + 1
       \/ disk' \in {disk, <<>>} /\ Fault
    /\ Dies /\ Mourn("disk")
    /\ unsaved' = "saved"
    /\ UNCHANGED <<file, told, refused>>

\* SIGTERM anywhere else in the loop: tokio's handler is installed, and nobody
\* listens to it.
TermSwallowed ==
    /\ pc \in Places \ {"down", "boot", "open", "top", "beat"} /\ ~booting /\ ~termed
    /\ Fault
    /\ termed' = TRUE
    /\ UNCHANGED <<pc, booting, config, orders, points, queue, saved, legacy, hold, arrivals, fate>>

-----------------------------------------------------------------------------
(* main.rs: the startup pass. *)

\* The supervisor starts it; a config that does not parse ends it at once.  A
\* stopped agent asks for nothing.
Start ==
    /\ pc = "down" /\ file # "torn"
    /\ mem' = file
    /\ refused' = "none"
    /\ pc' = IF file = "stopped" THEN "open" ELSE "boot"
    /\ UNCHANGED <<flags, file, told, orders, points, queue, saved, legacy, hold, arrivals, fate, faults>>

\* Mutation of Open: what the running name holds goes first.
OpenNewestFirst ==
    /\ pc = "open"
    /\ queue' = disk \o legacy
    /\ legacy' = <<>>
    /\ unsaved' = IF legacy = <<>> THEN "saved" ELSE "legacy"
    /\ pc' = "top"
    /\ UNCHANGED <<flags, config, orders, points, disk, hold, arrivals, fate, faults>>

\* Queue::open: the older file first, removed once it is read.
Open ==
    /\ pc = "open"
    /\ queue' = legacy \o disk
    /\ legacy' = <<>>
    /\ unsaved' = IF legacy = <<>> THEN "saved" ELSE "legacy"
    /\ pc' = "top"
    /\ UNCHANGED <<flags, config, orders, points, disk, hold, arrivals, fate, faults>>

\* `tern-agent status` and `doctor` open the queue too, and keep nothing.
Status ==
    /\ legacy # <<>>
    /\ legacy' = <<>>
    /\ UNCHANGED <<pc, flags, config, orders, points, queue, saved, hold, arrivals, faults>>
    /\ Mourn("status")

-----------------------------------------------------------------------------
(* Instructions: main.rs and refresh_assignment call commands::apply. *)

Ask(k) ==
    /\ asks < MaxAsks /\ asks' = asks + 1
    /\ asked' = asked \union {k}
    /\ UNCHANGED <<pc, flags, config, todo, leaving, points, queue, saved, legacy, hold, arrivals, fate, faults>>

\* The poll is answered.
Polled ==
    /\ pc \in {"boot", "refresh"}
    /\ todo' = asked /\ asked' = {}
    /\ booting' = (pc = "boot")
    /\ pc' = "apply"
    /\ UNCHANGED <<termed, config, asks, leaving, points, queue, saved, legacy, hold, arrivals, fate, faults>>

\* Nobody answers: the assignment at hand is kept.
PollFails ==
    /\ pc \in {"boot", "refresh"}
    /\ pc' = IF pc = "boot" THEN "open" ELSE "measure"
    /\ UNCHANGED <<flags, config, orders, points, queue, saved, legacy, hold, arrivals, fate, faults>>

\* Mutation of StateOf: the verb is stored where the state belongs.
StateOfVerb(k) == k

StateOf(k) == CASE k = "pause" -> "paused" [] k = "resume" -> "active" [] k = "stop" -> "stopped"

\* Mutation of SetState: what the write said is not looked at.
SetStateUnchecked(k) ==
    /\ mem' = StateOf(k)
    /\ \/ file' = mem' /\ UNCHANGED faults
       \/ Fault /\ file' \in {file, "torn"}
    /\ told' \in {mem', "none"} /\ refused' = "none"

\* set_state: memory first, then the file; an answer of success only once it
\* is written, and an answer may not arrive.  A failed write is answered as
\* such.
SetState(k) ==
    /\ mem' = StateOf(k)
    /\ \/ /\ file' = mem' /\ told' \in {mem', "none"} /\ refused' = "none"
          /\ UNCHANGED faults
       \/ /\ Fault
          /\ file' \in {file, "torn"} /\ told' = "none" /\ refused' = mem

Carry(k) ==
    /\ pc = "apply" /\ k \in todo
    /\ todo' = todo \ {k}
    /\ leaving' = (leaving \/ k = "restart")
    /\ IF k = "restart" THEN UNCHANGED <<config, faults>> ELSE SetState(k)
    /\ UNCHANGED <<pc, flags, asked, asks, points, queue, saved, legacy, hold, arrivals, fate>>

\* A restart leaves at once: leave_for_restart writes nothing.
Leave ==
    /\ pc = "apply" /\ todo = {} /\ leaving
    /\ UNCHANGED <<disk, file, told, refused, faults>>
    /\ Dies /\ Mourn(unsaved)
    /\ unsaved' = "saved"

\* The assignment is written back.  At startup a write that fails ends the
\* process; later it is a warning.
Applied ==
    /\ pc = "apply" /\ todo = {} /\ ~leaving
    /\ UNCHANGED <<disk, told, refused>>
    /\ \/ /\ file' = mem
          /\ pc' = IF booting THEN "open" ELSE "measure"
          /\ booting' = FALSE
          /\ UNCHANGED <<termed, mem, orders, points, queue, unsaved, legacy, hold, arrivals, fate, faults>>
       \/ /\ Fault /\ file' \in {file, "torn"} /\ ~booting
          /\ pc' = "measure"
          /\ UNCHANGED <<flags, mem, orders, points, queue, unsaved, legacy, hold, arrivals, fate>>
       \/ /\ Fault /\ file' \in {file, "torn"} /\ booting
          /\ Dies
          /\ UNCHANGED <<unsaved, fate>>

\* `tern-agent resume` in a shell writes the file under the running process.
ShellResume ==
    /\ file \in {"paused", "stopped"}
    /\ file' = "active" /\ told' = "none" /\ refused' = "none"
    /\ UNCHANGED <<pc, flags, mem, orders, points, queue, saved, legacy, hold, arrivals, fate, faults>>

-----------------------------------------------------------------------------
(* The loop of runner::run. *)

\* An iteration: a stopped agent sleeps; otherwise the beat or the refresh may
\* be due, or neither.
Turn ==
    /\ \/ pc = "top" /\ mem = "stopped" /\ pc' = "asleep"
       \/ pc = "top" /\ mem # "stopped" /\ pc' \in {"beat", "refresh", "measure"}
       \/ pc = "asleep" /\ pc' = "top"
       \/ pc = "beat" /\ pc' \in {"refresh", "measure"}
    /\ UNCHANGED <<flags, config, orders, points, queue, saved, legacy, hold, arrivals, fate, faults>>

\* A probe is run; only an active agent measures.
Measure ==
    /\ pc = "measure" /\ mem = "active" /\ measured < MaxPoints
    /\ measured' = measured + 1
    /\ batch' = Append(batch, measured')
    /\ UNCHANGED <<pc, flags, config, orders, queue, saved, legacy, hold, arrivals, fate, faults>>

Newest(s) == SubSeq(s, IF Len(s) > QueueLimit THEN Len(s) - QueueLimit + 1 ELSE 1, Len(s))

\* Points that make room; the file may hold them until it is next written.
Evict ==
    fate' = [p \in Points |->
                IF p \in Range(queue \o batch) \ (Range(queue') \union received) THEN "evicted" ELSE fate[p]]

\* Queue::push for every point measured: the oldest make room.
Push ==
    /\ pc = "measure"
    /\ queue' = IF batch = <<>> THEN queue ELSE Newest(queue \o batch)
    /\ batch' = <<>>
    /\ pc' = "flush"
    /\ UNCHANGED <<flags, config, orders, measured, saved, legacy, hold, arrivals, faults>>
    /\ Evict

\* Mutation of HoldExpires: only a success lifts the hold.
HoldForGood ==
    /\ hold /\ queue = <<>> /\ hold' = FALSE
    /\ UNCHANGED <<pc, flags, config, orders, points, queue, saved, legacy, arrivals, fate, faults>>

HoldExpires ==
    /\ hold /\ hold' = FALSE
    /\ UNCHANGED <<pc, flags, config, orders, points, queue, saved, legacy, arrivals, fate, faults>>

\* The flush: skipped during a hold, and nothing to do for an empty queue.
Flush ==
    /\ pc = "flush"
    /\ pc' = IF hold \/ queue = <<>> THEN "top" ELSE "sending"
    /\ unsaved' = IF hold /\ queue # disk /\ unsaved = "saved" THEN "hold" ELSE unsaved
    /\ UNCHANGED <<flags, config, orders, points, queue, disk, legacy, hold, arrivals, fate, faults>>

Increasing(s) == \A i, j \in DOMAIN s : i < j => s[i] < s[j]

First(n, s) == SubSeq(s, 1, IF Len(s) < n THEN Len(s) ELSE n)
Rest(n, s)  == SubSeq(s, Len(First(n, s)) + 1, Len(s))

\* What the server has not got of the chunk, in the chunk's order.
Arrive ==
    LET chunk == First(Chunk, queue)
        new   == {i \in DOMAIN chunk : chunk[i] \notin received}
    IN  \E n \in 0 .. Len(chunk) : \E f \in [1 .. n -> new] :
            /\ Range(f) = new /\ Increasing(f)
            /\ arrivals' = arrivals \o [i \in 1 .. n |-> chunk[f[i]]]

Sent ==
    /\ pc = "sending"
    /\ Arrive
    /\ queue' = Rest(Chunk, queue)
    /\ Persist
    /\ hold' = FALSE
    /\ pc' = "top"
    /\ UNCHANGED <<flags, config, orders, points, legacy, fate>>

\* Mutation of NotSent: the failure is held off without writing the queue.
NotSentUnsaved ==
    /\ pc = "sending"
    /\ Arrive \/ UNCHANGED arrivals
    /\ hold' = TRUE
    /\ pc' = "top"
    /\ UNCHANGED <<flags, config, orders, points, queue, saved, legacy, fate, faults>>

\* No answer, whether or not the server took the chunk: everything is kept.
NotSent ==
    /\ pc = "sending"
    /\ Arrive \/ UNCHANGED arrivals
    /\ UNCHANGED queue
    /\ Persist
    /\ hold' = TRUE
    /\ pc' = "top"
    /\ UNCHANGED <<flags, config, orders, points, legacy, fate>>

-----------------------------------------------------------------------------
Loop == Turn \/ Push \/ Flush \/ Sent \/ NotSent
Main == Start \/ Open \/ Polled \/ PollFails \/ Leave \/ Applied \/ \E k \in Kinds : Carry(k)
Outside == Crash \/ Kill \/ TermHeard \/ TermSwallowed \/ Status \/ ShellResume
           \/ \E k \in AskedKinds : Ask(k)

Next == Main \/ Loop \/ Measure \/ HoldExpires \/ Outside

Spec == Init /\ [][Next]_vars

\* The process goes round its loop and is started again by its supervisor; the
\* hold is a timer; the server takes points again and again.
FairSpec == Spec /\ WF_vars(Main \/ Loop) /\ WF_vars(HoldExpires) /\ SF_vars(Sent)

-----------------------------------------------------------------------------
(* Safety. *)

\* Every measured point is on the machine or on the server, or is gone for a
\* reason: room was needed, the process was killed, or it left with a queue
\* ahead of its file because of a hold, a failed write or the older file.
\* Sending, failing, draining and reloading lose nothing.
NothingLostQuietly ==
    \A p \in 1 .. measured :
        /\ p \in Kept \union received \/ fate[p] # "none"
        /\ fate[p] # "saved"

\* Points that made room in the queue.
Evicted == {p \in Points : fate[p] = "evicted"}

\* First in, first out over restarts and both files: the server gets points in
\* the order they were measured, and what made room and is gone is older than
\* what is still to be sent.  The exceptions are points that came back: one that
\* made room does when the file that still held it is read again, and so does
\* one that the server has when the write after its answer failed.
OldestFirst ==
    /\ Increasing(queue)
    /\ \A i, j \in {k \in DOMAIN arrivals : arrivals[k] \notin Evicted} : i < j => arrivals[i] < arrivals[j]
    /\ \A p \in Evicted \ Kept, q \in (Range(queue) \union Range(batch)) \ (received \union Evicted) : p < q

\* "Done" is durable: once the console was told a state, the process goes by it
\* and its file holds it, over every restart, unless a write was cut short.
ToldIsTrue ==
    told # "none" => file \in {told, "torn"} /\ (pc # "down" => mem = told)

\* Backing off costs freshness, never history (runner.rs, docs/protocol.md).
\* The code does not keep this: a restart asked for during a hold loses what was
\* measured since the queue was last written.
RestartKeepsHistory == \A p \in Points : fate[p] # "hold"

\* A state that could not be written is not applied in memory only
\* (commands.rs, set_state).  The code does not keep this: the process goes by it
\* until it restarts.
RefusedIsNotApplied == refused # "none" /\ pc # "down" => mem = refused

-----------------------------------------------------------------------------
(* Liveness, under FairSpec. *)

\* However long the server was away and whatever failed, a buffered point ends
\* up on the server, unless the agent is stopped, the point is gone for a
\* reason, or the config no longer parses.
BacklogDrains ==
    \A p \in Points :
        p \in Kept ~> (p \in received \/ fate[p] # "none" \/ mem = "stopped" \/ file = "torn")

=============================================================================
