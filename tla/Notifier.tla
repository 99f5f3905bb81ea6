------------------------------ MODULE Notifier ------------------------------
(***************************************************************************)
(* The outbound notification queue (apps/api services/notify.ts) and the   *)
(* worker that delivers it (plugins/jobs.ts): who an event is queued for,  *)
(* and how often each of them hears it.                                    *)
(*                                                                         *)
(* Requests and jobs run in one process and interleave at every await: an  *)
(* action is what happens between two of them.  A statement of the         *)
(* database is atomic and may fail.  Time is not counted: a notification   *)
(* that backs off becomes due by an action.  Scopes are given by Wants.    *)
(***************************************************************************)
EXTENDS Naturals, FiniteSets

CONSTANTS
    Subscribers,  \* rows that may come into being in the subscribers table
    Events,       \* calls of enqueueEvent
    Wants,        \* [Events -> SUBSET Subscribers], the scope filter
    Batch,        \* batchSize, 50 in the code
    MaxAttempts,  \* MAX_ATTEMPTS, 5 in the code
    MaxFaults     \* bound on crashes, failed statements and lost answers, for TLC

ASSUME NotifierAssumption ==
    /\ Wants \in [Events -> SUBSET Subscribers]
    /\ Batch \in Nat \ {0} /\ MaxAttempts \in Nat \ {0} /\ MaxFaults \in Nat

Notes == Events \X Subscribers

VARIABLES
    subscriber,  \* "none", "asked" (not confirmed), "confirmed" or "left"
    call,        \* where each call of enqueueEvent is
    targets,     \* whom it selected
    note,        \* status of a notification: "none" before it is queued, "gone" with its row
    attempts,    \* the attempts column
    backingOff,  \* notifications whose nextAttemptAt lies ahead
    running,     \* the guard of plugins/jobs.ts: a run is in flight
    due,         \* what that run selected and has not taken up
    doing,       \* what it is delivering, as a set of at most one
    step,        \* where it is with that: "load", "send", "sent" or "error"
    read,        \* the attempts its copy of the row shows
    heard,       \* ghost: how many times a notification reached its subscriber
    faults       \* crashes, failed statements and lost answers so far

callers == <<call, targets>>
queue   == <<note, attempts, backingOff>>
worker  == <<running, due, doing, step, read>>
vars    == <<subscriber, call, targets, note, attempts, backingOff, running, due, doing, step, read, heard, faults>>

TypeOK ==
    /\ subscriber \in [Subscribers -> {"none", "asked", "confirmed", "left"}]
    /\ call \in [Events -> {"none", "selected", "queued", "failed", "lost"}]
    /\ targets \in [Events -> SUBSET Subscribers]
    /\ note \in [Notes -> {"none", "pending", "sent", "failed", "gone"}]
    /\ attempts \in [Notes -> 0 .. MaxAttempts]
    /\ backingOff \subseteq Notes /\ due \subseteq Notes /\ doing \subseteq Notes
    /\ running \in BOOLEAN
    /\ step \in {"load", "send", "sent", "error"}
    /\ read \in [Notes -> 0 .. MaxAttempts]
    /\ heard \in [Notes -> Nat]
    /\ faults \in 0 .. MaxFaults

Init ==
    /\ subscriber = [s \in Subscribers |-> "none"]
    /\ call = [e \in Events |-> "none"] /\ targets = [e \in Events |-> {}]
    /\ note = [n \in Notes |-> "none"] /\ attempts = [n \in Notes |-> 0] /\ backingOff = {}
    /\ running = FALSE /\ due = {} /\ doing = {} /\ step = "load" /\ read = [n \in Notes |-> 0]
    /\ heard = [n \in Notes |-> 0] /\ faults = 0

Fault == faults < MaxFaults /\ faults' = faults + 1

-----------------------------------------------------------------------------
(* Subscribers. *)

Subscribe(s) ==
    /\ subscriber[s] = "none"
    /\ subscriber' = [subscriber EXCEPT ![s] = "asked"]
    /\ UNCHANGED <<callers, queue, worker, heard, faults>>

Confirm(s) ==
    /\ subscriber[s] = "asked"
    /\ subscriber' = [subscriber EXCEPT ![s] = "confirmed"]
    /\ UNCHANGED <<callers, queue, worker, heard, faults>>

\* Unsubscribing deletes the row and, by the foreign key, its notifications; so
\* does the purge of rows that were never confirmed.
Leave(s) ==
    /\ subscriber[s] \in {"asked", "confirmed"}
    /\ subscriber' = [subscriber EXCEPT ![s] = "left"]
    /\ note' = [n \in Notes |-> IF n[2] = s /\ note[n] # "none" THEN "gone" ELSE note[n]]
    /\ UNCHANGED <<callers, attempts, backingOff, worker, heard, faults>>

-----------------------------------------------------------------------------
(* enqueueEvent: select the subscribers, then insert for all of them. *)

Select(e) ==
    /\ call[e] = "none"
    /\ targets' = [targets EXCEPT ![e] = {s \in Wants[e] : subscriber[s] = "confirmed"}]
    /\ call' = [call EXCEPT ![e] = "selected"]
    /\ UNCHANGED <<subscriber, queue, worker, heard, faults>>

Queued(e, S) == note' = [n \in Notes |-> IF n[1] = e /\ n[2] \in S THEN "pending" ELSE note[n]]

\* Mutation of Insert: a row at a time, skipping who left.
InsertSkips(e) ==
    /\ call[e] = "selected"
    /\ Queued(e, {s \in targets[e] : subscriber[s] = "confirmed"})
    /\ call' = [call EXCEPT ![e] = "queued"]
    /\ UNCHANGED <<subscriber, targets, attempts, backingOff, worker, heard, faults>>

\* One statement: somebody who left since the select, or a database that does
\* not answer, fails it for everybody, and the caller hears of it.
Insert(e) ==
    /\ call[e] = "selected"
    /\ \/ /\ \A s \in targets[e] : subscriber[s] = "confirmed"
          /\ Queued(e, targets[e])
          /\ call' = [call EXCEPT ![e] = "queued"]
          /\ UNCHANGED faults
       \/ /\ \E s \in targets[e] : subscriber[s] = "left"
          /\ call' = [call EXCEPT ![e] = "failed"]
          /\ UNCHANGED <<note, faults>>
       \/ /\ targets[e] # {} /\ Fault
          /\ call' = [call EXCEPT ![e] = "failed"]
          /\ UNCHANGED note
    /\ UNCHANGED <<subscriber, targets, attempts, backingOff, worker, heard>>

-----------------------------------------------------------------------------
(* The worker: a tick selects what is due and takes it up one by one. *)

Due == {n \in Notes : note[n] = "pending" /\ n \notin backingOff}

\* Mutation of Tick: no guard against a run that is still in flight.
TickOverlaps ==
    /\ Due # {}
    /\ \E S \in SUBSET Due :
          /\ Cardinality(S) = IF Cardinality(Due) < Batch THEN Cardinality(Due) ELSE Batch
          /\ due' = due \union S
          /\ read' = [n \in Notes |-> IF n \in S THEN attempts[n] ELSE read[n]]
    /\ running' = TRUE
    /\ UNCHANGED <<subscriber, callers, queue, doing, step, heard, faults>>

\* The first Batch of them, in no particular order.
Tick ==
    /\ ~running /\ Due # {}
    /\ \E S \in SUBSET Due :
          /\ Cardinality(S) = IF Cardinality(Due) < Batch THEN Cardinality(Due) ELSE Batch
          /\ due' = S
          /\ read' = [n \in Notes |-> IF n \in S THEN attempts[n] ELSE 0]
    /\ running' = TRUE
    /\ UNCHANGED <<subscriber, callers, queue, doing, step, heard, faults>>

\* The next one: its subscriber is loaded, and nobody who left is written to.
Take(n) ==
    /\ running /\ doing = {} /\ n \in due
    /\ due' = due \ {n} /\ doing' = {n}
    /\ step' = IF subscriber[n[2]] = "left" THEN "sent" ELSE "send"
    /\ UNCHANGED <<subscriber, callers, queue, running, read, heard, faults>>

\* One attempt: taken, refused, or taken without the answer coming back.
Deliver(n) ==
    /\ n \in doing /\ step = "send"
    /\ \/ heard' = [heard EXCEPT ![n] = @ + 1] /\ step' = "sent" /\ UNCHANGED faults
       \/ step' = "error" /\ UNCHANGED <<heard, faults>>
       \/ Fault /\ heard' = [heard EXCEPT ![n] = @ + 1] /\ step' = "error"
    /\ UNCHANGED <<subscriber, callers, queue, running, due, doing, read>>

Write(n, status, tries) ==
    /\ note' = IF note[n] = "gone" THEN note ELSE [note EXCEPT ![n] = status]
    /\ attempts' = [attempts EXCEPT ![n] = tries]

\* The run is over once it has taken up everything.
GoesOn ==
    /\ doing' = {} /\ step' = "load"
    /\ running' = (due # {})

\* Marked sent.  A statement that fails lands in the same catch as a delivery.
MarkSent(n) ==
    /\ n \in doing /\ step = "sent"
    /\ \/ Write(n, "sent", read[n] + 1) /\ GoesOn /\ UNCHANGED faults
       \/ Fault /\ step' = "error" /\ UNCHANGED <<note, attempts, doing, running>>
    /\ UNCHANGED <<subscriber, callers, backingOff, due, read, heard>>

\* Mutation of BackOff: the row is written back as it was read.
BackOffUncounted(n) ==
    /\ n \in doing /\ step = "error"
    /\ Write(n, "pending", read[n])
    /\ backingOff' = backingOff \union {n}
    /\ GoesOn
    /\ UNCHANGED <<subscriber, callers, due, read, heard, faults>>

\* The catch: another attempt later, or none once they are exhausted.  A
\* statement that fails here ends the run.
BackOff(n) ==
    /\ n \in doing /\ step = "error"
    /\ \/ /\ Write(n, IF read[n] + 1 >= MaxAttempts THEN "failed" ELSE "pending", read[n] + 1)
          /\ backingOff' = backingOff \union {n}
          /\ GoesOn
          /\ UNCHANGED <<due, faults>>
       \/ /\ Fault
          /\ doing' = {} /\ step' = "load" /\ running' = FALSE /\ due' = {}
          /\ UNCHANGED queue
    /\ UNCHANGED <<subscriber, callers, read, heard>>

ComesDue(n) ==
    /\ n \in backingOff
    /\ backingOff' = backingOff \ {n}
    /\ UNCHANGED <<subscriber, callers, note, attempts, worker, heard, faults>>

\* The process ends and is started again; calls and the run in flight are gone.
Crash ==
    /\ Fault
    /\ call' = [e \in Events |-> IF call[e] = "selected" THEN "lost" ELSE call[e]]
    /\ running' = FALSE /\ due' = {} /\ doing' = {} /\ step' = "load"
    /\ UNCHANGED <<subscriber, targets, queue, read, heard>>

-----------------------------------------------------------------------------
Enqueue == \E e \in Events : Select(e) \/ Insert(e)
Work    == Tick \/ \E n \in Notes : Take(n) \/ Deliver(n) \/ MarkSent(n) \/ BackOff(n)

Next ==
    \/ \E s \in Subscribers : Subscribe(s) \/ Confirm(s) \/ Leave(s)
    \/ Enqueue \/ Work \/ Crash
    \/ \E n \in Notes : ComesDue(n)

Spec == Init /\ [][Next]_vars

\* The timer fires again and again and a run goes on; each wait runs out.
FairSpec == Spec /\ WF_vars(Work) /\ \A n \in Notes : WF_vars(ComesDue(n))

-----------------------------------------------------------------------------
(* Safety. *)

\* A notification is marked sent only after it reached its subscriber.
SentWasHeard == \A n \in Notes : note[n] = "sent" => heard[n] > 0

\* Nobody hears an event twice unless something went wrong: not because two
\* ticks, a slow delivery or a full batch met.
RepeatsHaveReasons == \A n \in Notes : heard[n] <= 1 + faults

\* An event is queued for everybody it was meant for or for nobody, and the
\* caller that is not told of a failure has it queued for everybody.
AllOrNobody ==
    \A e \in Events :
        LET queued == {s \in Subscribers : note[<<e, s>>] # "none"}
        IN  IF call[e] = "queued" THEN queued = targets[e] ELSE queued = {}

-----------------------------------------------------------------------------
(* What the rest of the server may rely on: NotificationPromise.  To have      *)
(* asked is not to listen yet.                                                 *)

Listens(s) == CASE subscriber[s] = "confirmed" -> "yes" [] subscriber[s] = "left" -> "left" [] OTHER -> "no"

Promise == INSTANCE NotificationPromise
    WITH listening <- [s \in Subscribers |-> Listens(s)], mishaps <- faults

\* Every step of requests, worker, timers and failures is one of the promise or
\* none: a row is written for those who confirmed and all at once, goes only
\* forward, is marked sent only if heard, and is heard again only after a fault.
PromiseKept == Promise!Spec

-----------------------------------------------------------------------------
(* Liveness, under FairSpec. *)

\* Every notification comes to an end: sent, given up, or gone with its
\* subscriber; no endpoint that fails for ever keeps it or the others waiting.
EveryNoteSettles == \A n \in Notes : note[n] = "pending" ~> note[n] # "pending"

=============================================================================
