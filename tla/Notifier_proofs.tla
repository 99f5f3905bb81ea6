-------------------------- MODULE Notifier_proofs ---------------------------
(***************************************************************************)
(* Proofs about the notification queue, for any subscribers and events,    *)
(* any batch, any number of attempts and any number of faults.             *)
(***************************************************************************)
EXTENDS Notifier, TLAPS

USE DEF callers, queue, worker

\* What a run has in its hands was pending when it read it, is pending or gone
\* now, and has an attempt left.  It is in its hands once.
Hands ==
    /\ ~running => due = {} /\ doing = {}
    /\ \A n \in due : n \notin doing
    /\ \A n, m \in doing : n = m
    /\ \A n \in due \union doing : note[n] \in {"pending", "gone"} /\ read[n] < MaxAttempts

\* A row that is pending has an attempt left and a subscriber who is there; one
\* that was never queued was never touched.
Rows ==
    \A n \in Notes :
        /\ note[n] = "pending" => attempts[n] < MaxAttempts /\ subscriber[n[2]] = "confirmed"
        /\ note[n] = "none" => attempts[n] = 0 /\ heard[n] = 0

\* A row exists for those a call selected once its insert went through.
Queue ==
    \A e \in Events, s \in Subscribers :
        note[<<e, s>>] # "none" <=> call[e] = "queued" /\ s \in targets[e]

\* The one notification a run has delivered and not marked yet.
Unmarked(n) == n \in doing /\ step = "sent"

\* Every repetition was paid for with a fault before the next one can begin.
Paid ==
    \A n \in Notes :
        /\ heard[n] <= 1 + faults
        /\ (note[n] = "pending" \/ n \in due \union doing) /\ ~Unmarked(n) => heard[n] <= faults

\* What is about to be marked sent was heard.
Heard == \A n \in Notes : note[n] = "sent" \/ (note[n] = "pending" /\ Unmarked(n)) => heard[n] > 0

IInv == TypeOK /\ Hands /\ Rows /\ Queue /\ Paid /\ Heard


-----------------------------------------------------------------------------
(* Shared facts. *)

\* A notification is an event and a subscriber.
LEMMA Parts ==
    ASSUME NEW n \in Notes
    PROVE  n[1] \in Events /\ n[2] \in Subscribers /\ n = <<n[1], n[2]>>
BY DEF Notes

\* Mutual exclusion of pending, sent, failed and gone is by value; a row a run
\* holds is a notification.
LEMMA Held == TypeOK => due \subseteq Notes /\ doing \subseteq Notes
BY DEF TypeOK

-----------------------------------------------------------------------------
(* Types. *)

\* What the worker writes keeps the queue in its type.
LEMMA WriteType ==
    ASSUME TypeOK, NEW n \in Notes, NEW status \in {"pending", "sent", "failed"},
           NEW tries \in 0 .. MaxAttempts, Write(n, status, tries)
    PROVE  /\ note' \in [Notes -> {"none", "pending", "sent", "failed", "gone"}]
           /\ attempts' \in [Notes -> 0 .. MaxAttempts]
BY DEF TypeOK, Write

\* So does going on with the next one.
LEMMA GoesOnType ==
    GoesOn => doing' \subseteq Notes /\ running' \in BOOLEAN
              /\ step' \in {"load", "send", "sent", "error"}
BY DEF GoesOn

\* And the end of a run, by a failure or with the process.
Dropped == running' = FALSE /\ due' = {} /\ doing' = {} /\ step' = "load"

\* It keeps the worker in its type.
LEMMA DroppedType ==
    Dropped => due' \subseteq Notes /\ doing' \subseteq Notes /\ running' \in BOOLEAN
               /\ step' \in {"load", "send", "sent", "error"}
BY DEF Dropped

\* Every step keeps every variable in its type.
LEMMA TypeStep == IInv /\ [Next]_vars => TypeOK'
<1> SUFFICES ASSUME IInv, [Next]_vars PROVE TypeOK'
  OBVIOUS
<1> USE NotifierAssumption
<1>t. TypeOK BY DEF IInv
<1>u. CASE UNCHANGED vars BY <1>t, <1>u DEF TypeOK, vars
<1>1. ASSUME NEW s \in Subscribers, Subscribe(s) PROVE TypeOK'
  BY <1>t, <1>1 DEF TypeOK, Subscribe
<1>2. ASSUME NEW s \in Subscribers, Confirm(s) PROVE TypeOK'
  BY <1>t, <1>2 DEF TypeOK, Confirm
<1>3. ASSUME NEW s \in Subscribers, Leave(s) PROVE TypeOK'
  <2>1. note' \in [Notes -> {"none", "pending", "sent", "failed", "gone"}]
    BY <1>t, <1>3 DEF TypeOK, Leave
  <2>2. QED BY <1>t, <1>3, <2>1 DEF TypeOK, Leave
<1>4. ASSUME NEW e \in Events, Select(e) PROVE TypeOK'
  BY <1>t, <1>4 DEF TypeOK, Select
<1>5. ASSUME NEW e \in Events, Insert(e) PROVE TypeOK'
  <2>1. note' \in [Notes -> {"none", "pending", "sent", "failed", "gone"}]
    BY <1>t, <1>5 DEF TypeOK, Insert, Queued
  <2>2. call' \in [Events -> {"none", "selected", "queued", "failed", "lost"}]
    BY <1>t, <1>5 DEF TypeOK, Insert
  <2>3. faults' \in 0 .. MaxFaults BY <1>t, <1>5 DEF TypeOK, Insert, Fault
  <2>4. QED BY <1>t, <1>5, <2>1, <2>2, <2>3 DEF TypeOK, Insert
<1>6. CASE Tick
  <2>1. PICK S \in SUBSET Due : due' = S /\ read' = [n \in Notes |-> IF n \in S THEN attempts[n] ELSE 0]
    BY <1>6 DEF Tick
  <2>2. due' \subseteq Notes BY <2>1 DEF Due
  <2>3. read' \in [Notes -> 0 .. MaxAttempts] BY <1>t, <2>1 DEF TypeOK
  <2>4. QED BY <1>t, <1>6, <2>2, <2>3 DEF TypeOK, Tick
<1>7. ASSUME NEW n \in Notes, Take(n) PROVE TypeOK'
  BY <1>t, <1>7 DEF TypeOK, Take
<1>8. ASSUME NEW n \in Notes, Deliver(n) PROVE TypeOK'
  BY <1>t, <1>8 DEF TypeOK, Deliver, Fault
<1>9. ASSUME NEW n \in Notes, MarkSent(n) PROVE TypeOK'
  <2>1. read[n] + 1 \in 0 .. MaxAttempts BY <1>t, <1>9 DEF IInv, Hands, MarkSent, TypeOK
  <2>2. CASE Write(n, "sent", read[n] + 1) /\ GoesOn /\ UNCHANGED faults
    BY <1>t, <1>9, <2>1, <2>2, WriteType, GoesOnType DEF TypeOK, MarkSent
  <2>3. CASE Fault /\ step' = "error" /\ UNCHANGED <<note, attempts, doing, running>>
    BY <1>t, <1>9, <2>3 DEF TypeOK, MarkSent, Fault
  <2>4. QED BY <1>9, <2>2, <2>3 DEF MarkSent
<1>10. ASSUME NEW n \in Notes, BackOff(n) PROVE TypeOK'
  <2>1. read[n] + 1 \in 0 .. MaxAttempts BY <1>t, <1>10 DEF IInv, Hands, BackOff, TypeOK
  <2> DEFINE status == IF read[n] + 1 >= MaxAttempts THEN "failed" ELSE "pending"
  <2>2. CASE Write(n, status, read[n] + 1) /\ GoesOn /\ UNCHANGED <<due, faults>>
    <3>1. status \in {"pending", "sent", "failed"} OBVIOUS
    <3>2. /\ note' \in [Notes -> {"none", "pending", "sent", "failed", "gone"}]
          /\ attempts' \in [Notes -> 0 .. MaxAttempts]
      BY <1>t, <2>1, <2>2, <3>1, WriteType
    <3>3. backingOff' \subseteq Notes BY <1>t, <1>10 DEF TypeOK, BackOff
    <3>4. QED BY <1>t, <1>10, <2>2, <3>2, <3>3, GoesOnType DEF TypeOK, BackOff
  <2>3. CASE Fault /\ Dropped /\ UNCHANGED queue
    BY <1>t, <1>10, <2>3, DroppedType DEF TypeOK, BackOff, Fault
  <2>4. QED BY <1>10, <2>2, <2>3 DEF BackOff, Dropped
<1>11. ASSUME NEW n \in Notes, ComesDue(n) PROVE TypeOK'
  BY <1>t, <1>11 DEF TypeOK, ComesDue
<1>12. CASE Crash
  <2>1. call' \in [Events -> {"none", "selected", "queued", "failed", "lost"}]
    BY <1>t, <1>12 DEF TypeOK, Crash
  <2>2. Dropped BY <1>12 DEF Crash, Dropped
  <2>3. QED BY <1>t, <1>12, <2>1, <2>2, DroppedType DEF TypeOK, Crash, Fault
<1>13. QED
  BY <1>u, <1>1, <1>2, <1>3, <1>4, <1>5, <1>6, <1>7, <1>8, <1>9, <1>10, <1>11, <1>12
     DEF Next, Enqueue, Work

-----------------------------------------------------------------------------
(* Hands. *)

\* No step puts a second run, a settled row or an exhausted one into the hands
\* of the worker.
LEMMA HandsStep == IInv /\ [Next]_vars => Hands'
<1> SUFFICES ASSUME IInv, [Next]_vars PROVE Hands'
  OBVIOUS
<1> USE NotifierAssumption, Held DEF IInv
<1>u. CASE UNCHANGED vars BY <1>u DEF Hands, vars
<1>1. ASSUME NEW s \in Subscribers, Subscribe(s) PROVE Hands'
  BY <1>1 DEF Hands, Subscribe
<1>2. ASSUME NEW s \in Subscribers, Confirm(s) PROVE Hands'
  BY <1>2 DEF Hands, Confirm
<1>3. ASSUME NEW s \in Subscribers, Leave(s) PROVE Hands'
  BY <1>3 DEF Hands, Leave
<1>4. ASSUME NEW e \in Events, Select(e) PROVE Hands'
  BY <1>4 DEF Hands, Select
<1>5. ASSUME NEW e \in Events, Insert(e) PROVE Hands'
  <2>1. \A n \in due \union doing : n \in Notes /\ (note'[n] = note[n] \/ note'[n] = "pending")
    BY <1>5 DEF Insert, Queued
  <2>2. QED BY <1>5, <2>1 DEF Hands, Insert
<1>6. CASE Tick
  <2>1. PICK S \in SUBSET Due : due' = S /\ read' = [n \in Notes |-> IF n \in S THEN attempts[n] ELSE 0]
    BY <1>6 DEF Tick
  <2>2. doing = {} BY <1>6 DEF Hands, Tick
  <2>3. \A n \in S : n \in Notes /\ note[n] = "pending" /\ read'[n] < MaxAttempts
    BY <2>1 DEF Due, Rows
  <2>4. QED BY <1>6, <2>1, <2>2, <2>3 DEF Hands, Tick
<1>7. ASSUME NEW n \in Notes, Take(n) PROVE Hands'
  BY <1>7 DEF Hands, Take
<1>8. ASSUME NEW n \in Notes, Deliver(n) PROVE Hands'
  BY <1>8 DEF Hands, Deliver
<1>9. ASSUME NEW n \in Notes, MarkSent(n) PROVE Hands'
  <2>1. \A m \in due : note'[m] = note[m] BY <1>9 DEF TypeOK, Hands, MarkSent, Write
  <2>2. CASE GoesOn
    <3>1. doing' = {} /\ (~running' => due = {}) BY <2>2 DEF GoesOn
    <3>2. QED BY <1>9, <2>1, <3>1 DEF Hands, MarkSent
  <2>3. CASE UNCHANGED <<note, attempts, doing, running>>
    BY <1>9, <2>3 DEF Hands, MarkSent
  <2>4. QED BY <1>9, <2>2, <2>3 DEF MarkSent
<1>10. ASSUME NEW n \in Notes, BackOff(n) PROVE Hands'
  <2>1. \A m \in due : note'[m] = note[m] BY <1>10 DEF TypeOK, Hands, BackOff, Write
  <2>2. CASE GoesOn /\ UNCHANGED <<due, faults>>
    <3>1. doing' = {} /\ (~running' => due = {}) BY <2>2 DEF GoesOn
    <3>2. QED BY <1>10, <2>1, <2>2, <3>1 DEF Hands, BackOff
  <2>3. CASE Dropped BY <2>3 DEF Hands, Dropped
  <2>4. QED BY <1>10, <2>2, <2>3 DEF BackOff, Dropped
<1>11. ASSUME NEW n \in Notes, ComesDue(n) PROVE Hands'
  BY <1>11 DEF Hands, ComesDue
<1>12. CASE Crash BY <1>12 DEF Hands, Crash, Dropped
<1>13. QED
  BY <1>u, <1>1, <1>2, <1>3, <1>4, <1>5, <1>6, <1>7, <1>8, <1>9, <1>10, <1>11, <1>12
     DEF Next, Enqueue, Work

-----------------------------------------------------------------------------
(* Rows and the queue. *)

\* Which rows a step of the worker writes: the one in its hands, which exists.
LEMMA Written ==
    ASSUME IInv, NEW n \in Notes, MarkSent(n) \/ BackOff(n)
    PROVE  /\ note[n] \in {"pending", "gone"} /\ read[n] \in Nat /\ read[n] < MaxAttempts
           /\ \A m \in Notes : m # n => note'[m] = note[m] /\ attempts'[m] = attempts[m]
           /\ note[n] = "gone" => note'[n] = "gone"
           /\ note'[n] \in {"pending", "sent", "failed", "gone"}
           /\ note'[n] = "pending" => note[n] = "pending" /\ attempts'[n] < MaxAttempts
           /\ note'[n] = "sent" => step = "sent" /\ note[n] = "pending"
<1> USE NotifierAssumption
<1>1. note[n] \in {"pending", "gone"} /\ read[n] \in Nat /\ read[n] < MaxAttempts
  BY DEF IInv, TypeOK, Hands, MarkSent, BackOff
<1>2. CASE UNCHANGED <<note, attempts>>
  <2>1. note[n] = "pending" => attempts[n] < MaxAttempts BY DEF IInv, Rows
  <2>2. QED BY <1>1, <1>2, <2>1
<1>3. CASE MarkSent(n) /\ Write(n, "sent", read[n] + 1)
  BY <1>1, <1>3 DEF IInv, TypeOK, MarkSent, Write
<1>4. CASE Write(n, IF read[n] + 1 >= MaxAttempts THEN "failed" ELSE "pending", read[n] + 1)
  BY <1>1, <1>4 DEF IInv, TypeOK, Write
<1>5. QED BY <1>2, <1>3, <1>4 DEF MarkSent, BackOff

\* Who left has no pending row, and no row is pending once its attempts are
\* exhausted.
LEMMA RowsStep == IInv /\ [Next]_vars => Rows'
<1> SUFFICES ASSUME IInv, [Next]_vars PROVE Rows'
  OBVIOUS
<1> USE NotifierAssumption DEF IInv
<1>u. CASE UNCHANGED vars BY <1>u DEF Rows, vars
<1>1. ASSUME NEW s \in Subscribers, Subscribe(s) PROVE Rows'
  BY <1>1, Parts DEF TypeOK, Rows, Subscribe
<1>2. ASSUME NEW s \in Subscribers, Confirm(s) PROVE Rows'
  BY <1>2, Parts DEF TypeOK, Rows, Confirm
<1>3. ASSUME NEW s \in Subscribers, Leave(s) PROVE Rows'
  BY <1>3, Parts DEF TypeOK, Rows, Leave
<1>4. ASSUME NEW e \in Events, Select(e) PROVE Rows'
  BY <1>4 DEF Rows, Select
<1>5. ASSUME NEW e \in Events, Insert(e) PROVE Rows'
  <2>1. CASE UNCHANGED note BY <1>5, <2>1 DEF Rows, Insert
  <2>2. CASE Queued(e, targets[e]) /\ \A s \in targets[e] : subscriber[s] = "confirmed"
    <3>1. ASSUME NEW n \in Notes, n[1] = e, n[2] \in targets[e]
          PROVE  attempts[n] < MaxAttempts /\ subscriber[n[2]] = "confirmed"
      <4>1. note[n] = "none" BY <1>5, <3>1, Parts DEF Queue, Insert
      <4>2. attempts[n] = 0 BY <4>1 DEF Rows
      <4>3. QED BY <2>2, <3>1, <4>2
    <3>2. QED BY <1>5, <2>2, <3>1 DEF Rows, Insert, Queued
  <2>3. QED BY <1>5, <2>1, <2>2 DEF Insert
<1>6. CASE Tick BY <1>6 DEF Rows, Tick
<1>7. ASSUME NEW n \in Notes, Take(n) PROVE Rows'
  BY <1>7 DEF Rows, Take
<1>8. ASSUME NEW n \in Notes, Deliver(n) PROVE Rows'
  <2>1. note[n] # "none" BY <1>8 DEF Hands, Deliver
  <2>2. \A m \in Notes : m # n => heard'[m] = heard[m] BY <1>8 DEF TypeOK, Deliver
  <2>3. QED BY <1>8, <2>1, <2>2 DEF Rows, Deliver
<1>9. ASSUME NEW n \in Notes, MarkSent(n) PROVE Rows'
  BY <1>9, Written DEF Rows, MarkSent
<1>10. ASSUME NEW n \in Notes, BackOff(n) PROVE Rows'
  BY <1>10, Written DEF Rows, BackOff
<1>11. ASSUME NEW n \in Notes, ComesDue(n) PROVE Rows'
  BY <1>11 DEF Rows, ComesDue
<1>12. CASE Crash BY <1>12 DEF Rows, Crash
<1>13. QED
  BY <1>u, <1>1, <1>2, <1>3, <1>4, <1>5, <1>6, <1>7, <1>8, <1>9, <1>10, <1>11, <1>12
     DEF Next, Enqueue, Work

\* A step that adds and removes no row, and completes no call, keeps the queue
\* what the calls made it.
LEMMA QueueKept ==
    ASSUME Queue, \A n \in Notes : note'[n] = "none" <=> note[n] = "none",
           \A e \in Events : (call'[e] = "queued" <=> call[e] = "queued")
                             /\ (call[e] = "queued" => targets'[e] = targets[e])
    PROVE  Queue'
BY DEF Queue, Notes

\* Only an insert adds rows, and it adds one for everybody it selected.
LEMMA QueueStep == IInv /\ [Next]_vars => Queue'
<1> SUFFICES ASSUME IInv, [Next]_vars PROVE Queue'
  OBVIOUS
<1> USE NotifierAssumption DEF IInv
<1>u. CASE UNCHANGED vars BY <1>u DEF Queue, vars
<1>1. ASSUME NEW s \in Subscribers, Subscribe(s) PROVE Queue'
  BY <1>1 DEF Queue, Subscribe
<1>2. ASSUME NEW s \in Subscribers, Confirm(s) PROVE Queue'
  BY <1>2 DEF Queue, Confirm
<1>3. ASSUME NEW s \in Subscribers, Leave(s) PROVE Queue'
  BY <1>3, QueueKept DEF Leave
<1>4. ASSUME NEW e \in Events, Select(e) PROVE Queue'
  BY <1>4, QueueKept DEF TypeOK, Select
<1>5. ASSUME NEW e \in Events, Insert(e) PROVE Queue'
  <2>1. CASE UNCHANGED note /\ call' = [call EXCEPT ![e] = "failed"]
    BY <1>5, <2>1, QueueKept DEF TypeOK, Insert
  <2>2. CASE Queued(e, targets[e]) /\ call' = [call EXCEPT ![e] = "queued"]
    <3>1. ASSUME NEW d \in Events, NEW s \in Subscribers
          PROVE note'[<<d, s>>] # "none" <=> call'[d] = "queued" /\ s \in targets[d]
      <4>1. <<d, s>> \in Notes BY DEF Notes
      <4>2. note'[<<d, s>>] = IF d = e /\ s \in targets[e] THEN "pending" ELSE note[<<d, s>>]
        BY <2>2, <4>1 DEF Queued
      <4>3. CASE d = e
        <5>1. note[<<e, s>>] = "none" BY <1>5 DEF Queue, Insert
        <5>2. call'[e] = "queued" BY <2>2 DEF TypeOK
        <5>3. QED BY <4>2, <4>3, <5>1, <5>2
      <4>4. CASE d # e
        <5>1. call'[d] = call[d] BY <2>2, <4>4 DEF TypeOK
        <5>2. QED BY <4>2, <4>4, <5>1 DEF Queue
      <4>5. QED BY <4>3, <4>4
    <3>2. QED BY <1>5, <3>1 DEF Queue, Insert
  <2>3. QED BY <1>5, <2>1, <2>2 DEF Insert
<1>6. CASE Tick BY <1>6 DEF Queue, Tick
<1>7. ASSUME NEW n \in Notes, Take(n) PROVE Queue'
  BY <1>7 DEF Queue, Take
<1>8. ASSUME NEW n \in Notes, Deliver(n) PROVE Queue'
  BY <1>8 DEF Queue, Deliver
<1>9. ASSUME NEW n \in Notes, MarkSent(n) PROVE Queue'
  <2>1. \A m \in Notes : note'[m] = "none" <=> note[m] = "none" BY <1>9, Written
  <2>2. QED BY <1>9, <2>1, QueueKept DEF MarkSent
<1>10. ASSUME NEW n \in Notes, BackOff(n) PROVE Queue'
  <2>1. \A m \in Notes : note'[m] = "none" <=> note[m] = "none" BY <1>10, Written
  <2>2. QED BY <1>10, <2>1, QueueKept DEF BackOff
<1>11. ASSUME NEW n \in Notes, ComesDue(n) PROVE Queue'
  BY <1>11 DEF Queue, ComesDue
<1>12. CASE Crash BY <1>12, QueueKept DEF TypeOK, Crash
<1>13. QED
  BY <1>u, <1>1, <1>2, <1>3, <1>4, <1>5, <1>6, <1>7, <1>8, <1>9, <1>10, <1>11, <1>12
     DEF Next, Enqueue, Work

-----------------------------------------------------------------------------
(* How often a notification is heard. *)

\* A notification is heard again only while it is pending or in the hands of a
\* run, and each time but the first a fault was spent since.
LEMMA PaidStep == IInv /\ [Next]_vars => Paid'
<1> SUFFICES ASSUME IInv, [Next]_vars PROVE Paid'
  OBVIOUS
<1> USE NotifierAssumption, Held DEF IInv, Unmarked
<1>f. faults \in Nat /\ \A n \in Notes : heard[n] \in Nat BY DEF TypeOK
<1>u. CASE UNCHANGED vars BY <1>u DEF Paid, vars
<1>1. ASSUME NEW s \in Subscribers, Subscribe(s) PROVE Paid'
  BY <1>1 DEF Paid, Subscribe
<1>2. ASSUME NEW s \in Subscribers, Confirm(s) PROVE Paid'
  BY <1>2 DEF Paid, Confirm
<1>3. ASSUME NEW s \in Subscribers, Leave(s) PROVE Paid'
  BY <1>3 DEF Paid, Leave
<1>4. ASSUME NEW e \in Events, Select(e) PROVE Paid'
  BY <1>4 DEF Paid, Select
<1>5. ASSUME NEW e \in Events, Insert(e) PROVE Paid'
  <2>1. faults' \in {faults, faults + 1} BY <1>5 DEF Insert, Fault
  <2>2. \A n \in Notes : note'[n] = "pending" => note[n] = "pending" \/ heard[n] = 0
    <3>1. CASE UNCHANGED note BY <3>1
    <3>2. CASE Queued(e, targets[e])
      <4>1. \A n \in Notes : n[1] = e => note[n] = "none" BY <1>5, Parts DEF Queue, Insert
      <4>2. QED BY <3>2, <4>1 DEF Queued, Rows
    <3>3. QED BY <1>5, <3>1, <3>2 DEF Insert
  <2>3. QED BY <1>5, <1>f, <2>1, <2>2 DEF Paid, Insert
<1>6. CASE Tick
  <2>1. doing = {} BY <1>6 DEF Hands, Tick
  <2>2. \A n \in due' : n \in Notes /\ note[n] = "pending" BY <1>6 DEF Tick, Due
  <2>3. QED BY <1>6, <2>1, <2>2 DEF Paid, Tick
<1>7. ASSUME NEW n \in Notes, Take(n) PROVE Paid'
  BY <1>7 DEF Paid, Take
<1>8. ASSUME NEW n \in Notes, Deliver(n) PROVE Paid'
  <2>1. heard[n] <= faults BY <1>8 DEF Paid, Deliver
  <2>2. \A m \in Notes : m # n => m \notin doing BY <1>8 DEF Hands, Deliver
  <2>3. \A m \in Notes : m # n => heard'[m] = heard[m] BY <1>8 DEF TypeOK, Deliver
  <2>4. \/ heard'[n] = heard[n] + 1 /\ step' = "sent" /\ faults' = faults
        \/ heard'[n] = heard[n] /\ faults' = faults
        \/ heard'[n] = heard[n] + 1 /\ faults' = faults + 1
    BY <1>8 DEF TypeOK, Deliver, Fault
  <2>5. QED BY <1>8, <1>f, <2>1, <2>2, <2>3, <2>4 DEF Paid, Deliver
<1>9. ASSUME NEW n \in Notes, MarkSent(n) PROVE Paid'
  <2>1. \A m \in Notes : m # n => m \notin doing BY <1>9 DEF Hands, MarkSent
  <2>2. CASE Fault /\ step' = "error" /\ UNCHANGED <<note, attempts, doing, running>>
    <3>1. faults' = faults + 1 BY <2>2 DEF Fault
    <3>2. QED BY <1>9, <1>f, <2>1, <2>2, <3>1 DEF Paid, MarkSent
  <2>3. CASE Write(n, "sent", read[n] + 1) /\ GoesOn /\ UNCHANGED faults
    <3>1. note'[n] # "pending" BY <1>9, <2>3 DEF TypeOK, Write
    <3>2. n \notin due /\ doing' = {} BY <1>9, <2>3 DEF Hands, MarkSent, GoesOn
    <3>3. \A m \in Notes : m # n => note'[m] = note[m] BY <1>9, Written
    <3>4. QED BY <1>9, <2>1, <2>3, <3>1, <3>2, <3>3 DEF Paid, MarkSent
  <2>4. QED BY <1>9, <2>2, <2>3 DEF MarkSent
<1>10. ASSUME NEW n \in Notes, BackOff(n) PROVE Paid'
  <2>1. \A m \in Notes : m # n => m \notin doing BY <1>10 DEF Hands, BackOff
  <2>2. heard[n] <= faults /\ step # "sent" BY <1>10 DEF Paid, BackOff
  <2>3. \A m \in Notes : m # n => note'[m] = note[m] BY <1>10, Written
  <2>4. doing' = {} /\ due' \subseteq due BY <1>10 DEF BackOff, GoesOn
  <2>5. faults' \in {faults, faults + 1} BY <1>10 DEF BackOff, Fault
  <2>6. QED BY <1>10, <1>f, <2>1, <2>2, <2>3, <2>4, <2>5 DEF Paid, BackOff
<1>11. ASSUME NEW n \in Notes, ComesDue(n) PROVE Paid'
  BY <1>11 DEF Paid, ComesDue
<1>12. CASE Crash
  <2>1. faults' = faults + 1 BY <1>12 DEF Crash, Fault
  <2>2. QED BY <1>12, <1>f, <2>1 DEF Paid, Crash
<1>13. QED
  BY <1>u, <1>1, <1>2, <1>3, <1>4, <1>5, <1>6, <1>7, <1>8, <1>9, <1>10, <1>11, <1>12
     DEF Next, Enqueue, Work

\* What is taken up as already sent is gone; anything else was delivered.
LEMMA HeardStep == IInv /\ [Next]_vars => Heard'
<1> SUFFICES ASSUME IInv, [Next]_vars PROVE Heard'
  OBVIOUS
<1> USE NotifierAssumption, Held DEF IInv, Unmarked
<1>f. \A n \in Notes : heard[n] \in Nat BY DEF TypeOK
<1>u. CASE UNCHANGED vars BY <1>u DEF Heard, vars
<1>1. ASSUME NEW s \in Subscribers, Subscribe(s) PROVE Heard'
  BY <1>1 DEF Heard, Subscribe
<1>2. ASSUME NEW s \in Subscribers, Confirm(s) PROVE Heard'
  BY <1>2 DEF Heard, Confirm
<1>3. ASSUME NEW s \in Subscribers, Leave(s) PROVE Heard'
  BY <1>3 DEF Heard, Leave
<1>4. ASSUME NEW e \in Events, Select(e) PROVE Heard'
  BY <1>4 DEF Heard, Select
<1>5. ASSUME NEW e \in Events, Insert(e) PROVE Heard'
  <2>1. CASE UNCHANGED note BY <1>5, <2>1 DEF Heard, Insert
  <2>2. CASE Queued(e, targets[e])
    <3>1. \A n \in Notes : n[1] = e => n \notin doing
      BY <1>5, Parts DEF Queue, Insert, Hands
    <3>2. QED BY <1>5, <2>2, <3>1 DEF Heard, Insert, Queued
  <2>3. QED BY <1>5, <2>1, <2>2 DEF Insert
<1>6. CASE Tick
  <2>1. doing = {} BY <1>6 DEF Hands, Tick
  <2>2. QED BY <1>6, <2>1 DEF Heard, Tick
<1>7. ASSUME NEW n \in Notes, Take(n) PROVE Heard'
  <2>1. note[n] = "pending" => step' = "send" BY <1>7 DEF Rows, Take
  <2>2. QED BY <1>7, <2>1 DEF Heard, Take
<1>8. ASSUME NEW n \in Notes, Deliver(n) PROVE Heard'
  <2>1. \A m \in Notes : m # n => m \notin doing BY <1>8 DEF Hands, Deliver
  <2>2. \A m \in Notes : m # n => heard'[m] = heard[m] BY <1>8 DEF TypeOK, Deliver
  <2>3. note[n] # "sent" BY <1>8 DEF Hands, Deliver
  <2>4. step' = "sent" => heard'[n] > 0 BY <1>8, <1>f DEF TypeOK, Deliver
  <2>5. QED BY <1>8, <2>1, <2>2, <2>3, <2>4 DEF Heard, Deliver
<1>9. ASSUME NEW n \in Notes, MarkSent(n) PROVE Heard'
  <2>1. note'[n] = "sent" => heard[n] > 0 BY <1>9, Written DEF Heard, MarkSent
  <2>2. \A m \in Notes : m # n => note'[m] = note[m] /\ m \notin doing
    BY <1>9, Written DEF Hands, MarkSent
  <2>3. \A m \in doing' : m \in doing /\ step' # "sent" BY <1>9 DEF MarkSent, GoesOn
  <2>4. QED BY <1>9, <2>1, <2>2, <2>3 DEF Heard, MarkSent
<1>10. ASSUME NEW n \in Notes, BackOff(n) PROVE Heard'
  <2>1. note'[n] # "sent" BY <1>10, Written DEF BackOff
  <2>2. \A m \in Notes : m # n => note'[m] = note[m] BY <1>10, Written
  <2>3. doing' = {} BY <1>10 DEF BackOff, GoesOn
  <2>4. QED BY <1>10, <2>1, <2>2, <2>3 DEF Heard, BackOff
<1>11. ASSUME NEW n \in Notes, ComesDue(n) PROVE Heard'
  BY <1>11 DEF Heard, ComesDue
<1>12. CASE Crash BY <1>12 DEF Heard, Crash
<1>13. QED
  BY <1>u, <1>1, <1>2, <1>3, <1>4, <1>5, <1>6, <1>7, <1>8, <1>9, <1>10, <1>11, <1>12
     DEF Next, Enqueue, Work

-----------------------------------------------------------------------------
(* The theorems. *)

\* The empty tables satisfy the invariant.
LEMMA InitIInv == Init => IInv
<1> SUFFICES ASSUME Init PROVE IInv
  OBVIOUS
<1> USE NotifierAssumption DEF Init
<1>1. TypeOK
  <2>1. /\ subscriber \in [Subscribers -> {"none", "asked", "confirmed", "left"}]
        /\ call \in [Events -> {"none", "selected", "queued", "failed", "lost"}]
        /\ targets \in [Events -> SUBSET Subscribers]
        /\ note \in [Notes -> {"none", "pending", "sent", "failed", "gone"}]
    OBVIOUS
  <2>2. /\ attempts \in [Notes -> 0 .. MaxAttempts] /\ read \in [Notes -> 0 .. MaxAttempts]
        /\ heard \in [Notes -> Nat] /\ faults \in 0 .. MaxFaults
    OBVIOUS
  <2>3. backingOff \subseteq Notes /\ due \subseteq Notes /\ doing \subseteq Notes
    OBVIOUS
  <2>4. running \in BOOLEAN /\ step \in {"load", "send", "sent", "error"}
    OBVIOUS
  <2>5. QED BY <2>1, <2>2, <2>3, <2>4 DEF TypeOK
<1>2. Hands /\ Rows BY DEF Hands, Rows
<1>3. Queue BY DEF Queue, Notes
<1>4. Paid /\ Heard BY DEF Paid, Heard, Unmarked
<1>5. QED BY <1>1, <1>2, <1>3, <1>4 DEF IInv

\* The worker, the rows and the counts fit together in every reachable state of
\* notify.ts, whatever fails.
THEOREM Invariant == Spec => []IInv
<1>1. IInv /\ [Next]_vars => IInv'
  BY TypeStep, HandsStep, RowsStep, QueueStep, PaidStep, HeardStep DEF IInv
<1>2. QED BY <1>1, InitIInv, PTL DEF Spec

\* The tables, the calls and the worker keep their types; in particular no
\* attempts column exceeds the limit.
THEOREM Types == Spec => []TypeOK
<1>1. IInv => TypeOK BY DEF IInv
<1>2. QED BY <1>1, Invariant, PTL

\* A notification is marked sent only after it reached its subscriber, whatever
\* fails or ends in between (notify.ts, processQueue).
THEOREM SentIsTrue == Spec => []SentWasHeard
<1>1. IInv => SentWasHeard BY DEF IInv, Heard, SentWasHeard
<1>2. QED BY <1>1, Invariant, PTL

\* Nobody hears an event more often than once plus once per fault: ticks, slow
\* deliveries and full batches repeat nothing (jobs.ts, the guard).
THEOREM OncePlusFaults == Spec => []RepeatsHaveReasons
<1>1. IInv => RepeatsHaveReasons BY DEF IInv, Paid, RepeatsHaveReasons
<1>2. QED BY <1>1, Invariant, PTL

\* An event is queued for everybody it was meant for or for nobody, and a call
\* that reports no failure queued it (notify.ts, enqueueEvent).
THEOREM ForAllOrNobody == Spec => []AllOrNobody
<1>1. ASSUME IInv, NEW e \in Events
      PROVE  {s \in Subscribers : note[<<e, s>>] # "none"}
                = IF call[e] = "queued" THEN targets[e] ELSE {}
  <2>1. targets[e] \subseteq Subscribers BY <1>1 DEF IInv, TypeOK
  <2>2. QED BY <1>1, <2>1 DEF IInv, Queue
<1>2. IInv => AllOrNobody BY <1>1 DEF AllOrNobody
<1>3. QED BY <1>2, Invariant, PTL

-----------------------------------------------------------------------------
(* The queue implements what it promises, step by step. *)

\* What the promise sees of a state.
Seen == <<subscriber, note, heard, faults>>

\* A step that changes nothing the promise sees is none of its steps.
LEMMA Unseen == UNCHANGED Seen => UNCHANGED Promise!vars
BY DEF Seen, Promise!vars, Listens

\* A step that changes no subscriber changes nobody's listening.
LEMMA SameAudience ==
    subscriber' = subscriber =>
        [s \in Subscribers |-> Listens(s)]' = [s \in Subscribers |-> Listens(s)]
BY DEF Listens

\* A fault that nobody sees the like of in the tables is a mishap.
LEMMA FaultIsMishap ==
    ASSUME Fault, UNCHANGED <<subscriber, note, heard>>
    PROVE  Promise!Next
BY SameAudience DEF Fault, Promise!Next, Promise!GoesWrong, Promise!Mishap

\* A confirmation agrees, and whoever unsubscribes leaves.
LEMMA AudienceStep ==
    ASSUME IInv, NEW s \in Subscribers, Confirm(s) \/ Leave(s)
    PROVE  Promise!Next
<1> DEFINE L == [x \in Subscribers |-> Listens(x)]
<1>t. subscriber \in [Subscribers -> {"none", "asked", "confirmed", "left"}] BY DEF IInv, TypeOK
<1>1. CASE Confirm(s)
  <2>1. L[s] = "no" /\ L' = [L EXCEPT ![s] = "yes"] BY <1>t, <1>1 DEF Confirm, Listens
  <2>2. Promise!Agree(s) BY <1>1, <2>1 DEF Promise!Agree, Confirm
  <2>3. QED BY <2>2 DEF Promise!Next
<1>2. CASE Leave(s)
  <2>1. L[s] # "left" /\ L' = [L EXCEPT ![s] = "left"] BY <1>t, <1>2 DEF Leave, Listens
  <2>2. Promise!Leave(s) BY <1>2, <2>1 DEF Promise!Leave, Leave, Notes, Promise!Notes
  <2>3. QED BY <2>2 DEF Promise!Next
<1>3. QED BY <1>1, <1>2

\* An insert posts the event to all it selected, or is a mishap at most.
LEMMA InsertStep ==
    ASSUME IInv, NEW e \in Events, Insert(e)
    PROVE  Promise!Next \/ UNCHANGED Seen
<1> DEFINE L == [x \in Subscribers |-> Listens(x)]
<1>t. targets[e] \in SUBSET Subscribers BY DEF IInv, TypeOK
<1>1. CASE (\A s \in targets[e] : subscriber[s] = "confirmed") /\ Queued(e, targets[e]) /\ UNCHANGED faults
  <2>1. CASE targets[e] = {}
    <3>1. note' = note BY <1>1, <2>1 DEF Queued, IInv, TypeOK
    <3>2. QED BY <1>1, <3>1 DEF Insert, Seen
  <2>2. CASE targets[e] # {}
    <3>1. \A s \in targets[e] : L[s] = "yes" BY <1>t, <1>1 DEF Listens
    <3>2. \A s \in Subscribers : note[<<e, s>>] = "none" BY DEF IInv, Queue, Insert
    <3>3. L' = L BY SameAudience DEF Insert
    <3>4. Promise!Post(e, targets[e])
      BY <1>1, <2>2, <3>1, <3>2, <3>3 DEF Promise!Post, Promise!Notes, Queued, Notes, Insert
    <3>5. QED BY <1>t, <3>4 DEF Promise!Next
  <2>3. QED BY <2>1, <2>2
<1>2. CASE UNCHANGED <<note, faults>> BY <1>2 DEF Insert, Seen
<1>3. CASE Fault /\ UNCHANGED note BY <1>3, FaultIsMishap DEF Insert
<1>4. QED BY <1>1, <1>2, <1>3 DEF Insert

\* A delivery is heard, with or without an answer, or was refused.
LEMMA DeliverStep ==
    ASSUME IInv, NEW n \in Notes, Deliver(n)
    PROVE  Promise!Next \/ UNCHANGED Seen
<1> DEFINE L == [x \in Subscribers |-> Listens(x)]
<1>1. note[n] \in {"pending", "gone"} BY DEF IInv, Hands, Deliver
<1>2. heard[n] <= faults BY DEF IInv, Paid, Unmarked, Deliver
<1>3. L' = L BY SameAudience DEF Deliver
<1>4. CASE heard' = [heard EXCEPT ![n] = @ + 1] /\ (faults' = faults \/ faults' = faults + 1)
  <2>1. Promise!Hear(n)
    BY <1>1, <1>2, <1>3, <1>4 DEF Promise!Hear, Promise!Mishap, Deliver, queue
  <2>2. QED BY <2>1 DEF Promise!Next, Promise!Notes, Notes
<1>5. CASE UNCHANGED <<heard, faults>> BY <1>5 DEF Deliver, Seen, queue
<1>6. QED BY <1>4, <1>5 DEF Deliver, Fault

\* What the worker writes settles the row in its hands, leaves it waiting, or
\* finds it gone.
LEMMA WriteStep ==
    ASSUME IInv, NEW n \in Notes, MarkSent(n) \/ BackOff(n)
    PROVE  Promise!Next \/ UNCHANGED Seen
<1> DEFINE L == [x \in Subscribers |-> Listens(x)]
<1>1. L' = L /\ UNCHANGED <<subscriber, heard>> BY SameAudience DEF MarkSent, BackOff
<1>2. CASE Fault /\ UNCHANGED note BY <1>1, <1>2, FaultIsMishap
<1>3. CASE UNCHANGED faults
  <2>1. note[n] \in {"pending", "gone"} /\ note \in [Notes -> {"none", "pending", "sent", "failed", "gone"}]
    BY Written DEF IInv, TypeOK
  <2>2. note' = note \/ (note[n] = "pending" /\ note' = [note EXCEPT ![n] = note'[n]])
    BY <1>3, <2>1, Written DEF MarkSent, BackOff, Write, Fault, IInv, TypeOK
  <2>3. CASE note' = note BY <1>1, <1>3, <2>3 DEF Seen
  <2>4. CASE note[n] = "pending" /\ note' = [note EXCEPT ![n] = note'[n]]
    <3>1. note'[n] \in {"pending", "sent", "failed"} BY <1>3, <2>1, <2>4 DEF MarkSent, BackOff, Write, Fault, IInv, TypeOK
    <3>2. note'[n] = "sent" => heard[n] > 0 BY Written DEF IInv, Heard, Unmarked, MarkSent, BackOff
    <3>3. CASE note'[n] = "pending"
      <4>1. note' = note BY <2>1, <2>4, <3>3
      <4>2. QED BY <1>1, <1>3, <4>1 DEF Seen
    <3>4. CASE note'[n] \in {"sent", "failed"}
      <4>1. Promise!Settle(n) BY <1>1, <1>3, <2>4, <3>2, <3>4 DEF Promise!Settle
      <4>2. QED BY <4>1 DEF Promise!Next, Promise!Notes, Notes
    <3>5. QED BY <3>1, <3>3, <3>4
  <2>5. QED BY <2>2, <2>3, <2>4
<1>4. QED BY <1>2, <1>3 DEF MarkSent, BackOff

\* Every step of the queue is a step of the promise or none.
LEMMA StepKeepsPromise == IInv /\ [Next]_vars => [Promise!Next]_(Promise!vars)
<1> SUFFICES ASSUME IInv, [Next]_vars PROVE [Promise!Next]_(Promise!vars)
  OBVIOUS
<1>u. CASE UNCHANGED vars BY <1>u, Unseen DEF vars, Seen
<1>1. ASSUME NEW s \in Subscribers, Subscribe(s) PROVE UNCHANGED Promise!vars
  <2>1. [x \in Subscribers |-> Listens(x)]' = [x \in Subscribers |-> Listens(x)]
    BY <1>1 DEF Subscribe, Listens, IInv, TypeOK
  <2>2. QED BY <1>1, <2>1 DEF Promise!vars, Subscribe
<1>2. ASSUME NEW s \in Subscribers, Confirm(s) \/ Leave(s) PROVE Promise!Next
  BY <1>2, AudienceStep
<1>3. ASSUME NEW e \in Events, Select(e) PROVE UNCHANGED Seen BY <1>3 DEF Select, Seen
<1>4. ASSUME NEW e \in Events, Insert(e) PROVE Promise!Next \/ UNCHANGED Seen BY <1>4, InsertStep
<1>5. CASE Tick BY <1>5, Unseen DEF Tick, Seen
<1>6. ASSUME NEW n \in Notes, Take(n) \/ ComesDue(n) PROVE UNCHANGED Seen BY <1>6 DEF Take, ComesDue, Seen
<1>7. ASSUME NEW n \in Notes, Deliver(n) PROVE Promise!Next \/ UNCHANGED Seen BY <1>7, DeliverStep
<1>8. ASSUME NEW n \in Notes, MarkSent(n) \/ BackOff(n) PROVE Promise!Next \/ UNCHANGED Seen
  BY <1>8, WriteStep
<1>9. CASE Crash BY <1>9, FaultIsMishap DEF Crash
<1>10. QED
  BY Unseen, <1>u, <1>1, <1>2, <1>3, <1>4, <1>5, <1>6, <1>7, <1>8, <1>9 DEF Next, Enqueue, Work

\* The queue of notify.ts and its worker keep the promise, whatever fails or ends
\* in between: nothing goes back, is sent unheard, or is heard again for no reason.
THEOREM Implements == Spec => PromiseKept
<1>1. Init => Promise!Init
  BY DEF Init, Promise!Init, Promise!Notes, Notes, Listens
<1>2. IInv /\ [Next]_vars => [Promise!Next]_(Promise!vars)
  BY StepKeepsPromise
<1>3. QED BY <1>1, <1>2, Invariant, PTL DEF Spec, PromiseKept, Promise!Spec

=============================================================================
