---------------------------- MODULE Maintenance -----------------------------
(***************************************************************************)
(* A maintenance window: the row operators write over the API              *)
(* (apps/api routes/maintenances.ts) and two background jobs write on      *)
(* their own clock (services/scheduler.ts, run by plugins/jobs.ts).        *)
(*                                                                         *)
(* One process; requests and jobs interleave at every await.  A request    *)
(* reads the row, and writes what follows from what it read; a job does    *)
(* the same between its statements.  Windows do not touch each other, so   *)
(* one is enough: what a job does for the others is the time between two   *)
(* of its steps here.  Announcing is queueing an event (Notifier); what a  *)
(* request announces comes after its last write and is left out.           *)
(***************************************************************************)
EXTENDS Integers, Sequences, FiniteSetsExt

CONSTANTS
    Operators,    \* requests that may be in flight at once
    Windows,      \* <<start, end>> an operator may choose
    Marks,        \* times before the start a reminder may be asked for
    MarkSets,     \* remindersBeforeMin an operator may choose, for TLC
    MaxTime,      \* bound on the clock, for TLC
    MaxRequests,  \* bound on requests, for TLC
    MaxFaults     \* bound on crashes and failed statements, for TLC

ASSUME MaintenanceAssumption ==
    /\ MaxTime \in Nat \ {0} /\ MaxRequests \in Nat /\ MaxFaults \in Nat
    /\ Marks \subseteq Nat \ {0} /\ MarkSets \subseteq SUBSET Marks
    /\ \A w \in Windows : w[1] \in Nat \ {0} /\ w[2] \in Nat /\ w[1] < w[2]

Statuses == {"scheduled", "in_progress", "completed", "cancelled"}
Times    == 1 .. MaxTime

\* No time stamped yet; no row, and a deleted one.
Never  == 0
NoRow == [status |-> "none", window |-> <<0, 0>>, auto |-> FALSE, marks |-> {},
          sentAt |-> {}, actualStart |-> Never, actualEnd |-> Never]
Gone  == [NoRow EXCEPT !.status = "gone"]

VARIABLES
    now,        \* the clock
    row,        \* the row of maintenances
    request,    \* "none", "edit", "update" or "remove", per operator
    current,    \* the row each request read
    requests,   \* how many there were
    advance,    \* where the transitions job is: "idle", "started", "close" or "completed"
    at,         \* the time it goes by
    remind,     \* where the reminders job is: "idle", "say" or "record"
    upcoming,   \* remindersSentAt as it read it
    dueNow,     \* the marks it found due
    stale,      \* ghost: that row was edited since
    covered,    \* ghost: marks some reminder announced
    reminded,   \* ghost: the marks announced since the last edit
    unsaid,     \* ghost: moves of the job that were never announced
    faults      \* crashes and failed statements so far

operators == <<request, current, requests>>
advancing == <<advance, at>>
reminding == <<remind, upcoming, dueNow>>
history   == <<stale, covered, reminded, unsaid>>
windowVars ==
    <<now, row, request, current, requests, advance, at, remind, upcoming, dueNow, stale,
      covered, reminded, unsaid, faults>>

Rows == [status : Statuses, window : Windows, auto : BOOLEAN, marks : SUBSET Marks,
         sentAt : SUBSET Marks, actualStart : Times \union {Never}, actualEnd : Times \union {Never}]

WindowTypeOK ==
    /\ now \in Times
    /\ row \in Rows \union {NoRow, Gone}
    /\ request \in [Operators -> {"none", "edit", "update", "remove"}]
    /\ current \in [Operators -> Rows \union {NoRow}]
    /\ requests \in 0 .. MaxRequests
    /\ advance \in {"idle", "started", "close", "completed"} /\ at \in Times
    /\ remind \in {"idle", "say", "record"}
    /\ upcoming \subseteq Marks /\ dueNow \subseteq Marks /\ stale \in BOOLEAN /\ covered \subseteq Marks
    /\ reminded \in Seq(Marks) /\ unsaid \in Nat
    /\ faults \in 0 .. MaxFaults

WindowInit ==
    /\ now = 1 /\ row = NoRow
    /\ request = [o \in Operators |-> "none"] /\ current = [o \in Operators |-> NoRow]
    /\ requests = 0
    /\ advance = "idle" /\ at = 1
    /\ remind = "idle" /\ upcoming = {} /\ dueNow = {}
    /\ stale = FALSE /\ covered = {} /\ reminded = <<>> /\ unsaid = 0
    /\ faults = 0

Exists == row.status \in Statuses

Fault == faults < MaxFaults /\ faults' = faults + 1

\* An UPDATE by id changes nothing once the row is gone.
Put(r) == row' = IF Exists THEN r ELSE row

-----------------------------------------------------------------------------
(* Operators. *)

Create(w, auto, marks) ==
    /\ row = NoRow /\ requests < MaxRequests /\ requests' = requests + 1
    /\ row' = [status |-> "scheduled", window |-> w, auto |-> auto, marks |-> marks,
               sentAt |-> {}, actualStart |-> Never, actualEnd |-> Never]
    /\ UNCHANGED <<now, request, current, advancing, reminding, history, faults>>

\* loadMaintenance.
Load(o, kind) ==
    /\ request[o] = "none" /\ Exists
    /\ requests < MaxRequests /\ requests' = requests + 1
    /\ request' = [request EXCEPT ![o] = kind]
    /\ current' = [current EXCEPT ![o] = row]
    /\ UNCHANGED <<now, row, advancing, reminding, history, faults>>

Answered(o) ==
    /\ request' = [request EXCEPT ![o] = "none"]
    /\ current' = [current EXCEPT ![o] = NoRow]
    /\ UNCHANGED <<now, requests, advancing, reminding, faults>>

\* What frozenFields lets an operator change.
Editable(c) ==
    CASE c.status = "scheduled"   -> [window : Windows, marks : MarkSets]
      [] c.status = "in_progress" -> [window : {w \in Windows : w[1] = c.window[1]} \union {c.window}, marks : {c.marks}]
      [] OTHER                    -> [window : {c.window}, marks : {c.marks}]

\* The schedule, the marks and what was sent of them are written as they were
\* read unless they are given; marks the window has outrun are un-sent.
Edit(o) ==
    /\ request[o] = "edit"
    /\ LET c == current[o] IN
       \E chosen \in Editable(c), auto \in (IF c.status \in {"scheduled", "in_progress"} THEN BOOLEAN ELSE {row.auto}) :
          Put([row EXCEPT !.window = chosen.window, !.marks = chosen.marks, !.auto = auto,
                          !.sentAt = {m \in c.sentAt \intersect chosen.marks : chosen.window[1] - now <= m}])
    /\ reminded' = <<>> /\ stale' = (remind # "idle")
    /\ Answered(o)
    /\ UNCHANGED <<covered, unsaid>>

\* An update moves the window to any status.
Update(o, to) ==
    /\ request[o] = "update"
    /\ LET c == current[o]
           stamped(t) == IF t = Never THEN now ELSE t
       IN  Put([row EXCEPT
                  !.status = to,
                  !.actualStart = IF to = "in_progress" THEN stamped(c.actualStart) ELSE @,
                  !.actualEnd = IF to \in {"completed", "cancelled"} THEN stamped(c.actualEnd) ELSE @])
    /\ Answered(o)
    /\ UNCHANGED history

\* A draft is deleted, anything else is cancelled.
Remove(o) ==
    /\ request[o] = "remove"
    /\ LET c == current[o]
           announced == c.status # "scheduled" \/ c.sentAt # {} \/ c.actualStart # Never
       IN  IF announced
           THEN Put([row EXCEPT !.status = "cancelled",
                                !.actualEnd = IF c.actualEnd = Never THEN now ELSE c.actualEnd])
           ELSE row' = Gone
    /\ Answered(o)
    /\ UNCHANGED history

-----------------------------------------------------------------------------
(* advanceMaintenances: a conditional UPDATE and its announcements, twice. *)

\* Mutation of Open: announced together with the end.
OpenSaidLater ==
    /\ advance = "idle"
    /\ at' = now /\ advance' = "close"
    /\ IF row.status = "scheduled" /\ row.auto /\ row.window[1] <= now
       THEN /\ row' = [row EXCEPT !.status = "in_progress", !.actualStart = now]
            /\ unsaid' = unsaid + 1
       ELSE UNCHANGED <<row, unsaid>>
    /\ UNCHANGED <<now, operators, reminding, stale, covered, reminded, faults>>

Open ==
    /\ advance = "idle"
    /\ at' = now
    /\ IF row.status = "scheduled" /\ row.auto /\ row.window[1] <= now
       THEN /\ row' = [row EXCEPT !.status = "in_progress", !.actualStart = now]
            /\ advance' = "started" /\ unsaid' = unsaid + 1
       ELSE advance' = "close" /\ UNCHANGED <<row, unsaid>>
    /\ UNCHANGED <<now, operators, reminding, stale, covered, reminded, faults>>

\* Mutation of Close: whatever has ended is completed.
CloseWhateverEnded ==
    /\ advance = "close"
    /\ IF Exists /\ row.status # "completed" /\ row.auto /\ row.window[2] <= at
       THEN /\ row' = [row EXCEPT !.status = "completed", !.actualEnd = at]
            /\ advance' = "completed" /\ unsaid' = unsaid + 1
       ELSE advance' = "idle" /\ UNCHANGED <<row, unsaid>>
    /\ UNCHANGED <<now, operators, at, reminding, stale, covered, reminded, faults>>

Close ==
    /\ advance = "close"
    /\ IF row.status = "in_progress" /\ row.auto /\ row.window[2] <= at
       THEN /\ row' = [row EXCEPT !.status = "completed", !.actualEnd = at]
            /\ advance' = "completed" /\ unsaid' = unsaid + 1
       ELSE advance' = "idle" /\ UNCHANGED <<row, unsaid>>
    /\ UNCHANGED <<now, operators, at, reminding, stale, covered, reminded, faults>>

Say ==
    /\ advance \in {"started", "completed"}
    /\ advance' = IF advance = "started" THEN "close" ELSE "idle"
    /\ unsaid' = unsaid - 1
    /\ UNCHANGED <<now, row, operators, at, reminding, stale, covered, reminded, faults>>

\* Mutation of AdvanceFails: the guard stays taken.
AdvanceStuck ==
    /\ advance # "idle" /\ Fault
    /\ advance' = "failed"
    /\ UNCHANGED <<now, row, operators, at, reminding, history>>

\* A statement fails: the run is over, the next tick starts anew.
AdvanceFails ==
    /\ advance # "idle" /\ Fault
    /\ advance' = "idle"
    /\ UNCHANGED <<now, row, operators, at, reminding, history>>

-----------------------------------------------------------------------------
(* sendMaintenanceReminders: select, announce the closest mark, record. *)

DueMarks(r) == {m \in r.marks \ r.sentAt : r.window[1] - now <= m}

\* Mutation of Select: recorded before it is announced.
SelectRecords ==
    /\ remind = "idle"
    /\ row.status = "scheduled" /\ now <= row.window[1] /\ DueMarks(row) # {}
    /\ remind' = "say" /\ upcoming' = row.sentAt /\ dueNow' = DueMarks(row)
    /\ row' = [row EXCEPT !.sentAt = @ \union dueNow']
    /\ stale' = FALSE
    /\ UNCHANGED <<now, operators, advancing, covered, reminded, unsaid, faults>>

Select ==
    /\ remind = "idle"
    /\ row.status = "scheduled" /\ now <= row.window[1] /\ DueMarks(row) # {}
    /\ remind' = "say" /\ upcoming' = row.sentAt /\ dueNow' = DueMarks(row)
    /\ stale' = FALSE
    /\ UNCHANGED <<now, row, operators, advancing, covered, reminded, unsaid, faults>>

Remind ==
    /\ remind = "say"
    /\ remind' = "record"
    /\ covered' = covered \union dueNow
    /\ reminded' = IF stale THEN reminded ELSE Append(reminded, Min(dueNow))
    /\ UNCHANGED <<now, row, operators, advancing, upcoming, dueNow, stale, unsaid, faults>>

Reminded == remind' = "idle" /\ upcoming' = {} /\ dueNow' = {} /\ stale' = FALSE

Record ==
    /\ remind = "record"
    /\ Put([row EXCEPT !.sentAt = upcoming \union dueNow])
    /\ Reminded
    /\ UNCHANGED <<now, operators, advancing, covered, reminded, unsaid, faults>>

RemindFails ==
    /\ remind # "idle" /\ Fault
    /\ Reminded
    /\ UNCHANGED <<now, row, operators, advancing, covered, reminded, unsaid>>

-----------------------------------------------------------------------------
Tick ==
    /\ now < MaxTime /\ now' = now + 1
    /\ UNCHANGED <<row, operators, advancing, reminding, history, faults>>

\* The process ends: requests and jobs in flight end with it.
Crash ==
    /\ Fault
    /\ request' = [o \in Operators |-> "none"] /\ current' = [o \in Operators |-> NoRow]
    /\ advance' = "idle"
    /\ Reminded
    /\ UNCHANGED <<now, row, requests, at, covered, reminded, unsaid>>

Operate ==
    \/ \E w \in Windows, auto \in BOOLEAN, marks \in MarkSets : Create(w, auto, marks)
    \/ \E o \in Operators :
          \/ \E kind \in {"edit", "update", "remove"} : Load(o, kind)
          \/ Edit(o) \/ Remove(o) \/ \E to \in Statuses : Update(o, to)
Advance == Open \/ Say \/ Close
Remember == Select \/ Remind \/ Record

WindowNext == Operate \/ Advance \/ Remember \/ AdvanceFails \/ RemindFails \/ Tick \/ Crash

WindowSpec == WindowInit /\ [][WindowNext]_windowVars

\* The job's timer fires again and again, and a run goes on.
WindowFairSpec == WindowSpec /\ WF_windowVars(Advance)

-----------------------------------------------------------------------------
(* Safety. *)

\* What an operator closed stays closed: no job, whatever it read before, opens
\* or closes a window again that is completed or cancelled; only a request does.
ClosedStaysClosed ==
    [][row.status \in {"completed", "cancelled"} /\ row'.status # row.status
          => \E o \in Operators : request[o] # "none" /\ request'[o] = "none"]_windowVars

\* Reminders are repeated rather than swallowed, and come closer: a mark is
\* recorded as sent only after a reminder that covers it was queued, whatever
\* crashes; between two edits there is never a farther reminder after a nearer
\* one, however late the job runs, and the same one twice only when something
\* failed.
RemindersAreKept ==
    /\ row.sentAt \subseteq covered
    /\ \A i, j \in DOMAIN reminded : i < j => reminded[i] >= reminded[j]
    /\ Len(reminded) - Cardinality({reminded[i] : i \in DOMAIN reminded}) <= faults

\* Every window the job opened or closed is announced as such, except for one
\* move per failure.
MovesAreSaid == unsaid <= faults + (IF advance \in {"started", "completed"} THEN 1 ELSE 0)

\* The actual start is stamped once and never rewritten
\* (maintenances.integration.test.ts; routes/maintenances.ts, updates).  The code
\* does not keep this: an update stamps it from the row it read before.
StampedOnce ==
    [][row.actualStart # Never /\ row' # Gone => row'.actualStart = row.actualStart]_windowVars

-----------------------------------------------------------------------------
(* Liveness, under WindowFairSpec. *)

\* A window opens without anybody pressing a button, whatever failed before.
OpensByItself ==
    LET Overdue == row.status = "scheduled" /\ row.auto /\ row.window[1] <= now
    IN  Overdue ~> ~Overdue

=============================================================================
