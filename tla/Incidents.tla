----------------------------- MODULE Incidents ------------------------------
(***************************************************************************)
(* Incidents, and the public page that shows them (apps/api                *)
(* routes/incidents.ts, routes/status.ts).                                 *)
(*                                                                         *)
(* An incident is opened, updated and resolved by requests of several      *)
(* statements each, in no transaction; any number may be under way for one *)
(* incident.  The page is put together from what is measured, from planned *)
(* work, and from what open incidents declare, in several queries too.     *)
(*                                                                         *)
(* A request is made once.  An incident bears the name of the one that     *)
(* opened it, and a moment in time that of the one that stamped it.  What  *)
(* the queue makes of an announcement is Notifier's; which window is in    *)
(* progress is Maintenance's; titles, severities and bodies are left out,  *)
(* and so is asking that nobody be told, which changes nothing else.       *)
(***************************************************************************)
EXTENDS Status

CONSTANTS
    Controls,    \* the components of the page
    Requests,    \* requests, each made at most once
    None,        \* no request, no impact
    Revisions,   \* the impacts a request may declare: Controls -> impact or None
    Said,        \* the statuses an update may give
    MaxFaults    \* bound on crashes and failed statements, for TLC

statusSchema == {"investigating", "identified", "monitoring", "resolved"}

ASSUME IncidentsAssumption ==
    /\ None \notin Requests \union impactSchema
    /\ Revisions \subseteq [Controls -> impactSchema \union {None}]
    /\ Said \subseteq statusSchema
    /\ MaxFaults \in Nat

Steps == {"new", "write", "row", "erase", "impact", "clear", "publish", "announce",
          "done", "refused", "ended"}

VARIABLES
    status,      \* incidents: status, or "none"
    resolvedAt,  \* incidents: resolvedAt
    isPublic,    \* incidents: isPublic
    postmortem,  \* incidents: "none", "draft" or "published"
    impacts,     \* incident_impacts: of each incident, on each component
    timeline,    \* incident_updates: the requests that wrote one
    told,        \* the requests that queued an event for the subscribers
    step,        \* where each request is
    of,          \* the incident it is about
    says,        \* the status it gives, or what it makes of the postmortem
    revises,     \* the impacts it declares, if any
    ended,       \* the resolvedAt it read
    seen,        \* the incidents the page being put together has read
    crossed,     \* ghost: requests that another one of their incident overlapped
    standing,    \* ghost: impacts of open incidents since that page was begun
    faults       \* requests cut short so far

incidents == <<status, resolvedAt, isPublic, postmortem>>
request   == <<of, says, revises, ended>>
vars == <<status, resolvedAt, isPublic, postmortem, impacts, timeline, told, step, of, says, revises,
          ended, seen, crossed, standing, faults>>

NoImpact == [c \in Controls |-> None]

TypeOK ==
    /\ status \in [Requests -> statusSchema \union {"none"}]
    /\ resolvedAt \in [Requests -> Requests \union {None}]
    /\ isPublic \in [Requests -> BOOLEAN]
    /\ postmortem \in [Requests -> {"none", "draft", "published"}]
    /\ impacts \in [Requests -> [Controls -> impactSchema \union {None}]]
    /\ timeline \in SUBSET Requests /\ told \in SUBSET Requests
    /\ step \in [Requests -> Steps]
    /\ of \in [Requests -> Requests \union {None}]
    /\ says \in [Requests -> statusSchema \union {"draft", "published"}]
    /\ revises \in [Requests -> SUBSET Revisions]
    /\ ended \in [Requests -> Requests \union {None}]
    /\ seen \in SUBSET Requests
    /\ crossed \in SUBSET Requests
    /\ standing \in SUBSET (Requests \X Controls)
    /\ faults \in 0 .. MaxFaults

Init ==
    /\ status = [i \in Requests |-> "none"] /\ resolvedAt = [i \in Requests |-> None]
    /\ isPublic = [i \in Requests |-> FALSE] /\ postmortem = [i \in Requests |-> "none"]
    /\ impacts = [i \in Requests |-> NoImpact]
    /\ timeline = {} /\ told = {}
    /\ step = [q \in Requests |-> "new"] /\ of = [q \in Requests |-> None]
    /\ says = [q \in Requests |-> "investigating"]
    /\ revises = [q \in Requests |-> {}] /\ ended = [q \in Requests |-> None]
    /\ seen = {}
    /\ crossed = {} /\ standing = {}
    /\ faults = 0

Goes(q, from, to) == step[q] = from /\ step' = [step EXCEPT ![q] = to]

OnTheirWay == {q \in Requests : step[q] \notin {"new", "done", "refused", "ended"}}

resolving(q) == says[q] = "resolved"

\* Where a request goes once the impacts are as it wants them.
Then(q) == IF of[q] = q THEN "write" ELSE IF resolving(q) THEN "clear" ELSE "announce"

-----------------------------------------------------------------------------
(* What a page sees. *)

Active == {i \in Requests : status[i] # "none" /\ isPublic[i] /\ resolvedAt[i] = None}

Standing == {x \in Requests \X Controls : x[1] \in Active /\ impacts[x[1]][x[2]] # None}

\* What was there at every moment since the page was begun.
Watch ==
    /\ seen' = seen /\ standing' = standing \intersect Standing'

-----------------------------------------------------------------------------
(* Opening: the row, its impacts, the first entry of its timeline. *)

Open(q, public, declared) ==
    /\ Goes(q, "new", "impact")
    /\ of' = [of EXCEPT ![q] = q] /\ revises' = [revises EXCEPT ![q] = {declared}]
    /\ status' = [status EXCEPT ![q] = "investigating"] /\ isPublic' = [isPublic EXCEPT ![q] = public]
    /\ UNCHANGED <<resolvedAt, postmortem, impacts, timeline, told, says, ended, crossed, faults>>
    /\ Watch

\* The primary key is the incident and the component: a second row fails.
Impact(q) ==
    LET i == of[q] IN
    /\ step[q] = "impact"
    /\ \E declared \in revises[q] :
          IF \A c \in Controls : declared[c] = None \/ impacts[i][c] = None
          THEN /\ Goes(q, "impact", Then(q))
               /\ impacts' = [impacts EXCEPT ![i] = [c \in Controls |-> IF declared[c] = None THEN @[c] ELSE declared[c]]]
          ELSE Goes(q, "impact", "refused") /\ UNCHANGED impacts
    /\ UNCHANGED <<incidents, timeline, told, request, crossed, faults>>
    /\ Watch

\* An entry of the timeline, before anything an update changes.
Write(q) ==
    /\ Goes(q, "write", IF of[q] = q THEN "announce" ELSE "row")
    /\ timeline' = timeline \union {q}
    /\ UNCHANGED <<incidents, impacts, told, request, crossed, faults>>
    /\ Watch

-----------------------------------------------------------------------------
(* Updating. *)

\* Others of this incident under way: an update goes by the row it loads now.
Rivals(i) == {r \in OnTheirWay : of[r] = i}

Load(q, i) ==
    /\ status[i] # "none"
    /\ of' = [of EXCEPT ![q] = i] /\ ended' = [ended EXCEPT ![q] = resolvedAt[i]]
    /\ crossed' = IF Rivals(i) = {} THEN crossed ELSE crossed \union Rivals(i) \union {q}
    /\ UNCHANGED <<incidents, impacts, timeline, told, faults>>

Update(q, i, s, declared) ==
    /\ Goes(q, "new", "write") /\ Load(q, i)
    /\ says' = [says EXCEPT ![q] = s] /\ revises' = [revises EXCEPT ![q] = declared]
    /\ Watch

\* Mutation of Row: an incident that is opened again keeps its end.
RowKeepsEnd(q) ==
    LET i     == of[q]
        stamp == IF resolving(q) /\ ended[q] = None THEN q ELSE ended[q]
    IN
    /\ Goes(q, "row", IF revises[q] = {} THEN Then(q) ELSE "erase")
    /\ status' = [status EXCEPT ![i] = says[q]] /\ resolvedAt' = [resolvedAt EXCEPT ![i] = stamp]
    /\ UNCHANGED <<isPublic, postmortem, impacts, timeline, told, request, crossed, faults>>
    /\ Watch

\* The row takes the status on, and the end it had when it was read.
Row(q) ==
    LET i     == of[q]
        stamp == IF ~resolving(q) THEN None ELSE IF ended[q] = None THEN q ELSE ended[q]
    IN
    /\ Goes(q, "row", IF revises[q] = {} THEN Then(q) ELSE "erase")
    /\ status' = [status EXCEPT ![i] = says[q]] /\ resolvedAt' = [resolvedAt EXCEPT ![i] = stamp]
    /\ UNCHANGED <<isPublic, postmortem, impacts, timeline, told, request, crossed, faults>>
    /\ Watch

\* A component of somebody else's: refused now that the row is written.
Foreign(q) ==
    /\ Goes(q, "erase", "refused")
    /\ UNCHANGED <<incidents, impacts, timeline, told, request, crossed, faults>>
    /\ Watch

Emptied(q, from, to) ==
    /\ Goes(q, from, to) /\ impacts' = [impacts EXCEPT ![of[q]] = NoImpact]
    /\ UNCHANGED <<incidents, timeline, told, request, crossed, faults>>
    /\ Watch

Erase(q) == Emptied(q, "erase", "impact")

\* Mutation of Clear: what was declared stays.
ClearNothing(q) ==
    /\ Goes(q, "clear", "announce")
    /\ UNCHANGED <<incidents, impacts, timeline, told, request, crossed, faults>>
    /\ Watch

\* Resolution clears what was declared.
Clear(q) == Emptied(q, "clear", "announce")

\* Whether it was public is what the request read; nothing changes it.
Announce(q) ==
    /\ Goes(q, "announce", "done")
    /\ told' = IF isPublic[of[q]] \/ says[q] = "published" THEN told \union {q} ELSE told
    /\ UNCHANGED <<incidents, impacts, timeline, request, crossed, faults>>
    /\ Watch

\* A postmortem needs a row that was resolved when it was read.
Postmortem(q, i, s) ==
    /\ Goes(q, "new", "publish") /\ resolvedAt[i] # None /\ Load(q, i)
    /\ says' = [says EXCEPT ![q] = s] /\ UNCHANGED revises
    /\ Watch

Publish(q) ==
    /\ Goes(q, "publish", IF says[q] = "published" THEN "announce" ELSE "done")
    /\ postmortem' = [postmortem EXCEPT ![of[q]] = says[q]]
    /\ UNCHANGED <<status, resolvedAt, isPublic, impacts, timeline, told, request, crossed, faults>>
    /\ Watch

-----------------------------------------------------------------------------
(* The page. *)

\* Incidents first; everything else a page needs is read in the state it ends
\* in.  A page that is begun may be given up for the next.
BeginPage ==
    /\ seen' = Active /\ standing' = Standing
    /\ UNCHANGED <<incidents, impacts, timeline, told, step, request, crossed, faults>>

\* What the incidents the page has read declare of a component, worst first.
declared(c) == {impactToStatus(impacts[i][c]) : i \in {i \in seen : impacts[i][c] # None}}

\* Mutation of component: planned work silences whatever is said of it.
componentPlanned(c, measured, maintenance) ==
    IF c \in maintenance THEN "maintenance"
    ELSE IF declared(c) # {} THEN WorstOf(declared(c))
    ELSE measured[c]

\* A component: declared, else planned work that hides no outage, else measured.
component(c, measured, maintenance) ==
    IF declared(c) # {} THEN WorstOf(declared(c))
    ELSE IF c \in maintenance /\ measured[c] = "operational" THEN "maintenance"
    ELSE measured[c]

components(measured, maintenance) == [c \in Controls |-> component(c, measured, maintenance)]

-----------------------------------------------------------------------------
CutShort(S) ==
    /\ S # {} /\ faults < MaxFaults /\ faults' = faults + 1
    /\ step' = [q \in Requests |-> IF q \in S THEN "ended" ELSE step[q]]
    /\ UNCHANGED <<incidents, impacts, timeline, told, request, crossed>>
    /\ Watch

Fails(q) == q \in OnTheirWay /\ CutShort({q})
Crash    == CutShort(OnTheirWay)

Next ==
    \/ \E q \in Requests :
          \/ \E public \in BOOLEAN, r \in Revisions : Open(q, public, r)
          \/ \E i \in Requests :
                \/ \E s \in Said, r \in {{}} \union {{x} : x \in Revisions} : Update(q, i, s, r)
                \/ \E s \in {"draft", "published"} : Postmortem(q, i, s)
          \/ Impact(q) \/ Write(q) \/ Row(q) \/ Foreign(q) \/ Erase(q) \/ Clear(q)
          \/ Publish(q) \/ Announce(q) \/ Fails(q)
    \/ BeginPage
    \/ Crash

Spec == Init /\ [][Next]_vars

-----------------------------------------------------------------------------
(* Safety. *)

\* What a check may have found, as far as a page tells it apart.
Measured == [Controls -> {"operational", "down", "unknown"}]

Green(s) == severityRank(s) <= severityRank("unknown")

\* What an open incident declares all the while a page is put together is on
\* it, at least as bad, whatever is measured and planned; neither a group,
\* however it is rolled up, nor the headline is green over it; and planned work
\* hides no outage that is measured.
DeclaredIsShown ==
    /\ standing # {} => \A measured \in Measured, maintenance \in SUBSET Controls :
          LET shown == components(measured, maintenance) IN
          /\ \A x \in standing : severityRank(shown[x[2]]) >= severityRank(impactToStatus(impacts[x[1]][x[2]]))
          /\ ~Green(overallStatus(shown))
          /\ \A strategy \in statusRollupSchema : ~Green(rollupStatus(shown, strategy))
    /\ \A c \in Controls, measured \in Measured :
          measured[c] = "down" /\ declared(c) = {} => component(c, measured, Controls) = "down"

\* A resolved incident declares nothing any more, unless requests crossed or the
\* one that resolved it is not through or was cut short.
ResolvedIsCleared ==
    \A i \in Requests : status[i] = "resolved" /\ impacts[i] # NoImpact =>
        \E q \in Requests :
           /\ of[q] = i
           /\ \/ q \in crossed
              \/ resolving(q) /\ step[q] \in {"erase", "impact", "clear", "refused", "ended"}

\* When subscribers are told of an update it is on the timeline, and the row and
\* its impacts are as it says, unless another request of this incident crossed
\* it; and of a private incident they are told nothing until its postmortem.
Told(q) ==
    LET i == of[q] IN
    says[q] # "published" =>
       /\ q \in timeline /\ isPublic[i]
       /\ q \notin crossed =>
             /\ status[i] = says[q]
             /\ resolving(q) <=> resolvedAt[i] # None
             /\ IF resolving(q) THEN impacts[i] = NoImpact
                ELSE \A r \in revises[q] : impacts[i] = r

ToldWhenItStands == [][\A q \in told' \ told : Told(q)]_vars
=============================================================================
