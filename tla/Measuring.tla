----------------------------- MODULE Measuring ------------------------------
(***************************************************************************)
(* Who measures a control (apps/api services/assignment.ts, jobs.ts,       *)
(* local-probes.ts, the forced check of routes/controls.ts, routes/        *)
(* ingest.ts; and on the other side the relay's cached assignment,         *)
(* clients/agent proxy.rs).                                                *)
(*                                                                         *)
(* Two readings of the same rows must agree.  The server measures a        *)
(* control unless a live agent covers it; an agent measures the controls   *)
(* it is elected, or pinned, to.  Between a reading and what is done about *)
(* it, agents die, come back, pair and are revoked.                        *)
(*                                                                         *)
(* A relay measures nothing: its zone's machines measure what is assigned  *)
(* to it.  Each of them also has a row of its own on the server, with no   *)
(* key behind it, that the relay declares.                                 *)
(*                                                                         *)
(* Every control has a probe and a probe returns; two readings of one      *)
(* request are one step.  "Has never been heard from" and "not for ten     *)
(* minutes" are told apart by nothing here.                                *)
(***************************************************************************)
EXTENDS Naturals, FiniteSets

CONSTANTS
    Machines,   \* agents that pair with the server
    Relay,      \* a relay that pairs with the server
    Zone,       \* the machines behind it
    Local,      \* the machines that are the instance's own
    Controls,
    None,       \* no control
    Scope,      \* the controls each agent's key names; none is the whole tenant
    Pins,       \* the choices of agents an admin pins
    Id,         \* the order of the rows' ids
    MaxChanges  \* bound on what befalls agents and what an admin does, for TLC

Agents == Machines \union {Relay} \union Zone
Keyed  == Machines \union {Relay}

ASSUME MeasuringAssumption ==
    /\ Relay \notin Machines \union Zone /\ Machines \intersect Zone = {}
    /\ Local \subseteq Machines /\ None \notin Controls
    /\ Scope \in [Agents -> SUBSET Controls] /\ \A z \in Zone \union Local : Scope[z] = {}
    /\ Id \in [Agents -> Nat] /\ \A a, b \in Agents : Id[a] = Id[b] => a = b
    /\ Pins \subseteq SUBSET Agents /\ MaxChanges \in Nat

VARIABLES
    status,    \* agents.status of each row, "absent" where there is none
    seen,      \* its last_seen_at is at most OWNER_STALE_MS old
    alive,     \* the agent runs and reaches what it talks to
    jobs,      \* the controls each agent was last told to measure
    control,   \* each control: "on", "off" or "gone"
    policy,    \* controls.probe_policy
    pinned,    \* control_agents
    measured,  \* the controls whose newest check is younger than their interval
    items,     \* what the local-probes job is at, or nothing
    forced,    \* what a forced check is at, or None
    arrived,   \* ghost: the agents heard from again since that job looked
    met,       \* ghost: the same, since that forced check did
    changes    \* what befell agents, and what an admin did, so far

rows    == <<status, seen>>
choices == <<control, policy, pinned>>
server  == <<items, forced>>
ghosts  == <<arrived, met>>
vars == <<status, seen, alive, jobs, control, policy, pinned, measured, items, forced, arrived, met,
          changes>>

TypeOK ==
    /\ status \in [Agents -> {"absent", "active", "revoked"}] /\ seen \in [Agents -> BOOLEAN]
    /\ alive \in [Agents -> BOOLEAN] /\ jobs \in [Agents -> SUBSET Controls]
    /\ control \in [Controls -> {"on", "off", "gone"}]
    /\ policy \in [Controls -> {"single", "all"}] /\ pinned \in [Controls -> SUBSET Agents]
    /\ measured \subseteq Controls /\ items \subseteq Controls
    /\ forced \in Controls \union {None}
    /\ arrived \subseteq Agents /\ met \subseteq Agents /\ changes \in 0 .. MaxChanges

Init ==
    /\ status = [a \in Agents |-> "absent"] /\ seen = [a \in Agents |-> FALSE]
    /\ alive \in {f \in [Agents -> BOOLEAN] : \A a \in Keyed : ~ f[a]} /\ jobs = [a \in Agents |-> {}]
    /\ control = [c \in Controls |-> "on"] /\ policy = [c \in Controls |-> "single"]
    /\ pinned = [c \in Controls |-> {}] /\ measured = {}
    /\ items = {} /\ forced = None /\ arrived = {} /\ met = {}
    /\ changes = 0

-----------------------------------------------------------------------------
(* The assignment. *)

coversControl(a, c) == Scope[a] = {} \/ c \in Scope[a]

live     == {a \in Agents : status[a] = "active"}
Fresh(a) == a \in live /\ seen[a]

\* Mutation of Before: by id alone.
BeforeById(a, b) == Id[a] < Id[b]

\* Freshness is a threshold, not a ranking.
Before(a, b) == IF seen[a] # seen[b] THEN seen[a] ELSE Id[a] < Id[b]

electOwner(c) ==
    LET eligible == {a \in live : coversControl(a, c)}
    IN  {a \in eligible : \A b \in eligible \ {a} : Before(a, b)}

\* A pinned agent holds the control whether or not it has been heard from.
runnersFor(c) ==
    IF pinned[c] \intersect live # {} THEN pinned[c] \intersect live
    ELSE IF policy[c] = "all" THEN {a \in live : coversControl(a, c)}
    ELSE electOwner(c)

jobsForAgent(a) == {c \in Controls : control[c] = "on" /\ a \in runnersFor(c)}

\* Mutation of Claims: an empty scope is nothing.
ClaimsByName(a, c) == Fresh(a) /\ c \in Scope[a]

\* Mutation of Claims: whoever has a row.
ClaimsEver(a, c) == a \in live /\ coversControl(a, c)

(* The other reading: agentCoverage.  An empty scope is the whole tenant. *)
Claims(a, c) == Fresh(a) /\ (Scope[a] = {} \/ c \in Scope[a])

Covered(c)       == \E a \in Agents : Claims(a, c)
CoveredRemote(c) == \E a \in Agents \ Local : Claims(a, c)

-----------------------------------------------------------------------------
(* The agents. *)

\* touchAgent, for those in S; the ghosts remember who was not there before.
Touch(S) ==
    /\ seen' = [a \in Agents |-> seen[a] \/ a \in S]
    /\ arrived' = IF items = {} THEN {} ELSE arrived \union {a \in S : ~ Fresh(a)}
    /\ met' = IF forced = None THEN {} ELSE met \union {a \in S : ~ Fresh(a)}

\* A machine that was revoked pairs again into its row.
Pair(a) ==
    /\ status[a] # "active"
    /\ status' = [status EXCEPT ![a] = "active"] /\ alive' = [alive EXCEPT ![a] = TRUE]
    /\ Touch({a}) /\ UNCHANGED <<choices, measured, server, changes>>
    /\ jobs' = [jobs EXCEPT ![a] = jobsForAgent(a)']

Reaches(a) == alive[a] /\ status[a] = "active"

\* It is touched first, and its jobs are computed from what that left.
Ask(a) ==
    /\ Reaches(a) /\ Touch({a})
    /\ UNCHANGED <<status, alive, choices, measured, server, changes>>
    /\ jobs' = [jobs EXCEPT ![a] = jobsForAgent(a)']

\* A heartbeat: it is alive, and is told nothing.
Beat(a) ==
    /\ Reaches(a) /\ ~ seen[a] /\ Touch({a})
    /\ UNCHANGED <<status, alive, jobs, choices, measured, server, changes>>

\* The relay declares its zone: rows with no key, heard from when it heard from
\* them.  A revoked row stays revoked.  The relay itself is touched.
Declare ==
    /\ Reaches(Relay)
    /\ LET known == {z \in Zone : alive[z]}
       IN  /\ status' = [a \in Agents |-> IF a \in known /\ status[a] = "absent" THEN "active"
                                          ELSE status[a]]
           /\ Touch(known \union {Relay})
    /\ UNCHANGED <<alive, jobs, choices, measured, server, changes>>

\* A machine of the zone asks, and gets what the relay was told.
AskRelay(z) ==
    /\ alive[z] /\ alive[Relay]
    /\ jobs' = [jobs EXCEPT ![z] = jobs[Relay]]
    /\ UNCHANGED <<rows, alive, choices, measured, server, ghosts, changes>>

\* A check pushed, under the agent's key or its relay's; one out of scope is refused.
\* A relay keeps what it is told for its zone and probes nothing.
Measure(a, c) ==
    LET key == IF a \in Zone THEN Relay ELSE a
    IN  /\ a # Relay /\ alive[a] /\ c \in jobs[a] /\ Reaches(key) /\ Touch({key})
        /\ measured' = IF control[c] # "gone" /\ coversControl(key, c) THEN measured \union {c}
                       ELSE measured
        /\ UNCHANGED <<status, alive, jobs, choices, server, changes>>

\* Ten minutes with nothing heard: of a zone's machine, by the relay or from it.
Age(a) ==
    /\ seen[a]
    /\ ~ (Reaches(IF a \in Zone THEN Relay ELSE a) /\ alive[a])
    /\ seen' = [seen EXCEPT ![a] = FALSE]
    /\ arrived' = arrived \ {a} /\ met' = met \ {a}
    /\ UNCHANGED <<status, alive, jobs, choices, measured, server, changes>>

-----------------------------------------------------------------------------
(* The server's own measurements. *)

\* The job looks: what is on, left to it and due.
due ==
    /\ items = {}
    /\ items' = {c \in Controls : control[c] = "on" /\ ~ Covered(c) /\ c \notin measured}
    /\ items' # {}
    /\ arrived' = {}
    /\ UNCHANGED <<rows, alive, jobs, choices, measured, forced, met, changes>>

\* Mutation of runLocalProbes: nothing is forgotten until it could be recorded.
runLocalProbesRetries ==
    /\ items # {} /\ \A c \in items : control[c] # "gone"
    /\ measured' = measured \union items
    /\ items' = {} /\ arrived' = {}
    /\ UNCHANGED <<rows, alive, jobs, choices, forced, met, changes>>

\* All it measured in one statement, which a control deleted meanwhile fails.
runLocalProbes ==
    /\ items # {}
    /\ measured' = IF \A c \in items : control[c] # "gone" THEN measured \union items ELSE measured
    /\ items' = {} /\ arrived' = {}
    /\ UNCHANGED <<rows, alive, jobs, choices, forced, met, changes>>

\* A forced check, refused where an agent elsewhere measures.
ForceCheck(c) ==
    /\ forced = None /\ changes < MaxChanges /\ changes' = changes + 1
    /\ control[c] = "on" /\ ~ CoveredRemote(c)
    /\ forced' = c /\ met' = {}
    /\ UNCHANGED <<rows, alive, jobs, choices, measured, items, arrived>>

Forced ==
    /\ forced # None
    /\ measured' = IF control[forced] # "gone" THEN measured \union {forced} ELSE measured
    /\ forced' = None /\ met' = {}
    /\ UNCHANGED <<rows, alive, jobs, choices, items, arrived, changes>>

\* Its interval passes.
Fade(c) ==
    /\ c \in measured /\ measured' = measured \ {c}
    /\ UNCHANGED <<rows, alive, jobs, choices, server, ghosts, changes>>

-----------------------------------------------------------------------------
(* What befalls agents, and what an admin does. *)

Change == changes < MaxChanges /\ changes' = changes + 1

Turn(a) ==
    /\ Change /\ (a \in Zone \/ status[a] # "absent")
    /\ alive' = [alive EXCEPT ![a] = ~ alive[a]]
    /\ UNCHANGED <<rows, jobs, choices, measured, server, ghosts>>

Revoke(a) ==
    /\ Change /\ status[a] = "active" /\ status' = [status EXCEPT ![a] = "revoked"]
    /\ UNCHANGED <<seen, alive, jobs, choices, measured, server, ghosts>>

\* Any row of the tenant can be pinned.
Assign(c, p, S) ==
    /\ Change /\ control[c] # "gone" /\ \A a \in S : status[a] # "absent"
    /\ policy' = [policy EXCEPT ![c] = p] /\ pinned' = [pinned EXCEPT ![c] = S]
    /\ UNCHANGED <<rows, alive, jobs, control, measured, server, ghosts>>

Switch(c, to) ==
    /\ Change /\ control[c] \notin {to, "gone"} /\ control' = [control EXCEPT ![c] = to]
    /\ pinned' = IF to = "gone" THEN [pinned EXCEPT ![c] = {}] ELSE pinned
    /\ measured' = IF to = "gone" THEN measured \ {c} ELSE measured
    /\ UNCHANGED <<rows, alive, jobs, policy, server, ghosts>>

Next ==
    \/ \E a \in Keyed : Pair(a) \/ Ask(a) \/ Beat(a)
    \/ \E z \in Zone : AskRelay(z)
    \/ \E a \in Agents : Age(a) \/ Turn(a) \/ Revoke(a)
    \/ \E a \in Agents, c \in Controls : Measure(a, c)
    \/ \E c \in Controls : ForceCheck(c) \/ Fade(c)
    \/ \E c \in Controls, to \in {"on", "off", "gone"} : Switch(c, to)
    \/ \E c \in Controls, p \in {"single", "all"}, S \in Pins : Assign(c, p, S)
    \/ Declare \/ due \/ runLocalProbes \/ Forced

Spec == Init /\ [][Next]_vars

\* Agents that run ask and measure; a silence lasts until it is noticed; the
\* job comes round.
Fairness ==
    /\ \A a \in Keyed : WF_vars(Ask(a))
    /\ \A z \in Zone : WF_vars(AskRelay(z))
    /\ \A a \in Agents : WF_vars(Age(a))
    /\ \A a \in Agents \ {Relay}, c \in Controls : WF_vars(Measure(a, c))
    /\ WF_vars(Declare) /\ WF_vars(due) /\ WF_vars(runLocalProbes)

FairSpec == Spec /\ Fairness

-----------------------------------------------------------------------------
Held(c) == pinned[c] \intersect live # {}

\* What the server leaves to the agents, and nobody pinned, is assigned to an
\* agent that is being heard from (agentCoverage and electOwner agree).
HandedOver ==
    \A c \in Controls : Covered(c) /\ ~ Held(c) => \E a \in runnersFor(c) : Fresh(a)

\* The server measures nothing that an agent covers, unless that agent was first
\* heard from after it looked; its own agent does not stop a forced check.
OneVantagePoint ==
    \A a \in Agents :
        /\ \A c \in items : Fresh(a) /\ coversControl(a, c) => a \in arrived
        /\ forced # None /\ a \notin Local /\ Fresh(a) /\ coversControl(a, forced)
              => a \in met

\* Those that are heard from and to whom it is assigned do not measure it: the row of
\* a zone's machine, for which nobody asks, or a relay with no machine behind it.
Unattended(a) == a \in Zone \/ (a = Relay /\ \A z \in Zone : ~ alive[z])
Stranded(c)   ==
    LET heard == {a \in runnersFor(c) : Fresh(a)}
    IN  heard # {} /\ \A a \in heard : Unattended(a)

\* A control that is on is measured again and again, whoever dies, comes back or
\* is revoked, unless an admin pinned it or it is stranded.
NeverDark ==
    \A c \in Controls : []<> (c \in measured \/ control[c] # "on" \/ Held(c) \/ Stranded(c))

\* The same with no exception for a stranded one (local-probes.ts:26-28, "an agent
\* that stops reporting hands its controls back here within ten minutes rather
\* than leaving them dark").
NoneLeftDark ==
    \A c \in Controls : []<> (c \in measured \/ control[c] # "on" \/ Held(c))
=============================================================================
