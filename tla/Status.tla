------------------------------- MODULE Status -------------------------------
(***************************************************************************)
(* The vocabulary of statuses and the rules that combine them              *)
(* (packages/shared status.ts): what a component, a group and a whole page *)
(* read, from what is measured and what is declared.                       *)
(***************************************************************************)
EXTENDS Naturals, Sequences, FiniteSets

\* Higher is worse.
SEVERITY_ORDER ==
    [operational |-> 0, maintenance |-> 1, unknown |-> 2, degraded |-> 3, partial |-> 4, down |-> 5]

Statuses == DOMAIN SEVERITY_ORDER

severityRank(s) == SEVERITY_ORDER[s]

\* Of a set of statuses, or of those of some components: f maps each to its own.
WorstOf(S) == IF S = {} THEN "unknown"
              ELSE CHOOSE s \in S : \A t \in S : severityRank(t) <= severityRank(s)

StatusesOf(f, C) == {f[c] : c \in C}

worstStatus(f) == WorstOf(StatusesOf(f, DOMAIN f))

\* The headline of a page: a component without data does not count.
overallStatus(f) == WorstOf(StatusesOf(f, DOMAIN f) \ {"unknown"})

impactSchema == {"degraded", "partial", "major"}

impactToStatus(impact) == IF impact = "major" THEN "down" ELSE impact

statusRollupSchema == {"worst", "majority", "manual"}

\* A group, from its children.
rollupStatus(f, strategy) ==
    LET unhealthy == {c \in DOMAIN f : f[c] \notin {"operational", "maintenance"}} IN
    IF strategy # "majority" \/ unhealthy = {} THEN worstStatus(f)
    ELSE IF 2 * Cardinality(unhealthy) > Cardinality(DOMAIN f) THEN WorstOf(StatusesOf(f, unhealthy))
    ELSE "degraded"

=============================================================================
