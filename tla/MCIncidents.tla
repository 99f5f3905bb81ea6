---------------------------- MODULE MCIncidents -----------------------------
\* Incidents with two components and the impacts worth telling apart.
EXTENDS Incidents, TLC

CONSTANTS c1, c2

MCRevisions == {[c \in Controls |-> IF c = c1 THEN "major" ELSE None],
                [c \in Controls |-> "degraded"]}
MCSymmetry  == Permutations(Requests)
=============================================================================
