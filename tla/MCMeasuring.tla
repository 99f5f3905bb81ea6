---------------------------- MODULE MCMeasuring -----------------------------
\* A relay whose key names one of two controls and whose row comes first, the
\* instance's own machine, and a machine behind the relay.
EXTENDS Measuring

CONSTANTS m, r, z, c1, c2

MCScope == [a \in Agents |-> IF a = r THEN {c1} ELSE {}]
MCId    == [a \in Agents |-> CASE a = r -> 1 [] a = m -> 2 [] a = z -> 3]
=============================================================================
