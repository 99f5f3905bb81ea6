------------------------------ MODULE MCFleet -------------------------------
\* Fleet with a relay and an agent that runs on one of the machines it relays.
EXTENDS Fleet, TLC

MCHostname == [m \in Machines |-> IF m \in Relays THEN CHOOSE n \in Names : TRUE
                                  ELSE CHOOSE n \in Names : n # CHOOSE o \in Names : TRUE]
MCZone     == [r \in Relays |-> {CHOOSE n \in Names : n # CHOOSE o \in Names : TRUE}]
MCMaxUses  == [c \in Codes |-> 3]
MCSymmetry == Permutations(Requests)
=============================================================================
