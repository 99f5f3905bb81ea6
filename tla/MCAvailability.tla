--------------------------- MODULE MCAvailability ---------------------------
\* Two windows that overlap, one of which suppresses alerts; the end of one day
\* and the next.
EXTENDS Availability

CONSTANTS a, nobody

MCReported == [s \in {a, nobody} |-> IF s = a THEN {"operational", "down"}
                                 ELSE {"operational", "down", "maintenance", "unknown"}]

MCWindowSets == {{}, {[from |-> 4, to |-> 6, suppress |-> TRUE], [from |-> 5, to |-> 7, suppress |-> FALSE]}}

=============================================================================
