----------------------------- MODULE MCNotifier -----------------------------
\* Notifier with scopes given by one subscriber who hears only one event.
EXTENDS Notifier, TLC

\* s2 watches a component that only e1 touches.
MCWants == [e \in Events |-> IF Cardinality(Events) > 1 /\ e # CHOOSE x \in Events : TRUE
                             THEN {CHOOSE s \in Subscribers : TRUE} ELSE Subscribers]
=============================================================================
