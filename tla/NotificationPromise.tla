------------------------ MODULE NotificationPromise ------------------------
(***************************************************************************)
(* What the rest of the server may rely on when it hands an event to the   *)
(* outbound queue (services/notify.ts): one row for everybody it is meant  *)
(* for, all at once and only for those who agreed to hear; each row is     *)
(* heard, and heard again only after something went wrong; it ends as sent *)
(* only if it was heard, and nothing ever goes back.                       *)
(***************************************************************************)
EXTENDS Naturals

CONSTANTS Events, Subscribers

VARIABLES
    listening,  \* of each subscriber: "no", "yes", or "left"
    note,       \* of each event and subscriber: none, pending, sent, failed or gone
    heard,      \* how often a notification reached its subscriber
    mishaps     \* how often something went wrong

vars == <<listening, note, heard, mishaps>>

Notes == Events \X Subscribers

Init ==
    /\ listening = [s \in Subscribers |-> "no"]
    /\ note = [n \in Notes |-> "none"]
    /\ heard = [n \in Notes |-> 0]
    /\ mishaps = 0

Mishap == mishaps' = mishaps + 1

Agree(s) ==
    /\ listening[s] = "no"
    /\ listening' = [listening EXCEPT ![s] = "yes"]
    /\ UNCHANGED <<note, heard, mishaps>>

\* Whoever leaves takes all rows along.
Leave(s) ==
    /\ listening[s] # "left"
    /\ listening' = [listening EXCEPT ![s] = "left"]
    /\ note' = [n \in Notes |-> IF n[2] = s /\ note[n] # "none" THEN "gone" ELSE note[n]]
    /\ UNCHANGED <<heard, mishaps>>

\* An event is posted once, to some who listen and in one step.
Post(e, S) ==
    /\ S # {} /\ \A s \in S : listening[s] = "yes"
    /\ \A s \in Subscribers : note[<<e, s>>] = "none"
    /\ note' = [n \in Notes |-> IF n[1] = e /\ n[2] \in S THEN "pending" ELSE note[n]]
    /\ UNCHANGED <<listening, heard, mishaps>>

\* It arrives, though maybe as its row goes; again only if something went wrong
\* since, and the answer may be lost.
Hear(n) ==
    /\ note[n] \in {"pending", "gone"}
    /\ heard[n] <= mishaps
    /\ heard' = [heard EXCEPT ![n] = @ + 1]
    /\ Mishap \/ UNCHANGED mishaps
    /\ UNCHANGED <<listening, note>>

Settle(n) ==
    /\ note[n] = "pending"
    /\ \/ heard[n] > 0 /\ note' = [note EXCEPT ![n] = "sent"]
       \/ note' = [note EXCEPT ![n] = "failed"]
    /\ UNCHANGED <<listening, heard, mishaps>>

GoesWrong == Mishap /\ UNCHANGED <<listening, note, heard>>

Next ==
    \/ \E s \in Subscribers : Agree(s) \/ Leave(s)
    \/ \E e \in Events, S \in SUBSET Subscribers : Post(e, S)
    \/ \E n \in Notes : Hear(n) \/ Settle(n)
    \/ GoesWrong

Spec == Init /\ [][Next]_vars

=============================================================================
