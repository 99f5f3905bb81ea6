------------------------ MODULE InstructionPromise -------------------------
(***************************************************************************)
(* What the console may rely on when it asks a machine to do something:    *)
(* an instruction waits, is handed over once, and then is either carried   *)
(* out once or lost; only one that was carried out is answered, and the    *)
(* answer may never come (docs/protocol.md; agents.ts, "Once is the        *)
(* promise").  Nothing ever goes back.                                     *)
(***************************************************************************)
CONSTANT Instructions

VARIABLE status

States == {"none", "waiting", "handed", "lost", "carried", "answered"}

Init == status = [i \in Instructions |-> "none"]

\* Every instruction of S goes from one state to the next, no other moves.
Move(S, from, to) ==
    /\ S # {} /\ S \subseteq {i \in Instructions : status[i] = from}
    /\ status' = [i \in Instructions |-> IF i \in S THEN to ELSE status[i]]

Ask      == \E i \in Instructions : Move({i}, "none", "waiting")
HandOver == \E S \in SUBSET Instructions : Move(S, "waiting", "handed")
Lose     == \E S \in SUBSET Instructions : Move(S, "handed", "lost")
CarryOut == \E i \in Instructions : Move({i}, "handed", "carried")
Answer   == \E i \in Instructions : Move({i}, "carried", "answered")

Next == Ask \/ HandOver \/ Lose \/ CarryOut \/ Answer

Spec == Init /\ [][Next]_status

=============================================================================
