---------------------------- MODULE Jobs_proofs -----------------------------
(***************************************************************************)
(* Proofs about what the server does on its own clock while requests come  *)
(* in between: who measures a control (Measuring) and how a maintenance    *)
(* window is opened, closed and announced (Maintenance).  The two share no *)
(* state and no name; either half stands for any values of its constants.  *)
(***************************************************************************)
EXTENDS Measuring, Maintenance, WellFoundedInduction, FiniteSetTheorems, TLAPS

\* Naturals have a least element.
LEMMA Least ==
    ASSUME NEW S, S \subseteq Nat, S # {}
    PROVE  Min(S) \in S /\ \A m \in S : Min(S) <= m
<1> DEFINE less == {pair \in Nat \X Nat : pair[1] < pair[2]}
<1>1. IsWellFoundedOn(less, Nat)
  BY NatLessThanWellFounded DEF OpToRel
<1>2. PICK n \in S : \A m \in S : ~ (<<m, n>> \in less)
  <2> HIDE DEF less
  <2> QED BY <1>1, WFMin
<1>3. \A m \in S : n =< m
  <2> SUFFICES ASSUME NEW m \in S PROVE n =< m OBVIOUS
  <2>1. m \in Nat /\ n \in Nat /\ <<m, n>> \in Nat \X Nat
    OBVIOUS
  <2>2. ~ (m < n)
    BY <1>2, <2>1
  <2> QED BY <2>1, <2>2
<1> QED BY <1>3 DEF Min

-----------------------------------------------------------------------------
(* Who measures a control: for any machines, zone, controls, scopes and ids  *)
(* and any number of changes.                                                *)

IInv == TypeOK /\ OneVantagePoint

\* Nothing anew: what holds of the rows and the looks goes on holding.
LEMMA QuietStep ==
    ASSUME OneVantagePoint, status' = status, seen' = seen,
           items' = items, forced' = forced, arrived' = arrived, met' = met
    PROVE  OneVantagePoint'
BY DEF OneVantagePoint, Fresh, live

\* Whoever was not fresh and now is, is remembered by both looks.
LEMMA TouchStep ==
    ASSUME OneVantagePoint, items' = items, forced' = forced,
           items # {} => \A a \in Agents :
              a \in arrived \/ (Fresh(a)' /\ ~ Fresh(a)) => a \in arrived',
           forced # None => \A a \in Agents :
              a \in met \/ (Fresh(a)' /\ ~ Fresh(a)) => a \in met'
    PROVE  OneVantagePoint'
BY DEF OneVantagePoint

-----------------------------------------------------------------------------
(* The steps, one by one. *)

\* A machine or a relay pairs.
LEMMA PairStep ==
    ASSUME IInv, NEW a \in Keyed, Pair(a)
    PROVE  IInv'
<1>1. seen' \in [Agents -> BOOLEAN] /\ items' = items /\ forced' = forced
  BY DEF server, Pair, Touch
<1>2. arrived' \subseteq Agents /\ met' \subseteq Agents
  BY DEF IInv, TypeOK, Pair, Keyed, Agents, Touch
<1>3. ASSUME NEW b \in Agents
      PROVE  /\ items # {} /\ (b \in arrived \/ (Fresh(b)' /\ ~ Fresh(b))) => b \in arrived'
             /\ forced # None /\ (b \in met \/ (Fresh(b)' /\ ~ Fresh(b))) => b \in met'
  BY DEF IInv, TypeOK, Pair, Touch, Fresh, live
<1>4. OneVantagePoint'
  BY <1>1, <1>3, TouchStep DEF IInv
<1>5. TypeOK'
  <2>1. status' \in [Agents -> {"absent", "active", "revoked"}]
    BY DEF IInv, TypeOK, Pair
  <2>2. jobs' \in [Agents -> SUBSET Controls]
    BY DEF IInv, TypeOK, Pair, jobsForAgent
  <2>3. alive' \in [Agents -> BOOLEAN] /\ measured' \subseteq Controls
    BY DEF IInv, TypeOK, Pair
  <2>4. UNCHANGED <<control, policy, pinned, items, forced, changes>>
    BY DEF choices, server, Pair
  <2> QED BY <1>1, <1>2, <2>1, <2>2, <2>3, <2>4 DEF IInv, TypeOK
<1>6. QED BY <1>4, <1>5 DEF IInv

\* It asks what to run.
LEMMA AskStep ==
    ASSUME IInv, NEW a \in Keyed, Ask(a)
    PROVE  IInv'
<1>1. seen' \in [Agents -> BOOLEAN] /\ items' = items /\ forced' = forced
  BY DEF server, Ask, Touch
<1>2. arrived' \subseteq Agents /\ met' \subseteq Agents
  BY DEF IInv, TypeOK, Ask, Keyed, Agents, Touch
<1>3. ASSUME NEW b \in Agents
      PROVE  /\ items # {} /\ (b \in arrived \/ (Fresh(b)' /\ ~ Fresh(b))) => b \in arrived'
             /\ forced # None /\ (b \in met \/ (Fresh(b)' /\ ~ Fresh(b))) => b \in met'
  BY DEF Ask, Touch, Fresh, live
<1>4. OneVantagePoint'
  BY <1>1, <1>3, TouchStep DEF IInv
<1>5. TypeOK'
  <2>1. status' \in [Agents -> {"absent", "active", "revoked"}]
    BY DEF IInv, TypeOK, Ask
  <2>2. jobs' \in [Agents -> SUBSET Controls]
    BY DEF IInv, TypeOK, Ask, jobsForAgent
  <2>3. alive' \in [Agents -> BOOLEAN] /\ measured' \subseteq Controls
    BY DEF IInv, TypeOK, Ask
  <2>4. UNCHANGED <<control, policy, pinned, items, forced, changes>>
    BY DEF choices, server, Ask
  <2> QED BY <1>1, <1>2, <2>1, <2>2, <2>3, <2>4 DEF IInv, TypeOK
<1>6. QED BY <1>4, <1>5 DEF IInv

\* A heartbeat.
LEMMA BeatStep ==
    ASSUME IInv, NEW a \in Keyed, Beat(a)
    PROVE  IInv'
<1>1. seen' \in [Agents -> BOOLEAN] /\ items' = items /\ forced' = forced
  BY DEF server, Beat, Touch
<1>2. arrived' \subseteq Agents /\ met' \subseteq Agents
  BY DEF IInv, TypeOK, Beat, Keyed, Agents, Touch
<1>3. ASSUME NEW b \in Agents
      PROVE  /\ items # {} /\ (b \in arrived \/ (Fresh(b)' /\ ~ Fresh(b))) => b \in arrived'
             /\ forced # None /\ (b \in met \/ (Fresh(b)' /\ ~ Fresh(b))) => b \in met'
  BY DEF Beat, Touch, Fresh, live
<1>4. OneVantagePoint'
  BY <1>1, <1>3, TouchStep DEF IInv
<1>5. TypeOK'
  <2>1. status' \in [Agents -> {"absent", "active", "revoked"}]
    BY DEF IInv, TypeOK, Beat
  <2>2. jobs' \in [Agents -> SUBSET Controls]
    BY DEF IInv, TypeOK, Beat
  <2>3. alive' \in [Agents -> BOOLEAN] /\ measured' \subseteq Controls
    BY DEF IInv, TypeOK, Beat
  <2>4. UNCHANGED <<control, policy, pinned, items, forced, changes>>
    BY DEF choices, server, Beat
  <2> QED BY <1>1, <1>2, <2>1, <2>2, <2>3, <2>4 DEF IInv, TypeOK
<1>6. QED BY <1>4, <1>5 DEF IInv

\* A machine of the zone asks its relay.
LEMMA AskRelayStep ==
    ASSUME IInv, NEW z \in Zone, AskRelay(z)
    PROVE  IInv'
<1> USE MeasuringAssumption DEF IInv, TypeOK, rows, choices, server, ghosts, Change, AskRelay,
                                Agents, Keyed
<1>1. TypeOK'
  OBVIOUS
<1>2. OneVantagePoint'
  BY QuietStep
<1>3. QED BY <1>1, <1>2

\* Ten minutes of silence.
LEMMA AgeStep ==
    ASSUME IInv, NEW a \in Agents, Age(a)
    PROVE  IInv'
<1> USE MeasuringAssumption DEF IInv, TypeOK, rows, choices, server, ghosts, Change, Age
<1>1. TypeOK'
  OBVIOUS
<1>2. OneVantagePoint'
  BY DEF OneVantagePoint, Fresh, live
<1>3. QED BY <1>1, <1>2

\* An agent dies or comes back.
LEMMA TurnStep ==
    ASSUME IInv, NEW a \in Agents, Turn(a)
    PROVE  IInv'
<1> USE MeasuringAssumption DEF IInv, TypeOK, rows, choices, server, ghosts, Change, Turn, Agents,
                                Keyed
<1>1. TypeOK'
  OBVIOUS
<1>2. OneVantagePoint'
  BY QuietStep
<1>3. QED BY <1>1, <1>2

\* A row is revoked.
LEMMA RevokeStep ==
    ASSUME IInv, NEW a \in Agents, Revoke(a)
    PROVE  IInv'
<1> USE MeasuringAssumption DEF IInv, TypeOK, rows, choices, server, ghosts, Change, Revoke
<1>1. TypeOK'
  OBVIOUS
<1>2. OneVantagePoint'
  BY DEF OneVantagePoint, Fresh, live
<1>3. QED BY <1>1, <1>2

\* A check is pushed.
LEMMA MeasureStep ==
    ASSUME IInv, NEW a \in Agents, NEW c \in Controls, Measure(a, c)
    PROVE  IInv'
<1>1. seen' \in [Agents -> BOOLEAN] /\ items' = items /\ forced' = forced
  BY DEF server, Measure, Touch
<1>2. arrived' \subseteq Agents /\ met' \subseteq Agents
  BY DEF IInv, TypeOK, Measure, Agents, Touch
<1>3. ASSUME NEW b \in Agents
      PROVE  /\ items # {} /\ (b \in arrived \/ (Fresh(b)' /\ ~ Fresh(b))) => b \in arrived'
             /\ forced # None /\ (b \in met \/ (Fresh(b)' /\ ~ Fresh(b))) => b \in met'
  BY DEF Measure, Touch, Fresh, live
<1>4. OneVantagePoint'
  BY <1>1, <1>3, TouchStep DEF IInv
<1>5. TypeOK'
  <2>1. status' \in [Agents -> {"absent", "active", "revoked"}]
    BY DEF IInv, TypeOK, Measure
  <2>2. jobs' \in [Agents -> SUBSET Controls]
    BY DEF IInv, TypeOK, Measure
  <2>3. alive' \in [Agents -> BOOLEAN] /\ measured' \subseteq Controls
    BY DEF IInv, TypeOK, Measure
  <2>4. UNCHANGED <<control, policy, pinned, items, forced, changes>>
    BY DEF choices, server, Measure
  <2> QED BY <1>1, <1>2, <2>1, <2>2, <2>3, <2>4 DEF IInv, TypeOK
<1>6. QED BY <1>4, <1>5 DEF IInv

\* A forced check looks.
LEMMA ForceCheckStep ==
    ASSUME IInv, NEW c \in Controls, ForceCheck(c)
    PROVE  IInv'
<1> USE MeasuringAssumption DEF IInv, TypeOK, rows, choices, server, ghosts, Change, ForceCheck
<1>1. TypeOK'
  OBVIOUS
<1>2. OneVantagePoint'
  BY DEF OneVantagePoint, Fresh, live, coversControl, CoveredRemote, Claims
<1>3. QED BY <1>1, <1>2

\* An interval passes.
LEMMA FadeStep ==
    ASSUME IInv, NEW c \in Controls, Fade(c)
    PROVE  IInv'
<1> USE MeasuringAssumption DEF IInv, TypeOK, rows, choices, server, ghosts, Change, Fade, Agents,
                                Keyed
<1>1. TypeOK'
  OBVIOUS
<1>2. OneVantagePoint'
  BY QuietStep
<1>3. QED BY <1>1, <1>2

\* A control is switched or deleted.
LEMMA SwitchStep ==
    ASSUME IInv, NEW c \in Controls, NEW to \in {"on", "off", "gone"}, Switch(c, to)
    PROVE  IInv'
<1> USE MeasuringAssumption DEF IInv, TypeOK, rows, choices, server, ghosts, Change, Switch,
                                Agents, Keyed
<1>1. TypeOK'
  OBVIOUS
<1>2. OneVantagePoint'
  BY QuietStep
<1>3. QED BY <1>1, <1>2

\* An assignment.
LEMMA AssignStep ==
    ASSUME IInv, NEW c \in Controls, NEW p \in {"single", "all"}, NEW S \in Pins, Assign(c, p, S)
    PROVE  IInv'
<1> USE MeasuringAssumption DEF IInv, TypeOK, rows, choices, server, ghosts, Change, Assign,
                                Agents, Keyed
<1>1. TypeOK'
  OBVIOUS
<1>2. OneVantagePoint'
  BY QuietStep
<1>3. QED BY <1>1, <1>2

\* The zone is declared.
LEMMA DeclareStep ==
    ASSUME IInv, Declare
    PROVE  IInv'
<1>1. seen' \in [Agents -> BOOLEAN] /\ items' = items /\ forced' = forced
  BY DEF server, Declare, Touch
<1>2. arrived' \subseteq Agents /\ met' \subseteq Agents
  BY DEF IInv, TypeOK, Declare, Agents, Touch
<1>3. ASSUME NEW b \in Agents
      PROVE  /\ items # {} /\ (b \in arrived \/ (Fresh(b)' /\ ~ Fresh(b))) => b \in arrived'
             /\ forced # None /\ (b \in met \/ (Fresh(b)' /\ ~ Fresh(b))) => b \in met'
  BY DEF Declare, Touch, Fresh, live
<1>4. OneVantagePoint'
  BY <1>1, <1>3, TouchStep DEF IInv
<1>5. TypeOK'
  <2>1. status' \in [Agents -> {"absent", "active", "revoked"}]
    BY DEF IInv, TypeOK, Declare
  <2>2. jobs' \in [Agents -> SUBSET Controls]
    BY DEF IInv, TypeOK, Declare
  <2>3. alive' \in [Agents -> BOOLEAN] /\ measured' \subseteq Controls
    BY DEF IInv, TypeOK, Declare
  <2>4. UNCHANGED <<control, policy, pinned, items, forced, changes>>
    BY DEF choices, server, Declare
  <2> QED BY <1>1, <1>2, <2>1, <2>2, <2>3, <2>4 DEF IInv, TypeOK
<1>6. QED BY <1>4, <1>5 DEF IInv

\* The job looks.
LEMMA DueStep ==
    ASSUME IInv, due
    PROVE  IInv'
<1> USE MeasuringAssumption DEF IInv, TypeOK, rows, choices, server, ghosts, Change, due
<1>1. TypeOK'
  OBVIOUS
<1>2. OneVantagePoint'
  BY DEF OneVantagePoint, Fresh, live, coversControl, Covered, Claims
<1>3. QED BY <1>1, <1>2

\* The job records.
LEMMA RunLocalProbesStep ==
    ASSUME IInv, runLocalProbes
    PROVE  IInv'
<1> USE MeasuringAssumption DEF IInv, TypeOK, rows, choices, server, ghosts, Change, runLocalProbes
<1>1. TypeOK'
  OBVIOUS
<1>2. OneVantagePoint'
  BY DEF OneVantagePoint, Fresh, live
<1>3. QED BY <1>1, <1>2

\* A forced check is recorded.
LEMMA ForcedStep ==
    ASSUME IInv, Forced
    PROVE  IInv'
<1> USE MeasuringAssumption DEF IInv, TypeOK, rows, choices, server, ghosts, Change, Forced
<1>1. TypeOK'
  OBVIOUS
<1>2. OneVantagePoint'
  BY DEF OneVantagePoint, Fresh, live
<1>3. QED BY <1>1, <1>2

-----------------------------------------------------------------------------
(* The theorems. *)

\* Nothing is there yet, and nobody looks.
LEMMA Start == Init => IInv
BY MeasuringAssumption DEF Init, IInv, TypeOK, OneVantagePoint

\* Every step keeps the invariant.
LEMMA Step == IInv /\ [Next]_vars => IInv'
<1> SUFFICES ASSUME IInv, [Next]_vars PROVE IInv'
  OBVIOUS
<1>1. CASE UNCHANGED vars
  BY <1>1 DEF vars, IInv, TypeOK, OneVantagePoint, Fresh, live
<1>2. ASSUME NEW a \in Keyed, Pair(a) PROVE IInv'
  BY <1>2, PairStep
<1>3. ASSUME NEW a \in Keyed, Ask(a) PROVE IInv'
  BY <1>3, AskStep
<1>4. ASSUME NEW a \in Keyed, Beat(a) PROVE IInv'
  BY <1>4, BeatStep
<1>5. ASSUME NEW z \in Zone, AskRelay(z) PROVE IInv'
  BY <1>5, AskRelayStep
<1>6. ASSUME NEW a \in Agents, Age(a) PROVE IInv'
  BY <1>6, AgeStep
<1>7. ASSUME NEW a \in Agents, Turn(a) PROVE IInv'
  BY <1>7, TurnStep
<1>8. ASSUME NEW a \in Agents, Revoke(a) PROVE IInv'
  BY <1>8, RevokeStep
<1>9. ASSUME NEW a \in Agents, NEW c \in Controls, Measure(a, c) PROVE IInv'
  BY <1>9, MeasureStep
<1>10. ASSUME NEW c \in Controls, ForceCheck(c) PROVE IInv'
  BY <1>10, ForceCheckStep
<1>11. ASSUME NEW c \in Controls, Fade(c) PROVE IInv'
  BY <1>11, FadeStep
<1>12. ASSUME NEW c \in Controls, NEW to \in {"on", "off", "gone"}, Switch(c, to) PROVE IInv'
  BY <1>12, SwitchStep
<1>13. ASSUME NEW c \in Controls, NEW p \in {"single", "all"}, NEW S \in Pins, Assign(c, p, S) PROVE IInv'
  BY <1>13, AssignStep
<1>14. CASE Declare
  BY <1>14, DeclareStep
<1>15. CASE due
  BY <1>15, DueStep
<1>16. CASE runLocalProbes
  BY <1>16, RunLocalProbesStep
<1>17. CASE Forced
  BY <1>17, ForcedStep
<1>18. QED BY <1>1, <1>2, <1>3, <1>4, <1>5, <1>6, <1>7, <1>8, <1>9, <1>10, <1>11, <1>12, <1>13, <1>14, <1>15, <1>16, <1>17 DEF Next

\* The invariant holds in every state of every behaviour.
LEMMA Always == Spec => []IInv
BY Start, Step, PTL DEF Spec

\* Types, of the rows, the assignment and the looks.
THEOREM Types == Spec => []TypeOK
<1>1. IInv => TypeOK BY DEF IInv
<1>2. QED BY <1>1, Always, PTL

\* The server measures nothing that an agent covers, but for those first heard
\* from after it looked (local-probes.ts, controls.ts).
THEOREM OneSeries == Spec => []OneVantagePoint
<1>1. IInv => OneVantagePoint BY DEF IInv
<1>2. QED BY <1>1, Always, PTL

-----------------------------------------------------------------------------
(* The election. *)

\* Of some agents one has the least id: ids are numbers, so this needs no bound
\* on how many agents there are.
LEMMA FirstById ==
    ASSUME NEW S \in SUBSET Agents, S # {}
    PROVE  \E a \in S : \A b \in S \ {a} : Id[a] < Id[b]
<1> DEFINE ids == {Id[a] : a \in S}
<1>1. ids \subseteq Nat /\ ids # {}
  BY MeasuringAssumption
<1> DEFINE n == Min(ids)
<1>2. n \in ids /\ \A m \in ids : n <= m
  <2> HIDE DEF ids
  <2> QED BY <1>1, Least
<1> HIDE DEF n
<1>3. PICK a \in S : Id[a] = n
  BY <1>2
<1>4. ASSUME NEW b \in S \ {a} PROVE Id[a] < Id[b]
  <2>1. Id[b] \in ids /\ Id[b] # Id[a] /\ Id[a] \in Nat /\ Id[b] \in Nat
    BY MeasuringAssumption
  <2> QED BY <1>2, <1>3, <2>1
<1> QED BY <1>4

\* An agent that covers a control and is being heard from is elected over all
\* that are not, and the one with the least id over the others.
LEMMA FreshOneElected ==
    ASSUME TypeOK, NEW c \in Controls, Covered(c)
    PROVE  \E a \in electOwner(c) : Fresh(a)
<1> DEFINE claimants == {a \in Agents : Claims(a, c)}
<1>1. PICK a \in claimants : \A b \in claimants \ {a} : Id[a] < Id[b]
  BY FirstById DEF Covered
<1>2. Fresh(a) /\ a \in live /\ coversControl(a, c)
  BY <1>1 DEF Claims, Fresh, coversControl
<1>3. ASSUME NEW b \in live \ {a}, coversControl(b, c) PROVE Before(a, b)
  <2>1. CASE seen[b]
    <3>1. b \in claimants \ {a}
      BY <1>3, <2>1 DEF Claims, Fresh, coversControl, live
    <3> QED BY <1>1, <1>2, <2>1, <3>1 DEF Before, Fresh
  <2>2. CASE ~ seen[b]
    BY <1>2, <2>2 DEF Before, Fresh
  <2> QED BY <2>1, <2>2
<1> QED BY <1>2, <1>3 DEF electOwner

\* What the server leaves to the agents is assigned to one that is being heard
\* from (assignment.ts electOwner and local-probes.ts agentCoverage agree).
THEOREM ServerAndAgentsAgree == Spec => []HandedOver
<1>1. ASSUME TypeOK, NEW c \in Controls, Covered(c), ~ Held(c)
      PROVE  \E a \in runnersFor(c) : Fresh(a)
  <2>1. CASE policy[c] = "all"
    BY <1>1, <2>1 DEF runnersFor, Held, Covered, Claims, Fresh, coversControl
  <2>2. CASE policy[c] # "all"
    BY <1>1, <2>2, FreshOneElected DEF runnersFor, Held
  <2> QED BY <2>1, <2>2
<1>2. TypeOK => HandedOver
  BY <1>1 DEF HandedOver
<1> QED BY <1>2, Types, PTL

-----------------------------------------------------------------------------
(* A maintenance window: for any operators, windows and marks and any number *)
(* of requests, crashes and failed statements.                               *)

\* The marks announced since the last edit, and how often one was repeated.
Announced == {reminded[i] : i \in DOMAIN reminded}
Repeats   == Len(reminded) - Cardinality(Announced)

Known ==
    /\ row = NoRow => remind = "idle" /\ reminded = <<>>
    /\ stale => remind # "idle" /\ reminded = <<>>
    /\ remind # "idle" => dueNow # {}
    /\ \A o \in Operators : request[o] # "none" => current[o] \in Rows

\* What is recorded, will be or may be written back was announced.
Said ==
    /\ row.sentAt \union upcoming \subseteq covered
    /\ \A o \in Operators : current[o].sentAt \subseteq covered
    /\ remind = "record" => dueNow \subseteq covered

\* What the job chose of a schedule nobody edited since: every mark the window
\* has reached, so what is left is nearer than any of them.
Chosen ==
    remind # "idle" /\ ~ stale /\ Exists =>
        /\ upcoming = row.sentAt /\ dueNow \subseteq row.marks \ upcoming
        /\ \A m \in dueNow : row.window[1] - now <= m
        /\ \A m \in dueNow, n \in row.marks \ (upcoming \union dueNow) : n < m

\* A mark that was announced is still due, or recorded and then nothing that is
\* left is farther.
Nearer ==
    Exists => \A m \in Announced :
        \/ m \in row.sentAt /\ \A n \in row.marks \ row.sentAt : n < m
        \/ m \notin row.sentAt /\ m \in row.marks /\ row.window[1] - now <= m

\* What is about to be announced is no farther than all before it, and the same
\* again only after a failure.
NextUp ==
    remind = "say" /\ ~ stale =>
        /\ \A m \in Announced : Min(dueNow) <= m
        /\ Min(dueNow) \in Announced => Repeats + 1 <= faults

Just ==
    remind = "record" /\ ~ stale =>
        reminded # <<>> /\ reminded[Len(reminded)] = Min(dueNow)

InOrder == \A i, j \in DOMAIN reminded : i < j => reminded[i] >= reminded[j]

\* The last reminder is not recorded and nobody is about to: it will be repeated.
Unrecorded ==
    /\ Exists /\ reminded # <<>> /\ reminded[Len(reminded)] \notin row.sentAt
    /\ ~ (remind = "record" /\ ~ stale)

Counted ==
    /\ IsFiniteSet(Announced)
    /\ Repeats <= faults
    /\ Unrecorded => Repeats + 1 <= faults

Kept == Known /\ Said /\ Chosen /\ Nearer /\ NextUp /\ Just /\ InOrder /\ Counted

WindowInv == WindowTypeOK /\ Kept

-----------------------------------------------------------------------------
\* A row that is there has the fields of one.
LEMMA RowThere ==
    ASSUME WindowTypeOK, Exists
    PROVE  row \in Rows
BY DEF WindowTypeOK, Exists, Statuses, NoRow, Gone

\* Only marks are announced.
LEMMA AnnouncedMarks == WindowTypeOK => Announced \subseteq Marks
BY DEF WindowTypeOK, Announced

-----------------------------------------------------------------------------
(* What leaves the schedule and what was sent of it alone. *)

LEMMA SameSchedule ==
    ASSUME WindowInv, WindowTypeOK',
           row' = NoRow => row = NoRow,
           row'.sentAt \subseteq row.sentAt,
           Exists' => /\ Exists
                      /\ row'.window = row.window /\ row'.marks = row.marks /\ row'.sentAt = row.sentAt,
           now' >= now, faults' >= faults,
           UNCHANGED <<reminding, stale, covered, reminded>>,
           \A o \in Operators : request'[o] # "none" => current'[o] \in Rows,
           \A o \in Operators : current'[o].sentAt \subseteq covered
    PROVE  Kept'
<1>1. Known'
  BY DEF WindowInv, Kept, Known, reminding
<1>2. Said'
  BY DEF WindowInv, Kept, Said, reminding
<1>3. Announced' = Announced /\ Repeats' = Repeats /\ InOrder' /\ Just'
  BY DEF WindowInv, Kept, Announced, Repeats, InOrder, Just, reminding
<1>4. now \in Nat /\ now' \in Nat /\ faults \in Nat /\ faults' \in Nat /\ Announced \subseteq Nat /\ dueNow \subseteq Nat
  <2>1. now \in Nat /\ now' \in Nat /\ faults \in Nat /\ faults' \in Nat /\ dueNow \subseteq Nat
    BY MaintenanceAssumption DEF WindowInv, WindowTypeOK, Times
  <2>2. Announced \subseteq Nat
    BY MaintenanceAssumption, AnnouncedMarks DEF WindowInv
  <2> QED BY <2>1, <2>2
<1>5. Exists' => row \in Rows /\ row' \in Rows /\ row.window[1] \in Nat /\ row.marks \subseteq Nat
  BY MaintenanceAssumption, RowThere DEF WindowInv, Rows, WindowTypeOK, Exists, Statuses, NoRow,
                                         Gone
<1>6. Chosen'
  <2> SUFFICES ASSUME remind' # "idle", ~ stale', Exists'
               PROVE  Chosen'
    BY DEF Chosen
  <2>1. /\ upcoming = row.sentAt /\ dueNow \subseteq row.marks \ upcoming
        /\ \A m \in dueNow : row.window[1] - now <= m
        /\ \A m \in dueNow, n \in row.marks \ (upcoming \union dueNow) : n < m
    BY DEF WindowInv, Kept, Chosen, reminding
  <2>2. \A m \in dueNow : row.window[1] - now' <= m
    BY <1>4, <1>5, <2>1
  <2> QED BY <2>1, <2>2 DEF Chosen, reminding
<1>7. Nearer'
  <2> SUFFICES ASSUME Exists', NEW m \in Announced
               PROVE  \/ m \in row.sentAt /\ \A n \in row.marks \ row.sentAt : n < m
                      \/ m \notin row.sentAt /\ m \in row.marks /\ row.window[1] - now' <= m
    BY <1>3 DEF Nearer
  <2> QED BY <1>4, <1>5 DEF WindowInv, Kept, Nearer
<1>8. Repeats \in Int
  BY FS_CardinalityType DEF WindowInv, Kept, Counted, Repeats, WindowTypeOK
<1>9. NextUp'
  BY <1>3, <1>4, <1>8 DEF WindowInv, Kept, NextUp, reminding
<1>10. Counted'
  BY <1>3, <1>4, <1>8 DEF WindowInv, Kept, Counted, Unrecorded, reminding
<1> QED BY <1>1, <1>2, <1>3, <1>6, <1>7, <1>9, <1>10 DEF Kept

\* Nobody is in flight, or fewer are.
LEMMA FewerInFlight ==
    ASSUME WindowInv, covered' = covered,
           \A o \in Operators : \/ request'[o] = "none" /\ current'[o] = NoRow
                                \/ request'[o] = request[o] /\ current'[o] = current[o]
    PROVE  /\ \A o \in Operators : request'[o] # "none" => current'[o] \in Rows
           /\ \A o \in Operators : current'[o].sentAt \subseteq covered
BY DEF WindowInv, Kept, Known, Said, NoRow

\* The reminders job is over.
LEMMA RemindersEnd ==
    ASSUME WindowInv, WindowTypeOK', Reminded, faults' = faults + 1,
           UNCHANGED <<now, row, covered, reminded>>,
           \A o \in Operators : \/ request'[o] = "none" /\ current'[o] = NoRow
                                \/ request'[o] = request[o] /\ current'[o] = current[o]
    PROVE  Kept'
<1>1. Known'
  BY DEF WindowInv, Kept, Known, Reminded
<1>2. Said'
  BY FewerInFlight DEF WindowInv, Kept, Said, Reminded
<1>3. Announced' = Announced /\ Repeats' = Repeats /\ InOrder'
  BY DEF WindowInv, Kept, Announced, Repeats, InOrder
<1>4. Just' /\ Chosen' /\ NextUp'
  BY DEF Just, Chosen, NextUp, Reminded
<1>5. Nearer'
  BY <1>3 DEF WindowInv, Kept, Nearer, Exists
<1>6. Repeats \in Int /\ faults \in Nat
  BY FS_CardinalityType DEF WindowInv, Kept, Counted, Repeats, WindowTypeOK
<1>7. Counted'
  BY <1>3, <1>6 DEF WindowInv, Kept, Counted
<1> QED BY <1>1, <1>2, <1>3, <1>4, <1>5, <1>7 DEF Kept

-----------------------------------------------------------------------------
(* The steps, one by one. *)

\* A window is announced anew: nothing was said of it.
LEMMA CreateStep ==
    ASSUME WindowInv, NEW w \in Windows, NEW auto \in BOOLEAN, NEW marks \in MarkSets, Create(w, auto, marks)
    PROVE  WindowInv'
<1>1. row' \in Rows /\ row'.sentAt = {} /\ row' # NoRow
  BY MaintenanceAssumption DEF Create, Rows, Statuses, NoRow
<1>2. WindowTypeOK'
  BY <1>1, MaintenanceAssumption DEF WindowInv, Create, WindowTypeOK, history, reminding, advancing
<1>3. reminded = <<>> /\ remind = "idle" /\ UNCHANGED <<reminded, remind, stale, covered, upcoming, dueNow, faults, request, current>>
  BY DEF WindowInv, Kept, Known, Create, history, reminding
<1>4. Announced = {} /\ Announced' = {} /\ Repeats' = Repeats
  BY <1>3 DEF Announced, Repeats
<1>5. Known' /\ Said'
  BY <1>1, <1>3 DEF WindowInv, Kept, Known, Said
<1>6. Chosen' /\ Nearer' /\ NextUp' /\ Just' /\ InOrder'
  BY <1>3, <1>4 DEF Chosen, Nearer, NextUp, Just, InOrder
<1>7. Counted'
  BY <1>3, <1>4 DEF WindowInv, Kept, Counted, Unrecorded
<1> QED BY <1>2, <1>5, <1>6, <1>7 DEF WindowInv, Kept

\* A request reads the row.
LEMMA LoadStep ==
    ASSUME WindowInv, NEW o \in Operators, NEW kind \in {"edit", "update", "remove"}, Load(o, kind)
    PROVE  WindowInv'
<1>1. row \in Rows
  BY RowThere DEF WindowInv, Load
<1>2. WindowTypeOK'
  BY <1>1, MaintenanceAssumption DEF WindowInv, Load, WindowTypeOK, history, reminding, advancing
<1>3. \A p \in Operators : /\ request'[p] # "none" => current'[p] \in Rows
                           /\ current'[p].sentAt \subseteq covered
  BY <1>1 DEF WindowInv, WindowTypeOK, Kept, Known, Said, Load
<1>4. Kept'
  BY <1>2, <1>3, SameSchedule DEF WindowInv, WindowTypeOK, Times, Load, history, Exists
<1> QED BY <1>2, <1>4 DEF WindowInv

\* What an operator may choose is a window and marks there are.
LEMMA WhatIsEditable ==
    ASSUME NEW c \in Rows, NEW chosen \in Editable(c)
    PROVE  chosen.window \in Windows /\ chosen.marks \subseteq Marks
<1>1. CASE c.status = "scheduled"
  BY <1>1, MaintenanceAssumption DEF Editable
<1>2. CASE c.status = "in_progress"
  BY <1>2 DEF Editable, Rows
<1>3. CASE c.status \notin {"scheduled", "in_progress"}
  BY <1>3 DEF Editable, Rows
<1> QED BY <1>1, <1>2, <1>3

\* An edit starts the reminders over; what it writes as sent it had read.
LEMMA EditStep ==
    ASSUME WindowInv, NEW o \in Operators, Edit(o)
    PROVE  WindowInv'
<1> DEFINE c == current[o]
<1>1. c \in Rows /\ c.sentAt \subseteq covered
  BY DEF WindowInv, Kept, Known, Said, Edit
<1>2. PICK chosen \in Editable(c),
           auto \in (IF c.status \in {"scheduled", "in_progress"} THEN BOOLEAN ELSE {row.auto}) :
              Put([row EXCEPT !.window = chosen.window, !.marks = chosen.marks, !.auto = auto,
                      !.sentAt = {m \in c.sentAt \intersect chosen.marks : chosen.window[1] - now <= m}])
  BY DEF Edit
<1>3. reminded' = <<>> /\ stale' = (remind # "idle") /\ UNCHANGED <<covered, unsaid>> /\ Answered(o)
  BY DEF Edit
<1> HIDE DEF c
<1>4. chosen.window \in Windows /\ chosen.marks \subseteq Marks
  BY <1>1, WhatIsEditable
<1>5. /\ row' \in Rows \union {NoRow, Gone} /\ row'.sentAt \subseteq covered
      /\ row' = NoRow => row = NoRow
  <2>1. CASE Exists
    <3>1. row \in Rows
      BY <2>1, RowThere DEF WindowInv
    <3>2. auto \in BOOLEAN
      BY <3>1, <1>2 DEF Rows
    <3>3. {m \in c.sentAt \intersect chosen.marks : chosen.window[1] - now <= m} \in SUBSET Marks
      BY <1>4
    <3>4. row' \in Rows
      BY <1>2, <1>4, <2>1, <3>1, <3>2, <3>3 DEF Put, Rows
    <3>5. row'.sentAt = {m \in c.sentAt \intersect chosen.marks : chosen.window[1] - now <= m}
      BY <1>2, <2>1, <3>1 DEF Put, Rows
    <3>6. row' # NoRow
      BY <3>4 DEF Rows, NoRow, Statuses
    <3> QED BY <1>1, <3>4, <3>5, <3>6
  <2>2. CASE ~ Exists
    BY <1>2, <2>2 DEF Put, WindowInv, WindowTypeOK, Kept, Said
  <2> QED BY <2>1, <2>2
<1>6. WindowTypeOK'
  BY <1>3, <1>5 DEF WindowInv, Answered, WindowTypeOK, reminding, advancing
<1>7. DOMAIN reminded' = {} /\ Len(reminded') = 0
  BY <1>3
<1>12. Announced' = {}
  BY <1>7 DEF Announced
<1>13. Repeats' = 0
  BY <1>7, <1>12, FS_EmptySet DEF Repeats
<1>8. /\ \A p \in Operators : request'[p] # "none" => current'[p] \in Rows
      /\ \A p \in Operators : current'[p].sentAt \subseteq covered
  BY <1>3 DEF WindowInv, WindowTypeOK, Kept, Known, Said, Answered, NoRow
<1>9. Known' /\ Said'
  BY <1>3, <1>5, <1>8 DEF WindowInv, Kept, Known, Said, Answered, reminding
<1>10. Chosen' /\ Nearer' /\ NextUp' /\ Just' /\ InOrder'
  <2>1. Chosen' /\ NextUp' /\ Just'
    BY <1>3 DEF Chosen, NextUp, Just, Answered, reminding
  <2>2. Nearer' /\ InOrder'
    BY <1>7, <1>12 DEF Nearer, InOrder
  <2> QED BY <2>1, <2>2
<1>11. Counted'
  BY <1>3, <1>6, <1>12, <1>13, FS_EmptySet, MaintenanceAssumption DEF Counted, Unrecorded,
                                                                      WindowTypeOK
<1> QED BY <1>6, <1>9, <1>10, <1>11 DEF WindowInv, Kept

\* Only the status of the row and its stamps are written.
LEMMA Answer ==
    ASSUME WindowInv, NEW o \in Operators, Answered(o), history' = history,
           row' \in Rows \union {NoRow, Gone}, row' = NoRow => row = NoRow,
           row'.sentAt \subseteq row.sentAt,
           Exists' => /\ Exists
                      /\ row'.window = row.window /\ row'.marks = row.marks /\ row'.sentAt = row.sentAt
    PROVE  WindowInv'
<1>1. WindowTypeOK'
  BY DEF WindowInv, Answered, WindowTypeOK, history, reminding, advancing
<1>2. /\ \A p \in Operators : request'[p] # "none" => current'[p] \in Rows
      /\ \A p \in Operators : current'[p].sentAt \subseteq covered
  BY DEF WindowInv, WindowTypeOK, Kept, Known, Said, Answered, NoRow
<1>3. Kept'
  BY <1>1, <1>2, SameSchedule DEF WindowInv, WindowTypeOK, Times, Answered, history
<1> QED BY <1>1, <1>3 DEF WindowInv

\* An update moves the status.
LEMMA UpdateStep ==
    ASSUME WindowInv, NEW o \in Operators, NEW to \in Statuses, Update(o, to)
    PROVE  WindowInv'
<1> DEFINE c == current[o]
           stamped(t) == IF t = Never THEN now ELSE t
           r == [row EXCEPT
                  !.status = to,
                  !.actualStart = IF to = "in_progress" THEN stamped(c.actualStart) ELSE @,
                  !.actualEnd = IF to \in {"completed", "cancelled"} THEN stamped(c.actualEnd) ELSE @]
<1>1. c \in Rows
  BY DEF WindowInv, Kept, Known, Update
<1>2. Put(r) /\ Answered(o) /\ history' = history
  BY DEF Update
<1>3. stamped(c.actualStart) \in Times \union {Never} /\ stamped(c.actualEnd) \in Times \union {Never}
  BY <1>1 DEF Rows, WindowInv, WindowTypeOK
<1>4. CASE Exists
  <2>1. row \in Rows
    BY <1>4, RowThere DEF WindowInv
  <2> HIDE DEF c, stamped
  <2>2. r \in Rows /\ r.window = row.window /\ r.marks = row.marks /\ r.sentAt = row.sentAt
    BY <2>1, <1>3 DEF Rows
  <2>3. r # NoRow
    BY <2>2 DEF Rows, NoRow, Statuses
  <2> HIDE DEF r
  <2> QED BY <1>2, <1>4, <2>2, <2>3, Answer DEF Put
<1>5. CASE ~ Exists
  BY <1>2, <1>5, Answer DEF Put, WindowInv, WindowTypeOK, Exists
<1> QED BY <1>4, <1>5

\* The window is cancelled or goes.
LEMMA RemoveStep ==
    ASSUME WindowInv, NEW o \in Operators, Remove(o)
    PROVE  WindowInv'
<1> DEFINE c == current[o]
           announced == c.status # "scheduled" \/ c.sentAt # {} \/ c.actualStart # Never
           r == [row EXCEPT !.status = "cancelled",
                            !.actualEnd = IF c.actualEnd = Never THEN now ELSE c.actualEnd]
<1>1. c \in Rows
  BY DEF WindowInv, Kept, Known, Remove
<1>2. (IF announced THEN Put(r) ELSE row' = Gone) /\ Answered(o) /\ history' = history
  BY DEF Remove
<1>3. (IF c.actualEnd = Never THEN now ELSE c.actualEnd) \in Times \union {Never}
  BY <1>1 DEF Rows, WindowInv, WindowTypeOK
<1>4. CASE ~ announced
  <2>1. row' = Gone
    BY <1>2, <1>4
  <2>2. row' # NoRow /\ row'.sentAt = {} /\ ~ Exists'
    BY <2>1 DEF Gone, NoRow, Exists, Statuses
  <2> QED BY <1>2, <2>1, <2>2, Answer
<1>5. CASE announced /\ Exists
  <2>1. row \in Rows
    BY <1>5, RowThere DEF WindowInv
  <2> HIDE DEF c
  <2>2. r \in Rows /\ r.window = row.window /\ r.marks = row.marks /\ r.sentAt = row.sentAt
    BY <2>1, <1>3 DEF Rows, Statuses
  <2>3. r # NoRow
    BY <2>2 DEF Rows, NoRow, Statuses
  <2> HIDE DEF r
  <2> QED BY <1>2, <1>5, <2>2, <2>3, Answer DEF Put
<1>6. CASE announced /\ ~ Exists
  BY <1>2, <1>6, Answer DEF Put, WindowInv, WindowTypeOK, Exists
<1> QED BY <1>4, <1>5, <1>6

\* A step that leaves operators and the reminders job alone.
LEMMA Apart ==
    ASSUME WindowInv, WindowTypeOK',
           row' = NoRow => row = NoRow,
           row'.sentAt \subseteq row.sentAt,
           Exists' => /\ Exists
                      /\ row'.window = row.window /\ row'.marks = row.marks /\ row'.sentAt = row.sentAt,
           now' >= now, faults' >= faults,
           UNCHANGED <<operators, reminding, stale, covered, reminded>>
    PROVE  WindowInv'
BY SameSchedule DEF WindowInv, Kept, Known, Said, operators

\* A move writes the status and a stamp, nothing else.
LEMMA Stamped ==
    ASSUME WindowInv, row.status \in Statuses, NEW r, NEW s \in Statuses, NEW t \in Times,
           r = [row EXCEPT !.status = s, !.actualStart = t] \/ r = [row EXCEPT !.status = s, !.actualEnd = t]
    PROVE  /\ r \in Rows /\ r # NoRow
           /\ r.window = row.window /\ r.marks = row.marks /\ r.sentAt = row.sentAt
<1>1. row \in Rows
  BY RowThere DEF WindowInv, Exists
<1>2. /\ r \in Rows
      /\ r.window = row.window /\ r.marks = row.marks /\ r.sentAt = row.sentAt
  BY <1>1 DEF Rows
<1>3. r # NoRow
  BY <1>2 DEF Rows, NoRow, Statuses
<1> QED BY <1>2, <1>3

\* The job opens the window, or finds nothing to open.
LEMMA OpenStep ==
    ASSUME WindowInv, Open
    PROVE  WindowInv'
<1>1. now \in Times /\ now \in Nat /\ faults \in Nat /\ unsaid \in Nat
  BY DEF WindowInv, WindowTypeOK, Times
<1>2. CASE row' = row
  <2>1. unsaid' \in Nat /\ advance' \in {"idle", "started", "close", "completed"}
    BY <1>1 DEF Open
  <2>2. WindowTypeOK'
    BY <1>1, <1>2, <2>1 DEF Open, WindowInv, WindowTypeOK, operators, reminding
  <2> QED BY <1>1, <1>2, <2>2, Apart DEF Open, Exists
<1>3. CASE row' # row
  <2>1. /\ row.status \in Statuses /\ row' = [row EXCEPT !.status = "in_progress", !.actualStart = now]
        /\ advance' = "started" /\ unsaid' = unsaid + 1
    BY <1>3 DEF Open, Statuses
  <2>2. /\ row' \in Rows /\ row' # NoRow
        /\ row'.window = row.window /\ row'.marks = row.marks /\ row'.sentAt = row.sentAt
    BY <1>1, <2>1, Stamped DEF Statuses
  <2>3. WindowTypeOK'
    BY <1>1, <2>1, <2>2 DEF Open, WindowInv, WindowTypeOK, operators, reminding
  <2> QED BY <1>1, <2>1, <2>2, <2>3, Apart DEF Open, Exists
<1> QED BY <1>2, <1>3

\* It closes it.
LEMMA CloseStep ==
    ASSUME WindowInv, Close
    PROVE  WindowInv'
<1>1. at \in Times /\ now \in Nat /\ faults \in Nat /\ unsaid \in Nat
  BY DEF WindowInv, WindowTypeOK, Times
<1>2. CASE row' = row
  <2>1. unsaid' \in Nat /\ advance' \in {"idle", "started", "close", "completed"}
    BY <1>1 DEF Close
  <2>2. WindowTypeOK'
    BY <1>1, <1>2, <2>1 DEF Close, WindowInv, WindowTypeOK, operators, reminding
  <2> QED BY <1>1, <1>2, <2>2, Apart DEF Close, Exists
<1>3. CASE row' # row
  <2>1. /\ row.status \in Statuses /\ row' = [row EXCEPT !.status = "completed", !.actualEnd = at]
        /\ advance' = "completed" /\ unsaid' = unsaid + 1
    BY <1>3 DEF Close, Statuses
  <2>2. /\ row' \in Rows /\ row' # NoRow
        /\ row'.window = row.window /\ row'.marks = row.marks /\ row'.sentAt = row.sentAt
    BY <1>1, <2>1, Stamped DEF Statuses
  <2>3. WindowTypeOK'
    BY <1>1, <2>1, <2>2 DEF Close, WindowInv, WindowTypeOK, operators, reminding
  <2> QED BY <1>1, <2>1, <2>2, <2>3, Apart DEF Close, Exists
<1> QED BY <1>2, <1>3

\* Every move but one per failure was announced, and the job has one to
\* announce when it says so.
Moves == MovesAreSaid /\ (advance \in {"started", "completed"} => unsaid >= 1)

\* It announces what it did.
LEMMA SayStep ==
    ASSUME WindowInv, Moves, Say
    PROVE  WindowInv'
<1>1. now \in Nat /\ faults \in Nat /\ unsaid' \in Nat
  BY DEF WindowInv, WindowTypeOK, Times, Moves, Say
<1>2. WindowTypeOK'
  BY <1>1 DEF Say, WindowInv, WindowTypeOK, operators, reminding
<1> QED BY <1>1, <1>2, Apart DEF Say, Exists

\* A statement of it fails.
LEMMA AdvanceFailsStep ==
    ASSUME WindowInv, AdvanceFails
    PROVE  WindowInv'
<1>1. now \in Nat /\ faults \in Nat /\ faults' = faults + 1 /\ faults' \in 0 .. MaxFaults
  BY MaintenanceAssumption DEF WindowInv, WindowTypeOK, Times, AdvanceFails, Fault
<1>2. WindowTypeOK'
  BY <1>1 DEF AdvanceFails, WindowInv, WindowTypeOK, operators, reminding, history
<1> QED BY <1>1, <1>2, Apart DEF AdvanceFails, Exists, history

\* Time passes: a mark that is due stays due.
LEMMA TickStep ==
    ASSUME WindowInv, Tick
    PROVE  WindowInv'
<1>1. now \in Nat /\ now' = now + 1 /\ now' \in Times /\ faults \in Nat
  BY MaintenanceAssumption DEF WindowInv, WindowTypeOK, Times, Tick
<1>2. WindowTypeOK'
  BY <1>1 DEF Tick, WindowInv, WindowTypeOK, operators, reminding, advancing, history
<1> QED BY <1>1, <1>2, Apart DEF Tick, Exists, history

\* Only a fault takes the announcement of a move away.
LEMMA MovesStep ==
    ASSUME WindowInv, Moves, [WindowNext]_windowVars
    PROVE  Moves'
<1>1. faults \in Nat /\ unsaid \in Nat
  BY DEF WindowInv, WindowTypeOK
<1>2. CASE Operate \/ Remember \/ Tick \/ UNCHANGED windowVars
  <2>1. UNCHANGED <<advance, unsaid, faults>>
    BY <1>2 DEF Operate, Create, Load, Edit, Update, Remove, Answered, Remember, Select, Remind,
                Record, Tick, advancing, history, windowVars
  <2> QED BY <2>1 DEF Moves, MovesAreSaid
<1>3. CASE Open \/ Close
  BY <1>1, <1>3 DEF Moves, MovesAreSaid, Open, Close
<1>4. CASE Say
  BY <1>1, <1>4 DEF Moves, MovesAreSaid, Say
<1>5. CASE AdvanceFails \/ Crash
  BY <1>1, <1>5 DEF Moves, MovesAreSaid, AdvanceFails, Crash, Fault, history
<1>6. CASE RemindFails
  BY <1>1, <1>6 DEF Moves, MovesAreSaid, RemindFails, Fault, advancing
<1> QED BY <1>2, <1>3, <1>4, <1>5, <1>6 DEF WindowNext, Advance

\* A statement of the reminders job fails.
LEMMA RemindFailsStep ==
    ASSUME WindowInv, RemindFails
    PROVE  WindowInv'
<1>1. faults' = faults + 1 /\ faults' \in 0 .. MaxFaults
  BY MaintenanceAssumption DEF WindowInv, WindowTypeOK, RemindFails, Fault
<1>2. Reminded /\ UNCHANGED <<now, row, operators, advancing, covered, reminded, unsaid>>
  BY DEF RemindFails
<1>3. WindowTypeOK'
  BY <1>1, <1>2 DEF Reminded, WindowInv, WindowTypeOK, operators, advancing
<1> QED BY <1>1, <1>2, <1>3, RemindersEnd DEF operators, WindowInv

\* The process ends.
LEMMA CrashStep ==
    ASSUME WindowInv, Crash
    PROVE  WindowInv'
<1>1. faults' = faults + 1 /\ faults' \in 0 .. MaxFaults
  BY MaintenanceAssumption DEF WindowInv, WindowTypeOK, Crash, Fault
<1>2. /\ request' = [o \in Operators |-> "none"] /\ current' = [o \in Operators |-> NoRow]
      /\ advance' = "idle" /\ Reminded
      /\ UNCHANGED <<now, row, requests, at, covered, reminded, unsaid>>
  BY DEF Crash
<1>3. WindowTypeOK'
  BY <1>1, <1>2 DEF Reminded, WindowInv, WindowTypeOK
<1>4. \A o \in Operators : \/ request'[o] = "none" /\ current'[o] = NoRow
                           \/ request'[o] = request[o] /\ current'[o] = current[o]
  BY <1>2
<1> QED BY <1>1, <1>2, <1>3, <1>4, RemindersEnd DEF WindowInv

\* The job picks every mark the window has reached.  A repetition would be of the
\* last reminder, and then that one was not recorded.
LEMMA SelectStep ==
    ASSUME WindowInv, Select
    PROVE  WindowInv'
<1>1. /\ remind = "idle" /\ row.status = "scheduled" /\ DueMarks(row) # {}
      /\ remind' = "say" /\ upcoming' = row.sentAt /\ dueNow' = DueMarks(row) /\ stale' = FALSE
      /\ UNCHANGED <<now, row, operators, advancing, covered, reminded, unsaid, faults>>
  BY DEF Select
<1>2. Exists /\ row \in Rows
  BY <1>1, RowThere DEF Exists, Statuses, WindowInv
<1>3. now \in Nat /\ faults \in Nat /\ row.window[1] \in Nat /\ row.marks \subseteq Nat
  <2>1. now \in Nat /\ faults \in Nat
    BY DEF WindowInv, WindowTypeOK, Times
  <2>2. row.window \in Windows /\ row.marks \subseteq Marks
    BY <1>2 DEF Rows
  <2> QED BY <2>1, <2>2, MaintenanceAssumption
<1>4. dueNow' = {m \in row.marks \ row.sentAt : row.window[1] - now <= m}
  BY <1>1 DEF DueMarks
<1>5. WindowTypeOK'
  BY <1>1, <1>2, <1>4 DEF WindowInv, WindowTypeOK, operators, advancing, Rows
<1>6. Known'
  BY <1>1, <1>2 DEF WindowInv, Kept, Known, operators, Rows, NoRow, Statuses
<1>7. Said' /\ Just' /\ Nearer' /\ InOrder' /\ Announced' = Announced /\ Repeats' = Repeats
  BY <1>1 DEF WindowInv, Kept, Said, Just, Nearer, InOrder, Announced, Repeats, operators, Exists
<1>8. Chosen'
  BY <1>1, <1>3, <1>4 DEF Chosen
<1>9. Counted'
  BY <1>1, <1>7 DEF WindowInv, Kept, Counted, Unrecorded, Exists
<1>10. Announced \subseteq Nat
  BY MaintenanceAssumption, AnnouncedMarks DEF WindowInv
<1>11. dueNow' \subseteq Nat /\ dueNow' # {}
  BY <1>1, <1>3, <1>4
<1> DEFINE least == Min(dueNow')
<1>12. least \in dueNow' /\ \A m \in dueNow' : least <= m
  BY <1>11, Least
<1> HIDE DEF least
<1>13. ASSUME NEW m \in Announced PROVE least <= m
  <2>1. CASE m \in row.sentAt
    <3>1. least < m
      BY <1>2, <1>4, <1>12, <1>13, <2>1 DEF WindowInv, Kept, Nearer
    <3> QED BY <1>10, <1>11, <1>12, <1>13, <3>1
  <2>2. CASE m \notin row.sentAt
    BY <1>2, <1>4, <1>12, <1>13, <2>2 DEF WindowInv, Kept, Nearer
  <2> QED BY <2>1, <2>2
<1>14. ASSUME least \in Announced PROVE Repeats + 1 <= faults
  <2> DEFINE last == reminded[Len(reminded)]
  <2>1. reminded \in Seq(Marks) /\ reminded # <<>>
    BY <1>14 DEF WindowInv, WindowTypeOK, Announced
  <2>2. last \in Announced /\ Len(reminded) \in DOMAIN reminded
    BY <2>1 DEF Announced
  <2>3. last <= least
    <3>1. PICK i \in DOMAIN reminded : reminded[i] = least
      BY <1>14 DEF Announced
    <3>2. i <= Len(reminded) /\ i \in Nat /\ Len(reminded) \in Nat
      BY <2>1, <3>1
    <3>3. CASE i = Len(reminded)
      BY <3>1, <3>3, <1>11, <1>12
    <3>4. CASE i < Len(reminded)
      <4>1. reminded[i] >= last
        BY <2>2, <3>1, <3>4 DEF WindowInv, Kept, InOrder
      <4> QED BY <1>10, <1>11, <1>12, <2>2, <3>1, <4>1
    <3> QED BY <3>2, <3>3, <3>4
  <2> HIDE DEF last
  <2>4. last \notin row.sentAt
    <3> SUFFICES ASSUME last \in row.sentAt PROVE FALSE
      OBVIOUS
    <3>1. least < last
      BY <1>2, <1>4, <1>12, <2>2 DEF WindowInv, Kept, Nearer
    <3> QED BY <1>10, <1>11, <1>12, <2>2, <2>3, <3>1
  <2>5. Unrecorded
    BY <1>1, <1>2, <2>1, <2>4 DEF Unrecorded, last
  <2> QED BY <2>5 DEF WindowInv, Kept, Counted
<1>15. NextUp'
  BY <1>1, <1>7, <1>13, <1>14 DEF NextUp, least
<1> QED BY <1>5, <1>6, <1>7, <1>8, <1>9, <1>15 DEF WindowInv, Kept

\* It announces the nearest.
LEMMA RemindStep ==
    ASSUME WindowInv, Remind
    PROVE  WindowInv'
<1>1. /\ remind = "say" /\ remind' = "record"
      /\ covered' = covered \union dueNow
      /\ reminded' = IF stale THEN reminded ELSE Append(reminded, Min(dueNow))
      /\ UNCHANGED <<now, row, operators, advancing, upcoming, dueNow, stale, unsaid, faults>>
  BY DEF Remind
<1> DEFINE least == Min(dueNow)
<1>2. dueNow \subseteq Marks /\ dueNow # {} /\ reminded \in Seq(Marks) /\ faults \in Nat /\ Len(reminded) \in Nat
  BY <1>1 DEF WindowInv, WindowTypeOK, Kept, Known
<1>3. least \in dueNow /\ least \in Nat
  BY <1>2, Least, MaintenanceAssumption
<1> HIDE DEF least
<1>4. WindowTypeOK'
  <2>1. reminded' \in Seq(Marks) /\ covered' \subseteq Marks
    BY <1>1, <1>2, <1>3 DEF WindowInv, WindowTypeOK, least
  <2> QED BY <1>1, <2>1 DEF WindowInv, WindowTypeOK, operators, advancing
<1>5. Known'
  BY <1>1 DEF WindowInv, Kept, Known, operators
<1>6. Said'
  BY <1>1 DEF WindowInv, Kept, Said, operators
<1>7. Chosen' /\ NextUp'
  BY <1>1 DEF WindowInv, Kept, Chosen, NextUp, Exists
<1>8. CASE stale
  <2>1. reminded' = reminded /\ Announced' = Announced /\ Repeats' = Repeats /\ reminded = <<>>
    BY <1>1, <1>8 DEF Announced, Repeats, WindowInv, Kept, Known
  <2>2. Nearer' /\ Just' /\ InOrder' /\ Counted'
    BY <1>1, <1>8, <2>1 DEF WindowInv, Kept, Nearer, Just, InOrder, Counted, Unrecorded, Exists
  <2> QED BY <1>4, <1>5, <1>6, <1>7, <2>2 DEF WindowInv, Kept
<1>9. CASE ~ stale
  <2>1. reminded' = Append(reminded, least)
    BY <1>1, <1>9 DEF least
  <2>2. IsFiniteSet(Announced) /\ Repeats <= faults
    BY DEF WindowInv, Kept, Counted
  <2>3. /\ Announced' = Announced \union {least} /\ IsFiniteSet(Announced')
        /\ reminded'[Len(reminded')] = least /\ Len(reminded') = Len(reminded) + 1 /\ reminded' # <<>>
        /\ Cardinality(Announced) \in Nat
        /\ Cardinality(Announced') = IF least \in Announced THEN Cardinality(Announced) ELSE Cardinality(Announced) + 1
    <3>1. /\ DOMAIN reminded = 1 .. Len(reminded) /\ DOMAIN reminded' = 1 .. Len(reminded) + 1
          /\ Len(reminded') = Len(reminded) + 1 /\ reminded' # <<>>
          /\ reminded'[Len(reminded) + 1] = least
      BY <1>2, <1>3, <2>1
    <3>2. \A i \in 1 .. Len(reminded) : reminded'[i] = reminded[i]
      BY <1>2, <1>3, <2>1
    <3>3. ASSUME NEW m \in Announced' PROVE m \in Announced \union {least}
      BY <1>2, <3>1, <3>2 DEF Announced
    <3>4. ASSUME NEW m \in Announced PROVE m \in Announced'
      BY <1>2, <3>1, <3>2 DEF Announced
    <3>5. least \in Announced'
      BY <1>2, <3>1 DEF Announced
    <3>6. Announced' = Announced \union {least}
      BY <3>3, <3>4, <3>5
    <3> QED BY <2>2, <3>1, <3>6, FS_AddElement, FS_CardinalityType
  <2>4. Just'
    BY <1>1, <2>3 DEF Just, least
  <2>5. ~ Unrecorded'
    BY <1>1, <1>9 DEF Unrecorded
  <2>6. Repeats' <= faults
    <3>1. least \in Announced => Repeats + 1 <= faults
      BY <1>1, <1>9 DEF WindowInv, Kept, NextUp, least
    <3>2. Repeats' = Len(reminded) + 1 - Cardinality(Announced') /\ Repeats = Len(reminded) - Cardinality(Announced)
      BY <2>3 DEF Repeats
    <3> QED BY <1>2, <2>2, <2>3, <3>1, <3>2
  <2>7. Counted'
    BY <1>1, <2>3, <2>5, <2>6 DEF Counted
  <2>8. InOrder'
    <3>1. DOMAIN reminded = 1 .. Len(reminded) /\ DOMAIN reminded' = 1 .. Len(reminded) + 1
      BY <1>2, <2>1
    <3>2. \A i \in DOMAIN reminded : reminded'[i] = reminded[i]
      BY <1>2, <2>1
    <3>3. \A m \in Announced : least <= m
      BY <1>1, <1>9 DEF WindowInv, Kept, NextUp, least
    <3>4. ASSUME NEW i \in DOMAIN reminded', NEW j \in DOMAIN reminded', i < j
          PROVE  reminded'[i] >= reminded'[j]
      <4>1. i \in DOMAIN reminded /\ reminded[i] \in Announced
        BY <1>2, <3>1, <3>4 DEF Announced
      <4>4. reminded[i] \in Nat
        BY <4>1, AnnouncedMarks, MaintenanceAssumption DEF WindowInv
      <4>2. CASE j \in DOMAIN reminded
        BY <3>2, <3>4, <4>1, <4>2 DEF WindowInv, Kept, InOrder
      <4>3. CASE j = Len(reminded')
        BY <1>3, <2>3, <3>2, <3>3, <4>1, <4>3, <4>4
      <4> QED BY <2>3, <3>1, <4>2, <4>3
    <3> QED BY <3>4 DEF InOrder
  <2>9. Nearer'
    <3> SUFFICES ASSUME Exists, NEW m \in Announced'
                 PROVE  \/ m \in row.sentAt /\ \A n \in row.marks \ row.sentAt : n < m
                        \/ m \notin row.sentAt /\ m \in row.marks /\ row.window[1] - now <= m
      BY <1>1 DEF Nearer, Exists
    <3>1. CASE m \in Announced
      BY <3>1 DEF WindowInv, Kept, Nearer
    <3>2. CASE m = least
      BY <1>1, <1>3, <1>9, <3>2 DEF WindowInv, Kept, Chosen
    <3> QED BY <2>3, <3>1, <3>2
  <2> QED BY <1>4, <1>5, <1>6, <1>7, <2>4, <2>7, <2>8, <2>9 DEF WindowInv, Kept
<1> QED BY <1>8, <1>9

\* It records them all.
LEMMA RecordStep ==
    ASSUME WindowInv, Record
    PROVE  WindowInv'
<1>1. /\ remind = "record" /\ Put([row EXCEPT !.sentAt = upcoming \union dueNow]) /\ Reminded
      /\ UNCHANGED <<now, operators, advancing, covered, reminded, unsaid, faults>>
  BY DEF Record
<1>2. CASE ~ Exists
  <2>1. row' = row /\ ~ Exists'
    BY <1>1, <1>2 DEF Put, Exists
  <2>2. WindowTypeOK'
    BY <1>1, <2>1 DEF WindowInv, WindowTypeOK, Reminded, operators, advancing
  <2>3. Known' /\ Said'
    BY <1>1, <2>1 DEF WindowInv, Kept, Known, Said, Reminded, operators
  <2>4. Chosen' /\ Nearer' /\ NextUp' /\ Just'
    BY <1>1, <2>1 DEF Chosen, Nearer, NextUp, Just, Reminded
  <2>5. InOrder' /\ Counted'
    BY <1>1, <2>1 DEF WindowInv, Kept, InOrder, Counted, Announced, Repeats, Unrecorded
  <2> QED BY <2>2, <2>3, <2>4, <2>5 DEF WindowInv, Kept
<1>3. CASE Exists
  <2>1. row \in Rows /\ dueNow # {} /\ dueNow \subseteq Marks /\ upcoming \subseteq Marks /\ reminded \in Seq(Marks)
    BY <1>1, <1>3, RowThere DEF WindowInv, WindowTypeOK, Kept, Known
  <2>2. /\ row' \in Rows /\ row'.sentAt = upcoming \union dueNow
        /\ row'.window = row.window /\ row'.marks = row.marks
    BY <1>1, <1>3, <2>1 DEF Put, Rows
  <2>3. row' # NoRow
    BY <2>2 DEF Rows, NoRow, Statuses
  <2>4. WindowTypeOK'
    BY <1>1, <2>2 DEF WindowInv, WindowTypeOK, Reminded, operators, advancing
  <2>5. Known'
    BY <1>1, <2>3 DEF WindowInv, Kept, Known, Reminded, operators
  <2>6. Said'
    BY <1>1, <2>2 DEF WindowInv, Kept, Said, Reminded, operators
  <2>7. Chosen' /\ NextUp' /\ Just'
    BY <1>1 DEF Chosen, NextUp, Just, Reminded
  <2>8. Announced' = Announced /\ Repeats' = Repeats /\ InOrder'
    BY <1>1 DEF WindowInv, Kept, Announced, Repeats, InOrder
  <2>9. stale => Announced = {} /\ reminded = <<>>
    BY DEF WindowInv, Kept, Known, Announced
  <2>10. Nearer'
    <3> SUFFICES ASSUME NEW m \in Announced, ~ stale
                 PROVE  \/ m \in row'.sentAt /\ \A n \in row.marks \ row'.sentAt : n < m
                        \/ m \notin row'.sentAt /\ m \in row.marks /\ row.window[1] - now <= m
      BY <1>1, <2>2, <2>8, <2>9 DEF Nearer
    <3>1. /\ upcoming = row.sentAt
          /\ \A x \in dueNow, y \in row.marks \ (upcoming \union dueNow) : y < x
      BY <1>1, <1>3 DEF WindowInv, Kept, Chosen
    <3> QED BY <1>3, <2>2, <3>1 DEF WindowInv, Kept, Nearer
  <2>11. ~ Unrecorded'
    <3>1. CASE stale
      BY <1>1, <2>9, <3>1 DEF Unrecorded
    <3>2. CASE ~ stale
      <4>1. reminded[Len(reminded)] = Min(dueNow)
        BY <1>1, <3>2 DEF WindowInv, Kept, Just
      <4>2. Min(dueNow) \in dueNow
        BY <2>1, Least, MaintenanceAssumption
      <4> QED BY <1>1, <2>2, <4>1, <4>2 DEF Unrecorded
    <3> QED BY <3>1, <3>2
  <2>12. Counted'
    BY <1>1, <2>8, <2>11 DEF WindowInv, Kept, Counted
  <2> QED BY <2>4, <2>5, <2>6, <2>7, <2>8, <2>10, <2>12 DEF WindowInv, Kept
<1> QED BY <1>2, <1>3

-----------------------------------------------------------------------------
(* The theorems. *)

LEMMA WindowStart == WindowInit => WindowInv /\ Moves
<1> SUFFICES ASSUME WindowInit PROVE WindowInv /\ Moves
  OBVIOUS
<1>1. WindowTypeOK
  <2>1. now \in Times /\ at \in Times /\ requests \in 0 .. MaxRequests /\ faults \in 0 .. MaxFaults
    BY MaintenanceAssumption DEF WindowInit, Times
  <2>2. /\ request \in [Operators -> {"none", "edit", "update", "remove"}]
        /\ current \in [Operators -> Rows \union {NoRow}]
    BY DEF WindowInit
  <2>3. reminded \in Seq(Marks) /\ unsaid \in Nat
    BY DEF WindowInit
  <2> QED BY <2>1, <2>2, <2>3 DEF WindowInit, WindowTypeOK
<1>5. Moves
  BY DEF WindowInit, Moves, MovesAreSaid
<1>2. DOMAIN reminded = {} /\ Announced = {} /\ Len(reminded) = 0
  BY DEF WindowInit, Announced
<1>3. Known /\ Said /\ Chosen /\ Nearer /\ NextUp /\ Just /\ InOrder
  BY <1>2 DEF WindowInit, Known, Said, Chosen, Nearer, NextUp, Just, InOrder, NoRow
<1>4. Counted
  BY <1>2, FS_EmptySet DEF WindowInit, Counted, Repeats, Unrecorded
<1> QED BY <1>1, <1>3, <1>4, <1>5 DEF WindowInv, Kept

LEMMA WindowStep == WindowInv /\ Moves /\ [WindowNext]_windowVars => WindowInv' /\ Moves'
<1> SUFFICES ASSUME WindowInv, Moves, [WindowNext]_windowVars PROVE WindowInv'
  BY MovesStep
<1>1. CASE Operate
  BY <1>1, CreateStep, LoadStep, EditStep, UpdateStep, RemoveStep DEF Operate
<1>2. CASE Advance
  BY <1>2, OpenStep, SayStep, CloseStep DEF Advance
<1>3. CASE Remember
  BY <1>3, SelectStep, RemindStep, RecordStep DEF Remember
<1>4. CASE AdvanceFails \/ RemindFails \/ Tick \/ Crash
  BY <1>4, AdvanceFailsStep, RemindFailsStep, TickStep, CrashStep
<1>5. CASE UNCHANGED windowVars
  <2>1. WindowTypeOK' /\ UNCHANGED <<now, faults, operators, reminding, stale, covered, reminded, row>>
    BY <1>5 DEF windowVars, WindowInv, WindowTypeOK, operators, reminding
  <2>2. now \in Nat /\ faults \in Nat
    BY DEF WindowInv, WindowTypeOK, Times
  <2> QED BY <2>1, <2>2, Apart DEF Exists
<1> QED BY <1>1, <1>2, <1>3, <1>4, <1>5 DEF WindowNext

LEMMA WindowAlways == WindowSpec => [](WindowInv /\ Moves)
BY WindowStart, WindowStep, PTL DEF WindowSpec

\* Every value stays within its type (the columns of maintenances, the jobs' state).
THEOREM WindowTypes == WindowSpec => []WindowTypeOK
<1>1. WindowInv => WindowTypeOK
  BY DEF WindowInv
<1> QED BY <1>1, WindowAlways, PTL

\* Reminders are repeated rather than swallowed and come closer: what is recorded
\* as sent was announced, between two edits a reminder is never followed by a
\* farther one, and one is repeated only after a failure (scheduler.ts,
\* sendMaintenanceReminders; routes/maintenances.ts, PATCH).
THEOREM RemindersKept == WindowSpec => []RemindersAreKept
<1>1. WindowInv => RemindersAreKept
  BY DEF WindowInv, Kept, Said, InOrder, Counted, Repeats, Announced, RemindersAreKept
<1> QED BY <1>1, WindowAlways, PTL

\* Every window the job opened or closed is announced, but for one per failure
\* (scheduler.ts, advanceMaintenances).
THEOREM MovesAnnounced == WindowSpec => []MovesAreSaid
<1>1. Moves => MovesAreSaid
  BY DEF Moves
<1> QED BY <1>1, WindowAlways, PTL

\* No job opens or closes a window again that is completed or cancelled; only a
\* request, as it answers, does (scheduler.ts, the conditions of both UPDATEs).
THEOREM ClosedForGood == WindowSpec => ClosedStaysClosed
<1> DEFINE Reopens == row.status \in {"completed", "cancelled"} /\ row'.status # row.status
                        => \E o \in Operators : request[o] # "none" /\ request'[o] = "none"
<1>1. ASSUME WindowTypeOK, [WindowNext]_windowVars, row.status \in {"completed", "cancelled"}, row'.status # row.status
      PROVE  \E o \in Operators : request[o] # "none" /\ request'[o] = "none"
  <2>1. row \in Rows /\ Exists
    BY <1>1 DEF WindowTypeOK, NoRow, Gone, Exists, Statuses
  <2>2. ASSUME NEW o \in Operators, Edit(o) \/ Remove(o) \/ \E to \in Statuses : Update(o, to)
        PROVE  request[o] # "none" /\ request'[o] = "none"
    BY <1>1, <2>2 DEF WindowTypeOK, Edit, Remove, Update, Answered
  <2>3. ASSUME NEW w \in Windows, NEW auto \in BOOLEAN, NEW marks \in MarkSets, Create(w, auto, marks)
        PROVE  FALSE
    BY <1>1, <2>3 DEF Create, NoRow
  <2>4. CASE Record
    <3>1. row'.status = row.status
      BY <2>1, <2>4 DEF Record, Put, Rows
    <3> QED BY <1>1, <3>1
  <2>5. ASSUME NEW o \in Operators, NEW kind \in {"edit", "update", "remove"}, Load(o, kind)
        PROVE  FALSE
    BY <1>1, <2>5 DEF Load
  <2>6. CASE Open \/ Close \/ Say \/ AdvanceFails \/ RemindFails \/ Tick \/ Crash \/ Select \/ Remind \/ UNCHANGED windowVars
    BY <1>1, <2>6 DEF Open, Close, Say, AdvanceFails, RemindFails, Tick, Crash, Select, Remind,
                      windowVars
  <2> QED BY <1>1, <2>2, <2>3, <2>4, <2>5, <2>6 DEF WindowNext, Operate, Advance, Remember
<1>2. WindowTypeOK /\ [WindowNext]_windowVars => [Reopens]_windowVars
  BY <1>1
<1> QED BY <1>2, WindowTypes, PTL DEF WindowSpec, ClosedStaysClosed

=============================================================================
