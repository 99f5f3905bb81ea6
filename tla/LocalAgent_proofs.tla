------------------------- MODULE LocalAgent_proofs --------------------------
(***************************************************************************)
(* Proofs about the agent an instance runs for itself, for any number of   *)
(* calls, starts, deaths and faults.                                       *)
(***************************************************************************)
EXTENDS LocalAgent, TLAPS

\* What closing leaves behind, with what it takes to have left it: a process
\* that nobody told to leave, or one that a closing server still starts.
Left ==
    /\ stray \in {"starting", "running"} => late \/ crashed
    /\ api = "closing" /\ (child # "none" \/ timer) => late

\* The file holds the key of a row.
Matches == file # Absent => \E x \in Rows : row[x] = file.key

Unique == \A x, y \in Rows : x = y

\* How far a call that is under way by itself has brought the row and the file.
Along(c) ==
    /\ step[c] \in {"read", "supervise"} => Matches
    /\ step[c] \in {"issue", "row"} => IF existing[c] = None THEN Rows = {} ELSE existing[c] \in Rows
    /\ step[c] = "write" => \E x \in Rows : row[x] = c

Alone == \A c, d \in UnderWay : c = d

Provisioned ==
    ~ tainted => /\ Alone /\ Unique
                 /\ UnderWay = {} => Matches
                 /\ \A c \in UnderWay : Along(c)

\* A supervisor has a process, or waits for the next, or has given up.
Waiting ==
    /\ supervisor = "none" => ~timer /\ child = "none" /\ refusals = 0
    /\ child # "none" => ~timer
    /\ refusals = MAX_REFUSALS => child = "none" /\ ~timer

IInv == TypeOK /\ Left /\ Waiting /\ Provisioned

\* Nothing of provisioning changes.
LEMMA Elsewhere ==
    ASSUME Provisioned, tainted' = tainted, step' = step, existing' = existing, row' = row, file' = file
    PROVE  Provisioned'
BY DEF Provisioned, Alone, Unique, Along, Matches, UnderWay, Rows

-----------------------------------------------------------------------------
(* The steps, one by one. *)

\* A call begins.
LEMMA BeginStep ==
    ASSUME IInv, NEW c \in Calls, Begin(c)
    PROVE  IInv'
<1> USE LocalAgentAssumption DEF IInv, calls, process, ghosts, Goes, Keys, Begin
<1>1. TypeOK'
  <2>1. api' \in {"up", "closing", "down"} /\ boots' \in 0 .. MaxBoots /\ server' \in 0 .. MaxMoves
    BY DEF TypeOK
  <2>2. step' \in [Calls -> {"new", "read", "issue", "row", "write", "supervise", "done"}]
    BY DEF TypeOK
  <2>3. existing' \in [Calls -> Calls \union {None}] /\ row' \in [Calls -> Keys \union {None}]
    BY DEF TypeOK
  <2>4. file' \in [key : Keys \union {None}, server : (0 .. MaxMoves) \union {None}]
    BY DEF TypeOK
  <2>5. supervisor' \in {"none", "on", "stopping"} /\ timer' \in BOOLEAN
    BY DEF TypeOK
  <2>6. child' \in {"none", "starting", "young", "settled"}
    BY DEF TypeOK
  <2>7. stray' \in {"none", "starting", "running", "leaving"}
    BY DEF TypeOK
  <2>8. deaths' \in 0 .. MaxDeaths /\ faults' \in 0 .. MaxFaults
    BY DEF TypeOK
  <2>9. refusals' \in 0 .. MAX_REFUSALS
    BY DEF TypeOK, Waiting, MAX_REFUSALS
  <2>10. tainted' \in BOOLEAN /\ refused' \in BOOLEAN /\ late' \in BOOLEAN /\ crashed' \in BOOLEAN
    BY DEF TypeOK
  <2> QED BY <2>1, <2>2, <2>3, <2>4, <2>5, <2>6, <2>7, <2>8, <2>9, <2>10 DEF TypeOK
<1>2. Left'
  BY DEF Left
<1>3. Provisioned'
  <2> SUFFICES ASSUME ~tainted' PROVE Provisioned'
    BY DEF Provisioned
  <2>1. ~tainted /\ UnderWay = {}
    OBVIOUS
  <2>2. UnderWay' = {c}
    BY <2>1 DEF UnderWay, TypeOK
  <2>3. Unique /\ Matches
    BY <2>1 DEF Provisioned
  <2>4. Unique' /\ Matches'
    BY <2>3 DEF Unique, Matches, Rows, Absent
  <2>5. Along(c)'
    BY <2>4 DEF Along, TypeOK
  <2>6. Alone'
    BY <2>2 DEF Alone
  <2> QED BY <2>2, <2>4, <2>5, <2>6 DEF Provisioned
<1>4. Waiting'
  BY DEF Waiting, MAX_REFUSALS
<1>5. QED BY <1>1, <1>2, <1>3, <1>4

\* It looks at the row and the file.
LEMMA ReadStep ==
    ASSUME IInv, NEW c \in Calls, Read(c)
    PROVE  IInv'
<1> USE LocalAgentAssumption DEF IInv, calls, process, ghosts, Goes, Keys, Read
<1>1. TypeOK'
  <2>1. api' \in {"up", "closing", "down"} /\ boots' \in 0 .. MaxBoots /\ server' \in 0 .. MaxMoves
    BY DEF TypeOK
  <2>2. step' \in [Calls -> {"new", "read", "issue", "row", "write", "supervise", "done"}]
    BY DEF TypeOK
  <2>3. existing' \in [Calls -> Calls \union {None}] /\ row' \in [Calls -> Keys \union {None}]
    BY DEF TypeOK, Rows
  <2>4. file' \in [key : Keys \union {None}, server : (0 .. MaxMoves) \union {None}]
    <3>1. file' = file \/ file' = [key |-> file.key, server |-> server]
      OBVIOUS
    <3>2. file.key \in Keys \union {None}
      BY DEF TypeOK
    <3>3. server \in (0 .. MaxMoves) \union {None}
      BY DEF TypeOK
    <3>4. [key |-> file.key, server |-> server] \in [key : Keys \union {None}, server : (0 .. MaxMoves) \union {None}]
      BY <3>2, <3>3
    <3> QED BY <3>1, <3>4 DEF TypeOK
  <2>5. supervisor' \in {"none", "on", "stopping"} /\ timer' \in BOOLEAN
    BY DEF TypeOK
  <2>6. child' \in {"none", "starting", "young", "settled"}
    BY DEF TypeOK
  <2>7. stray' \in {"none", "starting", "running", "leaving"}
    BY DEF TypeOK
  <2>8. deaths' \in 0 .. MaxDeaths /\ faults' \in 0 .. MaxFaults
    BY DEF TypeOK
  <2>9. refusals' \in 0 .. MAX_REFUSALS
    BY DEF TypeOK, Waiting, MAX_REFUSALS
  <2>10. tainted' \in BOOLEAN /\ refused' \in BOOLEAN /\ late' \in BOOLEAN /\ crashed' \in BOOLEAN
    BY DEF TypeOK
  <2> QED BY <2>1, <2>2, <2>3, <2>4, <2>5, <2>6, <2>7, <2>8, <2>9, <2>10 DEF TypeOK
<1>2. Left'
  BY DEF Left
<1>3. Provisioned'
  BY DEF TypeOK, Provisioned, Alone, Unique, Along, Matches, UnderWay, Rows, Absent
<1>4. Waiting'
  BY DEF Waiting, MAX_REFUSALS
<1>5. QED BY <1>1, <1>2, <1>3, <1>4

\* It issues a key.
LEMMA IssueStep ==
    ASSUME IInv, NEW c \in Calls, Issue(c)
    PROVE  IInv'
<1> USE LocalAgentAssumption DEF IInv, calls, process, ghosts, Goes, Keys, Issue
<1>1. TypeOK'
  BY DEF TypeOK, Absent, MAX_REFUSALS
<1>2. Left'
  BY DEF Left
<1>3. Provisioned'
  BY DEF TypeOK, Provisioned, Alone, Unique, Along, Matches, UnderWay, Rows, Absent
<1>4. Waiting'
  BY DEF Waiting, MAX_REFUSALS
<1>5. QED BY <1>1, <1>2, <1>3, <1>4

\* The row takes the key.
LEMMA RegisterStep ==
    ASSUME IInv, NEW c \in Calls, Register(c)
    PROVE  IInv'
<1> USE LocalAgentAssumption DEF IInv, calls, process, ghosts, Goes, Keys, Register
<1>1. TypeOK'
  BY DEF TypeOK, Absent, MAX_REFUSALS
<1>2. Left'
  BY DEF Left
<1>3. Provisioned'
  BY DEF TypeOK, Provisioned, Alone, Unique, Along, Matches, UnderWay, Rows, Absent
<1>4. Waiting'
  BY DEF Waiting, MAX_REFUSALS
<1>5. QED BY <1>1, <1>2, <1>3, <1>4

\* The file takes the key.
LEMMA WriteConfigStep ==
    ASSUME IInv, NEW c \in Calls, WriteConfig(c)
    PROVE  IInv'
<1> USE LocalAgentAssumption DEF IInv, calls, process, ghosts, Goes, Keys, WriteConfig
<1>1. TypeOK'
  BY DEF TypeOK, Absent, MAX_REFUSALS
<1>2. Left'
  BY DEF Left
<1>3. Provisioned'
  BY DEF TypeOK, Provisioned, Alone, Unique, Along, Matches, UnderWay, Rows, Absent
<1>4. Waiting'
  BY DEF Waiting, MAX_REFUSALS
<1>5. QED BY <1>1, <1>2, <1>3, <1>4

\* A supervisor is begun, or there is one.
LEMMA SuperviseStep ==
    ASSUME IInv, NEW c \in Calls, Supervise(c)
    PROVE  IInv'
<1> USE LocalAgentAssumption DEF IInv, calls, process, ghosts, Goes, Keys, Supervise
<1>1. TypeOK'
  <2>1. api' \in {"up", "closing", "down"} /\ boots' \in 0 .. MaxBoots /\ server' \in 0 .. MaxMoves
    BY DEF TypeOK
  <2>2. step' \in [Calls -> {"new", "read", "issue", "row", "write", "supervise", "done"}]
    BY DEF TypeOK
  <2>3. existing' \in [Calls -> Calls \union {None}] /\ row' \in [Calls -> Keys \union {None}]
    BY DEF TypeOK
  <2>4. file' \in [key : Keys \union {None}, server : (0 .. MaxMoves) \union {None}]
    BY DEF TypeOK
  <2>5. supervisor' \in {"none", "on", "stopping"} /\ timer' \in BOOLEAN
    BY DEF TypeOK
  <2>6. child' \in {"none", "starting", "young", "settled"}
    BY DEF TypeOK
  <2>7. stray' \in {"none", "starting", "running", "leaving"}
    BY DEF TypeOK
  <2>8. deaths' \in 0 .. MaxDeaths /\ faults' \in 0 .. MaxFaults
    BY DEF TypeOK
  <2>9. refusals' \in 0 .. MAX_REFUSALS
    BY DEF TypeOK, Waiting, MAX_REFUSALS
  <2>10. tainted' \in BOOLEAN /\ refused' \in BOOLEAN /\ late' \in BOOLEAN /\ crashed' \in BOOLEAN
    BY DEF TypeOK
  <2> QED BY <2>1, <2>2, <2>3, <2>4, <2>5, <2>6, <2>7, <2>8, <2>9, <2>10 DEF TypeOK
<1>2. Left'
  BY DEF Left
<1>3. Provisioned'
  BY DEF TypeOK, Provisioned, Alone, Unique, Along, Matches, UnderWay, Rows, Absent
<1>4. Waiting'
  BY DEF Waiting, MAX_REFUSALS
<1>5. QED BY <1>1, <1>2, <1>3, <1>4

\* The file is left half written.
LEMMA WriteFailsStep ==
    ASSUME IInv, NEW c \in Calls, WriteFails(c)
    PROVE  IInv'
<1> USE LocalAgentAssumption DEF IInv, calls, process, ghosts, Goes, Keys, WriteFails
<1>1. TypeOK'
  BY DEF TypeOK, Absent, MAX_REFUSALS
<1>2. Left'
  BY DEF Left
<1>3. Provisioned'
  BY DEF TypeOK, Provisioned, Alone, Unique, Along, Matches, UnderWay, Rows, Absent
<1>4. Waiting'
  BY DEF Waiting, MAX_REFUSALS
<1>5. QED BY <1>1, <1>2, <1>3, <1>4

\* A statement fails.
LEMMA CallFailsStep ==
    ASSUME IInv, NEW c \in Calls, CallFails(c)
    PROVE  IInv'
<1> USE LocalAgentAssumption DEF IInv, calls, process, ghosts, Goes, Keys, CallFails
<1>1. TypeOK'
  BY DEF TypeOK, Absent, MAX_REFUSALS
<1>2. Left'
  BY DEF Left
<1>3. Provisioned'
  BY DEF TypeOK, Provisioned, Alone, Unique, Along, Matches, UnderWay, Rows, Absent
<1>4. Waiting'
  BY DEF Waiting, MAX_REFUSALS
<1>5. QED BY <1>1, <1>2, <1>3, <1>4

\* The file goes.
LEMMA WipedStep ==
    ASSUME IInv, Wiped
    PROVE  IInv'
<1> USE LocalAgentAssumption DEF IInv, calls, process, ghosts, Goes, Keys, Wiped
<1>1. TypeOK'
  BY DEF TypeOK, Absent, MAX_REFUSALS
<1>2. Left'
  BY DEF Left
<1>3. Provisioned'
  BY DEF TypeOK, Provisioned, Alone, Unique, Along, Matches, UnderWay, Rows, Absent
<1>4. Waiting'
  BY DEF Waiting, MAX_REFUSALS
<1>5. QED BY <1>1, <1>2, <1>3, <1>4

\* The timer fires.
LEMMA StartStep ==
    ASSUME IInv, Start
    PROVE  IInv'
<1> USE LocalAgentAssumption DEF IInv, calls, process, ghosts, Goes, Keys, Start
<1>1. TypeOK'
  BY DEF TypeOK, Absent, MAX_REFUSALS
<1>2. Left'
  BY DEF Left
<1>3. Provisioned'
  BY Elsewhere
<1>4. Waiting'
  BY DEF Waiting, MAX_REFUSALS
<1>5. QED BY <1>1, <1>2, <1>3, <1>4

\* The process cannot be started.
LEMMA SpawnFailsStep ==
    ASSUME IInv, SpawnFails
    PROVE  IInv'
<1> USE LocalAgentAssumption DEF IInv, calls, process, ghosts, Goes, Keys, SpawnFails
<1>1. TypeOK'
  BY DEF TypeOK, Absent, MAX_REFUSALS
<1>2. Left'
  BY DEF Left
<1>3. Provisioned'
  BY Elsewhere
<1>4. Waiting'
  BY DEF Waiting, MAX_REFUSALS
<1>5. QED BY <1>1, <1>2, <1>3, <1>4

\* It runs.
LEMMA RunsStep ==
    ASSUME IInv, Runs
    PROVE  IInv'
<1> USE LocalAgentAssumption DEF IInv, calls, process, ghosts, Goes, Keys, Runs
<1>1. TypeOK'
  BY DEF TypeOK, Absent, MAX_REFUSALS
<1>2. Left'
  BY DEF Left
<1>3. Provisioned'
  BY Elsewhere
<1>4. Waiting'
  BY DEF Waiting, MAX_REFUSALS
<1>5. QED BY <1>1, <1>2, <1>3, <1>4

\* It has run for five seconds.
LEMMA SettlesStep ==
    ASSUME IInv, Settles
    PROVE  IInv'
<1> USE LocalAgentAssumption DEF IInv, calls, process, ghosts, Goes, Keys, Settles
<1>1. TypeOK'
  BY DEF TypeOK, Absent, MAX_REFUSALS
<1>2. Left'
  BY DEF Left
<1>3. Provisioned'
  BY Elsewhere
<1>4. Waiting'
  BY DEF Waiting, MAX_REFUSALS
<1>5. QED BY <1>1, <1>2, <1>3, <1>4

\* It refuses to run.
LEMMA RefusesStep ==
    ASSUME IInv, Refuses
    PROVE  IInv'
<1> USE LocalAgentAssumption DEF IInv, calls, process, ghosts, Goes, Keys, Refuses, Exit
<1>1. TypeOK'
  <2>1. api' \in {"up", "closing", "down"} /\ boots' \in 0 .. MaxBoots /\ server' \in 0 .. MaxMoves
    BY DEF TypeOK
  <2>2. step' \in [Calls -> {"new", "read", "issue", "row", "write", "supervise", "done"}]
    BY DEF TypeOK
  <2>3. existing' \in [Calls -> Calls \union {None}] /\ row' \in [Calls -> Keys \union {None}]
    BY DEF TypeOK
  <2>4. file' \in [key : Keys \union {None}, server : (0 .. MaxMoves) \union {None}]
    BY DEF TypeOK
  <2>5. supervisor' \in {"none", "on", "stopping"} /\ timer' \in BOOLEAN
    BY DEF TypeOK
  <2>6. child' \in {"none", "starting", "young", "settled"}
    BY DEF TypeOK
  <2>7. stray' \in {"none", "starting", "running", "leaving"}
    BY DEF TypeOK
  <2>8. deaths' \in 0 .. MaxDeaths /\ faults' \in 0 .. MaxFaults
    BY DEF TypeOK
  <2>9. refusals' \in 0 .. MAX_REFUSALS
    BY DEF TypeOK, Waiting, MAX_REFUSALS
  <2>10. tainted' \in BOOLEAN /\ refused' \in BOOLEAN /\ late' \in BOOLEAN /\ crashed' \in BOOLEAN
    BY DEF TypeOK
  <2> QED BY <2>1, <2>2, <2>3, <2>4, <2>5, <2>6, <2>7, <2>8, <2>9, <2>10 DEF TypeOK
<1>2. Left'
  BY DEF Left
<1>3. Provisioned'
  BY Elsewhere
<1>4. Waiting'
  BY DEF Waiting, MAX_REFUSALS, TypeOK
<1>5. QED BY <1>1, <1>2, <1>3, <1>4

\* It dies.
LEMMA DiesStep ==
    ASSUME IInv, Dies
    PROVE  IInv'
<1> USE LocalAgentAssumption DEF IInv, calls, process, ghosts, Goes, Keys, Dies, Exit
<1>1. TypeOK'
  <2>1. api' \in {"up", "closing", "down"} /\ boots' \in 0 .. MaxBoots /\ server' \in 0 .. MaxMoves
    BY DEF TypeOK
  <2>2. step' \in [Calls -> {"new", "read", "issue", "row", "write", "supervise", "done"}]
    BY DEF TypeOK
  <2>3. existing' \in [Calls -> Calls \union {None}] /\ row' \in [Calls -> Keys \union {None}]
    BY DEF TypeOK
  <2>4. file' \in [key : Keys \union {None}, server : (0 .. MaxMoves) \union {None}]
    BY DEF TypeOK
  <2>5. supervisor' \in {"none", "on", "stopping"} /\ timer' \in BOOLEAN
    BY DEF TypeOK
  <2>6. child' \in {"none", "starting", "young", "settled"}
    BY DEF TypeOK
  <2>7. stray' \in {"none", "starting", "running", "leaving"}
    BY DEF TypeOK
  <2>8. deaths' \in 0 .. MaxDeaths /\ faults' \in 0 .. MaxFaults
    BY DEF TypeOK
  <2>9. refusals' \in 0 .. MAX_REFUSALS
    BY DEF TypeOK, Waiting, MAX_REFUSALS
  <2>10. tainted' \in BOOLEAN /\ refused' \in BOOLEAN /\ late' \in BOOLEAN /\ crashed' \in BOOLEAN
    BY DEF TypeOK
  <2> QED BY <2>1, <2>2, <2>3, <2>4, <2>5, <2>6, <2>7, <2>8, <2>9, <2>10 DEF TypeOK
<1>2. Left'
  BY DEF Left
<1>3. Provisioned'
  BY Elsewhere
<1>4. Waiting'
  BY DEF Waiting, MAX_REFUSALS, TypeOK
<1>5. QED BY <1>1, <1>2, <1>3, <1>4

\* A stray takes the lock, or leaves.
LEMMA StrayRunsStep ==
    ASSUME IInv, StrayRuns
    PROVE  IInv'
<1> USE LocalAgentAssumption DEF IInv, calls, process, ghosts, Goes, Keys, StrayRuns
<1>1. TypeOK'
  BY DEF TypeOK, Absent, MAX_REFUSALS
<1>2. Left'
  BY DEF Left
<1>3. Provisioned'
  BY Elsewhere
<1>4. Waiting'
  BY DEF Waiting, MAX_REFUSALS
<1>5. QED BY <1>1, <1>2, <1>3, <1>4

\* A stray leaves.
LEMMA StrayLeavesStep ==
    ASSUME IInv, StrayLeaves
    PROVE  IInv'
<1> USE LocalAgentAssumption DEF IInv, calls, process, ghosts, Goes, Keys, StrayLeaves
<1>1. TypeOK'
  BY DEF TypeOK, Absent, MAX_REFUSALS
<1>2. Left'
  BY DEF Left
<1>3. Provisioned'
  BY Elsewhere
<1>4. Waiting'
  BY DEF Waiting, MAX_REFUSALS
<1>5. QED BY <1>1, <1>2, <1>3, <1>4

\* A stray dies.
LEMMA StrayDiesStep ==
    ASSUME IInv, StrayDies
    PROVE  IInv'
<1> USE LocalAgentAssumption DEF IInv, calls, process, ghosts, Goes, Keys, StrayDies
<1>1. TypeOK'
  BY DEF TypeOK, Absent, MAX_REFUSALS
<1>2. Left'
  BY DEF Left
<1>3. Provisioned'
  BY Elsewhere
<1>4. Waiting'
  BY DEF Waiting, MAX_REFUSALS
<1>5. QED BY <1>1, <1>2, <1>3, <1>4

\* The server starts.
LEMMA BootStep ==
    ASSUME IInv, Boot
    PROVE  IInv'
<1> USE LocalAgentAssumption DEF IInv, calls, process, ghosts, Goes, Keys, Boot
<1>1. TypeOK'
  BY DEF TypeOK, Absent, MAX_REFUSALS
<1>2. Left'
  BY DEF Left
<1>3. Provisioned'
  BY Elsewhere
<1>4. Waiting'
  BY DEF Waiting, MAX_REFUSALS
<1>5. QED BY <1>1, <1>2, <1>3, <1>4

\* The server closes.
LEMMA CloseStep ==
    ASSUME IInv, Close
    PROVE  IInv'
<1> USE LocalAgentAssumption DEF IInv, calls, process, ghosts, Goes, Keys, Close
<1>1. TypeOK'
  <2>1. api' \in {"up", "closing", "down"} /\ boots' \in 0 .. MaxBoots /\ server' \in 0 .. MaxMoves
    BY DEF TypeOK
  <2>2. step' \in [Calls -> {"new", "read", "issue", "row", "write", "supervise", "done"}]
    BY DEF TypeOK
  <2>3. existing' \in [Calls -> Calls \union {None}] /\ row' \in [Calls -> Keys \union {None}]
    BY DEF TypeOK
  <2>4. file' \in [key : Keys \union {None}, server : (0 .. MaxMoves) \union {None}]
    BY DEF TypeOK
  <2>5. supervisor' \in {"none", "on", "stopping"} /\ timer' \in BOOLEAN
    BY DEF TypeOK
  <2>6. child' \in {"none", "starting", "young", "settled"}
    BY DEF TypeOK
  <2>7. stray' \in {"none", "starting", "running", "leaving"}
    BY DEF TypeOK, Abandoned
  <2>8. deaths' \in 0 .. MaxDeaths /\ faults' \in 0 .. MaxFaults
    BY DEF TypeOK
  <2>9. refusals' \in 0 .. MAX_REFUSALS
    BY DEF TypeOK, Waiting, MAX_REFUSALS
  <2>10. tainted' \in BOOLEAN /\ refused' \in BOOLEAN /\ late' \in BOOLEAN /\ crashed' \in BOOLEAN
    BY DEF TypeOK
  <2> QED BY <2>1, <2>2, <2>3, <2>4, <2>5, <2>6, <2>7, <2>8, <2>9, <2>10 DEF TypeOK
<1>2. Left'
  BY DEF Left, Abandoned, TypeOK
<1>3. Provisioned'
  BY Elsewhere
<1>4. Waiting'
  BY DEF Waiting, MAX_REFUSALS
<1>5. QED BY <1>1, <1>2, <1>3, <1>4

\* It has closed.
LEMMA EndedStep ==
    ASSUME IInv, Ended
    PROVE  IInv'
<1> USE LocalAgentAssumption DEF IInv, calls, process, ghosts, Goes, Keys, Ended, Ends
<1>1. TypeOK'
  <2>1. api' \in {"up", "closing", "down"} /\ boots' \in 0 .. MaxBoots /\ server' \in 0 .. MaxMoves
    BY DEF TypeOK
  <2>2. step' \in [Calls -> {"new", "read", "issue", "row", "write", "supervise", "done"}]
    BY DEF TypeOK, Cut
  <2>3. existing' \in [Calls -> Calls \union {None}] /\ row' \in [Calls -> Keys \union {None}]
    BY DEF TypeOK
  <2>4. file' \in [key : Keys \union {None}, server : (0 .. MaxMoves) \union {None}]
    BY DEF TypeOK
  <2>5. supervisor' \in {"none", "on", "stopping"} /\ timer' \in BOOLEAN
    BY DEF TypeOK
  <2>6. child' \in {"none", "starting", "young", "settled"}
    BY DEF TypeOK
  <2>7. stray' \in {"none", "starting", "running", "leaving"}
    BY DEF TypeOK, Abandoned
  <2>8. deaths' \in 0 .. MaxDeaths /\ faults' \in 0 .. MaxFaults
    BY DEF TypeOK
  <2>9. refusals' \in 0 .. MAX_REFUSALS
    BY DEF TypeOK, Waiting, MAX_REFUSALS
  <2>10. tainted' \in BOOLEAN /\ refused' \in BOOLEAN /\ late' \in BOOLEAN /\ crashed' \in BOOLEAN
    BY DEF TypeOK
  <2> QED BY <2>1, <2>2, <2>3, <2>4, <2>5, <2>6, <2>7, <2>8, <2>9, <2>10 DEF TypeOK
<1>2. Left'
  BY DEF Left, Abandoned, TypeOK
<1>3. Provisioned'
  BY DEF TypeOK, Provisioned, Alone, Unique, Along, Matches, UnderWay, Rows, Absent, Cut
<1>4. Waiting'
  BY DEF Waiting, MAX_REFUSALS
<1>5. QED BY <1>1, <1>2, <1>3, <1>4

\* It crashes.
LEMMA CrashStep ==
    ASSUME IInv, Crash
    PROVE  IInv'
<1> USE LocalAgentAssumption DEF IInv, calls, process, ghosts, Goes, Keys, Crash, Ends
<1>1. TypeOK'
  <2>1. api' \in {"up", "closing", "down"} /\ boots' \in 0 .. MaxBoots /\ server' \in 0 .. MaxMoves
    BY DEF TypeOK
  <2>2. step' \in [Calls -> {"new", "read", "issue", "row", "write", "supervise", "done"}]
    BY DEF TypeOK, Cut
  <2>3. existing' \in [Calls -> Calls \union {None}] /\ row' \in [Calls -> Keys \union {None}]
    BY DEF TypeOK
  <2>4. file' \in [key : Keys \union {None}, server : (0 .. MaxMoves) \union {None}]
    BY DEF TypeOK
  <2>5. supervisor' \in {"none", "on", "stopping"} /\ timer' \in BOOLEAN
    BY DEF TypeOK
  <2>6. child' \in {"none", "starting", "young", "settled"}
    BY DEF TypeOK
  <2>7. stray' \in {"none", "starting", "running", "leaving"}
    BY DEF TypeOK, Abandoned
  <2>8. deaths' \in 0 .. MaxDeaths /\ faults' \in 0 .. MaxFaults
    BY DEF TypeOK
  <2>9. refusals' \in 0 .. MAX_REFUSALS
    BY DEF TypeOK, Waiting, MAX_REFUSALS
  <2>10. tainted' \in BOOLEAN /\ refused' \in BOOLEAN /\ late' \in BOOLEAN /\ crashed' \in BOOLEAN
    BY DEF TypeOK
  <2> QED BY <2>1, <2>2, <2>3, <2>4, <2>5, <2>6, <2>7, <2>8, <2>9, <2>10 DEF TypeOK
<1>2. Left'
  BY DEF Left, Abandoned, TypeOK
<1>3. Provisioned'
  BY DEF TypeOK, Provisioned, Alone, Unique, Along, Matches, UnderWay, Rows, Absent, Cut
<1>4. Waiting'
  BY DEF Waiting, MAX_REFUSALS
<1>5. QED BY <1>1, <1>2, <1>3, <1>4

-----------------------------------------------------------------------------
(* The theorems. *)

\* Nothing runs and nothing is provisioned.
LEMMA StartsWell == Init => IInv
<1> USE LocalAgentAssumption DEF Init, Keys
<1>1. Init => TypeOK
  <2>1. Absent \in [key : Keys \union {None}, server : (0 .. MaxMoves) \union {None}]
    BY DEF Absent
  <2>2. 0 \in 0 .. MaxBoots /\ 0 \in 0 .. MaxMoves /\ 0 \in 0 .. MaxDeaths /\ 0 \in 0 .. MaxFaults
    OBVIOUS
  <2>3. 0 \in 0 .. MAX_REFUSALS
    BY DEF MAX_REFUSALS
  <2> QED BY <2>1, <2>2, <2>3 DEF TypeOK
<1>2. Init => Left
  BY DEF Left
<1>3. Init => Provisioned
  BY DEF Provisioned, Alone, Unique, Along, Matches, UnderWay, Rows
<1>4. Init => Waiting
  BY DEF Waiting, MAX_REFUSALS
<1>5. QED BY <1>1, <1>2, <1>3, <1>4 DEF IInv

\* Every step keeps the invariant.
LEMMA Step == IInv /\ [Next]_vars => IInv'
<1> SUFFICES ASSUME IInv, [Next]_vars PROVE IInv'
  OBVIOUS
<1>1. CASE UNCHANGED vars
  <2>1. TypeOK' /\ Left' /\ Waiting'
    BY <1>1 DEF vars, IInv, TypeOK, Left, Waiting, MAX_REFUSALS
  <2>2. Provisioned'
    BY <1>1, Elsewhere DEF vars, IInv
  <2> QED BY <2>1, <2>2 DEF IInv
<1>2. ASSUME NEW c \in Calls, Begin(c) PROVE IInv'
  BY <1>2, BeginStep
<1>3. ASSUME NEW c \in Calls, Read(c) PROVE IInv'
  BY <1>3, ReadStep
<1>4. ASSUME NEW c \in Calls, Issue(c) PROVE IInv'
  BY <1>4, IssueStep
<1>5. ASSUME NEW c \in Calls, Register(c) PROVE IInv'
  BY <1>5, RegisterStep
<1>6. ASSUME NEW c \in Calls, WriteConfig(c) PROVE IInv'
  BY <1>6, WriteConfigStep
<1>7. ASSUME NEW c \in Calls, Supervise(c) PROVE IInv'
  BY <1>7, SuperviseStep
<1>8. ASSUME NEW c \in Calls, WriteFails(c) PROVE IInv'
  BY <1>8, WriteFailsStep
<1>9. ASSUME NEW c \in Calls, CallFails(c) PROVE IInv'
  BY <1>9, CallFailsStep
<1>10. CASE Wiped
  BY <1>10, WipedStep
<1>11. CASE Start
  BY <1>11, StartStep
<1>12. CASE SpawnFails
  BY <1>12, SpawnFailsStep
<1>13. CASE Runs
  BY <1>13, RunsStep
<1>14. CASE Settles
  BY <1>14, SettlesStep
<1>15. CASE Refuses
  BY <1>15, RefusesStep
<1>16. CASE Dies
  BY <1>16, DiesStep
<1>17. CASE StrayRuns
  BY <1>17, StrayRunsStep
<1>18. CASE StrayLeaves
  BY <1>18, StrayLeavesStep
<1>19. CASE StrayDies
  BY <1>19, StrayDiesStep
<1>20. CASE Boot
  BY <1>20, BootStep
<1>21. CASE Close
  BY <1>21, CloseStep
<1>22. CASE Ended
  BY <1>22, EndedStep
<1>23. CASE Crash
  BY <1>23, CrashStep
<1>24. QED BY <1>1, <1>2, <1>3, <1>4, <1>5, <1>6, <1>7, <1>8, <1>9, <1>10, <1>11, <1>12, <1>13, <1>14, <1>15, <1>16, <1>17, <1>18, <1>19, <1>20, <1>21, <1>22, <1>23 DEF Next, Call

\* The invariant holds in every state of every behaviour.
LEMMA Always == Spec => []IInv
BY StartsWell, Step, PTL DEF Spec

\* Types, of the calls, the row, the file and the processes.
THEOREM Types == Spec => []TypeOK
<1>1. IInv => TypeOK BY DEF IInv
<1>2. QED BY <1>1, Always, PTL

\* One row, and agent.toml holds its key (local-agent.ts, ensureLocalAgent).
THEOREM OneAgent == Spec => []KeyIsItsRow
<1>1. IInv => KeyIsItsRow BY DEF IInv, KeyIsItsRow, Provisioned, Unique, Matches
<1>2. QED BY <1>1, Always, PTL

\* A server that closes takes its agent with it (plugins/local-agent.ts).
THEOREM ClosedIsQuiet == Spec => []StopsWithItsServer
<1>1. IInv => StopsWithItsServer BY DEF IInv, Left, StopsWithItsServer
<1>2. QED BY <1>1, Always, PTL
=============================================================================
