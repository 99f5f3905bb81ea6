------------------------- MODULE AgentRunner_proofs -------------------------
(***************************************************************************)
(* Proofs about the agent's loop and its two files, for any length of the  *)
(* queue and of a chunk, and any number of points, instructions and        *)
(* faults.                                                                 *)
(***************************************************************************)
EXTENDS AgentRunner, TLAPS

\* Before the queue is opened there is none in memory.
Unopened == pc \in {"down", "boot", "open"} \/ booting

\* Points without a reason to be gone.
Excused == {p \in Points : fate[p] # "none"}

\* Where memory and file may differ: nothing is measured and not queued but in
\* the middle of an iteration; the queue is in its file unless there is a reason
\* why not; and what only the file still holds arrived, or made room.
Settled ==
    /\ booting => pc = "apply"
    /\ pc # "measure" => Range(batch) = {}
    /\ Unopened => Range(queue) = {}
    /\ unsaved = "saved" /\ pc \notin {"flush", "sending"} => Range(queue) \subseteq Range(disk)
    /\ ~Unopened => Range(disk) \subseteq Range(queue) \union received \union Excused

\* NothingLostQuietly, for the points that are not measured yet as well.
Accounted ==
    /\ 1 .. measured \subseteq Kept \union received \union Excused
    /\ \A p \in Points : fate[p] # "saved"

IInv == TypeOK /\ Settled /\ Accounted

-----------------------------------------------------------------------------
(* Sequences of points. *)

LEMMA RangeOfSeq ==
    ASSUME NEW S, NEW s \in Seq(S)
    PROVE  /\ Range(s) = {s[i] : i \in 1 .. Len(s)} /\ Range(s) \subseteq S
           /\ \A i \in 1 .. Len(s) : s[i] \in Range(s)
           /\ \A x \in Range(s) : \E i \in 1 .. Len(s) : x = s[i]
BY DEF Range

LEMMA RangeOfConcat ==
    ASSUME NEW S, NEW s \in Seq(S), NEW t \in Seq(S)
    PROVE  s \o t \in Seq(S) /\ Range(s \o t) = Range(s) \union Range(t)
<1>1. s \o t \in Seq(S) /\ Len(s \o t) = Len(s) + Len(t)
  OBVIOUS
<1>2. ASSUME NEW i \in 1 .. Len(s) PROVE (s \o t)[i] = s[i] /\ i \in 1 .. Len(s \o t)
  BY <1>1
<1>3. ASSUME NEW i \in 1 .. Len(t) PROVE (s \o t)[Len(s) + i] = t[i] /\ Len(s) + i \in 1 .. Len(s \o t)
  BY <1>1
<1>4. ASSUME NEW x \in Range(s) PROVE x \in Range(s \o t)
  <2>1. PICK i \in 1 .. Len(s) : x = s[i]
    BY RangeOfSeq
  <2> QED BY <1>1, <1>2, <2>1, RangeOfSeq
<1>5. ASSUME NEW x \in Range(t) PROVE x \in Range(s \o t)
  <2>1. PICK i \in 1 .. Len(t) : x = t[i]
    BY RangeOfSeq
  <2> QED BY <1>1, <1>3, <2>1, RangeOfSeq
<1>6. ASSUME NEW x \in Range(s \o t) PROVE x \in Range(s) \union Range(t)
  <2>1. PICK i \in 1 .. Len(s \o t) : x = (s \o t)[i]
    BY <1>1, RangeOfSeq
  <2>2. CASE i <= Len(s)
    <3>1. i \in 1 .. Len(s)
      BY <2>2
    <3> QED BY <3>1, <1>2, <2>1, RangeOfSeq
  <2>3. CASE i > Len(s)
    <3>1. i - Len(s) \in 1 .. Len(t) /\ i = Len(s) + (i - Len(s))
      BY <1>1, <2>3
    <3>2. x = t[i - Len(s)]
      BY <3>1, <1>3, <2>1
    <3> QED BY <3>1, <3>2, RangeOfSeq
  <2> QED BY <1>1, <2>2, <2>3
<1> QED BY <1>1, <1>4, <1>5, <1>6

LEMMA RangeOfEmpty == Range(<<>>) = {} /\ \A S : <<>> \in Seq(S)
BY DEF Range

\* A chunk and what follows it are the whole queue.
LEMMA FirstAndRest ==
    ASSUME NEW S, NEW s \in Seq(S), NEW n \in Nat
    PROVE  /\ First(n, s) \in Seq(S) /\ Rest(n, s) \in Seq(S)
           /\ Range(s) = Range(First(n, s)) \union Range(Rest(n, s))
<1> DEFINE k == IF Len(s) < n THEN Len(s) ELSE n
<1>1. k \in 0 .. Len(s)
  OBVIOUS
<1>2. First(n, s) \in Seq(S) /\ Len(First(n, s)) = k /\ \A i \in 1 .. k : First(n, s)[i] = s[i]
  BY DEF First
<1>3. /\ Rest(n, s) \in Seq(S) /\ Len(Rest(n, s)) = Len(s) - k
      /\ \A i \in 1 .. Len(s) - k : Rest(n, s)[i] = s[k + i]
  <2>1. Rest(n, s) = SubSeq(s, k + 1, Len(s))
    BY <1>2 DEF Rest
  <2> HIDE DEF k
  <2> QED BY <1>1, <2>1
<1> HIDE DEF k
<1>4. ASSUME NEW x \in Range(First(n, s)) PROVE x \in Range(s)
  <2>1. PICK i \in 1 .. k : x = s[i]
    BY <1>2, RangeOfSeq
  <2>2. i \in 1 .. Len(s)
    BY <1>1
  <2> QED BY <2>1, <2>2, RangeOfSeq
<1>5. ASSUME NEW x \in Range(Rest(n, s)) PROVE x \in Range(s)
  <2>1. PICK i \in 1 .. Len(s) - k : x = s[k + i]
    BY <1>3, RangeOfSeq
  <2>2. k + i \in 1 .. Len(s)
    BY <1>1
  <2> QED BY <2>1, <2>2, RangeOfSeq
<1>6. ASSUME NEW x \in Range(s) PROVE x \in Range(First(n, s)) \union Range(Rest(n, s))
  <2>1. PICK i \in 1 .. Len(s) : x = s[i]
    BY RangeOfSeq
  <2>2. CASE i <= k
    <3>1. i \in 1 .. k
      BY <1>1, <2>2
    <3> QED BY <3>1, <2>1, <1>2, RangeOfSeq
  <2>3. CASE i > k
    <3>1. i - k \in 1 .. Len(s) - k /\ k + (i - k) = i
      BY <1>1, <2>3
    <3>2. x = Rest(n, s)[i - k]
      BY <3>1, <2>1, <1>3
    <3> QED BY <3>1, <3>2, <1>3, RangeOfSeq
  <2> QED BY <1>1, <2>2, <2>3
<1> QED BY <1>2, <1>3, <1>4, <1>5, <1>6

\* What is left when the oldest make room.
LEMMA NewestOf ==
    ASSUME RunnerAssumption, NEW S, NEW s \in Seq(S)
    PROVE  Newest(s) \in Seq(S) /\ Range(Newest(s)) \subseteq Range(s)
<1> DEFINE k == IF Len(s) > QueueLimit THEN Len(s) - QueueLimit ELSE 0
<1>1. k \in 0 .. Len(s)
  BY DEF RunnerAssumption
<1>2. /\ Newest(s) \in Seq(S) /\ Len(Newest(s)) = Len(s) - k
      /\ \A i \in 1 .. Len(s) - k : Newest(s)[i] = s[k + i]
  <2>1. Newest(s) = SubSeq(s, k + 1, Len(s))
    BY DEF Newest, RunnerAssumption
  <2> HIDE DEF k
  <2> QED BY <1>1, <2>1
<1> HIDE DEF k
<1>3. ASSUME NEW x \in Range(Newest(s)) PROVE x \in Range(s)
  <2>1. PICK i \in 1 .. Len(s) - k : x = s[k + i]
    BY <1>2, RangeOfSeq
  <2>2. k + i \in 1 .. Len(s)
    BY <1>1
  <2> QED BY <2>1, <2>2, RangeOfSeq
<1> QED BY <1>2, <1>3

\* The server has the whole chunk once it arrived, and forgets nothing.
LEMMA ArriveFacts ==
    ASSUME RunnerAssumption, TypeOK, Arrive
    PROVE  /\ arrivals' \in Seq(Points)
           /\ received' = received \union Range(First(Chunk, queue))
<1> DEFINE chunk == First(Chunk, queue)
           new   == {i \in DOMAIN chunk : chunk[i] \notin received}
<1>1. chunk \in Seq(Points)
  BY FirstAndRest DEF TypeOK, RunnerAssumption
<1>2. PICK n \in 0 .. Len(chunk) : \E f \in [1 .. n -> new] :
            Range(f) = new /\ arrivals' = arrivals \o [i \in 1 .. n |-> chunk[f[i]]]
  BY DEF Arrive
<1>3. PICK f \in [1 .. n -> new] :
            Range(f) = new /\ arrivals' = arrivals \o [i \in 1 .. n |-> chunk[f[i]]]
  BY <1>2
<1> DEFINE s == [i \in 1 .. n |-> chunk[f[i]]]
<1>4. n \in Nat /\ \A i \in 1 .. n : chunk[f[i]] \in Points
  BY <1>1
<1>5. s \in Seq(Points) /\ Len(s) = n
  BY <1>4
<1>6. Range(s) = Range(chunk) \ received
  <2>1. Range(s) = {chunk[f[i]] : i \in 1 .. n}
    BY DEF Range
  <2>2. new = {f[i] : i \in 1 .. n}
    BY <1>3 DEF Range
  <2>3. Range(chunk) = {chunk[i] : i \in DOMAIN chunk}
    BY DEF Range
  <2> HIDE DEF chunk, s, received
  <2> QED BY <2>1, <2>2, <2>3
<1>7. arrivals \in Seq(Points) /\ arrivals' = arrivals \o s
  BY <1>3 DEF TypeOK
<1> HIDE DEF s, chunk
<1>8. arrivals' \in Seq(Points) /\ Range(arrivals') = Range(arrivals) \union Range(s)
  BY <1>5, <1>7, RangeOfConcat
<1> QED BY <1>6, <1>8 DEF received, chunk

-----------------------------------------------------------------------------
(* What steps have in common. *)

\* What Mourn says: a point that is gone is excused, and no excuse is taken back.
LEMMA MournFacts ==
    ASSUME TypeOK, NEW cause \in Reasons \union {"crash", "term", "status"}, Mourn(cause)
    PROVE  /\ fate' \in [Points -> Fates]
           /\ Excused \subseteq Excused'
           /\ (Kept \intersect Points) \ (Kept' \union received') \subseteq Excused'
           /\ \A p \in Points : fate'[p] = "saved" =>
                 fate[p] = "saved" \/ (cause = "saved" /\ p \in Kept \ (Kept' \union received'))
<1>1. fate \in [Points -> Fates]
  BY DEF TypeOK
<1> HIDE DEF Kept, received
<1>2. fate' = [p \in Points |-> IF p \in Kept \ (Kept' \union received') THEN cause ELSE fate[p]]
  BY DEF Mourn
<1>3. cause \in Fates /\ cause # "none"
  BY DEF Reasons, Fates
<1>4. \A p \in Points : fate'[p] = IF p \in Kept \ (Kept' \union received') THEN cause ELSE fate[p]
  BY <1>2
<1>5. fate' \in [Points -> Fates]
  BY <1>1, <1>2, <1>3
<1>6. Excused \subseteq Excused'
  BY <1>3, <1>4 DEF Excused
<1>7. (Kept \intersect Points) \ (Kept' \union received') \subseteq Excused'
  BY <1>3, <1>4 DEF Excused
<1> QED BY <1>4, <1>5, <1>6, <1>7

\* Points are points.
LEMMA Ranges ==
    ASSUME TypeOK
    PROVE  /\ Range(batch) \subseteq Points /\ Range(queue) \subseteq Points
           /\ Range(disk) \subseteq Points /\ Range(legacy) \subseteq Points
           /\ received \subseteq Points /\ 1 .. measured \subseteq Points
<1>1. /\ batch \in Seq(Points) /\ queue \in Seq(Points) /\ disk \in Seq(Points)
      /\ legacy \in Seq(Points) /\ arrivals \in Seq(Points) /\ measured \in 0 .. MaxPoints
  BY DEF TypeOK
<1>2. 1 .. measured \subseteq Points
  BY <1>1, RunnerAssumption DEF RunnerAssumption, Points
<1> QED BY <1>1, <1>2, RangeOfSeq DEF received

\* No point moves.
LEMMA Still ==
    ASSUME IInv, UNCHANGED <<batch, queue, disk, legacy, measured, arrivals, fate, unsaved>>,
           booting' => pc' = "apply",
           pc = "measure" => pc' = "measure",
           Unopened' <=> Unopened,
           pc \in {"flush", "sending"} => pc' \in {"flush", "sending"}
    PROVE  Settled' /\ Accounted'
<1>1. Kept' = Kept /\ received' = received /\ Excused' = Excused
  BY DEF Kept, received, Excused
<1> QED BY <1>1 DEF IInv, Settled, Accounted

\* The process is gone, and with it what was in no file.
LEMMA Gone ==
    ASSUME IInv, Dies, TypeOK', NEW cause \in Reasons \union {"crash", "term", "status"}, Mourn(cause),
           cause = "saved" => Kept \subseteq Kept' \union received'
    PROVE  Settled' /\ Accounted'
<1> USE DEF IInv, Dies
<1>1. Range(batch') = {} /\ Range(queue') = {} /\ received' = received /\ measured' = measured
  BY RangeOfEmpty DEF received
<1>2. Settled'
  BY <1>1 DEF Settled, Unopened
<1>3. 1 .. measured \subseteq Kept' \union received' \union Excused'
  <2> HIDE DEF Kept, received, Excused, Dies
  <2> QED BY <1>1, Ranges, MournFacts DEF Accounted
<1>4. \A p \in Points : fate'[p] # "saved"
  <2> HIDE DEF Kept, received, Excused, Dies
  <2> QED BY MournFacts DEF Accounted
<1> QED BY <1>1, <1>2, <1>3, <1>4 DEF Accounted

-----------------------------------------------------------------------------
(* The steps that end a process. *)

LEMMA DiesTypes ==
    ASSUME TypeOK, Dies, disk' \in Seq(Points), file' \in States \union {"torn"}, unsaved' \in Reasons,
           fate' \in [Points -> Fates], told' \in States \union {"none"},
           refused' \in States \union {"none"}, faults' \in 0 .. MaxFaults
    PROVE  TypeOK'
BY RangeOfEmpty DEF TypeOK, Dies, Places

LEMMA FaultType ==
    ASSUME TypeOK, Fault
    PROVE  faults' \in 0 .. MaxFaults
BY RunnerAssumption DEF RunnerAssumption, TypeOK, Fault

LEMMA CrashStep ==
    ASSUME IInv, Crash
    PROVE  IInv'
<1> USE DEF IInv, Crash
<1>1. TypeOK'
  BY FaultType, RangeOfEmpty, MournFacts, DiesTypes DEF TypeOK, Reasons
<1> QED BY <1>1, Gone

LEMMA KillStep ==
    ASSUME IInv, Kill
    PROVE  IInv'
<1> USE DEF IInv, Kill
<1> DEFINE cause == IF unsaved \in {"legacy", "disk"} THEN unsaved ELSE "term"
<1>1. cause \in Reasons \union {"crash", "term", "status"} /\ cause # "saved" /\ Mourn(cause)
  BY DEF Reasons
<1> HIDE DEF cause
<1>2. TypeOK'
  <2>1. fate' \in [Points -> Fates]
    BY <1>1, MournFacts
  <2> QED BY <2>1, DiesTypes DEF TypeOK, Reasons
<1> QED BY <1>1, <1>2, Gone

LEMMA TermHeardStep ==
    ASSUME IInv, TermHeard
    PROVE  IInv'
<1> USE DEF IInv, TermHeard
<1>1. TypeOK'
  <2>1. faults' \in 0 .. MaxFaults
    BY RunnerAssumption DEF RunnerAssumption, TypeOK, Fault
  <2>2. fate' \in [Points -> Fates] /\ disk' \in Seq(Points)
    BY MournFacts, RangeOfEmpty DEF TypeOK, Reasons
  <2> QED BY <2>1, <2>2, DiesTypes DEF TypeOK, Reasons
<1> QED BY <1>1, Gone DEF Reasons

\* A restart leaves nothing behind that is not in the file, or says why.
LEMMA LeaveStep ==
    ASSUME IInv, Leave
    PROVE  IInv'
<1> USE DEF IInv, Leave
<1>1. unsaved \in Reasons
  BY DEF TypeOK
<1>2. TypeOK'
  <2>1. fate' \in [Points -> Fates]
    BY <1>1, MournFacts
  <2> QED BY <2>1, DiesTypes DEF TypeOK, Reasons
<1>3. ASSUME unsaved = "saved" PROVE Kept \subseteq Kept' \union received'
  BY <1>3 DEF Kept, Dies, Settled
<1> QED BY <1>1, <1>2, <1>3, Gone

-----------------------------------------------------------------------------
(* The steps that leave the points where they are. *)

LEMMA StartStep ==
    ASSUME IInv, Start
    PROVE  IInv'
<1> USE DEF IInv, Start, flags, orders, points, saved
<1>1. TypeOK'
  BY DEF TypeOK, States, Places
<1>2. Unopened' <=> Unopened
  BY DEF Unopened
<1>3. booting' => pc' = "apply"
  BY DEF Settled
<1> QED BY <1>1, <1>2, <1>3, Still

LEMMA AskStep ==
    ASSUME IInv, NEW k \in AskedKinds, Ask(k)
    PROVE  IInv'
<1> USE DEF IInv, Ask, flags, config, points, saved
<1>1. TypeOK'
  BY RunnerAssumption DEF TypeOK, RunnerAssumption
<1>2. (Unopened' <=> Unopened) /\ (booting' => pc' = "apply")
  BY DEF Unopened, Settled
<1> QED BY <1>1, <1>2, Still

LEMMA PolledStep ==
    ASSUME IInv, Polled
    PROVE  IInv'
<1> USE DEF IInv, Polled, config, points, saved
<1>1. TypeOK'
  BY DEF TypeOK, Places
<1>2. (Unopened' <=> Unopened) /\ (booting' => pc' = "apply")
  BY DEF Unopened, Settled
<1> QED BY <1>1, <1>2, Still

LEMMA PollFailsStep ==
    ASSUME IInv, PollFails
    PROVE  IInv'
<1> USE DEF IInv, PollFails, flags, config, orders, points, saved
<1>1. TypeOK'
  BY DEF TypeOK, Places
<1>2. (Unopened' <=> Unopened) /\ (booting' => pc' = "apply")
  BY DEF Unopened, Settled
<1> QED BY <1>1, <1>2, Still

LEMMA TermSwallowedStep ==
    ASSUME IInv, TermSwallowed
    PROVE  IInv'
<1> USE DEF IInv, TermSwallowed, config, orders, points, saved
<1>1. TypeOK'
  BY FaultType DEF TypeOK
<1>2. (Unopened' <=> Unopened) /\ (booting' => pc' = "apply")
  BY DEF Unopened, Settled
<1> QED BY <1>1, <1>2, Still

LEMMA CarryStep ==
    ASSUME IInv, NEW k \in Kinds, Carry(k)
    PROVE  IInv'
<1> USE DEF IInv, Carry, flags, config, points, saved
<1>1. TypeOK'
  <2>1. /\ mem' \in States /\ file' \in States \union {"torn"}
        /\ told' \in States \union {"none"} /\ refused' \in States \union {"none"}
    BY DEF TypeOK, SetState, StateOf, States, Kinds
  <2>2. faults' \in 0 .. MaxFaults
    BY FaultType DEF SetState, TypeOK
  <2> QED BY <2>1, <2>2 DEF TypeOK
<1>2. (Unopened' <=> Unopened) /\ (booting' => pc' = "apply")
  BY DEF Unopened, Settled
<1> QED BY <1>1, <1>2, Still

LEMMA AppliedStep ==
    ASSUME IInv, Applied
    PROVE  IInv'
<1> USE DEF IInv, Applied
<1>1. CASE pc' # "down"
  <2>1. TypeOK'
    BY <1>1, FaultType DEF TypeOK, Places, flags, orders, points, Dies
  <2>2. (Unopened' <=> Unopened) /\ (booting' => pc' = "apply")
    BY <1>1 DEF Unopened, Settled, flags, Dies
  <2>3. UNCHANGED <<batch, queue, disk, legacy, measured, arrivals, fate, unsaved>>
    BY <1>1 DEF points, Dies
  <2> QED BY <2>1, <2>2, <2>3, Still
<1>2. CASE pc' = "down"
  <2>1. Dies /\ booting /\ UNCHANGED <<unsaved, fate, disk>> /\ Fault /\ file' \in {file, "torn"}
    BY <1>2 DEF flags
  <2>2. TypeOK'
    BY <2>1, FaultType, DiesTypes DEF TypeOK
  <2>3. Range(batch) = {} /\ Range(queue) = {} /\ Range(batch') = {} /\ Range(queue') = {}
    BY <2>1, RangeOfEmpty DEF Settled, Unopened, Dies
  <2>4. Kept' = Kept /\ received' = received /\ Excused' = Excused /\ measured' = measured
    BY <2>1, <2>3 DEF Kept, received, Excused, Dies
  <2>5. Settled'
    BY <2>1, <2>3 DEF Settled, Unopened, Dies
  <2>6. Accounted'
    BY <2>1, <2>4 DEF Accounted
  <2> QED BY <2>2, <2>5, <2>6
<1> QED BY <1>1, <1>2

LEMMA ShellResumeStep ==
    ASSUME IInv, ShellResume
    PROVE  IInv'
<1> USE DEF IInv, ShellResume, flags, orders, points, saved
<1>1. TypeOK'
  BY DEF TypeOK, States
<1>2. (Unopened' <=> Unopened) /\ (booting' => pc' = "apply")
  BY DEF Unopened, Settled
<1> QED BY <1>1, <1>2, Still

LEMMA TurnStep ==
    ASSUME IInv, Turn
    PROVE  IInv'
<1> USE DEF IInv, Turn, flags, config, orders, points, saved
<1>1. TypeOK'
  BY DEF TypeOK, Places
<1>2. (Unopened' <=> Unopened) /\ (booting' => pc' = "apply")
  BY DEF Unopened, Settled
<1> QED BY <1>1, <1>2, Still

LEMMA HoldExpiresStep ==
    ASSUME IInv, HoldExpires
    PROVE  IInv'
<1> USE DEF IInv, HoldExpires, flags, config, orders, points, saved
<1>1. TypeOK'
  BY DEF TypeOK
<1>2. (Unopened' <=> Unopened) /\ (booting' => pc' = "apply")
  BY DEF Unopened, Settled
<1> QED BY <1>1, <1>2, Still

-----------------------------------------------------------------------------
(* The steps that move points. *)

LEMMA OpenStep ==
    ASSUME IInv, Open
    PROVE  IInv'
<1> USE DEF IInv, Open, flags, config, orders, points
<1>1. TypeOK'
  BY RangeOfEmpty, RangeOfConcat DEF TypeOK, Places, Reasons
<1>2. Range(queue') = Range(legacy) \union Range(disk) /\ Range(legacy') = {}
  BY RangeOfConcat, RangeOfEmpty DEF TypeOK
<1>3. Range(queue) = {} /\ ~booting
  BY DEF Settled, Unopened
<1>4. Kept' = Kept /\ received' = received /\ Excused' = Excused
  BY <1>2, <1>3 DEF Kept, received, Excused
<1>5. unsaved' = "saved" => Range(queue') \subseteq Range(disk')
  BY <1>2, RangeOfEmpty
<1>6. Range(disk') \subseteq Range(queue')
  BY <1>2
<1>7. Settled'
  BY <1>3, <1>5, <1>6 DEF Settled, Unopened
<1> QED BY <1>1, <1>4, <1>7 DEF Accounted

LEMMA StatusStep ==
    ASSUME IInv, Status
    PROVE  IInv'
<1> USE DEF IInv, Status, flags, config, orders, points, saved
<1>1. TypeOK'
  BY RangeOfEmpty, MournFacts DEF TypeOK
<1>2. received' = received /\ measured' = measured
  BY DEF received
<1>3. Settled'
  <2>1. Excused \subseteq Excused'
    BY MournFacts
  <2> HIDE DEF Excused, received
  <2> QED BY <1>2, <2>1 DEF Settled, Unopened
<1>4. Accounted'
  <2>1. Mourn("status")
    OBVIOUS
  <2> HIDE DEF Kept, received, Excused, Status
  <2> QED BY <1>2, <2>1, Ranges, MournFacts DEF Accounted
<1> QED BY <1>1, <1>3, <1>4

LEMMA MeasureStep ==
    ASSUME IInv, Measure
    PROVE  IInv'
<1> USE DEF IInv, Measure, flags, config, orders, saved
<1>1. measured' \in Points /\ measured' \in 0 .. MaxPoints /\ 1 .. measured' = 1 .. measured \union {measured'}
  <2>1. measured \in Nat /\ MaxPoints \in Nat /\ measured < MaxPoints /\ measured' = measured + 1
    BY RunnerAssumption DEF TypeOK, RunnerAssumption
  <2> QED BY <2>1 DEF Points
<1>2. batch' \in Seq(Points) /\ Range(batch') = Range(batch) \union {measured'}
  <2>1. batch \in Seq(Points) /\ batch' = batch \o <<measured'>> /\ <<measured'>> \in Seq(Points)
    BY <1>1 DEF TypeOK
  <2>2. Range(<<measured'>>) = {measured'}
    BY DEF Range
  <2> DEFINE point == <<measured'>>
  <2> HIDE DEF IInv, Measure, point
  <2>3. batch \in Seq(Points) /\ point \in Seq(Points) /\ batch' = batch \o point
    BY <2>1 DEF point
  <2>4. batch \o point \in Seq(Points) /\ Range(batch \o point) = Range(batch) \union Range(point)
    BY <2>3, RangeOfConcat
  <2> QED BY <2>2, <2>3, <2>4 DEF point
<1>3. TypeOK'
  BY <1>1, <1>2 DEF TypeOK
<1>4. Kept' = Kept \union {measured'} /\ received' = received /\ Excused' = Excused
  BY <1>2 DEF Kept, received, Excused
<1>5. Settled'
  BY <1>4 DEF Settled, Unopened
<1>6. Accounted'
  BY <1>1, <1>4 DEF Accounted
<1> QED BY <1>3, <1>5, <1>6

LEMMA PushStep ==
    ASSUME IInv, Push
    PROVE  IInv'
<1> USE DEF IInv, Push, flags, config, orders, saved
<1>1. batch \in Seq(Points) /\ queue \in Seq(Points)
  BY DEF TypeOK
<1>2. queue \o batch \in Seq(Points) /\ Range(queue \o batch) = Range(queue) \union Range(batch)
  BY <1>1, RangeOfConcat
<1>3. /\ queue' \in Seq(Points) /\ Range(batch') = {} /\ batch' \in Seq(Points)
      /\ Range(queue') \subseteq Range(queue) \union Range(batch)
  BY <1>1, <1>2, NewestOf, RunnerAssumption, RangeOfEmpty
<1>4. fate \in [Points -> Fates] /\ Range(queue) \union Range(batch) \subseteq Points
  BY Ranges DEF TypeOK
<1>5. \A p \in Points : fate'[p] = IF p \in (Range(queue) \union Range(batch)) \ (Range(queue') \union received)
                                   THEN "evicted" ELSE fate[p]
  <2> HIDE DEF received
  <2> QED BY <1>2 DEF Evict
<1>6. fate' \in [Points -> Fates]
  <2> HIDE DEF received
  <2> QED BY <1>2, <1>4 DEF Evict, Fates
<1>7. TypeOK'
  BY <1>3, <1>6 DEF TypeOK, Places
<1>8. received' = received /\ measured' = measured
  BY DEF received
<1>9. Range(queue) \union Range(batch) \subseteq Range(queue') \union received' \union Excused'
  <2> HIDE DEF received, Push
  <2> QED BY <1>4, <1>5, <1>8 DEF Excused
<1>10. Excused \subseteq Excused'
  <2> HIDE DEF received, Push
  <2> QED BY <1>5 DEF Excused
<1>11. Settled'
  <2> HIDE DEF received, Excused
  <2> QED BY <1>3, <1>8, <1>9, <1>10 DEF Settled, Unopened
<1>12. Accounted'
  <2>1. \A p \in Points : fate'[p] # "saved"
    <3> HIDE DEF received, Push
    <3> QED BY <1>5 DEF Accounted
  <2>2. Kept \subseteq Kept' \union received' \union Excused'
    <3> HIDE DEF received, Excused
    <3> QED BY <1>9 DEF Kept
  <2> HIDE DEF received, Excused, Kept, Push
  <2> QED BY <1>8, <1>10, <2>1, <2>2 DEF Accounted
<1> QED BY <1>7, <1>11, <1>12

LEMMA FlushStep ==
    ASSUME IInv, Flush
    PROVE  IInv'
<1> USE DEF IInv, Flush, flags, config, orders, points
<1>1. TypeOK'
  BY DEF TypeOK, Places, Reasons
<1>2. Kept' = Kept /\ received' = received /\ Excused' = Excused
  BY DEF Kept, received, Excused
<1>3. Settled'
  <2>1. unsaved' = "saved" /\ pc' = "top" => Range(queue') \subseteq Range(disk')
    BY RangeOfEmpty
  <2> QED BY <1>2, <2>1 DEF Settled, Unopened
<1>4. Accounted'
  BY <1>2 DEF Accounted
<1> QED BY <1>1, <1>3, <1>4

\* What both outcomes of a send leave: nothing is dropped that did not arrive.
LEMMA SendStep ==
    ASSUME IInv, pc = "sending", pc' = "top", Persist,
           UNCHANGED <<flags, config, orders, points, legacy, fate>>, hold' \in BOOLEAN,
           arrivals' \in Seq(Points), queue' \in Seq(Points), received \subseteq received',
           Range(queue') \subseteq Range(queue), Range(queue) \subseteq Range(queue') \union received'
    PROVE  IInv'
<1> USE DEF IInv, flags, config, orders, points
<1>1. TypeOK'
  <2>1. disk' \in Seq(Points) /\ unsaved' \in Reasons
    BY RangeOfEmpty DEF TypeOK, Reasons, Persist
  <2>2. faults' \in 0 .. MaxFaults
    BY FaultType DEF TypeOK, Persist
  <2> QED BY <2>1, <2>2 DEF TypeOK, Places
<1>2. Range(disk') \subseteq Range(queue') \union Range(disk)
  BY RangeOfEmpty DEF Persist
<1>3. Excused' = Excused /\ measured' = measured /\ Range(batch) = {} /\ Range(batch') = {}
  BY DEF Excused, Settled
<1>4. ~Unopened /\ ~Unopened'
  BY DEF Unopened, Settled
<1>5. Range(disk) \subseteq Range(queue) \union received \union Excused
  BY <1>4 DEF Settled
<1>6. Settled'
  <2>1. unsaved' = "saved" => disk' = queue'
    BY DEF Persist
  <2> HIDE DEF received, Excused, Unopened
  <2> QED BY <1>2, <1>3, <1>4, <1>5, <2>1 DEF Settled
<1>7. Accounted'
  <2> HIDE DEF received, Excused
  <2> QED BY <1>3, <1>5 DEF Accounted, Kept
<1> QED BY <1>1, <1>6, <1>7

LEMMA SentStep ==
    ASSUME IInv, Sent
    PROVE  IInv'
<1> USE DEF IInv, Sent
<1>1. queue \in Seq(Points) /\ Chunk \in Nat
  BY RunnerAssumption DEF TypeOK, RunnerAssumption
<1>2. /\ queue' \in Seq(Points)
      /\ Range(queue) = Range(First(Chunk, queue)) \union Range(queue')
  BY <1>1, FirstAndRest
<1>3. arrivals' \in Seq(Points) /\ received' = received \union Range(First(Chunk, queue))
  BY ArriveFacts, RunnerAssumption
<1> HIDE DEF received, IInv
<1> QED BY <1>2, <1>3, SendStep

LEMMA NotSentStep ==
    ASSUME IInv, NotSent
    PROVE  IInv'
<1> USE DEF IInv, NotSent
<1>1. arrivals' \in Seq(Points) /\ received \subseteq received'
  BY ArriveFacts, RunnerAssumption DEF TypeOK, received
<1>2. queue' \in Seq(Points) /\ queue' = queue
  BY DEF TypeOK
<1> HIDE DEF received, IInv
<1> QED BY <1>1, <1>2, SendStep

-----------------------------------------------------------------------------
(* The theorems. *)

LEMMA Start0 ==
    ASSUME RunnerAssumption, Init
    PROVE  IInv
<1> USE DEF Init
<1>1. 1 \in Points /\ 2 \in Points /\ 2 \in 0 .. MaxPoints
  BY DEF RunnerAssumption, Points
<1>2. <<1>> \in Seq(Points) /\ <<2>> \in Seq(Points) /\ <<>> \in Seq(Points)
  BY <1>1
<1>3. TypeOK
  <2>1. /\ batch \in Seq(Points) /\ queue \in Seq(Points) /\ disk \in Seq(Points)
        /\ legacy \in Seq(Points) /\ arrivals \in Seq(Points)
    BY <1>2
  <2>2. measured \in 0 .. MaxPoints /\ asks \in 0 .. MaxAsks /\ faults \in 0 .. MaxFaults
    BY <1>1 DEF RunnerAssumption
  <2>3. fate \in [Points -> Fates]
    BY DEF Fates
  <2> QED BY <2>1, <2>2, <2>3 DEF TypeOK, Places, States, Reasons
<1>4. Range(<<>>) = {} /\ Range(<<1>>) = {1} /\ Range(<<2>>) = {2}
  BY DEF Range
<1>5. Settled
  BY <1>4 DEF Settled, Unopened
<1>6. Accounted
  <2>1. CASE measured = 0
    BY <2>1 DEF Accounted
  <2>2. CASE measured = 2
    BY <2>2, <1>4 DEF Accounted, Kept
  <2> QED BY <2>1, <2>2, <1>4 DEF Accounted, Kept
<1> QED BY <1>3, <1>5, <1>6 DEF IInv

LEMMA Step ==
    ASSUME IInv, [Next]_vars
    PROVE  IInv'
<1>1. CASE Main
  BY <1>1, StartStep, OpenStep, PolledStep, PollFailsStep, LeaveStep, AppliedStep, CarryStep DEF Main
<1>2. CASE Loop
  BY <1>2, TurnStep, PushStep, FlushStep, SentStep, NotSentStep DEF Loop
<1>3. CASE Measure
  BY <1>3, MeasureStep
<1>4. CASE HoldExpires
  BY <1>4, HoldExpiresStep
<1>5. CASE Outside
  BY <1>5, CrashStep, KillStep, TermHeardStep, TermSwallowedStep, StatusStep, ShellResumeStep, AskStep DEF Outside
<1>6. CASE UNCHANGED vars
  BY <1>6 DEF vars, IInv, TypeOK, Settled, Unopened, Accounted, Kept, received, Excused
<1> QED BY <1>1, <1>2, <1>3, <1>4, <1>5, <1>6 DEF Next

\* The process, its files and the ghosts keep their types.
THEOREM Types == Spec => []TypeOK
<1>1. IInv => TypeOK
  BY DEF IInv
<1> QED BY <1>1, Start0, Step, RunnerAssumption, PTL DEF Spec

\* A measured point is on the machine, on the server, or gone for a reason,
\* whatever fails, crashes, drains or reloads.
THEOREM NothingQuiet == Spec => []NothingLostQuietly
<1>1. IInv => NothingLostQuietly
  BY Ranges DEF IInv, Accounted, NothingLostQuietly, Excused
<1> QED BY <1>1, Start0, Step, RunnerAssumption, PTL DEF Spec

\* "Done" is durable: a state the console was told is the file's and the
\* process's, over restarts and failed writes.
THEOREM DoneIsDurable == Spec => []ToldIsTrue
<1>1. Init => ToldIsTrue
  BY DEF Init, ToldIsTrue
<1>2. ASSUME TypeOK, ToldIsTrue, [Next]_vars PROVE ToldIsTrue'
  <2> USE <1>2 DEF ToldIsTrue
  <2>1. CASE Start \/ Polled \/ Leave \/ Open \/ PollFails
    BY <2>1 DEF Start, Polled, Leave, Open, PollFails, config, Dies
  <2>2. CASE Applied
    BY <2>2 DEF Applied, Dies
  <2>3. ASSUME NEW k \in Kinds, Carry(k) PROVE ToldIsTrue'
    BY <2>3 DEF Carry, SetState, config
  <2>4. CASE Loop \/ Measure \/ HoldExpires
    BY <2>4 DEF Loop, Turn, Push, Flush, Sent, NotSent, Measure, HoldExpires, config
  <2>5. CASE Crash \/ Kill \/ TermHeard \/ TermSwallowed \/ Status \/ ShellResume
    BY <2>5 DEF Crash, Kill, TermHeard, TermSwallowed, Status, ShellResume, Dies, config
  <2>6. ASSUME NEW k \in AskedKinds, Ask(k) PROVE ToldIsTrue'
    BY <2>6 DEF Ask, config
  <2>7. CASE UNCHANGED vars
    BY <2>7 DEF vars
  <2> QED BY <2>1, <2>2, <2>3, <2>4, <2>5, <2>6, <2>7 DEF Next, Main, Outside
<1> QED BY <1>1, <1>2, Types, PTL DEF Spec

-----------------------------------------------------------------------------
(* First in, first out. *)

\* No point is known before it is measured.
Numbered == Kept \union received \union Excused \subseteq 1 .. measured

\* The files in the order they are read, and the queue with what was measured
\* since, are each in order; the older file is gone once it was read.
Ascending ==
    /\ Increasing(legacy \o disk)
    /\ Increasing(queue \o batch)
    /\ ~Unopened => legacy = <<>>

\* The points the process goes by: the files', until it has opened them.
Held == IF Unopened THEN Kept ELSE Range(queue) \union Range(batch)

\* What is on its way for the first time, and what a later point need not
\* overtake any more.
Pending == Kept \ (received \union Evicted)
Passed  == (received \ Evicted) \union (Evicted \ Held)

\* What is still here is gone for no reason but that it made room; and what made
\* room and is back in the queue came from its file.
Reread ==
    /\ Kept \intersect Excused \subseteq Evicted
    /\ Range(legacy) \intersect Evicted = {}
    /\ ~Unopened /\ disk # <<>> => Held \intersect Evicted \subseteq Range(disk)

\* The server's points are in order, and behind all that is on its way.
InLine ==
    /\ \A i, j \in {k \in DOMAIN arrivals : arrivals[k] \notin Evicted} : i < j => arrivals[i] < arrivals[j]
    /\ \A x \in Passed, y \in Pending : x < y

Lined == Numbered /\ Ascending /\ Reread /\ InLine

LEMMA PointsAreNumbers == Points \subseteq Nat
BY RunnerAssumption DEF RunnerAssumption, Points

\* Two sequences in a row are in order if each is, and the first one is before
\* the second.
LEMMA IncreasingConcat ==
    ASSUME NEW s \in Seq(Points), NEW t \in Seq(Points)
    PROVE  Increasing(s \o t) <=>
              Increasing(s) /\ Increasing(t) /\ \A x \in Range(s), y \in Range(t) : x < y
<1> DEFINE m == Len(s)
           n == Len(t)
           u == s \o t
<1>1. /\ u \in Seq(Points) /\ Len(u) = m + n /\ m \in Nat /\ n \in Nat
      /\ DOMAIN s = 1 .. m /\ DOMAIN t = 1 .. n /\ DOMAIN u = 1 .. m + n
      /\ \A i \in 1 .. m : u[i] = s[i] /\ s[i] \in Nat
      /\ \A i \in 1 .. n : u[m + i] = t[i] /\ t[i] \in Nat
  <2>1. /\ u \in Seq(Points) /\ Len(u) = m + n /\ m \in Nat /\ n \in Nat
        /\ DOMAIN s = 1 .. m /\ DOMAIN t = 1 .. n
    OBVIOUS
  <2>2. /\ \A i \in 1 .. m : u[i] = s[i] /\ s[i] \in Points
        /\ \A i \in 1 .. n : u[m + i] = t[i] /\ t[i] \in Points
    OBVIOUS
  <2> HIDE DEF u, m, n
  <2>3. DOMAIN u = 1 .. m + n
    BY <2>1
  <2> QED BY <2>1, <2>2, <2>3, PointsAreNumbers
<1>2. Range(s) = {s[i] : i \in 1 .. m} /\ Range(t) = {t[i] : i \in 1 .. n}
  BY RangeOfSeq
<1> HIDE DEF u, m, n
<1>3. ASSUME Increasing(u)
      PROVE  Increasing(s) /\ Increasing(t) /\ \A x \in Range(s), y \in Range(t) : x < y
  <2>1. \A i, j \in 1 .. m + n : i < j => u[i] < u[j]
    BY <1>1, <1>3 DEF Increasing
  <2>2. \A i, j \in 1 .. m : i < j => s[i] < s[j]
    <3> SUFFICES ASSUME NEW i \in 1 .. m, NEW j \in 1 .. m, i < j PROVE s[i] < s[j]
      OBVIOUS
    <3>1. i \in 1 .. m + n /\ j \in 1 .. m + n
      BY <1>1
    <3> QED BY <1>1, <2>1, <3>1
  <2>3. \A i, j \in 1 .. n : i < j => t[i] < t[j]
    <3> SUFFICES ASSUME NEW i \in 1 .. n, NEW j \in 1 .. n, i < j PROVE t[i] < t[j]
      OBVIOUS
    <3>1. m + i \in 1 .. m + n /\ m + j \in 1 .. m + n /\ m + i < m + j
      BY <1>1
    <3> QED BY <1>1, <2>1, <3>1
  <2>4. \A i \in 1 .. m, j \in 1 .. n : s[i] < t[j]
    <3> SUFFICES ASSUME NEW i \in 1 .. m, NEW j \in 1 .. n PROVE s[i] < t[j]
      OBVIOUS
    <3>1. i \in 1 .. m + n /\ m + j \in 1 .. m + n /\ i < m + j
      BY <1>1
    <3> QED BY <1>1, <2>1, <3>1
  <2> QED BY <1>1, <1>2, <2>2, <2>3, <2>4 DEF Increasing
<1>4. ASSUME Increasing(s), Increasing(t), \A x \in Range(s), y \in Range(t) : x < y
      PROVE  Increasing(u)
  <2> SUFFICES ASSUME NEW i \in 1 .. m + n, NEW j \in 1 .. m + n, i < j PROVE u[i] < u[j]
    BY <1>1 DEF Increasing
  <2>1. CASE j <= m
    <3>1. i \in 1 .. m /\ j \in 1 .. m
      BY <1>1, <2>1
    <3> QED BY <1>1, <1>4, <3>1 DEF Increasing
  <2>2. CASE i > m
    <3>1. i - m \in 1 .. n /\ j - m \in 1 .. n /\ i - m < j - m /\ m + (i - m) = i /\ m + (j - m) = j
      BY <1>1, <2>2
    <3>2. u[i] = t[i - m] /\ u[j] = t[j - m]
      BY <1>1, <3>1
    <3> QED BY <1>1, <1>4, <3>1, <3>2 DEF Increasing
  <2>3. CASE i <= m /\ j > m
    <3>1. i \in 1 .. m /\ j - m \in 1 .. n /\ m + (j - m) = j
      BY <1>1, <2>3
    <3>2. u[i] = s[i] /\ u[j] = t[j - m]
      BY <1>1, <3>1
    <3> QED BY <1>2, <1>4, <3>1, <3>2
  <2> QED BY <1>1, <2>1, <2>2, <2>3
<1> QED BY <1>3, <1>4 DEF u

\* Where a sequence in order is cut, what is off its front is before the rest.
LEMMA Cut ==
    ASSUME NEW s \in Seq(Points), NEW k \in 0 .. Len(s), Increasing(s)
    PROVE  LET front == SubSeq(s, 1, k)
               rest  == SubSeq(s, k + 1, Len(s))
           IN  /\ Increasing(front) /\ Increasing(rest)
               /\ \A x \in Range(front), y \in Range(rest) : x < y
               /\ Range(s) = Range(front) \union Range(rest)
<1> DEFINE front == SubSeq(s, 1, k)
           rest  == SubSeq(s, k + 1, Len(s))
<1>0. Len(s) \in Nat /\ k \in Nat /\ k <= Len(s)
  OBVIOUS
<1>1. /\ front \in Seq(Points) /\ Len(front) = k
      /\ \A i \in 1 .. k : front[i] = s[i]
  OBVIOUS
<1>2. /\ rest \in Seq(Points) /\ Len(rest) = Len(s) - k
      /\ \A i \in 1 .. Len(s) - k : rest[i] = s[k + i]
  OBVIOUS
<1>3. s = front \o rest
  <2> HIDE DEF front, rest
  <2> DEFINE u == front \o rest
  <2>1. /\ u \in Seq(Points) /\ Len(u) = Len(s)
        /\ \A i \in 1 .. k : u[i] = front[i]
        /\ \A i \in 1 .. Len(s) - k : u[k + i] = rest[i]
    BY <1>0, <1>1, <1>2
  <2> HIDE DEF u
  <2>2. ASSUME NEW i \in 1 .. Len(s) PROVE u[i] = s[i]
    <3>1. CASE i \in 1 .. k
      BY <1>1, <2>1, <3>1
    <3>2. CASE i - k \in 1 .. Len(s) - k
      <4>1. k + (i - k) = i
        BY <1>0
      <4> QED BY <1>2, <2>1, <3>2, <4>1
    <3>3. i \in 1 .. k \/ i - k \in 1 .. Len(s) - k
      BY <1>0
    <3> QED BY <3>1, <3>2, <3>3
  <2>3. DOMAIN u = 1 .. Len(s) /\ DOMAIN s = 1 .. Len(s)
    BY <2>1
  <2>4. u = [i \in 1 .. Len(s) |-> u[i]] /\ s = [i \in 1 .. Len(s) |-> s[i]]
    BY <2>1, <2>3
  <2>5. s = u
    BY <2>2, <2>4
  <2> QED BY <2>5 DEF u
<1> HIDE DEF front, rest
<1>4. Increasing(front) /\ Increasing(rest) /\ \A x \in Range(front), y \in Range(rest) : x < y
  BY <1>1, <1>2, <1>3, IncreasingConcat
<1>5. Range(s) = Range(front) \union Range(rest)
  BY <1>1, <1>2, <1>3, RangeOfConcat
<1> QED BY <1>4, <1>5 DEF front, rest

-----------------------------------------------------------------------------
(* What the helpers of the loop do to a sequence in order. *)

LEMMA NothingInOrder == Increasing(<<>>) /\ Range(<<>>) = {} /\ <<>> \in Seq(Points)
BY DEF Increasing, Range

\* Only the oldest make room.
LEMMA OldestGo ==
    ASSUME NEW s \in Seq(Points), Increasing(s)
    PROVE  /\ Increasing(Newest(s))
           /\ \A x \in Range(s) \ Range(Newest(s)), y \in Range(Newest(s)) : x < y
<1> DEFINE k == IF Len(s) > QueueLimit THEN Len(s) - QueueLimit ELSE 0
<1>1. k \in 0 .. Len(s)
  BY RunnerAssumption DEF RunnerAssumption
<1>2. Newest(s) = SubSeq(s, k + 1, Len(s))
  BY RunnerAssumption DEF Newest, RunnerAssumption
<1> HIDE DEF k
<1> QED BY <1>1, <1>2, Cut

\* A chunk is before what follows it.
LEMMA ChunkFirst ==
    ASSUME NEW s \in Seq(Points), Increasing(s)
    PROVE  /\ Increasing(First(Chunk, s)) /\ Increasing(Rest(Chunk, s))
           /\ \A x \in Range(First(Chunk, s)), y \in Range(Rest(Chunk, s)) : x < y
<1> DEFINE k == IF Len(s) < Chunk THEN Len(s) ELSE Chunk
<1>1. k \in 0 .. Len(s)
  BY RunnerAssumption DEF RunnerAssumption
<1>2. First(Chunk, s) = SubSeq(s, 1, k) /\ Len(First(Chunk, s)) = k
  BY RunnerAssumption DEF First, RunnerAssumption
<1> HIDE DEF k
<1>3. Rest(Chunk, s) = SubSeq(s, k + 1, Len(s))
  BY <1>2 DEF Rest
<1> QED BY <1>1, <1>2, <1>3, Cut

-----------------------------------------------------------------------------
(* The steps that change no order. *)

\* No point moves, and the process does not open or leave its files.
LEMMA StillInLine ==
    ASSUME Lined, UNCHANGED <<batch, queue, disk, legacy, measured, arrivals, fate>>,
           Unopened' <=> Unopened
    PROVE  Lined'
<1>1. /\ Kept' = Kept /\ received' = received /\ Excused' = Excused /\ Evicted' = Evicted
      /\ Range(batch') = Range(batch) /\ Range(queue') = Range(queue)
  BY DEF Kept, received, Excused, Evicted
<1>2. Held' = Held /\ Pending' = Pending /\ Passed' = Passed
  BY <1>1 DEF Held, Pending, Passed
<1> QED BY <1>1, <1>2 DEF Lined, Numbered, Ascending, Reread, InLine

\* A point that no longer is where it was is no longer evicted either, unless
\* the server has it.
LEMMA MournLine ==
    ASSUME TypeOK, NEW cause \in Reasons \union {"crash", "term", "status"}, Mourn(cause),
           Kept' \subseteq Kept, received' = received
    PROVE  /\ Evicted' = Evicted \ (Kept \ (Kept' \union received))
           /\ Excused' \subseteq Excused \union Kept
           /\ Kept' \intersect Excused' \subseteq Excused
<1>1. cause # "evicted"
  BY DEF Reasons
<1> HIDE DEF Kept, received
<1>2. \A p \in Points : fate'[p] = IF p \in Kept \ (Kept' \union received') THEN cause ELSE fate[p]
  BY DEF Mourn
<1>3. Evicted' = Evicted \ (Kept \ (Kept' \union received))
  BY <1>1, <1>2 DEF Evicted
<1>4. Excused' \subseteq Excused \union Kept
  BY <1>2 DEF Excused
<1>5. Kept' \intersect Excused' \subseteq Excused
  BY <1>2 DEF Excused
<1> QED BY <1>3, <1>4, <1>5

\* Points are gone, and what is left of the files is in order.
LEMMA FewerInLine ==
    ASSUME TypeOK, Lined, NEW cause \in Reasons \union {"crash", "term", "status"}, Mourn(cause),
           UNCHANGED <<measured, arrivals>>, Unopened', Range(queue') = {}, Range(batch') = {},
           Kept' \subseteq Kept, Range(legacy') \subseteq Range(legacy),
           Increasing(legacy' \o disk'), Increasing(queue' \o batch'),
           Kept' = {} \/ Evicted \intersect Held \subseteq Kept'
    PROVE  Lined'
<1>1. received' = received /\ received' \subseteq Points
  BY Ranges DEF received
<1> HIDE DEF Kept, received
<1>2. /\ Evicted' = Evicted \ (Kept \ (Kept' \union received))
      /\ Excused' \subseteq Excused \union Kept
      /\ Kept' \intersect Excused' \subseteq Excused
  BY <1>1, MournLine
<1> HIDE DEF Evicted, Excused
<1>3. Numbered'
  BY <1>1, <1>2 DEF Lined, Numbered
<1>4. Ascending'
  BY DEF Ascending
<1>5. Kept' \subseteq Kept /\ Kept' \intersect Excused \subseteq Evicted \intersect Kept'
  BY DEF Lined, Reread
<1>6. Reread'
  BY <1>2, <1>5 DEF Lined, Reread
<1>7. Pending' \subseteq Pending
  BY <1>1, <1>2 DEF Pending
<1>8. ASSUME Pending' # {} PROVE Passed' \subseteq Passed
  <2>1. Evicted \intersect Held \subseteq Kept'
    BY <1>8 DEF Pending
  <2>2. Held' = Kept'
    BY DEF Held
  <2>3. Evicted' \ Held' \subseteq Evicted \ Held
    BY <1>2, <2>1, <2>2
  <2>4. received' \ Evicted' \subseteq received \ Evicted
    BY <1>1, <1>2
  <2> QED BY <2>3, <2>4 DEF Passed
<1>9. \A k \in DOMAIN arrivals' : arrivals'[k] \notin Evicted' => arrivals[k] \notin Evicted
  <2>1. \A k \in DOMAIN arrivals : arrivals[k] \in received
    BY DEF received, Range
  <2> QED BY <1>2, <2>1
<1>10. InLine'
  <2>1. \A x \in Passed', y \in Pending' : x < y
    BY <1>7, <1>8 DEF Lined, InLine
  <2> HIDE DEF Passed, Pending
  <2> QED BY <1>9, <2>1 DEF Lined, InLine
<1> QED BY <1>3, <1>4, <1>6, <1>10 DEF Lined

\* The process ends, its files are as they were, hold its queue, or were cut
\* short.
LEMMA DiesInLine ==
    ASSUME IInv, Lined, Dies, NEW cause \in Reasons \union {"crash", "term", "status"}, Mourn(cause),
           \/ disk' = disk
           \/ ~Unopened /\ Range(batch) = {} /\ disk' \in {queue, <<>>}
    PROVE  Lined'
<1>1. /\ queue' = <<>> /\ batch' = <<>> /\ legacy' = legacy /\ UNCHANGED <<measured, arrivals>> /\ Unopened'
  BY DEF Dies, Unopened
<1>2. TypeOK /\ queue \in Seq(Points) /\ batch \in Seq(Points) /\ disk \in Seq(Points) /\ legacy \in Seq(Points)
  BY DEF IInv, TypeOK
<1>3. Range(queue') = {} /\ Range(batch') = {} /\ Increasing(queue' \o batch')
  <2>1. <<>> \o <<>> = <<>>
    OBVIOUS
  <2> QED BY <1>1, <2>1, NothingInOrder
<1>4. Kept' = Range(disk') \union Range(legacy)
  BY <1>1, <1>3 DEF Kept
<1>5. Increasing(queue)
  BY <1>2, IncreasingConcat DEF Lined, Ascending
<1>6. Unopened => Held = Range(disk) \union Range(legacy)
  <2>1. Unopened => Range(queue) = {} /\ Range(batch) = {}
    BY DEF IInv, Settled, Unopened
  <2> QED BY <2>1 DEF Held, Kept
<1>7. ~Unopened => Range(legacy) = {} /\ legacy = <<>>
  BY NothingInOrder DEF Lined, Ascending
<1>8. CASE disk' = disk
  <2>1. Increasing(legacy' \o disk')
    BY <1>1, <1>8 DEF Lined, Ascending
  <2>2. Kept' = {} \/ Evicted \intersect Held \subseteq Kept'
    <3>1. CASE Unopened
      BY <1>4, <1>6, <1>8, <3>1
    <3>2. CASE ~Unopened /\ disk = <<>>
      BY <1>4, <1>7, <1>8, <3>2, NothingInOrder
    <3>3. CASE ~Unopened /\ disk # <<>>
      <4>1. Held \intersect Evicted \subseteq Range(disk)
        BY <3>3 DEF Lined, Reread
      <4> QED BY <1>4, <1>8, <4>1
    <3> QED BY <3>1, <3>2, <3>3
  <2>3. Kept' \subseteq Kept
    BY <1>4, <1>8 DEF Kept
  <2> QED BY <1>1, <1>2, <1>3, <2>1, <2>2, <2>3, FewerInLine
<1>9. CASE ~Unopened /\ Range(batch) = {} /\ disk' \in {queue, <<>>}
  <2>1. Increasing(legacy' \o disk')
    <3>1. legacy' = <<>> /\ disk' \in Seq(Points) /\ Increasing(disk')
      BY <1>1, <1>2, <1>5, <1>7, <1>9, NothingInOrder
    <3> QED BY <3>1, NothingInOrder, IncreasingConcat
  <2>2. Kept' = {} \/ Evicted \intersect Held \subseteq Kept'
    BY <1>4, <1>7, <1>9, NothingInOrder DEF Held
  <2>3. Kept' \subseteq Kept
    BY <1>4, <1>9, NothingInOrder DEF Kept
  <2> QED BY <1>1, <1>2, <1>3, <2>1, <2>2, <2>3, FewerInLine
<1> QED BY <1>8, <1>9

LEMMA EndsInLine ==
    ASSUME IInv, Lined, Crash \/ Kill \/ TermHeard \/ Leave
    PROVE  Lined'
<1>1. CASE Crash
  <2>1. pc = "sending" => ~Unopened /\ Range(batch) = {}
    BY DEF IInv, Settled, Unopened
  <2> QED BY <1>1, <2>1, DiesInLine DEF Crash
<1>2. CASE Kill
  <2>1. (IF unsaved \in {"legacy", "disk"} THEN unsaved ELSE "term") \in Reasons \union {"crash", "term", "status"}
    BY DEF Reasons
  <2> QED BY <1>2, <2>1, DiesInLine DEF Kill
<1>3. CASE TermHeard
  <2>1. pc \in {"top", "beat"} => ~Unopened /\ Range(batch) = {}
    BY DEF IInv, Settled, Unopened
  <2> QED BY <1>3, <2>1, DiesInLine DEF TermHeard, Reasons
<1>4. CASE Leave
  <2>1. unsaved \in Reasons
    BY DEF IInv, TypeOK
  <2> QED BY <1>4, <2>1, DiesInLine DEF Leave
<1> QED BY <1>1, <1>2, <1>3, <1>4

LEMMA AppliedInLine ==
    ASSUME IInv, Lined, Applied
    PROVE  Lined'
<1>1. CASE pc' # "down"
  <2>1. Unopened' <=> Unopened
    BY <1>1 DEF Applied, Unopened, IInv, Settled, flags, Dies
  <2>2. UNCHANGED <<batch, queue, disk, legacy, measured, arrivals, fate>>
    BY <1>1 DEF Applied, points, Dies
  <2> QED BY <2>1, <2>2, StillInLine
<1>2. CASE pc' = "down"
  <2>1. Dies /\ booting /\ UNCHANGED <<fate, disk>>
    BY <1>2 DEF Applied, flags
  <2>2. Range(batch) = {} /\ Range(queue) = {} /\ Range(batch') = {} /\ Range(queue') = {}
    BY <2>1, RangeOfEmpty DEF IInv, Settled, Unopened, Dies, Applied
  <2>3. Kept' = Kept
    BY <2>1, <2>2 DEF Kept, Dies
  <2>4. fate \in [Points -> Fates]
    BY DEF IInv, TypeOK
  <2>5. Mourn("crash")
    <3> HIDE DEF Kept, received
    <3> QED BY <2>1, <2>3, <2>4 DEF Mourn
  <2> QED BY <2>1, <2>5, DiesInLine
<1> QED BY <1>1, <1>2

LEMMA QuietStepsInLine ==
    ASSUME IInv, Lined,
           Start \/ Polled \/ PollFails \/ TermSwallowed \/ ShellResume \/ Turn \/ Flush \/ HoldExpires
    PROVE  Lined'
<1>1. UNCHANGED <<batch, queue, disk, legacy, measured, arrivals, fate>>
  BY DEF Start, Polled, PollFails, TermSwallowed, ShellResume, Turn, Flush, HoldExpires, points, saved
<1>2. Unopened' <=> Unopened
  <2>1. booting => pc = "apply"
    BY DEF IInv, Settled
  <2>2. CASE Start \/ PollFails
    BY <2>1, <2>2 DEF Start, PollFails, flags, Unopened
  <2>3. CASE Polled
    <3>1. CASE pc = "boot"
      BY <2>3, <3>1 DEF Polled, Unopened
    <3>2. CASE pc = "refresh"
      BY <2>1, <2>3, <3>2 DEF Polled, Unopened
    <3> QED BY <2>3, <3>1, <3>2 DEF Polled
  <2>4. CASE Turn \/ Flush \/ HoldExpires
    BY <2>1, <2>4 DEF Turn, Flush, HoldExpires, flags, Unopened
  <2>5. CASE TermSwallowed \/ ShellResume
    BY <2>5 DEF TermSwallowed, ShellResume, flags, Unopened
  <2> QED BY <2>2, <2>3, <2>4, <2>5
<1> QED BY <1>1, <1>2, StillInLine

LEMMA CarryAndAskInLine ==
    ASSUME Lined, NEW k, Carry(k) \/ Ask(k)
    PROVE  Lined'
<1>1. UNCHANGED <<batch, queue, disk, legacy, measured, arrivals, fate>> /\ (Unopened' <=> Unopened)
  BY DEF Carry, Ask, flags, points, saved, Unopened
<1> QED BY <1>1, StillInLine

\* A command of the shell that opens the queue takes the older file away.
LEMMA StatusInLine ==
    ASSUME IInv, Lined, Status
    PROVE  Lined'
<1>1. /\ legacy' = <<>> /\ Mourn("status")
      /\ UNCHANGED <<pc, booting, batch, queue, disk, measured, arrivals>>
  BY DEF Status, flags, points, saved
<1>2. TypeOK /\ disk \in Seq(Points) /\ legacy \in Seq(Points)
  BY DEF IInv, TypeOK
<1>3. Unopened /\ Unopened'
  BY <1>1 DEF Status, Lined, Ascending, Unopened
<1>4. Range(queue') = {} /\ Range(batch') = {}
  BY <1>1, <1>3 DEF IInv, Settled, Unopened
<1>5. Kept' \subseteq Kept /\ Kept \ Kept' \subseteq Range(legacy)
  BY <1>1, NothingInOrder DEF Kept
<1>6. Increasing(legacy' \o disk')
  BY <1>1, <1>2, IncreasingConcat, NothingInOrder DEF Lined, Ascending
<1>7. Increasing(queue' \o batch')
  BY <1>1 DEF Lined, Ascending
<1>8. Evicted \intersect Held \subseteq Kept'
  BY <1>3, <1>5 DEF Held, Lined, Reread
<1>9. Range(legacy') \subseteq Range(legacy)
  BY <1>1, NothingInOrder
<1> QED BY <1>1, <1>2, <1>3, <1>4, <1>5, <1>6, <1>7, <1>8, <1>9, FewerInLine

\* The queue is read from its files as they are.
LEMMA OpenInLine ==
    ASSUME IInv, Lined, Open
    PROVE  Lined'
<1>1. /\ queue' = legacy \o disk /\ legacy' = <<>> /\ pc = "open" /\ pc' = "top"
      /\ UNCHANGED <<booting, batch, disk, measured, arrivals, fate>>
  BY DEF Open, flags, points
<1>2. disk \in Seq(Points) /\ legacy \in Seq(Points) /\ batch \in Seq(Points)
  BY DEF IInv, TypeOK
<1>3. Unopened /\ ~Unopened' /\ Range(queue) = {} /\ Range(batch) = {} /\ Range(batch') = {}
  BY <1>1 DEF IInv, Settled, Unopened
<1>4. Range(queue') = Range(legacy) \union Range(disk) /\ queue' \in Seq(Points) /\ Range(legacy') = {}
  BY <1>1, <1>2, RangeOfConcat, NothingInOrder
<1>5. Kept' = Kept /\ received' = received /\ Excused' = Excused /\ Evicted' = Evicted
  BY <1>1, <1>3, <1>4 DEF Kept, received, Excused, Evicted
<1>6. Held' = Kept /\ Held = Kept
  BY <1>1, <1>3, <1>4 DEF Held, Kept
<1>7. Ascending'
  <2>1. Increasing(disk) /\ Increasing(legacy \o disk)
    BY <1>2, IncreasingConcat DEF Lined, Ascending
  <2>2. batch = <<>>
    BY <1>2, <1>3, RangeOfSeq
  <2>3. Increasing(queue' \o batch')
    BY <1>1, <1>4, <2>1, <2>2, NothingInOrder, IncreasingConcat
  <2>4. Increasing(legacy' \o disk')
    BY <1>1, <1>2, <2>1, NothingInOrder, IncreasingConcat
  <2> QED BY <1>1, <2>3, <2>4 DEF Ascending
<1>8. Reread'
  <2>1. Held' \intersect Evicted' \subseteq Range(disk')
    BY <1>1, <1>3, <1>5, <1>6 DEF Kept, Lined, Reread
  <2> QED BY <1>4, <1>5, <2>1 DEF Lined, Reread
<1>9. Pending' = Pending /\ Passed' = Passed
  BY <1>5, <1>6 DEF Pending, Passed
<1> HIDE DEF Open
<1>10. Numbered' /\ InLine'
  BY <1>1, <1>5, <1>9 DEF Lined, Numbered, InLine
<1> QED BY <1>7, <1>8, <1>10 DEF Lined

-----------------------------------------------------------------------------
(* The steps that move points. *)

\* What is measured is newer than all there is.
LEMMA MeasureInLine ==
    ASSUME IInv, Lined, Measure
    PROVE  Lined'
<1>1. /\ measured' = measured + 1 /\ batch' = Append(batch, measured') /\ pc = "measure"
      /\ UNCHANGED <<pc, booting, queue, disk, legacy, arrivals, fate>>
  BY DEF Measure, flags, saved
<1>2. measured \in Nat /\ measured' \in Points /\ measured' \notin 1 .. measured
      /\ 1 .. measured' = 1 .. measured \union {measured'}
  <2>1. measured \in Nat /\ MaxPoints \in Nat /\ measured < MaxPoints
    BY RunnerAssumption DEF Measure, IInv, TypeOK, RunnerAssumption
  <2> QED BY <1>1, <2>1 DEF Points
<1>3. queue \in Seq(Points) /\ batch \in Seq(Points) /\ ~Unopened /\ ~Unopened'
  BY <1>1 DEF IInv, TypeOK, Settled, Unopened
<1> DEFINE point == <<measured'>>
<1>4. point \in Seq(Points) /\ Range(point) = {measured'} /\ Increasing(point)
  BY <1>2 DEF Range, Increasing
<1>5. batch' = batch \o point
  BY <1>1, <1>3
<1> HIDE DEF point
<1>6. batch' \in Seq(Points) /\ Range(batch') = Range(batch) \union {measured'}
  BY <1>3, <1>4, <1>5, RangeOfConcat
<1>7. /\ Kept' = Kept \union {measured'} /\ received' = received /\ Excused' = Excused /\ Evicted' = Evicted
      /\ Held' = Held \union {measured'}
  BY <1>1, <1>3, <1>6 DEF Kept, received, Excused, Evicted, Held
<1>8. ASSUME NEW x \in Kept \union received \union Excused PROVE x < measured' /\ x # measured'
  BY <1>1, <1>2 DEF Lined, Numbered
<1>9. Evicted \subseteq Excused /\ Held \subseteq Kept
  BY DEF Evicted, Excused, Held, Kept
<1> HIDE DEF Kept, received, Excused, Evicted, Held
<1>10. Numbered'
  BY <1>2, <1>7 DEF Lined, Numbered
<1>11. Ascending'
  <2>1. /\ Increasing(queue) /\ Increasing(batch)
        /\ \A x \in Range(queue), y \in Range(batch) : x < y
    BY <1>3, IncreasingConcat DEF Lined, Ascending
  <2>2. \A x \in Range(queue) \union Range(batch) : x < measured'
    BY <1>8 DEF Kept
  <2>3. Increasing(batch')
    BY <1>3, <1>4, <1>5, <2>1, <2>2, IncreasingConcat
  <2>4. \A x \in Range(queue), y \in Range(batch') : x < y
    BY <1>6, <2>1, <2>2
  <2>5. Increasing(queue' \o batch')
    BY <1>1, <1>3, <1>6, <2>1, <2>3, <2>4, IncreasingConcat
  <2> QED BY <1>1, <1>3, <2>5 DEF Lined, Ascending
<1>12. Reread'
  <2>1. measured' \notin Excused
    BY <1>8
  <2> QED BY <1>1, <1>3, <1>7, <1>9, <2>1 DEF Lined, Reread
<1>13. Pending' \subseteq Pending \union {measured'} /\ Passed' \subseteq Passed
       /\ Passed \subseteq received \union Excused
  BY <1>7, <1>9 DEF Pending, Passed
<1>14. InLine'
  <2>1. \A x \in Passed', y \in Pending' : x < y
    BY <1>8, <1>13 DEF Lined, InLine
  <2> QED BY <1>1, <1>7, <2>1 DEF Lined, InLine
<1> QED BY <1>10, <1>11, <1>12, <1>14 DEF Lined

\* What is on its way is queued, while the queue is open and nothing is measured.
LEMMA PendingIsQueued ==
    ASSUME Settled', ~Unopened', Range(batch') = {}, legacy' = <<>>, Kept' \intersect Excused' \subseteq Evicted'
    PROVE  Pending' \subseteq Range(queue')
<1>1. Range(disk') \subseteq Range(queue') \union received' \union Excused'
  BY DEF Settled
<1>2. Kept' = Range(queue') \union Range(disk')
  BY NothingInOrder DEF Kept
<1> HIDE DEF Kept, received, Excused, Evicted
<1> QED BY <1>1, <1>2 DEF Pending

\* The oldest make room.
LEMMA PushInLine ==
    ASSUME IInv, IInv', Lined, Push
    PROVE  Lined'
<1> DEFINE all == queue \o batch
           gone == Range(all) \ (Range(queue') \union received)
<1>1. /\ queue' = IF batch = <<>> THEN queue ELSE Newest(all)
      /\ batch' = <<>> /\ pc = "measure" /\ pc' = "flush"
      /\ UNCHANGED <<booting, disk, legacy, arrivals, measured>>
      /\ Evict
  BY DEF Push, flags, saved
<1>2. queue \in Seq(Points) /\ batch \in Seq(Points) /\ queue' \in Seq(Points)
      /\ ~Unopened /\ ~Unopened' /\ legacy = <<>> /\ Range(legacy') = {}
  BY <1>1, NothingInOrder DEF IInv, TypeOK, Settled, Unopened, Lined, Ascending
<1>3. all \in Seq(Points) /\ Range(all) = Range(queue) \union Range(batch) /\ Increasing(all)
  BY <1>2, RangeOfConcat DEF Lined, Ascending
<1>4. /\ Increasing(queue') /\ Range(queue') \subseteq Range(all)
      /\ \A x \in Range(all) \ Range(queue'), y \in Range(queue') : x < y
  <2>1. CASE batch = <<>>
    <3>1. all = queue
      BY <1>2, <2>1
    <3> QED BY <1>1, <1>3, <2>1, <3>1
  <2>2. CASE batch # <<>>
    <3> HIDE DEF all
    <3> QED BY <1>1, <1>3, <2>2, OldestGo, NewestOf, RunnerAssumption
  <2> QED BY <2>1, <2>2
<1>5. received' = received /\ Range(batch') = {} /\ gone \subseteq Points
  BY <1>1, <1>3, NothingInOrder, RangeOfSeq DEF received
<1>6. Evicted' = Evicted \union gone /\ Excused' = Excused \union gone
  <2>1. \A p \in Points : fate'[p] = IF p \in gone THEN "evicted" ELSE fate[p]
    <3> HIDE DEF received
    <3> QED BY <1>1 DEF Evict
  <2> HIDE DEF gone
  <2> QED BY <1>5, <2>1 DEF Evicted, Excused
<1>7. Kept' \subseteq Kept /\ Held = Range(all) /\ Held' = Range(queue') /\ Range(all) \subseteq Kept
  BY <1>1, <1>2, <1>3, <1>4, <1>5 DEF Kept, Held
<1> HIDE DEF all, Kept, received, Excused, Evicted, Held
<1>8. Numbered'
  BY <1>1, <1>5, <1>6, <1>7 DEF Lined, Numbered
<1>9. Ascending'
  <2>1. Increasing(queue' \o batch')
    BY <1>1, <1>2, <1>4, NothingInOrder, IncreasingConcat
  <2> QED BY <1>1, <1>2, <2>1 DEF Lined, Ascending
<1>10. Reread'
  <2>1. Kept' \intersect Excused' \subseteq Evicted'
    BY <1>6, <1>7 DEF Lined, Reread
  <2>2. Held' \intersect Evicted' \subseteq Held \intersect Evicted
    BY <1>4, <1>6, <1>7
  <2> QED BY <1>1, <1>2, <2>1, <2>2 DEF Lined, Reread
<1>11. Pending' \subseteq Pending /\ Pending' \subseteq Range(queue')
  <2>1. Pending' \subseteq Range(queue')
    BY <1>1, <1>2, <1>5, <1>10, PendingIsQueued DEF IInv, Reread
  <2> QED BY <1>5, <1>6, <1>7, <2>1 DEF Pending
<1>12. ASSUME NEW x \in Passed', NEW y \in Pending' PROVE x < y
  <2>1. CASE x \in Range(all) \ Range(queue')
    BY <1>4, <1>11, <2>1
  <2>2. CASE x \notin Range(all) \ Range(queue')
    <3>1. x \in Passed
      BY <1>5, <1>6, <1>7, <2>2 DEF Passed
    <3> QED BY <1>11, <3>1 DEF Lined, InLine
  <2> QED BY <2>1, <2>2
<1>13. InLine'
  <2>1. \A k \in DOMAIN arrivals' : arrivals'[k] \notin Evicted' => arrivals[k] \notin Evicted
    BY <1>1, <1>6
  <2> QED BY <1>1, <1>12, <2>1 DEF Lined, InLine
<1> QED BY <1>8, <1>9, <1>10, <1>13 DEF Lined

\* The new ones of a chunk arrive in its order, behind all that came before.
LEMMA ArriveInLine ==
    ASSUME TypeOK, Lined, Arrive, UNCHANGED fate
    PROVE  \A i, j \in {k \in DOMAIN arrivals' : arrivals'[k] \notin Evicted'} : i < j => arrivals'[i] < arrivals'[j]
<1> DEFINE chunk == First(Chunk, queue)
           new   == {i \in DOMAIN chunk : chunk[i] \notin received}
<1>1. queue \in Seq(Points) /\ arrivals \in Seq(Points) /\ Increasing(queue)
  <2>1. queue \in Seq(Points) /\ batch \in Seq(Points) /\ arrivals \in Seq(Points)
    BY DEF TypeOK
  <2> QED BY <2>1, IncreasingConcat DEF Lined, Ascending
<1>2. chunk \in Seq(Points) /\ Range(chunk) \subseteq Range(queue) /\ Increasing(chunk)
  BY <1>1, FirstAndRest, ChunkFirst, RunnerAssumption DEF RunnerAssumption
<1>3. PICK n \in 0 .. Len(chunk) : \E f \in [1 .. n -> new] :
         Range(f) = new /\ Increasing(f) /\ arrivals' = arrivals \o [i \in 1 .. n |-> chunk[f[i]]]
  BY DEF Arrive
<1>4. PICK f \in [1 .. n -> new] : Increasing(f) /\ arrivals' = arrivals \o [i \in 1 .. n |-> chunk[f[i]]]
  BY <1>3
<1> DEFINE s == [i \in 1 .. n |-> chunk[f[i]]]
           m == Len(arrivals)
<1>5. ASSUME NEW i \in 1 .. n PROVE s[i] \in Range(chunk) \ received /\ s[i] \in Points
  <2>1. f[i] \in DOMAIN chunk /\ chunk[f[i]] \notin received
    OBVIOUS
  <2>2. DOMAIN chunk = 1 .. Len(chunk)
    BY <1>2
  <2> HIDE DEF chunk, received
  <2> QED BY <1>2, <2>1, <2>2, RangeOfSeq
<1>6. ASSUME NEW i \in 1 .. n, NEW j \in 1 .. n, i < j PROVE s[i] < s[j]
  <2>1. f[i] \in DOMAIN chunk /\ f[j] \in DOMAIN chunk
    OBVIOUS
  <2>2. f[i] < f[j]
    BY <1>4, <1>6 DEF Increasing
  <2> HIDE DEF chunk
  <2> QED BY <1>2, <2>1, <2>2 DEF Increasing
<1>7. n \in Nat /\ m \in Nat /\ s \in Seq(Points) /\ Len(s) = n
  <2>1. n \in Nat
    BY <1>2
  <2>2. s \in [1 .. n -> Points]
    BY <1>5
  <2> HIDE DEF s
  <2> QED BY <1>1, <2>1, <2>2
<1> HIDE DEF s
<1>8. /\ DOMAIN arrivals' = 1 .. m + n
      /\ \A i \in 1 .. m : arrivals'[i] = arrivals[i]
      /\ \A i \in 1 .. n : arrivals'[m + i] = s[i]
  <2>1. arrivals' = arrivals \o s
    BY <1>4 DEF s
  <2> QED BY <1>1, <1>7, <2>1
<1>9. Evicted' = Evicted
  BY DEF Evicted
<1>10. ASSUME NEW i \in 1 .. m, arrivals[i] \notin Evicted PROVE arrivals[i] \in Passed
  BY <1>1, <1>10, RangeOfSeq DEF Passed, received
<1>11. ASSUME NEW i \in 1 .. n, s[i] \notin Evicted PROVE s[i] \in Pending
  <2>1. s[i] \in Kept /\ s[i] \notin received
    BY <1>2, <1>5 DEF Kept
  <2> HIDE DEF Kept, received
  <2> QED BY <1>11, <2>1 DEF Pending
<1> HIDE DEF chunk, m
<1> SUFFICES ASSUME NEW i \in 1 .. m + n, NEW j \in 1 .. m + n, i < j,
                    arrivals'[i] \notin Evicted, arrivals'[j] \notin Evicted
             PROVE  arrivals'[i] < arrivals'[j]
  BY <1>8, <1>9
<1>12. CASE j <= m
  <2>1. i \in 1 .. m /\ j \in 1 .. m /\ DOMAIN arrivals = 1 .. m
    BY <1>1, <1>7, <1>12 DEF m
  <2> QED BY <1>8, <2>1 DEF Lined, InLine
<1>13. CASE i > m
  <2>1. i - m \in 1 .. n /\ j - m \in 1 .. n /\ i - m < j - m /\ m + (i - m) = i /\ m + (j - m) = j
    BY <1>7, <1>13
  <2>2. arrivals'[i] = s[i - m] /\ arrivals'[j] = s[j - m]
    BY <1>8, <2>1
  <2> QED BY <1>6, <2>1, <2>2
<1>14. CASE i <= m /\ j > m
  <2>1. i \in 1 .. m /\ j - m \in 1 .. n /\ m + (j - m) = j
    BY <1>7, <1>14
  <2>2. arrivals'[i] = arrivals[i] /\ arrivals'[j] = s[j - m]
    BY <1>8, <2>1
  <2>3. arrivals[i] \in Passed /\ s[j - m] \in Pending
    BY <1>10, <1>11, <2>1, <2>2
  <2> QED BY <2>2, <2>3 DEF Lined, InLine
<1> QED BY <1>7, <1>12, <1>13, <1>14

\* A chunk was tried: it leaves the queue only when it arrived, and the file is
\* the queue's, unless writing it failed.
LEMMA SendInLine ==
    ASSUME IInv, IInv', Lined, Sent \/ NotSent
    PROVE  Lined'
<1> DEFINE chunk == First(Chunk, queue)
           rest  == Rest(Chunk, queue)
<1>1. /\ pc = "sending" /\ pc' = "top" /\ disk' \in {queue', disk, <<>>}
      /\ UNCHANGED <<booting, batch, measured, legacy, fate>>
  BY DEF Sent, NotSent, Persist, flags, points
<1>2. /\ queue \in Seq(Points) /\ batch \in Seq(Points) /\ disk' \in Seq(Points)
      /\ ~Unopened /\ ~Unopened' /\ legacy = <<>> /\ Range(legacy) = {} /\ Range(batch) = {}
  BY <1>1, NothingInOrder DEF IInv, TypeOK, Settled, Unopened, Lined, Ascending
<1>3. Increasing(queue)
  BY <1>2, IncreasingConcat DEF Lined, Ascending
<1>4. /\ rest \in Seq(Points) /\ Range(queue) = Range(chunk) \union Range(rest)
      /\ Increasing(rest) /\ \A x \in Range(chunk), y \in Range(rest) : x < y
  BY <1>2, <1>3, FirstAndRest, ChunkFirst, RunnerAssumption DEF RunnerAssumption
<1>5. \/ queue' = rest /\ received' = received \union Range(chunk)
      \/ queue' = queue /\ received' \in {received, received \union Range(chunk)}
  <2>1. CASE Arrive
    <3>1. received' = received \union Range(chunk)
      BY <2>1, ArriveFacts, RunnerAssumption DEF IInv
    <3> HIDE DEF received
    <3> QED BY <3>1 DEF Sent, NotSent
  <2>2. CASE ~Arrive
    <3>1. arrivals' = arrivals /\ queue' = queue
      BY <2>2 DEF Sent, NotSent
    <3> QED BY <3>1 DEF received
  <2> QED BY <2>1, <2>2
<1>6. Evicted' = Evicted /\ Excused' = Excused
  BY <1>1 DEF Evicted, Excused
<1> HIDE DEF chunk, rest
<1>7. Range(queue') \subseteq Range(queue) /\ Increasing(queue') /\ queue' \in Seq(Points)
  BY <1>2, <1>3, <1>4, <1>5
<1>8. /\ Kept' \subseteq Kept /\ Held = Range(queue) /\ Held' = Range(queue')
      /\ Range(queue) \subseteq Kept /\ Range(disk') \subseteq Range(queue') \union Range(disk)
  BY <1>1, <1>2, <1>7, NothingInOrder DEF Kept, Held
<1> HIDE DEF Kept, received, Excused, Evicted, Held
<1>9. Numbered'
  BY <1>1, <1>4, <1>5, <1>6, <1>8 DEF Lined, Numbered
<1>10. Ascending'
  <2>1. Increasing(legacy \o disk) /\ disk \in Seq(Points) /\ legacy \in Seq(Points)
    BY DEF Lined, Ascending, IInv, TypeOK
  <2>2. Increasing(disk')
    BY <1>1, <1>7, <2>1, IncreasingConcat, NothingInOrder
  <2>3. Increasing(legacy' \o disk')
    BY <1>1, <1>2, <2>2, IncreasingConcat, NothingInOrder
  <2>4. batch' = <<>>
    BY <1>1, <1>2, RangeOfSeq
  <2>5. Increasing(queue' \o batch')
    BY <1>7, <2>4, IncreasingConcat, NothingInOrder
  <2> QED BY <1>1, <1>2, <2>3, <2>5 DEF Ascending
<1>11. Reread'
  <2>1. Held' \subseteq Held
    BY <1>7, <1>8
  <2>2. disk' # <<>> => disk' = queue' \/ disk' = disk
    BY <1>1
  <2>3. disk' # <<>> => Held' \intersect Evicted' \subseteq Range(disk')
    BY <1>2, <1>6, <1>8, <2>1, <2>2 DEF Lined, Reread
  <2> QED BY <1>1, <1>2, <1>6, <1>8, <2>3 DEF Lined, Reread
<1>12. Pending' \subseteq Pending /\ Pending' \subseteq Range(queue') /\ Pending' \intersect received' = {}
  <2>1. Pending' \subseteq Range(queue')
    BY <1>1, <1>2, <1>11, PendingIsQueued DEF IInv, Reread
  <2> QED BY <1>5, <1>6, <1>8, <2>1 DEF Pending
<1>13. ASSUME NEW x \in Passed', NEW y \in Pending' PROVE x < y
  <2>1. CASE x \in Passed
    BY <1>12, <2>1 DEF Lined, InLine
  <2>2. CASE x \notin Passed
    <3>1. x \in Range(chunk) /\ y \in Range(rest)
      <4>1. x \in (received' \ received) \/ x \in Range(queue) \ Range(queue')
        BY <1>6, <1>8, <2>2 DEF Passed
      <4> QED BY <1>4, <1>5, <1>7, <1>12, <4>1
    <3> QED BY <1>4, <3>1
  <2> QED BY <2>1, <2>2
<1>14. \A i, j \in {k \in DOMAIN arrivals' : arrivals'[k] \notin Evicted'} : i < j => arrivals'[i] < arrivals'[j]
  <2>1. CASE Arrive
    BY <1>1, <2>1, ArriveInLine DEF IInv
  <2>2. CASE ~Arrive
    <3>1. arrivals' = arrivals
      BY <2>2 DEF Sent, NotSent
    <3> QED BY <1>6, <3>1 DEF Lined, InLine
  <2> QED BY <2>1, <2>2
<1>15. InLine'
  BY <1>13, <1>14 DEF InLine
<1> QED BY <1>9, <1>10, <1>11, <1>15 DEF Lined

LEMMA LinedAtFirst ==
    ASSUME Init
    PROVE  Lined
<1>1. IInv
  BY Start0, RunnerAssumption
<1> DEFINE older == <<1>>
           newer == <<2>>
<1>2. /\ older \in Seq(Points) /\ newer \in Seq(Points) /\ Range(older) = {1} /\ Range(newer) = {2}
      /\ Increasing(older) /\ Increasing(newer)
  <2>1. 1 \in Points /\ 2 \in Points
    BY RunnerAssumption DEF RunnerAssumption, Points
  <2> QED BY <2>1 DEF Range, Increasing
<1>3. Excused = {} /\ Evicted = {} /\ received = {} /\ Unopened
  BY NothingInOrder DEF Init, Excused, Evicted, received, Unopened
<1>4. Kept = 1 .. measured
  <2>1. CASE measured = 0
    BY <2>1, NothingInOrder DEF Init, Kept
  <2>2. CASE measured = 2
    BY <1>2, <2>2, NothingInOrder DEF Init, Kept
  <2> QED BY <2>1, <2>2 DEF Init
<1>5. Increasing(legacy \o disk) /\ Increasing(queue \o batch)
  <2>1. CASE legacy = <<>> /\ disk = <<>>
    BY <2>1, NothingInOrder, IncreasingConcat DEF Init
  <2>2. CASE legacy = <<1>> /\ disk = <<2>>
    <3>1. Increasing(older \o newer)
      <4> HIDE DEF older, newer
      <4> QED BY <1>2, IncreasingConcat
    <3> QED BY <2>2, <3>1, NothingInOrder, IncreasingConcat DEF Init
  <2> QED BY <2>1, <2>2 DEF Init
<1>6. DOMAIN arrivals = {}
  BY DEF Init
<1> QED BY <1>3, <1>4, <1>5, <1>6 DEF Lined, Numbered, Ascending, Reread, InLine, Passed

\* The server gets points in the order they were measured, and what made room
\* and is gone is older than what is still to be sent, for any queue and chunk,
\* over restarts, crashes, failed writes and both files.
THEOREM InOrder == Spec => []OldestFirst
<1>1. Init => IInv /\ Lined
  BY Start0, LinedAtFirst, RunnerAssumption
<1>2. ASSUME IInv, Lined, [Next]_vars PROVE IInv' /\ Lined'
  <2>1. IInv'
    BY <1>2, Step
  <2>2. CASE Main
    BY <1>2, <2>1, <2>2, QuietStepsInLine, CarryAndAskInLine, OpenInLine, EndsInLine, AppliedInLine DEF Main
  <2>3. CASE Loop
    BY <1>2, <2>1, <2>3, QuietStepsInLine, PushInLine, SendInLine DEF Loop
  <2>4. CASE Measure \/ HoldExpires
    BY <1>2, <2>1, <2>4, MeasureInLine, QuietStepsInLine
  <2>5. CASE Outside
    BY <1>2, <2>1, <2>5, EndsInLine, QuietStepsInLine, CarryAndAskInLine, StatusInLine DEF Outside
  <2>6. CASE UNCHANGED vars
    <3>1. UNCHANGED <<batch, queue, disk, legacy, measured, arrivals, fate>> /\ (Unopened' <=> Unopened)
      BY <2>6 DEF vars, Unopened
    <3> QED BY <1>2, <2>1, <3>1, StillInLine
  <2> QED BY <1>2, <2>1, <2>2, <2>3, <2>4, <2>5, <2>6 DEF Next
<1>3. ASSUME IInv, Lined PROVE OldestFirst
  <2>1. Increasing(queue)
    BY <1>3, IncreasingConcat DEF IInv, TypeOK, Lined, Ascending
  <2>2. ASSUME NEW p \in Evicted \ Kept, NEW q \in (Range(queue) \union Range(batch)) \ (received \union Evicted)
        PROVE  p < q
    <3>1. Held \subseteq Kept /\ q \in Kept
      BY DEF Held, Kept
    <3> HIDE DEF Held, Kept, received, Evicted
    <3>2. p \in Passed /\ q \in Pending
      BY <3>1 DEF Passed, Pending
    <3> QED BY <1>3, <3>2 DEF Lined, InLine
  <2> QED BY <1>3, <2>1, <2>2 DEF OldestFirst, Lined, InLine
<1> QED BY <1>1, <1>2, <1>3, PTL DEF Spec

=============================================================================
