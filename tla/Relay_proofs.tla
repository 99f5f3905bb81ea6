---------------------------- MODULE Relay_proofs ----------------------------
(***************************************************************************)
(* Proofs about a relay, for any zone, any limit of its queue and any size *)
(* of what one push takes, and any number of keys, points and faults.      *)
(***************************************************************************)
EXTENDS Relay, SequenceTheorems, FiniteSetTheorems, TLAPS

USE DEF config, written, copies, orders, forward

-----------------------------------------------------------------------------
(* Taking from the front and keeping the end of a queue. *)

\* How many points that is.
Cut(n, s) == IF Len(s) < n THEN Len(s) ELSE n

\* drop_front takes the first points off and moves the others up.
LEMMA RestOf ==
    ASSUME NEW n \in Nat, NEW s \in Seq(Points)
    PROVE  /\ Rest(n, s) \in Seq(Points) /\ Len(Rest(n, s)) = Len(s) - Cut(n, s)
           /\ \A i \in 1 .. Len(s) - Cut(n, s) : Rest(n, s)[i] = s[i + Cut(n, s)]
<1> DEFINE k == Cut(n, s)
<1>1. Len(s) \in Nat /\ k \in 0 .. Len(s) /\ s \in [1 .. Len(s) -> Points]
  BY LenProperties DEF Cut
<1>2. Rest(n, s) = SubSeq(s, k + 1, Len(s))
  BY DEF Rest, Cut
<1> HIDE DEF k
<1>3. \A i \in k + 1 .. Len(s) : s[i] \in Points
  BY <1>1
<1>4. /\ SubSeq(s, k + 1, Len(s)) \in Seq(Points)
      /\ Len(SubSeq(s, k + 1, Len(s))) = IF k + 1 <= Len(s) THEN Len(s) - (k + 1) + 1 ELSE 0
      /\ \A i \in 1 .. Len(s) - (k + 1) + 1 : SubSeq(s, k + 1, Len(s))[i] = s[(k + 1) + i - 1]
  BY <1>1, <1>3, SubSeqProperties
<1> QED BY <1>1, <1>2, <1>4 DEF k

\* peek copies them.
LEMMA FirstOf ==
    ASSUME NEW n \in Nat, NEW s \in Seq(Points)
    PROVE  /\ First(n, s) \in Seq(Points) /\ Len(First(n, s)) = Cut(n, s)
           /\ \A i \in 1 .. Cut(n, s) : First(n, s)[i] = s[i]
<1> DEFINE k == Cut(n, s)
<1>1. Len(s) \in Nat /\ k \in 0 .. Len(s) /\ s \in [1 .. Len(s) -> Points]
  BY LenProperties DEF Cut
<1>2. First(n, s) = SubSeq(s, 1, k)
  BY DEF First, Cut
<1> HIDE DEF k
<1>3. \A i \in 1 .. k : s[i] \in Points
  BY <1>1
<1>4. /\ SubSeq(s, 1, k) \in Seq(Points)
      /\ Len(SubSeq(s, 1, k)) = IF 1 <= k THEN k - 1 + 1 ELSE 0
      /\ \A i \in 1 .. k - 1 + 1 : SubSeq(s, 1, k)[i] = s[1 + i - 1]
  BY <1>1, <1>3, SubSeqProperties
<1> QED BY <1>1, <1>2, <1>4 DEF k

\* A point goes to the end of a queue within its limit; at the limit all others
\* move up.
LEMMA NewestOf ==
    ASSUME NEW p \in Points, NEW s \in Seq(Points), Len(s) <= QueueLimit
    PROVE  LET t == Newest(Append(s, p))
               out == IF Len(s) = QueueLimit THEN 1 ELSE 0
           IN  /\ t \in Seq(Points) /\ Len(t) = Len(s) + 1 - out
               /\ \A i \in 1 .. Len(s) - out : t[i] = s[i + out]
               /\ t[Len(s) + 1 - out] = p
<1> DEFINE a == Append(s, p)
           out == IF Len(s) = QueueLimit THEN 1 ELSE 0
<1>1. Len(s) \in Nat /\ QueueLimit \in Nat \ {0}
  BY RelayAssumption, LenProperties
<1>2. /\ a \in Seq(Points) /\ Len(a) = Len(s) + 1
      /\ \A i \in 1 .. Len(s) : a[i] = s[i]
      /\ a[Len(s) + 1] = p
  BY AppendProperties
<1> HIDE DEF a
<1>3. Newest(a) = SubSeq(a, out + 1, Len(s) + 1)
  <2>1. CASE Len(s) = QueueLimit
    <3>1. Len(a) > QueueLimit /\ Len(a) - QueueLimit + 1 = 2 /\ out + 1 = 2
      BY <1>1, <1>2, <2>1
    <3> QED BY <1>2, <3>1 DEF Newest
  <2>2. CASE Len(s) # QueueLimit
    <3>1. ~(Len(a) > QueueLimit) /\ out + 1 = 1
      BY <1>1, <1>2, <2>2
    <3> QED BY <1>2, <3>1 DEF Newest
  <2> QED BY <2>1, <2>2
<1>4. \A i \in out + 1 .. Len(s) + 1 : a[i] \in Points
  <2>1. a \in [1 .. Len(s) + 1 -> Points]
    BY <1>1, <1>2, LenProperties
  <2> QED BY <1>1, <2>1
<1> DEFINE b == SubSeq(a, out + 1, Len(s) + 1)
<1>5. out \in {0, 1} /\ out <= Len(s)
  BY <1>1
<1> HIDE DEF out
<1>6. /\ b \in Seq(Points)
      /\ Len(b) = IF out + 1 <= Len(s) + 1 THEN (Len(s) + 1) - (out + 1) + 1 ELSE 0
      /\ \A i \in 1 .. (Len(s) + 1) - (out + 1) + 1 : b[i] = a[(out + 1) + i - 1]
  BY <1>1, <1>4, <1>5, SubSeqProperties
<1> HIDE DEF b
<1>7. b \in Seq(Points) /\ Len(b) = Len(s) + 1 - out
      /\ \A i \in 1 .. Len(s) + 1 - out : b[i] = a[i + out]
  BY <1>1, <1>5, <1>6
<1>8. /\ \A i \in 1 .. Len(s) - out : b[i] = s[i + out]
      /\ b[Len(s) + 1 - out] = p
  BY <1>1, <1>2, <1>5, <1>7
<1>9. b = Newest(Append(s, p))
  BY <1>3 DEF b, a
<1> QED BY <1>7, <1>8, <1>9 DEF out

-----------------------------------------------------------------------------
(* Types. *)

\* What may be in the file.
FileTypes == keyFile \in [Zone -> Keys] /\ stateFile \in States \union {"torn"}

\* A file that was torn holds no key.
LEMMA TornTypes == Torn => FileTypes'
BY RelayAssumption DEF Torn, FileTypes, NoKeys, Keys

\* Saving writes what it is given, leaves the file as it was, or tears it.
LEMMA SaveTypes ==
    ASSUME TypeOK, NEW k \in [Zone -> Keys], NEW s \in States, Save(k, s)
    PROVE  FileTypes' /\ faults' \in 0 .. MaxFaults
BY RelayAssumption, TornTypes DEF Save, Fault, TypeOK, FileTypes

\* A clone of the config is a config.
LEMMA CloneTypes ==
    ASSUME TypeOK, NEW t \in Tasks, Clone(t), keys' \in [Zone -> Keys]
    PROVE  declaring' \in SUBSET Tasks /\ copiedKeys' \in [Tasks -> [Zone -> Keys]]
           /\ copiedState' \in [Tasks -> States]
BY DEF Clone, TypeOK

\* Whoever has its answer is no task that declares any more, and holds no clone.
LEMMA DeclaredTypes ==
    ASSUME TypeOK, NEW t \in Tasks, Declared(t)
    PROVE  declaring' \in SUBSET Tasks /\ copiedKeys' \in [Tasks -> [Zone -> Keys]]
           /\ copiedState' \in [Tasks -> States] /\ loop' \in {"sleep", "apply", "declare"}
<1>1. NoKeys \in [Zone -> Keys]
  BY RelayAssumption DEF NoKeys, Keys
<1> QED BY <1>1 DEF Declared, TypeOK, States

\* A process that dies leaves everything typed that it does not save.
LEMMA DiesTypes ==
    ASSUME TypeOK, Dies, state' \in States, FileTypes', faults' \in 0 .. MaxFaults
    PROVE  TypeOK'
<1>1. NoKeys \in [Zone -> Keys] /\ "active" \in States /\ <<>> \in Seq(Points)
  BY RelayAssumption, EmptySeq DEF NoKeys, Keys, States
<1> QED BY <1>1 DEF Dies, TypeOK, FileTypes

\* A step keeps every variable in its type, provided the queue is within its limit.
LEMMA TypeStep == TypeOK /\ Len(queue) <= QueueLimit /\ [Next]_vars => TypeOK'
<1> SUFFICES ASSUME TypeOK, Len(queue) <= QueueLimit, [Next]_vars PROVE TypeOK'
  OBVIOUS
<1>1. ASSUME NEW m \in Zone, Pair(m) PROVE TypeOK'
  <2>1. keys' \in [Zone -> Keys] /\ issued' \in [Zone -> Keys] /\ state \in States
    BY <1>1, RelayAssumption DEF Pair, TypeOK, Keys
  <2>2. FileTypes' /\ faults' \in 0 .. MaxFaults
    BY <1>1, <2>1, SaveTypes DEF Pair
  <2>3. declaring' \in SUBSET Tasks /\ copiedKeys' \in [Tasks -> [Zone -> Keys]] /\ copiedState' \in [Tasks -> States]
    BY <1>1, <2>1, CloneTypes DEF Pair, Tasks
  <2> QED BY <1>1, <2>1, <2>2, <2>3 DEF Pair, TypeOK, FileTypes
<1>2. ASSUME NEW m \in Zone, Ingest(m) PROVE TypeOK'
  <2>1. sent' \in Points /\ sent' \in 0 .. MaxPoints
    BY <1>2, RelayAssumption DEF Ingest, TypeOK, Points
  <2>2. queue' \in Seq(Points) /\ Len(queue) \in Nat
        /\ Len(queue') = Len(queue) + 1 - (IF Len(queue) = QueueLimit THEN 1 ELSE 0)
    BY <1>2, <2>1, NewestOf, LenProperties DEF Ingest, TypeOK
  <2>3. evictions' \in Nat
    BY <1>2, <2>2 DEF Ingest, TypeOK
  <2> QED BY <1>2, <2>1, <2>2, <2>3 DEF Ingest, TypeOK
<1>3. ASSUME NEW k \in AskedKinds, Ask(k) PROVE TypeOK'
  BY <1>3, RelayAssumption DEF Ask, TypeOK
<1>4. CASE Start
  BY <1>4 DEF Start, TypeOK
<1>5. CASE Polled
  BY <1>5 DEF Polled, TypeOK
<1>6. CASE PolledNothing
  BY <1>6 DEF PolledNothing, GoesOn, TypeOK
<1>7. ASSUME NEW k \in Kinds, Carry(k) PROVE TypeOK'
  BY <1>7 DEF Carry, StateOf, Kinds, States, TypeOK
<1>8. CASE Merge
  <2>1. FileTypes' /\ faults' \in 0 .. MaxFaults /\ state' \in States
    BY <1>8, SaveTypes DEF Merge, TypeOK
  <2>2. CASE leaving
    BY <1>8, <2>1, <2>2, DiesTypes DEF Merge
  <2>3. CASE ~leaving
    BY <1>8, <2>1, <2>3 DEF Merge, GoesOn, States, TypeOK, FileTypes
  <2> QED BY <2>2, <2>3
<1>9. CASE LoopDeclares
  <2>1. declaring' \in SUBSET Tasks /\ copiedKeys' \in [Tasks -> [Zone -> Keys]] /\ copiedState' \in [Tasks -> States]
    BY <1>9, CloneTypes DEF LoopDeclares, Tasks, TypeOK
  <2> QED BY <1>9, <2>1 DEF LoopDeclares, TypeOK
<1>10. CASE Push
  <2>1. sending' \in Seq(Points)
    BY <1>10, RelayAssumption, FirstOf DEF Push, TypeOK
  <2> QED BY <1>10, <2>1 DEF Push, TypeOK
<1>11. CASE Pushed
  <2>1. queue' \in Seq(Points) /\ sending' \in Seq(Points)
    BY <1>11, RestOf, LenProperties, EmptySeq DEF Pushed, TypeOK
  <2>2. received' \in SUBSET Points
    BY <1>11, RangeOfSeq DEF Pushed, Arrive, TypeOK
  <2>3. dropped' \in SUBSET Points
    BY <1>11, FirstOf, LenProperties, RangeOfSeq DEF Pushed, TypeOK
  <2> QED BY <1>11, <2>1, <2>2, <2>3 DEF Pushed, TypeOK
<1>12. CASE NotPushed
  <2>1. sending' \in Seq(Points) /\ received' \in SUBSET Points
    BY <1>12, EmptySeq, RangeOfSeq DEF NotPushed, Arrive, TypeOK
  <2> QED BY <1>12, <2>1 DEF NotPushed, TypeOK
<1>13. CASE HoldExpires
  BY <1>13 DEF HoldExpires, TypeOK
<1>14. CASE Crash
  <2>1. faults' \in 0 .. MaxFaults
    BY <1>14, RelayAssumption DEF Crash, Fault, TypeOK
  <2>2. state' \in States /\ FileTypes'
    BY <1>14, TornTypes DEF Crash, TypeOK, FileTypes
  <2> QED BY <1>14, <2>1, <2>2, DiesTypes DEF Crash
<1>15. ASSUME NEW t \in Tasks, DeclareZone(t) PROVE TypeOK'
  <2>1. FileTypes' /\ faults' \in 0 .. MaxFaults
    BY <1>15, SaveTypes DEF DeclareZone, TypeOK
  <2> QED BY <1>15, <2>1, DeclaredTypes DEF DeclareZone, TypeOK, FileTypes
<1>16. ASSUME NEW t \in Tasks, DeclareFails(t) PROVE TypeOK'
  BY <1>16, DeclaredTypes DEF DeclareFails, TypeOK
<1>17. CASE UNCHANGED vars
  BY <1>17 DEF vars, TypeOK
<1> QED
  BY <1>1, <1>2, <1>3, <1>4, <1>5, <1>6, <1>7, <1>8, <1>9, <1>10, <1>11, <1>12, <1>13, <1>14, <1>15,
     <1>16, <1>17 DEF Next, Serving, Refresh, Forward, Declare

-----------------------------------------------------------------------------
(* Pairing. *)

\* No copy of a machine's entry is newer than the key it was last answered: not
\* the live one, not the file, not the clone a declaration carries.
Behind(k) == \A m \in Zone : k[m] <= issued[m]
KeysBehind == Behind(keys) /\ Behind(keyFile) /\ \A t \in Tasks : Behind(copiedKeys[t])

\* Entries are only made by pairing, which issues their key, and copied.
LEMMA KeysStep == TypeOK /\ KeysBehind /\ [Next]_vars => KeysBehind'
<1> SUFFICES ASSUME TypeOK, KeysBehind, [Next]_vars PROVE KeysBehind'
  OBVIOUS
<1>1. \A m \in Zone : NoKeys[m] <= issued[m]
  BY RelayAssumption DEF NoKeys, TypeOK, Keys
<1>2. ASSUME NEW m \in Zone, Pair(m) PROVE KeysBehind'
  <2>1. /\ issued'[m] = issued[m] + 1 /\ keys'[m] = issued'[m]
        /\ \A o \in Zone \ {m} : issued'[o] = issued[o] /\ keys'[o] = keys[o]
    BY <1>2 DEF Pair, TypeOK
  <2>2. \A o \in Zone : issued[o] \in Nat /\ issued'[o] \in Nat /\ issued[o] <= issued'[o]
    <3>1. \A o \in Zone : issued[o] \in Nat
      BY RelayAssumption DEF TypeOK, Keys
    <3> QED BY <2>1, <3>1
  <2>3. Behind(keys)'
    BY <2>1, <2>2 DEF KeysBehind, Behind
  <2>4. \A k \in [Zone -> Keys] : Behind(k) => \A o \in Zone : k[o] <= issued'[o]
    BY <2>2, RelayAssumption DEF Behind, Keys
  <2>5. Behind(keyFile)'
    <3>1. Behind(NoKeys)'
      BY <2>2, RelayAssumption DEF Behind, NoKeys
    <3> QED BY <1>2, <2>3, <2>4, <3>1 DEF Pair, Save, Torn, KeysBehind, Behind, TypeOK
  <2>6. ASSUME NEW t \in Tasks PROVE Behind(copiedKeys[t])'
    <3>1. copiedKeys'[t] = keys' \/ copiedKeys'[t] = copiedKeys[t]
      BY <1>2 DEF Pair, Clone, TypeOK
    <3> QED BY <2>3, <2>4, <3>1 DEF KeysBehind, Behind, TypeOK
  <2> QED BY <2>3, <2>5, <2>6 DEF KeysBehind
<1>3. ASSUME issued' = issued,
             keys' = keys \/ keys' = keyFile,
             keyFile' \in {keyFile, keys, NoKeys} \/ \E t \in Tasks : keyFile' = copiedKeys[t],
             \A t \in Tasks : copiedKeys'[t] \in {copiedKeys[t], keys, NoKeys}
      PROVE  KeysBehind'
  BY <1>1, <1>3 DEF KeysBehind, Behind
<1>4. ASSUME NEW m \in Zone, Ingest(m) PROVE KeysBehind'
  BY <1>3, <1>4 DEF Ingest
<1>5. ASSUME NEW k \in Kinds, Ask(k) \/ Carry(k) PROVE KeysBehind'
  BY <1>3, <1>5 DEF Ask, Carry
<1>6. CASE Start \/ Polled \/ PolledNothing
  BY <1>3, <1>6 DEF Start, Polled, PolledNothing
<1>7. CASE Merge
  BY <1>3, <1>7 DEF Merge, Save, Torn, Dies
<1>8. CASE LoopDeclares
  BY <1>3, <1>8 DEF LoopDeclares, Clone, TypeOK
<1>9. CASE Push \/ Pushed \/ NotPushed \/ HoldExpires
  BY <1>3, <1>9 DEF Push, Pushed, NotPushed, HoldExpires
<1>10. CASE Crash
  BY <1>3, <1>10 DEF Crash, Torn, Dies
<1>11. ASSUME NEW t \in Tasks, DeclareZone(t) \/ DeclareFails(t) PROVE KeysBehind'
  BY <1>3, <1>11 DEF DeclareZone, DeclareFails, Declared, Save, Torn, TypeOK
<1>12. CASE UNCHANGED vars
  BY <1>3, <1>12 DEF vars
<1> QED
  BY <1>2, <1>4, <1>5, <1>6, <1>7, <1>8, <1>9, <1>10, <1>11, <1>12, RelayAssumption
     DEF Next, Serving, Refresh, Forward, Declare

\* What a step of a relay that serves does to the live list: it pairs a machine,
\* or leaves the list alone.
LEMMA ServingKeys ==
    ASSUME TypeOK, [Next]_vars, phase = "serve", phase' = "serve"
    PROVE  keys' = keys \/ \E m \in Zone : Pair(m)
<1>1. ASSUME NEW m \in Zone, Ingest(m) PROVE keys' = keys
  BY <1>1 DEF Ingest
<1>2. ASSUME NEW k \in Kinds, Ask(k) \/ Carry(k) PROVE keys' = keys
  BY <1>2 DEF Ask, Carry
<1>3. ASSUME Polled \/ PolledNothing \/ LoopDeclares PROVE keys' = keys
  BY <1>3 DEF Polled, PolledNothing, LoopDeclares
<1>4. ASSUME Merge \/ Start \/ Crash PROVE keys' = keys
  BY <1>4 DEF Merge, Start, Crash, Dies
<1>5. ASSUME Push \/ Pushed \/ NotPushed \/ HoldExpires PROVE keys' = keys
  BY <1>5 DEF Push, Pushed, NotPushed, HoldExpires
<1>6. ASSUME NEW t \in Tasks, DeclareZone(t) \/ DeclareFails(t) PROVE keys' = keys
  BY <1>6 DEF DeclareZone, DeclareFails
<1>7. ASSUME UNCHANGED vars PROVE keys' = keys
  BY <1>7 DEF vars
<1> QED
  BY <1>1, <1>2, <1>3, <1>4, <1>5, <1>6, <1>7, RelayAssumption DEF Next, Serving, Refresh, Forward, Declare

-----------------------------------------------------------------------------
(* The queue. *)

\* The number of the point at the front of the queue, or of the next one.
Oldest == sent - Len(queue) + 1

\* The queue holds the last points in the order they were sent, and what is being
\* pushed are consecutive ones that begin no later than the queue does.
Ordered ==
    /\ Len(queue) <= QueueLimit /\ Len(queue) <= sent
    /\ \A i \in 1 .. Len(queue) : queue[i] = sent - Len(queue) + i
    /\ \A i \in 1 .. Len(sending) : sending[i] = sending[1] + i - 1
    /\ sending # <<>> => sending[1] <= Oldest

\* Where the points that are neither pushed now nor queued come to an end.
Front == IF sending = <<>> THEN Oldest ELSE sending[1]

Lost(n, got) == (1 .. n - 1) \ got

\* The points lost before a push began, and those that had to make room since:
\* when the push is confirmed, it takes as many off the queue as it may.
Paid == Cardinality(Lost(Front, received)) + (Oldest - Front) <= evictions

\* So many points can be counted.
LEMMA LostIsFinite ==
    ASSUME NEW n \in Nat, NEW got
    PROVE  IsFiniteSet(Lost(n, got)) /\ Cardinality(Lost(n, got)) \in Nat
<1>1. IsFiniteSet(1 .. n - 1)
  BY FS_Interval
<1>2. Lost(n, got) \subseteq 1 .. n - 1
  BY DEF Lost
<1> QED BY <1>1, <1>2, FS_Subset, FS_CardinalityType

\* Of the points from f on, those before the one numbered h are lost unless they
\* arrived; a push that took k of them from f on leaves h - f - k at most.
LEMMA LostUpTo ==
    ASSUME NEW f \in Nat \ {0}, NEW h \in Nat, NEW k \in Nat, f <= h, NEW got, NEW more,
           got \subseteq more, \A p \in f .. f + k - 1 : p \in more
    PROVE  \A n \in Nat : n <= h + k =>
              Cardinality(Lost(n, more)) <= Cardinality(Lost(f, got)) + (h - f)
<1> SUFFICES ASSUME NEW n \in Nat, n <= h + k
             PROVE  Cardinality(Lost(n, more)) <= Cardinality(Lost(f, got)) + (h - f)
  OBVIOUS
<1> DEFINE rest == (f + k) .. (n - 1)
<1>1. Lost(n, more) \subseteq Lost(f, got) \union rest
  BY DEF Lost
<1>2. IsFiniteSet(rest) /\ Cardinality(rest) <= h - f /\ Cardinality(rest) \in Nat
  <2>1. f + k \in Int /\ n - 1 \in Int
    OBVIOUS
  <2>2. IsFiniteSet(rest) /\ Cardinality(rest) = IF f + k > n - 1 THEN 0 ELSE n - 1 - (f + k) + 1
    BY <2>1, FS_Interval
  <2> HIDE DEF rest
  <2> QED BY <2>2
<1>3. IsFiniteSet(Lost(f, got)) /\ Cardinality(Lost(f, got)) \in Nat
  BY LostIsFinite
<1> HIDE DEF rest
<1>4. /\ IsFiniteSet(Lost(f, got) \union rest)
      /\ Cardinality(Lost(f, got) \union rest) =
            Cardinality(Lost(f, got)) + Cardinality(rest) - Cardinality(Lost(f, got) \intersect rest)
  BY <1>2, <1>3, FS_Union
<1>5. Cardinality(Lost(f, got) \intersect rest) \in Nat
  <2>1. Lost(f, got) \intersect rest \subseteq rest
    OBVIOUS
  <2> QED BY <1>2, <2>1, FS_Subset, FS_CardinalityType
<1>6. Cardinality(Lost(n, more)) <= Cardinality(Lost(f, got) \union rest)
      /\ Cardinality(Lost(n, more)) \in Nat /\ Cardinality(Lost(f, got) \union rest) \in Nat
  BY <1>1, <1>4, FS_Subset, FS_CardinalityType
<1> QED BY <1>2, <1>3, <1>4, <1>5, <1>6

\* Numbers, for the steps below.
LEMMA Numbers ==
    ASSUME TypeOK, Ordered
    PROVE  /\ Len(queue) \in Nat /\ Len(sending) \in Nat /\ sent \in Nat /\ evictions \in Nat
           /\ QueueLimit \in Nat \ {0} /\ Chunk \in Nat \ {0}
           /\ Oldest \in Nat \ {0} /\ Front \in Nat \ {0} /\ Front <= Oldest
           /\ sending # <<>> => Len(sending) >= 1
<1>1. Len(queue) \in Nat /\ Len(sending) \in Nat /\ (sending # <<>> => Len(sending) >= 1)
  BY LenProperties, EmptySeq DEF TypeOK
<1>2. sent \in Nat /\ evictions \in Nat /\ QueueLimit \in Nat \ {0} /\ Chunk \in Nat \ {0}
  BY RelayAssumption DEF TypeOK
<1>3. sending # <<>> => sending[1] \in Nat \ {0}
  <2>1. sending # <<>> => sending[1] \in Points
    BY <1>1, ElementOfSeq DEF TypeOK
  <2> QED BY <2>1, RelayAssumption DEF Points
<1>4. Oldest \in Nat \ {0}
  BY <1>1, <1>2 DEF Oldest, Ordered
<1> QED BY <1>1, <1>2, <1>3, <1>4 DEF Front, Ordered

\* A push that is given up for dead costs nothing but what made room meanwhile.
LEMMA GivenUp ==
    ASSUME TypeOK, Ordered, Paid, queue' = queue, sent' = sent, evictions' = evictions,
           sending' = <<>>, received \subseteq received'
    PROVE  Ordered' /\ Paid'
<1>1. Ordered'
  BY EmptySeq DEF Ordered, Oldest
<1>2. Front' = Oldest /\ Oldest' = Oldest
  BY DEF Front, Oldest
<1>3. Cardinality(Lost(Oldest, received')) <= Cardinality(Lost(Front, received)) + (Oldest - Front)
  <2>1. \A p \in Front .. Front + 0 - 1 : p \in received'
    BY Numbers
  <2>2. Front \in Nat \ {0} /\ Oldest \in Nat /\ 0 \in Nat /\ Front <= Oldest /\ Oldest <= Oldest + 0
    BY Numbers
  <2> HIDE DEF Front, Oldest
  <2> QED BY <2>1, <2>2, LostUpTo
<1>4. Cardinality(Lost(Oldest, received')) \in Nat /\ Cardinality(Lost(Front, received)) \in Nat
  BY Numbers, LostIsFinite
<1>5. Paid' = (Cardinality(Lost(Oldest, received')) + (Oldest - Oldest) <= evictions)
  BY <1>2 DEF Paid, Lost
<1> QED BY <1>1, <1>3, <1>4, <1>5, Numbers DEF Paid

\* A point that comes in goes to the end; at the limit the oldest makes room, and
\* that is counted.
LEMMA IngestKeeps ==
    ASSUME TypeOK, Ordered, Paid, NEW m \in Zone, Ingest(m)
    PROVE  Ordered' /\ Paid'
<1> DEFINE out == IF Len(queue) = QueueLimit THEN 1 ELSE 0
<1>1. sent' = sent + 1 /\ sent' \in Points /\ sending' = sending /\ received' = received
  BY RelayAssumption DEF Ingest, TypeOK, Points
<1>2. /\ Len(queue') = Len(queue) + 1 - out
      /\ \A i \in 1 .. Len(queue) - out : queue'[i] = queue[i + out]
      /\ queue'[Len(queue) + 1 - out] = sent'
  <2>1. queue' = Newest(Append(queue, sent')) /\ queue \in Seq(Points) /\ Len(queue) <= QueueLimit
    BY DEF Ingest, TypeOK, Ordered
  <2> QED BY <1>1, <2>1, NewestOf
<1>3. out \in {0, 1} /\ out <= Len(queue) /\ Len(queue) + 1 - out <= QueueLimit
  BY Numbers DEF Ordered
<1> HIDE DEF out
<1>4. Oldest' = Oldest + out /\ evictions' = evictions + out
  <2>1. evictions' = evictions + (Len(queue) + 1 - Len(queue'))
    BY DEF Ingest
  <2>2. Len(queue) + 1 - Len(queue') = out
    BY <1>2, <1>3, Numbers
  <2>3. (sent + 1) - (Len(queue) + 1 - out) + 1 = (sent - Len(queue) + 1) + out
    BY <1>3, Numbers
  <2> QED BY <1>1, <1>2, <2>1, <2>2, <2>3 DEF Oldest
<1>5. Ordered'
  <2>1. Len(queue') <= QueueLimit /\ Len(queue') <= sent'
    BY <1>1, <1>2, <1>3, Numbers DEF Ordered
  <2>2. ASSUME NEW i \in 1 .. Len(queue') PROVE queue'[i] = sent' - Len(queue') + i
    <3>1. CASE i = Len(queue')
      BY <1>1, <1>2, <1>3, <3>1, Numbers
    <3>2. CASE i # Len(queue')
      <4>1. i \in 1 .. Len(queue) - out /\ i + out \in 1 .. Len(queue)
        BY <1>2, <1>3, <2>2, <3>2, Numbers
      <4>2. queue'[i] = sent - Len(queue) + (i + out)
        BY <1>2, <4>1 DEF Ordered
      <4> QED BY <1>1, <1>2, <1>3, <4>1, <4>2, Numbers
    <3> QED BY <3>1, <3>2
  <2>3. sending' # <<>> => sending'[1] <= Oldest'
    <3>1. sending # <<>> => Front = sending[1]
      BY DEF Front
    <3> QED BY <1>1, <1>3, <1>4, <3>1, Numbers
  <2> QED BY <1>1, <2>1, <2>2, <2>3 DEF Ordered
<1>6. CASE sending # <<>>
  <2>1. Front' = Front /\ Lost(Front, received)' = Lost(Front, received)
    BY <1>1, <1>6 DEF Front, Lost
  <2>2. Cardinality(Lost(Front, received)) \in Nat
    BY Numbers, LostIsFinite
  <2>3. Cardinality(Lost(Front, received)) + (Oldest + out - Front) <= evictions + out
    BY <1>3, <2>2, Numbers DEF Paid
  <2>4. Oldest' - Front' = Oldest + out - Front
    BY <1>3, <1>4, <2>1, Numbers
  <2> QED BY <1>4, <1>5, <2>1, <2>3, <2>4 DEF Paid
<1>7. CASE sending = <<>>
  <2>1. Front = Oldest /\ Front' = Oldest + out
    BY <1>1, <1>4, <1>7 DEF Front
  <2>2. Cardinality(Lost(Oldest + out, received)) <= Cardinality(Lost(Oldest, received)) + (Oldest + out - Oldest)
    <3> DEFINE h == Oldest + out
    <3>1. Oldest \in Nat \ {0} /\ h \in Nat /\ 0 \in Nat /\ Oldest <= h /\ h <= h + 0
      BY <1>3, Numbers
    <3>2. \A p \in Oldest .. Oldest + 0 - 1 : p \in received
      BY Numbers
    <3> HIDE DEF Oldest, h
    <3>3. Cardinality(Lost(h, received)) <= Cardinality(Lost(Oldest, received)) + (h - Oldest)
      BY <3>1, <3>2, LostUpTo
    <3> QED BY <1>3, <3>3, Numbers DEF h
  <2>3. Cardinality(Lost(Oldest + out, received)) \in Nat /\ Cardinality(Lost(Oldest, received)) \in Nat
    BY <1>3, Numbers, LostIsFinite
  <2>4. Cardinality(Lost(Oldest, received)) + (Oldest - Oldest) <= evictions
    BY <2>1 DEF Paid
  <2>5. Cardinality(Lost(Oldest + out, received)) <= evictions + out
    BY <1>3, <2>2, <2>3, <2>4, Numbers
  <2>6. Lost(Front, received)' = Lost(Oldest + out, received) /\ Oldest' - Front' = 0
    BY <1>1, <1>3, <1>4, <2>1, Numbers DEF Lost
  <2>7. Cardinality(Lost(Oldest + out, received)) + 0 <= evictions + out
    BY <2>3, <2>5
  <2> QED BY <1>4, <1>5, <2>6, <2>7 DEF Paid
<1> QED BY <1>6, <1>7

\* A push begins at the front of the queue.
LEMMA PushKeeps ==
    ASSUME TypeOK, Ordered, Paid, Push
    PROVE  Ordered' /\ Paid'
<1>1. /\ sending = <<>> /\ queue # <<>> /\ queue' = queue /\ sent' = sent
      /\ received' = received /\ evictions' = evictions
  BY DEF Push
<1>2. Len(queue) >= 1
  BY <1>1, EmptySeq DEF TypeOK
<1>3. Cut(Chunk, queue) \in 1 .. Len(queue)
  BY <1>2, Numbers DEF Cut
<1>4. Len(sending') = Cut(Chunk, queue) /\ \A i \in 1 .. Cut(Chunk, queue) : sending'[i] = queue[i]
  BY Numbers, FirstOf DEF Push, TypeOK
<1>5. \A i \in 1 .. Len(sending') : sending'[i] = sent - Len(queue) + i
  <2> SUFFICES ASSUME NEW i \in 1 .. Len(sending') PROVE sending'[i] = sent - Len(queue) + i
    OBVIOUS
  <2>1. i \in 1 .. Cut(Chunk, queue) /\ i \in 1 .. Len(queue)
    BY <1>3, <1>4, Numbers
  <2> QED BY <1>4, <2>1 DEF Ordered
<1>6. sending' # <<>> /\ sending'[1] = Oldest
  <2>1. 1 \in 1 .. Len(sending')
    BY <1>3, <1>4, Numbers
  <2>2. sending' # <<>>
    BY <2>1, EmptySeq
  <2> QED BY <1>5, <2>1, <2>2, Numbers DEF Oldest
<1>7. \A i \in 1 .. Len(sending') : sending'[i] = sending'[1] + i - 1
  BY <1>3, <1>4, <1>5, <1>6, Numbers DEF Oldest
<1>8. Ordered'
  BY <1>1, <1>6, <1>7, Numbers DEF Ordered, Oldest
<1>9. Front' = Oldest /\ Front = Oldest /\ Oldest' = Oldest
  BY <1>1, <1>6 DEF Front, Oldest
<1> QED BY <1>1, <1>8, <1>9 DEF Paid, Lost

\* A push that is confirmed takes as many points off the front as it sent; what
\* made room while it was away is what those are that it did not send.
LEMMA PushedKeeps ==
    ASSUME TypeOK, Ordered, Paid, Pushed
    PROVE  Ordered' /\ Paid'
<1> DEFINE k == Len(sending)
           c == Cut(k, queue)
<1>1. /\ sending # <<>> /\ sending' = <<>> /\ sent' = sent /\ evictions' = evictions
      /\ received' = received \union Range(sending) /\ queue' = Rest(k, queue)
  BY DEF Pushed, Arrive
<1>2. k \in Nat \ {0} /\ c \in 0 .. Len(queue) /\ c <= k
  BY <1>1, Numbers DEF Cut
<1>3. Len(queue') = Len(queue) - c /\ \A i \in 1 .. Len(queue) - c : queue'[i] = queue[i + c]
  BY <1>1, <1>2, RestOf DEF TypeOK
<1> HIDE DEF c
<1>4. Oldest' = Oldest + c
  BY <1>1, <1>2, <1>3, Numbers DEF Oldest
<1>5. Ordered'
  <2>1. Len(queue') <= QueueLimit /\ Len(queue') <= sent'
    BY <1>1, <1>2, <1>3, Numbers DEF Ordered
  <2>2. ASSUME NEW i \in 1 .. Len(queue') PROVE queue'[i] = sent' - Len(queue') + i
    <3>1. i \in 1 .. Len(queue) - c /\ i + c \in 1 .. Len(queue)
      BY <1>2, <1>3, Numbers
    <3>2. queue'[i] = sent - Len(queue) + (i + c)
      BY <1>3, <3>1 DEF Ordered
    <3> QED BY <1>1, <1>2, <1>3, <3>1, <3>2, Numbers
  <2> QED BY <1>1, <2>1, <2>2, EmptySeq DEF Ordered
<1>6. Front = sending[1] /\ Front' = Oldest + c
  BY <1>1, <1>4 DEF Front
<1>7. \A p \in Front .. Front + k - 1 : p \in received'
  <2> SUFFICES ASSUME NEW p \in Front .. Front + k - 1
               PROVE  p \in Range(sending)
    BY <1>1
  <2>1. p - Front + 1 \in 1 .. k /\ p = Front + (p - Front + 1) - 1
    BY <1>2, Numbers
  <2>2. sending[p - Front + 1] = p
    BY <1>6, <2>1, Numbers DEF Ordered
  <2>3. Range(sending) = {sending[i] : i \in 1 .. k}
    BY RangeEquality DEF TypeOK
  <2> QED BY <2>1, <2>2, <2>3
<1>8. Cardinality(Lost(Oldest + c, received')) <= Cardinality(Lost(Front, received)) + (Oldest - Front)
  <2>1. Front \in Nat \ {0} /\ Oldest \in Nat /\ k \in Nat /\ Front <= Oldest
        /\ Oldest + c \in Nat /\ Oldest + c <= Oldest + k
    BY <1>2, Numbers
  <2>2. received \subseteq received'
    BY <1>1
  <2> HIDE DEF Front, Oldest, k
  <2> QED BY <1>7, <2>1, <2>2, LostUpTo
<1>9. Cardinality(Lost(Oldest + c, received')) \in Nat /\ Cardinality(Lost(Front, received)) \in Nat
  BY <1>2, Numbers, LostIsFinite
<1>10. Lost(Front, received)' = Lost(Oldest + c, received') /\ Oldest' - Front' = 0
  BY <1>2, <1>4, <1>6, Numbers DEF Lost
<1>11. Cardinality(Lost(Oldest + c, received')) + 0 <= evictions
  BY <1>8, <1>9, Numbers DEF Paid
<1> QED BY <1>1, <1>5, <1>10, <1>11 DEF Paid

\* Every other step leaves the queue and what is pushed alone.
LEMMA QueueStep == TypeOK /\ Ordered /\ Paid /\ [Next]_vars => Ordered' /\ Paid'
<1> SUFFICES ASSUME TypeOK, Ordered, Paid, [Next]_vars PROVE Ordered' /\ Paid'
  OBVIOUS
<1>1. ASSUME queue' = queue, sent' = sent, sending' = sending, received' = received, evictions' = evictions
      PROVE  Ordered' /\ Paid'
  BY <1>1 DEF Ordered, Paid, Front, Oldest, Lost
<1>2. ASSUME NEW m \in Zone, Pair(m) \/ Ingest(m) PROVE Ordered' /\ Paid'
  BY <1>1, <1>2, IngestKeeps DEF Pair
<1>3. ASSUME NEW k \in Kinds, Ask(k) \/ Carry(k) PROVE Ordered' /\ Paid'
  BY <1>1, <1>3 DEF Ask, Carry
<1>4. CASE Start \/ Polled \/ PolledNothing \/ LoopDeclares
  BY <1>1, <1>4 DEF Start, Polled, PolledNothing, LoopDeclares
<1>5. CASE Merge \/ Crash
  <2>1. CASE Dies
    BY <2>1, GivenUp DEF Dies
  <2>2. CASE ~Dies
    BY <1>1, <1>5, <2>2 DEF Merge, Crash
  <2> QED BY <2>1, <2>2
<1>6. CASE Push \/ Pushed
  BY <1>6, PushKeeps, PushedKeeps
<1>7. CASE NotPushed
  BY <1>7, GivenUp DEF NotPushed, Arrive
<1>8. CASE HoldExpires
  BY <1>1, <1>8 DEF HoldExpires
<1>9. ASSUME NEW t \in Tasks, DeclareZone(t) \/ DeclareFails(t) PROVE Ordered' /\ Paid'
  BY <1>1, <1>9 DEF DeclareZone, DeclareFails
<1>10. CASE UNCHANGED vars
  BY <1>1, <1>10 DEF vars
<1> QED
  BY <1>2, <1>3, <1>4, <1>5, <1>6, <1>7, <1>8, <1>9, <1>10, RelayAssumption
     DEF Next, Serving, Refresh, Forward, Declare

-----------------------------------------------------------------------------
(* The invariant, and the theorems. *)

\* What each step keeps.
IInv == TypeOK /\ KeysBehind /\ Ordered /\ Paid

\* It holds before the relay is first started.
LEMMA Initially == Init => IInv
<1> SUFFICES ASSUME Init PROVE IInv
  OBVIOUS
<1>1. NoKeys \in [Zone -> Keys] /\ <<>> \in Seq(Points) /\ Len(<<>>) = 0
  BY RelayAssumption, EmptySeq DEF NoKeys, Keys
<1>2. TypeOK
  <2>1. 0 \in 0 .. MaxFaults /\ 0 \in 0 .. MaxPoints /\ 0 \in 0 .. MaxAsks /\ 0 \in Nat
    BY RelayAssumption
  <2> QED BY <1>1, <2>1 DEF Init, TypeOK, States
<1>3. KeysBehind
  BY RelayAssumption DEF Init, KeysBehind, Behind, NoKeys
<1>4. Ordered
  BY <1>1, RelayAssumption DEF Init, Ordered
<1>5. Oldest = 1 /\ Front = 1 /\ Lost(1, received) = {} /\ evictions = 0
  BY <1>1 DEF Init, Oldest, Front, Lost
<1>6. Paid
  BY <1>5, FS_EmptySet DEF Paid
<1> QED BY <1>2, <1>3, <1>4, <1>6 DEF IInv

\* The invariant holds of every run.
LEMMA Always == Spec => []IInv
<1>1. IInv /\ [Next]_vars => IInv'
  BY TypeStep, KeysStep, QueueStep DEF IInv, Ordered
<1> QED BY Initially, <1>1, PTL DEF Spec

\* The config, the queue and every copy of them keep their types.
THEOREM Types == Spec => []TypeOK
<1>1. IInv => TypeOK
  BY DEF IInv
<1> QED BY Always, <1>1, PTL

\* A relay that serves forgets no machine that paired, whatever its loops, its
\* instructions and the answers to its declarations carried over a call.
THEOREM RemembersPairings == Spec => NoPairingForgotten
<1>1. ASSUME IInv, [Next]_vars, phase = "serve", phase' = "serve", NEW m \in Zone
      PROVE  keys'[m] >= keys[m]
  <2>1. keys[m] \in Nat /\ issued[m] \in Nat /\ keys[m] <= issued[m]
    BY <1>1, RelayAssumption DEF IInv, TypeOK, Keys, KeysBehind, Behind
  <2>2. CASE keys' = keys
    BY <2>1, <2>2
  <2>3. ASSUME NEW o \in Zone, Pair(o) PROVE keys'[m] >= keys[m]
    <3>1. keys'[m] = keys[m] \/ keys'[m] = issued[m] + 1
      BY <1>1, <2>3 DEF Pair, IInv, TypeOK
    <3> QED BY <2>1, <3>1
  <2> QED BY <1>1, <2>2, <2>3, ServingKeys DEF IInv
<1>2. IInv /\ [Next]_vars =>
         [phase = "serve" /\ phase' = "serve" => \A m \in Zone : keys'[m] >= keys[m]]_vars
  BY <1>1
<1> QED BY Always, <1>2, PTL DEF Spec, NoPairingForgotten

\* A point of the zone is queued, or has arrived, or one more has made room: no
\* overflow during a push, lost answer, crash or restart costs a second one
\* (proxy.rs spawn_flush, runner.rs drop_front).
THEOREM PaysOnce == Spec => []RoomIsPaidOnce
<1>1. ASSUME IInv PROVE RoomIsPaidOnce
  <2> USE <1>1 DEF IInv
  <2>1. (1 .. sent) \ (Range(queue) \union received) \subseteq Lost(Oldest, received)
    <3> SUFFICES ASSUME NEW p \in 1 .. sent, p \notin Range(queue)
                 PROVE  p \in 1 .. Oldest - 1
      BY DEF Lost
    <3>1. Range(queue) = {queue[i] : i \in 1 .. Len(queue)}
      BY RangeEquality DEF TypeOK
    <3>2. CASE p >= Oldest
      <4>1. PICK i \in 1 .. Len(queue) : i = p - Oldest + 1
        BY <3>2, Numbers DEF Oldest
      <4>2. queue[i] = sent - Len(queue) + i
        BY DEF Ordered
      <4>3. queue[i] = p
        BY <4>1, <4>2, Numbers DEF Oldest
      <4> QED BY <3>1, <4>3
    <3> QED BY <3>2, Numbers
  <2>2. Cardinality(Lost(Oldest, received)) <= Cardinality(Lost(Front, received)) + (Oldest - Front)
    <3>1. Front \in Nat \ {0} /\ Oldest \in Nat /\ 0 \in Nat /\ Front <= Oldest /\ Oldest <= Oldest + 0
      BY Numbers
    <3>2. \A p \in Front .. Front + 0 - 1 : p \in received
      BY Numbers
    <3> HIDE DEF Front, Oldest
    <3> QED BY <3>1, <3>2, LostUpTo
  <2>3. /\ IsFiniteSet(Lost(Oldest, received)) /\ Cardinality(Lost(Oldest, received)) \in Nat
        /\ Cardinality(Lost(Front, received)) \in Nat
    BY Numbers, LostIsFinite
  <2>4. Cardinality((1 .. sent) \ (Range(queue) \union received)) <= Cardinality(Lost(Oldest, received))
        /\ Cardinality((1 .. sent) \ (Range(queue) \union received)) \in Nat
    BY <2>1, <2>3, FS_Subset, FS_CardinalityType
  <2> QED BY <2>2, <2>3, <2>4, Numbers DEF Paid, RoomIsPaidOnce
<1> QED BY Always, <1>1, PTL

=============================================================================
