---------------------------- MODULE Fleet_proofs -----------------------------
(***************************************************************************)
(* Proofs about the fleet, for any machines, names, codes and requests and *)
(* any number of faults.                                                   *)
(***************************************************************************)
EXTENDS Fleet, FiniteSetTheorems, TLAPS

USE DEF Keys, Rows

\* A key that some row holds, or held, was written to it by the pairing that
\* bears its name, and a pairing writes once.
Past  == {"retire", "answer", "done", "ended"}
Early == {"new", "declare", "claim", "issue", "find", "register"}

\* The rows a request may still insert are not there.
Fresh ==
    \A q \in Requests, n \in Names :
        step[q] \in Early => /\ status[<<q, n>>] = "none" /\ held[<<q, n>>] = None
                             /\ install[<<q, n>>] = None /\ parent[<<q, n>>] = None

\* A row that holds a key was written by a pairing, and no two hold the same.
Keyed ==
    /\ \A x \in Rows : held[x] # None => step[held[x]] \in Past
    /\ \A x \in Rows : install[x] # None => held[x] # None
    /\ \A x, y \in Rows : held[x] # None /\ held[x] = held[y] => x = y

\* A pairing that is about to write has a key that works.
Alive ==
    \A q \in Requests :
        /\ step[q] \in {"issue", "find", "register"} => machine[q] \in Machines
        /\ step[q] \in {"find", "register"} => key[q] = "live"

\* Only the rows a request has read hold the keys it will revoke; when it
\* revokes them, no active row does.
Doomed ==
    \A q \in Requests : \A k \in doomed[q] :
        /\ step[k] \in Past
        /\ \A x \in Rows : held[x] = k =>
              /\ step[q] \in {"register", "mark", "bulk"} => x \in found[q]
              /\ step[q] = "kill" => status[x] # "active"
              /\ step[q] # "retire"

\* A pairing writes one row, which bears the machine's install id.
Finds ==
    \A q \in Requests : step[q] = "register" =>
        \A x \in found[q] : install[x] = machine[q] /\ \A y \in found[q] : x = y

\* The rows a declaration matched hold no key, and never will.
Matches ==
    \A q \in Requests, n \in Names :
        match[q][n] # None => held[match[q][n]] = None /\ status[match[q][n]] # "none"

\* An operator's request knows the key of each row it read, unless crossed.
Known ==
    \A q \in Requests : step[q] \in {"mark", "bulk"} =>
        \A x \in found[q] : x \in crossed \/ held[x] = None \/ held[x] \in doomed[q]

\* Machines no two of whose pairings found nothing at once have one row, or one
\* pairing that will insert it.
Single ==
    \A m \in Machines \ twinned :
        /\ \A x, y \in Rows : Exists(x) /\ Exists(y) /\ install[x] = m /\ install[y] = m => x = y
        /\ \A q \in Requests : step[q] = "register" /\ machine[q] = m /\ found[q] = {} =>
              /\ \A x \in Rows : Exists(x) => install[x] # m
              /\ \A p \in Requests : step[p] = "register" /\ machine[p] = m /\ found[p] = {} => p = q

IInv == /\ TypeOK /\ Fresh /\ Keyed /\ Alive /\ Doomed /\ Finds /\ Matches /\ Known /\ Single
        /\ NeverLockedOut /\ RevocationIsReal /\ DirectBehindNothing

-----------------------------------------------------------------------------
(* Shared facts. *)

\* A key that is to be revoked is not one a pairing is about to write.
LEMMA DoomedIsPast ==
    ASSUME IInv, NEW q \in Requests, NEW k \in doomed[q]
    PROVE  k \in Requests /\ step[k] \in Past /\ step[k] \notin {"issue", "find", "register"}
BY DEF IInv, Doomed, Past, TypeOK

\* Nothing new that bears an install id, nothing new about to be written.
LEMMA SingleKept ==
    ASSUME Single, twinned' = twinned,
           \A x \in Rows : Exists(x)' => Exists(x) /\ install'[x] = install[x],
           \A q \in Requests : step'[q] = "register" =>
              step[q] = "register" /\ machine'[q] = machine[q] /\ found'[q] = found[q]
    PROVE  Single'
BY DEF Single

\* No row is revoked anew, and no request to revoke one is done.
LEMMA RevocationKept ==
    ASSUME RevocationIsReal, crossed' = crossed,
           \A x \in Rows : status'[x] = "revoked" /\ held'[x] # None /\ key'[held'[x]] = "live"
              => status[x] = "revoked" /\ held'[x] = held[x] /\ key[held[x]] = "live",
           \A q \in Requests : step[q] \in {"kill", "half"} =>
              step'[q] \in {"kill", "half"} /\ doomed'[q] = doomed[q]
    PROVE  RevocationIsReal'
BY DEF RevocationIsReal, Unfinished

-----------------------------------------------------------------------------
(* The steps, one by one. *)

\* Minting changes a code only.
LEMMA MintStep ==
    ASSUME IInv, NEW c \in Codes, Mint(c)
    PROVE  IInv'
<1> USE FleetAssumption DEF IInv, TypeOK, codes, agents, request, ghosts, Mint
<1>1. TypeOK'
  BY DEF Steps
<1>2. Fresh'
  BY DEF Fresh, Early
<1>3. Keyed'
  BY DEF Keyed, Past
<1>4. Alive'
  BY DEF Alive
<1>5. Doomed'
  BY DEF Doomed, Past
<1>6. Finds'
  BY DEF Finds
<1>7. Matches'
  BY DEF Matches
<1>8. Known'
  BY DEF Known
<1>9. Single'
  BY SingleKept DEF Exists
<1>10. NeverLockedOut'
  BY DEF NeverLockedOut
<1>11. RevocationIsReal'
  BY DEF RevocationIsReal, Unfinished
<1>12. DirectBehindNothing'
  BY DEF DirectBehindNothing
<1> QED
  BY <1>1, <1>2, <1>3, <1>4, <1>5, <1>6, <1>7, <1>8, <1>9, <1>10, <1>11, <1>12 DEF IInv

\* So does expiring.
LEMMA ExpireStep ==
    ASSUME IInv, NEW c \in Codes, Expire(c)
    PROVE  IInv'
<1> USE FleetAssumption DEF IInv, TypeOK, codes, agents, request, ghosts, Expire
<1>1. TypeOK'
  BY DEF Steps
<1>2. Fresh'
  BY DEF Fresh, Early
<1>3. Keyed'
  BY DEF Keyed, Past
<1>4. Alive'
  BY DEF Alive
<1>5. Doomed'
  BY DEF Doomed, Past
<1>6. Finds'
  BY DEF Finds
<1>7. Matches'
  BY DEF Matches
<1>8. Known'
  BY DEF Known
<1>9. Single'
  BY SingleKept DEF Exists
<1>10. NeverLockedOut'
  BY DEF NeverLockedOut
<1>11. RevocationIsReal'
  BY DEF RevocationIsReal, Unfinished
<1>12. DirectBehindNothing'
  BY DEF DirectBehindNothing
<1> QED
  BY <1>1, <1>2, <1>3, <1>4, <1>5, <1>6, <1>7, <1>8, <1>9, <1>10, <1>11, <1>12 DEF IInv

\* A pairing that starts has read a code and nothing else.
LEMMA PairStep ==
    ASSUME IInv, NEW q \in Requests, NEW c \in Codes, NEW m \in Machines, Pair(q, m, c)
    PROVE  IInv'
<1> USE FleetAssumption DEF IInv, TypeOK, codes, agents, request, ghosts, Pair, Goes, To
<1>1. TypeOK'
  BY DEF Steps
<1>2. Fresh'
  BY DEF Fresh, Early
<1>3. Keyed'
  BY DEF Keyed, Past
<1>4. Alive'
  BY DEF Alive
<1>5. Doomed'
  BY DEF Doomed, Past
<1>6. Finds'
  BY DEF Finds
<1>7. Matches'
  BY DEF Matches
<1>8. Known'
  BY DEF Known
<1>9. Single'
  BY SingleKept DEF Exists
<1>10. NeverLockedOut'
  BY DEF NeverLockedOut
<1>11. RevocationIsReal'
  BY RevocationKept
<1>12. DirectBehindNothing'
  BY DEF DirectBehindNothing
<1> QED
  BY <1>1, <1>2, <1>3, <1>4, <1>5, <1>6, <1>7, <1>8, <1>9, <1>10, <1>11, <1>12 DEF IInv

\* So has a relay's redemption.
LEMMA RedeemStep ==
    ASSUME IInv, NEW q \in Requests, NEW c \in Codes, NEW r \in Relays, Redeem(q, r, c)
    PROVE  IInv'
<1> USE FleetAssumption DEF IInv, TypeOK, codes, agents, request, ghosts, Redeem, Goes, To
<1>1. TypeOK'
  BY DEF Steps
<1>2. Fresh'
  BY DEF Fresh, Early
<1>3. Keyed'
  BY DEF Keyed, Past
<1>4. Alive'
  BY DEF Alive
<1>5. Doomed'
  BY DEF Doomed, Past
<1>6. Finds'
  BY DEF Finds
<1>7. Matches'
  BY DEF Matches
<1>8. Known'
  BY DEF Known
<1>9. Single'
  BY SingleKept DEF Exists
<1>10. NeverLockedOut'
  BY DEF NeverLockedOut
<1>11. RevocationIsReal'
  BY RevocationKept
<1>12. DirectBehindNothing'
  BY DEF DirectBehindNothing
<1> QED
  BY <1>1, <1>2, <1>3, <1>4, <1>5, <1>6, <1>7, <1>8, <1>9, <1>10, <1>11, <1>12 DEF IInv

\* The new key is nobody's yet.
LEMMA IssueStep ==
    ASSUME IInv, NEW q \in Requests, Issue(q)
    PROVE  IInv'
<1> USE FleetAssumption DEF IInv, TypeOK, codes, agents, request, ghosts, Issue, Goes, To
<1>1. TypeOK'
  BY DEF Steps
<1>2. Fresh'
  BY DEF Fresh, Early
<1>3. Keyed'
  BY DEF Keyed, Past
<1>4. Alive'
  BY DEF Alive
<1>5. Doomed'
  BY DEF Doomed, Past
<1>6. Finds'
  BY DEF Finds
<1>7. Matches'
  BY DEF Matches
<1>8. Known'
  BY DEF Known
<1>9. Single'
  BY SingleKept DEF Exists
<1>10. NeverLockedOut'
  BY DEF NeverLockedOut
<1>11. RevocationIsReal'
  <2>1. \A x \in Rows : held[x] # q
    <3>1. step[q] = "issue" /\ q # None
      OBVIOUS
    <3>2. \A x \in Rows : held[x] # None => step[held[x]] \in Past
      BY DEF Keyed
    <3> QED
      BY <3>1, <3>2 DEF Past
  <2>2. ASSUME NEW x \in Rows, held[x] # None PROVE key'[held'[x]] = key[held[x]]
    <3>1. held'[x] = held[x] /\ held[x] \in Keys /\ held[x] # q
      BY <2>1, <2>2
    <3> QED
      BY <3>1
  <2> QED
    BY <2>2, RevocationKept
<1>12. DirectBehindNothing'
  BY DEF DirectBehindNothing
<1> QED
  BY <1>1, <1>2, <1>3, <1>4, <1>5, <1>6, <1>7, <1>8, <1>9, <1>10, <1>11, <1>12 DEF IInv

\* What a pairing retires no row holds.
LEMMA RetireStep ==
    ASSUME IInv, NEW q \in Requests, Retire(q)
    PROVE  IInv'
<1> USE FleetAssumption DEF IInv, TypeOK, codes, agents, request, ghosts, Retire, Goes, To, Revoked
<1>1. TypeOK'
  BY DEF Steps
<1>2. Fresh'
  BY DEF Fresh, Early
<1>3. Keyed'
  BY DEF Keyed, Past
<1>4. Alive'
  BY DoomedIsPast DEF Alive
<1>5. Doomed'
  BY DEF Doomed, Past
<1>6. Finds'
  BY DEF Finds
<1>7. Matches'
  BY DEF Matches
<1>8. Known'
  BY DEF Known
<1>9. Single'
  BY SingleKept DEF Exists
<1>10. NeverLockedOut'
  BY DEF NeverLockedOut, Doomed
<1>11. RevocationIsReal'
  BY RevocationKept
<1>12. DirectBehindNothing'
  BY DEF DirectBehindNothing
<1> QED
  BY <1>1, <1>2, <1>3, <1>4, <1>5, <1>6, <1>7, <1>8, <1>9, <1>10, <1>11, <1>12 DEF IInv

\* An answer changes the machine's config only.
LEMMA AnswerStep ==
    ASSUME IInv, NEW q \in Requests, Answer(q)
    PROVE  IInv'
<1> USE FleetAssumption DEF IInv, TypeOK, codes, agents, request, ghosts, Answer, Goes, To
<1>1. TypeOK'
  BY DEF Steps
<1>2. Fresh'
  BY DEF Fresh, Early
<1>3. Keyed'
  BY DEF Keyed, Past
<1>4. Alive'
  BY DEF Alive
<1>5. Doomed'
  BY DEF Doomed, Past
<1>6. Finds'
  BY DEF Finds
<1>7. Matches'
  BY DEF Matches
<1>8. Known'
  BY DEF Known
<1>9. Single'
  BY SingleKept DEF Exists
<1>10. NeverLockedOut'
  BY DEF NeverLockedOut
<1>11. RevocationIsReal'
  BY RevocationKept
<1>12. DirectBehindNothing'
  BY DEF DirectBehindNothing
<1> QED
  BY <1>1, <1>2, <1>3, <1>4, <1>5, <1>6, <1>7, <1>8, <1>9, <1>10, <1>11, <1>12 DEF IInv

\* A request to revoke has read a row and its key.
LEMMA DeleteStep ==
    ASSUME IInv, NEW q \in Requests, NEW x \in Rows, Delete(q, x)
    PROVE  IInv'
<1> USE FleetAssumption DEF IInv, TypeOK, codes, agents, request, ghosts, Delete, Goes, To, Exists, KeysOf
<1>1. TypeOK'
  BY DEF Steps
<1>2. Fresh'
  BY DEF Fresh, Early
<1>3. Keyed'
  BY DEF Keyed, Past
<1>4. Alive'
  BY DEF Alive
<1>5. Doomed'
  BY DEF Doomed, Past, Keyed
<1>6. Finds'
  BY DEF Finds
<1>7. Matches'
  BY DEF Matches
<1>8. Known'
  BY DEF Known
<1>9. Single'
  BY SingleKept DEF Exists
<1>10. NeverLockedOut'
  BY DEF NeverLockedOut
<1>11. RevocationIsReal'
  BY RevocationKept
<1>12. DirectBehindNothing'
  BY DEF DirectBehindNothing
<1> QED
  BY <1>1, <1>2, <1>3, <1>4, <1>5, <1>6, <1>7, <1>8, <1>9, <1>10, <1>11, <1>12 DEF IInv

\* A row that is marked is not active.
LEMMA MarkStep ==
    ASSUME IInv, NEW q \in Requests, Mark(q)
    PROVE  IInv'
<1> USE FleetAssumption DEF IInv, TypeOK, codes, agents, request, ghosts, Mark, Goes, To, Exists
<1>1. TypeOK'
  BY DEF Steps
<1>2. Fresh'
  BY DEF Fresh, Early
<1>3. Keyed'
  BY DEF Keyed, Past
<1>4. Alive'
  BY DEF Alive
<1>5. Doomed'
  BY DEF Doomed, Past
<1>6. Finds'
  BY DEF Finds
<1>7. Matches'
  BY DEF Matches
<1>8. Known'
  BY DEF Known
<1>9. Single'
  BY SingleKept DEF Exists
<1>10. NeverLockedOut'
  BY DEF NeverLockedOut
<1>11. RevocationIsReal'
  BY DEF RevocationIsReal, Unfinished, Known
<1>12. DirectBehindNothing'
  BY DEF DirectBehindNothing
<1> QED
  BY <1>1, <1>2, <1>3, <1>4, <1>5, <1>6, <1>7, <1>8, <1>9, <1>10, <1>11, <1>12 DEF IInv

\* No active row holds a key that is killed.
LEMMA KillStep ==
    ASSUME IInv, NEW q \in Requests, Kill(q)
    PROVE  IInv'
<1> USE FleetAssumption DEF IInv, TypeOK, codes, agents, request, ghosts, Kill, Goes, To, Revoked
<1>1. TypeOK'
  BY DEF Steps
<1>2. Fresh'
  BY DEF Fresh, Early
<1>3. Keyed'
  BY DEF Keyed, Past
<1>4. Alive'
  BY DoomedIsPast DEF Alive
<1>5. Doomed'
  BY DEF Doomed, Past
<1>6. Finds'
  BY DEF Finds
<1>7. Matches'
  BY DEF Matches
<1>8. Known'
  BY DEF Known
<1>9. Single'
  BY SingleKept DEF Exists
<1>10. NeverLockedOut'
  BY DEF NeverLockedOut, Doomed
<1>11. RevocationIsReal'
  BY DEF RevocationIsReal, Unfinished
<1>12. DirectBehindNothing'
  BY DEF DirectBehindNothing
<1> QED
  BY <1>1, <1>2, <1>3, <1>4, <1>5, <1>6, <1>7, <1>8, <1>9, <1>10, <1>11, <1>12 DEF IInv

\* A request to revoke several has read their keys.
LEMMA SelectStep ==
    ASSUME IInv, NEW q \in Requests, NEW S \in SUBSET There, Select(q, S)
    PROVE  IInv'
<1> USE FleetAssumption DEF IInv, TypeOK, codes, agents, request, ghosts, Select, Goes, To, KeysOf, There, Exists
<1>1. TypeOK'
  BY DEF Steps
<1>2. Fresh'
  BY DEF Fresh, Early
<1>3. Keyed'
  BY DEF Keyed, Past
<1>4. Alive'
  BY DEF Alive
<1>5. Doomed'
  BY DEF Doomed, Past, Keyed
<1>6. Finds'
  BY DEF Finds
<1>7. Matches'
  BY DEF Matches
<1>8. Known'
  BY DEF Known
<1>9. Single'
  BY SingleKept DEF Exists
<1>10. NeverLockedOut'
  BY DEF NeverLockedOut
<1>11. RevocationIsReal'
  BY RevocationKept
<1>12. DirectBehindNothing'
  BY DEF DirectBehindNothing
<1> QED
  BY <1>1, <1>2, <1>3, <1>4, <1>5, <1>6, <1>7, <1>8, <1>9, <1>10, <1>11, <1>12 DEF IInv

\* Rows and keys go together.
LEMMA BulkRevokeStep ==
    ASSUME IInv, NEW q \in Requests, BulkRevoke(q)
    PROVE  IInv'
<1> USE FleetAssumption DEF IInv, TypeOK, codes, agents, request, ghosts, BulkRevoke, Goes, To, Revoked, Exists
<1>1. TypeOK'
  BY DEF Steps
<1>2. Fresh'
  BY DEF Fresh, Early
<1>3. Keyed'
  BY DEF Keyed, Past
<1>4. Alive'
  BY DoomedIsPast DEF Alive
<1>5. Doomed'
  BY DEF Doomed, Past
<1>6. Finds'
  BY DEF Finds
<1>7. Matches'
  BY DEF Matches
<1>8. Known'
  BY DEF Known
<1>9. Single'
  BY SingleKept DEF Exists
<1>10. NeverLockedOut'
  BY DEF NeverLockedOut, Doomed
<1>11. RevocationIsReal'
  BY DEF RevocationIsReal, Unfinished, Known, Doomed
<1>12. DirectBehindNothing'
  BY DEF DirectBehindNothing
<1> QED
  BY <1>1, <1>2, <1>3, <1>4, <1>5, <1>6, <1>7, <1>8, <1>9, <1>10, <1>11, <1>12 DEF IInv

\* Rows and keys go together, and what was behind the rows is behind nothing.
LEMMA BulkDeleteStep ==
    ASSUME IInv, NEW q \in Requests, BulkDelete(q)
    PROVE  IInv'
<1> USE FleetAssumption DEF IInv, TypeOK, codes, agents, request, ghosts, BulkDelete, Goes, To, Revoked, Exists
<1>1. TypeOK'
  BY DEF Steps
<1>2. Fresh'
  BY DEF Fresh, Early
<1>3. Keyed'
  BY DEF Keyed, Past
<1>4. Alive'
  BY DoomedIsPast DEF Alive
<1>5. Doomed'
  BY DEF Doomed, Past
<1>6. Finds'
  BY DEF Finds
<1>7. Matches'
  BY DEF Matches
<1>8. Known'
  BY DEF Known
<1>9. Single'
  BY SingleKept DEF Exists
<1>10. NeverLockedOut'
  BY DEF NeverLockedOut, Doomed
<1>11. RevocationIsReal'
  BY DEF RevocationIsReal, Unfinished
<1>12. DirectBehindNothing'
  BY DEF DirectBehindNothing
<1> QED
  BY <1>1, <1>2, <1>3, <1>4, <1>5, <1>6, <1>7, <1>8, <1>9, <1>10, <1>11, <1>12 DEF IInv

\* A name is nothing these rows are known by.
LEMMA RenameStep ==
    ASSUME IInv, NEW x \in Rows, NEW n \in Names, Rename(x, n)
    PROVE  IInv'
<1> USE FleetAssumption DEF IInv, TypeOK, codes, agents, request, ghosts, Rename, Exists
<1>1. TypeOK'
  BY DEF Steps
<1>2. Fresh'
  BY DEF Fresh, Early
<1>3. Keyed'
  BY DEF Keyed, Past
<1>4. Alive'
  BY DEF Alive
<1>5. Doomed'
  BY DEF Doomed, Past
<1>6. Finds'
  BY DEF Finds
<1>7. Matches'
  BY DEF Matches
<1>8. Known'
  BY DEF Known
<1>9. Single'
  BY SingleKept DEF Exists
<1>10. NeverLockedOut'
  BY DEF NeverLockedOut
<1>11. RevocationIsReal'
  BY DEF RevocationIsReal, Unfinished
<1>12. DirectBehindNothing'
  BY DEF DirectBehindNothing
<1> QED
  BY <1>1, <1>2, <1>3, <1>4, <1>5, <1>6, <1>7, <1>8, <1>9, <1>10, <1>11, <1>12 DEF IInv

\* A request cut short is past writing.
LEMMA CutShortStep ==
    ASSUME IInv, NEW S \in SUBSET OnTheirWay, CutShort(S)
    PROVE  IInv'
<1> USE FleetAssumption DEF IInv, TypeOK, codes, agents, request, ghosts, CutShort, OnTheirWay
<1>1. TypeOK'
  BY DEF Steps
<1>2. Fresh'
  BY DEF Fresh, Early
<1>3. Keyed'
  BY DEF Keyed, Past
<1>4. Alive'
  BY DEF Alive
<1>5. Doomed'
  BY DEF Doomed, Past
<1>6. Finds'
  BY DEF Finds
<1>7. Matches'
  BY DEF Matches
<1>8. Known'
  BY DEF Known
<1>9. Single'
  BY SingleKept DEF Exists
<1>10. NeverLockedOut'
  BY DEF NeverLockedOut
<1>11. RevocationIsReal'
  BY DEF RevocationIsReal, Unfinished
<1>12. DirectBehindNothing'
  BY DEF DirectBehindNothing
<1> QED
  BY <1>1, <1>2, <1>3, <1>4, <1>5, <1>6, <1>7, <1>8, <1>9, <1>10, <1>11, <1>12 DEF IInv

\* The rows a declaration matches hold no key.
LEMMA MatchStep ==
    ASSUME IInv, NEW q \in Requests, NEW r \in Relays, NEW seen \in SUBSET Zone[r], Match(q, r, seen)
    PROVE  IInv'
<1> USE FleetAssumption DEF IInv, TypeOK, codes, agents, request, ghosts, Match, Matched, Goes, To
<1>0. PICK x \in ProxyOf(r) : found' = [found EXCEPT ![q] = {x}]
  OBVIOUS
<1>1. PICK f \in [Names -> Rows \union {None}] :
          /\ match' = [match EXCEPT ![q] = f]
          /\ \A n \in Names : f[n] # None => f[n] \in Keyless(n)
  OBVIOUS
<1>2. TypeOK'
  BY <1>0, <1>1 DEF Steps, ProxyOf, There
<1>3. Fresh'
  BY DEF Fresh, Early
<1>4. Keyed'
  BY DEF Keyed, Past
<1>5. Alive'
  BY DEF Alive
<1>6. Doomed'
  BY DEF Doomed, Past
<1>7. Finds'
  BY DEF Finds
<1>8. Matches'
  <2> SUFFICES ASSUME NEW p \in Requests, NEW n \in Names, match'[p][n] # None
               PROVE  held[match'[p][n]] = None /\ status[match'[p][n]] # "none"
    BY DEF Matches
  <2>1. CASE p = q
    <3>1. match'[p][n] = f[n] /\ held' = held /\ status' = status
      BY <1>1, <2>1
    <3>2. f[n] \in Keyless(n)
      BY <1>1, <3>1
    <3> QED
      BY <3>1, <3>2 DEF Keyless, There, Exists
  <2>2. CASE p # q
    BY <1>1, <2>2 DEF Matches
  <2> QED
    BY <2>1, <2>2
<1>9. Known'
  BY DEF Known
<1>10. Single'
  BY SingleKept DEF Exists
<1>11. NeverLockedOut'
  BY DEF NeverLockedOut
<1>12. RevocationIsReal'
  BY RevocationKept
<1>13. DirectBehindNothing'
  BY DEF DirectBehindNothing
<1> QED
  BY <1>2, <1>3, <1>4, <1>5, <1>6, <1>7, <1>8, <1>9, <1>10, <1>11, <1>12, <1>13 DEF IInv

\* A pairing finds its row, or is the only one that finds none.
LEMMA FindStep ==
    ASSUME IInv, NEW q \in Requests, Find(q)
    PROVE  IInv'
<1> DEFINE m == machine[q]
<1> USE FleetAssumption DEF IInv, TypeOK, codes, agents, request, ghosts, Find, Goes, To
<1>1. m \in Machines /\ step[q] = "find" /\ step' = [step EXCEPT ![q] = "register"]
  BY DEF Alive
<1>a. PICK S \in {{}} \union {{x} : x \in Installed(m)} :
          /\ S = {} => Installed(m) = {}
          /\ found' = [found EXCEPT ![q] = S] /\ doomed' = [doomed EXCEPT ![q] = KeysOf(S)]
  OBVIOUS
<1>2. /\ S \subseteq Installed(m)
      /\ \A x, y \in S : x = y
      /\ S = {} => Installed(m) = {}
      /\ found' = [found EXCEPT ![q] = S] /\ doomed' = [doomed EXCEPT ![q] = KeysOf(S)]
  BY <1>a
<1>3. TypeOK'
  BY <1>1, <1>2 DEF Steps, Installed, There, KeysOf
<1>4. Fresh'
  BY <1>1 DEF Fresh, Early
<1>5. Keyed'
  BY <1>1 DEF Keyed, Past
<1>6. Alive'
  BY <1>1 DEF Alive
<1>7. Doomed'
  <2> SUFFICES ASSUME NEW p \in Requests, NEW k \in doomed'[p]
               PROVE  /\ step'[k] \in Past
                      /\ \A x \in Rows : held[x] = k =>
                            /\ step'[p] \in {"register", "mark", "bulk"} => x \in found'[p]
                            /\ step'[p] = "kill" => status[x] # "active"
                            /\ step'[p] # "retire"
    BY DEF Doomed
  <2>1. CASE p = q
    BY <1>1, <1>2, <2>1 DEF Keyed, KeysOf, Installed, There, Past
  <2>2. CASE p # q
    BY <1>1, <1>2, <2>2 DEF Doomed, Past
  <2> QED
    BY <2>1, <2>2
<1>8. Finds'
  BY <1>1, <1>2 DEF Finds, Installed
<1>9. Matches'
  BY DEF Matches
<1>10. Known'
  BY <1>1, <1>2 DEF Known
<1>11. Single'
  <2> SUFFICES ASSUME NEW o \in Machines \ twinned'
               PROVE  /\ \A x, y \in Rows : Exists(x)' /\ Exists(y)' /\ install'[x] = o /\ install'[y] = o => x = y
                      /\ \A p \in Requests : step'[p] = "register" /\ machine'[p] = o /\ found'[p] = {} =>
                            /\ \A x \in Rows : Exists(x)' => install'[x] # o
                            /\ \A s \in Requests : step'[s] = "register" /\ machine'[s] = o /\ found'[s] = {} => s = p
    BY DEF Single
  <2>1. o \notin twinned
    OBVIOUS
  <2>2. \A x, y \in Rows : Exists(x)' /\ Exists(y)' /\ install'[x] = o /\ install'[y] = o => x = y
    BY <2>1 DEF Single, Exists
  <2>3. ASSUME NEW p \in Requests, step'[p] = "register", machine'[p] = o, found'[p] = {},
               NEW x \in Rows, Exists(x)'
        PROVE  install'[x] # o
    <3>0. Exists(x) /\ install' = install
      BY <2>3 DEF Exists
    <3>1. CASE p = q
      BY <1>1, <1>2, <2>3, <3>0, <3>1 DEF Installed, There
    <3>2. CASE p # q
      <4>1. step[p] = "register" /\ machine[p] = o /\ found[p] = {}
        BY <1>1, <1>2, <2>3, <3>2
      <4> QED
        BY <2>1, <3>0, <4>1 DEF Single
    <3> QED
      BY <3>1, <3>2
  <2>4. ASSUME NEW p \in Requests, step'[p] = "register", machine'[p] = o, found'[p] = {},
               NEW s \in Requests, step'[s] = "register", machine'[s] = o, found'[s] = {}
        PROVE  s = p
    <3>1. CASE p # q /\ s # q
      <4>1. /\ step[p] = "register" /\ machine[p] = o /\ found[p] = {}
            /\ step[s] = "register" /\ machine[s] = o /\ found[s] = {}
        BY <1>1, <1>2, <2>4, <3>1
      <4> QED
        BY <2>1, <4>1 DEF Single
    <3>2. CASE p = q /\ s # q
      <4>1. step[s] = "register" /\ machine[s] = m /\ found[s] = {} /\ Installed(m) = {}
        BY <1>1, <1>2, <2>4, <3>2
      <4> QED
        BY <2>4, <3>2, <4>1 DEF Unwritten
    <3>3. CASE p # q /\ s = q
      <4>1. step[p] = "register" /\ machine[p] = m /\ found[p] = {} /\ Installed(m) = {}
        BY <1>1, <1>2, <2>4, <3>3
      <4> QED
        BY <2>4, <3>3, <4>1 DEF Unwritten
    <3> QED
      BY <3>1, <3>2, <3>3
  <2> QED
    BY <2>2, <2>3, <2>4
<1>12. NeverLockedOut'
  BY DEF NeverLockedOut
<1>13. RevocationIsReal'
  BY <1>1, <1>2, RevocationKept
<1>14. DirectBehindNothing'
  BY DEF DirectBehindNothing
<1> QED
  BY <1>3, <1>4, <1>5, <1>6, <1>7, <1>8, <1>9, <1>10, <1>11, <1>12, <1>13, <1>14 DEF IInv

\* A claim spends a use and nothing else.
LEMMA ClaimStep ==
    ASSUME IInv, NEW q \in Requests, Claim(q)
    PROVE  IInv'
<1> USE FleetAssumption DEF IInv, TypeOK, codes, agents, request, ghosts
<1>1. PICK next \in {"issue", "done", "refused"} :
          /\ step[q] = "claim" /\ step' = [step EXCEPT ![q] = next]
          /\ next = "issue" => machine[q] # None
  BY DEF Claim, To
<1>2. uses' = [uses EXCEPT ![redeems[q]] = @ + 1] \/ uses' = uses
  BY DEF Claim
<1>3. UNCHANGED <<code, key, agents, holds, request, ghosts, faults>>
  BY DEF Claim
<1>4. TypeOK'
  <2>3. uses' \in [Codes -> Nat]
    <3>1. CASE redeems[q] \in Codes
      <4>1. uses[redeems[q]] + 1 \in Nat
        BY <3>1
      <4>2. CASE uses' = [uses EXCEPT ![redeems[q]] = @ + 1]
        BY <4>1, <4>2
      <4> QED
        BY <1>2, <4>2
    <3>2. CASE redeems[q] \notin Codes
      BY <1>2, <3>2
    <3> QED
      BY <3>1, <3>2
  <2> QED
    BY <1>1, <1>3, <2>3 DEF Steps
<1>5. Fresh'
  BY <1>1, <1>3 DEF Fresh, Early
<1>6. Keyed'
  BY <1>1, <1>3 DEF Keyed, Past
<1>7. Alive'
  BY <1>1, <1>3 DEF Alive
<1>8. Doomed'
  BY <1>1, <1>3 DEF Doomed, Past
<1>9. Finds'
  BY <1>1, <1>3 DEF Finds
<1>10. Matches'
  BY <1>3 DEF Matches
<1>11. Known'
  BY <1>1, <1>3 DEF Known
<1>12. Single'
  BY <1>1, <1>3, SingleKept DEF Exists
<1>13. NeverLockedOut'
  BY <1>3 DEF NeverLockedOut
<1>14. RevocationIsReal'
  BY <1>1, <1>3, RevocationKept
<1>15. DirectBehindNothing'
  BY <1>3 DEF DirectBehindNothing
<1> QED
  BY <1>4, <1>5, <1>6, <1>7, <1>8, <1>9, <1>10, <1>11, <1>12, <1>13, <1>14, <1>15 DEF IInv

\* A pairing writes its key to its own row, or to one that was not there.
LEMMA WrittenStep ==
    ASSUME IInv, NEW q \in Requests, step[q] = "register", NEW x \in Rows, Written(q, x),
           (x \in found[q] /\ Exists(x)) \/ (found[q] = {} /\ x = <<q, Hostname[machine[q]]>>),
           UNCHANGED <<codes, key, parent, holds, request, twinned, faults>>
    PROVE  IInv'
<1> USE FleetAssumption DEF IInv, TypeOK, codes, request
<1>1. machine[q] \in Machines /\ machine[q] # None /\ key[q] = "live" /\ q # None
  BY DEF Alive
<1>2. /\ step' = [step EXCEPT ![q] = "retire"]
      /\ status' = [status EXCEPT ![x] = "active"] /\ held' = [held EXCEPT ![x] = q]
      /\ install' = [install EXCEPT ![x] = machine[q]] /\ name' = [name EXCEPT ![x] = Hostname[machine[q]]]
      /\ crossed' = IF Selected(x) THEN crossed \union {x} ELSE crossed
  BY DEF Written, To
<1>3. \A y \in Rows : held[y] # q
  BY <1>1 DEF Keyed, Past
<1>4. \A y \in found[q] : y = x
  BY DEF Finds
<1>5. x \in found[q] => status[x] # "none" /\ held[x] # None
  BY <1>1 DEF Exists, Finds, Keyed
<1>6. parent[x] = None
  BY <1>5 DEF DirectBehindNothing, Fresh, Early
<1>7. \A p \in Requests, n \in Names : step'[p] \in Early => step[p] \in Early /\ x # <<p, n>>
  BY <1>2, <1>5 DEF Fresh, Early
<1>8. \A p \in Requests, n \in Names : match[p][n] # x
  BY <1>5 DEF Matches, Fresh, Early
<1>9. TypeOK'
  <2>1. crossed' \in SUBSET Rows /\ step' \in [Requests -> Steps]
    BY <1>2 DEF Steps
  <2>2. status' \in [Rows -> {"none", "active", "revoked", "gone"}] /\ held' \in [Rows -> Keys \union {None}]
    BY <1>2
  <2>3. install' \in [Rows -> Machines \union {None}] /\ name' \in [Rows -> Names]
    BY <1>1, <1>2
  <2> QED
    BY <2>1, <2>2, <2>3
<1>10. Fresh'
  BY <1>2, <1>7 DEF Fresh
<1>11. Keyed'
  <2>1. \A k \in Keys : step[k] \in Past \/ k = q => step'[k] \in Past
    BY <1>2 DEF Past
  <2>2. \A y \in Rows : held'[y] = (IF y = x THEN q ELSE held[y])
    BY <1>2
  <2> QED
    BY <1>1, <1>2, <1>3, <2>1, <2>2 DEF Keyed
<1>12. Alive'
  BY <1>2 DEF Alive
<1>13. Doomed'
  <2> SUFFICES ASSUME NEW p \in Requests, NEW k \in doomed[p]
               PROVE  /\ step'[k] \in Past
                      /\ \A y \in Rows : held'[y] = k =>
                            /\ step'[p] \in {"register", "mark", "bulk"} => y \in found[p]
                            /\ step'[p] = "kill" => status'[y] # "active"
                            /\ step'[p] # "retire"
    BY DEF Doomed
  <2>1. k # q /\ k \in Keys /\ step'[k] \in Past
    BY <1>2, DoomedIsPast DEF Past
  <2>2. \A y \in Rows : held'[y] = k => y # x /\ held[y] = k /\ status'[y] = status[y]
    BY <1>2, <2>1
  <2>3. CASE p = q
    BY <1>4, <2>1, <2>2, <2>3 DEF Doomed
  <2>4. CASE p # q
    BY <1>2, <2>1, <2>2, <2>4 DEF Doomed
  <2> QED
    BY <2>3, <2>4
<1>14. Finds'
  <2> SUFFICES ASSUME NEW p \in Requests, step'[p] = "register", NEW y \in found[p]
               PROVE  install'[y] = machine[p] /\ \A z \in found[p] : y = z
    BY DEF Finds
  <2>1. step[p] = "register" /\ install[y] = machine[p] /\ \A z \in found[p] : y = z
    BY <1>2 DEF Finds
  <2>2. machine[p] # None
    BY <2>1 DEF Alive
  <2>3. y = x => machine[p] = machine[q]
    BY <2>1, <2>2 DEF Finds, Fresh, Early
  <2> QED
    BY <1>2, <2>1, <2>3
<1>15. Matches'
  BY <1>2, <1>8 DEF Matches
<1>16. Known'
  <2> SUFFICES ASSUME NEW p \in Requests, step'[p] \in {"mark", "bulk"}, NEW y \in found[p]
               PROVE  y \in crossed' \/ held'[y] = None \/ held'[y] \in doomed[p]
    BY DEF Known
  <2>1. step[p] \in {"mark", "bulk"} /\ y \in Rows
    BY <1>2
  <2>2. CASE y = x
    BY <1>2, <2>1, <2>2 DEF Selected
  <2>3. CASE y # x
    BY <1>2, <2>1, <2>3 DEF Known
  <2> QED
    BY <2>2, <2>3
<1>17. Single'
  <2> SUFFICES ASSUME NEW m \in Machines \ twinned
               PROVE  /\ \A y, z \in Rows : Exists(y)' /\ Exists(z)' /\ install'[y] = m /\ install'[z] = m => y = z
                      /\ \A p \in Requests : step'[p] = "register" /\ machine[p] = m /\ found[p] = {} =>
                            /\ \A y \in Rows : Exists(y)' => install'[y] # m
                            /\ \A s \in Requests : step'[s] = "register" /\ machine[s] = m /\ found[s] = {} => s = p
    BY DEF Single
  <2>1. \A y \in Rows : y # x => (Exists(y)' <=> Exists(y)) /\ install'[y] = install[y]
    BY <1>2 DEF Exists
  <2>2. \A p \in Requests : step'[p] = "register" <=> step[p] = "register" /\ p # q
    BY <1>2
  <2>3. CASE m # machine[q]
    <3>1. /\ \A y, z \in Rows : Exists(y) /\ Exists(z) /\ install[y] = m /\ install[z] = m => y = z
          /\ \A p \in Requests : step[p] = "register" /\ machine[p] = m /\ found[p] = {} =>
                /\ \A y \in Rows : Exists(y) => install[y] # m
                /\ \A s \in Requests : step[s] = "register" /\ machine[s] = m /\ found[s] = {} => s = p
      BY DEF Single
    <3>2. \A y \in Rows : install'[y] = m => y # x
      BY <1>2, <2>3
    <3> QED
      BY <2>1, <2>2, <3>1, <3>2
  <2>4. CASE m = machine[q] /\ found[q] = {}
    <3>1. \A y \in Rows : Exists(y) => install[y] # m
      BY <2>4 DEF Single
    <3>2. \A p \in Requests : step'[p] = "register" /\ machine[p] = m => found[p] # {}
      BY <2>2, <2>4 DEF Single
    <3> QED
      BY <1>2, <2>1, <3>1, <3>2
  <2>5. CASE m = machine[q] /\ x \in found[q] /\ Exists(x)
    <3>1. install[x] = m
      BY <2>5 DEF Finds
    <3>2. \A p \in Requests : step[p] = "register" /\ machine[p] = m => found[p] # {}
      BY <2>5, <3>1 DEF Single
    <3> QED
      BY <1>2, <2>1, <2>2, <2>5, <3>1, <3>2 DEF Single
  <2> QED
    BY <2>3, <2>4, <2>5
<1>18. NeverLockedOut'
  BY <1>1, <1>2 DEF NeverLockedOut
<1>19. RevocationIsReal'
  <2> SUFFICES ASSUME NEW y \in Rows, status'[y] = "revoked", held'[y] # None, key[held'[y]] = "live"
               PROVE  y \in crossed' \/ Unfinished(y)' # {}
    BY DEF RevocationIsReal
  <2>1. y # x /\ status[y] = "revoked" /\ held'[y] = held[y]
    BY <1>2
  <2>2. \A p \in Requests : p \in Unfinished(y) => p \in Unfinished(y)'
    BY <1>2, <2>1 DEF Unfinished
  <2> QED
    BY <1>2, <2>1, <2>2 DEF RevocationIsReal, Unfinished
<1>20. DirectBehindNothing'
  BY <1>2, <1>6 DEF DirectBehindNothing
<1> QED
  BY <1>9, <1>10, <1>11, <1>12, <1>13, <1>14, <1>15, <1>16, <1>17, <1>18, <1>19, <1>20 DEF IInv

\* So a pairing writes, or finds its row deleted.
LEMMA RegisterStep ==
    ASSUME IInv, NEW q \in Requests, Register(q)
    PROVE  IInv'
<1> USE FleetAssumption DEF IInv, TypeOK
<1>1. step[q] = "register" /\ machine[q] \in Machines
  BY DEF Register, Alive
<1>2. UNCHANGED <<codes, key, parent, holds, request, twinned, faults>>
  BY DEF Register
<1>3. CASE \E x \in found[q] : Exists(x) /\ Written(q, x)
  BY <1>1, <1>2, <1>3, WrittenStep
<1>4. CASE found[q] = {} /\ Written(q, <<q, Hostname[machine[q]]>>)
  BY <1>1, <1>2, <1>4, WrittenStep
<1>5. CASE To(q, "failed") /\ UNCHANGED <<status, held, install, name, crossed>>
  <2> USE <1>1, <1>2, <1>5 DEF To, codes, request
  <2>1. TypeOK'
    BY DEF Steps
  <2>2. Fresh'
    BY DEF Fresh, Early
  <2>3. Keyed'
    BY DEF Keyed, Past
  <2>4. Alive'
    BY DEF Alive
  <2>5. Doomed'
    BY DEF Doomed, Past
  <2>6. Finds'
    BY DEF Finds
  <2>7. Matches' /\ NeverLockedOut' /\ DirectBehindNothing'
    BY DEF Matches, NeverLockedOut, DirectBehindNothing
  <2>8. Known'
    BY DEF Known
  <2>9. Single'
    BY SingleKept DEF Exists
  <2>10. RevocationIsReal'
    BY RevocationKept
  <2> QED
    BY <2>1, <2>2, <2>3, <2>4, <2>5, <2>6, <2>7, <2>8, <2>9, <2>10 DEF IInv
<1> QED
  BY <1>3, <1>4, <1>5 DEF Register

\* A declaration writes rows that hold no key, and no others.
LEMMA DeclareStep ==
    ASSUME IInv, NEW q \in Requests, Declare(q)
    PROVE  IInv'
<1> USE FleetAssumption DEF IInv, TypeOK
<1> DEFINE seen    == declared[q]
           updated == {match[q][n] : n \in seen} \intersect There
           added   == {<<q, n>> : n \in {n \in seen : match[q][n] = None}}
<1>1. step[q] = "declare" /\ seen \subseteq Names
  BY DEF Declare
<1>2. /\ UNCHANGED <<codes, key, held, install, holds, request, ghosts, faults>>
      /\ \E next \in {"done", "failed"} : step' = [step EXCEPT ![q] = next]
  BY DEF Declare, To, agents
<1>3. \A x \in added : x \in Rows /\ status[x] = "none" /\ held[x] = None /\ install[x] = None
  BY <1>1 DEF Fresh, Early
<1>4. \A x \in updated : x \in Rows /\ held[x] = None /\ status[x] # "none"
  BY <1>1 DEF Matches, There
<1>5. status' \in [Rows -> {"none", "active", "revoked", "gone"}]
  BY <1>2 DEF Declare, agents
<1>6. \A x \in Rows : status'[x] = status[x] \/ (status'[x] = "active" /\ x \in added)
  BY DEF Declare, agents
<1>7. name' \in [Rows -> Names]
  <2> DEFINE named(x) == CHOOSE n \in seen : match[q][n] = x
  <2>1. ASSUME NEW x \in updated PROVE named(x) \in Names
    <3>1. \E n \in seen : match[q][n] = x
      OBVIOUS
    <3> HIDE DEF seen, updated
    <3>2. named(x) \in seen
      BY <3>1
    <3> QED
      BY <1>1, <3>2
  <2>2. name' = name \/ name' = [x \in Rows |-> IF x \in updated THEN named(x) ELSE name[x]]
    BY DEF Declare, agents
  <2>3. \A x \in Rows : name[x] \in Names
    OBVIOUS
  <2> HIDE DEF seen, updated, named
  <2>4. CASE name' = [x \in Rows |-> IF x \in updated THEN named(x) ELSE name[x]]
    <3>1. \A x \in Rows : name'[x] \in Names
      BY <2>1, <2>3, <2>4
    <3> QED
      BY <2>4, <3>1
  <2> QED
    BY <2>2, <2>4
<1>8. parent' \in [Rows -> Rows \union {None}]
  <2>1. PICK p \in found[q] :
           \/ parent' = parent
           \/ parent' = [x \in Rows |->
                            IF x \in added \union updated THEN p
                            ELSE IF parent[x] = p /\ (name[x] \notin seen \/ held[x] # None) THEN None
                            ELSE parent[x]]
    BY DEF Declare, agents
  <2>2. p \in Rows /\ \A x \in Rows : parent[x] \in Rows \union {None}
    OBVIOUS
  <2> HIDE DEF seen, updated, added
  <2>3. CASE parent' = parent
    BY <2>3
  <2>4. CASE parent' = [x \in Rows |->
                          IF x \in added \union updated THEN p
                          ELSE IF parent[x] = p /\ (name[x] \notin seen \/ held[x] # None) THEN None
                          ELSE parent[x]]
    <3>1. \A x \in Rows : parent'[x] \in {p, None, parent[x]}
      BY <2>4
    <3>2. \A x \in Rows : parent'[x] \in Rows \union {None}
      BY <2>2, <3>1
    <3> HIDE DEF IInv, TypeOK
    <3> QED
      BY <2>4, <3>2
  <2> QED
    BY <2>1, <2>3, <2>4
<1>9. \A x \in Rows : parent'[x] \in {parent[x], None} \/ x \in added \union updated
  BY DEF Declare, agents
<1> USE DEF codes, request, ghosts
<1> HIDE DEF seen, updated, added
<1>10. \A p \in Requests, n \in Names : step'[p] \in Early => p # q /\ step[p] \in Early
  BY <1>1, <1>2 DEF Early
<1>11. TypeOK'
  <2>1. step' \in [Requests -> Steps]
    BY <1>2 DEF Steps
  <2> QED
    BY <1>2, <1>5, <1>7, <1>8, <2>1
<1>12. Fresh'
  BY <1>2, <1>3, <1>4, <1>6, <1>9, <1>10 DEF Fresh, added
<1>13. Keyed'
  BY <1>1, <1>2 DEF Keyed, Past
<1>14. Alive'
  BY <1>2 DEF Alive
<1>15. Doomed'
  BY <1>1, <1>2, <1>3, <1>6, DoomedIsPast DEF Doomed, Past
<1>16. Finds'
  BY <1>2 DEF Finds
<1>17. Matches'
  BY <1>2, <1>6 DEF Matches
<1>18. Known'
  BY <1>2 DEF Known
<1>19. NeverLockedOut'
  BY <1>2, <1>3, <1>6 DEF NeverLockedOut
<1>20. RevocationIsReal'
  BY <1>1, <1>2, <1>6, RevocationKept
<1>21. DirectBehindNothing'
  BY <1>2, <1>3, <1>4, <1>9 DEF DirectBehindNothing
<1>22. Single'
  <2>1. \A x \in Rows, m \in Machines : Exists(x)' /\ install'[x] = m => Exists(x) /\ install[x] = m
    BY <1>2, <1>3, <1>6 DEF Exists
  <2>2. \A p \in Requests : step'[p] = "register" => step[p] = "register" /\ machine'[p] = machine[p] /\ found'[p] = found[p]
    BY <1>2
  <2> SUFFICES ASSUME NEW m \in Machines \ twinned
               PROVE  /\ \A x, y \in Rows : Exists(x)' /\ Exists(y)' /\ install'[x] = m /\ install'[y] = m => x = y
                      /\ \A p \in Requests : step'[p] = "register" /\ machine'[p] = m /\ found'[p] = {} =>
                            /\ \A x \in Rows : Exists(x)' => install'[x] # m
                            /\ \A s \in Requests : step'[s] = "register" /\ machine'[s] = m /\ found'[s] = {} => s = p
    BY <1>2 DEF Single
  <2>3. /\ \A x, y \in Rows : Exists(x) /\ Exists(y) /\ install[x] = m /\ install[y] = m => x = y
        /\ \A p \in Requests : step[p] = "register" /\ machine[p] = m /\ found[p] = {} =>
              /\ \A x \in Rows : Exists(x) => install[x] # m
              /\ \A s \in Requests : step[s] = "register" /\ machine[s] = m /\ found[s] = {} => s = p
    BY DEF Single
  <2>4. ASSUME NEW x \in Rows, NEW y \in Rows, Exists(x)', Exists(y)', install'[x] = m, install'[y] = m
        PROVE  x = y
    BY <2>1, <2>3, <2>4
  <2>5. ASSUME NEW p \in Requests, step'[p] = "register", machine'[p] = m, found'[p] = {}
        PROVE  /\ \A x \in Rows : Exists(x)' => install'[x] # m
               /\ \A s \in Requests : step'[s] = "register" /\ machine'[s] = m /\ found'[s] = {} => s = p
    BY <2>1, <2>2, <2>3, <2>5
  <2> QED
    BY <2>4, <2>5
<1> QED
  BY <1>11, <1>12, <1>13, <1>14, <1>15, <1>16, <1>17, <1>18, <1>19, <1>20, <1>21, <1>22 DEF IInv

-----------------------------------------------------------------------------
(* The invariant, and the theorems. *)

LEMMA Initially == Init => IInv
<1> SUFFICES ASSUME Init PROVE IInv
  OBVIOUS
<1> USE FleetAssumption DEF Init
<1>1. TypeOK
  BY DEF TypeOK, Steps
<1>2. Fresh /\ Keyed /\ Alive /\ Finds /\ Matches
  BY DEF Fresh, Keyed, Alive, Finds, Matches
<1>3. Doomed /\ Known /\ Single
  BY DEF Doomed, Known, Single, Exists
<1>4. NeverLockedOut /\ RevocationIsReal /\ DirectBehindNothing
  BY DEF NeverLockedOut, RevocationIsReal, DirectBehindNothing
<1> QED
  BY <1>1, <1>2, <1>3, <1>4 DEF IInv

LEMMA Inductive == IInv /\ [Next]_vars => IInv'
<1> SUFFICES ASSUME IInv, [Next]_vars PROVE IInv'
  OBVIOUS
<1>1. ASSUME NEW c \in Codes, Mint(c) \/ Expire(c) PROVE IInv'
  BY <1>1, MintStep, ExpireStep
<1>2. ASSUME NEW q \in Requests, NEW c \in Codes, NEW m \in Machines, Pair(q, m, c) PROVE IInv'
  BY <1>2, PairStep
<1>3. ASSUME NEW q \in Requests, NEW c \in Codes, NEW r \in Relays, Redeem(q, r, c) PROVE IInv'
  BY <1>3, RedeemStep
<1>4. ASSUME NEW q \in Requests, Claim(q) \/ Issue(q) \/ Find(q) \/ Register(q) \/ Retire(q) \/ Answer(q) PROVE IInv'
  BY <1>4, ClaimStep, IssueStep, FindStep, RegisterStep, RetireStep, AnswerStep
<1>5. ASSUME NEW q \in Requests, NEW r \in Relays, NEW seen \in SUBSET Zone[r], Match(q, r, seen) PROVE IInv'
  BY <1>5, MatchStep
<1>6. ASSUME NEW q \in Requests, Declare(q) PROVE IInv'
  BY <1>6, DeclareStep
<1>7. ASSUME NEW q \in Requests, Manage(q) PROVE IInv'
  BY <1>7, DeleteStep, MarkStep, KillStep, SelectStep, BulkRevokeStep, BulkDeleteStep DEF Manage
<1>8. ASSUME NEW x \in Rows, NEW n \in Names, Rename(x, n) PROVE IInv'
  BY <1>8, RenameStep
<1>9. ASSUME NEW q \in Requests, Fails(q) PROVE IInv'
  BY <1>9, CutShortStep DEF Fails
<1>10. CASE Crash
  BY <1>10, CutShortStep DEF Crash
<1>11. CASE UNCHANGED vars
  <2> USE <1>11 DEF vars, IInv
  <2>1. TypeOK' /\ Fresh' /\ Keyed' /\ Alive'
    BY DEF TypeOK, Fresh, Keyed, Alive
  <2>2. Doomed' /\ Finds' /\ Matches' /\ Known'
    BY DEF Doomed, Finds, Matches, Known
  <2>3. Single'
    BY SingleKept DEF Exists
  <2>4. NeverLockedOut' /\ RevocationIsReal' /\ DirectBehindNothing'
    BY DEF NeverLockedOut, RevocationIsReal, Unfinished, DirectBehindNothing
  <2> QED
    BY <2>1, <2>2, <2>3, <2>4
<1> QED
  BY <1>1, <1>2, <1>3, <1>4, <1>5, <1>6, <1>7, <1>8, <1>9, <1>10, <1>11 DEF Next

LEMMA Invariance == Spec => []IInv
  BY Initially, Inductive, PTL DEF Spec

\* The tables and the requests keep their types, for any machines and requests.
THEOREM Types == Spec => []TypeOK
<1>1. IInv => TypeOK
  BY DEF IInv
<1> QED
  BY <1>1, Invariance, PTL

\* No pairing, revocation or failure leaves an active agent with a dead key.
THEOREM ActiveIsLive == Spec => []NeverLockedOut
<1>1. IInv => NeverLockedOut
  BY DEF IInv
<1> QED
  BY <1>1, Invariance, PTL

\* A revoked row keeps a working key only if its request was crossed or cut short.
THEOREM RevokedIsDead == Spec => []RevocationIsReal
<1>1. IInv => RevocationIsReal
  BY DEF IInv
<1> QED
  BY <1>1, Invariance, PTL

\* A machine pairs into the row it has, unless two pairings missed each other.
THEOREM OneRowEach == Spec => []NoTwin
<1>1. IInv => NoTwin
  BY DEF IInv, TypeOK, Single, NoTwin, There
<1> QED
  BY <1>1, Invariance, PTL

\* No declaration files an agent that holds a key behind a relay.
THEOREM NothingBetween == Spec => []DirectBehindNothing
<1>1. IInv => DirectBehindNothing
  BY DEF IInv
<1> QED
  BY <1>1, Invariance, PTL

-----------------------------------------------------------------------------
(* What a code buys. *)
\* The requests that redeem a code, those that have bought a key with it, those
\* that have paid and are about to mint it, and those that may have paid.
Redeemers(c) == {q \in Requests : redeems[q] = c}
Bought(c)    == {q \in Redeemers(c) : key[q] # "none" \/ (machine[q] = None /\ step[q] = "done")}
Issuing(c)   == {q \in Redeemers(c) : step[q] = "issue"}
Underway(c)  == {q \in Redeemers(c) : step[q] \in {"issue", "ended"}}

\* A request has minted its key from the moment it looks for a row, and neither a
\* row nor a list of keys to be revoked names one that was not minted.
Minted ==
    /\ \A q \in Requests :
          /\ step[q] = "new" => redeems[q] = None /\ machine[q] = None
          /\ step[q] \in {"declare", "mark", "kill", "bulk"} => redeems[q] = None
          /\ step[q] \in {"claim", "issue"} => redeems[q] \in Codes
          /\ step[q] \in {"new", "declare", "claim", "issue"} => key[q] = "none"
          /\ step[q] \in {"find", "register", "retire", "answer"} => key[q] # "none"
          /\ \A k \in doomed[q] : key[k] # "none"
    /\ \A x \in Rows : held[x] # None => key[held[x]] # "none"

\* Each use is a key, or the one that is about to be one: the count is between
\* those that have paid and those that may have.
Counted ==
    \A c \in Codes :
        /\ IsFiniteSet(Redeemers(c))
        /\ Cardinality(Bought(c) \union Issuing(c)) <= uses[c]
        /\ uses[c] <= Cardinality(Bought(c) \union Underway(c))
        /\ uses[c] <= MaxUses[c]

\* Keys are only ever minted by Issue, and revoked once they were.
LEMMA MintedStep == TypeOK /\ Minted /\ [Next]_vars => Minted'
<1> SUFFICES ASSUME TypeOK, Minted, [Next]_vars PROVE Minted'
  OBVIOUS
<1> USE FleetAssumption DEF TypeOK, Minted, codes, agents, request, ghosts, Goes, To
<1>1. ASSUME NEW c \in Codes, Mint(c) \/ Expire(c) PROVE Minted'
  BY <1>1 DEF Mint, Expire
<1>2. ASSUME NEW q \in Requests, NEW c \in Codes, NEW m \in Machines, Pair(q, m, c) PROVE Minted'
  BY <1>2 DEF Pair
<1>3. ASSUME NEW q \in Requests, NEW c \in Codes, NEW r \in Relays, Redeem(q, r, c) PROVE Minted'
  BY <1>3 DEF Redeem
<1>4. ASSUME NEW q \in Requests, Claim(q) PROVE Minted'
  BY <1>4 DEF Claim
<1>5. ASSUME NEW q \in Requests, Issue(q) PROVE Minted'
  BY <1>5 DEF Issue
<1>6. ASSUME NEW q \in Requests, Find(q) PROVE Minted'
  BY <1>6 DEF Find, Installed, There, KeysOf
<1>7. ASSUME NEW q \in Requests, Register(q) PROVE Minted'
  <2>1. CASE UNCHANGED held /\ step' = [step EXCEPT ![q] = "failed"]
    BY <1>7, <2>1 DEF Register
  <2>2. ASSUME NEW x, Written(q, x) PROVE Minted'
    BY <1>7, <2>2 DEF Register, Written
  <2>3. \/ UNCHANGED held /\ step' = [step EXCEPT ![q] = "failed"]
        \/ \E x : Written(q, x)
    BY <1>7 DEF Register
  <2> QED BY <2>1, <2>2, <2>3
<1>8. ASSUME NEW q \in Requests, Retire(q) \/ Kill(q) PROVE Minted'
  BY <1>8 DEF Retire, Kill, Revoked
<1>9. ASSUME NEW q \in Requests, Answer(q) PROVE Minted'
  BY <1>9 DEF Answer
<1>10. ASSUME NEW q \in Requests, NEW r \in Relays, NEW seen \in SUBSET Zone[r], Match(q, r, seen) PROVE Minted'
  BY <1>10 DEF Match, Matched
<1>11. ASSUME NEW q \in Requests, Declare(q) PROVE Minted'
  BY <1>11 DEF Declare
<1>12. ASSUME NEW q \in Requests, NEW x \in Rows, Delete(q, x) PROVE Minted'
  BY <1>12 DEF Delete, KeysOf
<1>13. ASSUME NEW q \in Requests, Mark(q) PROVE Minted'
  BY <1>13 DEF Mark
<1>14. ASSUME NEW q \in Requests, NEW S \in SUBSET There, Select(q, S) PROVE Minted'
  BY <1>14 DEF Select, KeysOf, There
<1>15. ASSUME NEW q \in Requests, BulkRevoke(q) \/ BulkDelete(q) PROVE Minted'
  BY <1>15 DEF BulkRevoke, BulkDelete, Revoked
<1>16. ASSUME NEW x \in Rows, NEW n \in Names, Rename(x, n) PROVE Minted'
  BY <1>16 DEF Rename
<1>17. ASSUME NEW S \in SUBSET OnTheirWay, CutShort(S) PROVE Minted'
  BY <1>17 DEF CutShort, OnTheirWay
<1>18. CASE UNCHANGED vars
  BY <1>18 DEF vars
<1> HIDE DEF TypeOK, Minted
<1> QED
  BY <1>1, <1>2, <1>3, <1>4, <1>5, <1>6, <1>7, <1>8, <1>9, <1>10, <1>11, <1>12, <1>13, <1>14, <1>15,
     <1>16, <1>17, <1>18 DEF Next, Manage, Fails, Crash

\* A step by which nobody pays, mints or is cut short leaves the count alone.
LEMMA CountKept ==
    ASSUME Counted, uses' = uses, redeems' = redeems, machine' = machine,
           \A q \in Requests : redeems[q] \in Codes =>
               /\ key'[q] = "none" <=> key[q] = "none"
               /\ step'[q] = "issue" <=> step[q] = "issue"
               /\ step'[q] = "ended" <=> step[q] = "ended"
               /\ key[q] = "none" /\ machine[q] = None => (step'[q] = "done" <=> step[q] = "done")
    PROVE  Counted'
<1> SUFFICES ASSUME NEW c \in Codes
             PROVE  /\ Redeemers(c)' = Redeemers(c)
                    /\ Bought(c)' = Bought(c)
                    /\ Issuing(c)' = Issuing(c)
                    /\ Underway(c)' = Underway(c)
  BY DEF Counted
<1> QED BY DEF Redeemers, Bought, Issuing, Underway

\* A claim that is about to be made has bought nothing yet.
LEMMA ClaimsAnew ==
    ASSUME TypeOK, Minted, Counted, NEW q \in Requests, NEW c \in Codes, Redeemable(c),
           step[q] = "new", step' = [step EXCEPT ![q] = "claim"],
           redeems' = [redeems EXCEPT ![q] = c],
           \A p \in Requests \ {q} : machine'[p] = machine[p],
           uses' = uses, key' = key
    PROVE  Counted'
<1> SUFFICES ASSUME NEW d \in Codes
             PROVE  /\ IsFiniteSet(Redeemers(d)') /\ Bought(d)' = Bought(d)
                    /\ Issuing(d)' = Issuing(d) /\ Underway(d)' = Underway(d)
  BY DEF Counted
<1>1. redeems[q] = None /\ key[q] = "none"
  BY DEF Minted
<1>2. Redeemers(d)' = IF d = c THEN Redeemers(d) \union {q} ELSE Redeemers(d)
  BY <1>1, FleetAssumption DEF Redeemers, TypeOK
<1>3. IsFiniteSet(Redeemers(d)')
  BY <1>2, FS_AddElement DEF Counted
<1>4. Bought(d)' = Bought(d) /\ Issuing(d)' = Issuing(d) /\ Underway(d)' = Underway(d)
  BY <1>1, <1>2, FleetAssumption DEF Redeemers, Bought, Issuing, Underway, TypeOK
<1> QED BY <1>3, <1>4

\* A claim that is granted is a use, and somebody who has paid.
LEMMA ClaimCounts ==
    ASSUME TypeOK, Minted, Counted, NEW q \in Requests, Claim(q)
    PROVE  Counted'
<1>1. step[q] = "claim" /\ redeems[q] \in Codes /\ key[q] = "none"
  BY DEF Claim, Minted
<1>2. CASE uses' = uses
  <2>1. step' = [step EXCEPT ![q] = "refused"]
    BY <1>1, <1>2 DEF Claim, To, TypeOK
  <2> QED BY <1>1, <1>2, <2>1, CountKept DEF Claim, TypeOK, request
<1>3. CASE uses' # uses
  <2>1. /\ uses' = [uses EXCEPT ![redeems[q]] = @ + 1] /\ uses[redeems[q]] < MaxUses[redeems[q]]
        /\ step' = [step EXCEPT ![q] = IF machine[q] = None THEN "done" ELSE "issue"]
        /\ key' = key /\ machine' = machine /\ redeems' = redeems
    BY <1>1, <1>3 DEF Claim, To, request
  <2> SUFFICES ASSUME NEW c \in Codes
               PROVE  /\ IsFiniteSet(Redeemers(c)')
                      /\ Cardinality(Bought(c)' \union Issuing(c)') <= uses'[c]
                      /\ uses'[c] <= Cardinality(Bought(c)' \union Underway(c)')
                      /\ uses'[c] <= MaxUses[c]
    BY DEF Counted
  <2> DEFINE paid == Bought(c) \union Issuing(c)
             may  == Bought(c) \union Underway(c)
  <2>2. Redeemers(c)' = Redeemers(c) /\ IsFiniteSet(Redeemers(c)) /\ uses[c] \in Nat /\ MaxUses[c] \in Nat
    BY <2>1, FleetAssumption DEF Redeemers, Counted, TypeOK
  <2>3. paid \subseteq Redeemers(c) /\ may \subseteq Redeemers(c) /\ q \notin paid /\ q \notin may
    BY <1>1 DEF Bought, Issuing, Underway
  <2>4. IsFiniteSet(paid) /\ IsFiniteSet(may)
    BY <2>2, <2>3, FS_Subset
  <2>5. CASE c = redeems[q]
    <3>1. Bought(c)' \union Issuing(c)' = paid \union {q}
          /\ Bought(c)' \union Underway(c)' = may \union {q}
      BY <1>1, <2>1, <2>5 DEF Redeemers, Bought, Issuing, Underway, TypeOK
    <3>2. Cardinality(paid \union {q}) = Cardinality(paid) + 1
          /\ Cardinality(may \union {q}) = Cardinality(may) + 1
      BY <2>3, <2>4, FS_AddElement
    <3>3. Cardinality(paid) \in Nat /\ Cardinality(may) \in Nat
      BY <2>4, FS_CardinalityType
    <3>4. uses'[c] = uses[c] + 1 /\ uses[c] < MaxUses[c]
      BY <2>1, <2>5 DEF TypeOK
    <3>5. Cardinality(paid) <= uses[c] /\ uses[c] <= Cardinality(may)
      BY DEF Counted
    <3> HIDE DEF paid, may
    <3> QED BY <2>2, <3>1, <3>2, <3>3, <3>4, <3>5
  <2>6. CASE c # redeems[q]
    <3>1. Bought(c)' = Bought(c) /\ Issuing(c)' = Issuing(c) /\ Underway(c)' = Underway(c)
      BY <1>1, <2>1, <2>6 DEF Redeemers, Bought, Issuing, Underway, TypeOK
    <3>2. uses'[c] = uses[c]
      BY <1>1, <2>1, <2>6 DEF TypeOK
    <3> QED BY <2>2, <3>1, <3>2 DEF Counted
  <2> QED BY <2>5, <2>6
<1> QED BY <1>2, <1>3

\* Who mints had paid already.
LEMMA IssueCounts ==
    ASSUME TypeOK, Minted, Counted, NEW q \in Requests, Issue(q)
    PROVE  Counted'
<1> SUFFICES ASSUME NEW c \in Codes
             PROVE  /\ Redeemers(c)' = Redeemers(c) /\ uses'[c] = uses[c]
                    /\ Bought(c)' \union Issuing(c)' = Bought(c) \union Issuing(c)
                    /\ Bought(c)' \union Underway(c)' = Bought(c) \union Underway(c)
  BY DEF Counted
<1> QED BY DEF Issue, Goes, To, codes, request, Redeemers, Bought, Issuing, Underway, TypeOK, Minted

\* Requests that are cut short may have paid: the lower bound sinks, the upper
\* one rises.
LEMMA CutShortCounts ==
    ASSUME TypeOK, Minted, Counted, NEW S \in SUBSET OnTheirWay, CutShort(S)
    PROVE  Counted'
<1> SUFFICES ASSUME NEW c \in Codes
             PROVE  /\ IsFiniteSet(Redeemers(c)')
                    /\ Cardinality(Bought(c)' \union Issuing(c)') <= uses'[c]
                    /\ uses'[c] <= Cardinality(Bought(c)' \union Underway(c)')
                    /\ uses'[c] <= MaxUses[c]
  BY DEF Counted
<1>1. Redeemers(c)' = Redeemers(c) /\ uses'[c] = uses[c] /\ uses[c] \in Nat
  BY DEF CutShort, Redeemers, codes, request, TypeOK
<1>2. Bought(c)' = Bought(c) /\ Issuing(c)' \subseteq Issuing(c) /\ Underway(c) \subseteq Underway(c)'
  BY DEF CutShort, OnTheirWay, Redeemers, Bought, Issuing, Underway, codes, request, TypeOK
<1>3. /\ Bought(c) \union Issuing(c) \subseteq Redeemers(c)
      /\ Bought(c)' \union Underway(c)' \subseteq Redeemers(c)
  BY <1>1 DEF Bought, Issuing, Underway
<1>4. IsFiniteSet(Redeemers(c)) /\ IsFiniteSet(Bought(c) \union Issuing(c)) /\ IsFiniteSet(Bought(c)' \union Underway(c)')
  BY <1>3, FS_Subset DEF Counted
<1>5. Bought(c) \union Underway(c) \subseteq Bought(c)' \union Underway(c)'
      /\ Bought(c)' \union Issuing(c)' \subseteq Bought(c) \union Issuing(c)
  BY <1>2
<1>6. Cardinality(Bought(c)' \union Issuing(c)') <= Cardinality(Bought(c) \union Issuing(c))
      /\ Cardinality(Bought(c) \union Underway(c)) <= Cardinality(Bought(c)' \union Underway(c)')
  BY <1>4, <1>5, FS_Subset
<1>7. /\ Cardinality(Bought(c)' \union Issuing(c)') \in Nat /\ Cardinality(Bought(c) \union Issuing(c)) \in Nat
      /\ Cardinality(Bought(c) \union Underway(c)) \in Nat /\ Cardinality(Bought(c)' \union Underway(c)') \in Nat
  BY <1>4, <1>5, FS_Subset, FS_CardinalityType
<1>8. Cardinality(Bought(c) \union Issuing(c)) <= uses[c] /\ uses[c] <= Cardinality(Bought(c) \union Underway(c))
      /\ uses[c] <= MaxUses[c]
  BY DEF Counted
<1> QED BY <1>1, <1>4, <1>6, <1>7, <1>8

\* Every other step leaves the count alone.
LEMMA CountedStep == TypeOK /\ Minted /\ Counted /\ [Next]_vars => Counted'
<1> SUFFICES ASSUME TypeOK, Minted, Counted, [Next]_vars PROVE Counted'
  OBVIOUS
<1> USE FleetAssumption DEF Minted, codes, agents, request, ghosts, Goes, To
<1>1. ASSUME NEW c \in Codes, Mint(c) \/ Expire(c) PROVE Counted'
  BY <1>1, CountKept DEF Mint, Expire
<1>2. ASSUME NEW q \in Requests, NEW c \in Codes, NEW m \in Machines, Pair(q, m, c) PROVE Counted'
  <2>1. \A p \in Requests \ {q} : machine'[p] = machine[p]
    BY <1>2 DEF Pair, TypeOK
  <2> HIDE DEF Minted
  <2> QED BY <1>2, <2>1, ClaimsAnew DEF Pair
<1>3. ASSUME NEW q \in Requests, NEW c \in Codes, NEW r \in Relays, Redeem(q, r, c) PROVE Counted'
  BY <1>3, ClaimsAnew DEF Redeem
<1>4. ASSUME NEW q \in Requests, Claim(q) PROVE Counted'
  BY <1>4, ClaimCounts
<1>5. ASSUME NEW q \in Requests, Issue(q) PROVE Counted'
  BY <1>5, IssueCounts
<1>6. ASSUME NEW q \in Requests, Find(q) PROVE Counted'
  BY <1>6, CountKept DEF Find, TypeOK
<1>7. ASSUME NEW q \in Requests, Register(q) PROVE Counted'
  BY <1>7, CountKept DEF Register, Written, TypeOK
<1>8. ASSUME NEW q \in Requests, Retire(q) PROVE Counted'
  BY <1>8, CountKept DEF Retire, Revoked, TypeOK
<1>9. ASSUME NEW q \in Requests, Answer(q) PROVE Counted'
  BY <1>9, CountKept DEF Answer, TypeOK
<1>10. ASSUME NEW q \in Requests, NEW r \in Relays, NEW seen \in SUBSET Zone[r], Match(q, r, seen) PROVE Counted'
  BY <1>10, CountKept DEF Match, Matched, TypeOK
<1>11. ASSUME NEW q \in Requests, Declare(q) PROVE Counted'
  BY <1>11, CountKept DEF Declare, TypeOK
<1>12. ASSUME NEW q \in Requests, NEW x \in Rows, Delete(q, x) PROVE Counted'
  BY <1>12, CountKept DEF Delete, TypeOK
<1>13. ASSUME NEW q \in Requests, Mark(q) PROVE Counted'
  BY <1>13, CountKept DEF Mark, TypeOK
<1>14. ASSUME NEW q \in Requests, Kill(q) PROVE Counted'
  BY <1>14, CountKept DEF Kill, Revoked, TypeOK
<1>15. ASSUME NEW q \in Requests, NEW S \in SUBSET There, Select(q, S) PROVE Counted'
  BY <1>15, CountKept DEF Select, TypeOK
<1>16. ASSUME NEW q \in Requests, BulkRevoke(q) \/ BulkDelete(q) PROVE Counted'
  BY <1>16, CountKept DEF BulkRevoke, BulkDelete, Revoked, TypeOK
<1>17. ASSUME NEW x \in Rows, NEW n \in Names, Rename(x, n) PROVE Counted'
  BY <1>17, CountKept DEF Rename
<1>18. ASSUME NEW S \in SUBSET OnTheirWay, CutShort(S) PROVE Counted'
  BY <1>18, CutShortCounts
<1>19. CASE UNCHANGED vars
  BY <1>19, CountKept DEF vars
<1> QED
  BY <1>1, <1>2, <1>3, <1>4, <1>5, <1>6, <1>7, <1>8, <1>9, <1>10, <1>11, <1>12, <1>13, <1>14, <1>15,
     <1>16, <1>17, <1>18, <1>19 DEF Next, Manage, Fails, Crash

\* A code buys no more keys than it allows, and a use is a key or went with a
\* request that was cut short (routes/agents.ts claims it before it mints).
THEOREM UsesBuyKeys == Spec => []CodeBuysKeys
<1>1. Init => Minted
  BY FleetAssumption DEF Init, Minted
<1>2. Init => Counted
  <2> SUFFICES ASSUME Init, NEW c \in Codes
               PROVE  /\ IsFiniteSet(Redeemers(c))
                      /\ Cardinality(Bought(c) \union Issuing(c)) <= uses[c]
                      /\ uses[c] <= Cardinality(Bought(c) \union Underway(c))
                      /\ uses[c] <= MaxUses[c]
    BY DEF Counted
  <2>1. Redeemers(c) = {}
    BY FleetAssumption DEF Init, Redeemers
  <2>2. Bought(c) \union Issuing(c) = {} /\ Bought(c) \union Underway(c) = {}
    BY <2>1 DEF Bought, Issuing, Underway
  <2>3. uses[c] = 0 /\ MaxUses[c] \in Nat
    BY FleetAssumption DEF Init
  <2> QED BY <2>1, <2>2, <2>3, FS_EmptySet
<1>3. TypeOK /\ Minted /\ Counted => CodeBuysKeys
  <2> SUFFICES ASSUME TypeOK, Minted, Counted, NEW c \in Codes
               PROVE  Cardinality(Bought(c)) <= uses[c]
    BY DEF CodeBuysKeys, Counted, Redeemers, Bought, Underway
  <2>1. IsFiniteSet(Bought(c) \union Issuing(c))
    <3>1. Bought(c) \union Issuing(c) \subseteq Redeemers(c) /\ IsFiniteSet(Redeemers(c))
      BY DEF Bought, Issuing, Counted
    <3> QED BY <3>1, FS_Subset
  <2>2. Cardinality(Bought(c)) <= Cardinality(Bought(c) \union Issuing(c))
        /\ Cardinality(Bought(c)) \in Nat /\ Cardinality(Bought(c) \union Issuing(c)) \in Nat
    BY <2>1, FS_Subset, FS_CardinalityType
  <2>3. Cardinality(Bought(c) \union Issuing(c)) <= uses[c] /\ uses[c] \in Nat
    BY DEF Counted, TypeOK
  <2> QED BY <2>2, <2>3
<1> QED
  BY <1>1, <1>2, <1>3, MintedStep, CountedStep, Types, PTL DEF Spec

=============================================================================
