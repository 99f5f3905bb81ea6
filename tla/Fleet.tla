------------------------------- MODULE Fleet -------------------------------
(***************************************************************************)
(* The fleet: pairing codes, the keys they buy, and the rows of agents     *)
(* (apps/api routes/agents.ts, services/apikeys.ts).                       *)
(*                                                                         *)
(* A machine redeems a code for a key; its row is found again by the       *)
(* install id it keeps, so pairing again replaces the key.  A relay        *)
(* redeems codes for the machines of its zone and declares them by name;   *)
(* those rows hold no key.  Operators revoke and delete.  Nothing but the  *)
(* order of their statements holds these requests together, and each of    *)
(* them awaits the database between any two.                               *)
(*                                                                         *)
(* A request is made once, and the key or the row it creates bears its     *)
(* name.  A machine may have two requests on their way: it gives up on one *)
(* and is started again.  A request that is refused writes nothing and is  *)
(* left out, unless it is refused by the claim itself.  The instance's own *)
(* agent is in LocalAgent; builds that send no install id, and purging     *)
(* codes a week after they expired, are left out.                          *)
(***************************************************************************)
EXTENDS Naturals, FiniteSets

CONSTANTS
    Machines,    \* the machines that pair; each keeps one install id
    Relays,      \* those that announce themselves as proxies
    Hostname,    \* the name each pairs with
    Zone,        \* the names of the machines behind each relay
    Names,       \* every name there is
    Codes,       \* pairing codes
    MaxUses,     \* how often each may be redeemed
    Requests,    \* requests, each made at most once
    None,        \* no machine, code, row or key
    MaxFaults    \* bound on crashes, failed statements and lost replies, for TLC

ASSUME FleetAssumption ==
    /\ Relays \subseteq Machines
    /\ Hostname \in [Machines -> Names] /\ Zone \in [Relays -> SUBSET Names]
    /\ MaxUses \in [Codes -> Nat \ {0}]
    /\ None \notin Machines \union Codes \union Requests
    /\ None \notin Requests \X Names
    /\ MaxFaults \in Nat

Keys == Requests
Rows == Requests \X Names

Steps == {"new", "claim", "issue", "find", "register", "retire", "answer",
          "declare", "mark", "kill", "bulk", "done", "refused", "failed", "ended", "half"}

VARIABLES
    code,       \* pairing_codes: "none", "valid" or "expired"
    uses,       \* pairing_codes: usedCount
    key,        \* api_keys: "none", "live" or "revoked"
    status,     \* agents: "none", "active", "revoked" or "gone"
    held,       \* agents: apiKeyId
    install,    \* agents: the machine whose installId it bears
    name,       \* agents: name
    parent,     \* agents: parentAgentId
    holds,      \* the key in each machine's config
    step,       \* where each request is
    machine,    \* the machine it pairs, or that makes it
    redeems,    \* the code it redeems
    found,      \* the rows it read
    doomed,     \* the keys of those rows, to be revoked
    match,      \* the keyless row a declaration found for each name
    declared,   \* the names it declares
    crossed,    \* ghost: rows paired again behind the back of an operator's request
    twinned,    \* ghost: machines two of whose pairings found no row at once
    faults      \* requests cut short so far

codes    == <<code, uses>>
agents   == <<status, held, install, name, parent>>
request  == <<machine, redeems, found, doomed, match, declared>>
ghosts   == <<crossed, twinned>>
vars == <<code, uses, key, status, held, install, name, parent, holds, step, machine, redeems,
          found, doomed, match, declared, crossed, twinned, faults>>

TypeOK ==
    /\ code \in [Codes -> {"none", "valid", "expired"}]
    /\ uses \in [Codes -> Nat]
    /\ key \in [Keys -> {"none", "live", "revoked"}]
    /\ status \in [Rows -> {"none", "active", "revoked", "gone"}]
    /\ held \in [Rows -> Keys \union {None}]
    /\ install \in [Rows -> Machines \union {None}]
    /\ name \in [Rows -> Names]
    /\ parent \in [Rows -> Rows \union {None}]
    /\ holds \in [Machines -> Keys \union {None}]
    /\ step \in [Requests -> Steps]
    /\ machine \in [Requests -> Machines \union {None}]
    /\ redeems \in [Requests -> Codes \union {None}]
    /\ found \in [Requests -> SUBSET Rows]
    /\ doomed \in [Requests -> SUBSET Keys]
    /\ match \in [Requests -> [Names -> Rows \union {None}]]
    /\ declared \in [Requests -> SUBSET Names]
    /\ crossed \in SUBSET Rows /\ twinned \in SUBSET Machines
    /\ faults \in 0 .. MaxFaults

Init ==
    /\ code = [c \in Codes |-> "none"] /\ uses = [c \in Codes |-> 0]
    /\ key = [k \in Keys |-> "none"]
    /\ status = [x \in Rows |-> "none"] /\ held = [x \in Rows |-> None]
    /\ install = [x \in Rows |-> None] /\ name = [x \in Rows |-> x[2]]
    /\ parent = [x \in Rows |-> None]
    /\ holds = [m \in Machines |-> None]
    /\ step = [q \in Requests |-> "new"]
    /\ machine = [q \in Requests |-> None] /\ redeems = [q \in Requests |-> None]
    /\ found = [q \in Requests |-> {}] /\ doomed = [q \in Requests |-> {}]
    /\ match = [q \in Requests |-> [n \in Names |-> None]]
    /\ declared = [q \in Requests |-> {}]
    /\ crossed = {} /\ twinned = {}
    /\ faults = 0

Exists(x) == status[x] \in {"active", "revoked"}
There     == {x \in Rows : Exists(x)}

To(q, next)       == step' = [step EXCEPT ![q] = next]
Goes(q, from, to) == step[q] = from /\ To(q, to)

-----------------------------------------------------------------------------
(* Codes. *)

Mint(c) ==
    /\ code[c] = "none" /\ code' = [code EXCEPT ![c] = "valid"]
    /\ UNCHANGED <<uses, key, agents, holds, step, request, ghosts, faults>>

Expire(c) ==
    /\ code[c] = "valid" /\ code' = [code EXCEPT ![c] = "expired"]
    /\ UNCHANGED <<uses, key, agents, holds, step, request, ghosts, faults>>

\* A code that is not expired and not used up, as read.
Redeemable(c) == code[c] = "valid" /\ uses[c] < MaxUses[c]

\* The row the key a relay presents is held by: agents.ts asks it of a key that
\* is not revoked, and of the row that it is a proxy's.
ProxyOf(r) ==
    {x \in There : holds[r] # None /\ held[x] = holds[r] /\ key[holds[r]] = "live" /\ install[x] \in Relays}

-----------------------------------------------------------------------------
(* POST /pair, and the claim it shares with POST /agent/zone/redeem. *)

Pair(q, m, c) ==
    /\ Goes(q, "new", "claim") /\ Redeemable(c)
    /\ machine' = [machine EXCEPT ![q] = m] /\ redeems' = [redeems EXCEPT ![q] = c]
    /\ UNCHANGED <<codes, key, agents, holds, found, doomed, match, declared, ghosts, faults>>

\* A relay spends a use and mints a key of its own: nothing else is written.
Redeem(q, r, c) ==
    /\ Goes(q, "new", "claim") /\ Redeemable(c) /\ ProxyOf(r) # {}
    /\ redeems' = [redeems EXCEPT ![q] = c]
    /\ UNCHANGED <<codes, key, agents, holds, machine, found, doomed, match, declared, ghosts, faults>>

\* Mutation of Claim: the count is not looked at again.
ClaimUnchecked(q) ==
    LET c == redeems[q] IN
    /\ step[q] = "claim"
    /\ uses' = [uses EXCEPT ![c] = @ + 1]
    /\ To(q, IF machine[q] = None THEN "done" ELSE "issue")
    /\ UNCHANGED <<code, key, agents, holds, request, ghosts, faults>>

\* A conditional UPDATE: it is not asked again whether the code has expired.
Claim(q) ==
    LET c == redeems[q] IN
    /\ step[q] = "claim"
    /\ IF uses[c] < MaxUses[c]
       THEN /\ uses' = [uses EXCEPT ![c] = @ + 1]
            /\ To(q, IF machine[q] = None THEN "done" ELSE "issue")
       ELSE To(q, "refused") /\ UNCHANGED uses
    /\ UNCHANGED <<code, key, agents, holds, request, ghosts, faults>>

Issue(q) ==
    /\ Goes(q, "issue", "find")
    /\ key' = [key EXCEPT ![q] = "live"]
    /\ UNCHANGED <<codes, agents, holds, request, ghosts, faults>>

Installed(m) == {x \in There : install[x] = m}

\* Another pairing of this machine found no row, and has not written its own.
Unwritten(m) == {q \in Requests : step[q] = "register" /\ machine[q] = m /\ found[q] = {}}

KeysOf(S) == {held[x] : x \in S} \ {None}

Revoked(S) == key' = [k \in Keys |-> IF k \in S THEN "revoked" ELSE key[k]]

\* Mutation of Find: the old key is revoked before the row points at the new one.
FindRevokes(q) ==
    LET m == machine[q] IN
    /\ Goes(q, "find", "register")
    /\ \E S \in {{}} \union {{x} : x \in Installed(m)} :
          /\ S = {} => Installed(m) = {}
          /\ found' = [found EXCEPT ![q] = S] /\ doomed' = [doomed EXCEPT ![q] = KeysOf(S)]
          /\ Revoked(KeysOf(S))
    /\ UNCHANGED <<codes, agents, holds, machine, redeems, match, declared, ghosts, faults>>

\* Mutation of Find: only rows that are active.
FindActive(q) ==
    LET m == machine[q]
        rows == {x \in Installed(m) : status[x] = "active"}
    IN
    /\ Goes(q, "find", "register")
    /\ \E S \in {{}} \union {{x} : x \in rows} :
          /\ S = {} => rows = {}
          /\ found' = [found EXCEPT ![q] = S] /\ doomed' = [doomed EXCEPT ![q] = KeysOf(S)]
    /\ twinned' = IF rows = {} /\ Unwritten(m) # {} THEN twinned \union {m} ELSE twinned
    /\ UNCHANGED <<codes, key, agents, holds, machine, redeems, match, declared, crossed, faults>>

\* Any row with this install id, the revoked ones too.
Find(q) ==
    LET m == machine[q] IN
    /\ Goes(q, "find", "register")
    /\ \E S \in {{}} \union {{x} : x \in Installed(m)} :
          /\ S = {} => Installed(m) = {}
          /\ found' = [found EXCEPT ![q] = S] /\ doomed' = [doomed EXCEPT ![q] = KeysOf(S)]
    /\ twinned' = IF Installed(m) = {} /\ Unwritten(m) # {} THEN twinned \union {m} ELSE twinned
    /\ UNCHANGED <<codes, key, agents, holds, machine, redeems, match, declared, crossed, faults>>

\* Rows an operator's request has read and not yet written.
Selected(x) == \E q \in Requests : step[q] \in {"mark", "bulk"} /\ x \in found[q]

\* The row points at the new key and is active again.
Written(q, x) ==
    /\ status' = [status EXCEPT ![x] = "active"] /\ held' = [held EXCEPT ![x] = q]
    /\ install' = [install EXCEPT ![x] = machine[q]]
    /\ name' = [name EXCEPT ![x] = Hostname[machine[q]]]
    /\ To(q, "retire")
    /\ crossed' = IF Selected(x) THEN crossed \union {x} ELSE crossed

\* An UPDATE by id finds nothing once the row was deleted: 500.
Register(q) ==
    /\ step[q] = "register"
    /\ \/ \E x \in found[q] : Exists(x) /\ Written(q, x)
       \/ found[q] = {} /\ Written(q, <<q, Hostname[machine[q]]>>)
       \/ /\ found[q] # {} /\ \A x \in found[q] : ~Exists(x)
          /\ To(q, "failed") /\ UNCHANGED <<status, held, install, name, crossed>>
    /\ UNCHANGED <<codes, key, parent, holds, request, twinned, faults>>

\* The key the row used to hold, after the row points at the new one.
Retire(q) ==
    /\ Goes(q, "retire", "answer")
    /\ Revoked(doomed[q])
    /\ UNCHANGED <<codes, agents, holds, request, ghosts, faults>>

Answer(q) ==
    /\ Goes(q, "answer", "done")
    /\ holds' = [holds EXCEPT ![machine[q]] = q]
    /\ UNCHANGED <<codes, key, agents, request, ghosts, faults>>

-----------------------------------------------------------------------------
(* POST /agent/zone.  One transaction: what it wrote is seen when it       *)
(* commits, so two may find no row for one name.                           *)

Keyless(n) == {x \in There : name[x] = n /\ held[x] = None}

\* A relay says what its zone is; for each name its row is looked up.
Matched(q, r, seen, rows) ==
    /\ Goes(q, "new", "declare")
    /\ \E x \in ProxyOf(r) : found' = [found EXCEPT ![q] = {x}]
    /\ \E f \in [Names -> Rows \union {None}] :
          /\ \A n \in Names : f[n] \in rows[n] \/ (f[n] = None /\ (n \in seen => rows[n] = {}))
          /\ \A n \in Names \ seen : f[n] = None
          /\ match' = [match EXCEPT ![q] = f]
    /\ declared' = [declared EXCEPT ![q] = seen]
    /\ UNCHANGED <<codes, key, agents, holds, machine, redeems, doomed, ghosts, faults>>

\* Mutation of Match: by name alone, the rows that hold a key too.
MatchByName(q, r, seen) == Matched(q, r, seen, [n \in Names |-> {x \in There : name[x] = n}])

Match(q, r, seen) == Matched(q, r, seen, [n \in Names |-> Keyless(n)])

\* Rows of names no longer seen are unlinked, and so is any that holds a key;
\* the others are updated, or inserted.  A relay that was deleted meanwhile
\* fails the foreign key.
Declare(q) ==
    step[q] = "declare" /\ \E p \in found[q] :
       LET seen    == declared[q]
           updated == {match[q][n] : n \in seen} \intersect There
           added   == {<<q, n>> : n \in {n \in seen : match[q][n] = None}}
       IN  IF Exists(p)
           THEN /\ To(q, "done")
                /\ status' = [x \in Rows |-> IF x \in added THEN "active" ELSE status[x]]
                /\ name' = [x \in Rows |-> IF x \in updated THEN CHOOSE n \in seen : match[q][n] = x ELSE name[x]]
                /\ parent' = [x \in Rows |->
                                IF x \in added \union updated THEN p
                                ELSE IF parent[x] = p /\ (name[x] \notin seen \/ held[x] # None) THEN None
                                ELSE parent[x]]
                /\ UNCHANGED <<codes, key, held, install, holds, request, ghosts, faults>>
           ELSE /\ To(q, "failed")
                /\ UNCHANGED <<codes, key, agents, holds, request, ghosts, faults>>

-----------------------------------------------------------------------------
(* Operators. *)

\* DELETE reads the row, marks it, and then revokes the key it had read.
Delete(q, x) ==
    /\ Goes(q, "new", "mark") /\ Exists(x)
    /\ found' = [found EXCEPT ![q] = {x}] /\ doomed' = [doomed EXCEPT ![q] = KeysOf({x})]
    /\ UNCHANGED <<codes, key, agents, holds, machine, redeems, match, declared, ghosts, faults>>

Mark(q) ==
    /\ Goes(q, "mark", "kill")
    /\ status' = [x \in Rows |-> IF x \in found[q] /\ Exists(x) THEN "revoked" ELSE status[x]]
    /\ UNCHANGED <<codes, key, held, install, name, parent, holds, request, ghosts, faults>>

\* Mutation of Kill: left for dead.
KillNothing(q) ==
    /\ Goes(q, "kill", "done")
    /\ UNCHANGED <<codes, key, agents, holds, request, ghosts, faults>>

Kill(q) ==
    /\ Goes(q, "kill", "done")
    /\ Revoked(doomed[q])
    /\ UNCHANGED <<codes, agents, holds, request, ghosts, faults>>

Select(q, S) ==
    /\ Goes(q, "new", "bulk") /\ S # {} /\ S \subseteq There
    /\ found' = [found EXCEPT ![q] = S] /\ doomed' = [doomed EXCEPT ![q] = KeysOf(S)]
    /\ UNCHANGED <<codes, key, agents, holds, machine, redeems, match, declared, ghosts, faults>>

\* One transaction: the keys that were read, and the rows.
BulkRevoke(q) ==
    /\ Goes(q, "bulk", "done")
    /\ Revoked(doomed[q])
    /\ status' = [x \in Rows |-> IF x \in found[q] /\ Exists(x) THEN "revoked" ELSE status[x]]
    /\ UNCHANGED <<codes, held, install, name, parent, holds, request, ghosts, faults>>

\* What was behind a relay that is deleted is behind nothing.
BulkDelete(q) ==
    /\ Goes(q, "bulk", "done")
    /\ Revoked(doomed[q])
    /\ status' = [x \in Rows |-> IF x \in found[q] /\ Exists(x) THEN "gone" ELSE status[x]]
    /\ parent' = [x \in Rows |-> IF parent[x] \in found[q] THEN None ELSE parent[x]]
    /\ UNCHANGED <<codes, held, install, name, holds, request, ghosts, faults>>

Rename(x, n) ==
    /\ Exists(x) /\ name[x] # n /\ name' = [name EXCEPT ![x] = n]
    /\ UNCHANGED <<codes, key, status, held, install, parent, holds, step, request, ghosts, faults>>

-----------------------------------------------------------------------------
\* Requests on their way: a statement of one fails or its answer is lost, or
\* the process ends and takes them all.  A revocation that ends between its two
\* statements is half done.
OnTheirWay == {q \in Requests : step[q] \notin {"new", "done", "refused", "failed", "ended", "half"}}

CutShort(S) ==
    /\ S # {} /\ faults < MaxFaults /\ faults' = faults + 1
    /\ step' = [q \in Requests |-> IF q \notin S THEN step[q]
                                   ELSE IF step[q] = "kill" THEN "half" ELSE "ended"]
    /\ UNCHANGED <<codes, key, agents, holds, request, ghosts>>

Fails(q) == q \in OnTheirWay /\ CutShort({q})
Crash    == CutShort(OnTheirWay)

Manage(q) ==
    \/ \E x \in Rows : Delete(q, x)
    \/ Mark(q) \/ Kill(q)
    \/ \E S \in SUBSET There : Select(q, S)
    \/ BulkRevoke(q) \/ BulkDelete(q)

Next ==
    \/ \E c \in Codes : Mint(c) \/ Expire(c)
    \/ \E q \in Requests :
          \/ \E c \in Codes : \/ \E m \in Machines : Pair(q, m, c)
                              \/ \E r \in Relays : Redeem(q, r, c)
          \/ Claim(q) \/ Issue(q) \/ Find(q) \/ Register(q) \/ Retire(q) \/ Answer(q)
          \/ \E r \in Relays : \E seen \in SUBSET Zone[r] : Match(q, r, seen)
          \/ Declare(q) \/ Manage(q) \/ Fails(q)
    \/ \E x \in Rows, n \in Names : Rename(x, n)
    \/ Crash

Spec == Init /\ [][Next]_vars

-----------------------------------------------------------------------------
(* Safety. *)

\* A code buys as many keys as it allows and no more, however many machines
\* redeem it at once, and a use buys a key or went with a request that was cut
\* short: the code is claimed first and conditionally.
CodeBuysKeys ==
    \A c \in Codes :
        LET redeemed  == {q \in Requests : redeems[q] = c}
            bought    == {q \in redeemed : key[q] # "none" \/ (machine[q] = None /\ step[q] = "done")}
            underway  == {q \in redeemed : step[q] \in {"issue", "ended"}}
        IN  /\ Cardinality(bought) <= uses[c] /\ uses[c] <= Cardinality(bought \union underway)
            /\ uses[c] <= MaxUses[c]

\* An agent that is active holds a key that works, at every moment of a pairing
\* and whatever fails in the middle of it: the old key dies only after the row
\* points at the new one.
NeverLockedOut == \A x \in Rows : status[x] = "active" /\ held[x] # None => key[held[x]] = "live"

\* Revocations between the statement that marks a row and the one that kills its
\* key, or cut short there.
Unfinished(x) == {q \in Requests : step[q] \in {"kill", "half"} /\ held[x] \in doomed[q]}

\* A revocation is one in fact: the key of a revoked row is dead, unless the row
\* was paired again behind the request's back, or one agent's revocation is, or
\* was cut short, exactly between its two statements.  One of many is never half.
RevocationIsReal ==
    \A x \in Rows : status[x] = "revoked" /\ held[x] # None /\ key[held[x]] = "live"
        => x \in crossed \/ Unfinished(x) # {}

\* The record is never revoked without its key (docs/data-model.md:200-201,
\* "revokes that key in the same transaction").  The code does not keep this: the
\* revocation of one agent is two statements and no transaction.
RevokedTogether ==
    \A x \in Rows : status[x] = "revoked" /\ held[x] # None => key[held[x]] # "live" \/ x \in crossed

\* A machine that pairs again finds its row, revoked or not: it has two only if
\* two pairings of it once found none at the same time.
NoTwin ==
    \A x, y \in There : install[x] # None /\ install[x] = install[y] /\ x # y => install[x] \in twinned

\* An agent that holds a key of this server is behind nothing, whatever name a
\* relay declares it under.
DirectBehindNothing == \A x \in Rows : held[x] # None => parent[x] = None

=============================================================================
