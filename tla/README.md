# TERN: specifications and proofs

TERN is a self-hosted status page. A **server** (`src/apps/api`, Fastify and PostgreSQL) keeps what is
monitored and tells people about it; **agents** (`src/clients/agent`, Rust) measure and push; a
**relay** (`tern-proxy`, same crate) stands in for the server inside a network whose agents cannot
reach it. This directory holds TLA+ models of the parts where order, failure and concurrency decide
whether the program is right, TLC configurations that check them, and TLAPS proofs.

Read a module next to the code it names: `PROJECT.json` maps every definition to its source lines.

- [1 Inventory](#1-inventory) · [2 Modules](#2-modules-and-how-they-correspond-to-the-code) ·
  [3 Runs](#3-runs-bounds-and-what-they-show) · [4 Fairness](#4-fairness) · [5 Proofs](#5-proofs) ·
  [6 Where code and words disagree](#6-where-the-code-and-its-words-disagree) ·
  [7 Not modelled](#7-what-is-not-modelled-and-why) · [8 Plan](#8-plan)

## 1 Inventory

### Components, their state and their operations

| Component | State | Operations | What makes it correct |
|---|---|---|---|
| **Instruction delivery** (`routes/agents.ts`, `services/waiting.ts`, `commands.rs`, `proxy.rs`, `runner.rs`, `main.rs`) | rows of `agent_commands`, in-memory waiters, the relay's zone commands, each machine's batch | ask, wake, hold a beat, poll, file for the zone, carry out, answer, restart | each instruction at most once, by the machine named; no answer without the deed; nothing vanishes while processes live; no held beat sleeps through one; a stop is final |
| **Agent runner** (`runner.rs`, `commands.rs`, `config.rs`, `main.rs`) | the config and its file, the queue and its file (and the misnamed older one), the hold | startup pass, beat, refresh, measure, push, flush, instructions, SIGTERM | every point reaches the server or is gone for a reason; first in, first out; an acknowledged state is durable; a backlog drains |
| **Relay** (`proxy.rs`) | a config shared by tasks, `proxy.toml`, zone queue, zone inventory | pair, identify, ingest, forward, declare, refresh, own instructions | no pairing forgotten; no point lost that did not have to make room; the file follows the memory |
| **Notification queue** (`services/notify.ts`, `plugins/jobs.ts`) | `notifications` and `subscribers` rows, the job guard | `enqueueEvent`, tick, deliver, mark, back off, unsubscribe | sent means heard; twice only when something failed; all or nobody; everything settles |
| **Maintenance windows** (`routes/maintenances.ts`, `services/scheduler.ts`) | a `maintenances` row | create, edit, update, remove; transitions job; reminders job | opens and closes by itself; closed stays closed; reminders repeated rather than swallowed |
| Sweeps, retention, purges (`scheduler.ts`, `notify.ts`) | check and event rows | mark a push control that fell silent; delete what expired | a mark is the silence it records, not its end; only expired rows go |
| **Pairing, keys, fleet** (`routes/agents.ts`, `apikeys.ts`) | `pairing_codes`, `api_keys` and `agents` rows, the key in each machine's config | create code, pair, pair again, redeem for a zone, declare a zone, revoke, delete, rename | a code buys what it says; an active agent's key works at every moment; a revoked one's does not; one row per machine; an agent with a key is behind no relay |
| **Assignment and local probes** (`assignment.ts`, `jobs.ts`, `local-probes.ts`, the forced check of `controls.ts`) | `agents` rows and their age, pins, policies, each agent's list, the newest check | elect, hand out, measure, look and probe, force, pin, revoke | one vantage point per control, and never none |
| **Local agent supervisor** (`services/local-agent.ts`, `plugins/local-agent.ts`, `lock.rs`) | the local row, its key, `agent.toml`, the child process, refusals, a timer | provision, supervise, exit, close | one row whose key the file holds; no agent outlives its server's closing; up again unless it refuses to run |
| Backoff (`transport.rs`) | failures, jitter | failed, succeeded | bounded and growing wait |
| Ingest, receivers (`routes/ingest.ts`, `receivers.ts`) | `checks` | idempotent insert | a point sent again counts once |
| **Incidents** (`routes/incidents.ts`) | `incidents`, `incident_impacts`, `incident_updates` | open, update, resolve, re-open, postmortem | a resolved incident declares nothing; subscribers are told what stands |
| **Status and the public page** (`packages/shared/status.ts`, `routes/status.ts`) | none | worst, headline, roll-up; the page from several queries | what is declared shows at every level |
| **Availability**, series (`packages/shared/availability.ts`, `routes/status.ts`, `series.ts`) | none; checks and their aggregates | segments from checks or buckets, debounce, planned work, the figure of a day | up, down, planned and unknown account for the period; gaps are not uptime; silence is what the operator said it is |
| Probe engine (`probe.rs`, `probe-transport.ts`) | none | network I/O, assertions | an assertion means the same in both implementations |
| Sessions, TOTP, passkeys, resets (`routes/auth.ts`, …) | sessions, tokens | sign in, refresh, revoke | single use; revoked stays revoked |
| Subscribing (`routes/subscribers.ts`) | `subscribers` | sign up, confirm, leave | nobody unconfirmed is written to |
| Self-update, agent upgrade | hand-over files, containers | check, download, swap | old or new, never neither |
| Doctor, local page, log buffer | none | diagnostics | — |
| Controls, groups, import, blocks, settings, RBAC, feeds, badges, audit, web, installer, schema, build | rows, views, pages | edits behind a permission; read-only views | — |

### How they interact

The console inserts an `agent_commands` row and rings `wake()`, an in-process event that held beats
listen to. A held beat answers "something waits"; the machine polls `/agent/jobs`, whose handler reads
and marks rows in one go. A relay polls for itself and its zone and plays the server's part for the
zone from memory. Points go the other way: runner queue, HTTP push, (relay queue, HTTP push,) `checks`
table. On the server, requests and five timed jobs share one event loop and one database and interleave
at every `await`; incidents, windows and status changes all announce themselves through
`enqueueEvent`, and one job delivers what that queued.

### What is hard here

- **Wakeups**: the server checks the table and only then listens; the relay subscribes and then checks.
- **At-most-once through two hops** of processes that crash, with replies that get lost after the row
  was marked.
- **State read before a wait and used after it**: `declare_zone`'s clone, the forward loop's batch, the
  notification worker's `attempts`, a maintenance request's `current`, the reminders' `remindersSentAt`, the keys
  a revocation is about to kill, the incident an update has loaded, who covers what when the server probes.
- **Two readings of the same rows**: `electOwner` and `agentCoverage` decide by different code who measures;
  the page reads incidents, impacts, windows and checks one after the other.
- **Requests of several statements** with no transaction around them: pairing, revoking, updating an incident,
  provisioning the local agent. Each may stop anywhere, and another of them may run in between.
- **Two copies of everything**: memory and file of a config, a queue and its file, and a second file
  from when it was misnamed; each write truncates first and may fail.
- **Signals** are heard at two points of the agent's loop and nowhere else.
- **Retries**: a chunk whose answer was lost is sent again; a notification that was taken may be too.
- **One figure by two readings**: availability is computed from checks or from the buckets of an aggregate, with what was
  said before the period, what went stale in it, windows that overlap, and silences that are recorded as checks.
- **Bounded queues** whose front moves while a copy of it is on the wire.

`PROJECT.json` lists each at its line ("hazards") with the property that would catch it, or why none
does yet.

## 2 Modules and how they correspond to the code

In every module one action is what happens between two `await`s (or between two points where another
task may run), with the guard the code has there, and includes every state change made in between. Ghost
variables are marked as such and never read by a guard. Operators marked `Mutation of X` are plausible
bugs; nothing uses them unless a mutation run puts one in the place of `X`, to see that a property notices ("mutants" in `PROJECT.json`).

**`InstructionDelivery`** – the console, the server, any number of relays and machines. `Ask`/`Wake`
are the two halves of `POST …/commands`. `Subscribe`, `Check`, `Hold`, `Woke`, `BeatExpires`,
`BeatDropped` are the heartbeat handlers: `agents.ts` checks and then listens, `proxy.rs` subscribes and
then checks, and `Listening` says from when a wakeup is heard. `PollServer` and `PollRelay` are the two
`/agent/jobs` handlers (rows are marked, or removed, as they are read); `ReplyArrives` files what is for
the zone; `Carry`, `Answer`, `AnswerLost`, `BatchDone` are `commands::apply` and its callers; `Start`,
`BootWithoutPoll`, `Polls` the startup pass, which in an agent looks at its state first and in a relay does
not. An instruction is reduced to what it does to delivery (`Kinds`): `order`, `restart`, `stop`,
`resume`. `Via[z]` is fixed: a zone machine does not move between relays.

**`InstructionPromise`** – what the console may rely on: `none → waiting → handed → carried → answered`,
or `handed → lost`, and nothing ever goes back. `InstructionDelivery` implements it under the mapping
`status`, which derives an instruction's state from the rows and the ghosts `times` and `lost`.

**`AgentRunner`** – one agent process. `Start`, `Open`, `Polled`/`PollFails`, `Carry`, `Applied`, `Leave`
are `main.rs`; `Turn`, `Measure`, `Push`, `Flush`, `Sent`, `NotSent` the loop; `Persist` is
`Queue::persist`, which truncates first and may fail; `TermHeard`, `TermSwallowed` and `Kill` are what
SIGTERM does where the loop listens and where it does not; `Status` is `tern-agent status` or `doctor`,
which open the queue, delete the older file and keep nothing; `ShellResume` writes the config under
the process. `fate` and `unsaved` record why a point is gone. A point is a number in measuring order.

**`Relay`** – the relay's tasks around one lock. `Pair` adds a key, saves, and spawns a declaration;
`Clone`/`DeclareZone`/`DeclareFails` are `declare_zone` (clone, one call, save the clone); `Ingest`,
`Push`, `Pushed`, `NotPushed` the zone's queue and the forward loop, which copies a chunk under the lock,
sends it without it and then drops as many points off the front (the ghost `received` is what the server got); `Polled`, `Carry`, `Merge` the relay's
own instructions on a copy of the settings, merged field by field. Keys are numbered per machine. `proxy.toml` is
written in place: `Save` may fail before the file is truncated or after, `Crash` may fall into a save, and a relay whose
file is `Torn` does not `Start` (`proxy.rs:422`) – while it serves, its next declaration or instruction writes it again.

**`Notifier`** – `Select`/`Insert` are `enqueueEvent` (one statement; somebody who unsubscribed in
between fails the foreign key for everybody); `Tick`, `Take`, `Deliver`, `MarkSent`, `BackOff`,
`ComesDue` the worker; the guard of `plugins/jobs.ts` is `running`. A transport is one attempt with three
outcomes: taken, refused, or taken without the answer coming back. `attempts` is written from the copy
of the row the run read.

**`NotificationPromise`** – what the rest of the server may rely on when it hands an event to the queue: `Post` writes
a row for each of some who listen, in one step and once per event; `Hear` reaches one of them, and again only
after something went wrong; `Settle` marks it sent only if it was heard, or failed; `Leave` takes the rows along. It knows no worker, no
attempts and no tick. `Notifier` implements it: `Listens` maps a subscriber, rows and hearings are the same.

**`Maintenance`** – `Create`, `Load` and then `Edit`, `Update` or `Remove` are requests that read the row
first and write what follows from it; `Open`, `Close`, `Say` are `advanceMaintenances` (conditional
`UPDATE`, then the announcements); `Select`, `Remind`, `Record` are `sendMaintenanceReminders`. One
window is enough because no statement relates two of them. What an operator may edit is `frozenFields`.

**`Fleet`** – requests, each a sequence of the statements its handler awaits. `Pair`, `Claim`, `Issue`, `Find`,
`Register`, `Retire`, `Answer` are `POST /pair` in the code's order: the code is claimed by a conditional `UPDATE`, the
key is minted, the row is looked up by install id, written, and only then is the old key killed. `Redeem` is the claim
a relay makes for a machine of its zone. `Match` and `Declare` are `POST /agent/zone`: one transaction whose reads may
miss what another has not committed. `Delete`/`Mark`/`Kill` are the revocation of one agent, `Select` with
`BulkRevoke` or `BulkDelete` that of many (one transaction). `Fails` and `Crash` end requests between statements; a
revocation that ends between its two is `half`. Keys and rows bear the name of the request that made them. The ghosts `crossed` and `twinned` name the two excuses.

**`Status`** – `packages/shared/status.ts` as operators: severity, worst, headline, impact, roll-up.

**`Incidents`** – `Open`, `Update` and `Postmortem` begin requests; `Impact`, `Write`, `Row`, `Foreign`, `Erase`,
`Clear`, `Publish`, `Announce` are their statements in the code's order (`Then`). An update goes by the row it loaded
(`ended`). `BeginPage` reads the open incidents; what the page makes of them is `component` and the operators of
`Status`, evaluated in every state that follows, because a page may take any time over its other queries.

**`LocalAgent`** – `Begin`, `Read`, `Issue`, `Register`, `WriteConfig` are `ensureLocalAgent`; `Supervise`, `Start`,
`Exit` (of a child that `Refuses` or `Dies`), `SpawnFails` the `Supervisor`; `Close`, `Ended`, `Crash` and `Boot` the
server. A process that its supervisor no longer has is the `stray`. `WriteFails` is either writing of the
file, the new one and that of a moved address (`Rewrites`). `LockIsFree` is the lock beside `agent.toml`.

**`Measuring`** – `electOwner`, `runnersFor`, `jobsForAgent` on one side, `Claims` and `Covered` on the other, over the
same rows. `Pair`, `Ask`, `Beat`, `Declare`, `Measure` touch a row; `Age` is ten minutes without. `due` and
`runLocalProbes` are the job's look and its one insert, `ForceCheck` and `Forced` an admin's. `AskRelay` is the relay's
cached answer, which is why its zone measures what was assigned to the relay; the relay itself
measures nothing. The row of a machine of the zone is
declared by the relay and has no key. Only a machine that runs is declared: that the relay remembers one for a while
after it fell silent is left out.

**`Availability`** – `Report` and `Sweep` write the checks of one control; the rest are operators, evaluated in every
state. `segmentsFromSamples` and `segmentsFromBuckets` turn checks or rows of an aggregate into segments with shares of
failing, planned and unknown time; `failingRuns` is the debounce and `count` the four numbers, which both share, as in the
code; `publishedUptime` and `days` are what `uptime.json` says of a day. Time is counted in the control's interval (so the
grace and the gap are 1 and 2) and durations in parts of it (`Scale`), chosen so that no share is rounded before
`publishedUptime` rounds it. The staleness of a check, the carry-in from before the day, and the sweep's marker, a check of
nobody's, are the code's. `Reference` says the same instant by instant, for one source; `AgreesWithReference` compares.
In the tables, an aggregate has no agent, so what the page publishes is of one merged source; that a control is down if
anybody says so is a rule of the readings from checks, which the page does not use and the tests do.

`MCInstructionDelivery`, `MCAgentRunner`, `MCRelay`, `MCNotifier`, `MCMaintenance`, `MCFleet`, `MCIncidents`, `MCMeasuring`,
`MCAvailability` give the constants structure for TLC; `LocalAgent` needs none. `*_proofs` hold theorems only, each about
the module it is named after, with two exceptions: `Jobs_proofs` is about `Measuring` and about `Maintenance`, two things the
server does on its own clock, and `Page_proofs` about `Availability` and `Incidents`, the two things the public page is put
together from. Modules proved about together share neither state nor a name: that is why one specification of each pair is
`WindowInit`, `WindowNext`, `WindowSpec`, or `CheckInit`, `CheckNext`, `CheckSpec`. `InstructionDelivery_proofs` and
`Notifier_proofs` also show that `InstructionPromise` and `NotificationPromise` are implemented.

How the modules divide the code: a key that `Fleet` mints is what `Measuring` calls an active row with a key;
`Incidents` stops at the event it queues, which `Notifier` delivers; the page's windows are `Maintenance`'s, and so are
those that `Availability` takes out; the agent that `LocalAgent` keeps running is an `AgentRunner`. `Availability` and
`Incidents` share `Status`.

## 3 Runs, bounds and what they show

`tlc -workers 2 -config X.cfg M` in this directory. All configurations say `CHECK_DEADLOCK FALSE`: the
bounds on points, requests and faults end every behaviour, and an agent or a relay whose config is torn, or a fleet
that was stopped, really does stop.

| Run | Configuration | States | What it shows |
|---|---|---|---|
| `delivery` | `InstructionDelivery.cfg` | 441 850 | Two instructions of any kind, a relay and a machine behind it, one crash or lost reply. Nothing is carried out twice or by the wrong machine (`CarriedOnce`, `AnsweredByItsMachine`) or vanishes without a cause (`NothingVanishes`); a relay's held beat misses no wakeup and the server's only one rung before it listened (`NoBeatSleepsThrough`); an agent that started stopped stays so; the whole implements `InstructionPromise` (`PromiseKept`). |
| `delivery_live` | `InstructionDeliveryLive.cfg` | 63 777 | Whatever wakeups are missed and whatever crashes, what is asked is handed over and what a relay holds is passed on, unless the machine was stopped. |
| `runner` | `AgentRunner.cfg` | 406 308 | Three points through a queue of two sent one by one, two instructions, one fault, with and without an older queue file: `NothingLostQuietly`, `OldestFirst`, `ToldIsTrue`, `BacklogDrains`. |
| `relay` | `Relay.cfg` | 136 615 | One machine that pairs twice, three points, two instructions, one fault: no task writes an old key list over the live one (`NoPairingForgotten`), a push in flight while the queue overflows costs nothing beyond the room needed (`RoomIsPaidOnce`), the queue drains unless the relay ended with a torn file, and a stale or torn file is written again while it serves. |
| `notifier` | `Notifier.cfg` | 113 350 | Two subscribers who come and go, two events of different scope, two attempts, one fault: the whole implements `NotificationPromise` (`PromiseKept`: sent means heard, a second hearing has a fault to blame, no row goes back or is written for somebody who does not listen), `AllOrNobody`, `EveryNoteSettles`. |
| `maintenance` | `Maintenance.cfg` | 1 098 349 | A window and its postponement, two marks, three requests and one fault over five ticks: `RemindersAreKept`, `MovesAreSaid`, `ClosedStaysClosed`, `OpensByItself`. |
| `fleet` | `Fleet.cfg` | 613 399 | An agent and a relay whose zone bears the agent's name, one code with three uses, four requests and one fault: `CodeBuysKeys`, `NeverLockedOut`, `RevocationIsReal`, `NoTwin`, `DirectBehindNothing`. |
| `incidents` | `Incidents.cfg` | 523 597 | Three requests on two components, overlapping, failing and cut short, and a page that may be begun at any time: `DeclaredIsShown` for everything that could be measured and planned, `ResolvedIsCleared`, `ToldWhenItStands`. |
| `local_agent` | `LocalAgent.cfg` | 172 917 | Two calls, two starts of the server, one move, three deaths and two faults: `KeyIsItsRow`, `StopsWithItsServer`, `AgentComesBack`. |
| `measuring` | `Measuring.cfg` | 106 481 | The instance's own agent, a relay whose row sorts first and a machine behind it, two controls, one of them out of the relay's scope, pins and policies, two events: `HandedOver`, `OneVantagePoint`, `NeverDark`. |
| `availability` | `Availability.cfg` | 182 887 | The end of a day and the next, four checks of an agent and of somebody without a name, two windows that overlap, and the sweep: `FourNumbersAddUp` from checks whatever silence means, and from buckets of one and of two intervals; `AgreesWithReference` for whoever reports alone; `MarkersChangeNothing`. |
| `push_silence` | `AvailabilitySilence.cfg` | *violation* | A push control that was fine, fell silent and was marked is published at 100% for that day. |

Every constant whose name starts with `Max` bounds a counter of the environment (points, requests, faults),
never one of the program; `MaxAttempts` is the code's own limit, two instead of five. `AskedKinds`, `Marks`
and `MarkSets` restrict what is asked. Why these are enough:

- *One fault* reaches every single failure at every point, including a lost reply or torn file that is
  followed by a restart. What two faults might do to delivery is settled by the proofs, which assume no bound.
- *One relay and one machine*: the relay is itself a direct machine; machines share nothing but the relay's
  list, whose entries are told apart by machine (again, the proofs are for any fleet). Two instructions are
  needed for one to be filed while the other wakes, is carried out, or restarts the process.
- *Queue of two, chunk of one, three points*: the third point makes room, and may do so while the first
  is on the wire. A chunk of one makes front and remainder different.
- *Two subscribers, two events, batch of two*: one leaves between select and insert while the other stays;
  there is more pending than one run takes.
- *Windows `<3,4>` and `<5,6>`, marks 1 and 2, clock to 5*: both marks fall due one by one and together; the
  window can be postponed before and after each reminder; it opens and closes. The postponed one never closes
  within the clock, the first one does.

- *Four requests* on one agent's row: it pairs, pairs again, is revoked while it does, and a relay declares its name.
- *Three requests* on one incident: it is opened, and two updates of it overlap, or one follows the other, or the second
  is cut short. Two components, so that a page or a group has one that is not declared.
- *Two calls and two starts*: the calls overlap, or one follows a crash of the other's server, or finds a wiped volume,
  a moved address or the agent the last server left. Three deaths: as many as would make the supervisor give up if every
  exit counted.
- *Four checks, six instants of two days, windows 4–6 and 5–7, buckets of one and two* in `availability`: a check carries
  in from the day before or is too old to; one goes stale before the next; two failures in a row confirm an outage and one
  does not; what is planned or unknown lies between two failures; a bucket is mixed; a window covers a check, a part of
  a bucket, and another window. The agent says only operational and down; whoever has no name also says the rest.
- *Two events* in `measuring`: an agent dies and comes back, dies and is revoked, a control is pinned to an agent that
  dies, a control is deleted while the server probes it.

The type invariants of all modules are proved (section 5) and not repeated in the configurations; `InstructionPromise` and
`NotificationPromise` state what their implementations keep and have none.

Where three points are too few: `OldestFirst` once also said that a point that was given up is older than every
point still there. The proof did not go through and showed why: a point that was evicted before it was saved is gone,
one that was evicted and is still in the file comes back with a restart, and it is the older one. That takes a hold with several
points, so the run with three points never saw it; TLC confirms it with five and a queue of three. The property now
leaves out what the file brings back, which is what `Queue::push` promises. For properties with a theorem the bounds above
are where TLC looked first, and not what the claim rests on.

Where a bound hid something: `MarkersChangeNothing` once said that the sweep's markers never change the downtime of a day.
Thinking through a proof, a day turned up whose only evidence is a marker: the last check lies farther back than the reading looks,
so without the marker the time before the next check counts for nothing, and with it for down. The run began two
instants too late for that. It now begins earlier (`Start`), and the property says that the day, or what carries into it, has
a check for the silence to follow.

Where a model was too kind: `NeverDark` held for a control elected to a relay without any machine of its zone, because the model
let the relay measure. It no longer does, so for such a control `NeverDark` now rests on a machine of the zone asking for the
relay's list. TLC then found a control whose policy is `all`, still assigned to an agent that is dead as well as to a relay
with no machine behind it: `Stranded` now asks only of those that are heard from whether they measure.

`fleet` and `incidents` use symmetry over the requests, which no definition orders. `delivery` uses symmetry over the instructions, which no definition tells apart; its only temporal formula is
the safety part of a refinement. Liveness runs use none.

## 4 Fairness

Only what the code's scheduling provides.

- `InstructionDelivery`: weak fairness of each machine's `Turn` (its loop goes round; a supervisor starts it
  again: systemd `Restart=always`, launchd `KeepAlive`) and of `Wake` (a statement after the insert). None
  for the console, the shell or faults. `BeatExpires` is inside `Turn`, because the hold has a timer; this is
  what makes a missed wakeup cost time and not the instruction.
- `AgentRunner`: weak fairness of the loop and the supervisor, weak of `HoldExpires` (a timer), strong of
  `Sent`: a server that is away comes back, and a chunk that is tried again and again is taken once.
- `Relay`: as above for its refresh and forward loops and its declarations; strong for `Pushed` and
  `DeclareZone`. Its supervisor starts it again, but a relay that cannot read its file ends at once, so `Start` waits for a
  file that can be read.
- `Notifier`: weak for the worker (`setInterval`) and for each back-off's end. A transport is *not* assumed to
  succeed: `EveryNoteSettles` holds of endpoints that fail for ever.
- `Maintenance`: weak for the transitions job. Not for the reminders and not for operators.

- `LocalAgent`: weak for the timer and for a process that starts (it gets the lock and settles, or refuses). Not for the
  calls and not for the death of a stray.
- `Measuring`: weak for each agent's asking and measuring while it runs (measuring not for the relay), for the relay's declarations, for the job, and
  for ten minutes to pass (`Age`). Not for pairing, beats, admins or anything that befalls an agent.
- `Fleet`, `Incidents`, `Availability`: none; nothing there must happen.

Faults are bounded, so "eventually" means after the last one.

## 5 Proofs

`tlapm <module>` checks each; none has an assumption beyond the named `ASSUME`s, which TLC evaluates in every run:
`DeliveryAssumption` (direct and zone machines are different, every zone machine has a relay that is a direct machine, the
placeholders are not members, the bound on faults is a number), `RunnerAssumption`, `RelayAssumption`,
`NotifierAssumption`, `MaintenanceAssumption` (a window ends after it starts, marks are positive), `FleetAssumption`,
`IncidentsAssumption`, `MeasuringAssumption`, `LocalAgentAssumption`, and `AvailabilityAssumption` (there are finitely many
agents; a bucket's length divides a day; `Scale` is a multiple of how many checks a bucket may hold, so that no share is rounded). Machines, relays, instructions, subscribers, events, requests, codes,
calls, controls, operators and windows are arbitrary, and may be infinite; queues, chunks, points and faults are any number.

**`InstructionDelivery_proofs`** – `Types`, `OncePromise`, `OnePlace`, `RightAnswer`, `NothingLost`. `CarriedOnce` is
not inductive: that `Carry` raises `times[i]` to one and not to two needs that an instruction in `todo` was never
carried out; that needs the same of the reply it came in and the relay it came through; and that no poll puts a
second copy there needs that what is in any of these was marked as delivered. The invariant `IInv` is therefore

    TypeOK /\ Bookkeeping /\ Apart /\ Fresh /\ Somewhere /\ CarriedOnce /\ AnsweredByItsMachine

`Bookkeeping` says what sits where and for whom, `Apart` that no two places share an instruction, `Fresh` that what
is in a place was handed over, not carried out and not lost, `Somewhere` is `NothingVanishes`. One lemma per
conjunct shows it preserved, one step per action; what the end of a process does to every place is a lemma of
its own (`Ends` is used by four actions).

`NoLostWakeup` and `StopIsFinal` are from `IInv` with `Silent`: a process that is down has no loop, and one that booted
stopped never leaves the top of it, so nothing under way can resume it. `Implements` is `Spec => PromiseKept`: each
step maps to a move of `InstructionPromise` or a stutter; the mapping is well defined because of `IInv` (an instruction that is answered
was carried out, one that is lost was not).

**`AgentRunner_proofs`** – `Types`, `NothingQuiet`, `DoneIsDurable`, `InOrder`, for any length of queue, chunk and number of points,
instructions and faults. The invariant of the first two is `TypeOK /\ Settled /\ Accounted`. `Settled` says where memory and
file may differ: nothing is measured and not queued but in the middle of an iteration; what is queued is in the file unless
`unsaved` says why not; what only the file still holds arrived, or made room. `Accounted` is `NothingLostQuietly` as points
and their `fate`. A crash then loses only what `unsaved` excuses. `ToldIsTrue` is inductive with `TypeOK`.
`InOrder` (`OldestFirst`) adds `Lined`: points bear the number they were measured with (`Numbered`), the files in the order
they are read, and the queue with what was measured since, ascend (`Ascending`), what made room and is back in the queue came
from the file (`Reread`), and whatever passed is older than whatever is still on its way for the first time (`InLine`). Queues are
cut and joined by lemmas of their own (`IncreasingConcat`, `Cut`, `OldestGo`, `ChunkFirst`); a step then says which end it touches. `Arrive` picks the order of what arrives by an index function, because
`SelectSeq` is defined by a local recursion the provers cannot unfold.

**`Notifier_proofs`** – `Types`, `SentIsTrue`, `OncePlusFaults`, `ForAllOrNobody`, `Implements`, for any subscribers, events, scopes,
batch and number of attempts. `RepeatsHaveReasons` is not inductive: that a delivery adds at most the first hearing
needs that the row it works on is still unpaid for. The invariant is `TypeOK /\ Hands /\ Rows /\ Queue /\ Paid /\ Heard`:
what a run has in its hands was pending and is there once, so one run never meets another's rows (`Hands`); a
pending row has an attempt left and a confirmed subscriber (`Rows`); rows exist exactly for the targets of calls that
went through (`Queue`); what is pending or in hand, and not just delivered, was heard at most once per fault (`Paid`);
what is about to be marked was heard (`Heard`).
`Implements` is `Spec => PromiseKept`: a step of a subscriber, of the worker or of a failure is `Agree`, `Leave`, `Post`, `Hear`,
`Settle` or `GoesWrong`, or changes nothing the promise sees, which takes the invariant three times: an insert finds no
row of its event (`Queue`), a delivery finds the row it works on still pending or gone and unpaid for (`Hands`, `Paid`), and what is
marked was heard (`Heard`).

**`Relay_proofs`** – `Types`, `RemembersPairings`, `PaysOnce`, for any zone, limit and chunk. `NoPairingForgotten` is an action property:
a task may write an older list of keys, and no list anywhere has a key that was not given out (`KeysBehind`). For
`RoomIsPaidOnce` the queue is a window of consecutive points (`Ordered`), so that its first one is arithmetic (`Oldest`); the
chunk on the wire starts at or before it. What is lost already, plus what drops off the queue while its copy is on the
wire, is covered by evictions (`Paid`): the push pays with the difference. `LostUpTo` and `Numbers` count the points in
between, which needs cardinalities and no induction.

**`Fleet_proofs`** – `Types`, `ActiveIsLive`, `RevokedIsDead`, `OneRowEach`, `NothingBetween`, `UsesBuyKeys`. `NeverLockedOut` needs to
know what a request has in its hands (`Doomed`): only rows it has read hold the keys it will revoke, and none of them is
active and holds one when it does. `RevocationIsReal` excuses only a pairing that crossed and the gap between the two statements of
one agent's revocation. That rests on a key being in one row, put there by the pairing that minted it (`Keyed`). `NoTwin` needs that
a row with an install id is found by everybody who looks after it was written; `DirectBehindNothing` that what a
declaration matched holds no key, then or when it commits. `CodeBuysKeys` compares the column of a code with the
requests: the uses are at least those that got a key or claimed one, at most those with those still on their way
(`Counted`), and a key is there from the moment it is minted and not before (`Minted`); the sets are finite because each use adds one.

**`Page_proofs`**, incidents – `Types`, `Cleared` (`ResolvedIsCleared`), `TellsWhatStands` (`ToldWhenItStands`), `Shown`
(`DeclaredIsShown`). `Shape` says what a request holds at each of its statements; `Rivalry` that two requests of one
incident that are both on their way have crossed; `Stands` that a request nobody crossed finds, from the row on, what it wrote;
`Entered` that it is in the timeline before it announces. `ResolvedIsCleared` follows step by step with the excuses in its
statement. `Shown` also needs `Watched`, that what stands since the page was begun was read by it, and lemmas about `Status`:
the worst of a set is a member no other outranks, and neither a component, a roll-up nor a headline over something bad is green.

**`Jobs_proofs`**, who measures – `Types`, `OneSeries`, `ServerAndAgentsAgree`. What the job has in its hands was covered by no
fresh agent when it looked; an agent is fresh only by being touched, and whoever is touched meanwhile has arrived.
`HandedOver` compares two pieces of code on the same rows: where one agent claims a control by `agentCoverage`, `electOwner`
finds a fresh one, because among those that claim it one has the least id (naturals are well founded; the set of
agents need not be finite).

**`Jobs_proofs`**, windows – `WindowTypes`, `RemindersKept`, `MovesAnnounced`, `ClosedForGood`. `RemindersAreKept` is three claims, and each needs
another part of `Kept`. That only what was announced is recorded needs the same of every row a request has read and may
write back (`Said`). That reminders come closer needs what the job chose of a schedule nobody edited since: all marks the
window has reached, so that what is left is nearer (`Chosen`), and that a mark once announced is recorded or due again (`Nearer`);
what is up next is then no farther than all before it (`NextUp`). That repetitions are at most the failures is
`Counted`: a reminder that is neither recorded nor about to be has a failure left to pay for its repetition, and by the
order only the last one can be repeated. `MovesAreSaid` is inductive once the job is known to have a move to announce.

**`LocalAgent_proofs`** – `Types`, `OneAgent`, `ClosedIsQuiet`. The invariant is `TypeOK /\ Left /\ Waiting /\ Provisioned`:
`Provisioned` follows a call that is alone through its statements (the row it found is the only one; what it is about to
write into the file is the key of that row), `Left` says what closing leaves (a child or a timer under a closing server
was begun late), and `Waiting` that a supervisor has a process or a timer and not both, and that one which gave up has neither: that
refusals stay within their limit rests on it.

**`Page_proofs`**, availability – `CheckTypes`, `NumbersAddUp` (`FourNumbersAddUp`), `MarkersAreSilence` (`MarkersChangeNothing`),
for any number of sources, any windows, buckets and length of day. For the second, five things are shown one after the other.

1. Merged windows lie in the period, in order and apart (`MergeApart`, `WindowsApart`). Without the merge the property is
   false: time that two windows share would be taken out twice.
2. What such windows leave of a span is never negative, and adds up over adjoining spans (`OutsideAdds`, `OutsideNat`,
   `DurationOutside`): the cut `Max({0, …})` in `durationOutside` never bites.
3. Both readings give segments that lie in the period, in order and without overlap, each with shares between nothing and
   all that sum to at most all of it (`SamplesInOrder`, `RowsInOrder` with `SegmentsOfRows`). For checks this needs that what is left of
   an earlier boundary ends where the next begins; for buckets, that a status is counted once and `Scale` has room for every share.
4. Along the segments, what was planned, up and down so far is non-negative and at most what the windows leave of the period
   so far (`CountAddsUp`). So the fourth number, cut at zero in the code too, is a difference that is never cut, and the four add up.
5. What a bucket counts must be finite: the invariant is `Recorded`, which adds to `CheckTypeOK` that every step records finitely
   many checks.

`MarkersAreSilence` compares two readings of one day that have different segments, so it goes by instants.

1. The segments tile the day from the first boundary on, and the segment of an instant is a function of the instant alone: what
   was live at the last boundary before it, until that goes stale (`SamplesTile`, `SegmentOf`).
2. With a debounce of two, a failed segment is in a confirmed run exactly if a segment beside it failed (`Confirmed`). Its
   invariant follows the search from segment to segment: the run under way is the failures since the last segment that did not
   fail, what is over is sound, and no failure before was dropped. So whether an instant is charged depends on the
   reading just before and just after its segment (`DownAt`, `ChargedAt`).
3. Readings with the same instants down are equally down, however they are cut into segments, because what windows leave adds
   up over adjoining spans (`SumIsCharges`, `SameDown`).
4. A marker comes after everything heard before it went stale, and nothing else is recorded at its instant. This is the invariant
   `Swept`, and it rests on the guard of the sweep. So a marker is read alone, and as silence, where without it there is silence
   too; it cuts nobody's check short; and beside a later check it changes neither what is said nor until when
   (`LiveAlike`, `HoldsAlike`, `ReadAlike`).
5. The marker adds no time at the start of the day, because something was heard before it (`BoundariesAlike`): the premise that
   the property states, without which it is false.

The sums, the sequences and the search for runs are recursive functions. Induction along them is by the least index at which the claim would fail,
which naturals have (`WellFoundedInduction`), so no theorem with an operator for a parameter is needed.

What stays with TLC. Liveness (`EveryNoteSettles`, `BacklogDrains`, `OpensByItself`, `AgentComesBack`, `NeverDark`, …), because it
rests on `ENABLED`. `AgreesWithReference`, the only safety property of a run without a theorem: the reference asks of every
instant which observations lie near it with nothing up between, and counts them, where the code searches runs that unknown and
planned time neither joins nor breaks, in two readings with different segments. The lemmas on tilings and charges above carry over; the
correspondence of the runs across such time is not done.

## 6 Where the code and its words disagree

One has a run that ends in a counterexample; `PROJECT.json` ("findings") quotes the words.

1. `status.ts:607` – `uptime.json` computes a day's availability from buckets and does not say what silence means, so a
   push control that fell silent loses the time from the denominator and keeps its 100%. `docs/user-guide.md:529-532` says
   "A silent push component now counts against you … it is now unavailability"; `docs/data-model.md:123` "Silence is
   unavailability"; the comment at `status.ts:496-499` that `computeAvailability` carries this rule. Run `push_silence`.

The rest are stated in the modules as properties that the code does not keep; TLC refutes each when it is added to the
configuration of the module's run (`DropsOnlyConfirmed` and `PairedSurvivesRestart` with `Zone = {m1, m2}`).

2. `jobs.ts:72` (`NoneLeftDark`) – a row without a key covers every control (`?? []`). The row a relay declares for a machine
   of its zone may be elected owner, nobody asks for jobs in its name, and the server counts the tenant as covered
   (`local-probes.ts:104-106`): the control is dark. `local-probes.ts:26-28` says controls are handed back "rather than
   leaving them dark".
3. `runner.rs:708` (`RestartKeepsHistory`) – during a hold the queue is not written, and a restart leaves without writing
   it; `runner.rs:702-707` says "Points keep queueing (and persisting) while the hold lasts, so backing off costs
   freshness, never history".
4. `commands.rs:300` (`RefusedIsNotApplied`) – a state that could not be written stays in force in memory though it is
   answered as failed; `commands.rs:306-309` says "Not applied in memory only".
5. `proxy.rs:1033` (`DropsOnlyConfirmed`) – `drop_front` removes by count after a wait, "what upstream has confirmed"
   (`runner.rs:161`) or not.
6. `proxy.rs:974` (`PairedSurvivesRestart`) – `declare_zone` saves a clone made before a call upstream, the very
   pattern `proxy.rs:610-619` was written against.
7. `proxy.rs:437` (`StoppedRelayStaysStopped`) – the relay's startup pass asks for instructions without looking at its
   state, and may be resumed by what it finds; `proxy.rs:701-707` says a stopped relay does not ask. (The agent's startup
   pass looks, `main.rs:466-486`.)
8. `availability.ts:597` (`CostsTheSame`) – the debounce counts segments, so one bucket that failed throughout is
   discarded, while its checks one by one are an outage. `availability.test.ts` says "an outage that fell cleanly inside
   its buckets costs the same time", and in another test that a bucket that failed outright is still debounced.
9. `availability.ts:597` (`PlannedWorkIsFree`) – a bucket that a window covers in part is charged, for the part outside,
   with the share that failed inside. `docs/data-model.md` says planned work leaves the denominator.
10. `maintenances.ts:373` (`StampedOnce`) – the actual start is stamped from a row read earlier, and `scheduler.ts:29`
   stamps without looking; comment (`maintenances.ts:369-371`) and test say it is stamped once.
11. `agents.ts:1503-1515` (`RevokedTogether`) – revoking one agent marks its row and then kills its key, in two statements
   without a transaction; a failure or the end of the process in between leaves a revoked agent whose key works, and nothing
   tries again but another revocation. `docs/data-model.md:200-201` says revoking the record "revokes that key in the
   same transaction". The bulk revocation is one. `RevocationIsReal` holds of everything but this gap.

Noted while reading, without a run of their own: `status` and `doctor` delete the older queue file without saving
what it held (`main.rs:654`, and a `fate` in `AgentRunner`); SIGTERM outside the two `select!`s is swallowed
(`runner.rs:218-248`); a first retry of a notification waits 300 s where a comment says a minute (`notify.ts:62-67`);
`proxy.rs:83` says a paused relay forwards, `proxy.rs:1014-1025` does not; a window moved by the job and followed by a
crash is never announced although `scheduler.ts:8-13` says none is skipped (`MovesAreSaid` allows one per failure). A relay
or an agent that ends with a torn config does not start again (`proxy.rs:422`, `main.rs:464`, written in place at
`config.rs:310-321`): what it has queued stays on its disk. `ForwardDrains` and `BacklogDrains` excuse it.

Of incidents: `incidents.ts:273-275` says re-resolving "must not rewrite when it originally ended", but re-opening sets
the end to null, so it does. Two updates that overlap leave the row at one status and the timeline ending in the other. A
request refused for a component of somebody else's (400) has by then written the row and the timeline. Impacts are erased and
then inserted, so a page put together in between shows the component as measured; an incident that is opened again has
none. A postmortem of a private incident is announced. The badge does not look at declared impacts.
`rollupStatus` with `majority` counts children without data as unhealthy.

Of the local agent: the `spawn` event forgets the failures counted for the back-off, so it is always one second. After
a quick restart of the server the agent it left still holds the lock, the new one refuses three times and is given up for
good. An agent that could not be spawned is not tried again. A call on its way when the server closes begins a supervisor
nobody stops. Two calls that overlap may leave two rows, or a key in the file that is not the row's; a file cut short
after the server's address is never repaired.

Of availability: work that somebody reports beside a fresh marker of the sweep counts as time up, because not all that was
said is planned; an agent that went stale is listened to until the next boundary; a period without a single check is
unknown even where silence is down.

Of measuring: a relay with no machine behind it is elected like any agent, and measures nothing.

## 7 What is not modelled and why

Network and probe I/O, rendering, transports' protocols, pages, permissions and read-only views: they keep no state
that several actors change. Timers' lengths: a timer may fire at any time, which covers all of them. Sessions, one-time
codes, passkeys and resets: each is claimed by one conditional statement, and what is left is who may do what. Upgrades: downloads,
file replacement and containers. The web application, the installer and the migrations, most of the repository's lines, are a
user interface, a dialogue and declarations.

Of modelled parts: instructions' payloads; moves of a machine between relays; instructions to machines that share a name; `run --once`
and `queue clear` beside a running service; guessing PINs, codes' purge, builds without an install id, the relay's local page; signing
up twice for one address; which controls a window touches; announcements a request makes after its last write; auto-registration
and receivers of ingest; severities and texts of incidents; series, tiers and badges; deletion of expired checks; a config that is cut short where what is left still parses, of a relay or of
an agent; a relay's queue file that cannot be written (`AgentRunner` has that of the same `Queue`). Components marked `not_modelled` in `PROJECT.json` say why.

## 8 Plan

Done: delivery, its promise and proofs; runner; relay; notifications and their promise; maintenance; pairing and the fleet;
incidents and the page; the local agent; measuring; availability. Every safety property a run checks is also
proved, but for `AgreesWithReference` of `Availability`. The order was that of what it costs to be wrong:
an instruction carried out twice, history lost, a zone cut off, people not told, a machine locked out, a page that lies, a
control nobody watches.

What would come next:

1. `RelayOrders` – composes `Relay`'s merge and save with `InstructionDelivery`'s answers: done is answered before it is saved.
2. `Announcing` – `Maintenance` and `Incidents` composed with `Notifier` through `enqueueEvent`.
3. `Ingest` – at least once from both queues into `checks`, with auto-registration.
4. `Backoff`, assertions – operators checked against a reference definition over bounded inputs.

Abstract specifications worth stating: a bounded FIFO with excuses, for `AgentRunner` and `Relay` to be refined from,
step by step; a transition that is announced at most once more than it fails, for `Maintenance`. Theorems worth proving:
those two refinements; `AgreesWithReference`; `Status`' roll-ups as lemmas of their own.
