---------------------------- MODULE Availability ----------------------------
(***************************************************************************)
(* The availability of one control (packages/shared availability.ts), from *)
(* its checks or from the buckets of an aggregate, what the public page    *)
(* publishes of it (routes/status.ts), and the sweep that marks a push     *)
(* control that fell silent (services/scheduler.ts).                       *)
(*                                                                         *)
(* Time is counted in the control's interval.  Durations are counted in    *)
(* parts, Scale of them to an interval, so that the share of a bucket is a *)
(* whole number of parts and no figure is rounded before it is published.  *)
(***************************************************************************)
EXTENDS Status, Integers, FiniteSetsExt, SequencesExt

CONSTANTS
    Agents,       \* those that report the control under their own name
    Nobody,       \* whoever has no name: the server, a plain key, the sweep
    Reported,     \* which statuses each of them reports, for TLC
    NoFigure,     \* nothing to publish
    Resolutions,  \* how many intervals a bucket spans, one of them per period
    DayLength,    \* intervals in a day
    Scale,        \* parts of an interval
    WindowSets,   \* sets of maintenance windows, for TLC
    Start, End,   \* when the control is watched, for TLC
    MaxChecks     \* bound on checks, for TLC

Sources == Agents \union {Nobody}

ConstantsOK ==
    /\ Nobody \notin Agents /\ IsFiniteSet(Agents)
    /\ Reported \in [Sources -> SUBSET Statuses]
    /\ Resolutions \subseteq Nat \ {0}
    /\ DayLength \in Nat \ {0} /\ \A r \in Resolutions : DayLength % r = 0
    /\ Scale \in Nat \ {0}
    /\ \A r \in Resolutions : \A n \in 1 .. r * Cardinality(Sources) : Scale % n = 0
    /\ \A W \in WindowSets : \A w \in W : w.from \in Nat /\ w.to \in Nat
    /\ Start \in Nat /\ End \in Nat /\ Start <= End /\ MaxChecks \in Nat

ASSUME AvailabilityAssumption == ConstantsOK

VARIABLES
    windows,  \* maintenance windows: from, to, and whether they suppress alerts
    checks,   \* what was recorded: ts, source, status
    markers,  \* when the sweep recorded a silence
    now

checkVars == <<windows, checks, markers, now>>

CheckTypeOK ==
    /\ windows \in WindowSets
    /\ checks \subseteq [ts : Start .. End, source : Sources, status : Statuses]
    /\ markers \subseteq Start .. End
    /\ now \in Start .. End

CheckInit ==
    /\ windows \in WindowSets
    /\ checks = {} /\ markers = {} /\ now = Start

\* Time passes until some of the sources report, each at most once an interval.
Report ==
    /\ \E t \in now .. End - 1 : \E who \in SUBSET Sources \ {{}} :
       \E said \in [who -> Statuses] :
        /\ \A s \in who : said[s] \in Reported[s]
        /\ checks' = checks \union {[ts |-> t, source |-> s, status |-> said[s]] : s \in who}
        /\ now' = t + 1
    /\ Cardinality(checks') <= MaxChecks
    /\ UNCHANGED <<windows, markers>>

\* sweepStaleControls, if this is a push control: one that reported and fell silent
\* is marked once, unless it is in a window that suppresses alerts.
Sweep ==
    /\ Cardinality(checks) < MaxChecks
    /\ \E t \in now .. End - 1 : \E last \in checks :
        /\ \A c \in checks : c.ts <= last.ts
        /\ last.ts + 2 < t
        /\ last.status # "unknown"
        /\ ~\E w \in windows : w.suppress /\ w.from <= t /\ t < w.to
        /\ checks' = checks \union {[ts |-> t, source |-> Nobody, status |-> "unknown"]}
        /\ markers' = markers \union {t}
        /\ now' = t + 1
    /\ UNCHANGED windows

CheckNext == Report \/ Sweep

CheckSpec == CheckInit /\ [][CheckNext]_checkVars

-----------------------------------------------------------------------------
(* Planned work. *)

isFailing(status)  == status \in {"down", "partial"}
isExcluded(status) == status = "maintenance"
isUnknown(status)  == status = "unknown"

\* Mutation of normaliseWindows: windows that overlap stay apart.
normaliseWindowsUnmerged(W, within) ==
    LET clamp(w) == [from |-> Max({w.from, within.from}), to |-> Min({w.to, within.to})]
    IN  SetToSeq({w \in {clamp(w) : w \in W} : w.from < w.to})

\* Clamped to a window, sorted by where they begin, and merged where they overlap
\* or touch.
normaliseWindows(W, within) ==
    LET clamp(w) == [from |-> Max({w.from, within.from}), to |-> Min({w.to, within.to})]
        clamped  == {w \in {clamp(w) : w \in W} : w.from < w.to}
        merge(merged, from, to) ==
            IF merged # <<>> /\ from <= Last(merged).to
            THEN [merged EXCEPT ![Len(merged)].to = Max({@, to})]
            ELSE Append(merged, [from |-> from, to |-> to])
        mergedUntil[t \in within.from .. within.to] ==
            IF t = within.from THEN <<>>
            ELSE LET begun == {w \in clamped : w.from = t - 1} IN
                 IF begun = {} THEN mergedUntil[t - 1]
                 ELSE merge(mergedUntil[t - 1], t - 1, Max({w.to : w \in begun}))
    IN  mergedUntil[within.to]

total(numbers) ==
    LET sum[i \in 0 .. Len(numbers)] == IF i = 0 THEN 0 ELSE sum[i - 1] + numbers[i]
    IN  sum[Len(numbers)]

\* How much of a span falls outside every excluded window.
durationOutside(from, to, exclusions) ==
    LET overlap(w) == Max({0, Min({to, w.to}) - Max({from, w.from})})
    IN  Max({0, to - from - total([i \in DOMAIN exclusions |-> overlap(exclusions[i])])})

-----------------------------------------------------------------------------
(* The control's time as segments: a span, and the shares of it that were    *)
(* failing, planned and unknown.                                             *)

Segment(from, to, down, maintenance, unknown, definite, fromSilence) ==
    [from |-> from, to |-> to, down |-> down, maintenance |-> maintenance, unknown |-> unknown,
     definite |-> definite, fromSilence |-> fromSilence]

Part(b) == IF b THEN Scale ELSE 0

silent(from, to, isDown) == Segment(from, to, Part(isDown), 0, Part(~isDown), TRUE, isDown)

\* What a check speaks for without another one: twice the interval.
maxGap == 2

\* Mutation of relevant: what was said before the window is forgotten.
relevantInside(C, window) == {c \in C : window.from <= c.ts /\ c.ts < window.to}

\* The checks a window looks at: one gap's worth from before it, too.
relevant(C, window) == {c \in C : window.from - maxGap <= c.ts /\ c.ts < window.to}

\* Of each source, its last check until then that has not gone stale.
live(C, at) ==
    {c \in C : /\ c.ts <= at /\ at - c.ts < maxGap
               /\ ~\E d \in C : d.source = c.source /\ c.ts < d.ts /\ d.ts <= at}

\* Mutation of segmentAt: a marker of the sweep is time nobody knows of.
segmentAtUnknown(C, at, next, silenceIsDown) ==
    LET to         == Min({next, Max({c.ts : c \in C}) + maxGap})
        allUnknown == \A c \in C : isUnknown(c.status)
        failing    == \E c \in C : isFailing(c.status)
        excluded   == ~failing /\ \A c \in C : isExcluded(c.status)
    IN  <<Segment(at, to, Part(failing), Part(excluded), Part(~failing /\ ~excluded /\ allUnknown),
                  TRUE, FALSE)>>
        \o (IF to < next THEN <<silent(to, next, silenceIsDown)>> ELSE <<>>)

\* From one check of anybody's to the next: down if anybody says so.
segmentAt(C, at, next, silenceIsDown) ==
    LET to         == Min({next, Max({c.ts : c \in C}) + maxGap})
        allUnknown == \A c \in C : isUnknown(c.status)
        failing    == (\E c \in C : isFailing(c.status)) \/ (allUnknown /\ silenceIsDown)
        excluded   == ~failing /\ \A c \in C : isExcluded(c.status)
    IN  <<Segment(at, to, Part(failing), Part(excluded), Part(~failing /\ ~excluded /\ allUnknown),
                  TRUE, allUnknown /\ silenceIsDown)>>
        \o (IF to < next THEN <<silent(to, next, silenceIsDown)>> ELSE <<>>)

\* From one boundary to the next, in the order of time; nothing is said of what
\* lies before the first.
segmentsFromSamples(C, window, silenceIsDown) ==
    LET seen       == relevant(C, window)
        boundaries == {Max({c.ts, window.from}) : c \in seen}
        segments(at) ==
            LET next == Min({window.to} \union {b \in boundaries : at < b})
            IN  IF live(seen, at) = {} THEN <<silent(at, next, silenceIsDown)>>
                ELSE segmentAt(live(seen, at), at, next, silenceIsDown)
        segmentsUntil[t \in window.from .. window.to] ==
            IF t = window.from THEN <<>>
            ELSE IF t - 1 \in boundaries THEN segmentsUntil[t - 1] \o segments(t - 1)
            ELSE segmentsUntil[t - 1]
    IN  segmentsUntil[window.to]

\* A row of an aggregate: how many checks a bucket holds, by what they said.
Bucket(C, from, r) ==
    LET count(S) == Cardinality({c \in C : from <= c.ts /\ c.ts < from + r /\ c.status \in S})
    IN  [from |-> from, to |-> from + r, samples |-> count(Statuses), down |-> count({"down", "partial"}),
         maintenance |-> count({"maintenance"}), unknown |-> count({"unknown"})]

\* The rows of one day: a bucket without checks has none.
BucketsOf(C, window, r) ==
    LET bucket(i) == Bucket(C, window.from + (i - 1) * r, r)
        rows[i \in 0 .. DayLength \div r] ==
            IF i = 0 THEN <<>>
            ELSE IF bucket(i).samples > 0 THEN Append(rows[i - 1], bucket(i))
            ELSE rows[i - 1]
    IN  rows[DayLength \div r]

segmentsFromBuckets(buckets) ==
    [i \in DOMAIN buckets |->
        LET b == buckets[i]
            share(n) == (n * Scale) \div b.samples
        IN  Segment(b.from, b.to, share(b.down), share(b.maintenance), share(b.unknown),
                    b.down \in {0, b.samples}, FALSE)]

-----------------------------------------------------------------------------
(* The counting, the same for both. *)

\* As many failures in a row as confirm an outage.
debounce == 2

NoRun == [start |-> 0, end |-> 0, length |-> 0]

\* Maximal runs of failing segments.  What is unknown or planned neither joins
\* nor breaks one; a mixture breaks it.
failingRuns(segments) ==
    LET step(acc, s) ==
            IF s.unknown = Scale \/ s.maintenance = Scale THEN acc
            ELSE IF s.definite /\ s.down = Scale
            THEN [acc EXCEPT !.run = [start |-> IF @ = NoRun THEN s.from ELSE @.start,
                                      end |-> s.to, length |-> @.length + 1]]
            ELSE [runs |-> acc.runs \union {acc.run}, run |-> NoRun]
        until[i \in 0 .. Len(segments)] ==
            IF i = 0 THEN [runs |-> {}, run |-> NoRun] ELSE step(until[i - 1], segments[i])
        end == until[Len(segments)]
    IN  end.runs \union {end.run}

\* The four numbers, in parts.
count(segments, window, exclusions) ==
    LET confirmed   == {r \in failingRuns(segments) : r.length >= debounce}
        span(s)     == durationOutside(s.from, s.to, exclusions)
        measured(s) == span(s) * (Scale - s.maintenance - s.unknown)
        charged(s)  == s.fromSilence \/ ~s.definite
                       \/ \E r \in confirmed : r.start <= s.from /\ s.to <= r.end
        sum(f(_))   == total([i \in DOMAIN segments |-> f(segments[i])])
        planned     == sum(LAMBDA s : span(s) * s.maintenance)
        down        == sum(LAMBDA s : IF charged(s) THEN span(s) * s.down ELSE 0)
        up          == sum(measured) - down
        all         == (window.to - window.from) * Scale
        outside     == durationOutside(window.from, window.to, exclusions) * Scale
    IN  [up |-> up, down |-> down, excluded |-> all - outside + planned,
         unknown |-> Max({0, outside - (up + down) - planned})]

\* computeAvailability, from checks.
fromSamples(C, window, silenceIsDown) ==
    count(segmentsFromSamples(C, window, silenceIsDown), window, normaliseWindows(windows, window))

\* computeAvailability, from buckets; silence is what the aggregate has no row for.
fromBuckets(buckets, window) ==
    count(segmentsFromBuckets(buckets), window, normaliseWindows(windows, window))

-----------------------------------------------------------------------------
(* What the page publishes: uptime.json, one figure a day.                    *)

\* In thousandths of a percent, or nothing.  What is shorter than the checks can
\* resolve is not published.
publishedUptime(result, samples) ==
    LET observed == result.up + result.down IN
    IF observed = 0 THEN NoFigure
    ELSE IF result.down = 0 \/ result.down * samples < observed THEN 100000
    ELSE (2 * 100000 * result.up + observed) \div (2 * observed)

Day(d) == [from |-> d * DayLength, to |-> (d + 1) * DayLength]

\* Days with rows: a day without any is not in the answer.  Nothing is said of what
\* silence means.
days(r) ==
    [d \in {c.ts \div DayLength : c \in checks} |->
        LET buckets == BucketsOf(checks, Day(d), r)
        IN  publishedUptime(fromBuckets(buckets, Day(d)),
                            FoldLeft(LAMBDA sum, b : sum + b.samples, 0, buckets))]

-----------------------------------------------------------------------------
(* Reference: the same, instant by instant, for the checks of one source.     *)

\* What instant x was: the class of the last check, if it still speaks.
Was(C, window, gap, silenceIsDown, x) ==
    LET heard == {c \in C : c.ts <= x /\ window.from - gap <= c.ts}
        last  == CHOOSE c \in heard : \A d \in heard : d.ts <= c.ts
    IN  IF heard = {} THEN "unheard"
        ELSE IF x - last.ts >= gap \/ isUnknown(last.status)
        THEN IF silenceIsDown THEN "silent" ELSE "unheard"
        ELSE IF isFailing(last.status) THEN "failing"
        ELSE IF isExcluded(last.status) THEN "planned" ELSE "up"

\* Where something new is observed: at a check, when the last one goes stale, and
\* when the window begins.
Observed(C, window, gap, x) ==
    \/ x = window.from
    \/ \E c \in C : c.ts = x
    \/ \E c \in C : c.ts + gap = x /\ ~\E d \in C : c.ts < d.ts /\ d.ts < x

Reference(C, window, gap, silenceIsDown) ==
    LET instants == window.from .. window.to - 1
        was   == [x \in instants |-> Was(C, window, gap, silenceIsDown, x)]
        near(x) == {y \in instants : \A z \in instants : (x <= z /\ z <= y) \/ (y <= z /\ z <= x) => was[z] # "up"}
        confirmed(x) ==
            Cardinality({y \in near(x) : was[y] \in {"failing", "silent"} /\ Observed(C, window, gap, y)})
                >= debounce
        planned == {x \in instants : was[x] = "planned" \/ \E w \in windows : w.from <= x /\ x < w.to}
        down == {x \in instants \ planned :
                    was[x] = "silent" \/ (was[x] = "failing" /\ confirmed(x))}
        up   == {x \in instants \ planned : was[x] = "up" \/ (was[x] = "failing" /\ ~confirmed(x))}
        parts(S) == Cardinality(S) * Scale
    IN  [up |-> parts(up), down |-> parts(down), excluded |-> parts(planned),
         unknown |-> parts(instants \ (planned \union up \union down))]

-----------------------------------------------------------------------------
(* Safety. *)

\* The last day: the first ones are there for what they leave behind.
Days == {(End - 1) \div DayLength}

\* The four numbers account for the day and none of them is negative, whoever
\* reports, at every resolution and whatever windows overlap (availability.ts, `they
\* account for the period`).
FourNumbersAddUp ==
    LET accounts(n) == /\ n.up >= 0 /\ n.down >= 0 /\ n.excluded >= 0 /\ n.unknown >= 0
                       /\ n.up + n.down + n.excluded + n.unknown = DayLength * Scale
    IN  \A d \in Days :
        /\ \A isDown \in BOOLEAN : accounts(fromSamples(checks, Day(d), isDown))
        /\ \A r \in Resolutions : accounts(fromBuckets(BucketsOf(checks, Day(d), r), Day(d)))

\* Where one source reports, the reading of its checks is what was said instant by
\* instant, whatever silence means; and so is that of the finest aggregate, in which
\* a check speaks for its own bucket only.
AgreesWithReference ==
    (\A c, d \in checks : c.source = d.source) => \A d \in Days :
        /\ \A isDown \in BOOLEAN :
               fromSamples(checks, Day(d), isDown) = Reference(checks, Day(d), maxGap, isDown)
        /\ fromBuckets(BucketsOf(checks, Day(d), 1), Day(d)) = Reference(checks, Day(d), 1, FALSE)

Marks == {c \in checks : c.source = Nobody /\ c.ts \in markers}

\* The markers of the sweep are the silence they record, and change no downtime of
\* a day in which the control was heard of before them (availability.ts, `the evidence
\* of the silence would remove the silence`).  For sources that announce no work: work
\* that is reported beside a fresh marker counts as time up.  A marker with nothing
\* before it is all that says the day began in silence.
MarkersChangeNothing ==
    LET own == checks \ Marks IN
    \A d \in Days :
        (\A m \in relevant(Marks, Day(d)) : \E c \in relevant(own, Day(d)) : c.ts < m.ts)
        /\ (\A c \in own : ~isExcluded(c.status)) =>
            fromSamples(checks, Day(d), TRUE).down = fromSamples(own, Day(d), TRUE).down

-----------------------------------------------------------------------------
(* What the code does not keep. *)

\* A push control that was fine until its silence was marked is not published at
\* 100% for that day (docs/user-guide.md, `A silent push component now counts
\* against you`).  The page never says what silence means.
SilenceCountsAgainst ==
    windows = {} /\ (\A c \in checks \ Marks : c.status = "operational") =>
        \A r \in Resolutions : \A c \in Marks : days(r)[c.ts \div DayLength] # 100000

\* An outage that fills its buckets costs the same at any resolution
\* (availability.test.ts, `an outage that fell cleanly inside its buckets`).  One
\* bucket that failed throughout is no outage, however many checks it holds.
CostsTheSame ==
    \A d \in Days : \A r \in Resolutions :
        LET fine   == BucketsOf(checks, Day(d), 1)
            coarse == BucketsOf(checks, Day(d), r)
        IN  /\ Len(fine) = DayLength /\ \A b \in Range(fine) : b.samples = 1
            /\ \A b \in Range(coarse) : b.down \in {0, b.samples}
            => fromBuckets(coarse, Day(d)).down = fromBuckets(fine, Day(d)).down

\* Failures inside planned work are not charged (docs/data-model.md, `Leaves the
\* denominator`).  A bucket that work fills in part is charged for the rest of it
\* by what failed in all of it.
PlannedWorkIsFree ==
    (\A c \in checks : isFailing(c.status) => \E w \in windows : w.from <= c.ts /\ c.ts < w.to)
        => \A d \in Days : \A r \in Resolutions :
              fromBuckets(BucketsOf(checks, Day(d), r), Day(d)).down = 0

=============================================================================
