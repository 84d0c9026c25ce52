------------------------- MODULE FirewallCollector -------------------------
(***************************************************************************)
(* firewall.go: the collector that copies Cloudflare's block events to     *)
(* Loki.  Each poll queries one window of whole minutes, groups its events *)
(* per minute and key, and pushes one line per group; Loki keeps one copy  *)
(* of identical lines.  Polls fail, pushes are stored although the         *)
(* collector sees an error, Cloudflare ingests events late, and the pod    *)
(* restarts, perhaps with an edited environment (Config), and reads back.  *)
(*                                                                         *)
(* Time is counted in slots, SlotsPerMinute to the minute, so that a       *)
(* window edge inside a minute can be expressed; a slot is also the        *)
(* resolution of an event's datetime, by which alone Cloudflare orders its *)
(* answer.  An event has a key, which is what the collector groups by, and *)
(* a sample: the path, user agent, ASN and country that a group takes from *)
(* its first event.  Key 0 is an event whose action is not "block".        *)
(***************************************************************************)
EXTENDS Config, FiniteSets, SequencesExt

CONSTANTS
    Keys,             \* client, rule and host of a block event, as numbers
    Client,           \* Client[k]: the client of key k, as a number
    Samples,          \* path, user agent, ASN and country of an event
    Envs,             \* the environments the pod may be started with
    BatchLimit,       \* firewallLokiBatchLimit, in lines
    SlotRows,         \* what can happen in one slot: sequences of events
    MaxSlot,          \* bound: the last slot
    MaxFaults         \* bound: failed calls, restarts and late events

LogEvents == [key : Keys \cup {0}, sample : Samples]

ASSUME CollectorAssumption ==
    /\ Keys \subseteq Nat \ {0} /\ Client \in [Keys -> Nat] /\ BatchLimit \in Nat \ {0}
    /\ Envs \subseteq {env \in Environments : env.collector}
    /\ SlotRows \subseteq Seq(LogEvents) /\ <<>> \in SlotRows
    /\ MaxSlot \in Nat /\ MaxFaults \in Nat
    /\ \A env \in Envs : LoadConfig(env) => env.lookback + SlotsPerMinute <= MaxSlot

VARIABLES
    clock,           \* the slot in progress
    rows,            \* rows[s]: Cloudflare's events of slot s
    config,          \* the environment of this process
    lastWindowEnd,   \* FirewallCollector.lastWindowEnd, Down while not running
    truncated,       \* counter cloudflare_firewall_truncated_windows_total
    warned,          \* this process has logged that it gave up part of a window
    loki,            \* the distinct lines Loki holds
    since,           \* where the stretch behind the edge begins that is not yet broken
    leftAt,          \* edge of the process that ended, Down if it said it lost something
    polledAt,        \* when lastWindowEnd was set; minus the lookback at first
    readTo,          \* the end of the latest window that was read, ever
    late,            \* minutes that had an event ingested after they were read
    faults

history == <<since, leftAt, polledAt, readTo, late>>
vars == <<clock, rows, config, lastWindowEnd, truncated, warned, loki, history, faults>>

Down == -1
Minute(s) == s \div SlotsPerMinute

\* Mutant of Truncate: window edges are taken as they come.
TruncateNot(s) == s

Truncate(s) == s - (s % SlotsPerMinute)

-----------------------------------------------------------------------------
(* One poll as functions of its window. *)

\* An event is its place: the slot it happened in and its position there.
Events(start, end) == UNION {{s} \X (1 .. Len(rows[s])) : s \in start .. end - 1}
Slot(e) == e[1]
Key(e) == rows[e[1]][e[2]].key
Sample(e) == rows[e[1]][e[2]].sample

\* fetchEvents: Cloudflare filters by action, or rejects the filter and the
\* client filters; either way the query stops at Limit rows, the oldest first.
\* It orders by datetime only: which events of the last slot it has room for,
\* and their order, can be different in every answer.
Blocked(events) == {e \in events : Key(e) # 0}
Smaller(m, n) == IF m < n THEN m ELSE n
Oldest(events) ==
    {f \in kSubset(Smaller(config.rows, Cardinality(events)), events) :
        \A e \in f, d \in events \ f : Slot(e) <= Slot(d)}
Fetched(start, end, serverFilters) ==
    Oldest(IF serverFilters THEN Blocked(Events(start, end)) ELSE Events(start, end))

Members(events, m, k) == {e \in events : Minute(Slot(e)) = m /\ Key(e) = k}
Count(events, m, k) == Cardinality(Members(events, m, k))

\* The samples a group may show: those of its first event, whichever of the
\* events with the oldest datetime the answer has first.
Firsts(events, m, k) ==
    LET members == Members(events, m, k)
    IN  {Sample(e) : e \in {first \in members : \A d \in members : Slot(first) <= Slot(d)}}

\* A group, which is also the line pushToLoki writes of it: Loki compares all of it.
Group(events, m, k, sample) ==
    [minute |-> m, key |-> k, sample |-> sample, count |-> Count(events, m, k)]

\* One group per minute and key, in every way the answer may be collapsed.
aggregateFirewallEvents(events) ==
    LET places == {<<Minute(Slot(e)), Key(e)>> : e \in events}
    IN  {{Group(events, p[1], p[2], shown[p]) : p \in places} :
            shown \in {f \in [places -> Samples] : \A p \in places : f[p] \in Firsts(events, p[1], p[2])}}

\* groups is sorted by minute and client address; the order of one client's
\* groups in a minute is left to the map iteration and the unstable sort.
Before(g, h) == g.minute < h.minute \/ (g.minute = h.minute /\ Client[g.key] < Client[h.key])

\* The lines pushToLoki may send: the first BatchLimit groups of such an order.
Batches(groups) ==
    {b \in kSubset(Smaller(BatchLimit, Cardinality(groups)), groups) :
        \A g \in b, h \in groups \ b : ~Before(h, g)}

-----------------------------------------------------------------------------
\* Run: the first window starts a lookback before now, at a whole minute.
FirstStart(now, env) == Truncate(now - env.lookback)

Init ==
    /\ config \in {env \in Envs : LoadConfig(env)}
    /\ clock = config.lookback + SlotsPerMinute
    /\ lastWindowEnd = FirstStart(clock, config) /\ since = lastWindowEnd
    /\ rows \in {r \in [0 .. clock - 1 -> SlotRows] : \A s \in 0 .. since - 1 : r[s] = <<>>}
    /\ truncated = 0 /\ warned = FALSE /\ loki = {} /\ faults = 0 /\ leftAt = Down
    /\ polledAt = SlotsPerMinute /\ readTo = 0 /\ late = {}

Tick ==
    /\ clock < MaxSlot
    /\ clock' = clock + 1
    /\ \E r \in SlotRows : rows' = [s \in 0 .. clock |-> IF s = clock THEN r ELSE rows[s]]
    /\ UNCHANGED <<config, lastWindowEnd, truncated, warned, loki, history, faults>>

\* An event of an earlier slot becomes visible.
Late ==
    /\ faults < MaxFaults /\ faults' = faults + 1
    /\ \E s \in 0 .. clock - 1, k \in Keys, x \in Samples :
         /\ rows' = [rows EXCEPT ![s] = Append(@, [key |-> k, sample |-> x])]
         /\ late' = late \cup (IF s < readTo THEN {Minute(s)} ELSE {})
    /\ UNCHANGED <<clock, config, lastWindowEnd, truncated, warned, loki, since, leftAt, polledAt, readTo>>

WindowEnd == Truncate(clock)

\* After a long outage the window is capped and its oldest part given up.
Capped == WindowEnd - lastWindowEnd > config.maxWindow

\* Mutant of WindowStart: the capped start is taken as it comes.
WindowStartAnywhere == IF Capped THEN WindowEnd - config.maxWindow ELSE lastWindowEnd

WindowStart == IF Capped THEN Truncate(WindowEnd - config.maxWindow) ELSE lastWindowEnd
Warns == warned' = (warned \/ Capped)

Advance == lastWindowEnd' = WindowEnd /\ polledAt' = clock

\* What the fetch and the aggregation may make of the window.
Readings ==
    UNION {{[rows |-> Cardinality(fetched), groups |-> groups] :
               groups \in aggregateFirewallEvents(Blocked(fetched))} :
           fetched \in UNION {Fetched(WindowStart, WindowEnd, b) : b \in BOOLEAN}}

\* Mutant of Poll: a capped window is not counted.
PollUncounted ==
    /\ lastWindowEnd # Down /\ WindowEnd > WindowStart
    /\ \E reading \in Readings : \E batch \in Batches(reading.groups) : loki' = loki \cup batch
    /\ Advance /\ Warns /\ readTo' = WindowEnd
    /\ UNCHANGED <<clock, rows, config, truncated, since, leftAt, late, faults>>

\* pollOnce: fetch, aggregate, push, and only then count and advance.
Poll ==
    /\ lastWindowEnd # Down /\ Warns
    /\ \/ WindowEnd <= WindowStart /\ UNCHANGED <<loki, truncated, lastWindowEnd, polledAt, readTo>>
       \/ /\ WindowEnd > WindowStart
          /\ \E reading \in Readings :
               /\ \E batch \in Batches(reading.groups) : loki' = loki \cup batch
               /\ truncated' = IF \/ reading.rows >= config.rows
                                  \/ Cardinality(reading.groups) > BatchLimit
                                 THEN truncated + 1 ELSE truncated
          /\ Advance /\ readTo' = WindowEnd
    /\ UNCHANGED <<clock, rows, config, since, leftAt, late, faults>>

\* The fetch fails, or the push reports an error after Loki stored any part
\* of it: nothing is counted and the window stays.
PollFails ==
    /\ lastWindowEnd # Down /\ WindowEnd > WindowStart
    /\ faults < MaxFaults /\ faults' = faults + 1 /\ Warns
    /\ \E reading \in Readings :
         \E batch \in Batches(reading.groups) :
             \E stored \in SUBSET batch : loki' = loki \cup stored
    /\ readTo' = WindowEnd
    /\ UNCHANGED <<clock, rows, config, lastWindowEnd, truncated, since, leftAt, polledAt, late>>

Crash ==
    /\ lastWindowEnd # Down /\ faults < MaxFaults /\ faults' = faults + 1
    /\ lastWindowEnd' = Down /\ truncated' = 0 /\ warned' = FALSE
    /\ leftAt' = IF truncated = 0 /\ ~warned THEN lastWindowEnd ELSE Down
    /\ UNCHANGED <<clock, rows, config, loki, since, polledAt, readTo, late>>

\* Started with an environment LoadConfig accepts; a lookback that reaches
\* behind the first slot is out of bounds.
Start ==
    /\ lastWindowEnd = Down
    /\ config' \in {env \in Envs : LoadConfig(env) /\ env.lookback <= clock}
    /\ lastWindowEnd' = FirstStart(clock, config')
    /\ since' = IF lastWindowEnd' <= leftAt THEN Smaller(since, lastWindowEnd') ELSE lastWindowEnd'
    /\ leftAt' = Down
    /\ polledAt' = clock - config'.lookback
    /\ UNCHANGED <<clock, rows, truncated, warned, loki, readTo, late, faults>>

Next == Tick \/ Late \/ Poll \/ PollFails \/ Crash \/ Start

Spec == Init /\ [][Next]_vars

-----------------------------------------------------------------------------
(* Properties. *)

\* Every variable holds a value of its kind, and a window edge is a whole
\* minute in the past.
TypeOK ==
    /\ clock \in 0 .. MaxSlot
    /\ rows \in [0 .. clock - 1 -> Seq(LogEvents)]
    /\ config \in Envs
    /\ \/ lastWindowEnd = Down
       \/ lastWindowEnd \in 0 .. clock /\ lastWindowEnd % SlotsPerMinute = 0
    /\ since \in 0 .. clock /\ leftAt \in {Down} \cup 0 .. clock /\ truncated \in Nat /\ warned \in BOOLEAN
    /\ polledAt \in 0 .. clock /\ readTo \in 0 .. clock /\ late \subseteq Nat
    /\ faults \in 0 .. MaxFaults

Total(m, k) == Count(Events(0, clock), m, k)
Shown(m, k) == Firsts(Events(0, clock), m, k)
Recorded(m, k) ==
    MapThenSumSet(LAMBDA l : l.count, {l \in loki : l.minute = m /\ l.key = k})

Overcounts(m, k) == m \notin late /\ ~(Recorded(m, k) <= Total(m, k))

\* "Loki deduplicates the replay instead of counting it twice": whatever is
\* re-read after failures and restarts, the lines of a minute never add up to
\* more blocks than there were, unless the minute got an event after it was read.
ReplayDeduplicated == \A m \in 0 .. Minute(clock), k \in Keys : ~Overcounts(m, k)

\* No stretch of time that one poll can ask for, in whatever life of the pod,
\* has more rows than its limit lets through.
WindowsFit ==
    \A env \in {e \in Envs : LoadConfig(e)}, start, end \in 0 .. clock :
        end - start < env.maxWindow + SlotsPerMinute => Cardinality(Events(start, end)) <= env.rows

\* The oldest events of the group, if there are several with one datetime, have
\* one path, user agent, ASN and country.
FirstUnique(m, k) == \A x, y \in Shown(m, k) : x = y

\* When the replay is deduplicated: lines are dropped only if every byte of them
\* is the same, so a re-read minute must have the same count and the same first
\* event.  Whole-minute windows see to that for every lookback, restart and
\* failed push, except for a window cut at the row limit, a late event, and a
\* group whose oldest events share a datetime and differ in what is sampled.
NeverOvercounts ==
    WindowsFit => \A m \in 0 .. Minute(clock), k \in Keys : FirstUnique(m, k) => ~Overcounts(m, k)

\* The edge of the running process, or the one a process that said nothing left.
Edge == IF lastWindowEnd # Down THEN lastWindowEnd ELSE leftAt

\* Behind the edge every minute is in Loki with its exact count, shown with one
\* of its first events, unless this process counted a truncated window or logged
\* that it gave one up, or an event of the minute was ingested after it was read.
\* The stretch goes back over every restart whose lookback reaches the edge of
\* the process before, and over no other: what such a restart skips is lost
\* without a count or a log line, and so is what a process that ended had cut.
CompleteUnlessSaid ==
    truncated = 0 /\ ~warned =>
        \A s \in since .. Edge - 1, k \in Keys :
            LET n == Total(Minute(s), k)
            IN  n > 0 /\ Minute(s) \notin late
                  => \E x \in Shown(Minute(s), k) :
                       [minute |-> Minute(s), key |-> k, sample |-> x, count |-> n] \in loki

\* The cap gives up no minute unless the last successful poll (or, at the
\* start, the lookback) is more than CLOUDFLARE_FIREWALL_MAX_WINDOW ago, whatever
\* the phase of the polls and a cap that is not a whole number of minutes:
\* LoadConfig asks for no more than a cap of one poll interval.
OnTimeKeepsAll ==
    lastWindowEnd # Down /\ clock - polledAt <= config.maxWindow => WindowStart <= lastWindowEnd
=============================================================================
