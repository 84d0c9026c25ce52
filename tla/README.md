# A TLA+ model of the AbuseIPDB synchronizer

This repository provisions a homelab (Terraform on Proxmox, k3s, Flux) and runs
one program of its own in it: `gitops/images/abuseipdb-sync`, a Go controller
that downloads a reputation feed, enforces it in two places (a
`CiliumCIDRGroup` in the cluster and an IP list at Cloudflare), and copies
Cloudflare's block events to Loki.  Everything else is declarative.  The
modules here model that program: what it does between any two calls, what
other actors may do in between, and what must hold whatever happens.

## 1. The system

### The synchronizer and its parts

| part | state it keeps | operations | talks to |
|---|---|---|---|
| CIDR group client (`k8s.go`) | none; the object lives at the API server | `Get`, `Apply`, `MergeAnnotations` | Kubernetes API, guarded by `resourceVersion` |
| synchronization cycle (`main.go`) | `lastSuccess`, `cfLastSuccess`, `staleCleared`, `staleCFCleared`, the gauges | startup, `syncOnce`, `reloadFilters`, `failSync`, `updateStaleness` | feed, both sinks |
| Cloudflare sink (`cloudflare.go`) | the cached list ID | `Sync` = `EnsureList`, `ReplaceItems` + `waitBulkOperation`, `EnsureRule` | Cloudflare Lists and Rulesets APIs |
| feed download (`feed.go`) | none | `Fetch` with retries | AbuseIPDB |
| validation (`validate.go`) | none | `ParseBlacklist`, `ParseFilterList`, `canonicalPrefix`, `FilterOverlaps`, `SortDedup`, `shrinkRejected` | |
| Security Events collector (`firewall.go`) | `lastWindowEnd` | `Run`, `pollOnce`, `fetchEvents`, `aggregateFirewallEvents`, `pushToLoki` | Cloudflare GraphQL, Loki |
| configuration (`config.go`) | `Config` | `LoadConfig` | environment, mounted files |
| gauges and feed age reporter (`main.go`, `metrics.go`) | gauges | `reportFeedAge`, `restoreSuccessMetrics` | Prometheus |

One goroutine runs the cycles (at startup, then by ticker), one the collector,
one the feed age reporter; the first and the last share `App` under a mutex.
`metrics.go` only declares the gauges.
A rolling update runs an old and a new pod side by side for a while.  Memory
dies with the pod; the times of the last successes survive as annotations of
the CIDR group.

### What is hard here, and what correct means

* **CIDR group client.**  `Apply` and `MergeAnnotations` are read-modify-write
  loops over one object, run by two sinks and possibly two pods, against an API
  where a write that timed out may still land.  Correct: no lost update, no
  write over somebody else's object, the annotations of the other sink and the
  last success are kept.
* **Cycle.**  Four failure-prone calls per cycle, three persisted times, and a
  stale policy that empties a sink.  Correct: old data goes away eventually,
  fresh data never goes away, the metric tells the truth about both sinks, and
  the shrink guard can neither be passed by a truncated feed nor lock a working
  feed out.
* **Cloudflare sink.**  Asynchronous bulk operations, one at a time per
  account; a list and a rule that other people can change or delete.  Correct:
  success means list and rule are in place, there is no moment of an empty
  list, other rules are untouched, and the sink recovers from any mess.
* **Feed.**  Filters that must hit prefixes written in any form (masked or not,
  IPv4 mapped into IPv6), mounted files that are edited during a cycle, a
  rate-limited source.  Correct: exactly the entries that overlap a filter are
  dropped.
* **Age gauges.**  Two goroutines set the same gauges from values each computed
  earlier; the lock covers the times, not the gauges.  Correct: an alert on
  staleness sees the truth again within a minute, also while a sync hangs, and
  a restart does not lose the time of the last success.
* **Configuration.**  A restarted pod may have another environment than the one
  whose traces it finds in the annotations and the sinks.
* **Collector.**  At-least-once windows into a store that drops identical
  lines, with limits on rows and lines.  Correct: what is read again is not
  counted again, and what the collector has put behind its window edge is in
  Loki, unless it said what it gave up.

`PROJECT.json` lists the hazards at their lines, with the properties that
answer them.

### Parts that are not modelled

| part | why not |
|---|---|
| Flux Kustomizations (`gitops/clusters/taskflow`) | declarative `dependsOn` lists; the order, the waiting and the retries are Flux's own code |
| Terraform modules (`modules/`) | declarative resources, and provisioning scripts run once by hand |
| `scripts/` | sequential shell and Ruby around `kubectl`, SOPS and Flux; I/O only |
| Taskflow application, Caddy/Coraza image | manifests and a build of third-party programs |
| monitoring, infrastructure controllers and policies | dashboards, alert rules, Helm values: data that third-party programs evaluate |
| CI workflows | build and lint pipelines run by GitHub |

Of the synchronizer, these are left out: log messages and `/metrics` texts, the
gauges that are set once per cycle and read by nobody in the program, the HTTP
server, and `diffPrefixes`, which counts for the log.

## 2. The modules

| module | models | extends |
|---|---|---|
| `GroupObject` | the object and the pure functions of `k8s.go` that build its next content | |
| `AtomicGroup` | abstract specification: calls begin, take effect as a whole at one moment, and return a result that says so | `GroupObject` |
| `CIDRGroup` | the two loops of `k8s.go`, call by call, several pods | `GroupObject` |
| `EdgeList` | abstract specification: what a `Sync` promises about the items of the Cloudflare list | |
| `CloudflareSink` | `cloudflare.go`: `Sync` call by call and page by page | |
| `Config` | `config.go`: which environments `LoadConfig` accepts | |
| `SyncCycle` | `main.go`: startup, cycle, stale policy, both sinks, restarts with an edited environment | `GroupObject`, `Config` |
| `FeedAge` | `main.go`: the age gauges, set by the cycle and by `reportFeedAge` | |
| `FeedPipeline` | `feed.go`, `validate.go`, `reloadFilters` | |
| `FirewallCollector` | `firewall.go` | `Config` |
| `MC*` | the constants of the small instances | the module of the same name |
| `CIDRGroupProofs`, `CloudflareSinkProofs`, `SyncCycleProofs`, `FeedAgeProofs`, `FeedPipelineProofs`, `FirewallCollectorProofs` | theorems | the module of the same name, TLAPS |

How they compose:

* `CIDRGroup` implements `AtomicGroup` (`RefinesAtomicGroup`): a call that
  returns no error has taken effect at one moment in between, on the content of
  that moment; one that returns an error has not, but may still, as a whole,
  later (`lost`).  So `SyncCycle` takes `Apply` and `MergeAnnotations` for single
  steps, with the same `buildObject`, `AppliedTo` and `MarkedAt` from
  `GroupObject`: success is `Succeed`, failure is `Fail`, and a lost reply is
  `Fail` followed by the `LostLands` of that call.
* `CloudflareSink` implements `EdgeList` (`RefinesEdgeList`), and `SyncCycle`
  uses of Cloudflare what `EdgeList` says: a `Sync` confirms its list at one
  moment, at which the list is replaced or was the same already (`Confirm`); it
  may still fail after that, at the rule (`Fail`); a
  `Sync` that fails leaves at most one operation behind (`Orphan`), which may
  replace the list later (`OrphanEnds`).  `SyncCycle`'s fault `"late"` is both:
  a `Sync` that reports an error although its write went out, and either took
  place or is still under way.  Its fault `"refused"` is a failure that changed
  nothing.  Somebody may delete the list
  (`Outside`); and a read that somebody else's change tears can confirm a list
  that never was there.  The last is `SyncCycle`'s fault `"torn"`.
* `SyncCycle` and `FirewallCollector` choose the environment of a new process
  among `Envs` and start only if `Config!LoadConfig` accepts it.
* `SyncCycle` sees of the feed a list or an error, which is what `FeedPipeline`
  ends its cycles with.  `FeedAge` reduces a cycle to its successes and failures
  and looks at the gauges that `SyncCycle` leaves out.

### State and actions

**CIDRGroup.**  `group` and `rv` are the object and its version at the API
server.  Each pod has `pc` (the next API call), `call` (the arguments),
`attempt` (the loop variable), `seen` (what this attempt's `Get` returned),
`ok` (whether its latest call returned without an error) and `now` (`syncOnce`'s,
because `MergeAnnotations` uses the `now` of the cycle's `Apply`).  Actions: `StartApply`, `StartMerge`, `StartClear` are the three call
sites in `main.go`; `Get`, `Create`, `Update` are the calls of an attempt with
all their early returns; `GetFails`, `WriteFails`, `WriteTimesOut` the errors.
A timed-out write stays on `wire`, with the call it belongs to, until `Land`
carries it out or the API server refuses it.  `Administer` deletes the object, creates a foreign one or removes
the managed-by label.  Annotations that are missing or do not parse and Go's
zero time are both `NoTime`, as `Get` makes them.

**SyncCycle.**  `pc` walks through `syncOnce` and `updateStaleness`; the
variables of `App` and the locals of `syncOnce` keep their names.  `edge` is
the Cloudflare list with the time a `Sync` last reported success (`asOf`, which
is what the code can know of its age; a `Sync` that stores the items and then
fails leaves it), `orphan` the operation nobody waits for.  A time is kept as an age that saturates at
`MaxAge + 1`, `MaxAge` being the longest `ABUSEIPDB_MAX_STALE_AGE` of the
environments: the code compares times only with that limit.  `Fault` injects
one fault of the kinds an instance allows.  `Crash` takes memory away;
`Restart` reads an environment again; one that `LoadConfig` refuses keeps the pod
down until it is edited.  So what one life of the pod did under fail-open
with both sinks, the next can find under retain, or with Cilium alone, or with a
shorter limit.

**CloudflareSink.**  `list`, `op`, `rules`, `ruleset`, `pagination` are
Cloudflare's side; `pc`, `listID`, `target`, `recreated`, `walk`, `polls`,
`awaited`, `result` the client's.  A list is the sequence of its pages.  `walk`
holds the loop variables of `ListItems` and the items read so far: `ReadPage`
reads one page, with the code's preference of a cursor over page numbers, and
compares what it has read only behind the last one.  One action per HTTP call,
and one for each thing Cloudflare or somebody else can do in between:
`OperationEnds`, `Drift` (rules), `DeleteList`, `OtherPod` (the other pod of a
rolling update creates the list or starts an operation on it).  `disturbed`
(what changed behind the `Sync`'s back: `"list"`, `"rule"`) and `faults` are
history.

**FeedAge.**  `last` are `lastSuccess` and `cfLastSuccess`, `gauge` the three
gauges of each sink, `stored` the annotations that outlive the process.  Every
`Set` is a step: of the main goroutine after a success (`pc` `setTimestamp`,
`setAge`, `setFresh`) and in `updateStaleness` (`staleAge`, `staleFlag`), and of
the reporter (`rpc`), which copies the times first and computes from the copies.
The reporter's ticker holds one tick (`due`).  `report` is history: how far a
report has come that began after the main goroutine last touched the sink's
gauges.

**FeedPipeline.**  An address is the function of its `W4` or `W6` bits, a prefix a
record of family, address and length, so that overlap, masking and unmapping are
computed as in the code and not assumed; the IPv4-mapped block is the IPv6
addresses that start with `MappedTag`.  `ReadProtected` and `ReadExceptions` are
the two reads of `reloadFilters`; `protected` is its local between them, and an
`Edit` of both files may come there, as well as during the download.  `lines` is
history: the built-in ranges and what each file said when this cycle read it.

**FirewallCollector.**  Time is counted in slots, several to a minute.
`rows` are Cloudflare's events, each one a place (a slot and a position in it)
that holds a key and a sample: path, user agent, ASN and country, which a group
takes from its first event.  The query orders by datetime alone, and a slot is
the resolution of a datetime, so `Fetched` and `aggregateFirewallEvents` are sets
of possible answers: events of one slot may come in any order, and the limit may
cut them anywhere.  `loki` is the set of distinct lines, all their fields
compared (a set, because Loki drops identical lines).  `Poll` is `pollOnce`, `PollFails` the
same with a failed query or a push that reports an error after Loki stored any
part of it.  `Late` ingests an event into a slot of the past.  `Start` picks an
accepted environment.  `warned`, `polledAt`, `readTo` and `late` (the minutes that
changed after they were read) are history, and so are `since` and `leftAt`: the
beginning of the stretch of minutes that was read without a gap, and the edge of
the process that ended, if it had said nothing of a loss.  A restart whose
lookback reaches `leftAt` continues the stretch; any other begins a new one.

### Abstractions

* A list of prefixes is an opaque value except in `FeedPipeline`; where its
  size matters (`shrinkRejected`, the minimum, `CLOUDFLARE_MAX_ENTRIES`) it has
  a `Size`, and in `CloudflareSink` it has pages.
* HTTP calls are atomic at the server; the caller may lose the reply ("lost").
* In `SyncCycle` the calls to the sinks are one step each, and a write whose reply
  is lost is stored in that step; that it may also land after later writes is
  explored in `CIDRGroup` and, for Cloudflare, by `orphan`.
* A second list of the same name is refused by Cloudflare, and so is a second
  bulk operation while one is pending at the account; `cloudflare.go` relies on
  both.
* `Config` keeps the ranges and the dependencies of the settings; how a number
  or a duration is written is one Boolean (`parses`).
* Path, user agent, ASN and country of an event are one opaque sample; the texts
  of lines and headers are left out.
* Cloudflare samples the dataset itself at high volume; the model's events are
  those that it shows.

### Mutants

Next to some definitions stands an operator that is commented as its mutant: the
same code with a plausible bug (a dropped guard, a flag that is not reset, an
off-by-one, a swapped order).  It is not used by the model.  `PROJECT.json`
names for each property the mutant under which the run finds the property
violated; that is how we know that the property depends on the code.

## 3. The runs

| run | question | bounds |
|---|---|---|
| `CIDRGroupTwoPods` | are the loops atomic under every interleaving? | 2 pods, a feed of 1 non-empty list, 2 attempts, 2 clock values, 3 versions, 2 foreign writes, 1 late request |
| `SyncStale` | does the stale policy do its job, whatever edit meets a restart? | 2 non-empty lists (120 and 30 prefixes), `MaxAge` 2, five environments (fail-open, retain, Cilium alone, a shorter limit without shrink guard, one that is refused), 3 faults (failed calls, crashes) |
| `SyncEdge` | the same for the Cloudflare list, also where a `Sync` fails behind its write | `CLOUDFLARE_MAX_ENTRIES` 100, so that one list is refused; fail-open and retain; 4 faults: failed calls, and `Sync`s that fail after their write went out |
| `SyncFaulty` | what survives every kind of fault? | 3 faults of any kind, torn reads included; restarts with a refused environment |
| `Edge` | does `Sync` keep its promise, return and heal? | lists of 0, 1 and 2 pages and one too long, three ways to paginate, 2 polls, 2 faults of any kind, 4 list IDs; operations may outlive the deadline |
| `FeedAge` | do the gauges tell the truth? | `MaxStaleAge` 1, both sinks or one, any annotations at the start; crashes without bound |
| `FeedCycle` | do the filters hit exactly what they should? | 2-bit IPv4 and 3-bit IPv6, every one-line file, every one-entry feed, pairs of addresses, 2 attempts, 1 edit of both files at any moment |
| `Collector` | does a replay count twice, is what lies behind the edge in Loki? | 3 minutes of 2 slots, 2 keys, 2 samples, limits of 6 rows and 1 line, a cap of a minute and a half, three environments (short and long lookback, one that is refused), 2 faults (failed polls, crashes, late events) |

What they show:

* `CIDRGroupTwoPods`: `RefinesAtomicGroup` (no lost update, and no call that
  returns `nil` without having taken effect), `ForeignUntouched`
  (the check of the managed-by label holds at the time of the write, not just of
  the read), `SinksDoNotClobber`, `ClearKeepsLastSuccess`, `ClearedMeansEmpty`,
  and `VersionsGuardWrites`, the invariant behind them.  The pods are
  interchangeable, so the run uses symmetry (all its properties are safety).
* `SyncStale`: `OnlyStaleIsCleared` and `ClearedStaysCleared` (the policy never
  fires early and never loses its effect), `NotEnforcedIndefinitely` (and it
  fires in the end, across crashes), `SuccessCoversAllSinks`, and `Recovers`: the
  shrink guard refuses a feed that really shrank, but after `MAX_STALE_AGE` the
  clear makes room for it.
* `SyncEdge`: `OnlyStaleIsClearedAtEdge` and `NotEnforcedIndefinitelyAtEdge`,
  for a list whose age is the time since a `Sync` last reported success.  That is
  the code's own measure; what it means for a list that a failing `Sync` stored
  is in section 4.
* `SyncFaulty`: `ListCarriesItsAge` (an enforced list always has an age next
  to it, or a restarted pod could not apply the policy, and that age is never
  above memory's, so a restart does not bring the policy forward) and
  `NoSurpriseShrink`, which spans the cycle from the read that the guard judges
  to the write.
* `Edge`: `RefinesEdgeList`; `SuccessMeansEnforced` (list and rule are in place
  and stay); `NoEnforcementGap` (only a clear empties the list);
  `OthersPreserved` (no rule with another ref and no list of another kind is
  written); `SyncReturns` whatever the pages and the operation do; `SinkHeals`
  (once faults end, `Sync`s succeed again and again).
* `FeedAge`: `ExportedIffKnown` (a restart keeps the timestamp, and a sink
  without a success exports nothing); `ReportSettles` (however main and the
  reporter interleaved, a report that began after main's last word leaves age
  and flag right); `FlagFollows` (the stale flag keeps coming back to the truth,
  even if main hangs in a call).
* `FeedCycle`: `NothingFilteredIsDenied` and `NothingElseIsDropped` compare the
  arithmetic of `canonicalPrefix` and `prefixesOverlap` with a definition by
  sets of hosts, for the lines each file had when this cycle read it;
  `OnlyTransientIsRetried` and `CycleEnds` are about `Fetch`.
* `Collector`: `NeverOvercounts` (as long as no stretch of time that one poll
  can ask for has more rows than its limit, `WindowsFit`, and the oldest events of
  the group agree in their sample, `FirstUnique`), whatever the lookback of a
  restart; `CompleteUnlessSaid` (every minute from `since` to the edge, across the
  restarts that continue the stretch, except those that got an event after they
  were read); and `OnTimeKeepsAll`: although the cap need not be a whole number
  of minutes, it gives up nothing while the last successful poll is within it.

### Why the bounds are enough

* `MaxAttempts` is 5 in the code.  With 2, a call can conflict, retry and
  succeed, or conflict and give up; a third attempt starts in the same state as
  the second.
* 3 versions are a create and two updates: a pod can read, be overtaken, read
  again and be overtaken by a late request.  2 foreign writes can delete the
  object and create another manager's under its name between a pod's read and its
  write.  The theorems hold for all values, and for feeds that may be empty.
* Ages: a limit of 2 gives fresh, older and at the limit, and stale; in
  `FeedAge` a limit of 1 gives fresh, at the limit, and stale, and every
  minute counts.  The lists are on both sides of every threshold (100 entries for
  the shrink guard, 50 percent, the minimum, the maximum at Cloudflare).
* Faults are bounded so that liveness properties speak of the time after them;
  three allow a failure in each of two cycles and a crash between, four a `Sync`
  and a clear that fail behind their writes and are refused once each, two a
  fault and the one that meets its repair.
* 2 polls are one before the deadline and one at it.  Two pages are a first and
  a last one, so that a read can be torn between them.  `MaxListID` 4 allows the
  list to be deleted, or created by the other pod, as often as the fault bound
  permits.
* `W4 = 2`, `W6 = 3` (the code has 32 and 128, and the theorems any): prefixes of
  length zero, in between and full in both families, the mapped block itself,
  prefixes inside it, around it and beside it.
* The collector needs two minutes in one process to replay one of them with
  another window, and slots inside a minute for edges that are not whole minutes.
  A slot of three events (one that is not a block) and the limit of six rows let
  a window of a minute fit and a longer one be cut; two samples, and a late event
  with the other one, make the first event of a group ambiguous.

`CHECK_DEADLOCK` is left on everywhere: the program never stops.

### Fairness

| specification | fairness | justified by |
|---|---|---|
| `SyncCycle!FairSpec` | `WF(Work)`, `WF(Tick)`, `WF(OrphanEnds)` | the goroutine runs and its ticker fires; the HTTP clients of the feed and of Cloudflare have timeouts, and the Kubernetes API, for which the code sets none, answers or refuses in the end; the kubelet restarts a dead pod, and an environment `LoadConfig` refuses is edited in the end; time passes; Cloudflare ends what it accepted |
| `CloudflareSink!FairSpec` | `WF(Work)` | every call has the timeout of its HTTP client, the pause between polls ends, the ticker calls `Sync` again |
| `FeedAge!FairSpec` | `WF(Tick)`, `WF(Report)` | time passes and the reporter's goroutine runs; the main goroutine may hang |
| `FeedPipeline!FairSpec` | `WF(Work)` | request timeouts, pauses of bounded length |

`SyncReturns` does not assume that a bulk operation ever ends.  `SinkHeals`
does, within the deadline, and says so in its statement (`Prompt`); it excludes
an account whose list of that name is of another kind, which `Sync` refuses by
design.  `Recovers` assumes a feed that eventually keeps delivering valid lists
(`FeedWorks`) and an environment that settles on fail-open.  No fairness is
assumed of faults, administrators, edits, late requests or late events.

## 4. Disagreements between code and documents

Each of these has a run that TLC ends with a counterexample.

* `FindMarkerLost`: the Cloudflare sink's last success is persisted in a second
  step after the `Sync` (`main.go:260`).  A pod that dies in between, while the
  feed then stays down, restarts without knowing the list's age and never clears
  it.
* `FindSinkCoupling`: "Sinks fail independently" (the document), but a failed
  `Get` for the shrink guard ends the cycle before Cloudflare is tried
  (`main.go:203`).
* `FindLateOperation`: `ReplaceItems` returns when the items compare equal
  without looking for a pending operation.  One that an earlier `Sync` gave up
  on, for instance a fail-open clear, can complete afterwards, and the list is
  replaced while `abuseipdb_sync_success` is 1.
* `FindReplayOvercount`: "the lines are byte-identical, so Loki deduplicates
  the replay" (`firewall.go:84`) is not so for a minute that the row limit cut:
  another window cuts it elsewhere, and both counts add up.

These showed up in the same modules and have no run of their own:

* `NotEnforcedIndefinitely` also fails when the read of the annotations at
  startup fails (add `"boot"` to the faults of `SyncStale`), and when the very
  first `Apply` is stored but its reply is lost (`"lost"`).
* Two overlapping pods can move `abuseipdb.io/last-success` back by the length
  of their overlap: a pod that retries after a conflict writes the time it
  captured before.
* A `Sync` can store its items and then fail, at the rule (`cloudflare.go:187`) or
  when the wait for the operation ends without its result (`cloudflare.go:320`).
  `cfLastSuccess` stays as it was, so fail-open may empty a list that was stored
  minutes ago, and the log says "edge list unchanged" (`main.go:248`) of a list
  that changed.  If that was the first `Sync` ever, or the first after a clear,
  the list has no time of its own in the former case and the cleared flag is still
  set in the latter: neither is cleared while the feed stays down.
* A Cloudflare sink that is turned off keeps the list it has, for ever; that is
  why `NotEnforcedIndefinitelyAtEdge` stops at `~config.cloudflare`.
* An event that Cloudflare ingests after its minute was read is never counted;
  `CompleteUnlessSaid` names those minutes (`late`).
* After an outage longer than the lookback, a restart leaves the minutes between
  the old edge and its first window unread, without a count or a log line; the
  document tells the operator to raise the lookback
  (`docs/ABUSEIPDB_CILIUM_BLOCKLIST.md:181-183`).
* A replayed line is identical only if its sample is: events of one datetime may
  come in another order and give the group another path or user agent, and Loki
  then keeps both lines.  `NeverOvercounts` leaves such groups out; that document
  (`:185-186`) says of a longer lookback that Loki "only partly deduplicates" it.
* `reloadFilters` reads the protected ranges and then the exceptions
  (`main.go:330`, `:334`).  A line that an edit moves from the second file to the
  first between the reads is in neither, and its hosts are not protected until the
  next cycle.
* The default of `CLOUDFLARE_FIREWALL_MAX_WINDOW` is one hour in the code
  (`config.go:125`), 24 hours in `docs/ABUSEIPDB_CILIUM_BLOCKLIST.md:209`; the
  committed ConfigMap sets 24 hours.

## 5. The proofs

TLAPS proves the theorems below for every value of the constants: any number of
pods, lists, pages, polls, environments, ages and faults.

| module | theorem | property | beyond the assumptions on constants |
|---|---|---|---|
| `CIDRGroupProofs` | `TypeCorrect` | `TypeOK` | |
| | `VersionsGuard` | `VersionsGuardWrites` | |
| | `Refinement` | `RefinesAtomicGroup` | |
| | `ForeignSafe`, `SinksSafe`, `ClearSafe`, `ClearedSafe` | `ForeignUntouched`, `SinksDoNotClobber`, `ClearKeepsLastSuccess`, `ClearedMeansEmpty` | |
| `CloudflareSinkProofs` | `TypeCorrect` | `TypeOK` | |
| | `Refinement` | `RefinesEdgeList` | |
| | `SuccessSafe` | `SuccessMeansEnforced` | |
| | `OthersSafe` | `OthersPreserved` | |
| | `NoGap` | `NoEnforcementGap` | |
| `SyncCycleProofs` | `TypeCorrect` | `TypeOK` | |
| | `CarriesAge` | `ListCarriesItsAge` | |
| | `NoShrink` | `NoSurpriseShrink` | |
| | `ClearedSafe` | `ClearedStaysCleared` | `NoReplyLost` |
| | `OnlyStale` | `OnlyStaleIsCleared` | `NoReplyLost`, `SomeEntries` |
| | `OnlyStaleAtEdge` | `OnlyStaleIsClearedAtEdge` | `OneLife`, `SomeEntries` |
| | `SuccessCovers` | `SuccessCoversAllSinks` | `Undisturbed` |
| `FeedAgeProofs` | `TypeCorrect` | `TypeOK` | |
| | `Exported` | `ExportedIffKnown` | |
| | `Settles` | `ReportSettles` | |
| `FirewallCollectorProofs` | `TypeCorrect` | `TypeOK` | |
| | `OnTime` | `OnTimeKeepsAll` | |
| | `Complete` | `CompleteUnlessSaid` | |
| | `Deduplicated` | `NeverOvercounts` | |
| `FeedPipelineProofs` | `TypeCorrect` | `TypeOK` | |
| | `FiltersRespected` | `NothingFilteredIsDenied` | |
| | `FiltersExact` | `NothingElseIsDropped` | |
| | `RetriesTransient` | `OnlyTransientIsRetried` | |

Assumptions on constants, which TLC evaluates in every run: `ListAssumption`
(the empty list is a list), `FeedAssumption` (so is what a feed delivers),
`BoundAssumption` (bounds are natural numbers, and
at least one attempt is made), `MinuteAssumption` (a minute has at least one
slot), `ConfigAssumption` (sizes are natural numbers, the empty list has none,
no environment asks for more than `MaxAge`), `SinkAssumption` (a list is a
sequence determined by the set of its pages, as `SortDedup` leaves it; positive
deadline and maximum), `AgeAssumption`, `CollectorAssumption` (keys are
positive numbers, a slot has a finite sequence of events, and an accepted lookback
fits into the modelled time), `PipelineAssumption` (an IPv6 address is longer than
an IPv4 one, texts are sequences of lines, and the built-in protected ranges
contain the IPv4-mapped block, as `config.go:50` has it).

Four theorems exclude kinds of faults.  `NoReplyLost` and `SomeEntries` hold in
every run of their properties, `OneLife` in `SyncEdge`, `Undisturbed` in
`SyncStale`:

* `NoReplyLost`: if an `Apply` is stored and its reply lost, memory and object
  disagree about the last success until the next one, and a clear whose reply is
  lost is not noted as done.  The policy then acts on memory, not on the object.
* `SomeEntries`: with `ABUSEIPDB_MIN_ENTRIES` 0 an empty feed is a valid list
  and replaces a fresh one.
* `OneLife`: no crash, and nobody deletes object or list.  The marker of the
  Cloudflare list is written after the list and its error is ignored, so a
  restarted pod may believe the last success older than it is and clear early.
  Calls that fail, before their write or behind it, and torn reads are included.
* `Undisturbed`: a torn read confirms a list that is not there, a `Sync` that fails
  behind its write can leave an operation behind (that is `FindLateOperation`), an
  `Apply` that does so moves the object's time but not memory's, and somebody who
  deletes the object or the list does not tell the synchronizer.

### The inductive invariants

**CIDRGroup.**  The properties are about what a write does when
it lands; nothing in them says why it may.  `IInv` is `TypeOK` and
`VersionsGuardWrites`, which has three parts.  `ValidCalls`: a call carries
arguments that one of the three call sites can have passed, so that a clear
carries no success time and no call carries a time from the future.
`CurrentSnapshots`: if a pod about to update holds the current version, then
what it read is the current content, and is managed by us.  `CurrentRequests`:
the same for requests nobody waits for.  The three support each other: a
request is put on the wire from a snapshot, a snapshot is only worth its
version, and a step that changes the content also changes the version
(`WorldStep`), which invalidates every other snapshot at once.  There is one
lemma for each part, each with one step per action.

The refinement maps `lost` to the calls of the requests on the wire and is the
identity otherwise.  `PodIsAtomic` takes each step of a pod to a step of
`AtomicGroup` or a stutter: a `Get` or a write that ends the call is `Succeed` or
`Fail` (`SucceedIsAtomic`, `FailIsAtomic`), one that only leads to the next
attempt is a stutter, unless it was the last (`RetryIsAtomic`).  The invariant is
used where the code returns `nil`: the update that the API server accepts was
computed from the current content, and a `Get` that finds nothing to change has
found the effect of its call already there.  `LandIsAtomic` does the same for late
requests.  The other safety theorems need no further look at the pods: a change
of the content is a call that takes effect or somebody else's write (`Changes`),
and `OperationEffect` and `OutsideEffect` say what these can do to an object.

**CloudflareSink.**  `IInv` adds four facts to `TypeOK`.  `Cached`: the cached
ID names an IP list as long as it names the list at all.  `Pending`: a pending
operation is one on the list as it is.  `Missing`: no list has no items.
`ReadSoFar`: as long as nobody else writes, `ListItems` has collected pages of
the list only, and every page before the one it asks for next; so the set it
compares behind the last page is the whole list, for every way to paginate
(`GotSoFar`, `WalkEnds`).  `Refinement` then maps each step to one of
`EdgeList` or to a stutter; `SuccessSafe` needs one more conjunct, `Enforced`,
which follows the confirmed list through the calls of `EnsureRule` to the
return.

**SyncCycle.**  `IInv` is `TypeOK`, `ListCarriesItsAge`, and three facts about
the way to a write: `NowKnown` (the `Apply` has a time, not older than memory's),
`NoneMissing` (an absent object has no prefixes), `Guarded` (what the shrink
guard let pass is still good when it is written, since nobody but the cycle
replaces a managed list).  It holds under every fault.  On top of it,
`AgeIsMemory` (memory and object agree on the age of an enforced list) and
`Wanted` (a list on its way is not empty) give `OnlyStale`; `EdgeAgeIsMemory`
(memory knows when a `Sync` last reported success, unless the clear has since,
whatever failed behind its write) and `WantedAtEdge` give `OnlyStaleAtEdge`: an
operation that is left behind brings an empty list only if a clear asked for it;
and `Achieved` (what the
cycle has done so far, and that no failed path keeps the metric at 1) gives
`SuccessCovers`.

**FeedAge.**  A gauge is set from a value that was right when it was read.
`BlankBeforeBoot`, `MainKnows` and `ReporterKnows` say that nobody sets a gauge
of a sink without a success.  `ReportTrue` relates the reporter's copies to the
memory they came from: equal, as long as main has not touched the sink since.
With it `ExportedIffKnown` and `ReportSettles` are inductive.

**FeedPipeline.**  `IInv` is `TypeOK` with `FiltersLoaded` (between the two reads
the local list, and from the second on the filters, are the canonical forms of the
built-in ranges and of the lines each file had when it was read, whatever is edited
in between or later), `ListFiltered` (the list is what `FilterOverlaps`
left of the feed), `FetchMayRetry` (another request follows transient answers only,
and is within the limit) and `OnlyTransientIsRetried`.  What the two filter
properties add to `ListFiltered` is not about steps but about bits.
`OverlapHosts`: two canonical prefixes overlap by the code's test (one contains
the other's first address) exactly if they name a common host.  `HostsCanonical`:
`canonicalPrefix` changes the way a prefix is written, not the hosts it names.
What a prefix denies may be more than it names: an IPv6 prefix over mapped
addresses also denies the IPv4 hosts in them.  `NothingMapped` closes that gap:
the mapped block is among the built-in ranges, so no prefix of the list overlaps
it.  That is why `PipelineAssumption` asks for the block; without it
`FiltersRespected` would not hold.

**FirewallCollector.**  `EdgeIsPolled`: the window edge is the whole minute before
the last successful poll.  For `OnTime` the rest is arithmetic: cutting down to
whole minutes is monotone (`TruncateMonotone`), so the capped start, which is cut
down too, is not behind the edge.  What Loki holds is `LogInv`: `EdgesOrdered`
(a stretch starts at its edge, and from then on the edge, of the running process or
the one that ended, is not ahead of what was read), `LinesRead` (lines are of
minutes that were read), `LinesExact` (as long as `WindowsFit`, a line has the count
of its minute and the sample of one of its first events, now as when it was
written) and `CompleteUnlessSaid`.  Windows are whole minutes, so of each of its
minutes a window has all events, and sees the same first ones (`WholeMinutes`).  An
answer may be any choice of the oldest rows; if it is shorter than the limit, or the
limit has room for the window, it is the whole window (`OldestIs`, `FetchedAll`),
and an answer as long as the limit is what the code counts as truncated.  Every
grouping of a whole answer has one line for each minute and key
(`GroupsComplete`), with the exact count (`GroupsExact`); if the batch was not cut,
it has all of them (`WholeBatch`); and no window is longer than the cap and a minute
(`WindowShort`), which is what `WindowsFit` speaks of.  A step that adds an event
adds it to the minute in progress, which nobody has read, or to a minute that is
then `late`; every other keeps its count and its first events (`TotalKept`).  A restart takes the edge back to a whole minute and
either continues the stretch or begins a new, empty one (`StartLog`).
`Deduplicated` then needs no sum over many lines: where the first event is unique
(`FirstUnique`), all lines of a minute and key are equal, so there is at most one.

## 6. Model-checked only

* Liveness: `NotEnforcedIndefinitely`, `NotEnforcedIndefinitelyAtEdge`,
  `Recovers`, `SyncReturns`, `SinkHeals`, `FlagFollows`, `CycleEnds`.  The prover
  does not handle fairness.  Every other property of a passing run is a theorem.
* `ReplayDeduplicated` and the other properties of section 4, which the code
  violates.

## 7. How to run

`tlc -config <run>.cfg <module>` with the module `PROJECT.json` names for the
run, and `tlapm <module>Proofs.tla` for the proofs.  The longest run is
`FeedCycle` and `Collector`, about a minute and a half each on two cores;
`CIDRGroupTwoPods` (0.7 million states) takes one minute, and the others less.  The
longest proofs are `CloudflareSinkProofs` and `FirewallCollectorProofs`.

## 8. Plan

What is left, in this order:

1. Two overlapping pods in `SyncCycle`: shrink guard and stale policy with each
   other's writes.  `CIDRGroup` and `CloudflareSink` have the second pod
   already; what is missing is its memory.
2. The order of the Flux Kustomizations as a graph: acyclic, and every namespace
   and CRD before its users.
3. The measures behind `SyncReturns` and `CycleEnds` as safety theorems: every
   step of a `Sync`, and of a download, brings its end closer.
