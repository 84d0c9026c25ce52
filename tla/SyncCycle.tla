----------------------------- MODULE SyncCycle -----------------------------
(***************************************************************************)
(* main.go: one synchronizer pod from startup through its cycles.  A cycle *)
(* downloads and validates the feed, writes the Cilium group, then the     *)
(* Cloudflare list, and after any failure enforces the stale policy on     *)
(* each sink.  The pod can die between any two external calls.             *)
(*                                                                         *)
(* Apply and MergeAnnotations act atomically on the group here; CIDRGroup  *)
(* shows that they do.  A restarted pod reads the environment again, which *)
(* may have been edited (Config).  A time is kept as its age: the number   *)
(* of clock ticks since then, and MaxAge + 1 for everything older, which   *)
(* is all that any comparison in the code can tell apart.                  *)
(***************************************************************************)
EXTENDS GroupObject, Config, FiniteSets

CONSTANTS
    Size,               \* Size[l]: number of prefixes of list l
    Envs,               \* the environments the pod may be started with
    MaxAge,             \* the largest ABUSEIPDB_MAX_STALE_AGE of them, in ticks
    FaultKinds,         \* the faults of this instance, see Fault
    MaxFaults           \* bound: faults in one behaviour

ASSUME ConfigAssumption ==
    /\ Size \in [Lists -> Nat] /\ Size[NoCIDRs] = 0
    /\ Envs \subseteq Environments /\ MaxAge \in Nat
    /\ \A env \in Envs : env.maxStaleAge <= MaxAge
    /\ MaxFaults \in Nat

VARIABLES
    config,           \* App.cfg, the environment this process was started with
    pc,               \* the next step of the main goroutine
    lastSuccess,      \* App.lastSuccess
    cfLastSuccess,    \* App.cfLastSuccess
    staleCleared,     \* App.staleCleared
    staleCFCleared,   \* App.staleCFCleared
    desired,          \* syncOnce's validated list
    now,              \* syncOnce's now
    ciliumOK,         \* syncOnce's ciliumOK
    syncSuccess,      \* gauge abuseipdb_sync_success
    group,            \* the CiliumCIDRGroup
    edge,             \* the Cloudflare list; asOf: when a Sync last reported success
    orphan,           \* the list of a bulk operation nobody waits for, at most one
    faults            \* faults so far

app    == <<config, lastSuccess, cfLastSuccess, staleCleared, staleCFCleared>>
locals == <<desired, now, ciliumOK>>
sinks  == <<group, edge, orphan>>
vars   == <<pc, app, locals, syncSuccess, sinks, faults>>

Ages == 0 .. MaxAge + 1
AgesOrNone == Ages \cup {NoTime}
EdgeLists == [items : Lists, asOf : AgesOrNone]
EmptyEdge == [items |-> NoCIDRs, asOf |-> NoTime]

Older(a) == IF a = NoTime \/ a > MaxAge THEN a ELSE a + 1
IsStale(a) == a # NoTime /\ a > config.maxStaleAge

FailOpen == config.stale = "fail-open"

\* "refused" a call fails and changes nothing; "lost" an Apply is stored but
\* fails; "late" a Sync fails after its write went out; "torn" a read of the
\* Cloudflare list mixes two states of it; "crash" the pod dies; "boot" the read
\* at startup fails; "outside" the object or the list is deleted by hand;
\* "takeover" somebody removes the managed-by label.
Fault(kind) == kind \in FaultKinds /\ faults < MaxFaults /\ faults' = faults + 1

-----------------------------------------------------------------------------
(* Startup. *)

Locals0 == desired' = NoCIDRs /\ now' = NoTime /\ ciliumOK' = FALSE

Init ==
    /\ config \in {env \in Envs : LoadConfig(env)}
    /\ pc = "boot"
    /\ lastSuccess = NoTime /\ cfLastSuccess = NoTime
    /\ staleCleared = FALSE /\ staleCFCleared = FALSE
    /\ desired = NoCIDRs /\ now = NoTime /\ ciliumOK = FALSE
    /\ syncSuccess = FALSE
    /\ group = NoGroup /\ edge = EmptyEdge /\ orphan = {}
    /\ faults = 0

\* Mutant of Boot: the annotations are not read.
BootForgets ==
    /\ pc = "boot" /\ pc' = "fetch"
    /\ UNCHANGED <<app, locals, syncSuccess, sinks, faults>>

\* Recover the last success times from the group's annotations.
Boot ==
    /\ pc = "boot" /\ pc' = "fetch"
    /\ lastSuccess' = group.lastOK /\ cfLastSuccess' = group.cfOK
    /\ UNCHANGED <<config, staleCleared, staleCFCleared, locals, syncSuccess, sinks, faults>>

\* The read fails: a warning, and the pod goes on without them.
BootBlind ==
    /\ pc = "boot" /\ pc' = "fetch" /\ Fault("boot")
    /\ UNCHANGED <<app, locals, syncSuccess, sinks>>

BeginCycle ==
    /\ pc = "idle" /\ pc' = "fetch"
    /\ Locals0
    /\ UNCHANGED <<app, syncSuccess, sinks, faults>>

-----------------------------------------------------------------------------
(* syncOnce up to the sinks. *)

\* failSync: the cycle ends in updateStaleness.
failSync == pc' = "staleCilium" /\ syncSuccess' = FALSE

\* reloadFilters, the download or the parser reports an error.
FeedFails ==
    /\ pc = "fetch" /\ failSync
    /\ UNCHANGED <<app, locals, sinks, faults>>

\* The feed parses; after filtering, deduplication and sorting it is l.
FeedDelivers ==
    /\ pc = "fetch"
    /\ \E l \in Lists :
          \/ Size[l] < config.minEntries /\ failSync /\ UNCHANGED desired
          \/ /\ Size[l] >= config.minEntries
             /\ desired' = l /\ pc' = "read" /\ UNCHANGED syncSuccess
    /\ UNCHANGED <<app, now, ciliumOK, sinks, faults>>

\* Mutant of shrinkRejected: the percentage is applied to the wrong list.
shrinkRejectedBackwards(previous, next) ==
    /\ config.maxShrinkPercent > 0 /\ previous >= 100
    /\ previous * 100 < next * (100 - config.maxShrinkPercent)

shrinkRejected(previous, next) ==
    /\ config.maxShrinkPercent > 0 /\ previous >= 100
    /\ next * 100 < previous * (100 - config.maxShrinkPercent)

ShrinkRefused == group.exists /\ shrinkRejected(Size[group.cidrs], Size[desired])

ReadGroup ==
    /\ pc = "read"
    /\ \/ ShrinkRefused /\ failSync /\ UNCHANGED <<now, faults>>
       \/ /\ ~ShrinkRefused
          /\ now' = 0 /\ pc' = "cilium" /\ UNCHANGED <<syncSuccess, faults>>
    /\ UNCHANGED <<app, desired, ciliumOK, sinks>>

ReadGroupFails ==
    /\ pc = "read" /\ Fault("refused") /\ failSync
    /\ UNCHANGED <<app, locals, sinks>>

-----------------------------------------------------------------------------
(* The two sinks as syncOnce and updateStaleness call them. *)

\* The group after Apply(list, success, clear).
Applied(list, success, clear) ==
    IF group.exists THEN AppliedTo(group, list, success, clear)
                    ELSE buildObject(list, success, clear)

ApplySucceeds(list, success, clear) ==
    /\ ~group.exists \/ isManagedByUs(group)
    /\ group' = Applied(list, success, clear)
    /\ UNCHANGED faults

\* Refused: an API error, too many conflicts, or an object that is not ours.
\* Lost: the write is stored but the caller sees an error.
ApplyFails(list, success, clear) ==
    \/ group.exists /\ ~isManagedByUs(group) /\ UNCHANGED <<group, faults>>
    \/ Fault("refused") /\ UNCHANGED group
    \/ Fault("lost") /\ (~group.exists \/ isManagedByUs(group))
                     /\ group' = Applied(list, success, clear)

Confirmed(list, asOf) ==
    [items |-> list, asOf |-> IF list = NoCIDRs THEN NoTime ELSE asOf]

\* CloudflareClient.Sync returns no error: the items compared equal, or they
\* were replaced and the bulk operation completed.  Cloudflare accepts no
\* second operation while one is running; one that ends between two pages of
\* the read can make pages of two other lists look like this one.  EdgeList
\* states what is assumed here, and CloudflareSink shows it.
EdgeSucceeds(list, asOf) ==
    /\ Size[list] <= config.maxEntries
    /\ \/ /\ edge.items = list \/ orphan = {}
          /\ edge' = Confirmed(list, asOf)
          /\ UNCHANGED <<orphan, faults>>
       \/ /\ Fault("torn") /\ list # NoCIDRs /\ edge.items \notin {list, NoCIDRs}
          /\ \E o \in orphan : o # list /\ edge' = [items |-> o, asOf |-> asOf]
          /\ orphan' = {}

\* Sync fails after its write went out.  Behind the write, the rule is refused
\* or a reply lost and the items stay; or the wait for the operation ends
\* without its result, and it completes or fails on its own.
EdgeFailsLate(list) ==
    /\ Size[list] <= config.maxEntries
    /\ \/ /\ edge.items = list \/ orphan = {}
          /\ edge' = [edge EXCEPT !.items = list] /\ UNCHANGED orphan
       \/ /\ edge.items # list /\ orphan = {}
          /\ orphan' = {list} /\ UNCHANGED edge

\* Mutant of EdgeFails: a second operation is started beside the first.
EdgeFailsTwice(list) ==
    /\ UNCHANGED edge
    /\ Fault("late") /\ edge.items # list
    /\ orphan' = orphan \cup {list}

\* The list is too long, an operation is pending already, or a call fails.
EdgeFails(list) ==
    \/ /\ \/ Size[list] > config.maxEntries
          \/ edge.items # list /\ orphan # {}
       /\ UNCHANGED <<edge, orphan, faults>>
    \/ Fault("refused") /\ UNCHANGED <<edge, orphan>>
    \/ Fault("late") /\ EdgeFailsLate(list)

-----------------------------------------------------------------------------
(* syncOnce from the sinks on. *)

\* After the last sink: success, or updateStaleness.
Finish(allOK) ==
    /\ pc' = IF allOK THEN "idle" ELSE "staleCilium"
    /\ syncSuccess' = allOK
    /\ now' = NoTime /\ ciliumOK' = FALSE

AfterCilium(ok) ==
    IF config.cloudflare
      THEN pc' = "cloudflare" /\ ciliumOK' = ok /\ UNCHANGED <<syncSuccess, now>>
      ELSE Finish(ok)

\* Mutants of ApplyCilium: lastSuccess is set before the error is looked at;
\* staleCleared is not reset.
ApplyCiliumOptimistic ==
    /\ pc = "cilium"
    /\ \/ ApplySucceeds(desired, now, NoTime) /\ AfterCilium(TRUE)
       \/ ApplyFails(desired, now, NoTime) /\ AfterCilium(FALSE)
    /\ lastSuccess' = now /\ staleCleared' = FALSE
    /\ UNCHANGED <<config, cfLastSuccess, staleCFCleared, desired, edge, orphan>>
ApplyCiliumNoReset ==
    /\ pc = "cilium"
    /\ \/ ApplySucceeds(desired, now, NoTime) /\ lastSuccess' = now /\ AfterCilium(TRUE)
       \/ ApplyFails(desired, now, NoTime) /\ UNCHANGED lastSuccess /\ AfterCilium(FALSE)
    /\ UNCHANGED <<config, staleCleared, cfLastSuccess, staleCFCleared, desired, edge, orphan>>

ApplyCilium ==
    /\ pc = "cilium"
    /\ \/ /\ ApplySucceeds(desired, now, NoTime)
          /\ lastSuccess' = now /\ staleCleared' = FALSE
          /\ AfterCilium(TRUE)
       \/ /\ ApplyFails(desired, now, NoTime)
          /\ UNCHANGED <<lastSuccess, staleCleared>>
          /\ AfterCilium(FALSE)
    /\ UNCHANGED <<config, cfLastSuccess, staleCFCleared, desired, edge, orphan>>

SyncCloudflare ==
    /\ pc = "cloudflare"
    /\ \/ /\ EdgeSucceeds(desired, now)
          /\ cfLastSuccess' = now /\ staleCFCleared' = FALSE
          /\ pc' = "mark" /\ UNCHANGED <<syncSuccess, now, ciliumOK>>
       \/ /\ EdgeFails(desired)
          /\ UNCHANGED <<cfLastSuccess, staleCFCleared>>
          /\ Finish(FALSE)
    /\ UNCHANGED <<config, lastSuccess, staleCleared, desired, group>>

\* Mutant of MarkCloudflare: only the Cloudflare result decides.
MarkCloudflareOnly ==
    /\ pc = "mark"
    /\ \/ isManagedByUs(group) /\ group' = MarkedAt(group, now) /\ UNCHANGED faults
       \/ ~isManagedByUs(group) /\ UNCHANGED <<group, faults>>
    /\ Finish(TRUE)
    /\ UNCHANGED <<app, desired, edge, orphan>>

\* MergeAnnotations persists the Cloudflare marker; its errors are logged only.
MarkCloudflare ==
    /\ pc = "mark"
    /\ \/ /\ isManagedByUs(group)
          /\ group' = MarkedAt(group, now) /\ UNCHANGED faults
       \/ ~isManagedByUs(group) /\ UNCHANGED <<group, faults>>
       \/ Fault("refused") /\ UNCHANGED group
    /\ Finish(ciliumOK)
    /\ UNCHANGED <<app, desired, edge, orphan>>

-----------------------------------------------------------------------------
(* updateStaleness. *)

\* Mutants of MustClear: a sink is cleared although it is not stale yet, or
\* although the operator chose to retain it.
MustClearAnyway(last, alreadyCleared) == IsStale(last) /\ ~alreadyCleared
MustClearEarly(last, alreadyCleared) ==
    last # NoTime /\ FailOpen /\ ~alreadyCleared

\* The guards before the clear: never without a known last success, never
\* while fresh, never under retain, and once only.
MustClear(last, alreadyCleared) ==
    IsStale(last) /\ FailOpen /\ ~alreadyCleared

updateCiliumStaleness ==
    /\ pc = "staleCilium"
    /\ pc' = IF config.cloudflare THEN "staleCloudflare" ELSE "idle"
    /\ \/ ~MustClear(lastSuccess, staleCleared) /\ UNCHANGED <<group, staleCleared, faults>>
       \/ /\ MustClear(lastSuccess, staleCleared)
          /\ \/ ApplySucceeds(NoCIDRs, NoTime, 0) /\ staleCleared' = TRUE
             \/ ApplyFails(NoCIDRs, NoTime, 0) /\ UNCHANGED staleCleared
    /\ UNCHANGED <<config, lastSuccess, cfLastSuccess, staleCFCleared, locals, syncSuccess, edge, orphan>>

\* Mutant of updateCloudflareStaleness: cleared is noted on failure too.
updateCloudflareStalenessOnce ==
    /\ pc = "staleCloudflare" /\ pc' = "idle"
    /\ \/ ~MustClear(cfLastSuccess, staleCFCleared)
          /\ UNCHANGED <<edge, orphan, staleCFCleared, faults>>
       \/ /\ MustClear(cfLastSuccess, staleCFCleared) /\ staleCFCleared' = TRUE
          /\ EdgeSucceeds(NoCIDRs, NoTime) \/ EdgeFails(NoCIDRs)
    /\ UNCHANGED <<config, lastSuccess, cfLastSuccess, staleCleared, locals, syncSuccess, group>>

updateCloudflareStaleness ==
    /\ pc = "staleCloudflare" /\ pc' = "idle"
    /\ \/ ~MustClear(cfLastSuccess, staleCFCleared)
          /\ UNCHANGED <<edge, orphan, staleCFCleared, faults>>
       \/ /\ MustClear(cfLastSuccess, staleCFCleared)
          /\ \/ EdgeSucceeds(NoCIDRs, NoTime) /\ staleCFCleared' = TRUE
             \/ EdgeFails(NoCIDRs) /\ UNCHANGED staleCFCleared
    /\ UNCHANGED <<config, lastSuccess, cfLastSuccess, staleCleared, locals, syncSuccess, group>>

-----------------------------------------------------------------------------
(* Crashes, time and the outside world. *)

Crash ==
    /\ pc # "down" /\ pc' = "down" /\ Fault("crash")
    /\ lastSuccess' = NoTime /\ cfLastSuccess' = NoTime
    /\ staleCleared' = FALSE /\ staleCFCleared' = FALSE
    /\ Locals0 /\ syncSuccess' = FALSE
    /\ UNCHANGED <<config, sinks>>

\* The pod starts once LoadConfig accepts its environment; until then main
\* exits and nothing happens.
Restart ==
    /\ pc = "down" /\ pc' = "boot"
    /\ config' \in {env \in Envs : LoadConfig(env)}
    /\ UNCHANGED <<lastSuccess, cfLastSuccess, staleCleared, staleCFCleared>>
    /\ UNCHANGED <<locals, syncSuccess, sinks, faults>>

\* Every time in memory, in the annotations and in the sinks grows older.  The
\* calls to the sinks are bounded by timeouts of minutes, so the clock ticks at
\* most once between now and the end of syncOnce.
Tick ==
    /\ now \in {NoTime, 0}
    /\ lastSuccess' = Older(lastSuccess) /\ cfLastSuccess' = Older(cfLastSuccess)
    /\ now' = Older(now)
    /\ group' = [group EXCEPT !.lastOK = Older(@), !.cfOK = Older(@), !.cleared = Older(@)]
    /\ edge' = [edge EXCEPT !.asOf = Older(@)]
    /\ UNCHANGED <<pc, config, staleCleared, staleCFCleared, desired, ciliumOK, syncSuccess>>
    /\ UNCHANGED <<orphan, faults>>

\* The operation nobody waits for completes, or fails at Cloudflare.
OrphanEnds ==
    /\ \E o \in orphan : edge' \in {[edge EXCEPT !.items = o], edge}
    /\ orphan' = {}
    /\ UNCHANGED <<pc, app, locals, syncSuccess, group, faults>>

\* kubectl delete or label, or the Cloudflare list deleted (Sync recreates it).
Outside ==
    /\ \/ Fault("outside") /\ group' = NoGroup /\ UNCHANGED edge
       \/ Fault("outside") /\ edge' = EmptyEdge /\ UNCHANGED group
       \/ /\ Fault("takeover") /\ isManagedByUs(group)
          /\ group' = [group EXCEPT !.managed = FALSE] /\ UNCHANGED edge
    /\ UNCHANGED <<pc, app, locals, syncSuccess, orphan>>

-----------------------------------------------------------------------------
Work ==
    \/ Boot \/ BootBlind \/ BeginCycle \/ FeedFails \/ FeedDelivers
    \/ ReadGroup \/ ReadGroupFails \/ ApplyCilium \/ SyncCloudflare \/ MarkCloudflare
    \/ updateCiliumStaleness \/ updateCloudflareStaleness
    \/ Restart

Next == Work \/ Crash \/ Tick \/ OrphanEnds \/ Outside

Spec == Init /\ [][Next]_vars

\* The goroutine runs, the ticker fires, the kubelet restarts the pod, the
\* clock moves on, and a bulk operation ends.
Fairness == WF_vars(Work) /\ WF_vars(Tick) /\ WF_vars(OrphanEnds)
FairSpec == Spec /\ Fairness

-----------------------------------------------------------------------------
(* Properties. *)

\* Every variable holds a value of its kind, and at most one bulk operation is
\* left behind.
TypeOK ==
    /\ config \in Envs
    /\ pc \in {"down", "boot", "idle", "fetch", "read", "cilium", "cloudflare",
               "mark", "staleCilium", "staleCloudflare"}
    /\ lastSuccess \in AgesOrNone /\ cfLastSuccess \in AgesOrNone
    /\ staleCleared \in BOOLEAN /\ staleCFCleared \in BOOLEAN
    /\ desired \in Lists /\ now \in AgesOrNone
    /\ ciliumOK \in BOOLEAN /\ syncSuccess \in BOOLEAN
    /\ group \in Groups /\ {group.lastOK, group.cfOK, group.cleared} \subseteq AgesOrNone
    /\ edge \in EdgeLists
    /\ orphan \in SUBSET Lists /\ \A o1, o2 \in orphan : o1 = o2
    /\ faults \in 0 .. MaxFaults

\* A managed group that enforces prefixes records when they came from the
\* feed, and what it records is no older than what memory holds: a pod that
\* restarts and reads it back applies the stale policy no earlier than the running
\* pod would have.  (It may apply it later: an Apply whose reply was lost is
\* younger in the object than in memory.)  Crashes and deletions included.
ListCarriesItsAge ==
    isManagedByUs(group) /\ group.cidrs # NoCIDRs =>
        /\ group.lastOK # NoTime
        /\ lastSuccess # NoTime => group.lastOK <= lastSuccess

\* Once the pod has noted that it cleared the Cilium group, the group stays
\* empty until a new list succeeds ("once only" in updateCiliumStaleness).
ClearedStaysCleared ==
    staleCleared /\ isManagedByUs(group) => group.cidrs = NoCIDRs

\* The fail-open clear removes nothing but lists older than MAX_STALE_AGE, and
\* under retain nothing is ever removed.  (ABUSEIPDB_MIN_ENTRIES is at least 1
\* here: with 0 an empty feed is a list like any other.)
OnlyStaleIsCleared ==
    [][ group.cidrs # NoCIDRs /\ group'.exists /\ group'.cidrs = NoCIDRs
          => FailOpen /\ IsStale(group.lastOK) ]_vars

\* The same for the Cloudflare list, which the synchronizer asks to be emptied,
\* at once or by an operation it may not wait for, only if no Sync has reported
\* success within MAX_STALE_AGE.  (The items may be younger than that: those of a
\* Sync that failed behind its write stay, and have no age of their own.)
EmptiesEdge ==
    /\ edge.items # NoCIDRs
    /\ \/ edge'.items = NoCIDRs /\ UNCHANGED orphan
       \/ NoCIDRs \in orphan' \ orphan
OnlyStaleIsClearedAtEdge ==
    [][ EmptiesEdge => FailOpen /\ IsStale(edge.asOf) ]_vars

\* Between the read that the shrink guard judges and the write, across crashes
\* and fail-open clears: a list of at least 100 entries is never replaced by one
\* that keeps less than 100 - ABUSEIPDB_MAX_SHRINK_PERCENT percent of it,
\* unless by none.
KeepsEnough ==
    Size[group.cidrs] >= 100 /\ config.maxShrinkPercent > 0 /\ group'.cidrs # NoCIDRs
      => 100 * Size[group'.cidrs] >= (100 - config.maxShrinkPercent) * Size[group.cidrs]
NoSurpriseShrink == [][KeepsEnough]_vars

\* abuseipdb_sync_success is 1 between cycles only while every enabled sink
\* enforces the list of the last cycle.
SuccessCoversAllSinks ==
    pc = "idle" /\ syncSuccess =>
        /\ group.cidrs = desired /\ group.lastOK = lastSuccess
        /\ config.cloudflare => edge.items = desired

\* updateStaleness: "so very old reputation data is not enforced
\* indefinitely".  Whatever the feed does, a list that has become older than
\* MAX_STALE_AGE is eventually cleared or replaced under fail-open.
OldList == isManagedByUs(group) /\ group.cidrs # NoCIDRs /\ IsStale(group.lastOK)
NotEnforcedIndefinitely == OldList ~> ~OldList \/ ~FailOpen

\* The same for the Cloudflare list since a Sync last reported success, unless an
\* edit turns that sink off, and also where Syncs and clears fail behind their
\* writes.  (The times of a list that only failed Syncs have stored, the first
\* ever or the first after a clear, are not kept: IsStale(NoTime) is FALSE.)
OldEdge == edge.items # NoCIDRs /\ IsStale(edge.asOf)
NotEnforcedIndefinitelyAtEdge == OldEdge ~> ~OldEdge \/ ~FailOpen \/ ~config.cloudflare

\* Under fail-open the shrink guard cannot lock a working feed out for ever: if
\* the feed keeps delivering valid lists, of whatever size, both sinks keep
\* coming back to a fresh list once the faults are over.
FeedWorks == <>[][~FeedFails /\ ~(pc = "fetch" /\ pc' = "staleCilium")]_vars
Fresh == /\ group.cidrs # NoCIDRs /\ ~IsStale(group.lastOK)
         /\ config.cloudflare => edge.items # NoCIDRs /\ ~IsStale(edge.asOf)
Recovers == <>[]FailOpen /\ FeedWorks => []<>Fresh

\* "Sinks fail independently: a Cloudflare API/rate-limit failure never
\* prevents the Cilium update and vice versa": once the feed is validated, the
\* cycle ends before Cloudflare for no other reason than the shrink guard.
CiliumFailureSparesCloudflare ==
    [][ config.cloudflare /\ pc = "read" /\ pc' = "staleCilium" => ShrinkRefused ]_vars
=============================================================================
