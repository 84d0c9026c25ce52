----------------------------- MODULE CIDRGroup -----------------------------
(***************************************************************************)
(* k8s.go: the read-modify-write loops Apply and MergeAnnotations of one   *)
(* or more synchronizer pods (a rolling update runs the old and the new    *)
(* pod side by side) against one CiliumCIDRGroup guarded by its            *)
(* resourceVersion.                                                        *)
(*                                                                         *)
(* Every API call is a step of its own, so another pod, an administrator   *)
(* or a request the client already gave up on can come between the Get     *)
(* and the write of an attempt.  A call that times out leaves its request  *)
(* on the wire: it lands later or never.  A pod that dies in the middle of *)
(* a call leaves the object as a failed call does.                         *)
(***************************************************************************)
EXTENDS GroupObject, FiniteSets

CONSTANTS
    Clients,       \* the pods
    Feeds,         \* the lists that pass syncOnce's validation
    MaxAttempts,   \* attempts of one Apply or MergeAnnotations (5 in the code)
    MaxTime,       \* bound: the last time the clock shows
    MaxVersion,    \* bound: the last resourceVersion
    MaxAdmin,      \* bound: writes by somebody else
    MaxWire        \* bound: timed-out requests on the wire

ASSUME FeedAssumption == Feeds \subseteq Lists

ASSUME BoundAssumption ==
    /\ MaxAttempts \in Nat \ {0}
    /\ MaxTime \in Nat /\ MaxVersion \in Nat /\ MaxAdmin \in Nat /\ MaxWire \in Nat

VARIABLES
    group,     \* the object's content, NoGroup when it does not exist
    rv,        \* resourceVersion counter of the API server
    clock,     \* wall clock
    pc,        \* pc[c]: what pod c does next
    call,      \* call[c]: the arguments of the call in progress
    ok,        \* ok[c]: the latest call returned no error
    attempt,   \* attempt[c]: the loop variable
    seen,      \* seen[c]: what this attempt's Get returned
    now,       \* now[c]: syncOnce's now, until its last use
    wire,      \* requests whose client has given up on them
    admin      \* writes by somebody else so far

pods == <<pc, call, ok, attempt, seen, now>>
vars == <<group, rv, clock, pods, wire, admin>>

Calls == [op : {"apply", "merge"}, cidrs : Lists, success : Times, clear : Times]
Seen == [group : Groups, rv : Nat]
Requests == [kind : {"create", "update"}, rv : Nat, object : Groups, call : Calls]
NotSeen == [group |-> NoGroup, rv |-> 0]

Init ==
    /\ group = NoGroup /\ rv = 0 /\ clock = 0
    /\ pc = [c \in Clients |-> "idle"]
    /\ call = [c \in Clients |-> NoCall] /\ ok = [c \in Clients |-> FALSE]
    /\ attempt = [c \in Clients |-> 1]
    /\ seen = [c \in Clients |-> NotSeen]
    /\ now = [c \in Clients |-> NoTime]
    /\ wire = {} /\ admin = 0

-----------------------------------------------------------------------------
(* The calls the synchronization makes. *)

Start(c, a) ==
    /\ pc[c] = "idle"
    /\ call' = [call EXCEPT ![c] = a] /\ ok' = [ok EXCEPT ![c] = FALSE]
    /\ pc' = [pc EXCEPT ![c] = "get"]
    /\ UNCHANGED <<group, rv, clock, attempt, seen, wire, admin>>

\* syncOnce hands a validated list to Apply, an empty one only if
\* ABUSEIPDB_MIN_ENTRIES is 0; now is captured just before.
StartApply(c) ==
    /\ \E l \in Feeds :
           Start(c, [op |-> "apply", cidrs |-> l, success |-> clock, clear |-> NoTime])
    /\ now' = [now EXCEPT ![c] = clock]

\* The same cycle's MergeAnnotations, after the Cloudflare sink succeeded
\* and whether or not Apply did; now is still the time of this cycle.
StartMerge(c) ==
    /\ now[c] # NoTime
    /\ Start(c, [op |-> "merge", cidrs |-> NoCIDRs, success |-> now[c], clear |-> NoTime])
    /\ now' = [now EXCEPT ![c] = NoTime]

\* The fail-open clear of updateCiliumStaleness.
StartClear(c) ==
    /\ Start(c, [op |-> "apply", cidrs |-> NoCIDRs, success |-> NoTime, clear |-> clock])
    /\ now' = [now EXCEPT ![c] = NoTime]

-----------------------------------------------------------------------------
(* One attempt: Get, then Create or Update. *)

\* The call returns, without an error if result, and its locals go out of scope.
Return(c, result) ==
    /\ ok' = [ok EXCEPT ![c] = result]
    /\ pc' = [pc EXCEPT ![c] = "idle"]
    /\ call' = [call EXCEPT ![c] = NoCall]
    /\ attempt' = [attempt EXCEPT ![c] = 1]
    /\ seen' = [seen EXCEPT ![c] = NotSeen]
    /\ UNCHANGED now

\* Mutants of Retry: giving up passes for success; one attempt too many.
RetryShrugs(c) ==
    \/ /\ attempt[c] < MaxAttempts
       /\ attempt' = [attempt EXCEPT ![c] = @ + 1]
       /\ pc' = [pc EXCEPT ![c] = "get"]
       /\ seen' = [seen EXCEPT ![c] = NotSeen]
       /\ UNCHANGED <<call, ok, now>>
    \/ attempt[c] >= MaxAttempts /\ Return(c, TRUE)
RetryOnceMore(c) ==
    \/ /\ attempt[c] <= MaxAttempts
       /\ attempt' = [attempt EXCEPT ![c] = @ + 1]
       /\ pc' = [pc EXCEPT ![c] = "get"]
       /\ seen' = [seen EXCEPT ![c] = NotSeen]
       /\ UNCHANGED <<call, ok, now>>
    \/ attempt[c] > MaxAttempts /\ Return(c, FALSE)

\* A resourceVersion conflict or a lost race to create: go round again, or
\* give up after the last attempt.
Retry(c) ==
    \/ /\ attempt[c] < MaxAttempts
       /\ attempt' = [attempt EXCEPT ![c] = @ + 1]
       /\ pc' = [pc EXCEPT ![c] = "get"]
       /\ seen' = [seen EXCEPT ![c] = NotSeen]
       /\ UNCHANGED <<call, ok, now>>
    \/ attempt[c] >= MaxAttempts /\ Return(c, FALSE)

\* Mutant of Get: an object that is there is updated, whoever owns it.
GetAnybody(c) ==
    /\ pc[c] = "get"
    /\ call[c].op = "apply" \/ group.exists
    /\ pc' = [pc EXCEPT ![c] = IF group.exists THEN "update" ELSE "create"]
    /\ seen' = [seen EXCEPT ![c] = [group |-> group, rv |-> rv]]
    /\ UNCHANGED <<group, rv, clock, wire, admin, call, ok, attempt, now>>

Get(c) ==
    /\ pc[c] = "get"
    /\ UNCHANGED <<group, rv, clock, wire, admin>>
    /\ \/ \* not found (Apply creates), or ours (and it needs a write)
          /\ IF group.exists
               THEN /\ isManagedByUs(group)
                    /\ call[c].op = "apply" \/ group.cfOK # call[c].success
               ELSE call[c].op = "apply"
          /\ pc' = [pc EXCEPT ![c] = IF group.exists THEN "update" ELSE "create"]
          /\ seen' = [seen EXCEPT ![c] = [group |-> group, rv |-> rv]]
          /\ UNCHANGED <<call, ok, attempt, now>>
       \/ \* somebody else's object: refused
          group.exists /\ ~isManagedByUs(group) /\ Return(c, FALSE)
       \/ \* nothing for MergeAnnotations to do
          /\ call[c].op = "merge"
          /\ ~group.exists \/ (isManagedByUs(group) /\ group.cfOK = call[c].success)
          /\ Return(c, TRUE)

\* An API error, a timeout of a read, or an object that does not parse.
GetFails(c) ==
    /\ pc[c] = "get"
    /\ Return(c, FALSE)
    /\ UNCHANGED <<group, rv, clock, wire, admin>>

\* The API server stores obj; a write that changes nothing keeps the version.
Store(obj) ==
    /\ rv < MaxVersion \/ obj = group
    /\ group' = obj
    /\ rv' = IF obj = group THEN rv ELSE rv + 1

\* Mutant of Matches: the object is sent without its resourceVersion.
MatchesAnything(version) == group.exists

\* buildObject and the object Get returned carry the version that was read:
\* the API server stores the update only if it is still the current one.
Matches(version) == group.exists /\ version = rv

Create(c) ==
    /\ pc[c] = "create"
    /\ \/ ~group.exists /\ Store(Created(call[c])) /\ Return(c, TRUE)
       \/ group.exists /\ Retry(c) /\ UNCHANGED <<group, rv>>
    /\ UNCHANGED <<clock, wire, admin>>

Update(c) ==
    /\ pc[c] = "update"
    /\ \/ \* the version still matches: stored
          /\ Matches(seen[c].rv)
          /\ Store(Desired(call[c], seen[c].group))
          /\ Return(c, TRUE)
       \/ \* conflict
          /\ group.exists /\ ~Matches(seen[c].rv)
          /\ Retry(c) /\ UNCHANGED <<group, rv>>
       \/ \* deleted meanwhile: NotFound is not a conflict, the call fails
          /\ ~group.exists
          /\ Return(c, FALSE) /\ UNCHANGED <<group, rv>>
    /\ UNCHANGED <<clock, wire, admin>>

\* The write is refused for another reason: the call fails, nothing changes.
WriteFails(c) ==
    /\ pc[c] \in {"create", "update"}
    /\ Return(c, FALSE)
    /\ UNCHANGED <<group, rv, clock, wire, admin>>

\* The client gives up waiting; the request may still be carried out.
WriteTimesOut(c) ==
    /\ pc[c] \in {"create", "update"} /\ Cardinality(wire) < MaxWire
    /\ wire' = wire \cup
         {[kind |-> pc[c], rv |-> seen[c].rv, call |-> call[c],
           object |-> IF pc[c] = "create" THEN Created(call[c])
                                          ELSE Desired(call[c], seen[c].group)]}
    /\ Return(c, FALSE)
    /\ UNCHANGED <<group, rv, clock, admin>>

-----------------------------------------------------------------------------
(* The rest of the world. *)

\* A request whose client gave up reaches the API server, or never does.
Land(r) ==
    /\ wire' = wire \ {r}
    /\ IF \/ r.kind = "create" /\ ~group.exists
          \/ r.kind = "update" /\ Matches(r.rv)
         THEN Store(r.object)
         ELSE UNCHANGED <<group, rv>>
    /\ UNCHANGED <<clock, pods, admin>>

Administer ==
    /\ admin < MaxAdmin /\ rv < MaxVersion
    /\ admin' = admin + 1
    /\ rv' = rv + 1
    /\ \/ group.exists /\ group' = NoGroup
       \/ ~group.exists /\ \E l \in Lists : group' = [NoGroup EXCEPT !.exists = TRUE, !.cidrs = l]
       \/ isManagedByUs(group) /\ group' = [group EXCEPT !.managed = FALSE]
    /\ UNCHANGED <<clock, pods, wire>>

Tick ==
    /\ clock < MaxTime
    /\ clock' = clock + 1
    /\ UNCHANGED <<group, rv, pods, wire, admin>>

PodStep(c) ==
    \/ StartApply(c) \/ StartMerge(c) \/ StartClear(c)
    \/ Get(c) \/ GetFails(c) \/ Create(c) \/ Update(c) \/ WriteFails(c) \/ WriteTimesOut(c)

Next == \/ \E c \in Clients : PodStep(c)
        \/ \E r \in wire : Land(r)
        \/ Administer
        \/ Tick

Spec == Init /\ [][Next]_vars

-----------------------------------------------------------------------------
(* Properties. *)

\* Every variable holds a value of its kind, and no Apply or MergeAnnotations
\* tries more often than its loop allows.
TypeOK ==
    /\ group \in Groups /\ rv \in Nat /\ clock \in Nat /\ admin \in Nat
    /\ pc \in [Clients -> {"idle", "get", "create", "update"}]
    /\ call \in [Clients -> Calls] /\ ok \in [Clients -> BOOLEAN]
    /\ attempt \in [Clients -> 1 .. MaxAttempts]   \* never more than the five tries
    /\ seen \in [Clients -> Seen]
    /\ now \in [Clients -> Times]
    /\ wire \in SUBSET Requests

\* The argument behind all that follows (it is what makes them inductive).
\* A call carries a list and a time the code can have passed it.
ValidCalls ==
    \A c \in Clients : /\ now[c] # NoTime => now[c] \in 0 .. clock
                       /\ call[c] \in IF pc[c] = "idle" THEN {NoCall} ELSE GroupCalls(clock)
                       /\ pc[c] = "create" => call[c].op = "apply"

\* A pod about to update holds a version of the object; if that version is
\* still the current one, so is the content it read, and it is ours to write.
CurrentSnapshots ==
    \A c \in Clients : pc[c] = "update" =>
        /\ seen[c].rv <= rv
        /\ seen[c].rv = rv => seen[c].group = group /\ isManagedByUs(group)

\* The same of a request nobody waits for any more: whenever it lands, it is
\* refused or it is what its call would write now.
CurrentRequests ==
    \A r \in wire :
        /\ r.call \in GroupCalls(clock)
        /\ r.kind = "create" => r.call.op = "apply" /\ r.object = Created(r.call)
        /\ r.kind = "update" => r.rv <= rv
        /\ r.kind = "update" /\ r.rv = rv =>
             isManagedByUs(group) /\ r.object = Desired(r.call, group)

\* A version that matches at the API server guarantees that the read content is
\* the current one, however long ago, and by whichever pod, it was read.
VersionsGuardWrites == ValidCalls /\ CurrentSnapshots /\ CurrentRequests

\* "refusing to overwrite it": an object that exists without the managed-by
\* label is changed by its owner only, even when the label disappears or the
\* object is recreated between a pod's Get and its write, or a timed-out
\* request lands late (the isManagedByUs checks and resourceVersion).
ForeignUntouched ==
    [][group.exists /\ ~isManagedByUs(group) => group' = group \/ admin' # admin]_vars

\* A list update never drops the Cloudflare marker (mergeAnnotations), and a
\* marker update never touches the list or its timestamp, whichever pods
\* interleave: a change of an existing marker is a MergeAnnotations and leaves
\* the rest of the object exactly as it was.
SinksDoNotClobber ==
    [][ isManagedByUs(group) /\ isManagedByUs(group') /\ group'.cfOK # group.cfOK
          => group' = MarkedAt(group, group'.cfOK) /\ group'.cfOK # NoTime ]_vars

\* Clearing a list on the fail-open path keeps the time of the last success, so a
\* restarted pod still computes the true age of the feed, and empties the list
\* whatever it held when the write landed.
ClearKeepsLastSuccess ==
    [][ isManagedByUs(group) /\ isManagedByUs(group')
        /\ group'.cleared \notin {NoTime, group.cleared}
          => group'.lastOK = group.lastOK /\ group'.cidrs = NoCIDRs ]_vars

\* A group that says it was cleared on purpose holds no prefix: the next list
\* removes the annotation (buildObject does not carry it over).
ClearedMeansEmpty ==
    isManagedByUs(group) /\ group.cleared # NoTime => group.cidrs = NoCIDRs

\* Apply and MergeAnnotations are linearizable: the optimistic loops amount to
\* one operation each on the latest content, what they return tells whether it
\* took place, and a request on the wire is a call that may take effect yet.
Atomic == INSTANCE AtomicGroup WITH lost <- {r.call : r \in wire}
RefinesAtomicGroup == Atomic!Spec
=============================================================================
