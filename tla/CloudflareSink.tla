--------------------------- MODULE CloudflareSink ---------------------------
(***************************************************************************)
(* cloudflare.go: CloudflareClient.Sync call by call.  A Sync resolves or  *)
(* creates the account IP list, reads its items page by page, replaces     *)
(* them through an asynchronous bulk operation, waits for that operation,  *)
(* and repairs the zone's WAF rule.  Cloudflare's side (the list, the      *)
(* operation, the rules) changes between any two calls, by the dashboard,  *)
(* by another pod, or by an operation this client gave up on.  syncOnce    *)
(* and updateCloudflareStaleness make one Sync after another; the empty    *)
(* list is the fail-open clear.                                            *)
(*                                                                         *)
(* A list is the sequence of its pages; a page is as good as one prefix.   *)
(***************************************************************************)
EXTENDS Integers, Sequences, SequencesExt

CONSTANTS
    Lists,            \* the lists of prefixes, by pages
    MaxEntries,       \* CLOUDFLARE_MAX_ENTRIES, in pages
    MaxPolls,         \* polls of a bulk operation before its deadline
    Paginations,      \* how the Lists API may answer, see ReadPage
    FaultKinds,       \* the faults of this instance, see Fault
    MaxFaults,        \* bound: faults in one behaviour
    MaxListID         \* bound: IP lists ever created

NoCIDRs == <<>>

ASSUME SinkAssumption ==
    /\ NoCIDRs \in Lists /\ \A l \in Lists : l \in Seq(ToSet(l))
    /\ \A l, m \in Lists : ToSet(l) = ToSet(m) => l = m      \* sorted, no duplicates
    /\ MaxEntries \in Nat \ {0} /\ MaxPolls \in Nat \ {0}
    /\ Paginations \subseteq {"cursor", "pages", "both"}
    /\ MaxFaults \in Nat /\ MaxListID \in Nat \ {0}

VARIABLES
    list,        \* the account list that bears our name; id 0: there is none
    created,     \* list IDs handed out so far
    op,          \* the bulk operation pending at the account; list 0: none
    rules,       \* the zone's WAF rules by ref
    ruleset,     \* does the zone's entry point ruleset exist
    pagination,  \* how the Lists API answers
    pc,          \* the client's next call, "idle" between Syncs
    listID,      \* the cached list ID, 0 when empty
    target,      \* the argument of the Sync in progress, or of the last one
    recreated,   \* this Sync already dropped a listID that was not found
    walk,        \* of ListItems: the loop variables of walk, and the items so far
    awaited,     \* the state of the operation this Sync waits for
    polls,       \* polls of it so far
    result,      \* of the last Sync
    disturbed,   \* which of "list", "rule" changed behind the Sync's back
    faults       \* faults so far

locals == <<target, recreated, walk, polls>>
client == <<pc, listID, locals, awaited, result>>
zone   == <<rules, ruleset>>
vars   == <<list, created, op, zone, pagination, client, disturbed, faults>>

Refs == {"ours", "theirs"}
NoList == [id |-> 0, kind |-> "ip", items |-> NoCIDRs]
NoOp == [list |-> 0, items |-> NoCIDRs, ours |-> FALSE]
NewWalk == [cursor |-> 0, page |-> 1, got |-> {}]

\* "refused": a call fails and changes nothing.  "lost": it fails although it
\* was carried out.  "poll": reading the operation's state fails.  "failed": the
\* operation fails.  "drift", "delete": somebody else changes rules or list.
\* "overlap": the other pod of a rolling update creates the list or writes it.
Fault(kind) == kind \in FaultKinds /\ faults < MaxFaults /\ faults' = faults + 1

Init ==
    /\ list \in {NoList} \cup [id : {1}, kind : {"ip", "hostname"}, items : Lists]
    /\ created = 1 /\ op = NoOp
    /\ ruleset \in BOOLEAN
    /\ rules = [r \in Refs |-> IF r = "theirs" /\ ruleset THEN "other" ELSE "absent"]
    /\ pagination \in Paginations
    /\ pc = "idle" /\ listID = 0 /\ target = NoCIDRs
    /\ recreated = FALSE /\ walk = NewWalk /\ polls = 0
    /\ awaited = "none" /\ result = "none"
    /\ disturbed = {} /\ faults = 0

-----------------------------------------------------------------------------
(* Sync and EnsureList. *)

Goto(label) == pc' = label /\ UNCHANGED <<listID, locals, awaited, result>>

\* Sync returns; only the cached list ID outlives it.
Return(r) ==
    /\ pc' = "idle" /\ result' = r
    /\ recreated' = FALSE /\ walk' = NewWalk /\ polls' = 0 /\ awaited' = "none"
    /\ UNCHANGED <<listID, target>>

StartSync ==
    /\ pc = "idle"
    /\ \E l \in Lists :
         /\ target' = l
         /\ \/ Len(l) > MaxEntries /\ result' = "failed" /\ UNCHANGED pc
            \/ Len(l) <= MaxEntries /\ result' = "none" /\ pc' = "list"
    /\ disturbed' = {}
    /\ UNCHANGED <<list, created, op, zone, pagination, listID, recreated, walk, polls, awaited, faults>>

\* The cached ID, or the list of our name, which must be an IP list.
EnsureList ==
    /\ pc = "list"
    /\ \/ listID # 0 /\ Goto("items")
       \/ listID = 0 /\ list.id = 0 /\ Goto("create")
       \/ listID = 0 /\ list.id # 0 /\ list.kind # "ip" /\ Return("failed")
       \/ /\ listID = 0 /\ list.id # 0 /\ list.kind = "ip"
          /\ listID' = list.id /\ pc' = "items" /\ UNCHANGED <<locals, awaited, result>>
    /\ UNCHANGED <<list, created, op, zone, pagination, disturbed, faults>>

NewList == /\ list.id = 0 /\ created < MaxListID
           /\ created' = created + 1
           /\ list' = [NoList EXCEPT !.id = created + 1]

\* The POST; the name is taken if the other pod was faster.
CreateList ==
    /\ pc = "create"
    /\ \/ /\ NewList
          /\ listID' = created + 1 /\ pc' = "items" /\ UNCHANGED <<locals, awaited, result>>
       \/ list.id # 0 /\ Return("failed") /\ UNCHANGED <<list, created>>
    /\ UNCHANGED <<op, zone, pagination, disturbed, faults>>

\* A 404 from ReplaceItems: forget the ID and go through EnsureList once more.
NotFound ==
    \/ /\ ~recreated
       /\ pc' = "list" /\ listID' = 0 /\ recreated' = TRUE
       /\ walk' = NewWalk /\ polls' = 0 /\ awaited' = "none"
       /\ UNCHANGED <<target, result>>
    \/ recreated /\ Return("failed")

-----------------------------------------------------------------------------
(* ReplaceItems: ListItems page by page, the PUT, waitBulkOperation. *)

Found == list.id = listID

\* The page asked for: the cursor wins, once there is one.
Page == IF walk.cursor # 0 THEN walk.cursor ELSE walk.page
Got == walk.got \cup (IF Page <= Len(list.items) THEN {list.items[Page]} ELSE {})
HasCursor == pagination # "pages" /\ Page < Len(list.items)
HasPages == pagination # "cursor" /\ Len(list.items) > walk.page

NextPage(w) == walk' = w /\ UNCHANGED <<pc, listID, target, recreated, polls, awaited, result>>

\* Mutant of ReadPage: the cursor of the answer is not followed.
ReadPageOnce ==
    /\ pc = "items"
    /\ \/ ~Found /\ NotFound
       \/ /\ Found
          /\ \/ HasPages /\ NextPage([walk EXCEPT !.page = @ + 1, !.got = Got])
             \/ ~HasPages /\ Got = ToSet(target) /\ Goto("rule")
             \/ ~HasPages /\ Got # ToSet(target) /\ Goto("put")
    /\ UNCHANGED <<list, created, op, zone, pagination, disturbed, faults>>

\* One page.  An answer names the next cursor, or a number of pages, or both; a
\* cursor is preferred, and is kept for the page numbers that follow it.  Behind
\* the last page the items are compared, sorted and without duplicates.
ReadPage ==
    /\ pc = "items"
    /\ \/ ~Found /\ NotFound
       \/ /\ Found
          /\ \/ HasCursor /\ NextPage([walk EXCEPT !.cursor = Page + 1, !.got = Got])
             \/ ~HasCursor /\ HasPages /\ NextPage([walk EXCEPT !.page = @ + 1, !.got = Got])
             \/ /\ ~HasCursor /\ ~HasPages
                /\ walk' = NewWalk
                /\ pc' = IF Got = ToSet(target) THEN "rule" ELSE "put"
                /\ UNCHANGED <<listID, target, recreated, polls, awaited, result>>
    /\ UNCHANGED <<list, created, op, zone, pagination, disturbed, faults>>

Accepted == op = NoOp /\ op' = [list |-> listID, items |-> target, ours |-> TRUE]

\* Mutant of PutItems: the answer to the PUT is taken for its completion.
PutItemsAndGo ==
    /\ pc = "put" /\ Found /\ Accepted /\ Goto("rule")
    /\ UNCHANGED <<list, created, zone, pagination, disturbed, faults>>

\* Mutant of PutItems: the old items are deleted before the new ones are sent.
PutItemsEmptied ==
    /\ pc = "put" /\ Found /\ Accepted
    /\ list' = [list EXCEPT !.items = NoCIDRs]
    /\ pc' = "wait" /\ awaited' = "pending" /\ UNCHANGED <<listID, locals, result>>
    /\ UNCHANGED <<created, zone, pagination, disturbed, faults>>

\* The PUT: answered with the ID of an operation, or done at once; refused
\* while the account has another operation pending.
PutItems ==
    /\ pc = "put"
    /\ \/ ~Found /\ NotFound /\ UNCHANGED <<list, op>>
       \/ Found /\ op # NoOp /\ Return("failed") /\ UNCHANGED <<list, op>>
       \/ /\ Found /\ Accepted /\ UNCHANGED list
          /\ pc' = "wait" /\ awaited' = "pending" /\ UNCHANGED <<listID, locals, result>>
       \/ /\ Found /\ op = NoOp
          /\ list' = [list EXCEPT !.items = target] /\ Goto("rule") /\ UNCHANGED op
    /\ UNCHANGED <<created, zone, pagination, disturbed, faults>>

\* Nobody waits for our operation any more.
Abandon == op' = [op EXCEPT !.ours = FALSE]

PollAgain ==
    /\ awaited = "pending" /\ polls' = polls + 1
    /\ UNCHANGED <<op, pc, listID, target, recreated, walk, awaited, result>>

\* Mutants of Poll: no deadline; the deadline is looked at one poll late.
PollForEver ==
    /\ pc = "wait"
    /\ \/ awaited = "completed" /\ Goto("rule") /\ UNCHANGED op
       \/ awaited = "failed" /\ Return("failed") /\ UNCHANGED op
       \/ awaited = "pending" /\ Goto("wait") /\ UNCHANGED op
    /\ UNCHANGED <<list, created, zone, pagination, disturbed, faults>>
PollOnceMore ==
    /\ pc = "wait"
    /\ \/ awaited = "completed" /\ Goto("rule") /\ UNCHANGED op
       \/ awaited = "failed" /\ Return("failed") /\ UNCHANGED op
       \/ polls <= MaxPolls /\ PollAgain
       \/ awaited = "pending" /\ polls > MaxPolls /\ Return("failed") /\ Abandon
    /\ UNCHANGED <<list, created, zone, pagination, disturbed, faults>>

\* The deadline is looked at after a poll that found the operation pending.
Poll ==
    /\ pc = "wait"
    /\ \/ awaited = "completed" /\ Goto("rule") /\ UNCHANGED op
       \/ awaited = "failed" /\ Return("failed") /\ UNCHANGED op
       \/ polls < MaxPolls /\ PollAgain
       \/ awaited = "pending" /\ polls = MaxPolls /\ Return("failed") /\ Abandon
    /\ UNCHANGED <<list, created, zone, pagination, disturbed, faults>>

\* A poll fails; as a 404 it counts as "list not found" in Sync.
PollFails ==
    /\ pc = "wait" /\ Fault("poll")
    /\ Return("failed") \/ NotFound
    /\ Abandon
    /\ UNCHANGED <<list, created, zone, pagination, disturbed>>

-----------------------------------------------------------------------------
(* EnsureRule. *)

\* Mutant of ReadRules: the first rule of the ruleset is taken for ours.
ReadRulesAnyRef ==
    /\ pc = "rule"
    /\ \/ ~ruleset /\ Goto("postRuleset")
       \/ ruleset /\ rules["theirs"] = "other" /\ Goto("patch")
       \/ ruleset /\ rules["theirs"] = "absent" /\ Goto("postRule")
    /\ UNCHANGED <<list, created, op, zone, pagination, disturbed, faults>>

ReadRules ==
    /\ pc = "rule"
    /\ \/ ~ruleset /\ Goto("postRuleset")
       \/ ruleset /\ rules["ours"] = "block" /\ Return("ok")
       \/ ruleset /\ rules["ours"] = "other" /\ Goto("patch")
       \/ ruleset /\ rules["ours"] = "absent" /\ Goto("postRule")
    /\ UNCHANGED <<list, created, op, zone, pagination, disturbed, faults>>

RuleCalls == {"postRuleset", "patch", "postRule"}

\* What Cloudflare accepts: no second entry point, no patch of a rule that is
\* gone, no second rule of the same ref.
RuleCallValid ==
    CASE pc = "postRuleset" -> ~ruleset
      [] pc = "patch"       -> ruleset /\ rules["ours"] # "absent"
      [] pc = "postRule"    -> ruleset /\ rules["ours"] = "absent"

\* Mutant of RuleWritten: the ruleset is replaced by one with our rule only.
RuleWrittenAlone ==
    ruleset' = TRUE /\ rules' = [r \in Refs |-> IF r = "ours" THEN "block" ELSE "absent"]

RuleWritten == ruleset' = TRUE /\ rules' = [rules EXCEPT !["ours"] = "block"]

WriteRule ==
    /\ pc \in RuleCalls
    /\ \/ RuleCallValid /\ RuleWritten /\ Return("ok")
       \/ ~RuleCallValid /\ UNCHANGED zone /\ Return("failed")
    /\ UNCHANGED <<list, created, op, pagination, disturbed, faults>>

-----------------------------------------------------------------------------
(* Failures and the other actors. *)

CallRefused ==
    /\ pc \notin {"idle", "wait"} /\ Fault("refused")
    /\ Return("failed")
    /\ UNCHANGED <<list, created, op, zone, pagination, disturbed>>

\* The call is carried out, the client sees a network error.
ReplyLost ==
    /\ Fault("lost")
    /\ \/ pc = "create" /\ NewList /\ UNCHANGED <<op, zone>>
       \/ /\ pc = "put" /\ Found /\ op = NoOp
          /\ op' = [list |-> listID, items |-> target, ours |-> FALSE]
          /\ UNCHANGED <<list, created, zone>>
       \/ pc \in RuleCalls /\ RuleCallValid /\ RuleWritten /\ UNCHANGED <<list, created, op>>
    /\ Return("failed")
    /\ UNCHANGED <<pagination, disturbed>>

\* The pod dies: the cached ID goes, the operation goes on.
Crash ==
    /\ Fault("crash")
    /\ pc' = "idle" /\ listID' = 0 /\ target' = NoCIDRs
    /\ recreated' = FALSE /\ walk' = NewWalk /\ polls' = 0
    /\ awaited' = "none" /\ result' = "none"
    /\ Abandon
    /\ UNCHANGED <<list, created, zone, pagination, disturbed>>

\* The bulk operation replaces all items at once, or fails.
OperationEnds ==
    /\ op # NoOp /\ op' = NoOp
    /\ \/ /\ list' = IF list.id = op.list THEN [list EXCEPT !.items = op.items] ELSE list
          /\ disturbed' = disturbed \cup (IF op.ours THEN {} ELSE {"list"})
          /\ awaited' = IF op.ours THEN "completed" ELSE awaited
          /\ UNCHANGED faults
       \/ /\ Fault("failed")
          /\ awaited' = IF op.ours THEN "failed" ELSE awaited
          /\ UNCHANGED <<list, disturbed>>
    /\ UNCHANGED <<created, zone, pagination, pc, listID, locals, result>>

Drift ==
    /\ Fault("drift") /\ disturbed' = disturbed \cup {"rule"}
    /\ \/ ruleset' = FALSE /\ rules' = [r \in Refs |-> "absent"]
       \/ /\ ruleset' = TRUE
          /\ \E r \in Refs, c \in {"absent", "other"} : rules' = [rules EXCEPT ![r] = c]
    /\ UNCHANGED <<list, created, op, pagination, client>>

\* The list is deleted, and a pending operation on it fails.
DeleteList ==
    /\ Fault("delete") /\ disturbed' = disturbed \cup {"list"}
    /\ list' = NoList /\ op' = NoOp
    /\ awaited' = IF op.ours THEN "failed" ELSE awaited
    /\ UNCHANGED <<created, zone, pagination, pc, listID, locals, result>>

\* The other pod of a rolling update runs the same code: of its Sync this one can
\* see that it creates the list, and that it replaces the items.
OtherPod ==
    /\ Fault("overlap")
    /\ \/ NewList /\ disturbed' = disturbed \cup {"list"} /\ UNCHANGED op
       \/ /\ list.id # 0 /\ list.kind = "ip" /\ op = NoOp
          /\ \E l \in Lists : op' = [list |-> list.id, items |-> l, ours |-> FALSE]
          /\ UNCHANGED <<list, created, disturbed>>
    /\ UNCHANGED <<zone, pagination, client>>

-----------------------------------------------------------------------------
Work == \/ StartSync \/ EnsureList \/ CreateList \/ ReadPage \/ PutItems \/ Poll
        \/ PollFails \/ ReadRules \/ WriteRule

Next == Work \/ CallRefused \/ ReplyLost \/ Crash \/ OperationEnds
        \/ Drift \/ DeleteList \/ OtherPod

Spec == Init /\ [][Next]_vars

\* The goroutine runs and keeps being called (ticker), and the wait between
\* polls ends.
FairSpec == Spec /\ WF_vars(Work)

-----------------------------------------------------------------------------
(* Properties. *)

\* Every variable holds a value of its kind; an operation is polled only within
\* its deadline, and what a Sync waits for is pending as long as it looks so.
TypeOK ==
    /\ list \in [id : 0 .. created, kind : {"ip", "hostname"}, items : Lists]
    /\ created \in 1 .. MaxListID
    /\ op \in [list : 0 .. created, items : Lists, ours : BOOLEAN]
    /\ ruleset \in BOOLEAN /\ rules \in [Refs -> {"absent", "other", "block"}]
    /\ pagination \in Paginations
    /\ pc \in {"idle", "list", "create", "items", "put", "wait", "rule"} \cup RuleCalls
    /\ listID \in 0 .. created /\ target \in Lists /\ recreated \in BOOLEAN
    /\ walk \in [cursor : Nat, page : Nat \ {0}, got : SUBSET UNION {ToSet(l) : l \in Lists}]
    /\ awaited \in {"none", "pending", "completed", "failed"} /\ polls \in 0 .. MaxPolls
    /\ (op.ours <=> awaited = "pending") /\ (op.ours => pc = "wait" /\ op.items = target)
    /\ result \in {"none", "ok", "failed"}
    /\ disturbed \subseteq {"list", "rule"} /\ faults \in 0 .. MaxFaults

\* "Only the rule with our ref is ever modified; other rules are preserved", and
\* a list of another kind is never written: no step of the client or of its
\* operation changes them, whatever fails.
OthersPreserved ==
    [][ /\ ruleset /\ "rule" \notin disturbed' => rules'["theirs"] = rules["theirs"]
        /\ list.kind # "ip" /\ "list" \notin disturbed' => list' = list ]_vars

\* A Sync that reports success has left exactly its list and a working rule
\* behind, and they stay until the next Sync, unless the list was written by
\* somebody else, or by an operation an earlier Sync gave up on, or the rule
\* was changed.
SuccessMeansEnforced ==
    result = "ok" /\ disturbed = {} =>
        /\ list.items = target /\ list.id = listID
        /\ ruleset /\ rules["ours"] = "block"

\* "atomically replaces all list items": the items are emptied by nothing but a
\* clear, never on the way from one list to the next.
NoEnforcementGap ==
    [][ list.items # NoCIDRs /\ list'.items = NoCIDRs
          => target = NoCIDRs \/ "list" \in disturbed' ]_vars

\* Sync implements EdgeList: the items only change from one whole list to
\* another, the client has one operation at most ("never issues a second
\* pending operation") and confirms no list before that has completed.
Confirmed ==
    \/ pc \in {"rule"} \cup RuleCalls
    \/ pc = "wait" /\ awaited = "completed"
    \/ pc = "idle" /\ result = "ok"
Edge == INSTANCE EdgeList WITH
            items     <- list.items,
            orphan    <- IF op # NoOp /\ ~op.ours THEN {op.items} ELSE {},
            confirmed <- IF Confirmed THEN {target} ELSE {},
            disturbed <- "list" \in disturbed
RefinesEdgeList == Edge!Spec

\* Every Sync returns, even if its bulk operation never ends, and whatever the
\* pages of the list look like.
SyncReturns == pc # "idle" ~> pc = "idle"

\* Once the faults are over, and if Cloudflare ends its bulk operations before
\* the deadline, the sink heals: Syncs succeed again and again, whatever lost
\* replies, crashes, deletions, the other pod and operations of earlier Syncs
\* left behind.
OutlivesDeadline == pc = "wait" /\ awaited = "pending" /\ pc' = "idle"
Prompt == WF_vars(OperationEnds) /\ <>[][~OutlivesDeadline]_vars
SinkHeals == Prompt => (list.kind = "ip" => []<>(result = "ok"))
=============================================================================
