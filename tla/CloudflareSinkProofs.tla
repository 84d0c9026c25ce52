------------------------ MODULE CloudflareSinkProofs ------------------------
(***************************************************************************)
(* Proofs about CloudflareSink for any lists, paginations and deadlines,   *)
(* and any number of faults of every kind.                                 *)
(***************************************************************************)
EXTENDS CloudflareSink, TLAPS

\* The cached ID names an IP list as long as it names the list at all.
Cached == /\ listID # 0 /\ listID = list.id => list.kind = "ip"
          /\ pc \in {"items", "put"} => listID # 0

\* A pending operation is one on the list as it is, an IP list.
Pending == op # NoOp => op.list # 0 /\ op.list = list.id /\ list.kind = "ip"

\* No list has no items.
Missing == list.id = 0 => list = NoList

\* What ListItems has collected, while nobody else writes: pages of the list,
\* and all of them before the one it asks for next.
ReadSoFar ==
    /\ pc # "items" => walk = NewWalk
    /\ pagination = "pages" => walk.cursor = 0
    /\ pc = "items" /\ "list" \notin disturbed =>
         /\ walk.got \subseteq ToSet(list.items)
         /\ \A i \in DOMAIN list.items : i < Page => list.items[i] \in walk.got

IInv == TypeOK /\ Cached /\ Pending /\ Missing /\ ReadSoFar

-----------------------------------------------------------------------------
(* Types. *)

Pages == UNION {ToSet(l) : l \in Lists}
Walks == [cursor : Nat, page : Nat \ {0}, got : SUBSET Pages]

\* The constants and the values at rest have their types.
LEMMA Starts ==
    /\ NoCIDRs \in Lists /\ MaxFaults \in Nat /\ MaxPolls \in Nat \ {0} /\ MaxListID \in Nat \ {0}
    /\ NewWalk \in Walks
    /\ NoOp.ours = FALSE /\ NoList.items = NoCIDRs /\ NoList.id = 0 /\ NoList.kind = "ip"
  BY SinkAssumption DEF NewWalk, NoOp, NoList, Walks

\* A list is the sequence of its pages.
LEMMA ListType ==
    ASSUME NEW l \in Lists
    PROVE  /\ Len(l) \in Nat /\ DOMAIN l = 1 .. Len(l)
           /\ ToSet(l) \subseteq Pages
           /\ \A i \in 1 .. Len(l) : l[i] \in ToSet(l)
  <1>1. l \in Seq(ToSet(l))
    BY SinkAssumption
  <1>2. Len(l) \in Nat /\ DOMAIN l = 1 .. Len(l)
    BY <1>1
  <1>3. ToSet(l) \subseteq Pages
    BY DEF Pages
  <1>4. \A i \in 1 .. Len(l) : l[i] \in ToSet(l)
    BY <1>2 DEF ToSet
  <1> QED
    BY <1>2, <1>3, <1>4

\* Reading a page keeps the loop variables in their types.
LEMMA ReadType ==
    ASSUME walk \in Walks, list.items \in Lists
    PROVE  /\ Page \in Nat \ {0} /\ Got \in SUBSET Pages
           /\ [walk EXCEPT !.cursor = Page + 1, !.got = Got] \in Walks
           /\ [walk EXCEPT !.page = @ + 1, !.got = Got] \in Walks
  <1>1. Page \in Nat \ {0}
    BY DEF Page, Walks
  <1>2. Got \in SUBSET Pages
    <2>1. Page <= Len(list.items) => list.items[Page] \in Pages
      BY <1>1, ListType
    <2> QED
      BY <2>1 DEF Got, Walks
  <1>3. Page + 1 \in Nat /\ walk.page + 1 \in Nat \ {0} /\ walk.page \in Nat \ {0} /\ walk.cursor \in Nat
    BY <1>1 DEF Walks
  <1>4. ASSUME NEW c \in Nat, NEW g \in SUBSET Pages
        PROVE  [walk EXCEPT !.cursor = c, !.got = g] \in Walks
    BY DEF Walks
  <1>5. ASSUME NEW n \in Nat \ {0}, NEW g \in SUBSET Pages
        PROVE  [walk EXCEPT !.page = n, !.got = g] \in Walks
    BY DEF Walks
  <1> QED
    BY <1>1, <1>2, <1>3, <1>4, <1>5

\* The parts of TypeOK.
CloudType ==
    /\ list \in [id : 0 .. created, kind : {"ip", "hostname"}, items : Lists]
    /\ created \in 1 .. MaxListID
    /\ op \in [list : 0 .. created, items : Lists, ours : BOOLEAN]
RuleType ==
    ruleset \in BOOLEAN /\ rules \in [Refs -> {"absent", "other", "block"}]
Labels == {"idle", "list", "create", "items", "put", "wait", "rule",
           "postRuleset", "patch", "postRule"}
LocalType ==
    /\ pc \in Labels /\ target \in Lists /\ recreated \in BOOLEAN /\ walk \in Walks
    /\ awaited \in {"none", "pending", "completed", "failed"} /\ polls \in 0 .. MaxPolls
    /\ result \in {"none", "ok", "failed"}
IDType == listID \in 0 .. created
RestType ==
    /\ pagination \in Paginations
    /\ disturbed \subseteq {"list", "rule"} /\ faults \in 0 .. MaxFaults
Waiting == (op.ours <=> awaited = "pending") /\ (op.ours => pc = "wait" /\ op.items = target)

Types == CloudType /\ RuleType /\ LocalType /\ IDType /\ RestType /\ Waiting

\* Together they are TypeOK.
LEMMA Parts == TypeOK <=> Types
  <1>1. {"idle", "list", "create", "items", "put", "wait", "rule"} \cup RuleCalls = Labels
    BY DEF RuleCalls, Labels
  <1> QED
    BY <1>1 DEF TypeOK, Types, CloudType, RuleType, LocalType, IDType, RestType, Waiting, Walks, Pages

\* Everything has its type at the start.
LEMMA InitType == Init => TypeOK
  <1> SUFFICES ASSUME Init PROVE Types
    BY Parts
  <1>1. CloudType
    BY Starts DEF Init, CloudType, NoList, NoOp
  <1>2. RuleType
    BY DEF Init, RuleType, Refs
  <1>3. LocalType
    <2>1. walk \in Walks /\ target \in Lists /\ polls \in 0 .. MaxPolls
      BY Starts DEF Init
    <2> QED
      BY <2>1 DEF Init, LocalType, Labels
  <1>4. IDType /\ RestType
    BY Starts DEF Init, IDType, RestType
  <1>5. Waiting
    BY Starts DEF Init, Waiting
  <1> QED
    BY <1>1, <1>2, <1>3, <1>4, <1>5 DEF Types

\* The list after its creation, by whomever.
LEMMA NewListIs ==
    ASSUME NewList
    PROVE  /\ list.id = 0 /\ created < MaxListID /\ created' = created + 1
           /\ list' = [id |-> created + 1, kind |-> "ip", items |-> NoCIDRs]
  BY DEF NewList, NoList

\* An operation nobody waits for any more is the same operation.
LEMMA AbandonIs ==
    ASSUME CloudType, Abandon
    PROVE  op' = [list |-> op.list, items |-> op.items, ours |-> FALSE]
  BY DEF CloudType, Abandon

\* The next call keeps the client's types.
LEMMA GotoType == ASSUME LocalType, NEW label \in Labels, Goto(label) PROVE LocalType' /\ listID' = listID
  BY DEF Goto, LocalType, locals

\* A Sync that returns keeps them.
LEMMA ReturnType ==
    ASSUME LocalType, NEW r \in {"ok", "failed"}, Return(r)
    PROVE  LocalType' /\ listID' = listID
  <1>1. /\ pc' = "idle" /\ result' = r /\ recreated' = FALSE /\ walk' = NewWalk /\ polls' = 0
        /\ awaited' = "none" /\ listID' = listID /\ target' = target
    BY DEF Return
  <1>2. polls' \in 0 .. MaxPolls /\ walk' \in Walks /\ pc' \in Labels
    BY <1>1, Starts DEF Labels
  <1> QED
    BY <1>1, <1>2 DEF LocalType

\* A list that is not found keeps them.
LEMMA NotFoundType == ASSUME LocalType, NotFound PROVE LocalType' /\ listID' \in {0, listID}
  <1>1. CASE Return("failed")
    BY <1>1, ReturnType
  <1>2. CASE /\ pc' = "list" /\ listID' = 0 /\ recreated' = TRUE
             /\ walk' = NewWalk /\ polls' = 0 /\ awaited' = "none"
             /\ UNCHANGED <<target, result>>
    BY <1>2, Starts DEF LocalType, Labels
  <1> QED
    BY <1>1, <1>2 DEF NotFound

\* Cloudflare's list and operation keep their types.
LEMMA NextCloud == TypeOK /\ [Next]_vars => CloudType'
  <1> SUFFICES ASSUME CloudType, target \in Lists, IDType, [Next]_vars PROVE CloudType'
    BY Parts DEF Types, LocalType
  <1> USE Starts DEF CloudType, IDType
  <1>1. CASE StartSync
    BY <1>1 DEF StartSync
  <1>2. CASE EnsureList
    BY <1>2 DEF EnsureList, Goto, Return
  <1>3. CASE CreateList
    <2>1. CASE NewList
      BY <2>1, <1>3, NewListIs DEF CreateList
    <2> QED
      BY <2>1, <1>3 DEF CreateList
  <1>4. CASE ReadPage
    BY <1>4 DEF ReadPage, NotFound, NextPage, Return
  <1>5. CASE PutItems
    <2>1. op' \in [list : 0 .. created, items : Lists, ours : BOOLEAN]
      <3>1. CASE Accepted
        BY <3>1 DEF Accepted
      <3> QED
        BY <1>5, <3>1 DEF PutItems
    <2>2. list' \in [id : 0 .. created, kind : {"ip", "hostname"}, items : Lists]
      BY <1>5 DEF PutItems
    <2> QED
      BY <1>5, <2>1, <2>2 DEF PutItems
  <1>6. CASE Poll
    BY <1>6 DEF Poll, Goto, Return, PollAgain, Abandon
  <1>7. CASE PollFails
    BY <1>7 DEF PollFails, Return, NotFound, Abandon, Fault
  <1>8. CASE ReadRules
    BY <1>8 DEF ReadRules, Goto, Return
  <1>9. CASE WriteRule
    BY <1>9 DEF WriteRule, RuleWritten, Return, RuleCalls
  <1>10. CASE CallRefused
    BY <1>10 DEF CallRefused, Return, Fault
  <1>11. CASE ReplyLost
    <2>1. CASE NewList /\ UNCHANGED op
      BY <2>1, NewListIs
    <2>2. CASE op' = [list |-> listID, items |-> target, ours |-> FALSE] /\ UNCHANGED <<list, created>>
      BY <2>2
    <2>3. CASE UNCHANGED <<list, created, op>>
      BY <2>3
    <2> QED
      BY <2>1, <2>2, <2>3, <1>11 DEF ReplyLost
  <1>12. CASE Crash
    BY <1>12 DEF Crash, Abandon, Fault
  <1>13. CASE OperationEnds
    BY <1>13 DEF OperationEnds, Fault, NoOp
  <1>14. CASE Drift
    BY <1>14 DEF Drift, Fault
  <1>15. CASE DeleteList
    BY <1>15 DEF DeleteList, Fault, NoOp, NoList
  <1>16. CASE OtherPod
    <2>1. CASE NewList /\ UNCHANGED op
      BY <2>1, NewListIs
    <2>2. CASE UNCHANGED <<list, created>> /\ \E l \in Lists : op' = [list |-> list.id, items |-> l, ours |-> FALSE]
      BY <2>2
    <2> QED
      BY <2>1, <2>2, <1>16 DEF OtherPod
  <1>17. CASE UNCHANGED vars
    BY <1>17 DEF vars, client, locals
  <1> QED
    BY <1>1, <1>2, <1>3, <1>4, <1>5, <1>6, <1>7, <1>8, <1>9, <1>10,
       <1>11, <1>12, <1>13, <1>14, <1>15, <1>16, <1>17 DEF Next, Work

\* The rules keep their types.
LEMMA NextRule == TypeOK /\ [Next]_vars => RuleType'
  <1> SUFFICES ASSUME RuleType, [Next]_vars PROVE RuleType'
    BY Parts DEF Types
  <1> USE DEF RuleType, Refs, zone
  <1>1. CASE StartSync
    BY <1>1 DEF StartSync
  <1>2. CASE EnsureList
    BY <1>2 DEF EnsureList, Goto, Return
  <1>3. CASE CreateList
    BY <1>3 DEF CreateList, NewList, Return
  <1>4. CASE ReadPage
    BY <1>4 DEF ReadPage, NotFound, NextPage, Return
  <1>5. CASE PutItems
    BY <1>5 DEF PutItems, NotFound, Return, Accepted, Goto
  <1>6. CASE Poll
    BY <1>6 DEF Poll, Goto, Return, PollAgain, Abandon
  <1>7. CASE PollFails
    BY <1>7 DEF PollFails, Return, NotFound, Abandon, Fault
  <1>8. CASE ReadRules
    BY <1>8 DEF ReadRules, Goto, Return
  <1>9. CASE WriteRule
    BY <1>9 DEF WriteRule, RuleWritten, Return, RuleCalls
  <1>10. CASE CallRefused
    BY <1>10 DEF CallRefused, Return, Fault
  <1>11. CASE ReplyLost
    BY <1>11 DEF ReplyLost, Return, Fault, NewList, RuleCalls, RuleWritten
  <1>12. CASE Crash
    BY <1>12 DEF Crash, Abandon, Fault
  <1>13. CASE OperationEnds
    BY <1>13 DEF OperationEnds, Fault
  <1>14. CASE Drift
    BY <1>14 DEF Drift, Fault
  <1>15. CASE DeleteList
    BY <1>15 DEF DeleteList, Fault
  <1>16. CASE OtherPod
    BY <1>16 DEF OtherPod, Fault, NewList
  <1>17. CASE UNCHANGED vars
    BY <1>17 DEF vars
  <1> QED
    BY <1>1, <1>2, <1>3, <1>4, <1>5, <1>6, <1>7, <1>8, <1>9, <1>10,
       <1>11, <1>12, <1>13, <1>14, <1>15, <1>16, <1>17 DEF Next, Work

\* The client's variables keep their types.
LEMMA NextLocal == TypeOK /\ [Next]_vars => LocalType'
  <1> SUFFICES ASSUME CloudType, LocalType, [Next]_vars PROVE LocalType'
    BY Parts DEF Types
  <1>facts. \A label \in Labels : Goto(label) => LocalType'
    BY GotoType
  <1>back. (\A r \in {"ok", "failed"} : Return(r) => LocalType') /\ (NotFound => LocalType')
    BY ReturnType, NotFoundType
  <1> USE <1>facts, <1>back DEF Labels
  <1>1. CASE StartSync
    BY <1>1 DEF StartSync, LocalType
  <1>2. CASE EnsureList
    <2>1. CASE pc' = "items" /\ UNCHANGED <<locals, awaited, result>>
      BY <2>1 DEF LocalType, locals
    <2> QED
      BY <2>1, <1>2 DEF EnsureList
  <1>3. CASE CreateList
    <2>1. CASE pc' = "items" /\ UNCHANGED <<locals, awaited, result>>
      BY <2>1 DEF LocalType, locals
    <2> QED
      BY <2>1, <1>3 DEF CreateList
  <1>4. CASE ReadPage
    <2>1. CASE \E w \in Walks : NextPage(w)
      BY <2>1 DEF NextPage, LocalType
    <2>2. CASE /\ walk' = NewWalk /\ pc' \in {"rule", "put"}
               /\ UNCHANGED <<listID, target, recreated, polls, awaited, result>>
      BY <2>2, Starts DEF LocalType
    <2>3. /\ [walk EXCEPT !.cursor = Page + 1, !.got = Got] \in Walks
          /\ [walk EXCEPT !.page = @ + 1, !.got = Got] \in Walks
      BY ReadType DEF LocalType, CloudType
    <2> QED
      BY <2>1, <2>2, <2>3, <1>4 DEF ReadPage
  <1>5. CASE PutItems
    <2>1. CASE pc' = "wait" /\ awaited' = "pending" /\ UNCHANGED <<listID, locals, result>>
      BY <2>1 DEF LocalType, locals
    <2> QED
      BY <2>1, <1>5 DEF PutItems
  <1>6. CASE Poll
    <2>1. CASE polls < MaxPolls /\ PollAgain
      BY <2>1, Starts DEF PollAgain, LocalType
    <2> QED
      BY <2>1, <1>6 DEF Poll
  <1>7. CASE PollFails
    BY <1>7 DEF PollFails
  <1>8. CASE ReadRules
    BY <1>8 DEF ReadRules
  <1>9. CASE WriteRule
    BY <1>9 DEF WriteRule
  <1>10. CASE CallRefused
    BY <1>10 DEF CallRefused
  <1>11. CASE ReplyLost
    BY <1>11 DEF ReplyLost
  <1>12. CASE Crash
    <2>1. /\ pc' = "idle" /\ result' = "none" /\ recreated' = FALSE /\ walk' = NewWalk /\ polls' = 0
          /\ awaited' = "none" /\ target' = NoCIDRs
      BY <1>12 DEF Crash
    <2>2. polls' \in 0 .. MaxPolls /\ walk' \in Walks /\ pc' \in Labels /\ target' \in Lists
      BY <2>1, Starts
    <2> QED
      BY <2>1, <2>2 DEF LocalType
  <1>13. CASE OperationEnds
    BY <1>13 DEF OperationEnds, LocalType, locals
  <1>14. CASE Drift
    BY <1>14 DEF Drift, LocalType, client, locals
  <1>15. CASE DeleteList
    BY <1>15 DEF DeleteList, LocalType, locals
  <1>16. CASE OtherPod
    BY <1>16 DEF OtherPod, LocalType, client, locals
  <1>17. CASE UNCHANGED vars
    BY <1>17 DEF vars, LocalType, client, locals
  <1> QED
    BY <1>1, <1>2, <1>3, <1>4, <1>5, <1>6, <1>7, <1>8, <1>9, <1>10,
       <1>11, <1>12, <1>13, <1>14, <1>15, <1>16, <1>17 DEF Next, Work

\* The cached ID was handed out.
LEMMA NextID == TypeOK /\ [Next]_vars => IDType'
  <1> SUFFICES ASSUME CloudType, IDType, LocalType, [Next]_vars PROVE IDType'
    BY Parts DEF Types
  <1>facts. (NotFound => listID' \in {0, listID}) /\ created \in Nat
    BY NotFoundType, Starts DEF CloudType
  <1> USE <1>facts, Starts DEF CloudType, IDType, client
  <1>1. CASE StartSync
    BY <1>1 DEF StartSync
  <1>2. CASE EnsureList
    BY <1>2 DEF EnsureList, Goto, Return
  <1>3. CASE CreateList
    BY <1>3 DEF CreateList, NewList, Return
  <1>4. CASE ReadPage
    BY <1>4 DEF ReadPage, NextPage
  <1>5. CASE PutItems
    BY <1>5 DEF PutItems, Return, Goto
  <1>6. CASE Poll
    BY <1>6 DEF Poll, Goto, Return, PollAgain, Abandon
  <1>7. CASE PollFails
    BY <1>7 DEF PollFails, Return
  <1>8. CASE ReadRules
    BY <1>8 DEF ReadRules, Goto, Return
  <1>9. CASE WriteRule
    BY <1>9 DEF WriteRule, RuleWritten, Return, RuleCalls
  <1>10. CASE CallRefused
    BY <1>10 DEF CallRefused, Return, Fault
  <1>11. CASE ReplyLost
    BY <1>11 DEF ReplyLost, Return, Fault, NewList, RuleCalls, RuleWritten
  <1>12. CASE Crash
    BY <1>12 DEF Crash, Abandon, Fault
  <1>13. CASE OperationEnds
    BY <1>13 DEF OperationEnds, Fault
  <1>14. CASE Drift
    BY <1>14 DEF Drift, Fault
  <1>15. CASE DeleteList
    BY <1>15 DEF DeleteList, Fault
  <1>16. CASE OtherPod
    BY <1>16 DEF OtherPod, Fault, NewList
  <1>17. CASE UNCHANGED vars
    BY <1>17 DEF vars
  <1> QED
    BY <1>1, <1>2, <1>3, <1>4, <1>5, <1>6, <1>7, <1>8, <1>9, <1>10,
       <1>11, <1>12, <1>13, <1>14, <1>15, <1>16, <1>17 DEF Next, Work

\* The history and the faults have their types.
LEMMA NextRest == TypeOK /\ [Next]_vars => RestType'
  <1> SUFFICES ASSUME RestType, [Next]_vars PROVE RestType'
    BY Parts DEF Types
  <1> USE Starts DEF RestType
  <1>1. CASE StartSync
    BY <1>1 DEF StartSync
  <1>2. CASE EnsureList
    BY <1>2 DEF EnsureList
  <1>3. CASE CreateList
    BY <1>3 DEF CreateList
  <1>4. CASE ReadPage
    BY <1>4 DEF ReadPage
  <1>5. CASE PutItems
    BY <1>5 DEF PutItems
  <1>6. CASE Poll
    BY <1>6 DEF Poll
  <1>7. CASE PollFails
    BY <1>7 DEF PollFails, Return, NotFound, Abandon, Fault
  <1>8. CASE ReadRules
    BY <1>8 DEF ReadRules
  <1>9. CASE WriteRule
    BY <1>9 DEF WriteRule
  <1>10. CASE CallRefused
    BY <1>10 DEF CallRefused, Return, Fault
  <1>11. CASE ReplyLost
    BY <1>11 DEF ReplyLost, Return, Fault, NewList, RuleCalls, RuleWritten
  <1>12. CASE Crash
    BY <1>12 DEF Crash, Abandon, Fault
  <1>13. CASE OperationEnds
    BY <1>13 DEF OperationEnds, Fault
  <1>14. CASE Drift
    BY <1>14 DEF Drift, Fault
  <1>15. CASE DeleteList
    BY <1>15 DEF DeleteList, Fault
  <1>16. CASE OtherPod
    BY <1>16 DEF OtherPod, Fault, NewList
  <1>17. CASE UNCHANGED vars
    BY <1>17 DEF vars
  <1> QED
    BY <1>1, <1>2, <1>3, <1>4, <1>5, <1>6, <1>7, <1>8, <1>9, <1>10,
       <1>11, <1>12, <1>13, <1>14, <1>15, <1>16, <1>17 DEF Next, Work

\* What the client waits for is its operation.
LEMMA NextWaiting == TypeOK /\ [Next]_vars => Waiting'
  <1> SUFFICES ASSUME CloudType, Waiting, [Next]_vars PROVE Waiting'
    BY Parts DEF Types
  <1>facts. Abandon => op'.ours = FALSE
    BY AbandonIs
  <1> USE Starts, <1>facts DEF Waiting, client, locals
  <1>1. CASE StartSync
    BY <1>1 DEF StartSync
  <1>2. CASE EnsureList
    BY <1>2 DEF EnsureList, Goto, Return
  <1>3. CASE CreateList
    BY <1>3 DEF CreateList, NewList, Return
  <1>4. CASE ReadPage
    BY <1>4 DEF ReadPage, NotFound, NextPage, Return
  <1>5. CASE PutItems
    BY <1>5 DEF PutItems, NotFound, Return, Accepted, Goto
  <1>6. CASE Poll
    <2>1. CASE awaited = "pending" /\ Return("failed") /\ Abandon
      BY <2>1 DEF Return
    <2> QED
      BY <1>6, <2>1 DEF Poll, Goto, Return, PollAgain
  <1>7. CASE PollFails
    BY <1>7 DEF PollFails, Return, NotFound
  <1>8. CASE ReadRules
    BY <1>8 DEF ReadRules, Goto, Return
  <1>9. CASE WriteRule
    BY <1>9 DEF WriteRule, RuleWritten, Return, RuleCalls
  <1>10. CASE CallRefused
    BY <1>10 DEF CallRefused, Return, Fault
  <1>11. CASE ReplyLost
    BY <1>11 DEF ReplyLost, Return, Fault, NewList, RuleCalls, RuleWritten
  <1>12. CASE Crash
    BY <1>12 DEF Crash
  <1>13. CASE OperationEnds
    BY <1>13 DEF OperationEnds, Fault
  <1>14. CASE Drift
    BY <1>14 DEF Drift, Fault
  <1>15. CASE DeleteList
    BY <1>15 DEF DeleteList, Fault
  <1>16. CASE OtherPod
    BY <1>16 DEF OtherPod, Fault, NewList
  <1>17. CASE UNCHANGED vars
    BY <1>17 DEF vars
  <1> QED
    BY <1>1, <1>2, <1>3, <1>4, <1>5, <1>6, <1>7, <1>8, <1>9, <1>10,
       <1>11, <1>12, <1>13, <1>14, <1>15, <1>16, <1>17 DEF Next, Work

\* Types are preserved.
LEMMA NextType == TypeOK /\ [Next]_vars => TypeOK'
  <1>1. (TypeOK <=> Types)'
    <2>1. {"idle", "list", "create", "items", "put", "wait", "rule"} \cup RuleCalls = Labels
      BY DEF RuleCalls, Labels
    <2> QED
      BY <2>1 DEF TypeOK, Types, CloudType, RuleType, LocalType, IDType, RestType, Waiting, Walks, Pages
  <1> QED
    BY <1>1, NextCloud, NextRule, NextLocal, NextID, NextRest, NextWaiting DEF Types
-----------------------------------------------------------------------------
(* The invariant. *)

\* No more than the list of our name has an ID, an operation or pages read.
LEMMA InitParts == Init => Cached /\ Pending /\ Missing /\ ReadSoFar
  BY Starts DEF Init, Cached, Pending, Missing, ReadSoFar, NoOp, NoList, NewWalk

\* A new list is an IP list, and its ID is one that no client has cached.
LEMMA NextCached == IInv /\ [Next]_vars => Cached'
  <1> SUFFICES ASSUME CloudType, IDType, Cached, Pending, Missing, Waiting, [Next]_vars PROVE Cached'
    BY Parts DEF IInv, Types
  <1>facts. NewList => list'.id = created + 1 /\ list'.kind = "ip"
    BY NewListIs
  <1> USE Starts, <1>facts DEF CloudType, IDType, Cached, client, locals
  <1>1. CASE StartSync
    BY <1>1 DEF StartSync
  <1>2. CASE EnsureList
    BY <1>2 DEF EnsureList, Goto, Return
  <1>3. CASE CreateList
    BY <1>3 DEF CreateList, Return
  <1>4. CASE ReadPage
    BY <1>4 DEF ReadPage, NotFound, NextPage, Return
  <1>5. CASE PutItems
    BY <1>5 DEF PutItems, NotFound, Return, Goto
  <1>6. CASE Poll
    BY <1>6 DEF Poll, Goto, Return, PollAgain, Abandon
  <1>7. CASE PollFails
    BY <1>7 DEF PollFails, Return, NotFound
  <1>8. CASE ReadRules
    BY <1>8 DEF ReadRules, Goto, Return
  <1>9. CASE WriteRule
    BY <1>9 DEF WriteRule, RuleWritten, Return, RuleCalls
  <1>10. CASE CallRefused
    BY <1>10 DEF CallRefused, Return, Fault
  <1>11. CASE ReplyLost
    <2>1. pc' = "idle" /\ listID' = listID
      BY <1>11 DEF ReplyLost, Return
    <2>2. CASE NewList
      BY <2>1, <2>2
    <2>3. CASE UNCHANGED list
      BY <2>1, <2>3
    <2> QED
      BY <1>11, <2>2, <2>3 DEF ReplyLost
  <1>12. CASE Crash
    BY <1>12 DEF Crash, Abandon, Fault
  <1>13. CASE OperationEnds
    BY <1>13 DEF OperationEnds
  <1>14. CASE Drift
    BY <1>14 DEF Drift, Fault
  <1>15. CASE DeleteList
    BY <1>15 DEF DeleteList, Fault
  <1>16. CASE OtherPod
    <2>1. UNCHANGED client
      BY <1>16 DEF OtherPod
    <2>2. CASE NewList
      BY <2>1, <2>2
    <2>3. CASE UNCHANGED list
      BY <2>1, <2>3
    <2> QED
      BY <1>16, <2>2, <2>3 DEF OtherPod
  <1>17. CASE UNCHANGED vars
    BY <1>17 DEF vars
  <1> QED
    BY <1>1, <1>2, <1>3, <1>4, <1>5, <1>6, <1>7, <1>8, <1>9, <1>10,
       <1>11, <1>12, <1>13, <1>14, <1>15, <1>16, <1>17 DEF Next, Work

\* An operation is started on the list as it is, and goes when the list goes.
LEMMA NextPending == IInv /\ [Next]_vars => Pending'
  <1> SUFFICES ASSUME CloudType, IDType, Cached, Pending, Missing, [Next]_vars PROVE Pending'
    BY Parts DEF IInv, Types
  <1>facts. /\ NewList => list.id = 0 /\ list.kind = "ip" /\ op = NoOp
            /\ Abandon => op' = [list |-> op.list, items |-> op.items, ours |-> FALSE]
    BY NewListIs, AbandonIs, Starts DEF Pending, Missing
  <1>back. Abandon /\ op = NoOp => op' = NoOp
    BY <1>facts DEF NoOp
  <1> USE Starts, <1>facts, <1>back DEF CloudType, Cached, Pending, Found, client
  <1>1. CASE StartSync
    BY <1>1 DEF StartSync
  <1>2. CASE EnsureList
    BY <1>2 DEF EnsureList, Goto, Return
  <1>3. CASE CreateList
    BY <1>3 DEF CreateList
  <1>4. CASE ReadPage
    BY <1>4 DEF ReadPage, NotFound, NextPage, Return
  <1>5. CASE PutItems
    <2>1. CASE UNCHANGED <<list, op>>
      BY <2>1
    <2>2. CASE pc = "put" /\ Found /\ Accepted /\ UNCHANGED list
      BY <2>2 DEF Accepted
    <2>3. CASE op = NoOp /\ UNCHANGED op
      BY <2>3
    <2> QED
      BY <1>5, <2>1, <2>2, <2>3 DEF PutItems
  <1>6. CASE Poll
    BY <1>6 DEF Poll, PollAgain
  <1>7. CASE PollFails
    BY <1>7 DEF PollFails
  <1>8. CASE ReadRules
    BY <1>8 DEF ReadRules, Goto, Return
  <1>9. CASE WriteRule
    BY <1>9 DEF WriteRule, RuleWritten, Return, RuleCalls
  <1>10. CASE CallRefused
    BY <1>10 DEF CallRefused, Return, Fault
  <1>11. CASE ReplyLost
    <2>1. CASE NewList /\ UNCHANGED op
      BY <2>1
    <2>2. CASE UNCHANGED <<list, op>>
      BY <2>2
    <2>3. CASE /\ pc = "put" /\ Found /\ op' = [list |-> listID, items |-> target, ours |-> FALSE]
               /\ UNCHANGED list
      BY <2>3
    <2> QED
      BY <1>11, <2>1, <2>2, <2>3 DEF ReplyLost
  <1>12. CASE Crash
    BY <1>12 DEF Crash
  <1>13. CASE OperationEnds
    BY <1>13 DEF OperationEnds, Fault
  <1>14. CASE Drift
    BY <1>14 DEF Drift, Fault
  <1>15. CASE DeleteList
    BY <1>15 DEF DeleteList, Fault
  <1>16. CASE OtherPod
    <2>1. CASE NewList /\ UNCHANGED op
      BY <2>1
    <2>2. CASE /\ UNCHANGED list /\ list.id # 0 /\ list.kind = "ip"
               /\ \E l \in Lists : op' = [list |-> list.id, items |-> l, ours |-> FALSE]
      BY <2>2
    <2> QED
      BY <1>16, <2>1, <2>2 DEF OtherPod
  <1>17. CASE UNCHANGED vars
    BY <1>17 DEF vars
  <1> QED
    BY <1>1, <1>2, <1>3, <1>4, <1>5, <1>6, <1>7, <1>8, <1>9, <1>10,
       <1>11, <1>12, <1>13, <1>14, <1>15, <1>16, <1>17 DEF Next, Work

\* A list is created empty and gets items while it is there.
LEMMA NextMissing == IInv /\ [Next]_vars => Missing'
  <1> SUFFICES ASSUME CloudType, IDType, Cached, Pending, Missing, [Next]_vars PROVE Missing'
    BY Parts DEF IInv, Types
  <1>facts. NewList => list'.id # 0
    BY NewListIs, Starts DEF CloudType
  <1> USE Starts, <1>facts DEF CloudType, Cached, Pending, Missing, Found, client
  <1>1. CASE StartSync
    BY <1>1 DEF StartSync
  <1>2. CASE EnsureList
    BY <1>2 DEF EnsureList, Goto, Return
  <1>3. CASE CreateList
    BY <1>3 DEF CreateList
  <1>4. CASE ReadPage
    BY <1>4 DEF ReadPage, NotFound, NextPage, Return
  <1>5. CASE PutItems
    BY <1>5 DEF PutItems
  <1>6. CASE Poll
    BY <1>6 DEF Poll, Goto, Return, PollAgain, Abandon
  <1>7. CASE PollFails
    BY <1>7 DEF PollFails, Return, NotFound, Abandon, Fault
  <1>8. CASE ReadRules
    BY <1>8 DEF ReadRules, Goto, Return
  <1>9. CASE WriteRule
    BY <1>9 DEF WriteRule, RuleWritten, Return, RuleCalls
  <1>10. CASE CallRefused
    BY <1>10 DEF CallRefused, Return, Fault
  <1>11. CASE ReplyLost
    BY <1>11 DEF ReplyLost
  <1>12. CASE Crash
    BY <1>12 DEF Crash, Abandon, Fault
  <1>13. CASE OperationEnds
    BY <1>13 DEF OperationEnds, Fault
  <1>14. CASE Drift
    BY <1>14 DEF Drift, Fault
  <1>15. CASE DeleteList
    BY <1>15 DEF DeleteList, Fault
  <1>16. CASE OtherPod
    BY <1>16 DEF OtherPod
  <1>17. CASE UNCHANGED vars
    BY <1>17 DEF vars
  <1> QED
    BY <1>1, <1>2, <1>3, <1>4, <1>5, <1>6, <1>7, <1>8, <1>9, <1>10,
       <1>11, <1>12, <1>13, <1>14, <1>15, <1>16, <1>17 DEF Next, Work

\* The page just read is added to what ListItems has.
LEMMA GotSoFar ==
    ASSUME CloudType, LocalType, ReadSoFar, pc = "items", "list" \notin disturbed
    PROVE  /\ Page \in Nat \ {0} /\ Got \subseteq ToSet(list.items)
           /\ \A i \in DOMAIN list.items : i <= Page => list.items[i] \in Got
  <1>1. list.items \in Lists /\ Page \in Nat \ {0}
    BY ReadType DEF CloudType, LocalType
  <1>2. /\ Len(list.items) \in Nat /\ DOMAIN list.items = 1 .. Len(list.items)
        /\ \A i \in 1 .. Len(list.items) : list.items[i] \in ToSet(list.items)
    BY <1>1, ListType
  <1>3. /\ walk.got \subseteq ToSet(list.items)
        /\ \A i \in DOMAIN list.items : i < Page => list.items[i] \in walk.got
    BY DEF ReadSoFar
  <1>4. Got \subseteq ToSet(list.items)
    BY <1>1, <1>2, <1>3 DEF Got
  <1>5. ASSUME NEW i \in DOMAIN list.items, i <= Page PROVE list.items[i] \in Got
    <2>1. CASE i = Page
      BY <1>2, <2>1 DEF Got
    <2>2. CASE i < Page
      BY <1>3, <2>2 DEF Got
    <2> QED
      BY <1>1, <1>2, <1>5, <2>1, <2>2
  <1> QED
    BY <1>1, <1>4, <1>5

\* The two ways to ask for another page.
LEMMA NextWalk ==
    ASSUME LocalType, NEW w
    PROVE  /\ w = [walk EXCEPT !.cursor = Page + 1, !.got = Got]
                => w.cursor = Page + 1 /\ w.page = walk.page /\ w.got = Got
           /\ w = [walk EXCEPT !.page = @ + 1, !.got = Got]
                => w.cursor = walk.cursor /\ w.page = walk.page + 1 /\ w.got = Got
  <1>1. walk \in [cursor : Nat, page : Nat \ {0}, got : SUBSET Pages]
    BY DEF LocalType, Walks
  <1> QED
    BY <1>1

\* As long as nobody disturbs it, a walk has every page before its next one.
LEMMA NextRead == IInv /\ [Next]_vars => ReadSoFar'
  <1> SUFFICES ASSUME CloudType, CloudType', LocalType, LocalType', Waiting, Missing, ReadSoFar, [Next]_vars
               PROVE  ReadSoFar'
    <2> QED
      BY NextCloud, NextLocal, Parts DEF IInv, Types
  <1> DEFINE Same == /\ UNCHANGED <<pc, walk, pagination>>
                     /\ \/ "list" \in disturbed'
                        \/ list'.items = list.items /\ "list" \notin disturbed
  <1>fresh. ASSUME walk' = NewWalk, UNCHANGED pagination PROVE ReadSoFar'
    <2>1. NewWalk.got = {} /\ NewWalk.cursor = 0 /\ NewWalk.page = 1
      BY DEF NewWalk
    <2>2. Page' = 1
      BY <1>fresh, <2>1 DEF Page
    <2>3. DOMAIN list'.items = 1 .. Len(list'.items) /\ Len(list'.items) \in Nat
      BY ListType DEF CloudType
    <2> QED
      BY <1>fresh, <2>1, <2>2, <2>3 DEF ReadSoFar
  <1>same. ASSUME Same PROVE ReadSoFar'
    <2>1. Page' = Page
      BY <1>same DEF Page
    <2> QED
      BY <1>same, <2>1 DEF ReadSoFar
  <1>elsewhere. ASSUME pc # "items", UNCHANGED <<walk, pagination>> PROVE ReadSoFar'
    BY <1>fresh, <1>elsewhere DEF ReadSoFar
  <1> HIDE DEF Same
  <1>1. CASE StartSync
    BY <1>1, <1>elsewhere DEF StartSync
  <1>2. CASE EnsureList
    BY <1>2, <1>fresh, <1>elsewhere DEF EnsureList, Goto, Return, locals
  <1>3. CASE CreateList
    BY <1>3, <1>fresh, <1>elsewhere DEF CreateList, Return, locals
  <1>4. CASE ReadPage
    <2>1. pc = "items" /\ UNCHANGED <<list, pagination, disturbed>>
      BY <1>4 DEF ReadPage
    <2>2. CASE NotFound \/ walk' = NewWalk
      BY <2>1, <2>2, <1>fresh DEF NotFound, Return
    <2>3. ASSUME pc' = pc, Page' <= Page + 1, walk'.got = Got, pagination = "pages" => walk'.cursor = 0
          PROVE  ReadSoFar'
      <3>1. CASE "list" \in disturbed
        BY <2>1, <2>3, <3>1 DEF ReadSoFar
      <3>2. CASE "list" \notin disturbed
        <4>1. /\ Page \in Nat \ {0} /\ Got \subseteq ToSet(list.items)
              /\ \A i \in DOMAIN list.items : i <= Page => list.items[i] \in Got
          BY <2>1, <3>2, GotSoFar
        <4>2. DOMAIN list.items = 1 .. Len(list.items) /\ Len(list.items) \in Nat
          BY ListType DEF CloudType
        <4>3. Page' \in Nat
          BY DEF LocalType, Walks, Page
        <4>4. \A i \in DOMAIN list.items : i < Page' => i <= Page
          BY <2>3, <4>1, <4>2, <4>3
        <4> QED
          BY <2>1, <2>3, <4>1, <4>4 DEF ReadSoFar
      <3> QED
        BY <3>1, <3>2
    <2>4. Page \in Nat /\ walk.cursor \in Nat /\ walk.page \in Nat
      BY ReadType DEF CloudType, LocalType, Walks
    <2>5. CASE HasCursor /\ NextPage([walk EXCEPT !.cursor = Page + 1, !.got = Got])
      <3>1. walk'.cursor = Page + 1 /\ walk'.page = walk.page /\ walk'.got = Got /\ pc' = pc
        BY <2>5, NextWalk DEF NextPage
      <3>2. Page' = Page + 1
        BY <2>4, <3>1 DEF Page
      <3> QED
        BY <2>3, <2>4, <2>5, <3>1, <3>2 DEF HasCursor
    <2>6. CASE NextPage([walk EXCEPT !.page = @ + 1, !.got = Got])
      <3>1. walk'.cursor = walk.cursor /\ walk'.page = walk.page + 1 /\ walk'.got = Got /\ pc' = pc
        BY <2>6, NextWalk DEF NextPage
      <3>2. Page' <= Page + 1
        BY <2>4, <3>1 DEF Page
      <3> QED
        BY <2>3, <3>1, <3>2 DEF ReadSoFar
    <2> QED
      BY <2>2, <2>5, <2>6, <1>4 DEF ReadPage
  <1>5. CASE PutItems
    BY <1>5, <1>fresh, <1>elsewhere DEF PutItems, NotFound, Return, Goto, locals
  <1>6. CASE Poll
    BY <1>6, <1>fresh, <1>elsewhere DEF Poll, PollAgain, Return, Goto, locals
  <1>7. CASE PollFails
    BY <1>7, <1>fresh DEF PollFails, NotFound, Return
  <1>8. CASE ReadRules
    BY <1>8, <1>fresh, <1>elsewhere DEF ReadRules, Return, Goto, locals
  <1>9. CASE WriteRule
    BY <1>9, <1>fresh DEF WriteRule, Return
  <1>10. CASE CallRefused
    BY <1>10, <1>fresh DEF CallRefused, Return
  <1>11. CASE ReplyLost
    BY <1>11, <1>fresh DEF ReplyLost, Return
  <1>12. CASE Crash
    BY <1>12, <1>fresh DEF Crash
  <1>13. CASE OperationEnds
    <2>1. UNCHANGED <<pc, walk, pagination>>
      BY <1>13 DEF OperationEnds, locals
    <2>2. pc # "items" \/ UNCHANGED <<list, disturbed>> \/ "list" \in disturbed'
      BY <1>13 DEF OperationEnds, Waiting
    <2> QED
      BY <2>1, <2>2, <1>same, <1>elsewhere DEF Same
  <1>14. CASE Drift
    BY <1>14, <1>same DEF Drift, client, locals, Same
  <1>15. CASE DeleteList
    BY <1>15, <1>same DEF DeleteList, locals, Same
  <1>16. CASE OtherPod
    BY <1>16, <1>same DEF OtherPod, client, locals, Same
  <1>17. CASE UNCHANGED vars
    BY <1>17, <1>same DEF vars, client, locals, Same
  <1> QED
    BY <1>1, <1>2, <1>3, <1>4, <1>5, <1>6, <1>7, <1>8, <1>9, <1>10,
       <1>11, <1>12, <1>13, <1>14, <1>15, <1>16, <1>17 DEF Next, Work

\* The invariant holds throughout.
LEMMA Inductive == Spec => []IInv
  <1>1. Init => IInv
    BY InitType, InitParts DEF IInv
  <1>2. IInv /\ [Next]_vars => IInv'
    BY NextType, NextCached, NextPending, NextMissing, NextRead DEF IInv
  <1> QED
    BY <1>1, <1>2, PTL DEF Spec

\* Every variable of CloudflareSink keeps its type, no operation is polled
\* beyond its deadline, and what a Sync waits for is its own operation.
THEOREM TypeCorrect == Spec => []TypeOK
  BY Inductive, PTL DEF IInv

\* Whatever fails, and whoever else works on the account: no step of
\* EnsureRule touches a rule with another ref, and no step of ReplaceItems a
\* list of another kind.
THEOREM OthersSafe == Spec => OthersPreserved
  <1>1. IInv /\ [Next]_vars =>
          /\ ruleset /\ "rule" \notin disturbed' => rules'["theirs"] = rules["theirs"]
          /\ list.kind # "ip" /\ "list" \notin disturbed' => list' = list
    <2>1. IInv /\ [Next]_vars => (ruleset /\ "rule" \notin disturbed' => rules'["theirs"] = rules["theirs"])
      <3> SUFFICES ASSUME RuleType, [Next]_vars, "rule" \notin disturbed'
                   PROVE  rules'["theirs"] = rules["theirs"]
        BY Parts DEF IInv, Types
      <3>1. rules' = rules \/ rules' = [rules EXCEPT !["ours"] = "block"]
        BY DEF Next, Work, StartSync, EnsureList, CreateList, ReadPage, PutItems, Poll, PollFails,
               ReadRules, WriteRule, CallRefused, ReplyLost, Crash, OperationEnds, Drift,
               DeleteList, OtherPod, RuleWritten, zone, vars
      <3> QED
        BY <3>1 DEF RuleType, Refs
    <2>2. IInv /\ [Next]_vars => (list.kind # "ip" /\ "list" \notin disturbed' => list' = list)
      <3> SUFFICES ASSUME Cached, Pending, Missing, [Next]_vars, list.kind # "ip",
                          "list" \notin disturbed'
                   PROVE  list' = list
        BY DEF IInv
      <3>1. op = NoOp /\ list.id # 0 /\ ~NewList /\ ~(pc = "put" /\ Found)
        BY Starts DEF Pending, Missing, Cached, NewList, Found
      <3> QED
        BY <3>1 DEF Next, Work, StartSync, EnsureList, CreateList, ReadPage, PutItems, Poll, PollFails,
               ReadRules, WriteRule, CallRefused, ReplyLost, Crash, OperationEnds, Drift,
               DeleteList, OtherPod, vars
    <2> QED
      BY <2>1, <2>2
  <1> QED
    BY <1>1, Inductive, PTL DEF Spec, OthersPreserved

\* "atomically replaces all list items" (ReplaceItems): the items only become
\* none by a clear, or behind the Sync's back.
THEOREM NoGap == Spec => NoEnforcementGap
  <1> DEFINE Gap == list.items # NoCIDRs /\ list'.items = NoCIDRs
  <1>1. IInv /\ [Next]_vars => (Gap => target = NoCIDRs \/ "list" \in disturbed')
    <2> SUFFICES ASSUME IInv, [Next]_vars, Gap, "list" \notin disturbed'
                 PROVE  target = NoCIDRs
      OBVIOUS
    <2>1. ~NewList /\ list' # list
      BY Starts DEF IInv, Missing, NewList
    <2>2. \/ list' = [list EXCEPT !.items = target]
          \/ op # NoOp /\ op.ours /\ list' = [list EXCEPT !.items = op.items]
      BY <2>1 DEF Next, Work, StartSync, EnsureList, CreateList, ReadPage, PutItems, Poll, PollFails,
             ReadRules, WriteRule, CallRefused, ReplyLost, Crash, OperationEnds, Drift,
             DeleteList, OtherPod, vars
    <2>3. list' = [list EXCEPT !.items = target]
      BY <2>2 DEF IInv, TypeOK
    <2>4. list \in [id : 0 .. created, kind : {"ip", "hostname"}, items : Lists]
      BY DEF IInv, TypeOK
    <2> QED
      BY <2>3, <2>4
  <1> QED
    BY <1>1, Inductive, PTL DEF Spec, NoEnforcementGap

-----------------------------------------------------------------------------
(* Sync implements EdgeList. *)

\* EdgeList's variables, where they are not variables here.
Orphan == IF op # NoOp /\ ~op.ours THEN {op.items} ELSE {}
Shown == IF Confirmed THEN {target} ELSE {}

\* A walk that ends while nobody disturbed it has read the list.
LEMMA WalkEnds ==
    ASSUME IInv, ReadPage, pc' = "rule", "list" \notin disturbed
    PROVE  list.items = target
  <1> USE DEF IInv, Types
  <1>1. CloudType /\ LocalType /\ ReadSoFar /\ pc = "items"
    BY Parts DEF ReadPage
  <1>2. ~HasCursor /\ ~HasPages /\ Got = ToSet(target)
    BY <1>1 DEF ReadPage, NotFound, Return, NextPage
  <1>3. /\ Page \in Nat \ {0} /\ Got \subseteq ToSet(list.items)
        /\ \A i \in DOMAIN list.items : i <= Page => list.items[i] \in Got
    BY <1>1, GotSoFar
  <1>4. list.items \in Lists /\ target \in Lists
    BY <1>1 DEF CloudType, LocalType
  <1>5. DOMAIN list.items = 1 .. Len(list.items) /\ Len(list.items) \in Nat
    BY <1>4, ListType
  <1>6. Len(list.items) <= Page
    <2>1. pagination \in {"cursor", "pages", "both"}
      BY Parts, SinkAssumption DEF RestType
    <2>2. CASE pagination = "pages"
      BY <1>1, <1>2, <1>3, <1>5, <2>2 DEF HasPages, Page, ReadSoFar, LocalType, Walks
    <2>3. CASE pagination # "pages"
      BY <1>2, <1>3, <1>5, <2>3 DEF HasCursor
    <2> QED
      BY <2>2, <2>3
  <1>7. ToSet(list.items) = Got
    BY <1>3, <1>5, <1>6 DEF ToSet
  <1> QED
    BY <1>2, <1>4, <1>7, SinkAssumption

\* Every step is a step of EdgeList or changes nothing it speaks of.
LEMMA NextEdge == IInv /\ IInv' /\ [Next]_vars => [Edge!Next]_(Edge!vars)
  <1> SUFFICES ASSUME IInv, [Next]_vars PROVE [Edge!Next]_(Edge!vars)
    OBVIOUS
  <1>types. /\ CloudType /\ LocalType /\ IDType /\ Waiting /\ Cached /\ Pending /\ Missing
            /\ NoOp.ours = FALSE /\ Orphan \in {{}, {op.items}}
    BY Parts, Starts DEF IInv, Types, Orphan
  <1> DEFINE dist == "list" \in disturbed
  <1>stutter. CASE UNCHANGED <<list.items, Orphan, Shown, dist>>
    BY <1>stutter DEF Edge!vars, Orphan, Shown
  <1>begin. CASE UNCHANGED <<list.items, Orphan>> /\ Shown' = {} /\ ~dist'
    BY <1>begin DEF Edge!Next, Edge!Begin, Orphan, Shown
  <1>fail. CASE UNCHANGED <<list.items, Orphan, dist>> /\ Shown' = {}
    BY <1>fail DEF Edge!Next, Edge!Fail, Orphan, Shown
  <1>confirm. CASE /\ Shown' = {target} /\ UNCHANGED <<Orphan, dist>>
                   /\ \/ list.items = target /\ UNCHANGED list.items
                      \/ Orphan = {} /\ list'.items = target
                      \/ dist /\ UNCHANGED list.items
    BY <1>types, <1>confirm DEF Edge!Next, Edge!Confirm, Orphan, Shown, LocalType
  <1>orphan. CASE /\ Orphan = {} /\ \E l \in Lists : Orphan' = {l}
                  /\ Shown' \in {Shown, {}} /\ UNCHANGED <<list.items, dist>>
    BY <1>orphan DEF Edge!Next, Edge!Orphan, Orphan, Shown
  <1>ends. CASE /\ \E l \in Orphan : \/ list'.items = l /\ dist'
                                     \/ UNCHANGED <<list.items, dist>>
                /\ Orphan' = {} /\ UNCHANGED Shown
    BY <1>ends DEF Edge!Next, Edge!OrphanEnds, Orphan, Shown
  <1>outside. CASE list'.items = NoCIDRs /\ dist' /\ Orphan' \in {Orphan, {}} /\ UNCHANGED Shown
    BY <1>outside DEF Edge!Next, Edge!Outside, Orphan, Shown
  <1>returns. ASSUME NEW r \in {"ok", "failed"}, Return(r)
        PROVE  Shown' = IF r = "ok" THEN {target} ELSE {}
    BY <1>returns DEF Return, Shown, Confirmed, RuleCalls
  <1>notFound. NotFound => Shown' = {}
    BY <1>returns DEF NotFound, Shown, Confirmed, RuleCalls
  <1>newList. NewList => UNCHANGED list.items
    BY <1>types, NewListIs, Starts DEF Missing
  <1>abandon. Abandon => \/ op.ours /\ Orphan = {} /\ Orphan' = {op.items} /\ op.items \in Lists
                         \/ ~op.ours /\ UNCHANGED Orphan
    <2> SUFFICES ASSUME Abandon
                 PROVE \/ op.ours /\ Orphan = {} /\ Orphan' = {op.items} /\ op.items \in Lists
                       \/ ~op.ours /\ UNCHANGED Orphan
      OBVIOUS
    <2>1. op' = [list |-> op.list, items |-> op.items, ours |-> FALSE] /\ op.items \in Lists
      BY <1>types, AbandonIs DEF CloudType
    <2>2. CASE op.ours
      <3>1. op'.list # 0 /\ NoOp.list = 0
        BY <1>types, <2>1, <2>2 DEF Pending, NoOp
      <3> QED
        BY <2>1, <2>2, <3>1 DEF Orphan
    <2>3. CASE ~op.ours
      <3>1. op' = NoOp <=> op = NoOp
        BY <1>types, <2>1, <2>3 DEF Pending, NoOp
      <3> QED
        BY <2>1, <2>3, <3>1 DEF Orphan
    <2> QED
      BY <2>2, <2>3
  <1> USE DEF client, locals
  <1>1. CASE StartSync
    <2>1. ~dist' /\ Shown' = {} /\ UNCHANGED <<list, op>>
      BY <1>1 DEF StartSync, Shown, Confirmed, RuleCalls
    <2>2. UNCHANGED <<list.items, Orphan>>
      BY <2>1 DEF Orphan
    <2> QED
      BY <2>1, <2>2, <1>begin
  <1>2. CASE EnsureList
    <2>1. UNCHANGED <<list, op, disturbed>> /\ Shown = {} /\ Shown' = {}
      BY <1>2, <1>returns DEF EnsureList, Goto, Shown, Confirmed, RuleCalls
    <2> QED
      BY <2>1, <1>stutter DEF Orphan
  <1>3. CASE CreateList
    <2>1. UNCHANGED <<op, disturbed>> /\ Shown = {} /\ Shown' = {} /\ UNCHANGED list.items
      BY <1>3, <1>newList, <1>returns DEF CreateList, Shown, Confirmed, RuleCalls
    <2> QED
      BY <2>1, <1>stutter DEF Orphan
  <1>4. CASE ReadPage
    <2>1. UNCHANGED <<list, op, disturbed>> /\ pc = "items" /\ Shown = {}
      BY <1>4 DEF ReadPage, Shown, Confirmed, RuleCalls
    <2>2. UNCHANGED <<list.items, Orphan, dist>>
      BY <2>1 DEF Orphan
    <2>3. CASE pc' = "rule"
      <3>1. UNCHANGED target
        BY <1>4, <2>1, <2>3 DEF ReadPage, NotFound, Return, NextPage
      <3>2. Shown' = {target}
        BY <2>3, <3>1 DEF Shown, Confirmed
      <3>3. dist \/ list.items = target
        BY <1>4, <2>3, WalkEnds
      <3> QED
        BY <2>2, <3>2, <3>3, <1>confirm
    <2>4. CASE pc' # "rule"
      <3>1. Shown' = {}
        BY <1>4, <2>1, <2>4, <1>notFound DEF ReadPage, NextPage, Shown, Confirmed, RuleCalls
      <3> QED
        BY <2>2, <3>1, <1>fail
    <2> QED
      BY <2>3, <2>4
  <1>5. CASE PutItems
    <2>0. pc = "put" /\ UNCHANGED <<disturbed, dist>> /\ Shown = {} /\ ~op.ours
      BY <1>5, <1>types DEF PutItems, Shown, Confirmed, RuleCalls, Waiting
    <2>1. CASE (NotFound \/ Return("failed")) /\ UNCHANGED <<list, op>>
      BY <2>0, <2>1, <1>fail, <1>notFound, <1>returns DEF Orphan
    <2>2. CASE /\ Accepted /\ UNCHANGED list /\ pc' = "wait" /\ awaited' = "pending"
               /\ UNCHANGED <<listID, locals, result>>
      <3>1. Shown' = {} /\ UNCHANGED Orphan
        BY <2>2, <1>types DEF Shown, Confirmed, RuleCalls, Orphan, Accepted
      <3> QED
        BY <2>0, <2>2, <3>1, <1>fail
    <2>3. CASE /\ op = NoOp /\ list' = [list EXCEPT !.items = target] /\ Goto("rule") /\ UNCHANGED op
      <3>1. list'.items = target /\ Shown' = {target} /\ Orphan = {} /\ Orphan' = {}
        BY <2>3, <1>types DEF CloudType, Goto, Shown, Confirmed, Orphan
      <3> QED
        BY <2>0, <3>1, <1>confirm
    <2> QED
      BY <1>5, <2>1, <2>2, <2>3 DEF PutItems
  <1>6. CASE Poll
    <2>0. pc = "wait" /\ UNCHANGED <<list, list.items, disturbed, dist>>
      BY <1>6 DEF Poll
    <2>1. CASE awaited = "completed" /\ Goto("rule") /\ UNCHANGED op
      <3>1. UNCHANGED <<Shown, Orphan>>
        BY <2>0, <2>1 DEF Goto, Shown, Confirmed, Orphan
      <3> QED
        BY <2>0, <3>1, <1>stutter
    <2>2. CASE awaited = "failed" /\ Return("failed") /\ UNCHANGED op
      BY <2>0, <2>2, <1>fail, <1>returns DEF Orphan
    <2>3. CASE PollAgain
      <3>1. UNCHANGED <<Shown, Orphan>>
        BY <2>0, <2>3 DEF PollAgain, Shown, Confirmed, Orphan
      <3> QED
        BY <2>0, <3>1, <1>stutter
    <2>4. CASE awaited = "pending" /\ Return("failed") /\ Abandon
      <3>1. Shown' = {}
        BY <2>4, <1>returns
      <3> QED
        BY <2>0, <2>4, <3>1, <1>types, <1>orphan, <1>abandon DEF Waiting
    <2> QED
      BY <1>6, <2>1, <2>2, <2>3, <2>4 DEF Poll
  <1>7. CASE PollFails
    <2>1. UNCHANGED <<list, list.items, disturbed, dist>> /\ Shown' = {} /\ Abandon
      BY <1>7, <1>notFound, <1>returns DEF PollFails
    <2> QED
      BY <2>1, <1>fail, <1>orphan, <1>abandon
  <1>8. CASE ReadRules
    <2>0. pc = "rule" /\ UNCHANGED <<list, list.items, op, Orphan, disturbed, dist>> /\ Shown = {target}
      BY <1>8 DEF ReadRules, Orphan, Shown, Confirmed
    <2>1. Shown' = {target}
      BY <1>8, <1>returns DEF ReadRules, Goto, Shown, Confirmed, RuleCalls
    <2> QED
      BY <2>0, <2>1, <1>stutter
  <1>9. CASE WriteRule
    <2>0. UNCHANGED <<list, list.items, op, Orphan, disturbed, dist>> /\ Shown = {target}
      BY <1>9 DEF WriteRule, Orphan, Shown, Confirmed
    <2>1. Shown' \in {{target}, {}}
      BY <1>9, <1>returns DEF WriteRule
    <2> QED
      BY <2>0, <2>1, <1>stutter, <1>fail
  <1>10. CASE CallRefused
    <2>1. UNCHANGED <<list, list.items, op, Orphan, disturbed, dist>> /\ Shown' = {}
      BY <1>10, <1>returns DEF CallRefused, Orphan
    <2> QED
      BY <2>1, <1>fail
  <1>11. CASE ReplyLost
    <2>0. UNCHANGED <<disturbed, dist>> /\ Shown' = {}
      BY <1>11, <1>returns DEF ReplyLost
    <2>1. CASE UNCHANGED <<list.items, op>>
      BY <2>0, <2>1, <1>fail DEF Orphan
    <2>2. CASE /\ op = NoOp /\ UNCHANGED list
               /\ op' = [list |-> listID, items |-> target, ours |-> FALSE] /\ listID # 0
      <3>1. Orphan = {} /\ Orphan' = {target} /\ target \in Lists
        BY <2>2, <1>types DEF Orphan, NoOp, LocalType
      <3> QED
        BY <2>0, <2>2, <3>1, <1>orphan
    <2> QED
      BY <1>11, <2>1, <2>2, <1>types, <1>newList DEF ReplyLost, Cached
  <1>12. CASE Crash
    <2>1. UNCHANGED <<list, list.items, disturbed, dist>> /\ Shown' = {} /\ Abandon
      BY <1>12 DEF Crash, Shown, Confirmed, RuleCalls
    <2> QED
      BY <2>1, <1>fail, <1>orphan, <1>abandon
  <1>13. CASE OperationEnds
    <2>0. op # NoOp /\ op' = NoOp /\ Orphan' = {} /\ list.id = op.list /\ UNCHANGED <<pc, result, target>>
      BY <1>13, <1>types DEF OperationEnds, Orphan, Pending
    <2>1. CASE UNCHANGED <<list, disturbed>> /\ awaited' = IF op.ours THEN "failed" ELSE awaited
      <3>1. UNCHANGED Shown
        BY <2>0, <2>1, <1>types DEF Shown, Confirmed, Waiting, RuleCalls
      <3>2. CASE op.ours
        BY <2>0, <2>1, <3>1, <3>2, <1>stutter DEF Orphan
      <3>3. CASE ~op.ours
        BY <2>0, <2>1, <3>1, <3>3, <1>ends DEF Orphan
      <3> QED
        BY <3>2, <3>3
    <2>2. CASE /\ list' = [list EXCEPT !.items = op.items]
               /\ disturbed' = disturbed \cup (IF op.ours THEN {} ELSE {"list"})
               /\ awaited' = IF op.ours THEN "completed" ELSE awaited
      <3>1. list'.items = op.items
        BY <2>2, <1>types DEF CloudType
      <3>2. CASE op.ours
        <4>1. Shown' = {target} /\ Orphan = {} /\ UNCHANGED dist /\ op.items = target
          BY <2>0, <2>2, <3>2, <1>types DEF Shown, Confirmed, Waiting, Orphan
        <4> QED
          BY <2>0, <3>1, <4>1, <1>confirm
      <3>3. CASE ~op.ours
        <4>1. UNCHANGED Shown /\ Orphan = {op.items} /\ dist'
          BY <2>0, <2>2, <3>3 DEF Shown, Confirmed, RuleCalls, Orphan
        <4> QED
          BY <2>0, <3>1, <4>1, <1>ends
      <3> QED
        BY <3>2, <3>3
    <2> QED
      BY <1>13, <2>0, <2>1, <2>2 DEF OperationEnds
  <1>14. CASE Drift
    <2>1. UNCHANGED <<list, list.items, op, Orphan, dist, Shown>>
      BY <1>14 DEF Drift, Orphan, Shown, Confirmed
    <2> QED
      BY <2>1, <1>stutter
  <1>15. CASE DeleteList
    <2>1. list'.items = NoCIDRs /\ dist' /\ Orphan' = {}
      BY <1>15, Starts DEF DeleteList, Orphan
    <2>2. UNCHANGED Shown
      BY <1>15, <1>types DEF DeleteList, Shown, Confirmed, Waiting, RuleCalls
    <2> QED
      BY <2>1, <2>2, <1>outside
  <1>16. CASE OtherPod
    <2>0. UNCHANGED Shown
      BY <1>16 DEF OtherPod, Shown, Confirmed
    <2>1. CASE NewList /\ disturbed' = disturbed \cup {"list"} /\ UNCHANGED op
      <3>1. list'.items = NoCIDRs /\ dist' /\ UNCHANGED Orphan
        BY <2>1, NewListIs DEF Orphan
      <3> QED
        BY <2>0, <3>1, <1>outside
    <2>2. CASE /\ UNCHANGED <<list, disturbed>> /\ list.id # 0 /\ op = NoOp
               /\ \E l \in Lists : op' = [list |-> list.id, items |-> l, ours |-> FALSE]
      <3>1. Orphan = {} /\ \E l \in Lists : Orphan' = {l}
        BY <2>2, <1>types DEF Orphan, NoOp
      <3> QED
        BY <2>0, <2>2, <3>1, <1>orphan
    <2> QED
      BY <1>16, <2>1, <2>2 DEF OtherPod
  <1>17. CASE UNCHANGED vars
    BY <1>17, <1>stutter DEF vars, Orphan, Shown, Confirmed
  <1> QED
    BY <1>1, <1>2, <1>3, <1>4, <1>5, <1>6, <1>7, <1>8, <1>9, <1>10,
       <1>11, <1>12, <1>13, <1>14, <1>15, <1>16, <1>17 DEF Next, Work

\* CloudflareClient.Sync, call by call and page by page, against a Cloudflare
\* that other clients write to, keeps what EdgeList promises to SyncCycle.
THEOREM Refinement == Spec => RefinesEdgeList
  <1>1. Init => Edge!Init
    BY Starts DEF Init, Edge!Init, Confirmed, RuleCalls, NoList
  <1> QED
    BY <1>1, NextEdge, Inductive, PTL DEF Spec, RefinesEdgeList, Edge!Spec

-----------------------------------------------------------------------------
(* Success. *)

\* What the items and the rule are once a Sync has seen to them, while nobody
\* else changes them.
Enforced ==
    /\ Confirmed /\ "list" \notin disturbed => list.items = target /\ list.id = listID
    /\ op.ours => op.list = listID
    /\ result = "ok" => pc = "idle"
    /\ result = "ok" /\ "rule" \notin disturbed => ruleset /\ rules["ours"] = "block"

\* Neither the client nor its operation undoes what a Sync has confirmed.
LEMMA NextEnforced == IInv /\ Enforced /\ [Next]_vars => Enforced'
  <1> SUFFICES ASSUME IInv, Enforced, [Next]_vars PROVE Enforced'
    OBVIOUS
  <1>types. /\ CloudType /\ LocalType /\ Waiting /\ Cached /\ Pending /\ Missing /\ RuleType
            /\ NoOp.ours = FALSE
    BY Parts, Starts DEF IInv, Types
  <1>abandon. Abandon => op'.ours = FALSE
    BY <1>types, AbandonIs
  <1>unconfirmed. ASSUME ~Confirmed', result' # "ok", ~op'.ours PROVE Enforced'
    BY <1>unconfirmed DEF Enforced
  <1>failed. ASSUME Return("failed") PROVE ~Confirmed' /\ result' # "ok"
    BY <1>failed DEF Return, Confirmed, RuleCalls
  <1>notFound. ASSUME NotFound, result # "ok" PROVE ~Confirmed' /\ result' # "ok"
    BY <1>notFound, <1>failed DEF NotFound, Confirmed, RuleCalls
  <1>running. pc # "idle" => result # "ok"
    BY DEF Enforced
  <1> USE <1>types DEF client, locals
  <1>1. CASE StartSync
    <2>1. ~Confirmed' /\ result' # "ok" /\ ~op'.ours
      BY <1>1 DEF StartSync, Confirmed, RuleCalls, Waiting
    <2> QED
      BY <2>1, <1>unconfirmed
  <1>2. CASE EnsureList
    <2>1. ~Confirmed' /\ result' # "ok" /\ ~op'.ours
      BY <1>2, <1>failed, <1>running DEF EnsureList, Goto, Confirmed, RuleCalls, Waiting
    <2> QED
      BY <2>1, <1>unconfirmed
  <1>3. CASE CreateList
    <2>1. ~Confirmed' /\ result' # "ok" /\ ~op'.ours
      BY <1>3, <1>failed, <1>running DEF CreateList, Confirmed, RuleCalls, Waiting
    <2> QED
      BY <2>1, <1>unconfirmed
  <1>4. CASE ReadPage
    <2>0. pc = "items" /\ ~op'.ours /\ UNCHANGED <<list, disturbed>> /\ result # "ok"
      BY <1>4, <1>running DEF ReadPage, Waiting
    <2>1. CASE pc' = "rule"
      <3>1. Found /\ UNCHANGED <<target, listID, result>>
        BY <1>4, <2>1 DEF ReadPage, NotFound, Return, NextPage
      <3>2. "list" \in disturbed \/ list.items = target
        BY <1>4, <2>1, WalkEnds
      <3> QED
        BY <2>0, <3>1, <3>2 DEF Enforced, Found
    <2>2. CASE pc' # "rule"
      <3>1. ~Confirmed' /\ result' # "ok"
        BY <1>4, <2>0, <2>2, <1>notFound DEF ReadPage, NextPage, Confirmed, RuleCalls
      <3> QED
        BY <2>0, <3>1, <1>unconfirmed
    <2> QED
      BY <2>1, <2>2
  <1>5. CASE PutItems
    <2>0. pc = "put" /\ ~op.ours /\ UNCHANGED disturbed /\ result # "ok"
      BY <1>5, <1>running DEF PutItems, Waiting
    <2>1. CASE (NotFound \/ Return("failed")) /\ UNCHANGED <<list, op>>
      BY <2>0, <2>1, <1>failed, <1>notFound, <1>unconfirmed
    <2>2. CASE /\ Accepted /\ pc' = "wait" /\ awaited' = "pending" /\ UNCHANGED <<listID, locals, result>>
      BY <2>0, <2>2 DEF Accepted, Enforced, Confirmed, RuleCalls
    <2>3. CASE Found /\ list' = [list EXCEPT !.items = target] /\ Goto("rule") /\ UNCHANGED op
      <3>1. list'.items = target /\ list'.id = listID
        BY <2>3 DEF CloudType, Found
      <3> QED
        BY <2>0, <2>3, <3>1 DEF Goto, Enforced
    <2> QED
      BY <1>5, <2>1, <2>2, <2>3 DEF PutItems
  <1>6. CASE Poll
    <2>0. pc = "wait" /\ UNCHANGED <<list, disturbed, zone>> /\ result # "ok"
      BY <1>6, <1>running DEF Poll
    <2>1. CASE awaited = "completed" /\ Goto("rule") /\ UNCHANGED op
      BY <2>0, <2>1 DEF Goto, Enforced, Confirmed, Waiting
    <2>2. CASE awaited = "failed" /\ Return("failed") /\ UNCHANGED op
      BY <2>0, <2>2, <1>failed, <1>unconfirmed DEF Waiting
    <2>3. CASE PollAgain
      BY <2>0, <2>3 DEF PollAgain, Enforced, Confirmed, RuleCalls
    <2>4. CASE Return("failed") /\ Abandon
      BY <2>0, <2>4, <1>failed, <1>unconfirmed, <1>abandon
    <2> QED
      BY <1>6, <2>1, <2>2, <2>3, <2>4 DEF Poll
  <1>7. CASE PollFails
    <2>1. ~Confirmed' /\ result' # "ok" /\ ~op'.ours
      BY <1>7, <1>failed, <1>notFound, <1>running, <1>abandon DEF PollFails
    <2> QED
      BY <2>1, <1>unconfirmed
  <1>8. CASE ReadRules
    <2>0. /\ pc = "rule" /\ Confirmed /\ result # "ok" /\ ~op'.ours
          /\ UNCHANGED <<list, listID, target, disturbed, zone>>
      BY <1>8, <1>running DEF ReadRules, Goto, Return, Confirmed, Waiting
    <2>1. CASE ruleset /\ rules["ours"] = "block" /\ Return("ok")
      BY <2>0, <2>1 DEF Return, Enforced, zone
    <2>2. CASE \E label \in RuleCalls : Goto(label)
      BY <2>0, <2>2 DEF Goto, Enforced, RuleCalls
    <2> QED
      BY <1>8, <2>1, <2>2 DEF ReadRules, RuleCalls
  <1>9. CASE WriteRule
    <2>0. /\ Confirmed /\ ~op'.ours /\ UNCHANGED <<list, listID, target, disturbed>>
      BY <1>9 DEF WriteRule, Return, Confirmed, Waiting, RuleCalls
    <2>1. CASE RuleWritten /\ Return("ok")
      <3>1. ruleset' /\ rules'["ours"] = "block"
        BY <2>1 DEF RuleWritten, RuleType, Refs
      <3> QED
        BY <2>0, <2>1, <3>1 DEF Return, Enforced
    <2>2. CASE Return("failed")
      BY <2>0, <2>2, <1>failed, <1>unconfirmed
    <2> QED
      BY <1>9, <2>1, <2>2 DEF WriteRule
  <1>10. CASE CallRefused
    <2>1. ~Confirmed' /\ result' # "ok" /\ ~op'.ours
      BY <1>10, <1>failed DEF CallRefused, Waiting
    <2> QED
      BY <2>1, <1>unconfirmed
  <1>11. CASE ReplyLost
    <2>1. ~Confirmed' /\ result' # "ok"
      BY <1>11, <1>failed DEF ReplyLost
    <2>2. ~op'.ours
      BY <1>11 DEF ReplyLost, Waiting, RuleCalls
    <2> QED
      BY <2>1, <2>2, <1>unconfirmed
  <1>12. CASE Crash
    <2>1. ~Confirmed' /\ result' # "ok" /\ ~op'.ours
      BY <1>12, <1>abandon DEF Crash, Confirmed, RuleCalls
    <2> QED
      BY <2>1, <1>unconfirmed
  <1>13. CASE OperationEnds
    <2>0. /\ op # NoOp /\ ~op'.ours /\ list.id = op.list
          /\ UNCHANGED <<pc, result, target, listID, ruleset, rules>>
      BY <1>13 DEF OperationEnds, Pending, zone
    <2>1. CASE UNCHANGED <<list, disturbed>> /\ awaited' = IF op.ours THEN "failed" ELSE awaited
      <3>1. Confirmed' => Confirmed
        BY <2>0, <2>1 DEF Confirmed, RuleCalls
      <3> QED
        BY <2>0, <2>1, <3>1 DEF Enforced
    <2>2. CASE /\ list' = [list EXCEPT !.items = op.items]
               /\ disturbed' = disturbed \cup (IF op.ours THEN {} ELSE {"list"})
      <3>1. list'.items = op.items /\ list'.id = list.id
        BY <2>2 DEF CloudType
      <3>2. CASE op.ours
        BY <2>0, <2>2, <3>1, <3>2 DEF Enforced, Waiting
      <3>3. CASE ~op.ours
        BY <2>0, <2>2, <3>1, <3>3 DEF Enforced
      <3> QED
        BY <3>2, <3>3
    <2> QED
      BY <1>13, <2>0, <2>1, <2>2 DEF OperationEnds
  <1>14. CASE Drift
    <2>1. /\ UNCHANGED <<list, op, pc, awaited, result, target, listID>>
          /\ disturbed' = disturbed \cup {"rule"}
      BY <1>14 DEF Drift
    <2> QED
      BY <2>1 DEF Enforced, Confirmed
  <1>15. CASE DeleteList
    <2>1. /\ op'.ours = FALSE /\ disturbed' = disturbed \cup {"list"}
          /\ UNCHANGED <<pc, result, rules, ruleset>>
      BY <1>15 DEF DeleteList, zone
    <2> QED
      BY <2>1 DEF Enforced
  <1>16. CASE OtherPod
    <2>1. UNCHANGED <<pc, awaited, result, target, listID, rules, ruleset>>
      BY <1>16 DEF OtherPod, zone
    <2>2. CASE disturbed' = disturbed \cup {"list"} /\ UNCHANGED op
      BY <2>1, <2>2 DEF Enforced
    <2>3. CASE UNCHANGED <<list, disturbed>> /\ op'.ours = FALSE
      BY <2>1, <2>3 DEF Enforced, Confirmed
    <2>4. \/ disturbed' = disturbed \cup {"list"} /\ UNCHANGED op
          \/ UNCHANGED <<list, disturbed>> /\ op'.ours = FALSE
      BY <1>16 DEF OtherPod
    <2> QED
      BY <2>2, <2>3, <2>4
  <1>17. CASE UNCHANGED vars
    BY <1>17 DEF vars, Enforced, Confirmed, zone
  <1> QED
    BY <1>1, <1>2, <1>3, <1>4, <1>5, <1>6, <1>7, <1>8, <1>9, <1>10,
       <1>11, <1>12, <1>13, <1>14, <1>15, <1>16, <1>17 DEF Next, Work

\* A Sync that reports success has left its list and a working rule behind, and
\* they stay until the next Sync, whatever fails, unless somebody else or an
\* operation that an earlier Sync gave up on changes them.
THEOREM SuccessSafe == Spec => []SuccessMeansEnforced
  <1>1. Init => Enforced
    BY Starts DEF Init, Enforced, Confirmed, RuleCalls
  <1>2. IInv /\ Enforced => SuccessMeansEnforced
    BY DEF Enforced, Confirmed, SuccessMeansEnforced
  <1> QED
    BY <1>1, <1>2, NextEnforced, Inductive, PTL DEF Spec
=============================================================================
