-------------------------- MODULE CIDRGroupProofs --------------------------
(***************************************************************************)
(* Proofs about CIDRGroup for any number of pods, attempts, lists, times,  *)
(* versions and lost requests.  The inductive invariant is TypeOK together *)
(* with VersionsGuardWrites: a version that matches guarantees that the    *)
(* snapshot is current.  From it every step of the detailed specification  *)
(* is a step of AtomicGroup or a stutter, what a call returns included, and *)
(* the properties of the object follow from the few steps AtomicGroup has. *)
(***************************************************************************)
EXTENDS CIDRGroup, TLAPS

IInv == TypeOK /\ VersionsGuardWrites

-----------------------------------------------------------------------------
(* The functions that build an object's next content. *)

\* buildObject and mergeAnnotations turn well-typed parts into an object.
LEMMA BuiltType ==
    ASSUME NEW l \in Lists, NEW s \in Times, NEW t \in Times, NEW obj \in Groups
    PROVE  /\ buildObject(l, s, t) \in Groups
           /\ AppliedTo(obj, l, s, t) \in Groups
           /\ MarkedAt(obj, s) \in Groups
  BY DEF buildObject, AppliedTo, mergeAnnotations, MarkedAt, Groups, Times, NoTime

\* The same for the call a pod is making.
LEMMA DesiredType ==
    ASSUME NEW a \in Calls, NEW obj \in Groups
    PROVE  /\ Desired(a, obj) \in Groups
           /\ Created(a) \in Groups
  <1>1. a.cidrs \in Lists /\ a.success \in Times /\ a.clear \in Times
    BY DEF Calls
  <1> QED
    BY <1>1, BuiltType DEF Desired, Created

\* The starting values have their types.
LEMMA Starts ==
    /\ NoGroup \in Groups /\ NoCall \in Calls /\ NotSeen \in Seen
    /\ NoTime \in Times /\ Nat \subseteq Times
  BY ListAssumption DEF NoGroup, Groups, NoCall, Calls, NotSeen, Seen, Times, NoTime

\* The calls main.go makes are calls with arguments of the right types, and none
\* of them looks like no call.
LEMMA GroupCallsType ==
    ASSUME NEW t \in Nat
    PROVE  GroupCalls(t) \subseteq Calls /\ NoCall \notin GroupCalls(t)
  BY ListAssumption DEF GroupCalls, Calls, Times, NoTime, NoCall

-----------------------------------------------------------------------------
(* Type correctness. *)

\* The initial state is well typed.
LEMMA InitType == Init => TypeOK
  BY Starts, BoundAssumption DEF Init, TypeOK

\* A pod whose call returns (Apply, MergeAnnotations) stays well typed.
LEMMA ReturnType ==
    ASSUME TypeOK, NEW c \in Clients, NEW result \in BOOLEAN, Return(c, result)
    PROVE  /\ pc' \in [Clients -> {"idle", "get", "create", "update"}]
           /\ call' \in [Clients -> Calls] /\ ok' \in [Clients -> BOOLEAN]
           /\ attempt' \in [Clients -> 1 .. MaxAttempts]
           /\ seen' \in [Clients -> Seen]
           /\ now' \in [Clients -> Times]
  BY Starts, BoundAssumption DEF TypeOK, Return

\* A conflict that is retried, or given up on after the last attempt, leaves
\* the pod well typed: here the attempts are counted.
LEMMA RetryType ==
    ASSUME TypeOK, NEW c \in Clients, Retry(c)
    PROVE  /\ pc' \in [Clients -> {"idle", "get", "create", "update"}]
           /\ call' \in [Clients -> Calls] /\ ok' \in [Clients -> BOOLEAN]
           /\ attempt' \in [Clients -> 1 .. MaxAttempts]
           /\ seen' \in [Clients -> Seen]
           /\ now' \in [Clients -> Times]
  <1>1. CASE attempt[c] < MaxAttempts /\ ~Return(c, FALSE)
    <2>1. attempt[c] + 1 \in 1 .. MaxAttempts
      BY <1>1, BoundAssumption DEF TypeOK
    <2> QED
      BY <1>1, <2>1, Starts DEF TypeOK, Retry
  <1>2. CASE Return(c, FALSE)
    BY <1>2, ReturnType
  <1> QED
    BY <1>1, <1>2 DEF Retry

\* What the API server stores is an object, and its version a number.
LEMMA StoreType ==
    ASSUME TypeOK, NEW obj \in Groups, Store(obj)
    PROVE  group' \in Groups /\ rv' \in Nat
  BY DEF TypeOK, Store

\* Every step of the pods, the API server and the rest of the world keeps the
\* types.
LEMMA NextType == TypeOK /\ [Next]_vars => TypeOK'
  <1> SUFFICES ASSUME TypeOK, [Next]_vars PROVE TypeOK'
    OBVIOUS
  <1> USE BoundAssumption
  <1>1. ASSUME NEW c \in Clients, StartApply(c) PROVE TypeOK'
    BY <1>1, Starts, FeedAssumption DEF TypeOK, StartApply, Start, Calls
  <1>2. ASSUME NEW c \in Clients, StartMerge(c) PROVE TypeOK'
    BY <1>2, Starts, ListAssumption DEF TypeOK, StartMerge, Start, Calls
  <1>3. ASSUME NEW c \in Clients, StartClear(c) PROVE TypeOK'
    BY <1>3, Starts, ListAssumption DEF TypeOK, StartClear, Start, Calls
  <1>4. ASSUME NEW c \in Clients, Get(c) PROVE TypeOK'
    <2>1. UNCHANGED <<group, rv, clock, wire, admin>>
      BY <1>4 DEF Get
    <2>2. ASSUME NEW result \in BOOLEAN, Return(c, result) PROVE TypeOK'
      BY <2>1, <2>2, ReturnType DEF TypeOK
    <2>3. CASE ~Return(c, FALSE) /\ ~Return(c, TRUE)
      <3>1. [group |-> group, rv |-> rv] \in Seen
        BY DEF TypeOK, Seen
      <3>2. /\ pc' = [pc EXCEPT ![c] = IF group.exists THEN "update" ELSE "create"]
            /\ seen' = [seen EXCEPT ![c] = [group |-> group, rv |-> rv]]
            /\ UNCHANGED <<call, ok, attempt, now>>
        BY <1>4, <2>3 DEF Get
      <3> QED
        BY <2>1, <3>1, <3>2 DEF TypeOK
    <2> QED
      BY <2>2, <2>3
  <1>5. ASSUME NEW c \in Clients, GetFails(c) PROVE TypeOK'
    BY <1>5, ReturnType DEF TypeOK, GetFails
  <1>6. ASSUME NEW c \in Clients, Create(c) PROVE TypeOK'
    <2>1. call[c] \in Calls /\ group \in Groups
      BY DEF TypeOK
    <2>2. Created(call[c]) \in Groups
      BY <2>1, DesiredType
    <2>3. CASE Store(Created(call[c])) /\ Return(c, TRUE)
      BY <1>6, <2>2, <2>3, StoreType, ReturnType DEF TypeOK, Create
    <2>4. CASE Retry(c) /\ UNCHANGED <<group, rv>>
      BY <1>6, <2>4, RetryType DEF TypeOK, Create
    <2> QED
      BY <1>6, <2>3, <2>4 DEF Create
  <1>7. ASSUME NEW c \in Clients, Update(c) PROVE TypeOK'
    <2>1. call[c] \in Calls /\ seen[c].group \in Groups
      BY DEF TypeOK, Seen
    <2>2. Desired(call[c], seen[c].group) \in Groups
      BY <2>1, DesiredType
    <2>3. CASE Store(Desired(call[c], seen[c].group)) /\ Return(c, TRUE)
      BY <1>7, <2>2, <2>3, StoreType, ReturnType DEF TypeOK, Update
    <2>4. CASE Retry(c) /\ UNCHANGED <<group, rv>>
      BY <1>7, <2>4, RetryType DEF TypeOK, Update
    <2>5. CASE Return(c, FALSE) /\ UNCHANGED <<group, rv>>
      BY <1>7, <2>5, ReturnType DEF TypeOK, Update
    <2> QED
      BY <1>7, <2>3, <2>4, <2>5 DEF Update
  <1>8. ASSUME NEW c \in Clients, WriteFails(c) PROVE TypeOK'
    BY <1>8, ReturnType DEF TypeOK, WriteFails
  <1>9. ASSUME NEW c \in Clients, WriteTimesOut(c) PROVE TypeOK'
    <2>1. call[c] \in Calls /\ seen[c].group \in Groups /\ seen[c].rv \in Nat
      BY DEF TypeOK, Seen
    <2>2. Created(call[c]) \in Groups /\ Desired(call[c], seen[c].group) \in Groups
      BY <2>1, DesiredType
    <2>3. wire' \in SUBSET Requests
      BY <1>9, <2>1, <2>2 DEF WriteTimesOut, TypeOK, Requests
    <2> QED
      BY <1>9, <2>3, ReturnType DEF TypeOK, WriteTimesOut
  <1>10. ASSUME NEW r \in wire, Land(r) PROVE TypeOK'
    <2>1. r.object \in Groups
      BY DEF TypeOK, Requests
    <2>2. group' \in Groups /\ rv' \in Nat
      BY <1>10, <2>1, StoreType DEF Land, TypeOK
    <2> QED
      BY <1>10, <2>2 DEF TypeOK, Land, pods
  <1>11. CASE Administer
    <2>1. group \in Groups /\ rv + 1 \in Nat /\ admin + 1 \in Nat
      BY DEF TypeOK
    <2>2. [group EXCEPT !.managed = FALSE] \in Groups
      BY <2>1 DEF Groups
    <2>3. ASSUME NEW l \in Lists
          PROVE  [NoGroup EXCEPT !.exists = TRUE, !.cidrs = l] \in Groups
      BY Starts DEF Groups
    <2>4. group' \in Groups
      BY <1>11, <2>2, <2>3, Starts DEF Administer
    <2> QED
      BY <1>11, <2>1, <2>4 DEF TypeOK, Administer, pods
  <1>12. CASE Tick
    BY <1>12 DEF TypeOK, Tick, pods
  <1>13. CASE UNCHANGED vars
    BY <1>13 DEF TypeOK, vars, pods
  <1> QED
    BY <1>1, <1>2, <1>3, <1>4, <1>5, <1>6, <1>7, <1>8, <1>9, <1>10, <1>11, <1>12, <1>13
       DEF Next, PodStep

\* Every variable of CIDRGroup keeps its type, and no Apply or MergeAnnotations
\* makes more than MaxAttempts attempts.
THEOREM TypeCorrect == Spec => []TypeOK
  <1>1. Init => TypeOK
    BY InitType
  <1>2. TypeOK /\ [Next]_vars => TypeOK'
    BY NextType
  <1> QED
    BY <1>1, <1>2, PTL DEF Spec

-----------------------------------------------------------------------------
(* A version that matches guarantees that the snapshot is current. *)

\* What any step does to the shared state: the clock moves on by at most one,
\* and the content changes only together with its version.
LEMMA WorldStep ==
    ASSUME TypeOK, [Next]_vars
    PROVE  /\ clock' \in {clock, clock + 1}
           /\ (rv' = rv /\ group' = group) \/ rv' = rv + 1
  <1>1. ASSUME NEW c \in Clients, PodStep(c)
        PROVE  /\ clock' = clock
               /\ (rv' = rv /\ group' = group) \/ rv' = rv + 1
    BY <1>1 DEF PodStep, StartApply, StartMerge, StartClear, Start, Get, GetFails, Create, Update,
                WriteFails, WriteTimesOut, Store
  <1>2. ASSUME NEW r \in wire, Land(r)
        PROVE  /\ clock' = clock
               /\ (rv' = rv /\ group' = group) \/ rv' = rv + 1
    BY <1>2 DEF Land, Store
  <1>3. CASE Administer \/ Tick \/ UNCHANGED vars
    BY <1>3 DEF Administer, Tick, vars
  <1> QED
    BY <1>1, <1>2, <1>3 DEF Next

\* What a call may carry now it may carry later.
LEMMA CallsStayValid ==
    ASSUME TypeOK, clock' \in {clock, clock + 1}
    PROVE  /\ GroupCalls(clock) \subseteq GroupCalls(clock')
           /\ \A t \in 0 .. clock : t \in 0 .. clock'
  BY DEF TypeOK, GroupCalls

\* Where nothing new is put on the wire, the requests on it stay current.
LEMMA RequestsStayCurrent ==
    ASSUME TypeOK, CurrentRequests, wire' \subseteq wire,
           clock' \in {clock, clock + 1},
           (rv' = rv /\ group' = group) \/ rv' = rv + 1
    PROVE  CurrentRequests'
  <1>1. SUFFICES ASSUME NEW r \in wire
        PROVE  /\ r.call \in GroupCalls(clock')
               /\ r.kind = "create" => r.call.op = "apply" /\ r.object = Created(r.call)
               /\ r.kind = "update" => r.rv <= rv'
               /\ r.kind = "update" /\ r.rv = rv' =>
                    isManagedByUs(group') /\ r.object = Desired(r.call, group')
    BY DEF CurrentRequests
  <1>2. GroupCalls(clock) \subseteq GroupCalls(clock')
    BY CallsStayValid
  <1>3. r.rv \in Nat /\ rv \in Nat
    BY DEF TypeOK, Requests
  <1>4. CASE rv' = rv /\ group' = group
    BY <1>2, <1>4 DEF CurrentRequests
  <1>5. CASE rv' = rv + 1
    BY <1>2, <1>3, <1>5 DEF CurrentRequests
  <1> QED
    BY <1>4, <1>5

\* A pod that keeps its snapshot keeps it current.
LEMMA SnapshotStaysCurrent ==
    ASSUME TypeOK, CurrentSnapshots, NEW c \in Clients,
           pc[c] = "update", seen'[c] = seen[c],
           (rv' = rv /\ group' = group) \/ rv' = rv + 1
    PROVE  /\ seen'[c].rv <= rv'
           /\ seen'[c].rv = rv' => seen'[c].group = group' /\ isManagedByUs(group')
  <1>1. seen[c].rv \in Nat /\ rv \in Nat
    BY DEF TypeOK, Seen
  <1> QED
    BY <1>1 DEF CurrentSnapshots

\* Before the first call there is no snapshot and no request.
LEMMA InitVersions == Init => VersionsGuardWrites
  BY DEF Init, VersionsGuardWrites, ValidCalls, CurrentSnapshots, CurrentRequests

\* What ValidCalls says of one pod, after a step.
ValidNext(c) ==
    /\ now'[c] # NoTime => now'[c] \in 0 .. clock'
    /\ call'[c] \in IF pc'[c] = "idle" THEN {NoCall} ELSE GroupCalls(clock')
    /\ pc'[c] = "create" => call'[c].op = "apply"

\* Every call the synchronization starts is a valid one, and it stays valid
\* until it returns.
LEMMA CallsInvariant ==
    ASSUME IInv, [Next]_vars
    PROVE  ValidCalls'
  <1> USE DEF IInv, VersionsGuardWrites
  <1>1. clock' \in {clock, clock + 1}
    BY WorldStep
  <1>2. SUFFICES ASSUME NEW c \in Clients PROVE ValidNext(c)
    BY DEF ValidCalls, ValidNext
  <1>3. /\ now[c] # NoTime => now[c] \in 0 .. clock'
        /\ call[c] \in IF pc[c] = "idle" THEN {NoCall} ELSE GroupCalls(clock')
        /\ pc[c] = "create" => call[c].op = "apply"
        /\ clock \in Nat /\ call[c] \in Calls
    BY <1>1, CallsStayValid DEF ValidCalls, TypeOK
  <1>4. ASSUME now'[c] = now[c], call'[c] = call[c],
               pc'[c] = pc[c] \/ (pc[c] # "idle" /\ pc'[c] \in {"get", "update"})
        PROVE  ValidNext(c)
    BY <1>3, <1>4 DEF ValidNext
  <1>5. ASSUME NEW d \in Clients, PodStep(d), d # c PROVE ValidNext(c)
    <2>1. pc'[c] = pc[c] /\ call'[c] = call[c] /\ now'[c] = now[c]
      BY <1>5 DEF PodStep, StartApply, StartMerge, StartClear, Start, Get, GetFails, Create, Update,
                  WriteFails, WriteTimesOut, Return, Retry, TypeOK
    <2> QED
      BY <1>4, <2>1
  <1>6. CASE StartApply(c) \/ StartMerge(c) \/ StartClear(c)
    <2>1. CASE StartApply(c)
      BY <1>3, <2>1, FeedAssumption DEF StartApply, Start, TypeOK, GroupCalls, ValidNext
    <2>2. CASE StartMerge(c)
      BY <1>3, <2>2 DEF StartMerge, Start, TypeOK, GroupCalls, ValidNext
    <2>3. CASE StartClear(c)
      BY <1>3, <2>3 DEF StartClear, Start, TypeOK, GroupCalls, ValidNext
    <2> QED
      BY <1>6, <2>1, <2>2, <2>3
  <1>7. ASSUME NEW result \in BOOLEAN, Return(c, result) PROVE ValidNext(c)
    <2>1. pc'[c] = "idle" /\ call'[c] = NoCall /\ now'[c] = now[c]
      BY <1>7 DEF Return, TypeOK
    <2> QED
      BY <1>3, <2>1 DEF ValidNext
  <1>8. ASSUME pc[c] # "idle", Retry(c) PROVE ValidNext(c)
    <2>1. CASE Return(c, FALSE)
      BY <1>7, <2>1
    <2>2. CASE ~Return(c, FALSE)
      <3>1. pc'[c] = "get" /\ call'[c] = call[c] /\ now'[c] = now[c]
        BY <1>8, <2>2 DEF Retry, TypeOK
      <3> QED
        BY <1>4, <1>8, <3>1
    <2> QED
      BY <2>1, <2>2
  <1>9. CASE Get(c) /\ ~Return(c, TRUE) /\ ~Return(c, FALSE)
    <2>1. /\ call'[c] = call[c] /\ now'[c] = now[c] /\ pc[c] # "idle"
          /\ pc'[c] \in {"update", "create"} /\ (pc'[c] = "create" => call[c].op = "apply")
      BY <1>9 DEF Get, TypeOK
    <2> QED
      BY <1>3, <2>1 DEF ValidNext
  <1>10. ASSUME PodStep(c), ~StartApply(c), ~StartMerge(c), ~StartClear(c), ~Get(c)
         PROVE  pc[c] # "idle" /\ (Return(c, TRUE) \/ Return(c, FALSE) \/ Retry(c))
    BY <1>10 DEF PodStep, GetFails, Create, Update, WriteFails, WriteTimesOut
  <1>11. CASE UNCHANGED pods
    BY <1>4, <1>11 DEF pods
  <1>12. (\E d \in Clients : PodStep(d)) \/ UNCHANGED pods
    BY DEF Next, Land, Administer, Tick, vars
  <1> QED
    BY <1>5, <1>6, <1>7, <1>8, <1>9, <1>10, <1>11, <1>12

\* A pod that reaches its update has either just read the object or kept the
\* snapshot it had.
LEMMA SnapshotsInvariant ==
    ASSUME IInv, [Next]_vars
    PROVE  CurrentSnapshots'
  <1> USE DEF IInv, VersionsGuardWrites
  <1>1. (rv' = rv /\ group' = group) \/ rv' = rv + 1
    BY WorldStep
  <1>2. SUFFICES ASSUME NEW c \in Clients, pc'[c] = "update"
        PROVE  /\ seen'[c].rv <= rv'
               /\ seen'[c].rv = rv' => seen'[c].group = group' /\ isManagedByUs(group')
    BY DEF CurrentSnapshots
  <1>3. CASE pc[c] = "update" /\ seen'[c] = seen[c]
    BY <1>1, <1>3, SnapshotStaysCurrent
  <1>4. CASE Get(c)
    BY <1>2, <1>4 DEF Get, Return, TypeOK
  <1>5. CASE PodStep(c) /\ ~Get(c)
    BY <1>2, <1>5 DEF PodStep, StartApply, StartMerge, StartClear, Start, GetFails, Create, Update,
                      WriteFails, WriteTimesOut, Return, Retry, TypeOK
  <1>6. ASSUME NEW d \in Clients, d # c, PodStep(d)
        PROVE  pc'[c] = pc[c] /\ seen'[c] = seen[c]
    BY <1>6 DEF PodStep, StartApply, StartMerge, StartClear, Start, Get, GetFails, Create, Update,
                WriteFails, WriteTimesOut, Return, Retry, TypeOK
  <1>7. CASE UNCHANGED pods
    BY <1>2, <1>3, <1>7 DEF pods
  <1>8. (\E d \in Clients : PodStep(d)) \/ UNCHANGED pods
    BY DEF Next, Land, Administer, Tick, vars
  <1> QED
    BY <1>2, <1>3, <1>4, <1>5, <1>6, <1>7, <1>8

\* A request that is put on the wire is what its pod's snapshot says.
LEMMA RequestsInvariant ==
    ASSUME IInv, [Next]_vars
    PROVE  CurrentRequests'
  <1> USE DEF IInv, VersionsGuardWrites
  <1>1. CASE wire' \subseteq wire
    BY <1>1, WorldStep, RequestsStayCurrent
  <1>2. ASSUME NEW c \in Clients, WriteTimesOut(c)
        PROVE  CurrentRequests'
    <2> DEFINE request == [kind |-> pc[c], rv |-> seen[c].rv, call |-> call[c],
                           object |-> IF pc[c] = "create" THEN Created(call[c])
                                                          ELSE Desired(call[c], seen[c].group)]
    <2>1. /\ wire' = wire \cup {request}
          /\ rv' = rv /\ group' = group /\ clock' = clock
          /\ pc[c] \in {"create", "update"}
      BY <1>2 DEF WriteTimesOut
    <2>2. request.call = call[c] /\ request.call \in GroupCalls(clock)
      BY <2>1 DEF ValidCalls
    <2>3. CASE pc[c] = "create"
      <3>1. /\ request.kind = "create" /\ request.object = Created(request.call)
            /\ request.call.op = "apply"
        BY <2>3 DEF ValidCalls
      <3> HIDE DEF request
      <3> QED
        BY <2>1, <2>2, <3>1 DEF CurrentRequests
    <2>4. CASE pc[c] = "update"
      <3>1. /\ request.kind = "update" /\ request.rv = seen[c].rv
            /\ request.object = Desired(request.call, seen[c].group)
        BY <2>4
      <3>2. /\ seen[c].rv <= rv
            /\ seen[c].rv = rv => seen[c].group = group /\ isManagedByUs(group)
        BY <2>4 DEF CurrentSnapshots
      <3> HIDE DEF request
      <3> QED
        BY <2>1, <2>2, <3>1, <3>2 DEF CurrentRequests
    <2> QED
      BY <2>1, <2>3, <2>4
  <1>3. wire' \subseteq wire \/ \E c \in Clients : WriteTimesOut(c)
    BY DEF Next, PodStep, StartApply, StartMerge, StartClear, Start, Get, GetFails, Create, Update,
           WriteFails, Land, Administer, Tick, vars
  <1> QED
    BY <1>1, <1>2, <1>3

\* The invariant is inductive.
THEOREM Invariant == Spec => []IInv
  <1>1. Init => IInv
    BY InitType, InitVersions DEF IInv
  <1>2. IInv /\ [Next]_vars => IInv'
    BY NextType, CallsInvariant, SnapshotsInvariant, RequestsInvariant DEF IInv, VersionsGuardWrites
  <1> QED
    BY <1>1, <1>2, PTL DEF Spec

\* Whenever a version matches at the API server, the content a pod (or a request
\* its client has given up on) was computed from is the current one.
THEOREM VersionsGuard == Spec => []VersionsGuardWrites
  <1>1. IInv => VersionsGuardWrites
    BY DEF IInv
  <1> QED
    BY <1>1, Invariant, PTL

-----------------------------------------------------------------------------
(* The detailed loops implement the atomic operations. *)

\* The functions on objects are the same on both levels.
LEMMA SameFunctions ==
    /\ Atomic!NoCall = NoCall /\ Atomic!NoGroup = NoGroup
    /\ \A t : Atomic!GroupCalls(t) = GroupCalls(t)
    /\ \A obj : Atomic!isManagedByUs(obj) = isManagedByUs(obj)
    /\ \A a : Atomic!Created(a) = Created(a)
    /\ \A a, obj : Atomic!Desired(a, obj) = Desired(a, obj)
  BY DEF NoTime, Atomic!NoTime, NoCall, Atomic!NoCall, NoGroup, Atomic!NoGroup,
         GroupCalls, Atomic!GroupCalls, isManagedByUs, Atomic!isManagedByUs,
         buildObject, Atomic!buildObject, Created, Atomic!Created,
         mergeAnnotations, Atomic!mergeAnnotations, AppliedTo, Atomic!AppliedTo,
         MarkedAt, Atomic!MarkedAt, Desired, Atomic!Desired

\* The calls on the wire, the abstract lost.
Lost == {r.call : r \in wire}

\* A pod in a call is in one that main.go makes; an idle one is in none.
LEMMA InCall ==
    ASSUME IInv, NEW c \in Clients
    PROVE  /\ pc[c] = "idle" => call[c] = NoCall
           /\ pc[c] # "idle" => call[c] \in GroupCalls(clock) /\ call[c] # NoCall
  <1>1. NoCall \notin GroupCalls(clock)
    BY GroupCallsType DEF IInv, TypeOK
  <1>2. call[c] \in IF pc[c] = "idle" THEN {NoCall} ELSE GroupCalls(clock)
    BY DEF IInv, VersionsGuardWrites, ValidCalls
  <1> QED
    BY <1>1, <1>2

\* A call that returns an error without an effect fails, whether or not its
\* request stays on the wire.
LEMMA FailIsAtomic ==
    ASSUME IInv, NEW c \in Clients, pc[c] # "idle", Return(c, FALSE), UNCHANGED <<group, clock>>,
           Lost' \in {Lost, Lost \cup {call[c]}}
    PROVE  Atomic!Fail(c)
  BY InCall, SameFunctions DEF Return, Atomic!Fail, Atomic!Returns, Lost

\* A call that returns no error has taken effect, or had nothing to do.
LEMMA SucceedIsAtomic ==
    ASSUME IInv, NEW c \in Clients, pc[c] # "idle", Return(c, TRUE), UNCHANGED <<clock, wire>>,
           Atomic!TakesEffect(call[c]) \/ Atomic!NothingToMark(call[c])
    PROVE  Atomic!Succeed(c)
  BY InCall, SameFunctions DEF Return, Atomic!Succeed, Atomic!Returns

\* After a conflict the call goes on, or fails.
LEMMA RetryIsAtomic ==
    ASSUME IInv, NEW c \in Clients, pc[c] # "idle", Retry(c), UNCHANGED <<group, clock, wire>>
    PROVE  Atomic!Fail(c) \/ UNCHANGED Atomic!vars
  <1>1. CASE Return(c, FALSE)
    BY <1>1, FailIsAtomic DEF Lost
  <1>2. CASE ~Return(c, FALSE)
    BY <1>2 DEF Retry, Atomic!vars
  <1> QED
    BY <1>1, <1>2

\* Whatever a pod does is the begin or the end of a call, or not to be seen.
LEMMA PodIsAtomic ==
    ASSUME IInv, NEW c \in Clients, PodStep(c)
    PROVE  Atomic!Begin(c) \/ Atomic!Succeed(c) \/ Atomic!Fail(c) \/ UNCHANGED Atomic!vars
  <1> USE DEF IInv, VersionsGuardWrites
  <1>1. CASE StartApply(c) \/ StartMerge(c) \/ StartClear(c)
    <2>1. PICK a \in GroupCalls(clock) : Start(c, a)
      <3>1. clock \in 0 .. clock
        BY DEF TypeOK
      <3>2. CASE StartApply(c)
        BY <3>1, <3>2, FeedAssumption DEF StartApply, GroupCalls
      <3>3. CASE StartMerge(c)
        BY <3>3 DEF StartMerge, GroupCalls, ValidCalls
      <3>4. CASE StartClear(c)
        BY <3>1, <3>4 DEF StartClear, GroupCalls
      <3> QED
        BY <1>1, <3>2, <3>3, <3>4
    <2> QED
      BY <2>1, InCall, SameFunctions DEF Start, Atomic!Begin
  <1>2. CASE Get(c)
    <2>1. pc[c] # "idle" /\ UNCHANGED <<group, clock, wire>>
      BY <1>2 DEF Get
    <2>2. CASE Return(c, FALSE)
      BY <2>1, <2>2, FailIsAtomic DEF Lost
    <2>3. CASE Return(c, TRUE)
      <3>1. /\ call[c].op = "merge"
            /\ ~group.exists \/ (isManagedByUs(group) /\ group.cfOK = call[c].success)
        <4>1. pc'[c] = "idle" /\ ok'[c] = TRUE
          BY <2>3 DEF Return, TypeOK
        <4>2. ~Return(c, FALSE)
          BY <4>1 DEF Return, TypeOK
        <4>3. pc' # [pc EXCEPT ![c] = IF group.exists THEN "update" ELSE "create"]
          BY <4>1 DEF TypeOK
        <4> QED
          BY <1>2, <4>2, <4>3 DEF Get
      <3>2. isManagedByUs(group) /\ group.cfOK = call[c].success => group = Desired(call[c], group)
        BY <3>1 DEF Desired, MarkedAt, TypeOK, Groups
      <3>3. Atomic!TakesEffect(call[c]) \/ Atomic!NothingToMark(call[c])
        BY <2>1, <3>1, <3>2, SameFunctions DEF Atomic!TakesEffect, Atomic!NothingToMark
      <3> QED
        BY <2>1, <2>3, <3>3, SucceedIsAtomic
    <2>4. CASE ~Return(c, FALSE) /\ ~Return(c, TRUE)
      BY <1>2, <2>4 DEF Get, Atomic!vars
    <2> QED
      BY <2>2, <2>3, <2>4
  <1>3. CASE GetFails(c) \/ WriteFails(c)
    BY <1>3, FailIsAtomic DEF GetFails, WriteFails, Lost
  <1>4. CASE Create(c)
    <2>1. pc[c] = "create" /\ call[c].op = "apply" /\ UNCHANGED <<clock, wire>>
      BY <1>4 DEF Create, ValidCalls
    <2>2. CASE ~group.exists /\ Store(Created(call[c])) /\ Return(c, TRUE)
      BY <2>1, <2>2, SucceedIsAtomic, SameFunctions DEF Store, Atomic!TakesEffect
    <2>3. CASE Retry(c) /\ UNCHANGED <<group, rv>>
      BY <2>1, <2>3, RetryIsAtomic
    <2> QED
      BY <1>4, <2>2, <2>3 DEF Create
  <1>5. CASE Update(c)
    <2>1. pc[c] = "update" /\ UNCHANGED <<clock, wire>>
      BY <1>5 DEF Update
    <2>2. CASE Matches(seen[c].rv) /\ Store(Desired(call[c], seen[c].group)) /\ Return(c, TRUE)
      <3>1. seen[c].group = group /\ isManagedByUs(group)
        BY <2>1, <2>2 DEF CurrentSnapshots, Matches
      <3> QED
        BY <2>1, <2>2, <3>1, SucceedIsAtomic, SameFunctions DEF Store, Atomic!TakesEffect
    <2>3. CASE Retry(c) /\ UNCHANGED <<group, rv>>
      BY <2>1, <2>3, RetryIsAtomic
    <2>4. CASE Return(c, FALSE) /\ UNCHANGED <<group, rv>>
      BY <2>1, <2>4, FailIsAtomic DEF Lost
    <2> QED
      BY <1>5, <2>2, <2>3, <2>4 DEF Update
  <1>6. CASE WriteTimesOut(c)
    <2>1. Lost' = Lost \cup {call[c]}
      <3>1. PICK request : request.call = call[c] /\ wire' = wire \cup {request}
        <4> DEFINE sent == [kind |-> pc[c], rv |-> seen[c].rv, call |-> call[c],
                            object |-> IF pc[c] = "create" THEN Created(call[c])
                                                           ELSE Desired(call[c], seen[c].group)]
        <4>1. sent.call = call[c]
          OBVIOUS
        <4>2. wire' = wire \cup {sent}
          BY <1>6 DEF WriteTimesOut
        <4> QED
          BY <4>1, <4>2
      <3> QED
        BY <3>1 DEF Lost
    <2> QED
      BY <1>6, <2>1, FailIsAtomic DEF WriteTimesOut
  <1> QED
    BY <1>1, <1>2, <1>3, <1>4, <1>5, <1>6 DEF PodStep

\* A request that lands is what its call would write now, or is refused.
LEMMA LandIsAtomic ==
    ASSUME IInv, NEW r \in wire, Land(r)
    PROVE  /\ Atomic!LostLands
           /\ group' = group \/ \E a \in GroupCalls(clock) : Atomic!TakesEffect(a)
  <1> USE DEF IInv, VersionsGuardWrites
  <1>1. r.call \in Lost /\ r.call \in GroupCalls(clock)
    BY DEF Lost, CurrentRequests
  <1>2. Atomic!TakesEffect(r.call) \/ UNCHANGED group
    <2>1. CASE r.kind = "create" /\ ~group.exists
      BY <2>1, SameFunctions DEF Land, Store, CurrentRequests, Atomic!TakesEffect
    <2>2. CASE r.kind = "update" /\ Matches(r.rv)
      BY <2>2, SameFunctions DEF Land, Store, Matches, CurrentRequests, Atomic!TakesEffect
    <2> QED
      BY <2>1, <2>2 DEF Land
  <1>3. Lost' \in {Lost, Lost \ {r.call}}
    BY DEF Land, Lost
  <1> QED
    BY <1>1, <1>2, <1>3 DEF Land, pods, Lost, Atomic!LostLands

\* Somebody else's write.
LEMMA AdministerIsAtomic ==
    ASSUME Administer
    PROVE  Atomic!Outside
  BY SameFunctions DEF Administer, pods, Atomic!Outside

\* Apply and MergeAnnotations, with their retries, conflicts, timeouts and any
\* number of pods, are atomic operations on the latest content of the object,
\* and return without an error exactly when theirs took place.
THEOREM Refinement == Spec => RefinesAtomicGroup
  <1>1. Init => Atomic!Init
    BY SameFunctions DEF Init, Atomic!Init
  <1>2. IInv /\ [Next]_vars => [Atomic!Next]_(Atomic!vars)
    <2> SUFFICES ASSUME IInv, [Next]_vars PROVE [Atomic!Next]_(Atomic!vars)
      OBVIOUS
    <2>1. ASSUME NEW c \in Clients, PodStep(c) PROVE [Atomic!Next]_(Atomic!vars)
      BY <2>1, PodIsAtomic DEF Atomic!Next
    <2>2. ASSUME NEW r \in wire, Land(r) PROVE Atomic!Next
      BY <2>2, LandIsAtomic DEF Atomic!Next
    <2>3. CASE Administer
      BY <2>3, AdministerIsAtomic DEF Atomic!Next
    <2>4. CASE Tick
      BY <2>4 DEF Tick, pods, Atomic!Tick, Atomic!Next
    <2>5. CASE UNCHANGED vars
      BY <2>5 DEF vars, pods, Atomic!vars
    <2> QED
      BY <2>1, <2>2, <2>3, <2>4, <2>5 DEF Next
  <1> QED
    BY <1>1, <1>2, Invariant, PTL DEF Spec, RefinesAtomicGroup, Atomic!Spec

-----------------------------------------------------------------------------
(* The properties of the object. *)

\* A call the code can have made takes effect.
Operation == \E a \in GroupCalls(clock) : Atomic!TakesEffect(a)

\* A change of the content is the operation of a pod or of a request that lands,
\* and if not, somebody else's write.
LEMMA Changes ==
    ASSUME IInv, [Next]_vars, group' # group
    PROVE  \/ Operation /\ admin' = admin
           \/ Atomic!Outside /\ admin' = admin + 1
  <1>1. ASSUME NEW c \in Clients, PodStep(c)
        PROVE  Operation /\ admin' = admin
    <2>1. admin' = admin
      BY <1>1 DEF PodStep, StartApply, StartMerge, StartClear, Start, Get, GetFails, Create, Update,
                  WriteFails, WriteTimesOut
    <2>2. Atomic!Succeed(c)
      BY <1>1, PodIsAtomic DEF Atomic!Begin, Atomic!Fail, Atomic!vars
    <2>3. Atomic!TakesEffect(call[c]) /\ call[c] # NoCall
      BY <2>2, SameFunctions DEF Atomic!Succeed, Atomic!NothingToMark, Atomic!Returns
    <2>4. call[c] \in GroupCalls(clock)
      BY <2>3, InCall
    <2> QED
      BY <2>1, <2>3, <2>4 DEF Operation
  <1>2. ASSUME NEW r \in wire, Land(r)
        PROVE  Operation /\ admin' = admin
    BY <1>2, LandIsAtomic DEF Land, Operation
  <1>3. CASE Administer
    BY <1>3, AdministerIsAtomic DEF Administer
  <1> QED
    BY <1>1, <1>2, <1>3 DEF Next, Tick, vars

\* What an operation may do to an object that is already there.
LEMMA OperationEffect ==
    ASSUME TypeOK, Operation, group.exists
    PROVE  /\ isManagedByUs(group) /\ isManagedByUs(group')
           /\ \/ group'.cfOK = group.cfOK /\ group'.cleared = NoTime
              \/ /\ group'.cidrs = NoCIDRs /\ group'.cfOK = group.cfOK
                 /\ group'.lastOK = group.lastOK /\ group'.cleared # NoTime
              \/ group' = MarkedAt(group, group'.cfOK) /\ group'.cfOK # NoTime
  <1>0. group \in Groups /\ clock \in Nat
    BY DEF TypeOK
  <1>1. PICK a \in GroupCalls(clock) : isManagedByUs(group) /\ group' = Desired(a, group)
    BY SameFunctions DEF Operation, Atomic!TakesEffect
  <1>2. CASE a.op = "apply"
    <2>1. /\ group' = [exists |-> TRUE, managed |-> TRUE, cidrs |-> a.cidrs,
                       lastOK |-> IF a.success = NoTime THEN group.lastOK ELSE a.success,
                       cfOK |-> group'.cfOK, cleared |-> a.clear]
          /\ group'.cfOK = group.cfOK
      BY <1>0, <1>1, <1>2 DEF Desired, AppliedTo, mergeAnnotations, buildObject, NoTime, Groups, Times
    <2>2. a.clear = NoTime \/ (a.cidrs = NoCIDRs /\ a.success = NoTime /\ a.clear # NoTime)
      BY <1>0, <1>2 DEF GroupCalls, NoTime
    <2> QED
      BY <1>1, <2>1, <2>2 DEF isManagedByUs
  <1>3. CASE a.op = "merge"
    <2>1. a.success \in 0 .. clock /\ group' = MarkedAt(group, a.success)
      BY <1>1, <1>3 DEF Desired, GroupCalls
    <2> QED
      BY <1>0, <1>1, <2>1 DEF MarkedAt, isManagedByUs, Groups, NoTime
  <1> QED
    BY <1>2, <1>3 DEF GroupCalls

\* Where somebody else writes, a managed object does not stay managed.
LEMMA OutsideEffect ==
    ASSUME TypeOK, Atomic!Outside
    PROVE  ~isManagedByUs(group')
  <1>1. CASE group' = NoGroup
    BY <1>1 DEF isManagedByUs, NoGroup
  <1>2. ASSUME NEW l \in Lists, group' = [NoGroup EXCEPT !.exists = TRUE, !.cidrs = l]
        PROVE  ~group'.managed
    BY <1>2 DEF NoGroup
  <1>3. CASE group' = [group EXCEPT !.managed = FALSE]
    BY <1>3 DEF TypeOK, Groups, isManagedByUs
  <1> QED
    BY <1>1, <1>2, <1>3, SameFunctions DEF Atomic!Outside, isManagedByUs

\* An object without the managed-by label is changed by its owner only.
THEOREM ForeignSafe == Spec => ForeignUntouched
  <1>1. IInv /\ [Next]_vars => [group.exists /\ ~isManagedByUs(group) => group' = group \/ admin' # admin]_vars
    <2> SUFFICES ASSUME IInv, [Next]_vars, group.exists, ~isManagedByUs(group), group' # group
                 PROVE  admin' # admin
      OBVIOUS
    <2>1. TypeOK /\ admin \in Nat
      BY DEF IInv, TypeOK
    <2>2. ~Operation
      BY <2>1, OperationEffect
    <2> QED
      BY <2>1, <2>2, Changes
  <1> QED
    BY <1>1, Invariant, PTL DEF Spec, ForeignUntouched

\* A list update keeps the Cloudflare marker and a marker update keeps the list.
THEOREM SinksSafe == Spec => SinksDoNotClobber
  <1>1. IInv /\ [Next]_vars =>
          [ isManagedByUs(group) /\ isManagedByUs(group') /\ group'.cfOK # group.cfOK
              => group' = MarkedAt(group, group'.cfOK) /\ group'.cfOK # NoTime ]_vars
    <2> SUFFICES ASSUME IInv, [Next]_vars, isManagedByUs(group), isManagedByUs(group'),
                        group'.cfOK # group.cfOK
                 PROVE  group' = MarkedAt(group, group'.cfOK) /\ group'.cfOK # NoTime
      OBVIOUS
    <2>1. TypeOK /\ group.exists /\ group' # group
      BY DEF IInv, isManagedByUs
    <2> QED
      BY <2>1, Changes, OutsideEffect, OperationEffect
  <1> QED
    BY <1>1, Invariant, PTL DEF Spec, SinksDoNotClobber

\* The fail-open clear keeps the time of the last success.
THEOREM ClearSafe == Spec => ClearKeepsLastSuccess
  <1>1. IInv /\ [Next]_vars =>
          [ isManagedByUs(group) /\ isManagedByUs(group')
            /\ group'.cleared \notin {NoTime, group.cleared}
              => group'.lastOK = group.lastOK /\ group'.cidrs = NoCIDRs ]_vars
    <2> SUFFICES ASSUME IInv, [Next]_vars, isManagedByUs(group), isManagedByUs(group'),
                        group'.cleared # NoTime, group'.cleared # group.cleared
                 PROVE  group'.lastOK = group.lastOK /\ group'.cidrs = NoCIDRs
      OBVIOUS
    <2>1. TypeOK /\ group.exists /\ group' # group
      BY DEF IInv, isManagedByUs
    <2>2. Operation
      BY <2>1, Changes, OutsideEffect DEF IInv
    <2>3. group' # MarkedAt(group, group'.cfOK)
      BY <2>1 DEF MarkedAt, TypeOK, Groups
    <2> QED
      BY <2>1, <2>2, <2>3, OperationEffect
  <1> QED
    BY <1>1, Invariant, PTL DEF Spec, ClearKeepsLastSuccess

\* A group that says it was cleared on purpose holds no prefix.
THEOREM ClearedSafe == Spec => []ClearedMeansEmpty
  <1>1. Init => ClearedMeansEmpty
    BY DEF Init, ClearedMeansEmpty, NoGroup, isManagedByUs
  <1>2. IInv /\ ClearedMeansEmpty /\ [Next]_vars => ClearedMeansEmpty'
    <2> SUFFICES ASSUME IInv, ClearedMeansEmpty, [Next]_vars,
                        isManagedByUs(group'), group'.cleared # NoTime, group' # group
                 PROVE  group'.cidrs = NoCIDRs
      BY DEF ClearedMeansEmpty
    <2>1. TypeOK /\ Operation
      BY Changes, OutsideEffect DEF IInv
    <2>2. CASE group.exists
      <3>1. CASE group' = MarkedAt(group, group'.cfOK)
        <4>1. group'.cidrs = group.cidrs /\ group'.cleared = group.cleared
          BY <2>1, <3>1 DEF MarkedAt, TypeOK, Groups
        <4> QED
          BY <2>1, <2>2, <4>1, OperationEffect DEF ClearedMeansEmpty
      <3> QED
        BY <2>1, <2>2, <3>1, OperationEffect
    <2>3. CASE ~group.exists
      <3>1. PICK a \in GroupCalls(clock) : group' = Created(a) /\ a.op = "apply"
        BY <2>1, <2>3, SameFunctions DEF Operation, Atomic!TakesEffect, isManagedByUs
      <3>2. a.clear # NoTime => a.cidrs = NoCIDRs
        BY <3>1 DEF GroupCalls
      <3> QED
        BY <3>1, <3>2 DEF Created, buildObject
    <2> QED
      BY <2>2, <2>3
  <1> QED
    BY <1>1, <1>2, Invariant, PTL DEF Spec
=============================================================================
