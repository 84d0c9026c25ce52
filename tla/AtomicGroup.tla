---------------------------- MODULE AtomicGroup ----------------------------
(***************************************************************************)
(* What k8s.go promises its caller of the CIDR group: whatever the         *)
(* interleaving of Gets, Updates, conflicts, retries and delayed requests  *)
(* of several pods, a call that returns no error has taken effect at one   *)
(* moment between its begin and its end, on the latest content; one that   *)
(* returns an error has not, but may still do so later, and as a whole;    *)
(* and an object that another manager owns is left alone.  CIDRGroup is    *)
(* shown to implement this.                                                *)
(***************************************************************************)
EXTENDS GroupObject

CONSTANT Clients   \* the pods

VARIABLES
    group,   \* the content of the object
    clock,   \* the latest time any pod has seen
    call,    \* call[c]: the call pod c is in, or NoCall
    ok,      \* ok[c]: the latest call of pod c has returned no error
    lost     \* calls that returned an error and may take effect yet

vars == <<group, clock, call, ok, lost>>

Init ==
    /\ group = NoGroup /\ clock = 0 /\ lost = {}
    /\ call = [c \in Clients |-> NoCall] /\ ok = [c \in Clients |-> FALSE]

Begin(c) ==
    /\ call[c] = NoCall
    /\ \E a \in GroupCalls(clock) : call' = [call EXCEPT ![c] = a]
    /\ ok' = [ok EXCEPT ![c] = FALSE]
    /\ UNCHANGED <<group, clock, lost>>

\* A call takes effect: Apply creates the object or replaces its content,
\* MergeAnnotations changes the Cloudflare marker only.
TakesEffect(a) ==
    \/ a.op = "apply" /\ ~group.exists /\ group' = Created(a)
    \/ isManagedByUs(group) /\ group' = Desired(a, group)

NothingToMark(a) == a.op = "merge" /\ ~group.exists /\ UNCHANGED group

Returns(c, result) ==
    /\ call[c] # NoCall
    /\ call' = [call EXCEPT ![c] = NoCall] /\ ok' = [ok EXCEPT ![c] = result]
    /\ UNCHANGED clock

Succeed(c) ==
    /\ Returns(c, TRUE)
    /\ TakesEffect(call[c]) \/ NothingToMark(call[c])
    /\ UNCHANGED lost

Fail(c) ==
    /\ Returns(c, FALSE)
    /\ lost' \in {lost, lost \cup {call[c]}}
    /\ UNCHANGED group

LostLands ==
    /\ \E a \in lost : /\ TakesEffect(a) \/ UNCHANGED group
                      /\ lost' \in {lost, lost \ {a}}
    /\ UNCHANGED <<clock, call, ok>>

\* Whoever else may write the object.
Outside ==
    /\ \/ group' = NoGroup
       \/ ~group.exists /\ \E l \in Lists : group' = [NoGroup EXCEPT !.exists = TRUE, !.cidrs = l]
       \/ isManagedByUs(group) /\ group' = [group EXCEPT !.managed = FALSE]
    /\ UNCHANGED <<clock, call, ok, lost>>

Tick == clock' = clock + 1 /\ UNCHANGED <<group, call, ok, lost>>

Next == (\E c \in Clients : Begin(c) \/ Succeed(c) \/ Fail(c)) \/ LostLands \/ Outside \/ Tick

Spec == Init /\ [][Next]_vars
=============================================================================
