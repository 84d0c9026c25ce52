---------------------------- MODULE GroupObject ----------------------------
(***************************************************************************)
(* The CiliumCIDRGroup object as k8s.go reads and writes it: one record    *)
(* for the parts of the object the synchronizer looks at, and the pure     *)
(* functions that build its next content.                                  *)
(*                                                                         *)
(* A list of prefixes is an opaque member of Lists here; a time is a       *)
(* natural number, and NoTime stands both for Go's zero time.Time and for  *)
(* an annotation that is missing or does not parse.                        *)
(***************************************************************************)
EXTENDS Integers

CONSTANTS
    Lists,      \* the lists of prefixes a group or a feed can hold
    NoCIDRs     \* the empty list

ASSUME ListAssumption == NoCIDRs \in Lists

NoTime == -1
Times == Nat \cup {NoTime}

\* What the synchronizer sees of the object (GroupState, plus the stale
\* annotation that only Apply writes).
Groups == [exists  : BOOLEAN,
           managed : BOOLEAN,    \* label app.kubernetes.io/managed-by
           cidrs   : Lists,      \* spec.externalCIDRs
           lastOK  : Times,      \* abuseipdb.io/last-success
           cfOK    : Times,      \* abuseipdb.io/cloudflare-last-success
           cleared : Times]      \* abuseipdb.io/stale-cleared-at

\* The state Get returns for an object that is not found.
NoGroup == [exists |-> FALSE, managed |-> FALSE, cidrs |-> NoCIDRs,
            lastOK |-> NoTime, cfOK |-> NoTime, cleared |-> NoTime]

isManagedByUs(obj) == obj.exists /\ obj.managed

\* A fresh object that carries the controller's labels and no annotation of
\* an earlier write.
buildObject(desired, successTime, clearTime) ==
    [exists |-> TRUE, managed |-> TRUE, cidrs |-> desired,
     lastOK |-> successTime, cfOK |-> NoTime, cleared |-> clearTime]

\* Mutants of mergeAnnotations (see the README): the marker of the other sink
\* is not carried over; the last success is not; every annotation is.
mergeDropsMarker(dst, src, successTime) ==
    [dst EXCEPT !.lastOK = IF successTime = NoTime THEN src.lastOK ELSE @]
mergeDropsSuccess(dst, src, successTime) ==
    [dst EXCEPT !.cfOK = IF src.cfOK # NoTime THEN src.cfOK ELSE @]
mergeKeepsAll(dst, src, successTime) ==
    [dst EXCEPT !.lastOK  = IF successTime = NoTime THEN src.lastOK ELSE @,
                !.cfOK    = IF src.cfOK # NoTime THEN src.cfOK ELSE @,
                !.cleared = IF @ = NoTime THEN src.cleared ELSE @]

\* What Apply carries over from the object it replaces: last-success only if
\* this write records none, the Cloudflare marker always, stale-cleared-at
\* never.
mergeAnnotations(dst, src, successTime) ==
    [dst EXCEPT !.lastOK = IF successTime = NoTime THEN src.lastOK ELSE @,
                !.cfOK   = IF src.cfOK # NoTime THEN src.cfOK ELSE @]

\* The content Apply's Update writes over obj.
AppliedTo(obj, desired, successTime, clearTime) ==
    mergeAnnotations(buildObject(desired, successTime, clearTime), obj, successTime)

\* The content MergeAnnotations writes over obj: the caller sets one key only.
MarkedAt(obj, t) == [obj EXCEPT !.cfOK = t]

\* The calls main.go has made by the time t: Apply with a validated list, the
\* fail-open clear, and MergeAnnotations with the Cloudflare marker, each with a
\* time captured before.
GroupCalls(t) ==
    [op : {"apply"}, cidrs : Lists, success : 0 .. t, clear : {NoTime}]
    \cup [op : {"apply"}, cidrs : {NoCIDRs}, success : {NoTime}, clear : 0 .. t]
    \cup [op : {"merge"}, cidrs : {NoCIDRs}, success : 0 .. t, clear : {NoTime}]
NoCall == [op |-> "apply", cidrs |-> NoCIDRs, success |-> NoTime, clear |-> NoTime]

\* The object call a creates, and the content it writes over obj.
Created(a) == buildObject(a.cidrs, a.success, a.clear)
Desired(a, obj) ==
    IF a.op = "apply" THEN AppliedTo(obj, a.cidrs, a.success, a.clear)
                      ELSE MarkedAt(obj, a.success)
=============================================================================
