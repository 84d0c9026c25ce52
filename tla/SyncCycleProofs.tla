-------------------------- MODULE SyncCycleProofs --------------------------
(***************************************************************************)
(* Proofs about SyncCycle for every configuration, every set of            *)
(* environments and any number of faults.  The first part holds under      *)
(* every kind of fault; the second names the kinds it excludes, as the     *)
(* runs do.                                                                *)
(***************************************************************************)
EXTENDS SyncCycle, TLAPS

\* ApplyCilium has a time to record, and none older than what memory holds.
NowKnown ==
    pc = "cilium" =>
        now # NoTime /\ (lastSuccess # NoTime => now <= lastSuccess)

\* An object that is not there has no prefixes.
NoneMissing == ~group.exists => group.cidrs = NoCIDRs

\* What the shrink guard has let pass is still good when it is written.
Guarded == pc = "cilium" => ~ShrinkRefused

IInv == TypeOK /\ ListCarriesItsAge /\ NowKnown /\ NoneMissing /\ Guarded

-----------------------------------------------------------------------------
(* Ages, objects and sinks. *)

\* The values at the start have their types, and no time is not an age.
LEMMA Starts ==
    /\ NoTime \in AgesOrNone /\ 0 \in AgesOrNone /\ 0 # NoTime /\ NoCIDRs \in Lists
    /\ AgesOrNone \subseteq Times /\ MaxFaults \in Nat
  BY ConfigAssumption, ListAssumption DEF AgesOrNone, Ages, NoTime, Times

\* Growing older keeps an age an age, and the order of two.
LEMMA OlderAge ==
    ASSUME NEW a \in AgesOrNone
    PROVE  /\ Older(a) \in AgesOrNone /\ (Older(a) = NoTime <=> a = NoTime)
           /\ \A b \in AgesOrNone : a # NoTime /\ b # NoTime /\ a <= b => Older(a) <= Older(b)
  BY ConfigAssumption DEF Older, Ages, AgesOrNone, NoTime

TypedGroup(g) == g \in Groups /\ {g.lastOK, g.cfOK, g.cleared} \subseteq AgesOrNone

\* Apply writes a managed object with the list, the new time if there is one,
\* and else the time the object had.
LEMMA AppliedIs ==
    ASSUME TypedGroup(group), NEW l \in Lists, NEW s \in AgesOrNone, NEW c \in AgesOrNone
    PROVE  /\ TypedGroup(Applied(l, s, c))
           /\ isManagedByUs(Applied(l, s, c)) /\ Applied(l, s, c).exists
           /\ Applied(l, s, c).cidrs = l
           /\ s # NoTime => Applied(l, s, c).lastOK = s
  BY Starts DEF TypedGroup, Applied, AppliedTo, mergeAnnotations, buildObject, Groups, isManagedByUs

\* An Apply that fails leaves the object alone unless its reply was lost.
LEMMA ApplyFailsDoes ==
    ASSUME NEW l, NEW s, NEW c, ApplyFails(l, s, c)
    PROVE  \/ UNCHANGED group
           \/ /\ "lost" \in FaultKinds /\ group' = Applied(l, s, c)
              /\ ~group.exists \/ isManagedByUs(group)
  BY DEF ApplyFails, Fault

\* Neither outcome of an Apply exceeds the bound on faults.
LEMMA ApplyFaults ==
    ASSUME TypeOK, NEW l, NEW s, NEW c, ApplySucceeds(l, s, c) \/ ApplyFails(l, s, c)
    PROVE  faults' \in 0 .. MaxFaults
  BY Starts DEF ApplySucceeds, ApplyFails, Fault, TypeOK

\* A fault stays within their bound.
LEMMA FaultBound ==
    ASSUME TypeOK, NEW kind, Fault(kind)
    PROVE  faults' \in 0 .. MaxFaults
  BY Starts DEF Fault, TypeOK

\* Whatever Sync does, the Cloudflare list is a list and one operation at most
\* is left behind.
LEMMA EdgeType ==
    ASSUME TypeOK, NEW l \in Lists, NEW a \in AgesOrNone, EdgeSucceeds(l, a) \/ EdgeFails(l)
    PROVE  /\ edge' \in EdgeLists
           /\ orphan' \in SUBSET Lists /\ \A o1, o2 \in orphan' : o1 = o2
           /\ faults' \in 0 .. MaxFaults
  <1>1. Confirmed(l, a) \in EdgeLists
    BY Starts DEF Confirmed, EdgeLists
  <1>2. /\ edge \in EdgeLists /\ orphan \in SUBSET Lists /\ \A o1, o2 \in orphan : o1 = o2
        /\ \A i \in Lists : /\ [edge EXCEPT !.items = i] \in EdgeLists
                            /\ [items |-> i, asOf |-> a] \in EdgeLists
    BY DEF TypeOK, EdgeLists
  <1>3. CASE EdgeSucceeds(l, a)
    <2>1. CASE edge' = Confirmed(l, a) /\ UNCHANGED <<orphan, faults>>
      BY <1>1, <1>2, <2>1 DEF TypeOK
    <2>2. CASE Fault("torn") /\ orphan' = {} /\ \E o \in orphan : edge' = [items |-> o, asOf |-> a]
      BY <1>2, <2>2, FaultBound
    <2> QED
      BY <1>3, <2>1, <2>2 DEF EdgeSucceeds
  <1>4. CASE EdgeFails(l)
    <2>1. CASE UNCHANGED <<edge, orphan, faults>>
      BY <1>2, <2>1 DEF TypeOK
    <2>2. CASE Fault("refused") /\ UNCHANGED <<edge, orphan>>
      BY <1>2, <2>2, FaultBound
    <2>3. CASE Fault("late") /\ edge' = [edge EXCEPT !.items = l] /\ UNCHANGED orphan
      BY <1>2, <2>3, FaultBound
    <2>4. CASE Fault("late") /\ orphan' = {l} /\ UNCHANGED edge
      BY <1>2, <2>4, FaultBound
    <2> QED
      BY <1>4, <2>1, <2>2, <2>3, <2>4 DEF EdgeFails, EdgeFailsLate
  <1> QED
    BY <1>3, <1>4

-----------------------------------------------------------------------------
(* Type correctness. *)

\* A pod that has not read anything yet has its types.
LEMMA InitType == Init => TypeOK
  <1> SUFFICES ASSUME Init PROVE TypeOK
    OBVIOUS
  <1>1. group \in Groups /\ {group.lastOK, group.cfOK, group.cleared} \subseteq AgesOrNone
    BY Starts DEF Init, NoGroup, Groups
  <1>2. edge \in EdgeLists
    BY Starts DEF Init, EmptyEdge, EdgeLists
  <1>3. config \in Envs /\ faults \in 0 .. MaxFaults
    BY Starts DEF Init
  <1> QED
    BY <1>1, <1>2, <1>3, Starts DEF Init, TypeOK

\* Every step of the pod, of time and of the outside world keeps the types.
LEMMA NextType == TypeOK /\ [Next]_vars => TypeOK'
  <1> SUFFICES ASSUME TypeOK, [Next]_vars PROVE TypeOK'
    OBVIOUS
  <1> USE Starts DEF TypeOK, app, locals, sinks
  <1>1. CASE Boot
    BY <1>1 DEF Boot
  <1>2. CASE BootBlind
    BY <1>2, FaultBound DEF BootBlind
  <1>3. CASE BeginCycle
    BY <1>3 DEF BeginCycle, Locals0
  <1>4. CASE FeedFails
    BY <1>4 DEF FeedFails, failSync
  <1>5. CASE FeedDelivers
    BY <1>5 DEF FeedDelivers, failSync
  <1>6. CASE ReadGroup
    BY <1>6 DEF ReadGroup, failSync
  <1>7. CASE ReadGroupFails
    BY <1>7, FaultBound DEF ReadGroupFails, failSync
  <1>8. CASE ApplyCilium
    <2>1. desired \in Lists /\ now \in AgesOrNone /\ TypedGroup(group)
      BY DEF TypedGroup
    <2>2. ApplySucceeds(desired, now, NoTime) \/ ApplyFails(desired, now, NoTime)
      BY <1>8 DEF ApplyCilium
    <2>3. TypedGroup(group') /\ faults' \in 0 .. MaxFaults
      BY <2>1, <2>2, AppliedIs, ApplyFailsDoes, ApplyFaults DEF ApplySucceeds
    <2> QED
      BY <1>8, <2>3 DEF ApplyCilium, AfterCilium, Finish, TypedGroup
  <1>9. CASE SyncCloudflare
    <2>1. EdgeSucceeds(desired, now) \/ EdgeFails(desired)
      BY <1>9 DEF SyncCloudflare
    <2> QED
      BY <1>9, <2>1, EdgeType DEF SyncCloudflare, Finish
  <1>10. CASE MarkCloudflare
    <2>1. TypedGroup(MarkedAt(group, now))
      BY DEF TypedGroup, MarkedAt, Groups
    <2> QED
      BY <1>10, <2>1, FaultBound DEF MarkCloudflare, Finish, TypedGroup
  <1>11. CASE updateCiliumStaleness
    <2>1. CASE ~MustClear(lastSuccess, staleCleared)
      BY <1>11, <2>1 DEF updateCiliumStaleness
    <2>2. CASE MustClear(lastSuccess, staleCleared)
      <3>1. ApplySucceeds(NoCIDRs, NoTime, 0) \/ ApplyFails(NoCIDRs, NoTime, 0)
        BY <1>11, <2>2 DEF updateCiliumStaleness
      <3>2. TypedGroup(group') /\ faults' \in 0 .. MaxFaults
        BY <3>1, AppliedIs, ApplyFailsDoes, ApplyFaults DEF ApplySucceeds, TypedGroup
      <3> QED
        BY <1>11, <2>2, <3>2 DEF updateCiliumStaleness, TypedGroup
    <2> QED
      BY <2>1, <2>2
  <1>12. CASE updateCloudflareStaleness
    <2>1. CASE ~MustClear(cfLastSuccess, staleCFCleared)
      BY <1>12, <2>1 DEF updateCloudflareStaleness
    <2>2. CASE MustClear(cfLastSuccess, staleCFCleared)
      <3>1. EdgeSucceeds(NoCIDRs, NoTime) \/ EdgeFails(NoCIDRs)
        BY <1>12, <2>2 DEF updateCloudflareStaleness
      <3> QED
        BY <1>12, <2>2, <3>1, EdgeType DEF updateCloudflareStaleness
    <2> QED
      BY <2>1, <2>2
  <1>13. CASE Restart
    BY <1>13 DEF Restart
  <1>14. CASE Crash
    <2>1. faults' \in 0 .. MaxFaults
      BY <1>14, FaultBound DEF Crash
    <2> QED
      BY <1>14, <2>1 DEF Crash, Locals0
  <1>15. CASE Tick
    <2>1. TypedGroup(group')
      <3>1. {Older(group.lastOK), Older(group.cfOK), Older(group.cleared)} \subseteq AgesOrNone
        BY OlderAge
      <3>2. group' = [group EXCEPT !.lastOK = Older(@), !.cfOK = Older(@), !.cleared = Older(@)]
        BY <1>15 DEF Tick
      <3> QED
        BY <3>1, <3>2 DEF TypedGroup, Groups
    <2>2. [edge EXCEPT !.asOf = Older(@)] \in EdgeLists
      BY OlderAge DEF EdgeLists
    <2>3. /\ lastSuccess' \in AgesOrNone /\ cfLastSuccess' \in AgesOrNone /\ now' \in AgesOrNone
      BY <1>15, OlderAge DEF Tick
    <2> QED
      BY <1>15, <2>1, <2>2, <2>3 DEF Tick, TypedGroup
  <1>16. CASE OrphanEnds
    <2>1. \A o \in orphan : [edge EXCEPT !.items = o] \in EdgeLists
      BY DEF EdgeLists
    <2> QED
      BY <1>16, <2>1 DEF OrphanEnds
  <1>17. CASE Outside
    <2>1. TypedGroup(NoGroup) /\ EmptyEdge \in EdgeLists
      BY DEF TypedGroup, NoGroup, Groups, EmptyEdge, EdgeLists
    <2>2. TypedGroup([group EXCEPT !.managed = FALSE])
      BY DEF TypedGroup, Groups
    <2> QED
      BY <1>17, <2>1, <2>2, FaultBound DEF Outside, TypedGroup
  <1>18. CASE UNCHANGED vars
    BY <1>18 DEF vars
  <1> QED
    BY <1>1, <1>2, <1>3, <1>4, <1>5, <1>6, <1>7, <1>8, <1>9, <1>10,
       <1>11, <1>12, <1>13, <1>14, <1>15, <1>16, <1>17, <1>18 DEF Next, Work

-----------------------------------------------------------------------------
(* The age of the list, under every kind of fault. *)

\* They hold at the start.
LEMMA InitAge == Init => ListCarriesItsAge /\ NowKnown /\ NoneMissing /\ Guarded
  BY DEF Init, ListCarriesItsAge, NowKnown, NoneMissing, Guarded, NoGroup

\* A write records the time of its cycle, which is younger than any in memory;
\* a clear leaves no list whose age would matter; time passes for all alike.
LEMMA NextAge ==
    IInv /\ [Next]_vars => ListCarriesItsAge' /\ NowKnown' /\ NoneMissing'
  <1> SUFFICES ASSUME IInv, [Next]_vars PROVE ListCarriesItsAge' /\ NowKnown' /\ NoneMissing'
    OBVIOUS
  <1> USE Starts DEF IInv, TypeOK, app, locals, sinks, ListCarriesItsAge, NowKnown, NoneMissing,
                     isManagedByUs
  <1>1. CASE Boot
    <2>1. group.lastOK \in AgesOrNone
      OBVIOUS
    <2> QED
      BY <1>1, <2>1 DEF Boot, AgesOrNone, Ages, NoTime
  <1>2. CASE BootBlind
    BY <1>2 DEF BootBlind
  <1>3. CASE BeginCycle
    BY <1>3 DEF BeginCycle, Locals0
  <1>4. CASE FeedFails
    BY <1>4 DEF FeedFails, failSync
  <1>5. CASE FeedDelivers
    BY <1>5 DEF FeedDelivers, failSync
  <1>6. CASE ReadGroup
    BY <1>6 DEF ReadGroup, failSync, AgesOrNone, Ages
  <1>7. CASE ReadGroupFails
    BY <1>7 DEF ReadGroupFails, failSync
  <1>8. CASE ApplyCilium
    <2>1. desired \in Lists /\ now \in AgesOrNone /\ TypedGroup(group) /\ now # NoTime
      BY <1>8 DEF TypedGroup, ApplyCilium
    <2>2. Applied(desired, now, NoTime).lastOK = now /\ Applied(desired, now, NoTime).exists
      BY <2>1, AppliedIs
    <2>3. pc' # "cilium"
      BY <1>8 DEF ApplyCilium, AfterCilium, Finish
    <2>4. CASE ApplySucceeds(desired, now, NoTime) /\ lastSuccess' = now
      BY <2>1, <2>2, <2>3, <2>4 DEF ApplySucceeds, AgesOrNone, Ages
    <2>5. CASE ApplyFails(desired, now, NoTime) /\ UNCHANGED lastSuccess
      BY <1>8, <2>1, <2>2, <2>3, <2>5, ApplyFailsDoes DEF ApplyCilium
    <2> QED
      BY <1>8, <2>4, <2>5 DEF ApplyCilium
  <1>9. CASE SyncCloudflare
    BY <1>9 DEF SyncCloudflare, Finish
  <1>10. CASE MarkCloudflare
    BY <1>10 DEF MarkCloudflare, Finish, MarkedAt, Groups
  <1>11. CASE updateCiliumStaleness
    <2>1. TypedGroup(group)
      BY DEF TypedGroup
    <2>2. Applied(NoCIDRs, NoTime, 0).cidrs = NoCIDRs
      BY <2>1, AppliedIs
    <2>3. UNCHANGED group \/ group' = Applied(NoCIDRs, NoTime, 0)
      BY <1>11, ApplyFailsDoes DEF updateCiliumStaleness, ApplySucceeds
    <2> QED
      BY <1>11, <2>2, <2>3 DEF updateCiliumStaleness
  <1>12. CASE updateCloudflareStaleness
    BY <1>12 DEF updateCloudflareStaleness
  <1>13. CASE Restart
    BY <1>13 DEF Restart
  <1>14. CASE Crash
    BY <1>14 DEF Crash, Locals0
  <1>15. CASE Tick
    <2>1. /\ group'.lastOK = Older(group.lastOK) /\ group'.cidrs = group.cidrs
          /\ group'.exists = group.exists /\ group'.managed = group.managed
      BY <1>15 DEF Tick, Groups
    <2>2. lastSuccess' = Older(lastSuccess) /\ now' = Older(now) /\ UNCHANGED pc
      BY <1>15 DEF Tick
    <2>3. group.lastOK \in AgesOrNone
      OBVIOUS
    <2>4. ListCarriesItsAge'
      BY <2>1, <2>2, <2>3, OlderAge
    <2>5. NowKnown'
      BY <2>2, OlderAge
    <2> QED
      BY <2>1, <2>4, <2>5
  <1>16. CASE OrphanEnds
    BY <1>16 DEF OrphanEnds
  <1>17. CASE Outside
    BY <1>17 DEF Outside, NoGroup, Groups
  <1>18. CASE UNCHANGED vars
    BY <1>18 DEF vars
  <1> QED
    BY <1>1, <1>2, <1>3, <1>4, <1>5, <1>6, <1>7, <1>8, <1>9, <1>10,
       <1>11, <1>12, <1>13, <1>14, <1>15, <1>16, <1>17, <1>18 DEF Next, Work

-----------------------------------------------------------------------------
(* The shrink guard. *)

\* Between the read and the write the object changes at most by going away.
LEMMA NextGuarded == IInv /\ [Next]_vars => Guarded'
  <1> SUFFICES ASSUME IInv, [Next]_vars PROVE Guarded'
    OBVIOUS
  <1> USE Starts DEF IInv, TypeOK, app, locals, sinks, Guarded, NoneMissing, ShrinkRefused,
                     shrinkRejected
  <1>1. CASE Boot
    BY <1>1 DEF Boot
  <1>2. CASE BootBlind
    BY <1>2 DEF BootBlind
  <1>3. CASE BeginCycle
    BY <1>3 DEF BeginCycle, Locals0
  <1>4. CASE FeedFails
    BY <1>4 DEF FeedFails, failSync
  <1>5. CASE FeedDelivers
    BY <1>5 DEF FeedDelivers, failSync
  <1>6. CASE ReadGroup
    BY <1>6 DEF ReadGroup, failSync
  <1>7. CASE ReadGroupFails
    BY <1>7 DEF ReadGroupFails, failSync
  <1>8. CASE ApplyCilium
    BY <1>8 DEF ApplyCilium, AfterCilium, Finish
  <1>9. CASE SyncCloudflare
    BY <1>9 DEF SyncCloudflare, Finish
  <1>10. CASE MarkCloudflare
    BY <1>10 DEF MarkCloudflare, Finish
  <1>11. CASE updateCiliumStaleness
    BY <1>11 DEF updateCiliumStaleness
  <1>12. CASE updateCloudflareStaleness
    BY <1>12 DEF updateCloudflareStaleness
  <1>13. CASE Restart
    BY <1>13 DEF Restart
  <1>14. CASE Crash
    BY <1>14 DEF Crash, Locals0
  <1>15. CASE Tick
    <2>1. group'.cidrs = group.cidrs /\ group'.exists = group.exists
      BY <1>15 DEF Tick, Groups
    <2> QED
      BY <1>15, <2>1 DEF Tick
  <1>16. CASE OrphanEnds
    BY <1>16 DEF OrphanEnds
  <1>17. CASE Outside
    <2>1. CASE UNCHANGED group
      BY <1>17, <2>1 DEF Outside
    <2>2. CASE ~group'.exists
      BY <2>2
    <2>3. CASE group' = [group EXCEPT !.managed = FALSE]
      <3>1. group'.cidrs = group.cidrs /\ group'.exists = group.exists
        BY <2>3 DEF Groups
      <3> QED
        BY <1>17, <3>1 DEF Outside
    <2> QED
      BY <1>17, <2>1, <2>2, <2>3 DEF Outside, NoGroup
  <1>18. CASE UNCHANGED vars
    BY <1>18 DEF vars
  <1> QED
    BY <1>1, <1>2, <1>3, <1>4, <1>5, <1>6, <1>7, <1>8, <1>9, <1>10,
       <1>11, <1>12, <1>13, <1>14, <1>15, <1>16, <1>17, <1>18 DEF Next, Work

-----------------------------------------------------------------------------
(* Theorems. *)

\* Every step keeps the inductive invariant.
LEMMA Inductive == Spec => []IInv
  <1>1. Init => IInv
    BY InitType, InitAge DEF IInv
  <1>2. IInv /\ [Next]_vars => IInv'
    BY NextType, NextAge, NextGuarded DEF IInv
  <1> QED
    BY <1>1, <1>2, PTL DEF Spec

\* For all environments and faults, every variable keeps its type and the
\* synchronizer leaves at most one bulk operation behind.
THEOREM TypeCorrect == Spec => []TypeOK
  <1>1. IInv => TypeOK
    BY DEF IInv
  <1> QED
    BY <1>1, Inductive, PTL

\* Under every kind of fault, an enforced list carries its age, which is at most
\* the age memory has for it, so that the pod that reads it back clears it no
\* earlier than the running pod would (Apply, main's read at startup).
THEOREM CarriesAge == Spec => []ListCarriesItsAge
  <1>1. IInv => ListCarriesItsAge
    BY DEF IInv
  <1> QED
    BY <1>1, Inductive, PTL

-----------------------------------------------------------------------------
(* What can happen to the prefixes. *)

\* The two writes of the synchronizer.
Write == pc = "cilium" /\ group'.cidrs = desired
Clear == /\ pc = "staleCilium" /\ MustClear(lastSuccess, staleCleared) /\ group'.cidrs = NoCIDRs
         /\ ~group.exists \/ isManagedByUs(group)

\* The prefixes change by a write, by a clear, or because the object goes away.
LEMMA PrefixChanges ==
    IInv /\ [Next]_vars =>
        \/ group'.cidrs = group.cidrs
        \/ ~group'.exists /\ group'.cidrs = NoCIDRs
        \/ Write \/ Clear
  <1> SUFFICES ASSUME IInv, [Next]_vars
               PROVE  \/ group'.cidrs = group.cidrs
                      \/ ~group'.exists /\ group'.cidrs = NoCIDRs
                      \/ Write \/ Clear
    OBVIOUS
  <1> USE Starts DEF IInv, TypeOK, app, locals, sinks
  <1>1. CASE Boot
    BY <1>1 DEF Boot
  <1>2. CASE BootBlind
    BY <1>2 DEF BootBlind
  <1>3. CASE BeginCycle
    BY <1>3 DEF BeginCycle, Locals0
  <1>4. CASE FeedFails
    BY <1>4 DEF FeedFails, failSync
  <1>5. CASE FeedDelivers
    BY <1>5 DEF FeedDelivers, failSync
  <1>6. CASE ReadGroup
    BY <1>6 DEF ReadGroup, failSync
  <1>7. CASE ReadGroupFails
    BY <1>7 DEF ReadGroupFails, failSync
  <1>8. CASE ApplyCilium
    <2>1. desired \in Lists /\ now \in AgesOrNone /\ TypedGroup(group)
      BY DEF TypedGroup
    <2>2. Applied(desired, now, NoTime).cidrs = desired
      BY <2>1, AppliedIs
    <2>3. UNCHANGED group \/ group' = Applied(desired, now, NoTime)
      BY <1>8, ApplyFailsDoes DEF ApplyCilium, ApplySucceeds
    <2> QED
      BY <1>8, <2>2, <2>3 DEF ApplyCilium, Write
  <1>9. CASE SyncCloudflare
    BY <1>9 DEF SyncCloudflare, Finish
  <1>10. CASE MarkCloudflare
    BY <1>10 DEF MarkCloudflare, Finish, MarkedAt, Groups
  <1>11. CASE updateCiliumStaleness
    <2>1. TypedGroup(group)
      BY DEF TypedGroup
    <2>2. Applied(NoCIDRs, NoTime, 0).cidrs = NoCIDRs
      BY <2>1, AppliedIs
    <2>3. \/ UNCHANGED group
          \/ /\ group' = Applied(NoCIDRs, NoTime, 0) /\ MustClear(lastSuccess, staleCleared)
             /\ ~group.exists \/ isManagedByUs(group)
      BY <1>11, ApplyFailsDoes DEF updateCiliumStaleness, ApplySucceeds
    <2> QED
      BY <1>11, <2>2, <2>3 DEF updateCiliumStaleness, Clear
  <1>12. CASE updateCloudflareStaleness
    BY <1>12 DEF updateCloudflareStaleness
  <1>13. CASE Restart
    BY <1>13 DEF Restart
  <1>14. CASE Crash
    BY <1>14 DEF Crash, Locals0
  <1>15. CASE Tick
    BY <1>15 DEF Tick, Groups
  <1>16. CASE OrphanEnds
    BY <1>16 DEF OrphanEnds
  <1>17. CASE Outside
    BY <1>17 DEF Outside, NoGroup, Groups
  <1>18. CASE UNCHANGED vars
    BY <1>18 DEF vars
  <1> QED
    BY <1>1, <1>2, <1>3, <1>4, <1>5, <1>6, <1>7, <1>8, <1>9, <1>10,
       <1>11, <1>12, <1>13, <1>14, <1>15, <1>16, <1>17, <1>18 DEF Next, Work

\* Under every kind of fault, no list of at least 100 prefixes is replaced by
\* one that the shrink guard would refuse (syncOnce, shrinkRejected).
THEOREM NoShrink == Spec => NoSurpriseShrink
  <1>1. IInv /\ [Next]_vars => KeepsEnough
    <2> SUFFICES ASSUME IInv, [Next]_vars, Size[group.cidrs] >= 100,
                        config.maxShrinkPercent > 0, group'.cidrs # NoCIDRs
                 PROVE  100 * Size[group'.cidrs]
                          >= (100 - config.maxShrinkPercent) * Size[group.cidrs]
      BY DEF KeepsEnough
    <2>1. /\ Size[group.cidrs] \in Nat /\ Size[desired] \in Nat /\ Size[NoCIDRs] = 0
          /\ config.maxShrinkPercent \in Int
      BY ConfigAssumption DEF IInv, TypeOK, Environments, Groups
    <2>2. group.exists
      BY <2>1 DEF IInv, NoneMissing
    <2>3. CASE group'.cidrs = group.cidrs
      BY <2>1, <2>3
    <2>4. CASE Write
      <3>1. ~shrinkRejected(Size[group.cidrs], Size[desired])
        BY <2>2, <2>4 DEF IInv, Guarded, ShrinkRefused, Write
      <3>2. ~(Size[desired] * 100 < Size[group.cidrs] * (100 - config.maxShrinkPercent))
        BY <2>1, <3>1 DEF shrinkRejected
      <3> QED
        BY <2>1, <2>4, <3>2 DEF Write
    <2> QED
      BY <2>3, <2>4, PrefixChanges DEF Clear
  <1> QED
    BY <1>1, Inductive, PTL DEF Spec, NoSurpriseShrink

-----------------------------------------------------------------------------
(* The stale policy, where no reply is lost. *)

NoReplyLost == "lost" \notin FaultKinds

\* What the pod notes as cleared is empty and stays so.
LEMMA NextCleared ==
    ASSUME NoReplyLost, IInv, ClearedStaysCleared, [Next]_vars
    PROVE  ClearedStaysCleared'
  <1> USE Starts DEF IInv, TypeOK, app, locals, sinks, ClearedStaysCleared, isManagedByUs, NoReplyLost
  <1>1. CASE Boot
    BY <1>1 DEF Boot
  <1>2. CASE BootBlind
    BY <1>2 DEF BootBlind
  <1>3. CASE BeginCycle
    BY <1>3 DEF BeginCycle, Locals0
  <1>4. CASE FeedFails
    BY <1>4 DEF FeedFails, failSync
  <1>5. CASE FeedDelivers
    BY <1>5 DEF FeedDelivers, failSync
  <1>6. CASE ReadGroup
    BY <1>6 DEF ReadGroup, failSync
  <1>7. CASE ReadGroupFails
    BY <1>7 DEF ReadGroupFails, failSync
  <1>8. CASE ApplyCilium
    <2>1. CASE UNCHANGED group /\ UNCHANGED staleCleared
      BY <2>1
    <2>2. CASE ~staleCleared'
      BY <2>2
    <2> QED
      BY <1>8, <2>1, <2>2, ApplyFailsDoes DEF ApplyCilium
  <1>9. CASE SyncCloudflare
    BY <1>9 DEF SyncCloudflare, Finish
  <1>10. CASE MarkCloudflare
    BY <1>10 DEF MarkCloudflare, Finish, MarkedAt, Groups
  <1>11. CASE updateCiliumStaleness
    <2>1. TypedGroup(group)
      BY DEF TypedGroup
    <2>2. Applied(NoCIDRs, NoTime, 0).cidrs = NoCIDRs
      BY <2>1, AppliedIs
    <2>3. \/ UNCHANGED <<group, staleCleared>>
          \/ group' = Applied(NoCIDRs, NoTime, 0)
      BY <1>11, ApplyFailsDoes DEF updateCiliumStaleness, ApplySucceeds
    <2> QED
      BY <2>2, <2>3
  <1>12. CASE updateCloudflareStaleness
    BY <1>12 DEF updateCloudflareStaleness
  <1>13. CASE Restart
    BY <1>13 DEF Restart
  <1>14. CASE Crash
    BY <1>14 DEF Crash, Locals0
  <1>15. CASE Tick
    BY <1>15 DEF Tick, Groups
  <1>16. CASE OrphanEnds
    BY <1>16 DEF OrphanEnds
  <1>17. CASE Outside
    <2>1. UNCHANGED staleCleared /\ (UNCHANGED group \/ ~isManagedByUs(group'))
      BY <1>17 DEF Outside, NoGroup, Groups
    <2> QED
      BY <2>1
  <1>18. CASE UNCHANGED vars
    BY <1>18 DEF vars
  <1> QED
    BY <1>1, <1>2, <1>3, <1>4, <1>5, <1>6, <1>7, <1>8, <1>9, <1>10,
       <1>11, <1>12, <1>13, <1>14, <1>15, <1>16, <1>17, <1>18 DEF Next, Work

\* Where no reply of the API server is lost, the once-only flag of
\* updateCiliumStaleness is right about the object.
THEOREM ClearedSafe == ASSUME NoReplyLost PROVE Spec => []ClearedStaysCleared
  <1>1. Init => ClearedStaysCleared
    BY DEF Init, ClearedStaysCleared
  <1>2. IInv /\ ClearedStaysCleared /\ [Next]_vars => ClearedStaysCleared'
    BY NextCleared
  <1> QED
    BY <1>1, <1>2, Inductive, PTL DEF Spec

\* Memory and object agree on the age of an enforced list, and an empty list
\* does not pass the minimum.
AgeIsMemory ==
    isManagedByUs(group) /\ group.cidrs # NoCIDRs /\ lastSuccess # NoTime =>
        group.lastOK = lastSuccess
Wanted == pc \in {"read", "cilium"} => desired # NoCIDRs

SomeEntries == \A env \in Envs : env.minEntries >= 1

\* Both times are written by the same successful call and grow old together.
LEMMA NextMemory ==
    ASSUME NoReplyLost, SomeEntries, IInv, AgeIsMemory, Wanted, [Next]_vars
    PROVE  AgeIsMemory' /\ Wanted'
  <1> USE Starts DEF IInv, TypeOK, app, locals, sinks, isManagedByUs, NoReplyLost, SomeEntries,
                     AgeIsMemory, Wanted, NowKnown
  <1>1. CASE Boot
    BY <1>1 DEF Boot
  <1>2. CASE BootBlind
    BY <1>2 DEF BootBlind
  <1>3. CASE BeginCycle
    BY <1>3 DEF BeginCycle, Locals0
  <1>4. CASE FeedFails
    BY <1>4 DEF FeedFails, failSync
  <1>5. CASE FeedDelivers
    BY <1>5, ConfigAssumption DEF FeedDelivers, failSync, Environments
  <1>6. CASE ReadGroup
    BY <1>6 DEF ReadGroup, failSync
  <1>7. CASE ReadGroupFails
    BY <1>7 DEF ReadGroupFails, failSync
  <1>8. CASE ApplyCilium
    <2>1. desired \in Lists /\ now \in AgesOrNone /\ TypedGroup(group) /\ now # NoTime
      BY <1>8 DEF TypedGroup, ApplyCilium
    <2>2. Applied(desired, now, NoTime).lastOK = now
      BY <2>1, AppliedIs
    <2>3. pc' \notin {"read", "cilium"}
      BY <1>8 DEF ApplyCilium, AfterCilium, Finish
    <2>4. \/ UNCHANGED <<group, lastSuccess>>
          \/ group' = Applied(desired, now, NoTime) /\ lastSuccess' = now
      BY <1>8, ApplyFailsDoes DEF ApplyCilium, ApplySucceeds
    <2> QED
      BY <2>2, <2>3, <2>4
  <1>9. CASE SyncCloudflare
    BY <1>9 DEF SyncCloudflare, Finish
  <1>10. CASE MarkCloudflare
    BY <1>10 DEF MarkCloudflare, Finish, MarkedAt, Groups
  <1>11. CASE updateCiliumStaleness
    <2>1. TypedGroup(group)
      BY DEF TypedGroup
    <2>2. Applied(NoCIDRs, NoTime, 0).cidrs = NoCIDRs
      BY <2>1, AppliedIs
    <2>3. \/ UNCHANGED <<group, lastSuccess>>
          \/ group' = Applied(NoCIDRs, NoTime, 0)
      BY <1>11, ApplyFailsDoes DEF updateCiliumStaleness, ApplySucceeds
    <2> QED
      BY <1>11, <2>2, <2>3 DEF updateCiliumStaleness
  <1>12. CASE updateCloudflareStaleness
    BY <1>12 DEF updateCloudflareStaleness
  <1>13. CASE Restart
    BY <1>13 DEF Restart
  <1>14. CASE Crash
    BY <1>14 DEF Crash, Locals0
  <1>15. CASE Tick
    <2>1. /\ group'.lastOK = Older(group.lastOK) /\ group'.cidrs = group.cidrs
          /\ group'.exists = group.exists /\ group'.managed = group.managed
      BY <1>15 DEF Tick, Groups
    <2>2. lastSuccess' = Older(lastSuccess) /\ UNCHANGED <<pc, desired>>
      BY <1>15 DEF Tick
    <2> QED
      BY <2>1, <2>2, OlderAge
  <1>16. CASE OrphanEnds
    BY <1>16 DEF OrphanEnds
  <1>17. CASE Outside
    <2>1. UNCHANGED <<pc, lastSuccess, desired>> /\ (UNCHANGED group \/ ~isManagedByUs(group'))
      BY <1>17 DEF Outside, NoGroup, Groups
    <2> QED
      BY <2>1
  <1>18. CASE UNCHANGED vars
    BY <1>18 DEF vars
  <1> QED
    BY <1>1, <1>2, <1>3, <1>4, <1>5, <1>6, <1>7, <1>8, <1>9, <1>10,
       <1>11, <1>12, <1>13, <1>14, <1>15, <1>16, <1>17, <1>18 DEF Next, Work

\* Where no reply is lost and ABUSEIPDB_MIN_ENTRIES is at least 1, nothing but
\* a list older than MAX_STALE_AGE is ever cleared, and under fail-open only.
THEOREM OnlyStale == ASSUME NoReplyLost, SomeEntries PROVE Spec => OnlyStaleIsCleared
  <1> DEFINE Emptied == group.cidrs # NoCIDRs /\ group'.exists /\ group'.cidrs = NoCIDRs
             Step    == Emptied => FailOpen /\ IsStale(group.lastOK)
             Both    == AgeIsMemory /\ Wanted
  <1>1. Init => Both
    BY DEF Init, AgeIsMemory, Wanted
  <1>2. IInv /\ Both /\ [Next]_vars => Both'
    BY NextMemory
  <1>3. IInv /\ Both /\ [Next]_vars => Step
    <2> SUFFICES ASSUME IInv, AgeIsMemory, Wanted, [Next]_vars, Emptied
                 PROVE  FailOpen /\ IsStale(group.lastOK)
      OBVIOUS
    <2>1. ~Write
      BY DEF Write, Wanted
    <2>2. Clear
      BY <2>1, PrefixChanges
    <2>3. isManagedByUs(group) /\ FailOpen /\ IsStale(lastSuccess)
      BY <2>2 DEF Clear, MustClear, IInv, NoneMissing
    <2>4. lastSuccess # NoTime
      BY <2>3 DEF IsStale
    <2> QED
      BY <2>3, <2>4 DEF AgeIsMemory
  <1> QED
    BY <1>1, <1>2, <1>3, Inductive, PTL DEF Spec, OnlyStaleIsCleared

-----------------------------------------------------------------------------
(* The stale policy at Cloudflare, in one life of the pod: the marker that a  *)
(* restarted pod reads may be older than the list.                            *)

OneLife == {"outside", "crash"} \cap FaultKinds = {}

\* Memory knows when a Sync last reported success, unless the clear has since,
\* whatever failed behind its write or is still under way.
EdgeAgeIsMemory ==
    /\ pc # "down" /\ (pc = "boot" => group.cfOK = NoTime /\ cfLastSuccess = NoTime)
    /\ edge.asOf = IF staleCFCleared THEN NoTime ELSE cfLastSuccess

\* What the cycle brings to Cloudflare is not empty.
WantedAtEdge == pc \in {"read", "cilium", "cloudflare"} => desired # NoCIDRs

\* Whether a Sync reports success decides the age of the list, not what it stored.
LEMMA EdgeDoes ==
    ASSUME TypeOK, NEW l \in Lists, NEW a
    PROVE  /\ EdgeSucceeds(l, a) => edge'.asOf = IF l = NoCIDRs THEN NoTime ELSE a
           /\ EdgeFails(l) => edge'.asOf = edge.asOf
  <1>1. edge \in EdgeLists
    BY DEF TypeOK
  <1>2. EdgeSucceeds(l, a) => edge'.asOf = IF l = NoCIDRs THEN NoTime ELSE a
    BY DEF EdgeSucceeds, Confirmed
  <1>3. \A i : [edge EXCEPT !.items = i].asOf = edge.asOf
    BY <1>1 DEF EdgeLists
  <1>4. EdgeFails(l) => edge'.asOf = edge.asOf
    BY <1>3 DEF EdgeFails, EdgeFailsLate
  <1> QED
    BY <1>2, <1>4

\* A Sync empties the list, or leaves an operation behind that will, only for
\* the empty list.
LEMMA EmptiesNothingElse ==
    ASSUME TypeOK, NEW l \in Lists, NEW a, EdgeSucceeds(l, a) \/ EdgeFails(l), EmptiesEdge
    PROVE  l = NoCIDRs
  <1>1. edge \in EdgeLists
    BY DEF TypeOK
  <1>2. [edge EXCEPT !.items = l].items = l
    BY <1>1 DEF EdgeLists
  <1>3. CASE EdgeSucceeds(l, a)
    <2>1. CASE edge' = Confirmed(l, a) /\ UNCHANGED orphan
      BY <2>1 DEF Confirmed, EmptiesEdge
    <2>2. CASE orphan' = {} /\ \E o \in orphan : TRUE
      BY <2>2 DEF EmptiesEdge
    <2> QED
      BY <1>3, <2>1, <2>2 DEF EdgeSucceeds
  <1>4. CASE EdgeFails(l)
    <2>1. CASE UNCHANGED <<edge, orphan>>
      BY <2>1 DEF EmptiesEdge
    <2>2. CASE edge' = [edge EXCEPT !.items = l] /\ UNCHANGED orphan
      <3>1. edge'.items = l
        BY <1>2, <2>2
      <3> QED
        BY <2>2, <3>1 DEF EmptiesEdge
    <2>3. CASE orphan' = {l} /\ UNCHANGED edge
      BY <2>3 DEF EmptiesEdge
    <2> QED
      BY <1>4, <2>1, <2>2, <2>3 DEF EdgeFails, EdgeFailsLate
  <1> QED
    BY <1>3, <1>4

\* List and memory learn of a success by the same Sync and grow old together.
LEMMA NextEdgeMemory ==
    ASSUME OneLife, SomeEntries, IInv, EdgeAgeIsMemory, WantedAtEdge, [Next]_vars
    PROVE  EdgeAgeIsMemory' /\ WantedAtEdge'
  <1> USE Starts DEF IInv, TypeOK, app, locals, sinks, OneLife, SomeEntries, EdgeAgeIsMemory,
                     WantedAtEdge
  <1>1. CASE Boot
    BY <1>1 DEF Boot
  <1>2. CASE BootBlind
    BY <1>2 DEF BootBlind
  <1>3. CASE BeginCycle
    BY <1>3 DEF BeginCycle, Locals0
  <1>4. CASE FeedFails
    BY <1>4 DEF FeedFails, failSync
  <1>5. CASE FeedDelivers
    BY <1>5, ConfigAssumption DEF FeedDelivers, failSync, Environments
  <1>6. CASE ReadGroup
    BY <1>6 DEF ReadGroup, failSync
  <1>7. CASE ReadGroupFails
    BY <1>7 DEF ReadGroupFails, failSync
  <1>8. CASE ApplyCilium
    BY <1>8 DEF ApplyCilium, AfterCilium, Finish
  <1>9. CASE SyncCloudflare
    <2>1. CASE EdgeSucceeds(desired, now) /\ cfLastSuccess' = now /\ staleCFCleared' = FALSE /\ pc' = "mark"
      BY <1>9, <2>1, EdgeDoes DEF SyncCloudflare
    <2>2. CASE EdgeFails(desired) /\ UNCHANGED <<cfLastSuccess, staleCFCleared>> /\ Finish(FALSE)
      BY <1>9, <2>2, EdgeDoes DEF Finish
    <2> QED
      BY <1>9, <2>1, <2>2 DEF SyncCloudflare
  <1>10. CASE MarkCloudflare
    BY <1>10 DEF MarkCloudflare, Finish
  <1>11. CASE updateCiliumStaleness
    BY <1>11 DEF updateCiliumStaleness
  <1>12. CASE updateCloudflareStaleness
    <2>1. \/ UNCHANGED <<edge, staleCFCleared>>
          \/ EdgeSucceeds(NoCIDRs, NoTime) /\ staleCFCleared' = TRUE
          \/ EdgeFails(NoCIDRs) /\ UNCHANGED staleCFCleared
      BY <1>12 DEF updateCloudflareStaleness
    <2>2. pc' = "idle" /\ UNCHANGED cfLastSuccess
      BY <1>12 DEF updateCloudflareStaleness
    <2> QED
      BY <2>1, <2>2, EdgeDoes
  <1>13. CASE Restart
    BY <1>13 DEF Restart
  <1>14. CASE Crash
    BY <1>14 DEF Crash, Fault
  <1>15. CASE Tick
    <2>1. UNCHANGED <<pc, desired, staleCFCleared>> /\ cfLastSuccess' = Older(cfLastSuccess)
      BY <1>15 DEF Tick
    <2>2. edge'.asOf = Older(edge.asOf) /\ group'.cfOK = Older(group.cfOK)
      BY <1>15 DEF Tick, EdgeLists, Groups
    <2>3. Older(NoTime) = NoTime
      BY DEF Older
    <2> QED
      BY <2>1, <2>2, <2>3
  <1>16. CASE OrphanEnds
    <2>1. edge'.asOf = edge.asOf
      BY <1>16 DEF OrphanEnds, EdgeLists
    <2> QED
      BY <1>16, <2>1 DEF OrphanEnds
  <1>17. CASE Outside
    <2>1. UNCHANGED <<pc, cfLastSuccess, staleCFCleared, desired, edge>> /\ group'.cfOK = group.cfOK
      BY <1>17 DEF Outside, Fault, Groups
    <2> QED
      BY <2>1
  <1>18. CASE UNCHANGED vars
    BY <1>18 DEF vars
  <1> QED
    BY <1>1, <1>2, <1>3, <1>4, <1>5, <1>6, <1>7, <1>8, <1>9, <1>10,
       <1>11, <1>12, <1>13, <1>14, <1>15, <1>16, <1>17, <1>18 DEF Next, Work

\* While the pod lives and nobody deletes the sinks, whichever calls fail behind
\* their writes, it asks Cloudflare to empty the list only if no Sync has
\* reported success within MAX_STALE_AGE (updateCloudflareStaleness).
THEOREM OnlyStaleAtEdge == ASSUME OneLife, SomeEntries PROVE Spec => OnlyStaleIsClearedAtEdge
  <1> DEFINE Step == EmptiesEdge => FailOpen /\ IsStale(edge.asOf)
             Both == EdgeAgeIsMemory /\ WantedAtEdge
  <1>1. Init => Both
    BY DEF Init, EdgeAgeIsMemory, WantedAtEdge, EmptyEdge, NoGroup
  <1>2. IInv /\ Both /\ [Next]_vars => Both'
    BY NextEdgeMemory
  <1>3. IInv /\ Both /\ [Next]_vars => Step
    <2> SUFFICES ASSUME IInv, EdgeAgeIsMemory, WantedAtEdge, [Next]_vars, EmptiesEdge
                 PROVE  FailOpen /\ IsStale(edge.asOf)
      OBVIOUS
    <2>1. SyncCloudflare \/ updateCloudflareStaleness
      <3>1. edge \in EdgeLists
        BY DEF IInv, TypeOK
      <3>2. ~(UNCHANGED <<edge, orphan>>)
        BY DEF EmptiesEdge
      <3>3. ~Tick
        BY <3>1 DEF Tick, EdgeLists, EmptiesEdge
      <3>4. ~OrphanEnds /\ ~Outside
        BY DEF OrphanEnds, Outside, Fault, OneLife, EmptiesEdge
      <3> QED
        BY <3>2, <3>3, <3>4 DEF Next, Work, Boot, BootBlind, BeginCycle, FeedFails, FeedDelivers,
               ReadGroup, ReadGroupFails, ApplyCilium, MarkCloudflare, updateCiliumStaleness,
               Restart, Crash, vars, sinks
    <2>2. ~SyncCloudflare
      <3> SUFFICES ASSUME SyncCloudflare PROVE FALSE
        OBVIOUS
      <3>1. desired # NoCIDRs /\ desired \in Lists
        BY DEF WantedAtEdge, SyncCloudflare, IInv, TypeOK
      <3>2. EdgeSucceeds(desired, now) \/ EdgeFails(desired)
        BY DEF SyncCloudflare
      <3> QED
        BY <3>1, <3>2, EmptiesNothingElse DEF IInv
    <2>3. MustClear(cfLastSuccess, staleCFCleared)
      BY <2>1, <2>2 DEF updateCloudflareStaleness, EmptiesEdge
    <2> QED
      BY <2>3 DEF EdgeAgeIsMemory, MustClear
  <1> QED
    BY <1>1, <1>2, <1>3, Inductive, PTL DEF Spec, OnlyStaleIsClearedAtEdge

-----------------------------------------------------------------------------
(* The metric, where replies arrive and nobody else touches the sinks. *)

Undisturbed == {"lost", "late", "torn", "outside"} \cap FaultKinds = {}

\* What a cycle has achieved so far; a cycle that ends in updateStaleness, and
\* a pod that has not begun one, has no success to show.
Achieved ==
    /\ orphan = {}
    /\ pc \in {"staleCilium", "staleCloudflare", "down", "boot"} => syncSuccess = FALSE
    /\ pc \in {"cloudflare", "mark"} /\ ciliumOK =>
          group.cidrs = desired /\ group.lastOK = lastSuccess
    /\ pc = "mark" => edge.items = desired

\* Success is only noted behind both sinks, and neither changes after that.
LEMMA NextAchieved ==
    ASSUME Undisturbed, IInv, Achieved, SuccessCoversAllSinks, [Next]_vars
    PROVE  Achieved' /\ SuccessCoversAllSinks'
  <1> USE Starts DEF IInv, TypeOK, app, locals, sinks, Undisturbed, Achieved, SuccessCoversAllSinks,
                     NowKnown
  <1>1. CASE Boot
    BY <1>1 DEF Boot
  <1>2. CASE BootBlind
    BY <1>2 DEF BootBlind
  <1>3. CASE BeginCycle
    BY <1>3 DEF BeginCycle, Locals0
  <1>4. CASE FeedFails
    BY <1>4 DEF FeedFails, failSync
  <1>5. CASE FeedDelivers
    BY <1>5 DEF FeedDelivers, failSync
  <1>6. CASE ReadGroup
    BY <1>6 DEF ReadGroup, failSync
  <1>7. CASE ReadGroupFails
    BY <1>7 DEF ReadGroupFails, failSync
  <1>8. CASE ApplyCilium
    <2>1. desired \in Lists /\ now \in AgesOrNone /\ TypedGroup(group) /\ now # NoTime
      BY <1>8 DEF TypedGroup, ApplyCilium
    <2>2. Applied(desired, now, NoTime).lastOK = now /\ Applied(desired, now, NoTime).cidrs = desired
      BY <2>1, AppliedIs
    <2>3. CASE ApplySucceeds(desired, now, NoTime) /\ lastSuccess' = now /\ AfterCilium(TRUE)
      BY <1>8, <2>2, <2>3 DEF ApplyCilium, ApplySucceeds, AfterCilium, Finish
    <2>4. CASE ApplyFails(desired, now, NoTime) /\ AfterCilium(FALSE)
      BY <1>8, <2>4 DEF ApplyCilium, AfterCilium, Finish
    <2> QED
      BY <1>8, <2>3, <2>4 DEF ApplyCilium
  <1>9. CASE SyncCloudflare
    <2>1. CASE EdgeSucceeds(desired, now) /\ pc' = "mark"
      <3>1. edge' = Confirmed(desired, now) /\ UNCHANGED orphan
        BY <2>1 DEF EdgeSucceeds, Fault
      <3>2. edge'.items = desired
        BY <3>1 DEF Confirmed
      <3>3. pc = "cloudflare" /\ UNCHANGED <<group, config, lastSuccess, desired, syncSuccess, ciliumOK>>
        BY <1>9, <2>1 DEF SyncCloudflare, Finish
      <3>4. (group.cidrs = desired /\ group.lastOK = lastSuccess) \/ ~ciliumOK
        BY <3>3
      <3> QED
        BY <2>1, <3>1, <3>2, <3>3, <3>4
    <2>2. CASE EdgeFails(desired) /\ Finish(FALSE)
      BY <1>9, <2>2 DEF SyncCloudflare, EdgeFails, Finish, Fault
    <2> QED
      BY <1>9, <2>1, <2>2 DEF SyncCloudflare
  <1>10. CASE MarkCloudflare
    <2>1. group'.cidrs = group.cidrs /\ group'.lastOK = group.lastOK
      BY <1>10 DEF MarkCloudflare, MarkedAt, Groups
    <2> QED
      BY <1>10, <2>1 DEF MarkCloudflare, Finish
  <1>11. CASE updateCiliumStaleness
    BY <1>11 DEF updateCiliumStaleness
  <1>12. CASE updateCloudflareStaleness
    <2>1. orphan' = {}
      BY <1>12 DEF updateCloudflareStaleness, EdgeSucceeds, EdgeFails, Fault
    <2> QED
      BY <1>12, <2>1 DEF updateCloudflareStaleness
  <1>13. CASE Restart
    BY <1>13 DEF Restart
  <1>14. CASE Crash
    BY <1>14 DEF Crash, Locals0
  <1>15. CASE Tick
    <2>1. /\ group'.lastOK = Older(group.lastOK) /\ group'.cidrs = group.cidrs
          /\ lastSuccess' = Older(lastSuccess) /\ edge'.items = edge.items /\ orphan' = {}
      BY <1>15 DEF Tick, Groups, EdgeLists
    <2> QED
      BY <1>15, <2>1 DEF Tick
  <1>16. CASE OrphanEnds
    BY <1>16 DEF OrphanEnds
  <1>17. CASE Outside
    <2>1. UNCHANGED edge /\ group'.cidrs = group.cidrs /\ group'.lastOK = group.lastOK
      BY <1>17 DEF Outside, Groups, Fault
    <2> QED
      BY <1>17, <2>1 DEF Outside
  <1>18. CASE UNCHANGED vars
    BY <1>18 DEF vars
  <1> QED
    BY <1>1, <1>2, <1>3, <1>4, <1>5, <1>6, <1>7, <1>8, <1>9, <1>10,
       <1>11, <1>12, <1>13, <1>14, <1>15, <1>16, <1>17, <1>18 DEF Next, Work

\* Where replies arrive and nobody else touches the sinks, a success reported
\* between cycles covers every enabled sink (syncOnce).
THEOREM SuccessCovers == ASSUME Undisturbed PROVE Spec => []SuccessCoversAllSinks
  <1>1. Init => Achieved /\ SuccessCoversAllSinks
    BY DEF Init, Achieved, SuccessCoversAllSinks
  <1>2. IInv /\ Achieved /\ SuccessCoversAllSinks /\ [Next]_vars
          => Achieved' /\ SuccessCoversAllSinks'
    BY NextAchieved
  <1> QED
    BY <1>1, <1>2, Inductive, PTL DEF Spec

=============================================================================
