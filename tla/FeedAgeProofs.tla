--------------------------- MODULE FeedAgeProofs ---------------------------
(***************************************************************************)
(* Proofs about FeedAge for every MAX_STALE_AGE.  ExportedIffKnown and     *)
(* ReportSettles become inductive together with four facts: what a process *)
(* holds before it has read the annotations; that the main goroutine sets  *)
(* gauges of a sink with a known success only; the same of the reporter;   *)
(* and how the reporter's copies relate to the memory they were taken from *)
(* while a report is under way.                                            *)
(***************************************************************************)
EXTENDS FeedAge, TLAPS

\* A process that has not read the annotations knows and exports nothing.
BlankBeforeBoot ==
    pc \in {"down", "boot"} =>
        /\ last = Unknown /\ gauge = Unset
        /\ rpc = "wait" /\ report = [s \in Sinks |-> "none"]

\* main is about to set gauges of a sink that has a last success.
MainKnows ==
    /\ pc = "setTimestamp" => last[sink] = now
    /\ pc \in {"setTimestamp", "setAge", "setFresh", "staleFlag"} => last[sink] # NoTime

\* The reporter never knows a sink the pod does not know.
ReporterKnows ==
    /\ \A s \in Sinks : copied[s] # NoTime => last[s] # NoTime
    /\ rpc = "stale" => last[rsink] # NoTime

\* During a report: a sink that main has left alone since the copy is reported
\* from what memory holds, and nothing the report has yet to set is settled.
ReportTrue ==
    rpc # "wait" =>
        /\ \A s \in Sinks : report[s] = "begun" => copied[s] = last[s]
        /\ rpc = "stale" /\ report[rsink] = "begun" /\ ~due =>
             age = last[rsink] /\ gauge[rsink].age = last[rsink]
        /\ report[rsink] # "done"
        /\ rsink = "cilium" => report["cloudflare"] # "done"

Parts == BlankBeforeBoot /\ MainKnows /\ ReporterKnows
Claims == ExportedIffKnown /\ ReportTrue /\ ReportSettles
IInv == TypeOK /\ Parts /\ Claims

-----------------------------------------------------------------------------
(* Ages. *)

\* Growing older keeps an age an age, known or not, and equal ages equal.
LEMMA OlderType ==
    ASSUME NEW a \in AgesOrNone
    PROVE  Older(a) \in AgesOrNone /\ (Older(a) = NoTime <=> a = NoTime)
  BY AgeAssumption DEF Older, Ages, AgesOrNone, NoTime

\* The constants of the initial state have their types.
LEMMA Starts ==
    /\ Unset \in [Sinks -> Gauges] /\ Unknown \in [Sinks -> AgesOrNone]
    /\ NoTime \in AgesOrNone /\ 0 \in AgesOrNone /\ 0 # NoTime /\ Absent = NoTime
    /\ {"cilium", "cloudflare"} = Sinks
  BY AgeAssumption DEF Unset, Unknown, Gauges, AgesOrNone, Ages, NoTime, Absent, Sinks

\* Whether an age is stale is a Boolean.
LEMMA StaleType == ASSUME NEW a PROVE IsStale(a) \in BOOLEAN
  BY DEF IsStale

\* Setting one field of the gauges of one sink leaves gauges.
LEMMA GaugeType ==
    ASSUME NEW g \in [Sinks -> Gauges], NEW s \in Sinks, NEW a \in AgesOrNone, NEW b \in BOOLEAN
    PROVE  /\ [g EXCEPT ![s].ts = a] \in [Sinks -> Gauges]
           /\ [g EXCEPT ![s].age = a] \in [Sinks -> Gauges]
           /\ [g EXCEPT ![s].stale = b] \in [Sinks -> Gauges]
           /\ [ts |-> a, age |-> a, stale |-> b] \in Gauges
  BY DEF Gauges

-----------------------------------------------------------------------------
(* Type correctness. *)

\* A pod that has not booted has its types.
LEMMA InitType == Init => TypeOK
  BY Starts DEF Init, TypeOK, Enabled, Sinks

\* Every step of both goroutines, of time and of crashes keeps the types.
LEMMA NextType == TypeOK /\ [Next]_vars => TypeOK'
  <1> SUFFICES ASSUME TypeOK, [Next]_vars PROVE TypeOK'
    OBVIOUS
  <1> USE Starts DEF TypeOK, Enabled, Goto, main, reporter
  <1>1. CASE Boot
    <2>1. \A s \in Sinks : Restored(s) \in Gauges
      BY StaleType, GaugeType DEF Restored
    <2>2. gauge' \in [Sinks -> Gauges]
      BY <1>1, <2>1 DEF Boot
    <2> QED
      BY <1>1, <2>2 DEF Boot
  <1>2. CASE BootBlind
    BY <1>2 DEF BootBlind
  <1>3. CASE FeedFails
    BY <1>3 DEF FeedFails
  <1>4. CASE FeedDelivers
    BY <1>4 DEF FeedDelivers
  <1>5. CASE SinkSucceeds
    BY <1>5 DEF SinkSucceeds
  <1>6. CASE SinkFails
    BY <1>6 DEF SinkFails, AfterSink
  <1>7. CASE SetTimestamp
    BY <1>7, GaugeType DEF SetTimestamp, Set
  <1>8. CASE SetAge
    BY <1>8, GaugeType DEF SetAge, Set
  <1>9. CASE SetFresh
    BY <1>9, GaugeType DEF SetFresh, Set, AfterSink
  <1>10. CASE Mark
    BY <1>10 DEF Mark, AfterSink
  <1>11. CASE StaleAge
    <2>1. CASE last[sink] = NoTime
      BY <1>11, <2>1 DEF StaleAge, AfterStaleness
    <2>2. CASE last[sink] # NoTime
      <3>1. last[sink] \in AgesOrNone /\ sink \in Sinks /\ gauge \in [Sinks -> Gauges]
        OBVIOUS
      <3>2. seen' = last[sink] /\ gauge' = [gauge EXCEPT ![sink].age = last[sink]]
        BY <1>11, <2>2 DEF StaleAge, Set
      <3>3. seen' \in AgesOrNone /\ gauge' \in [Sinks -> Gauges]
        BY <3>1, <3>2, GaugeType
      <3> QED
        BY <1>11, <2>2, <3>2, <3>3 DEF StaleAge, Set
    <2> QED
      BY <2>1, <2>2
  <1>12. CASE StaleFlag
    BY <1>12, GaugeType, StaleType DEF StaleFlag, Set, AfterStaleness
  <1>13. CASE Copy
    BY <1>13 DEF Copy
  <1>14. CASE ReportAge
    <2>1. CASE copied[rsink] = NoTime
      BY <1>14, <2>1 DEF ReportAge, NextReport
    <2>2. CASE copied[rsink] # NoTime
      <3>1. copied[rsink] \in AgesOrNone /\ rsink \in Sinks /\ gauge \in [Sinks -> Gauges]
        OBVIOUS
      <3>2. age' = copied[rsink] /\ gauge' = [gauge EXCEPT ![rsink].age = copied[rsink]]
        BY <1>14, <2>2 DEF ReportAge
      <3>3. age' \in AgesOrNone /\ gauge' \in [Sinks -> Gauges]
        BY <3>1, <3>2, GaugeType
      <3> QED
        BY <1>14, <2>2, <3>2, <3>3 DEF ReportAge
    <2> QED
      BY <2>1, <2>2
  <1>15. CASE ReportStale
    BY <1>15, GaugeType, StaleType DEF ReportStale, NextReport
  <1>16. CASE Tick
    <2>1. gauge' \in [Sinks -> Gauges]
      <3>1. \A s \in Sinks : gauge[s] \in Gauges
        OBVIOUS
      <3>2. \A s \in Sinks : Older(gauge[s].ts) \in AgesOrNone
        BY <3>1, OlderType DEF Gauges
      <3>3. \A s \in Sinks : [gauge[s] EXCEPT !.ts = Older(gauge[s].ts)] \in Gauges
        BY <3>1, <3>2 DEF Gauges
      <3> QED
        BY <1>16, <3>3 DEF Tick
    <2>2. /\ stored' \in [Sinks -> AgesOrNone] /\ last' \in [Sinks -> AgesOrNone]
          /\ copied' \in [Sinks -> AgesOrNone] /\ now' \in AgesOrNone
          /\ now # NoTime => now' # NoTime
      BY <1>16, OlderType DEF Tick
    <2> QED
      BY <1>16, <2>1, <2>2 DEF Tick
  <1>17. CASE Crash
    BY <1>17 DEF Crash
  <1>18. CASE Restart
    BY <1>18 DEF Restart
  <1>19. CASE UNCHANGED vars
    BY <1>19 DEF vars
  <1> QED
    BY <1>1, <1>2, <1>3, <1>4, <1>5, <1>6, <1>7, <1>8, <1>9, <1>10,
       <1>11, <1>12, <1>13, <1>14, <1>15, <1>16, <1>17, <1>18, <1>19 DEF Next, Main, Report

-----------------------------------------------------------------------------
(* What the two goroutines know. *)

\* Before the boot neither goroutine knows anything.
LEMMA InitParts == Init => Parts
  BY Starts DEF Init, Parts, BlankBeforeBoot, MainKnows, ReporterKnows, Unknown, TypeOK

\* No step makes a goroutine hold a time of a sink the pod does not know.
LEMMA NextParts == TypeOK /\ Parts /\ [Next]_vars => Parts'
  <1> SUFFICES ASSUME TypeOK, Parts, [Next]_vars PROVE Parts'
    OBVIOUS
  <1> USE Starts DEF TypeOK, Goto, main, reporter, Parts, BlankBeforeBoot, MainKnows, ReporterKnows
  <1>1. CASE Boot
    BY <1>1 DEF Boot, Unknown
  <1>2. CASE BootBlind
    BY <1>2 DEF BootBlind
  <1>3. CASE FeedFails
    BY <1>3 DEF FeedFails
  <1>4. CASE FeedDelivers
    BY <1>4 DEF FeedDelivers
  <1>5. CASE SinkSucceeds
    BY <1>5 DEF SinkSucceeds
  <1>6. CASE SinkFails
    BY <1>6 DEF SinkFails, AfterSink
  <1>7. CASE SetTimestamp
    BY <1>7 DEF SetTimestamp, Set
  <1>8. CASE SetAge
    BY <1>8 DEF SetAge, Set
  <1>9. CASE SetFresh
    BY <1>9 DEF SetFresh, Set, AfterSink
  <1>10. CASE Mark
    BY <1>10 DEF Mark, AfterSink
  <1>11. CASE StaleAge
    BY <1>11 DEF StaleAge, Set, AfterStaleness
  <1>12. CASE StaleFlag
    BY <1>12 DEF StaleFlag, Set, AfterStaleness
  <1>13. CASE Copy
    BY <1>13 DEF Copy
  <1>14. CASE ReportAge
    BY <1>14 DEF ReportAge, NextReport
  <1>15. CASE ReportStale
    BY <1>15 DEF ReportStale, NextReport
  <1>16. CASE Tick
    <2>1. \A s \in Sinks : last'[s] = Older(last[s]) /\ copied'[s] = Older(copied[s])
      BY <1>16 DEF Tick
    <2>2. \A s \in Sinks : (last'[s] = NoTime <=> last[s] = NoTime)
                            /\ (copied'[s] = NoTime <=> copied[s] = NoTime)
      <3> SUFFICES ASSUME NEW s \in Sinks
                   PROVE  (last'[s] = NoTime <=> last[s] = NoTime)
                            /\ (copied'[s] = NoTime <=> copied[s] = NoTime)
        OBVIOUS
      <3>1. last[s] \in AgesOrNone /\ copied[s] \in AgesOrNone
        OBVIOUS
      <3> QED
        BY <3>1, <2>1, OlderType
    <2>3. BlankBeforeBoot'
      <3> SUFFICES ASSUME pc \in {"down", "boot"} PROVE last' = Unknown /\ gauge' = Unset
        BY <1>16 DEF Tick
      <3>1. Older(NoTime) = NoTime
        BY DEF Older
      <3>2. gauge' = [s \in Sinks |-> [Unset[s] EXCEPT !.ts = Older(Unset[s].ts)]]
        BY <1>16 DEF Tick
      <3>3. last' = [s \in Sinks |-> Older(Unknown[s])]
        BY <1>16 DEF Tick
      <3> QED
        BY <3>1, <3>2, <3>3 DEF Unset, Unknown
    <2> QED
      <3>1. MainKnows'
        BY <1>16, <2>1, <2>2 DEF Tick
      <3>2. ReporterKnows'
        BY <1>16, <2>2 DEF Tick
      <3> QED
        BY <2>3, <3>1, <3>2
  <1>17. CASE Crash
    BY <1>17 DEF Crash
  <1>18. CASE Restart
    BY <1>18 DEF Restart
  <1>19. CASE UNCHANGED vars
    BY <1>19 DEF vars
  <1> QED
    BY <1>1, <1>2, <1>3, <1>4, <1>5, <1>6, <1>7, <1>8, <1>9, <1>10,
       <1>11, <1>12, <1>13, <1>14, <1>15, <1>16, <1>17, <1>18, <1>19 DEF Next, Main, Report

-----------------------------------------------------------------------------
(* What is exported. *)

\* Nothing is known before the boot, and nothing is exported.
LEMMA InitExported == Init => ExportedIffKnown
  BY Starts DEF Init, ExportedIffKnown, Unset, Unknown, TypeOK

\* A Set of either goroutine is of a sink with a last success, a restart
\* republishes what memory is given, and a timestamp grows old with its time.
LEMMA NextExported == TypeOK /\ Parts /\ ExportedIffKnown /\ [Next]_vars => ExportedIffKnown'
  <1> SUFFICES ASSUME TypeOK, Parts, ExportedIffKnown, [Next]_vars PROVE ExportedIffKnown'
    OBVIOUS
  <1> USE Starts DEF TypeOK, Goto, main, reporter, Parts, BlankBeforeBoot, MainKnows, ReporterKnows,
                     ExportedIffKnown, Enabled, Gauges
  <1>1. CASE Boot
    BY <1>1 DEF Boot, Restored, Unset
  <1>2. CASE BootBlind
    BY <1>2 DEF BootBlind
  <1>3. CASE FeedFails
    BY <1>3 DEF FeedFails
  <1>4. CASE FeedDelivers
    BY <1>4 DEF FeedDelivers
  <1>5. CASE SinkSucceeds
    BY <1>5 DEF SinkSucceeds
  <1>6. CASE SinkFails
    BY <1>6 DEF SinkFails, AfterSink
  <1>7. CASE SetTimestamp
    BY <1>7 DEF SetTimestamp, Set
  <1>8. CASE SetAge
    BY <1>8 DEF SetAge, Set
  <1>9. CASE SetFresh
    BY <1>9 DEF SetFresh, Set, AfterSink
  <1>10. CASE Mark
    BY <1>10 DEF Mark, AfterSink
  <1>11. CASE StaleAge
    BY <1>11 DEF StaleAge, Set, AfterStaleness
  <1>12. CASE StaleFlag
    BY <1>12 DEF StaleFlag, Set, AfterStaleness
  <1>13. CASE Copy
    BY <1>13 DEF Copy
  <1>14. CASE ReportAge
    BY <1>14 DEF ReportAge, NextReport
  <1>15. CASE ReportStale
    BY <1>15 DEF ReportStale, NextReport
  <1>16. CASE Tick
    BY <1>16, OlderType DEF Tick
  <1>17. CASE Crash
    BY <1>17 DEF Crash, Unset, Unknown
  <1>18. CASE Restart
    BY <1>18 DEF Restart
  <1>19. CASE UNCHANGED vars
    BY <1>19 DEF vars
  <1> QED
    BY <1>1, <1>2, <1>3, <1>4, <1>5, <1>6, <1>7, <1>8, <1>9, <1>10,
       <1>11, <1>12, <1>13, <1>14, <1>15, <1>16, <1>17, <1>18, <1>19 DEF Next, Main, Report

-----------------------------------------------------------------------------
(* What a report leaves behind. *)

\* No report has begun before the boot.
LEMMA InitReport == Init => ReportTrue /\ ReportSettles
  BY Starts DEF Init, ReportTrue, ReportSettles, TypeOK

\* A report that main has not touched since the copy says what memory holds.
LEMMA NextReports ==
    TypeOK /\ Parts /\ ReportTrue /\ ReportSettles /\ [Next]_vars => ReportTrue' /\ ReportSettles'
  <1> SUFFICES ASSUME TypeOK, Parts, ReportTrue, ReportSettles, [Next]_vars
               PROVE  ReportTrue' /\ ReportSettles'
    OBVIOUS
  <1> USE Starts DEF TypeOK, Goto, main, reporter, Parts, BlankBeforeBoot, MainKnows, ReporterKnows,
                     ReportTrue, ReportSettles, Enabled, Gauges
  <1>1. CASE Boot
    BY <1>1 DEF Boot, Restored
  <1>2. CASE BootBlind
    BY <1>2 DEF BootBlind
  <1>3. CASE FeedFails
    BY <1>3 DEF FeedFails
  <1>4. CASE FeedDelivers
    BY <1>4 DEF FeedDelivers
  <1>5. CASE SinkSucceeds
    BY <1>5 DEF SinkSucceeds
  <1>6. CASE SinkFails
    BY <1>6 DEF SinkFails, AfterSink
  <1>7. CASE SetTimestamp
    BY <1>7 DEF SetTimestamp, Set
  <1>8. CASE SetAge
    BY <1>8 DEF SetAge, Set
  <1>9. CASE SetFresh
    BY <1>9 DEF SetFresh, Set, AfterSink
  <1>10. CASE Mark
    BY <1>10 DEF Mark, AfterSink
  <1>11. CASE StaleAge
    <2>1. CASE last[sink] = NoTime
      BY <1>11, <2>1 DEF StaleAge, AfterStaleness
    <2>2. CASE last[sink] # NoTime
      <3>1. /\ gauge' = [gauge EXCEPT ![sink].age = last[sink]]
            /\ report' = [report EXCEPT ![sink] = "none"]
            /\ UNCHANGED <<last, due, rpc, rsink, copied, age>>
        BY <1>11, <2>2 DEF StaleAge, Set
      <3> QED
        BY <3>1
    <2> QED
      BY <2>1, <2>2
  <1>12. CASE StaleFlag
    BY <1>12 DEF StaleFlag, Set, AfterStaleness
  <1>13. CASE Copy
    BY <1>13 DEF Copy
  <1>14. CASE ReportAge
    BY <1>14 DEF ReportAge, NextReport
  <1>15. CASE ReportStale
    BY <1>15 DEF ReportStale, NextReport
  <1>16. CASE Tick
    BY <1>16, OlderType DEF Tick
  <1>17. CASE Crash
    BY <1>17 DEF Crash
  <1>18. CASE Restart
    BY <1>18 DEF Restart
  <1>19. CASE UNCHANGED vars
    BY <1>19 DEF vars
  <1> QED
    BY <1>1, <1>2, <1>3, <1>4, <1>5, <1>6, <1>7, <1>8, <1>9, <1>10,
       <1>11, <1>12, <1>13, <1>14, <1>15, <1>16, <1>17, <1>18, <1>19 DEF Next, Main, Report

-----------------------------------------------------------------------------
(* Theorems. *)

\* Every step keeps the inductive invariant.
LEMMA Inductive == Spec => []IInv
  <1>1. Init => IInv
    BY InitType, InitParts, InitExported, InitReport DEF IInv, Claims
  <1>2. IInv /\ [Next]_vars => IInv'
    BY NextType, NextParts, NextExported, NextReports DEF IInv, Claims
  <1> QED
    BY <1>1, <1>2, PTL DEF Spec

\* The types, and that neither goroutine acts on a time it does not know, hold
\* for every MAX_STALE_AGE.
THEOREM TypeCorrect == Spec => []TypeOK
  <1>1. IInv => TypeOK
    BY DEF IInv
  <1> QED
    BY <1>1, Inductive, PTL

\* The timestamp gauge is the last success known, across restarts, and a sink
\* without one exports nothing (restoreSuccessMetrics, the lazy gauges).
THEOREM Exported == Spec => []ExportedIffKnown
  <1>1. IInv => ExportedIffKnown
    BY DEF IInv, Claims
  <1> QED
    BY <1>1, Inductive, PTL

\* A report that began after main's last word leaves age and flag right,
\* whatever main and the reporter set in between (reportFeedAge).
THEOREM Settles == Spec => []ReportSettles
  <1>1. IInv => ReportSettles
    BY DEF IInv, Claims
  <1> QED
    BY <1>1, Inductive, PTL

=============================================================================
