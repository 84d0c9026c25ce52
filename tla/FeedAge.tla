------------------------------ MODULE FeedAge ------------------------------
(***************************************************************************)
(* The age gauges of both sinks and the two goroutines that set them:      *)
(* syncOnce and updateStaleness in the main goroutine (main.go), and       *)
(* reportFeedAge once a minute.  App.mu protects the last success times,   *)
(* which only the main goroutine writes, but not the gauges: each Set is a *)
(* step of its own, of a value computed earlier.  A pod that restarts      *)
(* knows what the annotations of the group say.                            *)
(*                                                                         *)
(* A time is kept as its age, as in SyncCycle: minutes, and MaxStaleAge +  *)
(* 1 for everything older.                                                 *)
(***************************************************************************)
EXTENDS Integers

CONSTANT MaxStaleAge      \* ABUSEIPDB_MAX_STALE_AGE, in minutes

ASSUME AgeAssumption == MaxStaleAge \in Nat

VARIABLES
    cloudflare,  \* CLOUDFLARE_SYNC_ENABLED: App.cf is not nil
    stored,      \* the group's annotation of each sink
    last,        \* App.lastSuccess and App.cfLastSuccess
    gauge,       \* each sink's timestamp, age and stale gauge
    pc, sink,    \* the main goroutine: its next step, and for which sink
    now,         \* syncOnce's now
    failed,      \* syncOnce: a sink has failed
    seen,        \* updateStaleness' age
    due,         \* the reporter's ticker has a tick that was not received
    rpc, rsink,  \* the reporter: its next step, and for which sink
    copied,      \* its copies of the last success times
    age,         \* its age
    report       \* how far a report of what main left behind has come

main     == <<pc, sink, now, failed, seen>>
reporter == <<rpc, rsink, copied, age>>
vars     == <<cloudflare, stored, last, gauge, main, due, reporter, report>>

Sinks == {"cilium", "cloudflare"}
NoTime == -1
Absent == NoTime                      \* a lazy gauge that was never set
Ages == 0 .. MaxStaleAge + 1
AgesOrNone == Ages \cup {NoTime}
Gauges == [ts : AgesOrNone, age : AgesOrNone, stale : BOOLEAN]

Older(a) == IF a = NoTime \/ a > MaxStaleAge THEN a ELSE a + 1
IsStale(a) == a > MaxStaleAge

\* A process that has just started exports no lazy gauge; feed_stale is 0.
Unset == [s \in Sinks |-> [ts |-> Absent, age |-> Absent, stale |-> FALSE]]
Unknown == [s \in Sinks |-> NoTime]

Init ==
    /\ cloudflare \in BOOLEAN
    /\ stored \in [Sinks -> AgesOrNone] /\ last = Unknown /\ gauge = Unset
    /\ pc = "boot" /\ sink = "cilium" /\ now = NoTime /\ failed = FALSE /\ seen = NoTime
    /\ due = FALSE
    /\ rpc = "wait" /\ rsink = "cilium" /\ copied = Unknown /\ age = NoTime
    /\ report = [s \in Sinks |-> "none"]

-----------------------------------------------------------------------------
(* The main goroutine. *)

\* Set one gauge of the current sink; what was reported of it is history.
Set(g, v) ==
    /\ gauge' = [gauge EXCEPT ![sink][g] = v]
    /\ report' = [report EXCEPT ![sink] = "none"]

Goto(label) == pc' = label /\ UNCHANGED <<sink, now, failed, seen>>

Enabled(s) == s = "cilium" \/ cloudflare

\* Mutant of Restored: the timestamp is not republished.
RestoredAge(s) == [ts |-> Absent, age |-> stored[s], stale |-> IsStale(stored[s])]

Restored(s) == [ts |-> stored[s], age |-> stored[s], stale |-> IsStale(stored[s])]

\* Read the annotations and republish the gauges (restoreSuccessMetrics),
\* before the reporter and the metrics server start.
Boot ==
    /\ pc = "boot" /\ Goto("cycle")
    /\ last' = stored
    /\ gauge' = [s \in Sinks |-> IF stored[s] # NoTime /\ Enabled(s) THEN Restored(s) ELSE gauge[s]]
    /\ UNCHANGED <<cloudflare, stored, due, reporter, report>>

\* The read fails: nothing is known until a sink succeeds.
BootBlind ==
    /\ pc = "boot" /\ Goto("cycle")
    /\ UNCHANGED <<cloudflare, stored, last, gauge, due, reporter, report>>

\* failSync: the feed is not there, or not valid.
FeedFails ==
    /\ pc = "cycle"
    /\ pc' = "staleAge" /\ sink' = "cilium" /\ UNCHANGED <<now, failed, seen>>
    /\ UNCHANGED <<cloudflare, stored, last, gauge, due, reporter, report>>

FeedDelivers ==
    /\ pc = "cycle"
    /\ pc' = "try" /\ sink' = "cilium" /\ now' = 0 /\ failed' = FALSE /\ UNCHANGED seen
    /\ UNCHANGED <<cloudflare, stored, last, gauge, due, reporter, report>>

\* After a sink: the next one, or the end of syncOnce.
AfterSink(f) ==
    /\ failed' = f /\ UNCHANGED seen
    /\ \/ /\ sink = "cilium" /\ cloudflare
          /\ pc' = "try" /\ sink' = "cloudflare" /\ UNCHANGED now
       \/ /\ sink = "cloudflare" \/ ~cloudflare
          /\ pc' = IF f THEN "staleAge" ELSE "cycle"
          /\ sink' = "cilium" /\ now' = NoTime

\* Apply or Sync returns no error: the success is noted under the lock.
\* Apply stored the annotation in the same write; Cloudflare's comes last.
SinkSucceeds ==
    /\ pc = "try" /\ Goto("setTimestamp")
    /\ last' = [last EXCEPT ![sink] = now]
    /\ stored' = IF sink = "cilium" THEN [stored EXCEPT ![sink] = now] ELSE stored
    /\ report' = [report EXCEPT ![sink] = "none"]
    /\ UNCHANGED <<cloudflare, gauge, due, reporter>>

\* An error; Apply may have stored the annotation all the same.
SinkFails ==
    /\ pc = "try" /\ AfterSink(TRUE)
    /\ \/ UNCHANGED stored
       \/ sink = "cilium" /\ stored' = [stored EXCEPT ![sink] = now]
    /\ UNCHANGED <<cloudflare, last, gauge, due, reporter, report>>

SetTimestamp ==
    /\ pc = "setTimestamp" /\ Goto("setAge") /\ Set("ts", now)
    /\ UNCHANGED <<cloudflare, stored, last, due, reporter>>

SetAge ==
    /\ pc = "setAge" /\ Goto("setFresh") /\ Set("age", 0)
    /\ UNCHANGED <<cloudflare, stored, last, due, reporter>>

SetFresh ==
    /\ pc = "setFresh" /\ Set("stale", FALSE)
    /\ \/ sink = "cilium" /\ AfterSink(failed)
       \/ sink = "cloudflare" /\ Goto("mark")
    /\ UNCHANGED <<cloudflare, stored, last, due, reporter>>

\* MergeAnnotations; an error is only logged.
Mark ==
    /\ pc = "mark" /\ AfterSink(failed)
    /\ stored' \in {stored, [stored EXCEPT !["cloudflare"] = now]}
    /\ UNCHANGED <<cloudflare, last, gauge, due, reporter, report>>

\* updateStaleness: the age of each sink that has one, then the flag.
AfterStaleness ==
    IF sink = "cilium" /\ cloudflare
      THEN pc' = "staleAge" /\ sink' = "cloudflare"
      ELSE pc' = "cycle" /\ sink' = "cilium"

StaleAge ==
    /\ pc = "staleAge"
    /\ \/ /\ last[sink] = NoTime /\ AfterStaleness
          /\ UNCHANGED <<gauge, report, seen>>
       \/ /\ last[sink] # NoTime /\ pc' = "staleFlag" /\ UNCHANGED sink
          /\ seen' = last[sink] /\ Set("age", last[sink])
    /\ UNCHANGED <<cloudflare, stored, last, now, failed, due, reporter>>

StaleFlag ==
    /\ pc = "staleFlag" /\ AfterStaleness
    /\ Set("stale", IsStale(seen))
    /\ seen' = NoTime
    /\ UNCHANGED <<cloudflare, stored, last, now, failed, due, reporter>>

-----------------------------------------------------------------------------
(* reportFeedAge. *)

\* A tick is received: copy the times under the lock.
Copy ==
    /\ pc # "down" /\ pc # "boot" /\ rpc = "wait" /\ due
    /\ due' = FALSE /\ copied' = last
    /\ rpc' = "age" /\ rsink' = "cilium"
    /\ report' = [s \in Sinks |-> "begun"]
    /\ UNCHANGED <<cloudflare, stored, last, gauge, main, age>>

\* Mutant of NextReport: Cloudflare is reported although it is disabled.
NextReportAnyway ==
    /\ \/ rsink = "cilium" /\ rpc' = "age" /\ rsink' = "cloudflare"
       \/ rsink = "cloudflare" /\ rpc' = "wait" /\ rsink' = "cilium"
    /\ report' = [report EXCEPT ![rsink] = IF @ = "begun" THEN "done" ELSE @]

NextReport ==
    /\ \/ rsink = "cilium" /\ cloudflare /\ rpc' = "age" /\ rsink' = "cloudflare"
       \/ rsink = "cloudflare" /\ rpc' = "wait" /\ rsink' = "cilium"
       \/ ~cloudflare /\ rpc' = "wait" /\ UNCHANGED rsink
    /\ report' = [report EXCEPT ![rsink] = IF @ = "begun" THEN "done" ELSE @]

\* Mutant of ReportAge: the Cloudflare branch takes the Cilium time.
ReportAgeOfCilium ==
    /\ rpc = "age"
    /\ \/ copied[rsink] = NoTime /\ NextReport /\ UNCHANGED <<gauge, age>>
       \/ /\ copied[rsink] # NoTime
          /\ age' = copied["cilium"]
          /\ gauge' = [gauge EXCEPT ![rsink].age = copied["cilium"]]
          /\ rpc' = "stale" /\ UNCHANGED <<rsink, report>>
    /\ UNCHANGED <<cloudflare, stored, last, main, due, copied>>

\* The age at this moment of the copied time.
ReportAge ==
    /\ rpc = "age"
    /\ \/ copied[rsink] = NoTime /\ NextReport /\ UNCHANGED <<gauge, age>>
       \/ /\ copied[rsink] # NoTime
          /\ age' = copied[rsink]
          /\ gauge' = [gauge EXCEPT ![rsink].age = copied[rsink]]
          /\ rpc' = "stale" /\ UNCHANGED <<rsink, report>>
    /\ UNCHANGED <<cloudflare, stored, last, main, due, copied>>

\* Mutant of ReportStale: it leaves raising the flag to updateStaleness.
ReportStaleOnly ==
    /\ rpc = "stale" /\ NextReport
    /\ gauge' = [gauge EXCEPT ![rsink].stale = @ /\ IsStale(age)]
    /\ age' = NoTime
    /\ UNCHANGED <<cloudflare, stored, last, main, due, copied>>

ReportStale ==
    /\ rpc = "stale" /\ NextReport
    /\ gauge' = [gauge EXCEPT ![rsink].stale = IsStale(age)]
    /\ age' = NoTime
    /\ UNCHANGED <<cloudflare, stored, last, main, due, copied>>

-----------------------------------------------------------------------------
(* Time, crashes. *)

\* A minute passes, for every time; a gauge stays, but a timestamp is a time.
\* A ticker keeps one tick for a slow receiver and drops the others.
Tick ==
    /\ stored' = [s \in Sinks |-> Older(stored[s])]
    /\ last' = [s \in Sinks |-> Older(last[s])]
    /\ copied' = [s \in Sinks |-> Older(copied[s])]
    /\ gauge' = [s \in Sinks |-> [gauge[s] EXCEPT !.ts = Older(@)]]
    /\ now' = Older(now)
    /\ due' = (pc # "down" /\ pc # "boot")
    /\ UNCHANGED <<cloudflare, pc, sink, failed, seen, rpc, rsink, age, report>>

Crash ==
    /\ pc # "down" /\ pc' = "down"
    /\ last' = Unknown /\ gauge' = Unset
    /\ sink' = "cilium" /\ now' = NoTime /\ failed' = FALSE /\ seen' = NoTime
    /\ due' = FALSE
    /\ rpc' = "wait" /\ rsink' = "cilium" /\ copied' = Unknown /\ age' = NoTime
    /\ report' = [s \in Sinks |-> "none"]
    /\ UNCHANGED <<cloudflare, stored>>

Restart ==
    /\ pc = "down" /\ Goto("boot")
    /\ UNCHANGED <<cloudflare, stored, last, gauge, due, reporter, report>>

-----------------------------------------------------------------------------
Main == \/ Boot \/ BootBlind \/ FeedFails \/ FeedDelivers \/ SinkSucceeds \/ SinkFails
        \/ SetTimestamp \/ SetAge \/ SetFresh \/ Mark \/ StaleAge \/ StaleFlag
Report == Copy \/ ReportAge \/ ReportStale

Next == Main \/ Report \/ Tick \/ Crash \/ Restart

Spec == Init /\ [][Next]_vars

\* The clock moves on and the reporter runs; the main goroutine may hang.
FairSpec == Spec /\ WF_vars(Tick) /\ WF_vars(Report)

-----------------------------------------------------------------------------
(* Properties. *)

\* Every variable holds a value of its kind; the main goroutine and the reporter
\* are never about to set a gauge from a time they do not know, and nothing is
\* done for Cloudflare unless it is enabled.
TypeOK ==
    /\ cloudflare \in BOOLEAN
    /\ stored \in [Sinks -> AgesOrNone] /\ last \in [Sinks -> AgesOrNone]
    /\ gauge \in [Sinks -> Gauges]
    /\ pc \in {"down", "boot", "cycle", "try", "setTimestamp", "setAge", "setFresh", "mark",
               "staleAge", "staleFlag"}
    /\ sink \in Sinks /\ now \in AgesOrNone /\ failed \in BOOLEAN /\ seen \in AgesOrNone
    /\ due \in BOOLEAN
    /\ rpc \in {"wait", "age", "stale"} /\ rsink \in Sinks
    /\ copied \in [Sinks -> AgesOrNone] /\ age \in AgesOrNone
    /\ report \in [Sinks -> {"none", "begun", "done"}]
    /\ pc \in {"try", "setTimestamp", "setAge", "setFresh", "mark"} => now # NoTime
    /\ pc = "staleFlag" => seen # NoTime
    /\ rpc = "stale" => age # NoTime
    /\ Enabled(sink) /\ Enabled(rsink)

\* "so the timestamp and age gauges survive a pod restart", and "zero times stay
\* unexported": except between a success and the Set that follows it, the
\* timestamp is the last success the pod knows of, and a sink without one
\* exports neither timestamp nor age, nor that it is stale.
ExportedIffKnown ==
    \A s \in Sinks : Enabled(s) =>
        /\ (pc = "setTimestamp" /\ sink = s) \/ gauge[s].ts = last[s]
        /\ last[s] = NoTime => gauge[s].age = Absent /\ ~gauge[s].stale

\* Whatever the two goroutines did to each other's gauges, a report that began
\* after the main goroutine's last word on a sink settles them: until the next
\* minute, age and flag agree with the last success and with each other.
ReportSettles ==
    ~due => \A s \in Sinks : report[s] = "done" /\ last[s] # NoTime =>
        gauge[s].age = last[s] /\ (gauge[s].stale <=> IsStale(last[s]))

\* Even while the main goroutine hangs in a call, and whatever it does otherwise,
\* the flag of a sink keeps coming back to what its last success says: a list
\* that has become stale is reported so.
FlagFollows ==
    \A s \in Sinks : []<>(Enabled(s) => (gauge[s].stale <=> IsStale(last[s])))
=============================================================================
