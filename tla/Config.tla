------------------------------- MODULE Config -------------------------------
(***************************************************************************)
(* config.go: which environments LoadConfig accepts.  main exits on any    *)
(* other, so the process stays down until the ConfigMap, the Secret or the *)
(* filter files are repaired; an accepted one is read once per process.    *)
(*                                                                         *)
(* A setting that is a name or a credential is TRUE when it is usable.     *)
(***************************************************************************)
EXTENDS Integers

CONSTANT SlotsPerMinute      \* the unit of every duration

ASSUME MinuteAssumption == SlotsPerMinute \in Nat \ {0}

Environments ==
    [parses : BOOLEAN,            \* every number, duration and switch, used or not
     filters : BOOLEAN,           \* both filter files are missing or parse
     apiKey : BOOLEAN, token : BOOLEAN, accountID : BOOLEAN, zoneID : BOOLEAN, ruleRef : BOOLEAN,
     limit : Int, confidenceMinimum : Int, syncInterval : Int, maxStaleAge : Int,
     stale : {"fail-open", "retain", "other"}, minEntries : Int, maxShrinkPercent : Int,
     cloudflare : BOOLEAN, maxEntries : Int,
     collector : BOOLEAN, pollInterval : Int, lookback : Int, maxWindow : Int, rows : Int]

FeedAccepted(env) ==
    /\ env.apiKey
    /\ env.limit \in 1 .. 500000
    /\ env.confidenceMinimum = 0 \/ env.confidenceMinimum \in 25 .. 100
    /\ env.syncInterval >= 5 * SlotsPerMinute
    /\ env.maxStaleAge > 0
    /\ env.stale \in {"fail-open", "retain"}
    /\ env.minEntries >= 0
    /\ env.maxShrinkPercent \in 0 .. 99

CloudflareAccepted(env) ==
    env.cloudflare => /\ env.token /\ env.accountID /\ env.zoneID /\ env.ruleRef
                      /\ env.maxEntries \in 1 .. 500000

CollectorAccepted(env) ==
    env.collector => /\ env.token /\ env.zoneID
                     /\ env.pollInterval >= SlotsPerMinute
                     /\ env.lookback > 0
                     /\ env.maxWindow >= env.pollInterval
                     /\ env.rows >= 1 /\ env.rows <= 10000

\* The filter files are read last.
LoadConfig(env) ==
    /\ env.parses
    /\ FeedAccepted(env) /\ CloudflareAccepted(env) /\ CollectorAccepted(env)
    /\ env.filters

\* What the defaults and the committed ConfigMap amount to.
Committed ==
    [parses |-> TRUE, filters |-> TRUE,
     apiKey |-> TRUE, token |-> TRUE, accountID |-> TRUE, zoneID |-> TRUE, ruleRef |-> TRUE,
     limit |-> 10000, confidenceMinimum |-> 0,
     syncInterval |-> 360 * SlotsPerMinute, maxStaleAge |-> 1440 * SlotsPerMinute,
     stale |-> "fail-open", minEntries |-> 1, maxShrinkPercent |-> 50,
     cloudflare |-> TRUE, maxEntries |-> 10000,
     collector |-> TRUE, pollInterval |-> 5 * SlotsPerMinute, lookback |-> 5 * SlotsPerMinute,
     maxWindow |-> 1440 * SlotsPerMinute, rows |-> 5000]
=============================================================================
