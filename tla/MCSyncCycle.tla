---------------------------- MODULE MCSyncCycle ----------------------------
EXTENDS SyncCycle, TLC

CONSTANTS full, short

\* full to short is a shrink of more than half of at least 100 entries.
MCLists == {NoCIDRs, full, short}
MCSize == (NoCIDRs :> 0) @@ (full :> 120) @@ (short :> 30)

\* The committed configuration, but for the time scale.
Base == [Committed EXCEPT !.maxStaleAge = MaxAge]
Retain == [Base EXCEPT !.stale = "retain"]
CiliumOnly == [Base EXCEPT !.cloudflare = FALSE, !.token = FALSE]
StaleSooner == [Base EXCEPT !.maxStaleAge = 1, !.maxShrinkPercent = 0]
\* Refused: the sink is enabled without its token.
NoToken == [Base EXCEPT !.token = FALSE]

MCOneEnv == {Base}
MCEditedEnvs == {Base, Retain, CiliumOnly, StaleSooner, NoToken}
MCFaultyEnvs == {Base, NoToken}
\* CLOUDFLARE_MAX_ENTRIES below the size of the longer list.
MCSmallEnvs == {[e EXCEPT !.maxEntries = 100] : e \in {Base, Retain}}
=============================================================================
