------------------------ MODULE MCFirewallCollector ------------------------
EXTENDS FirewallCollector

\* Both keys belong to one client, so the sort leaves their order open.
MCClient == [k \in Keys |-> 1]

Logged(k, x) == [key |-> k, sample |-> x]

\* Nothing, or blocks of two keys behind an event that was let through; what is
\* ingested late may show the same key with another sample.
MCRows == {<<>>, <<Logged(0, "a"), Logged(1, "a"), Logged(2, "a")>>}
\* Nothing, a block, and two blocks of one key.
MCOneKeyRows == {<<>>, <<Logged(1, "a")>>, <<Logged(1, "a"), Logged(1, "a")>>}

Env(lookback, maxWindow, limit) ==
    [Committed EXCEPT !.pollInterval = SlotsPerMinute, !.lookback = lookback,
                      !.maxWindow = maxWindow, !.rows = limit]

\* A cap of a minute and a half, a longer lookback for a backfill, and a cap
\* below the poll interval, which is refused.
MCEnvs == {Env(2, 3, 6), Env(4, 3, 6), Env(2, 1, 6)}
MCTwoRows == {Env(2, 100, 2)}
=============================================================================
