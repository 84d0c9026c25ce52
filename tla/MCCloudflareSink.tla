-------------------------- MODULE MCCloudflareSink --------------------------
EXTENDS CloudflareSink

CONSTANTS a, b, c

\* The empty list, one and two pages, and one that is too long.
MCLists == {<<>>, <<a>>, <<a, b>>, <<a, b, c>>}
=============================================================================
