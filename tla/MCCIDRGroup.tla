---------------------------- MODULE MCCIDRGroup ----------------------------
EXTENDS CIDRGroup, TLC

CONSTANTS p1, p2, full

TwoPods == {p1, p2}
\* The pods are interchangeable: no action or property names one of them.
Symmetry == Permutations(TwoPods)
\* A list and the empty one tell apart what a write keeps from what it replaces.
MCLists == {NoCIDRs, full}
MCFeeds == {full}
=============================================================================
