----------------------------- MODULE MCFeedAge -----------------------------
EXTENDS FeedAge
=============================================================================
