---------------------------- MODULE MCResultFetch ----------------------------
EXTENDS ResultFetch

FetchCounts == {-1, 0, 1, 2, 3}
=============================================================================
