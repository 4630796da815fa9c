----------------------------- MODULE MCSimTicker ----------------------------
EXTENDS SimTicker
=============================================================================
