---------------------------- MODULE MCEdgeSession ----------------------------
EXTENDS EdgeSession
=============================================================================
