---------------------------- MODULE MCOutputPair ----------------------------
EXTENDS OutputPair
=============================================================================
