----------------------------- MODULE MCOutputSet -----------------------------
EXTENDS OutputSet
=============================================================================
