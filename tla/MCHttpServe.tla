----------------------------- MODULE MCHttpServe -----------------------------
EXTENDS HttpServe, TLC

Symmetry == Permutations(Conns) \cup Permutations(Names)
=============================================================================
