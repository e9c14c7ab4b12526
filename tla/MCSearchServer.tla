--------------------------- MODULE MCSearchServer ---------------------------
EXTENDS SearchServer, TLC

\* No set but {None} has a member that plays a part of its own.
Symmetry ==
  Permutations(Thread) \cup Permutations(Name) \cup Permutations(Doc) \cup Permutations(Writer)
=============================================================================
