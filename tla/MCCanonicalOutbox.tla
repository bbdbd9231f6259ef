------------------------- MODULE MCCanonicalOutbox -------------------------
EXTENDS CanonicalOutbox, TLC

\* Nothing tells two rows, or two processes, apart.
Symmetry == Permutations(Rows) \cup Permutations(Workers)
=============================================================================
