---------------------------- MODULE MCOrderHash ----------------------------
\* OrderHash with symmetric references.
EXTENDS OrderHash, TLC

Symmetry == Permutations(Refs)
=============================================================================
