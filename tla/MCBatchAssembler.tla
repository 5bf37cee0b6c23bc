-------------------------- MODULE MCBatchAssembler --------------------------
\* BatchAssembler with interchangeable order references.
EXTENDS BatchAssembler, TLC

Symmetry == Permutations(Refs)
=============================================================================
