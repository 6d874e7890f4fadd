----------------------------- MODULE MCStorage -----------------------------
EXTENDS Storage, TLC

Symmetry == Permutations(Commits) \union Permutations(Digests)
=============================================================================
