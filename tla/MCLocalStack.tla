---------------------------- MODULE MCLocalStack ----------------------------
\* Setups are alike.
EXTENDS LocalStack, TLC

Symmetry == Permutations(Setups)
=============================================================================
