-------------------------- MODULE MCWorkItemFocus ---------------------------
EXTENDS WorkItemFocus, TLC

Symmetry == Permutations(Thread)
=============================================================================
