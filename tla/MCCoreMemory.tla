---------------------------- MODULE MCCoreMemory ----------------------------
EXTENDS CoreMemory, TLC

\* Callers are interchangeable, and so are the facts the scan lets pass.
Symmetry == Permutations(Callers) \union Permutations(Facts \ Unsafe)
=============================================================================
