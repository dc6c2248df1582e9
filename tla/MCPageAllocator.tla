-------------------------- MODULE MCPageAllocator --------------------------
\* Instances of PageAllocator for TLC.
EXTENDS PageAllocator, TLC

Symm == Permutations(Models) \union Permutations(VirtPages)
=============================================================================
