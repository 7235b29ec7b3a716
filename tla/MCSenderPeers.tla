--------------------------- MODULE MCSenderPeers ---------------------------
\* SenderPeers for TLC: receivers at a listener are interchangeable.
EXTENDS SenderPeers, TLC

Symmetry == Permutations(Addresses) \union Permutations(Callers)
=============================================================================
