--------------------------- MODULE MCNetworkGuard ---------------------------
\* Two requests at a time against a daemon that moves between two networks.
EXTENDS NetworkGuard, TLC

CONSTANTS w1, w2

MCSymmetry == Permutations({w1, w2})
=============================================================================
