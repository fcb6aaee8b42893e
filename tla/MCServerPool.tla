---------------------------- MODULE MCServerPool ----------------------------
EXTENDS ServerPool, TLC

\* Two connections on level 0 to compete for, one on level 2, none on level 1.
MCConnLevel == <<0, 2, 0>>

MCSymmetry == Permutations(Downloaders)
=============================================================================
