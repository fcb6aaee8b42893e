---------------------------- MODULE MCParChecker ----------------------------
EXTENDS ParChecker, TLC
CONSTANTS v1, v2, v4

\* Par-files of one, two and four blocks, the last one with a name of its own.
ThreeVols == <<v2, v1, v4>>
PowersOfTwo == (v1 :> 1) @@ (v2 :> 2) @@ (v4 :> 4)
=============================================================================
