-------------------------- MODULE MCPostProcessor --------------------------
EXTENDS PostProcessor, TLC
CONSTANTS n1, n2, a, m, v, w, s1, s2

\* A collection with a par-file and a volume of one par-set and a par-file of another.
OneNzb == [f \in {m, v, w} |-> n1]
TwoSets == (m :> s1) @@ (v :> s1) @@ (w :> s2)

\* A collection with a par-file and a volume, and one without par-files.
TwoNzbs == (m :> n1) @@ (v :> n1) @@ (a :> n2)
OneSet == (m :> s1) @@ (v :> s1) @@ (a :> NoSet)
=============================================================================
