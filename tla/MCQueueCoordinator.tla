------------------------- MODULE MCQueueCoordinator -------------------------
EXTENDS QueueCoordinator, TLC

\* An nzb-file of one file, with two or three articles.
OneNzb == {"n1"}
OneFile == {"f1"}
OneFilesOf == [n \in OneNzb |-> <<"f1">>]
TwoArticles == [f \in OneFile |-> 2]
ThreeArticles == [f \in OneFile |-> 3]
OnePriority == [f \in OneFile |-> 0]

MCSymmetry == Permutations(Downloaders) \union Permutations(Conns)
=============================================================================
