------------------------ MODULE MCArticleDownloader ------------------------
EXTENDS ArticleDownloader, TLC

\* Two connections on level 0 and one on level 1, or one on each level.
TwoLevels == [l \in 0..1 |-> IF l = 0 THEN 2 ELSE 1]
OneEach == [l \in 0..1 |-> 1]

MCSymmetry == Permutations(Downloaders)
=============================================================================
