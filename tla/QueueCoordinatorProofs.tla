----------------------- MODULE QueueCoordinatorProofs -----------------------
(***************************************************************************)
(* Proofs about QueueCoordinator, for any queue of files, any number of    *)
(* downloaders and connections and all values of the options.              *)
(*                                                                         *)
(* The properties of the active downloads hold only together: a file is    *)
(* joined by one download alone because the counter of completed articles  *)
(* is right, which is right because every article has at most one          *)
(* download, which holds because articles in work are marked as running.   *)
(***************************************************************************)
EXTENDS QueueCoordinator, FiniteSetTheorems, SequenceTheorems, TLAPS

\* m_ActiveDownloads holds the downloads that are still to report.
ActiveIffAtWork ==
    \A d \in Downloaders : d \in active <=> pc[d] \notin {"none", "leaving"}

\* The article of a download at work is marked as running.
WorkIsMarked ==
    \A d \in active : /\ art[d] \in Articles
                      /\ pc[d] # "joining" => status[art[d]] = "running"

\* No article has two downloads.
OneDownloadPerArticle ==
    \A d, e \in active : art[d] = art[e] => d = e

\* Somebody is at work on an article that is marked as running.
MarkedIsWorkedOn ==
    \A a \in Articles : status[a] = "running" =>
        \E d \in active : pc[d] # "joining" /\ art[d] = a

IInv == /\ TypeOK
        /\ ActiveIffAtWork /\ WorkIsMarked
        /\ OneDownloadPerArticle /\ MarkedIsWorkedOn
        /\ CountersAgree /\ JoinsAlone /\ NoDanglingFile

\* The steps of Next, by what they do to the downloads: requests of other
\* threads, moves of a downloader that stays where it is, reports and removals.
Request ==
    \/ \E n \in Nzbs, addFirst \in BOOLEAN :
           \E dupes \in SUBSET SeqElements(FilesOf[n]) :
               AddNZBFileToQueue(n, dupes, addFirst)
    \/ \E f \in Files : PauseUnpauseEntry(f) \/ DeleteQueueEntry(f)
    \/ SetPauseDownload \/ StopFlag \/ StopDownloads

Moves(d) ==
    \/ BeginDownload(d) \/ AcquireConnection(d) \/ ReleaseAndRetry(d) \/ FetchArticle(d)
    \/ \E outcome \in {"finished", "failed", "retry"} : FinishDownload(d, outcome)
    \/ ReleaseSkipped(d) \/ ExitThread(d)

Leaves(d) == Reports(d) \/ FileJoined(d) \/ ResetHangingDownload(d)

\* Next is made of these and of the coordinator's steps.
LEMMA NextByThread ==
    [Next]_vars => \/ Request \/ CoordinatorStep \/ UNCHANGED vars
                   \/ \E d \in Downloaders : Moves(d) \/ Leaves(d)
BY DEF Next, Request, CoordinatorStep, Moves, Leaves, Reports

-----------------------------------------------------------------------------
(* Files, articles and the queue.                                          *)

\* An article belongs to one file, its own.
LEMMA ArticleFacts ==
    /\ \A f \in Files : ArticlesOf(f) \subseteq Articles
    /\ \A a \in Articles : FileOf(a) \in Files /\ a \in ArticlesOf(FileOf(a))
    /\ \A f : \A a \in ArticlesOf(f) : FileOf(a) = f
BY DEF Articles, ArticlesOf, FileOf

\* A file has as many articles as its count says.
LEMMA ArticlesCounted ==
    ASSUME NEW f \in Files
    PROVE  IsFiniteSet(ArticlesOf(f)) /\ Cardinality(ArticlesOf(f)) = ArticleCount[f]
<1>1. ArticleCount[f] \in Nat
  BY QueueAssumption
<1>2. IsFiniteSet(1..ArticleCount[f]) /\ Cardinality(1..ArticleCount[f]) = ArticleCount[f]
  BY <1>1, FS_Interval
<1>3. IsFiniteSet({f}) /\ Cardinality({f}) = 1
  BY FS_Singleton
<1>4. /\ IsFiniteSet({f} \X (1..ArticleCount[f]))
      /\ Cardinality({f} \X (1..ArticleCount[f])) = 1 * ArticleCount[f]
  BY <1>2, <1>3, FS_Product
<1> QED BY <1>1, <1>4 DEF ArticlesOf

\* The articles of a file that are done, and the downloads of a file, are
\* finite sets.
LEMMA SubsetsFinite ==
    ASSUME NEW f \in Files, TypeOK
    PROVE  /\ IsFiniteSet(Done(f)) /\ Done(f) \subseteq ArticlesOf(f)
           /\ IsFiniteSet(DownloadersOf(f)) /\ DownloadersOf(f) \subseteq Downloaders
<1>1. Done(f) \subseteq ArticlesOf(f)
  BY DEF Done
<1>2. DownloadersOf(f) \subseteq Downloaders
  BY DEF DownloadersOf, TypeOK
<1> QED BY <1>1, <1>2, ArticlesCounted, QueueAssumption, FS_Subset

\* The elements of a sequence, and of two joined ones.
LEMMA ElementsOfConcat ==
    ASSUME NEW s \in Seq(Files), NEW t \in Seq(Files)
    PROVE  /\ s \o t \in Seq(Files)
           /\ SeqElements(s \o t) = SeqElements(s) \union SeqElements(t)
<1>1. /\ s \o t \in Seq(Files) /\ Len(s \o t) = Len(s) + Len(t)
      /\ \A i \in 1..Len(s) + Len(t) :
             (s \o t)[i] = IF i <= Len(s) THEN s[i] ELSE t[i - Len(s)]
  BY ConcatProperties
<1>2. Len(s) \in Nat /\ Len(t) \in Nat
  OBVIOUS
<1>3. ASSUME NEW i \in 1..Len(t) PROVE (s \o t)[Len(s) + i] = t[i]
  BY <1>1, <1>2
<1>4. ASSUME NEW i \in 1..Len(s) PROVE (s \o t)[i] = s[i]
  BY <1>1, <1>2
<1>5. SeqElements(s) \subseteq SeqElements(s \o t)
  BY <1>1, <1>2, <1>4 DEF SeqElements
<1>6. SeqElements(t) \subseteq SeqElements(s \o t)
  <2> SUFFICES ASSUME NEW i \in 1..Len(t) PROVE t[i] \in SeqElements(s \o t)
    BY DEF SeqElements
  <2>1. Len(s) + i \in DOMAIN (s \o t)
    BY <1>1, <1>2
  <2> QED BY <1>3, <2>1 DEF SeqElements
<1>7. SeqElements(s \o t) \subseteq SeqElements(s) \union SeqElements(t)
  <2> SUFFICES ASSUME NEW i \in 1..Len(s \o t)
               PROVE  (s \o t)[i] \in SeqElements(s) \union SeqElements(t)
    BY <1>1 DEF SeqElements
  <2>1. CASE i <= Len(s)
    BY <1>1, <1>2, <2>1 DEF SeqElements
  <2>2. CASE ~(i <= Len(s))
    <3>1. i - Len(s) \in 1..Len(t) /\ (s \o t)[i] = t[i - Len(s)]
      BY <1>1, <1>2, <2>2
    <3> QED BY <3>1 DEF SeqElements
  <2> QED BY <2>1, <2>2
<1> QED BY <1>1, <1>5, <1>6, <1>7

\* The files of an nzb-file that are added to the queue are files of it.
LEMMA SurvivingType ==
    ASSUME NEW n \in Nzbs, NEW dupes, NEW s \in Surviving(n, dupes)
    PROVE  s \in Seq(Files) /\ SeqElements(s) \subseteq SeqElements(FilesOf[n])
<1> DEFINE K == SeqElements(FilesOf[n]) \ dupes
<1>1. FilesOf[n] \in Seq(Files)
  BY QueueAssumption
<1>2. K \subseteq Files /\ IsFiniteSet(K)
  <2>1. K \subseteq Files
    BY <1>1 DEF SeqElements
  <2> QED BY <2>1, QueueAssumption, FS_Subset
<1>3. Cardinality(K) \in Nat
  BY <1>2, FS_CardinalityType
<1>4. s \in [1..Cardinality(K) -> K]
  BY DEF Surviving
<1> HIDE DEF K
<1>5. s \in Seq(K) /\ DOMAIN s = 1..Cardinality(K)
  BY <1>3, <1>4
<1>6. s \in Seq(Files)
  BY <1>2, <1>5, SeqMonotonic
<1>7. SeqElements(s) \subseteq K
  BY <1>4, <1>5 DEF SeqElements
<1> QED BY <1>6, <1>7 DEF K

\* Erasing a file removes one entry of it and moves up the ones behind it.
LEMMA EraseEntries ==
    ASSUME NEW s \in Seq(Files), NEW f \in SeqElements(s)
    PROVE  /\ Erase(s, f) \in Seq(Files)
           /\ \E k \in 1..Len(s) :
                  /\ s[k] = f /\ Len(Erase(s, f)) = Len(s) - 1
                  /\ \A i \in 1..Len(s) - 1 :
                         Erase(s, f)[i] = IF i < k THEN s[i] ELSE s[i + 1]
<1> DEFINE k == IndexOf(s, f)
           left == SubSeq(s, 1, k - 1)
           right == SubSeq(s, k + 1, Len(s))
<1>1. k \in 1..Len(s) /\ s[k] = f
  BY DEF IndexOf, SeqElements
<1> HIDE DEF k
<1>2. Len(s) \in Nat /\ \A i \in 1..Len(s) : s[i] \in Files
  OBVIOUS
<1>3. /\ left \in Seq(Files) /\ Len(left) = k - 1
      /\ \A i \in 1..k - 1 : left[i] = s[i]
  <2>1. \A i \in 1..k - 1 : s[i] \in Files
    BY <1>1, <1>2
  <2>2. /\ left \in Seq(Files) /\ Len(left) = IF 1 <= k - 1 THEN k - 1 - 1 + 1 ELSE 0
        /\ \A i \in 1..(k - 1) - 1 + 1 : left[i] = s[1 + i - 1]
    BY <1>1, <1>2, <2>1, SubSeqProperties
  <2> HIDE DEF left
  <2> QED BY <1>1, <1>2, <2>2
<1>4. /\ right \in Seq(Files) /\ Len(right) = Len(s) - k
      /\ \A i \in 1..Len(s) - k : right[i] = s[k + i]
  <2>1. \A i \in k + 1..Len(s) : s[i] \in Files
    BY <1>1, <1>2
  <2>2. /\ right \in Seq(Files)
        /\ Len(right) = IF k + 1 <= Len(s) THEN Len(s) - (k + 1) + 1 ELSE 0
        /\ \A i \in 1..Len(s) - (k + 1) + 1 : right[i] = s[(k + 1) + i - 1]
    BY <1>1, <1>2, <2>1, SubSeqProperties
  <2> HIDE DEF right
  <2> QED BY <1>1, <1>2, <2>2
<1>5. Erase(s, f) = left \o right
  BY DEF Erase, k
<1> HIDE DEF left, right
<1>6. /\ Erase(s, f) \in Seq(Files) /\ Len(Erase(s, f)) = Len(left) + Len(right)
      /\ \A i \in 1..Len(left) + Len(right) :
             Erase(s, f)[i] = IF i <= Len(left) THEN left[i] ELSE right[i - Len(left)]
  <2>1. left \in Seq(Files) /\ right \in Seq(Files)
    BY <1>3, <1>4
  <2>2. /\ left \o right \in Seq(Files) /\ Len(left \o right) = Len(left) + Len(right)
        /\ \A i \in 1..Len(left) + Len(right) :
               (left \o right)[i] = IF i <= Len(left) THEN left[i] ELSE right[i - Len(left)]
    BY <2>1, ConcatProperties
  <2> QED BY <1>5, <2>2, Zenon
<1>7. Len(Erase(s, f)) = Len(s) - 1
  BY <1>1, <1>2, <1>3, <1>4, <1>6
<1>8. ASSUME NEW i \in 1..Len(s) - 1
      PROVE  Erase(s, f)[i] = IF i < k THEN s[i] ELSE s[i + 1]
  <2>1. Erase(s, f)[i] = IF i <= k - 1 THEN left[i] ELSE right[i - (k - 1)]
    BY <1>1, <1>2, <1>3, <1>4, <1>6
  <2>2. CASE i < k
    BY <1>1, <1>3, <2>1, <2>2
  <2>3. CASE ~(i < k)
    <3>1. i - (k - 1) \in 1..Len(s) - k /\ k + (i - (k - 1)) = i + 1
      BY <1>1, <1>2, <2>3
    <3>2. right[i - (k - 1)] = s[i + 1]
      BY <1>4, <3>1
    <3> QED BY <1>1, <2>1, <2>3, <3>2
  <2> QED BY <2>2, <2>3
<1>9. \A i \in 1..Len(s) - 1 : Erase(s, f)[i] = IF i < k THEN s[i] ELSE s[i + 1]
  BY <1>8
<1>10. \E kk \in 1..Len(s) :
           /\ s[kk] = f /\ Len(Erase(s, f)) = Len(s) - 1
           /\ \A i \in 1..Len(s) - 1 :
                  Erase(s, f)[i] = IF i < kk THEN s[i] ELSE s[i + 1]
  BY <1>1, <1>7, <1>9, Zenon
<1> QED BY <1>6, <1>10

\* Erasing a file keeps all the other files.
LEMMA EraseFile ==
    ASSUME NEW s \in Seq(Files), NEW f \in SeqElements(s)
    PROVE  /\ Erase(s, f) \in Seq(Files)
           /\ SeqElements(s) \ {f} \subseteq SeqElements(Erase(s, f))
           /\ SeqElements(Erase(s, f)) \subseteq SeqElements(s)
<1> DEFINE t == Erase(s, f)
<1>1. /\ t \in Seq(Files)
      /\ \E k \in 1..Len(s) :
             /\ s[k] = f /\ Len(t) = Len(s) - 1
             /\ \A i \in 1..Len(s) - 1 : t[i] = IF i < k THEN s[i] ELSE s[i + 1]
  BY EraseEntries
<1> HIDE DEF t
<1>2. PICK k \in 1..Len(s) :
          /\ s[k] = f /\ Len(t) = Len(s) - 1
          /\ \A i \in 1..Len(s) - 1 : t[i] = IF i < k THEN s[i] ELSE s[i + 1]
  BY <1>1
<1>3. Len(s) \in Nat /\ DOMAIN s = 1..Len(s) /\ DOMAIN t = 1..Len(s) - 1
  BY <1>1, <1>2
<1>4. ASSUME NEW g \in SeqElements(s), g # f PROVE g \in SeqElements(t)
  <2>1. PICK i \in 1..Len(s) : s[i] = g
    BY <1>3 DEF SeqElements
  <2>2. CASE i < k
    <3>1. i \in DOMAIN t /\ t[i] = g
      BY <1>2, <1>3, <2>1, <2>2
    <3> QED BY <3>1 DEF SeqElements
  <2>3. CASE i > k
    <3>1. i - 1 \in DOMAIN t /\ t[i - 1] = g
      BY <1>2, <1>3, <2>1, <2>3
    <3> QED BY <3>1 DEF SeqElements
  <2> QED BY <1>2, <1>3, <1>4, <2>1, <2>2, <2>3
<1>5. ASSUME NEW i \in DOMAIN t PROVE t[i] \in SeqElements(s)
  BY <1>2, <1>3 DEF SeqElements
<1> QED BY <1>1, <1>4, <1>5 DEF t, SeqElements

-----------------------------------------------------------------------------
(* The downloads that leave m_ActiveDownloads.                             *)

\* A download that leaves was counted in its file, so the count stays a count.
LEMMA LeavingIsCounted ==
    ASSUME IInv, NEW d \in active,
           active' = active \ {d},
           activeCount' = [activeCount EXCEPT ![FileOf(art[d])] = @ - 1]
    PROVE  /\ activeCount' \in [Files -> Nat]
           /\ \A f \in Files : activeCount'[f] = Cardinality(DownloadersOf(f) \ {d})
<1> DEFINE g == FileOf(art[d])
<1>1. g \in Files
  BY ArticleFacts DEF IInv, WorkIsMarked
<1>2. d \in DownloadersOf(g)
  BY DEF DownloadersOf
<1>3. activeCount \in [Files -> Nat]
      /\ \A f \in Files : activeCount[f] = Cardinality(DownloadersOf(f))
  BY DEF IInv, TypeOK, CountersAgree
<1>4. activeCount'[g] = Cardinality(DownloadersOf(g) \ {d})
  <2>1. Cardinality(DownloadersOf(g) \ {d}) = Cardinality(DownloadersOf(g)) - 1
    BY <1>1, <1>2, SubsetsFinite, FS_RemoveElement DEF IInv
  <2> QED BY <1>1, <1>3, <2>1
<1>5. activeCount'[g] \in Nat
  <2>1. IsFiniteSet(DownloadersOf(g) \ {d})
    BY <1>1, SubsetsFinite, FS_RemoveElement DEF IInv
  <2> QED BY <1>4, <2>1, FS_CardinalityType
<1>6. ASSUME NEW f \in Files, f # g
      PROVE  activeCount'[f] = Cardinality(DownloadersOf(f) \ {d})
  <2>1. d \notin DownloadersOf(f)
    BY <1>6 DEF DownloadersOf
  <2>2. DownloadersOf(f) \ {d} = DownloadersOf(f)
    BY <2>1
  <2>3. activeCount'[f] = activeCount[f]
    BY <1>3, <1>6
  <2> QED BY <1>3, <2>2, <2>3
<1>7. activeCount' \in [Files -> Nat]
  <2> HIDE DEF g
  <2>1. activeCount' = [activeCount EXCEPT ![g] = @ - 1]
    BY DEF g
  <2> QED BY <1>1, <1>3, <1>5, <2>1
<1> QED BY <1>4, <1>6, <1>7

-----------------------------------------------------------------------------
(* Type correctness.                                                       *)

\* The queue is constructed empty, with no downloads.
LEMMA InitTypeOK == Init => TypeOK
<1> SUFFICES ASSUME Init PROVE TypeOK
  OBVIOUS
<1>1. pc[Coordinator] = "load" /\ \A d \in Downloaders : pc[d] = "none"
  BY QueueAssumption DEF Init, Users
<1>2. queue \in Seq(Files) /\ conn \in [Users -> Conns \union {NoConn}]
  BY EmptySeq DEF Init, Pool!Init
<1>3. pc \in [Users -> DownloaderStates \union CoordinatorStates]
  BY DEF Init, DownloaderStates, CoordinatorStates
<1>4. art \in [Downloaders -> Articles \union {NoArticle}]
  BY DEF Init
<1> QED BY <1>1, <1>2, <1>3, <1>4 DEF Init, TypeOK, DownloaderStates, CoordinatorStates

\* A thread moves between places of its own.
LEMMA GotoType ==
    ASSUME TypeOK
    PROVE  /\ \A d \in Downloaders, l \in DownloaderStates : Goto(d, l) =>
                  /\ pc' \in [Users -> DownloaderStates \union CoordinatorStates]
                  /\ pc'[Coordinator] = pc[Coordinator]
                  /\ pc'[d] = l
                  /\ \A e \in Downloaders \ {d} : pc'[e] = pc[e]
           /\ \A l \in CoordinatorStates : Goto(Coordinator, l) =>
                  /\ pc' \in [Users -> DownloaderStates \union CoordinatorStates]
                  /\ pc'[Coordinator] = l
                  /\ \A d \in Downloaders : pc'[d] = pc[d]
<1>1. /\ pc \in [Users -> DownloaderStates \union CoordinatorStates]
      /\ Coordinator \in Users /\ Coordinator \notin Downloaders
      /\ Downloaders \subseteq Users
  BY QueueAssumption DEF TypeOK, Users
<1>2. ASSUME NEW d \in Downloaders, NEW l \in DownloaderStates, Goto(d, l)
      PROVE  /\ pc' \in [Users -> DownloaderStates \union CoordinatorStates]
             /\ pc'[Coordinator] = pc[Coordinator]
             /\ pc'[d] = l
             /\ \A e \in Downloaders \ {d} : pc'[e] = pc[e]
  BY <1>1, <1>2 DEF Goto
<1>3. ASSUME NEW l \in CoordinatorStates, Goto(Coordinator, l)
      PROVE  /\ pc' \in [Users -> DownloaderStates \union CoordinatorStates]
             /\ pc'[Coordinator] = l
             /\ \A d \in Downloaders : pc'[d] = pc[d]
  BY <1>1, <1>3 DEF Goto
<1> QED BY <1>2, <1>3

\* The requests of other threads keep the types.
LEMMA RequestsTypeOK ==
    ASSUME TypeOK, Request
    PROVE  TypeOK'
<1> USE DEF TypeOK
<1>1. ASSUME NEW n \in Nzbs, NEW addFirst \in BOOLEAN,
             NEW dupes \in SUBSET SeqElements(FilesOf[n]),
             AddNZBFileToQueue(n, dupes, addFirst)
      PROVE  TypeOK'
  <2>1. PICK s \in Surviving(n, dupes) :
            queue' = IF addFirst THEN s \o queue ELSE queue \o s
    BY <1>1 DEF AddNZBFileToQueue
  <2>2. queue' \in Seq(Files)
    BY <2>1, SurvivingType, ElementsOfConcat
  <2> QED BY <1>1, <2>2 DEF AddNZBFileToQueue
<1>2. ASSUME NEW f \in Files, PauseUnpauseEntry(f) PROVE TypeOK'
  BY <1>2 DEF PauseUnpauseEntry
<1>3. ASSUME NEW f \in Files, DeleteQueueEntry(f) PROVE TypeOK'
  <2>1. queue' \in Seq(Files)
    BY <1>3, EraseFile DEF DeleteQueueEntry, DeleteFileInfo, Queued
  <2>2. announced' \in [Files -> {"none", "completed", "deleted"}]
    BY <1>3 DEF DeleteQueueEntry, DeleteFileInfo
  <2>3. halted' \subseteq Downloaders /\ deleted' \subseteq Files
    BY <1>3 DEF DeleteQueueEntry, DownloadersOf
  <2> QED BY <1>3, <2>1, <2>2, <2>3 DEF DeleteQueueEntry
<1>4. ASSUME SetPauseDownload \/ StopFlag \/ StopDownloads PROVE TypeOK'
  BY <1>4 DEF SetPauseDownload, StopFlag, StopDownloads, fileVars
<1> QED BY <1>1, <1>2, <1>3, <1>4 DEF Request

\* The coordinator keeps the types.
LEMMA CoordinatorTypeOK ==
    ASSUME IInv
    PROVE  /\ CoordinatorStep => TypeOK'
           /\ \A d \in Downloaders : ResetHangingDownload(d) => TypeOK'
<1> USE DEF TypeOK
<1>0. TypeOK /\ Coordinator \in Users
  BY DEF IInv, Users
<1>1. ASSUME Load PROVE TypeOK'
  <2>1. PICK fs \in Seq(Files) : LoadDownloadQueue(fs)
    <3>1. <<>> \in Seq(Files)
      BY EmptySeq
    <3>2. \A n \in Nzbs : FilesOf[n] \in Seq(Files)
      BY QueueAssumption
    <3> QED BY <1>1, <3>1, <3>2 DEF Load
  <2>2. queue' \in Seq(Files)
    BY <1>0, <2>1, ElementsOfConcat DEF LoadDownloadQueue
  <2>3. added' \subseteq Nzbs
    BY <1>0, <1>1 DEF Load
  <2> QED BY <1>0, <2>1, <2>2, <2>3, GotoType DEF LoadDownloadQueue, CoordinatorStates
<1>2. ASSUME LoopTop PROVE TypeOK'
  <2>1. conn' \in [Users -> Conns \union {NoConn}]
    BY <1>0, <1>2 DEF LoopTop, Pool!Lend
  <2>2. \E l \in CoordinatorStates : Goto(Coordinator, l)
    BY <1>2 DEF LoopTop, CoordinatorStates
  <2> QED BY <1>0, <1>2, <2>1, <2>2, GotoType DEF LoopTop, fileVars
<1>3. ASSUME StartNext PROVE TypeOK'
  <2>1. hasMoreJobs' \in BOOLEAN
    BY <1>3 DEF StartNext, MoreJobs, HasMoreArticles
  <2>2. CASE Pool!Return(Coordinator) /\ Goto(Coordinator, "sleep")
             /\ UNCHANGED <<status, activeCount, active, art>>
    <3>1. conn' \in [Users -> Conns \union {NoConn}]
      BY <1>0, <2>2 DEF Pool!Return
    <3> QED BY <1>0, <1>3, <2>1, <2>2, <3>1, GotoType DEF StartNext, CoordinatorStates
  <2>3. ASSUME NEW d \in Downloaders, NEW a \in Articles, StartArticleDownload(d, a)
        PROVE  TypeOK'
    <3>1. FileOf(a) \in Files /\ d \in Users /\ d # Coordinator
      BY ArticleFacts, QueueAssumption DEF Users
    <3>2. /\ status' \in [Articles -> {"undefined", "running", "finished", "failed"}]
          /\ active' \subseteq Downloaders
          /\ art' \in [Downloaders -> Articles \union {NoArticle}]
      BY <1>0, <2>3 DEF StartArticleDownload
    <3>3. activeCount' \in [Files -> Nat]
      BY <1>0, <2>3, <3>1 DEF StartArticleDownload
    <3>4. conn' \in [Users -> Conns \union {NoConn}]
      BY <1>0, <2>3, <3>1 DEF StartArticleDownload
    <3>5. /\ pc' \in [Users -> DownloaderStates \union CoordinatorStates]
          /\ pc'[Coordinator] = "sleep" /\ pc'[d] = "created"
          /\ \A e \in Downloaders \ {d} : pc'[e] = pc[e]
      BY <1>0, <2>3, <3>1, QueueAssumption
      DEF StartArticleDownload, DownloaderStates, CoordinatorStates, Users
    <3>6. /\ pc'[Coordinator] \in CoordinatorStates
          /\ \A e \in Downloaders : pc'[e] \in DownloaderStates
      BY <1>0, <3>5 DEF DownloaderStates, CoordinatorStates
    <3> QED BY <1>0, <1>3, <2>1, <3>2, <3>3, <3>4, <3>5, <3>6 DEF StartNext
  <2> QED BY <1>3, <2>2, <2>3 DEF StartNext
<1>4. ASSUME Wake \/ WaitForDownloads PROVE TypeOK'
  BY <1>0, <1>4, GotoType DEF Wake, WaitForDownloads, CoordinatorStates, fileVars
<1>5. ASSUME NEW d \in Downloaders, ResetHangingDownload(d) PROVE TypeOK'
  <2>1. d \in active /\ art[d] \in Articles
    BY <1>5 DEF ResetHangingDownload, IInv, WorkIsMarked
  <2>2. activeCount' \in [Files -> Nat]
    BY <1>5, <2>1, LeavingIsCounted DEF ResetHangingDownload
  <2>3. Goto(d, "none")
    BY <1>5 DEF ResetHangingDownload, Goto
  <2>4. /\ status' \in [Articles -> {"undefined", "running", "finished", "failed"}]
        /\ active' \subseteq Downloaders /\ halted' \subseteq Downloaders
        /\ art' \in [Downloaders -> Articles \union {NoArticle}]
        /\ conn' \in [Users -> Conns \union {NoConn}]
    BY <1>0, <1>5 DEF ResetHangingDownload
  <2> QED BY <1>0, <1>5, <2>2, <2>3, <2>4, GotoType
          DEF ResetHangingDownload, DownloaderStates
<1> QED BY <1>1, <1>2, <1>3, <1>4, <1>5 DEF CoordinatorStep

\* The downloaders keep the types.
LEMMA DownloaderTypeOK ==
    ASSUME IInv, NEW d \in Downloaders, Moves(d) \/ Reports(d) \/ FileJoined(d)
    PROVE  TypeOK'
<1> USE DEF TypeOK
<1>0. TypeOK /\ d \in Users
  BY DEF IInv, Users
<1>1. CASE BeginDownload(d)
  BY <1>0, <1>1, GotoType
  DEF BeginDownload, DownloaderStates, fileVars
<1>2. CASE AcquireConnection(d) \/ ReleaseAndRetry(d) \/ ReleaseSkipped(d)
  <2>1. conn' \in [Users -> Conns \union {NoConn}]
    BY <1>0, <1>2
    DEF AcquireConnection, ReleaseAndRetry, ReleaseSkipped, Pool!Lend, Pool!Return
  <2> QED BY <1>0, <1>2, <2>1
          DEF AcquireConnection, ReleaseAndRetry, ReleaseSkipped, fileVars
<1>3. CASE FetchArticle(d)
  <2>1. conn' \in [Users -> Conns \union {NoConn}]
    BY <1>0, <1>3 DEF FetchArticle, Pool!Return
  <2> QED BY <1>0, <1>3, <2>1, GotoType DEF FetchArticle, DownloaderStates, fileVars
<1>4. ASSUME NEW outcome \in {"finished", "failed", "retry"}, FinishDownload(d, outcome)
      PROVE  TypeOK'
  <2>1. conn' \in [Users -> Conns \union {NoConn}]
    BY <1>0, <1>4 DEF FinishDownload
  <2>2. outcome \in DownloaderStates
    BY DEF DownloaderStates
  <2>3. d \in active
    BY <1>0, <1>4 DEF IInv, ActiveIffAtWork, FinishDownload, AtWork
  <2>4. FileOf(art[d]) \in Files
    BY <2>3, ArticleFacts DEF IInv, WorkIsMarked
  <2>5. leftLocked' \subseteq Files
    BY <1>0, <1>4, <2>4 DEF FinishDownload, LeavesMutexLocked
  <2> QED BY <1>0, <1>4, <2>1, <2>2, <2>5, GotoType DEF FinishDownload
<1>5. ASSUME NEW named \in BOOLEAN, NEW dupe \in BOOLEAN, ArticleCompleted(d, named, dupe)
      PROVE  TypeOK'
  <2> DEFINE f == FileOf(art[d])
  <2>1. pc[d] \in {"finished", "failed", "retry"}
    BY <1>5 DEF ArticleCompleted
  <2>2. d \in active /\ art[d] \in Articles /\ f \in Files /\ f \in Queued
    BY <2>1, ArticleFacts DEF IInv, ActiveIffAtWork, WorkIsMarked, NoDanglingFile
  <2>3. status' \in [Articles -> {"undefined", "running", "finished", "failed"}]
    BY <1>0, <1>5, <2>1 DEF ArticleCompleted, ArticleOutcome
  <2>4. completed' \in [Files -> Nat] /\ confirmed' \subseteq Files /\ deleted' \subseteq Files
    BY <1>0, <1>5, <2>2 DEF ArticleCompleted
  <2>5. halted' \subseteq Downloaders
    BY <1>0, <1>5 DEF ArticleCompleted, DownloadersOf
  <2>6. /\ UNCHANGED <<added, paused, leftLocked, art, conn, hasMoreJobs, stop, pause>>
        /\ \/ Goto(d, "joining") /\ UNCHANGED <<queue, announced, active, activeCount>>
           \/ /\ RemoveDownload(d)
              /\ DeleteFileInfo(f, "deleted") \/ UNCHANGED <<queue, announced>>
    BY <1>5 DEF ArticleCompleted
  <2> HIDE DEF f
  <2>7. CASE Goto(d, "joining") /\ UNCHANGED <<queue, announced, active, activeCount>>
    BY <1>0, <2>3, <2>4, <2>5, <2>6, <2>7, GotoType DEF DownloaderStates
  <2>8. CASE RemoveDownload(d) /\ (DeleteFileInfo(f, "deleted") \/ UNCHANGED <<queue, announced>>)
    <3>1. queue' \in Seq(Files) /\ announced' \in [Files -> {"none", "completed", "deleted"}]
      BY <1>0, <2>2, <2>8, EraseFile DEF DeleteFileInfo, Queued
    <3>2. active' \subseteq Downloaders /\ Goto(d, "leaving")
      BY <1>0, <2>8 DEF RemoveDownload
    <3>3. activeCount' \in [Files -> Nat]
      BY <2>2, <2>8, LeavingIsCounted DEF RemoveDownload
    <3> QED BY <1>0, <2>3, <2>4, <2>5, <2>6, <3>1, <3>2, <3>3, GotoType DEF DownloaderStates
  <2> QED BY <2>6, <2>7, <2>8
<1>6. CASE FileJoined(d)
  <2> DEFINE f == FileOf(art[d])
  <2>1. pc[d] = "joining" /\ RemoveDownload(d) /\ deleted' = deleted \union {f}
        /\ DeleteFileInfo(f, JoinedAspect(f))
        /\ UNCHANGED <<added, paused, confirmed, completed, leftLocked, status, art>>
        /\ UNCHANGED <<halted, conn, hasMoreJobs, stop, pause>>
    BY <1>6 DEF FileJoined
  <2>2. d \in active /\ f \in Files /\ f \in Queued
    BY <2>1, ArticleFacts DEF IInv, ActiveIffAtWork, WorkIsMarked, NoDanglingFile
  <2> HIDE DEF f
  <2>3. queue' \in Seq(Files) /\ announced' \in [Files -> {"none", "completed", "deleted"}]
    BY <1>0, <2>1, <2>2, EraseFile DEF DeleteFileInfo, JoinedAspect, Queued
  <2>4. active' \subseteq Downloaders /\ Goto(d, "leaving")
    BY <1>0, <2>1 DEF RemoveDownload
  <2>5. activeCount' \in [Files -> Nat]
    BY <2>1, <2>2, LeavingIsCounted DEF RemoveDownload
  <2> QED BY <1>0, <2>1, <2>2, <2>3, <2>4, <2>5, GotoType DEF DownloaderStates
<1>7. CASE ExitThread(d)
  BY <1>0, <1>7, GotoType DEF ExitThread, DownloaderStates, fileVars
<1> QED BY <1>1, <1>2, <1>3, <1>4, <1>5, <1>6, <1>7 DEF Moves, Reports

\* Every step keeps the types.
LEMMA NextTypeOK == IInv /\ [Next]_vars => TypeOK'
<1> SUFFICES ASSUME IInv, [Next]_vars PROVE TypeOK'
  OBVIOUS
<1>1. TypeOK
  BY DEF IInv
<1>2. CASE UNCHANGED vars
  BY <1>1, <1>2 DEF TypeOK, vars
<1> QED BY <1>1, <1>2, RequestsTypeOK, CoordinatorTypeOK, DownloaderTypeOK, NextByThread
        DEF Leaves

-----------------------------------------------------------------------------
(* The invariant: steps that leave the downloads where they are.           *)

\* A queue without downloads agrees with everything.
LEMMA InitIInv == Init => IInv
<1> SUFFICES ASSUME Init PROVE IInv
  OBVIOUS
<1>1. TypeOK
  BY InitTypeOK
<1>2. active = {} /\ (\A d \in Downloaders : pc[d] = "none")
      /\ (\A a \in Articles : status[a] = "undefined")
  BY QueueAssumption DEF Init, Users
<1>3. ActiveIffAtWork /\ WorkIsMarked /\ OneDownloadPerArticle /\ MarkedIsWorkedOn
      /\ JoinsAlone /\ NoDanglingFile
  BY <1>2 DEF ActiveIffAtWork, WorkIsMarked, OneDownloadPerArticle, MarkedIsWorkedOn,
              JoinsAlone, NoDanglingFile
<1>4. ASSUME NEW f \in Files
      PROVE  completed[f] = Cardinality(Done(f))
             /\ activeCount[f] = Cardinality(DownloadersOf(f))
  <2>1. Done(f) = {} /\ DownloadersOf(f) = {}
    BY <1>2, ArticleFacts DEF Done, DownloadersOf
  <2> QED BY <2>1, FS_EmptySet DEF Init
<1> QED BY <1>1, <1>3, <1>4 DEF IInv, CountersAgree

\* A step that does not change the set of downloads, their articles and their
\* phase (at work or joining) and keeps their files in the queue.
LEMMA PhasesKept ==
    ASSUME IInv, TypeOK',
           UNCHANGED <<status, active, completed, activeCount>>,
           \A d \in Downloaders :
               /\ pc'[d] \in {"none", "leaving"} <=> pc[d] \in {"none", "leaving"}
               /\ pc'[d] = "joining" <=> pc[d] = "joining",
           \A d \in active : art'[d] = art[d] /\ FileOf(art[d]) \in Queued'
    PROVE  IInv'
<1>1. active \subseteq Downloaders
  BY DEF IInv, TypeOK
<1>2. \A f : DownloadersOf(f)' = DownloadersOf(f) /\ Done(f)' = Done(f)
  BY DEF DownloadersOf, Done
<1>3. ActiveIffAtWork'
  BY DEF IInv, ActiveIffAtWork
<1>4. WorkIsMarked' /\ OneDownloadPerArticle' /\ MarkedIsWorkedOn'
  BY <1>1 DEF IInv, WorkIsMarked, OneDownloadPerArticle, MarkedIsWorkedOn
<1>5. CountersAgree'
  BY <1>2 DEF IInv, CountersAgree
<1>6. JoinsAlone'
  <2> SUFFICES ASSUME NEW d \in active, pc'[d] = "joining"
               PROVE  (/\ Done(FileOf(art[d])) = ArticlesOf(FileOf(art[d]))
                       /\ DownloadersOf(FileOf(art[d])) = {d})'
    BY DEF JoinsAlone
  <2>1. pc[d] = "joining" /\ art'[d] = art[d]
    BY <1>1
  <2>2. /\ Done(FileOf(art[d])) = ArticlesOf(FileOf(art[d]))
        /\ DownloadersOf(FileOf(art[d])) = {d}
    BY <2>1 DEF IInv, JoinsAlone
  <2> QED BY <2>1, <2>2 DEF Done, DownloadersOf
<1>7. NoDanglingFile'
  BY DEF NoDanglingFile
<1> QED BY <1>3, <1>4, <1>5, <1>6, <1>7 DEF IInv

\* The requests of other threads: a file is freed only when no download of it
\* is active.
LEMMA RequestsKeepIInv ==
    ASSUME IInv, TypeOK', Request
    PROVE  IInv'
<1>0. queue \in Seq(Files) /\ \A d \in active : FileOf(art[d]) \in Queued
  BY DEF IInv, TypeOK, NoDanglingFile
<1>1. ASSUME NEW n \in Nzbs, NEW addFirst \in BOOLEAN,
             NEW dupes \in SUBSET SeqElements(FilesOf[n]),
             AddNZBFileToQueue(n, dupes, addFirst)
      PROVE  IInv'
  <2>1. PICK s \in Surviving(n, dupes) :
            queue' = IF addFirst THEN s \o queue ELSE queue \o s
    BY <1>1 DEF AddNZBFileToQueue
  <2>2. Queued \subseteq Queued'
    BY <1>0, <2>1, SurvivingType, ElementsOfConcat DEF Queued
  <2> QED BY <1>0, <1>1, <2>2, PhasesKept DEF AddNZBFileToQueue
<1>2. ASSUME NEW f \in Files, PauseUnpauseEntry(f) PROVE IInv'
  BY <1>0, <1>2, PhasesKept DEF PauseUnpauseEntry, Queued
<1>3. ASSUME NEW f \in Files, DeleteQueueEntry(f) PROVE IInv'
  <2>1. \A d \in active : FileOf(art[d]) \in Queued'
    <3>1. CASE DownloadersOf(f) = {}
      <4>1. Queued \ {f} \subseteq Queued'
        BY <1>0, <1>3, <3>1, EraseFile DEF DeleteQueueEntry, DeleteFileInfo, Queued
      <4>2. \A d \in active : FileOf(art[d]) # f
        BY <3>1 DEF DownloadersOf
      <4> QED BY <1>0, <4>1, <4>2
    <3>2. CASE DownloadersOf(f) # {}
      BY <1>0, <1>3, <3>2 DEF DeleteQueueEntry, Queued
    <3> QED BY <3>1, <3>2
  <2> QED BY <1>3, <2>1, PhasesKept DEF DeleteQueueEntry
<1>4. CASE SetPauseDownload \/ StopFlag \/ StopDownloads
  BY <1>0, <1>4, PhasesKept DEF SetPauseDownload, StopFlag, StopDownloads, fileVars, Queued
<1> QED BY <1>1, <1>2, <1>3, <1>4 DEF Request

\* The coordinator between two downloads.
LEMMA CoordinatorMovesKeepIInv ==
    ASSUME IInv, TypeOK',
           \/ Load \/ LoopTop \/ Wake \/ WaitForDownloads
           \/ /\ pc[Coordinator] = "got" /\ Goto(Coordinator, "sleep")
              /\ UNCHANGED <<queue, status, completed, activeCount, active, art>>
    PROVE  IInv'
<1>0. TypeOK /\ queue \in Seq(Files) /\ \A d \in active : FileOf(art[d]) \in Queued
  BY DEF IInv, TypeOK, NoDanglingFile
<1>1. \A d \in Downloaders : pc'[d] = pc[d]
  <2>1. \E l \in CoordinatorStates : Goto(Coordinator, l)
    BY DEF Load, LoadDownloadQueue, LoopTop, Wake, WaitForDownloads, CoordinatorStates
  <2> QED BY <1>0, <2>1, GotoType
<1>2. CASE Load
  <2>1. PICK fs \in Seq(Files) : LoadDownloadQueue(fs)
    <3>1. <<>> \in Seq(Files)
      BY EmptySeq
    <3>2. \A n \in Nzbs : FilesOf[n] \in Seq(Files)
      BY QueueAssumption
    <3> QED BY <1>2, <3>1, <3>2 DEF Load
  <2>2. Queued \subseteq Queued'
    BY <1>0, <2>1, ElementsOfConcat DEF LoadDownloadQueue, Queued
  <2> QED BY <1>0, <1>1, <2>1, <2>2, PhasesKept DEF LoadDownloadQueue
<1>3. CASE UNCHANGED <<queue, status, completed, activeCount, active, art>>
  <2>1. Queued' = Queued
    BY <1>3 DEF Queued
  <2> QED BY <1>0, <1>1, <1>3, <2>1, PhasesKept
<1> QED BY <1>2, <1>3 DEF LoopTop, Wake, WaitForDownloads, fileVars

\* A downloader on its way, before it reports and after it has reported.
LEMMA DownloaderMovesKeepIInv ==
    ASSUME IInv, TypeOK', NEW d \in Downloaders, Moves(d)
    PROVE  IInv'
<1>0. TypeOK /\ \A e \in active : FileOf(art[e]) \in Queued'
  <2>1. queue' = queue
    BY DEF Moves, BeginDownload, AcquireConnection, ReleaseAndRetry,
           FetchArticle, FinishDownload, AtWork, ReleaseSkipped, ExitThread, fileVars
  <2> QED BY <2>1 DEF IInv, NoDanglingFile, Queued
<1>1. UNCHANGED <<status, active, completed, activeCount>>
  BY DEF Moves, BeginDownload, AcquireConnection, ReleaseAndRetry, FetchArticle,
         FinishDownload, AtWork, ReleaseSkipped, ExitThread, fileVars
<1>2. CASE ExitThread(d)
  <2>1. d \notin active
    BY <1>2 DEF ExitThread, IInv, ActiveIffAtWork
  <2>2. \A e \in active : art'[e] = art[e]
    BY <1>0, <1>2, <2>1 DEF ExitThread, TypeOK
  <2>3. pc[d] = "leaving" /\ pc'[d] = "none" /\ \A e \in Downloaders \ {d} : pc'[e] = pc[e]
    BY <1>0, <1>2, GotoType DEF ExitThread, DownloaderStates
  <2> QED BY <1>0, <1>1, <2>2, <2>3, PhasesKept
<1>3. CASE art' = art /\ pc' = pc
  BY <1>0, <1>1, <1>3, PhasesKept
<1>4. CASE /\ art' = art
           /\ pc[d] \in {"created", "running", "decoding"}
           /\ \E l \in {"running", "decoding", "finished", "failed", "retry"} : Goto(d, l)
  <2>1. pc'[d] \in {"running", "decoding", "finished", "failed", "retry"}
        /\ \A e \in Downloaders \ {d} : pc'[e] = pc[e]
    BY <1>0, <1>4, GotoType DEF DownloaderStates
  <2> QED BY <1>0, <1>1, <1>4, <2>1, PhasesKept
<1> QED BY <1>2, <1>3, <1>4
        DEF Moves, BeginDownload, AcquireConnection, ReleaseAndRetry,
           FetchArticle,  FinishDownload, AtWork, ReleaseSkipped

-----------------------------------------------------------------------------
(* The invariant: a download starts.                                       *)

\* The article that is taken next is one that nobody works on, of a file in the
\* queue.
LEMMA NextArticleFacts ==
    ASSUME IInv, NEW a \in Articles, NextArticle(a)
    PROVE  /\ FileOf(a) \in Queued /\ FileOf(a) \in Files
           /\ status[a] = "undefined"
           /\ \A d \in active : art[d] # a
           /\ \A d \in active : pc[d] = "joining" => FileOf(art[d]) # FileOf(a)
<1>1. FileOf(a) \in Queued /\ status[a] = "undefined"
  BY ArticleFacts DEF NextArticle, Queued, SeqElements
<1>2. a \in ArticlesOf(FileOf(a)) /\ FileOf(a) \in Files
  BY ArticleFacts
<1>3. ASSUME NEW d \in active, pc[d] = "joining" PROVE FileOf(art[d]) # FileOf(a)
  <2>1. Done(FileOf(art[d])) = ArticlesOf(FileOf(art[d]))
    BY <1>3 DEF IInv, JoinsAlone
  <2>2. a \notin Done(FileOf(a))
    BY <1>1 DEF Done
  <2> QED BY <1>2, <2>1, <2>2
<1>4. ASSUME NEW d \in active, art[d] = a PROVE FALSE
  BY <1>1, <1>3, <1>4 DEF IInv, WorkIsMarked
<1> QED BY <1>1, <1>2, <1>3, <1>4

\* A new download of that article keeps the invariant.
LEMMA StartKeepsIInv ==
    ASSUME IInv, TypeOK', NEW d \in Downloaders, NEW a \in Articles,
           NextArticle(a), StartArticleDownload(d, a),
           UNCHANGED <<queue, completed>>
    PROVE  IInv'
<1> USE DEF StartArticleDownload
<1>0. /\ TypeOK /\ active \subseteq Downloaders /\ Downloaders \subseteq Users
      /\ Coordinator \notin Downloaders
  BY QueueAssumption DEF IInv, TypeOK, Users
<1>1. d \notin active
  BY DEF IInv, ActiveIffAtWork
<1>2. /\ pc'[d] = "created" /\ \A e \in Downloaders \ {d} : pc'[e] = pc[e]
      /\ art'[d] = a /\ \A e \in Downloaders \ {d} : art'[e] = art[e]
      /\ status'[a] = "running" /\ \A b \in Articles \ {a} : status'[b] = status[b]
      /\ active' = active \union {d}
  BY <1>0 DEF TypeOK
<1>3. /\ FileOf(a) \in Queued /\ FileOf(a) \in Files
      /\ status[a] = "undefined"
      /\ \A e \in active : art[e] # a
      /\ \A e \in active : pc[e] = "joining" => FileOf(art[e]) # FileOf(a)
  BY NextArticleFacts
<1>4. \A e \in active : art[e] \in Articles
  BY DEF IInv, WorkIsMarked
<1>5. ActiveIffAtWork'
  BY <1>2 DEF IInv, ActiveIffAtWork
<1>6. WorkIsMarked'
  <2>1. ASSUME NEW e \in active
        PROVE  /\ art'[e] = art[e] /\ pc'[e] = pc[e]
               /\ status'[art[e]] = status[art[e]]
    BY <1>0, <1>1, <1>2, <1>3, <1>4
  <2>2. ASSUME NEW e \in active'
        PROVE  /\ art'[e] \in Articles
               /\ pc'[e] # "joining" => status'[art'[e]] = "running"
    <3>1. CASE e = d
      BY <1>2, <3>1
    <3>2. CASE e \in active
      BY <2>1, <3>2 DEF IInv, WorkIsMarked
    <3> QED BY <1>2, <3>1, <3>2
  <2> QED BY <2>2 DEF WorkIsMarked
<1>7. OneDownloadPerArticle'
  BY <1>0, <1>1, <1>2, <1>3 DEF IInv, OneDownloadPerArticle
<1>8. MarkedIsWorkedOn'
  <2> SUFFICES ASSUME NEW b \in Articles, status'[b] = "running"
               PROVE  \E e \in active' : pc'[e] # "joining" /\ art'[e] = b
    BY DEF MarkedIsWorkedOn
  <2>1. CASE b = a
    BY <1>2, <2>1
  <2>2. CASE b # a
    <3>1. PICK e \in active : pc[e] # "joining" /\ art[e] = b
      BY <1>2, <2>2 DEF IInv, MarkedIsWorkedOn
    <3> QED BY <1>0, <1>1, <1>2, <3>1
  <2> QED BY <2>1, <2>2
<1>9. \A f \in Files : Done(f)' = Done(f)
  BY <1>2, <1>3, ArticleFacts DEF Done
<1>10. /\ DownloadersOf(FileOf(a))' = DownloadersOf(FileOf(a)) \union {d}
       /\ d \notin DownloadersOf(FileOf(a))
       /\ \A f \in Files \ {FileOf(a)} : DownloadersOf(f)' = DownloadersOf(f)
  <2>1. \A e \in active : e # d /\ art'[e] = art[e]
    BY <1>0, <1>1, <1>2
  <2>2. \A f \in Files \ {FileOf(a)} : DownloadersOf(f)' = DownloadersOf(f)
    BY <1>2, <2>1 DEF DownloadersOf
  <2>3. d \notin DownloadersOf(FileOf(a))
    BY <1>1 DEF DownloadersOf
  <2>4. {e \in active' : FileOf(art'[e]) = FileOf(a)}
            = {e \in active : FileOf(art[e]) = FileOf(a)} \union {d}
    BY <1>2, <2>1
  <2> QED BY <1>2, <2>1, <2>2, <2>3, <2>4 DEF DownloadersOf
<1>11. CountersAgree'
  <2> SUFFICES ASSUME NEW f \in Files
               PROVE  /\ completed'[f] = Cardinality(Done(f)')
                      /\ activeCount'[f] = Cardinality(DownloadersOf(f)')
    BY DEF CountersAgree
  <2>1. completed[f] = Cardinality(Done(f)) /\ activeCount[f] = Cardinality(DownloadersOf(f))
    BY DEF IInv, CountersAgree
  <2>2. completed'[f] = Cardinality(Done(f)')
    BY <1>9, <2>1
  <2>3. CASE f = FileOf(a)
    <3>1. IsFiniteSet(DownloadersOf(f))
      BY <1>0, SubsetsFinite
    <3>2. Cardinality(DownloadersOf(f) \union {d}) = Cardinality(DownloadersOf(f)) + 1
      BY <1>10, <2>3, <3>1, FS_AddElement
    <3>3. activeCount'[f] = activeCount[f] + 1
      BY <1>0, <2>3 DEF TypeOK
    <3>4. DownloadersOf(f)' = DownloadersOf(f) \union {d}
      BY <1>2, <1>10, <2>3 DEF DownloadersOf
    <3> QED BY <2>1, <2>2, <3>2, <3>3, <3>4
  <2>4. CASE f # FileOf(a)
    <3>1. activeCount'[f] = activeCount[f]
      BY <1>0, <2>4 DEF TypeOK
    <3> QED BY <1>10, <2>1, <2>2, <2>4, <3>1
  <2> QED BY <2>3, <2>4
<1>12. JoinsAlone'
  <2> SUFFICES ASSUME NEW e \in active', pc'[e] = "joining"
               PROVE  (/\ Done(FileOf(art[e])) = ArticlesOf(FileOf(art[e]))
                       /\ DownloadersOf(FileOf(art[e])) = {e})'
    BY DEF JoinsAlone
  <2>1. e \in active /\ pc[e] = "joining" /\ art'[e] = art[e]
    BY <1>0, <1>1, <1>2
  <2>2. FileOf(art[e]) # FileOf(a) /\ FileOf(art[e]) \in Files
    BY <1>3, <1>4, <2>1, ArticleFacts
  <2>3. /\ Done(FileOf(art[e])) = ArticlesOf(FileOf(art[e]))
        /\ DownloadersOf(FileOf(art[e])) = {e}
    BY <2>1 DEF IInv, JoinsAlone
  <2> DEFINE g == FileOf(art[e])
  <2>4. /\ {b \in ArticlesOf(g) : status'[b] \in {"finished", "failed"}} = ArticlesOf(g)
        /\ {x \in active' : FileOf(art'[x]) = g} = {e}
    BY <1>9, <1>10, <2>2, <2>3 DEF Done, DownloadersOf
  <2> QED BY <2>1, <2>4 DEF Done, DownloadersOf
<1>13. NoDanglingFile'
  BY <1>0, <1>1, <1>2, <1>3 DEF IInv, NoDanglingFile, Queued
<1> QED BY <1>5, <1>6, <1>7, <1>8, <1>11, <1>12, <1>13 DEF IInv

-----------------------------------------------------------------------------
(* The invariant: a download reports its outcome and leaves.               *)

\* The counter of completed articles follows the outcome: an article that is to
\* be retried was not done and is not done, any other is done from now on.
LEMMA OutcomeIsCounted ==
    ASSUME TypeOK, CountersAgree, NEW a \in Articles, status[a] = "running",
           NEW s \in {"undefined", "finished", "failed"},
           status' = [status EXCEPT ![a] = s],
           completed' = IF s = "undefined" THEN completed
                        ELSE [completed EXCEPT ![FileOf(a)] = @ + 1]
    PROVE  /\ \A f \in Files : completed'[f] = Cardinality(Done(f)')
           /\ \A f \in Files \ {FileOf(a)} : Done(f)' = Done(f)
           /\ s # "undefined" => Done(FileOf(a))' = Done(FileOf(a)) \union {a}
<1> DEFINE g == FileOf(a)
<1>1. g \in Files /\ a \in ArticlesOf(g) /\ \A f \in Files : ArticlesOf(f) \subseteq Articles
  BY ArticleFacts
<1>2. /\ status'[a] = s /\ \A b \in Articles \ {a} : status'[b] = status[b]
      /\ completed \in [Files -> Nat]
  BY DEF TypeOK
<1>3. \A f \in Files : completed[f] = Cardinality(Done(f))
  BY DEF CountersAgree
<1>4. ASSUME NEW f \in Files, f # g PROVE Done(f)' = Done(f) /\ completed'[f] = completed[f]
  <2>1. a \notin ArticlesOf(f)
    BY <1>4, ArticleFacts
  <2> QED BY <1>1, <1>2, <1>4, <2>1 DEF Done
<1>5. a \notin Done(g)
  BY DEF Done
<1>6. CASE s = "undefined"
  <2>1. Done(g)' = Done(g)
    BY <1>1, <1>2, <1>6 DEF Done
  <2> QED BY <1>3, <1>4, <1>6, <2>1
<1>7. CASE s # "undefined"
  <2>1. {b \in ArticlesOf(g) : status'[b] \in {"finished", "failed"}} = Done(g) \union {a}
    BY <1>1, <1>2, <1>7 DEF Done
  <2>2. Cardinality(Done(g) \union {a}) = Cardinality(Done(g)) + 1
    BY <1>1, <1>5, SubsetsFinite, FS_AddElement
  <2>3. completed'[g] = completed[g] + 1
    BY <1>1, <1>2, <1>7
  <2>4. Done(g)' = Done(g) \union {a}
    BY <2>1 DEF Done
  <2> QED BY <1>3, <1>4, <1>7, <2>2, <2>3, <2>4
<1> QED BY <1>6, <1>7

\* A download d that leaves keeps the invariant for the others, if the article
\* it worked on is no longer marked and the files of the others stay queued.
LEMMA LeaveKeepsIInv ==
    ASSUME IInv, TypeOK', NEW d \in active,
           active' = active \ {d},
           pc'[d] \in {"none", "leaving"},
           \A e \in Downloaders \ {d} : pc'[e] = pc[e] /\ art'[e] = art[e],
           activeCount' = [activeCount EXCEPT ![FileOf(art[d])] = @ - 1],
           \A f \in Files : completed'[f] = Cardinality(Done(f)'),
           \A f \in Files \ {FileOf(art[d])} : Done(f)' = Done(f),
           status'[art[d]] # "running",
           \A b \in Articles \ {art[d]} : status'[b] = status[b],
           \A e \in active \ {d} : FileOf(art[e]) \in Queued'
    PROVE  IInv'
<1>0. TypeOK /\ active \subseteq Downloaders
  BY DEF IInv, TypeOK
<1>1. \A e \in active \ {d} : art[e] \in Articles /\ art[e] # art[d]
  BY DEF IInv, WorkIsMarked, OneDownloadPerArticle
<1>2. ActiveIffAtWork'
  BY <1>0 DEF IInv, ActiveIffAtWork
<1>3. WorkIsMarked'
  BY <1>0, <1>1 DEF IInv, WorkIsMarked
<1>4. OneDownloadPerArticle'
  BY <1>0 DEF IInv, OneDownloadPerArticle
<1>5. MarkedIsWorkedOn'
  <2> SUFFICES ASSUME NEW b \in Articles, status'[b] = "running"
               PROVE  \E e \in active' : pc'[e] # "joining" /\ art'[e] = b
    BY DEF MarkedIsWorkedOn
  <2>1. b # art[d] /\ status[b] = "running"
    OBVIOUS
  <2>2. PICK e \in active : pc[e] # "joining" /\ art[e] = b
    BY <2>1 DEF IInv, MarkedIsWorkedOn
  <2> QED BY <1>0, <2>1, <2>2
<1>6. CountersAgree'
  <2>1. \A f \in Files : activeCount'[f] = Cardinality(DownloadersOf(f) \ {d})
    BY LeavingIsCounted
  <2>2. ASSUME NEW f \in Files PROVE DownloadersOf(f)' = DownloadersOf(f) \ {d}
    BY <1>0 DEF DownloadersOf
  <2> QED BY <2>1, <2>2 DEF CountersAgree
<1>7. JoinsAlone'
  <2> SUFFICES ASSUME NEW e \in active', pc'[e] = "joining"
               PROVE  (/\ Done(FileOf(art[e])) = ArticlesOf(FileOf(art[e]))
                       /\ DownloadersOf(FileOf(art[e])) = {e})'
    BY DEF JoinsAlone
  <2> DEFINE g == FileOf(art[e])
  <2>1. e \in active \ {d} /\ pc[e] = "joining" /\ art'[e] = art[e]
    BY <1>0
  <2>2. Done(g) = ArticlesOf(g) /\ DownloadersOf(g) = {e}
    BY <2>1 DEF IInv, JoinsAlone
  <2>3. g \in Files /\ g # FileOf(art[d])
    <3>1. d \notin DownloadersOf(g)
      BY <2>1, <2>2
    <3> QED BY <1>1, <2>1, <3>1, ArticleFacts DEF DownloadersOf
  <2>4. {x \in active' : FileOf(art'[x]) = g} = {e}
    BY <1>0, <2>1, <2>2 DEF DownloadersOf
  <2>5. {b \in ArticlesOf(g) : status'[b] \in {"finished", "failed"}} = ArticlesOf(g)
    BY <2>2, <2>3 DEF Done
  <2> QED BY <2>1, <2>4, <2>5 DEF Done, DownloadersOf
<1>8. NoDanglingFile'
  BY <1>0 DEF NoDanglingFile
<1> QED BY <1>2, <1>3, <1>4, <1>5, <1>6, <1>7, <1>8 DEF IInv

\* The file is freed by its last download only, so the others keep theirs.
LEMMA FreeingSparesOthers ==
    ASSUME IInv, NEW d \in active, NEW aspect,
           \/ LastDownload(d) /\ DeleteFileInfo(FileOf(art[d]), aspect)
           \/ UNCHANGED queue
    PROVE  \A e \in active \ {d} : FileOf(art[e]) \in Queued'
<1>0. queue \in Seq(Files) /\ \A e \in active : FileOf(art[e]) \in Queued
  BY DEF IInv, TypeOK, NoDanglingFile
<1>1. CASE UNCHANGED queue
  BY <1>0, <1>1 DEF Queued
<1>2. CASE LastDownload(d) /\ DeleteFileInfo(FileOf(art[d]), aspect)
  <2>1. Queued \ {FileOf(art[d])} \subseteq Queued'
    BY <1>0, <1>2, EraseFile DEF DeleteFileInfo, Queued
  <2>2. \A e \in active \ {d} : FileOf(art[e]) # FileOf(art[d])
    BY <1>2 DEF LastDownload, DownloadersOf
  <2> QED BY <1>0, <2>1, <2>2
<1> QED BY <1>1, <1>2

\* The download whose report completes the file is the only one left of it.
LEMMA LastReportIsAlone ==
    ASSUME IInv, NEW d \in active, pc[d] # "joining",
           Done(FileOf(art[d]))
               \union {art[d]} = ArticlesOf(FileOf(art[d]))
    PROVE  DownloadersOf(FileOf(art[d])) = {d}
<1> DEFINE f == FileOf(art[d])
<1>1. d \in DownloadersOf(f)
  BY DEF DownloadersOf
<1>2. ASSUME NEW e \in DownloadersOf(f), e # d PROVE FALSE
  <2>1. e \in active /\ FileOf(art[e]) = f /\ art[e] # art[d] /\ art[e] \in Articles
    BY <1>2 DEF DownloadersOf, IInv, OneDownloadPerArticle, WorkIsMarked
  <2>2. art[e] \in Done(f)
    BY <2>1, ArticleFacts
  <2>3. pc[e] = "joining"
    BY <2>1, <2>2 DEF Done, IInv, WorkIsMarked
  <2>4. DownloadersOf(f) = {e}
    BY <2>1, <2>3 DEF IInv, JoinsAlone
  <2> QED BY <1>1, <1>2, <2>4
<1> QED BY <1>1, <1>2

\* ArticleCompleted keeps the invariant, whether its download goes on to join
\* the file or leaves.
LEMMA ArticleCompletedKeepsIInv ==
    ASSUME IInv, TypeOK', NEW d \in Downloaders,
           NEW named \in BOOLEAN, NEW dupe \in BOOLEAN,
           ArticleCompleted(d, named, dupe)
    PROVE  IInv'
<1> DEFINE a == art[d]
           f == FileOf(a)
           s == ArticleOutcome(pc[d])
<1>0. TypeOK /\ CountersAgree /\ active \subseteq Downloaders
  BY DEF IInv, TypeOK
<1>1. /\ pc[d] \in {"finished", "failed", "retry"}
      /\ status' = [status EXCEPT ![a] = s]
      /\ completed' = IF Counts(d) THEN [completed EXCEPT ![f] = @ + 1] ELSE completed
      /\ art' = art
      /\ \/ /\ Goto(d, "joining") /\ UNCHANGED <<queue, active, activeCount>>
            /\ Counts(d) /\ completed[f] + 1 = ArticleCount[f]
         \/ /\ RemoveDownload(d)
            /\ \/ LastDownload(d) /\ DeleteFileInfo(f, "deleted")
               \/ UNCHANGED queue
  BY DEF ArticleCompleted
<1>2. /\ s \in {"undefined", "finished", "failed"}
      /\ s = "undefined" <=> ~Counts(d)
  BY <1>1 DEF ArticleOutcome, Counts
<1>3. d \in active /\ a \in Articles /\ status[a] = "running" /\ f \in Files
  BY <1>1, ArticleFacts DEF IInv, ActiveIffAtWork, WorkIsMarked
<1>4. /\ status'[a] = s /\ \A b \in Articles \ {a} : status'[b] = status[b]
  BY <1>0, <1>1, <1>3 DEF TypeOK
<1> HIDE DEF s
<1>5. /\ \A g \in Files : completed'[g] = Cardinality(Done(g)')
      /\ \A g \in Files \ {f} : Done(g)' = Done(g)
      /\ s # "undefined" =>
             {b \in ArticlesOf(f) : status'[b] \in {"finished", "failed"}} = Done(f) \union {a}
  <2>1. completed' = IF s = "undefined" THEN completed
                     ELSE [completed EXCEPT ![FileOf(a)] = @ + 1]
    BY <1>1, <1>2
  <2>2. a \in ArticlesOf(f) /\ ArticlesOf(f) \subseteq Articles
    BY <1>3, ArticleFacts
  <2>3. s # "undefined" =>
            {b \in ArticlesOf(f) : status'[b] \in {"finished", "failed"}} = Done(f) \union {a}
    BY <1>2, <1>4, <2>2 DEF Done
  <2> HIDE DEF a
  <2>4. /\ \A g \in Files : completed'[g] = Cardinality(Done(g)')
        /\ \A g \in Files \ {FileOf(a)} : Done(g)' = Done(g)
    BY <1>0, <1>1, <1>2, <1>3, <2>1, OutcomeIsCounted
  <2> QED BY <2>3, <2>4
<1>6. CASE RemoveDownload(d)
           /\ (\/ LastDownload(d) /\ DeleteFileInfo(f, "deleted")
               \/ UNCHANGED queue)
  <2>1. /\ active' = active \ {d}
        /\ activeCount' = [activeCount EXCEPT ![f] = @ - 1]
        /\ Goto(d, "leaving")
    BY <1>6 DEF RemoveDownload
  <2>2. pc'[d] = "leaving" /\ \A e \in Downloaders \ {d} : pc'[e] = pc[e] /\ art'[e] = art[e]
    BY <1>0, <1>1, <2>1, GotoType DEF DownloaderStates
  <2>3. \A e \in active \ {d} : FileOf(art[e]) \in Queued'
    BY <1>3, <1>6, FreeingSparesOthers
  <2>4. status'[a] # "running"
    BY <1>2, <1>4
  <2> QED BY <1>3, <1>4, <1>5, <2>1, <2>2, <2>3, <2>4, LeaveKeepsIInv
<1>7. CASE /\ Goto(d, "joining") /\ UNCHANGED <<queue, active, activeCount>>
           /\ Counts(d) /\ completed[f] + 1 = ArticleCount[f]
  <2>1. pc'[d] = "joining" /\ \A e \in Downloaders \ {d} : pc'[e] = pc[e]
    BY <1>0, <1>7, GotoType DEF DownloaderStates
  <2>2. Done(f) \union {a} = ArticlesOf(f)
    <3>1. /\ IsFiniteSet(ArticlesOf(f)) /\ Cardinality(ArticlesOf(f)) = ArticleCount[f]
          /\ IsFiniteSet(Done(f)) /\ Done(f) \subseteq ArticlesOf(f) /\ a \in ArticlesOf(f)
      BY <1>0, <1>3, ArticlesCounted, SubsetsFinite, ArticleFacts
    <3>2. Cardinality(Done(f) \union {a}) = Cardinality(Done(f)) + 1
      <4>1. a \notin Done(f)
        BY <1>3 DEF Done
      <4> QED BY <3>1, <4>1, FS_AddElement
    <3>3. Cardinality(Done(f) \union {a}) = Cardinality(ArticlesOf(f))
      BY <1>0, <1>3, <1>7, <3>1, <3>2 DEF CountersAgree
    <3> QED BY <3>1, <3>3, FS_Subset
  <2>3. DownloadersOf(f) = {d}
    BY <1>1, <1>3, <2>2, LastReportIsAlone
  <2>4. s # "undefined" /\ status'[a] \in {"finished", "failed"}
    BY <1>2, <1>4, <1>7
  <2>5. \A e \in active \ {d} : art[e] \in Articles /\ art[e] # a /\ FileOf(art[e]) # f
    BY <1>3, <2>3 DEF IInv, WorkIsMarked, OneDownloadPerArticle, DownloadersOf
  <2>6. ActiveIffAtWork'
    BY <1>0, <1>3, <1>7, <2>1 DEF IInv, ActiveIffAtWork
  <2>7. WorkIsMarked'
    BY <1>0, <1>1, <1>3, <1>4, <1>7, <2>1, <2>5 DEF IInv, WorkIsMarked
  <2>8. OneDownloadPerArticle' /\ NoDanglingFile'
    BY <1>1, <1>7 DEF IInv, OneDownloadPerArticle, NoDanglingFile, Queued
  <2>9. MarkedIsWorkedOn'
    <3> SUFFICES ASSUME NEW b \in Articles, status'[b] = "running"
                 PROVE  \E e \in active' : pc'[e] # "joining" /\ art'[e] = b
      BY DEF MarkedIsWorkedOn
    <3>1. b # a /\ status[b] = "running"
      BY <1>4, <2>4
    <3>2. PICK e \in active : pc[e] # "joining" /\ art[e] = b
      BY <3>1 DEF IInv, MarkedIsWorkedOn
    <3> QED BY <1>0, <1>1, <1>7, <2>1, <3>1, <3>2
  <2>10. CountersAgree'
    <3>1. \A g : DownloadersOf(g)' = DownloadersOf(g)
      BY <1>1, <1>7 DEF DownloadersOf
    <3> QED BY <1>0, <1>5, <1>7, <3>1 DEF CountersAgree
  <2>11. JoinsAlone'
    <3> SUFFICES ASSUME NEW e \in active', pc'[e] = "joining"
                 PROVE  (/\ Done(FileOf(art[e])) = ArticlesOf(FileOf(art[e]))
                         /\ DownloadersOf(FileOf(art[e])) = {e})'
      BY DEF JoinsAlone
    <3>1. CASE e = d
      <4>1. {b \in ArticlesOf(f) : status'[b] \in {"finished", "failed"}} = ArticlesOf(f)
        BY <1>5, <2>2, <2>4
      <4>2. {x \in active' : FileOf(art'[x]) = f} = {d}
        BY <1>1, <1>7, <2>3 DEF DownloadersOf
      <4> QED BY <1>1, <3>1, <4>1, <4>2 DEF Done, DownloadersOf
    <3>2. CASE e # d
      <4> DEFINE g == FileOf(art[e])
      <4>1. e \in active \ {d} /\ pc[e] = "joining" /\ g # f /\ g \in Files
        BY <1>0, <1>7, <2>1, <2>5, <3>2, ArticleFacts
      <4>2. Done(g) = ArticlesOf(g) /\ DownloadersOf(g) = {e}
        BY <4>1 DEF IInv, JoinsAlone
      <4>3. {b \in ArticlesOf(g) : status'[b] \in {"finished", "failed"}} = ArticlesOf(g)
        BY <1>5, <4>1, <4>2 DEF Done
      <4>4. {x \in active' : FileOf(art'[x]) = g} = {e}
        BY <1>1, <1>7, <4>2 DEF DownloadersOf
      <4> QED BY <1>1, <4>3, <4>4 DEF Done, DownloadersOf
    <3> QED BY <3>1, <3>2
  <2> QED BY <2>6, <2>7, <2>8, <2>9, <2>10, <2>11 DEF IInv
<1> QED BY <1>1, <1>6, <1>7

\* The end of a join, and the watchdog, keep the invariant.
LEMMA OtherLeavingKeepsIInv ==
    ASSUME IInv, TypeOK', NEW d \in Downloaders,
           FileJoined(d) \/ ResetHangingDownload(d)
    PROVE  IInv'
<1> DEFINE a == art[d]
           f == FileOf(a)
<1>0. TypeOK /\ CountersAgree /\ active \subseteq Downloaders
  BY DEF IInv, TypeOK
<1>1. d \in active
  BY DEF FileJoined, ResetHangingDownload, IInv, ActiveIffAtWork
<1>2. a \in Articles /\ f \in Files
  BY <1>1, ArticleFacts DEF IInv, WorkIsMarked
<1>3. CASE FileJoined(d)
  <2>1. /\ pc[d] = "joining" /\ Goto(d, "leaving") /\ active' = active \ {d}
        /\ activeCount' = [activeCount EXCEPT ![f] = @ - 1]
        /\ DeleteFileInfo(f, JoinedAspect(f))
        /\ UNCHANGED <<status, completed, art>>
    BY <1>3 DEF FileJoined, RemoveDownload
  <2>2. pc'[d] = "leaving" /\ \A e \in Downloaders \ {d} : pc'[e] = pc[e] /\ art'[e] = art[e]
    BY <1>0, <2>1, GotoType DEF DownloaderStates
  <2>3. LastDownload(d) /\ Done(f) = ArticlesOf(f)
    BY <1>1, <2>1 DEF IInv, JoinsAlone, LastDownload
  <2>4. \A e \in active \ {d} : FileOf(art[e]) \in Queued'
    BY <1>1, <2>1, <2>3, FreeingSparesOthers
  <2>5. \A g \in Files : Done(g)' = Done(g) /\ completed'[g] = Cardinality(Done(g)')
    BY <1>0, <2>1 DEF CountersAgree, Done
  <2>6. status'[a] # "running"
    BY <1>2, <2>1, <2>3, ArticleFacts DEF Done
  <2> QED BY <1>1, <2>1, <2>2, <2>4, <2>5, <2>6, LeaveKeepsIInv
<1>4. CASE ResetHangingDownload(d)
  <2>1. /\ pc[d] = "running" /\ Goto(d, "none") /\ active' = active \ {d}
        /\ activeCount' = [activeCount EXCEPT ![f] = @ - 1]
        /\ status' = [status EXCEPT ![a] = "undefined"]
        /\ art' = [art EXCEPT ![d] = NoArticle]
        /\ UNCHANGED <<queue, completed>>
    BY <1>4 DEF ResetHangingDownload, Goto
  <2>2. pc'[d] = "none" /\ \A e \in Downloaders \ {d} : pc'[e] = pc[e] /\ art'[e] = art[e]
    BY <1>0, <2>1, GotoType DEF DownloaderStates, TypeOK
  <2>3. \A e \in active \ {d} : FileOf(art[e]) \in Queued'
    BY <2>1 DEF IInv, NoDanglingFile, Queued
  <2>4. /\ status[a] = "running" /\ status'[a] = "undefined"
        /\ \A b \in Articles \ {a} : status'[b] = status[b]
    BY <1>0, <1>1, <1>2, <2>1 DEF IInv, WorkIsMarked, TypeOK
  <2> HIDE DEF a
  <2>5. /\ \A g \in Files : completed'[g] = Cardinality(Done(g)')
        /\ \A g \in Files \ {FileOf(a)} : Done(g)' = Done(g)
    BY <1>0, <1>2, <2>1, <2>4, OutcomeIsCounted
  <2> QED BY <1>1, <2>1, <2>2, <2>3, <2>4, <2>5, LeaveKeepsIInv DEF a
<1> QED BY <1>3, <1>4

\* Every step keeps the invariant.
LEMMA NextIInv == IInv /\ [Next]_vars => IInv'
<1> SUFFICES ASSUME IInv, [Next]_vars PROVE IInv'
  OBVIOUS
<1>1. TypeOK'
  BY NextTypeOK
<1>2. CASE StartNext
  <2>1. CASE pc[Coordinator] = "got" /\ Goto(Coordinator, "sleep")
             /\ UNCHANGED <<queue, status, completed, activeCount, active, art>>
    BY <1>1, <2>1, CoordinatorMovesKeepIInv
  <2>2. ASSUME NEW d \in Downloaders, NEW a \in Articles,
               NextArticle(a), StartArticleDownload(d, a)
        PROVE  IInv'
    BY <1>1, <1>2, <2>2, StartKeepsIInv DEF StartNext
  <2> QED BY <1>2, <2>1, <2>2 DEF StartNext
<1>3. CASE UNCHANGED vars
  <2>1. \A d \in active : FileOf(art[d]) \in Queued'
    BY <1>3 DEF IInv, NoDanglingFile, vars, Queued
  <2> QED BY <1>1, <1>3, <2>1, PhasesKept DEF vars
<1>4. CASE Request
  BY <1>1, <1>4, RequestsKeepIInv
<1>5. CASE Load \/ LoopTop \/ Wake \/ WaitForDownloads
  BY <1>1, <1>5, CoordinatorMovesKeepIInv
<1>6. ASSUME NEW d \in Downloaders, Moves(d) PROVE IInv'
  BY <1>1, <1>6, DownloaderMovesKeepIInv
<1>7. ASSUME NEW d \in Downloaders, Leaves(d) PROVE IInv'
  BY <1>1, <1>7, ArticleCompletedKeepsIInv, OtherLeavingKeepsIInv DEF Leaves, Reports
<1> QED BY <1>2, <1>3, <1>4, <1>5, <1>6, <1>7, NextByThread DEF CoordinatorStep

\* The invariant holds in every reachable state.
LEMMA InvariantHolds == Spec => []IInv
BY InitIInv, NextIInv, PTL DEF Spec

\* The queue, the counters, the downloads and the threads keep their types; in
\* particular no count of active downloads goes below zero.
THEOREM TypeCorrect == Spec => []TypeOK
<1>1. IInv => TypeOK
  BY DEF IInv
<1> QED BY <1>1, InvariantHolds, PTL

\* An article is marked as running exactly while one download is at work on it.
THEOREM ArticlesAreDownloadedOnce == Spec => []RunningIffDownloaded
<1>1. IInv => RunningIffDownloaded
  <2> SUFFICES ASSUME IInv, NEW a \in Articles
               PROVE  status[a] = "running" <=>
                          \E d \in active : /\ Working(d) /\ art[d] = a
                                            /\ \A e \in active : art[e] = a => e = d
    BY DEF RunningIffDownloaded
  <2>1. ASSUME NEW d \in active PROVE Working(d) <=> pc[d] # "joining"
    BY <2>1, QueueAssumption
    DEF IInv, ActiveIffAtWork, TypeOK, Working, DownloaderStates
  <2>2. ASSUME status[a] = "running"
        PROVE  \E d \in active : Working(d) /\ art[d] = a
    BY <2>1, <2>2 DEF IInv, MarkedIsWorkedOn
  <2>3. ASSUME NEW d \in active, Working(d), art[d] = a
        PROVE  status[a] = "running" /\ \A e \in active : art[e] = a => e = d
    BY <2>1, <2>3 DEF IInv, WorkIsMarked, OneDownloadPerArticle
  <2> QED BY <2>2, <2>3
<1> QED BY <1>1, InvariantHolds, PTL

\* No download ever reports to a FileInfo that has been freed.
THEOREM NoFileIsFreedUnderADownload == Spec => []NoDanglingFile
<1>1. IInv => NoDanglingFile
  BY DEF IInv
<1> QED BY <1>1, InvariantHolds, PTL

\* The counters of FileInfo count the articles that are done and the downloads
\* that are active.
THEOREM CountersAreRight == Spec => []CountersAgree
<1>1. IInv => CountersAgree
  BY DEF IInv
<1> QED BY <1>1, InvariantHolds, PTL

\* A file is joined once all its articles are done, with no other download left.
THEOREM FilesAreJoinedAlone == Spec => []JoinsAlone
<1>1. IInv => JoinsAlone
  BY DEF IInv
<1> QED BY <1>1, InvariantHolds, PTL

-----------------------------------------------------------------------------
(* Stopping.                                                               *)

\* Only the coordinator starts downloads, and only when it may.
LEMMA OnlyStartNextStarts ==
    ASSUME IInv, [Next]_vars
    PROVE  \/ active' \subseteq active
           \/ StartNext /\ MayStart /\ pc[Coordinator] = "got" /\ pc'[Coordinator] = "sleep"
<1>0. TypeOK
  BY DEF IInv
<1>1. CASE StartNext
  <2>1. ASSUME NEW d \in Downloaders, NEW a \in Articles, StartArticleDownload(d, a)
        PROVE  pc'[Coordinator] = "sleep"
    BY <1>0, <2>1, QueueAssumption DEF StartArticleDownload, TypeOK, Users
  <2> QED BY <1>1, <2>1 DEF StartNext
<1>2. ASSUME NEW d \in Downloaders, Leaves(d) PROVE active' \subseteq active
  BY <1>2 DEF Leaves, Reports, FileJoined, ResetHangingDownload, ArticleCompleted, RemoveDownload
<1>3. ASSUME NEW d \in Downloaders, Moves(d) PROVE active' = active
  BY <1>3 DEF Moves, BeginDownload, AcquireConnection, ReleaseAndRetry, FetchArticle,
              FinishDownload, AtWork, ReleaseSkipped, ExitThread
<1>4. CASE Request \/ Load \/ LoopTop \/ Wake \/ WaitForDownloads \/ UNCHANGED vars
  BY <1>4 DEF Request, AddNZBFileToQueue, PauseUnpauseEntry, DeleteQueueEntry,
              SetPauseDownload, StopFlag, StopDownloads, Load, LoadDownloadQueue, LoopTop, Wake,
              WaitForDownloads, vars
<1> QED BY <1>1, <1>2, <1>3, <1>4, NextByThread DEF CoordinatorStep

\* What stop, the flags of the downloads and hasMoreJobs do in a step.
LEMMA StopSteps ==
    ASSUME IInv, [Next]_vars
    PROVE  /\ stop' = stop \/ (StopFlag /\ stop' = "flagged")
                  \/ (stop' = "notified" /\ active' = active /\ active \subseteq halted')
           /\ halted \intersect active' \subseteq halted'
           /\ hasMoreJobs' = hasMoreJobs \/ (StartNext /\ hasMoreJobs' = MoreJobs)
<1>1. CASE StartNext
  BY <1>1 DEF StartNext
<1>2. ASSUME NEW d \in Downloaders, Leaves(d) \/ ExitThread(d)
      PROVE  /\ stop' = stop /\ hasMoreJobs' = hasMoreJobs
             /\ halted \intersect active' \subseteq halted'
  <2>1. CASE ExitThread(d)
    <3>1. d \notin active
      BY <2>1 DEF ExitThread, IInv, ActiveIffAtWork
    <3> QED BY <2>1, <3>1 DEF ExitThread
  <2>2. CASE FileJoined(d) \/ ResetHangingDownload(d)
    BY <2>2 DEF FileJoined, ResetHangingDownload
  <2>3. CASE Reports(d)
    BY <2>3 DEF Reports, ArticleCompleted
  <2> QED BY <1>2, <2>1, <2>2, <2>3 DEF Leaves
<1>3. ASSUME NEW d \in Downloaders, Moves(d), ~ExitThread(d)
      PROVE  UNCHANGED <<stop, halted, hasMoreJobs>>
  BY <1>3 DEF Moves, BeginDownload, AcquireConnection, ReleaseAndRetry,
              FetchArticle, FinishDownload, AtWork, ReleaseSkipped
<1>4. CASE StopDownloads \/ StopFlag
  BY <1>4 DEF StopDownloads, StopFlag
<1>5. CASE \/ Request /\ ~StopFlag /\ ~StopDownloads
           \/ Load \/ LoopTop \/ Wake \/ WaitForDownloads
           \/ UNCHANGED vars
  BY <1>5 DEF Request, AddNZBFileToQueue, PauseUnpauseEntry, DeleteQueueEntry,
              SetPauseDownload, Load, LoadDownloadQueue, LoopTop, Wake, WaitForDownloads, vars
<1> QED BY <1>1, <1>2, <1>3, <1>4, <1>5, NextByThread DEF CoordinatorStep

\* Stop reaches every download, the ones started while it was on its way too:
\* the coordinator looks at the flag again under the mutex.
THEOREM StopReachesAll == Spec => []StopReachesAllDownloads
<1>1. Init => StopReachesAllDownloads
  BY DEF Init, StopReachesAllDownloads
<1>2. IInv /\ StopReachesAllDownloads /\ [Next]_vars => StopReachesAllDownloads'
  <2> SUFFICES ASSUME IInv, StopReachesAllDownloads, [Next]_vars, stop' = "notified"
               PROVE  active' \subseteq halted'
    BY DEF StopReachesAllDownloads
  <2>1. CASE stop = "notified"
    <3>1. active' \subseteq active
      BY <2>1, OnlyStartNextStarts DEF MayStart, Stopping
    <3> QED BY <2>1, <3>1, StopSteps DEF StopReachesAllDownloads
  <2>2. CASE stop # "notified"
    BY <2>2, StopSteps
  <2> QED BY <2>1, <2>2
<1> QED BY <1>1, <1>2, InvariantHolds, PTL DEF Spec

\* The coordinator is gone only after its last download, and starts no other.
THEOREM CoordinatorExitsLast == Spec => []ExitsAfterDownloads
<1>1. Init => ExitsAfterDownloads
  BY DEF Init, ExitsAfterDownloads
<1>2. IInv /\ ExitsAfterDownloads /\ [Next]_vars => ExitsAfterDownloads'
  <2> SUFFICES ASSUME IInv, ExitsAfterDownloads, [Next]_vars, pc'[Coordinator] = "exited"
               PROVE  active' = {}
    BY DEF ExitsAfterDownloads
  <2>1. active' \subseteq active
    BY OnlyStartNextStarts
  <2>2. pc[Coordinator] = "exited" \/ active = {}
    <3>0. TypeOK /\ Coordinator \in Users
      BY DEF IInv, Users
    <3>1. CASE Load \/ LoopTop \/ Wake
      <4>1. \E l \in {"top", "waiting", "sleep", "got"} : Goto(Coordinator, l)
        BY <3>1 DEF Load, LoadDownloadQueue, LoopTop, Wake
      <4> QED BY <3>0, <4>1 DEF Goto, TypeOK
    <3>2. CASE WaitForDownloads
      BY <3>2 DEF WaitForDownloads
    <3>3. CASE StartNext
      <4>1. ASSUME NEW d \in Downloaders, NEW a \in Articles, StartArticleDownload(d, a)
            PROVE  pc'[Coordinator] = "sleep"
        BY <3>0, <4>1, QueueAssumption DEF StartArticleDownload, TypeOK
      <4> QED BY <3>0, <3>3, <4>1 DEF StartNext, Goto, TypeOK
    <3>4. ASSUME NEW d \in Downloaders, Moves(d) \/ Leaves(d)
          PROVE  pc'[Coordinator] = pc[Coordinator]
      <4>1. pc' = pc \/ \E l : Goto(d, l)
        BY <3>4 DEF Moves, Leaves, Reports, BeginDownload, AcquireConnection,
                    ReleaseAndRetry, FetchArticle, FinishDownload, AtWork, ArticleCompleted, FileJoined,
                    RemoveDownload, ReleaseSkipped, ExitThread, ResetHangingDownload, Goto
      <4> QED BY <3>0, <4>1, QueueAssumption DEF Goto, TypeOK
    <3>5. CASE Request \/ UNCHANGED vars
      BY <3>5 DEF Request, AddNZBFileToQueue, PauseUnpauseEntry, DeleteQueueEntry,
                  SetPauseDownload, StopFlag, StopDownloads, vars
    <3> QED BY <3>1, <3>2, <3>3, <3>4, <3>5, NextByThread DEF CoordinatorStep
  <2> QED BY <2>1, <2>2 DEF ExitsAfterDownloads
<1> QED BY <1>1, <1>2, InvariantHolds, PTL DEF Spec

\* A standalone run is not ended while a download is active.
THEOREM NoJobsIsRight == Spec => []NoJobsNoDownloads
<1>1. Init => NoJobsNoDownloads
  BY DEF Init, NoJobsNoDownloads
<1>2. IInv /\ NoJobsNoDownloads /\ [Next]_vars => NoJobsNoDownloads'
  <2> SUFFICES ASSUME IInv, NoJobsNoDownloads, [Next]_vars, ~hasMoreJobs'
               PROVE  active' = {}
    BY DEF NoJobsNoDownloads
  <2>1. CASE StartNext
    <3>1. ~MoreJobs
      BY <2>1 DEF StartNext
    <3>2. active = {} /\ ~MayStart
      BY <3>1 DEF MoreJobs, MayStart
    <3> QED BY <3>2, OnlyStartNextStarts
  <2>2. CASE ~StartNext
    BY <2>2, OnlyStartNextStarts, StopSteps DEF NoJobsNoDownloads
  <2> QED BY <2>1, <2>2
<1> QED BY <1>1, <1>2, InvariantHolds, PTL DEF Spec

-----------------------------------------------------------------------------
(* Connections and the limit of threads.                                   *)

\* The coordinator has a connection exactly while it looks for an article; a
\* thread that was just created has been given one, a thread that is gone has
\* none; no two threads have the same.
LoanInv ==
    /\ pc[Coordinator] = "got" <=> conn[Coordinator] # NoConn
    /\ \A d \in Downloaders : /\ pc[d] = "created" => conn[d] # NoConn
                              /\ pc[d] = "none" => conn[d] = NoConn
    /\ \A u, v \in Users : u # v /\ conn[u] # NoConn => conn[u] # conn[v]

\* What a step of a downloader may do to its place and its connection.
DownloaderMoved(d) ==
    /\ Pool!Return(d) \/ conn' = conn \/ \E c \in Conns : Pool!Lend(d, c)
    /\ \/ /\ pc[d] # "none" /\ pc'[d] # "created"
          /\ pc'[d] = "none" => conn'[d] = NoConn
       \/ pc' = pc /\ pc[d] \notin {"none", "created"}
    /\ \A u \in Users \ {d} : pc'[u] = pc[u] /\ conn'[u] = conn[u]

\* The steps of downloaders, as far as places and connections are concerned.
LEMMA DownloaderLoans ==
    ASSUME IInv, LoanInv, NEW d \in Downloaders, Moves(d) \/ Leaves(d)
    PROVE  DownloaderMoved(d)
<1> USE DEF Goto, DownloaderMoved
<1>0. /\ pc \in [Users -> DownloaderStates \union CoordinatorStates]
      /\ conn \in [Users -> Conns \union {NoConn}] /\ d \in Users
  BY DEF IInv, TypeOK, Users
<1>1. CASE BeginDownload(d)
  BY <1>0, <1>1 DEF BeginDownload
<1>2. CASE AcquireConnection(d)
  BY <1>0, <1>2 DEF AtWork, AcquireConnection, Pool!Lend
<1>3. CASE ReleaseAndRetry(d) \/ ReleaseSkipped(d)
  BY <1>0, <1>3 DEF AtWork, ReleaseAndRetry, ReleaseSkipped, Pool!Return
<1>4. CASE FetchArticle(d)
  BY <1>0, <1>4 DEF AtWork, FetchArticle, Pool!Return
<1>5. ASSUME NEW outcome \in {"finished", "failed", "retry"}, FinishDownload(d, outcome)
      PROVE  DownloaderMoved(d)
  <2>1. /\ conn' = [conn EXCEPT ![d] = NoConn] /\ pc' = [pc EXCEPT ![d] = outcome]
        /\ pc[d] \in {"running", "decoding"}
    BY <1>5 DEF AtWork, FinishDownload
  <2>2. conn[d] = NoConn => conn' = conn
    BY <1>0, <2>1
  <2>3. conn[d] # NoConn => Pool!Return(d)
    BY <2>1 DEF Pool!Return
  <2> QED BY <1>0, <2>1, <2>2, <2>3
<1>6. ASSUME NEW named \in BOOLEAN, NEW dupe \in BOOLEAN, ArticleCompleted(d, named, dupe)
      PROVE  DownloaderMoved(d)
  <2>1. pc[d] \in {"finished", "failed", "retry"} /\ conn' = conn
        /\ (Goto(d, "joining") \/ Goto(d, "leaving"))
    BY <1>6 DEF ArticleCompleted, RemoveDownload
  <2> QED BY <1>0, <2>1
<1>7. CASE FileJoined(d)
  BY <1>0, <1>7 DEF FileJoined, RemoveDownload
<1>8. CASE ExitThread(d)
  BY <1>0, <1>8 DEF ExitThread
<1>9. CASE ResetHangingDownload(d)
  <2>1. /\ conn' = [conn EXCEPT ![d] = NoConn] /\ pc' = [pc EXCEPT ![d] = "none"]
        /\ pc[d] = "running"
    BY <1>9 DEF ResetHangingDownload
  <2>2. conn[d] = NoConn => conn' = conn
    BY <1>0, <2>1
  <2>3. conn[d] # NoConn => Pool!Return(d)
    BY <2>1 DEF Pool!Return
  <2> QED BY <1>0, <2>1, <2>2, <2>3
<1> HIDE DEF DownloaderMoved
<1> QED BY <1>1, <1>2, <1>3, <1>4, <1>5, <1>6, <1>7, <1>8, <1>9
        DEF Moves, Leaves, Reports

\* The steps of the coordinator.
LEMMA CoordinatorLoans ==
    ASSUME IInv, LoanInv, CoordinatorStep
    PROVE  \/ /\ \/ conn' = conn /\ ~(pc[Coordinator] = "got")
                                 /\ ~(pc'[Coordinator] = "got")
                 \/ Pool!Return(Coordinator) /\ pc'[Coordinator] = "sleep"
                 \/ /\ \E c \in Conns : Pool!Lend(Coordinator, c)
                    /\ pc'[Coordinator] = "got"
              /\ \A d \in Downloaders : pc'[d] = pc[d]
           \/ \E d \in Downloaders :
                 /\ Pool!Pass(Coordinator, d) /\ ThreadCount < ThreadLimit
                 /\ pc[d] = "none" /\ pc'[d] = "created" /\ pc'[Coordinator] = "sleep"
                 /\ \A e \in Downloaders \ {d} : pc'[e] = pc[e]
<1> USE DEF Goto
<1>0. /\ pc \in [Users -> DownloaderStates \union CoordinatorStates]
      /\ conn \in [Users -> Conns \union {NoConn}]
      /\ Coordinator \in Users /\ Coordinator \notin Downloaders /\ Downloaders \subseteq Users
  BY QueueAssumption DEF IInv, TypeOK, Users
<1>1. CASE Load \/ Wake \/ WaitForDownloads
  BY <1>0, <1>1 DEF Load, LoadDownloadQueue, Wake, WaitForDownloads
<1>2. CASE LoopTop
  BY <1>0, <1>2 DEF LoopTop
<1>3. CASE StartNext
  <2>1. CASE Pool!Return(Coordinator) /\ Goto(Coordinator, "sleep")
    BY <1>0, <2>1
  <2>2. ASSUME NEW d \in Downloaders, NEW a \in Articles, MayStart, StartArticleDownload(d, a)
        PROVE  /\ Pool!Pass(Coordinator, d) /\ ThreadCount < ThreadLimit
               /\ pc[d] = "none" /\ pc'[d] = "created" /\ pc'[Coordinator] = "sleep"
               /\ \A e \in Downloaders \ {d} : pc'[e] = pc[e]
    <3>1. pc[d] = "none" /\ conn[d] = NoConn /\ conn[Coordinator] # NoConn
      BY <1>3, <2>2 DEF StartNext, StartArticleDownload, LoanInv
    <3>2. Pool!Pass(Coordinator, d)
      BY <2>2, <3>1 DEF StartArticleDownload, Pool!Pass
    <3> QED BY <1>0, <2>2, <3>1, <3>2 DEF StartArticleDownload, MayStart
  <2> QED BY <1>3, <2>1, <2>2 DEF StartNext
<1> QED BY <1>1, <1>2, <1>3 DEF CoordinatorStep

\* The steps of other threads touch neither places nor connections.
LEMMA StepsByThread ==
    ASSUME [Next]_vars
    PROVE  \/ CoordinatorStep
           \/ \E d \in Downloaders : Moves(d) \/ Leaves(d)
           \/ UNCHANGED <<pc, conn>>
<1>1. CASE Request \/ UNCHANGED vars
  BY <1>1 DEF Request, AddNZBFileToQueue, PauseUnpauseEntry, DeleteQueueEntry,
              SetPauseDownload, StopFlag, StopDownloads, vars
<1> QED BY <1>1, NextByThread

\* Lending, returning and passing on keep loans exclusive.
LEMMA ExclusivePoolSteps ==
    ASSUME conn \in [Users -> Conns \union {NoConn}], [Pool!Next]_conn,
           \A u, v \in Users : u # v /\ conn[u] # NoConn => conn[u] # conn[v]
    PROVE  \A u, v \in Users : u # v /\ conn'[u] # NoConn => conn'[u] # conn'[v]
<1> USE QueueAssumption
<1>1. ASSUME NEW u \in Users, NEW c \in Conns, Pool!Lend(u, c)
      PROVE  \A x, y \in Users : x # y /\ conn'[x] # NoConn => conn'[x] # conn'[y]
  <2>1. \A v \in Users : conn[v] # c
    BY <1>1 DEF Pool!Lend, Pool!FreeConns, Pool!Held
  <2> QED BY <1>1, <2>1 DEF Pool!Lend
<1>2. ASSUME NEW u \in Users, Pool!Return(u)
      PROVE  \A x, y \in Users : x # y /\ conn'[x] # NoConn => conn'[x] # conn'[y]
  BY <1>2 DEF Pool!Return
<1>3. ASSUME NEW u \in Users, NEW v \in Users, Pool!Pass(u, v)
      PROVE  \A x, y \in Users : x # y /\ conn'[x] # NoConn => conn'[x] # conn'[y]
  BY <1>3 DEF Pool!Pass
<1> QED BY <1>1, <1>2, <1>3 DEF Pool!Next

\* Every step is one of the pool's contract, and keeps the loans in order.
LEMMA NextLoans == IInv /\ LoanInv /\ [Next]_vars => LoanInv' /\ [Pool!Next]_conn
<1> SUFFICES ASSUME IInv, LoanInv, [Next]_vars
             PROVE  LoanInv' /\ [Pool!Next]_conn
  OBVIOUS
<1>0. /\ conn \in [Users -> Conns \union {NoConn}]
      /\ Coordinator \in Users /\ Coordinator \notin Downloaders /\ Downloaders \subseteq Users
      /\ NoConn \notin Conns
  BY QueueAssumption DEF IInv, TypeOK, Users
<1>1. CASE CoordinatorStep
  <2>1. [Pool!Next]_conn
    BY <1>0, <1>1, CoordinatorLoans DEF Pool!Next
  <2>2. /\ pc'[Coordinator] = "got" <=> conn'[Coordinator] # NoConn
        /\ \A d \in Downloaders : /\ pc'[d] = "created" => conn'[d] # NoConn
                                  /\ pc'[d] = "none" => conn'[d] = NoConn
    <3>1. CASE conn' = conn /\ ~(pc[Coordinator] = "got") /\ ~(pc'[Coordinator] = "got")
               /\ \A d \in Downloaders : pc'[d] = pc[d]
      BY <3>1 DEF LoanInv
    <3>2. CASE Pool!Return(Coordinator) /\ pc'[Coordinator] = "sleep"
               /\ \A d \in Downloaders : pc'[d] = pc[d]
      BY <1>0, <3>2 DEF LoanInv, Pool!Return
    <3>3. CASE /\ \E c \in Conns : Pool!Lend(Coordinator, c)
               /\ pc'[Coordinator] = "got"
               /\ \A d \in Downloaders : pc'[d] = pc[d]
      BY <1>0, <3>3 DEF LoanInv, Pool!Lend
    <3>4. ASSUME NEW d \in Downloaders, Pool!Pass(Coordinator, d),
                 pc[d] = "none", pc'[d] = "created", pc'[Coordinator] = "sleep",
                 \A e \in Downloaders \ {d} : pc'[e] = pc[e]
          PROVE  /\ pc'[Coordinator] = "got" <=> conn'[Coordinator] # NoConn
                 /\ \A e \in Downloaders : /\ pc'[e] = "created" => conn'[e] # NoConn
                                           /\ pc'[e] = "none" => conn'[e] = NoConn
      BY <1>0, <3>4 DEF LoanInv, Pool!Pass
    <3> QED BY <1>1, <3>1, <3>2, <3>3, <3>4, CoordinatorLoans
  <2> QED BY <1>0, <2>1, <2>2, ExclusivePoolSteps DEF LoanInv
<1>2. ASSUME NEW d \in Downloaders, Moves(d) \/ Leaves(d)
      PROVE  LoanInv' /\ [Pool!Next]_conn
  <2>1. DownloaderMoved(d)
    BY <1>2, DownloaderLoans
  <2>2. [Pool!Next]_conn
    BY <1>0, <2>1 DEF DownloaderMoved, Pool!Next
  <2>3. /\ pc'[Coordinator] = "got" <=> conn'[Coordinator] # NoConn
        /\ \A e \in Downloaders : /\ pc'[e] = "created" => conn'[e] # NoConn
                                  /\ pc'[e] = "none" => conn'[e] = NoConn
    BY <1>0, <2>1 DEF LoanInv, DownloaderMoved
  <2> QED BY <1>0, <2>2, <2>3, ExclusivePoolSteps DEF LoanInv
<1>3. CASE UNCHANGED <<pc, conn>>
  BY <1>3 DEF LoanInv
<1> QED BY <1>1, <1>2, <1>3, StepsByThread

\* At the start nobody has a connection.
LEMMA InitLoans == Init => LoanInv /\ Pool!Init
BY QueueAssumption DEF Init, LoanInv, Pool!Init, Users

\* The loans are in order in every reachable state.
LEMMA LoansHold == Spec => []LoanInv
BY InitLoans, NextLoans, InvariantHolds, PTL DEF Spec

\* The coordinator and the downloaders borrow, return and pass on connections
\* as the contract of the pool demands.
THEOREM PoolIsUsedCorrectly == Spec => UsesPoolCorrectly
<1>1. Init => Pool!Init
  BY InitLoans
<1> QED BY <1>1, NextLoans, InvariantHolds, LoansHold, PTL
        DEF Spec, UsesPoolCorrectly, Pool!Spec

-----------------------------------------------------------------------------
(* The downloads keep the contract that ArticleDownloader implements.      *)

Phase == [d \in Downloaders |-> pc[d]]
Holding == {d \in Downloaders : conn[d] # NoConn}

\* What the contract sees of changes to pc and conn.
LEMMA ContractView ==
    ASSUME IInv, NEW d \in Downloaders
    PROVE  /\ \A p : Goto(d, p) => Phase' = [Phase EXCEPT ![d] = p]
           /\ pc' = pc => Phase' = Phase
           /\ conn' = conn => Holding' = Holding
           /\ conn' = [conn EXCEPT ![d] = NoConn] => Holding' = Holding \ {d}
           /\ \A c \in Conns : conn' = [conn EXCEPT ![d] = c] => Holding' = Holding \union {d}
<1>1. /\ pc \in [Users -> DownloaderStates \union CoordinatorStates]
      /\ conn \in [Users -> Conns \union {NoConn}]
      /\ Downloaders \subseteq Users /\ NoConn \notin Conns
  BY QueueAssumption DEF IInv, TypeOK, Users
<1>2. \A p : Goto(d, p) => Phase' = [Phase EXCEPT ![d] = p]
  BY <1>1 DEF Goto, Phase
<1>3. (pc' = pc => Phase' = Phase) /\ (conn' = conn => Holding' = Holding)
  BY DEF Phase, Holding
<1>4. conn' = [conn EXCEPT ![d] = NoConn] => Holding' = Holding \ {d}
  BY <1>1 DEF Holding
<1>5. \A c \in Conns : conn' = [conn EXCEPT ![d] = c] => Holding' = Holding \union {d}
  BY <1>1 DEF Holding
<1> QED BY <1>2, <1>3, <1>4, <1>5

\* A step of a downloader is one the contract allows.
LEMMA DownloaderKeepsContract ==
    ASSUME IInv, NEW d \in Downloaders, Moves(d) \/ Leaves(d)
    PROVE  Downloading!Next
<1> USE DEF Downloading!Becomes, Downloading!AtWork
<1>0. /\ \A p : Goto(d, p) => Phase' = [Phase EXCEPT ![d] = p]
      /\ pc' = pc => Phase' = Phase
      /\ conn' = conn => Holding' = Holding
      /\ conn' = [conn EXCEPT ![d] = NoConn] => Holding' = Holding \ {d}
      /\ \A c \in Conns : conn' = [conn EXCEPT ![d] = c] => Holding' = Holding \union {d}
  BY ContractView
<1>1. Phase[d] = pc[d] /\ (d \in Holding <=> conn[d] # NoConn)
  BY DEF Phase, Holding
<1> USE DEF Phase, Holding
<1>2. CASE BeginDownload(d)
  <2>1. Downloading!Begin(d)
    BY <1>0, <1>1, <1>2 DEF BeginDownload, Downloading!Begin
  <2> QED BY <2>1 DEF Downloading!Next
<1>3. CASE AcquireConnection(d)
  <2>1. Downloading!Acquire(d)
    BY <1>0, <1>1, <1>3 DEF AcquireConnection, AtWork, Pool!Lend, Downloading!Acquire
  <2> QED BY <2>1 DEF Downloading!Next
<1>4. CASE ReleaseAndRetry(d) \/ ReleaseSkipped(d)
  <2>1. Downloading!Release(d)
    BY <1>0, <1>1, <1>4
    DEF ReleaseAndRetry, ReleaseSkipped, AtWork, Pool!Return, Downloading!Release
  <2> QED BY <2>1 DEF Downloading!Next
<1>5. CASE FetchArticle(d)
  <2>1. Downloading!Fetch(d)
    BY <1>0, <1>1, <1>5 DEF FetchArticle, AtWork, Pool!Return, Downloading!Fetch
  <2> QED BY <2>1 DEF Downloading!Next
<1>6. ASSUME NEW outcome \in {"finished", "failed", "retry"}, FinishDownload(d, outcome)
      PROVE  Downloading!Next
  <2>1. Downloading!Finish(d, outcome)
    BY <1>0, <1>1, <1>6 DEF FinishDownload, LeavesMutexLocked, AtWork, Downloading!Finish
  <2> QED BY <2>1 DEF Downloading!Next
<1>7. CASE Reports(d) \/ FileJoined(d)
  <2>1. Downloading!Report(d)
    BY <1>0, <1>1, <1>7
    DEF Reports, ArticleCompleted, FileJoined, RemoveDownload, Counts, Downloading!Report
  <2> QED BY <2>1 DEF Downloading!Next
<1>8. CASE ExitThread(d)
  <2>1. Downloading!Exit(d)
    BY <1>0, <1>1, <1>8 DEF ExitThread, Downloading!Exit
  <2> QED BY <2>1 DEF Downloading!Next
<1>9. CASE ResetHangingDownload(d)
  <2>1. Downloading!Terminate(d)
    BY <1>0, <1>1, <1>9 DEF ResetHangingDownload, Goto, Downloading!Terminate
  <2> QED BY <2>1 DEF Downloading!Next
<1> QED BY <1>2, <1>3, <1>4, <1>5, <1>6, <1>7, <1>8, <1>9 DEF Moves, Leaves

\* So is a step of the coordinator: it creates downloads with its connection.
LEMMA CoordinatorKeepsContract ==
    ASSUME IInv, LoanInv, CoordinatorStep
    PROVE  Downloading!Next \/ UNCHANGED <<Phase, Holding>>
<1>0. /\ conn \in [Users -> Conns \union {NoConn}]
      /\ pc \in [Users -> DownloaderStates \union CoordinatorStates]
      /\ Coordinator \in Users /\ Coordinator \notin Downloaders /\ Downloaders \subseteq Users
  BY QueueAssumption DEF IInv, TypeOK, Users
<1>1. ASSUME NEW d \in Downloaders, Pool!Pass(Coordinator, d), pc[d] = "none",
             pc'[d] = "created", \A e \in Downloaders \ {d} : pc'[e] = pc[e]
      PROVE  Downloading!Next
  <2>1. Phase' = [Phase EXCEPT ![d] = "created"] /\ Phase[d] = "none"
    BY <1>1 DEF Phase
  <2>2. Holding' = Holding \union {d}
    BY <1>0, <1>1 DEF Holding, Pool!Pass
  <2>3. Downloading!Create(d)
    BY <2>1, <2>2 DEF Downloading!Create, Downloading!Becomes, Phase, Holding
  <2> QED BY <2>3 DEF Downloading!Next
<1>2. ASSUME \A d \in Downloaders : pc'[d] = pc[d],
             \/ conn' = conn \/ Pool!Return(Coordinator)
             \/ \E c \in Conns : Pool!Lend(Coordinator, c)
      PROVE  UNCHANGED <<Phase, Holding>>
  <2>1. \A d \in Downloaders : conn'[d] = conn[d]
    BY <1>0, <1>2 DEF Pool!Return, Pool!Lend
  <2> QED BY <1>2, <2>1 DEF Phase, Holding
<1> QED BY <1>1, <1>2, CoordinatorLoans

\* The downloads do nothing that ArticleDownloader does not promise: what holds of
\* the queue holds for the downloaders as they are.
THEOREM DownloadsAsPromised == Spec => DownloadersKeepContract
<1>1. Init => Downloading!Init
  <2>1. ASSUME Init, NEW d \in Downloaders
        PROVE  pc[d] = "none" /\ conn[d] = NoConn
    BY <2>1, QueueAssumption DEF Init, Users, Pool!Init
  <2> QED BY <2>1 DEF Downloading!Init
<1>2. IInv /\ LoanInv /\ [Next]_vars => [Downloading!Next]_<<Phase, Holding>>
  <2> SUFFICES ASSUME IInv, LoanInv, [Next]_vars
               PROVE  Downloading!Next \/ UNCHANGED <<Phase, Holding>>
    OBVIOUS
  <2>1. UNCHANGED <<pc, conn>> => UNCHANGED <<Phase, Holding>>
    BY DEF Phase, Holding
  <2> QED BY <2>1, StepsByThread, DownloaderKeepsContract, CoordinatorKeepsContract
<1> QED BY <1>1, <1>2, InvariantHolds, LoansHold, PTL
        DEF Spec, DownloadersKeepContract, Downloading!Spec, Phase, Holding

-----------------------------------------------------------------------------
(* The number of threads.                                                  *)

\* The threads that exist, and those that do not count themselves yet.
Threads == {d \in Downloaders : pc[d] # "none"}
Created == {d \in Downloaders : pc[d] = "created"}

\* When the coordinator starts a thread, each thread that was created and does
\* not count yet has a connection, and the coordinator has one more.
LEMMA CreatedHaveConnections ==
    ASSUME IInv, LoanInv, conn[Coordinator] # NoConn
    PROVE  IsFiniteSet(Created) /\ Cardinality(Created) + 1 <= Cardinality(Conns)
<1> DEFINE S == Created \union {Coordinator}
           loan == [u \in S |-> conn[u]]
<1>1. /\ conn \in [Users -> Conns \union {NoConn}] /\ Coordinator \notin Downloaders
      /\ S \subseteq Users /\ IsFiniteSet(Conns) /\ IsFiniteSet(Downloaders)
  BY QueueAssumption DEF IInv, TypeOK, Users, Created
<1>2. IsFiniteSet(Created) /\ Coordinator \notin Created
  <2>1. Created \subseteq Downloaders
    BY DEF Created
  <2> QED BY <1>1, <2>1, FS_Subset
<1>3. \A u \in S : conn[u] \in Conns
  BY <1>1 DEF LoanInv, Created
<1>4. loan \in Injection(S, Conns)
  <2>1. loan \in [S -> Conns]
    BY <1>3
  <2>2. \A u, v \in S : loan[u] = loan[v] => u = v
    BY <1>1, <1>3, QueueAssumption DEF LoanInv
  <2> QED BY <2>1, <2>2 DEF Injection, IsInjective
<1>5. IsFiniteSet(S) /\ Cardinality(S) = Cardinality(Created) + 1
  BY <1>2, FS_AddElement
<1> HIDE DEF S, loan
<1>6. Cardinality(S) <= Cardinality(Conns)
  BY <1>1, <1>4, FS_Injection
<1> QED BY <1>2, <1>5, <1>6

\* However many downloaders there are, the limit of threads is overshot by
\* fewer threads than there are connections.
THEOREM ThreadsAreBounded == Spec => []ThreadsBounded
<1>0. IsFiniteSet(Downloaders) /\ Threads \subseteq Downloaders /\ IsFiniteSet(Threads)
      /\ Cardinality(Conns) \in Nat /\ ThreadLimit \in Nat \ {0}
  <2>1. Threads \subseteq Downloaders
    BY DEF Threads
  <2> QED BY <2>1, QueueAssumption, FS_Subset, FS_CardinalityType
<1>1. Init => ThreadsBounded
  <2> SUFFICES ASSUME Init PROVE ThreadsBounded
    OBVIOUS
  <2>1. Threads = {}
    BY QueueAssumption DEF Init, Threads, Users
  <2> QED BY <1>0, <2>1, FS_EmptySet DEF ThreadsBounded, Threads
<1>2. IInv /\ LoanInv /\ ThreadsBounded /\ [Next]_vars => ThreadsBounded'
  <2> SUFFICES ASSUME IInv, LoanInv, ThreadsBounded, [Next]_vars PROVE ThreadsBounded'
    OBVIOUS
  <2>1. Cardinality(Threads) < ThreadLimit + Cardinality(Conns)
    BY DEF ThreadsBounded, Threads
  <2>2. ASSUME Threads' \subseteq Threads PROVE ThreadsBounded'
    <3>1. Cardinality(Threads') <= Cardinality(Threads)
          /\ Cardinality(Threads') \in Nat /\ Cardinality(Threads) \in Nat
      BY <1>0, <2>2, FS_Subset, FS_CardinalityType
    <3>2. Cardinality(Threads') < ThreadLimit + Cardinality(Conns)
      BY <1>0, <2>1, <3>1
    <3> QED BY <3>2 DEF ThreadsBounded, Threads
  <2>3. ASSUME NEW d \in Downloaders, DownloaderMoved(d) PROVE Threads' \subseteq Threads
    <3>1. \A e \in Downloaders \ {d} : pc'[e] = pc[e]
      BY <2>3, QueueAssumption DEF DownloaderMoved, Users
    <3>2. pc[d] # "none" \/ pc' = pc
      BY <2>3 DEF DownloaderMoved
    <3> QED BY <3>1, <3>2 DEF Threads
  <2>4. CASE \A d \in Downloaders : pc'[d] = pc[d]
    BY <2>2, <2>4 DEF Threads
  <2>5. ASSUME NEW d \in Downloaders, Pool!Pass(Coordinator, d), ThreadCount < ThreadLimit,
               pc[d] = "none", pc'[d] = "created",
               \A e \in Downloaders \ {d} : pc'[e] = pc[e]
        PROVE  ThreadsBounded'
    <3> DEFINE Counted == {e \in Downloaders : pc[e] \notin {"none", "created"}}
    <3>1. IsFiniteSet(Created) /\ Cardinality(Created) + 1 <= Cardinality(Conns)
      BY <2>5, CreatedHaveConnections DEF Pool!Pass
    <3>2. IsFiniteSet(Counted)
      BY <1>0, FS_Subset
    <3>3. Cardinality(Counted) < ThreadLimit
      BY <2>5 DEF ThreadCount
    <3>4. Threads = Counted \union Created /\ Counted \intersect Created = {}
      BY DEF Threads, Created
    <3> HIDE DEF Counted
    <3>5. Cardinality(Threads) = Cardinality(Counted) + Cardinality(Created) - Cardinality({})
      BY <3>1, <3>2, <3>4, FS_Union
    <3>6. Threads' = Threads \union {d} /\ d \notin Threads
      BY <2>5 DEF Threads
    <3>7. Cardinality(Threads \union {d}) = Cardinality(Threads) + 1
      BY <1>0, <3>6, FS_AddElement
    <3>8. Cardinality(Counted) \in Nat /\ Cardinality(Created) \in Nat /\ Cardinality({}) = 0
      BY <3>1, <3>2, FS_CardinalityType, FS_EmptySet
    <3>9. Cardinality(Threads') < ThreadLimit + Cardinality(Conns)
      BY <1>0, <3>1, <3>3, <3>5, <3>6, <3>7, <3>8
    <3> QED BY <3>9 DEF ThreadsBounded, Threads
  <2>6. CASE CoordinatorStep
    BY <2>4, <2>5, <2>6, CoordinatorLoans
  <2>7. CASE \E d \in Downloaders : Moves(d) \/ Leaves(d)
    BY <2>2, <2>3, <2>7, DownloaderLoans
  <2>8. CASE UNCHANGED <<pc, conn>>
    BY <2>4, <2>8
  <2> QED BY <2>6, <2>7, <2>8, StepsByThread
<1> QED BY <1>1, <1>2, InvariantHolds, LoansHold, PTL DEF Spec
=============================================================================
