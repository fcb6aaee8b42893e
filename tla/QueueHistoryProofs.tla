------------------------- MODULE QueueHistoryProofs -------------------------
(***************************************************************************)
(* Proofs about how files leave the queue of QueueCoordinator and who      *)
(* sees to it.  They rest on the invariant of QueueCoordinatorProofs, and  *)
(* on one of the queue's own: it lists no file twice, and a file that was  *)
(* announced as gone has been in it and is not in it any more.             *)
(***************************************************************************)
EXTENDS QueueCoordinatorProofs

AddedFiles == UNION {SeqElements(FilesOf[n]) : n \in added}

\* A queue that lists each file once.
Distinct(s) == \A i, j \in DOMAIN s : s[i] = s[j] => i = j

\* From such a queue, erasing a file removes it altogether.
LEMMA EraseDistinct ==
    ASSUME NEW s \in Seq(Files), NEW f \in SeqElements(s), Distinct(s)
    PROVE  Distinct(Erase(s, f)) /\ SeqElements(Erase(s, f)) = SeqElements(s) \ {f}
<1> DEFINE t == Erase(s, f)
<1>1. /\ t \in Seq(Files)
      /\ \E k \in 1..Len(s) :
             /\ s[k] = f /\ Len(t) = Len(s) - 1
             /\ \A i \in 1..Len(s) - 1 : t[i] = IF i < k THEN s[i] ELSE s[i + 1]
  BY EraseEntries
<1>2. SeqElements(s) \ {f} \subseteq SeqElements(t) /\ SeqElements(t) \subseteq SeqElements(s)
  BY EraseFile
<1> HIDE DEF t
<1>3. PICK k \in 1..Len(s) :
          /\ s[k] = f /\ Len(t) = Len(s) - 1
          /\ \A i \in 1..Len(s) - 1 : t[i] = IF i < k THEN s[i] ELSE s[i + 1]
  BY <1>1
<1>4. Len(s) \in Nat /\ DOMAIN s = 1..Len(s) /\ DOMAIN t = 1..Len(s) - 1
  BY <1>1, <1>3
<1>5. \A i, j \in 1..Len(s) : s[i] = s[j] => i = j
  BY <1>4 DEF Distinct
<1>6. ASSUME NEW i \in DOMAIN t PROVE t[i] # f
  BY <1>3, <1>4, <1>5
<1>7. ASSUME NEW i \in DOMAIN t, NEW j \in DOMAIN t, t[i] = t[j] PROVE i = j
  <2> DEFINE at(x) == IF x < k THEN x ELSE x + 1
  <2>1. at(i) \in 1..Len(s) /\ at(j) \in 1..Len(s) /\ s[at(i)] = s[at(j)]
    BY <1>3, <1>4, <1>7
  <2>2. at(i) = at(j)
    BY <1>5, <2>1
  <2> QED BY <1>4, <2>2
<1>8. f \notin SeqElements(t)
  BY <1>6 DEF SeqElements
<1> QED BY <1>2, <1>7, <1>8 DEF t, Distinct

\* Joining two such queues without a file in common gives another.
LEMMA ConcatDistinct ==
    ASSUME NEW s \in Seq(Files), NEW t \in Seq(Files), Distinct(s), Distinct(t),
           SeqElements(s) \intersect SeqElements(t) = {}
    PROVE  Distinct(s \o t)
<1>1. /\ s \o t \in Seq(Files) /\ Len(s \o t) = Len(s) + Len(t)
      /\ \A i \in 1..Len(s) + Len(t) :
             (s \o t)[i] = IF i <= Len(s) THEN s[i] ELSE t[i - Len(s)]
  BY ConcatProperties
<1>2. Len(s) \in Nat /\ Len(t) \in Nat /\ DOMAIN s = 1..Len(s) /\ DOMAIN t = 1..Len(t)
      /\ DOMAIN (s \o t) = 1..Len(s) + Len(t)
  BY <1>1
<1> SUFFICES ASSUME NEW i \in 1..Len(s) + Len(t), NEW j \in 1..Len(s) + Len(t),
                    (s \o t)[i] = (s \o t)[j]
             PROVE  i = j
  BY <1>2 DEF Distinct
<1>3. ASSUME NEW x \in 1..Len(s), NEW y \in 1..Len(t) PROVE s[x] # t[y]
  BY <1>2 DEF SeqElements
<1>4. CASE i <= Len(s) /\ j <= Len(s)
  BY <1>1, <1>2, <1>4 DEF Distinct
<1>5. CASE i > Len(s) /\ j > Len(s)
  <2>1. i - Len(s) \in 1..Len(t) /\ j - Len(s) \in 1..Len(t)
        /\ t[i - Len(s)] = t[j - Len(s)]
    BY <1>1, <1>2, <1>5
  <2>2. i - Len(s) = j - Len(s)
    BY <1>2, <2>1 DEF Distinct
  <2> QED BY <1>2, <2>2
<1>6. CASE i <= Len(s) /\ j > Len(s)
  <2>1. i \in 1..Len(s) /\ j - Len(s) \in 1..Len(t) /\ s[i] = t[j - Len(s)]
    BY <1>1, <1>2, <1>6
  <2> QED BY <1>3, <2>1
<1>7. CASE i > Len(s) /\ j <= Len(s)
  <2>1. j \in 1..Len(s) /\ i - Len(s) \in 1..Len(t) /\ s[j] = t[i - Len(s)]
    BY <1>1, <1>2, <1>7
  <2> QED BY <1>3, <2>1
<1> QED BY <1>2, <1>4, <1>5, <1>6, <1>7

\* The survivors of the duplicate check are listed once each.
LEMMA SurvivingDistinct ==
    ASSUME NEW n \in Nzbs, NEW dupes, NEW s \in Surviving(n, dupes)
    PROVE  Distinct(s)
<1>1. FilesOf[n] \in Seq(Files)
  BY QueueAssumption
<1>2. s \in Seq(Files) /\ SeqElements(s) \subseteq SeqElements(FilesOf[n])
  BY SurvivingType
<1>3. \A i, j \in DOMAIN s : i < j => IndexOf(FilesOf[n], s[i]) < IndexOf(FilesOf[n], s[j])
  BY DEF Surviving
<1>4. \A i \in DOMAIN s : IndexOf(FilesOf[n], s[i]) \in Nat
  <2> SUFFICES ASSUME NEW i \in DOMAIN s PROVE IndexOf(FilesOf[n], s[i]) \in Nat
    OBVIOUS
  <2>1. s[i] \in SeqElements(FilesOf[n])
    BY <1>2 DEF SeqElements
  <2> QED BY <1>1, <2>1 DEF SeqElements, IndexOf
<1>5. DOMAIN s = 1..Len(s) /\ Len(s) \in Nat
  BY <1>2
<1> SUFFICES ASSUME NEW i \in 1..Len(s), NEW j \in 1..Len(s), s[i] = s[j], i # j
             PROVE  FALSE
  BY <1>5 DEF Distinct
<1>6. CASE i < j
  BY <1>3, <1>4, <1>5, <1>6
<1>7. CASE j < i
  BY <1>3, <1>4, <1>5, <1>7
<1> QED BY <1>5, <1>6, <1>7

-----------------------------------------------------------------------------
(* What a step does to the queue.                                          *)

\* The queue lists files that were added, each once; only such files are
\* deleted, and only such files that have left it are announced.
QueueInv ==
    /\ Distinct(queue)
    /\ Queued \subseteq AddedFiles
    /\ deleted \subseteq AddedFiles
    /\ \A f \in Files : announced[f] # "none" => f \in AddedFiles \ Queued

\* Nothing is added or removed; a file may be marked as deleted.
QueueKept ==
    /\ UNCHANGED <<queue, added, announced>>
    /\ deleted \subseteq deleted' /\ deleted' \subseteq deleted \union Queued

\* The files of one more nzb-file are added at one of the ends.
FilesAdded(n, s) ==
    /\ n \in Nzbs \ added /\ added' = added \union {n}
    /\ s \in Seq(Files) /\ Distinct(s) /\ SeqElements(s) \subseteq SeqElements(FilesOf[n])
    /\ queue' = s \o queue \/ queue' = queue \o s
    /\ UNCHANGED <<announced, deleted>>

\* A file is announced and removed.
FileRemoved(f, aspect) ==
    /\ f \in Queued
    /\ DeleteFileInfo(f, aspect)
    /\ added' = added /\ deleted' = deleted \union {f}
    /\ \/ aspect = "deleted"
       \/ aspect = "completed" /\ f \notin deleted /\ Done(f) = ArticlesOf(f)

QueueStep ==
    \/ QueueKept
    \/ \E n \in Nzbs, s \in Seq(Files) : FilesAdded(n, s)
    \/ \E f \in Files, aspect \in {"completed", "deleted"} : FileRemoved(f, aspect)

\* The report of an article removes its file only if it has been deleted.
LEMMA ReportQueueStep ==
    ASSUME IInv, NEW d \in Downloaders, Reports(d)
    PROVE  QueueStep
<1>1. PICK named \in BOOLEAN, dupe \in BOOLEAN : ArticleCompleted(d, named, dupe)
  BY DEF Reports
<1>2. d \in active
  BY <1>1 DEF ArticleCompleted, IInv, ActiveIffAtWork
<1> DEFINE f == FileOf(art[d])
<1>3. f \in Files /\ f \in Queued
  BY <1>2, ArticleFacts DEF IInv, WorkIsMarked, NoDanglingFile
<1>4. /\ added' = added
      /\ deleted' = deleted \/ deleted' = deleted \union {f}
      /\ \/ UNCHANGED <<queue, announced>>
         \/ f \in deleted' /\ DeleteFileInfo(f, "deleted")
  BY <1>1 DEF ArticleCompleted
<1> HIDE DEF f
<1>5. CASE UNCHANGED <<queue, announced>>
  BY <1>3, <1>4, <1>5 DEF QueueStep, QueueKept
<1>6. CASE f \in deleted' /\ DeleteFileInfo(f, "deleted")
  <2>1. deleted' = deleted \union {f}
    BY <1>4, <1>6
  <2>2. FileRemoved(f, "deleted")
    BY <1>3, <1>4, <1>6, <2>1 DEF FileRemoved
  <2> QED BY <1>3, <2>2 DEF QueueStep
<1> QED BY <1>4, <1>5, <1>6

\* After the join the file leaves, as completed unless it was deleted meanwhile.
LEMMA JoinedQueueStep ==
    ASSUME IInv, NEW d \in Downloaders, FileJoined(d)
    PROVE  QueueStep
<1> DEFINE f == FileOf(art[d])
<1>1. d \in active /\ pc[d] = "joining"
  BY DEF FileJoined, IInv, ActiveIffAtWork
<1>2. f \in Files /\ f \in Queued /\ Done(f) = ArticlesOf(f)
  BY <1>1, ArticleFacts DEF IInv, WorkIsMarked, NoDanglingFile, JoinsAlone
<1>3. /\ added' = added /\ deleted' = deleted \union {f}
      /\ DeleteFileInfo(f, JoinedAspect(f))
  BY DEF FileJoined
<1> HIDE DEF f
<1>4. FileRemoved(f, JoinedAspect(f)) /\ JoinedAspect(f) \in {"completed", "deleted"}
  BY <1>2, <1>3 DEF FileRemoved, JoinedAspect
<1> QED BY <1>2, <1>4 DEF QueueStep

\* The queue that was saved is loaded: the files of one nzb-file, or nothing.
LEMMA LoadQueueStep ==
    ASSUME IInv, Load
    PROVE  QueueStep
<1>1. CASE LoadDownloadQueue(<<>>) /\ UNCHANGED added
  <2>1. queue \o <<>> = queue
    BY ConcatEmptySeq DEF IInv, TypeOK
  <2> QED BY <1>1, <2>1 DEF LoadDownloadQueue, QueueStep, QueueKept
<1>2. ASSUME NEW n \in Nzbs \ added, LoadDownloadQueue(FilesOf[n]), added' = added \union {n}
      PROVE  QueueStep
  <2>1. FilesOf[n] \in Seq(Files) /\ Distinct(FilesOf[n])
    BY QueueAssumption, FilesOfAssumption DEF Distinct
  <2>2. FilesAdded(n, FilesOf[n])
    BY <1>2, <2>1 DEF LoadDownloadQueue, FilesAdded
  <2> QED BY <2>1, <2>2 DEF QueueStep
<1> QED BY <1>1, <1>2 DEF Load

\* Every step does one of these to the queue.
LEMMA StepsOfTheQueue ==
    ASSUME IInv, [Next]_vars
    PROVE  QueueStep
<1>1. ASSUME NEW n \in Nzbs, NEW addFirst \in BOOLEAN,
             NEW dupes \in SUBSET SeqElements(FilesOf[n]),
             AddNZBFileToQueue(n, dupes, addFirst)
      PROVE  QueueStep
  <2>1. PICK s \in Surviving(n, dupes) :
            queue' = IF addFirst THEN s \o queue ELSE queue \o s
    BY <1>1 DEF AddNZBFileToQueue
  <2>2. FilesAdded(n, s) /\ s \in Seq(Files)
    BY <1>1, <2>1, SurvivingType, SurvivingDistinct DEF AddNZBFileToQueue, FilesAdded
  <2> QED BY <2>2 DEF QueueStep
<1>2. ASSUME NEW f \in Files, DeleteQueueEntry(f) PROVE QueueStep
  <2>1. CASE DownloadersOf(f) = {}
    <3>1. FileRemoved(f, "deleted")
      BY <1>2, <2>1 DEF DeleteQueueEntry, FileRemoved
    <3> QED BY <3>1 DEF QueueStep
  <2>2. CASE DownloadersOf(f) # {}
    BY <1>2, <2>2 DEF DeleteQueueEntry, QueueStep, QueueKept
  <2> QED BY <2>1, <2>2
<1>3. ASSUME NEW d \in Downloaders, Moves(d) \/ ResetHangingDownload(d) PROVE QueueStep
  BY <1>3 DEF Moves, BeginDownload, AcquireConnection, ReleaseAndRetry, FetchArticle,
              FinishDownload, AtWork, ReleaseSkipped, ExitThread, ResetHangingDownload,
              fileVars, QueueStep, QueueKept
<1>4. CASE \/ \E f \in Files : PauseUnpauseEntry(f)
           \/ SetPauseDownload \/ StopFlag \/ StopDownloads
           \/ LoopTop \/ StartNext \/ Wake \/ WaitForDownloads \/ UNCHANGED vars
  BY <1>4 DEF PauseUnpauseEntry, SetPauseDownload, StopFlag, StopDownloads, LoopTop, StartNext,
              Wake, WaitForDownloads, vars, fileVars, QueueStep, QueueKept
<1> QED BY <1>1, <1>2, <1>3, <1>4, LoadQueueStep, ReportQueueStep, JoinedQueueStep, NextByThread
        DEF Request, CoordinatorStep, Leaves

\* A step that adds files adds new ones.
LEMMA AddingKeepsQueueInv ==
    ASSUME IInv, QueueInv, NEW n \in Nzbs, NEW s \in Seq(Files), FilesAdded(n, s)
    PROVE  /\ QueueInv' /\ Queued \subseteq Queued'
           /\ \A f \in Queued' \ Queued : f \notin AddedFiles
<1>0. queue \in Seq(Files)
  BY DEF IInv, TypeOK
<1>1. SeqElements(s) \intersect AddedFiles = {}
  <2> SUFFICES ASSUME NEW f \in SeqElements(FilesOf[n]), f \in AddedFiles PROVE FALSE
    BY DEF FilesAdded
  <2>1. PICK m \in added : f \in SeqElements(FilesOf[m])
    BY DEF AddedFiles
  <2>2. m \in Nzbs /\ m # n
    BY DEF FilesAdded, IInv, TypeOK
  <2> QED BY <2>1, <2>2, FilesOfAssumption DEF SeqElements
<1>2. SeqElements(s) \intersect SeqElements(queue) = {}
  BY <1>1 DEF QueueInv, Queued
<1>3. Distinct(queue')
  BY <1>0, <1>2, ConcatDistinct DEF FilesAdded, QueueInv
<1>4. Queued' = Queued \union SeqElements(s)
  <2>1. /\ SeqElements(s \o queue) = SeqElements(s) \union SeqElements(queue)
        /\ SeqElements(queue \o s) = SeqElements(queue) \union SeqElements(s)
    BY <1>0, ElementsOfConcat
  <2>2. Queued' = SeqElements(queue') /\ Queued = SeqElements(queue)
    BY DEF Queued, SeqElements
  <2>3. queue' = s \o queue \/ queue' = queue \o s
    BY DEF FilesAdded
  <2> QED BY <2>1, <2>2, <2>3
<1>5. AddedFiles' = AddedFiles \union SeqElements(FilesOf[n])
  BY DEF FilesAdded, AddedFiles
<1> QED BY <1>1, <1>3, <1>4, <1>5 DEF FilesAdded, QueueInv

\* A step that removes a file removes that file and no other.
LEMMA RemovingKeepsQueueInv ==
    ASSUME IInv, QueueInv, NEW f \in Files, NEW aspect \in {"completed", "deleted"},
           FileRemoved(f, aspect)
    PROVE  QueueInv' /\ Queued' = Queued \ {f}
<1>0. queue \in Seq(Files) /\ announced \in [Files -> {"none", "completed", "deleted"}]
  BY DEF IInv, TypeOK
<1>1. queue' = Erase(queue, f) /\ announced' = [announced EXCEPT ![f] = aspect]
  BY DEF FileRemoved, DeleteFileInfo
<1>2. Distinct(queue') /\ Queued' = Queued \ {f}
  BY <1>0, <1>1, EraseDistinct DEF FileRemoved, QueueInv, Queued
<1>3. AddedFiles' = AddedFiles
  BY DEF FileRemoved, AddedFiles
<1> QED BY <1>0, <1>1, <1>2, <1>3 DEF FileRemoved, QueueInv

\* The invariant of the queue holds in every reachable state.
LEMMA QueueInvHolds == Spec => []QueueInv
<1>1. Init => QueueInv
  BY DEF Init, QueueInv, Distinct, Queued, SeqElements
<1>2. IInv /\ QueueInv /\ [Next]_vars => QueueInv'
  <2> SUFFICES ASSUME IInv, QueueInv, [Next]_vars PROVE QueueInv'
    OBVIOUS
  <2>1. CASE QueueKept
    <3>1. Queued' = Queued /\ AddedFiles' = AddedFiles
      BY <2>1 DEF QueueKept, Queued, AddedFiles
    <3> QED BY <2>1, <3>1 DEF QueueKept, QueueInv
  <2> QED BY <2>1, StepsOfTheQueue, AddingKeepsQueueInv, RemovingKeepsQueueInv DEF QueueStep
<1> QED BY <1>1, <1>2, InvariantHolds, PTL DEF Spec

\* A file leaves the queue announced as completed, with every article of it
\* processed, or announced as deleted after somebody deleted it, and nothing is
\* announced for it again: the order of the observers' notification and the
\* removal, and the second look at the deleted flag after a join, see to that.
THEOREM FilesLeaveAnnounced == Spec => LeavesQueueAnnounced
<1> DEFINE A == \A f \in Files :
                  /\ f \in Queued /\ f \notin Queued' =>
                        \/ announced'[f] = "completed" /\ f \notin deleted
                           /\ Done(f) = ArticlesOf(f)
                        \/ announced'[f] = "deleted" /\ f \in deleted'
                  /\ announced[f] # "none" => announced'[f] = announced[f] /\ f \notin Queued'
<1>1. IInv /\ QueueInv /\ [Next]_vars => [A]_vars
  <2> SUFFICES ASSUME IInv, QueueInv, [Next]_vars PROVE A
    OBVIOUS
  <2>1. CASE QueueKept
    <3>1. Queued' = Queued
      BY <2>1 DEF QueueKept, Queued
    <3> QED BY <2>1, <3>1 DEF QueueKept, QueueInv
  <2>2. ASSUME NEW n \in Nzbs, NEW s \in Seq(Files), FilesAdded(n, s) PROVE A
    BY <2>2, AddingKeepsQueueInv DEF FilesAdded, QueueInv
  <2>3. ASSUME NEW g \in Files, NEW aspect \in {"completed", "deleted"}, FileRemoved(g, aspect)
        PROVE  A
    <3>1. Queued' = Queued \ {g}
      BY <2>3, RemovingKeepsQueueInv
    <3>2. announced' = [announced EXCEPT ![g] = aspect] /\ g \in Queued /\ g \in deleted'
      BY <2>3 DEF FileRemoved, DeleteFileInfo
    <3>3. announced \in [Files -> {"none", "completed", "deleted"}] /\ announced[g] = "none"
      BY <3>2 DEF IInv, TypeOK, QueueInv
    <3> QED BY <2>3, <3>1, <3>2, <3>3 DEF FileRemoved, QueueInv
  <2> QED BY <2>1, <2>2, <2>3, StepsOfTheQueue DEF QueueStep
<1> QED BY <1>1, InvariantHolds, QueueInvHolds, PTL DEF Spec, LeavesQueueAnnounced
-----------------------------------------------------------------------------
(* Without the watchdog a deleted file always has a download left to free  *)
(* it, or is freed at once.                                                *)

\* A step that takes no download away from a file and deletes no file.
LEMMA DownloadsKeptKeepsDeleted ==
    ASSUME IInv, QueueInv, [Next]_vars, DeletedFileHasDownload,
           deleted' = deleted,
           active \subseteq active',
           \A d \in active : art'[d] = art[d]
    PROVE  DeletedFileHasDownload'
<1>1. \A f : DownloadersOf(f) \subseteq DownloadersOf(f)'
  BY DEF DownloadersOf
<1>2. deleted \intersect Queued' \subseteq deleted \intersect Queued
  <2>1. CASE QueueKept
    BY <2>1 DEF QueueKept, Queued
  <2>2. ASSUME NEW n \in Nzbs, NEW t \in Seq(Files), FilesAdded(n, t)
        PROVE  deleted \intersect Queued' \subseteq deleted \intersect Queued
    BY <2>2, AddingKeepsQueueInv DEF QueueInv
  <2>3. ASSUME NEW f \in Files, NEW aspect \in {"completed", "deleted"}, FileRemoved(f, aspect)
        PROVE  deleted \intersect Queued' \subseteq deleted \intersect Queued
    BY <2>3, RemovingKeepsQueueInv
  <2> QED BY <2>1, <2>2, <2>3, StepsOfTheQueue DEF QueueStep
<1> QED BY <1>1, <1>2 DEF DeletedFileHasDownload

\* The download of a file that leaves: no other file loses one.
LEMMA LeavingKeepsOthers ==
    ASSUME NEW d \in active, active' = active \ {d}, art' = art
    PROVE  \A f : f # FileOf(art[d]) => DownloadersOf(f)' = DownloadersOf(f)
BY DEF DownloadersOf

\* A deletion, a report and the end of a join.
LEMMA DeletingKeepsDeleted ==
    ASSUME IInv, QueueInv, DeletedFileHasDownload,
           \/ \E f \in Files : DeleteQueueEntry(f)
           \/ \E d \in Downloaders : Reports(d) \/ FileJoined(d)
    PROVE  DeletedFileHasDownload'
<1>0. queue \in Seq(Files)
  BY DEF IInv, TypeOK
<1>1. ASSUME NEW f \in Queued, NEW aspect, DeleteFileInfo(f, aspect)
      PROVE  Queued' = Queued \ {f}
  BY <1>0, <1>1, EraseDistinct DEF DeleteFileInfo, QueueInv, Queued
<1>2. ASSUME NEW f \in Files, DeleteQueueEntry(f) PROVE DeletedFileHasDownload'
  <2>1. \A g : DownloadersOf(g)' = DownloadersOf(g)
    BY <1>2 DEF DeleteQueueEntry, DownloadersOf
  <2>2. Queued' = Queued \/ Queued' = Queued \ {f}
    BY <1>1, <1>2 DEF DeleteQueueEntry, Queued
  <2>3. DownloadersOf(f) # {} \/ f \notin Queued'
    BY <1>1, <1>2 DEF DeleteQueueEntry
  <2>4. Queued' \subseteq Queued /\ deleted' = deleted \union {f}
    BY <1>2, <2>2 DEF DeleteQueueEntry
  <2> QED BY <2>1, <2>3, <2>4 DEF DeletedFileHasDownload
<1>3. ASSUME NEW d \in Downloaders, NEW named \in BOOLEAN, NEW dupe \in BOOLEAN,
             ArticleCompleted(d, named, dupe)
      PROVE  DeletedFileHasDownload'
  <2> DEFINE f == FileOf(art[d])
  <2>1. d \in active /\ f \in Queued
    BY <1>3 DEF ArticleCompleted, IInv, ActiveIffAtWork, NoDanglingFile
  <2>2. art' = art /\ deleted' \subseteq deleted \union {f}
    BY <1>3 DEF ArticleCompleted
  <2>3. CASE UNCHANGED <<queue, active>>
    <3>1. \A g : DownloadersOf(g)' = DownloadersOf(g)
      BY <2>2, <2>3 DEF DownloadersOf
    <3>2. DownloadersOf(f) # {} /\ Queued' = Queued
      BY <2>1, <2>3 DEF DownloadersOf, Queued
    <3> QED BY <2>2, <3>1, <3>2 DEF DeletedFileHasDownload
  <2>4. CASE /\ active' = active \ {d}
             /\ IF f \in deleted' /\ LastDownload(d)
                THEN DeleteFileInfo(f, "deleted") ELSE UNCHANGED queue
    <3>1. Queued' \subseteq Queued
      BY <1>1, <2>1, <2>4 DEF Queued
    <3>2. ASSUME f \in deleted', f \in Queued' PROVE DownloadersOf(f)' # {}
      <4>1. ~LastDownload(d)
        BY <1>1, <2>1, <2>4, <3>2
      <4>2. DownloadersOf(f)' = DownloadersOf(f) \ {d} /\ d \in DownloadersOf(f)
        BY <2>1, <2>2, <2>4 DEF DownloadersOf
      <4> QED BY <4>1, <4>2 DEF LastDownload
    <3>3. \A g : g # f => DownloadersOf(g)' = DownloadersOf(g)
      BY <2>1, <2>2, <2>4, LeavingKeepsOthers
    <3> QED BY <2>2, <3>1, <3>2, <3>3 DEF DeletedFileHasDownload
  <2> QED BY <1>3, <2>3, <2>4 DEF ArticleCompleted, RemoveDownload
<1>4. ASSUME NEW d \in Downloaders, FileJoined(d) PROVE DeletedFileHasDownload'
  <2> DEFINE f == FileOf(art[d])
  <2>1. d \in active /\ f \in Queued
    BY <1>4 DEF FileJoined, IInv, ActiveIffAtWork, NoDanglingFile
  <2>2. /\ active' = active \ {d} /\ art' = art /\ deleted' = deleted \union {f}
        /\ DeleteFileInfo(f, JoinedAspect(f))
    BY <1>4 DEF FileJoined, RemoveDownload
  <2>3. Queued' = Queued \ {f}
    BY <1>1, <2>1, <2>2
  <2>4. \A g : g # f => DownloadersOf(g)' = DownloadersOf(g)
    BY <2>1, <2>2, LeavingKeepsOthers
  <2> QED BY <2>2, <2>3, <2>4 DEF DeletedFileHasDownload
<1> QED BY <1>2, <1>3, <1>4 DEF Reports

\* With the watchdog off, a deleted file that is still in the queue always has a
\* download that is going to free it: DeleteQueueEntry and ArticleCompleted
\* divide this duty between them without a gap.
THEOREM DeletedFilesAreLookedAfter ==
    ASSUME TerminateTimeout = 0
    PROVE  Spec => []DeletedFileHasDownload
<1>1. Init => DeletedFileHasDownload
  BY DEF Init, DeletedFileHasDownload
<1>2. IInv /\ QueueInv /\ DeletedFileHasDownload /\ [Next]_vars => DeletedFileHasDownload'
  <2> SUFFICES ASSUME IInv, QueueInv, DeletedFileHasDownload, [Next]_vars
               PROVE  DeletedFileHasDownload'
    OBVIOUS
  <2>1. ASSUME NEW d \in Downloaders, NEW a \in Articles, StartNext, StartArticleDownload(d, a)
        PROVE  DeletedFileHasDownload'
    <3>1. d \notin active /\ art \in [Downloaders -> Articles \union {NoArticle}]
      BY <2>1 DEF StartArticleDownload, IInv, ActiveIffAtWork, TypeOK
    <3>2. active \subseteq active' /\ \A e \in active : art'[e] = art[e]
      BY <2>1, <3>1 DEF StartArticleDownload, IInv, TypeOK
    <3> QED BY <2>1, <3>2, DownloadsKeptKeepsDeleted DEF StartNext
  <2>2. ASSUME NEW d \in Downloaders, Moves(d) PROVE DeletedFileHasDownload'
    <3>1. deleted' = deleted /\ active' = active
      BY <2>2 DEF Moves, BeginDownload, AcquireConnection, ReleaseAndRetry, FetchArticle,
                  FinishDownload, AtWork, ReleaseSkipped, ExitThread, fileVars
    <3>2. \A e \in active : art'[e] = art[e]
      <4>1. CASE ExitThread(d)
        BY <4>1 DEF ExitThread, IInv, ActiveIffAtWork, TypeOK
      <4>2. CASE ~ExitThread(d)
        BY <2>2, <4>2 DEF Moves, BeginDownload, AcquireConnection, ReleaseAndRetry, FetchArticle,
                          FinishDownload, AtWork, ReleaseSkipped
      <4> QED BY <4>1, <4>2
    <3> QED BY <3>1, <3>2, DownloadsKeptKeepsDeleted
  <2>3. ASSUME UNCHANGED <<deleted, active, art>> PROVE DeletedFileHasDownload'
    BY <2>3, DownloadsKeptKeepsDeleted
  <2>4. CASE StartNext /\ UNCHANGED <<active, art>>
    BY <2>3, <2>4 DEF StartNext
  <2>5. CASE \/ Request /\ ~(\E f \in Files : DeleteQueueEntry(f))
             \/ Load \/ LoopTop \/ Wake \/ WaitForDownloads \/ UNCHANGED vars
    <3>1. UNCHANGED <<deleted, active, art>>
      BY <2>5 DEF Request, AddNZBFileToQueue, PauseUnpauseEntry, SetPauseDownload, StopFlag,
                  StopDownloads, Load, LoadDownloadQueue, LoopTop, Wake, WaitForDownloads,
                  vars, fileVars
    <3> QED BY <2>3, <3>1
  <2>6. ~(\E d \in Downloaders : ResetHangingDownload(d))
    BY DEF ResetHangingDownload
  <2> QED BY <2>1, <2>2, <2>4, <2>5, <2>6, DeletingKeepsDeleted, NextByThread
          DEF CoordinatorStep, StartNext, Leaves
<1> QED BY <1>1, <1>2, InvariantHolds, QueueInvHolds, PTL DEF Spec
=============================================================================
