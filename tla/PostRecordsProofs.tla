--------------------------- MODULE PostRecordsProofs ---------------------------
(***************************************************************************)
(* Proofs about PostProcessor: what is recorded of collections.  A collection *)
(* whose last job or last file is gone goes to the history, and its par-files *)
(* are discarded only by results that were really reached.                  *)
(***************************************************************************)
EXTENDS PostProcessorProofs

\* What is recorded as the result of a collection stays the same.
SameResults(q, r) ==
    \A m \in Collections : /\ r.nzb[m].par = q.nzb[m].par
                           /\ r.nzb[m].script = q.nzb[m].script
                           /\ r.nzb[m].parCleanup = q.nzb[m].parCleanup

\* The par-checker runs with a job that has left the queue.
Orphan(q) == parRunning /\ parJob \notin ToSet(q.post)

-----------------------------------------------------------------------------
(* What the functions of the code record.                                   *)

\* The same files, whatever else has changed.
LEMMA SameGroups ==
    ASSUME NEW q, NEW r, r.files = q.files
    PROVE  \A m : Group(r, m) = Group(q, m)
BY DEF Group

\* A downloaded collection goes to the history, or it has jobs, and none of its files
\* leaves the queue.
LEMMA DownloadedRecords ==
    ASSUME NEW q \in Queues, NEW n \in Collections, PostQueue(q.post),
           ~q.nzb[n].postProcess \/ AllowReProcess => RoomForJobs(q, n)
    PROVE  LET r == NZBDownloaded(q, n)
           IN  /\ SameResults(q, r)
               /\ \A m \in Collections \ {n} : Group(r, m) = Group(q, m)
               /\ \/ n \in r.history
                  \/ HasJob(r, n) /\ Group(r, n) = Group(q, n)
               /\ q.history \subseteq r.history
<1> DEFINE r == NZBDownloaded(q, n)
           c == CreatePostJobs(q, n, ParCheck, TRUE, FALSE)
           d == [c EXCEPT !.nzb[n].postProcess = TRUE]
<1>1. \/ r = NZBCompleted(q, n)
      \/ r = d /\ RoomForJobs(q, n) /\ NewJobs(q, n, TRUE) # {}
  BY Zenon DEF NZBDownloaded
<1>2. CASE r = NZBCompleted(q, n)
  <2> HIDE DEF r
  <2>1. /\ r.files = q.files \ (Group(q, n) \ q.marked) /\ r.nzb = q.nzb
        /\ r.history = q.history \union {n}
    BY <1>2, NZBCompletedFields
  <2>2. \A m \in Collections \ {n} : Group(r, m) = Group(q, m)
    BY <2>1 DEF Group, Of
  <2> QED BY <2>1, <2>2 DEF SameResults, r
<1>3. CASE r = d /\ RoomForJobs(q, n) /\ NewJobs(q, n, TRUE) # {}
  <2>1. ParCheck \in BOOLEAN /\ TRUE \in BOOLEAN /\ FALSE \in BOOLEAN /\ RoomForJobs(q, n)
    BY <1>3, PostAssumption
  <2>2. /\ Grows(q, c, n) /\ c.files = q.files /\ c.nzb = q.nzb /\ c.history = q.history
        /\ NewJobs(q, n, TRUE) # {} => ToSet(c.post) # ToSet(q.post)
    <3> HIDE DEF r, d
    <3>1. ASSUME NEW w \in BOOLEAN, NEW top \in BOOLEAN
          PROVE  LET s == CreatePostJobs(q, n, ParCheck, w, top)
                 IN  /\ Grows(q, s, n) /\ s.files = q.files /\ s.nzb = q.nzb
                     /\ s.history = q.history
                     /\ NewJobs(q, n, w) # {} => ToSet(s.post) # ToSet(q.post)
      BY <2>1, CreatePostJobsFields
    <3> QED BY <2>1, <3>1, Zenon
  <2> HIDE DEF c
  <2>3. c \in Queues /\ c.nzb \in [Collections -> NzbInfos]
    BY <2>2 DEF Grows, Queues
  <2>4. /\ d.post = c.post /\ d.job = c.job /\ d.files = c.files /\ d.history = c.history
        /\ d.nzb = [c.nzb EXCEPT ![n].postProcess = TRUE]
    BY <2>3 DEF Queues
  <2>5. SameResults(q, d)
    BY <2>2, <2>3, <2>4 DEF SameResults, NzbInfos
  <2>6. HasJob(d, n)
    <3>1. PICK i \in ToSet(c.post) : IsNew(c.job[i], n)
      BY <1>3, <2>2 DEF Grows
    <3>2. c.job[i].nzb = n
      BY <3>1 DEF IsNew, NewJob
    <3> QED BY <2>4, <3>1, <3>2 DEF HasJob
  <2>7. \A m : Group(d, m) = Group(q, m)
    BY <2>2, <2>4 DEF Group
  <2> HIDE DEF d
  <2>8. r = d
    BY <1>3
  <2> HIDE DEF r
  <2> QED BY <2>2, <2>4, <2>5, <2>6, <2>7, <2>8 DEF r
<1> QED BY <1>1, <1>2, <1>3

\* If the only file of a collection that is left is deleted, the collection is complete.
LEMMA LastFile ==
    ASSUME NEW q, NEW n, NEW f, f \in q.marked, Group(q, n) \subseteq {f}
    PROVE  /\ IsNZBFileCompleted(q, n, TRUE, FALSE, FALSE)
           /\ IsNZBFileCompleted(q, n, FALSE, FALSE, FALSE)
           /\ IsNZBFileCompleted(q, n, FALSE, FALSE, TRUE)
<1>1. \A g \in Group(q, n) : g \in q.marked
  OBVIOUS
<1>2. Cardinality(Group(q, n) \intersect q.marked) <= 1
  <2>1. IsFiniteSet({f}) /\ Cardinality({f}) = 1
    BY FS_Singleton
  <2>2. Group(q, n) \intersect q.marked \subseteq {f}
    OBVIOUS
  <2> QED BY <2>1, <2>2, FS_Subset
<1> QED BY <1>1, <1>2 DEF IsNZBFileCompleted

\* The notification of a file: if it was the last one of a deleted collection, that goes to
\* the history, has jobs, or the file was taken for one of a check that is over.
LEMMA UpdateRecords ==
    ASSUME NEW q \in Queues, NEW f \in Files, NEW done \in BOOLEAN, PostQueue(q.post),
           f \in q.marked,
           ~q.nzb[NzbOf[f]].postProcess \/ AllowReProcess => RoomForJobs(q, NzbOf[f])
    PROVE  LET u == QueueCoordinatorUpdate(q, f, done)
               n == NzbOf[f]
           IN  /\ SameResults(q, u) /\ q.history \subseteq u.history
               /\ \A m \in Collections \ {n} : Group(u, m) = Group(q, m)
               /\ q.nzb[n].deleted /\ ~q.nzb[n].parCleanup /\ Group(u, n) \subseteq {f}
                      => n \in u.history \/ HasJob(u, n) \/ Orphan(q)
<1> DEFINE u == QueueCoordinatorUpdate(q, f, done)
           n == NzbOf[f]
<1>1. n \in Collections
  BY PostAssumption
<1>2. Group(q, n) \subseteq {f} => /\ IsNZBFileCompleted(q, n, TRUE, FALSE, FALSE)
                                   /\ IsNZBFileCompleted(q, n, FALSE, FALSE, FALSE)
                                   /\ IsNZBFileCompleted(q, n, FALSE, FALSE, TRUE)
  BY LastFile
<1>3. \/ /\ u = q
         /\ \/ IsForParCheck(q, f)
            \/ ~(/\ IsNZBFileCompleted(q, n, TRUE, FALSE, FALSE)
                 /\ IsNZBFileCompleted(q, n, FALSE, FALSE, FALSE)
                 /\ IsNZBFileCompleted(q, n, FALSE, FALSE, TRUE)
                 /\ q.nzb[n].deleted /\ ~q.nzb[n].parCleanup)
      \/ u = NZBDownloaded(q, n)
      \/ u = NZBDeleted(q, n)
  BY Zenon DEF QueueCoordinatorUpdate
<1>4. CASE /\ u = q
           /\ \/ IsForParCheck(q, f)
              \/ ~(/\ IsNZBFileCompleted(q, n, TRUE, FALSE, FALSE)
                   /\ IsNZBFileCompleted(q, n, FALSE, FALSE, FALSE)
                   /\ IsNZBFileCompleted(q, n, FALSE, FALSE, TRUE)
                   /\ q.nzb[n].deleted /\ ~q.nzb[n].parCleanup)
  <2>1. IsForParCheck(q, f) => HasJob(q, n) \/ Orphan(q)
    BY DEF IsForParCheck, HasJob, Orphan
  <2>2. q.nzb[n].deleted /\ ~q.nzb[n].parCleanup /\ Group(q, n) \subseteq {f}
            => HasJob(q, n) \/ Orphan(q)
    BY <1>2, <1>4, <2>1, Zenon
  <2> HIDE DEF u
  <2>3. SameResults(q, u) /\ q.history \subseteq u.history /\ \A m : Group(u, m) = Group(q, m)
    BY <1>4 DEF SameResults
  <2> QED BY <1>4, <2>2, <2>3 DEF u
<1>5. CASE u = NZBDownloaded(q, n)
  <2> DEFINE d == NZBDownloaded(q, n)
  <2>1. /\ SameResults(q, d) /\ q.history \subseteq d.history
        /\ \A m \in Collections \ {n} : Group(d, m) = Group(q, m)
        /\ n \in d.history \/ HasJob(d, n)
    BY <1>1, DownloadedRecords
  <2>2. u = d
    BY <1>5
  <2> HIDE DEF u, d
  <2> QED BY <2>1, <2>2 DEF u
<1>6. CASE u = NZBDeleted(q, n)
  <2> DEFINE d == NZBDeleted(q, n)
  <2>1. /\ d.files = q.files \ (Group(q, n) \ q.marked)
        /\ d.history = q.history \union {n} /\ d.nzb = q.nzb
    BY <1>1, NZBDeletedFields
  <2>2. u = d
    BY <1>6
  <2> HIDE DEF u, d
  <2>3. \A m \in Collections \ {n} : Group(u, m) = Group(q, m)
    BY <2>1, <2>2 DEF Group, Of
  <2>4. SameResults(q, u)
    BY <2>1, <2>2 DEF SameResults
  <2> QED BY <2>1, <2>2, <2>3, <2>4 DEF u
<1> QED BY <1>3, <1>4, <1>5, <1>6

\* The deletion of a file: if it was the last one of a deleted collection, that is recorded.
LEMMA DeleteEntryRecords ==
    ASSUME NEW q \in Queues, NEW f \in Files, f \in q.files, PostQueue(q.post)
    PROVE  LET r == DeleteQueueEntry(q, f)
               n == NzbOf[f]
           IN  /\ r.nzb = q.nzb /\ q.history \subseteq r.history
               /\ q.nzb[n].deleted /\ ~q.nzb[n].parCleanup /\ Group(r, n) = {}
                      => n \in r.history \/ HasJob(q, n) \/ Orphan(q)
<1> DEFINE n == NzbOf[f]
           m == [q EXCEPT !.marked = @ \union {f}]
           u == QueueCoordinatorUpdate(m, f, FALSE)
           r == DeleteQueueEntry(q, f)
<1>1. r.nzb = q.nzb /\ q.history \subseteq r.history
  <2> HIDE DEF r, n
  <2>1. LET s == DeleteQueueEntry(q, f)
        IN  s.nzb = q.nzb /\ (s.history = q.history \/ s.history = q.history \union {NzbOf[f]})
    BY DeleteQueueEntryFields
  <2> QED BY <2>1 DEF r
<1>2. /\ m \in Queues /\ m.marked = q.marked \union {f} /\ m.files = q.files
      /\ m.post = q.post /\ m.job = q.job /\ m.nzb = q.nzb
  BY DEF Queues
<1>3. r = IF f \in busy THEN m ELSE DeleteFileInfo(u, f)
  BY DEF DeleteQueueEntry
<1>4. f \in Group(q, n)
  BY DEF Group, Of
<1> HIDE DEF m
<1>5. u \in Queues /\ u.files = q.files /\ u.nzb = q.nzb /\ u.post = q.post /\ u.job = q.job
  BY <1>2, UpdateOfDeleted
<1>6. ASSUME Group(q, n) \subseteq {f}, q.nzb[n].deleted, ~q.nzb[n].parCleanup
      PROVE  n \in u.history \/ HasJob(q, n) \/ Orphan(q)
  <2>1. n \in Collections
    BY PostAssumption
  <2>2. Group(m, n) = Group(q, n)
    BY <1>2 DEF Group
  <2>3. /\ IsNZBFileCompleted(m, n, TRUE, FALSE, FALSE)
        /\ IsNZBFileCompleted(m, n, FALSE, FALSE, FALSE)
        /\ IsNZBFileCompleted(m, n, FALSE, FALSE, TRUE)
    BY <1>2, <1>6, <2>2, LastFile
  <2>4. u = (IF IsForParCheck(m, f) THEN m ELSE NZBDeleted(m, n))
    BY <1>2, <1>6, <2>3, Zenon DEF QueueCoordinatorUpdate
  <2>5. CASE IsForParCheck(m, f)
    BY <1>2, <2>5 DEF IsForParCheck, HasJob, Orphan
  <2>6. CASE ~IsForParCheck(m, f)
    <3>1. NZBDeleted(m, n).history = m.history \union {n}
      BY <1>2, <2>1, NZBDeletedFields
    <3> QED BY <2>4, <2>6, <3>1
  <2> QED BY <2>5, <2>6
<1> HIDE DEF u
<1>7. CASE f \in busy
  <2>1. r = m
    BY <1>3, <1>7
  <2> HIDE DEF r
  <2>2. Group(r, n) = Group(q, n)
    BY <1>2, <2>1 DEF Group
  <2> QED BY <1>1, <1>4, <2>2 DEF r
<1>8. CASE f \notin busy
  <2>1. r = DeleteFileInfo(u, f)
    BY <1>3, <1>8
  <2> HIDE DEF r
  <2>2. r.files = q.files \ {f} /\ r.history = u.history
    BY <1>5, <2>1, DeleteFileInfoFields
  <2>3. Group(r, n) = {} => Group(q, n) \subseteq {f}
    BY <2>2 DEF Group
  <2> QED BY <1>1, <1>6, <2>2, <2>3 DEF r
<1> QED BY <1>7, <1>8

\* A group is deleted file by file.  It is recorded with its last one; other collections keep
\* their files, and results are not touched.
LEMMA GroupDeleteRecords ==
    ASSUME NEW q \in Queues, NEW n \in Collections, PostQueue(q.post)
    PROVE  LET r == GroupDelete(q, n)
           IN  /\ SameResults(q, r) /\ q.history \subseteq r.history
               /\ \A m \in Collections \ {n} : Group(r, m) = Group(q, m)
               /\ ~q.nzb[n].parCleanup /\ Group(q, n) # {} /\ Group(r, n) = {}
                      => n \in r.history \/ HasJob(q, n) \/ Orphan(q)
<1> DEFINE p == [q EXCEPT !.nzb[n].deleted = TRUE, !.nzb[n].cleanupDisk = CanCleanupDisk(q, n)]
           nzb == [q.nzb EXCEPT ![n].deleted = TRUE, ![n].cleanupDisk = CanCleanupDisk(q, n)]
           files == SetToSeq(Group(q, n))
           r == GroupDelete(q, n)
<1>1. /\ p \in Queues /\ p.files = q.files /\ p.history = q.history
      /\ p.post = q.post /\ p.job = q.job
      /\ SameResults(q, p) /\ p.nzb[n].deleted
  <2>1. q.nzb \in [Collections -> NzbInfos] /\ CanCleanupDisk(q, n) \in BOOLEAN
    BY DEF Queues, CanCleanupDisk
  <2>2. /\ nzb \in [Collections -> NzbInfos] /\ nzb[n].deleted
        /\ \A m \in Collections : /\ nzb[m].par = q.nzb[m].par
                                  /\ nzb[m].script = q.nzb[m].script
                                  /\ nzb[m].parCleanup = q.nzb[m].parCleanup
    <3> DEFINE can == CanCleanupDisk(q, n)
               old == q.nzb
    <3>1. old \in [Collections -> NzbInfos] /\ can \in BOOLEAN
      BY <2>1
    <3> HIDE DEF can, old
    <3> DEFINE new == [old EXCEPT ![n].deleted = TRUE, ![n].cleanupDisk = can]
    <3>2. /\ new \in [Collections -> NzbInfos] /\ new[n].deleted
          /\ \A m \in Collections \ {n} : new[m] = old[m]
          /\ new[n].par = old[n].par /\ new[n].script = old[n].script
          /\ new[n].parCleanup = old[n].parCleanup
      BY <3>1 DEF NzbInfos
    <3> QED BY <3>2, Zenon DEF can, old
  <2>3. p = [q EXCEPT !.nzb = nzb]
    BY Zenon
  <2> HIDE DEF nzb, p
  <2> QED BY <2>2, <2>3 DEF Queues, SameResults
<1>2. files \in Seq(Group(q, n)) /\ Len(files) \in Nat
  <2>1. IsFiniteSet(Group(q, n))
    BY PostAssumption, FS_Subset DEF Group, Of
  <2> QED BY <2>1, SetToSeqIsSequence
<1>3. r = DeleteQueueEntries(p, files)
  BY DEF GroupDelete
<1>4. Group(q, n) \subseteq q.files /\ \A f \in Group(q, n) : f \in Files /\ NzbOf[f] = n
  BY DEF Group, Of
<1> HIDE DEF p, files, r
<1>5. PICK a : /\ r = a[Len(files)] /\ a[0] = p
               /\ \A k \in 1..Len(files) : a[k] = DeleteQueueEntry(a[k - 1], files[k])
  BY <1>2, <1>3, DeleteQueueEntriesSteps
<1> DEFINE Good(s) == /\ s \in Queues /\ s.nzb = p.nzb /\ s.post = q.post /\ s.job = q.job
                      /\ q.history \subseteq s.history
                      /\ \A m \in Collections \ {n} : Group(s, m) = Group(q, m)
                      /\ ~q.nzb[n].parCleanup /\ Group(q, n) # {} /\ Group(s, n) = {}
                             => n \in s.history \/ HasJob(q, n) \/ Orphan(q)
           S == {k \in Nat : k <= Len(files) => Good(a[k])}
<1>6. 0 \in S
  <2>1. \A m : Group(p, m) = Group(q, m)
    BY <1>1, SameGroups
  <2> QED BY <1>1, <1>2, <1>5, <2>1
<1>7. ASSUME NEW k \in Nat, k \in S PROVE k + 1 \in S
  <2>1. SUFFICES ASSUME k + 1 <= Len(files) PROVE Good(a[k + 1])
    OBVIOUS
  <2> DEFINE s == a[k]
             f == files[k + 1]
             t == a[k + 1]
  <2>2. Good(s)
    BY <1>2, <1>7, <2>1
  <2>3. k + 1 \in 1..Len(files) /\ (k + 1) - 1 = k
    BY <1>2, <2>1
  <2>4. t = DeleteQueueEntry(s, f)
    BY <1>5, <2>3
  <2>5. f \in Files /\ NzbOf[f] = n
    BY <1>2, <1>4, <2>3, ElementOfSeq
  <2> HIDE DEF s, f, t
  <2>6. /\ t \in Queues /\ t.post = s.post /\ t.job = s.job /\ t.nzb = s.nzb
        /\ t.files = s.files \/ t.files = s.files \ {f}
        /\ t.history = s.history \/ t.history = s.history \union {n}
    <3>1. LET d == DeleteQueueEntry(s, f)
          IN  /\ d \in Queues /\ d.post = s.post /\ d.job = s.job /\ d.nzb = s.nzb
              /\ d.files = s.files \/ d.files = s.files \ {f}
              /\ d.history = s.history \/ d.history = s.history \union {NzbOf[f]}
      BY <2>2, <2>5, DeleteQueueEntryFields
    <3> QED BY <2>4, <2>5, <3>1
  <2>7. \A m \in Collections \ {n} : Group(t, m) = Group(s, m)
    BY <2>5, <2>6 DEF Group, Of
  <2>8. ASSUME ~q.nzb[n].parCleanup, Group(q, n) # {}, Group(t, n) = {}
        PROVE  n \in t.history \/ HasJob(q, n) \/ Orphan(q)
    <3>1. CASE Group(s, n) = {}
      BY <2>2, <2>6, <2>8, <3>1
    <3>2. CASE Group(s, n) # {}
      <4>1. f \in s.files
        BY <2>6, <2>8, <3>2 DEF Group
      <4>2. s.nzb[n].deleted /\ ~s.nzb[n].parCleanup
        BY <1>1, <2>2, <2>8 DEF SameResults
      <4>3. PostQueue(s.post)
        BY <2>2
      <4>4. n \in t.history \/ HasJob(s, n) \/ Orphan(s)
        <5>1. LET d == DeleteQueueEntry(s, f)
              IN  s.nzb[NzbOf[f]].deleted /\ ~s.nzb[NzbOf[f]].parCleanup /\ Group(d, NzbOf[f]) = {}
                      => NzbOf[f] \in d.history \/ HasJob(s, NzbOf[f]) \/ Orphan(s)
          BY <2>2, <2>5, <4>1, <4>3, DeleteEntryRecords
        <5> QED BY <2>4, <2>5, <2>8, <4>2, <5>1
      <4> QED BY <2>2, <4>4 DEF HasJob, Orphan
    <3> QED BY <3>1, <3>2
  <2>9. Good(t)
    BY <2>2, <2>6, <2>7, <2>8
  <2> QED BY <2>9 DEF t
<1> HIDE DEF S
<1>8. Len(files) \in S
  BY <1>2, <1>6, <1>7, SetInduction
<1>9. Good(r)
  BY <1>2, <1>5, <1>8 DEF S
<1>10. SameResults(q, r)
  BY <1>1, <1>9 DEF SameResults
<1> QED BY <1>9, <1>10 DEF r

\* The completion of a job.  Its collection goes to the history, or there is something left
\* to download, or jobs of it wait in the queue; the result of its script is added, and its
\* par-files are discarded only if the results allow it.
LEMMA JobCompletedRecords ==
    ASSUME NEW q \in Queues, PostQueue(q.post), NEW id \in ToSet(q.post), q.job[id] \in Jobs
    PROVE  LET r == JobCompleted(q, id)
               n == q.job[id].nzb
           IN  /\ q.history \subseteq r.history
               /\ \A m \in Collections \ {n} :
                      /\ Group(r, m) = Group(q, m) /\ r.nzb[m].par = q.nzb[m].par
                      /\ r.nzb[m].script = q.nzb[m].script
                      /\ r.nzb[m].parCleanup = q.nzb[m].parCleanup
               /\ r.nzb[n].par = q.nzb[n].par
               /\ r.nzb[n].script = AddScriptStatus(q.job[id].script, q.nzb[n].script)
               /\ r.nzb[n].parCleanup /\ ~q.nzb[n].parCleanup => MayCleanUp(r.nzb[n])
               /\ \/ n \in r.history
                  \/ /\ Group(r, n) = Group(q, n)
                     /\ \/ ~IsNZBFileCompleted(r, n, TRUE, FALSE, FALSE)
                        \/ \E i \in 2..Len(q.post) : q.job[q.post[i]].nzb = n
<1> DEFINE n == q.job[id].nzb
           job1 == [q.job EXCEPT ![id].working = FALSE, ![id].stage = "finished"]
           nzb1 == [q.nzb EXCEPT ![n].script = AddScriptStatus(q.job[id].script, @)]
           q1 == [q EXCEPT !.job[id].working = FALSE, !.job[id].stage = "finished",
                           !.nzb[n].script = AddScriptStatus(q.job[id].script, @)]
           p1 == [q1 EXCEPT !.nzb[n].parCleanup = TRUE]
           clean == ParCleanupQueue /\ MayCleanUp(q1.nzb[n]) /\ Group(q1, n) # {}
           q2 == IF clean THEN GroupDelete(p1, n) ELSE q1
           q3 == IF IsNZBFileCompleted(q1, n, TRUE, TRUE, FALSE) THEN NZBCompleted(q2, n) ELSE q1
           r == JobCompleted(q, id)
<1>1. r = [q3 EXCEPT !.post = Erase(@, id),
                     !.job[id] = IF parRunning /\ id = parJob THEN @ ELSE {}]
  BY DEF JobCompleted
<1>2. id \in Ids /\ n \in Collections
  <2>1. id \in Ids
    BY DEF PostQueue, ToSet
  <2> QED BY <2>1 DEF Jobs
<1>3. /\ q1 \in Queues /\ q1.files = q.files /\ q1.paused = q.paused /\ q1.marked = q.marked
      /\ q1.history = q.history /\ q1.post = q.post
      /\ \A i \in Ids : q1.job[i].nzb = q.job[i].nzb
      /\ q1.nzb = nzb1
  <2>1. q.job \in [Ids -> Jobs \union {{}}] /\ q.nzb \in [Collections -> NzbInfos]
    BY DEF Queues
  <2>2. /\ job1[id] \in Jobs /\ job1[id].nzb = q.job[id].nzb
        /\ job1 \in [Ids -> Jobs \union {{}}] /\ \A i \in Ids \ {id} : job1[i] = q.job[i]
    BY <1>2, <2>1 DEF Jobs
  <2>3. nzb1 \in [Collections -> NzbInfos]
    <3>1. /\ q.job[id].script \in {"none", "unknown", "failure", "success"}
          /\ q.nzb[n].script \in {"none", "unknown", "failure", "success"}
      BY <1>2, <2>1 DEF Jobs, NzbInfos
    <3>2. AddScriptStatus(q.job[id].script, q.nzb[n].script)
              \in {"none", "unknown", "failure", "success"}
      BY <3>1 DEF AddScriptStatus
    <3> HIDE DEF n
    <3> QED BY <1>2, <2>1, <3>2 DEF NzbInfos
  <2>4. q1 = [q EXCEPT !.job = job1, !.nzb = nzb1]
    BY Zenon
  <2> HIDE DEF job1, nzb1, q1
  <2> QED BY <2>2, <2>3, <2>4 DEF Queues
<1>4. /\ \A m \in Collections \ {n} : nzb1[m] = q.nzb[m]
      /\ nzb1[n].par = q.nzb[n].par /\ nzb1[n].parCleanup = q.nzb[n].parCleanup
      /\ nzb1[n].script = AddScriptStatus(q.job[id].script, q.nzb[n].script)
      /\ nzb1 \in [Collections -> NzbInfos]
  <2>1. q.nzb \in [Collections -> NzbInfos] /\ nzb1 \in [Collections -> NzbInfos]
    BY <1>3 DEF Queues
  <2> HIDE DEF n
  <2> QED BY <1>2, <2>1 DEF NzbInfos
<1> HIDE DEF q1, nzb1, n
<1>5. /\ p1 \in Queues /\ p1.files = q1.files /\ p1.history = q1.history /\ p1.post = q1.post
      /\ \A m \in Collections \ {n} : p1.nzb[m] = nzb1[m]
      /\ p1.nzb[n].par = nzb1[n].par /\ p1.nzb[n].script = nzb1[n].script
  <2> DEFINE nzb2 == [q1.nzb EXCEPT ![n].parCleanup = TRUE]
  <2>1. q1.nzb \in [Collections -> NzbInfos] /\ q1.nzb = nzb1
    BY <1>3 DEF Queues
  <2>2. nzb2 \in [Collections -> NzbInfos]
    BY <2>1 DEF NzbInfos
  <2>3. /\ \A m \in Collections \ {n} : nzb2[m] = nzb1[m]
        /\ nzb2[n].par = nzb1[n].par /\ nzb2[n].script = nzb1[n].script
    BY <1>2, <2>1 DEF NzbInfos
  <2>4. p1 = [q1 EXCEPT !.nzb = nzb2]
    BY Zenon
  <2> HIDE DEF nzb2, p1
  <2> QED BY <1>3, <2>2, <2>3, <2>4 DEF Queues
<1> HIDE DEF p1
<1>6. /\ q2 \in Queues /\ q1.history \subseteq q2.history
      /\ \A m \in Collections \ {n} :
             /\ Group(q2, m) = Group(q1, m) /\ q2.nzb[m].par = nzb1[m].par
             /\ q2.nzb[m].script = nzb1[m].script /\ q2.nzb[m].parCleanup = nzb1[m].parCleanup
      /\ q2.nzb[n].par = nzb1[n].par /\ q2.nzb[n].script = nzb1[n].script
      /\ q2.nzb[n].parCleanup /\ ~nzb1[n].parCleanup => MayCleanUp(nzb1[n])
  <2>1. CASE clean
    <3> DEFINE g == GroupDelete(p1, n)
    <3>1. PostQueue(p1.post)
      BY <1>3, <1>5
    <3>2. /\ SameResults(p1, g) /\ p1.history \subseteq g.history
          /\ \A m \in Collections \ {n} : Group(g, m) = Group(p1, m)
      BY <1>2, <1>5, <3>1, GroupDeleteRecords
    <3>3. g \in Queues
      BY <1>2, <1>5, GroupDeleteFields
    <3>4. \A m : Group(p1, m) = Group(q1, m)
      BY <1>5, SameGroups
    <3>5. q2 = g /\ MayCleanUp(nzb1[n])
      BY <1>3, <2>1
    <3> HIDE DEF g, q2
    <3> QED BY <1>2, <1>5, <3>2, <3>3, <3>4, <3>5 DEF SameResults
  <2>2. CASE ~clean
    <3>1. q2 = q1
      BY <2>2
    <3> HIDE DEF q2
    <3> QED BY <1>3, <3>1
  <2> QED BY <2>1, <2>2
<1> HIDE DEF q2
<1>7. /\ q3 \in Queues /\ q1.history \subseteq q3.history
      /\ \A m \in Collections \ {n} :
             /\ Group(q3, m) = Group(q1, m) /\ q3.nzb[m].par = nzb1[m].par
             /\ q3.nzb[m].script = nzb1[m].script /\ q3.nzb[m].parCleanup = nzb1[m].parCleanup
      /\ q3.nzb[n].par = nzb1[n].par /\ q3.nzb[n].script = nzb1[n].script
      /\ q3.nzb[n].parCleanup /\ ~nzb1[n].parCleanup => MayCleanUp(nzb1[n])
      /\ n \in q3.history \/ (q3 = q1 /\ ~IsNZBFileCompleted(q1, n, TRUE, TRUE, FALSE))
  <2>1. CASE IsNZBFileCompleted(q1, n, TRUE, TRUE, FALSE)
    <3>1. q3 = NZBCompleted(q2, n)
      BY <2>1
    <3> HIDE DEF q3
    <3>2. /\ q3 \in Queues /\ q3.nzb = q2.nzb /\ q3.history = q2.history \union {n}
          /\ q3.files = q2.files \ (Group(q2, n) \ q2.marked)
      BY <1>2, <1>6, <3>1, NZBCompletedFields
    <3>3. \A m \in Collections \ {n} : Group(q3, m) = Group(q2, m)
      BY <3>2 DEF Group, Of
    <3> QED BY <1>6, <3>2, <3>3
  <2>2. CASE ~IsNZBFileCompleted(q1, n, TRUE, TRUE, FALSE)
    <3>1. q3 = q1
      BY <2>2
    <3> HIDE DEF q3
    <3> QED BY <1>3, <2>2, <3>1
  <2> QED BY <2>1, <2>2
<1> HIDE DEF q3
<1>8. /\ r.files = q3.files /\ r.paused = q3.paused /\ r.marked = q3.marked
      /\ r.history = q3.history /\ r.nzb = q3.nzb
  <2>1. \E post, job : r = [q3 EXCEPT !.post = post, !.job = job]
    <3> DEFINE last == [q3.job EXCEPT ![id] = IF parRunning /\ id = parJob THEN @ ELSE {}]
    <3>1. r = [q3 EXCEPT !.post = Erase(@, id), !.job = last]
      BY <1>1, Zenon
    <3> QED BY <3>1
  <2> HIDE DEF r
  <2> QED BY <1>7, <2>1 DEF Queues
<1> HIDE DEF r
<1>9. \A m : Group(r, m) = Group(q3, m)
  BY <1>8, SameGroups
<1>10. \A m : Group(q1, m) = Group(q, m)
  BY <1>3, SameGroups
<1>11. MayCleanUp(nzb1[n]) => MayCleanUp(r.nzb[n])
  BY <1>7, <1>8 DEF MayCleanUp
<1>12. \/ n \in r.history
       \/ /\ Group(r, n) = Group(q, n)
          /\ \/ ~IsNZBFileCompleted(r, n, TRUE, FALSE, FALSE)
             \/ \E i \in 2..Len(q.post) : q.job[q.post[i]].nzb = n
  <2>1. SUFFICES ASSUME q3 = q1, ~IsNZBFileCompleted(q1, n, TRUE, TRUE, FALSE),
                        IsNZBFileCompleted(r, n, TRUE, FALSE, FALSE)
                 PROVE  \E i \in 2..Len(q.post) : q.job[q.post[i]].nzb = n
    BY <1>7, <1>8, <1>9, <1>10
  <2>2. r.files = q1.files /\ r.paused = q1.paused /\ r.marked = q1.marked
    BY <1>8, <2>1
  <2>3. PICK i \in 2..Len(q.post) : q1.job[q.post[i]].nzb = n
    BY <1>3, <2>1, <2>2 DEF IsNZBFileCompleted, Group
  <2>4. q.post[i] \in Ids
    BY ElementOfSeq, LenProperties DEF PostQueue
  <2> QED BY <1>3, <2>3, <2>4
<1>13. \A m \in Collections \ {n} :
           /\ Group(r, m) = Group(q, m) /\ r.nzb[m].par = q.nzb[m].par
           /\ r.nzb[m].script = q.nzb[m].script /\ r.nzb[m].parCleanup = q.nzb[m].parCleanup
  BY <1>4, <1>7, <1>8, <1>9, <1>10
<1>14. /\ q.history \subseteq r.history /\ r.nzb[n].par = q.nzb[n].par
       /\ r.nzb[n].script = AddScriptStatus(q.job[id].script, q.nzb[n].script)
       /\ r.nzb[n].parCleanup /\ ~q.nzb[n].parCleanup => MayCleanUp(r.nzb[n])
  BY <1>3, <1>4, <1>7, <1>8, <1>11
<1> QED BY <1>12, <1>13, <1>14, Zenon DEF r, n

\* There is a last id.
LEMMA IdsAreFinite == IsFiniteSet(Ids)
BY PostAssumption, FS_Interval DEF Ids

\* If there are no new jobs, the queue stays as it is.
LEMMA NoNewJobs ==
    ASSUME NEW q \in Queues, NEW n \in Collections, NEW check \in BOOLEAN,
           NEW withScript \in BOOLEAN, NEW addTop \in BOOLEAN,
           PostQueue(q.post), NewJobs(q, n, withScript) = {}
    PROVE  CreatePostJobs(q, n, check, withScript, addTop).post = q.post
<1> DEFINE sets == SetToSeq(NewJobs(q, n, withScript))
           all == SetToSeq(Ids \ ToSet(q.post))
           ids == SubSeq(all, 1, Len(sets))
           r == CreatePostJobs(q, n, check, withScript, addTop)
<1>1. Len(sets) = 0
  BY FS_EmptySet, SetToSeqIsSequence
<1>2. all \in Seq(Ids \ ToSet(q.post)) /\ Len(all) \in Nat
  <2>1. IsFiniteSet(Ids \ ToSet(q.post))
    <3> HIDE DEF sets, all, ids, r
    <3> QED BY IdsAreFinite, FS_Subset
  <2> QED BY <2>1, SetToSeqIsSequence
<1>3. ids = <<>>
  <2> HIDE DEF all, sets
  <2>1. 1 \in 1..(Len(all) + 1) /\ 0 \in 0..Len(all) /\ 1 <= 0 + 1
    BY <1>2
  <2>2. /\ SubSeq(all, 1, 0) \in Seq(Ids \ ToSet(q.post))
        /\ Len(SubSeq(all, 1, 0)) = 0 - 1 + 1
    BY <1>2, <2>1, PartOf
  <2> QED BY <1>1, <2>2
<1>4. \E job : r = [q EXCEPT !.post = IF addTop THEN ids \o @ ELSE @ \o ids, !.job = job]
  BY Zenon DEF CreatePostJobs
<1> HIDE DEF r, ids
<1>5. r.post = IF addTop THEN ids \o q.post ELSE q.post \o ids
  BY <1>4 DEF Queues
<1>6. ids \o q.post = q.post /\ q.post \o ids = q.post
  BY <1>3 DEF PostQueue
<1> QED BY <1>5, <1>6 DEF r

\* What a script has asked for adds jobs of its collection, if any, before all others.
LEMMA RequestedRecords ==
    ASSUME JobsInv(dq), NEW id \in ToSet(dq.post),
           dq.job[id].request = "all" => RoomForJobs(dq, dq.job[id].nzb)
    PROVE  LET q == Requested(dq, id)
           IN  /\ q.files = dq.files /\ q.nzb = dq.nzb /\ q.history = dq.history
               /\ \A i \in ToSet(dq.post) : /\ i \in ToSet(q.post)
                                            /\ q.job[i].nzb = dq.job[i].nzb
                                            /\ q.job[i].script = dq.job[i].script
               /\ \/ q.post = dq.post
                  \/ \E i \in ToSet(q.post) \ ToSet(dq.post) : q.job[i].nzb = dq.job[id].nzb
<1> DEFINE j == dq.job[id]
           n == j.nzb
           q == Requested(dq, id)
           c == CreatePostJobs(dq, n, TRUE, FALSE, TRUE)
           job == [dq.job EXCEPT ![id].parCheck = TRUE, ![id].request = "none",
                                 ![id].stage = "queued"]
           e == [dq EXCEPT !.job[id].parCheck = TRUE, !.job[id].request = "none",
                           !.job[id].stage = "queued"]
<1>1. /\ id \in Ids /\ j \in Jobs /\ n \in Collections /\ dq \in Queues /\ PostQueue(dq.post)
      /\ dq.job \in [Ids -> Jobs \union {{}}] /\ ToSet(dq.post) \subseteq Ids
  BY ToSetIsIds DEF JobsInv, JobInv, Jobs, Queues
<1>2. CASE q = c /\ j.request = "all"
  <2>1. RoomForJobs(dq, n)
    BY <1>2
  <2> HIDE DEF q, n
  <2>2. \A ck, w, top \in BOOLEAN :
            LET s == CreatePostJobs(dq, n, ck, w, top)
            IN  /\ Grows(dq, s, n) /\ s.files = dq.files /\ s.nzb = dq.nzb
                /\ s.history = dq.history
                /\ NewJobs(dq, n, w) # {} => ToSet(s.post) # ToSet(dq.post)
                /\ NewJobs(dq, n, w) = {} => s.post = dq.post
    BY <1>1, <2>1, CreatePostJobsFields, NoNewJobs
  <2>3. /\ Grows(dq, c, n) /\ c.files = dq.files /\ c.nzb = dq.nzb
        /\ c.history = dq.history
        /\ NewJobs(dq, n, FALSE) # {} => ToSet(c.post) # ToSet(dq.post)
        /\ NewJobs(dq, n, FALSE) = {} => c.post = dq.post
    BY <2>2, Zenon
  <2> HIDE DEF c
  <2>4. c.post = dq.post \/ \E i \in ToSet(c.post) \ ToSet(dq.post) : c.job[i].nzb = n
    <3>1. SUFFICES ASSUME ToSet(c.post) # ToSet(dq.post)
                   PROVE  \E i \in ToSet(c.post) \ ToSet(dq.post) : c.job[i].nzb = n
      BY <2>3
    <3>2. PICK i \in ToSet(c.post) \ ToSet(dq.post) : IsNew(c.job[i], n)
      BY <2>3, <3>1 DEF Grows
    <3>3. c.job[i].nzb = n
      BY <3>2 DEF IsNew, NewJob
    <3> QED BY <3>2, <3>3
  <2>5. \A i \in ToSet(dq.post) : i \in ToSet(c.post) /\ c.job[i] = dq.job[i]
    BY <2>3 DEF Grows
  <2> QED BY <1>2, <2>3, <2>4, <2>5 DEF q, n
<1>3. CASE q = e
  <2>1. e = [dq EXCEPT !.job = job]
    BY Zenon
  <2>2. \A i \in Ids : /\ i # id => job[i] = dq.job[i]
                       /\ job[id].nzb = j.nzb /\ job[id].script = j.script
    BY <1>1 DEF Jobs
  <2> HIDE DEF job, e
  <2>3. /\ e.post = dq.post /\ e.job = job /\ e.files = dq.files /\ e.nzb = dq.nzb
        /\ e.history = dq.history
    BY <1>1, <2>1 DEF Queues
  <2> HIDE DEF q
  <2> QED BY <1>1, <1>3, <2>2, <2>3 DEF q
<1>4. CASE q = dq
  BY <1>4
<1>5. (q = c /\ j.request = "all") \/ q = e \/ q = dq
  BY Zenon DEF Requested
<1> QED BY <1>2, <1>3, <1>4, <1>5

-----------------------------------------------------------------------------
(* The invariant, and what a step records.                                  *)

\* The results that jobs of one kind had.
OfKind(o, kind) == {r \in {"unknown", "failure", "success", "possible"} : <<kind, r>> \in o}

\* The results of a collection sum up those of its jobs: it has none if they had none, and a
\* good one only if none of them failed.
Right(info, o) ==
    /\ info.par = "none" => OfKind(o, "par") = {}
    /\ info.par \in {"success", "possible"} => OfKind(o, "par") # {} /\ "failure" \notin OfKind(o, "par")
    /\ info.script = "none" => OfKind(o, "script") = {}
    /\ info.script = "success" => OfKind(o, "script") = {"success"}

Outcomes == {"par", "script"} \X {"unknown", "failure", "success", "possible"}

ResultsInv ==
    /\ outcomes \in [Collections -> SUBSET Outcomes]
    /\ \A n \in Collections : Right(dq.nzb[n], outcomes[n])

\* What the properties say of a step.
Processed ==
    \A n \in Collections :
        dq.post # <<>> /\ dq.job[Head(dq.post)].nzb = n /\ ~HasJob(dq', n) =>
        n \in dq'.history \/ ~IsNZBFileCompleted(dq', n, TRUE, FALSE, FALSE)

Deleted ==
    \A n \in Collections :
        dq.nzb[n].deleted /\ ~dq.nzb[n].parCleanup /\ Group(dq, n) # {} /\ Group(dq', n) = {}
            => n \in dq'.history \/ HasJob(dq', n) \/ Orphan(dq)

Cleaned ==
    \A n \in Collections : dq'.nzb[n].parCleanup /\ ~dq.nzb[n].parCleanup =>
        \/ OfKind(outcomes'[n], "par") # {} /\ "failure" \notin OfKind(outcomes'[n], "par")
        \/ OfKind(outcomes'[n], "script") = {"success"}

Recorded == Processed /\ Deleted /\ Cleaned /\ ResultsInv'

\* The jobs of the queue stay in it.
JobsStay == \A id \in ToSet(dq.post) : /\ id \in ToSet(dq'.post)
                                       /\ dq'.job[id].nzb = dq.job[id].nzb

\* A step in which no job leaves the queue and no job has a result.
LEMMA QuietStep ==
    ASSUME WorkInv, ResultsInv, JobsStay, SameResults(dq, dq'), outcomes' = outcomes, Deleted
    PROVE  Recorded
<1>1. Processed
  <2>1. dq.post # <<>> => Head(dq.post) \in ToSet(dq.post)
    BY HeadIsFirst DEF WorkInv, JobsInv
  <2> QED BY <2>1 DEF Processed, JobsStay, HasJob
<1>2. Cleaned
  BY DEF Cleaned, SameResults
<1>3. ResultsInv'
  <2>1. \A n \in Collections : Right(dq'.nzb[n], outcomes[n])
    BY DEF ResultsInv, Right, SameResults
  <2> QED BY <2>1 DEF ResultsInv
<1> QED BY <1>1, <1>2, <1>3 DEF Recorded

\* A step in which no file leaves the queue either.
LEMMA CalmStep ==
    ASSUME WorkInv, ResultsInv, JobsStay, dq'.nzb = dq.nzb, dq.files \subseteq dq'.files,
           outcomes' = outcomes
    PROVE  Recorded
<1>1. Deleted
  BY DEF Deleted, Group
<1>2. SameResults(dq, dq')
  BY DEF SameResults
<1> QED BY <1>1, <1>2, QuietStep

-----------------------------------------------------------------------------
(* The steps.                                                               *)

\* Steps that leave the queue as it is.
LEMMA IdleSteps ==
    ASSUME WorkInv, ResultsInv,
           \/ SetPauseDownload \/ ApplySchedulerState \/ UNCHANGED vars
           \/ \E f \in Files : StartDownload(f) \/ Interrupt(f)
           \/ \E t \in ParThreads : UnpauseAfterCheck(t)
    PROVE  Recorded
<1>1. dq' = dq /\ outcomes' = outcomes
  BY DEF SetPauseDownload, ApplySchedulerState, vars, StartDownload, Interrupt, UnpauseAfterCheck
<1>2. JobsStay
  BY <1>1 DEF JobsStay
<1> QED BY <1>1, <1>2, CalmStep

\* Steps that add files or move them between the lists, or move jobs.
LEMMA MovingSteps ==
    ASSUME WorkInv, ResultsInv,
           \/ \E n \in Collections : Add(n) \/ HistoryDelete(n) \/ CheckHistory(n)
           \/ \E t \in ParThreads : RequestMorePars(t)
           \/ \E from, to \in Ids : PostQueueMove(from, to)
    PROVE  Recorded
<1>1. dq \in Queues /\ PostQueue(dq.post)
  BY DEF WorkInv, JobsInv
<1>2. CASE \E n \in Collections : Add(n)
  <2>1. PICK n \in Collections : \E pars :
            dq' = [dq EXCEPT !.files = @ \union Of(n), !.paused = @ \union pars]
    BY <1>2 DEF Add
  <2>2. outcomes' = outcomes
    BY <1>2 DEF Add
  <2>3. /\ dq'.post = dq.post /\ dq'.job = dq.job /\ dq'.nzb = dq.nzb
        /\ dq.files \subseteq dq'.files
    BY <1>1, <2>1 DEF Queues
  <2>4. JobsStay
    BY <2>3 DEF JobsStay
  <2> QED BY <2>2, <2>3, <2>4, CalmStep
<1>3. CASE \/ \E n \in Collections : HistoryDelete(n) \/ CheckHistory(n)
           \/ \E t \in ParThreads : RequestMorePars(t)
  <2>1. /\ outcomes' = outcomes
        /\ \E parked, freed, history, paused :
               \/ dq' = [dq EXCEPT !.parked = parked, !.freed = freed, !.history = history]
               \/ dq' = [dq EXCEPT !.history = history]
               \/ dq' = [dq EXCEPT !.paused = paused]
    <3>1. CASE \E n \in Collections : HistoryDelete(n)
      <4>1. PICK n \in Collections : HistoryDelete(n)
        BY <3>1
      <4> DEFINE gone == dq.parked \intersect Of(n)
      <4>2. /\ dq' = [dq EXCEPT !.parked = dq.parked \ gone, !.freed = dq.freed \union gone,
                                 !.history = dq.history \ {n}]
            /\ outcomes' = outcomes
        BY <4>1 DEF HistoryDelete
      <4> QED BY <4>2, Zenon
    <3>2. CASE \E n \in Collections : CheckHistory(n)
      BY <3>2, Zenon DEF CheckHistory
    <3>3. CASE \E t \in ParThreads : RequestMorePars(t)
      BY <3>3, Zenon DEF RequestMorePars
    <3> QED BY <1>3, <3>1, <3>2, <3>3, Zenon
  <2>2. /\ dq'.post = dq.post /\ dq'.job = dq.job /\ dq'.nzb = dq.nzb /\ dq'.files = dq.files
    BY <1>1, <2>1 DEF Queues
  <2>3. JobsStay
    BY <2>2 DEF JobsStay
  <2> QED BY <2>1, <2>2, <2>3, CalmStep
<1>4. ASSUME NEW from \in Ids, NEW to \in Ids, PostQueueMove(from, to) PROVE Recorded
  <2> DEFINE post == InsertAt(RemoveAt(dq.post, from), to, dq.post[from])
  <2>1. /\ from \in DOMAIN dq.post /\ to \in DOMAIN dq.post \ {1, from}
        /\ dq' = [dq EXCEPT !.post = post] /\ outcomes' = outcomes
    BY <1>4 DEF PostQueueMove
  <2>2. ToSet(post) = ToSet(dq.post)
    BY <1>1, <2>1, MoveProperties
  <2> HIDE DEF post
  <2>3. dq'.post = post /\ dq'.job = dq.job /\ dq'.nzb = dq.nzb /\ dq'.files = dq.files
    BY <1>1, <2>1 DEF Queues
  <2>4. JobsStay
    BY <2>2, <2>3 DEF JobsStay
  <2> QED BY <2>1, <2>3, <2>4, CalmStep
<1> QED BY <1>2, <1>3, <1>4

\* Users edit files: with the last file of a deleted collection that is recorded.
LEMMA EditStep == ASSUME WorkInv, ResultsInv, EditFiles PROVE Recorded
<1>1. dq \in Queues /\ PostQueue(dq.post)
  BY DEF WorkInv, JobsInv
<1>2. dq'.post = dq.post /\ dq'.job = dq.job /\ outcomes' = outcomes
  BY EditFilesFields DEF EditFiles
<1>3. JobsStay
  BY <1>2 DEF JobsStay
<1>4. \A n : HasJob(dq', n) = HasJob(dq, n)
  BY <1>2 DEF HasJob
<1>5. ASSUME NEW f \in dq.files, dq' = DeleteQueueEntry(dq, f) PROVE Recorded
  <2>1. f \in Files
    BY <1>1 DEF Queues
  <2>2. dq'.nzb = dq.nzb /\ (dq'.files = dq.files \/ dq'.files = dq.files \ {f})
    BY <1>1, <1>5, <2>1, DeleteQueueEntryFields
  <2>3. dq.nzb[NzbOf[f]].deleted /\ ~dq.nzb[NzbOf[f]].parCleanup /\ Group(dq', NzbOf[f]) = {}
            => NzbOf[f] \in dq'.history \/ HasJob(dq, NzbOf[f]) \/ Orphan(dq)
    BY <1>1, <1>5, <2>1, DeleteEntryRecords
  <2>4. \A n : n # NzbOf[f] => Group(dq', n) = Group(dq, n)
    BY <2>2 DEF Group, Of
  <2>5. Deleted
    BY <1>4, <2>3, <2>4 DEF Deleted
  <2>6. SameResults(dq, dq')
    BY <2>2 DEF SameResults
  <2> QED BY <1>2, <1>3, <2>5, <2>6, QuietStep
<1>6. ASSUME NEW paused, dq' = [dq EXCEPT !.paused = paused] PROVE Recorded
  <2>1. dq'.nzb = dq.nzb /\ dq'.files = dq.files
    BY <1>1, <1>6 DEF Queues
  <2> QED BY <1>2, <1>3, <2>1, CalmStep
<1>7. ASSUME NEW n \in Collections, dq' = GroupDelete(dq, n) PROVE Recorded
  <2>1. /\ SameResults(dq, dq')
        /\ \A m \in Collections \ {n} : Group(dq', m) = Group(dq, m)
        /\ ~dq.nzb[n].parCleanup /\ Group(dq, n) # {} /\ Group(dq', n) = {}
               => n \in dq'.history \/ HasJob(dq, n) \/ Orphan(dq)
    BY <1>1, <1>7, GroupDeleteRecords
  <2>2. Deleted
    BY <1>4, <2>1 DEF Deleted
  <2> QED BY <1>2, <1>3, <2>1, <2>2, QuietStep
<1> QED BY <1>5, <1>6, <1>7 DEF EditFiles

\* Steps that change the record of a job, but neither its collection nor its place.
LEMMA OneRecordChanges ==
    ASSUME WorkInv, ResultsInv, NEW q \in Queues, NEW id \in Ids,
           NEW job, job \in [Ids -> Jobs \union {{}}],
           \A i \in ToSet(dq.post) : i \in ToSet(q.post) /\ q.job[i].nzb = dq.job[i].nzb,
           \A i \in ToSet(dq.post) : job[i].nzb = q.job[i].nzb,
           q.files = dq.files, q.nzb = dq.nzb,
           dq' = [q EXCEPT !.job = job], outcomes' = outcomes
    PROVE  Recorded
<1>1. dq'.post = q.post /\ dq'.job = job /\ dq'.files = q.files /\ dq'.nzb = q.nzb
  BY DEF Queues
<1>2. JobsStay
  BY <1>1 DEF JobsStay
<1> QED BY <1>1, <1>2, CalmStep

\* The script of a job ends, a job at work is told to stop, and the memory of a job that is
\* not in the queue changes.
LEMMA RecordSteps ==
    ASSUME WorkInv, ResultsInv,
           \/ \E id \in Ids : ScriptEnds(id)
           \/ \E id \in Ids : PostQueueDelete(id) /\ dq.job[id].working
           \/ JobMemoryReused
           \/ \E t \in ParThreads : ParThreadEnds(t)
    PROVE  Recorded
<1>1. /\ dq \in Queues /\ PostQueue(dq.post) /\ ToSet(dq.post) \subseteq Ids
      /\ dq.job \in [Ids -> Jobs \union {{}}]
      /\ \A i \in ToSet(dq.post) : dq.job[i] \in Jobs
  BY ToSetIsIds DEF WorkInv, JobsInv, JobInv, Queues
<1>2. ASSUME NEW id \in Ids, ScriptEnds(id) PROVE Recorded
  <2>1. PICK request \in {"none", "current", "all"}, r \in ScriptResults :
            /\ request # "none" => r = "success" /\ ~dq.job[id].parCheck
            /\ request = "all" => dq.job[id].last
            /\ request = "current" => dq.job[id].set # NoSet
            /\ dq' = [dq EXCEPT !.job[id].script = r, !.job[id].request = request,
                                !.job[id].last = FALSE,
                                !.job[id].stage = "finished", !.job[id].working = FALSE]
    BY <1>2, Zenon DEF ScriptEnds
  <2>2. id \in ToSet(dq.post) /\ outcomes' = outcomes
    BY <1>2, Zenon DEF ScriptEnds
  <2> DEFINE job == [dq.job EXCEPT ![id].script = r, ![id].request = request, ![id].last = FALSE,
                                   ![id].stage = "finished", ![id].working = FALSE]
             new == [dq.job[id] EXCEPT !.script = r, !.request = request, !.last = FALSE,
                                       !.stage = "finished", !.working = FALSE]
  <2>3. dq' = [dq EXCEPT !.job = job]
    BY <2>1, ZenonT(40)
  <2>4. job = [dq.job EXCEPT ![id] = new]
    BY <1>1
  <2>5. new \in Jobs /\ new.nzb = dq.job[id].nzb
    <3> DEFINE j == dq.job[id]
    <3>1. j \in Jobs /\ r \in {"none", "unknown", "failure", "success"}
      BY <1>1, <2>2, PostAssumption
    <3> HIDE DEF j
    <3>2. [j EXCEPT !.script = r, !.request = request, !.last = FALSE,
                    !.stage = "finished", !.working = FALSE] \in Jobs
      BY <3>1 DEF Jobs
    <3>3. [j EXCEPT !.script = r, !.request = request, !.last = FALSE,
                    !.stage = "finished", !.working = FALSE].nzb = j.nzb
      BY <3>1 DEF Jobs
    <3> QED BY <3>2, <3>3 DEF j
  <2> HIDE DEF new, job
  <2>6. /\ job \in [Ids -> Jobs \union {{}}]
        /\ \A i \in ToSet(dq.post) : job[i].nzb = dq.job[i].nzb
    BY <1>1, <2>4, <2>5
  <2> QED BY <1>1, <2>2, <2>3, <2>6, OneRecordChanges
<1>3. ASSUME NEW id \in Ids, PostQueueDelete(id), dq.job[id].working PROVE Recorded
  <2> DEFINE job == [dq.job EXCEPT ![id].deleted = TRUE]
  <2>1. id \in ToSet(dq.post) /\ outcomes' = outcomes /\ dq' = [dq EXCEPT !.job[id].deleted = TRUE]
    BY <1>3 DEF PostQueueDelete
  <2>2. dq' = [dq EXCEPT !.job = job]
    BY <2>1, Zenon
  <2>3. /\ job \in [Ids -> Jobs \union {{}}]
        /\ \A i \in ToSet(dq.post) : job[i].nzb = dq.job[i].nzb
    <3> DEFINE new == [dq.job[id] EXCEPT !.deleted = TRUE]
    <3>1. dq.job[id] \in Jobs
      BY <1>1, <2>1
    <3>2. new \in Jobs /\ new.nzb = dq.job[id].nzb
      BY <3>1 DEF Jobs
    <3>3. job = [dq.job EXCEPT ![id] = new]
      BY <1>1
    <3> HIDE DEF new, job
    <3> QED BY <1>1, <3>2, <3>3
  <2> HIDE DEF job
  <2> QED BY <1>1, <2>1, <2>2, <2>3, OneRecordChanges
<1>4. CASE JobMemoryReused
  <2>1. PICK n \in Collections, s \in ParSets :
            /\ parRunning /\ parJob \notin ToSet(dq.post)
            /\ dq' = [dq EXCEPT !.job[parJob].nzb = n, !.job[parJob].set = s]
            /\ outcomes' = outcomes
    BY <1>4 DEF JobMemoryReused
  <2> DEFINE job == [dq.job EXCEPT ![parJob].nzb = n, ![parJob].set = s]
  <2>2. dq' = [dq EXCEPT !.job = job]
    BY <2>1, Zenon
  <2>3. parJob \in Ids /\ dq.job[parJob] \in Jobs
    BY <2>1 DEF WorkInv, RunInv
  <2>4. /\ job \in [Ids -> Jobs \union {{}}]
        /\ \A i \in ToSet(dq.post) : job[i] = dq.job[i]
    <3> DEFINE new == [dq.job[parJob] EXCEPT !.nzb = n, !.set = s]
    <3>1. new \in Jobs
      BY <2>1, <2>3 DEF Jobs
    <3>2. job = [dq.job EXCEPT ![parJob] = new]
      BY <1>1, <2>3
    <3> HIDE DEF new, job
    <3> QED BY <1>1, <2>1, <2>3, <3>1, <3>2
  <2> HIDE DEF job
  <2> QED BY <1>1, <2>1, <2>2, <2>3, <2>4, OneRecordChanges
<1>5. ASSUME NEW t \in ParThreads, ParThreadEnds(t) PROVE Recorded
  <2> DEFINE job == [dq.job EXCEPT ![parJob] = IF parJob \in ToSet(dq.post) THEN @ ELSE {}]
  <2>1. outcomes' = outcomes
    BY <1>5 DEF ParThreadEnds
  <2>2. dq' = [dq EXCEPT !.job = job]
    BY <1>5, Zenon DEF ParThreadEnds
  <2>3. /\ job \in [Ids -> Jobs \union {{}}]
        /\ \A i \in ToSet(dq.post) : job[i] = dq.job[i]
    BY <1>1
  <2> HIDE DEF job
  <2>4. dq'.post = dq.post /\ dq'.job = job /\ dq'.files = dq.files /\ dq'.nzb = dq.nzb
    BY <1>1, <2>2 DEF Queues
  <2>5. JobsStay
    BY <2>3, <2>4 DEF JobsStay
  <2> QED BY <2>1, <2>4, <2>5, CalmStep
<1> QED BY <1>2, <1>3, <1>4, <1>5

\* A download ends.
LEMMA CompleteStep == ASSUME WorkInv, ResultsInv, NEW f \in Files, Complete(f) PROVE Recorded
<1> DEFINE n == NzbOf[f]
           done == f \notin dq.marked
           new == IF done THEN {f} ELSE {}
           q == [dq EXCEPT !.marked = @ \union {f}, !.disk = @ \union new]
           u == QueueCoordinatorUpdate(q, f, done)
<1>1. dq \in Queues /\ PostQueue(dq.post) /\ n \in Collections
  BY PostAssumption DEF WorkInv, JobsInv
<1>2. /\ q \in Queues /\ q.post = dq.post /\ q.job = dq.job /\ q.files = dq.files
      /\ q.marked = dq.marked \union {f} /\ q.nzb = dq.nzb
  BY <1>1 DEF Queues
<1>3. /\ dq' = DeleteFileInfo(u, f) /\ outcomes' = outcomes
      /\ ~q.nzb[n].postProcess \/ AllowReProcess => RoomForJobs(q, n)
  <2>1. ~dq.nzb[n].postProcess \/ AllowReProcess => RoomForJobs(q, n)
    BY Zenon DEF Complete
  <2>2. dq' = DeleteFileInfo(u, f) /\ outcomes' = outcomes
    BY Zenon DEF Complete
  <2> QED BY <1>2, <2>1, <2>2
<1>4. done \in BOOLEAN
  OBVIOUS
<1> HIDE DEF done, q, new, n
<1>5. /\ SameResults(q, u) /\ q.history \subseteq u.history
      /\ \A m \in Collections \ {n} : Group(u, m) = Group(q, m)
      /\ q.nzb[n].deleted /\ ~q.nzb[n].parCleanup /\ Group(u, n) \subseteq {f}
             => n \in u.history \/ HasJob(u, n) \/ Orphan(q)
  <2>1. \A d \in BOOLEAN :
            LET v == QueueCoordinatorUpdate(q, f, d)
            IN  /\ SameResults(q, v) /\ q.history \subseteq v.history
                /\ \A m \in Collections \ {n} : Group(v, m) = Group(q, m)
                /\ q.nzb[n].deleted /\ ~q.nzb[n].parCleanup /\ Group(v, n) \subseteq {f}
                       => n \in v.history \/ HasJob(v, n) \/ Orphan(q)
    BY <1>1, <1>2, <1>3, UpdateRecords DEF n
  <2> QED BY <1>4, <2>1, Zenon
<1>6. Grows(q, u, n)
  BY <1>1, <1>2, <1>3, <1>4, UpdateLists DEF n
<1> HIDE DEF u
<1>7. /\ dq'.post = u.post /\ dq'.job = u.job /\ dq'.nzb = u.nzb /\ dq'.history = u.history
      /\ dq'.files = u.files \ {f}
  BY <1>3, <1>6, DeleteFileInfoFields DEF Grows
<1>8. JobsStay
  BY <1>2, <1>6, <1>7 DEF JobsStay, Grows
<1>9. SameResults(dq, dq')
  BY <1>2, <1>5, <1>7 DEF SameResults
<1>10. Deleted
  <2>1. \A m : Group(q, m) = Group(dq, m)
    BY <1>2, SameGroups
  <2>2. \A m \in Collections \ {n} : Group(dq', m) = Group(u, m)
    BY <1>7 DEF Group, Of, n
  <2>3. Group(dq', n) = {} => Group(u, n) \subseteq {f}
    BY <1>7 DEF Group
  <2>4. HasJob(u, n) => HasJob(dq', n)
    BY <1>7 DEF HasJob
  <2>5. Orphan(q) => Orphan(dq)
    BY <1>2 DEF Orphan
  <2> QED BY <1>2, <1>5, <1>7, <2>1, <2>2, <2>3, <2>4, <2>5 DEF Deleted
<1> QED BY <1>3, <1>8, <1>9, <1>10, QuietStep

\* Parked files return, and the results of their collection are forgotten.
LEMMA ReturnStep ==
    ASSUME WorkInv, ResultsInv, NEW n \in Collections, NEW reprocess \in BOOLEAN,
           HistoryReturn(n, reprocess)
    PROVE  Recorded
<1> DEFINE back == dq.parked \intersect Of(n)
           info == [dq.nzb[n] EXCEPT !.postProcess = FALSE, !.par = "none",
                                     !.parCleanup = FALSE, !.script = "none"]
           nzb == [dq.nzb EXCEPT ![n] = info]
           q == [dq EXCEPT !.files = @ \union back, !.parked = @ \ back,
                           !.nzb[n] = [@ EXCEPT !.postProcess = FALSE, !.par = "none",
                                                !.parCleanup = FALSE, !.script = "none"]]
           r == [q EXCEPT !.history = @ \ {n}]
           d == NZBDownloaded(r, n)
<1>1. dq \in Queues /\ PostQueue(dq.post) /\ dq.nzb \in [Collections -> NzbInfos]
  BY DEF WorkInv, JobsInv, Queues
<1>2. info \in NzbInfos /\ info.par = "none" /\ info.script = "none" /\ ~info.parCleanup
  <2> DEFINE old == dq.nzb[n]
             new == [old EXCEPT !.postProcess = FALSE, !.par = "none",
                                !.parCleanup = FALSE, !.script = "none"]
  <2>1. old \in NzbInfos
    BY <1>1
  <2> HIDE DEF old
  <2>2. new \in NzbInfos /\ new.par = "none" /\ new.script = "none" /\ ~new.parCleanup
    BY <2>1 DEF NzbInfos
  <2> QED BY <2>2, Zenon DEF old
<1> HIDE DEF info
<1>3. /\ nzb \in [Collections -> NzbInfos] /\ nzb[n] = info
      /\ \A m \in Collections \ {n} : nzb[m] = dq.nzb[m]
  <2> DEFINE old == dq.nzb
             new == [old EXCEPT ![n] = info]
  <2>1. old \in [Collections -> NzbInfos]
    BY <1>1
  <2> HIDE DEF old
  <2>2. /\ new \in [Collections -> NzbInfos] /\ new[n] = info
        /\ \A m \in Collections \ {n} : new[m] = old[m]
    BY <1>2, <2>1
  <2> QED BY <2>2, Zenon DEF old
<1> HIDE DEF nzb
<1>4. /\ q \in Queues /\ q.nzb = nzb /\ q.files = dq.files \union back /\ q.post = dq.post
      /\ q.history = dq.history /\ q.disk = dq.disk /\ q.job = dq.job
  <2>1. q = [dq EXCEPT !.files = @ \union back, !.parked = @ \ back, !.nzb = nzb]
    BY Zenon DEF nzb, info
  <2>2. dq.files \union back \subseteq Files /\ dq.parked \ back \subseteq Files
    BY <1>1 DEF Queues
  <2> HIDE DEF q, back
  <2> QED BY <1>1, <1>3, <2>1, <2>2 DEF Queues
<1>5. /\ r \in Queues /\ r.nzb = q.nzb /\ r.files = q.files /\ r.post = q.post /\ r.disk = q.disk
      /\ r.job = q.job
  <2> HIDE DEF q
  <2> QED BY <1>4 DEF Queues
<1>6. /\ reprocess => RoomForJobs(q, n)
      /\ outcomes' = [outcomes EXCEPT ![n] = {}]
  BY DEF HistoryReturn
<1>7. dq' = q \/ dq' = r \/ (dq' = d /\ reprocess)
  <2>1. dq' = IF back = {} /\ ~reprocess THEN q
              ELSE IF reprocess THEN NZBDownloaded(r, n) ELSE r
    BY Zenon DEF HistoryReturn
  <2> HIDE DEF q, r, back
  <2> QED BY <2>1, Zenon
<1>8. RoomForJobs(q, n) => RoomForJobs(r, n)
  <2> HIDE DEF q, r
  <2> QED BY <1>4, <1>5 DEF RoomForJobs, NewJobs, FoundSets
<1> HIDE DEF q, r
<1>9. /\ \A m \in Collections : Group(dq, m) \subseteq Group(r, m)
      /\ \A m \in Collections : Group(dq, m) \subseteq Group(q, m)
  BY <1>4, <1>5 DEF Group
<1>10. /\ SameResults(r, dq')
       /\ \A m \in Collections \ {n} : Group(dq, m) \subseteq Group(dq', m)
       /\ n \in dq'.history \/ HasJob(dq', n) \/ Group(dq, n) \subseteq Group(dq', n)
  <2>1. CASE dq' = q
    BY <1>5, <1>9, <2>1 DEF SameResults
  <2>2. CASE dq' = r
    BY <1>9, <2>2 DEF SameResults
  <2>3. CASE dq' = d /\ reprocess
    <3>1. PostQueue(r.post) /\ RoomForJobs(r, n)
      BY <1>1, <1>4, <1>5, <1>6, <1>8, <2>3
    <3>2. /\ SameResults(r, d)
          /\ \A m \in Collections \ {n} : Group(d, m) = Group(r, m)
          /\ \/ n \in d.history
             \/ HasJob(d, n) /\ Group(d, n) = Group(r, n)
      BY <1>5, <3>1, DownloadedRecords
    <3> HIDE DEF d
    <3> QED BY <1>9, <2>3, <3>2
  <2> QED BY <1>7, <2>1, <2>2, <2>3
<1> HIDE DEF d
<1>11. Processed
  <2>1. Grows(dq, dq', n)
    BY HistoryReturnFields
  <2>2. dq.post # <<>> => Head(dq.post) \in ToSet(dq.post)
    BY <1>1, HeadIsFirst
  <2> QED BY <2>1, <2>2 DEF Processed, HasJob, Grows
<1>12. Deleted
  BY <1>10 DEF Deleted
<1>13. /\ dq'.nzb[n].par = "none" /\ dq'.nzb[n].script = "none" /\ ~dq'.nzb[n].parCleanup
       /\ \A m \in Collections \ {n} : /\ dq'.nzb[m].par = dq.nzb[m].par
                                       /\ dq'.nzb[m].script = dq.nzb[m].script
                                       /\ dq'.nzb[m].parCleanup = dq.nzb[m].parCleanup
  BY <1>2, <1>3, <1>4, <1>5, <1>10 DEF SameResults
<1>14. Cleaned
  BY <1>13 DEF Cleaned
<1>15. ResultsInv'
  <2>1. /\ outcomes' \in [Collections -> SUBSET Outcomes] /\ outcomes'[n] = {}
        /\ \A m \in Collections \ {n} : outcomes'[m] = outcomes[m]
    BY <1>6 DEF ResultsInv
  <2>2. \A m \in Collections \ {n} : Right(dq'.nzb[m], outcomes'[m])
    BY <1>13, <2>1 DEF ResultsInv, Right
  <2>3. Right(dq'.nzb[n], outcomes'[n])
    BY <1>13, <2>1 DEF Right, OfKind
  <2> QED BY <2>1, <2>2, <2>3 DEF ResultsInv
<1> QED BY <1>11, <1>12, <1>14, <1>15 DEF Recorded

-----------------------------------------------------------------------------
(* Steps with a result.                                                     *)

\* The result of a check is added to that of the collection.
LEMMA AddParResult ==
    ASSUME NEW info \in NzbInfos, NEW o, Right(info, o), NEW r \in {"failure", "success", "possible"},
           NEW new \in NzbInfos, new.par = AddParStatus(r, info.par), new.script = info.script
    PROVE  Right(new, o \union {<<"par", r>>})
<1> DEFINE p == o \union {<<"par", r>>}
<1>1. OfKind(p, "par") = OfKind(o, "par") \union {r} /\ OfKind(p, "script") = OfKind(o, "script")
  BY DEF OfKind
<1>2. /\ new.par # "none"
      /\ new.par \in {"success", "possible"} => r # "failure" /\ info.par # "failure"
  BY DEF AddParStatus
<1>3. info.par \in {"none", "failure", "success", "possible"}
  BY DEF NzbInfos
<1> HIDE DEF p
<1>4. new.par \in {"success", "possible"} => OfKind(p, "par") # {} /\ "failure" \notin OfKind(p, "par")
  BY <1>1, <1>2, <1>3 DEF Right
<1> QED BY <1>1, <1>2, <1>4 DEF Right, p

\* The result of a script is added to that of the collection.
LEMMA AddScriptResult ==
    ASSUME NEW info \in NzbInfos, NEW o, Right(info, o),
           NEW r \in {"none", "unknown", "failure", "success"},
           NEW new, new.script = AddScriptStatus(r, info.script), new.par = info.par
    PROVE  Right(new, IF r = "none" THEN o ELSE o \union {<<"script", r>>})
<1>1. info.script \in {"none", "unknown", "failure", "success"}
  BY DEF NzbInfos
<1>2. CASE r = "none"
  <2>1. new.script \in {"none", "success"} => new.script = info.script
    BY <1>1, <1>2 DEF AddScriptStatus
  <2> QED BY <1>2, <2>1 DEF Right
<1>3. CASE r # "none"
  <2> DEFINE p == o \union {<<"script", r>>}
  <2>1. OfKind(p, "script") = OfKind(o, "script") \union {r} /\ OfKind(p, "par") = OfKind(o, "par")
    BY <1>3 DEF OfKind
  <2>2. /\ new.script # "none"
        /\ new.script = "success" => r = "success" /\ info.script \in {"none", "success"}
    BY <1>1, <1>3 DEF AddScriptStatus
  <2> HIDE DEF p
  <2>3. new.script = "success" => OfKind(p, "script") = {"success"}
    BY <2>1, <2>2 DEF Right
  <2>4. Right(new, p)
    BY <2>1, <2>2, <2>3 DEF Right
  <2> QED BY <1>3, <2>4 DEF p
<1> QED BY <1>2, <1>3

\* The par-checker reports a result.
LEMMA ReportRecords ==
    ASSUME WorkInv, ResultsInv, NEW t \in ParThreads, ParCheckerUpdate(t)
    PROVE  Recorded
<1> DEFINE j == dq.job[parJob]
           n == j.nzb
<1>1. parThread[t] = "checking"
  BY DEF ParCheckerUpdate
<1>2. dq.post # <<>> /\ parJob = Head(dq.post)
  BY <1>1 DEF WorkInv, CheckInv
<1>3. parJob \in ToSet(dq.post) /\ parJob \in Ids /\ ToSet(dq.post) \subseteq Ids
  BY <1>2, HeadIsFirst, ToSetIsIds DEF WorkInv, JobsInv
<1>4. /\ j \in Jobs /\ dq \in Queues /\ dq.job \in [Ids -> Jobs \union {{}}]
      /\ n \in Collections /\ dq.nzb \in [Collections -> NzbInfos]
  BY <1>3 DEF WorkInv, JobsInv, JobInv, Queues, Jobs
<1>5. PICK r \in {"failure", "success", "possible"} :
          /\ dq' = [dq EXCEPT !.job[parJob].working = FALSE,
                              !.job[parJob].par = r,
                              !.job[parJob].stage =
                                  IF dq.job[parJob].deleted THEN "finished" ELSE "queued",
                              !.nzb[n].par = AddParStatus(r, @)]
          /\ outcomes' = [outcomes EXCEPT ![n] = @ \union {<<"par", r>>}]
  <2>1. PICK r \in {"failure", "success"} \union (IF ParRepair THEN {} ELSE {"possible"}) :
            /\ dq' = [dq EXCEPT !.job[parJob].working = FALSE,
                                !.job[parJob].par = r,
                                !.job[parJob].stage =
                                    IF dq.job[parJob].deleted THEN "finished" ELSE "queued",
                                !.nzb[n].par = AddParStatus(r, @)]
            /\ outcomes' = [outcomes EXCEPT ![n] = @ \union {<<"par", r>>}]
    BY Zenon DEF ParCheckerUpdate
  <2>2. r \in {"failure", "success", "possible"}
    OBVIOUS
  <2> QED BY <2>1, <2>2
<1> DEFINE stage == IF j.deleted THEN "finished" ELSE "queued"
           job == [dq.job EXCEPT ![parJob].working = FALSE, ![parJob].par = r,
                                 ![parJob].stage = stage]
           info == [dq.nzb[n] EXCEPT !.par = AddParStatus(r, @)]
           nzb == [dq.nzb EXCEPT ![n].par = AddParStatus(r, @)]
<1>6. dq' = [[dq EXCEPT !.job = job] EXCEPT !.nzb = nzb]
  BY <1>5, Zenon
<1>7. \A i \in ToSet(dq.post) : job[i].nzb = dq.job[i].nzb
  <2> HIDE DEF stage
  <2>1. job[parJob] = [j EXCEPT !.working = FALSE, !.par = r, !.stage = stage]
    BY <1>3, <1>4
  <2>2. job[parJob].nzb = j.nzb
    BY <1>4, <2>1 DEF Jobs
  <2>3. \A i \in ToSet(dq.post) : i # parJob => job[i] = dq.job[i]
    BY <1>3, <1>4
  <2> QED BY <2>2, <2>3
<1>8. info \in NzbInfos /\ info.par = AddParStatus(r, dq.nzb[n].par)
      /\ info.script = dq.nzb[n].script /\ info.parCleanup = dq.nzb[n].parCleanup
  <2> DEFINE old == dq.nzb[n]
             par == AddParStatus(r, old.par)
  <2>1. old \in NzbInfos
    BY <1>4
  <2> HIDE DEF old
  <2>2. par \in {"none", "failure", "success", "possible"}
    BY <2>1 DEF NzbInfos, AddParStatus
  <2>3. info = [old EXCEPT !.par = par]
    BY DEF old
  <2> HIDE DEF par, info
  <2>4. /\ info \in NzbInfos /\ info.par = par /\ info.script = old.script
        /\ info.parCleanup = old.parCleanup
    BY <2>1, <2>2, <2>3 DEF NzbInfos
  <2> QED BY <2>4 DEF old, par
<1>9. nzb[n] = info /\ \A m \in Collections \ {n} : nzb[m] = dq.nzb[m]
  BY <1>4
<1> HIDE DEF job, nzb, info, stage, n
<1>10. dq'.post = dq.post /\ dq'.job = job /\ dq'.files = dq.files /\ dq'.nzb = nzb
  BY <1>4, <1>6 DEF Queues
<1>11. Processed
  <2>1. HasJob(dq', dq.job[Head(dq.post)].nzb)
    BY <1>2, <1>3, <1>7, <1>10 DEF HasJob
  <2> QED BY <2>1 DEF Processed
<1>12. Deleted
  BY <1>10 DEF Deleted, Group
<1>13. Cleaned
  BY <1>8, <1>9, <1>10 DEF Cleaned
<1>14. ResultsInv'
  <2>1. /\ outcomes' \in [Collections -> SUBSET Outcomes]
        /\ outcomes'[n] = outcomes[n] \union {<<"par", r>>}
        /\ \A m \in Collections \ {n} : outcomes'[m] = outcomes[m]
    <3>1. <<"par", r>> \in Outcomes
      BY DEF Outcomes
    <3> QED BY <1>4, <1>5, <3>1 DEF ResultsInv
  <2>2. \A m \in Collections \ {n} : Right(dq'.nzb[m], outcomes'[m])
    BY <1>9, <1>10, <2>1 DEF ResultsInv
  <2>3. Right(dq'.nzb[n], outcomes'[n])
    <3>1. Right(dq.nzb[n], outcomes[n]) /\ dq.nzb[n] \in NzbInfos
      BY <1>4 DEF ResultsInv
    <3>2. Right(info, outcomes[n] \union {<<"par", r>>})
      BY <1>8, <3>1, AddParResult
    <3> QED BY <1>9, <1>10, <2>1, <3>2
  <2> QED BY <2>1, <2>2, <2>3 DEF ResultsInv
<1> QED BY <1>11, <1>12, <1>13, <1>14 DEF Recorded

\* A job is completed, after which jobs of its collection may have been added (q).
LEMMA CompletionRecords ==
    ASSUME WorkInv, ResultsInv, NEW q, JobsInv(q), NEW id \in ToSet(dq.post), id \in ToSet(q.post),
           q.files = dq.files, q.nzb = dq.nzb,
           \A i \in ToSet(dq.post) : i \in ToSet(q.post) /\ q.job[i].nzb = dq.job[i].nzb,
           \/ q.post = dq.post
           \/ \E i \in ToSet(q.post) \ ToSet(dq.post) : q.job[i].nzb = dq.job[id].nzb,
           dq' = JobCompleted(q, id), outcomes' = WithScript(q.job[id])
    PROVE  Recorded
<1> DEFINE j == q.job[id]
           n == j.nzb
<1>1. /\ q \in Queues /\ PostQueue(q.post) /\ j \in Jobs /\ n \in Collections
      /\ ToSet(q.post) \subseteq Ids
  BY ToSetIsIds DEF JobsInv, JobInv, Jobs
<1>2. /\ \A m \in Collections \ {n} :
             /\ Group(dq', m) = Group(q, m) /\ dq'.nzb[m].par = q.nzb[m].par
             /\ dq'.nzb[m].script = q.nzb[m].script
             /\ dq'.nzb[m].parCleanup = q.nzb[m].parCleanup
      /\ dq'.nzb[n].par = q.nzb[n].par
      /\ dq'.nzb[n].script = AddScriptStatus(j.script, q.nzb[n].script)
      /\ dq'.nzb[n].parCleanup /\ ~q.nzb[n].parCleanup => MayCleanUp(dq'.nzb[n])
      /\ \/ n \in dq'.history
         \/ /\ Group(dq', n) = Group(q, n)
            /\ \/ ~IsNZBFileCompleted(dq', n, TRUE, FALSE, FALSE)
               \/ \E i \in 2..Len(q.post) : q.job[q.post[i]].nzb = n
  BY <1>1, JobCompletedRecords
<1>3. dq'.post = Erase(q.post, id) /\ \A i \in Ids \ {id} : dq'.job[i] = q.job[i]
  BY <1>1, JobCompletedFields
<1>4. ToSet(dq'.post) = ToSet(q.post) \ {id}
  BY <1>1, <1>3, EraseProperties
<1>5. \A i \in ToSet(q.post) \ {id} : HasJob(dq', q.job[i].nzb)
  BY <1>1, <1>3, <1>4 DEF HasJob
<1>6. /\ \A m \in Collections : Group(q, m) = Group(dq, m)
      /\ n = dq.job[id].nzb
  BY SameGroups
<1> HIDE DEF j, n
<1>7. Processed
  <2> SUFFICES ASSUME NEW m \in Collections, dq.post # <<>>, dq.job[Head(dq.post)].nzb = m,
                      ~HasJob(dq', m)
               PROVE  m \in dq'.history \/ ~IsNZBFileCompleted(dq', m, TRUE, FALSE, FALSE)
    BY DEF Processed
  <2>1. /\ PostQueue(dq.post) /\ Head(dq.post) = dq.post[1] /\ 1 \in DOMAIN dq.post
        /\ Head(dq.post) \in ToSet(dq.post)
    BY HeadIsFirst DEF WorkInv, JobsInv
  <2>2. Head(dq.post) = id
    BY <1>5, <2>1
  <2>3. m = n
    BY <1>6, <2>2
  <2>4. q.post = dq.post
    <3>1. ~\E i \in ToSet(q.post) \ ToSet(dq.post) : q.job[i].nzb = n
      BY <1>5, <2>3
    <3> QED BY <1>6, <3>1
  <2>5. ~\E i \in 2..Len(q.post) : q.job[q.post[i]].nzb = n
    <3> SUFFICES ASSUME NEW i \in 2..Len(q.post), q.job[q.post[i]].nzb = n PROVE FALSE
      OBVIOUS
    <3>1. DOMAIN q.post = 1..Len(q.post) /\ Len(q.post) \in Nat
      BY <1>1, LenProperties DEF PostQueue
    <3>2. i \in DOMAIN q.post /\ i # 1
      BY <3>1
    <3>3. q.post[i] \in ToSet(q.post)
      BY <3>2 DEF ToSet
    <3>4. q.post[i] # id
      BY <1>1, <2>1, <2>2, <2>4, <3>2 DEF PostQueue, IsInjective
    <3> QED BY <1>5, <2>3, <3>3, <3>4
  <2> QED BY <1>2, <2>3, <2>5
<1>8. Deleted
  <2>1. \A m \in Collections \ {n} : Group(dq', m) = Group(dq, m)
    BY <1>2, <1>6
  <2>2. n \in dq'.history \/ Group(dq', n) = Group(dq, n)
    BY <1>1, <1>2, <1>6
  <2> QED BY <2>1, <2>2, Zenon DEF Deleted
<1>9. ResultsInv'
  <2>1. /\ outcomes' \in [Collections -> SUBSET Outcomes]
        /\ outcomes'[n] = IF j.script = "none" THEN outcomes[n]
                          ELSE outcomes[n] \union {<<"script", j.script>>}
        /\ \A m \in Collections \ {n} : outcomes'[m] = outcomes[m]
    <3>1. outcomes \in [Collections -> SUBSET Outcomes]
      BY DEF ResultsInv
    <3>2. CASE j.script = "none"
      BY <3>1, <3>2 DEF WithScript, j
    <3>3. CASE j.script # "none"
      <4>1. outcomes' = [outcomes EXCEPT ![n] = @ \union {<<"script", j.script>>}]
        BY <3>3 DEF WithScript, j, n
      <4>2. <<"script", j.script>> \in Outcomes
        BY <1>1, <3>3 DEF Jobs, Outcomes
      <4> QED BY <1>1, <3>1, <3>3, <4>1, <4>2
    <3> QED BY <3>2, <3>3
  <2>2. ASSUME NEW m \in Collections \ {n} PROVE Right(dq'.nzb[m], outcomes'[m])
    <3>1. Right(q.nzb[m], outcomes[m])
      BY DEF ResultsInv
    <3> DEFINE new == dq'.nzb[m]
               old == q.nzb[m]
    <3>2. new.par = old.par /\ new.script = old.script /\ outcomes'[m] = outcomes[m]
      BY <1>2, <2>1
    <3>3. Right(old, outcomes'[m])
      BY <3>1, <3>2
    <3> HIDE DEF new, old
    <3>4. Right(new, outcomes'[m])
      BY <3>2, <3>3 DEF Right
    <3> QED BY <3>4 DEF new
  <2>3. Right(dq'.nzb[n], outcomes'[n])
    <3>1. Right(q.nzb[n], outcomes[n]) /\ q.nzb[n] \in NzbInfos
      BY <1>1 DEF ResultsInv, Queues
    <3>2. j.script \in {"none", "unknown", "failure", "success"}
      BY <1>1 DEF Jobs
    <3> DEFINE old == q.nzb[n]
               new == dq'.nzb[n]
               o == outcomes[n]
    <3>3. new.par = old.par /\ new.script = AddScriptStatus(j.script, old.script)
      BY <1>2
    <3>4. old \in NzbInfos /\ Right(old, o)
      BY <3>1
    <3> HIDE DEF old, new, o
    <3>5. Right(new, IF j.script = "none" THEN o ELSE o \union {<<"script", j.script>>})
      BY <3>2, <3>3, <3>4, AddScriptResult
    <3> QED BY <2>1, <3>5, Zenon DEF new, o
  <2> QED BY <2>1, <2>2, <2>3 DEF ResultsInv
<1>10. Cleaned
  <2>1. Right(dq'.nzb[n], outcomes'[n])
    BY <1>1, <1>9 DEF ResultsInv
  <2>2. dq'.nzb[n].parCleanup /\ ~dq.nzb[n].parCleanup =>
            \/ OfKind(outcomes'[n], "par") # {} /\ "failure" \notin OfKind(outcomes'[n], "par")
            \/ OfKind(outcomes'[n], "script") = {"success"}
    BY <1>2, <2>1 DEF Right, MayCleanUp
  <2> QED BY <1>2, <2>2 DEF Cleaned
<1> QED BY <1>7, <1>8, <1>9, <1>10 DEF Recorded

\* A user deletes a job that waits.
LEMMA DeleteJobStep ==
    ASSUME WorkInv, ResultsInv, NEW id \in Ids, PostQueueDelete(id), ~dq.job[id].working
    PROVE  Recorded
<1>1. /\ id \in ToSet(dq.post) /\ dq' = JobCompleted(dq, id)
      /\ outcomes' = WithScript(dq.job[id])
  BY DEF PostQueueDelete
<1> QED BY <1>1, CompletionRecords DEF WorkInv

\* The main loop looks at the first job.
LEMMA LoopStep == ASSUME WorkInv, ResultsInv, CheckPostQueue PROVE Recorded
<1> DEFINE id == Head(dq.post)
           q == Requested(dq, id)
           j == q.job[id]
<1>1. /\ dq.post # <<>> /\ ~dq.job[id].working
      /\ dq.job[id].request = "all" => RoomForJobs(dq, dq.job[id].nzb)
  BY DEF CheckPostQueue
<1>2. \/ StartParJob(q, id) \/ StartScriptJob(q, id) \/ FinishJob(q, id)
      \/ dq' = q /\ outcomes' = outcomes
  BY DEF CheckPostQueue
<1>3. id \in ToSet(dq.post) /\ id \in Ids /\ PostQueue(dq.post)
  BY <1>1, HeadIsFirst DEF WorkInv, JobsInv
<1>4. Idle(dq)
  BY <1>1, FirstNotWorking DEF WorkInv
<1>5. JobsInv(q) /\ id \in ToSet(q.post)
  BY <1>1, <1>3, <1>4, RequestedKeepsWork DEF WorkInv
<1>6. /\ q.files = dq.files /\ q.nzb = dq.nzb
      /\ \A i \in ToSet(dq.post) : i \in ToSet(q.post) /\ q.job[i].nzb = dq.job[i].nzb
      /\ \/ q.post = dq.post
         \/ \E i \in ToSet(q.post) \ ToSet(dq.post) : q.job[i].nzb = dq.job[id].nzb
  BY <1>1, <1>3, RequestedRecords DEF WorkInv
<1> HIDE DEF q, id
<1>7. /\ q \in Queues /\ j \in Jobs /\ q.job \in [Ids -> Jobs \union {{}}]
      /\ ToSet(q.post) \subseteq Ids
  BY <1>5, ToSetIsIds DEF JobsInv, JobInv, Queues
<1> HIDE DEF j
<1>8. ASSUME NEW new \in Jobs, new.nzb = j.nzb, outcomes' = outcomes,
             dq' = [q EXCEPT !.job = [q.job EXCEPT ![id] = new]]
      PROVE  Recorded
  <2> DEFINE job == [q.job EXCEPT ![id] = new]
  <2>1. /\ job \in [Ids -> Jobs \union {{}}]
        /\ \A i \in ToSet(dq.post) : job[i].nzb = q.job[i].nzb
    BY <1>3, <1>6, <1>7, <1>8 DEF j
  <2>2. dq' = [q EXCEPT !.job = job]
    BY <1>8
  <2> HIDE DEF job
  <2> QED BY <1>3, <1>6, <1>7, <1>8, <2>1, <2>2, OneRecordChanges
<1>9. CASE StartParJob(q, id)
  <2> DEFINE new == [j EXCEPT !.working = TRUE]
  <2>1. dq' = [q EXCEPT !.job[id].working = TRUE] /\ outcomes' = outcomes
    BY <1>9 DEF StartParJob
  <2>2. dq' = [q EXCEPT !.job = [q.job EXCEPT ![id] = new]]
    BY <2>1, Zenon DEF j
  <2>3. new \in Jobs /\ new.nzb = j.nzb
    BY <1>7 DEF Jobs
  <2> HIDE DEF new
  <2> QED BY <1>8, <2>1, <2>2, <2>3
<1>10. CASE StartScriptJob(q, id) /\ ~PostScript
  <2> DEFINE new == [j EXCEPT !.stage = "finished"]
  <2>1. dq' = [q EXCEPT !.job[id].stage = "finished"] /\ outcomes' = outcomes
    BY <1>10 DEF StartScriptJob
  <2>2. dq' = [q EXCEPT !.job = [q.job EXCEPT ![id] = new]]
    BY <2>1, Zenon DEF j
  <2>3. new \in Jobs /\ new.nzb = j.nzb
    BY <1>7 DEF Jobs
  <2> HIDE DEF new
  <2> QED BY <1>8, <2>1, <2>2, <2>3
<1>11. CASE StartScriptJob(q, id) /\ PostScript
  <2> DEFINE last == IsNZBFileCompleted(q, q.job[id].nzb, TRUE, TRUE, FALSE)
             new == [j EXCEPT !.working = TRUE, !.stage = "script", !.last = last]
  <2>1. /\ dq' = [q EXCEPT !.job[id].working = TRUE, !.job[id].stage = "script",
                           !.job[id].last = last]
        /\ outcomes' = outcomes
    BY <1>11 DEF StartScriptJob
  <2>2. last \in BOOLEAN
    BY DEF IsNZBFileCompleted
  <2> HIDE DEF last
  <2>3. dq' = [q EXCEPT !.job = [q.job EXCEPT ![id] = new]]
    <3> DEFINE job == [q.job EXCEPT ![id].working = TRUE, ![id].stage = "script",
                                    ![id].last = last]
    <3>1. dq' = [q EXCEPT !.job = job]
      BY <2>1, Zenon
    <3>2. job = [q.job EXCEPT ![id] = new]
      BY <1>3, <1>7 DEF j
    <3> HIDE DEF job, new
    <3> QED BY <3>1, <3>2
  <2>4. new \in Jobs /\ new.nzb = j.nzb
    BY <1>7, <2>2 DEF Jobs
  <2> HIDE DEF new
  <2> QED BY <1>8, <2>1, <2>3, <2>4
<1>12. CASE FinishJob(q, id)
  <2>1. dq' = JobCompleted(q, id) /\ outcomes' = WithScript(q.job[id])
    BY <1>12 DEF FinishJob
  <2> QED BY <1>3, <1>5, <1>6, <2>1, CompletionRecords
<1>13. CASE dq' = q /\ outcomes' = outcomes
  <2>1. JobsStay
    BY <1>6, <1>13 DEF JobsStay
  <2> QED BY <1>6, <1>13, <2>1, CalmStep
<1> QED BY <1>2, <1>9, <1>10, <1>11, <1>12, <1>13

-----------------------------------------------------------------------------
(* The theorems.                                                            *)

\* Every step records what it should.
LEMMA NextRecorded == ASSUME WorkInv, ResultsInv, [Next]_vars PROVE Recorded
<1>1. CASE \/ SetPauseDownload \/ ApplySchedulerState \/ UNCHANGED vars
           \/ \E f \in Files : StartDownload(f) \/ Interrupt(f)
           \/ \E t \in ParThreads : UnpauseAfterCheck(t)
  BY <1>1, IdleSteps
<1>2. CASE \/ \E n \in Collections : Add(n) \/ HistoryDelete(n) \/ CheckHistory(n)
           \/ \E t \in ParThreads : RequestMorePars(t)
           \/ \E from, to \in Ids : PostQueueMove(from, to)
  BY <1>2, MovingSteps
<1>3. CASE EditFiles
  BY <1>3, EditStep
<1>4. CASE JobMemoryReused \/ (\E id \in Ids : ScriptEnds(id))
           \/ (\E t \in ParThreads : ParThreadEnds(t))
  BY <1>4, RecordSteps
<1>5. ASSUME NEW id \in Ids, PostQueueDelete(id) PROVE Recorded
  <2>1. CASE dq.job[id].working
    BY <1>5, <2>1, RecordSteps
  <2>2. CASE ~dq.job[id].working
    BY <1>5, <2>2, DeleteJobStep
  <2> QED BY <2>1, <2>2
<1>6. CASE \E f \in Files : Complete(f)
  BY <1>6, CompleteStep
<1>7. CASE \E n \in Collections, reprocess \in BOOLEAN : HistoryReturn(n, reprocess)
  BY <1>7, ReturnStep
<1>8. CASE \E t \in ParThreads : ParCheckerUpdate(t)
  BY <1>8, ReportRecords
<1>9. CASE CheckPostQueue
  BY <1>9, LoopStep
<1> QED BY <1>1, <1>2, <1>3, <1>4, <1>5, <1>6, <1>7, <1>8, <1>9, Zenon DEF Next

\* There are no results at the start.
LEMMA InitResults == Init => ResultsInv
<1> SUFFICES ASSUME Init PROVE ResultsInv
  OBVIOUS
<1>1. outcomes = [n \in Collections |-> {}] /\ dq.nzb = [n \in Collections |-> NewNzb]
  BY DEF Init
<1> QED BY <1>1 DEF ResultsInv, Right, OfKind, NewNzb

\* The results that are recorded of a collection are those of its jobs, and every step of
\* the post-processor records what it should.
THEOREM StepsAreRecorded == ASSUME NoMoveFirst PROVE Spec => [](WorkInv /\ ResultsInv) /\ [][Recorded]_vars
<1>1. Init => ResultsInv
  BY InitResults
<1>2. WorkInv /\ ResultsInv /\ [Next]_vars => ResultsInv' /\ Recorded
  BY NextRecorded DEF Recorded
<1> QED BY <1>1, <1>2, WorkInvariant, PTL DEF Spec

\* When the last job of a collection leaves the post-queue, the collection goes to the
\* history, unless something is left to download.
THEOREM JobsAreRecorded == ASSUME NoMoveFirst PROVE Spec => ProcessedIsRecorded
<1>1. Recorded => Processed
  BY DEF Recorded
<1> QED BY <1>1, StepsAreRecorded, PTL DEF ProcessedIsRecorded, Processed

\* When the last file of a deleted collection leaves the queue, that is not forgotten.
THEOREM DeletionsAreRecorded == ASSUME NoMoveFirst PROVE Spec => DeletedIsRecorded
<1>1. Recorded => \A n \in Collections :
          dq.nzb[n].deleted /\ ~dq.nzb[n].parCleanup /\ Group(dq, n) # {} /\ Group(dq', n) = {}
              => \/ n \in dq'.history \/ HasJob(dq', n)
                 \/ parRunning /\ parJob \notin ToSet(dq.post)
  BY DEF Recorded, Deleted, Orphan
<1> QED BY <1>1, StepsAreRecorded, PTL DEF DeletedIsRecorded

\* Par-files are discarded only by results that were really reached.
THEOREM CleanupIsJustified == ASSUME NoMoveFirst PROVE Spec => CleansUpOnlyIfGood
<1>1. Recorded => Cleaned
  BY DEF Recorded
<1> QED BY <1>1, StepsAreRecorded, PTL DEF CleansUpOnlyIfGood, Cleaned, OfKind
=============================================================================
