-------------------------- MODULE QueueCoordinator --------------------------
(***************************************************************************)
(* QueueCoordinator.cpp: the download queue, the coordinator thread that   *)
(* starts article downloads, the downloader threads as far as the queue    *)
(* can see them, and the requests other threads make of the queue.         *)
(*                                                                         *)
(* An action is one critical section of m_mutexDownloadQueue, or one step  *)
(* a thread makes outside of it.  Connections are borrowed from the pool   *)
(* through its contract (ConnectionPool), which ServerPool implements.     *)
(***************************************************************************)
EXTENDS Naturals, Integers, Sequences, FiniteSets

CONSTANTS
    Files,            \* FileInfo objects
    ArticleCount,     \* ArticleCount[f]: number of articles of f
    Priority,         \* Priority[f]
    Nzbs,             \* nzb-files that can be added to the queue
    FilesOf,          \* FilesOf[n]: the files of nzb n, in order
    Downloaders,      \* ArticleDownloader objects (and their threads)
    Coordinator,      \* the coordinator thread
    Conns, NoConn,    \* level-0 connections of the pool; NULL
    ThreadLimit,      \* option ThreadLimit, less the threads that are not downloaders
    DupeCheck,        \* option DupeCheck
    DiskFails,        \* the output file may fail to be created (DirectWrite)
    ContinuePartial,  \* option ContinuePartial
    TerminateTimeout, \* option TerminateTimeout; 0 disables the watchdog
    NoArticle         \* a downloader object that does not exist has no article

ArticlesOf(f) == {f} \X (1..ArticleCount[f])
Articles == UNION {ArticlesOf(f) : f \in Files}
FileOf(a) == a[1]
Users == Downloaders \union {Coordinator}
SeqElements(s) == {s[i] : i \in DOMAIN s}

ASSUME QueueAssumption ==
    /\ IsFiniteSet(Files) /\ IsFiniteSet(Downloaders) /\ IsFiniteSet(Conns)
    /\ ArticleCount \in [Files -> Nat \ {0}]
    /\ Priority \in [Files -> Int]
    /\ FilesOf \in [Nzbs -> Seq(Files)]
    /\ Coordinator \notin Downloaders
    /\ NoConn \notin Conns
    /\ NoArticle \notin Articles
    /\ ThreadLimit \in Nat \ {0}
    /\ TerminateTimeout \in Nat
    /\ {DupeCheck, DiskFails, ContinuePartial} \subseteq BOOLEAN

\* Two nzb-files never share a FileInfo and list each of theirs once.
ASSUME FilesOfAssumption ==
    /\ \A n, m \in Nzbs : \A i \in DOMAIN FilesOf[n], j \in DOMAIN FilesOf[m] :
           FilesOf[n][i] = FilesOf[m][j] => n = m /\ i = j

VARIABLES
    queue,       \* m_DownloadQueue: the FileQueue, a sequence of files
    added,       \* nzb-files loaded or added so far
    paused,      \* files with FileInfo.m_bPaused
    deleted,     \* files with FileInfo.m_bDeleted
    confirmed,   \* files with FileInfo.m_bFilenameConfirmed
    completed,   \* FileInfo.m_iCompleted
    activeCount, \* FileInfo.m_iActiveDownloads
    status,      \* ArticleInfo.m_eStatus
    leftLocked,  \* files whose m_mutexOutputFile a download has left locked
    announced,   \* the last aspect the observers were notified of for a file
    active,      \* m_ActiveDownloads
    pc,          \* where each thread is
    art,         \* the article a downloader was created for
    halted,      \* downloaders with m_bStopped
    conn,        \* the connection a thread has borrowed
    hasMoreJobs, \* m_bHasMoreJobs
    stop,        \* progress of QueueCoordinator::Stop
    pause        \* options PauseDownload || PauseDownload2

fileVars == <<queue, added, paused, deleted, confirmed, completed, activeCount,
              leftLocked, announced>>
vars == <<queue, added, paused, deleted, confirmed, completed, activeCount, leftLocked,
          status, announced, active, pc, art, halted, conn, hasMoreJobs, stop, pause>>

Queued == SeqElements(queue)
Stopping == stop # "no"
DownloadersOf(f) == {d \in active : FileOf(art[d]) = f}

DownloaderStates == {"none", "created", "running", "decoding",
                     "finished", "failed", "retry", "joining", "leaving"}
CoordinatorStates == {"load", "top", "got", "sleep", "waiting", "exited"}

TypeOK ==
    /\ queue \in Seq(Files)
    /\ added \subseteq Nzbs
    /\ paused \subseteq Files
    /\ deleted \subseteq Files
    /\ confirmed \subseteq Files
    /\ completed \in [Files -> Nat]
    /\ activeCount \in [Files -> Nat]
    /\ leftLocked \subseteq Files
    /\ status \in [Articles -> {"undefined", "running", "finished", "failed"}]
    /\ announced \in [Files -> {"none", "completed", "deleted"}]
    /\ active \subseteq Downloaders
    /\ pc \in [Users -> DownloaderStates \union CoordinatorStates]
    /\ pc[Coordinator] \in CoordinatorStates
    /\ \A d \in Downloaders : pc[d] \in DownloaderStates
    /\ art \in [Downloaders -> Articles \union {NoArticle}]
    /\ halted \subseteq Downloaders
    /\ conn \in [Users -> Conns \union {NoConn}]
    /\ hasMoreJobs \in BOOLEAN
    /\ stop \in {"no", "flagged", "notified"}
    /\ pause \in BOOLEAN

Pool == INSTANCE ConnectionPool

Init ==
    /\ queue = <<>>
    /\ added = {} /\ paused = {} /\ deleted = {} /\ confirmed = {}
    /\ completed = [f \in Files |-> 0]
    /\ activeCount = [f \in Files |-> 0]
    /\ leftLocked = {}
    /\ status = [a \in Articles |-> "undefined"]
    /\ announced = [f \in Files |-> "none"]
    /\ active = {}
    /\ pc = [u \in Users |-> IF u = Coordinator THEN "load" ELSE "none"]
    /\ art = [d \in Downloaders |-> NoArticle]
    /\ halted = {}
    /\ Pool!Init
    /\ hasMoreJobs = TRUE
    /\ stop = "no"
    /\ pause = FALSE

Goto(u, label) == pc' = [pc EXCEPT ![u] = label]

-----------------------------------------------------------------------------
(* Requests to the queue, made by other threads under the queue mutex.     *)

IndexOf(s, e) == CHOOSE i \in DOMAIN s : s[i] = e

\* The files of an nzb-file that survive the duplicate check, in their order:
\* adding at the front pushes twice and so does not reverse them.
Surviving(n, dupes) ==
    LET survivors == SeqElements(FilesOf[n]) \ dupes
    IN  {s \in [1..Cardinality(survivors) -> survivors] :
            \A i, j \in DOMAIN s :
                i < j => IndexOf(FilesOf[n], s[i]) < IndexOf(FilesOf[n], s[j])}

AddNZBFileToQueue(n, dupes, addFirst) ==
    /\ n \notin added
    /\ dupes \subseteq SeqElements(FilesOf[n])
    /\ ~DupeCheck => dupes = {}
    /\ added' = added \union {n}
    /\ \E files \in Surviving(n, dupes) :
           queue' = IF addFirst THEN files \o queue ELSE queue \o files
    /\ UNCHANGED <<paused, deleted, confirmed, completed, activeCount, leftLocked, announced>>
    /\ UNCHANGED <<status, active, pc, art, halted, conn, hasMoreJobs, stop, pause>>

\* QueueEditor::PauseUnpauseEntry
PauseUnpauseEntry(f) ==
    /\ f \in Queued
    /\ paused' = IF f \in paused THEN paused \ {f} ELSE paused \union {f}
    /\ UNCHANGED <<queue, added, deleted, confirmed, completed, activeCount, leftLocked, announced>>
    /\ UNCHANGED <<status, active, pc, art, halted, conn, hasMoreJobs, stop, pause>>

Erase(s, e) == SubSeq(s, 1, IndexOf(s, e) - 1) \o SubSeq(s, IndexOf(s, e) + 1, Len(s))

\* Notify the observers, then DeleteFileInfo: the entry leaves the queue and
\* its FileInfo is freed.
DeleteFileInfo(f, aspect) ==
    /\ announced' = [announced EXCEPT ![f] = aspect]
    /\ queue' = Erase(queue, f)

\* The entry is freed at once unless articles of it are being downloaded; then
\* the last of these downloads frees it.
DeleteQueueEntry(f) ==
    /\ f \in Queued
    /\ deleted' = deleted \union {f}
    /\ halted' = halted \union DownloadersOf(f)
    /\ IF DownloadersOf(f) = {}
       THEN DeleteFileInfo(f, "deleted")
       ELSE UNCHANGED <<queue, announced>>
    /\ UNCHANGED <<added, paused, confirmed, completed, activeCount, leftLocked>>
    /\ UNCHANGED <<status, active, pc, art, conn, hasMoreJobs, stop, pause>>

SetPauseDownload ==
    /\ pause' = ~pause
    /\ UNCHANGED <<fileVars, status, active, pc, art, halted, conn, hasMoreJobs, stop>>

\* QueueCoordinator::Stop raises its flag before it takes the mutex ...
StopFlag ==
    /\ stop = "no"
    /\ stop' = "flagged"
    /\ UNCHANGED <<fileVars, status, active, pc, art, halted, conn, hasMoreJobs, pause>>

\* ... and stops the downloads that are active when it has it.
StopDownloads ==
    /\ stop = "flagged"
    /\ stop' = "notified"
    /\ halted' = halted \union active
    /\ UNCHANGED <<fileVars, status, active, pc, art, conn, hasMoreJobs, pause>>

-----------------------------------------------------------------------------
(* The coordinator thread: QueueCoordinator::Run.                          *)

\* The queue saved by an earlier session, if there is one, is loaded first.
LoadDownloadQueue(fs) ==
    /\ pc[Coordinator] = "load"
    /\ queue' = queue \o fs
    /\ Goto(Coordinator, "top")
    /\ UNCHANGED <<paused, deleted, confirmed, completed, activeCount, leftLocked, announced>>
    /\ UNCHANGED <<status, active, art, halted, conn, hasMoreJobs, stop, pause>>

Load ==
    \/ LoadDownloadQueue(<<>>) /\ UNCHANGED added
    \/ \E n \in Nzbs \ added :
           LoadDownloadQueue(FilesOf[n]) /\ added' = added \union {n}

\* mutant: pausing is looked at before stopping
LoopTopPausedFirst ==
    /\ pc[Coordinator] = "top"
    /\ \/ /\ pause \/ (~Stopping /\ Pool!FreeConns = {})
          /\ Goto(Coordinator, "sleep")
          /\ UNCHANGED conn
       \/ /\ Stopping /\ ~pause
          /\ Goto(Coordinator, "waiting")
          /\ UNCHANGED conn
       \/ /\ ~Stopping /\ ~pause
          /\ \E c \in Conns : Pool!Lend(Coordinator, c)
          /\ Goto(Coordinator, "got")
    /\ UNCHANGED <<fileVars, status, active, art, halted, hasMoreJobs, stop, pause>>

\* The connection is taken before the queue is locked.
LoopTop ==
    /\ pc[Coordinator] = "top"
    /\ \/ /\ Stopping
          /\ Goto(Coordinator, "waiting")
          /\ UNCHANGED conn
       \/ /\ ~Stopping
          /\ pause \/ Pool!FreeConns = {}
          /\ Goto(Coordinator, "sleep")
          /\ UNCHANGED conn
       \/ /\ ~Stopping /\ ~pause
          /\ \E c \in Conns : Pool!Lend(Coordinator, c)
          /\ Goto(Coordinator, "got")
    /\ UNCHANGED <<fileVars, status, active, art, halted, hasMoreJobs, stop, pause>>

\* A file GetNextArticle can take an article from.
Ready(f) ==
    /\ f \notin paused
    /\ f \notin deleted
    /\ \E a \in ArticlesOf(f) : status[a] = "undefined"

HasMoreArticles == \E i \in DOMAIN queue : Ready(queue[i])

\* GetNextArticle: of the ready files with the highest priority the first in
\* the queue; of this file the first article nobody has taken yet.
NextArticle(a) ==
    \E i \in DOMAIN queue :
        /\ Ready(queue[i])
        /\ \A j \in DOMAIN queue : Ready(queue[j]) =>
               \/ Priority[queue[j]] < Priority[queue[i]]
               \/ Priority[queue[j]] = Priority[queue[i]] /\ i <= j
        /\ a \in ArticlesOf(queue[i])
        /\ status[a] = "undefined"
        /\ \A b \in ArticlesOf(queue[i]) : status[b] = "undefined" => a[2] <= b[2]

\* A thread counts itself once it runs: one that was just created does not
\* count yet, one whose download is over still does.
ThreadCount == Cardinality({d \in Downloaders : pc[d] \notin {"none", "created"}})

\* mutant: the coordinator keeps the connection as well
StartKeepingConnection(d, a) ==
    /\ pc[d] = "none"
    /\ status' = [status EXCEPT ![a] = "running"]
    /\ activeCount' = [activeCount EXCEPT ![FileOf(a)] = @ + 1]
    /\ active' = active \union {d}
    /\ art' = [art EXCEPT ![d] = a]
    /\ conn' = [conn EXCEPT ![d] = conn[Coordinator]]
    /\ pc' = [pc EXCEPT ![Coordinator] = "sleep", ![d] = "created"]

\* A new downloader for article a takes over the coordinator's connection.
StartArticleDownload(d, a) ==
    /\ pc[d] = "none"
    /\ status' = [status EXCEPT ![a] = "running"]
    /\ activeCount' = [activeCount EXCEPT ![FileOf(a)] = @ + 1]
    /\ active' = active \union {d}
    /\ art' = [art EXCEPT ![d] = a]
    /\ conn' = [conn EXCEPT ![Coordinator] = NoConn, ![d] = conn[Coordinator]]
    /\ pc' = [pc EXCEPT ![Coordinator] = "sleep", ![d] = "created"]

\* mutant: a stop request is not looked at again under the mutex
MayStartUnstopped == HasMoreArticles /\ ThreadCount < ThreadLimit

MayStart == HasMoreArticles /\ ~Stopping /\ ThreadCount < ThreadLimit

MoreJobs == HasMoreArticles \/ active # {}

\* The locked section of the loop: start the next article or put the
\* connection back.
StartNext ==
    /\ pc[Coordinator] = "got"
    /\ hasMoreJobs' = MoreJobs
    /\ \/ /\ MayStart
          /\ \E d \in Downloaders, a \in Articles :
                 NextArticle(a) /\ StartArticleDownload(d, a)
       \/ /\ ~MayStart
          /\ Pool!Return(Coordinator)
          /\ Goto(Coordinator, "sleep")
          /\ UNCHANGED <<status, activeCount, active, art>>
    /\ UNCHANGED <<queue, added, paused, deleted, confirmed, completed, leftLocked, announced>>
    /\ UNCHANGED <<halted, stop, pause>>

Wake ==
    /\ pc[Coordinator] = "sleep"
    /\ Goto(Coordinator, "top")
    /\ UNCHANGED <<fileVars, status, active, art, halted, conn, hasMoreJobs, stop, pause>>

\* mutant: the article stays marked as running
ResetHangingForgotten(d) ==
    /\ TerminateTimeout > 0
    /\ pc[Coordinator] \in {"sleep", "waiting"}
    /\ d \in active /\ pc[d] = "running"
    /\ active' = active \ {d}
    /\ activeCount' = [activeCount EXCEPT ![FileOf(art[d])] = @ - 1]
    /\ conn' = [conn EXCEPT ![d] = NoConn]
    /\ pc' = [pc EXCEPT ![d] = "none"]
    /\ art' = [art EXCEPT ![d] = NoArticle]
    /\ halted' = halted \ {d}
    /\ UNCHANGED <<queue, added, paused, deleted, confirmed, completed, leftLocked, announced>>
    /\ UNCHANGED <<status, hasMoreJobs, stop, pause>>

\* ResetHangingDownloads, one round of its loop: the thread of a download that
\* has shown no activity is cancelled and its connection freed (Terminate); its
\* article is free to be downloaded again.  The file is left as it is, and so is
\* its output mutex, which the thread may have locked.
ResetHangingDownload(d) ==
    /\ TerminateTimeout > 0
    /\ pc[Coordinator] \in {"sleep", "waiting"}
    /\ d \in active /\ pc[d] = "running"
    /\ status' = [status EXCEPT ![art[d]] = "undefined"]
    /\ active' = active \ {d}
    /\ activeCount' = [activeCount EXCEPT ![FileOf(art[d])] = @ - 1]
    /\ conn' = [conn EXCEPT ![d] = NoConn]
    /\ pc' = [pc EXCEPT ![d] = "none"]
    /\ art' = [art EXCEPT ![d] = NoArticle]
    /\ halted' = halted \ {d}
    /\ leftLocked' \in {leftLocked, leftLocked \union {FileOf(art[d])}}
    /\ UNCHANGED <<queue, added, paused, deleted, confirmed, completed, announced>>
    /\ UNCHANGED <<hasMoreJobs, stop, pause>>

WaitForDownloads ==
    /\ pc[Coordinator] = "waiting"
    /\ active = {}
    /\ Goto(Coordinator, "exited")
    /\ UNCHANGED <<fileVars, status, active, art, halted, conn, hasMoreJobs, stop, pause>>

-----------------------------------------------------------------------------
(* A downloader thread: what ArticleDownloader::Run does to the state it   *)
(* shares with the coordinator.  Its retries are counted elsewhere; here it *)
(* may go on or give up after any attempt.                                 *)

\* With ContinuePartial an article that an earlier session has downloaded is
\* reported at once, and the connection is released only after that.
BeginDownload(d) ==
    /\ pc[d] = "created"
    /\ \/ Goto(d, "running")
       \/ ContinuePartial /\ Goto(d, "finished")
    /\ UNCHANGED <<fileVars, status, active, art, halted, conn, hasMoreJobs, stop, pause>>

AtWork(d) == pc[d] \in {"running", "decoding"}

\* A downloader that has released its connection polls the pool for another.
AcquireConnection(d) ==
    /\ AtWork(d)
    /\ d \notin halted
    /\ \E c \in Conns : Pool!Lend(d, c)
    /\ UNCHANGED <<fileVars, status, active, pc, art, halted, hasMoreJobs, stop, pause>>

\* The article could not be had from this server: the connection is released
\* before the next attempt.  (After a connect error it is kept.)
ReleaseAndRetry(d) ==
    /\ AtWork(d)
    /\ Pool!Return(d)
    /\ UNCHANGED <<fileVars, status, active, pc, art, halted, hasMoreJobs, stop, pause>>

\* The article is read to its end: the connection is released, then the
\* article is decoded.  If that fails, the next attempt is made in this status.
FetchArticle(d) ==
    /\ AtWork(d)
    /\ d \notin halted
    /\ Pool!Return(d)
    /\ Goto(d, "decoding")
    /\ UNCHANGED <<fileVars, status, active, art, halted, hasMoreJobs, stop, pause>>

\* PrepareFile has returned with the output mutex of the file locked: the file
\* is a duplicate, so that its article counts as finished, or the output file
\* could not be created, and the article has failed.
LeavesMutexLocked(d, outcome) ==
    /\ FileOf(art[d]) \notin leftLocked
    /\ IF outcome = "finished" THEN DupeCheck ELSE DiskFails
    /\ leftLocked' = leftLocked \union {FileOf(art[d])}

\* The loop of Run is left with the outcome that is then reported: a stopped
\* download has failed, one that finds downloads paused asks to be retried,
\* even if the article has just been decoded.  The article of a duplicate is
\* given up with its body unread.  A connection still held is freed.
FinishDownload(d, outcome) ==
    /\ AtWork(d)
    /\ \/ LeavesMutexLocked(d, outcome)
       \/ /\ outcome = "finished" => pc[d] = "decoding"
          /\ UNCHANGED leftLocked
    /\ outcome = "retry" => pause
    /\ Goto(d, outcome)
    /\ conn' = [conn EXCEPT ![d] = NoConn]
    /\ UNCHANGED <<queue, added, paused, deleted, confirmed, completed, activeCount, announced>>
    /\ UNCHANGED <<status, active, art, halted, hasMoreJobs, stop, pause>>

\* mutant: an article to be retried stays marked as running
ArticleOutcomeKept(outcome) == IF outcome = "retry" THEN "running" ELSE outcome

ArticleOutcome(outcome) == IF outcome = "retry" THEN "undefined" ELSE outcome

\* The end of ArticleCompleted: the download leaves m_ActiveDownloads.
RemoveDownload(d) ==
    /\ active' = active \ {d}
    /\ activeCount' = [activeCount EXCEPT ![FileOf(art[d])] = @ - 1]
    /\ Goto(d, "leaving")

\* mutant: a deleted file is freed although other downloads of it are active
LastDownloadIgnored(d) == TRUE

\* mutant: nobody frees a deleted file after its last download
LastDownloadMissed(d) == FALSE

LastDownload(d) == DownloadersOf(FileOf(art[d])) = {d}

\* mutant: an article to be retried counts as completed
CountsRetries(d) == TRUE

Counts(d) == pc[d] # "retry"

\* SetStatus(final status) -> Update -> ArticleCompleted, up to the point where
\* it releases the mutex.  "dupe": this article names the file, and a file of
\* this name exists already, so that the file is deleted from the queue.
ArticleCompleted(d, named, dupe) ==
    LET f == FileOf(art[d])
        confirms == named /\ f \notin confirmed /\ pc[d] = "finished"
        nowDeleted == IF dupe THEN deleted \union {f} ELSE deleted
        complete == Counts(d) /\ ~dupe /\ completed[f] + 1 = ArticleCount[f]
        join == complete /\ ~Stopping /\ f \notin nowDeleted
    IN  /\ pc[d] \in {"finished", "failed", "retry"}
        /\ dupe => confirms /\ DupeCheck
        /\ status' = [status EXCEPT ![art[d]] = ArticleOutcome(pc[d])]
        /\ completed' = IF Counts(d) THEN [completed EXCEPT ![f] = @ + 1] ELSE completed
        /\ confirmed' = IF confirms THEN confirmed \union {f} ELSE confirmed
        /\ deleted' = nowDeleted
        /\ halted' = IF dupe THEN halted \union DownloadersOf(f) ELSE halted
        /\ IF join
           THEN /\ Goto(d, "joining")
                /\ UNCHANGED <<queue, announced, active, activeCount>>
           ELSE /\ RemoveDownload(d)
                /\ IF f \in nowDeleted /\ LastDownload(d)
                   THEN DeleteFileInfo(f, "deleted")
                   ELSE UNCHANGED <<queue, announced>>
        /\ UNCHANGED <<added, paused, leftLocked, art, conn, hasMoreJobs, stop, pause>>

\* mutant: a deletion that was asked for during the join is overlooked
JoinedAspectStale(f) == "completed"

\* Whether the file was deleted meanwhile is looked at again after the join.
JoinedAspect(f) == IF f \in deleted THEN "deleted" ELSE "completed"

\* CompleteFileParts runs without the mutex; the file leaves the queue when
\* ArticleCompleted has it again.
FileJoined(d) ==
    LET f == FileOf(art[d])
    IN  /\ pc[d] = "joining"
        /\ RemoveDownload(d)
        /\ deleted' = deleted \union {f}
        /\ DeleteFileInfo(f, JoinedAspect(f))
        /\ UNCHANGED <<added, paused, confirmed, completed, leftLocked, status, art>>
        /\ UNCHANGED <<halted, conn, hasMoreJobs, stop, pause>>

\* The connection of an article that was skipped (ContinuePartial).
ReleaseSkipped(d) ==
    /\ pc[d] = "leaving"
    /\ Pool!Return(d)
    /\ UNCHANGED <<fileVars, status, active, pc, art, halted, hasMoreJobs, stop, pause>>

\* mutant: the thread does not care for its connection
ExitThreadHolding(d) ==
    /\ pc[d] = "leaving"
    /\ Goto(d, "none")
    /\ art' = [art EXCEPT ![d] = NoArticle]
    /\ halted' = halted \ {d}
    /\ UNCHANGED <<fileVars, status, active, conn, hasMoreJobs, stop, pause>>

\* thread_handler: the object is destroyed and the thread no longer counts.
ExitThread(d) ==
    /\ pc[d] = "leaving"
    /\ conn[d] = NoConn
    /\ Goto(d, "none")
    /\ art' = [art EXCEPT ![d] = NoArticle]
    /\ halted' = halted \ {d}
    /\ UNCHANGED <<fileVars, status, active, conn, hasMoreJobs, stop, pause>>

-----------------------------------------------------------------------------
Next ==
    \/ \E n \in Nzbs, addFirst \in BOOLEAN :
           \E dupes \in SUBSET SeqElements(FilesOf[n]) :
               AddNZBFileToQueue(n, dupes, addFirst)
    \/ \E f \in Files : PauseUnpauseEntry(f) \/ DeleteQueueEntry(f)
    \/ SetPauseDownload
    \/ StopFlag
    \/ StopDownloads
    \/ Load
    \/ LoopTop
    \/ StartNext
    \/ Wake
    \/ WaitForDownloads
    \/ \E d \in Downloaders :
           \/ ResetHangingDownload(d)
           \/ BeginDownload(d)
           \/ AcquireConnection(d)
           \/ ReleaseAndRetry(d)
           \/ FetchArticle(d)
           \/ \E outcome \in {"finished", "failed", "retry"} : FinishDownload(d, outcome)
           \/ \E named, dupe \in BOOLEAN : ArticleCompleted(d, named, dupe)
           \/ FileJoined(d)
           \/ ReleaseSkipped(d)
           \/ ExitThread(d)

Spec == Init /\ [][Next]_vars

\* A download at work that may be at the output mutex, which it locks with its
\* connection in hand: if somebody has left it locked, it waits for ever.
Waits(d) == AtWork(d) /\ conn[d] # NoConn /\ FileOf(art[d]) \in leftLocked

(* The coordinator's loop never stops by itself.  A downloader polls for a  *)
(* connection until it gets one, and ends some day if it is stopped or gets *)
(* connections now and then, but only if it does not wait for an output     *)
(* mutex that is left locked.  (ArticleDownloader shows this of its threads *)
(* where nobody leaves the mutex locked: CancelledDownloadsEnd,             *)
(* DownloadsEnd; and what becomes of them where somebody does.)  Requests   *)
(* of other threads may never come, but a Stop that has begun is carried    *)
(* through.                                                                 *)
CoordinatorStep == Load \/ LoopTop \/ StartNext \/ Wake \/ WaitForDownloads

Ends(d) ==
    /\ ~Waits(d)
    /\ conn[d] # NoConn \/ d \in halted
    /\ FinishDownload(d, "finished") \/ FinishDownload(d, "failed")

AsksForRetry(d) == ~Waits(d) /\ FinishDownload(d, "retry")

Reports(d) == \E named, dupe \in BOOLEAN : ArticleCompleted(d, named, dupe)

\* The steps of a downloader thread that wait for nothing but the queue mutex.
GoesOn(d) ==
    BeginDownload(d) \/ Reports(d) \/ FileJoined(d) \/ ReleaseSkipped(d) \/ ExitThread(d)

Fairness ==
    /\ WF_vars(StopDownloads)
    /\ WF_vars(CoordinatorStep)
    /\ \A d \in Downloaders :
           /\ WF_vars(GoesOn(d))
           /\ SF_vars(AcquireConnection(d))
           /\ SF_vars(Ends(d))
           /\ WF_vars(AsksForRetry(d))

FairSpec == Spec /\ Fairness

-----------------------------------------------------------------------------
(* Safety.                                                                 *)

Working(d) == pc[d] \in {"created", "running", "decoding", "finished", "failed", "retry"}

\* An article is marked as running exactly while one active download is at work
\* on it, and never two: no article is downloaded twice at a time, and none
\* stays marked with nobody to finish it.
RunningIffDownloaded ==
    \A a \in Articles : status[a] = "running" <=>
        \E d \in active : /\ Working(d) /\ art[d] = a
                          /\ \A e \in active : art[e] = a => e = d

\* A download that is still to report works on a file that is in the queue: its
\* FileInfo has not been freed by a deletion, by another download of the file or
\* by the completion of the file.
NoDanglingFile ==
    \A d \in active : FileOf(art[d]) \in Queued

Done(f) == {a \in ArticlesOf(f) : status[a] \in {"finished", "failed"}}

\* FileInfo.m_iCompleted and m_iActiveDownloads count what they stand for.
CountersAgree ==
    \A f \in Files :
        /\ completed[f] = Cardinality(Done(f))
        /\ activeCount[f] = Cardinality(DownloadersOf(f))

\* A file is joined only after every article of it has been downloaded or given
\* up, by one download only, and with no other download of the file left that
\* could still write to it.
JoinsAlone ==
    \A d \in active : pc[d] = "joining" =>
        /\ Done(FileOf(art[d])) = ArticlesOf(FileOf(art[d]))
        /\ DownloadersOf(FileOf(art[d])) = {d}

\* Once Stop has been through the active downloads, no download is active that
\* was not told to stop, and none that was started later escapes it.
StopReachesAllDownloads == stop = "notified" => active \subseteq halted

\* The coordinator leaves only when no download will notify it any more.
ExitsAfterDownloads == pc[Coordinator] = "exited" => active = {}

\* The main loop of a standalone run ends the program when hasMoreJobs is false:
\* no download is ever active then.
NoJobsNoDownloads == ~hasMoreJobs => active = {}

\* A deleted file that is still in the queue has an active download, that is,
\* somebody who is going to free it.
DeletedFileHasDownload ==
    \A f \in deleted \cap Queued : DownloadersOf(f) # {}

\* The limit of threads can be overshot, since a created thread does not count
\* itself before it runs; but each of these holds a connection, which bounds
\* the overshoot.
ThreadsBounded ==
    Cardinality({d \in Downloaders : pc[d] # "none"})
        < ThreadLimit + Cardinality(Conns)

\* Connections are borrowed and returned as the pool expects it.
UsesPoolCorrectly == Pool!Spec

\* The downloads do nothing that ArticleDownloader does not promise.
Downloading == INSTANCE Downloads WITH
                   phase <- [d \in Downloaders |-> pc[d]],
                   holding <- {d \in Downloaders : conn[d] # NoConn},
                   Watchdog <- TerminateTimeout > 0

DownloadersKeepContract == Downloading!Spec

\* A file leaves the queue announced as completed, with every article of it
\* processed, or announced as deleted after somebody deleted it, and
\* nothing is announced for it again.
LeavesQueueAnnounced ==
    [][\A f \in Files :
          /\ f \in Queued /\ f \notin Queued' =>
                \/ announced'[f] = "completed" /\ f \notin deleted
                   /\ Done(f) = ArticlesOf(f)
                \/ announced'[f] = "deleted" /\ f \in deleted'
          /\ announced[f] # "none" => announced'[f] = announced[f] /\ f \notin Queued']_vars

-----------------------------------------------------------------------------
(* Liveness.                                                               *)

\* Stop ends the coordinator thread, however the downloads retry, share their
\* connection, or ask for it: only a download that waits for ever at an output
\* mutex, deaf to its stop, can keep it.
StopEndsCoordinator ==
    stop = "flagged" ~> \/ pc[Coordinator] = "exited"
                        \/ [](\E d \in active : Waits(d))

\* A deleted entry leaves the queue, unless a download of it waits for ever at
\* the output mutex of the file.
DeletedFilesLeave ==
    \A f \in Files :
        f \in deleted ~> \/ f \notin Queued
                        \/ [](\E d \in DownloadersOf(f) : Waits(d))

\* A file that is not paused leaves the queue, unless downloads are paused, the
\* program is stopped, or a download waits at an output mutex with a connection.
FilesAreDownloaded ==
    \A f \in Files :
        ~<>[](/\ f \in Queued \ paused /\ ~pause /\ ~Stopping
              /\ \A d \in active : ~Waits(d))

=============================================================================
