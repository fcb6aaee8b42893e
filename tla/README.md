# A TLA+ model of nzbm / NZBGet

nzbm is an Android application around NZBGet, a Usenet downloader written in C++
(`src/jni/nzbget`). The application starts NZBGet in a thread of its own and talks
to it through JNI and through NZBGet's web interface. This directory holds TLA+
modules that model the core of NZBGet, TLC configurations that check them on small
instances, and theorems about them that TLAPS proves for instances of any size.

File names without a directory are those of `src/jni/nzbget`.

## 1. The system

### Components

| component | state | operations | what makes it hard |
|---|---|---|---|
| Server pool (`ServerPool.cpp`) | connections, which are in use, free connections per level | `GetConnection`, `FreeConnection`, `CloseUnusedConnections` | the counts are kept apart from the in-use marks; called by every download at any time |
| Queue coordinator (`QueueCoordinator.cpp`) | the queue of files, the states of articles, active downloads, counters per file | add, delete and pause files, choose and start articles, take reports, join files, stop, terminate hanging downloads | reports, deletions, stop and watchdog interleave; a mutex given up in the middle of `ArticleCompleted` |
| Article downloader (`ArticleDownloader.cpp`) | status, connection, retries, level, output file | `Run`, `Download`, `PrepareFile`, `DecodeCheck`, `Stop`, `Terminate` | retries over levels, the output file shared by the downloads of a file, cancellation anywhere |
| Threads (`Thread.cpp`) | running threads, their count | `Start`, `Stop`, `Kill` | a thread counts itself only once it runs; on Android `Kill` does not end it |
| Queue data (`DownloadInfo.*`) | `FileInfo`, `ArticleInfo`, `NZBInfo`, `PostInfo`, `UrlInfo`, `HistoryInfo` | accessors, statistics | reference counting of `NZBInfo`, lists that share entries |
| Queue editor (`QueueEditor.cpp`) | none of its own | move, pause, delete, merge, group operations on ids | order of a list of moves; ids that are gone by now |
| Pre- and post-processor (`PrePostProcessor.cpp`) | post-queue, history, parked files | reacts to completed and deleted files, par-check, scripts, history | is called by the queue while downloads go on; hands files between lists |
| Par-checker (`ParChecker.cpp`) | stage, par-files that came in | verify, request more par-blocks, wait for them, repair | a wake-up flag set and reset by different threads |
| Disk state (`DiskState.cpp`) | the file `queue` and one file per entry | save, load, discard | crashes between and inside saves; what is saved is counted differently from what is written |
| Url coordinator (`UrlCoordinator.cpp`, `WebDownloader.cpp`) | url queue, active downloads | download an nzb-file and add it to the queue | redirects, retries, a crash before the collection is added |
| Scanner (`Scanner.cpp`) | sizes of incoming files | passes over the incoming directory | files that still grow |
| Scheduler (`Scheduler.cpp`) | tasks, time of the last check | pause, resume, set rates at times of the day | clock changes |
| Script controller (`ScriptController.cpp`) | child process | run scripts, take their exit code and messages | a script stopped while it ends |
| Life cycle (`nzbget.cpp`) | global objects | create, start, stop, reload, destroy | order; requests that come too early or too late |
| Android bridge and app (`Android.cpp`, `src/src/...`) | the service's `running` flag and thread | start, stop, pause, resume, append | calls while the program starts or ends |
| Remote control (`RemoteServer`, `BinRpc`, `XmlRpc`, `WebServer`, `RemoteClient`) | connections of clients | translate requests into calls of the queue | requests at any time |
| Connections (`Connection`, `NNTPConnection`, `TLS`) | sockets | connect, request, read, cancel | input and output |
| Decoder, nzb reader, options, log, utilities, frontends | | sequential work on data, display | |

### How they interact

The coordinator thread takes a connection of level 0 from the pool, locks the queue,
chooses an article and creates an `ArticleDownloader`, which inherits the connection.
Each downloader is a thread. It notifies the coordinator (`Observer`: a plain call in
the downloader's thread) when its status changes; when it has reached a final status
this call is `ArticleCompleted`, which takes the queue mutex, does the bookkeeping
and, for the last article of a file, joins the file without the mutex. The coordinator
in turn notifies the pre- and post-processor of added, completed and deleted files
under the mutex. The remote server, the JNI functions, the url coordinator, the
scanner and the frontends call `AddNZBFileToQueue`, the queue editor and `Stop` from
their own threads. Everything that concerns the queue is guarded by
`m_mutexDownloadQueue`; the pool has a mutex of its own, and the downloads of one file
share `FileInfo::m_mutexOutputFile`.

### Behaviours that are hard, and what must hold

* *Every article once*: no article is downloaded by two threads at a time, and none
  stays marked as running with nobody at work on it, whatever is stopped, paused,
  retried or terminated.
* *Freed files*: a file may be deleted while its articles are downloaded, and while it
  is joined. It is freed by the last download and by nobody before.
* *Joining*: a file is joined once, after its last article, by one download.
* *Stop*: it reaches downloads that are started while it runs; the coordinator ends
  after the last download.
* *Connections*: each comes back exactly once, whatever way a download ends, nobody
  uses one that another holds, and the counts that admission relies on stay right.
* *Retries*: a download gives up for a reason only; what a level has answered is
  recorded for that level.
* *The output file* is created once and before it is written to, and its mutex does
  not stay locked.
* *The watchdog* leaves the books as if the download had never started, and every
  download that may hang is one it looks at.
* *Post-processing*: one job is at work at a time, whatever is moved, added and deleted; a
  collection ends in the history when its last job or its last file is gone; a file is in
  one list only; the pause set for a check or a script is undone; par-files are
  discarded only when no set needs them.
* *Par-files*: a check asks for enough blocks and for no others than its own while these
  suffice; what it has asked for and what has arrived is used, whenever it arrives; it gives
  up only if nothing is left, and ends also if the post-processor is stopped.
* *The saved queue*: whenever no handler is at work, what is on disk is what is in memory;
  over crashes and restarts a file keeps its contents and is listed once, a url is fetched
  or queued once, and a script is not run twice for a job.

`PROJECT.json` lists these hazards, and those of the parts not modelled yet, each at
its line.

## 2. The modules

| module | models | role |
|---|---|---|
| `ConnectionPool` | what borrowers may expect of the pool | contract |
| `ServerPool` | `ServerPool.cpp`, and how coordinator and downloaders use it | implements `ConnectionPool` |
| `Downloads` | what the queue may expect of a download | contract |
| `ArticleDownloader` | `ArticleDownloader.cpp`: the downloads of one file | implements `Downloads` |
| `QueueCoordinator` | `QueueCoordinator.cpp` with its downloaders and requests | uses `ConnectionPool` for its connections and is shown to keep both contracts |
| `PostProcessor` | `PrePostProcessor.cpp`, with what par-check, scripts, downloads and the queue editor do to its lists | collections, jobs, history |
| `ParChecker` | `ParChecker.cpp`, and what post-processor and queue do to it: `RequestMorePars`, `AddPar`, `Stop` | one check, its par-files and its thread |
| `DiskState` | `DiskState.cpp`: saving, loading, discarding as operators | the format of the queue on disk |
| `PersistentQueue` | who changes and saves the queue: `QueueCoordinator`, `UrlCoordinator`, `PrePostProcessor`, `NZBFile`, `nzbget.cpp` | extends `DiskState` with crashes and restarts |
| `MCServerPool`, `MCArticleDownloader`, `MCQueueCoordinator`, `MCPostProcessor`, `MCParChecker`, `MCPersistentQueue` | | values for TLC |
| `ServerPoolProofs`, `QueueCoordinatorProofs`, `QueueHistoryProofs`, `ArticleDownloaderProofs`, `PostProcessorProofs`, `PostRecordsProofs`, `ParCheckerProofs`, `PersistentQueueProofs` | | theorems |

The two contracts cut the system into parts that TLC can check alone:

                     QueueCoordinator
          keeps        /          \        keeps
      ConnectionPool  /            \   Downloads
          implements |              |  implements
                 ServerPool     ArticleDownloader

`QueueCoordinator` instantiates `ConnectionPool` and uses its actions, so that a
connection in the queue model is lent, returned and passed on as `ServerPool` allows
it. It contains the downloaders, coarsely, since the queue and its downloads share too
much state to be separated; `DownloadersKeepContract` says that these coarse
downloaders do nothing `Downloads` forbids, and `ImplementsDownloads` says the same of
the detailed ones. Both stay inside one contract; this does not show that the coarse
downloaders can do everything that the detailed ones do. What a download leaves behind for
others, the connections of level 0 and an output mutex that is left locked, is therefore in
both models; levels other than 0, the number of retries and the creation of the output file
are in `ArticleDownloader` only.

`PostProcessor` stands beside them, at the level of whole files: that files complete and
are freed by their last download is what `QueueCoordinator` shows, and what
`PostProcessor` takes as its environment. It in turn models what the observers of the
queue do to it, which `QueueCoordinator` leaves out.

`ParChecker` opens up what is one free choice in `PostProcessor` (a check asks for files,
and ends): the steps of its thread between those that need the queue mutex.
`PersistentQueue` takes the other side: downloads and post-processing have any result that
the two modules allow, and each handler is one step with the writes that it does, in their
order, because what matters there is what is on disk when the program dies between them.

### State and actions

`ServerPool`: `inUse`, `open`, `idleFor` are `PooledConnection::m_bInUse`,
the connection's status and the age of `m_tFreeTime`; `freeOn` is
`m_Levels`; `holder` says which thread has the connection in its
`m_pConnection` or in a local variable. Actions bear the names of the methods; `Tick`
lets time pass, up to the timeout.

`QueueCoordinator`: `queue`, `paused`, `deleted`, `completed`, `activeCount`, `status`,
`active`, `halted`, `hasMoreJobs` are the members of the same meaning (the comments at
their declarations give the names); `leftLocked` are the files whose `m_mutexOutputFile` a
download has left locked (`PrepareFile`, or a thread that was terminated inside it); `pc` is
where each thread is; `announced` is a history variable, the last aspect observers were told about a file. One action is one critical
section of the queue mutex or one step outside of it. `StopFlag` and `StopDownloads` are
the two halves of `QueueCoordinator::Stop`, which raises its flag before it takes the
mutex; `LoopTop`, `StartNext`, `Wake` are a round of the coordinator's loop, which takes
the connection before the mutex; `ArticleCompleted` and `FileJoined` are the two
critical sections of `ArticleCompleted`, between which `CompleteFileParts` runs.

`ArticleDownloader`: `status` is `m_eStatus`, `at` the place in `Run`, `Download` and
`PrepareFile`; `result`, `connected`, `level`, `remained`, `missing` are the locals of
`Run` (`missing` holds the levels whose `LevelStatus` is `adNotFound`); `conn` is the level
of `m_pConnection`; `locked`, `outputInit` are the mutex and the flag of the output file,
`created` counts its creations (history). Every answer of a server, every verdict of the
decoder and every failure of the file system that the code tells apart is a disjunct.

`PostProcessor`: `dq` is the `DownloadQueue` with what its entries keep: `files`,
`parked` (`m_ParkedFiles`), `freed` (deleted `FileInfo`s), `paused` and `marked`
(`m_bPaused`, `m_bDeleted`), `disk` (downloaded files on the disk), `post` and `job` (the
`PostQueue` and its `PostInfo`s), `history`, `nzb` (the members of `NZBInfo`). `busy` are the
files with active downloads; `pr` is the pause register with `m_bPostPause` and what
`m_bSchedulerPause` and `m_bSchedulerPauseChanged` say while it is set; `parThread`, `parRunning`, `parJob` are the threads of the par-checker,
its `m_bRunning` and its `m_pPostInfo`; `outcomes` and `pr.late` are history variables.
The functions of the code that change the queue under its mutex are operators from a
state of the queue to the next one, composed as the calls are: `Complete` is the last part of
`ArticleCompleted` with the notification, and what this calls down to `NZBCompleted`;
`JobCompleted` contains the group deletion that cleans the queue up, which notifies
again. Where the code gives the mutex up, the model has a new action: `ParCheckerUpdate`,
`UnpauseAfterCheck` and `ParThreadEnds` are the end of a check.

`ParChecker`: `at` is the place in `ParChecker::Run`, `queued` and `changed` are
`m_QueuedParFiles` and `m_bQueuedParFilesChanged`, `stopped` its `m_bStopped`; `missing`
is the number of blocks that libpar2 says are missing. `queue` and `paused` are the par-files
in the queue, `postPaused` is the option `PausePostProcess`, under which a check waits in
`UpdateParProgress`. `pp` and `stop` are the places in `PrePostProcessor::Run` and `Stop`: the
loop ends as soon as the flag is up, before or after `Stop` has done its work. While
`stop` is `"holding"` it has the queue mutex, and every action that takes it is disabled.
`asked`, `arrived`, `broken`, `missed`, `escaped` are history variables, or (`broken`) what
only libpar2 will find out.

`PersistentQueue`: `mem.q` holds the six lists of the `DownloadQueue` as `DiskState` saves
them; `mem.marked` are deleted files that wait for their downloads, `mem.idGen` is
`FileInfo::m_iIDGen`, `mem.parsed` are `NZBFile` objects, `mem.active` and `mem.handing` urls
being fetched and handed over. `disk.queue` is the file `queue`, a sequence of sections, each
the number it starts with and its rows; `disk.contents` are the files named by ids. `Handle`
carries out a handler: all of its writes, or, if the program dies in it, some of them,
perhaps none, and at most a part of the next one. `added`, `scripts`, `reused` are history
variables.

### Abstractions

* Articles have numbers and files have a priority; sizes, names and contents are left
  out. That an article names its file, or a duplicate, is a free choice of
  `ArticleCompleted`.
* `QueueCoordinator` knows the connections of level 0 only, since the coordinator takes
  no others; polling for connections of other levels is in `ArticleDownloader`, where
  the connections of a level are counted, not named.
* `Terminate` is modelled as it is meant on POSIX, where `pthread_cancel` ends the
  thread. `Android.h` replaces it by a signal; see *Not modelled*. Its failure
  (QueueCoordinator.cpp:832) is left out: `pthread_cancel` fails only if there is no such
  thread, and a download in status `adRunning` has one.
* In `QueueCoordinator` observers are notified but do nothing to the queue.
* `PostProcessor`: which volumes a check asks for, whether it succeeds, what a script answers
  and asks for are free choices. The user's option `PausePostProcess` is a free choice
  of each round of the loop. Collections do not share a directory and are not merged. The
  list of completed files of a collection is the set of its files on the disk.
  `KeepHistory` is not zero, and entries of the history expire at any moment.
* The articles are yEnc-encoded and `Decode` is on, as in the shipped configuration.

## 3. The runs

| run | configuration | checks |
|---|---|---|
| `server_pool` | 3 connections on 2 levels, 2 downloaders and the coordinator | counts, in-use marks, closing of idle connections (liveness), contract |
| `queue_safety` | 1 file of 3 articles, 2 downloaders, 2 connections, all requests, `ContinuePartial`, `TerminateTimeout` | articles are downloaded once at a time, files are freed and joined by the last download, stop, how files leave, and both contracts |
| `queue_liveness` | 1 file of 2 articles, 2 downloaders, 1 connection, duplicates and a failing disk, no watchdog | stop ends the coordinator, deleted files leave, files are downloaded |
| `download_attempts` | 2 downloads, 2 levels, 2 retries, all faults | levels, retries, the output file, reasons to give up, contract |
| `download_fair` | 2 levels of one connection each, 1 retry, no duplicate, no failing disk, no watchdog, fair threads | the mutex of the output file; stopped downloads end; downloads end if servers answer now and then |
| `stopped_behind_mutex` | duplicates and failing disks, fair threads | *violated*, see findings |
| `post_process` | one collection of three files in two par-sets, 3 jobs, one par-check thread, all requests but two | jobs, lists, history, pauses, clean-up |
| `pars_left_deleted` | two collections | *violated*, see findings |
| `par_checker` | par-files of 1, 2 and 4 blocks, of which 3 or 6 are needed, with names that fit exactly, nearly and not; post-processing is paused and resumed | requests, arrivals, waits, the end of checks, stop |
| `loose_pars_unused` | the same with names that do not fit when the file has been downloaded | *violated*, see findings |
| `persistent_queue` | a collection of 2 files and one of 1 file from a url, 1 crash, any number of restarts that reload everything or nothing | the disk is current, files keep their contents, urls and scripts |
| `queue_not_reloadable` | the same without crashes | *violated*, see findings |

*Bounds.* Two downloads of a file are enough for every race the code has between
downloads (the last of several, the first to create the output file, two that ask for
one connection), since each of them is between one download and all others. The queue runs
have one file of three or two articles: with three, one is left to start when a report
comes in while another is downloaded. That files do not disturb each other is not left to
the bound: the invariants of the queue are proved for any number of files, articles,
downloads and connections. Two levels
and two retries let a download wrap around to level 0, get different answers of different
levels, and use up its retries. Nothing is bounded that the code does not bound, except that
an nzb-file is added once and `Stop` is called once.

In `post_process` one collection has two par-sets, so that results are joined and a job
can be completed while another one of the collection is waiting; one set has a volume, so that
there are paused par-files to ask for, to park and to discard. Collections meet in the post-queue
only, where `OneJobAtWork` tells jobs apart by their place, and in `CanCleanupDisk`, which
has a run with two. `MaxJobs = 3` lets a job be moved behind another one and lets a script of
the last job ask for all sets again; a request for more jobs than there is room for is
not made. `ParThreads` has one member: the thread of a check ends before the next check
starts. Two kinds of requests are left out of the run, since the code breaks under them:

* `moveFirst`, a user moves the job that is at work, see *Weaknesses without a run*;
* `pauseBusy`: a par-file is paused while it is downloaded, and the collection completes
  meanwhile. `NZBCompleted` (PrePostProcessor.cpp:355) then parks a file that has active
  downloads, and the last of them frees it without taking it from the parked list.

In `par_checker` 3 of the 7 blocks is what the two smaller files have, one of them with a
name that fits, and 6 forces a second round of the selection; a check that has got broken
files asks again, so that all sums come up. The three par-files can make up any set of
files that come in early, late, broken, deleted, or not at all. In
`persistent_queue` one collection has two files, so that one may be marked, parked or a
duplicate while the other is not, and one comes from a url. `MaxId = 4` lets ids be
given after those of an earlier session. One crash may come at any point of any write, and
any number of regular restarts may follow or precede it. The bounds are for TLC only: the
five invariants of the run are proved for any collections, urls, ids and number of crashes.

The options of `post_process` are the shipped ones but for `ParCheck`, the script
(`PostProcess`), `ParPauseQueue` and `DeleteCleanupDisk`, which are on. With `PostPauseQueue` a job that is
deleted between its check and its script would leave the download paused.

*Fairness.* The coordinator's loop never stops by itself (weak fairness of its steps). In
`ArticleDownloader` a thread runs and its waits on the network end, if only with a
timeout of the socket (weak fairness of `Step`); this is all that
`CancelledDownloadsEnd` assumes. `DownloadsEnd` needs more: connect errors are
retried without bound and connections are polled for without a queue, so it assumes
that servers are reached and answer now and then and that a poll succeeds if it could
succeed again and again (strong fairness). `QueueCoordinator` assumes of its downloaders
what these two properties show (`Ends`), and only where they hold: a download that may be at an
output mutex which somebody has left locked (`Waits`) need not end, halted or not, as
`stopped_behind_mutex` shows. So the three liveness properties of the queue leave aside a
download that waits there for ever, and nothing else. A thread that waits only for the queue
mutex goes on (`GoesOn`), and a `Stop` that has begun is carried through. Requests may never
come.

In `ParChecker` the threads of check and post-processor go on, the wait of `Stop` ends
after five seconds (`WF` of its steps), and a par-file that is unpaused again and again is
downloaded some time (`SF` of `Downloaded`, which is what `FilesAreDownloaded` shows of the
queue; it supposes that downloads are not paused as a whole for good). `ChecksEnd` itself
says that users resume post-processing at last (`<>[]~postPaused`): a check waits as long as
it is paused.

*Deadlock* is checked in every run but those of `ParChecker`, where everything may have
ended: in the others pausing can be switched, or the program started, at any time.

### Findings

* `stopped_behind_mutex`: `PrepareFile` returns with the mutex of the output file locked
  if the file is a duplicate (ArticleDownloader.cpp:588-592) or cannot be created
  (612-616). Another download of the file then waits for ever, with its connection, and
  no stop reaches it; so the file is not freed either, against the comment on `DeleteQueueEntry`
  (QueueCoordinator.cpp:401), by which the entry is or will be deleted in any case.
  `download_fair` shows that all is well otherwise.
* `pars_left_deleted`: `CanCleanupDisk` (QueueEditor.cpp:819) never looks at its argument
  `pNZBInfo`: a file of another collection suffices to have the downloaded files of a
  collection removed of which only par-files are left, against the comment at 814 and
  `nzbget.conf:511`.
* `queue_not_reloadable`: `SaveFileQueue` (DiskState.cpp:405) writes the number of all files
  and then leaves out the deleted ones. A queue that is saved while a deleted file waits for
  its last download cannot be read to its end: post-queue, urls, history and parked files
  are not reloaded. `nzbget.conf:310-312` promises that the saved queue can be reloaded.
* `loose_pars_unused`: with `StrictParName=no` a check asks for par-files with other names,
  but `AddPar` (PrePostProcessor.cpp:986) hands over only files whose names match; the others
  are downloaded for nothing. `nzbget.conf:697` says that the option allows their use.

### Weaknesses without a run

The properties are stated around some more weaknesses of the code; `PROJECT.json` names them
at their hazards. Each was seen as a counterexample while the property was found:

* The watchdog (QueueCoordinator.cpp:836-843) removes a download that hangs and does not look at
  its file. If the file was deleted and this was its last download, nobody frees it, and it
  stays in the queue for good, against the comment in line 401: with the watchdog
  (`TerminateTimeout = 600`) `DeletedFilesLeave` is violated, and `queue_liveness` runs without it.
* The status `adDecoding` (ArticleDownloader.cpp:663) stays during later attempts, and the
  watchdog looks at `adRunning` only, so that it never terminates such an attempt.
* `PostQueueMove` (PrePostProcessor.cpp:1588) moves the first job although it is at work,
  against its comment (1557), and the next one is started beside it (request `moveFirst`).
* A par-file that arrives when its check is over but the thread of the check is not leaves
  the download paused (`PauseIsUndone` leaves this case aside with `pr.late`); `AddPar` reads
  the job of such a thread, which may be freed (`JobMemoryReused` lets it hold anything, and
  `DeletedIsRecorded` leaves aside a file that is swallowed by it).
* Nothing is recorded when waiting jobs that are not the first are deleted
  (`ProcessedIsRecorded` speaks of the first one).
* A requested par-file that is deleted between the request and the reset of the flag
  (ParChecker.cpp:236) is waited for until something else changes (`missed`).
* `PrePostProcessor::Stop` raises its flag (line 188) before it asks for the queue mutex (189). The
  loop, which leaves on the flag (143), may be quicker: `Cleanup` (181) then frees the job of a
  check that is running, and nzbget.cpp:359 waits for the threads only, not for `Stop`.
  `ParChecker` has these steps; what a check does without its job is not defined, so that it
  makes no step after `Cleanup`, and no property speaks of it.
* A check may be started in the round of the loop that `Stop` comes into
  (PrePostProcessor.cpp:159), or survive its kill on Android; it runs on when `Stop` has done
  its work (`escaped`, which `StopEndsCheck` leaves aside).
* A job that is over, but still listed when the queue is saved, starts over after a restart
  (`SanitisePostQueue`, PrePostProcessor.cpp:585); one that is loaded after the queue was
  sanitised, in the stage of its script, blocks the post-queue (130).
* Urls that are saved as running are not fetched after a restart; parked files whose item in
  the history expires (`CheckHistory`) are kept, unreachable.
* A row whose contents are missing is skipped when the queue is loaded
  (DiskState.cpp:76), the id generator does not see it, and a new file may get its id while the
  saved queue still has the row. The next load then finds the new file under the old row, in
  the old collection; one crash suffices. `DiskIsCurrent` speaks of the time in which no such
  file waits to be added (`NewFileHasSavedId`), and `EntriesAreTheirOwn` leaves the collection
  of such an id aside (`reused`), not its contents.
* A crash inside a write loses what was to follow in the queue-file, and a crash between
  `UrlCompleted` and `AddNZBFileToQueue` loses the url.

## 4. The proofs

All theorems assume what the named `ASSUME`s of the modules say of the constants
(finite sets of files, threads and connections, files with at least one article, no
file in two nzb-files); TLC evaluates these assumptions in the runs. A theorem that
assumes more, because the code breaks without it, says so in its `ASSUME ... PROVE`, and
the assumption is explained below.

**Server pool** (`ServerPoolProofs`). The inductive invariant is the type invariant with
`LevelsCountFreeConnections`, `InUseIffHeld` and `ExclusiveUse`: none is inductive alone,
since the count of a level changes by one exactly if the mark of one connection changes,
and this mark is right only if no other thread holds the connection. `PoolImplementsContract`
maps holders to the contract's `conn`.

**Queue** (`QueueCoordinatorProofs`). `IInv` joins the type invariant with what ties
articles, files and downloads together: an article is running exactly while one active
download works on it, the file of an active download is in the queue, counters agree, a
joining download is alone, and a stopped coordinator has stopped all. It has to say more
than the checked invariants do: which threads exist outside of `active`, that a file has
a download that joins it only if all of its articles are done, and that files outside of
the queue have no active download. Each step preserves `IInv` by the facts it
changes: a step of a downloader concerns one article and one file. `LoanInv` adds the connections:
the coordinator has one exactly between `LoopTop` and `StartNext`, a created download has
one, no two threads have the same. From both follow `PoolIsUsedCorrectly`,
`DownloadsAsPromised` and `ThreadsAreBounded`, the last by counting: threads that do not
count themselves yet hold distinct connections.

**Leaving the queue** (`QueueHistoryProofs`). `QueueInv` says that no file is twice in the
queue and that what is announced has left; from it follow `FilesLeaveAnnounced`, an
action property, and `DeletedFilesAreLookedAfter`, which assumes `TerminateTimeout = 0`,
since the watchdog breaks it (see *Weaknesses without a run*). It says that a deleted file has a download,
not that this download ends.

**Par-checker** (`ParCheckerProofs`). `NoWaitForNothing`: what a check waits for is in the queue
from the moment its request was granted, so the invariant `WaitInv` has to speak of the time
before the wait as well, in which a file that leaves is missed instead of noticed.
`StopEndsTheCheck`: when `Stop` has done its work, no check runs that did not escape it; it is
inductive, and says nothing of `Cleanup`, which may come before `Stop` (see *Weaknesses without a run*).
`ArrivedParsAreLoaded` assumes that all names match (`SameParCollection = ToSet(Vols)`), the
case that the finding above does not break. `RequestsAreRight`: the second round of a request
makes up for what the first one left, because every file that the first round skipped is
larger than what was still needed then; and since files only leave the queue, a check that is
refused cannot have enough a moment later (`RequestInv`). This needs sums of blocks
(`SumGrows`): the sum of the community modules takes the files in an order that nobody knows,
and `SumWithFile` shows, by `SetInduction` (see the persistent queue below) on the number of
files, that any order gives the same.

**Article downloader** (`ArticleDownloaderProofs`). The inductive invariant `IInv` is the type
invariant with `PlaceInv`: what the place of a thread in `Run`, `Download` and `PrepareFile`
says of its status, its connection, its last result and the options. It gives
`ConnectionsFit` at once and is what the other theorems lean on. `LevelsFollowRetries` is
arithmetic: the level is the number of counted attempts modulo the number of levels
(`RetriesInv`), and `RemainderOfNext` says how the remainder goes on when the number does.
`OutputIsCreatedOnce` needs that a thread which is about to write has seen the flag of the
file (`OutputInv`), for any number of threads. `OutputMutexHolds` assumes that nothing leaves
the mutex locked: no termination (`~Watchdog`), no file of the same name (`~OnDisk`), no
failing disk (`~DiskFails`); `stopped_behind_mutex` shows that the assumption on duplicates or
disk cannot be dropped, and a download that is killed inside leaves it locked as well.
`DownloaderKeepsContract` is the refinement: every step is one of `Downloads` or leaves
its variables alone. With `DownloadsAsPromised` and `PoolImplementsContract` the two
contracts of section 2 are proved on both sides.

**Post-processor** (`PostProcessorProofs`). The queue is a record, and the functions of the code
map queues to queues, so the proof goes along the calls: for each function one lemma
says which fields it changes (`...Fields`) and one that it keeps what it should
(`...Lists`, `...Grows`), and a caller cites the lemmas of what it calls. The group
deletion calls the deletion of one entry until nothing is left to delete; its lemmas
go by induction over the number of entries, by the least number for which the claim fails.
`WorkInv` is the inductive invariant:

* `JobsInv`: types, no job twice in the post-queue, and what a job that was requested or is
  to be checked looks like;
* `FirstOnly`: only the first job may be at work;
* `CheckInv`, `RunInv`, `OneCheck`: a thread that checks works on the first job, the job of a
  running par-checker is there, and one thread at most is checking.

`FirstOnly` and `CheckInv` need each other: a job is put before the first one only by the
end of a job, which no thread may be checking then. All of this breaks if a user moves the job
at work (`PostQueueMove`, see *Weaknesses without a run*): `NoMoveFirst`, which all
theorems about the post-processor assume, says that the comment at PrePostProcessor.cpp:1557 is
kept to. On `WorkInv` rest:

* `FilesStayInOneList` and `HistoryHasNothingLeft`, by the invariant `Lists`: a file
  with active downloads is queued and not paused, and the files of a collection come
  together. It assumes that nobody pauses a file which is being downloaded (`"pauseBusy"`,
  section 3), since such a file is parked and then freed;
* `OneJobWorks`, which assumes that the thread of a check is over before the next check
  starts (`OneThread`). With two threads the one that ends late takes the flag back that the
  next one has raised (`StartParJob`, PrePostProcessor.cpp:978, does not wait), and then a check runs whose flag
  is down;
* `PauseUndone`, by `PauseInv`: the pause of the post-processor is that of a check
  which is not over. It assumes that `PostPauseQueue` and a script are not used together:
  otherwise the deletion of a job between its check and its script leaves the pause set.

**What is recorded** (`PostRecordsProofs`). Three action properties, all from `StepsAreRecorded`,
which says of every step at once what it may forget (`Recorded`). The invariant is
`ResultsInv`: the recorded result of a collection sums up the results of its jobs (`Right`),
which `outcomes` remembers; it is good only if none was bad. So a collection whose
par-files are discarded is one whose checks or scripts were good (`CleanupIsJustified`).
`JobsAreRecorded` and `DeletionsAreRecorded` follow the calls again: each function that takes the
last job or the last file of a collection away puts the collection into the history, or
leaves it with jobs or something to download. The script that asks for another check is the
subtle case: its collection has jobs, and its own job stays.

**Persistent queue** (`PersistentQueueProofs`). All five invariants of the run, from
`PersistentAssumption` alone. The difficulty is that a crash leaves any queue-file which a
write may leave, in front of contents some of which are gone, so an invariant of the memory
and of the current file is not inductive. `IInv` says the same thing (`QueueOK`) twice, of the
queue in memory (`MemoryOK`) and of the queue that can be read from the disk (`DiskOK`),
the latter for whatever became of the contents (`Reading`):

* `Listed`: what files, jobs and history refer to is a listed collection, none twice, all of
  which have been added; `Own` and `Apart`: no two entries have one id, queued or parked, and
  contents are those of a file of the entry's collection;
* `JobsOK`: jobs and scripts that ran fit together; `UrlOnce` and `UrlsFree`: a url is in one
  list, and its nzb-file has not been added while it is in one;
* `UpTo`: the id generator is beyond the ids in memory, so that new contents overwrite
  none that the queue in memory needs; `ParsedOK` says the same of files that are not added yet;
* `DiskIsCurrent` itself.

The proof has four layers. *Lists*: what is read of a file that was cut off (`CutOff`) is a
part of what was saved (`PartOf`, in order; `IdPartOf` where contents may be missing,
`Shrunk`). *Queues*: a part of a queue for which `QueueOK` holds is one as well (`QueuePart`), so
a crash cannot break it. *The disk*: a queue that is saved whole and intact is loaded as it was
(`SavedIsCurrent`, `WholeReload`), and each write of a handler leaves something that may be
read. *The handlers*: one lemma each, all by way of three, for a handler that changes and saves
the queue (`ChangeStep`), writes more than that (`SavingStep`), or writes nothing
(`QuietStep`). `Only`, `After` and `IdGenAfterLoad` are recursive functions; that each
exists and obeys its equation (`OnlySteps`, `AfterSteps`, `GensExists`), and what is claimed of
it, goes by `SetInduction`, induction on a set of numbers, since the library's
induction rules take an operator and cannot be instantiated.

What the theorems leave out is what the properties leave out, and for the reasons given above:
`DiskIsCurrent` requires an intact file (`queue_not_reloadable` shows why) and no new file with a
saved id; a script may run again if its job starts over after a restart.

*Only model-checked*: liveness (the prover has no rule for fairness and `ENABLED`); every
invariant, action property and refinement of the passing runs is a theorem, some of them under
the assumptions named above. *Only proved*: `ThreadsAreBounded`, `ExclusiveUse`, `ClosesOnlyIdle`,
`CountersAgree`, `ExitsAfterDownloads`, `NoJobsNoDownloads`, `DeletedFileHasDownload` and the
type invariants of pool, queue and downloader. The findings need no proof: a
counterexample is one.

## 5. Not modelled

The table of components in `PROJECT.json` says it for each. Of the modelled parts:
the speed meter and the statistics of the coordinator, group operations of the editor,
the moving of a collection to another directory, the race of `Terminate` with the thread it
terminates, `Kill` of a download on Android (the signal does not end the thread, so that a
terminated download goes on with an object that is destroyed), failures to create a thread;
of `PostProcessor`: the check of disk space, the clean-up of nzb-files, and merging; a call of
`PauseDownload` or `UnpauseDownload` is one step, although the thread of the check changes
`m_bPostPause` without a lock (PrePostProcessor.cpp:1105-1107, 1209-1212). Of
`ParChecker`: splitted fragments, the time limit of a repair (this libpar2 cannot be
cancelled), and the start of a check while the thread of the last one is ending.
Of `PersistentQueue`: requests that come before the queue is loaded
(nzbget.cpp:299), ids taken by two threads at once (DownloadInfo.cpp:454), a restart by
`Reload` inside the process, scripts that ask for checks, several par-sets of a collection,
`AllowReProcess`, old formats, rows that are cut in the middle. Of the url coordinator the web
downloader: its redirects and retries end in one of three results.

The third-party libraries below `src/jni` (OpenSSL, libpar2, libsigc++, libxml2) are by far
the largest part of the repository and not the subject of this project.

## 6. Plan

In this order; each module gets its runs, then its proofs.

1. `QueueEditor`: moving and merging as algorithms on sequences, against a declarative
   definition of the new order.
2. `Lifecycle`: start, requests, stop and destruction, with the JNI bridge and the service.
3. `Scheduler` and `Scanner`: appointments and clock changes; files that still grow.
