--------------------------- MODULE PostProcessor ---------------------------
(***************************************************************************)
(* PrePostProcessor.cpp: what becomes of collections (nzb-files) when their *)
(* files are downloaded or deleted.  Par-files are paused when a collection *)
(* is added; a completed collection gets jobs in the post-queue, which are  *)
(* par-checked and handed to a script one after the other; then it goes to  *)
(* the history, and files that are left are parked.                        *)
(*                                                                         *)
(* The queue coordinator, the par-checker (ParChecker) and the script are   *)
(* modelled by what they do to the lists: a file is being downloaded, and   *)
(* completes; a check or a script takes its time and has a result.         *)
(***************************************************************************)
EXTENDS Integers, FiniteSets, Sequences, SequencesExt, Functions

CONSTANTS
    Collections,      \* NZBInfo objects
    Files,            \* FileInfo objects
    NzbOf,            \* the collection of a file
    SetOf, NoSet,     \* the par-set of a par2-file; NoSet: not a par2-file
    Volumes,          \* par2-files with recovery blocks (".vol")
    MaxJobs,          \* bound on the jobs in the post-queue
    ParThreads,       \* bound on the threads of the par-checker that are not over yet
    ParCheck, ParRepair, PostScript,                      \* options
    ParPauseQueue, PostPauseQueue, ParCleanupQueue,
    LoadPars, AllowReProcess, DeleteCleanupDisk,
    ScriptResults,    \* the results that the script may have
    Requests          \* the requests that users make

\* "moveFirst" moves the job that is at work, and "pauseBusy" pauses a file that has
\* active downloads; the code checks for neither (see README).
AllRequests == {"deleteFile", "deleteGroup", "pauseFile", "resumeFile", "pauseDownload",
                "pauseBusy", "move", "moveFirst", "deleteJob",
                "historyDelete", "historyReturn", "historyProcess"}

ASSUME PostAssumption ==
    /\ IsFiniteSet(Files) /\ MaxJobs \in Nat
    /\ NzbOf \in [Files -> Collections]
    /\ Volumes \subseteq {f \in Files : SetOf[f] # NoSet}
    /\ {ParCheck, ParRepair, PostScript, ParPauseQueue, PostPauseQueue, ParCleanupQueue,
        AllowReProcess, DeleteCleanupDisk} \subseteq BOOLEAN
    /\ LoadPars \in {"all", "one", "none"}
    /\ ScriptResults \subseteq {"none", "unknown", "failure", "success"}
    /\ Requests \subseteq AllRequests

Ids == 1..MaxJobs
ParSets == {SetOf[f] : f \in Files} \ {NoSet}

VARIABLES
    dq,          \* the DownloadQueue: its lists, and what their entries keep
    busy,        \* files with active downloads
    pr,          \* the pause register (download), whether the post-processor has set it
                 \* (post) and the scheduler wants it set since then (sched); history:
                 \* it was set for a check that was already over (late)
    parThread,   \* threads of the par-checker
    parRunning,  \* m_ParChecker.m_bRunning
    parJob,      \* m_ParChecker.m_pPostInfo
    outcomes     \* results of the jobs of a collection (history)

vars == <<dq, busy, pr, parThread, parRunning, parJob, outcomes>>

Jobs == [nzb : Collections, set : ParSets \union {NoSet}, parCheck : BOOLEAN,
         par : {"none", "failure", "success", "possible"},
         stage : {"queued", "script", "finished"}, working : BOOLEAN, deleted : BOOLEAN,
         request : {"none", "current", "all"}, last : BOOLEAN,
         script : {"none", "unknown", "failure", "success"}]

NzbInfos == [postProcess : BOOLEAN, deleted : BOOLEAN, parCleanup : BOOLEAN,
             cleanupDisk : BOOLEAN,
             par : {"none", "failure", "success", "possible"},
             script : {"none", "unknown", "failure", "success"}]

TypeOK ==
    /\ DOMAIN dq = {"files", "parked", "freed", "paused", "marked", "disk", "post",
                     "job", "history", "nzb"}
    /\ UNION {dq.files, dq.parked, dq.freed, dq.paused, dq.marked, dq.disk, busy} \subseteq Files
    /\ dq.post \in Seq(Ids) /\ IsInjective(dq.post)
    /\ \A id \in Ids : id \in ToSet(dq.post) => dq.job[id] \in Jobs
    /\ dq.history \subseteq Collections
    /\ dq.nzb \in [Collections -> NzbInfos]
    /\ pr \in [download : BOOLEAN, post : BOOLEAN, sched : BOOLEAN, late : BOOLEAN]
    /\ parRunning \in BOOLEAN
    /\ parThread \in [ParThreads -> {"off", "checking", "reported", "leaving"}]
    /\ parJob \in Ids \union {0}

NewNzb == [postProcess |-> FALSE, deleted |-> FALSE, parCleanup |-> FALSE,
           cleanupDisk |-> FALSE, par |-> "none", script |-> "none"]

NewJob(n, s, check) ==
    [nzb |-> n, set |-> s, parCheck |-> check, par |-> "none", stage |-> "queued",
     working |-> FALSE, deleted |-> FALSE, request |-> "none", last |-> FALSE,
     script |-> "none"]

Init ==
    /\ dq = [files |-> {}, parked |-> {}, freed |-> {}, paused |-> {}, marked |-> {},
             disk |-> {}, post |-> <<>>, job |-> [id \in Ids |-> {}],
             history |-> {}, nzb |-> [n \in Collections |-> NewNzb]]
    /\ busy = {}
    /\ pr = [download |-> FALSE, post |-> FALSE, sched |-> FALSE, late |-> FALSE]
    /\ parThread = [t \in ParThreads |-> "off"]
    /\ parRunning = FALSE /\ parJob = 0
    /\ outcomes = [n \in Collections |-> {}]

-----------------------------------------------------------------------------
(* The download queue: functions from its state to its next state.          *)

Of(n) == {f \in Files : NzbOf[f] = n}
IsPar(f) == SetOf[f] # NoSet
Group(q, n) == q.files \intersect Of(n)
HasJob(q, n) == \E id \in ToSet(q.post) : q.job[id].nzb = n

\* mutant: off by one, the file of the notification itself is in the way
IsNZBFileCompletedNone(q, n, ignorePausedPars, checkPostQueue, onlyOneDeleted) ==
    /\ \A f \in Group(q, n) :
           \/ f \in q.marked
           \/ f \in q.paused /\ ignorePausedPars /\ (IsPar(f) \/ AllowReProcess)
    /\ onlyOneDeleted => Group(q, n) \intersect q.marked = {}
    /\ checkPostQueue => \A i \in 2..Len(q.post) : q.job[q.post[i]].nzb # n

IsNZBFileCompleted(q, n, ignorePausedPars, checkPostQueue, onlyOneDeleted) ==
    /\ \A f \in Group(q, n) :
           \/ f \in q.marked
           \/ f \in q.paused /\ ignorePausedPars /\ (IsPar(f) \/ AllowReProcess)
    /\ onlyOneDeleted => Cardinality(Group(q, n) \intersect q.marked) <= 1
    /\ checkPostQueue => \A i \in 2..Len(q.post) : q.job[q.post[i]].nzb # n

\* The collection goes to the history, what is left of it is parked.
NZBCompleted(q, n) ==
    LET park == Group(q, n) \ q.marked
    IN  [q EXCEPT !.history = @ \union {n}, !.files = @ \ park, !.parked = @ \union park]

FoundSets(q, n) == {SetOf[f] : f \in q.disk \intersect Of(n)} \ {NoSet}

NewJobs(q, n, withScript) ==
    IF FoundSets(q, n) # {} THEN FoundSets(q, n)
    ELSE IF withScript /\ PostScript THEN {NoSet} ELSE {}

RoomForJobs(q, n) ==
    Cardinality(NewJobs(q, n, TRUE)) <= Cardinality(Ids \ ToSet(q.post))

CreatePostJobs(q, n, check, withScript, addTop) ==
    LET sets == SetToSeq(NewJobs(q, n, withScript))
        ids == SubSeq(SetToSeq(Ids \ ToSet(q.post)), 1, Len(sets))
    IN  [q EXCEPT !.post = IF addTop THEN ids \o @ ELSE @ \o ids,
                  !.job = [id \in Ids |->
                             IF id \in ToSet(ids)
                             THEN NewJob(n, sets[CHOOSE k \in DOMAIN ids : ids[k] = id],
                                         check /\ FoundSets(q, n) # {})
                             ELSE @[id]]]

NZBDownloaded(q, n) ==
    IF /\ ~q.nzb[n].postProcess \/ (PostScript /\ AllowReProcess)
       /\ ParCheck \/ PostScript
       /\ NewJobs(q, n, TRUE) # {}
    THEN [CreatePostJobs(q, n, ParCheck, TRUE, FALSE) EXCEPT !.nzb[n].postProcess = TRUE]
    ELSE NZBCompleted(q, n)

NZBDeleted(q, n) ==
    NZBCompleted(IF DeleteCleanupDisk /\ q.nzb[n].cleanupDisk
                 THEN [q EXCEPT !.disk = @ \ Of(n)] ELSE q, n)

\* A file of the set that is being checked goes to the par-checker.
IsForParCheck(q, f) ==
    parRunning /\ NzbOf[f] = q.job[parJob].nzb /\ IsPar(f) /\ SetOf[f] = q.job[parJob].set

\* What the queue coordinator's notification of a completed or deleted file does;
\* the file is still in the queue and marked as deleted.
QueueCoordinatorUpdate(q, f, done) ==
    LET n == NzbOf[f]
    IN  IF \/ IsForParCheck(q, f)
           \/ ~IsNZBFileCompleted(q, n, TRUE, FALSE, FALSE)
           \/ f \in q.paused /\ ~IsNZBFileCompleted(q, n, FALSE, FALSE, FALSE)
        THEN q
        ELSE IF done THEN NZBDownloaded(q, n)
        ELSE IF /\ q.nzb[n].deleted /\ ~q.nzb[n].parCleanup
                /\ IsNZBFileCompleted(q, n, FALSE, FALSE, TRUE)
        THEN NZBDeleted(q, n)
        ELSE q

DeleteFileInfo(q, f) == [q EXCEPT !.files = @ \ {f}, !.paused = @ \ {f}, !.marked = @ \ {f},
                                  !.freed = @ \union {f}]

DeleteQueueEntry(q, f) ==
    LET marked == [q EXCEPT !.marked = @ \union {f}]
    IN  IF f \in busy THEN marked
        ELSE DeleteFileInfo(QueueCoordinatorUpdate(marked, f, FALSE), f)

CanCleanupDisk(q, n) == \E f \in q.files : ~IsPar(f)

\* The files of a group are deleted one after the other.
DeleteQueueEntries(q, files) ==
    LET after[k \in 0..Len(files)] ==
            IF k = 0 THEN q ELSE DeleteQueueEntry(after[k - 1], files[k])
    IN  after[Len(files)]

GroupDelete(q, n) ==
    DeleteQueueEntries(
        [q EXCEPT !.nzb[n].deleted = TRUE, !.nzb[n].cleanupDisk = CanCleanupDisk(q, n)],
        SetToSeq(Group(q, n)))

MayCleanUp(info) == info.par \in {"success", "possible"} \/ info.script = "success"

\* The result of a script, added to that of the collection's others.
AddScriptStatus(new, all) ==
    IF new = "failure" \/ all = "failure" THEN "failure"
    ELSE IF new = "unknown" THEN "unknown"
    ELSE IF new = "success" /\ all = "none" THEN "success" ELSE all

Erase(post, id) == RemoveAt(post, CHOOSE i \in DOMAIN post : post[i] = id)

\* mutant: the collection is not added to the history after the last job
JobCompletedForgetting(q, id) == [q EXCEPT !.post = Erase(@, id)]

\* mutant: the collection goes to the history although files are still to be downloaded
JobCompletedUnasked(q, id) ==
    LET n == q.job[id].nzb
        q1 == [q EXCEPT !.job[id].working = FALSE, !.job[id].stage = "finished",
                        !.nzb[n].script = AddScriptStatus(q.job[id].script, @)]
    IN  [NZBCompleted(q1, n) EXCEPT !.post = Erase(@, id),
                   !.job[id] = IF parRunning /\ id = parJob THEN @ ELSE {}]

JobCompleted(q, id) ==
    LET n == q.job[id].nzb
        q1 == [q EXCEPT !.job[id].working = FALSE, !.job[id].stage = "finished",
                        !.nzb[n].script = AddScriptStatus(q.job[id].script, @)]
        clean == ParCleanupQueue /\ MayCleanUp(q1.nzb[n]) /\ Group(q1, n) # {}
        q2 == IF clean THEN GroupDelete([q1 EXCEPT !.nzb[n].parCleanup = TRUE], n)
                       ELSE q1
        q3 == IF IsNZBFileCompleted(q1, n, TRUE, TRUE, FALSE) THEN NZBCompleted(q2, n) ELSE q1
    IN  [q3 EXCEPT !.post = Erase(@, id),
                   !.job[id] = IF parRunning /\ id = parJob THEN @ ELSE {}]

-----------------------------------------------------------------------------
(* The pause register, which users, the scheduler and the post-processor    *)
(* share.                                                                  *)

PauseDownload(p) ==
    IF p.post /\ p.download THEN p
    ELSE [p EXCEPT !.post = ~p.download, !.download = TRUE, !.sched = FALSE]

\* mutant: the pause is undone only if it is still there
UnpauseDownloadIfPaused(p) ==
    IF p.post /\ p.download
    THEN [p EXCEPT !.post = FALSE, !.download = p.sched, !.sched = FALSE, !.late = FALSE]
    ELSE p

UnpauseDownload(p) ==
    IF p.post
    THEN [p EXCEPT !.post = FALSE, !.download = p.sched, !.sched = FALSE, !.late = FALSE]
    ELSE p

SetPauseDownload ==
    /\ "pauseDownload" \in Requests
    /\ pr' = [pr EXCEPT !.download = ~@]
    /\ UNCHANGED <<dq, busy, parThread, parRunning, parJob, outcomes>>

\* A task of the scheduler; the register is left alone while the post-processor
\* has set it.
ApplySchedulerState ==
    /\ \E pause \in BOOLEAN :
           pr' = IF pr.post THEN [pr EXCEPT !.sched = pause] ELSE [pr EXCEPT !.download = pause]
    /\ UNCHANGED <<dq, busy, parThread, parRunning, parJob, outcomes>>

-----------------------------------------------------------------------------
(* Files.                                                                  *)

\* The volumes to pause if one par-file shall be loaded: the smallest volume is
\* loaded if there is no par-file without blocks.
ExtraPars(group) ==
    LET vols == group \intersect Volumes
    IN  IF \E f \in group : IsPar(f) /\ f \notin vols THEN {vols}
        ELSE {vols \ {f} : f \in vols} \union (IF vols = {} THEN {{}} ELSE {})

Add(n) ==
    /\ Of(n) \intersect UNION {dq.files, dq.parked, dq.freed} = {}
    /\ \E pars \in IF LoadPars = "all" THEN {{}}
                   ELSE IF LoadPars = "one" \/ ParCheck THEN ExtraPars(Of(n))
                   ELSE {{f \in Of(n) : IsPar(f)}} :
           dq' = [dq EXCEPT !.files = @ \union Of(n), !.paused = @ \union pars]
    /\ UNCHANGED <<busy, pr, parThread, parRunning, parJob, outcomes>>

StartDownload(f) ==
    /\ f \in dq.files \ UNION {dq.paused, dq.marked, busy} /\ ~pr.download
    /\ busy' = busy \union {f}
    /\ UNCHANGED <<dq, pr, parThread, parRunning, parJob, outcomes>>

\* The active downloads end and leave articles to be downloaded.
Interrupt(f) ==
    /\ f \in busy \ dq.marked
    /\ busy' = busy \ {f}
    /\ UNCHANGED <<dq, pr, parThread, parRunning, parJob, outcomes>>

\* The last active download ends, of a file that is complete or was deleted.
Complete(f) ==
    LET done == f \notin dq.marked
        new == IF done THEN {f} ELSE {}
        q == [dq EXCEPT !.marked = @ \union {f}, !.disk = @ \union new]
    IN  /\ f \in busy
        /\ ~dq.nzb[NzbOf[f]].postProcess \/ AllowReProcess => RoomForJobs(q, NzbOf[f])
        /\ busy' = busy \ {f}
        /\ dq' = DeleteFileInfo(QueueCoordinatorUpdate(q, f, done), f)
        /\ pr' = IF done /\ IsForParCheck(dq, f) /\ ParPauseQueue
                 THEN LET p == PauseDownload(pr)
                      IN  [p EXCEPT !.late =
                              p.post /\ \A t \in ParThreads : parThread[t] # "checking"]
                 ELSE pr
        /\ UNCHANGED <<parThread, parRunning, parJob, outcomes>>

\* A thread of the par-checker outlives its job, whose memory is used for something else.
JobMemoryReused ==
    /\ parRunning /\ parJob \notin ToSet(dq.post)
    /\ \E n \in Collections, s \in ParSets :
           dq' = [dq EXCEPT !.job[parJob].nzb = n, !.job[parJob].set = s]
    /\ UNCHANGED <<busy, pr, parThread, parRunning, parJob, outcomes>>

\* Requests of users that the queue editor carries out.
EditFiles ==
    /\ \/ \E f \in dq.files :
             \/ "deleteFile" \in Requests /\ dq' = DeleteQueueEntry(dq, f)
             \/ /\ "pauseFile" \in Requests /\ (f \in busy => "pauseBusy" \in Requests)
                /\ dq' = [dq EXCEPT !.paused = @ \union {f}]
             \/ "resumeFile" \in Requests /\ dq' = [dq EXCEPT !.paused = @ \ {f}]
       \/ \E n \in Collections :
             /\ "deleteGroup" \in Requests /\ Group(dq, n) # {}
             /\ dq' = GroupDelete(dq, n)
    /\ UNCHANGED <<busy, pr, parThread, parRunning, parJob, outcomes>>

-----------------------------------------------------------------------------
(* The post-queue.                                                         *)

StartParJob(q, id) ==
    \E t \in ParThreads :
        /\ parThread[t] = "off"
        /\ parThread' = [parThread EXCEPT ![t] = "checking"]
        /\ parRunning' = TRUE /\ parJob' = id
        /\ pr' = IF ParPauseQueue THEN PauseDownload(pr) ELSE pr
        /\ dq' = [q EXCEPT !.job[id].working = TRUE]
        /\ UNCHANGED outcomes

StartScriptJob(q, id) ==
    /\ IF ~PostScript
       THEN dq' = [q EXCEPT !.job[id].stage = "finished"] /\ UNCHANGED pr
       ELSE /\ dq' = [q EXCEPT !.job[id].working = TRUE, !.job[id].stage = "script",
                               !.job[id].last =
                                   IsNZBFileCompleted(q, q.job[id].nzb, TRUE, TRUE, FALSE)]
            /\ pr' = IF PostPauseQueue THEN PauseDownload(pr) ELSE pr
    /\ UNCHANGED <<parThread, parRunning, parJob, outcomes>>

WithScript(j) ==
    IF j.script = "none" THEN outcomes
    ELSE [outcomes EXCEPT ![j.nzb] = @ \union {<<"script", j.script>>}]

FinishJob(q, id) ==
    /\ dq' = JobCompleted(q, id)
    /\ outcomes' = WithScript(q.job[id])
    /\ pr' = IF PostScript /\ PostPauseQueue THEN UnpauseDownload(pr) ELSE pr
    /\ UNCHANGED <<parThread, parRunning, parJob>>

\* What the script of the first job has asked for.
Requested(q, id) ==
    LET j == q.job[id]
    IN  IF j.request = "all" THEN CreatePostJobs(q, j.nzb, TRUE, FALSE, TRUE)
        ELSE IF j.request = "current" /\ ~j.parCheck
        THEN [q EXCEPT !.job[id].parCheck = TRUE, !.job[id].request = "none",
                       !.job[id].stage = "queued"]
        ELSE q

\* The main loop looks at the first job of the queue.  (Users set and reset the option
\* PausePostProcess at any time.)
CheckPostQueue ==
  \E pausePost \in BOOLEAN :
    /\ dq.post # <<>> /\ ~dq.job[Head(dq.post)].working
    /\ LET j == dq.job[Head(dq.post)] IN j.request = "all" => RoomForJobs(dq, j.nzb)
    /\ LET id == Head(dq.post)
           q == Requested(dq, id)
           j == q.job[id]
           check == j.parCheck /\ j.par = "none" /\ ~pausePost
       IN  \/ check /\ StartParJob(q, id)
           \/ ~check /\ j.stage = "queued" /\ ~pausePost /\ StartScriptJob(q, id)
           \/ ~check /\ j.stage = "finished" /\ FinishJob(q, id)
           \/ ~check /\ j.stage = "queued" /\ pausePost /\ dq' = q /\ q # dq
              /\ UNCHANGED <<pr, parThread, parRunning, parJob, outcomes>>
    /\ UNCHANGED busy

\* RequestMorePars: the par-checker wants more par-files.
RequestMorePars(t) ==
    /\ parThread[t] = "checking"
    /\ \E pars \in SUBSET (Group(dq, dq.job[parJob].nzb) \intersect Volumes) :
           pars # {} /\ dq' = [dq EXCEPT !.paused = @ \ pars]
    /\ pr' = IF ParPauseQueue THEN UnpauseDownload(pr) ELSE pr
    /\ UNCHANGED <<busy, parThread, parRunning, parJob, outcomes>>

\* mutant: a success hides the failure of another set
AddParStatusLast(new, all) == new

\* The result of a par-check, added to that of the collection's others.
AddParStatus(new, all) ==
    IF new = "failure" THEN "failure"
    ELSE IF new = "success" THEN IF all = "none" THEN "success" ELSE all
    ELSE IF all # "failure" THEN "possible" ELSE all

ParCheckerUpdate(t) ==
    LET n == dq.job[parJob].nzb
    IN  /\ parThread[t] = "checking"
        /\ \E r \in {"failure", "success"} \union (IF ParRepair THEN {} ELSE {"possible"}) :
               /\ dq' = [dq EXCEPT !.job[parJob].working = FALSE,
                                   !.job[parJob].par = r,
                                   !.job[parJob].stage =
                                       IF dq.job[parJob].deleted THEN "finished" ELSE "queued",
                                   !.nzb[n].par = AddParStatus(r, @)]
               /\ outcomes' = [outcomes EXCEPT ![n] = @ \union {<<"par", r>>}]
        /\ parThread' = [parThread EXCEPT ![t] = "reported"]
        /\ UNCHANGED <<busy, pr, parRunning, parJob>>

\* After that, without the mutex of the queue, the download goes on ...
UnpauseAfterCheck(t) ==
    /\ parThread[t] = "reported"
    /\ parThread' = [parThread EXCEPT ![t] = "leaving"]
    /\ pr' = IF ParPauseQueue /\ ~(PostPauseQueue /\ PostScript) THEN UnpauseDownload(pr)
             ELSE pr
    /\ UNCHANGED <<dq, busy, parRunning, parJob, outcomes>>

\* ... and the thread ends.
ParThreadEnds(t) ==
    /\ parThread[t] = "leaving"
    /\ parThread' = [parThread EXCEPT ![t] = "off"]
    /\ parRunning' = FALSE
    /\ dq' = [dq EXCEPT !.job[parJob] = IF parJob \in ToSet(dq.post) THEN @ ELSE {}]
    /\ UNCHANGED <<busy, pr, parJob, outcomes>>

\* The script of a job ends or is stopped; it may ask for a par-check.
ScriptEnds(id) ==
    LET j == dq.job[id]
    IN  /\ id \in ToSet(dq.post) /\ j.working /\ j.stage = "script"
        /\ \E request \in {"none", "current", "all"}, r \in ScriptResults :
               /\ request # "none" => r = "success" /\ ~j.parCheck
               /\ request = "all" => j.last
               /\ request = "current" => j.set # NoSet
               /\ dq' = [dq EXCEPT !.job[id].script = r, !.job[id].request = request,
                                   !.job[id].last = FALSE,
                                   !.job[id].stage = "finished", !.job[id].working = FALSE]
        /\ UNCHANGED <<busy, pr, parThread, parRunning, parJob, outcomes>>

-----------------------------------------------------------------------------
(* Requests of users for the post-queue and the history.                    *)

\* A job at work is told to stop, another one is removed.
PostQueueDelete(id) ==
    LET j == dq.job[id]
    IN  /\ id \in ToSet(dq.post)
        /\ "deleteJob" \in Requests
        /\ \/ j.working /\ dq' = [dq EXCEPT !.job[id].deleted = TRUE] /\ UNCHANGED outcomes
           \/ /\ ~j.working
              /\ dq' = JobCompleted(dq, id)
              /\ outcomes' = WithScript(j)
        /\ UNCHANGED <<busy, pr, parThread, parRunning, parJob>>

\* mutant: the job is inserted at its new place, but not taken from the old one
PostQueueMoveCopy(from, to) ==
    /\ from \in DOMAIN dq.post /\ to \in DOMAIN dq.post \ {1, from}
    /\ "move" \in Requests
    /\ from = 1 => "moveFirst" \in Requests
    /\ dq' = [dq EXCEPT !.post = InsertAt(@, to, @[from])]
    /\ UNCHANGED <<busy, pr, parThread, parRunning, parJob, outcomes>>

\* mutant: a job may be moved to the first place
PostQueueMoveTop(from, to) ==
    /\ from \in DOMAIN dq.post /\ to \in DOMAIN dq.post \ {from}
    /\ "move" \in Requests
    /\ from = 1 => "moveFirst" \in Requests
    /\ dq' = [dq EXCEPT !.post = InsertAt(RemoveAt(@, from), to, @[from])]
    /\ UNCHANGED <<busy, pr, parThread, parRunning, parJob, outcomes>>

\* A job is moved, but never to the first place.
PostQueueMove(from, to) ==
    /\ from \in DOMAIN dq.post /\ to \in DOMAIN dq.post \ {1, from}
    /\ "move" \in Requests
    /\ from = 1 => "moveFirst" \in Requests
    /\ dq' = [dq EXCEPT !.post = InsertAt(RemoveAt(@, from), to, @[from])]
    /\ UNCHANGED <<busy, pr, parThread, parRunning, parJob, outcomes>>

HistoryDelete(n) ==
    /\ "historyDelete" \in Requests /\ n \in dq.history
    /\ LET gone == dq.parked \intersect Of(n)
       IN  dq' = [dq EXCEPT !.parked = @ \ gone, !.freed = @ \union gone,
                            !.history = @ \ {n}]
    /\ UNCHANGED <<busy, pr, parThread, parRunning, parJob, outcomes>>

\* An entry of the history expires; parked files stay behind.
CheckHistory(n) ==
    /\ n \in dq.history
    /\ dq' = [dq EXCEPT !.history = @ \ {n}]
    /\ UNCHANGED <<busy, pr, parThread, parRunning, parJob, outcomes>>

\* mutant: the entry is not taken from the history
HistoryReturnKept(n, reprocess) ==
    LET back == dq.parked \intersect Of(n)
        q == [dq EXCEPT !.files = @ \union back, !.parked = @ \ back,
                        !.nzb[n] = [@ EXCEPT !.postProcess = FALSE, !.par = "none",
                                             !.parCleanup = FALSE, !.script = "none"]]
    IN  /\ (IF reprocess THEN "historyProcess" ELSE "historyReturn") \in Requests
        /\ n \in dq.history
        /\ reprocess => RoomForJobs(q, n)
        /\ dq' = IF reprocess THEN NZBDownloaded(q, n) ELSE q
        /\ outcomes' = [outcomes EXCEPT ![n] = {}]
        /\ UNCHANGED <<busy, pr, parThread, parRunning, parJob>>

\* The parked files return to the queue, and the collection may be processed again.
\* (If there are none, the collection stays in the history with its results reset.)
HistoryReturn(n, reprocess) ==
    LET back == dq.parked \intersect Of(n)
        q == [dq EXCEPT !.files = @ \union back, !.parked = @ \ back,
                        !.nzb[n] = [@ EXCEPT !.postProcess = FALSE, !.par = "none",
                                             !.parCleanup = FALSE, !.script = "none"]]
    IN  /\ (IF reprocess THEN "historyProcess" ELSE "historyReturn") \in Requests
        /\ n \in dq.history
        /\ reprocess => RoomForJobs(q, n)
        /\ dq' = IF back = {} /\ ~reprocess THEN q
                 ELSE LET r == [q EXCEPT !.history = @ \ {n}]
                      IN  IF reprocess THEN NZBDownloaded(r, n) ELSE r
        /\ outcomes' = [outcomes EXCEPT ![n] = {}]
        /\ UNCHANGED <<busy, pr, parThread, parRunning, parJob>>

Next ==
    \/ SetPauseDownload \/ ApplySchedulerState
    \/ EditFiles \/ CheckPostQueue \/ JobMemoryReused
    \/ \E f \in Files : StartDownload(f) \/ Interrupt(f) \/ Complete(f)
    \/ \E id \in Ids : ScriptEnds(id) \/ PostQueueDelete(id)
    \/ \E from, to \in Ids : PostQueueMove(from, to)
    \/ \E t \in ParThreads : \/ RequestMorePars(t) \/ ParCheckerUpdate(t)
                             \/ UnpauseAfterCheck(t) \/ ParThreadEnds(t)
    \/ \E n \in Collections :
           \/ Add(n) \/ HistoryDelete(n) \/ CheckHistory(n)
           \/ \E reprocess \in BOOLEAN : HistoryReturn(n, reprocess)

Spec == Init /\ [][Next]_vars

-----------------------------------------------------------------------------
(* Properties.                                                             *)

\* One job at a time is at work, the first one, and a running par-check works on it.
OneJobAtWork ==
    /\ \A i \in DOMAIN dq.post : dq.job[dq.post[i]].working => i = 1
    /\ \A t, u \in ParThreads : parThread[t] = "checking" =>
           /\ parThread[u] = "checking" => t = u
           /\ parRunning
           /\ dq.post # <<>> /\ parJob = Head(dq.post) /\ dq.job[parJob].working

\* A file is in the queue, parked or freed, and in one of these places only, whatever
\* list it is moved to while its downloads go on.
FilesInOneList ==
    /\ dq.files \intersect dq.parked = {}
    /\ dq.freed \intersect (dq.files \union dq.parked) = {}

\* A collection in the history has nothing left to download: its files are done with or
\* parked, unless they are deleted as soon as their downloads end.
HistoryIsDone == \A n \in dq.history : Group(dq, n) \subseteq dq.marked

\* When the job at the head of the post-queue leaves it and was the last one of its
\* collection, the collection goes to the history unless there is something left to
\* download.
ProcessedIsRecorded ==
    [][\A n \in Collections :
          dq.post # <<>> /\ dq.job[Head(dq.post)].nzb = n /\ ~HasJob(dq', n) =>
          n \in dq'.history \/ ~IsNZBFileCompleted(dq', n, TRUE, FALSE, FALSE)]_vars

\* When the last file of a deleted collection leaves the queue, in whatever order its
\* downloads end, the collection goes to the history, or is still to be processed.
DeletedIsRecorded ==
    [][\A n \in Collections :
          dq.nzb[n].deleted /\ ~dq.nzb[n].parCleanup /\ Group(dq, n) # {} /\ Group(dq', n) = {}
              => \/ n \in dq'.history \/ HasJob(dq', n)
                 \/ parRunning /\ parJob \notin ToSet(dq.post)]_vars

\* The par-files that are left are discarded only if no par-check of the collection
\* has failed, or if all of its scripts were successful.
CleansUpOnlyIfGood ==
    [][\A n \in Collections : dq'.nzb[n].parCleanup /\ ~dq.nzb[n].parCleanup =>
          LET of(kind) == {r \in {"unknown", "failure", "success", "possible"} :
                              <<kind, r>> \in outcomes'[n]}
          IN  \/ of("par") # {} /\ "failure" \notin of("par")
              \/ of("script") = {"success"}]_vars

\* The download is not left paused by the post-processor when nothing is processed, a
\* pause for a par-file that came when its check was just over aside.
PauseIsUndone ==
    pr.post /\ ~pr.late => dq.post # <<>> \/ \E t \in ParThreads : parThread[t] # "off"

\* A collection that is deleted when only par-files of it are left keeps its files on
\* the disk.
KeepsFilesIfParsAreLeft ==
    [][\A n \in Collections :
          dq'.nzb[n].deleted /\ ~dq.nzb[n].deleted /\ (\A f \in Group(dq, n) : IsPar(f))
              => dq.disk \intersect Of(n) \subseteq dq'.disk]_vars
=============================================================================
