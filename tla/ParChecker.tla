----------------------------- MODULE ParChecker -----------------------------
(***************************************************************************)
(* ParChecker.cpp: the thread that verifies a collection.  If it lacks      *)
(* recovery blocks it asks the post-processor for par-files that wait       *)
(* paused in the download queue (PrePostProcessor::RequestMorePars), and    *)
(* waits for a word that they have arrived (AddParFile) or that the queue   *)
(* has changed (QueueChanged).  Stop of the post-processor waits for it     *)
(* with the queue locked.                                                   *)
(*                                                                         *)
(* What libpar2 computes is reduced to the number of blocks that a set      *)
(* lacks.  The library of this build cannot be cancelled (config.h), so     *)
(* that a job that is deleted while it is checked goes on.                  *)
(***************************************************************************)
EXTENDS Integers, FiniteSets, Sequences, SequencesExt, FiniteSetsExt

CONSTANTS
    Vols,              \* par-files with blocks, in the order of the queue
    Blocks,            \* how many blocks each has
    SameName,          \* those whose name in the queue is of the set that is checked
    SimilarName,       \* those whose name in the queue contains the name of the set
    SameParCollection, \* those that are of the set by their name when they are downloaded
    StrictParName,     \* the option
    Missing            \* the numbers of blocks that a set lacks when it is checked

ASSUME ParAssumption ==
    /\ Vols \in Seq(ToSet(Vols)) /\ IsInjective(Vols)
    /\ \A v \in ToSet(Vols) : Blocks[v] \in Nat \ {0}
    /\ SameName \subseteq ToSet(Vols) /\ SimilarName \subseteq ToSet(Vols)
    /\ SameParCollection \subseteq ToSet(Vols)
    /\ StrictParName \in BOOLEAN /\ Missing \subseteq Nat

VARIABLES
    queue,     \* the par-files in the download queue
    paused,    \* those that are paused
    postPaused, \* option PausePostProcess
    at,        \* where the thread of the par-checker is
    missing,   \* blocks the set lacks, as the thread knows
    queued,    \* m_QueuedParFiles
    changed,   \* m_bQueuedParFilesChanged
    pp,        \* where the thread of the post-processor is
    stop,      \* where PrePostProcessor::Stop is; "holding": it waits with the queue locked
    stopped,   \* m_bStopped of the par-checker
    asked,     \* history: what the last request was granted
    arrived,   \* history: files that this check has asked for, that came in and were not loaded
    broken,    \* history: files in m_QueuedParFiles that came in without their blocks
    missed,    \* history: files that left while the thread was about to wait for them
    escaped    \* history: a check was started, or survived its kill, after the stop

queueVars == <<queue, paused, postPaused>>
checkerVars == <<at, missing, queued, changed, stopped>>
history == <<asked, arrived, broken, missed, escaped>>
vars == <<queueVars, checkerVars, pp, stop, history>>

Unlocked == stop # "holding"
IsRunning == at \notin {"idle", "killed"}
SumBlocks(files) == MapThenSumSet(LAMBDA v : Blocks[v], files)

Init ==
    /\ queue = ToSet(Vols) /\ paused = ToSet(Vols) /\ postPaused = FALSE
    /\ at = "idle" /\ missing = 0 /\ queued = {} /\ changed = FALSE /\ stopped = FALSE
    /\ pp = "loop" /\ stop = "no"
    /\ asked = {} /\ arrived = {} /\ broken = {} /\ missed = {} /\ escaped = FALSE

-----------------------------------------------------------------------------
(* What to ask for.                                                         *)

Enough(files, needed) == SumBlocks(files) >= needed

\* Files with names that fit less and less are looked at while there are not enough.
Candidates(needed) ==
    LET same == queue \intersect SameName
        similar == same \union (queue \intersect SimilarName)
    IN  CASE Enough(same, needed) -> same
          [] ~Enough(same, needed) /\ (Enough(similar, needed) \/ StrictParName) -> similar
          [] OTHER -> queue

\* The order in which FindPars puts them into its list.
Position(v) == CHOOSE i \in DOMAIN Vols : Vols[i] = v
Fit(v) == IF v \in SameName THEN 1 ELSE IF v \in SimilarName THEN 2 ELSE 3
FoundBefore(v, w) == Fit(v) < Fit(w) \/ (Fit(v) = Fit(w) /\ Position(v) < Position(w))
TakenBefore(v, w) == Blocks[v] > Blocks[w] \/ (Blocks[v] = Blocks[w] /\ FoundBefore(v, w))

\* The first round takes the largest files first, if they are not larger than what is
\* still needed then.
FirstRound(taken, files, needed) ==
    \A v \in files :
        v \in taken <=> SumBlocks({w \in taken : TakenBefore(w, v)} \union {v}) <= needed

\* mutant: the first round is the only one
ChosenInOneRound(chosen, files, needed) ==
    \E taken \in SUBSET files : FirstRound(taken, files, needed) /\ chosen = taken

\* If that is not enough, the second round takes the first of the others, which are all
\* larger than what is left.
Chosen(chosen, files, needed) ==
    \E taken \in SUBSET files :
        /\ FirstRound(taken, files, needed)
        /\ \/ Enough(taken, needed) /\ chosen = taken
           \/ /\ ~Enough(taken, needed)
              /\ \E v \in files \ taken :
                     /\ \A w \in files \ (taken \union {v}) : FoundBefore(v, w)
                     /\ chosen = taken \union {v}

-----------------------------------------------------------------------------
(* The thread of the par-checker.                                           *)

\* The loop of Run: par-files that have come in are loaded, others are requested.
More == CASE stopped -> "report" [] ~stopped /\ queued # {} -> "load" [] OTHER -> "request"

\* UpdateParProgress locks the queue and then, if post-processing is paused, waits with
\* the queue unlocked until it is not, or the post-processor is to stop.  (The wait may be
\* left while Stop has the queue.)
ProgressReported ==
    IF postPaused THEN stop # "no" ELSE Unlocked

\* The verification reports its progress.
Process ==
    /\ at = "process" /\ ProgressReported
    /\ at' = IF missing <= 0 THEN "report" ELSE More
    /\ UNCHANGED <<queueVars, missing, queued, changed, stopped, pp, stop, history>>

Decide ==
    /\ at = "decide"
    /\ at' = More
    /\ UNCHANGED <<queueVars, missing, queued, changed, stopped, pp, stop, history>>

RequestMorePars ==
    LET files == Candidates(missing)
    IN  /\ at = "request" /\ Unlocked
        /\ \/ /\ Enough(files, missing) /\ at' = "granted"
              /\ asked' \in {chosen \in SUBSET files : Chosen(chosen, files, missing)}
           \/ ~Enough(files, missing) /\ at' = "refused" /\ asked' = {}
        /\ paused' = paused \ asked'
        /\ missed' = {}
        /\ UNCHANGED <<queue, postPaused, missing, queued, changed, stopped, pp, stop,
                       arrived, broken, escaped>>

\* The flag is reset after the request, and the list looked at again.  (If the request was
\* granted, the progress is reported first.)
LookAgain ==
    /\ at \in {"granted", "refused"} /\ (at = "granted" => ProgressReported)
    /\ at' = CASE queued # {} -> "load"
               [] queued = {} /\ at = "granted" -> "waiting"
               [] OTHER -> "report"
    /\ changed' = FALSE
    /\ UNCHANGED <<queueVars, missing, queued, stopped, pp, stop, history>>

StopWaiting ==
    /\ at = "waiting" /\ (changed \/ stopped)
    /\ at' = "load"
    /\ UNCHANGED <<queueVars, missing, queued, changed, stopped, pp, stop, history>>

LoadMorePars ==
    /\ at = "load" /\ ~stopped
    /\ missing' = missing - SumBlocks(queued \ broken)
    /\ queued' = {} /\ arrived' = arrived \ queued /\ broken' = {}
    /\ at' = IF queued = {} THEN "decide" ELSE "process"
    /\ UNCHANGED <<queueVars, changed, stopped, pp, stop, asked, missed, escaped>>

LoadStopped ==
    /\ at = "load" /\ stopped
    /\ at' = "report"
    /\ UNCHANGED <<queueVars, missing, queued, changed, stopped, pp, stop, history>>

\* PrePostProcessor::ParCheckerUpdate
ParCheckerUpdate ==
    /\ at = "report" /\ Unlocked
    /\ at' = "tail"
    /\ UNCHANGED <<queueVars, missing, queued, changed, stopped, pp, stop, history>>

Exit ==
    /\ at = "tail"
    /\ at' = "idle" /\ missing' = 0
    /\ asked' = {} /\ arrived' = {} /\ missed' = {}
    /\ UNCHANGED <<queueVars, queued, changed, stopped, pp, stop, broken, escaped>>

-----------------------------------------------------------------------------
(* The post-processor and the queue.                                        *)

AboutToWait == at = "granted"

\* mutant: a file that is deleted is none of its business
AddParDownloaded(v, deleted) ==
    /\ queued' = IF IsRunning /\ v \in SameParCollection /\ ~deleted THEN queued \union {v}
                 ELSE queued
    /\ changed' = (changed \/ ~deleted)

\* mutant: only a check that waits is told of the file
AddParWaiting(v, deleted) ==
    /\ queued' = IF at = "waiting" /\ v \in SameParCollection /\ ~deleted
                 THEN queued \union {v} ELSE queued
    /\ changed' = TRUE

\* A file that was downloaded is added; of every other one the checker is only told that
\* the queue has changed.
AddPar(v, deleted) ==
    /\ queued' = IF IsRunning /\ v \in SameParCollection /\ ~deleted THEN queued \union {v}
                 ELSE queued
    /\ changed' = TRUE

\* A file leaves the queue, downloaded or deleted, and the post-processor is notified.
\* Stopped, it ignores the notification.
FileLeaves(v, deleted, good) ==
    /\ Unlocked /\ v \in queue
    /\ queue' = queue \ {v} /\ paused' = paused \ {v}
    /\ IF stop = "no" THEN AddPar(v, deleted) ELSE UNCHANGED <<queued, changed>>
    /\ broken' = IF good \/ v \notin queued' THEN broken ELSE broken \union {v}
    /\ arrived' = IF stop = "no" /\ IsRunning /\ ~deleted /\ v \in asked
                  THEN arrived \union {v} ELSE arrived
    /\ missed' = IF AboutToWait /\ v \in asked THEN missed \union {v} ELSE missed
    /\ UNCHANGED <<postPaused, at, missing, stopped, pp, stop, asked, escaped>>

\* Users pause a par-file again; nobody is told.
PauseEntry(v) ==
    /\ Unlocked /\ v \in queue \ paused
    /\ paused' = paused \union {v}
    /\ UNCHANGED <<queue, postPaused, checkerVars, pp, stop, history>>

\* Users pause and resume post-processing; this needs no lock.
PausePostProcess ==
    /\ postPaused' = ~postPaused
    /\ UNCHANGED <<queue, paused, checkerVars, pp, stop, history>>

\* Another file leaves the queue.
QueueChanged ==
    /\ Unlocked /\ stop = "no" /\ ~changed
    /\ changed' = TRUE
    /\ UNCHANGED <<queueVars, at, missing, queued, stopped, pp, stop, history>>

\* The loop of PrePostProcessor::Run looks whether it is to stop, ...
LoopTop ==
    /\ pp = "loop" /\ stop = "no"
    /\ pp' = "round"
    /\ UNCHANGED <<queueVars, checkerVars, stop, history>>

\* ... and starts a check if there is a job for one and post-processing is not paused,
\* whether it is to stop by now or not.
\* (That it may do so while the thread of the last check is still ending is left out.)
StartParJob(m) ==
    /\ pp = "round" /\ Unlocked /\ at = "idle" /\ ~postPaused
    /\ pp' = "loop" /\ at' = "process" /\ missing' = m
    /\ escaped' = (stop = "done")
    /\ UNCHANGED <<queueVars, queued, changed, stopped, stop, asked, arrived, broken, missed>>

NoParJob ==
    /\ pp = "round" /\ Unlocked
    /\ pp' = "loop"
    /\ UNCHANGED <<queueVars, checkerVars, stop, history>>

\* The loop ends when the flag is up, whether Stop has done its work by then or not; then
\* the jobs are freed, and the post-processor's thread is over.
Cleanup ==
    /\ pp = "loop" /\ stop # "no" /\ Unlocked
    /\ pp' = "gone"
    /\ UNCHANGED <<queueVars, checkerVars, stop, history>>

\* The flag is raised before Stop asks for the lock.
StopFlag ==
    /\ stop = "no"
    /\ stop' = "flag"
    /\ UNCHANGED <<queueVars, checkerVars, pp, history>>

\* mutant: the par-checker is not waited for
StopCheckerOnly ==
    /\ stop = "flag"
    /\ stop' = "done"
    /\ stopped' = IF IsRunning THEN TRUE ELSE stopped
    /\ UNCHANGED <<queueVars, at, missing, queued, changed, pp, history>>

StopChecker ==
    /\ stop = "flag"
    /\ IF IsRunning THEN stop' = "holding" /\ stopped' = TRUE
                    ELSE stop' = "done" /\ UNCHANGED stopped
    /\ UNCHANGED <<queueVars, at, missing, queued, changed, pp, history>>

StopSeesExit ==
    /\ stop = "holding" /\ ~IsRunning
    /\ stop' = "done"
    /\ UNCHANGED <<queueVars, checkerVars, pp, history>>

\* mutant: the wait has no end
StopWaits(ended) ==
    /\ stop = "holding" /\ IsRunning
    /\ UNCHANGED vars

\* After five seconds the thread is killed; on Android the signal that stands for
\* pthread_cancel need not end it.
StopKills(ended) ==
    /\ stop = "holding" /\ IsRunning
    /\ stop' = "done"
    /\ at' = IF ended THEN "killed" ELSE at
    /\ escaped' = (escaped \/ ~ended)
    /\ UNCHANGED <<queueVars, missing, queued, changed, stopped, pp,
                   asked, arrived, broken, missed>>

-----------------------------------------------------------------------------
\* What a check does whose job is freed is not defined.
Check ==
    /\ pp # "gone"
    /\ \/ Process \/ Decide \/ RequestMorePars \/ LookAgain \/ StopWaiting
       \/ LoadMorePars \/ LoadStopped \/ ParCheckerUpdate \/ Exit

Files ==
    /\ pp # "gone"
    /\ \/ \E v \in queue, deleted \in BOOLEAN, good \in BOOLEAN :
              FileLeaves(v, deleted, good)
       \/ \E v \in queue : PauseEntry(v)
       \/ QueueChanged

PostProcess ==
    \/ LoopTop \/ NoParJob \/ Cleanup
    \/ \E m \in Missing : StartParJob(m)

Stop == StopFlag \/ StopChecker \/ StopSeesExit \/ \E ended \in BOOLEAN : StopKills(ended)

Next == Check \/ Files \/ PausePostProcess \/ PostProcess \/ Stop

\* A file that is not paused for good is downloaded some time (downloads as a whole are
\* not paused for good either).
Downloaded(v) ==
    pp # "gone" /\ v \notin paused /\ \E good \in BOOLEAN : FileLeaves(v, FALSE, good)

\* The threads go on; the wait of Stop ends after five seconds.
Fairness ==
    /\ WF_vars(Check) /\ WF_vars(Cleanup)
    /\ WF_vars(StopChecker) /\ WF_vars(StopSeesExit \/ \E ended \in BOOLEAN : StopKills(ended))
    /\ \A v \in ToSet(Vols) : SF_vars(Downloaded(v))

Spec == Init /\ [][Next]_vars /\ Fairness

-----------------------------------------------------------------------------
(* Properties.                                                              *)

\* A check that waits, and has not been told of anything, waits for files that can still
\* come: everything it was granted is in the queue.  The files that leave between the
\* request and the reset of the flag are the exception: their notice is lost
\* (ParChecker.cpp:236), and the check may wait for nothing.
WaitsForSomething ==
    at = "waiting" /\ ~changed /\ stop = "no" => asked \subseteq queue \union missed

\* What a check has asked for and what has come in is loaded, or still to be loaded
\* (LoadMorePars), whenever it came in.
ArrivedParsAreUsed == arrived \subseteq queued

Usable == {v \in queue : v \in SameName \union SimilarName \/ ~StrictParName}

\* A request that is granted leaves enough blocks unpaused, and asks for files with other
\* names only if those with the right ones are not enough; a check gives up only if, at
\* that moment, no file is waiting to be loaded and the whole queue has not enough.
RequestIsRight ==
    [][/\ at = "request" /\ at' = "granted" =>
             /\ SumBlocks(asked') >= missing /\ asked' \subseteq Usable \ paused'
             /\ SumBlocks(SameName \intersect queue) >= missing => asked' \subseteq SameName
       /\ at = "refused" /\ at' = "report" =>
             queued = {} /\ SumBlocks(Usable) < missing]_vars

\* When Stop is done, the check has ended or was killed, in whatever round of the loop it
\* was started, and although it needs the queue that Stop keeps locked; except for one that
\* was started by a round which Stop has overtaken, or could not be killed.
StopEndsCheck == stop = "done" /\ IsRunning => escaped

HeldByUser == at = "waiting" /\ asked \intersect paused # {}

\* Every check ends, whatever happens to the queue, if users do not pause post-processing
\* again and again or for good; unless they pause what the check has asked for, the notice
\* of a change was lost (see WaitsForSomething), or it has escaped Stop and lost its job.
ChecksEnd ==
    <>[]~postPaused =>
        (IsRunning ~> \/ ~IsRunning \/ HeldByUser \/ missed # {}
                      \/ escaped /\ pp = "gone")
=============================================================================
