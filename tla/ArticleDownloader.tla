------------------------- MODULE ArticleDownloader -------------------------
(***************************************************************************)
(* ArticleDownloader.cpp: the threads that download the articles of one    *)
(* file.  Each asks the servers of one level after the other until its     *)
(* retries are used up; they share the connections of the pool and the     *)
(* output file, which is guarded by FileInfo.m_mutexOutputFile.            *)
(*                                                                         *)
(* Articles are yEnc-encoded and decoded.  What the servers answer, what   *)
(* the decoder and the file system find, is any of the outcomes the code   *)
(* tells apart.                                                            *)
(***************************************************************************)
EXTENDS Naturals, FiniteSets

CONSTANTS
    Downloaders,      \* ArticleDownloader objects
    MaxLevel,         \* ServerPool::GetMaxLevel
    Connections,      \* Connections[l]: connections of the servers of level l
    NoLevel,          \* the level of no connection
    Retries,          \* option Retries
    RetryOnCrcError, ContinuePartial, DupeCheck, DirectWrite,   \* options
    Watchdog,         \* option TerminateTimeout is set
    OnDisk,           \* a file of this name may exist already
    DiskFails         \* the output file may fail to be created

Levels == 0..MaxLevel

ASSUME DownloaderAssumption ==
    /\ MaxLevel \in Nat
    /\ Connections \in [Levels -> Nat]
    /\ NoLevel \notin Levels
    /\ Retries \in Nat
    /\ {RetryOnCrcError, ContinuePartial, DupeCheck, DirectWrite} \subseteq BOOLEAN
    /\ {Watchdog, OnDisk, DiskFails} \subseteq BOOLEAN

VARIABLES
    status,     \* m_eStatus; "none" without a thread, "leaving" after the report
    at,         \* where in Run, Download and PrepareFile the thread is
    result,     \* the local Status
    connected,  \* the local bConnected
    level,      \* the local level
    remained,   \* iRemainedDownloadRetries
    missing,    \* levels whose LevelStatus is adNotFound
    conn,       \* the level of m_pConnection
    duplicate,  \* downloads with m_bDuplicate
    locked,     \* m_mutexOutputFile of the file
    outputInit, \* m_bOutputInitialized of the file
    created,    \* how often the output file was created (history)
    halted,     \* downloads with m_bStopped
    closed,     \* no more downloads of the file are started
    pause       \* options PauseDownload || PauseDownload2

locals == <<result, connected, level, remained, missing, duplicate>>
file == <<locked, outputInit, created>>
inputs == <<halted, closed, pause>>
vars == <<status, at, locals, conn, file, inputs>>

Places == {"none", "start", "loop", "connect", "fetch", "body", "lockdupe", "dupe",
           "lockcreate", "create", "open", "write", "decode", "attempted", "wait",
           "judge", "report", "leaving"}

TypeOK ==
    /\ status \in [Downloaders -> {"none", "created", "running", "decoding", "finished",
                                   "failed", "retry", "leaving"}]
    /\ at \in [Downloaders -> Places]
    /\ result \in [Downloaders -> {"failed", "finished", "notfound", "connect", "crc", "fatal"}]
    /\ connected \in [Downloaders -> BOOLEAN]
    /\ level \in [Downloaders -> Levels]
    /\ remained \in [Downloaders -> Nat]
    /\ missing \in [Downloaders -> SUBSET Levels]
    /\ conn \in [Downloaders -> Levels \union {NoLevel}]
    /\ duplicate \subseteq Downloaders /\ halted \subseteq Downloaders
    /\ locked \in BOOLEAN /\ outputInit \in BOOLEAN
    /\ closed \in BOOLEAN /\ pause \in BOOLEAN
    /\ created \in Nat

Lent(l) == Cardinality({d \in Downloaders : conn[d] = l})
Exists(d) == status[d] # "none"
Holding == {d \in Downloaders : conn[d] # NoLevel}

Init ==
    /\ status = [d \in Downloaders |-> "none"]
    /\ at = [d \in Downloaders |-> "none"]
    /\ result = [d \in Downloaders |-> "failed"]
    /\ connected = [d \in Downloaders |-> FALSE]
    /\ level = [d \in Downloaders |-> 0]
    /\ remained = [d \in Downloaders |-> 0]
    /\ missing = [d \in Downloaders |-> {}]
    /\ conn = [d \in Downloaders |-> NoLevel]
    /\ duplicate = {} /\ halted = {}
    /\ locked = FALSE /\ outputInit = FALSE /\ created = 0
    /\ closed = FALSE /\ pause = FALSE

Goto(d, place) == at' = [at EXCEPT ![d] = place]
SetStatus(d, s) == status' = [status EXCEPT ![d] = s]
SetResult(d, r) == result' = [result EXCEPT ![d] = r]
FreeConnection(d) == conn' = [conn EXCEPT ![d] = NoLevel]

-----------------------------------------------------------------------------
(* What others do to the downloads of the file.                            *)

\* StartArticleDownload, with a connection of level 0.
Create(d) ==
    /\ ~Exists(d) /\ ~closed
    /\ Lent(0) < Connections[0]
    /\ SetStatus(d, "created") /\ Goto(d, "start")
    /\ conn' = [conn EXCEPT ![d] = 0]
    /\ UNCHANGED <<locals, file, inputs>>

\* The file is deleted, or the program stops: every download of it is stopped.
Cancel ==
    /\ ~closed
    /\ closed' = TRUE
    /\ halted' = {d \in Downloaders : Exists(d)}
    /\ UNCHANGED <<status, at, locals, conn, file, pause>>

SetPauseDownload ==
    /\ pause' = ~pause
    /\ UNCHANGED <<status, at, locals, conn, file, halted, closed>>

-----------------------------------------------------------------------------
(* Run: the loop over attempts.                                            *)

Begin(d) ==
    /\ at[d] = "start"
    /\ \/ ContinuePartial /\ SetStatus(d, "finished") /\ Goto(d, "report")
       \/ SetStatus(d, "running") /\ Goto(d, "loop")
    /\ remained' = [remained EXCEPT ![d] = IF Retries > 0 THEN Retries ELSE 1]
    /\ UNCHANGED <<result, connected, level, missing, duplicate, conn, file, inputs>>

\* The loop is left: the connection is freed and the outcome is known.
Finish(d, r) ==
    /\ SetStatus(d, IF d \in duplicate THEN "finished"
                    ELSE IF r \in {"finished", "retry"} THEN r ELSE "failed")
    /\ Goto(d, "report")
    /\ FreeConnection(d)
    /\ UNCHANGED <<locals, file, inputs>>

WantsMore(d) == d \notin halted /\ remained[d] > 0

\* A connection of the current level is polled for, unless there is still one.
Acquire(d) ==
    /\ at[d] = "loop" /\ WantsMore(d)
    /\ conn[d] = NoLevel /\ Lent(level[d]) < Connections[level[d]]
    /\ conn' = [conn EXCEPT ![d] = level[d]]
    /\ UNCHANGED <<status, at, locals, file, inputs>>

LoopTop(d) ==
    /\ at[d] = "loop"
    /\ \/ ~WantsMore(d) /\ Finish(d, "failed")
       \/ WantsMore(d) /\ conn[d] # NoLevel /\ pause /\ Finish(d, "retry")
       \/ /\ WantsMore(d) /\ conn[d] # NoLevel /\ ~pause
          /\ SetResult(d, "failed") /\ Goto(d, "connect")
          /\ UNCHANGED <<status, connected, level, remained, missing, duplicate,
                         conn, file, inputs>>

Connect(d) ==
    /\ at[d] = "connect"
    /\ \E ok \in BOOLEAN :
           /\ connected' = [connected EXCEPT ![d] = ok]
           /\ Goto(d, IF ok /\ d \notin halted THEN "fetch" ELSE "attempted")
    /\ UNCHANGED <<status, result, level, remained, missing, duplicate, conn, file, inputs>>

\* mutant: the connection is kept after a problem with the article
AfterAttemptKeeping(d) ==
    /\ at[d] = "attempted"
    /\ IF connected[d] /\ result[d] = "connect"
       THEN /\ connected' = [connected EXCEPT ![d] = FALSE]
            /\ SetResult(d, "failed")
       ELSE UNCHANGED <<connected, result>>
    /\ Goto(d, "wait")
    /\ UNCHANGED <<status, level, remained, missing, duplicate, conn, file, inputs>>

\* After a problem with the article the connection is released for others; after
\* one with the server it is kept, disconnected.
AfterAttempt(d) ==
    /\ at[d] = "attempted"
    /\ IF ~connected[d]
       THEN UNCHANGED <<connected, result, conn>>
       ELSE IF result[d] = "connect"
       THEN /\ connected' = [connected EXCEPT ![d] = FALSE]
            /\ SetResult(d, "failed")
            /\ UNCHANGED conn
       ELSE FreeConnection(d) /\ UNCHANGED <<connected, result>>
    /\ Goto(d, "wait")
    /\ UNCHANGED <<status, level, remained, missing, duplicate, file, inputs>>

\* mutant: an attempt that did not reach a server goes on to the next level
JudgeSkipping(d) ==
    /\ at[d] = "judge"
    /\ level' = [level EXCEPT ![d] = IF @ = MaxLevel THEN 0 ELSE @ + 1]
    /\ remained' = [remained EXCEPT ![d] = IF connected[d] THEN @ - 1 ELSE @]
    /\ Goto(d, "loop")
    /\ UNCHANGED <<status, result, connected, missing, duplicate, conn, file, inputs>>

\* mutant: an article-error is not counted either
JudgeUncounted(d) ==
    /\ at[d] = "judge"
    /\ IF d \in halted
       THEN Finish(d, "failed")
       ELSE Goto(d, "loop") /\ UNCHANGED <<status, locals, conn, file, inputs>>

\* mutant: a server that is not reached is tried again before a stop is looked at
JudgeReconnecting(d) ==
    /\ at[d] = "judge"
    /\ IF ~connected[d]
       THEN Goto(d, "connect") /\ UNCHANGED <<status, locals, conn, file, inputs>>
       ELSE Finish(d, IF d \in halted THEN "failed" ELSE result[d])

\* mutant: what another level has answered is not looked at
JudgeHasty(d) ==
    /\ at[d] = "judge"
    /\ Finish(d, IF d \in halted THEN "failed" ELSE result[d])

\* The interval between retries is over; pausing is looked at first ...
AfterWait(d) ==
    /\ at[d] = "wait"
    /\ IF pause
       THEN Finish(d, "retry")
       ELSE Goto(d, "judge") /\ UNCHANGED <<status, locals, conn, file, inputs>>

IsFinal(r) == r \in {"finished", "fatal"} \/ (r = "crc" /\ ~RetryOnCrcError)

\* ... then stopping, then the result.  Attempts that did not reach a server
\* are not counted and stay at their level.
Judge(d) ==
    LET gone == IF result[d] = "notfound" THEN missing[d] \union {level[d]}
                                          ELSE missing[d] \ {level[d]}
    IN  /\ at[d] = "judge"
        /\ IF d \in halted
           THEN Finish(d, "failed")
           ELSE IF IsFinal(result[d]) THEN Finish(d, result[d])
           ELSE IF gone = Levels THEN Finish(d, "notfound")
           ELSE /\ missing' = [missing EXCEPT ![d] = gone]
                /\ IF connected[d]
                   THEN /\ level' = [level EXCEPT ![d] = IF @ = MaxLevel THEN 0 ELSE @ + 1]
                        /\ remained' = [remained EXCEPT ![d] = @ - 1]
                   ELSE UNCHANGED <<level, remained>>
                /\ Goto(d, "loop")
                /\ UNCHANGED <<status, result, connected, duplicate, conn, file, inputs>>

-----------------------------------------------------------------------------
(* Download: one attempt.                                                  *)

Attempted(d, r) ==
    /\ SetResult(d, r) /\ Goto(d, "attempted")
    /\ UNCHANGED <<status, connected, level, remained, missing, duplicate, conn, inputs>>

Advance(d, from, to) ==
    /\ at[d] = from /\ Goto(d, to)
    /\ UNCHANGED <<status, locals, conn, inputs>>

\* The answer to the request of the article.
Fetch(d) ==
    \/ /\ at[d] = "fetch"
       /\ \E r \in {"connect", "notfound", "failed"} : Attempted(d, r)
       /\ UNCHANGED file
    \/ Advance(d, "fetch", "body") /\ UNCHANGED file

\* The article comes in until it breaks off, comes to an end without data (an
\* error that is final unless an earlier attempt has found the format), or to its
\* first line of data, for which the output file is prepared.
ReadHeader(d) ==
    /\ at[d] = "body"
    /\ \/ Attempted(d, "failed")
       \/ /\ d \notin halted
          /\ FreeConnection(d)
          /\ SetStatus(d, "decoding") /\ Goto(d, "attempted")
          /\ \E r \in {"fatal", "failed"} : SetResult(d, r)
          /\ UNCHANGED <<connected, level, remained, missing, duplicate, inputs>>
       \/ /\ d \notin halted
          /\ Advance(d, "body", IF DupeCheck THEN "lockdupe"
                                ELSE IF DirectWrite THEN "lockcreate" ELSE "open")
    /\ UNCHANGED file

LockOutputFile(d) ==
    /\ ~locked
    /\ Advance(d, "lockdupe", "dupe") \/ Advance(d, "lockcreate", "create")
    /\ locked' = TRUE
    /\ UNCHANGED <<outputInit, created>>

\* mutant: the mutex stays locked
CheckDupeForgetful(d) ==
    /\ Advance(d, "dupe", IF DirectWrite THEN "lockcreate" ELSE "open")
    /\ UNCHANGED file

\* The first article that comes so far finds out whether the file exists on
\* disk.  If it does, PrepareFile returns with the mutex locked.
CheckDupe(d) ==
    \/ /\ at[d] = "dupe" /\ ~outputInit /\ OnDisk
       /\ duplicate' = duplicate \union {d}
       /\ SetResult(d, "fatal") /\ Goto(d, "attempted")
       /\ UNCHANGED <<status, connected, level, remained, missing, conn, file, inputs>>
    \/ /\ Advance(d, "dupe", IF DirectWrite THEN "lockcreate" ELSE "open")
       /\ outputInit' = (outputInit \/ ~DirectWrite)
       /\ locked' = FALSE
       /\ UNCHANGED created

\* mutant: the flag is not set
CreateOutputUnmarked(d) ==
    /\ Advance(d, "create", "open")
    /\ created' = IF outputInit THEN created ELSE created + 1
    /\ locked' = FALSE
    /\ UNCHANGED outputInit

\* The first article creates the output file.  If this fails, PrepareFile
\* returns with the mutex locked.
CreateOutput(d) ==
    \/ /\ at[d] = "create" /\ ~outputInit /\ DiskFails
       /\ Attempted(d, "fatal")
       /\ UNCHANGED file
    \/ /\ Advance(d, "create", "open")
       /\ created' = IF outputInit THEN created ELSE created + 1
       /\ outputInit' = TRUE
       /\ locked' = FALSE

OpenFile(d) ==
    \/ Advance(d, "open", "write") /\ UNCHANGED file
    \/ at[d] = "open" /\ Attempted(d, "fatal") /\ UNCHANGED file

\* mutant: the connection is held while the article is decoded
ReadArticleHolding(d) ==
    /\ at[d] = "write" /\ d \notin halted
    /\ SetStatus(d, "decoding") /\ Goto(d, "decode")
    /\ UNCHANGED <<locals, conn, file, inputs>>

\* The rest of the article: it breaks off, cannot be written, or is complete;
\* then its connection is freed and it is decoded.
ReadArticle(d) ==
    /\ at[d] = "write"
    /\ \/ \E r \in {"failed", "fatal"} : Attempted(d, r)
       \/ /\ d \notin halted
          /\ FreeConnection(d)
          /\ SetStatus(d, "decoding") /\ Goto(d, "decode")
          /\ UNCHANGED <<locals, inputs>>
    /\ UNCHANGED file

DecodeCheck(d) ==
    /\ at[d] = "decode"
    /\ \E r \in {"finished", "crc", "failed"} : Attempted(d, r)
    /\ UNCHANGED file

-----------------------------------------------------------------------------
(* The end of a download.                                                  *)

\* SetStatus(final status) -> ArticleCompleted.  If the article has shown that
\* the file is a duplicate, the file is deleted and its downloads are stopped.
Report(d) ==
    /\ at[d] = "report"
    /\ SetStatus(d, "leaving") /\ Goto(d, "leaving")
    /\ IF d \in duplicate
       THEN /\ closed' = TRUE
            /\ halted' = {e \in Downloaders : Exists(e)}
       ELSE UNCHANGED <<halted, closed>>
    /\ UNCHANGED <<locals, conn, file, pause>>

ReleaseSkipped(d) ==
    /\ at[d] = "leaving" /\ conn[d] # NoLevel
    /\ FreeConnection(d)
    /\ UNCHANGED <<status, at, locals, file, inputs>>

Reset(d) ==
    /\ SetStatus(d, "none") /\ Goto(d, "none") /\ SetResult(d, "failed")
    /\ connected' = [connected EXCEPT ![d] = FALSE]
    /\ level' = [level EXCEPT ![d] = 0]
    /\ remained' = [remained EXCEPT ![d] = 0]
    /\ missing' = [missing EXCEPT ![d] = {}]
    /\ duplicate' = duplicate \ {d}
    /\ halted' = halted \ {d}
    /\ UNCHANGED <<file, closed, pause>>

Exit(d) ==
    /\ at[d] = "leaving" /\ conn[d] = NoLevel
    /\ Reset(d)
    /\ UNCHANGED conn

\* The watchdog terminates a download in status adRunning that has shown no
\* activity, and frees its connection; a mutex it has locked stays locked.
Terminate(d) ==
    /\ Watchdog /\ status[d] = "running"
    /\ Reset(d)
    /\ FreeConnection(d)

Step(d) ==
    \/ Begin(d) \/ Acquire(d) \/ LoopTop(d) \/ Connect(d) \/ Fetch(d) \/ ReadHeader(d)
    \/ LockOutputFile(d) \/ CheckDupe(d) \/ CreateOutput(d) \/ OpenFile(d)
    \/ ReadArticle(d) \/ DecodeCheck(d) \/ AfterAttempt(d) \/ AfterWait(d) \/ Judge(d)
    \/ Report(d) \/ ReleaseSkipped(d) \/ Exit(d)

Next ==
    \/ Cancel
    \/ SetPauseDownload
    \/ \E d \in Downloaders : Create(d) \/ Step(d) \/ Terminate(d)

Spec == Init /\ [][Next]_vars

(* The thread of a download runs, and its waits on the network end, if only *)
(* with a timeout.                                                          *)
FairSpec == Spec /\ \A d \in Downloaders : WF_vars(Step(d))

Reaches(d) == Connect(d) /\ connected'[d]
Answers(d) == Fetch(d) /\ (at'[d] = "body" \/ result'[d] # "connect")

(* Also, servers are reached and answer now and then, a download that polls *)
(* for a connection gets one, and one that waits for the output file too.   *)
Served ==
    \A d \in Downloaders :
        /\ SF_vars(Acquire(d) \/ LockOutputFile(d))
        /\ SF_vars(Reaches(d))
        /\ SF_vars(Answers(d))

-----------------------------------------------------------------------------
(* Properties.                                                             *)

\* The download does what the queue expects of it: it holds connections only
\* while it is at work on the network, ends with an outcome that fits, and leaves
\* nothing behind.
Contract == INSTANCE Downloads WITH phase <- status, holding <- Holding

ImplementsDownloads == Contract!Spec

\* A connection that is kept for another attempt is one of the level the attempt
\* is made at, and the answer is recorded for.
ConnectionOfLevel ==
    \A d \in Downloaders :
        at[d] \in Places \ {"leaving", "report"} /\ conn[d] # NoLevel => conn[d] = level[d]

\* After each retry the next level is used and after the last one level 0 again,
\* attempts that reached no server aside: level and retries never come apart.
LevelFollowsRetries ==
    \A d \in Downloaders : at[d] \in Places \ {"none", "start", "report", "leaving"} =>
        /\ remained[d] <= (IF Retries > 0 THEN Retries ELSE 1)
        /\ level[d] = ((IF Retries > 0 THEN Retries ELSE 1) - remained[d]) % (MaxLevel + 1)

\* A download that is not stopped gives its article up only if the article is
\* unusable, the retries are used up, or every level has said, when it was asked
\* last, that it does not have it.
GivesUpForAReason ==
    [][\A d \in Downloaders :
          status'[d] = "failed" /\ status[d] # "failed" =>
              \/ d \in halted
              \/ remained[d] = 0
              \/ IsFinal(result[d])
              \/ /\ result[d] = "notfound"
                 /\ Levels \ {level[d]} \subseteq missing[d]]_vars

\* The output file is created by one article only, however many reach their first
\* line at the same time, and is there when an article is written into it.
OutputCreatedOnce ==
    /\ created <= 1
    /\ DirectWrite => \A d \in Downloaders : at[d] \in {"open", "write"} => created = 1

\* The mutex of the output file is locked only while a download is inside.  (Not
\* so if the file exists on disk or cannot be created.)
OutputMutexIsOwned ==
    locked => \E d \in Downloaders : at[d] \in {"dupe", "create"}

\* A download that was told to stop ends, whatever the servers do.
CancelledDownloadsEnd == \A d \in Downloaders : d \in halted ~> at[d] = "none"

\* Every download ends, if servers can be reached now and then.
DownloadsEnd == Served => \A d \in Downloaders : at[d] = "start" ~> at[d] = "none"
=============================================================================
