-------------------------- MODULE PersistentQueue --------------------------
(***************************************************************************)
(* The download queue over crashes and restarts: who changes it, when it is *)
(* saved, and what is left of it when the program dies at any moment.  The  *)
(* handlers of QueueCoordinator.cpp, UrlCoordinator.cpp, PrePostProcessor.  *)
(* cpp and QueueEditor.cpp are modelled by what they do to the lists and to *)
(* the disk, in the order in which they do it; each runs with the queue     *)
(* locked, and the program may die between or inside its writes.           *)
(*                                                                         *)
(* How downloads and post-processing come to their results is the business *)
(* of QueueCoordinator.tla and PostProcessor.tla; here they have any.       *)
(***************************************************************************)
EXTENDS DiskState

CONSTANTS
    Collections,      \* nzb-files
    Urls,             \* urls that users add
    FilesOf,          \* the files of a collection, in order
    UrlOf, NoUrl,     \* the url a collection is fetched from; NoUrl: users add it
    MaxId,            \* bound on the ids of files
    MaxCrashes,       \* bound on crashes
    ReloadOptions     \* the choices of ReloadQueue, ReloadPostQueue and ReloadUrlQueue

ASSUME PersistentAssumption ==
    /\ \A n \in Collections : FilesOf[n] \in Seq(ToSet(FilesOf[n])) \ {<<>>}
    /\ \A n, o \in Collections : n # o => ToSet(FilesOf[n]) \intersect ToSet(FilesOf[o]) = {}
    /\ \A n \in Collections : UrlOf[n] \in Urls \union {NoUrl}
    /\ \A n, o \in Collections : UrlOf[n] = UrlOf[o] => n = o \/ UrlOf[n] = NoUrl
    /\ \A u \in Urls : \E n \in Collections : UrlOf[n] = u
    /\ NoUrl \notin Urls /\ Collections \intersect (Urls \union {NoUrl}) = {}
    /\ MaxId \in Nat /\ MaxCrashes \in Nat
    /\ ReloadOptions \subseteq SUBSET {"queue", "post", "url"}

Everything == {"queue", "post", "url"}
NzbOfFile(f) == CHOOSE n \in Collections : f \in ToSet(FilesOf[n])
NzbOfUrl(u) == CHOOSE n \in Collections : UrlOf[n] = u

VARIABLES
    up,          \* the program runs
    mem,         \* its memory
    disk,        \* the queue-file, and the files with the contents by id
    crashes,
    added,       \* history: how often a collection was added to the queue
    scripts,     \* history: how often the script was started for the last job of a
                 \* collection, since that job last started over (2: more than once)
    reused       \* history: ids that a new file got while the saved queue had a row with it

vars == <<up, mem, disk, crashes, added, scripts, reused>>

\* What a fresh process has in memory.
NewMemory(reload) ==
    [q |-> EmptyLists,
     marked |-> {},         \* ids of deleted files that still have downloads
     idGen |-> 0,           \* FileInfo::m_iIDGen
     reload |-> reload,
     loaded |-> FALSE, sanitised |-> FALSE,
     parsed |-> [n \in Collections |-> <<>>],   \* files of NZBFile objects
     working |-> FALSE,     \* the first job of the post-queue is at work
     active |-> {},         \* UrlCoordinator::m_ActiveDownloads
     handing |-> {}]        \* finished urls on their way to the queue

Init ==
    /\ up = FALSE /\ mem = NewMemory({}) /\ crashes = 0
    /\ disk = [queue |-> <<>>, contents |-> <<>>]
    /\ added = [n \in Collections |-> 0] /\ scripts = [n \in Collections |-> 0] /\ reused = {}

-----------------------------------------------------------------------------
(* A handler changes the memory and then writes to the disk; on the way the *)
(* program may die.                                                        *)

Save(q, marked) == [op |-> "save", queue |-> SaveDownloadQueue(q, marked)]
Write(e) == [op |-> "write", id |-> e.id, file |-> e.file]
Discard(id) == [op |-> "discard", id |-> id]
Writes(entries) == [k \in DOMAIN entries |-> Write(entries[k])]
Discards(entries) == [k \in DOMAIN entries |-> Discard(entries[k].id)]

Written(d, w) ==
    CASE w.op = "save" -> [d EXCEPT !.queue = w.queue]
      [] w.op = "write" -> SaveFile(d, w.id, w.file)
      [] w.op = "discard" -> DiscardFile(d, w.id)

\* If the program dies before or in a write; a file of contents that was cut off cannot be
\* loaded.
HalfWritten(d, w) ==
    {d} \union CASE w.op = "save" -> {[d EXCEPT !.queue = c] : c \in CutOff(w.queue)}
                 [] w.op = "write" -> {DiscardFile(d, w.id)}
                 [] w.op = "discard" -> {}

\* after[k]: the disk after the first k writes.
After(d, writes) ==
    LET after[k \in 0..Len(writes)] ==
            IF k = 0 THEN d ELSE Written(after[k - 1], writes[k])
    IN  after

Handle(m, writes) ==
    \/ /\ mem' = m /\ disk' = After(disk, writes)[Len(writes)]
       /\ UNCHANGED <<up, crashes>>
    \/ /\ crashes < MaxCrashes
       /\ crashes' = crashes + 1 /\ up' = FALSE /\ mem' = NewMemory({})
       /\ \E k \in DOMAIN writes :
              disk' \in HalfWritten(After(disk, writes)[k - 1], writes[k])

\* The memory with new lists; collections that nothing refers to any more are released.
WithQueue(m, q) == [m EXCEPT !.q = ReleaseAll(q)]
ChangeAndSave(m, q) == Handle(WithQueue(m, q), <<Save(ReleaseAll(q), m.marked)>>)

-----------------------------------------------------------------------------
(* Start and end of the program.                                            *)

Start(reload) ==
    /\ ~up
    /\ up' = TRUE /\ mem' = NewMemory(reload)
    /\ UNCHANGED <<disk, crashes, added, scripts, reused>>

\* The queue coordinator's thread, before its loop.
LoadQueue ==
    /\ up /\ ~mem.loaded
    /\ mem' = IF "queue" \in mem.reload
              THEN [mem EXCEPT !.loaded = TRUE, !.q = LoadDownloadQueue(disk, mem.reload),
                               !.idGen = IdGenAfterLoad(disk)]
              ELSE [mem EXCEPT !.loaded = TRUE]
    /\ disk' = IF "queue" \in mem.reload THEN disk ELSE DiscardDownloadQueue(disk)
    /\ UNCHANGED <<up, crashes, added, scripts, reused>>

\* mutant: all jobs start over
SanitisePostQueueAll(post, gone) ==
    [k \in DOMAIN post |-> IF post[k].nzb \in gone
                           THEN [post[k] EXCEPT !.stage = "finished", !.check = FALSE]
                           ELSE [post[k] EXCEPT !.stage = "queued"]]

\* A job whose script was running when the queue was saved is over, and so is one whose
\* directory is missing.
SanitisePostQueue(post, gone) ==
    [k \in DOMAIN post |-> IF post[k].stage = "script" \/ post[k].nzb \in gone
                           THEN [post[k] EXCEPT !.stage = "finished", !.check = FALSE]
                           ELSE [post[k] EXCEPT !.stage = "queued"]]

\* The post-processor's thread, before its loop; it does not wait for LoadQueue.
Sanitise(gone) ==
    LET post == IF {"queue", "post"} \subseteq mem.reload
                THEN SanitisePostQueue(mem.q.post, gone) ELSE mem.q.post
        OverAgain(n) == \E k \in DOMAIN post : post[k].nzb = n /\ post[k].stage = "queued"
                                                /\ mem.q.post[k].stage = "finished"
    IN  /\ up /\ ~mem.sanitised
        /\ mem' = [mem EXCEPT !.sanitised = TRUE, !.q.post = post]
        /\ scripts' = [n \in Collections |-> IF OverAgain(n) THEN 0 ELSE scripts[n]]
        /\ UNCHANGED <<up, disk, crashes, added, reused>>

\* The program dies between handlers.
Crash ==
    /\ up /\ crashes < MaxCrashes
    /\ crashes' = crashes + 1 /\ up' = FALSE /\ mem' = NewMemory({})
    /\ UNCHANGED <<disk, added, scripts, reused>>

\* A shut-down waits for the downloads of urls; the queue is not saved again.
Shutdown ==
    /\ up /\ mem.loaded /\ mem.sanitised
    /\ mem.active = {} /\ mem.handing = {} /\ \A n \in Collections : mem.parsed[n] = <<>>
    /\ up' = FALSE /\ mem' = NewMemory({})
    /\ UNCHANGED <<disk, crashes, added, scripts, reused>>

-----------------------------------------------------------------------------
(* A collection is added: from the scanner or a request, or from a url.     *)

\* The ids in the rows of files that a load would read.
SavedIds == {r.id : r \in ToSet(RowsRead(disk.queue, 2)) \union ToSet(RowsRead(disk.queue, 6))}

\* NZBFile::Create takes an id for every file, and ProcessFilenames writes their contents,
\* before the queue is locked.  (Ids are taken one by one without a lock; that two threads
\* parse at the same moment and take the same id is left out.)
ParseNzb(n) ==
    LET entries == [k \in DOMAIN FilesOf[n] |->
                       [id |-> mem.idGen + k, file |-> FilesOf[n][k], nzb |-> n]]
    IN  /\ up /\ mem.loaded /\ mem.parsed[n] = <<>>
        /\ mem.idGen + Len(FilesOf[n]) <= MaxId
        /\ IF UrlOf[n] = NoUrl THEN added[n] = 0 ELSE UrlOf[n] \in mem.handing
        /\ Handle([mem EXCEPT !.idGen = @ + Len(FilesOf[n]), !.parsed[n] = entries],
                  Writes(entries))
        /\ reused' = reused \union ({entries[k].id : k \in DOMAIN entries} \intersect SavedIds)
        /\ UNCHANGED <<added, scripts>>

\* Duplicates are not added; their contents are removed.
AddNZBFileToQueue(n, dupes) ==
    LET entries == ToSet(mem.parsed[n])
        new == Only(mem.parsed[n], {e \in entries : e.file \notin dupes})
        old == Only(mem.parsed[n], {e \in entries : e.file \in dupes})
        q == [mem.q EXCEPT !.files = @ \o new, !.nzbs = Append(@, n)]
    IN  /\ up /\ mem.parsed[n] # <<>>
        /\ Handle(WithQueue([mem EXCEPT !.parsed[n] = <<>>, !.handing = @ \ {UrlOf[n]}], q),
                  Discards(old) \o <<Save(q, mem.marked)>>)
        /\ added' = [added EXCEPT ![n] = @ + 1]
        /\ UNCHANGED <<scripts, reused>>

-----------------------------------------------------------------------------
(* Files leave the queue.                                                   *)

HasJob(q, n) == \E i \in DOMAIN q.post : q.post[i].nzb = n

\* The history has at most one item for a collection; its files that are still in the
\* queue, but not the deleted ones, are parked.
NZBCompleted(q, marked, n) ==
    LET parks == {e \in ToSet(q.files) : e.nzb = n /\ e.id \notin marked}
    IN  [q EXCEPT !.history = <<[kind |-> "nzb", of |-> n]>>
                              \o Only(@, {h \in ToSet(@) : h.of # n}),
                  !.files = Only(@, ToSet(@) \ parks),
                  !.parked = @ \o Only(q.files, parks)]

\* What the post-processor does about the file that leaves (PostProcessor.tla says when):
\* nothing, put a job into the post-queue, or move the collection to the history, both of
\* which save the queue while the file is still in it.  A collection that has a job gets
\* no other one (NZBInfo::m_bPostProcess; AllowReProcess is left out).
Outcomes(q, n) ==
    {"none", "history"} \union (IF HasJob(q, n) THEN {} ELSE {"job"})

Notified(q, marked, n, outcome, check) ==
    CASE outcome = "none" -> q
      [] outcome = "job" -> [q EXCEPT !.post = Append(@, [nzb |-> n, check |-> check,
                                                          stage |-> "queued"])]
      [] outcome = "history" -> NZBCompleted(q, marked, n)

WithoutFile(q, id) == [q EXCEPT !.files = Only(@, {e \in ToSet(@) : e.id # id})]

\* QueueCoordinator::ArticleCompleted for the last article, and DeleteQueueEntry for a
\* file without downloads (EditList saves then).
FileLeaves(i, outcome, check) ==
    LET e == mem.q.files[i]
        marked == mem.marked \union {e.id}
        q == Notified(mem.q, marked, e.nzb, outcome, check)
        after == ReleaseAll(WithoutFile(q, e.id))
    IN  /\ up /\ outcome \in Outcomes(mem.q, e.nzb)
        /\ Handle([mem EXCEPT !.q = after, !.marked = @ \ {e.id}],
                  (IF outcome = "none" THEN <<>> ELSE <<Save(q, marked)>>)
                  \o <<Discard(e.id), Save(after, mem.marked \ {e.id})>>)
        /\ scripts' = IF outcome = "job" THEN [scripts EXCEPT ![e.nzb] = 0] ELSE scripts
        /\ UNCHANGED <<added, reused>>

\* A file with downloads is marked: by the editor, which saves, or as a duplicate that the
\* first article has shown, without saving.
MarkFile(i, save) ==
    LET id == mem.q.files[i].id
    IN  /\ up /\ id \notin mem.marked
        /\ Handle([mem EXCEPT !.marked = @ \union {id}],
                  IF save THEN <<Save(mem.q, mem.marked \union {id})>> ELSE <<>>)
        /\ UNCHANGED <<added, scripts, reused>>

-----------------------------------------------------------------------------
(* Post-processing.                                                         *)

First(q) == q.post[1]

\* Jobs are started and finished by the loop of the thread that has sanitised them.
Idle == up /\ mem.sanitised /\ mem.q.post # <<>> /\ ~mem.working

\* The par-check is not saved when it starts, only when it is over.
StartParJob ==
    /\ Idle /\ First(mem.q).check
    /\ mem' = [mem EXCEPT !.working = TRUE]
    /\ UNCHANGED <<up, disk, crashes, added, scripts, reused>>

ParJobDone ==
    /\ up /\ mem.working /\ First(mem.q).check
    /\ ChangeAndSave([mem EXCEPT !.working = FALSE],
                     [mem.q EXCEPT !.post[1] = [@ EXCEPT !.check = FALSE, !.stage = "queued"]])
    /\ UNCHANGED <<added, scripts, reused>>

ScriptStarted(n) == [scripts EXCEPT ![n] = IF @ < 2 THEN @ + 1 ELSE @]

\* The stage is saved before the script is started.
StartScriptJob ==
    /\ Idle /\ ~First(mem.q).check /\ First(mem.q).stage = "queued"
    /\ ChangeAndSave([mem EXCEPT !.working = TRUE], [mem.q EXCEPT !.post[1].stage = "script"])
    /\ scripts' = IF up' THEN ScriptStarted(First(mem.q).nzb) ELSE scripts
    /\ UNCHANGED <<added, reused>>

ScriptDone ==
    /\ up /\ mem.working /\ First(mem.q).stage = "script"
    /\ mem' = [mem EXCEPT !.working = FALSE, !.q.post[1].stage = "finished"]
    /\ UNCHANGED <<up, disk, crashes, added, scripts, reused>>

\* mutant: the queue is not saved after the job
JobCompletedUnsaved(complete, cleanup) ==
    LET done == IF complete THEN NZBCompleted(mem.q, mem.marked, First(mem.q).nzb) ELSE mem.q
    IN  /\ Idle /\ First(mem.q).stage = "finished" /\ ~First(mem.q).check /\ ~cleanup
        /\ mem' = WithQueue(mem, [done EXCEPT !.post = Tail(@)])
        /\ UNCHANGED <<up, disk, crashes, added, scripts, reused>>

\* The collection may be complete then; the files that are left are parked, or deleted
\* before (ParCleanupQueue; those that have no downloads are gone at once).
JobCompleted(complete, cleanup) ==
    LET n == First(mem.q).nzb
        goes == {e \in ToSet(mem.q.files) : cleanup /\ e.nzb = n /\ e.id \notin mem.marked}
        left == [mem.q EXCEPT !.files = Only(@, ToSet(@) \ goes)]
        done == IF complete THEN NZBCompleted(left, mem.marked, n) ELSE mem.q
        q == ReleaseAll([done EXCEPT !.post = Tail(@)])
    IN  /\ Idle /\ First(mem.q).stage = "finished" /\ ~First(mem.q).check
        /\ cleanup => complete
        /\ Handle([mem EXCEPT !.q = q],
                  Discards(Only(mem.q.files, goes)) \o <<Save(q, mem.marked)>>)
        /\ UNCHANGED <<added, scripts, reused>>

-----------------------------------------------------------------------------
(* The history.                                                             *)

RemoveHistory(q, k) == [q EXCEPT !.history = RemoveAt(@, k)]

HistoryDelete(k) ==
    LET h == mem.q.history[k]
        goes == {e \in ToSet(mem.q.parked) : h.kind = "nzb" /\ e.nzb = h.of}
        q == [RemoveHistory(mem.q, k) EXCEPT !.parked = Only(@, ToSet(@) \ goes)]
    IN  /\ up
        /\ Handle(WithQueue(mem, q),
                  Discards(Only(mem.q.parked, goes)) \o <<Save(ReleaseAll(q), mem.marked)>>)
        /\ UNCHANGED <<added, scripts, reused>>

\* The oldest item is too old; the files that are parked for it stay.
CheckHistory ==
    /\ up /\ mem.sanitised /\ mem.q.history # <<>>
    /\ ChangeAndSave(mem, RemoveHistory(mem.q, Len(mem.q.history)))
    /\ UNCHANGED <<added, scripts, reused>>

\* Parked files return to the front of the queue; a url is to be fetched again.
HistoryReturn(k) ==
    LET h == mem.q.history[k]
        returns == {e \in ToSet(mem.q.parked) : h.kind = "nzb" /\ e.nzb = h.of}
        q == RemoveHistory(mem.q, k)
    IN  /\ up
        /\ \/ /\ h.kind = "nzb" /\ returns # {}
              /\ ChangeAndSave(mem,
                     [q EXCEPT !.parked = Only(@, ToSet(@) \ returns),
                               !.files = Only(mem.q.parked, returns) \o @])
           \/ /\ h.kind = "url"
              /\ ChangeAndSave(mem, [q EXCEPT !.urls = Append(@, [url |-> h.of,
                                                                  status |-> "undefined"])])
        /\ UNCHANGED <<added, scripts, reused>>

-----------------------------------------------------------------------------
(* UrlCoordinator.                                                          *)

KnownUrls == {mem.q.urls[i].url : i \in DOMAIN mem.q.urls} \union mem.handing
             \union {mem.q.history[i].of : i \in DOMAIN mem.q.history}

\* Users add a url once.
AddUrlToQueue(u) ==
    /\ up /\ mem.loaded /\ u \notin KnownUrls /\ added[NzbOfUrl(u)] = 0
    /\ ChangeAndSave(mem, [mem.q EXCEPT !.urls = Append(@, [url |-> u, status |-> "undefined"])])
    /\ UNCHANGED <<added, scripts, reused>>

GetNextUrl(urls) == {i \in DOMAIN urls : urls[i].status = "undefined"
                                         /\ \A j \in 1..(i - 1) : urls[j].status # "undefined"}

StartUrlDownload(i) ==
    /\ up /\ i \in GetNextUrl(mem.q.urls)
    /\ mem' = [mem EXCEPT !.q.urls[i].status = "running",
                          !.active = @ \union {mem.q.urls[i].url}]
    /\ UNCHANGED <<up, disk, crashes, added, scripts, reused>>

\* The result of the download is noted before the queue is locked: "undefined" if the
\* program was told to stop.
UrlDownloaded(i, result) ==
    /\ up /\ mem.q.urls[i].url \in mem.active /\ mem.q.urls[i].status = "running"
    /\ mem' = [mem EXCEPT !.q.urls[i].status = result]
    /\ UNCHANGED <<up, disk, crashes, added, scripts, reused>>

\* mutant: a url that is finished stays
UrlCompletedStays(i) ==
    LET url == mem.q.urls[i].url
        status == mem.q.urls[i].status
        m == [mem EXCEPT !.active = @ \ {url},
                         !.handing = IF status = "finished" THEN @ \union {url} ELSE @]
    IN  /\ up /\ url \in mem.active /\ status # "running"
        /\ Handle(m, <<>>)
        /\ UNCHANGED <<added, scripts, reused>>

\* A url that is finished leaves the saved queue before its collection enters it.
UrlCompleted(i) ==
    LET url == mem.q.urls[i].url
        status == mem.q.urls[i].status
        m == [mem EXCEPT !.active = @ \ {url},
                         !.handing = IF status = "finished" THEN @ \union {url} ELSE @]
        q == [mem.q EXCEPT !.urls = RemoveAt(@, i),
                           !.history = IF status = "failed"
                                       THEN <<[kind |-> "url", of |-> url]>> \o @ ELSE @]
    IN  /\ up /\ url \in mem.active /\ status # "running"
        /\ IF status = "undefined" THEN Handle(m, <<>>) ELSE ChangeAndSave(m, q)
        /\ UNCHANGED <<added, scripts, reused>>

\* What was fetched is not an nzb-file: the url is gone, without an item in the history.
ParseFailed(u) ==
    /\ up /\ u \in mem.handing /\ mem.parsed[NzbOfUrl(u)] = <<>>
    /\ mem' = [mem EXCEPT !.handing = @ \ {u}]
    /\ UNCHANGED <<up, disk, crashes, added, scripts, reused>>

\* A hanging download is terminated; if that fails, the url stays as it was.
ResetHangingDownloads(i, terminated) ==
    /\ up /\ mem.q.urls[i].url \in mem.active /\ mem.q.urls[i].status = "running"
    /\ mem' = [mem EXCEPT !.active = @ \ {mem.q.urls[i].url},
                          !.q.urls[i].status = IF terminated THEN "undefined" ELSE @]
    /\ UNCHANGED <<up, disk, crashes, added, scripts, reused>>

-----------------------------------------------------------------------------
Lifecycle ==
    \/ \E reload \in ReloadOptions : Start(reload)
    \/ LoadQueue
    \/ \E gone \in {{}, Collections} : Sanitise(gone)
    \/ Crash
    \/ Shutdown

Downloads ==
    \/ \E n \in Collections : ParseNzb(n)
    \/ \E n \in Collections : \E dupes \in SUBSET ToSet(FilesOf[n]) : AddNZBFileToQueue(n, dupes)
    \/ \E i \in DOMAIN mem.q.files, outcome \in {"none", "job", "history"}, check \in BOOLEAN :
           FileLeaves(i, outcome, check)
    \/ \E i \in DOMAIN mem.q.files, save \in BOOLEAN : MarkFile(i, save)

PostProcessing ==
    \/ StartParJob \/ ParJobDone \/ StartScriptJob \/ ScriptDone
    \/ \E complete \in BOOLEAN, cleanup \in BOOLEAN : JobCompleted(complete, cleanup)
    \/ \E k \in DOMAIN mem.q.history : HistoryDelete(k) \/ HistoryReturn(k)
    \/ CheckHistory

UrlDownloads ==
    \/ \E u \in Urls : AddUrlToQueue(u) \/ ParseFailed(u)
    \/ \E i \in DOMAIN mem.q.urls :
           \/ StartUrlDownload(i) \/ UrlCompleted(i)
           \/ \E result \in {"finished", "failed", "undefined"} : UrlDownloaded(i, result)
           \/ \E terminated \in BOOLEAN : ResetHangingDownloads(i, terminated)

Next == Lifecycle \/ Downloads \/ PostProcessing \/ UrlDownloads

Spec == Init /\ [][Next]_vars

-----------------------------------------------------------------------------
(* Properties.                                                              *)

Ids == 1..MaxId
Entries == [id : Ids, file : UNION {ToSet(FilesOf[n]) : n \in Collections}, nzb : Collections]

TypeOK ==
    /\ up \in BOOLEAN /\ crashes \in 0..MaxCrashes
    /\ ToSet(mem.q.nzbs) = Referenced(mem.q) /\ IsInjective(mem.q.nzbs)
    /\ ToSet(mem.q.files \o mem.q.parked) \subseteq Entries
    /\ \A i \in DOMAIN mem.q.post : mem.q.post[i].stage \in {"queued", "script", "finished"}
    /\ \A i \in DOMAIN mem.q.urls :
           mem.q.urls[i].status \in {"undefined", "running", "finished", "failed"}
    /\ mem.marked \subseteq {mem.q.files[i].id : i \in DOMAIN mem.q.files}
    /\ mem.active \subseteq Urls /\ mem.handing \subseteq Urls
    /\ DOMAIN disk.contents \subseteq Ids

\* What a reader of the queue would miss: the lists, without the stages of jobs and
\* urls, and without parked files that no item of the history leads to.
Essence(q) ==
    LET found == {e \in ToSet(q.parked) : \E i \in DOMAIN q.history : q.history[i].of = e.nzb}
    IN  [files |-> q.files, urls |-> [i \in DOMAIN q.urls |-> q.urls[i].url],
         post |-> [i \in DOMAIN q.post |-> q.post[i].nzb], history |-> q.history,
         parked |-> Only(q.parked, found)]

\* A file that is being added has got the id of a saved row, which a load had skipped.
NewFileHasSavedId == \E n \in Collections : \E e \in ToSet(mem.parsed[n]) : e.id \in SavedIds

\* Whenever no handler is at work, a crash loses nothing: what would be loaded is what is
\* in memory, unless a queue that cannot be read to its end was left on disk, or a row that
\* is out of date leads to the contents of a file that is just being added.  (Lists that
\* are not to be reloaded, while the queue is, stay on disk until the next save.)
DiskIsCurrent ==
    up /\ mem.loaded /\ mem.reload \in {Everything, {}}
       /\ Intact(disk.queue) /\ ~NewFileHasSavedId =>
        Essence(LoadDownloadQueue(disk, Everything)) = Essence(mem.q)

\* Over any crashes a file is queued or parked at most once, its contents are on disk
\* under its id, and it is a file of its own collection, unless its id was given to a new
\* file while the saved queue still had a row with it.
EntriesAreTheirOwn ==
    LET entries == mem.q.files \o mem.q.parked
    IN  \A i \in DOMAIN entries :
            /\ entries[i].id \in DOMAIN disk.contents
            /\ disk.contents[entries[i].id] = entries[i].file
            /\ \A j \in DOMAIN entries : entries[j].id = entries[i].id => i = j
            /\ entries[i].id \notin reused => NzbOfFile(entries[i].file) = entries[i].nzb

\* The script is not started again for a job, even if the program ends while it runs.  (It
\* is if a job that is over, but still listed, is saved and loaded: SanitisePostQueue lets
\* it start over, PrePostProcessor.cpp:585.  That a script asks for par-checks is left out.)
ScriptRunsOnce == \A n \in Collections : scripts[n] <= 1

\* Over any crashes a url waits, is handed to the queue or is in the history, once in all;
\* when its collection has been in the queue, it is in none of them.
UrlIsInOnePlace ==
    \A u \in Urls :
        Cardinality({i \in DOMAIN mem.q.urls : mem.q.urls[i].url = u})
        + Cardinality({i \in DOMAIN mem.q.history : mem.q.history[i].of = u})
        + Cardinality({u} \intersect mem.handing) + added[NzbOfUrl(u)] <= 1

\* A saved queue can always be reloaded, see nzbget.conf, option SaveQueue.
SavedQueueCanBeReloaded ==
    up /\ mem.loaded /\ crashes = 0 =>
        Essence(LoadDownloadQueue(disk, Everything)) = Essence(mem.q)
=============================================================================
