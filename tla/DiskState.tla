----------------------------- MODULE DiskState -----------------------------
(***************************************************************************)
(* DiskState.cpp: the queue on disk.  The file "queue" holds the lists of   *)
(* the DownloadQueue as sections: the number of items, then one row for     *)
(* each item.  The contents of a file of the queue (FileInfo) are in a file *)
(* of their own, named by its id.                                          *)
(*                                                                         *)
(* A section is the number it starts with and its rows; text, the signature *)
(* of the format and older formats are left out.  A row is one unit: a      *)
(* queue that was cut off has whole rows only.                             *)
(***************************************************************************)
EXTENDS Integers, FiniteSets, Sequences, SequencesExt, Functions

\* The contents of a DownloadQueue that are saved.  An entry of files and parked has an
\* id, a file (what is downloaded) and the collection it belongs to; a job of post has a
\* collection, whether it is still to be par-checked, and a stage; an item of urls has a
\* url and a status; an item of history is a collection or a url.
EmptyLists == [nzbs |-> <<>>, files |-> <<>>, post |-> <<>>, urls |-> <<>>,
               history |-> <<>>, parked |-> <<>>]

\* The items of s that are in S, in their order.
Keep(kept, item, S) == IF item \in S THEN Append(kept, item) ELSE kept

Only(s, S) ==
    LET kept[k \in 0..Len(s)] == IF k = 0 THEN <<>> ELSE Keep(kept[k - 1], s[k], S)
    IN  kept[Len(s)]

\* Collections that something refers to; the others are released (NZBInfo::Release).
Referenced(q) ==
    {q.files[i].nzb : i \in DOMAIN q.files} \union {q.parked[i].nzb : i \in DOMAIN q.parked}
    \union {q.post[i].nzb : i \in DOMAIN q.post}
    \union {q.history[i].of : i \in {j \in DOMAIN q.history : q.history[j].kind = "nzb"}}

\* mutant: a collection that nothing refers to any more is kept
ReleaseNone(q) == q

ReleaseAll(q) == [q EXCEPT !.nzbs = Only(@, Referenced(q))]

-----------------------------------------------------------------------------
(* Saving.                                                                  *)

\* The index of a collection, from 1; the last one if the collection is not listed.
FindNZBInfoIndex(nzbs, n) ==
    IF n \in ToSet(nzbs) THEN CHOOSE i \in DOMAIN nzbs : nzbs[i] = n ELSE Len(nzbs)

\* Deleted files are counted and not written.
SaveFileQueue(q, list, marked) ==
    LET kept == Only(list, {e \in ToSet(list) : e.id \notin marked})
    IN  [size |-> Len(list),
         rows |-> [i \in DOMAIN kept |->
                      [id |-> kept[i].id, nzb |-> FindNZBInfoIndex(q.nzbs, kept[i].nzb)]]]

Section(rows) == [size |-> Len(rows), rows |-> rows]

SavePostQueue(q) ==
    Section([i \in DOMAIN q.post |-> [q.post[i] EXCEPT !.nzb = FindNZBInfoIndex(q.nzbs, @)]])

SaveHistory(q) ==
    Section([i \in DOMAIN q.history |->
                LET h == q.history[i]
                IN  IF h.kind = "url" THEN h ELSE [h EXCEPT !.of = FindNZBInfoIndex(q.nzbs, @)]])

\* The queue-file; <<>> if there is none.
SaveDownloadQueue(q, marked) ==
    IF q.files = <<>> /\ q.urls = <<>> /\ q.post = <<>> /\ q.history = <<>> THEN <<>>
    ELSE << Section(q.nzbs), SaveFileQueue(q, q.files, marked), SavePostQueue(q),
            Section(q.urls), SaveHistory(q), SaveFileQueue(q, q.parked, marked) >>

\* What is on disk if the program dies while the queue-file is written: it is truncated
\* first, then written from the start.
CutOff(queue) ==
    {<<>>} \union
    UNION {{SubSeq(queue, 1, k - 1) \o <<[queue[k] EXCEPT !.rows = SubSeq(@, 1, j)]>> :
               j \in 0..Len(queue[k].rows)} : k \in DOMAIN queue}

-----------------------------------------------------------------------------
(* Loading.  Reading stops at the first section that has fewer rows than it *)
(* says; what was read before is kept.                                      *)

Complete(section) == Len(section.rows) = section.size
Intact(queue) == \A i \in DOMAIN queue : Complete(queue[i])

RowsRead(queue, k) ==
    IF k <= Len(queue) /\ \A i \in 1..(k - 1) : Complete(queue[i]) THEN queue[k].rows ELSE <<>>

\* A row without the file that holds its contents is skipped, with a warning.
LoadFileQueue(nzbs, rows, contents) ==
    LET found == Only(rows, {r \in ToSet(rows) : r.id \in DOMAIN contents})
    IN  [i \in DOMAIN found |->
            [id |-> found[i].id, file |-> contents[found[i].id], nzb |-> nzbs[found[i].nzb]]]

LoadPostQueue(nzbs, rows) == [i \in DOMAIN rows |-> [rows[i] EXCEPT !.nzb = nzbs[@]]]

LoadHistory(nzbs, rows) ==
    [i \in DOMAIN rows |->
        IF rows[i].kind = "url" THEN rows[i] ELSE [rows[i] EXCEPT !.of = nzbs[@]]]

\* reload: which of the saved lists are wanted (ReloadUrlQueue, ReloadPostQueue)
LoadDownloadQueue(disk, reload) ==
    LET nzbs == RowsRead(disk.queue, 1)
        Wanted(name, k) == IF name \in reload THEN RowsRead(disk.queue, k) ELSE <<>>
    IN  ReleaseAll(
          [nzbs |-> nzbs,
           files |-> LoadFileQueue(nzbs, RowsRead(disk.queue, 2), disk.contents),
           post |-> LoadPostQueue(nzbs, Wanted("post", 3)),
           urls |-> Wanted("url", 4),
           history |-> LoadHistory(nzbs, RowsRead(disk.queue, 5)),
           parked |-> LoadFileQueue(nzbs, RowsRead(disk.queue, 6), disk.contents)])

\* mutant: loaded files do not keep their ids from being given again
IdGenAfterLoadNone(disk) == 0

\* Every row that is read takes a new id for its FileInfo, even one that is skipped; the
\* id that it then gets is not given again (FileInfo, SetID).
IdGenAfterLoad(disk) ==
    LET rows == RowsRead(disk.queue, 2) \o RowsRead(disk.queue, 6)
        gen[k \in 0..Len(rows)] ==
            IF k = 0 THEN 0
            ELSE IF rows[k].id \in DOMAIN disk.contents /\ rows[k].id > gen[k - 1] + 1
                 THEN rows[k].id ELSE gen[k - 1] + 1
    IN  gen[Len(rows)]

\* If the queue is not to be reloaded, the contents of its files are removed with it;
\* those of parked files stay.
DiscardDownloadQueue(disk) ==
    IF disk.queue = <<>> THEN disk
    ELSE LET ids == {r.id : r \in ToSet(RowsRead(disk.queue, 2))}
         IN  [queue |-> <<>>, contents |-> Restrict(disk.contents, DOMAIN disk.contents \ ids)]

SaveFile(disk, id, file) ==
    [disk EXCEPT !.contents = [i \in DOMAIN @ \union {id} |-> IF i = id THEN file ELSE @[i]]]
DiscardFile(disk, id) == [disk EXCEPT !.contents = Restrict(@, DOMAIN @ \ {id})]
=============================================================================
