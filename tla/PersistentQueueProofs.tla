----------------------- MODULE PersistentQueueProofs -----------------------
(***************************************************************************)
(* The theorems of PersistentQueue.tla: its type invariant and its four     *)
(* safety invariants hold over any crashes and restarts, for any            *)
(* collections, urls and bounds.                                           *)
(*                                                                         *)
(* The inductive invariant IInv says the same of three queues: of the one   *)
(* in memory, of the one that is read from the disk, and, at a write, of    *)
(* every queue-file that a crash may leave.  The proofs have four layers:   *)
(* lists (Only, parts of lists), lists of files, jobs and urls, the disk    *)
(* (what writes leave, what is read of a queue that was saved or cut off),  *)
(* and the handlers, one lemma for each.                                   *)
(***************************************************************************)
EXTENDS PersistentQueue, FiniteSetTheorems, SequenceTheorems, WellFoundedInduction, TLAPS

-----------------------------------------------------------------------------
(* Types.                                                                   *)

Files == UNION {ToSet(FilesOf[n]) : n \in Collections}
Stages == {"queued", "script", "finished"}
Jobs == [nzb : Collections, check : BOOLEAN, stage : Stages]
UrlItems == [url : Urls, status : {"undefined", "running", "finished", "failed"}]
HistoryItems == [kind : {"nzb"}, of : Collections] \union [kind : {"url"}, of : Urls]
Rows == [id : Ids, nzb : Collections]

\* A sequence, of whatever items.
IsList(s) == s \in Seq(ToSet(s))

\* The lists in memory, and those that can be read from the disk.
Lists == [nzbs : Seq(Collections), files : Seq(Entries), post : Seq(Jobs),
          urls : Seq(UrlItems), history : Seq(HistoryItems), parked : Seq(Entries)]
ReadLists == [nzbs : Seq(Collections), files : Seq(Rows), post : Seq(Jobs),
              urls : Seq(UrlItems), history : Seq(HistoryItems), parked : Seq(Rows)]

Memories == [q : Lists, marked : SUBSET Ids, idGen : Nat, reload : SUBSET Everything,
             loaded : BOOLEAN, sanitised : BOOLEAN, parsed : [Collections -> Seq(Entries)],
             working : BOOLEAN, active : SUBSET Urls, handing : SUBSET Urls]

\* What the saved queue says, whatever became of the contents of its files.
ReadFiles(nzbs, rows) == [i \in DOMAIN rows |-> [id |-> rows[i].id, nzb |-> nzbs[rows[i].nzb]]]
Reading(queue) ==
    LET nzbs == RowsRead(queue, 1)
    IN  [nzbs |-> nzbs,
         files |-> ReadFiles(nzbs, RowsRead(queue, 2)),
         post |-> LoadPostQueue(nzbs, RowsRead(queue, 3)),
         urls |-> RowsRead(queue, 4),
         history |-> LoadHistory(nzbs, RowsRead(queue, 5)),
         parked |-> ReadFiles(nzbs, RowsRead(queue, 6))]

-----------------------------------------------------------------------------
(* The inductive invariant.                                                 *)

DistinctIds(s) == \A i, j \in DOMAIN s : s[i].id = s[j].id => i = j
Apart(s, t) == \A i \in DOMAIN s, j \in DOMAIN t : s[i].id # t[j].id

\* Collections are listed once, and have been added; what others refer to is listed.
Listed(q, a) ==
    /\ IsInjective(q.nzbs)
    /\ Referenced(q) \subseteq ToSet(q.nzbs)
    /\ \A i \in DOMAIN q.nzbs : a[q.nzbs[i]] # 0

\* Files have their own ids; their contents, if they are there, are those of a file of their
\* collection, unless the id was given again.
Own(s, c, r) ==
    /\ DistinctIds(s)
    /\ \A i \in DOMAIN s : s[i].id \in DOMAIN c \ r => c[s[i].id] \in ToSet(FilesOf[s[i].nzb])

\* A collection has one job; the script of a job that waits for it has not been started.
JobsOK(post, s) ==
    /\ \A i, j \in DOMAIN post : post[i].nzb = post[j].nzb => i = j
    /\ \A i \in DOMAIN post : /\ post[i].check => post[i].stage = "queued"
                              /\ post[i].stage = "queued" => s[post[i].nzb] = 0

\* A url is in one list, once.
UrlOnce(q) ==
    /\ \A i, j \in DOMAIN q.urls : q.urls[i].url = q.urls[j].url => i = j
    /\ \A i, j \in DOMAIN q.history :
           q.history[i].of \in Urls /\ q.history[i].of = q.history[j].of => i = j
    /\ \A i \in DOMAIN q.urls, j \in DOMAIN q.history : q.urls[i].url # q.history[j].of

\* A url that waits or is in the history is not handed over and has not been added.
UrlFree(u, a, h) == u \notin h /\ a[NzbOfUrl(u)] = 0
UrlsFree(q, a, h) ==
    /\ \A i \in DOMAIN q.urls : UrlFree(q.urls[i].url, a, h)
    /\ \A i \in DOMAIN q.history : q.history[i].of \in Urls => UrlFree(q.history[i].of, a, h)

\* A queue is in order: c are the contents on disk, a the collections that were added, s the
\* scripts that were started, h the urls that are handed over, r the ids given again.
QueueOK(q, c, a, s, h, r) ==
    /\ Listed(q, a)
    /\ Own(q.files, c, r) /\ Own(q.parked, c, r) /\ Apart(q.files, q.parked)
    /\ JobsOK(q.post, s)
    /\ UrlOnce(q) /\ UrlsFree(q, a, h)

\* The contents of files are on disk.
There(s, c) == \A i \in DOMAIN s : s[i].id \in DOMAIN c /\ c[s[i].id] = s[i].file

Contents(c) == /\ c = [id \in DOMAIN c |-> c[id]]
               /\ DOMAIN c \subseteq Ids /\ \A id \in DOMAIN c : c[id] \in Files

\* The generator of ids is past the ids of files.
UpTo(s, gen) == \A i \in DOMAIN s : s[i].id <= gen

\* The files of a collection that was parsed but is not in the queue yet: nobody else has
\* their ids, and the collection has not been added or its url is being handed over.
ParsedOK(m, n, c, a) ==
    /\ DistinctIds(m.parsed[n]) /\ There(m.parsed[n], c) /\ UpTo(m.parsed[n], m.idGen)
    /\ \A i \in DOMAIN m.parsed[n] : /\ m.parsed[n][i].nzb = n
                                     /\ m.parsed[n][i].file \in ToSet(FilesOf[n])
    /\ Apart(m.parsed[n], m.q.files) /\ Apart(m.parsed[n], m.q.parked)
    /\ \A o \in Collections : o # n => Apart(m.parsed[n], m.parsed[o])
    /\ m.parsed[n] # <<>> => IF UrlOf[n] = NoUrl THEN a[n] = 0 ELSE UrlOf[n] \in m.handing

\* The memory m is in order.
MemoryOK(m, c, a, s, r) ==
    /\ m \in Memories
    /\ QueueOK(m.q, c, a, s, m.handing, r)
    /\ ToSet(m.q.nzbs) = Referenced(m.q)
    /\ There(m.q.files, c) /\ There(m.q.parked, c)
    /\ UpTo(m.q.files, m.idGen) /\ UpTo(m.q.parked, m.idGen)
    /\ m.marked \subseteq {m.q.files[i].id : i \in DOMAIN m.q.files}
    /\ \A n \in Collections : ParsedOK(m, n, c, a)
    /\ \A u \in m.handing : a[NzbOfUrl(u)] = 0
    /\ m.working => m.q.post # <<>>
    /\ ~m.loaded => /\ m.q = EmptyLists /\ m.handing = {}
                    /\ \A n \in Collections : m.parsed[n] = <<>>

\* What can be read of the saved queue is in order, though it may be out of date: contents may
\* be missing, and a collection or a url may have moved on.
DiskOK(queue, c, a, s, h, r) ==
    /\ Reading(queue) \in ReadLists /\ QueueOK(Reading(queue), c, a, s, h, r)
    /\ IsList(RowsRead(queue, 2)) /\ IsList(RowsRead(queue, 6))

\* Memory and disk are in order; the rows of the saved queue may lead to the contents of any
\* file, so they need the ids that were given again.
IInv ==
    /\ up \in BOOLEAN /\ crashes \in 0..MaxCrashes
    /\ added \in [Collections -> {0, 1}] /\ scripts \in [Collections -> {0, 1}]
    /\ disk = [queue |-> disk.queue, contents |-> disk.contents]
    /\ Contents(disk.contents)
    /\ MemoryOK(mem, disk.contents, added, scripts, reused)
    /\ DiskOK(disk.queue, disk.contents, added, scripts, mem.handing, reused)
    /\ ~up => ~mem.loaded
    /\ DiskIsCurrent
-----------------------------------------------------------------------------
(* Lists.                                                                   *)

\* A set that has 0 and with each natural number the next one has them all.
LEMMA SetInduction ==
    ASSUME NEW S, 0 \in S, \A n \in Nat : n \in S => n + 1 \in S
    PROVE  Nat \subseteq S
<1> SUFFICES ASSUME Nat \ S # {} PROVE FALSE
  OBVIOUS
<1>1. PICK x \in Nat \ S : \A y \in Nat \ S : ~(<<y, x>> \in OpToRel(<, Nat))
  <2>1. IsWellFoundedOn(OpToRel(<, Nat), Nat)
    BY NatLessThanWellFounded
  <2> QED BY <2>1, WFMin
<1>2. \A y \in Nat \ S : ~(y < x)
  BY <1>1 DEF OpToRel
<1>3. x # 0 /\ x - 1 \in Nat
  OBVIOUS
<1>4. x - 1 \in S
  BY <1>2, <1>3
<1> QED BY <1>3, <1>4

\* Of a function that is defined by recursion on 0..n, from its value at 0 and a step; the
\* step is a function here, because a lemma cannot take an operator.
Keeps(s, S, n, kept) ==
    kept = [k \in 0..n |-> IF k = 0 THEN <<>> ELSE Keep(kept[k - 1], s[k], S)]

\* The recursion of Only has a solution.
LEMMA KeepsExists == ASSUME NEW s, NEW S PROVE \A n \in Nat : \E kept : Keeps(s, S, n, kept)
<1> DEFINE N == {n \in Nat : \E kept : Keeps(s, S, n, kept)}
<1>1. 0 \in N
  <2>1. Keeps(s, S, 0, [k \in 0..0 |-> <<>>])
    BY DEF Keeps
  <2> QED BY <2>1
<1>2. ASSUME NEW n \in Nat, n \in N PROVE n + 1 \in N
  <2>1. PICK a : Keeps(s, S, n, a)
    BY <1>2
  <2> DEFINE b == [k \in 0..(n + 1) |-> IF k = 0 THEN <<>> ELSE Keep(a[k - 1], s[k], S)]
  <2>2. ASSUME NEW k \in 0..n PROVE b[k] = a[k]
    BY <2>1 DEF Keeps
  <2>3. ASSUME NEW k \in 0..(n + 1) PROVE b[k] = IF k = 0 THEN <<>> ELSE Keep(b[k - 1], s[k], S)
    <3>1. CASE k = 0
      BY <3>1
    <3>2. CASE k # 0
      <4>1. k - 1 \in 0..n
        BY <3>2
      <4>2. b[k - 1] = a[k - 1]
        BY <4>1, <2>2
      <4> QED BY <3>2, <4>2
    <3> QED BY <3>1, <3>2
  <2>4. Keeps(s, S, n + 1, b)
    BY <2>3 DEF Keeps
  <2> QED BY <2>4
<1> HIDE DEF N
<1>3. Nat \subseteq N
  BY <1>1, <1>2, SetInduction
<1> QED BY <1>3 DEF N

\* Only(s, S) is the last value of the recursion.
LEMMA OnlySteps ==
    ASSUME NEW s, NEW S, Len(s) \in Nat
    PROVE  \E kept : /\ Only(s, S) = kept[Len(s)] /\ kept[0] = <<>>
                     /\ \A k \in 1..Len(s) : kept[k] = Keep(kept[k - 1], s[k], S)
<1> DEFINE kept == CHOOSE kept : Keeps(s, S, Len(s), kept)
<1>1. Keeps(s, S, Len(s), kept)
  BY KeepsExists
<1>2. Only(s, S) = kept[Len(s)]
  BY DEF Only, Keeps
<1> HIDE DEF kept
<1>3. kept[0] = <<>> /\ \A k \in 1..Len(s) : kept[k] = Keep(kept[k - 1], s[k], S)
  BY <1>1 DEF Keeps
<1> QED BY <1>2, <1>3

\* t has items of s, of different places for different places of t.
PartOf(t, s) ==
    /\ \A i \in DOMAIN t : \E k \in DOMAIN s : t[i] = s[k]
    /\ \A i, j \in DOMAIN t : i # j => \E k, l \in DOMAIN s : k # l /\ t[i] = s[k] /\ t[j] = s[l]

\* What is known of kept[k], the items in S among the first k.
Kept(T, s, S, k, t) ==
    /\ t \in Seq(T) /\ Len(t) <= k
    /\ \A i \in 1..Len(t) : t[i] \in S /\ \E l \in 1..k : t[i] = s[l]
    /\ \A i, j \in 1..Len(t) : i # j => \E l, m \in 1..k : l # m /\ t[i] = s[l] /\ t[j] = s[m]
    /\ \A l \in 1..k : s[l] \in S => \E i \in 1..Len(t) : t[i] = s[l]
    /\ (\A l \in 1..k : s[l] \in S) => Len(t) = k /\ \A i \in 1..k : t[i] = s[i]
    /\ Len(t) = k => \A l \in 1..k : s[l] \in S

\* One step of Only keeps what is known of it.
LEMMA KeptStep ==
    ASSUME NEW T, NEW s \in Seq(T), NEW S, NEW k \in 1..Len(s), NEW t, Kept(T, s, S, k - 1, t)
    PROVE  Kept(T, s, S, k, Keep(t, s[k], S))
<1> s[k] \in T /\ k \in Nat /\ k - 1 \in Nat
  BY ElementOfSeq
<1>1. t \in Seq(T) /\ Len(t) \in Nat /\ Len(t) <= k - 1
  BY DEF Kept
<1>2. CASE s[k] \in S
  <2> DEFINE u == Append(t, s[k])
  <2>1. /\ u \in Seq(T) /\ Len(u) = Len(t) + 1 /\ u[Len(t) + 1] = s[k]
        /\ \A i \in 1..Len(t) : u[i] = t[i]
    BY <1>1, AppendProperties
  <2> HIDE DEF u
  <2>2. \A i \in 1..Len(u) : i \in 1..Len(t) \/ (i = Len(t) + 1 /\ u[i] = s[k])
    BY <2>1, <1>1
  <2>3. ASSUME NEW i \in 1..Len(u) PROVE u[i] \in S /\ \E l \in 1..k : u[i] = s[l]
    <3>1. CASE i \in 1..Len(t)
      <4>1. t[i] \in S /\ \E l \in 1..(k - 1) : t[i] = s[l]
        BY <3>1 DEF Kept
      <4> QED BY <4>1, <3>1, <2>1
    <3> QED BY <3>1, <2>2, <1>2
  <2>4. ASSUME NEW i \in 1..Len(u), NEW j \in 1..Len(u), i # j
        PROVE  \E l, m \in 1..k : l # m /\ u[i] = s[l] /\ u[j] = s[m]
    <3>1. CASE i \in 1..Len(t) /\ j \in 1..Len(t)
      <4>1. PICK l, m \in 1..(k - 1) : l # m /\ t[i] = s[l] /\ t[j] = s[m]
        BY <3>1, <2>4 DEF Kept
      <4>2. u[i] = t[i] /\ u[j] = t[j]
        BY <3>1, <2>1
      <4>3. l \in 1..k /\ m \in 1..k
        OBVIOUS
      <4> QED BY <4>1, <4>2, <4>3
    <3>2. CASE i \in 1..Len(t) /\ j = Len(t) + 1
      <4>1. PICK l \in 1..(k - 1) : t[i] = s[l]
        BY <3>2 DEF Kept
      <4>2. u[i] = s[l] /\ u[j] = s[k] /\ l # k /\ l \in 1..k
        BY <4>1, <3>2, <2>1
      <4> QED BY <4>2
    <3>3. CASE i = Len(t) + 1 /\ j \in 1..Len(t)
      <4>1. PICK l \in 1..(k - 1) : t[j] = s[l]
        BY <3>3 DEF Kept
      <4>2. u[i] = s[k] /\ u[j] = s[l] /\ l # k /\ l \in 1..k
        BY <4>1, <3>3, <2>1
      <4> QED BY <4>2
    <3> QED BY <3>1, <3>2, <3>3, <2>2, <2>4
  <2>5. ASSUME NEW l \in 1..k, s[l] \in S PROVE \E i \in 1..Len(u) : u[i] = s[l]
    <3>1. CASE l = k
      BY <3>1, <2>1, <1>1
    <3>2. CASE l \in 1..(k - 1)
      <4>1. PICK i \in 1..Len(t) : t[i] = s[l]
        BY <3>2, <2>5 DEF Kept
      <4> QED BY <4>1, <2>1, <1>1
    <3> QED BY <3>1, <3>2
  <2>6. ASSUME \A l \in 1..k : s[l] \in S PROVE Len(u) = k /\ \A i \in 1..k : u[i] = s[i]
    <3>1. Len(t) = k - 1 /\ \A i \in 1..(k - 1) : t[i] = s[i]
      BY <2>6 DEF Kept
    <3> QED BY <3>1, <2>1
  <2>7. ASSUME Len(u) = k PROVE \A l \in 1..k : s[l] \in S
    <3>1. \A l \in 1..(k - 1) : s[l] \in S
      BY <2>7, <2>1, <1>1 DEF Kept
    <3> QED BY <3>1, <1>2
  <2>8. Len(u) <= k
    BY <2>1, <1>1
  <2>9. Kept(T, s, S, k, u)
    BY <2>1, <2>3, <2>4, <2>5, <2>6, <2>7, <2>8 DEF Kept
  <2> QED BY <2>9, <1>2 DEF u, Keep
<1>3. CASE s[k] \notin S
  <2>1. \A i \in 1..Len(t) : t[i] \in S /\ \E l \in 1..k : t[i] = s[l]
    BY DEF Kept
  <2>2. ASSUME NEW i \in 1..Len(t), NEW j \in 1..Len(t), i # j
        PROVE  \E l, m \in 1..k : l # m /\ t[i] = s[l] /\ t[j] = s[m]
    <3>1. PICK l, m \in 1..(k - 1) : l # m /\ t[i] = s[l] /\ t[j] = s[m]
      BY <2>2 DEF Kept
    <3>2. l \in 1..k /\ m \in 1..k
      OBVIOUS
    <3> QED BY <3>1, <3>2
  <2>3. \A l \in 1..k : s[l] \in S => l \in 1..(k - 1)
    BY <1>3
  <2>4. \A l \in 1..k : s[l] \in S => \E i \in 1..Len(t) : t[i] = s[l]
    BY <2>3 DEF Kept
  <2>5. ~(\A l \in 1..k : s[l] \in S) /\ Len(t) # k
    BY <1>3, <1>1
  <2>6. Kept(T, s, S, k, t)
    BY <2>1, <2>2, <2>4, <2>5, <1>1 DEF Kept
  <2> QED BY <2>6, <1>3 DEF Keep
<1> QED BY <1>2, <1>3

\* Only(s, S) has the items of s that are in S; it is s if they all are, and shorter if not.
LEMMA OnlyFacts ==
    ASSUME NEW T, NEW s \in Seq(T), NEW S
    PROVE  /\ Only(s, S) \in Seq(T) /\ PartOf(Only(s, S), s)
           /\ ToSet(Only(s, S)) = ToSet(s) \intersect S
           /\ ToSet(s) \subseteq S => Only(s, S) = s
           /\ Len(Only(s, S)) = Len(s) => ToSet(s) \subseteq S
           /\ Len(Only(s, S)) <= Len(s)
<1> Len(s) \in Nat /\ DOMAIN s = 1..Len(s)
  BY LenProperties
<1>1. PICK kept : /\ Only(s, S) = kept[Len(s)] /\ kept[0] = <<>>
                  /\ \A k \in 1..Len(s) : kept[k] = Keep(kept[k - 1], s[k], S)
  BY OnlySteps
<1> DEFINE N == {k \in Nat : k <= Len(s) => Kept(T, s, S, k, kept[k])}
<1>2. 0 \in N
  <2>1. <<>> \in Seq(T) /\ Len(<<>>) = 0
    OBVIOUS
  <2>2. Kept(T, s, S, 0, <<>>)
    BY <2>1 DEF Kept
  <2> QED BY <2>2, <1>1
<1>3. ASSUME NEW k \in Nat, k \in N PROVE k + 1 \in N
  <2> SUFFICES ASSUME k + 1 <= Len(s) PROVE Kept(T, s, S, k + 1, kept[k + 1])
    OBVIOUS
  <2>1. k + 1 \in 1..Len(s) /\ (k + 1) - 1 = k /\ Kept(T, s, S, k, kept[k])
    BY <1>3
  <2>2. Kept(T, s, S, k + 1, Keep(kept[k], s[k + 1], S))
    BY <2>1, KeptStep
  <2> QED BY <2>1, <2>2, <1>1
<1> HIDE DEF N
<1>4. Len(s) \in N
  BY <1>2, <1>3, SetInduction
<1> DEFINE t == Only(s, S)
<1>5. Kept(T, s, S, Len(s), t)
  BY <1>4, <1>1 DEF N
<1> HIDE DEF t
<1>6. t \in Seq(T) /\ DOMAIN t = 1..Len(t) /\ Len(t) \in Nat
  BY <1>5, LenProperties DEF Kept
<1>7. PartOf(t, s)
  <2>1. \A i \in DOMAIN t : \E k \in DOMAIN s : t[i] = s[k]
    BY <1>5, <1>6 DEF Kept
  <2>2. ASSUME NEW i \in DOMAIN t, NEW j \in DOMAIN t, i # j
        PROVE  \E k, l \in DOMAIN s : k # l /\ t[i] = s[k] /\ t[j] = s[l]
    <3>1. \A x, y \in 1..Len(t) : x # y =>
              \E k, l \in 1..Len(s) : k # l /\ t[x] = s[k] /\ t[y] = s[l]
      BY <1>5 DEF Kept
    <3>2. i \in 1..Len(t) /\ j \in 1..Len(t)
      BY <1>6
    <3>3. PICK k, l \in 1..Len(s) : k # l /\ t[i] = s[k] /\ t[j] = s[l]
      BY <3>1, <3>2, <2>2
    <3>4. k \in DOMAIN s /\ l \in DOMAIN s
      OBVIOUS
    <3> QED BY <3>3, <3>4
  <2> QED BY <2>1, <2>2 DEF PartOf
<1>8. ToSet(t) = ToSet(s) \intersect S
  <2>1. ASSUME NEW x \in ToSet(t) PROVE x \in ToSet(s) \intersect S
    <3>1. PICK i \in DOMAIN t : x = t[i]
      BY DEF ToSet
    <3>2. t[i] \in S /\ \E k \in DOMAIN s : t[i] = s[k]
      BY <1>5, <1>6 DEF Kept
    <3> QED BY <3>1, <3>2 DEF ToSet
  <2>2. ASSUME NEW x \in ToSet(s), x \in S PROVE x \in ToSet(t)
    <3>1. PICK k \in DOMAIN s : x = s[k]
      BY DEF ToSet
    <3>2. \E i \in DOMAIN t : t[i] = s[k]
      BY <1>5, <1>6, <3>1, <2>2 DEF Kept
    <3> QED BY <3>1, <3>2 DEF ToSet
  <2> QED BY <2>1, <2>2
<1>9. ToSet(s) \subseteq S => t = s
  <2> SUFFICES ASSUME ToSet(s) \subseteq S PROVE t = s
    OBVIOUS
  <2>1. \A l \in 1..Len(s) : s[l] \in S
    BY DEF ToSet
  <2>2. Len(t) = Len(s) /\ \A i \in 1..Len(s) : t[i] = s[i]
    BY <2>1, <1>5 DEF Kept
  <2> QED BY <2>2, <1>6, SeqEqual
<1>10. Len(t) = Len(s) => ToSet(s) \subseteq S
  BY <1>5 DEF Kept, ToSet
<1> QED BY <1>5, <1>6, <1>7, <1>8, <1>9, <1>10 DEF t, Kept

\* The empty list is part of every list.
LEMMA PartOfEmpty == ASSUME NEW s PROVE PartOf(<<>>, s) /\ \A T : <<>> \in Seq(T)
<1>1. DOMAIN <<>> = {}
  OBVIOUS
<1> QED BY <1>1 DEF PartOf

\* A list is part of itself.
LEMMA PartOfItself == ASSUME NEW s PROVE PartOf(s, s)
BY DEF PartOf

\* The rest of a list without one item, its first item, or what is behind a place.
LEMMA PrefixFacts ==
    ASSUME NEW T, NEW s \in Seq(T), NEW n \in 0..Len(s)
    PROVE  /\ SubSeq(s, 1, n) \in Seq(T) /\ Len(SubSeq(s, 1, n)) = n
           /\ \A i \in 1..n : SubSeq(s, 1, n)[i] = s[i]
           /\ PartOf(SubSeq(s, 1, n), s)
<1> DEFINE t == SubSeq(s, 1, n)
<1>1. Len(s) \in Nat /\ DOMAIN s = 1..Len(s) /\ \A i \in 1..n : s[i] \in T
  BY LenProperties, ElementOfSeq
<1>2. t \in Seq(T) /\ Len(t) = n /\ \A i \in 1..n : t[i] = s[i]
  BY <1>1, SubSeqProperties
<1> HIDE DEF t
<1>3. DOMAIN t = 1..n /\ 1..n \subseteq DOMAIN s
  BY <1>2, <1>1, LenProperties
<1>4. PartOf(t, s)
  BY <1>2, <1>3 DEF PartOf
<1> QED BY <1>2, <1>4 DEF t

\* A list without one of its items.
LEMMA RemoveAtFacts ==
    ASSUME NEW T, NEW s \in Seq(T), NEW n \in DOMAIN s
    PROVE  /\ RemoveAt(s, n) \in Seq(T) /\ Len(RemoveAt(s, n)) = Len(s) - 1
           /\ \A i \in 1..(Len(s) - 1) : RemoveAt(s, n)[i] = s[IF i < n THEN i ELSE i + 1]
           /\ PartOf(RemoveAt(s, n), s)
<1>1. Len(s) \in Nat /\ DOMAIN s = 1..Len(s) /\ \A i \in 1..Len(s) : s[i] \in T
  BY LenProperties, ElementOfSeq
<1> DEFINE a == SubSeq(s, 1, n - 1)
           b == SubSeq(s, n + 1, Len(s))
           t == RemoveAt(s, n)
<1>2. a \in Seq(T) /\ Len(a) = n - 1 /\ \A i \in 1..(n - 1) : a[i] = s[i]
  <2>1. \A i \in 1..(n - 1) : s[i] \in T
    BY <1>1
  <2>2. (n - 1) - 1 + 1 = n - 1 /\ (1 <= n - 1 \/ n - 1 = 0)
    BY <1>1
  <2>3. 1 \in Int /\ n - 1 \in Int
    BY <1>1
  <2>4. /\ a \in Seq(T) /\ Len(a) = IF 1 <= n - 1 THEN (n - 1) - 1 + 1 ELSE 0
        /\ \A i \in 1..((n - 1) - 1 + 1) : a[i] = s[1 + i - 1]
    BY <2>1, <2>3, SubSeqProperties
  <2> HIDE DEF a
  <2> QED BY <2>2, <2>3, <2>4, <1>1
<1>3. /\ b \in Seq(T) /\ Len(b) = Len(s) - n
      /\ \A i \in 1..(Len(s) - n) : b[i] = s[n + i]
  <2>1. \A i \in (n + 1)..Len(s) : s[i] \in T
    BY <1>1
  <2>2. n + 1 \in Int /\ Len(s) \in Int
    BY <1>1
  <2>3. /\ b \in Seq(T) /\ Len(b) = IF n + 1 <= Len(s) THEN Len(s) - (n + 1) + 1 ELSE 0
        /\ \A i \in 1..(Len(s) - (n + 1) + 1) : b[i] = s[n + 1 + i - 1]
    BY <2>1, <2>2, SubSeqProperties
  <2> HIDE DEF b
  <2>4. Len(s) - (n + 1) + 1 = Len(s) - n /\ (n + 1 <= Len(s) \/ Len(s) - n = 0)
    BY <1>1
  <2>5. \A i \in 1..(Len(s) - n) : n + 1 + i - 1 = n + i
    BY <1>1
  <2> QED BY <2>3, <2>4, <2>5
<1>4. t = a \o b
  BY DEF RemoveAt
<1> HIDE DEF a, b, t
<1>5. /\ t \in Seq(T) /\ Len(t) = Len(a) + Len(b)
      /\ \A i \in 1..(Len(a) + Len(b)) : t[i] = IF i <= Len(a) THEN a[i] ELSE b[i - Len(a)]
  BY <1>2, <1>3, <1>4, ConcatProperties
<1>6. Len(t) = Len(s) - 1
  BY <1>1, <1>2, <1>3, <1>5
<1>7. ASSUME NEW i \in 1..(Len(s) - 1) PROVE t[i] = s[IF i < n THEN i ELSE i + 1]
  <2>1. CASE i < n
    BY <2>1, <1>1, <1>2, <1>3, <1>5
  <2>2. CASE ~(i < n)
    <3>1. i - Len(a) \in 1..(Len(s) - n) /\ n + (i - Len(a)) = i + 1 /\ ~(i <= Len(a))
      BY <2>2, <1>1, <1>2
    <3>2. i \in 1..(Len(a) + Len(b)) /\ b[i - Len(a)] = s[i + 1]
      BY <3>1, <1>1, <1>2, <1>3
    <3> QED BY <3>1, <3>2, <2>2, <1>5
  <2> QED BY <2>1, <2>2
<1>8. PartOf(t, s)
  <2> DEFINE f(i) == IF i < n THEN i ELSE i + 1
  <2>1. DOMAIN t = 1..(Len(s) - 1)
    BY <1>5, <1>6, LenProperties
  <2>2. \A i \in DOMAIN t : f(i) \in DOMAIN s /\ t[i] = s[f(i)]
    BY <2>1, <1>1, <1>7
  <2>3. \A i, j \in DOMAIN t : i # j => f(i) # f(j)
    BY <2>1, <1>1
  <2> HIDE DEF f
  <2>4. ASSUME NEW i \in DOMAIN t, NEW j \in DOMAIN t, i # j
        PROVE  \E k, l \in DOMAIN s : k # l /\ t[i] = s[k] /\ t[j] = s[l]
    BY <2>2, <2>3, <2>4
  <2> QED BY <2>2, <2>4 DEF PartOf
<1> QED BY <1>5, <1>6, <1>7, <1>8 DEF t

\* A list without its first item.
LEMMA TailFacts ==
    ASSUME NEW T, NEW s \in Seq(T), s # <<>>
    PROVE  /\ Tail(s) \in Seq(T) /\ Len(Tail(s)) = Len(s) - 1 /\ PartOf(Tail(s), s)
           /\ 1 \in DOMAIN s
<1>1. Len(s) \in Nat \ {0} /\ DOMAIN s = 1..Len(s)
  BY LenProperties, EmptySeq
<1> DEFINE t == Tail(s)
<1>2. t \in Seq(T) /\ Len(t) = Len(s) - 1 /\ \A i \in 1..Len(t) : t[i] = s[i + 1]
  BY HeadTailProperties
<1> HIDE DEF t
<1>3. DOMAIN t = 1..(Len(s) - 1)
  BY <1>2, LenProperties
<1>4. \A i \in DOMAIN t : i + 1 \in DOMAIN s /\ t[i] = s[i + 1]
  BY <1>1, <1>2, <1>3
<1>5. ASSUME NEW i \in DOMAIN t, NEW j \in DOMAIN t, i # j
      PROVE  \E k, l \in DOMAIN s : k # l /\ t[i] = s[k] /\ t[j] = s[l]
  <2>1. i + 1 # j + 1
    BY <1>5, <1>3
  <2> QED BY <2>1, <1>4
<1>6. PartOf(t, s)
  BY <1>4, <1>5 DEF PartOf
<1> QED BY <1>1, <1>2, <1>6 DEF t

\* The items of two lists, one behind the other.
LEMMA ConcatFacts ==
    ASSUME NEW T, NEW s \in Seq(T), NEW t \in Seq(T)
    PROVE  /\ s \o t \in Seq(T) /\ DOMAIN (s \o t) = 1..(Len(s) + Len(t))
           /\ \A i \in DOMAIN s : i \in DOMAIN (s \o t) /\ (s \o t)[i] = s[i]
           /\ \A i \in DOMAIN t : Len(s) + i \in DOMAIN (s \o t) /\ (s \o t)[Len(s) + i] = t[i]
           /\ \A i \in DOMAIN (s \o t) :
                  \/ i \in DOMAIN s /\ (s \o t)[i] = s[i]
                  \/ i - Len(s) \in DOMAIN t /\ (s \o t)[i] = t[i - Len(s)]
           /\ ToSet(s \o t) = ToSet(s) \union ToSet(t)
<1>1. Len(s) \in Nat /\ Len(t) \in Nat /\ DOMAIN s = 1..Len(s) /\ DOMAIN t = 1..Len(t)
  BY LenProperties
<1> DEFINE u == s \o t
<1>2. /\ u \in Seq(T) /\ Len(u) = Len(s) + Len(t)
      /\ \A i \in 1..(Len(s) + Len(t)) : u[i] = IF i <= Len(s) THEN s[i] ELSE t[i - Len(s)]
  BY ConcatProperties
<1> HIDE DEF u
<1>3. DOMAIN u = 1..(Len(s) + Len(t))
  BY <1>2, LenProperties
<1>4. \A i \in DOMAIN s : i \in DOMAIN u /\ u[i] = s[i]
  BY <1>1, <1>2, <1>3
<1>5. ASSUME NEW i \in DOMAIN t PROVE Len(s) + i \in DOMAIN u /\ u[Len(s) + i] = t[i]
  <2>1. Len(s) + i \in 1..(Len(s) + Len(t)) /\ ~(Len(s) + i <= Len(s)) /\ Len(s) + i - Len(s) = i
    BY <1>1
  <2> QED BY <2>1, <1>2, <1>3
<1>6. ASSUME NEW i \in DOMAIN u
      PROVE  \/ i \in DOMAIN s /\ u[i] = s[i]
             \/ i - Len(s) \in DOMAIN t /\ u[i] = t[i - Len(s)]
  BY <1>1, <1>2, <1>3
<1>7. ToSet(u) = ToSet(s) \union ToSet(t)
  <2>1. ASSUME NEW x \in ToSet(u) PROVE x \in ToSet(s) \union ToSet(t)
    <3>1. PICK i \in DOMAIN u : x = u[i]
      BY DEF ToSet
    <3> QED BY <3>1, <1>6 DEF ToSet
  <2>2. ASSUME NEW x \in ToSet(s) PROVE x \in ToSet(u)
    <3>1. PICK i \in DOMAIN s : x = s[i]
      BY DEF ToSet
    <3> QED BY <3>1, <1>4 DEF ToSet
  <2>3. ASSUME NEW x \in ToSet(t) PROVE x \in ToSet(u)
    <3>1. PICK i \in DOMAIN t : x = t[i]
      BY DEF ToSet
    <3> QED BY <3>1, <1>5 DEF ToSet
  <2> QED BY <2>1, <2>2, <2>3
<1> QED BY <1>2, <1>3, <1>4, <1>5, <1>6, <1>7 DEF u

-----------------------------------------------------------------------------
(* What holds of a list holds of its parts and of two lists that fit.       *)

\* t has entries with the id and the collection of entries of s.
IdPartOf(t, s) ==
    /\ \A i \in DOMAIN t : \E k \in DOMAIN s : t[i].id = s[k].id /\ t[i].nzb = s[k].nzb
    /\ \A i, j \in DOMAIN t : i # j =>
           \E k, l \in DOMAIN s : /\ k # l /\ t[i].id = s[k].id /\ t[i].nzb = s[k].nzb
                                  /\ t[j].id = s[l].id /\ t[j].nzb = s[l].nzb

\* d has no other contents than c, but it may have less.
Shrunk(d, c) == DOMAIN d \subseteq DOMAIN c /\ \A id \in DOMAIN d : d[id] = c[id]

\* A part of a list of files has ids and collections of that list.
LEMMA PartIsIdPart == ASSUME NEW s, NEW t, PartOf(t, s) PROVE IdPartOf(t, s)
<1>1. ASSUME NEW i \in DOMAIN t
      PROVE  \E k \in DOMAIN s : t[i].id = s[k].id /\ t[i].nzb = s[k].nzb
  <2>1. PICK k \in DOMAIN s : t[i] = s[k]
    BY DEF PartOf
  <2> QED BY <2>1
<1>2. ASSUME NEW i \in DOMAIN t, NEW j \in DOMAIN t, i # j
      PROVE  \E k, l \in DOMAIN s : /\ k # l /\ t[i].id = s[k].id /\ t[i].nzb = s[k].nzb
                                    /\ t[j].id = s[l].id /\ t[j].nzb = s[l].nzb
  <2>1. PICK k, l \in DOMAIN s : k # l /\ t[i] = s[k] /\ t[j] = s[l]
    BY <1>2 DEF PartOf
  <2> QED BY <2>1
<1> QED BY <1>1, <1>2 DEF IdPartOf

\* Fewer files, fewer contents and more ids that were given again leave files their own.
LEMMA OwnPart ==
    ASSUME NEW s, NEW t, NEW c, NEW d, NEW r, NEW r2,
           Own(s, c, r), IdPartOf(t, s), Shrunk(d, c), r \subseteq r2
    PROVE  Own(t, d, r2)
<1>1. ASSUME NEW i \in DOMAIN t, NEW j \in DOMAIN t, t[i].id = t[j].id PROVE i = j
  <2> SUFFICES ASSUME i # j PROVE FALSE
    OBVIOUS
  <2>1. PICK k, l \in DOMAIN s : k # l /\ t[i].id = s[k].id /\ t[j].id = s[l].id
    BY <1>1 DEF IdPartOf
  <2> QED BY <2>1, <1>1 DEF Own, DistinctIds
<1>2. ASSUME NEW i \in DOMAIN t, t[i].id \in DOMAIN d \ r2
      PROVE  d[t[i].id] \in ToSet(FilesOf[t[i].nzb])
  <2>1. PICK k \in DOMAIN s : t[i].id = s[k].id /\ t[i].nzb = s[k].nzb
    BY DEF IdPartOf
  <2> QED BY <2>1, <1>2 DEF Own, Shrunk
<1> QED BY <1>1, <1>2 DEF Own, DistinctIds

\* Two lists without a common id can be put together.
LEMMA OwnConcat ==
    ASSUME NEW T, NEW s \in Seq(T), NEW t \in Seq(T), NEW c, NEW r,
           Own(s, c, r), Own(t, c, r), Apart(s, t)
    PROVE  Own(s \o t, c, r)
<1> DEFINE u == s \o t
<1>1. \A i \in DOMAIN u : \/ i \in DOMAIN s /\ u[i] = s[i]
                          \/ i - Len(s) \in DOMAIN t /\ u[i] = t[i - Len(s)]
  BY ConcatFacts
<1>2. DOMAIN u \subseteq Int /\ Len(s) \in Int
  BY ConcatFacts, LenProperties
<1> HIDE DEF u
<1>3. ASSUME NEW i \in DOMAIN u, NEW j \in DOMAIN u, u[i].id = u[j].id PROVE i = j
  <2>1. CASE i \in DOMAIN s /\ u[i] = s[i] /\ j \in DOMAIN s /\ u[j] = s[j]
    BY <2>1, <1>3 DEF Own, DistinctIds
  <2>2. CASE /\ i - Len(s) \in DOMAIN t /\ u[i] = t[i - Len(s)]
             /\ j - Len(s) \in DOMAIN t /\ u[j] = t[j - Len(s)]
    <3>1. i - Len(s) = j - Len(s)
      BY <2>2, <1>3 DEF Own, DistinctIds
    <3> QED BY <3>1, <1>2
  <2> QED BY <1>1, <1>3, <2>1, <2>2 DEF Apart
<1>4. \A i \in DOMAIN u : u[i].id \in DOMAIN c \ r => c[u[i].id] \in ToSet(FilesOf[u[i].nzb])
  BY <1>1 DEF Own
<1> QED BY <1>3, <1>4 DEF Own, DistinctIds, u

\* Parts of lists without a common id have none either.
LEMMA ApartPart ==
    ASSUME NEW s, NEW t, NEW s2, NEW t2, Apart(s, t), IdPartOf(s2, s), IdPartOf(t2, t)
    PROVE  Apart(s2, t2) /\ Apart(t2, s2)
<1>1. ASSUME NEW i \in DOMAIN s2, NEW j \in DOMAIN t2 PROVE s2[i].id # t2[j].id
  <2>1. PICK k \in DOMAIN s : s2[i].id = s[k].id
    BY DEF IdPartOf
  <2>2. PICK l \in DOMAIN t : t2[j].id = t[l].id
    BY DEF IdPartOf
  <2> QED BY <2>1, <2>2 DEF Apart
<1> QED BY <1>1 DEF Apart

\* A list that is apart from two others is apart from both together.
LEMMA ApartConcat ==
    ASSUME NEW T, NEW s \in Seq(T), NEW t \in Seq(T), NEW u, Apart(s, u), Apart(t, u)
    PROVE  Apart(s \o t, u) /\ Apart(u, s \o t)
<1>1. \A i \in DOMAIN (s \o t) : \/ i \in DOMAIN s /\ (s \o t)[i] = s[i]
                                 \/ i - Len(s) \in DOMAIN t /\ (s \o t)[i] = t[i - Len(s)]
  BY ConcatFacts
<1> QED BY <1>1 DEF Apart

\* Two parts of a list of entries that take different ones of them.
LEMMA ApartOnly ==
    ASSUME NEW T, NEW s \in Seq(T), DistinctIds(s), NEW S, NEW S2, S \intersect S2 = {}
    PROVE  Apart(Only(s, S), Only(s, S2))
<1> DEFINE a == Only(s, S)
           b == Only(s, S2)
<1>1. ToSet(a) = ToSet(s) \intersect S /\ ToSet(b) = ToSet(s) \intersect S2
  BY OnlyFacts
<1> HIDE DEF a, b
<1>2. ASSUME NEW i \in DOMAIN a, NEW j \in DOMAIN b PROVE a[i].id # b[j].id
  <2>1. PICK k \in DOMAIN s : a[i] = s[k] /\ s[k] \in S
    BY <1>1 DEF ToSet
  <2>2. PICK l \in DOMAIN s : b[j] = s[l] /\ s[l] \in S2
    BY <1>1 DEF ToSet
  <2> QED BY <2>1, <2>2 DEF DistinctIds
<1> QED BY <1>2 DEF Apart, a, b

\* The contents of part of a list are there, and its ids are as small.
LEMMA TherePart ==
    ASSUME NEW s, NEW t, PartOf(t, s), NEW c, NEW gen
    PROVE  (There(s, c) => There(t, c)) /\ (UpTo(s, gen) => UpTo(t, gen))
<1>1. \A i \in DOMAIN t : \E k \in DOMAIN s : t[i] = s[k]
  BY DEF PartOf
<1> QED BY <1>1 DEF There, UpTo

\* The same for two lists together.
LEMMA ThereConcat ==
    ASSUME NEW T, NEW s \in Seq(T), NEW t \in Seq(T), NEW c, NEW gen
    PROVE  /\ There(s, c) /\ There(t, c) => There(s \o t, c)
           /\ UpTo(s, gen) /\ UpTo(t, gen) => UpTo(s \o t, gen)
<1>1. \A i \in DOMAIN (s \o t) : \/ i \in DOMAIN s /\ (s \o t)[i] = s[i]
                                 \/ i - Len(s) \in DOMAIN t /\ (s \o t)[i] = t[i - Len(s)]
  BY ConcatFacts
<1> QED BY <1>1 DEF There, UpTo

\* Fewer jobs are in order, too.
LEMMA JobsPart ==
    ASSUME NEW post, NEW post2, NEW s, JobsOK(post, s), PartOf(post2, post)
    PROVE  JobsOK(post2, s)
<1>1. ASSUME NEW i \in DOMAIN post2, NEW j \in DOMAIN post2, post2[i].nzb = post2[j].nzb
      PROVE  i = j
  <2> SUFFICES ASSUME i # j PROVE FALSE
    OBVIOUS
  <2>1. PICK k, l \in DOMAIN post : k # l /\ post2[i] = post[k] /\ post2[j] = post[l]
    BY DEF PartOf
  <2> QED BY <2>1, <1>1 DEF JobsOK
<1>2. \A i \in DOMAIN post2 : \E k \in DOMAIN post : post2[i] = post[k]
  BY DEF PartOf
<1> QED BY <1>1, <1>2 DEF JobsOK

\* Urls that are in one place stay there when lists get smaller and fewer are handed over.
LEMMA UrlsPart ==
    ASSUME NEW q, NEW p, NEW a, NEW h, NEW h2, UrlOnce(q), UrlsFree(q, a, h),
           PartOf(p.urls, q.urls), PartOf(p.history, q.history), h2 \subseteq h
    PROVE  UrlOnce(p) /\ UrlsFree(p, a, h2)
<1>1. \A i \in DOMAIN p.urls : \E k \in DOMAIN q.urls : p.urls[i] = q.urls[k]
  BY DEF PartOf
<1>2. \A i \in DOMAIN p.history : \E k \in DOMAIN q.history : p.history[i] = q.history[k]
  BY DEF PartOf
<1>3. ASSUME NEW i \in DOMAIN p.urls, NEW j \in DOMAIN p.urls, p.urls[i].url = p.urls[j].url
      PROVE  i = j
  <2> SUFFICES ASSUME i # j PROVE FALSE
    OBVIOUS
  <2>1. PICK k, l \in DOMAIN q.urls : k # l /\ p.urls[i] = q.urls[k] /\ p.urls[j] = q.urls[l]
    BY DEF PartOf
  <2> QED BY <2>1, <1>3 DEF UrlOnce
<1>4. ASSUME NEW i \in DOMAIN p.history, NEW j \in DOMAIN p.history,
             p.history[i].of \in Urls, p.history[i].of = p.history[j].of
      PROVE  i = j
  <2> SUFFICES ASSUME i # j PROVE FALSE
    OBVIOUS
  <2>1. PICK k, l \in DOMAIN q.history :
            k # l /\ p.history[i] = q.history[k] /\ p.history[j] = q.history[l]
    BY DEF PartOf
  <2> QED BY <2>1, <1>4 DEF UrlOnce
<1>5. \A i \in DOMAIN p.urls, j \in DOMAIN p.history : p.urls[i].url # p.history[j].of
  BY <1>1, <1>2 DEF UrlOnce
<1>6. UrlsFree(p, a, h2)
  BY <1>1, <1>2 DEF UrlsFree, UrlFree
<1> QED BY <1>3, <1>4, <1>5, <1>6 DEF UrlOnce

\* p has parts of the lists of q.
SmallerQueue(p, q) ==
    /\ IdPartOf(p.files, q.files) /\ IdPartOf(p.parked, q.parked)
    /\ PartOf(p.post, q.post) /\ PartOf(p.urls, q.urls) /\ PartOf(p.history, q.history)

\* A queue with less in it is in order, if its collections are listed.
LEMMA QueuePart ==
    ASSUME NEW q, NEW p, NEW c, NEW d, NEW a, NEW s, NEW h, NEW h2, NEW r, NEW r2,
           QueueOK(q, c, a, s, h, r), SmallerQueue(p, q), Listed(p, a),
           Shrunk(d, c), r \subseteq r2, h2 \subseteq h
    PROVE  QueueOK(p, d, a, s, h2, r2)
<1>1. Own(p.files, d, r2) /\ Own(p.parked, d, r2)
  BY OwnPart DEF QueueOK, SmallerQueue
<1>2. Apart(p.files, p.parked)
  BY ApartPart DEF QueueOK, SmallerQueue
<1>3. JobsOK(p.post, s)
  BY JobsPart DEF QueueOK, SmallerQueue
<1>4. UrlOnce(p) /\ UrlsFree(p, a, h2)
  BY UrlsPart DEF QueueOK, SmallerQueue
<1> QED BY <1>1, <1>2, <1>3, <1>4 DEF QueueOK

-----------------------------------------------------------------------------
(* A handler and what it writes.                                            *)

Afters(d, w, n, a) ==
    a = [k \in 0..n |-> IF k = 0 THEN d ELSE Written(a[k - 1], w[k])]

\* The recursion of After has a solution.
LEMMA AftersExists == ASSUME NEW d, NEW w PROVE \A n \in Nat : \E a : Afters(d, w, n, a)
<1> DEFINE N == {n \in Nat : \E a : Afters(d, w, n, a)}
<1>1. 0 \in N
  <2>1. Afters(d, w, 0, [k \in 0..0 |-> d])
    BY DEF Afters
  <2> QED BY <2>1
<1>2. ASSUME NEW n \in Nat, n \in N PROVE n + 1 \in N
  <2>1. PICK a : Afters(d, w, n, a)
    BY <1>2
  <2> DEFINE b == [k \in 0..(n + 1) |-> IF k = 0 THEN d ELSE Written(a[k - 1], w[k])]
  <2>2. ASSUME NEW k \in 0..n PROVE b[k] = a[k]
    BY <2>1 DEF Afters
  <2>3. ASSUME NEW k \in 0..(n + 1)
        PROVE  b[k] = IF k = 0 THEN d ELSE Written(b[k - 1], w[k])
    <3>1. CASE k = 0
      BY <3>1
    <3>2. CASE k # 0
      <4>1. k - 1 \in 0..n
        BY <3>2
      <4>2. b[k - 1] = a[k - 1]
        BY <4>1, <2>2
      <4> QED BY <3>2, <4>2
    <3> QED BY <3>1, <3>2
  <2>4. Afters(d, w, n + 1, b)
    BY <2>3 DEF Afters
  <2> QED BY <2>4
<1> HIDE DEF N
<1>3. Nat \subseteq N
  BY <1>1, <1>2, SetInduction
<1> QED BY <1>3 DEF N

\* The disk before the first write, and after each write.
LEMMA AfterSteps ==
    ASSUME NEW d, NEW w, Len(w) \in Nat
    PROVE  /\ After(d, w)[0] = d
           /\ \A k \in 1..Len(w) : After(d, w)[k] = Written(After(d, w)[k - 1], w[k])
<1> DEFINE a == CHOOSE a : Afters(d, w, Len(w), a)
<1>1. Afters(d, w, Len(w), a)
  BY AftersExists
<1>2. After(d, w) = a
  BY DEF After, Afters
<1> HIDE DEF a
<1>3. a[0] = d /\ \A k \in 1..Len(w) : a[k] = Written(a[k - 1], w[k])
  BY <1>1 DEF Afters
<1> QED BY <1>2, <1>3

IsDisk(d) == d = [queue |-> d.queue, contents |-> d.contents] /\ Contents(d.contents)

\* The ids that the first k writes discard, and the queues that the writes save.
Discarded(w, k) == {w[j].id : j \in {i \in 1..k : w[i].op = "discard"}}
SavedQueues(w) == {w[j].queue : j \in {i \in DOMAIN w : w[i].op = "save"}}

Without(c, ids) == Restrict(c, DOMAIN c \ ids)

\* The contents without those of some ids.
LEMMA WithoutFacts ==
    ASSUME NEW c, NEW ids, Contents(c)
    PROVE  /\ Contents(Without(c, ids)) /\ Shrunk(Without(c, ids), c)
           /\ DOMAIN Without(c, ids) = DOMAIN c \ ids
           /\ \A id \in DOMAIN c \ ids : Without(c, ids)[id] = c[id]
           /\ ids = {} => Without(c, ids) = c
BY DEF Without, Restrict, Contents, Shrunk

\* Without none, the contents are as they were.
LEMMA WithoutNothing == ASSUME NEW c, Contents(c) PROVE Without(c, {}) = c
BY WithoutFacts

\* Writes that save and discard only, and at least one: they end with a saved queue.
Saving(w) ==
    /\ Len(w) \in Nat \ {0} /\ DOMAIN w = 1..Len(w)
    /\ \A k \in DOMAIN w : w[k].op \in {"save", "discard"}
    /\ w[Len(w)].op = "save"

\* After the first writes: a queue that was saved or the old one, and contents less the discarded.
LEMMA AfterSaving ==
    ASSUME NEW d, IsDisk(d), NEW w, Saving(w)
    PROVE  \A k \in 0..Len(w) :
               LET a == After(d, w)[k]
               IN  /\ a = [queue |-> a.queue, contents |-> a.contents]
                   /\ a.contents = Without(d.contents, Discarded(w, k))
                   /\ a.queue \in {d.queue} \union SavedQueues(w)
<1> DEFINE a == After(d, w)
           P(k) == /\ a[k] = [queue |-> a[k].queue, contents |-> a[k].contents]
                   /\ a[k].contents = Without(d.contents, Discarded(w, k))
                   /\ a[k].queue \in {d.queue} \union SavedQueues(w)
           N == {k \in Nat : k <= Len(w) => P(k)}
<1>1. Len(w) \in Nat /\ DOMAIN w = 1..Len(w)
  BY DEF Saving
<1>2. a[0] = d /\ \A k \in 1..Len(w) : a[k] = Written(a[k - 1], w[k])
  BY <1>1, AfterSteps
<1> HIDE DEF a
<1>3. 0 \in N
  <2>1. Discarded(w, 0) = {}
    BY DEF Discarded
  <2>2. d.contents = Without(d.contents, Discarded(w, 0))
    BY <2>1, WithoutFacts DEF IsDisk
  <2>3. P(0)
    BY <1>2, <2>2 DEF IsDisk
  <2> QED BY <2>3
<1>4. ASSUME NEW n \in Nat, n \in N PROVE n + 1 \in N
  <2> SUFFICES ASSUME n + 1 <= Len(w) PROVE P(n + 1)
    OBVIOUS
  <2> DEFINE k == n + 1
  <2>1. k \in 1..Len(w) /\ k - 1 = n /\ P(n)
    BY <1>4, <1>1
  <2>2. a[k] = Written(a[n], w[k])
    BY <2>1, <1>2
  <2>3. CASE w[k].op = "save"
    <3>1. a[k] = [a[n] EXCEPT !.queue = w[k].queue]
      BY <2>2, <2>3 DEF Written
    <3>2. Discarded(w, k) = Discarded(w, n)
      BY <2>1, <2>3 DEF Discarded
    <3>3. w[k].queue \in SavedQueues(w)
      BY <2>1, <2>3, <1>1 DEF SavedQueues
    <3> QED BY <3>1, <3>2, <3>3, <2>1
  <2>4. CASE w[k].op = "discard"
    <3>1. a[k] = [a[n] EXCEPT !.contents = Without(a[n].contents, {w[k].id})]
      BY <2>2, <2>4 DEF Written, DiscardFile, Without
    <3>2. Discarded(w, k) = Discarded(w, n) \union {w[k].id}
      BY <2>1, <2>4 DEF Discarded
    <3>3. Without(Without(d.contents, Discarded(w, n)), {w[k].id})
              = Without(d.contents, Discarded(w, n) \union {w[k].id})
      BY DEF Without, Restrict
    <3> QED BY <3>1, <3>2, <3>3, <2>1
  <2> QED BY <2>1, <2>3, <2>4, <1>1 DEF Saving
<1> HIDE DEF N
<1>5. Nat \subseteq N
  BY <1>3, <1>4, SetInduction
<1>6. \A k \in 0..Len(w) : P(k)
  BY <1>5, <1>1 DEF N
<1> QED BY <1>6 DEF a

\* A handler that saves is done, with the queue saved last on disk, or the program is gone,
\* with the queue on disk that was there, or one of those saved, or what it had got on disk
\* of one.
LEMMA HandleSaving ==
    ASSUME IsDisk(disk), NEW m, NEW w, Saving(w), Handle(m, w)
    PROVE  \/ /\ mem' = m /\ up' = up /\ crashes' = crashes
              /\ IsDisk(disk')
              /\ disk'.queue = w[Len(w)].queue
              /\ disk'.contents = Without(disk.contents, Discarded(w, Len(w)))
           \/ /\ mem' = NewMemory({}) /\ up' = FALSE
              /\ crashes < MaxCrashes /\ crashes' = crashes + 1
              /\ IsDisk(disk') /\ Shrunk(disk'.contents, disk.contents)
              /\ \/ disk'.queue = disk.queue
                 \/ \E Q \in SavedQueues(w) : disk'.queue \in {Q} \union CutOff(Q)
<1> DEFINE a == After(disk, w)
<1>1. Len(w) \in Nat \ {0} /\ DOMAIN w = 1..Len(w)
  BY DEF Saving
<1>2. \A k \in 0..Len(w) :
          /\ a[k] = [queue |-> a[k].queue, contents |-> a[k].contents]
          /\ a[k].contents = Without(disk.contents, Discarded(w, k))
          /\ a[k].queue \in {disk.queue} \union SavedQueues(w)
  BY AfterSaving
<1>3. \A k \in 1..Len(w) : a[k] = Written(a[k - 1], w[k])
  BY <1>1, AfterSteps
<1>4. CASE mem' = m /\ disk' = After(disk, w)[Len(w)] /\ UNCHANGED <<up, crashes>>
  <2>1. disk' = a[Len(w)]
    BY <1>4
  <2> HIDE DEF a
  <2>2. Len(w) \in 0..Len(w) /\ Len(w) \in 1..Len(w) /\ Len(w) - 1 \in 0..Len(w)
    BY <1>1
  <2>3. a[Len(w)] = [a[Len(w) - 1] EXCEPT !.queue = w[Len(w)].queue]
    BY <2>2, <1>3 DEF Written, Saving
  <2>4. a[Len(w)].queue = w[Len(w)].queue
    BY <2>2, <2>3, <1>2
  <2>5. Contents(Without(disk.contents, Discarded(w, Len(w))))
    BY WithoutFacts DEF IsDisk
  <2> QED BY <1>4, <2>1, <2>2, <2>4, <2>5, <1>2 DEF IsDisk
<1>5. CASE /\ crashes < MaxCrashes
           /\ crashes' = crashes + 1 /\ up' = FALSE /\ mem' = NewMemory({})
           /\ \E k \in DOMAIN w : disk' \in HalfWritten(After(disk, w)[k - 1], w[k])
  <2>1. PICK k \in DOMAIN w : disk' \in HalfWritten(a[k - 1], w[k])
    BY <1>5
  <2> HIDE DEF a
  <2>2. k - 1 \in 0..Len(w)
    BY <1>1
  <2> DEFINE d == a[k - 1]
  <2>3. /\ d = [queue |-> d.queue, contents |-> d.contents]
        /\ d.contents = Without(disk.contents, Discarded(w, k - 1))
        /\ d.queue \in {disk.queue} \union SavedQueues(w)
    BY <2>2, <1>2
  <2> HIDE DEF d
  <2>4. Contents(d.contents) /\ Shrunk(d.contents, disk.contents)
    <3>1. LET c == Without(disk.contents, Discarded(w, k - 1))
          IN  Contents(c) /\ Shrunk(c, disk.contents)
      BY WithoutFacts DEF IsDisk
    <3> QED BY <3>1, <2>3
  <2>5. CASE disk' = d
    BY <1>5, <2>3, <2>4, <2>5 DEF IsDisk
  <2>6. CASE disk' # d
    <3>1. w[k].op = "save" \/ w[k].op = "discard"
      BY DEF Saving
    <3>2. w[k].op = "save" /\ disk' \in {[d EXCEPT !.queue = c] : c \in CutOff(w[k].queue)}
      BY <2>1, <2>6, <3>1 DEF HalfWritten, d
    <3>3. PICK c \in CutOff(w[k].queue) : disk' = [d EXCEPT !.queue = c]
      BY <3>2
    <3>4. w[k].queue \in SavedQueues(w)
      BY <3>2 DEF SavedQueues
    <3>5. disk' = [queue |-> c, contents |-> d.contents]
      BY <3>3, <2>3
    <3>6. disk'.queue = c /\ disk'.contents = d.contents
      BY <3>5
    <3> QED BY <1>5, <2>4, <3>3, <3>4, <3>5, <3>6 DEF IsDisk
  <2> QED BY <2>5, <2>6
<1> QED BY <1>4, <1>5 DEF Handle

\* A handler that writes nothing only changes the memory.
LEMMA HandleNothing ==
    ASSUME NEW m, Handle(m, <<>>)
    PROVE  mem' = m /\ disk' = disk /\ up' = up /\ crashes' = crashes
<1>1. Len(<<>>) = 0 /\ DOMAIN <<>> = {}
  OBVIOUS
<1>2. After(disk, <<>>)[Len(<<>>)] = disk
  BY <1>1, AfterSteps
<1> QED BY <1>1, <1>2 DEF Handle

\* The contents of d after those of the first k entries were written to c.
WrittenTo(c, d, entries, k) ==
    /\ Contents(d)
    /\ DOMAIN d = DOMAIN c \union {entries[i].id : i \in 1..k}
    /\ \A i \in 1..k : d[entries[i].id] = entries[i].file
    /\ \A id \in DOMAIN c : (\A i \in 1..k : entries[i].id # id) => d[id] = c[id]

With(c, id, file) == [i \in DOMAIN c \union {id} |-> IF i = id THEN file ELSE c[i]]

\* One more file is written.
LEMMA OneMore ==
    ASSUME NEW c, NEW entries \in Seq(Entries), DistinctIds(entries),
           NEW k \in 1..Len(entries), NEW d, WrittenTo(c, d, entries, k - 1)
    PROVE  WrittenTo(c, With(d, entries[k].id, entries[k].file), entries, k)
<1> DEFINE id == entries[k].id
           file == entries[k].file
           e == With(d, id, file)
<1>1. /\ Len(entries) \in Nat /\ DOMAIN entries = 1..Len(entries)
      /\ entries[k] \in Entries
  BY LenProperties, ElementOfSeq
<1>2. id \in Ids /\ file \in Files
  BY <1>1 DEF Entries, Files
<1>3. \A i \in 1..(k - 1) : entries[i].id # id
  BY <1>1 DEF DistinctIds
<1> HIDE DEF id, file
<1>4. /\ DOMAIN e = DOMAIN d \union {id} /\ e[id] = file
      /\ \A x \in DOMAIN d : x # id => e[x] = d[x]
      /\ e = [x \in DOMAIN e |-> e[x]]
  BY DEF With
<1> HIDE DEF e
<1>5. Contents(e)
  BY <1>2, <1>4 DEF Contents, WrittenTo
<1>6. {entries[i].id : i \in 1..k} = {entries[i].id : i \in 1..(k - 1)} \union {id}
  BY DEF id
<1>7. DOMAIN e = DOMAIN c \union {entries[i].id : i \in 1..k}
  BY <1>4, <1>6 DEF WrittenTo
<1>8. ASSUME NEW i \in 1..k PROVE e[entries[i].id] = entries[i].file
  <2>1. CASE i = k
    BY <2>1, <1>4 DEF id, file
  <2>2. CASE i \in 1..(k - 1)
    <3>1. d[entries[i].id] = entries[i].file /\ entries[i].id \in DOMAIN d
      BY <2>2 DEF WrittenTo
    <3> QED BY <2>2, <3>1, <1>3, <1>4
  <2> QED BY <2>1, <2>2
<1>9. ASSUME NEW x \in DOMAIN c, \A i \in 1..k : entries[i].id # x PROVE e[x] = c[x]
  <2>1. \A i \in 1..(k - 1) : entries[i].id # x
    BY <1>9
  <2>2. d[x] = c[x] /\ x \in DOMAIN d
    BY <2>1 DEF WrittenTo
  <2>3. x # id
    BY <1>9 DEF id
  <2> QED BY <2>2, <2>3, <1>4
<1>10. WrittenTo(c, e, entries, k)
  BY <1>5, <1>7, <1>8, <1>9 DEF WrittenTo
<1> QED BY <1>10 DEF e, id, file

IdsOf(entries) == {entries[i].id : i \in DOMAIN entries}

\* A handler that writes contents: all of them are there, or the program died on the way.
LEMMA HandleWriting ==
    ASSUME IsDisk(disk), NEW m, NEW entries \in Seq(Entries), DistinctIds(entries),
           Handle(m, Writes(entries))
    PROVE  \/ /\ mem' = m /\ up' = up /\ crashes' = crashes
              /\ IsDisk(disk') /\ disk'.queue = disk.queue
              /\ There(entries, disk'.contents)
              /\ DOMAIN disk'.contents = DOMAIN disk.contents \union IdsOf(entries)
              /\ \A id \in DOMAIN disk.contents \ IdsOf(entries) :
                     disk'.contents[id] = disk.contents[id]
           \/ /\ mem' = NewMemory({}) /\ up' = FALSE
              /\ crashes < MaxCrashes /\ crashes' = crashes + 1
              /\ IsDisk(disk') /\ disk'.queue = disk.queue
              /\ \A id \in DOMAIN disk'.contents \ IdsOf(entries) :
                     id \in DOMAIN disk.contents /\ disk'.contents[id] = disk.contents[id]
<1> DEFINE w == Writes(entries)
           a == After(disk, w)
           P(k) == /\ a[k] = [queue |-> disk.queue, contents |-> a[k].contents]
                   /\ WrittenTo(disk.contents, a[k].contents, entries, k)
           N == {k \in Nat : k <= Len(entries) => P(k)}
<1>1. Len(entries) \in Nat /\ DOMAIN entries = 1..Len(entries)
  BY LenProperties
<1>2. /\ Len(w) = Len(entries) /\ DOMAIN w = 1..Len(entries)
      /\ \A k \in 1..Len(entries) :
             w[k] = [op |-> "write", id |-> entries[k].id, file |-> entries[k].file]
  <2>1. DOMAIN w = 1..Len(entries)
    BY <1>1 DEF Writes
  <2>2. \A k \in 1..Len(entries) :
            w[k] = [op |-> "write", id |-> entries[k].id, file |-> entries[k].file]
    BY <1>1 DEF Writes, Write
  <2>3. w = [k \in 1..Len(entries) |-> w[k]]
    BY <1>1 DEF Writes
  <2> HIDE DEF w
  <2>4. Len(w) = Len(entries)
    BY <1>1, <2>3
  <2> QED BY <2>1, <2>2, <2>4
<1> HIDE DEF w
<1>3. a[0] = disk /\ \A k \in 1..Len(entries) : a[k] = Written(a[k - 1], w[k])
  BY <1>1, <1>2, AfterSteps
<1> HIDE DEF a
<1>4. 0 \in N
  <2>1. WrittenTo(disk.contents, disk.contents, entries, 0)
    BY DEF WrittenTo, IsDisk
  <2> QED BY <2>1, <1>3 DEF IsDisk
<1>5. ASSUME NEW n \in Nat, n \in N PROVE n + 1 \in N
  <2> SUFFICES ASSUME n + 1 <= Len(entries) PROVE P(n + 1)
    OBVIOUS
  <2> DEFINE k == n + 1
  <2>1. k \in 1..Len(entries) /\ k - 1 = n /\ P(n)
    BY <1>5, <1>1
  <2>2. a[k] = [a[n] EXCEPT !.contents = With(a[n].contents, entries[k].id, entries[k].file)]
    <3>1. a[k] = Written(a[n], w[k])
      BY <2>1, <1>3
    <3>2. w[k].op = "write" /\ w[k].id = entries[k].id /\ w[k].file = entries[k].file
      BY <2>1, <1>2
    <3>3. a[k] = SaveFile(a[n], entries[k].id, entries[k].file)
      BY <3>1, <3>2 DEF Written
    <3> QED BY <3>3 DEF SaveFile, With
  <2>3. a[k] = [queue |-> disk.queue,
                contents |-> With(a[n].contents, entries[k].id, entries[k].file)]
    BY <2>1, <2>2
  <2>4. WrittenTo(disk.contents, With(a[n].contents, entries[k].id, entries[k].file), entries, k)
    BY <2>1, OneMore
  <2> QED BY <2>3, <2>4
<1> HIDE DEF N
<1>6. Nat \subseteq N
  BY <1>4, <1>5, SetInduction
<1>7. \A k \in 0..Len(entries) : P(k)
  BY <1>6, <1>1 DEF N
<1>8. CASE mem' = m /\ disk' = After(disk, Writes(entries))[Len(Writes(entries))]
           /\ UNCHANGED <<up, crashes>>
  <2>1. disk' = a[Len(entries)]
    BY <1>8, <1>2 DEF a, w
  <2>2. P(Len(entries))
    BY <1>1, <1>7
  <2>3. IsDisk(disk') /\ disk'.queue = disk.queue
    BY <2>1, <2>2 DEF IsDisk, WrittenTo
  <2>4. WrittenTo(disk.contents, disk'.contents, entries, Len(entries))
    BY <2>1, <2>2
  <2>5. There(entries, disk'.contents)
    BY <2>4, <1>1 DEF WrittenTo, There
  <2>6. /\ DOMAIN disk'.contents = DOMAIN disk.contents \union IdsOf(entries)
        /\ \A id \in DOMAIN disk.contents \ IdsOf(entries) :
               disk'.contents[id] = disk.contents[id]
    BY <2>4, <1>1 DEF WrittenTo, IdsOf
  <2> QED BY <1>8, <2>3, <2>5, <2>6
<1>9. CASE /\ crashes < MaxCrashes
           /\ crashes' = crashes + 1 /\ up' = FALSE /\ mem' = NewMemory({})
           /\ \E k \in DOMAIN Writes(entries) :
                  disk' \in HalfWritten(After(disk, Writes(entries))[k - 1], Writes(entries)[k])
  <2>1. PICK k \in 1..Len(entries) : disk' \in HalfWritten(a[k - 1], w[k])
    BY <1>9, <1>2 DEF a, w
  <2>2. k - 1 \in 0..Len(entries) /\ P(k - 1)
    BY <1>1, <1>7
  <2> DEFINE c == a[k - 1].contents
  <2>3. WrittenTo(disk.contents, c, entries, k - 1) /\ a[k - 1] = [queue |-> disk.queue, contents |-> c]
    BY <2>2
  <2>4. disk' = a[k - 1] \/ disk' = DiscardFile(a[k - 1], entries[k].id)
    BY <2>1, <1>2 DEF HalfWritten
  <2> HIDE DEF c
  <2>5. \A id \in DOMAIN c \ IdsOf(entries) : id \in DOMAIN disk.contents /\ c[id] = disk.contents[id]
    <3>1. \A i \in 1..(k - 1) : entries[i].id \in IdsOf(entries)
      BY <1>1 DEF IdsOf
    <3> QED BY <3>1, <2>3 DEF WrittenTo
  <2>6. Contents(c)
    BY <2>3 DEF WrittenTo
  <2>7. CASE disk' = a[k - 1]
    <3>1. disk' = [queue |-> disk.queue, contents |-> c]
      BY <2>3, <2>7
    <3>2. IsDisk(disk') /\ disk'.queue = disk.queue /\ disk'.contents = c
      BY <3>1, <2>6 DEF IsDisk
    <3> QED BY <1>9, <3>2, <2>5
  <2>8. CASE disk' = DiscardFile(a[k - 1], entries[k].id)
    <3> DEFINE e == Without(c, {entries[k].id})
    <3>1. disk' = [queue |-> disk.queue, contents |-> e]
      BY <2>8, <2>3 DEF DiscardFile, Without
    <3>2. Contents(e) /\ Shrunk(e, c)
      BY <2>6, WithoutFacts
    <3> HIDE DEF e
    <3>3. IsDisk(disk') /\ disk'.queue = disk.queue /\ disk'.contents = e
      BY <3>1, <3>2 DEF IsDisk
    <3>4. \A id \in DOMAIN e \ IdsOf(entries) : id \in DOMAIN disk.contents /\ e[id] = disk.contents[id]
      BY <3>2, <2>5 DEF Shrunk
    <3> QED BY <1>9, <3>3, <3>4
  <2> QED BY <2>4, <2>7, <2>8
<1> QED BY <1>8, <1>9 DEF Handle

\* Discards of entries, and then the queue.
LEMMA DiscardsThenSave ==
    ASSUME NEW T, NEW entries \in Seq(T), NEW q, NEW marked
    PROVE  LET w == Discards(entries) \o <<Save(q, marked)>>
           IN  /\ Saving(w) /\ w[Len(w)].queue = SaveDownloadQueue(q, marked)
               /\ SavedQueues(w) = {SaveDownloadQueue(q, marked)}
               /\ Discarded(w, Len(w)) = IdsOf(entries)
<1> DEFINE a == Discards(entries)
           b == <<Save(q, marked)>>
           w == a \o b
           W == {a[i] : i \in DOMAIN a} \union {b[1]}
<1>1. Len(entries) \in Nat /\ DOMAIN entries = 1..Len(entries)
  BY LenProperties
<1>2. DOMAIN a = 1..Len(entries) /\ a = [i \in 1..Len(entries) |-> a[i]]
      /\ \A i \in 1..Len(entries) : a[i] = [op |-> "discard", id |-> entries[i].id]
  BY <1>1 DEF Discards, Discard
<1>3. b[1] = [op |-> "save", queue |-> SaveDownloadQueue(q, marked)] /\ Len(b) = 1 /\ DOMAIN b = {1}
  BY DEF Save
<1> HIDE DEF a, b
<1>4. Len(a) = Len(entries) /\ a \in Seq(W) /\ b \in Seq(W)
  <2>1. a \in [1..Len(entries) -> W]
    BY <1>2
  <2>2. a \in Seq(W) /\ Len(a) = Len(entries)
    BY <1>1, <2>1
  <2>3. b[1] \in W
    OBVIOUS
  <2>4. b \in Seq(W)
    BY <2>3 DEF b
  <2> QED BY <2>2, <2>4
<1> HIDE DEF W
<1>5. /\ w \in Seq(W) /\ Len(w) = Len(entries) + 1
      /\ \A i \in 1..(Len(entries) + 1) : w[i] = IF i <= Len(entries) THEN a[i] ELSE b[i - Len(entries)]
  <2>1. /\ a \o b \in Seq(W) /\ Len(a \o b) = Len(a) + Len(b)
        /\ \A i \in 1..(Len(a) + Len(b)) : (a \o b)[i] = IF i <= Len(a) THEN a[i] ELSE b[i - Len(a)]
    BY <1>4, ConcatProperties
  <2> QED BY <2>1, <1>3, <1>4
<1> HIDE DEF w
<1>6. DOMAIN w = 1..(Len(entries) + 1)
  BY <1>5, LenProperties
<1> DEFINE n == Len(entries)
<1>7. \A i \in 1..n : i \in 1..(n + 1) /\ i <= n /\ i # n + 1
  BY <1>1
<1>8. n + 1 \in 1..(n + 1) /\ ~(n + 1 <= n) /\ n + 1 - n = 1 /\ n + 1 \in Nat \ {0}
      /\ \A i \in 1..(n + 1) : i \in 1..n \/ i = n + 1
  BY <1>1
<1> HIDE DEF n
<1>9. \A i \in 1..n : w[i] = [op |-> "discard", id |-> entries[i].id]
  BY <1>2, <1>5, <1>7 DEF n
<1>10. w[n + 1] = [op |-> "save", queue |-> SaveDownloadQueue(q, marked)]
  BY <1>3, <1>5, <1>8 DEF n
<1>11. ASSUME NEW i \in 1..n PROVE w[i].op = "discard" /\ w[i].id = entries[i].id
  <2>1. w[i] = [op |-> "discard", id |-> entries[i].id]
    BY <1>9
  <2> QED BY <2>1
<1>12. w[n + 1].op = "save" /\ w[n + 1].queue = SaveDownloadQueue(q, marked)
  BY <1>10
<1>13. Len(w) = n + 1 /\ DOMAIN w = 1..(n + 1)
  BY <1>5, <1>6 DEF n
<1>14. Saving(w)
  BY <1>8, <1>11, <1>12, <1>13 DEF Saving
<1>15. SavedQueues(w) = {SaveDownloadQueue(q, marked)}
  <2>1. {i \in DOMAIN w : w[i].op = "save"} = {n + 1}
    BY <1>7, <1>8, <1>11, <1>12, <1>13
  <2> QED BY <2>1, <1>12 DEF SavedQueues
<1>16. Discarded(w, Len(w)) = IdsOf(entries)
  <2>1. {i \in 1..Len(w) : w[i].op = "discard"} = 1..n
    BY <1>7, <1>8, <1>11, <1>12, <1>13
  <2>2. DOMAIN entries = 1..n
    BY <1>1 DEF n
  <2> QED BY <2>1, <2>2, <1>11 DEF Discarded, IdsOf
<1> QED BY <1>12, <1>13, <1>14, <1>15, <1>16 DEF w, a, b

\* The queue only.
LEMMA OnlySave ==
    ASSUME NEW q, NEW marked
    PROVE  LET w == <<Save(q, marked)>>
           IN  /\ Saving(w) /\ w[Len(w)].queue = SaveDownloadQueue(q, marked)
               /\ SavedQueues(w) = {SaveDownloadQueue(q, marked)}
               /\ Discarded(w, Len(w)) = {}
<1> DEFINE w == <<Save(q, marked)>>
<1>1. Len(w) = 1 /\ DOMAIN w = {1} /\ 1..1 = {1}
      /\ w[1] = [op |-> "save", queue |-> SaveDownloadQueue(q, marked)]
  BY DEF Save
<1> HIDE DEF w
<1>2. Saving(w) /\ w[Len(w)].queue = SaveDownloadQueue(q, marked)
  BY <1>1 DEF Saving
<1>3. SavedQueues(w) = {SaveDownloadQueue(q, marked)}
  BY <1>1 DEF SavedQueues
<1>4. Discarded(w, Len(w)) = {}
  BY <1>1 DEF Discarded
<1> QED BY <1>2, <1>3, <1>4 DEF w

-----------------------------------------------------------------------------
(* What is read of a queue that was saved, or cut off.                      *)

\* The sections of a queue-file, if there is one.
Sections(q, marked) ==
    << Section(q.nzbs), SaveFileQueue(q, q.files, marked), SavePostQueue(q),
       Section(q.urls), SaveHistory(q), SaveFileQueue(q, q.parked, marked) >>

\* A queue-file with whole sections that say at least the number of their rows.
Sized(Q) ==
    /\ Len(Q) = 6 /\ DOMAIN Q = 1..6 /\ IsList(Q)
    /\ \A k \in 1..6 : /\ Q[k] = [size |-> Q[k].size, rows |-> Q[k].rows]
                       /\ IsList(Q[k].rows)

\* Of each section of Q the first rows are read from R, if any.
ReadsPart(R, Q) ==
    \A k \in 1..6 :
        \E n \in 0..Len(Q[k]) : /\ RowsRead(R, k) = SubSeq(Q[k], 1, n)
                                /\ k > 1 /\ n > 0 => RowsRead(R, 1) = Q[1]

RowsOf(Q) == [k \in 1..6 |-> Q[k].rows]

\* A sequence over any set is a list.
LEMMA ListOf == ASSUME NEW T, NEW s \in Seq(T) PROVE IsList(s)
<1>1. s \in [1..Len(s) -> ToSet(s)] /\ Len(s) \in Nat
  BY LenProperties DEF ToSet
<1> QED BY <1>1 DEF IsList

\* The length of a list, its empty and its whole prefix.
LEMMA PartsOfList ==
    ASSUME NEW s, IsList(s)
    PROVE  /\ Len(s) \in Nat /\ DOMAIN s = 1..Len(s)
           /\ SubSeq(s, 1, 0) = <<>> /\ SubSeq(s, 1, Len(s)) = s
BY LenProperties, SubSeqEmpty, SubSeqFull DEF IsList

\* RowsOf written out.
LEMMA ReadsRows ==
    ASSUME NEW R, NEW Q,
           \A k \in 1..6 : \E n \in 0..Len(Q[k].rows) :
               /\ RowsRead(R, k) = SubSeq(Q[k].rows, 1, n)
               /\ k > 1 /\ n > 0 => RowsRead(R, 1) = Q[1].rows
    PROVE  ReadsPart(R, RowsOf(Q))
<1> DEFINE rows == RowsOf(Q)
<1>1. \A k \in 1..6 : rows[k] = Q[k].rows
  BY DEF RowsOf
<1> HIDE DEF rows
<1>2. ASSUME NEW k \in 1..6
      PROVE  \E n \in 0..Len(rows[k]) : /\ RowsRead(R, k) = SubSeq(rows[k], 1, n)
                                        /\ k > 1 /\ n > 0 => RowsRead(R, 1) = rows[1]
  <2>1. rows[k] = Q[k].rows /\ rows[1] = Q[1].rows
    BY <1>1
  <2> QED BY <2>1
<1>3. ReadsPart(R, rows)
  BY <1>2 DEF ReadsPart
<1> QED BY <1>3 DEF rows

\* From a queue without sections nothing is read.
LEMMA NothingRead ==
    ASSUME NEW R, Len(R) = 0, NEW Q, \A k \in 1..6 : IsList(Q[k])
    PROVE  ReadsPart(R, Q)
<1>1. ASSUME NEW k \in 1..6 PROVE RowsRead(R, k) = <<>>
  BY DEF RowsRead
<1>2. ASSUME NEW k \in 1..6
      PROVE  \E n \in 0..Len(Q[k]) : /\ RowsRead(R, k) = SubSeq(Q[k], 1, n)
                                     /\ k > 1 /\ n > 0 => RowsRead(R, 1) = Q[1]
  <2>1. Len(Q[k]) \in Nat /\ SubSeq(Q[k], 1, 0) = <<>>
    BY PartsOfList
  <2>2. 0 \in 0..Len(Q[k]) /\ ~(0 > 0)
    BY <2>1
  <2>3. RowsRead(R, k) = SubSeq(Q[k], 1, 0)
    BY <1>1, <2>1, Zenon
  <2> QED BY <2>2, <2>3
<1> QED BY <1>2 DEF ReadsPart

\* From a whole queue-file the first rows of each section are read.
LEMMA WholeRead == ASSUME NEW Q, Sized(Q) PROVE ReadsPart(Q, RowsOf(Q))
<1> SUFFICES ASSUME NEW k \in 1..6
             PROVE  \E n \in 0..Len(Q[k].rows) : /\ RowsRead(Q, k) = SubSeq(Q[k].rows, 1, n)
                                                 /\ k > 1 /\ n > 0 => RowsRead(Q, 1) = Q[1].rows
  BY ReadsRows
<1>1. /\ Len(Q[k].rows) \in 0..Len(Q[k].rows) /\ 0 \in 0..Len(Q[k].rows)
      /\ SubSeq(Q[k].rows, 1, 0) = <<>> /\ SubSeq(Q[k].rows, 1, Len(Q[k].rows)) = Q[k].rows
  BY PartsOfList DEF Sized
<1>2. RowsRead(Q, 1) = Q[1].rows
  <2>1. 1 <= Len(Q) /\ \A i \in 1..(1 - 1) : Complete(Q[i])
    BY DEF Sized
  <2> QED BY <2>1 DEF RowsRead
<1>3. RowsRead(Q, k) = Q[k].rows \/ RowsRead(Q, k) = <<>>
  BY DEF RowsRead
<1> QED BY <1>1, <1>2, <1>3

\* From a queue-file that was cut off, too.
LEMMA CutOffRead ==
    ASSUME NEW Q, Sized(Q), NEW c \in CutOff(Q)
    PROVE  ReadsPart(c, RowsOf(Q))
<1>1. CASE c = <<>>
  <2>1. \A k \in 1..6 : IsList(RowsOf(Q)[k])
    BY DEF Sized, RowsOf
  <2>2. Len(c) = 0
    BY <1>1
  <2> QED BY <2>1, <2>2, NothingRead
<1>2. CASE c # <<>>
  <2>1. PICK k0 \in 1..6 : \E j \in 0..Len(Q[k0].rows) :
            c = SubSeq(Q, 1, k0 - 1) \o <<[Q[k0] EXCEPT !.rows = SubSeq(@, 1, j)]>>
    BY <1>2 DEF CutOff, Sized
  <2>2. PICK j \in 0..Len(Q[k0].rows) :
            c = SubSeq(Q, 1, k0 - 1) \o <<[Q[k0] EXCEPT !.rows = SubSeq(@, 1, j)]>>
    BY <2>1
  <2> DEFINE last == [size |-> Q[k0].size, rows |-> SubSeq(Q[k0].rows, 1, j)]
             a == SubSeq(Q, 1, k0 - 1)
             T == ToSet(Q) \union {last}
  <2>3. [Q[k0] EXCEPT !.rows = SubSeq(@, 1, j)] = last
    <3>1. \A r, rows : r = [size |-> r.size, rows |-> r.rows] =>
              [r EXCEPT !.rows = rows] = [size |-> r.size, rows |-> rows]
      OBVIOUS
    <3>2. Q[k0] = [size |-> Q[k0].size, rows |-> Q[k0].rows]
      BY DEF Sized
    <3> QED BY <3>1, <3>2
  <2>4. Q \in Seq(T)
    BY SeqMonotonic DEF Sized, IsList
  <2>5. a \in Seq(T) /\ Len(a) = k0 - 1 /\ \A i \in 1..(k0 - 1) : a[i] = Q[i]
    <3>1. k0 - 1 \in 0..Len(Q)
      BY DEF Sized
    <3> HIDE DEF T
    <3> QED BY <2>4, <3>1, PrefixFacts
  <2>6. <<last>> \in Seq(T) /\ Len(<<last>>) = 1 /\ <<last>>[1] = last
    <3>1. last \in T
      OBVIOUS
    <3> HIDE DEF T, last
    <3> QED BY <3>1
  <2>7. c = a \o <<last>>
    BY <2>2, <2>3
  <2> HIDE DEF T, last, a
  <2> DEFINE b == <<last>>
  <2> HIDE DEF b
  <2>8. /\ Len(c) = k0 /\ \A i \in 1..(k0 - 1) : c[i] = Q[i]
        /\ c[k0] = last
    <3>1. /\ Len(a \o b) = Len(a) + Len(b)
          /\ \A i \in 1..(Len(a) + Len(b)) : (a \o b)[i] = IF i <= Len(a) THEN a[i] ELSE b[i - Len(a)]
      BY <2>5, <2>6, ConcatProperties DEF b
    <3>2. Len(a) = k0 - 1 /\ Len(b) = 1 /\ b[1] = last /\ c = a \o b
      BY <2>5, <2>6, <2>7 DEF b
    <3>3. k0 \in 1..((k0 - 1) + 1) /\ ~(k0 <= k0 - 1) /\ k0 - (k0 - 1) = 1 /\ (k0 - 1) + 1 = k0
      OBVIOUS
    <3>4. \A i \in 1..(k0 - 1) : i \in 1..((k0 - 1) + 1) /\ i <= k0 - 1
      OBVIOUS
    <3>5. Len(c) = k0
      BY <3>1, <3>2, <3>3
    <3>6. \A i \in 1..(k0 - 1) : c[i] = Q[i]
      BY <3>1, <3>2, <3>4, <2>5
    <3>7. c[k0] = last
      BY <3>1, <3>2, <3>3
    <3> QED BY <3>5, <3>6, <3>7
  <2>9. ASSUME NEW k \in 1..6
        PROVE  \E n \in 0..Len(Q[k].rows) : /\ RowsRead(c, k) = SubSeq(Q[k].rows, 1, n)
                                            /\ k > 1 /\ n > 0 => RowsRead(c, 1) = Q[1].rows
    <3>1. /\ 0 \in 0..Len(Q[k].rows) /\ Len(Q[k].rows) \in 0..Len(Q[k].rows)
          /\ SubSeq(Q[k].rows, 1, 0) = <<>> /\ SubSeq(Q[k].rows, 1, Len(Q[k].rows)) = Q[k].rows
      <4>1. IsList(Q[k].rows)
        BY DEF Sized
      <4> QED BY <4>1, PartsOfList
    <3>2. CASE RowsRead(c, k) = <<>>
      <4>1. RowsRead(c, k) = SubSeq(Q[k].rows, 1, 0) /\ ~(0 > 0)
        BY <3>1, <3>2
      <4> QED BY <3>1, <4>1
    <3>3. CASE RowsRead(c, k) # <<>>
      <4>1. RowsRead(c, k) = c[k].rows /\ k <= k0
        BY <3>3, <2>8 DEF RowsRead
      <4>2. k > 1 => RowsRead(c, 1) = Q[1].rows
        <5> SUFFICES ASSUME k > 1 PROVE RowsRead(c, 1) = Q[1].rows
          OBVIOUS
        <5>1. 1 <= Len(c) /\ c[1] = Q[1] /\ \A i \in 1..(1 - 1) : Complete(c[i])
          BY <4>1, <2>8
        <5> QED BY <5>1 DEF RowsRead
      <4>3. CASE k < k0
        <5>1. c[k] = Q[k]
          BY <4>3, <2>8
        <5> QED BY <5>1, <4>1, <4>2, <3>1
      <4>4. CASE k = k0
        <5>1. RowsRead(c, k) = SubSeq(Q[k].rows, 1, j) /\ j \in 0..Len(Q[k].rows)
          BY <4>1, <4>4, <2>8 DEF last
        <5> QED BY <5>1, <4>2
      <4> QED BY <4>1, <4>3, <4>4
    <3> QED BY <3>2, <3>3
  <2> QED BY <2>9, ReadsRows
<1> QED BY <1>1, <1>2

\* A function on 1..n is a list.
LEMMA ListFromFunction ==
    ASSUME NEW n \in Nat, NEW s, s = [i \in 1..n |-> s[i]]
    PROVE  /\ IsList(s) /\ Len(s) = n /\ DOMAIN s = 1..n
           /\ \A T : (\A i \in 1..n : s[i] \in T) => s \in Seq(T)
<1>1. DOMAIN s = 1..n
  OBVIOUS
<1>2. s \in [1..n -> ToSet(s)]
  BY <1>1 DEF ToSet
<1>3. s \in Seq(ToSet(s)) /\ Len(s) = n
  BY <1>1, <1>2
<1>4. ASSUME NEW T, \A i \in 1..n : s[i] \in T PROVE s \in Seq(T)
  <2>1. s \in [1..n -> T]
    BY <1>4
  <2> QED BY <2>1
<1> QED BY <1>1, <1>3, <1>4 DEF IsList

FileRows(q, list, marked) == SaveFileQueue(q, list, marked).rows
Kept2(list, marked) == Only(list, {e \in ToSet(list) : e.id \notin marked})

\* The rows of these entries, for these collections.
RowsFor(rows, kept, nzbs) ==
    /\ Len(rows) = Len(kept) /\ DOMAIN rows = DOMAIN kept
    /\ \A i \in DOMAIN kept : /\ rows[i].id = kept[i].id
                              /\ rows[i].nzb = FindNZBInfoIndex(nzbs, kept[i].nzb)

\* The rows of files, saved.
LEMMA FileRowsFacts ==
    ASSUME NEW q, NEW list \in Seq(Entries), NEW marked
    PROVE  /\ \E s : /\ SaveFileQueue(q, list, marked) = s /\ s = [size |-> s.size, rows |-> s.rows]
                    /\ s.size = Len(list) /\ IsList(s.rows)
           /\ RowsFor(FileRows(q, list, marked), Kept2(list, marked), q.nzbs)
<1> DEFINE kept == Kept2(list, marked)
           rows == [i \in DOMAIN kept |->
                       [id |-> kept[i].id, nzb |-> FindNZBInfoIndex(q.nzbs, kept[i].nzb)]]
           s == SaveFileQueue(q, list, marked)
<1>1. kept \in Seq(Entries)
  BY OnlyFacts DEF Kept2
<1>2. s = [size |-> Len(list), rows |-> rows]
  BY DEF SaveFileQueue, Kept2
<1> HIDE DEF kept, s
<1>3. Len(kept) \in Nat /\ DOMAIN kept = 1..Len(kept)
  BY <1>1, LenProperties
<1>4. \A i \in DOMAIN kept : /\ rows[i].id = kept[i].id
                             /\ rows[i].nzb = FindNZBInfoIndex(q.nzbs, kept[i].nzb)
  OBVIOUS
<1>5. rows = [i \in 1..Len(kept) |-> rows[i]]
  BY <1>3
<1> HIDE DEF rows
<1>6. IsList(rows) /\ Len(rows) = Len(kept) /\ DOMAIN rows = 1..Len(kept)
  BY <1>3, <1>5, ListFromFunction
<1>7. s.rows = rows /\ s.size = Len(list) /\ s = [size |-> s.size, rows |-> s.rows]
  BY <1>2
<1>8. FileRows(q, list, marked) = rows
  BY <1>7 DEF FileRows, s
<1>9. SaveFileQueue(q, list, marked) = s
  BY DEF s
<1> HIDE DEF kept
<1>10. RowsFor(rows, kept, q.nzbs)
  BY <1>3, <1>4, <1>6 DEF RowsFor
<1>11. s.size = Len(list) /\ IsList(s.rows)
  BY <1>6, <1>7
<1> QED BY <1>7, <1>8, <1>9, <1>10, <1>11 DEF kept

\* The rows of jobs, saved.
LEMMA PostRowsFacts ==
    ASSUME NEW q, q.post \in Seq(Jobs)
    PROVE  LET s == SavePostQueue(q)
           IN  /\ s = [size |-> s.size, rows |-> s.rows] /\ s.size = Len(s.rows)
               /\ IsList(s.rows) /\ Len(s.rows) = Len(q.post) /\ DOMAIN s.rows = DOMAIN q.post
               /\ \A i \in DOMAIN q.post :
                      s.rows[i] = [q.post[i] EXCEPT !.nzb = FindNZBInfoIndex(q.nzbs, @)]
<1> DEFINE post == q.post
           rows == [i \in DOMAIN post |-> [post[i] EXCEPT !.nzb = FindNZBInfoIndex(q.nzbs, @)]]
           s == SavePostQueue(q)
<1>1. Len(post) \in Nat /\ DOMAIN post = 1..Len(post)
  BY LenProperties
<1>2. s = [size |-> Len(rows), rows |-> rows]
  BY DEF SavePostQueue, Section
<1>3. \A i \in DOMAIN post : rows[i] = [post[i] EXCEPT !.nzb = FindNZBInfoIndex(q.nzbs, @)]
  OBVIOUS
<1>4. rows = [i \in 1..Len(post) |-> rows[i]]
  BY <1>1
<1> HIDE DEF rows, s
<1>5. IsList(rows) /\ Len(rows) = Len(post) /\ DOMAIN rows = 1..Len(post)
  BY <1>1, <1>4, ListFromFunction
<1>6. s.rows = rows /\ s.size = Len(rows)
  BY <1>2
<1> QED BY <1>1, <1>2, <1>3, <1>5, <1>6 DEF s

\* The rows of the history, saved.
LEMMA HistoryRowsFacts ==
    ASSUME NEW q, q.history \in Seq(HistoryItems)
    PROVE  LET s == SaveHistory(q)
           IN  /\ s = [size |-> s.size, rows |-> s.rows] /\ s.size = Len(s.rows)
               /\ IsList(s.rows) /\ Len(s.rows) = Len(q.history) /\ DOMAIN s.rows = DOMAIN q.history
               /\ \A i \in DOMAIN q.history :
                      s.rows[i] = IF q.history[i].kind = "url" THEN q.history[i]
                                  ELSE [q.history[i] EXCEPT !.of = FindNZBInfoIndex(q.nzbs, @)]
<1> DEFINE list == q.history
           F(i) == IF list[i].kind = "url" THEN list[i]
                   ELSE [list[i] EXCEPT !.of = FindNZBInfoIndex(q.nzbs, @)]
           rows == [i \in DOMAIN list |-> F(i)]
           s == SaveHistory(q)
<1>1. Len(list) \in Nat /\ DOMAIN list = 1..Len(list)
  BY LenProperties
<1>2. s = [size |-> Len(rows), rows |-> rows]
  BY DEF SaveHistory, Section
<1>3. \A i \in DOMAIN list : rows[i] = F(i)
  OBVIOUS
<1>4. rows = [i \in 1..Len(list) |-> rows[i]]
  BY <1>1
<1> HIDE DEF rows, s
<1>5. IsList(rows) /\ Len(rows) = Len(list) /\ DOMAIN rows = 1..Len(list)
  BY <1>1, <1>4, ListFromFunction
<1>6. s.rows = rows /\ s.size = Len(rows)
  BY <1>2
<1> QED BY <1>1, <1>2, <1>3, <1>5, <1>6 DEF s

\* A queue is saved as whole sections.
LEMMA SectionsSized ==
    ASSUME NEW q \in Lists, NEW marked
    PROVE  Sized(Sections(q, marked))
<1>1. /\ q.nzbs \in Seq(Collections) /\ q.files \in Seq(Entries) /\ q.post \in Seq(Jobs)
      /\ q.urls \in Seq(UrlItems) /\ q.history \in Seq(HistoryItems) /\ q.parked \in Seq(Entries)
  BY DEF Lists
<1> DEFINE IsSection(s) == s = [size |-> s.size, rows |-> s.rows] /\ IsList(s.rows)
           s1 == Section(q.nzbs)
           s2 == SaveFileQueue(q, q.files, marked)
           s3 == SavePostQueue(q)
           s4 == Section(q.urls)
           s5 == SaveHistory(q)
           s6 == SaveFileQueue(q, q.parked, marked)
           S == <<s1, s2, s3, s4, s5, s6>>
<1>2. IsSection(s1)
  BY <1>1, ListOf DEF Section
<1>3. IsSection(s2) /\ IsSection(s6)
  <2>1. \E s : s2 = s /\ IsSection(s)
    BY <1>1, FileRowsFacts
  <2>2. \E s : s6 = s /\ IsSection(s)
    BY <1>1, FileRowsFacts
  <2> QED BY <2>1, <2>2
<1>4. IsSection(s3)
  BY <1>1, PostRowsFacts
<1>5. IsSection(s4)
  BY <1>1, ListOf DEF Section
<1>6. IsSection(s5)
  BY <1>1, HistoryRowsFacts
<1>7. S = Sections(q, marked)
  BY DEF Sections
<1> HIDE DEF s1, s2, s3, s4, s5, s6
<1>8. Len(S) = 6 /\ DOMAIN S = 1..6 /\ IsList(S)
  <2>1. S \in Seq({s1, s2, s3, s4, s5, s6})
    OBVIOUS
  <2>2. Len(S) = 6 /\ DOMAIN S = 1..6
    OBVIOUS
  <2> HIDE DEF S
  <2> QED BY <2>1, <2>2, ListOf
<1>9. \A k \in 1..6 : IsSection(S[k])
  <2>1. /\ S[1] = s1 /\ S[2] = s2 /\ S[3] = s3 /\ S[4] = s4 /\ S[5] = s5 /\ S[6] = s6
    OBVIOUS
  <2>2. \A k \in 1..6 : k = 1 \/ k = 2 \/ k = 3 \/ k = 4 \/ k = 5 \/ k = 6
    OBVIOUS
  <2> HIDE DEF S, IsSection
  <2> QED BY <1>2, <1>3, <1>4, <1>5, <1>6, <2>1, <2>2
<1>10. Sized(S)
  BY <1>8, <1>9 DEF Sized
<1> QED BY <1>7, <1>10

\* Whatever is on disk of a saved queue: of each section the first rows are read, if any.
LEMMA SavedRead ==
    ASSUME NEW q \in Lists, NEW marked,
           NEW R \in {SaveDownloadQueue(q, marked)} \union CutOff(SaveDownloadQueue(q, marked))
    PROVE  ReadsPart(R, RowsOf(Sections(q, marked)))
<1> DEFINE Q == SaveDownloadQueue(q, marked)
           S == Sections(q, marked)
<1>1. Sized(S)
  BY SectionsSized
<1>2. Q = <<>> \/ Q = S
  BY DEF SaveDownloadQueue, Sections
<1> HIDE DEF Q, S
<1>3. CASE R = <<>>
  <2>1. \A k \in 1..6 : IsList(RowsOf(S)[k])
    BY <1>1 DEF Sized, RowsOf
  <2>2. Len(R) = 0
    BY <1>3
  <2>3. ReadsPart(R, RowsOf(S))
    BY <2>1, <2>2, NothingRead
  <2> QED BY <2>3 DEF S
<1>4. CASE Q = <<>>
  <2>1. CutOff(Q) = {<<>>}
    BY <1>4 DEF CutOff
  <2>2. R = <<>>
    BY <1>4, <2>1 DEF Q
  <2> QED BY <2>2, <1>3
<1>5. CASE Q = S
  <2>1. R = S \/ R \in CutOff(S)
    BY <1>5 DEF Q
  <2>2. ReadsPart(R, RowsOf(S))
    BY <2>1, <1>1, WholeRead, CutOffRead
  <2> QED BY <2>2 DEF S
<1> QED BY <1>2, <1>4, <1>5

\* r has the first n rows of f.
FirstRows(r, f, n) ==
    /\ n \in 0..Len(f) /\ n \in Nat /\ IsList(r) /\ Len(r) = n /\ DOMAIN r = 1..n
    /\ \A i \in 1..n : i \in DOMAIN f /\ r[i] = f[i]
    /\ \A T : f \in Seq(T) => r \in Seq(T)
    /\ PartOf(r, f)

\* What is read of a section are its first rows; there are none without the collections.
LEMMA ReadRows ==
    ASSUME NEW R, NEW F, ReadsPart(R, F), NEW k \in 1..6, IsList(F[k])
    PROVE  \E n : FirstRows(RowsRead(R, k), F[k], n) /\ (k > 1 /\ n > 0 => RowsRead(R, 1) = F[1])
<1> DEFINE r == RowsRead(R, k)
<1>1. PICK n \in 0..Len(F[k]) : r = SubSeq(F[k], 1, n) /\ (k > 1 /\ n > 0 => RowsRead(R, 1) = F[1])
  BY DEF ReadsPart
<1> HIDE DEF r
<1>2. F[k] \in Seq(ToSet(F[k])) /\ DOMAIN F[k] = 1..Len(F[k]) /\ Len(F[k]) \in Nat
  BY PartsOfList DEF IsList
<1>3. ASSUME NEW T, F[k] \in Seq(T)
      PROVE  r \in Seq(T) /\ Len(r) = n /\ (\A i \in 1..n : r[i] = F[k][i]) /\ PartOf(r, F[k])
  <2> DEFINE s == F[k]
  <2>1. s \in Seq(T) /\ n \in 0..Len(s) /\ r = SubSeq(s, 1, n)
    BY <1>1, <1>3
  <2> HIDE DEF s
  <2>2. r \in Seq(T) /\ Len(r) = n /\ (\A i \in 1..n : r[i] = s[i]) /\ PartOf(r, s)
    BY <2>1, PrefixFacts
  <2> QED BY <2>2 DEF s
<1>4. r \in Seq(ToSet(F[k])) /\ Len(r) = n /\ (\A i \in 1..n : r[i] = F[k][i]) /\ PartOf(r, F[k])
  BY <1>2, <1>3
<1>5. DOMAIN r = 1..n /\ IsList(r)
  BY <1>4, LenProperties, ListOf
<1>6. \A i \in 1..n : i \in DOMAIN F[k]
  BY <1>2
<1>7. FirstRows(r, F[k], n)
  BY <1>2, <1>3, <1>4, <1>5, <1>6 DEF FirstRows
<1> QED BY <1>1, <1>7 DEF r

\* A collection that is listed is found again by its index.
LEMMA FindIndex ==
    ASSUME NEW nzbs, NEW n \in ToSet(nzbs)
    PROVE  FindNZBInfoIndex(nzbs, n) \in DOMAIN nzbs /\ nzbs[FindNZBInfoIndex(nzbs, n)] = n
<1>1. \E i \in DOMAIN nzbs : nzbs[i] = n
  BY DEF ToSet
<1>2. FindNZBInfoIndex(nzbs, n) = CHOOSE i \in DOMAIN nzbs : nzbs[i] = n
  BY DEF FindNZBInfoIndex
<1> QED BY <1>1, <1>2

\* What is read of a list is a part of it, with the collections that were read.
FilesAreRead(r, list, nzbs) ==
    /\ r \in Seq(Rows) /\ IdPartOf(r, list)
    /\ \A i \in DOMAIN r : r[i].nzb \in ToSet(nzbs)
JobsAreRead(r, post, nzbs, n) ==
    /\ r \in Seq(Jobs) /\ Len(r) = n /\ \A i \in 1..n : r[i] = post[i]
    /\ PartOf(r, post) /\ \A i \in DOMAIN r : r[i].nzb \in ToSet(nzbs)
HistoryIsRead(r, history, nzbs, n) ==
    /\ r \in Seq(HistoryItems) /\ Len(r) = n /\ \A i \in 1..n : r[i] = history[i]
    /\ PartOf(r, history)
    /\ \A i \in DOMAIN r : r[i].kind = "nzb" => r[i].of \in ToSet(nzbs)

\* Rows of files lead to the files they were saved from.
LEMMA FilesRead ==
    ASSUME NEW q, NEW list \in Seq(Entries), NEW marked, NEW nzbs, NEW rows, NEW n \in Nat,
           \A i \in DOMAIN list : list[i].nzb \in ToSet(q.nzbs),
           DOMAIN rows = 1..n,
           \A i \in 1..n : /\ i \in DOMAIN FileRows(q, list, marked)
                           /\ rows[i] = FileRows(q, list, marked)[i],
           n > 0 => nzbs = q.nzbs
    PROVE  FilesAreRead(ReadFiles(nzbs, rows), list, nzbs)
<1> DEFINE r == ReadFiles(nzbs, rows)
           kept == Kept2(list, marked)
           fr == FileRows(q, list, marked)
<1>1. kept \in Seq(Entries) /\ PartOf(kept, list)
  BY OnlyFacts DEF Kept2
<1>2. /\ DOMAIN fr = DOMAIN kept
      /\ \A i \in DOMAIN kept : /\ fr[i].id = kept[i].id
                                /\ fr[i].nzb = FindNZBInfoIndex(q.nzbs, kept[i].nzb)
  <2> HIDE DEF r, kept, fr
  <2>1. RowsFor(fr, kept, q.nzbs)
    BY FileRowsFacts DEF fr, kept
  <2> QED BY <2>1 DEF RowsFor
<1>3. r = [i \in 1..n |-> [id |-> rows[i].id, nzb |-> nzbs[rows[i].nzb]]]
  BY DEF ReadFiles
<1> HIDE DEF r, kept, fr
<1>4. ASSUME NEW i \in 1..n
      PROVE  /\ i \in DOMAIN kept /\ kept[i] \in Entries
             /\ r[i].id = kept[i].id /\ r[i].nzb = kept[i].nzb
             /\ r[i] = [id |-> r[i].id, nzb |-> r[i].nzb] /\ kept[i].nzb \in ToSet(nzbs)
  <2>1. i \in DOMAIN kept /\ rows[i] = fr[i] /\ nzbs = q.nzbs
    BY <1>2, <1>4 DEF fr
  <2>2. kept[i] \in Entries
    BY <1>1, <2>1, LenProperties, ElementOfSeq
  <2>3. PICK k \in DOMAIN list : kept[i] = list[k]
    BY <1>1, <2>1 DEF PartOf
  <2>4. kept[i].nzb \in ToSet(q.nzbs)
    BY <2>3
  <2>5. q.nzbs[FindNZBInfoIndex(q.nzbs, kept[i].nzb)] = kept[i].nzb
    BY <2>4, FindIndex
  <2>6. rows[i].id = kept[i].id /\ nzbs[rows[i].nzb] = kept[i].nzb
    BY <2>1, <2>5, <1>2
  <2>7. r[i] = [id |-> rows[i].id, nzb |-> nzbs[rows[i].nzb]]
    BY <1>3
  <2> QED BY <2>1, <2>2, <2>4, <2>6, <2>7
<1>5. DOMAIN r = 1..n
  BY <1>3
<1>6. r \in Seq(Rows)
  <2>1. ASSUME NEW i \in 1..n PROVE r[i] \in Rows
    <3>1. kept[i].id \in Ids /\ kept[i].nzb \in Collections
      BY <1>4 DEF Entries
    <3>2. r[i] = [id |-> kept[i].id, nzb |-> kept[i].nzb]
      BY <1>4
    <3> QED BY <3>1, <3>2 DEF Rows
  <2>2. r = [i \in 1..n |-> r[i]]
    BY <1>3
  <2> QED BY <2>1, <2>2, ListFromFunction
<1>7. IdPartOf(r, list)
  <2>1. ASSUME NEW i \in DOMAIN r
        PROVE  \E k \in DOMAIN list : r[i].id = list[k].id /\ r[i].nzb = list[k].nzb
    <3>1. PICK k \in DOMAIN list : kept[i] = list[k]
      BY <1>1, <1>4, <1>5 DEF PartOf
    <3> QED BY <3>1, <1>4, <1>5
  <2>2. ASSUME NEW i \in DOMAIN r, NEW j \in DOMAIN r, i # j
        PROVE  \E k, l \in DOMAIN list : /\ k # l /\ r[i].id = list[k].id /\ r[i].nzb = list[k].nzb
                                         /\ r[j].id = list[l].id /\ r[j].nzb = list[l].nzb
    <3>1. i \in DOMAIN kept /\ j \in DOMAIN kept
      BY <1>4, <1>5
    <3>2. PICK k, l \in DOMAIN list : k # l /\ kept[i] = list[k] /\ kept[j] = list[l]
      BY <1>1, <2>2, <3>1 DEF PartOf
    <3> QED BY <3>2, <1>4, <1>5
  <2> QED BY <2>1, <2>2 DEF IdPartOf
<1>8. \A i \in DOMAIN r : r[i].nzb \in ToSet(nzbs)
  BY <1>4, <1>5
<1> QED BY <1>6, <1>7, <1>8 DEF r, FilesAreRead

\* Rows of jobs lead to the jobs they were saved from.
LEMMA PostRead ==
    ASSUME NEW q, q.post \in Seq(Jobs), NEW nzbs, NEW rows, NEW n \in 0..Len(q.post),
           \A i \in DOMAIN q.post : q.post[i].nzb \in ToSet(q.nzbs),
           DOMAIN rows = 1..n, \A i \in 1..n : rows[i] = SavePostQueue(q).rows[i],
           n > 0 => nzbs = q.nzbs
    PROVE  JobsAreRead(LoadPostQueue(nzbs, rows), q.post, nzbs, n)
<1> DEFINE r == LoadPostQueue(nzbs, rows)
           post == q.post
<1>1. DOMAIN post = 1..Len(post) /\ Len(post) \in Nat /\ 1..n \subseteq DOMAIN post
  BY LenProperties
<1>2. \A i \in DOMAIN post : SavePostQueue(q).rows[i] = [post[i] EXCEPT !.nzb = FindNZBInfoIndex(q.nzbs, @)]
  BY PostRowsFacts
<1>3. r = [i \in 1..n |-> [rows[i] EXCEPT !.nzb = nzbs[@]]]
  BY DEF LoadPostQueue
<1>4. ASSUME NEW i \in 1..n PROVE r[i] = post[i] /\ post[i] \in Jobs /\ post[i].nzb \in ToSet(nzbs)
  <2>1. i \in DOMAIN post /\ post[i] \in Jobs /\ post[i].nzb \in ToSet(q.nzbs) /\ nzbs = q.nzbs
    BY <1>1, ElementOfSeq
  <2> DEFINE k == FindNZBInfoIndex(q.nzbs, post[i].nzb)
             job == post[i]
  <2>2. nzbs[k] = job.nzb
    BY <2>1, FindIndex
  <2>3. rows[i] = [job EXCEPT !.nzb = k]
    BY <2>1, <1>2
  <2>4. r[i] = [rows[i] EXCEPT !.nzb = nzbs[@]]
    BY <1>3
  <2>5. job \in Jobs
    BY <2>1
  <2> HIDE DEF job, k
  <2>6. job = [nzb |-> job.nzb, check |-> job.check, stage |-> job.stage]
    BY <2>5 DEF Jobs
  <2>7. rows[i] = [nzb |-> k, check |-> job.check, stage |-> job.stage]
    BY <2>3, <2>6
  <2>8. r[i] = [nzb |-> nzbs[k], check |-> job.check, stage |-> job.stage]
    BY <2>4, <2>7
  <2>9. r[i] = job
    BY <2>2, <2>6, <2>8
  <2> QED BY <2>1, <2>9 DEF job
<1> HIDE DEF r
<1>5. r \in Seq(Jobs) /\ Len(r) = n /\ DOMAIN r = 1..n
  <2>1. r = [i \in 1..n |-> r[i]] /\ n \in Nat
    BY <1>3, <1>1
  <2>2. \A i \in 1..n : r[i] \in Jobs
    BY <1>4
  <2> QED BY <2>1, <2>2, ListFromFunction
<1>6. PartOf(r, post)
  <2>1. \A i \in DOMAIN r : i \in DOMAIN post /\ r[i] = post[i]
    BY <1>1, <1>4, <1>5
  <2> QED BY <2>1 DEF PartOf
<1> QED BY <1>4, <1>5, <1>6 DEF r, JobsAreRead

\* Rows of the history lead to the items they were saved from.
LEMMA HistoryRead ==
    ASSUME NEW q, q.history \in Seq(HistoryItems), NEW nzbs, NEW rows, NEW n \in 0..Len(q.history),
           \A i \in DOMAIN q.history :
               q.history[i].kind = "nzb" => q.history[i].of \in ToSet(q.nzbs),
           DOMAIN rows = 1..n, \A i \in 1..n : rows[i] = SaveHistory(q).rows[i],
           n > 0 => nzbs = q.nzbs
    PROVE  HistoryIsRead(LoadHistory(nzbs, rows), q.history, nzbs, n)
<1> DEFINE r == LoadHistory(nzbs, rows)
           list == q.history
<1>1. DOMAIN list = 1..Len(list) /\ Len(list) \in Nat /\ 1..n \subseteq DOMAIN list
  BY LenProperties
<1>2. \A i \in DOMAIN list :
          SaveHistory(q).rows[i] = IF list[i].kind = "url" THEN list[i]
                                   ELSE [list[i] EXCEPT !.of = FindNZBInfoIndex(q.nzbs, @)]
  BY HistoryRowsFacts
<1>3. r = [i \in 1..n |-> IF rows[i].kind = "url" THEN rows[i]
                          ELSE [rows[i] EXCEPT !.of = nzbs[@]]]
  BY DEF LoadHistory
<1>4. ASSUME NEW i \in 1..n
      PROVE  r[i] = list[i] /\ list[i] \in HistoryItems
             /\ (list[i].kind = "nzb" => list[i].of \in ToSet(nzbs))
  <2> DEFINE item == list[i]
             k == FindNZBInfoIndex(q.nzbs, item.of)
  <2>1. i \in DOMAIN list /\ item \in HistoryItems /\ nzbs = q.nzbs
        /\ (item.kind = "nzb" => item.of \in ToSet(q.nzbs))
    BY <1>1, ElementOfSeq
  <2>2. rows[i] = IF item.kind = "url" THEN item ELSE [item EXCEPT !.of = k]
    BY <2>1, <1>2
  <2>3. r[i] = IF rows[i].kind = "url" THEN rows[i] ELSE [rows[i] EXCEPT !.of = nzbs[@]]
    BY <1>3
  <2>4. item.kind = "nzb" => nzbs[k] = item.of
    BY <2>1, FindIndex
  <2> HIDE DEF item, k
  <2>5. /\ item = [kind |-> item.kind, of |-> item.of] /\ item.kind \in {"nzb", "url"}
    BY <2>1 DEF HistoryItems
  <2>6. CASE item.kind = "url"
    BY <2>1, <2>2, <2>3, <2>6 DEF item
  <2>7. CASE item.kind = "nzb"
    <3>1. rows[i] = [kind |-> "nzb", of |-> k]
      BY <2>2, <2>5, <2>7
    <3>2. r[i] = [kind |-> "nzb", of |-> nzbs[k]]
      BY <2>3, <3>1
    <3>3. r[i] = item
      BY <2>4, <2>5, <2>7, <3>2
    <3> QED BY <2>1, <3>3 DEF item
  <2> QED BY <2>5, <2>6, <2>7
<1> HIDE DEF r
<1>5. r \in Seq(HistoryItems) /\ Len(r) = n /\ DOMAIN r = 1..n
  <2>1. r = [i \in 1..n |-> r[i]] /\ n \in Nat
    BY <1>3, <1>1
  <2>2. \A i \in 1..n : r[i] \in HistoryItems
    BY <1>4
  <2> QED BY <2>1, <2>2, ListFromFunction
<1>6. PartOf(r, list)
  <2>1. \A i \in DOMAIN r : i \in DOMAIN list /\ r[i] = list[i]
    BY <1>1, <1>4, <1>5
  <2> QED BY <2>1 DEF PartOf
<1> QED BY <1>4, <1>5, <1>6 DEF r, HistoryIsRead

\* The rows of each section of a saved queue.
LEMMA SectionRows ==
    ASSUME NEW q \in Lists, NEW marked
    PROVE  LET F == RowsOf(Sections(q, marked))
           IN  /\ F[1] = q.nzbs /\ F[2] = FileRows(q, q.files, marked)
               /\ F[3] = SavePostQueue(q).rows /\ F[4] = q.urls
               /\ F[5] = SaveHistory(q).rows /\ F[6] = FileRows(q, q.parked, marked)
               /\ \A k \in 1..6 : IsList(F[k])
<1> DEFINE S == Sections(q, marked)
           F == RowsOf(S)
<1>1. \A k \in 1..6 : F[k] = S[k].rows
  BY DEF RowsOf
<1>2. \A k \in 1..6 : IsList(F[k])
  BY <1>1, SectionsSized DEF Sized
<1>3. /\ S[1] = Section(q.nzbs) /\ S[2] = SaveFileQueue(q, q.files, marked)
      /\ S[3] = SavePostQueue(q) /\ S[4] = Section(q.urls)
      /\ S[5] = SaveHistory(q) /\ S[6] = SaveFileQueue(q, q.parked, marked)
  BY DEF Sections
<1> HIDE DEF S, F
<1>4. Section(q.nzbs).rows = q.nzbs /\ Section(q.urls).rows = q.urls
  BY DEF Section
<1> QED BY <1>1, <1>2, <1>3, <1>4 DEF FileRows, F, S

\* What is read of the queue that was saved is a part of it.
LEMMA SavedIsPart ==
    ASSUME NEW q \in Lists, NEW marked, NEW a, Listed(q, a), NEW R,
           ReadsPart(R, RowsOf(Sections(q, marked)))
    PROVE  Reading(R) \in ReadLists /\ SmallerQueue(Reading(R), q) /\ Listed(Reading(R), a)
<1> DEFINE F == RowsOf(Sections(q, marked))
           rows(k) == RowsRead(R, k)
           nzbs == rows(1)
           p == Reading(R)
<1>1. /\ q.nzbs \in Seq(Collections) /\ q.files \in Seq(Entries) /\ q.post \in Seq(Jobs)
      /\ q.urls \in Seq(UrlItems) /\ q.history \in Seq(HistoryItems) /\ q.parked \in Seq(Entries)
  BY DEF Lists
<1>2. /\ F[1] = q.nzbs /\ F[2] = FileRows(q, q.files, marked)
      /\ F[3] = SavePostQueue(q).rows /\ F[4] = q.urls
      /\ F[5] = SaveHistory(q).rows /\ F[6] = FileRows(q, q.parked, marked)
      /\ \A k \in 1..6 : IsList(F[k])
  BY SectionRows
<1>3. /\ \A i \in DOMAIN q.files : q.files[i].nzb \in ToSet(q.nzbs)
      /\ \A i \in DOMAIN q.parked : q.parked[i].nzb \in ToSet(q.nzbs)
      /\ \A i \in DOMAIN q.post : q.post[i].nzb \in ToSet(q.nzbs)
      /\ \A i \in DOMAIN q.history : q.history[i].kind = "nzb" => q.history[i].of \in ToSet(q.nzbs)
  BY DEF Listed, Referenced
<1>4. ReadsPart(R, F)
  OBVIOUS
<1> HIDE DEF F
<1>5. ASSUME NEW k \in 1..6
      PROVE  \E n : FirstRows(rows(k), F[k], n) /\ (k > 1 /\ n > 0 => nzbs = q.nzbs)
  <2>1. IsList(F[k])
    BY <1>2
  <2> QED BY <1>2, <1>4, <2>1, ReadRows
<1> HIDE DEF rows
<1>6. PICK n1 : FirstRows(rows(1), F[1], n1)
  BY <1>5
<1>7. nzbs \in Seq(Collections) /\ IsInjective(nzbs) /\ \A i \in DOMAIN nzbs : a[nzbs[i]] # 0
  <2>1. nzbs \in Seq(Collections)
    BY <1>1, <1>2, <1>6 DEF FirstRows
  <2>2. \A i \in DOMAIN nzbs : i \in DOMAIN q.nzbs /\ nzbs[i] = q.nzbs[i]
    BY <1>2, <1>6 DEF FirstRows
  <2>3. IsInjective(q.nzbs) /\ \A i \in DOMAIN q.nzbs : a[q.nzbs[i]] # 0
    BY DEF Listed
  <2> HIDE DEF nzbs
  <2>4. IsInjective(nzbs)
    BY <2>2, <2>3 DEF IsInjective
  <2> QED BY <2>1, <2>2, <2>3, <2>4
<1>8. FilesAreRead(ReadFiles(nzbs, rows(2)), q.files, nzbs)
  <2>1. PICK n : FirstRows(rows(2), F[2], n) /\ (n > 0 => nzbs = q.nzbs)
    BY <1>5
  <2>2. IsList(FileRows(q, q.files, marked))
    BY <1>2
  <2>3. n \in Nat /\ DOMAIN rows(2) = 1..n /\ (n > 0 => nzbs = q.nzbs)
        /\ \A i \in 1..n : /\ i \in DOMAIN FileRows(q, q.files, marked)
                           /\ rows(2)[i] = FileRows(q, q.files, marked)[i]
    BY <1>2, <2>1 DEF FirstRows
  <2> HIDE DEF nzbs
  <2> QED BY <1>1, <1>3, <2>3, FilesRead
<1>9. FilesAreRead(ReadFiles(nzbs, rows(6)), q.parked, nzbs)
  <2>1. PICK n : FirstRows(rows(6), F[6], n) /\ (n > 0 => nzbs = q.nzbs)
    BY <1>5
  <2>2. IsList(FileRows(q, q.parked, marked))
    BY <1>2
  <2>3. n \in Nat /\ DOMAIN rows(6) = 1..n /\ (n > 0 => nzbs = q.nzbs)
        /\ \A i \in 1..n : /\ i \in DOMAIN FileRows(q, q.parked, marked)
                           /\ rows(6)[i] = FileRows(q, q.parked, marked)[i]
    BY <1>2, <2>1 DEF FirstRows
  <2> HIDE DEF nzbs
  <2> QED BY <1>1, <1>3, <2>3, FilesRead
<1>10. \E n : JobsAreRead(LoadPostQueue(nzbs, rows(3)), q.post, nzbs, n)
  <2>1. PICK n : FirstRows(rows(3), F[3], n) /\ (n > 0 => nzbs = q.nzbs)
    BY <1>5
  <2>2. Len(F[3]) = Len(q.post)
    BY <1>1, <1>2, PostRowsFacts
  <2>3. n \in 0..Len(q.post) /\ DOMAIN rows(3) = 1..n /\ (n > 0 => nzbs = q.nzbs)
        /\ \A i \in 1..n : rows(3)[i] = SavePostQueue(q).rows[i]
    BY <1>2, <2>1, <2>2 DEF FirstRows
  <2> HIDE DEF nzbs
  <2> QED BY <1>1, <1>3, <2>3, PostRead
<1>11. \E n : HistoryIsRead(LoadHistory(nzbs, rows(5)), q.history, nzbs, n)
  <2>1. PICK n : FirstRows(rows(5), F[5], n) /\ (n > 0 => nzbs = q.nzbs)
    BY <1>5
  <2>2. Len(F[5]) = Len(q.history)
    BY <1>1, <1>2, HistoryRowsFacts
  <2>3. n \in 0..Len(q.history) /\ DOMAIN rows(5) = 1..n /\ (n > 0 => nzbs = q.nzbs)
        /\ \A i \in 1..n : rows(5)[i] = SaveHistory(q).rows[i]
    BY <1>2, <2>1, <2>2 DEF FirstRows
  <2> HIDE DEF nzbs
  <2> QED BY <1>1, <1>3, <2>3, HistoryRead
<1>12. rows(4) \in Seq(UrlItems) /\ PartOf(rows(4), q.urls)
  <2>1. PICK n : FirstRows(rows(4), F[4], n) /\ (n > 0 => nzbs = q.nzbs)
    BY <1>5
  <2> QED BY <1>1, <1>2, <2>1 DEF FirstRows
<1>13. p = [nzbs |-> nzbs, files |-> ReadFiles(nzbs, rows(2)), post |-> LoadPostQueue(nzbs, rows(3)),
            urls |-> rows(4), history |-> LoadHistory(nzbs, rows(5)),
            parked |-> ReadFiles(nzbs, rows(6))]
  BY DEF Reading, rows
<1> HIDE DEF p, nzbs
<1>14. p \in ReadLists
  BY <1>7, <1>8, <1>9, <1>10, <1>11, <1>12, <1>13 DEF ReadLists, FilesAreRead, JobsAreRead, HistoryIsRead
<1>15. SmallerQueue(p, q)
  BY <1>8, <1>9, <1>10, <1>11, <1>12, <1>13 DEF SmallerQueue, FilesAreRead, JobsAreRead, HistoryIsRead
<1>16. Listed(p, a)
  <2>1. p.nzbs = nzbs /\ Referenced(p) \subseteq ToSet(nzbs)
    BY <1>8, <1>9, <1>10, <1>11, <1>13 DEF Referenced, FilesAreRead, JobsAreRead, HistoryIsRead
  <2> QED BY <1>7, <2>1 DEF Listed
<1> QED BY <1>14, <1>15, <1>16 DEF p

\* Whatever is on disk of a queue that can be in memory is one that can be on disk.
LEMMA SavedOK ==
    ASSUME NEW q \in Lists, NEW marked, NEW c, NEW d, NEW a, NEW s, NEW h, NEW h2, NEW r, NEW r2,
           QueueOK(q, c, a, s, h, r), Shrunk(d, c), h2 \subseteq h, r \subseteq r2,
           NEW R \in {SaveDownloadQueue(q, marked)} \union CutOff(SaveDownloadQueue(q, marked))
    PROVE  DiskOK(R, d, a, s, h2, r2)
<1> DEFINE F == RowsOf(Sections(q, marked))
<1>1. ReadsPart(R, F)
  BY SavedRead
<1>2. Listed(q, a)
  BY DEF QueueOK
<1>3. Reading(R) \in ReadLists /\ SmallerQueue(Reading(R), q) /\ Listed(Reading(R), a)
  BY <1>1, <1>2, SavedIsPart
<1>4. QueueOK(Reading(R), d, a, s, h2, r2)
  BY <1>3, QueuePart
<1>5. ASSUME NEW k \in 1..6 PROVE IsList(RowsRead(R, k))
  <2>1. IsList(F[k])
    BY SectionRows
  <2> HIDE DEF F
  <2>2. \E n : FirstRows(RowsRead(R, k), F[k], n)
    BY <1>1, <2>1, ReadRows
  <2> QED BY <2>2 DEF FirstRows
<1> QED BY <1>3, <1>4, <1>5 DEF DiskOK

-----------------------------------------------------------------------------
(* A queue with nothing in it, and one with less than another.              *)

\* Empty lists are in order.
LEMMA EmptyOK ==
    ASSUME NEW c, NEW a, NEW s, NEW h, NEW r
    PROVE  /\ EmptyLists \in Lists /\ QueueOK(EmptyLists, c, a, s, h, r)
           /\ Referenced(EmptyLists) = {} /\ ToSet(EmptyLists.nzbs) = {}
<1>1. \A T : <<>> \in Seq(T)
  BY PartOfEmpty
<1>2. EmptyLists \in Lists
  BY <1>1 DEF EmptyLists, Lists
<1>3. /\ EmptyLists.nzbs = <<>> /\ EmptyLists.files = <<>> /\ EmptyLists.post = <<>>
      /\ EmptyLists.urls = <<>> /\ EmptyLists.history = <<>> /\ EmptyLists.parked = <<>>
  BY DEF EmptyLists
<1>4. DOMAIN <<>> = {}
  OBVIOUS
<1>5. Referenced(EmptyLists) = {} /\ ToSet(EmptyLists.nzbs) = {}
  BY <1>3, <1>4 DEF Referenced, ToSet
<1>6. Listed(EmptyLists, a)
  BY <1>3, <1>4, <1>5 DEF Listed, IsInjective
<1>7. Own(<<>>, c, r) /\ Apart(<<>>, <<>>) /\ JobsOK(<<>>, s)
  BY <1>4 DEF Own, Apart, JobsOK, DistinctIds
<1>8. UrlOnce(EmptyLists) /\ UrlsFree(EmptyLists, a, h)
  BY <1>3, <1>4 DEF UrlOnce, UrlsFree
<1> QED BY <1>2, <1>3, <1>5, <1>6, <1>7, <1>8 DEF QueueOK

\* So is a disk without a saved queue.
LEMMA NothingSavedOK ==
    ASSUME NEW c, NEW a, NEW s, NEW h, NEW r
    PROVE  DiskOK(<<>>, c, a, s, h, r)
<1>1. SaveDownloadQueue(EmptyLists, {}) = <<>>
  BY DEF SaveDownloadQueue, EmptyLists
<1>2. EmptyLists \in Lists /\ QueueOK(EmptyLists, c, a, s, h, r)
  BY EmptyOK
<1>3. Shrunk(c, c)
  BY DEF Shrunk
<1> QED BY <1>1, <1>2, <1>3, SavedOK

\* So is the memory of a fresh process.
LEMMA NewMemoryOK ==
    ASSUME NEW c, NEW a, NEW s, NEW r, NEW reload \in SUBSET Everything
    PROVE  MemoryOK(NewMemory(reload), c, a, s, r)
<1> DEFINE m == NewMemory(reload)
<1>1. /\ m.q = EmptyLists /\ m.marked = {} /\ m.idGen = 0 /\ m.reload = reload /\ m.loaded = FALSE
      /\ m.sanitised = FALSE /\ m.parsed = [n \in Collections |-> <<>>] /\ m.working = FALSE
      /\ m.active = {} /\ m.handing = {}
  BY DEF NewMemory
<1>2. /\ EmptyLists \in Lists /\ QueueOK(EmptyLists, c, a, s, {}, r)
      /\ Referenced(EmptyLists) = {} /\ ToSet(EmptyLists.nzbs) = {}
  BY EmptyOK
<1>3. \A T : <<>> \in Seq(T)
  BY PartOfEmpty
<1>4. m.parsed \in [Collections -> Seq(Entries)] /\ \A n \in Collections : m.parsed[n] = <<>>
  BY <1>1, <1>3
<1>5. m = [q |-> m.q, marked |-> m.marked, idGen |-> m.idGen, reload |-> m.reload,
           loaded |-> m.loaded, sanitised |-> m.sanitised, parsed |-> m.parsed,
           working |-> m.working, active |-> m.active, handing |-> m.handing]
  BY DEF NewMemory
<1> HIDE DEF m
<1>6. m \in Memories
  <2>1. m.q \in Lists /\ m.reload \in SUBSET Everything
    BY <1>1, <1>2
  <2>2. m.marked \in SUBSET Ids /\ m.idGen \in Nat
    BY <1>1
  <2>3. m.loaded \in BOOLEAN
    BY <1>1, Zenon
  <2>4. /\ m.sanitised \in BOOLEAN /\ m.parsed \in [Collections -> Seq(Entries)]
        /\ m.working \in BOOLEAN /\ m.active \in SUBSET Urls /\ m.handing \in SUBSET Urls
    BY <1>1, <1>4
  <2> QED BY <2>1, <2>4, <2>2, <2>3, <1>5 DEF Memories
<1>7. m.q.files = <<>> /\ m.q.parked = <<>>
  BY <1>1 DEF EmptyLists
<1>8. \A n \in Collections : ParsedOK(m, n, c, a)
  BY <1>4, <1>7 DEF ParsedOK, DistinctIds, There, UpTo, Apart
<1>9. There(m.q.files, c) /\ There(m.q.parked, c) /\ UpTo(m.q.files, m.idGen) /\ UpTo(m.q.parked, m.idGen)
  BY <1>7 DEF There, UpTo
<1>10. MemoryOK(m, c, a, s, r)
  BY <1>1, <1>2, <1>4, <1>6, <1>8, <1>9 DEF MemoryOK
<1> QED BY <1>10 DEF m

\* QueuePart for the same collections.
LEMMA SmallerOK ==
    ASSUME NEW q, NEW p, NEW c, NEW d, NEW a, NEW s, NEW h, NEW h2, NEW r,
           QueueOK(q, c, a, s, h, r), SmallerQueue(p, q), p.nzbs = q.nzbs, Shrunk(d, c), h2 \subseteq h
    PROVE  QueueOK(p, d, a, s, h2, r)
<1>1. ASSUME NEW n \in Referenced(p) PROVE n \in Referenced(q)
  <2>1. CASE \E i \in DOMAIN p.files : n = p.files[i].nzb
    <3>1. \E k \in DOMAIN q.files : q.files[k].nzb = n
      BY <2>1 DEF SmallerQueue, IdPartOf
    <3> QED BY <3>1 DEF Referenced
  <2>2. CASE \E i \in DOMAIN p.parked : n = p.parked[i].nzb
    <3>1. \E k \in DOMAIN q.parked : q.parked[k].nzb = n
      BY <2>2 DEF SmallerQueue, IdPartOf
    <3> QED BY <3>1 DEF Referenced
  <2>3. CASE \E i \in DOMAIN p.post : n = p.post[i].nzb
    <3>1. \E k \in DOMAIN q.post : q.post[k].nzb = n
      BY <2>3 DEF SmallerQueue, PartOf
    <3> QED BY <3>1 DEF Referenced
  <2>4. CASE \E i \in DOMAIN p.history : p.history[i].kind = "nzb" /\ n = p.history[i].of
    <3>1. \E k \in DOMAIN q.history : q.history[k].kind = "nzb" /\ q.history[k].of = n
      BY <2>4 DEF SmallerQueue, PartOf
    <3> QED BY <3>1 DEF Referenced
  <2> QED BY <2>1, <2>2, <2>3, <2>4 DEF Referenced
<1>2. Listed(p, a)
  BY <1>1 DEF QueueOK, Listed
<1>3. r \subseteq r
  OBVIOUS
<1> QED BY <1>2, <1>3, QueuePart

\* Released collections are not referred to.
LEMMA ReleaseOK ==
    ASSUME NEW q \in Lists, Referenced(q) \subseteq ToSet(q.nzbs)
    PROVE  LET p == ReleaseAll(q)
           IN  /\ p \in Lists /\ ToSet(p.nzbs) = Referenced(p) /\ Essence(p) = Essence(q)
               /\ p.files = q.files /\ p.post = q.post /\ p.urls = q.urls
               /\ p.history = q.history /\ p.parked = q.parked
               /\ \A c, a, s, h, r : QueueOK(q, c, a, s, h, r) => QueueOK(p, c, a, s, h, r)
<1> DEFINE p == ReleaseAll(q)
           nzbs == Only(q.nzbs, Referenced(q))
<1> HIDE DEF p
<1>1. q.nzbs \in Seq(Collections)
  BY DEF Lists
<1>2. nzbs \in Seq(Collections) /\ PartOf(nzbs, q.nzbs) /\ ToSet(nzbs) = Referenced(q)
  <2>1. nzbs \in Seq(Collections) /\ PartOf(nzbs, q.nzbs)
    BY <1>1, OnlyFacts
  <2>2. ToSet(nzbs) = ToSet(q.nzbs) \intersect Referenced(q)
    BY <1>1, OnlyFacts
  <2> QED BY <2>1, <2>2
<1>3. p = [q EXCEPT !.nzbs = nzbs]
  BY DEF ReleaseAll, p
<1> HIDE DEF nzbs
<1>4. p \in Lists /\ p.nzbs = nzbs
  BY <1>2, <1>3 DEF Lists
<1>5. /\ p.files = q.files /\ p.post = q.post /\ p.urls = q.urls
      /\ p.history = q.history /\ p.parked = q.parked
  BY <1>3 DEF Lists
<1>6. Referenced(p) = Referenced(q)
  BY <1>5 DEF Referenced
<1>7. Essence(p) = Essence(q)
  BY <1>5 DEF Essence
<1>8. ASSUME NEW c, NEW a, NEW s, NEW h, NEW r, QueueOK(q, c, a, s, h, r)
      PROVE  QueueOK(p, c, a, s, h, r)
  <2>1. IsInjective(nzbs)
    <3>1. IsInjective(q.nzbs)
      BY <1>8 DEF QueueOK, Listed
    <3> SUFFICES ASSUME NEW i \in DOMAIN nzbs, NEW j \in DOMAIN nzbs, nzbs[i] = nzbs[j], i # j
                 PROVE  FALSE
      BY DEF IsInjective
    <3>2. PICK k, l \in DOMAIN q.nzbs : k # l /\ nzbs[i] = q.nzbs[k] /\ nzbs[j] = q.nzbs[l]
      BY <1>2 DEF PartOf
    <3> QED BY <3>1, <3>2 DEF IsInjective
  <2>2. \A i \in DOMAIN nzbs : a[nzbs[i]] # 0
    <3>1. \A i \in DOMAIN nzbs : \E k \in DOMAIN q.nzbs : nzbs[i] = q.nzbs[k]
      BY <1>2 DEF PartOf
    <3> QED BY <3>1, <1>8 DEF QueueOK, Listed
  <2>3. Listed(p, a)
    BY <2>1, <2>2, <1>2, <1>4, <1>6 DEF Listed
  <2>4. UrlOnce(p) /\ UrlsFree(p, a, h)
    BY <1>5, <1>8 DEF QueueOK, UrlOnce, UrlsFree
  <2> QED BY <2>3, <2>4, <1>5, <1>8 DEF QueueOK
<1> QED BY <1>2, <1>4, <1>5, <1>6, <1>7, <1>8 DEF p

-----------------------------------------------------------------------------
(* A queue that was saved whole, and can be read to its end, is read as it  *)
(* was.                                                                     *)

\* If all files were saved, and their contents are there, the rows lead to these files.
LEMMA FilesReload ==
    ASSUME NEW q, NEW list \in Seq(Entries), NEW marked, NEW c, There(list, c),
           \A i \in DOMAIN list : list[i].nzb \in ToSet(q.nzbs),
           Len(FileRows(q, list, marked)) = Len(list)
    PROVE  LoadFileQueue(q.nzbs, FileRows(q, list, marked), c) = list
<1> DEFINE rows == FileRows(q, list, marked)
           S == {e \in ToSet(list) : e.id \notin marked}
           found == {x \in ToSet(rows) : x.id \in DOMAIN c}
<1>1. DOMAIN list = 1..Len(list) /\ Len(list) \in Nat /\ list = [i \in 1..Len(list) |-> list[i]]
  BY LenProperties
<1>2. RowsFor(rows, Kept2(list, marked), q.nzbs)
  BY FileRowsFacts
<1>3. IsList(rows)
  <2>1. \E s : SaveFileQueue(q, list, marked) = s /\ IsList(s.rows)
    BY FileRowsFacts
  <2> QED BY <2>1 DEF FileRows
<1>4. Kept2(list, marked) = list
  <2>1. Kept2(list, marked) = Only(list, S)
    BY DEF Kept2
  <2>2. Len(Only(list, S)) = Len(list)
    BY <1>2, <2>1 DEF RowsFor
  <2> HIDE DEF S
  <2>3. ToSet(list) \subseteq S
    BY <2>2, OnlyFacts
  <2>4. Only(list, S) = list
    BY <2>3, OnlyFacts
  <2> QED BY <2>1, <2>4
<1>5. RowsFor(rows, list, q.nzbs)
  BY <1>2, <1>4
<1> HIDE DEF rows
<1>6. ASSUME NEW i \in DOMAIN list
      PROVE  /\ rows[i].id = list[i].id /\ rows[i].id \in DOMAIN c
             /\ list[i] = [id |-> rows[i].id, file |-> c[rows[i].id], nzb |-> q.nzbs[rows[i].nzb]]
  <2>1. rows[i].id = list[i].id /\ rows[i].nzb = FindNZBInfoIndex(q.nzbs, list[i].nzb)
    BY <1>5 DEF RowsFor
  <2>2. list[i].id \in DOMAIN c /\ c[list[i].id] = list[i].file
    BY DEF There
  <2>3. q.nzbs[FindNZBInfoIndex(q.nzbs, list[i].nzb)] = list[i].nzb
    BY FindIndex
  <2>4. list[i] \in Entries
    BY <1>1, ElementOfSeq
  <2>5. list[i] = [id |-> list[i].id, file |-> list[i].file, nzb |-> list[i].nzb]
    BY <2>4 DEF Entries
  <2> QED BY <2>1, <2>2, <2>3, <2>5
<1>7. DOMAIN rows = DOMAIN list
  BY <1>5 DEF RowsFor
<1>8. Only(rows, found) = rows
  <2>1. ToSet(rows) \subseteq found
    BY <1>6, <1>7 DEF ToSet
  <2>2. rows \in Seq(ToSet(rows))
    BY <1>3 DEF IsList
  <2> HIDE DEF found
  <2> QED BY <2>1, <2>2, OnlyFacts
<1>9. LoadFileQueue(q.nzbs, rows, c)
          = [i \in DOMAIN rows |->
                [id |-> rows[i].id, file |-> c[rows[i].id], nzb |-> q.nzbs[rows[i].nzb]]]
  BY <1>8 DEF LoadFileQueue
<1>10. LoadFileQueue(q.nzbs, rows, c) = [i \in 1..Len(list) |-> list[i]]
  BY <1>1, <1>6, <1>7, <1>9
<1> QED BY <1>1, <1>10 DEF rows

\* Its sections, when they are complete.
LEMMA WholeSections ==
    ASSUME NEW q \in Lists, NEW marked, Intact(Sections(q, marked))
    PROVE  LET Q == Sections(q, marked)
           IN  /\ RowsRead(Q, 1) = q.nzbs /\ RowsRead(Q, 2) = FileRows(q, q.files, marked)
               /\ RowsRead(Q, 3) = SavePostQueue(q).rows /\ RowsRead(Q, 4) = q.urls
               /\ RowsRead(Q, 5) = SaveHistory(q).rows
               /\ RowsRead(Q, 6) = FileRows(q, q.parked, marked)
               /\ Len(FileRows(q, q.files, marked)) = Len(q.files)
               /\ Len(FileRows(q, q.parked, marked)) = Len(q.parked)
<1> DEFINE Q == Sections(q, marked)
           F == RowsOf(Q)
<1>1. Len(Q) = 6 /\ DOMAIN Q = 1..6
  BY SectionsSized DEF Sized
<1>2. \A k \in 1..6 : F[k] = Q[k].rows
  BY DEF RowsOf
<1>3. /\ F[1] = q.nzbs /\ F[2] = FileRows(q, q.files, marked)
      /\ F[3] = SavePostQueue(q).rows /\ F[4] = q.urls
      /\ F[5] = SaveHistory(q).rows /\ F[6] = FileRows(q, q.parked, marked)
  BY SectionRows
<1>4. Q[2] = SaveFileQueue(q, q.files, marked) /\ Q[6] = SaveFileQueue(q, q.parked, marked)
  BY DEF Sections
<1>5. q.files \in Seq(Entries) /\ q.parked \in Seq(Entries)
  BY DEF Lists
<1>6. Intact(Q)
  OBVIOUS
<1> HIDE DEF F, Q
<1>7. \A k \in 1..6 : Complete(Q[k])
  BY <1>1, <1>6 DEF Intact
<1>8. ASSUME NEW k \in 1..6 PROVE RowsRead(Q, k) = F[k]
  <2>1. k <= Len(Q) /\ \A i \in 1..(k - 1) : Complete(Q[i])
    BY <1>1, <1>7
  <2> QED BY <2>1, <1>2 DEF RowsRead
<1>9. Len(F[2]) = Q[2].size /\ Len(F[6]) = Q[6].size
  BY <1>2, <1>7 DEF Complete
<1>10. Q[2].size = Len(q.files) /\ Q[6].size = Len(q.parked)
  <2>1. \A list \in Seq(Entries) : SaveFileQueue(q, list, marked).size = Len(list)
    BY DEF SaveFileQueue
  <2> QED BY <2>1, <1>4, <1>5
<1>11. /\ RowsRead(Q, 1) = F[1] /\ RowsRead(Q, 2) = F[2] /\ RowsRead(Q, 3) = F[3]
       /\ RowsRead(Q, 4) = F[4] /\ RowsRead(Q, 5) = F[5] /\ RowsRead(Q, 6) = F[6]
  BY <1>8
<1> QED BY <1>3, <1>9, <1>10, <1>11 DEF Q

\* What a load puts into memory, before it releases collections.
Loaded(disk_, reload) ==
    LET nzbs == RowsRead(disk_.queue, 1)
        Wanted(name, k) == IF name \in reload THEN RowsRead(disk_.queue, k) ELSE <<>>
    IN  [nzbs |-> nzbs,
         files |-> LoadFileQueue(nzbs, RowsRead(disk_.queue, 2), disk_.contents),
         post |-> LoadPostQueue(nzbs, Wanted("post", 3)),
         urls |-> Wanted("url", 4),
         history |-> LoadHistory(nzbs, RowsRead(disk_.queue, 5)),
         parked |-> LoadFileQueue(nzbs, RowsRead(disk_.queue, 6), disk_.contents)]

\* A load releases what nothing refers to, and does not change the other lists.
LEMMA LoadIsLoaded ==
    ASSUME NEW d, NEW reload
    PROVE  LET p == LoadDownloadQueue(d, reload)
               l == Loaded(d, reload)
           IN  /\ p = ReleaseAll(l)
               /\ p.files = l.files /\ p.post = l.post /\ p.urls = l.urls
               /\ p.history = l.history /\ p.parked = l.parked
BY DEF LoadDownloadQueue, Loaded, ReleaseAll

\* A queue that was saved as a whole is loaded as it was.
LEMMA WholeReload ==
    ASSUME NEW q \in Lists, Referenced(q) \subseteq ToSet(q.nzbs), NEW marked, NEW c,
           There(q.files, c), There(q.parked, c), Intact(Sections(q, marked)),
           NEW d, d = [queue |-> Sections(q, marked), contents |-> c]
    PROVE  Loaded(d, Everything) = q
<1>1. /\ q.nzbs \in Seq(Collections) /\ q.files \in Seq(Entries) /\ q.post \in Seq(Jobs)
      /\ q.urls \in Seq(UrlItems) /\ q.history \in Seq(HistoryItems) /\ q.parked \in Seq(Entries)
      /\ q = [nzbs |-> q.nzbs, files |-> q.files, post |-> q.post, urls |-> q.urls,
              history |-> q.history, parked |-> q.parked]
  BY DEF Lists
<1>2. /\ \A i \in DOMAIN q.files : q.files[i].nzb \in ToSet(q.nzbs)
      /\ \A i \in DOMAIN q.parked : q.parked[i].nzb \in ToSet(q.nzbs)
      /\ \A i \in DOMAIN q.post : q.post[i].nzb \in ToSet(q.nzbs)
      /\ \A i \in DOMAIN q.history : q.history[i].kind = "nzb" => q.history[i].of \in ToSet(q.nzbs)
  BY DEF Referenced
<1>3. LET Q == d.queue
      IN  /\ RowsRead(Q, 1) = q.nzbs /\ RowsRead(Q, 2) = FileRows(q, q.files, marked)
          /\ RowsRead(Q, 3) = SavePostQueue(q).rows /\ RowsRead(Q, 4) = q.urls
          /\ RowsRead(Q, 5) = SaveHistory(q).rows
          /\ RowsRead(Q, 6) = FileRows(q, q.parked, marked)
          /\ Len(FileRows(q, q.files, marked)) = Len(q.files)
          /\ Len(FileRows(q, q.parked, marked)) = Len(q.parked)
  <2>1. d.queue = Sections(q, marked)
    OBVIOUS
  <2> QED BY <2>1, WholeSections
<1>4. /\ LoadFileQueue(q.nzbs, FileRows(q, q.files, marked), c) = q.files
      /\ LoadFileQueue(q.nzbs, FileRows(q, q.parked, marked), c) = q.parked
  <2>1. /\ Len(FileRows(q, q.files, marked)) = Len(q.files)
        /\ Len(FileRows(q, q.parked, marked)) = Len(q.parked)
    BY <1>3
  <2>2. LoadFileQueue(q.nzbs, FileRows(q, q.files, marked), c) = q.files
    BY <1>1, <1>2, <2>1, FilesReload
  <2>3. LoadFileQueue(q.nzbs, FileRows(q, q.parked, marked), c) = q.parked
    BY <1>1, <1>2, <2>1, FilesReload
  <2> QED BY <2>2, <2>3
<1>5. LoadPostQueue(q.nzbs, SavePostQueue(q).rows) = q.post
  <2> DEFINE n == Len(q.post)
             rows == SavePostQueue(q).rows
  <2>1. n \in 0..n /\ DOMAIN rows = 1..n /\ q.post = [i \in 1..n |-> q.post[i]]
    <3>1. DOMAIN rows = DOMAIN q.post
      BY <1>1, PostRowsFacts
    <3> HIDE DEF rows
    <3> QED BY <3>1, <1>1, LenProperties
  <2>2. JobsAreRead(LoadPostQueue(q.nzbs, rows), q.post, q.nzbs, n)
    <3>1. \A i \in 1..n : rows[i] = SavePostQueue(q).rows[i]
      OBVIOUS
    <3> HIDE DEF rows, n
    <3> QED BY <1>1, <1>2, <2>1, <3>1, PostRead DEF n
  <2> DEFINE r == LoadPostQueue(q.nzbs, rows)
  <2> HIDE DEF r, n
  <2>3. r \in Seq(Jobs) /\ Len(r) = n /\ \A i \in 1..n : r[i] = q.post[i]
    BY <2>2 DEF JobsAreRead, r
  <2>4. r = q.post
    BY <2>1, <2>3, <1>1, SeqEqual DEF n
  <2> QED BY <2>4 DEF r
<1>6. LoadHistory(q.nzbs, SaveHistory(q).rows) = q.history
  <2> DEFINE n == Len(q.history)
             rows == SaveHistory(q).rows
  <2>1. n \in 0..n /\ DOMAIN rows = 1..n
    <3>1. DOMAIN rows = DOMAIN q.history
      BY <1>1, HistoryRowsFacts
    <3> HIDE DEF rows
    <3> QED BY <3>1, <1>1, LenProperties
  <2>2. HistoryIsRead(LoadHistory(q.nzbs, rows), q.history, q.nzbs, n)
    <3>1. \A i \in 1..n : rows[i] = SaveHistory(q).rows[i]
      OBVIOUS
    <3> HIDE DEF rows, n
    <3> QED BY <1>1, <1>2, <2>1, <3>1, HistoryRead DEF n
  <2> DEFINE r == LoadHistory(q.nzbs, rows)
  <2> HIDE DEF r, n
  <2>3. r \in Seq(HistoryItems) /\ Len(r) = n /\ \A i \in 1..n : r[i] = q.history[i]
    BY <2>2 DEF HistoryIsRead, r
  <2>4. r = q.history
    BY <2>1, <2>3, <1>1, SeqEqual DEF n
  <2> QED BY <2>4 DEF r
<1>7. "post" \in Everything /\ "url" \in Everything /\ d.contents = c
  BY DEF Everything
<1>8. Loaded(d, Everything)
          = [nzbs |-> q.nzbs, files |-> q.files, post |-> q.post, urls |-> q.urls,
             history |-> q.history, parked |-> q.parked]
  BY <1>3, <1>4, <1>5, <1>6, <1>7 DEF Loaded
<1> QED BY <1>1, <1>8

\* Nothing is kept of nothing, and by no set.
LEMMA OnlyNothing ==
    ASSUME NEW T, NEW s \in Seq(T), NEW S, S = {} \/ s = <<>>
    PROVE  Only(s, S) = <<>>
<1> DEFINE t == Only(s, S)
<1>1. t \in Seq(T)
  BY OnlyFacts
<1>2. ToSet(t) = ToSet(s) \intersect S
  BY OnlyFacts
<1>3. ToSet(s) \intersect S = {}
  BY DEF ToSet
<1> HIDE DEF t
<1>4. DOMAIN t = {} /\ DOMAIN t = 1..Len(t) /\ Len(t) \in Nat
  BY <1>1, <1>2, <1>3, LenProperties DEF ToSet
<1>5. Len(t) = 0
  BY <1>4
<1>6. t = <<>>
  BY <1>1, <1>5, EmptySeq
<1> QED BY <1>6 DEF t

\* What a reader would miss of empty lists: nothing.
LEMMA EmptyEssence ==
    ASSUME NEW q, q.files = <<>>, q.urls = <<>>, q.post = <<>>, q.history = <<>>,
           NEW T, q.parked \in Seq(T)
    PROVE  Essence(q) = [files |-> <<>>, urls |-> <<>>, post |-> <<>>, history |-> <<>>,
                         parked |-> <<>>]
<1> DEFINE found == {e \in ToSet(q.parked) : \E i \in DOMAIN q.history : q.history[i].of = e.nzb}
<1>1. DOMAIN q.history = {} /\ DOMAIN q.urls = {} /\ DOMAIN q.post = {}
  OBVIOUS
<1>2. found = {}
  BY <1>1
<1>3. Essence(q) = [files |-> q.files, urls |-> [i \in DOMAIN q.urls |-> q.urls[i].url],
                    post |-> [i \in DOMAIN q.post |-> q.post[i].nzb], history |-> q.history,
                    parked |-> Only(q.parked, found)]
  BY DEF Essence
<1> HIDE DEF found
<1>4. Only(q.parked, found) = <<>>
  BY <1>2, OnlyNothing
<1>5. [i \in DOMAIN q.urls |-> q.urls[i].url] = <<>> /\ [i \in DOMAIN q.post |-> q.post[i].nzb] = <<>>
  BY <1>1
<1> QED BY <1>3, <1>4, <1>5

\* Without a saved queue the lists are empty.
LEMMA EmptyLoaded ==
    ASSUME NEW d, d.queue = <<>>, NEW reload
    PROVE  LET l == Loaded(d, reload)
           IN  /\ l.files = <<>> /\ l.urls = <<>> /\ l.post = <<>> /\ l.history = <<>>
               /\ l.parked = <<>>
<1>1. \A k \in 1..6 : RowsRead(d.queue, k) = <<>>
  BY DEF RowsRead
<1>2. /\ RowsRead(d.queue, 2) = <<>> /\ RowsRead(d.queue, 3) = <<>> /\ RowsRead(d.queue, 4) = <<>>
      /\ RowsRead(d.queue, 5) = <<>> /\ RowsRead(d.queue, 6) = <<>>
  BY <1>1
<1>3. \A nzbs : LoadFileQueue(nzbs, <<>>, d.contents) = <<>>
  <2>1. <<>> \in Seq({})
    OBVIOUS
  <2>2. Only(<<>>, {r \in ToSet(<<>>) : r.id \in DOMAIN d.contents}) = <<>>
    BY <2>1, OnlyNothing
  <2>3. ASSUME NEW nzbs PROVE LoadFileQueue(nzbs, <<>>, d.contents) = <<>>
    <3> DEFINE f == Only(<<>>, {r \in ToSet(<<>>) : r.id \in DOMAIN d.contents})
    <3>1. LoadFileQueue(nzbs, <<>>, d.contents)
              = [i \in DOMAIN f |-> [id |-> f[i].id, file |-> d.contents[f[i].id],
                                     nzb |-> nzbs[f[i].nzb]]]
      BY DEF LoadFileQueue
    <3>2. DOMAIN f = {}
      BY <2>2
    <3> HIDE DEF f
    <3> QED BY <3>1, <3>2
  <2> QED BY <2>3
<1>4. \A nzbs : LoadPostQueue(nzbs, <<>>) = <<>>
  BY DEF LoadPostQueue
<1>5. \A nzbs : LoadHistory(nzbs, <<>>) = <<>>
  BY DEF LoadHistory
<1> QED BY <1>2, <1>3, <1>4, <1>5 DEF Loaded

\* A reader does not miss collections that were released.
LEMMA LoadedEssence ==
    ASSUME NEW d, NEW reload
    PROVE  Essence(LoadDownloadQueue(d, reload)) = Essence(Loaded(d, reload))
<1> DEFINE p == LoadDownloadQueue(d, reload)
           l == Loaded(d, reload)
<1>1. /\ p.files = l.files /\ p.post = l.post /\ p.urls = l.urls
      /\ p.history = l.history /\ p.parked = l.parked
  BY LoadIsLoaded
<1> HIDE DEF p, l
<1>2. Essence(p) = Essence(l)
  BY <1>1 DEF Essence
<1> QED BY <1>2 DEF p, l

\* A load of nothing.
LEMMA NothingLoaded ==
    ASSUME NEW d, d.queue = <<>>, NEW reload
    PROVE  Essence(LoadDownloadQueue(d, reload)) = Essence(EmptyLists)
<1>1. LET l == Loaded(d, reload)
      IN  /\ l.files = <<>> /\ l.urls = <<>> /\ l.post = <<>> /\ l.history = <<>>
          /\ l.parked = <<>>
  BY EmptyLoaded
<1>2. <<>> \in Seq({})
  OBVIOUS
<1> DEFINE l == Loaded(d, reload)
<1> HIDE DEF l
<1>3. Essence(l) = [files |-> <<>>, urls |-> <<>>, post |-> <<>>, history |-> <<>>, parked |-> <<>>]
  BY <1>1, <1>2, EmptyEssence DEF l
<1>4. /\ EmptyLists.files = <<>> /\ EmptyLists.post = <<>>
      /\ EmptyLists.urls = <<>> /\ EmptyLists.history = <<>> /\ EmptyLists.parked = <<>>
  BY DEF EmptyLists
<1>5. Essence(EmptyLists)
          = [files |-> <<>>, urls |-> <<>>, post |-> <<>>, history |-> <<>>, parked |-> <<>>]
  BY <1>2, <1>4, EmptyEssence
<1> QED BY <1>3, <1>5, LoadedEssence DEF l

\* What was saved, and can be read to its end, is loaded.
LEMMA SavedIsCurrent ==
    ASSUME NEW q \in Lists, Referenced(q) \subseteq ToSet(q.nzbs), NEW marked, NEW d,
           d = [queue |-> d.queue, contents |-> d.contents], d.queue = SaveDownloadQueue(q, marked),
           There(q.files, d.contents), There(q.parked, d.contents), Intact(d.queue)
    PROVE  Essence(LoadDownloadQueue(d, Everything)) = Essence(q)
<1>1. CASE d.queue = <<>>
  <2>1. q.files = <<>> /\ q.urls = <<>> /\ q.post = <<>> /\ q.history = <<>>
    BY <1>1 DEF SaveDownloadQueue
  <2>2. q.parked \in Seq(Entries)
    BY DEF Lists
  <2>3. Essence(q) = [files |-> <<>>, urls |-> <<>>, post |-> <<>>, history |-> <<>>, parked |-> <<>>]
    BY <2>1, <2>2, EmptyEssence
  <2>4. /\ EmptyLists.files = <<>> /\ EmptyLists.post = <<>>
        /\ EmptyLists.urls = <<>> /\ EmptyLists.history = <<>> /\ EmptyLists.parked = <<>>
        /\ EmptyLists.parked \in Seq(Entries)
    BY PartOfEmpty DEF EmptyLists
  <2>5. Essence(EmptyLists)
            = [files |-> <<>>, urls |-> <<>>, post |-> <<>>, history |-> <<>>, parked |-> <<>>]
    BY <2>4, EmptyEssence
  <2> QED BY <2>3, <2>5, <1>1, NothingLoaded
<1>2. CASE d.queue # <<>>
  <2>1. d.queue = Sections(q, marked)
    BY <1>2 DEF SaveDownloadQueue, Sections
  <2>2. Loaded(d, Everything) = q
    BY <2>1, WholeReload
  <2> QED BY <2>2, LoadedEssence
<1> QED BY <1>1, <1>2

-----------------------------------------------------------------------------
(* What a handler that saves must bring about, for the invariant.           *)

\* The queue that is saved last is the one in memory then, before it releases collections.
LEMMA SavingStep ==
    ASSUME IInv, up, NEW m, NEW w, Saving(w), Handle(m, w),
           added' \in [Collections -> {0, 1}], scripts' \in [Collections -> {0, 1}],
           reused' = reused,
           ~up' => DiskOK(disk.queue, disk.contents, added', scripts', {}, reused),
           \A Q \in SavedQueues(w) :
               \E q \in Lists : \E marked :
                   /\ Q = SaveDownloadQueue(q, marked)
                   /\ QueueOK(q, disk.contents, added', scripts', {}, reused),
           NEW p \in Lists, NEW mk, w[Len(w)].queue = SaveDownloadQueue(p, mk),
           QueueOK(p, disk.contents, added', scripts', m.handing, reused),
           m.q = p \/ m.q = ReleaseAll(p),
           MemoryOK(m, Without(disk.contents, Discarded(w, Len(w))), added', scripts', reused)
    PROVE  IInv'
<1> USE DEF IInv
<1>1. IsDisk(disk) /\ up \in BOOLEAN /\ crashes \in 0..MaxCrashes /\ MaxCrashes \in Nat
  BY PersistentAssumption DEF IsDisk
<1>2. CASE /\ mem' = m /\ up' = up /\ crashes' = crashes
           /\ IsDisk(disk')
           /\ disk'.queue = w[Len(w)].queue
           /\ disk'.contents = Without(disk.contents, Discarded(w, Len(w)))
  <2>1. up' \in BOOLEAN /\ crashes' \in 0..MaxCrashes
    BY <1>1, <1>2
  <2>2. disk' = [queue |-> disk'.queue, contents |-> disk'.contents] /\ Contents(disk'.contents)
    BY <1>2 DEF IsDisk
  <2>3. MemoryOK(mem', disk'.contents, added', scripts', reused')
    BY <1>2
  <2>4. Shrunk(disk'.contents, disk.contents)
    <3>1. Shrunk(Without(disk.contents, Discarded(w, Len(w))), disk.contents)
      BY <1>1, WithoutFacts DEF IsDisk
    <3> QED BY <3>1, <1>2
  <2>5. DiskOK(disk'.queue, disk'.contents, added', scripts', mem'.handing, reused')
    <3>1. disk'.queue \in {SaveDownloadQueue(p, mk)} \union CutOff(SaveDownloadQueue(p, mk))
      BY <1>2
    <3>2. mem'.handing \subseteq m.handing /\ reused \subseteq reused'
      BY <1>2
    <3> QED BY <2>4, <3>1, <3>2, SavedOK
  <2>6. DiskIsCurrent'
    <3> SUFFICES ASSUME Intact(disk'.queue)
                 PROVE  Essence(LoadDownloadQueue(disk', Everything)) = Essence(mem'.q)
      BY DEF DiskIsCurrent
    <3>1. Referenced(p) \subseteq ToSet(p.nzbs)
      BY DEF QueueOK, Listed
    <3>2. /\ ReleaseAll(p).files = p.files /\ ReleaseAll(p).parked = p.parked
          /\ Essence(ReleaseAll(p)) = Essence(p)
      BY <3>1, ReleaseOK
    <3>3. mem'.q.files = p.files /\ mem'.q.parked = p.parked /\ Essence(mem'.q) = Essence(p)
      BY <3>2, <1>2
    <3>4. There(p.files, disk'.contents) /\ There(p.parked, disk'.contents)
      BY <3>3, <2>3 DEF MemoryOK
    <3>5. disk'.queue = SaveDownloadQueue(p, mk)
      BY <1>2
    <3>6. Essence(LoadDownloadQueue(disk', Everything)) = Essence(p)
      BY <2>2, <3>1, <3>4, <3>5, SavedIsCurrent
    <3> QED BY <3>3, <3>6
  <2>7. up'
    BY <1>2
  <2> QED BY <2>1, <2>2, <2>3, <2>5, <2>6, <2>7
<1>3. CASE /\ mem' = NewMemory({}) /\ up' = FALSE
           /\ crashes < MaxCrashes /\ crashes' = crashes + 1
           /\ IsDisk(disk') /\ Shrunk(disk'.contents, disk.contents)
           /\ \/ disk'.queue = disk.queue
              \/ \E Q \in SavedQueues(w) : disk'.queue \in {Q} \union CutOff(Q)
  <2>1. up' \in BOOLEAN /\ crashes' \in 0..MaxCrashes
    <3>1. crashes' \in 0..MaxCrashes
      BY <1>1, <1>3
    <3> QED BY <3>1, <1>3
  <2>2. disk' = [queue |-> disk'.queue, contents |-> disk'.contents] /\ Contents(disk'.contents)
    BY <1>3 DEF IsDisk
  <2>3. MemoryOK(mem', disk'.contents, added', scripts', reused')
    BY <1>3, NewMemoryOK
  <2>4. mem'.handing = {} /\ ~mem'.loaded
    BY <1>3 DEF NewMemory
  <2>5. DiskOK(disk'.queue, disk'.contents, added', scripts', {}, reused)
    <3>1. CASE disk'.queue = disk.queue
      <4>1. /\ Reading(disk.queue) \in ReadLists
            /\ QueueOK(Reading(disk.queue), disk.contents, added', scripts', {}, reused)
            /\ IsList(RowsRead(disk.queue, 2)) /\ IsList(RowsRead(disk.queue, 6))
        BY <1>3 DEF DiskOK
      <4>2. SmallerQueue(Reading(disk.queue), Reading(disk.queue))
        BY DEF SmallerQueue, IdPartOf, PartOf
      <4>3. QueueOK(Reading(disk.queue), disk'.contents, added', scripts', {}, reused)
        BY <4>1, <4>2, <1>3, SmallerOK
      <4> QED BY <4>1, <4>3, <3>1 DEF DiskOK
    <3>2. CASE \E Q \in SavedQueues(w) : disk'.queue \in {Q} \union CutOff(Q)
      <4>1. PICK Q \in SavedQueues(w) : disk'.queue \in {Q} \union CutOff(Q)
        BY <3>2
      <4>2. PICK q \in Lists : \E marked :
                   /\ Q = SaveDownloadQueue(q, marked)
                   /\ QueueOK(q, disk.contents, added', scripts', {}, reused)
        BY <4>1
      <4>3. PICK marked : /\ Q = SaveDownloadQueue(q, marked)
                          /\ QueueOK(q, disk.contents, added', scripts', {}, reused)
        BY <4>2
      <4>4. Shrunk(disk'.contents, disk.contents) /\ {} \subseteq {} /\ reused \subseteq reused
        BY <1>3
      <4> QED BY <4>1, <4>3, <4>4, SavedOK
    <3> QED BY <1>3, <3>1, <3>2
  <2>6. DiskIsCurrent'
    BY <1>3 DEF DiskIsCurrent
  <2> QED BY <2>1, <2>2, <2>3, <2>4, <2>5, <2>6
<1> QED BY <1>1, <1>2, <1>3, HandleSaving

EntriesOf(q) == ToSet(q.files) \union ToSet(q.parked)
OnDisk(q, c) == \A e \in EntriesOf(q) : e.id \in DOMAIN c /\ c[e.id] = e.file

\* Files of the queue and parked files together.
LEMMA EntriesFacts ==
    ASSUME NEW q, NEW c, NEW gen, NEW s
    PROVE  /\ There(q.files, c) /\ There(q.parked, c) <=> OnDisk(q, c)
           /\ UpTo(q.files, gen) /\ UpTo(q.parked, gen) <=> \A e \in EntriesOf(q) : e.id <= gen
           /\ Apart(s, q.files) /\ Apart(s, q.parked)
                  <=> \A e \in EntriesOf(q), i \in DOMAIN s : s[i].id # e.id
BY DEF OnDisk, EntriesOf, ToSet, There, UpTo, Apart

\* A change of the lists, after which the entries are some of those that were there; the
\* contents of others may be gone.
LEMMA MemoryStep ==
    ASSUME NEW m, NEW c, Contents(c), NEW a, NEW s, NEW s2, NEW r, MemoryOK(m, c, a, s, r),
           NEW m2 \in Memories, m2.parsed = m.parsed, m2.idGen = m.idGen, m2.loaded = m.loaded,
           NEW ids, ids \subseteq {e.id : e \in EntriesOf(m.q)},
           QueueOK(m2.q, Without(c, ids), a, s2, m2.handing, r),
           ToSet(m2.q.nzbs) = Referenced(m2.q),
           EntriesOf(m2.q) \subseteq EntriesOf(m.q), \A e \in EntriesOf(m2.q) : e.id \notin ids,
           m2.marked \subseteq {m2.q.files[i].id : i \in DOMAIN m2.q.files},
           m.handing \subseteq m2.handing, \A u \in m2.handing : a[NzbOfUrl(u)] = 0,
           m2.working => m2.q.post # <<>>,
           m.loaded \/ (m2.q = EmptyLists /\ m2.handing = {})
    PROVE  MemoryOK(m2, Without(c, ids), a, s2, r)
<1> DEFINE d == Without(c, ids)
<1>1. DOMAIN d = DOMAIN c \ ids /\ \A id \in DOMAIN c \ ids : d[id] = c[id]
  BY WithoutFacts
<1> HIDE DEF d
<1>2. \A e \in EntriesOf(m.q) : e.id \in DOMAIN c /\ c[e.id] = e.file /\ e.id <= m.idGen
  <2>1. /\ There(m.q.files, c) /\ There(m.q.parked, c)
        /\ UpTo(m.q.files, m.idGen) /\ UpTo(m.q.parked, m.idGen)
    BY DEF MemoryOK
  <2>2. \A e \in EntriesOf(m.q) : e.id \in DOMAIN c /\ c[e.id] = e.file
    <3>1. OnDisk(m.q, c)
      BY <2>1, EntriesFacts
    <3> QED BY <3>1 DEF OnDisk
  <2>3. \A e \in EntriesOf(m.q) : e.id <= m.idGen
    BY <2>1, EntriesFacts
  <2> QED BY <2>2, <2>3
<1>3. \A e \in EntriesOf(m2.q) : e.id \in DOMAIN d /\ d[e.id] = e.file /\ e.id <= m2.idGen
  BY <1>1, <1>2
<1>4. /\ There(m2.q.files, d) /\ There(m2.q.parked, d)
      /\ UpTo(m2.q.files, m2.idGen) /\ UpTo(m2.q.parked, m2.idGen)
  <2>1. OnDisk(m2.q, d)
    BY <1>3 DEF OnDisk
  <2>2. There(m2.q.files, d) /\ There(m2.q.parked, d)
    BY <2>1, EntriesFacts
  <2>3. UpTo(m2.q.files, m2.idGen) /\ UpTo(m2.q.parked, m2.idGen)
    BY <1>3, EntriesFacts
  <2> QED BY <2>2, <2>3
<1>5. ASSUME NEW n \in Collections PROVE ParsedOK(m2, n, d, a)
  <2> DEFINE s_ == m.parsed[n]
  <2>1. /\ DistinctIds(s_) /\ There(s_, c) /\ UpTo(s_, m.idGen)
        /\ \A i \in DOMAIN s_ : s_[i].nzb = n /\ s_[i].file \in ToSet(FilesOf[n])
        /\ Apart(s_, m.q.files) /\ Apart(s_, m.q.parked)
        /\ \A o \in Collections : o # n => Apart(s_, m.parsed[o])
        /\ s_ # <<>> => IF UrlOf[n] = NoUrl THEN a[n] = 0 ELSE UrlOf[n] \in m.handing
    BY DEF MemoryOK, ParsedOK
  <2>2. m2.parsed[n] = s_
    OBVIOUS
  <2> HIDE DEF s_
  <2>3. \A e \in EntriesOf(m.q), i \in DOMAIN s_ : s_[i].id # e.id
    BY <2>1, EntriesFacts
  <2>4. Apart(s_, m2.q.files) /\ Apart(s_, m2.q.parked)
    <3>1. \A e \in EntriesOf(m2.q), i \in DOMAIN s_ : s_[i].id # e.id
      BY <2>3
    <3> QED BY <3>1, EntriesFacts
  <2>5. There(s_, d)
    <3>1. \A i \in DOMAIN s_ : s_[i].id \notin ids
      BY <2>3
    <3> QED BY <3>1, <2>1, <1>1 DEF There
  <2>6. s_ # <<>> => IF UrlOf[n] = NoUrl THEN a[n] = 0 ELSE UrlOf[n] \in m2.handing
    BY <2>1
  <2> QED BY <2>1, <2>2, <2>4, <2>5, <2>6 DEF ParsedOK
<1>6. \A n \in Collections : ~m2.loaded => m2.q = EmptyLists /\ m2.handing = {} /\ m2.parsed[n] = <<>>
  BY DEF MemoryOK
<1>7. ~m2.loaded => m2.q = EmptyLists /\ m2.handing = {}
  OBVIOUS
<1> QED BY <1>4, <1>5, <1>6, <1>7 DEF MemoryOK, d

\* A script that is not running is no obstacle.
LEMMA ScriptsOK ==
    ASSUME NEW q, NEW c, NEW a, NEW s, NEW s2, NEW h, NEW r, QueueOK(q, c, a, s, h, r),
           \A i \in DOMAIN q.post : s2[q.post[i].nzb] = 0 \/ s2[q.post[i].nzb] = s[q.post[i].nzb]
    PROVE  QueueOK(q, c, a, s2, h, r)
<1>1. JobsOK(q.post, s2)
  BY DEF QueueOK, JobsOK
<1> QED BY <1>1 DEF QueueOK

\* Scripts of jobs that start over do not matter to the saved queue.
LEMMA DiskScriptsOK ==
    ASSUME NEW R, NEW c, NEW a, NEW s, NEW s2, NEW h, NEW h2, NEW r, DiskOK(R, c, a, s, h, r),
           \A n \in Collections : s2[n] = 0 \/ s2[n] = s[n], h2 \subseteq h
    PROVE  DiskOK(R, c, a, s2, h2, r)
<1> DEFINE q == Reading(R)
<1>1. q \in ReadLists /\ QueueOK(q, c, a, s, h, r)
  BY DEF DiskOK
<1>2. \A i \in DOMAIN q.post : q.post[i].nzb \in Collections
  <2>1. q.post \in Seq(Jobs)
    BY <1>1 DEF ReadLists
  <2> HIDE DEF q
  <2> SUFFICES ASSUME NEW i \in DOMAIN q.post PROVE q.post[i].nzb \in Collections
    OBVIOUS
  <2>2. q.post[i] \in Jobs
    BY <2>1, LenProperties, ElementOfSeq
  <2> QED BY <2>2 DEF Jobs
<1> HIDE DEF q
<1>3. QueueOK(q, c, a, s2, h, r)
  BY <1>1, <1>2, ScriptsOK
<1>4. SmallerQueue(q, q) /\ Shrunk(c, c)
  BY DEF SmallerQueue, IdPartOf, PartOf, Shrunk
<1>5. QueueOK(q, c, a, s2, h2, r)
  BY <1>3, <1>4, SmallerOK
<1> QED BY <1>1, <1>5 DEF q, DiskOK

\* A handler that changes the lists, discards contents of files that leave them, and saves.
LEMMA ChangeStep ==
    ASSUME IInv, up, NEW q \in Lists, NEW m \in Memories, m.q = ReleaseAll(q),
           m.parsed = mem.parsed, m.idGen = mem.idGen, m.loaded = mem.loaded, mem.loaded,
           NEW w, NEW mk, Saving(w), Handle(m, w),
           w[Len(w)].queue = SaveDownloadQueue(ReleaseAll(q), mk),
           SavedQueues(w) = {SaveDownloadQueue(ReleaseAll(q), mk)},
           added' = added, reused' = reused, scripts' \in [Collections -> {0, 1}],
           ~up' => \A n \in Collections : scripts'[n] = 0 \/ scripts'[n] = scripts[n],
           QueueOK(q, disk.contents, added, scripts', m.handing, reused),
           Discarded(w, Len(w)) \subseteq {e.id : e \in EntriesOf(mem.q)},
           EntriesOf(q) \subseteq EntriesOf(mem.q),
           \A e \in EntriesOf(q) : e.id \notin Discarded(w, Len(w)),
           m.marked \subseteq {q.files[i].id : i \in DOMAIN q.files},
           mem.handing \subseteq m.handing, \A u \in m.handing : added[NzbOfUrl(u)] = 0,
           m.working => q.post # <<>>
    PROVE  IInv'
<1> DEFINE p == ReleaseAll(q)
           ids == Discarded(w, Len(w))
<1>1. Referenced(q) \subseteq ToSet(q.nzbs)
  BY DEF QueueOK, Listed
<1>2. /\ p \in Lists /\ ToSet(p.nzbs) = Referenced(p)
      /\ p.files = q.files /\ p.post = q.post /\ p.parked = q.parked
      /\ \A c, a, s, h, r : QueueOK(q, c, a, s, h, r) => QueueOK(p, c, a, s, h, r)
  BY <1>1, ReleaseOK
<1> HIDE DEF p, ids
<1>3. m.q = p
  BY DEF p
<1>4. QueueOK(p, disk.contents, added, scripts', m.handing, reused)
  BY <1>2
<1>5. SmallerQueue(p, p) /\ p.nzbs = p.nzbs
  BY DEF SmallerQueue, IdPartOf, PartOf
<1>6. Contents(disk.contents)
  BY DEF IInv
<1>7. Shrunk(Without(disk.contents, ids), disk.contents) /\ Shrunk(disk.contents, disk.contents)
  BY <1>6, WithoutFacts DEF Shrunk
<1>8. QueueOK(p, Without(disk.contents, ids), added, scripts', m.handing, reused)
  BY <1>4, <1>5, <1>7, SmallerOK
<1>9. QueueOK(p, disk.contents, added, scripts', {}, reused)
  <2>1. {} \subseteq m.handing
    OBVIOUS
  <2> QED BY <1>4, <1>5, <1>7, <2>1, SmallerOK
<1>10. EntriesOf(p) = EntriesOf(q)
  BY <1>2 DEF EntriesOf
<1>11. MemoryOK(m, Without(disk.contents, ids), added, scripts', reused)
  <2>1. MemoryOK(mem, disk.contents, added, scripts, reused)
    BY DEF IInv
  <2>2. ids \subseteq {e.id : e \in EntriesOf(mem.q)} /\ \A e \in EntriesOf(m.q) : e.id \notin ids
    BY <1>3, <1>10 DEF ids
  <2>3. EntriesOf(m.q) \subseteq EntriesOf(mem.q) /\ ToSet(m.q.nzbs) = Referenced(m.q)
        /\ m.marked \subseteq {m.q.files[i].id : i \in DOMAIN m.q.files}
        /\ (m.working => m.q.post # <<>>)
    BY <1>2, <1>3, <1>10
  <2>4. QueueOK(m.q, Without(disk.contents, ids), added, scripts', m.handing, reused)
    BY <1>3, <1>8
  <2> QED BY <2>1, <2>2, <2>3, <2>4, <1>6, MemoryStep
<1>12. ~up' => DiskOK(disk.queue, disk.contents, added', scripts', {}, reused)
  <2>1. DiskOK(disk.queue, disk.contents, added, scripts, mem.handing, reused)
    BY DEF IInv
  <2> QED BY <2>1, DiskScriptsOK
<1>13. \A Q \in SavedQueues(w) :
           \E x \in Lists : \E marked :
               /\ Q = SaveDownloadQueue(x, marked)
               /\ QueueOK(x, disk.contents, added', scripts', {}, reused)
  BY <1>2, <1>9 DEF p
<1>14. added' \in [Collections -> {0, 1}]
  BY DEF IInv
<1>15. w[Len(w)].queue = SaveDownloadQueue(p, mk)
  BY DEF p
<1>16. QueueOK(p, disk.contents, added', scripts', m.handing, reused)
  BY <1>4
<1>17. MemoryOK(m, Without(disk.contents, Discarded(w, Len(w))), added', scripts', reused)
  BY <1>11 DEF ids
<1> QED BY <1>2, <1>3, <1>12, <1>13, <1>14, <1>15, <1>16, <1>17, SavingStep

\* One that does not write anything.
LEMMA QuietStep ==
    ASSUME IInv, up' = up, disk' = disk, crashes' = crashes, added' = added, reused' = reused,
           scripts' \in [Collections -> {0, 1}],
           \A n \in Collections : scripts'[n] = 0 \/ scripts'[n] = scripts[n],
           mem'.parsed = mem.parsed, mem'.loaded = mem.loaded, mem'.reload = mem.reload,
           mem'.handing \subseteq mem.handing, Essence(mem'.q) = Essence(mem.q),
           MemoryOK(mem', disk.contents, added, scripts', reused)
    PROVE  IInv'
<1> USE DEF IInv
<1>1. DiskOK(disk'.queue, disk'.contents, added', scripts', mem'.handing, reused')
  BY DiskScriptsOK
<1>2. DiskIsCurrent'
  BY DEF DiskIsCurrent, NewFileHasSavedId, SavedIds
<1> QED BY <1>1, <1>2

-----------------------------------------------------------------------------
(* The invariant holds in the beginning, and each action keeps it.          *)

\* What the invariant says of the memory.
LEMMA MemFacts ==
    ASSUME IInv
    PROVE  /\ mem \in Memories /\ mem.q \in Lists
           /\ mem.q.nzbs \in Seq(Collections) /\ mem.q.files \in Seq(Entries)
           /\ mem.q.post \in Seq(Jobs) /\ mem.q.urls \in Seq(UrlItems)
           /\ mem.q.history \in Seq(HistoryItems) /\ mem.q.parked \in Seq(Entries)
           /\ QueueOK(mem.q, disk.contents, added, scripts, mem.handing, reused)
           /\ Contents(disk.contents) /\ Shrunk(disk.contents, disk.contents)
           /\ SmallerQueue(mem.q, mem.q)
           /\ \A u \in mem.handing : added[NzbOfUrl(u)] = 0
           /\ ~mem.loaded => mem.q = EmptyLists /\ mem.handing = {}
<1>1. mem \in Memories
  BY DEF IInv, MemoryOK
<1>2. mem.q \in Lists
  BY <1>1 DEF Memories
<1>3. SmallerQueue(mem.q, mem.q)
  BY DEF SmallerQueue, IdPartOf, PartOf
<1>4. /\ mem.q.nzbs \in Seq(Collections) /\ mem.q.files \in Seq(Entries)
      /\ mem.q.post \in Seq(Jobs) /\ mem.q.urls \in Seq(UrlItems)
      /\ mem.q.history \in Seq(HistoryItems) /\ mem.q.parked \in Seq(Entries)
  BY <1>2 DEF Lists
<1>5. Contents(disk.contents) /\ Shrunk(disk.contents, disk.contents)
  BY DEF IInv, Shrunk
<1> QED BY <1>1, <1>2, <1>3, <1>4, <1>5 DEF IInv, MemoryOK

\* A process without anything in memory: the program starts, or it is gone.
LEMMA FreshStep ==
    ASSUME IInv, NEW reload \in SUBSET Everything, mem' = NewMemory(reload), disk' = disk,
           up' \in BOOLEAN, crashes' \in 0..MaxCrashes, UNCHANGED <<added, scripts, reused>>
    PROVE  IInv'
<1>1. MemoryOK(mem', disk'.contents, added', scripts', reused')
  BY NewMemoryOK
<1>2. mem'.handing = {} /\ mem'.loaded = FALSE
  BY DEF NewMemory
<1>3. DiskOK(disk'.queue, disk'.contents, added', scripts', mem'.handing, reused')
  <2>1. DiskOK(disk.queue, disk.contents, added, scripts, mem.handing, reused)
    BY DEF IInv
  <2> QED BY <1>2, <2>1, DiskScriptsOK
<1>4. DiskIsCurrent'
  BY <1>2 DEF DiskIsCurrent
<1> QED BY <1>1, <1>2, <1>3, <1>4 DEF IInv

\* Init establishes the invariant.
LEMMA InitOK == Init => IInv
<1> SUFFICES ASSUME Init PROVE IInv
  OBVIOUS
<1> USE DEF Init
<1>1. MemoryOK(mem, disk.contents, added, scripts, reused)
  BY NewMemoryOK
<1>2. mem.handing = {} /\ mem.loaded = FALSE
  BY DEF NewMemory
<1>3. disk.queue = <<>> /\ disk.contents = <<>>
  OBVIOUS
<1>4. DiskOK(disk.queue, disk.contents, added, scripts, mem.handing, reused)
  BY <1>3, NothingSavedOK
<1>5. Contents(disk.contents)
  <2>1. DOMAIN <<>> = {} /\ <<>> = [id \in {} |-> <<>>[id]]
    OBVIOUS
  <2> QED BY <1>3, <2>1 DEF Contents
<1>6. disk = [queue |-> disk.queue, contents |-> disk.contents]
  OBVIOUS
<1>7. DiskIsCurrent
  BY DEF DiskIsCurrent
<1>8. up \in BOOLEAN /\ crashes \in 0..MaxCrashes
  <2>1. crashes \in 0..MaxCrashes
    BY PersistentAssumption
  <2> QED BY <2>1
<1>9. added \in [Collections -> {0, 1}] /\ scripts \in [Collections -> {0, 1}]
  OBVIOUS
<1> QED BY <1>1, <1>2, <1>4, <1>5, <1>6, <1>7, <1>8, <1>9 DEF IInv

\* Start keeps the invariant.
LEMMA StartOK == ASSUME IInv, NEW reload \in ReloadOptions, Start(reload) PROVE IInv'
<1>1. reload \in SUBSET Everything
  BY PersistentAssumption DEF Everything
<1> QED BY <1>1, FreshStep DEF Start, IInv

\* Crash keeps the invariant.
LEMMA CrashOK == ASSUME IInv, Crash PROVE IInv'
<1>1. crashes' \in 0..MaxCrashes
  BY PersistentAssumption DEF Crash, IInv
<1> QED BY <1>1, FreshStep DEF Crash

\* Shutdown keeps the invariant.
LEMMA ShutdownOK == ASSUME IInv, Shutdown PROVE IInv'
BY FreshStep DEF Shutdown, IInv

\* The entries, the collections and the history stay as they are, and nothing is written.
LEMMA QuietChange ==
    ASSUME IInv, up' = up, disk' = disk, crashes' = crashes, added' = added, reused' = reused,
           scripts' \in [Collections -> {0, 1}],
           \A n \in Collections : scripts'[n] = 0 \/ scripts'[n] = scripts[n],
           mem' \in Memories, mem'.parsed = mem.parsed, mem'.loaded = mem.loaded,
           mem'.reload = mem.reload, mem'.idGen = mem.idGen, mem'.handing = mem.handing,
           mem'.q.nzbs = mem.q.nzbs, mem'.q.files = mem.q.files, mem'.q.parked = mem.q.parked,
           mem'.q.history = mem.q.history,
           DOMAIN mem'.q.post = DOMAIN mem.q.post,
           \A i \in DOMAIN mem.q.post : mem'.q.post[i].nzb = mem.q.post[i].nzb,
           DOMAIN mem'.q.urls = DOMAIN mem.q.urls,
           \A i \in DOMAIN mem.q.urls : mem'.q.urls[i].url = mem.q.urls[i].url,
           JobsOK(mem'.q.post, scripts'),
           mem'.marked \subseteq {mem.q.files[i].id : i \in DOMAIN mem.q.files},
           mem'.working => mem'.q.post # <<>>,
           mem.loaded \/ mem'.q = EmptyLists
    PROVE  IInv'
<1> DEFINE q == mem.q
           p == mem'.q
<1>1. QueueOK(q, disk.contents, added, scripts, mem.handing, reused)
      /\ MemoryOK(mem, disk.contents, added, scripts, reused) /\ Contents(disk.contents)
  BY MemFacts DEF IInv
<1> HIDE DEF q, p
<1>2. /\ p.nzbs = q.nzbs /\ p.files = q.files /\ p.parked = q.parked /\ p.history = q.history
      /\ DOMAIN p.post = DOMAIN q.post /\ \A i \in DOMAIN q.post : p.post[i].nzb = q.post[i].nzb
      /\ DOMAIN p.urls = DOMAIN q.urls /\ \A i \in DOMAIN q.urls : p.urls[i].url = q.urls[i].url
  BY DEF p, q
<1>3. Essence(p) = Essence(q)
  <2>1. [i \in DOMAIN p.urls |-> p.urls[i].url] = [i \in DOMAIN q.urls |-> q.urls[i].url]
    BY <1>2
  <2>2. [i \in DOMAIN p.post |-> p.post[i].nzb] = [i \in DOMAIN q.post |-> q.post[i].nzb]
    BY <1>2
  <2> QED BY <1>2, <2>1, <2>2 DEF Essence
<1>4. Referenced(p) = Referenced(q)
  <2>1. {p.post[i].nzb : i \in DOMAIN p.post} = {q.post[i].nzb : i \in DOMAIN q.post}
    BY <1>2
  <2> QED BY <1>2, <2>1 DEF Referenced
<1>5. UrlOnce(p) /\ UrlsFree(p, added, mem.handing)
  <2>1. UrlOnce(q) /\ UrlsFree(q, added, mem.handing)
    BY <1>1 DEF QueueOK
  <2>2. UrlOnce(p)
    BY <1>2, <2>1 DEF UrlOnce
  <2>3. UrlsFree(p, added, mem.handing)
    BY <1>2, <2>1 DEF UrlsFree
  <2> QED BY <2>2, <2>3
<1>6. QueueOK(p, disk.contents, added, scripts', mem.handing, reused)
  <2>1. Listed(q, added) /\ Own(q.files, disk.contents, reused)
        /\ Own(q.parked, disk.contents, reused) /\ Apart(q.files, q.parked)
    BY <1>1 DEF QueueOK
  <2>2. Listed(p, added)
    BY <1>2, <1>4, <2>1 DEF Listed
  <2>3. JobsOK(p.post, scripts')
    BY DEF p
  <2> QED BY <1>2, <1>5, <2>1, <2>2, <2>3 DEF QueueOK
<1>7. Without(disk.contents, {}) = disk.contents
  BY <1>1, WithoutNothing
<1>8. EntriesOf(mem'.q) = EntriesOf(mem.q)
  BY <1>2 DEF EntriesOf, p, q
<1>9. ToSet(mem.q.nzbs) = Referenced(mem.q) /\ (\A u \in mem.handing : added[NzbOfUrl(u)] = 0)
      /\ (~mem.loaded => mem.handing = {})
  BY <1>1 DEF MemoryOK
<1>10. MemoryOK(mem', Without(disk.contents, {}), added, scripts', reused)
  <2>1. QueueOK(mem'.q, Without(disk.contents, {}), added, scripts', mem'.handing, reused)
    BY <1>6, <1>7 DEF p
  <2>2. ToSet(mem'.q.nzbs) = Referenced(mem'.q)
    BY <1>4, <1>9 DEF p, q
  <2>3. {} \subseteq {e.id : e \in EntriesOf(mem.q)} /\ \A e \in EntriesOf(mem'.q) : e.id \notin {}
    OBVIOUS
  <2>4. mem'.marked \subseteq {mem'.q.files[i].id : i \in DOMAIN mem'.q.files}
    OBVIOUS
  <2> QED BY <1>1, <1>8, <1>9, <2>1, <2>2, <2>3, <2>4, MemoryStep
<1> QED BY <1>3, <1>7, <1>10, QuietStep DEF p, q

\* The status of a url that waits.
WithStatus(i, status) ==
    [mem.q EXCEPT !.urls = [mem.q.urls EXCEPT ![i] = [mem.q.urls[i] EXCEPT !.status = status]]]

\* A change of the status of a url.
LEMMA UrlStep ==
    ASSUME IInv, NEW i \in DOMAIN mem.q.urls, NEW active \in SUBSET Urls,
           NEW status \in {"undefined", "running", "finished", "failed"},
           mem' = [mem EXCEPT !.q = WithStatus(i, status),
                              !.active = active],
           UNCHANGED <<up, disk, crashes, added, scripts, reused>>
    PROVE  IInv'
<1> DEFINE urls == [mem.q.urls EXCEPT ![i] = [mem.q.urls[i] EXCEPT !.status = status]]
           q == [mem.q EXCEPT !.urls = urls]
<1>1. /\ mem \in Memories /\ mem.q \in Lists /\ mem.q.urls \in Seq(UrlItems)
      /\ QueueOK(mem.q, disk.contents, added, scripts, mem.handing, reused)
      /\ ~mem.loaded => mem.q = EmptyLists /\ mem.handing = {}
  BY MemFacts
<1>2. mem.q.urls[i] \in UrlItems
  BY <1>1, LenProperties, ElementOfSeq
<1>3. [mem.q.urls[i] EXCEPT !.status = status] \in UrlItems
      /\ [mem.q.urls[i] EXCEPT !.status = status].url = mem.q.urls[i].url
  BY <1>2 DEF UrlItems
<1>4. urls \in Seq(UrlItems) /\ DOMAIN urls = DOMAIN mem.q.urls
      /\ \A k \in DOMAIN mem.q.urls : urls[k].url = mem.q.urls[k].url
  BY <1>1, <1>3
<1> HIDE DEF urls
<1>5. q \in Lists /\ q.urls = urls /\ q.nzbs = mem.q.nzbs /\ q.files = mem.q.files
      /\ q.post = mem.q.post /\ q.history = mem.q.history /\ q.parked = mem.q.parked
  BY <1>1, <1>4 DEF Lists
<1>6. mem' = [mem EXCEPT !.q = q, !.active = active]
  BY DEF urls, WithStatus
<1> HIDE DEF q
<1>7. mem' \in Memories /\ mem'.q = q /\ mem'.parsed = mem.parsed /\ mem'.loaded = mem.loaded
      /\ mem'.reload = mem.reload /\ mem'.idGen = mem.idGen /\ mem'.handing = mem.handing
      /\ mem'.marked = mem.marked /\ mem'.working = mem.working
  BY <1>1, <1>5, <1>6 DEF Memories
<1>8. mem.loaded
  BY <1>1 DEF EmptyLists
<1>9. JobsOK(mem.q.post, scripts) /\ scripts \in [Collections -> {0, 1}]
      /\ mem.marked \subseteq {mem.q.files[k].id : k \in DOMAIN mem.q.files}
      /\ (mem.working => mem.q.post # <<>>)
  BY <1>1 DEF QueueOK, IInv, MemoryOK
<1> QED BY <1>4, <1>5, <1>7, <1>8, <1>9, QuietChange

\* StartUrlDownload keeps the invariant.
LEMMA StartUrlDownloadOK ==
    ASSUME IInv, NEW i \in DOMAIN mem.q.urls, StartUrlDownload(i)
    PROVE  IInv'
<1>1. mem \in Memories /\ mem.q.urls \in Seq(UrlItems)
  BY MemFacts
<1>2. mem.q.urls[i] \in UrlItems
  BY <1>1, LenProperties, ElementOfSeq
<1>3. mem.active \union {mem.q.urls[i].url} \in SUBSET Urls
  BY <1>1, <1>2 DEF Memories, UrlItems
<1> DEFINE active == mem.active \union {mem.q.urls[i].url}
<1> HIDE DEF active
<1>4. mem' = [mem EXCEPT !.q = WithStatus(i, "running"),
                         !.active = active]
  BY DEF StartUrlDownload, active, WithStatus
<1>5. UNCHANGED <<up, disk, crashes, added, scripts, reused>>
  BY DEF StartUrlDownload
<1> QED BY <1>3, <1>4, <1>5, UrlStep DEF active

\* UrlDownloaded keeps the invariant.
LEMMA UrlDownloadedOK ==
    ASSUME IInv, NEW i \in DOMAIN mem.q.urls, NEW result \in {"finished", "failed", "undefined"},
           UrlDownloaded(i, result)
    PROVE  IInv'
<1>1. mem \in Memories
  BY MemFacts
<1>2. mem.active \in SUBSET Urls
  BY <1>1 DEF Memories
<1>3. mem' = [mem EXCEPT !.q = WithStatus(i, result)]
  BY DEF UrlDownloaded, WithStatus
<1>4. [mem EXCEPT !.q = WithStatus(i, result)]
      = [mem EXCEPT !.q = WithStatus(i, result),
                    !.active = mem.active]
  BY <1>1 DEF Memories
<1>5. UNCHANGED <<up, disk, crashes, added, scripts, reused>>
  BY DEF UrlDownloaded
<1> QED BY <1>2, <1>3, <1>4, <1>5, UrlStep

\* ResetHangingDownloads keeps the invariant.
LEMMA ResetHangingOK ==
    ASSUME IInv, NEW i \in DOMAIN mem.q.urls, NEW terminated \in BOOLEAN,
           ResetHangingDownloads(i, terminated)
    PROVE  IInv'
<1> DEFINE active == mem.active \ {mem.q.urls[i].url}
           status == IF terminated THEN "undefined" ELSE mem.q.urls[i].status
<1>1. mem \in Memories /\ mem.q.urls \in Seq(UrlItems)
  BY MemFacts
<1>2. active \in SUBSET Urls
  BY <1>1 DEF Memories
<1>3. mem.q.urls[i] \in UrlItems
  BY <1>1, LenProperties, ElementOfSeq
<1>4. status \in {"undefined", "running", "finished", "failed"}
  BY <1>3 DEF UrlItems
<1>5. mem' = [mem EXCEPT !.active = active,
                         !.q = WithStatus(i, status)]
  BY DEF ResetHangingDownloads, WithStatus
<1> HIDE DEF active, status
<1>6. \A q : [mem EXCEPT !.active = active, !.q = q] = [mem EXCEPT !.q = q, !.active = active]
  BY <1>1 DEF Memories
<1>7. mem' = [mem EXCEPT !.q = WithStatus(i, status),
                         !.active = active]
  BY <1>5, <1>6
<1>8. UNCHANGED <<up, disk, crashes, added, scripts, reused>>
  BY DEF ResetHangingDownloads
<1> QED BY <1>2, <1>4, <1>7, <1>8, UrlStep

\* The first job of the post-queue.
WithFirst(job) == [mem.q EXCEPT !.post = [mem.q.post EXCEPT ![1] = job]]

\* The first job.
LEMMA FirstFacts ==
    ASSUME IInv, mem.q.post # <<>>
    PROVE  /\ 1 \in DOMAIN mem.q.post /\ mem.q.post[1] \in Jobs /\ mem.loaded
           /\ First(mem.q) = mem.q.post[1]
           /\ mem.q.post[1].check => mem.q.post[1].stage = "queued"
           /\ mem.q.post[1].stage = "queued" => scripts[mem.q.post[1].nzb] = 0
<1>1. mem.q.post \in Seq(Jobs) /\ (~mem.loaded => mem.q = EmptyLists)
      /\ QueueOK(mem.q, disk.contents, added, scripts, mem.handing, reused)
  BY MemFacts
<1>2. 1 \in DOMAIN mem.q.post
  BY <1>1, TailFacts
<1>3. mem.q.post[1] \in Jobs
  BY <1>1, <1>2, LenProperties, ElementOfSeq
<1>4. mem.loaded
  BY <1>1 DEF EmptyLists
<1>5. JobsOK(mem.q.post, scripts)
  BY <1>1 DEF QueueOK
<1> QED BY <1>2, <1>3, <1>4, <1>5 DEF First, JobsOK

\* Jobs for the same collections refer to the same.
LEMMA SameReferenced ==
    ASSUME NEW p, NEW q, p.files = q.files, p.parked = q.parked, p.history = q.history,
           DOMAIN p.post = DOMAIN q.post, \A i \in DOMAIN q.post : p.post[i].nzb = q.post[i].nzb
    PROVE  Referenced(p) = Referenced(q)
<1>1. {p.post[i].nzb : i \in DOMAIN p.post} = {q.post[i].nzb : i \in DOMAIN q.post}
  OBVIOUS
<1> QED BY <1>1 DEF Referenced

\* A change of the first job for the same collection.
LEMMA WithFirstOK ==
    ASSUME IInv, mem.q.post # <<>>, NEW job \in Jobs, job.nzb = mem.q.post[1].nzb, NEW s,
           \A n \in Collections : n # job.nzb => s[n] = scripts[n],
           job.check => job.stage = "queued", job.stage = "queued" => s[job.nzb] = 0
    PROVE  LET q == WithFirst(job)
           IN  /\ q \in Lists /\ q.post # <<>> /\ DOMAIN q.post = DOMAIN mem.q.post
               /\ \A i \in DOMAIN mem.q.post : q.post[i].nzb = mem.q.post[i].nzb
               /\ JobsOK(q.post, s) /\ EntriesOf(q) = EntriesOf(mem.q)
               /\ q.nzbs = mem.q.nzbs /\ q.files = mem.q.files /\ q.urls = mem.q.urls
               /\ q.history = mem.q.history /\ q.parked = mem.q.parked
               /\ QueueOK(q, disk.contents, added, s, mem.handing, reused)
<1> DEFINE q == WithFirst(job)
           old == mem.q.post
           post == [old EXCEPT ![1] = job]
<1>1. mem.q \in Lists /\ old \in Seq(Jobs)
      /\ QueueOK(mem.q, disk.contents, added, scripts, mem.handing, reused)
  BY MemFacts
<1>2. 1 \in DOMAIN old
  BY FirstFacts
<1>3. post \in Seq(Jobs) /\ DOMAIN post = DOMAIN old /\ post[1] = job
      /\ \A i \in DOMAIN old : i # 1 => post[i] = old[i]
  BY <1>1, <1>2
<1>4. \A i \in DOMAIN old : post[i].nzb = old[i].nzb
  BY <1>3
<1>5. q = [mem.q EXCEPT !.post = post]
  BY DEF WithFirst
<1> HIDE DEF post, q
<1>6. /\ q \in Lists /\ q.post = post
      /\ q.nzbs = mem.q.nzbs /\ q.files = mem.q.files /\ q.urls = mem.q.urls
      /\ q.history = mem.q.history /\ q.parked = mem.q.parked
  BY <1>1, <1>3, <1>5 DEF Lists
<1>7. JobsOK(old, scripts)
  BY <1>1 DEF QueueOK
<1>8. \A i \in DOMAIN old : old[i].nzb \in Collections
  <2> SUFFICES ASSUME NEW i \in DOMAIN old PROVE old[i].nzb \in Collections
    OBVIOUS
  <2>1. old[i] \in Jobs
    BY <1>1, LenProperties, ElementOfSeq
  <2> QED BY <2>1 DEF Jobs
<1>9. JobsOK(post, s)
  <2>1. \A i, j \in DOMAIN post : post[i].nzb = post[j].nzb => i = j
    BY <1>3, <1>4, <1>7 DEF JobsOK
  <2>2. ASSUME NEW i \in DOMAIN post
        PROVE  /\ post[i].check => post[i].stage = "queued"
               /\ post[i].stage = "queued" => s[post[i].nzb] = 0
    <3>1. CASE i = 1
      BY <3>1, <1>3
    <3>2. CASE i # 1
      <4>1. post[i] = old[i] /\ old[i].nzb # job.nzb
        BY <3>2, <1>2, <1>3, <1>7 DEF JobsOK
      <4>2. s[old[i].nzb] = scripts[old[i].nzb]
        BY <4>1, <1>3, <1>8
      <4>3. (old[i].check => old[i].stage = "queued")
            /\ (old[i].stage = "queued" => scripts[old[i].nzb] = 0)
        BY <1>3, <1>7 DEF JobsOK
      <4> QED BY <4>1, <4>2, <4>3
    <3> QED BY <3>1, <3>2
  <2> QED BY <2>1, <2>2 DEF JobsOK
<1>10. Referenced(q) = Referenced(mem.q)
  BY <1>3, <1>4, <1>6, SameReferenced
<1>11. QueueOK(q, disk.contents, added, s, mem.handing, reused)
  <2>1. Listed(q, added) /\ UrlOnce(q) /\ UrlsFree(q, added, mem.handing)
    BY <1>1, <1>6, <1>10 DEF QueueOK, Listed, UrlOnce, UrlsFree
  <2> QED BY <1>1, <1>6, <1>9, <2>1 DEF QueueOK
<1>12. EntriesOf(q) = EntriesOf(mem.q)
  BY <1>6 DEF EntriesOf
<1>13. post # <<>>
  BY <1>2, <1>3
<1> QED BY <1>3, <1>4, <1>6, <1>9, <1>11, <1>12, <1>13 DEF q

\* StartParJob keeps the invariant.
LEMMA StartParJobOK == ASSUME IInv, StartParJob PROVE IInv'
<1>1. mem.q.post # <<>> /\ mem' = [mem EXCEPT !.working = TRUE]
      /\ UNCHANGED <<up, disk, crashes, added, scripts, reused>>
  BY DEF StartParJob, Idle
<1>2. mem \in Memories /\ mem.loaded
  BY <1>1, MemFacts, FirstFacts
<1>3. /\ mem' \in Memories /\ mem'.q = mem.q /\ mem'.parsed = mem.parsed
      /\ mem'.loaded = mem.loaded /\ mem'.reload = mem.reload /\ mem'.idGen = mem.idGen
      /\ mem'.handing = mem.handing /\ mem'.marked = mem.marked
  BY <1>1, <1>2 DEF Memories
<1>4. JobsOK(mem.q.post, scripts) /\ scripts \in [Collections -> {0, 1}]
      /\ mem.marked \subseteq {mem.q.files[k].id : k \in DOMAIN mem.q.files}
  BY DEF QueueOK, IInv, MemoryOK
<1> QED BY <1>1, <1>2, <1>3, <1>4, QuietChange

\* ScriptDone keeps the invariant.
LEMMA ScriptDoneOK == ASSUME IInv, ScriptDone PROVE IInv'
<1> DEFINE job == [mem.q.post[1] EXCEPT !.stage = "finished"]
           q == WithFirst(job)
<1>1. mem.working /\ First(mem.q).stage = "script" /\ mem' = [mem EXCEPT !.working = FALSE, !.q = q]
      /\ UNCHANGED <<up, disk, crashes, added, scripts, reused>>
  BY DEF ScriptDone, WithFirst
<1>2. mem \in Memories /\ mem.q.post # <<>>
  BY <1>1, MemFacts DEF IInv, MemoryOK
<1>3. /\ mem.q.post[1] \in Jobs /\ mem.loaded /\ mem.q.post[1].stage = "script"
      /\ ~mem.q.post[1].check
  BY <1>1, <1>2, FirstFacts
<1>4. job \in Jobs /\ job.nzb = mem.q.post[1].nzb /\ job.stage = "finished" /\ ~job.check
  BY <1>3 DEF Jobs, Stages
<1> HIDE DEF job
<1>5. /\ q \in Lists /\ q.post # <<>> /\ DOMAIN q.post = DOMAIN mem.q.post
      /\ \A i \in DOMAIN mem.q.post : q.post[i].nzb = mem.q.post[i].nzb
      /\ JobsOK(q.post, scripts)
      /\ q.nzbs = mem.q.nzbs /\ q.files = mem.q.files /\ q.urls = mem.q.urls
      /\ q.history = mem.q.history /\ q.parked = mem.q.parked
  BY <1>2, <1>4, WithFirstOK
<1> HIDE DEF q
<1>6. /\ mem' \in Memories /\ mem'.q = q /\ mem'.parsed = mem.parsed
      /\ mem'.loaded = mem.loaded /\ mem'.reload = mem.reload /\ mem'.idGen = mem.idGen
      /\ mem'.handing = mem.handing /\ mem'.marked = mem.marked
  BY <1>1, <1>2, <1>5 DEF Memories
<1>7. scripts \in [Collections -> {0, 1}]
      /\ mem.marked \subseteq {mem.q.files[k].id : k \in DOMAIN mem.q.files}
  BY DEF IInv, MemoryOK
<1> QED BY <1>1, <1>3, <1>5, <1>6, <1>7, QuietChange

\* A handler that changes the lists and saves them.
LEMMA SaveStep ==
    ASSUME IInv, up, NEW q \in Lists, NEW m \in Memories, ChangeAndSave(m, q),
           m.parsed = mem.parsed, m.idGen = mem.idGen, m.loaded = mem.loaded, mem.loaded,
           added' = added, reused' = reused, scripts' \in [Collections -> {0, 1}],
           ~up' => \A n \in Collections : scripts'[n] = 0 \/ scripts'[n] = scripts[n],
           QueueOK(q, disk.contents, added, scripts', m.handing, reused),
           EntriesOf(q) \subseteq EntriesOf(mem.q),
           m.marked \subseteq {q.files[i].id : i \in DOMAIN q.files},
           mem.handing \subseteq m.handing, \A u \in m.handing : added[NzbOfUrl(u)] = 0,
           m.working => q.post # <<>>
    PROVE  IInv'
<1> DEFINE m2 == WithQueue(m, q)
           w == <<Save(ReleaseAll(q), m.marked)>>
<1>1. Saving(w) /\ w[Len(w)].queue = SaveDownloadQueue(ReleaseAll(q), m.marked)
      /\ SavedQueues(w) = {SaveDownloadQueue(ReleaseAll(q), m.marked)}
      /\ Discarded(w, Len(w)) = {}
  BY OnlySave
<1>2. Handle(m2, w)
  BY DEF ChangeAndSave
<1> HIDE DEF w
<1>3. Referenced(q) \subseteq ToSet(q.nzbs)
  BY DEF QueueOK, Listed
<1>4. ReleaseAll(q) \in Lists
  BY <1>3, ReleaseOK
<1>5. m2 = [m EXCEPT !.q = ReleaseAll(q)]
  BY DEF WithQueue
<1> HIDE DEF m2
<1>6. /\ m2 \in Memories /\ m2.q = ReleaseAll(q) /\ m2.parsed = m.parsed /\ m2.idGen = m.idGen
      /\ m2.loaded = m.loaded /\ m2.marked = m.marked /\ m2.handing = m.handing
      /\ m2.working = m.working
  BY <1>4, <1>5 DEF Memories
<1>7. Discarded(w, Len(w)) \subseteq {e.id : e \in EntriesOf(mem.q)}
      /\ \A e \in EntriesOf(q) : e.id \notin Discarded(w, Len(w))
  BY <1>1
<1>8. /\ m2.parsed = mem.parsed /\ m2.idGen = mem.idGen /\ m2.loaded = mem.loaded
      /\ QueueOK(q, disk.contents, added, scripts', m2.handing, reused)
      /\ m2.marked \subseteq {q.files[i].id : i \in DOMAIN q.files}
      /\ mem.handing \subseteq m2.handing /\ \A u \in m2.handing : added[NzbOfUrl(u)] = 0
  BY <1>6
<1>9. m2.working => q.post # <<>>
  BY <1>6
<1> QED BY <1>1, <1>2, <1>6, <1>7, <1>8, <1>9, ChangeStep

\* ParJobDone keeps the invariant.
LEMMA ParJobDoneOK == ASSUME IInv, ParJobDone PROVE IInv'
<1> DEFINE job == [mem.q.post[1] EXCEPT !.check = FALSE, !.stage = "queued"]
           m == [mem EXCEPT !.working = FALSE]
           q == WithFirst(job)
<1>1. up /\ mem.working /\ First(mem.q).check /\ ChangeAndSave(m, q)
      /\ UNCHANGED <<added, scripts, reused>>
  BY DEF ParJobDone, WithFirst
<1>2. /\ mem \in Memories /\ mem.q.post # <<>> /\ scripts \in [Collections -> {0, 1}]
      /\ mem.marked \subseteq {mem.q.files[k].id : k \in DOMAIN mem.q.files}
      /\ \A u \in mem.handing : added[NzbOfUrl(u)] = 0
  BY <1>1, MemFacts DEF IInv, MemoryOK
<1>3. /\ mem.q.post[1] \in Jobs /\ mem.loaded /\ scripts[mem.q.post[1].nzb] = 0
  BY <1>1, <1>2, FirstFacts
<1>4. job \in Jobs /\ job.nzb = mem.q.post[1].nzb /\ job.stage = "queued" /\ ~job.check
  BY <1>3 DEF Jobs, Stages
<1> HIDE DEF job
<1>5. /\ q \in Lists /\ q.post # <<>> /\ EntriesOf(q) = EntriesOf(mem.q) /\ q.files = mem.q.files
      /\ QueueOK(q, disk.contents, added, scripts, mem.handing, reused)
  BY <1>2, <1>3, <1>4, WithFirstOK
<1>6. /\ m \in Memories /\ m.parsed = mem.parsed /\ m.idGen = mem.idGen
      /\ m.loaded = mem.loaded /\ m.marked = mem.marked /\ m.handing = mem.handing
  BY <1>2 DEF Memories
<1>7. ~m.working
  BY <1>2 DEF Memories
<1> HIDE DEF m, q
<1>8. /\ QueueOK(q, disk.contents, added, scripts', m.handing, reused)
      /\ m.marked \subseteq {q.files[k].id : k \in DOMAIN q.files}
      /\ mem.handing \subseteq m.handing /\ (\A u \in m.handing : added[NzbOfUrl(u)] = 0)
      /\ EntriesOf(q) \subseteq EntriesOf(mem.q)
  BY <1>1, <1>2, <1>5, <1>6
<1>9. /\ added' = added /\ reused' = reused /\ scripts' \in [Collections -> {0, 1}]
      /\ \A n \in Collections : scripts'[n] = 0 \/ scripts'[n] = scripts[n]
  BY <1>1, <1>2
<1> QED BY <1>1, <1>3, <1>5, <1>6, <1>7, <1>8, <1>9, SaveStep

\* StartScriptJob keeps the invariant; this is where scripts are counted.
LEMMA StartScriptJobOK == ASSUME IInv, StartScriptJob PROVE IInv'
<1> DEFINE job == [mem.q.post[1] EXCEPT !.stage = "script"]
           m == [mem EXCEPT !.working = TRUE]
           q == WithFirst(job)
           n == mem.q.post[1].nzb
<1>1. up /\ mem.q.post # <<>> /\ ~First(mem.q).check /\ First(mem.q).stage = "queued"
      /\ ChangeAndSave(m, q)
      /\ scripts' = (IF up' THEN ScriptStarted(First(mem.q).nzb) ELSE scripts)
      /\ UNCHANGED <<added, reused>>
  BY DEF StartScriptJob, Idle, WithFirst
<1>2. /\ mem \in Memories /\ scripts \in [Collections -> {0, 1}]
      /\ mem.marked \subseteq {mem.q.files[k].id : k \in DOMAIN mem.q.files}
      /\ \A u \in mem.handing : added[NzbOfUrl(u)] = 0
  BY MemFacts DEF IInv, MemoryOK
<1>3. /\ mem.q.post[1] \in Jobs /\ mem.loaded /\ scripts[n] = 0 /\ ~mem.q.post[1].check
      /\ First(mem.q) = mem.q.post[1]
  BY <1>1, FirstFacts
<1>4. job \in Jobs /\ job.nzb = n /\ job.stage = "script" /\ ~job.check /\ n \in Collections
  BY <1>3 DEF Jobs, Stages
<1> HIDE DEF job
<1>5. scripts' \in [Collections -> {0, 1}] /\ \A o \in Collections : o # n => scripts'[o] = scripts[o]
  <2>1. CASE up'
    <3>1. scripts' = [scripts EXCEPT ![n] = IF scripts[n] < 2 THEN scripts[n] + 1 ELSE scripts[n]]
      BY <2>1, <1>1, <1>3 DEF ScriptStarted
    <3>2. scripts' = [scripts EXCEPT ![n] = 1]
      BY <3>1, <1>3
    <3> HIDE DEF n
    <3> QED BY <3>2, <1>2
  <2>2. CASE ~up'
    BY <2>2, <1>1, <1>2
  <2> QED BY <2>1, <2>2
<1>6. /\ q \in Lists /\ q.post # <<>> /\ EntriesOf(q) = EntriesOf(mem.q) /\ q.files = mem.q.files
      /\ QueueOK(q, disk.contents, added, scripts', mem.handing, reused)
  BY <1>1, <1>4, <1>5, WithFirstOK
<1>7. /\ m \in Memories /\ m.parsed = mem.parsed /\ m.idGen = mem.idGen
      /\ m.loaded = mem.loaded /\ m.marked = mem.marked /\ m.handing = mem.handing
  BY <1>2 DEF Memories
<1>8. ~up' => \A o \in Collections : scripts'[o] = 0 \/ scripts'[o] = scripts[o]
  BY <1>1
<1>9. up /\ ChangeAndSave(m, q) /\ added' = added /\ reused' = reused
  BY <1>1
<1> HIDE DEF m, q, n
<1>10. /\ q \in Lists /\ m \in Memories
       /\ scripts' \in [Collections -> {0, 1}]
       /\ QueueOK(q, disk.contents, added, scripts', m.handing, reused)
       /\ EntriesOf(q) \subseteq EntriesOf(mem.q) /\ mem.handing \subseteq m.handing
       /\ m.marked \subseteq {q.files[i].id : i \in DOMAIN q.files}
       /\ \A u \in m.handing : added[NzbOfUrl(u)] = 0
       /\ q.post # <<>>
  BY <1>2, <1>5, <1>6, <1>7
<1>11. mem.loaded /\ m.loaded = mem.loaded /\ m.parsed = mem.parsed /\ m.idGen = mem.idGen
  BY <1>3, <1>7
<1> QED BY <1>8, <1>9, <1>10, <1>11, SaveStep

\* Two entries of a queue have different ids.
LEMMA OwnIds ==
    ASSUME NEW s, DistinctIds(s)
    PROVE  \A e, f \in ToSet(s) : e.id = f.id => e = f
<1> SUFFICES ASSUME NEW e \in ToSet(s), NEW f \in ToSet(s), e.id = f.id PROVE e = f
  OBVIOUS
<1>1. PICK i \in DOMAIN s : e = s[i]
  BY DEF ToSet
<1>2. PICK j \in DOMAIN s : f = s[j]
  BY DEF ToSet
<1> QED BY <1>1, <1>2 DEF DistinctIds

\* Files of lists that are apart have different ids.
LEMMA ApartIds ==
    ASSUME NEW s, NEW t, Apart(s, t)
    PROVE  \A e \in ToSet(s), f \in ToSet(t) : e.id # f.id
<1> SUFFICES ASSUME NEW e \in ToSet(s), NEW f \in ToSet(t) PROVE e.id # f.id
  OBVIOUS
<1>1. PICK i \in DOMAIN s : e = s[i]
  BY DEF ToSet
<1>2. PICK j \in DOMAIN t : f = t[j]
  BY DEF ToSet
<1> QED BY <1>1, <1>2 DEF Apart

\* The ids of a list are those of its items.
LEMMA IdsOfSet == ASSUME NEW s PROVE IdsOf(s) = {e.id : e \in ToSet(s)}
<1>1. \A i \in DOMAIN s : s[i] \in ToSet(s)
  BY DEF ToSet
<1>2. \A e \in ToSet(s) : \E i \in DOMAIN s : e = s[i]
  BY DEF ToSet
<1> QED BY <1>1, <1>2 DEF IdsOf

\* MarkFile keeps the invariant.
LEMMA MarkFileOK ==
    ASSUME IInv, NEW i \in DOMAIN mem.q.files, NEW save \in BOOLEAN, MarkFile(i, save)
    PROVE  IInv'
<1> DEFINE id == mem.q.files[i].id
           m == [mem EXCEPT !.marked = @ \union {id}]
<1>1. /\ mem \in Memories /\ mem.q \in Lists /\ mem.q.files \in Seq(Entries)
      /\ QueueOK(mem.q, disk.contents, added, scripts, mem.handing, reused)
      /\ ~mem.loaded => mem.q = EmptyLists /\ mem.handing = {}
      /\ \A u \in mem.handing : added[NzbOfUrl(u)] = 0
  BY MemFacts
<1>2. mem.loaded
  BY <1>1 DEF EmptyLists
<1>3. id \in Ids
  <2>1. mem.q.files[i] \in Entries
    BY <1>1, LenProperties, ElementOfSeq
  <2> QED BY <2>1 DEF Entries
<1>4. JobsOK(mem.q.post, scripts) /\ scripts \in [Collections -> {0, 1}]
      /\ mem.marked \subseteq {mem.q.files[k].id : k \in DOMAIN mem.q.files}
      /\ (mem.working => mem.q.post # <<>>) /\ ToSet(mem.q.nzbs) = Referenced(mem.q)
  BY DEF QueueOK, IInv, MemoryOK
<1>5. mem.marked \union {id} \subseteq {mem.q.files[k].id : k \in DOMAIN mem.q.files}
  BY <1>4
<1>6. /\ m \in Memories /\ m.q = mem.q /\ m.parsed = mem.parsed
      /\ m.loaded = mem.loaded /\ m.reload = mem.reload /\ m.idGen = mem.idGen
      /\ m.handing = mem.handing /\ m.marked = mem.marked \union {id} /\ m.working = mem.working
  BY <1>1, <1>3 DEF Memories
<1>7. UNCHANGED <<added, scripts, reused>>
  BY DEF MarkFile
<1>8. CASE save
  <2> DEFINE q == mem.q
             w == <<Save(q, mem.marked \union {id})>>
  <2>1. Handle(m, w) /\ up
    BY <1>8 DEF MarkFile
  <2>2. Saving(w) /\ w[Len(w)].queue = SaveDownloadQueue(q, mem.marked \union {id})
        /\ SavedQueues(w) = {SaveDownloadQueue(q, mem.marked \union {id})}
        /\ Discarded(w, Len(w)) = {}
    BY OnlySave
  <2>3. ReleaseAll(q) = q
    <3>1. Only(q.nzbs, Referenced(q)) = q.nzbs
      <4>1. q.nzbs \in Seq(Collections) /\ ToSet(q.nzbs) \subseteq Referenced(q)
        BY <1>4, MemFacts
      <4> QED BY <4>1, OnlyFacts
    <3> QED BY <3>1, <1>1 DEF ReleaseAll, Lists
  <2>4. Discarded(w, Len(w)) \subseteq {e.id : e \in EntriesOf(mem.q)}
        /\ \A e \in EntriesOf(q) : e.id \notin Discarded(w, Len(w))
    BY <2>2
  <2> DEFINE mk == mem.marked \union {id}
  <2>5. w[Len(w)].queue = SaveDownloadQueue(ReleaseAll(q), mk)
        /\ SavedQueues(w) = {SaveDownloadQueue(ReleaseAll(q), mk)} /\ m.q = ReleaseAll(q)
    BY <2>2, <2>3, <1>6
  <2> HIDE DEF w, m, mk, id
  <2>6. /\ m.marked \subseteq {q.files[k].id : k \in DOMAIN q.files}
        /\ mem.handing \subseteq m.handing /\ (\A u \in m.handing : added[NzbOfUrl(u)] = 0)
        /\ QueueOK(q, disk.contents, added, scripts', m.handing, reused)
    BY <1>1, <1>2, <1>5, <1>6, <1>7
  <2>7. /\ EntriesOf(q) \subseteq EntriesOf(mem.q) /\ scripts' \in [Collections -> {0, 1}]
        /\ \A n \in Collections : scripts'[n] = 0 \/ scripts'[n] = scripts[n]
    BY <1>4, <1>7
  <2>8. m.working => q.post # <<>>
    BY <1>4, <1>6
  <2>9. /\ q \in Lists /\ m \in Memories /\ m.parsed = mem.parsed /\ m.idGen = mem.idGen
        /\ m.loaded = mem.loaded /\ mem.loaded /\ added' = added /\ reused' = reused
    BY <1>1, <1>2, <1>6, <1>7
  <2> QED BY <2>1, <2>2, <2>4, <2>5, <2>6, <2>7, <2>8, <2>9, ChangeStep
<1>9. CASE ~save
  <2>1. Handle(m, <<>>)
    BY <1>9 DEF MarkFile
  <2>2. mem' = m /\ disk' = disk /\ up' = up /\ crashes' = crashes
    BY <2>1, HandleNothing
  <2> HIDE DEF m, id
  <2> QED BY <1>2, <1>4, <1>5, <1>6, <1>7, <2>2, QuietChange
<1> QED BY <1>8, <1>9

\* The history without one item.
LEMMA RemoveHistoryOK ==
    ASSUME NEW q \in Lists, NEW k \in DOMAIN q.history
    PROVE  LET p == RemoveHistory(q, k)
           IN  /\ p \in Lists /\ PartOf(p.history, q.history) /\ p.history = RemoveAt(q.history, k)
               /\ p.nzbs = q.nzbs /\ p.files = q.files /\ p.post = q.post
               /\ p.urls = q.urls /\ p.parked = q.parked
<1> DEFINE history == RemoveAt(q.history, k)
<1>1. q.history \in Seq(HistoryItems)
  BY DEF Lists
<1>2. history \in Seq(HistoryItems) /\ PartOf(history, q.history)
  BY <1>1, RemoveAtFacts
<1>3. RemoveHistory(q, k) = [q EXCEPT !.history = history]
  BY DEF RemoveHistory
<1> HIDE DEF history
<1> QED BY <1>2, <1>3 DEF Lists, history

\* CheckHistory keeps the invariant.
LEMMA CheckHistoryOK == ASSUME IInv, CheckHistory PROVE IInv'
<1> DEFINE k == Len(mem.q.history)
           q == RemoveHistory(mem.q, k)
<1>1. up /\ mem.q.history # <<>> /\ ChangeAndSave(mem, q) /\ UNCHANGED <<added, scripts, reused>>
  BY DEF CheckHistory
<1>2. /\ mem \in Memories /\ mem.q \in Lists /\ mem.q.history \in Seq(HistoryItems)
      /\ QueueOK(mem.q, disk.contents, added, scripts, mem.handing, reused)
      /\ ~mem.loaded => mem.q = EmptyLists /\ mem.handing = {}
      /\ \A u \in mem.handing : added[NzbOfUrl(u)] = 0 /\ Shrunk(disk.contents, disk.contents)
  BY MemFacts
<1>3. mem.loaded
  BY <1>1, <1>2 DEF EmptyLists
<1>4. k \in DOMAIN mem.q.history
  BY <1>1, <1>2, LenProperties, EmptySeq
<1>5. /\ q \in Lists /\ PartOf(q.history, mem.q.history)
      /\ q.nzbs = mem.q.nzbs /\ q.files = mem.q.files /\ q.post = mem.q.post
      /\ q.urls = mem.q.urls /\ q.parked = mem.q.parked
  BY <1>2, <1>4, RemoveHistoryOK
<1> HIDE DEF q
<1>6. SmallerQueue(q, mem.q)
  BY <1>5, PartOfItself DEF SmallerQueue, IdPartOf
<1>7. QueueOK(q, disk.contents, added, scripts, mem.handing, reused)
  <2>1. Shrunk(disk.contents, disk.contents)
    BY DEF Shrunk
  <2> QED BY <1>2, <1>5, <1>6, <2>1, SmallerOK
<1>8. mem.marked \subseteq {q.files[i].id : i \in DOMAIN q.files}
      /\ (mem.working => q.post # <<>>) /\ scripts \in [Collections -> {0, 1}]
  BY <1>5 DEF IInv, MemoryOK
<1>9. EntriesOf(q) \subseteq EntriesOf(mem.q)
  BY <1>5 DEF EntriesOf
<1> QED BY <1>1, <1>2, <1>3, <1>5, <1>7, <1>8, <1>9, SaveStep

\* A handler that discards entries that are gone, and saves.
LEMMA DiscardStep ==
    ASSUME IInv, up, NEW q \in Lists, NEW m \in Memories, m.q = ReleaseAll(q),
           m.parsed = mem.parsed, m.idGen = mem.idGen, m.loaded = mem.loaded, mem.loaded,
           NEW entries \in Seq(Entries), NEW mk,
           Handle(m, Discards(entries) \o <<Save(ReleaseAll(q), mk)>>),
           added' = added, reused' = reused, scripts' = scripts,
           QueueOK(q, disk.contents, added, scripts, m.handing, reused),
           ToSet(entries) \subseteq EntriesOf(mem.q), EntriesOf(q) \subseteq EntriesOf(mem.q),
           \A e \in EntriesOf(q), f \in ToSet(entries) : e.id # f.id,
           m.marked \subseteq {q.files[i].id : i \in DOMAIN q.files},
           m.handing = mem.handing, m.working => q.post # <<>>
    PROVE  IInv'
<1> DEFINE w == Discards(entries) \o <<Save(ReleaseAll(q), mk)>>
<1>1. Saving(w) /\ w[Len(w)].queue = SaveDownloadQueue(ReleaseAll(q), mk)
      /\ SavedQueues(w) = {SaveDownloadQueue(ReleaseAll(q), mk)}
      /\ Discarded(w, Len(w)) = IdsOf(entries)
  BY DiscardsThenSave
<1>2. Handle(m, w)
  OBVIOUS
<1> HIDE DEF w
<1>3. Discarded(w, Len(w)) = {e.id : e \in ToSet(entries)}
  BY <1>1, IdsOfSet
<1>4. Discarded(w, Len(w)) \subseteq {e.id : e \in EntriesOf(mem.q)}
      /\ \A e \in EntriesOf(q) : e.id \notin Discarded(w, Len(w))
  BY <1>3
<1>5. scripts' \in [Collections -> {0, 1}] /\ \A u \in m.handing : added[NzbOfUrl(u)] = 0
  BY MemFacts DEF IInv
<1> QED BY <1>1, <1>2, <1>4, <1>5, ChangeStep

\* HistoryDelete keeps the invariant.
LEMMA HistoryDeleteOK == ASSUME IInv, NEW k \in DOMAIN mem.q.history, HistoryDelete(k) PROVE IInv'
<1> DEFINE h == mem.q.history[k]
           parked == mem.q.parked
           goes == {e \in ToSet(parked) : h.kind = "nzb" /\ e.nzb = h.of}
           r == RemoveHistory(mem.q, k)
           entries == Only(parked, goes)
           rest == Only(parked, ToSet(parked) \ goes)
           q == [r EXCEPT !.parked = Only(r.parked, ToSet(r.parked) \ {e \in ToSet(parked) : h.kind = "nzb" /\ e.nzb = h.of})]
<1>1. /\ mem \in Memories /\ mem.q \in Lists /\ parked \in Seq(Entries)
      /\ QueueOK(mem.q, disk.contents, added, scripts, mem.handing, reused)
      /\ ~mem.loaded => mem.q = EmptyLists /\ mem.handing = {}
      /\ \A u \in mem.handing : added[NzbOfUrl(u)] = 0
  BY MemFacts
<1>2. mem.loaded
  BY <1>1 DEF EmptyLists
<1>3. /\ r \in Lists /\ PartOf(r.history, mem.q.history)
      /\ r.nzbs = mem.q.nzbs /\ r.files = mem.q.files /\ r.post = mem.q.post
      /\ r.urls = mem.q.urls /\ r.parked = parked
  BY <1>1, RemoveHistoryOK
<1>4. up /\ Handle(WithQueue(mem, q), Discards(entries) \o <<Save(ReleaseAll(q), mem.marked)>>)
      /\ UNCHANGED <<added, scripts, reused>>
  BY DEF HistoryDelete
<1> HIDE DEF r
<1>5. q = [r EXCEPT !.parked = rest]
  BY <1>3
<1> HIDE DEF goes, q
<1>6. entries \in Seq(Entries) /\ rest \in Seq(Entries) /\ PartOf(rest, parked)
  BY <1>1, OnlyFacts
<1>7. ToSet(entries) = ToSet(parked) \intersect goes /\ ToSet(rest) = ToSet(parked) \ goes
  <2>1. ToSet(entries) = ToSet(parked) \intersect goes
    BY <1>1, OnlyFacts
  <2>2. ToSet(rest) = ToSet(parked) \intersect (ToSet(parked) \ goes)
    BY <1>1, OnlyFacts
  <2> QED BY <2>1, <2>2
<1> HIDE DEF entries, rest
<1>8. /\ q \in Lists /\ q.nzbs = mem.q.nzbs /\ q.files = mem.q.files /\ q.post = mem.q.post
      /\ q.urls = mem.q.urls /\ q.history = r.history /\ q.parked = rest
  BY <1>3, <1>5, <1>6 DEF Lists
<1>9. SmallerQueue(q, mem.q)
  BY <1>3, <1>6, <1>8, PartOfItself, PartIsIdPart DEF SmallerQueue
<1>10. Shrunk(disk.contents, disk.contents)
  BY DEF Shrunk
<1>11. QueueOK(q, disk.contents, added, scripts, mem.handing, reused)
  BY <1>1, <1>8, <1>9, <1>10, SmallerOK
<1>12. ToSet(entries) \subseteq EntriesOf(mem.q) /\ EntriesOf(q) \subseteq EntriesOf(mem.q)
  BY <1>7, <1>8 DEF EntriesOf
<1>13. \A e \in EntriesOf(q), f \in ToSet(entries) : e.id # f.id
  <2>1. DistinctIds(parked) /\ Apart(mem.q.files, parked)
    BY <1>1 DEF QueueOK, Own
  <2>2. \A e, f \in ToSet(parked) : e.id = f.id => e = f
    BY <2>1, OwnIds
  <2>3. \A e \in ToSet(mem.q.files), f \in ToSet(parked) : e.id # f.id
    BY <2>1, ApartIds
  <2> QED BY <2>2, <2>3, <1>7, <1>8 DEF EntriesOf
<1> DEFINE m == WithQueue(mem, q)
<1>14. ReleaseAll(q) \in Lists
  <2>1. Referenced(q) \subseteq ToSet(q.nzbs)
    BY <1>11 DEF QueueOK, Listed
  <2> QED BY <2>1, <1>8, ReleaseOK
<1>15. m \in Memories /\ m.q = ReleaseAll(q) /\ m.parsed = mem.parsed /\ m.idGen = mem.idGen
       /\ m.loaded = mem.loaded /\ m.marked = mem.marked /\ m.handing = mem.handing
       /\ m.working = mem.working
  BY <1>1, <1>14 DEF WithQueue, Memories
<1>16. mem.marked \subseteq {q.files[i].id : i \in DOMAIN q.files} /\ (mem.working => q.post # <<>>)
  BY <1>8 DEF IInv, MemoryOK
<1>17. Handle(m, Discards(entries) \o <<Save(ReleaseAll(q), mem.marked)>>)
  BY <1>4
<1> HIDE DEF m
<1> QED BY <1>2, <1>4, <1>6, <1>8, <1>11, <1>12, <1>13, <1>15, <1>16, <1>17, DiscardStep

\* Referenced, by the items that refer.
LEMMA ReferencedIn ==
    ASSUME NEW q, NEW N
    PROVE  Referenced(q) \subseteq N <=>
               /\ \A e \in EntriesOf(q) : e.nzb \in N
               /\ \A i \in DOMAIN q.post : q.post[i].nzb \in N
               /\ \A i \in DOMAIN q.history : q.history[i].kind = "nzb" => q.history[i].of \in N
<1>1. (\A e \in EntriesOf(q) : e.nzb \in N) <=>
          /\ \A i \in DOMAIN q.files : q.files[i].nzb \in N
          /\ \A i \in DOMAIN q.parked : q.parked[i].nzb \in N
  BY DEF EntriesOf, ToSet
<1> QED BY <1>1 DEF Referenced

\* Some entries of one list are moved to the other.
MovesWell(from, to, c, r, S) ==
    LET moved == Only(from, S)
        rest == Only(from, ToSet(from) \ S)
    IN  /\ rest \in Seq(Entries) /\ moved \o to \in Seq(Entries) /\ to \o moved \in Seq(Entries)
        /\ Own(rest, c, r) /\ Own(moved \o to, c, r) /\ Own(to \o moved, c, r)
        /\ Apart(moved \o to, rest) /\ Apart(rest, to \o moved)
        /\ ToSet(rest) = ToSet(from) \ S
        /\ ToSet(moved \o to) = (ToSet(from) \intersect S) \union ToSet(to)
        /\ ToSet(to \o moved) = (ToSet(from) \intersect S) \union ToSet(to)

\* Files can be moved to the other list, to either end.
LEMMA MovedOK ==
    ASSUME NEW from \in Seq(Entries), NEW to \in Seq(Entries), NEW c, NEW r,
           Own(from, c, r), Own(to, c, r), Apart(from, to), NEW S
    PROVE  MovesWell(from, to, c, r, S)
<1> DEFINE moved == Only(from, S)
           rest == Only(from, ToSet(from) \ S)
<1>1. /\ moved \in Seq(Entries) /\ PartOf(moved, from)
      /\ rest \in Seq(Entries) /\ PartOf(rest, from)
  BY OnlyFacts
<1>2. ToSet(moved) = ToSet(from) \intersect S
  BY OnlyFacts
<1>3. ToSet(rest) = ToSet(from) \ S
  <2>1. ToSet(rest) = ToSet(from) \intersect (ToSet(from) \ S)
    BY OnlyFacts
  <2> QED BY <2>1
<1>4. Apart(moved, rest) /\ Apart(rest, moved)
  <2>1. DistinctIds(from) /\ S \intersect (ToSet(from) \ S) = {}
    BY DEF Own
  <2>2. Apart(moved, rest)
    BY <2>1, ApartOnly
  <2> QED BY <2>2 DEF Apart
<1> HIDE DEF moved, rest
<1>5. IdPartOf(moved, from) /\ IdPartOf(rest, from) /\ IdPartOf(to, to)
  BY <1>1, PartIsIdPart, PartOfItself
<1>6. Shrunk(c, c)
  BY DEF Shrunk
<1>7. Own(moved, c, r) /\ Own(rest, c, r)
  BY <1>5, <1>6, OwnPart
<1>8. Apart(moved, to) /\ Apart(to, moved) /\ Apart(rest, to) /\ Apart(to, rest)
  BY <1>5, ApartPart
<1>9. Own(moved \o to, c, r) /\ Own(to \o moved, c, r)
  BY <1>1, <1>7, <1>8, OwnConcat
<1>10. Apart(moved \o to, rest) /\ Apart(rest, to \o moved)
  BY <1>1, <1>4, <1>8, ApartConcat
<1>11. /\ moved \o to \in Seq(Entries) /\ to \o moved \in Seq(Entries)
       /\ ToSet(moved \o to) = ToSet(moved) \union ToSet(to)
       /\ ToSet(to \o moved) = ToSet(to) \union ToSet(moved)
  BY <1>1, ConcatFacts
<1> QED BY <1>1, <1>2, <1>3, <1>7, <1>9, <1>10, <1>11 DEF moved, rest, MovesWell

\* What is left when an item is removed is other items.
LEMMA RemovedIsGone ==
    ASSUME NEW T, NEW s \in Seq(T), NEW n \in DOMAIN s
    PROVE  \A i \in DOMAIN RemoveAt(s, n) : \E j \in DOMAIN s : j # n /\ RemoveAt(s, n)[i] = s[j]
<1> SUFFICES ASSUME NEW i \in DOMAIN RemoveAt(s, n)
             PROVE  \E j \in DOMAIN s : j # n /\ RemoveAt(s, n)[i] = s[j]
  OBVIOUS
<1>1. /\ Len(RemoveAt(s, n)) = Len(s) - 1 /\ RemoveAt(s, n) \in Seq(T)
      /\ \A k \in 1..(Len(s) - 1) : RemoveAt(s, n)[k] = s[IF k < n THEN k ELSE k + 1]
  BY RemoveAtFacts
<1>2. i \in 1..(Len(s) - 1) /\ n \in 1..Len(s) /\ Len(s) \in Nat /\ DOMAIN s = 1..Len(s)
  BY <1>1, LenProperties
<1> DEFINE j == IF i < n THEN i ELSE i + 1
<1>3. j \in 1..Len(s) /\ j # n
  BY <1>2
<1> QED BY <1>1, <1>2, <1>3

\* One more url waits, which nothing else knows.
WithUrl(q, u) == [q EXCEPT !.urls = Append(q.urls, [url |-> u, status |-> "undefined"])]

UrlAdded(p, q, c, a, s, h, r) ==
    /\ p \in Lists /\ p.nzbs = q.nzbs /\ p.files = q.files /\ p.post = q.post
    /\ p.history = q.history /\ p.parked = q.parked /\ QueueOK(p, c, a, s, h, r)

\* A url that is nowhere can be appended.
LEMMA WithUrlOK ==
    ASSUME NEW q \in Lists, NEW u \in Urls, NEW c, NEW a, NEW s, NEW h, NEW r,
           QueueOK(q, c, a, s, h, r), UrlFree(u, a, h),
           \A i \in DOMAIN q.urls : q.urls[i].url # u,
           \A i \in DOMAIN q.history : q.history[i].of # u
    PROVE  UrlAdded(WithUrl(q, u), q, c, a, s, h, r)
<1> DEFINE item == [url |-> u, status |-> "undefined"]
           urls == Append(q.urls, item)
           p == [q EXCEPT !.urls = urls]
<1>1. item \in UrlItems /\ item.url = u /\ q.urls \in Seq(UrlItems)
  BY DEF UrlItems, Lists
<1> HIDE DEF item
<1>2. /\ urls \in Seq(UrlItems) /\ DOMAIN urls = DOMAIN q.urls \union {Len(q.urls) + 1}
      /\ \A i \in DOMAIN q.urls : urls[i] = q.urls[i]
      /\ urls[Len(q.urls) + 1] = item /\ Len(q.urls) + 1 \notin DOMAIN q.urls
  BY <1>1
<1> HIDE DEF urls
<1>3. /\ p \in Lists /\ p.nzbs = q.nzbs /\ p.files = q.files /\ p.post = q.post
      /\ p.urls = urls /\ p.history = q.history /\ p.parked = q.parked
  BY <1>2 DEF Lists
<1>4. WithUrl(q, u) = p
  BY DEF WithUrl, urls, item
<1> HIDE DEF p
<1>5. UrlOnce(q) /\ UrlsFree(q, a, h)
  BY DEF QueueOK
<1>6. UrlOnce(p)
  BY <1>1, <1>2, <1>3, <1>5 DEF UrlOnce
<1>7. UrlsFree(p, a, h)
  BY <1>1, <1>2, <1>3, <1>5 DEF UrlsFree
<1>8. Listed(p, a)
  <2>1. Referenced(p) = Referenced(q)
    BY <1>3, SameReferenced
  <2> QED BY <1>3, <2>1 DEF QueueOK, Listed
<1>9. QueueOK(p, c, a, s, h, r)
  BY <1>3, <1>6, <1>7, <1>8 DEF QueueOK
<1> QED BY <1>3, <1>4, <1>9 DEF UrlAdded

\* HistoryReturn keeps the invariant.
LEMMA HistoryReturnOK == ASSUME IInv, NEW k \in DOMAIN mem.q.history, HistoryReturn(k) PROVE IInv'
<1> DEFINE h == mem.q.history[k]
           r == RemoveHistory(mem.q, k)
<1>1. /\ mem \in Memories /\ mem.q \in Lists /\ mem.q.history \in Seq(HistoryItems)
      /\ mem.q.files \in Seq(Entries) /\ mem.q.parked \in Seq(Entries)
      /\ mem.q.urls \in Seq(UrlItems)
      /\ QueueOK(mem.q, disk.contents, added, scripts, mem.handing, reused)
      /\ ~mem.loaded => mem.q = EmptyLists /\ mem.handing = {}
      /\ \A u \in mem.handing : added[NzbOfUrl(u)] = 0
  BY MemFacts
<1>2. mem.loaded
  BY <1>1 DEF EmptyLists
<1>3. /\ r \in Lists /\ PartOf(r.history, mem.q.history) /\ r.history = RemoveAt(mem.q.history, k)
      /\ r.nzbs = mem.q.nzbs /\ r.files = mem.q.files /\ r.post = mem.q.post
      /\ r.urls = mem.q.urls /\ r.parked = mem.q.parked
  BY <1>1, RemoveHistoryOK
<1>4. SmallerQueue(r, mem.q)
  BY <1>3, PartOfItself DEF SmallerQueue, IdPartOf
<1>5. QueueOK(r, disk.contents, added, scripts, mem.handing, reused)
  <2>1. Shrunk(disk.contents, disk.contents)
    BY DEF Shrunk
  <2> QED BY <1>1, <1>3, <1>4, <2>1, SmallerOK
<1>6. up /\ UNCHANGED <<added, scripts, reused>> /\ scripts' \in [Collections -> {0, 1}]
      /\ mem.marked \subseteq IdsOf(mem.q.files) /\ (mem.working => mem.q.post # <<>>)
  BY DEF HistoryReturn, IInv, MemoryOK, IdsOf
<1>7. CASE h.kind = "nzb" /\ \E S : ChangeAndSave(mem, [r EXCEPT !.parked = Only(r.parked, ToSet(r.parked) \ S),
                                                 !.files = Only(mem.q.parked, S) \o r.files])
  <2>1. PICK S : ChangeAndSave(mem, [r EXCEPT !.parked = Only(r.parked, ToSet(r.parked) \ S),
                                              !.files = Only(mem.q.parked, S) \o r.files])
    BY <1>7
  <2> DEFINE files == Only(mem.q.parked, S) \o mem.q.files
             parked == Only(mem.q.parked, ToSet(mem.q.parked) \ S)
             q == [r EXCEPT !.parked = parked, !.files = files]
  <2> HIDE DEF h, r
  <2>2. ChangeAndSave(mem, q)
    BY <2>1, <1>3
  <2>3. Own(mem.q.files, disk.contents, reused) /\ Own(mem.q.parked, disk.contents, reused)
        /\ Apart(mem.q.parked, mem.q.files)
    BY <1>1 DEF QueueOK, Apart
  <2>4. /\ files \in Seq(Entries) /\ parked \in Seq(Entries)
        /\ Own(files, disk.contents, reused) /\ Own(parked, disk.contents, reused)
        /\ Apart(files, parked)
        /\ ToSet(parked) = ToSet(mem.q.parked) \ S
        /\ ToSet(files) = (ToSet(mem.q.parked) \intersect S) \union ToSet(mem.q.files)
    <3>1. mem.q.files \in Seq(Entries) /\ mem.q.parked \in Seq(Entries)
      BY <1>1
    <3>2. MovesWell(mem.q.parked, mem.q.files, disk.contents, reused, S)
      BY <3>1, <2>3, MovedOK
    <3> QED BY <3>2 DEF MovesWell
  <2> HIDE DEF files, parked
  <2>5. /\ q \in Lists /\ q.nzbs = r.nzbs /\ q.files = files /\ q.post = r.post
        /\ q.urls = r.urls /\ q.history = r.history /\ q.parked = parked
    BY <1>3, <2>4 DEF Lists
  <2> HIDE DEF q
  <2>6. EntriesOf(q) = EntriesOf(r) /\ EntriesOf(r) = EntriesOf(mem.q)
    BY <1>3, <2>4, <2>5 DEF EntriesOf
  <2>7. Referenced(r) \subseteq ToSet(r.nzbs)
    BY <1>5 DEF QueueOK, Listed
  <2>8. Referenced(q) \subseteq ToSet(q.nzbs)
    <3>1. /\ \A e \in EntriesOf(r) : e.nzb \in ToSet(r.nzbs)
          /\ \A i \in DOMAIN r.post : r.post[i].nzb \in ToSet(r.nzbs)
          /\ \A i \in DOMAIN r.history :
                 r.history[i].kind = "nzb" => r.history[i].of \in ToSet(r.nzbs)
      BY <2>7, ReferencedIn
    <3>2. /\ \A e \in EntriesOf(q) : e.nzb \in ToSet(q.nzbs)
          /\ \A i \in DOMAIN q.post : q.post[i].nzb \in ToSet(q.nzbs)
          /\ \A i \in DOMAIN q.history :
                 q.history[i].kind = "nzb" => q.history[i].of \in ToSet(q.nzbs)
      BY <2>5, <2>6, <3>1
    <3> QED BY <3>2, ReferencedIn
  <2>9. QueueOK(q, disk.contents, added, scripts, mem.handing, reused)
    <3>1. Listed(q, added)
      BY <1>5, <2>5, <2>8 DEF QueueOK, Listed
    <3>2. UrlOnce(q) /\ UrlsFree(q, added, mem.handing) /\ JobsOK(q.post, scripts)
      BY <1>5, <2>5 DEF QueueOK, UrlOnce, UrlsFree
    <3> QED BY <2>4, <2>5, <3>1, <3>2 DEF QueueOK
  <2>10. mem.marked \subseteq {q.files[i].id : i \in DOMAIN q.files}
         /\ (mem.working => q.post # <<>>)
    <3>1. IdsOf(mem.q.files) \subseteq IdsOf(q.files)
      BY <2>4, <2>5, IdsOfSet
    <3> QED BY <1>3, <1>6, <2>5, <3>1 DEF IdsOf
  <2> QED BY <1>1, <1>2, <1>6, <2>2, <2>5, <2>6, <2>9, <2>10, SaveStep
<1>8. CASE h.kind = "url" /\ ChangeAndSave(mem, WithUrl(r, h.of))
  <2> DEFINE q == WithUrl(r, h.of)
  <2>1. h \in HistoryItems
    BY <1>1, LenProperties, ElementOfSeq
  <2>2. h.of \in Urls
    BY <1>8, <2>1 DEF HistoryItems
  <2>3. \A i \in DOMAIN r.history : r.history[i].of # h.of
    <3>1. UrlOnce(mem.q)
      BY <1>1 DEF QueueOK
    <3>2. \A i \in DOMAIN r.history : \E j \in DOMAIN mem.q.history :
              j # k /\ r.history[i] = mem.q.history[j]
      BY <1>1, <1>3, RemovedIsGone
    <3> HIDE DEF r
    <3> QED BY <2>2, <3>1, <3>2 DEF UrlOnce
  <2>4. UrlFree(h.of, added, mem.handing) /\ \A i \in DOMAIN mem.q.urls : mem.q.urls[i].url # h.of
    BY <1>1, <2>2 DEF QueueOK, UrlsFree, UrlOnce
  <2> HIDE DEF h, r
  <2>5. UrlAdded(q, r, disk.contents, added, scripts, mem.handing, reused)
    BY <1>3, <1>5, <2>2, <2>3, <2>4, WithUrlOK
  <2>6. /\ q \in Lists /\ q.files = mem.q.files /\ q.parked = mem.q.parked /\ q.post = mem.q.post
        /\ QueueOK(q, disk.contents, added, scripts, mem.handing, reused)
    BY <1>3, <2>5 DEF UrlAdded
  <2>7. ChangeAndSave(mem, q)
    BY <1>8
  <2> HIDE DEF q
  <2>8. EntriesOf(q) \subseteq EntriesOf(mem.q)
        /\ mem.marked \subseteq {q.files[i].id : i \in DOMAIN q.files}
        /\ (mem.working => q.post # <<>>)
    BY <1>6, <2>6 DEF EntriesOf, IdsOf
  <2> QED BY <1>1, <1>2, <1>6, <2>6, <2>7, <2>8, SaveStep
<1>9. \/ h.kind = "nzb" /\ \E S : ChangeAndSave(mem, [r EXCEPT !.parked = Only(r.parked, ToSet(r.parked) \ S),
                                                 !.files = Only(mem.q.parked, S) \o r.files])
      \/ h.kind = "url" /\ ChangeAndSave(mem, WithUrl(r, h.of))
  BY DEF HistoryReturn, WithUrl
<1> QED BY <1>7, <1>8, <1>9

\* AddUrlToQueue keeps the invariant.
LEMMA AddUrlToQueueOK == ASSUME IInv, NEW u \in Urls, AddUrlToQueue(u) PROVE IInv'
<1> DEFINE q == WithUrl(mem.q, u)
<1>1. /\ mem \in Memories /\ mem.q \in Lists
      /\ QueueOK(mem.q, disk.contents, added, scripts, mem.handing, reused)
      /\ \A v \in mem.handing : added[NzbOfUrl(v)] = 0
  BY MemFacts
<1>2. up /\ mem.loaded /\ u \notin KnownUrls /\ added[NzbOfUrl(u)] = 0
      /\ ChangeAndSave(mem, q) /\ UNCHANGED <<added, scripts, reused>>
  BY DEF AddUrlToQueue, WithUrl
<1>3. /\ \A i \in DOMAIN mem.q.urls : mem.q.urls[i].url # u
      /\ \A i \in DOMAIN mem.q.history : mem.q.history[i].of # u
      /\ UrlFree(u, added, mem.handing)
  BY <1>2 DEF KnownUrls, UrlFree
<1>4. UrlAdded(q, mem.q, disk.contents, added, scripts, mem.handing, reused)
  BY <1>1, <1>3, WithUrlOK
<1>5. /\ q \in Lists /\ q.files = mem.q.files /\ q.parked = mem.q.parked /\ q.post = mem.q.post
      /\ QueueOK(q, disk.contents, added, scripts, mem.handing, reused)
  BY <1>4 DEF UrlAdded
<1> HIDE DEF q
<1>6. EntriesOf(q) \subseteq EntriesOf(mem.q) /\ scripts' \in [Collections -> {0, 1}]
      /\ mem.marked \subseteq {q.files[i].id : i \in DOMAIN q.files}
      /\ (mem.working => q.post # <<>>)
  BY <1>2, <1>5 DEF EntriesOf, IInv, MemoryOK
<1> QED BY <1>1, <1>2, <1>5, <1>6, SaveStep

\* The collection of a url, and the url of a collection.
LEMMA UrlAndNzb ==
    /\ \A u \in Urls : NzbOfUrl(u) \in Collections /\ UrlOf[NzbOfUrl(u)] = u
    /\ \A n \in Collections : UrlOf[n] # NoUrl => UrlOf[n] \in Urls /\ NzbOfUrl(UrlOf[n]) = n
<1>1. ASSUME NEW u \in Urls PROVE NzbOfUrl(u) \in Collections /\ UrlOf[NzbOfUrl(u)] = u
  BY PersistentAssumption DEF NzbOfUrl
<1>2. ASSUME NEW n \in Collections, UrlOf[n] # NoUrl
      PROVE  UrlOf[n] \in Urls /\ NzbOfUrl(UrlOf[n]) = n
  <2>1. UrlOf[n] \in Urls
    BY <1>2, PersistentAssumption
  <2>2. NzbOfUrl(UrlOf[n]) \in Collections /\ UrlOf[NzbOfUrl(UrlOf[n])] = UrlOf[n]
    BY <1>1, <2>1
  <2> QED BY <1>2, <2>1, <2>2, PersistentAssumption
<1> QED BY <1>1, <1>2

\* ParseFailed keeps the invariant.
LEMMA ParseFailedOK == ASSUME IInv, NEW u \in Urls, ParseFailed(u) PROVE IInv'
<1>1. /\ mem \in Memories /\ mem.q \in Lists
      /\ QueueOK(mem.q, disk.contents, added, scripts, mem.handing, reused)
      /\ SmallerQueue(mem.q, mem.q) /\ Shrunk(disk.contents, disk.contents)
  BY MemFacts
<1>2. mem' = [mem EXCEPT !.handing = @ \ {u}] /\ mem.parsed[NzbOfUrl(u)] = <<>>
      /\ UNCHANGED <<up, disk, crashes, added, scripts, reused>>
  BY DEF ParseFailed
<1>3. /\ mem' \in Memories /\ mem'.q = mem.q /\ mem'.marked = mem.marked /\ mem'.idGen = mem.idGen
      /\ mem'.reload = mem.reload /\ mem'.loaded = mem.loaded /\ mem'.parsed = mem.parsed
      /\ mem'.working = mem.working /\ mem'.handing = mem.handing \ {u}
  BY <1>1, <1>2 DEF Memories
<1>4. MemoryOK(mem, disk.contents, added, scripts, reused) /\ scripts \in [Collections -> {0, 1}]
  BY DEF IInv
<1>5. QueueOK(mem'.q, disk.contents, added, scripts, mem'.handing, reused)
  <2>1. mem'.handing \subseteq mem.handing
    BY <1>3
  <2>2. QueueOK(mem.q, disk.contents, added, scripts, mem'.handing, reused)
    BY <1>1, <2>1, SmallerOK
  <2> QED BY <1>3, <2>2
<1>6. ASSUME NEW n \in Collections PROVE ParsedOK(mem', n, disk.contents, added)
  <2>1. ParsedOK(mem, n, disk.contents, added)
    BY <1>4 DEF MemoryOK
  <2>2. ASSUME mem.parsed[n] # <<>>, UrlOf[n] # NoUrl PROVE UrlOf[n] \in mem'.handing
    <3>1. UrlOf[n] \in mem.handing
      BY <2>1, <2>2 DEF ParsedOK
    <3>2. NzbOfUrl(UrlOf[n]) = n
      BY <2>2, UrlAndNzb
    <3>3. UrlOf[n] # u
      BY <1>2, <2>2, <3>2
    <3> QED BY <1>3, <3>1, <3>3
  <2> QED BY <1>3, <2>1, <2>2 DEF ParsedOK
<1>7. MemoryOK(mem', disk.contents, added, scripts, reused)
  BY <1>3, <1>4, <1>5, <1>6 DEF MemoryOK
<1> QED BY <1>2, <1>3, <1>4, <1>7, QuietStep

\* UrlCompleted keeps the invariant: the url leaves the saved queue before it is handed over.
LEMMA UrlCompletedOK == ASSUME IInv, NEW i \in DOMAIN mem.q.urls, UrlCompleted(i) PROVE IInv'
<1> DEFINE url == mem.q.urls[i].url
           status == mem.q.urls[i].status
           handing == IF status = "finished" THEN mem.handing \union {url} ELSE mem.handing
           m == [mem EXCEPT !.active = mem.active \ {url}, !.handing = handing]
           urls == RemoveAt(mem.q.urls, i)
           item == [kind |-> "url", of |-> url]
           history == IF status = "failed" THEN <<item>> \o mem.q.history ELSE mem.q.history
           q == [mem.q EXCEPT !.urls = urls, !.history = history]
<1>1. /\ mem \in Memories /\ mem.q \in Lists /\ mem.q.urls \in Seq(UrlItems)
      /\ mem.q.history \in Seq(HistoryItems)
      /\ QueueOK(mem.q, disk.contents, added, scripts, mem.handing, reused)
      /\ ~mem.loaded => mem.q = EmptyLists /\ mem.handing = {}
      /\ \A u \in mem.handing : added[NzbOfUrl(u)] = 0
  BY MemFacts
<1>2. mem.loaded
  BY <1>1 DEF EmptyLists
<1>3. mem.q.urls[i] \in UrlItems
  BY <1>1, LenProperties, ElementOfSeq
<1>4. url \in Urls
  BY <1>3 DEF UrlItems
<1>5. up /\ UNCHANGED <<added, scripts, reused>>
      /\ IF status = "undefined" THEN Handle(m, <<>>) ELSE ChangeAndSave(m, q)
  BY DEF UrlCompleted
<1>6. UrlOnce(mem.q) /\ UrlsFree(mem.q, added, mem.handing)
  BY <1>1 DEF QueueOK
<1>7. UrlFree(url, added, mem.handing) /\ \A j \in DOMAIN mem.q.history : mem.q.history[j].of # url
  BY <1>4, <1>6 DEF UrlsFree, UrlOnce
<1>8. /\ urls \in Seq(UrlItems) /\ PartOf(urls, mem.q.urls)
      /\ \A j \in DOMAIN urls : urls[j].url # url
  <2>1. \A j \in DOMAIN urls : \E k \in DOMAIN mem.q.urls : k # i /\ urls[j] = mem.q.urls[k]
    BY <1>1, RemovedIsGone
  <2>2. urls \in Seq(UrlItems) /\ PartOf(urls, mem.q.urls)
    BY <1>1, RemoveAtFacts
  <2> HIDE DEF urls
  <2> QED BY <1>6, <2>1, <2>2 DEF UrlOnce
<1>9. scripts \in [Collections -> {0, 1}]
      /\ mem.marked \subseteq {mem.q.files[k].id : k \in DOMAIN mem.q.files}
      /\ (mem.working => mem.q.post # <<>>) /\ JobsOK(mem.q.post, scripts)
  BY <1>1 DEF IInv, MemoryOK, QueueOK
<1>10. item \in HistoryItems /\ item.of = url /\ item.kind = "url"
  BY <1>4 DEF HistoryItems
<1> HIDE DEF url, urls, item, status
<1>11. mem.handing \subseteq handing /\ handing \subseteq mem.handing \union {url} /\ handing \subseteq Urls
       /\ \A u \in handing : added[NzbOfUrl(u)] = 0
  BY <1>1, <1>4, <1>7 DEF Memories, UrlFree
<1>12. status = "undefined" => handing = mem.handing
  OBVIOUS
<1>13. /\ history \in Seq(HistoryItems)
       /\ DOMAIN history = 1..Len(history)
       /\ \A j \in DOMAIN history : \/ history[j] = item
                                    \/ \E k \in DOMAIN mem.q.history : history[j] = mem.q.history[k]
       /\ \A j, k \in DOMAIN history : j # k /\ history[j].of \in Urls => history[j].of # history[k].of
       /\ status = "finished" => history = mem.q.history
  <2>1. CASE status = "failed"
    <3>1. <<item>> \in Seq(HistoryItems) /\ Len(<<item>>) = 1 /\ DOMAIN <<item>> = {1} /\ <<item>>[1] = item
      BY <1>10
    <3>2. /\ history = <<item>> \o mem.q.history /\ history \in Seq(HistoryItems)
          /\ \A j \in DOMAIN history :
                 \/ j \in DOMAIN <<item>> /\ history[j] = <<item>>[j]
                 \/ j - Len(<<item>>) \in DOMAIN mem.q.history
                    /\ history[j] = mem.q.history[j - Len(<<item>>)]
      BY <1>1, <2>1, <3>1, ConcatFacts
    <3> HIDE DEF history
    <3>3. \A j \in DOMAIN history :
              \/ j = 1 /\ history[j] = item
              \/ j - 1 \in DOMAIN mem.q.history /\ history[j] = mem.q.history[j - 1]
      BY <3>1, <3>2
    <3>4. DOMAIN history = 1..Len(history)
      BY <3>2, LenProperties
    <3>5. \A j, k \in DOMAIN history : j # k /\ history[j].of \in Urls => history[j].of # history[k].of
      <4> SUFFICES ASSUME NEW j \in DOMAIN history, NEW k \in DOMAIN history,
                          j # k, history[j].of \in Urls, history[j].of = history[k].of
                   PROVE  FALSE
        OBVIOUS
      <4>1. j \in Int /\ k \in Int /\ j - 1 # k - 1
        BY <3>4
      <4> QED BY <1>6, <1>7, <1>10, <3>3, <4>1 DEF UrlOnce
    <3> QED BY <2>1, <3>2, <3>3, <3>4, <3>5
  <2>2. CASE status # "failed"
    <3>1. history = mem.q.history
      BY <2>2
    <3> HIDE DEF history
    <3> QED BY <1>1, <1>6, <3>1, LenProperties DEF UrlOnce
  <2> QED BY <2>1, <2>2
<1>14. status = "failed" => handing = mem.handing
  OBVIOUS
<1>15. status # "failed" => history = mem.q.history
  OBVIOUS
<1> HIDE DEF handing, history
<1>16. /\ m \in Memories /\ m.q = mem.q /\ m.parsed = mem.parsed
       /\ m.loaded = mem.loaded /\ m.reload = mem.reload /\ m.idGen = mem.idGen
       /\ m.handing = handing /\ m.marked = mem.marked /\ m.working = mem.working
  BY <1>1, <1>11 DEF Memories
<1> HIDE DEF m
<1>17. CASE status = "undefined"
  <2>1. mem' = m /\ disk' = disk /\ up' = up /\ crashes' = crashes
    BY <1>5, <1>17, HandleNothing
  <2> QED BY <1>2, <1>5, <1>9, <1>12, <1>16, <1>17, <2>1, QuietChange
<1>18. CASE status # "undefined"
  <2>1. /\ q \in Lists /\ q.nzbs = mem.q.nzbs /\ q.files = mem.q.files /\ q.post = mem.q.post
        /\ q.urls = urls /\ q.history = history /\ q.parked = mem.q.parked
    BY <1>1, <1>8, <1>13 DEF Lists
  <2>2. ChangeAndSave(m, q)
    BY <1>5, <1>18
  <2> HIDE DEF q
  <2>3. Listed(q, added)
    <3>1. Referenced(mem.q) \subseteq ToSet(mem.q.nzbs)
      BY <1>1 DEF QueueOK, Listed
    <3>2. EntriesOf(q) = EntriesOf(mem.q)
      BY <2>1 DEF EntriesOf
    <3>3. \A j \in DOMAIN q.history :
              q.history[j].kind = "nzb" => q.history[j].of \in ToSet(q.nzbs)
      <4>1. \A j \in DOMAIN mem.q.history :
                mem.q.history[j].kind = "nzb" => mem.q.history[j].of \in ToSet(mem.q.nzbs)
        BY <3>1, ReferencedIn
      <4> QED BY <1>10, <1>13, <2>1, <4>1
    <3>4. /\ \A e \in EntriesOf(q) : e.nzb \in ToSet(q.nzbs)
          /\ \A j \in DOMAIN q.post : q.post[j].nzb \in ToSet(q.nzbs)
      <4>1. /\ \A e \in EntriesOf(mem.q) : e.nzb \in ToSet(mem.q.nzbs)
            /\ \A j \in DOMAIN mem.q.post : mem.q.post[j].nzb \in ToSet(mem.q.nzbs)
        BY <3>1, ReferencedIn
      <4> QED BY <2>1, <3>2, <4>1
    <3>5. Referenced(q) \subseteq ToSet(q.nzbs)
      BY <3>3, <3>4, ReferencedIn
    <3> QED BY <1>1, <2>1, <3>5 DEF QueueOK, Listed
  <2>4. UrlOnce(q)
    <3>1. \A j, k \in DOMAIN urls : urls[j].url = urls[k].url => j = k
      BY <1>6, <1>8 DEF UrlOnce, PartOf
    <3>2. \A j \in DOMAIN urls, k \in DOMAIN history : urls[j].url # history[k].of
      <4> SUFFICES ASSUME NEW j \in DOMAIN urls, NEW k \in DOMAIN history
                   PROVE  urls[j].url # history[k].of
        OBVIOUS
      <4>1. \E l \in DOMAIN mem.q.urls : urls[j] = mem.q.urls[l]
        BY <1>8 DEF PartOf
      <4> QED BY <1>6, <1>8, <1>10, <1>13, <4>1 DEF UrlOnce
    <3> QED BY <1>13, <2>1, <3>1, <3>2 DEF UrlOnce
  <2>5. UrlsFree(q, added, handing)
    <3>1. \A j \in DOMAIN urls : UrlFree(urls[j].url, added, handing)
      <4> SUFFICES ASSUME NEW j \in DOMAIN urls PROVE UrlFree(urls[j].url, added, handing)
        OBVIOUS
      <4>1. \E l \in DOMAIN mem.q.urls : urls[j] = mem.q.urls[l]
        BY <1>8 DEF PartOf
      <4> QED BY <1>6, <1>8, <1>11, <4>1 DEF UrlsFree, UrlFree
    <3>2. ASSUME NEW j \in DOMAIN history, history[j].of \in Urls
          PROVE  UrlFree(history[j].of, added, handing)
      <4>1. CASE status = "failed"
        BY <1>6, <1>7, <1>10, <1>13, <1>14, <3>2, <4>1 DEF UrlsFree
      <4>2. CASE status # "failed"
        BY <1>6, <1>7, <1>11, <1>15, <3>2, <4>2 DEF UrlsFree, UrlFree
      <4> QED BY <4>1, <4>2
    <3> QED BY <2>1, <3>1, <3>2 DEF UrlsFree
  <2>6. QueueOK(q, disk.contents, added, scripts, m.handing, reused)
    BY <1>1, <1>16, <2>1, <2>3, <2>4, <2>5 DEF QueueOK
  <2>7. EntriesOf(q) \subseteq EntriesOf(mem.q) /\ scripts' \in [Collections -> {0, 1}]
        /\ m.marked \subseteq {q.files[k].id : k \in DOMAIN q.files}
        /\ (m.working => q.post # <<>>)
    BY <1>5, <1>9, <1>16, <2>1 DEF EntriesOf
  <2> QED BY <1>2, <1>5, <1>11, <1>16, <2>1, <2>2, <2>6, <2>7, SaveStep
<1> QED BY <1>17, <1>18

\* Moving a collection to the history.
Completes(p, q, marked, c, a, s, h, r) ==
    /\ p \in Lists /\ p.nzbs = q.nzbs /\ p.post = q.post /\ p.urls = q.urls
    /\ EntriesOf(p) = EntriesOf(q)
    /\ \A e \in ToSet(q.files) : e.id \in marked => e \in ToSet(p.files)
    /\ QueueOK(p, c, a, s, h, r)

\* NZBCompleted leaves a queue in order.
LEMMA CompletedOK ==
    ASSUME NEW q \in Lists, NEW marked, NEW n \in ToSet(q.nzbs),
           NEW c, NEW a, NEW s, NEW h, NEW r, QueueOK(q, c, a, s, h, r)
    PROVE  Completes(NZBCompleted(q, marked, n), q, marked, c, a, s, h, r)
<1> DEFINE parks == {e \in ToSet(q.files) : e.nzb = n /\ e.id \notin marked}
           item == [kind |-> "nzb", of |-> n]
           others == Only(q.history, {x \in ToSet(q.history) : x.of # n})
           history == <<item>> \o others
           files == Only(q.files, ToSet(q.files) \ parks)
           parked == q.parked \o Only(q.files, parks)
           p == [q EXCEPT !.history = history, !.files = files, !.parked = parked]
<1>1. p = NZBCompleted(q, marked, n)
  BY DEF NZBCompleted
<1>2. /\ q.nzbs \in Seq(Collections) /\ q.files \in Seq(Entries) /\ q.parked \in Seq(Entries)
      /\ q.history \in Seq(HistoryItems)
  BY DEF Lists
<1>3. n \in Collections
  <2>1. PICK i \in DOMAIN q.nzbs : q.nzbs[i] = n
    BY DEF ToSet
  <2> QED BY <1>2, <2>1, LenProperties, ElementOfSeq
<1>4. item \in HistoryItems /\ item.kind = "nzb" /\ item.of = n /\ n \notin Urls
  BY <1>3, PersistentAssumption DEF HistoryItems
<1>5. MovesWell(q.files, q.parked, c, r, parks)
  <2>1. Own(q.files, c, r) /\ Own(q.parked, c, r) /\ Apart(q.files, q.parked)
    BY DEF QueueOK
  <2> HIDE DEF parks
  <2> QED BY <1>2, <2>1, MovedOK
<1>6. /\ files \in Seq(Entries) /\ parked \in Seq(Entries)
      /\ Own(files, c, r) /\ Own(parked, c, r) /\ Apart(files, parked)
      /\ ToSet(files) = ToSet(q.files) \ parks
      /\ ToSet(parked) = (ToSet(q.files) \intersect parks) \union ToSet(q.parked)
  <2> HIDE DEF parks
  <2> QED BY <1>5 DEF MovesWell
<1>7. others \in Seq(HistoryItems) /\ PartOf(others, q.history)
  BY <1>2, OnlyFacts
<1> HIDE DEF item, others
<1>8. /\ history \in Seq(HistoryItems)
      /\ \A j \in DOMAIN history : \/ j = 1 /\ history[j] = item
                                   \/ j - 1 \in DOMAIN others /\ history[j] = others[j - 1]
      /\ DOMAIN history = 1..Len(history)
  <2>1. <<item>> \in Seq(HistoryItems) /\ Len(<<item>>) = 1 /\ DOMAIN <<item>> = {1} /\ <<item>>[1] = item
    BY <1>4
  <2>2. /\ history \in Seq(HistoryItems)
        /\ \A j \in DOMAIN history :
               \/ j \in DOMAIN <<item>> /\ history[j] = <<item>>[j]
               \/ j - Len(<<item>>) \in DOMAIN others /\ history[j] = others[j - Len(<<item>>)]
    BY <1>7, <2>1, ConcatFacts
  <2> HIDE DEF history
  <2>3. \A j \in DOMAIN history : \/ j = 1 /\ history[j] = item
                                  \/ j - 1 \in DOMAIN others /\ history[j] = others[j - 1]
    BY <2>1, <2>2
  <2> QED BY <2>2, <2>3, LenProperties
<1>9. \A e \in ToSet(q.files) : e.id \in marked => e \in ToSet(files)
  BY <1>6
<1>10. EntriesOf(p) = EntriesOf(q)
  BY <1>6 DEF EntriesOf
<1> HIDE DEF history, files, parked, parks
<1>11. /\ p \in Lists /\ p.nzbs = q.nzbs /\ p.files = files /\ p.post = q.post
       /\ p.urls = q.urls /\ p.history = history /\ p.parked = parked
  BY <1>6, <1>8 DEF Lists
<1> HIDE DEF p
<1>12. \A i \in DOMAIN others : \E k \in DOMAIN q.history : others[i] = q.history[k]
  BY <1>7 DEF PartOf
<1>13. Listed(p, a)
  <2>1. /\ \A e \in EntriesOf(q) : e.nzb \in ToSet(q.nzbs)
        /\ \A i \in DOMAIN q.post : q.post[i].nzb \in ToSet(q.nzbs)
        /\ \A i \in DOMAIN q.history :
               q.history[i].kind = "nzb" => q.history[i].of \in ToSet(q.nzbs)
    <3>1. Referenced(q) \subseteq ToSet(q.nzbs)
      BY DEF QueueOK, Listed
    <3> QED BY <3>1, ReferencedIn
  <2>2. \A i \in DOMAIN history : history[i].kind = "nzb" => history[i].of \in ToSet(q.nzbs)
    BY <1>4, <1>8, <1>12, <2>1
  <2>3. Referenced(p) \subseteq ToSet(p.nzbs)
    <3>1. /\ \A e \in EntriesOf(p) : e.nzb \in ToSet(p.nzbs)
          /\ \A i \in DOMAIN p.post : p.post[i].nzb \in ToSet(p.nzbs)
          /\ \A i \in DOMAIN p.history :
                 p.history[i].kind = "nzb" => p.history[i].of \in ToSet(p.nzbs)
      BY <1>10, <1>11, <2>1, <2>2
    <3> QED BY <3>1, ReferencedIn
  <2> QED BY <1>11, <2>3 DEF QueueOK, Listed
<1>14. UrlOnce(q) /\ UrlsFree(q, a, h)
  BY DEF QueueOK
<1>15. UrlOnce(p)
  <2>1. \A j, k \in DOMAIN history :
            history[j].of \in Urls /\ history[j].of = history[k].of => j = k
    <3> SUFFICES ASSUME NEW j \in DOMAIN history, NEW k \in DOMAIN history,
                        history[j].of \in Urls, history[j].of = history[k].of
                 PROVE  j = k
      OBVIOUS
    <3>1. j - 1 \in DOMAIN others /\ history[j] = others[j - 1]
          /\ k - 1 \in DOMAIN others /\ history[k] = others[k - 1] /\ j \in Int /\ k \in Int
      BY <1>4, <1>8
    <3>2. j - 1 # k - 1 => \E l, m \in DOMAIN q.history :
              l # m /\ others[j - 1] = q.history[l] /\ others[k - 1] = q.history[m]
      BY <1>7, <3>1 DEF PartOf
    <3>3. j - 1 = k - 1
      BY <1>14, <3>1, <3>2 DEF UrlOnce
    <3> QED BY <3>1, <3>3
  <2>2. \A j \in DOMAIN q.urls, k \in DOMAIN history : q.urls[j].url # history[k].of
    <3> SUFFICES ASSUME NEW j \in DOMAIN q.urls, NEW k \in DOMAIN history
                 PROVE  q.urls[j].url # history[k].of
      OBVIOUS
    <3>1. q.urls[j].url \in Urls
      <4>1. q.urls \in Seq(UrlItems)
        BY DEF Lists
      <4>2. q.urls[j] \in UrlItems
        BY <4>1, LenProperties, ElementOfSeq
      <4> QED BY <4>2 DEF UrlItems
    <3> QED BY <1>4, <1>8, <1>12, <1>14, <3>1 DEF UrlOnce
  <2> QED BY <1>11, <1>14, <2>1, <2>2 DEF UrlOnce
<1>16. UrlsFree(p, a, h)
  <2>1. ASSUME NEW j \in DOMAIN history, history[j].of \in Urls
        PROVE  UrlFree(history[j].of, a, h)
    BY <1>4, <1>8, <1>12, <1>14, <2>1 DEF UrlsFree
  <2> QED BY <1>11, <1>14, <2>1 DEF UrlsFree
<1>17. QueueOK(p, c, a, s, h, r)
  BY <1>6, <1>11, <1>13, <1>15, <1>16 DEF QueueOK
<1> QED BY <1>1, <1>9, <1>10, <1>11, <1>17 DEF Completes

\* The queue without the entries that are deleted.
Deletes(p, q, goes, c, a, s, h, r) ==
    /\ p \in Lists /\ p.nzbs = q.nzbs /\ p.post = q.post /\ p.urls = q.urls
    /\ p.history = q.history /\ p.parked = q.parked
    /\ ToSet(p.files) = ToSet(q.files) \ goes /\ QueueOK(p, c, a, s, h, r)

\* A queue without some of its files is in order.
LEMMA DeletedOK ==
    ASSUME NEW q \in Lists, NEW S, NEW goes, ToSet(q.files) \intersect S = ToSet(q.files) \ goes,
           NEW c, NEW a, NEW s, NEW h, NEW r, QueueOK(q, c, a, s, h, r)
    PROVE  Deletes([q EXCEPT !.files = Only(q.files, S)], q, goes, c, a, s, h, r)
<1> DEFINE files == Only(q.files, S)
           p == [q EXCEPT !.files = files]
<1>1. q.files \in Seq(Entries)
  BY DEF Lists
<1>2. files \in Seq(Entries) /\ PartOf(files, q.files)
  BY <1>1, OnlyFacts
<1>3. ToSet(files) = ToSet(q.files) \ goes
  BY <1>1, OnlyFacts
<1> HIDE DEF files
<1>4. /\ p \in Lists /\ p.nzbs = q.nzbs /\ p.files = files /\ p.post = q.post
      /\ p.urls = q.urls /\ p.history = q.history /\ p.parked = q.parked
  BY <1>2 DEF Lists
<1> HIDE DEF p
<1>5. SmallerQueue(p, q)
  BY <1>2, <1>4, PartOfItself, PartIsIdPart DEF SmallerQueue
<1>6. Shrunk(c, c) /\ h \subseteq h
  BY DEF Shrunk
<1>7. QueueOK(p, c, a, s, h, r)
  BY <1>4, <1>5, <1>6, SmallerOK
<1> QED BY <1>3, <1>4, <1>7 DEF Deletes, p, files

\* The first job is over.
LEMMA JobGoneOK ==
    ASSUME NEW q \in Lists, q.post # <<>>,
           NEW c, NEW a, NEW s, NEW h, NEW r, QueueOK(q, c, a, s, h, r)
    PROVE  LET p == [q EXCEPT !.post = Tail(q.post)]
           IN  /\ p \in Lists /\ p.nzbs = q.nzbs /\ p.files = q.files /\ p.parked = q.parked
               /\ QueueOK(p, c, a, s, h, r)
<1> DEFINE post == Tail(q.post)
           p == [q EXCEPT !.post = post]
<1>1. q.post \in Seq(Jobs)
  BY DEF Lists
<1>2. post \in Seq(Jobs) /\ PartOf(post, q.post)
  BY <1>1, TailFacts
<1> HIDE DEF post
<1>3. /\ p \in Lists /\ p.nzbs = q.nzbs /\ p.files = q.files /\ p.post = post
      /\ p.urls = q.urls /\ p.history = q.history /\ p.parked = q.parked
  BY <1>2 DEF Lists
<1> HIDE DEF p
<1>4. SmallerQueue(p, q)
  BY <1>2, <1>3, PartOfItself, PartIsIdPart DEF SmallerQueue
<1>5. Shrunk(c, c) /\ h \subseteq h
  BY DEF Shrunk
<1>6. QueueOK(p, c, a, s, h, r)
  BY <1>3, <1>4, <1>5, SmallerOK
<1> QED BY <1>3, <1>6 DEF p, post

\* JobCompleted keeps the invariant.
LEMMA JobCompletedOK ==
    ASSUME IInv, NEW complete \in BOOLEAN, NEW cleanup \in BOOLEAN, JobCompleted(complete, cleanup)
    PROVE  IInv'
<1> DEFINE n == First(mem.q).nzb
           goes == {e \in ToSet(mem.q.files) : cleanup /\ e.nzb = n /\ e.id \notin mem.marked}
           left == [mem.q EXCEPT !.files = Only(mem.q.files, ToSet(mem.q.files) \ goes)]
           done == IF complete THEN NZBCompleted(left, mem.marked, n) ELSE mem.q
           q == [done EXCEPT !.post = Tail(done.post)]
           entries == Only(mem.q.files, goes)
           m == [mem EXCEPT !.q = ReleaseAll(q)]
<1>1. /\ mem \in Memories /\ mem.q \in Lists /\ mem.q.files \in Seq(Entries)
      /\ QueueOK(mem.q, disk.contents, added, scripts, mem.handing, reused)
  BY MemFacts
<1>2. /\ up /\ mem.q.post # <<>> /\ ~mem.working /\ (cleanup => complete)
      /\ Handle(m, Discards(entries) \o <<Save(ReleaseAll(q), mem.marked)>>)
      /\ UNCHANGED <<added, scripts, reused>>
  BY DEF JobCompleted, Idle
<1>3. mem.loaded /\ First(mem.q) = mem.q.post[1] /\ 1 \in DOMAIN mem.q.post
  BY <1>2, FirstFacts
<1>4. n \in ToSet(mem.q.nzbs)
  <2>1. Referenced(mem.q) \subseteq ToSet(mem.q.nzbs)
    BY <1>1 DEF QueueOK, Listed
  <2>2. mem.q.post[1].nzb \in ToSet(mem.q.nzbs)
    BY <1>3, <2>1, ReferencedIn
  <2> QED BY <1>3, <2>2
<1>5. goes \subseteq ToSet(mem.q.files) /\ (\A e \in goes : e.id \notin mem.marked)
      /\ (~complete => goes = {})
  BY <1>2
<1> HIDE DEF n, goes
<1>6. Deletes(left, mem.q, goes, disk.contents, added, scripts, mem.handing, reused)
  <2>1. ToSet(mem.q.files) \intersect (ToSet(mem.q.files) \ goes) = ToSet(mem.q.files) \ goes
    OBVIOUS
  <2> QED BY <1>1, <2>1, DeletedOK
<1> HIDE DEF left
<1>7. /\ left \in Lists /\ left.nzbs = mem.q.nzbs /\ left.post = mem.q.post
      /\ EntriesOf(left) = (ToSet(mem.q.files) \ goes) \union ToSet(mem.q.parked)
      /\ ToSet(left.files) = ToSet(mem.q.files) \ goes
      /\ QueueOK(left, disk.contents, added, scripts, mem.handing, reused)
  BY <1>6 DEF Deletes, EntriesOf
<1>8. /\ done \in Lists /\ done.post = mem.q.post
      /\ EntriesOf(done) = (ToSet(mem.q.files) \ goes) \union ToSet(mem.q.parked)
      /\ \A e \in ToSet(mem.q.files) : e.id \in mem.marked => e \in ToSet(done.files)
      /\ QueueOK(done, disk.contents, added, scripts, mem.handing, reused)
  <2>1. CASE complete
    <3>1. Completes(NZBCompleted(left, mem.marked, n), left, mem.marked,
                    disk.contents, added, scripts, mem.handing, reused)
      BY <1>4, <1>7, CompletedOK
    <3>2. done = NZBCompleted(left, mem.marked, n)
      BY <2>1
    <3> HIDE DEF done
    <3>3. /\ done \in Lists /\ done.post = left.post /\ EntriesOf(done) = EntriesOf(left)
          /\ \A e \in ToSet(left.files) : e.id \in mem.marked => e \in ToSet(done.files)
          /\ QueueOK(done, disk.contents, added, scripts, mem.handing, reused)
      BY <3>1, <3>2 DEF Completes
    <3> QED BY <1>5, <1>7, <3>3
  <2>2. CASE ~complete
    <3>1. done = mem.q /\ goes = {}
      BY <1>5, <2>2
    <3> HIDE DEF done
    <3> QED BY <1>1, <3>1 DEF EntriesOf
  <2> QED BY <2>1, <2>2
<1> HIDE DEF done
<1>9. /\ q \in Lists /\ q.files = done.files /\ q.parked = done.parked
      /\ QueueOK(q, disk.contents, added, scripts, mem.handing, reused)
  <2>1. done.post # <<>>
    BY <1>2, <1>8
  <2> QED BY <1>8, <2>1, JobGoneOK
<1> HIDE DEF q
<1>10. EntriesOf(q) = (ToSet(mem.q.files) \ goes) \union ToSet(mem.q.parked)
  BY <1>8, <1>9 DEF EntriesOf
<1>11. entries \in Seq(Entries)
  BY <1>1, OnlyFacts
<1>12. ToSet(entries) = goes
  <2>1. ToSet(entries) = ToSet(mem.q.files) \intersect goes
    BY <1>1, OnlyFacts
  <2> QED BY <1>5, <2>1
<1> HIDE DEF entries
<1>13. ToSet(entries) \subseteq EntriesOf(mem.q) /\ EntriesOf(q) \subseteq EntriesOf(mem.q)
  BY <1>5, <1>10, <1>12 DEF EntriesOf
<1>14. \A e \in EntriesOf(q), f \in ToSet(entries) : e.id # f.id
  <2>1. DistinctIds(mem.q.files) /\ Apart(mem.q.parked, mem.q.files)
    BY <1>1 DEF QueueOK, Own, Apart
  <2>2. \A e, f \in ToSet(mem.q.files) : e.id = f.id => e = f
    BY <2>1, OwnIds
  <2>3. \A e \in ToSet(mem.q.parked), f \in ToSet(mem.q.files) : e.id # f.id
    BY <2>1, ApartIds
  <2> QED BY <1>5, <1>10, <1>12, <2>2, <2>3
<1>15. mem.marked \subseteq {q.files[i].id : i \in DOMAIN q.files}
  <2>1. mem.marked \subseteq IdsOf(mem.q.files)
    BY DEF IInv, MemoryOK, IdsOf
  <2>2. mem.marked \subseteq IdsOf(q.files)
    BY <1>8, <1>9, <2>1, IdsOfSet
  <2> QED BY <2>2 DEF IdsOf
<1>16. ReleaseAll(q) \in Lists
  <2>1. Referenced(q) \subseteq ToSet(q.nzbs)
    BY <1>9 DEF QueueOK, Listed
  <2> QED BY <1>9, <2>1, ReleaseOK
<1>17. /\ m \in Memories /\ m.q = ReleaseAll(q) /\ m.parsed = mem.parsed /\ m.idGen = mem.idGen
       /\ m.loaded = mem.loaded /\ m.marked = mem.marked /\ m.handing = mem.handing
       /\ ~m.working
  BY <1>1, <1>2, <1>16 DEF Memories
<1> HIDE DEF m
<1> QED BY <1>2, <1>3, <1>9, <1>11, <1>13, <1>14, <1>15, <1>17, DiscardStep

\* A handler that may save the queue first, then discards one file and saves again.
DiscardsOne(w, id, Q, P) ==
    /\ Saving(w) /\ w[Len(w)].queue = Q
    /\ SavedQueues(w) \subseteq {Q, P} /\ Discarded(w, Len(w)) = {id}

\* The writes of a file that leaves.
LEMMA SaveDiscardSave ==
    ASSUME NEW id, NEW q, NEW mk, NEW p, NEW mk2, NEW first,
           first = <<>> \/ first = <<Save(p, mk2)>>
    PROVE  DiscardsOne(first \o <<Discard(id), Save(q, mk)>>, id,
                       SaveDownloadQueue(q, mk), SaveDownloadQueue(p, mk2))
<1> DEFINE w == first \o <<Discard(id), Save(q, mk)>>
           Q == SaveDownloadQueue(q, mk)
           P == SaveDownloadQueue(p, mk2)
           save == [op |-> "save", queue |-> Q]
           save1 == [op |-> "save", queue |-> P]
           discard == [op |-> "discard", id |-> id]
<1>1. save.op = "save" /\ save.queue = Q /\ save1.op = "save" /\ save1.queue = P
      /\ discard.op = "discard" /\ discard.id = id
  OBVIOUS
<1>2. Save(q, mk) = save /\ Save(p, mk2) = save1 /\ Discard(id) = discard
  BY DEF Save, Discard
<1> HIDE DEF save, save1, discard, P, Q
<1>3. CASE first = <<>>
  <2>1. w = <<discard, save>>
    BY <1>2, <1>3
  <2> HIDE DEF w
  <2>2. Len(w) = 2 /\ DOMAIN w = 1..2 /\ w[1] = discard /\ w[2] = save
    BY <2>1
  <2>3. Saving(w)
    BY <1>1, <2>2 DEF Saving
  <2>4. SavedQueues(w) \subseteq {Q, P}
    BY <1>1, <2>2 DEF SavedQueues
  <2>5. Discarded(w, Len(w)) = {id}
    BY <1>1, <2>2 DEF Discarded
  <2> QED BY <1>1, <2>2, <2>3, <2>4, <2>5 DEF w, P, Q, DiscardsOne
<1>4. CASE first = <<Save(p, mk2)>>
  <2>1. w = <<save1>> \o <<discard, save>>
    BY <1>2, <1>4
  <2> HIDE DEF w
  <2>2. Len(w) = 3 /\ DOMAIN w = 1..3 /\ w[1] = save1 /\ w[2] = discard /\ w[3] = save
    <3> DEFINE T == {save1, discard, save}
               a == <<save1>>
               b == <<discard, save>>
    <3>1. /\ a \in Seq(T) /\ Len(a) = 1 /\ a[1] = save1
          /\ b \in Seq(T) /\ Len(b) = 2 /\ b[1] = discard /\ b[2] = save
      OBVIOUS
    <3> HIDE DEF T, a, b
    <3>2. /\ a \o b \in Seq(T) /\ Len(a \o b) = 3
          /\ \A i \in 1..3 : (a \o b)[i] = IF i <= 1 THEN a[i] ELSE b[i - 1]
      <4>1. /\ a \o b \in Seq(T) /\ Len(a \o b) = Len(a) + Len(b)
            /\ \A i \in 1..(Len(a) + Len(b)) : (a \o b)[i] = IF i <= Len(a) THEN a[i] ELSE b[i - Len(a)]
        BY <3>1, ConcatProperties
      <4>2. Len(a) + Len(b) = 3 /\ Len(a) = 1
        BY <3>1
      <4> QED BY <4>1, <4>2
    <3>3. (a \o b)[1] = save1 /\ (a \o b)[2] = discard /\ (a \o b)[3] = save
      BY <3>1, <3>2
    <3>4. w = a \o b
      BY <2>1 DEF a, b
    <3> QED BY <3>2, <3>3, <3>4, LenProperties
  <2>3. Saving(w)
    BY <1>1, <2>2 DEF Saving
  <2>4. SavedQueues(w) \subseteq {Q, P}
    BY <1>1, <2>2 DEF SavedQueues
  <2>5. Discarded(w, Len(w)) = {id}
    BY <1>1, <2>2 DEF Discarded
  <2> QED BY <1>1, <2>2, <2>3, <2>4, <2>5 DEF w, P, Q, DiscardsOne
<1> QED BY <1>3, <1>4

\* What the post-processor does about a file that leaves, before it does.
NotifiedWell(q, marked, c, a, s, h, r) ==
    /\ q \in Lists /\ EntriesOf(q) = EntriesOf(mem.q)
    /\ \A e \in ToSet(mem.q.files) : e.id \in marked => e \in ToSet(q.files)
    /\ mem.q.post # <<>> => q.post # <<>>
    /\ QueueOK(q, c, a, s, h, r)

\* What the post-processor does about a file that leaves keeps the queue in order.
LEMMA NotifiedOK ==
    ASSUME IInv, NEW n \in ToSet(mem.q.nzbs), NEW marked, NEW check \in BOOLEAN,
           NEW outcome \in Outcomes(mem.q, n),
           NEW s, s = (IF outcome = "job" THEN [scripts EXCEPT ![n] = 0] ELSE scripts)
    PROVE  NotifiedWell(Notified(mem.q, marked, n, outcome, check), marked,
                        disk.contents, added, s, mem.handing, reused)
<1>1. /\ mem.q \in Lists /\ mem.q.post \in Seq(Jobs) /\ mem.q.nzbs \in Seq(Collections)
      /\ QueueOK(mem.q, disk.contents, added, scripts, mem.handing, reused)
  BY MemFacts
<1>2. n \in Collections
  <2>1. PICK i \in DOMAIN mem.q.nzbs : mem.q.nzbs[i] = n
    BY DEF ToSet
  <2> QED BY <1>1, <2>1, LenProperties, ElementOfSeq
<1>3. outcome \in {"none", "job", "history"}
  BY DEF Outcomes
<1>4. CASE outcome = "none"
  BY <1>1, <1>4 DEF Notified, NotifiedWell
<1>5. CASE outcome = "history"
  <2> DEFINE q == NZBCompleted(mem.q, marked, n)
  <2>1. Completes(q, mem.q, marked, disk.contents, added, scripts, mem.handing, reused)
    BY <1>1, CompletedOK
  <2>2. Notified(mem.q, marked, n, outcome, check) = q /\ s = scripts
    BY <1>5 DEF Notified
  <2> HIDE DEF q
  <2> QED BY <2>1, <2>2 DEF Completes, NotifiedWell
<1>6. CASE outcome = "job"
  <2> DEFINE job == [nzb |-> n, check |-> check, stage |-> "queued"]
             post == Append(mem.q.post, job)
             q == [mem.q EXCEPT !.post = post]
  <2>1. q = Notified(mem.q, marked, n, outcome, check)
    BY <1>6 DEF Notified
  <2>2. \A i \in DOMAIN mem.q.post : mem.q.post[i].nzb # n
    BY <1>6 DEF Outcomes, HasJob
  <2>3. job \in Jobs /\ job.nzb = n /\ job.stage = "queued"
    BY <1>2 DEF Jobs, Stages
  <2> HIDE DEF job
  <2>4. /\ post \in Seq(Jobs) /\ post # <<>> /\ Len(post) = Len(mem.q.post) + 1
        /\ \A i \in 1..Len(mem.q.post) : post[i] = mem.q.post[i]
        /\ post[Len(mem.q.post) + 1] = job
    BY <1>1, <2>3, AppendProperties
  <2> HIDE DEF post
  <2>5. /\ post \in Seq(Jobs) /\ DOMAIN post = DOMAIN mem.q.post \union {Len(mem.q.post) + 1}
        /\ \A i \in DOMAIN mem.q.post : post[i] = mem.q.post[i]
        /\ post[Len(mem.q.post) + 1] = job /\ Len(mem.q.post) + 1 \notin DOMAIN mem.q.post
    <3>1. /\ Len(mem.q.post) \in Nat /\ DOMAIN mem.q.post = 1..Len(mem.q.post)
          /\ DOMAIN post = 1..Len(post)
      BY <1>1, <2>4, LenProperties
    <3> QED BY <2>4, <3>1
  <2>6. /\ q \in Lists /\ q.nzbs = mem.q.nzbs /\ q.files = mem.q.files /\ q.post = post
        /\ q.urls = mem.q.urls /\ q.history = mem.q.history /\ q.parked = mem.q.parked
    BY <1>1, <2>5 DEF Lists
  <2> HIDE DEF q
  <2>7. EntriesOf(q) = EntriesOf(mem.q)
    BY <2>6 DEF EntriesOf
  <2>8. s[n] = 0 /\ \A o \in Collections : o # n => s[o] = scripts[o]
    <3>1. scripts \in [Collections -> {0, 1}]
      BY DEF IInv
    <3> QED BY <1>2, <1>6, <3>1
  <2>9. \A i \in DOMAIN mem.q.post : s[mem.q.post[i].nzb] = scripts[mem.q.post[i].nzb]
    <3> SUFFICES ASSUME NEW i \in DOMAIN mem.q.post
                 PROVE  s[mem.q.post[i].nzb] = scripts[mem.q.post[i].nzb]
      OBVIOUS
    <3>1. mem.q.post[i] \in Jobs
      BY <1>1, LenProperties, ElementOfSeq
    <3> QED BY <2>2, <2>8, <3>1 DEF Jobs
  <2>10. JobsOK(post, s)
    <3>1. JobsOK(mem.q.post, scripts)
      BY <1>1 DEF QueueOK
    <3>2. \A i, j \in DOMAIN post : post[i].nzb = post[j].nzb => i = j
      BY <2>2, <2>3, <2>5, <3>1 DEF JobsOK
    <3>3. ASSUME NEW i \in DOMAIN post
          PROVE  /\ post[i].check => post[i].stage = "queued"
                 /\ post[i].stage = "queued" => s[post[i].nzb] = 0
      <4>1. CASE i \in DOMAIN mem.q.post
        <5>1. post[i] = mem.q.post[i]
          BY <2>5, <4>1
        <5>2. (mem.q.post[i].check => mem.q.post[i].stage = "queued")
              /\ (mem.q.post[i].stage = "queued" => scripts[mem.q.post[i].nzb] = 0)
          BY <3>1, <4>1 DEF JobsOK
        <5> QED BY <2>9, <4>1, <5>1, <5>2
      <4>2. CASE i = Len(mem.q.post) + 1
        BY <2>3, <2>5, <2>8, <4>2
      <4> QED BY <2>5, <4>1, <4>2
    <3> QED BY <3>2, <3>3 DEF JobsOK
  <2>11. Listed(q, added)
    <3>1. /\ \A e \in EntriesOf(mem.q) : e.nzb \in ToSet(mem.q.nzbs)
          /\ \A i \in DOMAIN mem.q.post : mem.q.post[i].nzb \in ToSet(mem.q.nzbs)
          /\ \A i \in DOMAIN mem.q.history :
                 mem.q.history[i].kind = "nzb" => mem.q.history[i].of \in ToSet(mem.q.nzbs)
      <4>1. Referenced(mem.q) \subseteq ToSet(mem.q.nzbs)
        BY <1>1 DEF QueueOK, Listed
      <4> QED BY <4>1, ReferencedIn
    <3>2. \A i \in DOMAIN post : post[i].nzb \in ToSet(mem.q.nzbs)
      BY <2>3, <2>5, <3>1
    <3>3. Referenced(q) \subseteq ToSet(q.nzbs)
      BY <2>6, <2>7, <3>1, <3>2, ReferencedIn
    <3> QED BY <1>1, <2>6, <3>3 DEF QueueOK, Listed
  <2>12. UrlOnce(q) /\ UrlsFree(q, added, mem.handing)
    BY <1>1, <2>6 DEF QueueOK, UrlOnce, UrlsFree
  <2>13. QueueOK(q, disk.contents, added, s, mem.handing, reused)
    BY <1>1, <2>6, <2>10, <2>11, <2>12 DEF QueueOK
  <2> QED BY <2>1, <2>6, <2>7, <2>4, <2>13 DEF NotifiedWell
<1> QED BY <1>3, <1>4, <1>5, <1>6

\* FileLeaves keeps the invariant.
LEMMA FileLeavesOK ==
    ASSUME IInv, NEW i \in DOMAIN mem.q.files, NEW outcome \in {"none", "job", "history"},
           NEW check \in BOOLEAN, FileLeaves(i, outcome, check)
    PROVE  IInv'
<1> DEFINE e == mem.q.files[i]
           marked == mem.marked \union {e.id}
           q == Notified(mem.q, marked, e.nzb, outcome, check)
           p == WithoutFile(q, e.id)
           after == ReleaseAll(p)
           mk == mem.marked \ {e.id}
           first == IF outcome = "none" THEN <<>> ELSE <<Save(q, marked)>>
           w == first \o <<Discard(e.id), Save(after, mk)>>
           m == [mem EXCEPT !.q = after, !.marked = mk]
           c == disk.contents
<1>1. /\ mem \in Memories /\ mem.q \in Lists /\ mem.q.files \in Seq(Entries)
      /\ QueueOK(mem.q, c, added, scripts, mem.handing, reused)
      /\ Contents(c) /\ (~mem.loaded => mem.q = EmptyLists /\ mem.handing = {})
      /\ \A u \in mem.handing : added[NzbOfUrl(u)] = 0
  BY MemFacts
<1>2. /\ up /\ outcome \in Outcomes(mem.q, e.nzb) /\ Handle(m, w)
      /\ scripts' = (IF outcome = "job" THEN [scripts EXCEPT ![e.nzb] = 0] ELSE scripts)
      /\ added' = added /\ reused' = reused
  BY DEF FileLeaves
<1>3. mem.loaded
  BY <1>1 DEF EmptyLists
<1>4. e \in Entries /\ e \in ToSet(mem.q.files) /\ e \in EntriesOf(mem.q)
  BY <1>1, LenProperties, ElementOfSeq DEF ToSet, EntriesOf
<1>5. e.nzb \in ToSet(mem.q.nzbs)
  <2>1. Referenced(mem.q) \subseteq ToSet(mem.q.nzbs)
    BY <1>1 DEF QueueOK, Listed
  <2> QED BY <1>4, <2>1, ReferencedIn
<1>6. MemoryOK(mem, c, added, scripts, reused) /\ added \in [Collections -> {0, 1}]
      /\ scripts \in [Collections -> {0, 1}]
      /\ DiskOK(disk.queue, c, added, scripts, mem.handing, reused)
      /\ mem.marked \subseteq IdsOf(mem.q.files) /\ (mem.working => mem.q.post # <<>>)
  BY DEF IInv, MemoryOK, IdsOf
<1>7. scripts' \in [Collections -> {0, 1}]
      /\ \A n \in Collections : scripts'[n] = 0 \/ scripts'[n] = scripts[n]
  BY <1>2, <1>6
<1>8. NotifiedWell(q, marked, c, added, scripts', mem.handing, reused)
  BY <1>2, <1>5, NotifiedOK
<1>9. /\ Saving(w) /\ w[Len(w)].queue = SaveDownloadQueue(after, mk)
      /\ SavedQueues(w) \subseteq {SaveDownloadQueue(after, mk), SaveDownloadQueue(q, marked)}
      /\ Discarded(w, Len(w)) = {e.id}
  <2>1. first = <<>> \/ first = <<Save(q, marked)>>
    OBVIOUS
  <2> HIDE DEF first, e, q, after, marked, mk
  <2>2. DiscardsOne(w, e.id, SaveDownloadQueue(after, mk), SaveDownloadQueue(q, marked))
    BY <2>1, SaveDiscardSave
  <2> HIDE DEF w
  <2> QED BY <2>2 DEF DiscardsOne
<1>10. e.id \in marked /\ mem.marked \subseteq marked /\ mk = mem.marked \ {e.id}
  OBVIOUS
<1> HIDE DEF e, q, w, marked, mk, c
<1>11. /\ q \in Lists /\ EntriesOf(q) = EntriesOf(mem.q)
       /\ \A f \in ToSet(mem.q.files) : f.id \in marked => f \in ToSet(q.files)
       /\ (mem.q.post # <<>> => q.post # <<>>)
       /\ QueueOK(q, c, added, scripts', mem.handing, reused)
  BY <1>8 DEF NotifiedWell
<1> DEFINE goes == {f \in ToSet(q.files) : f.id = e.id}
<1>12. Deletes(p, q, goes, c, added, scripts', mem.handing, reused)
  <2> DEFINE S == {f \in ToSet(q.files) : f.id # e.id}
  <2>1. ToSet(q.files) \intersect S = ToSet(q.files) \ goes
    OBVIOUS
  <2>2. p = [q EXCEPT !.files = Only(q.files, S)]
    BY DEF WithoutFile
  <2> HIDE DEF S, goes, p
  <2> QED BY <1>11, <2>1, <2>2, DeletedOK
<1> HIDE DEF p
<1>13. /\ p \in Lists /\ p.post = q.post /\ p.parked = q.parked
       /\ ToSet(p.files) = ToSet(q.files) \ goes
       /\ QueueOK(p, c, added, scripts', mem.handing, reused)
  BY <1>12 DEF Deletes
<1>14. Referenced(p) \subseteq ToSet(p.nzbs)
  BY <1>13 DEF QueueOK, Listed
<1>15. /\ after \in Lists /\ ToSet(after.nzbs) = Referenced(after)
       /\ after.files = p.files /\ after.post = p.post /\ after.parked = p.parked
       /\ QueueOK(after, c, added, scripts', mem.handing, reused)
  BY <1>13, <1>14, ReleaseOK
<1> HIDE DEF after
<1>16. EntriesOf(after) = (ToSet(q.files) \ goes) \union ToSet(q.parked)
  BY <1>13, <1>15 DEF EntriesOf
<1>17. EntriesOf(after) \subseteq EntriesOf(mem.q)
  BY <1>11, <1>16 DEF EntriesOf
<1>18. \A f \in EntriesOf(after) : f.id \notin {e.id}
  <2>1. e \in ToSet(q.files)
    BY <1>4, <1>10, <1>11
  <2>2. Apart(q.parked, q.files)
    BY <1>11 DEF QueueOK, Apart
  <2>3. \A f \in ToSet(q.parked), g \in ToSet(q.files) : f.id # g.id
    BY <2>2, ApartIds
  <2> QED BY <1>16, <2>1, <2>3
<1>19. mk \subseteq IdsOf(after.files)
  <2>1. \A id \in mem.marked : \E f \in ToSet(mem.q.files) : id = f.id
    BY <1>6, IdsOfSet
  <2>2. ASSUME NEW id \in mk PROVE \E f \in ToSet(after.files) : id = f.id
    <3>1. id \in mem.marked /\ id # e.id
      BY <1>10, <2>2
    <3>2. PICK f \in ToSet(mem.q.files) : id = f.id
      BY <2>1, <3>1
    <3>3. f \in ToSet(q.files) /\ f \notin goes
      BY <1>10, <1>11, <3>1, <3>2
    <3> QED BY <1>13, <1>15, <3>2, <3>3
  <2> QED BY <2>2, IdsOfSet
<1>20. mk \subseteq SUBSET Ids \/ mk \subseteq Ids
  BY <1>1, <1>10 DEF Memories
<1>21. mk \subseteq mem.marked
  BY <1>10
<1>22. /\ m \in Memories /\ m.q = after /\ m.marked = mk /\ m.parsed = mem.parsed
       /\ m.idGen = mem.idGen /\ m.loaded = mem.loaded /\ m.handing = mem.handing
       /\ m.working = mem.working
  BY <1>1, <1>15, <1>21 DEF Memories
<1> HIDE DEF m, goes
<1>23. Shrunk(Without(c, {e.id}), c) /\ Shrunk(c, c) /\ {} \subseteq mem.handing
       /\ mem.handing \subseteq mem.handing
  BY <1>1, WithoutFacts DEF Shrunk
<1>24. QueueOK(after, Without(c, {e.id}), added, scripts', mem.handing, reused)
  <2>1. SmallerQueue(after, after) /\ after.nzbs = after.nzbs
    BY DEF SmallerQueue, IdPartOf, PartOf
  <2> QED BY <1>15, <1>23, <2>1, SmallerOK
<1>25. QueueOK(q, c, added, scripts', {}, reused) /\ QueueOK(after, c, added, scripts', {}, reused)
  <2>1. SmallerQueue(after, after) /\ SmallerQueue(q, q)
    BY DEF SmallerQueue, IdPartOf, PartOf
  <2> QED BY <1>11, <1>15, <1>23, <2>1, SmallerOK
<1>26. MemoryOK(m, Without(c, {e.id}), added, scripts', reused)
  <2>1. {e.id} \subseteq {f.id : f \in EntriesOf(mem.q)}
    BY <1>4
  <2>2. QueueOK(m.q, Without(c, {e.id}), added, scripts', m.handing, reused)
    BY <1>22, <1>24
  <2>3. EntriesOf(m.q) \subseteq EntriesOf(mem.q) /\ \A f \in EntriesOf(m.q) : f.id \notin {e.id}
    BY <1>17, <1>18, <1>22
  <2>4. m.marked \subseteq {m.q.files[k].id : k \in DOMAIN m.q.files}
    BY <1>19, <1>22 DEF IdsOf
  <2>5. ToSet(m.q.nzbs) = Referenced(m.q) /\ (m.working => m.q.post # <<>>)
        /\ mem.handing \subseteq m.handing /\ \A u \in m.handing : added[NzbOfUrl(u)] = 0
    BY <1>1, <1>6, <1>11, <1>13, <1>15, <1>22
  <2> QED BY <1>1, <1>3, <1>6, <1>22, <2>1, <2>2, <2>3, <2>4, <2>5, MemoryStep
<1>27. DiskOK(disk.queue, c, added, scripts', {}, reused)
  BY <1>6, <1>7, DiskScriptsOK
<1>28. \A Q \in SavedQueues(w) :
           \E x \in Lists : \E y :
               /\ Q = SaveDownloadQueue(x, y)
               /\ QueueOK(x, c, added, scripts', {}, reused)
  BY <1>9, <1>11, <1>15, <1>25
<1>29. MemoryOK(m, Without(c, Discarded(w, Len(w))), added, scripts', reused)
  BY <1>9, <1>26
<1>30. QueueOK(after, c, added, scripts', m.handing, reused) /\ (m.q = after \/ m.q = ReleaseAll(after))
  BY <1>15, <1>22
<1>31. added' \in [Collections -> {0, 1}] /\ up /\ Handle(m, w) /\ reused' = reused /\ added' = added
       /\ Saving(w) /\ w[Len(w)].queue = SaveDownloadQueue(after, mk) /\ after \in Lists
  BY <1>2, <1>6, <1>9, <1>15
<1> QED BY <1>7, <1>27, <1>28, <1>29, <1>30, <1>31, SavingStep DEF c

\* Contents that are discarded belong to other entries.
LEMMA ThereWithout ==
    ASSUME NEW c, Contents(c), NEW s, NEW t, There(s, c), Apart(s, t)
    PROVE  There(s, Without(c, IdsOf(t)))
<1>1. \A i \in DOMAIN s : s[i].id \notin IdsOf(t)
  BY DEF Apart, IdsOf
<1>2. /\ DOMAIN Without(c, IdsOf(t)) = DOMAIN c \ IdsOf(t)
      /\ \A id \in DOMAIN c \ IdsOf(t) : Without(c, IdsOf(t))[id] = c[id]
  BY WithoutFacts
<1> QED BY <1>1, <1>2 DEF There

\* When a collection has been added, no url that is free is the one it came from.
LEMMA FreeAfterAdding ==
    ASSUME NEW n \in Collections, NEW a \in [Collections -> {0, 1}], NEW h, NEW h2, h2 \subseteq h,
           UrlOf[n] = NoUrl \/ UrlOf[n] \in h, NEW u \in Urls, UrlFree(u, a, h)
    PROVE  UrlFree(u, [a EXCEPT ![n] = 1], h2)
<1>1. NzbOfUrl(u) \in Collections /\ UrlOf[NzbOfUrl(u)] = u
  BY UrlAndNzb
<1>2. u \notin h /\ a[NzbOfUrl(u)] = 0
  BY DEF UrlFree
<1>3. NzbOfUrl(u) # n
  BY <1>1, <1>2, PersistentAssumption
<1>4. [a EXCEPT ![n] = 1][NzbOfUrl(u)] = 0
  BY <1>1, <1>2, <1>3
<1> QED BY <1>2, <1>4 DEF UrlFree

\* A collection that has been added makes no difference to the other items.
LEMMA QueueAfterAdding ==
    ASSUME NEW n \in Collections, NEW a \in [Collections -> {0, 1}], NEW h, NEW h2, h2 \subseteq h,
           UrlOf[n] = NoUrl \/ UrlOf[n] \in h,
           NEW q, q.nzbs \in Seq(Collections), q.urls \in Seq(UrlItems), NEW c, NEW s, NEW r,
           QueueOK(q, c, a, s, h, r)
    PROVE  QueueOK(q, c, [a EXCEPT ![n] = 1], s, h2, r)
<1> DEFINE b == [a EXCEPT ![n] = 1]
<1>1. UrlsFree(q, b, h2)
  <2>1. UrlsFree(q, a, h)
    BY DEF QueueOK
  <2>2. ASSUME NEW i \in DOMAIN q.urls PROVE UrlFree(q.urls[i].url, b, h2)
    <3>1. q.urls[i] \in UrlItems
      BY LenProperties, ElementOfSeq
    <3>2. q.urls[i].url \in Urls /\ UrlFree(q.urls[i].url, a, h)
      BY <2>1, <3>1 DEF UrlItems, UrlsFree
    <3> QED BY <3>2, FreeAfterAdding
  <2>3. ASSUME NEW i \in DOMAIN q.history, q.history[i].of \in Urls
        PROVE  UrlFree(q.history[i].of, b, h2)
    <3>1. UrlFree(q.history[i].of, a, h)
      BY <2>1, <2>3 DEF UrlsFree
    <3> QED BY <2>3, <3>1, FreeAfterAdding
  <2> HIDE DEF b
  <2> QED BY <2>2, <2>3 DEF UrlsFree
<1>2. Listed(q, b)
  <2>1. ASSUME NEW i \in DOMAIN q.nzbs PROVE b[q.nzbs[i]] # 0
    <3>1. q.nzbs[i] \in Collections
      BY LenProperties, ElementOfSeq
    <3>2. a[q.nzbs[i]] # 0
      BY DEF QueueOK, Listed
    <3> QED BY <3>1, <3>2
  <2> HIDE DEF b
  <2> QED BY <2>1 DEF QueueOK, Listed
<1> QED BY <1>1, <1>2 DEF QueueOK

\* AddNZBFileToQueue keeps the invariant.
LEMMA AddNZBFileToQueueOK ==
    ASSUME IInv, NEW n \in Collections, NEW dupes, AddNZBFileToQueue(n, dupes)
    PROVE  IInv'
<1> DEFINE parsed == mem.parsed[n]
           S == {e \in ToSet(parsed) : e.file \notin dupes}
           D == {e \in ToSet(parsed) : e.file \in dupes}
           new == Only(parsed, S)
           old == Only(parsed, D)
           files == mem.q.files \o new
           nzbs == Append(mem.q.nzbs, n)
           q == [mem.q EXCEPT !.files = files, !.nzbs = nzbs]
           handing == mem.handing \ {UrlOf[n]}
           m == [[mem EXCEPT !.parsed[n] = <<>>, !.handing = handing] EXCEPT !.q = ReleaseAll(q)]
           w == Discards(old) \o <<Save(q, mem.marked)>>
           c == disk.contents
           d == Without(c, IdsOf(old))
           a == [added EXCEPT ![n] = 1]
<1>1. /\ mem \in Memories /\ mem.q \in Lists /\ mem.q.nzbs \in Seq(Collections)
      /\ mem.q.files \in Seq(Entries) /\ mem.q.urls \in Seq(UrlItems)
      /\ QueueOK(mem.q, c, added, scripts, mem.handing, reused)
      /\ Contents(c) /\ (\A u \in mem.handing : added[NzbOfUrl(u)] = 0)
  BY MemFacts
<1>2. /\ up /\ parsed # <<>> /\ Handle(m, w)
      /\ added' = [added EXCEPT ![n] = added[n] + 1]
      /\ scripts' = scripts /\ reused' = reused
  BY DEF AddNZBFileToQueue, WithQueue
<1>3. /\ MemoryOK(mem, c, added, scripts, reused) /\ added \in [Collections -> {0, 1}]
      /\ scripts \in [Collections -> {0, 1}]
      /\ DiskOK(disk.queue, c, added, scripts, mem.handing, reused)
  BY DEF IInv
<1>4. mem.loaded
  BY <1>2, <1>3 DEF MemoryOK
<1>5. ParsedOK(mem, n, c, added)
  BY <1>3 DEF MemoryOK
<1>6. /\ DistinctIds(parsed) /\ There(parsed, c) /\ UpTo(parsed, mem.idGen)
      /\ \A i \in DOMAIN parsed : parsed[i].nzb = n /\ parsed[i].file \in ToSet(FilesOf[n])
      /\ Apart(parsed, mem.q.files) /\ Apart(parsed, mem.q.parked)
      /\ \A o \in Collections : o # n => Apart(parsed, mem.parsed[o])
      /\ IF UrlOf[n] = NoUrl THEN added[n] = 0 ELSE UrlOf[n] \in mem.handing
  BY <1>2, <1>5 DEF ParsedOK
<1>7. added[n] = 0 /\ (UrlOf[n] = NoUrl \/ UrlOf[n] \in mem.handing)
  BY <1>1, <1>6, UrlAndNzb
<1>8. added' = a /\ a \in [Collections -> {0, 1}] /\ \A o \in Collections : o # n => a[o] = added[o]
  BY <1>2, <1>3, <1>7
<1>9. parsed \in Seq(Entries)
  BY <1>1 DEF Memories
<1>10. new \in Seq(Entries) /\ old \in Seq(Entries) /\ PartOf(new, parsed) /\ PartOf(old, parsed)
  BY <1>9, OnlyFacts
<1>11. Apart(new, old)
  <2>1. S \intersect D = {}
    OBVIOUS
  <2> HIDE DEF S, D, parsed
  <2> QED BY <1>6, <1>9, <2>1, ApartOnly
<1>12. /\ Saving(w) /\ w[Len(w)].queue = SaveDownloadQueue(q, mem.marked)
       /\ SavedQueues(w) = {SaveDownloadQueue(q, mem.marked)}
       /\ Discarded(w, Len(w)) = IdsOf(old)
  <2> HIDE DEF old, q
  <2> QED BY <1>10, DiscardsThenSave
<1> HIDE DEF new, old, w, a
<1>13. /\ IdPartOf(new, parsed) /\ IdPartOf(old, parsed) /\ IdPartOf(mem.q.files, mem.q.files)
       /\ IdPartOf(mem.q.parked, mem.q.parked)
       /\ \A o \in Collections : IdPartOf(mem.parsed[o], mem.parsed[o])
  BY <1>10, PartIsIdPart, PartOfItself
<1>14. /\ Apart(new, mem.q.files) /\ Apart(mem.q.files, new) /\ Apart(new, mem.q.parked)
       /\ Apart(mem.q.parked, new) /\ Apart(mem.q.files, old) /\ Apart(mem.q.parked, old)
  BY <1>6, <1>13, ApartPart
<1>15. \A o \in Collections : o # n => Apart(new, mem.parsed[o]) /\ Apart(mem.parsed[o], old)
  BY <1>6, <1>13, ApartPart
<1>16. There(new, c) /\ UpTo(new, mem.idGen)
  BY <1>6, <1>10, TherePart
<1>17. \A i \in DOMAIN new : new[i].nzb = n
  BY <1>6, <1>10 DEF PartOf
<1>18. Own(new, c, reused)
  <2>1. Own(parsed, c, reused)
    BY <1>6 DEF Own, There
  <2>2. Shrunk(c, c) /\ reused \subseteq reused
    BY DEF Shrunk
  <2> HIDE DEF parsed
  <2> QED BY <1>13, <2>1, <2>2, OwnPart
<1>19. Own(mem.q.files, c, reused) /\ Own(mem.q.parked, c, reused) /\ Apart(mem.q.files, mem.q.parked)
  BY <1>1 DEF QueueOK
<1>20. /\ files \in Seq(Entries) /\ Own(files, c, reused) /\ Apart(files, mem.q.parked)
       /\ ToSet(files) = ToSet(mem.q.files) \union ToSet(new)
  <2>1. files \in Seq(Entries) /\ ToSet(files) = ToSet(mem.q.files) \union ToSet(new)
    BY <1>1, <1>10, ConcatFacts
  <2>2. Own(files, c, reused)
    BY <1>1, <1>10, <1>14, <1>18, <1>19, OwnConcat
  <2>3. Apart(files, mem.q.parked)
    BY <1>1, <1>10, <1>14, <1>19, ApartConcat
  <2> QED BY <2>1, <2>2, <2>3
<1>21. /\ There(mem.q.files, c) /\ There(mem.q.parked, c)
       /\ UpTo(mem.q.files, mem.idGen) /\ UpTo(mem.q.parked, mem.idGen)
  BY <1>3 DEF MemoryOK
<1>22. There(files, d) /\ There(mem.q.parked, d) /\ UpTo(files, mem.idGen)
  <2>1. There(new, d) /\ There(mem.q.files, d) /\ There(mem.q.parked, d)
    BY <1>1, <1>11, <1>14, <1>16, <1>21, ThereWithout
  <2> HIDE DEF d
  <2>2. There(files, d) /\ UpTo(files, mem.idGen)
    BY <1>1, <1>10, <1>16, <1>21, <2>1, ThereConcat
  <2> QED BY <2>1, <2>2
<1>23. \A o \in Collections : o # n => Apart(mem.parsed[o], files)
  <2> SUFFICES ASSUME NEW o \in Collections, o # n PROVE Apart(mem.parsed[o], files)
    OBVIOUS
  <2>1. ParsedOK(mem, o, c, added)
    BY <1>3 DEF MemoryOK
  <2>2. Apart(mem.q.files, mem.parsed[o]) /\ Apart(new, mem.parsed[o])
    BY <1>15, <2>1 DEF ParsedOK, Apart
  <2> QED BY <1>1, <1>10, <2>2, ConcatFacts, ApartConcat
<1> HIDE DEF files
<1>24. QueueOK(mem.q, c, a, scripts, handing, reused)
  <2>1. handing \subseteq mem.handing
    OBVIOUS
  <2> QED BY <1>1, <1>3, <1>7, <2>1, QueueAfterAdding DEF a
<1>25. /\ nzbs \in Seq(Collections) /\ DOMAIN nzbs = DOMAIN mem.q.nzbs \union {Len(mem.q.nzbs) + 1}
       /\ \A i \in DOMAIN mem.q.nzbs : nzbs[i] = mem.q.nzbs[i]
       /\ nzbs[Len(mem.q.nzbs) + 1] = n /\ Len(mem.q.nzbs) + 1 \notin DOMAIN mem.q.nzbs
  BY <1>1
<1> HIDE DEF nzbs
<1>26. /\ q \in Lists /\ q.nzbs = nzbs /\ q.files = files /\ q.post = mem.q.post
       /\ q.urls = mem.q.urls /\ q.history = mem.q.history /\ q.parked = mem.q.parked
  BY <1>1, <1>20, <1>25 DEF Lists
<1> HIDE DEF q
<1>27. Listed(q, a)
  <2>1. \A i \in DOMAIN mem.q.nzbs : added[mem.q.nzbs[i]] # 0 /\ a[mem.q.nzbs[i]] # 0
    BY <1>1, <1>24 DEF QueueOK, Listed
  <2>2. \A i \in DOMAIN mem.q.nzbs : mem.q.nzbs[i] # n
    BY <1>7, <2>1
  <2>3. \A i, j \in DOMAIN mem.q.nzbs : mem.q.nzbs[i] = mem.q.nzbs[j] => i = j
    <3>1. IsInjective(mem.q.nzbs)
      BY <1>1 DEF QueueOK, Listed
    <3> QED BY <3>1 DEF IsInjective
  <2>4. IsInjective(nzbs)
    <3>1. \A i, j \in DOMAIN nzbs : nzbs[i] = nzbs[j] => i = j
      BY <1>25, <2>2, <2>3
    <3> QED BY <3>1 DEF IsInjective
  <2>5. a[n] # 0
    BY <1>3 DEF a
  <2>6. \A i \in DOMAIN nzbs : a[nzbs[i]] # 0
    BY <1>25, <2>1, <2>5
  <2>7. Referenced(q) \subseteq ToSet(nzbs)
    <3>1. ToSet(mem.q.nzbs) \subseteq ToSet(nzbs) /\ n \in ToSet(nzbs)
      BY <1>25 DEF ToSet
    <3>2. Referenced(mem.q) \subseteq ToSet(nzbs)
      BY <1>1, <3>1 DEF QueueOK, Listed
    <3>3. /\ \A e \in EntriesOf(mem.q) : e.nzb \in ToSet(nzbs)
          /\ \A i \in DOMAIN mem.q.post : mem.q.post[i].nzb \in ToSet(nzbs)
          /\ \A i \in DOMAIN mem.q.history :
                 mem.q.history[i].kind = "nzb" => mem.q.history[i].of \in ToSet(nzbs)
      BY <3>2, ReferencedIn
    <3>4. \A e \in ToSet(new) : e.nzb = n
      BY <1>17 DEF ToSet
    <3>5. EntriesOf(q) = EntriesOf(mem.q) \union ToSet(new)
      BY <1>20, <1>26 DEF EntriesOf
    <3>6. \A e \in EntriesOf(q) : e.nzb \in ToSet(nzbs)
      BY <3>1, <3>3, <3>4, <3>5
    <3> QED BY <1>26, <3>3, <3>6, ReferencedIn
  <2> QED BY <1>26, <2>4, <2>6, <2>7 DEF Listed
<1>28. QueueOK(q, c, a, scripts, handing, reused)
  <2>1. UrlOnce(q) /\ UrlsFree(q, a, handing)
    BY <1>24, <1>26 DEF QueueOK, UrlOnce, UrlsFree
  <2> QED BY <1>19, <1>20, <1>24, <1>26, <1>27, <2>1 DEF QueueOK
<1>29. Referenced(q) \subseteq ToSet(q.nzbs)
  BY <1>27 DEF Listed
<1>30. /\ ReleaseAll(q) \in Lists /\ ToSet(ReleaseAll(q).nzbs) = Referenced(ReleaseAll(q))
       /\ ReleaseAll(q).files = files /\ ReleaseAll(q).post = mem.q.post
       /\ ReleaseAll(q).parked = mem.q.parked
       /\ QueueOK(ReleaseAll(q), c, a, scripts, handing, reused)
  BY <1>26, <1>28, <1>29, ReleaseOK
<1>31. mem.parsed \in [Collections -> Seq(Entries)] /\ mem.handing \subseteq Urls
  BY <1>1 DEF Memories
<1>32. [mem.parsed EXCEPT ![n] = <<>>] \in [Collections -> Seq(Entries)]
  BY <1>31
<1> DEFINE parsed2 == [mem.parsed EXCEPT ![n] = <<>>]
<1>33. /\ m \in Memories /\ m.q = ReleaseAll(q) /\ m.marked = mem.marked /\ m.parsed = parsed2
       /\ m.idGen = mem.idGen /\ m.loaded = mem.loaded /\ m.handing = handing
       /\ m.working = mem.working
  <2>1. m = [mem EXCEPT !.parsed = parsed2, !.handing = handing, !.q = ReleaseAll(q)]
    OBVIOUS
  <2>2. parsed2 \in [Collections -> Seq(Entries)] /\ handing \subseteq Urls
    BY <1>31, <1>32
  <2> HIDE DEF parsed2, m, handing
  <2> QED BY <1>1, <1>30, <2>1, <2>2 DEF Memories
<1>34. parsed2[n] = <<>> /\ \A o \in Collections : o # n => parsed2[o] = mem.parsed[o]
  BY <1>31
<1> HIDE DEF parsed2, m
<1>35. QueueOK(m.q, d, a, scripts, m.handing, reused)
  <2>1. SmallerQueue(m.q, m.q) /\ m.q.nzbs = m.q.nzbs
    BY DEF SmallerQueue, IdPartOf, PartOf
  <2>2. Shrunk(d, c)
    BY <1>1, WithoutFacts
  <2> QED BY <1>30, <1>33, <2>1, <2>2, SmallerOK
<1>36. QueueOK(q, c, a, scripts, {}, reused)
  <2>1. SmallerQueue(q, q) /\ q.nzbs = q.nzbs
    BY DEF SmallerQueue, IdPartOf, PartOf
  <2>2. Shrunk(c, c) /\ {} \subseteq handing
    BY DEF Shrunk
  <2> QED BY <1>28, <2>1, <2>2, SmallerOK
<1>37. DiskOK(disk.queue, c, a, scripts, {}, reused)
  <2>1. /\ Reading(disk.queue) \in ReadLists
        /\ QueueOK(Reading(disk.queue), c, added, scripts, mem.handing, reused)
        /\ IsList(RowsRead(disk.queue, 2)) /\ IsList(RowsRead(disk.queue, 6))
    BY <1>3 DEF DiskOK
  <2>2. Reading(disk.queue).nzbs \in Seq(Collections) /\ Reading(disk.queue).urls \in Seq(UrlItems)
    BY <2>1 DEF ReadLists
  <2>3. QueueOK(Reading(disk.queue), c, a, scripts, {}, reused)
    <3>1. {} \subseteq mem.handing
      OBVIOUS
    <3> QED BY <1>3, <1>7, <2>1, <2>2, <3>1, QueueAfterAdding DEF a
  <2> QED BY <2>1, <2>3 DEF DiskOK
<1>38. ASSUME NEW o \in Collections PROVE ParsedOK(m, o, d, a)
  <2>1. CASE o = n
    <3>1. m.parsed[o] = <<>>
      BY <1>33, <1>34, <2>1
    <3> QED BY <3>1 DEF ParsedOK, DistinctIds, There, UpTo, Apart
  <2>2. CASE o # n
    <3> DEFINE s == mem.parsed[o]
    <3>1. m.parsed[o] = s
      BY <1>33, <1>34, <2>2
    <3>2. /\ DistinctIds(s) /\ There(s, c) /\ UpTo(s, mem.idGen)
          /\ \A i \in DOMAIN s : s[i].nzb = o /\ s[i].file \in ToSet(FilesOf[o])
          /\ Apart(s, mem.q.parked)
          /\ \A x \in Collections : x # o => Apart(s, mem.parsed[x])
          /\ s # <<>> => IF UrlOf[o] = NoUrl THEN added[o] = 0 ELSE UrlOf[o] \in mem.handing
      <4>1. ParsedOK(mem, o, c, added)
        BY <1>3 DEF MemoryOK
      <4> QED BY <4>1 DEF ParsedOK
    <3>3. Apart(s, files) /\ Apart(s, old)
      BY <1>15, <1>23, <2>2
    <3> HIDE DEF s
    <3>4. There(s, d)
      BY <1>1, <3>2, <3>3, ThereWithout
    <3>5. \A x \in Collections : x # o => Apart(s, m.parsed[x])
      <4> SUFFICES ASSUME NEW x \in Collections, x # o PROVE Apart(s, m.parsed[x])
        OBVIOUS
      <4>1. CASE x = n
        <5>1. m.parsed[x] = <<>>
          BY <1>33, <1>34, <4>1
        <5> QED BY <5>1 DEF Apart
      <4>2. CASE x # n
        BY <1>33, <1>34, <3>2, <4>2
      <4> QED BY <4>1, <4>2
    <3>6. s # <<>> => IF UrlOf[o] = NoUrl THEN a[o] = 0 ELSE UrlOf[o] \in m.handing
      <4>1. UrlOf[o] # NoUrl => UrlOf[o] # UrlOf[n]
        BY <2>2, PersistentAssumption
      <4>2. a[o] = added[o] /\ m.handing = mem.handing \ {UrlOf[n]}
        BY <1>8, <1>33, <2>2
      <4> QED BY <3>2, <4>1, <4>2
    <3>7. Apart(s, m.q.files) /\ Apart(s, m.q.parked) /\ UpTo(s, m.idGen)
      BY <1>30, <1>33, <3>2, <3>3
    <3> HIDE DEF d
    <3> QED BY <3>1, <3>2, <3>4, <3>5, <3>6, <3>7 DEF ParsedOK
  <2> QED BY <2>1, <2>2
<1>39. \A u \in m.handing : a[NzbOfUrl(u)] = 0
  <2> SUFFICES ASSUME NEW u \in m.handing PROVE a[NzbOfUrl(u)] = 0
    OBVIOUS
  <2>1. u \in mem.handing /\ u # UrlOf[n] /\ u \in Urls
    BY <1>31, <1>33
  <2>2. NzbOfUrl(u) \in Collections /\ NzbOfUrl(u) # n
    BY <2>1, UrlAndNzb
  <2> QED BY <1>1, <1>8, <2>1, <2>2
<1>40. m.marked \subseteq {m.q.files[i].id : i \in DOMAIN m.q.files}
  <2>1. mem.marked \subseteq IdsOf(mem.q.files)
    BY <1>3 DEF MemoryOK, IdsOf
  <2>2. m.marked \subseteq IdsOf(m.q.files)
    BY <1>20, <1>30, <1>33, <2>1, IdsOfSet
  <2> QED BY <2>2 DEF IdsOf
<1>41. MemoryOK(m, d, a, scripts, reused)
  <2>1. /\ There(m.q.files, d) /\ There(m.q.parked, d)
        /\ UpTo(m.q.files, m.idGen) /\ UpTo(m.q.parked, m.idGen)
    BY <1>21, <1>22, <1>30, <1>33
  <2>2. ToSet(m.q.nzbs) = Referenced(m.q) /\ (m.working => m.q.post # <<>>) /\ m.loaded
    BY <1>3, <1>4, <1>30, <1>33 DEF MemoryOK
  <2> HIDE DEF d
  <2> QED BY <1>33, <1>35, <1>38, <1>39, <1>40, <2>1, <2>2 DEF MemoryOK
<1> HIDE DEF c, handing
<1>42. \A Q \in SavedQueues(w) :
           \E x \in Lists : \E y :
               /\ Q = SaveDownloadQueue(x, y)
               /\ QueueOK(x, c, a, scripts, {}, reused)
  BY <1>12, <1>26, <1>36
<1>43. MemoryOK(m, Without(c, Discarded(w, Len(w))), a, scripts, reused)
  BY <1>12, <1>41
<1>44. QueueOK(q, c, a, scripts, m.handing, reused) /\ m.q = ReleaseAll(q)
  BY <1>28, <1>33
<1>45. added' \in [Collections -> {0, 1}] /\ scripts' \in [Collections -> {0, 1}] /\ q \in Lists
       /\ up /\ Handle(m, w) /\ Saving(w) /\ reused' = reused
       /\ w[Len(w)].queue = SaveDownloadQueue(q, mem.marked)
  BY <1>2, <1>3, <1>8, <1>12, <1>26
<1>46. /\ DiskOK(disk.queue, disk.contents, added', scripts', {}, reused)
       /\ QueueOK(q, disk.contents, added', scripts', m.handing, reused)
       /\ MemoryOK(m, Without(disk.contents, Discarded(w, Len(w))), added', scripts', reused)
  BY <1>2, <1>8, <1>37, <1>43, <1>44 DEF c
<1>47. \A Q \in SavedQueues(w) :
           \E x \in Lists : \E y :
               /\ Q = SaveDownloadQueue(x, y)
               /\ QueueOK(x, disk.contents, added', scripts', {}, reused)
  BY <1>2, <1>8, <1>42 DEF c
<1> QED BY <1>44, <1>45, <1>46, <1>47, SavingStep

\* Sanitise keeps the invariant: a job that starts over may start its script again.
LEMMA SanitiseOK == ASSUME IInv, NEW gone, Sanitise(gone) PROVE IInv'
<1> DEFINE old == mem.q.post
           post == IF {"queue", "post"} \subseteq mem.reload THEN SanitisePostQueue(old, gone) ELSE old
           q == [mem.q EXCEPT !.post = post]
           OverAgain(n) == \E k \in DOMAIN post : post[k].nzb = n /\ post[k].stage = "queued"
                                                   /\ old[k].stage = "finished"
<1>1. /\ mem \in Memories /\ mem.q \in Lists /\ old \in Seq(Jobs)
      /\ QueueOK(mem.q, disk.contents, added, scripts, mem.handing, reused)
      /\ ~mem.loaded => mem.q = EmptyLists
  BY MemFacts
<1>2. /\ mem' = [mem EXCEPT !.sanitised = TRUE, !.q = q]
      /\ scripts' = [n \in Collections |-> IF OverAgain(n) THEN 0 ELSE scripts[n]]
      /\ UNCHANGED <<up, disk, crashes, added, reused>>
  BY DEF Sanitise
<1>3. scripts \in [Collections -> {0, 1}] /\ JobsOK(old, scripts)
      /\ mem.marked \subseteq {mem.q.files[k].id : k \in DOMAIN mem.q.files}
      /\ (mem.working => old # <<>>)
  BY <1>1 DEF IInv, MemoryOK, QueueOK
<1>4. ASSUME NEW k \in DOMAIN old
      PROVE  /\ old[k] \in Jobs /\ old[k].nzb \in Collections /\ old[k].stage \in Stages
             /\ old[k].check => old[k].stage = "queued"
             /\ old[k].stage = "queued" => scripts[old[k].nzb] = 0
  <2>1. old[k] \in Jobs
    BY <1>1, LenProperties, ElementOfSeq
  <2> QED BY <1>3, <2>1 DEF Jobs, JobsOK
<1>5. DOMAIN post = DOMAIN old /\ post \in Seq(Jobs)
  <2>1. CASE {"queue", "post"} \subseteq mem.reload
    <3>1. post = SanitisePostQueue(old, gone)
      BY <2>1
    <3>2. \A k \in DOMAIN old : [old[k] EXCEPT !.stage = "finished", !.check = FALSE] \in Jobs
                                /\ [old[k] EXCEPT !.stage = "queued"] \in Jobs
      BY <1>4 DEF Jobs, Stages
    <3>3. DOMAIN old = 1..Len(old) /\ Len(old) \in Nat
      BY <1>1, LenProperties
    <3> DEFINE Fresh(k) == IF old[k].stage = "script" \/ old[k].nzb \in gone
                           THEN [old[k] EXCEPT !.stage = "finished", !.check = FALSE]
                           ELSE [old[k] EXCEPT !.stage = "queued"]
    <3>4. post = [k \in 1..Len(old) |-> Fresh(k)]
      BY <3>1, <3>3 DEF SanitisePostQueue
    <3>5. \A k \in 1..Len(old) : Fresh(k) \in Jobs
      BY <3>2, <3>3
    <3> HIDE DEF Fresh
    <3>6. post \in [1..Len(old) -> Jobs]
      BY <3>4, <3>5
    <3> HIDE DEF post
    <3> QED BY <3>3, <3>6
  <2>2. CASE ~({"queue", "post"} \subseteq mem.reload)
    BY <1>1, <2>2
  <2> QED BY <2>1, <2>2
<1>6. ASSUME NEW k \in DOMAIN old
      PROVE  /\ post[k].nzb = old[k].nzb
             /\ post[k].check => post[k].stage = "queued"
             /\ post[k].stage = "queued" => old[k].stage \in {"queued", "finished"}
  <2>1. CASE {"queue", "post"} \subseteq mem.reload
    <3>1. post[k] = IF old[k].stage = "script" \/ old[k].nzb \in gone
                    THEN [old[k] EXCEPT !.stage = "finished", !.check = FALSE]
                    ELSE [old[k] EXCEPT !.stage = "queued"]
      BY <2>1 DEF SanitisePostQueue
    <3> HIDE DEF post
    <3>2. CASE old[k].stage = "script" \/ old[k].nzb \in gone
      BY <1>4, <3>1, <3>2 DEF Jobs
    <3>3. CASE ~(old[k].stage = "script" \/ old[k].nzb \in gone)
      BY <1>4, <3>1, <3>3 DEF Jobs, Stages
    <3> QED BY <3>2, <3>3
  <2>2. CASE ~({"queue", "post"} \subseteq mem.reload)
    <3>1. post = old
      BY <2>2
    <3> HIDE DEF post
    <3> QED BY <1>4, <3>1
  <2> QED BY <2>1, <2>2
<1>7. scripts' \in [Collections -> {0, 1}]
      /\ \A n \in Collections : scripts'[n] = 0 \/ scripts'[n] = scripts[n]
  <2> HIDE DEF OverAgain
  <2> QED BY <1>2, <1>3
<1>8. ASSUME NEW k \in DOMAIN old, post[k].stage = "queued" PROVE scripts'[old[k].nzb] = 0
  <2>1. CASE old[k].stage = "queued"
    BY <1>4, <1>7, <2>1
  <2>2. CASE old[k].stage = "finished"
    <3>1. OverAgain(old[k].nzb)
      BY <1>5, <1>6, <1>8, <2>2
    <3> HIDE DEF OverAgain
    <3> QED BY <1>2, <1>4, <3>1
  <2> QED BY <1>6, <1>8, <2>1, <2>2
<1>9. mem.loaded \/ q = EmptyLists
  <2> SUFFICES ASSUME ~mem.loaded PROVE q = EmptyLists
    OBVIOUS
  <2>1. mem.q = EmptyLists /\ old = <<>>
    BY <1>1 DEF EmptyLists
  <2>2. post = <<>>
    <3>1. DOMAIN post = {} /\ post \in Seq(Jobs)
      BY <1>5, <2>1
    <3> HIDE DEF post
    <3> QED BY <3>1, EmptySeq, LenProperties
  <2> QED BY <2>1, <2>2 DEF EmptyLists
<1> HIDE DEF post, OverAgain
<1>10. /\ q \in Lists /\ q.nzbs = mem.q.nzbs /\ q.files = mem.q.files /\ q.post = post
       /\ q.urls = mem.q.urls /\ q.history = mem.q.history /\ q.parked = mem.q.parked
  BY <1>1, <1>5 DEF Lists
<1> HIDE DEF q
<1>11. /\ mem' \in Memories /\ mem'.q = q /\ mem'.marked = mem.marked /\ mem'.idGen = mem.idGen
       /\ mem'.reload = mem.reload /\ mem'.loaded = mem.loaded /\ mem'.parsed = mem.parsed
       /\ mem'.working = mem.working /\ mem'.handing = mem.handing
  BY <1>1, <1>2, <1>10 DEF Memories
<1>12. JobsOK(post, scripts')
  <2>1. \A i, j \in DOMAIN post : post[i].nzb = post[j].nzb => i = j
    BY <1>3, <1>5, <1>6 DEF JobsOK
  <2>2. \A i \in DOMAIN post : /\ post[i].check => post[i].stage = "queued"
                               /\ post[i].stage = "queued" => scripts'[post[i].nzb] = 0
    BY <1>5, <1>6, <1>8
  <2> QED BY <2>1, <2>2 DEF JobsOK
<1>13. mem.working => post # <<>>
  <2> SUFFICES ASSUME mem.working PROVE post # <<>>
    OBVIOUS
  <2>1. 1 \in DOMAIN old
    BY <1>1, <1>3, TailFacts
  <2>2. 1 \in DOMAIN post
    BY <1>5, <2>1
  <2> QED BY <2>2
<1>14. DOMAIN mem'.q.post = DOMAIN mem.q.post
       /\ \A i \in DOMAIN mem.q.post : mem'.q.post[i].nzb = mem.q.post[i].nzb
  BY <1>5, <1>6, <1>10, <1>11
<1>15. /\ JobsOK(mem'.q.post, scripts') /\ (mem'.working => mem'.q.post # <<>>)
       /\ (mem.loaded \/ mem'.q = EmptyLists) /\ mem'.q.nzbs = mem.q.nzbs
       /\ mem'.q.files = mem.q.files /\ mem'.q.parked = mem.q.parked
       /\ mem'.q.history = mem.q.history /\ mem'.q.urls = mem.q.urls
       /\ mem'.marked \subseteq {mem.q.files[i].id : i \in DOMAIN mem.q.files}
  BY <1>3, <1>9, <1>10, <1>11, <1>12, <1>13
<1>16. DOMAIN mem'.q.urls = DOMAIN mem.q.urls
       /\ \A i \in DOMAIN mem.q.urls : mem'.q.urls[i].url = mem.q.urls[i].url
  BY <1>15
<1>17. up' = up /\ disk' = disk /\ crashes' = crashes /\ added' = added /\ reused' = reused
  BY <1>2
<1> QED BY <1>7, <1>11, <1>14, <1>15, <1>16, <1>17, QuietChange

\* The ids of the rows.
LEMMA RowIds ==
    ASSUME NEW nzbs, NEW rows
    PROVE  \A i \in DOMAIN ReadFiles(nzbs, rows) :
               \E x \in ToSet(rows) : ReadFiles(nzbs, rows)[i].id = x.id
BY DEF ReadFiles, ToSet

\* Other contents may change.
LEMMA SameFilesLoaded ==
    ASSUME NEW nzbs, NEW rows, IsList(rows), NEW c, NEW d,
           \A x \in ToSet(rows) : /\ x.id \in DOMAIN c <=> x.id \in DOMAIN d
                                  /\ x.id \in DOMAIN c => c[x.id] = d[x.id]
    PROVE  LoadFileQueue(nzbs, rows, c) = LoadFileQueue(nzbs, rows, d)
<1> DEFINE S == {x \in ToSet(rows) : x.id \in DOMAIN c}
           found == Only(rows, S)
<1>1. S = {x \in ToSet(rows) : x.id \in DOMAIN d}
  OBVIOUS
<1>2. rows \in Seq(ToSet(rows))
  BY DEF IsList
<1>3. ToSet(found) = ToSet(rows) \intersect S
  <2> HIDE DEF S
  <2> QED BY <1>2, OnlyFacts
<1>4. LoadFileQueue(nzbs, rows, c)
          = [i \in DOMAIN found |->
                [id |-> found[i].id, file |-> c[found[i].id], nzb |-> nzbs[found[i].nzb]]]
  BY DEF LoadFileQueue
<1>5. LoadFileQueue(nzbs, rows, d)
          = [i \in DOMAIN found |->
                [id |-> found[i].id, file |-> d[found[i].id], nzb |-> nzbs[found[i].nzb]]]
  BY <1>1 DEF LoadFileQueue
<1>6. \A i \in DOMAIN found : c[found[i].id] = d[found[i].id]
  <2> SUFFICES ASSUME NEW i \in DOMAIN found PROVE c[found[i].id] = d[found[i].id]
    OBVIOUS
  <2>1. found[i] \in ToSet(found)
    BY DEF ToSet
  <2> HIDE DEF found
  <2> QED BY <1>3, <2>1
<1> HIDE DEF found
<1> QED BY <1>4, <1>5, <1>6

\* ParseNzb keeps the invariant: this is where an id may be given again.
LEMMA ParseNzbOK == ASSUME IInv, NEW n \in Collections, ParseNzb(n) PROVE IInv'
<1> DEFINE count == Len(FilesOf[n])
           entries == [k \in DOMAIN FilesOf[n] |->
                          [id |-> mem.idGen + k, file |-> FilesOf[n][k], nzb |-> n]]
           parsed == [mem.parsed EXCEPT ![n] = entries]
           m == [mem EXCEPT !.idGen = mem.idGen + count, !.parsed = parsed]
           ids == IdsOf(entries)
           c == disk.contents
           Q == disk.queue
<1>1. /\ mem \in Memories /\ mem.q \in Lists
      /\ QueueOK(mem.q, c, added, scripts, mem.handing, reused) /\ Contents(c)
  BY MemFacts
<1>2. /\ up /\ mem.loaded /\ mem.parsed[n] = <<>> /\ mem.idGen + count <= MaxId
      /\ IF UrlOf[n] = NoUrl THEN added[n] = 0 ELSE UrlOf[n] \in mem.handing
      /\ Handle(m, Writes(entries)) /\ UNCHANGED <<added, scripts>>
      /\ reused' = reused \union (ids \intersect SavedIds)
  BY DEF ParseNzb, IdsOf
<1>3. /\ MemoryOK(mem, c, added, scripts, reused) /\ IsDisk(disk)
      /\ up \in BOOLEAN /\ crashes \in 0..MaxCrashes /\ MaxCrashes \in Nat
      /\ added \in [Collections -> {0, 1}] /\ scripts \in [Collections -> {0, 1}]
      /\ DiskOK(Q, c, added, scripts, mem.handing, reused) /\ DiskIsCurrent
  BY PersistentAssumption DEF IInv, IsDisk
<1>4. mem.idGen \in Nat /\ count \in Nat /\ MaxId \in Nat /\ DOMAIN FilesOf[n] = 1..count
      /\ \A k \in 1..count : FilesOf[n][k] \in ToSet(FilesOf[n])
  <2>1. FilesOf[n] \in Seq(ToSet(FilesOf[n])) /\ MaxId \in Nat
    BY PersistentAssumption
  <2>2. count \in Nat /\ DOMAIN FilesOf[n] = 1..count
    BY <2>1, LenProperties
  <2> QED BY <1>1, <2>1, <2>2 DEF Memories, ToSet
<1> HIDE DEF count
<1>5. /\ DOMAIN entries = 1..count
      /\ \A k \in 1..count : /\ entries[k] \in Entries /\ entries[k].id = mem.idGen + k
                             /\ entries[k].nzb = n /\ entries[k].file \in ToSet(FilesOf[n])
  <2>1. DOMAIN entries = 1..count
    BY <1>4
  <2>2. ASSUME NEW k \in 1..count
        PROVE  /\ entries[k] \in Entries /\ entries[k].id = mem.idGen + k
               /\ entries[k].nzb = n /\ entries[k].file \in ToSet(FilesOf[n])
    <3>1. entries[k] = [id |-> mem.idGen + k, file |-> FilesOf[n][k], nzb |-> n]
      BY <1>4
    <3>2. mem.idGen + k \in Ids
      BY <1>2, <1>4 DEF Ids
    <3>3. FilesOf[n][k] \in ToSet(FilesOf[n])
      BY <1>4
    <3> HIDE DEF entries
    <3> QED BY <3>1, <3>2, <3>3 DEF Entries
  <2> QED BY <2>1, <2>2
<1>6. entries \in Seq(Entries)
  <2>1. entries \in [1..count -> Entries]
    BY <1>4, <1>5
  <2> HIDE DEF entries
  <2> QED BY <1>4, <2>1
<1> HIDE DEF entries
<1>7. DistinctIds(entries)
  BY <1>4, <1>5 DEF DistinctIds
<1>8. \A id \in ids : id \in Nat /\ id > mem.idGen /\ id <= mem.idGen + count
  BY <1>4, <1>5 DEF IdsOf
<1>9. \A s \in Seq(Entries) :
          UpTo(s, mem.idGen) => /\ UpTo(s, mem.idGen + count) /\ Apart(entries, s)
                                /\ \A i \in DOMAIN s : s[i].id \notin ids
  <2> SUFFICES ASSUME NEW s \in Seq(Entries), UpTo(s, mem.idGen)
               PROVE  /\ UpTo(s, mem.idGen + count) /\ Apart(entries, s)
                      /\ \A i \in DOMAIN s : s[i].id \notin ids
    OBVIOUS
  <2>1. ASSUME NEW i \in DOMAIN s PROVE s[i].id \notin ids /\ s[i].id <= mem.idGen + count
    <3>1. s[i] \in Entries
      BY LenProperties, ElementOfSeq
    <3>2. s[i].id \in Nat /\ s[i].id <= mem.idGen
      BY <1>4, <3>1 DEF Entries, Ids, UpTo
    <3> QED BY <1>4, <1>8, <3>2
  <2>2. Apart(entries, s)
    BY <2>1 DEF Apart, IdsOf
  <2>3. UpTo(s, mem.idGen + count)
    BY <2>1 DEF UpTo
  <2> QED BY <2>1, <2>2, <2>3
<1>10. mem.parsed \in [Collections -> Seq(Entries)]
  BY <1>1 DEF Memories
<1>11. parsed \in [Collections -> Seq(Entries)] /\ parsed[n] = entries
       /\ \A o \in Collections : o # n => parsed[o] = mem.parsed[o]
  BY <1>6, <1>10
<1> HIDE DEF parsed
<1> DEFINE gen == mem.idGen + count
<1>12. gen \in Nat
  BY <1>4
<1> HIDE DEF gen
<1>13. /\ m \in Memories /\ m.q = mem.q /\ m.marked = mem.marked /\ m.idGen = gen
       /\ m.reload = mem.reload /\ m.loaded = mem.loaded /\ m.parsed = parsed
       /\ m.working = mem.working /\ m.handing = mem.handing
  <2>1. m = [mem EXCEPT !.idGen = gen, !.parsed = parsed]
    BY DEF gen
  <2> HIDE DEF m
  <2> QED BY <1>1, <1>11, <1>12, <2>1 DEF Memories
<1> HIDE DEF m
<1>14. reused \subseteq reused'
  BY <1>2
<1>15. /\ Reading(Q) \in ReadLists /\ QueueOK(Reading(Q), c, added, scripts, mem.handing, reused)
       /\ IsList(RowsRead(Q, 2)) /\ IsList(RowsRead(Q, 6))
  BY <1>3 DEF DiskOK
<1>16. ASSUME NEW d, \A id \in DOMAIN d \ ids : id \in DOMAIN c /\ d[id] = c[id],
              NEW h, h \subseteq mem.handing
       PROVE  DiskOK(Q, d, added, scripts, h, reused')
  <2> DEFINE q == Reading(Q)
  <2>1. q.files = ReadFiles(RowsRead(Q, 1), RowsRead(Q, 2))
        /\ q.parked = ReadFiles(RowsRead(Q, 1), RowsRead(Q, 6))
    BY DEF Reading
  <2>2. \A i \in DOMAIN q.files : q.files[i].id \in SavedIds
    BY <2>1, RowIds DEF SavedIds
  <2>3. \A i \in DOMAIN q.parked : q.parked[i].id \in SavedIds
    BY <2>1, RowIds DEF SavedIds
  <2> HIDE DEF q
  <2>4. QueueOK(q, c, added, scripts, mem.handing, reused)
    BY <1>15 DEF q
  <2>5. Own(q.files, c, reused) /\ Own(q.parked, c, reused)
    BY <2>4 DEF QueueOK
  <2>6. Own(q.files, d, reused')
    <3>1. ASSUME NEW i \in DOMAIN q.files, q.files[i].id \in DOMAIN d \ reused'
          PROVE  d[q.files[i].id] \in ToSet(FilesOf[q.files[i].nzb])
      <4>1. q.files[i].id \notin ids
        BY <1>2, <2>2, <3>1
      <4>2. q.files[i].id \in DOMAIN c \ reused /\ d[q.files[i].id] = c[q.files[i].id]
        BY <1>14, <1>16, <3>1, <4>1
      <4> QED BY <2>5, <4>2 DEF Own
    <3> QED BY <2>5, <3>1 DEF Own
  <2>7. Own(q.parked, d, reused')
    <3>1. ASSUME NEW i \in DOMAIN q.parked, q.parked[i].id \in DOMAIN d \ reused'
          PROVE  d[q.parked[i].id] \in ToSet(FilesOf[q.parked[i].nzb])
      <4>1. q.parked[i].id \notin ids
        BY <1>2, <2>3, <3>1
      <4>2. q.parked[i].id \in DOMAIN c \ reused /\ d[q.parked[i].id] = c[q.parked[i].id]
        BY <1>14, <1>16, <3>1, <4>1
      <4> QED BY <2>5, <4>2 DEF Own
    <3> QED BY <2>5, <3>1 DEF Own
  <2>8. QueueOK(q, d, added, scripts, mem.handing, reused')
    BY <2>4, <2>6, <2>7 DEF QueueOK
  <2>9. SmallerQueue(q, q) /\ Shrunk(d, d) /\ q.nzbs = q.nzbs
    BY DEF SmallerQueue, IdPartOf, PartOf, Shrunk
  <2>10. QueueOK(q, d, added, scripts, h, reused')
    BY <1>16, <2>8, <2>9, SmallerOK
  <2> QED BY <1>15, <2>10 DEF q, DiskOK
<1>17. CASE /\ mem' = NewMemory({}) /\ up' = FALSE
            /\ crashes < MaxCrashes /\ crashes' = crashes + 1
            /\ IsDisk(disk') /\ disk'.queue = disk.queue
            /\ \A id \in DOMAIN disk'.contents \ IdsOf(entries) :
                   id \in DOMAIN disk.contents /\ disk'.contents[id] = disk.contents[id]
  <2>1. mem'.handing = {} /\ ~mem'.loaded
    BY <1>17 DEF NewMemory
  <2>2. DiskOK(disk'.queue, disk'.contents, added', scripts', mem'.handing, reused')
    <3>1. {} \subseteq mem.handing
      OBVIOUS
    <3>2. DiskOK(Q, disk'.contents, added, scripts, {}, reused')
      BY <1>16, <1>17, <3>1
    <3> QED BY <1>2, <1>17, <2>1, <3>2
  <2>3. MemoryOK(mem', disk'.contents, added', scripts', reused')
    BY <1>17, NewMemoryOK
  <2>4. up' \in BOOLEAN /\ crashes' \in 0..MaxCrashes
    <3>1. crashes' \in 0..MaxCrashes
      BY <1>3, <1>17
    <3> QED BY <1>17, <3>1
  <2>5. DiskIsCurrent'
    BY <2>1 DEF DiskIsCurrent
  <2> QED BY <1>2, <1>3, <1>17, <2>1, <2>2, <2>3, <2>4, <2>5 DEF IInv, IsDisk
<1>18. CASE /\ mem' = m /\ up' = up /\ crashes' = crashes
            /\ IsDisk(disk') /\ disk'.queue = disk.queue
            /\ There(entries, disk'.contents)
            /\ DOMAIN disk'.contents = DOMAIN disk.contents \union IdsOf(entries)
            /\ \A id \in DOMAIN disk.contents \ IdsOf(entries) :
                   disk'.contents[id] = disk.contents[id]
  <2> DEFINE d == disk'.contents
  <2>1. There(entries, d) /\ DOMAIN d = DOMAIN c \union ids /\ \A id \in DOMAIN c \ ids : d[id] = c[id]
    BY <1>18
  <2> HIDE DEF d
  <2>2. \A id \in DOMAIN d \ ids : id \in DOMAIN c /\ d[id] = c[id]
    BY <2>1
  <2>3. DiskOK(Q, d, added, scripts, mem.handing, reused')
    <3>1. mem.handing \subseteq mem.handing
      OBVIOUS
    <3> QED BY <1>16, <2>2, <3>1
  <2>4. \A s \in Seq(Entries) : There(s, c) /\ UpTo(s, mem.idGen) => There(s, d)
    <3> SUFFICES ASSUME NEW s \in Seq(Entries), There(s, c), UpTo(s, mem.idGen) PROVE There(s, d)
      OBVIOUS
    <3>1. \A i \in DOMAIN s : s[i].id \notin ids
      BY <1>9
    <3> QED BY <2>1, <3>1 DEF There
  <2>5. /\ There(mem.q.files, c) /\ There(mem.q.parked, c)
        /\ UpTo(mem.q.files, mem.idGen) /\ UpTo(mem.q.parked, mem.idGen)
        /\ mem.q.files \in Seq(Entries) /\ mem.q.parked \in Seq(Entries)
    BY <1>1, <1>3 DEF MemoryOK, Lists
  <2>6. There(mem.q.files, d) /\ There(mem.q.parked, d)
    BY <2>4, <2>5
  <2>7. QueueOK(mem.q, d, added, scripts, mem.handing, reused')
    <3>1. Own(mem.q.files, c, reused) /\ Own(mem.q.parked, c, reused)
      BY <1>1 DEF QueueOK
    <3>2. Own(mem.q.files, d, reused')
      BY <1>14, <2>5, <2>6, <3>1 DEF Own, There
    <3>3. Own(mem.q.parked, d, reused')
      BY <1>14, <2>5, <2>6, <3>1 DEF Own, There
    <3> QED BY <1>1, <3>2, <3>3 DEF QueueOK
  <2>8. ASSUME NEW o \in Collections PROVE ParsedOK(m, o, d, added)
    <3>1. CASE o = n
      <4>1. m.parsed[o] = entries
        BY <1>11, <1>13, <3>1
      <4>2. UpTo(entries, m.idGen)
        BY <1>4, <1>5, <1>13 DEF UpTo, gen
      <4>3. \A i \in DOMAIN entries : entries[i].nzb = o /\ entries[i].file \in ToSet(FilesOf[o])
        BY <1>5, <3>1
      <4>4. Apart(entries, m.q.files) /\ Apart(entries, m.q.parked)
        BY <1>9, <1>13, <2>5
      <4>5. \A x \in Collections : x # o => Apart(entries, m.parsed[x])
        <5> SUFFICES ASSUME NEW x \in Collections, x # o PROVE Apart(entries, m.parsed[x])
          OBVIOUS
        <5>1. ParsedOK(mem, x, c, added)
          BY <1>3 DEF MemoryOK
        <5>2. UpTo(mem.parsed[x], mem.idGen) /\ mem.parsed[x] \in Seq(Entries)
          BY <1>10, <5>1 DEF ParsedOK
        <5> QED BY <1>9, <1>11, <1>13, <3>1, <5>2
      <4>6. IF UrlOf[o] = NoUrl THEN added[o] = 0 ELSE UrlOf[o] \in m.handing
        BY <1>2, <1>13, <3>1
      <4> QED BY <1>7, <2>1, <4>1, <4>2, <4>3, <4>4, <4>5, <4>6 DEF ParsedOK
    <3>2. CASE o # n
      <4> DEFINE s == mem.parsed[o]
      <4>1. m.parsed[o] = s
        BY <1>11, <1>13, <3>2
      <4>2. /\ DistinctIds(s) /\ There(s, c) /\ UpTo(s, mem.idGen)
            /\ \A i \in DOMAIN s : s[i].nzb = o /\ s[i].file \in ToSet(FilesOf[o])
            /\ Apart(s, mem.q.files) /\ Apart(s, mem.q.parked)
            /\ \A x \in Collections : x # o => Apart(s, mem.parsed[x])
            /\ s # <<>> => IF UrlOf[o] = NoUrl THEN added[o] = 0 ELSE UrlOf[o] \in mem.handing
            /\ s \in Seq(Entries)
        <5>1. ParsedOK(mem, o, c, added)
          BY <1>3 DEF MemoryOK
        <5> QED BY <1>10, <5>1 DEF ParsedOK
      <4> HIDE DEF s
      <4>3. There(s, d) /\ UpTo(s, m.idGen)
        BY <1>9, <1>13, <2>4, <4>2 DEF gen
      <4>4. \A x \in Collections : x # o => Apart(s, m.parsed[x])
        <5> SUFFICES ASSUME NEW x \in Collections, x # o PROVE Apart(s, m.parsed[x])
          OBVIOUS
        <5>1. CASE x = n
          <6>1. Apart(entries, s)
            BY <1>9, <4>2
          <6>2. m.parsed[x] = entries
            BY <1>11, <1>13, <5>1
          <6> QED BY <6>1, <6>2 DEF Apart
        <5>2. CASE x # n
          BY <1>11, <1>13, <4>2, <5>2
        <5> QED BY <5>1, <5>2
      <4> QED BY <1>13, <4>1, <4>2, <4>3, <4>4 DEF ParsedOK
    <3> QED BY <3>1, <3>2
  <2>9. MemoryOK(m, d, added, scripts, reused')
    <3>1. UpTo(m.q.files, m.idGen) /\ UpTo(m.q.parked, m.idGen)
      BY <1>9, <1>13, <2>5 DEF gen
    <3>2. /\ QueueOK(m.q, d, added, scripts, m.handing, reused')
          /\ There(m.q.files, d) /\ There(m.q.parked, d)
      BY <1>13, <2>6, <2>7
    <3>3. /\ ToSet(m.q.nzbs) = Referenced(m.q)
          /\ m.marked \subseteq {m.q.files[i].id : i \in DOMAIN m.q.files}
          /\ \A u \in m.handing : added[NzbOfUrl(u)] = 0
          /\ (m.working => m.q.post # <<>>) /\ m.loaded
      BY <1>2, <1>3, <1>13 DEF MemoryOK
    <3> QED BY <1>13, <2>8, <3>1, <3>2, <3>3 DEF MemoryOK
  <2>10. DiskIsCurrent'
    <3> SUFFICES ASSUME mem'.reload \in {Everything, {}}, Intact(disk'.queue), ~NewFileHasSavedId'
                 PROVE  Essence(LoadDownloadQueue(disk', Everything)) = Essence(mem'.q)
      BY DEF DiskIsCurrent
    <3>1. SavedIds' = SavedIds
      BY <1>18 DEF SavedIds
    <3>2. \A o \in Collections : \A e \in ToSet(parsed[o]) : e.id \notin SavedIds
      BY <1>13, <1>18, <3>1 DEF NewFileHasSavedId
    <3>3. \A id \in ids : id \notin SavedIds
      <4>1. \A e \in ToSet(entries) : e.id \notin SavedIds
        BY <1>11, <3>2
      <4> QED BY <4>1, IdsOfSet
    <3>4. ~NewFileHasSavedId
      <4> SUFFICES ASSUME NEW o \in Collections, NEW e \in ToSet(mem.parsed[o]) PROVE e.id \notin SavedIds
        BY DEF NewFileHasSavedId
      <4>1. CASE o = n
        BY <1>2, <4>1 DEF ToSet
      <4>2. CASE o # n
        BY <1>11, <3>2, <4>2
      <4> QED BY <4>1, <4>2
    <3>5. Essence(LoadDownloadQueue(disk, Everything)) = Essence(mem.q)
      BY <1>2, <1>3, <1>13, <1>18, <3>4 DEF DiskIsCurrent
    <3>6. \A x \in ToSet(RowsRead(Q, 2)) \union ToSet(RowsRead(Q, 6)) :
              /\ x.id \in DOMAIN c <=> x.id \in DOMAIN d
              /\ x.id \in DOMAIN c => c[x.id] = d[x.id]
      <4> SUFFICES ASSUME NEW x \in ToSet(RowsRead(Q, 2)) \union ToSet(RowsRead(Q, 6))
                   PROVE  /\ x.id \in DOMAIN c <=> x.id \in DOMAIN d
                          /\ x.id \in DOMAIN c => c[x.id] = d[x.id]
        OBVIOUS
      <4>1. x.id \in SavedIds
        BY DEF SavedIds
      <4>2. x.id \notin ids
        BY <3>3, <4>1
      <4> QED BY <2>1, <4>2
    <3>7. \A nzbs : /\ LoadFileQueue(nzbs, RowsRead(Q, 2), c) = LoadFileQueue(nzbs, RowsRead(Q, 2), d)
                    /\ LoadFileQueue(nzbs, RowsRead(Q, 6), c) = LoadFileQueue(nzbs, RowsRead(Q, 6), d)
      BY <1>15, <3>6, SameFilesLoaded
    <3>8. LoadDownloadQueue(disk', Everything) = LoadDownloadQueue(disk, Everything)
      BY <1>18, <3>7 DEF LoadDownloadQueue, d
    <3> QED BY <1>13, <1>18, <3>5, <3>8
  <2>11. DiskOK(disk'.queue, disk'.contents, added', scripts', mem'.handing, reused')
         /\ MemoryOK(mem', disk'.contents, added', scripts', reused')
    BY <1>2, <1>13, <1>18, <2>3, <2>9 DEF d
  <2> QED BY <1>2, <1>3, <1>18, <2>10, <2>11 DEF IInv, IsDisk
<1> QED BY <1>2, <1>3, <1>6, <1>7, <1>17, <1>18, HandleWriting

\* The generator of ids, after each row.
GenStep(id, C, gen) == IF id \in C /\ id > gen + 1 THEN id ELSE gen + 1

Gens(rows, C, n, gen) ==
    gen = [k \in 0..n |-> IF k = 0 THEN 0
                          ELSE IF rows[k].id \in C /\ rows[k].id > gen[k - 1] + 1
                               THEN rows[k].id ELSE gen[k - 1] + 1]

\* The recursion of IdGenAfterLoad has a solution.
LEMMA GensExists == ASSUME NEW rows, NEW C PROVE \A n \in Nat : \E gen : Gens(rows, C, n, gen)
<1> DEFINE N == {n \in Nat : \E gen : Gens(rows, C, n, gen)}
<1>1. 0 \in N
  <2>1. Gens(rows, C, 0, [k \in 0..0 |-> 0])
    BY DEF Gens
  <2> QED BY <2>1
<1>2. ASSUME NEW n \in Nat, n \in N PROVE n + 1 \in N
  <2>1. PICK a : Gens(rows, C, n, a)
    BY <1>2
  <2> DEFINE b == [k \in 0..(n + 1) |-> IF k = 0 THEN 0 ELSE GenStep(rows[k].id, C, a[k - 1])]
  <2>2. ASSUME NEW k \in 0..n PROVE b[k] = a[k]
    BY <2>1 DEF Gens, GenStep
  <2>3. ASSUME NEW k \in 0..(n + 1)
        PROVE  b[k] = IF k = 0 THEN 0 ELSE GenStep(rows[k].id, C, b[k - 1])
    <3>1. CASE k = 0
      BY <3>1
    <3>2. CASE k # 0
      <4>1. k - 1 \in 0..n
        BY <3>2
      <4>2. b[k - 1] = a[k - 1]
        BY <4>1, <2>2
      <4> QED BY <3>2, <4>2
    <3> QED BY <3>1, <3>2
  <2>4. b = [k \in 0..(n + 1) |-> IF k = 0 THEN 0 ELSE GenStep(rows[k].id, C, b[k - 1])]
    BY <2>3
  <2> HIDE DEF b
  <2>5. Gens(rows, C, n + 1, b)
    BY <2>4 DEF Gens, GenStep
  <2> QED BY <2>5
<1> HIDE DEF N
<1>3. Nat \subseteq N
  BY <1>1, <1>2, SetInduction
<1> QED BY <1>3 DEF N

\* The generator grows, and reaches an id that is in use.
LEMMA GenStepFacts ==
    ASSUME NEW id \in Nat, NEW C, NEW gen \in Nat
    PROVE  /\ GenStep(id, C, gen) \in Nat /\ GenStep(id, C, gen) > gen
           /\ id \in C => id <= GenStep(id, C, gen)
BY DEF GenStep

\* Rows without contents are skipped, but the ids of the others are not given again.
LEMMA IdGenFacts ==
    ASSUME NEW d, NEW T, \A x \in T : x.id \in Nat,
           RowsRead(d.queue, 2) \in Seq(T), RowsRead(d.queue, 6) \in Seq(T)
    PROVE  /\ IdGenAfterLoad(d) \in Nat
           /\ \A x \in ToSet(RowsRead(d.queue, 2)) \union ToSet(RowsRead(d.queue, 6)) :
                  x.id \in DOMAIN d.contents => x.id <= IdGenAfterLoad(d)
<1> DEFINE rows == RowsRead(d.queue, 2) \o RowsRead(d.queue, 6)
           C == DOMAIN d.contents
           gen == CHOOSE gen : Gens(rows, C, Len(rows), gen)
<1>1. rows \in Seq(T) /\ ToSet(rows) = ToSet(RowsRead(d.queue, 2)) \union ToSet(RowsRead(d.queue, 6))
  BY ConcatFacts
<1>2. Len(rows) \in Nat /\ DOMAIN rows = 1..Len(rows)
  BY <1>1, LenProperties
<1>3. Gens(rows, C, Len(rows), gen)
  BY <1>2, GensExists
<1>4. IdGenAfterLoad(d) = gen[Len(rows)]
  BY DEF IdGenAfterLoad, Gens
<1> HIDE DEF gen, rows, C
<1>5. gen[0] = 0 /\ \A k \in 1..Len(rows) : gen[k] = GenStep(rows[k].id, C, gen[k - 1])
  <2>1. gen = [k \in 0..Len(rows) |-> IF k = 0 THEN 0 ELSE GenStep(rows[k].id, C, gen[k - 1])]
    BY <1>3 DEF Gens, GenStep
  <2>2. gen[0] = 0
    <3>1. 0 \in 0..Len(rows)
      BY <1>2
    <3> QED BY <2>1, <3>1
  <2>3. ASSUME NEW k \in 1..Len(rows) PROVE gen[k] = GenStep(rows[k].id, C, gen[k - 1])
    <3>1. k \in 0..Len(rows) /\ k # 0
      BY <1>2
    <3> QED BY <2>1, <3>1
  <2> QED BY <2>2, <2>3
<1>6. \A k \in 1..Len(rows) : rows[k].id \in Nat
  BY <1>1, <1>2, ElementOfSeq
<1> DEFINE Reached(k) == gen[k] \in Nat /\ \A j \in 1..k : rows[j].id \in C => rows[j].id <= gen[k]
           N == {k \in Nat : k <= Len(rows) => Reached(k)}
<1>7. 0 \in N
  BY <1>5
<1>8. ASSUME NEW k \in Nat, k \in N PROVE k + 1 \in N
  <2> SUFFICES ASSUME k + 1 <= Len(rows) PROVE Reached(k + 1)
    OBVIOUS
  <2>1. Reached(k) /\ k + 1 \in 1..Len(rows) /\ k + 1 - 1 = k
    BY <1>2, <1>8
  <2>2. gen[k + 1] = GenStep(rows[k + 1].id, C, gen[k]) /\ rows[k + 1].id \in Nat
    BY <1>5, <1>6, <2>1
  <2>3. gen[k + 1] \in Nat /\ gen[k + 1] > gen[k]
        /\ (rows[k + 1].id \in C => rows[k + 1].id <= gen[k + 1])
    <3>1. gen[k] \in Nat
      BY <2>1
    <3> QED BY <2>2, <3>1, GenStepFacts
  <2>4. ASSUME NEW j \in 1..(k + 1), rows[j].id \in C PROVE rows[j].id <= gen[k + 1]
    <3>1. CASE j = k + 1
      BY <2>3, <2>4, <3>1
    <3>2. CASE j # k + 1
      <4>1. j \in 1..k /\ j \in 1..Len(rows)
        BY <1>2, <2>1, <3>2
      <4>2. rows[j].id <= gen[k] /\ rows[j].id \in Nat
        BY <1>6, <2>1, <2>4, <4>1
      <4> QED BY <2>1, <2>3, <4>2
    <3> QED BY <3>1, <3>2
  <2> QED BY <2>3, <2>4
<1> HIDE DEF N
<1>9. Nat \subseteq N
  BY <1>7, <1>8, SetInduction
<1>10. Reached(Len(rows))
  BY <1>2, <1>9 DEF N
<1>11. \A x \in ToSet(rows) : x.id \in C => x.id <= gen[Len(rows)]
  BY <1>2, <1>10 DEF ToSet
<1> QED BY <1>1, <1>4, <1>10, <1>11 DEF C

\* The files that are loaded: rows with their contents.
FilesAreLoaded(files, nzbs, rows, c) ==
    /\ files \in Seq(Entries) /\ IdPartOf(files, ReadFiles(nzbs, rows)) /\ There(files, c)
    /\ \A i \in DOMAIN files : \E x \in ToSet(rows) : files[i].id = x.id

\* LoadFileQueue returns such files.
LEMMA FilesLoaded ==
    ASSUME NEW nzbs, NEW rows, IsList(rows), ReadFiles(nzbs, rows) \in Seq(Rows),
           NEW c, Contents(c)
    PROVE  FilesAreLoaded(LoadFileQueue(nzbs, rows, c), nzbs, rows, c)
<1> DEFINE S == {x \in ToSet(rows) : x.id \in DOMAIN c}
           found == Only(rows, S)
           Entry(i) == [id |-> found[i].id, file |-> c[found[i].id], nzb |-> nzbs[found[i].nzb]]
           files == [i \in DOMAIN found |-> Entry(i)]
           read == ReadFiles(nzbs, rows)
<1>1. LoadFileQueue(nzbs, rows, c) = files
  BY DEF LoadFileQueue
<1>2. rows \in Seq(ToSet(rows))
  BY DEF IsList
<1>3. found \in Seq(ToSet(rows)) /\ PartOf(found, rows)
  <2> HIDE DEF S
  <2> QED BY <1>2, OnlyFacts
<1>4. ToSet(found) = ToSet(rows) \intersect S
  <2> HIDE DEF S
  <2> QED BY <1>2, OnlyFacts
<1> HIDE DEF found
<1>5. Len(found) \in Nat /\ DOMAIN found = 1..Len(found)
  BY <1>3, LenProperties
<1>6. ASSUME NEW i \in DOMAIN found PROVE found[i] \in ToSet(rows) /\ found[i].id \in DOMAIN c
  <2>1. found[i] \in ToSet(found)
    BY DEF ToSet
  <2> QED BY <1>4, <2>1
<1>7. DOMAIN read = DOMAIN rows
      /\ \A k \in DOMAIN rows : read[k].id = rows[k].id /\ read[k].nzb = nzbs[rows[k].nzb]
  BY DEF ReadFiles
<1>8. \A k \in DOMAIN rows : rows[k].id \in Ids /\ nzbs[rows[k].nzb] \in Collections
  <2> SUFFICES ASSUME NEW k \in DOMAIN rows
               PROVE  rows[k].id \in Ids /\ nzbs[rows[k].nzb] \in Collections
    OBVIOUS
  <2>1. read[k] \in Rows
    BY <1>7, LenProperties, ElementOfSeq
  <2> HIDE DEF read
  <2> QED BY <1>7, <2>1 DEF Rows
<1> HIDE DEF read
<1>9. ASSUME NEW i \in DOMAIN found PROVE Entry(i) \in Entries
  <2>1. PICK k \in DOMAIN rows : found[i] = rows[k]
    BY <1>3 DEF PartOf
  <2>2. found[i].id \in Ids /\ nzbs[found[i].nzb] \in Collections
    BY <1>8, <2>1
  <2>3. c[found[i].id] \in Files
    BY <1>6 DEF Contents
  <2> QED BY <2>2, <2>3 DEF Entries, Files
<1>10. files \in [1..Len(found) -> Entries]
  <2> HIDE DEF Entry
  <2> QED BY <1>5, <1>9
<1>11. files \in Seq(Entries)
  <2> HIDE DEF files
  <2> QED BY <1>5, <1>10
<1>12. /\ DOMAIN files = DOMAIN found
       /\ \A i \in DOMAIN found : /\ files[i].id = found[i].id /\ files[i].file = c[found[i].id]
                                  /\ files[i].nzb = nzbs[found[i].nzb]
  OBVIOUS
<1> HIDE DEF files, Entry
<1>13. There(files, c)
  BY <1>6, <1>12 DEF There
<1>14. \A i \in DOMAIN files : \E x \in ToSet(rows) : files[i].id = x.id
  BY <1>6, <1>12
<1>15. IdPartOf(files, read)
  <2>1. ASSUME NEW i \in DOMAIN files
        PROVE  \E k \in DOMAIN read : files[i].id = read[k].id /\ files[i].nzb = read[k].nzb
    <3>1. PICK k \in DOMAIN rows : found[i] = rows[k]
      BY <1>3, <1>12 DEF PartOf
    <3> QED BY <1>7, <1>12, <3>1
  <2>2. ASSUME NEW i \in DOMAIN files, NEW j \in DOMAIN files, i # j
        PROVE  \E k, l \in DOMAIN read :
                   /\ k # l /\ files[i].id = read[k].id /\ files[i].nzb = read[k].nzb
                   /\ files[j].id = read[l].id /\ files[j].nzb = read[l].nzb
    <3>1. PICK k, l \in DOMAIN rows : k # l /\ found[i] = rows[k] /\ found[j] = rows[l]
      BY <1>3, <1>12, <2>2 DEF PartOf
    <3> QED BY <1>7, <1>12, <3>1
  <2> QED BY <2>1, <2>2 DEF IdPartOf
<1> QED BY <1>1, <1>11, <1>13, <1>14, <1>15 DEF FilesAreLoaded, read

\* A list of rows whose ids are numbers.
LEMMA RowsHaveIds ==
    ASSUME NEW nzbs, NEW rows, IsList(rows), ReadFiles(nzbs, rows) \in Seq(Rows)
    PROVE  \A x \in ToSet(rows) : x.id \in Nat
<1> SUFFICES ASSUME NEW x \in ToSet(rows) PROVE x.id \in Nat
  OBVIOUS
<1>1. PICK i \in DOMAIN rows : rows[i] = x
  BY DEF ToSet
<1> DEFINE read == ReadFiles(nzbs, rows)
<1>2. i \in DOMAIN read /\ read[i].id = rows[i].id
  BY DEF ReadFiles
<1> HIDE DEF read
<1>3. read \in Seq(Rows)
  BY DEF read
<1>4. read[i] \in Rows
  BY <1>2, <1>3, LenProperties, ElementOfSeq
<1>5. read[i].id \in Nat
  BY <1>4, PersistentAssumption DEF Rows, Ids
<1> QED BY <1>1, <1>2, <1>5

\* What a load brings into the memory.
LoadsWell(l, d, a, s, h, r) ==
    /\ IdGenAfterLoad(d) \in Nat
    /\ l \in Lists /\ QueueOK(l, d.contents, a, s, h, r)
    /\ There(l.files, d.contents) /\ There(l.parked, d.contents)
    /\ UpTo(l.files, IdGenAfterLoad(d)) /\ UpTo(l.parked, IdGenAfterLoad(d))

\* Loaded returns such lists.
LEMMA LoadedOK ==
    ASSUME NEW d, Contents(d.contents), NEW a, NEW s, NEW h, NEW r,
           DiskOK(d.queue, d.contents, a, s, h, r), NEW reload
    PROVE  LoadsWell(Loaded(d, reload), d, a, s, h, r)
<1> DEFINE R == Reading(d.queue)
           l == Loaded(d, reload)
           nzbs == RowsRead(d.queue, 1)
           rows2 == RowsRead(d.queue, 2)
           rows6 == RowsRead(d.queue, 6)
           c == d.contents
           gen == IdGenAfterLoad(d)
<1>1. /\ R \in ReadLists /\ QueueOK(R, c, a, s, h, r)
      /\ IsList(rows2) /\ IsList(rows6)
  BY DEF DiskOK
<1>2. /\ R.nzbs = nzbs /\ R.files = ReadFiles(nzbs, rows2) /\ R.parked = ReadFiles(nzbs, rows6)
      /\ R.post = LoadPostQueue(nzbs, RowsRead(d.queue, 3)) /\ R.urls = RowsRead(d.queue, 4)
      /\ R.history = LoadHistory(nzbs, RowsRead(d.queue, 5))
  BY DEF Reading
<1>3. /\ l = [nzbs |-> nzbs, files |-> LoadFileQueue(nzbs, rows2, c), post |-> l.post,
              urls |-> l.urls, history |-> R.history, parked |-> LoadFileQueue(nzbs, rows6, c)]
      /\ l.post = R.post \/ l.post = LoadPostQueue(nzbs, <<>>)
      /\ l.urls = R.urls \/ l.urls = <<>>
  BY <1>2 DEF Loaded
<1>4. LoadPostQueue(nzbs, <<>>) = <<>>
  BY DEF LoadPostQueue
<1> HIDE DEF R, l, nzbs, rows2, rows6, c, gen
<1>5. /\ R.nzbs \in Seq(Collections) /\ R.files \in Seq(Rows) /\ R.post \in Seq(Jobs)
      /\ R.urls \in Seq(UrlItems) /\ R.history \in Seq(HistoryItems) /\ R.parked \in Seq(Rows)
  BY <1>1 DEF ReadLists
<1>6. FilesAreLoaded(l.files, nzbs, rows2, c)
  <2>1. Contents(c) /\ ReadFiles(nzbs, rows2) \in Seq(Rows)
    BY <1>2, <1>5 DEF c
  <2>2. FilesAreLoaded(LoadFileQueue(nzbs, rows2, c), nzbs, rows2, c)
    BY <1>1, <2>1, FilesLoaded
  <2> QED BY <1>3, <2>2
<1>7. FilesAreLoaded(l.parked, nzbs, rows6, c)
  <2>1. Contents(c) /\ ReadFiles(nzbs, rows6) \in Seq(Rows)
    BY <1>2, <1>5 DEF c
  <2>2. FilesAreLoaded(LoadFileQueue(nzbs, rows6, c), nzbs, rows6, c)
    BY <1>1, <2>1, FilesLoaded
  <2> QED BY <1>3, <2>2
<1>8. /\ l.files \in Seq(Entries) /\ IdPartOf(l.files, R.files) /\ There(l.files, c)
      /\ \A i \in DOMAIN l.files : \E x \in ToSet(rows2) : l.files[i].id = x.id
  BY <1>2, <1>6 DEF FilesAreLoaded
<1>9. /\ l.parked \in Seq(Entries) /\ IdPartOf(l.parked, R.parked) /\ There(l.parked, c)
      /\ \A i \in DOMAIN l.parked : \E x \in ToSet(rows6) : l.parked[i].id = x.id
  BY <1>2, <1>7 DEF FilesAreLoaded
<1>10. l.post \in Seq(Jobs) /\ PartOf(l.post, R.post)
  <2>1. R.post \in Seq(Jobs) /\ PartOf(R.post, R.post)
    BY <1>5, PartOfItself
  <2>2. <<>> \in Seq(Jobs) /\ PartOf(<<>>, R.post)
    BY PartOfEmpty
  <2> QED BY <1>3, <1>4, <2>1, <2>2
<1>11. l.urls \in Seq(UrlItems) /\ PartOf(l.urls, R.urls)
  <2>1. R.urls \in Seq(UrlItems) /\ PartOf(R.urls, R.urls)
    BY <1>5, PartOfItself
  <2>2. <<>> \in Seq(UrlItems) /\ PartOf(<<>>, R.urls)
    BY PartOfEmpty
  <2> QED BY <1>3, <2>1, <2>2
<1>12. l.nzbs = R.nzbs /\ l.history = R.history
  BY <1>2, <1>3
<1>13. l \in Lists
  BY <1>3, <1>5, <1>8, <1>9, <1>10, <1>11, <1>12 DEF Lists
<1>14. SmallerQueue(l, R)
  BY <1>8, <1>9, <1>10, <1>11, <1>12, PartOfItself DEF SmallerQueue
<1>15. Shrunk(c, c) /\ h \subseteq h
  BY DEF Shrunk
<1>16. QueueOK(l, c, a, s, h, r)
  BY <1>1, <1>12, <1>14, <1>15, SmallerOK
<1>17. gen \in Nat /\ \A x \in ToSet(rows2) \union ToSet(rows6) : x.id \in DOMAIN c => x.id <= gen
  <2> DEFINE T == ToSet(rows2) \union ToSet(rows6)
  <2>1. rows2 \in Seq(T) /\ rows6 \in Seq(T)
    BY <1>1 DEF IsList
  <2>2. \A x \in T : x.id \in Nat
    BY <1>1, <1>2, <1>5, RowsHaveIds
  <2> HIDE DEF T
  <2>3. RowsRead(d.queue, 2) \in Seq(T) /\ RowsRead(d.queue, 6) \in Seq(T)
    BY <2>1 DEF rows2, rows6
  <2>4. /\ IdGenAfterLoad(d) \in Nat
        /\ \A x \in ToSet(RowsRead(d.queue, 2)) \union ToSet(RowsRead(d.queue, 6)) :
               x.id \in DOMAIN d.contents => x.id <= IdGenAfterLoad(d)
    BY <2>2, <2>3, IdGenFacts
  <2> QED BY <2>4 DEF gen, rows2, rows6, c
<1>18. UpTo(l.files, gen)
  <2>1. \A i \in DOMAIN l.files : l.files[i].id \in DOMAIN c
    BY <1>8 DEF There
  <2> QED BY <1>8, <1>17, <2>1 DEF UpTo
<1>19. UpTo(l.parked, gen)
  <2>1. \A i \in DOMAIN l.parked : l.parked[i].id \in DOMAIN c
    BY <1>9 DEF There
  <2> QED BY <1>9, <1>17, <2>1 DEF UpTo
<1> QED BY <1>8, <1>9, <1>13, <1>16, <1>17, <1>18, <1>19 DEF LoadsWell, l, gen, c

\* Before the queue is loaded, nothing is in the memory.
LEMMA UnloadedFacts ==
    ASSUME IInv, ~mem.loaded
    PROVE  /\ mem \in Memories /\ mem.q = EmptyLists /\ mem.handing = {} /\ mem.marked = {}
           /\ \A n \in Collections : mem.parsed[n] = <<>>
           /\ ~mem.working
<1>1. MemoryOK(mem, disk.contents, added, scripts, reused)
  BY DEF IInv
<1>2. mem.q = EmptyLists
  BY <1>1 DEF MemoryOK
<1>3. mem.q.files = <<>> /\ mem.q.post = <<>>
  BY <1>2 DEF EmptyLists
<1>4. {mem.q.files[i].id : i \in DOMAIN mem.q.files} = {}
  BY <1>3
<1> QED BY <1>1, <1>3, <1>4 DEF MemoryOK

\* Nothing is being parsed.
LEMMA NothingParsed ==
    ASSUME NEW m, \A n \in Collections : m.parsed[n] = <<>>, NEW c, NEW a
    PROVE  \A n \in Collections : ParsedOK(m, n, c, a)
BY DEF ParsedOK, DistinctIds, There, UpTo, Apart

\* The contents of the files of the queue that is discarded are gone.
LEMMA DiscardedFacts ==
    ASSUME NEW d, IsDisk(d)
    PROVE  LET e == DiscardDownloadQueue(d)
           IN  IsDisk(e) /\ e.queue = <<>> /\ Shrunk(e.contents, d.contents)
<1> DEFINE e == DiscardDownloadQueue(d)
           ids == {r.id : r \in ToSet(RowsRead(d.queue, 2))}
<1>1. CASE d.queue = <<>>
  <2>1. e = d
    BY <1>1 DEF DiscardDownloadQueue
  <2> QED BY <1>1, <2>1 DEF Shrunk
<1>2. CASE d.queue # <<>>
  <2>1. e = [queue |-> <<>>, contents |-> Without(d.contents, ids)]
    BY <1>2 DEF DiscardDownloadQueue, Without
  <2>2. Contents(Without(d.contents, ids)) /\ Shrunk(Without(d.contents, ids), d.contents)
    BY WithoutFacts DEF IsDisk
  <2> HIDE DEF e, ids
  <2>3. e = [queue |-> e.queue, contents |-> e.contents] /\ e.queue = <<>>
        /\ e.contents = Without(d.contents, ids)
    BY <2>1
  <2> QED BY <2>2, <2>3 DEF IsDisk, e
<1> QED BY <1>1, <1>2

\* LoadQueue keeps the invariant.
LEMMA LoadQueueOK == ASSUME IInv, LoadQueue PROVE IInv'
<1> DEFINE c == disk.contents
<1>1. /\ mem \in Memories /\ mem.q = EmptyLists /\ mem.handing = {} /\ mem.marked = {}
      /\ \A n \in Collections : mem.parsed[n] = <<>>
      /\ ~mem.working
  BY UnloadedFacts DEF LoadQueue
<1>2. up /\ UNCHANGED <<up, crashes, added, scripts, reused>>
  BY DEF LoadQueue
<1>3. /\ MemoryOK(mem, c, added, scripts, reused) /\ IsDisk(disk) /\ Contents(c)
      /\ up \in BOOLEAN /\ crashes \in 0..MaxCrashes
      /\ added \in [Collections -> {0, 1}] /\ scripts \in [Collections -> {0, 1}]
      /\ DiskOK(disk.queue, c, added, scripts, mem.handing, reused)
  BY DEF IInv, IsDisk
<1>4. CASE "queue" \in mem.reload
  <2> DEFINE l == Loaded(disk, mem.reload)
             p == LoadDownloadQueue(disk, mem.reload)
             gen == IdGenAfterLoad(disk)
  <2>1. mem' = [mem EXCEPT !.loaded = TRUE, !.q = p, !.idGen = gen] /\ disk' = disk
    BY <1>4 DEF LoadQueue
  <2>2. LoadsWell(l, disk, added, scripts, mem.handing, reused)
    BY <1>3, LoadedOK
  <2>3. p = ReleaseAll(l)
    BY LoadIsLoaded
  <2> HIDE DEF l, p, gen
  <2>4. /\ l \in Lists /\ QueueOK(l, c, added, scripts, mem.handing, reused) /\ gen \in Nat
        /\ There(l.files, c) /\ There(l.parked, c) /\ UpTo(l.files, gen) /\ UpTo(l.parked, gen)
    BY <2>2 DEF LoadsWell, gen
  <2>5. Referenced(l) \subseteq ToSet(l.nzbs)
    BY <2>4 DEF QueueOK, Listed
  <2>6. /\ p \in Lists /\ ToSet(p.nzbs) = Referenced(p)
        /\ p.files = l.files /\ p.parked = l.parked
        /\ QueueOK(p, c, added, scripts, mem.handing, reused)
    BY <2>3, <2>4, <2>5, ReleaseOK
  <2>7. /\ mem' \in Memories /\ mem'.q = p /\ mem'.marked = {} /\ mem'.idGen = gen
        /\ mem'.reload = mem.reload /\ mem'.loaded /\ mem'.parsed = mem.parsed
        /\ ~mem'.working /\ mem'.handing = {}
    BY <1>1, <2>1, <2>4, <2>6 DEF Memories
  <2>8. \A n \in Collections : ParsedOK(mem', n, c, added)
    <3>1. \A n \in Collections : mem'.parsed[n] = <<>>
      BY <1>1, <2>7
    <3> QED BY <3>1, NothingParsed
  <2>9. MemoryOK(mem', c, added, scripts, reused)
    <3>1. /\ QueueOK(mem'.q, c, added, scripts, mem'.handing, reused)
          /\ There(mem'.q.files, c) /\ There(mem'.q.parked, c)
          /\ UpTo(mem'.q.files, mem'.idGen) /\ UpTo(mem'.q.parked, mem'.idGen)
          /\ ToSet(mem'.q.nzbs) = Referenced(mem'.q)
      BY <1>1, <2>4, <2>6, <2>7
    <3> QED BY <2>7, <2>8, <3>1 DEF MemoryOK
  <2>10. DiskIsCurrent'
    <3> SUFFICES ASSUME mem'.reload \in {Everything, {}}
                 PROVE  Essence(LoadDownloadQueue(disk', Everything)) = Essence(mem'.q)
      BY DEF DiskIsCurrent
    <3>1. mem.reload = Everything
      BY <1>4, <2>7
    <3> QED BY <2>1, <2>7, <3>1 DEF p
  <2>11. DiskOK(disk'.queue, disk'.contents, added', scripts', mem'.handing, reused')
         /\ MemoryOK(mem', disk'.contents, added', scripts', reused')
    BY <1>1, <1>2, <1>3, <2>1, <2>7, <2>9
  <2>12. IsDisk(disk') /\ up'
    BY <1>2, <1>3, <2>1
  <2> QED BY <1>2, <1>3, <2>10, <2>11, <2>12 DEF IInv, IsDisk
<1>5. CASE "queue" \notin mem.reload
  <2>1. mem' = [mem EXCEPT !.loaded = TRUE] /\ disk' = DiscardDownloadQueue(disk)
    BY <1>5 DEF LoadQueue
  <2>2. IsDisk(disk') /\ disk'.queue = <<>> /\ Shrunk(disk'.contents, c)
    BY <1>3, <2>1, DiscardedFacts
  <2>3. /\ mem' \in Memories /\ mem'.q = EmptyLists /\ mem'.marked = {} /\ mem'.idGen = mem.idGen
        /\ mem'.reload = mem.reload /\ mem'.loaded /\ mem'.parsed = mem.parsed
        /\ ~mem'.working /\ mem'.handing = {}
    BY <1>1, <2>1 DEF Memories
  <2> DEFINE d == disk'.contents
  <2> HIDE DEF d
  <2>4. \A n \in Collections : ParsedOK(mem', n, d, added)
    <3>1. \A n \in Collections : mem'.parsed[n] = <<>>
      BY <1>1, <2>3
    <3> QED BY <3>1, NothingParsed
  <2>5. QueueOK(mem'.q, d, added, scripts, mem'.handing, reused)
    BY <2>3, EmptyOK
  <2>6. ToSet(mem'.q.nzbs) = Referenced(mem'.q)
    BY <2>3, EmptyOK
  <2>7. /\ There(mem'.q.files, d) /\ There(mem'.q.parked, d)
        /\ UpTo(mem'.q.files, mem'.idGen) /\ UpTo(mem'.q.parked, mem'.idGen)
    <3>1. mem'.q.files = <<>> /\ mem'.q.parked = <<>>
      BY <2>3 DEF EmptyLists
    <3> QED BY <3>1 DEF There, UpTo
  <2>8. MemoryOK(mem', d, added, scripts, reused)
    BY <2>3, <2>4, <2>5, <2>6, <2>7 DEF MemoryOK
  <2>9. DiskOK(disk'.queue, d, added, scripts, mem'.handing, reused)
    BY <2>2, NothingSavedOK
  <2>10. DiskIsCurrent'
    <3>1. Essence(LoadDownloadQueue(disk', Everything)) = Essence(mem'.q)
      BY <2>2, <2>3, NothingLoaded
    <3> QED BY <3>1 DEF DiskIsCurrent
  <2>11. DiskOK(disk'.queue, disk'.contents, added', scripts', mem'.handing, reused')
         /\ MemoryOK(mem', disk'.contents, added', scripts', reused')
    BY <1>2, <2>8, <2>9 DEF d
  <2>12. up'
    BY <1>2
  <2> QED BY <1>2, <1>3, <2>2, <2>10, <2>11, <2>12 DEF IInv, IsDisk
<1> QED BY <1>4, <1>5

-----------------------------------------------------------------------------
(* The theorems.                                                            *)

\* Starts, ends and loads keep the invariant.
LEMMA LifecycleOK == ASSUME IInv, Lifecycle PROVE IInv'
<1>1. ASSUME NEW reload \in ReloadOptions, Start(reload) PROVE IInv'
  BY <1>1, StartOK
<1>2. ASSUME NEW gone \in {{}, Collections}, Sanitise(gone) PROVE IInv'
  BY <1>2, SanitiseOK
<1> QED BY <1>1, <1>2, LoadQueueOK, CrashOK, ShutdownOK DEF Lifecycle

\* So do collections that are added, and files that leave.
LEMMA DownloadsOK == ASSUME IInv, Downloads PROVE IInv'
<1>1. ASSUME NEW n \in Collections, ParseNzb(n) PROVE IInv'
  BY <1>1, ParseNzbOK
<1>2. ASSUME NEW n \in Collections, NEW dupes, AddNZBFileToQueue(n, dupes) PROVE IInv'
  BY <1>2, AddNZBFileToQueueOK
<1>3. ASSUME NEW i \in DOMAIN mem.q.files, NEW outcome \in {"none", "job", "history"},
             NEW check \in BOOLEAN, FileLeaves(i, outcome, check)
      PROVE  IInv'
  BY <1>3, FileLeavesOK
<1>4. ASSUME NEW i \in DOMAIN mem.q.files, NEW save \in BOOLEAN, MarkFile(i, save) PROVE IInv'
  BY <1>4, MarkFileOK
<1> QED BY <1>1, <1>2, <1>3, <1>4 DEF Downloads

\* So does post-processing, with the history.
LEMMA PostProcessingOK == ASSUME IInv, PostProcessing PROVE IInv'
<1>1. ASSUME NEW complete \in BOOLEAN, NEW cleanup \in BOOLEAN, JobCompleted(complete, cleanup)
      PROVE  IInv'
  BY <1>1, JobCompletedOK
<1>2. ASSUME NEW k \in DOMAIN mem.q.history, HistoryDelete(k) PROVE IInv'
  BY <1>2, HistoryDeleteOK
<1>3. ASSUME NEW k \in DOMAIN mem.q.history, HistoryReturn(k) PROVE IInv'
  BY <1>3, HistoryReturnOK
<1> QED BY <1>1, <1>2, <1>3, StartParJobOK, ParJobDoneOK, StartScriptJobOK, ScriptDoneOK,
           CheckHistoryOK DEF PostProcessing

\* So do the downloads of urls.
LEMMA UrlDownloadsOK == ASSUME IInv, UrlDownloads PROVE IInv'
<1>1. ASSUME NEW u \in Urls, AddUrlToQueue(u) PROVE IInv'
  BY <1>1, AddUrlToQueueOK
<1>2. ASSUME NEW u \in Urls, ParseFailed(u) PROVE IInv'
  BY <1>2, ParseFailedOK
<1>3. ASSUME NEW i \in DOMAIN mem.q.urls, StartUrlDownload(i) PROVE IInv'
  BY <1>3, StartUrlDownloadOK
<1>4. ASSUME NEW i \in DOMAIN mem.q.urls, UrlCompleted(i) PROVE IInv'
  BY <1>4, UrlCompletedOK
<1>5. ASSUME NEW i \in DOMAIN mem.q.urls, NEW result \in {"finished", "failed", "undefined"},
             UrlDownloaded(i, result)
      PROVE  IInv'
  BY <1>5, UrlDownloadedOK
<1>6. ASSUME NEW i \in DOMAIN mem.q.urls, NEW terminated \in BOOLEAN,
             ResetHangingDownloads(i, terminated)
      PROVE  IInv'
  BY <1>6, ResetHangingOK
<1> QED BY <1>1, <1>2, <1>3, <1>4, <1>5, <1>6 DEF UrlDownloads

\* So do steps that change nothing.
LEMMA StutterOK == ASSUME IInv, UNCHANGED vars PROVE IInv'
<1>1. /\ up' = up /\ mem' = mem /\ disk' = disk /\ crashes' = crashes
      /\ added' = added /\ scripts' = scripts /\ reused' = reused
  BY DEF vars
<1>2. DiskIsCurrent'
  <2>1. SavedIds' = SavedIds
    BY <1>1 DEF SavedIds
  <2>2. NewFileHasSavedId' = NewFileHasSavedId
    BY <1>1, <2>1 DEF NewFileHasSavedId
  <2> QED BY <1>1, <2>2 DEF IInv, DiskIsCurrent
<1> QED BY <1>1, <1>2 DEF IInv

\* The invariant is inductive.
LEMMA StepOK == IInv /\ [Next]_vars => IInv'
<1> SUFFICES ASSUME IInv, [Next]_vars PROVE IInv'
  OBVIOUS
<1> QED BY LifecycleOK, DownloadsOK, PostProcessingOK, UrlDownloadsOK, StutterOK DEF Next

\* The inductive invariant holds in every state, over any crashes and restarts.
THEOREM InvariantHolds == Spec => []IInv
BY InitOK, StepOK, PTL DEF Spec

\* TypeOK is part of the invariant.
LEMMA TypesOK == IInv => TypeOK
<1> SUFFICES ASSUME IInv PROVE TypeOK
  OBVIOUS
<1>1. /\ mem \in Memories /\ mem.q.post \in Seq(Jobs) /\ mem.q.urls \in Seq(UrlItems)
      /\ mem.q.files \in Seq(Entries) /\ mem.q.parked \in Seq(Entries)
      /\ QueueOK(mem.q, disk.contents, added, scripts, mem.handing, reused)
      /\ Contents(disk.contents)
  BY MemFacts
<1>2. /\ ToSet(mem.q.nzbs) = Referenced(mem.q) /\ up \in BOOLEAN /\ crashes \in 0..MaxCrashes
      /\ mem.marked \subseteq {mem.q.files[i].id : i \in DOMAIN mem.q.files}
  BY DEF IInv, MemoryOK
<1>3. IsInjective(mem.q.nzbs) /\ DOMAIN disk.contents \subseteq Ids
  BY <1>1 DEF QueueOK, Listed, Contents
<1>4. ToSet(mem.q.files \o mem.q.parked) \subseteq Entries
  <2>1. ToSet(mem.q.files \o mem.q.parked) = ToSet(mem.q.files) \union ToSet(mem.q.parked)
    BY <1>1, ConcatFacts
  <2>2. \A s \in Seq(Entries) : ToSet(s) \subseteq Entries
    BY LenProperties, ElementOfSeq DEF ToSet
  <2> QED BY <1>1, <2>1, <2>2
<1>5. \A i \in DOMAIN mem.q.post : mem.q.post[i].stage \in {"queued", "script", "finished"}
  <2>1. \A i \in DOMAIN mem.q.post : mem.q.post[i] \in Jobs
    BY <1>1, LenProperties, ElementOfSeq
  <2> QED BY <2>1 DEF Jobs, Stages
<1>6. \A i \in DOMAIN mem.q.urls :
          mem.q.urls[i].status \in {"undefined", "running", "finished", "failed"}
  <2>1. \A i \in DOMAIN mem.q.urls : mem.q.urls[i] \in UrlItems
    BY <1>1, LenProperties, ElementOfSeq
  <2> QED BY <2>1 DEF UrlItems
<1>7. mem.active \subseteq Urls /\ mem.handing \subseteq Urls
  BY <1>1 DEF Memories
<1> QED BY <1>2, <1>3, <1>4, <1>5, <1>6, <1>7 DEF TypeOK

\* The lists, the generator of ids and the disk have their types, and a collection is listed
\* once, exactly while something refers to it (DownloadInfo.cpp, NZBInfo::Release).
THEOREM TypeCorrect == Spec => []TypeOK
BY InvariantHolds, TypesOK, PTL

\* Whenever no handler is at work, what would be loaded is what is in memory: every handler
\* that changes what a reader would miss saves it (DiskState.cpp, SaveDownloadQueue). The
\* exceptions are in the premises of DiskIsCurrent.
THEOREM DiskStaysCurrent == Spec => []DiskIsCurrent
<1>1. IInv => DiskIsCurrent
  BY DEF IInv
<1> QED BY <1>1, InvariantHolds, PTL

\* Over any crashes, the script of a job is not started a second time unless the job starts
\* over: its stage is saved before the script starts (PrePostProcessor.cpp, StartScriptJob).
THEOREM ScriptsRunOnce == Spec => []ScriptRunsOnce
<1>1. IInv => ScriptRunsOnce
  BY DEF IInv, ScriptRunsOnce
<1> QED BY <1>1, InvariantHolds, PTL

\* A set whose elements are all equal.
LEMMA OneOrNone ==
    ASSUME NEW S, \A i, j \in S : i = j
    PROVE  Cardinality(S) = IF S = {} THEN 0 ELSE 1
<1>1. CASE S = {}
  BY <1>1, FS_EmptySet
<1>2. CASE S # {}
  <2>1. PICK i \in S : TRUE
    BY <1>2
  <2>2. S = {i}
    BY <2>1
  <2> QED BY <2>2, FS_Singleton
<1> QED BY <1>1, <1>2

\* The invariant says in which place a url is.
LEMMA UrlsApart == IInv => UrlIsInOnePlace
<1> SUFFICES ASSUME IInv, NEW u \in Urls
             PROVE  Cardinality({i \in DOMAIN mem.q.urls : mem.q.urls[i].url = u})
                    + Cardinality({i \in DOMAIN mem.q.history : mem.q.history[i].of = u})
                    + Cardinality({u} \intersect mem.handing) + added[NzbOfUrl(u)] <= 1
  BY DEF UrlIsInOnePlace
<1> DEFINE A == {i \in DOMAIN mem.q.urls : mem.q.urls[i].url = u}
           B == {i \in DOMAIN mem.q.history : mem.q.history[i].of = u}
           C == {u} \intersect mem.handing
           n == added[NzbOfUrl(u)]
<1>1. UrlOnce(mem.q) /\ UrlsFree(mem.q, added, mem.handing)
      /\ \A v \in mem.handing : added[NzbOfUrl(v)] = 0
  BY MemFacts DEF QueueOK
<1>2. \A i, j \in A : i = j
  BY <1>1 DEF UrlOnce
<1>3. \A i, j \in B : i = j
  BY <1>1 DEF UrlOnce
<1>4. \A i, j \in C : i = j
  OBVIOUS
<1>5. A # {} => B = {} /\ C = {} /\ n = 0
  BY <1>1 DEF UrlOnce, UrlsFree, UrlFree
<1>6. B # {} => C = {} /\ n = 0
  BY <1>1 DEF UrlsFree, UrlFree
<1>7. C # {} => n = 0
  BY <1>1
<1>8. n \in {0, 1}
  <2>1. added \in [Collections -> {0, 1}]
    BY DEF IInv
  <2> QED BY <2>1, UrlAndNzb
<1> HIDE DEF A, B, C, n
<1>9. /\ Cardinality(A) = IF A = {} THEN 0 ELSE 1
      /\ Cardinality(B) = IF B = {} THEN 0 ELSE 1
      /\ Cardinality(C) = IF C = {} THEN 0 ELSE 1
  BY <1>2, <1>3, <1>4, OneOrNone
<1>10. Cardinality(A) + Cardinality(B) + Cardinality(C) + n <= 1
  BY <1>5, <1>6, <1>7, <1>8, <1>9
<1> QED BY <1>10 DEF A, B, C, n

\* Over any crashes a url is in one place at most, and in none once its collection has been
\* added: it leaves the saved queue before the collection enters it (UrlCoordinator.cpp,
\* UrlCompleted).
THEOREM UrlsStayInOnePlace == Spec => []UrlIsInOnePlace
BY InvariantHolds, UrlsApart, PTL

\* A file belongs to one collection.
LEMMA FileHasOneNzb ==
    ASSUME NEW n \in Collections, NEW f \in ToSet(FilesOf[n])
    PROVE  NzbOfFile(f) = n
<1>1. \A o \in Collections : f \in ToSet(FilesOf[o]) => o = n
  BY PersistentAssumption
<1> QED BY <1>1 DEF NzbOfFile

\* The invariant says whose files they are.
LEMMA EntriesOwn == IInv => EntriesAreTheirOwn
<1> SUFFICES ASSUME IInv PROVE EntriesAreTheirOwn
  OBVIOUS
<1> DEFINE entries == mem.q.files \o mem.q.parked
           c == disk.contents
<1>1. /\ mem.q.files \in Seq(Entries) /\ mem.q.parked \in Seq(Entries)
      /\ Own(mem.q.files, c, reused) /\ Own(mem.q.parked, c, reused)
      /\ Apart(mem.q.files, mem.q.parked)
  BY MemFacts DEF QueueOK
<1>2. There(mem.q.files, c) /\ There(mem.q.parked, c)
  BY DEF IInv, MemoryOK
<1> HIDE DEF c
<1>3. entries \in Seq(Entries)
  BY <1>1, ConcatFacts
<1>4. Own(entries, c, reused)
  BY <1>1, OwnConcat
<1>5. There(entries, c)
  BY <1>1, <1>2, ThereConcat
<1> HIDE DEF entries
<1>6. ASSUME NEW i \in DOMAIN entries, entries[i].id \notin reused
      PROVE  NzbOfFile(entries[i].file) = entries[i].nzb
  <2>1. entries[i].nzb \in Collections
    <3>1. entries[i] \in Entries
      BY <1>3, LenProperties, ElementOfSeq
    <3> QED BY <3>1 DEF Entries
  <2>2. entries[i].file \in ToSet(FilesOf[entries[i].nzb])
    BY <1>4, <1>5, <1>6 DEF Own, There
  <2> QED BY <2>1, <2>2, FileHasOneNzb
<1>7. \A i, j \in DOMAIN entries : entries[j].id = entries[i].id => i = j
  BY <1>4 DEF Own, DistinctIds
<1>8. \A i \in DOMAIN entries : entries[i].id \in DOMAIN c /\ c[entries[i].id] = entries[i].file
  BY <1>5 DEF There
<1> QED BY <1>6, <1>7, <1>8 DEF EntriesAreTheirOwn, entries, c

\* Over any crashes a file is listed once, with its own contents on disk, and belongs to its
\* collection, unless its id was given again while the saved queue had a row with it
\* (DiskState.cpp, LoadFileQueue).
THEOREM EntriesStayTheirOwn == Spec => []EntriesAreTheirOwn
BY InvariantHolds, EntriesOwn, PTL
=============================================================================
