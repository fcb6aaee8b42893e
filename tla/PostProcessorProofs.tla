------------------------- MODULE PostProcessorProofs -------------------------
(***************************************************************************)
(* Proofs about PostProcessor, for any number of collections, files, jobs   *)
(* and par-sets: what the functions that change the queue do to each of its *)
(* lists, that a file is in one list and a collection in the history has    *)
(* nothing left to download, that one job is at work, and that a pause is   *)
(* undone.                                                                  *)
(***************************************************************************)
EXTENDS PostProcessor, FiniteSetTheorems, SequenceTheorems, WellFoundedInduction, TLAPS

\* The states of the download queue, as values.
Queues == [files : SUBSET Files, parked : SUBSET Files, freed : SUBSET Files,
           paused : SUBSET Files, marked : SUBSET Files, disk : SUBSET Files,
           post : Seq(Ids), job : [Ids -> Jobs \union {{}}],
           history : SUBSET Collections, nzb : [Collections -> NzbInfos]]

\* Files that were added: they are queued, parked or freed.
Known(q) == q.files \union q.parked \union q.freed

-----------------------------------------------------------------------------
(* Induction, and the deletion of files one after the other.                *)

\* A set that has 0 and with each natural number the next one has them all.
LEMMA SetInduction ==
    ASSUME NEW S, 0 \in S, \A n \in Nat : n \in S => n + 1 \in S
    PROVE  Nat \subseteq S
<1> SUFFICES ASSUME Nat \ S # {} PROVE FALSE
  OBVIOUS
<1>1. PICK x \in Nat \ S : \A y \in Nat \ S : ~(<<y, x>> \in OpToRel(<, Nat))
  <2>1. IsWellFoundedOn(OpToRel(<, Nat), Nat)
    BY NatLessThanWellFounded
  <2> QED BY <2>1, WFMin
<1>2. \A y \in Nat \ S : ~(y < x)
  BY <1>1 DEF OpToRel
<1>3. x # 0 /\ x - 1 \in Nat
  OBVIOUS
<1>4. x - 1 \in S
  BY <1>2, <1>3
<1> QED BY <1>3, <1>4

\* a holds the states of the queue after each of n deletions.
Deletes(q, files, n, a) ==
    a = [k \in 0..n |-> IF k = 0 THEN q ELSE DeleteQueueEntry(a[k - 1], files[k])]

\* There are such states, for any number of deletions.
LEMMA DeletesExists == ASSUME NEW q, NEW files PROVE \A n \in Nat : \E a : Deletes(q, files, n, a)
<1> DEFINE S == {n \in Nat : \E a : Deletes(q, files, n, a)}
<1>1. 0 \in S
  <2>1. Deletes(q, files, 0, [k \in 0..0 |-> q])
    BY DEF Deletes
  <2> QED BY <2>1
<1>2. ASSUME NEW n \in Nat, n \in S PROVE n + 1 \in S
  <2>1. PICK a : Deletes(q, files, n, a)
    BY <1>2
  <2> DEFINE b == [k \in 0..(n + 1) |->
                      IF k = 0 THEN q ELSE DeleteQueueEntry(a[k - 1], files[k])]
  <2>2. ASSUME NEW k \in 0..n PROVE b[k] = a[k]
    BY <2>1 DEF Deletes
  <2>3. ASSUME NEW k \in 0..(n + 1)
        PROVE  b[k] = IF k = 0 THEN q ELSE DeleteQueueEntry(b[k - 1], files[k])
    <3>1. CASE k = 0
      BY <3>1
    <3>2. CASE k # 0
      <4>1. k - 1 \in 0..n
        BY <3>2
      <4>2. b[k - 1] = a[k - 1]
        BY <4>1, <2>2
      <4> QED BY <3>2, <4>2
    <3> QED BY <3>1, <3>2
  <2>4. Deletes(q, files, n + 1, b)
    BY <2>3 DEF Deletes
  <2> QED BY <2>4
<1> HIDE DEF S
<1>3. Nat \subseteq S
  BY <1>1, <1>2, SetInduction
<1> QED BY <1>3 DEF S

\* DeleteQueueEntries goes through such states and ends with the last one.
LEMMA DeleteQueueEntriesSteps ==
    ASSUME NEW q, NEW files, Len(files) \in Nat
    PROVE  \E a : /\ DeleteQueueEntries(q, files) = a[Len(files)]
                  /\ a[0] = q
                  /\ \A k \in 1..Len(files) : a[k] = DeleteQueueEntry(a[k - 1], files[k])
<1> DEFINE a == CHOOSE a : Deletes(q, files, Len(files), a)
<1>1. Deletes(q, files, Len(files), a)
  BY DeletesExists
<1>2. DeleteQueueEntries(q, files) = a[Len(files)]
  BY DEF DeleteQueueEntries, Deletes
<1> HIDE DEF a
<1>3. a[0] = q /\ \A k \in 1..Len(files) : a[k] = DeleteQueueEntry(a[k - 1], files[k])
  BY <1>1 DEF Deletes
<1> QED BY <1>2, <1>3

\* The elements of a finite set as a sequence.
LEMMA SetToSeqIsSequence ==
    ASSUME NEW S, IsFiniteSet(S)
    PROVE  /\ SetToSeq(S) \in Seq(S) /\ Len(SetToSeq(S)) = Cardinality(S)
           /\ IsInjective(SetToSeq(S)) /\ Cardinality(S) \in Nat
<1>1. Cardinality(S) \in Nat
  BY FS_CardinalityType
<1>2. \E f \in [1..Cardinality(S) -> S] : IsInjective(f)
  <2>1. PICK n \in Nat : ExistsBijection(1..n, S)
    BY FS_NatBijection
  <2>2. n = Cardinality(S)
    BY <2>1, FS_CountingElements
  <2> QED BY <2>1, <2>2 DEF ExistsBijection, Bijection, Injection
<1>3. SetToSeq(S) \in [1..Cardinality(S) -> S] /\ IsInjective(SetToSeq(S))
  BY <1>2 DEF SetToSeq
<1> QED BY <1>1, <1>3

-----------------------------------------------------------------------------
(* What the functions of the code do to the lists.                          *)

\* NZBCompleted parks what is not deleted and leaves the rest alone.
LEMMA NZBCompletedFields ==
    ASSUME NEW q \in Queues, NEW n \in Collections
    PROVE  LET r == NZBCompleted(q, n)
               park == Group(q, n) \ q.marked
           IN  /\ r \in Queues
               /\ r.files = q.files \ park /\ r.parked = q.parked \union park
               /\ r.history = q.history \union {n}
               /\ r.freed = q.freed /\ r.paused = q.paused /\ r.marked = q.marked
               /\ r.disk = q.disk /\ r.post = q.post /\ r.job = q.job /\ r.nzb = q.nzb
BY DEF Queues, NZBCompleted, Group, Of

\* DeleteFileInfo takes a file from the queue for good.
LEMMA DeleteFileInfoFields ==
    ASSUME NEW q \in Queues, NEW f \in Files
    PROVE  LET r == DeleteFileInfo(q, f)
           IN  /\ r \in Queues
               /\ r.files = q.files \ {f} /\ r.paused = q.paused \ {f}
               /\ r.marked = q.marked \ {f} /\ r.freed = q.freed \union {f}
               /\ r.parked = q.parked /\ r.history = q.history
               /\ r.disk = q.disk /\ r.post = q.post /\ r.job = q.job /\ r.nzb = q.nzb
BY DEF Queues, DeleteFileInfo

\* NZBDeleted does what NZBCompleted does, and may remove files from the disk.
LEMMA NZBDeletedFields ==
    ASSUME NEW q \in Queues, NEW n \in Collections
    PROVE  LET r == NZBDeleted(q, n)
               park == Group(q, n) \ q.marked
           IN  /\ r \in Queues
               /\ r.files = q.files \ park /\ r.parked = q.parked \union park
               /\ r.history = q.history \union {n}
               /\ r.freed = q.freed /\ r.paused = q.paused /\ r.marked = q.marked
               /\ r.post = q.post /\ r.job = q.job /\ r.nzb = q.nzb
<1> DEFINE p == IF DeleteCleanupDisk /\ q.nzb[n].cleanupDisk
                THEN [q EXCEPT !.disk = @ \ Of(n)] ELSE q
<1>1. /\ p \in Queues /\ p.files = q.files /\ p.parked = q.parked /\ p.history = q.history
      /\ p.freed = q.freed /\ p.paused = q.paused /\ p.marked = q.marked
      /\ p.post = q.post /\ p.job = q.job /\ p.nzb = q.nzb
  <2>1. CASE DeleteCleanupDisk /\ q.nzb[n].cleanupDisk
    BY <2>1 DEF Queues
  <2>2. CASE ~(DeleteCleanupDisk /\ q.nzb[n].cleanupDisk)
    BY <2>2
  <2> QED BY <2>1, <2>2
<1>2. NZBDeleted(q, n) = NZBCompleted(p, n) /\ Group(p, n) = Group(q, n)
  BY <1>1 DEF NZBDeleted, Group
<1> HIDE DEF p
<1> QED BY <1>1, <1>2, NZBCompletedFields

\* The notification of a deleted file puts a collection into the history, if anything, and
\* only if all of its files are deleted.
LEMMA UpdateOfDeleted ==
    ASSUME NEW q \in Queues, NEW f \in Files
    PROVE  LET r == QueueCoordinatorUpdate(q, f, FALSE)
               n == NzbOf[f]
           IN  /\ r \in Queues
               /\ r.files = q.files /\ r.parked = q.parked /\ r.freed = q.freed
               /\ r.paused = q.paused /\ r.marked = q.marked
               /\ r.post = q.post /\ r.job = q.job /\ r.nzb = q.nzb
               /\ \/ r.history = q.history
                  \/ r.history = q.history \union {n} /\ Group(q, n) \subseteq q.marked
<1> DEFINE n == NzbOf[f]
           r == QueueCoordinatorUpdate(q, f, FALSE)
<1>1. n \in Collections
  BY PostAssumption
<1>0. r = QueueCoordinatorUpdate(q, f, FALSE)
  OBVIOUS
<1>4. r = q \/ (r = NZBDeleted(q, n) /\ IsNZBFileCompleted(q, n, FALSE, FALSE, TRUE))
  BY Zenon DEF QueueCoordinatorUpdate
<1> HIDE DEF r
<1>2. CASE r = q
  BY <1>0, <1>2
<1>3. CASE r = NZBDeleted(q, n) /\ Group(q, n) \subseteq q.marked
  <2>1. /\ r \in Queues /\ r.files = q.files /\ r.parked = q.parked
        /\ r.freed = q.freed /\ r.paused = q.paused /\ r.marked = q.marked
        /\ r.post = q.post /\ r.job = q.job /\ r.nzb = q.nzb
        /\ r.history = q.history \union {n}
    <3> HIDE DEF n
    <3>1. LET d == NZBDeleted(q, n)
          IN  /\ d \in Queues /\ d.freed = q.freed /\ d.paused = q.paused
              /\ d.marked = q.marked /\ d.history = q.history \union {n}
              /\ d.post = q.post /\ d.job = q.job /\ d.nzb = q.nzb
              /\ d.files = q.files \ (Group(q, n) \ q.marked)
              /\ d.parked = q.parked \union (Group(q, n) \ q.marked)
      BY <1>1, NZBDeletedFields
    <3>2. Group(q, n) \ q.marked = {}
      BY <1>3
    <3> QED BY <1>3, <3>1, <3>2
  <2> QED BY <1>0, <1>3, <2>1
<1>5. IsNZBFileCompleted(q, n, FALSE, FALSE, TRUE) => Group(q, n) \subseteq q.marked
  BY DEF IsNZBFileCompleted
<1> QED BY <1>2, <1>3, <1>4, <1>5

\* DeleteQueueEntry only marks a file that is being downloaded and frees any other one.
LEMMA DeleteQueueEntryFields ==
    ASSUME NEW q \in Queues, NEW f \in Files
    PROVE  LET r == DeleteQueueEntry(q, f)
               n == NzbOf[f]
           IN  /\ r \in Queues
               /\ r.parked = q.parked /\ r.post = q.post /\ r.job = q.job /\ r.nzb = q.nzb
               /\ \/ /\ f \in busy /\ r.files = q.files /\ r.freed = q.freed
                     /\ r.paused = q.paused /\ r.marked = q.marked \union {f}
                     /\ r.history = q.history
                  \/ /\ f \notin busy /\ r.files = q.files \ {f} /\ r.freed = q.freed \union {f}
                     /\ r.paused = q.paused \ {f} /\ r.marked = q.marked \ {f}
                     /\ \/ r.history = q.history
                        \/ /\ r.history = q.history \union {n}
                           /\ Group(q, n) \subseteq q.marked \union {f}
<1> DEFINE m == [q EXCEPT !.marked = @ \union {f}]
           u == QueueCoordinatorUpdate(m, f, FALSE)
<1>1. /\ m \in Queues /\ m.marked = q.marked \union {f} /\ m.files = q.files
      /\ m.parked = q.parked /\ m.freed = q.freed /\ m.paused = q.paused
      /\ m.post = q.post /\ m.job = q.job /\ m.nzb = q.nzb /\ m.history = q.history
  BY DEF Queues
<1>2. DeleteQueueEntry(q, f) = IF f \in busy THEN m ELSE DeleteFileInfo(u, f)
  BY DEF DeleteQueueEntry
<1>3. Group(m, NzbOf[f]) = Group(q, NzbOf[f])
  BY <1>1 DEF Group
<1> HIDE DEF m
<1>4. /\ u \in Queues /\ u.files = q.files /\ u.parked = q.parked /\ u.freed = q.freed
      /\ u.paused = q.paused /\ u.marked = m.marked
      /\ u.post = q.post /\ u.job = q.job /\ u.nzb = q.nzb
      /\ \/ u.history = q.history
         \/ /\ u.history = q.history \union {NzbOf[f]}
            /\ Group(q, NzbOf[f]) \subseteq m.marked
  BY <1>1, <1>3, UpdateOfDeleted
<1> HIDE DEF u
<1>5. CASE f \in busy
  BY <1>1, <1>2, <1>5
<1>6. CASE f \notin busy
  <2>1. DeleteFileInfo(u, f).marked = q.marked \ {f}
    BY <1>1, <1>4, DeleteFileInfoFields
  <2> QED BY <1>1, <1>2, <1>4, <1>6, <2>1, DeleteFileInfoFields
<1> QED BY <1>5, <1>6

-----------------------------------------------------------------------------
(* The post-queue, as a sequence of different jobs.                         *)

\* A part of a sequence, of which nothing may be left.
LEMMA PartOf ==
    ASSUME NEW S, NEW s \in Seq(S), NEW m \in 1..(Len(s) + 1), NEW n \in 0..Len(s), m <= n + 1
    PROVE  /\ SubSeq(s, m, n) \in Seq(S) /\ Len(SubSeq(s, m, n)) = n - m + 1
           /\ \A i \in 1..(n - m + 1) : SubSeq(s, m, n)[i] = s[m + i - 1]
<1>1. /\ Len(s) \in Nat /\ m \in Int /\ n \in Int
      /\ \A i \in m..n : s[i] \in S
  BY LenProperties, ElementOfSeq
<1> QED BY <1>1, SubSeqProperties

\* The sequence without its i-th element.
LEMMA RemoveAtProperties ==
    ASSUME NEW S, NEW s \in Seq(S), NEW i \in 1..Len(s)
    PROVE  /\ RemoveAt(s, i) \in Seq(S) /\ Len(RemoveAt(s, i)) = Len(s) - 1
           /\ \A k \in 1..(Len(s) - 1) : RemoveAt(s, i)[k] = IF k < i THEN s[k] ELSE s[k + 1]
<1> DEFINE a == SubSeq(s, 1, i - 1)
           b == SubSeq(s, i + 1, Len(s))
<1>1. Len(s) \in Nat
  BY LenProperties
<1>2. a \in Seq(S) /\ Len(a) = i - 1 /\ \A k \in 1..(i - 1) : a[k] = s[k]
  <2>1. 1 \in 1..(Len(s) + 1) /\ i - 1 \in 0..Len(s) /\ 1 <= i - 1 + 1
    BY <1>1
  <2> QED BY <1>1, <2>1, PartOf
<1>3. b \in Seq(S) /\ Len(b) = Len(s) - i /\ \A k \in 1..(Len(s) - i) : b[k] = s[i + k]
  <2>1. i + 1 \in 1..(Len(s) + 1) /\ Len(s) \in 0..Len(s) /\ i + 1 <= Len(s) + 1
    BY <1>1
  <2> QED BY <1>1, <2>1, PartOf
<1>4. RemoveAt(s, i) = a \o b
  BY DEF RemoveAt
<1> HIDE DEF a, b
<1>5. /\ a \o b \in Seq(S) /\ Len(a \o b) = Len(s) - 1
      /\ \A k \in 1..(Len(s) - 1) : (a \o b)[k] = IF k <= i - 1 THEN a[k] ELSE b[k - (i - 1)]
  <2>1. /\ a \o b \in Seq(S) /\ Len(a \o b) = Len(a) + Len(b)
        /\ \A k \in 1..(Len(a) + Len(b)) :
               (a \o b)[k] = IF k <= Len(a) THEN a[k] ELSE b[k - Len(a)]
    BY <1>2, <1>3, ConcatProperties
  <2>2. Len(a) = i - 1 /\ Len(a) + Len(b) = Len(s) - 1
    BY <1>1, <1>2, <1>3
  <2> QED BY <2>1, <2>2
<1>6. ASSUME NEW k \in 1..(Len(s) - 1)
      PROVE  (a \o b)[k] = IF k < i THEN s[k] ELSE s[k + 1]
  <2>1. CASE k < i
    BY <1>1, <1>2, <1>5, <2>1
  <2>2. CASE ~(k < i)
    <3>1. k - (i - 1) \in 1..(Len(s) - i) /\ i + (k - (i - 1)) = k + 1
      BY <1>1, <2>2
    <3>2. b[k - (i - 1)] = s[k + 1]
      BY <1>3, <3>1
    <3> QED BY <1>1, <1>5, <2>2, <3>2
  <2> QED BY <2>1, <2>2
<1> QED BY <1>4, <1>5, <1>6

\* The sequence with one more element, at the i-th place.
Inserted(s, i, e) == [k \in 1..(Len(s) + 1) |->
                        IF k < i THEN s[k] ELSE IF k = i THEN e ELSE s[k - 1]]

\* That is what InsertAt makes.
LEMMA InsertAtProperties ==
    ASSUME NEW S, NEW s \in Seq(S), NEW e \in S, NEW i \in 1..(Len(s) + 1)
    PROVE  /\ InsertAt(s, i, e) \in Seq(S) /\ Len(InsertAt(s, i, e)) = Len(s) + 1
           /\ InsertAt(s, i, e) = Inserted(s, i, e)
<1> DEFINE a == SubSeq(s, 1, i - 1)
           b == SubSeq(s, i, Len(s))
           ae == a \o <<e>>
<1>1. Len(s) \in Nat
  BY LenProperties
<1>2. a \in Seq(S) /\ Len(a) = i - 1 /\ \A k \in 1..(i - 1) : a[k] = s[k]
  <2>1. 1 \in 1..(Len(s) + 1) /\ i - 1 \in 0..Len(s) /\ 1 <= i - 1 + 1
    BY <1>1
  <2> QED BY <1>1, <2>1, PartOf
<1>3. b \in Seq(S) /\ Len(b) = Len(s) - i + 1 /\ \A k \in 1..(Len(s) - i + 1) : b[k] = s[i + k - 1]
  <2>1. i \in 1..(Len(s) + 1) /\ Len(s) \in 0..Len(s) /\ i <= Len(s) + 1
    BY <1>1
  <2> QED BY <1>1, <2>1, PartOf
<1>4. InsertAt(s, i, e) = ae \o b
  BY DEF InsertAt
<1>5. <<e>> \in Seq(S) /\ Len(<<e>>) = 1 /\ <<e>>[1] = e
  OBVIOUS
<1> HIDE DEF a, b
<1>6. /\ ae \in Seq(S) /\ Len(ae) = i
      /\ \A k \in 1..i : ae[k] = IF k < i THEN s[k] ELSE e
  BY <1>1, <1>2, <1>5, ConcatProperties
<1> HIDE DEF ae
<1>7. /\ ae \o b \in Seq(S) /\ Len(ae \o b) = Len(s) + 1
      /\ \A k \in 1..(Len(s) + 1) : (ae \o b)[k] = IF k <= i THEN ae[k] ELSE b[k - i]
  <2>1. /\ ae \o b \in Seq(S) /\ Len(ae \o b) = Len(ae) + Len(b)
        /\ \A k \in 1..(Len(ae) + Len(b)) :
               (ae \o b)[k] = IF k <= Len(ae) THEN ae[k] ELSE b[k - Len(ae)]
    BY <1>3, <1>6, ConcatProperties
  <2>2. Len(ae) = i /\ Len(ae) + Len(b) = Len(s) + 1
    BY <1>1, <1>3, <1>6
  <2> QED BY <2>1, <2>2
<1>8. ASSUME NEW k \in 1..(Len(s) + 1)
      PROVE  /\ k < i => (ae \o b)[k] = s[k]
             /\ k = i => (ae \o b)[k] = e
             /\ k > i => (ae \o b)[k] = s[k - 1]
  <2>1. CASE k <= i
    <3>1. k \in 1..i /\ (ae \o b)[k] = ae[k]
      BY <1>1, <1>7, <2>1
    <3> QED BY <1>6, <2>1, <3>1
  <2>2. CASE ~(k <= i)
    <3>1. k - i \in 1..(Len(s) - i + 1) /\ i + (k - i) - 1 = k - 1
      BY <1>1, <2>2
    <3>2. b[k - i] = s[k - 1]
      BY <1>3, <3>1
    <3>3. (ae \o b)[k] = s[k - 1]
      BY <1>1, <1>7, <2>2, <3>2
    <3> QED BY <1>1, <2>2, <3>3
  <2>3. i \in Int /\ k \in Int
    BY <1>1
  <2> QED BY <2>1, <2>2, <2>3
<1>9. ae \o b \in [1..(Len(s) + 1) -> S]
  <2> DEFINE c == ae \o b
  <2>1. c \in [1..Len(c) -> S]
    <3> HIDE DEF c
    <3>1. c \in Seq(S)
      BY <1>7 DEF c
    <3> QED BY <3>1, LenProperties
  <2> QED BY <1>7, <2>1
<1>10. ASSUME NEW k \in 1..(Len(s) + 1)
       PROVE  (ae \o b)[k] = IF k < i THEN s[k] ELSE IF k = i THEN e ELSE s[k - 1]
  <2> DEFINE x == (ae \o b)[k]
  <2>1. (k < i => x = s[k]) /\ (k = i => x = e) /\ (k > i => x = s[k - 1])
    BY <1>8
  <2>2. k < i \/ k = i \/ k > i
    BY <1>1
  <2> HIDE DEF x
  <2>3. k = i => ~(k < i)
    BY <1>1
  <2>4. k > i => ~(k < i) /\ k # i
    BY <1>1
  <2> QED BY <2>1, <2>2, <2>3, <2>4, Zenon DEF x
<1> QED BY <1>4, <1>7, <1>9, <1>10 DEF Inserted

\* A queue of jobs: no job is in it twice.
PostQueue(post) == post \in Seq(Ids) /\ IsInjective(post)

\* A job leaves the queue; if it is not the first one, that stays the first.
LEMMA EraseProperties ==
    ASSUME NEW post, PostQueue(post), NEW id \in ToSet(post)
    PROVE  LET r == Erase(post, id)
           IN  /\ PostQueue(r) /\ ToSet(r) = ToSet(post) \ {id}
               /\ \A k \in DOMAIN r : /\ k \in DOMAIN post /\ k + 1 \in DOMAIN post
                                      /\ r[k] = post[k] \/ r[k] = post[k + 1]
               /\ Head(post) # id => r # <<>> /\ Head(r) = Head(post)
               /\ Head(post) = id => \A k \in DOMAIN r : k + 1 \in DOMAIN post /\ r[k] = post[k + 1]
<1> DEFINE i == CHOOSE j \in DOMAIN post : post[j] = id
           r == Erase(post, id)
<1>1. post \in Seq(Ids) /\ Len(post) \in Nat /\ DOMAIN post = 1..Len(post)
  BY LenProperties DEF PostQueue
<1>2. i \in 1..Len(post) /\ post[i] = id
  <2>1. \E j \in DOMAIN post : post[j] = id
    BY DEF ToSet
  <2> QED BY <1>1, <2>1
<1>3. r = RemoveAt(post, i)
  BY DEF Erase
<1> HIDE DEF i, r
<1>4. /\ r \in Seq(Ids) /\ Len(r) = Len(post) - 1 /\ DOMAIN r = 1..(Len(post) - 1)
      /\ \A k \in 1..(Len(post) - 1) : r[k] = IF k < i THEN post[k] ELSE post[k + 1]
  BY <1>1, <1>2, <1>3, RemoveAtProperties, LenProperties
<1>5. \A j, k \in 1..Len(post) : post[j] = post[k] => j = k
  BY <1>1 DEF PostQueue, IsInjective
<1>6. PostQueue(r)
  <2>1. ASSUME NEW j \in 1..(Len(post) - 1), NEW k \in 1..(Len(post) - 1), r[j] = r[k]
        PROVE  j = k
    <3> DEFINE J == IF j < i THEN j ELSE j + 1
               K == IF k < i THEN k ELSE k + 1
    <3>1. J \in 1..Len(post) /\ K \in 1..Len(post) /\ r[j] = post[J] /\ r[k] = post[K]
      BY <1>1, <1>2, <1>4
    <3>2. J = K
      BY <1>5, <2>1, <3>1
    <3> QED BY <1>1, <1>2, <3>2
  <2> QED BY <1>4, <2>1 DEF PostQueue, IsInjective
<1>7. ToSet(r) = ToSet(post) \ {id}
  <2>1. ASSUME NEW x \in ToSet(r) PROVE x \in ToSet(post) \ {id}
    <3>1. PICK k \in 1..(Len(post) - 1) : x = r[k]
      BY <1>4 DEF ToSet
    <3>2. \E j \in 1..Len(post) : j # i /\ x = post[j]
      BY <1>1, <1>2, <1>4, <3>1
    <3> QED BY <1>1, <1>2, <1>5, <3>2 DEF ToSet
  <2>2. ASSUME NEW x \in ToSet(post) \ {id} PROVE x \in ToSet(r)
    <3>1. PICK j \in 1..Len(post) : x = post[j] /\ j # i
      BY <1>1, <1>2 DEF ToSet
    <3>2. \E k \in 1..(Len(post) - 1) : r[k] = post[j]
      <4>1. CASE j < i
        BY <1>1, <1>2, <1>4, <4>1
      <4>2. CASE j > i
        <5>1. j - 1 \in 1..(Len(post) - 1) /\ r[j - 1] = post[j]
          BY <1>1, <1>2, <1>4, <4>2
        <5> QED BY <5>1
      <4> QED BY <3>1, <1>2, <4>1, <4>2
    <3> QED BY <1>4, <3>1, <3>2 DEF ToSet
  <2> QED BY <2>1, <2>2
<1>8. \A k \in DOMAIN r : /\ k \in DOMAIN post /\ k + 1 \in DOMAIN post
                          /\ r[k] = post[k] \/ r[k] = post[k + 1]
  BY <1>1, <1>4
<1>9. post # <<>> /\ Head(post) = post[1]
  BY <1>1, <1>2
<1>10. ASSUME Head(post) # id PROVE r # <<>> /\ Head(r) = Head(post)
  <2>1. 1 < i /\ Len(r) > 0 /\ r[1] = post[1]
    BY <1>1, <1>2, <1>4, <1>9, <1>10
  <2> QED BY <1>4, <1>9, <2>1
<1>11. ASSUME Head(post) = id PROVE \A k \in DOMAIN r : k + 1 \in DOMAIN post /\ r[k] = post[k + 1]
  <2>1. i = 1
    BY <1>1, <1>2, <1>5, <1>9, <1>11
  <2> QED BY <1>1, <1>4, <2>1
<1> QED BY <1>6, <1>7, <1>8, <1>10, <1>11 DEF r

\* A job is moved behind the first place; if it is not the first one, that stays there.
LEMMA MoveProperties ==
    ASSUME NEW post, PostQueue(post), NEW from \in DOMAIN post, NEW to \in DOMAIN post \ {1, from}
    PROVE  LET r == InsertAt(RemoveAt(post, from), to, post[from])
           IN  /\ PostQueue(r) /\ ToSet(r) = ToSet(post)
               /\ from # 1 => r # <<>> /\ Head(r) = Head(post)
<1> DEFINE a == RemoveAt(post, from)
           r == InsertAt(a, to, post[from])
           Old(k) == IF k = to THEN from
                     ELSE IF k < to THEN IF k < from THEN k ELSE k + 1
                     ELSE IF k - 1 < from THEN k - 1 ELSE k
<1>1. /\ post \in Seq(Ids) /\ Len(post) \in Nat /\ DOMAIN post = 1..Len(post)
      /\ from \in 1..Len(post) /\ to \in 1..Len(post) /\ post[from] \in Ids
  BY LenProperties DEF PostQueue
<1>2. /\ a \in Seq(Ids) /\ Len(a) = Len(post) - 1
      /\ \A k \in 1..(Len(post) - 1) : a[k] = IF k < from THEN post[k] ELSE post[k + 1]
  BY <1>1, RemoveAtProperties
<1> HIDE DEF a
<1>3. /\ r \in Seq(Ids) /\ Len(r) = Len(post) /\ r[to] = post[from]
      /\ \A k \in 1..Len(post) : (k < to => r[k] = a[k]) /\ (k > to => r[k] = a[k - 1])
  <2>1. to \in 1..(Len(a) + 1)
    BY <1>1, <1>2
  <2>2. Len(a) + 1 = Len(post)
    BY <1>1, <1>2
  <2>3. a \in Seq(Ids) /\ post[from] \in Ids
    BY <1>1, <1>2
  <2> DEFINE e == post[from]
  <2>4. e \in Ids
    BY <2>3
  <2>5. r = InsertAt(a, to, e)
    OBVIOUS
  <2> HIDE DEF e, r
  <2>6. /\ InsertAt(a, to, e) \in Seq(Ids) /\ Len(InsertAt(a, to, e)) = Len(a) + 1
        /\ InsertAt(a, to, e) = Inserted(a, to, e)
    BY <2>1, <2>3, <2>4, InsertAtProperties
  <2> QED BY <2>2, <2>5, <2>6 DEF e, Inserted
<1> HIDE DEF r
<1>4. DOMAIN r = 1..Len(post)
  BY <1>3, LenProperties
<1>5. ASSUME NEW k \in 1..Len(post) PROVE Old(k) \in 1..Len(post) /\ r[k] = post[Old(k)]
  <2>1. CASE k < to
    <3>1. k \in 1..(Len(post) - 1) /\ r[k] = a[k]
      BY <1>1, <1>3, <2>1
    <3>2. a[k] = IF k < from THEN post[k] ELSE post[k + 1]
      BY <1>2, <3>1
    <3> QED BY <1>1, <2>1, <3>1, <3>2
  <2>2. CASE k = to
    BY <1>1, <1>3, <2>2
  <2>3. CASE k > to
    <3>1. k - 1 \in 1..(Len(post) - 1) /\ r[k] = a[k - 1]
      BY <1>1, <1>3, <2>3
    <3>2. a[k - 1] = IF k - 1 < from THEN post[k - 1] ELSE post[k]
      BY <1>2, <3>1
    <3> QED BY <1>1, <2>3, <3>1, <3>2
  <2> QED BY <1>1, <2>1, <2>2, <2>3
<1>6. ASSUME NEW j \in 1..Len(post), NEW k \in 1..Len(post), Old(j) = Old(k) PROVE j = k
  BY <1>1, <1>6
<1>7. ASSUME NEW j \in 1..Len(post) PROVE \E k \in 1..Len(post) : Old(k) = j
  <2>1. CASE j = from
    BY <1>1, <2>1
  <2>2. CASE j # from
    <3> DEFINE b == IF j < from THEN j ELSE j - 1
               k == IF b < to THEN b ELSE b + 1
    <3>1. k \in 1..Len(post) /\ Old(k) = j
      BY <1>1, <2>2
    <3> QED BY <3>1
  <2> QED BY <2>1, <2>2
<1>8. from # 1 => Old(1) = 1
  BY <1>1
<1> HIDE DEF Old
<1>9. PostQueue(r)
  <2>1. ASSUME NEW j \in 1..Len(post), NEW k \in 1..Len(post), r[j] = r[k] PROVE j = k
    <3>1. Old(j) = Old(k)
      BY <1>1, <1>5, <2>1 DEF PostQueue, IsInjective
    <3> QED BY <3>1, <1>6
  <2> QED BY <1>3, <1>4, <2>1 DEF PostQueue, IsInjective
<1>10. ToSet(r) = ToSet(post)
  <2>1. ASSUME NEW x \in ToSet(r) PROVE x \in ToSet(post)
    BY <1>1, <1>4, <1>5 DEF ToSet
  <2>2. ASSUME NEW x \in ToSet(post) PROVE x \in ToSet(r)
    <3>1. PICK j \in 1..Len(post) : x = post[j]
      BY <1>1 DEF ToSet
    <3>2. PICK k \in 1..Len(post) : Old(k) = j
      BY <1>7
    <3> QED BY <1>4, <1>5, <3>1, <3>2 DEF ToSet
  <2> QED BY <2>1, <2>2
<1>11. from # 1 => r # <<>> /\ Head(r) = Head(post)
  <2>1. ASSUME from # 1 PROVE r # <<>> /\ post # <<>> /\ r[1] = post[1]
    <3>1. 1 \in 1..Len(post)
      BY <1>1
    <3>2. r[1] = post[1]
      BY <1>5, <1>8, <2>1, <3>1
    <3> QED BY <1>1, <1>3, <3>1, <3>2
  <2> QED BY <1>1, <1>3, <2>1
<1> QED BY <1>9, <1>10, <1>11 DEF r, a

-----------------------------------------------------------------------------
(* New jobs.                                                               *)

\* A job as it is made for collection n.
IsNew(j, n) == \E s \in ParSets \union {NoSet}, c \in BOOLEAN : j = NewJob(n, s, c)

\* From q to r the post-queue keeps its jobs and gets at most new ones, of collection n.
Grows(q, r, n) ==
    /\ r \in Queues /\ PostQueue(r.post) /\ ToSet(q.post) \subseteq ToSet(r.post)
    /\ \A id \in ToSet(q.post) : r.job[id] = q.job[id]
    /\ \A id \in ToSet(r.post) \ ToSet(q.post) : IsNew(r.job[id], n)
    /\ \A id \in Ids : r.job[id] = q.job[id] \/ IsNew(r.job[id], n)

\* They come to its end.
AtEnd(q, r) == \A k \in DOMAIN q.post : k \in DOMAIN r.post /\ r.post[k] = q.post[k]

\* The sets of a collection that are found on the disk are finitely many, and there is
\* room for its jobs, with or without one for the script.
LEMMA NewJobsFit ==
    ASSUME NEW q \in Queues, NEW n \in Collections, NEW withScript \in BOOLEAN
    PROVE  /\ IsFiniteSet(NewJobs(q, n, withScript))
           /\ NewJobs(q, n, withScript) \subseteq ParSets \union {NoSet}
           /\ RoomForJobs(q, n) => Cardinality(NewJobs(q, n, withScript))
                                     <= Cardinality(Ids \ ToSet(q.post))
<1> DEFINE J(w) == NewJobs(q, n, w)
<1>1. FoundSets(q, n) \subseteq ParSets /\ IsFiniteSet(FoundSets(q, n))
  <2>1. IsFiniteSet(q.disk \intersect Of(n)) /\ q.disk \intersect Of(n) \subseteq Files
    BY PostAssumption, FS_Subset DEF Queues
  <2>2. IsFiniteSet({SetOf[f] : f \in q.disk \intersect Of(n)})
    <3> DEFINE D == q.disk \intersect Of(n)
               T == {SetOf[f] : f \in D}
               g == [f \in D |-> SetOf[f]]
    <3>1. g \in Surjection(D, T)
      BY DEF Surjection
    <3> QED BY <2>1, <3>1, FS_Surjection
  <2> QED BY <2>1, <2>2, FS_Subset DEF FoundSets, ParSets
<1>2. \A w \in BOOLEAN : IsFiniteSet(J(w)) /\ J(w) \subseteq ParSets \union {NoSet}
  BY <1>1, FS_EmptySet, FS_Singleton DEF NewJobs
<1>3. J(withScript) \subseteq J(TRUE)
  BY DEF NewJobs
<1> DEFINE some == Cardinality(J(withScript))
           all == Cardinality(J(TRUE))
           room == Cardinality(Ids \ ToSet(q.post))
<1>4. some <= all
  BY <1>2, <1>3, FS_Subset
<1>5. some \in Nat /\ all \in Nat
  BY <1>2, FS_CardinalityType
<1>6. room \in Nat
  <2>1. IsFiniteSet(Ids \ ToSet(q.post))
    BY PostAssumption, FS_Interval, FS_Subset DEF Ids
  <2> QED BY <2>1, FS_CardinalityType
<1>7. RoomForJobs(q, n) => some <= room
  <2>1. RoomForJobs(q, n) => all <= room
    BY Zenon DEF RoomForJobs
  <2> HIDE DEF some, all, room
  <2> QED BY <1>4, <1>5, <1>6, <2>1
<1> QED BY <1>2, <1>7

\* The jobs come to the end or to the top of the queue; the others stay as they are.
LEMMA CreatePostJobsFields ==
    ASSUME NEW q \in Queues, NEW n \in Collections, NEW check \in BOOLEAN,
           NEW withScript \in BOOLEAN, NEW addTop \in BOOLEAN,
           PostQueue(q.post), RoomForJobs(q, n)
    PROVE  LET r == CreatePostJobs(q, n, check, withScript, addTop)
           IN  /\ Grows(q, r, n) /\ (~addTop => AtEnd(q, r))
               /\ r.files = q.files /\ r.parked = q.parked /\ r.freed = q.freed
               /\ r.paused = q.paused /\ r.marked = q.marked /\ r.disk = q.disk
               /\ r.history = q.history /\ r.nzb = q.nzb
               /\ NewJobs(q, n, withScript) # {} => ToSet(r.post) # ToSet(q.post)
<1> DEFINE new == NewJobs(q, n, withScript)
           free == Ids \ ToSet(q.post)
           sets == SetToSeq(new)
           ids == SubSeq(SetToSeq(free), 1, Len(sets))
           NJ(id) == NewJob(n, sets[CHOOSE k \in DOMAIN ids : ids[k] = id],
                            check /\ FoundSets(q, n) # {})
           post == IF addTop THEN ids \o q.post ELSE q.post \o ids
           job == [id \in Ids |-> IF id \in ToSet(ids) THEN NJ(id) ELSE q.job[id]]
           r == CreatePostJobs(q, n, check, withScript, addTop)
<1>1. r = [q EXCEPT !.post = post, !.job = job]
  BY DEF CreatePostJobs
<1>2. /\ sets \in Seq(ParSets \union {NoSet}) /\ Len(sets) \in Nat
      /\ Len(sets) = Cardinality(new) /\ Len(sets) <= Cardinality(free)
  <2>1. sets \in Seq(new) /\ Len(sets) = Cardinality(new) /\ Cardinality(new) \in Nat
    BY NewJobsFit, SetToSeqIsSequence
  <2>2. sets \in Seq(ParSets \union {NoSet})
    <3>1. new \subseteq ParSets \union {NoSet}
      BY NewJobsFit, Zenon
    <3> HIDE DEF new, sets
    <3> QED BY <2>1, <3>1, SeqMonotonic
  <2>3. Cardinality(new) <= Cardinality(free)
    BY NewJobsFit, Zenon
  <2> HIDE DEF new, free, sets
  <2> QED BY <2>1, <2>2, <2>3
<1>3. /\ ids \in Seq(free) /\ Len(ids) = Len(sets) /\ IsInjective(ids)
      /\ DOMAIN ids = 1..Len(sets)
  <2> DEFINE all == SetToSeq(free)
  <2>1. all \in Seq(free) /\ Len(all) = Cardinality(free) /\ IsInjective(all) /\ Len(all) \in Nat
    <3>1. IsFiniteSet(Ids)
      BY PostAssumption, FS_Interval DEF Ids
    <3>2. free \subseteq Ids
      OBVIOUS
    <3> HIDE DEF free, new, sets, ids, post, job, r
    <3>3. IsFiniteSet(free)
      BY <3>1, <3>2, FS_Subset
    <3> QED BY <3>3, SetToSeqIsSequence
  <2>0. ids = SubSeq(all, 1, Len(sets))
    OBVIOUS
  <2> HIDE DEF all, free, sets, ids
  <2>2. 1 \in 1..(Len(all) + 1) /\ Len(sets) \in 0..Len(all) /\ 1 <= Len(sets) + 1
    BY <1>2, <2>1
  <2>3. /\ ids \in Seq(free) /\ Len(ids) = Len(sets)
        /\ \A i \in 1..Len(sets) : ids[i] = all[i]
    <3>1. /\ ids \in Seq(free) /\ Len(ids) = Len(sets) - 1 + 1
          /\ \A i \in 1..(Len(sets) - 1 + 1) : ids[i] = all[1 + i - 1]
      BY <2>0, <2>1, <2>2, PartOf
    <3> QED BY <1>2, <3>1
  <2>4. DOMAIN ids = 1..Len(sets) /\ DOMAIN all = 1..Len(all)
    BY <2>1, <2>3, LenProperties
  <2>5. IsInjective(ids)
    BY <2>1, <2>2, <2>3, <2>4 DEF IsInjective
  <2> QED BY <2>3, <2>4, <2>5
<1>4. /\ q.post \in Seq(Ids) /\ ids \in Seq(Ids) /\ ToSet(ids) \subseteq free
      /\ DOMAIN q.post = 1..Len(q.post) /\ Len(q.post) \in Nat /\ Len(ids) \in Nat
  <2>1. /\ q.post \in Seq(Ids)
        /\ DOMAIN q.post = 1..Len(q.post) /\ Len(q.post) \in Nat
    BY LenProperties DEF PostQueue
  <2> HIDE DEF ids
  <2>2. ids \in Seq(Ids)
    BY <1>3, SeqMonotonic
  <2>3. \A i \in DOMAIN ids : ids[i] \in free
    <3> HIDE DEF free, sets
    <3> QED BY <1>3, ElementOfSeq
  <2> QED BY <1>2, <1>3, <2>1, <2>2, <2>3 DEF ToSet
<1>5. ASSUME NEW id \in ToSet(ids)
      PROVE  NJ(id) \in Jobs /\ IsNew(NJ(id), n)
  <2> DEFINE k == CHOOSE k \in DOMAIN ids : ids[k] = id
             c == check /\ FoundSets(q, n) # {}
  <2>1. k \in DOMAIN ids
    BY DEF ToSet
  <2>2. sets[k] \in ParSets \union {NoSet}
    BY <1>2, <1>3, <2>1, ElementOfSeq
  <2>3. c \in BOOLEAN
    OBVIOUS
  <2> HIDE DEF k, c, sets
  <2>4. NewJob(n, sets[k], c) \in Jobs
    BY <2>2, <2>3 DEF NewJob, Jobs
  <2> QED BY <2>2, <2>3, <2>4 DEF k, c, IsNew
<1> HIDE DEF sets, free, NJ, new
<1> HIDE DEF ids
<1>6. ASSUME NEW s, NEW t, PostQueue(s), PostQueue(t), ToSet(s) \intersect ToSet(t) = {}
      PROVE  /\ PostQueue(s \o t) /\ ToSet(s \o t) = ToSet(s) \union ToSet(t)
             /\ \A k \in DOMAIN s : k \in DOMAIN (s \o t) /\ (s \o t)[k] = s[k]
  <2> DEFINE u == s \o t
  <2>1. /\ s \in Seq(Ids) /\ t \in Seq(Ids) /\ Len(s) \in Nat /\ Len(t) \in Nat
        /\ DOMAIN s = 1..Len(s) /\ DOMAIN t = 1..Len(t)
    BY <1>6, LenProperties DEF PostQueue
  <2>2. /\ u \in Seq(Ids) /\ Len(u) = Len(s) + Len(t) /\ DOMAIN u = 1..(Len(s) + Len(t))
        /\ \A i \in 1..(Len(s) + Len(t)) : u[i] = IF i <= Len(s) THEN s[i] ELSE t[i - Len(s)]
    BY <2>1, ConcatProperties, LenProperties
  <2> HIDE DEF u
  <2>3. ASSUME NEW i \in 1..(Len(s) + Len(t))
        PROVE  \/ i \in DOMAIN s /\ u[i] = s[i]
               \/ i - Len(s) \in DOMAIN t /\ u[i] = t[i - Len(s)]
    BY <2>1, <2>2
  <2>4. ASSUME NEW i \in DOMAIN s PROVE i \in DOMAIN u /\ u[i] = s[i]
    BY <2>1, <2>2
  <2>5. ASSUME NEW i \in DOMAIN t PROVE i + Len(s) \in DOMAIN u /\ u[i + Len(s)] = t[i]
    <3>1. i + Len(s) \in 1..(Len(s) + Len(t)) /\ ~(i + Len(s) <= Len(s)) /\ (i + Len(s)) - Len(s) = i
      BY <2>1
    <3> QED BY <2>2, <3>1
  <2>6. ToSet(u) = ToSet(s) \union ToSet(t)
    <3>1. ASSUME NEW x \in ToSet(u) PROVE x \in ToSet(s) \union ToSet(t)
      BY <2>2, <2>3 DEF ToSet
    <3>2. ASSUME NEW x \in ToSet(s) \union ToSet(t) PROVE x \in ToSet(u)
      BY <2>4, <2>5 DEF ToSet
    <3> QED BY <3>1, <3>2
  <2>7. ASSUME NEW i \in DOMAIN u, NEW j \in DOMAIN u, u[i] = u[j] PROVE i = j
    <3>1. ASSUME NEW x \in DOMAIN s, NEW y \in DOMAIN t PROVE s[x] # t[y]
      BY <1>6 DEF ToSet
    <3>2. /\ \A x, y \in DOMAIN s : s[x] = s[y] => x = y
          /\ \A x, y \in DOMAIN t : t[x] = t[y] => x = y
      BY <1>6 DEF PostQueue, IsInjective
    <3>3. i - Len(s) = j - Len(s) => i = j
      BY <2>1, <2>2
    <3> QED BY <2>2, <2>3, <2>7, <3>1, <3>2, <3>3
  <2> QED BY <2>2, <2>4, <2>6, <2>7 DEF PostQueue, IsInjective, u
<1>7. /\ PostQueue(post) /\ ToSet(post) = ToSet(q.post) \union ToSet(ids)
      /\ ~addTop => \A k \in DOMAIN q.post : k \in DOMAIN post /\ post[k] = q.post[k]
  <2>1. PostQueue(ids) /\ ToSet(ids) \intersect ToSet(q.post) = {}
    BY <1>3, <1>4 DEF PostQueue, free
  <2>2. CASE addTop
    BY <1>6, <2>1, <2>2
  <2>3. CASE ~addTop
    BY <1>6, <2>1, <2>3
  <2> QED BY <2>2, <2>3
<1>8. job \in [Ids -> Jobs \union {{}}] /\ ToSet(ids) \subseteq Ids
  BY <1>4, <1>5 DEF Queues, free
<1>9. \A id \in ToSet(q.post) : id \in Ids /\ id \notin ToSet(ids)
  BY <1>4 DEF free, ToSet
<1> HIDE DEF post
<1>10. /\ r \in Queues /\ r.post = post /\ r.job = job
       /\ r.files = q.files /\ r.parked = q.parked /\ r.freed = q.freed
       /\ r.paused = q.paused /\ r.marked = q.marked /\ r.disk = q.disk
       /\ r.history = q.history /\ r.nzb = q.nzb
  <2> HIDE DEF job, r
  <2> QED BY <1>1, <1>7, <1>8 DEF Queues, PostQueue
<1>11. new # {} => ToSet(post) # ToSet(q.post)
  <2>1. ASSUME new # {} PROVE ToSet(ids) # {}
    <3>1. Len(sets) # 0
      BY <1>2, <2>1, NewJobsFit, FS_EmptySet DEF new
    <3>2. 1 \in DOMAIN ids
      BY <1>2, <1>3, <3>1
    <3> QED BY <3>2 DEF ToSet
  <2> QED BY <1>4, <1>7, <2>1 DEF free
<1> HIDE DEF r
<1>12. \A id \in Ids : job[id] = q.job[id] \/ IsNew(job[id], n)
  BY <1>5
<1>13. \A id \in ToSet(post) \ ToSet(q.post) : IsNew(job[id], n)
  BY <1>5, <1>7, <1>8
<1>14. \A id \in ToSet(q.post) : job[id] = q.job[id]
  BY <1>9
<1> HIDE DEF job
<1>15. ToSet(q.post) \subseteq ToSet(post)
  BY <1>7
<1>16. Grows(q, r, n) /\ (~addTop => AtEnd(q, r))
  BY <1>7, <1>10, <1>12, <1>13, <1>14, <1>15 DEF Grows, AtEnd
<1> QED BY <1>10, <1>11, <1>16 DEF r, new

-----------------------------------------------------------------------------
(* The lists of files.                                                     *)

\* Files are in one list; the files in b have active downloads, are queued and not paused;
\* the files of a collection are added together, and have been if it is in the history or
\* has jobs; what is left to download of a collection in the history is nothing.
Lists(q, b) ==
    /\ q.files \intersect q.parked = {}
    /\ q.freed \intersect (q.files \union q.parked) = {}
    /\ b \subseteq q.files /\ b \intersect q.paused = {}
    /\ \A n \in q.history : Group(q, n) \subseteq q.marked /\ Of(n) \subseteq Known(q)
    /\ \A f \in Known(q) : Of(NzbOf[f]) \subseteq Known(q)
    /\ \A id \in ToSet(q.post) : Of(q.job[id].nzb) \subseteq Known(q)

\* A file that is deleted is in one list as before.
LEMMA DeleteQueueEntryLists ==
    ASSUME NEW q \in Queues, Lists(q, busy), NEW f \in Files, f \in Known(q), f \notin q.parked
    PROVE  LET r == DeleteQueueEntry(q, f) IN Lists(r, busy) /\ Known(r) = Known(q)
<1> DEFINE r == DeleteQueueEntry(q, f)
           n == NzbOf[f]
<1>1. Of(n) \subseteq Known(q)
  BY DEF Lists
<1>2. /\ r.parked = q.parked /\ r.post = q.post /\ r.job = q.job
      /\ \/ /\ f \in busy /\ r.files = q.files /\ r.freed = q.freed
            /\ r.paused = q.paused /\ r.marked = q.marked \union {f}
            /\ r.history = q.history
         \/ /\ f \notin busy /\ r.files = q.files \ {f} /\ r.freed = q.freed \union {f}
            /\ r.paused = q.paused \ {f} /\ r.marked = q.marked \ {f}
            /\ \/ r.history = q.history
               \/ /\ r.history = q.history \union {n}
                  /\ Group(q, n) \subseteq q.marked \union {f}
  BY DeleteQueueEntryFields
<1> HIDE DEF r, n
<1>3. Known(r) = Known(q)
  BY <1>2 DEF Known, Lists
<1>4. /\ r.files \intersect r.parked = {}
      /\ r.freed \intersect (r.files \union r.parked) = {}
      /\ busy \subseteq r.files /\ busy \intersect r.paused = {}
  BY <1>2 DEF Lists
<1>5. \A m \in r.history : Group(r, m) \subseteq r.marked /\ Of(m) \subseteq Known(q)
  BY <1>1, <1>2 DEF Lists, Group
<1> QED BY <1>2, <1>3, <1>4, <1>5 DEF Lists, r

\* When a group is deleted, the lists keep what they have in common; the jobs, and the
\* files that are parked, are not touched.
LEMMA GroupDeleteFields ==
    ASSUME NEW q \in Queues, NEW n \in Collections
    PROVE  LET r == GroupDelete(q, n)
           IN  /\ r \in Queues
               /\ r.parked = q.parked /\ r.post = q.post /\ r.job = q.job
               /\ r.files \subseteq q.files /\ q.marked \intersect r.files \subseteq r.marked
               /\ Lists(q, busy) => Lists(r, busy) /\ Known(r) = Known(q)
<1> DEFINE p == [q EXCEPT !.nzb[n].deleted = TRUE, !.nzb[n].cleanupDisk = CanCleanupDisk(q, n)]
           files == SetToSeq(Group(q, n))
           r == GroupDelete(q, n)
<1>1. /\ p \in Queues /\ p.files = q.files /\ p.parked = q.parked /\ p.freed = q.freed
      /\ p.paused = q.paused /\ p.marked = q.marked /\ p.history = q.history
      /\ p.post = q.post /\ p.job = q.job
  <2>1. CanCleanupDisk(q, n) \in BOOLEAN
    BY DEF CanCleanupDisk
  <2>2. q.nzb \in [Collections -> NzbInfos]
    BY DEF Queues
  <2>3. [q.nzb EXCEPT ![n].deleted = TRUE, ![n].cleanupDisk = CanCleanupDisk(q, n)]
            \in [Collections -> NzbInfos]
    <3>1. ASSUME NEW b \in BOOLEAN
          PROVE  [q.nzb[n] EXCEPT !.deleted = TRUE, !.cleanupDisk = b] \in NzbInfos
      BY <2>2 DEF NzbInfos
    <3> DEFINE info == [q.nzb[n] EXCEPT !.deleted = TRUE, !.cleanupDisk = CanCleanupDisk(q, n)]
    <3>2. info \in NzbInfos
      BY <2>1, <3>1
    <3>3. [q.nzb EXCEPT ![n] = info] \in [Collections -> NzbInfos]
      <4> HIDE DEF info
      <4> QED BY <2>2, <3>2
    <3>4. [q.nzb EXCEPT ![n].deleted = TRUE, ![n].cleanupDisk = CanCleanupDisk(q, n)]
            = [q.nzb EXCEPT ![n] = info]
      BY <2>2
    <3> QED BY <3>3, <3>4
  <2> QED BY <2>3 DEF Queues
<1>2. files \in Seq(Group(q, n)) /\ Len(files) \in Nat
  <2>1. IsFiniteSet(Group(q, n))
    BY PostAssumption, FS_Subset DEF Group, Of
  <2> QED BY <2>1, SetToSeqIsSequence
<1>3. r = DeleteQueueEntries(p, files)
  BY DEF GroupDelete
<1>4. Group(q, n) \subseteq q.files /\ Group(q, n) \subseteq Files
  BY DEF Group, Of
<1>5. Lists(q, busy) => Lists(p, busy) /\ Known(p) = Known(q)
  BY <1>1 DEF Lists, Known, Group
<1> HIDE DEF p, files, r
<1>6. PICK a : /\ r = a[Len(files)] /\ a[0] = p
               /\ \A k \in 1..Len(files) : a[k] = DeleteQueueEntry(a[k - 1], files[k])
  BY <1>2, <1>3, DeleteQueueEntriesSteps
<1> DEFINE Good(s) == /\ s \in Queues
                      /\ s.parked = q.parked /\ s.post = q.post /\ s.job = q.job
                      /\ s.files \subseteq q.files
                      /\ q.marked \intersect s.files \subseteq s.marked
                      /\ Lists(q, busy) => Lists(s, busy) /\ Known(s) = Known(q)
           S == {k \in Nat : k <= Len(files) => Good(a[k])}
<1>7. 0 \in S
  BY <1>1, <1>2, <1>5, <1>6
<1>8. ASSUME NEW k \in Nat, k \in S PROVE k + 1 \in S
  <2>1. SUFFICES ASSUME k + 1 <= Len(files) PROVE Good(a[k + 1])
    OBVIOUS
  <2> DEFINE s == a[k]
             f == files[k + 1]
             t == a[k + 1]
  <2>2. Good(s)
    BY <1>2, <1>8, <2>1
  <2>3. k + 1 \in 1..Len(files) /\ (k + 1) - 1 = k
    BY <1>2, <2>1
  <2>4. t = DeleteQueueEntry(s, f)
    BY <1>6, <2>3
  <2>5. f \in q.files /\ f \in Files
    BY <1>2, <1>4, <2>3, ElementOfSeq
  <2> HIDE DEF s, f, t
  <2>6. /\ t \in Queues
        /\ t.parked = s.parked /\ t.post = s.post /\ t.job = s.job
        /\ \/ t.files = s.files /\ t.marked = s.marked \union {f}
           \/ t.files = s.files \ {f} /\ t.marked = s.marked \ {f}
    BY <2>2, <2>4, <2>5, DeleteQueueEntryFields
  <2>7. ASSUME Lists(q, busy) PROVE Lists(t, busy) /\ Known(t) = Known(q)
    <3>1. f \in Known(s) /\ f \notin s.parked
      BY <2>2, <2>5, <2>7 DEF Lists, Known
    <3> QED BY <2>2, <2>4, <2>5, <2>7, <3>1, DeleteQueueEntryLists
  <2>8. t.files \subseteq q.files /\ q.marked \intersect t.files \subseteq t.marked
    BY <2>2, <2>6
  <2> QED BY <2>2, <2>6, <2>7, <2>8 DEF t
<1> HIDE DEF S
<1>9. Len(files) \in S
  BY <1>2, <1>7, <1>8, SetInduction
<1>10. Good(r)
  BY <1>2, <1>6, <1>9 DEF S
<1> QED BY <1>10 DEF r

\* What a collection has left is parked if none of it is being downloaded.
LEMMA NZBCompletedLists ==
    ASSUME NEW q \in Queues, NEW n \in Collections, NEW b, Lists(q, b),
           (Group(q, n) \ q.marked) \intersect b = {}, Of(n) \subseteq Known(q)
    PROVE  LET r == NZBCompleted(q, n) IN Lists(r, b) /\ Known(r) = Known(q)
<1> DEFINE park == Group(q, n) \ q.marked
           r == NZBCompleted(q, n)
<1>1. /\ r.files = q.files \ park /\ r.parked = q.parked \union park
      /\ r.history = q.history \union {n} /\ r.freed = q.freed /\ r.paused = q.paused
      /\ r.marked = q.marked /\ r.post = q.post /\ r.job = q.job
  BY NZBCompletedFields
<1>2. park \subseteq q.files /\ park \intersect b = {}
  BY DEF Group
<1> HIDE DEF r
<1>3. Known(r) = Known(q)
  BY <1>1, <1>2 DEF Known
<1>4. Group(r, n) \subseteq q.marked
  BY <1>1 DEF Group
<1> HIDE DEF park
<1>5. /\ r.files \intersect r.parked = {}
      /\ r.freed \intersect (r.files \union r.parked) = {}
      /\ b \subseteq r.files /\ b \intersect r.paused = {}
  BY <1>1, <1>2 DEF Lists
<1>6. \A m \in r.history : Group(r, m) \subseteq r.marked /\ Of(m) \subseteq Known(q)
  BY <1>1, <1>4 DEF Lists, Group
<1> QED BY <1>1, <1>3, <1>5, <1>6 DEF Lists, r

\* A collection that is complete but for paused files has nothing that is being downloaded.
LEMMA CompletedIsIdle ==
    ASSUME NEW q, NEW n, NEW b, Lists(q, b), NEW ignorePars, NEW checkPost, NEW oneDeleted,
           IsNZBFileCompleted(q, n, ignorePars, checkPost, oneDeleted)
    PROVE  (Group(q, n) \ q.marked) \intersect b = {}
BY DEF IsNZBFileCompleted, Lists

\* A file that leaves the queue for good is in no other list.
LEMMA DeleteFileInfoLists ==
    ASSUME NEW q \in Queues, NEW b, Lists(q, b), NEW f \in Files, f \in q.files
    PROVE  LET r == DeleteFileInfo(q, f) IN Lists(r, b \ {f}) /\ Known(r) = Known(q)
<1> DEFINE r == DeleteFileInfo(q, f)
<1>1. /\ r.files = q.files \ {f} /\ r.paused = q.paused \ {f}
      /\ r.marked = q.marked \ {f} /\ r.freed = q.freed \union {f}
      /\ r.parked = q.parked /\ r.history = q.history /\ r.post = q.post /\ r.job = q.job
  BY DeleteFileInfoFields
<1> HIDE DEF r
<1>2. Known(r) = Known(q)
  BY <1>1 DEF Known
<1>3. /\ r.files \intersect r.parked = {}
      /\ r.freed \intersect (r.files \union r.parked) = {}
      /\ b \ {f} \subseteq r.files /\ (b \ {f}) \intersect r.paused = {}
  BY <1>1 DEF Lists
<1>4. \A m \in r.history : Group(r, m) \subseteq r.marked /\ Of(m) \subseteq Known(q)
  BY <1>1 DEF Lists, Group
<1> QED BY <1>1, <1>2, <1>3, <1>4 DEF Lists, r

-----------------------------------------------------------------------------
(* A collection is downloaded.                                              *)

\* It does so if nothing happens to it.
LEMMA GrowsIfSame ==
    ASSUME NEW q \in Queues, PostQueue(q.post), NEW r \in Queues, NEW n,
           r.post = q.post, r.job = q.job
    PROVE  Grows(q, r, n) /\ AtEnd(q, r)
BY DEF Grows, AtEnd

\* Jobs for a collection whose files were all added do not touch its files.
LEMMA CreatePostJobsLists ==
    ASSUME NEW q \in Queues, NEW n \in Collections, NEW check \in BOOLEAN,
           NEW withScript \in BOOLEAN, NEW addTop \in BOOLEAN,
           PostQueue(q.post), RoomForJobs(q, n)
    PROVE  LET r == CreatePostJobs(q, n, check, withScript, addTop)
           IN  /\ Grows(q, r, n) /\ (~addTop => AtEnd(q, r))
               /\ r.files = q.files /\ r.marked = q.marked
               /\ \A b : Lists(q, b) /\ Of(n) \subseteq Known(q) =>
                             Lists(r, b) /\ Known(r) = Known(q)
<1> DEFINE r == CreatePostJobs(q, n, check, withScript, addTop)
<1>1. Grows(q, r, n) /\ (~addTop => AtEnd(q, r))
  BY CreatePostJobsFields
<1>2. /\ r.files = q.files /\ r.parked = q.parked /\ r.freed = q.freed
      /\ r.paused = q.paused /\ r.marked = q.marked /\ r.history = q.history
  BY CreatePostJobsFields
<1> HIDE DEF r
<1>3. \A id \in ToSet(r.post) :
          (id \in ToSet(q.post) /\ r.job[id] = q.job[id]) \/ r.job[id].nzb = n
  <2>1. \A j : IsNew(j, n) => j.nzb = n
    BY DEF IsNew, NewJob
  <2> QED BY <1>1, <2>1 DEF Grows
<1>4. ASSUME NEW b, Lists(q, b), Of(n) \subseteq Known(q) PROVE Lists(r, b) /\ Known(r) = Known(q)
  <2>1. Known(r) = Known(q)
    BY <1>2 DEF Known
  <2>2. \A m : Group(r, m) = Group(q, m)
    BY <1>2 DEF Group
  <2>3. \A id \in ToSet(r.post) : Of(r.job[id].nzb) \subseteq Known(q)
    BY <1>3, <1>4 DEF Lists
  <2> QED BY <1>2, <1>4, <2>1, <2>2, <2>3 DEF Lists
<1> QED BY <1>1, <1>2, <1>4 DEF r

\* A downloaded collection gets jobs or goes to the history.
LEMMA NZBDownloadedFields ==
    ASSUME NEW q \in Queues, NEW n \in Collections, PostQueue(q.post),
           ~q.nzb[n].postProcess \/ AllowReProcess => RoomForJobs(q, n)
    PROVE  LET r == NZBDownloaded(q, n)
           IN  /\ Grows(q, r, n) /\ AtEnd(q, r)
               /\ r.marked = q.marked /\ q.files \intersect q.marked \subseteq r.files
               /\ \A b : Lists(q, b) /\ Of(n) \subseteq Known(q) /\ (Group(q, n) \ q.marked) \intersect b = {}
                         => Lists(r, b) /\ Known(r) = Known(q)
<1> DEFINE r == NZBDownloaded(q, n)
           c == CreatePostJobs(q, n, ParCheck, TRUE, FALSE)
           d == [c EXCEPT !.nzb[n].postProcess = TRUE]
<1>1. \/ r = NZBCompleted(q, n)
      \/ r = d /\ RoomForJobs(q, n)
  BY Zenon DEF NZBDownloaded
<1>2. CASE r = NZBCompleted(q, n)
  <2>1. /\ r \in Queues /\ r.post = q.post /\ r.job = q.job /\ r.marked = q.marked
        /\ r.files = q.files \ (Group(q, n) \ q.marked)
    <3> HIDE DEF r
    <3> QED BY <1>2, NZBCompletedFields
  <2>2. Grows(q, r, n) /\ AtEnd(q, r)
    BY <2>1, GrowsIfSame
  <2>3. \A b : Lists(q, b) /\ Of(n) \subseteq Known(q) /\ (Group(q, n) \ q.marked) \intersect b = {}
               => Lists(r, b) /\ Known(r) = Known(q)
    <3> HIDE DEF r
    <3> SUFFICES ASSUME NEW b, Lists(q, b), Of(n) \subseteq Known(q),
                        (Group(q, n) \ q.marked) \intersect b = {}
                 PROVE  Lists(r, b) /\ Known(r) = Known(q)
      OBVIOUS
    <3>1. Lists(NZBCompleted(q, n), b) /\ Known(NZBCompleted(q, n)) = Known(q)
      BY NZBCompletedLists
    <3> QED BY <1>2, <3>1
  <2> QED BY <2>1, <2>2, <2>3
<1>3. CASE r = d /\ RoomForJobs(q, n)
  <2>1. /\ Grows(q, c, n) /\ AtEnd(q, c) /\ c.files = q.files /\ c.marked = q.marked
        /\ \A b : Lists(q, b) /\ Of(n) \subseteq Known(q) => Lists(c, b) /\ Known(c) = Known(q)
    <3> HIDE DEF r, d
    <3>1. ParCheck \in BOOLEAN /\ TRUE \in BOOLEAN /\ FALSE \in BOOLEAN /\ RoomForJobs(q, n)
      BY <1>3, PostAssumption
    <3>2. \A w, top \in BOOLEAN :
              LET s == CreatePostJobs(q, n, ParCheck, w, top)
              IN  /\ Grows(q, s, n) /\ (~top => AtEnd(q, s))
                  /\ s.files = q.files /\ s.marked = q.marked
                  /\ \A b : Lists(q, b) /\ Of(n) \subseteq Known(q) =>
                                Lists(s, b) /\ Known(s) = Known(q)
      BY <3>1, CreatePostJobsLists
    <3> QED BY <3>1, <3>2, Zenon
  <2> HIDE DEF c
  <2>3. /\ d \in Queues /\ d.files = c.files /\ d.parked = c.parked /\ d.freed = c.freed
        /\ d.paused = c.paused /\ d.marked = c.marked /\ d.history = c.history
        /\ d.post = c.post /\ d.job = c.job
    <3> HIDE DEF r
    <3>1. c \in Queues /\ c.nzb \in [Collections -> NzbInfos]
      BY <2>1 DEF Grows, Queues
    <3>2. [c.nzb EXCEPT ![n].postProcess = TRUE] \in [Collections -> NzbInfos]
      BY <3>1 DEF NzbInfos
    <3> QED BY <3>1, <3>2 DEF Queues
  <2> HIDE DEF d
  <2>4. Grows(q, d, n) /\ AtEnd(q, d)
    BY <2>1, <2>3 DEF Grows, AtEnd
  <2>5. \A b : Lists(c, b) => Lists(d, b)
    BY <2>3 DEF Lists, Known, Group
  <2>6. Known(d) = Known(c)
    BY <2>3 DEF Known
  <2>7. r = d
    BY <1>3
  <2> HIDE DEF r
  <2>8. /\ Grows(q, r, n) /\ AtEnd(q, r)
        /\ r.marked = q.marked /\ q.files \intersect q.marked \subseteq r.files
    BY <2>1, <2>3, <2>4, <2>7
  <2>9. \A b : Lists(q, b) /\ Of(n) \subseteq Known(q) /\ (Group(q, n) \ q.marked) \intersect b = {}
               => Lists(r, b) /\ Known(r) = Known(q)
    BY <2>1, <2>5, <2>6, <2>7
  <2> QED BY <2>8, <2>9 DEF r
<1> QED BY <1>1, <1>2, <1>3

\* The notification of a completed or deleted file, which is marked as deleted.
LEMMA UpdateLists ==
    ASSUME NEW q \in Queues, NEW f \in Files, NEW done \in BOOLEAN, PostQueue(q.post),
           f \in q.marked,
           ~q.nzb[NzbOf[f]].postProcess \/ AllowReProcess => RoomForJobs(q, NzbOf[f])
    PROVE  LET u == QueueCoordinatorUpdate(q, f, done)
           IN  /\ Grows(q, u, NzbOf[f]) /\ AtEnd(q, u)
               /\ f \in q.files => f \in u.files /\ \A b : Lists(q, b) => Lists(u, b)
<1> DEFINE n == NzbOf[f]
           u == QueueCoordinatorUpdate(q, f, done)
<1>1. n \in Collections
  BY PostAssumption
<1>2. CASE done = TRUE
  <2>1. u = q \/ (u = NZBDownloaded(q, n) /\ IsNZBFileCompleted(q, n, TRUE, FALSE, FALSE))
    BY <1>2, Zenon DEF QueueCoordinatorUpdate
  <2>2. CASE u = q
    <3> HIDE DEF u
    <3>1. Grows(q, u, n) /\ AtEnd(q, u)
      BY <2>2, GrowsIfSame
    <3> QED BY <2>2, <3>1 DEF u
  <2>3. CASE u = NZBDownloaded(q, n) /\ IsNZBFileCompleted(q, n, TRUE, FALSE, FALSE)
    <3> DEFINE d == NZBDownloaded(q, n)
    <3> HIDE DEF n, u
    <3>1. ~q.nzb[n].postProcess \/ AllowReProcess => RoomForJobs(q, n)
      BY DEF n
    <3>2. /\ Grows(q, d, n) /\ AtEnd(q, d)
          /\ q.files \intersect q.marked \subseteq d.files
          /\ \A b : Lists(q, b) /\ Of(n) \subseteq Known(q) /\ (Group(q, n) \ q.marked) \intersect b = {}
                        => Lists(d, b) /\ Known(d) = Known(q)
      BY <1>1, <3>1, NZBDownloadedFields
    <3> HIDE DEF d
    <3>3. ASSUME NEW b, Lists(q, b), f \in q.files PROVE Lists(d, b)
      <4>1. (Group(q, n) \ q.marked) \intersect b = {}
        BY <2>3, <3>3, CompletedIsIdle
      <4>2. Of(n) \subseteq Known(q)
        BY <3>3 DEF Lists, Known, n
      <4> QED BY <3>2, <3>3, <4>1, <4>2
    <3>4. u = d
      BY <2>3 DEF d
    <3> QED BY <3>2, <3>3, <3>4 DEF u, n
  <2> QED BY <2>1, <2>2, <2>3
<1>3. CASE done = FALSE
  <2>1. u = QueueCoordinatorUpdate(q, f, FALSE)
    BY <1>3
  <2> HIDE DEF u
  <2>2. /\ u \in Queues
        /\ u.files = q.files /\ u.parked = q.parked /\ u.freed = q.freed
        /\ u.paused = q.paused /\ u.marked = q.marked
        /\ u.post = q.post /\ u.job = q.job
        /\ \/ u.history = q.history
           \/ u.history = q.history \union {n} /\ Group(q, n) \subseteq q.marked
    BY <2>1, UpdateOfDeleted
  <2>3. Grows(q, u, n) /\ AtEnd(q, u)
    BY <2>2, GrowsIfSame
  <2>4. ASSUME NEW b, Lists(q, b), f \in q.files PROVE Lists(u, b)
    <3>1. Of(n) \subseteq Known(q)
      BY <2>4 DEF Lists, Known
    <3> HIDE DEF n
    <3>2. Known(u) = Known(q) /\ \A m : Group(u, m) = Group(q, m)
      BY <2>2 DEF Known, Group
    <3> QED BY <2>2, <2>4, <3>1, <3>2 DEF Lists
  <2> QED BY <2>2, <2>3, <2>4 DEF u
<1> QED BY <1>2, <1>3

-----------------------------------------------------------------------------
(* A job is completed.                                                     *)

\* The job leaves the queue, and its memory is freed unless the par-checker has it; the
\* other jobs are not touched.
LEMMA JobCompletedFields ==
    ASSUME NEW q \in Queues, PostQueue(q.post), NEW id \in ToSet(q.post), q.job[id] \in Jobs
    PROVE  LET r == JobCompleted(q, id)
           IN  /\ r \in Queues /\ r.post = Erase(q.post, id)
               /\ \A i \in Ids \ {id} : r.job[i] = q.job[i]
               /\ parRunning /\ id = parJob => r.job[id] \in Jobs
               /\ Lists(q, busy) => Lists(r, busy)
<1> DEFINE n == q.job[id].nzb
           job1 == [q.job EXCEPT ![id].working = FALSE, ![id].stage = "finished"]
           nzb1 == [q.nzb EXCEPT ![n].script = AddScriptStatus(q.job[id].script, @)]
           q1 == [q EXCEPT !.job[id].working = FALSE, !.job[id].stage = "finished",
                           !.nzb[n].script = AddScriptStatus(q.job[id].script, @)]
           p1 == [q1 EXCEPT !.nzb[n].parCleanup = TRUE]
           clean == ParCleanupQueue /\ MayCleanUp(q1.nzb[n]) /\ Group(q1, n) # {}
           q2 == IF clean THEN GroupDelete(p1, n) ELSE q1
           q3 == IF IsNZBFileCompleted(q1, n, TRUE, TRUE, FALSE) THEN NZBCompleted(q2, n) ELSE q1
           r == JobCompleted(q, id)
<1>1. r = [q3 EXCEPT !.post = Erase(@, id),
                     !.job[id] = IF parRunning /\ id = parJob THEN @ ELSE {}]
  BY DEF JobCompleted
<1>2. id \in Ids /\ n \in Collections
  <2>1. id \in Ids
    BY DEF PostQueue, ToSet
  <2> QED BY <2>1 DEF Jobs
<1>3. /\ q1 \in Queues /\ q1.files = q.files /\ q1.parked = q.parked /\ q1.freed = q.freed
      /\ q1.paused = q.paused /\ q1.marked = q.marked /\ q1.history = q.history
      /\ q1.post = q.post /\ q1.job[id] \in Jobs /\ q1.job[id].nzb = n
      /\ \A i \in Ids \ {id} : q1.job[i] = q.job[i]
  <2>1. q.job \in [Ids -> Jobs \union {{}}] /\ q.nzb \in [Collections -> NzbInfos]
    BY DEF Queues
  <2>2. /\ job1[id] \in Jobs /\ job1[id].nzb = n
        /\ job1 \in [Ids -> Jobs \union {{}}] /\ \A i \in Ids \ {id} : job1[i] = q.job[i]
    BY <1>2, <2>1 DEF Jobs
  <2>3. nzb1 \in [Collections -> NzbInfos]
    <3>1. /\ q.job[id].script \in {"none", "unknown", "failure", "success"}
          /\ q.nzb[n].script \in {"none", "unknown", "failure", "success"}
      BY <1>2, <2>1 DEF Jobs, NzbInfos
    <3>2. AddScriptStatus(q.job[id].script, q.nzb[n].script)
              \in {"none", "unknown", "failure", "success"}
      BY <3>1 DEF AddScriptStatus
    <3> HIDE DEF n
    <3> QED BY <1>2, <2>1, <3>2 DEF NzbInfos
  <2>4. q1 = [q EXCEPT !.job = job1, !.nzb = nzb1]
    BY Zenon
  <2> HIDE DEF job1, nzb1, q1
  <2> QED BY <2>2, <2>3, <2>4 DEF Queues
<1> HIDE DEF q1, n
<1>4. /\ p1 \in Queues /\ p1.files = q1.files /\ p1.parked = q1.parked
      /\ p1.freed = q1.freed /\ p1.paused = q1.paused /\ p1.marked = q1.marked
      /\ p1.history = q1.history /\ p1.post = q1.post /\ p1.job = q1.job
  <2>1. q1.nzb \in [Collections -> NzbInfos]
    BY <1>3 DEF Queues
  <2>2. [q1.nzb EXCEPT ![n].parCleanup = TRUE] \in [Collections -> NzbInfos]
    BY <2>1 DEF NzbInfos
  <2> QED BY <1>3, <2>2 DEF Queues
<1> HIDE DEF p1
<1>5. /\ q2 \in Queues /\ q2.post = q1.post /\ q2.job = q1.job
      /\ q2.files \subseteq q1.files /\ q1.marked \intersect q2.files \subseteq q2.marked
      /\ Lists(q1, busy) => Lists(q2, busy) /\ Known(q2) = Known(q1)
  <2>1. CASE clean
    <3>1. Lists(q1, busy) => Lists(p1, busy) /\ Known(p1) = Known(q1)
      BY <1>4 DEF Lists, Known, Group
    <3> DEFINE g == GroupDelete(p1, n)
    <3>2. /\ g \in Queues /\ g.post = p1.post /\ g.job = p1.job
          /\ g.files \subseteq p1.files /\ p1.marked \intersect g.files \subseteq g.marked
          /\ Lists(p1, busy) => Lists(g, busy) /\ Known(g) = Known(p1)
      BY <1>2, <1>4, GroupDeleteFields
    <3>3. q2 = g
      BY <2>1
    <3> HIDE DEF g, q2
    <3> QED BY <1>4, <3>1, <3>2, <3>3
  <2>2. CASE ~clean
    BY <1>3, <2>2
  <2> QED BY <2>1, <2>2
<1> HIDE DEF q2
<1>6. /\ q3 \in Queues /\ q3.post = q1.post /\ q3.job = q1.job
      /\ Lists(q1, busy) => Lists(q3, busy)
  <2>1. CASE IsNZBFileCompleted(q1, n, TRUE, TRUE, FALSE)
    <3>1. q3 = NZBCompleted(q2, n)
      BY <2>1
    <3> HIDE DEF q3
    <3>2. q3 \in Queues /\ q3.post = q2.post /\ q3.job = q2.job
      BY <1>2, <1>5, <3>1, NZBCompletedFields
    <3>3. ASSUME Lists(q1, busy) PROVE Lists(q3, busy)
      <4>1. (Group(q1, n) \ q1.marked) \intersect busy = {}
        BY <2>1, <3>3, CompletedIsIdle
      <4>2. (Group(q2, n) \ q2.marked) \intersect busy = {}
        BY <1>5, <4>1 DEF Group
      <4>3. Of(n) \subseteq Known(q2)
        BY <1>3, <1>5, <3>3 DEF Lists
      <4>4. Lists(NZBCompleted(q2, n), busy)
        BY <1>2, <1>5, <3>3, <4>2, <4>3, NZBCompletedLists
      <4> QED BY <3>1, <4>4
    <3> QED BY <1>5, <3>2, <3>3
  <2>2. CASE ~IsNZBFileCompleted(q1, n, TRUE, TRUE, FALSE)
    BY <1>3, <2>2
  <2> QED BY <2>1, <2>2
<1> HIDE DEF q3
<1>7. /\ r \in Queues /\ r.post = Erase(q.post, id) /\ r.files = q3.files
      /\ r.parked = q3.parked /\ r.freed = q3.freed /\ r.paused = q3.paused
      /\ r.marked = q3.marked /\ r.history = q3.history
      /\ \A i \in Ids \ {id} : r.job[i] = q.job[i]
      /\ parRunning /\ id = parJob => r.job[id] \in Jobs
  <2>1. Erase(q.post, id) \in Seq(Ids)
    BY EraseProperties DEF PostQueue
  <2>2. q3.job \in [Ids -> Jobs \union {{}}]
    BY <1>6 DEF Queues
  <2> DEFINE last == [q3.job EXCEPT ![id] = IF parRunning /\ id = parJob THEN @ ELSE {}]
  <2>3. /\ last \in [Ids -> Jobs \union {{}}]
        /\ \A i \in Ids \ {id} : last[i] = q.job[i]
        /\ parRunning /\ id = parJob => last[id] \in Jobs
    BY <1>2, <1>3, <1>6, <2>2
  <2>4. r = [q3 EXCEPT !.post = Erase(q.post, id), !.job = last]
    BY <1>1, <1>3, <1>6
  <2> HIDE DEF last, r
  <2>5. q3 \in Queues
    BY <1>6
  <2>6. /\ r \in Queues /\ r.post = Erase(q.post, id) /\ r.job = last /\ r.files = q3.files
        /\ r.parked = q3.parked /\ r.freed = q3.freed /\ r.paused = q3.paused
        /\ r.marked = q3.marked /\ r.history = q3.history
    BY <2>1, <2>3, <2>4, <2>5 DEF Queues
  <2> QED BY <2>3, <2>6
<1>8. ASSUME Lists(q, busy) PROVE Lists(r, busy)
  <2>1. Lists(q1, busy)
    <3>1. Known(q1) = Known(q) /\ \A m : Group(q1, m) = Group(q, m)
      BY <1>3 DEF Known, Group
    <3>2. \A i \in ToSet(q.post) : q1.job[i].nzb = q.job[i].nzb
      <4>1. ToSet(q.post) \subseteq Ids
        BY DEF PostQueue, ToSet
      <4> QED BY <1>3, <4>1 DEF n
    <3> QED BY <1>3, <1>8, <3>1, <3>2 DEF Lists
  <2>2. Lists(q3, busy)
    BY <1>6, <2>1
  <2> HIDE DEF r
  <2>3. Known(r) = Known(q3) /\ \A m : Group(r, m) = Group(q3, m)
    BY <1>7 DEF Known, Group
  <2>4. \A i \in ToSet(r.post) : i \in ToSet(q3.post) /\ r.job[i] = q3.job[i]
    <3>1. ToSet(r.post) = ToSet(q.post) \ {id}
      BY <1>7, EraseProperties
    <3>2. ToSet(q.post) \subseteq Ids
      BY DEF PostQueue, ToSet
    <3> QED BY <1>3, <1>6, <1>7, <3>1, <3>2
  <2> QED BY <1>7, <2>2, <2>3, <2>4 DEF Lists
<1> HIDE DEF r
<1> QED BY <1>7, <1>8 DEF r

-----------------------------------------------------------------------------
(* The inductive invariant: types, and one job at work.                     *)

\* What a script has asked for waits at a job that is finished and was not par-checked; a
\* job that is still to be par-checked is queued.
JobInv(j) ==
    /\ j \in Jobs
    /\ j.request # "none" => ~j.parCheck /\ j.stage = "finished"
    /\ j.parCheck /\ j.par = "none" => j.stage = "queued"

JobsInv(q) == q \in Queues /\ PostQueue(q.post) /\ \A id \in ToSet(q.post) : JobInv(q.job[id])

\* Only the first job of the queue may be at work.
FirstOnly(q) == \A i \in DOMAIN q.post : q.job[q.post[i]].working => i = 1

\* A thread that checks works on the first job, which waits for no script.
CheckInv(q) ==
    \A t \in ParThreads : parThread[t] = "checking" =>
        /\ q.post # <<>> /\ parJob = Head(q.post)
        /\ q.job[parJob].working /\ q.job[parJob].stage = "queued"

\* The job of a running par-checker has not been freed.
RunInv(q) == parRunning => parJob \in Ids /\ q.job[parJob] \in Jobs

OtherTypes ==
    /\ busy \subseteq Files
    /\ pr \in [download : BOOLEAN, post : BOOLEAN, sched : BOOLEAN, late : BOOLEAN]
    /\ parRunning \in BOOLEAN
    /\ parThread \in [ParThreads -> {"off", "checking", "reported", "leaving"}]
    /\ parJob \in Ids \union {0}

OneCheck ==
    \A t, u \in ParThreads : parThread[t] = "checking" /\ parThread[u] = "checking" => t = u

WorkInv == JobsInv(dq) /\ FirstOnly(dq) /\ CheckInv(dq) /\ RunInv(dq) /\ OtherTypes /\ OneCheck

\* The post-queue, seen from what stays the same in it.
LEMMA HeadIsFirst ==
    ASSUME NEW post, PostQueue(post), post # <<>>
    PROVE  Head(post) = post[1] /\ 1 \in DOMAIN post /\ Head(post) \in ToSet(post) /\ Head(post) \in Ids
<1>1. post \in Seq(Ids) /\ Len(post) \in Nat /\ DOMAIN post = 1..Len(post)
  BY LenProperties DEF PostQueue
<1>2. 1 \in DOMAIN post /\ Head(post) = post[1]
  BY <1>1
<1> QED BY <1>1, <1>2 DEF ToSet

\* The jobs in the queue have numbers.
LEMMA ToSetIsIds == \A post : PostQueue(post) => ToSet(post) \subseteq Ids
<1> SUFFICES ASSUME NEW post, PostQueue(post) PROVE ToSet(post) \subseteq Ids
  OBVIOUS
<1>1. post \in [1..Len(post) -> Ids] /\ DOMAIN post = 1..Len(post)
  BY LenProperties DEF PostQueue
<1> QED BY <1>1 DEF ToSet

\* A new job is queued and asked for nothing.
LEMMA NewJobInv ==
    ASSUME NEW j, NEW n \in Collections, IsNew(j, n)
    PROVE  JobInv(j) /\ ~j.working
<1>1. PICK s \in ParSets \union {NoSet}, c \in BOOLEAN : j = NewJob(n, s, c)
  BY DEF IsNew
<1> QED BY <1>1 DEF NewJob, JobInv, Jobs

\* New jobs at the end of the queue disturb nothing.
LEMMA GrowsKeepsWork ==
    ASSUME NEW q, NEW r, NEW n \in Collections, Grows(q, r, n), JobsInv(q), FirstOnly(q),
           CheckInv(q), RunInv(q)
    PROVE  /\ JobsInv(r) /\ RunInv(r)
           /\ AtEnd(q, r) => FirstOnly(r) /\ CheckInv(r)
<1>1. JobsInv(r)
  BY NewJobInv DEF Grows, JobsInv
<1>2. RunInv(r)
  BY NewJobInv DEF Grows, RunInv, JobInv
<1>3. ASSUME AtEnd(q, r) PROVE FirstOnly(r)
  <2> SUFFICES ASSUME NEW i \in DOMAIN r.post, r.job[r.post[i]].working PROVE i = 1
    BY DEF FirstOnly
  <2>1. r.post[i] \in ToSet(r.post)
    BY DEF ToSet
  <2>2. r.post[i] \in ToSet(q.post)
    BY <2>1, NewJobInv DEF Grows
  <2>3. PICK k \in DOMAIN q.post : q.post[k] = r.post[i]
    BY <2>2 DEF ToSet
  <2>4. k = 1
    BY <2>2, <2>3 DEF Grows, FirstOnly
  <2>5. k \in DOMAIN r.post /\ r.post[k] = r.post[i]
    BY <1>3, <2>3 DEF AtEnd
  <2> QED BY <2>4, <2>5 DEF Grows, PostQueue, IsInjective
<1>4. ASSUME AtEnd(q, r) PROVE CheckInv(r)
  <2> SUFFICES ASSUME NEW t \in ParThreads, parThread[t] = "checking"
               PROVE  /\ r.post # <<>> /\ parJob = Head(r.post)
                      /\ r.job[parJob].working /\ r.job[parJob].stage = "queued"
    BY DEF CheckInv
  <2>1. /\ q.post # <<>> /\ parJob = Head(q.post)
        /\ q.job[parJob].working /\ q.job[parJob].stage = "queued"
    BY DEF CheckInv
  <2>2. Head(q.post) = q.post[1] /\ 1 \in DOMAIN q.post /\ Head(q.post) \in ToSet(q.post)
    BY <2>1, HeadIsFirst DEF JobsInv
  <2>3. 1 \in DOMAIN r.post /\ r.post[1] = q.post[1]
    BY <1>4, <2>2 DEF AtEnd
  <2>4. r.post # <<>>
    BY <2>3
  <2>5. Head(r.post) = r.post[1]
    BY <2>4, HeadIsFirst DEF Grows
  <2> QED BY <2>1, <2>2, <2>3, <2>4, <2>5 DEF Grows
<1> QED BY <1>1, <1>2, <1>3, <1>4

\* A job that is not at work leaves the queue.
LEMMA JobCompletedKeepsWork ==
    ASSUME NEW q, JobsInv(q), FirstOnly(q), CheckInv(q), RunInv(q),
           NEW id \in ToSet(q.post), ~q.job[id].working
    PROVE  LET r == JobCompleted(q, id)
           IN  JobsInv(r) /\ FirstOnly(r) /\ CheckInv(r) /\ RunInv(r)
<1> DEFINE r == JobCompleted(q, id)
           post == Erase(q.post, id)
<1>1. /\ r \in Queues /\ r.post = post /\ \A i \in Ids \ {id} : r.job[i] = q.job[i]
      /\ parRunning /\ id = parJob => r.job[id] \in Jobs
  BY JobCompletedFields DEF JobsInv, JobInv
<1>2. /\ PostQueue(post) /\ ToSet(post) = ToSet(q.post) \ {id}
      /\ \A k \in DOMAIN post : /\ k \in DOMAIN q.post /\ k + 1 \in DOMAIN q.post
                                /\ post[k] = q.post[k] \/ post[k] = q.post[k + 1]
      /\ Head(q.post) # id => post # <<>> /\ Head(post) = Head(q.post)
  BY EraseProperties DEF JobsInv
<1> HIDE DEF r, post
<1>3. ToSet(post) \subseteq Ids \ {id} /\ ToSet(q.post) \subseteq Ids
  BY <1>2, ToSetIsIds DEF JobsInv
<1>4. JobsInv(r)
  BY <1>1, <1>2, <1>3 DEF JobsInv
<1>5. FirstOnly(r)
  <2> SUFFICES ASSUME NEW k \in DOMAIN post, r.job[post[k]].working PROVE k = 1
    BY <1>1 DEF FirstOnly
  <2>1. post[k] \in ToSet(post)
    BY DEF ToSet
  <2>2. q.job[post[k]].working
    BY <1>1, <1>3, <2>1
  <2>3. PICK j \in DOMAIN q.post : q.post[j] = post[k] /\ (j = k \/ j = k + 1)
    BY <1>2
  <2>4. j = 1
    BY <2>2, <2>3 DEF FirstOnly
  <2>5. k \in Nat /\ k >= 1
    BY <1>2, LenProperties DEF PostQueue
  <2> QED BY <2>3, <2>4, <2>5
<1>6. CheckInv(r)
  <2> SUFFICES ASSUME NEW t \in ParThreads, parThread[t] = "checking"
               PROVE  /\ r.post # <<>> /\ parJob = Head(r.post)
                      /\ r.job[parJob].working /\ r.job[parJob].stage = "queued"
    BY DEF CheckInv
  <2>1. /\ q.post # <<>> /\ parJob = Head(q.post)
        /\ q.job[parJob].working /\ q.job[parJob].stage = "queued"
    BY DEF CheckInv
  <2>2. Head(q.post) \in Ids /\ Head(q.post) # id
    BY <2>1, HeadIsFirst DEF JobsInv
  <2> QED BY <1>1, <1>2, <2>1, <2>2
<1>7. RunInv(r)
  BY <1>1 DEF RunInv
<1> QED BY <1>4, <1>5, <1>6, <1>7 DEF r

\* No job is at work, and nothing is checked.
Idle(q) ==
    /\ \A id \in ToSet(q.post) : ~q.job[id].working
    /\ \A t \in ParThreads : parThread[t] # "checking"

\* Then there is nothing to say of the first one.
LEMMA IdleIsEnough ==
    ASSUME NEW q, JobsInv(q), Idle(q)
    PROVE  FirstOnly(q) /\ CheckInv(q)
BY DEF Idle, FirstOnly, CheckInv, ToSet

\* If the first job is not at work, none is.
LEMMA FirstNotWorking ==
    ASSUME NEW q, JobsInv(q), FirstOnly(q), CheckInv(q), q.post # <<>>,
           ~q.job[Head(q.post)].working
    PROVE  Idle(q)
<1>1. Head(q.post) = q.post[1]
  BY HeadIsFirst DEF JobsInv
<1>2. ASSUME NEW id \in ToSet(q.post) PROVE ~q.job[id].working
  <2>1. PICK k \in DOMAIN q.post : q.post[k] = id
    BY DEF ToSet
  <2> QED BY <1>1, <2>1 DEF FirstOnly
<1>3. \A t \in ParThreads : parThread[t] # "checking"
  BY DEF CheckInv
<1> QED BY <1>2, <1>3 DEF Idle

\* What the script asked for: more jobs, after which this one is only to be completed, or
\* a check of this one.
LEMMA RequestedKeepsWork ==
    ASSUME JobsInv(dq), RunInv(dq), Idle(dq), NEW id \in ToSet(dq.post),
           dq.job[id].request = "all" => RoomForJobs(dq, dq.job[id].nzb)
    PROVE  LET q == Requested(dq, id)
           IN  /\ JobsInv(q) /\ RunInv(q) /\ Idle(q) /\ id \in ToSet(q.post)
               /\ \/ q.job[id].stage = "finished" /\ ~q.job[id].parCheck
                  \/ q.post = dq.post
               /\ Lists(dq, busy) => Lists(q, busy)
<1> DEFINE j == dq.job[id]
           n == j.nzb
           q == Requested(dq, id)
           c == CreatePostJobs(dq, n, TRUE, FALSE, TRUE)
           job == [dq.job EXCEPT ![id].parCheck = TRUE, ![id].request = "none",
                                 ![id].stage = "queued"]
           e == [dq EXCEPT !.job[id].parCheck = TRUE, !.job[id].request = "none",
                           !.job[id].stage = "queued"]
<1>1. id \in Ids /\ j \in Jobs /\ n \in Collections
  BY ToSetIsIds DEF JobsInv, JobInv, Jobs
<1>2. CASE q = c /\ j.request = "all"
  <2>1. /\ Grows(dq, c, n)
        /\ \A b : Lists(dq, b) /\ Of(n) \subseteq Known(dq) => Lists(c, b)
    BY <1>1, <1>2, CreatePostJobsLists DEF JobsInv
  <2> HIDE DEF c, n, q
  <2>2. JobsInv(c) /\ RunInv(c)
    <3>1. FirstOnly(dq) /\ CheckInv(dq)
      BY IdleIsEnough
    <3> QED BY <1>1, <2>1, <3>1, GrowsKeepsWork
  <2>3. id \in ToSet(c.post) /\ c.job[id] = j
    BY <2>1 DEF Grows
  <2>4. Idle(c)
    <3> SUFFICES ASSUME NEW i \in ToSet(c.post) PROVE ~c.job[i].working
      BY DEF Idle
    <3> QED BY <1>1, <2>1, NewJobInv DEF Grows, Idle
  <2>5. j.stage = "finished" /\ ~j.parCheck
    BY <1>2 DEF JobsInv, JobInv
  <2>6. Lists(dq, busy) => Lists(c, busy)
    BY <2>1 DEF Lists, n
  <2> QED BY <1>2, <2>2, <2>3, <2>4, <2>5, <2>6 DEF q
<1>3. CASE q = e
  <2>1. /\ e \in Queues /\ e.post = dq.post /\ e.job = job
        /\ e.files = dq.files /\ e.parked = dq.parked /\ e.freed = dq.freed
        /\ e.paused = dq.paused /\ e.marked = dq.marked /\ e.history = dq.history
    <3>1. dq \in Queues /\ dq.job \in [Ids -> Jobs \union {{}}]
      BY DEF JobsInv, Queues
    <3>2. job \in [Ids -> Jobs \union {{}}]
      BY <1>1, <3>1 DEF Jobs
    <3>3. e = [dq EXCEPT !.job = job]
      BY Zenon
    <3> HIDE DEF job, e
    <3> QED BY <3>1, <3>2, <3>3 DEF Queues
  <2>2. /\ \A i \in Ids \ {id} : job[i] = dq.job[i]
        /\ job[id] = [dq.job[id] EXCEPT !.parCheck = TRUE, !.request = "none", !.stage = "queued"]
    BY <1>1 DEF JobsInv, Queues
  <2> HIDE DEF job, e, q
  <2>3. /\ JobInv(job[id]) /\ ~job[id].working /\ job[id].nzb = n
    <3>1. ~dq.job[id].working
      BY DEF Idle
    <3>2. job[id] \in Jobs
      BY <1>1, <2>2 DEF Jobs
    <3> QED BY <1>1, <2>2, <3>1, <3>2 DEF JobInv, Jobs
  <2>4. ToSet(dq.post) \subseteq Ids
    BY ToSetIsIds DEF JobsInv
  <2>5. JobsInv(e)
    BY <2>1, <2>2, <2>3, <2>4 DEF JobsInv
  <2>6. Idle(e)
    BY <2>1, <2>2, <2>3, <2>4 DEF Idle
  <2>7. RunInv(e)
    BY <2>1, <2>2, <2>3 DEF RunInv, JobInv
  <2>8. Lists(dq, busy) => Lists(e, busy)
    <3>1. Known(e) = Known(dq) /\ \A m : Group(e, m) = Group(dq, m)
      BY <2>1 DEF Known, Group
    <3>2. \A i \in ToSet(dq.post) : e.job[i].nzb = dq.job[i].nzb
      BY <2>1, <2>2, <2>3, <2>4
    <3> QED BY <2>1, <3>1, <3>2 DEF Lists
  <2> QED BY <1>3, <2>1, <2>5, <2>6, <2>7, <2>8 DEF q
<1>4. CASE q = dq
  BY <1>4
<1>5. (q = c /\ j.request = "all") \/ q = e \/ q = dq
  BY Zenon DEF Requested
<1> QED BY <1>2, <1>3, <1>4, <1>5

-----------------------------------------------------------------------------
(* Every step keeps the invariant.                                          *)

\* A user never moves the job that is at work (see README).
NoMoveFirst == "moveFirst" \notin Requests

\* Steps that leave the jobs alone.
LEMMA SameJobs ==
    ASSUME WorkInv, dq' \in Queues, dq'.post = dq.post, dq'.job = dq.job,
           UNCHANGED <<parThread, parRunning, parJob>>, OtherTypes'
    PROVE  WorkInv'
<1>1. JobsInv(dq') /\ FirstOnly(dq')
  BY DEF WorkInv, JobsInv, FirstOnly
<1>2. CheckInv(dq)' /\ RunInv(dq)' /\ OneCheck'
  BY DEF WorkInv, CheckInv, RunInv, OneCheck
<1> QED BY <1>1, <1>2 DEF WorkInv

\* The register keeps its type.
LEMMA PauseTypes ==
    ASSUME NEW p \in [download : BOOLEAN, post : BOOLEAN, sched : BOOLEAN, late : BOOLEAN]
    PROVE  /\ PauseDownload(p) \in [download : BOOLEAN, post : BOOLEAN, sched : BOOLEAN, late : BOOLEAN]
           /\ UnpauseDownload(p) \in [download : BOOLEAN, post : BOOLEAN, sched : BOOLEAN, late : BOOLEAN]
BY DEF PauseDownload, UnpauseDownload

\* The requests for files, what they do to the lists.
LEMMA EditFilesFields ==
    ASSUME WorkInv, EditFiles
    PROVE  /\ dq' \in Queues /\ dq'.post = dq.post /\ dq'.job = dq.job
           /\ Lists(dq, busy) /\ "pauseBusy" \notin Requests => Lists(dq', busy)
<1>1. dq \in Queues
  BY DEF WorkInv, JobsInv
<1>2. ASSUME NEW f \in dq.files, dq' = DeleteQueueEntry(dq, f)
      PROVE  /\ dq' \in Queues /\ dq'.post = dq.post /\ dq'.job = dq.job
             /\ Lists(dq, busy) => Lists(dq', busy)
  <2>1. f \in Files
    BY <1>1 DEF Queues
  <2>2. dq' \in Queues /\ dq'.post = dq.post /\ dq'.job = dq.job
    BY <1>1, <1>2, <2>1, DeleteQueueEntryFields
  <2>3. ASSUME Lists(dq, busy) PROVE Lists(dq', busy)
    <3>1. f \in Known(dq) /\ f \notin dq.parked
      BY <1>2, <2>3 DEF Lists, Known
    <3> QED BY <1>1, <1>2, <2>1, <2>3, <3>1, DeleteQueueEntryLists
  <2> QED BY <2>2, <2>3
<1>3. ASSUME NEW f \in dq.files, f \in busy => "pauseBusy" \in Requests,
             dq' = [dq EXCEPT !.paused = @ \union {f}]
      PROVE  /\ dq' \in Queues /\ dq'.post = dq.post /\ dq'.job = dq.job
             /\ Lists(dq, busy) /\ "pauseBusy" \notin Requests => Lists(dq', busy)
  <2>1. /\ dq' \in Queues /\ dq'.post = dq.post /\ dq'.job = dq.job /\ dq'.files = dq.files
        /\ dq'.parked = dq.parked /\ dq'.freed = dq.freed /\ dq'.marked = dq.marked
        /\ dq'.history = dq.history /\ dq'.paused = dq.paused \union {f}
    BY <1>1, <1>3 DEF Queues
  <2>2. Known(dq') = Known(dq) /\ \A m : Group(dq', m) = Group(dq, m)
    BY <2>1 DEF Known, Group
  <2> QED BY <1>3, <2>1, <2>2 DEF Lists
<1>4. ASSUME NEW f \in dq.files, dq' = [dq EXCEPT !.paused = @ \ {f}]
      PROVE  /\ dq' \in Queues /\ dq'.post = dq.post /\ dq'.job = dq.job
             /\ Lists(dq, busy) => Lists(dq', busy)
  <2>1. /\ dq' \in Queues /\ dq'.post = dq.post /\ dq'.job = dq.job /\ dq'.files = dq.files
        /\ dq'.parked = dq.parked /\ dq'.freed = dq.freed /\ dq'.marked = dq.marked
        /\ dq'.history = dq.history /\ dq'.paused = dq.paused \ {f}
    BY <1>1, <1>4 DEF Queues
  <2>2. Known(dq') = Known(dq) /\ \A m : Group(dq', m) = Group(dq, m)
    BY <2>1 DEF Known, Group
  <2> QED BY <2>1, <2>2 DEF Lists
<1>5. ASSUME NEW n \in Collections, dq' = GroupDelete(dq, n)
      PROVE  /\ dq' \in Queues /\ dq'.post = dq.post /\ dq'.job = dq.job
             /\ Lists(dq, busy) => Lists(dq', busy)
  BY <1>1, <1>5, GroupDeleteFields
<1> QED BY <1>2, <1>3, <1>4, <1>5 DEF EditFiles

\* An active download ends.
LEMMA CompleteFields ==
    ASSUME WorkInv, NEW f \in Files, Complete(f)
    PROVE  /\ Grows(dq, dq', NzbOf[f]) /\ AtEnd(dq, dq')
           /\ Lists(dq, busy) => Lists(dq', busy')
           /\ OtherTypes'
<1> DEFINE n == NzbOf[f]
           done == f \notin dq.marked
           new == IF done THEN {f} ELSE {}
           q == [dq EXCEPT !.marked = @ \union {f}, !.disk = @ \union new]
           u == QueueCoordinatorUpdate(q, f, done)
<1>1. dq \in Queues /\ PostQueue(dq.post) /\ n \in Collections
  BY PostAssumption DEF WorkInv, JobsInv
<1>2. /\ q \in Queues /\ q.post = dq.post /\ q.job = dq.job /\ q.files = dq.files
      /\ q.parked = dq.parked /\ q.freed = dq.freed /\ q.marked = dq.marked \union {f}
      /\ q.paused = dq.paused /\ q.history = dq.history /\ q.nzb = dq.nzb
  BY <1>1 DEF Queues
<1>3. /\ f \in busy /\ busy' = busy \ {f} /\ dq' = DeleteFileInfo(u, f)
      /\ ~q.nzb[n].postProcess \/ AllowReProcess => RoomForJobs(q, n)
  <2>1. ~dq.nzb[n].postProcess \/ AllowReProcess => RoomForJobs(q, n)
    BY Zenon DEF Complete
  <2>2. f \in busy /\ busy' = busy \ {f} /\ dq' = DeleteFileInfo(u, f)
    BY Zenon DEF Complete
  <2> QED BY <1>2, <2>1, <2>2
<1>4. done \in BOOLEAN
  OBVIOUS
<1>5. OtherTypes'
  <2>1. UNCHANGED <<parThread, parRunning, parJob>>
    BY DEF Complete
  <2>2. pr \in [download : BOOLEAN, post : BOOLEAN, sched : BOOLEAN, late : BOOLEAN]
    BY DEF WorkInv, OtherTypes
  <2>3. pr' \in [download : BOOLEAN, post : BOOLEAN, sched : BOOLEAN, late : BOOLEAN]
    <3> DEFINE p == PauseDownload(pr)
               late == p.post /\ \A t \in ParThreads : parThread[t] # "checking"
    <3>1. p \in [download : BOOLEAN, post : BOOLEAN, sched : BOOLEAN, late : BOOLEAN]
      BY <2>2, PauseTypes
    <3>2. late \in BOOLEAN
      BY <3>1
    <3> HIDE DEF late
    <3>3. [p EXCEPT !.late = late] \in [download : BOOLEAN, post : BOOLEAN, sched : BOOLEAN, late : BOOLEAN]
      BY <3>1, <3>2
    <3>4. pr' = [p EXCEPT !.late = late] \/ pr' = pr
      BY Zenon DEF Complete, late
    <3> QED BY <2>2, <3>3, <3>4
  <2> QED BY <1>3, <2>1, <2>3 DEF WorkInv, OtherTypes
<1> HIDE DEF n, done, q
<1>6. /\ Grows(q, u, n) /\ AtEnd(q, u)
      /\ f \in q.files => f \in u.files /\ \A b : Lists(q, b) => Lists(u, b)
  BY <1>1, <1>2, <1>3, <1>4, UpdateLists DEF n
<1> HIDE DEF u
<1>7. /\ dq' \in Queues /\ dq'.post = u.post /\ dq'.job = u.job
      /\ \A b : Lists(u, b) /\ f \in u.files => Lists(dq', b \ {f})
  <2>1. u \in Queues
    BY <1>6 DEF Grows
  <2> QED BY <1>3, <1>6, <2>1, DeleteFileInfoFields, DeleteFileInfoLists
<1>8. Grows(dq, dq', n) /\ AtEnd(dq, dq')
  BY <1>2, <1>6, <1>7 DEF Grows, AtEnd
<1>9. Lists(dq, busy) => Lists(q, busy)
  <2>1. Known(q) = Known(dq) /\ \A m : Group(q, m) = Group(dq, m)
    BY <1>2 DEF Known, Group
  <2> QED BY <1>2, <2>1 DEF Lists
<1>10. Lists(dq, busy) => f \in q.files
  BY <1>2, <1>3 DEF Lists
<1>11. Lists(dq, busy) => Lists(dq', busy')
  BY <1>3, <1>6, <1>7, <1>9, <1>10
<1> QED BY <1>5, <1>8, <1>11 DEF n

\* Parked files return, and the collection may be processed again.
LEMMA HistoryReturnFields ==
    ASSUME WorkInv, NEW n \in Collections, NEW reprocess \in BOOLEAN, HistoryReturn(n, reprocess)
    PROVE  /\ Grows(dq, dq', n) /\ AtEnd(dq, dq')
           /\ Lists(dq, busy) => Lists(dq', busy)
<1> DEFINE back == dq.parked \intersect Of(n)
           info == [dq.nzb[n] EXCEPT !.postProcess = FALSE, !.par = "none",
                                     !.parCleanup = FALSE, !.script = "none"]
           q == [dq EXCEPT !.files = @ \union back, !.parked = @ \ back,
                           !.nzb[n] = [@ EXCEPT !.postProcess = FALSE, !.par = "none",
                                                !.parCleanup = FALSE, !.script = "none"]]
           r == [q EXCEPT !.history = @ \ {n}]
<1>1. dq \in Queues /\ PostQueue(dq.post)
  BY DEF WorkInv, JobsInv
<1>2. /\ q \in Queues /\ q.post = dq.post /\ q.job = dq.job
      /\ q.files = dq.files \union back /\ q.parked = dq.parked \ back
      /\ q.freed = dq.freed /\ q.marked = dq.marked /\ q.paused = dq.paused
      /\ q.history = dq.history
  <2>1. dq.nzb \in [Collections -> NzbInfos]
    BY <1>1 DEF Queues
  <2>2. info \in NzbInfos
    BY <2>1 DEF NzbInfos
  <2>3. [dq.nzb EXCEPT ![n] = info] \in [Collections -> NzbInfos]
    BY <2>1, <2>2
  <2>4. q = [dq EXCEPT !.files = @ \union back, !.parked = @ \ back,
                       !.nzb = [dq.nzb EXCEPT ![n] = info]]
    BY Zenon
  <2>5. dq.files \union back \subseteq Files /\ dq.parked \ back \subseteq Files
    BY <1>1 DEF Queues
  <2> HIDE DEF q, back, info
  <2> QED BY <1>1, <2>3, <2>4, <2>5 DEF Queues
<1>3. /\ r \in Queues /\ r.post = dq.post /\ r.job = dq.job
      /\ r.files = dq.files \union back /\ r.parked = dq.parked \ back
      /\ r.freed = dq.freed /\ r.marked = dq.marked /\ r.paused = dq.paused
      /\ r.history = dq.history \ {n} /\ r.disk = q.disk /\ r.nzb = q.nzb
  <2> HIDE DEF q, back
  <2> QED BY <1>2 DEF Queues
<1>4. n \in dq.history /\ (reprocess => RoomForJobs(q, n))
  BY DEF HistoryReturn
<1>4a. dq' = IF back = {} /\ ~reprocess THEN q
             ELSE IF reprocess THEN NZBDownloaded(r, n) ELSE r
  BY Zenon DEF HistoryReturn
<1>5. RoomForJobs(q, n) => RoomForJobs(r, n)
  <2> HIDE DEF q, r
  <2> QED BY <1>2, <1>3 DEF RoomForJobs, NewJobs, FoundSets
<1> HIDE DEF q, r
<1>4b. (dq' = q /\ back = {}) \/ dq' = r \/ (dq' = NZBDownloaded(r, n) /\ reprocess)
  <2> HIDE DEF back
  <2> QED BY <1>4a, Zenon
<1>6. CASE dq' = q /\ back = {}
  <2>1. Grows(dq, q, n) /\ AtEnd(dq, q)
    BY <1>1, <1>2, GrowsIfSame
  <2>2. Known(q) = Known(dq) /\ \A m : Group(q, m) = Group(dq, m)
    BY <1>2, <1>6 DEF Known, Group
  <2>3. Lists(dq, busy) => Lists(q, busy)
    BY <1>2, <1>6, <2>2 DEF Lists
  <2> QED BY <1>6, <2>1, <2>3
<1>7. Grows(dq, r, n) /\ AtEnd(dq, r)
  BY <1>1, <1>3, GrowsIfSame
<1>8. Known(r) = Known(dq)
  BY <1>3 DEF Known
<1>9. ASSUME Lists(dq, busy) PROVE Lists(r, busy)
  <2>1. /\ r.files \intersect r.parked = {}
        /\ r.freed \intersect (r.files \union r.parked) = {}
        /\ busy \subseteq r.files /\ busy \intersect r.paused = {}
    BY <1>3, <1>9 DEF Lists
  <2>2. \A m \in r.history : Group(r, m) \subseteq r.marked /\ Of(m) \subseteq Known(dq)
    BY <1>3, <1>9 DEF Lists, Group, Of
  <2> QED BY <1>3, <1>8, <1>9, <2>1, <2>2 DEF Lists
<1>10. CASE dq' = r
  BY <1>7, <1>9, <1>10
<1>11. CASE dq' = NZBDownloaded(r, n) /\ reprocess
  <2> DEFINE d == NZBDownloaded(r, n)
  <2>1. /\ Grows(r, d, n) /\ AtEnd(r, d)
        /\ \A b : Lists(r, b) /\ Of(n) \subseteq Known(r) /\ (Group(r, n) \ r.marked) \intersect b = {}
                      => Lists(d, b) /\ Known(d) = Known(r)
    BY <1>1, <1>3, <1>4, <1>5, <1>11, NZBDownloadedFields
  <2> HIDE DEF d
  <2>2. Grows(dq, d, n) /\ AtEnd(dq, d)
    BY <1>3, <2>1 DEF Grows, AtEnd
  <2>3. ASSUME Lists(dq, busy) PROVE Lists(d, busy)
    <3>1. Of(n) \subseteq Known(r) /\ Group(dq, n) \subseteq dq.marked
      BY <1>4, <1>8, <2>3 DEF Lists
    <3>2. (Group(r, n) \ r.marked) \intersect busy = {}
      BY <1>3, <2>3, <3>1 DEF Group, Lists
    <3> QED BY <1>9, <2>1, <2>3, <3>1, <3>2
  <2> QED BY <1>11, <2>2, <2>3 DEF d
<1> QED BY <1>4b, <1>6, <1>10, <1>11

\* The record of one job of the queue changes.
LEMMA OneJobChanges ==
    ASSUME NEW q, JobsInv(q), NEW id \in ToSet(q.post), NEW job \in [Ids -> Jobs \union {{}}],
           \A i \in Ids \ {id} : job[i] = q.job[i], JobInv(job[id]),
           NEW r, r = [q EXCEPT !.job = job]
    PROVE  /\ JobsInv(r) /\ r.post = q.post /\ r.job = job
           /\ RunInv(q) => RunInv(r)
           /\ (job[id].working => q.job[id].working \/ id = Head(q.post)) /\ FirstOnly(q)
                  => FirstOnly(r)
           /\ job[id].nzb = q.job[id].nzb => \A b : Lists(q, b) => Lists(r, b)
<1>1. /\ r \in Queues /\ r.post = q.post /\ r.job = job /\ r.files = q.files
      /\ r.parked = q.parked /\ r.freed = q.freed /\ r.marked = q.marked
      /\ r.paused = q.paused /\ r.history = q.history
  BY DEF JobsInv, Queues
<1>2. ToSet(q.post) \subseteq Ids
  BY ToSetIsIds DEF JobsInv
<1>3. JobsInv(r)
  BY <1>1, <1>2 DEF JobsInv
<1>4. RunInv(q) => RunInv(r)
  BY <1>1 DEF RunInv, JobInv
<1>5. ASSUME job[id].working => q.job[id].working \/ id = Head(q.post), FirstOnly(q)
      PROVE  FirstOnly(r)
  <2> SUFFICES ASSUME NEW i \in DOMAIN q.post, job[q.post[i]].working PROVE i = 1
    BY <1>1 DEF FirstOnly
  <2>1. q.post[i] \in ToSet(q.post)
    BY DEF ToSet
  <2>2. CASE q.post[i] # id
    BY <1>2, <1>5, <2>1, <2>2 DEF FirstOnly
  <2>3. CASE q.post[i] = id /\ id = Head(q.post)
    <3>1. q.post # <<>>
      BY LenProperties DEF JobsInv, PostQueue
    <3>2. Head(q.post) = q.post[1] /\ 1 \in DOMAIN q.post
      BY <3>1, HeadIsFirst DEF JobsInv
    <3> QED BY <2>3, <3>2 DEF JobsInv, PostQueue, IsInjective
  <2>4. CASE q.post[i] = id /\ q.job[id].working
    BY <1>5, <2>4 DEF FirstOnly
  <2> QED BY <1>5, <2>2, <2>3, <2>4
<1>6. ASSUME job[id].nzb = q.job[id].nzb, NEW b, Lists(q, b) PROVE Lists(r, b)
  <2>1. Known(r) = Known(q) /\ \A m : Group(r, m) = Group(q, m)
    BY <1>1 DEF Known, Group
  <2>2. \A i \in ToSet(q.post) : job[i].nzb = q.job[i].nzb
    BY <1>2, <1>6
  <2> QED BY <1>1, <1>6, <2>1, <2>2 DEF Lists
<1> QED BY <1>1, <1>3, <1>4, <1>5, <1>6

\* The main loop looks at the first job.
LEMMA CheckPostQueueStep ==
    ASSUME WorkInv, CheckPostQueue
    PROVE  WorkInv' /\ (Lists(dq, busy) => Lists(dq', busy')) /\ busy' = busy
<1> DEFINE id == Head(dq.post)
           q == Requested(dq, id)
           j == q.job[id]
<1>1. /\ dq.post # <<>> /\ ~dq.job[id].working
      /\ dq.job[id].request = "all" => RoomForJobs(dq, dq.job[id].nzb)
      /\ busy' = busy
  BY DEF CheckPostQueue
<1>2. PICK pausePost \in BOOLEAN :
          LET check == j.parCheck /\ j.par = "none" /\ ~pausePost
          IN  \/ check /\ StartParJob(q, id)
              \/ ~check /\ j.stage = "queued" /\ ~pausePost /\ StartScriptJob(q, id)
              \/ ~check /\ j.stage = "finished" /\ FinishJob(q, id)
              \/ ~check /\ j.stage = "queued" /\ pausePost /\ dq' = q /\ q # dq
                 /\ UNCHANGED <<pr, parThread, parRunning, parJob, outcomes>>
  BY DEF CheckPostQueue
<1>3. id \in ToSet(dq.post) /\ id \in Ids /\ PostQueue(dq.post)
  BY <1>1, HeadIsFirst DEF WorkInv, JobsInv
<1>4. Idle(dq)
  BY <1>1, FirstNotWorking DEF WorkInv
<1>5. /\ JobsInv(q) /\ RunInv(q) /\ Idle(q) /\ id \in ToSet(q.post)
      /\ (j.stage = "finished" /\ ~j.parCheck) \/ q.post = dq.post
      /\ Lists(dq, busy) => Lists(q, busy)
  BY <1>1, <1>3, <1>4, RequestedKeepsWork DEF WorkInv
<1> HIDE DEF q
<1>6. FirstOnly(q) /\ CheckInv(q)
  BY <1>5, IdleIsEnough
<1>7. j \in Jobs /\ JobInv(j) /\ q.job \in [Ids -> Jobs \union {{}}] /\ ~j.working
  BY <1>5 DEF JobsInv, JobInv, Queues, Idle
<1>8. ASSUME j.parCheck, j.par = "none", StartParJob(q, id)
      PROVE  WorkInv' /\ (Lists(dq, busy) => Lists(dq', busy))
  <2>1. PICK t \in ParThreads :
            /\ parThread' = [parThread EXCEPT ![t] = "checking"]
            /\ parRunning' = TRUE /\ parJob' = id
            /\ pr' = IF ParPauseQueue THEN PauseDownload(pr) ELSE pr
            /\ dq' = [q EXCEPT !.job[id].working = TRUE]
    BY <1>8 DEF StartParJob
  <2> DEFINE job == [q.job EXCEPT ![id].working = TRUE]
  <2>2. dq' = [q EXCEPT !.job = job]
    BY <2>1, Zenon
  <2>3. /\ job \in [Ids -> Jobs \union {{}}] /\ \A i \in Ids \ {id} : job[i] = q.job[i]
        /\ job[id] = [j EXCEPT !.working = TRUE] /\ job[id] \in Jobs
    BY <1>3, <1>7 DEF Jobs
  <2>4. JobInv(job[id]) /\ job[id].nzb = j.nzb /\ job[id].working /\ job[id].stage = "queued"
    <3> HIDE DEF job, j
    <3>1. /\ job[id].request = j.request /\ job[id].parCheck = j.parCheck
          /\ job[id].par = j.par /\ job[id].stage = j.stage /\ job[id].nzb = j.nzb
          /\ job[id].working
      BY <1>7, <2>3 DEF Jobs
    <3> QED BY <1>7, <1>8, <2>3, <3>1 DEF JobInv
  <2>5. q.post = dq.post
    BY <1>5, <1>8
  <2> HIDE DEF job
  <2>6. /\ JobsInv(dq') /\ dq'.post = q.post /\ dq'.job = job /\ FirstOnly(dq')
        /\ \A b : Lists(q, b) => Lists(dq', b)
    <3>1. id = Head(q.post)
      BY <2>5
    <3> HIDE DEF id
    <3>2. JobsInv(q) /\ id \in ToSet(q.post) /\ FirstOnly(q)
      BY <1>5, <1>6
    <3>3. /\ job \in [Ids -> Jobs \union {{}}] /\ \A i \in Ids \ {id} : job[i] = q.job[i]
          /\ JobInv(job[id]) /\ job[id].nzb = q.job[id].nzb
      BY <2>3, <2>4
    <3> QED BY <2>2, <3>1, <3>2, <3>3, OneJobChanges
  <2>7. CheckInv(dq)' /\ OneCheck'
    <3>1. \A u \in ParThreads : parThread'[u] = "checking" => u = t
      BY <1>4, <2>1 DEF WorkInv, OtherTypes, Idle
    <3> QED BY <1>1, <2>1, <2>4, <2>5, <2>6, <3>1 DEF CheckInv, OneCheck
  <2>8. RunInv(dq)'
    BY <1>3, <2>1, <2>3, <2>6 DEF RunInv
  <2>9. OtherTypes'
    BY <1>1, <1>3, <2>1, PauseTypes DEF WorkInv, OtherTypes
  <2> QED BY <1>5, <2>6, <2>7, <2>8, <2>9 DEF WorkInv
<1>9. ASSUME ~(j.parCheck /\ j.par = "none"), j.stage = "queued", StartScriptJob(q, id)
      PROVE  WorkInv' /\ (Lists(dq, busy) => Lists(dq', busy))
  <2>1. q.post = dq.post
    BY <1>5, <1>9
  <2>2. UNCHANGED <<parThread, parRunning, parJob>>
    BY <1>9 DEF StartScriptJob
  <2>3. pr' \in [download : BOOLEAN, post : BOOLEAN, sched : BOOLEAN, late : BOOLEAN]
    BY <1>9, PauseTypes DEF StartScriptJob, WorkInv, OtherTypes
  <2>4. \E job : /\ dq' = [q EXCEPT !.job = job]
                 /\ job \in [Ids -> Jobs \union {{}}] /\ \A i \in Ids \ {id} : job[i] = q.job[i]
                 /\ job[id] \in Jobs /\ job[id].stage # "queued"
                 /\ job[id].working => job[id].stage # "finished"
                 /\ job[id].request = j.request /\ job[id].parCheck = j.parCheck
                 /\ job[id].par = j.par /\ job[id].nzb = j.nzb
    <3>1. CASE ~PostScript
      <4> DEFINE job == [q.job EXCEPT ![id].stage = "finished"]
      <4>1. dq' = [q EXCEPT !.job = job]
        <5>1. dq' = [q EXCEPT !.job[id].stage = "finished"]
          BY <1>9, <3>1 DEF StartScriptJob
        <5> QED BY <5>1, Zenon
      <4>2. /\ job \in [Ids -> Jobs \union {{}}] /\ \A i \in Ids \ {id} : job[i] = q.job[i]
            /\ job[id] = [j EXCEPT !.stage = "finished"]
        BY <1>3, <1>7 DEF Jobs
      <4> HIDE DEF job
      <4>3. /\ job[id] \in Jobs /\ job[id].stage = "finished" /\ ~job[id].working
            /\ job[id].request = j.request /\ job[id].parCheck = j.parCheck
            /\ job[id].par = j.par /\ job[id].nzb = j.nzb
        BY <1>7, <4>2 DEF Jobs
      <4> QED BY <4>1, <4>2, <4>3
    <3>2. CASE PostScript
      <4> DEFINE last == IsNZBFileCompleted(q, q.job[id].nzb, TRUE, TRUE, FALSE)
                 job == [q.job EXCEPT ![id].working = TRUE, ![id].stage = "script",
                                      ![id].last = last]
      <4>1. dq' = [q EXCEPT !.job = job]
        <5>1. dq' = [q EXCEPT !.job[id].working = TRUE, !.job[id].stage = "script",
                              !.job[id].last = last]
          BY <1>9, <3>2 DEF StartScriptJob
        <5> HIDE DEF last
        <5> QED BY <5>1, Zenon
      <4>2. last \in BOOLEAN
        BY DEF IsNZBFileCompleted
      <4> HIDE DEF last
      <4>3. /\ job \in [Ids -> Jobs \union {{}}] /\ \A i \in Ids \ {id} : job[i] = q.job[i]
            /\ job[id] = [j EXCEPT !.working = TRUE, !.stage = "script", !.last = last]
        BY <1>3, <1>7, <4>2 DEF Jobs
      <4> HIDE DEF job
      <4>4. /\ job[id] \in Jobs /\ job[id].stage = "script"
            /\ job[id].request = j.request /\ job[id].parCheck = j.parCheck
            /\ job[id].par = j.par /\ job[id].nzb = j.nzb
        BY <1>7, <4>2, <4>3 DEF Jobs
      <4> QED BY <4>1, <4>3, <4>4
    <3> QED BY <3>1, <3>2
  <2>5. PICK job : /\ dq' = [q EXCEPT !.job = job]
                   /\ job \in [Ids -> Jobs \union {{}}] /\ \A i \in Ids \ {id} : job[i] = q.job[i]
                   /\ job[id] \in Jobs /\ job[id].stage # "queued"
                   /\ job[id].request = j.request /\ job[id].parCheck = j.parCheck
                   /\ job[id].par = j.par /\ job[id].nzb = j.nzb
    BY <2>4
  <2>6. JobInv(job[id])
    BY <1>7, <1>9, <2>5 DEF JobInv
  <2>7. /\ JobsInv(dq') /\ dq'.post = q.post /\ dq'.job = job /\ FirstOnly(dq') /\ RunInv(dq')
        /\ \A b : Lists(q, b) => Lists(dq', b)
    BY <1>5, <1>6, <2>1, <2>5, <2>6, OneJobChanges
  <2>8. CheckInv(dq)' /\ OneCheck' /\ RunInv(dq)'
    BY <1>4, <2>2, <2>7 DEF CheckInv, OneCheck, Idle, RunInv
  <2>9. OtherTypes'
    BY <1>1, <2>2, <2>3 DEF WorkInv, OtherTypes
  <2> QED BY <1>5, <2>7, <2>8, <2>9 DEF WorkInv
<1>10. ASSUME FinishJob(q, id)
       PROVE  WorkInv' /\ (Lists(dq, busy) => Lists(dq', busy))
  <2>1. /\ dq' = JobCompleted(q, id)
        /\ pr' = IF PostScript /\ PostPauseQueue THEN UnpauseDownload(pr) ELSE pr
        /\ UNCHANGED <<parThread, parRunning, parJob>>
    BY <1>10 DEF FinishJob
  <2>2. JobsInv(dq') /\ FirstOnly(dq') /\ CheckInv(dq') /\ RunInv(dq')
    BY <1>5, <1>6, <1>7, <2>1, JobCompletedKeepsWork
  <2>3. CheckInv(dq)' /\ OneCheck' /\ RunInv(dq)'
    BY <2>1, <2>2 DEF CheckInv, OneCheck, RunInv, WorkInv
  <2>4. OtherTypes'
    BY <1>1, <2>1, PauseTypes DEF WorkInv, OtherTypes
  <2>5. Lists(q, busy) => Lists(dq', busy)
    BY <1>5, <1>7, <2>1, JobCompletedFields DEF JobsInv
  <2> QED BY <1>5, <2>2, <2>3, <2>4, <2>5 DEF WorkInv
<1>11. ASSUME dq' = q, UNCHANGED <<pr, parThread, parRunning, parJob, outcomes>>
       PROVE  WorkInv' /\ (Lists(dq, busy) => Lists(dq', busy))
  <2>1. CheckInv(dq)' /\ OneCheck' /\ RunInv(dq)'
    BY <1>5, <1>6, <1>11 DEF CheckInv, OneCheck, RunInv, WorkInv
  <2>2. OtherTypes'
    BY <1>1, <1>11 DEF WorkInv, OtherTypes
  <2> QED BY <1>5, <1>6, <1>11, <2>1, <2>2 DEF WorkInv
<1> HIDE DEF id, j
<1> QED BY <1>1, <1>2, <1>8, <1>9, <1>10, <1>11

\* What every step is to keep.
Kept == WorkInv' /\ (Lists(dq, busy) /\ "pauseBusy" \notin Requests => Lists(dq', busy'))

\* Steps that change neither the queue nor the threads.
LEMMA QueueUntouched ==
    ASSUME WorkInv, UNCHANGED <<dq, parThread, parRunning, parJob>>,
           pr' \in [download : BOOLEAN, post : BOOLEAN, sched : BOOLEAN, late : BOOLEAN],
           busy' \subseteq Files,
           Lists(dq, busy) => Lists(dq, busy')
    PROVE  Kept
<1>1. OtherTypes'
  BY DEF WorkInv, OtherTypes
<1>2. dq' \in Queues
  BY DEF WorkInv, JobsInv
<1>3. WorkInv'
  BY <1>1, <1>2, SameJobs
<1> QED BY <1>3 DEF Kept

\* Users and the scheduler switch the pause.
LEMMA PauseSteps ==
    ASSUME WorkInv, SetPauseDownload \/ ApplySchedulerState PROVE Kept
<1>1. pr' \in [download : BOOLEAN, post : BOOLEAN, sched : BOOLEAN, late : BOOLEAN]
  <2>1. pr \in [download : BOOLEAN, post : BOOLEAN, sched : BOOLEAN, late : BOOLEAN]
    BY DEF WorkInv, OtherTypes
  <2>2. CASE SetPauseDownload
    BY <2>1, <2>2 DEF SetPauseDownload
  <2>3. CASE ApplySchedulerState
    BY <2>1, <2>3 DEF ApplySchedulerState
  <2> QED BY <2>2, <2>3
<1>2. UNCHANGED <<dq, busy, parThread, parRunning, parJob>>
  BY DEF SetPauseDownload, ApplySchedulerState
<1>3. busy' \subseteq Files
  BY <1>2 DEF WorkInv, OtherTypes
<1> QED BY <1>1, <1>2, <1>3, QueueUntouched

\* Downloads of a file that is not paused begin and end.
LEMMA DownloadSteps ==
    ASSUME WorkInv, NEW f \in Files, StartDownload(f) \/ Interrupt(f) PROVE Kept
<1>1. /\ UNCHANGED <<dq, pr, parThread, parRunning, parJob>>
      /\ \/ busy' = busy \union {f} /\ f \in dq.files \ dq.paused
         \/ busy' = busy \ {f}
  BY DEF StartDownload, Interrupt
<1>2. /\ pr' \in [download : BOOLEAN, post : BOOLEAN, sched : BOOLEAN, late : BOOLEAN]
      /\ busy' \subseteq Files
  BY <1>1 DEF WorkInv, OtherTypes
<1>3. Lists(dq, busy) => Lists(dq, busy')
  BY <1>1 DEF Lists
<1> QED BY <1>1, <1>2, <1>3, QueueUntouched

\* Steps that move files between the lists.
LEMMA ListSteps ==
    ASSUME WorkInv, NEW n \in Collections, Add(n) \/ HistoryDelete(n) \/ CheckHistory(n)
    PROVE  Kept
<1> DEFINE gone == dq.parked \intersect Of(n)
<1>1. UNCHANGED <<busy, pr, parThread, parRunning, parJob>>
  BY DEF Add, HistoryDelete, CheckHistory
<1>2. dq \in Queues
  BY DEF WorkInv, JobsInv
<1>3. OtherTypes'
  BY <1>1 DEF WorkInv, OtherTypes
<1>4. CASE Add(n)
  <2>1. PICK pars \in SUBSET Of(n) :
            /\ Of(n) \intersect Known(dq) = {}
            /\ dq' = [dq EXCEPT !.files = @ \union Of(n), !.paused = @ \union pars]
    BY <1>4 DEF Add, ExtraPars, Known, Of
  <2>2. /\ dq' \in Queues /\ dq'.post = dq.post /\ dq'.job = dq.job
        /\ dq'.files = dq.files \union Of(n) /\ dq'.parked = dq.parked
        /\ dq'.freed = dq.freed /\ dq'.marked = dq.marked
        /\ dq'.paused = dq.paused \union pars /\ dq'.history = dq.history
    BY <1>2, <2>1 DEF Queues, Of
  <2>3. ASSUME Lists(dq, busy) PROVE Lists(dq', busy)
    <3>1. Known(dq') = Known(dq) \union Of(n)
      BY <2>2 DEF Known
    <3>2. /\ dq'.files \intersect dq'.parked = {}
          /\ dq'.freed \intersect (dq'.files \union dq'.parked) = {}
          /\ busy \subseteq dq'.files /\ busy \intersect dq'.paused = {}
      BY <2>1, <2>2, <2>3 DEF Lists, Known
    <3>3. \A m \in dq'.history : Group(dq', m) \subseteq dq'.marked /\ Of(m) \subseteq Known(dq')
      <4> SUFFICES ASSUME NEW m \in dq.history
                   PROVE  Group(dq', m) \subseteq dq.marked /\ Of(m) \subseteq Known(dq')
        BY <2>2
      <4>1. Of(m) \subseteq Known(dq) /\ Group(dq, m) \subseteq dq.marked
        BY <2>3 DEF Lists
      <4>2. Group(dq', m) \subseteq Group(dq, m)
        BY <2>1, <2>2, <4>1 DEF Group
      <4> QED BY <3>1, <4>1, <4>2
    <3>4. \A f \in Known(dq') : Of(NzbOf[f]) \subseteq Known(dq')
      BY <2>3, <3>1 DEF Lists, Of
    <3>5. \A id \in ToSet(dq'.post) : Of(dq'.job[id].nzb) \subseteq Known(dq')
      BY <2>2, <2>3, <3>1 DEF Lists
    <3> QED BY <3>2, <3>3, <3>4, <3>5 DEF Lists
  <2>4. WorkInv'
    BY <1>1, <1>3, <2>2, SameJobs
  <2> QED BY <1>1, <2>3, <2>4 DEF Kept
<1>5. CASE HistoryDelete(n) \/ CheckHistory(n)
  <2>1. PICK out \in SUBSET dq.parked :
            dq' = [dq EXCEPT !.parked = @ \ out, !.freed = @ \union out, !.history = @ \ {n}]
    <3>1. CASE HistoryDelete(n)
      BY <3>1 DEF HistoryDelete
    <3>2. CASE CheckHistory(n)
      <4>1. dq' = [dq EXCEPT !.history = @ \ {n}]
        BY <3>2 DEF CheckHistory
      <4>2. [dq EXCEPT !.history = @ \ {n}]
              = [dq EXCEPT !.parked = @ \ {}, !.freed = @ \union {}, !.history = @ \ {n}]
        BY <1>2 DEF Queues
      <4> QED BY <4>1, <4>2
    <3> QED BY <1>5, <3>1, <3>2
  <2>2. /\ dq' \in Queues /\ dq'.post = dq.post /\ dq'.job = dq.job
        /\ dq'.files = dq.files /\ dq'.parked = dq.parked \ out
        /\ dq'.freed = dq.freed \union out /\ dq'.marked = dq.marked
        /\ dq'.paused = dq.paused /\ dq'.history = dq.history \ {n}
    BY <1>2, <2>1 DEF Queues
  <2>3. ASSUME Lists(dq, busy) PROVE Lists(dq', busy)
    <3>1. Known(dq') = Known(dq) /\ \A m : Group(dq', m) = Group(dq, m)
      BY <2>2 DEF Known, Group
    <3> QED BY <2>2, <2>3, <3>1 DEF Lists
  <2>4. WorkInv'
    BY <1>1, <1>3, <2>2, SameJobs
  <2> QED BY <1>1, <2>3, <2>4 DEF Kept
<1> QED BY <1>4, <1>5

\* The par-checker wants more par-files.
LEMMA MorePars == ASSUME WorkInv, NEW t \in ParThreads, RequestMorePars(t) PROVE Kept
<1>1. PICK pars : dq' = [dq EXCEPT !.paused = @ \ pars]
  BY DEF RequestMorePars
<1>2. /\ UNCHANGED <<busy, parThread, parRunning, parJob>>
      /\ pr' = IF ParPauseQueue THEN UnpauseDownload(pr) ELSE pr
  BY DEF RequestMorePars
<1>3. OtherTypes'
  BY <1>2, PauseTypes DEF WorkInv, OtherTypes
<1>4. /\ dq' \in Queues /\ dq'.post = dq.post /\ dq'.job = dq.job
      /\ dq'.files = dq.files /\ dq'.parked = dq.parked /\ dq'.freed = dq.freed
      /\ dq'.marked = dq.marked /\ dq'.history = dq.history /\ dq'.paused = dq.paused \ pars
  BY <1>1 DEF WorkInv, JobsInv, Queues
<1>5. WorkInv'
  BY <1>2, <1>3, <1>4, SameJobs
<1>6. Lists(dq, busy) => Lists(dq', busy)
  <2>1. Known(dq') = Known(dq) /\ \A m : Group(dq', m) = Group(dq, m)
    BY <1>4 DEF Known, Group
  <2> QED BY <1>4, <2>1 DEF Lists
<1> QED BY <1>2, <1>5, <1>6 DEF Kept

\* A thread of the par-checker unpauses the download.
LEMMA UnpauseStep == ASSUME WorkInv, NEW t \in ParThreads, UnpauseAfterCheck(t) PROVE Kept
<1>1. /\ UNCHANGED <<dq, busy, parRunning, parJob>>
      /\ parThread' = [parThread EXCEPT ![t] = "leaving"]
  BY DEF UnpauseAfterCheck
<1>2. OtherTypes'
  BY <1>1, PauseTypes DEF UnpauseAfterCheck, WorkInv, OtherTypes
<1>3. \A u \in ParThreads : parThread'[u] = "checking" => parThread[u] = "checking"
  BY <1>1 DEF WorkInv, OtherTypes
<1>4. CheckInv(dq)' /\ OneCheck' /\ RunInv(dq)'
  BY <1>1, <1>3 DEF WorkInv, CheckInv, OneCheck, RunInv
<1>5. JobsInv(dq)' /\ FirstOnly(dq)'
  BY <1>1 DEF WorkInv, JobsInv, FirstOnly
<1> QED BY <1>1, <1>2, <1>4, <1>5 DEF WorkInv, Kept

\* Jobs are added, at the end, when a download ends or parked files return.
LEMMA GrowSteps ==
    ASSUME WorkInv,
           \/ \E f \in Files : Complete(f)
           \/ \E n \in Collections, reprocess \in BOOLEAN : HistoryReturn(n, reprocess)
    PROVE  Kept
<1>1. ASSUME NEW n \in Collections, Grows(dq, dq', n), AtEnd(dq, dq'),
             Lists(dq, busy) => Lists(dq', busy'), OtherTypes',
             UNCHANGED <<parThread, parRunning, parJob>>
      PROVE  Kept
  <2>1. JobsInv(dq') /\ RunInv(dq') /\ FirstOnly(dq') /\ CheckInv(dq')
    BY <1>1, GrowsKeepsWork DEF WorkInv
  <2>2. CheckInv(dq)' /\ OneCheck' /\ RunInv(dq)'
    BY <1>1, <2>1 DEF WorkInv, CheckInv, OneCheck, RunInv
  <2> QED BY <1>1, <2>1, <2>2 DEF WorkInv, Kept
<1>2. ASSUME NEW f \in Files, Complete(f) PROVE Kept
  <2>1. UNCHANGED <<parThread, parRunning, parJob>> /\ NzbOf[f] \in Collections
    BY <1>2, PostAssumption DEF Complete
  <2> QED BY <1>1, <1>2, <2>1, CompleteFields
<1>3. ASSUME NEW n \in Collections, NEW reprocess \in BOOLEAN, HistoryReturn(n, reprocess)
      PROVE  Kept
  <2>1. UNCHANGED <<busy, pr, parThread, parRunning, parJob>>
    BY <1>3 DEF HistoryReturn
  <2>2. OtherTypes'
    BY <2>1 DEF WorkInv, OtherTypes
  <2> QED BY <1>1, <1>3, <2>1, <2>2, HistoryReturnFields
<1> QED BY <1>2, <1>3

\* The memory of a job that left the queue, or is left by the last thread, changes.
LEMMA MemorySteps ==
    ASSUME WorkInv, JobMemoryReused \/ \E t \in ParThreads : ParThreadEnds(t)
    PROVE  Kept
<1>1. dq \in Queues /\ dq.job \in [Ids -> Jobs \union {{}}] /\ ToSet(dq.post) \subseteq Ids
  BY ToSetIsIds DEF WorkInv, JobsInv, Queues
<1>2. ASSUME NEW job \in [Ids -> Jobs \union {{}}],
             \A id \in ToSet(dq.post) : job[id] = dq.job[id],
             dq' = [dq EXCEPT !.job = job],
             parRunning' => parRunning /\ job[parJob] \in Jobs,
             \A t \in ParThreads : parThread'[t] = "checking" => parThread[t] = "checking",
             UNCHANGED <<busy, pr, parJob>>, OtherTypes'
      PROVE  Kept
  <2>1. /\ dq' \in Queues /\ dq'.post = dq.post /\ dq'.job = job /\ dq'.files = dq.files
        /\ dq'.parked = dq.parked /\ dq'.freed = dq.freed /\ dq'.marked = dq.marked
        /\ dq'.paused = dq.paused /\ dq'.history = dq.history
    BY <1>1, <1>2 DEF Queues
  <2>2. JobsInv(dq')
    BY <1>2, <2>1 DEF WorkInv, JobsInv
  <2>3. FirstOnly(dq')
    BY <1>2, <2>1 DEF WorkInv, FirstOnly, ToSet
  <2>4. CheckInv(dq)' /\ OneCheck'
    <3>1. dq.post # <<>> => Head(dq.post) \in ToSet(dq.post)
      BY HeadIsFirst DEF WorkInv, JobsInv
    <3> QED BY <1>2, <2>1, <3>1 DEF WorkInv, CheckInv, OneCheck
  <2>5. RunInv(dq)'
    BY <1>2, <2>1 DEF WorkInv, RunInv
  <2>6. Lists(dq, busy) => Lists(dq', busy)
    <3>1. Known(dq') = Known(dq) /\ \A m : Group(dq', m) = Group(dq, m)
      BY <2>1 DEF Known, Group
    <3> QED BY <1>2, <2>1, <3>1 DEF Lists
  <2> QED BY <1>2, <2>2, <2>3, <2>4, <2>5, <2>6 DEF WorkInv, Kept
<1>3. CASE JobMemoryReused
  <2>1. PICK n \in Collections, s \in ParSets :
            /\ parRunning /\ parJob \notin ToSet(dq.post)
            /\ dq' = [dq EXCEPT !.job[parJob].nzb = n, !.job[parJob].set = s]
            /\ UNCHANGED <<busy, pr, parThread, parRunning, parJob>>
    BY <1>3 DEF JobMemoryReused
  <2> DEFINE job == [dq.job EXCEPT ![parJob].nzb = n, ![parJob].set = s]
  <2>2. dq' = [dq EXCEPT !.job = job]
    BY <2>1, Zenon
  <2>3. parJob \in Ids /\ dq.job[parJob] \in Jobs
    BY <2>1 DEF WorkInv, RunInv
  <2>4. /\ job \in [Ids -> Jobs \union {{}}] /\ job[parJob] \in Jobs
        /\ \A id \in ToSet(dq.post) : job[id] = dq.job[id]
    BY <1>1, <2>1, <2>3 DEF Jobs
  <2>5. OtherTypes'
    BY <2>1 DEF WorkInv, OtherTypes
  <2> HIDE DEF job
  <2> QED BY <1>2, <2>1, <2>2, <2>4, <2>5
<1>4. ASSUME NEW t \in ParThreads, ParThreadEnds(t) PROVE Kept
  <2> DEFINE job == [dq.job EXCEPT ![parJob] = IF parJob \in ToSet(dq.post) THEN @ ELSE {}]
  <2>1. /\ parThread' = [parThread EXCEPT ![t] = "off"] /\ parRunning' = FALSE
        /\ UNCHANGED <<busy, pr, parJob>>
    BY <1>4 DEF ParThreadEnds
  <2>2. dq' = [dq EXCEPT !.job = job]
    BY <1>4, Zenon DEF ParThreadEnds
  <2>3. /\ job \in [Ids -> Jobs \union {{}}]
        /\ \A id \in ToSet(dq.post) : job[id] = dq.job[id]
    BY <1>1
  <2>4. OtherTypes' /\ \A u \in ParThreads : parThread'[u] = "checking" => parThread[u] = "checking"
    BY <2>1 DEF WorkInv, OtherTypes
  <2> HIDE DEF job
  <2> QED BY <1>2, <2>1, <2>2, <2>3, <2>4
<1> QED BY <1>3, <1>4

\* The script of a job ends, or a job at work is told to stop.
LEMMA ScriptSteps ==
    ASSUME WorkInv, NEW id \in Ids, ScriptEnds(id) \/ PostQueueDelete(id)
    PROVE  Kept
<1> DEFINE j == dq.job[id]
<1>1. /\ UNCHANGED <<busy, pr, parThread, parRunning, parJob>> /\ id \in ToSet(dq.post)
  BY DEF ScriptEnds, PostQueueDelete
<1>2. JobInv(j) /\ j \in Jobs /\ dq.job \in [Ids -> Jobs \union {{}}]
  BY <1>1 DEF WorkInv, JobsInv, JobInv, Queues
<1>3. OtherTypes' /\ OneCheck'
  BY <1>1 DEF WorkInv, OtherTypes, OneCheck
<1>4. ASSUME NEW job \in [Ids -> Jobs \union {{}}],
             \A i \in Ids \ {id} : job[i] = dq.job[i], JobInv(job[id]),
             job[id].nzb = j.nzb, job[id].working => j.working,
             parJob = id /\ j.stage = "queued" => job[id].working = j.working /\ job[id].stage = "queued",
             dq' = [dq EXCEPT !.job = job]
      PROVE  Kept
  <2>1. /\ JobsInv(dq') /\ dq'.post = dq.post /\ dq'.job = job
        /\ RunInv(dq) => RunInv(dq')
        /\ FirstOnly(dq) => FirstOnly(dq')
        /\ \A b : Lists(dq, b) => Lists(dq', b)
    BY <1>1, <1>4, OneJobChanges DEF WorkInv
  <2>2. CheckInv(dq)'
    <3> SUFFICES ASSUME NEW t \in ParThreads, parThread[t] = "checking"
                 PROVE  /\ dq.post # <<>> /\ parJob = Head(dq.post)
                        /\ job[parJob].working /\ job[parJob].stage = "queued"
      BY <1>1, <2>1 DEF CheckInv
    <3>1. /\ dq.post # <<>> /\ parJob = Head(dq.post)
          /\ dq.job[parJob].working /\ dq.job[parJob].stage = "queued"
      BY DEF WorkInv, CheckInv
    <3>2. parJob \in Ids
      BY <3>1, HeadIsFirst DEF WorkInv, JobsInv
    <3> QED BY <1>4, <3>1, <3>2
  <2>3. RunInv(dq)'
    BY <1>1, <2>1 DEF WorkInv, RunInv
  <2> QED BY <1>1, <1>3, <2>1, <2>2, <2>3 DEF WorkInv, Kept
<1>5. CASE ScriptEnds(id)
  <2>1. PICK request \in {"none", "current", "all"}, r \in ScriptResults :
            /\ request # "none" => r = "success" /\ ~j.parCheck
            /\ request = "all" => j.last
            /\ request = "current" => j.set # NoSet
            /\ dq' = [dq EXCEPT !.job[id].script = r, !.job[id].request = request,
                                !.job[id].last = FALSE,
                                !.job[id].stage = "finished", !.job[id].working = FALSE]
    BY <1>5, Zenon DEF ScriptEnds
  <2>0. j.stage = "script" /\ j.working
    BY <1>5, Zenon DEF ScriptEnds
  <2> DEFINE new == [j EXCEPT !.script = r, !.request = request, !.last = FALSE,
                              !.stage = "finished", !.working = FALSE]
             job == [dq.job EXCEPT ![id].script = r, ![id].request = request, ![id].last = FALSE,
                                   ![id].stage = "finished", ![id].working = FALSE]
  <2>2. dq' = [dq EXCEPT !.job = job]
    BY <2>1, ZenonT(40)
  <2>8. job = [dq.job EXCEPT ![id] = new]
    BY <1>2
  <2>3. r \in {"none", "unknown", "failure", "success"}
    BY PostAssumption
  <2>7. /\ new \in Jobs /\ new.request = request /\ new.parCheck = j.parCheck
        /\ new.par = j.par /\ new.stage = "finished" /\ new.nzb = j.nzb
        /\ ~new.working
    <3> HIDE DEF j
    <3> QED BY <1>2, <2>3 DEF Jobs
  <2> HIDE DEF new
  <2> HIDE DEF job
  <2>4. /\ job \in [Ids -> Jobs \union {{}}] /\ \A i \in Ids \ {id} : job[i] = dq.job[i]
        /\ job[id] = new
    BY <1>2, <2>7, <2>8
  <2>5. /\ job[id] \in Jobs /\ job[id].request = request /\ job[id].parCheck = j.parCheck
        /\ job[id].par = j.par /\ job[id].stage = "finished" /\ job[id].nzb = j.nzb
        /\ ~job[id].working
    BY <2>4, <2>7
  <2>6. JobInv(job[id])
    BY <1>2, <2>0, <2>1, <2>5 DEF JobInv
  <2> QED BY <1>4, <2>0, <2>1, <2>2, <2>4, <2>5, <2>6
<1>6. CASE PostQueueDelete(id) /\ j.working
  <2>1. dq' = [dq EXCEPT !.job[id].deleted = TRUE]
    BY <1>6 DEF PostQueueDelete
  <2> DEFINE job == [dq.job EXCEPT ![id].deleted = TRUE]
  <2>2. dq' = [dq EXCEPT !.job = job]
    BY <2>1, Zenon
  <2>3. /\ job \in [Ids -> Jobs \union {{}}] /\ \A i \in Ids \ {id} : job[i] = dq.job[i]
        /\ job[id] = [j EXCEPT !.deleted = TRUE]
    BY <1>2 DEF Jobs
  <2> HIDE DEF job
  <2>4. /\ job[id] \in Jobs /\ job[id].request = j.request /\ job[id].parCheck = j.parCheck
        /\ job[id].par = j.par /\ job[id].stage = j.stage /\ job[id].nzb = j.nzb
        /\ job[id].working = j.working
    BY <1>2, <2>3 DEF Jobs
  <2>5. JobInv(job[id])
    BY <1>2, <2>4 DEF JobInv
  <2> QED BY <1>4, <2>2, <2>3, <2>4, <2>5
<1>7. CASE PostQueueDelete(id) /\ ~j.working
  <2>1. dq' = JobCompleted(dq, id)
    BY <1>7 DEF PostQueueDelete
  <2>2. JobsInv(dq') /\ FirstOnly(dq') /\ CheckInv(dq') /\ RunInv(dq')
    BY <1>1, <1>7, <2>1, JobCompletedKeepsWork DEF WorkInv
  <2>3. Lists(dq, busy) => Lists(dq', busy)
    BY <1>1, <1>2, <2>1, JobCompletedFields DEF WorkInv, JobsInv
  <2>4. CheckInv(dq)' /\ RunInv(dq)'
    BY <1>1, <2>2 DEF CheckInv, RunInv
  <2> QED BY <1>1, <1>3, <2>2, <2>3, <2>4 DEF WorkInv, Kept
<1> QED BY <1>5, <1>6, <1>7

\* A job is moved; the first one stays where it is.
LEMMA MoveStep ==
    ASSUME WorkInv, NoMoveFirst, NEW from \in Ids, NEW to \in Ids, PostQueueMove(from, to)
    PROVE  Kept
<1> DEFINE post == InsertAt(RemoveAt(dq.post, from), to, dq.post[from])
<1>1. /\ UNCHANGED <<busy, pr, parThread, parRunning, parJob>>
      /\ from \in DOMAIN dq.post /\ to \in DOMAIN dq.post \ {1, from} /\ from # 1
      /\ dq' = [dq EXCEPT !.post = post]
  BY DEF PostQueueMove, NoMoveFirst
<1>2. dq \in Queues /\ PostQueue(dq.post)
  BY DEF WorkInv, JobsInv
<1>3. PostQueue(post) /\ ToSet(post) = ToSet(dq.post) /\ post # <<>> /\ Head(post) = Head(dq.post)
  BY <1>1, <1>2, MoveProperties
<1> HIDE DEF post
<1>4. /\ dq' \in Queues /\ dq'.post = post /\ dq'.job = dq.job /\ dq'.files = dq.files
      /\ dq'.parked = dq.parked /\ dq'.freed = dq.freed /\ dq'.marked = dq.marked
      /\ dq'.paused = dq.paused /\ dq'.history = dq.history
  BY <1>1, <1>2, <1>3 DEF Queues, PostQueue
<1>5. JobsInv(dq')
  BY <1>3, <1>4 DEF WorkInv, JobsInv
<1>6. FirstOnly(dq')
  <2> SUFFICES ASSUME NEW i \in DOMAIN post, dq.job[post[i]].working PROVE i = 1
    BY <1>4 DEF FirstOnly
  <2>1. post[i] \in ToSet(dq.post)
    BY <1>3 DEF ToSet
  <2>2. PICK k \in DOMAIN dq.post : dq.post[k] = post[i]
    BY <2>1 DEF ToSet
  <2>3. k = 1
    BY <2>2 DEF WorkInv, FirstOnly
  <2>4. dq.post # <<>>
    BY <2>2, <1>2, LenProperties DEF PostQueue
  <2>5. Head(dq.post) = dq.post[1] /\ Head(post) = post[1] /\ 1 \in DOMAIN post
    BY <1>2, <1>3, <2>4, HeadIsFirst
  <2>6. post[i] = post[1]
    BY <1>3, <2>2, <2>3, <2>5
  <2> QED BY <1>3, <2>5, <2>6 DEF PostQueue, IsInjective
<1>7. CheckInv(dq)' /\ RunInv(dq)' /\ OneCheck' /\ OtherTypes'
  BY <1>1, <1>3, <1>4 DEF WorkInv, CheckInv, RunInv, OneCheck, OtherTypes
<1>8. Lists(dq, busy) => Lists(dq', busy')
  <2>1. Known(dq') = Known(dq) /\ \A m : Group(dq', m) = Group(dq, m)
    BY <1>4 DEF Known, Group
  <2> QED BY <1>1, <1>3, <1>4, <2>1 DEF Lists
<1> QED BY <1>5, <1>6, <1>7, <1>8 DEF WorkInv, Kept

\* The par-checker reports the result of a check.
LEMMA ReportStep == ASSUME WorkInv, NEW t \in ParThreads, ParCheckerUpdate(t) PROVE Kept
<1> DEFINE j == dq.job[parJob]
           n == j.nzb
<1>1. /\ parThread[t] = "checking" /\ UNCHANGED <<busy, pr, parRunning, parJob>>
      /\ parThread' = [parThread EXCEPT ![t] = "reported"]
  BY DEF ParCheckerUpdate
<1>2. /\ dq.post # <<>> /\ parJob = Head(dq.post) /\ j.working /\ j.stage = "queued"
  BY <1>1 DEF WorkInv, CheckInv
<1>3. parJob \in ToSet(dq.post) /\ parJob \in Ids
  BY <1>2, HeadIsFirst, ToSetIsIds DEF WorkInv, JobsInv
<1>4. JobInv(j) /\ j \in Jobs /\ dq \in Queues /\ dq.job \in [Ids -> Jobs \union {{}}]
  BY <1>3 DEF WorkInv, JobsInv, JobInv, Queues
<1>5. PICK r \in {"failure", "success", "possible"} :
          dq' = [dq EXCEPT !.job[parJob].working = FALSE,
                           !.job[parJob].par = r,
                           !.job[parJob].stage =
                               IF dq.job[parJob].deleted THEN "finished" ELSE "queued",
                           !.nzb[n].par = AddParStatus(r, @)]
  <2>1. PICK r \in {"failure", "success"} \union (IF ParRepair THEN {} ELSE {"possible"}) :
            dq' = [dq EXCEPT !.job[parJob].working = FALSE,
                             !.job[parJob].par = r,
                             !.job[parJob].stage =
                                 IF dq.job[parJob].deleted THEN "finished" ELSE "queued",
                             !.nzb[n].par = AddParStatus(r, @)]
    BY Zenon DEF ParCheckerUpdate
  <2>2. r \in {"failure", "success", "possible"}
    OBVIOUS
  <2> QED BY <2>1, <2>2
<1> DEFINE stage == IF j.deleted THEN "finished" ELSE "queued"
           job == [dq.job EXCEPT ![parJob].working = FALSE, ![parJob].par = r,
                                 ![parJob].stage = stage]
           nzb == [dq.nzb EXCEPT ![n].par = AddParStatus(r, @)]
           q == [dq EXCEPT !.job = job]
<1>6. dq' = [q EXCEPT !.nzb = nzb]
  BY <1>5, Zenon
<1>7. stage \in {"queued", "finished"}
  OBVIOUS
<1>8. /\ job \in [Ids -> Jobs \union {{}}] /\ \A i \in Ids \ {parJob} : job[i] = dq.job[i]
      /\ job[parJob] = [j EXCEPT !.working = FALSE, !.par = r, !.stage = stage]
  BY <1>3, <1>4, <1>7 DEF Jobs
<1>9. nzb \in [Collections -> NzbInfos]
  <2>1. n \in Collections /\ dq.nzb \in [Collections -> NzbInfos]
    BY <1>4 DEF Jobs, Queues
  <2>2. dq.nzb[n].par \in {"none", "failure", "success", "possible"}
    BY <2>1 DEF NzbInfos
  <2>3. AddParStatus(r, dq.nzb[n].par) \in {"none", "failure", "success", "possible"}
    BY <1>5, <2>2 DEF AddParStatus
  <2> QED BY <2>1, <2>3 DEF NzbInfos
<1> HIDE DEF stage, job, nzb
<1>10. /\ job[parJob] \in Jobs /\ job[parJob].request = j.request
       /\ job[parJob].parCheck = j.parCheck /\ job[parJob].par = r
       /\ job[parJob].nzb = n /\ ~job[parJob].working /\ job[parJob].stage = stage
  BY <1>4, <1>5, <1>7, <1>8 DEF Jobs
<1>11. JobInv(job[parJob])
  BY <1>2, <1>4, <1>5, <1>10 DEF JobInv
<1>12. /\ JobsInv(q) /\ q.post = dq.post /\ q.job = job
       /\ RunInv(dq) => RunInv(q)
       /\ FirstOnly(dq) => FirstOnly(q)
       /\ \A b : Lists(dq, b) => Lists(q, b)
  <2>1. JobsInv(dq) /\ q = [dq EXCEPT !.job = job]
    BY DEF WorkInv
  <2>2. job[parJob].nzb = dq.job[parJob].nzb /\ ~job[parJob].working
    BY <1>10
  <2>4. /\ job \in [Ids -> Jobs \union {{}}] /\ \A i \in Ids \ {parJob} : job[i] = dq.job[i]
    BY <1>8
  <2> HIDE DEF q, j, n
  <2>3. /\ JobsInv(q) /\ q.post = dq.post /\ q.job = job
        /\ RunInv(dq) => RunInv(q)
        /\ (job[parJob].working => dq.job[parJob].working \/ parJob = Head(dq.post)) /\ FirstOnly(dq)
               => FirstOnly(q)
        /\ job[parJob].nzb = dq.job[parJob].nzb => \A b : Lists(dq, b) => Lists(q, b)
    BY <1>3, <1>11, <2>1, <2>4, OneJobChanges
  <2> QED BY <2>2, <2>3
<1>13. q \in Queues
  BY <1>12 DEF JobsInv
<1> HIDE DEF q
<1>14. /\ dq' \in Queues /\ dq'.post = q.post /\ dq'.job = q.job /\ dq'.files = q.files
       /\ dq'.parked = q.parked /\ dq'.freed = q.freed /\ dq'.marked = q.marked
       /\ dq'.paused = q.paused /\ dq'.history = q.history
  BY <1>6, <1>9, <1>13 DEF Queues
<1>15. JobsInv(dq') /\ FirstOnly(dq')
  BY <1>12, <1>14 DEF WorkInv, JobsInv, FirstOnly
<1>16. RunInv(dq)'
  BY <1>1, <1>12, <1>14 DEF WorkInv, RunInv
<1>17. OtherTypes' /\ \A u \in ParThreads : u # t => parThread'[u] = parThread[u]
  BY <1>1 DEF WorkInv, OtherTypes
<1>18. \A u \in ParThreads : parThread'[u] # "checking"
  <2>1. parThread'[t] = "reported"
    BY <1>1 DEF WorkInv, OtherTypes
  <2> QED BY <1>1, <1>17, <2>1 DEF WorkInv, OneCheck
<1>19. CheckInv(dq)' /\ OneCheck'
  BY <1>18 DEF CheckInv, OneCheck
<1>20. Lists(dq, busy) => Lists(dq', busy')
  <2>1. Known(dq') = Known(q) /\ \A m : Group(dq', m) = Group(q, m)
    BY <1>14 DEF Known, Group
  <2> QED BY <1>1, <1>12, <1>14, <2>1 DEF Lists
<1> QED BY <1>15, <1>16, <1>17, <1>19, <1>20 DEF WorkInv, Kept

-----------------------------------------------------------------------------
(* The invariant.                                                           *)

\* Every step keeps it.
LEMMA NextKept == ASSUME WorkInv, NoMoveFirst, [Next]_vars PROVE Kept
<1>1. CASE UNCHANGED vars
  BY <1>1 DEF vars, Kept, WorkInv, JobsInv, FirstOnly, CheckInv, RunInv, OtherTypes, OneCheck
<1>2. CASE SetPauseDownload \/ ApplySchedulerState
  BY <1>2, PauseSteps
<1>3. CASE EditFiles
  <2>1. UNCHANGED <<busy, pr, parThread, parRunning, parJob>>
    BY <1>3 DEF EditFiles
  <2>2. OtherTypes'
    BY <2>1 DEF WorkInv, OtherTypes
  <2>3. /\ dq' \in Queues /\ dq'.post = dq.post /\ dq'.job = dq.job
        /\ Lists(dq, busy) /\ "pauseBusy" \notin Requests => Lists(dq', busy)
    BY <1>3, EditFilesFields
  <2>4. WorkInv'
    BY <2>1, <2>2, <2>3, SameJobs
  <2> QED BY <2>1, <2>3, <2>4 DEF Kept
<1>4. CASE CheckPostQueue
  BY <1>4, CheckPostQueueStep DEF Kept
<1>5. CASE JobMemoryReused \/ \E t \in ParThreads : ParThreadEnds(t)
  BY <1>5, MemorySteps
<1>6. CASE \E f \in Files : StartDownload(f) \/ Interrupt(f)
  BY <1>6, DownloadSteps
<1>7. CASE \/ \E f \in Files : Complete(f)
           \/ \E n \in Collections, reprocess \in BOOLEAN : HistoryReturn(n, reprocess)
  BY <1>7, GrowSteps
<1>8. CASE \E id \in Ids : ScriptEnds(id) \/ PostQueueDelete(id)
  BY <1>8, ScriptSteps
<1>9. CASE \E from, to \in Ids : PostQueueMove(from, to)
  BY <1>9, MoveStep
<1>10. CASE \E t \in ParThreads : RequestMorePars(t)
  BY <1>10, MorePars
<1>11. CASE \E t \in ParThreads : ParCheckerUpdate(t)
  BY <1>11, ReportStep
<1>12. CASE \E t \in ParThreads : UnpauseAfterCheck(t)
  BY <1>12, UnpauseStep
<1>13. CASE \E n \in Collections : Add(n) \/ HistoryDelete(n) \/ CheckHistory(n)
  BY <1>13, ListSteps
<1> HIDE DEF NoMoveFirst
<1> QED BY <1>1, <1>2, <1>3, <1>4, <1>5, <1>6, <1>7, <1>8, <1>9, <1>10, <1>11, <1>12, <1>13,
           Zenon DEF Next

\* It holds at the start.
LEMMA InitWork == Init => WorkInv /\ Lists(dq, busy)
<1> SUFFICES ASSUME Init PROVE WorkInv /\ Lists(dq, busy)
  OBVIOUS
<1>1. /\ dq.post = <<>> /\ dq.files = {} /\ dq.parked = {} /\ dq.freed = {} /\ dq.history = {}
      /\ busy = {} /\ parRunning = FALSE /\ parJob = 0
      /\ \A t \in ParThreads : parThread[t] = "off"
  BY DEF Init
<1>2. dq \in Queues /\ OtherTypes
  <2>1. NewNzb \in NzbInfos
    BY DEF NewNzb, NzbInfos
  <2> HIDE DEF NewNzb
  <2>2. dq \in Queues
    BY <2>1 DEF Init, Queues
  <2>3. OtherTypes
    BY DEF Init, OtherTypes
  <2> QED BY <2>2, <2>3
<1>3. PostQueue(dq.post) /\ ToSet(dq.post) = {} /\ DOMAIN dq.post = {}
  BY <1>1 DEF PostQueue, IsInjective, ToSet
<1>4. WorkInv
  BY <1>1, <1>2, <1>3 DEF WorkInv, JobsInv, FirstOnly, CheckInv, RunInv, OneCheck
<1>5. Lists(dq, busy)
  BY <1>1, <1>3 DEF Lists, Known
<1> QED BY <1>4, <1>5

\* The post-processor starts one job at a time as long as nobody moves the one that is at
\* work.
THEOREM WorkInvariant == ASSUME NoMoveFirst PROVE Spec => []WorkInv
<1>1. Init => WorkInv
  BY InitWork
<1>2. WorkInv /\ [Next]_vars => WorkInv'
  BY NextKept DEF Kept
<1> QED BY <1>1, <1>2, PTL DEF Spec

\* The variables keep their types: the post-queue has no job twice, each job in it is there,
\* and the results of collections and jobs are results.
THEOREM TypeCorrect == ASSUME NoMoveFirst PROVE Spec => []TypeOK
<1>1. WorkInv => TypeOK
  <2> SUFFICES ASSUME WorkInv PROVE TypeOK
    OBVIOUS
  <2>1. dq \in Queues /\ PostQueue(dq.post) /\ \A id \in ToSet(dq.post) : dq.job[id] \in Jobs
    BY DEF WorkInv, JobsInv, JobInv
  <2>2. /\ DOMAIN dq = {"files", "parked", "freed", "paused", "marked", "disk", "post",
                        "job", "history", "nzb"}
        /\ UNION {dq.files, dq.parked, dq.freed, dq.paused, dq.marked, dq.disk} \subseteq Files
        /\ dq.history \subseteq Collections /\ dq.nzb \in [Collections -> NzbInfos]
    BY <2>1 DEF Queues
  <2>3. OtherTypes
    BY DEF WorkInv
  <2> QED BY <2>1, <2>2, <2>3 DEF TypeOK, OtherTypes, PostQueue
<1> QED BY <1>1, WorkInvariant, PTL

\* A file is queued, parked or freed, and a collection in the history has nothing left to
\* download, whatever requests come between the downloads of its files, as long as no file
\* is paused that is being downloaded.
THEOREM ListsInvariant ==
    ASSUME NoMoveFirst, "pauseBusy" \notin Requests
    PROVE  Spec => [](FilesInOneList /\ HistoryIsDone)
<1>1. Init => Lists(dq, busy)
  BY InitWork
<1>2. WorkInv /\ Lists(dq, busy) /\ [Next]_vars => Lists(dq, busy)'
  BY NextKept DEF Kept
<1>3. Lists(dq, busy) => FilesInOneList /\ HistoryIsDone
  BY DEF Lists, FilesInOneList, HistoryIsDone
<1> QED BY <1>1, <1>2, <1>3, WorkInvariant, PTL DEF Spec

\* A file is in one list only, so that the last of its downloads may free it.
THEOREM FilesStayInOneList ==
    ASSUME NoMoveFirst, "pauseBusy" \notin Requests PROVE Spec => []FilesInOneList
BY ListsInvariant, PTL

\* What goes to the history is done with.
THEOREM HistoryHasNothingLeft ==
    ASSUME NoMoveFirst, "pauseBusy" \notin Requests PROVE Spec => []HistoryIsDone
BY ListsInvariant, PTL

-----------------------------------------------------------------------------
(* The par-checker and its thread.                                          *)

\* The thread of a check is over before the next check starts.
OneThread == \A t, u \in ParThreads : t = u

\* A thread that is not over keeps the flag of the par-checker raised.
FlagIsRaised == \A t \in ParThreads : parThread[t] # "off" => parRunning

\* The steps of the threads: a check starts, reports, unpauses and is over.
LEMMA ThreadStep ==
    ASSUME WorkInv, [Next]_vars
    PROVE  \/ UNCHANGED <<parThread, parRunning>>
           \/ \E t \in ParThreads : parThread' = [parThread EXCEPT ![t] = "checking"] /\ parRunning'
           \/ \E t \in ParThreads, p \in {"reported", "leaving"} :
                  /\ parThread[t] \in {"checking", "reported"}
                  /\ parThread' = [parThread EXCEPT ![t] = p] /\ parRunning' = parRunning
           \/ \E t \in ParThreads : parThread' = [parThread EXCEPT ![t] = "off"]
<1>1. CASE CheckPostQueue
  <2>1. PICK q, id : StartParJob(q, id) \/ StartScriptJob(q, id) \/ FinishJob(q, id)
                     \/ UNCHANGED <<parThread, parRunning>>
    BY <1>1 DEF CheckPostQueue
  <2> QED BY <2>1 DEF StartParJob, StartScriptJob, FinishJob
<1>2. CASE \E t \in ParThreads : ParCheckerUpdate(t) \/ UnpauseAfterCheck(t) \/ ParThreadEnds(t)
  BY <1>2 DEF ParCheckerUpdate, UnpauseAfterCheck, ParThreadEnds
<1>3. CASE SetPauseDownload \/ ApplySchedulerState \/ EditFiles \/ JobMemoryReused
           \/ \E t \in ParThreads : RequestMorePars(t)
  BY <1>3 DEF SetPauseDownload, ApplySchedulerState, EditFiles, JobMemoryReused, RequestMorePars
<1>4. CASE \E f \in Files : StartDownload(f) \/ Interrupt(f) \/ Complete(f)
  BY <1>4 DEF StartDownload, Interrupt, Complete
<1>5. CASE \/ \E id \in Ids : ScriptEnds(id) \/ PostQueueDelete(id)
           \/ \E from, to \in Ids : PostQueueMove(from, to)
  <2>1. CASE \E id \in Ids : ScriptEnds(id)
    BY <2>1, Zenon DEF ScriptEnds
  <2>2. CASE \E id \in Ids : PostQueueDelete(id)
    BY <2>2, Zenon DEF PostQueueDelete
  <2>3. CASE \E from, to \in Ids : PostQueueMove(from, to)
    BY <2>3, Zenon DEF PostQueueMove
  <2> QED BY <1>5, <2>1, <2>2, <2>3
<1>6. CASE \E n \in Collections :
               \/ Add(n) \/ HistoryDelete(n) \/ CheckHistory(n)
               \/ \E reprocess \in BOOLEAN : HistoryReturn(n, reprocess)
  BY <1>6 DEF Add, HistoryDelete, CheckHistory, HistoryReturn
<1>7. CASE UNCHANGED vars
  BY <1>7 DEF vars
<1> QED BY <1>1, <1>2, <1>3, <1>4, <1>5, <1>6, <1>7, Zenon DEF Next

\* The job of a running check is the first one and at work, and only that job is; a check
\* that runs keeps its flag raised.
THEOREM OneJobWorks == ASSUME NoMoveFirst, OneThread PROVE Spec => []OneJobAtWork
<1>1. Init => FlagIsRaised
  BY DEF Init, FlagIsRaised
<1>2. WorkInv /\ FlagIsRaised /\ [Next]_vars => FlagIsRaised'
  <2> SUFFICES ASSUME WorkInv, FlagIsRaised, [Next]_vars, NEW u \in ParThreads,
                      parThread'[u] # "off"
               PROVE  parRunning'
    BY DEF FlagIsRaised
  <2>1. parThread \in [ParThreads -> {"off", "checking", "reported", "leaving"}]
    BY DEF WorkInv, OtherTypes
  <2> QED BY <2>1, ThreadStep DEF FlagIsRaised, OneThread
<1>3. WorkInv /\ FlagIsRaised => OneJobAtWork
  BY DEF WorkInv, FirstOnly, CheckInv, OneCheck, FlagIsRaised, OneJobAtWork
<1> QED BY <1>1, <1>2, <1>3, WorkInvariant, PTL DEF Spec

-----------------------------------------------------------------------------
(* The pause register.                                                      *)

\* The post-processor's pause is that of a check which will undo it.
PauseInv ==
    /\ pr.post => ParPauseQueue
    /\ pr.post /\ ~pr.late => \E t \in ParThreads : parThread[t] \in {"checking", "reported"}

\* What a step does to the register.
LEMMA PauseStep ==
    ASSUME WorkInv, PauseInv, [Next]_vars, ~(PostPauseQueue /\ PostScript)
    PROVE  PauseInv'
<1>1. /\ pr \in [download : BOOLEAN, post : BOOLEAN, sched : BOOLEAN, late : BOOLEAN]
      /\ parThread \in [ParThreads -> {"off", "checking", "reported", "leaving"}]
  BY DEF WorkInv, OtherTypes
<1>2. ~UnpauseDownload(pr).post /\ UnpauseDownload(pr).late \in BOOLEAN
  BY <1>1 DEF UnpauseDownload
<1>3. ASSUME pr'.post = pr.post, pr'.late = pr.late, UNCHANGED parThread PROVE PauseInv'
  BY <1>3 DEF PauseInv
<1>4. CASE CheckPostQueue
  <2>1. PICK q, id : \/ StartParJob(q, id) \/ StartScriptJob(q, id) \/ FinishJob(q, id)
                     \/ UNCHANGED <<parThread, pr>>
    BY <1>4 DEF CheckPostQueue
  <2>2. CASE StartParJob(q, id)
    <3>1. PICK t \in ParThreads : parThread' = [parThread EXCEPT ![t] = "checking"]
      BY <2>2 DEF StartParJob
    <3>2. pr' = IF ParPauseQueue THEN PauseDownload(pr) ELSE pr
      BY <2>2 DEF StartParJob
    <3>3. parThread'[t] = "checking" /\ (pr'.post => ParPauseQueue)
      BY <1>1, <3>1, <3>2 DEF PauseInv
    <3> QED BY <3>3 DEF PauseInv
  <2>3. CASE StartScriptJob(q, id) \/ FinishJob(q, id) \/ UNCHANGED <<parThread, pr>>
    <3>1. UNCHANGED <<parThread, pr>>
      BY <2>3 DEF StartScriptJob, FinishJob
    <3> QED BY <1>3, <3>1
  <2> QED BY <2>1, <2>2, <2>3
<1>5. CASE \E t \in ParThreads : ParCheckerUpdate(t)
  <2>1. PICK t \in ParThreads : parThread' = [parThread EXCEPT ![t] = "reported"] /\ pr' = pr
    BY <1>5 DEF ParCheckerUpdate
  <2> QED BY <1>1, <2>1 DEF PauseInv
<1>6. CASE \E t \in ParThreads : UnpauseAfterCheck(t)
  <2>1. PICK t \in ParThreads : pr' = IF ParPauseQueue THEN UnpauseDownload(pr) ELSE pr
    BY <1>6 DEF UnpauseAfterCheck
  <2>2. ~pr'.post
    BY <1>2, <2>1 DEF PauseInv
  <2> QED BY <2>2 DEF PauseInv
<1>7. CASE \E t \in ParThreads : ParThreadEnds(t)
  <2>1. PICK t \in ParThreads : /\ parThread[t] = "leaving" /\ pr' = pr
                                /\ parThread' = [parThread EXCEPT ![t] = "off"]
    BY <1>7 DEF ParThreadEnds
  <2> QED BY <1>1, <2>1 DEF PauseInv
<1>8. CASE \E t \in ParThreads : RequestMorePars(t)
  <2>1. UNCHANGED parThread /\ pr' = IF ParPauseQueue THEN UnpauseDownload(pr) ELSE pr
    BY <1>8 DEF RequestMorePars
  <2>2. CASE ParPauseQueue
    BY <1>2, <2>1, <2>2 DEF PauseInv
  <2>3. CASE ~ParPauseQueue
    BY <1>3, <2>1, <2>3
  <2> QED BY <2>2, <2>3
<1>9. CASE \E f \in Files : Complete(f)
  <2>1. PICK f \in Files : Complete(f)
    BY <1>9
  <2>2. CASE ~(f \notin dq.marked /\ IsForParCheck(dq, f) /\ ParPauseQueue)
    <3>1. UNCHANGED <<pr, parThread>>
      BY <2>1, <2>2 DEF Complete
    <3> QED BY <1>3, <3>1
  <2>3. CASE f \notin dq.marked /\ IsForParCheck(dq, f) /\ ParPauseQueue
    <3> DEFINE p == PauseDownload(pr)
    <3>1. /\ UNCHANGED parThread
          /\ pr' = [p EXCEPT !.late = p.post /\ \A t \in ParThreads : parThread[t] # "checking"]
      BY <2>1, <2>3 DEF Complete
    <3>2. p \in [download : BOOLEAN, post : BOOLEAN, sched : BOOLEAN, late : BOOLEAN]
      BY <1>1, PauseTypes
    <3> HIDE DEF p
    <3>3. /\ pr'.post = p.post
          /\ pr'.late = (p.post /\ \A t \in ParThreads : parThread[t] # "checking")
      BY <3>1, <3>2
    <3> QED BY <2>3, <3>1, <3>3 DEF PauseInv
  <2> QED BY <2>2, <2>3
<1>10. CASE \/ SetPauseDownload \/ ApplySchedulerState \/ EditFiles \/ JobMemoryReused
            \/ \E f \in Files : StartDownload(f) \/ Interrupt(f)
            \/ \E id \in Ids : ScriptEnds(id) \/ PostQueueDelete(id)
            \/ \E from, to \in Ids : PostQueueMove(from, to)
            \/ \E n \in Collections :
                   \/ Add(n) \/ HistoryDelete(n) \/ CheckHistory(n)
                   \/ \E reprocess \in BOOLEAN : HistoryReturn(n, reprocess)
            \/ UNCHANGED vars
  <2>1. UNCHANGED parThread
    BY <1>10, ZenonT(30) DEF SetPauseDownload, ApplySchedulerState, EditFiles, JobMemoryReused, StartDownload,
                 Interrupt, ScriptEnds, PostQueueDelete, PostQueueMove, Add, HistoryDelete,
                 CheckHistory, HistoryReturn, vars
  <2>2. pr'.post = pr.post /\ pr'.late = pr.late
    <3>1. CASE SetPauseDownload \/ ApplySchedulerState
      BY <1>1, <3>1 DEF SetPauseDownload, ApplySchedulerState
    <3>2. CASE ~(SetPauseDownload \/ ApplySchedulerState)
      BY <1>10, <3>2, ZenonT(30) DEF EditFiles, JobMemoryReused, StartDownload,
                 Interrupt, ScriptEnds, PostQueueDelete, PostQueueMove, Add, HistoryDelete,
                 CheckHistory, HistoryReturn, vars
    <3> QED BY <3>1, <3>2
  <2> QED BY <1>3, <2>1, <2>2
<1> QED BY <1>4, <1>5, <1>6, <1>7, <1>8, <1>9, <1>10, Zenon DEF Next

\* The download is not left paused by the post-processor when nothing is processed.
THEOREM PauseUndone ==
    ASSUME NoMoveFirst, ~(PostPauseQueue /\ PostScript) PROVE Spec => []PauseIsUndone
<1>1. Init => PauseInv
  BY DEF Init, PauseInv
<1>2. WorkInv /\ PauseInv /\ [Next]_vars => PauseInv'
  BY PauseStep
<1>3. WorkInv /\ PauseInv => PauseIsUndone
  BY DEF WorkInv, OtherTypes, PauseInv, PauseIsUndone
<1> QED BY <1>1, <1>2, <1>3, WorkInvariant, PTL DEF Spec
=============================================================================
