-------------------------- MODULE ParCheckerProofs --------------------------
(***************************************************************************)
(* Proofs about a check and the par-files that it waits for, for any number *)
(* of par-files with any blocks and names, and whatever sets lack.          *)
(*                                                                         *)
(* Each property is kept by every step once it says more: what the par-     *)
(* checker waits for is in the queue from the moment in which it was        *)
(* granted (WaitInv), a check that was refused cannot have enough until it  *)
(* looks again (RequestInv), and no check is left when Stop has ended       *)
(* (StopStep).  Requests need sums of blocks: MapThenSumSet sums up in an   *)
(* order of its own, and any other order gives the same (SumWithFile).      *)
(***************************************************************************)
EXTENDS ParChecker, FiniteSetTheorems, WellFoundedInduction, TLAPS

FilesInv == queue \subseteq ToSet(Vols)

StillToCome == asked \subseteq queue \union missed

\* While the request is on its way back, what leaves the queue is missed; later its
\* notice sets the flag.
WaitInv ==
    /\ at = "granted" => StillToCome
    /\ at = "waiting" /\ ~changed /\ stop = "no" => StillToCome

-----------------------------------------------------------------------------
(* Sums of blocks.                                                          *)

\* A set that has 0 and with each natural number the next one has them all.
LEMMA SetInduction ==
    ASSUME NEW S, 0 \in S, \A n \in Nat : n \in S => n + 1 \in S
    PROVE  Nat \subseteq S
<1> SUFFICES ASSUME Nat \ S # {} PROVE FALSE
  OBVIOUS
<1>1. PICK x \in Nat \ S : \A y \in Nat \ S : ~(<<y, x>> \in OpToRel(<, Nat))
  <2>1. IsWellFoundedOn(OpToRel(<, Nat), Nat)
    BY NatLessThanWellFounded
  <2> QED BY <2>1, WFMin
<1>2. \A y \in Nat \ S : ~(y < x)
  BY <1>1 DEF OpToRel
<1>3. x # 0 /\ x - 1 \in Nat
  OBVIOUS
<1>4. x - 1 \in S
  BY <1>2, <1>3
<1> QED BY <1>3, <1>4

\* sum is the recursion of MapThenSumSet on sets that are in D with each of their subsets.
Sums(sum, D) ==
    sum = [s \in D |-> IF s = {} THEN 0
                       ELSE LET v == CHOOSE v \in s : TRUE
                            IN  Blocks[v] + sum[s \ {v}]]

SmallSets(S, n) == {s \in SUBSET S : Cardinality(s) <= n}

\* The recursion has a solution.
LEMMA SumsExist ==
    ASSUME NEW S, IsFiniteSet(S)
    PROVE  \E sum : Sums(sum, SUBSET S)
<1> DEFINE N == {n \in Nat : \E sum : Sums(sum, SmallSets(S, n))}
<1>1. 0 \in N
  <2>1. \A s \in SmallSets(S, 0) : s = {}
    BY FS_Subset, FS_EmptySet, FS_CardinalityType DEF SmallSets
  <2>2. Sums([s \in SmallSets(S, 0) |-> 0], SmallSets(S, 0))
    BY <2>1 DEF Sums
  <2> QED BY <2>2
<1>2. ASSUME NEW n \in Nat, n \in N PROVE n + 1 \in N
  <2>1. PICK a : Sums(a, SmallSets(S, n))
    BY <1>2
  <2> DEFINE value(f, s) == IF s = {} THEN 0
                            ELSE LET v == CHOOSE v \in s : TRUE IN Blocks[v] + f[s \ {v}]
             b == [s \in SmallSets(S, n + 1) |-> value(a, s)]
  <2>2. ASSUME NEW s \in SmallSets(S, n) PROVE s \in SmallSets(S, n + 1) /\ b[s] = a[s]
    <3>1. s \in SmallSets(S, n + 1)
      BY FS_Subset, FS_CardinalityType DEF SmallSets
    <3>2. a[s] = value(a, s)
      BY <2>1 DEF Sums
    <3> QED BY <3>1, <3>2
  <2>3. ASSUME NEW s \in SmallSets(S, n + 1) PROVE b[s] = value(b, s)
    <3>1. CASE s = {}
      BY <3>1
    <3>2. CASE s # {}
      <4> DEFINE v == CHOOSE v \in s : TRUE
      <4>1. v \in s
        BY <3>2
      <4> HIDE DEF v
      <4>2. s \ {v} \in SmallSets(S, n)
        <5>1. s \in SUBSET S /\ Cardinality(s) <= n + 1
          BY DEF SmallSets
        <5>2. IsFiniteSet(s) /\ Cardinality(s) \in Nat
          BY <5>1, FS_Subset, FS_CardinalityType
        <5>3. Cardinality(s \ {v}) = Cardinality(s) - 1
          BY <4>1, <5>2, FS_RemoveElement
        <5> QED BY <5>1, <5>2, <5>3 DEF SmallSets
      <4>3. b[s \ {v}] = a[s \ {v}]
        BY <4>2, <2>2
      <4> QED BY <3>2, <4>3 DEF v
    <3> QED BY <3>1, <3>2
  <2>4. b = [s \in SmallSets(S, n + 1) |-> value(b, s)]
    <3>1. \A s \in SmallSets(S, n + 1) : value(a, s) = value(b, s)
      BY <2>3
    <3> HIDE DEF value
    <3> QED BY <3>1
  <2>5. Sums(b, SmallSets(S, n + 1))
    BY <2>4, Zenon DEF Sums
  <2> QED BY <2>5
<1> HIDE DEF N
<1>3. Cardinality(S) \in N
  BY <1>1, <1>2, SetInduction, FS_CardinalityType
<1>4. SmallSets(S, Cardinality(S)) = SUBSET S
  BY FS_Subset DEF SmallSets
<1> QED BY <1>3, <1>4 DEF N

\* SumBlocks is a value of the recursion.
LEMMA SumBlocksIsSum ==
    ASSUME NEW S, IsFiniteSet(S)
    PROVE  \E sum : Sums(sum, SUBSET S) /\ SumBlocks(S) = sum[S]
<1> DEFINE sum == CHOOSE sum : Sums(sum, SUBSET S)
<1>1. Sums(sum, SUBSET S)
  BY SumsExist
<1>2. SumBlocks(S) = sum[S]
  BY DEF SumBlocks, MapThenSumSet, MapThenFoldSet, Sums
<1> QED BY <1>1, <1>2

\* The recursion has one solution, also for a smaller set.
LEMMA SumsAgree ==
    ASSUME NEW S, IsFiniteSet(S), NEW T \in SUBSET S,
           NEW f, Sums(f, SUBSET S), NEW g, Sums(g, SUBSET T)
    PROVE  f[T] = g[T]
<1> DEFINE N == {n \in Nat : \A s \in SUBSET T : Cardinality(s) = n => f[s] = g[s]}
<1>1. \A s \in SUBSET T : IsFiniteSet(s) /\ Cardinality(s) \in Nat
  BY FS_Subset, FS_CardinalityType
<1>2. 0 \in N
  <2>1. f[{}] = 0 /\ g[{}] = 0
    BY DEF Sums
  <2> QED BY <2>1, <1>1, FS_EmptySet
<1>3. ASSUME NEW n \in Nat, n \in N PROVE n + 1 \in N
  <2> SUFFICES ASSUME NEW s \in SUBSET T, Cardinality(s) = n + 1 PROVE f[s] = g[s]
    OBVIOUS
  <2> DEFINE v == CHOOSE v \in s : TRUE
  <2>1. s # {}
    BY <1>1, FS_EmptySet
  <2>2. v \in s
    BY <2>1
  <2>3. f[s] = Blocks[v] + f[s \ {v}] /\ g[s] = Blocks[v] + g[s \ {v}]
    BY <2>1 DEF Sums
  <2> HIDE DEF v
  <2>4. s \ {v} \in SUBSET T /\ Cardinality(s \ {v}) = n
    BY <1>1, <2>2, FS_RemoveElement
  <2> QED BY <1>3, <2>3, <2>4
<1> HIDE DEF N
<1>4. Cardinality(T) \in N
  BY <1>1, <1>2, <1>3, SetInduction
<1> QED BY <1>4 DEF N

\* There are finitely many par-files.
LEMMA VolsAreFinite == \A S \in SUBSET ToSet(Vols) : IsFiniteSet(S) /\ Cardinality(S) \in Nat
<1>1. Vols \in Surjection(1..Len(Vols), ToSet(Vols))
  BY ParAssumption DEF Surjection, ToSet
<1>2. IsFiniteSet(ToSet(Vols))
  BY <1>1, ParAssumption, FS_Interval, FS_Surjection DEF ExistsSurjection
<1> QED BY <1>2, FS_Subset, FS_CardinalityType

\* One recursion sums up all sets of par-files.
LEMMA SumsOfVols ==
    \E sum : Sums(sum, SUBSET ToSet(Vols)) /\ \A S \in SUBSET ToSet(Vols) : SumBlocks(S) = sum[S]
<1>1. PICK sum : Sums(sum, SUBSET ToSet(Vols))
  BY VolsAreFinite, SumsExist
<1>2. ASSUME NEW S \in SUBSET ToSet(Vols) PROVE SumBlocks(S) = sum[S]
  <2>1. IsFiniteSet(S) /\ IsFiniteSet(ToSet(Vols))
    BY VolsAreFinite
  <2>2. PICK part : Sums(part, SUBSET S) /\ SumBlocks(S) = part[S]
    BY <2>1, SumBlocksIsSum
  <2>3. sum[S] = part[S]
    BY <1>1, <2>1, <2>2, SumsAgree
  <2> QED BY <2>2, <2>3
<1> QED BY <1>1, <1>2

\* Any file of s can be summed up first.
AddsUp(sum, s) == sum[s] \in Nat /\ \A v \in s : sum[s] = Blocks[v] + sum[s \ {v}]

\* A file adds its blocks, whichever one is summed up first.
LEMMA SumWithFile ==
    ASSUME NEW S \in SUBSET ToSet(Vols)
    PROVE  /\ SumBlocks(S) \in Nat
           /\ \A v \in S : SumBlocks(S) = Blocks[v] + SumBlocks(S \ {v})
<1>1. PICK sum : /\ Sums(sum, SUBSET ToSet(Vols))
                 /\ \A s \in SUBSET ToSet(Vols) : SumBlocks(s) = sum[s]
  BY SumsOfVols
<1> DEFINE N == {n \in Nat : \A s \in SUBSET ToSet(Vols) :
                     Cardinality(s) <= n => AddsUp(sum, s)}
<1>2. 0 \in N
  <2>1. sum[{}] = 0
    BY <1>1 DEF Sums
  <2>2. ASSUME NEW s \in SUBSET ToSet(Vols), Cardinality(s) <= 0 PROVE s = {}
    BY <2>2, VolsAreFinite, FS_EmptySet
  <2>3. AddsUp(sum, {})
    BY <2>1 DEF AddsUp
  <2> QED BY <2>2, <2>3
<1>3. ASSUME NEW n \in Nat, n \in N PROVE n + 1 \in N
  <2> SUFFICES ASSUME NEW s \in SUBSET ToSet(Vols), Cardinality(s) = n + 1 PROVE AddsUp(sum, s)
    BY <1>3, VolsAreFinite
  <2> DEFINE x == CHOOSE v \in s : TRUE
  <2>1. s # {}
    BY VolsAreFinite, FS_EmptySet
  <2>2. x \in s
    BY <2>1
  <2>3. sum[s] = Blocks[x] + sum[s \ {x}]
    BY <1>1, <2>1 DEF Sums
  <2> HIDE DEF x
  <2>4. ASSUME NEW v \in s
        PROVE  /\ s \ {v} \in SUBSET ToSet(Vols) /\ Cardinality(s \ {v}) = n
               /\ AddsUp(sum, s \ {v}) /\ sum[s \ {v}] \in Nat /\ Blocks[v] \in Nat
    <3>1. s \ {v} \in SUBSET ToSet(Vols) /\ Cardinality(s \ {v}) = n
      BY VolsAreFinite, FS_RemoveElement
    <3>2. AddsUp(sum, s \ {v})
      BY <1>3, <3>1
    <3>3. Blocks[v] \in Nat
      BY ParAssumption
    <3> QED BY <3>1, <3>2, <3>3 DEF AddsUp
  <2>5. sum[s] \in Nat
    <3>1. sum[s \ {x}] \in Nat /\ Blocks[x] \in Nat
      BY <2>2, <2>4
    <3> QED BY <2>3, <3>1
  <2>6. ASSUME NEW v \in s, v # x PROVE sum[s] = Blocks[v] + sum[s \ {v}]
    <3>1. sum[s \ {x}] = Blocks[v] + sum[(s \ {x}) \ {v}]
      BY <2>2, <2>4, <2>6 DEF AddsUp
    <3>2. sum[s \ {v}] = Blocks[x] + sum[(s \ {v}) \ {x}]
      BY <2>2, <2>4, <2>6 DEF AddsUp
    <3>3. (s \ {x}) \ {v} = (s \ {v}) \ {x}
      OBVIOUS
    <3>4. sum[(s \ {v}) \ {x}] \in Nat
      <4>1. Cardinality((s \ {v}) \ {x}) = n - 1
        BY <2>2, <2>4, <2>6, VolsAreFinite, FS_RemoveElement
      <4> QED BY <1>3, <4>1 DEF AddsUp
    <3>5. Blocks[x] \in Nat /\ Blocks[v] \in Nat
      BY <2>2, <2>4
    <3> QED
      <4> DEFINE rest == sum[(s \ {v}) \ {x}]
      <4>1. sum[s] = Blocks[x] + (Blocks[v] + rest)
        BY <2>3, <3>1, <3>3
      <4>2. sum[s \ {v}] = Blocks[x] + rest /\ rest \in Nat
        BY <3>2, <3>4
      <4> HIDE DEF rest
      <4> QED BY <3>5, <4>1, <4>2
  <2> QED BY <2>3, <2>5, <2>6 DEF AddsUp
<1> HIDE DEF N
<1>4. Cardinality(S) \in N
  BY <1>2, <1>3, SetInduction, VolsAreFinite
<1> QED BY <1>1, <1>4 DEF N, AddsUp

\* More files have no fewer blocks.
LEMMA SumGrows ==
    ASSUME NEW T \in SUBSET ToSet(Vols), NEW S \in SUBSET T
    PROVE  SumBlocks(S) \in Nat /\ SumBlocks(T) \in Nat /\ SumBlocks(S) <= SumBlocks(T)
<1> DEFINE N == {n \in Nat : \A t \in SUBSET ToSet(Vols) :
                     S \subseteq t /\ Cardinality(t) = n => SumBlocks(S) <= SumBlocks(t)}
<1>1. \A t \in SUBSET ToSet(Vols) : SumBlocks(t) \in Nat
  BY SumWithFile
<1>2. 0 \in N
  <2> SUFFICES ASSUME NEW t \in SUBSET ToSet(Vols), S \subseteq t, Cardinality(t) = 0
               PROVE  SumBlocks(S) <= SumBlocks(t)
    OBVIOUS
  <2>1. t = {}
    BY VolsAreFinite, FS_EmptySet
  <2> QED BY <1>1, <2>1
<1>3. ASSUME NEW n \in Nat, n \in N PROVE n + 1 \in N
  <2> SUFFICES ASSUME NEW t \in SUBSET ToSet(Vols), S \subseteq t, Cardinality(t) = n + 1
               PROVE  SumBlocks(S) <= SumBlocks(t)
    OBVIOUS
  <2>1. CASE S = t
    BY <1>1, <2>1
  <2>2. CASE S # t
    <3>1. PICK v \in t : v \notin S
      BY <2>2
    <3>2. t \ {v} \in SUBSET ToSet(Vols) /\ S \subseteq t \ {v} /\ Cardinality(t \ {v}) = n
      BY <3>1, VolsAreFinite, FS_RemoveElement
    <3>3. SumBlocks(S) <= SumBlocks(t \ {v})
      BY <1>3, <3>2
    <3>4. SumBlocks(t) = Blocks[v] + SumBlocks(t \ {v}) /\ Blocks[v] \in Nat
      BY SumWithFile, ParAssumption
    <3> QED BY <1>1, <3>2, <3>3, <3>4
  <2> QED BY <2>1, <2>2
<1> HIDE DEF N
<1>4. Cardinality(T) \in N
  BY <1>2, <1>3, SetInduction, VolsAreFinite
<1> QED BY <1>1, <1>4 DEF N

-----------------------------------------------------------------------------
\* Whatever is chosen is one of the files in the queue.
LEMMA CandidatesAreQueued == ASSUME NEW needed PROVE Candidates(needed) \subseteq queue
<1> DEFINE same == queue \intersect SameName
           similar == same \union (queue \intersect SimilarName)
<1>1. CASE Enough(same, needed)
  BY <1>1 DEF Candidates
<1>2. CASE ~Enough(same, needed) /\ (Enough(similar, needed) \/ StrictParName)
  BY <1>2 DEF Candidates
<1>3. CASE ~Enough(same, needed) /\ ~(Enough(similar, needed) \/ StrictParName)
  BY <1>3 DEF Candidates
<1> QED BY <1>1, <1>2, <1>3

LEMMA InitHolds == Init => FilesInv /\ WaitInv /\ ArrivedParsAreUsed
BY DEF Init, FilesInv, WaitInv, ArrivedParsAreUsed

\* The queue of par-files only loses files.
LEMMA QueueShrinks == ASSUME [Next]_vars PROVE queue' \subseteq queue
<1>1. CASE Check
  BY <1>1 DEF Check, Process, Decide, RequestMorePars, LookAgain, StopWaiting, LoadMorePars,
              LoadStopped, ParCheckerUpdate, Exit, queueVars
<1>2. CASE Files
  BY <1>2 DEF Files, FileLeaves, PauseEntry, QueueChanged, queueVars
<1>3. CASE PostProcess
  BY <1>3 DEF PostProcess, LoopTop, StartParJob, NoParJob, Cleanup, queueVars
<1>4. CASE Stop
  BY <1>4 DEF Stop, StopFlag, StopChecker, StopSeesExit, StopKills, queueVars
<1>5. CASE PausePostProcess \/ UNCHANGED vars
  BY <1>5 DEF PausePostProcess, vars, queueVars
<1> QED BY <1>1, <1>2, <1>3, <1>4, <1>5 DEF Next

-----------------------------------------------------------------------------
(* Waiting.                                                                 *)

LEMMA WaitStep == ASSUME WaitInv, [Next]_vars PROVE WaitInv'
<1> USE DEF WaitInv, StillToCome
<1>1. CASE Process \/ Decide \/ StopWaiting \/ LoadMorePars \/ LoadStopped \/ ParCheckerUpdate
           \/ Exit
  <2>1. at' \notin {"granted", "waiting"}
    BY <1>1 DEF Process, Decide, StopWaiting, LoadMorePars, LoadStopped, ParCheckerUpdate,
                Exit, More
  <2> QED BY <2>1
<1>2. CASE RequestMorePars
  <2>1. CASE at' = "refused"
    BY <2>1
  <2>2. CASE at' = "granted"
    <3>1. asked' \subseteq Candidates(missing)
      BY <1>2, <2>2 DEF RequestMorePars
    <3>2. asked' \subseteq queue /\ queue' = queue
      BY <1>2, <3>1, CandidatesAreQueued DEF RequestMorePars
    <3> QED BY <2>2, <3>2
  <2> QED BY <1>2, <2>1, <2>2 DEF RequestMorePars
<1>3. CASE LookAgain
  <2>1. at' # "granted" /\ (at' = "waiting" => at = "granted")
    BY <1>3 DEF LookAgain
  <2>2. UNCHANGED <<asked, queue, missed>>
    BY <1>3 DEF LookAgain, queueVars, history
  <2> QED BY <2>1, <2>2
<1>4. ASSUME NEW v \in queue, NEW deleted \in BOOLEAN, NEW good \in BOOLEAN,
             FileLeaves(v, deleted, good)
      PROVE  WaitInv'
  <2>1. CASE at = "granted"
    BY <1>4, <2>1 DEF FileLeaves, AboutToWait
  <2>2. CASE at # "granted"
    <3>1. stop = "no" => changed'
      BY <1>4 DEF FileLeaves, AddPar
    <3> QED BY <1>4, <2>2, <3>1 DEF FileLeaves
  <2> QED BY <2>1, <2>2
<1>5. ASSUME NEW v \in queue, PauseEntry(v) PROVE WaitInv'
  BY <1>5 DEF PauseEntry, checkerVars, history
<1>6. CASE QueueChanged
  BY <1>6 DEF QueueChanged, queueVars, history
<1>7. CASE LoopTop \/ NoParJob \/ Cleanup
  BY <1>7 DEF LoopTop, NoParJob, Cleanup, queueVars, checkerVars, history
<1>8. ASSUME NEW m \in Missing, StartParJob(m) PROVE WaitInv'
  BY <1>8 DEF StartParJob
<1>9. CASE Stop
  <2>1. stop' # "no" /\ (at' = at \/ at' = "killed") /\ UNCHANGED <<asked, queue, missed>>
    BY <1>9 DEF Stop, StopFlag, StopChecker, StopSeesExit, StopKills, queueVars, checkerVars,
                history
  <2> QED BY <2>1
<1>10. CASE PausePostProcess \/ UNCHANGED vars
  BY <1>10 DEF PausePostProcess, vars, queueVars, checkerVars, history
<1> QED
  BY <1>1, <1>2, <1>3, <1>4, <1>5, <1>6, <1>7, <1>8, <1>9, <1>10
  DEF Next, Check, Files, PostProcess

\* A check that waits, and has not been told of anything, waits for files that can still
\* come (ParChecker::Run, AddParFile, QueueChanged).
THEOREM NoWaitForNothing == Spec => []WaitsForSomething
<1>1. Init => WaitInv
  BY InitHolds
<1>2. WaitInv /\ [Next]_vars => WaitInv'
  BY WaitStep
<1>3. WaitInv => WaitsForSomething
  BY DEF WaitInv, WaitsForSomething, StillToCome
<1> QED BY <1>1, <1>2, <1>3, PTL DEF Spec

-----------------------------------------------------------------------------
(* Par-files that have come in.                                             *)

LEMMA ArrivedStep ==
    ASSUME SameParCollection = ToSet(Vols), FilesInv, ArrivedParsAreUsed, [Next]_vars
    PROVE  ArrivedParsAreUsed'
<1> USE DEF ArrivedParsAreUsed
<1>1. CASE Process \/ Decide \/ RequestMorePars \/ LookAgain \/ StopWaiting \/ LoadStopped
           \/ ParCheckerUpdate
  BY <1>1 DEF Process, Decide, RequestMorePars, LookAgain, StopWaiting, LoadStopped,
              ParCheckerUpdate, history
<1>2. CASE LoadMorePars \/ Exit
  BY <1>2 DEF LoadMorePars, Exit
<1>3. ASSUME NEW v \in queue, NEW deleted \in BOOLEAN, NEW good \in BOOLEAN,
             FileLeaves(v, deleted, good)
      PROVE  ArrivedParsAreUsed'
  <2>1. v \in SameParCollection
    BY DEF FilesInv
  <2>2. queued \subseteq queued'
    BY <1>3 DEF FileLeaves, AddPar
  <2>3. stop = "no" /\ IsRunning /\ ~deleted => v \in queued'
    BY <1>3, <2>1 DEF FileLeaves, AddPar
  <2>4. arrived' \subseteq arrived \union {v} /\ (v \in arrived' => v \in arrived \/ v \in queued')
    BY <1>3, <2>3 DEF FileLeaves
  <2> QED BY <2>2, <2>4
<1>4. ASSUME NEW v \in queue, PauseEntry(v) PROVE ArrivedParsAreUsed'
  BY <1>4 DEF PauseEntry, checkerVars, history
<1>5. CASE QueueChanged
  BY <1>5 DEF QueueChanged, history
<1>6. CASE PostProcess
  BY <1>6 DEF PostProcess, LoopTop, NoParJob, Cleanup, StartParJob, checkerVars, history
<1>7. CASE Stop
  BY <1>7 DEF Stop, StopFlag, StopChecker, StopSeesExit, StopKills, checkerVars, history
<1>8. CASE PausePostProcess \/ UNCHANGED vars
  BY <1>8 DEF PausePostProcess, vars, checkerVars, history
<1> QED BY <1>1, <1>2, <1>3, <1>4, <1>5, <1>6, <1>7, <1>8 DEF Next, Check, Files

\* What a check has asked for and what has come in is loaded or still to be loaded
\* (AddPar, LoadMorePars), if files are of the set by their names when they have been
\* downloaded; run loose_pars_unused shows what happens to others.
THEOREM ArrivedParsAreLoaded ==
    ASSUME SameParCollection = ToSet(Vols) PROVE Spec => []ArrivedParsAreUsed
<1> DEFINE Inv == FilesInv /\ ArrivedParsAreUsed
<1>1. Init => Inv
  BY InitHolds
<1>2. Inv /\ [Next]_vars => Inv'
  BY ArrivedStep, QueueShrinks DEF FilesInv
<1> QED BY <1>1, <1>2, PTL DEF Spec

-----------------------------------------------------------------------------
(* Requests.                                                                *)

\* What is asked for is enough, since the file that the second round adds is larger than
\* what is still needed.
LEMMA ChosenIsEnough ==
    ASSUME NEW files \in SUBSET ToSet(Vols), NEW needed \in Int, Enough(files, needed),
           NEW chosen, Chosen(chosen, files, needed)
    PROVE  chosen \subseteq files /\ Enough(chosen, needed)
<1>1. PICK taken \in SUBSET files :
          /\ FirstRound(taken, files, needed)
          /\ \/ Enough(taken, needed) /\ chosen = taken
             \/ /\ ~Enough(taken, needed)
                /\ \E v \in files \ taken :
                       /\ \A w \in files \ (taken \union {v}) : FoundBefore(v, w)
                       /\ chosen = taken \union {v}
  BY DEF Chosen
<1>2. CASE Enough(taken, needed) /\ chosen = taken
  BY <1>2
<1>3. ASSUME NEW v \in files \ taken, chosen = taken \union {v}
      PROVE  chosen \subseteq files /\ Enough(chosen, needed)
  <2> DEFINE larger == {w \in taken : TakenBefore(w, v)} \union {v}
  <2>1. ~(SumBlocks(larger) <= needed)
    BY <1>1, <1>3 DEF FirstRound
  <2>2. chosen \in SUBSET ToSet(Vols) /\ larger \subseteq chosen
    BY <1>3
  <2> HIDE DEF larger
  <2>3. SumBlocks(larger) \in Nat /\ SumBlocks(chosen) \in Nat
        /\ SumBlocks(larger) <= SumBlocks(chosen)
    BY <2>2, SumGrows
  <2>4. SumBlocks(chosen) >= needed
    BY <2>1, <2>3
  <2> QED BY <1>3, <2>4 DEF Enough
<1> QED BY <1>1, <1>2, <1>3

\* Which files are looked at.
LEMMA CandidatesFit ==
    ASSUME NEW needed
    PROVE  /\ Candidates(needed) \subseteq Usable
           /\ Enough(SameName \intersect queue, needed) => Candidates(needed) \subseteq SameName
           /\ Enough(Candidates(needed), needed) \/ Candidates(needed) = Usable
<1> DEFINE same == queue \intersect SameName
           similar == same \union (queue \intersect SimilarName)
<1>1. CASE Enough(same, needed)
  <2>1. Candidates(needed) = same
    BY <1>1 DEF Candidates
  <2> QED BY <1>1, <2>1 DEF Usable
<1>2. CASE ~Enough(same, needed) /\ (Enough(similar, needed) \/ StrictParName)
  <2>1. Candidates(needed) = similar
    BY <1>2 DEF Candidates
  <2>2. SameName \intersect queue = same /\ (StrictParName => similar = Usable)
    BY DEF Usable
  <2>3. similar \subseteq Usable
    BY DEF Usable
  <2> QED BY <1>2, <2>1, <2>2, <2>3
<1>3. CASE ~Enough(same, needed) /\ ~(Enough(similar, needed) \/ StrictParName)
  <2>1. Candidates(needed) = queue
    BY <1>3 DEF Candidates
  <2>2. SameName \intersect queue = same /\ Usable = queue
    BY <1>3 DEF Usable
  <2> QED BY <1>3, <2>1, <2>2
<1> QED BY <1>1, <1>2, <1>3

\* A check that was refused cannot have enough until it looks again: files only leave.
RequestInv ==
    /\ missing \in Int /\ queued \subseteq ToSet(Vols)
    /\ at = "refused" => SumBlocks(Usable) < missing

\* The number of blocks is a number, and the files that have come in are par-files.
LEMMA RequestTypes ==
    ASSUME FilesInv, RequestInv, [Next]_vars
    PROVE  missing' \in Int /\ queued' \subseteq ToSet(Vols)
<1> USE DEF RequestInv
<1>1. CASE Process \/ Decide \/ RequestMorePars \/ LookAgain \/ StopWaiting \/ LoadStopped
           \/ ParCheckerUpdate
  BY <1>1 DEF Process, Decide, RequestMorePars, LookAgain, StopWaiting, LoadStopped,
              ParCheckerUpdate
<1>2. CASE LoadMorePars
  <2>1. queued \ broken \in SUBSET ToSet(Vols)
    OBVIOUS
  <2>2. SumBlocks(queued \ broken) \in Nat
    BY <2>1, SumWithFile
  <2> QED BY <1>2, <2>2 DEF LoadMorePars
<1>3. CASE Exit
  BY <1>3 DEF Exit
<1>4. ASSUME NEW v \in queue, NEW deleted \in BOOLEAN, NEW good \in BOOLEAN,
             FileLeaves(v, deleted, good)
      PROVE  missing' \in Int /\ queued' \subseteq ToSet(Vols)
  BY <1>4 DEF FileLeaves, AddPar, FilesInv
<1>5. ASSUME NEW v \in queue, PauseEntry(v)
      PROVE  missing' \in Int /\ queued' \subseteq ToSet(Vols)
  BY <1>5 DEF PauseEntry, checkerVars
<1>6. CASE QueueChanged
  BY <1>6 DEF QueueChanged
<1>7. CASE LoopTop \/ NoParJob \/ Cleanup
  BY <1>7 DEF LoopTop, NoParJob, Cleanup, checkerVars
<1>8. ASSUME NEW m \in Missing, StartParJob(m)
      PROVE  missing' \in Int /\ queued' \subseteq ToSet(Vols)
  BY <1>8, ParAssumption DEF StartParJob
<1>9. CASE Stop
  BY <1>9 DEF Stop, StopFlag, StopChecker, StopSeesExit, StopKills, checkerVars
<1>10. CASE PausePostProcess \/ UNCHANGED vars
  BY <1>10 DEF PausePostProcess, vars, checkerVars
<1> QED
  BY <1>1, <1>2, <1>3, <1>4, <1>5, <1>6, <1>7, <1>8, <1>9, <1>10
  DEF Next, Check, Files, PostProcess

\* A check is refused by a request only, and as long as it is, the number of blocks stays.
LEMMA RefusedSteps ==
    ASSUME [Next]_vars, at' = "refused"
    PROVE  RequestMorePars \/ (at = "refused" /\ missing' = missing)
<1>1. CASE Process \/ Decide \/ LookAgain \/ StopWaiting \/ LoadMorePars \/ LoadStopped
           \/ ParCheckerUpdate \/ Exit
  BY <1>1 DEF Process, Decide, LookAgain, StopWaiting, LoadMorePars, LoadStopped,
              ParCheckerUpdate, Exit, More
<1>2. CASE Files
  BY <1>2 DEF Files, FileLeaves, PauseEntry, QueueChanged, checkerVars
<1>3. CASE PostProcess
  BY <1>3 DEF PostProcess, LoopTop, NoParJob, Cleanup, StartParJob, checkerVars
<1>4. CASE Stop
  BY <1>4 DEF Stop, StopFlag, StopChecker, StopSeesExit, StopKills, checkerVars
<1>5. CASE PausePostProcess \/ UNCHANGED vars
  BY <1>5 DEF PausePostProcess, vars, checkerVars
<1> QED BY <1>1, <1>2, <1>3, <1>4, <1>5 DEF Next, Check

LEMMA RequestStep == ASSUME FilesInv, RequestInv, [Next]_vars PROVE RequestInv'
<1>1. at' = "refused" => SumBlocks(Usable') < missing'
  <2> SUFFICES ASSUME at' = "refused" PROVE SumBlocks(Usable') < missing'
    OBVIOUS
  <2>1. Usable' \subseteq Usable /\ Usable \in SUBSET ToSet(Vols)
    BY QueueShrinks DEF Usable, FilesInv
  <2>2. /\ SumBlocks(Usable') \in Nat /\ SumBlocks(Usable) \in Nat
        /\ SumBlocks(Usable') <= SumBlocks(Usable)
    BY <2>1, SumGrows
  <2>3. CASE RequestMorePars
    <3>1. ~Enough(Candidates(missing), missing) /\ missing' = missing
      BY <2>3 DEF RequestMorePars
    <3>2. ~Enough(Usable, missing)
      BY <3>1, CandidatesFit
    <3> QED BY <2>2, <3>1, <3>2 DEF Enough, RequestInv
  <2>4. CASE at = "refused" /\ missing' = missing
    BY <2>2, <2>4 DEF RequestInv
  <2> QED BY <2>3, <2>4, RefusedSteps
<1>2. SumBlocks(Usable)' = SumBlocks(Usable')
  BY DEF SumBlocks, MapThenSumSet, MapThenFoldSet, Usable
<1> QED BY <1>1, <1>2, RequestTypes DEF RequestInv

\* Requests and refusals are steps of RequestMorePars and LookAgain.
LEMMA RequestSteps ==
    ASSUME [Next]_vars
    PROVE  /\ at = "request" /\ at' = "granted" => RequestMorePars
           /\ at = "refused" /\ at' = "report" => queued = {}
<1>1. CASE Process \/ Decide \/ StopWaiting \/ LoadMorePars \/ LoadStopped
           \/ ParCheckerUpdate \/ Exit
  BY <1>1 DEF Process, Decide, StopWaiting, LoadMorePars, LoadStopped, ParCheckerUpdate, Exit
<1>2. CASE RequestMorePars
  BY <1>2 DEF RequestMorePars
<1>3. CASE LookAgain
  <2>1. queued # {} => at' = "load"
    BY <1>3 DEF LookAgain
  <2> QED BY <1>3, <2>1 DEF LookAgain
<1>4. CASE Files
  BY <1>4 DEF Files, FileLeaves, PauseEntry, QueueChanged, checkerVars
<1>5. CASE PostProcess
  BY <1>5 DEF PostProcess, LoopTop, NoParJob, Cleanup, StartParJob, checkerVars
<1>6. CASE Stop
  BY <1>6 DEF Stop, StopFlag, StopChecker, StopSeesExit, StopKills, checkerVars
<1>7. CASE PausePostProcess \/ UNCHANGED vars
  BY <1>7 DEF PausePostProcess, vars, checkerVars
<1> QED BY <1>1, <1>2, <1>3, <1>4, <1>5, <1>6, <1>7 DEF Next, Check

\* What a request that is granted asks for.
LEMMA GrantIsRight ==
    ASSUME FilesInv, RequestInv, RequestMorePars, at' = "granted"
    PROVE  /\ SumBlocks(asked') >= missing /\ asked' \subseteq Usable \ paused'
           /\ SumBlocks(SameName \intersect queue) >= missing => asked' \subseteq SameName
<1> DEFINE files == Candidates(missing)
<1>1. /\ Enough(files, missing) /\ Chosen(asked', files, missing)
      /\ paused' = paused \ asked'
  BY DEF RequestMorePars
<1>2. files \in SUBSET ToSet(Vols) /\ missing \in Int
  BY CandidatesAreQueued DEF FilesInv, RequestInv
<1>3. /\ files \subseteq Usable
      /\ Enough(SameName \intersect queue, missing) => files \subseteq SameName
  BY CandidatesFit
<1> HIDE DEF files
<1>4. asked' \subseteq files /\ Enough(asked', missing)
  BY <1>1, <1>2, ChosenIsEnough
<1> QED BY <1>1, <1>3, <1>4 DEF Enough

\* A request that is granted leaves enough blocks unpaused, and asks for files with other
\* names only if those with the right ones are not enough; a check gives up only if the
\* whole queue has not enough (PrePostProcessor::RequestMorePars, FindPars,
\* ParChecker::Run).
THEOREM RequestsAreRight == Spec => RequestIsRight
<1> DEFINE Inv == FilesInv /\ RequestInv
<1>1. Init => Inv
  <2> SUFFICES ASSUME Init PROVE RequestInv
    BY InitHolds
  <2> QED BY DEF Init, RequestInv
<1>2. Inv /\ [Next]_vars => Inv'
  BY RequestStep, QueueShrinks DEF FilesInv
<1>3. Inv /\ [Next]_vars
      => [/\ at = "request" /\ at' = "granted" =>
                 /\ SumBlocks(asked') >= missing /\ asked' \subseteq Usable \ paused'
                 /\ SumBlocks(SameName \intersect queue) >= missing => asked' \subseteq SameName
          /\ at = "refused" /\ at' = "report" =>
                 queued = {} /\ SumBlocks(Usable) < missing]_vars
  BY RequestSteps, GrantIsRight DEF RequestInv
<1> QED BY <1>1, <1>2, <1>3, PTL DEF Spec, RequestIsRight

-----------------------------------------------------------------------------
(* Stopping.                                                                *)

LEMMA StopStep == ASSUME StopEndsCheck, [Next]_vars PROVE StopEndsCheck'
<1> USE DEF StopEndsCheck, IsRunning
<1>1. CASE Check
  <2>1. at \notin {"idle", "killed"} /\ UNCHANGED <<pp, stop, escaped>>
    BY <1>1 DEF Check, Process, Decide, RequestMorePars, LookAgain, StopWaiting, LoadMorePars,
                LoadStopped, ParCheckerUpdate, Exit, history
  <2> QED BY <2>1
<1>2. CASE Files
  BY <1>2 DEF Files, FileLeaves, PauseEntry, QueueChanged, checkerVars, history
<1>3. CASE LoopTop \/ NoParJob \/ Cleanup
  BY <1>3 DEF LoopTop, NoParJob, Cleanup, checkerVars, history
<1>4. ASSUME NEW m \in Missing, StartParJob(m) PROVE StopEndsCheck'
  BY <1>4 DEF StartParJob
<1>5. CASE StopFlag \/ StopChecker \/ StopSeesExit
  BY <1>5 DEF StopFlag, StopChecker, StopSeesExit, checkerVars, history
<1>6. ASSUME NEW ended \in BOOLEAN, StopKills(ended) PROVE StopEndsCheck'
  BY <1>6 DEF StopKills
<1>7. CASE PausePostProcess \/ UNCHANGED vars
  BY <1>7 DEF PausePostProcess, vars, checkerVars, history
<1> QED BY <1>1, <1>2, <1>3, <1>4, <1>5, <1>6, <1>7 DEF Next, PostProcess, Stop

\* When Stop is done, no check runs but one that was started by a round of the loop which
\* Stop has overtaken, or that could not be killed (PrePostProcessor::Stop, Run).
THEOREM StopEndsTheCheck == Spec => []StopEndsCheck
<1>1. Init => StopEndsCheck
  BY DEF Init, StopEndsCheck, IsRunning
<1>2. StopEndsCheck /\ [Next]_vars => StopEndsCheck'
  BY StopStep
<1> QED BY <1>1, <1>2, PTL DEF Spec
=============================================================================
