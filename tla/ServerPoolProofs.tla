-------------------------- MODULE ServerPoolProofs --------------------------
(***************************************************************************)
(* Proofs about ServerPool, for any number of servers, levels, connections *)
(* and downloaders.  The counts in m_Levels and the m_bInUse flags stay    *)
(* right only together, and only because no two threads hold the same      *)
(* connection: the inductive invariant is the conjunction of the three.    *)
(***************************************************************************)
EXTENDS ServerPool, FiniteSetTheorems, TLAPS

\* The inductive invariant.
IInv == TypeOK /\ LevelsCountFreeConnections /\ InUseIffHeld /\ ExclusiveUse

-----------------------------------------------------------------------------
(* The set of free connections of a level.                                 *)

\* The free connections of a level are a finite set, whatever inUse is.
LEMMA FreeOnFinite ==
    \A l : IsFiniteSet(FreeOn(l)) /\ IsFiniteSet({c \in Conns : ConnLevel[c] = l})
<1>1. IsFiniteSet(Conns)
  BY FS_Interval, ServerPoolAssumption DEF Conns
<1>2. \A l : FreeOn(l) \subseteq Conns /\ {c \in Conns : ConnLevel[c] = l} \subseteq Conns
  BY DEF FreeOn
<1> QED BY <1>1, <1>2, FS_Subset

\* Every connection has a level of the pool.
LEMMA ConnLevelType == \A c \in Conns : ConnLevel[c] \in Levels
BY ServerPoolAssumption DEF Conns, Levels

\* Taking a free connection makes the free set of its level smaller by one and
\* leaves those of the other levels alone.
LEMMA TakeFree ==
    ASSUME TypeOK, LevelsCountFreeConnections,
           NEW c \in Conns, ~inUse[c],
           inUse' = [inUse EXCEPT ![c] = TRUE],
           levels' = [levels EXCEPT ![ConnLevel[c]] = @ - 1]
    PROVE  LevelsCountFreeConnections'
<1> SUFFICES ASSUME NEW l \in Levels
             PROVE  levels'[l] = Cardinality(FreeOn(l)')
  BY DEF LevelsCountFreeConnections
<1>1. levels[l] = Cardinality(FreeOn(l)) /\ levels[l] \in Nat
  BY DEF LevelsCountFreeConnections, TypeOK
<1>2. CASE l = ConnLevel[c]
  <2>1. FreeOn(l)' = FreeOn(l) \ {c} /\ c \in FreeOn(l)
    BY <1>2 DEF FreeOn, TypeOK
  <2>2. levels'[l] = levels[l] - 1
    BY <1>2, ConnLevelType DEF TypeOK
  <2> QED BY <1>1, <2>1, <2>2, FreeOnFinite, FS_RemoveElement
<1>3. CASE l # ConnLevel[c]
  <2>1. FreeOn(l)' = FreeOn(l)
    BY <1>3 DEF FreeOn, TypeOK
  <2>2. levels'[l] = levels[l]
    BY <1>3, ConnLevelType DEF TypeOK
  <2> QED BY <1>1, <2>1, <2>2
<1> QED BY <1>2, <1>3

\* Returning a connection that was in use credits its own level.
LEMMA ReturnFree ==
    ASSUME TypeOK, LevelsCountFreeConnections,
           NEW c \in Conns, inUse[c], NEW used \in BOOLEAN, FreeConnection(c, used)
    PROVE  LevelsCountFreeConnections'
<1> USE DEF FreeConnection
<1> SUFFICES ASSUME NEW l \in Levels
             PROVE  levels'[l] = Cardinality(FreeOn(l)')
  BY DEF LevelsCountFreeConnections
<1>1. levels[l] = Cardinality(FreeOn(l)) /\ levels[l] \in Nat
  BY DEF LevelsCountFreeConnections, TypeOK
<1>2. CASE l = ConnLevel[c]
  <2>1. FreeOn(l)' = FreeOn(l) \union {c} /\ c \notin FreeOn(l)
    BY <1>2 DEF FreeOn, TypeOK
  <2>2. levels'[l] = levels[l] + 1
    BY <1>2, ConnLevelType DEF TypeOK
  <2>3. Cardinality(FreeOn(l) \union {c}) = Cardinality(FreeOn(l)) + 1
    BY <2>1, FreeOnFinite, FS_AddElement
  <2> QED BY <1>1, <2>1, <2>2, <2>3
<1>3. CASE l # ConnLevel[c]
  <2>1. FreeOn(l)' = FreeOn(l)
    BY <1>3 DEF FreeOn, TypeOK
  <2>2. levels'[l] = levels[l]
    BY <1>3, ConnLevelType DEF TypeOK
  <2> QED BY <1>1, <2>1, <2>2
<1> QED BY <1>2, <1>3

-----------------------------------------------------------------------------
(* The type invariant.                                                     *)

\* The pool starts with every connection free.
LEMMA InitTypeOK == Init => TypeOK
<1> SUFFICES ASSUME Init PROVE TypeOK
  OBVIOUS
<1>1. ASSUME NEW l \in Levels
      PROVE  Cardinality({c \in Conns : ConnLevel[c] = l}) \in Nat
  BY FreeOnFinite, FS_CardinalityType
<1>2. levels \in [Levels -> Nat]
  BY <1>1 DEF Init
<1> QED BY <1>2, ServerPoolAssumption DEF Init, TypeOK

\* Levels stay natural numbers only because GetConnection looks at the count
\* first.
LEMMA NextTypeOK == TypeOK /\ [Next]_vars => TypeOK'
<1> SUFFICES ASSUME TypeOK, [Next]_vars PROVE TypeOK'
  OBVIOUS
<1> USE ServerPoolAssumption DEF TypeOK
<1>1. ASSUME NEW u \in Users, NEW l \in Levels, GetConnection(u, l) PROVE TypeOK'
  <2>1. levels' \in [Levels -> Nat]
    BY <1>1 DEF GetConnection
  <2>2. inUse' \in [Conns -> BOOLEAN] /\ conn' \in [Users -> Conns \union {NoConn}]
    BY <1>1 DEF GetConnection, IsFirstFree, FreeOn
  <2> QED BY <1>1, <2>1, <2>2 DEF GetConnection
<1>2. ASSUME NEW c \in Conns, NEW used \in BOOLEAN, FreeConnection(c, used)
      PROVE  /\ levels' \in [Levels -> Nat]
             /\ inUse' \in [Conns -> BOOLEAN]
             /\ idle' \in [Conns -> 0..(Hold + 1)]
  BY <1>2, ConnLevelType DEF FreeConnection
<1>3. CASE PutBackUntouched
  <2>1. conn[Coordinator] \in Conns
    BY <1>3 DEF PutBackUntouched, Users
  <2> QED BY <1>2, <1>3, <2>1 DEF PutBackUntouched
<1>4. ASSUME NEW d \in Downloaders, HandOver(d) PROVE TypeOK'
  BY <1>4 DEF HandOver, Users
<1>5. ASSUME NEW d \in Downloaders, Connect(d) \/ Disconnect(d) PROVE TypeOK'
  BY <1>5 DEF Connect, Disconnect
<1>6. ASSUME NEW d \in Downloaders, NEW keep \in BOOLEAN, GiveBack(d, keep)
      PROVE  TypeOK'
  <2>1. conn[d] \in Conns
    BY <1>6 DEF GiveBack, Users
  <2>2. connected' \in [Conns -> BOOLEAN] /\ conn' \in [Users -> Conns \union {NoConn}]
    BY <1>6 DEF GiveBack
  <2> QED BY <1>2, <1>6, <2>1, <2>2 DEF GiveBack
<1>7. CASE CloseUnusedConnections
  BY <1>7 DEF CloseUnusedConnections
<1>8. CASE Tick
  <2>1. ASSUME NEW c \in Conns
        PROVE  (IF idle[c] > Hold THEN idle[c] ELSE idle[c] + 1) \in 0..(Hold + 1)
    OBVIOUS
  <2>2. idle' \in [Conns -> 0..(Hold + 1)]
    BY <1>8, <2>1 DEF Tick
  <2> QED BY <1>8, <2>2 DEF Tick
<1>9. CASE UNCHANGED vars
  BY <1>9 DEF vars
<1>10. Coordinator \in Users /\ Downloaders \subseteq Users /\ 0 \in Levels
  BY DEF Users, Levels
<1> QED BY <1>1, <1>3, <1>4, <1>5, <1>6, <1>7, <1>8, <1>9, <1>10 DEF Next

\* Every variable of the pool keeps its type: in particular no count of free
\* connections goes below zero, however many threads compete.
THEOREM TypeCorrect == Spec => []TypeOK
BY InitTypeOK, NextTypeOK, PTL DEF Spec

-----------------------------------------------------------------------------
(* The books agree.                                                        *)

\* At the start every connection is free, counted in its level, held by nobody.
LEMMA InitIInv == Init => IInv
<1> SUFFICES ASSUME Init PROVE IInv
  OBVIOUS
<1>1. TypeOK
  BY InitTypeOK
<1>2. LevelsCountFreeConnections
  <2>1. ASSUME NEW l \in Levels
        PROVE  FreeOn(l) = {c \in Conns : ConnLevel[c] = l}
    BY DEF Init, FreeOn
  <2> QED BY <2>1 DEF Init, LevelsCountFreeConnections
<1>3. InUseIffHeld /\ ExclusiveUse
  BY ServerPoolAssumption DEF Init, InUseIffHeld, ExclusiveUse
<1> QED BY <1>1, <1>2, <1>3 DEF IInv

\* The invariant in terms of conn: a thread that borrows a connection nobody
\* holds makes it used, and it alone holds it.
LEMMA BorrowKeepsIInv ==
    ASSUME IInv, NEW u \in Users, NEW l \in Levels, GetConnection(u, l)
    PROVE  LevelsCountFreeConnections' /\ InUseIffHeld' /\ ExclusiveUse'
<1> USE ServerPoolAssumption DEF IInv, TypeOK
<1>1. FreeOn(l) # {}
  <2>1. Cardinality(FreeOn(l)) # 0
    BY DEF GetConnection, LevelsCountFreeConnections
  <2> QED BY <2>1, FS_EmptySet
<1>2. PICK c \in Conns :
          /\ IsFirstFree(c, l)
          /\ inUse' = [inUse EXCEPT ![c] = TRUE]
          /\ conn' = [conn EXCEPT ![u] = c]
          /\ levels' = [levels EXCEPT ![l] = @ - 1]
  BY <1>1 DEF GetConnection
<1>3. ~inUse[c] /\ ConnLevel[c] = l
  BY <1>2 DEF IsFirstFree, FreeOn
<1>4. \A v \in Users : conn[v] # c
  BY <1>3 DEF InUseIffHeld
<1>5. LevelsCountFreeConnections'
  BY <1>2, <1>3, TakeFree
<1>6. conn[u] = NoConn
  BY DEF GetConnection
<1>7. InUseIffHeld'
  BY <1>2, <1>4, <1>6 DEF InUseIffHeld
<1>8. ExclusiveUse'
  BY <1>2, <1>4 DEF ExclusiveUse
<1> QED BY <1>5, <1>7, <1>8

\* A thread that gives back what it holds, and forgets it, frees a connection
\* that nobody else holds.
LEMMA ReturnKeepsIInv ==
    ASSUME IInv, NEW u \in Users, NEW used \in BOOLEAN,
           conn[u] # NoConn, FreeConnection(conn[u], used),
           conn' = [conn EXCEPT ![u] = NoConn]
    PROVE  LevelsCountFreeConnections' /\ InUseIffHeld' /\ ExclusiveUse'
<1> USE ServerPoolAssumption DEF IInv, TypeOK
<1>1. PICK c \in Conns : c = conn[u]
  OBVIOUS
<1>2. inUse[c]
  BY <1>1 DEF InUseIffHeld
<1>3. FreeConnection(c, used)
  BY <1>1
<1>4. LevelsCountFreeConnections'
  BY <1>2, <1>3, ReturnFree
<1>5. \A v \in Users : v # u => conn[v] # c
  BY <1>1 DEF ExclusiveUse
<1>6. InUseIffHeld'
  BY <1>1, <1>3, <1>5 DEF InUseIffHeld, FreeConnection
<1>7. ExclusiveUse'
  BY DEF ExclusiveUse
<1> QED BY <1>4, <1>6, <1>7

\* Steps that leave the pool's own books alone.
LEMMA BooksUnchanged ==
    ASSUME LevelsCountFreeConnections, UNCHANGED poolVars
    PROVE  LevelsCountFreeConnections'
BY DEF LevelsCountFreeConnections, FreeOn, poolVars

\* Every step of the pool and its threads keeps the books in agreement.
LEMMA NextIInv == IInv /\ [Next]_vars => IInv'
<1> SUFFICES ASSUME IInv, [Next]_vars PROVE IInv'
  OBVIOUS
<1>1. TypeOK'
  BY NextTypeOK DEF IInv
<1> SUFFICES LevelsCountFreeConnections' /\ InUseIffHeld' /\ ExclusiveUse'
  BY <1>1 DEF IInv
<1>2. Coordinator \in Users /\ Downloaders \subseteq Users /\ 0 \in Levels
  BY ServerPoolAssumption DEF Users, Levels
<1>3. CASE GetConnection(Coordinator, 0)
  BY <1>2, <1>3, BorrowKeepsIInv
<1>4. CASE \E d \in Downloaders, l \in Levels : GetConnection(d, l)
  BY <1>2, <1>4, BorrowKeepsIInv
<1>5. CASE PutBackUntouched
  BY <1>2, <1>5, ReturnKeepsIInv DEF PutBackUntouched
<1>6. ASSUME NEW d \in Downloaders, HandOver(d)
      PROVE  LevelsCountFreeConnections' /\ InUseIffHeld' /\ ExclusiveUse'
  <2>1. conn' = [conn EXCEPT ![Coordinator] = NoConn, ![d] = conn[Coordinator]]
        /\ conn[d] = NoConn /\ conn[Coordinator] # NoConn /\ inUse' = inUse
    BY <1>6 DEF HandOver
  <2>2. d \in Users /\ d # Coordinator
    BY <1>2, ServerPoolAssumption
  <2>3. LevelsCountFreeConnections'
    BY <1>6, BooksUnchanged DEF IInv, HandOver, poolVars
  <2>4. InUseIffHeld'
    <3>1. ASSUME NEW c \in Conns
          PROVE  (\E u \in Users : conn'[u] = c) <=> (\E u \in Users : conn[u] = c)
      <4>1. c # NoConn /\ conn \in [Users -> Conns \union {NoConn}]
        BY ServerPoolAssumption DEF IInv, TypeOK
      <4>2. conn'[d] = conn[Coordinator] /\ conn'[Coordinator] = NoConn
            /\ \A u \in Users \ {d, Coordinator} : conn'[u] = conn[u]
        BY <1>2, <2>1, <2>2, <4>1
      <4> QED BY <1>2, <2>1, <2>2, <4>1, <4>2
    <3> QED BY <2>1, <3>1 DEF IInv, InUseIffHeld
  <2>5. ExclusiveUse'
    BY <1>2, <2>1, <2>2 DEF IInv, TypeOK, ExclusiveUse
  <2> QED BY <2>3, <2>4, <2>5
<1>7. ASSUME NEW d \in Downloaders, NEW keep \in BOOLEAN, GiveBack(d, keep)
      PROVE  LevelsCountFreeConnections' /\ InUseIffHeld' /\ ExclusiveUse'
  BY <1>2, <1>7, ReturnKeepsIInv DEF GiveBack
<1>8. ASSUME UNCHANGED <<inUse, levels, conn>>
      PROVE  LevelsCountFreeConnections' /\ InUseIffHeld' /\ ExclusiveUse'
  BY <1>8, BooksUnchanged DEF IInv, InUseIffHeld, ExclusiveUse, poolVars
<1>9. CASE \E d \in Downloaders : Connect(d) \/ Disconnect(d)
  BY <1>8, <1>9 DEF Connect, Disconnect
<1>10. CASE CloseUnusedConnections \/ Tick \/ UNCHANGED vars
  BY <1>8, <1>10 DEF CloseUnusedConnections, Tick, vars
<1> QED BY <1>3, <1>4, <1>5, <1>6, <1>7, <1>9, <1>10 DEF Next

\* The invariant holds in every reachable state.
LEMMA InvariantHolds == Spec => []IInv
BY InitIInv, NextIInv, PTL DEF Spec

\* m_Levels never disagrees with the flags: GetConnection never runs into its
\* "internal error, no free connection found" branch.
THEOREM LevelsAreRight == Spec => []LevelsCountFreeConnections
<1>1. IInv => LevelsCountFreeConnections
  BY DEF IInv
<1> QED BY <1>1, InvariantHolds, PTL

\* No connection is lost and none is marked as used by nobody.
THEOREM NoConnectionIsLost == Spec => []InUseIffHeld
<1>1. IInv => InUseIffHeld
  BY DEF IInv
<1> QED BY <1>1, InvariantHolds, PTL

\* No two threads ever hold the same connection.
THEOREM NoConnectionIsShared == Spec => []ExclusiveUse
<1>1. IInv => ExclusiveUse
  BY DEF IInv
<1> QED BY <1>1, InvariantHolds, PTL

-----------------------------------------------------------------------------
(* Closing and the contract.                                               *)

\* Closing idle connections never cuts one a downloader works with, and never
\* closes a free one early.
THEOREM OnlyIdleIsClosed == Spec => ClosesOnlyIdle
<1> DEFINE MayClose(c) ==
          \/ \E d \in Downloaders : conn[d] = c /\ conn'[d] # c
          \/ \E d \in Downloaders : Disconnect(d) /\ conn[d] = c
          \/ ~inUse[c] /\ idle[c] > Hold
           Closes == \A c \in Conns : connected[c] /\ ~connected'[c] => MayClose(c)
<1>1. TypeOK /\ [Next]_vars => [Closes]_vars
  <2> SUFFICES ASSUME TypeOK, [Next]_vars, NEW c \in Conns, connected[c], ~connected'[c]
               PROVE  MayClose(c)
    OBVIOUS
  <2> USE ServerPoolAssumption DEF TypeOK
  <2>1. ASSUME NEW d \in Downloaders, Disconnect(d) PROVE conn[d] = c
    BY <2>1 DEF Disconnect
  <2>2. ASSUME NEW d \in Downloaders, NEW keep \in BOOLEAN, GiveBack(d, keep)
        PROVE  conn[d] = c /\ conn'[d] # c
    BY <2>2 DEF GiveBack, Users
  <2>3. CASE CloseUnusedConnections
    <3>1. ~inUse[c] /\ ~(idle[c] <= Hold)
      BY <2>3 DEF CloseUnusedConnections
    <3> QED BY <3>1
  <2>4. ASSUME NEW d \in Downloaders, Connect(d) PROVE FALSE
    BY <2>4 DEF Connect
  <2>5. ASSUME UNCHANGED connected PROVE FALSE
    BY <2>5
  <2>6. CASE \E d \in Downloaders : HandOver(d)
    BY <2>5, <2>6 DEF HandOver
  <2>7. CASE \E u \in Users, l \in Levels : GetConnection(u, l)
    BY <2>5, <2>7 DEF GetConnection
  <2>8. CASE PutBackUntouched \/ Tick \/ UNCHANGED vars
    BY <2>5, <2>8 DEF PutBackUntouched, Tick, vars
  <2>9. Coordinator \in Users /\ Downloaders \subseteq Users /\ 0 \in Levels
    BY DEF Users, Levels
  <2> QED BY <2>1, <2>2, <2>3, <2>4, <2>6, <2>7, <2>8, <2>9 DEF Next
<1> QED BY <1>1, TypeCorrect, PTL DEF Spec, ClosesOnlyIdle

\* The pool with its two books implements the contract the other threads rely
\* on: lending is exclusive, and a loan ends by a return or passes on.
THEOREM PoolImplementsContract == Spec => ImplementsContract
<1>1. Init => Contract!Init
  BY DEF Init, Contract!Init
<1>2. IInv /\ [Next]_vars => [Contract!Next]_conn
  <2> SUFFICES ASSUME IInv, [Next]_vars, conn' # conn
               PROVE  Contract!Next
    OBVIOUS
  <2> USE ServerPoolAssumption DEF IInv, TypeOK
  <2>1. Coordinator \in Users /\ Downloaders \subseteq Users /\ 0 \in Levels
    BY DEF Users, Levels
  <2>2. ASSUME NEW u \in Users, NEW l \in Levels, GetConnection(u, l)
        PROVE  \E c \in Conns : Contract!Lend(u, c)
    <3>1. PICK c \in Conns : IsFirstFree(c, l) /\ conn' = [conn EXCEPT ![u] = c]
      BY <2>2 DEF GetConnection
    <3>2. c \in Contract!FreeConns
      BY <3>1 DEF IsFirstFree, FreeOn, InUseIffHeld, Contract!FreeConns, Contract!Held
    <3> QED BY <2>2, <3>1, <3>2 DEF GetConnection, Contract!Lend
  <2>3. CASE PutBackUntouched
    <3>1. Contract!Return(Coordinator)
      BY <2>3 DEF PutBackUntouched, Contract!Return
    <3> QED BY <2>1, <3>1 DEF Contract!Next
  <2>4. ASSUME NEW d \in Downloaders, HandOver(d) PROVE Contract!Pass(Coordinator, d)
    BY <2>4 DEF HandOver, Contract!Pass
  <2>5. ASSUME NEW d \in Downloaders, NEW keep \in BOOLEAN, GiveBack(d, keep)
        PROVE  Contract!Return(d)
    BY <2>5 DEF GiveBack, Contract!Return
  <2>6. ASSUME NEW d \in Downloaders, Connect(d) \/ Disconnect(d) PROVE FALSE
    BY <2>6 DEF Connect, Disconnect
  <2>7. CASE CloseUnusedConnections \/ Tick \/ UNCHANGED vars
    BY <2>7 DEF CloseUnusedConnections, Tick, vars
  <2> QED BY <2>1, <2>2, <2>3, <2>4, <2>5, <2>6, <2>7 DEF Next, Contract!Next
<1> QED BY <1>1, <1>2, InvariantHolds, PTL DEF Spec, ImplementsContract, Contract!Spec
=============================================================================
