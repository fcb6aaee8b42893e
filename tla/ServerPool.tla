----------------------------- MODULE ServerPool -----------------------------
(***************************************************************************)
(* ServerPool.cpp: the connections of all news servers, shared by the      *)
(* queue coordinator and the article downloaders under m_mutexConnections. *)
(* Each operation below is one critical section of that mutex.  The        *)
(* threads are part of the model as far as the pool can see them: the      *)
(* coordinator borrows a level-0 connection and either puts it back        *)
(* untouched or hands it to a new downloader; a downloader connects,       *)
(* disconnects and gives back what it borrowed.                            *)
(***************************************************************************)
EXTENDS Naturals, Integers, Sequences, FiniteSets

CONSTANTS Downloaders,   \* the article downloader threads
          Coordinator,   \* the queue coordinator thread
          ConnLevel,     \* m_Connections: the server level of each connection
          MaxLevel,      \* m_iMaxLevel
          NoConn,        \* a NULL NNTPConnection pointer
          Hold           \* CONNECTION_HOLD_SECODNS

Conns == 1..Len(ConnLevel)
Users == Downloaders \union {Coordinator}

ASSUME ServerPoolAssumption ==
    /\ ConnLevel \in Seq(Nat)
    /\ MaxLevel \in Nat
    /\ \A c \in Conns : ConnLevel[c] <= MaxLevel
    /\ NoConn \notin Conns
    /\ Coordinator \notin Downloaders
    /\ Hold \in Nat

VARIABLES inUse,      \* PooledConnection.m_bInUse
          levels,     \* m_Levels: free connections per level
          connected,  \* the connection's status is csConnected
          idle,       \* seconds since m_tFreeTime, saturating above Hold
          conn        \* the connection pointer each thread holds

poolVars == <<inUse, levels>>
vars == <<inUse, levels, connected, idle, conn>>

\* levels without a server are legal and empty
Levels == 0..MaxLevel

FreeOn(l) == {c \in Conns : ~inUse[c] /\ ConnLevel[c] = l}
IsFirstFree(c, l) == c \in FreeOn(l) /\ \A d \in FreeOn(l) : c <= d

TypeOK ==
    /\ inUse \in [Conns -> BOOLEAN]
    /\ levels \in [Levels -> Nat]
    /\ connected \in [Conns -> BOOLEAN]
    /\ idle \in [Conns -> 0..(Hold + 1)]
    /\ conn \in [Users -> Conns \union {NoConn}]

-----------------------------------------------------------------------------
(* InitConnections: m_tFreeTime is 0, so every new connection counts as    *)
(* idle for longer than Hold.                                              *)
Init ==
    /\ inUse = [c \in Conns |-> FALSE]
    /\ levels = [l \in Levels |-> Cardinality({c \in Conns : ConnLevel[c] = l})]
    /\ connected = [c \in Conns |-> FALSE]
    /\ idle = [c \in Conns |-> Hold + 1]
    /\ conn = [u \in Users |-> NoConn]

\* A level with a positive count but without a free connection is what the
\* code logs as "internal error": the count is consumed, NULL is returned.
GetConnection(u, l) ==
    /\ conn[u] = NoConn
    /\ levels[l] > 0
    /\ levels' = [levels EXCEPT ![l] = @ - 1]
    /\ \/ \E c \in Conns :
              /\ IsFirstFree(c, l)
              /\ inUse' = [inUse EXCEPT ![c] = TRUE]
              /\ conn' = [conn EXCEPT ![u] = c]
       \/ FreeOn(l) = {} /\ UNCHANGED <<inUse, conn>>
    /\ UNCHANGED <<connected, idle>>

\* mutant: every release restarts the idle time
FreeConnectionRefreshed(c, used) ==
    /\ inUse' = [inUse EXCEPT ![c] = FALSE]
    /\ idle' = [idle EXCEPT ![c] = 0]
    /\ levels' = [levels EXCEPT ![ConnLevel[c]] = @ + 1]

\* mutant: the connection is credited to level 0 instead of its own level
FreeConnectionWrongLevel(c, used) ==
    /\ inUse' = [inUse EXCEPT ![c] = FALSE]
    /\ idle' = IF used THEN [idle EXCEPT ![c] = 0] ELSE idle
    /\ levels' = [levels EXCEPT ![0] = @ + 1]

FreeConnection(c, used) ==
    /\ inUse' = [inUse EXCEPT ![c] = FALSE]
    /\ idle' = IF used THEN [idle EXCEPT ![c] = 0] ELSE idle
    /\ levels' = [levels EXCEPT ![ConnLevel[c]] = @ + 1]

CloseUnusedConnections ==
    /\ conn[Coordinator] = NoConn     \* called by the coordinator's own loop
    /\ connected' = [c \in Conns |-> connected[c] /\ (inUse[c] \/ idle[c] <= Hold)]
    /\ UNCHANGED <<inUse, levels, idle, conn>>

-----------------------------------------------------------------------------
(* The threads, as the pool sees them.                                     *)

\* QueueCoordinator::Run: nothing to download, the connection goes back
PutBackUntouched ==
    /\ conn[Coordinator] # NoConn
    /\ FreeConnection(conn[Coordinator], FALSE)
    /\ conn' = [conn EXCEPT ![Coordinator] = NoConn]
    /\ UNCHANGED connected

\* mutant: the coordinator frees the connection it has handed over
HandOverAndFree(d) ==
    /\ conn[Coordinator] # NoConn
    /\ conn[d] = NoConn
    /\ FreeConnection(conn[Coordinator], FALSE)
    /\ conn' = [conn EXCEPT ![Coordinator] = NoConn, ![d] = conn[Coordinator]]
    /\ UNCHANGED connected

\* QueueCoordinator::StartArticleDownload: SetConnection on a new downloader
HandOver(d) ==
    /\ conn[Coordinator] # NoConn
    /\ conn[d] = NoConn
    /\ conn' = [conn EXCEPT ![Coordinator] = NoConn, ![d] = conn[Coordinator]]
    /\ UNCHANGED <<inUse, levels, connected, idle>>

Connect(d) ==
    /\ conn[d] # NoConn
    /\ connected' = [connected EXCEPT ![conn[d]] = TRUE]
    /\ UNCHANGED <<inUse, levels, idle, conn>>

\* the connection is lost, or the downloader disconnects after a connect error
Disconnect(d) ==
    /\ conn[d] # NoConn
    /\ connected' = [connected EXCEPT ![conn[d]] = FALSE]
    /\ UNCHANGED <<inUse, levels, idle, conn>>

\* mutant: m_pConnection is not reset
GiveBackDangling(d, keepConnected) ==
    /\ conn[d] # NoConn
    /\ FreeConnection(conn[d], TRUE)
    /\ connected' = IF keepConnected THEN connected
                    ELSE [connected EXCEPT ![conn[d]] = FALSE]
    /\ UNCHANGED conn

\* ArticleDownloader::FreeConnection
GiveBack(d, keepConnected) ==
    /\ conn[d] # NoConn
    /\ FreeConnection(conn[d], TRUE)
    /\ connected' = IF keepConnected THEN connected
                    ELSE [connected EXCEPT ![conn[d]] = FALSE]
    /\ conn' = [conn EXCEPT ![d] = NoConn]

\* the clock; only the difference to m_tFreeTime is ever looked at
Tick ==
    /\ idle' = [c \in Conns |-> IF idle[c] > Hold THEN idle[c] ELSE idle[c] + 1]
    /\ UNCHANGED <<inUse, levels, connected, conn>>

Next ==
    \/ GetConnection(Coordinator, 0)
    \/ PutBackUntouched
    \/ \E d \in Downloaders : HandOver(d)
    \/ \E d \in Downloaders, l \in Levels : GetConnection(d, l)
    \/ \E d \in Downloaders : Connect(d) \/ Disconnect(d)
    \/ \E d \in Downloaders, keep \in BOOLEAN : GiveBack(d, keep)
    \/ CloseUnusedConnections
    \/ Tick

Spec == Init /\ [][Next]_vars

(* The coordinator's loop never blocks on the pool and calls               *)
(* CloseUnusedConnections about once a second, between two polls: strong   *)
(* fairness, since each poll disables it for a moment.                     *)
CoordinatorReleases == PutBackUntouched \/ \E d \in Downloaders : HandOver(d)
Fairness ==
    /\ WF_vars(Tick)
    /\ WF_vars(CoordinatorReleases)
    /\ SF_vars(CloseUnusedConnections)

FairSpec == Spec /\ Fairness

-----------------------------------------------------------------------------
(* Safety: m_Levels is a second book of the m_bInUse flags, and both are a *)
(* book of who holds what.  GetConnection trusts that they agree.          *)

\* m_Levels[l] is the number of free connections of level l, so that the
\* "internal error" branch of GetConnection is never taken.
LevelsCountFreeConnections ==
    \A l \in Levels : levels[l] = Cardinality(FreeOn(l))

\* A connection is in use exactly when some thread holds it: none is lent
\* twice and none is lost.
InUseIffHeld ==
    \A c \in Conns : inUse[c] <=> \E u \in Users : conn[u] = c

\* No two threads ever hold the same connection, and so talk over each other.
ExclusiveUse ==
    \A u, v \in Users : u # v /\ conn[u] # NoConn => conn[u] # conn[v]

\* Closing idle connections never cuts a connection a downloader is working
\* with (only the downloader itself does), and never closes a free one before
\* it has been idle for longer than Hold.
ClosesOnlyIdle ==
    [][\A c \in Conns : connected[c] /\ ~connected'[c] =>
          \/ \E d \in Downloaders : conn[d] = c /\ conn'[d] # c
          \/ \E d \in Downloaders : Disconnect(d) /\ conn[d] = c
          \/ ~inUse[c] /\ idle[c] > Hold]_vars

\* The coordinator borrows and returns a connection in every round of its
\* loop.  That must not keep idle connections open: each one is closed or put
\* to use by a downloader again and again.
IdleConnectionsGetClosed ==
    \A c \in Conns : []<>(~connected[c] \/ \E d \in Downloaders : conn[d] = c)

\* The pool implements its contract.
Contract == INSTANCE ConnectionPool
ImplementsContract == Contract!Spec
=============================================================================
