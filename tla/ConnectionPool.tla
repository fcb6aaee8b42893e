--------------------------- MODULE ConnectionPool ---------------------------
(***************************************************************************)
(* What the server pool promises to the threads that use it, without the   *)
(* book-keeping that keeps the promise: a connection is lent to at most    *)
(* one thread, a thread borrows at most one connection at a time, gives it *)
(* back or hands it to another thread (the coordinator to a downloader).   *)
(* ServerPool implements this module; QueueCoordinator is built on it.     *)
(***************************************************************************)
CONSTANTS Users,    \* the threads that borrow connections
          Conns,    \* the connections of all servers
          NoConn    \* a NULL NNTPConnection pointer

VARIABLE conn       \* conn[u]: the connection thread u has borrowed

Held(c) == \E u \in Users : conn[u] = c
FreeConns == {c \in Conns : ~Held(c)}

TypeOK == conn \in [Users -> Conns \union {NoConn}]

Init == conn = [u \in Users |-> NoConn]

\* GetConnection that finds a connection
Lend(u, c) ==
    /\ conn[u] = NoConn
    /\ c \in FreeConns
    /\ conn' = [conn EXCEPT ![u] = c]

\* FreeConnection by the thread that holds it (or on behalf of a killed one)
Return(u) ==
    /\ conn[u] # NoConn
    /\ conn' = [conn EXCEPT ![u] = NoConn]

\* ArticleDownloader::SetConnection: the borrower changes, the loan does not
Pass(u, v) ==
    /\ conn[u] # NoConn
    /\ conn[v] = NoConn
    /\ conn' = [conn EXCEPT ![u] = NoConn, ![v] = conn[u]]

Next == \E u \in Users :
            \/ \E c \in Conns : Lend(u, c)
            \/ Return(u)
            \/ \E v \in Users : Pass(u, v)

Spec == Init /\ [][Next]_conn
=============================================================================
