----------------------------- MODULE Downloads -----------------------------
(***************************************************************************)
(* What the queue may expect of an article download, whatever the servers  *)
(* answer and however often it retries: the statuses it goes through, when *)
(* it holds a connection, and how it may end.  ArticleDownloader           *)
(* implements this module; QueueCoordinator assumes no more of its         *)
(* downloaders.                                                            *)
(***************************************************************************)
CONSTANTS Downloaders,     \* ArticleDownloader objects
          ContinuePartial, \* option ContinuePartial
          DupeCheck,       \* option DupeCheck
          Watchdog         \* option TerminateTimeout is set

VARIABLES phase,           \* m_eStatus, and whether the thread still exists
          holding,         \* downloads with a connection
          halted, pause    \* what others tell the downloads: m_bStopped, PauseDownload

Init ==
    /\ phase = [d \in Downloaders |-> "none"]
    /\ holding = {}

AtWork(d) == phase[d] \in {"running", "decoding"}
Becomes(d, p) == phase' = [phase EXCEPT ![d] = p]

\* A download is born with a connection.
Create(d) ==
    /\ phase[d] = "none"
    /\ Becomes(d, "created")
    /\ holding' = holding \union {d}

Begin(d) ==
    /\ phase[d] = "created"
    /\ \/ Becomes(d, "running")
       \/ ContinuePartial /\ Becomes(d, "finished")
    /\ UNCHANGED holding

Acquire(d) ==
    /\ AtWork(d) /\ d \notin halted /\ d \notin holding
    /\ holding' = holding \union {d}
    /\ UNCHANGED phase

Release(d) ==
    /\ AtWork(d) \/ phase[d] = "leaving"
    /\ d \in holding
    /\ holding' = holding \ {d}
    /\ UNCHANGED phase

\* A whole article has been read: it is decoded without a connection.
Fetch(d) ==
    /\ AtWork(d) /\ d \in holding /\ d \notin halted
    /\ Becomes(d, "decoding")
    /\ holding' = holding \ {d}

\* No article is finished that was not decoded, unless it is a duplicate's.
Finish(d, outcome) ==
    /\ AtWork(d)
    /\ outcome = "retry" => pause
    /\ outcome = "finished" => phase[d] = "decoding" \/ DupeCheck
    /\ Becomes(d, outcome)
    /\ holding' = holding \ {d}

\* ArticleCompleted, which may join the file.
Report(d) ==
    /\ \/ phase[d] \in {"finished", "failed"} /\ Becomes(d, "joining")
       \/ phase[d] \in {"finished", "failed", "retry", "joining"} /\ Becomes(d, "leaving")
    /\ UNCHANGED holding

\* No thread leaves with a connection.
Exit(d) ==
    /\ phase[d] = "leaving" /\ d \notin holding
    /\ Becomes(d, "none")
    /\ UNCHANGED holding

\* The watchdog terminates downloads that are in status adRunning only.
Terminate(d) ==
    /\ Watchdog /\ phase[d] = "running"
    /\ Becomes(d, "none")
    /\ holding' = holding \ {d}

Next == \E d \in Downloaders :
            \/ Create(d) \/ Begin(d) \/ Acquire(d) \/ Release(d) \/ Fetch(d)
            \/ \E outcome \in {"finished", "failed", "retry"} : Finish(d, outcome)
            \/ Report(d) \/ Exit(d) \/ Terminate(d)

Spec == Init /\ [][Next]_<<phase, holding>>
=============================================================================
