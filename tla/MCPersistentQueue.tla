------------------------- MODULE MCPersistentQueue -------------------------
EXTENDS PersistentQueue, TLC
CONSTANTS n1, n2, u, a, b, c

\* A collection of two files that users add, and one of one file that is fetched.
TwoFiles == (n1 :> <<a, b>>) @@ (n2 :> <<c>>)
FromUrl == (n1 :> NoUrl) @@ (n2 :> u)

\* Everything is reloaded, or nothing.
AllOrNothing == {Everything, {}}
OnlyEverything == {Everything}
=============================================================================
