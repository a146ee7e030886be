--------------------------- MODULE MCBrowserSession ---------------------------
(* BrowserSession for TLC: tabs are interchangeable, and so are the requests *)
(* of a tab.                                                                 *)
EXTENDS BrowserSession, TLC

TabSymmetry == Permutations(Tabs) \cup Permutations(Requests)

\* Every API request comes to an end, whatever the others of its tab and the
\* other tabs do: the shared promise of lib/api.ts is forgotten however the
\* refresh ends.  One request stands for all, as they are interchangeable.
RequestsEnd == RequestEnds(CHOOSE b \in Tabs : TRUE, CHOOSE r \in Requests : TRUE)
=============================================================================
