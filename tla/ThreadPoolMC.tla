---------------------------- MODULE ThreadPoolMC ----------------------------
(***************************************************************************)
(* Instances of ThreadPool for TLC.                                        *)
(***************************************************************************)
EXTENDS ThreadPool, TLC

\* Events, clients and workers are interchangeable: the specification only
\* compares them for equality.  Used by the safety runs only.
Symmetric ==
    Permutations(Events) \cup Permutations(Clients) \cup Permutations(Workers)
=============================================================================
