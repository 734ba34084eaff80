------------------------------ MODULE Counting ------------------------------
(***************************************************************************)
(* Counting in queues and lists: the properties of several models say that *)
(* a counter of the code is the number of things under way.                *)
(***************************************************************************)
EXTENDS Naturals, Sequences, FiniteSets

\* How often e occurs in the sequence s.
Occurrences(e, s) == Cardinality({k \in DOMAIN s : s[k] = e})
=============================================================================
