---------------------------- MODULE EventTargets ----------------------------
(***************************************************************************)
(* What nsIEventTarget and nsIThread promise the callers of Dispatch,      *)
(* whatever the thread does: each thread takes the events it accepted one  *)
(* by one, in the order in which it accepted them, it takes every one of   *)
(* them, and it stops accepting events for good at a moment when it has    *)
(* none left.                                                              *)
(***************************************************************************)
EXTENDS Sequences

CONSTANTS Threads, Events

VARIABLES
    pending,                    \* each thread's accepted events, oldest first
    closed                      \* will each thread refuse every later event

vars == <<pending, closed>>

Init ==
    /\ pending = [t \in Threads |-> <<>>]
    /\ closed = [t \in Threads |-> FALSE]

\* (The second conjunct follows from the third: it spares TLC the search for e.)
Accept(t) ==
    /\ ~closed[t]
    /\ pending'[t] # pending[t]
    /\ \E e \in Events : pending' = [pending EXCEPT ![t] = Append(@, e)]
    /\ UNCHANGED closed

Take(t) ==
    /\ pending[t] # <<>>
    /\ pending' = [pending EXCEPT ![t] = Tail(@)]
    /\ UNCHANGED closed

Close(t) ==
    /\ pending[t] = <<>>
    /\ closed' = [closed EXCEPT ![t] = TRUE]
    /\ UNCHANGED pending

Next == \E t \in Threads : Accept(t) \/ Take(t) \/ Close(t)

Spec == Init /\ [][Next]_vars /\ \A t \in Threads : WF_vars(Take(t))
=============================================================================
