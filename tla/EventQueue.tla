----------------------------- MODULE EventQueue -----------------------------
(***************************************************************************)
(* nsEventQueue (xpcom/threads/nsEventQueue.cpp and .h): the queue of      *)
(* runnables behind every nsThread, a linked list of pages of              *)
(* EVENTS_PER_PAGE slots with a read offset into the first page and a      *)
(* write offset into the last.                                             *)
(*                                                                         *)
(* A queue is a value here: its operations run under mReentrantMonitor, so *)
(* each is one step of the thread that calls it.  The list of pages is a   *)
(* sequence: mHead is its first page, or null when there is none, and      *)
(* mTail its last one.  With no page left mTail dangles, and PutEvent must *)
(* not follow it.                                                          *)
(***************************************************************************)
EXTENDS Integers, Sequences

CONSTANTS
    EVENTS_PER_PAGE,
    NoEvent                     \* an unused slot of a page, and a null event

ASSUME PageAssumption == EVENTS_PER_PAGE \in Nat \ {0}

Offsets == 0 .. EVENTS_PER_PAGE

\* Every queue that can be built from the events of a set.
Queue(Event) ==
    [pages : Seq([0 .. EVENTS_PER_PAGE - 1 -> Event \cup {NoEvent}]),
     mOffsetHead : Offsets, mOffsetTail : Offsets]

NewQueue == [pages |-> <<>>, mOffsetHead |-> 0, mOffsetTail |-> 0]

NewPage == [i \in 0 .. EVENTS_PER_PAGE - 1 |-> NoEvent]

\* Mutant: the offsets are compared although they are of different pages.
IsEmptyByOffsets(q) == q.pages = <<>> \/ q.mOffsetHead = q.mOffsetTail

IsEmpty(q) ==
    \/ q.pages = <<>>
    \/ Len(q.pages) = 1 /\ q.mOffsetHead = q.mOffsetTail

\* Must PutEvent allocate a page before it can store the event?
NeedsPage(q) == q.pages = <<>> \/ q.mOffsetTail = EVENTS_PER_PAGE

\* The queue after the allocation PutEvent makes, when it makes one.  The first
\* page of an empty list also resets the offset at which events are read.
WithRoom(q) ==
    CASE q.pages = <<>> -> [pages |-> <<NewPage>>, mOffsetHead |-> 0, mOffsetTail |-> 0]
      [] q.pages # <<>> /\ q.mOffsetTail = EVENTS_PER_PAGE ->
            [q EXCEPT !.pages = Append(@, NewPage), !.mOffsetTail = 0]
      [] OTHER -> q

PutEvent(q, event) ==
    LET room == WithRoom(q)
    IN  [room EXCEPT !.pages[Len(room.pages)][room.mOffsetTail] = event,
                     !.mOffsetTail = @ + 1]

\* The event that GetEvent returns from a queue that is not empty, and the
\* queue it leaves.  The slot that was read is blanked, for no code reads below
\* mOffsetHead; a page that has been read to its end is freed.
NextEvent(q) == q.pages[1][q.mOffsetHead]

GetEvent(q) ==
    IF q.mOffsetHead + 1 = EVENTS_PER_PAGE
    THEN [q EXCEPT !.pages = Tail(@), !.mOffsetHead = 0]
    ELSE [q EXCEPT !.pages[1][q.mOffsetHead] = NoEvent, !.mOffsetHead = @ + 1]

(***************************************************************************)
(* The abstraction: the sequence of events a queue holds.                  *)
(***************************************************************************)
Count(q) ==
    IF q.pages = <<>> THEN 0
    ELSE (Len(q.pages) - 1) * EVENTS_PER_PAGE + q.mOffsetTail - q.mOffsetHead

Contents(q) ==
    [i \in 1 .. Count(q) |->
        LET slot == q.mOffsetHead + i - 1
        IN  q.pages[1 + (slot \div EVENTS_PER_PAGE)][slot % EVENTS_PER_PAGE]]
=============================================================================
