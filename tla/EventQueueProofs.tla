-------------------------- MODULE EventQueueProofs --------------------------
(***************************************************************************)
(* Proofs that the paged queue of nsEventQueue is a queue, for any size of *)
(* its pages and any number of them.                                       *)
(***************************************************************************)
EXTENDS EventQueue, SequenceTheorems, TLAPS

-----------------------------------------------------------------------------
(***************************************************************************)
(* Pages and slots.                                                        *)
(***************************************************************************)

\* A slot number is a page and an offset.
LEMMA Division ==
    ASSUME NEW E \in Nat \ {0}, NEW n \in Nat
    PROVE  /\ n \div E \in Nat
           /\ n % E \in 0 .. E - 1
           /\ n = (n \div E) * E + (n % E)
  OBVIOUS

\* An earlier page has lower slot numbers.
LEMMA LowerPage ==
    ASSUME NEW E \in Nat \ {0}, NEW a \in Nat, NEW b \in Nat, a < b
    PROVE  a * E + E <= b * E
<1>1. PICK c \in Nat : b = a + 1 + c
  <2>1. b - a - 1 \in Nat /\ b = a + 1 + (b - a - 1)
    OBVIOUS
  <2> QED
    BY <2>1
<1>2. c * E \in Nat /\ a * E \in Nat
  OBVIOUS
<1>3. b * E = a * E + E + c * E
  BY <1>1
<1> QED
  BY <1>2, <1>3

\* The page and the offset are determined by the slot number.
LEMMA SlotOf ==
    ASSUME NEW E \in Nat \ {0}, NEW a \in Nat, NEW b \in 0 .. E - 1
    PROVE  /\ a * E + b \in Nat
           /\ (a * E + b) \div E = a
           /\ (a * E + b) % E = b
<1> DEFINE n == a * E + b
           q == n \div E
           r == n % E
<1>1. n \in Nat
  OBVIOUS
<1>2. q \in Nat /\ r \in 0 .. E - 1 /\ n = q * E + r
  BY <1>1, Division
<1>3. a * E \in Nat /\ q * E \in Nat /\ a * E + b = q * E + r
  BY <1>2
<1> HIDE DEF q, r
<1>4. ~(a < q)
  BY <1>2, <1>3, LowerPage
<1>5. ~(q < a)
  BY <1>2, <1>3, LowerPage
<1>6. a = q
  BY <1>2, <1>4, <1>5
<1>7. b = r
  BY <1>2, <1>3, <1>6
<1> QED
  BY <1>1, <1>6, <1>7 DEF q, r

-----------------------------------------------------------------------------
(***************************************************************************)
(* Well-formed queues.                                                     *)
(***************************************************************************)
Page(S) == [0 .. EVENTS_PER_PAGE - 1 -> S \cup {NoEvent}]

\* The slots of all pages, numbered from 0.
Slot(pages, k) == pages[1 + (k \div EVENTS_PER_PAGE)][k % EVENTS_PER_PAGE]

\* The number of the slot that the next event goes to, unless it needs a page.
End(q) == (Len(q.pages) - 1) * EVENTS_PER_PAGE + q.mOffsetTail

\* A queue of elements of S as the operations leave it: the first page has not been
\* read to its end, the last one is not unused, and between the two offsets there are
\* events.
WellFormed(q, S) ==
    /\ q \in Queue(S)
    /\ q.pages # <<>> =>
          /\ q.mOffsetHead < EVENTS_PER_PAGE
          /\ q.mOffsetTail > 0
          /\ q.mOffsetHead <= End(q)
          /\ \A k \in q.mOffsetHead .. End(q) - 1 : Slot(q.pages, k) \in S

\* The parts of a queue.
LEMMA QueueParts ==
    ASSUME NEW S, NEW q \in Queue(S)
    PROVE  /\ q.pages \in Seq(Page(S)) /\ Len(q.pages) \in Nat
           /\ q.mOffsetHead \in 0 .. EVENTS_PER_PAGE /\ q.mOffsetTail \in 0 .. EVENTS_PER_PAGE
           /\ q.mOffsetHead \in Nat /\ q.mOffsetTail \in Nat
           /\ EVENTS_PER_PAGE \in Nat \ {0}
           /\ q.pages # <<>> =>
                 /\ Len(q.pages) - 1 \in Nat /\ End(q) \in Nat
                 /\ Count(q) = End(q) - q.mOffsetHead
           /\ q.pages = <<>> => Count(q) = 0
<1>1. /\ q.pages \in Seq(Page(S))
      /\ q.mOffsetHead \in 0 .. EVENTS_PER_PAGE /\ q.mOffsetTail \in 0 .. EVENTS_PER_PAGE
  BY DEF Queue, Page, Offsets
<1>2. EVENTS_PER_PAGE \in Nat \ {0}
  BY PageAssumption
<1>3. Len(q.pages) \in Nat /\ (q.pages # <<>> => Len(q.pages) - 1 \in Nat)
  <2>1. Len(q.pages) \in Nat
    BY <1>1, LenProperties
  <2>2. q.pages # <<>> => Len(q.pages) \in Nat \ {0}
    BY <1>1, EmptySeq
  <2> QED
    BY <2>1, <2>2
<1>4. q.mOffsetHead \in Nat /\ q.mOffsetTail \in Nat
  BY <1>1, <1>2
<1>5. ASSUME NEW a \in Nat, NEW b \in Nat
      PROVE  a * EVENTS_PER_PAGE + b \in Nat
  BY <1>2
<1>6. q.pages # <<>> => End(q) \in Nat
  BY <1>3, <1>4, <1>5 DEF End
<1>7. q.pages # <<>> => Count(q) = End(q) - q.mOffsetHead
  BY <1>2, <1>3, <1>4 DEF Count, End
<1>8. q.pages = <<>> => Count(q) = 0
  BY DEF Count
<1> QED
  BY <1>1, <1>2, <1>3, <1>4, <1>6, <1>7, <1>8

\* The contents of a well-formed queue are a sequence of events, read from the slots.
LEMMA ContentsType ==
    ASSUME NEW S, NEW q, WellFormed(q, S)
    PROVE  /\ Contents(q) \in Seq(S)
           /\ Count(q) \in Nat /\ Len(Contents(q)) = Count(q)
           /\ DOMAIN Contents(q) = 1 .. Count(q)
           /\ \A i \in 1 .. Count(q) : Contents(q)[i] = Slot(q.pages, q.mOffsetHead + i - 1)
<1>1. q \in Queue(S)
  BY DEF WellFormed
<1>2. Count(q) \in Nat
  <2>1. CASE q.pages = <<>>
    BY <1>1, <2>1, QueueParts
  <2>2. CASE q.pages # <<>>
    <3>1. Count(q) = End(q) - q.mOffsetHead /\ End(q) \in Nat /\ q.mOffsetHead \in Nat
      BY <1>1, <2>2, QueueParts
    <3>2. q.mOffsetHead <= End(q)
      BY <2>2 DEF WellFormed
    <3> QED
      BY <3>1, <3>2
  <2> QED
    BY <2>1, <2>2
<1>3. Contents(q) = [i \in 1 .. Count(q) |-> Slot(q.pages, q.mOffsetHead + i - 1)]
  BY DEF Contents, Slot
<1>4. ASSUME NEW i \in 1 .. Count(q)
      PROVE  Slot(q.pages, q.mOffsetHead + i - 1) \in S
  <2>1. q.pages # <<>>
    BY <1>1, <1>4, QueueParts
  <2>2. Count(q) = End(q) - q.mOffsetHead /\ End(q) \in Nat /\ q.mOffsetHead \in Nat
    BY <1>1, <2>1, QueueParts
  <2>3. q.mOffsetHead + i - 1 \in q.mOffsetHead .. End(q) - 1
    BY <2>2
  <2> QED
    BY <2>1, <2>3 DEF WellFormed
<1>5. Contents(q) \in [1 .. Count(q) -> S]
  BY <1>3, <1>4
<1>6. Contents(q) \in Seq(S)
  BY <1>2, <1>5, SeqDef
<1>7. DOMAIN Contents(q) = 1 .. Count(q)
  BY <1>3
<1>8. Len(Contents(q)) = Count(q)
  BY <1>2, <1>6, <1>7, LenProperties
<1> QED
  BY <1>2, <1>3, <1>6, <1>7, <1>8

\* IsEmpty says whether anything is in the queue, though it looks at the offsets only.
THEOREM EmptyMeansEmpty ==
    ASSUME NEW S, NEW q, WellFormed(q, S)
    PROVE  IsEmpty(q) <=> Contents(q) = <<>>
<1>1. q \in Queue(S)
  BY DEF WellFormed
<1>2. Contents(q) \in Seq(S) /\ Count(q) \in Nat /\ Len(Contents(q)) = Count(q)
  BY ContentsType
<1>3. Contents(q) = <<>> <=> Count(q) = 0
  BY <1>2, EmptySeq
<1>4. CASE q.pages = <<>>
  BY <1>1, <1>3, <1>4, QueueParts DEF IsEmpty
<1>5. CASE q.pages # <<>>
  <2> DEFINE n == Len(q.pages) - 1
  <2>1. /\ n \in Nat /\ End(q) \in Nat /\ Count(q) = End(q) - q.mOffsetHead
        /\ q.mOffsetHead \in Nat /\ q.mOffsetTail \in Nat /\ Len(q.pages) \in Nat
        /\ EVENTS_PER_PAGE \in Nat \ {0}
    BY <1>1, <1>5, QueueParts
  <2>2. /\ q.mOffsetHead < EVENTS_PER_PAGE /\ q.mOffsetTail > 0
    BY <1>5 DEF WellFormed
  <2>3. End(q) = n * EVENTS_PER_PAGE + q.mOffsetTail
    BY DEF End
  <2>4. Len(q.pages) = n + 1
    BY <2>1
  <2> HIDE DEF n
  <2>5. CASE n = 0
    <3>1. End(q) = q.mOffsetTail
      BY <2>1, <2>3, <2>5
    <3>2. Len(q.pages) = 1
      BY <2>4, <2>5
    <3> QED
      BY <1>3, <1>5, <2>1, <3>1, <3>2 DEF IsEmpty
  <2>6. CASE n # 0
    <3>1. EVENTS_PER_PAGE <= n * EVENTS_PER_PAGE
      <4>1. 0 * EVENTS_PER_PAGE + EVENTS_PER_PAGE <= n * EVENTS_PER_PAGE
        BY <2>1, <2>6, LowerPage
      <4> QED
        BY <2>1, <4>1
    <3>2. n * EVENTS_PER_PAGE \in Nat
      BY <2>1
    <3>3. Count(q) # 0
      BY <2>1, <2>2, <2>3, <3>1, <3>2
    <3>4. Len(q.pages) # 1
      BY <2>1, <2>4, <2>6
    <3> QED
      BY <1>3, <1>5, <3>3, <3>4 DEF IsEmpty
  <2> QED
    BY <2>5, <2>6
<1> QED
  BY <1>4, <1>5

\* The page of a slot is among the first n pages if its number is.
LEMMA PageOf ==
    ASSUME NEW k \in Nat, NEW n \in Nat, k < n * EVENTS_PER_PAGE
    PROVE  k \div EVENTS_PER_PAGE < n /\ k \div EVENTS_PER_PAGE \in Nat
<1> DEFINE E == EVENTS_PER_PAGE
           p == k \div E
<1>1. E \in Nat \ {0}
  BY PageAssumption
<1>2. p \in Nat /\ k % E \in 0 .. E - 1 /\ k = p * E + (k % E)
  BY <1>1, Division
<1> HIDE DEF p
<1>3. p * E \in Nat /\ n * E \in Nat
  BY <1>1, <1>2
<1>4. n < p => n * E + E <= p * E
  BY <1>1, <1>2, LowerPage
<1>5. n # p
  BY <1>1, <1>2, <1>3
<1>6. ~(n < p)
  BY <1>1, <1>2, <1>3, <1>4
<1> QED
  BY <1>2, <1>5, <1>6 DEF p

\* The pages with e in the slot at offset o of page n, pages counted from 0.
Written(pages, n, o, e) == [pages EXCEPT ![n + 1] = [pages[n + 1] EXCEPT ![o] = e]]

\* What GetEvent and PutEvent write: one slot.
LEMMA SlotWritten ==
    ASSUME NEW S, NEW pages \in Seq(Page(S)), NEW n \in Nat, NEW o \in 0 .. EVENTS_PER_PAGE - 1,
           n < Len(pages), NEW e \in S \cup {NoEvent},
           NEW written, written = Written(pages, n, o, e)
    PROVE  /\ written \in Seq(Page(S)) /\ Len(written) = Len(pages)
           /\ Slot(written, n * EVENTS_PER_PAGE + o) = e
           /\ \A k \in Nat :
                 k < Len(pages) * EVENTS_PER_PAGE /\ k # n * EVENTS_PER_PAGE + o
                    => Slot(written, k) = Slot(pages, k)
<1> DEFINE E == EVENTS_PER_PAGE
           page == [pages[n + 1] EXCEPT ![o] = e]
<1>1. E \in Nat \ {0} /\ Len(pages) \in Nat /\ n + 1 \in 1 .. Len(pages)
  BY PageAssumption, LenProperties
<1>2. written = [pages EXCEPT ![n + 1] = page]
  BY DEF Written
<1>3. pages[n + 1] \in Page(S)
  BY <1>1, ElementOfSeq
<1>4. page \in Page(S) /\ page[o] = e /\ \A x \in 0 .. E - 1 : x # o => page[x] = pages[n + 1][x]
  BY <1>3 DEF Page
<1> HIDE DEF page
<1>5. /\ written \in Seq(Page(S)) /\ Len(written) = Len(pages)
      /\ \A j \in 1 .. Len(pages) : written[j] = IF j = n + 1 THEN page ELSE pages[j]
  BY <1>1, <1>2, <1>4, ExceptSeq
<1>6. Slot(written, n * E + o) = e
  <2>1. (n * E + o) \div E = n /\ (n * E + o) % E = o
    BY <1>1, SlotOf
  <2>2. written[1 + n][o] = e
    <3>1. 1 + n = n + 1
      OBVIOUS
    <3>2. written[n + 1] = page
      BY <1>1, <1>5
    <3> QED
      BY <1>4, <3>1, <3>2, Zenon
  <2> QED
    BY <2>1, <2>2 DEF Slot
<1>7. ASSUME NEW k \in Nat, k < Len(pages) * E, k # n * E + o
      PROVE  Slot(written, k) = Slot(pages, k)
  <2> DEFINE p == k \div E
             r == k % E
  <2>1. p \in Nat /\ r \in 0 .. E - 1 /\ k = p * E + r
    BY <1>1, Division
  <2>2. p < Len(pages)
    BY <1>1, <1>7, PageOf
  <2>3. Slot(written, k) = written[1 + p][r] /\ Slot(pages, k) = pages[1 + p][r]
    BY DEF Slot
  <2> HIDE DEF p, r
  <2>4. p # n \/ r # o
    BY <1>7, <2>1
  <2>5. 1 + p \in 1 .. Len(pages)
    BY <1>1, <2>1, <2>2
  <2>6. CASE p # n
    <3>1. 1 + p # n + 1
      BY <2>1, <2>6
    <3> QED
      BY <1>5, <2>3, <2>5, <3>1
  <2>7. CASE p = n /\ r # o
    <3>1. written[1 + p] = page /\ pages[1 + p] = pages[n + 1]
      BY <1>5, <2>5, <2>7
    <3> QED
      BY <1>4, <2>1, <2>3, <2>7, <3>1
  <2> QED
    BY <2>4, <2>6, <2>7
<1> QED
  BY <1>2, <1>5, <1>6, <1>7

\* Making room changes nothing but the offset of the end, if that.
LEMMA RoomIsMade ==
    ASSUME NEW S, NEW q, WellFormed(q, S)
    PROVE  LET r == WithRoom(q)
           IN  /\ r \in Queue(S) /\ r.pages # <<>>
               /\ r.mOffsetTail < EVENTS_PER_PAGE /\ r.mOffsetHead < EVENTS_PER_PAGE
               /\ Count(r) = Count(q)
               /\ \A i \in 1 .. Count(q) :
                     Slot(r.pages, r.mOffsetHead + i - 1) = Contents(q)[i]
<1> DEFINE E == EVENTS_PER_PAGE
           r == WithRoom(q)
<1>1. q \in Queue(S)
  BY DEF WellFormed
<1>2. /\ E \in Nat \ {0} /\ q.pages \in Seq(Page(S)) /\ Len(q.pages) \in Nat
      /\ q.mOffsetHead \in 0 .. E /\ q.mOffsetTail \in 0 .. E
  BY <1>1, QueueParts
<1>3. /\ Count(q) \in Nat
      /\ \A i \in 1 .. Count(q) : Contents(q)[i] = Slot(q.pages, q.mOffsetHead + i - 1)
  BY ContentsType
<1>4. NewPage \in Page(S)
  BY DEF NewPage, Page
<1>5. CASE q.pages = <<>>
  <2>1. r = [pages |-> <<NewPage>>, mOffsetHead |-> 0, mOffsetTail |-> 0]
    BY <1>5 DEF WithRoom
  <2>2. <<NewPage>> \in Seq(Page(S)) /\ Len(<<NewPage>>) = 1 /\ <<NewPage>> # <<>>
    BY <1>4
  <2>3. r \in Queue(S)
    BY <1>2, <2>1, <2>2 DEF Queue, Page, Offsets
  <2>4. Count(r) = 0
    <3>1. Count(r) = (1 - 1) * E + 0 - 0
      BY <2>1, <2>2 DEF Count
    <3> QED
      BY <1>2, <3>1
  <2>5. Count(q) = 0
    BY <1>1, <1>5, QueueParts
  <2> QED
    BY <1>2, <2>1, <2>2, <2>3, <2>4, <2>5
<1>6. CASE q.pages # <<>> /\ q.mOffsetTail = E
  <2> DEFINE pages == Append(q.pages, NewPage)
  <2>1. r = [pages |-> pages, mOffsetHead |-> q.mOffsetHead, mOffsetTail |-> 0]
    BY <1>1, <1>6 DEF WithRoom, Queue
  <2>2. /\ pages \in Seq(Page(S)) /\ Len(pages) = Len(q.pages) + 1 /\ pages # <<>>
        /\ \A j \in 1 .. Len(q.pages) : pages[j] = q.pages[j]
    BY <1>2, <1>4, AppendProperties
  <2> HIDE DEF pages
  <2>3. r \in Queue(S)
    BY <1>2, <2>1, <2>2 DEF Queue, Page, Offsets
  <2>4. q.mOffsetHead < E
    BY <1>6 DEF WellFormed
  <2>5. Len(q.pages) - 1 \in Nat
    BY <1>1, <1>6, QueueParts
  <2>6. PICK n \in Nat : Len(q.pages) = n + 1
    <3>1. Len(q.pages) = (Len(q.pages) - 1) + 1
      BY <1>2
    <3> QED
      BY <2>5, <3>1
  <2>7. Count(q) = n * E + E - q.mOffsetHead
    <3>1. Count(q) = (n + 1 - 1) * E + E - q.mOffsetHead
      BY <1>6, <2>6 DEF Count
    <3> QED
      BY <1>2, <3>1
  <2>8. Count(r) = (n + 1) * E - q.mOffsetHead
    <3>1. Count(r) = (n + 1 + 1 - 1) * E + 0 - q.mOffsetHead
      BY <2>1, <2>2, <2>6 DEF Count
    <3> QED
      BY <1>2, <3>1
  <2>9. (n + 1) * E = n * E + E /\ n * E \in Nat
    BY <1>2
  <2>10. Count(r) = Count(q)
    BY <1>2, <2>7, <2>8, <2>9
  <2>11. ASSUME NEW i \in 1 .. Count(q)
         PROVE  Slot(pages, q.mOffsetHead + i - 1) = Slot(q.pages, q.mOffsetHead + i - 1)
    <3> DEFINE k == q.mOffsetHead + i - 1
    <3>1. k \in Nat /\ k < Len(q.pages) * E
      BY <1>2, <1>3, <2>6, <2>7, <2>9
    <3> HIDE DEF k
    <3>2. k \div E < Len(q.pages) /\ k \div E \in Nat
      BY <1>2, <3>1, PageOf
    <3>3. 1 + (k \div E) \in 1 .. Len(q.pages)
      BY <1>2, <3>2
    <3>4. Slot(pages, k) = Slot(q.pages, k)
      BY <2>2, <3>3 DEF Slot
    <3> QED
      BY <3>4 DEF k
  <2> QED
    BY <1>2, <1>3, <2>1, <2>2, <2>3, <2>4, <2>10, <2>11
<1>7. CASE q.pages # <<>> /\ q.mOffsetTail # E
  <2>1. r = q
    BY <1>7 DEF WithRoom
  <2>2. q.mOffsetHead < E
    BY <1>7 DEF WellFormed
  <2>3. q.mOffsetTail < E
    BY <1>2, <1>7
  <2> QED
    BY <1>1, <1>3, <1>7, <2>1, <2>2, <2>3
<1> QED
  BY <1>5, <1>6, <1>7


\* PutEvent appends, whether or not it needs a page.
THEOREM PutAppends ==
    ASSUME NEW S, NEW q, WellFormed(q, S), NEW e \in S
    PROVE  /\ WellFormed(PutEvent(q, e), S)
           /\ Contents(PutEvent(q, e)) = Append(Contents(q), e)
<1> DEFINE E == EVENTS_PER_PAGE
           r == WithRoom(q)
           n == Len(r.pages) - 1
           pages == Written(r.pages, n, r.mOffsetTail, e)
           p == PutEvent(q, e)
<1>1. /\ r \in Queue(S) /\ r.pages # <<>>
      /\ r.mOffsetTail < E /\ r.mOffsetHead < E
      /\ Count(r) = Count(q)
      /\ \A i \in 1 .. Count(q) : Slot(r.pages, r.mOffsetHead + i - 1) = Contents(q)[i]
  BY RoomIsMade
<1>2. Contents(q) \in Seq(S) /\ Count(q) \in Nat /\ Len(Contents(q)) = Count(q)
  BY ContentsType
<1>3. p = [r EXCEPT !.pages[Len(r.pages)][r.mOffsetTail] = e, !.mOffsetTail = @ + 1]
  BY DEF PutEvent
<1> HIDE DEF r
<1>4. /\ E \in Nat \ {0} /\ r.pages \in Seq(Page(S)) /\ Len(r.pages) \in Nat
      /\ r.mOffsetHead \in Nat /\ r.mOffsetTail \in Nat /\ r.mOffsetHead \in 0 .. E
      /\ r.mOffsetTail \in 0 .. E
      /\ n \in Nat /\ End(r) \in Nat /\ Count(r) = End(r) - r.mOffsetHead
  BY <1>1, QueueParts
<1>5. n + 1 = Len(r.pages) /\ n < Len(r.pages)
  BY <1>4
<1>6. p = [pages |-> pages, mOffsetHead |-> r.mOffsetHead, mOffsetTail |-> r.mOffsetTail + 1]
  BY <1>1, <1>3, <1>5 DEF Queue, Written
<1>7. End(r) = n * E + r.mOffsetTail
  BY DEF End
<1> HIDE DEF p, n
<1>8. /\ pages \in Seq(Page(S)) /\ Len(pages) = Len(r.pages)
      /\ Slot(pages, n * E + r.mOffsetTail) = e
      /\ \A k \in Nat : k < Len(r.pages) * E /\ k # n * E + r.mOffsetTail
                           => Slot(pages, k) = Slot(r.pages, k)
  <2> DEFINE old == r.pages
             o   == r.mOffsetTail
  <2>1. o \in 0 .. EVENTS_PER_PAGE - 1 /\ e \in S \cup {NoEvent}
    BY <1>1, <1>4
  <2>2. old \in Seq(Page(S)) /\ n \in Nat /\ n < Len(old) /\ pages = Written(old, n, o, e)
    BY <1>4, <1>5
  <2> HIDE DEF old, o, pages
  <2>3. /\ pages \in Seq(Page(S)) /\ Len(pages) = Len(old)
        /\ Slot(pages, n * EVENTS_PER_PAGE + o) = e
        /\ \A k \in Nat :
              k < Len(old) * EVENTS_PER_PAGE /\ k # n * EVENTS_PER_PAGE + o
                 => Slot(pages, k) = Slot(old, k)
    BY <2>1, <2>2, SlotWritten
  <2> QED
    BY <2>3 DEF old, o
<1> HIDE DEF pages
<1>9. pages # <<>>
  <2>1. Len(pages) # 0
    BY <1>4, <1>5, <1>8
  <2> QED
    BY <2>1, EmptySeq
<1>10. /\ p \in Queue(S)
       /\ p.pages = pages /\ p.mOffsetHead = r.mOffsetHead /\ p.mOffsetTail = r.mOffsetTail + 1
  BY <1>1, <1>4, <1>6, <1>8 DEF Queue, Page, Offsets
<1>11. End(p) = End(r) + 1
  <2>1. End(p) = (Len(r.pages) - 1) * E + (r.mOffsetTail + 1)
    BY <1>8, <1>10 DEF End
  <2>2. End(r) = (Len(r.pages) - 1) * E + r.mOffsetTail
    BY DEF End
  <2> QED
    BY <1>4, <2>1, <2>2
<1>12. Count(p) = Count(q) + 1
  <2>1. Count(p) = End(p) - r.mOffsetHead
    BY <1>9, <1>10, QueueParts
  <2>2. Count(q) = End(r) - r.mOffsetHead
    BY <1>1, <1>4
  <2>3. End(r) \in Nat /\ r.mOffsetHead \in Nat
    BY <1>4
  <2> QED
    BY <1>11, <2>1, <2>2, <2>3
<1>13. ASSUME NEW i \in 1 .. Count(p)
       PROVE  Slot(pages, r.mOffsetHead + i - 1) = Append(Contents(q), e)[i]
  <2>1. CASE i \in 1 .. Count(q)
    <3> DEFINE k == r.mOffsetHead + i - 1
    <3>1. k \in Nat /\ k < End(r)
      BY <1>1, <1>2, <1>4, <2>1
    <3>2. k < Len(r.pages) * E
      <4>1. Len(r.pages) * E = n * E + E /\ n * E \in Nat
        BY <1>4, <1>5
      <4> QED
        BY <1>1, <1>4, <1>7, <3>1, <4>1
    <3> HIDE DEF k
    <3>3. Slot(pages, k) = Slot(r.pages, k)
      BY <1>7, <1>8, <1>4, <3>1, <3>2
    <3>4. Append(Contents(q), e)[i] = Contents(q)[i]
      BY <1>2, <2>1, AppendProperties
    <3> QED
      BY <1>1, <2>1, <3>3, <3>4 DEF k
  <2>2. CASE i = Count(q) + 1
    <3>1. r.mOffsetHead + i - 1 = n * E + r.mOffsetTail
      <4>1. Count(q) = End(r) - r.mOffsetHead /\ End(r) \in Nat /\ r.mOffsetHead \in Nat
        BY <1>1, <1>4
      <4>2. r.mOffsetHead + i - 1 = End(r)
        BY <2>2, <4>1
      <4> QED
        BY <1>7, <4>2
    <3>2. Append(Contents(q), e)[i] = e
      BY <1>2, <2>2, AppendProperties
    <3> QED
      BY <1>8, <3>1, <3>2
  <2> QED
    BY <1>2, <1>12, <2>1, <2>2
<1>14. /\ Append(Contents(q), e) \in Seq(S) /\ Len(Append(Contents(q), e)) = Count(p)
  BY <1>2, <1>12, AppendProperties
<1>15. WellFormed(p, S)
  <2>1. p.mOffsetHead < E /\ p.mOffsetTail > 0 /\ p.mOffsetHead <= End(p)
    BY <1>1, <1>2, <1>4, <1>10, <1>11
  <2>2. ASSUME NEW k \in p.mOffsetHead .. End(p) - 1
        PROVE  Slot(p.pages, k) \in S
    <3> DEFINE i == k - r.mOffsetHead + 1
    <3>1. i \in 1 .. Count(p) /\ k = r.mOffsetHead + i - 1
      <4>1. Count(q) = End(r) - r.mOffsetHead /\ End(r) \in Nat /\ r.mOffsetHead \in Nat
        BY <1>1, <1>4
      <4>2. k \in r.mOffsetHead .. End(r)
        BY <1>10, <1>11, <4>1
      <4> QED
        BY <1>2, <1>12, <4>1, <4>2
    <3> HIDE DEF i
    <3>2. Slot(pages, k) = Append(Contents(q), e)[i]
      BY <1>13, <3>1
    <3>3. Append(Contents(q), e)[i] \in S
      BY <1>14, <3>1, ElementOfSeq
    <3> QED
      BY <1>10, <3>2, <3>3
  <2> QED
    BY <1>10, <2>1, <2>2 DEF WellFormed
<1>16. Contents(p) = Append(Contents(q), e)
  <2>1. /\ Contents(p) \in Seq(S) /\ Len(Contents(p)) = Count(p)
        /\ \A i \in 1 .. Count(p) : Contents(p)[i] = Slot(pages, r.mOffsetHead + i - 1)
    BY <1>10, <1>15, ContentsType
  <2> QED
    BY <1>13, <1>14, <2>1, SeqEqual
<1> QED
  BY <1>15, <1>16 DEF p


\* A queue just made holds nothing.
LEMMA NewIsEmpty ==
    ASSUME NEW S
    PROVE  WellFormed(NewQueue, S) /\ Contents(NewQueue) = <<>>
<1>1. NewQueue \in Queue(S) /\ NewQueue.pages = <<>>
  BY PageAssumption DEF NewQueue, Queue, Offsets
<1>2. WellFormed(NewQueue, S)
  BY <1>1 DEF WellFormed
<1>3. IsEmpty(NewQueue)
  BY <1>1 DEF IsEmpty
<1> QED
  BY <1>2, <1>3, EmptyMeansEmpty

\* Without the first page, every slot is a page earlier.
LEMMA SlotShifted ==
    ASSUME NEW S, NEW pages \in Seq(Page(S)), pages # <<>>, NEW n \in Nat, Len(pages) = n + 1,
           NEW k \in Nat, k < n * EVENTS_PER_PAGE
    PROVE  Slot(Tail(pages), k) = Slot(pages, EVENTS_PER_PAGE + k)
<1> DEFINE E == EVENTS_PER_PAGE
           p == k \div E
           o == k % E
           rest == Tail(pages)
<1>1. E \in Nat \ {0}
  BY PageAssumption
<1>2. p \in Nat /\ o \in 0 .. E - 1 /\ k = p * E + o
  BY <1>1, Division
<1>3. p < n
  BY PageOf
<1>4. /\ Len(rest) = Len(pages) - 1
      /\ \A j \in 1 .. Len(rest) : rest[j] = pages[j + 1]
  BY HeadTailProperties
<1>5. Slot(rest, k) = rest[1 + p][o]
  BY DEF Slot
<1> HIDE DEF p, o, rest
<1>6. (p + 1) * E = p * E + E /\ p * E \in Nat
  BY <1>1, <1>2
<1>7. E + k = (p + 1) * E + o
  BY <1>1, <1>2, <1>6
<1>8. (E + k) \div E = p + 1 /\ (E + k) % E = o
  <2>1. p + 1 \in Nat
    BY <1>2
  <2> QED
    BY <1>1, <1>2, <1>7, <2>1, SlotOf
<1>9. Slot(pages, E + k) = pages[1 + (p + 1)][o]
  BY <1>8 DEF Slot
<1>10. rest[1 + p] = pages[1 + (p + 1)]
  <2>1. 1 + p \in 1 .. Len(rest) /\ 1 + (p + 1) = (1 + p) + 1
    BY <1>2, <1>3, <1>4
  <2> QED
    BY <1>4, <2>1
<1> QED
  BY <1>5, <1>9, <1>10 DEF rest

\* The slots from a to b, numbered from 1.
LEMMA Renumbered ==
    ASSUME NEW a \in Nat, NEW b \in Nat, NEW k \in a .. b - 1
    PROVE  k - a + 1 \in 1 .. b - a /\ k = a + (k - a + 1) - 1
  OBVIOUS

\* Removing the event at the head of a queue, given what it does to the slots.
LEMMA TakenIsTail ==
    ASSUME NEW S, NEW q, WellFormed(q, S), q.pages # <<>>, NEW g, g \in Queue(S),
           g.pages # <<>> => /\ g.mOffsetHead < EVENTS_PER_PAGE
                             /\ g.mOffsetTail > 0,
           Count(q) # 0, Count(g) = Count(q) - 1,
           \A i \in 1 .. Count(g) :
              Slot(g.pages, g.mOffsetHead + i - 1) = Slot(q.pages, q.mOffsetHead + (i + 1) - 1)
    PROVE  WellFormed(g, S) /\ Contents(g) = Tail(Contents(q))
<1> DEFINE c == Contents(q)
<1>1. /\ c \in Seq(S) /\ Count(q) \in Nat /\ Len(c) = Count(q)
      /\ \A i \in 1 .. Count(q) : c[i] = Slot(q.pages, q.mOffsetHead + i - 1)
  BY ContentsType
<1>2. c # <<>>
  BY <1>1, EmptySeq
<1> HIDE DEF c
<1>3. /\ Tail(c) \in Seq(S) /\ Len(Tail(c)) = Count(g)
      /\ \A i \in 1 .. Len(Tail(c)) : Tail(c)[i] = c[i + 1]
  BY <1>1, <1>2, HeadTailProperties
<1>4. Count(g) \in Nat
  BY <1>1
<1>5. ASSUME NEW i \in 1 .. Count(g)
      PROVE  Slot(g.pages, g.mOffsetHead + i - 1) = Tail(c)[i]
  <2>1. i + 1 \in 1 .. Count(q)
    BY <1>1, <1>4
  <2>2. c[i + 1] = Slot(q.pages, q.mOffsetHead + (i + 1) - 1)
    BY <1>1, <2>1
  <2>3. Tail(c)[i] = c[i + 1]
    BY <1>3
  <2>4. Slot(g.pages, g.mOffsetHead + i - 1) = Slot(q.pages, q.mOffsetHead + (i + 1) - 1)
    OBVIOUS
  <2> QED
    BY <2>2, <2>3, <2>4
<1>6. ASSUME g.pages # <<>>
      PROVE  /\ g.mOffsetHead <= End(g)
             /\ \A k \in g.mOffsetHead .. End(g) - 1 : Slot(g.pages, k) \in S
  <2>1. Count(g) = End(g) - g.mOffsetHead /\ End(g) \in Nat /\ g.mOffsetHead \in Nat
    BY <1>6, QueueParts
  <2>2. g.mOffsetHead <= End(g)
    BY <1>4, <2>1
  <2>3. ASSUME NEW k \in g.mOffsetHead .. End(g) - 1
        PROVE  Slot(g.pages, k) \in S
    <3> DEFINE i == k - g.mOffsetHead + 1
    <3>1. i \in 1 .. Count(g) /\ k = g.mOffsetHead + i - 1
      BY <2>1, Renumbered
    <3> HIDE DEF i
    <3>2. Slot(g.pages, k) = Tail(c)[i]
      BY <1>5, <3>1
    <3>3. Tail(c)[i] \in S
      BY <1>3, <3>1, ElementOfSeq
    <3> QED
      BY <3>2, <3>3
  <2> QED
    BY <2>2, <2>3
<1>7. WellFormed(g, S)
  BY <1>6 DEF WellFormed
<1>8. /\ Contents(g) \in Seq(S) /\ Len(Contents(g)) = Count(g)
      /\ \A i \in 1 .. Count(g) : Contents(g)[i] = Slot(g.pages, g.mOffsetHead + i - 1)
  BY <1>7, ContentsType
<1>9. Contents(g) = Tail(c)
  BY <1>3, <1>5, <1>8, SeqEqual
<1> QED
  BY <1>7, <1>9 DEF c

\* GetEvent takes the event at the front, whether or not it frees a page.
THEOREM GetTakes ==
    ASSUME NEW S, NEW q, WellFormed(q, S), ~IsEmpty(q)
    PROVE  /\ NextEvent(q) = Head(Contents(q))
           /\ WellFormed(GetEvent(q), S)
           /\ Contents(GetEvent(q)) = Tail(Contents(q))
<1> DEFINE E == EVENTS_PER_PAGE
           h == q.mOffsetHead
           t == q.mOffsetTail
           g == GetEvent(q)
<1>1. q.pages # <<>> /\ Contents(q) # <<>>
  BY EmptyMeansEmpty DEF IsEmpty
<1>2. /\ Contents(q) \in Seq(S) /\ Count(q) \in Nat /\ Len(Contents(q)) = Count(q)
      /\ \A i \in 1 .. Count(q) : Contents(q)[i] = Slot(q.pages, h + i - 1)
  BY ContentsType
<1>3. Count(q) \in Nat \ {0}
  BY <1>1, <1>2, EmptySeq
<1>4. q \in Queue(S) /\ h < E /\ t > 0
  BY <1>1 DEF WellFormed
<1>5. /\ E \in Nat \ {0} /\ q.pages \in Seq(Page(S)) /\ Len(q.pages) \in Nat
      /\ h \in 0 .. E /\ t \in 0 .. E /\ Len(q.pages) - 1 \in Nat
      /\ Count(q) = End(q) - h /\ End(q) \in Nat
  BY <1>1, <1>4, QueueParts
<1>6. PICK n \in Nat : Len(q.pages) = n + 1
  <2>1. Len(q.pages) = (Len(q.pages) - 1) + 1
    BY <1>5
  <2> QED
    BY <1>5, <2>1
<1>7. End(q) = n * E + t
  <2>1. n = Len(q.pages) - 1
    BY <1>6
  <2> QED
    BY <2>1 DEF End
<1>8. n * E \in Nat
  BY <1>5
<1>9. NextEvent(q) = Head(Contents(q))
  <2>1. (0 * E + h) \div E = 0 /\ (0 * E + h) % E = h
    <3>1. h \in 0 .. E - 1 /\ 0 \in Nat
      BY <1>4, <1>5
    <3> QED
      BY <1>5, <3>1, SlotOf
  <2>2. 0 * E + h = h
    BY <1>5
  <2>3. h \div E = 0 /\ h % E = h
    BY <2>1, <2>2
  <2>4. Slot(q.pages, h) = q.pages[1][h]
    BY <2>3 DEF Slot
  <2>5. 1 \in 1 .. Count(q) /\ h + 1 - 1 = h
    BY <1>3, <1>5
  <2>6. Contents(q)[1] = Slot(q.pages, h)
    BY <1>2, <2>5
  <2>7. Head(Contents(q)) = Contents(q)[1]
    BY <1>1, <1>2, HeadTailProperties
  <2> QED
    BY <2>4, <2>6, <2>7 DEF NextEvent
<1>10. CASE h + 1 = E
  <2>1. g = [pages |-> Tail(q.pages), mOffsetHead |-> 0, mOffsetTail |-> t]
    BY <1>4, <1>10 DEF GetEvent, Queue
  <2> DEFINE rest == Tail(q.pages)
  <2>2. rest \in Seq(Page(S)) /\ Len(rest) = Len(q.pages) - 1
    BY <1>1, <1>5, HeadTailProperties
  <2>3. ASSUME NEW k \in Nat, k < n * E
        PROVE  Slot(rest, k) = Slot(q.pages, E + k)
    BY <1>1, <1>5, <1>6, <2>3, SlotShifted
  <2>4. g.pages = rest /\ g.mOffsetHead = 0 /\ g.mOffsetTail = t
    BY <2>1
  <2> HIDE DEF rest, g
  <2>5. g \in Queue(S)
    BY <1>5, <2>1, <2>2 DEF Queue, Page, Offsets, rest
  <2>6. Len(rest) = n
    BY <1>6, <2>2
  <2>7. Count(g) = Count(q) - 1
    <3>1. CASE n = 0
      <4>1. rest = <<>>
        BY <2>2, <2>6, <3>1, EmptySeq
      <4>2. Count(g) = 0
        BY <2>4, <2>5, <4>1, QueueParts
      <4>3. n * E = 0
        BY <1>5, <3>1
      <4>4. Count(q) = t - h
        BY <1>5, <1>7, <4>3
      <4> QED
        BY <1>3, <1>5, <1>10, <4>2, <4>4
    <3>2. CASE n # 0
      <4>1. rest # <<>>
        BY <2>2, <2>6, <3>2, EmptySeq
      <4>2. Count(g) = End(g) - 0 /\ End(g) \in Nat
        BY <2>4, <2>5, <4>1, QueueParts
      <4>3. PICK m \in Nat : n = m + 1
        <5>1. n - 1 \in Nat /\ n = (n - 1) + 1
          BY <3>2
        <5> QED
          BY <5>1
      <4>4. End(g) = m * E + t
        <5>1. Len(rest) - 1 = m
          BY <2>6, <4>3
        <5> QED
          BY <2>4, <5>1 DEF End
      <4>5. n * E = m * E + E /\ m * E \in Nat
        BY <1>5, <4>3
      <4>6. Count(q) = End(q) - h /\ E \in Nat /\ h \in Nat /\ t \in Nat
        BY <1>5
      <4> HIDE DEF E, h, t
      <4>7. Count(g) = m * E + t
        BY <4>2, <4>4
      <4>8. Count(q) = m * E + E + t - h
        BY <1>7, <4>5, <4>6
      <4> QED
        BY <1>10, <4>5, <4>6, <4>7, <4>8
    <3> QED
      BY <3>1, <3>2
  <2>8. Count(g) \in Nat
    BY <1>3, <2>7
  <2>9. ASSUME NEW i \in 1 .. Count(g)
        PROVE  Slot(g.pages, g.mOffsetHead + i - 1) = Slot(q.pages, h + (i + 1) - 1)
    <3>1. i - 1 \in Nat /\ 0 + i - 1 = i - 1 /\ E + (i - 1) = h + (i + 1) - 1
      BY <1>5, <1>10, <2>8
    <3>2. i - 1 < n * E
      BY <1>5, <1>7, <1>8, <1>10, <2>7, <2>8
    <3>3. Slot(rest, i - 1) = Slot(q.pages, E + (i - 1))
      BY <2>3, <3>1, <3>2
    <3> QED
      BY <2>4, <3>1, <3>3
  <2>10. g.mOffsetHead < E /\ g.mOffsetTail > 0
    BY <1>4, <1>5, <2>4
  <2>11. Count(q) # 0
    BY <1>3
  <2>12. WellFormed(g, S) /\ Contents(g) = Tail(Contents(q))
    BY <1>1, <2>5, <2>7, <2>9, <2>10, <2>11, TakenIsTail
  <2> QED
    BY <1>9, <2>12 DEF g
<1>11. CASE h + 1 # E
  <2> DEFINE old == q.pages
             pages == Written(old, 0, h, NoEvent)
  <2>1. g = [pages |-> pages, mOffsetHead |-> h + 1, mOffsetTail |-> t]
    <3>1. 0 + 1 = 1
      OBVIOUS
    <3>2. g = [q EXCEPT !.pages[1][q.mOffsetHead] = NoEvent, !.mOffsetHead = @ + 1]
      BY <1>11 DEF GetEvent
    <3>3. pages = [old EXCEPT ![1] = [old[1] EXCEPT ![h] = NoEvent]]
      BY <3>1 DEF Written
    <3> HIDE DEF pages, g
    <3> QED
      BY <1>4, <3>2, <3>3 DEF Queue
  <2>2. /\ old \in Seq(Page(S)) /\ 0 \in Nat /\ h \in 0 .. EVENTS_PER_PAGE - 1 /\ 0 < Len(old)
        /\ NoEvent \in S \cup {NoEvent}
    BY <1>4, <1>5, <1>6
  <2> HIDE DEF old, pages, h
  <2>3. /\ pages \in Seq(Page(S)) /\ Len(pages) = Len(old)
        /\ \A k \in Nat :
              k < Len(old) * EVENTS_PER_PAGE /\ k # 0 * EVENTS_PER_PAGE + h
                 => Slot(pages, k) = Slot(old, k)
    BY <2>2, SlotWritten DEF pages
  <2>4. g.pages = pages /\ g.mOffsetHead = h + 1 /\ g.mOffsetTail = t
    BY <2>1
  <2>5. g \in Queue(S)
    BY <1>4, <1>5, <2>1, <2>3 DEF Queue, Page, Offsets
  <2>6. g.pages # <<>>
    <3>1. Len(pages) # 0
      BY <1>6, <2>3 DEF old
    <3> QED
      BY <2>4, <3>1, EmptySeq
  <2> HIDE DEF g
  <2>7. Count(g) = Count(q) - 1
    <3>1. Count(g) = End(g) - (h + 1) /\ End(g) \in Nat
      BY <2>4, <2>5, <2>6, QueueParts
    <3>2. End(g) = End(q)
      BY <2>3, <2>4 DEF End, old
    <3> QED
      BY <1>5, <3>1, <3>2
  <2>8. ASSUME NEW i \in 1 .. Count(g)
        PROVE  Slot(g.pages, g.mOffsetHead + i - 1) = Slot(q.pages, h + (i + 1) - 1)
    <3> DEFINE k == h + i
    <3>1. (h + 1) + i - 1 = k /\ h + (i + 1) - 1 = k /\ k \in Nat
      BY <1>3, <1>5, <2>7
    <3>2. k # 0 * E + h
      BY <1>3, <1>5, <2>7
    <3>3. k < Len(old) * E
      <4>1. Len(old) * E = n * E + E
        BY <1>5, <1>6 DEF old
      <4>2. k < End(q)
        BY <1>3, <1>5, <2>7
      <4> QED
        BY <1>5, <1>7, <1>8, <4>1, <4>2, <3>1
    <3> HIDE DEF k
    <3>4. Slot(pages, k) = Slot(old, k)
      BY <2>3, <3>1, <3>2, <3>3
    <3> QED
      BY <2>4, <3>1, <3>4 DEF old
  <2>9. g.mOffsetHead < E /\ g.mOffsetTail > 0
    BY <1>4, <1>5, <1>11, <2>4
  <2>10. Count(q) # 0
    BY <1>3
  <2>11. WellFormed(g, S) /\ Contents(g) = Tail(Contents(q))
    BY <1>1, <2>5, <2>7, <2>8, <2>9, <2>10, TakenIsTail DEF h
  <2> QED
    BY <1>9, <2>11 DEF g
<1> QED
  BY <1>10, <1>11

=============================================================================
