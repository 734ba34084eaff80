------------------------- MODULE TimerThreadProofs -------------------------
(***************************************************************************)
(* Proofs about timers, for any timers, types, delays and bounds: the      *)
(* reference counts are exact, since mRefCnt changes in every step as the  *)
(* number of those with a reference does; mTimers is sound, and nothing is *)
(* left in it at the end; the timer thread sleeps no longer than the list  *)
(* says; and a one-shot timer fires early by the adjustment at most.       *)
(***************************************************************************)
EXTENDS TimerThread, CountingProofs

\* The timer thread has a timer in its hands exactly while it posts or drops one;
\* a call of the owner that is under way is about a timer.
Control ==
    /\ cur # None <=> tpc.at \in {"post", "rearm", "dispatch", "drop", "unlist"}
    /\ call.op # "idle" => call.timer \in Timers

Exact == \A t \in Timers : timer[t].mRefCnt = References(t)

Counted == TypeOK /\ Control /\ Exact

-----------------------------------------------------------------------------
(***************************************************************************)
(* The operations on mTimers.                                              *)
(***************************************************************************)

\* InList and Occurrences agree.
LEMMA InListOccurs ==
    ASSUME NEW list \in Seq(Timers), NEW t
    PROVE  /\ Occurrences(t, list) \in Nat
           /\ InList(list, t) <=> Occurrences(t, list) > 0
<1>1. /\ Occurrences(t, list) \in Nat
      /\ Occurrences(t, list) = 0 <=> \A k \in DOMAIN list : list[k] # t
  BY OccurrencesType
<1> QED
  BY <1>1 DEF InList

\* RemoveElement cuts out one place where the timer was.
LEMMA RemovedAt ==
    ASSUME NEW list \in Seq(Timers), NEW t, InList(list, t)
    PROVE  \E i \in DOMAIN list :
              /\ list[i] = t
              /\ Removed(list, t) = SubSeq(list, 1, i - 1) \o SubSeq(list, i + 1, Len(list))
<1> DEFINE K == {k \in DOMAIN list : list[k] = t}
           First(i) == list[i] = t /\ \A j \in DOMAIN list : j < i => list[j] # t
           i == CHOOSE i \in DOMAIN list : First(i)
<1>1. DOMAIN list \subseteq Nat
  BY LenProperties
<1>2. K \in SUBSET Nat /\ K # {}
  BY <1>1 DEF InList
<1>3. PICK n \in K : \A m \in K : n <= m
  BY <1>2, LeastNumber
<1>4. \E k \in DOMAIN list : First(k)
  <2>1. n \in DOMAIN list /\ list[n] = t /\ n \in Nat
    BY <1>2
  <2>2. ASSUME NEW j \in DOMAIN list, j < n, list[j] = t
        PROVE  FALSE
    <3>1. j \in K /\ j \in Nat
      BY <1>1, <2>2
    <3> QED
      BY <1>3, <2>1, <2>2, <3>1
  <2> QED
    BY <2>1, <2>2
<1>5. i \in DOMAIN list /\ First(i)
  BY <1>4
<1>6. Removed(list, t) = SubSeq(list, 1, i - 1) \o SubSeq(list, i + 1, Len(list))
  BY Zenon DEF Removed
<1> QED
  BY <1>5, <1>6

\* What is left after RemoveElement, with its order kept.
LEMMA RemovedElements ==
    ASSUME NEW list \in Seq(Timers), NEW t
    PROVE  /\ Removed(list, t) \in Seq(Timers)
           /\ \A u : Occurrences(u, Removed(list, t)) =
                        Occurrences(u, list) - Holds(u = t /\ InList(list, t))
           /\ \A k, m \in DOMAIN Removed(list, t) : k < m =>
                 \E a, b \in DOMAIN list : /\ a < b
                                           /\ list[a] = Removed(list, t)[k]
                                           /\ list[b] = Removed(list, t)[m]
           /\ \A k \in DOMAIN Removed(list, t) :
                 \E a \in DOMAIN list : list[a] = Removed(list, t)[k]
<1>1. CASE ~InList(list, t)
  <2>1. Removed(list, t) = list
    BY <1>1 DEF Removed
  <2>2. \A u : Occurrences(u, list) \in Nat
    BY InListOccurs
  <2> QED
    BY <1>1, <2>1, <2>2 DEF Holds
<1>2. CASE InList(list, t)
  <2>1. PICK i \in DOMAIN list :
           /\ list[i] = t
           /\ Removed(list, t) = SubSeq(list, 1, i - 1) \o SubSeq(list, i + 1, Len(list))
    BY <1>2, RemovedAt
  <2>2. Len(list) \in Nat /\ i \in 1 .. Len(list) /\ DOMAIN list = 1 .. Len(list)
        /\ \A k \in 1 .. Len(list) : list[k] \in Timers
    BY LenProperties, ElementOfSeq
  <2> DEFINE a == SubSeq(list, 1, i - 1)
             b == SubSeq(list, i + 1, Len(list))
             c == SubSeq(list, i, Len(list))
  <2>3. /\ a \in Seq(Timers) /\ Len(a) = i - 1
        /\ \A k \in 1 .. i - 1 : a[k] = list[k]
    <3>1. 1 \in Int /\ i - 1 \in Int /\ \A k \in 1 .. i - 1 : list[k] \in Timers
      BY <2>2
    <3> QED
      BY <2>2, <3>1, SubSeqProperties
  <2>4. /\ b \in Seq(Timers) /\ Len(b) = Len(list) - i
        /\ \A k \in 1 .. Len(list) - i : b[k] = list[i + k]
    <3>1. i + 1 \in Int /\ Len(list) \in Int
          /\ \A k \in i + 1 .. Len(list) : list[k] \in Timers
      BY <2>2
    <3> QED
      BY <2>2, <3>1, SubSeqProperties
  <2>5. c \in Seq(Timers) /\ c # <<>> /\ Head(c) = t /\ Tail(c) = b
    <3>1. \A k \in i .. Len(list) : list[k] \in Timers
      BY <2>2
    <3>2. c \in Seq(Timers) /\ Len(c) > 0
      BY <2>2, <3>1, SubSeqProperties
    <3>3. Len(list) \in i .. Len(list)
      BY <2>2
    <3>4. Head(c) = list[i] /\ Tail(c) = b
      BY <2>2, <3>3, HeadTailOfSubSeq
    <3> HIDE DEF c
    <3>5. c # <<>>
      BY <3>2
    <3> QED
      BY <2>1, <3>2, <3>4, <3>5, Zenon
  <2>6. \A u : Occurrences(u, list) = Occurrences(u, a) + Occurrences(u, c)
    <3>1. TAKE u
    <3>2. i - 1 \in 0 .. Len(list) /\ (i - 1) + 1 = i
      BY <2>2
    <3>3. Occurrences(u, list) = Occurrences(u, SubSeq(list, 1, i - 1))
                                   + Occurrences(u, SubSeq(list, (i - 1) + 1, Len(list)))
      BY <3>2, OccurrencesCut
    <3> QED
      BY <3>2, <3>3
  <2> HIDE DEF a, b, c
  <2>7. \A u : Occurrences(u, c) = Occurrences(u, b) + Holds(u = t)
    <3>1. TAKE u
    <3>2. Occurrences(u, c) = Occurrences(u, Tail(c)) + (IF Head(c) = u THEN 1 ELSE 0)
      BY <2>5, OccurrencesTail
    <3> QED
      BY <2>5, <3>2 DEF Holds
  <2> DEFINE w == a \o b
  <2>8. /\ \A u : Occurrences(u, w) = Occurrences(u, a) + Occurrences(u, b)
        /\ w \in Seq(Timers)
        /\ Len(w) = Len(a) + Len(b)
        /\ \A k \in 1 .. Len(a) + Len(b) :
              w[k] = IF k <= Len(a) THEN a[k] ELSE b[k - Len(a)]
    <3>1. \A u : Occurrences(u, w) = Occurrences(u, a) + Occurrences(u, b)
      BY <2>3, <2>4, OccurrencesConcat
    <3>2. /\ w \in Seq(Timers)
          /\ Len(w) = Len(a) + Len(b)
          /\ \A k \in 1 .. Len(a) + Len(b) :
                w[k] = IF k <= Len(a) THEN a[k] ELSE b[k - Len(a)]
      BY <2>3, <2>4, ConcatProperties
    <3> QED
      BY <3>1, <3>2, Zenon
  <2>9. Removed(list, t) = w
    BY <2>1 DEF a, b
  <2> HIDE DEF w
  <2>10. \A u : Occurrences(u, a) \in Nat /\ Occurrences(u, b) \in Nat
    BY <2>3, <2>4, InListOccurs
  <2>11. /\ DOMAIN w = 1 .. Len(list) - 1
         /\ \A k \in 1 .. Len(list) - 1 : w[k] = IF k < i THEN list[k] ELSE list[k + 1]
    <3>1. Len(w) = Len(list) - 1 /\ DOMAIN w = 1 .. Len(w)
      BY <2>2, <2>3, <2>4, <2>8, LenProperties
    <3>2. ASSUME NEW k \in 1 .. Len(list) - 1
          PROVE  w[k] = IF k < i THEN list[k] ELSE list[k + 1]
      <4>1. w[k] = IF k <= i - 1 THEN a[k] ELSE b[k - (i - 1)]
        BY <2>2, <2>3, <2>4, <2>8
      <4>2. CASE k < i
        BY <2>2, <2>3, <4>1, <4>2
      <4>3. CASE ~(k < i)
        <5>1. k - (i - 1) \in 1 .. Len(list) - i /\ i + (k - (i - 1)) = k + 1
          BY <2>2, <4>3
        <5> QED
          BY <2>2, <2>4, <4>1, <4>3, <5>1
      <4> QED
        BY <4>2, <4>3
    <3> QED
      BY <3>1, <3>2
  <2>12. \A u : Occurrences(u, w) = Occurrences(u, list) - Holds(u = t)
    BY <2>6, <2>7, <2>8, <2>10 DEF Holds
  <2>13. \A k, m \in DOMAIN w : k < m =>
            \E x, y \in DOMAIN list : x < y /\ list[x] = w[k] /\ list[y] = w[m]
    <3>1. TAKE k, m \in DOMAIN w
    <3>2. HAVE k < m
    <3> DEFINE x == IF k < i THEN k ELSE k + 1
               y == IF m < i THEN m ELSE m + 1
    <3>3. x \in DOMAIN list /\ y \in DOMAIN list /\ x < y
      BY <2>2, <2>11, <3>2
    <3>4. list[x] = w[k] /\ list[y] = w[m]
      BY <2>2, <2>11
    <3> QED
      BY <3>3, <3>4
  <2>14. \A k \in DOMAIN w : \E x \in DOMAIN list : list[x] = w[k]
    <3>1. TAKE k \in DOMAIN w
    <3> DEFINE x == IF k < i THEN k ELSE k + 1
    <3>2. x \in DOMAIN list /\ list[x] = w[k]
      BY <2>2, <2>11
    <3> QED
      BY <3>2
  <2>15. \A u : Holds(u = t /\ InList(list, t)) = Holds(u = t)
    BY <1>2 DEF Holds
  <2> QED
    BY <2>8, <2>9, <2>12, <2>13, <2>14, <2>15
<1> QED
  BY <1>1, <1>2

\* InsertElementSorted adds the timer at one place and moves what comes after.
LEMMA InsertedElements ==
    ASSUME NEW list \in Seq(Timers), NEW t \in Timers, NEW i \in 0 .. Len(list)
    PROVE  /\ Inserted(list, i, t) \in Seq(Timers)
           /\ \A u : Occurrences(u, Inserted(list, i, t)) =
                        Occurrences(u, list) + Holds(u = t)
           /\ DOMAIN Inserted(list, i, t) = 1 .. Len(list) + 1
           /\ \A k \in 1 .. Len(list) + 1 :
                 Inserted(list, i, t)[k] =
                    IF k <= i THEN list[k] ELSE IF k = i + 1 THEN t ELSE list[k - 1]
<1> DEFINE a == SubSeq(list, 1, i)
           b == SubSeq(list, i + 1, Len(list))
<1>1. Len(list) \in Nat /\ \A k \in 1 .. Len(list) : list[k] \in Timers
  BY LenProperties, ElementOfSeq
<1>2. /\ a \in Seq(Timers) /\ Len(a) = i
      /\ \A k \in 1 .. i : a[k] = list[k]
  <2>1. 1 \in Int /\ i \in Int /\ \A k \in 1 .. i : list[k] \in Timers
    BY <1>1
  <2> QED
    BY <1>1, <2>1, SubSeqProperties
<1>3. /\ b \in Seq(Timers) /\ Len(b) = Len(list) - i
      /\ \A k \in 1 .. Len(list) - i : b[k] = list[i + k]
  <2>1. i + 1 \in Int /\ Len(list) \in Int
        /\ \A k \in i + 1 .. Len(list) : list[k] \in Timers
    BY <1>1
  <2> QED
    BY <1>1, <2>1, SubSeqProperties
<1>4. \A u : Occurrences(u, list) = Occurrences(u, a) + Occurrences(u, b)
  BY OccurrencesCut
<1>5. Inserted(list, i, t) = (a \o <<t>>) \o b
  BY Zenon DEF Inserted
<1> HIDE DEF a, b
<1>6. <<t>> \in Seq(Timers) /\ Len(<<t>>) = 1 /\ <<t>>[1] = t
  OBVIOUS
<1>7. /\ a \o <<t>> \in Seq(Timers)
      /\ Len(a \o <<t>>) = i + 1
      /\ \A k \in 1 .. i + 1 : (a \o <<t>>)[k] = IF k <= i THEN list[k] ELSE t
  BY <1>1, <1>2, <1>6, ConcatProperties
<1> DEFINE c == a \o <<t>>
<1>8. \A u : Occurrences(u, c) = Occurrences(u, a) + Holds(u = t)
  <2>1. TAKE u
  <2>2. Occurrences(u, c) = Occurrences(u, a) + Occurrences(u, <<t>>)
    BY <1>2, <1>6, OccurrencesConcat
  <2>3. Occurrences(u, <<t>>) = Holds(u = t)
    BY OccurrencesSingle DEF Holds
  <2> QED
    BY <2>2, <2>3
<1> HIDE DEF c
<1> DEFINE w == c \o b
<1>9. /\ c \in Seq(Timers) /\ Len(c) = i + 1
      /\ \A k \in 1 .. i + 1 : c[k] = IF k <= i THEN list[k] ELSE t
  BY <1>7 DEF c
<1>10. /\ \A u : Occurrences(u, w) = Occurrences(u, c) + Occurrences(u, b)
       /\ w \in Seq(Timers)
       /\ Len(w) = Len(c) + Len(b)
       /\ \A k \in 1 .. Len(c) + Len(b) :
             w[k] = IF k <= Len(c) THEN c[k] ELSE b[k - Len(c)]
  <2>1. \A u : Occurrences(u, w) = Occurrences(u, c) + Occurrences(u, b)
    BY <1>3, <1>9, OccurrencesConcat
  <2>2. /\ w \in Seq(Timers)
        /\ Len(w) = Len(c) + Len(b)
        /\ \A k \in 1 .. Len(c) + Len(b) :
              w[k] = IF k <= Len(c) THEN c[k] ELSE b[k - Len(c)]
    BY <1>3, <1>9, ConcatProperties
  <2> QED
    BY <2>1, <2>2, Zenon
<1>11. Inserted(list, i, t) = w
  BY <1>5 DEF c
<1> HIDE DEF w
<1>12. \A u : Occurrences(u, a) \in Nat /\ Occurrences(u, b) \in Nat
  BY <1>2, <1>3, InListOccurs
<1>13. \A u : Occurrences(u, w) = Occurrences(u, list) + Holds(u = t)
  BY <1>4, <1>8, <1>10, <1>12 DEF Holds
<1>14. Len(w) = Len(list) + 1 /\ DOMAIN w = 1 .. Len(w)
  BY <1>1, <1>3, <1>9, <1>10, LenProperties
<1>15. ASSUME NEW k \in 1 .. Len(list) + 1
       PROVE  w[k] = IF k <= i THEN list[k] ELSE IF k = i + 1 THEN t ELSE list[k - 1]
  <2>1. w[k] = IF k <= i + 1 THEN c[k] ELSE b[k - (i + 1)]
    BY <1>1, <1>3, <1>9, <1>10
  <2>2. CASE k <= i + 1
    BY <1>1, <1>9, <2>1, <2>2
  <2>3. CASE ~(k <= i + 1)
    <3>1. k - (i + 1) \in 1 .. Len(list) - i /\ i + (k - (i + 1)) = k - 1
      BY <1>1, <2>3
    <3> QED
      BY <1>1, <1>3, <2>1, <2>3, <3>1
  <2> QED
    BY <2>2, <2>3
<1> QED
  BY <1>10, <1>11, <1>13, <1>14, <1>15

-----------------------------------------------------------------------------
(***************************************************************************)
(* The operations on the timers.                                           *)
(***************************************************************************)
Table == [Timers -> Fields]

\* A timer with nothing in its fields is a timer.
LEMMA BlankType ==
    ASSUME NEW count \in Nat
    PROVE  /\ Blank(count) \in Fields
           /\ Blank(count).mRefCnt = count
           /\ ~Blank(count).mArmed
           /\ Blank(count).mGeneration = 0
           /\ Blank(count).mType = "ONE_SHOT"
           /\ Blank(count).mTimeout = 0
  BY BoundsAssumption DEF Blank, Fields, Never, Types

\* Release takes one reference away, and the last one deletes the timer.
LEMMA DroppedTable ==
    ASSUME NEW timers \in Table, NEW t \in Timers, timers[t].mRefCnt > 0
    PROVE  /\ Dropped(timers, t) \in Table
           /\ \A u \in Timers : Dropped(timers, t)[u].mRefCnt =
                                   timers[u].mRefCnt - Holds(u = t)
           /\ \A u \in Timers :
                 u # t \/ timers[t].mRefCnt > 1 =>
                    /\ Dropped(timers, t)[u].mArmed = timers[u].mArmed
                    /\ Dropped(timers, t)[u].mGeneration = timers[u].mGeneration
                    /\ Dropped(timers, t)[u].mType = timers[u].mType
                    /\ Dropped(timers, t)[u].delaySet = timers[u].delaySet
                    /\ Dropped(timers, t)[u].mTimeout = timers[u].mTimeout
           /\ timers[t].mRefCnt = 1 => Dropped(timers, t)[t] = Blank(0)
<1> DEFINE r == timers[t]
           q == [r EXCEPT !.mRefCnt = @ - 1]
           d == IF r.mRefCnt = 1 THEN Blank(0) ELSE q
<1>1. \A u \in Timers : timers[u] \in Fields
  BY DEF Table
<1>2. r \in Fields /\ r.mRefCnt \in Nat
  BY <1>1 DEF Fields
<1>3. /\ q \in Fields
      /\ q.mRefCnt = r.mRefCnt - 1
      /\ q.mArmed = r.mArmed /\ q.mGeneration = r.mGeneration
      /\ q.mType = r.mType /\ q.delaySet = r.delaySet /\ q.mTimeout = r.mTimeout
  BY <1>2 DEF Fields
<1>4. Blank(0) \in Fields /\ Blank(0).mRefCnt = 0
  BY BlankType
<1>5. Dropped(timers, t) = [timers EXCEPT ![t] = d]
  BY Zenon DEF Dropped
<1> HIDE DEF d, q, r
<1>6. d \in Fields
  BY <1>3, <1>4 DEF d
<1>7. /\ [timers EXCEPT ![t] = d] \in Table
      /\ [timers EXCEPT ![t] = d][t] = d
      /\ \A u \in Timers : u # t => [timers EXCEPT ![t] = d][u] = timers[u]
  BY <1>6 DEF Table
<1>8. timers[t] = r
  BY DEF r
<1>9. \A u \in Timers : timers[u].mRefCnt \in Nat
  BY <1>1 DEF Fields
<1> DEFINE w == [timers EXCEPT ![t] = d]
<1> HIDE DEF w
<1>10. w \in Table /\ w[t] = d /\ \A u \in Timers : u # t => w[u] = timers[u]
  BY <1>7 DEF w
<1>11. Dropped(timers, t) = w
  BY <1>5 DEF w
<1>12. \A u \in Timers : w[u].mRefCnt = timers[u].mRefCnt - Holds(u = t)
  <2>1. d.mRefCnt = r.mRefCnt - 1
    BY <1>2, <1>3, <1>4 DEF d
  <2> QED
    BY <1>8, <1>9, <1>10, <2>1 DEF Holds
<1>13. r.mRefCnt > 1 => d = q
  BY <1>2 DEF d
<1>14. r.mRefCnt = 1 => d = Blank(0)
  BY DEF d
<1>15. \A u \in Timers :
          u # t \/ r.mRefCnt > 1 =>
             /\ w[u].mArmed = timers[u].mArmed
             /\ w[u].mGeneration = timers[u].mGeneration
             /\ w[u].mType = timers[u].mType /\ w[u].delaySet = timers[u].delaySet
             /\ w[u].mTimeout = timers[u].mTimeout
  BY <1>3, <1>8, <1>10, <1>13
<1> QED
  BY <1>8, <1>10, <1>11, <1>12, <1>14, <1>15

\* AddTimerInternal takes a reference.
LEMMA ArmedTable ==
    ASSUME NEW timers \in Table, NEW t \in Timers
    PROVE  /\ Armed(timers, t) \in Table
           /\ \A u \in Timers :
                 /\ Armed(timers, t)[u].mRefCnt = timers[u].mRefCnt + Holds(u = t)
                 /\ Armed(timers, t)[u].mArmed = (u = t \/ timers[u].mArmed)
                 /\ Armed(timers, t)[u].mGeneration = timers[u].mGeneration
                 /\ Armed(timers, t)[u].mType = timers[u].mType
                 /\ Armed(timers, t)[u].delaySet = timers[u].delaySet
                 /\ Armed(timers, t)[u].mTimeout = timers[u].mTimeout
<1> DEFINE r == timers[t]
           p == [r EXCEPT !.mArmed = TRUE]
           q == [p EXCEPT !.mRefCnt = @ + 1]
           w == [timers EXCEPT ![t] = q]
<1>1. \A u \in Timers : timers[u] \in Fields
  BY DEF Table
<1>2. r \in Fields /\ r.mRefCnt \in Nat
  BY <1>1 DEF Fields
<1>3. /\ q \in Fields
      /\ q.mRefCnt = r.mRefCnt + 1 /\ q.mArmed = TRUE
      /\ q.mGeneration = r.mGeneration
      /\ q.mType = r.mType /\ q.delaySet = r.delaySet /\ q.mTimeout = r.mTimeout
  <2>1. /\ p \in Fields /\ p.mArmed = TRUE
        /\ p.mRefCnt = r.mRefCnt /\ p.mGeneration = r.mGeneration
        /\ p.mType = r.mType /\ p.delaySet = r.delaySet /\ p.mTimeout = r.mTimeout
    BY <1>2 DEF Fields
  <2> HIDE DEF p
  <2>2. /\ q \in Fields /\ q.mArmed = p.mArmed
        /\ q.mRefCnt = p.mRefCnt + 1 /\ q.mGeneration = p.mGeneration
        /\ q.mType = p.mType /\ q.delaySet = p.delaySet /\ q.mTimeout = p.mTimeout
    BY <1>2, <2>1 DEF Fields
  <2> QED
    BY <1>2, <2>1, <2>2
<1>4. Armed(timers, t) = w
  BY <1>1 DEF Armed, Table
<1>5. \A u \in Timers : timers[u].mRefCnt \in Nat /\ timers[u].mArmed \in BOOLEAN
  BY <1>1 DEF Fields
<1>6. timers[t] = r
  OBVIOUS
<1> HIDE DEF q, r
<1>7. w \in Table /\ w[t] = q /\ \A u \in Timers : u # t => w[u] = timers[u]
  BY <1>3 DEF Table
<1> HIDE DEF w
<1>8. \A u \in Timers : w[u].mRefCnt = timers[u].mRefCnt + Holds(u = t)
  BY <1>3, <1>5, <1>6, <1>7 DEF Holds
<1>9. \A u \in Timers : w[u].mArmed = (u = t \/ timers[u].mArmed)
  <2>1. ASSUME NEW u \in Timers
        PROVE  w[u].mArmed <=> (u = t \/ timers[u].mArmed)
    BY <1>3, <1>6, <1>7
  <2>2. \A u \in Timers : w[u].mArmed \in BOOLEAN
    BY <1>7 DEF Table, Fields
  <2> QED
    BY <2>1, <2>2
<1>10. \A u \in Timers :
          /\ w[u].mGeneration = timers[u].mGeneration
          /\ w[u].mType = timers[u].mType /\ w[u].delaySet = timers[u].delaySet
          /\ w[u].mTimeout = timers[u].mTimeout
  BY <1>3, <1>6, <1>7
<1> QED
  BY <1>4, <1>7, <1>8, <1>9, <1>10, Zenon

\* One field written.
WithCallback(timers, t, v) == [timers EXCEPT ![t].mCallback = v]
WithCanceled(timers, t, v) == [timers EXCEPT ![t].mCanceled = v]
WithDelay(timers, t, v) == [timers EXCEPT ![t].mDelay = v]
WithArmed(timers, t, v) == [timers EXCEPT ![t].mArmed = v]
WithTimeout(timers, t, v) == [timers EXCEPT ![t].mTimeout = v]
WithGeneration(timers, t, v) == [timers EXCEPT ![t].mGeneration = v]
WithType(timers, t, v) == [timers EXCEPT ![t].mType = v]
WithDelaySet(timers, t, v) == [timers EXCEPT ![t].delaySet = v]

\* Writing mCallback, mCanceled or mDelay leaves the fields alone that matter to the lists.
LEMMA WithCallbackTable ==
    ASSUME NEW timers \in Table, NEW t \in Timers, NEW v \in BOOLEAN
    PROVE  /\ WithCallback(timers, t, v) \in Table
           /\ WithCallback(timers, t, v)[t].mCallback = v
           /\ \A u \in Timers : u # t => WithCallback(timers, t, v)[u] = timers[u]
           /\ \A u \in Timers :
                 /\ WithCallback(timers, t, v)[u].mRefCnt = timers[u].mRefCnt
                 /\ WithCallback(timers, t, v)[u].mArmed = timers[u].mArmed
                 /\ WithCallback(timers, t, v)[u].mGeneration = timers[u].mGeneration
                 /\ WithCallback(timers, t, v)[u].mType = timers[u].mType
                 /\ WithCallback(timers, t, v)[u].delaySet = timers[u].delaySet
                 /\ WithCallback(timers, t, v)[u].mTimeout = timers[u].mTimeout
<1> DEFINE r == timers[t]
           q == [r EXCEPT !.mCallback = v]
           w == WithCallback(timers, t, v)
<1>1. r \in Fields
  BY DEF Table
<1>2. /\ q \in Fields /\ q.mCallback = v
      /\ q.mRefCnt = r.mRefCnt
      /\ q.mArmed = r.mArmed
      /\ q.mGeneration = r.mGeneration
      /\ q.mType = r.mType /\ q.delaySet = r.delaySet
      /\ q.mTimeout = r.mTimeout
  BY <1>1 DEF Fields
<1>3. w = [timers EXCEPT ![t] = q]
  BY DEF WithCallback
<1>4. timers[t] = r
  OBVIOUS
<1> HIDE DEF q, r, w
<1>5. w \in Table /\ w[t] = q /\ \A u \in Timers : u # t => w[u] = timers[u]
  BY <1>2, <1>3 DEF Table
<1>6. \A u \in Timers :
          /\ w[u].mRefCnt = timers[u].mRefCnt
          /\ w[u].mArmed = timers[u].mArmed
          /\ w[u].mGeneration = timers[u].mGeneration
          /\ w[u].mType = timers[u].mType /\ w[u].delaySet = timers[u].delaySet
          /\ w[u].mTimeout = timers[u].mTimeout
  BY <1>2, <1>4, <1>5
<1> QED
  BY <1>2, <1>5, <1>6, Zenon DEF w

\* The same of mCanceled.
LEMMA WithCanceledTable ==
    ASSUME NEW timers \in Table, NEW t \in Timers, NEW v \in BOOLEAN
    PROVE  /\ WithCanceled(timers, t, v) \in Table
           /\ WithCanceled(timers, t, v)[t].mCanceled = v
           /\ \A u \in Timers : u # t => WithCanceled(timers, t, v)[u] = timers[u]
           /\ \A u \in Timers :
                 /\ WithCanceled(timers, t, v)[u].mRefCnt = timers[u].mRefCnt
                 /\ WithCanceled(timers, t, v)[u].mArmed = timers[u].mArmed
                 /\ WithCanceled(timers, t, v)[u].mGeneration = timers[u].mGeneration
                 /\ WithCanceled(timers, t, v)[u].mType = timers[u].mType
                 /\ WithCanceled(timers, t, v)[u].delaySet = timers[u].delaySet
                 /\ WithCanceled(timers, t, v)[u].mTimeout = timers[u].mTimeout
<1> DEFINE r == timers[t]
           q == [r EXCEPT !.mCanceled = v]
           w == WithCanceled(timers, t, v)
<1>1. r \in Fields
  BY DEF Table
<1>2. /\ q \in Fields /\ q.mCanceled = v
      /\ q.mRefCnt = r.mRefCnt
      /\ q.mArmed = r.mArmed
      /\ q.mGeneration = r.mGeneration
      /\ q.mType = r.mType /\ q.delaySet = r.delaySet
      /\ q.mTimeout = r.mTimeout
  BY <1>1 DEF Fields
<1>3. w = [timers EXCEPT ![t] = q]
  BY DEF WithCanceled
<1>4. timers[t] = r
  OBVIOUS
<1> HIDE DEF q, r, w
<1>5. w \in Table /\ w[t] = q /\ \A u \in Timers : u # t => w[u] = timers[u]
  BY <1>2, <1>3 DEF Table
<1>6. \A u \in Timers :
          /\ w[u].mRefCnt = timers[u].mRefCnt
          /\ w[u].mArmed = timers[u].mArmed
          /\ w[u].mGeneration = timers[u].mGeneration
          /\ w[u].mType = timers[u].mType /\ w[u].delaySet = timers[u].delaySet
          /\ w[u].mTimeout = timers[u].mTimeout
  BY <1>2, <1>4, <1>5
<1> QED
  BY <1>2, <1>5, <1>6, Zenon DEF w

\* The same of mDelay.
LEMMA WithDelayTable ==
    ASSUME NEW timers \in Table, NEW t \in Timers, NEW v \in Delays \cup {0}
    PROVE  /\ WithDelay(timers, t, v) \in Table
           /\ WithDelay(timers, t, v)[t].mDelay = v
           /\ \A u \in Timers : u # t => WithDelay(timers, t, v)[u] = timers[u]
           /\ \A u \in Timers :
                 /\ WithDelay(timers, t, v)[u].mRefCnt = timers[u].mRefCnt
                 /\ WithDelay(timers, t, v)[u].mArmed = timers[u].mArmed
                 /\ WithDelay(timers, t, v)[u].mGeneration = timers[u].mGeneration
                 /\ WithDelay(timers, t, v)[u].mType = timers[u].mType
                 /\ WithDelay(timers, t, v)[u].delaySet = timers[u].delaySet
                 /\ WithDelay(timers, t, v)[u].mTimeout = timers[u].mTimeout
<1> DEFINE r == timers[t]
           q == [r EXCEPT !.mDelay = v]
           w == WithDelay(timers, t, v)
<1>1. r \in Fields
  BY DEF Table
<1>2. /\ q \in Fields /\ q.mDelay = v
      /\ q.mRefCnt = r.mRefCnt
      /\ q.mArmed = r.mArmed
      /\ q.mGeneration = r.mGeneration
      /\ q.mType = r.mType /\ q.delaySet = r.delaySet
      /\ q.mTimeout = r.mTimeout
  BY <1>1 DEF Fields
<1>3. w = [timers EXCEPT ![t] = q]
  BY DEF WithDelay
<1>4. timers[t] = r
  OBVIOUS
<1> HIDE DEF q, r, w
<1>5. w \in Table /\ w[t] = q /\ \A u \in Timers : u # t => w[u] = timers[u]
  BY <1>2, <1>3 DEF Table
<1>6. \A u \in Timers :
          /\ w[u].mRefCnt = timers[u].mRefCnt
          /\ w[u].mArmed = timers[u].mArmed
          /\ w[u].mGeneration = timers[u].mGeneration
          /\ w[u].mType = timers[u].mType /\ w[u].delaySet = timers[u].delaySet
          /\ w[u].mTimeout = timers[u].mTimeout
  BY <1>2, <1>4, <1>5
<1> QED
  BY <1>2, <1>5, <1>6, Zenon DEF w

\* Writing mArmed leaves the other fields alone.
LEMMA WithArmedTable ==
    ASSUME NEW timers \in Table, NEW t \in Timers, NEW v \in BOOLEAN
    PROVE  /\ WithArmed(timers, t, v) \in Table
           /\ WithArmed(timers, t, v)[t].mArmed = v
           /\ \A u \in Timers : u # t => WithArmed(timers, t, v)[u] = timers[u]
           /\ \A u \in Timers :
                 /\ WithArmed(timers, t, v)[u].mRefCnt = timers[u].mRefCnt
                 /\ WithArmed(timers, t, v)[u].mGeneration = timers[u].mGeneration
                 /\ WithArmed(timers, t, v)[u].mType = timers[u].mType
                 /\ WithArmed(timers, t, v)[u].delaySet = timers[u].delaySet
                 /\ WithArmed(timers, t, v)[u].mTimeout = timers[u].mTimeout
<1> DEFINE r == timers[t]
           q == [r EXCEPT !.mArmed = v]
           w == WithArmed(timers, t, v)
<1>1. r \in Fields
  BY DEF Table
<1>2. /\ q \in Fields /\ q.mArmed = v
      /\ q.mRefCnt = r.mRefCnt
      /\ q.mGeneration = r.mGeneration
      /\ q.mType = r.mType /\ q.delaySet = r.delaySet
      /\ q.mTimeout = r.mTimeout
  BY <1>1 DEF Fields
<1>3. w = [timers EXCEPT ![t] = q]
  BY DEF WithArmed
<1>4. timers[t] = r
  OBVIOUS
<1> HIDE DEF q, r, w
<1>5. w \in Table /\ w[t] = q /\ \A u \in Timers : u # t => w[u] = timers[u]
  BY <1>2, <1>3 DEF Table
<1>6. \A u \in Timers :
          /\ w[u].mRefCnt = timers[u].mRefCnt
          /\ w[u].mGeneration = timers[u].mGeneration
          /\ w[u].mType = timers[u].mType /\ w[u].delaySet = timers[u].delaySet
          /\ w[u].mTimeout = timers[u].mTimeout
  BY <1>2, <1>4, <1>5
<1> QED
  BY <1>2, <1>5, <1>6, Zenon DEF w

\* The same of mTimeout,
LEMMA WithTimeoutTable ==
    ASSUME NEW timers \in Table, NEW t \in Timers, NEW v \in Nat
    PROVE  /\ WithTimeout(timers, t, v) \in Table
           /\ WithTimeout(timers, t, v)[t].mTimeout = v
           /\ \A u \in Timers : u # t => WithTimeout(timers, t, v)[u] = timers[u]
           /\ \A u \in Timers :
                 /\ WithTimeout(timers, t, v)[u].mRefCnt = timers[u].mRefCnt
                 /\ WithTimeout(timers, t, v)[u].mArmed = timers[u].mArmed
                 /\ WithTimeout(timers, t, v)[u].mGeneration = timers[u].mGeneration
                 /\ WithTimeout(timers, t, v)[u].mType = timers[u].mType
                 /\ WithTimeout(timers, t, v)[u].delaySet = timers[u].delaySet
<1> DEFINE r == timers[t]
           q == [r EXCEPT !.mTimeout = v]
           w == WithTimeout(timers, t, v)
<1>1. r \in Fields
  BY DEF Table
<1>2. /\ q \in Fields /\ q.mTimeout = v
      /\ q.mRefCnt = r.mRefCnt
      /\ q.mArmed = r.mArmed
      /\ q.mGeneration = r.mGeneration
      /\ q.mType = r.mType /\ q.delaySet = r.delaySet
  BY <1>1 DEF Fields
<1>3. w = [timers EXCEPT ![t] = q]
  BY DEF WithTimeout
<1>4. timers[t] = r
  OBVIOUS
<1> HIDE DEF q, r, w
<1>5. w \in Table /\ w[t] = q /\ \A u \in Timers : u # t => w[u] = timers[u]
  BY <1>2, <1>3 DEF Table
<1>6. \A u \in Timers :
          /\ w[u].mRefCnt = timers[u].mRefCnt
          /\ w[u].mArmed = timers[u].mArmed
          /\ w[u].mGeneration = timers[u].mGeneration
          /\ w[u].mType = timers[u].mType /\ w[u].delaySet = timers[u].delaySet
  BY <1>2, <1>4, <1>5
<1> QED
  BY <1>2, <1>5, <1>6, Zenon DEF w

\* of mGeneration,
LEMMA WithGenerationTable ==
    ASSUME NEW timers \in Table, NEW t \in Timers, NEW v \in 0 .. MaxInits
    PROVE  /\ WithGeneration(timers, t, v) \in Table
           /\ WithGeneration(timers, t, v)[t].mGeneration = v
           /\ \A u \in Timers : u # t => WithGeneration(timers, t, v)[u] = timers[u]
           /\ \A u \in Timers :
                 /\ WithGeneration(timers, t, v)[u].mRefCnt = timers[u].mRefCnt
                 /\ WithGeneration(timers, t, v)[u].mArmed = timers[u].mArmed
                 /\ WithGeneration(timers, t, v)[u].mType = timers[u].mType
                 /\ WithGeneration(timers, t, v)[u].delaySet = timers[u].delaySet
                 /\ WithGeneration(timers, t, v)[u].mTimeout = timers[u].mTimeout
<1> DEFINE r == timers[t]
           q == [r EXCEPT !.mGeneration = v]
           w == WithGeneration(timers, t, v)
<1>1. r \in Fields
  BY DEF Table
<1>2. /\ q \in Fields /\ q.mGeneration = v
      /\ q.mRefCnt = r.mRefCnt
      /\ q.mArmed = r.mArmed
      /\ q.mType = r.mType /\ q.delaySet = r.delaySet
      /\ q.mTimeout = r.mTimeout
  BY <1>1 DEF Fields
<1>3. w = [timers EXCEPT ![t] = q]
  BY DEF WithGeneration
<1>4. timers[t] = r
  OBVIOUS
<1> HIDE DEF q, r, w
<1>5. w \in Table /\ w[t] = q /\ \A u \in Timers : u # t => w[u] = timers[u]
  BY <1>2, <1>3 DEF Table
<1>6. \A u \in Timers :
          /\ w[u].mRefCnt = timers[u].mRefCnt
          /\ w[u].mArmed = timers[u].mArmed
          /\ w[u].mType = timers[u].mType /\ w[u].delaySet = timers[u].delaySet
          /\ w[u].mTimeout = timers[u].mTimeout
  BY <1>2, <1>4, <1>5
<1> QED
  BY <1>2, <1>5, <1>6, Zenon DEF w

\* and of mType.
LEMMA WithTypeTable ==
    ASSUME NEW timers \in Table, NEW t \in Timers, NEW v \in Types
    PROVE  /\ WithType(timers, t, v) \in Table
           /\ WithType(timers, t, v)[t].mType = v
           /\ \A u \in Timers : u # t => WithType(timers, t, v)[u] = timers[u]
           /\ \A u \in Timers :
                 /\ WithType(timers, t, v)[u].mRefCnt = timers[u].mRefCnt
                 /\ WithType(timers, t, v)[u].mArmed = timers[u].mArmed
                 /\ WithType(timers, t, v)[u].mGeneration = timers[u].mGeneration
                 /\ WithType(timers, t, v)[u].mTimeout = timers[u].mTimeout
<1> DEFINE r == timers[t]
           q == [r EXCEPT !.mType = v]
           w == WithType(timers, t, v)
<1>1. r \in Fields
  BY DEF Table
<1>2. /\ q \in Fields /\ q.mType = v
      /\ q.mRefCnt = r.mRefCnt
      /\ q.mArmed = r.mArmed
      /\ q.mGeneration = r.mGeneration
      /\ q.mTimeout = r.mTimeout
  BY <1>1 DEF Fields
<1>3. w = [timers EXCEPT ![t] = q]
  BY DEF WithType
<1>4. timers[t] = r
  OBVIOUS
<1> HIDE DEF q, r, w
<1>5. w \in Table /\ w[t] = q /\ \A u \in Timers : u # t => w[u] = timers[u]
  BY <1>2, <1>3 DEF Table
<1>6. \A u \in Timers :
          /\ w[u].mRefCnt = timers[u].mRefCnt
          /\ w[u].mArmed = timers[u].mArmed
          /\ w[u].mGeneration = timers[u].mGeneration
          /\ w[u].mTimeout = timers[u].mTimeout
  BY <1>2, <1>4, <1>5
<1> QED
  BY <1>2, <1>5, <1>6, Zenon DEF w

\* The same of the history of SetDelay.
LEMMA WithDelaySetTable ==
    ASSUME NEW timers \in Table, NEW t \in Timers, NEW v \in BOOLEAN
    PROVE  /\ WithDelaySet(timers, t, v) \in Table
           /\ WithDelaySet(timers, t, v)[t].delaySet = v
           /\ \A u \in Timers : u # t => WithDelaySet(timers, t, v)[u] = timers[u]
           /\ \A u \in Timers :
                 /\ WithDelaySet(timers, t, v)[u].mRefCnt = timers[u].mRefCnt
                 /\ WithDelaySet(timers, t, v)[u].mArmed = timers[u].mArmed
                 /\ WithDelaySet(timers, t, v)[u].mGeneration = timers[u].mGeneration
                 /\ WithDelaySet(timers, t, v)[u].mType = timers[u].mType
                 /\ WithDelaySet(timers, t, v)[u].mTimeout = timers[u].mTimeout
<1> DEFINE r == timers[t]
           q == [r EXCEPT !.delaySet = v]
           w == WithDelaySet(timers, t, v)
<1>1. r \in Fields
  BY DEF Table
<1>2. /\ q \in Fields /\ q.delaySet = v
      /\ q.mRefCnt = r.mRefCnt
      /\ q.mArmed = r.mArmed
      /\ q.mGeneration = r.mGeneration
      /\ q.mType = r.mType
      /\ q.mTimeout = r.mTimeout
  BY <1>1 DEF Fields
<1>3. w = [timers EXCEPT ![t] = q]
  BY DEF WithDelaySet
<1>4. timers[t] = r
  OBVIOUS
<1> HIDE DEF q, r, w
<1>5. w \in Table /\ w[t] = q /\ \A u \in Timers : u # t => w[u] = timers[u]
  BY <1>2, <1>3 DEF Table
<1>6. \A u \in Timers :
          /\ w[u].mRefCnt = timers[u].mRefCnt
          /\ w[u].mArmed = timers[u].mArmed
          /\ w[u].mGeneration = timers[u].mGeneration
          /\ w[u].mType = timers[u].mType
          /\ w[u].mTimeout = timers[u].mTimeout
  BY <1>2, <1>4, <1>5
<1> QED
  BY <1>2, <1>5, <1>6, Zenon DEF w

\* ReleaseTimerInternal takes the reference of the list away.
LEMMA DisarmedTable ==
    ASSUME NEW timers \in Table, NEW t \in Timers, timers[t].mRefCnt > 0
    PROVE  /\ Disarmed(timers, t) \in Table
           /\ ~Disarmed(timers, t)[t].mArmed
           /\ \A u \in Timers :
                 /\ Disarmed(timers, t)[u].mRefCnt = timers[u].mRefCnt - Holds(u = t)
                 /\ u # t => Disarmed(timers, t)[u].mArmed = timers[u].mArmed
                 /\ u # t \/ timers[t].mRefCnt > 1 =>
                       /\ Disarmed(timers, t)[u].mGeneration = timers[u].mGeneration
                       /\ Disarmed(timers, t)[u].mType = timers[u].mType
                       /\ Disarmed(timers, t)[u].delaySet = timers[u].delaySet
                       /\ Disarmed(timers, t)[u].mTimeout = timers[u].mTimeout
           /\ timers[t].mRefCnt = 1 => Disarmed(timers, t)[t] = Blank(0)
<1>0. PICK v \in BOOLEAN : v = FALSE
  OBVIOUS
<1> DEFINE x == WithArmed(timers, t, v)
<1>1. /\ x \in Table /\ x[t].mArmed = v
      /\ \A u \in Timers : u # t => x[u] = timers[u]
      /\ \A u \in Timers :
            /\ x[u].mRefCnt = timers[u].mRefCnt /\ x[u].mGeneration = timers[u].mGeneration
            /\ x[u].mType = timers[u].mType
            /\ x[u].delaySet = timers[u].delaySet /\ x[u].mTimeout = timers[u].mTimeout
  BY WithArmedTable
<1>2. Disarmed(timers, t) = Dropped(x, t)
  BY <1>0, Zenon DEF Disarmed, WithArmed
<1> HIDE DEF x
<1>3. x[t].mRefCnt > 0
  BY <1>1
<1>10. x \in Table
  BY <1>1
<1>11. /\ Dropped(x, t) \in Table
       /\ \A u \in Timers : Dropped(x, t)[u].mRefCnt = x[u].mRefCnt - Holds(u = t)
       /\ \A u \in Timers :
             u # t \/ x[t].mRefCnt > 1 =>
                /\ Dropped(x, t)[u].mArmed = x[u].mArmed
                /\ Dropped(x, t)[u].mGeneration = x[u].mGeneration
                /\ Dropped(x, t)[u].mType = x[u].mType /\ Dropped(x, t)[u].delaySet = x[u].delaySet
                /\ Dropped(x, t)[u].mTimeout = x[u].mTimeout
       /\ x[t].mRefCnt = 1 => Dropped(x, t)[t] = Blank(0)
  BY <1>3, <1>10, DroppedTable
<1> DEFINE w == Dropped(x, t)
<1>4. /\ w \in Table
      /\ \A u \in Timers : w[u].mRefCnt = x[u].mRefCnt - Holds(u = t)
      /\ \A u \in Timers :
            u # t \/ x[t].mRefCnt > 1 =>
               /\ w[u].mArmed = x[u].mArmed
               /\ w[u].mGeneration = x[u].mGeneration
               /\ w[u].mType = x[u].mType /\ w[u].delaySet = x[u].delaySet
               /\ w[u].mTimeout = x[u].mTimeout
      /\ x[t].mRefCnt = 1 => w[t] = Blank(0)
  BY <1>11
<1> HIDE DEF w
<1>5. timers[t].mRefCnt \in Nat /\ x[t].mRefCnt \in Nat
  BY <1>1 DEF Table, Fields
<1>6. ~w[t].mArmed
  <2>1. CASE x[t].mRefCnt = 1
    BY <1>4, <2>1, BlankType
  <2>2. CASE x[t].mRefCnt # 1
    BY <1>0, <1>1, <1>3, <1>4, <1>5, <2>2
  <2> QED
    BY <2>1, <2>2
<1>7. Disarmed(timers, t) = w
  BY <1>2 DEF w
<1>8. \A u \in Timers :
         /\ w[u].mRefCnt = timers[u].mRefCnt - Holds(u = t)
         /\ u # t => w[u].mArmed = timers[u].mArmed
         /\ u # t \/ timers[t].mRefCnt > 1 =>
               /\ w[u].mGeneration = timers[u].mGeneration
               /\ w[u].mType = timers[u].mType /\ w[u].delaySet = timers[u].delaySet
               /\ w[u].mTimeout = timers[u].mTimeout
  BY <1>1, <1>4
<1>9. timers[t].mRefCnt = 1 => w[t] = Blank(0)
  BY <1>1, <1>4
<1> QED
  BY <1>4, <1>6, <1>7, <1>8, <1>9, Zenon

\* RemoveTimerInternal does so if the timer is in the list.
LEMMA UnlistedTable ==
    ASSUME NEW list \in Seq(Timers), NEW timers \in Table, NEW t \in Timers,
           timers[t].mRefCnt >= Occurrences(t, list)
    PROVE  /\ Unlisted(list, timers, t) \in Table
           /\ InList(list, t) => ~Unlisted(list, timers, t)[t].mArmed
           /\ ~InList(list, t) => Unlisted(list, timers, t) = timers
           /\ \A u \in Timers :
                 /\ Unlisted(list, timers, t)[u].mRefCnt =
                       timers[u].mRefCnt - Holds(u = t /\ InList(list, t))
                 /\ u # t => Unlisted(list, timers, t)[u].mArmed = timers[u].mArmed
                 /\ u # t \/ timers[t].mRefCnt > 1 =>
                       /\ Unlisted(list, timers, t)[u].mGeneration = timers[u].mGeneration
                       /\ Unlisted(list, timers, t)[u].mType = timers[u].mType
                       /\ Unlisted(list, timers, t)[u].delaySet = timers[u].delaySet
                       /\ Unlisted(list, timers, t)[u].mTimeout = timers[u].mTimeout
           /\ timers[t].mRefCnt = 1 /\ InList(list, t) =>
                 Unlisted(list, timers, t)[t] = Blank(0)
<1>1. \A u \in Timers : timers[u].mRefCnt \in Nat
  BY DEF Table, Fields
<1>2. CASE ~InList(list, t)
  <2>1. Unlisted(list, timers, t) = timers
    BY <1>2 DEF Unlisted
  <2>2. \A u \in Timers :
           timers[u].mRefCnt = timers[u].mRefCnt - Holds(u = t /\ InList(list, t))
    BY <1>1, <1>2 DEF Holds
  <2> QED
    BY <1>2, <2>1, <2>2, Zenon
<1>3. CASE InList(list, t)
  <2>1. Occurrences(t, list) \in Nat /\ Occurrences(t, list) > 0
    BY <1>3, InListOccurs
  <2>2. timers[t].mRefCnt > 0
    BY <1>1, <2>1
  <2>3. Unlisted(list, timers, t) = Disarmed(timers, t)
    BY <1>3 DEF Unlisted
  <2>4. \A u \in Timers : Holds(u = t /\ InList(list, t)) = Holds(u = t)
    BY <1>3 DEF Holds
  <2>5. /\ Disarmed(timers, t) \in Table
        /\ ~Disarmed(timers, t)[t].mArmed
        /\ \A u \in Timers :
              /\ Disarmed(timers, t)[u].mRefCnt = timers[u].mRefCnt - Holds(u = t)
              /\ u # t => Disarmed(timers, t)[u].mArmed = timers[u].mArmed
              /\ u # t \/ timers[t].mRefCnt > 1 =>
                    /\ Disarmed(timers, t)[u].mGeneration = timers[u].mGeneration
                    /\ Disarmed(timers, t)[u].mType = timers[u].mType
                    /\ Disarmed(timers, t)[u].delaySet = timers[u].delaySet
                    /\ Disarmed(timers, t)[u].mTimeout = timers[u].mTimeout
        /\ timers[t].mRefCnt = 1 => Disarmed(timers, t)[t] = Blank(0)
    BY <2>2, DisarmedTable, Zenon
  <2> QED
    BY <1>3, <2>3, <2>4, <2>5, Zenon
<1> QED
  BY <1>2, <1>3

\* SetDelayInternal writes mDelay and mTimeout.
LEMMA SetDelayTable ==
    ASSUME NEW timers \in Table, NEW t \in Timers, NEW delay \in Delays \cup {0},
           now \in 0 .. MaxTime
    PROVE  /\ SetDelayInternal(timers, t, delay) \in Table
           /\ \A u \in Timers : u # t => SetDelayInternal(timers, t, delay)[u] = timers[u]
           /\ \A u \in Timers :
                 /\ SetDelayInternal(timers, t, delay)[u].mRefCnt = timers[u].mRefCnt
                 /\ SetDelayInternal(timers, t, delay)[u].mArmed = timers[u].mArmed
                 /\ SetDelayInternal(timers, t, delay)[u].mGeneration = timers[u].mGeneration
                 /\ SetDelayInternal(timers, t, delay)[u].mType = timers[u].mType
                 /\ SetDelayInternal(timers, t, delay)[u].delaySet = timers[u].delaySet
<1> DEFINE start == IF timers[t].mType = "REPEATING_PRECISE" THEN timers[t].mTimeout ELSE now
           v == start + delay
           x == WithDelay(timers, t, delay)
           w == WithTimeout(x, t, v)
<1>1. SetDelayInternal(timers, t, delay) = w
  BY DEF SetDelayInternal, WithDelay, WithTimeout
<1>2. v \in Nat
  <2>1. timers[t].mTimeout \in Nat
    BY DEF Table, Fields
  <2>2. start \in Nat /\ delay \in Nat
    BY <2>1, BoundsAssumption
  <2> QED
    BY <2>2
<1> HIDE DEF v
<1>3. /\ x \in Table
      /\ \A u \in Timers : u # t => x[u] = timers[u]
      /\ \A u \in Timers :
            /\ x[u].mRefCnt = timers[u].mRefCnt /\ x[u].mArmed = timers[u].mArmed
            /\ x[u].mGeneration = timers[u].mGeneration /\ x[u].mType = timers[u].mType
            /\ x[u].delaySet = timers[u].delaySet
  BY WithDelayTable
<1> HIDE DEF x
<1>4. /\ w \in Table
      /\ \A u \in Timers : u # t => w[u] = x[u]
      /\ \A u \in Timers :
            /\ w[u].mRefCnt = x[u].mRefCnt /\ w[u].mArmed = x[u].mArmed
            /\ w[u].mGeneration = x[u].mGeneration /\ w[u].mType = x[u].mType
            /\ w[u].delaySet = x[u].delaySet
  BY <1>2, <1>3, WithTimeoutTable
<1> HIDE DEF w
<1> QED
  BY <1>1, <1>3, <1>4, Zenon

-----------------------------------------------------------------------------
(***************************************************************************)
(* References are counted.                                                 *)
(***************************************************************************)

\* What the parts of References are made of.
LEMMA Parts ==
    ASSUME TypeOK
    PROVE  /\ timer \in Table
           /\ \A t \in Timers : timer[t] \in Fields /\ timer[t].mRefCnt \in Nat
           /\ Queued \in Seq(Timers)
           /\ \A t : /\ Occurrences(t, mTimers) \in Nat
                     /\ Occurrences(t, leaving) \in Nat
                     /\ Occurrences(t, Queued) \in Nat
<1>1. timer \in Table /\ \A t \in Timers : timer[t] \in Fields /\ timer[t].mRefCnt \in Nat
  BY DEF TypeOK, Table, Fields
<1>2. Queued \in Seq(Timers)
  <2>1. queue \in Seq(Events)
    BY DEF TypeOK
  <2>2. Len(queue) \in Nat /\ DOMAIN queue = 1 .. Len(queue)
        /\ \A i \in 1 .. Len(queue) : queue[i] \in Events
    BY <2>1, LenProperties, ElementOfSeq
  <2>3. \A i \in 1 .. Len(queue) : queue[i].timer \in Timers
    BY <2>2 DEF Events
  <2> QED
    BY <2>2, <2>3, IsASeq DEF Queued
<1>3. mTimers \in Seq(Timers) /\ leaving \in Seq(Timers)
  BY DEF TypeOK
<1> QED
  BY <1>1, <1>2, <1>3, InListOccurs

\* Everybody who has a reference counts.
LEMMA Referenced ==
    ASSUME TypeOK, Exact, NEW t \in Timers
    PROVE  timer[t].mRefCnt >= Holds(t \in held) + Occurrences(t, mTimers)
                                 + Occurrences(t, leaving)
                                 + Holds(cur = t /\ tpc.at # "unlist")
                                 + Occurrences(t, Queued) + Holds(firing = t)
                                 + Holds(call.op = "releasing" /\ call.timer = t)
<1>1. timer[t].mRefCnt = References(t)
  BY DEF Exact
<1> QED
  BY <1>1, Parts DEF References, Holds

\* A step that leaves references and their holders alone.
LEMMA CountedQuiet ==
    ASSUME Counted,
           UNCHANGED <<mTimers, timer, cur, queue, held, call, firing, leaving>>,
           tpc' \in [at : {"top", "again", "waiting", "done"}, until : Int] \/ tpc' = tpc,
           tpc' # tpc => cur = None,
           TypeOK'
    PROVE  Counted'
<1>1. Control'
  BY DEF Counted, Control, TypeOK
<1>2. ASSUME NEW t \in Timers
      PROVE  timer'[t].mRefCnt = References(t)'
  <2>1. timer[t].mRefCnt = References(t)
    BY DEF Counted, Exact
  <2>2. Queued' = Queued
    BY DEF Queued
  <2>3. cur = t /\ tpc.at # "unlist" <=> cur' = t /\ tpc'.at # "unlist"
    BY TimersAssumption DEF Counted, Control
  <2> QED
    BY <2>1, <2>2, <2>3 DEF References, Holds
<1> QED
  BY <1>1, <1>2 DEF Counted, Exact

\* Nobody has a reference but the owner, who has one to each timer.
LEMMA CountedInit == Init => Counted
<1> SUFFICES ASSUME Init
             PROVE  Counted
  OBVIOUS
<1>1. timer \in Table /\ \A t \in Timers : timer[t].mRefCnt = 1
  BY BlankType DEF Init, Table
<1>2. TypeOK
  <2>1. timer \in [Timers -> Fields]
    BY <1>1 DEF Table
  <2>2. /\ now \in 0 .. MaxTime /\ evGen \in 0 .. MaxInits /\ popped \in Looked
        /\ mTimeoutAdjustment \in Adjustments \cup {0} /\ index \in Nat
        /\ gGenerator \in 0 .. MaxInits /\ upsets \in Nat
    BY BoundsAssumption DEF Init, Looked, NotPopped
  <2>5. /\ mTimers \in Seq(Timers) /\ leaving \in Seq(Timers) /\ queue \in Seq(Events)
        /\ cur \in Timers \cup {None} /\ held \subseteq Timers /\ firing \in Timers \cup {None}
    BY DEF Init
  <2>6. /\ mShutdown \in BOOLEAN /\ mSleeping \in BOOLEAN /\ gThread \in BOOLEAN
        /\ saved \in BOOLEAN /\ rewritten \in BOOLEAN
    BY Zenon DEF Init
  <2>3. tpc \in [at : {"top", "again", "waiting", "post", "rearm", "dispatch", "drop",
                       "unlist", "done"}, until : Int]
    BY BoundsAssumption DEF Init, At, Never
  <2>4. call \in [op : {"idle", "adding", "changing", "releasing", "removing"},
                  timer : Timers \cup {None}]
    BY DEF Init
  <2> QED
    BY <2>1, <2>2, <2>3, <2>4, <2>5, <2>6, Zenon DEF TypeOK
<1>3. Control
  BY DEF Control, Init, At
<1>4. ASSUME NEW t \in Timers
      PROVE  timer[t].mRefCnt = References(t)
  <2>1. Occurrences(t, Queued) = 0
    <3>1. Queued \in Seq(Timers)
      BY <1>2, Parts
    <3>2. queue = <<>>
      BY DEF Init
    <3>3. DOMAIN queue = {}
      BY <3>2
    <3>4. DOMAIN Queued = {}
      BY <3>3 DEF Queued
    <3>5. \A k \in DOMAIN Queued : Queued[k] # t
      BY <3>4
    <3> QED
      BY <3>1, <3>5, OccurrencesType, Zenon
  <2>2. Occurrences(t, <<>>) = 0
    BY OccurrencesEmpty
  <2> QED
    BY <1>1, <2>1, <2>2, TimersAssumption DEF Init, References, Holds
<1> QED
  BY <1>2, <1>3, <1>4 DEF Counted, Exact

RunPlaces == {"top", "again", "waiting", "post", "rearm", "dispatch", "drop", "unlist", "done"}

\* The places in Run.
LEMMA AtType ==
    ASSUME NEW place \in RunPlaces
    PROVE  At(place) \in [at : RunPlaces, until : Int] /\ At(place).at = place
  BY BoundsAssumption DEF At, Never

\* A notification only moves a timer thread that waits.
LEMMA NotifiedType ==
    ASSUME tpc \in [at : RunPlaces, until : Int]
    PROVE  /\ Notified \in [at : RunPlaces, until : Int]
           /\ tpc.at # "waiting" => Notified = tpc
           /\ tpc.at = "waiting" => Notified.at = "top"
<1>1. At("top") \in [at : RunPlaces, until : Int] /\ At("top").at = "top"
  BY AtType DEF RunPlaces
<1> QED
  BY <1>1 DEF Notified

\* The timer thread begins a wait.
LEMMA CountedWaits ==
    ASSUME Counted, cur = None, NEW until \in Int, Waits(until) \/ Ends,
           UNCHANGED <<now, mShutdown, mSleeping, mTimeoutAdjustment, gThread, evGen, queue,
                       owner, counts>>
    PROVE  Counted'
<1>1. /\ tpc' \in [at : {"top", "again", "waiting", "done"}, until : Int]
      /\ UNCHANGED <<cur, popped, mTimers, timer>>
  <2>1. At("done") \in [at : {"top", "again", "waiting", "done"}, until : Int]
    BY BoundsAssumption DEF At, Never
  <2> QED
    BY <2>1 DEF Waits, Ends
<1>2. TypeOK'
  BY <1>1 DEF Counted, TypeOK, owner, counts
<1> QED
  BY <1>1, <1>2, CountedQuiet DEF owner

\* The reference of mTimers becomes the timer thread's own.
LEMMA CountedPops ==
    ASSUME Counted, cur = None, mTimers # <<>>, Pops,
           UNCHANGED <<now, mShutdown, mSleeping, mTimeoutAdjustment, gThread, evGen, queue,
                       owner, counts>>
    PROVE  Counted'
<1> DEFINE t == mTimers[1]
<1>1. TypeOK /\ Control /\ Exact
  BY DEF Counted
<1>2. mTimers \in Seq(Timers) /\ t = Head(mTimers) /\ t \in Timers
      /\ Tail(mTimers) \in Seq(Timers)
  BY <1>1 DEF TypeOK
<1>3. tpc' = At("post") /\ cur' = t /\ popped' = Popped(t)
      /\ mTimers' = Tail(mTimers)
  BY DEF Pops, Popped
<1>4. PICK v \in BOOLEAN : v = FALSE
  OBVIOUS
<1>5. timer' = WithArmed(timer, t, v)
  BY <1>4, Zenon DEF Pops, WithArmed
<1> HIDE DEF t
<1>6. timer' \in Table /\ \A u \in Timers : timer'[u].mRefCnt = timer[u].mRefCnt
  BY <1>1, <1>2, <1>5, Parts, WithArmedTable
<1>7. tpc' \in [at : RunPlaces, until : Int] /\ tpc'.at = "post"
  BY <1>3, AtType DEF RunPlaces
<1>8. popped' \in Looked
  BY <1>1, <1>2, <1>3, Parts DEF Fields, Looked, Popped, TypeOK
<1>9. TypeOK'
  BY <1>1, <1>2, <1>3, <1>6, <1>7, <1>8 DEF TypeOK, Table, RunPlaces, owner, counts
<1>10. Control'
  BY <1>1, <1>2, <1>3, <1>7, TimersAssumption DEF Control, owner
<1>11. ASSUME NEW u \in Timers
       PROVE  timer'[u].mRefCnt = References(u)'
  <2>1. Occurrences(u, mTimers) = Occurrences(u, mTimers') + Holds(t = u)
    BY <1>2, <1>3, OccurrencesTail DEF Holds
  <2>2. Queued' = Queued
    BY DEF Queued
  <2>3. Occurrences(u, mTimers') \in Nat
    BY <1>9, <1>3, <1>2, InListOccurs
  <2>4. timer[u].mRefCnt = References(u)
    BY <1>1 DEF Exact
  <2>5. cur # u
    BY TimersAssumption
  <2>6. UNCHANGED <<held, leaving, firing, call>>
    BY DEF owner
  <2>7. cur' = t
    BY <1>3
  <2> QED
    BY <1>1, <1>6, <1>7, <2>7, <2>1, <2>2, <2>3, <2>4, <2>5, <2>6, Parts DEF References, Holds
<1> QED
  BY <1>9, <1>10, <1>11 DEF Counted, Exact

\* The timer thread looks at the list.
LEMMA CountedTop ==
    ASSUME Counted, Top \/ Again
    PROVE  Counted'
<1>1. TypeOK /\ Control
  BY DEF Counted
<1>2. cur = None
  BY <1>1 DEF Control, Top, Again
<1>3. UNCHANGED <<now, mShutdown, mSleeping, mTimeoutAdjustment, gThread, evGen, queue, owner,
                  counts>>
  BY DEF Top, Again
<1>4. Ends \/ Waits(now) \/ Looks
  BY DEF Top, Again
<1>5. now \in Int /\ Never \in Int
  BY <1>1, BoundsAssumption DEF TypeOK, Never
<1>6. CASE Ends \/ Waits(now)
  BY <1>2, <1>3, <1>5, <1>6, CountedWaits
<1>7. CASE Looks
  <2>1. CASE mTimers = <<>>
    BY <1>2, <1>3, <1>5, <1>7, <2>1, CountedWaits DEF Looks
  <2>2. CASE mTimers # <<>> /\ now >= timer[mTimers[1]].mTimeout + mTimeoutAdjustment
    BY <1>2, <1>3, <1>7, <2>2, CountedPops DEF Looks
  <2>3. CASE mTimers # <<>> /\ ~(now >= timer[mTimers[1]].mTimeout + mTimeoutAdjustment)
    <3>1. mTimers[1] \in Timers
      BY <1>1, <2>3 DEF TypeOK
    <3>2. timer[mTimers[1]].mTimeout + mTimeoutAdjustment \in Int
      BY <1>1, <3>1, BoundsAssumption DEF TypeOK, Fields
    <3> QED
      BY <1>2, <1>3, <1>7, <2>3, <3>2, CountedWaits DEF Looks
  <2> QED
    BY <2>1, <2>2, <2>3
<1> QED
  BY <1>4, <1>6, <1>7

\* What AddTimer does.
LEMMA AddTimerEffect ==
    ASSUME TypeOK, NEW list \in Seq(Timers), NEW timers \in Table, NEW t \in Timers,
           AddTimer(list, timers, t)
    PROVE  /\ mTimers' \in Seq(Timers) /\ timer' \in Table
           /\ tpc' \in [at : RunPlaces, until : Int]
           /\ tpc'.at \in {"post", "rearm", "dispatch", "drop", "unlist"} <=>
                 tpc.at \in {"post", "rearm", "dispatch", "drop", "unlist"}
           /\ tpc'.at # "waiting" /\ tpc'.at # "top" => tpc' = tpc
           /\ \A u : Occurrences(u, mTimers') =
                        Occurrences(u, list) + Holds(u = t /\ ~mShutdown)
           /\ \A u \in Timers :
                 /\ timer'[u].mRefCnt = timers[u].mRefCnt + Holds(u = t /\ ~mShutdown)
                 /\ timer'[u].mArmed = (timers[u].mArmed \/ (u = t /\ ~mShutdown))
                 /\ timer'[u].mGeneration = timers[u].mGeneration
                 /\ timer'[u].mType = timers[u].mType /\ timer'[u].delaySet = timers[u].delaySet
                 /\ timer'[u].mTimeout = timers[u].mTimeout
           /\ mShutdown => mTimers' = list
<1>1. tpc \in [at : RunPlaces, until : Int] /\ mShutdown \in BOOLEAN
  BY DEF TypeOK, RunPlaces
<1>2. \A u \in Timers : timers[u].mRefCnt \in Nat /\ timers[u].mArmed \in BOOLEAN
  BY DEF Table, Fields
<1>3. \A u : Occurrences(u, list) \in Nat
  BY InListOccurs
<1>4. CASE mShutdown
  <2>1. mTimers' = list /\ timer' = timers /\ tpc' = tpc
    BY <1>4 DEF AddTimer
  <2>3. \A u : Occurrences(u, mTimers') = Occurrences(u, list) + Holds(u = t /\ ~mShutdown)
    BY <1>3, <1>4, <2>1 DEF Holds
  <2>4. \A u \in Timers :
           timer'[u].mRefCnt = timers[u].mRefCnt + Holds(u = t /\ ~mShutdown)
    BY <1>2, <1>4, <2>1 DEF Holds
  <2>5. \A u \in Timers : timer'[u].mArmed = (timers[u].mArmed \/ (u = t /\ ~mShutdown))
    BY <1>2, <1>4, <2>1
  <2> QED
    BY <1>1, <1>4, <2>1, <2>3, <2>4, <2>5, Zenon
<1>5. CASE ~mShutdown
  <2>1. PICK i \in Places(list, timers, t) :
           /\ mTimers' = Inserted(list, i, t)
           /\ timer' = Armed(timers, t)
           /\ tpc' = IF i = 0 THEN Notified ELSE tpc
    BY <1>5, Zenon DEF AddTimer
  <2>2. i \in 0 .. Len(list)
    BY DEF Places
  <2>3. /\ mTimers' \in Seq(Timers)
        /\ \A u : Occurrences(u, mTimers') = Occurrences(u, list) + Holds(u = t)
    BY <2>1, <2>2, InsertedElements
  <2>4. \A u : Holds(u = t /\ ~mShutdown) = Holds(u = t)
    BY <1>5 DEF Holds
  <2>5. /\ timer' \in Table
        /\ \A u \in Timers :
              /\ timer'[u].mRefCnt = timers[u].mRefCnt + Holds(u = t)
              /\ timer'[u].mArmed = (u = t \/ timers[u].mArmed)
              /\ timer'[u].mGeneration = timers[u].mGeneration
              /\ timer'[u].mType = timers[u].mType /\ timer'[u].delaySet = timers[u].delaySet
              /\ timer'[u].mTimeout = timers[u].mTimeout
    BY <2>1, ArmedTable
  <2>6. \A u \in Timers : timer'[u].mArmed = (timers[u].mArmed \/ (u = t /\ ~mShutdown))
    BY <1>2, <1>5, <2>5
  <2>7. /\ tpc' \in [at : RunPlaces, until : Int]
        /\ tpc'.at \in {"post", "rearm", "dispatch", "drop", "unlist"} <=>
              tpc.at \in {"post", "rearm", "dispatch", "drop", "unlist"}
        /\ tpc'.at # "waiting" /\ tpc'.at # "top" => tpc' = tpc
    BY <1>1, <2>1, NotifiedType
  <2>8. \A u : Occurrences(u, mTimers') = Occurrences(u, list) + Holds(u = t /\ ~mShutdown)
    BY <2>3, <2>4
  <2>9. \A u \in Timers :
           timer'[u].mRefCnt = timers[u].mRefCnt + Holds(u = t /\ ~mShutdown)
    BY <2>4, <2>5
  <2> QED
    BY <1>5, <2>3, <2>5, <2>6, <2>7, <2>8, <2>9, Zenon
<1> QED
  BY <1>1, <1>4, <1>5

\* What taking a timer out of the list does.
LEMMA UnlistedEffect ==
    ASSUME TypeOK, Exact, NEW t \in Timers
    PROVE  /\ Removed(mTimers, t) \in Seq(Timers)
           /\ Unlisted(mTimers, timer, t) \in Table
           /\ \A u : Occurrences(u, Removed(mTimers, t)) =
                        Occurrences(u, mTimers) - Holds(u = t /\ InList(mTimers, t))
           /\ \A u \in Timers :
                 Unlisted(mTimers, timer, t)[u].mRefCnt =
                    timer[u].mRefCnt - Holds(u = t /\ InList(mTimers, t))
<1>1. mTimers \in Seq(Timers) /\ timer \in Table
  BY Parts DEF TypeOK
<1>2. timer[t].mRefCnt >= Occurrences(t, mTimers)
  <2>1. timer[t].mRefCnt >= Holds(t \in held) + Occurrences(t, mTimers)
                              + Occurrences(t, leaving)
                              + Holds(cur = t /\ tpc.at # "unlist")
                              + Occurrences(t, Queued) + Holds(firing = t)
                              + Holds(call.op = "releasing" /\ call.timer = t)
    BY Referenced
  <2> QED
    BY <2>1, Parts DEF Holds
<1> QED
  BY <1>1, <1>2, RemovedElements, UnlistedTable

\* What Release does, up to the monitor.
LEMMA ReleasedTable ==
    ASSUME TypeOK, NEW t \in Timers, timer[t].mRefCnt > 0
    PROVE  /\ Released(t) \in Table
           /\ \A u \in Timers :
                 /\ Released(t)[u].mRefCnt = timer[u].mRefCnt - Holds(u = t)
                 /\ u # t \/ timer[t].mRefCnt > 1 =>
                       /\ Released(t)[u].mArmed = timer[u].mArmed
                       /\ Released(t)[u].mGeneration = timer[u].mGeneration
                       /\ Released(t)[u].mType = timer[u].mType
                       /\ Released(t)[u].delaySet = timer[u].delaySet
                       /\ Released(t)[u].mTimeout = timer[u].mTimeout
           /\ timer[t].mRefCnt = 1 => Released(t)[t] = Blank(0)
<1> DEFINE x == [timer EXCEPT ![t].mCanceled = @ \/ Alone(t)]
           w == Released(t)
<1>1. timer \in Table /\ timer[t] \in Fields
  BY Parts
<1>2. PICK v \in BOOLEAN : v = (timer[t].mCanceled \/ Alone(t))
  OBVIOUS
<1>3. x = WithCanceled(timer, t, v)
  BY <1>2, Zenon DEF WithCanceled
<1>4. w = Dropped(x, t)
  BY Zenon DEF Released
<1> HIDE DEF x, w
<1>5. /\ x \in Table
      /\ \A u \in Timers :
            /\ x[u].mRefCnt = timer[u].mRefCnt /\ x[u].mArmed = timer[u].mArmed
            /\ x[u].mGeneration = timer[u].mGeneration /\ x[u].mType = timer[u].mType
            /\ x[u].delaySet = timer[u].delaySet
            /\ x[u].mTimeout = timer[u].mTimeout
  BY <1>1, <1>3, WithCanceledTable
<1>6. x[t].mRefCnt > 0
  BY <1>5
<1>7. /\ w \in Table
      /\ \A u \in Timers : w[u].mRefCnt = x[u].mRefCnt - Holds(u = t)
      /\ \A u \in Timers :
            u # t \/ x[t].mRefCnt > 1 =>
               /\ w[u].mArmed = x[u].mArmed
               /\ w[u].mGeneration = x[u].mGeneration
               /\ w[u].mType = x[u].mType /\ w[u].delaySet = x[u].delaySet
               /\ w[u].mTimeout = x[u].mTimeout
      /\ x[t].mRefCnt = 1 => w[t] = Blank(0)
  BY <1>4, <1>5, <1>6, DroppedTable
<1>8. /\ w \in Table
      /\ \A u \in Timers :
            /\ w[u].mRefCnt = timer[u].mRefCnt - Holds(u = t)
            /\ u # t \/ timer[t].mRefCnt > 1 =>
                  /\ w[u].mArmed = timer[u].mArmed
                  /\ w[u].mGeneration = timer[u].mGeneration
                  /\ w[u].mType = timer[u].mType /\ w[u].delaySet = timer[u].delaySet
                  /\ w[u].mTimeout = timer[u].mTimeout
      /\ timer[t].mRefCnt = 1 => w[t] = Blank(0)
  BY <1>5, <1>7
<1> QED
  BY <1>8, Zenon DEF w

\* The timer thread's steps.
LEMMA CountedMakeEvent == Counted /\ MakeEvent => Counted'
<1> SUFFICES ASSUME Counted, MakeEvent
             PROVE  Counted'
  OBVIOUS
<1>1. TypeOK /\ Control /\ Exact
  BY DEF Counted
<1>2. tpc.at = "post" /\ cur \in Timers
  BY <1>1 DEF MakeEvent, Control, TypeOK
<1>3. timer[cur] \in Fields /\ timer \in Table
  BY <1>1, <1>2, Parts
<1>4. timer' \in Table /\ \A u \in Timers : timer'[u].mRefCnt = timer[u].mRefCnt
  <2>1. timer[cur].mDelay \in Delays \cup {0}
    BY <1>3 DEF Fields
  <2>2. now \in 0 .. MaxTime
    BY <1>1 DEF TypeOK
  <2>3. CASE timer' = SetDelayInternal(timer, cur, timer[cur].mDelay)
    BY <1>2, <1>3, <2>1, <2>2, <2>3, SetDelayTable
  <2>4. CASE timer' = timer
    BY <1>3, <2>4
  <2> QED
    BY <2>3, <2>4 DEF MakeEvent
<1>5. tpc' \in [at : RunPlaces, until : Int] /\ tpc'.at \in {"rearm", "dispatch"}
  BY AtType DEF MakeEvent, RunPlaces
<1>6. evGen' \in 0 .. MaxInits /\ rewritten' \in BOOLEAN
  BY <1>1, <1>3 DEF MakeEvent, Fields, WritesTimeout, TypeOK
<1>7. UNCHANGED <<now, mTimers, mShutdown, mSleeping, mTimeoutAdjustment, gThread, cur, popped,
                  queue,
                  owner, gGenerator, upsets>>
  BY DEF MakeEvent
<1>8. TypeOK'
  BY <1>1, <1>4, <1>5, <1>6, <1>7 DEF TypeOK, Table, RunPlaces, owner
<1>9. Control'
  BY <1>1, <1>2, <1>5, <1>7 DEF Control, owner
<1>10. ASSUME NEW u \in Timers
       PROVE  timer'[u].mRefCnt = References(u)'
  <2>1. Queued' = Queued
    BY <1>7 DEF Queued
  <2>2. timer[u].mRefCnt = References(u)
    BY <1>1 DEF Exact
  <2> QED
    BY <1>2, <1>4, <1>5, <1>7, <2>1, <2>2 DEF References, Holds, owner
<1> QED
  BY <1>8, <1>9, <1>10 DEF Counted, Exact

\* The timer thread puts a precise timer back, with a reference for the list.
LEMMA CountedRearm == Counted /\ Rearm => Counted'
<1> SUFFICES ASSUME Counted, Rearm
             PROVE  Counted'
  OBVIOUS
<1>1. TypeOK /\ Control /\ Exact
  BY DEF Counted
<1>2. tpc.at = "rearm" /\ cur \in Timers
  BY <1>1 DEF Rearm, Control, TypeOK
<1>3. timer \in Table /\ mTimers \in Seq(Timers)
  BY <1>1, Parts DEF TypeOK
<1>4. UNCHANGED <<now, mShutdown, mSleeping, mTimeoutAdjustment, gThread, cur, evGen, popped,
                  queue, owner,
                  counts>>
  BY DEF Rearm
<1>5. /\ timer' \in Table /\ mTimers' \in Seq(Timers)
      /\ \A u \in Timers :
            timer'[u].mRefCnt = timer[u].mRefCnt + Holds(u = cur /\ ~mShutdown)
      /\ \A u : Occurrences(u, mTimers') =
                   Occurrences(u, mTimers) + Holds(u = cur /\ ~mShutdown)
  <2>1. CASE mShutdown
    <3>1. timer' = timer /\ mTimers' = mTimers
      BY <2>1 DEF Rearm
    <3> QED
      BY <1>1, <1>3, <2>1, <3>1, Parts DEF Holds
  <2>2. CASE ~mShutdown
    <3>1. PICK i \in Places(mTimers, timer, cur) :
             mTimers' = Inserted(mTimers, i, cur) /\ timer' = Armed(timer, cur)
      BY <2>2, Zenon DEF Rearm
    <3>2. i \in 0 .. Len(mTimers)
      BY DEF Places
    <3>3. /\ mTimers' \in Seq(Timers)
          /\ \A u : Occurrences(u, mTimers') = Occurrences(u, mTimers) + Holds(u = cur)
      BY <1>2, <1>3, <3>1, <3>2, InsertedElements
    <3>4. /\ timer' \in Table
          /\ \A u \in Timers : timer'[u].mRefCnt = timer[u].mRefCnt + Holds(u = cur)
      BY <1>2, <1>3, <3>1, ArmedTable
    <3> QED
      BY <2>2, <3>3, <3>4 DEF Holds
  <2> QED
    BY <2>1, <2>2
<1>6. tpc' \in [at : RunPlaces, until : Int] /\ tpc'.at \in {"drop", "dispatch"}
  BY AtType DEF Rearm, RunPlaces
<1>7. TypeOK'
  BY <1>1, <1>4, <1>5, <1>6 DEF TypeOK, Table, RunPlaces, owner, counts
<1>8. Control'
  BY <1>1, <1>2, <1>4, <1>6 DEF Control, owner
<1>9. ASSUME NEW u \in Timers
      PROVE  timer'[u].mRefCnt = References(u)'
  <2>1. Queued' = Queued
    BY <1>4 DEF Queued
  <2>2. timer[u].mRefCnt = References(u)
    BY <1>1 DEF Exact
  <2>3. UNCHANGED <<held, leaving, firing, call, cur>>
    BY <1>4 DEF owner
  <2>4. /\ Occurrences(u, mTimers) \in Nat /\ Occurrences(u, leaving) \in Nat
        /\ Occurrences(u, Queued) \in Nat
    BY <1>1, Parts
  <2>5. /\ timer'[u].mRefCnt = timer[u].mRefCnt + Holds(u = cur /\ ~mShutdown)
        /\ Occurrences(u, mTimers') = Occurrences(u, mTimers) + Holds(u = cur /\ ~mShutdown)
    BY <1>5
  <2>6. tpc.at # "unlist" /\ tpc'.at # "unlist"
    BY <1>2, <1>6
  <2> QED
    BY <2>1, <2>2, <2>3, <2>4, <2>5, <2>6 DEF References, Holds
<1> QED
  BY <1>7, <1>8, <1>9 DEF Counted, Exact

\* The timers of the events in the queue, after a step.
LEMMA QueuedSteps ==
    ASSUME TypeOK
    PROVE  /\ \A e \in Events : queue' = Append(queue, e) => Queued' = Append(Queued, e.timer)
           /\ queue # <<>> /\ queue' = Tail(queue) =>
                 /\ Queued # <<>> /\ Head(Queued) = Head(queue).timer
                 /\ Queued' = Tail(Queued)
                 /\ Head(queue) \in Events /\ queue' \in Seq(Events)
<1>1. queue \in Seq(Events)
  BY DEF TypeOK
<1>2. Queued \in Seq(Timers)
  BY Parts
<1>3. Len(Queued) = Len(queue) /\ DOMAIN Queued = DOMAIN queue
      /\ \A i \in DOMAIN queue : Queued[i] = queue[i].timer
  <2>1. DOMAIN Queued = DOMAIN queue /\ \A i \in DOMAIN queue : Queued[i] = queue[i].timer
    BY DEF Queued
  <2> QED
    BY <1>1, <1>2, <2>1, LenProperties
<1>4. DOMAIN Queued' = DOMAIN queue' /\ \A i \in DOMAIN queue' : Queued'[i] = queue'[i].timer
  BY DEF Queued
<1>5. Queued' = [i \in DOMAIN queue' |-> queue'[i].timer]
  BY DEF Queued
<1>6. ASSUME NEW e \in Events, queue' = Append(queue, e)
      PROVE  Queued' = Append(Queued, e.timer)
  <2> DEFINE a == Append(Queued, e.timer)
  <2>1. e.timer \in Timers
    BY DEF Events
  <2>2. /\ queue' \in Seq(Events) /\ DOMAIN queue' = 1 .. Len(queue) + 1
        /\ queue'[Len(queue) + 1] = e
        /\ \A i \in 1 .. Len(queue) : queue'[i] = queue[i]
        /\ DOMAIN queue = 1 .. Len(queue) /\ Len(queue) \in Nat
    BY <1>1, <1>6, AppendProperties, LenProperties
  <2>3. /\ a \in Seq(Timers) /\ DOMAIN a = 1 .. Len(Queued) + 1
        /\ a[Len(Queued) + 1] = e.timer
        /\ \A i \in 1 .. Len(Queued) : a[i] = Queued[i]
    BY <1>2, <2>1, AppendProperties, LenProperties
  <2> HIDE DEF a
  <2>4. DOMAIN a = DOMAIN queue'
    BY <1>3, <2>2, <2>3
  <2>5. \A i \in DOMAIN a : a[i] = queue'[i].timer
    BY <1>3, <2>2, <2>3
  <2>6. a = [i \in DOMAIN a |-> a[i]]
    BY <2>3
  <2>7. a = Queued'
    BY <1>5, <2>4, <2>5, <2>6
  <2> QED
    BY <2>7 DEF a
<1>7. ASSUME queue # <<>>, queue' = Tail(queue)
      PROVE  /\ Queued # <<>> /\ Head(Queued) = Head(queue).timer
             /\ Queued' = Tail(Queued)
             /\ Head(queue) \in Events /\ queue' \in Seq(Events)
  <2>1. Len(queue) \in Nat /\ Len(queue) > 0 /\ DOMAIN queue = 1 .. Len(queue)
    BY <1>1, <1>7, EmptySeq, LenProperties
  <2>2. Queued # <<>>
    BY <1>2, <1>3, <2>1, EmptySeq
  <2> DEFINE a == Tail(Queued)
  <2>3. /\ queue' \in Seq(Events) /\ Head(queue) \in Events /\ Head(queue) = queue[1]
        /\ DOMAIN queue' = 1 .. Len(queue) - 1
        /\ \A i \in 1 .. Len(queue) - 1 : queue'[i] = queue[i + 1]
    BY <1>1, <1>7, <2>1, HeadTailProperties, LenProperties
  <2>4. /\ a \in Seq(Timers) /\ Head(Queued) = Queued[1]
        /\ DOMAIN a = 1 .. Len(Queued) - 1
        /\ \A i \in 1 .. Len(Queued) - 1 : a[i] = Queued[i + 1]
    BY <1>2, <2>2, HeadTailProperties, LenProperties
  <2> HIDE DEF a
  <2>5. DOMAIN a = DOMAIN queue' /\ \A i \in DOMAIN a : a[i] = queue'[i].timer
    <3>1. Len(Queued) = Len(queue) /\ DOMAIN a = DOMAIN queue'
      BY <1>3, <2>3, <2>4
    <3>2. ASSUME NEW i \in DOMAIN a
          PROVE  a[i] = queue'[i].timer
      <4>1. /\ i \in 1 .. Len(queue) - 1 /\ i + 1 \in DOMAIN queue
            /\ a[i] = Queued[i + 1] /\ queue'[i] = queue[i + 1]
        BY <2>1, <2>3, <2>4, <3>1, <3>2
      <4> QED
        BY <1>3, <4>1
    <3> QED
      BY <3>1, <3>2
  <2>6. a = [i \in DOMAIN a |-> a[i]]
    BY <2>4
  <2>7. a = Queued'
    BY <1>5, <2>5, <2>6
  <2>8. Head(Queued) = Head(queue).timer
    BY <1>3, <2>1, <2>3, <2>4
  <2> QED
    BY <2>2, <2>3, <2>7, <2>8 DEF a
<1> QED
  BY <1>6, <1>7

\* The timer thread's reference goes to the event.
LEMMA CountedDispatchEvent == Counted /\ DispatchEvent => Counted'
<1> SUFFICES ASSUME Counted, DispatchEvent
             PROVE  Counted'
  OBVIOUS
<1>1. TypeOK /\ Control /\ Exact
  BY DEF Counted
<1>2. tpc.at = "dispatch" /\ cur \in Timers
  BY <1>1 DEF DispatchEvent, Control, TypeOK
<1> DEFINE e == [timer |-> cur, generation |-> evGen, popped |-> popped]
<1>3. e \in Events /\ e.timer = cur
  BY <1>1, <1>2 DEF Events, TypeOK
<1>4. /\ queue' = Append(queue, e) /\ tpc' = At("again") /\ cur' = None
      /\ evGen' = 0 /\ popped' = NotPopped
      /\ UNCHANGED <<now, mTimers, mShutdown, mSleeping, mTimeoutAdjustment, gThread, timer,
                     owner, counts>>
  BY DEF DispatchEvent
<1> HIDE DEF e
<1>5. Queued' = Append(Queued, cur)
  BY <1>1, <1>3, <1>4, QueuedSteps
<1>6. tpc' \in [at : RunPlaces, until : Int] /\ tpc'.at = "again"
  BY <1>4, AtType DEF RunPlaces
<1>7. queue' \in Seq(Events)
  BY <1>1, <1>3, <1>4 DEF TypeOK
<1>8. evGen' \in 0 .. MaxInits /\ popped' \in Looked
  BY <1>4, BoundsAssumption DEF Looked, NotPopped
<1>9. TypeOK'
  BY <1>1, <1>4, <1>6, <1>7, <1>8 DEF TypeOK, RunPlaces, owner, counts
<1>10. Control'
  BY <1>1, <1>4, <1>6 DEF Control, owner
<1>11. ASSUME NEW u \in Timers
       PROVE  timer'[u].mRefCnt = References(u)'
  <2>1. Occurrences(u, Queued') = Occurrences(u, Queued) + Holds(u = cur)
    BY <1>1, <1>2, <1>5, Parts, OccurrencesAppend DEF Holds
  <2>2. timer[u].mRefCnt = References(u)
    BY <1>1 DEF Exact
  <2>3. UNCHANGED <<held, leaving, firing, call, mTimers, timer>>
    BY <1>4 DEF owner
  <2>4. /\ Occurrences(u, mTimers) \in Nat /\ Occurrences(u, leaving) \in Nat
        /\ Occurrences(u, Queued) \in Nat
    BY <1>1, Parts
  <2>5. cur' # u /\ tpc.at # "unlist"
    BY <1>2, <1>4, TimersAssumption
  <2> QED
    BY <2>1, <2>2, <2>3, <2>4, <2>5 DEF References, Holds
<1> QED
  BY <1>9, <1>10, <1>11 DEF Counted, Exact

\* The list gives up its reference if the timer is in it.
LEMMA CountedDispatchRefused == Counted /\ DispatchRefused => Counted'
<1> SUFFICES ASSUME Counted, DispatchRefused
             PROVE  Counted'
  OBVIOUS
<1>1. TypeOK /\ Control /\ Exact
  BY DEF Counted
<1>2. tpc.at = "dispatch" /\ cur \in Timers
  BY <1>1 DEF DispatchRefused, Control, TypeOK
<1>3. /\ mTimers' = Removed(mTimers, cur) /\ timer' = Unlisted(mTimers, timer, cur)
      /\ tpc' = At("drop") /\ upsets' = upsets + 1
      /\ UNCHANGED <<now, mShutdown, mSleeping, mTimeoutAdjustment, gThread, cur, evGen,
                     popped, queue, owner,
                     gGenerator, rewritten>>
  BY DEF DispatchRefused
<1>4. /\ mTimers' \in Seq(Timers) /\ timer' \in Table
      /\ \A u : Occurrences(u, mTimers') =
                   Occurrences(u, mTimers) - Holds(u = cur /\ InList(mTimers, cur))
      /\ \A u \in Timers :
            timer'[u].mRefCnt = timer[u].mRefCnt - Holds(u = cur /\ InList(mTimers, cur))
  BY <1>1, <1>2, <1>3, UnlistedEffect
<1>5. tpc' \in [at : RunPlaces, until : Int] /\ tpc'.at = "drop"
  BY <1>3, AtType DEF RunPlaces
<1>6. TypeOK'
  BY <1>1, <1>3, <1>4, <1>5 DEF TypeOK, Table, RunPlaces, owner
<1>7. Control'
  BY <1>1, <1>2, <1>3, <1>5 DEF Control, owner
<1>8. ASSUME NEW u \in Timers
      PROVE  timer'[u].mRefCnt = References(u)'
  <2>1. Queued' = Queued
    BY <1>3 DEF Queued
  <2>2. timer[u].mRefCnt = References(u)
    BY <1>1 DEF Exact
  <2>3. UNCHANGED <<held, leaving, firing, call, cur>>
    BY <1>3 DEF owner
  <2>4. /\ Occurrences(u, mTimers) \in Nat /\ Occurrences(u, leaving) \in Nat
        /\ Occurrences(u, Queued) \in Nat
    BY <1>1, Parts
  <2>5. /\ timer'[u].mRefCnt = timer[u].mRefCnt - Holds(u = cur /\ InList(mTimers, cur))
        /\ Occurrences(u, mTimers') =
              Occurrences(u, mTimers) - Holds(u = cur /\ InList(mTimers, cur))
    BY <1>4
  <2>6. tpc.at # "unlist" /\ tpc'.at # "unlist"
    BY <1>2, <1>5
  <2> QED
    BY <2>1, <2>2, <2>3, <2>4, <2>5, <2>6 DEF References, Holds
<1> QED
  BY <1>6, <1>7, <1>8 DEF Counted, Exact

\* The timer thread gives up its reference.
LEMMA CountedDropTimer == Counted /\ DropTimer => Counted'
<1> SUFFICES ASSUME Counted, DropTimer
             PROVE  Counted'
  OBVIOUS
<1>1. TypeOK /\ Control /\ Exact
  BY DEF Counted
<1>2. tpc.at = "drop" /\ cur \in Timers
  BY <1>1 DEF DropTimer, Control, TypeOK
<1>3. timer[cur].mRefCnt > 0
  <2>1. timer[cur].mRefCnt = References(cur)
    BY <1>1, <1>2 DEF Exact
  <2> QED
    BY <1>1, <1>2, <2>1, Parts DEF References, Holds
<1>4. /\ timer' = Released(cur)
      /\ tpc' = At(IF Alone(cur) THEN "unlist" ELSE "again")
      /\ cur' = IF Alone(cur) THEN cur ELSE None
      /\ evGen' = 0 /\ popped' = NotPopped
      /\ UNCHANGED <<now, mTimers, mShutdown, mSleeping, mTimeoutAdjustment, gThread, queue,
                     owner, counts>>
  BY DEF DropTimer
<1>5. /\ timer' \in Table
      /\ \A u \in Timers : timer'[u].mRefCnt = timer[u].mRefCnt - Holds(u = cur)
  BY <1>1, <1>2, <1>3, <1>4, ReleasedTable
<1>6. /\ tpc' \in [at : RunPlaces, until : Int]
      /\ tpc'.at = IF Alone(cur) THEN "unlist" ELSE "again"
  BY <1>4, AtType DEF RunPlaces
<1>7. evGen' \in 0 .. MaxInits /\ popped' \in Looked /\ cur' \in Timers \cup {None}
  BY <1>2, <1>4, BoundsAssumption DEF Looked, NotPopped
<1>8. TypeOK'
  BY <1>1, <1>4, <1>5, <1>6, <1>7 DEF TypeOK, Table, RunPlaces, owner, counts
<1>9. Control'
  BY <1>1, <1>2, <1>4, <1>6, TimersAssumption DEF Control, owner
<1>10. ASSUME NEW u \in Timers
       PROVE  timer'[u].mRefCnt = References(u)'
  <2>1. Queued' = Queued
    BY <1>4 DEF Queued
  <2>2. timer[u].mRefCnt = References(u)
    BY <1>1 DEF Exact
  <2>3. UNCHANGED <<held, leaving, firing, call, mTimers>>
    BY <1>4 DEF owner
  <2>4. /\ Occurrences(u, mTimers) \in Nat /\ Occurrences(u, leaving) \in Nat
        /\ Occurrences(u, Queued) \in Nat
    BY <1>1, Parts
  <2>5. timer'[u].mRefCnt = timer[u].mRefCnt - Holds(u = cur)
    BY <1>5
  <2>6. ~(cur' = u /\ tpc'.at # "unlist") /\ tpc.at # "unlist"
    BY <1>2, <1>4, <1>6, TimersAssumption
  <2> QED
    BY <2>1, <2>2, <2>3, <2>4, <2>5, <2>6 DEF References, Holds
<1> QED
  BY <1>8, <1>9, <1>10 DEF Counted, Exact

\* The timer thread takes the timer out without a reference of its own.
LEMMA CountedDropUnlists == Counted /\ DropUnlists => Counted'
<1> SUFFICES ASSUME Counted, DropUnlists
             PROVE  Counted'
  OBVIOUS
<1>1. TypeOK /\ Control /\ Exact
  BY DEF Counted
<1>2. tpc.at = "unlist" /\ cur \in Timers
  BY <1>1 DEF DropUnlists, Control, TypeOK
<1>3. /\ mTimers' = Removed(mTimers, cur) /\ timer' = Unlisted(mTimers, timer, cur)
      /\ tpc' = At("again") /\ cur' = None
      /\ UNCHANGED <<now, mShutdown, mSleeping, mTimeoutAdjustment, gThread, evGen, popped,
                     queue, owner, counts>>
  BY DEF DropUnlists
<1>4. /\ mTimers' \in Seq(Timers) /\ timer' \in Table
      /\ \A u : Occurrences(u, mTimers') =
                   Occurrences(u, mTimers) - Holds(u = cur /\ InList(mTimers, cur))
      /\ \A u \in Timers :
            timer'[u].mRefCnt = timer[u].mRefCnt - Holds(u = cur /\ InList(mTimers, cur))
  BY <1>1, <1>2, <1>3, UnlistedEffect
<1>5. tpc' \in [at : RunPlaces, until : Int] /\ tpc'.at = "again"
  BY <1>3, AtType DEF RunPlaces
<1>6. TypeOK'
  BY <1>1, <1>3, <1>4, <1>5 DEF TypeOK, Table, RunPlaces, owner, counts
<1>7. Control'
  BY <1>1, <1>2, <1>3, <1>5 DEF Control, owner
<1>8. ASSUME NEW u \in Timers
      PROVE  timer'[u].mRefCnt = References(u)'
  <2>1. Queued' = Queued
    BY <1>3 DEF Queued
  <2>2. timer[u].mRefCnt = References(u)
    BY <1>1 DEF Exact
  <2>3. UNCHANGED <<held, leaving, firing, call>>
    BY <1>3 DEF owner
  <2>4. /\ Occurrences(u, mTimers) \in Nat /\ Occurrences(u, leaving) \in Nat
        /\ Occurrences(u, Queued) \in Nat
    BY <1>1, Parts
  <2>5. /\ timer'[u].mRefCnt = timer[u].mRefCnt - Holds(u = cur /\ InList(mTimers, cur))
        /\ Occurrences(u, mTimers') =
              Occurrences(u, mTimers) - Holds(u = cur /\ InList(mTimers, cur))
    BY <1>4
  <2>6. cur' # u /\ tpc.at = "unlist"
    BY <1>2, <1>3, TimersAssumption
  <2> QED
    BY <2>1, <2>2, <2>3, <2>4, <2>5, <2>6 DEF References, Holds
<1> QED
  BY <1>6, <1>7, <1>8 DEF Counted, Exact

\* The timer that Init sets up.
LEMMA InitialisedTable ==
    ASSUME NEW timers \in Table, NEW t \in Timers, NEW generation \in 0 .. MaxInits,
           NEW type \in Types, now \in 0 .. MaxTime
    PROVE  /\ Initialised(timers, t, generation, type) \in Table
           /\ Initialised(timers, t, generation, type)[t].mGeneration = generation
           /\ Initialised(timers, t, generation, type)[t].mType = type
           /\ Initialised(timers, t, generation, type)[t].mTimeout = now
           /\ \A u \in Timers :
                 /\ Initialised(timers, t, generation, type)[u].mRefCnt = timers[u].mRefCnt
                 /\ Initialised(timers, t, generation, type)[u].mArmed = timers[u].mArmed
                 /\ u # t => Initialised(timers, t, generation, type)[u] = timers[u]
<1>1. PICK yes \in BOOLEAN, no \in BOOLEAN : yes = TRUE /\ no = FALSE
  OBVIOUS
<1> DEFINE a == WithCallback(timers, t, yes)
           b == WithCanceled(a, t, no)
           c == WithGeneration(b, t, generation)
           d == WithType(c, t, type)
           e == WithTimeout(d, t, now)
           f == WithDelaySet(e, t, no)
<1>2. Initialised(timers, t, generation, type) = f
  BY <1>1, Zenon
     DEF Initialised, WithCallback, WithCanceled, WithGeneration, WithType, WithTimeout,
         WithDelaySet
<1>3. now \in Nat
  BY BoundsAssumption
<1>4. /\ a \in Table
      /\ \A u \in Timers : /\ a[u].mRefCnt = timers[u].mRefCnt
                           /\ a[u].mArmed = timers[u].mArmed
                           /\ u # t => a[u] = timers[u]
  BY WithCallbackTable
<1> HIDE DEF a
<1>5. /\ b \in Table
      /\ \A u \in Timers : /\ b[u].mRefCnt = a[u].mRefCnt
                           /\ b[u].mArmed = a[u].mArmed
                           /\ u # t => b[u] = a[u]
  BY <1>4, WithCanceledTable
<1> HIDE DEF b
<1>6. /\ c \in Table /\ c[t].mGeneration = generation
      /\ \A u \in Timers : /\ c[u].mRefCnt = b[u].mRefCnt
                           /\ c[u].mArmed = b[u].mArmed
                           /\ u # t => c[u] = b[u]
  BY <1>5, WithGenerationTable
<1> HIDE DEF c
<1>7. /\ d \in Table /\ d[t].mGeneration = c[t].mGeneration /\ d[t].mType = type
      /\ \A u \in Timers : /\ d[u].mRefCnt = c[u].mRefCnt
                           /\ d[u].mArmed = c[u].mArmed
                           /\ u # t => d[u] = c[u]
  BY <1>6, WithTypeTable
<1> HIDE DEF d
<1>8. /\ e \in Table /\ e[t].mGeneration = d[t].mGeneration /\ e[t].mType = d[t].mType
      /\ e[t].mTimeout = now
      /\ \A u \in Timers : /\ e[u].mRefCnt = d[u].mRefCnt
                           /\ e[u].mArmed = d[u].mArmed
                           /\ u # t => e[u] = d[u]
  BY <1>3, <1>7, WithTimeoutTable
<1> HIDE DEF e
<1>9. /\ f \in Table /\ f[t].mGeneration = e[t].mGeneration /\ f[t].mType = e[t].mType
      /\ f[t].mTimeout = e[t].mTimeout
      /\ \A u \in Timers : /\ f[u].mRefCnt = e[u].mRefCnt
                           /\ f[u].mArmed = e[u].mArmed
                           /\ u # t => f[u] = e[u]
  BY <1>1, <1>8, WithDelaySetTable
<1> HIDE DEF f
<1> QED
  BY <1>2, <1>4, <1>5, <1>6, <1>7, <1>8, <1>9

\* The owner's steps.
LEMMA CountedBeginInit ==
    ASSUME NEW t \in Timers, NEW type \in Types, NEW delay \in Delays,
           Counted, BeginInit(t, type, delay)
    PROVE  Counted'
<1>1. TypeOK /\ Control /\ Exact
  BY DEF Counted
<1> DEFINE x == IF timer[t].mArmed THEN Unlisted(mTimers, timer, t) ELSE timer
           out == timer[t].mArmed /\ InList(mTimers, t)
           y == Initialised(x, t, gGenerator + 1, type)
<1>2. /\ call = Idle
      /\ mTimers' = IF timer[t].mArmed THEN Removed(mTimers, t) ELSE mTimers
      /\ timer' = SetDelayInternal(y, t, delay)
      /\ WritesTimeout(mTimers', t)
      /\ tpc' = IF out THEN Notified ELSE tpc
      /\ call' = [op |-> "adding", timer |-> t]
      /\ gGenerator < MaxInits /\ gGenerator' = gGenerator + 1
      /\ UNCHANGED <<now, mShutdown, mSleeping, mTimeoutAdjustment, gThread, cur, evGen,
                     popped, queue, held,
                     firing, saved, index, leaving, upsets>>
  BY DEF BeginInit, AppHas
<1>3. /\ mTimers' \in Seq(Timers) /\ x \in Table
      /\ \A u : Occurrences(u, mTimers') =
                   Occurrences(u, mTimers) - Holds(u = t /\ out)
      /\ \A u \in Timers : x[u].mRefCnt = timer[u].mRefCnt - Holds(u = t /\ out)
  <2>1. CASE timer[t].mArmed
    BY <1>1, <1>2, <2>1, UnlistedEffect
  <2>2. CASE ~timer[t].mArmed
    <3>1. \A u : Occurrences(u, mTimers) \in Nat
      BY <1>1, Parts
    <3> QED
      BY <1>1, <1>2, <2>2, <3>1, Parts DEF TypeOK, Holds
  <2> QED
    BY <2>1, <2>2
<1>4. now \in 0 .. MaxTime /\ gGenerator' \in 0 .. MaxInits /\ gGenerator + 1 \in 0 .. MaxInits
  BY <1>1, <1>2, BoundsAssumption DEF TypeOK
<1> HIDE DEF x, out
<1>5. y \in Table /\ \A u \in Timers : y[u].mRefCnt = x[u].mRefCnt
  BY <1>3, <1>4, InitialisedTable
<1> HIDE DEF y
<1>6. timer' \in Table /\ \A u \in Timers : timer'[u].mRefCnt = y[u].mRefCnt
  BY <1>2, <1>4, <1>5, SetDelayTable
<1>7. /\ tpc' \in [at : RunPlaces, until : Int]
      /\ tpc'.at \in {"post", "rearm", "dispatch", "drop", "unlist"} <=>
            tpc.at \in {"post", "rearm", "dispatch", "drop", "unlist"}
      /\ tpc'.at = "unlist" <=> tpc.at = "unlist"
  <2>1. tpc \in [at : RunPlaces, until : Int]
    BY <1>1 DEF TypeOK, RunPlaces
  <2> QED
    BY <1>2, <2>1, NotifiedType
<1>8. rewritten' \in BOOLEAN
  BY <1>2 DEF WritesTimeout
<1>9. call' \in [op : {"idle", "adding", "changing", "releasing", "removing"},
                 timer : Timers \cup {None}]
      /\ call'.op = "adding" /\ call'.timer = t
  BY <1>2
<1>10. TypeOK'
  BY <1>1, <1>2, <1>3, <1>4, <1>6, <1>7, <1>8, <1>9 DEF TypeOK, Table, RunPlaces
<1>11. Control'
  BY <1>1, <1>2, <1>7, <1>9 DEF Control
<1>12. ASSUME NEW u \in Timers
      PROVE  timer'[u].mRefCnt = References(u)'
  <2>1. Queued' = Queued
    BY <1>2 DEF Queued
  <2>2. timer[u].mRefCnt = References(u)
    BY <1>1 DEF Exact
  <2>3. UNCHANGED <<held, leaving, firing, cur>>
    BY <1>2 DEF owner
  <2>4. /\ Occurrences(u, mTimers) \in Nat /\ Occurrences(u, leaving) \in Nat
        /\ Occurrences(u, Queued) \in Nat
    BY <1>1, Parts
  <2>5. /\ timer'[u].mRefCnt = timer[u].mRefCnt - Holds(u = t /\ out)
        /\ Occurrences(u, mTimers') =
              Occurrences(u, mTimers) - Holds(u = t /\ out)
    BY <1>3, <1>5, <1>6
  <2>6. call.op # "releasing" /\ call'.op # "releasing"
    BY <1>2, <1>9 DEF Idle
  <2> QED
    BY <2>1, <2>2, <2>3, <2>4, <2>5, <2>6, <1>7 DEF References, Holds
<1> QED
  BY <1>10, <1>11, <1>12 DEF Counted, Exact

\* The timer is added with a reference for the list.
LEMMA CountedFinishInit == Counted /\ FinishInit => Counted'
<1> SUFFICES ASSUME Counted, FinishInit
             PROVE  Counted'
  OBVIOUS
<1>1. TypeOK /\ Control /\ Exact
  BY DEF Counted
<1>2. call.op = "adding" /\ call.timer \in Timers
  BY <1>1 DEF FinishInit, Control
<1> DEFINE t == call.timer
<1>3. /\ AddTimer(mTimers, timer, t) /\ call' = Idle
      /\ UNCHANGED <<now, mShutdown, mSleeping, mTimeoutAdjustment, gThread, cur, evGen,
                     popped, queue, held,
                     firing, saved, index, leaving, counts>>
  BY DEF FinishInit
<1> HIDE DEF t
<1>4. t \in Timers /\ mTimers \in Seq(Timers) /\ timer \in Table
  BY <1>1, <1>2, Parts DEF TypeOK, t
<1>5. /\ mTimers' \in Seq(Timers) /\ timer' \in Table
      /\ tpc' \in [at : RunPlaces, until : Int]
      /\ tpc'.at \in {"post", "rearm", "dispatch", "drop", "unlist"} <=>
            tpc.at \in {"post", "rearm", "dispatch", "drop", "unlist"}
      /\ tpc'.at # "waiting" /\ tpc'.at # "top" => tpc' = tpc
      /\ \A u : Occurrences(u, mTimers') =
                   Occurrences(u, mTimers) + Holds(u = t /\ ~mShutdown)
      /\ \A u \in Timers :
            timer'[u].mRefCnt = timer[u].mRefCnt + Holds(u = t /\ ~mShutdown)
  BY <1>1, <1>3, <1>4, AddTimerEffect
<1>6. call' \in [op : {"idle", "adding", "changing", "releasing", "removing"},
                 timer : Timers \cup {None}] /\ call'.op = "idle"
  BY <1>3 DEF Idle
<1>7. TypeOK'
  BY <1>1, <1>3, <1>5, <1>6 DEF TypeOK, Table, RunPlaces, counts
<1>8. Control'
  BY <1>1, <1>3, <1>5, <1>6 DEF Control
<1>9. ASSUME NEW u \in Timers
      PROVE  timer'[u].mRefCnt = References(u)'
  <2>1. Queued' = Queued
    BY <1>3 DEF Queued
  <2>2. timer[u].mRefCnt = References(u)
    BY <1>1 DEF Exact
  <2>3. UNCHANGED <<held, leaving, firing, cur>>
    BY <1>3 DEF owner
  <2>4. /\ Occurrences(u, mTimers) \in Nat /\ Occurrences(u, leaving) \in Nat
        /\ Occurrences(u, Queued) \in Nat
    BY <1>1, Parts
  <2>5. /\ timer'[u].mRefCnt = timer[u].mRefCnt + Holds(u = t /\ ~mShutdown)
        /\ Occurrences(u, mTimers') = Occurrences(u, mTimers) + Holds(u = t /\ ~mShutdown)
    BY <1>5
  <2>6. call.op # "releasing" /\ call'.op # "releasing"
    BY <1>2, <1>6
  <2>7. tpc'.at = "unlist" <=> tpc.at = "unlist"
    BY <1>5
  <2> QED
    BY <2>1, <2>2, <2>3, <2>4, <2>5, <2>6, <2>7 DEF References, Holds
<1> QED
  BY <1>7, <1>8, <1>9 DEF Counted, Exact

\* The timer is taken out and added again.
LEMMA CountedTimerDelayChanged == Counted /\ TimerDelayChanged => Counted'
<1> SUFFICES ASSUME Counted, TimerDelayChanged
             PROVE  Counted'
  OBVIOUS
<1>1. TypeOK /\ Control /\ Exact
  BY DEF Counted
<1>2. call.op = "changing" /\ call.timer \in Timers
  BY <1>1 DEF TimerDelayChanged, Control
<1> DEFINE t == call.timer
           r == Removed(mTimers, t)
           x == Unlisted(mTimers, timer, t)
<1>3. /\ AddTimer(r, x, t) /\ call' = Idle
      /\ UNCHANGED <<now, mShutdown, mSleeping, mTimeoutAdjustment, gThread, cur, evGen,
                     popped, queue, held,
                     firing, saved, index, leaving, counts>>
  BY DEF TimerDelayChanged
<1>4. /\ t \in Timers /\ r \in Seq(Timers) /\ x \in Table
      /\ \A u : Occurrences(u, r) =
                   Occurrences(u, mTimers) - Holds(u = t /\ InList(mTimers, t))
      /\ \A u \in Timers : x[u].mRefCnt = timer[u].mRefCnt - Holds(u = t /\ InList(mTimers, t))
  <2>1. t \in Timers
    BY <1>2
  <2> HIDE DEF t
  <2> QED
    BY <1>1, <2>1, UnlistedEffect
<1> HIDE DEF t, r, x
<1>5. /\ mTimers' \in Seq(Timers) /\ timer' \in Table
      /\ tpc' \in [at : RunPlaces, until : Int]
      /\ tpc'.at \in {"post", "rearm", "dispatch", "drop", "unlist"} <=>
            tpc.at \in {"post", "rearm", "dispatch", "drop", "unlist"}
      /\ tpc'.at # "waiting" /\ tpc'.at # "top" => tpc' = tpc
      /\ \A u : Occurrences(u, mTimers') = Occurrences(u, r) + Holds(u = t /\ ~mShutdown)
      /\ \A u \in Timers : timer'[u].mRefCnt = x[u].mRefCnt + Holds(u = t /\ ~mShutdown)
  BY <1>1, <1>3, <1>4, AddTimerEffect
<1>6. call' \in [op : {"idle", "adding", "changing", "releasing", "removing"},
                 timer : Timers \cup {None}] /\ call'.op = "idle"
  BY <1>3 DEF Idle
<1>7. TypeOK'
  BY <1>1, <1>3, <1>5, <1>6 DEF TypeOK, Table, RunPlaces, counts
<1>8. Control'
  BY <1>1, <1>3, <1>5, <1>6 DEF Control
<1>9. ASSUME NEW u \in Timers
      PROVE  timer'[u].mRefCnt = References(u)'
  <2>1. Queued' = Queued
    BY <1>3 DEF Queued
  <2>2. timer[u].mRefCnt = References(u)
    BY <1>1 DEF Exact
  <2>3. UNCHANGED <<held, leaving, firing, cur>>
    BY <1>3 DEF owner
  <2>4. /\ Occurrences(u, mTimers) \in Nat /\ Occurrences(u, leaving) \in Nat
        /\ Occurrences(u, Queued) \in Nat
    BY <1>1, Parts
  <2>5. /\ timer'[u].mRefCnt = x[u].mRefCnt + Holds(u = t /\ ~mShutdown)
        /\ Occurrences(u, mTimers') = Occurrences(u, r) + Holds(u = t /\ ~mShutdown)
        /\ x[u].mRefCnt = timer[u].mRefCnt - Holds(u = t /\ InList(mTimers, t))
        /\ Occurrences(u, r) = Occurrences(u, mTimers) - Holds(u = t /\ InList(mTimers, t))
    BY <1>4, <1>5
  <2>6. call.op # "releasing" /\ call'.op # "releasing"
    BY <1>2, <1>6
  <2>7. tpc'.at = "unlist" <=> tpc.at = "unlist"
    BY <1>5
  <2>8. timer[u].mRefCnt \in Nat
    BY <1>1, Parts
  <2> QED
    BY <2>1, <2>2, <2>3, <2>4, <2>5, <2>6, <2>7, <2>8 DEF References, Holds
<1> QED
  BY <1>7, <1>8, <1>9 DEF Counted, Exact

\* Cancel takes the timer out of the list, where it may be.
LEMMA CountedCancel ==
    ASSUME NEW t \in Timers, Counted, Cancel(t)
    PROVE  Counted'
<1>1. TypeOK /\ Control /\ Exact
  BY DEF Counted
<1> DEFINE x == Unlisted(mTimers, timer, t)
<1>2. PICK yes \in BOOLEAN, no \in BOOLEAN : yes = TRUE /\ no = FALSE
  OBVIOUS
<1> DEFINE y == WithCanceled(x, t, yes)
           z == WithCallback(y, t, no)
<1>3. /\ mTimers' = Removed(mTimers, t)
      /\ timer' = z
      /\ tpc' = IF InList(mTimers, t) THEN Notified ELSE tpc
      /\ UNCHANGED <<now, mShutdown, mSleeping, mTimeoutAdjustment, gThread, cur, evGen,
                     popped, queue, owner,
                     counts>>
  BY <1>2, Zenon DEF Cancel, WithCanceled, WithCallback
<1>4. /\ mTimers' \in Seq(Timers) /\ x \in Table
      /\ \A u : Occurrences(u, mTimers') =
                   Occurrences(u, mTimers) - Holds(u = t /\ InList(mTimers, t))
      /\ \A u \in Timers : x[u].mRefCnt = timer[u].mRefCnt - Holds(u = t /\ InList(mTimers, t))
  BY <1>1, <1>3, UnlistedEffect
<1> HIDE DEF x
<1>5. y \in Table /\ \A u \in Timers : y[u].mRefCnt = x[u].mRefCnt
  BY <1>4, WithCanceledTable
<1> HIDE DEF y
<1>6. z \in Table /\ \A u \in Timers : z[u].mRefCnt = y[u].mRefCnt
  BY <1>5, WithCallbackTable
<1> HIDE DEF z
<1>7. /\ tpc' \in [at : RunPlaces, until : Int]
      /\ tpc'.at \in {"post", "rearm", "dispatch", "drop", "unlist"} <=>
            tpc.at \in {"post", "rearm", "dispatch", "drop", "unlist"}
      /\ tpc'.at = "unlist" <=> tpc.at = "unlist"
  <2>1. tpc \in [at : RunPlaces, until : Int]
    BY <1>1 DEF TypeOK, RunPlaces
  <2> QED
    BY <1>3, <2>1, NotifiedType
<1>8. TypeOK'
  BY <1>1, <1>3, <1>4, <1>6, <1>7 DEF TypeOK, Table, RunPlaces, owner, counts
<1>9. Control'
  BY <1>1, <1>3, <1>7 DEF Control, owner
<1>10. ASSUME NEW u \in Timers
      PROVE  timer'[u].mRefCnt = References(u)'
  <2>1. Queued' = Queued
    BY <1>3 DEF Queued
  <2>2. timer[u].mRefCnt = References(u)
    BY <1>1 DEF Exact
  <2>3. UNCHANGED <<held, leaving, firing, cur, call>>
    BY <1>3 DEF owner
  <2>4. /\ Occurrences(u, mTimers) \in Nat /\ Occurrences(u, leaving) \in Nat
        /\ Occurrences(u, Queued) \in Nat
    BY <1>1, Parts
  <2>5. /\ timer'[u].mRefCnt = timer[u].mRefCnt - Holds(u = t /\ InList(mTimers, t))
        /\ Occurrences(u, mTimers') =
              Occurrences(u, mTimers) - Holds(u = t /\ InList(mTimers, t))
    BY <1>3, <1>4, <1>5, <1>6
  <2> QED
    BY <2>1, <2>2, <2>3, <2>4, <2>5, <1>7 DEF References, Holds
<1> QED
  BY <1>8, <1>9, <1>10 DEF Counted, Exact

\* SetDelay up to TimerDelayChanged.
LEMMA DelayWrittenTable ==
    ASSUME TypeOK, NEW t \in Timers, NEW delay \in Delays \cup {0}, DelayWritten(t, delay)
    PROVE  /\ timer' \in Table
           /\ \A u \in Timers : u # t => timer'[u] = timer[u]
           /\ \A u \in Timers :
                 /\ timer'[u].mRefCnt = timer[u].mRefCnt
                 /\ timer'[u].mArmed = timer[u].mArmed
                 /\ timer'[u].mGeneration = timer[u].mGeneration
                 /\ timer'[u].mType = timer[u].mType
           /\ timer'[t].delaySet
           /\ rewritten' \in BOOLEAN /\ (rewritten' <=> rewritten \/ InList(mTimers, t))
           /\ call' \in {[op |-> "changing", timer |-> t], Idle}
           /\ gThread \/ call' = Idle
<1>0. PICK yes \in BOOLEAN : yes = TRUE
  OBVIOUS
<1> DEFINE y == WithDelaySet(timer, t, yes)
           v == IF timer[t].mType = "REPEATING_PRECISE" THEN now ELSE y[t].mTimeout
           x == WithTimeout(y, t, v)
<1>1. timer \in Table /\ now \in 0 .. MaxTime /\ now \in Nat
  BY Parts, BoundsAssumption DEF TypeOK
<1>2. timer' = SetDelayInternal(x, t, delay)
  BY <1>0, Zenon DEF DelayWritten, WithDelaySet, WithTimeout
<1>3. /\ x \in Table /\ x[t].delaySet
      /\ \A u \in Timers : u # t => x[u] = timer[u]
      /\ \A u \in Timers :
            /\ x[u].mRefCnt = timer[u].mRefCnt /\ x[u].mArmed = timer[u].mArmed
            /\ x[u].mGeneration = timer[u].mGeneration /\ x[u].mType = timer[u].mType
  <2>1. /\ y \in Table /\ y[t].delaySet = yes
        /\ \A u \in Timers : u # t => y[u] = timer[u]
        /\ \A u \in Timers :
              /\ y[u].mRefCnt = timer[u].mRefCnt /\ y[u].mArmed = timer[u].mArmed
              /\ y[u].mGeneration = timer[u].mGeneration /\ y[u].mType = timer[u].mType
    BY <1>1, WithDelaySetTable
  <2> HIDE DEF y
  <2>2. v \in Nat
    BY <1>1, <2>1 DEF Table, Fields
  <2> HIDE DEF v
  <2>3. /\ x \in Table
        /\ \A u \in Timers : u # t => x[u] = y[u]
        /\ \A u \in Timers :
              /\ x[u].mRefCnt = y[u].mRefCnt /\ x[u].mArmed = y[u].mArmed
              /\ x[u].mGeneration = y[u].mGeneration /\ x[u].mType = y[u].mType
              /\ x[u].delaySet = y[u].delaySet
    BY <2>1, <2>2, WithTimeoutTable
  <2> QED
    BY <1>0, <2>1, <2>3
<1> HIDE DEF x
<1>4. /\ timer' \in Table
      /\ \A u \in Timers : u # t => timer'[u] = x[u]
      /\ \A u \in Timers :
            /\ timer'[u].mRefCnt = x[u].mRefCnt /\ timer'[u].mArmed = x[u].mArmed
            /\ timer'[u].mGeneration = x[u].mGeneration /\ timer'[u].mType = x[u].mType
            /\ timer'[u].delaySet = x[u].delaySet
  BY <1>1, <1>2, <1>3, SetDelayTable
<1>5. rewritten' \in BOOLEAN /\ (rewritten' <=> rewritten \/ InList(mTimers, t))
  BY DEF DelayWritten, WritesTimeout
<1>6. /\ call' \in {[op |-> "changing", timer |-> t], Idle}
      /\ gThread \/ call' = Idle
  BY DEF DelayWritten
<1> QED
  BY <1>3, <1>4, <1>5, <1>6

\* A step that leaves the references and their holders alone, but for a call that
\* does not release.
LEMMA CountedCall ==
    ASSUME Counted, timer' \in Table,
           \A u \in Timers : timer'[u].mRefCnt = timer[u].mRefCnt,
           UNCHANGED <<now, mTimers, mShutdown, mSleeping, mTimeoutAdjustment, gThread,
                       timerThread, queue, held,
                       firing, saved, leaving, gGenerator>>,
           upsets' \in Nat, index' \in Nat, rewritten' \in BOOLEAN,
           call.op # "releasing",
           \/ call' = Idle
           \/ \E t \in Timers : call' = [op |-> "changing", timer |-> t]
    PROVE  Counted'
<1>1. TypeOK /\ Control /\ Exact
  BY DEF Counted
<1>2. /\ call' \in [op : {"idle", "adding", "changing", "releasing", "removing"},
                 timer : Timers \cup {None}]
      /\ call'.op # "idle" => call'.timer \in Timers
      /\ call'.op # "releasing"
  BY DEF Idle
<1>3. TypeOK'
  BY <1>1, <1>2 DEF TypeOK, Table, timerThread
<1>4. Control'
  BY <1>1, <1>2 DEF Control, timerThread
<1>5. ASSUME NEW u \in Timers
      PROVE  timer'[u].mRefCnt = References(u)'
  <2>1. Queued' = Queued
    BY DEF Queued
  <2>2. timer[u].mRefCnt = References(u)
    BY <1>1 DEF Exact
  <2> QED
    BY <1>2, <2>1, <2>2 DEF References, Holds, timerThread
<1> QED
  BY <1>3, <1>4, <1>5 DEF Counted, Exact

\* SetDelay changes no reference.
LEMMA CountedSetDelay ==
    ASSUME NEW t \in Timers, NEW delay \in Delays, Counted, SetDelay(t, delay)
    PROVE  Counted'
<1>1. TypeOK
  BY DEF Counted
<1>2. /\ timer' \in Table
      /\ \A u \in Timers : timer'[u].mRefCnt = timer[u].mRefCnt
      /\ rewritten' \in BOOLEAN
      /\ call' \in {[op |-> "changing", timer |-> t], Idle}
  BY <1>1, DelayWrittenTable DEF SetDelay
<1>3. upsets' \in Nat /\ index' \in Nat
  BY <1>1 DEF SetDelay, TypeOK
<1>4. call.op # "releasing"
  BY DEF SetDelay, AppHas, Idle
<1>5. UNCHANGED <<now, mTimers, mShutdown, mSleeping, mTimeoutAdjustment, gThread, timerThread,
                  queue, held,
                  firing, saved, leaving, gGenerator>>
  BY DEF SetDelay
<1> QED
  BY <1>2, <1>3, <1>4, <1>5, CountedCall

\* Nor does the loop of DoAfterSleep.
LEMMA CountedResetNext == Counted /\ ResetNext => Counted'
<1> SUFFICES ASSUME Counted, ResetNext
             PROVE  Counted'
  OBVIOUS
<1>1. TypeOK
  BY DEF Counted
<1> DEFINE t == mTimers[index]
<1>2. t \in Timers
  <2>1. index \in 1 .. Len(mTimers) /\ mTimers \in Seq(Timers)
    BY <1>1 DEF ResetNext, TypeOK
  <2> QED
    BY <2>1, ElementOfSeq
<1>3. timer[t].mDelay \in Delays \cup {0} /\ timer \in Table
  BY <1>1, <1>2, Parts DEF Fields
<1>4. call = Idle
  BY DEF ResetNext
<1>5. /\ timer' \in Table
      /\ \A u \in Timers : timer'[u].mRefCnt = timer[u].mRefCnt
      /\ rewritten' \in BOOLEAN
      /\ call' \in {[op |-> "changing", timer |-> t], Idle}
  <2>1. DelayWritten(t, timer[t].mDelay) \/ UNCHANGED <<timer, call, rewritten>>
    BY DEF ResetNext
  <2> HIDE DEF t
  <2>2. CASE DelayWritten(t, timer[t].mDelay)
    BY <1>1, <1>2, <1>3, <2>2, DelayWrittenTable
  <2>3. CASE UNCHANGED <<timer, call, rewritten>>
    BY <1>1, <1>3, <1>4, <2>3 DEF TypeOK
  <2> QED
    BY <2>1, <2>2, <2>3
<1>6. upsets' \in Nat /\ index' \in Nat
  BY <1>1 DEF ResetNext, TypeOK
<1>7. UNCHANGED <<now, mTimers, mShutdown, mSleeping, mTimeoutAdjustment, gThread, timerThread,
                  queue, held,
                  firing, saved, leaving, gGenerator>>
  BY DEF ResetNext
<1>8. call.op # "releasing"
  BY <1>4 DEF Idle
<1> HIDE DEF t
<1> QED
  BY <1>2, <1>5, <1>6, <1>7, <1>8, CountedCall

\* What Release does to the timers and to the owner.
LEMMA ReleasesEffect ==
    ASSUME TypeOK, NEW t \in Timers, timer[t].mRefCnt > 0, Releases(t)
    PROVE  /\ timer' = Released(t) /\ timer' \in Table
           /\ \A u \in Timers : timer'[u].mRefCnt = timer[u].mRefCnt - Holds(u = t)
           /\ call' \in [op : {"idle", "adding", "changing", "releasing", "removing"},
                         timer : Timers \cup {None}]
           /\ call'.op # "releasing" /\ (call'.op # "idle" => call'.timer \in Timers)
<1>1. timer' = Released(t)
      /\ call' = IF Alone(t) THEN [op |-> "removing", timer |-> t] ELSE Idle
  BY DEF Releases
<1>2. /\ timer' \in Table
      /\ \A u \in Timers : timer'[u].mRefCnt = timer[u].mRefCnt - Holds(u = t)
  BY <1>1, ReleasedTable
<1>3. /\ call' \in [op : {"idle", "adding", "changing", "releasing", "removing"},
                    timer : Timers \cup {None}]
      /\ call'.op # "releasing" /\ (call'.op # "idle" => call'.timer \in Timers)
  BY <1>1 DEF Idle
<1> QED
  BY <1>1, <1>2, <1>3

\* The owner gives up its reference.
LEMMA CountedLetGo ==
    ASSUME NEW t \in Timers, Counted, LetGo(t)
    PROVE  Counted'
<1>1. TypeOK /\ Control /\ Exact
  BY DEF Counted
<1>2. /\ call = Idle /\ t \in held /\ held' = held \ {t} /\ Releases(t)
      /\ UNCHANGED <<now, mTimers, mShutdown, mSleeping, mTimeoutAdjustment, gThread,
                     timerThread, queue, firing,
                     saved, index, leaving, counts>>
  BY DEF LetGo, AppHas
<1>3. timer[t].mRefCnt > 0
  <2>1. timer[t].mRefCnt = References(t)
    BY <1>1 DEF Exact
  <2> QED
    BY <1>1, <1>2, <2>1, Parts DEF References, Holds
<1>4. /\ timer' \in Table
      /\ \A u \in Timers : timer'[u].mRefCnt = timer[u].mRefCnt - Holds(u = t)
      /\ call' \in [op : {"idle", "adding", "changing", "releasing", "removing"},
                    timer : Timers \cup {None}]
      /\ call'.op # "releasing" /\ (call'.op # "idle" => call'.timer \in Timers)
  BY <1>1, <1>2, <1>3, ReleasesEffect
<1>5. TypeOK'
  BY <1>1, <1>2, <1>4 DEF TypeOK, Table, timerThread, counts
<1>6. Control'
  BY <1>1, <1>2, <1>4 DEF Control, timerThread
<1>7. ASSUME NEW u \in Timers
      PROVE  timer'[u].mRefCnt = References(u)'
  <2>1. Queued' = Queued
    BY <1>2 DEF Queued
  <2>2. timer[u].mRefCnt = References(u)
    BY <1>1 DEF Exact
  <2>3. UNCHANGED <<mTimers, leaving, firing, cur, tpc>>
    BY <1>2 DEF timerThread
  <2>4. /\ Occurrences(u, mTimers) \in Nat /\ Occurrences(u, leaving) \in Nat
        /\ Occurrences(u, Queued) \in Nat
    BY <1>1, Parts
  <2>5. timer'[u].mRefCnt = timer[u].mRefCnt - Holds(u = t)
    BY <1>4
  <2>6. call.op # "releasing" /\ call'.op # "releasing"
    BY <1>2, <1>4 DEF Idle
  <2>7. Holds(u \in held') = Holds(u \in held) - Holds(u = t)
    BY <1>2 DEF Holds
  <2> QED
    BY <2>1, <2>2, <2>3, <2>4, <2>5, <2>6, <2>7 DEF References, Holds
<1> QED
  BY <1>5, <1>6, <1>7 DEF Counted, Exact

\* The event that has fired gives up its reference.
LEMMA CountedReleaseFired == Counted /\ ReleaseFired => Counted'
<1> SUFFICES ASSUME Counted, ReleaseFired
             PROVE  Counted'
  OBVIOUS
<1>1. TypeOK /\ Control /\ Exact
  BY DEF Counted
<1> DEFINE t == call.timer
<1>2. /\ call.op = "releasing" /\ t \in Timers /\ Releases(t)
      /\ UNCHANGED <<now, mTimers, mShutdown, mSleeping, mTimeoutAdjustment, gThread,
                     timerThread, queue, held,
                     firing, saved, index, leaving, counts>>
  BY <1>1 DEF ReleaseFired, Control
<1>3. timer[t].mRefCnt > 0
  <2>1. timer[t].mRefCnt = References(t)
    BY <1>1, <1>2 DEF Exact
  <2> QED
    BY <1>1, <1>2, <2>1, Parts DEF References, Holds
<1>8. t = call.timer
  OBVIOUS
<1> HIDE DEF t
<1>4. /\ timer' \in Table
      /\ \A u \in Timers : timer'[u].mRefCnt = timer[u].mRefCnt - Holds(u = t)
      /\ call' \in [op : {"idle", "adding", "changing", "releasing", "removing"},
                    timer : Timers \cup {None}]
      /\ call'.op # "releasing" /\ (call'.op # "idle" => call'.timer \in Timers)
  BY <1>1, <1>2, <1>3, ReleasesEffect
<1>5. TypeOK'
  BY <1>1, <1>2, <1>4 DEF TypeOK, Table, timerThread, counts
<1>6. Control'
  BY <1>1, <1>2, <1>4 DEF Control, timerThread
<1>7. ASSUME NEW u \in Timers
      PROVE  timer'[u].mRefCnt = References(u)'
  <2>1. Queued' = Queued
    BY <1>2 DEF Queued
  <2>2. timer[u].mRefCnt = References(u)
    BY <1>1 DEF Exact
  <2>3. UNCHANGED <<mTimers, leaving, firing, cur, tpc, held>>
    BY <1>2 DEF timerThread
  <2>4. /\ Occurrences(u, mTimers) \in Nat /\ Occurrences(u, leaving) \in Nat
        /\ Occurrences(u, Queued) \in Nat
    BY <1>1, Parts
  <2>5. timer'[u].mRefCnt = timer[u].mRefCnt - Holds(u = t)
    BY <1>4
  <2>6. call.op = "releasing" /\ call.timer = t /\ call'.op # "releasing"
    BY <1>2, <1>4, <1>8
  <2> QED
    BY <2>1, <2>2, <2>3, <2>4, <2>5, <2>6 DEF References, Holds
<1> QED
  BY <1>5, <1>6, <1>7 DEF Counted, Exact

\* RemoveTimer in Release, without a reference of its own.
LEMMA CountedRemoveTimer == Counted /\ RemoveTimer => Counted'
<1> SUFFICES ASSUME Counted, RemoveTimer
             PROVE  Counted'
  OBVIOUS
<1>1. TypeOK /\ Control /\ Exact
  BY DEF Counted
<1> DEFINE t == call.timer
<1>2. /\ call.op = "removing" /\ t \in Timers
      /\ mTimers' = Removed(mTimers, t)
      /\ timer' = Unlisted(mTimers, timer, t)
      /\ tpc' = IF InList(mTimers, t) THEN Notified ELSE tpc
      /\ call' = Idle
      /\ UNCHANGED <<now, mShutdown, mSleeping, mTimeoutAdjustment, gThread, cur, evGen,
                     popped, queue, held,
                     firing, saved, index, leaving, counts>>
  BY <1>1 DEF RemoveTimer, Control
<1> HIDE DEF t
<1>3. /\ mTimers' \in Seq(Timers) /\ timer' \in Table
      /\ \A u : Occurrences(u, mTimers') =
                   Occurrences(u, mTimers) - Holds(u = t /\ InList(mTimers, t))
      /\ \A u \in Timers :
            timer'[u].mRefCnt = timer[u].mRefCnt - Holds(u = t /\ InList(mTimers, t))
  BY <1>1, <1>2, UnlistedEffect
<1>4. /\ tpc' \in [at : RunPlaces, until : Int]
      /\ tpc'.at \in {"post", "rearm", "dispatch", "drop", "unlist"} <=>
            tpc.at \in {"post", "rearm", "dispatch", "drop", "unlist"}
      /\ tpc'.at = "unlist" <=> tpc.at = "unlist"
  <2>1. tpc \in [at : RunPlaces, until : Int]
    BY <1>1 DEF TypeOK, RunPlaces
  <2> QED
    BY <1>2, <2>1, NotifiedType
<1>5. call' \in [op : {"idle", "adding", "changing", "releasing", "removing"},
                 timer : Timers \cup {None}] /\ call'.op = "idle"
  BY <1>2 DEF Idle
<1>6. TypeOK'
  BY <1>1, <1>2, <1>3, <1>4, <1>5 DEF TypeOK, Table, RunPlaces, counts
<1>7. Control'
  BY <1>1, <1>2, <1>4, <1>5 DEF Control
<1>8. ASSUME NEW u \in Timers
      PROVE  timer'[u].mRefCnt = References(u)'
  <2>1. Queued' = Queued
    BY <1>2 DEF Queued
  <2>2. timer[u].mRefCnt = References(u)
    BY <1>1 DEF Exact
  <2>3. UNCHANGED <<leaving, firing, cur, held>>
    BY <1>2
  <2>4. /\ Occurrences(u, mTimers) \in Nat /\ Occurrences(u, leaving) \in Nat
        /\ Occurrences(u, Queued) \in Nat
    BY <1>1, Parts
  <2>5. /\ timer'[u].mRefCnt = timer[u].mRefCnt - Holds(u = t /\ InList(mTimers, t))
        /\ Occurrences(u, mTimers') =
              Occurrences(u, mTimers) - Holds(u = t /\ InList(mTimers, t))
    BY <1>3
  <2>6. call.op # "releasing" /\ call'.op # "releasing"
    BY <1>2, <1>5
  <2> QED
    BY <2>1, <2>2, <2>3, <2>4, <2>5, <2>6, <1>4 DEF References, Holds
<1> QED
  BY <1>6, <1>7, <1>8 DEF Counted, Exact

\* The reference of the event goes to the call of Fire, or is given up.
LEMMA CountedRunEvent == Counted /\ RunEvent => Counted'
<1> SUFFICES ASSUME Counted, RunEvent
             PROVE  Counted'
  OBVIOUS
<1>1. TypeOK /\ Control /\ Exact
  BY DEF Counted
<1> DEFINE e == Head(queue)
           t == e.timer
<1>2. /\ call = Idle /\ firing = None /\ queue # <<>> /\ queue' = Tail(queue)
      /\ UNCHANGED <<now, mTimers, mShutdown, mSleeping, gThread, timerThread, held, index,
                     leaving, gGenerator, upsets>>
  BY DEF RunEvent
<1>0. mTimeoutAdjustment' \in Adjustments \cup {0} /\ rewritten' \in BOOLEAN
  <2>1. mTimeoutAdjustment \in Adjustments \cup {0} /\ rewritten \in BOOLEAN
    BY <1>1 DEF TypeOK
  <2> QED
    BY <2>1 DEF RunEvent, UpdateFilter, Readjusts
<1>3. /\ Queued # <<>> /\ Head(Queued) = t /\ Queued' = Tail(Queued)
      /\ e \in Events /\ queue' \in Seq(Events) /\ t \in Timers
  BY <1>1, <1>2, QueuedSteps DEF Events
<1>4. \/ /\ firing' = t /\ saved' = timer[t].mCallback /\ call' = call
         /\ timer' = [timer EXCEPT ![t].mCallback = FALSE]
      \/ Releases(t) /\ UNCHANGED <<firing, saved>>
  BY DEF RunEvent
<1> HIDE DEF e, t
<1>5. \A u : Occurrences(u, Queued) = Occurrences(u, Queued') + Holds(u = t)
  BY <1>1, <1>3, Parts, OccurrencesTail DEF Holds
<1>6. Queued' \in Seq(Timers) /\ \A u : Occurrences(u, Queued') \in Nat
  <2>1. Queued' \in Seq(Timers)
    BY <1>1, <1>3, Parts, HeadTailProperties
  <2> QED
    BY <2>1, InListOccurs
<1>7. timer \in Table /\ timer[t] \in Fields
  BY <1>1, <1>3, Parts
<1>8. CASE /\ firing' = t /\ saved' = timer[t].mCallback /\ call' = call
           /\ timer' = [timer EXCEPT ![t].mCallback = FALSE]
  <2>1. PICK no \in BOOLEAN : no = FALSE
    OBVIOUS
  <2>2. timer' = WithCallback(timer, t, no)
    BY <1>8, <2>1, Zenon DEF WithCallback
  <2>3. timer' \in Table /\ \A u \in Timers : timer'[u].mRefCnt = timer[u].mRefCnt
    BY <1>3, <1>7, <2>2, WithCallbackTable
  <2>4. saved' \in BOOLEAN
    BY <1>7, <1>8 DEF Fields
  <2>5. TypeOK'
    BY <1>0, <1>1, <1>2, <1>3, <1>8, <2>3, <2>4 DEF TypeOK, Table, timerThread
  <2>6. Control'
    BY <1>1, <1>2, <1>8 DEF Control, timerThread
  <2>7. ASSUME NEW u \in Timers
        PROVE  timer'[u].mRefCnt = References(u)'
    <3>1. timer[u].mRefCnt = References(u)
      BY <1>1 DEF Exact
    <3>2. UNCHANGED <<mTimers, leaving, held, cur, tpc, call>>
      BY <1>2, <1>8 DEF timerThread
    <3>3. /\ Occurrences(u, mTimers) \in Nat /\ Occurrences(u, leaving) \in Nat
          /\ Occurrences(u, Queued') \in Nat
      BY <1>1, <1>6, Parts
    <3>4. /\ Occurrences(u, Queued) = Occurrences(u, Queued') + Holds(u = t)
          /\ timer'[u].mRefCnt = timer[u].mRefCnt
      BY <1>5, <2>3
    <3>5. firing # u /\ firing' = t
      BY <1>2, <1>8, TimersAssumption
    <3> QED
      BY <3>1, <3>2, <3>3, <3>4, <3>5 DEF References, Holds
  <2> QED
    BY <2>5, <2>6, <2>7 DEF Counted, Exact
<1>9. CASE Releases(t) /\ UNCHANGED <<firing, saved>>
  <2>1. timer[t].mRefCnt > 0
    <3>1. timer[t].mRefCnt = References(t)
      BY <1>1, <1>3 DEF Exact
    <3>2. Occurrences(t, Queued) > 0
      BY <1>5, <1>6 DEF Holds
    <3> QED
      BY <1>1, <3>1, <3>2, Parts DEF References, Holds
  <2>2. /\ timer' \in Table
        /\ \A u \in Timers : timer'[u].mRefCnt = timer[u].mRefCnt - Holds(u = t)
        /\ call' \in [op : {"idle", "adding", "changing", "releasing", "removing"},
                      timer : Timers \cup {None}]
        /\ call'.op # "releasing" /\ (call'.op # "idle" => call'.timer \in Timers)
    BY <1>1, <1>3, <1>9, <2>1, ReleasesEffect
  <2>3. TypeOK'
    BY <1>0, <1>1, <1>2, <1>3, <1>9, <2>2 DEF TypeOK, Table, timerThread
  <2>4. Control'
    BY <1>1, <1>2, <2>2 DEF Control, timerThread
  <2>5. ASSUME NEW u \in Timers
        PROVE  timer'[u].mRefCnt = References(u)'
    <3>1. timer[u].mRefCnt = References(u)
      BY <1>1 DEF Exact
    <3>2. UNCHANGED <<mTimers, leaving, held, cur, tpc, firing>>
      BY <1>2, <1>9 DEF timerThread
    <3>3. /\ Occurrences(u, mTimers) \in Nat /\ Occurrences(u, leaving) \in Nat
          /\ Occurrences(u, Queued') \in Nat
      BY <1>1, <1>6, Parts
    <3>4. /\ Occurrences(u, Queued) = Occurrences(u, Queued') + Holds(u = t)
          /\ timer'[u].mRefCnt = timer[u].mRefCnt - Holds(u = t)
      BY <1>5, <2>2
    <3>5. call.op # "releasing" /\ call'.op # "releasing"
      BY <1>2, <2>2 DEF Idle
    <3> QED
      BY <3>1, <3>2, <3>3, <3>4, <3>5 DEF References, Holds
  <2> QED
    BY <2>3, <2>4, <2>5 DEF Counted, Exact
<1> QED
  BY <1>4, <1>8, <1>9

\* What Fire does after the callback returned: the timer's callback and timeout may
\* be written, then the timer may be added to the list.
LEMMA EndFireEffect ==
    ASSUME TypeOK, EndFire
    PROVE  /\ firing \in Timers /\ call = Idle
           /\ rewritten' \in BOOLEAN
           /\ \E timers \in Table :
                 /\ \A u \in Timers :
                       /\ timers[u].mRefCnt = timer[u].mRefCnt
                       /\ timers[u].mArmed = timer[u].mArmed
                       /\ timers[u].mGeneration = timer[u].mGeneration
                       /\ timers[u].mType = timer[u].mType /\ timers[u].delaySet = timer[u].delaySet
                       /\ \/ timers[u].mTimeout = timer[u].mTimeout
                          \/ u = firing /\ timer[u].mType = "REPEATING_SLACK"
                             /\ (~rewritten' => ~InList(mTimers, u))
                 /\ \/ timer' = timers /\ UNCHANGED <<mTimers, tpc>>
                    \/ /\ AddTimer(mTimers, timers, firing)
                       /\ gThread /\ ~timer[firing].mArmed
           /\ rewritten => rewritten'
<1> DEFINE t == firing
           restores == ~timer[t].mCallback /\ timer[t].mType # "ONE_SHOT" /\ ~timer[t].mCanceled
           restored == IF restores THEN [timer EXCEPT ![t].mCallback = saved] ELSE timer
           again == /\ timer[t].mType \in {"REPEATING_SLACK", "REPEATING_PRECISE_CAN_SKIP"}
                    /\ ~timer[t].mArmed
           slack == timer[t].mType = "REPEATING_SLACK"
           set == SetDelayInternal(restored, t, timer[t].mDelay)
           timed == IF slack THEN set ELSE restored
<1>1. /\ call = Idle /\ firing \in Timers
      /\ IF again /\ slack THEN WritesTimeout(mTimers, t) ELSE UNCHANGED rewritten
      /\ IF again /\ gThread
         THEN AddTimer(mTimers, timed, t)
         ELSE timer' = (IF again THEN timed ELSE restored) /\ UNCHANGED <<mTimers, tpc>>
  BY DEF EndFire, TypeOK
<1>2. timer \in Table /\ timer[t] \in Fields /\ saved \in BOOLEAN /\ now \in 0 .. MaxTime
  BY <1>1, Parts DEF TypeOK
<1>3. restored = WithCallback(timer, t, saved) \/ restored = timer
  BY DEF WithCallback
<1>4. /\ again => ~timer[t].mArmed
      /\ timer[t].mDelay \in Delays \cup {0}
      /\ rewritten \in BOOLEAN
  BY <1>2 DEF TypeOK, Fields
<1> HIDE DEF restored
<1>5. /\ restored \in Table
      /\ \A u \in Timers :
            /\ restored[u].mRefCnt = timer[u].mRefCnt /\ restored[u].mArmed = timer[u].mArmed
            /\ restored[u].mGeneration = timer[u].mGeneration
            /\ restored[u].mType = timer[u].mType /\ restored[u].delaySet = timer[u].delaySet
            /\ restored[u].mTimeout = timer[u].mTimeout
  BY <1>1, <1>2, <1>3, WithCallbackTable
<1>6. /\ set \in Table
      /\ \A u \in Timers :
            /\ set[u].mRefCnt = timer[u].mRefCnt /\ set[u].mArmed = timer[u].mArmed
            /\ set[u].mGeneration = timer[u].mGeneration
            /\ set[u].mType = timer[u].mType /\ set[u].delaySet = timer[u].delaySet
            /\ u # t => set[u].mTimeout = timer[u].mTimeout
  <2>1. /\ set \in Table
        /\ \A u \in Timers : u # t => set[u] = restored[u]
        /\ \A u \in Timers :
              /\ set[u].mRefCnt = restored[u].mRefCnt /\ set[u].mArmed = restored[u].mArmed
              /\ set[u].mGeneration = restored[u].mGeneration
              /\ set[u].mType = restored[u].mType /\ set[u].delaySet = restored[u].delaySet
    BY <1>1, <1>2, <1>4, <1>5, SetDelayTable
  <2> HIDE DEF set
  <2> QED
    BY <1>5, <2>1
<1> HIDE DEF set
<1>7. rewritten' \in BOOLEAN /\ (rewritten => rewritten')
      /\ (again /\ slack => (~rewritten' => ~InList(mTimers, t)))
  BY <1>1, <1>4 DEF WritesTimeout
<1>8. CASE again /\ slack
  <2>1. \/ timer' = set /\ UNCHANGED <<mTimers, tpc>>
        \/ AddTimer(mTimers, set, t) /\ gThread
    BY <1>1, <1>8
  <2> HIDE DEF again
  <2>2. \A u \in Timers :
           \/ set[u].mTimeout = timer[u].mTimeout
           \/ u = t /\ timer[u].mType = "REPEATING_SLACK" /\ (~rewritten' => ~InList(mTimers, u))
    BY <1>6, <1>7, <1>8
  <2> QED
    BY <1>1, <1>4, <1>6, <1>7, <1>8, <2>1, <2>2
<1>9. CASE ~(again /\ slack)
  <2>1. \/ timer' = restored /\ UNCHANGED <<mTimers, tpc>>
        \/ AddTimer(mTimers, restored, t) /\ gThread /\ again
    BY <1>1, <1>9
  <2> HIDE DEF again, slack
  <2> QED
    BY <1>1, <1>4, <1>5, <1>7, <2>1
<1> QED
  BY <1>8, <1>9

\* Fire ends: the timer may be added again, and the reference is kept to be dropped.
LEMMA CountedEndFire == Counted /\ EndFire => Counted'
<1> SUFFICES ASSUME Counted, EndFire
             PROVE  Counted'
  OBVIOUS
<1>1. TypeOK /\ Control /\ Exact
  BY DEF Counted
<1>2. firing \in Timers /\ call = Idle /\ rewritten' \in BOOLEAN
  BY <1>1, EndFireEffect
<1>3. PICK timers \in Table :
         /\ \A u \in Timers : timers[u].mRefCnt = timer[u].mRefCnt
         /\ \/ timer' = timers /\ UNCHANGED <<mTimers, tpc>>
            \/ AddTimer(mTimers, timers, firing)
  BY <1>1, EndFireEffect
<1>4. /\ firing' = None /\ saved' = FALSE /\ call' = [op |-> "releasing", timer |-> firing]
      /\ UNCHANGED <<now, mShutdown, mSleeping, mTimeoutAdjustment, gThread, cur, evGen,
                     popped, queue, held,
                     index, leaving, gGenerator, upsets>>
  BY DEF EndFire
<1>5. \E n \in {0, 1} :
         /\ \A u : Occurrences(u, mTimers') = Occurrences(u, mTimers) + (IF u = firing THEN n ELSE 0)
         /\ \A u \in Timers : timer'[u].mRefCnt = timer[u].mRefCnt + (IF u = firing THEN n ELSE 0)
         /\ mTimers' \in Seq(Timers) /\ timer' \in Table
         /\ tpc' \in [at : RunPlaces, until : Int]
         /\ tpc'.at \in {"post", "rearm", "dispatch", "drop", "unlist"} <=>
               tpc.at \in {"post", "rearm", "dispatch", "drop", "unlist"}
         /\ tpc'.at = "unlist" <=> tpc.at = "unlist"
  <2>1. mTimers \in Seq(Timers) /\ tpc \in [at : RunPlaces, until : Int]
    BY <1>1 DEF TypeOK, RunPlaces
  <2>2. /\ \A u : Occurrences(u, mTimers) \in Nat
        /\ \A u \in Timers : timer[u].mRefCnt \in Nat
    BY <1>1, Parts
  <2>3. CASE timer' = timers /\ UNCHANGED <<mTimers, tpc>>
    <3>1. /\ \A u : Occurrences(u, mTimers) = Occurrences(u, mTimers) + 0
          /\ \A u \in Timers : timer[u].mRefCnt = timer[u].mRefCnt + 0
      BY <2>2
    <3> QED
      BY <1>3, <2>1, <2>3, <3>1
  <2>4. CASE AddTimer(mTimers, timers, firing)
    <3>1. /\ mTimers' \in Seq(Timers) /\ timer' \in Table
          /\ tpc' \in [at : RunPlaces, until : Int]
          /\ tpc'.at \in {"post", "rearm", "dispatch", "drop", "unlist"} <=>
                tpc.at \in {"post", "rearm", "dispatch", "drop", "unlist"}
          /\ tpc'.at # "waiting" /\ tpc'.at # "top" => tpc' = tpc
          /\ \A u : Occurrences(u, mTimers') =
                       Occurrences(u, mTimers) + Holds(u = firing /\ ~mShutdown)
          /\ \A u \in Timers :
                timer'[u].mRefCnt = timers[u].mRefCnt + Holds(u = firing /\ ~mShutdown)
      BY <1>1, <1>2, <2>1, <2>4, AddTimerEffect
    <3>2. tpc'.at = "unlist" <=> tpc.at = "unlist"
      <4>1. CASE tpc'.at # "waiting" /\ tpc'.at # "top"
        BY <3>1, <4>1
      <4>2. CASE tpc'.at = "waiting" \/ tpc'.at = "top"
        BY <3>1, <4>2
      <4> QED
        BY <4>1, <4>2
    <3>3. CASE mShutdown
      <4>1. \A u : Holds(u = firing /\ ~mShutdown) = (IF u = firing THEN 0 ELSE 0)
        BY <3>3 DEF Holds
      <4> QED
        BY <1>3, <3>1, <3>2, <4>1
    <3>4. CASE ~mShutdown
      <4>1. \A u : Holds(u = firing /\ ~mShutdown) = (IF u = firing THEN 1 ELSE 0)
        BY <3>4 DEF Holds
      <4>2. /\ \A u : Occurrences(u, mTimers') =
                         Occurrences(u, mTimers) + (IF u = firing THEN 1 ELSE 0)
            /\ \A u \in Timers :
                  timer'[u].mRefCnt = timer[u].mRefCnt + (IF u = firing THEN 1 ELSE 0)
        BY <1>3, <3>1, <4>1
      <4> WITNESS 1 \in {0, 1}
      <4> QED
        BY <3>1, <3>2, <4>2, Zenon
    <3> QED
      BY <3>3, <3>4
  <2> QED
    BY <1>3, <2>3, <2>4
<1>6. call' \in [op : {"idle", "adding", "changing", "releasing", "removing"},
                 timer : Timers \cup {None}]
      /\ call'.op = "releasing" /\ call'.timer = firing
  BY <1>2, <1>4
<1>7. TypeOK'
  BY <1>1, <1>2, <1>4, <1>5, <1>6 DEF TypeOK, Table, RunPlaces
<1>8. Control'
  BY <1>1, <1>2, <1>4, <1>5, <1>6 DEF Control
<1>9. ASSUME NEW u \in Timers
      PROVE  timer'[u].mRefCnt = References(u)'
  <2>1. Queued' = Queued
    BY <1>4 DEF Queued
  <2>2. timer[u].mRefCnt = References(u)
    BY <1>1 DEF Exact
  <2>3. UNCHANGED <<leaving, cur, held>> /\ firing' # u
    BY <1>4, TimersAssumption
  <2>4. /\ Occurrences(u, mTimers) \in Nat /\ Occurrences(u, leaving) \in Nat
        /\ Occurrences(u, Queued) \in Nat
    BY <1>1, Parts
  <2>5. PICK n \in {0, 1} :
           /\ Occurrences(u, mTimers') = Occurrences(u, mTimers) + (IF u = firing THEN n ELSE 0)
           /\ timer'[u].mRefCnt = timer[u].mRefCnt + (IF u = firing THEN n ELSE 0)
           /\ tpc'.at = "unlist" <=> tpc.at = "unlist"
    BY <1>5
  <2>6. call.op # "releasing" /\ call'.op = "releasing" /\ call'.timer = firing
    BY <1>2, <1>6 DEF Idle
  <2> QED
    BY <2>1, <2>2, <2>3, <2>4, <2>5, <2>6 DEF References, Holds
<1> QED
  BY <1>7, <1>8, <1>9 DEF Counted, Exact

\* The references of mTimers become those of Shutdown's array.
LEMMA CountedBeginShutdown == Counted /\ BeginShutdown => Counted'
<1> SUFFICES ASSUME Counted, BeginShutdown
             PROVE  Counted'
  OBVIOUS
<1>1. TypeOK /\ Control /\ Exact
  BY DEF Counted
<1>2. /\ leaving = <<>> /\ mShutdown' = TRUE /\ tpc' = Notified /\ leaving' = mTimers /\ mTimers' = <<>>
      /\ UNCHANGED <<now, mSleeping, mTimeoutAdjustment, gThread, timer, cur, evGen, popped,
                     queue, held, call,
                     firing, saved, index, counts>>
  BY DEF BeginShutdown, AtRest
<1>3. /\ tpc' \in [at : RunPlaces, until : Int]
      /\ tpc'.at \in {"post", "rearm", "dispatch", "drop", "unlist"} <=>
            tpc.at \in {"post", "rearm", "dispatch", "drop", "unlist"}
      /\ tpc'.at = "unlist" <=> tpc.at = "unlist"
  <2>1. tpc \in [at : RunPlaces, until : Int]
    BY <1>1 DEF TypeOK, RunPlaces
  <2> QED
    BY <1>2, <2>1, NotifiedType
<1>4. TypeOK'
  BY <1>1, <1>2, <1>3 DEF TypeOK, RunPlaces, counts
<1>5. Control'
  BY <1>1, <1>2, <1>3 DEF Control
<1>6. ASSUME NEW u \in Timers
      PROVE  timer'[u].mRefCnt = References(u)'
  <2>1. Queued' = Queued
    BY <1>2 DEF Queued
  <2>2. timer[u].mRefCnt = References(u)
    BY <1>1 DEF Exact
  <2>3. UNCHANGED <<timer, held, firing, call, cur>>
    BY <1>2 DEF owner
  <2>4. /\ Occurrences(u, mTimers) \in Nat /\ Occurrences(u, leaving) \in Nat
        /\ Occurrences(u, Queued) \in Nat
    BY <1>1, Parts
  <2>5. Occurrences(u, mTimers') = 0 /\ Occurrences(u, leaving) = 0
    BY <1>2, OccurrencesEmpty
  <2>6. leaving' = mTimers /\ (tpc'.at = "unlist" <=> tpc.at = "unlist")
    BY <1>2, <1>3
  <2> QED
    BY <2>1, <2>2, <2>3, <2>4, <2>5, <2>6 DEF References, Holds
<1> QED
  BY <1>4, <1>5, <1>6 DEF Counted, Exact

\* What Shutdown does to the timer at the head of its array.
LEMMA ShutdownReleasesTable ==
    ASSUME TypeOK, Exact, ShutdownReleases
    PROVE  /\ leaving # <<>> /\ Head(leaving) \in Timers
           /\ leaving' = Tail(leaving) /\ leaving' \in Seq(Timers)
           /\ \A u : Occurrences(u, leaving') \in Nat
           /\ \A u : Occurrences(u, leaving) = Occurrences(u, leaving') + Holds(u = Head(leaving))
           /\ timer' \in Table
           /\ ~timer'[Head(leaving)].mArmed
           /\ \A u \in Timers :
                 /\ timer'[u].mRefCnt = timer[u].mRefCnt - Holds(u = Head(leaving))
                 /\ u # Head(leaving) => timer'[u].mArmed = timer[u].mArmed
                 /\ u # Head(leaving) \/ timer[Head(leaving)].mRefCnt > 1 =>
                       /\ timer'[u].mGeneration = timer[u].mGeneration
                       /\ timer'[u].mType = timer[u].mType /\ timer'[u].delaySet = timer[u].delaySet
                       /\ timer'[u].mTimeout = timer[u].mTimeout
           /\ timer[Head(leaving)].mRefCnt = 1 => timer'[Head(leaving)] = Blank(0)
<1> DEFINE t == Head(leaving)
           x == [timer EXCEPT ![t].mCallback = FALSE]
<1>1. leaving # <<>> /\ leaving' = Tail(leaving) /\ timer' = Disarmed(x, t)
  BY DEF ShutdownReleases
<1>2. leaving \in Seq(Timers) /\ timer \in Table
  BY Parts DEF TypeOK
<1>3. t \in Timers /\ leaving' \in Seq(Timers)
  BY <1>1, <1>2, HeadTailProperties
<1>4. \A u : Occurrences(u, leaving') \in Nat
  BY <1>3, InListOccurs
<1>5. \A u : Occurrences(u, leaving) = Occurrences(u, leaving') + Holds(u = t)
  BY <1>1, <1>2, OccurrencesTail DEF Holds
<1>6. PICK no \in BOOLEAN : no = FALSE
  OBVIOUS
<1>7. x = WithCallback(timer, t, no)
  BY <1>6, Zenon DEF WithCallback
<1> HIDE DEF x, t
<1>8. /\ x \in Table
      /\ \A u \in Timers :
            /\ x[u].mRefCnt = timer[u].mRefCnt /\ x[u].mArmed = timer[u].mArmed
            /\ x[u].mGeneration = timer[u].mGeneration /\ x[u].mType = timer[u].mType
            /\ x[u].delaySet = timer[u].delaySet
            /\ x[u].mTimeout = timer[u].mTimeout
  BY <1>2, <1>3, <1>7, WithCallbackTable
<1>9. x[t].mRefCnt > 0
  <2>1. timer[t].mRefCnt = References(t)
    BY <1>3 DEF Exact
  <2>2. Occurrences(t, leaving) > 0
    BY <1>4, <1>5 DEF Holds
  <2>3. timer[t].mRefCnt > 0
    BY <2>1, <2>2, Parts DEF References, Holds
  <2> QED
    BY <1>3, <1>8, <2>3
<1>10. /\ timer' \in Table /\ ~timer'[t].mArmed
       /\ \A u \in Timers :
             /\ timer'[u].mRefCnt = x[u].mRefCnt - Holds(u = t)
             /\ u # t => timer'[u].mArmed = x[u].mArmed
             /\ u # t \/ x[t].mRefCnt > 1 =>
                   /\ timer'[u].mGeneration = x[u].mGeneration
                   /\ timer'[u].mType = x[u].mType /\ timer'[u].delaySet = x[u].delaySet
                   /\ timer'[u].mTimeout = x[u].mTimeout
       /\ x[t].mRefCnt = 1 => timer'[t] = Blank(0)
  BY <1>1, <1>3, <1>8, <1>9, DisarmedTable
<1>11. /\ \A u \in Timers :
             /\ timer'[u].mRefCnt = timer[u].mRefCnt - Holds(u = t)
             /\ u # t => timer'[u].mArmed = timer[u].mArmed
             /\ u # t \/ timer[t].mRefCnt > 1 =>
                   /\ timer'[u].mGeneration = timer[u].mGeneration
                   /\ timer'[u].mType = timer[u].mType /\ timer'[u].delaySet = timer[u].delaySet
                   /\ timer'[u].mTimeout = timer[u].mTimeout
       /\ timer[t].mRefCnt = 1 => timer'[t] = Blank(0)
  BY <1>3, <1>8, <1>10
<1> QED
  BY <1>1, <1>3, <1>4, <1>5, <1>10, <1>11, Zenon DEF t

\* The array's references are given up one by one.
LEMMA CountedShutdownReleases == Counted /\ ShutdownReleases => Counted'
<1> SUFFICES ASSUME Counted, ShutdownReleases
             PROVE  Counted'
  OBVIOUS
<1>1. TypeOK /\ Control /\ Exact
  BY DEF Counted
<1> DEFINE t == Head(leaving)
<1>2. /\ leaving' \in Seq(Timers) /\ timer' \in Table
      /\ \A u : Occurrences(u, leaving') \in Nat
      /\ \A u : Occurrences(u, leaving) = Occurrences(u, leaving') + Holds(u = t)
      /\ \A u \in Timers : timer'[u].mRefCnt = timer[u].mRefCnt - Holds(u = t)
  BY <1>1, ShutdownReleasesTable
<1> HIDE DEF t
<1>3. UNCHANGED <<now, mTimers, mShutdown, mSleeping, mTimeoutAdjustment, gThread, timerThread,
                  queue, held,
                  call, firing, saved, index, counts>>
  BY DEF ShutdownReleases
<1>4. TypeOK'
  BY <1>1, <1>2, <1>3 DEF TypeOK, Table, timerThread, counts
<1>5. Control'
  BY <1>1, <1>3 DEF Control, timerThread
<1>6. ASSUME NEW u \in Timers
      PROVE  timer'[u].mRefCnt = References(u)'
  <2>1. Queued' = Queued
    BY <1>3 DEF Queued
  <2>2. timer[u].mRefCnt = References(u)
    BY <1>1 DEF Exact
  <2>3. UNCHANGED <<mTimers, held, firing, call, cur, tpc>>
    BY <1>3 DEF timerThread
  <2>4. /\ Occurrences(u, mTimers) \in Nat /\ Occurrences(u, leaving') \in Nat
        /\ Occurrences(u, Queued) \in Nat
    BY <1>1, <1>2, Parts
  <2>5. /\ Occurrences(u, leaving) = Occurrences(u, leaving') + Holds(u = t)
        /\ timer'[u].mRefCnt = timer[u].mRefCnt - Holds(u = t)
    BY <1>2
  <2> QED
    BY <2>1, <2>2, <2>3, <2>4, <2>5 DEF References, Holds
<1> QED
  BY <1>4, <1>5, <1>6 DEF Counted, Exact

\* The steps that only move the clock, the timer thread or the owner.
LEMMA CountedIdly ==
    ASSUME Counted,
           \/ Tick \/ WaitExpires \/ BeginAfterSleep \/ EndAfterSleep \/ DoBeforeSleep
           \/ WakesUnslept \/ EndShutdown \/ UNCHANGED vars
    PROVE  Counted'
<1>1. TypeOK /\ Control /\ tpc \in [at : RunPlaces, until : Int]
  BY DEF Counted, TypeOK, RunPlaces
<1>2. CASE Tick
  <2>1. now' \in 0 .. MaxTime
    BY <1>1, <1>2, BoundsAssumption DEF Tick, TypeOK
  <2>2. TypeOK'
    BY <1>1, <1>2, <2>1 DEF Tick, TypeOK, timerThread, owner, counts
  <2> QED
    BY <1>2, <2>2, CountedQuiet DEF Tick, timerThread, owner
<1>3. CASE WaitExpires
  <2>1. tpc' \in [at : RunPlaces, until : Int] /\ tpc'.at = "top"
    BY <1>3, AtType DEF WaitExpires, RunPlaces
  <2>2. cur = None
    BY <1>1, <1>3 DEF WaitExpires, Control
  <2>3. TypeOK'
    BY <1>1, <1>3, <2>1 DEF WaitExpires, TypeOK, RunPlaces, owner, counts
  <2>4. tpc' \in [at : {"top", "again", "waiting", "done"}, until : Int]
    BY <2>1
  <2> QED
    BY <1>3, <2>2, <2>3, <2>4, CountedQuiet DEF WaitExpires, owner
<1>4. CASE BeginAfterSleep \/ EndAfterSleep \/ DoBeforeSleep \/ WakesUnslept \/ EndShutdown \/ UNCHANGED vars
  <2>1. UNCHANGED <<now, mTimers, timer, tpc, cur, evGen, popped, queue, held, call, firing,
                    saved, leaving, gGenerator, mShutdown>>
    BY <1>4 DEF BeginAfterSleep, EndAfterSleep, DoBeforeSleep, WakesUnslept, EndShutdown,
                vars, timerThread, owner, counts, Readjusts
  <2>2. mSleeping' \in BOOLEAN /\ gThread' \in BOOLEAN
    BY <1>1, <1>4, Zenon DEF TypeOK, BeginAfterSleep, EndAfterSleep, DoBeforeSleep, WakesUnslept,
                             EndShutdown, vars
  <2>3. index' \in Nat /\ upsets' \in Nat
    BY <1>1, <1>4 DEF TypeOK, BeginAfterSleep, EndAfterSleep, DoBeforeSleep, WakesUnslept,
                      EndShutdown, vars, owner, counts
  <2>4. mTimeoutAdjustment' \in Adjustments \cup {0} /\ rewritten' \in BOOLEAN
    <3>1. CASE EndAfterSleep
      BY <1>1, <3>1, Zenon DEF TypeOK, EndAfterSleep, Readjusts
    <3>2. CASE BeginAfterSleep \/ DoBeforeSleep \/ WakesUnslept \/ EndShutdown \/ UNCHANGED vars
      BY <1>1, <3>2 DEF TypeOK, BeginAfterSleep, DoBeforeSleep, WakesUnslept, EndShutdown,
                        vars, counts
    <3> QED
      BY <1>4, <3>1, <3>2
  <2>5. TypeOK'
    BY <1>1, <2>1, <2>2, <2>3, <2>4 DEF TypeOK
  <2> QED
    BY <2>1, <2>5, CountedQuiet
<1> QED
  BY <1>2, <1>3, <1>4

\* Every step counts references right.
LEMMA CountedStep == Counted /\ [Next]_vars => Counted'
<1> SUFFICES ASSUME Counted, [Next]_vars
             PROVE  Counted'
  OBVIOUS
<1>1. CASE TimerStep
  BY <1>1, CountedTop, CountedIdly, CountedMakeEvent, CountedRearm, CountedDispatchEvent,
     CountedDispatchRefused, CountedDropTimer, CountedDropUnlists DEF TimerStep
<1>2. CASE OwnerStep
  BY <1>2, CountedIdly, CountedFinishInit, CountedTimerDelayChanged, CountedReleaseFired,
     CountedRemoveTimer, CountedRunEvent, CountedEndFire, CountedResetNext,
     CountedShutdownReleases DEF OwnerStep
<1>3. CASE OwnerCalls
  BY <1>3, CountedIdly, CountedBeginInit, CountedSetDelay, CountedCancel, CountedLetGo,
     CountedBeginShutdown DEF OwnerCalls
<1> QED
  BY <1>1, <1>2, <1>3, CountedIdly DEF Next

\* Counted is an invariant: in every reachable state the fields have their types and
\* every reference count is the number of those who have a reference.
THEOREM CountedInvariant == Spec => []Counted
  BY CountedInit, CountedStep, PTL DEF Spec

\* The reference count of a timer is exact on every path through Release, RemoveTimer,
\* PostTimerEvent, Fire and Shutdown.
THEOREM ReferencesAreCounted == Spec => []RefCntExact
<1>1. Counted => RefCntExact
  BY DEF Counted, Exact, RefCntExact
<1> QED
  BY <1>1, CountedInvariant, PTL

-----------------------------------------------------------------------------
(***************************************************************************)
(* What holds of the list, of the timers in it and of the wait of the      *)
(* timer thread.                                                           *)
(***************************************************************************)

\* After Shutdown the list is empty, and once the timer thread is gone nothing is
\* left in its hands.
Shut ==
    /\ mShutdown => mTimers = <<>>
    /\ leaving # <<>> => mShutdown
    /\ ~gThread => mShutdown /\ leaving = <<>> /\ tpc.at = "done"

\* An armed timer is in a list.  A timer that is never precise is there once; the
\* arguments are the number of its places in the lists, its fields and its name.
Sound(copies, fields, t) ==
    /\ fields.mType \in TypesOf[t] \cup {"ONE_SHOT"}
    /\ fields.mArmed => copies > 0
    /\ NeverPrecise(t) => copies <= 1 /\ (~fields.mArmed => copies = 0)

\* A timer that is never precise is armed by the owner only, and is not in a list
\* when the owner is about to add it.
Listed ==
    \A t \in Timers :
        /\ Sound(Occurrences(t, mTimers) + Occurrences(t, leaving), timer[t], t)
        /\ NeverPrecise(t) =>
              /\ cur = t => tpc.at # "rearm"
              /\ call.op = "adding" /\ call.timer = t => ~timer[t].mArmed

\* Without upsets nobody is at the places that only they lead to; the owner has the
\* timer that it is adding.
Upset ==
    /\ mSleeping \/ index > 0 \/ call.op = "changing" => ~Undisturbed
    /\ tpc.at \in {"drop", "unlist"} => ~Undisturbed \/ mShutdown
    /\ call.op = "adding" => call.timer \in held \cup {firing}

\* Without upsets an armed timer has a second reference, unless the owner has just
\* dropped it and is about to take the timer out of the list.
Second ==
    Undisturbed /\ ~mShutdown =>
       \A t \in Timers :
          NeverPrecise(t) /\ timer[t].mArmed =>
             \/ timer[t].mRefCnt > 1
             \/ call.op = "removing" /\ call.timer = t

\* A list is sorted, but for timers that are overdue, and a wait is over before the
\* timers of a list are due.
SortedList(list, timers, time) ==
    \A i, j \in DOMAIN list :
        i < j => \/ timers[list[i]].mTimeout <= timers[list[j]].mTimeout
                 \/ timers[list[i]].mTimeout <= time

WakesFor(list, timers, time, until) ==
    \A i \in DOMAIN list : until <= time \/ until <= timers[list[i]].mTimeout

\* The time that timeouts are compared with, and the timeout that the wait is for.
Clock == now - mTimeoutAdjustment
Deadline == tpc.until - mTimeoutAdjustment

\* As long as mTimeout of no listed timer, and no adjustment for them, is written.
Timely ==
    ~rewritten =>
        /\ SortedList(mTimers, timer, Clock)
        /\ tpc.at = "waiting" => WakesFor(mTimers, timer, Clock, Deadline)

-----------------------------------------------------------------------------
(***************************************************************************)
(* Shutdown.                                                               *)
(***************************************************************************)

\* Nothing can be taken out of an empty list.
LEMMA RemovedFromEmpty ==
    ASSUME NEW t
    PROVE  Removed(<<>>, t) = <<>>
<1>1. ~InList(<<>>, t)
  BY DEF InList
<1> QED
  BY <1>1 DEF Removed

\* The places where the timer thread stands still: Notified does not move it.
LEMMA NotifiedDone == tpc.at = "done" => Notified = tpc
  BY DEF Notified

\* AddTimer adds nothing after Shutdown, and does not move a timer thread that ended.
LEMMA AddTimerShut ==
    ASSUME NEW list, NEW timers, NEW t, AddTimer(list, timers, t)
    PROVE  /\ mShutdown => mTimers' = list
           /\ tpc.at = "done" => tpc' = tpc
<1>1. CASE mShutdown
  BY <1>1 DEF AddTimer
<1>2. CASE ~mShutdown
  <2>1. PICK i \in Places(list, timers, t) : tpc' = IF i = 0 THEN Notified ELSE tpc
    BY <1>2, Zenon DEF AddTimer
  <2> QED
    BY <1>2, <2>1, NotifiedDone
<1> QED
  BY <1>1, <1>2

\* Shut holds at first.
LEMMA ShutInit == Init => Shut
  BY DEF Init, Shut

\* Every step keeps it.
LEMMA ShutStep == Counted /\ Shut /\ [Next]_vars => Shut'
<1> SUFFICES ASSUME Counted, Shut, [Next]_vars
             PROVE  Shut'
  OBVIOUS
<1>1. ASSUME UNCHANGED <<mShutdown, leaving, gThread>>,
             mShutdown => mTimers' = <<>>, tpc.at = "done" => tpc' = tpc
      PROVE  Shut'
  BY <1>1 DEF Shut
<1>2. CASE TimerStep
  <2>1. UNCHANGED <<mShutdown, leaving, gThread>> /\ tpc.at # "done"
    BY <1>2 DEF TimerStep, Top, Again, WaitExpires, MakeEvent, Rearm, DispatchEvent,
                DispatchRefused, DropTimer, DropUnlists, owner
  <2>2. mShutdown => mTimers' = mTimers \/ mTimers' = Removed(mTimers, cur)
    <3>1. CASE Top
      BY <3>1 DEF Top, Ends
    <3>2. CASE Again
      BY <3>2 DEF Again, Ends
    <3>3. CASE WaitExpires \/ MakeEvent \/ DispatchEvent \/ DispatchRefused \/ DropTimer
               \/ DropUnlists
      BY <3>3 DEF WaitExpires, MakeEvent, DispatchEvent, DispatchRefused, DropTimer, DropUnlists
    <3>4. CASE Rearm
      BY <3>4 DEF Rearm
    <3> QED
      BY <1>2, <3>1, <3>2, <3>3, <3>4 DEF TimerStep
  <2> QED
    BY <1>1, <2>1, <2>2, RemovedFromEmpty DEF Shut
<1>3. CASE FinishInit \/ TimerDelayChanged
  <2>1. UNCHANGED <<mShutdown, leaving, gThread>>
    BY <1>3 DEF FinishInit, TimerDelayChanged
  <2>2. \/ AddTimer(mTimers, timer, call.timer)
        \/ AddTimer(Removed(mTimers, call.timer), Unlisted(mTimers, timer, call.timer),
                    call.timer)
    BY <1>3 DEF FinishInit, TimerDelayChanged
  <2>3. /\ mShutdown => mTimers' = mTimers \/ mTimers' = Removed(mTimers, call.timer)
        /\ tpc.at = "done" => tpc' = tpc
    BY <2>2, AddTimerShut
  <2> QED
    BY <1>1, <2>1, <2>3, RemovedFromEmpty DEF Shut
<1>4. CASE EndFire
  <2>1. UNCHANGED <<mShutdown, leaving, gThread>>
    BY <1>4 DEF EndFire
  <2>2. \/ UNCHANGED <<mTimers, tpc>>
        \/ \E timers \in Table : AddTimer(mTimers, timers, firing)
    BY <1>4, EndFireEffect DEF Counted
  <2>3. /\ mShutdown => mTimers' = mTimers
        /\ tpc.at = "done" => tpc' = tpc
    BY <2>2, AddTimerShut
  <2> QED
    BY <1>1, <2>1, <2>3 DEF Shut
<1>5. ASSUME NEW t \in Timers,
             Cancel(t) \/ \E type \in Types, delay \in Delays : BeginInit(t, type, delay)
      PROVE  Shut'
  <2>1. /\ UNCHANGED <<mShutdown, leaving, gThread>>
        /\ mTimers' \in {mTimers, Removed(mTimers, t)}
        /\ tpc' = tpc \/ tpc' = Notified
    BY <1>5 DEF Cancel, BeginInit, owner
  <2> QED
    BY <1>1, <2>1, RemovedFromEmpty, NotifiedDone DEF Shut
<1>6. CASE RemoveTimer
  <2>1. /\ UNCHANGED <<mShutdown, leaving, gThread>>
        /\ mTimers' = Removed(mTimers, call.timer)
        /\ tpc' = tpc \/ tpc' = Notified
    BY <1>6 DEF RemoveTimer
  <2> QED
    BY <1>1, <2>1, RemovedFromEmpty, NotifiedDone DEF Shut
<1>7. CASE BeginShutdown
  <2>1. gThread
    BY <1>7 DEF BeginShutdown, Shut
  <2> QED
    BY <1>7, <2>1 DEF BeginShutdown, Shut
<1>8. CASE ShutdownReleases
  BY <1>8 DEF ShutdownReleases, Shut, timerThread
<1>9. CASE EndShutdown
  BY <1>9 DEF EndShutdown, AtRest, Shut, timerThread, owner
<1>10. ASSUME UNCHANGED <<mShutdown, leaving, gThread, mTimers, tpc>>
       PROVE  Shut'
  BY <1>10 DEF Shut
<1>11. CASE \/ Tick \/ ReleaseFired \/ RunEvent \/ BeginAfterSleep \/ ResetNext
            \/ EndAfterSleep \/ DoBeforeSleep \/ WakesUnslept \/ UNCHANGED vars
  <2>1. UNCHANGED <<mShutdown, leaving, gThread, mTimers, tpc>>
    BY <1>11 DEF Tick, ReleaseFired, RunEvent, BeginAfterSleep, ResetNext, EndAfterSleep,
                 DoBeforeSleep, WakesUnslept, vars, timerThread, owner
  <2> QED
    BY <1>10, <2>1
<1>12. ASSUME NEW t \in Timers, LetGo(t) \/ \E delay \in Delays : SetDelay(t, delay)
       PROVE  Shut'
  <2>1. UNCHANGED <<mShutdown, leaving, gThread, mTimers, tpc>>
    BY <1>12 DEF LetGo, SetDelay, timerThread
  <2> QED
    BY <1>10, <2>1
<1> QED
  BY <1>2, <1>3, <1>4, <1>5, <1>6, <1>7, <1>8, <1>9, <1>11, <1>12
     DEF Next, OwnerStep, OwnerCalls

-----------------------------------------------------------------------------
(***************************************************************************)
(* What the steps do to the fields of timers.                              *)
(***************************************************************************)

\* The timer thread takes the first timer out of the list, which stays as it is but
\* for mArmed.
LEMMA PopsEffect ==
    ASSUME TypeOK, mTimers # <<>>, Pops
    PROVE  /\ mTimers[1] \in Timers /\ cur' = mTimers[1] /\ tpc'.at = "post"
           /\ popped' = Popped(mTimers[1])
           /\ mTimers' = Tail(mTimers)
           /\ \A u : Occurrences(u, mTimers') =
                        Occurrences(u, mTimers) - Holds(u = mTimers[1])
           /\ ~timer'[mTimers[1]].mArmed
           /\ \A u \in Timers :
                 /\ u # mTimers[1] => timer'[u].mArmed = timer[u].mArmed
                 /\ timer'[u].mRefCnt = timer[u].mRefCnt
                 /\ timer'[u].mGeneration = timer[u].mGeneration
                 /\ timer'[u].mType = timer[u].mType /\ timer'[u].delaySet = timer[u].delaySet
                 /\ timer'[u].mTimeout = timer[u].mTimeout
<1> DEFINE t == mTimers[1]
<1>1. mTimers \in Seq(Timers) /\ timer \in Table
  BY Parts DEF TypeOK
<1>2. t \in Timers /\ t = Head(mTimers)
  BY <1>1, HeadTailProperties
<1>3. /\ tpc' = At("post") /\ cur' = t /\ popped' = Popped(t)
      /\ mTimers' = Tail(mTimers)
      /\ timer' = [timer EXCEPT ![t].mArmed = FALSE]
  BY DEF Pops, Popped
<1>4. PICK no \in BOOLEAN : no = FALSE
  OBVIOUS
<1>5. timer' = WithArmed(timer, t, no)
  BY <1>3, <1>4, Zenon DEF WithArmed
<1>6. \A u : Occurrences(u, mTimers') = Occurrences(u, mTimers) - Holds(u = t)
  <2>1. Tail(mTimers) \in Seq(Timers)
    BY <1>1, HeadTailProperties
  <2>2. \A u : Occurrences(u, Tail(mTimers)) \in Nat
    BY <2>1, InListOccurs
  <2> QED
    BY <1>1, <1>2, <1>3, <2>2, OccurrencesTail DEF Holds
<1> HIDE DEF t
<1>7. /\ timer'[t].mArmed = no
      /\ \A u \in Timers : u # t => timer'[u] = timer[u]
      /\ \A u \in Timers :
            /\ timer'[u].mRefCnt = timer[u].mRefCnt
            /\ timer'[u].mGeneration = timer[u].mGeneration
            /\ timer'[u].mType = timer[u].mType /\ timer'[u].delaySet = timer[u].delaySet
            /\ timer'[u].mTimeout = timer[u].mTimeout
  BY <1>1, <1>2, <1>5, WithArmedTable
<1>8. tpc'.at = "post"
  BY <1>3 DEF At
<1> QED
  BY <1>2, <1>3, <1>4, <1>6, <1>7, <1>8 DEF t

\* At the top of its loop the timer thread ends, waits, or takes a timer that is due.
LEMMA TopEffect ==
    ASSUME TypeOK, Top \/ Again
    PROVE  /\ UNCHANGED <<now, mShutdown, mSleeping, mTimeoutAdjustment, gThread, evGen, queue,
                          owner, counts>>
           /\ tpc.at \in {"top", "again"}
           /\ \/ /\ UNCHANGED <<cur, popped, mTimers, timer>>
                 /\ \/ tpc'.at = "done"
                    \/ /\ tpc'.at = "waiting"
                       /\ \/ tpc'.until = now
                          \/ mTimers = <<>>
                          \/ /\ mTimers # <<>>
                             /\ tpc'.until = timer[mTimers[1]].mTimeout + mTimeoutAdjustment
              \/ /\ ~mShutdown /\ mTimers # <<>> /\ Pops
                 /\ now >= timer[mTimers[1]].mTimeout + mTimeoutAdjustment
<1>1. /\ UNCHANGED <<now, mShutdown, mSleeping, mTimeoutAdjustment, gThread, evGen, queue,
                     owner, counts>>
      /\ tpc.at \in {"top", "again"}
  BY DEF Top, Again
<1>2. Ends \/ Waits(now) \/ (~mShutdown /\ Looks)
  <2>1. Ends \/ Waits(now) \/ Looks
    BY DEF Top, Again
  <2>2. mShutdown => Ends
    BY DEF Top, Again, Ends
  <2> QED
    BY <2>1, <2>2
<1>3. CASE Ends
  BY <1>1, <1>3 DEF Ends, At
<1>4. CASE Waits(now)
  BY <1>1, <1>4 DEF Waits
<1>5. CASE ~mShutdown /\ Looks
  <2>1. CASE mTimers = <<>>
    BY <1>1, <1>5, <2>1 DEF Looks, Waits
  <2>2. CASE mTimers # <<>> /\ now >= timer[mTimers[1]].mTimeout + mTimeoutAdjustment
    BY <1>1, <1>5, <2>2 DEF Looks
  <2>3. CASE mTimers # <<>> /\ ~(now >= timer[mTimers[1]].mTimeout + mTimeoutAdjustment)
    BY <1>1, <1>5, <2>3 DEF Looks, Waits
  <2> QED
    BY <2>1, <2>2, <2>3
<1> QED
  BY <1>2, <1>3, <1>4, <1>5

\* PostTimerEvent may give the timer it posts a new timeout.
LEMMA MakeEventEffect ==
    ASSUME Counted, MakeEvent
    PROVE  /\ cur \in Timers /\ tpc.at = "post"
           /\ tpc'.at \in {"rearm", "dispatch"}
           /\ tpc'.at = "rearm" => timer[cur].mType = "REPEATING_PRECISE"
           /\ evGen' = timer[cur].mGeneration
           /\ rewritten' \in BOOLEAN /\ (rewritten => rewritten')
           /\ \A u \in Timers :
                 /\ timer'[u].mArmed = timer[u].mArmed
                 /\ timer'[u].mRefCnt = timer[u].mRefCnt
                 /\ timer'[u].mGeneration = timer[u].mGeneration
                 /\ timer'[u].mType = timer[u].mType /\ timer'[u].delaySet = timer[u].delaySet
                 /\ \/ timer'[u].mTimeout = timer[u].mTimeout
                    \/ /\ u = cur /\ timer[u].mType # "ONE_SHOT"
                       /\ ~rewritten' => ~InList(mTimers, u)
<1>1. TypeOK /\ Control
  BY DEF Counted
<1>2. cur \in Timers /\ tpc.at = "post"
  BY <1>1 DEF MakeEvent, Control, TypeOK
<1>3. timer \in Table /\ timer[cur] \in Fields /\ now \in 0 .. MaxTime /\ rewritten \in BOOLEAN
  BY <1>1, <1>2, Parts DEF TypeOK
<1>4. timer[cur].mDelay \in Delays \cup {0}
  BY <1>3 DEF Fields
<1>5. /\ evGen' = timer[cur].mGeneration
      /\ tpc'.at \in {"rearm", "dispatch"}
      /\ tpc'.at = "rearm" => timer[cur].mType = "REPEATING_PRECISE"
  BY DEF MakeEvent, At
<1>6. CASE timer[cur].mType \in {"REPEATING_PRECISE", "REPEATING_PRECISE_CAN_SKIP"}
  <2>1. /\ timer' = SetDelayInternal(timer, cur, timer[cur].mDelay)
        /\ WritesTimeout(mTimers, cur)
    BY <1>6 DEF MakeEvent
  <2>2. /\ \A u \in Timers : u # cur => timer'[u] = timer[u]
        /\ \A u \in Timers :
              /\ timer'[u].mRefCnt = timer[u].mRefCnt /\ timer'[u].mArmed = timer[u].mArmed
              /\ timer'[u].mGeneration = timer[u].mGeneration
              /\ timer'[u].mType = timer[u].mType /\ timer'[u].delaySet = timer[u].delaySet
    BY <1>2, <1>3, <1>4, <2>1, SetDelayTable
  <2>3. /\ rewritten' \in BOOLEAN /\ (rewritten => rewritten')
        /\ ~rewritten' => ~InList(mTimers, cur)
    BY <1>3, <2>1 DEF WritesTimeout
  <2>4. timer[cur].mType # "ONE_SHOT"
    BY <1>6
  <2>5. \A u \in Timers :
           \/ timer'[u].mTimeout = timer[u].mTimeout
           \/ u = cur /\ timer[u].mType # "ONE_SHOT" /\ (~rewritten' => ~InList(mTimers, u))
    BY <2>2, <2>3, <2>4
  <2> QED
    BY <1>2, <1>5, <2>2, <2>3, <2>5
<1>7. CASE timer[cur].mType \notin {"REPEATING_PRECISE", "REPEATING_PRECISE_CAN_SKIP"}
  <2>1. UNCHANGED <<timer, rewritten>>
    BY <1>7 DEF MakeEvent
  <2> QED
    BY <1>2, <1>3, <1>5, <2>1
<1> QED
  BY <1>6, <1>7

\* RemoveTimer, with what happens to a timer that is deleted.
LEMMA UnlistedFields ==
    ASSUME TypeOK, Exact, NEW t \in Timers
    PROVE  /\ InList(mTimers, t) => ~Unlisted(mTimers, timer, t)[t].mArmed
           /\ ~InList(mTimers, t) => Unlisted(mTimers, timer, t) = timer
           /\ \A u \in Timers :
                 /\ u # t => Unlisted(mTimers, timer, t)[u].mArmed = timer[u].mArmed
                 /\ u # t \/ timer[t].mRefCnt > 1 =>
                       /\ Unlisted(mTimers, timer, t)[u].mGeneration = timer[u].mGeneration
                       /\ Unlisted(mTimers, timer, t)[u].mType = timer[u].mType
                       /\ Unlisted(mTimers, timer, t)[u].delaySet = timer[u].delaySet
                       /\ Unlisted(mTimers, timer, t)[u].mTimeout = timer[u].mTimeout
           /\ timer[t].mRefCnt <= 1 /\ InList(mTimers, t) =>
                 Unlisted(mTimers, timer, t)[t] = Blank(0)
<1>1. mTimers \in Seq(Timers) /\ timer \in Table /\ timer[t].mRefCnt \in Nat
  BY Parts DEF TypeOK
<1>2. timer[t].mRefCnt >= Occurrences(t, mTimers)
  <2>1. timer[t].mRefCnt >= Holds(t \in held) + Occurrences(t, mTimers)
                              + Occurrences(t, leaving)
                              + Holds(cur = t /\ tpc.at # "unlist")
                              + Occurrences(t, Queued) + Holds(firing = t)
                              + Holds(call.op = "releasing" /\ call.timer = t)
    BY Referenced
  <2> QED
    BY <2>1, Parts DEF Holds
<1>3. InList(mTimers, t) /\ timer[t].mRefCnt <= 1 => timer[t].mRefCnt = 1
  BY <1>1, <1>2, InListOccurs
<1> QED
  BY <1>1, <1>2, <1>3, UnlistedTable

-----------------------------------------------------------------------------
(***************************************************************************)
(* Timers and the list.                                                    *)
(***************************************************************************)

Gone == \A u \in Timers :
           timer[u].mRefCnt = 0 => Occurrences(u, mTimers) + Occurrences(u, leaving) = 0

\* A timer without references is in no list.
LEMMA GoneIsUnlisted == Counted => Gone
<1> SUFFICES ASSUME Counted, NEW u \in Timers, timer[u].mRefCnt = 0
             PROVE  Occurrences(u, mTimers) + Occurrences(u, leaving) = 0
  BY DEF Gone
<1>1. TypeOK /\ Exact
  BY DEF Counted
<1>2. timer[u].mRefCnt = References(u)
  BY <1>1 DEF Exact
<1>3. /\ Occurrences(u, mTimers) \in Nat /\ Occurrences(u, leaving) \in Nat
      /\ Occurrences(u, Queued) \in Nat
  BY <1>1, Parts
<1>4. References(u) >= Occurrences(u, mTimers) + Occurrences(u, leaving)
  BY <1>3 DEF References, Holds
<1> QED
  BY <1>2, <1>3, <1>4

\* A deleted timer is sound if it is in no list.
LEMMA BlankSound ==
    ASSUME NEW u \in Timers, NEW copies, copies = 0
    PROVE  Sound(copies, Blank(0), u)
<1>1. ~Blank(0).mArmed /\ Blank(0).mType = "ONE_SHOT"
  BY BlankType
<1> QED
  BY <1>1 DEF Sound

\* Release keeps timers sound.
LEMMA ReleasedSound ==
    ASSUME Counted, Counted', Listed, NEW t \in Timers, timer[t].mRefCnt > 0,
           timer' = Released(t), UNCHANGED <<mTimers, leaving>>
    PROVE  \A u \in Timers :
              /\ Sound(Occurrences(u, mTimers') + Occurrences(u, leaving'), timer'[u], u)
              /\ timer'[u].mArmed => timer[u].mArmed
<1> TAKE u \in Timers
<1>1. TypeOK
  BY DEF Counted
<1>2. timer[t].mRefCnt \in Nat
  BY <1>1, Parts
<1>3. Sound(Occurrences(u, mTimers) + Occurrences(u, leaving), timer[u], u)
  BY DEF Listed
<1>4. CASE u # t \/ timer[t].mRefCnt > 1
  <2>1. timer'[u].mArmed = timer[u].mArmed /\ timer'[u].mType = timer[u].mType
    BY <1>1, <1>4, ReleasedTable
  <2> QED
    BY <1>3, <2>1 DEF Sound
<1>5. CASE u = t /\ timer[t].mRefCnt = 1
  <2>1. timer'[u] = Blank(0)
    BY <1>1, <1>5, ReleasedTable
  <2>2. timer'[u].mRefCnt = 0 /\ ~timer'[u].mArmed
    BY <2>1, BlankType
  <2>3. Occurrences(u, mTimers') + Occurrences(u, leaving') = 0
    <3>1. Counted' => Gone'
      BY GoneIsUnlisted, PTL
    <3> QED
      BY <2>2, <3>1 DEF Gone
  <2>4. Sound(Occurrences(u, mTimers') + Occurrences(u, leaving'), Blank(0), u)
    BY <2>3, BlankSound
  <2> QED
    BY <2>1, <2>2, <2>4
<1> QED
  BY <1>2, <1>4, <1>5

\* RemoveTimer keeps timers sound.
LEMMA UnlistedSound ==
    ASSUME Counted, Listed, NEW t \in Timers
    PROVE  \A u \in Timers :
              /\ Sound(Occurrences(u, Removed(mTimers, t)) + Occurrences(u, leaving),
                       Unlisted(mTimers, timer, t)[u], u)
              /\ Unlisted(mTimers, timer, t)[u].mArmed => timer[u].mArmed
<1> TAKE u \in Timers
<1> DEFINE w == Unlisted(mTimers, timer, t)
           list == Removed(mTimers, t)
<1>1. TypeOK /\ Exact
  BY DEF Counted
<1>2. /\ timer[u].mRefCnt \in Nat /\ Occurrences(u, mTimers) \in Nat
      /\ Occurrences(u, leaving) \in Nat
  BY <1>1, Parts
<1>3. Sound(Occurrences(u, mTimers) + Occurrences(u, leaving), timer[u], u)
  BY DEF Listed
<1>4. Occurrences(u, list) = Occurrences(u, mTimers) - Holds(u = t /\ InList(mTimers, t))
  BY <1>1, UnlistedEffect
<1>5. timer[u].mRefCnt >= Occurrences(u, mTimers) + Occurrences(u, leaving)
  <2>1. timer[u].mRefCnt = References(u)
    BY <1>1 DEF Exact
  <2> QED
    BY <1>1, <2>1, Parts DEF References, Holds
<1>6. InList(mTimers, u) <=> Occurrences(u, mTimers) > 0
  BY <1>1, InListOccurs DEF TypeOK
<1>7. CASE ~(u = t /\ InList(mTimers, t))
  <2>1. w[u].mArmed = timer[u].mArmed /\ w[u].mType = timer[u].mType
    BY <1>1, <1>7, UnlistedFields
  <2>2. Occurrences(u, list) = Occurrences(u, mTimers)
    BY <1>2, <1>4, <1>7 DEF Holds
  <2> HIDE DEF w, list
  <2>3. Sound(Occurrences(u, list) + Occurrences(u, leaving), w[u], u)
    BY <1>3, <2>1, <2>2 DEF Sound
  <2> QED
    BY <2>1, <2>3 DEF w, list
<1>8. CASE u = t /\ InList(mTimers, t)
  <2>1. Occurrences(u, list) + Occurrences(u, leaving) =
           Occurrences(u, mTimers) + Occurrences(u, leaving) - 1
    BY <1>2, <1>4, <1>8 DEF Holds
  <2>2. ~w[u].mArmed
    BY <1>1, <1>8, UnlistedFields
  <2>3. CASE timer[u].mRefCnt > 1
    <3>1. w[u].mType = timer[u].mType
      BY <1>1, <1>8, <2>3, UnlistedFields
    <3> HIDE DEF w, list
    <3>2. Sound(Occurrences(u, list) + Occurrences(u, leaving), w[u], u)
      BY <1>2, <1>3, <1>6, <1>8, <2>1, <2>2, <3>1 DEF Sound
    <3> QED
      BY <2>2, <3>2 DEF w, list
  <2>4. CASE timer[u].mRefCnt <= 1
    <3>1. w[u] = Blank(0)
      BY <1>1, <1>8, <2>4, UnlistedFields
    <3>2. Occurrences(u, list) + Occurrences(u, leaving) = 0
      BY <1>2, <1>5, <1>6, <1>8, <2>1, <2>4
    <3>3. Sound(Occurrences(u, list) + Occurrences(u, leaving), Blank(0), u)
      BY <3>2, BlankSound
    <3> QED
      BY <2>2, <3>1, <3>3
  <2> QED
    BY <1>2, <2>3, <2>4
<1> QED
  BY <1>7, <1>8

\* AddTimer keeps timers sound if the timer, when it is never precise, is in no list.
LEMMA AddedSound ==
    ASSUME TypeOK, NEW list \in Seq(Timers), NEW timers \in Table, NEW t \in Timers,
           AddTimer(list, timers, t), UNCHANGED leaving,
           \A u \in Timers :
              Sound(Occurrences(u, list) + Occurrences(u, leaving), timers[u], u),
           ~mShutdown /\ NeverPrecise(t) =>
              Occurrences(t, list) + Occurrences(t, leaving) = 0
    PROVE  \A u \in Timers :
              Sound(Occurrences(u, mTimers') + Occurrences(u, leaving'), timer'[u], u)
<1> TAKE u \in Timers
<1>1. /\ Occurrences(u, mTimers') = Occurrences(u, list) + Holds(u = t /\ ~mShutdown)
      /\ timer'[u].mArmed = (timers[u].mArmed \/ (u = t /\ ~mShutdown))
      /\ timer'[u].mType = timers[u].mType
  BY AddTimerEffect
<1>2. Occurrences(u, list) \in Nat /\ Occurrences(u, leaving) \in Nat
  BY Parts, InListOccurs
<1>3. Sound(Occurrences(u, list) + Occurrences(u, leaving), timers[u], u)
  OBVIOUS
<1>4. CASE u = t /\ ~mShutdown
  <2>1. Occurrences(u, mTimers') + Occurrences(u, leaving')
           = Occurrences(u, list) + Occurrences(u, leaving) + 1
    <3>1. Holds(u = t /\ ~mShutdown) = 1
      BY <1>4 DEF Holds
    <3> QED
      BY <1>1, <1>2, <3>1
  <2>2. timer'[u].mArmed
    BY <1>1, <1>4, Zenon
  <2> QED
    BY <1>1, <1>2, <1>3, <1>4, <2>1, <2>2 DEF Sound
<1>5. CASE ~(u = t /\ ~mShutdown)
  <2>1. Occurrences(u, mTimers') + Occurrences(u, leaving')
           = Occurrences(u, list) + Occurrences(u, leaving)
    <3>1. Holds(u = t /\ ~mShutdown) = 0
      BY <1>5 DEF Holds
    <3> QED
      BY <1>1, <1>2, <3>1
  <2>2. timer'[u].mArmed <=> timers[u].mArmed
    BY <1>1, <1>5, Zenon
  <2> QED
    BY <1>1, <1>3, <2>1, <2>2 DEF Sound
<1> QED
  BY <1>4, <1>5

\* Listed after a step that keeps timers sound, arms no timer that the owner is about
\* to add, and does not move the timer thread to where it arms one.
LEMMA ListedNext ==
    ASSUME Listed,
           \A u \in Timers :
              /\ Sound(Occurrences(u, mTimers') + Occurrences(u, leaving'), timer'[u], u)
              /\ timer'[u].mArmed => timer[u].mArmed \/ call'.op # "adding",
           tpc'.at = "rearm" => tpc.at = "rearm" /\ cur' = cur,
           call'.op = "adding" => call' = call
    PROVE  Listed'
<1> SUFFICES ASSUME NEW t \in Timers
             PROVE  /\ Sound(Occurrences(t, mTimers') + Occurrences(t, leaving'), timer'[t], t)
                    /\ NeverPrecise(t) =>
                          /\ cur' = t => tpc'.at # "rearm"
                          /\ call'.op = "adding" /\ call'.timer = t => ~timer'[t].mArmed
  BY DEF Listed
<1>1. NeverPrecise(t) => /\ cur = t => tpc.at # "rearm"
                         /\ call.op = "adding" /\ call.timer = t => ~timer[t].mArmed
  BY DEF Listed
<1> QED
  BY <1>1, Zenon

\* The same for a step that leaves the lists alone.
LEMMA ListedSame ==
    ASSUME Listed, UNCHANGED <<mTimers, leaving>>,
           \A u \in Timers : /\ timer'[u].mArmed = timer[u].mArmed
                             /\ timer'[u].mType = timer[u].mType,
           tpc'.at = "rearm" => tpc.at = "rearm" /\ cur' = cur,
           call'.op = "adding" => call' = call
    PROVE  Listed'
<1>1. ASSUME NEW u \in Timers
      PROVE  Sound(Occurrences(u, mTimers') + Occurrences(u, leaving'), timer'[u], u)
  <2>1. Sound(Occurrences(u, mTimers) + Occurrences(u, leaving), timer[u], u)
    BY DEF Listed
  <2> QED
    BY <2>1 DEF Sound
<1> QED
  BY <1>1, ListedNext

\* Listed holds at first.
LEMMA ListedInit == Init => Listed
<1> SUFFICES ASSUME Init, NEW t \in Timers
             PROVE  /\ Sound(Occurrences(t, mTimers) + Occurrences(t, leaving), timer[t], t)
                    /\ cur = t => tpc.at # "rearm"
                    /\ call.op # "adding"
  BY DEF Listed
<1>1. mTimers = <<>> /\ leaving = <<>> /\ timer[t] = Blank(1) /\ cur = None
      /\ call.op = "idle"
  BY DEF Init
<1>2. Occurrences(t, mTimers) = 0 /\ Occurrences(t, leaving) = 0
  BY <1>1, OccurrencesEmpty
<1>3. ~timer[t].mArmed /\ timer[t].mType = "ONE_SHOT"
  BY <1>1, BlankType
<1> QED
  BY <1>1, <1>2, <1>3, TimersAssumption DEF Sound

\* The steps of the timer thread.
LEMMA ListedTimerStep == Counted /\ Counted' /\ Shut /\ Listed /\ TimerStep => Listed'
<1> SUFFICES ASSUME Counted, Counted', Shut, Listed, TimerStep
             PROVE  Listed'
  OBVIOUS
<1>1. TypeOK /\ Control /\ Exact
  BY DEF Counted
<1>2. CASE Top \/ Again
  <2>1. UNCHANGED <<call, leaving>>
    BY <1>1, <1>2, TopEffect DEF owner
  <2>2. CASE UNCHANGED <<cur, mTimers, timer>> /\ tpc'.at \in {"done", "waiting"}
    BY <2>1, <2>2, ListedSame
  <2>3. CASE mTimers # <<>> /\ Pops
    <3> DEFINE t == mTimers[1]
    <3>1. /\ t \in Timers /\ tpc'.at = "post" /\ ~timer'[t].mArmed
          /\ \A u : Occurrences(u, mTimers') = Occurrences(u, mTimers) - Holds(u = t)
          /\ \A u \in Timers : /\ u # t => timer'[u].mArmed = timer[u].mArmed
                               /\ timer'[u].mType = timer[u].mType
      BY <1>1, <2>3, PopsEffect
    <3> HIDE DEF t
    <3>2. ASSUME NEW u \in Timers
          PROVE  /\ Sound(Occurrences(u, mTimers') + Occurrences(u, leaving'), timer'[u], u)
                 /\ timer'[u].mArmed => timer[u].mArmed
      <4>1. Sound(Occurrences(u, mTimers) + Occurrences(u, leaving), timer[u], u)
        BY DEF Listed
      <4>2. /\ Occurrences(u, mTimers') = Occurrences(u, mTimers) - Holds(u = t)
            /\ Occurrences(u, mTimers) \in Nat /\ Occurrences(u, leaving) \in Nat
            /\ Occurrences(u, mTimers') \in Nat
        <5>1. mTimers' \in Seq(Timers)
          BY DEF Counted, TypeOK
        <5> QED
          BY <1>1, <3>1, <5>1, Parts, InListOccurs
      <4>3. CASE u = t
        <5>1. Occurrences(u, mTimers') + Occurrences(u, leaving')
                = Occurrences(u, mTimers) + Occurrences(u, leaving) - 1
          BY <2>1, <4>2, <4>3 DEF Holds
        <5>2. ~timer'[u].mArmed /\ timer'[u].mType = timer[u].mType
          BY <3>1, <4>3
        <5>3. /\ Occurrences(u, mTimers') \in Nat /\ Occurrences(u, leaving') \in Nat
              /\ Occurrences(u, mTimers) \in Nat /\ Occurrences(u, leaving) \in Nat
          BY <2>1, <4>2
        <5>4. NeverPrecise(u) => Occurrences(u, mTimers') + Occurrences(u, leaving') = 0
          <6>1. NeverPrecise(u) => Occurrences(u, mTimers) + Occurrences(u, leaving) <= 1
            BY <4>1 DEF Sound
          <6> QED
            BY <5>1, <5>3, <6>1
        <5> QED
          BY <4>1, <5>2, <5>4 DEF Sound
      <4>4. CASE u # t
        <5>1. Occurrences(u, mTimers') + Occurrences(u, leaving')
                = Occurrences(u, mTimers) + Occurrences(u, leaving)
          BY <2>1, <4>2, <4>4 DEF Holds
        <5>2. timer'[u].mArmed = timer[u].mArmed /\ timer'[u].mType = timer[u].mType
          BY <3>1, <4>4
        <5> QED
          BY <4>1, <5>1, <5>2 DEF Sound
      <4> QED
        BY <4>3, <4>4
    <3> QED
      BY <2>1, <3>1, <3>2, ListedNext
  <2> QED
    BY <1>1, <1>2, <2>2, <2>3, TopEffect
<1>3. CASE WaitExpires
  BY <1>3, ListedSame DEF WaitExpires, At, owner
<1>4. CASE MakeEvent
  <2>1. UNCHANGED <<mTimers, leaving, call, cur>>
    BY <1>4 DEF MakeEvent, owner
  <2>2. /\ cur \in Timers
        /\ tpc'.at = "rearm" => timer[cur].mType = "REPEATING_PRECISE"
        /\ \A u \in Timers : /\ timer'[u].mArmed = timer[u].mArmed
                             /\ timer'[u].mType = timer[u].mType
    BY <1>4, MakeEventEffect
  <2>3. tpc'.at = "rearm" => ~NeverPrecise(cur)
    <3>1. timer[cur].mType \in TypesOf[cur] \cup {"ONE_SHOT"}
      BY <2>2 DEF Listed, Sound
    <3> QED
      BY <2>2, <3>1 DEF NeverPrecise
  <2>4. ASSUME NEW u \in Timers
        PROVE  Sound(Occurrences(u, mTimers') + Occurrences(u, leaving'), timer'[u], u)
    <3>1. Sound(Occurrences(u, mTimers) + Occurrences(u, leaving), timer[u], u)
      BY DEF Listed
    <3>2. timer'[u].mArmed = timer[u].mArmed /\ timer'[u].mType = timer[u].mType
      BY <2>2
    <3> QED
      BY <2>1, <3>1, <3>2 DEF Sound
  <2>5. ASSUME NEW u \in Timers, NeverPrecise(u)
        PROVE  /\ cur' = u => tpc'.at # "rearm"
               /\ call'.op = "adding" /\ call'.timer = u => ~timer'[u].mArmed
    <3>1. call.op = "adding" /\ call.timer = u => ~timer[u].mArmed
      BY <2>5 DEF Listed
    <3>2. timer'[u].mArmed = timer[u].mArmed
      BY <2>2
    <3> QED
      BY <2>1, <2>3, <2>5, <3>1, <3>2
  <2> QED
    BY <2>4, <2>5 DEF Listed
<1>5. CASE Rearm
  <2>1. cur \in Timers /\ tpc.at = "rearm" /\ UNCHANGED <<leaving, call, cur>>
    BY <1>1, <1>5 DEF Rearm, Control, TypeOK, owner
  <2>2. ~NeverPrecise(cur)
    BY <2>1 DEF Listed
  <2>3. CASE mShutdown
    BY <1>5, <2>1, <2>3, ListedSame DEF Rearm, At
  <2>4. CASE ~mShutdown
    <3>1. PICK i \in Places(mTimers, timer, cur) :
             /\ mTimers' = Inserted(mTimers, i, cur)
             /\ timer' = Armed(timer, cur)
             /\ tpc' = At("dispatch")
      BY <1>5, <2>4, Zenon DEF Rearm
    <3>2. /\ mTimers \in Seq(Timers) /\ i \in 0 .. Len(mTimers) /\ timer \in Table
          /\ tpc'.at = "dispatch"
      BY <1>1, <3>1, Parts DEF TypeOK, Places, At
    <3>3. ASSUME NEW u \in Timers
          PROVE  Sound(Occurrences(u, mTimers') + Occurrences(u, leaving'), timer'[u], u)
      <4>1. Sound(Occurrences(u, mTimers) + Occurrences(u, leaving), timer[u], u)
        BY DEF Listed
      <4>2. /\ Occurrences(u, mTimers) \in Nat /\ Occurrences(u, leaving) \in Nat
            /\ Occurrences(u, mTimers') = Occurrences(u, mTimers) + Holds(u = cur)
        BY <1>1, <2>1, <3>1, <3>2, Parts, InsertedElements
      <4>3. timer'[u].mArmed = (u = cur \/ timer[u].mArmed) /\ timer'[u].mType = timer[u].mType
        BY <2>1, <3>1, <3>2, ArmedTable
      <4>4. CASE u = cur
        <5>1. Occurrences(u, mTimers') + Occurrences(u, leaving') > 0
          BY <2>1, <4>2, <4>4 DEF Holds
        <5> QED
          BY <2>2, <4>1, <4>3, <4>4, <5>1 DEF Sound
      <4>5. CASE u # cur
        <5>1. Occurrences(u, mTimers') + Occurrences(u, leaving')
                = Occurrences(u, mTimers) + Occurrences(u, leaving)
          BY <2>1, <4>2, <4>5 DEF Holds
        <5>2. timer'[u].mArmed <=> timer[u].mArmed
          BY <4>3, <4>5, Zenon
        <5> QED
          BY <4>1, <4>3, <5>1, <5>2 DEF Sound
      <4> QED
        BY <4>4, <4>5
    <3>4. ASSUME NEW u \in Timers, NeverPrecise(u)
          PROVE  call'.op = "adding" /\ call'.timer = u => ~timer'[u].mArmed
      <4>1. call.op = "adding" /\ call.timer = u => ~timer[u].mArmed
        BY <3>4 DEF Listed
      <4>2. timer'[u].mArmed = (u = cur \/ timer[u].mArmed)
        BY <2>1, <3>1, <3>2, ArmedTable
      <4> QED
        BY <2>1, <2>2, <3>4, <4>1, <4>2
    <3> QED
      BY <3>2, <3>3, <3>4 DEF Listed
  <2> QED
    BY <2>3, <2>4
<1>6. CASE DispatchEvent
  BY <1>6, ListedSame DEF DispatchEvent, At, owner
<1>7. CASE DispatchRefused \/ DropUnlists
  <2>1. cur \in Timers
    BY <1>1, <1>7 DEF DispatchRefused, DropUnlists, Control, TypeOK
  <2>2. /\ mTimers' = Removed(mTimers, cur) /\ timer' = Unlisted(mTimers, timer, cur)
        /\ tpc'.at \in {"drop", "again"} /\ UNCHANGED <<leaving, call>>
    BY <1>7 DEF DispatchRefused, DropUnlists, At, owner
  <2>3. \A u \in Timers :
           /\ Sound(Occurrences(u, mTimers') + Occurrences(u, leaving'), timer'[u], u)
           /\ timer'[u].mArmed => timer[u].mArmed
    BY <2>1, <2>2, UnlistedSound
  <2> QED
    BY <2>2, <2>3, ListedNext
<1>8. CASE DropTimer
  <2>1. cur \in Timers /\ tpc.at = "drop"
    BY <1>1, <1>8 DEF DropTimer, Control, TypeOK
  <2>2. /\ timer' = Released(cur) /\ tpc'.at \in {"unlist", "again"}
        /\ UNCHANGED <<mTimers, leaving, call>>
    BY <1>8 DEF DropTimer, At, owner
  <2>3. timer[cur].mRefCnt > 0
    <3>1. timer[cur].mRefCnt = References(cur)
      BY <1>1, <2>1 DEF Exact
    <3> QED
      BY <1>1, <2>1, <3>1, Parts DEF References, Holds
  <2>4. \A u \in Timers :
           /\ Sound(Occurrences(u, mTimers') + Occurrences(u, leaving'), timer'[u], u)
           /\ timer'[u].mArmed => timer[u].mArmed
    BY <2>1, <2>2, <2>3, ReleasedSound
  <2> QED
    BY <2>2, <2>4, ListedNext
<1> QED
  BY <1>2, <1>3, <1>4, <1>5, <1>6, <1>7, <1>8 DEF TimerStep

\* What InitCommon leaves of the list and of the timers: it calls RemoveTimer for a
\* timer that is armed.
LeftList(t) == IF timer[t].mArmed THEN Removed(mTimers, t) ELSE mTimers
LeftTimers(t) == IF timer[t].mArmed THEN Unlisted(mTimers, timer, t) ELSE timer

\* What Init does: the timer is out of the list, and has a generation and a timeout of
\* its own.
LEMMA BeginInitEffect ==
    ASSUME Counted, NEW t \in Timers, NEW type \in Types, NEW delay \in Delays,
           BeginInit(t, type, delay)
    PROVE  /\ call = Idle /\ leaving = <<>> /\ t \in held \cup {firing}
           /\ mTimers' = LeftList(t)
           /\ timer'[t].mArmed = LeftTimers(t)[t].mArmed
           /\ timer'[t].mType = type /\ type \in TypesOf[t]
           /\ timer'[t].mGeneration = gGenerator + 1
           /\ \A u \in Timers : u # t => timer'[u] = LeftTimers(t)[u]
           /\ timer' \in Table
           /\ tpc' \in {tpc, Notified}
           /\ timer[t].mArmed /\ InList(mTimers, t) => tpc' = Notified
           /\ rewritten' \in BOOLEAN /\ (rewritten' <=> rewritten \/ InList(mTimers', t))
<1> DEFINE x == LeftTimers(t)
           y == Initialised(x, t, gGenerator + 1, type)
<1>1. TypeOK /\ Exact
  BY DEF Counted
<1>2. /\ call = Idle /\ leaving = <<>> /\ t \in held \cup {firing}
      /\ type \in TypesOf[t] /\ gGenerator < MaxInits
      /\ mTimers' = LeftList(t)
      /\ timer' = SetDelayInternal(y, t, delay)
      /\ WritesTimeout(mTimers', t)
      /\ tpc' = IF timer[t].mArmed /\ InList(mTimers, t) THEN Notified ELSE tpc
  BY DEF BeginInit, AppHas, LeftList, LeftTimers
<1>3. x \in Table
  BY <1>1, UnlistedEffect, Parts DEF LeftTimers
<1>4. gGenerator + 1 \in 0 .. MaxInits /\ now \in 0 .. MaxTime /\ delay \in Delays \cup {0}
  BY <1>1, <1>2, BoundsAssumption DEF TypeOK
<1> HIDE DEF x
<1>5. /\ y \in Table
      /\ y[t].mGeneration = gGenerator + 1 /\ y[t].mType = type
      /\ \A u \in Timers : y[u].mArmed = x[u].mArmed /\ (u # t => y[u] = x[u])
  BY <1>3, <1>4, InitialisedTable
<1> HIDE DEF y
<1>6. /\ timer' \in Table
      /\ \A u \in Timers : u # t => timer'[u] = y[u]
      /\ \A u \in Timers : /\ timer'[u].mArmed = y[u].mArmed
                           /\ timer'[u].mGeneration = y[u].mGeneration
                           /\ timer'[u].mType = y[u].mType /\ timer'[u].delaySet = y[u].delaySet
  BY <1>2, <1>4, <1>5, SetDelayTable
<1>7. rewritten' \in BOOLEAN /\ (rewritten' <=> rewritten \/ InList(mTimers', t))
  BY <1>2 DEF WritesTimeout
<1> QED
  BY <1>2, <1>5, <1>6, <1>7 DEF x

\* What Cancel does: it takes the timer out of the list.
LEMMA CancelEffect ==
    ASSUME Counted, NEW t \in Timers, Cancel(t)
    PROVE  /\ call = Idle /\ leaving = <<>>
           /\ mTimers' = Removed(mTimers, t)
           /\ tpc' \in {tpc, Notified}
           /\ InList(mTimers, t) => tpc' = Notified
           /\ UNCHANGED <<now, mShutdown, mSleeping, mTimeoutAdjustment, gThread, cur, evGen,
                          popped, queue, owner,
                          counts>>
           /\ timer' \in Table
           /\ \A u \in Timers :
                 /\ timer'[u].mArmed = Unlisted(mTimers, timer, t)[u].mArmed
                 /\ timer'[u].mRefCnt = Unlisted(mTimers, timer, t)[u].mRefCnt
                 /\ timer'[u].mGeneration = Unlisted(mTimers, timer, t)[u].mGeneration
                 /\ timer'[u].mType = Unlisted(mTimers, timer, t)[u].mType
                 /\ timer'[u].delaySet = Unlisted(mTimers, timer, t)[u].delaySet
                 /\ timer'[u].mTimeout = Unlisted(mTimers, timer, t)[u].mTimeout
<1> DEFINE x == Unlisted(mTimers, timer, t)
<1>1. TypeOK /\ Exact
  BY DEF Counted
<1>2. /\ call = Idle /\ leaving = <<>>
      /\ mTimers' = Removed(mTimers, t)
      /\ timer' = [x EXCEPT ![t].mCanceled = TRUE, ![t].mCallback = FALSE]
      /\ tpc' = IF InList(mTimers, t) THEN Notified ELSE tpc
      /\ UNCHANGED <<now, mShutdown, mSleeping, mTimeoutAdjustment, gThread, cur, evGen,
                     popped, queue, owner,
                     counts>>
  BY DEF Cancel, AppHas
<1>3. PICK yes \in BOOLEAN, no \in BOOLEAN : yes = TRUE /\ no = FALSE
  OBVIOUS
<1> DEFINE y == WithCanceled(x, t, yes)
<1>4. x \in Table
  BY <1>1, UnlistedEffect
<1>5. timer' = WithCallback(y, t, no)
  BY <1>2, <1>3, Zenon DEF WithCallback, WithCanceled
<1> HIDE DEF x
<1>6. /\ y \in Table
      /\ \A u \in Timers :
            /\ y[u].mArmed = x[u].mArmed /\ y[u].mRefCnt = x[u].mRefCnt
            /\ y[u].mGeneration = x[u].mGeneration /\ y[u].mType = x[u].mType
            /\ y[u].delaySet = x[u].delaySet
            /\ y[u].mTimeout = x[u].mTimeout
  BY <1>4, WithCanceledTable
<1> HIDE DEF y
<1>7. /\ timer' \in Table
      /\ \A u \in Timers :
            /\ timer'[u].mArmed = y[u].mArmed /\ timer'[u].mRefCnt = y[u].mRefCnt
            /\ timer'[u].mGeneration = y[u].mGeneration /\ timer'[u].mType = y[u].mType
            /\ timer'[u].delaySet = y[u].delaySet
            /\ timer'[u].mTimeout = y[u].mTimeout
  BY <1>5, <1>6, WithCallbackTable
<1>8. \A u \in Timers :
         /\ timer'[u].mArmed = x[u].mArmed /\ timer'[u].mRefCnt = x[u].mRefCnt
         /\ timer'[u].mGeneration = x[u].mGeneration /\ timer'[u].mType = x[u].mType
         /\ timer'[u].delaySet = x[u].delaySet
         /\ timer'[u].mTimeout = x[u].mTimeout
  BY <1>6, <1>7
<1> QED
  BY <1>2, <1>7, <1>8 DEF x

\* An event that is run fires its timer, which only clears mCallback, or releases it.
LEMMA RunEventEffect ==
    ASSUME Counted, RunEvent
    PROVE  \E t \in Timers :
              /\ call = Idle /\ firing = None /\ leaving = <<>>
              /\ UNCHANGED <<now, mTimers, mShutdown, mSleeping, gThread, timerThread, held,
                             index, leaving, gGenerator, upsets>>
              /\ ~rewritten' => ~rewritten /\ (mTimers = <<>> \/ UNCHANGED mTimeoutAdjustment)
              /\ queue # <<>> /\ queue' = Tail(queue)
              /\ \/ /\ firing' = t /\ call' = call
                    /\ \A u \in Timers :
                          /\ timer'[u].mArmed = timer[u].mArmed
                          /\ timer'[u].mRefCnt = timer[u].mRefCnt
                          /\ timer'[u].mGeneration = timer[u].mGeneration
                          /\ timer'[u].mType = timer[u].mType
                          /\ timer'[u].delaySet = timer[u].delaySet
                          /\ timer'[u].mTimeout = timer[u].mTimeout
                 \/ Releases(t) /\ timer[t].mRefCnt > 0 /\ firing' = firing
<1>1. TypeOK /\ Exact
  BY DEF Counted
<1> DEFINE e == Head(queue)
           t == e.timer
<1>2. /\ call = Idle /\ firing = None /\ leaving = <<>> /\ queue # <<>> /\ queue' = Tail(queue)
      /\ UNCHANGED <<now, mTimers, mShutdown, mSleeping, gThread, timerThread, held, index,
                     leaving, gGenerator, upsets>>
      /\ ~rewritten' => ~rewritten /\ (mTimers = <<>> \/ UNCHANGED mTimeoutAdjustment)
  BY DEF RunEvent, UpdateFilter, Readjusts
<1>3. /\ Queued # <<>> /\ Head(Queued) = t /\ Queued' = Tail(Queued) /\ t \in Timers
  BY <1>1, <1>2, QueuedSteps DEF Events
<1>4. \/ /\ firing' = t /\ saved' = timer[t].mCallback /\ call' = call
         /\ timer' = [timer EXCEPT ![t].mCallback = FALSE]
      \/ Releases(t) /\ UNCHANGED <<firing, saved>>
  BY DEF RunEvent
<1> HIDE DEF e, t
<1>5. CASE /\ firing' = t /\ saved' = timer[t].mCallback /\ call' = call
           /\ timer' = [timer EXCEPT ![t].mCallback = FALSE]
  <2>1. PICK no \in BOOLEAN : no = FALSE
    OBVIOUS
  <2>2. timer' = WithCallback(timer, t, no)
    BY <1>5, <2>1, Zenon DEF WithCallback
  <2>3. \A u \in Timers :
           /\ timer'[u].mArmed = timer[u].mArmed
           /\ timer'[u].mRefCnt = timer[u].mRefCnt
           /\ timer'[u].mGeneration = timer[u].mGeneration
           /\ timer'[u].mType = timer[u].mType /\ timer'[u].delaySet = timer[u].delaySet
           /\ timer'[u].mTimeout = timer[u].mTimeout
    BY <1>1, <1>3, <2>2, Parts, WithCallbackTable
  <2> QED
    BY <1>2, <1>3, <1>5, <2>3
<1>6. CASE Releases(t) /\ UNCHANGED <<firing, saved>>
  <2>1. timer[t].mRefCnt > 0
    <3>1. timer[t].mRefCnt = References(t)
      BY <1>1, <1>3 DEF Exact
    <3>2. Occurrences(t, Queued) \in Nat /\ Occurrences(t, Queued) > 0
      <4>1. Queued \in Seq(Timers) /\ InList(Queued, t)
        BY <1>1, <1>3, Parts, HeadTailProperties DEF InList
      <4> QED
        BY <4>1, InListOccurs
    <3>3. Occurrences(t, mTimers) \in Nat /\ Occurrences(t, leaving) \in Nat
      BY <1>1, Parts
    <3> QED
      BY <3>1, <3>2, <3>3 DEF References, Holds
  <2> QED
    BY <1>2, <1>3, <1>6, <2>1
<1> QED
  BY <1>4, <1>5, <1>6

\* A timer that is not in mTimers while Shutdown is not under way is not armed.
LEMMA UnlistedIsUnarmed ==
    ASSUME Counted, Listed, leaving = <<>>, NEW t \in Timers
    PROVE  ~Unlisted(mTimers, timer, t)[t].mArmed
<1>1. TypeOK /\ Exact
  BY DEF Counted
<1>2. CASE InList(mTimers, t)
  BY <1>1, <1>2, UnlistedFields
<1>3. CASE ~InList(mTimers, t)
  <2>1. Unlisted(mTimers, timer, t) = timer
    BY <1>1, <1>3, UnlistedFields
  <2>2. Occurrences(t, mTimers) \in Nat /\ ~(Occurrences(t, mTimers) > 0)
    BY <1>1, <1>3, InListOccurs DEF TypeOK
  <2>3. Occurrences(t, leaving) = 0
    BY OccurrencesEmpty
  <2>4. timer[t].mArmed => Occurrences(t, mTimers) + Occurrences(t, leaving) > 0
    BY DEF Listed, Sound
  <2> QED
    BY <2>1, <2>2, <2>3, <2>4
<1> QED
  BY <1>2, <1>3

\* InitCommon keeps timers sound, and leaves its timer unarmed.
LEMMA LeftSound ==
    ASSUME Counted, Listed, leaving = <<>>, NEW t \in Timers
    PROVE  /\ ~LeftTimers(t)[t].mArmed
           /\ \A u \in Timers :
                 Sound(Occurrences(u, LeftList(t)) + Occurrences(u, leaving),
                       LeftTimers(t)[u], u)
<1>1. CASE timer[t].mArmed
  <2>1. LeftList(t) = Removed(mTimers, t) /\ LeftTimers(t) = Unlisted(mTimers, timer, t)
    BY <1>1 DEF LeftList, LeftTimers
  <2>2. ~Unlisted(mTimers, timer, t)[t].mArmed
    BY UnlistedIsUnarmed
  <2>3. \A u \in Timers : Sound(Occurrences(u, Removed(mTimers, t)) + Occurrences(u, leaving),
                                Unlisted(mTimers, timer, t)[u], u)
    BY UnlistedSound
  <2> QED
    BY <2>1, <2>2, <2>3
<1>2. CASE ~timer[t].mArmed
  <2>1. LeftList(t) = mTimers /\ LeftTimers(t) = timer
    BY <1>2 DEF LeftList, LeftTimers
  <2> QED
    BY <1>2, <2>1 DEF Listed
<1> QED
  BY <1>1, <1>2

\* The calls of the owner on timers.
LEMMA ListedOwnerCalls ==
    ASSUME Counted, Counted', Shut, Listed, NEW t \in Timers,
           \/ \E type \in Types, delay \in Delays : BeginInit(t, type, delay)
           \/ \E delay \in Delays : SetDelay(t, delay)
           \/ Cancel(t)
           \/ LetGo(t)
    PROVE  Listed'
<1>1. TypeOK /\ Exact
  BY DEF Counted
<1>2. ASSUME NEW type \in Types, NEW delay \in Delays, BeginInit(t, type, delay)
      PROVE  Listed'
  <2>1. /\ leaving = <<>> /\ mTimers' = LeftList(t)
        /\ timer'[t].mArmed = LeftTimers(t)[t].mArmed
        /\ timer'[t].mType = type /\ type \in TypesOf[t]
        /\ \A u \in Timers : u # t => timer'[u] = LeftTimers(t)[u]
        /\ tpc' \in {tpc, Notified}
    BY <1>2, BeginInitEffect
  <2>2. /\ UNCHANGED <<cur, leaving>> /\ call'.op = "adding" /\ call'.timer = t
    BY <1>2 DEF BeginInit
  <2>3. ~timer'[t].mArmed
    BY <2>1, LeftSound
  <2>4. ASSUME NEW u \in Timers
        PROVE  Sound(Occurrences(u, mTimers') + Occurrences(u, leaving'), timer'[u], u)
    <3>1. Sound(Occurrences(u, LeftList(t)) + Occurrences(u, leaving),
                LeftTimers(t)[u], u)
      BY <2>1, LeftSound
    <3>2. CASE u = t
      BY <2>1, <2>2, <3>1, <3>2 DEF Sound
    <3>3. CASE u # t
      BY <2>1, <2>2, <3>1, <3>3
    <3> QED
      BY <3>2, <3>3
  <2>5. ASSUME NEW u \in Timers, NeverPrecise(u)
        PROVE  /\ cur' = u => tpc'.at # "rearm"
               /\ call'.op = "adding" /\ call'.timer = u => ~timer'[u].mArmed
    <3>1. cur = u => tpc.at # "rearm"
      BY <2>5 DEF Listed
    <3>2. tpc'.at = "rearm" => tpc.at = "rearm"
      BY <2>1 DEF Notified, At
    <3> QED
      BY <2>2, <2>3, <3>1, <3>2
  <2> QED
    BY <2>4, <2>5 DEF Listed
<1>3. ASSUME NEW delay \in Delays, SetDelay(t, delay)
      PROVE  Listed'
  <2>1. UNCHANGED <<mTimers, leaving, tpc, cur>>
    BY <1>3 DEF SetDelay, timerThread
  <2>2. /\ \A u \in Timers : /\ timer'[u].mArmed = timer[u].mArmed
                             /\ timer'[u].mType = timer[u].mType
        /\ call' \in {[op |-> "changing", timer |-> t], Idle}
    BY <1>1, <1>3, DelayWrittenTable DEF SetDelay
  <2>3. call'.op # "adding"
    BY <2>2 DEF Idle
  <2> QED
    BY <2>1, <2>2, <2>3, ListedSame
<1>4. CASE Cancel(t)
  <2>1. /\ mTimers' = Removed(mTimers, t) /\ UNCHANGED <<leaving, call, cur>>
        /\ tpc' \in {tpc, Notified}
        /\ \A u \in Timers :
              /\ timer'[u].mArmed = Unlisted(mTimers, timer, t)[u].mArmed
              /\ timer'[u].mType = Unlisted(mTimers, timer, t)[u].mType
    BY <1>4, CancelEffect DEF owner
  <2>2. ASSUME NEW u \in Timers
        PROVE  /\ Sound(Occurrences(u, mTimers') + Occurrences(u, leaving'), timer'[u], u)
               /\ timer'[u].mArmed => timer[u].mArmed
    <3>1. /\ Sound(Occurrences(u, Removed(mTimers, t)) + Occurrences(u, leaving),
                   Unlisted(mTimers, timer, t)[u], u)
          /\ Unlisted(mTimers, timer, t)[u].mArmed => timer[u].mArmed
      BY UnlistedSound
    <3>2. /\ timer'[u].mArmed = Unlisted(mTimers, timer, t)[u].mArmed
          /\ timer'[u].mType = Unlisted(mTimers, timer, t)[u].mType
      BY <2>1
    <3> QED
      BY <2>1, <3>1, <3>2 DEF Sound
  <2>3. tpc'.at = "rearm" => tpc.at = "rearm"
    BY <2>1 DEF Notified, At
  <2> QED
    BY <2>1, <2>2, <2>3, ListedNext
<1>5. CASE LetGo(t)
  <2>1. t \in held /\ Releases(t) /\ UNCHANGED <<mTimers, leaving, tpc, cur>>
    BY <1>5 DEF LetGo, timerThread
  <2>2. timer[t].mRefCnt > 0
    <3>1. timer[t].mRefCnt = References(t)
      BY <1>1 DEF Exact
    <3> QED
      BY <1>1, <2>1, <3>1, Parts DEF References, Holds
  <2>3. \A u \in Timers :
           /\ Sound(Occurrences(u, mTimers') + Occurrences(u, leaving'), timer'[u], u)
           /\ timer'[u].mArmed => timer[u].mArmed
    BY <2>1, <2>2, ReleasedSound DEF Releases
  <2>4. call'.op # "adding"
    BY <2>1 DEF Releases, Idle
  <2> QED
    BY <2>1, <2>3, <2>4, ListedNext
<1> QED
  BY <1>2, <1>3, <1>4, <1>5

\* AddTimer, called by the owner at the end of Init, SetDelay and Fire.
LEMMA ListedAdds == Counted /\ Shut /\ Listed /\ (FinishInit \/ TimerDelayChanged \/ EndFire) => Listed'
<1> SUFFICES ASSUME Counted, Shut, Listed, FinishInit \/ TimerDelayChanged \/ EndFire
             PROVE  Listed'
  OBVIOUS
<1>1. TypeOK /\ Exact /\ Control
  BY DEF Counted
<1>2. /\ mTimers \in Seq(Timers) /\ timer \in Table
  BY <1>1, Parts DEF TypeOK
<1>3. UNCHANGED <<leaving, cur>> /\ call'.op \in {"idle", "releasing"}
  BY DEF FinishInit, TimerDelayChanged, EndFire, Idle
<1>4. ASSUME NEW t \in Timers, ~mShutdown
      PROVE  Occurrences(t, leaving) = 0
  BY <1>4, OccurrencesEmpty DEF Shut
<1>5. ASSUME NEW list \in Seq(Timers), NEW timers \in Table, NEW t \in Timers,
             AddTimer(list, timers, t),
             \A u \in Timers :
                Sound(Occurrences(u, list) + Occurrences(u, leaving), timers[u], u),
             ~mShutdown /\ NeverPrecise(t) =>
                Occurrences(t, list) + Occurrences(t, leaving) = 0
      PROVE  Listed'
  <2>1. \A u \in Timers :
           Sound(Occurrences(u, mTimers') + Occurrences(u, leaving'), timer'[u], u)
    BY <1>1, <1>3, <1>5, AddedSound
  <2>2. tpc'.at = "rearm" => tpc.at = "rearm"
    BY <1>1, <1>5, AddTimerEffect
  <2> QED
    BY <1>3, <2>1, <2>2, ListedNext
<1>6. CASE FinishInit
  <2>1. call.timer \in Timers /\ call.op = "adding" /\ AddTimer(mTimers, timer, call.timer)
    BY <1>1, <1>6 DEF FinishInit, Control
  <2>2. \A u \in Timers :
           Sound(Occurrences(u, mTimers) + Occurrences(u, leaving), timer[u], u)
    BY DEF Listed
  <2>3. NeverPrecise(call.timer) =>
           Occurrences(call.timer, mTimers) + Occurrences(call.timer, leaving) = 0
    BY <2>1 DEF Listed, Sound
  <2> QED
    BY <1>2, <1>5, <2>1, <2>2, <2>3
<1>7. CASE TimerDelayChanged
  <2> DEFINE t == call.timer
  <2>1. t \in Timers /\ AddTimer(Removed(mTimers, t), Unlisted(mTimers, timer, t), t)
    BY <1>1, <1>7 DEF TimerDelayChanged, Control
  <2> HIDE DEF t
  <2>2. /\ Removed(mTimers, t) \in Seq(Timers) /\ Unlisted(mTimers, timer, t) \in Table
        /\ Occurrences(t, Removed(mTimers, t)) =
              Occurrences(t, mTimers) - Holds(InList(mTimers, t))
    BY <1>1, <2>1, UnlistedEffect DEF Holds
  <2>3. \A u \in Timers :
           Sound(Occurrences(u, Removed(mTimers, t)) + Occurrences(u, leaving),
                 Unlisted(mTimers, timer, t)[u], u)
    BY <2>1, UnlistedSound
  <2>4. ASSUME ~mShutdown, NeverPrecise(t)
        PROVE  Occurrences(t, Removed(mTimers, t)) + Occurrences(t, leaving) = 0
    <3>1. Occurrences(t, leaving) = 0
      BY <1>4, <2>1, <2>4
    <3>2. Occurrences(t, mTimers) + Occurrences(t, leaving) <= 1
      BY <2>1, <2>4 DEF Listed, Sound
    <3>3. /\ Occurrences(t, mTimers) \in Nat
          /\ InList(mTimers, t) <=> Occurrences(t, mTimers) > 0
      BY <1>2, InListOccurs
    <3> QED
      BY <2>2, <3>1, <3>2, <3>3 DEF Holds
  <2> QED
    BY <1>5, <2>1, <2>2, <2>3, <2>4
<1>8. CASE EndFire
  <2>1. firing \in Timers
    BY <1>1, <1>8, EndFireEffect
  <2>2. PICK timers \in Table :
           /\ \A u \in Timers : /\ timers[u].mArmed = timer[u].mArmed
                                /\ timers[u].mType = timer[u].mType
           /\ \/ timer' = timers /\ UNCHANGED <<mTimers, tpc>>
              \/ AddTimer(mTimers, timers, firing) /\ ~timer[firing].mArmed
    BY <1>1, <1>8, EndFireEffect
  <2>3. CASE timer' = timers /\ UNCHANGED <<mTimers, tpc>>
    BY <1>3, <2>2, <2>3, ListedSame
  <2>4. CASE AddTimer(mTimers, timers, firing) /\ ~timer[firing].mArmed
    <3>1. ASSUME NEW u \in Timers
          PROVE  Sound(Occurrences(u, mTimers) + Occurrences(u, leaving), timers[u], u)
      <4>1. Sound(Occurrences(u, mTimers) + Occurrences(u, leaving), timer[u], u)
        BY DEF Listed
      <4>2. timers[u].mArmed = timer[u].mArmed /\ timers[u].mType = timer[u].mType
        BY <2>2
      <4> QED
        BY <4>1, <4>2 DEF Sound
    <3>2. NeverPrecise(firing) =>
             Occurrences(firing, mTimers) + Occurrences(firing, leaving) = 0
      BY <2>1, <2>4 DEF Listed, Sound
    <3> QED
      BY <1>2, <1>5, <2>1, <2>4, <3>1, <3>2
  <2> QED
    BY <2>2, <2>3, <2>4
<1> QED
  BY <1>6, <1>7, <1>8

\* The other steps of the owner and the clock.
LEMMA ListedRest ==
    ASSUME Counted, Counted', Shut, Listed,
           \/ ReleaseFired \/ RemoveTimer \/ RunEvent \/ ResetNext
           \/ BeginShutdown \/ ShutdownReleases
           \/ Tick \/ BeginAfterSleep \/ EndAfterSleep \/ DoBeforeSleep \/ WakesUnslept
           \/ EndShutdown \/ UNCHANGED vars
    PROVE  Listed'
<1>1. TypeOK /\ Exact /\ Control
  BY DEF Counted
<1>2. CASE ReleaseFired
  <2> DEFINE t == call.timer
  <2>1. /\ call.op = "releasing" /\ t \in Timers /\ Releases(t)
        /\ UNCHANGED <<mTimers, leaving, tpc, cur>>
    BY <1>1, <1>2 DEF ReleaseFired, Control, timerThread
  <2>2. timer[t].mRefCnt > 0
    <3>1. timer[t].mRefCnt = References(t)
      BY <1>1, <2>1 DEF Exact
    <3> QED
      BY <1>1, <2>1, <3>1, Parts DEF References, Holds
  <2> HIDE DEF t
  <2>3. \A u \in Timers :
           /\ Sound(Occurrences(u, mTimers') + Occurrences(u, leaving'), timer'[u], u)
           /\ timer'[u].mArmed => timer[u].mArmed
    BY <2>1, <2>2, ReleasedSound DEF Releases
  <2>4. call'.op # "adding"
    BY <2>1 DEF Releases, Idle
  <2> QED
    BY <2>1, <2>3, <2>4, ListedNext
<1>3. CASE RemoveTimer
  <2> DEFINE t == call.timer
  <2>1. /\ t \in Timers /\ mTimers' = Removed(mTimers, t)
        /\ timer' = Unlisted(mTimers, timer, t)
        /\ tpc' \in {tpc, Notified} /\ call' = Idle /\ UNCHANGED <<leaving, cur>>
    BY <1>1, <1>3 DEF RemoveTimer, Control
  <2> HIDE DEF t
  <2>2. \A u \in Timers :
           /\ Sound(Occurrences(u, mTimers') + Occurrences(u, leaving'), timer'[u], u)
           /\ timer'[u].mArmed => timer[u].mArmed
    BY <2>1, UnlistedSound
  <2>3. call'.op # "adding" /\ (tpc'.at = "rearm" => tpc.at = "rearm")
    BY <2>1 DEF Idle, Notified, At
  <2> QED
    BY <2>1, <2>2, <2>3, ListedNext
<1>4. CASE RunEvent
  <2>1. PICK t \in Timers :
           /\ call = Idle /\ UNCHANGED <<mTimers, leaving, timerThread>>
           /\ \/ /\ call' = call
                 /\ \A u \in Timers : /\ timer'[u].mArmed = timer[u].mArmed
                                      /\ timer'[u].mType = timer[u].mType
              \/ Releases(t) /\ timer[t].mRefCnt > 0
    BY <1>4, RunEventEffect
  <2>2. UNCHANGED <<tpc, cur>>
    BY <2>1 DEF timerThread
  <2>3. CASE /\ call' = call
             /\ \A u \in Timers : /\ timer'[u].mArmed = timer[u].mArmed
                                  /\ timer'[u].mType = timer[u].mType
    BY <2>1, <2>2, <2>3, ListedSame
  <2>4. CASE Releases(t) /\ timer[t].mRefCnt > 0
    <3>1. \A u \in Timers :
             /\ Sound(Occurrences(u, mTimers') + Occurrences(u, leaving'), timer'[u], u)
             /\ timer'[u].mArmed => timer[u].mArmed
      BY <2>1, <2>4, ReleasedSound DEF Releases
    <3>2. call'.op # "adding"
      BY <2>4 DEF Releases, Idle
    <3> QED
      BY <2>1, <2>2, <3>1, <3>2, ListedNext
  <2> QED
    BY <2>1, <2>3, <2>4
<1>5. CASE ResetNext
  <2> DEFINE t == mTimers[index]
  <2>1. call = Idle /\ UNCHANGED <<mTimers, leaving, tpc, cur>>
    BY <1>5 DEF ResetNext, timerThread
  <2>2. t \in Timers
    <3>1. index \in 1 .. Len(mTimers) /\ mTimers \in Seq(Timers)
      BY <1>1, <1>5 DEF ResetNext, TypeOK
    <3> QED
      BY <3>1, ElementOfSeq
  <2>3. timer[t].mDelay \in Delays \cup {0}
    BY <1>1, <2>2, Parts DEF Fields
  <2>4. DelayWritten(t, timer[t].mDelay) \/ UNCHANGED <<timer, call>>
    BY <1>5 DEF ResetNext
  <2> HIDE DEF t
  <2>5. CASE DelayWritten(t, timer[t].mDelay)
    <3>1. /\ \A u \in Timers : /\ timer'[u].mArmed = timer[u].mArmed
                               /\ timer'[u].mType = timer[u].mType
          /\ call' \in {[op |-> "changing", timer |-> t], Idle}
      BY <1>1, <2>2, <2>3, <2>5, DelayWrittenTable
    <3>2. call'.op # "adding"
      BY <3>1 DEF Idle
    <3> QED
      BY <2>1, <3>1, <3>2, ListedSame
  <2>6. CASE UNCHANGED <<timer, call>>
    BY <2>1, <2>6, ListedSame
  <2> QED
    BY <2>4, <2>5, <2>6
<1>6. CASE BeginShutdown
  <2>1. /\ leaving = <<>> /\ tpc' = Notified /\ leaving' = mTimers /\ mTimers' = <<>>
        /\ UNCHANGED <<timer, cur, call>>
    BY <1>6 DEF BeginShutdown, AtRest
  <2>2. ASSUME NEW u \in Timers
        PROVE  Sound(Occurrences(u, mTimers') + Occurrences(u, leaving'), timer'[u], u)
    <3>1. Sound(Occurrences(u, mTimers) + Occurrences(u, leaving), timer[u], u)
      BY DEF Listed
    <3>2. /\ Occurrences(u, mTimers') = 0 /\ Occurrences(u, leaving) = 0
          /\ Occurrences(u, mTimers) \in Nat
      BY <1>1, <2>1, OccurrencesEmpty, Parts
    <3>3. Occurrences(u, mTimers') + Occurrences(u, leaving')
            = Occurrences(u, mTimers) + Occurrences(u, leaving)
      BY <2>1, <3>2
    <3> QED
      BY <2>1, <3>1, <3>3
  <2>3. tpc'.at = "rearm" => tpc.at = "rearm"
    BY <2>1 DEF Notified, At
  <2> QED
    BY <2>1, <2>2, <2>3, ListedNext
<1>7. CASE ShutdownReleases
  <2> DEFINE t == Head(leaving)
  <2>1. UNCHANGED <<mTimers, tpc, cur, call>>
    BY <1>7 DEF ShutdownReleases, timerThread
  <2>2. /\ t \in Timers /\ ~timer'[t].mArmed
        /\ \A u : Occurrences(u, leaving') \in Nat
        /\ \A u : Occurrences(u, leaving) = Occurrences(u, leaving') + Holds(u = t)
        /\ \A u \in Timers :
              /\ u # t => timer'[u].mArmed = timer[u].mArmed
              /\ u # t \/ timer[t].mRefCnt > 1 => timer'[u].mType = timer[u].mType
        /\ timer[t].mRefCnt = 1 => timer'[t] = Blank(0)
        /\ timer'[t].mRefCnt = timer[t].mRefCnt - Holds(t = t)
    BY <1>1, <1>7, ShutdownReleasesTable
  <2> HIDE DEF t
  <2>3. ASSUME NEW u \in Timers
        PROVE  /\ Sound(Occurrences(u, mTimers') + Occurrences(u, leaving'), timer'[u], u)
               /\ timer'[u].mArmed => timer[u].mArmed
    <3>1. Sound(Occurrences(u, mTimers) + Occurrences(u, leaving), timer[u], u)
      BY DEF Listed
    <3>2. /\ Occurrences(u, mTimers) \in Nat /\ Occurrences(u, leaving') \in Nat
          /\ Occurrences(u, leaving) = Occurrences(u, leaving') + Holds(u = t)
          /\ Occurrences(u, mTimers') = Occurrences(u, mTimers)
      BY <1>1, <2>1, <2>2, Parts
    <3>3. CASE u # t
      <4>1. Occurrences(u, mTimers') + Occurrences(u, leaving')
              = Occurrences(u, mTimers) + Occurrences(u, leaving)
        BY <3>2, <3>3 DEF Holds
      <4>2. timer'[u].mArmed = timer[u].mArmed /\ timer'[u].mType = timer[u].mType
        BY <2>2, <3>3
      <4> QED
        BY <3>1, <4>1, <4>2 DEF Sound
    <3>4. CASE u = t
      <4>1. Occurrences(u, leaving) = Occurrences(u, leaving') + 1
        BY <3>2, <3>4 DEF Holds
      <4>2. NeverPrecise(u) => Occurrences(u, mTimers') + Occurrences(u, leaving') = 0
        <5>1. NeverPrecise(u) => Occurrences(u, mTimers) + Occurrences(u, leaving) <= 1
          BY <3>1 DEF Sound
        <5> QED
          BY <3>2, <4>1, <5>1
      <4>3. ~timer'[u].mArmed
        BY <2>2, <3>4
      <4>4. timer'[u].mType \in TypesOf[u] \cup {"ONE_SHOT"}
        <5>1. timer[u].mRefCnt \in Nat /\ timer[u].mRefCnt > 0
          <6>1. timer[u].mRefCnt \in Nat /\ timer'[u].mRefCnt \in Nat
            BY <1>1, Parts DEF Counted, TypeOK, Fields
          <6> QED
            BY <2>2, <3>4, <6>1 DEF Holds
        <5>2. CASE timer[u].mRefCnt > 1
          BY <2>2, <3>1, <3>4, <5>2 DEF Sound
        <5>3. CASE timer[u].mRefCnt = 1
          BY <2>2, <3>4, <5>3, BlankType
        <5> QED
          BY <5>1, <5>2, <5>3
      <4> QED
        BY <4>2, <4>3, <4>4 DEF Sound
    <3> QED
      BY <3>3, <3>4
  <2> QED
    BY <2>1, <2>3, ListedNext
<1>8. CASE \/ Tick \/ BeginAfterSleep \/ EndAfterSleep \/ DoBeforeSleep \/ WakesUnslept
           \/ EndShutdown \/ UNCHANGED vars
  <2>1. UNCHANGED <<mTimers, leaving, timer, tpc, cur, call>>
    BY <1>8 DEF Tick, BeginAfterSleep, EndAfterSleep, DoBeforeSleep, WakesUnslept, EndShutdown,
                vars, timerThread, owner
  <2> QED
    BY <2>1, ListedSame
<1> QED
  BY <1>2, <1>3, <1>4, <1>5, <1>6, <1>7, <1>8

\* Every step keeps Listed.
LEMMA ListedStep == Counted /\ Counted' /\ Shut /\ Listed /\ [Next]_vars => Listed'
  BY ListedTimerStep, ListedOwnerCalls, ListedAdds, ListedRest
     DEF Next, OwnerStep, OwnerCalls

-----------------------------------------------------------------------------
(***************************************************************************)
(* Armed timers have a second reference.                                   *)
(***************************************************************************)

\* Upsets are counted up, and Shutdown is not taken back.
LEMMA UpsetsGrow ==
    ASSUME TypeOK, [Next]_vars
    PROVE  /\ ~Undisturbed => ~Undisturbed'
           /\ mShutdown => mShutdown'
           /\ upsets' \in Nat
<1>1. upsets \in Nat
  BY DEF TypeOK
<1>2. upsets' = upsets \/ upsets' = upsets + 1
  <2>1. CASE TimerStep
    BY <2>1 DEF TimerStep, Top, Again, WaitExpires, MakeEvent, Rearm, DispatchEvent,
                DispatchRefused, DropTimer, DropUnlists, counts
  <2>2. CASE OwnerStep
    BY <2>2 DEF OwnerStep, FinishInit, TimerDelayChanged, ReleaseFired, RemoveTimer, RunEvent,
                EndFire, BeginAfterSleep, ResetNext, EndAfterSleep, ShutdownReleases,
                EndShutdown, counts
  <2>3. CASE OwnerCalls
    BY <2>3 DEF OwnerCalls, BeginInit, SetDelay, Cancel, LetGo, DoBeforeSleep, WakesUnslept,
                BeginShutdown, counts
  <2>4. CASE Tick \/ UNCHANGED vars
    BY <2>4 DEF Tick, vars, counts
  <2> QED
    BY <2>1, <2>2, <2>3, <2>4 DEF Next
<1>3. mShutdown' = mShutdown \/ mShutdown' = TRUE
  <2>1. CASE TimerStep
    BY <2>1 DEF TimerStep, Top, Again, WaitExpires, MakeEvent, Rearm, DispatchEvent,
                DispatchRefused, DropTimer, DropUnlists
  <2>2. CASE OwnerStep
    BY <2>2 DEF OwnerStep, FinishInit, TimerDelayChanged, ReleaseFired, RemoveTimer, RunEvent,
                EndFire, BeginAfterSleep, ResetNext, EndAfterSleep, ShutdownReleases,
                EndShutdown
  <2>3. CASE OwnerCalls
    BY <2>3 DEF OwnerCalls, BeginInit, SetDelay, Cancel, LetGo, DoBeforeSleep, WakesUnslept,
                BeginShutdown
  <2>4. CASE Tick \/ UNCHANGED vars
    BY <2>4 DEF Tick, vars
  <2> QED
    BY <2>1, <2>2, <2>3, <2>4 DEF Next
<1> QED
  BY <1>1, <1>2, <1>3 DEF Undisturbed

\* Every step keeps Upset.
LEMMA UpsetStep == Counted /\ Upset /\ [Next]_vars => Upset'
<1> SUFFICES ASSUME Counted, Upset, [Next]_vars
             PROVE  Upset'
  OBVIOUS
<1>1. TypeOK
  BY DEF Counted
<1>2. /\ ~Undisturbed => ~Undisturbed'
      /\ mShutdown => mShutdown'
  BY <1>1, UpsetsGrow
<1>3. ASSUME ~Undisturbed' \/ (mSleeping' = mSleeping /\ index' = index),
             ~Undisturbed' \/ call'.op # "changing",
             tpc'.at \in {"drop", "unlist"} =>
                ~Undisturbed' \/ mShutdown' \/ tpc.at \in {"drop", "unlist"},
             call'.op = "adding" => call'.timer \in held' \cup {firing'}
      PROVE  Upset'
  BY <1>2, <1>3 DEF Upset
<1>4. ASSUME UNCHANGED <<held, firing, call>>
      PROVE  /\ ~Undisturbed' \/ call'.op # "changing"
             /\ call'.op = "adding" => call'.timer \in held' \cup {firing'}
  BY <1>2, <1>4 DEF Upset
<1>5. tpc.at \notin {"drop", "unlist"} => Notified.at \notin {"drop", "unlist"}
  BY DEF Notified, At
<1>6. CASE TimerStep
  <2>1. UNCHANGED <<mSleeping, index, held, firing, call>>
    BY <1>6 DEF TimerStep, Top, Again, WaitExpires, MakeEvent, Rearm, DispatchEvent,
                DispatchRefused, DropTimer, DropUnlists, owner
  <2>2. tpc'.at \in {"drop", "unlist"} =>
           ~Undisturbed' \/ mShutdown' \/ tpc.at \in {"drop", "unlist"}
    <3>1. CASE Top \/ Again
      <4>1. tpc'.at \in {"done", "waiting", "post"}
        BY <1>1, <3>1, TopEffect, PopsEffect
      <4> QED
        BY <4>1
    <3>2. CASE WaitExpires \/ MakeEvent \/ DispatchEvent \/ DropTimer \/ DropUnlists
      BY <3>2 DEF WaitExpires, MakeEvent, DispatchEvent, DropTimer, DropUnlists, At
    <3>3. CASE Rearm
      BY <3>3 DEF Rearm, At
    <3>4. CASE DispatchRefused
      BY <1>1, <3>4 DEF DispatchRefused, Undisturbed, TypeOK
    <3> QED
      BY <1>6, <3>1, <3>2, <3>3, <3>4 DEF TimerStep
  <2> QED
    BY <1>3, <1>4, <2>1, <2>2
<1>7. ASSUME AddTimer(mTimers, timer, call.timer)
             \/ AddTimer(Removed(mTimers, call.timer), Unlisted(mTimers, timer, call.timer),
                         call.timer)
             \/ \E timers : AddTimer(mTimers, timers, firing)
      PROVE  tpc' \in {tpc, Notified}
  BY <1>7 DEF AddTimer
<1>8. CASE FinishInit \/ TimerDelayChanged \/ RemoveTimer
  <2>1. tpc' \in {tpc, Notified}
    BY <1>7, <1>8 DEF FinishInit, TimerDelayChanged, RemoveTimer
  <2>2. UNCHANGED <<mSleeping, index>> /\ call' = Idle
    BY <1>8 DEF FinishInit, TimerDelayChanged, RemoveTimer
  <2> QED
    BY <1>3, <1>5, <2>1, <2>2 DEF Idle
<1>9. CASE EndFire
  <2>1. tpc' \in {tpc, Notified}
    BY <1>1, <1>7, <1>9, EndFireEffect
  <2>2. UNCHANGED <<mSleeping, index>> /\ call'.op = "releasing"
    BY <1>9 DEF EndFire
  <2> QED
    BY <1>3, <1>5, <2>1, <2>2
<1>10. CASE ReleaseFired
  <2>1. UNCHANGED <<mSleeping, index, tpc>> /\ call'.op \in {"idle", "removing"}
    BY <1>10 DEF ReleaseFired, Releases, Idle, timerThread
  <2> QED
    BY <1>3, <2>1
<1>11. CASE RunEvent
  <2>1. UNCHANGED <<mSleeping, index, tpc>> /\ call'.op \in {"idle", "removing"}
    BY <1>11 DEF RunEvent, Releases, Idle, timerThread
  <2> QED
    BY <1>3, <2>1
<1>12. CASE ResetNext
  <2>1. index \in Nat /\ index > 0
    BY <1>1, <1>12 DEF ResetNext, TypeOK
  <2>2. ~Undisturbed'
    BY <1>2, <2>1 DEF Upset
  <2>3. tpc' = tpc /\ call'.op # "adding"
    BY <1>12 DEF ResetNext, DelayWritten, Idle, timerThread
  <2> QED
    BY <1>3, <2>2, <2>3
<1>13. CASE BeginAfterSleep \/ EndAfterSleep
  <2>1. UNCHANGED <<held, firing, call, tpc>>
    BY <1>13 DEF BeginAfterSleep, EndAfterSleep, timerThread
  <2>2. CASE BeginAfterSleep
    <3>1. ~Undisturbed'
      BY <1>2, <2>2 DEF BeginAfterSleep, Upset
    <3> QED
      BY <1>3, <1>4, <2>1, <3>1
  <2>3. CASE EndAfterSleep
    <3>1. ~mSleeping' /\ ~(index' > 0)
      BY <2>3 DEF EndAfterSleep
    <3> QED
      BY <1>2, <2>1, <3>1 DEF Upset
  <2> QED
    BY <1>13, <2>2, <2>3
<1>14. CASE \/ ShutdownReleases \/ EndShutdown \/ BeginShutdown \/ Tick \/ UNCHANGED vars
  <2>1. UNCHANGED <<mSleeping, index, held, firing, call>> /\ tpc' \in {tpc, Notified}
    BY <1>14 DEF ShutdownReleases, EndShutdown, BeginShutdown, Tick, vars, owner, timerThread
  <2> QED
    BY <1>3, <1>4, <1>5, <2>1
<1>15. CASE DoBeforeSleep \/ WakesUnslept
  <2>1. UNCHANGED <<held, firing, call, tpc>>
    BY <1>15 DEF DoBeforeSleep, WakesUnslept, owner, timerThread
  <2>2. ~Undisturbed'
    BY <1>1, <1>15 DEF DoBeforeSleep, WakesUnslept, Undisturbed, TypeOK
  <2> QED
    BY <1>3, <1>4, <2>1, <2>2
<1>16. ASSUME NEW t \in Timers,
              \/ \E type \in Types, delay \in Delays : BeginInit(t, type, delay)
              \/ \E delay \in Delays : SetDelay(t, delay)
              \/ Cancel(t)
              \/ LetGo(t)
       PROVE  Upset'
  <2>1. CASE \E type \in Types, delay \in Delays : BeginInit(t, type, delay)
    <3>1. /\ UNCHANGED <<mSleeping, index, held, firing>> /\ tpc' \in {tpc, Notified}
          /\ call'.op = "adding" /\ call'.timer = t /\ t \in held \cup {firing}
      BY <2>1 DEF BeginInit, AppHas
    <3> QED
      BY <1>3, <1>5, <3>1
  <2>2. CASE \E delay \in Delays : SetDelay(t, delay)
    <3>1. ~Undisturbed'
      BY <1>1, <2>2 DEF SetDelay, Undisturbed, TypeOK
    <3>2. tpc' = tpc /\ call'.op # "adding"
      BY <2>2 DEF SetDelay, DelayWritten, Idle, timerThread
    <3> QED
      BY <1>3, <3>1, <3>2
  <2>3. CASE Cancel(t)
    <3>1. UNCHANGED <<mSleeping, index, held, firing, call>> /\ tpc' \in {tpc, Notified}
      BY <2>3 DEF Cancel, owner
    <3> QED
      BY <1>3, <1>4, <1>5, <3>1
  <2>4. CASE LetGo(t)
    <3>1. UNCHANGED <<mSleeping, index, tpc>> /\ call'.op \in {"idle", "removing"}
      BY <2>4 DEF LetGo, Releases, Idle, timerThread
    <3> QED
      BY <1>3, <3>1
  <2> QED
    BY <1>16, <2>1, <2>2, <2>3, <2>4
<1> QED
  BY <1>6, <1>8, <1>9, <1>10, <1>11, <1>12, <1>13, <1>14, <1>15, <1>16
     DEF Next, OwnerStep, OwnerCalls

\* Second after a step in which each armed timer was armed before and has as many
\* references, or has two.
LEMMA SecondNext ==
    ASSUME Second, ~Undisturbed => ~Undisturbed', mShutdown => mShutdown',
           \A u \in Timers :
              NeverPrecise(u) /\ timer'[u].mArmed /\ Undisturbed' /\ ~mShutdown' =>
                 \/ timer'[u].mRefCnt > 1
                 \/ call'.op = "removing" /\ call'.timer = u
                 \/ /\ timer[u].mArmed /\ timer'[u].mRefCnt = timer[u].mRefCnt
                    /\ call.op = "removing" /\ call.timer = u => call' = call
    PROVE  Second'
<1> SUFFICES ASSUME Undisturbed', ~mShutdown', NEW u \in Timers, NeverPrecise(u), timer'[u].mArmed
             PROVE  \/ timer'[u].mRefCnt > 1
                    \/ call'.op = "removing" /\ call'.timer = u
  BY DEF Second
<1>1. NeverPrecise(u) /\ timer[u].mArmed => \/ timer[u].mRefCnt > 1
                                            \/ call.op = "removing" /\ call.timer = u
  BY DEF Second
<1>2. \/ timer'[u].mRefCnt > 1
      \/ call'.op = "removing" /\ call'.timer = u
      \/ /\ timer[u].mArmed /\ timer'[u].mRefCnt = timer[u].mRefCnt
         /\ call.op = "removing" /\ call.timer = u => call' = call
  OBVIOUS
<1> QED
  BY <1>1, <1>2

\* Release of a timer by the owner: one that is left with the reference of the list
\* is about to be taken out of it.
LEMMA SecondReleases ==
    ASSUME Counted, Second, ~Undisturbed => ~Undisturbed', mShutdown => mShutdown',
           NEW t \in Timers, timer[t].mRefCnt > 0, Releases(t), call.op # "removing"
    PROVE  Second'
<1>1. TypeOK
  BY DEF Counted
<1>2. timer' = Released(t)
      /\ call' = IF Alone(t) THEN [op |-> "removing", timer |-> t] ELSE Idle
  BY DEF Releases
<1>3. ASSUME NEW u \in Timers, timer'[u].mArmed
      PROVE  \/ timer'[u].mRefCnt > 1
             \/ call'.op = "removing" /\ call'.timer = u
             \/ timer[u].mArmed /\ timer'[u].mRefCnt = timer[u].mRefCnt
  <2>1. timer'[u].mRefCnt = timer[u].mRefCnt - Holds(u = t) /\ timer[u].mRefCnt \in Nat
    BY <1>1, <1>2, ReleasedTable, Parts
  <2>2. CASE u # t
    <3>1. timer'[u].mArmed = timer[u].mArmed
      BY <1>1, <1>2, <2>2, ReleasedTable
    <3>2. timer'[u].mRefCnt = timer[u].mRefCnt
      BY <2>1, <2>2 DEF Holds
    <3> QED
      BY <1>3, <3>1, <3>2
  <2>3. CASE u = t /\ timer[t].mRefCnt = 1
    <3>1. timer'[u] = Blank(0)
      BY <1>1, <1>2, <2>3, ReleasedTable
    <3> QED
      BY <1>3, <3>1, BlankType
  <2>4. CASE u = t /\ timer[t].mRefCnt = 2
    <3>1. timer'[u].mArmed = timer[u].mArmed
      BY <1>1, <1>2, <2>4, ReleasedTable
    <3>2. Alone(t)
      BY <1>3, <2>4, <3>1 DEF Alone
    <3> QED
      BY <1>2, <2>4, <3>2
  <2>5. CASE u = t /\ timer[t].mRefCnt > 2
    BY <2>1, <2>5 DEF Holds
  <2> QED
    BY <2>1, <2>2, <2>3, <2>4, <2>5
<1> QED
  BY <1>3, SecondNext

\* AddTimer of a timer that somebody has a reference to.
LEMMA SecondAdds ==
    ASSUME TypeOK, Second, ~Undisturbed => ~Undisturbed', mShutdown => mShutdown',
           NEW list \in Seq(Timers), NEW timers \in Table, NEW t \in Timers,
           AddTimer(list, timers, t), timers[t].mRefCnt > 0,
           call.op # "removing",
           \A u \in Timers : timers[u].mArmed = timer[u].mArmed /\ timers[u].mRefCnt = timer[u].mRefCnt
    PROVE  Second'
<1>1. ASSUME NEW u \in Timers, timer'[u].mArmed
      PROVE  \/ timer'[u].mRefCnt > 1
             \/ timer[u].mArmed /\ timer'[u].mRefCnt = timer[u].mRefCnt
  <2>1. /\ timer'[u].mRefCnt = timers[u].mRefCnt + Holds(u = t /\ ~mShutdown)
        /\ timer'[u].mArmed = (timers[u].mArmed \/ (u = t /\ ~mShutdown))
    BY AddTimerEffect
  <2>2. timers[u].mRefCnt \in Nat /\ timers[u].mRefCnt = timer[u].mRefCnt
    BY DEF Table, Fields
  <2>3. CASE u = t /\ ~mShutdown
    <3>1. Holds(u = t /\ ~mShutdown) = 1
      BY <2>3 DEF Holds
    <3> QED
      BY <2>1, <2>2, <2>3, <3>1
  <2>4. CASE ~(u = t /\ ~mShutdown)
    <3>1. Holds(u = t /\ ~mShutdown) = 0
      BY <2>4 DEF Holds
    <3>2. timers[u].mArmed
      BY <1>1, <2>1, <2>4, Zenon
    <3> QED
      BY <2>1, <2>2, <3>1, <3>2
  <2> QED
    BY <2>3, <2>4
<1> QED
  BY <1>1, SecondNext

\* Every step keeps Second.
LEMMA SecondStep ==
    Counted /\ Counted' /\ Shut /\ Listed /\ Upset /\ Second /\ [Next]_vars => Second'
<1> SUFFICES ASSUME Counted, Counted', Shut, Listed, Upset, Second, [Next]_vars
             PROVE  Second'
  OBVIOUS
<1>1. TypeOK /\ Exact /\ Control
  BY DEF Counted
<1>2. (~Undisturbed => ~Undisturbed') /\ (mShutdown => mShutdown')
  BY <1>1, UpsetsGrow
<1>3. ASSUME ~Undisturbed' \/ mShutdown'
      PROVE  Second'
  BY <1>3 DEF Second
<1>4. ASSUME \A u \in Timers : /\ timer'[u].mArmed => timer[u].mArmed
                               /\ timer'[u].mArmed => timer'[u].mRefCnt = timer[u].mRefCnt,
             call.op = "removing" => call' = call
      PROVE  Second'
  BY <1>2, <1>4, SecondNext
<1>5. ASSUME NEW t \in Timers, call.op # "removing" \/ call.timer = t, leaving = <<>>,
             \A u \in Timers :
                /\ timer'[u].mArmed = Unlisted(mTimers, timer, t)[u].mArmed
                /\ timer'[u].mRefCnt = Unlisted(mTimers, timer, t)[u].mRefCnt
      PROVE  Second'
  <2>1. ASSUME NEW u \in Timers, timer'[u].mArmed
        PROVE  /\ timer[u].mArmed /\ timer'[u].mRefCnt = timer[u].mRefCnt
               /\ ~(call.op = "removing" /\ call.timer = u)
    <3>1. u # t
      BY <1>5, <2>1, UnlistedIsUnarmed
    <3>2. timer'[u].mArmed = timer[u].mArmed
      BY <1>1, <1>5, <3>1, UnlistedFields
    <3>3. Unlisted(mTimers, timer, t)[u].mRefCnt =
             timer[u].mRefCnt - Holds(u = t /\ InList(mTimers, t))
      BY <1>1, UnlistedEffect
    <3>4. timer[u].mRefCnt \in Nat
      BY <1>1, Parts
    <3> QED
      BY <1>5, <2>1, <3>1, <3>2, <3>3, <3>4 DEF Holds
  <2> QED
    BY <1>2, <2>1, SecondNext
<1>6. CASE Top \/ Again
  <2>1. UNCHANGED call
    BY <1>1, <1>6, TopEffect DEF owner
  <2>2. CASE UNCHANGED timer
    BY <1>4, <2>1, <2>2
  <2>3. CASE mTimers # <<>> /\ Pops
    <3>1. /\ mTimers[1] \in Timers
          /\ ~timer'[mTimers[1]].mArmed
          /\ \A u \in Timers : /\ u # mTimers[1] => timer'[u].mArmed = timer[u].mArmed
                               /\ timer'[u].mRefCnt = timer[u].mRefCnt
      BY <1>1, <2>3, PopsEffect
    <3>2. ASSUME NEW u \in Timers
          PROVE  timer'[u].mArmed => timer[u].mArmed
      BY <3>1
    <3> QED
      BY <1>4, <2>1, <3>1, <3>2
  <2> QED
    BY <1>1, <1>6, <2>2, <2>3, TopEffect
<1>7. CASE MakeEvent
  <2>1. UNCHANGED call
    BY <1>7 DEF MakeEvent, owner
  <2>2. \A u \in Timers : /\ timer'[u].mArmed = timer[u].mArmed
                          /\ timer'[u].mRefCnt = timer[u].mRefCnt
    BY <1>7, MakeEventEffect
  <2> QED
    BY <1>4, <2>1, <2>2
<1>8. CASE Rearm
  <2>1. cur \in Timers /\ tpc.at = "rearm" /\ UNCHANGED call
    BY <1>1, <1>8 DEF Rearm, Control, TypeOK, owner
  <2>2. ~NeverPrecise(cur)
    BY <2>1 DEF Listed
  <2>3. UNCHANGED timer \/ timer' = Armed(timer, cur)
    BY <1>8 DEF Rearm
  <2>4. CASE UNCHANGED timer
    BY <1>4, <2>1, <2>4
  <2>5. CASE timer' = Armed(timer, cur)
    <3>1. ASSUME NEW u \in Timers, NeverPrecise(u), timer'[u].mArmed
          PROVE  timer[u].mArmed /\ timer'[u].mRefCnt = timer[u].mRefCnt
      <4>1. /\ timer'[u].mRefCnt = timer[u].mRefCnt + Holds(u = cur)
            /\ timer'[u].mArmed = (u = cur \/ timer[u].mArmed)
            /\ timer[u].mRefCnt \in Nat
        BY <1>1, <2>1, <2>5, ArmedTable, Parts
      <4>2. u # cur
        BY <2>2, <3>1
      <4>3. Holds(u = cur) = 0
        BY <4>2 DEF Holds
      <4>4. timer[u].mArmed
        BY <3>1, <4>1, <4>2, Zenon
      <4> QED
        BY <4>1, <4>3, <4>4
    <3> QED
      BY <1>2, <2>1, <3>1, SecondNext
  <2> QED
    BY <2>3, <2>4, <2>5
<1>9. CASE DispatchRefused \/ DropTimer \/ DropUnlists
  <2>1. ~Undisturbed' \/ mShutdown'
    <3>1. CASE DispatchRefused
      BY <1>1, <3>1 DEF DispatchRefused, Undisturbed, TypeOK
    <3>2. CASE DropTimer \/ DropUnlists
      BY <1>2, <3>2 DEF DropTimer, DropUnlists, Upset
    <3> QED
      BY <1>9, <3>1, <3>2
  <2> QED
    BY <1>3, <2>1
<1>10. CASE \/ WaitExpires \/ DispatchEvent \/ Tick \/ UNCHANGED vars
            \/ BeginAfterSleep \/ EndAfterSleep \/ DoBeforeSleep \/ WakesUnslept \/ EndShutdown
  <2>1. UNCHANGED <<timer, call>>
    BY <1>10 DEF WaitExpires, DispatchEvent, Tick, vars, BeginAfterSleep, EndAfterSleep,
                 DoBeforeSleep, WakesUnslept, EndShutdown, owner
  <2> QED
    BY <1>4, <2>1
<1>11. CASE BeginShutdown \/ ShutdownReleases
  <2>1. mShutdown'
    BY <1>2, <1>11 DEF BeginShutdown, ShutdownReleases, Shut
  <2> QED
    BY <1>3, <2>1
<1>12. CASE ResetNext \/ TimerDelayChanged
  <2>1. ~Undisturbed
    BY <1>1, <1>12 DEF ResetNext, TimerDelayChanged, Upset, TypeOK
  <2> QED
    BY <1>2, <1>3, <2>1
<1>13. CASE FinishInit
  <2>1. /\ call.timer \in Timers /\ call.op = "adding"
        /\ AddTimer(mTimers, timer, call.timer)
    BY <1>1, <1>13 DEF FinishInit, Control
  <2>2. call.timer \in held \/ call.timer = firing
    BY <2>1 DEF Upset
  <2>3. timer[call.timer].mRefCnt > 0
    <3> DEFINE t == call.timer
    <3>1. timer[t].mRefCnt = References(t)
      BY <1>1, <2>1 DEF Exact
    <3>2. Occurrences(t, mTimers) \in Nat /\ Occurrences(t, leaving) \in Nat
          /\ Occurrences(t, Queued) \in Nat
      BY <1>1, Parts
    <3> QED
      BY <2>2, <3>1, <3>2 DEF References, Holds
  <2>4. mTimers \in Seq(Timers) /\ timer \in Table
    BY <1>1, Parts DEF TypeOK
  <2> QED
    BY <1>1, <1>2, <2>1, <2>3, <2>4, SecondAdds
<1>14. CASE EndFire
  <2>1. firing \in Timers /\ call = Idle
    BY <1>1, <1>14, EndFireEffect
  <2>2. PICK timers \in Table :
           /\ \A u \in Timers : /\ timers[u].mArmed = timer[u].mArmed
                                /\ timers[u].mRefCnt = timer[u].mRefCnt
           /\ \/ timer' = timers
              \/ AddTimer(mTimers, timers, firing)
    BY <1>1, <1>14, EndFireEffect
  <2>3. call.op # "removing"
    BY <2>1 DEF Idle
  <2>4. CASE timer' = timers
    BY <1>4, <2>2, <2>3, <2>4
  <2>5. CASE AddTimer(mTimers, timers, firing)
    <3>1. timer[firing].mRefCnt = References(firing)
      BY <1>1, <2>1 DEF Exact
    <3>2. Occurrences(firing, mTimers) \in Nat /\ Occurrences(firing, leaving) \in Nat
          /\ Occurrences(firing, Queued) \in Nat
      BY <1>1, Parts
    <3>3. timer[firing].mRefCnt > 0
      BY <3>1, <3>2 DEF References, Holds
    <3>4. mTimers \in Seq(Timers) /\ timers[firing].mRefCnt > 0
      BY <1>1, <2>1, <2>2, <3>3 DEF TypeOK
    <3> QED
      BY <1>1, <1>2, <2>1, <2>2, <2>3, <2>5, <3>4, SecondAdds
  <2> QED
    BY <2>2, <2>4, <2>5
<1>15. CASE ReleaseFired
  <2> DEFINE t == call.timer
  <2>1. call.op = "releasing" /\ t \in Timers /\ Releases(t)
    BY <1>1, <1>15 DEF ReleaseFired, Control
  <2>2. timer[t].mRefCnt > 0
    <3>1. timer[t].mRefCnt = References(t)
      BY <1>1, <2>1 DEF Exact
    <3> QED
      BY <1>1, <2>1, <3>1, Parts DEF References, Holds
  <2> HIDE DEF t
  <2> QED
    BY <1>2, <2>1, <2>2, SecondReleases
<1>16. CASE RemoveTimer
  <2> DEFINE t == call.timer
  <2>1. t \in Timers /\ timer' = Unlisted(mTimers, timer, t)
    BY <1>1, <1>16 DEF RemoveTimer, Control
  <2>2. CASE leaving = <<>>
    BY <1>5, <2>1, <2>2
  <2>3. CASE leaving # <<>>
    BY <1>2, <1>3, <2>3 DEF Shut
  <2> QED
    BY <2>2, <2>3
<1>17. CASE RunEvent
  <2>1. PICK t \in Timers :
           /\ call = Idle
           /\ \/ /\ call' = call
                 /\ \A u \in Timers : /\ timer'[u].mArmed = timer[u].mArmed
                                      /\ timer'[u].mRefCnt = timer[u].mRefCnt
              \/ Releases(t) /\ timer[t].mRefCnt > 0
    BY <1>17, RunEventEffect
  <2>2. call.op # "removing"
    BY <2>1 DEF Idle
  <2>3. CASE Releases(t) /\ timer[t].mRefCnt > 0
    BY <1>2, <2>2, <2>3, SecondReleases
  <2>4. CASE \A u \in Timers : /\ timer'[u].mArmed = timer[u].mArmed
                               /\ timer'[u].mRefCnt = timer[u].mRefCnt
    BY <1>4, <2>2, <2>4
  <2> QED
    BY <2>1, <2>3, <2>4
<1>18. ASSUME NEW t \in Timers, NEW type \in Types, NEW delay \in Delays,
              BeginInit(t, type, delay)
       PROVE  Second'
  <2>1. /\ call = Idle /\ leaving = <<>>
        /\ timer'[t].mArmed = LeftTimers(t)[t].mArmed
        /\ \A u \in Timers : u # t => timer'[u] = LeftTimers(t)[u]
    BY <1>18, BeginInitEffect
  <2>2. ASSUME NEW u \in Timers, timer'[u].mArmed
        PROVE  timer[u].mArmed /\ timer'[u].mRefCnt = timer[u].mRefCnt
    <3>1. u # t
      BY <2>1, <2>2, LeftSound
    <3>2. CASE timer[t].mArmed
      <4>1. timer'[u] = Unlisted(mTimers, timer, t)[u]
        BY <2>1, <3>1, <3>2 DEF LeftTimers
      <4>2. timer'[u].mArmed = timer[u].mArmed
        BY <1>1, <3>1, <4>1, UnlistedFields
      <4>3. timer'[u].mRefCnt = timer[u].mRefCnt - Holds(u = t /\ InList(mTimers, t))
        BY <1>1, <4>1, UnlistedEffect
      <4>4. timer[u].mRefCnt \in Nat
        BY <1>1, Parts
      <4> QED
        BY <2>2, <3>1, <4>2, <4>3, <4>4 DEF Holds
    <3>3. CASE ~timer[t].mArmed
      BY <2>1, <2>2, <3>1, <3>3 DEF LeftTimers
    <3> QED
      BY <3>2, <3>3
  <2>3. call.op # "removing"
    BY <2>1 DEF Idle
  <2> QED
    BY <1>4, <2>2, <2>3
<1>19. ASSUME NEW t \in Timers, NEW delay \in Delays, SetDelay(t, delay)
       PROVE  Second'
  <2>1. ~Undisturbed'
    BY <1>1, <1>19 DEF SetDelay, Undisturbed, TypeOK
  <2> QED
    BY <1>3, <2>1
<1>20. ASSUME NEW t \in Timers, Cancel(t)
       PROVE  Second'
  <2>1. /\ call = Idle /\ leaving = <<>>
        /\ \A u \in Timers :
              /\ timer'[u].mArmed = Unlisted(mTimers, timer, t)[u].mArmed
              /\ timer'[u].mRefCnt = Unlisted(mTimers, timer, t)[u].mRefCnt
    BY <1>20, CancelEffect
  <2>2. call.op # "removing"
    BY <2>1 DEF Idle
  <2> QED
    BY <1>5, <2>1, <2>2
<1>21. ASSUME NEW t \in Timers, LetGo(t)
       PROVE  Second'
  <2>1. call = Idle /\ t \in held /\ Releases(t)
    BY <1>21 DEF LetGo, AppHas
  <2>2. timer[t].mRefCnt > 0
    <3>1. timer[t].mRefCnt = References(t)
      BY <1>1 DEF Exact
    <3> QED
      BY <1>1, <2>1, <3>1, Parts DEF References, Holds
  <2>3. call.op # "removing"
    BY <2>1 DEF Idle
  <2> QED
    BY <1>2, <2>1, <2>2, <2>3, SecondReleases
<1> QED
  BY <1>6, <1>7, <1>8, <1>9, <1>10, <1>11, <1>12, <1>13, <1>14, <1>15, <1>16, <1>17, <1>18,
     <1>19, <1>20, <1>21
     DEF Next, TimerStep, OwnerStep, OwnerCalls

-----------------------------------------------------------------------------
(***************************************************************************)
(* The list is sound.                                                      *)
(***************************************************************************)
Lists == Shut /\ Listed /\ Upset /\ Second

\* The four parts are an invariant, on top of the exact reference counts.
THEOREM ListsInvariant == Spec => [](Counted /\ Lists)
<1>1. Init => Lists
  <2>1. Init => Upset /\ Second
    <3> SUFFICES ASSUME Init
                 PROVE  Upset /\ Second
      OBVIOUS
    <3>1. /\ mSleeping = FALSE /\ index = 0 /\ call.op = "idle" /\ tpc.at = "top"
          /\ \A t \in Timers : timer[t] = Blank(1)
      BY DEF Init, At
    <3>2. \A t \in Timers : ~timer[t].mArmed
      BY <3>1, BlankType
    <3> QED
      BY <3>1, <3>2 DEF Upset, Second
  <2> QED
    BY <2>1, ShutInit, ListedInit DEF Lists
<1>2. Counted /\ Lists /\ [Next]_vars => Counted' /\ Lists'
  BY CountedStep, ShutStep, ListedStep, UpsetStep, SecondStep DEF Lists
<1> QED
  BY <1>1, <1>2, CountedInit, PTL DEF Spec

\* mArmed says whether a timer that is never precise is in the list, where it is once,
\* and a listed timer has a reference besides that of the list, though Init, Cancel,
\* Release, Fire and the timer thread arm and disarm it in any order.
THEOREM ListIsSound == Spec => []ListSound
<1>1. Counted /\ Lists => ListSound
  <2> SUFFICES ASSUME Counted, Lists
               PROVE  ListSound
    OBVIOUS
  <2>1. TypeOK /\ Listed /\ Second
    BY DEF Counted, Lists
  <2>2. ArmedOnce
    <3> SUFFICES ASSUME NEW t \in Timers, NeverPrecise(t)
                 PROVE  Occurrences(t, mTimers) + Occurrences(t, leaving)
                           = Holds(timer[t].mArmed)
      BY DEF ArmedOnce
    <3>1. Sound(Occurrences(t, mTimers) + Occurrences(t, leaving), timer[t], t)
      BY <2>1 DEF Listed
    <3>2. Occurrences(t, mTimers) \in Nat /\ Occurrences(t, leaving) \in Nat
      BY <2>1, Parts
    <3>3. CASE timer[t].mArmed
      <4>1. /\ Occurrences(t, mTimers) + Occurrences(t, leaving) > 0
            /\ Occurrences(t, mTimers) + Occurrences(t, leaving) <= 1
        BY <3>1, <3>3 DEF Sound
      <4>2. Holds(timer[t].mArmed) = 1
        BY <3>3 DEF Holds
      <4> QED
        BY <3>2, <4>1, <4>2
    <3>4. CASE ~timer[t].mArmed
      <4>1. Holds(timer[t].mArmed) = 0
        BY <3>4 DEF Holds
      <4> QED
        BY <3>1, <3>4, <4>1 DEF Sound
    <3> QED
      BY <3>3, <3>4
  <2>3. NoOrphans
    BY <2>1 DEF NoOrphans, Second, Idle
  <2> QED
    BY <2>2, <2>3 DEF ListSound
<1> QED
  BY <1>1, ListsInvariant, PTL

\* Once Shutdown has joined the timer thread, the list is empty, no timer is armed and
\* the timer thread holds none, whatever it was posting when it was told to stop.
THEOREM NothingIsArmedAtTheEnd == Spec => []NoneArmedAtEnd
<1>1. Counted /\ Lists => NoneArmedAtEnd
  <2> SUFFICES ASSUME Counted, Lists, ~gThread
               PROVE  /\ mTimers = <<>> /\ leaving = <<>> /\ cur = None
                      /\ \A t \in Timers : ~timer[t].mArmed
    BY DEF NoneArmedAtEnd
  <2>1. mTimers = <<>> /\ leaving = <<>> /\ tpc.at = "done"
    BY DEF Lists, Shut
  <2>2. cur = None
    BY <2>1 DEF Counted, Control
  <2>3. ASSUME NEW t \in Timers
        PROVE  ~timer[t].mArmed
    <3>1. Occurrences(t, mTimers) = 0 /\ Occurrences(t, leaving) = 0
      BY <2>1, OccurrencesEmpty
    <3>2. timer[t].mArmed => Occurrences(t, mTimers) + Occurrences(t, leaving) > 0
      BY DEF Lists, Listed, Sound
    <3> QED
      BY <3>1, <3>2
  <2> QED
    BY <2>1, <2>2, <2>3
<1> QED
  BY <1>1, ListsInvariant, PTL

-----------------------------------------------------------------------------
(***************************************************************************)
(* The list is sorted, and the timer thread wakes up in time.              *)
(***************************************************************************)

\* Timeouts are numbers.
LEMMA TimeoutType ==
    ASSUME NEW list \in Seq(Timers), NEW timers \in Table
    PROVE  \A i \in DOMAIN list : list[i] \in Timers /\ timers[list[i]].mTimeout \in Nat
<1>1. \A i \in DOMAIN list : list[i] \in Timers
  BY ElementOfSeq
<1>2. \A u \in Timers : timers[u].mTimeout \in Nat
  BY DEF Table, Fields
<1> QED
  BY <1>1, <1>2

\* So are the clock and what the wait is for.
LEMMA ClockType ==
    ASSUME TypeOK
    PROVE  now \in Nat /\ mTimeoutAdjustment \in Int /\ Clock \in Int /\ Deadline \in Int
<1>1. now \in Nat /\ mTimeoutAdjustment \in Int /\ tpc.until \in Int
  BY BoundsAssumption DEF TypeOK
<1> QED
  BY <1>1 DEF Clock, Deadline

\* A step that leaves the adjustment alone, or the list empty.
LEMMA ClockSame ==
    ASSUME UNCHANGED <<now, mTimeoutAdjustment>>
    PROVE  /\ Clock' = Clock
           /\ tpc' = tpc => Deadline' = Deadline
  BY DEF Clock, Deadline

LEMMA ClockGrows ==
    ASSUME TypeOK, now' \in Nat, now <= now', mTimeoutAdjustment' = mTimeoutAdjustment
    PROVE  Clock' \in Int /\ Clock <= Clock'
<1>1. \A n, m \in Nat, a \in Int : n <= m => n - a <= m - a /\ m - a \in Int
  OBVIOUS
<1>2. now - mTimeoutAdjustment <= now' - mTimeoutAdjustment /\ now' - mTimeoutAdjustment \in Int
  BY <1>1, ClockType
<1> QED
  BY <1>2 DEF Clock

LEMMA TimelyEmpty == mTimers' = <<>> => Timely'
<1> SUFFICES ASSUME mTimers' = <<>>
             PROVE  Timely'
  OBVIOUS
<1>1. DOMAIN mTimers' = {}
  OBVIOUS
<1> QED
  BY <1>1 DEF Timely, SortedList, WakesFor

\* A part of the list in the same order, with the same timeouts, at a later time.
LEMMA SortedPart ==
    ASSUME NEW list \in Seq(Timers), NEW part \in Seq(Timers),
           NEW timers \in Table, NEW timers2 \in Table, NEW time \in Int, NEW time2 \in Int,
           time <= time2, NEW until \in Int,
           \A k, m \in DOMAIN part : k < m =>
              \E a, b \in DOMAIN list : a < b /\ list[a] = part[k] /\ list[b] = part[m],
           \A k \in DOMAIN part : \E a \in DOMAIN list : list[a] = part[k],
           \A k \in DOMAIN part : timers2[part[k]].mTimeout = timers[part[k]].mTimeout
    PROVE  /\ SortedList(list, timers, time) => SortedList(part, timers2, time2)
           /\ WakesFor(list, timers, time, until) => WakesFor(part, timers2, time2, until)
<1>1. \A k \in DOMAIN part : timers[part[k]].mTimeout \in Nat
  BY TimeoutType
<1>2. ASSUME SortedList(list, timers, time), NEW k \in DOMAIN part, NEW m \in DOMAIN part, k < m
      PROVE  \/ timers2[part[k]].mTimeout <= timers2[part[m]].mTimeout
             \/ timers2[part[k]].mTimeout <= time2
  <2>1. PICK a \in DOMAIN list, b \in DOMAIN list :
           a < b /\ list[a] = part[k] /\ list[b] = part[m]
    BY <1>2
  <2>2. \/ timers[part[k]].mTimeout <= timers[part[m]].mTimeout
        \/ timers[part[k]].mTimeout <= time
    BY <1>2, <2>1 DEF SortedList
  <2>3. timers[part[k]].mTimeout \in Nat /\ timers[part[m]].mTimeout \in Nat
    BY <1>1
  <2> QED
    BY <2>2, <2>3
<1>3. ASSUME WakesFor(list, timers, time, until), NEW k \in DOMAIN part
      PROVE  until <= time2 \/ until <= timers2[part[k]].mTimeout
  <2>1. PICK a \in DOMAIN list : list[a] = part[k]
    OBVIOUS
  <2>2. until <= time \/ until <= timers[part[k]].mTimeout
    BY <1>3, <2>1 DEF WakesFor
  <2> QED
    BY <2>2
<1> QED
  BY <1>2, <1>3 DEF SortedList, WakesFor

\* InsertElementSorted keeps the list sorted, and a wait for the list is in time for
\* the new timer unless that is the first.
LEMMA SortedInserted ==
    ASSUME NEW list \in Seq(Timers), NEW timers \in Table, NEW t \in Timers, TypeOK,
           NEW i \in Places(list, timers, t), NEW timers2 \in Table, NEW until \in Int,
           \A u \in Timers : timers2[u].mTimeout = timers[u].mTimeout,
           SortedList(list, timers, Clock)
    PROVE  /\ SortedList(Inserted(list, i, t), timers2, Clock)
           /\ i # 0 /\ WakesFor(list, timers, Clock, until) =>
                 WakesFor(Inserted(list, i, t), timers2, Clock, until)
<1> DEFINE w == Inserted(list, i, t)
           T(u) == timers[u].mTimeout
<1>1. i \in 0 .. Len(list) /\ Len(list) \in Nat /\ DOMAIN list = 1 .. Len(list)
  BY LenProperties DEF Places
<1>2. /\ DOMAIN w = 1 .. Len(list) + 1
      /\ \A k \in 1 .. Len(list) + 1 :
            w[k] = IF k <= i THEN list[k] ELSE IF k = i + 1 THEN t ELSE list[k - 1]
  <2>1. i \in 0 .. Len(list)
    BY <1>1
  <2>2. DOMAIN Inserted(list, i, t) = 1 .. Len(list) + 1
    BY <2>1, InsertedElements
  <2>3. \A k \in 1 .. Len(list) + 1 :
           Inserted(list, i, t)[k] =
              IF k <= i THEN list[k] ELSE IF k = i + 1 THEN t ELSE list[k - 1]
    BY <2>1, InsertedElements
  <2> QED
    BY <2>2, <2>3
<1>3. T(t) \in Nat /\ \A k \in 1 .. Len(list) : list[k] \in Timers /\ T(list[k]) \in Nat
  <2>1. T(t) \in Nat
    BY DEF Table, Fields
  <2> QED
    BY <1>1, <2>1, TimeoutType
<1>0. now \in Nat /\ mTimeoutAdjustment \in Int /\ Clock \in Int
  BY ClockType
<1>4. i > 0 => Clock >= T(list[i]) \/ T(list[i]) <= T(t)
  <2>1. i > 0 => now >= T(list[i]) + mTimeoutAdjustment \/ T(list[i]) <= T(t)
    BY DEF Places, LessThan
  <2>2. i > 0 => T(list[i]) \in Nat
    BY <1>1, <1>3
  <2> HIDE DEF T
  <2> QED
    BY <1>0, <2>1, <2>2 DEF Clock
<1>5. i < Len(list) => ~(Clock >= T(list[i + 1])) /\ ~(T(list[i + 1]) <= T(t))
  <2>1. i < Len(list) => /\ ~(now >= T(list[i + 1]) + mTimeoutAdjustment)
                         /\ ~(T(list[i + 1]) <= T(t))
    BY DEF Places, LessThan
  <2>2. i < Len(list) => T(list[i + 1]) \in Nat
    BY <1>1, <1>3
  <2> HIDE DEF T
  <2> QED
    BY <1>0, <2>1, <2>2 DEF Clock
<1>6. \A a, b \in 1 .. Len(list) : a < b => T(list[a]) <= T(list[b]) \/ T(list[a]) <= Clock
  BY <1>1 DEF SortedList
<1>7. \A u \in Timers : timers2[u].mTimeout = T(u)
  OBVIOUS
<1> HIDE DEF w, T
<1>8. ASSUME NEW a \in 1 .. Len(list), a <= i
      PROVE  T(list[a]) <= T(t) \/ T(list[a]) <= Clock
  <2>1. i \in 1 .. Len(list) /\ i > 0
    BY <1>1, <1>8
  <2>2. T(list[a]) \in Nat /\ T(list[i]) \in Nat
    BY <1>3, <2>1
  <2>3. CASE a = i
    BY <1>0, <1>4, <2>1, <2>2, <2>3
  <2>4. CASE a < i
    BY <1>0, <1>3, <1>4, <1>6, <2>1, <2>2, <2>4
  <2> QED
    BY <1>1, <1>8, <2>3, <2>4
<1>9. ASSUME NEW b \in 1 .. Len(list), i < b
      PROVE  T(t) <= T(list[b])
  <2>1. i + 1 \in 1 .. Len(list) /\ i < Len(list)
    BY <1>1, <1>9
  <2>2. T(list[i + 1]) \in Nat /\ T(list[b]) \in Nat /\ T(t) \in Nat
    BY <1>3, <2>1
  <2>3. CASE b = i + 1
    BY <1>0, <1>5, <2>1, <2>2, <2>3
  <2>4. CASE i + 1 < b
    <3>1. T(list[i + 1]) <= T(list[b]) \/ T(list[i + 1]) <= Clock
      BY <1>6, <2>1, <2>4
    <3> QED
      BY <1>0, <1>5, <2>1, <2>2, <3>1
  <2> QED
    BY <1>1, <1>9, <2>3, <2>4
<1>10. ASSUME NEW k \in 1 .. Len(list) + 1
       PROVE  \/ k <= i /\ k \in 1 .. Len(list) /\ w[k] = list[k]
              \/ k = i + 1 /\ w[k] = t
              \/ k > i + 1 /\ k - 1 \in 1 .. Len(list) /\ k - 1 > i /\ w[k] = list[k - 1]
  BY <1>1, <1>2
<1>11. ASSUME NEW k \in DOMAIN w, NEW m \in DOMAIN w, k < m
       PROVE  timers2[w[k]].mTimeout <= timers2[w[m]].mTimeout \/ timers2[w[k]].mTimeout <= Clock
  <2>1. k \in 1 .. Len(list) + 1 /\ m \in 1 .. Len(list) + 1
    BY <1>2
  <2>2. \/ k <= i /\ k \in 1 .. Len(list) /\ w[k] = list[k]
        \/ k = i + 1 /\ w[k] = t
        \/ k > i + 1 /\ k - 1 \in 1 .. Len(list) /\ k - 1 > i /\ w[k] = list[k - 1]
    BY <1>10, <2>1
  <2>3. \/ m <= i /\ m \in 1 .. Len(list) /\ w[m] = list[m]
        \/ m = i + 1 /\ w[m] = t
        \/ m > i + 1 /\ m - 1 \in 1 .. Len(list) /\ m - 1 > i /\ w[m] = list[m - 1]
    BY <1>10, <2>1
  <2>4. T(w[k]) <= T(w[m]) \/ T(w[k]) <= Clock
    <3>1. CASE k <= i /\ k \in 1 .. Len(list) /\ w[k] = list[k]
      <4>1. CASE m <= i /\ m \in 1 .. Len(list) /\ w[m] = list[m]
        BY <1>6, <1>11, <3>1, <4>1
      <4>2. CASE m = i + 1 /\ w[m] = t
        BY <1>8, <3>1, <4>2
      <4>3. CASE m > i + 1 /\ m - 1 \in 1 .. Len(list) /\ m - 1 > i /\ w[m] = list[m - 1]
        <5>1. k < m - 1
          BY <1>1, <2>1, <3>1, <4>3
        <5> QED
          BY <1>6, <3>1, <4>3, <5>1
      <4> QED
        BY <2>3, <4>1, <4>2, <4>3
    <3>2. CASE k = i + 1 /\ w[k] = t
      <4>1. m > i + 1 /\ m - 1 \in 1 .. Len(list) /\ m - 1 > i /\ w[m] = list[m - 1]
        BY <1>1, <1>11, <2>1, <2>3, <3>2
      <4>2. i < m - 1
        BY <1>1, <2>1, <4>1
      <4>3. T(t) <= T(list[m - 1])
        BY <1>9, <4>1, <4>2
      <4> QED
        BY <3>2, <4>1, <4>3
    <3>3. CASE k > i + 1 /\ k - 1 \in 1 .. Len(list) /\ k - 1 > i /\ w[k] = list[k - 1]
      <4>1. m > i + 1 /\ m - 1 \in 1 .. Len(list) /\ m - 1 > i /\ w[m] = list[m - 1]
        BY <1>1, <1>11, <2>1, <2>3, <3>3
      <4>2. k - 1 < m - 1
        BY <1>11, <2>1
      <4> QED
        BY <1>6, <3>3, <4>1, <4>2
    <3> QED
      BY <2>2, <3>1, <3>2, <3>3
  <2>5. w[k] \in Timers /\ w[m] \in Timers
    BY <1>3, <2>2, <2>3
  <2> QED
    BY <1>7, <2>4, <2>5
<1>12. ASSUME i # 0, WakesFor(list, timers, Clock, until), NEW k \in DOMAIN w
       PROVE  until <= Clock \/ until <= timers2[w[k]].mTimeout
  <2>1. \A a \in 1 .. Len(list) : until <= Clock \/ until <= T(list[a])
    BY <1>1, <1>12 DEF WakesFor, T
  <2>2. k \in 1 .. Len(list) + 1
    BY <1>2, <1>12
  <2>3. i \in 1 .. Len(list) /\ i > 0
    BY <1>1, <1>12
  <2>4. until <= Clock \/ until <= T(t)
    <3>1. T(list[i]) <= T(t) \/ T(list[i]) <= Clock
      BY <1>8, <2>3
    <3>2. T(list[i]) \in Nat
      BY <1>3, <2>3
    <3> QED
      BY <1>0, <1>3, <2>1, <2>3, <3>1, <3>2
  <2>5. until <= Clock \/ until <= T(w[k])
    BY <1>10, <2>1, <2>2, <2>4
  <2>6. w[k] \in Timers
    BY <1>3, <1>10, <2>2
  <2> QED
    BY <1>7, <2>5, <2>6
<1> QED
  BY <1>11, <1>12 DEF SortedList, WakesFor, w

\* Timely after a step that leaves a part of the list, with the same timeouts.
LEMMA TimelyPart ==
    ASSUME Counted, Counted', Timely, now <= now', UNCHANGED mTimeoutAdjustment,
           rewritten => rewritten',
           \A k, m \in DOMAIN mTimers' : k < m =>
              \E a, b \in DOMAIN mTimers :
                 a < b /\ mTimers[a] = mTimers'[k] /\ mTimers[b] = mTimers'[m],
           \A k \in DOMAIN mTimers' : \E a \in DOMAIN mTimers : mTimers[a] = mTimers'[k],
           ~rewritten' => \A k \in DOMAIN mTimers' :
                             timer'[mTimers'[k]].mTimeout = timer[mTimers'[k]].mTimeout,
           tpc' = tpc \/ tpc'.at # "waiting"
    PROVE  Timely'
<1> SUFFICES ASSUME ~rewritten'
             PROVE  /\ SortedList(mTimers', timer', Clock')
                    /\ tpc'.at = "waiting" => WakesFor(mTimers', timer', Clock', Deadline')
  BY DEF Timely
<1>1. /\ mTimers \in Seq(Timers) /\ mTimers' \in Seq(Timers)
      /\ timer \in Table /\ timer' \in Table
  BY DEF Counted, TypeOK, Table
<1>2. Clock \in Int /\ Clock' \in Int /\ Deadline \in Int /\ Clock <= Clock'
  <2>1. now' \in Nat
    BY BoundsAssumption DEF Counted, TypeOK
  <2> QED
    BY <2>1, ClockType, ClockGrows DEF Counted
<1>0. tpc' = tpc => Deadline' = Deadline
  BY DEF Deadline
<1>3. /\ SortedList(mTimers, timer, Clock)
      /\ tpc.at = "waiting" => WakesFor(mTimers, timer, Clock, Deadline)
  BY DEF Timely
<1>4. /\ SortedList(mTimers, timer, Clock) => SortedList(mTimers', timer', Clock')
      /\ WakesFor(mTimers, timer, Clock, Deadline) =>
            WakesFor(mTimers', timer', Clock', Deadline)
  BY <1>1, <1>2, SortedPart
<1> QED
  BY <1>0, <1>3, <1>4

\* In particular after a step that leaves the list alone.
LEMMA TimelySame ==
    ASSUME Counted, Counted', Timely, now <= now', rewritten => rewritten',
           UNCHANGED <<mTimers, mTimeoutAdjustment>>,
           ~rewritten' => \A k \in DOMAIN mTimers :
                             timer'[mTimers[k]].mTimeout = timer[mTimers[k]].mTimeout,
           tpc' = tpc \/ tpc'.at # "waiting"
    PROVE  Timely'
<1>1. \A k, m \in DOMAIN mTimers' : k < m =>
         \E a, b \in DOMAIN mTimers :
            a < b /\ mTimers[a] = mTimers'[k] /\ mTimers[b] = mTimers'[m]
  OBVIOUS
<1>2. \A k \in DOMAIN mTimers' : \E a \in DOMAIN mTimers : mTimers[a] = mTimers'[k]
  OBVIOUS
<1> QED
  BY <1>1, <1>2, TimelyPart

\* Release leaves the timeout of a listed timer alone: it does not delete it.
LEMMA ReleasedTimes ==
    ASSUME Counted, Counted', NEW t \in Timers, timer[t].mRefCnt > 0, timer' = Released(t),
           UNCHANGED mTimers
    PROVE  \A k \in DOMAIN mTimers : timer'[mTimers[k]].mTimeout = timer[mTimers[k]].mTimeout
<1> TAKE k \in DOMAIN mTimers
<1> DEFINE u == mTimers[k]
<1>1. TypeOK
  BY DEF Counted
<1>2. u \in Timers /\ mTimers \in Seq(Timers)
  BY <1>1, ElementOfSeq DEF TypeOK
<1>3. InList(mTimers, u)
  BY DEF InList
<1>4. Occurrences(u, mTimers) \in Nat /\ Occurrences(u, mTimers) > 0
  BY <1>2, <1>3, InListOccurs
<1>5. Occurrences(u, leaving') \in Nat
  <2>1. leaving' \in Seq(Timers)
    BY DEF Counted, TypeOK
  <2> QED
    BY <2>1, InListOccurs
<1> HIDE DEF u
<1>6. timer'[u].mRefCnt # 0
  <2>1. Counted' => Gone'
    BY GoneIsUnlisted, PTL
  <2> QED
    BY <1>2, <1>4, <1>5, <2>1 DEF Gone
<1>7. u # t \/ timer[t].mRefCnt > 1
  <2>1. ASSUME u = t, timer[t].mRefCnt = 1
        PROVE  FALSE
    <3>1. timer'[t] = Blank(0)
      BY <1>1, <2>1, ReleasedTable
    <3> QED
      BY <1>6, <2>1, <3>1, BlankType
  <2>2. timer[t].mRefCnt \in Nat
    BY <1>1, Parts
  <2> QED
    BY <2>1, <2>2
<1>8. timer'[u].mTimeout = timer[u].mTimeout
  BY <1>1, <1>2, <1>7, ReleasedTable
<1> QED
  BY <1>8 DEF u

\* So does RemoveTimer, for the timers that stay in the list.
LEMMA UnlistedTimes ==
    ASSUME Counted, NEW t \in Timers
    PROVE  \A k \in DOMAIN Removed(mTimers, t) :
              /\ Removed(mTimers, t)[k] \in Timers
              /\ Unlisted(mTimers, timer, t)[Removed(mTimers, t)[k]].mTimeout
                    = timer[Removed(mTimers, t)[k]].mTimeout
<1> DEFINE list == Removed(mTimers, t)
<1>1. TypeOK /\ Exact
  BY DEF Counted
<1>2. list \in Seq(Timers) /\ mTimers \in Seq(Timers)
  BY <1>1, UnlistedEffect DEF TypeOK
<1>3. \A u : Occurrences(u, list) = Occurrences(u, mTimers) - Holds(u = t /\ InList(mTimers, t))
  BY <1>1, UnlistedEffect
<1> HIDE DEF list
<1>4. ASSUME NEW k \in DOMAIN list
      PROVE  /\ list[k] \in Timers
             /\ Unlisted(mTimers, timer, t)[list[k]].mTimeout = timer[list[k]].mTimeout
  <2> DEFINE u == list[k]
  <2>1. u \in Timers
    BY <1>2, ElementOfSeq
  <2>2. InList(list, u)
    BY DEF InList
  <2>3. Occurrences(u, list) \in Nat /\ Occurrences(u, list) > 0
    BY <1>2, <2>2, InListOccurs
  <2> HIDE DEF u
  <2>4. u # t \/ ~InList(mTimers, t) \/ timer[t].mRefCnt > 1
    <3> SUFFICES ASSUME u = t, InList(mTimers, t)
                 PROVE  timer[t].mRefCnt > 1
      OBVIOUS
    <3>1. Occurrences(t, list) = Occurrences(t, mTimers) - 1
      BY <1>3 DEF Holds
    <3>2. timer[t].mRefCnt >= Holds(t \in held) + Occurrences(t, mTimers)
                                + Occurrences(t, leaving)
                                + Holds(cur = t /\ tpc.at # "unlist")
                                + Occurrences(t, Queued) + Holds(firing = t)
                                + Holds(call.op = "releasing" /\ call.timer = t)
      BY <1>1, Referenced
    <3>3. /\ Occurrences(t, mTimers) \in Nat /\ Occurrences(t, leaving) \in Nat
          /\ Occurrences(t, Queued) \in Nat /\ timer[t].mRefCnt \in Nat
      BY <1>1, Parts
    <3> QED
      BY <2>3, <3>1, <3>2, <3>3 DEF Holds
  <2>5. Unlisted(mTimers, timer, t)[u].mTimeout = timer[u].mTimeout
    BY <1>1, <2>1, <2>4, UnlistedFields
  <2> QED
    BY <2>1, <2>5 DEF u
<1> QED
  BY <1>4 DEF list

\* Timely after a step that takes a timer out of the list.
LEMMA TimelyRemoved ==
    ASSUME Counted, Counted', Timely, NEW t \in Timers,
           UNCHANGED <<now, mTimeoutAdjustment>>, rewritten => rewritten',
           mTimers' = Removed(mTimers, t),
           ~rewritten' => \A k \in DOMAIN mTimers' :
                             timer'[mTimers'[k]].mTimeout =
                                Unlisted(mTimers, timer, t)[mTimers'[k]].mTimeout,
           tpc' = tpc \/ tpc'.at # "waiting"
    PROVE  Timely'
<1>1. TypeOK /\ mTimers \in Seq(Timers) /\ now \in Nat
  BY BoundsAssumption DEF Counted, TypeOK
<1>2. /\ \A k, m \in DOMAIN mTimers' : k < m =>
            \E a, b \in DOMAIN mTimers :
               a < b /\ mTimers[a] = mTimers'[k] /\ mTimers[b] = mTimers'[m]
      /\ \A k \in DOMAIN mTimers' : \E a \in DOMAIN mTimers : mTimers[a] = mTimers'[k]
  BY <1>1, RemovedElements
<1>3. \A k \in DOMAIN mTimers' :
         Unlisted(mTimers, timer, t)[mTimers'[k]].mTimeout = timer[mTimers'[k]].mTimeout
  BY UnlistedTimes
<1>4. now <= now'
  BY <1>1
<1> QED
  BY <1>2, <1>3, <1>4, TimelyPart

\* Timely after AddTimer.
LEMMA TimelyAdded ==
    ASSUME Counted, NEW list \in Seq(Timers), NEW timers \in Table, NEW t \in Timers,
           AddTimer(list, timers, t), UNCHANGED <<now, mTimeoutAdjustment>>,
           ~rewritten' =>
              /\ SortedList(list, timers, Clock)
              /\ tpc.at = "waiting" => WakesFor(list, timers, Clock, Deadline)
    PROVE  Timely'
<1> SUFFICES ASSUME ~rewritten'
             PROVE  /\ SortedList(mTimers', timer', Clock')
                    /\ tpc'.at = "waiting" => WakesFor(mTimers', timer', Clock', Deadline')
  BY DEF Timely
<1>1. TypeOK /\ Deadline \in Int
  BY ClockType DEF Counted
<1>0. Clock' = Clock /\ (tpc' = tpc => Deadline' = Deadline)
  BY ClockSame
<1>2. CASE mShutdown
  BY <1>0, <1>2 DEF AddTimer
<1>3. CASE ~mShutdown
  <2>1. PICK i \in Places(list, timers, t) :
           /\ mTimers' = Inserted(list, i, t)
           /\ timer' = Armed(timers, t)
           /\ tpc' = IF i = 0 THEN Notified ELSE tpc
    BY <1>3, Zenon DEF AddTimer
  <2>2. timer' \in Table /\ \A u \in Timers : timer'[u].mTimeout = timers[u].mTimeout
    BY <2>1, ArmedTable
  <2>3. /\ SortedList(mTimers', timer', Clock)
        /\ i # 0 /\ WakesFor(list, timers, Clock, Deadline) =>
              WakesFor(mTimers', timer', Clock, Deadline)
    BY <1>1, <2>1, <2>2, SortedInserted
  <2>4. CASE i = 0
    <3>1. tpc'.at # "waiting"
      BY <2>1, <2>4 DEF Notified, At
    <3> QED
      BY <1>0, <2>3, <3>1
  <2>5. CASE i # 0
    <3>1. tpc' = tpc
      BY <2>1, <2>5
    <3> QED
      BY <1>0, <2>3, <2>5, <3>1
  <2> QED
    BY <2>4, <2>5
<1> QED
  BY <1>2, <1>3

\* The timer thread waits for the first timer, which is in time for all of them; it
\* takes the first one out, and puts a precise one back at its place.
LEMMA TimelyTimerStep == Counted /\ Counted' /\ Timely /\ TimerStep => Timely'
<1> SUFFICES ASSUME Counted, Counted', Timely, TimerStep
             PROVE  Timely'
  OBVIOUS
<1>1. TypeOK /\ Exact /\ Control
  BY DEF Counted
<1>2. /\ mTimers \in Seq(Timers) /\ timer \in Table /\ now \in Nat /\ Clock \in Int
      /\ mTimeoutAdjustment \in Int
  BY <1>1, Parts, ClockType DEF TypeOK
<1>3. /\ UNCHANGED <<now, mTimeoutAdjustment>> /\ now <= now'
      /\ Clock' = Clock /\ (tpc' = tpc => Deadline' = Deadline)
  <2>1. UNCHANGED <<now, mTimeoutAdjustment>>
    BY DEF TimerStep, Top, Again, WaitExpires, MakeEvent, Rearm, DispatchEvent,
           DispatchRefused, DropTimer, DropUnlists
  <2> QED
    BY <1>2, <2>1, ClockSame
<1>4. CASE Top \/ Again
  <2>1. UNCHANGED rewritten
    BY <1>1, <1>4, TopEffect DEF counts
  <2>2. CASE UNCHANGED <<mTimers, timer>> /\ tpc'.at = "done"
    BY <1>3, <2>1, <2>2, TimelySame
  <2>3. CASE /\ UNCHANGED <<mTimers, timer>>
             /\ \/ tpc'.until = now
                \/ mTimers = <<>>
                \/ mTimers # <<>> /\ tpc'.until = timer[mTimers[1]].mTimeout + mTimeoutAdjustment
    <3> SUFFICES ASSUME ~rewritten
                 PROVE  /\ SortedList(mTimers, timer, Clock)
                        /\ WakesFor(mTimers, timer, Clock, Deadline')
      BY <1>3, <2>1, <2>3 DEF Timely
    <3>1. SortedList(mTimers, timer, Clock)
      BY DEF Timely
    <3>2. ASSUME NEW j \in DOMAIN mTimers
          PROVE  Deadline' <= Clock \/ Deadline' <= timer[mTimers[j]].mTimeout
      <4>1. DOMAIN mTimers = 1 .. Len(mTimers) /\ Len(mTimers) \in Nat
            /\ \A k \in DOMAIN mTimers : timer[mTimers[k]].mTimeout \in Nat
        BY <1>2, LenProperties, TimeoutType
      <4>2. 1 \in DOMAIN mTimers /\ mTimers # <<>>
        BY <4>1
      <4>3. CASE tpc'.until = now
        <5>1. Deadline' = Clock
          BY <1>3, <4>3 DEF Deadline, Clock
        <5> QED
          BY <1>2, <5>1
      <4>4. CASE tpc'.until = timer[mTimers[1]].mTimeout + mTimeoutAdjustment
        <5>0. Deadline' = timer[mTimers[1]].mTimeout
          BY <1>2, <1>3, <4>1, <4>2, <4>4 DEF Deadline
        <5>1. CASE j = 1
          BY <4>1, <4>2, <5>0, <5>1
        <5>2. CASE 1 < j
          BY <3>1, <4>2, <5>0, <5>2 DEF SortedList
        <5> QED
          BY <4>1, <5>1, <5>2
      <4> QED
        BY <2>3, <4>2, <4>3, <4>4
    <3> QED
      BY <3>1, <3>2 DEF WakesFor
  <2>4. CASE mTimers # <<>> /\ Pops
    <3>1. /\ mTimers' = Tail(mTimers) /\ tpc'.at # "waiting"
          /\ \A u \in Timers : timer'[u].mTimeout = timer[u].mTimeout
      BY <1>1, <2>4, PopsEffect
    <3>2. /\ Len(mTimers) \in Nat /\ DOMAIN mTimers = 1 .. Len(mTimers)
          /\ Len(mTimers') = Len(mTimers) - 1 /\ mTimers' \in Seq(Timers)
          /\ \A k \in 1 .. Len(mTimers') : mTimers'[k] = mTimers[k + 1]
      BY <1>2, <2>4, <3>1, HeadTailProperties, LenProperties
    <3>3. DOMAIN mTimers' = 1 .. Len(mTimers')
      BY <3>2, LenProperties
    <3>4. ASSUME NEW k \in DOMAIN mTimers'
          PROVE  /\ k \in Nat /\ k + 1 \in DOMAIN mTimers
                 /\ mTimers[k + 1] = mTimers'[k] /\ mTimers'[k] \in Timers
      <4>1. k \in 1 .. Len(mTimers')
        BY <3>3
      <4>2. mTimers'[k] \in Timers
        BY <3>2, <4>1, ElementOfSeq
      <4> QED
        BY <3>2, <4>1, <4>2
    <3>5. ASSUME NEW k \in DOMAIN mTimers', NEW m \in DOMAIN mTimers', k < m
          PROVE  \E a, b \in DOMAIN mTimers :
                    a < b /\ mTimers[a] = mTimers'[k] /\ mTimers[b] = mTimers'[m]
      <4>1. k + 1 < m + 1
        BY <3>4, <3>5
      <4> QED
        BY <3>4, <4>1
    <3>6. \A k \in DOMAIN mTimers' : \E a \in DOMAIN mTimers : mTimers[a] = mTimers'[k]
      BY <3>4
    <3>7. \A k \in DOMAIN mTimers' : timer'[mTimers'[k]].mTimeout = timer[mTimers'[k]].mTimeout
      BY <3>1, <3>4
    <3> QED
      BY <1>3, <2>1, <3>1, <3>5, <3>6, <3>7, TimelyPart
  <2> QED
    BY <1>1, <1>4, <2>2, <2>3, <2>4, TopEffect
<1>5. CASE MakeEvent
  <2>1. /\ tpc'.at # "waiting" /\ (rewritten => rewritten')
        /\ \A u \in Timers :
              timer'[u].mTimeout = timer[u].mTimeout \/ (~rewritten' => ~InList(mTimers, u))
    <3>1. tpc'.at \in {"rearm", "dispatch"}
      BY <1>5, MakeEventEffect
    <3> QED
      BY <1>5, <3>1, MakeEventEffect
  <2>2. ~rewritten' => \A k \in DOMAIN mTimers :
                          timer'[mTimers[k]].mTimeout = timer[mTimers[k]].mTimeout
    <3> SUFFICES ASSUME ~rewritten', NEW k \in DOMAIN mTimers
                 PROVE  timer'[mTimers[k]].mTimeout = timer[mTimers[k]].mTimeout
      OBVIOUS
    <3>1. mTimers[k] \in Timers /\ InList(mTimers, mTimers[k])
      BY <1>2, ElementOfSeq DEF InList
    <3> QED
      BY <2>1, <3>1
  <2>3. UNCHANGED mTimers
    BY <1>5 DEF MakeEvent
  <2> QED
    BY <1>3, <2>1, <2>2, <2>3, TimelySame
<1>6. CASE Rearm
  <2>1. cur \in Timers /\ UNCHANGED rewritten /\ tpc'.at # "waiting"
    BY <1>1, <1>6 DEF Rearm, Control, TypeOK, counts, At
  <2>2. CASE mShutdown
    BY <1>3, <1>6, <2>1, <2>2, TimelySame DEF Rearm
  <2>3. CASE ~mShutdown
    <3>1. PICK i \in Places(mTimers, timer, cur) :
             /\ mTimers' = Inserted(mTimers, i, cur)
             /\ timer' = Armed(timer, cur)
      BY <1>6, <2>3, Zenon DEF Rearm
    <3>2. timer' \in Table /\ \A u \in Timers : timer'[u].mTimeout = timer[u].mTimeout
      BY <1>2, <2>1, <3>1, ArmedTable
    <3>3. SortedList(mTimers, timer, Clock) => SortedList(mTimers', timer', Clock)
      BY <1>1, <1>2, <2>1, <3>1, <3>2, SortedInserted
    <3> QED
      BY <1>3, <2>1, <3>3 DEF Timely
  <2> QED
    BY <2>2, <2>3
<1>7. CASE WaitExpires \/ DispatchEvent
  <2>1. UNCHANGED <<mTimers, timer, rewritten>> /\ tpc'.at # "waiting"
    BY <1>7 DEF WaitExpires, DispatchEvent, counts, At
  <2> QED
    BY <1>3, <2>1, TimelySame
<1>8. CASE DispatchRefused \/ DropUnlists
  <2>1. /\ cur \in Timers /\ UNCHANGED rewritten /\ tpc'.at # "waiting"
        /\ mTimers' = Removed(mTimers, cur) /\ timer' = Unlisted(mTimers, timer, cur)
    BY <1>1, <1>8 DEF DispatchRefused, DropUnlists, Control, TypeOK, counts, At
  <2> QED
    BY <1>3, <2>1, TimelyRemoved
<1>9. CASE DropTimer
  <2>1. /\ cur \in Timers /\ UNCHANGED <<mTimers, rewritten>> /\ tpc'.at # "waiting"
        /\ timer' = Released(cur) /\ tpc.at = "drop"
    BY <1>1, <1>9 DEF DropTimer, Control, TypeOK, counts, At
  <2>2. timer[cur].mRefCnt > 0
    <3>1. timer[cur].mRefCnt = References(cur)
      BY <1>1, <2>1 DEF Exact
    <3> QED
      BY <1>1, <2>1, <3>1, Parts DEF References, Holds
  <2> QED
    BY <1>3, <2>1, <2>2, ReleasedTimes, TimelySame
<1> QED
  BY <1>4, <1>5, <1>6, <1>7, <1>8, <1>9 DEF TimerStep

\* The owner adds a timer at its place, and notifies if that is the first.
LEMMA TimelyAdds ==
    Counted /\ Counted' /\ Timely /\ (FinishInit \/ TimerDelayChanged \/ EndFire) => Timely'
<1> SUFFICES ASSUME Counted, Counted', Timely, FinishInit \/ TimerDelayChanged \/ EndFire
             PROVE  Timely'
  OBVIOUS
<1>1. TypeOK /\ Exact /\ Control
  BY DEF Counted
<1>2. /\ mTimers \in Seq(Timers) /\ timer \in Table /\ now \in Nat /\ Clock \in Int
      /\ Deadline \in Int
  BY <1>1, Parts, ClockType DEF TypeOK
<1>3. UNCHANGED <<now, mTimeoutAdjustment>> /\ now <= now'
  BY <1>2 DEF FinishInit, TimerDelayChanged, EndFire
<1>4. ~rewritten => /\ SortedList(mTimers, timer, Clock)
                    /\ tpc.at = "waiting" => WakesFor(mTimers, timer, Clock, Deadline)
  BY DEF Timely
<1>5. CASE FinishInit
  <2>1. /\ call.timer \in Timers /\ AddTimer(mTimers, timer, call.timer)
        /\ UNCHANGED rewritten
    BY <1>1, <1>5 DEF FinishInit, Control, counts
  <2> QED
    BY <1>2, <1>3, <1>4, <2>1, TimelyAdded
<1>6. CASE TimerDelayChanged
  <2> DEFINE t == call.timer
             list == Removed(mTimers, t)
             timers == Unlisted(mTimers, timer, t)
  <2>1. /\ t \in Timers /\ AddTimer(list, timers, t) /\ UNCHANGED rewritten
    BY <1>1, <1>6 DEF TimerDelayChanged, Control, counts
  <2>2. list \in Seq(Timers) /\ timers \in Table
    BY <1>1, <2>1, UnlistedEffect
  <2> HIDE DEF t
  <2>3. /\ \A k, m \in DOMAIN list : k < m =>
              \E a, b \in DOMAIN mTimers :
                 a < b /\ mTimers[a] = list[k] /\ mTimers[b] = list[m]
        /\ \A k \in DOMAIN list : \E a \in DOMAIN mTimers : mTimers[a] = list[k]
    BY <1>2, RemovedElements
  <2>4. \A k \in DOMAIN list : timers[list[k]].mTimeout = timer[list[k]].mTimeout
    BY <2>1, UnlistedTimes
  <2> HIDE DEF list, timers
  <2>5. Clock <= Clock
    BY <1>2
  <2>6. /\ SortedList(mTimers, timer, Clock) => SortedList(list, timers, Clock)
        /\ WakesFor(mTimers, timer, Clock, Deadline) => WakesFor(list, timers, Clock, Deadline)
    BY <1>2, <2>2, <2>3, <2>4, <2>5, SortedPart
  <2> QED
    BY <1>3, <1>4, <2>1, <2>2, <2>6, TimelyAdded
<1>7. CASE EndFire
  <2>1. firing \in Timers /\ (rewritten => rewritten')
    BY <1>1, <1>7, EndFireEffect
  <2>2. PICK timers \in Table :
           /\ \A u \in Timers : \/ timers[u].mTimeout = timer[u].mTimeout
                                \/ ~rewritten' => ~InList(mTimers, u)
           /\ \/ timer' = timers /\ UNCHANGED <<mTimers, tpc>>
              \/ AddTimer(mTimers, timers, firing)
    BY <1>1, <1>7, EndFireEffect
  <2>3. ~rewritten' => \A k \in DOMAIN mTimers :
                          timers[mTimers[k]].mTimeout = timer[mTimers[k]].mTimeout
    <3> SUFFICES ASSUME ~rewritten', NEW k \in DOMAIN mTimers
                 PROVE  timers[mTimers[k]].mTimeout = timer[mTimers[k]].mTimeout
      OBVIOUS
    <3>1. mTimers[k] \in Timers /\ InList(mTimers, mTimers[k])
      BY <1>2, ElementOfSeq DEF InList
    <3> QED
      BY <2>2, <3>1
  <2>4. CASE timer' = timers /\ UNCHANGED <<mTimers, tpc>>
    BY <1>3, <2>1, <2>3, <2>4, TimelySame
  <2>5. CASE AddTimer(mTimers, timers, firing)
    <3>1. ~rewritten' => /\ SortedList(mTimers, timers, Clock)
                         /\ tpc.at = "waiting" => WakesFor(mTimers, timers, Clock, Deadline)
      <4> SUFFICES ASSUME ~rewritten'
                   PROVE  /\ SortedList(mTimers, timers, Clock)
                          /\ tpc.at = "waiting" => WakesFor(mTimers, timers, Clock, Deadline)
        OBVIOUS
      <4>1. \A k \in DOMAIN mTimers :
               timers[mTimers[k]].mTimeout = timer[mTimers[k]].mTimeout
        BY <2>3
      <4> QED
        BY <1>4, <2>1, <4>1 DEF SortedList, WakesFor
    <3> QED
      BY <1>2, <1>3, <2>1, <2>5, <3>1, TimelyAdded
  <2> QED
    BY <2>2, <2>4, <2>5
<1> QED
  BY <1>5, <1>6, <1>7

\* The other steps of the owner, and the clock.
LEMMA TimelyRest ==
    ASSUME Counted, Counted', Shut, Timely,
           \/ ReleaseFired \/ RemoveTimer \/ RunEvent \/ ResetNext
           \/ BeginShutdown \/ ShutdownReleases
           \/ Tick \/ BeginAfterSleep \/ EndAfterSleep \/ DoBeforeSleep \/ WakesUnslept
           \/ EndShutdown \/ UNCHANGED vars
    PROVE  Timely'
<1>1. TypeOK /\ Exact /\ Control
  BY DEF Counted
<1>2. mTimers \in Seq(Timers) /\ timer \in Table /\ now \in Nat /\ now <= now
  BY <1>1, Parts, BoundsAssumption DEF TypeOK
<1>3. CASE ReleaseFired
  <2> DEFINE t == call.timer
  <2>1. /\ call.op = "releasing" /\ t \in Timers /\ Releases(t)
        /\ UNCHANGED <<now, mTimers, mTimeoutAdjustment, tpc, rewritten>>
    BY <1>1, <1>3 DEF ReleaseFired, Control, timerThread, counts
  <2>2. timer[t].mRefCnt > 0
    <3>1. timer[t].mRefCnt = References(t)
      BY <1>1, <2>1 DEF Exact
    <3> QED
      BY <1>1, <2>1, <3>1, Parts DEF References, Holds
  <2> HIDE DEF t
  <2>3. timer' = Released(t)
    BY <2>1 DEF Releases
  <2> QED
    BY <1>2, <2>1, <2>2, <2>3, ReleasedTimes, TimelySame
<1>4. CASE RemoveTimer
  <2> DEFINE t == call.timer
  <2>1. /\ t \in Timers /\ mTimers' = Removed(mTimers, t)
        /\ timer' = Unlisted(mTimers, timer, t)
        /\ tpc' \in {tpc, Notified} /\ UNCHANGED <<now, mTimeoutAdjustment, rewritten>>
    BY <1>1, <1>4 DEF RemoveTimer, Control, counts
  <2> HIDE DEF t
  <2>2. tpc' = tpc \/ tpc'.at # "waiting"
    BY <2>1 DEF Notified, At
  <2> QED
    BY <2>1, <2>2, TimelyRemoved
<1>5. CASE RunEvent
  <2>1. PICK t \in Timers :
           /\ UNCHANGED <<now, mTimers, timerThread>>
           /\ ~rewritten' => ~rewritten /\ (mTimers = <<>> \/ UNCHANGED mTimeoutAdjustment)
           /\ \/ \A u \in Timers : timer'[u].mTimeout = timer[u].mTimeout
              \/ Releases(t) /\ timer[t].mRefCnt > 0
    BY <1>5, RunEventEffect
  <2>2. UNCHANGED tpc
    BY <2>1 DEF timerThread
  <2>3. \A k \in DOMAIN mTimers : timer'[mTimers[k]].mTimeout = timer[mTimers[k]].mTimeout
    <3>1. CASE \A u \in Timers : timer'[u].mTimeout = timer[u].mTimeout
      BY <1>2, <3>1, ElementOfSeq
    <3>2. CASE Releases(t) /\ timer[t].mRefCnt > 0
      <4>1. timer' = Released(t)
        BY <3>2 DEF Releases
      <4> QED
        BY <2>1, <3>2, <4>1, ReleasedTimes
    <3> QED
      BY <2>1, <3>1, <3>2
  <2>4. CASE rewritten'
    BY <2>4 DEF Timely
  <2>5. CASE mTimers = <<>>
    BY <2>1, <2>5, TimelyEmpty
  <2>6. CASE ~rewritten' /\ UNCHANGED mTimeoutAdjustment
    BY <1>2, <2>1, <2>2, <2>3, <2>6, TimelySame
  <2> QED
    BY <2>1, <2>4, <2>5, <2>6
<1>6. CASE ResetNext
  <2> DEFINE t == mTimers[index]
  <2>1. UNCHANGED <<now, mTimers, mTimeoutAdjustment, tpc>>
    BY <1>6 DEF ResetNext, timerThread
  <2>2. t \in Timers /\ InList(mTimers, t)
    <3>1. index \in 1 .. Len(mTimers)
      BY <1>1, <1>6 DEF ResetNext, TypeOK
    <3> QED
      BY <1>2, <3>1, ElementOfSeq, LenProperties DEF InList
  <2>3. timer[t].mDelay \in Delays \cup {0}
    BY <1>1, <2>2, Parts DEF Fields
  <2>4. DelayWritten(t, timer[t].mDelay) \/ UNCHANGED <<timer, rewritten>>
    BY <1>6 DEF ResetNext
  <2> HIDE DEF t
  <2>5. CASE DelayWritten(t, timer[t].mDelay)
    <3>1. rewritten'
      BY <1>1, <2>2, <2>3, <2>5, DelayWrittenTable
    <3> QED
      BY <3>1 DEF Timely
  <2>6. CASE UNCHANGED <<timer, rewritten>>
    BY <1>2, <2>1, <2>6, TimelySame
  <2> QED
    BY <2>4, <2>5, <2>6
<1>7. CASE BeginShutdown
  BY <1>7, TimelyEmpty DEF BeginShutdown
<1>8. CASE ShutdownReleases
  <2>1. UNCHANGED mTimers /\ mTimers = <<>>
    BY <1>8 DEF ShutdownReleases, Shut
  <2> QED
    BY <2>1, TimelyEmpty
<1>9. CASE Tick
  <2>1. UNCHANGED <<mTimers, mTimeoutAdjustment, timer, tpc, rewritten>> /\ now' = now + 1
    BY <1>9 DEF Tick, timerThread, counts
  <2>2. now <= now'
    BY <1>2, <2>1
  <2> QED
    BY <2>1, <2>2, TimelySame
<1>11. CASE EndAfterSleep
  <2>1. /\ UNCHANGED <<now, mTimers, timer, tpc>>
        /\ ~rewritten' => ~rewritten /\ (mTimers = <<>> \/ UNCHANGED mTimeoutAdjustment)
    BY <1>11 DEF EndAfterSleep, Readjusts, timerThread
  <2>2. CASE rewritten'
    BY <2>2 DEF Timely
  <2>3. CASE mTimers = <<>>
    BY <2>1, <2>3, TimelyEmpty
  <2>4. CASE ~rewritten' /\ UNCHANGED mTimeoutAdjustment
    BY <1>2, <2>1, <2>4, TimelySame
  <2> QED
    BY <2>1, <2>2, <2>3, <2>4
<1>10. CASE \/ BeginAfterSleep \/ DoBeforeSleep \/ WakesUnslept
            \/ EndShutdown \/ UNCHANGED vars
  <2>1. UNCHANGED <<now, mTimers, mTimeoutAdjustment, timer, tpc, rewritten>>
    BY <1>10 DEF BeginAfterSleep, DoBeforeSleep, WakesUnslept, EndShutdown,
                 vars, timerThread, counts
  <2> QED
    BY <1>2, <2>1, TimelySame
<1> QED
  BY <1>3, <1>4, <1>5, <1>6, <1>7, <1>8, <1>9, <1>10, <1>11

\* The calls of the owner on timers.
LEMMA TimelyOwnerCalls ==
    ASSUME Counted, Counted', Timely, NEW t \in Timers,
           \/ \E type \in Types, delay \in Delays : BeginInit(t, type, delay)
           \/ \E delay \in Delays : SetDelay(t, delay)
           \/ Cancel(t)
           \/ LetGo(t)
    PROVE  Timely'
<1>1. TypeOK /\ Exact
  BY DEF Counted
<1>2. mTimers \in Seq(Timers) /\ timer \in Table /\ now \in Nat /\ now <= now
  BY <1>1, Parts, BoundsAssumption DEF TypeOK
<1>3. ASSUME NEW type \in Types, NEW delay \in Delays, BeginInit(t, type, delay)
      PROVE  Timely'
  <2>1. /\ mTimers' = LeftList(t)
        /\ \A u \in Timers : u # t => timer'[u] = LeftTimers(t)[u]
        /\ tpc' \in {tpc, Notified}
        /\ rewritten' <=> rewritten \/ InList(mTimers', t)
    BY <1>3, BeginInitEffect
  <2>2. UNCHANGED <<now, mTimeoutAdjustment>> /\ (tpc' = tpc \/ tpc'.at # "waiting")
    BY <1>3, <2>1 DEF BeginInit, Notified, At
  <2>3. mTimers' \in Seq(Timers)
    BY DEF Counted, TypeOK
  <2>4. ~rewritten' => \A k \in DOMAIN mTimers' :
                          timer'[mTimers'[k]].mTimeout = LeftTimers(t)[mTimers'[k]].mTimeout
    <3> SUFFICES ASSUME ~rewritten', NEW k \in DOMAIN mTimers'
                 PROVE  timer'[mTimers'[k]].mTimeout = LeftTimers(t)[mTimers'[k]].mTimeout
      OBVIOUS
    <3>1. mTimers'[k] \in Timers
      BY <2>3, ElementOfSeq
    <3>2. mTimers'[k] # t
      BY <2>1 DEF InList
    <3> QED
      BY <2>1, <3>1, <3>2
  <2>5. CASE timer[t].mArmed
    <3>1. LeftList(t) = Removed(mTimers, t) /\ LeftTimers(t) = Unlisted(mTimers, timer, t)
      BY <2>5 DEF LeftList, LeftTimers
    <3> QED
      BY <2>1, <2>2, <2>4, <3>1, TimelyRemoved
  <2>6. CASE ~timer[t].mArmed
    <3>1. LeftList(t) = mTimers /\ LeftTimers(t) = timer
      BY <2>6 DEF LeftList, LeftTimers
    <3> QED
      BY <1>2, <2>1, <2>2, <2>4, <3>1, TimelySame
  <2> QED
    BY <2>5, <2>6
<1>4. ASSUME NEW delay \in Delays, SetDelay(t, delay)
      PROVE  Timely'
  <2>1. UNCHANGED <<now, mTimers, mTimeoutAdjustment, tpc>>
    BY <1>4 DEF SetDelay, timerThread
  <2>2. /\ \A u \in Timers : u # t => timer'[u] = timer[u]
        /\ rewritten' <=> rewritten \/ InList(mTimers, t)
    BY <1>1, <1>4, DelayWrittenTable DEF SetDelay
  <2>3. ~rewritten' => \A k \in DOMAIN mTimers :
                          timer'[mTimers[k]].mTimeout = timer[mTimers[k]].mTimeout
    <3> SUFFICES ASSUME ~rewritten', NEW k \in DOMAIN mTimers
                 PROVE  timer'[mTimers[k]].mTimeout = timer[mTimers[k]].mTimeout
      OBVIOUS
    <3>1. mTimers[k] \in Timers
      BY <1>2, ElementOfSeq
    <3>2. mTimers[k] # t
      BY <2>2 DEF InList
    <3> QED
      BY <2>2, <3>1, <3>2
  <2> QED
    BY <1>2, <2>1, <2>2, <2>3, TimelySame
<1>5. CASE Cancel(t)
  <2>1. /\ mTimers' = Removed(mTimers, t)
        /\ tpc' \in {tpc, Notified}
        /\ UNCHANGED <<now, mTimeoutAdjustment, counts>>
        /\ \A u \in Timers : timer'[u].mTimeout = Unlisted(mTimers, timer, t)[u].mTimeout
    BY <1>5, CancelEffect
  <2>2. UNCHANGED rewritten /\ (tpc' = tpc \/ tpc'.at # "waiting")
    BY <2>1 DEF Notified, At, counts
  <2>3. \A k \in DOMAIN mTimers' :
           timer'[mTimers'[k]].mTimeout = Unlisted(mTimers, timer, t)[mTimers'[k]].mTimeout
    BY <2>1, UnlistedTimes
  <2> QED
    BY <2>1, <2>2, <2>3, TimelyRemoved
<1>6. CASE LetGo(t)
  <2>1. t \in held /\ timer' = Released(t) /\ UNCHANGED <<now, mTimers, mTimeoutAdjustment,
                                                          tpc, rewritten>>
    BY <1>6 DEF LetGo, Releases, timerThread, counts
  <2>2. timer[t].mRefCnt > 0
    <3>1. timer[t].mRefCnt = References(t)
      BY <1>1 DEF Exact
    <3> QED
      BY <1>1, <2>1, <3>1, Parts DEF References, Holds
  <2> QED
    BY <1>2, <2>1, <2>2, ReleasedTimes, TimelySame
<1> QED
  BY <1>3, <1>4, <1>5, <1>6

\* Every step keeps Timely.
LEMMA TimelyStep == Counted /\ Counted' /\ Shut /\ Timely /\ [Next]_vars => Timely'
  BY TimelyTimerStep, TimelyAdds, TimelyRest, TimelyOwnerCalls DEF Next, OwnerStep, OwnerCalls

\* While the timer thread waits, its wait is over before any listed timer is due,
\* although AddTimer notifies it only when it inserts in front, and RemoveTimer, Cancel
\* and Init take timers out of the middle of the list.
THEOREM TheThreadWakesInTime == Spec => []SleepsInTime
<1>1. Init => Timely
  BY DEF Init, Timely, SortedList, At
<1>2. Counted /\ Timely => SleepsInTime
  <2> SUFFICES ASSUME Counted, Timely, tpc.at = "waiting", ~rewritten, NEW i \in DOMAIN mTimers
               PROVE  \/ tpc.until <= now
                      \/ tpc.until <= timer[mTimers[i]].mTimeout + mTimeoutAdjustment
    BY DEF SleepsInTime
  <2>1. /\ now \in Nat /\ mTimeoutAdjustment \in Int /\ tpc.until \in Int
        /\ mTimers \in Seq(Timers) /\ timer \in Table
    BY ClockType, Parts DEF Counted, TypeOK
  <2>2. timer[mTimers[i]].mTimeout \in Nat
    BY <2>1, TimeoutType
  <2>3. Deadline <= Clock \/ Deadline <= timer[mTimers[i]].mTimeout
    BY DEF Timely, WakesFor
  <2> QED
    BY <2>1, <2>2, <2>3 DEF Clock, Deadline
<1>3. Counted /\ Lists /\ Counted' /\ Timely /\ [Next]_vars => Timely'
  BY TimelyStep DEF Lists
<1> QED
  BY <1>1, <1>2, <1>3, ListsInvariant, PTL DEF Spec

-----------------------------------------------------------------------------
(***************************************************************************)
(* No timer fires earlier than the adjustment has it.                      *)
(***************************************************************************)

\* A timer that fires once, and still has the generation in which it was popped, is
\* due by the adjustment of that time; the arguments are its fields, what the timer
\* thread saw when it popped the timer, and the time.
Due(fields, looked, time) ==
    fields.mGeneration = looked.generation /\ fields.mType = "ONE_SHOT" /\ ~fields.delaySet
        => fields.mTimeout + looked.adjustment <= time

\* An event has a generation that was given out, and finds its timer due.
Ripe(e, fields, time, last) ==
    /\ e.generation <= last /\ e.popped.adjustment <= time
    /\ e.popped.generation = e.generation => Due(fields, e.popped, time)

Posting == tpc.at \in {"post", "rearm", "dispatch"}

\* Generations are given out in order; the timer in the hands of the timer thread
\* is due, and so are those of the events.  An adjustment seen by a timer thread that
\* popped a timer has passed too, so that a timer which is deleted is still due.
Fresh ==
    /\ \A u \in Timers : timer[u].mGeneration <= gGenerator
    /\ evGen <= gGenerator /\ popped.generation <= gGenerator /\ popped.adjustment <= now
    /\ Posting => Due(timer[cur], popped, now)
    /\ \A i \in DOMAIN queue : Ripe(queue[i], timer[queue[i].timer], now, gGenerator)

\* What a step may do to a timer: nothing that matters, delete it, set its delay or
\* initialise it with a new generation.
Kept(before, after) ==
    \/ /\ after.mGeneration = before.mGeneration /\ after.mType = before.mType
       /\ after.delaySet = before.delaySet /\ after.mTimeout = before.mTimeout
    \/ after.mGeneration = 0 /\ after.mTimeout = 0

Aged(before, after) ==
    \/ Kept(before, after)
    \/ /\ after.mGeneration = before.mGeneration
       /\ after.mType # "ONE_SHOT" \/ after.delaySet
    \/ after.mGeneration = gGenerator + 1 /\ gGenerator' = gGenerator + 1

\* The timeout and the generation of a timer are numbers.
LEMMA FieldNumbers ==
    ASSUME NEW fields \in Fields
    PROVE  fields.mTimeout \in Nat /\ fields.mGeneration \in Nat
  BY BoundsAssumption DEF Fields

\* What popped records are numbers.
LEMMA LookedNumbers ==
    ASSUME NEW looked \in Looked
    PROVE  looked.generation \in Nat /\ looked.adjustment \in Int
<1>1. looked.generation \in 0 .. MaxInits /\ looked.adjustment \in Adjustments \cup {0}
  BY DEF Looked
<1>2. looked.generation \in Nat
  BY <1>1, BoundsAssumption
<1>3. \A a : a \in Adjustments \cup {0} => a \in Int
  BY BoundsAssumption
<1>4. looked.adjustment \in Int
  BY <1>1, <1>3
<1> QED
  BY <1>2, <1>4

\* A timer that is due stays so.
LEMMA DueStays ==
    ASSUME TypeOK, TypeOK', NEW u \in Timers, NEW looked \in Looked, now <= now',
           looked.generation <= gGenerator, looked.adjustment <= now,
           Aged(timer[u], timer'[u]), Due(timer[u], looked, now)
    PROVE  Due(timer'[u], looked, now')
<1>1. /\ now \in Nat /\ now' \in Nat /\ gGenerator \in Nat
      /\ looked.generation \in Nat /\ looked.adjustment \in Int
  BY BoundsAssumption, LookedNumbers DEF TypeOK
<1>2. timer[u].mTimeout \in Nat /\ timer[u].mGeneration \in Nat
  BY FieldNumbers DEF TypeOK
<1>3. timer'[u].mTimeout \in Nat /\ timer'[u].mGeneration \in Nat
  BY FieldNumbers DEF TypeOK
<1> SUFFICES ASSUME timer'[u].mGeneration = looked.generation,
                    timer'[u].mType = "ONE_SHOT", ~timer'[u].delaySet
             PROVE  timer'[u].mTimeout + looked.adjustment <= now'
  BY DEF Due
<1>4. timer'[u].mGeneration # gGenerator + 1
  BY <1>1, <1>3
<1>5. Kept(timer[u], timer'[u])
  BY <1>4 DEF Aged
<1>6. CASE timer'[u].mGeneration = 0 /\ timer'[u].mTimeout = 0
  BY <1>1, <1>6
<1>7. CASE /\ timer'[u].mGeneration = timer[u].mGeneration /\ timer'[u].mType = timer[u].mType
           /\ timer'[u].delaySet = timer[u].delaySet
           /\ timer'[u].mTimeout = timer[u].mTimeout
  <2>1. timer[u].mTimeout + looked.adjustment <= now
    BY <1>7 DEF Due
  <2> QED
    BY <1>1, <1>2, <1>7, <2>1
<1> QED
  BY <1>5, <1>6, <1>7 DEF Kept

\* Fresh after a step that ages the timers, given what it does to the timer thread and
\* to the queue.
LEMMA FreshNext ==
    ASSUME Counted, Counted', Fresh, now <= now', gGenerator <= gGenerator',
           \A u \in Timers : Aged(timer[u], timer'[u]),
           evGen' \in {evGen, 0} \/ \E u \in Timers : evGen' = timer[u].mGeneration,
           \/ popped' \in {popped, NotPopped}
           \/ /\ popped'.adjustment <= now'
              /\ \E u \in Timers : popped'.generation = timer[u].mGeneration,
           Posting' => \/ Posting /\ UNCHANGED <<cur, popped>>
                       \/ Due(timer'[cur'], popped', now'),
           \A i \in DOMAIN queue' :
              \/ \E j \in DOMAIN queue : queue'[i] = queue[j]
              \/ Ripe(queue'[i], timer'[queue'[i].timer], now', gGenerator')
    PROVE  Fresh'
<1>1. TypeOK /\ Control
  BY DEF Counted
<1>2. TypeOK'
  BY DEF Counted
<1>3. gGenerator \in Nat /\ gGenerator' \in Nat /\ now \in Nat /\ now' \in Nat
  BY <1>1, <1>2, BoundsAssumption DEF TypeOK
<1>4. /\ evGen \in Nat /\ evGen' \in Nat
      /\ popped \in Looked /\ popped' \in Looked
      /\ popped.generation \in Nat /\ popped'.generation \in Nat
      /\ popped.adjustment \in Int /\ popped'.adjustment \in Int
      /\ \A u \in Timers : timer[u].mGeneration \in Nat /\ timer'[u].mGeneration \in Nat
  BY <1>1, <1>2, FieldNumbers, LookedNumbers DEF TypeOK
<1>5. /\ \A u \in Timers : timer[u].mGeneration <= gGenerator
      /\ evGen <= gGenerator /\ popped.generation <= gGenerator /\ popped.adjustment <= now
  BY DEF Fresh
<1>6. \A u \in Timers : timer'[u].mGeneration <= gGenerator'
  BY <1>3, <1>4, <1>5 DEF Aged, Kept
<1>7. /\ evGen' <= gGenerator' /\ popped'.generation <= gGenerator'
      /\ popped'.adjustment <= now'
  <2>1. evGen' <= gGenerator'
    BY <1>3, <1>4, <1>5
  <2>2. CASE popped' = popped
    BY <1>3, <1>4, <1>5, <2>1, <2>2
  <2>3. CASE popped' = NotPopped
    BY <1>3, <2>1, <2>3 DEF NotPopped
  <2>4. CASE /\ popped'.adjustment <= now'
             /\ \E u \in Timers : popped'.generation = timer[u].mGeneration
    BY <1>3, <1>4, <1>5, <2>1, <2>4
  <2> QED
    BY <2>2, <2>3, <2>4
<1>8. Posting' => Due(timer'[cur'], popped', now')
  <2> SUFFICES ASSUME Posting', Posting, UNCHANGED <<cur, popped>>
               PROVE  Due(timer'[cur'], popped', now')
    OBVIOUS
  <2>1. cur \in Timers
    BY <1>1 DEF Control, TypeOK, Posting
  <2>2. Due(timer[cur], popped, now)
    BY DEF Fresh
  <2>3. Due(timer'[cur], popped, now')
    BY <1>1, <1>2, <1>4, <1>5, <2>1, <2>2, DueStays
  <2> QED
    BY <2>3
<1>9. ASSUME NEW i \in DOMAIN queue'
      PROVE  Ripe(queue'[i], timer'[queue'[i].timer], now', gGenerator')
  <2> SUFFICES ASSUME NEW j \in DOMAIN queue, queue'[i] = queue[j]
               PROVE  Ripe(queue'[i], timer'[queue'[i].timer], now', gGenerator')
    OBVIOUS
  <2> DEFINE e == queue[j]
  <2>1. e \in Events
    BY <1>1, ElementOfSeq DEF TypeOK
  <2>2. Ripe(e, timer[e.timer], now, gGenerator)
    BY DEF Fresh
  <2>3. queue'[i] = e
    OBVIOUS
  <2> HIDE DEF e
  <2>4. /\ e.timer \in Timers /\ e.generation \in Nat /\ e.popped \in Looked
        /\ e.popped.adjustment \in Int
    BY <2>1, BoundsAssumption, LookedNumbers DEF Events
  <2>5. e.generation <= gGenerator /\ e.popped.adjustment <= now
    BY <2>2 DEF Ripe
  <2>6. ASSUME e.popped.generation = e.generation
        PROVE  Due(timer'[e.timer], e.popped, now')
    <3>1. Due(timer[e.timer], e.popped, now)
      BY <2>2, <2>6 DEF Ripe
    <3>2. e.popped.generation <= gGenerator
      BY <2>5, <2>6
    <3> QED
      BY <1>1, <1>2, <2>4, <2>5, <3>1, <3>2, DueStays
  <2>7. e.generation <= gGenerator' /\ e.popped.adjustment <= now'
    BY <1>3, <2>4, <2>5
  <2> QED
    BY <2>3, <2>6, <2>7 DEF Ripe
<1> QED
  BY <1>6, <1>7, <1>8, <1>9 DEF Fresh

\* Most steps leave the events, the timer thread's variables and the counts alone.
LEMMA FreshSame ==
    ASSUME Counted, Counted', Fresh, now <= now', UNCHANGED <<gGenerator, queue>>,
           \A u \in Timers : Aged(timer[u], timer'[u]),
           evGen' \in {evGen, 0}, popped' \in {popped, NotPopped},
           Posting' => Posting /\ UNCHANGED <<cur, popped>>
    PROVE  Fresh'
<1>1. gGenerator <= gGenerator'
  BY DEF Counted, TypeOK
<1>2. \A i \in DOMAIN queue' : \E j \in DOMAIN queue : queue'[i] = queue[j]
  OBVIOUS
<1> QED
  BY <1>1, <1>2, FreshNext

\* RemoveTimer keeps a timer or deletes it.
LEMMA UnlistedKept ==
    ASSUME Counted, NEW t \in Timers
    PROVE  \A u \in Timers : Kept(timer[u], Unlisted(mTimers, timer, t)[u])
<1>1. TypeOK /\ Exact
  BY DEF Counted
<1> TAKE u \in Timers
<1>2. timer[t].mRefCnt \in Nat
  BY <1>1, Parts
<1>3. CASE u # t \/ timer[t].mRefCnt > 1
  BY <1>1, <1>3, UnlistedFields DEF Kept
<1>4. CASE u = t /\ timer[t].mRefCnt <= 1 /\ InList(mTimers, t)
  <2>1. Unlisted(mTimers, timer, t)[u] = Blank(0)
    BY <1>1, <1>4, UnlistedFields
  <2> QED
    BY <2>1, BlankType DEF Kept
<1>5. CASE ~InList(mTimers, t)
  <2>1. Unlisted(mTimers, timer, t) = timer
    BY <1>1, <1>5, UnlistedFields
  <2> QED
    BY <2>1 DEF Kept
<1> QED
  BY <1>2, <1>3, <1>4, <1>5

\* So does Release.
LEMMA ReleasedKept ==
    ASSUME Counted, NEW t \in Timers, timer[t].mRefCnt > 0
    PROVE  \A u \in Timers : Kept(timer[u], Released(t)[u])
<1>1. TypeOK
  BY DEF Counted
<1> TAKE u \in Timers
<1>2. timer[t].mRefCnt \in Nat
  BY <1>1, Parts
<1>3. CASE u # t \/ timer[t].mRefCnt > 1
  BY <1>1, <1>3, ReleasedTable DEF Kept
<1>4. CASE u = t /\ timer[t].mRefCnt = 1
  <2>1. Released(t)[u] = Blank(0)
    BY <1>1, <1>4, ReleasedTable
  <2> QED
    BY <2>1, BlankType DEF Kept
<1> QED
  BY <1>2, <1>3, <1>4

\* The steps of the timer thread: it pops a timer that is due, and the event that it
\* posts has the generation of the timer when it was made.
LEMMA FreshTimerStep == Counted /\ Counted' /\ Fresh /\ TimerStep => Fresh'
<1> SUFFICES ASSUME Counted, Counted', Fresh, TimerStep
             PROVE  Fresh'
  OBVIOUS
<1>1. TypeOK /\ Exact /\ Control
  BY DEF Counted
<1>2. /\ timer \in Table /\ now \in Nat /\ now <= now
      /\ gGenerator \in Nat /\ gGenerator <= gGenerator
  BY <1>1, Parts, BoundsAssumption DEF TypeOK
<1>3. ASSUME UNCHANGED timer
      PROVE  \A u \in Timers : Aged(timer[u], timer'[u])
  BY <1>3 DEF Aged, Kept
<1>4. CASE Top \/ Again
  <2>1. UNCHANGED <<now, evGen, queue, gGenerator>>
    BY <1>1, <1>4, TopEffect DEF counts
  <2>2. CASE UNCHANGED <<cur, popped, mTimers, timer>> /\ tpc'.at \in {"done", "waiting"}
    BY <1>2, <1>3, <2>1, <2>2, FreshSame DEF Posting
  <2>3. CASE mTimers # <<>> /\ Pops /\ now >= timer[mTimers[1]].mTimeout + mTimeoutAdjustment
    <3> DEFINE t == mTimers[1]
    <3>1. /\ t \in Timers /\ cur' = t /\ popped' = Popped(t)
          /\ \A u \in Timers :
                /\ timer'[u].mGeneration = timer[u].mGeneration
                /\ timer'[u].mType = timer[u].mType /\ timer'[u].delaySet = timer[u].delaySet
                /\ timer'[u].mTimeout = timer[u].mTimeout
      BY <1>1, <2>3, PopsEffect
    <3>2. /\ popped'.generation = timer[t].mGeneration
          /\ popped'.adjustment = mTimeoutAdjustment
      BY <3>1 DEF Popped
    <3>8. now >= timer[t].mTimeout + mTimeoutAdjustment
      BY <2>3
    <3> HIDE DEF t
    <3>3. \A u \in Timers : Aged(timer[u], timer'[u])
      BY <3>1 DEF Aged, Kept
    <3>4. timer[t].mTimeout \in Nat /\ mTimeoutAdjustment \in Int
      BY <1>1, <3>1, FieldNumbers, ClockType DEF TypeOK
    <3>9. timer'[t].mTimeout + popped'.adjustment <= now' /\ popped'.adjustment <= now'
      BY <1>2, <2>1, <3>1, <3>2, <3>4, <3>8
    <3>5. Due(timer'[cur'], popped', now')
      BY <3>1, <3>9 DEF Due
    <3>6. \A i \in DOMAIN queue' : \E j \in DOMAIN queue : queue'[i] = queue[j]
      BY <2>1
    <3>7. \E u \in Timers : popped'.generation = timer[u].mGeneration
      BY <3>1, <3>2
    <3> QED
      BY <1>2, <2>1, <3>3, <3>5, <3>6, <3>7, <3>9, FreshNext
  <2> QED
    BY <1>1, <1>4, <2>2, <2>3, TopEffect
<1>5. CASE WaitExpires
  BY <1>2, <1>3, <1>5, FreshSame DEF WaitExpires, Posting, At, counts
<1>6. CASE MakeEvent
  <2>1. /\ cur \in Timers /\ tpc.at = "post" /\ evGen' = timer[cur].mGeneration
        /\ \A u \in Timers :
              /\ timer'[u].mGeneration = timer[u].mGeneration
              /\ timer'[u].mType = timer[u].mType /\ timer'[u].delaySet = timer[u].delaySet
              /\ timer'[u].mTimeout = timer[u].mTimeout \/ timer[u].mType # "ONE_SHOT"
    BY <1>6, MakeEventEffect
  <2>2. UNCHANGED <<now, cur, popped, queue, gGenerator>>
    BY <1>6 DEF MakeEvent
  <2>3. \A u \in Timers : Aged(timer[u], timer'[u])
    BY <2>1 DEF Aged, Kept
  <2>4. Posting
    BY <2>1 DEF Posting
  <2>5. \A i \in DOMAIN queue' : \E j \in DOMAIN queue : queue'[i] = queue[j]
    BY <2>2
  <2>6. \E u \in Timers : evGen' = timer[u].mGeneration
    BY <2>1
  <2> QED
    BY <1>2, <2>2, <2>3, <2>4, <2>5, <2>6, FreshNext
<1>7. CASE Rearm
  <2>1. cur \in Timers /\ tpc.at = "rearm"
    BY <1>1, <1>7 DEF Rearm, Control, TypeOK
  <2>2. UNCHANGED <<now, cur, evGen, popped, queue, gGenerator>>
    BY <1>7 DEF Rearm, counts
  <2>3. timer' = timer \/ timer' = Armed(timer, cur)
    BY <1>7 DEF Rearm
  <2>4. \A u \in Timers : Aged(timer[u], timer'[u])
    BY <1>2, <1>3, <2>1, <2>3, ArmedTable DEF Aged, Kept
  <2>5. Posting
    BY <2>1 DEF Posting
  <2> QED
    BY <1>2, <2>2, <2>4, <2>5, FreshSame
<1>8. CASE DispatchEvent
  <2> DEFINE e == [timer |-> cur, generation |-> evGen, popped |-> popped]
  <2>1. cur \in Timers /\ tpc.at = "dispatch"
    BY <1>1, <1>8 DEF DispatchEvent, Control, TypeOK
  <2>2. /\ UNCHANGED <<now, timer, gGenerator>>
        /\ queue' = Append(queue, e) /\ evGen' = 0 /\ popped' = NotPopped
        /\ ~Posting'
    BY <1>8 DEF DispatchEvent, counts, Posting, At
  <2>3. /\ Due(timer[cur], popped, now) /\ evGen <= gGenerator
        /\ popped.adjustment <= now
    BY <2>1 DEF Fresh, Posting
  <2>4. Ripe(e, timer[cur], now, gGenerator)
    BY <2>3 DEF Ripe
  <2>5. queue \in Seq(Events) /\ e \in Events /\ e.timer = cur
    BY <1>1, <2>1 DEF TypeOK, Events
  <2> HIDE DEF e
  <2>6. ASSUME NEW i \in DOMAIN queue'
        PROVE  \/ \E j \in DOMAIN queue : queue'[i] = queue[j]
               \/ Ripe(queue'[i], timer'[queue'[i].timer], now', gGenerator')
    <3>1. CASE i \in DOMAIN queue
      BY <2>2, <2>5, <3>1, AppendProperties
    <3>2. CASE i \notin DOMAIN queue
      <4>1. queue'[i] = e
        BY <2>2, <2>5, <3>2, AppendProperties
      <4> QED
        BY <2>2, <2>4, <2>5, <4>1
    <3> QED
      BY <3>1, <3>2
  <2> QED
    BY <1>2, <1>3, <2>2, <2>6, FreshNext
<1>9. CASE DispatchRefused
  <2>1. cur \in Timers
    BY <1>1, <1>9 DEF DispatchRefused, Control, TypeOK
  <2>2. /\ UNCHANGED <<now, evGen, popped, queue, gGenerator>>
        /\ ~Posting' /\ timer' = Unlisted(mTimers, timer, cur)
    BY <1>9 DEF DispatchRefused, Posting, At
  <2>3. \A u \in Timers : Aged(timer[u], timer'[u])
    BY <2>1, <2>2, UnlistedKept DEF Aged
  <2> QED
    BY <1>2, <2>2, <2>3, FreshSame
<1>10. CASE DropTimer
  <2>1. cur \in Timers /\ tpc.at = "drop"
    BY <1>1, <1>10 DEF DropTimer, Control, TypeOK
  <2>2. timer[cur].mRefCnt > 0
    <3>1. timer[cur].mRefCnt = References(cur)
      BY <1>1, <2>1 DEF Exact
    <3> QED
      BY <1>1, <2>1, <3>1, Parts DEF References, Holds
  <2>3. /\ UNCHANGED <<now, queue, gGenerator>> /\ evGen' = 0 /\ popped' = NotPopped
        /\ ~Posting' /\ timer' = Released(cur)
    BY <1>10 DEF DropTimer, Posting, At, counts
  <2>4. \A u \in Timers : Aged(timer[u], timer'[u])
    BY <2>1, <2>2, <2>3, ReleasedKept DEF Aged
  <2> QED
    BY <1>2, <2>3, <2>4, FreshSame
<1>11. CASE DropUnlists
  <2>1. cur \in Timers
    BY <1>1, <1>11 DEF DropUnlists, Control, TypeOK
  <2>2. /\ UNCHANGED <<now, evGen, popped, queue, gGenerator>>
        /\ ~Posting' /\ timer' = Unlisted(mTimers, timer, cur)
    BY <1>11 DEF DropUnlists, Posting, At, counts
  <2>3. \A u \in Timers : Aged(timer[u], timer'[u])
    BY <2>1, <2>2, UnlistedKept DEF Aged
  <2> QED
    BY <1>2, <2>2, <2>3, FreshSame
<1> QED
  BY <1>4, <1>5, <1>6, <1>7, <1>8, <1>9, <1>10, <1>11 DEF TimerStep

\* The calls of the owner on timers: Init gives a generation that no event has yet.
LEMMA FreshOwnerCalls ==
    ASSUME Counted, Counted', Fresh, NEW t \in Timers,
           \/ \E type \in Types, delay \in Delays : BeginInit(t, type, delay)
           \/ \E delay \in Delays : SetDelay(t, delay)
           \/ Cancel(t)
           \/ LetGo(t)
    PROVE  Fresh'
<1>1. TypeOK /\ Exact
  BY DEF Counted
<1>2. now \in Nat /\ now <= now /\ gGenerator \in Nat
  BY <1>1, BoundsAssumption DEF TypeOK
<1>3. ASSUME tpc' \in {tpc, Notified}
      PROVE  Posting' => Posting
  BY <1>3 DEF Posting, Notified, At
<1>4. ASSUME NEW type \in Types, NEW delay \in Delays, BeginInit(t, type, delay)
      PROVE  Fresh'
  <2>1. /\ timer'[t].mGeneration = gGenerator + 1
        /\ \A u \in Timers : u # t => timer'[u] = LeftTimers(t)[u]
        /\ tpc' \in {tpc, Notified}
    BY <1>4, BeginInitEffect
  <2>2. UNCHANGED <<now, cur, evGen, popped, queue>> /\ gGenerator' = gGenerator + 1
    BY <1>4 DEF BeginInit
  <2>6. \A u \in Timers : Kept(timer[u], LeftTimers(t)[u])
    <3>1. CASE timer[t].mArmed
      BY <3>1, UnlistedKept DEF LeftTimers
    <3>2. CASE ~timer[t].mArmed
      BY <3>2 DEF LeftTimers, Kept
    <3> QED
      BY <3>1, <3>2
  <2>3. \A u \in Timers : Aged(timer[u], timer'[u])
    BY <2>1, <2>2, <2>6 DEF Aged
  <2>4. gGenerator <= gGenerator'
    BY <1>2, <2>2
  <2>5. \A i \in DOMAIN queue' : \E j \in DOMAIN queue : queue'[i] = queue[j]
    BY <2>2
  <2> QED
    BY <1>2, <1>3, <2>1, <2>2, <2>3, <2>4, <2>5, FreshNext
<1>5. ASSUME NEW delay \in Delays, SetDelay(t, delay)
      PROVE  Fresh'
  <2>1. UNCHANGED <<now, tpc, cur, evGen, popped, queue, gGenerator>>
    BY <1>5 DEF SetDelay, timerThread
  <2>2. /\ \A u \in Timers : u # t => timer'[u] = timer[u]
        /\ timer'[t].mGeneration = timer[t].mGeneration /\ timer'[t].delaySet
    BY <1>1, <1>5, DelayWrittenTable DEF SetDelay
  <2>4. \A u \in Timers : Aged(timer[u], timer'[u])
    BY <2>2 DEF Aged, Kept
  <2>5. Posting' => Posting
    BY <1>3, <2>1
  <2> QED
    BY <1>2, <2>1, <2>4, <2>5, FreshSame
<1>6. CASE Cancel(t)
  <2>1. /\ tpc' \in {tpc, Notified}
        /\ UNCHANGED <<now, cur, evGen, popped, queue, counts>>
        /\ \A u \in Timers :
              /\ timer'[u].mGeneration = Unlisted(mTimers, timer, t)[u].mGeneration
              /\ timer'[u].mType = Unlisted(mTimers, timer, t)[u].mType
              /\ timer'[u].delaySet = Unlisted(mTimers, timer, t)[u].delaySet
              /\ timer'[u].mTimeout = Unlisted(mTimers, timer, t)[u].mTimeout
    BY <1>6, CancelEffect
  <2>2. \A u \in Timers : Aged(timer[u], timer'[u])
    BY <2>1, UnlistedKept DEF Aged, Kept
  <2>3. UNCHANGED gGenerator
    BY <2>1 DEF counts
  <2> QED
    BY <1>2, <1>3, <2>1, <2>2, <2>3, FreshSame
<1>7. CASE LetGo(t)
  <2>1. /\ t \in held /\ timer' = Released(t)
        /\ UNCHANGED <<now, tpc, cur, evGen, popped, queue, gGenerator>>
    BY <1>7 DEF LetGo, Releases, timerThread, counts
  <2>2. timer[t].mRefCnt > 0
    <3>1. timer[t].mRefCnt = References(t)
      BY <1>1 DEF Exact
    <3> QED
      BY <1>1, <2>1, <3>1, Parts DEF References, Holds
  <2>3. \A u \in Timers : Aged(timer[u], timer'[u])
    BY <2>1, <2>2, ReleasedKept DEF Aged
  <2> QED
    BY <1>2, <1>3, <2>1, <2>3, FreshSame
<1> QED
  BY <1>4, <1>5, <1>6, <1>7

\* The steps in which the owner arms a timer: its generation stays.
LEMMA FreshAdds ==
    Counted /\ Counted' /\ Fresh /\ (FinishInit \/ TimerDelayChanged \/ EndFire) => Fresh'
<1> SUFFICES ASSUME Counted, Counted', Fresh, FinishInit \/ TimerDelayChanged \/ EndFire
             PROVE  Fresh'
  OBVIOUS
<1>1. TypeOK /\ Exact /\ Control
  BY DEF Counted
<1>2. /\ mTimers \in Seq(Timers) /\ timer \in Table
      /\ now \in Nat /\ now <= now
  BY <1>1, Parts, BoundsAssumption DEF TypeOK
<1>3. UNCHANGED <<now, cur, evGen, popped, queue, gGenerator>>
  BY DEF FinishInit, TimerDelayChanged, EndFire, counts
<1>4. ASSUME NEW list \in Seq(Timers), NEW timers \in Table, NEW t \in Timers,
             AddTimer(list, timers, t)
      PROVE  /\ Posting' => Posting
             /\ \A u \in Timers : /\ timer'[u].mGeneration = timers[u].mGeneration
                                  /\ timer'[u].mType = timers[u].mType
                                  /\ timer'[u].delaySet = timers[u].delaySet
                                  /\ timer'[u].mTimeout = timers[u].mTimeout
  <2>1. tpc' \in {tpc, Notified}
    BY <1>4 DEF AddTimer
  <2>2. Posting' => Posting
    BY <2>1 DEF Posting, Notified, At
  <2> QED
    BY <1>1, <1>4, <2>2, AddTimerEffect
<1>5. CASE FinishInit
  <2> DEFINE t == call.timer
  <2>1. t \in Timers /\ AddTimer(mTimers, timer, t)
    BY <1>1, <1>5 DEF FinishInit, Control
  <2> HIDE DEF t
  <2>2. \A u \in Timers : Aged(timer[u], timer'[u])
    BY <1>2, <1>4, <2>1 DEF Aged, Kept
  <2>3. Posting' => Posting
    BY <1>2, <1>4, <2>1
  <2> QED
    BY <1>2, <1>3, <2>2, <2>3, FreshSame
<1>6. CASE TimerDelayChanged
  <2> DEFINE t == call.timer
             list == Removed(mTimers, t)
             timers == Unlisted(mTimers, timer, t)
  <2>1. t \in Timers /\ AddTimer(list, timers, t)
    BY <1>1, <1>6 DEF TimerDelayChanged, Control
  <2>2. list \in Seq(Timers) /\ timers \in Table
    BY <1>1, <2>1, UnlistedEffect
  <2>3. \A u \in Timers : Kept(timer[u], timers[u])
    BY <2>1, UnlistedKept
  <2> HIDE DEF t, list, timers
  <2>4. /\ Posting' => Posting
        /\ \A u \in Timers : /\ timer'[u].mGeneration = timers[u].mGeneration
                             /\ timer'[u].mType = timers[u].mType
                             /\ timer'[u].delaySet = timers[u].delaySet
                             /\ timer'[u].mTimeout = timers[u].mTimeout
    BY <1>4, <2>1, <2>2
  <2>5. \A u \in Timers : Aged(timer[u], timer'[u])
    BY <2>3, <2>4 DEF Aged, Kept
  <2> QED
    BY <1>2, <1>3, <2>4, <2>5, FreshSame
<1>7. CASE EndFire
  <2>1. PICK timers \in Table :
           /\ firing \in Timers
           /\ \A u \in Timers :
                 /\ timers[u].mGeneration = timer[u].mGeneration
                 /\ timers[u].mType = timer[u].mType /\ timers[u].delaySet = timer[u].delaySet
                 /\ timers[u].mTimeout = timer[u].mTimeout \/ timer[u].mType # "ONE_SHOT"
           /\ \/ timer' = timers /\ UNCHANGED tpc
              \/ AddTimer(mTimers, timers, firing)
    BY <1>1, <1>7, EndFireEffect
  <2>2. /\ Posting' => Posting
        /\ \A u \in Timers : /\ timer'[u].mGeneration = timers[u].mGeneration
                             /\ timer'[u].mType = timers[u].mType
                             /\ timer'[u].delaySet = timers[u].delaySet
                             /\ timer'[u].mTimeout = timers[u].mTimeout
    <3>1. CASE timer' = timers /\ UNCHANGED tpc
      BY <3>1 DEF Posting
    <3>2. CASE AddTimer(mTimers, timers, firing)
      BY <1>2, <1>4, <2>1, <3>2
    <3> QED
      BY <2>1, <3>1, <3>2
  <2>3. \A u \in Timers : Aged(timer[u], timer'[u])
    BY <2>1, <2>2 DEF Aged, Kept
  <2> QED
    BY <1>2, <1>3, <2>2, <2>3, FreshSame
<1> QED
  BY <1>5, <1>6, <1>7

\* The other steps of the owner, and the clock.
LEMMA FreshRest ==
    ASSUME Counted, Counted', Fresh,
           \/ ReleaseFired \/ RemoveTimer \/ RunEvent \/ ResetNext
           \/ BeginShutdown \/ ShutdownReleases
           \/ Tick \/ BeginAfterSleep \/ EndAfterSleep \/ DoBeforeSleep \/ WakesUnslept
           \/ EndShutdown \/ UNCHANGED vars
    PROVE  Fresh'
<1>1. TypeOK /\ Exact /\ Control
  BY DEF Counted
<1>2. /\ mTimers \in Seq(Timers) /\ timer \in Table /\ now \in Nat /\ now <= now
      /\ gGenerator \in Nat /\ gGenerator <= gGenerator
  BY <1>1, Parts, BoundsAssumption DEF TypeOK
<1>3. Notified.at \in {"post", "rearm", "dispatch"} => Posting
  BY DEF Posting, Notified, At
<1>4. ASSUME UNCHANGED tpc
      PROVE  Posting' => Posting
  BY <1>4 DEF Posting
<1>5. CASE ReleaseFired
  <2> DEFINE t == call.timer
  <2>1. /\ call.op = "releasing" /\ t \in Timers /\ timer' = Released(t)
        /\ UNCHANGED <<now, tpc, cur, evGen, popped, queue, gGenerator>>
    BY <1>1, <1>5 DEF ReleaseFired, Releases, Control, timerThread, counts
  <2>2. timer[t].mRefCnt > 0
    <3>1. timer[t].mRefCnt = References(t)
      BY <1>1, <2>1 DEF Exact
    <3> QED
      BY <1>1, <2>1, <3>1, Parts DEF References, Holds
  <2> HIDE DEF t
  <2>3. \A u \in Timers : Aged(timer[u], timer'[u])
    BY <2>1, <2>2, ReleasedKept DEF Aged
  <2> QED
    BY <1>2, <1>4, <2>1, <2>3, FreshSame
<1>6. CASE RemoveTimer
  <2> DEFINE t == call.timer
  <2>1. /\ t \in Timers /\ timer' = Unlisted(mTimers, timer, t)
        /\ tpc' \in {tpc, Notified}
        /\ UNCHANGED <<now, cur, evGen, popped, queue, gGenerator>>
    BY <1>1, <1>6 DEF RemoveTimer, Control, counts
  <2> HIDE DEF t
  <2>2. \A u \in Timers : Aged(timer[u], timer'[u])
    BY <2>1, UnlistedKept DEF Aged
  <2>3. Posting' => Posting
    BY <1>3, <2>1 DEF Posting
  <2> QED
    BY <1>2, <2>1, <2>2, <2>3, FreshSame
<1>7. CASE RunEvent
  <2>1. PICK t \in Timers :
           /\ UNCHANGED <<now, timerThread, gGenerator>>
           /\ queue # <<>> /\ queue' = Tail(queue)
           /\ \/ \A u \in Timers : /\ timer'[u].mGeneration = timer[u].mGeneration
                                   /\ timer'[u].mType = timer[u].mType
                                   /\ timer'[u].delaySet = timer[u].delaySet
                                   /\ timer'[u].mTimeout = timer[u].mTimeout
              \/ Releases(t) /\ timer[t].mRefCnt > 0
    BY <1>7, RunEventEffect
  <2>2. UNCHANGED <<tpc, cur, evGen, popped, gGenerator>>
    BY <2>1 DEF timerThread
  <2>3. \A u \in Timers : Aged(timer[u], timer'[u])
    <3>1. CASE \A u \in Timers : /\ timer'[u].mGeneration = timer[u].mGeneration
                                 /\ timer'[u].mType = timer[u].mType
                                 /\ timer'[u].delaySet = timer[u].delaySet
                                 /\ timer'[u].mTimeout = timer[u].mTimeout
      BY <3>1 DEF Aged, Kept
    <3>2. CASE Releases(t) /\ timer[t].mRefCnt > 0
      <4>1. timer' = Released(t)
        BY <3>2 DEF Releases
      <4> QED
        BY <3>2, <4>1, ReleasedKept DEF Aged
    <3> QED
      BY <2>1, <3>1, <3>2
  <2>4. \A i \in DOMAIN queue' : \E j \in DOMAIN queue : queue'[i] = queue[j]
    <3>1. queue \in Seq(Events)
      BY <1>1 DEF TypeOK
    <3> QED
      BY <2>1, <3>1, HeadTailProperties, LenProperties
  <2> QED
    BY <1>2, <1>4, <2>1, <2>2, <2>3, <2>4, FreshNext
<1>8. CASE ResetNext
  <2> DEFINE t == mTimers[index]
  <2>1. UNCHANGED <<now, tpc, cur, evGen, popped, queue, gGenerator>>
    BY <1>8 DEF ResetNext, timerThread
  <2>2. t \in Timers
    <3>1. index \in 1 .. Len(mTimers)
      BY <1>1, <1>8 DEF ResetNext, TypeOK
    <3> QED
      BY <1>2, <3>1, ElementOfSeq, LenProperties
  <2>3. timer[t].mDelay \in Delays \cup {0}
    BY <1>1, <2>2, Parts DEF Fields
  <2>4. DelayWritten(t, timer[t].mDelay) \/ UNCHANGED timer
    BY <1>8 DEF ResetNext
  <2> HIDE DEF t
  <2>5. CASE DelayWritten(t, timer[t].mDelay)
    <3>1. /\ \A u \in Timers : u # t => timer'[u] = timer[u]
          /\ timer'[t].mGeneration = timer[t].mGeneration /\ timer'[t].delaySet
      BY <1>1, <2>2, <2>3, <2>5, DelayWrittenTable
    <3>2. \A u \in Timers : Aged(timer[u], timer'[u])
      BY <3>1 DEF Aged, Kept
    <3> QED
      BY <1>2, <1>4, <2>1, <3>2, FreshSame
  <2>6. CASE UNCHANGED timer
    <3>1. \A u \in Timers : Aged(timer[u], timer'[u])
      BY <2>6 DEF Aged, Kept
    <3> QED
      BY <1>2, <1>4, <2>1, <3>1, FreshSame
  <2> QED
    BY <2>4, <2>5, <2>6
<1>9. CASE ShutdownReleases
  <2> DEFINE t == Head(leaving)
  <2>1. UNCHANGED <<now, tpc, cur, evGen, popped, queue, gGenerator>>
    BY <1>9 DEF ShutdownReleases, timerThread, counts
  <2>2. /\ t \in Timers
        /\ \A u \in Timers : u # t \/ timer[t].mRefCnt > 1 =>
              /\ timer'[u].mGeneration = timer[u].mGeneration
              /\ timer'[u].mType = timer[u].mType /\ timer'[u].delaySet = timer[u].delaySet
              /\ timer'[u].mTimeout = timer[u].mTimeout
        /\ timer[t].mRefCnt = 1 => timer'[t] = Blank(0)
        /\ timer'[t].mRefCnt = timer[t].mRefCnt - 1
    BY <1>1, <1>9, ShutdownReleasesTable DEF Holds
  <2> HIDE DEF t
  <2>3. timer[t].mRefCnt \in Nat /\ timer'[t].mRefCnt \in Nat
    <3>1. timer'[t] \in Fields
      BY <2>2 DEF Counted, TypeOK
    <3> QED
      BY <1>1, <2>2, <3>1, Parts DEF Fields
  <2>4. timer[t].mRefCnt > 1 \/ timer[t].mRefCnt = 1
    BY <2>2, <2>3
  <2>5. timer[t].mRefCnt = 1 => timer'[t].mGeneration = 0 /\ timer'[t].mTimeout = 0
    BY <2>2, BlankType
  <2>6. \A u \in Timers : Aged(timer[u], timer'[u])
    BY <2>2, <2>4, <2>5 DEF Aged, Kept
  <2> QED
    BY <1>2, <1>4, <2>1, <2>6, FreshSame
<1>10. CASE Tick
  <2>1. /\ UNCHANGED <<timer, tpc, cur, evGen, popped, queue, gGenerator>>
        /\ now' = now + 1
    BY <1>10 DEF Tick, timerThread, counts
  <2>2. now <= now'
    BY <1>2, <2>1
  <2>3. \A u \in Timers : Aged(timer[u], timer'[u])
    BY <2>1 DEF Aged, Kept
  <2> QED
    BY <1>4, <2>1, <2>2, <2>3, FreshSame
<1>11. CASE BeginShutdown
  <2>1. /\ UNCHANGED <<now, timer, cur, evGen, popped, queue, gGenerator>>
        /\ tpc' = Notified
    BY <1>11 DEF BeginShutdown, counts
  <2>2. \A u \in Timers : Aged(timer[u], timer'[u])
    BY <2>1 DEF Aged, Kept
  <2>3. Posting' => Posting
    BY <1>3, <2>1 DEF Posting
  <2> QED
    BY <1>2, <2>1, <2>2, <2>3, FreshSame
<1>12. CASE \/ BeginAfterSleep \/ EndAfterSleep \/ DoBeforeSleep \/ WakesUnslept
            \/ EndShutdown \/ UNCHANGED vars
  <2>1. UNCHANGED <<now, timer, tpc, cur, evGen, popped, queue, gGenerator>>
    BY <1>12 DEF BeginAfterSleep, EndAfterSleep, DoBeforeSleep, WakesUnslept, EndShutdown,
                 vars, timerThread, counts
  <2>2. \A u \in Timers : Aged(timer[u], timer'[u])
    BY <2>1 DEF Aged, Kept
  <2> QED
    BY <1>2, <1>4, <2>1, <2>2, FreshSame
<1> QED
  BY <1>5, <1>6, <1>7, <1>8, <1>9, <1>10, <1>11, <1>12

\* Every step keeps Fresh.
LEMMA FreshStep == Counted /\ Counted' /\ Fresh /\ [Next]_vars => Fresh'
  BY FreshTimerStep, FreshOwnerCalls, FreshAdds, FreshRest DEF Next, OwnerStep, OwnerCalls

\* UpdateFilter lets timers fire early, but only by the adjustment that the timer thread
\* saw when it popped them: an event that fires a one-shot timer finds its timeout passed
\* but for that adjustment, however the owner cancelled and initialised the timer since.
\* Excluded are a timer that was initialised before PostTimerEvent copied the generation,
\* and one whose delay was set.
THEOREM NoTimerFiresEarly == Spec => []NeverEarly
<1>1. Init => Fresh
  <2> SUFFICES ASSUME Init
               PROVE  Fresh
    OBVIOUS
  <2>1. /\ gGenerator = 0 /\ evGen = 0 /\ now = 0 /\ ~Posting /\ DOMAIN queue = {}
        /\ popped.generation = 0 /\ popped.adjustment = 0
    BY DEF Init, Posting, At, NotPopped
  <2>2. \A u \in Timers : timer[u] = Blank(1)
    BY DEF Init
  <2>3. \A u \in Timers : timer[u].mGeneration = 0
    BY <2>2, BlankType
  <2> QED
    BY <2>1, <2>3 DEF Fresh
<1>2. Counted /\ Fresh => NeverEarly
  <2> SUFFICES ASSUME Counted, Fresh, NEW i \in DOMAIN queue, Fires(queue[i]),
                      queue[i].popped.generation = queue[i].generation,
                      timer[queue[i].timer].mType = "ONE_SHOT", ~timer[queue[i].timer].delaySet
               PROVE  now >= timer[queue[i].timer].mTimeout + queue[i].popped.adjustment
    BY DEF NeverEarly
  <2> DEFINE e == queue[i]
  <2>1. Due(timer[e.timer], e.popped, now)
    BY DEF Fresh, Ripe
  <2>2. e.timer \in Timers /\ now \in Nat /\ e.popped.adjustment \in Int
    <3>1. queue \in Seq(Events) /\ now \in 0 .. MaxTime
      BY DEF Counted, TypeOK
    <3>2. e \in Events
      BY <3>1, ElementOfSeq
    <3> QED
      BY <3>1, <3>2, BoundsAssumption, LookedNumbers DEF Events
  <2>3. timer[e.timer].mTimeout \in Nat
    BY <2>2, FieldNumbers DEF Counted, TypeOK
  <2>4. timer[e.timer].mTimeout + e.popped.adjustment <= now
    BY <2>1 DEF Due, Fires
  <2> QED
    BY <2>2, <2>3, <2>4
<1>3. Counted /\ Lists /\ Counted' /\ Fresh /\ [Next]_vars => Fresh'
  BY FreshStep
<1> QED
  BY <1>1, <1>2, <1>3, ListsInvariant, PTL DEF Spec

=============================================================================
