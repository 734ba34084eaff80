-------------------------- MODULE RPCChannelProofs --------------------------
(***************************************************************************)
(* Proofs about RPCChannel, for every policy of races and any numbers of   *)
(* calls, messages and nested event loops, with links that fail and        *)
(* replies that time out: C++ stacks, out-calls and replies belong         *)
(* together, depth guesses are safe, nothing queued is stranded, and the   *)
(* sender of a sync message is blocked.                                    *)
(***************************************************************************)
EXTENDS RPCChannel, CountingProofs

-----------------------------------------------------------------------------
(***************************************************************************)
(* Sequences, and the frames of a C++ stack.                               *)
(***************************************************************************)

\* A sequence is its front and its last element.
LEMMA FrontLast ==
    ASSUME NEW S, NEW q \in Seq(S), q # <<>>
    PROVE  /\ Front(q) \in Seq(S) /\ Last(q) \in S
           /\ Len(q) \in Nat \ {0} /\ Len(Front(q)) = Len(q) - 1
           /\ q = Append(Front(q), Last(q))
           /\ \A i \in 1 .. Len(q) - 1 : Front(q)[i] = q[i]
           /\ q[Len(q)] = Last(q)
<1> DEFINE n == Len(q) - 1
<1>1. Len(q) \in Nat \ {0} /\ n \in 0 .. Len(q) /\ n \in Int /\ 1 \in Int
  BY EmptySeq, LenProperties
<1>2. /\ SubSeq(q, 1, n) \in Seq(S)
      /\ SubSeq(q, n + 1, Len(q)) \in Seq(S)
      /\ q = SubSeq(q, 1, n) \o SubSeq(q, n + 1, Len(q))
  BY <1>1, OccurrencesCut
<1>3. \A i \in 1 .. n : q[i] \in S
  BY <1>1, ElementOfSeq
<1>4. Len(SubSeq(q, 1, n)) = n
  <2>1. Len(SubSeq(q, 1, n)) = IF 1 <= n THEN n - 1 + 1 ELSE 0
    BY <1>1, <1>3, SubSeqProperties
  <2> HIDE DEF n
  <2> QED
    BY <1>1, <2>1
<1>5. SubSeq(q, n + 1, Len(q)) = <<q[Len(q)]>>
  <2>1. n + 1 = Len(q)
    BY <1>1
  <2>2. q[Len(q)] \in S
    BY <1>1, ElementOfSeq
  <2>3. /\ SubSeq(q, Len(q), Len(q)) \in Seq(S)
        /\ Len(SubSeq(q, Len(q), Len(q))) = 1
        /\ SubSeq(q, Len(q), Len(q))[1] = q[Len(q)]
    BY <1>1, <2>2, SubSeqProperties
  <2>4. SubSeq(q, Len(q), Len(q)) = <<q[Len(q)]>>
    <3> DEFINE x == q[Len(q)]
               r == SubSeq(q, Len(q), Len(q))
    <3>1. r \in Seq(S) /\ Len(r) = 1 /\ r[1] = x /\ x \in S
      BY <2>2, <2>3
    <3>2. <<x>> \in Seq(S) /\ Len(<<x>>) = 1 /\ <<x>>[1] = x
      BY <2>2
    <3> HIDE DEF x, r
    <3>3. \A i \in 1 .. Len(r) : r[i] = <<x>>[i]
      BY <3>1, <3>2
    <3>4. Len(r) = Len(<<x>>)
      BY <3>1, <3>2
    <3>5. r = <<x>>
      BY <3>1, <3>2, <3>3, <3>4, SeqEqual
    <3> QED
      BY <3>5 DEF x, r
  <2> QED
    BY <2>1, <2>4
<1>6. q[Len(q)] \in S
  BY <1>1, ElementOfSeq
<1>7. q = Append(SubSeq(q, 1, n), q[Len(q)])
  <2> DEFINE p == SubSeq(q, 1, n)
             x == q[Len(q)]
  <2>1. q = p \o <<x>> /\ p \in Seq(S) /\ x \in S
    BY <1>2, <1>5, <1>6
  <2> HIDE DEF p, x
  <2>2. p \o <<x>> = Append(p, x)
    BY <2>1
  <2> QED
    BY <2>1, <2>2 DEF p, x
<1>8. Front(q) = SubSeq(q, 1, n) /\ Last(q) = q[Len(q)]
  BY DEF Front, Last
<1>9. \A i \in 1 .. n : SubSeq(q, 1, n)[i] = q[i]
  <2>1. \A i \in 1 .. n - 1 + 1 : SubSeq(q, 1, n)[i] = q[1 + i - 1]
    BY <1>1, <1>3, SubSeqProperties
  <2> HIDE DEF n
  <2> QED
    BY <1>1, <2>1
<1> QED
  BY <1>1, <1>2, <1>4, <1>6, <1>7, <1>8, <1>9

\* The elements of a sequence that is appended to.
LEMMA AppendIs ==
    ASSUME NEW S, NEW q \in Seq(S), NEW x \in S
    PROVE  /\ Append(q, x) \in Seq(S) /\ Append(q, x) # <<>>
           /\ Len(q) \in Nat /\ Len(Append(q, x)) = Len(q) + 1
           /\ DOMAIN q = 1 .. Len(q) /\ DOMAIN Append(q, x) = 1 .. Len(q) + 1
           /\ \A i \in 1 .. Len(q) : Append(q, x)[i] = q[i]
           /\ Append(q, x)[Len(q) + 1] = x
           /\ Front(Append(q, x)) = q /\ Last(Append(q, x)) = x
<1> DEFINE r == Append(q, x)
<1>1. /\ r \in Seq(S) /\ r # <<>> /\ Len(q) \in Nat /\ Len(r) = Len(q) + 1
      /\ \A i \in 1 .. Len(q) : r[i] = q[i]
      /\ r[Len(q) + 1] = x
  BY AppendProperties, LenProperties
<1>2. DOMAIN q = 1 .. Len(q) /\ DOMAIN r = 1 .. Len(q) + 1
  BY <1>1, LenProperties
<1> HIDE DEF r
<1>3. Last(r) = x
  BY <1>1 DEF Last
<1>4. Front(r) = q
  <2>1. /\ Front(r) \in Seq(S) /\ Len(Front(r)) = Len(q) /\ r = Append(Front(r), Last(r))
        /\ Last(r) \in S
    BY <1>1, FrontLast
  <2>2. \A i \in 1 .. Len(q) : Append(Front(r), Last(r))[i] = Front(r)[i]
    BY <2>1, AppendProperties
  <2>3. \A i \in 1 .. Len(q) : Front(r)[i] = q[i]
    BY <1>1, <2>1, <2>2
  <2> QED
    BY <2>1, <2>3, SeqEqual
<1> QED
  BY <1>1, <1>2, <1>3, <1>4 DEF r

\* The last element of a sequence occurs once more in it than in the front.
LEMMA OccurrencesFront ==
    ASSUME NEW S, NEW q \in Seq(S), q # <<>>, NEW e
    PROVE  /\ Occurrences(e, q) = Occurrences(e, Front(q)) + (IF Last(q) = e THEN 1 ELSE 0)
           /\ Occurrences(e, Front(q)) \in Nat
<1> DEFINE p == Front(q)
           x == Last(q)
<1>1. p \in Seq(S) /\ x \in S /\ q = Append(p, x)
  BY FrontLast
<1>2. q = Append(p, x)
  BY <1>1
<1> HIDE DEF p, x
<1>3. Occurrences(e, Append(p, x)) = Occurrences(e, p) + (IF x = e THEN 1 ELSE 0)
  BY <1>1, OccurrencesAppend
<1>4. Occurrences(e, p) \in Nat
  BY <1>1, OccurrencesType
<1> QED
  BY <1>2, <1>3, <1>4 DEF p, x

FrameRec == [at : FrameKinds, seqno : Int]
Stacks == Seq(FrameRec)

CallPlaces == {"calltop", "callwait", "timeout"}

\* The places in the code of the frames of a stack.
Ats(stk) == [i \in DOMAIN stk |-> stk[i].at]

\* How many in-calls are being handled, and how often the one with seqno n.
Handled(stk) == Occurrences("incall", Ats(stk))
Running(stk, n) == Occurrences(Frame("incall", n), stk)

\* The call with seqno n was made while the in-call with seqno c was handled.
Below(stk, c, n) ==
    \E j \in DOMAIN stk :
       /\ stk[j].at \in CallPlaces /\ stk[j].seqno = n
       /\ \E i \in 1 .. j - 1 : stk[i] = Frame("incall", c)

\* No event loop is nested in nothing.
Rooted(stk) == stk # <<>> => stk[1].at # "nest"

\* What is true of a stack f that is the stack g with the frame x on top.
Grown(g, x, f) ==
    /\ Handled(g) \in Nat /\ Handled(f) = Handled(g) + (IF x.at = "incall" THEN 1 ELSE 0)
    /\ \A n \in Int : /\ Running(g, n) \in Nat
                      /\ Running(f, n) = Running(g, n)
                                           + (IF x = Frame("incall", n) THEN 1 ELSE 0)
    /\ \A c, n \in Int : Below(g, c, n) => Below(f, c, n)
    /\ \A c, n \in Int : Below(f, c, n) /\ ~Below(g, c, n)
                            => /\ x.at \in CallPlaces /\ x.seqno = n
                               /\ Running(g, c) > 0
    /\ \A c, n \in Int : x.at \in CallPlaces /\ x.seqno = n /\ Running(g, c) > 0
                            => Below(f, c, n)
    /\ (Rooted(g) /\ (g = <<>> => x.at # "nest")) <=> Rooted(f)
    /\ x.at \notin CallPlaces => \A st \in Seq(Message) : Matched(f, st) <=> Matched(g, st)

\* The places of the Calls, when a frame is pushed.
LEMMA CallsUpToAppend ==
    ASSUME NEW g \in Stacks, NEW x \in FrameRec
    PROVE  LET f == Append(g, x)
           IN  /\ Len(g) \in Nat /\ Len(f) = Len(g) + 1
               /\ \A i \in 1 .. Len(g) : CallsUpTo(f, i) = CallsUpTo(g, i)
               /\ CallsUpTo(f, Len(f)) = CallsUpTo(g, Len(g))
                     \cup (IF x.at \in CallPlaces THEN {Len(f)} ELSE {})
               /\ Len(f) \notin CallsUpTo(g, Len(g))
               /\ f[Len(f)] = x /\ \A i \in 1 .. Len(g) : f[i] = g[i]
<1> DEFINE f == Append(g, x)
           N == Len(g)
<1>1. /\ N \in Nat /\ Len(f) = N + 1 /\ f[N + 1] = x
      /\ \A i \in 1 .. N : f[i] = g[i]
  BY AppendIs DEF Stacks
<1> HIDE DEF f, N
<1>2. \A i \in 1 .. N : CallsUpTo(f, i) = CallsUpTo(g, i)
  BY <1>1 DEF CallsUpTo
<1>3. CallsUpTo(f, Len(f)) = CallsUpTo(g, N)
         \cup (IF x.at \in CallPlaces THEN {Len(f)} ELSE {})
  BY <1>1 DEF CallsUpTo, CallPlaces
<1>4. Len(f) \notin CallsUpTo(g, N)
  BY <1>1 DEF CallsUpTo
<1> QED
  BY <1>1, <1>2, <1>3, <1>4 DEF f, N

\* There are finitely many Calls on a stack, and no more below one than in all.
LEMMA CallsUpToIs ==
    ASSUME NEW g \in Stacks
    PROVE  /\ Cardinality(CallsUpTo(g, Len(g))) \in Nat
           /\ IsFiniteSet(CallsUpTo(g, Len(g)))
           /\ \A i \in CallsUpTo(g, Len(g)) :
                 /\ i \in 1 .. Len(g) /\ g[i].at \in CallPlaces
                 /\ Cardinality(CallsUpTo(g, i)) \in 1 .. Cardinality(CallsUpTo(g, Len(g)))
<1>1. Len(g) \in Nat
  BY LenProperties DEF Stacks
<1>2. IsFiniteSet(1 .. Len(g)) /\ CallsUpTo(g, Len(g)) \subseteq 1 .. Len(g)
  BY <1>1, FS_Interval DEF CallsUpTo
<1>3. IsFiniteSet(CallsUpTo(g, Len(g))) /\ Cardinality(CallsUpTo(g, Len(g))) \in Nat
  BY <1>2, FS_Subset, FS_CardinalityType
<1>4. ASSUME NEW i \in CallsUpTo(g, Len(g))
      PROVE  /\ i \in 1 .. Len(g) /\ g[i].at \in CallPlaces
             /\ Cardinality(CallsUpTo(g, i)) \in 1 .. Cardinality(CallsUpTo(g, Len(g)))
  <2>1. i \in 1 .. Len(g) /\ g[i].at \in CallPlaces
    BY DEF CallsUpTo, CallPlaces
  <2>2. CallsUpTo(g, i) \subseteq CallsUpTo(g, Len(g)) /\ i \in CallsUpTo(g, i)
    BY <1>1, <2>1 DEF CallsUpTo, CallPlaces
  <2>3. /\ IsFiniteSet(CallsUpTo(g, i)) /\ Cardinality(CallsUpTo(g, i)) \in Nat
        /\ Cardinality(CallsUpTo(g, i)) <= Cardinality(CallsUpTo(g, Len(g)))
    BY <1>3, <2>2, FS_Subset, FS_CardinalityType
  <2>4. Cardinality(CallsUpTo(g, i)) # 0
    BY <2>2, <2>3, FS_EmptySet
  <2> QED
    BY <1>3, <2>1, <2>3, <2>4
<1> QED
  BY <1>3, <1>4

\* A stack has no fewer frames than Calls.
LEMMA MatchedDepth ==
    ASSUME NEW f \in Stacks, NEW st, Matched(f, st)
    PROVE  Len(st) <= Len(f)
<1> DEFINE n == Len(f)
<1>1. n \in Nat
  BY LenProperties DEF Stacks
<1>2. Cardinality(CallsUpTo(f, n)) = Len(st)
  BY DEF Matched
<1> HIDE DEF n
<1>3. IsFiniteSet(1 .. n) /\ Cardinality(1 .. n) = IF 1 > n THEN 0 ELSE n - 1 + 1
  BY <1>1, FS_Interval
<1>4. CallsUpTo(f, n) \subseteq 1 .. n
  BY DEF CallsUpTo
<1>5. Cardinality(1 .. n) = n
  BY <1>1, <1>3
<1>6. Cardinality(CallsUpTo(f, n)) <= Cardinality(1 .. n)
  BY <1>3, <1>4, FS_Subset
<1>7. Len(st) <= n
  BY <1>2, <1>5, <1>6
<1> QED
  BY <1>7 DEF n

\* A frame that is no Call leaves the others as they are.
LEMMA MatchedOther ==
    ASSUME NEW g \in Stacks, NEW x \in FrameRec, x.at \notin CallPlaces, NEW st \in Seq(Message)
    PROVE  Matched(Append(g, x), st) <=> Matched(g, st)
<1> DEFINE f == Append(g, x)
<1>1. /\ CallsUpTo(f, Len(f)) = CallsUpTo(g, Len(g))
      /\ \A i \in 1 .. Len(g) : f[i] = g[i] /\ CallsUpTo(f, i) = CallsUpTo(g, i)
  BY CallsUpToAppend
<1>2. \A i \in CallsUpTo(g, Len(g)) : i \in 1 .. Len(g)
  BY CallsUpToIs
<1> HIDE DEF f
<1>3. Matched(f, st) <=> Matched(g, st)
  BY <1>1, <1>2 DEF Matched
<1> QED
  BY <1>3 DEF f

\* A new Call goes with a new out-call.
LEMMA MatchedCall ==
    ASSUME NEW g \in Stacks, NEW x \in FrameRec, x.at \in CallPlaces,
           NEW st \in Seq(Message), NEW m \in Message
    PROVE  Matched(Append(g, x), Append(st, m)) <=> Matched(g, st) /\ x.seqno = m.seqno
<1> DEFINE f == Append(g, x)
           q == Append(st, m)
           N == Len(g)
           k == Cardinality(CallsUpTo(g, N))
<1>1. /\ N \in Nat /\ Len(f) = N + 1 /\ f[Len(f)] = x
      /\ \A i \in 1 .. N : f[i] = g[i] /\ CallsUpTo(f, i) = CallsUpTo(g, i)
      /\ CallsUpTo(f, Len(f)) = CallsUpTo(g, N) \cup {Len(f)}
      /\ Len(f) \notin CallsUpTo(g, N)
  BY CallsUpToAppend
<1>2. /\ Len(st) \in Nat /\ Len(q) = Len(st) + 1 /\ q[Len(st) + 1] = m
      /\ \A i \in 1 .. Len(st) : q[i] = st[i]
  BY AppendIs
<1>3. /\ k \in Nat /\ IsFiniteSet(CallsUpTo(g, N))
      /\ \A i \in CallsUpTo(g, N) : i \in 1 .. N /\ Cardinality(CallsUpTo(g, i)) \in 1 .. k
  BY CallsUpToIs
<1> HIDE DEF f, q, N
<1>4. Cardinality(CallsUpTo(f, Len(f))) = k + 1
  BY <1>1, <1>3, FS_AddElement
<1> HIDE DEF k
<1>5. ASSUME Matched(g, st), x.seqno = m.seqno
      PROVE  Matched(f, q)
  <2>1. k = Len(st)
    BY <1>5 DEF Matched, k, N
  <2>2. ASSUME NEW i \in CallsUpTo(f, Len(f))
        PROVE  f[i].seqno = q[Cardinality(CallsUpTo(f, i))].seqno
    <3>1. CASE i = Len(f)
      BY <1>1, <1>2, <1>4, <1>5, <2>1, <3>1
    <3>2. CASE i # Len(f)
      <4>1. i \in CallsUpTo(g, N)
        BY <1>1, <3>2
      <4>2. i \in 1 .. N /\ Cardinality(CallsUpTo(g, i)) \in 1 .. Len(st)
        BY <1>3, <2>1, <4>1
      <4>3. g[i].seqno = st[Cardinality(CallsUpTo(g, i))].seqno
        BY <1>5, <4>1 DEF Matched, N
      <4> QED
        BY <1>1, <1>2, <4>2, <4>3
    <3> QED
      BY <3>1, <3>2
  <2>3. Cardinality(CallsUpTo(f, Len(f))) = Len(q)
    BY <1>2, <1>4, <2>1
  <2> QED
    BY <2>2, <2>3 DEF Matched
<1>6. ASSUME Matched(f, q)
      PROVE  Matched(g, st) /\ x.seqno = m.seqno
  <2>1. k + 1 = Len(st) + 1
    BY <1>2, <1>4, <1>6 DEF Matched
  <2>2. k = Len(st)
    BY <1>2, <1>3, <2>1
  <2>3. \A i \in CallsUpTo(f, Len(f)) : f[i].seqno = q[Cardinality(CallsUpTo(f, i))].seqno
    BY <1>6 DEF Matched
  <2>4. x.seqno = m.seqno
    <3>1. Len(f) \in CallsUpTo(f, Len(f))
      BY <1>1
    <3>2. f[Len(f)].seqno = q[k + 1].seqno
      BY <1>4, <2>3, <3>1
    <3> QED
      BY <1>1, <1>2, <2>2, <3>2
  <2>5. ASSUME NEW i \in CallsUpTo(g, N)
        PROVE  g[i].seqno = st[Cardinality(CallsUpTo(g, i))].seqno
    <3>1. i \in CallsUpTo(f, Len(f))
      BY <1>1
    <3>2. i \in 1 .. N /\ Cardinality(CallsUpTo(g, i)) \in 1 .. Len(st)
      BY <1>3, <2>2
    <3>3. f[i].seqno = q[Cardinality(CallsUpTo(f, i))].seqno
      BY <2>3, <3>1
    <3> QED
      BY <1>1, <1>2, <3>2, <3>3
  <2> QED
    BY <2>2, <2>4, <2>5 DEF Matched, k, N
<1> QED
  BY <1>5, <1>6 DEF f, q

\* The top Call is that of the innermost out-call.
LEMMA MatchedReturn ==
    ASSUME NEW g \in Stacks, NEW x \in FrameRec, x.at \in CallPlaces,
           NEW st \in Seq(Message), Matched(Append(g, x), st)
    PROVE  /\ st # <<>> /\ Last(st).seqno = x.seqno
           /\ Front(st) \in Seq(Message) /\ Matched(g, Front(st))
<1>1. st # <<>>
  <2>1. /\ CallsUpTo(Append(g, x), Len(Append(g, x))) # {}
        /\ IsFiniteSet(CallsUpTo(g, Len(g)))
        /\ CallsUpTo(Append(g, x), Len(Append(g, x)))
              = CallsUpTo(g, Len(g)) \cup {Len(Append(g, x))}
    BY CallsUpToAppend, CallsUpToIs
  <2>2. IsFiniteSet(CallsUpTo(Append(g, x), Len(Append(g, x))))
    BY <2>1, FS_AddElement
  <2>3. Cardinality(CallsUpTo(Append(g, x), Len(Append(g, x)))) # 0
    BY <2>1, <2>2, FS_EmptySet
  <2>4. Cardinality(CallsUpTo(Append(g, x), Len(Append(g, x)))) = Len(st)
    BY Zenon DEF Matched
  <2> QED
    BY <2>3, <2>4, EmptySeq
<1>2. Front(st) \in Seq(Message) /\ Last(st) \in Message /\ st = Append(Front(st), Last(st))
  BY <1>1, FrontLast
<1>3. Matched(Append(g, x), Append(Front(st), Last(st)))
  BY <1>2, Zenon
<1>4. Matched(g, Front(st)) /\ x.seqno = Last(st).seqno
  BY <1>2, <1>3, MatchedCall
<1> QED
  BY <1>1, <1>2, <1>4

\* The frames of a stack, and how many of them handle a given in-call.
LEMMA StackIs ==
    ASSUME NEW g \in Stacks
    PROVE  /\ Len(g) \in Nat /\ DOMAIN g = 1 .. Len(g)
           /\ \A i \in 1 .. Len(g) : g[i] \in FrameRec /\ g[i].at \in FrameKinds
                                     /\ g[i].seqno \in Int
           /\ \A n \in Int : /\ Running(g, n) \in Nat
                             /\ Running(g, n) = 0
                                   <=> \A i \in 1 .. Len(g) : g[i] # Frame("incall", n)
<1>1. g \in Seq(FrameRec)
  BY DEF Stacks
<1>2. Len(g) \in Nat /\ DOMAIN g = 1 .. Len(g)
  BY <1>1, LenProperties
<1>3. \A i \in 1 .. Len(g) : g[i] \in FrameRec
  BY <1>1, ElementOfSeq
<1>4. \A x \in FrameRec : x.at \in FrameKinds /\ x.seqno \in Int
  BY DEF FrameRec
<1>5. ASSUME NEW n \in Int
      PROVE  /\ Running(g, n) \in Nat
             /\ Running(g, n) = 0 <=> \A i \in 1 .. Len(g) : g[i] # Frame("incall", n)
  BY <1>1, <1>2, OccurrencesType DEF Running
<1> QED
  BY <1>2, <1>3, <1>4, <1>5

\* A frame pushed on a stack: CxxStackFrame's constructor.
LEMMA AppendGrown ==
    ASSUME NEW g \in Stacks, NEW x \in FrameRec
    PROVE  Append(g, x) \in Stacks /\ Grown(g, x, Append(g, x))
<1> DEFINE f == Append(g, x)
<1>1. /\ f \in Stacks /\ f # <<>> /\ Len(g) \in Nat /\ DOMAIN g = 1 .. Len(g)
      /\ DOMAIN f = 1 .. Len(g) + 1 /\ f[Len(g) + 1] = x
      /\ \A i \in 1 .. Len(g) : f[i] = g[i]
  BY AppendIs DEF Stacks
<1>2. Handled(g) \in Nat /\ Handled(f) = Handled(g) + (IF x.at = "incall" THEN 1 ELSE 0)
  <2>1. Ats(g) \in Seq(FrameKinds) /\ x.at \in FrameKinds
    <3>1. Ats(g) \in [1 .. Len(g) -> FrameKinds]
      BY <1>1, StackIs DEF Ats
    <3>2. Ats(g) \in Seq(FrameKinds)
      BY <1>1, <3>1
    <3> QED
      BY <3>2 DEF FrameRec
  <2>2. Ats(f) = Append(Ats(g), x.at)
    <3>1. /\ Ats(f) = [i \in 1 .. Len(g) + 1 |-> f[i].at]
          /\ DOMAIN Ats(g) = 1 .. Len(g) /\ \A i \in 1 .. Len(g) : Ats(g)[i] = g[i].at
      BY <1>1 DEF Ats
    <3>2. /\ Append(Ats(g), x.at) \in Seq(FrameKinds)
          /\ Len(Ats(g)) = Len(g)
          /\ Len(Append(Ats(g), x.at)) = Len(g) + 1
          /\ \A i \in 1 .. Len(g) : Append(Ats(g), x.at)[i] = Ats(g)[i]
          /\ Append(Ats(g), x.at)[Len(g) + 1] = x.at
      <4>1. Len(Ats(g)) = Len(g)
        BY <1>1, <2>1, <3>1, LenProperties
      <4> QED
        BY <2>1, <4>1, AppendIs
    <3> HIDE DEF f
    <3>3. \A i \in 1 .. Len(g) + 1 : f[i].at = Append(Ats(g), x.at)[i]
      BY <1>1, <3>1, <3>2
    <3>4. /\ Ats(f) \in Seq(FrameKinds) /\ Len(Ats(f)) = Len(g) + 1
          /\ \A i \in 1 .. Len(g) + 1 : Ats(f)[i] = f[i].at
      <4>1. \A i \in 1 .. Len(g) + 1 : f[i].at \in FrameKinds
        BY <1>1, StackIs
      <4>2. Ats(f) \in [1 .. Len(g) + 1 -> FrameKinds]
        BY <3>1, <4>1
      <4>3. Ats(f) \in Seq(FrameKinds)
        BY <1>1, <4>2
      <4>4. DOMAIN Ats(f) = 1 .. Len(g) + 1
        BY <3>1
      <4>5. Len(Ats(f)) = Len(g) + 1
        BY <1>1, <4>3, <4>4, LenProperties
      <4> QED
        BY <3>1, <4>3, <4>5
    <3>5. \A i \in 1 .. Len(Ats(f)) : Ats(f)[i] = Append(Ats(g), x.at)[i]
      BY <3>3, <3>4
    <3>6. Len(Ats(f)) = Len(Append(Ats(g), x.at))
      BY <3>2, <3>4
    <3>7. Ats(f) \in Seq(FrameKinds) /\ Append(Ats(g), x.at) \in Seq(FrameKinds)
      BY <3>2, <3>4
    <3> QED
      BY <3>5, <3>6, <3>7, SeqEqual
  <2>3. Occurrences("incall", Append(Ats(g), x.at))
           = Occurrences("incall", Ats(g)) + (IF x.at = "incall" THEN 1 ELSE 0)
    BY <2>1, OccurrencesAppend
  <2> QED
    BY <2>1, <2>2, <2>3, OccurrencesType DEF Handled
<1>3. \A n \in Int : /\ Running(g, n) \in Nat
                     /\ Running(f, n) = Running(g, n)
                                          + (IF x = Frame("incall", n) THEN 1 ELSE 0)
  <2> SUFFICES ASSUME NEW n \in Int
               PROVE  /\ Running(g, n) \in Nat
                      /\ Running(f, n) = Running(g, n)
                                           + (IF x = Frame("incall", n) THEN 1 ELSE 0)
    OBVIOUS
  <2>1. g \in Seq(FrameRec)
    BY DEF Stacks
  <2>2. Occurrences(Frame("incall", n), f)
           = Occurrences(Frame("incall", n), g) + (IF x = Frame("incall", n) THEN 1 ELSE 0)
    BY <2>1, OccurrencesAppend
  <2> QED
    BY <2>2, StackIs DEF Running
<1> HIDE DEF f
<1>4. \A c, n \in Int : Below(g, c, n) => Below(f, c, n)
  <2> SUFFICES ASSUME NEW c \in Int, NEW n \in Int, Below(g, c, n)
               PROVE  Below(f, c, n)
    OBVIOUS
  <2>1. PICK j \in DOMAIN g : /\ g[j].at \in CallPlaces /\ g[j].seqno = n
                              /\ \E i \in 1 .. j - 1 : g[i] = Frame("incall", c)
    BY Zenon DEF Below
  <2>2. PICK i \in 1 .. j - 1 : g[i] = Frame("incall", c)
    BY <2>1
  <2>3. j \in DOMAIN f /\ f[j] = g[j] /\ f[i] = g[i]
    BY <1>1
  <2> QED
    BY <2>1, <2>2, <2>3 DEF Below
<1>5. \A c, n \in Int : Below(f, c, n) /\ ~Below(g, c, n)
                           => /\ x.at \in CallPlaces /\ x.seqno = n
                              /\ Running(g, c) > 0
  <2> SUFFICES ASSUME NEW c \in Int, NEW n \in Int, Below(f, c, n), ~Below(g, c, n)
               PROVE  x.at \in CallPlaces /\ x.seqno = n /\ Running(g, c) > 0
    OBVIOUS
  <2>1. PICK j \in DOMAIN f : /\ f[j].at \in CallPlaces /\ f[j].seqno = n
                              /\ \E i \in 1 .. j - 1 : f[i] = Frame("incall", c)
    BY Zenon DEF Below
  <2>2. PICK i \in 1 .. j - 1 : f[i] = Frame("incall", c)
    BY <2>1
  <2>3. i \in 1 .. Len(g) /\ g[i] = Frame("incall", c)
    BY <1>1, <2>2
  <2>4. ~(j \in 1 .. Len(g))
    BY <1>1, <2>1, <2>2, <2>3 DEF Below
  <2>5. f[j] = x
    BY <1>1, <2>4
  <2>6. Running(g, c) # 0
    BY <1>1, <2>3, StackIs
  <2> QED
    BY <1>3, <2>1, <2>5, <2>6
<1>6. \A c, n \in Int : x.at \in CallPlaces /\ x.seqno = n /\ Running(g, c) > 0
                           => Below(f, c, n)
  <2> SUFFICES ASSUME NEW c \in Int, NEW n \in Int, x.at \in CallPlaces, x.seqno = n,
                      Running(g, c) > 0
               PROVE  Below(f, c, n)
    OBVIOUS
  <2>0. Running(g, c) # 0
    OBVIOUS
  <2>1. PICK i \in DOMAIN g : g[i] = Frame("incall", c)
    <3>1. ~ \A i \in 1 .. Len(g) : g[i] # Frame("incall", c)
      BY <2>0, StackIs, Zenon
    <3> QED
      BY <1>1, <3>1
  <2> DEFINE j == Len(g) + 1
  <2>2. j \in DOMAIN f /\ f[j] = x /\ i \in 1 .. j - 1 /\ f[i] = Frame("incall", c)
    BY <1>1, <2>1
  <2> HIDE DEF j
  <2> QED
    BY <2>2 DEF Below
<1>7. (Rooted(g) /\ (g = <<>> => x.at # "nest")) <=> Rooted(f)
  <2>1. CASE g = <<>>
    BY <1>1, <2>1 DEF Rooted
  <2>2. CASE g # <<>>
    <3>1. 1 \in 1 .. Len(g)
      BY <1>1, <2>2, EmptySeq DEF Stacks
    <3> QED
      BY <1>1, <2>2, <3>1 DEF Rooted
  <2> QED
    BY <2>1, <2>2
<1>8. x.at \notin CallPlaces => \A st \in Seq(Message) : Matched(f, st) <=> Matched(g, st)
  BY MatchedOther DEF f
<1>9. Grown(g, x, f)
  BY <1>2, <1>3, <1>4, <1>5, <1>6, <1>7, <1>8 DEF Grown
<1> QED
  BY <1>1, <1>9 DEF f

\* A stack that is not empty is its front with its last frame on top.
LEMMA FrontGrown ==
    ASSUME NEW f \in Stacks, f # <<>>
    PROVE  /\ Front(f) \in Stacks /\ Last(f) \in FrameRec
           /\ f = Append(Front(f), Last(f))
           /\ Grown(Front(f), Last(f), f)
<1>1. Front(f) \in Stacks /\ Last(f) \in FrameRec /\ f = Append(Front(f), Last(f))
  BY FrontLast DEF Stacks
<1>2. Grown(Front(f), Last(f), Append(Front(f), Last(f)))
  BY <1>1, AppendGrown
<1> QED
  BY <1>1, <1>2, Zenon

-----------------------------------------------------------------------------
(***************************************************************************)
(* What the steps of a worker do to its C++ stack f, leaving h.            *)
(***************************************************************************)

\* The same in-calls are being handled.
Steady(f, h) ==
    /\ h \in Stacks /\ Handled(h) = Handled(f)
    /\ \A n \in Int : Running(h, n) = Running(f, n)
    /\ Rooted(f) => Rooted(h)

KeepsBelow(f, h) == \A c, n \in Int : Below(f, c, n) => Below(h, c, n)
KeepsMatched(f, h) == \A st \in Seq(Message) : Matched(f, st) => Matched(h, st)

\* And the same Calls are active.
Plain(f, h) == Steady(f, h) /\ KeepsMatched(f, h) /\ KeepsBelow(f, h)

\* The Call with seqno n begins, or ends.
Called(f, h, n) ==
    /\ Steady(f, h) /\ KeepsBelow(f, h)
    /\ \A st \in Seq(Message), m \in Message :
          m.seqno = n /\ Matched(f, st) => Matched(h, Append(st, m))
    /\ \A c \in Int : Running(f, c) > 0 => Below(h, c, n)
Returned(f, h, n) ==
    /\ Steady(f, h)
    /\ \A st \in Seq(Message) :
          Matched(f, st) => st # <<>> /\ Last(st).seqno = n /\ Matched(h, Front(st))
    /\ \A c, k \in Int : k # n /\ Below(f, c, k) => Below(h, c, k)

\* The handler of the in-call with seqno n begins, or ends.
Entered(f, h, n) ==
    /\ h \in Stacks /\ KeepsMatched(f, h) /\ KeepsBelow(f, h)
    /\ Rooted(f) => Rooted(h)
    /\ Handled(h) = Handled(f) + 1
    /\ \A k \in Int : Running(h, k) = Running(f, k) + (IF k = n THEN 1 ELSE 0)
Left(f, h, n) ==
    /\ h \in Stacks /\ KeepsMatched(f, h) /\ KeepsBelow(f, h)
    /\ Rooted(f) => Rooted(h)
    /\ Handled(f) = Handled(h) + 1
    /\ \A k \in Int : Running(f, k) = Running(h, k) + (IF k = n THEN 1 ELSE 0)

\* A stack that stays the same has the same in-calls and Calls.
LEMMA PlainItself ==
    ASSUME NEW f \in Stacks
    PROVE  Plain(f, f)
BY DEF Plain, Steady, KeepsMatched, KeepsBelow

\* Two steps that keep the in-calls and Calls keep them together.
LEMMA PlainTwice ==
    ASSUME NEW f \in Stacks, NEW g \in Stacks, NEW h \in Stacks, Plain(f, g), Plain(g, h)
    PROVE  Plain(f, h)
<1>1. Steady(f, h)
  BY DEF Plain, Steady
<1>2. KeepsMatched(f, h)
  BY DEF Plain, KeepsMatched
<1>3. KeepsBelow(f, h)
  BY DEF Plain, KeepsBelow
<1> QED
  BY <1>1, <1>2, <1>3 DEF Plain

\* A step that keeps the in-calls and Calls may precede the begin of a handler.
LEMMA PlainEntered ==
    ASSUME NEW f \in Stacks, NEW g \in Stacks, NEW h \in Stacks, NEW n \in Int,
           Plain(f, g), Entered(g, h, n)
    PROVE  Entered(f, h, n)
<1>1. KeepsMatched(f, h) /\ KeepsBelow(f, h)
  BY DEF Plain, Entered, KeepsMatched, KeepsBelow
<1>2. Handled(g) = Handled(f) /\ (Rooted(f) => Rooted(g)) /\ \A k \in Int : Running(g, k) = Running(f, k)
  BY DEF Plain, Steady
<1>3. /\ h \in Stacks /\ Handled(h) = Handled(g) + 1 /\ (Rooted(g) => Rooted(h))
      /\ \A k \in Int : Running(h, k) = Running(g, k) + (IF k = n THEN 1 ELSE 0)
  BY DEF Entered
<1>4. /\ Handled(h) = Handled(f) + 1 /\ (Rooted(f) => Rooted(h))
      /\ \A k \in Int : Running(h, k) = Running(f, k) + (IF k = n THEN 1 ELSE 0)
  BY <1>2, <1>3
<1> QED
  BY <1>1, <1>3, <1>4 DEF Entered

\* A frame that is neither a Call nor handles an in-call comes and goes.
Minor(x) == x.at \notin CallPlaces /\ x.at # "incall"

\* A frame of no Call and no in-call, pushed or popped, changes neither; an event
\* loop must be nested in something.
LEMMA GrownMinor ==
    ASSUME NEW g \in Stacks, NEW x \in FrameRec, Minor(x), NEW f, f = Append(g, x)
    PROVE  /\ x.at # "nest" \/ g # <<>> => Plain(g, f)
           /\ Plain(f, g)
           /\ g \in Stacks /\ f \in Stacks
<1>1. f \in Stacks /\ Grown(g, x, f)
  BY AppendGrown
<1>2. /\ Handled(f) = Handled(g)
      /\ \A n \in Int : Running(f, n) = Running(g, n)
      /\ Rooted(f) => Rooted(g)
      /\ Rooted(g) /\ (x.at # "nest" \/ g # <<>>) => Rooted(f)
  <2>1. x.at # "incall" /\ \A n \in Int : x # Frame("incall", n)
    BY DEF Minor, Frame
  <2>2. Handled(f) = Handled(g) /\ \A n \in Int : Running(f, n) = Running(g, n)
    BY <1>1, <2>1 DEF Grown
  <2>3. (Rooted(g) /\ (g = <<>> => x.at # "nest")) <=> Rooted(f)
    BY <1>1, Zenon DEF Grown
  <2> QED
    BY <2>2, <2>3
<1>3. KeepsMatched(f, g) /\ KeepsMatched(g, f) /\ KeepsBelow(f, g) /\ KeepsBelow(g, f)
  BY <1>1 DEF Grown, KeepsMatched, KeepsBelow, Minor
<1> QED
  BY <1>1, <1>2, <1>3 DEF Plain, Steady

\* Such a frame is pushed.
LEMMA PushMinor ==
    ASSUME NEW f \in Stacks, NEW x \in FrameRec, Minor(x), x.at # "nest" \/ f # <<>>
    PROVE  Plain(f, Append(f, x)) /\ Append(f, x) \in Stacks
BY GrownMinor

\* Such a frame is popped.
LEMMA PopMinor ==
    ASSUME NEW f \in Stacks, f # <<>>, Minor(Last(f))
    PROVE  Plain(f, Front(f)) /\ Front(f) \in Stacks
BY FrontGrown, GrownMinor

\* Such a frame takes the place of another.
LEMMA TopMinor ==
    ASSUME NEW f \in Stacks, f # <<>>, Minor(Last(f)), NEW x \in FrameRec, Minor(x), x.at # "nest"
    PROVE  Plain(f, Append(Front(f), x)) /\ Append(Front(f), x) \in Stacks
<1>1. Plain(f, Front(f)) /\ Front(f) \in Stacks
  BY PopMinor
<1>2. Plain(Front(f), Append(Front(f), x)) /\ Append(Front(f), x) \in Stacks
  BY <1>1, PushMinor
<1> QED
  BY <1>1, <1>2, PlainTwice

\* The top frame is that of a Call, and stays, is left because the channel is
\* broken, or returns.
LEMMA GrownCall ==
    ASSUME NEW g \in Stacks, NEW x \in FrameRec, x.at \in CallPlaces, NEW f, f = Append(g, x)
    PROVE  /\ g \in Stacks /\ f \in Stacks /\ Called(g, f, x.seqno) /\ Returned(f, g, x.seqno)
<1>1. f \in Stacks /\ Grown(g, x, f)
  BY AppendGrown
<1>2. Steady(f, g) /\ Steady(g, f) /\ KeepsBelow(g, f)
  <2>1. x.at # "incall" /\ x.at # "nest" /\ \A n \in Int : x # Frame("incall", n)
    BY DEF CallPlaces, Frame
  <2>2. /\ Handled(f) = Handled(g)
        /\ \A n \in Int : Running(f, n) = Running(g, n)
        /\ Rooted(f) <=> Rooted(g)
    BY <1>1, <2>1 DEF Grown
  <2>3. KeepsBelow(g, f)
    BY <1>1 DEF Grown, KeepsBelow
  <2> QED
    BY <1>1, <2>2, <2>3 DEF Steady
<1>3. \A c, k \in Int : k # x.seqno /\ Below(f, c, k) => Below(g, c, k)
  BY <1>1 DEF Grown
<1>4. \A c \in Int : Running(g, c) > 0 => Below(f, c, x.seqno)
  BY <1>1 DEF Grown, FrameRec
<1>5. \A st \in Seq(Message), m \in Message :
         m.seqno = x.seqno /\ Matched(g, st) => Matched(f, Append(st, m))
  BY MatchedCall
<1>6. \A st \in Seq(Message) :
         Matched(f, st) => st # <<>> /\ Last(st).seqno = x.seqno /\ Matched(g, Front(st))
  BY MatchedReturn
<1> QED
  BY <1>1, <1>2, <1>3, <1>4, <1>5, <1>6, Zenon DEF Called, Returned

\* The frame of a Call is pushed: the Call begins.
LEMMA PushCall ==
    ASSUME NEW f \in Stacks, NEW x \in FrameRec, x.at \in CallPlaces
    PROVE  Called(f, Append(f, x), x.seqno) /\ Append(f, x) \in Stacks
BY GrownCall

\* The frame of a Call is popped: the Call ends.
LEMMA PopCall ==
    ASSUME NEW f \in Stacks, f # <<>>, Last(f).at \in CallPlaces
    PROVE  Returned(f, Front(f), Last(f).seqno) /\ Front(f) \in Stacks
BY FrontGrown, GrownCall

\* A Call that returns to its caller, or fails, ends.
LEMMA TopReturn ==
    ASSUME NEW f \in Stacks, f # <<>>, Last(f).at \in CallPlaces,
           NEW x \in FrameRec, Minor(x), x.at # "nest"
    PROVE  Returned(f, Append(Front(f), x), Last(f).seqno) /\ Append(Front(f), x) \in Stacks
<1> DEFINE g == Front(f)
           h == Append(Front(f), x)
           n == Last(f).seqno
<1>1. Returned(f, g, n) /\ g \in Stacks
  BY PopCall
<1>2. Plain(g, h) /\ h \in Stacks
  BY <1>1, PushMinor
<1> HIDE DEF g, h, n
<1>3. Steady(f, h)
  BY <1>1, <1>2 DEF Returned, Plain, Steady
<1>4. \A c, k \in Int : k # n /\ Below(f, c, k) => Below(h, c, k)
  BY <1>1, <1>2 DEF Returned, Plain, KeepsBelow
<1>5. ASSUME NEW st \in Seq(Message), Matched(f, st)
      PROVE  st # <<>> /\ Last(st).seqno = n /\ Matched(h, Front(st))
  <2>1. st # <<>> /\ Last(st).seqno = n /\ Matched(g, Front(st))
    BY <1>1, <1>5 DEF Returned
  <2>2. Front(st) \in Seq(Message)
    BY <2>1, FrontLast
  <2> QED
    BY <1>2, <2>1, <2>2 DEF Plain, KeepsMatched
<1>6. Returned(f, h, n)
  BY <1>3, <1>4, <1>5 DEF Returned
<1> QED
  BY <1>2, <1>6 DEF h, n

\* A Call that moves on in its loop is the same Call.
LEMMA TopCall ==
    ASSUME NEW f \in Stacks, f # <<>>, Last(f).at \in CallPlaces,
           NEW x \in FrameRec, x.at \in CallPlaces, x.seqno = Last(f).seqno
    PROVE  Plain(f, Append(Front(f), x)) /\ Append(Front(f), x) \in Stacks
<1> DEFINE g == Front(f)
           h == Append(Front(f), x)
           n == x.seqno
<1>1. Returned(f, g, n) /\ g \in Stacks
  BY PopCall
<1>2. Called(g, h, n) /\ h \in Stacks /\ Grown(g, x, h)
  BY <1>1, PushCall, AppendGrown
<1>3. Last(f) \in FrameRec /\ Grown(g, Last(f), f)
  BY FrontGrown
<1>4. n \in Int
  BY DEF FrameRec
<1>5. ASSUME NEW c \in Int, NEW k \in Int, Below(f, c, k)
      PROVE  Below(h, c, k)
  <2>1. CASE Below(g, c, k)
    BY <1>2, <2>1 DEF Called, KeepsBelow
  <2>2. CASE ~Below(g, c, k)
    <3>1. Last(f).seqno = k /\ Running(g, c) > 0
      BY <1>3, <1>5, <2>2 DEF Grown
    <3> QED
      BY <1>2, <3>1 DEF Called
  <2> QED
    BY <2>1, <2>2
<1> HIDE DEF g, h, n
<1>6. Steady(f, h)
  BY <1>1, <1>2 DEF Returned, Called, Steady
<1>7. ASSUME NEW st \in Seq(Message), Matched(f, st)
      PROVE  Matched(h, st)
  <2>1. st # <<>> /\ Last(st).seqno = n /\ Matched(g, Front(st))
    BY <1>1, <1>7 DEF Returned
  <2>2. Front(st) \in Seq(Message) /\ Last(st) \in Message /\ st = Append(Front(st), Last(st))
    BY <2>1, FrontLast
  <2>3. Matched(h, Append(Front(st), Last(st)))
    BY <1>2, <2>1, <2>2, Zenon DEF Called
  <2> QED
    BY <2>2, <2>3, Zenon
<1>8. Plain(f, h)
  BY <1>5, <1>6, <1>7 DEF Plain, KeepsMatched, KeepsBelow
<1> QED
  BY <1>2, <1>8 DEF h

\* Whatever replaces a frame other than an in-call's, the in-calls stay.
LEMMA TopSteady ==
    ASSUME NEW f \in Stacks, f # <<>>, Last(f).at # "incall",
           NEW x \in FrameRec, Minor(x), x.at # "nest"
    PROVE  Steady(f, Append(Front(f), x)) /\ Append(Front(f), x) \in Stacks
<1>1. CASE Last(f).at \in CallPlaces
  BY <1>1, TopReturn DEF Returned
<1>2. CASE Last(f).at \notin CallPlaces
  <2>1. Minor(Last(f))
    BY <1>2 DEF Minor
  <2> QED
    BY <2>1, TopMinor DEF Plain
<1> QED
  BY <1>1, <1>2

\* The handler of an in-call is entered, or about to be left.
LEMMA GrownIncall ==
    ASSUME NEW g \in Stacks, NEW n \in Int, NEW f, f = Append(g, Frame("incall", n))
    PROVE  /\ Entered(g, f, n) /\ Left(f, g, n)
           /\ g \in Stacks /\ f \in Stacks
<1> DEFINE x == Frame("incall", n)
<1>1. x \in FrameRec /\ x.at = "incall" /\ x.seqno = n /\ "incall" \notin CallPlaces
  BY DEF FrameRec, Frame, FrameKinds, CallPlaces
<1>2. \A k \in Int : x = Frame("incall", k) <=> k = n
  BY DEF Frame
<1> HIDE DEF x
<1>3. f = Append(g, x)
  BY DEF x
<1>4. f \in Stacks /\ Grown(g, x, f)
  BY <1>1, <1>3, AppendGrown
<1>5. KeepsMatched(f, g) /\ KeepsMatched(g, f) /\ KeepsBelow(f, g) /\ KeepsBelow(g, f)
  BY <1>1, <1>4 DEF Grown, KeepsMatched, KeepsBelow
<1>6. /\ Handled(f) = Handled(g) + 1
      /\ Rooted(f) <=> Rooted(g)
      /\ \A k \in Int : Running(f, k) = Running(g, k) + (IF k = n THEN 1 ELSE 0)
  BY <1>1, <1>2, <1>4 DEF Grown
<1> QED
  BY <1>4, <1>5, <1>6 DEF Entered, Left

\* The frame of an in-call is pushed: its handler begins.
LEMMA PushIncall ==
    ASSUME NEW f \in Stacks, NEW n \in Int
    PROVE  /\ Entered(f, Append(f, Frame("incall", n)), n)
           /\ Append(f, Frame("incall", n)) \in Stacks
BY GrownIncall

\* The frame of an in-call is replaced: its handler ends.
LEMMA TopIncall ==
    ASSUME NEW f \in Stacks, f # <<>>, Last(f).at = "incall",
           NEW x \in FrameRec, Minor(x), x.at # "nest"
    PROVE  /\ Left(f, Append(Front(f), x), Last(f).seqno)
           /\ Append(Front(f), x) \in Stacks
<1> DEFINE g == Front(f)
           h == Append(Front(f), x)
           n == Last(f).seqno
<1>1. /\ g \in Stacks /\ f = Append(g, Last(f)) /\ Last(f) \in FrameRec
  BY FrontGrown
<1>2. Last(f) = Frame("incall", n) /\ n \in Int
  BY <1>1 DEF FrameRec, Frame
<1>3. Left(f, g, n)
  <2> HIDE DEF g, n
  <2>1. f = Append(g, Frame("incall", n))
    BY <1>1, <1>2, Zenon
  <2> QED
    BY <1>1, <1>2, <2>1, GrownIncall
<1>4. Plain(g, h) /\ h \in Stacks
  BY <1>1, PushMinor
<1> HIDE DEF g, h, n
<1>5. KeepsMatched(f, h) /\ KeepsBelow(f, h)
  BY <1>3, <1>4 DEF Plain, Left, KeepsMatched, KeepsBelow
<1>6. /\ Handled(f) = Handled(h) + 1 /\ (Rooted(f) => Rooted(h))
      /\ \A k \in Int : Running(f, k) = Running(h, k) + (IF k = n THEN 1 ELSE 0)
  BY <1>3, <1>4 DEF Plain, Steady, Left
<1>7. Left(f, h, n)
  BY <1>4, <1>5, <1>6 DEF Left
<1> QED
  BY <1>4, <1>7 DEF h, n

\* A Call made while an in-call is handled has its frame above the handler's.
LEMMA BelowRuns ==
    ASSUME NEW f \in Stacks, NEW c \in Int, NEW n \in Int, Below(f, c, n)
    PROVE  Running(f, c) > 0 /\ Running(f, c) \in Nat
<1>1. PICK j \in DOMAIN f : \E i \in 1 .. j - 1 : f[i] = Frame("incall", c)
  BY Zenon DEF Below
<1>2. PICK i \in 1 .. j - 1 : f[i] = Frame("incall", c)
  BY <1>1
<1>3. i \in 1 .. Len(f)
  BY <1>2, StackIs
<1>4. Running(f, c) \in Nat
  BY StackIs
<1>5. Running(f, c) # 0
  BY <1>2, <1>3, StackIs, Zenon
<1> QED
  BY <1>4, <1>5

-----------------------------------------------------------------------------
(***************************************************************************)
(* Messages of calls, wherever a side holds them: on the wire to it,       *)
(* pending or deferred.                                                    *)
(***************************************************************************)

RPCs == {m \in Message : m.kind = "rpc"}
Requests == {m \in RPCs : ~m.reply}

Held(w, p, d, e) == Occurrences(e, w) + Occurrences(e, p) + Occurrences(e, d)

\* The messages that the code builds: their types, seqnos and guesses, and that a
\* reply is no request.
LEMMA MessagesAre ==
    /\ Async \in Message
    /\ \A n \in Int : /\ Sync(n) \in Message /\ SyncReply(n) \in Message
                      /\ RPCReply(n) \in RPCs /\ RPCReply(n) \notin Requests
                      /\ \A k \in Int : RPCReply(k) = RPCReply(n) <=> k = n
    /\ \A n \in Int, g \in Nat : /\ RPC(n, g) \in Requests /\ RPC(n, g) \in Message
                                 /\ RPC(n, g).seqno = n /\ RPC(n, g).guess = g
    /\ Requests \subseteq RPCs /\ RPCs \subseteq Message
    /\ \A m \in Message : m.seqno \in Int /\ m.guess \in Nat /\ m.reply \in BOOLEAN
    /\ \A m \in RPCs : m.kind = "rpc"
    /\ \A m \in RPCs \ Requests : m = RPCReply(m.seqno)
<1>1. Async \in Message
  BY DEF Message, Async
<1>2. ASSUME NEW n \in Int
      PROVE  /\ Sync(n) \in Message /\ SyncReply(n) \in Message
             /\ RPCReply(n) \in RPCs /\ RPCReply(n) \notin Requests
             /\ RPCReply(n).seqno = n
  BY DEF Message, RPCs, Requests, Sync, SyncReply, RPCReply
<1>3. ASSUME NEW n \in Int, NEW k \in Int
      PROVE  RPCReply(k) = RPCReply(n) <=> k = n
  BY DEF RPCReply
<1>4. ASSUME NEW n \in Int, NEW g \in Nat
      PROVE  /\ RPC(n, g) \in Requests /\ RPC(n, g) \in Message
             /\ RPC(n, g).seqno = n /\ RPC(n, g).guess = g
  BY DEF Message, RPCs, Requests, RPC
<1>5. Requests \subseteq RPCs /\ RPCs \subseteq Message /\ \A m \in RPCs : m.kind = "rpc"
  BY DEF RPCs, Requests
<1>6. \A m \in Message : m.seqno \in Int /\ m.guess \in Nat /\ m.reply \in BOOLEAN
  BY DEF Message
<1>7. ASSUME NEW m \in RPCs \ Requests
      PROVE  m = RPCReply(m.seqno)
  BY DEF Message, RPCs, Requests, RPCReply
<1> QED
  BY <1>1, <1>2, <1>3, <1>4, <1>5, <1>6, <1>7

\* How often a message is held is a number.
LEMMA HeldType ==
    ASSUME NEW w \in Seq(Message), NEW p \in Seq(Message), NEW d \in Seq(Message), NEW e
    PROVE  /\ Occurrences(e, w) \in Nat /\ Occurrences(e, p) \in Nat
           /\ Occurrences(e, d) \in Nat /\ Held(w, p, d, e) \in Nat
<1>1. Occurrences(e, w) \in Nat /\ Occurrences(e, p) \in Nat /\ Occurrences(e, d) \in Nat
  BY OccurrencesType
<1> QED
  BY <1>1 DEF Held

\* A message sent is held once more.
LEMMA HeldSend ==
    ASSUME NEW w \in Seq(Message), NEW p \in Seq(Message), NEW d \in Seq(Message),
           NEW x \in Message, NEW e
    PROVE  Held(Append(w, x), p, d, e) = Held(w, p, d, e) + (IF x = e THEN 1 ELSE 0)
<1>1. Occurrences(e, Append(w, x)) = Occurrences(e, w) + (IF x = e THEN 1 ELSE 0)
  BY OccurrencesAppend
<1>2. Occurrences(e, w) \in Nat /\ Occurrences(e, p) \in Nat /\ Occurrences(e, d) \in Nat
  BY HeldType
<1> QED
  BY <1>1, <1>2 DEF Held

\* A message deferred is held once more in the queue of deferred calls.
LEMMA HeldDefer ==
    ASSUME NEW w \in Seq(Message), NEW p \in Seq(Message), NEW d \in Seq(Message),
           NEW x \in Message, NEW e
    PROVE  Held(w, p, Append(d, x), e) = Held(w, p, d, e) + (IF x = e THEN 1 ELSE 0)
<1>1. Occurrences(e, Append(d, x)) = Occurrences(e, d) + (IF x = e THEN 1 ELSE 0)
  BY OccurrencesAppend
<1>2. Occurrences(e, w) \in Nat /\ Occurrences(e, p) \in Nat /\ Occurrences(e, d) \in Nat
  BY HeldType
<1> QED
  BY <1>1, <1>2 DEF Held

\* The message taken from the queue is held once less.
LEMMA HeldTake ==
    ASSUME NEW w \in Seq(Message), NEW p \in Seq(Message), NEW d \in Seq(Message),
           p # <<>>, NEW e
    PROVE  Held(w, p, d, e) = Held(w, Tail(p), d, e) + (IF Head(p) = e THEN 1 ELSE 0)
<1>1. Occurrences(e, p) = Occurrences(e, Tail(p)) + (IF Head(p) = e THEN 1 ELSE 0)
  BY OccurrencesTail
<1>2. Tail(p) \in Seq(Message)
  BY HeadTailProperties
<1>3. /\ Occurrences(e, w) \in Nat /\ Occurrences(e, p) \in Nat /\ Occurrences(e, d) \in Nat
      /\ Occurrences(e, Tail(p)) \in Nat
  BY <1>2, HeldType
<1> QED
  BY <1>1, <1>3 DEF Held

\* A link that fails loses what is on its way.
LEMMA HeldLost ==
    ASSUME NEW w \in Seq(Message), NEW p \in Seq(Message), NEW d \in Seq(Message), NEW e
    PROVE  Held(<<>>, p, d, e) <= Held(w, p, d, e)
<1>1. Occurrences(e, <<>>) = 0
  BY OccurrencesEmpty
<1>2. Occurrences(e, w) \in Nat /\ Occurrences(e, p) \in Nat /\ Occurrences(e, d) \in Nat
  BY HeldType
<1> QED
  BY <1>1, <1>2 DEF Held

\* MaybeUndeferIncall moves a message from one queue to the other.
LEMMA HeldUndefer ==
    ASSUME NEW w \in Seq(Message), NEW p \in Seq(Message), NEW d \in Seq(Message),
           d # <<>>, NEW e
    PROVE  Held(w, Append(p, Last(d)), Front(d), e) = Held(w, p, d, e)
<1>1. Front(d) \in Seq(Message) /\ Last(d) \in Message
  BY FrontLast
<1>2. Occurrences(e, d) = Occurrences(e, Front(d)) + (IF Last(d) = e THEN 1 ELSE 0)
  BY OccurrencesFront
<1>3. Occurrences(e, Append(p, Last(d))) = Occurrences(e, p) + (IF Last(d) = e THEN 1 ELSE 0)
  BY <1>1, OccurrencesAppend
<1>4. /\ Occurrences(e, w) \in Nat /\ Occurrences(e, p) \in Nat
      /\ Occurrences(e, Front(d)) \in Nat
  BY <1>1, HeldType
<1> QED
  BY <1>2, <1>3, <1>4 DEF Held

\* The link moves a message to the queue, dropping at most an older message, or
\* drops it.
LEMMA HeldReceive ==
    ASSUME NEW w \in Seq(Message), NEW p \in Seq(Message), NEW d \in Seq(Message),
           w # <<>>, NEW e, NEW q, \/ q = p \/ q = Append(p, Head(w))
                                   \/ p # <<>> /\ q = Append(Front(p), Head(w))
    PROVE  q \in Seq(Message) /\ Held(Tail(w), q, d, e) <= Held(w, p, d, e)
<1> DEFINE k == IF Head(w) = e THEN 1 ELSE 0
<1>1. Occurrences(e, w) = Occurrences(e, Tail(w)) + k
  BY OccurrencesTail
<1>2. Tail(w) \in Seq(Message) /\ Head(w) \in Message
  BY HeadTailProperties
<1>3. q \in Seq(Message) /\ Occurrences(e, q) \in Nat /\ Occurrences(e, q) <= Occurrences(e, p) + k
  <2>1. CASE q = p
    <3>1. Occurrences(e, p) \in Nat
      BY OccurrencesType
    <3> QED
      BY <2>1, <3>1
  <2>2. CASE q = Append(p, Head(w))
    <3>1. Occurrences(e, Append(p, Head(w))) = Occurrences(e, p) + k
      BY <1>2, OccurrencesAppend
    <3>2. Occurrences(e, p) \in Nat
      BY OccurrencesType
    <3>3. q \in Seq(Message)
      BY <1>2, <2>2
    <3> QED
      BY <2>2, <3>1, <3>2, <3>3
  <2>3. CASE p # <<>> /\ q = Append(Front(p), Head(w))
    <3>1. Front(p) \in Seq(Message)
      BY <2>3, FrontLast
    <3>2. Occurrences(e, Append(Front(p), Head(w))) = Occurrences(e, Front(p)) + k
      BY <1>2, <3>1, OccurrencesAppend
    <3>3. Occurrences(e, p) = Occurrences(e, Front(p)) + (IF Last(p) = e THEN 1 ELSE 0)
      BY <2>3, OccurrencesFront
    <3>4. Occurrences(e, Front(p)) \in Nat /\ q \in Seq(Message)
      BY <1>2, <2>3, <3>1, OccurrencesType, AppendIs
    <3> QED
      BY <2>3, <3>2, <3>3, <3>4
  <2> QED
    BY <2>1, <2>2, <2>3
<1> HIDE DEF k
<1>4. k \in Nat
  BY DEF k
<1>5. /\ Occurrences(e, w) \in Nat /\ Occurrences(e, p) \in Nat /\ Occurrences(e, d) \in Nat
      /\ Occurrences(e, Tail(w)) \in Nat
  BY <1>2, HeldType
<1> QED
  BY <1>1, <1>3, <1>4, <1>5 DEF Held

-----------------------------------------------------------------------------
(***************************************************************************)
(* The state of a worker: its stack f, out-calls st, deferred calls d,     *)
(* guess g; c, is its side connected; sw, has its stack made a call.       *)
(***************************************************************************)

Sound(s, f, st, c, d, g, sw) ==
    /\ c => Matched(f, st)
    /\ g = Len(d) + Handled(f)
    /\ \A i \in 1 .. Len(d) : d[i] \in Requests
    /\ Rooted(f)
    /\ f = <<>> => ~sw
    /\ c /\ ~sw => st = <<>>

SideSound(s) == Sound(s, frames[s], mStack[s], connected[s], mDeferred[s],
                      mRemoteStackDepthGuess[s], mSawRPCOutMsg[s])

Base == TypeOK /\ \A s \in Sides : SideSound(s)

HeldBy(s, e) == Held(wire[s], mPending[s], mDeferred[s], e)
RunningOn(s, n) == Running(frames[s], n)

\* A worker that made no call since it left its event loop has a task for each
\* of its messages.
TasksFine(s) == connected[s] /\ ~mSawRPCOutMsg[s]
                   => tasks[s] >= Len(mPending[s]) + Len(mDeferred[s])

\* Nothing keeps such a worker from handling a call at once.
Innocent(s) == connected[s] /\ ~mSawRPCOutMsg[s] =>
    /\ mOutOfTurnReplies[s] = {}
    /\ \A e \in Requests : HeldBy(s, e) > 0 => e.guess = 0

-----------------------------------------------------------------------------
(***************************************************************************)
(* The six kinds of steps, by what they do to calls and replies.           *)
(***************************************************************************)

\* No side holds more messages of calls, connects again or loses a Call that
\* was made in the handler of an in-call.
HeldLess(s) == \A e \in RPCs : HeldBy(s, e)' <= HeldBy(s, e)
RunningLess(s) == \A n \in Int : RunningOn(s, n)' <= RunningOn(s, n)
BelowKept(s) == connected'[s] => connected[s] /\ KeepsBelow(frames[s], frames'[s])
TasksKept(s) == Innocent(s) /\ TasksFine(s) => TasksFine(s)'

\* Seqnos in the order in which a side hands them out.
Rank(s, n) == IF s = "child" THEN -n ELSE n

Onward == \A s \in Sides : Rank(s, mNextSeqno[s]) <= Rank(s, mNextSeqno'[s])
CallsSame == mStack' = mStack /\ Onward

Passive ==
    /\ CallsSame /\ mOutOfTurnReplies' = mOutOfTurnReplies
    /\ \A s \in Sides : HeldLess(s) /\ RunningLess(s) /\ BelowKept(s)

\* Side a begins to handle a call m ...
Begins(a) ==
    /\ CallsSame /\ mOutOfTurnReplies' = mOutOfTurnReplies
    /\ \A s \in Sides : HeldLess(s) /\ BelowKept(s)
    /\ RunningLess(Other(a))
    /\ \E m \in Requests :
          /\ HeldBy(a, m)' + 1 <= HeldBy(a, m)
          /\ \A n \in Int : RunningOn(a, n)' <= RunningOn(a, n) + (IF n = m.seqno THEN 1 ELSE 0)

\* ... and replies.
Replies(a) ==
    /\ CallsSame /\ mOutOfTurnReplies' = mOutOfTurnReplies
    /\ connected' = connected /\ connected[a]
    /\ HeldLess(a) /\ RunningLess(Other(a))
    /\ \A s \in Sides : BelowKept(s)
    /\ \E n \in Int :
          /\ \A k \in Int : RunningOn(a, k) = RunningOn(a, k)' + (IF k = n THEN 1 ELSE 0)
          /\ \A e \in RPCs : HeldBy(Other(a), e)' =
                HeldBy(Other(a), e) + (IF e = RPCReply(n) THEN 1 ELSE 0)
          /\ mPending'[Other(a)] = mPending[Other(a)]
          /\ wire'[Other(a)] = Append(wire[Other(a)], RPCReply(n))

\* The caller puts a reply aside.
PutsAside(a) ==
    /\ CallsSame
    /\ \A s \in Sides : HeldLess(s) /\ RunningLess(s) /\ BelowKept(s)
    /\ mOutOfTurnReplies'[Other(a)] = mOutOfTurnReplies[Other(a)]
    /\ \E n \in Int :
          /\ mOutOfTurnReplies'[a] = mOutOfTurnReplies[a] \cup {n}
          /\ HeldBy(a, RPCReply(n))' + 1 <= HeldBy(a, RPCReply(n))

\* A call begins.
Asks(a) ==
    /\ mOutOfTurnReplies' = mOutOfTurnReplies /\ connected' = connected /\ connected[a]
    /\ \A s \in Sides : RunningLess(s) /\ BelowKept(s)
    /\ HeldLess(a)
    /\ mStack'[Other(a)] = mStack[Other(a)] /\ mNextSeqno'[Other(a)] = mNextSeqno[Other(a)]
    /\ mNextSeqno'[a] = NextSeqno(a)
    /\ mDeferred'[a] = mDeferred[a] /\ Len(mStack'[a]) <= MaxFrames
    /\ \E m \in Requests :
          /\ m.seqno = NextSeqno(a) /\ m.guess = mRemoteStackDepthGuess[a]
          /\ mStack'[a] = Append(mStack[a], m)
          /\ \A e \in RPCs : HeldBy(Other(a), e)' =
                HeldBy(Other(a), e) + (IF e = m THEN 1 ELSE 0)
          /\ mPending'[Other(a)] = mPending[Other(a)]
          /\ wire'[Other(a)] = Append(wire[Other(a)], m)
          /\ \A c \in Int : Running(frames[a], c) > 0 => Below(frames'[a], c, m.seqno)

\* A call returns, with the reply put aside earlier or the one at hand.
Gets(a) ==
    /\ connected' = connected /\ connected[a]
    /\ \A s \in Sides : HeldLess(s) /\ RunningLess(s)
    /\ BelowKept(Other(a))
    /\ \A s \in Sides : mNextSeqno'[s] = mNextSeqno[s]
    /\ mStack'[Other(a)] = mStack[Other(a)]
    /\ mOutOfTurnReplies'[Other(a)] = mOutOfTurnReplies[Other(a)]
    /\ mStack[a] # <<>> /\ mStack'[a] = Front(mStack[a])
    /\ \A c, k \in Int : k # Last(mStack[a]).seqno /\ Below(frames[a], c, k)
                            => Below(frames'[a], c, k)
    /\ \/ /\ Last(mStack[a]).seqno \in mOutOfTurnReplies[a]
          /\ mOutOfTurnReplies'[a] = mOutOfTurnReplies[a] \ {Last(mStack[a]).seqno}
       \/ \E n \in Int :
             /\ mOutOfTurnReplies'[a] = mOutOfTurnReplies[a]
             /\ ~OutOfTurn(a, n)
             /\ HeldBy(a, RPCReply(n))' + 1 <= HeldBy(a, RPCReply(n))

Effects(a) ==
    /\ \A s \in Sides : TasksKept(s)
    /\ Passive \/ Begins(a) \/ Replies(a) \/ PutsAside(a) \/ Asks(a) \/ Gets(a)

-----------------------------------------------------------------------------
\* There are two sides, each the other's other.
LEMMA SidesAre ==
    ASSUME NEW a \in Sides
    PROVE  /\ Other(a) \in Sides /\ Other(a) # a /\ Other(Other(a)) = a
           /\ \A s \in Sides : s = a \/ s = Other(a)
BY DEF Sides, Other

\* The state of one side, with its types.
LEMMA SideTyped ==
    ASSUME TypeOK, NEW s \in Sides
    PROVE  /\ mPending[s] \in Seq(Message) /\ mStack[s] \in Seq(Message)
           /\ mOutOfTurnReplies[s] \in SUBSET Int /\ mDeferred[s] \in Seq(Message)
           /\ mRemoteStackDepthGuess[s] \in Nat /\ mSawRPCOutMsg[s] \in BOOLEAN
           /\ mNextSeqno[s] \in Int /\ connected[s] \in BOOLEAN
           /\ frames[s] \in Stacks /\ tasks[s] \in Nat /\ wire[s] \in Seq(Message)
<1>1. frames \in [Sides -> Stacks]
  BY DEF TypeOK, Stacks, FrameRec
<1> QED
  BY <1>1 DEF TypeOK

\* What the link carries that is no call and no reply to one.
LEMMA WireKept ==
    ASSUME NEW w \in Seq(Message), NEW p \in Seq(Message), NEW d \in Seq(Message), NEW v,
           \/ v = w
           \/ v = <<>>
           \/ \E x \in Message \ RPCs : v = Append(w, x)
    PROVE  /\ v \in Seq(Message)
           /\ \A e \in RPCs : Held(v, p, d, e) <= Held(w, p, d, e)
<1>1. CASE v = w
  <2>1. \A e \in RPCs : Held(w, p, d, e) \in Nat
    BY HeldType
  <2> QED
    BY <1>1, <2>1
<1>2. CASE v = <<>>
  <2>1. \A e \in RPCs : Held(<<>>, p, d, e) <= Held(w, p, d, e)
    BY HeldLost
  <2>2. <<>> \in Seq(Message) /\ Len(<<>>) = 0
    BY EmptySeq
  <2> QED
    BY <1>2, <2>1, <2>2
<1>3. ASSUME NEW x \in Message \ RPCs, v = Append(w, x)
      PROVE  /\ v \in Seq(Message)
             /\ \A e \in RPCs : Held(v, p, d, e) <= Held(w, p, d, e)
  <2>1. \A e \in RPCs : Held(v, p, d, e) = Held(w, p, d, e) /\ Held(w, p, d, e) \in Nat
    <3>1. TAKE e \in RPCs
    <3>2. Held(v, p, d, e) = Held(w, p, d, e) + (IF x = e THEN 1 ELSE 0)
      BY <1>3, HeldSend
    <3>3. Held(w, p, d, e) \in Nat /\ x # e
      BY <1>3, HeldType
    <3> QED
      BY <3>2, <3>3
  <2>2. v \in Seq(Message)
    BY <1>3, AppendIs
  <2> QED
    BY <2>1, <2>2
<1> QED
  BY <1>1, <1>2, <1>3

\* A step that changes no queue, only the C++ stack, the wires and the state of
\* the link.
Quietly(a) ==
    /\ UNCHANGED <<queueVars, mStack, mSawRPCOutMsg>>
    /\ mNextSeqno' \in [Sides -> Int] /\ Onward
    /\ mPendingReply' \in [Sides -> Int] /\ mRecvd' \in [Sides -> BOOLEAN]
    /\ connected' \in [Sides -> BOOLEAN]
    /\ \A s \in Sides : connected'[s] => connected[s]
    /\ budget' \in [Sides -> [rpc : Nat, sync : Nat, async : Nat, nest : Nat]]
    /\ wire' \in [Sides -> Seq(Message)]
    /\ \A s \in Sides : \/ wire'[s] = wire[s]
                        \/ wire'[s] = <<>>
                        \/ \E x \in Message \ RPCs : wire'[s] = Append(wire[s], x)

\* A step that changes no queue and keeps the in-calls leaves the state sound and is
\* passive, when the Calls stay or the link is closed.
LEMMA QuietStep ==
    ASSUME Base, NEW a \in Sides, Quietly(a), NEW h, frames' = [frames EXCEPT ![a] = h],
           \/ Plain(frames[a], h)
           \/ Steady(frames[a], h) /\ ~connected'[a],
           h = <<>> => frames[a] = <<>> \/ ~mSawRPCOutMsg[a]
    PROVE  Base' /\ Effects(a)
<1>0. TypeOK /\ \A s \in Sides : SideSound(s)
  BY DEF Base
<1>1. /\ mPending' = mPending /\ mStack' = mStack /\ mOutOfTurnReplies' = mOutOfTurnReplies
      /\ mDeferred' = mDeferred /\ mRemoteStackDepthGuess' = mRemoteStackDepthGuess
      /\ mSawRPCOutMsg' = mSawRPCOutMsg /\ tasks' = tasks /\ races' = races
      /\ Onward
  BY DEF Quietly, queueVars
<1>2. ASSUME NEW s \in Sides
      PROVE  /\ frames'[s] \in Stacks
             /\ \/ Plain(frames[s], frames'[s])
                \/ Steady(frames[s], frames'[s]) /\ ~connected'[s]
             /\ frames'[s] = <<>> => frames[s] = <<>> \/ ~mSawRPCOutMsg[s]
  <2>1. frames \in [Sides -> Stacks]
    BY <1>0 DEF TypeOK, Stacks, FrameRec
  <2>2. CASE s = a
    <3>1. frames'[s] = h
      BY <2>1, <2>2
    <3>2. h \in Stacks
      BY DEF Plain, Steady
    <3> QED
      BY <2>2, <3>1, <3>2
  <2>3. CASE s # a
    <3>1. frames'[s] = frames[s] /\ frames[s] \in Stacks
      BY <2>1, <2>3
    <3>2. Plain(frames[s], frames[s])
      BY <3>1, PlainItself
    <3> QED
      BY <1>0, <3>1, <3>2 DEF SideSound, Sound
  <2> QED
    BY <2>2, <2>3
<1>3. TypeOK'
  <2>1. frames' \in [Sides -> Stacks]
    <3>1. frames \in [Sides -> Stacks]
      BY <1>0 DEF TypeOK, Stacks, FrameRec
    <3>2. DOMAIN frames' = Sides /\ frames' = [s \in Sides |-> frames'[s]]
      BY <3>1
    <3> QED
      BY <1>2, <3>2
  <2>2. frames' \in [Sides -> Seq([at : FrameKinds, seqno : Int])]
    BY <2>1 DEF Stacks, FrameRec
  <2> QED
    BY <1>0, <1>1, <2>2 DEF TypeOK, Quietly
<1>4. ASSUME NEW s \in Sides
      PROVE  /\ SideSound(s)' /\ RunningLess(s) /\ BelowKept(s)
             /\ connected'[s] => connected[s]
  <2>1. connected'[s] => connected[s]
    BY DEF Quietly
  <2>2. Steady(frames[s], frames'[s]) /\ (connected'[s] => Plain(frames[s], frames'[s]))
    BY <1>2 DEF Plain
  <2>3. mStack[s] \in Seq(Message) /\ frames[s] \in Stacks
    BY <1>0, SideTyped
  <2>4. SideSound(s)
    BY <1>0
  <2>5. connected'[s] => Matched(frames'[s], mStack[s])
    BY <2>1, <2>2, <2>3, <2>4 DEF SideSound, Sound, Plain, KeepsMatched
  <2>6. SideSound(s)'
    BY <1>1, <1>2, <2>1, <2>2, <2>4, <2>5 DEF SideSound, Sound, Steady
  <2>7. RunningLess(s)
    <3>1. \A n \in Int : Running(frames'[s], n) = Running(frames[s], n) /\ Running(frames[s], n) \in Nat
      BY <2>2, <2>3, StackIs DEF Steady
    <3> QED
      BY <3>1 DEF RunningLess, RunningOn
  <2>8. BelowKept(s)
    BY <2>1, <2>2 DEF BelowKept, Plain
  <2> QED
    BY <2>1, <2>6, <2>7, <2>8
<1>5. ASSUME NEW s \in Sides
      PROVE  HeldLess(s)
  <2>1. /\ wire[s] \in Seq(Message) /\ mPending[s] \in Seq(Message) /\ mDeferred[s] \in Seq(Message)
    BY <1>0, SideTyped
  <2>2. \/ wire'[s] = wire[s]
        \/ wire'[s] = <<>>
        \/ \E x \in Message \ RPCs : wire'[s] = Append(wire[s], x)
    BY DEF Quietly
  <2>3. \A e \in RPCs : Held(wire'[s], mPending[s], mDeferred[s], e)
                           <= Held(wire[s], mPending[s], mDeferred[s], e)
    BY <2>1, <2>2, WireKept
  <2> QED
    BY <1>1, <2>3 DEF HeldLess, HeldBy
<1>6. ASSUME NEW s \in Sides
      PROVE  TasksKept(s)
  BY <1>1, <1>4 DEF TasksKept, TasksFine
<1>7. Passive
  BY <1>1, <1>4, <1>5 DEF Passive, CallsSame
<1>8. Base'
  BY <1>3, <1>4 DEF Base
<1> QED
  BY <1>6, <1>7, <1>8 DEF Effects

\* Where a worker is.
LEMMA AtIs ==
    ASSUME Base, NEW a \in Sides, At(a) # "loop"
    PROVE  /\ frames[a] # <<>> /\ Last(frames[a]).at = At(a)
           /\ Last(frames[a]) \in FrameRec /\ Last(frames[a]).seqno \in Int
           /\ frames[a] \in Stacks
<1>1. frames[a] # <<>> /\ Last(frames[a]).at = At(a)
  BY DEF At
<1>2. frames[a] \in Stacks
  BY SideTyped DEF Base
<1>3. Last(frames[a]) \in FrameRec
  BY <1>1, <1>2, FrontGrown
<1> QED
  BY <1>1, <1>2, <1>3 DEF FrameRec

\* The frames that the code pushes: their types, and which are of no Call and no
\* in-call.
LEMMA FramesAre ==
    /\ \A at \in FrameKinds, n \in Int : /\ Frame(at, n) \in FrameRec
                                         /\ Frame(at, n).at = at /\ Frame(at, n).seqno = n
    /\ Minor(Frame("unwind", 0)) /\ Frame("unwind", 0) \in FrameRec
    /\ Frame("unwind", 0).at # "nest"
    /\ \A n \in Int : Minor(Frame("syncout", n)) /\ Minor(Frame("nest", n))
                      /\ Minor(Frame("syncin", n)) /\ Minor(Frame("async", n))
BY DEF Frame, FrameKinds, FrameRec, Minor, CallPlaces

\* The top frame is about to be left.
LEMMA TopUnwinds ==
    ASSUME Base, NEW a \in Sides, At(a) # "loop", At(a) # "incall",
           SetTop(a, Frame("unwind", 0)), Quietly(a),
           At(a) \in {"syncout", "syncin", "unwind", "async", "nest"} \/ ~connected'[a]
    PROVE  Base' /\ Effects(a)
<1> DEFINE h == Append(Front(frames[a]), Frame("unwind", 0))
<1>1. /\ frames[a] # <<>> /\ Last(frames[a]).at = At(a) /\ frames[a] \in Stacks
  BY AtIs
<1>2. frames' = [frames EXCEPT ![a] = h]
  BY DEF SetTop
<1>3. Frame("unwind", 0) \in FrameRec /\ Minor(Frame("unwind", 0)) /\ Frame("unwind", 0).at # "nest"
  BY FramesAre
<1>4. Steady(frames[a], h)
  BY <1>1, <1>3, TopSteady
<1>5. h # <<>>
  <2>1. Front(frames[a]) \in Seq(FrameRec)
    BY <1>1, FrontGrown DEF Stacks
  <2> QED
    BY <1>3, <2>1, AppendIs
<1>6. Plain(frames[a], h) \/ ~connected'[a]
  <2>1. CASE At(a) \in {"syncout", "syncin", "unwind", "async", "nest"}
    <3>1. Minor(Last(frames[a]))
      BY <1>1, <2>1 DEF Minor, CallPlaces
    <3> QED
      BY <1>1, <1>3, <3>1, TopMinor
  <2> QED
    BY <2>1
<1> HIDE DEF h
<1> QED
  BY <1>2, <1>4, <1>5, <1>6, QuietStep

\* A frame is pushed that is no Call and handles no in-call.
LEMMA FrameEnters ==
    ASSUME Base, NEW a \in Sides, NEW x \in FrameRec, Push(a, x), Minor(x),
           x.at = "nest" => At(a) # "loop", Quietly(a)
    PROVE  Base' /\ Effects(a)
<1> DEFINE h == Append(frames[a], x)
<1>1. frames[a] \in Stacks
  BY SideTyped DEF Base
<1>2. frames' = [frames EXCEPT ![a] = h]
  BY DEF Push
<1>3. Plain(frames[a], h)
  BY <1>1, PushMinor DEF At
<1>4. h # <<>>
  BY <1>1, AppendIs DEF Stacks
<1> HIDE DEF h
<1> QED
  BY <1>2, <1>3, <1>4, QuietStep

\* A step that changes neither queues nor stacks is passive.
LEMMA StackSameStep ==
    ASSUME Base, NEW a \in Sides, Quietly(a), UNCHANGED frames
    PROVE  Base' /\ Effects(a)
<1>1. frames[a] \in Stacks /\ frames \in [Sides -> Stacks]
  <2>1. TypeOK
    BY DEF Base
  <2> QED
    BY <2>1, SideTyped DEF TypeOK, Stacks, FrameRec
<1>2. frames' = [frames EXCEPT ![a] = frames[a]]
  BY <1>1
<1>3. Plain(frames[a], frames[a])
  BY <1>1, PlainItself
<1> QED
  BY <1>2, <1>3, QuietStep

\* What Quietly asks of variables that stay as they are.
LEMMA QuietTypes ==
    ASSUME TypeOK
    PROVE  /\ mPendingReply \in [Sides -> Int] /\ mRecvd \in [Sides -> BOOLEAN]
           /\ connected \in [Sides -> BOOLEAN] /\ mNextSeqno \in [Sides -> Int]
           /\ wire \in [Sides -> Seq(Message)]
           /\ budget \in [Sides -> [rpc : Nat, sync : Nat, async : Nat, nest : Nat]]
           /\ mNextSeqno' = mNextSeqno => Onward
<1>1. mNextSeqno' = mNextSeqno => Onward
  <2>1. \A s \in Sides : mNextSeqno[s] \in Int
    BY DEF TypeOK
  <2> QED
    BY <2>1 DEF Onward, Rank
<1> QED
  BY <1>1 DEF TypeOK

\* SendMessage puts the message at the end of the other side's wire.
LEMMA Sent ==
    ASSUME TypeOK, NEW a \in Sides, NEW x \in Message, SendMessage(a, x)
    PROVE  /\ wire' \in [Sides -> Seq(Message)]
           /\ wire'[a] = wire[a] /\ wire'[Other(a)] = Append(wire[Other(a)], x)
<1>1. Other(a) \in Sides /\ Other(a) # a
  BY SidesAre
<1>2. wire \in [Sides -> Seq(Message)] /\ Append(wire[Other(a)], x) \in Seq(Message)
  BY <1>1, SideTyped, AppendIs DEF TypeOK
<1> QED
  BY <1>1, <1>2 DEF SendMessage

\* Closing a link loses what is on its way and touches nothing else.
LEMMA Closed ==
    ASSUME TypeOK, NEW a \in Sides, connected' = [connected EXCEPT ![a] = FALSE],
           wire' = [wire EXCEPT ![a] = <<>>]
    PROVE  /\ connected' \in [Sides -> BOOLEAN] /\ wire' \in [Sides -> Seq(Message)]
           /\ ~connected'[a]
           /\ \A s \in Sides : /\ connected'[s] => connected[s]
                               /\ wire'[s] = wire[s] \/ wire'[s] = <<>>
<1>1. connected \in [Sides -> BOOLEAN] /\ wire \in [Sides -> Seq(Message)] /\ <<>> \in Seq(Message)
  BY DEF TypeOK
<1> QED
  BY <1>1

\* A budget that is spent stays a number.
LEMMA Spent ==
    ASSUME TypeOK, NEW a \in Sides, NEW what \in {"rpc", "sync", "async", "nest"}, Spend(a, what)
    PROVE  budget' \in [Sides -> [rpc : Nat, sync : Nat, async : Nat, nest : Nat]]
<1>1. budget \in [Sides -> [rpc : Nat, sync : Nat, async : Nat, nest : Nat]]
  BY DEF TypeOK
<1> DEFINE b == budget[a]
           c == [b EXCEPT ![what] = @ - 1]
<1>2. b \in [rpc : Nat, sync : Nat, async : Nat, nest : Nat]
  BY <1>1
<1>3. b[what] \in Nat /\ b[what] > 0
  BY <1>2 DEF Spend
<1>4. b[what] - 1 \in Nat
  BY <1>3
<1>5. c \in [rpc : Nat, sync : Nat, async : Nat, nest : Nat]
  <2> DEFINE k == b[what] - 1
  <2>1. c = [b EXCEPT ![what] = k] /\ k \in Nat
    BY <1>4
  <2> HIDE DEF k, c, b
  <2> QED
    BY <1>2, <2>1
<1>6. budget' = [budget EXCEPT ![a] = c]
  BY DEF Spend
<1> HIDE DEF c
<1> QED
  BY <1>1, <1>5, <1>6

-----------------------------------------------------------------------------
(***************************************************************************)
(* The quiet actions.                                                      *)
(***************************************************************************)

\* OnChannelErrorFromLink closes the link of a side: a passive step.
LEMMA OnChannelErrorFromLinkStep ==
    ASSUME Base, NEW a \in Sides, OnChannelErrorFromLink(a)
    PROVE  Base' /\ Effects(a)
<1>1. TypeOK
  BY DEF Base
<1>2. /\ connected' = [connected EXCEPT ![a] = FALSE] /\ wire' = [wire EXCEPT ![a] = <<>>]
      /\ UNCHANGED <<queueVars, mStack, mSawRPCOutMsg, mNextSeqno, syncVars, frames, budget>>
  BY Zenon DEF OnChannelErrorFromLink
<1>3. Quietly(a)
  BY <1>1, <1>2, Closed, QuietTypes DEF Quietly, syncVars
<1> QED
  BY <1>2, <1>3, StackSameStep

\* GiveUp fails the Call whose reply timed out, and closes the link: a passive step.
LEMMA GiveUpStep ==
    ASSUME Base, NEW a \in Sides, GiveUp(a)
    PROVE  Base' /\ Effects(a)
<1>1. TypeOK
  BY DEF Base
<1>2. /\ At(a) = "timeout" /\ SetTop(a, Frame("unwind", 0))
      /\ connected' = [connected EXCEPT ![a] = FALSE] /\ wire' = [wire EXCEPT ![a] = <<>>]
      /\ UNCHANGED <<queueVars, mStack, mSawRPCOutMsg, mNextSeqno, syncVars, budget>>
  BY Zenon DEF GiveUp, CloseOnTimeout
<1>3. Quietly(a) /\ ~connected'[a]
  BY <1>1, <1>2, Closed, QuietTypes DEF Quietly, syncVars
<1> QED
  BY <1>2, <1>3, TopUnwinds

\* Nothing is sent, and the link is as it was.
LEMMA SilentlyIsQuietly ==
    ASSUME Base, NEW a \in Sides, UNCHANGED <<queueVars, mStack, mSawRPCOutMsg>>,
           mNextSeqno' \in [Sides -> Int], Onward, UNCHANGED <<connected, wire>>,
           mPendingReply' \in [Sides -> Int], mRecvd' \in [Sides -> BOOLEAN],
           budget' \in [Sides -> [rpc : Nat, sync : Nat, async : Nat, nest : Nat]]
    PROVE  Quietly(a)
<1>1. TypeOK
  BY DEF Base
<1> QED
  BY <1>1, QuietTypes DEF Quietly

\* A message is sent that is no call and no reply to one.
LEMMA SendingIsQuietly ==
    ASSUME Base, NEW a \in Sides, UNCHANGED <<queueVars, mStack, mSawRPCOutMsg>>,
           mNextSeqno' \in [Sides -> Int], Onward, UNCHANGED connected, NEW x \in Message \ RPCs,
           SendMessage(a, x) \/ UNCHANGED wire,
           mPendingReply' \in [Sides -> Int], mRecvd' \in [Sides -> BOOLEAN],
           budget' \in [Sides -> [rpc : Nat, sync : Nat, async : Nat, nest : Nat]]
    PROVE  Quietly(a)
<1>1. TypeOK
  BY DEF Base
<1>2. CASE UNCHANGED wire
  BY <1>2, SilentlyIsQuietly
<1>3. CASE SendMessage(a, x)
  <2>1. /\ wire' \in [Sides -> Seq(Message)]
        /\ wire'[a] = wire[a] /\ wire'[Other(a)] = Append(wire[Other(a)], x)
    BY <1>1, <1>3, Sent
  <2>2. ASSUME NEW s \in Sides
        PROVE  \/ wire'[s] = wire[s]
               \/ wire'[s] = <<>>
               \/ \E y \in Message \ RPCs : wire'[s] = Append(wire[s], y)
    BY <2>1, SidesAre
  <2>3. /\ connected' \in [Sides -> BOOLEAN] /\ \A s \in Sides : connected'[s] => connected[s]
    BY <1>1, QuietTypes
  <2> QED
    BY <2>1, <2>2, <2>3 DEF Quietly
<1> QED
  BY <1>2, <1>3

\* CallFails leaves a Call on a closed link: a passive step.
LEMMA CallFailsStep ==
    ASSUME Base, NEW a \in Sides, CallFails(a)
    PROVE  Base' /\ Effects(a)
<1>1. TypeOK
  BY DEF Base
<1>2. /\ At(a) \in {"calltop", "callwait"} /\ ~connected[a] /\ SetTop(a, Frame("unwind", 0))
      /\ UNCHANGED <<queueVars, mStack, mSawRPCOutMsg, mNextSeqno, syncVars, connected, wire, budget>>
  BY Zenon DEF CallFails, NoticesError
<1>3. Quietly(a)
  BY <1>1, <1>2, SilentlyIsQuietly, QuietTypes DEF syncVars
<1> QED
  BY <1>2, <1>3, TopUnwinds

\* A Call waits for its reply, or its listener is asked.
LEMMA CallStaysStep ==
    ASSUME Base, NEW a \in Sides, At(a) \in CallPlaces, NEW at \in CallPlaces,
           SetTop(a, Frame(at, Last(frames[a]).seqno)), Quietly(a)
    PROVE  Base' /\ Effects(a)
<1> DEFINE x == Frame(at, Last(frames[a]).seqno)
           h == Append(Front(frames[a]), x)
<1>1. /\ frames[a] # <<>> /\ Last(frames[a]).at = At(a) /\ frames[a] \in Stacks
      /\ Last(frames[a]).seqno \in Int
  <2>1. At(a) # "loop"
    BY DEF CallPlaces
  <2> QED
    BY <2>1, AtIs
<1>2. frames' = [frames EXCEPT ![a] = h]
  BY DEF SetTop
<1>3. x \in FrameRec /\ x.at = at /\ x.seqno = Last(frames[a]).seqno
  <2>1. at \in FrameKinds
    BY DEF CallPlaces, FrameKinds
  <2> QED
    BY <1>1, <2>1, FramesAre
<1> HIDE DEF x
<1>4. Plain(frames[a], h)
  BY <1>1, <1>3, TopCall
<1>5. h # <<>>
  <2>1. Front(frames[a]) \in Seq(FrameRec)
    BY <1>1, FrontGrown DEF Stacks
  <2> QED
    BY <1>3, <2>1, AppendIs
<1> HIDE DEF h
<1> QED
  BY <1>2, <1>4, <1>5, QuietStep

\* ReplyTimesOut keeps the Call at work: a passive step.
LEMMA ReplyTimesOutStep ==
    ASSUME Base, NEW a \in Sides, ReplyTimesOut(a)
    PROVE  Base' /\ Effects(a)
<1>1. TypeOK
  BY DEF Base
<1>2. /\ At(a) = "callwait" /\ SetTop(a, Frame("timeout", Last(frames[a]).seqno))
      /\ UNCHANGED <<queueVars, mStack, mSawRPCOutMsg, mNextSeqno, syncVars, connected, wire, budget>>
  BY Zenon DEF ReplyTimesOut
<1>3. Quietly(a)
  BY <1>1, <1>2, SilentlyIsQuietly, QuietTypes DEF syncVars
<1>4. At(a) \in CallPlaces /\ "timeout" \in CallPlaces
  BY <1>2 DEF CallPlaces
<1> QED
  BY <1>2, <1>3, <1>4, CallStaysStep

\* ContinueFromTimeout goes back to waiting: a passive step.
LEMMA ContinueFromTimeoutStep ==
    ASSUME Base, NEW a \in Sides, ContinueFromTimeout(a)
    PROVE  Base' /\ Effects(a)
<1>1. TypeOK
  BY DEF Base
<1>2. /\ At(a) = "timeout" /\ SetTop(a, Frame("callwait", Last(frames[a]).seqno))
      /\ UNCHANGED <<queueVars, mStack, mSawRPCOutMsg, mNextSeqno, syncVars, connected, wire, budget>>
  BY Zenon DEF ContinueFromTimeout
<1>3. Quietly(a)
  BY <1>1, <1>2, SilentlyIsQuietly, QuietTypes DEF syncVars
<1>4. At(a) \in CallPlaces /\ "callwait" \in CallPlaces
  BY <1>2 DEF CallPlaces
<1> QED
  BY <1>2, <1>3, <1>4, CallStaysStep

\* SpinNestedLoop nests an event loop in a handler: a passive step.
LEMMA SpinNestedLoopStep ==
    ASSUME Base, NEW a \in Sides, SpinNestedLoop(a)
    PROVE  Base' /\ Effects(a)
<1>1. TypeOK
  BY DEF Base
<1>2. /\ At(a) \in {"incall", "async"} /\ Push(a, Frame("nest", 0)) /\ Spend(a, "nest")
      /\ UNCHANGED <<queueVars, mStack, mSawRPCOutMsg, mNextSeqno, syncVars, connected, wire>>
  BY Zenon DEF SpinNestedLoop
<1>3. budget' \in [Sides -> [rpc : Nat, sync : Nat, async : Nat, nest : Nat]]
  BY <1>1, <1>2, Spent
<1>4. Quietly(a)
  BY <1>1, <1>2, <1>3, SilentlyIsQuietly, QuietTypes DEF syncVars
<1>5. Frame("nest", 0) \in FrameRec /\ Minor(Frame("nest", 0))
  <2>1. "nest" \in FrameKinds /\ 0 \in Int
    BY DEF FrameKinds
  <2> QED
    BY <2>1, FramesAre
<1> QED
  BY <1>2, <1>4, <1>5, FrameEnters

\* A nested event loop is never at the bottom of a stack.
LEMMA NestedIsAbove ==
    ASSUME NEW f \in Stacks, f # <<>>, Rooted(f), Last(f).at = "nest"
    PROVE  Front(f) # <<>>
<1>1. Front(f) \in Stacks /\ Last(f) \in FrameRec /\ Grown(Front(f), Last(f), f)
  BY FrontGrown
<1> QED
  BY <1>1 DEF Grown

\* LeaveNestedLoop returns to the handler: a passive step.
LEMMA LeaveNestedLoopStep ==
    ASSUME Base, NEW a \in Sides, LeaveNestedLoop(a)
    PROVE  Base' /\ Effects(a)
<1> DEFINE h == Front(frames[a])
<1>1. TypeOK /\ SideSound(a)
  BY DEF Base
<1>2. /\ At(a) = "nest" /\ frames' = [frames EXCEPT ![a] = h]
      /\ UNCHANGED <<queueVars, mStack, mSawRPCOutMsg, mNextSeqno, syncVars, connected, wire, budget>>
  BY Zenon DEF LeaveNestedLoop
<1>3. Quietly(a)
  BY <1>1, <1>2, SilentlyIsQuietly, QuietTypes DEF syncVars
<1>4. /\ frames[a] # <<>> /\ Last(frames[a]).at = "nest" /\ frames[a] \in Stacks
  BY <1>2, AtIs
<1>5. Plain(frames[a], h)
  <2>1. Minor(Last(frames[a]))
    BY <1>4 DEF Minor, CallPlaces
  <2> QED
    BY <1>4, <2>1, PopMinor
<1>6. h # <<>>
  BY <1>1, <1>4, NestedIsAbove DEF SideSound, Sound
<1> HIDE DEF h
<1> QED
  BY <1>2, <1>3, <1>5, <1>6, QuietStep

\* SyncDone replies to a sync message: a passive step.
LEMMA SyncDoneStep ==
    ASSUME Base, NEW a \in Sides, SyncDone(a)
    PROVE  Base' /\ Effects(a)
<1> DEFINE n == Last(frames[a]).seqno
<1>1. TypeOK
  BY DEF Base
<1>2. /\ At(a) = "syncin" /\ SetTop(a, Frame("unwind", 0))
      /\ SendMessage(a, SyncReply(n)) \/ UNCHANGED wire
      /\ UNCHANGED <<queueVars, mStack, mSawRPCOutMsg, mNextSeqno, syncVars, connected, budget>>
  BY Zenon DEF SyncDone, SendReply
<1>3. SyncReply(n) \in Message \ RPCs
  <2>1. n \in Int
    BY <1>2, AtIs
  <2>2. SyncReply(n).kind = "sync"
    BY DEF SyncReply
  <2> QED
    BY <2>1, <2>2, MessagesAre
<1> HIDE DEF n
<1>4. Quietly(a)
  BY <1>1, <1>2, <1>3, SendingIsQuietly, QuietTypes DEF syncVars
<1> QED
  BY <1>2, <1>4, TopUnwinds

\* SendAsync sends a message that is no call: a passive step.
LEMMA SendAsyncStep ==
    ASSUME Base, NEW a \in Sides, SendAsync(a)
    PROVE  Base' /\ Effects(a)
<1>1. TypeOK
  BY DEF Base
<1>2. /\ SendMessage(a, Async) /\ Spend(a, "async")
      /\ UNCHANGED <<queueVars, mStack, mSawRPCOutMsg, mNextSeqno, syncVars, connected, frames>>
  BY Zenon DEF SendAsync
<1>3. Async \in Message \ RPCs
  <2>1. Async.kind = "async"
    BY DEF Async
  <2> QED
    BY <2>1, MessagesAre
<1>4. budget' \in [Sides -> [rpc : Nat, sync : Nat, async : Nat, nest : Nat]]
  BY <1>1, <1>2, Spent
<1>5. Quietly(a)
  BY <1>1, <1>2, <1>3, <1>4, SendingIsQuietly, QuietTypes DEF syncVars
<1> QED
  BY <1>2, <1>5, StackSameStep

\* SyncReturns leaves a sync Send, which may close the link: a passive step.
LEMMA SyncReturnsStep ==
    ASSUME Base, NEW a \in Sides, SyncReturns(a)
    PROVE  Base' /\ Effects(a)
<1>1. TypeOK
  BY DEF Base
<1>2. /\ At(a) = "syncout" /\ SetTop(a, Frame("unwind", 0))
      /\ \/ mPendingReply' = mPendingReply /\ mRecvd' = mRecvd
         \/ /\ mPendingReply' = [mPendingReply EXCEPT ![a] = 0]
            /\ mRecvd' = [mRecvd EXCEPT ![a] = FALSE]
      /\ UNCHANGED <<queueVars, mStack, mSawRPCOutMsg, mNextSeqno, connected, wire, budget>>
  BY DEF SyncReturns, syncVars
<1>3. mPendingReply' \in [Sides -> Int] /\ mRecvd' \in [Sides -> BOOLEAN]
  <2>1. mPendingReply \in [Sides -> Int] /\ mRecvd \in [Sides -> BOOLEAN]
    BY <1>1, QuietTypes
  <2>2. CASE mPendingReply' = mPendingReply /\ mRecvd' = mRecvd
    BY <2>1, <2>2
  <2>3. CASE /\ mPendingReply' = [mPendingReply EXCEPT ![a] = 0]
             /\ mRecvd' = [mRecvd EXCEPT ![a] = FALSE]
    BY <2>1, <2>3
  <2> QED
    BY <1>2, <2>2, <2>3
<1>4. Quietly(a)
  BY <1>1, <1>2, <1>3, SilentlyIsQuietly, QuietTypes
<1> QED
  BY <1>2, <1>4, TopUnwinds

\* A sync message takes a seqno of its own.
LEMMA NextSeqnoIs ==
    ASSUME TypeOK, NEW a \in Sides, mNextSeqno' = [mNextSeqno EXCEPT ![a] = NextSeqno(a)]
    PROVE  /\ NextSeqno(a) \in Int /\ mNextSeqno' \in [Sides -> Int] /\ Onward
           /\ Rank(a, mNextSeqno[a]) < Rank(a, NextSeqno(a))
           /\ mNextSeqno'[a] = NextSeqno(a) /\ mNextSeqno'[Other(a)] = mNextSeqno[Other(a)]
<1>1. mNextSeqno \in [Sides -> Int] /\ mNextSeqno[a] \in Int
  BY DEF TypeOK
<1>2. NextSeqno(a) \in Int /\ Rank(a, mNextSeqno[a]) < Rank(a, NextSeqno(a))
  BY <1>1 DEF NextSeqno, Rank
<1>3. mNextSeqno' \in [Sides -> Int] /\ mNextSeqno'[a] = NextSeqno(a)
      /\ \A s \in Sides \ {a} : mNextSeqno'[s] = mNextSeqno[s]
  BY <1>1, <1>2
<1>4. ASSUME NEW s \in Sides
      PROVE  Rank(s, mNextSeqno[s]) <= Rank(s, mNextSeqno'[s])
  <2>1. CASE s = a
    <3>1. Rank(a, mNextSeqno[a]) \in Int /\ Rank(a, NextSeqno(a)) \in Int
      BY <1>1, <1>2 DEF Rank
    <3> QED
      BY <1>2, <1>3, <2>1, <3>1
  <2>2. CASE s # a
    <3>1. mNextSeqno[s] \in Int /\ mNextSeqno'[s] = mNextSeqno[s]
      BY <1>1, <1>3, <2>2
    <3> QED
      BY <3>1 DEF Rank
  <2> QED
    BY <2>1, <2>2
<1>5. Other(a) \in Sides /\ Other(a) # a
  BY SidesAre
<1> QED
  BY <1>2, <1>3, <1>4, <1>5 DEF Onward

\* SendSync hands out a seqno and sends a message that is no call: a passive step.
LEMMA SendSyncStep ==
    ASSUME Base, NEW a \in Sides, SendSync(a)
    PROVE  Base' /\ Effects(a)
<1> DEFINE n == NextSeqno(a)
<1>1. TypeOK
  BY DEF Base
<1>2. /\ mNextSeqno' = [mNextSeqno EXCEPT ![a] = n]
      /\ mPendingReply' = [mPendingReply EXCEPT ![a] = n]
      /\ SendMessage(a, Sync(n)) /\ Push(a, Frame("syncout", n)) /\ Spend(a, "sync")
      /\ UNCHANGED <<queueVars, mStack, mSawRPCOutMsg, mRecvd, connected>>
  BY Zenon DEF SendSync, WaitForReply
<1>3. n \in Int /\ mNextSeqno' \in [Sides -> Int] /\ Onward
  BY <1>1, <1>2, NextSeqnoIs
<1>4. Sync(n) \in Message \ RPCs
  <2>1. Sync(n).kind = "sync"
    BY DEF Sync
  <2> QED
    BY <1>3, <2>1, MessagesAre
<1>5. budget' \in [Sides -> [rpc : Nat, sync : Nat, async : Nat, nest : Nat]]
  BY <1>1, <1>2, Spent
<1>6. mPendingReply' \in [Sides -> Int] /\ mRecvd' \in [Sides -> BOOLEAN]
  BY <1>1, <1>2, <1>3, QuietTypes
<1>7. Frame("syncout", n) \in FrameRec /\ Minor(Frame("syncout", n)) /\ Frame("syncout", n).at # "nest"
  <2>1. "syncout" \in FrameKinds
    BY DEF FrameKinds
  <2> QED
    BY <1>3, <2>1, FramesAre
<1> HIDE DEF n
<1>8. Quietly(a)
  BY <1>2, <1>3, <1>4, <1>5, <1>6, SendingIsQuietly
<1> QED
  BY <1>2, <1>7, <1>8, FrameEnters

-----------------------------------------------------------------------------
(***************************************************************************)
(* The actions in which a worker works on its queues.                      *)
(***************************************************************************)

\* v2 is v with x for side a.
Replaced(v, v2, a, x) == v2 = [v EXCEPT ![a] = x] \/ (v2 = v /\ x = v[a])

\* The worker of side a leaves its queues, C++ stack and tasks as given.
Work(a, p, st, r, d, g, sw, f, t) ==
    /\ Replaced(mPending, mPending', a, p) /\ Replaced(mStack, mStack', a, st)
    /\ Replaced(mOutOfTurnReplies, mOutOfTurnReplies', a, r)
    /\ Replaced(mDeferred, mDeferred', a, d)
    /\ Replaced(mRemoteStackDepthGuess, mRemoteStackDepthGuess', a, g)
    /\ Replaced(mSawRPCOutMsg, mSawRPCOutMsg', a, sw)
    /\ Replaced(frames, frames', a, f) /\ Replaced(tasks, tasks', a, t)
    /\ connected' = connected

RestTyped ==
    /\ mNextSeqno' \in [Sides -> Int] /\ mPendingReply' \in [Sides -> Int]
    /\ mRecvd' \in [Sides -> BOOLEAN] /\ wire' \in [Sides -> Seq(Message)]
    /\ budget' \in [Sides -> [rpc : Nat, sync : Nat, async : Nat, nest : Nat]]
    /\ races' \in [Sides -> SUBSET (Int \X Int)]

WorkTyped(p, st, r, d, g, sw, f, t) ==
    /\ p \in Seq(Message) /\ st \in Seq(Message) /\ r \in SUBSET Int /\ d \in Seq(Message)
    /\ g \in Nat /\ sw \in BOOLEAN /\ f \in Stacks /\ t \in Nat

Worked(a, p, st, r, d, g, sw, f, t) ==
    /\ mPending'[a] = p /\ mStack'[a] = st /\ mOutOfTurnReplies'[a] = r /\ mDeferred'[a] = d
    /\ mRemoteStackDepthGuess'[a] = g /\ mSawRPCOutMsg'[a] = sw /\ frames'[a] = f
    /\ tasks'[a] = t /\ connected'[a] = connected[a]

\* Nothing happens on side o.
Elsewhere(o) ==
    /\ mPending'[o] = mPending[o] /\ mStack'[o] = mStack[o]
    /\ mOutOfTurnReplies'[o] = mOutOfTurnReplies[o] /\ mDeferred'[o] = mDeferred[o]
    /\ mRemoteStackDepthGuess'[o] = mRemoteStackDepthGuess[o]
    /\ mSawRPCOutMsg'[o] = mSawRPCOutMsg[o] /\ frames'[o] = frames[o]
    /\ tasks'[o] = tasks[o] /\ connected'[o] = connected[o]

\* And no more than a message is sent to it.
Bystanding(o) ==
    /\ RunningLess(o) /\ BelowKept(o) /\ TasksKept(o)
    /\ wire'[o] = wire[o] => HeldLess(o)

\* A side where nothing happens stays sound, and keeps what it has.
LEMMA BystanderKept ==
    ASSUME Base, NEW o \in Sides, Elsewhere(o)
    PROVE  SideSound(o)' /\ Bystanding(o)
<1>1. TypeOK /\ SideSound(o)
  BY DEF Base
<1>2. SideSound(o)'
  BY <1>1 DEF Elsewhere, SideSound, Sound
<1>3. /\ frames[o] \in Stacks /\ wire[o] \in Seq(Message) /\ mPending[o] \in Seq(Message)
      /\ mDeferred[o] \in Seq(Message)
  BY <1>1, SideTyped
<1>4. RunningLess(o) /\ BelowKept(o)
  <2>1. \A n \in Int : Running(frames[o], n) \in Nat
    BY <1>3, StackIs
  <2>2. frames'[o] = frames[o] /\ connected'[o] = connected[o]
    BY DEF Elsewhere
  <2>3. RunningLess(o)
    BY <2>1, <2>2 DEF RunningLess, RunningOn
  <2>4. BelowKept(o)
    BY <2>2 DEF BelowKept, KeepsBelow
  <2> QED
    BY <2>3, <2>4
<1>5. TasksKept(o)
  BY DEF Elsewhere, TasksKept, TasksFine
<1>6. wire'[o] = wire[o] => HeldLess(o)
  <2>1. \A e \in RPCs : Held(wire[o], mPending[o], mDeferred[o], e) \in Nat
    BY <1>3, HeldType
  <2>2. mPending'[o] = mPending[o] /\ mDeferred'[o] = mDeferred[o]
    BY DEF Elsewhere
  <2>3. ASSUME wire'[o] = wire[o]
        PROVE  HeldLess(o)
    <3>1. \A e \in RPCs : HeldBy(o, e)' = HeldBy(o, e) /\ HeldBy(o, e) \in Nat
      BY <2>1, <2>2, <2>3 DEF HeldBy
    <3> QED
      BY <3>1 DEF HeldLess
  <2> QED
    BY <2>3
<1> QED
  BY <1>2, <1>4, <1>5, <1>6 DEF Bystanding

\* A worker that leaves its own side sound leaves all sound.
LEMMA WorkStep ==
    ASSUME Base, NEW a \in Sides,
           NEW p, NEW st, NEW r, NEW d, NEW g, NEW sw, NEW f, NEW t,
           Work(a, p, st, r, d, g, sw, f, t), WorkTyped(p, st, r, d, g, sw, f, t), RestTyped,
           Sound(a, f, st, connected[a], d, g, sw)
    PROVE  /\ Base' /\ Worked(a, p, st, r, d, g, sw, f, t)
           /\ Elsewhere(Other(a)) /\ Bystanding(Other(a))
<1>1. TypeOK /\ Other(a) \in Sides
  BY SidesAre DEF Base
<1>2. /\ mPending' \in [Sides -> Seq(Message)] /\ mPending'[a] = p
      /\ mPending'[Other(a)] = mPending[Other(a)]
  <2>1. /\ mPending \in [Sides -> Seq(Message)] /\ p \in Seq(Message)
        /\ Replaced(mPending, mPending', a, p)
    BY <1>1 DEF TypeOK, Work, WorkTyped
  <2> QED
    BY <1>1, <2>1, SidesAre DEF Replaced
<1>3. /\ mStack' \in [Sides -> Seq(Message)] /\ mStack'[a] = st
      /\ mStack'[Other(a)] = mStack[Other(a)]
  <2>1. /\ mStack \in [Sides -> Seq(Message)] /\ st \in Seq(Message)
        /\ Replaced(mStack, mStack', a, st)
    BY <1>1 DEF TypeOK, Work, WorkTyped
  <2> QED
    BY <1>1, <2>1, SidesAre DEF Replaced
<1>4. /\ mOutOfTurnReplies' \in [Sides -> SUBSET Int] /\ mOutOfTurnReplies'[a] = r
      /\ mOutOfTurnReplies'[Other(a)] = mOutOfTurnReplies[Other(a)]
  <2>1. /\ mOutOfTurnReplies \in [Sides -> SUBSET Int] /\ r \in SUBSET Int
        /\ Replaced(mOutOfTurnReplies, mOutOfTurnReplies', a, r)
    BY <1>1 DEF TypeOK, Work, WorkTyped
  <2> QED
    BY <1>1, <2>1, SidesAre DEF Replaced
<1>5. /\ mDeferred' \in [Sides -> Seq(Message)] /\ mDeferred'[a] = d
      /\ mDeferred'[Other(a)] = mDeferred[Other(a)]
  <2>1. /\ mDeferred \in [Sides -> Seq(Message)] /\ d \in Seq(Message)
        /\ Replaced(mDeferred, mDeferred', a, d)
    BY <1>1 DEF TypeOK, Work, WorkTyped
  <2> QED
    BY <1>1, <2>1, SidesAre DEF Replaced
<1>6. /\ mRemoteStackDepthGuess' \in [Sides -> Nat] /\ mRemoteStackDepthGuess'[a] = g
      /\ mRemoteStackDepthGuess'[Other(a)] = mRemoteStackDepthGuess[Other(a)]
  <2>1. /\ mRemoteStackDepthGuess \in [Sides -> Nat] /\ g \in Nat
        /\ Replaced(mRemoteStackDepthGuess, mRemoteStackDepthGuess', a, g)
    BY <1>1 DEF TypeOK, Work, WorkTyped
  <2> QED
    BY <1>1, <2>1, SidesAre DEF Replaced
<1>7. /\ mSawRPCOutMsg' \in [Sides -> BOOLEAN] /\ mSawRPCOutMsg'[a] = sw
      /\ mSawRPCOutMsg'[Other(a)] = mSawRPCOutMsg[Other(a)]
  <2>1. /\ mSawRPCOutMsg \in [Sides -> BOOLEAN] /\ sw \in BOOLEAN
        /\ Replaced(mSawRPCOutMsg, mSawRPCOutMsg', a, sw)
    BY <1>1 DEF TypeOK, Work, WorkTyped
  <2> QED
    BY <1>1, <2>1, SidesAre DEF Replaced
<1>8. /\ frames' \in [Sides -> Stacks] /\ frames'[a] = f
      /\ frames'[Other(a)] = frames[Other(a)]
  <2>1. frames \in [Sides -> Stacks]
    BY <1>1 DEF TypeOK, Stacks, FrameRec
  <2>2. f \in Stacks /\ Replaced(frames, frames', a, f)
    BY DEF Work, WorkTyped
  <2> QED
    BY <1>1, <2>1, <2>2, SidesAre DEF Replaced
<1>9. /\ tasks' \in [Sides -> Nat] /\ tasks'[a] = t /\ tasks'[Other(a)] = tasks[Other(a)]
  <2>1. /\ tasks \in [Sides -> Nat] /\ t \in Nat
        /\ Replaced(tasks, tasks', a, t)
    BY <1>1 DEF TypeOK, Work, WorkTyped
  <2> QED
    BY <1>1, <2>1, SidesAre DEF Replaced
<1>10. connected' = connected /\ connected \in [Sides -> BOOLEAN]
  BY <1>1 DEF TypeOK, Work
<1>11. TypeOK'
  <2>1. frames' \in [Sides -> Seq([at : FrameKinds, seqno : Int])]
    BY <1>8 DEF Stacks, FrameRec
  <2> QED
    BY <1>2, <1>3, <1>4, <1>5, <1>6, <1>7, <1>9, <1>10, <2>1 DEF TypeOK, RestTyped
<1>12. Worked(a, p, st, r, d, g, sw, f, t)
  BY <1>2, <1>3, <1>4, <1>5, <1>6, <1>7, <1>8, <1>9, <1>10 DEF Worked
<1>13. Elsewhere(Other(a))
  BY <1>2, <1>3, <1>4, <1>5, <1>6, <1>7, <1>8, <1>9, <1>10 DEF Elsewhere
<1>14. SideSound(Other(a))' /\ Bystanding(Other(a))
  BY <1>1, <1>13, BystanderKept
<1>15. SideSound(a)'
  BY <1>3, <1>5, <1>6, <1>7, <1>8, <1>10 DEF SideSound
<1>16. Base'
  <2>1. \A s \in Sides : SideSound(s)'
    BY <1>14, <1>15, SidesAre
  <2> QED
    BY <1>11, <2>1 DEF Base
<1> QED
  BY <1>12, <1>13, <1>14, <1>16

\* What does not change is typed as before.
LEMMA RestKept ==
    ASSUME TypeOK
    PROVE  /\ mNextSeqno \in [Sides -> Int] /\ mPendingReply \in [Sides -> Int]
           /\ mRecvd \in [Sides -> BOOLEAN] /\ wire \in [Sides -> Seq(Message)]
           /\ budget \in [Sides -> [rpc : Nat, sync : Nat, async : Nat, nest : Nat]]
           /\ races \in [Sides -> SUBSET (Int \X Int)]
           /\ UNCHANGED <<mNextSeqno, syncVars, wire, budget, races>> => RestTyped
           /\ mNextSeqno' = mNextSeqno => Onward
BY QuietTypes DEF TypeOK, RestTyped, syncVars

\* Only the state of side a decides what kind of step it is.
LEMMA WorkPassive ==
    ASSUME NEW a \in Sides, Elsewhere(Other(a)), Bystanding(Other(a)),
           wire'[Other(a)] = wire[Other(a)], mStack' = mStack, Onward,
           mOutOfTurnReplies' = mOutOfTurnReplies,
           HeldLess(a), RunningLess(a), BelowKept(a), TasksKept(a)
    PROVE  Effects(a)
<1>1. \A s \in Sides : HeldLess(s) /\ RunningLess(s) /\ BelowKept(s)
  BY SidesAre DEF Bystanding
<1>2. \A s \in Sides : TasksKept(s)
  BY SidesAre DEF Bystanding
<1> QED
  BY <1>1, <1>2, Zenon DEF Effects, Passive, CallsSame

\* OnMessageReceivedFromLink queues the first message on the wire, or compresses it,
\* and posts its tasks: a passive step.
LEMMA OnMessageReceivedFromLinkStep ==
    ASSUME Base, NEW a \in Sides, OnMessageReceivedFromLink(a)
    PROVE  Base' /\ Effects(a)
<1> DEFINE msg == Head(wire[a])
           compressed == /\ Compress
                         /\ msg.kind = "async"
                         /\ mPending[a] # <<>>
                         /\ Last(mPending[a]).kind = "async"
           q == Append(IF compressed THEN Front(mPending[a]) ELSE mPending[a], msg)
           u == IF StackDepth(a) = 0 /\ ~compressed THEN tasks[a] + 1 ELSE tasks[a]
<1>1. TypeOK /\ SideSound(a)
  BY DEF Base
<1>2. /\ mPending[a] \in Seq(Message) /\ wire[a] \in Seq(Message) /\ mDeferred[a] \in Seq(Message)
      /\ tasks[a] \in Nat /\ mStack[a] \in Seq(Message) /\ mOutOfTurnReplies[a] \in SUBSET Int
      /\ mRemoteStackDepthGuess[a] \in Nat /\ mSawRPCOutMsg[a] \in BOOLEAN
      /\ frames[a] \in Stacks /\ connected[a] \in BOOLEAN
  BY <1>1, SideTyped
<1>3. /\ wire[a] # <<>> /\ wire' = [wire EXCEPT ![a] = Tail(@)] /\ connected[a]
      /\ UNCHANGED <<mStack, mOutOfTurnReplies, mDeferred, mRemoteStackDepthGuess,
                     mSawRPCOutMsg, mNextSeqno, mPendingReply, connected, frames, budget, races>>
  BY Zenon DEF OnMessageReceivedFromLink
<1>4. \/ /\ mRecvd' = [mRecvd EXCEPT ![a] = TRUE] /\ mPending' = mPending /\ tasks' = tasks
      \/ /\ mRecvd' = mRecvd /\ mPending' = [mPending EXCEPT ![a] = q]
         /\ tasks' = [tasks EXCEPT ![a] = u]
  BY DEF OnMessageReceivedFromLink
<1>5. msg \in Message /\ Tail(wire[a]) \in Seq(Message)
  BY <1>2, <1>3, HeadTailProperties
<1>6. PICK p, t : /\ Replaced(mPending, mPending', a, p) /\ Replaced(tasks, tasks', a, t)
                  /\ \/ p = mPending[a] /\ t = tasks[a]
                     \/ p = q /\ t = u
                  /\ mRecvd' = mRecvd \/ mRecvd' = [mRecvd EXCEPT ![a] = TRUE]
  <2>1. CASE mRecvd' = [mRecvd EXCEPT ![a] = TRUE] /\ mPending' = mPending /\ tasks' = tasks
    BY <2>1 DEF Replaced
  <2>2. CASE /\ mRecvd' = mRecvd /\ mPending' = [mPending EXCEPT ![a] = q]
             /\ tasks' = [tasks EXCEPT ![a] = u]
    <3> HIDE DEF q, u
    <3> QED
      BY <2>2 DEF Replaced
  <2> QED
    BY <1>4, <2>1, <2>2
<1>7. \/ p = mPending[a]
      \/ p = Append(mPending[a], msg)
      \/ mPending[a] # <<>> /\ p = Append(Front(mPending[a]), msg)
  BY <1>6
<1>8. /\ p \in Seq(Message)
      /\ \A e \in RPCs : Held(Tail(wire[a]), p, mDeferred[a], e)
                            <= Held(wire[a], mPending[a], mDeferred[a], e)
  <2>1. \A e \in RPCs : /\ p \in Seq(Message)
                        /\ Held(Tail(wire[a]), p, mDeferred[a], e)
                             <= Held(wire[a], mPending[a], mDeferred[a], e)
    BY <1>2, <1>3, <1>7, HeldReceive
  <2>2. RPCReply(0) \in RPCs
    BY MessagesAre
  <2> QED
    BY <2>1, <2>2
<1>10. /\ t \in Nat
       /\ StackDepth(a) = 0 => t + Len(mPending[a]) >= tasks[a] + Len(p)
  <2>1. CASE p = mPending[a] /\ t = tasks[a]
    <3>1. Len(mPending[a]) \in Nat
      BY <1>2, LenProperties
    <3> QED
      BY <1>2, <2>1, <3>1
  <2>2. CASE p = q /\ t = u
    <3>1. CASE compressed
      <4>1. /\ Front(mPending[a]) \in Seq(Message) /\ Len(Front(mPending[a])) = Len(mPending[a]) - 1
            /\ Len(mPending[a]) \in Nat
        BY <1>2, <3>1, FrontLast
      <4>2. Len(p) = Len(Front(mPending[a])) + 1
        BY <1>5, <2>2, <3>1, <4>1, AppendIs
      <4>3. t = tasks[a]
        BY <2>2, <3>1
      <4> HIDE DEF compressed
      <4> QED
        BY <1>2, <4>1, <4>2, <4>3
    <3>2. CASE ~compressed
      <4>1. Len(p) = Len(mPending[a]) + 1 /\ Len(mPending[a]) \in Nat
        BY <1>2, <1>5, <2>2, <3>2, AppendIs
      <4>2. t = IF StackDepth(a) = 0 THEN tasks[a] + 1 ELSE tasks[a]
        BY <2>2, <3>2
      <4> HIDE DEF compressed
      <4> QED
        BY <1>2, <4>1, <4>2
    <3> QED
      BY <3>1, <3>2
  <2> QED
    BY <1>6, <2>1, <2>2
<1> HIDE DEF q, u, compressed, msg
<1>11. RestTyped
  <2>1. wire' \in [Sides -> Seq(Message)] /\ mRecvd' \in [Sides -> BOOLEAN]
    BY <1>1, <1>3, <1>5, <1>6, RestKept
  <2> QED
    BY <1>1, <1>3, <2>1, RestKept DEF RestTyped
<1>12. Work(a, p, mStack[a], mOutOfTurnReplies[a], mDeferred[a], mRemoteStackDepthGuess[a],
            mSawRPCOutMsg[a], frames[a], t)
  BY <1>3, <1>6 DEF Work, Replaced
<1>13. /\ Base' /\ Elsewhere(Other(a)) /\ Bystanding(Other(a))
       /\ Worked(a, p, mStack[a], mOutOfTurnReplies[a], mDeferred[a],
                 mRemoteStackDepthGuess[a], mSawRPCOutMsg[a], frames[a], t)
  <2>1. WorkTyped(p, mStack[a], mOutOfTurnReplies[a], mDeferred[a], mRemoteStackDepthGuess[a],
                  mSawRPCOutMsg[a], frames[a], t)
    BY <1>2, <1>8, <1>10 DEF WorkTyped
  <2>2. Sound(a, frames[a], mStack[a], connected[a], mDeferred[a], mRemoteStackDepthGuess[a],
              mSawRPCOutMsg[a])
    BY <1>1 DEF SideSound
  <2> QED
    BY <1>11, <1>12, <2>1, <2>2, WorkStep
<1>14. wire'[a] = Tail(wire[a]) /\ wire'[Other(a)] = wire[Other(a)]
  BY <1>1, <1>3, RestKept, SidesAre
<1>15. HeldLess(a)
  BY <1>8, <1>13, <1>14 DEF HeldLess, HeldBy, Worked
<1>17. RunningLess(a) /\ BelowKept(a)
  <2>1. frames'[a] = frames[a] /\ connected'[a] = connected[a]
    BY <1>3
  <2>2. \A n \in Int : Running(frames[a], n) \in Nat
    BY <1>2, StackIs
  <2>3. RunningLess(a)
    BY <2>1, <2>2 DEF RunningLess, RunningOn
  <2> QED
    BY <2>1, <2>3 DEF BelowKept, KeepsBelow
<1>18. TasksKept(a)
  <2> SUFFICES ASSUME TasksFine(a), connected'[a], ~mSawRPCOutMsg'[a]
               PROVE  tasks'[a] >= Len(mPending'[a]) + Len(mDeferred'[a])
    BY DEF TasksKept, TasksFine
  <2>1. connected[a] /\ ~mSawRPCOutMsg[a]
    BY <1>3
  <2>2. tasks[a] >= Len(mPending[a]) + Len(mDeferred[a])
    BY <2>1 DEF TasksFine
  <2>3. StackDepth(a) = 0
    BY <1>1, <2>1, EmptySeq DEF SideSound, Sound, StackDepth
  <2>4. Len(mPending[a]) \in Nat /\ Len(mDeferred[a]) \in Nat /\ Len(p) \in Nat
    BY <1>2, <1>8, LenProperties
  <2>5. t >= Len(p) + Len(mDeferred[a])
    <3>1. t \in Nat /\ tasks[a] \in Nat /\ t + Len(mPending[a]) >= tasks[a] + Len(p)
      BY <1>2, <1>10, <2>3
    <3>2. \A u1, k, m, n, d \in Nat : k >= m + d /\ u1 + m >= k + n => u1 >= n + d
      OBVIOUS
    <3> QED
      BY <2>2, <2>4, <3>1, <3>2
  <2>6. tasks'[a] = t /\ mPending'[a] = p /\ mDeferred'[a] = mDeferred[a]
    BY <1>3, <1>13 DEF Worked
  <2> QED
    BY <2>5, <2>6
<1>19. Onward
  BY <1>1, <1>3, RestKept
<1> QED
  BY <1>3, <1>13, <1>14, <1>15, <1>17, <1>18, <1>19, WorkPassive

\* The calls a worker deferred, and its guess, fit the stack f.
DeferredFit(s, f, d, g) ==
    /\ d \in Seq(Message) /\ g \in Nat
    /\ g = Len(d) + Handled(f)
    /\ \A i \in 1 .. Len(d) : d[i] \in Requests

\* How many in-calls a stack handles is a number.
LEMMA HandledIs ==
    ASSUME NEW f \in Stacks
    PROVE  Handled(f) \in Nat
<1>1. CASE f = <<>>
  <2>1. Ats(f) = <<>>
    BY <1>1 DEF Ats
  <2> QED
    BY <2>1, OccurrencesEmpty DEF Handled
<1>2. CASE f # <<>>
  <2>1. /\ Grown(Front(f), Last(f), f)
    BY <1>2, FrontGrown
  <2> QED
    BY <2>1 DEF Grown
<1> QED
  BY <1>1, <1>2

\* A worker stays sound when its stack keeps its in-calls and Calls, and its guess
\* is still that of its stack and deferred calls.
LEMMA SoundPlain ==
    ASSUME Base, NEW a \in Sides, NEW h, Plain(frames[a], h),
           NEW sw, sw = mSawRPCOutMsg[a] \/ (~sw /\ h = <<>>), h = <<>> => ~sw,
           NEW d, NEW g, DeferredFit(a, frames[a], d, g)
    PROVE  Sound(a, h, mStack[a], connected[a], d, g, sw) /\ DeferredFit(a, h, d, g)
<1>1. TypeOK /\ SideSound(a)
  BY DEF Base
<1>2. mStack[a] \in Seq(Message) /\ frames[a] \in Stacks
  BY <1>1, SideTyped
<1>3. /\ Handled(h) = Handled(frames[a]) /\ (Rooted(frames[a]) => Rooted(h))
      /\ KeepsMatched(frames[a], h) /\ h \in Stacks
  BY DEF Plain, Steady
<1>4. connected[a] => Matched(h, mStack[a])
  BY <1>1, <1>2, <1>3 DEF SideSound, Sound, KeepsMatched
<1>5. connected[a] /\ ~sw => mStack[a] = <<>>
  <2>1. CASE sw = mSawRPCOutMsg[a]
    BY <1>1, <2>1 DEF SideSound, Sound
  <2>2. CASE h = <<>>
    <3>1. ASSUME connected[a]
          PROVE  mStack[a] = <<>>
      <4>1. Cardinality(CallsUpTo(h, Len(h))) = Len(mStack[a])
        BY <1>4, <3>1, Zenon DEF Matched
      <4>2. CallsUpTo(h, Len(h)) = {}
        BY <2>2 DEF CallsUpTo
      <4>3. Len(mStack[a]) = 0
        BY <4>1, <4>2, FS_EmptySet
      <4> QED
        BY <1>2, <4>3, EmptySeq
    <3> QED
      BY <3>1
  <2> QED
    BY <2>1, <2>2
<1> QED
  BY <1>1, <1>3, <1>4, <1>5 DEF SideSound, Sound, DeferredFit

\* MaybeUndeferIncall loses and duplicates no message and keeps the guess exact.
LEMMA UndeferIs ==
    ASSUME Base, NEW a \in Sides
    PROVE  LET u == Undeferred(a)
           IN  /\ u.pending \in Seq(Message) /\ DeferredFit(a, frames[a], u.deferred, u.guess)
               /\ Len(u.pending) + Len(u.deferred) = Len(mPending[a]) + Len(mDeferred[a])
               /\ \A e \in RPCs : Held(wire[a], u.pending, u.deferred, e) = HeldBy(a, e)
<1>1. TypeOK /\ SideSound(a)
  BY DEF Base
<1>2. /\ mPending[a] \in Seq(Message) /\ wire[a] \in Seq(Message) /\ mDeferred[a] \in Seq(Message)
      /\ frames[a] \in Stacks /\ mRemoteStackDepthGuess[a] \in Nat
  BY <1>1, SideTyped
<1>3. DeferredFit(a, frames[a], mDeferred[a], mRemoteStackDepthGuess[a])
  BY <1>1, <1>2 DEF SideSound, Sound, DeferredFit
<1>4. CASE ~MustUndefer(a)
  <2>1. /\ Undeferred(a).pending = mPending[a] /\ Undeferred(a).deferred = mDeferred[a]
        /\ Undeferred(a).guess = mRemoteStackDepthGuess[a]
    BY <1>4 DEF Undeferred
  <2> QED
    BY <1>2, <1>3, <2>1 DEF HeldBy
<1>5. CASE MustUndefer(a)
  <2> DEFINE p == Append(mPending[a], Last(mDeferred[a]))
             d == Front(mDeferred[a])
             g == mRemoteStackDepthGuess[a] - 1
  <2>1. /\ Undeferred(a).pending = p /\ Undeferred(a).deferred = d /\ Undeferred(a).guess = g
    BY <1>5 DEF Undeferred
  <2>2. mDeferred[a] # <<>>
    BY <1>5 DEF MustUndefer
  <2>3. /\ d \in Seq(Message) /\ Last(mDeferred[a]) \in Message /\ Len(d) = Len(mDeferred[a]) - 1
        /\ \A i \in 1 .. Len(mDeferred[a]) - 1 : d[i] = mDeferred[a][i]
        /\ Len(mDeferred[a]) \in Nat \ {0}
    BY <1>2, <2>2, FrontLast
  <2>4. p \in Seq(Message) /\ Len(p) = Len(mPending[a]) + 1 /\ Len(mPending[a]) \in Nat
    BY <1>2, <2>3, AppendIs
  <2>5. \A e \in RPCs : Held(wire[a], p, d, e) = HeldBy(a, e)
    BY <1>2, <2>2, HeldUndefer DEF HeldBy
  <2> HIDE DEF p, d
  <2>6. DeferredFit(a, frames[a], d, g)
    <3>1. Handled(frames[a]) \in Nat
      BY <1>2, HandledIs
    <3>2. /\ mRemoteStackDepthGuess[a] = Len(mDeferred[a]) + Handled(frames[a])
          /\ \A i \in 1 .. Len(mDeferred[a]) : mDeferred[a][i] \in Requests
      BY <1>3, <2>2 DEF DeferredFit
    <3>3. g \in Nat /\ g = Len(d) + Handled(frames[a])
      BY <1>2, <2>3, <3>1, <3>2
    <3>4. \A i \in 1 .. Len(d) : d[i] \in Requests
      BY <2>3, <3>2
    <3> QED
      BY <2>3, <3>2, <3>3, <3>4 DEF DeferredFit
  <2>8. Len(p) + Len(d) = Len(mPending[a]) + Len(mDeferred[a])
    <3> DEFINE k == Len(mPending[a])
               n == Len(mDeferred[a])
    <3>1. k \in Int /\ n \in Int
      BY <2>3, <2>4
    <3>2. Len(p) = k + 1
      BY <2>4
    <3>3. Len(d) = n - 1
      BY <2>3
    <3> HIDE DEF k, n
    <3>4. Len(p) + Len(d) = k + n
      BY <3>1, <3>2, <3>3
    <3> QED
      BY <3>4 DEF k, n
  <2> QED
    BY <2>1, <2>4, <2>5, <2>6, <2>8
<1> QED
  BY <1>4, <1>5

\* A side whose queues hold what they did, whose C++ stack runs the same in-calls.
LEMMA SteadyRuns ==
    ASSUME Base, NEW a \in Sides, Steady(frames[a], frames'[a])
    PROVE  RunningLess(a)
<1>1. frames[a] \in Stacks
  BY SideTyped DEF Base
<1>2. \A n \in Int : /\ Running(frames[a], n) \in Nat
                     /\ Running(frames'[a], n) = Running(frames[a], n)
  BY <1>1, StackIs DEF Steady
<1> QED
  BY <1>2 DEF RunningLess, RunningOn

\* A worker that moves messages between its queues holds no more of any.
LEMMA HeldSame ==
    ASSUME Base, NEW a \in Sides, wire'[a] = wire[a],
           \A e \in RPCs : Held(wire[a], mPending'[a], mDeferred'[a], e) = HeldBy(a, e)
    PROVE  HeldLess(a)
<1>1. wire[a] \in Seq(Message) /\ mPending[a] \in Seq(Message) /\ mDeferred[a] \in Seq(Message)
  BY SideTyped DEF Base
<1>2. \A e \in RPCs : HeldBy(a, e) \in Nat
  BY <1>1, HeldType DEF HeldBy
<1>3. \A e \in RPCs : HeldBy(a, e)' = HeldBy(a, e)
  BY DEF HeldBy
<1> QED
  BY <1>2, <1>3 DEF HeldLess

\* A stack that keeps its in-calls and Calls runs no more in-calls and loses no Call.
LEMMA PlainRuns ==
    ASSUME Base, NEW a \in Sides, Plain(frames[a], frames'[a]), connected'[a] = connected[a]
    PROVE  RunningLess(a) /\ BelowKept(a)
<1>1. RunningLess(a)
  BY SteadyRuns DEF Plain
<1> QED
  BY <1>1 DEF BelowKept, Plain

\* CallLoop undefers what it may and goes on to take a message or wait: a passive step.
LEMMA CallLoopStep ==
    ASSUME Base, NEW a \in Sides, CallLoop(a)
    PROVE  Base' /\ Effects(a)
<1> DEFINE u == Undeferred(a)
           p == u.pending
           d == u.deferred
           g == u.guess
           x == Frame("callwait", Last(frames[a]).seqno)
           h == Append(Front(frames[a]), x)
<1>1. TypeOK /\ SideSound(a)
  BY DEF Base
<1>2. /\ mPending[a] \in Seq(Message) /\ wire[a] \in Seq(Message) /\ mDeferred[a] \in Seq(Message)
      /\ tasks[a] \in Nat /\ mStack[a] \in Seq(Message) /\ mOutOfTurnReplies[a] \in SUBSET Int
      /\ mSawRPCOutMsg[a] \in BOOLEAN /\ frames[a] \in Stacks
  BY <1>1, SideTyped
<1>3. /\ mPending' = [mPending EXCEPT ![a] = p] /\ mDeferred' = [mDeferred EXCEPT ![a] = d]
      /\ mRemoteStackDepthGuess' = [mRemoteStackDepthGuess EXCEPT ![a] = g]
      /\ frames' = [frames EXCEPT ![a] = h] /\ At(a) = "calltop" /\ connected[a]
      /\ UNCHANGED <<mStack, mOutOfTurnReplies, mSawRPCOutMsg, mNextSeqno, syncVars,
                     connected, tasks, wire, budget, races>>
  BY DEF CallLoop, SetTop
<1>4. /\ p \in Seq(Message) /\ DeferredFit(a, frames[a], d, g)
      /\ Len(p) + Len(d) = Len(mPending[a]) + Len(mDeferred[a])
      /\ \A e \in RPCs : Held(wire[a], p, d, e) = HeldBy(a, e)
  BY UndeferIs
<1>5. Plain(frames[a], h) /\ h # <<>> /\ h \in Stacks
  <2>1. /\ frames[a] # <<>> /\ Last(frames[a]).at = "calltop" /\ Last(frames[a]).seqno \in Int
    BY <1>3, AtIs
  <2>2. x \in FrameRec /\ x.at \in CallPlaces /\ x.seqno = Last(frames[a]).seqno
        /\ "calltop" \in CallPlaces
    BY <2>1, FramesAre DEF FrameKinds, CallPlaces
  <2>3. Front(frames[a]) \in Seq(FrameRec)
    BY <1>2, <2>1, FrontGrown DEF Stacks
  <2> HIDE DEF x
  <2>4. h # <<>>
    BY <2>2, <2>3, AppendIs
  <2> QED
    BY <1>2, <2>1, <2>2, <2>4, TopCall
<1> HIDE DEF p, d, g, h, u, x
<1>6. Sound(a, h, mStack[a], connected[a], d, g, mSawRPCOutMsg[a])
  BY <1>4, <1>5, SoundPlain
<1>7. Work(a, p, mStack[a], mOutOfTurnReplies[a], d, g, mSawRPCOutMsg[a], h, tasks[a])
  BY <1>3 DEF Work, Replaced
<1>8. WorkTyped(p, mStack[a], mOutOfTurnReplies[a], d, g, mSawRPCOutMsg[a], h, tasks[a])
  BY <1>2, <1>4, <1>5 DEF WorkTyped, DeferredFit
<1>9. RestTyped /\ Onward
  BY <1>1, <1>3, RestKept
<1>10. /\ Base' /\ Elsewhere(Other(a)) /\ Bystanding(Other(a))
       /\ Worked(a, p, mStack[a], mOutOfTurnReplies[a], d, g, mSawRPCOutMsg[a], h, tasks[a])
  BY <1>6, <1>7, <1>8, <1>9, WorkStep
<1>11. \A e \in RPCs : HeldBy(a, e)' = HeldBy(a, e) /\ HeldBy(a, e) \in Nat
  <2>1. \A e \in RPCs : HeldBy(a, e) \in Nat
    BY <1>2, HeldType DEF HeldBy
  <2>2. wire' = wire /\ mPending'[a] = p /\ mDeferred'[a] = d
    BY <1>3, <1>10 DEF Worked
  <2> QED
    BY <1>4, <2>1, <2>2 DEF HeldBy
<1>12. HeldLess(a)
  BY <1>11 DEF HeldLess
<1>14. RunningLess(a) /\ BelowKept(a)
  <2>1. frames'[a] = h /\ connected'[a] = connected[a]
    BY <1>10 DEF Worked
  <2>2. \A n \in Int : Running(frames[a], n) \in Nat /\ Running(h, n) = Running(frames[a], n)
    BY <1>2, <1>5, StackIs DEF Plain, Steady
  <2>3. RunningLess(a)
    BY <2>1, <2>2 DEF RunningLess, RunningOn
  <2> QED
    BY <1>5, <2>1, <2>3 DEF BelowKept, Plain
<1>15. TasksKept(a)
  BY <1>3, <1>4, <1>10 DEF TasksKept, TasksFine, Worked
<1> QED
  BY <1>3, <1>9, <1>10, <1>12, <1>14, <1>15, WorkPassive

\* The front of a stack is empty when it had one frame.
LEMMA FrontAbove ==
    ASSUME NEW f \in Stacks, f # <<>>
    PROVE  Front(f) \in Stacks /\ (Front(f) = <<>> <=> Len(f) = 1)
<1>1. Front(f) \in Stacks
  BY FrontGrown
<1>2. Len(Front(f)) = Len(f) - 1 /\ Len(f) \in Nat \ {0}
  BY FrontLast DEF Stacks
<1>3. Len(Front(f)) \in Nat /\ (Front(f) = <<>> <=> Len(Front(f)) = 0)
  BY <1>1, EmptySeq DEF Stacks
<1> QED
  BY <1>1, <1>2, <1>3

\* A frame is left, the last one with ExitedCxxStack.
LEMMA UnwindStep ==
    ASSUME Base, NEW a \in Sides, Unwind(a)
    PROVE  Base' /\ Effects(a)
<1> DEFINE u == Undeferred(a)
           h == Front(frames[a])
           last == Len(frames[a]) = 1 /\ mSawRPCOutMsg[a]
           p == IF last THEN u.pending ELSE mPending[a]
           d == IF last THEN u.deferred ELSE mDeferred[a]
           g == IF last THEN u.guess ELSE mRemoteStackDepthGuess[a]
           sw == IF last THEN FALSE ELSE mSawRPCOutMsg[a]
           t == IF last THEN tasks[a] + (Len(d) + Len(p)) ELSE tasks[a]
<1>1. TypeOK /\ SideSound(a)
  BY DEF Base
<1>2. /\ mPending[a] \in Seq(Message) /\ wire[a] \in Seq(Message) /\ mDeferred[a] \in Seq(Message)
      /\ tasks[a] \in Nat /\ mStack[a] \in Seq(Message) /\ mOutOfTurnReplies[a] \in SUBSET Int
      /\ mSawRPCOutMsg[a] \in BOOLEAN /\ frames[a] \in Stacks
      /\ mRemoteStackDepthGuess[a] \in Nat
  BY <1>1, SideTyped
<1>3. /\ frames' = [frames EXCEPT ![a] = h] /\ At(a) \in {"unwind", "async"}
      /\ UNCHANGED <<mStack, mOutOfTurnReplies, mNextSeqno, syncVars, connected, wire, budget, races>>
  BY Zenon DEF Unwind
<1>4. /\ Replaced(mPending, mPending', a, p) /\ Replaced(mDeferred, mDeferred', a, d)
      /\ Replaced(mRemoteStackDepthGuess, mRemoteStackDepthGuess', a, g)
      /\ Replaced(mSawRPCOutMsg, mSawRPCOutMsg', a, sw) /\ Replaced(tasks, tasks', a, t)
  <2>1. CASE last
    <3>1. /\ mPending' = [mPending EXCEPT ![a] = p] /\ mDeferred' = [mDeferred EXCEPT ![a] = d]
          /\ mRemoteStackDepthGuess' = [mRemoteStackDepthGuess EXCEPT ![a] = g]
          /\ tasks' = [tasks EXCEPT ![a] = t]
          /\ mSawRPCOutMsg' = [mSawRPCOutMsg EXCEPT ![a] = sw]
      BY <2>1 DEF Unwind, TasksForQueues
    <3> HIDE DEF p, d, g, sw, t
    <3> QED
      BY <3>1 DEF Replaced
  <2>2. CASE ~last
    <3>1. UNCHANGED <<mPending, mDeferred, mRemoteStackDepthGuess, tasks, mSawRPCOutMsg>>
      BY <2>2 DEF Unwind
    <3>2. /\ p = mPending[a] /\ d = mDeferred[a] /\ g = mRemoteStackDepthGuess[a]
          /\ sw = mSawRPCOutMsg[a] /\ t = tasks[a]
      BY <2>2
    <3> HIDE DEF p, d, g, sw, t
    <3> QED
      BY <3>1, <3>2 DEF Replaced
  <2> QED
    BY <2>1, <2>2
<1>5. /\ p \in Seq(Message) /\ DeferredFit(a, frames[a], d, g)
      /\ \A e \in RPCs : Held(wire[a], p, d, e) = HeldBy(a, e)
  <2>1. CASE last
    <3>1. p = u.pending /\ d = u.deferred /\ g = u.guess
      BY <2>1
    <3> HIDE DEF p, d, g, last
    <3> QED
      BY <3>1, UndeferIs
  <2>2. CASE ~last
    <3>1. p = mPending[a] /\ d = mDeferred[a] /\ g = mRemoteStackDepthGuess[a]
      BY <2>2
    <3> HIDE DEF p, d, g, last
    <3>2. DeferredFit(a, frames[a], mDeferred[a], mRemoteStackDepthGuess[a])
      BY <1>1, <1>2 DEF SideSound, Sound, DeferredFit
    <3> QED
      BY <1>2, <3>1, <3>2 DEF HeldBy
  <2> QED
    BY <2>1, <2>2
<1>6. Plain(frames[a], h) /\ h \in Stacks /\ (h = <<>> <=> Len(frames[a]) = 1)
  <2>1. frames[a] # <<>> /\ Last(frames[a]).at \in {"unwind", "async"}
    BY <1>3, AtIs
  <2>2. Minor(Last(frames[a]))
    BY <2>1 DEF Minor, CallPlaces
  <2> QED
    BY <1>2, <2>1, <2>2, PopMinor, FrontAbove
<1>7. /\ h = <<>> => ~sw
      /\ sw = mSawRPCOutMsg[a] \/ (~sw /\ h = <<>>)
      /\ sw \in BOOLEAN
  BY <1>2, <1>6
<1>8. /\ t \in Nat
      /\ ~sw => \/ t >= Len(p) + Len(d)
                \/ /\ t = tasks[a] /\ p = mPending[a] /\ d = mDeferred[a]
                   /\ sw = mSawRPCOutMsg[a]
  <2>1. Len(p) \in Nat /\ Len(d) \in Nat
    BY <1>5, LenProperties DEF DeferredFit
  <2>2. CASE last
    <3>1. t = tasks[a] + (Len(d) + Len(p))
      BY <2>2
    <3> HIDE DEF t, p, d, sw, last
    <3> QED
      BY <1>2, <2>1, <3>1
  <2>3. CASE ~last
    <3>1. t = tasks[a] /\ p = mPending[a] /\ d = mDeferred[a] /\ sw = mSawRPCOutMsg[a]
      BY <2>3
    <3> HIDE DEF t, p, d, sw, last
    <3> QED
      BY <1>2, <3>1
  <2> QED
    BY <2>2, <2>3
<1> HIDE DEF p, d, g, h, u, sw, t, last
<1>9. Sound(a, h, mStack[a], connected[a], d, g, sw)
  BY <1>5, <1>6, <1>7, SoundPlain
<1>10. Work(a, p, mStack[a], mOutOfTurnReplies[a], d, g, sw, h, t)
  BY <1>3, <1>4 DEF Work, Replaced
<1>11. WorkTyped(p, mStack[a], mOutOfTurnReplies[a], d, g, sw, h, t)
  BY <1>2, <1>5, <1>6, <1>7, <1>8 DEF WorkTyped, DeferredFit
<1>12. RestTyped /\ Onward
  BY <1>1, <1>3, RestKept
<1>13. /\ Base' /\ Elsewhere(Other(a)) /\ Bystanding(Other(a))
       /\ Worked(a, p, mStack[a], mOutOfTurnReplies[a], d, g, sw, h, t)
  BY <1>9, <1>10, <1>11, <1>12, WorkStep
<1>14. HeldLess(a)
  BY <1>3, <1>5, <1>13, HeldSame DEF Worked
<1>15. RunningLess(a) /\ BelowKept(a)
  BY <1>6, <1>13, PlainRuns DEF Worked
<1>16. TasksKept(a)
  BY <1>8, <1>13 DEF TasksKept, TasksFine, Worked
<1> QED
  BY <1>3, <1>12, <1>13, <1>14, <1>15, <1>16, WorkPassive

\* Call sends a request and records it: it asks.
LEMMA CallStep ==
    ASSUME Base, NEW a \in Sides, Call(a)
    PROVE  Base' /\ Effects(a)
<1> DEFINE n == NextSeqno(a)
           m == RPC(n, mRemoteStackDepthGuess[a])
           x == Frame("calltop", n)
           h == Append(frames[a], x)
           st == Append(mStack[a], m)
           d == mDeferred[a]
           g == mRemoteStackDepthGuess[a]
           o == Other(a)
<1>1. TypeOK /\ SideSound(a) /\ o \in Sides /\ o # a
  BY SidesAre DEF Base
<1>2. /\ mPending[a] \in Seq(Message) /\ wire[a] \in Seq(Message) /\ mDeferred[a] \in Seq(Message)
      /\ tasks[a] \in Nat /\ mStack[a] \in Seq(Message) /\ mOutOfTurnReplies[a] \in SUBSET Int
      /\ frames[a] \in Stacks /\ mRemoteStackDepthGuess[a] \in Nat
      /\ mPending[o] \in Seq(Message) /\ wire[o] \in Seq(Message) /\ mDeferred[o] \in Seq(Message)
  BY <1>1, SideTyped
<1>3. /\ connected[a] /\ Spend(a, "rpc") /\ Len(frames[a]) < MaxFrames
      /\ mNextSeqno' = [mNextSeqno EXCEPT ![a] = RPC(n, g).seqno]
      /\ mStack' = [mStack EXCEPT ![a] = st]
      /\ wire' = [wire EXCEPT ![o] = Append(@, m)]
      /\ frames' = [frames EXCEPT ![a] = Append(frames[a], Frame("calltop", RPC(n, g).seqno))]
      /\ mSawRPCOutMsg' = [mSawRPCOutMsg EXCEPT ![a] = TRUE]
      /\ UNCHANGED <<queueVars, syncVars, connected>>
  BY DEF Call, SendMessage, Push
<1>4. RPC(n, g).seqno = n
  BY DEF RPC
<1>5. /\ n \in Int /\ mNextSeqno' \in [Sides -> Int] /\ mNextSeqno'[a] = n
      /\ mNextSeqno'[o] = mNextSeqno[o]
  BY <1>1, <1>3, <1>4, NextSeqnoIs
<1>6. m \in Requests /\ m \in Message /\ m \in RPCs /\ m.seqno = n /\ m.guess = g
  BY <1>2, <1>5, MessagesAre
<1>7. x \in FrameRec /\ x.at \in CallPlaces /\ x.seqno = n
  <2>1. "calltop" \in FrameKinds /\ "calltop" \in CallPlaces
    BY DEF FrameKinds, CallPlaces
  <2> QED
    BY <1>5, <2>1, FramesAre
<1>8. frames' = [frames EXCEPT ![a] = h]
  BY <1>3, <1>4
<1> HIDE DEF n, x, m
<1>9. Called(frames[a], h, n) /\ h \in Stacks /\ h # <<>>
  <2>1. Called(frames[a], h, n) /\ h \in Stacks
    BY <1>2, <1>7, PushCall
  <2>2. h # <<>>
    <3>1. frames[a] \in Seq(FrameRec)
      BY <1>2 DEF Stacks
    <3> QED
      BY <1>7, <3>1, AppendIs
  <2> QED
    BY <2>1, <2>2
<1>10. st \in Seq(Message) /\ Len(st) <= MaxFrames
  <2>1. Matched(frames[a], mStack[a]) /\ Len(frames[a]) < MaxFrames
    BY <1>1, <1>3 DEF SideSound, Sound
  <2>2. Len(mStack[a]) <= Len(frames[a])
    BY <1>2, <2>1, MatchedDepth
  <2>3. Len(st) = Len(mStack[a]) + 1 /\ Len(mStack[a]) \in Nat /\ Len(frames[a]) \in Nat
    BY <1>2, <1>6, AppendIs, LenProperties DEF Stacks
  <2>4. Len(st) <= MaxFrames
    <3> DEFINE k == Len(st)
               l == Len(mStack[a])
               n2 == Len(frames[a])
    <3>1. k = l + 1 /\ l <= n2 /\ n2 < MaxFrames /\ l \in Nat /\ n2 \in Nat /\ MaxFrames \in Nat
      BY <2>1, <2>2, <2>3, BoundsAssumption
    <3> HIDE DEF k, l, n2
    <3>2. k <= MaxFrames
      BY <3>1
    <3> QED
      BY <3>2 DEF k
  <2> QED
    BY <1>2, <1>6, <2>4
<1> HIDE DEF h, o
<1>11. Sound(a, h, st, connected[a], d, g, TRUE)
  <2>1. Matched(frames[a], mStack[a]) /\ Rooted(frames[a])
    BY <1>1, <1>3 DEF SideSound, Sound
  <2>2. Matched(h, st)
    BY <1>2, <1>6, <1>9, <2>1 DEF Called
  <2>3. Handled(h) = Handled(frames[a]) /\ Rooted(h)
    BY <1>9, <2>1 DEF Called, Steady
  <2> HIDE DEF st
  <2> QED
    BY <1>1, <1>9, <2>2, <2>3 DEF SideSound, Sound
<1> HIDE DEF st
<1>12. Work(a, mPending[a], st, mOutOfTurnReplies[a], d, g, TRUE, h, tasks[a])
  BY <1>3, <1>8 DEF Work, Replaced, queueVars
<1>13. WorkTyped(mPending[a], st, mOutOfTurnReplies[a], d, g, TRUE, h, tasks[a])
  BY <1>2, <1>9, <1>10 DEF WorkTyped
<1>14. RestTyped
  <2>1. budget' \in [Sides -> [rpc : Nat, sync : Nat, async : Nat, nest : Nat]]
    BY <1>1, <1>3, Spent
  <2>2. wire' \in [Sides -> Seq(Message)]
    BY <1>1, <1>2, <1>3, <1>6, RestKept
  <2>3. mPendingReply' = mPendingReply /\ mRecvd' = mRecvd /\ races' = races
    BY <1>3 DEF syncVars, queueVars
  <2> QED
    BY <1>1, <1>5, <2>1, <2>2, <2>3, RestKept DEF RestTyped
<1>15. /\ Base' /\ Elsewhere(o) /\ Bystanding(o)
       /\ Worked(a, mPending[a], st, mOutOfTurnReplies[a], d, g, TRUE, h, tasks[a])
  BY <1>11, <1>12, <1>13, <1>14, WorkStep DEF o
<1>16. wire'[a] = wire[a] /\ wire'[o] = Append(wire[o], m)
  BY <1>1, <1>3, RestKept
<1>17. HeldLess(a)
  <2>1. mPending'[a] = mPending[a] /\ mDeferred'[a] = mDeferred[a]
    BY <1>15 DEF Worked
  <2>2. \A e \in RPCs : Held(wire[a], mPending'[a], mDeferred'[a], e) = HeldBy(a, e)
    BY <2>1 DEF HeldBy
  <2> QED
    BY <1>16, <2>1, <2>2, HeldSame
<1>18. frames'[a] = h
  BY <1>15 DEF Worked
<1>19. RunningLess(a) /\ BelowKept(a)
  <2>1. RunningLess(a)
    BY <1>9, <1>18, SteadyRuns DEF Called
  <2> QED
    BY <1>3, <1>9, <1>18, <2>1 DEF BelowKept, Called
<1>20. \A e \in RPCs : HeldBy(o, e)' = HeldBy(o, e) + (IF e = m THEN 1 ELSE 0)
  <2>1. ASSUME NEW e \in RPCs
        PROVE  Held(Append(wire[o], m), mPending[o], mDeferred[o], e)
                 = HeldBy(o, e) + (IF e = m THEN 1 ELSE 0)
    <3>1. Held(Append(wire[o], m), mPending[o], mDeferred[o], e)
            = HeldBy(o, e) + (IF m = e THEN 1 ELSE 0)
      BY <1>2, <1>6, HeldSend DEF HeldBy
    <3> QED
      BY <3>1
  <2>2. mPending'[o] = mPending[o] /\ mDeferred'[o] = mDeferred[o]
    BY <1>15 DEF Elsewhere
  <2> QED
    BY <1>16, <2>1, <2>2 DEF HeldBy
<1>21. \A s \in Sides : TasksKept(s)
  <2>1. TasksKept(a)
    BY <1>15 DEF TasksKept, TasksFine, Worked
  <2>2. TasksKept(o)
    BY <1>15 DEF Bystanding
  <2> QED
    BY <2>1, <2>2, SidesAre DEF o
<1>22. Asks(a)
  <2>1. \A s \in Sides : RunningLess(s) /\ BelowKept(s)
    BY <1>15, <1>19, SidesAre DEF Bystanding, o
  <2>2. mOutOfTurnReplies' = mOutOfTurnReplies /\ connected' = connected
    BY <1>3 DEF queueVars
  <2>3. mStack'[o] = mStack[o] /\ mPending'[o] = mPending[o]
    BY <1>15 DEF Elsewhere
  <2>4. mStack'[a] = Append(mStack[a], m)
    BY <1>15 DEF Worked, st
  <2>5. \A c \in Int : Running(frames[a], c) > 0 => Below(frames'[a], c, m.seqno)
    BY <1>6, <1>9, <1>18 DEF Called
  <2>6. m.seqno = NextSeqno(a) /\ mNextSeqno'[a] = NextSeqno(a)
    BY <1>5, <1>6 DEF n
  <2>7. /\ m.seqno = NextSeqno(a) /\ m.guess = mRemoteStackDepthGuess[a]
        /\ mStack'[a] = Append(mStack[a], m)
        /\ \A e \in RPCs : HeldBy(Other(a), e)' =
              HeldBy(Other(a), e) + (IF e = m THEN 1 ELSE 0)
        /\ mPending'[Other(a)] = mPending[Other(a)]
        /\ wire'[Other(a)] = Append(wire[Other(a)], m)
        /\ \A c \in Int : Running(frames[a], c) > 0 => Below(frames'[a], c, m.seqno)
    BY <1>6, <1>16, <1>20, <2>3, <2>4, <2>5, <2>6 DEF o
  <2>8. mStack'[Other(a)] = mStack[Other(a)] /\ mNextSeqno'[Other(a)] = mNextSeqno[Other(a)]
    BY <1>5, <2>3 DEF o
  <2>9. mDeferred'[a] = mDeferred[a] /\ Len(mStack'[a]) <= MaxFrames
    BY <1>10, <1>15 DEF Worked
  <2> QED
    BY <1>3, <1>6, <1>17, <2>1, <2>2, <2>6, <2>7, <2>8, <2>9, Zenon DEF Asks
<1> QED
  BY <1>15, <1>21, <1>22 DEF Effects

\* What Call finds when it looks for its reply.
LEMMA Waiting ==
    ASSUME Base, NEW a \in Sides, At(a) = "callwait", connected[a]
    PROVE  /\ frames[a] # <<>> /\ Last(frames[a]).at \in CallPlaces /\ frames[a] \in Stacks
           /\ mStack[a] # <<>> /\ Last(mStack[a]).seqno = Last(frames[a]).seqno
           /\ Last(mStack[a]) \in Message /\ Last(mStack[a]).seqno \in Int
           /\ Front(mStack[a]) \in Seq(Message) /\ mSawRPCOutMsg[a]
<1>1. TypeOK /\ SideSound(a)
  BY DEF Base
<1>2. mStack[a] \in Seq(Message) /\ mSawRPCOutMsg[a] \in BOOLEAN
  BY <1>1, SideTyped
<1>3. frames[a] # <<>> /\ Last(frames[a]).at \in CallPlaces /\ frames[a] \in Stacks
  <2>1. "callwait" \in CallPlaces
    BY DEF CallPlaces
  <2> QED
    BY <2>1, AtIs
<1>4. Matched(frames[a], mStack[a])
  BY <1>1 DEF SideSound, Sound
<1>5. mStack[a] # <<>> /\ Last(mStack[a]).seqno = Last(frames[a]).seqno
  BY <1>2, <1>3, <1>4, PopCall DEF Returned
<1>6. mSawRPCOutMsg[a]
  BY <1>1, <1>2, <1>5 DEF SideSound, Sound
<1>7. Front(mStack[a]) \in Seq(Message) /\ Last(mStack[a]) \in Message
  BY <1>2, <1>5, FrontLast
<1> QED
  BY <1>3, <1>5, <1>6, <1>7, MessagesAre

\* Call returns with its reply.
LEMMA ReturnIs ==
    ASSUME Base, NEW a \in Sides, At(a) = "callwait", connected[a], SetTop(a, Frame("unwind", 0))
    PROVE  \E h \in Stacks :
              /\ frames' = [frames EXCEPT ![a] = h]
              /\ Sound(a, h, Front(mStack[a]), connected[a], mDeferred[a],
                       mRemoteStackDepthGuess[a], mSawRPCOutMsg[a])
              /\ Steady(frames[a], h)
              /\ \A c, k \in Int : k # Last(mStack[a]).seqno /\ Below(frames[a], c, k)
                                      => Below(h, c, k)
<1> DEFINE x == Frame("unwind", 0)
           h == Append(Front(frames[a]), x)
           n == Last(mStack[a]).seqno
<1>1. TypeOK /\ SideSound(a)
  BY DEF Base
<1>2. /\ frames[a] # <<>> /\ Last(frames[a]).at \in CallPlaces /\ frames[a] \in Stacks
      /\ Last(frames[a]).seqno = n /\ mSawRPCOutMsg[a]
  BY Waiting
<1>3. frames' = [frames EXCEPT ![a] = h]
  BY DEF SetTop
<1>4. x \in FrameRec /\ Minor(x) /\ x.at # "nest"
  BY FramesAre
<1> HIDE DEF x, n
<1>5. Returned(frames[a], h, n) /\ h \in Stacks
  BY <1>2, <1>4, TopReturn
<1>6. h # <<>>
  <2>1. Front(frames[a]) \in Seq(FrameRec)
    BY <1>2, FrontGrown DEF Stacks
  <2> QED
    BY <1>4, <2>1, AppendIs
<1> HIDE DEF h
<1>7. /\ Matched(frames[a], mStack[a]) /\ mStack[a] \in Seq(Message) /\ Rooted(frames[a])
  BY <1>1, SideTyped DEF SideSound, Sound
<1>8. Matched(h, Front(mStack[a]))
  BY <1>5, <1>7 DEF Returned
<1>9. Handled(h) = Handled(frames[a]) /\ Rooted(h) /\ Steady(frames[a], h)
  BY <1>5, <1>7 DEF Returned, Steady
<1>10. Sound(a, h, Front(mStack[a]), connected[a], mDeferred[a], mRemoteStackDepthGuess[a],
             mSawRPCOutMsg[a])
  BY <1>1, <1>2, <1>6, <1>8, <1>9 DEF SideSound, Sound
<1>11. \A c, k \in Int : k # n /\ Below(frames[a], c, k) => Below(h, c, k)
  BY <1>5 DEF Returned
<1> QED
  BY <1>3, <1>5, <1>9, <1>10, <1>11 DEF n

\* CallTakesOutOfTurn returns with a reply put aside earlier: it gets.
LEMMA CallTakesOutOfTurnStep ==
    ASSUME Base, NEW a \in Sides, CallTakesOutOfTurn(a)
    PROVE  Base' /\ Effects(a)
<1> DEFINE n == Last(mStack[a]).seqno
           st == Front(mStack[a])
           r == mOutOfTurnReplies[a] \ {n}
           o == Other(a)
<1>1. TypeOK /\ o \in Sides /\ o # a
  BY SidesAre DEF Base
<1>2. /\ mPending[a] \in Seq(Message) /\ mDeferred[a] \in Seq(Message)
      /\ tasks[a] \in Nat /\ mOutOfTurnReplies[a] \in SUBSET Int
      /\ mSawRPCOutMsg[a] \in BOOLEAN /\ mRemoteStackDepthGuess[a] \in Nat
  BY <1>1, SideTyped
<1>3. /\ At(a) = "callwait" /\ connected[a] /\ SetTop(a, Frame("unwind", 0))
      /\ n \in mOutOfTurnReplies[a] /\ mStack' = [mStack EXCEPT ![a] = st]
      /\ mOutOfTurnReplies' = [mOutOfTurnReplies EXCEPT ![a] = r]
      /\ UNCHANGED <<mPending, mDeferred, mRemoteStackDepthGuess, tasks, races,
                     mSawRPCOutMsg, mNextSeqno, syncVars, connected, wire, budget>>
  BY DEF CallTakesOutOfTurn, EraseReply
<1>4. mStack[a] # <<>> /\ st \in Seq(Message) /\ mSawRPCOutMsg[a]
  BY <1>3, Waiting
<1>5. PICK h \in Stacks :
         /\ frames' = [frames EXCEPT ![a] = h]
         /\ Sound(a, h, st, connected[a], mDeferred[a], mRemoteStackDepthGuess[a],
                  mSawRPCOutMsg[a])
         /\ Steady(frames[a], h)
         /\ \A c, k \in Int : k # n /\ Below(frames[a], c, k) => Below(h, c, k)
  BY <1>3, ReturnIs
<1> HIDE DEF st, r, o, n
<1>6. Work(a, mPending[a], st, r, mDeferred[a], mRemoteStackDepthGuess[a], mSawRPCOutMsg[a], h,
           tasks[a])
  BY <1>3, <1>5 DEF Work, Replaced
<1>7. WorkTyped(mPending[a], st, r, mDeferred[a], mRemoteStackDepthGuess[a], mSawRPCOutMsg[a], h,
                tasks[a])
  BY <1>2, <1>4 DEF WorkTyped, r
<1>8. RestTyped
  BY <1>1, <1>3, RestKept
<1>9. /\ Base' /\ Elsewhere(o) /\ Bystanding(o)
      /\ Worked(a, mPending[a], st, r, mDeferred[a], mRemoteStackDepthGuess[a],
                mSawRPCOutMsg[a], h, tasks[a])
  BY <1>5, <1>6, <1>7, <1>8, WorkStep DEF o
<1>10. HeldLess(a)
  <2>1. mPending'[a] = mPending[a] /\ mDeferred'[a] = mDeferred[a] /\ wire'[a] = wire[a]
    BY <1>3
  <2>2. \A e \in RPCs : Held(wire[a], mPending'[a], mDeferred'[a], e) = HeldBy(a, e)
    BY <2>1 DEF HeldBy
  <2> QED
    BY <2>1, <2>2, HeldSame
<1>11. frames'[a] = h
  BY <1>9 DEF Worked
<1>12. RunningLess(a)
  BY <1>5, <1>11, SteadyRuns
<1>13. HeldLess(o) /\ RunningLess(o) /\ BelowKept(o)
  BY <1>3, <1>9 DEF Bystanding
<1>14. \A s \in Sides : TasksKept(s)
  <2>1. TasksKept(a)
    BY <1>4, <1>9 DEF TasksKept, TasksFine, Worked
  <2>2. TasksKept(o)
    BY <1>9 DEF Bystanding
  <2> QED
    BY <2>1, <2>2, SidesAre DEF o
<1>15. Gets(a)
  <2>1. \A s \in Sides : HeldLess(s) /\ RunningLess(s)
    BY <1>10, <1>12, <1>13, SidesAre DEF o
  <2>2. /\ mStack'[o] = mStack[o] /\ mOutOfTurnReplies'[o] = mOutOfTurnReplies[o]
        /\ connected' = connected /\ mNextSeqno' = mNextSeqno
    BY <1>3, <1>9 DEF Elsewhere
  <2>3. mStack'[a] = Front(mStack[a]) /\ mOutOfTurnReplies'[a] = r
    BY <1>9 DEF Worked, st
  <2>4. \A c, k \in Int : k # Last(mStack[a]).seqno /\ Below(frames[a], c, k)
                             => Below(frames'[a], c, k)
    BY <1>5, <1>11 DEF n
  <2>5. \/ /\ Last(mStack[a]).seqno \in mOutOfTurnReplies[a]
           /\ mOutOfTurnReplies'[a] = mOutOfTurnReplies[a] \ {Last(mStack[a]).seqno}
        \/ FALSE
    BY <1>3, <1>10, <2>3 DEF r, n
  <2>6. /\ connected[a] /\ mStack[a] # <<>>
        /\ BelowKept(Other(a))
        /\ mStack'[Other(a)] = mStack[Other(a)]
        /\ mOutOfTurnReplies'[Other(a)] = mOutOfTurnReplies[Other(a)]
    BY <1>3, <1>4, <1>13, <2>2 DEF o
  <2> QED
    BY <2>1, <2>2, <2>3, <2>4, <2>5, <2>6, Zenon DEF Gets
<1> QED
  BY <1>9, <1>14, <1>15 DEF Effects

-----------------------------------------------------------------------------
(***************************************************************************)
(* A worker takes the first message of its queue q.                        *)
(***************************************************************************)

\* The queue and deferred calls as MaybeUndeferIncall may have left them.
Takable(a, q, d, g) ==
    /\ q \in Seq(Message) /\ q # <<>> /\ DeferredFit(a, frames[a], d, g)
    /\ \A e \in RPCs : Held(wire[a], q, d, e) = HeldBy(a, e)

\* The stack f still belongs to the out-calls of side a.
Stands(a, f) ==
    /\ f \in Stacks /\ KeepsMatched(frames[a], f) /\ KeepsBelow(frames[a], f)
    /\ Rooted(frames[a]) => Rooted(f)
    /\ f = <<>> => ~mSawRPCOutMsg[a]

TakesOne(a, q, r, d, g, f, t) ==
    /\ mPending' = [mPending EXCEPT ![a] = Tail(q)]
    /\ Replaced(mOutOfTurnReplies, mOutOfTurnReplies', a, r)
    /\ Replaced(mDeferred, mDeferred', a, d)
    /\ Replaced(mRemoteStackDepthGuess, mRemoteStackDepthGuess', a, g)
    /\ Replaced(frames, frames', a, f) /\ Replaced(tasks, tasks', a, t)
    /\ races' \in [Sides -> SUBSET (Int \X Int)] /\ r \in SUBSET Int /\ t \in Nat
    /\ UNCHANGED <<mStack, mSawRPCOutMsg, mNextSeqno, syncVars, connected, wire, budget>>
    /\ connected[a] /\ ~mSawRPCOutMsg[a] /\ TasksFine(a) /\ Innocent(a)
          => t >= Len(Tail(q)) + Len(d)

\* The message taken from the queue and what is left of it.
LEMMA TakenIs ==
    ASSUME Base, NEW a \in Sides, NEW q, NEW d, NEW g, Takable(a, q, d, g)
    PROVE  /\ Head(q) \in Message /\ Tail(q) \in Seq(Message) /\ d \in Seq(Message)
           /\ Len(q) \in Nat \ {0} /\ Len(Tail(q)) = Len(q) - 1
           /\ \A e \in RPCs : /\ HeldBy(a, e) = Held(wire[a], Tail(q), d, e)
                                                  + (IF Head(q) = e THEN 1 ELSE 0)
                              /\ Held(wire[a], Tail(q), d, e) \in Nat
<1>1. /\ q \in Seq(Message) /\ q # <<>> /\ d \in Seq(Message)
      /\ \A e \in RPCs : Held(wire[a], q, d, e) = HeldBy(a, e)
  BY DEF Takable, DeferredFit
<1>2. wire[a] \in Seq(Message)
  BY SideTyped DEF Base
<1>3. /\ Head(q) \in Message /\ Tail(q) \in Seq(Message)
      /\ Len(q) \in Nat \ {0} /\ Len(Tail(q)) = Len(q) - 1
  BY <1>1, HeadTailProperties, EmptySeq
<1>4. ASSUME NEW e \in RPCs
      PROVE  /\ HeldBy(a, e) = Held(wire[a], Tail(q), d, e) + (IF Head(q) = e THEN 1 ELSE 0)
             /\ Held(wire[a], Tail(q), d, e) \in Nat
  <2>1. Held(wire[a], q, d, e) = Held(wire[a], Tail(q), d, e) + (IF Head(q) = e THEN 1 ELSE 0)
    BY <1>1, <1>2, HeldTake
  <2>2. Held(wire[a], Tail(q), d, e) \in Nat
    BY <1>1, <1>2, <1>3, HeldType
  <2> QED
    BY <1>1, <2>1, <2>2
<1> QED
  BY <1>1, <1>3, <1>4

\* A stack that keeps its in-calls and Calls still belongs to the side's queues.
LEMMA PlainFits ==
    ASSUME Base, NEW a \in Sides, NEW f, f \in Stacks, Plain(frames[a], f),
           f = <<>> => ~mSawRPCOutMsg[a],
           NEW d, NEW g, DeferredFit(a, frames[a], d, g)
    PROVE  Stands(a, f) /\ DeferredFit(a, f, d, g)
BY DEF Plain, Steady, Stands, DeferredFit

\* A worker that takes a message and leaves a stack and a guess that fit leaves the
\* state sound, and the other side alone.
LEMMA TakeStep ==
    ASSUME Base, NEW a \in Sides, NEW q, NEW d0, NEW g0, Takable(a, q, d0, g0),
           NEW r, NEW d, NEW g, NEW f, NEW t, TakesOne(a, q, r, d, g, f, t),
           DeferredFit(a, f, d, g), Stands(a, f)
    PROVE  /\ Base' /\ Elsewhere(Other(a)) /\ Bystanding(Other(a)) /\ Onward
           /\ Worked(a, Tail(q), mStack[a], r, d, g, mSawRPCOutMsg[a], f, t)
           /\ BelowKept(a) /\ TasksKept(a)
<1>1. TypeOK /\ SideSound(a)
  BY DEF Base
<1>2. mStack[a] \in Seq(Message) /\ mSawRPCOutMsg[a] \in BOOLEAN /\ frames[a] \in Stacks
  BY <1>1, SideTyped
<1>3. Tail(q) \in Seq(Message)
  BY TakenIs
<1>4. /\ mPending' = [mPending EXCEPT ![a] = Tail(q)]
      /\ UNCHANGED <<mStack, mSawRPCOutMsg, mNextSeqno, syncVars, connected, wire, budget>>
      /\ races' \in [Sides -> SUBSET (Int \X Int)] /\ r \in SUBSET Int /\ t \in Nat
  BY Zenon DEF TakesOne
<1>5. Work(a, Tail(q), mStack[a], r, d, g, mSawRPCOutMsg[a], f, t)
  BY <1>4 DEF TakesOne, Work, Replaced
<1>6. WorkTyped(Tail(q), mStack[a], r, d, g, mSawRPCOutMsg[a], f, t)
  BY <1>2, <1>3, <1>4 DEF WorkTyped, DeferredFit, Stands
<1>7. RestTyped /\ Onward
  BY <1>1, <1>4, RestKept DEF RestTyped, syncVars
<1>8. Sound(a, f, mStack[a], connected[a], d, g, mSawRPCOutMsg[a])
  <2>1. connected[a] => Matched(f, mStack[a])
    BY <1>1, <1>2 DEF SideSound, Sound, Stands, KeepsMatched
  <2> QED
    BY <1>1, <2>1 DEF SideSound, Sound, Stands, DeferredFit
<1>9. /\ Base' /\ Elsewhere(Other(a)) /\ Bystanding(Other(a))
      /\ Worked(a, Tail(q), mStack[a], r, d, g, mSawRPCOutMsg[a], f, t)
  BY <1>5, <1>6, <1>7, <1>8, WorkStep
<1>10. BelowKept(a)
  BY <1>9 DEF BelowKept, Worked, Stands
<1>11. TasksKept(a)
  <2>1. /\ mPending'[a] = Tail(q) /\ mDeferred'[a] = d /\ tasks'[a] = t
        /\ connected'[a] = connected[a] /\ mSawRPCOutMsg'[a] = mSawRPCOutMsg[a]
    BY <1>9 DEF Worked
  <2>2. connected[a] /\ ~mSawRPCOutMsg[a] /\ TasksFine(a) /\ Innocent(a)
           => t >= Len(Tail(q)) + Len(d)
    BY Zenon DEF TakesOne
  <2>3. TasksFine(a)' <=> (connected'[a] /\ ~mSawRPCOutMsg'[a]
                             => tasks'[a] >= Len(mPending'[a]) + Len(mDeferred'[a]))
    BY DEF TasksFine
  <2> QED
    BY <2>1, <2>2, <2>3 DEF TasksKept
<1> QED
  BY <1>7, <1>9, <1>10, <1>11

\* A worker that puts no reply aside leaves those put aside earlier.
LEMMA RepliesKept ==
    ASSUME Base, NEW a \in Sides, NEW q, NEW d, NEW g, NEW f, NEW t,
           TakesOne(a, q, mOutOfTurnReplies[a], d, g, f, t)
    PROVE  mOutOfTurnReplies' = mOutOfTurnReplies
<1>1. mOutOfTurnReplies \in [Sides -> SUBSET Int]
  BY DEF Base, TypeOK
<1>2. Replaced(mOutOfTurnReplies, mOutOfTurnReplies', a, mOutOfTurnReplies[a])
  BY Zenon DEF TakesOne
<1> QED
  BY <1>1, <1>2 DEF Replaced

\* A message that is no call and no reply to one is dispatched.
LEMMA DispatchStep ==
    ASSUME Base, NEW a \in Sides, NEW q, NEW u, Takable(a, q, u.deferred, u.guess),
           Head(q) \notin RPCs, NEW stk, stk \in Stacks, Plain(frames[a], stk), NEW f, NEW t,
           f = Append(stk, IF Head(q).kind = "sync" THEN Frame("syncin", Head(q).seqno)
                                                    ELSE AsyncHandler),
           TakesOne(a, q, mOutOfTurnReplies[a], u.deferred, u.guess, f, t)
    PROVE  Base' /\ Effects(a)
<1> DEFINE d == u.deferred
           g == u.guess
           x == IF Head(q).kind = "sync" THEN Frame("syncin", Head(q).seqno) ELSE AsyncHandler
<1>1. /\ Takable(a, q, d, g) /\ frames[a] \in Stacks
      /\ f = Append(stk, x) /\ TakesOne(a, q, mOutOfTurnReplies[a], d, g, f, t)
  BY SideTyped DEF Base
<1>2. Head(q) \in Message /\ DeferredFit(a, frames[a], d, g)
  BY <1>1, TakenIs DEF Takable
<1>3. x \in FrameRec /\ Minor(x) /\ x.at # "nest"
  <2>1. CASE Head(q).kind = "sync"
    <3>1. Head(q).seqno \in Int /\ "syncin" \in FrameKinds
      BY <1>2, MessagesAre DEF FrameKinds
    <3> QED
      BY <2>1, <3>1, FramesAre
  <2>2. CASE Head(q).kind # "sync"
    <3>1. 0 \in Int /\ "async" \in FrameKinds
      BY DEF FrameKinds
    <3> QED
      BY <2>2, <3>1, FramesAre DEF AsyncHandler
  <2> QED
    BY <2>1, <2>2
<1> HIDE DEF x, d, g
<1>4. Plain(frames[a], f) /\ f \in Stacks /\ f # <<>>
  <2>1. Plain(stk, f) /\ f \in Stacks
    BY <1>1, <1>3, PushMinor
  <2>2. f # <<>>
    <3>1. stk \in Seq(FrameRec)
      BY DEF Stacks
    <3> QED
      BY <1>1, <1>3, <3>1, AppendIs
  <2> QED
    BY <1>1, <2>1, <2>2, PlainTwice
<1>5. Stands(a, f) /\ DeferredFit(a, f, d, g)
  BY <1>2, <1>4, PlainFits
<1>6. /\ Base' /\ Elsewhere(Other(a)) /\ Bystanding(Other(a)) /\ Onward
      /\ Worked(a, Tail(q), mStack[a], mOutOfTurnReplies[a], d, g, mSawRPCOutMsg[a], f, t)
      /\ BelowKept(a) /\ TasksKept(a)
  BY <1>1, <1>5, TakeStep
<1>7. RunningLess(a)
  <2>1. frames'[a] = f
    BY <1>6 DEF Worked
  <2> QED
    BY <1>4, <2>1, SteadyRuns DEF Plain
<1>8. wire' = wire /\ mStack' = mStack
  BY <1>1, Zenon DEF TakesOne
<1>9. HeldLess(a)
  <2>1. mPending'[a] = Tail(q) /\ mDeferred'[a] = d
    BY <1>6 DEF Worked
  <2>2. ASSUME NEW e \in RPCs
        PROVE  Held(wire[a], Tail(q), d, e) = HeldBy(a, e)
    <3>1. Head(q) # e
      BY <2>2
    <3>2. /\ HeldBy(a, e) = Held(wire[a], Tail(q), d, e) + (IF Head(q) = e THEN 1 ELSE 0)
          /\ Held(wire[a], Tail(q), d, e) \in Nat
      BY <1>1, TakenIs
    <3> QED
      BY <3>1, <3>2
  <2>3. HeldLess(a)
    BY <1>8, <2>1, <2>2, HeldSame
  <2> QED
    BY <2>3
<1>10. mOutOfTurnReplies' = mOutOfTurnReplies
  BY <1>1, RepliesKept
<1> QED
  BY <1>6, <1>7, <1>8, <1>9, <1>10, WorkPassive

\* What the worker holds after it took a message.
LEMMA HeldAfter ==
    ASSUME Base, NEW a \in Sides, NEW q, NEW d, NEW g, Takable(a, q, d, g),
           mPending'[a] = Tail(q), mDeferred'[a] = d, wire' = wire
    PROVE  \A e \in RPCs : /\ HeldBy(a, e) = HeldBy(a, e)' + (IF Head(q) = e THEN 1 ELSE 0)
                           /\ HeldBy(a, e)' \in Nat
<1>1. \A e \in RPCs : HeldBy(a, e)' = Held(wire[a], Tail(q), d, e)
  BY DEF HeldBy
<1> QED
  BY <1>1, TakenIs

\* A call is deferred ...
LEMMA DeferStep ==
    ASSUME Base, NEW a \in Sides, NEW q, NEW d, NEW g, Takable(a, q, d, g), Head(q) \in Requests,
           NEW f, f \in Stacks, Plain(frames[a], f), f = <<>> => ~mSawRPCOutMsg[a],
           NEW t, TakesOne(a, q, mOutOfTurnReplies[a], Append(d, Head(q)), g + 1, f, t)
    PROVE  Base' /\ Effects(a)
<1> DEFINE m == Head(q)
           d2 == Append(d, m)
<1>1. /\ frames[a] \in Stacks /\ DeferredFit(a, frames[a], d, g)
      /\ d \in Seq(Message) /\ m \in Message /\ m \in Requests
  <2>1. frames[a] \in Stacks
    BY SideTyped DEF Base
  <2>2. DeferredFit(a, frames[a], d, g)
    BY Zenon DEF Takable
  <2>3. d \in Seq(Message) /\ m \in Message
    BY TakenIs
  <2> QED
    BY <2>1, <2>2, <2>3
<1>2. DeferredFit(a, f, d, g) /\ Stands(a, f)
  BY <1>1, PlainFits
<1>3. /\ d2 \in Seq(Message) /\ Len(d2) = Len(d) + 1 /\ d2[Len(d) + 1] = m /\ Len(d) \in Nat
      /\ \A i \in 1 .. Len(d) : d2[i] = d[i]
  BY <1>1, AppendIs
<1> HIDE DEF m
<1>4. /\ Base' /\ Elsewhere(Other(a)) /\ Bystanding(Other(a)) /\ Onward
      /\ Worked(a, Tail(q), mStack[a], mOutOfTurnReplies[a], d2, g + 1, mSawRPCOutMsg[a], f, t)
      /\ BelowKept(a) /\ TasksKept(a)
  <2>1. TakesOne(a, q, mOutOfTurnReplies[a], d2, g + 1, f, t)
    BY DEF m
  <2> HIDE DEF d2
  <2>2. DeferredFit(a, f, d2, g + 1)
    <3>1. Handled(f) \in Nat
      BY HandledIs
    <3>2. g \in Nat /\ g = Len(d) + Handled(f) /\ \A i \in 1 .. Len(d) : d[i] \in Requests
      BY <1>2 DEF DeferredFit
    <3>3. g + 1 = Len(d2) + Handled(f) /\ g + 1 \in Nat
      <4>1. Len(d2) = Len(d) + 1 /\ Len(d) \in Nat
        BY <1>3
      <4> DEFINE k == Len(d)
                 e == Handled(f)
      <4>2. k \in Nat /\ e \in Nat /\ g \in Nat /\ g = k + e /\ Len(d2) = k + 1
        BY <3>1, <3>2, <4>1
      <4> HIDE DEF k, e
      <4>3. g + 1 = Len(d2) + e /\ g + 1 \in Nat
        BY <4>2
      <4> QED
        BY <4>3 DEF e
    <3>4. \A i \in 1 .. Len(d2) : d2[i] \in Requests
      <4>1. ASSUME NEW i \in 1 .. Len(d2)
            PROVE  d2[i] \in Requests
        <5>1. i \in 1 .. Len(d) \/ i = Len(d) + 1
          BY <1>3
        <5> QED
          BY <1>1, <1>3, <3>2, <5>1
      <4> QED
        BY <4>1
    <3> QED
      BY <1>3, <3>3, <3>4 DEF DeferredFit
  <2> QED
    BY <1>2, <2>1, <2>2, TakeStep
<1>5. wire' = wire /\ mStack' = mStack
  BY Zenon DEF TakesOne
<1>6. RunningLess(a)
  <2>1. frames'[a] = f
    BY <1>4 DEF Worked
  <2> QED
    BY <2>1, SteadyRuns DEF Plain
<1>7. HeldLess(a)
  <2>1. mPending'[a] = Tail(q) /\ mDeferred'[a] = d2
    BY <1>4 DEF Worked
  <2>2. ASSUME NEW e \in RPCs
        PROVE  Held(wire[a], Tail(q), d2, e) = HeldBy(a, e)
    <3>1. /\ HeldBy(a, e) = Held(wire[a], Tail(q), d, e) + (IF m = e THEN 1 ELSE 0)
          /\ Held(wire[a], Tail(q), d, e) \in Nat
      BY TakenIs DEF m
    <3>2. wire[a] \in Seq(Message) /\ Tail(q) \in Seq(Message)
      BY TakenIs, SideTyped DEF Base
    <3>3. Held(wire[a], Tail(q), d2, e) = Held(wire[a], Tail(q), d, e) + (IF m = e THEN 1 ELSE 0)
      <4> DEFINE w == wire[a]
                 v == Tail(q)
      <4>1. d \in Seq(Message) /\ m \in Message /\ w \in Seq(Message) /\ v \in Seq(Message)
        BY <1>1, <3>2
      <4> HIDE DEF w, v
      <4>2. Held(w, v, Append(d, m), e) = Held(w, v, d, e) + (IF m = e THEN 1 ELSE 0)
        BY <4>1, HeldDefer
      <4> QED
        BY <4>2 DEF w, v
    <3> QED
      BY <3>1, <3>3
  <2>3. HeldLess(a)
    BY <1>5, <2>1, <2>2, HeldSame
  <2> QED
    BY <2>3
<1>8. mOutOfTurnReplies' = mOutOfTurnReplies
  BY RepliesKept
<1> QED
  BY <1>4, <1>5, <1>6, <1>7, <1>8, WorkPassive

\* ... or its handler is entered.
LEMMA HandleStep ==
    ASSUME Base, NEW a \in Sides, NEW q, NEW d, NEW g, Takable(a, q, d, g), Head(q) \in Requests,
           NEW stk, stk \in Stacks, Plain(frames[a], stk),
           NEW f, f = Append(stk, Frame("incall", Head(q).seqno)),
           NEW t, TakesOne(a, q, mOutOfTurnReplies[a], d, g + 1, f, t)
    PROVE  Base' /\ Effects(a)
<1> DEFINE m == Head(q)
           n == Head(q).seqno
           x == Frame("incall", n)
<1>1. /\ frames[a] \in Stacks /\ DeferredFit(a, frames[a], d, g)
      /\ d \in Seq(Message) /\ m \in Requests /\ m \in RPCs /\ n \in Int
  <2>1. frames[a] \in Stacks
    BY SideTyped DEF Base
  <2>2. DeferredFit(a, frames[a], d, g)
    BY Zenon DEF Takable
  <2>3. d \in Seq(Message) /\ m \in Message
    BY TakenIs
  <2> QED
    BY <2>1, <2>2, <2>3, MessagesAre
<1>2. f = Append(stk, x) /\ x \in FrameRec
  <2>1. "incall" \in FrameKinds
    BY DEF FrameKinds
  <2> QED
    BY <1>1, <2>1, FramesAre
<1> HIDE DEF m
<1>3. Entered(frames[a], f, n) /\ f \in Stacks /\ f # <<>>
  <2>1. Entered(stk, f, n) /\ f \in Stacks
    BY <1>1, PushIncall
  <2>2. f # <<>>
    <3>1. stk \in Seq(FrameRec)
      BY DEF Stacks
    <3> QED
      BY <1>2, <3>1, AppendIs
  <2> QED
    BY <1>1, <2>1, <2>2, PlainEntered
<1> HIDE DEF n
<1>4. Stands(a, f) /\ DeferredFit(a, f, d, g + 1)
  <2>1. Handled(frames[a]) \in Nat /\ Handled(f) = Handled(frames[a]) + 1
    BY <1>1, <1>3, HandledIs DEF Entered
  <2>2. g \in Nat /\ g = Len(d) + Handled(frames[a]) /\ Len(d) \in Nat
    BY <1>1, LenProperties DEF DeferredFit
  <2>3. g + 1 \in Nat /\ g + 1 = Len(d) + Handled(f)
    BY <2>1, <2>2
  <2>4. DeferredFit(a, f, d, g + 1)
    BY <1>1, <2>3 DEF DeferredFit
  <2> QED
    BY <1>3, <2>4 DEF Stands, Entered
<1>5. /\ Base' /\ Elsewhere(Other(a)) /\ Bystanding(Other(a)) /\ Onward
      /\ Worked(a, Tail(q), mStack[a], mOutOfTurnReplies[a], d, g + 1, mSawRPCOutMsg[a], f, t)
      /\ BelowKept(a) /\ TasksKept(a)
  BY <1>4, TakeStep
<1>6. wire' = wire /\ mStack' = mStack
  BY Zenon DEF TakesOne
<1>7. \A e \in RPCs : HeldBy(a, e) = HeldBy(a, e)' + (IF m = e THEN 1 ELSE 0) /\ HeldBy(a, e)' \in Nat
  BY <1>5, <1>6, HeldAfter DEF Worked, m
<1>9. HeldLess(a) /\ HeldBy(a, m)' + 1 <= HeldBy(a, m)
  <2>1. HeldLess(a)
    BY <1>7 DEF HeldLess
  <2>2. HeldBy(a, m) = HeldBy(a, m)' + 1 /\ HeldBy(a, m)' \in Nat
    BY <1>1, <1>7
  <2> QED
    BY <2>1, <2>2
<1>10. \A k \in Int : RunningOn(a, k)' <= RunningOn(a, k) + (IF k = m.seqno THEN 1 ELSE 0)
  <2>1. frames'[a] = f /\ n = m.seqno
    BY <1>5 DEF Worked, m, n
  <2>2. \A k \in Int : Running(frames[a], k) \in Nat
    BY <1>1, StackIs
  <2>3. \A k \in Int : Running(f, k) = Running(frames[a], k) + (IF k = n THEN 1 ELSE 0)
    BY <1>3 DEF Entered
  <2>4. \A k \in Int : RunningOn(a, k)' = Running(f, k) /\ RunningOn(a, k) = Running(frames[a], k)
    BY <2>1 DEF RunningOn
  <2>5. ASSUME NEW k \in Int
        PROVE  Running(f, k) <= Running(frames[a], k) + (IF k = n THEN 1 ELSE 0)
    <3> DEFINE x1 == Running(frames[a], k)
               x2 == Running(f, k)
    <3>1. x1 \in Nat /\ x2 = x1 + (IF k = n THEN 1 ELSE 0)
      BY <2>2, <2>3
    <3> HIDE DEF x1, x2
    <3>2. x2 <= x1 + (IF k = n THEN 1 ELSE 0)
      BY <3>1
    <3> QED
      BY <3>2 DEF x1, x2
  <2> QED
    BY <2>1, <2>4, <2>5
<1>11. mOutOfTurnReplies' = mOutOfTurnReplies
  BY RepliesKept
<1>12. Begins(a)
  <2>1. \A s \in Sides : HeldLess(s) /\ BelowKept(s)
    BY <1>5, <1>6, <1>9, SidesAre DEF Bystanding
  <2>2. RunningLess(Other(a))
    BY <1>5 DEF Bystanding
  <2> QED
    BY <1>1, <1>5, <1>6, <1>9, <1>10, <1>11, <2>1, <2>2, Zenon DEF Begins, CallsSame
<1>13. \A s \in Sides : TasksKept(s)
  BY <1>5, SidesAre DEF Bystanding
<1> QED
  BY <1>5, <1>12, <1>13 DEF Effects

\* The races that Incall records are pairs of seqnos.
LEMMA RacesTyped ==
    ASSUME Base, NEW a \in Sides, NEW m \in Message,
           \/ races' = races
           \/ /\ mStack[a] # <<>>
              /\ races' = [races EXCEPT ![a] =
                             @ \cup {Race(a, m)}]
    PROVE  races' \in [Sides -> SUBSET (Int \X Int)]
<1>1. races \in [Sides -> SUBSET (Int \X Int)] /\ mStack[a] \in Seq(Message)
  BY RestKept, SideTyped DEF Base
<1>2. CASE races' = races
  BY <1>1, <1>2
<1>3. CASE mStack[a] # <<>>
  <2> DEFINE c == Race(a, m)
  <2>1. Last(mStack[a]) \in Message
    BY <1>1, <1>3, FrontLast
  <2>2. m.seqno \in Int /\ Last(mStack[a]).seqno \in Int
    BY <2>1, MessagesAre
  <2>3. c \in Int \X Int
    BY <1>3, <2>2 DEF Race, TopSeqno
  <2>4. races' = races \/ races' = [races EXCEPT ![a] = races[a] \cup {c}]
    OBVIOUS
  <2> HIDE DEF c
  <2>5. races[a] \in SUBSET (Int \X Int)
    BY <1>1
  <2>6. races[a] \cup {c} \in SUBSET (Int \X Int)
    BY <2>3, <2>5
  <2> DEFINE v == races[a] \cup {c}
  <2> HIDE DEF v
  <2>7. races' = races \/ races' = [races EXCEPT ![a] = v]
    BY <2>4 DEF v
  <2> QED
    BY <1>1, <2>6, <2>7 DEF v
<1> QED
  BY <1>2, <1>3

\* Incall and the first half of DispatchIncall.
LEMMA IncallStep ==
    ASSUME Base, NEW a \in Sides, NEW q, NEW u, Takable(a, q, u.deferred, u.guess),
           Head(q) \in Requests,
           NEW stk, stk \in Stacks, Plain(frames[a], stk), stk = <<>> => ~mSawRPCOutMsg[a],
           NEW depth, Incall(a, Head(q), depth, stk, u),
           NEW t, t \in Nat, Replaced(tasks, tasks', a, t),
           mPending' = [mPending EXCEPT ![a] = Tail(q)], mOutOfTurnReplies' = mOutOfTurnReplies,
           UNCHANGED <<mStack, mSawRPCOutMsg, mNextSeqno, syncVars, connected, wire, budget>>,
           connected[a] /\ ~mSawRPCOutMsg[a] /\ TasksFine(a) /\ Innocent(a) =>
              /\ t >= Len(Tail(q)) + Len(u.deferred)
              /\ ~Raced(a, Head(q), depth)
    PROVE  Base' /\ Effects(a)
<1> DEFINE m == Head(q)
           r == mOutOfTurnReplies[a]
<1>1. m \in Message /\ r \in SUBSET Int
  BY TakenIs, SideTyped DEF Base
<1>2. races' \in [Sides -> SUBSET (Int \X Int)]
  <2>1. \/ races' = races
        \/ /\ mStack[a] # <<>>
           /\ races' = [races EXCEPT ![a] =
                          @ \cup {Race(a, m)}]
    BY DEF Incall
  <2> HIDE DEF m
  <2> QED
    BY <1>1, <2>1, RacesTyped
<1>3. CASE Raced(a, m, depth) /\ MediateRPCRace(Race(a, m)) = a
  <2>1. /\ mDeferred' = [mDeferred EXCEPT ![a] = Append(u.deferred, m)]
        /\ mRemoteStackDepthGuess' = [mRemoteStackDepthGuess EXCEPT ![a] = u.guess + 1]
        /\ frames' = [frames EXCEPT ![a] = stk]
    BY <1>3 DEF Incall, GuessInIncall
  <2>2. TakesOne(a, q, mOutOfTurnReplies[a], Append(u.deferred, Head(q)), u.guess + 1, stk, t)
    BY <1>1, <1>2, <1>3, <2>1 DEF TakesOne, Replaced
  <2> QED
    BY <1>3, <2>2, DeferStep
<1>4. CASE ~(Raced(a, m, depth) /\ MediateRPCRace(Race(a, m)) = a)
  <2> DEFINE f == Append(stk, Frame("incall", m.seqno))
  <2>1. /\ mDeferred' = [mDeferred EXCEPT ![a] = u.deferred]
        /\ mRemoteStackDepthGuess' = [mRemoteStackDepthGuess EXCEPT ![a] = u.guess + 1]
        /\ frames' = [frames EXCEPT ![a] = f]
    BY <1>4 DEF Incall, GuessInIncall
  <2> HIDE DEF f
  <2>2. TakesOne(a, q, mOutOfTurnReplies[a], u.deferred, u.guess + 1, f, t)
    BY <1>1, <1>2, <1>4, <2>1 DEF TakesOne, Replaced
  <2>3. f = Append(stk, Frame("incall", Head(q).seqno))
    BY DEF f
  <2> QED
    BY <2>2, <2>3, HandleStep
<1> QED
  BY <1>3, <1>4

\* A reply is put aside.
LEMMA AsideStep ==
    ASSUME Base, NEW a \in Sides, NEW q, NEW d, NEW g, Takable(a, q, d, g),
           Head(q) \in RPCs \ Requests,
           NEW f, f \in Stacks, Plain(frames[a], f), f = <<>> => ~mSawRPCOutMsg[a],
           NEW t, TakesOne(a, q, mOutOfTurnReplies[a] \cup {Head(q).seqno}, d, g, f, t)
    PROVE  Base' /\ Effects(a)
<1> DEFINE n == Head(q).seqno
           r == mOutOfTurnReplies[a] \cup {n}
<1>1. n \in Int /\ Head(q) = RPCReply(n) /\ RPCReply(n) \in RPCs
  BY MessagesAre
<1>2. DeferredFit(a, f, d, g) /\ Stands(a, f)
  BY PlainFits DEF Takable
<1> HIDE DEF n, r
<1>3. TakesOne(a, q, r, d, g, f, t)
  BY DEF r, n
<1>4. /\ Base' /\ Elsewhere(Other(a)) /\ Bystanding(Other(a)) /\ Onward
      /\ Worked(a, Tail(q), mStack[a], r, d, g, mSawRPCOutMsg[a], f, t)
      /\ BelowKept(a) /\ TasksKept(a)
  BY <1>2, <1>3, TakeStep
<1>5. wire' = wire /\ mStack' = mStack
  BY <1>3, Zenon DEF TakesOne
<1>6. RunningLess(a)
  <2>1. frames'[a] = f
    BY <1>4 DEF Worked
  <2> QED
    BY <2>1, SteadyRuns DEF Plain
<1>7. \A e \in RPCs : HeldBy(a, e) = HeldBy(a, e)' + (IF Head(q) = e THEN 1 ELSE 0)
                      /\ HeldBy(a, e)' \in Nat
  BY <1>4, <1>5, HeldAfter DEF Worked
<1>8. HeldLess(a) /\ HeldBy(a, RPCReply(n))' + 1 <= HeldBy(a, RPCReply(n))
  <2>1. HeldLess(a)
    BY <1>7 DEF HeldLess
  <2>2. HeldBy(a, RPCReply(n)) = HeldBy(a, RPCReply(n))' + 1 /\ HeldBy(a, RPCReply(n))' \in Nat
    BY <1>1, <1>7
  <2> QED
    BY <2>1, <2>2
<1>10. PutsAside(a)
  <2>1. \A s \in Sides : HeldLess(s) /\ RunningLess(s) /\ BelowKept(s)
    BY <1>4, <1>5, <1>6, <1>8, SidesAre DEF Bystanding
  <2>2. mOutOfTurnReplies'[Other(a)] = mOutOfTurnReplies[Other(a)]
    BY <1>4, <1>5 DEF Bystanding, Elsewhere
  <2>3. mOutOfTurnReplies'[a] = mOutOfTurnReplies[a] \cup {n}
    BY <1>4 DEF Worked, r
  <2> QED
    BY <1>1, <1>4, <1>5, <1>8, <2>1, <2>2, <2>3, Zenon DEF PutsAside, CallsSame
<1>11. \A s \in Sides : TasksKept(s)
  BY <1>4, SidesAre DEF Bystanding
<1> QED
  BY <1>4, <1>10, <1>11 DEF Effects

\* The reply at hand ends the Call.
LEMMA ReturnStep ==
    ASSUME Base, NEW a \in Sides, At(a) = "callwait", connected[a], mPending[a] # <<>>,
           mPending' = [mPending EXCEPT ![a] = Tail(@)],
           Head(mPending[a]) \in RPCs \ Requests, ~OutOfTurn(a, Head(mPending[a]).seqno),
           mStack' = [mStack EXCEPT ![a] = Front(@)], SetTop(a, Frame("unwind", 0)),
           UNCHANGED <<mOutOfTurnReplies, mDeferred, mRemoteStackDepthGuess, races>>,
           UNCHANGED <<mSawRPCOutMsg, mNextSeqno, syncVars, connected, tasks, wire, budget>>
    PROVE  Base' /\ Effects(a)
<1> DEFINE k == Last(mStack[a]).seqno
           st == Front(mStack[a])
           o == Other(a)
           q == mPending[a]
           d == mDeferred[a]
           g == mRemoteStackDepthGuess[a]
           r == mOutOfTurnReplies[a]
<1>1. TypeOK /\ SideSound(a) /\ o \in Sides /\ o # a
  BY SidesAre DEF Base
<1>2. /\ mPending[a] \in Seq(Message) /\ mDeferred[a] \in Seq(Message)
      /\ tasks[a] \in Nat /\ mOutOfTurnReplies[a] \in SUBSET Int
      /\ mSawRPCOutMsg[a] \in BOOLEAN /\ mRemoteStackDepthGuess[a] \in Nat
  BY <1>1, SideTyped
<1>3. PICK n \in Int : /\ n = Head(mPending[a]).seqno /\ Head(q) = RPCReply(n)
                       /\ RPCReply(n) \in RPCs
  BY MessagesAre
<1>4. mStack[a] # <<>> /\ st \in Seq(Message) /\ mSawRPCOutMsg[a]
  BY Waiting
<1>5. Takable(a, q, d, g)
  BY <1>1, <1>2 DEF Takable, DeferredFit, SideSound, Sound, HeldBy
<1>6. PICK h \in Stacks :
         /\ frames' = [frames EXCEPT ![a] = h]
         /\ Sound(a, h, st, connected[a], d, g, mSawRPCOutMsg[a])
         /\ Steady(frames[a], h)
         /\ \A c, i \in Int : i # k /\ Below(frames[a], c, i) => Below(h, c, i)
  BY ReturnIs
<1>7. mPending' = [mPending EXCEPT ![a] = Tail(q)] /\ mStack' = [mStack EXCEPT ![a] = st]
  OBVIOUS
<1>8. Tail(q) \in Seq(Message)
  BY <1>5, TakenIs
<1> DEFINE p == Tail(q)
<1> HIDE DEF st, o, k, p, q
<1>9. Work(a, p, st, r, d, g, mSawRPCOutMsg[a], h, tasks[a])
  BY <1>6, <1>7 DEF Work, Replaced, p
<1>10. WorkTyped(p, st, r, d, g, mSawRPCOutMsg[a], h, tasks[a])
  BY <1>2, <1>4, <1>8 DEF WorkTyped, p
<1>11. RestTyped
  BY <1>1, RestKept
<1>12. /\ Base' /\ Elsewhere(o) /\ Bystanding(o)
       /\ Worked(a, p, st, r, d, g, mSawRPCOutMsg[a], h, tasks[a])
  BY <1>6, <1>9, <1>10, <1>11, WorkStep DEF o
<1>13. mPending'[a] = Tail(q) /\ mDeferred'[a] = d /\ frames'[a] = h
  BY <1>12 DEF Worked, p
<1>14. \A e \in RPCs : HeldBy(a, e) = HeldBy(a, e)' + (IF Head(q) = e THEN 1 ELSE 0)
                       /\ HeldBy(a, e)' \in Nat
  BY <1>5, <1>13, HeldAfter
<1>15. HeldLess(a) /\ HeldBy(a, RPCReply(n))' + 1 <= HeldBy(a, RPCReply(n))
  <2>1. HeldLess(a)
    BY <1>14 DEF HeldLess
  <2>2. HeldBy(a, RPCReply(n)) = HeldBy(a, RPCReply(n))' + 1 /\ HeldBy(a, RPCReply(n))' \in Nat
    BY <1>3, <1>14
  <2> QED
    BY <2>1, <2>2
<1>17. RunningLess(a)
  BY <1>6, <1>13, SteadyRuns
<1>18. HeldLess(o) /\ RunningLess(o) /\ BelowKept(o)
  BY <1>12 DEF Bystanding
<1>19. \A s \in Sides : TasksKept(s)
  <2>1. TasksKept(a)
    BY <1>4, <1>12 DEF TasksKept, TasksFine, Worked
  <2>2. TasksKept(o)
    BY <1>12 DEF Bystanding
  <2> QED
    BY <2>1, <2>2, SidesAre DEF o
<1>20. Gets(a)
  <2>1. \A s \in Sides : HeldLess(s) /\ RunningLess(s)
    BY <1>15, <1>17, <1>18, SidesAre DEF o
  <2>2. /\ BelowKept(Other(a))
        /\ mStack'[Other(a)] = mStack[Other(a)]
        /\ mOutOfTurnReplies'[Other(a)] = mOutOfTurnReplies[Other(a)]
        /\ connected' = connected /\ mNextSeqno' = mNextSeqno
    BY <1>12, <1>18 DEF Elsewhere, o
  <2>3. mStack'[a] = Front(mStack[a]) /\ mOutOfTurnReplies'[a] = mOutOfTurnReplies[a]
    BY <1>12 DEF Worked, st
  <2>4. \A c, i \in Int : i # Last(mStack[a]).seqno /\ Below(frames[a], c, i)
                             => Below(frames'[a], c, i)
    BY <1>6, <1>13 DEF k
  <2>5. \E i \in Int : /\ mOutOfTurnReplies'[a] = mOutOfTurnReplies[a]
                       /\ ~OutOfTurn(a, i)
                       /\ HeldBy(a, RPCReply(i))' + 1 <= HeldBy(a, RPCReply(i))
    <3>1. ~OutOfTurn(a, n)
      BY <1>3
    <3>2. /\ mOutOfTurnReplies'[a] = mOutOfTurnReplies[a] /\ ~OutOfTurn(a, n)
          /\ HeldBy(a, RPCReply(n))' + 1 <= HeldBy(a, RPCReply(n))
      BY <1>15, <2>3, <3>1
    <3> QED
      BY <1>3, <3>2
  <2> QED
    BY <1>4, <2>1, <2>2, <2>3, <2>4, <2>5, Zenon DEF Gets
<1> QED
  BY <1>12, <1>19, <1>20 DEF Effects

\* CallTakesPending handles a message, defers a call, puts a reply aside or returns
\* with one: it begins, is passive, puts aside or gets.
LEMMA CallTakesPendingStep ==
    ASSUME Base, NEW a \in Sides, CallTakesPending(a)
    PROVE  Base' /\ Effects(a)
<1> DEFINE q == mPending[a]
           m == Head(q)
           x == Frame("calltop", Last(frames[a]).seqno)
           stk == Append(Front(frames[a]), x)
           u == [deferred |-> mDeferred[a], guess |-> mRemoteStackDepthGuess[a]]
<1>1. TypeOK /\ SideSound(a)
  BY DEF Base
<1>2. /\ mPending[a] \in Seq(Message) /\ mDeferred[a] \in Seq(Message)
      /\ tasks[a] \in Nat /\ mOutOfTurnReplies[a] \in SUBSET Int
      /\ mRemoteStackDepthGuess[a] \in Nat
  BY <1>1, SideTyped
<1>3. /\ At(a) = "callwait" /\ connected[a] /\ mPending[a] # <<>>
      /\ mPending' = [mPending EXCEPT ![a] = Tail(@)]
      /\ UNCHANGED <<mSawRPCOutMsg, mNextSeqno, syncVars, connected, tasks, wire, budget>>
  BY Zenon DEF CallTakesPending
<1>4. \/ /\ m.kind # "rpc" /\ OnDispatchMessage(a, m, stk, u)
         /\ UNCHANGED <<mStack, mOutOfTurnReplies>>
      \/ /\ m.kind = "rpc" /\ ~m.reply /\ Incall(a, m, StackDepth(a), stk, u)
         /\ UNCHANGED <<mStack, mOutOfTurnReplies>>
      \/ /\ m.kind = "rpc" /\ m.reply
         /\ mOutOfTurnReplies' = [mOutOfTurnReplies EXCEPT ![a] = @ \cup {m.seqno}]
         /\ frames' = [frames EXCEPT ![a] = stk]
         /\ UNCHANGED <<mStack, mDeferred, mRemoteStackDepthGuess, races>>
      \/ /\ m.kind = "rpc" /\ m.reply /\ ~OutOfTurn(a, m.seqno)
         /\ mStack' = [mStack EXCEPT ![a] = Front(@)] /\ SetTop(a, Frame("unwind", 0))
         /\ UNCHANGED <<mOutOfTurnReplies, mDeferred, mRemoteStackDepthGuess, races>>
  BY DEF CallTakesPending
<1>5. u.deferred = mDeferred[a] /\ u.guess = mRemoteStackDepthGuess[a]
  OBVIOUS
<1>6. Takable(a, q, u.deferred, u.guess)
  BY <1>1, <1>2, <1>3 DEF Takable, DeferredFit, SideSound, Sound, HeldBy
<1>7. m \in Message
  BY <1>6, TakenIs
<1>8. /\ m.kind # "rpc" => m \notin RPCs
      /\ m.kind = "rpc" /\ ~m.reply => m \in Requests
      /\ m.kind = "rpc" /\ m.reply => m \in RPCs \ Requests
  BY <1>7 DEF RPCs, Requests
<1>9. stk \in Stacks /\ Plain(frames[a], stk) /\ stk # <<>>
  <2>1. /\ frames[a] # <<>> /\ Last(frames[a]).at \in CallPlaces /\ frames[a] \in Stacks
        /\ Last(frames[a]).seqno \in Int
    BY <1>3, Waiting, AtIs
  <2>2. x \in FrameRec /\ x.at \in CallPlaces /\ x.seqno = Last(frames[a]).seqno
    <3>1. "calltop" \in FrameKinds /\ "calltop" \in CallPlaces
      BY DEF FrameKinds, CallPlaces
    <3> QED
      BY <2>1, <3>1, FramesAre
  <2> HIDE DEF x
  <2>3. stk # <<>>
    <3>1. Front(frames[a]) \in Seq(FrameRec)
      BY <2>1, FrontGrown DEF Stacks
    <3> QED
      BY <2>2, <3>1, AppendIs
  <2> QED
    BY <2>1, <2>2, <2>3, TopCall
<1>10. mSawRPCOutMsg[a]
  BY <1>3, Waiting
<1>11. tasks[a] \in Nat /\ Replaced(tasks, tasks', a, tasks[a])
  BY <1>2, <1>3 DEF Replaced
<1>12. mPending' = [mPending EXCEPT ![a] = Tail(q)]
  BY <1>3
<1> HIDE DEF q, x, stk, u
<1>13. CASE /\ m.kind # "rpc" /\ OnDispatchMessage(a, m, stk, u)
            /\ UNCHANGED <<mStack, mOutOfTurnReplies>>
  <2> DEFINE y == IF m.kind = "sync" THEN Frame("syncin", m.seqno) ELSE AsyncHandler
             f == Append(stk, y)
  <2>1. /\ frames' = [frames EXCEPT ![a] = f]
        /\ mDeferred' = [mDeferred EXCEPT ![a] = u.deferred]
        /\ mRemoteStackDepthGuess' = [mRemoteStackDepthGuess EXCEPT ![a] = u.guess]
        /\ UNCHANGED races
    BY <1>13 DEF OnDispatchMessage
  <2>2. races' \in [Sides -> SUBSET (Int \X Int)]
    BY <1>1, <2>1, RestKept
  <2> HIDE DEF y
  <2>3. f = Append(stk, IF Head(q).kind = "sync" THEN Frame("syncin", Head(q).seqno)
                                                 ELSE AsyncHandler)
    BY DEF y
  <2> HIDE DEF f
  <2>4. TakesOne(a, q, mOutOfTurnReplies[a], u.deferred, u.guess, f, tasks[a])
    BY <1>2, <1>3, <1>10, <1>11, <1>12, <1>13, <2>1, <2>2 DEF TakesOne, Replaced
  <2> QED
    BY <1>6, <1>8, <1>9, <1>13, <2>3, <2>4, DispatchStep
<1>14. CASE /\ m.kind = "rpc" /\ ~m.reply /\ Incall(a, m, StackDepth(a), stk, u)
            /\ UNCHANGED <<mStack, mOutOfTurnReplies>>
  <2>1. Head(q) \in Requests
    BY <1>8, <1>14
  <2> QED
    BY <1>3, <1>6, <1>9, <1>10, <1>11, <1>12, <1>14, <2>1, IncallStep
<1>15. CASE /\ m.kind = "rpc" /\ m.reply
            /\ mOutOfTurnReplies' = [mOutOfTurnReplies EXCEPT ![a] = @ \cup {m.seqno}]
            /\ frames' = [frames EXCEPT ![a] = stk]
            /\ UNCHANGED <<mStack, mDeferred, mRemoteStackDepthGuess, races>>
  <2> DEFINE r == mOutOfTurnReplies[a] \cup {Head(q).seqno}
  <2>1. Head(q) \in RPCs \ Requests
    BY <1>8, <1>15
  <2>2. r \in SUBSET Int
    BY <1>2, <1>7, MessagesAre
  <2>3. races' \in [Sides -> SUBSET (Int \X Int)]
    BY <1>1, <1>15, RestKept
  <2>4. mOutOfTurnReplies' = [mOutOfTurnReplies EXCEPT ![a] = r]
    BY <1>15
  <2> HIDE DEF r
  <2>5. TakesOne(a, q, r, u.deferred, u.guess, stk, tasks[a])
    BY <1>2, <1>3, <1>5, <1>10, <1>11, <1>12, <1>15, <2>2, <2>3, <2>4 DEF TakesOne, Replaced
  <2>6. TakesOne(a, q, mOutOfTurnReplies[a] \cup {Head(q).seqno}, u.deferred, u.guess, stk,
                 tasks[a])
    BY <2>5 DEF r
  <2> QED
    BY <1>6, <1>9, <2>1, <2>6, AsideStep
<1>16. CASE /\ m.kind = "rpc" /\ m.reply /\ ~OutOfTurn(a, m.seqno)
            /\ mStack' = [mStack EXCEPT ![a] = Front(@)] /\ SetTop(a, Frame("unwind", 0))
            /\ UNCHANGED <<mOutOfTurnReplies, mDeferred, mRemoteStackDepthGuess, races>>
  <2>1. Head(mPending[a]) \in RPCs \ Requests /\ ~OutOfTurn(a, Head(mPending[a]).seqno)
    BY <1>8, <1>16 DEF q
  <2> QED
    BY <1>3, <1>16, <2>1, ReturnStep
<1> QED
  BY <1>4, <1>13, <1>14, <1>15, <1>16

\* The second half of DispatchIncall.
LEMMA IncallDoneStep ==
    ASSUME Base, NEW a \in Sides, IncallDone(a)
    PROVE  Base' /\ Effects(a)
<1> DEFINE x == Frame("unwind", 0)
           h == Append(Front(frames[a]), x)
           o == Other(a)
           d == mDeferred[a]
           g == mRemoteStackDepthGuess[a] - 1
<1>1. TypeOK /\ SideSound(a) /\ o \in Sides /\ o # a
  BY SidesAre DEF Base
<1>2. /\ mPending[a] \in Seq(Message) /\ mDeferred[a] \in Seq(Message)
      /\ tasks[a] \in Nat /\ mStack[a] \in Seq(Message) /\ mOutOfTurnReplies[a] \in SUBSET Int
      /\ mSawRPCOutMsg[a] \in BOOLEAN /\ frames[a] \in Stacks
      /\ mRemoteStackDepthGuess[a] \in Nat
      /\ mPending[o] \in Seq(Message) /\ wire[o] \in Seq(Message) /\ mDeferred[o] \in Seq(Message)
  BY <1>1, SideTyped
<1>3. /\ At(a) = "incall"
      /\ mRemoteStackDepthGuess' = [mRemoteStackDepthGuess EXCEPT ![a] = g]
      /\ SendReply(a, RPCReply(Last(frames[a]).seqno)) /\ SetTop(a, x)
      /\ UNCHANGED <<mPending, mOutOfTurnReplies, mDeferred, tasks, races, mStack,
                     mSawRPCOutMsg, mNextSeqno, syncVars, connected, budget>>
  BY DEF IncallDone, GuessAfterIncall
<1>4. frames[a] # <<>> /\ Last(frames[a]).at = "incall"
  BY <1>3, AtIs
<1>5. PICK n \in Int : n = Last(frames[a]).seqno
  BY <1>3, AtIs
<1>6. frames' = [frames EXCEPT ![a] = h]
  BY <1>3 DEF SetTop
<1>7. \/ connected[a] /\ wire' = [wire EXCEPT ![o] = Append(@, RPCReply(n))]
      \/ ~connected[a] /\ wire' = wire
  BY <1>3, <1>5 DEF SendReply, SendMessage
<1>8. RPCReply(n) \in Message /\ RPCReply(n) \in RPCs
  BY MessagesAre
<1>9. Left(frames[a], h, n) /\ h \in Stacks /\ h # <<>>
  <2>1. x \in FrameRec /\ Minor(x) /\ x.at # "nest"
    BY FramesAre
  <2> HIDE DEF x
  <2>2. Left(frames[a], h, n) /\ h \in Stacks
    BY <1>2, <1>4, <1>5, <2>1, TopIncall
  <2>3. h # <<>>
    <3>1. Front(frames[a]) \in Seq(FrameRec)
      BY <1>2, <1>4, FrontGrown DEF Stacks
    <3> QED
      BY <2>1, <3>1, AppendIs
  <2> QED
    BY <2>2, <2>3
<1> HIDE DEF h, x, o
<1>10. Handled(h) \in Nat /\ Len(d) \in Nat /\ g = Len(d) + Handled(h) /\ g \in Nat
  <2>1. Handled(h) \in Nat /\ Len(d) \in Nat
    BY <1>2, <1>9, HandledIs, LenProperties
  <2>2. mRemoteStackDepthGuess[a] = Len(d) + Handled(frames[a])
    BY <1>1 DEF SideSound, Sound
  <2>3. Handled(frames[a]) = Handled(h) + 1
    BY <1>9 DEF Left
  <2> HIDE DEF d
  <2> QED
    BY <1>2, <2>1, <2>2, <2>3
<1>11. Sound(a, h, mStack[a], connected[a], d, g, mSawRPCOutMsg[a])
  <2>1. connected[a] => Matched(h, mStack[a])
    BY <1>1, <1>2, <1>9 DEF SideSound, Sound, Left, KeepsMatched
  <2> HIDE DEF g
  <2> QED
    BY <1>1, <1>9, <1>10, <2>1 DEF SideSound, Sound, Left
<1> HIDE DEF g
<1>12. Work(a, mPending[a], mStack[a], mOutOfTurnReplies[a], d, g, mSawRPCOutMsg[a], h, tasks[a])
  BY <1>3, <1>6 DEF Work, Replaced
<1>13. WorkTyped(mPending[a], mStack[a], mOutOfTurnReplies[a], d, g, mSawRPCOutMsg[a], h, tasks[a])
  BY <1>2, <1>9, <1>10 DEF WorkTyped
<1>14. RestTyped
  <2>1. wire' \in [Sides -> Seq(Message)]
    <3> DEFINE v == Append(wire[o], RPCReply(n))
    <3>1. wire \in [Sides -> Seq(Message)] /\ v \in Seq(Message)
      BY <1>1, <1>2, <1>8, RestKept, AppendIs
    <3>2. wire' = [wire EXCEPT ![o] = v] \/ wire' = wire
      BY <1>7
    <3> HIDE DEF v
    <3> QED
      BY <1>1, <3>1, <3>2
  <2> QED
    BY <1>1, <1>3, <2>1, RestKept DEF RestTyped, syncVars
<1>15. /\ Base' /\ Elsewhere(o) /\ Bystanding(o)
       /\ Worked(a, mPending[a], mStack[a], mOutOfTurnReplies[a], d, g, mSawRPCOutMsg[a], h,
                 tasks[a])
  BY <1>11, <1>12, <1>13, <1>14, WorkStep DEF o
<1>16. wire'[a] = wire[a]
  BY <1>1, <1>7, RestKept
<1>17. HeldLess(a)
  <2>1. mPending'[a] = mPending[a] /\ mDeferred'[a] = mDeferred[a]
    BY <1>15 DEF Worked
  <2>2. \A e \in RPCs : Held(wire[a], mPending'[a], mDeferred'[a], e) = HeldBy(a, e)
    BY <2>1 DEF HeldBy
  <2> QED
    BY <1>16, <2>1, <2>2, HeldSame
<1>18. frames'[a] = h /\ connected' = connected
  BY <1>3, <1>15 DEF Worked
<1>19. \A k \in Int : /\ RunningOn(a, k) = RunningOn(a, k)' + (IF k = n THEN 1 ELSE 0)
                      /\ RunningOn(a, k)' \in Nat
  <2>1. \A k \in Int : RunningOn(a, k)' = Running(h, k) /\ RunningOn(a, k) = Running(frames[a], k)
    BY <1>18 DEF RunningOn
  <2>2. \A k \in Int : Running(h, k) \in Nat
    BY <1>9, StackIs
  <2>3. \A k \in Int : Running(frames[a], k) = Running(h, k) + (IF k = n THEN 1 ELSE 0)
    BY <1>9 DEF Left
  <2> QED
    BY <2>1, <2>2, <2>3
<1>20. RunningLess(a) /\ BelowKept(a)
  <2>1. RunningLess(a)
    BY <1>19 DEF RunningLess
  <2>2. BelowKept(a)
    BY <1>9, <1>18 DEF BelowKept, Left
  <2> QED
    BY <2>1, <2>2
<1>21. TasksKept(a)
  BY <1>3, <1>15 DEF TasksKept, TasksFine, Worked
<1>22. Onward /\ mStack' = mStack /\ mOutOfTurnReplies' = mOutOfTurnReplies
  BY <1>1, <1>3, RestKept
<1>23. CASE ~connected[a]
  <2>1. wire'[o] = wire[o]
    BY <1>7, <1>23
  <2> QED
    BY <1>15, <1>17, <1>20, <1>21, <1>22, <2>1, WorkPassive DEF o
<1>24. CASE connected[a]
  <2>1. wire'[o] = Append(wire[o], RPCReply(n))
    BY <1>1, <1>7, <1>24, RestKept
  <2>2. mPending'[o] = mPending[o] /\ mDeferred'[o] = mDeferred[o]
    BY <1>15 DEF Elsewhere
  <2>3. \A e \in RPCs : HeldBy(o, e)' = HeldBy(o, e) + (IF e = RPCReply(n) THEN 1 ELSE 0)
    <3>1. ASSUME NEW e \in RPCs
          PROVE  Held(Append(wire[o], RPCReply(n)), mPending[o], mDeferred[o], e)
                   = HeldBy(o, e) + (IF e = RPCReply(n) THEN 1 ELSE 0)
      <4>1. Held(Append(wire[o], RPCReply(n)), mPending[o], mDeferred[o], e)
              = HeldBy(o, e) + (IF RPCReply(n) = e THEN 1 ELSE 0)
        BY <1>2, <1>8, HeldSend DEF HeldBy
      <4> QED
        BY <4>1
    <3> QED
      BY <2>1, <2>2, <3>1 DEF HeldBy
  <2>4. \E k \in Int :
           /\ \A i \in Int : RunningOn(a, i) = RunningOn(a, i)' + (IF i = k THEN 1 ELSE 0)
           /\ \A e \in RPCs : HeldBy(Other(a), e)' =
                 HeldBy(Other(a), e) + (IF e = RPCReply(k) THEN 1 ELSE 0)
           /\ mPending'[Other(a)] = mPending[Other(a)]
           /\ wire'[Other(a)] = Append(wire[Other(a)], RPCReply(k))
    <3>1. /\ \A i \in Int : RunningOn(a, i) = RunningOn(a, i)' + (IF i = n THEN 1 ELSE 0)
          /\ \A e \in RPCs : HeldBy(Other(a), e)' =
                HeldBy(Other(a), e) + (IF e = RPCReply(n) THEN 1 ELSE 0)
          /\ mPending'[Other(a)] = mPending[Other(a)]
          /\ wire'[Other(a)] = Append(wire[Other(a)], RPCReply(n))
      BY <1>19, <2>1, <2>2, <2>3 DEF o
    <3> QED
      BY <3>1
  <2>5. \A s \in Sides : BelowKept(s)
    BY <1>15, <1>20, SidesAre DEF Bystanding, o
  <2>6. RunningLess(Other(a))
    BY <1>15 DEF Bystanding, o
  <2>7. Replies(a)
    BY <1>17, <1>18, <1>22, <1>24, <2>4, <2>5, <2>6, Zenon DEF Replies, CallsSame
  <2>8. \A s \in Sides : TasksKept(s)
    BY <1>15, <1>21, SidesAre DEF Bystanding, o
  <2> QED
    BY <1>15, <2>7, <2>8 DEF Effects
<1> QED
  BY <1>7, <1>23, <1>24

\* A worker with nothing to keep it from it puts back a deferred call and takes
\* up every call at once.
LEMMA NothingRaces ==
    ASSUME Base, NEW a \in Sides, connected[a], ~mSawRPCOutMsg[a], Innocent(a)
    PROVE  /\ mDeferred[a] # <<>> => MustUndefer(a)
           /\ \A m \in Requests : HeldBy(a, m) > 0 => ~Raced(a, m, 0)
<1>1. TypeOK /\ SideSound(a)
  BY DEF Base
<1>2. /\ mPending[a] \in Seq(Message) /\ mDeferred[a] \in Seq(Message)
      /\ wire[a] \in Seq(Message) /\ mStack[a] \in Seq(Message)
  BY <1>1, SideTyped
<1>3. mOutOfTurnReplies[a] = {} /\ \A e \in Requests : HeldBy(a, e) > 0 => e.guess = 0
  BY DEF Innocent
<1>4. StackDepth(a) = 0
  BY <1>1, EmptySeq DEF SideSound, Sound, StackDepth
<1>5. RemoteViewOfStackDepth(a, 0) = 0
  <2>1. Cardinality(mOutOfTurnReplies[a]) = 0
    BY <1>3, FS_EmptySet
  <2>2. RemoteViewOfStackDepth(a, 0) = (0 - 0) % 65536
    BY <2>1 DEF RemoteViewOfStackDepth, SizeT
  <2>3. (0 - 0) % 65536 = 0
    OBVIOUS
  <2> QED
    BY <2>2, <2>3
<1>6. ASSUME mDeferred[a] # <<>>
      PROVE  MustUndefer(a)
  <2> DEFINE n == Len(mDeferred[a])
             e == Last(mDeferred[a])
  <2>1. n \in Nat \ {0} /\ mDeferred[a][n] = e
    BY <1>2, <1>6, FrontLast
  <2>2. e \in Requests
    BY <1>1, <2>1 DEF SideSound, Sound
  <2>3. HeldBy(a, e) > 0
    <3>1. /\ Occurrences(e, wire[a]) \in Nat /\ Occurrences(e, mPending[a]) \in Nat
          /\ Occurrences(e, mDeferred[a]) \in Nat
      BY <1>2, HeldType
    <3>2. /\ Occurrences(e, mDeferred[a]) = Occurrences(e, Front(mDeferred[a])) + 1
          /\ Occurrences(e, Front(mDeferred[a])) \in Nat
      BY <1>2, <1>6, OccurrencesFront, FrontLast, OccurrencesType
    <3> HIDE DEF e
    <3> QED
      BY <3>1, <3>2 DEF HeldBy, Held
  <2>4. Last(mDeferred[a]).guess = 0
    BY <1>3, <2>2, <2>3
  <2> QED
    BY <1>4, <1>5, <1>6, <2>4 DEF MustUndefer
<1>7. ASSUME NEW m \in Requests, HeldBy(a, m) > 0
      PROVE  ~Raced(a, m, 0)
  BY <1>3, <1>5, <1>7 DEF Raced
<1> QED
  BY <1>6, <1>7

\* OnMaybeDequeueOne undefers and handles at most one message: it begins, or is
\* passive.
LEMMA OnMaybeDequeueOneStep ==
    ASSUME Base, NEW a \in Sides, OnMaybeDequeueOne(a)
    PROVE  Base' /\ Effects(a)
<1> DEFINE u == Undeferred(a)
           q == u.pending
           m == Head(q)
           d == u.deferred
           g == u.guess
           t == tasks[a] - 1
           f == frames[a]
           r == mOutOfTurnReplies[a]
           o == Other(a)
<1>1. TypeOK /\ SideSound(a)
  BY DEF Base
<1>2. /\ mPending[a] \in Seq(Message) /\ mDeferred[a] \in Seq(Message)
      /\ tasks[a] \in Nat /\ r \in SUBSET Int /\ frames[a] \in Stacks
      /\ mRemoteStackDepthGuess[a] \in Nat /\ mStack[a] \in Seq(Message)
      /\ mSawRPCOutMsg[a] \in BOOLEAN
  BY <1>1, SideTyped
<1>3. /\ At(a) \in {"loop", "nest"} /\ tasks[a] > 0 /\ tasks' = [tasks EXCEPT ![a] = t]
      /\ UNCHANGED <<mStack, mSawRPCOutMsg, mNextSeqno, syncVars, connected, wire, budget>>
  BY Zenon DEF OnMaybeDequeueOne
<1>4. \/ /\ \/ ~connected[a]
            \/ connected[a] /\ q = <<>>
         /\ UNCHANGED <<mPending, mOutOfTurnReplies, mDeferred, mRemoteStackDepthGuess, frames, races>>
      \/ /\ connected[a] /\ q # <<>> /\ mPending' = [mPending EXCEPT ![a] = Tail(q)]
         /\ m.kind # "rpc" /\ OnDispatchMessage(a, m, f, u) /\ UNCHANGED mOutOfTurnReplies
      \/ /\ connected[a] /\ q # <<>> /\ mPending' = [mPending EXCEPT ![a] = Tail(q)]
         /\ m.kind = "rpc" /\ ~m.reply /\ Incall(a, m, 0, f, u) /\ UNCHANGED mOutOfTurnReplies
      \/ /\ connected[a] /\ q # <<>> /\ mPending' = [mPending EXCEPT ![a] = Tail(q)]
         /\ m.kind = "rpc" /\ m.reply
         /\ mOutOfTurnReplies' = [mOutOfTurnReplies EXCEPT ![a] = @ \cup {m.seqno}]
         /\ mDeferred' = [mDeferred EXCEPT ![a] = d]
         /\ mRemoteStackDepthGuess' = [mRemoteStackDepthGuess EXCEPT ![a] = g]
         /\ UNCHANGED <<frames, races>>
  BY DEF OnMaybeDequeueOne
<1>5. /\ q \in Seq(Message) /\ DeferredFit(a, f, d, g)
      /\ Len(q) + Len(d) = Len(mPending[a]) + Len(mDeferred[a])
      /\ \A e \in RPCs : Held(wire[a], q, d, e) = HeldBy(a, e)
  BY UndeferIs
<1>6. t \in Nat
  BY <1>2, <1>3
<1>7. Plain(f, f) /\ f \in Stacks /\ (f = <<>> => ~mSawRPCOutMsg[a])
  BY <1>1, <1>2, PlainItself DEF SideSound, Sound
<1>8. Replaced(tasks, tasks', a, t)
  BY <1>3 DEF Replaced
<1> HIDE DEF q, d, g, t, o
<1>9. ASSUME q # <<>>
      PROVE  /\ Takable(a, q, d, g) /\ m \in Message
             /\ connected[a] /\ ~mSawRPCOutMsg[a] /\ TasksFine(a) => t >= Len(Tail(q)) + Len(d)
             /\ m.kind # "rpc" => m \notin RPCs
             /\ m.kind = "rpc" /\ ~m.reply => m \in Requests
             /\ m.kind = "rpc" /\ m.reply => m \in RPCs \ Requests
  <2>1. Takable(a, q, d, g)
    BY <1>5, <1>9, Zenon DEF Takable
  <2>2. m \in Message /\ Len(Tail(q)) = Len(q) - 1 /\ Len(q) \in Nat /\ Len(d) \in Nat
    BY <2>1, TakenIs, LenProperties
  <2>3. ASSUME connected[a], ~mSawRPCOutMsg[a], TasksFine(a)
        PROVE  t >= Len(Tail(q)) + Len(d)
    <3>1. tasks[a] >= Len(mPending[a]) + Len(mDeferred[a])
      BY <2>3 DEF TasksFine
    <3>2. tasks[a] >= Len(q) + Len(d)
      BY <1>5, <3>1
    <3> DEFINE i == Len(Tail(q))
               j == Len(q)
               k == Len(d)
    <3>3. i = j - 1 /\ j \in Nat /\ k \in Nat /\ tasks[a] >= j + k
      BY <2>2, <3>2
    <3> HIDE DEF i, j, k
    <3>4. tasks[a] - 1 >= i + k
      BY <1>2, <3>3
    <3> QED
      BY <3>4 DEF i, k, t
  <2>4. /\ m.kind # "rpc" => m \notin RPCs
        /\ m.kind = "rpc" /\ ~m.reply => m \in Requests
        /\ m.kind = "rpc" /\ m.reply => m \in RPCs \ Requests
    BY <2>2 DEF RPCs, Requests
  <2> QED
    BY <2>1, <2>2, <2>3, <2>4
<1>10. CASE /\ \/ ~connected[a]
               \/ connected[a] /\ q = <<>>
            /\ UNCHANGED <<mPending, mOutOfTurnReplies, mDeferred, mRemoteStackDepthGuess,
                           frames, races>>
  <2> DEFINE d0 == mDeferred[a]
             g0 == mRemoteStackDepthGuess[a]
  <2>1. Work(a, mPending[a], mStack[a], r, d0, g0, mSawRPCOutMsg[a], f, t)
    BY <1>3, <1>8, <1>10 DEF Work, Replaced
  <2>2. WorkTyped(mPending[a], mStack[a], r, d0, g0, mSawRPCOutMsg[a], f, t)
    BY <1>2, <1>6 DEF WorkTyped
  <2>3. RestTyped /\ Onward
    BY <1>1, <1>3, <1>10, RestKept
  <2>4. Sound(a, f, mStack[a], connected[a], d0, g0, mSawRPCOutMsg[a])
    BY <1>1 DEF SideSound
  <2>5. /\ Base' /\ Elsewhere(Other(a)) /\ Bystanding(Other(a))
        /\ Worked(a, mPending[a], mStack[a], r, d0, g0, mSawRPCOutMsg[a], f, t)
    BY <2>1, <2>2, <2>3, <2>4, WorkStep
  <2>6. /\ wire' = wire /\ mPending'[a] = mPending[a] /\ mDeferred'[a] = mDeferred[a]
        /\ frames'[a] = f /\ connected' = connected /\ mStack' = mStack
        /\ mOutOfTurnReplies' = mOutOfTurnReplies
    BY <1>3, <1>10
  <2>7. HeldLess(a)
    <3>1. \A e \in RPCs : Held(wire[a], mPending'[a], mDeferred'[a], e) = HeldBy(a, e)
      BY <2>6 DEF HeldBy
    <3> QED
      BY <2>6, <3>1, HeldSame
  <2>8. RunningLess(a) /\ BelowKept(a)
    BY <1>7, <2>6, PlainRuns
  <2>9. TasksKept(a)
    <3>1. ASSUME Innocent(a), TasksFine(a), connected[a], ~mSawRPCOutMsg[a]
          PROVE  t >= Len(mPending[a]) + Len(mDeferred[a])
      <4>1. q = <<>> /\ d = mDeferred[a] /\ q = mPending[a]
        <5>1. q = <<>>
          BY <1>10, <3>1
        <5>2. ~MustUndefer(a)
          <6>1. ASSUME MustUndefer(a)
                PROVE  FALSE
            <7>1. q = Append(mPending[a], Last(mDeferred[a])) /\ mDeferred[a] # <<>>
              BY <6>1 DEF q, Undeferred, MustUndefer
            <7>2. Last(mDeferred[a]) \in Message
              BY <1>2, <7>1, FrontLast
            <7>3. q # <<>>
              BY <1>2, <7>1, <7>2, AppendIs
            <7> QED
              BY <5>1, <7>3
          <6> QED
            BY <6>1
        <5> QED
          BY <5>1, <5>2 DEF q, d, Undeferred
      <4>2. mDeferred[a] = <<>>
        <5>1. ~MustUndefer(a)
          <6>1. ASSUME MustUndefer(a)
                PROVE  FALSE
            <7>1. mPending[a] = Append(mPending[a], Last(mDeferred[a])) /\ mDeferred[a] # <<>>
              BY <4>1, <6>1 DEF q, Undeferred, MustUndefer
            <7>2. Last(mDeferred[a]) \in Message
              BY <1>2, <7>1, FrontLast
            <7>3. Append(mPending[a], Last(mDeferred[a])) # <<>>
              BY <1>2, <7>2, AppendIs
            <7> QED
              BY <4>1, <7>1, <7>3
          <6> QED
            BY <6>1
        <5> QED
          BY <3>1, <5>1, NothingRaces
      <4>3. Len(mPending[a]) = 0 /\ Len(mDeferred[a]) = 0
        BY <4>1, <4>2
      <4> QED
        BY <1>6, <4>3
    <3>2. /\ mPending'[a] = mPending[a] /\ mDeferred'[a] = mDeferred[a] /\ tasks'[a] = t
          /\ connected'[a] = connected[a] /\ mSawRPCOutMsg'[a] = mSawRPCOutMsg[a]
      BY <2>5 DEF Worked
    <3>3. TasksFine(a)' <=> (connected'[a] /\ ~mSawRPCOutMsg'[a]
                               => tasks'[a] >= Len(mPending'[a]) + Len(mDeferred'[a]))
      BY DEF TasksFine
    <3> QED
      BY <3>1, <3>2, <3>3 DEF TasksKept
  <2> QED
    BY <2>3, <2>5, <2>6, <2>7, <2>8, <2>9, WorkPassive
<1>11. CASE /\ connected[a] /\ q # <<>> /\ mPending' = [mPending EXCEPT ![a] = Tail(q)]
            /\ m.kind # "rpc" /\ OnDispatchMessage(a, m, f, u) /\ UNCHANGED mOutOfTurnReplies
  <2> DEFINE y == IF m.kind = "sync" THEN Frame("syncin", m.seqno) ELSE AsyncHandler
             h == Append(f, y)
  <2>1. /\ frames' = [frames EXCEPT ![a] = h]
        /\ mDeferred' = [mDeferred EXCEPT ![a] = d]
        /\ mRemoteStackDepthGuess' = [mRemoteStackDepthGuess EXCEPT ![a] = g]
        /\ UNCHANGED races
    BY <1>11 DEF OnDispatchMessage, d, g
  <2>2. races' \in [Sides -> SUBSET (Int \X Int)]
    BY <1>1, <2>1, RestKept
  <2> HIDE DEF y
  <2>3. h = Append(f, IF Head(q).kind = "sync" THEN Frame("syncin", Head(q).seqno)
                                               ELSE AsyncHandler)
    BY DEF y
  <2> HIDE DEF h
  <2>4. TakesOne(a, q, mOutOfTurnReplies[a], d, g, h, t)
    BY <1>2, <1>3, <1>6, <1>8, <1>9, <1>11, <2>1, <2>2 DEF TakesOne, Replaced
  <2>5. Head(q) \notin RPCs /\ Takable(a, q, d, g)
    BY <1>9, <1>11
  <2> QED
    BY <1>7, <2>3, <2>4, <2>5, DispatchStep DEF d, g
<1>12. CASE /\ connected[a] /\ q # <<>> /\ mPending' = [mPending EXCEPT ![a] = Tail(q)]
            /\ m.kind = "rpc" /\ ~m.reply /\ Incall(a, m, 0, f, u) /\ UNCHANGED mOutOfTurnReplies
  <2>1. Head(q) \in Requests /\ Takable(a, q, d, g)
    BY <1>9, <1>12
  <2>2. ASSUME connected[a], ~mSawRPCOutMsg[a], TasksFine(a), Innocent(a)
        PROVE  t >= Len(Tail(q)) + Len(d) /\ ~Raced(a, Head(q), 0)
    <3>1. t >= Len(Tail(q)) + Len(d)
      BY <1>9, <1>12, <2>2
    <3>2. ~Raced(a, Head(q), 0)
      <4>1. Head(q) \in RPCs
        BY <2>1, MessagesAre
      <4>2. HeldBy(a, Head(q)) = Held(wire[a], Tail(q), d, Head(q)) + 1
            /\ Held(wire[a], Tail(q), d, Head(q)) \in Nat
        BY <2>1, <4>1, TakenIs
      <4>3. HeldBy(a, Head(q)) > 0
        BY <4>2
      <4> QED
        BY <2>1, <2>2, <4>3, NothingRaces
    <3> QED
      BY <3>1, <3>2
  <2> QED
    BY <1>3, <1>6, <1>7, <1>8, <1>12, <2>1, <2>2, IncallStep DEF d, g
<1>13. CASE /\ connected[a] /\ q # <<>> /\ mPending' = [mPending EXCEPT ![a] = Tail(q)]
            /\ m.kind = "rpc" /\ m.reply
            /\ mOutOfTurnReplies' = [mOutOfTurnReplies EXCEPT ![a] = @ \cup {m.seqno}]
            /\ mDeferred' = [mDeferred EXCEPT ![a] = d]
            /\ mRemoteStackDepthGuess' = [mRemoteStackDepthGuess EXCEPT ![a] = g]
            /\ UNCHANGED <<frames, races>>
  <2> DEFINE r2 == mOutOfTurnReplies[a] \cup {Head(q).seqno}
  <2>1. Head(q) \in RPCs \ Requests /\ Takable(a, q, d, g)
    BY <1>9, <1>13
  <2>2. r2 \in SUBSET Int
    BY <1>2, <1>9, <1>13, MessagesAre
  <2>3. races' \in [Sides -> SUBSET (Int \X Int)]
    BY <1>1, <1>13, RestKept
  <2>4. mOutOfTurnReplies' = [mOutOfTurnReplies EXCEPT ![a] = r2]
    BY <1>13
  <2> HIDE DEF r2
  <2>5. TakesOne(a, q, r2, d, g, f, t)
    BY <1>3, <1>6, <1>8, <1>9, <1>13, <2>2, <2>3, <2>4 DEF TakesOne, Replaced
  <2>6. TakesOne(a, q, mOutOfTurnReplies[a] \cup {Head(q).seqno}, d, g, f, t)
    BY <2>5 DEF r2
  <2> QED
    BY <1>7, <2>1, <2>6, AsideStep
<1> QED
  BY <1>4, <1>10, <1>11, <1>12, <1>13

-----------------------------------------------------------------------------
(***************************************************************************)
(* Every step of the channel is one of the six kinds.                      *)
(***************************************************************************)

\* Every step leaves the state sound and is of one of the six kinds.
LEMMA StepEffects ==
    ASSUME Base, Next
    PROVE  Base' /\ \E a \in Sides : Effects(a)
<1>1. PICK a \in Sides :
         \/ AppStep(a) \/ WorkerStep(a) \/ HandlerStep(a) \/ LinkStep(a)
         \/ ReplyTimesOut(a) \/ TimeoutStep(a) \/ OnChannelErrorFromLink(a)
  BY Zenon DEF Next
<1>2. CASE AppStep(a)
  BY <1>2, CallStep, SendAsyncStep, SendSyncStep, SpinNestedLoopStep DEF AppStep
<1>3. CASE WorkerStep(a)
  BY <1>3, CallLoopStep, CallFailsStep, CallTakesOutOfTurnStep, CallTakesPendingStep,
     OnMaybeDequeueOneStep, SyncReturnsStep, UnwindStep DEF WorkerStep
<1>4. CASE HandlerStep(a)
  BY <1>4, IncallDoneStep, SyncDoneStep, LeaveNestedLoopStep DEF HandlerStep
<1>5. CASE LinkStep(a)
  BY <1>5, OnMessageReceivedFromLinkStep DEF LinkStep
<1>6. CASE ReplyTimesOut(a)
  BY <1>6, ReplyTimesOutStep
<1>7. CASE TimeoutStep(a)
  BY <1>7, ContinueFromTimeoutStep, GiveUpStep DEF TimeoutStep
<1>8. CASE OnChannelErrorFromLink(a)
  BY <1>8, OnChannelErrorFromLinkStep
<1> QED
  BY <1>1, <1>2, <1>3, <1>4, <1>5, <1>6, <1>7, <1>8

\* The channel is opened in a sound state.
LEMMA InitBase ==
    ASSUME Init
    PROVE  Base
<1>1. TypeOK
  <2>1. <<>> \in Seq(Message) /\ <<>> \in Seq([at : FrameKinds, seqno : Int])
    OBVIOUS
  <2>2. budget \in [Sides -> [rpc : Nat, sync : Nat, async : Nat, nest : Nat]]
    <3>1. \A s \in Sides : [rpc |-> MaxCalls[s], sync |-> MaxSyncs[s], async |-> MaxAsyncs[s],
                            nest |-> MaxNests[s]]
                              \in [rpc : Nat, sync : Nat, async : Nat, nest : Nat]
      BY BoundsAssumption
    <3> QED
      BY <3>1 DEF Init
  <2> QED
    BY <2>1, <2>2 DEF Init, TypeOK
<1>2. ASSUME NEW s \in Sides
      PROVE  SideSound(s)
  <2>1. /\ frames[s] = <<>> /\ mStack[s] = <<>> /\ mDeferred[s] = <<>>
        /\ mRemoteStackDepthGuess[s] = 0 /\ mSawRPCOutMsg[s] = FALSE
    BY DEF Init
  <2>2. Matched(<<>>, <<>>)
    <3>1. CallsUpTo(<<>>, Len(<<>>)) = {}
      BY DEF CallsUpTo
    <3>2. Cardinality(CallsUpTo(<<>>, Len(<<>>))) = Len(<<>>)
      BY <3>1, FS_EmptySet
    <3> QED
      BY <3>1, <3>2 DEF Matched
  <2>3. Handled(<<>>) = 0
    <3>1. Ats(<<>>) = <<>>
      BY DEF Ats
    <3> QED
      BY <3>1, OccurrencesEmpty DEF Handled
  <2> QED
    BY <2>1, <2>2, <2>3 DEF SideSound, Sound, Rooted
<1> QED
  BY <1>1, <1>2 DEF Base

\* A stutter leaves the state sound.
LEMMA BaseStays ==
    ASSUME Base, UNCHANGED vars
    PROVE  Base'
<1>1. TypeOK' /\ \A s \in Sides : SideSound(s)'
  BY DEF Base, vars, TypeOK, SideSound
<1> QED
  BY <1>1 DEF Base

\* The out-calls of a connected side are those on its C++ stack, in order,
\* whatever fails or times out (RPCChannel.cpp:154-190).
THEOREM CallsMatchFrames == Spec => []StackMatchesFrames
<1>1. Init => Base
  BY InitBase
<1>2. Base /\ [Next]_vars => Base'
  BY StepEffects, BaseStays
<1>3. Base => StackMatchesFrames
  BY DEF Base, SideSound, Sound, StackMatchesFrames
<1> QED
  BY <1>1, <1>2, <1>3, PTL DEF Spec

-----------------------------------------------------------------------------
(***************************************************************************)
(* Every request is on its way, at work or answered at most once, and only *)
(* those for calls that are still made are.                                *)
(***************************************************************************)

Asked(st, n) == \E i \in DOMAIN st : st[i].seqno = n
Among(st, m) == \E i \in DOMAIN st : st[i] = m

\* The out-calls of side s in the order in which they were made.
Ordered(s) ==
    /\ \A i, j \in 1 .. Len(mStack[s]) :
          i < j => Rank(s, mStack[s][i].seqno) < Rank(s, mStack[s][j].seqno)
    /\ \A i \in 1 .. Len(mStack[s]) :
          Rank(s, mStack[s][i].seqno) <= Rank(s, mNextSeqno[s]) /\ mStack[s][i] \in Requests

\* How often the call of side s with seqno n is handled, or answered.
Answers(s, n) == RunningOn(Other(s), n) + HeldBy(s, RPCReply(n))
                    + (IF n \in mOutOfTurnReplies[s] THEN 1 ELSE 0)

Accounts(s) ==
    /\ \A m \in Requests : HeldBy(Other(s), m) > 0 => Among(mStack[s], m)
    /\ \A n \in Int : Answers(s, n) > 0 => Asked(mStack[s], n)
    /\ \A m \in Requests : HeldBy(Other(s), m) + Answers(s, m.seqno) <= 1

Counts == \A s \in Sides :
    /\ \A e \in RPCs : HeldBy(s, e) \in Nat
    /\ \A n \in Int : RunningOn(s, n) \in Nat /\ Answers(s, n) \in Nat

\* All that is counted are numbers.
LEMMA CountsAre == Base => Counts
<1> SUFFICES ASSUME Base, NEW s \in Sides
             PROVE  /\ \A e \in RPCs : HeldBy(s, e) \in Nat
                    /\ \A n \in Int : RunningOn(s, n) \in Nat /\ Answers(s, n) \in Nat
  BY DEF Counts
<1>1. ASSUME NEW o \in Sides
      PROVE  /\ \A e \in RPCs : HeldBy(o, e) \in Nat
             /\ \A n \in Int : RunningOn(o, n) \in Nat
  <2>1. /\ wire[o] \in Seq(Message) /\ mPending[o] \in Seq(Message) /\ mDeferred[o] \in Seq(Message)
        /\ frames[o] \in Stacks
    BY SideTyped DEF Base
  <2> QED
    BY <2>1, HeldType, StackIs DEF HeldBy, RunningOn
<1>2. ASSUME NEW n \in Int
      PROVE  Answers(s, n) \in Nat
  <2>1. RunningOn(Other(s), n) \in Nat /\ HeldBy(s, RPCReply(n)) \in Nat
    BY <1>1, SidesAre, MessagesAre
  <2> QED
    BY <2>1 DEF Answers
<1> QED
  BY <1>1, <1>2

\* Two out-calls differ in their seqnos.
LEMMA OneCallEach ==
    ASSUME NEW s \in Sides, Ordered(s), mStack[s] \in Seq(Message),
           NEW m, NEW e, Among(mStack[s], m), Among(mStack[s], e), m.seqno = e.seqno
    PROVE  m = e
<1>1. DOMAIN mStack[s] = 1 .. Len(mStack[s]) /\ Len(mStack[s]) \in Nat
  BY LenProperties
<1>2. PICK i \in 1 .. Len(mStack[s]) : mStack[s][i] = m
  BY <1>1 DEF Among
<1>3. PICK j \in 1 .. Len(mStack[s]) : mStack[s][j] = e
  BY <1>1 DEF Among
<1>4. Rank(s, m.seqno) = Rank(s, e.seqno)
  OBVIOUS
<1>5. Rank(s, m.seqno) \in Int
  <2>1. m \in Message
    BY <1>1, <1>2, ElementOfSeq
  <2>2. m.seqno \in Int
    BY <2>1, MessagesAre
  <2> QED
    BY <2>2 DEF Rank
<1>6. ~(i < j) /\ ~(j < i)
  BY <1>2, <1>3, <1>4, <1>5 DEF Ordered
<1>7. i = j
  BY <1>1, <1>6
<1> QED
  BY <1>2, <1>3, <1>7

\* Nothing that was sent or is handled multiplies.
LEMMA FewerAccounts ==
    ASSUME Counts, Counts', NEW s \in Sides, Accounts(s), mStack'[s] = mStack[s],
           \A m \in Requests : HeldBy(Other(s), m)' <= HeldBy(Other(s), m),
           \A n \in Int : Answers(s, n)' <= Answers(s, n)
    PROVE  Accounts(s)'
<1>1. Other(s) \in Sides /\ Requests \subseteq RPCs /\ \A m \in Requests : m.seqno \in Int
  BY SidesAre, MessagesAre
<1>2. /\ \A m \in Requests : HeldBy(Other(s), m) \in Nat /\ HeldBy(Other(s), m)' \in Nat
      /\ \A n \in Int : Answers(s, n) \in Nat /\ Answers(s, n)' \in Nat
  BY <1>1 DEF Counts
<1>3. \A m \in Requests : HeldBy(Other(s), m)' > 0 => Among(mStack'[s], m)
  BY <1>1, <1>2 DEF Accounts
<1>4. \A n \in Int : Answers(s, n)' > 0 => Asked(mStack'[s], n)
  BY <1>2 DEF Accounts
<1>5. \A m \in Requests : HeldBy(Other(s), m)' + Answers(s, m.seqno)' <= 1
  BY <1>1, <1>2 DEF Accounts
<1> QED
  BY <1>3, <1>4, <1>5 DEF Accounts

\* A step that holds and runs no more answers no more.
LEMMA AnswersFewer ==
    ASSUME Counts, Counts', NEW s \in Sides, RunningLess(Other(s)), HeldLess(s),
           mOutOfTurnReplies'[s] \subseteq mOutOfTurnReplies[s]
    PROVE  \A n \in Int : Answers(s, n)' <= Answers(s, n)
<1> SUFFICES ASSUME NEW n \in Int
             PROVE  Answers(s, n)' <= Answers(s, n)
  OBVIOUS
<1> DEFINE r == RunningOn(Other(s), n)
           r2 == RunningOn(Other(s), n)'
           h == HeldBy(s, RPCReply(n))
           h2 == HeldBy(s, RPCReply(n))'
           k == IF n \in mOutOfTurnReplies[s] THEN 1 ELSE 0
           k2 == IF n \in mOutOfTurnReplies'[s] THEN 1 ELSE 0
<1>1. Other(s) \in Sides /\ RPCReply(n) \in RPCs
  BY SidesAre, MessagesAre
<1>2. r \in Nat /\ r2 \in Nat /\ h \in Nat /\ h2 \in Nat
  BY <1>1 DEF Counts
<1>3. r2 <= r /\ h2 <= h
  BY <1>1 DEF RunningLess, HeldLess
<1>4. k \in Nat /\ k2 \in Nat /\ k2 <= k
  OBVIOUS
<1>5. Answers(s, n) = r + h + k /\ Answers(s, n)' = r2 + h2 + k2
  BY DEF Answers
<1> HIDE DEF r, r2, h, h2, k, k2
<1> QED
  BY <1>2, <1>3, <1>4, <1>5

\* Such a step, when no call begins or returns, keeps the accounts.
LEMMA LessAccounts ==
    ASSUME Counts, Counts', NEW s \in Sides, Accounts(s), mStack'[s] = mStack[s],
           HeldLess(s), HeldLess(Other(s)), RunningLess(Other(s)),
           mOutOfTurnReplies'[s] = mOutOfTurnReplies[s]
    PROVE  Accounts(s)'
<1>1. \A n \in Int : Answers(s, n)' <= Answers(s, n)
  BY AnswersFewer
<1>2. \A m \in Requests : HeldBy(Other(s), m)' <= HeldBy(Other(s), m)
  BY MessagesAre DEF HeldLess
<1> QED
  BY <1>1, <1>2, FewerAccounts

\* A passive step keeps the accounts.
LEMMA PassiveAccounts ==
    ASSUME Counts, Counts', NEW s \in Sides, Accounts(s), Passive
    PROVE  Accounts(s)'
<1>1. /\ mStack' = mStack /\ mOutOfTurnReplies' = mOutOfTurnReplies
      /\ \A o \in Sides : HeldLess(o) /\ RunningLess(o)
  BY Zenon DEF Passive, CallsSame
<1> QED
  BY <1>1, SidesAre, LessAccounts

\* What a side asked for begins: it was held, and is being handled.
LEMMA BeginsAccounts ==
    ASSUME Counts, Counts', NEW a \in Sides, NEW s \in Sides, Accounts(s), Ordered(s),
           mStack[s] \in Seq(Message), Begins(a)
    PROVE  Accounts(s)'
<1>1. /\ mStack' = mStack /\ mOutOfTurnReplies' = mOutOfTurnReplies
      /\ \A o \in Sides : HeldLess(o)
      /\ RunningLess(Other(a))
  BY Zenon DEF Begins, CallsSame
<1>2. CASE s = a
  BY <1>1, <1>2, SidesAre, LessAccounts
<1>3. CASE s # a
  <2>1. Other(s) = a
    BY <1>3, SidesAre
  <2>2. PICK m \in Requests :
           /\ HeldBy(a, m)' + 1 <= HeldBy(a, m)
           /\ \A n \in Int : RunningOn(a, n)' <= RunningOn(a, n) + (IF n = m.seqno THEN 1 ELSE 0)
    BY Zenon DEF Begins
  <2>3. m \in RPCs /\ m.seqno \in Int
    BY MessagesAre
  <2>4. /\ \A e \in RPCs : HeldBy(a, e) \in Nat /\ HeldBy(a, e)' \in Nat
        /\ \A n \in Int : /\ RunningOn(a, n) \in Nat /\ RunningOn(a, n)' \in Nat
                          /\ Answers(s, n) \in Nat /\ Answers(s, n)' \in Nat
    BY DEF Counts
  <2>5. HeldBy(a, m) = 1 /\ HeldBy(a, m)' = 0 /\ Answers(s, m.seqno) = 0
    <3> DEFINE x == HeldBy(a, m)
               x2 == HeldBy(a, m)'
               y == Answers(s, m.seqno)
    <3>1. x + y <= 1 /\ x2 + 1 <= x
      BY <2>1, <2>2 DEF Accounts
    <3>2. x \in Nat /\ x2 \in Nat /\ y \in Nat
      BY <2>3, <2>4
    <3> HIDE DEF x, x2, y
    <3>3. x = 1 /\ x2 = 0 /\ y = 0
      BY <3>1, <3>2
    <3> QED
      BY <3>3 DEF x, x2, y
  <2>6. \A n \in Int : Answers(s, n)' <= Answers(s, n) + (IF n = m.seqno THEN 1 ELSE 0)
    <3> SUFFICES ASSUME NEW n \in Int
                 PROVE  Answers(s, n)' <= Answers(s, n) + (IF n = m.seqno THEN 1 ELSE 0)
      OBVIOUS
    <3> DEFINE r == RunningOn(a, n)
               r2 == RunningOn(a, n)'
               h == HeldBy(s, RPCReply(n))
               h2 == HeldBy(s, RPCReply(n))'
               k == IF n \in mOutOfTurnReplies[s] THEN 1 ELSE 0
               i == IF n = m.seqno THEN 1 ELSE 0
    <3>1. h \in Nat /\ h2 \in Nat /\ h2 <= h
      BY <1>1, MessagesAre DEF Counts, HeldLess
    <3>2. r \in Nat /\ r2 \in Nat /\ r2 <= r + i /\ k \in Nat /\ i \in Nat
      BY <2>2, <2>4
    <3>3. Answers(s, n) = r + h + k /\ Answers(s, n)' = r2 + h2 + k
      BY <1>1, <2>1 DEF Answers
    <3> HIDE DEF r, r2, h, h2, k, i
    <3>4. Answers(s, n)' <= Answers(s, n) + i
      BY <3>1, <3>2, <3>3
    <3> QED
      BY <3>4 DEF i
  <2>7. \A e \in Requests : HeldBy(Other(s), e)' > 0 => Among(mStack'[s], e)
    <3>1. \A e \in Requests : HeldBy(a, e)' <= HeldBy(a, e)
      BY <1>1, MessagesAre DEF HeldLess
    <3>2. \A e \in Requests : HeldBy(a, e)' > 0 => HeldBy(a, e) > 0
      BY <2>4, <3>1, MessagesAre
    <3> QED
      BY <1>1, <2>1, <3>2 DEF Accounts
  <2>8. \A n \in Int : Answers(s, n)' > 0 => Asked(mStack'[s], n)
    <3>1. Asked(mStack[s], m.seqno)
      <4>1. Among(mStack[s], m)
        BY <2>1, <2>5 DEF Accounts
      <4> QED
        BY <4>1 DEF Among, Asked
    <3>2. ASSUME NEW n \in Int, Answers(s, n)' > 0, n # m.seqno
          PROVE  Asked(mStack[s], n)
      <4> DEFINE y == Answers(s, n)
                 y2 == Answers(s, n)'
      <4>1. y2 <= y + (IF n = m.seqno THEN 1 ELSE 0) /\ y \in Nat /\ y2 \in Nat /\ y2 > 0
        BY <2>4, <2>6, <3>2
      <4> HIDE DEF y, y2
      <4>2. y > 0
        BY <3>2, <4>1
      <4> QED
        BY <4>2 DEF y, Accounts
    <3> QED
      BY <1>1, <3>1, <3>2
  <2>9. \A e \in Requests : HeldBy(Other(s), e)' + Answers(s, e.seqno)' <= 1
    <3> SUFFICES ASSUME NEW e \in Requests
                 PROVE  HeldBy(a, e)' + Answers(s, e.seqno)' <= 1
      BY <2>1
    <3>1. /\ e \in RPCs /\ e.seqno \in Int /\ HeldBy(a, e) + Answers(s, e.seqno) <= 1
          /\ HeldBy(a, e)' <= HeldBy(a, e)
      BY <1>1, <2>1, MessagesAre DEF Accounts, HeldLess
    <3>2. /\ HeldBy(a, e) \in Nat /\ HeldBy(a, e)' \in Nat
          /\ Answers(s, e.seqno) \in Nat /\ Answers(s, e.seqno)' \in Nat
      BY <2>4, <3>1
    <3>3. CASE e.seqno # m.seqno
      <4>1. Answers(s, e.seqno)' <= Answers(s, e.seqno)
        BY <2>6, <3>1, <3>2, <3>3
      <4> QED
        BY <3>1, <3>2, <4>1
    <3>4. CASE e.seqno = m.seqno
      <4>1. Answers(s, e.seqno)' <= 1
        BY <2>5, <2>6, <3>1, <3>4
      <4>2. HeldBy(a, e)' = 0
        <5>1. CASE e = m
          BY <2>5, <5>1
        <5>2. CASE e # m
          <6>1. ~Among(mStack[s], e)
            <7>1. Among(mStack[s], m)
              BY <2>1, <2>5 DEF Accounts
            <7> QED
              BY <3>4, <5>2, <7>1, OneCallEach
          <6>2. ~(HeldBy(a, e) > 0)
            BY <2>1, <6>1 DEF Accounts
          <6> QED
            BY <3>1, <3>2, <6>2
        <5> QED
          BY <5>1, <5>2
      <4> QED
        BY <3>2, <4>1, <4>2
    <3> QED
      BY <3>3, <3>4
  <2> QED
    BY <2>7, <2>8, <2>9 DEF Accounts
<1> QED
  BY <1>2, <1>3

\* A handler that replies hands over what it accounted for.
LEMMA RepliesAccounts ==
    ASSUME Counts, Counts', NEW a \in Sides, NEW s \in Sides, Accounts(s), Replies(a)
    PROVE  Accounts(s)'
<1>1. /\ mStack' = mStack /\ mOutOfTurnReplies' = mOutOfTurnReplies
      /\ HeldLess(a) /\ RunningLess(Other(a))
  BY Zenon DEF Replies, CallsSame
<1>2. PICK n \in Int :
         /\ \A k \in Int : RunningOn(a, k) = RunningOn(a, k)' + (IF k = n THEN 1 ELSE 0)
         /\ \A e \in RPCs : HeldBy(Other(a), e)' =
               HeldBy(Other(a), e) + (IF e = RPCReply(n) THEN 1 ELSE 0)
  BY Zenon DEF Replies
<1>3. CASE s = a
  <2>1. \A m \in Requests : HeldBy(Other(s), m)' <= HeldBy(Other(s), m)
    <3> SUFFICES ASSUME NEW m \in Requests
                 PROVE  HeldBy(Other(a), m)' <= HeldBy(Other(a), m)
      BY <1>3
    <3>1. m \in RPCs /\ m # RPCReply(n)
      BY MessagesAre DEF Requests, RPCReply
    <3>2. HeldBy(Other(a), m) \in Nat
      BY <3>1, SidesAre DEF Counts
    <3>3. HeldBy(Other(a), m)' = HeldBy(Other(a), m) + 0
      BY <1>2, <3>1
    <3> QED
      BY <3>2, <3>3
  <2>2. \A k \in Int : Answers(s, k)' <= Answers(s, k)
    BY <1>1, <1>3, AnswersFewer
  <2> QED
    BY <1>1, <2>1, <2>2, FewerAccounts
<1>4. CASE s # a
  <2>1. Other(s) = a /\ Other(a) = s
    BY <1>4, SidesAre
  <2>2. \A m \in Requests : HeldBy(Other(s), m)' <= HeldBy(Other(s), m)
    BY <1>1, <2>1, MessagesAre DEF HeldLess
  <2>3. ASSUME NEW k \in Int
        PROVE  Answers(s, k)' <= Answers(s, k)
    <3> DEFINE r == RunningOn(a, k)
               r2 == RunningOn(a, k)'
               h == HeldBy(s, RPCReply(k))
               h2 == HeldBy(s, RPCReply(k))'
               o == IF k \in mOutOfTurnReplies[s] THEN 1 ELSE 0
               i == IF k = n THEN 1 ELSE 0
    <3>1. RPCReply(k) \in RPCs /\ (RPCReply(k) = RPCReply(n) <=> k = n)
      BY MessagesAre DEF RPCReply
    <3>2. r \in Nat /\ r2 \in Nat /\ h \in Nat /\ h2 \in Nat /\ o \in Nat /\ i \in Nat
      BY <3>1 DEF Counts
    <3>3. r = r2 + i
      BY <1>2
    <3>4. h2 = h + i
      BY <1>2, <2>1, <3>1
    <3>5. Answers(s, k) = r + h + o /\ Answers(s, k)' = r2 + h2 + o
      BY <1>1, <2>1 DEF Answers
    <3> HIDE DEF r, r2, h, h2, o, i
    <3> QED
      BY <3>2, <3>3, <3>4, <3>5
  <2> QED
    BY <1>1, <2>2, <2>3, FewerAccounts
<1> QED
  BY <1>3, <1>4

\* A reply put aside was pending before.
LEMMA PutsAsideAccounts ==
    ASSUME Counts, Counts', NEW a \in Sides, NEW s \in Sides, Accounts(s), PutsAside(a)
    PROVE  Accounts(s)'
<1>1. /\ mStack' = mStack /\ \A o \in Sides : HeldLess(o) /\ RunningLess(o)
      /\ mOutOfTurnReplies'[Other(a)] = mOutOfTurnReplies[Other(a)]
  BY Zenon DEF PutsAside, CallsSame
<1>2. PICK n \in Int :
         /\ mOutOfTurnReplies'[a] = mOutOfTurnReplies[a] \cup {n}
         /\ HeldBy(a, RPCReply(n))' + 1 <= HeldBy(a, RPCReply(n))
  BY Zenon DEF PutsAside
<1>3. CASE s # a
  BY <1>1, <1>3, SidesAre, LessAccounts
<1>4. CASE s = a
  <2>1. \A m \in Requests : HeldBy(Other(s), m)' <= HeldBy(Other(s), m)
    BY <1>1, SidesAre, MessagesAre DEF HeldLess
  <2>2. ASSUME NEW k \in Int
        PROVE  Answers(s, k)' <= Answers(s, k)
    <3> DEFINE r == RunningOn(Other(s), k)
               r2 == RunningOn(Other(s), k)'
               h == HeldBy(s, RPCReply(k))
               h2 == HeldBy(s, RPCReply(k))'
               o == IF k \in mOutOfTurnReplies[s] THEN 1 ELSE 0
               o2 == IF k \in mOutOfTurnReplies'[s] THEN 1 ELSE 0
    <3>1. RPCReply(k) \in RPCs /\ Other(s) \in Sides
      BY MessagesAre, SidesAre
    <3>2. r \in Nat /\ r2 \in Nat /\ h \in Nat /\ h2 \in Nat /\ o \in Nat /\ o2 \in Nat
      BY <3>1 DEF Counts
    <3>3. r2 <= r /\ h2 <= h
      BY <1>1, <3>1 DEF RunningLess, HeldLess
    <3>4. k = n => h2 + 1 <= h
      BY <1>2, <1>4
    <3>5. k # n => o2 = o
      BY <1>2, <1>4
    <3>6. o2 <= 1
      OBVIOUS
    <3>7. Answers(s, k) = r + h + o /\ Answers(s, k)' = r2 + h2 + o2
      BY DEF Answers
    <3> HIDE DEF r, r2, h, h2, o, o2
    <3> QED
      BY <3>2, <3>3, <3>4, <3>5, <3>6, <3>7
  <2> QED
    BY <1>1, <2>1, <2>2, FewerAccounts
<1> QED
  BY <1>3, <1>4

\* The order of seqnos is one of numbers.
LEMMA RankIs ==
    ASSUME NEW s, NEW n \in Int, NEW k \in Int
    PROVE  Rank(s, n) \in Int /\ (Rank(s, n) = Rank(s, k) <=> n = k)
BY DEF Rank

\* The seqno of a new call is after all that were handed out.
LEMMA NextIsLater ==
    ASSUME NEW a, mNextSeqno[a] \in Int
    PROVE  NextSeqno(a) \in Int /\ Rank(a, mNextSeqno[a]) < Rank(a, NextSeqno(a))
BY DEF NextSeqno, Rank

\* The out-calls stay in order when none is added.
LEMMA OrderedStays ==
    ASSUME NEW s \in Sides, Ordered(s), mStack[s] \in Seq(Message),
           mNextSeqno[s] \in Int, mNextSeqno'[s] \in Int,
           Rank(s, mNextSeqno[s]) <= Rank(s, mNextSeqno'[s]),
           \/ mStack'[s] = mStack[s]
           \/ mStack[s] # <<>> /\ mStack'[s] = Front(mStack[s])
    PROVE  Ordered(s)'
<1> DEFINE q == mStack[s]
           q2 == mStack'[s]
           x == Rank(s, mNextSeqno[s])
           x2 == Rank(s, mNextSeqno'[s])
<1>1. /\ Len(q) \in Nat /\ Len(q2) \in Nat /\ Len(q2) <= Len(q)
      /\ \A i \in 1 .. Len(q2) : q2[i] = q[i]
  <2>1. CASE q2 = q
    BY <2>1, LenProperties
  <2>2. CASE q # <<>> /\ q2 = Front(q)
    <3>1. /\ Len(q) \in Nat \ {0} /\ Len(Front(q)) = Len(q) - 1
          /\ \A i \in 1 .. Len(q) - 1 : Front(q)[i] = q[i]
      BY <2>2, FrontLast
    <3> HIDE DEF q, q2
    <3> QED
      BY <2>2, <3>1
  <2> QED
    BY <2>1, <2>2
<1>2. x \in Int /\ x2 \in Int /\ x <= x2
  BY RankIs
<1>3. \A i, j \in 1 .. Len(q) : i < j => Rank(s, q[i].seqno) < Rank(s, q[j].seqno)
  BY DEF Ordered
<1>4. \A i \in 1 .. Len(q) : Rank(s, q[i].seqno) <= x /\ q[i] \in Requests
  BY DEF Ordered
<1>5. \A i \in 1 .. Len(q) : Rank(s, q[i].seqno) \in Int
  BY <1>4, MessagesAre, RankIs
<1> HIDE DEF q, q2, x, x2
<1>6. \A i, j \in 1 .. Len(q2) : i < j => Rank(s, q2[i].seqno) < Rank(s, q2[j].seqno)
  BY <1>1, <1>3
<1>7. \A i \in 1 .. Len(q2) : Rank(s, q2[i].seqno) <= x2 /\ q2[i] \in Requests
  <2> SUFFICES ASSUME NEW i \in 1 .. Len(q2)
               PROVE  Rank(s, q2[i].seqno) <= x2 /\ q2[i] \in Requests
    OBVIOUS
  <2>1. i \in 1 .. Len(q) /\ q2[i] = q[i]
    BY <1>1
  <2>2. Rank(s, q[i].seqno) <= x /\ Rank(s, q[i].seqno) \in Int /\ q[i] \in Requests
    BY <1>4, <1>5, <2>1
  <2> QED
    BY <1>2, <2>1, <2>2
<1> QED
  BY <1>6, <1>7 DEF Ordered, q2, x2

\* A new call comes last.
LEMMA OrderedGrows ==
    ASSUME NEW s \in Sides, Ordered(s), mStack[s] \in Seq(Message), mNextSeqno[s] \in Int,
           NEW m \in Requests, m.seqno = NextSeqno(s),
           mStack'[s] = Append(mStack[s], m), mNextSeqno'[s] = NextSeqno(s)
    PROVE  Ordered(s)' /\ ~Asked(mStack[s], NextSeqno(s))
<1> DEFINE q == mStack[s]
           q2 == mStack'[s]
           x == Rank(s, mNextSeqno[s])
           x2 == Rank(s, NextSeqno(s))
<1>1. /\ Len(q) \in Nat /\ Len(q2) = Len(q) + 1 /\ DOMAIN q = 1 .. Len(q)
      /\ \A i \in 1 .. Len(q) : q2[i] = q[i]
      /\ q2[Len(q) + 1] = m
  BY AppendIs, MessagesAre
<1>2. x \in Int /\ x2 \in Int /\ x < x2 /\ Rank(s, m.seqno) = x2
  BY RankIs, NextIsLater
<1>3. \A i, j \in 1 .. Len(q) : i < j => Rank(s, q[i].seqno) < Rank(s, q[j].seqno)
  BY DEF Ordered
<1>4. \A i \in 1 .. Len(q) : Rank(s, q[i].seqno) <= x /\ q[i] \in Requests
  BY DEF Ordered
<1>5. \A i \in 1 .. Len(q) : Rank(s, q[i].seqno) \in Int
  BY <1>4, MessagesAre, RankIs
<1>6. Rank(s, mNextSeqno'[s]) = x2
  OBVIOUS
<1> HIDE DEF q, q2, x, x2
<1>7. \A i \in 1 .. Len(q) : Rank(s, q[i].seqno) < x2
  BY <1>2, <1>4, <1>5
<1>8. \A i, j \in 1 .. Len(q2) : i < j => Rank(s, q2[i].seqno) < Rank(s, q2[j].seqno)
  <2> SUFFICES ASSUME NEW i \in 1 .. Len(q2), NEW j \in 1 .. Len(q2), i < j
               PROVE  Rank(s, q2[i].seqno) < Rank(s, q2[j].seqno)
    OBVIOUS
  <2>1. i \in 1 .. Len(q) /\ q2[i] = q[i]
    BY <1>1
  <2>2. CASE j \in 1 .. Len(q)
    BY <1>1, <1>3, <2>1, <2>2
  <2>3. CASE j = Len(q) + 1
    <3>1. q2[j] = m
      BY <1>1, <2>3
    <3> QED
      BY <1>2, <1>7, <2>1, <3>1
  <2>4. j \in 1 .. Len(q) \/ j = Len(q) + 1
    <3>1. \A n \in Nat : \A k \in 1 .. n + 1 : k \in 1 .. n \/ k = n + 1
      OBVIOUS
    <3>2. Len(q) \in Nat /\ j \in 1 .. Len(q) + 1
      BY <1>1
    <3> QED
      BY <3>1, <3>2
  <2> QED
    BY <2>2, <2>3, <2>4
<1>9. \A i \in 1 .. Len(q2) : Rank(s, q2[i].seqno) <= x2 /\ q2[i] \in Requests
  <2> SUFFICES ASSUME NEW i \in 1 .. Len(q2)
               PROVE  Rank(s, q2[i].seqno) <= x2 /\ q2[i] \in Requests
    OBVIOUS
  <2>1. CASE i \in 1 .. Len(q)
    BY <1>1, <1>2, <1>4, <1>5, <1>7, <2>1
  <2>2. CASE i = Len(q) + 1
    <3>1. q2[i] = m
      BY <1>1, <2>2
    <3> QED
      BY <1>2, <3>1
  <2> QED
    BY <1>1, <2>1, <2>2
<1>10. ~Asked(q, NextSeqno(s))
  <2>1. ASSUME NEW i \in 1 .. Len(q), q[i].seqno = NextSeqno(s)
        PROVE  FALSE
    <3>1. Rank(s, q[i].seqno) = x2
      BY <2>1 DEF x2
    <3> QED
      BY <1>2, <1>7, <3>1
  <2> QED
    BY <1>1, <2>1 DEF Asked
<1> QED
  BY <1>6, <1>8, <1>9, <1>10 DEF Ordered, q, q2

\* A step keeps the out-calls in order.
LEMMA OrderedStep ==
    ASSUME Base, Base', NEW a \in Sides, Effects(a), NEW s \in Sides, Ordered(s)
    PROVE  Ordered(s)'
<1>1. /\ mStack[s] \in Seq(Message) /\ mNextSeqno[s] \in Int
  BY SideTyped DEF Base
<1>2. mNextSeqno'[s] \in Int
  BY DEF Base, TypeOK
<1>3. CASE CallsSame
  BY <1>1, <1>2, <1>3, OrderedStays DEF CallsSame, Onward
<1>4. CASE Asks(a)
  <2>1. PICK m \in Requests : m.seqno = NextSeqno(a) /\ mStack'[a] = Append(mStack[a], m)
    BY Zenon, <1>4 DEF Asks
  <2>2. /\ mNextSeqno'[a] = NextSeqno(a)
        /\ mStack'[Other(a)] = mStack[Other(a)] /\ mNextSeqno'[Other(a)] = mNextSeqno[Other(a)]
    BY Zenon, <1>4 DEF Asks
  <2>3. CASE s = a
    BY <1>1, <2>1, <2>2, <2>3, OrderedGrows
  <2>4. CASE s # a
    <3>1. mStack'[s] = mStack[s] /\ mNextSeqno'[s] = mNextSeqno[s]
      BY <2>2, <2>4, SidesAre
    <3>2. Rank(s, mNextSeqno[s]) <= Rank(s, mNextSeqno'[s])
      BY <1>1, <3>1, RankIs
    <3> QED
      BY <1>1, <1>2, <3>1, <3>2, OrderedStays
  <2> QED
    BY <2>3, <2>4
<1>5. CASE Gets(a)
  <2>1. /\ mNextSeqno'[s] = mNextSeqno[s]
        /\ mStack'[Other(a)] = mStack[Other(a)]
        /\ mStack[a] # <<>> /\ mStack'[a] = Front(mStack[a])
    BY Zenon, <1>5 DEF Gets
  <2>2. Rank(s, mNextSeqno[s]) <= Rank(s, mNextSeqno'[s])
    BY <1>1, <2>1, RankIs
  <2>3. s = a \/ s = Other(a)
    BY SidesAre
  <2> QED
    BY <1>1, <1>2, <2>1, <2>2, <2>3, OrderedStays
<1> QED
  BY Zenon, <1>3, <1>4, <1>5 DEF Effects, Passive, Begins, Replies, PutsAside

\* A new call is asked of the other side once.
LEMMA AsksAccounts ==
    ASSUME Counts, Counts', NEW a \in Sides, NEW s \in Sides, Accounts(s), Ordered(s),
           mStack[s] \in Seq(Message), mNextSeqno[s] \in Int, Asks(a)
    PROVE  Accounts(s)'
<1>1. /\ mOutOfTurnReplies' = mOutOfTurnReplies /\ HeldLess(a)
      /\ \A o \in Sides : RunningLess(o)
      /\ mStack'[Other(a)] = mStack[Other(a)] /\ mNextSeqno'[a] = NextSeqno(a)
  BY Zenon DEF Asks
<1>2. PICK m \in Requests :
         /\ m.seqno = NextSeqno(a) /\ mStack'[a] = Append(mStack[a], m)
         /\ \A e \in RPCs : HeldBy(Other(a), e)' =
               HeldBy(Other(a), e) + (IF e = m THEN 1 ELSE 0)
  BY Zenon DEF Asks
<1>3. ASSUME NEW o \in Sides
      PROVE  /\ \A e \in RPCs : HeldBy(o, e) \in Nat /\ HeldBy(o, e)' \in Nat
             /\ \A n \in Int : Answers(o, n) \in Nat /\ Answers(o, n)' \in Nat
  BY DEF Counts
<1>4. CASE s # a
  <2>1. Other(s) = a /\ Other(a) = s
    BY <1>4, SidesAre
  <2>2. \A e \in Requests : HeldBy(Other(s), e)' <= HeldBy(Other(s), e)
    BY <1>1, <2>1, MessagesAre DEF HeldLess
  <2>3. ASSUME NEW n \in Int
        PROVE  Answers(s, n)' <= Answers(s, n)
    <3> DEFINE r == RunningOn(Other(s), n)
               r2 == RunningOn(Other(s), n)'
               h == HeldBy(s, RPCReply(n))
               h2 == HeldBy(s, RPCReply(n))'
               o == IF n \in mOutOfTurnReplies[s] THEN 1 ELSE 0
    <3>1. RPCReply(n) \in RPCs /\ RPCReply(n) # m
      BY MessagesAre
    <3>2. r \in Nat /\ r2 \in Nat /\ h \in Nat /\ h2 \in Nat /\ o \in Nat
      BY <2>1, <3>1 DEF Counts
    <3>3. r2 <= r
      BY <1>1, <2>1 DEF RunningLess
    <3>4. h2 = h + 0
      BY <1>2, <2>1, <3>1
    <3>5. Answers(s, n) = r + h + o /\ Answers(s, n)' = r2 + h2 + o
      BY <1>1 DEF Answers
    <3> HIDE DEF r, r2, h, h2, o
    <3> QED
      BY <3>2, <3>3, <3>4, <3>5
  <2>4. mStack'[s] = mStack[s]
    BY <1>1, <2>1
  <2> QED
    BY <2>2, <2>3, <2>4, FewerAccounts
<1>5. CASE s = a
  <2>1. m \in RPCs /\ m \in Message /\ m.seqno \in Int
    BY MessagesAre
  <2>2. /\ DOMAIN mStack[a] = 1 .. Len(mStack[a]) /\ Len(mStack[a]) \in Nat
        /\ DOMAIN mStack'[a] = 1 .. Len(mStack[a]) + 1
        /\ \A i \in 1 .. Len(mStack[a]) : mStack'[a][i] = mStack[a][i]
        /\ mStack'[a][Len(mStack[a]) + 1] = m
    BY <1>2, <1>5, <2>1, AppendIs
  <2>3. \A i \in DOMAIN mStack[a] : i \in DOMAIN mStack'[a] /\ mStack'[a][i] = mStack[a][i]
    BY <2>2
  <2>4. /\ \A e : Among(mStack[a], e) => Among(mStack'[a], e)
        /\ \A n : Asked(mStack[a], n) => Asked(mStack'[a], n)
    BY <2>3 DEF Among, Asked
  <2>5. Among(mStack'[a], m) /\ Asked(mStack'[a], m.seqno)
    <3>1. Len(mStack[a]) + 1 \in DOMAIN mStack'[a]
      BY <2>2
    <3> QED
      BY <2>2, <3>1 DEF Among, Asked
  <2>6. ~Asked(mStack[a], m.seqno)
    BY <1>1, <1>2, <1>5, OrderedGrows
  <2>7. \A e : e.seqno = m.seqno => ~Among(mStack[a], e)
    BY <2>6 DEF Among, Asked
  <2>8. \A n \in Int : Answers(a, n)' <= Answers(a, n)
    BY <1>1, <1>5, SidesAre, AnswersFewer
  <2>9. Answers(a, m.seqno)' = 0
    <3>1. ~(Answers(a, m.seqno) > 0)
      BY <1>5, <2>1, <2>6 DEF Accounts
    <3>2. /\ Answers(a, m.seqno) \in Nat /\ Answers(a, m.seqno)' \in Nat
          /\ Answers(a, m.seqno)' <= Answers(a, m.seqno)
      BY <1>3, <2>1, <2>8
    <3> QED
      BY <3>1, <3>2
  <2>10. ASSUME NEW e \in Requests
         PROVE  /\ HeldBy(Other(a), e)' > 0 => Among(mStack'[a], e)
                /\ HeldBy(Other(a), e)' + Answers(a, e.seqno)' <= 1
    <3>1. e \in RPCs /\ e.seqno \in Int /\ Other(a) \in Sides
      BY MessagesAre, SidesAre
    <3>2. /\ HeldBy(Other(a), e) \in Nat /\ HeldBy(Other(a), e)' \in Nat
          /\ Answers(a, e.seqno) \in Nat /\ Answers(a, e.seqno)' \in Nat
      BY <1>3, <3>1
    <3>3. HeldBy(Other(a), e)' = HeldBy(Other(a), e) + (IF e = m THEN 1 ELSE 0)
      BY <1>2, <3>1
    <3>4. CASE e = m
      <4>1. ~(HeldBy(Other(a), e) > 0)
        BY <1>5, <2>7, <3>4 DEF Accounts
      <4>2. HeldBy(Other(a), e)' = 1
        BY <3>2, <3>3, <3>4, <4>1
      <4>3. Answers(a, e.seqno)' = 0
        BY <2>9, <3>4
      <4> QED
        BY <2>5, <3>4, <4>2, <4>3
    <3>5. CASE e # m
      <4>1. HeldBy(Other(a), e)' = HeldBy(Other(a), e)
        BY <3>2, <3>3, <3>5
      <4>2. HeldBy(Other(a), e) + Answers(a, e.seqno) <= 1
        BY <1>5 DEF Accounts
      <4>3. Answers(a, e.seqno)' <= Answers(a, e.seqno)
        BY <2>8, <3>1
      <4>4. HeldBy(Other(a), e)' + Answers(a, e.seqno)' <= 1
        BY <3>2, <4>1, <4>2, <4>3
      <4>5. HeldBy(Other(a), e)' > 0 => Among(mStack'[a], e)
        BY <1>5, <2>4, <4>1 DEF Accounts
      <4> QED
        BY <4>4, <4>5
    <3> QED
      BY <3>4, <3>5
  <2>11. ASSUME NEW n \in Int, Answers(a, n)' > 0
         PROVE  Asked(mStack'[a], n)
    <3>1. Answers(a, n)' <= Answers(a, n) /\ Answers(a, n) \in Nat /\ Answers(a, n)' \in Nat
      BY <1>3, <2>8
    <3>2. Answers(a, n) > 0
      BY <2>11, <3>1
    <3> QED
      BY <1>5, <2>4, <3>2 DEF Accounts
  <2> QED
    BY <1>5, <2>10, <2>11 DEF Accounts
<1> QED
  BY <1>4, <1>5

\* A reply to an out-call that is not out of turn is that to the innermost.
LEMMA ReplyIsLast ==
    ASSUME NEW s \in Sides, Ordered(s), mStack[s] \in Seq(Message),
           NEW n, Asked(mStack[s], n), ~OutOfTurn(s, n)
    PROVE  mStack[s] # <<>> /\ n = Last(mStack[s]).seqno
<1> DEFINE q == mStack[s]
<1>1. DOMAIN q = 1 .. Len(q) /\ Len(q) \in Nat
  BY LenProperties
<1>2. PICK i \in 1 .. Len(q) : q[i].seqno = n
  BY <1>1 DEF Asked
<1>3. q # <<>>
  <2>1. Len(q) # 0
    BY <1>1, <1>2
  <2> QED
    BY <2>1, EmptySeq
<1>4. Last(q) = q[Len(q)] /\ Len(q) \in 1 .. Len(q)
  BY <1>1, <1>2 DEF Last
<1>5. q[i].seqno \in Int /\ Last(q).seqno \in Int
  <2>1. \A j \in 1 .. Len(q) : q[j] \in Requests
    BY DEF Ordered
  <2> QED
    BY <1>4, <2>1, MessagesAre
<1>6. ~(Rank(s, q[i].seqno) < Rank(s, Last(q).seqno))
  BY <1>2, <1>5 DEF OutOfTurn, Rank
<1>7. i = Len(q)
  <2>1. i < Len(q) => Rank(s, q[i].seqno) < Rank(s, q[Len(q)].seqno)
    BY <1>4 DEF Ordered
  <2> DEFINE N == Len(q)
  <2>2. i \in 1 .. N /\ N \in Nat
    BY <1>1
  <2>3. ~(i < N)
    BY <1>4, <1>6, <2>1
  <2> HIDE DEF q, N
  <2>4. i = N
    BY <2>2, <2>3
  <2> QED
    BY <2>4 DEF N
<1> QED
  BY <1>2, <1>3, <1>4, <1>7

\* All but the innermost out-call are in the front.
LEMMA InFront ==
    ASSUME NEW q \in Seq(Message), q # <<>>
    PROVE  /\ \A e : Among(q, e) /\ e # Last(q) => Among(Front(q), e)
           /\ \A n : Asked(q, n) /\ n # Last(q).seqno => Asked(Front(q), n)
           /\ Among(q, Last(q))
<1> DEFINE f == Front(q)
<1>1. /\ f \in Seq(Message) /\ Len(q) \in Nat \ {0} /\ Len(f) = Len(q) - 1
      /\ \A i \in 1 .. Len(q) - 1 : f[i] = q[i]
      /\ q[Len(q)] = Last(q)
  BY FrontLast
<1>2. DOMAIN q = 1 .. Len(q) /\ DOMAIN f = 1 .. Len(f)
  BY <1>1, LenProperties
<1> HIDE DEF f
<1>3. \A i \in DOMAIN q : i = Len(q) \/ (i \in DOMAIN f /\ f[i] = q[i])
  BY <1>1, <1>2
<1>4. Len(q) \in DOMAIN q
  BY <1>1, <1>2
<1> QED
  BY <1>1, <1>3, <1>4 DEF Among, Asked, f

\* A call that returns takes its account with it.
LEMMA GetsAccounts ==
    ASSUME Counts, Counts', NEW a \in Sides, NEW s \in Sides, Accounts(s), Ordered(s),
           mStack[s] \in Seq(Message), Gets(a)
    PROVE  Accounts(s)'
<1>1. /\ \A o \in Sides : HeldLess(o) /\ RunningLess(o)
      /\ mStack'[Other(a)] = mStack[Other(a)]
      /\ mOutOfTurnReplies'[Other(a)] = mOutOfTurnReplies[Other(a)]
      /\ mStack[a] # <<>> /\ mStack'[a] = Front(mStack[a])
  BY Zenon DEF Gets
<1>2. CASE s # a
  BY <1>1, <1>2, SidesAre, LessAccounts
<1>3. CASE s = a
  <2> DEFINE k == Last(mStack[a]).seqno
  <2>1. /\ Last(mStack[a]) \in Requests /\ k \in Int /\ Other(a) \in Sides /\ RPCReply(k) \in RPCs
        /\ Last(mStack[a]) \in RPCs
    <3>1. Last(mStack[a]) = mStack[a][Len(mStack[a])] /\ Len(mStack[a]) \in Nat \ {0}
      BY <1>1, <1>3, FrontLast
    <3>2. Len(mStack[a]) \in 1 .. Len(mStack[a])
      BY <3>1
    <3>3. Last(mStack[a]) \in Requests
      BY <1>3, <3>1, <3>2 DEF Ordered
    <3> QED
      BY <3>3, MessagesAre, SidesAre
  <2>2. PICK n \in Int :
           \/ /\ n = k /\ k \in mOutOfTurnReplies[a]
              /\ mOutOfTurnReplies'[a] = mOutOfTurnReplies[a] \ {k}
           \/ /\ mOutOfTurnReplies'[a] = mOutOfTurnReplies[a]
              /\ ~OutOfTurn(a, n)
              /\ HeldBy(a, RPCReply(n))' + 1 <= HeldBy(a, RPCReply(n))
    <3>1. CASE /\ k \in mOutOfTurnReplies[a]
               /\ mOutOfTurnReplies'[a] = mOutOfTurnReplies[a] \ {k}
      BY Zenon, <2>1, <3>1
    <3>2. CASE \E n \in Int :
                  /\ mOutOfTurnReplies'[a] = mOutOfTurnReplies[a]
                  /\ ~OutOfTurn(a, n)
                  /\ HeldBy(a, RPCReply(n))' + 1 <= HeldBy(a, RPCReply(n))
      BY Zenon, <3>2
    <3> QED
      BY Zenon, <3>1, <3>2 DEF Gets
  <2>3. mOutOfTurnReplies'[a] \subseteq mOutOfTurnReplies[a]
    BY <2>2
  <2>4. \A i \in Int : Answers(a, i)' <= Answers(a, i)
    BY <1>1, <2>1, <2>3, AnswersFewer
  <2>5. Answers(a, n)' + 1 <= Answers(a, n)
    <3> DEFINE r == RunningOn(Other(a), n)
               r2 == RunningOn(Other(a), n)'
               h == HeldBy(a, RPCReply(n))
               h2 == HeldBy(a, RPCReply(n))'
               o == IF n \in mOutOfTurnReplies[a] THEN 1 ELSE 0
               o2 == IF n \in mOutOfTurnReplies'[a] THEN 1 ELSE 0
    <3>1. RPCReply(n) \in RPCs
      BY MessagesAre
    <3>2. r \in Nat /\ r2 \in Nat /\ h \in Nat /\ h2 \in Nat /\ o \in Nat /\ o2 \in Nat
      BY <2>1, <3>1 DEF Counts
    <3>3. r2 <= r /\ h2 <= h
      BY <1>1, <2>1, <3>1 DEF RunningLess, HeldLess
    <3>4. (o = 1 /\ o2 = 0) \/ (o2 = o /\ h2 + 1 <= h)
      BY <2>2
    <3>5. Answers(a, n) = r + h + o /\ Answers(a, n)' = r2 + h2 + o2
      BY DEF Answers
    <3> HIDE DEF r, r2, h, h2, o, o2
    <3> QED
      BY <3>2, <3>3, <3>4, <3>5
  <2>6. Answers(a, n) \in Nat /\ Answers(a, n)' \in Nat
    BY DEF Counts
  <2>7. n = k
    <3>1. CASE n = k
      BY <3>1
    <3>2. CASE ~OutOfTurn(a, n)
      <4>1. Answers(a, n) > 0
        BY <2>5, <2>6
      <4>2. Asked(mStack[a], n)
        BY <1>3, <4>1 DEF Accounts
      <4> QED
        BY <1>3, <3>2, <4>2, ReplyIsLast
    <3> QED
      BY <2>2, <3>1, <3>2
  <2>8. Answers(a, n) = 1 /\ Answers(a, n)' = 0 /\ HeldBy(Other(a), Last(mStack[a])) = 0
    <3> DEFINE x == HeldBy(Other(a), Last(mStack[a]))
               y == Answers(a, n)
               y2 == Answers(a, n)'
    <3>1. x + y <= 1
      BY <1>3, <2>1, <2>7 DEF Accounts
    <3>2. x \in Nat
      BY <2>1 DEF Counts
    <3>3. y \in Nat /\ y2 \in Nat /\ y2 + 1 <= y
      BY <2>5, <2>6
    <3> HIDE DEF x, y, y2
    <3>4. x = 0 /\ y = 1 /\ y2 = 0
      BY <3>1, <3>2, <3>3
    <3> QED
      BY <3>4 DEF x, y, y2
  <2>9. ASSUME NEW e \in Requests
        PROVE  /\ HeldBy(Other(a), e)' > 0 => Among(mStack'[a], e)
               /\ HeldBy(Other(a), e)' + Answers(a, e.seqno)' <= 1
    <3>1. e \in RPCs /\ e.seqno \in Int
      BY MessagesAre
    <3>2. /\ HeldBy(Other(a), e) \in Nat /\ HeldBy(Other(a), e)' \in Nat
          /\ Answers(a, e.seqno) \in Nat /\ Answers(a, e.seqno)' \in Nat
      BY <2>1, <3>1 DEF Counts
    <3>3. HeldBy(Other(a), e)' <= HeldBy(Other(a), e)
      BY <1>1, <2>1, <3>1 DEF HeldLess
    <3>4. Answers(a, e.seqno)' <= Answers(a, e.seqno)
      BY <2>4, <3>1
    <3>5. HeldBy(Other(a), e) + Answers(a, e.seqno) <= 1
      BY <1>3 DEF Accounts
    <3>6. HeldBy(Other(a), e)' + Answers(a, e.seqno)' <= 1
      BY <3>2, <3>3, <3>4, <3>5
    <3>7. ASSUME HeldBy(Other(a), e)' > 0
          PROVE  Among(mStack'[a], e)
      <4>1. HeldBy(Other(a), e) > 0
        BY <3>2, <3>3, <3>7
      <4>2. Among(mStack[a], e)
        BY <1>3, <4>1 DEF Accounts
      <4>3. e # Last(mStack[a])
        BY <2>8, <4>1
      <4> QED
        BY <1>1, <1>3, <4>2, <4>3, InFront
    <3> QED
      BY <3>6, <3>7
  <2>10. ASSUME NEW i \in Int, Answers(a, i)' > 0
         PROVE  Asked(mStack'[a], i)
    <3>1. Answers(a, i)' <= Answers(a, i) /\ Answers(a, i) \in Nat /\ Answers(a, i)' \in Nat
      BY <2>4 DEF Counts
    <3>2. Answers(a, i) > 0
      BY <2>10, <3>1
    <3>3. Asked(mStack[a], i)
      BY <1>3, <3>2 DEF Accounts
    <3>4. i # k
      BY <2>7, <2>8, <2>10
    <3> QED
      BY <1>1, <1>3, <3>3, <3>4, InFront
  <2> QED
    BY <1>3, <2>9, <2>10 DEF Accounts
<1> QED
  BY <1>2, <1>3

Booked == Base /\ \A s \in Sides : Ordered(s) /\ Accounts(s)

\* Each kind of step keeps the out-calls ordered and accounted for.
LEMMA BookedStep ==
    ASSUME Booked, Base', NEW a \in Sides, Effects(a)
    PROVE  Booked'
<1>1. Base /\ Counts /\ Counts'
  <2>1. Base /\ Counts
    BY CountsAre DEF Booked
  <2>2. Base' => Counts'
    BY CountsAre, PTL
  <2> QED
    BY <2>1, <2>2
<1>2. ASSUME NEW s \in Sides
      PROVE  Ordered(s)' /\ Accounts(s)'
  <2>1. Ordered(s) /\ Accounts(s) /\ mStack[s] \in Seq(Message) /\ mNextSeqno[s] \in Int
    BY <1>1, SideTyped DEF Booked, Base
  <2>2. Ordered(s)'
    BY <1>1, <2>1, OrderedStep
  <2>3. Accounts(s)'
    <3>1. CASE Passive
      BY <1>1, <2>1, <3>1, PassiveAccounts
    <3>2. CASE Begins(a)
      BY <1>1, <2>1, <3>2, BeginsAccounts
    <3>3. CASE Replies(a)
      BY <1>1, <2>1, <3>3, RepliesAccounts
    <3>4. CASE PutsAside(a)
      BY <1>1, <2>1, <3>4, PutsAsideAccounts
    <3>5. CASE Asks(a)
      BY <1>1, <2>1, <3>5, AsksAccounts
    <3>6. CASE Gets(a)
      BY <1>1, <2>1, <3>6, GetsAccounts
    <3> QED
      BY <3>1, <3>2, <3>3, <3>4, <3>5, <3>6 DEF Effects
  <2> QED
    BY <2>2, <2>3
<1> QED
  BY <1>2 DEF Booked

\* At first nothing is held or handled.
LEMMA InitIsEmpty ==
    ASSUME Init, NEW s \in Sides
    PROVE  /\ mStack[s] = <<>> /\ mOutOfTurnReplies[s] = {} /\ connected[s]
           /\ mPending[s] = <<>> /\ mDeferred[s] = <<>> /\ wire[s] = <<>> /\ frames[s] = <<>>
           /\ \A e : HeldBy(s, e) = 0
           /\ \A n : RunningOn(s, n) = 0 /\ Answers(s, n) = 0
<1>1. ASSUME NEW o \in Sides
      PROVE  /\ mStack[o] = <<>> /\ mOutOfTurnReplies[o] = {} /\ connected[o]
             /\ mPending[o] = <<>> /\ mDeferred[o] = <<>> /\ wire[o] = <<>> /\ frames[o] = <<>>
             /\ \A e : HeldBy(o, e) = 0
             /\ \A n : RunningOn(o, n) = 0
  <2>1. /\ mStack[o] = <<>> /\ mOutOfTurnReplies[o] = {} /\ connected[o]
        /\ mPending[o] = <<>> /\ mDeferred[o] = <<>> /\ wire[o] = <<>> /\ frames[o] = <<>>
    BY DEF Init
  <2>2. \A e : Occurrences(e, <<>>) = 0
    BY OccurrencesEmpty
  <2> QED
    BY <2>1, <2>2 DEF HeldBy, Held, RunningOn, Running
<1>2. ASSUME NEW n
      PROVE  Answers(s, n) = 0
  <2>1. RunningOn(Other(s), n) = 0 /\ HeldBy(s, RPCReply(n)) = 0 /\ n \notin mOutOfTurnReplies[s]
    BY <1>1, SidesAre
  <2> QED
    BY <2>1 DEF Answers
<1> QED
  BY <1>1, <1>2

\* At first no call is made.
LEMMA InitBooked ==
    ASSUME Init
    PROVE  Booked
<1>1. ASSUME NEW s \in Sides
      PROVE  Ordered(s) /\ Accounts(s)
  <2>1. mStack[s] = <<>> /\ Other(s) \in Sides
    BY InitIsEmpty, SidesAre
  <2>2. Ordered(s)
    BY <2>1 DEF Ordered
  <2>3. \A m \in Requests : HeldBy(Other(s), m) = 0
    BY <2>1, InitIsEmpty
  <2>4. \A n : Answers(s, n) = 0
    BY InitIsEmpty
  <2>5. Accounts(s)
    BY <2>3, <2>4 DEF Accounts
  <2> QED
    BY <2>2, <2>5
<1> QED
  BY <1>1, InitBase DEF Booked

\* The accounts are an invariant.
LEMMA BookedStays ==
    ASSUME Booked, [Next]_vars
    PROVE  Booked'
<1>1. CASE Next
  <2>1. Base
    BY DEF Booked
  <2>2. Base' /\ \E a \in Sides : Effects(a)
    BY <1>1, <2>1, StepEffects
  <2>3. PICK a \in Sides : Effects(a)
    BY <2>2
  <2> QED
    BY <2>2, <2>3, BookedStep
<1>2. CASE UNCHANGED vars
  <2>1. Base'
    BY <1>2, BaseStays DEF Booked
  <2>2. ASSUME NEW s \in Sides
        PROVE  Ordered(s)' /\ Accounts(s)'
    BY <1>2 DEF Booked, vars, Ordered, Accounts, Answers, HeldBy, RunningOn
  <2> QED
    BY <2>1, <2>2 DEF Booked
<1> QED
  BY <1>1, <1>2

\* A reply that is pending or was put aside answers a call that is still made.
LEMMA RepliesAsked ==
    ASSUME Booked, NEW s \in Sides, NEW n \in Int,
           HeldBy(s, RPCReply(n)) > 0 \/ n \in mOutOfTurnReplies[s] \/ RunningOn(Other(s), n) > 0
    PROVE  Asked(mStack[s], n)
<1> DEFINE r == RunningOn(Other(s), n)
           h == HeldBy(s, RPCReply(n))
           o == IF n \in mOutOfTurnReplies[s] THEN 1 ELSE 0
<1>1. Counts
  BY CountsAre DEF Booked
<1>2. r \in Nat /\ h \in Nat /\ o \in Nat
  BY <1>1, SidesAre, MessagesAre DEF Counts
<1>3. Answers(s, n) = r + h + o
  BY DEF Answers
<1>4. h > 0 \/ o = 1 \/ r > 0
  OBVIOUS
<1> HIDE DEF r, h, o
<1>5. Answers(s, n) > 0
  BY <1>2, <1>3, <1>4
<1> QED
  BY <1>5 DEF Booked, Accounts

\* What is at the head of the queue is held.
LEMMA HeadIsHeld ==
    ASSUME TypeOK, NEW s \in Sides, mPending[s] # <<>>, Head(mPending[s]) \in RPCs
    PROVE  HeldBy(s, Head(mPending[s])) > 0
<1> DEFINE e == Head(mPending[s])
<1>1. /\ mPending[s] \in Seq(Message) /\ wire[s] \in Seq(Message) /\ mDeferred[s] \in Seq(Message)
  BY SideTyped
<1>2. /\ Occurrences(e, wire[s]) \in Nat /\ Occurrences(e, mPending[s]) \in Nat
      /\ Occurrences(e, mDeferred[s]) \in Nat
  BY <1>1, HeldType
<1>3. Occurrences(e, mPending[s]) > 0
  <2>1. mPending[s][1] = e /\ 1 \in DOMAIN mPending[s]
    BY <1>1, EmptySeq, LenProperties, HeadTailProperties
  <2>2. Occurrences(e, mPending[s]) # 0
    BY <1>1, <2>1, OccurrencesType
  <2> QED
    BY <1>2, <2>2
<1> QED
  BY <1>2, <1>3 DEF HeldBy, Held

\* A reply that Call takes and that is not out of turn answers the innermost
\* out-call (RPCChannel.cpp:244-249).
THEOREM RepliesMatchCalls == Spec => []ReplyMatches
<1>1. Booked => ReplyMatches
  <2> SUFFICES ASSUME Booked, NEW s \in Sides, At(s) = "callwait", mPending[s] # <<>>,
                      Head(mPending[s]).kind = "rpc", Head(mPending[s]).reply,
                      ~OutOfTurn(s, Head(mPending[s]).seqno)
               PROVE  Head(mPending[s]).seqno = Last(mStack[s]).seqno
    BY DEF ReplyMatches
  <2> DEFINE e == Head(mPending[s])
  <2>1. TypeOK /\ mPending[s] \in Seq(Message) /\ mStack[s] \in Seq(Message) /\ Ordered(s)
    BY SideTyped DEF Booked, Base
  <2>2. e \in Message
    BY <2>1, HeadTailProperties
  <2>3. e \in RPCs /\ e \notin Requests
    BY <2>2 DEF RPCs, Requests
  <2>4. e.seqno \in Int /\ e = RPCReply(e.seqno)
    BY <2>2, <2>3, MessagesAre
  <2>5. HeldBy(s, e) > 0
    BY <2>1, <2>3, HeadIsHeld
  <2>6. PICK n \in Int : n = e.seqno /\ e = RPCReply(n)
    BY <2>4
  <2>7. Asked(mStack[s], n)
    BY <2>5, <2>6, RepliesAsked
  <2> QED
    BY <2>1, <2>6, <2>7, ReplyIsLast
<1> QED
  BY <1>1, InitBooked, BookedStays, PTL DEF Spec

\* A reply put aside belongs to a call that is still made, so no Call ends with
\* replies left over and no call to match them (RPCChannel.cpp:260-265).
THEOREM RepliesAsideBelong == Spec => []OutOfTurnBelongs
<1>1. Booked => OutOfTurnBelongs
  <2> SUFFICES ASSUME Booked, NEW s \in Sides, NEW n \in mOutOfTurnReplies[s]
               PROVE  \E i \in DOMAIN mStack[s] : n = mStack[s][i].seqno
    BY DEF OutOfTurnBelongs
  <2>1. n \in Int
    BY SideTyped DEF Booked, Base
  <2>2. Asked(mStack[s], n)
    BY <2>1, RepliesAsked
  <2> QED
    BY <2>2 DEF Asked
<1> QED
  BY <1>1, InitBooked, BookedStays, PTL DEF Spec

-----------------------------------------------------------------------------
(***************************************************************************)
(* What a side believes of the other's stack when it asks: as many calls   *)
(* as it handles.                                                          *)
(***************************************************************************)

\* What occurs at most once has one place.
LEMMA OnePlace ==
    ASSUME NEW S, NEW q \in Seq(S), NEW e, Occurrences(e, q) <= 1,
           NEW i \in DOMAIN q, NEW j \in DOMAIN q, q[i] = e, q[j] = e
    PROVE  i = j
<1> DEFINE K == {k \in DOMAIN q : q[k] = e}
<1>1. IsFiniteSet(K) /\ Cardinality(K) \in Nat /\ Cardinality(K) <= 1
  <2>1. IsFiniteSet(K) /\ Occurrences(e, q) \in Nat
    BY OccurrencesType
  <2>2. Occurrences(e, q) = Cardinality(K)
    BY DEF Occurrences
  <2> HIDE DEF K
  <2> QED
    BY <2>1, <2>2
<1> DEFINE L == {i} \cup {j}
<1>2. L \subseteq K
  OBVIOUS
<1> HIDE DEF K
<1>3. SUFFICES ASSUME i # j
               PROVE  FALSE
  OBVIOUS
<1>4. IsFiniteSet({i}) /\ Cardinality({i}) = 1
  BY FS_Singleton
<1>5. Cardinality(L) = Cardinality({i}) + 1
  BY <1>3, <1>4, FS_AddElement
<1>6. Cardinality(L) <= Cardinality(K)
  BY <1>1, <1>2, FS_Subset
<1> HIDE DEF L
<1> QED
  BY <1>1, <1>4, <1>5, <1>6

\* The frames that handle in-calls.
LEMMA HandlersAre ==
    ASSUME NEW f \in Stacks
    PROVE  LET I == {k \in DOMAIN Ats(f) : Ats(f)[k] = "incall"}
           IN  /\ IsFiniteSet(I) /\ Handled(f) = Cardinality(I) /\ Cardinality(I) \in Nat
               /\ \A k \in I : /\ k \in DOMAIN f /\ k \in 1 .. Len(f) /\ f[k].seqno \in Int
                               /\ f[k] = Frame("incall", f[k].seqno)
                               /\ Running(f, f[k].seqno) # 0
               /\ \A k \in DOMAIN f, c \in Int : f[k] = Frame("incall", c) => k \in I
<1> DEFINE I == {k \in DOMAIN Ats(f) : Ats(f)[k] = "incall"}
<1>1. /\ DOMAIN f = 1 .. Len(f) /\ Len(f) \in Nat
      /\ \A k \in 1 .. Len(f) : f[k] \in FrameRec /\ f[k].seqno \in Int
  BY StackIs
<1>2. DOMAIN Ats(f) = DOMAIN f /\ \A k \in DOMAIN f : Ats(f)[k] = f[k].at
  BY DEF Ats
<1>3. IsFiniteSet(1 .. Len(f)) /\ I \subseteq 1 .. Len(f)
  BY <1>1, <1>2, FS_Interval
<1>4. IsFiniteSet(I) /\ Cardinality(I) \in Nat
  BY <1>3, FS_Subset, FS_CardinalityType
<1>5. Handled(f) = Cardinality(I)
  BY DEF Handled, Occurrences
<1>6. ASSUME NEW k \in I
      PROVE  /\ k \in DOMAIN f /\ k \in 1 .. Len(f) /\ f[k].seqno \in Int
             /\ f[k] = Frame("incall", f[k].seqno)
             /\ Running(f, f[k].seqno) # 0
  <2>1. k \in 1 .. Len(f) /\ f[k] \in FrameRec /\ f[k].at = "incall" /\ f[k].seqno \in Int
    BY <1>1, <1>2, <1>3
  <2>2. f[k] = Frame("incall", f[k].seqno)
    BY <2>1 DEF FrameRec, Frame
  <2>3. Running(f, f[k].seqno) # 0
    BY <2>1, <2>2, StackIs
  <2> QED
    BY <1>1, <2>1, <2>2, <2>3
<1>7. ASSUME NEW k \in DOMAIN f, NEW c \in Int, f[k] = Frame("incall", c)
      PROVE  k \in I
  BY <1>2, <1>7 DEF Frame
<1> QED
  BY <1>4, <1>5, <1>6, <1>7

\* In-calls that differ are handled, so the handlers count them.
LEMMA HandledCalls ==
    ASSUME NEW f \in Stacks, \A c \in Int : Running(f, c) <= 1
    PROVE  LET C == {c \in Int : Running(f, c) > 0}
           IN  IsFiniteSet(C) /\ Cardinality(C) = Handled(f)
<1> DEFINE C == {c \in Int : Running(f, c) > 0}
           I == {k \in DOMAIN Ats(f) : Ats(f)[k] = "incall"}
           h == [k \in I |-> f[k].seqno]
<1>1. /\ IsFiniteSet(I) /\ Handled(f) = Cardinality(I)
      /\ \A k \in I : /\ k \in DOMAIN f /\ f[k].seqno \in Int
                      /\ f[k] = Frame("incall", f[k].seqno)
                      /\ Running(f, f[k].seqno) # 0
      /\ \A k \in DOMAIN f, c \in Int : f[k] = Frame("incall", c) => k \in I
  BY HandlersAre
<1>2. /\ DOMAIN f = 1 .. Len(f)
      /\ \A c \in Int : /\ Running(f, c) \in Nat
                        /\ Running(f, c) = 0 <=> \A i \in 1 .. Len(f) : f[i] # Frame("incall", c)
  BY StackIs
<1> HIDE DEF I
<1>3. h \in [I -> C]
  <2> SUFFICES ASSUME NEW k \in I
               PROVE  f[k].seqno \in C
    OBVIOUS
  <2>1. PICK c \in Int : c = f[k].seqno /\ Running(f, c) # 0
    BY <1>1
  <2>2. Running(f, c) \in Nat
    BY <1>2, <2>1
  <2>3. c \in C
    BY <2>1, <2>2
  <2> HIDE DEF C
  <2> QED
    BY <2>1, <2>3
<1>4. \A c \in C : \E k \in I : h[k] = c
  <2> SUFFICES ASSUME NEW c \in C
               PROVE  \E k \in I : h[k] = c
    OBVIOUS
  <2>1. c \in Int /\ Running(f, c) # 0
    BY <1>2
  <2>2. PICK k \in 1 .. Len(f) : f[k] = Frame("incall", c)
    BY <1>2, <2>1
  <2>3. k \in I
    BY <1>1, <1>2, <2>1, <2>2
  <2>4. f[k].seqno = c
    BY <2>2 DEF Frame
  <2> QED
    BY <2>3, <2>4
<1>5. \A k, l \in I : h[k] = h[l] => k = l
  <2> SUFFICES ASSUME NEW k \in I, NEW l \in I, f[k].seqno = f[l].seqno
               PROVE  k = l
    OBVIOUS
  <2>1. f \in Seq(FrameRec) /\ f[k] = f[l] /\ k \in DOMAIN f /\ l \in DOMAIN f
    BY <1>1 DEF Stacks
  <2>2. Occurrences(f[k], f) <= 1
    BY <1>1 DEF Running
  <2> QED
    BY <2>1, <2>2, OnePlace
<1> HIDE DEF C, h
<1>6. h \in Surjection(I, C)
  BY <1>3, <1>4 DEF Surjection
<1>7. h \in Injection(I, C)
  BY <1>3, <1>5 DEF Injection, IsInjective
<1>8. IsFiniteSet(C) /\ Cardinality(C) = Cardinality(I)
  BY <1>1, <1>6, <1>7, FS_Surjection
<1> QED
  BY <1>1, <1>8 DEF C

\* A stack that handles in-calls handles one with some seqno.
LEMMA SomeHandled ==
    ASSUME NEW f \in Stacks, Handled(f) # 0
    PROVE  \E c \in Int : Running(f, c) > 0
<1> DEFINE I == {k \in DOMAIN Ats(f) : Ats(f)[k] = "incall"}
<1>1. /\ IsFiniteSet(I) /\ Handled(f) = Cardinality(I)
      /\ \A k \in I : f[k].seqno \in Int /\ Running(f, f[k].seqno) # 0
  BY HandlersAre
<1> HIDE DEF I
<1>2. I # {}
  BY <1>1, FS_EmptySet
<1>3. PICK k \in I : TRUE
  BY <1>2
<1>4. f[k].seqno \in Int /\ Running(f, f[k].seqno) > 0
  BY <1>1, <1>3, StackIs
<1> QED
  BY <1>4

\* No more seqnos than out-calls.
LEMMA SeqnosOf ==
    ASSUME NEW q \in Seq(Message), NEW C, \A c \in C : Asked(q, c)
    PROVE  IsFiniteSet(C) /\ Cardinality(C) \in Nat /\ Cardinality(C) <= Len(q)
<1> DEFINE Q == {q[i].seqno : i \in DOMAIN q}
           h == [i \in DOMAIN q |-> q[i].seqno]
<1>1. DOMAIN q = 1 .. Len(q) /\ Len(q) \in Nat
  BY LenProperties
<1>2. IsFiniteSet(DOMAIN q) /\ Cardinality(DOMAIN q) = Len(q)
  <2>1. IsFiniteSet(1 .. Len(q)) /\ Cardinality(1 .. Len(q)) = IF 1 > Len(q) THEN 0 ELSE Len(q) - 1 + 1
    BY <1>1, FS_Interval
  <2> DEFINE N == Len(q)
  <2>2. N \in Nat /\ Cardinality(1 .. N) = IF 1 > N THEN 0 ELSE N - 1 + 1
    BY <1>1, <2>1
  <2> HIDE DEF N
  <2>3. Cardinality(1 .. N) = N
    BY <2>2
  <2> QED
    BY <1>1, <2>1, <2>3 DEF N
<1>3. h \in Surjection(DOMAIN q, Q)
  BY DEF Surjection
<1>4. C \subseteq Q
  BY DEF Asked
<1> HIDE DEF Q, h
<1>5. IsFiniteSet(Q) /\ Cardinality(Q) <= Cardinality(DOMAIN q)
  BY <1>2, <1>3, FS_Surjection
<1>6. /\ IsFiniteSet(C) /\ Cardinality(C) <= Cardinality(Q)
      /\ Cardinality(C) \in Nat /\ Cardinality(Q) \in Nat
  BY <1>4, <1>5, FS_Subset, FS_CardinalityType
<1> QED
  BY <1>1, <1>2, <1>5, <1>6

\* The in-calls that side s has deferred.
Deferring(s, c) == Asked(mDeferred[s], c)

\* The calls of side s that the call m, which s holds, counts on: none is
\* answered before m is.
CountedOn(s, m, C) ==
    /\ IsFiniteSet(C) /\ Cardinality(C) = m.guess
    /\ \A c \in C : /\ c \in Int /\ Asked(mStack[s], c)
                    /\ c \notin mOutOfTurnReplies[s] /\ HeldBy(s, RPCReply(c)) = 0
                    /\ connected[Other(s)] => \/ Below(frames[Other(s)], c, m.seqno)
                                              \/ Deferring(Other(s), c)

\* What each call that is held counts on, D[s][m] for the call m that side s holds ...
Guesses == [Sides -> [Requests -> SUBSET Int]]
Guessing(D) == \A s \in Sides : \A m \in Requests :
    HeldBy(s, m) > 0 => CountedOn(s, m, D[s][m])

\* ... and of two calls that wait to be handled, one on each side, not both count on
\* the other.
Apart(D) == \A s \in Sides : \A m, e \in Requests :
    HeldBy(s, m) > 0 /\ HeldBy(Other(s), e) > 0
       => ~(e.seqno \in D[s][m] /\ m.seqno \in D[Other(s)][e])

Guessed == \E D \in Guesses : Guessing(D) /\ Apart(D)

\* No call of C that the other side of s defers is undeferred.
StayDeferred(s, C) == connected'[Other(s)] =>
    \A c \in C : Deferring(Other(s), c) => Deferring(Other(s), c)'

\* A side undefers at most its last call, when it must.
DefersOn(s) == \A c \in Int : Deferring(s, c) =>
    Deferring(s, c)' \/ (MustUndefer(s) /\ c = Last(mDeferred[s]).seqno)

\* The stack of out-calls is no deeper than the C++ stack may be.
Shallow(s) == Len(mStack[s]) <= MaxFrames

\* Each call is handled or answered at most once.
LEMMA OnceAnswered ==
    ASSUME Booked, NEW s \in Sides, NEW n \in Int
    PROVE  /\ RunningOn(Other(s), n) \in Nat /\ HeldBy(s, RPCReply(n)) \in Nat
           /\ RunningOn(Other(s), n) <= 1
           /\ RunningOn(Other(s), n) > 0 =>
                 HeldBy(s, RPCReply(n)) = 0 /\ n \notin mOutOfTurnReplies[s]
           /\ \A m \in Requests : HeldBy(Other(s), m) > 0 /\ m.seqno = n =>
                 /\ HeldBy(s, RPCReply(n)) = 0 /\ n \notin mOutOfTurnReplies[s]
                 /\ RunningOn(Other(s), n) = 0
<1> DEFINE r == RunningOn(Other(s), n)
           h == HeldBy(s, RPCReply(n))
           o == IF n \in mOutOfTurnReplies[s] THEN 1 ELSE 0
<1>1. Counts /\ Other(s) \in Sides
  BY CountsAre, SidesAre DEF Booked
<1>2. r \in Nat /\ h \in Nat /\ o \in Nat
  BY <1>1, MessagesAre DEF Counts
<1>3. Answers(s, n) = r + h + o
  BY DEF Answers
<1>4. \A m \in Requests : m.seqno = n => HeldBy(Other(s), m) + (r + h + o) <= 1
  BY <1>3 DEF Booked, Accounts
<1>5. \A m \in Requests : HeldBy(Other(s), m) \in Nat
  BY <1>1, MessagesAre DEF Counts
<1>6. RPC(n, 0) \in Requests /\ RPC(n, 0).seqno = n
  BY MessagesAre
<1>7. o = 0 <=> n \notin mOutOfTurnReplies[s]
  OBVIOUS
<1> HIDE DEF r, h, o
<1>8. r + h + o <= 1
  <2>1. PICK x \in Nat : x + (r + h + o) <= 1
    BY <1>4, <1>5, <1>6
  <2> QED
    BY <1>2, <2>1
<1>9. r <= 1 /\ (r > 0 => h = 0 /\ o = 0)
  BY <1>2, <1>8
<1>10. \A m \in Requests : HeldBy(Other(s), m) > 0 /\ m.seqno = n => h = 0 /\ o = 0 /\ r = 0
  <2> SUFFICES ASSUME NEW m \in Requests, HeldBy(Other(s), m) > 0, m.seqno = n
               PROVE  h = 0 /\ o = 0 /\ r = 0
    OBVIOUS
  <2>1. PICK x \in Nat : x > 0 /\ x + (r + h + o) <= 1
    BY <1>4, <1>5
  <2> QED
    BY <1>2, <2>1
<1> QED
  BY <1>2, <1>7, <1>9, <1>10 DEF r, h, o

\* The call that returns had its reply pending or put aside.
LEMMA GetsLast ==
    ASSUME Booked, Counts', NEW a \in Sides, Gets(a)
    PROVE  \E n \in Int :
              /\ n = Last(mStack[a]).seqno
              /\ \/ /\ n \in mOutOfTurnReplies[a]
                    /\ mOutOfTurnReplies'[a] = mOutOfTurnReplies[a] \ {n}
                 \/ /\ HeldBy(a, RPCReply(n)) > 0
                    /\ mOutOfTurnReplies'[a] = mOutOfTurnReplies[a]
<1> DEFINE k == Last(mStack[a]).seqno
<1>1. TypeOK /\ Ordered(a) /\ mStack[a] \in Seq(Message) /\ mOutOfTurnReplies[a] \in SUBSET Int
  BY SideTyped DEF Booked, Base
<1>2. \/ /\ k \in mOutOfTurnReplies[a]
         /\ mOutOfTurnReplies'[a] = mOutOfTurnReplies[a] \ {k}
      \/ \E n \in Int :
            /\ mOutOfTurnReplies'[a] = mOutOfTurnReplies[a]
            /\ ~OutOfTurn(a, n)
            /\ HeldBy(a, RPCReply(n))' + 1 <= HeldBy(a, RPCReply(n))
  BY Zenon DEF Gets
<1>3. CASE /\ k \in mOutOfTurnReplies[a]
           /\ mOutOfTurnReplies'[a] = mOutOfTurnReplies[a] \ {k}
  <2>1. k \in Int
    BY <1>1, <1>3
  <2> QED
    BY Zenon, <1>3, <2>1
<1>4. CASE \E n \in Int :
              /\ mOutOfTurnReplies'[a] = mOutOfTurnReplies[a]
              /\ ~OutOfTurn(a, n)
              /\ HeldBy(a, RPCReply(n))' + 1 <= HeldBy(a, RPCReply(n))
  <2>1. PICK n \in Int :
            /\ mOutOfTurnReplies'[a] = mOutOfTurnReplies[a]
            /\ ~OutOfTurn(a, n)
            /\ HeldBy(a, RPCReply(n))' + 1 <= HeldBy(a, RPCReply(n))
    BY <1>4
  <2>2. HeldBy(a, RPCReply(n)) > 0
    <3> DEFINE h == HeldBy(a, RPCReply(n))
               h2 == HeldBy(a, RPCReply(n))'
    <3>1. h \in Nat /\ h2 + 1 <= h
      BY <2>1, OnceAnswered
    <3>2. h2 \in Nat
      BY MessagesAre DEF Counts
    <3> HIDE DEF h, h2
    <3>3. h > 0
      BY <3>1, <3>2
    <3> QED
      BY <3>3 DEF h
  <2>3. n = k
    BY <1>1, <2>1, <2>2, RepliesAsked, ReplyIsLast
  <2> QED
    BY Zenon, <2>1, <2>2, <2>3
<1> QED
  BY Zenon, <1>2, <1>3, <1>4

\* Messages of different seqnos are as many as their seqnos.
LEMMA SeqnosCounted ==
    ASSUME NEW q \in Seq(Message),
           \A i, j \in 1 .. Len(q) : q[i].seqno = q[j].seqno => i = j
    PROVE  LET Q == {n \in Int : Asked(q, n)}
           IN  IsFiniteSet(Q) /\ Cardinality(Q) = Len(q)
<1> DEFINE Q == {n \in Int : Asked(q, n)}
           D == 1 .. Len(q)
           h == [i \in D |-> q[i].seqno]
<1>1. DOMAIN q = D /\ Len(q) \in Nat /\ \A i \in D : q[i].seqno \in Int
  <2>1. DOMAIN q = D /\ Len(q) \in Nat /\ \A i \in D : q[i] \in Message
    BY LenProperties, ElementOfSeq
  <2> QED
    BY <2>1, MessagesAre
<1>2. IsFiniteSet(D) /\ Cardinality(D) = Len(q)
  <2> DEFINE n == Len(q)
  <2>1. n \in Nat /\ IsFiniteSet(1 .. n)
        /\ Cardinality(1 .. n) = IF 1 > n THEN 0 ELSE n - 1 + 1
    BY <1>1, FS_Interval
  <2> HIDE DEF n
  <2>2. Cardinality(1 .. n) = n
    BY <2>1
  <2> QED
    BY <2>1, <2>2 DEF n
<1>3. h \in [D -> Q] /\ \A n \in Q : \E i \in D : h[i] = n
  BY <1>1 DEF Asked
<1>4. \A i, j \in D : h[i] = h[j] => i = j
  OBVIOUS
<1> HIDE DEF Q, h, D
<1>5. h \in Surjection(D, Q) /\ h \in Injection(D, Q)
  BY <1>3, <1>4 DEF Surjection, Injection, IsInjective
<1>6. IsFiniteSet(Q) /\ Cardinality(Q) = Len(q)
  BY <1>2, <1>5, FS_Surjection
<1> QED
  BY <1>6 DEF Q

\* A deferred in-call is a call of the other side that is held.
LEMMA DeferredAre ==
    ASSUME Booked, NEW a \in Sides, NEW i \in 1 .. Len(mDeferred[a])
    PROVE  /\ mDeferred[a][i] \in Requests /\ HeldBy(a, mDeferred[a][i]) > 0
           /\ Occurrences(mDeferred[a][i], mDeferred[a]) <= 1
           /\ Among(mStack[Other(a)], mDeferred[a][i])
<1> DEFINE e == mDeferred[a][i]
           s == Other(a)
<1>1. TypeOK /\ SideSound(a) /\ s \in Sides /\ Other(s) = a
  BY SidesAre DEF Booked, Base
<1>2. mPending[a] \in Seq(Message) /\ mDeferred[a] \in Seq(Message) /\ wire[a] \in Seq(Message)
  BY <1>1, SideTyped
<1>3. e \in Requests
  BY <1>1 DEF SideSound, Sound
<1>4. /\ Occurrences(e, wire[a]) \in Nat /\ Occurrences(e, mPending[a]) \in Nat
      /\ Occurrences(e, mDeferred[a]) \in Nat
  BY <1>2, HeldType
<1>5. Occurrences(e, mDeferred[a]) # 0
  <2>1. i \in DOMAIN mDeferred[a]
    BY <1>2, LenProperties
  <2> QED
    BY <1>2, <2>1, OccurrencesType
<1> HIDE DEF e, s
<1>6. HeldBy(a, e) > 0 /\ Occurrences(e, mDeferred[a]) <= HeldBy(a, e) /\ HeldBy(a, e) \in Nat
  BY <1>4, <1>5 DEF HeldBy, Held
<1>7. Among(mStack[s], e)
  BY <1>1, <1>3, <1>6 DEF Booked, Accounts
<1>8. HeldBy(a, e) <= 1
  <2>1. HeldBy(a, e) + Answers(s, e.seqno) <= 1
    BY <1>1, <1>3 DEF Booked, Accounts
  <2>2. Answers(s, e.seqno) \in Nat
    BY <1>1, <1>3, CountsAre, MessagesAre DEF Booked, Counts
  <2> QED
    BY <1>6, <2>1, <2>2
<1>9. Occurrences(e, mDeferred[a]) <= 1
  BY <1>4, <1>6, <1>8
<1> QED
  BY <1>3, <1>6, <1>7, <1>9 DEF e, s

\* What is deferred is neither handled nor answered.
LEMMA DeferredWaits ==
    ASSUME Booked, NEW a \in Sides, NEW c \in Int, Deferring(a, c)
    PROVE  /\ ~(RunningOn(a, c) > 0)
           /\ Asked(mStack[Other(a)], c) /\ c \notin mOutOfTurnReplies[Other(a)]
           /\ HeldBy(Other(a), RPCReply(c)) = 0
<1>1. Other(a) \in Sides /\ Other(Other(a)) = a /\ mDeferred[a] \in Seq(Message)
  BY SidesAre, SideTyped DEF Booked, Base
<1>2. PICK i \in 1 .. Len(mDeferred[a]) : mDeferred[a][i].seqno = c
  BY <1>1, LenProperties DEF Deferring, Asked
<1>3. PICK e \in Requests : /\ e = mDeferred[a][i] /\ e.seqno = c /\ HeldBy(a, e) > 0
                            /\ Among(mStack[Other(a)], e)
  BY <1>2, DeferredAre
<1>4. /\ HeldBy(Other(a), RPCReply(c)) = 0 /\ c \notin mOutOfTurnReplies[Other(a)]
      /\ RunningOn(a, c) = 0
  BY <1>1, <1>3, OnceAnswered
<1>5. Asked(mStack[Other(a)], c)
  BY <1>3 DEF Among, Asked
<1> QED
  BY <1>4, <1>5

\* The deferred in-calls are as many as their seqnos.
LEMMA DeferredCalls ==
    ASSUME Booked, NEW a \in Sides
    PROVE  LET X == {c \in Int : Deferring(a, c)}
           IN  IsFiniteSet(X) /\ Cardinality(X) = Len(mDeferred[a])
<1> DEFINE q == mDeferred[a]
<1>1. /\ Other(a) \in Sides /\ q \in Seq(Message) /\ Ordered(Other(a))
      /\ mStack[Other(a)] \in Seq(Message) /\ DOMAIN q = 1 .. Len(q)
  BY SidesAre, SideTyped, LenProperties DEF Booked, Base
<1>2. ASSUME NEW i \in 1 .. Len(q), NEW j \in 1 .. Len(q), q[i].seqno = q[j].seqno
      PROVE  i = j
  <2>1. Among(mStack[Other(a)], q[i]) /\ Among(mStack[Other(a)], q[j])
    BY DeferredAre
  <2>2. q[i] = q[j]
    BY <1>1, <1>2, <2>1, OneCallEach
  <2>3. Occurrences(q[i], q) <= 1
    BY DeferredAre
  <2> QED
    BY <1>1, <2>2, <2>3, OnePlace
<1> HIDE DEF q
<1>3. IsFiniteSet({n \in Int : Asked(q, n)}) /\ Cardinality({n \in Int : Asked(q, n)}) = Len(q)
  BY <1>1, <1>2, SeqnosCounted
<1> QED
  BY <1>3 DEF q, Deferring

\* A call counts on the same calls as long as none of them is answered.
LEMMA StillCounted ==
    ASSUME NEW s \in Sides, NEW m, NEW C, CountedOn(s, m, C),
           \A c \in C : Asked(mStack'[s], c) /\ c \notin mOutOfTurnReplies'[s],
           \A c \in C : HeldBy(s, RPCReply(c))' = 0,
           connected'[Other(s)] =>
              /\ connected[Other(s)]
              /\ \A c \in C : Below(frames[Other(s)], c, m.seqno)
                                 => Below(frames'[Other(s)], c, m.seqno),
           StayDeferred(s, C)
    PROVE  CountedOn(s, m, C)'
BY DEF CountedOn, StayDeferred

\* A step that brings side s no reply and takes it no out-call.
LEMMA CountedPlain ==
    ASSUME Counts, Counts', NEW s \in Sides, NEW m \in Requests, NEW C, CountedOn(s, m, C),
           HeldLess(s), BelowKept(Other(s)),
           \A n : Asked(mStack[s], n) => Asked(mStack'[s], n),
           mOutOfTurnReplies'[s] = mOutOfTurnReplies[s],
           StayDeferred(s, C)
    PROVE  CountedOn(s, m, C)'
<1>1. \A e \in RPCs : HeldBy(s, e) \in Nat /\ HeldBy(s, e)' \in Nat /\ HeldBy(s, e)' <= HeldBy(s, e)
  BY DEF Counts, HeldLess
<1>2. ASSUME NEW c \in C
      PROVE  /\ Asked(mStack'[s], c) /\ c \notin mOutOfTurnReplies'[s]
             /\ HeldBy(s, RPCReply(c))' = 0
  <2>1. /\ c \in Int /\ Asked(mStack[s], c) /\ c \notin mOutOfTurnReplies[s]
        /\ HeldBy(s, RPCReply(c)) = 0
    BY DEF CountedOn
  <2>2. RPCReply(c) \in RPCs
    BY <2>1, MessagesAre
  <2> QED
    BY <1>1, <2>1, <2>2
<1>3. connected'[Other(s)] =>
         /\ connected[Other(s)]
         /\ \A c \in C : Below(frames[Other(s)], c, m.seqno)
                            => Below(frames'[Other(s)], c, m.seqno)
  <2>1. m.seqno \in Int /\ \A c \in C : c \in Int
    BY MessagesAre DEF CountedOn
  <2> QED
    BY <2>1 DEF BelowKept, KeepsBelow
<1> QED
  BY <1>2, <1>3, StillCounted

\* A reply that side s puts aside is none that is counted on.
LEMMA CountedAside ==
    ASSUME Counts, Counts', NEW s \in Sides, NEW m \in Requests, NEW C, CountedOn(s, m, C),
           PutsAside(s),
           StayDeferred(s, C)
    PROVE  CountedOn(s, m, C)'
<1>1. mStack' = mStack /\ \A o \in Sides : HeldLess(o) /\ BelowKept(o)
  BY Zenon DEF PutsAside, CallsSame
<1>2. \A e \in RPCs : HeldBy(s, e) \in Nat /\ HeldBy(s, e)' \in Nat /\ HeldBy(s, e)' <= HeldBy(s, e)
  BY <1>1 DEF Counts, HeldLess
<1>3. PICK n \in Int : /\ mOutOfTurnReplies'[s] = mOutOfTurnReplies[s] \cup {n}
                       /\ HeldBy(s, RPCReply(n))' + 1 <= HeldBy(s, RPCReply(n))
  BY Zenon DEF PutsAside
<1>4. ASSUME NEW c \in C
      PROVE  /\ Asked(mStack'[s], c) /\ c \notin mOutOfTurnReplies'[s]
             /\ HeldBy(s, RPCReply(c))' = 0
  <2>1. /\ c \in Int /\ Asked(mStack[s], c) /\ c \notin mOutOfTurnReplies[s]
        /\ HeldBy(s, RPCReply(c)) = 0
    BY DEF CountedOn
  <2>2. RPCReply(c) \in RPCs /\ RPCReply(n) \in RPCs
    BY <2>1, MessagesAre
  <2>3. c # n
    <3>1. HeldBy(s, RPCReply(n)) # 0
      BY <1>2, <1>3, <2>2
    <3> QED
      BY <2>1, <3>1
  <2>4. HeldBy(s, RPCReply(c))' = 0
    BY <1>2, <2>1, <2>2
  <2> QED
    BY <1>1, <1>3, <2>1, <2>3, <2>4
<1>5. connected'[Other(s)] =>
         /\ connected[Other(s)]
         /\ \A c \in C : Below(frames[Other(s)], c, m.seqno)
                            => Below(frames'[Other(s)], c, m.seqno)
  <2>1. m.seqno \in Int /\ \A c \in C : c \in Int
    BY MessagesAre DEF CountedOn
  <2> QED
    BY <1>1, <2>1, SidesAre DEF BelowKept, KeepsBelow
<1> QED
  BY <1>4, <1>5, StillCounted

\* The call that returns to side s is none that is counted on.
LEMMA CountedReturns ==
    ASSUME Booked, Counts, Counts', NEW s \in Sides, NEW m \in Requests, NEW C,
           CountedOn(s, m, C), Gets(s),
           StayDeferred(s, C)
    PROVE  CountedOn(s, m, C)'
<1>1. /\ HeldLess(s) /\ BelowKept(Other(s))
      /\ mStack[s] # <<>> /\ mStack'[s] = Front(mStack[s])
  BY Zenon DEF Gets
<1>2. \A e \in RPCs : HeldBy(s, e) \in Nat /\ HeldBy(s, e)' \in Nat /\ HeldBy(s, e)' <= HeldBy(s, e)
  BY <1>1 DEF Counts, HeldLess
<1>3. PICK n \in Int :
         /\ n = Last(mStack[s]).seqno
         /\ \/ /\ n \in mOutOfTurnReplies[s]
               /\ mOutOfTurnReplies'[s] = mOutOfTurnReplies[s] \ {n}
            \/ /\ HeldBy(s, RPCReply(n)) > 0
               /\ mOutOfTurnReplies'[s] = mOutOfTurnReplies[s]
  BY Zenon, GetsLast
<1>4. ASSUME NEW c \in C
      PROVE  /\ Asked(mStack'[s], c) /\ c \notin mOutOfTurnReplies'[s]
             /\ HeldBy(s, RPCReply(c))' = 0
  <2>1. /\ c \in Int /\ Asked(mStack[s], c) /\ c \notin mOutOfTurnReplies[s]
        /\ HeldBy(s, RPCReply(c)) = 0
    BY DEF CountedOn
  <2>2. RPCReply(c) \in RPCs
    BY <2>1, MessagesAre
  <2>3. c # n
    BY <1>3, <2>1
  <2>4. HeldBy(s, RPCReply(c))' = 0
    BY <1>2, <2>1, <2>2
  <2>5. mStack[s] \in Seq(Message)
    BY SideTyped DEF Booked, Base
  <2>6. Asked(mStack'[s], c)
    BY <1>1, <1>3, <2>1, <2>3, <2>5, InFront
  <2> QED
    BY <1>3, <2>1, <2>4, <2>6
<1>5. connected'[Other(s)] =>
         /\ connected[Other(s)]
         /\ \A c \in C : Below(frames[Other(s)], c, m.seqno)
                            => Below(frames'[Other(s)], c, m.seqno)
  <2>1. m.seqno \in Int /\ \A c \in C : c \in Int
    BY MessagesAre DEF CountedOn
  <2> QED
    BY <1>1, <2>1 DEF BelowKept, KeepsBelow
<1> QED
  BY <1>4, <1>5, StillCounted

\* Side a leaves a Call whose request side s does not hold any more.
LEMMA CountedLeaves ==
    ASSUME Booked, Counts, Counts', NEW a \in Sides, NEW s \in Sides, s = Other(a),
           NEW m \in Requests, HeldBy(s, m) > 0, NEW C, CountedOn(s, m, C), Gets(a),
           StayDeferred(s, C)
    PROVE  CountedOn(s, m, C)'
<1>1. /\ \A o \in Sides : HeldLess(o)
      /\ connected' = connected
      /\ mStack'[s] = mStack[s] /\ mOutOfTurnReplies'[s] = mOutOfTurnReplies[s]
      /\ \A c, k \in Int : k # Last(mStack[a]).seqno /\ Below(frames[a], c, k)
                              => Below(frames'[a], c, k)
  BY Zenon DEF Gets
<1>2. \A e \in RPCs : HeldBy(s, e) \in Nat /\ HeldBy(s, e)' \in Nat /\ HeldBy(s, e)' <= HeldBy(s, e)
  BY <1>1 DEF Counts, HeldLess
<1>3. PICK n \in Int :
         /\ n = Last(mStack[a]).seqno
         /\ n \in mOutOfTurnReplies[a] \/ HeldBy(a, RPCReply(n)) > 0
  <2>1. PICK n \in Int :
           /\ n = Last(mStack[a]).seqno
           /\ \/ /\ n \in mOutOfTurnReplies[a]
                 /\ mOutOfTurnReplies'[a] = mOutOfTurnReplies[a] \ {n}
              \/ /\ HeldBy(a, RPCReply(n)) > 0
                 /\ mOutOfTurnReplies'[a] = mOutOfTurnReplies[a]
    BY Zenon, GetsLast
  <2> QED
    BY <2>1
<1>4. m.seqno # n
  <2>1. ASSUME m.seqno = n
        PROVE  FALSE
    <3>1. HeldBy(a, RPCReply(n)) = 0 /\ n \notin mOutOfTurnReplies[a]
      BY <2>1, OnceAnswered
    <3> QED
      BY <1>3, <3>1
  <2> QED
    BY <2>1
<1>5. ASSUME NEW c \in C
      PROVE  /\ Asked(mStack'[s], c) /\ c \notin mOutOfTurnReplies'[s]
             /\ HeldBy(s, RPCReply(c))' = 0
  <2>1. /\ c \in Int /\ Asked(mStack[s], c) /\ c \notin mOutOfTurnReplies[s]
        /\ HeldBy(s, RPCReply(c)) = 0
    BY DEF CountedOn
  <2>2. RPCReply(c) \in RPCs
    BY <2>1, MessagesAre
  <2> QED
    BY <1>1, <1>2, <2>1, <2>2
<1>6. connected'[Other(s)] =>
         /\ connected[Other(s)]
         /\ \A c \in C : Below(frames[Other(s)], c, m.seqno)
                            => Below(frames'[Other(s)], c, m.seqno)
  <2>1. m.seqno \in Int /\ \A c \in C : c \in Int
    BY MessagesAre DEF CountedOn
  <2>2. Other(s) = a
    BY SidesAre
  <2> QED
    BY <1>1, <1>3, <1>4, <2>1, <2>2
<1> QED
  BY <1>5, <1>6, StillCounted

\* Side a replies to a call on top of which it made none that side s holds.
LEMMA CountedReplies ==
    ASSUME Booked, Base', Counts, Counts', NEW a \in Sides, NEW s \in Sides, s = Other(a),
           NEW m \in Requests, NEW C, CountedOn(s, m, C), Replies(a),
           StayDeferred(s, C)
    PROVE  CountedOn(s, m, C)'
<1>1. /\ mStack' = mStack /\ mOutOfTurnReplies' = mOutOfTurnReplies
      /\ connected' = connected /\ connected[a] /\ BelowKept(a)
  BY Zenon DEF Replies, CallsSame
<1>2. PICK n \in Int :
         /\ \A k \in Int : RunningOn(a, k) = RunningOn(a, k)' + (IF k = n THEN 1 ELSE 0)
         /\ \A e \in RPCs : HeldBy(s, e)' =
               HeldBy(s, e) + (IF e = RPCReply(n) THEN 1 ELSE 0)
  BY Zenon DEF Replies
<1>3. Other(s) = a /\ KeepsBelow(frames[a], frames'[a])
  BY <1>1, SidesAre DEF BelowKept
<1>4. \A e \in RPCs : HeldBy(s, e) \in Nat /\ HeldBy(s, e)' \in Nat
  BY DEF Counts
<1>5. ASSUME NEW c \in C
      PROVE  /\ Asked(mStack'[s], c) /\ c \notin mOutOfTurnReplies'[s]
             /\ HeldBy(s, RPCReply(c))' = 0
  <2>1. /\ c \in Int /\ Asked(mStack[s], c) /\ c \notin mOutOfTurnReplies[s]
        /\ HeldBy(s, RPCReply(c)) = 0 /\ m.seqno \in Int
        /\ Below(frames[a], c, m.seqno) \/ Deferring(a, c)
    BY <1>1, <1>3, MessagesAre DEF CountedOn
  <2>2. RPCReply(c) \in RPCs
    BY <2>1, MessagesAre
  <2>3. c # n
    <3> SUFFICES ASSUME c = n
                 PROVE  FALSE
      OBVIOUS
    <3> DEFINE r == RunningOn(a, n)
               r2 == RunningOn(a, n)'
    <3>5. r \in Nat /\ r <= 1
      BY <1>3, OnceAnswered
    <3>6. r = r2 + 1
      BY <1>2
    <3>7. r2 \in Nat
      BY <1>3 DEF Counts
    <3>8. ~Deferring(a, n)
      <4>1. r > 0
        <5> HIDE DEF r, r2
        <5> QED
          BY <3>6, <3>7
      <4> QED
        BY <1>3, <4>1, DeferredWaits
    <3>1. Below(frames'[a], n, m.seqno)
      BY <1>3, <2>1, <3>8 DEF KeepsBelow
    <3>2. frames'[a] \in Stacks
      <4>1. frames' \in [Sides -> Stacks]
        BY DEF Base, TypeOK, Stacks, FrameRec
      <4> QED
        BY <4>1
    <3>3. Running(frames'[a], n) > 0 /\ Running(frames'[a], n) \in Nat
      BY <2>1, <3>1, <3>2, BelowRuns
    <3>4. r2 > 0 /\ r2 \in Nat
      BY <3>3 DEF RunningOn
    <3> HIDE DEF r, r2
    <3> QED
      BY <3>4, <3>5, <3>6
  <2>4. HeldBy(s, RPCReply(c))' = 0
    <3>1. RPCReply(c) # RPCReply(n)
      BY <2>1, <2>3, MessagesAre
    <3>2. HeldBy(s, RPCReply(c))' = HeldBy(s, RPCReply(c)) + 0
      BY <1>2, <2>2, <3>1
    <3> QED
      BY <2>1, <3>2
  <2> QED
    BY <1>1, <2>1, <2>4
<1>6. connected'[Other(s)] =>
         /\ connected[Other(s)]
         /\ \A c \in C : Below(frames[Other(s)], c, m.seqno)
                            => Below(frames'[Other(s)], c, m.seqno)
  <2>1. m.seqno \in Int /\ \A c \in C : c \in Int
    BY MessagesAre DEF CountedOn
  <2> QED
    BY <1>1, <1>3, <2>1 DEF KeepsBelow
<1> QED
  BY <1>5, <1>6, StillCounted

\* A request that side a sends is no reply.
LEMMA CountedAsks ==
    ASSUME Counts, Counts', NEW a \in Sides, NEW s \in Sides, s = Other(a),
           NEW m \in Requests, NEW C, CountedOn(s, m, C), Asks(a),
           StayDeferred(s, C)
    PROVE  CountedOn(s, m, C)'
<1>1. /\ mOutOfTurnReplies' = mOutOfTurnReplies /\ connected' = connected /\ connected[a]
      /\ BelowKept(a) /\ mStack'[s] = mStack[s]
  BY Zenon DEF Asks
<1>2. PICK x \in Requests :
         \A e \in RPCs : HeldBy(s, e)' = HeldBy(s, e) + (IF e = x THEN 1 ELSE 0)
  BY Zenon DEF Asks
<1>3. Other(s) = a /\ a # s /\ KeepsBelow(frames[a], frames'[a])
  BY <1>1, SidesAre DEF BelowKept
<1>4. ASSUME NEW c \in Int, HeldBy(s, RPCReply(c)) = 0
      PROVE  HeldBy(s, RPCReply(c))' = 0
  <2>1. RPCReply(c) \in RPCs /\ RPCReply(c) # x
    BY MessagesAre
  <2>2. HeldBy(s, RPCReply(c))' = HeldBy(s, RPCReply(c)) + 0
    BY <1>2, <2>1
  <2> QED
    BY <1>4, <2>2
<1>5. \A c \in C : /\ Asked(mStack'[s], c) /\ c \notin mOutOfTurnReplies'[s]
                   /\ HeldBy(s, RPCReply(c))' = 0
  BY <1>1, <1>4 DEF CountedOn
<1>6. connected'[Other(s)] =>
         /\ connected[Other(s)]
         /\ \A c \in C : Below(frames[Other(s)], c, m.seqno)
                            => Below(frames'[Other(s)], c, m.seqno)
  <2>1. m.seqno \in Int /\ \A c \in C : c \in Int
    BY MessagesAre DEF CountedOn
  <2> QED
    BY <1>1, <1>3, <2>1 DEF KeepsBelow
<1> QED
  BY <1>5, <1>6, StillCounted

\* No step answers a call that one still held counts on.
LEMMA CountedStep ==
    ASSUME Booked, Base', Counts, Counts', NEW a \in Sides, Effects(a),
           NEW s \in Sides, NEW m \in Requests, HeldBy(s, m) > 0, NEW C, CountedOn(s, m, C),
           StayDeferred(s, C)
    PROVE  CountedOn(s, m, C)'
<1>1. /\ s = a \/ s = Other(a)
      /\ Other(a) \in Sides /\ Other(s) \in Sides /\ Other(Other(a)) = a
  BY SidesAre
<1>2. CASE Passive
  <2>1. /\ mStack' = mStack /\ mOutOfTurnReplies' = mOutOfTurnReplies
        /\ \A o \in Sides : HeldLess(o) /\ BelowKept(o)
    BY Zenon, <1>2 DEF Passive, CallsSame
  <2> QED
    BY <1>1, <2>1, CountedPlain
<1>3. CASE Begins(a)
  <2>1. /\ mStack' = mStack /\ mOutOfTurnReplies' = mOutOfTurnReplies
        /\ \A o \in Sides : HeldLess(o) /\ BelowKept(o)
    BY Zenon, <1>3 DEF Begins, CallsSame
  <2> QED
    BY <1>1, <2>1, CountedPlain
<1>4. CASE Replies(a)
  <2>1. CASE s = a
    <3>1. /\ mStack' = mStack /\ mOutOfTurnReplies' = mOutOfTurnReplies
          /\ HeldLess(a) /\ \A o \in Sides : BelowKept(o)
      BY Zenon, <1>4 DEF Replies, CallsSame
    <3> QED
      BY <1>1, <2>1, <3>1, CountedPlain
  <2>2. CASE s = Other(a)
    BY <1>4, <2>2, CountedReplies
  <2> QED
    BY <1>1, <2>1, <2>2
<1>5. CASE PutsAside(a)
  <2>1. CASE s = a
    BY <1>5, <2>1, CountedAside
  <2>2. CASE s = Other(a)
    <3>1. /\ mStack' = mStack /\ mOutOfTurnReplies'[s] = mOutOfTurnReplies[s]
          /\ \A o \in Sides : HeldLess(o) /\ BelowKept(o)
      BY Zenon, <1>5, <2>2 DEF PutsAside, CallsSame
    <3> QED
      BY <1>1, <3>1, CountedPlain
  <2> QED
    BY <1>1, <2>1, <2>2
<1>6. CASE Asks(a)
  <2>1. CASE s = a
    <3>1. /\ mOutOfTurnReplies' = mOutOfTurnReplies
          /\ HeldLess(a) /\ \A o \in Sides : BelowKept(o)
      BY Zenon, <1>6 DEF Asks
    <3>2. PICK x \in Requests : mStack'[a] = Append(mStack[a], x)
      BY Zenon, <1>6 DEF Asks
    <3>3. \A n : Asked(mStack[a], n) => Asked(mStack'[a], n)
      <4>1. mStack[a] \in Seq(Message) /\ x \in Message
        BY SideTyped, MessagesAre DEF Booked, Base
      <4>2. /\ DOMAIN mStack[a] = 1 .. Len(mStack[a]) /\ Len(mStack[a]) \in Nat
            /\ DOMAIN mStack'[a] = 1 .. Len(mStack[a]) + 1
            /\ \A i \in 1 .. Len(mStack[a]) : mStack'[a][i] = mStack[a][i]
        BY <3>2, <4>1, AppendIs
      <4>3. \A i \in DOMAIN mStack[a] : i \in DOMAIN mStack'[a] /\ mStack'[a][i] = mStack[a][i]
        BY <4>2
      <4> QED
        BY <4>3 DEF Asked
    <3> QED
      BY <1>1, <2>1, <3>1, <3>3, CountedPlain
  <2>2. CASE s = Other(a)
    BY <1>6, <2>2, CountedAsks
  <2> QED
    BY <1>1, <2>1, <2>2
<1>7. CASE Gets(a)
  <2>1. CASE s = a
    BY <1>7, <2>1, CountedReturns
  <2>2. CASE s = Other(a)
    BY <1>7, <2>2, CountedLeaves
  <2> QED
    BY <1>1, <2>1, <2>2
<1> QED
  BY <1>2, <1>3, <1>4, <1>5, <1>6, <1>7 DEF Effects

\* Only a side that asks brings the other a call.
LEMMA NewlyHeld ==
    ASSUME Counts, Counts', NEW a \in Sides, Effects(a),
           NEW s \in Sides, NEW e \in Requests, HeldBy(s, e)' > 0, ~(HeldBy(s, e) > 0)
    PROVE  Asks(a) /\ s = Other(a)
<1>1. s = a \/ s = Other(a)
  BY SidesAre
<1>2. e \in RPCs /\ HeldBy(s, e) \in Nat /\ HeldBy(s, e)' \in Nat
  BY MessagesAre DEF Counts
<1>3. ~HeldLess(s)
  BY <1>2 DEF HeldLess
<1>4. ~Passive /\ ~Begins(a) /\ ~PutsAside(a) /\ ~Gets(a)
  <2>1. Passive => HeldLess(s)
    BY Zenon DEF Passive
  <2>2. Begins(a) => HeldLess(s)
    BY Zenon DEF Begins
  <2>3. PutsAside(a) => HeldLess(s)
    BY Zenon DEF PutsAside
  <2>4. Gets(a) => HeldLess(s)
    BY Zenon DEF Gets
  <2> QED
    BY <1>3, <2>1, <2>2, <2>3, <2>4
<1>5. ~Replies(a)
  <2> SUFFICES ASSUME Replies(a)
               PROVE  FALSE
    OBVIOUS
  <2>1. HeldLess(a)
    BY Zenon DEF Replies
  <2>2. s = Other(a)
    BY <1>1, <1>3, <2>1
  <2>3. PICK n \in Int : \A x \in RPCs : HeldBy(s, x)' =
                            HeldBy(s, x) + (IF x = RPCReply(n) THEN 1 ELSE 0)
    BY Zenon, <2>2 DEF Replies
  <2>4. e # RPCReply(n)
    BY MessagesAre
  <2>5. HeldBy(s, e)' = HeldBy(s, e) + 0
    BY <1>2, <2>3, <2>4
  <2> QED
    BY <1>2, <2>5
<1>6. Asks(a)
  BY <1>4, <1>5 DEF Effects
<1>7. HeldLess(a)
  BY Zenon, <1>6 DEF Asks
<1> QED
  BY <1>1, <1>3, <1>6, <1>7

\* The seqno of a new call is that of no call made before.
LEMMA NextIsNew ==
    ASSUME Booked, NEW a \in Sides
    PROVE  ~Asked(mStack[a], NextSeqno(a))
<1>1. /\ mNextSeqno[a] \in Int /\ mStack[a] \in Seq(Message) /\ Ordered(a)
      /\ DOMAIN mStack[a] = 1 .. Len(mStack[a])
  BY SideTyped, LenProperties DEF Booked, Base
<1> SUFFICES ASSUME NEW i \in 1 .. Len(mStack[a]), mStack[a][i].seqno = NextSeqno(a)
             PROVE  FALSE
  BY <1>1 DEF Asked
<1>2. Rank(a, mStack[a][i].seqno) <= Rank(a, mNextSeqno[a])
  BY <1>1 DEF Ordered
<1>3. NextSeqno(a) \in Int /\ Rank(a, mNextSeqno[a]) < Rank(a, NextSeqno(a))
  BY <1>1, NextIsLater
<1>4. Rank(a, mNextSeqno[a]) \in Int /\ Rank(a, NextSeqno(a)) \in Int
  BY <1>1, <1>3, RankIs
<1> QED
  BY <1>2, <1>3, <1>4

\* Side a asks with as many calls counted on as it handles or defers, and the call is
\* a new one.
LEMMA NewlyCounted ==
    ASSUME Booked, Counts, Counts', NEW a \in Sides, NEW s \in Sides, s = Other(a), Asks(a),
           NEW e \in Requests, HeldBy(s, e)' > 0, ~(HeldBy(s, e) > 0),
           NEW C, C = {c \in Int : RunningOn(a, c) > 0 \/ Deferring(a, c)}
    PROVE  CountedOn(s, e, C)' /\ ~Asked(mStack[a], e.seqno)
<1>1. /\ mOutOfTurnReplies' = mOutOfTurnReplies /\ connected' = connected /\ connected[a]
      /\ BelowKept(a) /\ mStack'[s] = mStack[s] /\ mDeferred'[a] = mDeferred[a]
  BY Zenon DEF Asks
<1>2. PICK m \in Requests :
         /\ m.seqno = NextSeqno(a) /\ m.guess = mRemoteStackDepthGuess[a]
         /\ \A x \in RPCs : HeldBy(s, x)' = HeldBy(s, x) + (IF x = m THEN 1 ELSE 0)
         /\ \A c \in Int : Running(frames[a], c) > 0 => Below(frames'[a], c, m.seqno)
  BY Zenon DEF Asks
<1>3. Other(s) = a
  BY SidesAre
<1>4. \A x \in RPCs : HeldBy(s, x) \in Nat /\ HeldBy(s, x)' \in Nat
  BY DEF Counts
<1>5. ASSUME NEW c \in Int
      PROVE  HeldBy(s, RPCReply(c))' = HeldBy(s, RPCReply(c))
  <2>1. RPCReply(c) \in RPCs /\ RPCReply(c) # m
    BY MessagesAre
  <2>2. HeldBy(s, RPCReply(c))' = HeldBy(s, RPCReply(c)) + 0
    BY <1>2, <2>1
  <2> QED
    BY <1>4, <2>1, <2>2
<1>6. e = m
  <2> SUFFICES ASSUME e # m
               PROVE  FALSE
    OBVIOUS
  <2>1. e \in RPCs
    BY MessagesAre
  <2>2. HeldBy(s, e)' = HeldBy(s, e) + 0
    BY <1>2, <2>1
  <2> QED
    BY <1>4, <2>1, <2>2
<1> DEFINE R == {c \in Int : Running(frames[a], c) > 0}
           X == {c \in Int : Deferring(a, c)}
<1>7. frames[a] \in Stacks /\ \A c \in Int : Running(frames[a], c) <= 1
  <2>1. frames[a] \in Stacks
    BY SideTyped DEF Booked, Base
  <2>2. \A c \in Int : RunningOn(a, c) <= 1
    BY <1>3, OnceAnswered
  <2> QED
    BY <2>1, <2>2 DEF RunningOn
<1>8. IsFiniteSet(R) /\ Cardinality(R) = Handled(frames[a])
  BY <1>7, HandledCalls
<1>9. IsFiniteSet(X) /\ Cardinality(X) = Len(mDeferred[a])
  BY DeferredCalls
<1>10. R \cap X = {} /\ C = R \cup X
  BY DeferredWaits DEF RunningOn
<1>11. ASSUME NEW c \in C
       PROVE  /\ c \in Int /\ Asked(mStack'[s], c) /\ c \notin mOutOfTurnReplies'[s]
              /\ HeldBy(s, RPCReply(c))' = 0
              /\ Below(frames'[a], c, e.seqno) \/ Deferring(a, c)'
  <2>1. c \in Int /\ (RunningOn(a, c) > 0 \/ Deferring(a, c))
    OBVIOUS
  <2>2. Asked(mStack[s], c)
    BY <1>3, <2>1, RepliesAsked, DeferredWaits
  <2>3. HeldBy(s, RPCReply(c)) = 0 /\ c \notin mOutOfTurnReplies[s]
    BY <1>3, <2>1, OnceAnswered, DeferredWaits
  <2>4. RunningOn(a, c) > 0 => Below(frames'[a], c, e.seqno)
    BY <1>2, <1>6, <2>1 DEF RunningOn
  <2>5. Deferring(a, c) => Deferring(a, c)'
    BY <1>1 DEF Deferring
  <2> QED
    BY <1>1, <1>5, <2>1, <2>2, <2>3, <2>4, <2>5
<1> HIDE DEF R, X
<1>12. IsFiniteSet(C) /\ Cardinality(C) = Cardinality(R) + Cardinality(X)
  <2>1. /\ IsFiniteSet(R \cup X)
        /\ Cardinality(R \cup X) = Cardinality(R) + Cardinality(X) - Cardinality(R \cap X)
    BY <1>8, <1>9, FS_Union
  <2>2. Cardinality(R \cap X) = 0
    BY <1>10, FS_EmptySet
  <2>3. Cardinality(R) \in Nat /\ Cardinality(X) \in Nat
    BY <1>8, <1>9, FS_CardinalityType
  <2>4. \A x, y \in Nat : x + y - 0 = x + y
    OBVIOUS
  <2>5. Cardinality(R \cup X) = Cardinality(R) + Cardinality(X)
    BY <2>1, <2>2, <2>3, <2>4
  <2> QED
    BY <1>10, <2>1, <2>5
<1>13. Cardinality(C) = e.guess
  <2>1. mRemoteStackDepthGuess[a] = Len(mDeferred[a]) + Handled(frames[a])
    BY DEF Booked, Base, SideSound, Sound
  <2>2. Cardinality(R) \in Nat /\ Cardinality(X) \in Nat
    BY <1>8, <1>9, FS_CardinalityType
  <2> QED
    BY <1>2, <1>6, <1>8, <1>9, <1>12, <2>1, <2>2
<1>14. CountedOn(s, e, C)'
  BY <1>3, <1>11, <1>12, <1>13 DEF CountedOn
<1>15. ~Asked(mStack[a], e.seqno)
  BY <1>2, <1>6, NextIsNew
<1> QED
  BY <1>14, <1>15

\* The out-calls of side s whose replies it has not put aside.
Open(s) == {c \in Int : Asked(mStack[s], c) /\ c \notin mOutOfTurnReplies[s]}

\* The seqnos of the out-calls are as many as they are, and those of replies put
\* aside are among them.
LEMMA OpenAre ==
    ASSUME Booked, NEW s \in Sides
    PROVE  /\ IsFiniteSet(Open(s)) /\ IsFiniteSet(mOutOfTurnReplies[s])
           /\ Cardinality(Open(s)) = Len(mStack[s]) - Cardinality(mOutOfTurnReplies[s])
           /\ Cardinality(mOutOfTurnReplies[s]) \in Nat /\ Cardinality(Open(s)) \in Nat
<1> DEFINE q == mStack[s]
           Q == {n \in Int : Asked(q, n)}
           r == mOutOfTurnReplies[s]
<1>1. q \in Seq(Message) /\ r \in SUBSET Int /\ Ordered(s)
  BY SideTyped DEF Booked, Base
<1>2. \A i \in 1 .. Len(q) : q[i].seqno \in Int
  <2>1. \A i \in 1 .. Len(q) : q[i] \in Message
    BY <1>1, ElementOfSeq
  <2> QED
    BY <2>1, MessagesAre
<1>3. ASSUME NEW i \in 1 .. Len(q), NEW j \in 1 .. Len(q), q[i].seqno = q[j].seqno
      PROVE  i = j
  <2> DEFINE m == q[i].seqno
             k == q[j].seqno
  <2>1. /\ i < j => Rank(s, m) < Rank(s, k)
        /\ j < i => Rank(s, k) < Rank(s, m)
    BY <1>1 DEF Ordered
  <2>2. m = k /\ m \in Int /\ i \in Int /\ j \in Int
    BY <1>2, <1>3
  <2> HIDE DEF m, k
  <2>3. ~(Rank(s, m) < Rank(s, k)) /\ ~(Rank(s, k) < Rank(s, m))
    BY <2>2 DEF Rank
  <2> QED
    BY <2>1, <2>2, <2>3
<1>4. IsFiniteSet(Q) /\ Cardinality(Q) = Len(q)
  <2> HIDE DEF q
  <2> QED
    BY <1>1, <1>3, SeqnosCounted
<1>5. r \subseteq Q
  BY <1>1, RepliesAsked
<1>6. Open(s) = Q \ r
  BY DEF Open
<1> HIDE DEF Q, r, q
<1>7. IsFiniteSet(r) /\ Q \cap r = r
  BY <1>4, <1>5, FS_Subset
<1>8. IsFiniteSet(Q \ r) /\ Cardinality(Q \ r) = Cardinality(Q) - Cardinality(r)
  <2>1. IsFiniteSet(Q)
    BY <1>4
  <2>2. IsFiniteSet(Q \ r) /\ Cardinality(Q \ r) = Cardinality(Q) - Cardinality(Q \cap r)
    BY <2>1, FS_Difference
  <2>3. Cardinality(Q \cap r) = Cardinality(r)
    BY <1>7
  <2> QED
    BY <2>2, <2>3
<1>9. IsFiniteSet(Open(s)) /\ Cardinality(Open(s)) = Len(q) - Cardinality(r)
  BY <1>4, <1>6, <1>8
<1>10. Cardinality(r) \in Nat /\ Cardinality(Open(s)) \in Nat
  BY <1>7, <1>9, FS_CardinalityType
<1> QED
  BY <1>7, <1>9, <1>10 DEF q, r

\* The depth that a side compares guesses with is the number of its calls without a
\* reply.
LEMMA ViewIs ==
    ASSUME Booked, NEW s \in Sides, Shallow(s)
    PROVE  RemoteViewOfStackDepth(s, StackDepth(s)) = Cardinality(Open(s))
<1> DEFINE l == Len(mStack[s])
           k == Cardinality(mOutOfTurnReplies[s])
           n == Cardinality(Open(s))
<1>1. k \in Nat /\ n \in Nat /\ n = l - k /\ l \in Nat
  BY OpenAre, SideTyped, LenProperties DEF Booked, Base
<1>2. l <= MaxFrames
  BY DEF Shallow
<1>3. RemoteViewOfStackDepth(s, StackDepth(s)) = (l - k) % SizeT
  BY DEF RemoteViewOfStackDepth, StackDepth
<1> HIDE DEF l, k, n
<1>4. n \in Int /\ n >= 0 /\ n < 65536
  BY <1>1, <1>2, BoundsAssumption DEF SizeT
<1>5. n % 65536 = n
  BY <1>4
<1> QED
  BY <1>1, <1>3, <1>5 DEF SizeT, n

\* A side that deferred calls counts the last of them.
LEMMA DeferredIsHeld ==
    ASSUME Booked, NEW s \in Sides, mDeferred[s] # <<>>
    PROVE  /\ Last(mDeferred[s]) \in Requests /\ HeldBy(s, Last(mDeferred[s])) > 0
           /\ mRemoteStackDepthGuess[s] > 0
<1> DEFINE e == Last(mDeferred[s])
           N == Len(mDeferred[s])
<1>1. TypeOK /\ SideSound(s)
  BY DEF Booked, Base
<1>2. mDeferred[s] \in Seq(Message) /\ frames[s] \in Stacks
  BY <1>1, SideTyped
<1>3. N \in Nat \ {0} /\ mDeferred[s][N] = e
  BY <1>2, FrontLast
<1>4. e \in Requests /\ HeldBy(s, e) > 0
  <2>1. N \in 1 .. N
    BY <1>3
  <2> QED
    BY <1>3, <2>1, DeferredAre
<1>5. mRemoteStackDepthGuess[s] > 0
  <2> DEFINE h == Handled(frames[s])
  <2>1. h \in Nat /\ mRemoteStackDepthGuess[s] = N + h
    BY <1>1, <1>2, HandledIs DEF SideSound, Sound
  <2> HIDE DEF h, N
  <2> QED
    BY <1>3, <2>1
<1> QED
  BY <1>4, <1>5

\* A deferred call is not undeferred while a call that counts on it waits to be
\* handled: that is one more open call than the deferred one counts on.
LEMMA DeferredStays ==
    ASSUME Booked, NEW s \in Sides, Shallow(Other(s)),
           NEW D \in Guesses, Guessing(D), Apart(D),
           NEW m \in Requests, HeldBy(s, m) > 0,
           NEW c \in D[s][m], mDeferred[Other(s)] # <<>>, c = Last(mDeferred[Other(s)]).seqno
    PROVE  ~MustUndefer(Other(s))
<1> DEFINE o == Other(s)
           g == RemoteViewOfStackDepth(o, StackDepth(o))
<1>1. o \in Sides /\ Other(o) = s
  BY SidesAre
<1>2. PICK e \in Requests : e = Last(mDeferred[o]) /\ HeldBy(o, e) > 0
  BY <1>1, DeferredIsHeld
<1> HIDE DEF o
<1>3. PICK C : C = D[o][e]
  OBVIOUS
<1>4. CountedOn(o, e, C)
  BY <1>1, <1>2, <1>3 DEF Guessing
<1>5. m.seqno \notin C
  BY <1>2, <1>3 DEF Apart, o
<1>6. /\ IsFiniteSet(C) /\ Cardinality(C) = e.guess /\ Cardinality(C) \in Nat
      /\ C \subseteq Open(o)
  BY <1>4, FS_CardinalityType DEF CountedOn, Open
<1>7. m.seqno \in Open(o)
  <2>1. m.seqno \in Int /\ Among(mStack[o], m)
    BY <1>1, MessagesAre DEF Booked, Accounts
  <2>2. Asked(mStack[o], m.seqno)
    BY <2>1 DEF Among, Asked
  <2>3. m.seqno \notin mOutOfTurnReplies[o]
    BY <1>1, <2>1, OnceAnswered
  <2> QED
    BY <2>1, <2>2, <2>3 DEF Open
<1>8. IsFiniteSet(Open(o)) /\ Cardinality(Open(o)) \in Nat /\ g = Cardinality(Open(o))
  <2>1. Shallow(o)
    BY DEF o
  <2> QED
    BY <1>1, <2>1, OpenAre, ViewIs
<1> DEFINE B == C \cup {m.seqno}
<1>9. Cardinality(B) = Cardinality(C) + 1
  BY <1>5, <1>6, FS_AddElement
<1>10. B \subseteq Open(o)
  BY <1>6, <1>7
<1> HIDE DEF B, g
<1>11. Cardinality(B) <= Cardinality(Open(o))
  BY <1>8, <1>10, FS_Subset
<1>12. ~(e.guess >= g)
  BY <1>6, <1>8, <1>9, <1>11
<1> QED
  BY <1>2, <1>12 DEF MustUndefer, o, g

\* The other side, all of whose deferred calls stay except the last if it must be
\* undeferred, keeps those that a call counts on.
LEMMA StayingDeferred ==
    ASSUME Booked, NEW s \in Sides, Shallow(Other(s)), DefersOn(Other(s)),
           NEW D \in Guesses, Guessing(D), Apart(D),
           NEW m \in Requests, HeldBy(s, m) > 0
    PROVE  StayDeferred(s, D[s][m])
<1> SUFFICES ASSUME NEW c \in D[s][m], Deferring(Other(s), c)
             PROVE  Deferring(Other(s), c)'
  BY DEF StayDeferred
<1>1. c \in Int
  BY DEF Guesses
<1>2. mDeferred[Other(s)] # <<>>
  BY DEF Deferring, Asked
<1>3. CASE MustUndefer(Other(s)) /\ c = Last(mDeferred[Other(s)]).seqno
  BY <1>2, <1>3, DeferredStays
<1> QED
  BY <1>1, <1>3 DEF DefersOn

\* What calls count on after a step of side a: those that were held, on the same
\* calls; a new one, on those that side a is handling or has deferred.
Refits(a, D, E) == \A s \in Sides : \A m \in Requests :
    E[s][m] = IF HeldBy(s, m) > 0 THEN D[s][m]
              ELSE {c \in Int : RunningOn(a, c) > 0 \/ Deferring(a, c)}

\* Such sets there are.
LEMMA Refitted ==
    ASSUME NEW a \in Sides, NEW D \in Guesses
    PROVE  \E E \in Guesses : Refits(a, D, E)
<1>1. PICK C : C = {c \in Int : RunningOn(a, c) > 0 \/ Deferring(a, c)}
  OBVIOUS
<1> DEFINE E == [s \in Sides |->
                   [m \in Requests |-> IF HeldBy(s, m) > 0 THEN D[s][m] ELSE C]]
<1>2. C \in SUBSET Int /\ \A s \in Sides : \A m \in Requests : D[s][m] \in SUBSET Int
  BY <1>1 DEF Guesses
<1>3. E \in Guesses
  BY <1>2 DEF Guesses
<1>4. \A s \in Sides : \A m \in Requests : E[s][m] = IF HeldBy(s, m) > 0 THEN D[s][m] ELSE C
  OBVIOUS
<1> HIDE DEF E
<1>5. Refits(a, D, E)
  BY <1>1, <1>4 DEF Refits
<1> QED
  BY <1>3, <1>5

\* A step keeps what requests were sent with within what they count on.
LEMMA GuessesStep ==
    ASSUME Booked, Base', Counts, Counts', NEW a \in Sides, Effects(a),
           NEW D \in Guesses, Guessing(D), Apart(D),
           NEW E \in Guesses, Refits(a, D, E),
           \A s \in Sides : Shallow(s) /\ DefersOn(s)
    PROVE  Guessing(E)' /\ Apart(E)'
<1>1. ASSUME NEW s \in Sides, NEW m \in Requests, HeldBy(s, m) > 0
      PROVE  /\ E[s][m] = D[s][m] /\ CountedOn(s, m, E[s][m])'
             /\ \A c \in E[s][m] : Asked(mStack[s], c)
  <2>1. PICK Z : Z = D[s][m]
    OBVIOUS
  <2>2. CountedOn(s, m, Z)
    BY <1>1, <2>1 DEF Guessing
  <2>3. StayDeferred(s, Z)
    BY <1>1, <2>1, SidesAre, StayingDeferred
  <2>4. CountedOn(s, m, Z)'
    BY <1>1, <2>2, <2>3, CountedStep
  <2>5. E[s][m] = Z
    BY <1>1, <2>1 DEF Refits
  <2>6. \A c \in Z : Asked(mStack[s], c)
    BY <2>2 DEF CountedOn
  <2> QED
    BY <2>1, <2>4, <2>5, <2>6
<1>2. ASSUME NEW s \in Sides, NEW m \in Requests, HeldBy(s, m)' > 0, ~(HeldBy(s, m) > 0)
      PROVE  /\ s = Other(a) /\ CountedOn(s, m, E[s][m])'
             /\ ~Asked(mStack[a], m.seqno)
  <2>1. Asks(a) /\ s = Other(a)
    BY <1>2, NewlyHeld
  <2>2. PICK C : C = {c \in Int : RunningOn(a, c) > 0 \/ Deferring(a, c)}
    OBVIOUS
  <2>3. CountedOn(s, m, C)' /\ ~Asked(mStack[a], m.seqno)
    BY <1>2, <2>1, <2>2, NewlyCounted
  <2>4. E[s][m] = C
    BY <1>2, <2>2 DEF Refits
  <2> QED
    BY <2>1, <2>3, <2>4
<1>3. Guessing(E)'
  <2>1. ASSUME NEW s \in Sides, NEW m \in Requests, HeldBy(s, m)' > 0
        PROVE  CountedOn(s, m, E[s][m])'
    BY <1>1, <1>2, <2>1
  <2> QED
    BY <2>1 DEF Guessing
<1>4. Apart(E)'
  <2>1. ASSUME NEW s \in Sides, NEW m \in Requests, NEW e \in Requests,
               HeldBy(s, m)' > 0, HeldBy(Other(s), e)' > 0,
               e.seqno \in E[s][m], m.seqno \in E[Other(s)][e]
        PROVE  FALSE
    <3>1. Other(s) \in Sides /\ Other(Other(s)) = s /\ Other(s) # s /\ Other(Other(a)) = a
      BY SidesAre
    <3>2. CASE HeldBy(s, m) > 0 /\ HeldBy(Other(s), e) > 0
      <4>1. E[s][m] = D[s][m] /\ E[Other(s)][e] = D[Other(s)][e]
        BY <1>1, <3>1, <3>2
      <4> QED
        BY <2>1, <3>2, <4>1 DEF Apart
    <3>3. CASE ~(HeldBy(s, m) > 0) /\ HeldBy(Other(s), e) > 0
      <4>1. s = Other(a) /\ ~Asked(mStack[a], m.seqno)
        BY <1>2, <2>1, <3>3
      <4>2. Asked(mStack[Other(s)], m.seqno)
        BY <1>1, <2>1, <3>1, <3>3
      <4> QED
        BY <3>1, <4>1, <4>2
    <3>4. CASE HeldBy(s, m) > 0 /\ ~(HeldBy(Other(s), e) > 0)
      <4>1. Other(s) = Other(a) /\ ~Asked(mStack[a], e.seqno)
        BY <1>2, <2>1, <3>1, <3>4
      <4>2. Asked(mStack[s], e.seqno)
        BY <1>1, <2>1, <3>4
      <4> QED
        BY <3>1, <4>1, <4>2
    <3>5. CASE ~(HeldBy(s, m) > 0) /\ ~(HeldBy(Other(s), e) > 0)
      <4>1. s = Other(a) /\ Other(s) = Other(a)
        BY <1>2, <2>1, <3>1, <3>5
      <4> QED
        BY <3>1, <4>1
    <3> QED
      BY <3>2, <3>3, <3>4, <3>5
  <2> QED
    BY <2>1 DEF Apart
<1> QED
  BY <1>3, <1>4



-----------------------------------------------------------------------------
\* A step puts back the last call deferred by its side, if it must, and may defer
\* one more.
Redefers(a) ==
    /\ mDeferred'[Other(a)] = mDeferred[Other(a)]
    /\ \E d \in Seq(Message) :
          /\ d = mDeferred[a] \/ (MustUndefer(a) /\ d = Front(mDeferred[a]))
          /\ mDeferred'[a] = d \/ \E m \in Message : mDeferred'[a] = Append(d, m)

\* Appending a message keeps those that are there.
LEMMA AskedAppend ==
    ASSUME NEW q \in Seq(Message), NEW m \in Message, NEW n, Asked(q, n)
    PROVE  Asked(Append(q, m), n)
<1>1. PICK i \in DOMAIN q : q[i].seqno = n
  BY DEF Asked
<1>2. i \in 1 .. Len(q) /\ Len(q) \in Nat
  BY LenProperties
<1>3. /\ Append(q, m) \in Seq(Message) /\ Len(Append(q, m)) = Len(q) + 1
      /\ \A j \in 1 .. Len(q) : Append(q, m)[j] = q[j]
  BY AppendIs
<1>4. DOMAIN Append(q, m) = 1 .. Len(q) + 1
  BY <1>3, LenProperties
<1>5. i \in DOMAIN Append(q, m) /\ Append(q, m)[i].seqno = n
  BY <1>1, <1>2, <1>3, <1>4
<1> QED
  BY <1>5 DEF Asked

\* So every other deferred call stays deferred.
LEMMA RedefersOn ==
    ASSUME TypeOK, NEW a \in Sides, Redefers(a), NEW s \in Sides
    PROVE  DefersOn(s)
<1>1. CASE s = Other(a)
  BY <1>1 DEF Redefers, DefersOn, Deferring
<1>2. CASE s = a
  <2> SUFFICES ASSUME NEW c \in Int, Asked(mDeferred[a], c)
               PROVE  \/ Asked(mDeferred'[a], c)
                      \/ MustUndefer(a) /\ c = Last(mDeferred[a]).seqno
    BY <1>2 DEF DefersOn, Deferring
  <2>1. PICK d \in Seq(Message) :
           /\ d = mDeferred[a] \/ (MustUndefer(a) /\ d = Front(mDeferred[a]))
           /\ mDeferred'[a] = d \/ \E m \in Message : mDeferred'[a] = Append(d, m)
    BY DEF Redefers
  <2>2. mDeferred[a] \in Seq(Message)
    BY SideTyped
  <2>3. Asked(d, c) \/ (MustUndefer(a) /\ c = Last(mDeferred[a]).seqno)
    <3>1. CASE d = mDeferred[a]
      BY <3>1
    <3>2. CASE MustUndefer(a) /\ d = Front(mDeferred[a])
      <4> DEFINE N == Len(mDeferred[a])
      <4>1. mDeferred[a] # <<>>
        BY <3>2 DEF MustUndefer
      <4>2. /\ N \in Nat \ {0} /\ Len(d) = N - 1 /\ mDeferred[a][N] = Last(mDeferred[a])
            /\ \A i \in 1 .. N - 1 : d[i] = mDeferred[a][i]
        BY <2>2, <3>2, <4>1, FrontLast
      <4>3. PICK i \in 1 .. N : mDeferred[a][i].seqno = c
        BY <2>2, LenProperties DEF Asked
      <4> HIDE DEF N
      <4>4. CASE i = N
        BY <3>2, <4>2, <4>3, <4>4
      <4>5. CASE i # N
        <5>1. i \in 1 .. N - 1
          BY <4>2, <4>5
        <5>2. i \in DOMAIN d /\ d[i].seqno = c
          BY <4>2, <4>3, <5>1, LenProperties
        <5> QED
          BY <5>2 DEF Asked
      <4> QED
        BY <4>4, <4>5
    <3> QED
      BY <2>1, <3>1, <3>2
  <2> QED
    BY <2>1, <2>3, AskedAppend
<1> QED
  BY <1>1, <1>2, SidesAre

\* What MaybeUndeferIncall leaves deferred.
LEMMA StillDeferred ==
    ASSUME Base, NEW a \in Sides
    PROVE  /\ Undeferred(a).deferred \in Seq(Message)
           /\ \/ Undeferred(a).deferred = mDeferred[a]
              \/ MustUndefer(a) /\ Undeferred(a).deferred = Front(mDeferred[a])
<1>1. Undeferred(a).deferred \in Seq(Message)
  BY UndeferIs DEF DeferredFit
<1> QED
  BY <1>1 DEF Undeferred

\* The handling of a message may defer it.
LEMMA HandlingDefers ==
    ASSUME TypeOK, NEW a \in Sides, NEW msg \in Message, NEW n, NEW stk, NEW u,
           u.deferred \in Seq(Message),
           u.deferred = mDeferred[a] \/ (MustUndefer(a) /\ u.deferred = Front(mDeferred[a])),
           Incall(a, msg, n, stk, u) \/ OnDispatchMessage(a, msg, stk, u)
    PROVE  Redefers(a)
<1>1. \/ mDeferred' = [mDeferred EXCEPT ![a] = u.deferred]
      \/ mDeferred' = [mDeferred EXCEPT ![a] = Append(u.deferred, msg)]
  <2>1. CASE Incall(a, msg, n, stk, u)
    BY <2>1, Zenon DEF Incall
  <2>2. CASE OnDispatchMessage(a, msg, stk, u)
    BY <2>2, Zenon DEF OnDispatchMessage
  <2> QED
    BY <2>1, <2>2
<1>2. mDeferred \in [Sides -> Seq(Message)] /\ Other(a) \in Sides /\ Other(a) # a
  BY SidesAre DEF TypeOK
<1>3. mDeferred'[Other(a)] = mDeferred[Other(a)]
  BY <1>1, <1>2
<1>4. mDeferred'[a] = u.deferred \/ mDeferred'[a] = Append(u.deferred, msg)
  BY <1>1, <1>2
<1> QED
  BY <1>3, <1>4 DEF Redefers

\* The deferred calls are left alone ...
LEMMA NoneRedeferred ==
    ASSUME TypeOK, NEW a \in Sides, mDeferred' = mDeferred
    PROVE  Redefers(a)
BY SideTyped DEF Redefers

\* ... or as MaybeUndeferIncall leaves them.
LEMMA OnlyUndeferred ==
    ASSUME Base, NEW a \in Sides, mDeferred' = [mDeferred EXCEPT ![a] = Undeferred(a).deferred]
    PROVE  Redefers(a)
<1>1. mDeferred \in [Sides -> Seq(Message)] /\ Other(a) \in Sides /\ Other(a) # a
  BY SidesAre DEF Base, TypeOK
<1>2. mDeferred'[Other(a)] = mDeferred[Other(a)] /\ mDeferred'[a] = Undeferred(a).deferred
  BY <1>1
<1> QED
  BY <1>2, StillDeferred DEF Redefers

\* Every step redefers.
LEMMA StepRedefers ==
    ASSUME Base, NEW a \in Sides,
           \/ AppStep(a) \/ WorkerStep(a) \/ HandlerStep(a) \/ LinkStep(a)
           \/ ReplyTimesOut(a) \/ TimeoutStep(a) \/ OnChannelErrorFromLink(a)
    PROVE  Redefers(a)
<1>1. TypeOK
  BY DEF Base
<1>2. ASSUME mDeferred' = mDeferred
      PROVE  Redefers(a)
  BY <1>1, <1>2, NoneRedeferred
<1>3. CASE AppStep(a)
  <2>1. mDeferred' = mDeferred
    BY <1>3, Zenon DEF AppStep, Call, SendAsync, SendSync, SpinNestedLoop, queueVars
  <2> QED
    BY <1>2, <2>1
<1>4. CASE HandlerStep(a)
  <2>1. mDeferred' = mDeferred
    BY <1>4, Zenon DEF HandlerStep, IncallDone, SyncDone, LeaveNestedLoop, queueVars
  <2> QED
    BY <1>2, <2>1
<1>5. CASE LinkStep(a)
  <2>1. mDeferred' = mDeferred
    BY <1>5, Zenon DEF LinkStep, OnMessageReceivedFromLink
  <2> QED
    BY <1>2, <2>1
<1>6. CASE ReplyTimesOut(a) \/ TimeoutStep(a) \/ OnChannelErrorFromLink(a)
  <2>1. mDeferred' = mDeferred
    BY <1>6, Zenon DEF ReplyTimesOut, TimeoutStep, ContinueFromTimeout, GiveUp,
                       OnChannelErrorFromLink, queueVars
  <2> QED
    BY <1>2, <2>1
<1>7. CASE CallFails(a) \/ CallTakesOutOfTurn(a) \/ SyncReturns(a)
  <2>1. mDeferred' = mDeferred
    BY <1>7, Zenon DEF CallFails, CallTakesOutOfTurn, SyncReturns, queueVars
  <2> QED
    BY <1>2, <2>1
<1>8. CASE CallLoop(a) \/ Unwind(a)
  <2>1. mDeferred' = mDeferred \/ mDeferred' = [mDeferred EXCEPT ![a] = Undeferred(a).deferred]
    BY <1>8, Zenon DEF CallLoop, Unwind
  <2> QED
    BY <1>2, <2>1, OnlyUndeferred
<1>9. CASE CallTakesPending(a)
  <2> DEFINE msg == Head(mPending[a])
             stk == Append(Front(frames[a]), Frame("calltop", Last(frames[a]).seqno))
             u == [deferred |-> mDeferred[a], guess |-> mRemoteStackDepthGuess[a]]
  <2>1. mPending[a] \in Seq(Message) /\ mDeferred[a] \in Seq(Message)
    BY <1>1, SideTyped
  <2>2. mPending[a] # <<>>
    BY <1>9, Zenon DEF CallTakesPending
  <2>3. msg \in Message
    BY <2>1, <2>2, HeadTailProperties
  <2>4. \/ mDeferred' = mDeferred
        \/ Incall(a, msg, StackDepth(a), stk, u)
        \/ OnDispatchMessage(a, msg, stk, u)
    BY <1>9, Zenon DEF CallTakesPending
  <2>5. u.deferred = mDeferred[a]
    OBVIOUS
  <2> HIDE DEF msg, stk, u
  <2> QED
    BY <1>1, <1>2, <2>1, <2>3, <2>4, <2>5, HandlingDefers
<1>10. CASE OnMaybeDequeueOne(a)
  <2> DEFINE u == Undeferred(a)
             msg == Head(u.pending)
  <2>1. u.pending \in Seq(Message)
    BY UndeferIs
  <2>2. \/ mDeferred' = mDeferred
        \/ mDeferred' = [mDeferred EXCEPT ![a] = u.deferred]
        \/ u.pending # <<>> /\ Incall(a, msg, 0, frames[a], u)
        \/ u.pending # <<>> /\ OnDispatchMessage(a, msg, frames[a], u)
    BY <1>10, Zenon DEF OnMaybeDequeueOne
  <2>3. CASE u.pending # <<>> /\ (Incall(a, msg, 0, frames[a], u)
                                  \/ OnDispatchMessage(a, msg, frames[a], u))
    <3>1. msg \in Message
      BY <2>1, <2>3, HeadTailProperties
    <3>2. /\ u.deferred \in Seq(Message)
          /\ u.deferred = mDeferred[a] \/ (MustUndefer(a) /\ u.deferred = Front(mDeferred[a]))
      BY StillDeferred
    <3> HIDE DEF u, msg
    <3> QED
      BY <1>1, <2>3, <3>1, <3>2, HandlingDefers
  <2> QED
    BY <1>2, <2>2, <2>3, OnlyUndeferred
<1> QED
  BY <1>3, <1>4, <1>5, <1>6, <1>7, <1>8, <1>9, <1>10 DEF WorkerStep

LEMMA StepDefersOn ==
    ASSUME Base, Next
    PROVE  \A s \in Sides : DefersOn(s)
<1>1. PICK a \in Sides :
         \/ AppStep(a) \/ WorkerStep(a) \/ HandlerStep(a) \/ LinkStep(a)
         \/ ReplyTimesOut(a) \/ TimeoutStep(a) \/ OnChannelErrorFromLink(a)
  BY Zenon DEF Next
<1>2. Redefers(a)
  BY <1>1, StepRedefers
<1> QED
  BY <1>2, RedefersOn DEF Base

\* The stack of out-calls stays as shallow as the C++ stack.
LEMMA ShallowStep ==
    ASSUME Booked, NEW a \in Sides, Effects(a), NEW s \in Sides, Shallow(s)
    PROVE  Shallow(s)'
<1>1. /\ mStack'[s] = mStack[s] \/ Len(mStack'[s]) <= MaxFrames
         \/ (mStack[s] # <<>> /\ mStack'[s] = Front(mStack[s]))
  BY SidesAre DEF Effects, Passive, Begins, Replies, PutsAside, Asks, Gets, CallsSame
<1>2. CASE mStack[s] # <<>> /\ mStack'[s] = Front(mStack[s])
  <2> DEFINE l == Len(mStack[s])
  <2>1. mStack[s] \in Seq(Message)
    BY SideTyped DEF Booked, Base
  <2>2. Len(Front(mStack[s])) = l - 1 /\ l \in Nat
    BY <1>2, <2>1, FrontLast
  <2>3. l <= MaxFrames /\ MaxFrames \in Nat
    BY BoundsAssumption DEF Shallow
  <2> HIDE DEF l
  <2>4. Len(Front(mStack[s])) <= MaxFrames
    BY <2>2, <2>3
  <2> QED
    BY <1>2, <2>4 DEF Shallow
<1> QED
  BY <1>1, <1>2 DEF Shallow
-----------------------------------------------------------------------------
(***************************************************************************)
(* The inductive invariant, and what follows from it.                      *)
(***************************************************************************)

IInv == Booked /\ Guessed /\ \A s \in Sides : Shallow(s) /\ TasksFine(s)

\* Nothing is asked by an empty stack.
LEMMA NoneAsked ==
    ASSUME NEW n
    PROVE  ~Asked(<<>>, n)
BY DEF Asked

\* No call on the stack, no reply put aside.
LEMMA NoCallNoReply ==
    ASSUME Booked, NEW s \in Sides, mStack[s] = <<>>
    PROVE  /\ mOutOfTurnReplies[s] = {}
           /\ \A n \in Int : HeldBy(s, RPCReply(n)) = 0
<1>1. mOutOfTurnReplies[s] \in SUBSET Int
  BY SideTyped DEF Booked, Base
<1>2. \A n \in Int : ~Asked(mStack[s], n)
  BY NoneAsked
<1>3. \A n \in Int : HeldBy(s, RPCReply(n)) \in Nat
  BY OnceAnswered
<1>4. \A n \in Int : ~(HeldBy(s, RPCReply(n)) > 0) /\ n \notin mOutOfTurnReplies[s]
  BY <1>2, RepliesAsked
<1>5. \A n \in Int : HeldBy(s, RPCReply(n)) = 0
  BY <1>3, <1>4
<1> QED
  BY <1>1, <1>4, <1>5

\* A call that a side holds was sent with no higher a guess than that side has
\* calls.
LEMMA GuessIsLow ==
    ASSUME Booked, NEW s \in Sides, Guessed,
           NEW m \in Requests, HeldBy(s, m) > 0
    PROVE  m.guess <= Len(mStack[s])
<1>1. PICK C : CountedOn(s, m, C)
  BY DEF Guessed, Guessing
<1>2. Cardinality(C) = m.guess /\ \A c \in C : Asked(mStack[s], c)
  BY <1>1 DEF CountedOn
<1>3. mStack[s] \in Seq(Message)
  BY SideTyped DEF Booked, Base
<1>4. Cardinality(C) <= Len(mStack[s])
  BY <1>2, <1>3, SeqnosOf
<1> QED
  BY <1>2, <1>4

\* A worker that made no call since it left its event loop put no reply aside and
\* holds no call that counts on one of its own.
LEMMA IsInnocent ==
    ASSUME Booked, NEW s \in Sides, Guessed
    PROVE  Innocent(s)
<1> SUFFICES ASSUME connected[s], ~mSawRPCOutMsg[s]
             PROVE  /\ mOutOfTurnReplies[s] = {}
                    /\ \A e \in Requests : HeldBy(s, e) > 0 => e.guess = 0
  BY DEF Innocent
<1>1. mStack[s] = <<>>
  BY DEF Booked, Base, SideSound, Sound
<1>2. mOutOfTurnReplies[s] = {}
  BY <1>1, NoCallNoReply
<1>3. ASSUME NEW e \in Requests, HeldBy(s, e) > 0
      PROVE  e.guess = 0
  <2>1. e.guess <= Len(mStack[s])
    BY <1>3, GuessIsLow
  <2>2. Len(mStack[s]) = 0 /\ e.guess \in Nat
    BY <1>1, MessagesAre
  <2> QED
    BY <2>1, <2>2
<1> QED
  BY <1>2, <1>3

\* At first nothing is held.
LEMMA InitIInv ==
    ASSUME Init
    PROVE  IInv
<1>1. Booked
  BY InitBooked
<1>2. Guessed
  <2> DEFINE D == [s \in Sides |-> [m \in Requests |-> {}]]
  <2>1. D \in Guesses
    BY DEF Guesses
  <2>2. \A s \in Sides : \A m \in Requests : ~(HeldBy(s, m) > 0)
    BY InitIsEmpty
  <2> HIDE DEF D
  <2>3. Guessing(D) /\ Apart(D)
    BY <2>2, Zenon DEF Guessing, Apart
  <2> QED
    BY <2>1, <2>3 DEF Guessed
<1>3. ASSUME NEW s \in Sides
      PROVE  Shallow(s) /\ TasksFine(s)
  <2>1. mStack[s] = <<>> /\ mPending[s] = <<>> /\ mDeferred[s] = <<>>
    BY InitIsEmpty
  <2>2. tasks[s] = 0
    BY DEF Init
  <2>3. TasksFine(s)
    BY <2>1, <2>2 DEF TasksFine
  <2>4. Shallow(s)
    BY <2>1, BoundsAssumption DEF Shallow
  <2> QED
    BY <2>3, <2>4
<1> QED
  BY <1>1, <1>2, <1>3 DEF IInv

\* Where nothing changes, calls count on the same calls.
LEMMA GuessesKept ==
    ASSUME UNCHANGED vars, NEW D \in Guesses, Guessing(D), Apart(D)
    PROVE  Guessing(D)' /\ Apart(D)'
<1>1. \A s \in Sides : \A m \in Requests : HeldBy(s, m)' = HeldBy(s, m)
  BY DEF vars, HeldBy
<1>2. Apart(D)'
  BY <1>1, SidesAre DEF Apart
<1>3. \A s \in Sides : \A m \in Requests : CountedOn(s, m, D[s][m]) => CountedOn(s, m, D[s][m])'
  BY DEF vars, CountedOn, HeldBy, Deferring
<1>4. Guessing(D)'
  BY <1>1, <1>3 DEF Guessing
<1> QED
  BY <1>2, <1>4

\* The invariant is inductive.
LEMMA IInvStays ==
    ASSUME IInv, [Next]_vars
    PROVE  IInv'
<1>1. Booked /\ Booked' /\ Base
  BY BookedStays DEF IInv, Booked
<1>2. CASE Next
  <2>1. Base' /\ \E a \in Sides : Effects(a)
    BY <1>1, <1>2, StepEffects
  <2>2. PICK a \in Sides : Effects(a)
    BY <2>1
  <2>3. Counts /\ Counts'
    <3>1. Counts
      BY <1>1, CountsAre
    <3>2. Base' => Counts'
      BY CountsAre, PTL
    <3> QED
      BY <2>1, <3>1, <3>2
  <2>4. Guessed'
    <3>1. \A s \in Sides : Shallow(s) /\ DefersOn(s)
      BY <1>1, <1>2, StepDefersOn DEF IInv
    <3>2. PICK D \in Guesses : Guessing(D) /\ Apart(D)
      BY DEF IInv, Guessed
    <3>3. PICK E \in Guesses : Refits(a, D, E)
      BY Refitted
    <3>4. Guessing(E)' /\ Apart(E)'
      BY <1>1, <2>1, <2>2, <2>3, <3>1, <3>2, <3>3, GuessesStep
    <3> QED
      BY <3>4 DEF Guessed
  <2>5. ASSUME NEW s \in Sides
        PROVE  Shallow(s)' /\ TasksFine(s)'
    <3>1. Guessed /\ Shallow(s) /\ TasksFine(s)
      BY DEF IInv
    <3>2. Shallow(s)'
      BY <1>1, <2>2, <3>1, ShallowStep
    <3>3. TasksFine(s)'
      BY <1>1, <2>2, <3>1, IsInnocent DEF Effects, TasksKept
    <3> QED
      BY <3>2, <3>3
  <2> QED
    BY <1>1, <2>4, <2>5 DEF IInv
<1>3. CASE UNCHANGED vars
  <2>1. Guessed'
    <3>1. PICK D \in Guesses : Guessing(D) /\ Apart(D)
      BY DEF IInv, Guessed
    <3> QED
      BY <1>3, <3>1, GuessesKept DEF Guessed
  <2>2. \A s \in Sides : Shallow(s)' /\ TasksFine(s)'
    BY <1>3 DEF IInv, vars, Shallow, TasksFine
  <2> QED
    BY <1>1, <2>1, <2>2 DEF IInv
<1> QED
  BY <1>2, <1>3

\* The other side never believes the stack deeper than it is, and the guess
\* counts every deferred call (RPCChannel.cpp:298-300, 309-311).
THEOREM DepthsAreUnderestimated == Spec => []NeverOverestimated
<1>1. IInv => NeverOverestimated
  <2> SUFFICES ASSUME IInv, NEW s \in Sides, mDeferred[s] # <<>>
               PROVE  /\ Last(mDeferred[s]).guess <= StackDepth(s)
                      /\ mRemoteStackDepthGuess[s] > 0
    BY DEF NeverOverestimated
  <2>1. Booked /\ Guessed
    BY DEF IInv
  <2>2. /\ Last(mDeferred[s]) \in Requests /\ HeldBy(s, Last(mDeferred[s])) > 0
        /\ mRemoteStackDepthGuess[s] > 0
    BY <2>1, DeferredIsHeld
  <2>3. Last(mDeferred[s]).guess <= Len(mStack[s])
    BY <2>1, <2>2, GuessIsLow
  <2> QED
    BY <2>2, <2>3 DEF StackDepth
<1> QED
  BY <1>1, InitIInv, IInvStays, PTL DEF Spec

\* A worker back in its event loop has a task for every message that is queued
\* or deferred (RPCChannel.cpp:316-336, 613-623, 700-718).
THEOREM NoneStranded == Spec => []TasksCoverQueue
<1>1. IInv => TasksCoverQueue
  <2> SUFFICES ASSUME IInv, NEW s \in Sides, frames[s] = <<>>, connected[s]
               PROVE  tasks[s] >= Len(mPending[s]) + Len(mDeferred[s])
    BY DEF TasksCoverQueue
  <2>1. ~mSawRPCOutMsg[s]
    BY DEF IInv, Booked, Base, SideSound, Sound
  <2> QED
    BY <2>1 DEF IInv, TasksFine
<1> QED
  BY <1>1, InitIInv, IInvStays, PTL DEF Spec

\* When everything is quiet both sides have unwound to the same picture
\* (RPCChannel.h:364-386).
THEOREM QuietMeansClean == Spec => []QuietIsClean
<1>1. IInv => QuietIsClean
  <2> SUFFICES ASSUME IInv, Quiet, Connected, NEW s \in Sides
               PROVE  /\ mStack[s] = <<>> /\ mDeferred[s] = <<>> /\ mPending[s] = <<>>
                      /\ mOutOfTurnReplies[s] = {}
                      /\ mRemoteStackDepthGuess[s] = 0
    BY DEF QuietIsClean
  <2>1. frames[s] = <<>> /\ tasks[s] = 0 /\ connected[s]
    BY DEF Quiet, Connected
  <2>2. Booked /\ SideSound(s) /\ TasksFine(s)
    BY DEF IInv, Booked, Base
  <2>3. ~mSawRPCOutMsg[s] /\ mStack[s] = <<>>
    BY <2>1, <2>2 DEF SideSound, Sound
  <2>4. mPending[s] \in Seq(Message) /\ mDeferred[s] \in Seq(Message)
    BY <2>2, SideTyped DEF Booked, Base
  <2>5. mPending[s] = <<>> /\ mDeferred[s] = <<>>
    <3> DEFINE x == Len(mPending[s])
               y == Len(mDeferred[s])
    <3>1. x \in Nat /\ y \in Nat
      BY <2>4, LenProperties
    <3>2. 0 >= x + y
      BY <2>1, <2>2, <2>3 DEF TasksFine
    <3> HIDE DEF x, y
    <3>3. x = 0 /\ y = 0
      BY <3>1, <3>2
    <3> QED
      BY <2>4, <3>3, EmptySeq DEF x, y
  <2>6. mRemoteStackDepthGuess[s] = 0
    <3>1. mRemoteStackDepthGuess[s] = Len(mDeferred[s]) + Handled(<<>>)
      BY <2>1, <2>2 DEF SideSound, Sound
    <3>2. Handled(<<>>) = 0
      <4>1. Ats(<<>>) = <<>>
        BY DEF Ats
      <4> QED
        BY <4>1, OccurrencesEmpty DEF Handled
    <3> QED
      BY <2>5, <3>1, <3>2
  <2> QED
    BY <2>2, <2>3, <2>5, <2>6, NoCallNoReply
<1> QED
  BY <1>1, InitIInv, IInvStays, PTL DEF Spec

\* What the event loop takes off the queue it holds, and if it counts on calls,
\* one of them is open.
LEMMA DequeuedIs ==
    ASSUME IInv, NEW s \in Sides, NEW m, Undeferred(s).pending # <<>>,
           m = Head(Undeferred(s).pending), m.kind = "rpc"
    PROVE  /\ m \in RPCs /\ HeldBy(s, m) > 0
           /\ m \in Requests /\ mStack[s] = <<>> => m.guess = 0
<1>1. Booked /\ Base /\ TypeOK /\ Guessed
  BY DEF IInv, Booked, Base
<1>2. mPending[s] \in Seq(Message) /\ mDeferred[s] \in Seq(Message) /\ mStack[s] \in Seq(Message)
  BY <1>1, SideTyped
<1>3. \/ mPending[s] # <<>> /\ m = Head(mPending[s])
      \/ mPending[s] = <<>> /\ mDeferred[s] # <<>> /\ m = Last(mDeferred[s])
  <2>1. CASE MustUndefer(s)
    <3>1. mDeferred[s] # <<>> /\ Undeferred(s).pending = Append(mPending[s], Last(mDeferred[s]))
      BY <2>1 DEF Undeferred, MustUndefer
    <3>2. Last(mDeferred[s]) \in Message
      BY <1>2, <3>1, FrontLast
    <3>3. CASE mPending[s] = <<>>
      <4>1. Append(<<>>, Last(mDeferred[s])) = <<Last(mDeferred[s])>>
        BY <3>2
      <4> QED
        BY <3>1, <3>3, <4>1
    <3>4. CASE mPending[s] # <<>>
      <4> DEFINE q == Append(mPending[s], Last(mDeferred[s]))
      <4>1. /\ Len(mPending[s]) \in Nat /\ q \in Seq(Message) /\ q # <<>>
            /\ \A i \in 1 .. Len(mPending[s]) : q[i] = mPending[s][i]
        BY <1>2, <3>2, AppendIs
      <4>2. Len(mPending[s]) # 0
        BY <1>2, <3>4, EmptySeq
      <4>3. q[1] = mPending[s][1]
        BY <4>1, <4>2
      <4>4. Head(q) = q[1] /\ Head(mPending[s]) = mPending[s][1]
        BY <1>2, <3>4, <4>1, HeadTailProperties
      <4> QED
        BY <3>1, <3>4, <4>3, <4>4
    <3> QED
      BY <3>3, <3>4
  <2>2. CASE ~MustUndefer(s)
    <3>1. Undeferred(s).pending = mPending[s]
      BY <2>2 DEF Undeferred
    <3> QED
      BY <3>1
  <2> QED
    BY <2>1, <2>2
<1>4. m \in RPCs /\ HeldBy(s, m) > 0
  <2>1. CASE mPending[s] # <<>> /\ m = Head(mPending[s])
    <3>1. m \in Message
      BY <1>2, <2>1, HeadTailProperties
    <3>2. m \in RPCs
      BY <3>1 DEF RPCs
    <3> QED
      BY <1>1, <2>1, <3>2, HeadIsHeld
  <2>2. CASE mDeferred[s] # <<>> /\ m = Last(mDeferred[s])
    BY <1>1, <2>2, DeferredIsHeld, MessagesAre
  <2> QED
    BY <1>3, <2>1, <2>2
<1>5. ASSUME m \in Requests, mStack[s] = <<>>
      PROVE  m.guess = 0
  <2>1. m.guess \in Nat
    BY <1>5, MessagesAre
  <2>2. m.guess <= Len(mStack[s]) /\ Len(mStack[s]) = 0
    BY <1>1, <1>4, <1>5, GuessIsLow
  <2> QED
    BY <2>1, <2>2
<1> QED
  BY <1>4, <1>5

\* What the event loop takes off the queue races with an out-call.
LEMMA RacesWithCall ==
    ASSUME IInv, NEW s \in Sides, NEW m, Undeferred(s).pending # <<>>,
           m = Head(Undeferred(s).pending), m.kind = "rpc", ~m.reply, Raced(s, m, 0)
    PROVE  mStack[s] # <<>>
<1> SUFFICES ASSUME mStack[s] = <<>>
             PROVE  FALSE
  OBVIOUS
<1>1. Booked
  BY DEF IInv
<1>2. m \in Requests
  BY DequeuedIs DEF Requests
<1>3. m.guess = 0
  BY <1>2, DequeuedIs
<1>4. mOutOfTurnReplies[s] = {}
  BY <1>1, NoCallNoReply
<1>5. RemoteViewOfStackDepth(s, 0) = 0
  <2>1. Cardinality(mOutOfTurnReplies[s]) = 0
    BY <1>4, FS_EmptySet
  <2>2. RemoteViewOfStackDepth(s, 0) = (0 - 0) % 65536
    BY <2>1 DEF RemoteViewOfStackDepth, SizeT
  <2>3. (0 - 0) % 65536 = 0
    OBVIOUS
  <2> QED
    BY <2>2, <2>3
<1> QED
  BY <1>3, <1>5 DEF Raced

\* A race is only detected with an out-call outstanding, and the event loop is
\* never handed a reply (RPCChannel.cpp:419, 430-431).
THEOREM IncallsAreSane == Spec => []IncallSane
<1>1. IInv => IncallSane
  <2> SUFFICES ASSUME IInv, NEW s \in Sides, NEW m \in ToSet(Undeferred(s).pending),
                      Dequeues(s, m), m.kind = "rpc"
               PROVE  /\ frames[s] = <<>> => ~m.reply
                      /\ ~m.reply /\ Raced(s, m, 0) => mStack[s] # <<>>
    BY DEF IncallSane
  <2>1. Booked /\ SideSound(s)
    BY DEF IInv, Booked, Base
  <2>2. connected[s] /\ Undeferred(s).pending # <<>> /\ m = Head(Undeferred(s).pending)
    BY DEF Dequeues
  <2>3. /\ m \in RPCs /\ HeldBy(s, m) > 0
        /\ m \in Requests /\ mStack[s] = <<>> => m.guess = 0
    BY <2>2, DequeuedIs
  <2>4. ASSUME frames[s] = <<>>, m.reply
        PROVE  FALSE
    <3>1. mStack[s] = <<>>
      BY <2>1, <2>2, <2>4 DEF SideSound, Sound
    <3>2. m \notin Requests
      BY <2>4 DEF Requests
    <3>3. m = RPCReply(m.seqno) /\ m.seqno \in Int
      BY <2>3, <3>2, MessagesAre
    <3>4. PICK n \in Int : m = RPCReply(n)
      BY <3>3
    <3>5. HeldBy(s, RPCReply(n)) = 0
      BY <2>1, <3>1, NoCallNoReply
    <3> QED
      BY <2>3, <3>4, <3>5
  <2>5. ~m.reply /\ Raced(s, m, 0) => mStack[s] # <<>>
    BY <2>2, RacesWithCall
  <2> QED
    BY <2>4, <2>5
<1> QED
  BY <1>1, InitIInv, IInvStays, PTL DEF Spec


-----------------------------------------------------------------------------
(***************************************************************************)
(* Where the sync messages are.  Only the child sends them, and it waits   *)
(* until the reply to one is there: the message, its handler or the reply  *)
(* is in one place at a time, and nothing is sent to the parent meanwhile. *)
(***************************************************************************)

\* Some element of q is in X, the last one at most, and one at most.
Bears(q, X) == \E i \in 1 .. Len(q) : q[i] \in X
AtEnd(q, X) == \A i \in 1 .. Len(q) : q[i] \in X => i = Len(q)
Once(q, X) == \A i, j \in 1 .. Len(q) : q[i] \in X /\ q[j] \in X => i = j

\* Nothing is in the empty sequence.
LEMMA MarksEmpty ==
    ASSUME NEW X
    PROVE  ~Bears(<<>>, X) /\ AtEnd(<<>>, X) /\ Once(<<>>, X)
<1>1. 1 .. Len(<<>>) = {}
  OBVIOUS
<1> QED
  BY <1>1, Zenon DEF Bears, AtEnd, Once

\* What a sequence bears when it is appended to.
LEMMA MarksAppend ==
    ASSUME NEW S, NEW q \in Seq(S), NEW x \in S, NEW X
    PROVE  /\ Bears(Append(q, x), X) <=> Bears(q, X) \/ x \in X
           /\ AtEnd(Append(q, x), X) <=> ~Bears(q, X)
           /\ Once(Append(q, x), X) <=> Once(q, X) /\ (x \in X => ~Bears(q, X))
<1> DEFINE r == Append(q, x)
           n == Len(q)
<1>1. /\ n \in Nat /\ Len(r) = n + 1 /\ r[n + 1] = x
      /\ \A i \in 1 .. n : r[i] = q[i]
  BY AppendIs
<1> HIDE DEF r, n
<1>2. /\ n + 1 \in 1 .. Len(r) /\ 1 .. n \subseteq 1 .. Len(r) /\ n + 1 \notin 1 .. n
      /\ \A i \in 1 .. Len(r) : i = n + 1 \/ i \in 1 .. n
  BY <1>1
<1>3. Bears(r, X) <=> Bears(q, X) \/ x \in X
  <2>1. Bears(q, X) <=> \E i \in 1 .. n : r[i] \in X
    BY <1>1 DEF Bears, n
  <2> QED
    BY <1>1, <1>2, <2>1 DEF Bears
<1>4. AtEnd(r, X) <=> ~Bears(q, X)
  <2>1. Bears(q, X) <=> \E i \in 1 .. n : r[i] \in X
    BY <1>1 DEF Bears, n
  <2> QED
    BY <1>1, <1>2, <2>1 DEF AtEnd
<1>5. Once(r, X) <=> Once(q, X) /\ (x \in X => ~Bears(q, X))
  <2>1. Bears(q, X) <=> \E i \in 1 .. n : r[i] \in X
    BY <1>1 DEF Bears, n
  <2>2. Once(q, X) <=> \A i, j \in 1 .. n : r[i] \in X /\ r[j] \in X => i = j
    BY <1>1 DEF Once, n
  <2> QED
    BY <1>1, <1>2, <2>1, <2>2 DEF Once
<1> QED
  BY <1>3, <1>4, <1>5 DEF r

\* What the front of a sequence bears.
LEMMA MarksFront ==
    ASSUME NEW S, NEW q \in Seq(S), q # <<>>, NEW X
    PROVE  /\ Front(q) \in Seq(S)
           /\ Bears(q, X) <=> Bears(Front(q), X) \/ Last(q) \in X
           /\ AtEnd(q, X) <=> ~Bears(Front(q), X)
           /\ Once(q, X) <=> Once(Front(q), X) /\ (Last(q) \in X => ~Bears(Front(q), X))
<1> DEFINE p == Front(q)
           x == Last(q)
<1>1. p \in Seq(S) /\ x \in S /\ q = Append(p, x)
  BY FrontLast
<1>2. q = Append(p, x)
  BY <1>1
<1> HIDE DEF p, x
<1>3. /\ Bears(Append(p, x), X) <=> Bears(p, X) \/ x \in X
      /\ AtEnd(Append(p, x), X) <=> ~Bears(p, X)
      /\ Once(Append(p, x), X) <=> Once(p, X) /\ (x \in X => ~Bears(p, X))
  BY <1>1, MarksAppend
<1> QED
  BY <1>1, <1>2, <1>3 DEF p, x

\* What the tail of a sequence bears.
LEMMA MarksTail ==
    ASSUME NEW S, NEW q \in Seq(S), q # <<>>, NEW X
    PROVE  /\ Head(q) \in S /\ Tail(q) \in Seq(S)
           /\ Bears(q, X) <=> Bears(Tail(q), X) \/ Head(q) \in X
           /\ AtEnd(q, X) => AtEnd(Tail(q), X) /\ (Head(q) \in X => Tail(q) = <<>> /\ Len(q) = 1)
           /\ Once(q, X) => Once(Tail(q), X) /\ (Head(q) \in X => ~Bears(Tail(q), X))
<1> DEFINE r == Tail(q)
           h == Head(q)
           n == Len(q)
<1>1. /\ n \in Nat \ {0} /\ r \in Seq(S) /\ Len(r) = n - 1 /\ h = q[1] /\ h \in S
      /\ \A i \in 1 .. Len(r) : r[i] = q[i + 1]
      /\ r = <<>> <=> Len(r) = 0
  <2>1. /\ r \in Seq(S) /\ Len(r) = n - 1 /\ h \in S
        /\ \A i \in 1 .. Len(r) : r[i] = q[i + 1]
    BY HeadTailProperties
  <2>2. n \in Nat \ {0}
    BY EmptySeq, LenProperties
  <2>3. h = q[1]
    OBVIOUS
  <2>4. r = <<>> <=> Len(r) = 0
    BY <2>1, EmptySeq
  <2> HIDE DEF r, h, n
  <2> QED
    BY <2>1, <2>2, <2>3, <2>4
<1> HIDE DEF r, h, n
<1>2. /\ 1 \in 1 .. n /\ \A i \in 1 .. Len(r) : i + 1 \in 1 .. n /\ i + 1 # 1
      /\ \A i \in 1 .. n : i = 1 \/ (i - 1 \in 1 .. Len(r) /\ (i - 1) + 1 = i)
  BY <1>1
<1>3. Bears(q, X) <=> Bears(r, X) \/ h \in X
  <2>1. ASSUME NEW i \in 1 .. n, q[i] \in X
        PROVE  Bears(r, X) \/ h \in X
    <3>1. CASE i = 1
      BY <1>1, <2>1, <3>1
    <3>2. CASE i - 1 \in 1 .. Len(r) /\ (i - 1) + 1 = i
      <4>1. r[i - 1] \in X
        BY <1>1, <2>1, <3>2
      <4> QED
        BY <3>2, <4>1 DEF Bears
    <3> QED
      BY <1>2, <3>1, <3>2
  <2>2. Bears(r, X) \/ h \in X => \E i \in 1 .. n : q[i] \in X
    BY <1>1, <1>2 DEF Bears
  <2> QED
    BY <2>1, <2>2 DEF Bears, n
<1>4. ASSUME AtEnd(q, X)
      PROVE  AtEnd(r, X) /\ (h \in X => r = <<>> /\ n = 1)
  <2>1. \A i \in 1 .. n : q[i] \in X => i = n
    BY <1>4 DEF AtEnd, n
  <2>2. ASSUME NEW i \in 1 .. Len(r), r[i] \in X
        PROVE  i = Len(r)
    <3>1. i + 1 = n
      BY <1>1, <1>2, <2>1, <2>2
    <3> QED
      BY <1>1, <3>1
  <2>3. ASSUME h \in X
        PROVE  r = <<>> /\ n = 1
    <3>1. 1 = n
      BY <1>1, <1>2, <2>1, <2>3
    <3> QED
      BY <1>1, <3>1
  <2> QED
    BY <2>2, <2>3 DEF AtEnd
<1>5. ASSUME Once(q, X)
      PROVE  Once(r, X) /\ (h \in X => ~Bears(r, X))
  <2>1. \A i, j \in 1 .. n : q[i] \in X /\ q[j] \in X => i = j
    BY <1>5 DEF Once, n
  <2>2. ASSUME NEW i \in 1 .. Len(r), NEW j \in 1 .. Len(r), r[i] \in X, r[j] \in X
        PROVE  i = j
    <3>1. i + 1 = j + 1
      BY <1>1, <1>2, <2>1, <2>2
    <3> QED
      BY <3>1
  <2>3. ASSUME h \in X, NEW i \in 1 .. Len(r), r[i] \in X
        PROVE  FALSE
    <3>1. i + 1 = 1
      BY <1>1, <1>2, <2>1, <2>3
    <3> QED
      BY <1>2, <3>1
  <2> QED
    BY <2>2, <2>3 DEF Once, Bears
<1> QED
  BY <1>1, <1>3, <1>4, <1>5 DEF r, h, n

Syncs == {m \in Message : m.kind = "sync"}
SyncIns == {x \in FrameRec : x.at = "syncin"}
SyncOuts == {x \in FrameRec : x.at = "syncout"}

\* A frame of neither end of a sync message.
Unsynced(x) == x \in FrameRec \ (SyncIns \cup SyncOuts)

\* The stack h is the stack f with its top frame left or replaced, or with new
\* frames, none of them of a sync message.
Slides(f, h) ==
    \/ h = f
    \/ \E x \in FrameRec : Unsynced(x) /\ h = Append(f, x)
    \/ /\ f # <<>>
       /\ \/ h = Front(f)
          \/ \E x \in FrameRec : Unsynced(x) /\ h = Append(Front(f), x)
          \/ \E x, y \in FrameRec : /\ Unsynced(x) /\ Unsynced(y)
                                    /\ h = Append(Append(Front(f), x), y)

\* Such a stack has no more frames of sync messages.
LEMMA SlidesFewer ==
    ASSUME NEW f \in Stacks, NEW h, Slides(f, h), NEW X \in {SyncIns, SyncOuts}
    PROVE  h \in Stacks /\ (Bears(h, X) => Bears(f, X)) /\ (Once(f, X) => Once(h, X))
<1>1. \A x : Unsynced(x) => x \in FrameRec /\ x \notin X
  BY DEF Unsynced
<1>2. ASSUME NEW p \in Stacks, NEW x \in FrameRec, Unsynced(x)
      PROVE  /\ Append(p, x) \in Stacks
             /\ Bears(Append(p, x), X) <=> Bears(p, X)
             /\ Once(Append(p, x), X) <=> Once(p, X)
  BY <1>1, <1>2, MarksAppend, AppendIs DEF Stacks
<1>3. ASSUME f # <<>>
      PROVE  /\ Front(f) \in Stacks /\ (Bears(Front(f), X) => Bears(f, X))
             /\ Once(f, X) => Once(Front(f), X)
  BY <1>3, MarksFront DEF Stacks
<1>4. CASE h = f
  BY <1>4
<1>5. CASE \E x \in FrameRec : Unsynced(x) /\ h = Append(f, x)
  BY <1>2, <1>5
<1>6. CASE f # <<>> /\ h = Front(f)
  BY <1>3, <1>6
<1>7. CASE f # <<>> /\ \E x \in FrameRec : Unsynced(x) /\ h = Append(Front(f), x)
  BY <1>2, <1>3, <1>7
<1>8. ASSUME f # <<>>, NEW x \in FrameRec, NEW y \in FrameRec, Unsynced(x), Unsynced(y),
             h = Append(Append(Front(f), x), y)
      PROVE  h \in Stacks /\ (Bears(h, X) => Bears(f, X)) /\ (Once(f, X) => Once(h, X))
  <2>1. /\ Front(f) \in Stacks /\ (Bears(Front(f), X) => Bears(f, X))
        /\ Once(f, X) => Once(Front(f), X)
    BY <1>3, <1>8
  <2>2. PICK p \in Stacks : p = Append(Front(f), x) /\ (Bears(p, X) <=> Bears(Front(f), X))
                            /\ (Once(p, X) <=> Once(Front(f), X))
    BY <1>2, <1>8, <2>1
  <2>3. h = Append(p, y)
    BY <1>8, <2>2
  <2> QED
    BY <1>2, <1>8, <2>1, <2>2, <2>3
<1> QED
  BY <1>4, <1>5, <1>6, <1>7, <1>8 DEF Slides

\* The sync message is pending for the parent or on its wire, its handler runs, or
\* the reply is on the child's wire or has arrived, and nothing comes after it.
Underway == \/ Bears(mPending["parent"], Syncs) \/ Bears(wire["parent"], Syncs)
            \/ Bears(frames["parent"], SyncIns)
            \/ Bears(wire["child"], Syncs) \/ mRecvd["child"]

InTurn(p, w, f, b, g) ==
    /\ AtEnd(p, Syncs) /\ AtEnd(w, Syncs) /\ Once(f, SyncIns) /\ Once(b, Syncs)
    /\ Bears(p, Syncs) => w = <<>>
    /\ Bears(p, Syncs) \/ Bears(w, Syncs) => ~Bears(f, SyncIns) /\ ~Bears(b, Syncs) /\ ~g
    /\ Bears(f, SyncIns) => ~Bears(b, Syncs) /\ ~g
    /\ Bears(b, Syncs) => ~g

\* The child waits for it.
ChildWaits ==
    /\ AtEnd(frames["child"], SyncOuts) /\ ~Bears(frames["child"], SyncIns)
    /\ ~Bears(mPending["child"], Syncs)
    /\ mNextSeqno["child"] <= 0 /\ mPendingReply["parent"] = 0
    /\ connected["child"] => /\ Underway => At("child") = "syncout"
                             /\ At("child") = "syncout" => mPendingReply["child"] # 0

SyncFine ==
    /\ InTurn(mPending["parent"], wire["parent"], frames["parent"], wire["child"],
              mRecvd["child"])
    /\ ChildWaits

\* A step of side a in which no sync message moves: what it may do to its stack, its
\* queue and the wires.
Calmly(a) ==
    /\ mPendingReply' = mPendingReply /\ mRecvd' = mRecvd /\ mNextSeqno'["child"] <= 0
    /\ Slides(frames[a], frames'[a])
    /\ Bears(mPending'[a], Syncs) => Bears(mPending[a], Syncs)
    /\ a = "parent" => (AtEnd(mPending[a], Syncs) => AtEnd(mPending'[a], Syncs))
    /\ frames'[Other(a)] = frames[Other(a)] /\ mPending'[Other(a)] = mPending[Other(a)]
    /\ connected'[Other(a)] = connected[Other(a)] /\ (connected'[a] => connected[a])
    /\ wire'[a] = wire[a] \/ wire'[a] = <<>>
    /\ \/ wire'[Other(a)] = wire[Other(a)]
       \/ /\ connected'[a]
          /\ \E x \in Message \ Syncs : wire'[Other(a)] = Append(wire[Other(a)], x)
    /\ \/ At(a) # "syncout"
       \/ a = "parent"
       \/ frames'[a] = frames[a] /\ ~connected'[a]

\* Where the child is when it waits for a sync reply.
LEMMA AtSyncOut ==
    ASSUME Base, NEW s \in Sides, AtEnd(frames[s], SyncOuts)
    PROVE  /\ Bears(frames[s], SyncOuts) <=> At(s) = "syncout"
           /\ ~Bears(frames[s], SyncIns) => At(s) # "syncin"
<1>1. frames[s] \in Seq(FrameRec)
  BY SideTyped DEF Base, Stacks
<1>2. CASE frames[s] = <<>>
  BY <1>2, MarksEmpty DEF At
<1>3. CASE frames[s] # <<>>
  <2>1. /\ Last(frames[s]) \in FrameRec /\ At(s) = Last(frames[s]).at
        /\ Last(frames[s]) \in SyncOuts <=> At(s) = "syncout"
        /\ Last(frames[s]) \in SyncIns <=> At(s) = "syncin"
    BY <1>1, <1>3, FrontLast DEF At, SyncOuts, SyncIns
  <2>2. ~Bears(Front(frames[s]), SyncOuts)
    BY <1>1, <1>3, MarksFront
  <2>3. Bears(frames[s], SyncOuts) <=> Last(frames[s]) \in SyncOuts
    BY <1>1, <1>3, <2>2, MarksFront
  <2>4. Last(frames[s]) \in SyncIns => Bears(frames[s], SyncIns)
    BY <1>1, <1>3, MarksFront
  <2> QED
    BY <2>1, <2>3, <2>4
<1> QED
  BY <1>2, <1>3

\* In every sound state.
LEMMA AtOuts ==
    Base => \A s \in Sides : AtEnd(frames[s], SyncOuts)
                                => (Bears(frames[s], SyncOuts) <=> At(s) = "syncout")
BY AtSyncOut

\* A message that is no sync message adds none to a wire.
LEMMA MarksSent ==
    ASSUME NEW w \in Seq(Message), NEW v, NEW c \in BOOLEAN,
           v = w \/ (c /\ \E x \in Message \ Syncs : v = Append(w, x))
    PROVE  /\ v \in Seq(Message) /\ (Bears(v, Syncs) <=> Bears(w, Syncs))
           /\ Once(v, Syncs) <=> Once(w, Syncs)
           /\ v = w \/ c
<1>1. CASE v = w
  BY <1>1
<1>2. ASSUME c, NEW x \in Message \ Syncs, v = Append(w, x)
      PROVE  /\ v \in Seq(Message) /\ (Bears(v, Syncs) <=> Bears(w, Syncs))
             /\ Once(v, Syncs) <=> Once(w, Syncs)
  BY <1>2, MarksAppend, AppendIs
<1> QED
  BY <1>1, <1>2

\* Such a step of the parent leaves the sync message in one place.
LEMMA CalmParent ==
    ASSUME Base, SyncFine, Calmly("parent")
    PROVE  SyncFine'
<1> DEFINE c == "child"
           r == "parent"
<1>1. TypeOK /\ r \in Sides /\ c \in Sides /\ Other(r) = c
  BY DEF Base, Sides, Other
<1>2. /\ wire[r] \in Seq(Message) /\ wire[c] \in Seq(Message) /\ frames[r] \in Stacks
      /\ connected[r] \in BOOLEAN
  BY <1>1, SideTyped
<1> HIDE DEF c, r
<1>3. InTurn(mPending[r], wire[r], frames[r], wire[c], mRecvd[c]) /\ ChildWaits
  BY DEF SyncFine, c, r
<1>4. /\ mPendingReply' = mPendingReply /\ mRecvd' = mRecvd /\ mNextSeqno'[c] <= 0
      /\ Slides(frames[r], frames'[r])
      /\ Bears(mPending'[r], Syncs) => Bears(mPending[r], Syncs)
      /\ AtEnd(mPending[r], Syncs) => AtEnd(mPending'[r], Syncs)
      /\ frames'[c] = frames[c] /\ mPending'[c] = mPending[c] /\ connected'[c] = connected[c]
      /\ wire'[r] = wire[r] \/ wire'[r] = <<>>
      /\ \/ wire'[c] = wire[c]
         \/ /\ connected'[r]
            /\ \E x \in Message \ Syncs : wire'[c] = Append(wire[c], x)
  BY <1>1 DEF Calmly, c, r
<1>5. /\ Bears(frames'[r], SyncIns) => Bears(frames[r], SyncIns)
      /\ Once(frames[r], SyncIns) => Once(frames'[r], SyncIns)
  BY <1>2, <1>4, SlidesFewer
<1>6. AtEnd(wire[r], Syncs) => AtEnd(wire'[r], Syncs)
  BY <1>4, MarksEmpty
<1>7. Bears(wire'[r], Syncs) => Bears(wire[r], Syncs)
  BY <1>4, MarksEmpty
<1>8. (Bears(wire'[c], Syncs) <=> Bears(wire[c], Syncs)) /\ (Once(wire'[c], Syncs) <=> Once(wire[c], Syncs))
  <2>1. wire'[c] = wire[c] \/ (TRUE /\ \E x \in Message \ Syncs : wire'[c] = Append(wire[c], x))
    BY <1>4
  <2> QED
    BY <1>2, <2>1, MarksSent
<1>9. InTurn(mPending'[r], wire'[r], frames'[r], wire'[c], mRecvd'[c])
  BY <1>3, <1>4, <1>5, <1>6, <1>7, <1>8 DEF InTurn
<1>10. Underway' => Underway
  BY <1>4, <1>5, <1>7, <1>8 DEF Underway, c, r
<1>11. ChildWaits'
  BY <1>3, <1>4, <1>10 DEF ChildWaits, At, c, r
<1> QED
  BY <1>9, <1>11 DEF SyncFine, c, r

\* And so does one of the child, which has then nothing underway, or is no longer
\* connected.
LEMMA CalmChild ==
    ASSUME Base, Base', SyncFine, Calmly("child")
    PROVE  SyncFine'
<1> DEFINE c == "child"
           r == "parent"
<1>1. TypeOK /\ r \in Sides /\ c \in Sides /\ Other(c) = r /\ c # r
  BY DEF Base, Sides, Other
<1>2. /\ wire[r] \in Seq(Message) /\ wire[c] \in Seq(Message) /\ frames[c] \in Stacks
      /\ connected[c] \in BOOLEAN
  BY <1>1, SideTyped
<1>3. connected'[c] \in BOOLEAN
  BY <1>1 DEF Base, TypeOK
<1> HIDE DEF c, r
<1>4. InTurn(mPending[r], wire[r], frames[r], wire[c], mRecvd[c]) /\ ChildWaits
  BY DEF SyncFine, c, r
<1>5. /\ mPendingReply' = mPendingReply /\ mRecvd' = mRecvd /\ mNextSeqno'[c] <= 0
      /\ Slides(frames[c], frames'[c])
      /\ Bears(mPending'[c], Syncs) => Bears(mPending[c], Syncs)
      /\ frames'[r] = frames[r] /\ mPending'[r] = mPending[r]
      /\ connected'[c] => connected[c]
      /\ wire'[c] = wire[c] \/ wire'[c] = <<>>
      /\ \/ wire'[r] = wire[r]
         \/ /\ connected'[c]
            /\ \E x \in Message \ Syncs : wire'[r] = Append(wire[r], x)
      /\ At(c) # "syncout" \/ (frames'[c] = frames[c] /\ ~connected'[c])
  BY <1>1, Zenon DEF Calmly, c, r
<1>6. /\ Bears(frames'[c], SyncIns) => Bears(frames[c], SyncIns)
      /\ Bears(frames'[c], SyncOuts) => Bears(frames[c], SyncOuts)
  BY <1>2, <1>5, SlidesFewer
<1>7. AtEnd(frames[c], SyncOuts) /\ ~Bears(frames[c], SyncIns)
  BY <1>4 DEF ChildWaits, c
<1>8. Bears(frames[c], SyncOuts) <=> At(c) = "syncout"
  BY <1>1, <1>7, AtSyncOut
<1>9. /\ AtEnd(frames'[c], SyncOuts)
      /\ ~Bears(frames'[c], SyncIns)
      /\ connected'[c] => ~Bears(frames'[c], SyncOuts) /\ At(c) # "syncout"
  <2>1. CASE At(c) # "syncout"
    <3>1. ~Bears(frames'[c], SyncOuts)
      BY <1>6, <1>8, <2>1
    <3>2. AtEnd(frames'[c], SyncOuts)
      BY <3>1 DEF Bears, AtEnd
    <3> QED
      BY <1>6, <1>7, <2>1, <3>1, <3>2
  <2>2. CASE frames'[c] = frames[c] /\ ~connected'[c]
    BY <1>7, <2>2
  <2> QED
    BY <1>5, <2>1, <2>2
<1>10. connected'[c] => ~Underway
  BY <1>4, <1>5, <1>9 DEF ChildWaits, c
<1>11. /\ Bears(wire'[c], Syncs) => Bears(wire[c], Syncs)
       /\ Once(wire[c], Syncs) => Once(wire'[c], Syncs)
  BY <1>5, MarksEmpty
<1>12. (Bears(wire'[r], Syncs) <=> Bears(wire[r], Syncs)) /\ (wire'[r] = wire[r] \/ connected'[c])
  BY <1>2, <1>3, <1>5, MarksSent
<1>13. ~Bears(wire'[r], Syncs) => AtEnd(wire'[r], Syncs)
  BY DEF Bears, AtEnd
<1>14. InTurn(mPending'[r], wire'[r], frames'[r], wire'[c], mRecvd'[c])
  <2>1. CASE connected'[c]
    <3>1. /\ ~Bears(mPending[r], Syncs) /\ ~Bears(wire[r], Syncs) /\ ~Bears(frames[r], SyncIns)
          /\ ~Bears(wire[c], Syncs) /\ ~mRecvd[c]
      BY <1>10, <2>1 DEF Underway, c, r
    <3> QED
      BY <1>4, <1>5, <1>11, <1>12, <1>13, <3>1 DEF InTurn
  <2>2. CASE ~connected'[c]
    <3>1. wire'[r] = wire[r]
      BY <1>12, <2>2
    <3> QED
      BY <1>4, <1>5, <1>11, <3>1 DEF InTurn
  <2> QED
    BY <1>3, <2>1, <2>2
<1>15. connected'[c] => ~Underway'
  BY <1>5, <1>10, <1>11, <1>12 DEF Underway, c, r
<1>16. connected'[c] => At(c)' # "syncout"
  <2>1. Base' => (\A s \in Sides : AtEnd(frames[s], SyncOuts)
                             => (Bears(frames[s], SyncOuts) <=> At(s) = "syncout"))'
    BY AtOuts, PTL
  <2> QED
    BY <1>1, <1>9, <2>1
<1>17. ChildWaits'
  BY <1>4, <1>5, <1>9, <1>15, <1>16 DEF ChildWaits, c, r
<1> QED
  BY <1>14, <1>17 DEF SyncFine, c, r

\* A step in which no sync message moves keeps what is known of it.
LEMMA CalmStep ==
    ASSUME Base, Base', SyncFine, NEW a \in Sides, Calmly(a)
    PROVE  SyncFine'
<1>1. a = "parent" \/ a = "child"
  BY DEF Sides
<1> QED
  BY <1>1, CalmParent, CalmChild

\* Most steps leave the link as it is and may send a message that is no sync message.
LEMMA CalmAction ==
    ASSUME Base, Base', SyncFine, NEW a \in Sides, At(a) # "syncout",
           NEW h, Replaced(frames, frames', a, h), Slides(frames[a], h),
           NEW p, Replaced(mPending, mPending', a, p),
           Bears(p, Syncs) => Bears(mPending[a], Syncs),
           a = "parent" => (AtEnd(mPending[a], Syncs) => AtEnd(p, Syncs)),
           UNCHANGED syncVars, mNextSeqno'["child"] <= 0, connected' = connected,
           \/ wire' = wire
           \/ connected[a] /\ \E x \in Message \ Syncs : SendMessage(a, x)
    PROVE  SyncFine'
<1>1. TypeOK /\ Other(a) \in Sides /\ Other(a) # a
  BY SidesAre DEF Base
<1>2. frames \in [Sides -> Stacks] /\ mPending \in [Sides -> Seq(Message)]
  BY <1>1 DEF TypeOK, Stacks, FrameRec
<1>3. /\ frames'[a] = h /\ frames'[Other(a)] = frames[Other(a)]
      /\ mPending'[a] = p /\ mPending'[Other(a)] = mPending[Other(a)]
  BY <1>1, <1>2 DEF Replaced
<1>4. /\ wire'[a] = wire[a] \/ wire'[a] = <<>>
      /\ \/ wire'[Other(a)] = wire[Other(a)]
         \/ /\ connected'[a]
            /\ \E x \in Message \ Syncs : wire'[Other(a)] = Append(wire[Other(a)], x)
  <2>1. CASE wire' = wire
    BY <2>1
  <2>2. ASSUME connected[a], NEW x \in Message \ Syncs, SendMessage(a, x)
        PROVE  wire'[a] = wire[a] /\ wire'[Other(a)] = Append(wire[Other(a)], x)
    BY <1>1, <2>2, Sent
  <2> QED
    BY <2>1, <2>2
<1>5. mPendingReply' = mPendingReply /\ mRecvd' = mRecvd
  BY DEF syncVars
<1>6. Calmly(a)
  BY <1>3, <1>4, <1>5 DEF Calmly
<1> QED
  BY <1>6, CalmStep

\* The frames of no sync message.
LEMMA UnsyncedFrames ==
    /\ \A at \in FrameKinds \ {"syncin", "syncout"}, n \in Int :
          Frame(at, n) \in FrameRec /\ Unsynced(Frame(at, n))
    /\ Unsynced(AsyncHandler)
<1>1. \A at \in FrameKinds \ {"syncin", "syncout"}, n \in Int :
         Frame(at, n) \in FrameRec /\ Unsynced(Frame(at, n))
  BY FramesAre DEF Unsynced, SyncIns, SyncOuts
<1>2. "async" \in FrameKinds \ {"syncin", "syncout"} /\ 0 \in Int
  BY DEF FrameKinds
<1> QED
  BY <1>1, <1>2 DEF AsyncHandler

\* The top frame is replaced, or a frame is pushed on the stack or above the frame
\* that is replaced.
LEMMA SlidesTop ==
    ASSUME Base, NEW a \in Sides, NEW at \in FrameKinds \ {"syncin", "syncout"}, NEW n \in Int
    PROVE  /\ Slides(frames[a], Append(frames[a], Frame(at, n)))
           /\ frames[a] # <<>> => Slides(frames[a], Append(Front(frames[a]), Frame(at, n)))
BY UnsyncedFrames, Zenon DEF Slides

\* MaybeUndeferIncall adds only requests to the queue, and none to the parent's.
LEMMA UndeferCalm ==
    ASSUME Base, mDeferred["parent"] = <<>>, NEW a \in Sides
    PROVE  LET p == Undeferred(a).pending
           IN  /\ p \in Seq(Message)
               /\ Bears(p, Syncs) => Bears(mPending[a], Syncs)
               /\ a = "parent" => p = mPending[a]
<1> DEFINE p == Undeferred(a).pending
<1>1. p \in Seq(Message)
  BY UndeferIs
<1>2. CASE ~MustUndefer(a)
  <2>1. p = mPending[a]
    BY <1>2 DEF Undeferred
  <2> QED
    BY <1>1, <2>1
<1>3. CASE MustUndefer(a)
  <2> DEFINE e == Last(mDeferred[a])
             N == Len(mDeferred[a])
  <2>1. p = Append(mPending[a], e) /\ mDeferred[a] # <<>> /\ a # "parent"
    BY <1>3 DEF Undeferred, MustUndefer
  <2>2. mPending[a] \in Seq(Message) /\ mDeferred[a] \in Seq(Message)
    BY SideTyped DEF Base
  <2>3. N \in Nat \ {0} /\ mDeferred[a][N] = e
    BY <2>1, <2>2, FrontLast
  <2>4. N \in 1 .. N
    BY <2>3
  <2>5. e \in Requests
    BY <2>3, <2>4 DEF Base, SideSound, Sound
  <2>6. e \in Message \ Syncs
    BY <2>5 DEF Requests, RPCs, Syncs
  <2>7. Bears(p, Syncs) => Bears(mPending[a], Syncs)
    BY <2>1, <2>2, <2>6, MarksAppend
  <2> QED
    BY <1>1, <2>1, <2>7
<1> QED
  BY <1>2, <1>3

\* What Call, CallLoop, CallFails, CallTakesOutOfTurn and the timeout of a reply do to
\* sync messages: nothing.
LEMMA CallsAreCalm ==
    ASSUME Base, Base', SyncFine, mDeferred["parent"] = <<>>, NEW a \in Sides,
           \/ Call(a) \/ CallLoop(a) \/ CallFails(a) \/ CallTakesOutOfTurn(a)
           \/ ReplyTimesOut(a) \/ ContinueFromTimeout(a)
    PROVE  SyncFine'
<1>1. TypeOK /\ mNextSeqno["child"] <= 0
  BY DEF Base, SyncFine, ChildWaits
<1>2. frames[a] \in Stacks /\ mPending[a] \in Seq(Message) /\ mRemoteStackDepthGuess[a] \in Nat
  BY <1>1, SideTyped
<1>3. /\ {"calltop", "callwait", "timeout", "unwind"} \subseteq FrameKinds \ {"syncin", "syncout"}
      /\ 0 \in Int
  BY DEF FrameKinds
<1>4. At(a) # "loop" => frames[a] # <<>> /\ Last(frames[a]).seqno \in Int
  BY AtIs
<1>5. CASE Call(a)
  <2> DEFINE m == RPC(NextSeqno(a), mRemoteStackDepthGuess[a])
  <2>1. /\ InApp(a) /\ connected[a] /\ mNextSeqno' = [mNextSeqno EXCEPT ![a] = m.seqno]
        /\ SendMessage(a, m) /\ Push(a, Frame("calltop", m.seqno))
        /\ UNCHANGED <<queueVars, syncVars, connected>>
    BY <1>5, Zenon DEF Call
  <2>2. m.seqno = NextSeqno(a)
    BY DEF RPC
  <2>3. NextSeqno(a) \in Int /\ mNextSeqno'["child"] <= 0
    <3>1. NextSeqno(a) \in Int /\ mNextSeqno'[a] = NextSeqno(a)
          /\ mNextSeqno'[Other(a)] = mNextSeqno[Other(a)]
      BY <1>1, <2>1, <2>2, NextSeqnoIs
    <3>2. a = "child" \/ Other(a) = "child"
      BY DEF Sides, Other
    <3>3. mNextSeqno["child"] \in Int
      BY <1>1 DEF TypeOK, Sides
    <3> QED
      BY <1>1, <3>1, <3>2, <3>3 DEF NextSeqno
  <2>4. m \in Message \ Syncs
    <3>1. m \in Requests
      BY <1>2, <2>3, MessagesAre
    <3> HIDE DEF m
    <3> QED
      BY <3>1 DEF Requests, RPCs, Syncs
  <2>5. At(a) # "syncout"
    BY <2>1 DEF InApp
  <2>6. /\ Replaced(frames, frames', a, Append(frames[a], Frame("calltop", m.seqno)))
        /\ Replaced(mPending, mPending', a, mPending[a])
    BY <2>1, Zenon DEF Replaced, Push, queueVars
  <2>7. Slides(frames[a], Append(frames[a], Frame("calltop", m.seqno)))
    BY <1>3, <2>2, <2>3, SlidesTop
  <2> HIDE DEF m
  <2> QED
    BY <2>1, <2>3, <2>4, <2>5, <2>6, <2>7, CalmAction
<1>6. ASSUME NEW at \in {"callwait", "timeout", "unwind"}, NEW n \in Int, NEW p,
             At(a) \in {"calltop", "callwait", "timeout"}, SetTop(a, Frame(at, n)), Replaced(mPending, mPending', a, p),
             Bears(p, Syncs) => Bears(mPending[a], Syncs), a = "parent" => p = mPending[a],
             UNCHANGED <<mNextSeqno, syncVars, connected, wire>>
      PROVE  SyncFine'
  <2>1. At(a) # "loop" /\ At(a) # "syncout"
    BY <1>6
  <2>2. Slides(frames[a], Append(Front(frames[a]), Frame(at, n)))
    BY <1>3, <1>4, <1>6, <2>1, SlidesTop
  <2>3. Replaced(frames, frames', a, Append(Front(frames[a]), Frame(at, n)))
    BY <1>6 DEF Replaced, SetTop
  <2>4. mNextSeqno'["child"] <= 0 /\ UNCHANGED syncVars
    BY <1>1, <1>6
  <2> QED
    BY <1>6, <2>1, <2>2, <2>3, <2>4, CalmAction
<1>7. Replaced(mPending, mPending, a, mPending[a])
  BY DEF Replaced
<1>8. CASE CallLoop(a)
  <2> DEFINE p == Undeferred(a).pending
  <2>1. /\ At(a) = "calltop" /\ mPending' = [mPending EXCEPT ![a] = p]
        /\ SetTop(a, Frame("callwait", Last(frames[a]).seqno))
        /\ UNCHANGED <<mNextSeqno, syncVars, connected, wire>>
    BY <1>8, Zenon DEF CallLoop
  <2>2. /\ Bears(p, Syncs) => Bears(mPending[a], Syncs)
        /\ a = "parent" => p = mPending[a]
    BY UndeferCalm
  <2> HIDE DEF p
  <2>3. Replaced(mPending, mPending', a, p)
    BY <2>1 DEF Replaced
  <2>4. Last(frames[a]).seqno \in Int
    BY <1>4, <2>1
  <2> QED
    BY <1>6, <2>1, <2>2, <2>3, <2>4
<1>9. CASE CallFails(a)
  <2>1. /\ At(a) \in {"calltop", "callwait"} /\ SetTop(a, Frame("unwind", 0))
        /\ mPending' = mPending /\ UNCHANGED <<mNextSeqno, syncVars, connected, wire>>
    BY <1>9, Zenon DEF CallFails, NoticesError, queueVars
  <2>2. Replaced(mPending, mPending', a, mPending[a])
    BY <1>7, <2>1
  <2> QED
    BY <1>3, <1>6, <2>1, <2>2
<1>10. CASE CallTakesOutOfTurn(a)
  <2>1. /\ At(a) = "callwait" /\ SetTop(a, Frame("unwind", 0))
        /\ mPending' = mPending /\ UNCHANGED <<mNextSeqno, syncVars, connected, wire>>
    BY <1>10, Zenon DEF CallTakesOutOfTurn
  <2>2. Replaced(mPending, mPending', a, mPending[a])
    BY <1>7, <2>1
  <2> QED
    BY <1>3, <1>6, <2>1, <2>2
<1>11. CASE ReplyTimesOut(a)
  <2>1. /\ At(a) = "callwait" /\ SetTop(a, Frame("timeout", Last(frames[a]).seqno))
        /\ mPending' = mPending /\ UNCHANGED <<mNextSeqno, syncVars, connected, wire>>
    BY <1>11, Zenon DEF ReplyTimesOut, queueVars
  <2>2. Last(frames[a]).seqno \in Int
    BY <1>4, <2>1
  <2>3. Replaced(mPending, mPending', a, mPending[a])
    BY <1>7, <2>1
  <2> QED
    BY <1>6, <2>1, <2>2, <2>3
<1>12. CASE ContinueFromTimeout(a)
  <2>1. /\ At(a) = "timeout" /\ SetTop(a, Frame("callwait", Last(frames[a]).seqno))
        /\ mPending' = mPending /\ UNCHANGED <<mNextSeqno, syncVars, connected, wire>>
    BY <1>12, Zenon DEF ContinueFromTimeout, queueVars
  <2>2. Last(frames[a]).seqno \in Int
    BY <1>4, <2>1
  <2>3. Replaced(mPending, mPending', a, mPending[a])
    BY <1>7, <2>1
  <2> QED
    BY <1>6, <2>1, <2>2, <2>3
<1> QED
  BY <1>5, <1>8, <1>9, <1>10, <1>11, <1>12

\* What SendAsync, nested event loops, IncallDone and Unwind do to sync messages:
\* nothing.
LEMMA HandlersAreCalm ==
    ASSUME Base, Base', SyncFine, mDeferred["parent"] = <<>>, NEW a \in Sides,
           SendAsync(a) \/ SpinNestedLoop(a) \/ LeaveNestedLoop(a) \/ IncallDone(a) \/ Unwind(a)
    PROVE  SyncFine'
<1>1. TypeOK /\ mNextSeqno["child"] <= 0
  BY DEF Base, SyncFine, ChildWaits
<1>2. frames[a] \in Stacks /\ mPending[a] \in Seq(Message)
  BY <1>1, SideTyped
<1>3. At(a) # "loop" => frames[a] # <<>> /\ Last(frames[a]).seqno \in Int
  BY AtIs
<1>4. Replaced(mPending, mPending, a, mPending[a]) /\ Replaced(frames, frames, a, frames[a])
      /\ Slides(frames[a], frames[a])
  BY DEF Replaced, Slides
<1>5. CASE SendAsync(a)
  <2>1. /\ InApp(a) \/ At(a) = "syncin"
        /\ connected[a] /\ SendMessage(a, Async)
        /\ UNCHANGED <<queueVars, mNextSeqno, syncVars, connected, frames>>
    BY <1>5, Zenon DEF SendAsync
  <2>2. At(a) # "syncout" /\ mPending' = mPending /\ mNextSeqno' = mNextSeqno /\ frames' = frames
        /\ UNCHANGED syncVars /\ connected' = connected
    BY <2>1 DEF InApp, queueVars
  <2>3. Async \in Message \ Syncs
    BY MessagesAre DEF Syncs, Async
  <2> QED
    BY <1>1, <1>4, <2>1, <2>2, <2>3, CalmAction
<1>6. CASE SpinNestedLoop(a)
  <2> DEFINE h == Append(frames[a], Frame("nest", 0))
  <2>1. /\ At(a) \in {"incall", "async"} /\ frames' = [frames EXCEPT ![a] = h]
        /\ UNCHANGED <<queueVars, mNextSeqno, syncVars, connected, wire>>
    BY <1>6, Zenon DEF SpinNestedLoop, Push
  <2>2. At(a) # "syncout" /\ mPending' = mPending /\ mNextSeqno' = mNextSeqno
        /\ UNCHANGED syncVars /\ connected' = connected /\ wire' = wire
    BY <2>1 DEF queueVars
  <2>3. Slides(frames[a], h)
    <3>1. "nest" \in FrameKinds \ {"syncin", "syncout"} /\ 0 \in Int
      BY DEF FrameKinds
    <3> QED
      BY <3>1, SlidesTop
  <2> HIDE DEF h
  <2>4. Replaced(frames, frames', a, h)
    BY <2>1 DEF Replaced
  <2> QED
    BY <1>1, <1>4, <2>2, <2>3, <2>4, CalmAction
<1>7. CASE LeaveNestedLoop(a)
  <2> DEFINE h == Front(frames[a])
  <2>1. /\ At(a) = "nest" /\ frames' = [frames EXCEPT ![a] = h]
        /\ UNCHANGED <<queueVars, mNextSeqno, syncVars, connected, wire>>
    BY <1>7, Zenon DEF LeaveNestedLoop
  <2>2. At(a) # "syncout" /\ mPending' = mPending /\ mNextSeqno' = mNextSeqno
        /\ UNCHANGED syncVars /\ connected' = connected /\ wire' = wire
    BY <2>1 DEF queueVars
  <2>3. Slides(frames[a], h)
    BY <1>3, <2>1 DEF Slides
  <2> HIDE DEF h
  <2>4. Replaced(frames, frames', a, h)
    BY <2>1 DEF Replaced
  <2> QED
    BY <1>1, <1>4, <2>2, <2>3, <2>4, CalmAction
<1>8. CASE IncallDone(a)
  <2> DEFINE h == Append(Front(frames[a]), Frame("unwind", 0))
  <2>1. /\ At(a) = "incall" /\ frames' = [frames EXCEPT ![a] = h]
        /\ SendReply(a, RPCReply(Last(frames[a]).seqno))
        /\ UNCHANGED <<mPending, mNextSeqno, syncVars, connected>>
    BY <1>8, Zenon DEF IncallDone, SetTop
  <2>2. At(a) # "syncout" /\ mPending' = mPending /\ mNextSeqno' = mNextSeqno
        /\ UNCHANGED syncVars /\ connected' = connected
    BY <2>1
  <2>3. Slides(frames[a], h)
    <3>1. "unwind" \in FrameKinds \ {"syncin", "syncout"} /\ 0 \in Int
      BY DEF FrameKinds
    <3>2. frames[a] # <<>>
      BY <1>3, <2>1
    <3> QED
      BY <3>1, <3>2, SlidesTop
  <2> HIDE DEF h
  <2>4. Replaced(frames, frames', a, h)
    BY <2>1 DEF Replaced
  <2>5. PICK n \in Int : n = Last(frames[a]).seqno
    BY <1>3, <2>1
  <2>6. RPCReply(n) \in Message \ Syncs
    BY MessagesAre DEF Syncs, RPCReply
  <2>7. wire' = wire \/ (connected[a] /\ SendMessage(a, RPCReply(n)))
    BY <2>1, <2>5 DEF SendReply
  <2> QED
    BY <1>1, <1>4, <2>2, <2>3, <2>4, <2>6, <2>7, CalmAction
<1>9. CASE Unwind(a)
  <2> DEFINE h == Front(frames[a])
             p == Undeferred(a).pending
  <2>1. /\ At(a) \in {"unwind", "async"} /\ frames' = [frames EXCEPT ![a] = h]
        /\ mPending' = mPending \/ mPending' = [mPending EXCEPT ![a] = p]
        /\ UNCHANGED <<mNextSeqno, syncVars, connected, wire>>
    BY <1>9, Zenon DEF Unwind
  <2>2. At(a) # "syncout" /\ mNextSeqno' = mNextSeqno
        /\ UNCHANGED syncVars /\ connected' = connected /\ wire' = wire
    BY <2>1
  <2>3. Slides(frames[a], h)
    BY <1>3, <2>1 DEF Slides
  <2>4. /\ Bears(p, Syncs) => Bears(mPending[a], Syncs)
        /\ a = "parent" => p = mPending[a]
    BY UndeferCalm
  <2> HIDE DEF h, p
  <2>5. Replaced(frames, frames', a, h)
    BY <2>1 DEF Replaced
  <2>6. PICK q : Replaced(mPending, mPending', a, q) /\ (q = mPending[a] \/ q = p)
    BY <2>1 DEF Replaced
  <2> QED
    BY <1>1, <2>2, <2>3, <2>4, <2>5, <2>6, CalmAction
<1> QED
  BY <1>5, <1>6, <1>7, <1>8, <1>9

\* A link that fails, or is closed when a reply timed out, carries no sync message.
LEMMA ClosingIsCalm ==
    ASSUME Base, Base', SyncFine, NEW a \in Sides, OnChannelErrorFromLink(a) \/ GiveUp(a)
    PROVE  SyncFine'
<1>1. TypeOK /\ mNextSeqno["child"] <= 0 /\ Other(a) \in Sides /\ Other(a) # a
  BY SidesAre DEF Base, SyncFine, ChildWaits
<1>2. /\ connected' = [connected EXCEPT ![a] = FALSE] /\ wire' = [wire EXCEPT ![a] = <<>>]
      /\ UNCHANGED <<queueVars, mNextSeqno, syncVars>>
  BY Zenon DEF OnChannelErrorFromLink, GiveUp, CloseOnTimeout
<1>3. \/ frames' = frames
      \/ At(a) = "timeout" /\ frames' = [frames EXCEPT ![a] = Append(Front(frames[a]), Frame("unwind", 0))]
  BY Zenon DEF OnChannelErrorFromLink, GiveUp, SetTop
<1>4. connected \in [Sides -> BOOLEAN] /\ wire \in [Sides -> Seq(Message)] /\ frames \in [Sides -> Stacks]
  BY <1>1 DEF TypeOK, Stacks, FrameRec
<1>5. /\ ~connected'[a] /\ connected'[Other(a)] = connected[Other(a)]
      /\ wire'[a] = <<>> /\ wire'[Other(a)] = wire[Other(a)]
  BY <1>1, <1>2, <1>4
<1>6. /\ mPendingReply' = mPendingReply /\ mRecvd' = mRecvd /\ mNextSeqno' = mNextSeqno
      /\ mPending' = mPending
  BY <1>2 DEF queueVars, syncVars
<1>7. /\ Slides(frames[a], frames'[a]) /\ frames'[Other(a)] = frames[Other(a)]
      /\ At(a) # "syncout" \/ frames'[a] = frames[a]
  <2>1. CASE frames' = frames
    BY <2>1 DEF Slides
  <2>2. CASE /\ At(a) = "timeout"
             /\ frames' = [frames EXCEPT ![a] = Append(Front(frames[a]), Frame("unwind", 0))]
    <3>1. frames[a] # <<>>
      BY <2>2, AtIs
    <3>2. "unwind" \in FrameKinds \ {"syncin", "syncout"} /\ 0 \in Int
      BY DEF FrameKinds
    <3> DEFINE h == Append(Front(frames[a]), Frame("unwind", 0))
    <3>3. Slides(frames[a], h)
      BY <3>1, <3>2, SlidesTop
    <3>4. frames' = [frames EXCEPT ![a] = h]
      BY <2>2
    <3> HIDE DEF h
    <3>5. frames'[a] = h /\ frames'[Other(a)] = frames[Other(a)]
      BY <1>1, <1>4, <3>4
    <3> QED
      BY <2>2, <3>3, <3>5
  <2> QED
    BY <1>3, <2>1, <2>2
<1>8. Calmly(a)
  BY <1>1, <1>5, <1>6, <1>7, Zenon DEF Calmly
<1> QED
  BY <1>8, CalmStep

\* The child sends a sync message when none is underway, and waits.
LEMMA SendSyncMoves ==
    ASSUME Base, SyncFine, NEW a \in Sides, SendSync(a)
    PROVE  SyncFine'
<1> DEFINE c == "child"
           r == "parent"
           n == NextSeqno(c)
           w == wire[r]
           x == Frame("syncout", n)
           f == frames[c]
<1>1. TypeOK /\ r \in Sides /\ c \in Sides /\ Other(c) = r /\ c # r /\ a = c
  BY Zenon DEF Base, Sides, Other, SendSync
<1>2. /\ InApp(c) /\ connected[c] /\ mNextSeqno' = [mNextSeqno EXCEPT ![c] = n]
      /\ mPendingReply' = [mPendingReply EXCEPT ![c] = n]
      /\ SendMessage(c, Sync(n)) /\ frames' = [frames EXCEPT ![c] = Append(f, x)]
      /\ UNCHANGED <<queueVars, mRecvd, connected>>
  BY <1>1, Zenon DEF SendSync, WaitForReply, Push
<1>3. /\ w \in Seq(Message) /\ f \in Stacks /\ mNextSeqno[c] \in Int /\ mNextSeqno[c] <= 0
      /\ frames \in [Sides -> Stacks] /\ mPendingReply \in [Sides -> Int] /\ mPendingReply[r] = 0
      /\ mNextSeqno \in [Sides -> Int]
  BY <1>1, SideTyped DEF SyncFine, ChildWaits, TypeOK, Stacks, FrameRec
<1>4. n \in Int /\ n < 0
  BY <1>3 DEF NextSeqno
<1>5. /\ InTurn(mPending[r], w, frames[r], wire[c], mRecvd[c])
      /\ AtEnd(f, SyncOuts) /\ ~Bears(f, SyncIns) /\ ~Bears(mPending[c], Syncs)
      /\ Underway => At(c) = "syncout"
  BY <1>2 DEF SyncFine, ChildWaits
<1>6. At(c) # "syncout"
  BY <1>2 DEF InApp
<1>7. ~Bears(f, SyncOuts) /\ ~Underway
  BY <1>1, <1>5, <1>6, AtSyncOut
<1>8. Sync(n) \in Message /\ Sync(n) \in Syncs
  BY <1>4, MessagesAre DEF Syncs, Sync
<1>9. x \in FrameRec /\ x.at = "syncout" /\ x \in SyncOuts /\ x \notin SyncIns
  <2>1. "syncout" \in FrameKinds
    BY DEF FrameKinds
  <2> QED
    BY <1>4, <2>1, FramesAre DEF SyncOuts, SyncIns
<1>10. wire'[c] = wire[c] /\ wire'[r] = Append(w, Sync(n))
  BY <1>1, <1>2, <1>8, Sent
<1> HIDE DEF n, x
<1>11. /\ frames'[c] = Append(f, x) /\ frames'[r] = frames[r]
       /\ mPendingReply'[c] = n /\ mPendingReply'[r] = 0 /\ mNextSeqno'[c] = n
  BY <1>1, <1>2, <1>3
<1>12. mPending' = mPending /\ mRecvd' = mRecvd /\ connected' = connected
  BY <1>2 DEF queueVars
<1> DEFINE v == Append(w, Sync(n))
           h == Append(f, x)
<1>13. AtEnd(v, Syncs) /\ Bears(v, Syncs)
  <2>1. ~Bears(w, Syncs)
    BY <1>7 DEF Underway
  <2> QED
    BY <1>3, <1>8, <2>1, MarksAppend
<1>14. /\ AtEnd(h, SyncOuts) /\ ~Bears(h, SyncIns) /\ h # <<>> /\ Last(h) = x
  <2> DEFINE b == f
  <2>1. b \in Seq(FrameRec) /\ ~Bears(b, SyncOuts) /\ ~Bears(b, SyncIns) /\ h = Append(b, x)
    BY <1>3, <1>5, <1>7 DEF Stacks
  <2> HIDE DEF b, h
  <2>2. h # <<>> /\ Last(h) = x
    BY <1>9, <2>1, AppendIs
  <2>3. AtEnd(h, SyncOuts) /\ ~Bears(h, SyncIns)
    BY <1>9, <2>1, MarksAppend
  <2> QED
    BY <2>2, <2>3
<1> HIDE DEF v, h
<1>15. wire'[r] = v /\ frames'[c] = h
  BY <1>10, <1>11 DEF v, h
<1>16. /\ ~Bears(mPending[r], Syncs) /\ ~Bears(frames[r], SyncIns) /\ ~Bears(wire[c], Syncs)
       /\ ~mRecvd[c]
  BY <1>7 DEF Underway
<1>17. InTurn(mPending'[r], wire'[r], frames'[r], wire'[c], mRecvd'[c])
  BY <1>5, <1>10, <1>11, <1>12, <1>13, <1>15, <1>16 DEF InTurn
<1>18. At(c)' = "syncout"
  BY <1>9, <1>14, <1>15 DEF At
<1>19. ChildWaits'
  BY <1>4, <1>5, <1>11, <1>12, <1>14, <1>15, <1>18 DEF ChildWaits
<1> QED
  BY <1>17, <1>19 DEF SyncFine

\* A stack whose top frame is left for one of no sync message.
LEMMA TopLeft ==
    ASSUME Base, NEW a \in Sides, At(a) # "loop", SetTop(a, Frame("unwind", 0))
    PROVE  /\ frames'[a] \in Stacks /\ frames'[Other(a)] = frames[Other(a)]
           /\ Slides(frames[a], frames'[a])
           /\ AtEnd(frames[a], SyncOuts) => ~Bears(frames'[a], SyncOuts)
           /\ Once(frames[a], SyncIns) /\ At(a) = "syncin" => ~Bears(frames'[a], SyncIns)
           /\ At(a) = "syncin" => Bears(frames[a], SyncIns)
           /\ frames'[a] # <<>> /\ Last(frames'[a]).at = "unwind"
<1> DEFINE f == frames[a]
           x == Frame("unwind", 0)
           h == Append(Front(f), x)
<1>1. /\ f \in Stacks /\ f # <<>> /\ Last(f).at = At(a) /\ Last(f) \in FrameRec
      /\ Other(a) \in Sides /\ Other(a) # a
  BY AtIs, SidesAre
<1>2. "unwind" \in FrameKinds \ {"syncin", "syncout"} /\ 0 \in Int
  BY DEF FrameKinds
<1>3. x \in FrameRec /\ Unsynced(x) /\ x.at = "unwind"
  BY <1>2, UnsyncedFrames, FramesAre
<1>4. x \notin SyncIns /\ x \notin SyncOuts
  BY <1>3 DEF Unsynced
<1>5. Slides(f, h)
  BY <1>1, <1>2, SlidesTop
<1>6. frames' = [frames EXCEPT ![a] = h]
  BY DEF SetTop
<1> HIDE DEF x
<1>7. Front(f) \in Seq(FrameRec)
  BY <1>1, FrontGrown DEF Stacks
<1>8. h \in Stacks /\ h # <<>> /\ Last(h) = x
  BY <1>3, <1>7, AppendIs DEF Stacks
<1>9. \A X : x \notin X => (Bears(h, X) <=> Bears(Front(f), X))
  BY <1>3, <1>7, MarksAppend
<1>10. AtEnd(f, SyncOuts) => ~Bears(Front(f), SyncOuts)
  BY <1>1, MarksFront DEF Stacks
<1>11. At(a) = "syncin" => Bears(f, SyncIns) /\ (Once(f, SyncIns) => ~Bears(Front(f), SyncIns))
  <2>1. At(a) = "syncin" => Last(f) \in SyncIns
    BY <1>1 DEF SyncIns
  <2> QED
    BY <1>1, <2>1, MarksFront DEF Stacks
<1>12. frames \in [Sides -> Stacks]
  BY DEF Base, TypeOK, Stacks, FrameRec
<1>13. frames'[a] = h /\ frames'[Other(a)] = frames[Other(a)]
  BY <1>1, <1>6, <1>12
<1> HIDE DEF h
<1> QED
  BY <1>3, <1>4, <1>5, <1>8, <1>9, <1>10, <1>11, <1>13

\* The parent answers a sync message when its handler is done.
LEMMA SyncDoneMoves ==
    ASSUME Base, SyncFine, NEW a \in Sides, SyncDone(a)
    PROVE  SyncFine'
<1> DEFINE c == "child"
           r == "parent"
<1>1. TypeOK /\ r \in Sides /\ c \in Sides /\ Other(r) = c /\ (a = c \/ a = r)
  BY DEF Base, Sides, Other
<1>2. /\ At(a) = "syncin" /\ SendReply(a, SyncReply(Last(frames[a]).seqno))
      /\ SetTop(a, Frame("unwind", 0))
      /\ UNCHANGED <<queueVars, mNextSeqno, syncVars, connected>>
  BY Zenon DEF SyncDone
<1>3. /\ InTurn(mPending[r], wire[r], frames[r], wire[c], mRecvd[c]) /\ ChildWaits
      /\ AtEnd(frames[c], SyncOuts) /\ ~Bears(frames[c], SyncIns)
  BY DEF SyncFine, ChildWaits
<1>4. a = r
  <2>1. At(c) # "syncin"
    BY <1>1, <1>3, AtSyncOut
  <2> QED
    BY <1>1, <1>2, <2>1
<1>5. PICK n \in Int : n = Last(frames[r]).seqno
  BY <1>2, <1>4, AtIs
<1>6. /\ SendReply(r, SyncReply(n)) /\ At(r) = "syncin" /\ SetTop(r, Frame("unwind", 0))
  BY <1>2, <1>4, <1>5
<1>7. SyncReply(n) \in Message /\ wire[c] \in Seq(Message)
  BY <1>1, MessagesAre, SideTyped
<1>8. /\ frames'[c] = frames[c] /\ Slides(frames[r], frames'[r])
      /\ Once(frames[r], SyncIns) => ~Bears(frames'[r], SyncIns)
      /\ Bears(frames[r], SyncIns)
  BY <1>1, <1>6, TopLeft
<1>9. /\ ~Bears(mPending[r], Syncs) /\ ~Bears(wire[r], Syncs) /\ ~Bears(wire[c], Syncs)
      /\ ~mRecvd[c] /\ ~Bears(frames'[r], SyncIns) /\ Underway
  BY <1>3, <1>8 DEF InTurn, Underway
<1>10. wire'[r] = wire[r] /\ (wire'[c] = wire[c] \/ wire'[c] = Append(wire[c], SyncReply(n)))
  <2>1. CASE connected[r]
    BY <1>1, <1>6, <1>7, <2>1, Sent DEF SendReply
  <2>2. CASE ~connected[r]
    BY <1>6, <2>2 DEF SendReply
  <2> QED
    BY <2>1, <2>2
<1>11. Once(wire'[c], Syncs)
  <2> DEFINE w == wire[c]
             x == SyncReply(n)
  <2>1. w \in Seq(Message) /\ x \in Message /\ Once(w, Syncs) /\ ~Bears(w, Syncs)
    BY <1>3, <1>7, <1>9 DEF InTurn
  <2>2. wire'[c] = w \/ wire'[c] = Append(w, x)
    BY <1>10
  <2> HIDE DEF w, x
  <2>3. Once(Append(w, x), Syncs)
    BY <2>1, MarksAppend
  <2> QED
    BY <2>1, <2>2, <2>3
<1>12. Once(frames'[r], SyncIns)
  BY <1>9 DEF Bears, Once
<1>13. mPending' = mPending /\ mRecvd' = mRecvd /\ mNextSeqno' = mNextSeqno
       /\ mPendingReply' = mPendingReply /\ connected' = connected
  BY <1>2 DEF queueVars, syncVars
<1>14. InTurn(mPending'[r], wire'[r], frames'[r], wire'[c], mRecvd'[c])
  BY <1>3, <1>9, <1>10, <1>11, <1>12, <1>13 DEF InTurn
<1>15. ChildWaits'
  BY <1>3, <1>8, <1>9, <1>13 DEF ChildWaits, At
<1> QED
  BY <1>14, <1>15 DEF SyncFine

\* The child goes on when the reply is there, which is then nowhere, or when its side
\* of the channel is closed.
LEMMA SyncReturnsMoves ==
    ASSUME Base, Base', SyncFine, NEW a \in Sides, SyncReturns(a)
    PROVE  SyncFine'
<1> DEFINE c == "child"
           r == "parent"
<1>1. TypeOK /\ r \in Sides /\ c \in Sides /\ Other(c) = r /\ Other(r) = c /\ (a = c \/ a = r)
      /\ c # r
  BY DEF Base, Sides, Other
<1>2. /\ At(a) = "syncout" /\ SetTop(a, Frame("unwind", 0))
      /\ UNCHANGED <<queueVars, mNextSeqno, connected, wire>>
      /\ \/ ~connected[a] /\ UNCHANGED syncVars
         \/ /\ connected[a] /\ mRecvd[a]
            /\ mPendingReply' = [mPendingReply EXCEPT ![a] = 0]
            /\ mRecvd' = [mRecvd EXCEPT ![a] = FALSE]
  BY Zenon DEF SyncReturns
<1>3. /\ InTurn(mPending[r], wire[r], frames[r], wire[c], mRecvd[c]) /\ ChildWaits
      /\ AtEnd(frames[c], SyncOuts) /\ ~Bears(frames[c], SyncIns)
  BY DEF SyncFine, ChildWaits
<1>4. mPending' = mPending /\ wire' = wire /\ connected' = connected /\ mNextSeqno' = mNextSeqno
  BY <1>2 DEF queueVars
<1>5. /\ frames'[a] \in Stacks /\ frames'[Other(a)] = frames[Other(a)]
      /\ Slides(frames[a], frames'[a])
      /\ AtEnd(frames[a], SyncOuts) => ~Bears(frames'[a], SyncOuts)
      /\ frames'[a] # <<>> /\ Last(frames'[a]).at = "unwind"
  BY <1>2, TopLeft
<1>6. /\ mPendingReply \in [Sides -> Int] /\ mRecvd \in [Sides -> BOOLEAN]
      /\ frames[a] \in Stacks /\ mPendingReply[r] = 0 /\ mNextSeqno[c] <= 0
  BY <1>1, SideTyped DEF TypeOK, SyncFine, ChildWaits
<1>7. /\ Bears(frames'[a], SyncIns) => Bears(frames[a], SyncIns)
      /\ Once(frames[a], SyncIns) => Once(frames'[a], SyncIns)
  BY <1>5, <1>6, SlidesFewer
<1> HIDE DEF c, r
<1>8. CASE a = r
  <2>1. mRecvd'[c] = mRecvd[c] /\ mPendingReply'[c] = mPendingReply[c] /\ mPendingReply'[r] = 0
    BY <1>1, <1>2, <1>6, <1>8 DEF syncVars
  <2>2. frames'[c] = frames[c]
    BY <1>1, <1>5, <1>8
  <2>3. InTurn(mPending'[r], wire'[r], frames'[r], wire'[c], mRecvd'[c])
    BY <1>3, <1>4, <1>7, <1>8, <2>1 DEF InTurn
  <2>4. Underway' => Underway
    BY <1>4, <1>7, <1>8, <2>1 DEF Underway, c, r
  <2>5. ChildWaits'
    BY <1>3, <1>4, <2>1, <2>2, <2>4 DEF ChildWaits, At, c, r
  <2> QED
    BY <2>3, <2>5 DEF SyncFine, c, r
<1>9. CASE a = c
  <2>1. frames'[r] = frames[r]
    BY <1>1, <1>5, <1>9
  <2>2. ~Bears(frames'[c], SyncOuts) /\ ~Bears(frames'[c], SyncIns) /\ At(c)' = "unwind"
    BY <1>3, <1>5, <1>7, <1>9 DEF At
  <2>3. AtEnd(frames'[c], SyncOuts)
    BY <2>2 DEF Bears, AtEnd
  <2>4. mPendingReply'[r] = 0
    BY <1>1, <1>2, <1>6, <1>9 DEF syncVars
  <2>5. CASE ~connected[c] /\ UNCHANGED syncVars
    <3>1. mRecvd' = mRecvd /\ mPendingReply' = mPendingReply
      BY <2>5 DEF syncVars
    <3>2. InTurn(mPending'[r], wire'[r], frames'[r], wire'[c], mRecvd'[c])
      BY <1>3, <1>4, <2>1, <3>1 DEF InTurn
    <3>3. ChildWaits'
      BY <1>3, <1>4, <1>6, <2>2, <2>3, <2>4, <2>5 DEF ChildWaits, c, r
    <3> QED
      BY <3>2, <3>3 DEF SyncFine, c, r
  <2>6. CASE connected[c] /\ mRecvd[c] /\ mRecvd' = [mRecvd EXCEPT ![c] = FALSE]
    <3>1. mRecvd'[c] = FALSE
      BY <1>1, <1>6, <2>6
    <3>2. /\ ~Bears(mPending[r], Syncs) /\ ~Bears(wire[r], Syncs) /\ ~Bears(frames[r], SyncIns)
          /\ ~Bears(wire[c], Syncs)
      BY <1>3, <2>6 DEF InTurn
    <3>3. InTurn(mPending'[r], wire'[r], frames'[r], wire'[c], mRecvd'[c])
      BY <1>3, <1>4, <2>1, <3>1, <3>2 DEF InTurn
    <3>4. ~Underway'
      BY <1>4, <2>1, <3>1, <3>2 DEF Underway, c, r
    <3>5. ChildWaits'
      BY <1>3, <1>4, <1>6, <2>2, <2>3, <2>4, <3>4 DEF ChildWaits, c, r
    <3> QED
      BY <3>3, <3>5 DEF SyncFine, c, r
  <2> QED
    BY <1>2, <1>9, <2>5, <2>6
<1> QED
  BY <1>1, <1>8, <1>9

\* The link delivers a sync message to the parent, or its reply to the child.
LEMMA ReceiveMoves ==
    ASSUME Base, SyncFine, NEW a \in Sides, OnMessageReceivedFromLink(a)
    PROVE  SyncFine'
<1> DEFINE c == "child"
           r == "parent"
           msg == Head(wire[a])
           p == mPending[a]
           w == wire[a]
<1>1. /\ TypeOK /\ r \in Sides /\ c \in Sides /\ (a = c \/ a = r) /\ c # r
      /\ Other(a) \in Sides /\ Other(a) # a /\ Other(c) = r /\ Other(r) = c
  BY SidesAre DEF Base, Sides, Other
<1>2. /\ p \in Seq(Message) /\ w \in Seq(Message) /\ wire \in [Sides -> Seq(Message)]
      /\ mPending \in [Sides -> Seq(Message)] /\ mRecvd \in [Sides -> BOOLEAN]
  BY <1>1, SideTyped DEF TypeOK
<1>3. /\ w # <<>> /\ connected[a] /\ wire' = [wire EXCEPT ![a] = Tail(w)]
      /\ UNCHANGED <<mNextSeqno, mPendingReply, connected, frames>>
  BY DEF OnMessageReceivedFromLink
<1>4. IF mPendingReply[a] # 0 /\ msg.kind = "sync"
      THEN mRecvd' = [mRecvd EXCEPT ![a] = TRUE] /\ mPending' = mPending
      ELSE /\ mRecvd' = mRecvd
           /\ \/ mPending' = [mPending EXCEPT ![a] = Append(p, msg)]
              \/ p # <<>> /\ mPending' = [mPending EXCEPT ![a] = Append(Front(p), msg)]
  BY DEF OnMessageReceivedFromLink
<1>5. /\ msg \in Message /\ Tail(w) \in Seq(Message)
      /\ Bears(w, Syncs) <=> Bears(Tail(w), Syncs) \/ msg \in Syncs
      /\ AtEnd(w, Syncs) => AtEnd(Tail(w), Syncs) /\ (msg \in Syncs => Tail(w) = <<>>)
      /\ Once(w, Syncs) => Once(Tail(w), Syncs) /\ (msg \in Syncs => ~Bears(Tail(w), Syncs))
  BY <1>2, <1>3, MarksTail
<1>6. msg \in Syncs <=> msg.kind = "sync"
  BY <1>5 DEF Syncs
<1> DEFINE v == Tail(w)
<1>7. wire'[a] = v /\ wire'[Other(a)] = wire[Other(a)]
  BY <1>1, <1>2, <1>3
<1>8. /\ InTurn(mPending[r], wire[r], frames[r], wire[c], mRecvd[c]) /\ ChildWaits
      /\ mPendingReply[r] = 0 /\ ~Bears(mPending[c], Syncs)
  BY DEF SyncFine, ChildWaits
<1> HIDE DEF msg, v, c, r
<1>9. ASSUME NEW q, q = Append(p, msg) \/ (p # <<>> /\ q = Append(Front(p), msg)),
             ~Bears(p, Syncs)
      PROVE  AtEnd(q, Syncs) /\ (Bears(q, Syncs) <=> msg \in Syncs)
  <2>1. PICK b \in Seq(Message) : q = Append(b, msg) /\ ~Bears(b, Syncs)
    <3>1. p # <<>> => Front(p) \in Seq(Message) /\ ~Bears(Front(p), Syncs)
      BY <1>2, <1>9, MarksFront
    <3> QED
      BY <1>2, <1>9, <3>1
  <2> QED
    BY <1>5, <2>1, MarksAppend
<1>10. CASE a = r
  <2>1. ~Bears(p, Syncs)
    BY <1>3, <1>8, <1>10 DEF InTurn
  <2>2. mRecvd' = mRecvd /\ (\/ mPending' = [mPending EXCEPT ![a] = Append(p, msg)]
                             \/ p # <<>> /\ mPending' = [mPending EXCEPT ![a] = Append(Front(p), msg)])
    BY <1>4, <1>8, <1>10
  <2>3. PICK q : /\ q = Append(p, msg) \/ (p # <<>> /\ q = Append(Front(p), msg))
                 /\ mPending' = [mPending EXCEPT ![a] = q]
    BY <2>2
  <2>4. AtEnd(q, Syncs) /\ (Bears(q, Syncs) <=> msg \in Syncs)
    BY <1>9, <2>1, <2>3
  <2>5. mPending'[r] = q /\ mPending'[c] = mPending[c]
    BY <1>1, <1>2, <1>10, <2>3
  <2>6. /\ AtEnd(v, Syncs) /\ (Bears(w, Syncs) <=> Bears(v, Syncs) \/ msg \in Syncs)
        /\ msg \in Syncs => v = <<>>
    BY <1>5, <1>8, <1>10 DEF InTurn, v
  <2>7. wire'[r] = v /\ wire'[c] = wire[c] /\ frames' = frames /\ w = wire[r] /\ ~Bears(mPending[r], Syncs)
    BY <1>1, <1>3, <1>7, <1>10, <2>1
  <2>8. ~Bears(<<>>, Syncs)
    BY MarksEmpty
  <2>9. InTurn(mPending'[r], wire'[r], frames'[r], wire'[c], mRecvd'[c])
    BY <1>8, <2>2, <2>4, <2>5, <2>6, <2>7, <2>8 DEF InTurn
  <2>10. Underway' => Underway
    BY <2>2, <2>4, <2>5, <2>6, <2>7 DEF Underway, c, r
  <2>11. ChildWaits'
    BY <1>3, <1>8, <2>5, <2>10 DEF ChildWaits, At, c, r
  <2> QED
    BY <2>9, <2>11 DEF SyncFine, c, r
<1>11. CASE a = c
  <2>1. /\ Once(v, Syncs) /\ (Bears(w, Syncs) <=> Bears(v, Syncs) \/ msg \in Syncs)
        /\ msg \in Syncs => ~Bears(v, Syncs)
    BY <1>5, <1>8, <1>11 DEF InTurn, v
  <2>2. wire'[c] = v /\ wire'[r] = wire[r] /\ frames' = frames /\ w = wire[c] /\ p = mPending[c]
    BY <1>1, <1>3, <1>7, <1>11
  <2>3. CASE msg \in Syncs
    <3>1. Underway /\ Bears(wire[c], Syncs)
      BY <2>1, <2>2, <2>3 DEF Underway, c
    <3>2. mPendingReply[a] # 0 /\ At(c) = "syncout"
      BY <1>3, <1>8, <1>11, <3>1 DEF ChildWaits, c
    <3>3. mRecvd' = [mRecvd EXCEPT ![a] = TRUE] /\ mPending' = mPending
      BY <1>4, <1>6, <2>3, <3>2
    <3>4. mRecvd'[c] = TRUE
      BY <1>1, <1>2, <1>11, <3>3
    <3>5. InTurn(mPending'[r], wire'[r], frames'[r], wire'[c], mRecvd'[c])
      BY <1>8, <2>1, <2>2, <2>3, <3>1, <3>3, <3>4 DEF InTurn
    <3>6. ChildWaits'
      BY <1>3, <1>8, <2>2, <3>1, <3>3 DEF ChildWaits, At, c, r
    <3> QED
      BY <3>5, <3>6 DEF SyncFine, c, r
  <2>4. CASE msg \notin Syncs
    <3>1. mRecvd' = mRecvd /\ (\/ mPending' = [mPending EXCEPT ![a] = Append(p, msg)]
                               \/ p # <<>> /\ mPending' = [mPending EXCEPT ![a] = Append(Front(p), msg)])
      BY <1>4, <1>6, <2>4
    <3>2. PICK q : /\ q = Append(p, msg) \/ (p # <<>> /\ q = Append(Front(p), msg))
                   /\ mPending' = [mPending EXCEPT ![a] = q]
      BY <3>1
    <3>3. ~Bears(q, Syncs)
      BY <1>8, <1>9, <2>2, <2>4, <3>2
    <3>4. mPending'[c] = q /\ mPending'[r] = mPending[r]
      BY <1>1, <1>2, <1>11, <3>2
    <3>5. InTurn(mPending'[r], wire'[r], frames'[r], wire'[c], mRecvd'[c])
      BY <1>8, <2>1, <2>2, <2>4, <3>1, <3>4 DEF InTurn
    <3>6. Underway' => Underway
      BY <2>1, <2>2, <3>1, <3>4 DEF Underway, c, r
    <3>7. ChildWaits'
      BY <1>3, <1>8, <2>2, <3>3, <3>4, <3>6 DEF ChildWaits, At, c, r
    <3> QED
      BY <3>5, <3>7 DEF SyncFine, c, r
  <2> QED
    BY <2>3, <2>4
<1> QED
  BY <1>1, <1>10, <1>11

\* The parent begins to handle a sync message.
LEMMA SyncBegins ==
    ASSUME Base, SyncFine, NEW stk, Slides(frames["parent"], stk), NEW n \in Int,
           frames' = [frames EXCEPT !["parent"] = Append(stk, Frame("syncin", n))],
           mPending["parent"] # <<>>, Head(mPending["parent"]) \in Syncs,
           mPending' = [mPending EXCEPT !["parent"] = Tail(mPending["parent"])],
           UNCHANGED <<mNextSeqno, syncVars, connected, wire>>
    PROVE  SyncFine'
<1> DEFINE c == "child"
           r == "parent"
           p == mPending[r]
           x == Frame("syncin", n)
<1>1. TypeOK /\ r \in Sides /\ c \in Sides /\ c # r
  BY DEF Base, Sides
<1>2. /\ p \in Seq(Message) /\ frames[r] \in Stacks
      /\ frames \in [Sides -> Stacks] /\ mPending \in [Sides -> Seq(Message)]
  BY <1>1, SideTyped DEF TypeOK, Stacks, FrameRec
<1>3. InTurn(mPending[r], wire[r], frames[r], wire[c], mRecvd[c]) /\ ChildWaits
  BY DEF SyncFine
<1>4. /\ Bears(p, Syncs) /\ AtEnd(p, Syncs) /\ Tail(p) = <<>>
  BY <1>2, <1>3, MarksTail DEF InTurn
<1>5. x \in FrameRec /\ x \in SyncIns
  <2>1. "syncin" \in FrameKinds
    BY DEF FrameKinds
  <2> QED
    BY <2>1, FramesAre DEF SyncIns
<1>6. stk \in Stacks /\ ~Bears(stk, SyncIns)
  BY <1>2, <1>3, <1>4, SlidesFewer DEF InTurn
<1> DEFINE h == Append(stk, x)
<1>7. Once(h, SyncIns)
  <2>1. Once(stk, SyncIns)
    BY <1>6 DEF Bears, Once
  <2> HIDE DEF x
  <2> QED
    BY <1>5, <1>6, <2>1, MarksAppend DEF Stacks
<1> HIDE DEF h
<1>8. frames'[r] = h /\ frames'[c] = frames[c] /\ mPending'[r] = <<>> /\ mPending'[c] = mPending[c]
  BY <1>1, <1>2, <1>4 DEF h
<1>9. /\ mRecvd' = mRecvd /\ mPendingReply' = mPendingReply /\ mNextSeqno' = mNextSeqno
      /\ connected' = connected /\ wire' = wire
  BY DEF syncVars
<1>10. ~Bears(<<>>, Syncs) /\ AtEnd(<<>>, Syncs)
  BY MarksEmpty
<1>11. /\ ~Bears(wire[r], Syncs) /\ ~Bears(wire[c], Syncs) /\ ~mRecvd[c] /\ Underway
  BY <1>3, <1>4, <1>10 DEF InTurn, Underway
<1> HIDE DEF c, r
<1>12. InTurn(mPending'[r], wire'[r], frames'[r], wire'[c], mRecvd'[c])
  <2>1. InTurn(<<>>, wire[r], h, wire[c], mRecvd[c])
    BY <1>3, <1>7, <1>10, <1>11 DEF InTurn
  <2> QED
    BY <1>8, <1>9, <2>1
<1>13. ChildWaits'
  BY <1>3, <1>8, <1>9, <1>11 DEF ChildWaits, At, c, r
<1> QED
  BY <1>12, <1>13 DEF SyncFine, c, r

\* A worker takes a message: the parent may begin to handle a sync message, and the
\* child has none.
LEMMA TakeMoves ==
    ASSUME Base, Base', SyncFine, NEW a \in Sides, At(a) # "syncout",
           NEW q \in Seq(Message), q # <<>>, Bears(q, Syncs) => Bears(mPending[a], Syncs),
           a = "parent" => q = mPending[a], mPending' = [mPending EXCEPT ![a] = Tail(q)],
           UNCHANGED <<mNextSeqno, syncVars, connected, wire>>,
           NEW stk, Slides(frames[a], stk),
           \A x \in FrameRec : Unsynced(x) => Slides(frames[a], Append(stk, x)),
           \/ Head(q).kind # "rpc"
              /\ frames' = [frames EXCEPT ![a] =
                              Append(stk, IF Head(q).kind = "sync"
                                          THEN Frame("syncin", Head(q).seqno)
                                          ELSE AsyncHandler)]
           \/ Head(q).kind = "rpc" /\ \E h : Replaced(frames, frames', a, h) /\ Slides(frames[a], h)
    PROVE  SyncFine'
<1>1. TypeOK /\ mNextSeqno["child"] <= 0 /\ ~Bears(mPending["child"], Syncs)
  BY DEF Base, SyncFine, ChildWaits
<1>2. /\ Head(q) \in Message
      /\ Bears(q, Syncs) <=> Bears(Tail(q), Syncs) \/ Head(q) \in Syncs
      /\ AtEnd(q, Syncs) => AtEnd(Tail(q), Syncs)
  BY MarksTail
<1>3. Head(q).seqno \in Int /\ (Head(q) \in Syncs <=> Head(q).kind = "sync")
  BY <1>2, MessagesAre DEF Syncs
<1>4. Replaced(mPending, mPending', a, Tail(q))
  BY DEF Replaced
<1>5. UNCHANGED syncVars /\ mNextSeqno' = mNextSeqno /\ connected' = connected /\ wire' = wire
  OBVIOUS
<1>6. ASSUME NEW h, Replaced(frames, frames', a, h), Slides(frames[a], h)
      PROVE  SyncFine'
  BY <1>1, <1>2, <1>4, <1>5, <1>6, CalmAction
<1>7. CASE Head(q) \in Syncs
  <2>1. a = "parent"
    <3>1. Bears(mPending[a], Syncs)
      BY <1>2, <1>7
    <3>2. a = "parent" \/ a = "child"
      BY DEF Sides
    <3> QED
      BY <1>1, <3>1, <3>2
  <2>2. PICK n \in Int : n = Head(q).seqno
    BY <1>3
  <2>3. frames' = [frames EXCEPT !["parent"] = Append(stk, Frame("syncin", n))]
    BY <1>3, <1>7, <2>1, <2>2
  <2> QED
    BY <1>7, <2>1, <2>3, SyncBegins
<1>8. CASE Head(q) \notin Syncs /\ Head(q).kind # "rpc"
  <2>1. AsyncHandler \in FrameRec /\ Unsynced(AsyncHandler)
    BY UnsyncedFrames DEF Unsynced
  <2> DEFINE h == Append(stk, AsyncHandler)
  <2>2. Slides(frames[a], h)
    BY <2>1
  <2>3. frames' = [frames EXCEPT ![a] = h]
    BY <1>3, <1>8
  <2> HIDE DEF h
  <2>4. Replaced(frames, frames', a, h)
    BY <2>3 DEF Replaced
  <2> QED
    BY <1>6, <2>2, <2>4
<1>9. CASE Head(q).kind = "rpc"
  BY <1>6, <1>9
<1> QED
  BY <1>7, <1>8, <1>9

\* What Incall does to the C++ stack.
LEMMA IncallSlides ==
    ASSUME NEW a \in Sides, NEW m \in Message, NEW depth, NEW stk, NEW u, Incall(a, m, depth, stk, u),
           Slides(frames[a], stk),
           \A x \in FrameRec : Unsynced(x) => Slides(frames[a], Append(stk, x))
    PROVE  \E h : Replaced(frames, frames', a, h) /\ Slides(frames[a], h)
<1> DEFINE x == Frame("incall", m.seqno)
           h == Append(stk, x)
<1>1. frames' = [frames EXCEPT ![a] = stk] \/ frames' = [frames EXCEPT ![a] = h]
  BY DEF Incall
<1>2. x \in FrameRec /\ Unsynced(x)
  <2>1. "incall" \in FrameKinds \ {"syncin", "syncout"} /\ m.seqno \in Int
    BY MessagesAre DEF FrameKinds
  <2> QED
    BY <2>1, UnsyncedFrames
<1>3. Slides(frames[a], h)
  BY <1>2
<1> HIDE DEF h
<1> QED
  BY <1>1, <1>3 DEF Replaced

\* Call takes a message.
LEMMA CallTakesPendingMoves ==
    ASSUME Base, Base', SyncFine, NEW a \in Sides, CallTakesPending(a)
    PROVE  SyncFine'
<1> DEFINE q == mPending[a]
           m == Head(q)
           x == Frame("calltop", Last(frames[a]).seqno)
           stk == Append(Front(frames[a]), x)
           u == [deferred |-> mDeferred[a], guess |-> mRemoteStackDepthGuess[a]]
<1>1. /\ At(a) = "callwait" /\ mPending[a] # <<>>
      /\ mPending' = [mPending EXCEPT ![a] = Tail(@)]
      /\ UNCHANGED <<mNextSeqno, syncVars, connected, wire>>
  BY Zenon DEF CallTakesPending
<1>2. \/ m.kind # "rpc" /\ OnDispatchMessage(a, m, stk, u)
      \/ m.kind = "rpc" /\ Incall(a, m, StackDepth(a), stk, u)
      \/ m.kind = "rpc" /\ frames' = [frames EXCEPT ![a] = stk]
      \/ m.kind = "rpc" /\ SetTop(a, Frame("unwind", 0))
  BY DEF CallTakesPending
<1>3. frames[a] # <<>> /\ Last(frames[a]).seqno \in Int /\ q \in Seq(Message)
  BY <1>1, AtIs, SideTyped DEF Base
<1>4. m \in Message
  BY <1>1, <1>3, MarksTail
<1>5. /\ "calltop" \in FrameKinds \ {"syncin", "syncout"}
      /\ "unwind" \in FrameKinds \ {"syncin", "syncout"} /\ 0 \in Int
  BY DEF FrameKinds
<1>6. /\ Slides(frames[a], stk)
      /\ \A y \in FrameRec : Unsynced(y) => Slides(frames[a], Append(stk, y))
  <2>1. x \in FrameRec /\ Unsynced(x)
    BY <1>3, <1>5, UnsyncedFrames
  <2> HIDE DEF x
  <2> QED
    BY <1>3, <2>1, Zenon DEF Slides
<1>7. Slides(frames[a], Append(Front(frames[a]), Frame("unwind", 0)))
  BY <1>3, <1>5, SlidesTop
<1>8. \/ /\ m.kind # "rpc"
         /\ frames' = [frames EXCEPT ![a] = Append(stk, IF m.kind = "sync"
                                                        THEN Frame("syncin", m.seqno)
                                                        ELSE AsyncHandler)]
      \/ m.kind = "rpc" /\ \E h : Replaced(frames, frames', a, h) /\ Slides(frames[a], h)
  <2>1. CASE m.kind # "rpc" /\ OnDispatchMessage(a, m, stk, u)
    BY <2>1, Zenon DEF OnDispatchMessage
  <2>2. CASE m.kind = "rpc" /\ Incall(a, m, StackDepth(a), stk, u)
    <3> HIDE DEF stk, m, u
    <3> QED
      BY <1>4, <1>6, <2>2, IncallSlides
  <2>3. CASE m.kind = "rpc" /\ frames' = [frames EXCEPT ![a] = stk]
    <3> HIDE DEF stk
    <3> QED
      BY <1>6, <2>3 DEF Replaced
  <2>4. CASE m.kind = "rpc" /\ SetTop(a, Frame("unwind", 0))
    <3> DEFINE h == Append(Front(frames[a]), Frame("unwind", 0))
    <3>1. frames' = [frames EXCEPT ![a] = h] /\ Slides(frames[a], h)
      BY <1>7, <2>4 DEF SetTop
    <3> HIDE DEF h
    <3> QED
      BY <2>4, <3>1 DEF Replaced
  <2> QED
    BY <1>2, <2>1, <2>2, <2>3, <2>4
<1>9. At(a) # "syncout" /\ mPending' = [mPending EXCEPT ![a] = Tail(q)]
  BY <1>1
<1> HIDE DEF stk
<1> QED
  BY <1>1, <1>3, <1>6, <1>8, <1>9, TakeMoves

\* The event loop takes a message.
LEMMA OnMaybeDequeueOneMoves ==
    ASSUME Base, Base', SyncFine, mDeferred["parent"] = <<>>, NEW a \in Sides, OnMaybeDequeueOne(a)
    PROVE  SyncFine'
<1> DEFINE u == Undeferred(a)
           q == u.pending
           m == Head(q)
           f == frames[a]
<1>1. /\ At(a) \in {"loop", "nest"}
      /\ UNCHANGED <<mNextSeqno, syncVars, connected, wire>>
  BY Zenon DEF OnMaybeDequeueOne
<1>2. \/ UNCHANGED <<mPending, frames>>
      \/ /\ q # <<>> /\ mPending' = [mPending EXCEPT ![a] = Tail(q)]
         /\ \/ m.kind # "rpc" /\ OnDispatchMessage(a, m, f, u)
            \/ m.kind = "rpc" /\ Incall(a, m, 0, f, u)
            \/ m.kind = "rpc" /\ UNCHANGED frames
  BY DEF OnMaybeDequeueOne
<1>3. /\ q \in Seq(Message) /\ (Bears(q, Syncs) => Bears(mPending[a], Syncs))
      /\ a = "parent" => q = mPending[a]
  BY UndeferCalm
<1>4. At(a) # "syncout" /\ mNextSeqno["child"] <= 0
  BY <1>1 DEF SyncFine, ChildWaits
<1>5. /\ Slides(f, f) /\ \A y \in FrameRec : Unsynced(y) => Slides(f, Append(f, y))
      /\ Replaced(frames, frames, a, f) /\ Replaced(mPending, mPending, a, mPending[a])
  BY Zenon DEF Slides, Replaced
<1> HIDE DEF q, u, f
<1>6. CASE UNCHANGED <<mPending, frames>>
  <2>1. frames' = frames /\ mPending' = mPending /\ connected' = connected /\ wire' = wire
        /\ UNCHANGED syncVars /\ mNextSeqno' = mNextSeqno
    BY <1>1, <1>6
  <2> QED
    BY <1>4, <1>5, <2>1, CalmAction DEF f
<1>7. CASE /\ q # <<>> /\ mPending' = [mPending EXCEPT ![a] = Tail(q)]
           /\ \/ m.kind # "rpc" /\ OnDispatchMessage(a, m, f, u)
              \/ m.kind = "rpc" /\ Incall(a, m, 0, f, u)
              \/ m.kind = "rpc" /\ UNCHANGED frames
  <2>1. m \in Message
    BY <1>3, <1>7, MarksTail
  <2>2. \/ /\ m.kind # "rpc"
           /\ frames' = [frames EXCEPT ![a] = Append(f, IF m.kind = "sync"
                                                        THEN Frame("syncin", m.seqno)
                                                        ELSE AsyncHandler)]
        \/ m.kind = "rpc" /\ \E h : Replaced(frames, frames', a, h) /\ Slides(frames[a], h)
    <3>1. CASE m.kind # "rpc" /\ OnDispatchMessage(a, m, f, u)
      BY <3>1, Zenon DEF OnDispatchMessage
    <3>2. CASE m.kind = "rpc" /\ Incall(a, m, 0, f, u)
      <4>1. Slides(frames[a], f) /\ \A y \in FrameRec : Unsynced(y) => Slides(frames[a], Append(f, y))
        BY <1>5 DEF f
      <4> HIDE DEF m
      <4> QED
        BY <2>1, <3>2, <4>1, IncallSlides
    <3>3. CASE m.kind = "rpc" /\ UNCHANGED frames
      BY <1>5, <3>3 DEF f
    <3> QED
      BY <1>7, <3>1, <3>2, <3>3
  <2>3. Slides(frames[a], f) /\ \A y \in FrameRec : Unsynced(y) => Slides(frames[a], Append(f, y))
    BY <1>5 DEF f
  <2> QED
    BY <1>1, <1>3, <1>4, <1>7, <2>2, <2>3, TakeMoves
<1> QED
  BY <1>2, <1>6, <1>7

\* Every step keeps what is known of sync messages.
LEMMA SyncFineStays ==
    ASSUME Base, Base', SyncFine, mDeferred["parent"] = <<>>, [Next]_vars
    PROVE  SyncFine'
<1>1. CASE UNCHANGED vars
  BY <1>1, Zenon DEF vars, SyncFine, ChildWaits, Underway, At
<1>2. CASE Next
  <2>1. PICK a \in Sides :
           \/ AppStep(a) \/ WorkerStep(a) \/ HandlerStep(a) \/ LinkStep(a)
           \/ ReplyTimesOut(a) \/ TimeoutStep(a) \/ OnChannelErrorFromLink(a)
    BY <1>2, Zenon DEF Next
  <2>2. CASE AppStep(a)
    BY <2>2, CallsAreCalm, HandlersAreCalm, SendSyncMoves DEF AppStep
  <2>3. CASE WorkerStep(a)
    BY <2>3, CallsAreCalm, HandlersAreCalm, CallTakesPendingMoves, OnMaybeDequeueOneMoves,
       SyncReturnsMoves DEF WorkerStep
  <2>4. CASE HandlerStep(a)
    BY <2>4, HandlersAreCalm, SyncDoneMoves DEF HandlerStep
  <2>5. CASE LinkStep(a)
    BY <2>5, ReceiveMoves DEF LinkStep
  <2>6. CASE ReplyTimesOut(a) \/ TimeoutStep(a) \/ OnChannelErrorFromLink(a)
    BY <2>6, CallsAreCalm, ClosingIsCalm DEF TimeoutStep
  <2> QED
    BY <2>1, <2>2, <2>3, <2>4, <2>5, <2>6
<1> QED
  BY <1>1, <1>2

\* Nothing is underway when the channel is opened.
LEMMA InitSyncFine ==
    ASSUME Init
    PROVE  SyncFine
<1>1. /\ mPending["parent"] = <<>> /\ wire["parent"] = <<>> /\ frames["parent"] = <<>>
      /\ wire["child"] = <<>> /\ mPending["child"] = <<>> /\ frames["child"] = <<>>
      /\ mRecvd["child"] = FALSE /\ mNextSeqno["child"] = 0 /\ mPendingReply["parent"] = 0
  BY DEF Init, Sides
<1>2. \A X : ~Bears(<<>>, X) /\ AtEnd(<<>>, X) /\ Once(<<>>, X)
  BY MarksEmpty
<1>3. InTurn(mPending["parent"], wire["parent"], frames["parent"], wire["child"], mRecvd["child"])
  BY <1>1, <1>2, Zenon DEF InTurn
<1>4. ~Underway
  BY <1>1, <1>2, Zenon DEF Underway
<1>5. At("child") = "loop"
  BY <1>1 DEF At
<1>6. ChildWaits
  BY <1>1, <1>2, <1>4, <1>5 DEF ChildWaits
<1> QED
  BY <1>3, <1>6 DEF SyncFine

\* A step forgets no race, and if its side has nothing deferred and defers an in-call,
\* it has won a race.
WinsMore(a) ==
    /\ \A s \in Sides : Won(s) \subseteq Won(s)'
    /\ mDeferred'[Other(a)] = mDeferred[Other(a)]
    /\ mDeferred[a] = <<>> => mDeferred'[a] = <<>> \/ Won(a)' # {}

\* No in-call is deferred by what leaves the races alone.
LEMMA WinsNoMore ==
    ASSUME TypeOK, NEW a \in Sides, NEW u, u.deferred = Undeferred(a).deferred,
           \/ mDeferred' = mDeferred
           \/ mDeferred' = [mDeferred EXCEPT ![a] = u.deferred],
           races' = races
    PROVE  WinsMore(a)
<1>1. mDeferred \in [Sides -> Seq(Message)] /\ Other(a) \in Sides /\ Other(a) # a
  BY SidesAre DEF TypeOK
<1>2. mDeferred[a] = <<>> => u.deferred = <<>>
  BY DEF Undeferred, MustUndefer
<1>3. \A s \in Sides : Won(s)' = Won(s)
  BY DEF Won
<1> QED
  BY <1>1, <1>2, <1>3 DEF WinsMore

\* Nor by Incall, but one that lost its race.
LEMMA IncallWins ==
    ASSUME TypeOK, NEW a \in Sides, NEW msg, NEW n, NEW stk, NEW u,
           mDeferred[a] = <<>> => u.deferred = <<>>, Incall(a, msg, n, stk, u),
           Raced(a, msg, n) => mStack[a] # <<>>
    PROVE  WinsMore(a)
<1> DEFINE defer == Raced(a, msg, n) /\ MediateRPCRace(Race(a, msg)) = a
<1>1. /\ mDeferred' = [mDeferred EXCEPT ![a] = IF defer THEN Append(u.deferred, msg)
                                                        ELSE u.deferred]
      /\ races' = IF Raced(a, msg, n) /\ mStack[a] # <<>>
                  THEN [races EXCEPT ![a] = races[a] \cup {Race(a, msg)}]
                  ELSE races
  BY DEF Incall
<1>2. /\ mDeferred \in [Sides -> Seq(Message)] /\ Other(a) \in Sides /\ Other(a) # a
      /\ races \in [Sides -> SUBSET (Int \X Int)]
  BY SidesAre DEF TypeOK
<1>3. mDeferred'[Other(a)] = mDeferred[Other(a)]
  BY <1>1, <1>2
<1>4. CASE ~Raced(a, msg, n)
  <2>1. races' = races /\ mDeferred' = [mDeferred EXCEPT ![a] = u.deferred]
    BY <1>1, <1>4
  <2>2. mDeferred'[a] = u.deferred
    BY <1>2, <2>1
  <2>3. \A s \in Sides : Won(s)' = Won(s)
    BY <2>1 DEF Won
  <2> QED
    BY <1>3, <2>2, <2>3 DEF WinsMore
<1>5. CASE Raced(a, msg, n)
  <2>1. PICK r : r = Race(a, msg)
    OBVIOUS
  <2>2. races' = [races EXCEPT ![a] = races[a] \cup {r}]
    BY <1>1, <1>5, <2>1
  <2>3. races'[a] = races[a] \cup {r} /\ races'[Other(a)] = races[Other(a)]
    BY <1>2, <2>2
  <2>4. \A s \in Sides : races[s] \subseteq races'[s]
    BY <2>3, SidesAre
  <2>5. \A s \in Sides : Won(s) \subseteq Won(s)'
    BY <2>4 DEF Won, MediateRPCRace
  <2>6. CASE MediateRPCRace(r) = a
    <3>1. r \in Won(a)'
      BY <2>3, <2>6 DEF Won, MediateRPCRace
    <3> QED
      BY <1>3, <2>5, <3>1 DEF WinsMore
  <2>7. CASE MediateRPCRace(r) # a
    <3>1. mDeferred' = [mDeferred EXCEPT ![a] = u.deferred]
      BY <1>1, <2>1, <2>7
    <3>2. mDeferred'[a] = u.deferred
      BY <1>2, <3>1
    <3> QED
      BY <1>3, <2>5, <3>2 DEF WinsMore
  <2> QED
    BY <2>6, <2>7
<1> QED
  BY <1>4, <1>5

\* So every step.
LEMMA StepWins ==
    ASSUME IInv, NEW a \in Sides,
           \/ AppStep(a) \/ WorkerStep(a) \/ HandlerStep(a) \/ LinkStep(a)
           \/ ReplyTimesOut(a) \/ TimeoutStep(a) \/ OnChannelErrorFromLink(a)
    PROVE  WinsMore(a)
<1>1. TypeOK /\ Base
  BY DEF IInv, Booked, Base
<1>2. ASSUME \/ mDeferred' = mDeferred
             \/ mDeferred' = [mDeferred EXCEPT ![a] = Undeferred(a).deferred],
             races' = races
      PROVE  WinsMore(a)
  BY <1>1, <1>2, WinsNoMore
<1>3. CASE AppStep(a)
  <2>1. mDeferred' = mDeferred /\ races' = races
    BY <1>3, Zenon DEF AppStep, Call, SendAsync, SendSync, SpinNestedLoop, queueVars
  <2> QED
    BY <1>2, <2>1
<1>4. CASE HandlerStep(a)
  <2>1. mDeferred' = mDeferred /\ races' = races
    BY <1>4, Zenon DEF HandlerStep, IncallDone, SyncDone, LeaveNestedLoop, queueVars
  <2> QED
    BY <1>2, <2>1
<1>5. CASE LinkStep(a)
  <2>1. mDeferred' = mDeferred /\ races' = races
    BY <1>5, Zenon DEF LinkStep, OnMessageReceivedFromLink
  <2> QED
    BY <1>2, <2>1
<1>6. CASE ReplyTimesOut(a) \/ TimeoutStep(a) \/ OnChannelErrorFromLink(a)
  <2>1. mDeferred' = mDeferred /\ races' = races
    BY <1>6, Zenon DEF ReplyTimesOut, TimeoutStep, ContinueFromTimeout, GiveUp,
                       OnChannelErrorFromLink, queueVars
  <2> QED
    BY <1>2, <2>1
<1>7. CASE CallFails(a) \/ CallTakesOutOfTurn(a) \/ SyncReturns(a)
  <2>1. mDeferred' = mDeferred /\ races' = races
    BY <1>7, Zenon DEF CallFails, CallTakesOutOfTurn, SyncReturns, queueVars
  <2> QED
    BY <1>2, <2>1
<1>8. CASE CallLoop(a) \/ Unwind(a)
  <2>1. /\ mDeferred' = mDeferred \/ mDeferred' = [mDeferred EXCEPT ![a] = Undeferred(a).deferred]
        /\ races' = races
    BY <1>8, Zenon DEF CallLoop, Unwind
  <2> QED
    BY <1>2, <2>1
<1>9. CASE CallTakesPending(a)
  <2> DEFINE msg == Head(mPending[a])
             stk == Append(Front(frames[a]), Frame("calltop", Last(frames[a]).seqno))
             u == [deferred |-> mDeferred[a], guess |-> mRemoteStackDepthGuess[a]]
  <2>1. mStack[a] # <<>>
    <3>1. At(a) = "callwait" /\ connected[a]
      BY <1>9, Zenon DEF CallTakesPending
    <3> QED
      BY <1>1, <3>1, Waiting
  <2>2. \/ mDeferred' = mDeferred /\ races' = races
        \/ Incall(a, msg, StackDepth(a), stk, u)
        \/ OnDispatchMessage(a, msg, stk, u)
    BY <1>9, Zenon DEF CallTakesPending
  <2>3. u.deferred = mDeferred[a]
    OBVIOUS
  <2> HIDE DEF msg, stk, u
  <2>4. CASE OnDispatchMessage(a, msg, stk, u)
    <3>1. mDeferred' = [mDeferred EXCEPT ![a] = mDeferred[a]] /\ races' = races
      BY <2>3, <2>4, Zenon DEF OnDispatchMessage
    <3>2. mDeferred' = mDeferred
      BY <1>1, <3>1 DEF TypeOK
    <3> QED
      BY <1>2, <3>1, <3>2
  <2> QED
    BY <1>1, <1>2, <2>1, <2>2, <2>3, <2>4, IncallWins
<1>10. CASE OnMaybeDequeueOne(a)
  <2> DEFINE u == Undeferred(a)
             msg == Head(u.pending)
  <2>1. \/ mDeferred' = mDeferred /\ races' = races
        \/ mDeferred' = [mDeferred EXCEPT ![a] = u.deferred] /\ races' = races
        \/ /\ u.pending # <<>> /\ msg.kind = "rpc" /\ ~msg.reply
           /\ Incall(a, msg, 0, frames[a], u)
        \/ OnDispatchMessage(a, msg, frames[a], u)
    BY <1>10, Zenon DEF OnMaybeDequeueOne
  <2>2. CASE /\ u.pending # <<>> /\ msg.kind = "rpc" /\ ~msg.reply
             /\ Incall(a, msg, 0, frames[a], u)
    <3>1. Raced(a, msg, 0) => mStack[a] # <<>>
      BY <2>2, RacesWithCall
    <3>2. mDeferred[a] = <<>> => u.deferred = <<>>
      BY DEF Undeferred, MustUndefer
    <3> HIDE DEF u, msg
    <3> QED
      BY <1>1, <2>2, <3>1, <3>2, IncallWins
  <2>3. CASE OnDispatchMessage(a, msg, frames[a], u)
    <3>1. mDeferred' = [mDeferred EXCEPT ![a] = u.deferred] /\ races' = races
      BY <2>3, Zenon DEF OnDispatchMessage
    <3> QED
      BY <1>2, <3>1
  <2> QED
    BY <1>2, <2>1, <2>2, <2>3
<1> QED
  BY <1>3, <1>4, <1>5, <1>6, <1>7, <1>8, <1>9, <1>10 DEF WorkerStep

\* As long as the parent has won no race it defers nothing, and the sync messages are
\* where they belong.
NoneWon == Won("parent") = {} => mDeferred["parent"] = <<>> /\ SyncFine

LEMMA NoneWonStays ==
    ASSUME IInv, IInv', NoneWon, [Next]_vars
    PROVE  NoneWon'
<1>1. Base /\ Base'
  BY DEF IInv, Booked
<1>2. CASE UNCHANGED vars
  <2>1. Won("parent")' = Won("parent") /\ mDeferred' = mDeferred
    BY <1>2 DEF vars, Won
  <2> QED
    BY <1>1, <1>2, <2>1, SyncFineStays DEF NoneWon
<1>3. CASE Next
  <2>1. PICK a \in Sides :
           \/ AppStep(a) \/ WorkerStep(a) \/ HandlerStep(a) \/ LinkStep(a)
           \/ ReplyTimesOut(a) \/ TimeoutStep(a) \/ OnChannelErrorFromLink(a)
    BY <1>3, Zenon DEF Next
  <2>2. WinsMore(a)
    BY <2>1, StepWins
  <2> SUFFICES ASSUME Won("parent")' = {}
               PROVE  mDeferred'["parent"] = <<>> /\ SyncFine'
    BY DEF NoneWon
  <2>3. "parent" \in Sides /\ ("parent" = a \/ "parent" = Other(a))
    BY SidesAre DEF Sides
  <2>4. Won("parent") = {}
    BY <2>2, <2>3 DEF WinsMore
  <2>5. mDeferred["parent"] = <<>> /\ SyncFine
    BY <2>4 DEF NoneWon
  <2>6. SyncFine'
    BY <1>1, <1>3, <2>5, SyncFineStays
  <2>7. mDeferred'["parent"] = <<>>
    <3>1. CASE a = "parent"
      BY <2>2, <2>5, <3>1 DEF WinsMore
    <3>2. CASE Other(a) = "parent"
      BY <2>2, <2>5, <3>2 DEF WinsMore
    <3> QED
      BY <2>3, <3>1, <3>2
  <2> QED
    BY <2>6, <2>7
<1> QED
  BY <1>2, <1>3

\* Nothing is queued behind a sync message that Call takes, for its sender is blocked
\* (RPCChannel.cpp:219-220), as long as the parent has won no race: an in-call that it
\* deferred may be queued behind one.
THEOREM SendersAreBlocked == Spec => []SenderBlockedUnlessWon
<1> DEFINE Inv == IInv /\ NoneWon
<1>1. Init => Inv
  <2> SUFFICES ASSUME Init
               PROVE  IInv /\ NoneWon
    OBVIOUS
  <2>1. mDeferred["parent"] = <<>>
    BY DEF Init, Sides
  <2> QED
    BY <2>1, InitIInv, InitSyncFine DEF NoneWon
<1>2. Inv /\ [Next]_vars => Inv'
  BY IInvStays, NoneWonStays
<1>3. Inv => SenderBlockedUnlessWon
  <2> SUFFICES ASSUME Base, SyncFine, NEW s \in Sides, mPending[s] # <<>>,
                      Head(mPending[s]).kind = "sync"
               PROVE  Len(mPending[s]) = 1
    BY DEF SenderBlockedUnlessWon, SenderBlocked, NoneWon, IInv, Booked
  <2>1. mPending[s] \in Seq(Message)
    BY SideTyped DEF Base
  <2>2. Head(mPending[s]) \in Syncs /\ Bears(mPending[s], Syncs)
    BY <2>1, MarksTail DEF Syncs
  <2>3. s = "parent" /\ AtEnd(mPending["parent"], Syncs)
    BY <2>2 DEF SyncFine, InTurn, ChildWaits, Sides
  <2> QED
    BY <2>1, <2>2, <2>3, MarksTail
<1> HIDE DEF Inv
<1> QED
  BY <1>1, <1>2, <1>3, PTL DEF Spec
=============================================================================
