--------------------------- MODULE RPCRaceProofs ---------------------------
(***************************************************************************)
(* Proof that races are symmetric on channels without nested event loops:  *)
(* once both sides of a link that has held are back in their event loops,  *)
(* neither has seen a race or both have, for every policy of races and    *)
(* any numbers of calls and messages.                                      *)
(*                                                                         *)
(* Until a race is seen, each side knows what the other has called and     *)
(* answered (Told, Whole); when one side sees a race, the message that     *)
(* shows it to the other is on its way, or is being handled (Due).         *)
(***************************************************************************)
EXTENDS RPCChannelProofs

(***************************************************************************)
(* The order of the messages that a side has pending, p, and on their way  *)
(* to it, w.                                                               *)
(***************************************************************************)

\* No r is in q; some m is, and before every r.
Lacks(q, r) == \A i \in 1 .. Len(q) : q[i] # r
Leads(q, m, r) == \E i \in 1 .. Len(q) : q[i] = m /\ \A j \in 1 .. i - 1 : q[j] # r

Carried(p, w, e) == ~Lacks(p, e) \/ ~Lacks(w, e)
Clear(p, w, m, r) == Leads(p, m, r) \/ (Lacks(p, r) /\ Leads(w, m, r))

\* Calls and replies are carried, and in the same order.
Ranked(p, w, p2, w2) ==
    \A e, r \in RPCs : /\ Carried(p2, w2, e) <=> Carried(p, w, e)
                       /\ Clear(p2, w2, e, r) <=> Clear(p, w, e, r)

\* The order in a sequence that is appended to.
LEMMA OrderAppend ==
    ASSUME NEW q \in Seq(Message), NEW x \in Message, NEW m, NEW r
    PROVE  /\ Lacks(Append(q, x), r) <=> Lacks(q, r) /\ x # r
           /\ Leads(Append(q, x), m, r) <=> Leads(q, m, r) \/ (Lacks(q, r) /\ x = m)
<1> DEFINE h == Append(q, x)
           n == Len(q)
<1>1. /\ n \in Nat /\ Len(h) = n + 1 /\ h[n + 1] = x
      /\ \A i \in 1 .. n : h[i] = q[i]
  BY AppendIs
<1>2. Lacks(q, r) <=> \A i \in 1 .. n : h[i] # r
  BY <1>1 DEF Lacks
<1>3. Leads(q, m, r) <=> \E i \in 1 .. n : h[i] = m /\ \A j \in 1 .. i - 1 : h[j] # r
  BY <1>1 DEF Leads
<1> HIDE DEF h, n
<1>4. /\ n + 1 \in 1 .. Len(h) /\ 1 .. n \subseteq 1 .. Len(h) /\ (n + 1) - 1 = n
      /\ \A i \in 1 .. Len(h) : i = n + 1 \/ i \in 1 .. n
  BY <1>1
<1>5. Lacks(h, r) <=> Lacks(q, r) /\ x # r
  BY <1>1, <1>2, <1>4 DEF Lacks
<1>6. Leads(h, m, r) <=> Leads(q, m, r) \/ (Lacks(q, r) /\ x = m)
  BY <1>1, <1>2, <1>3, <1>4 DEF Leads
<1> QED
  BY <1>5, <1>6 DEF h

\* The order in the tail of a sequence.
LEMMA OrderTail ==
    ASSUME NEW q \in Seq(Message), q # <<>>, NEW m, NEW r
    PROVE  /\ Head(q) \in Message /\ Tail(q) \in Seq(Message)
           /\ Lacks(q, r) <=> Head(q) # r /\ Lacks(Tail(q), r)
           /\ Leads(q, m, r) <=> Head(q) = m \/ (Head(q) # r /\ Leads(Tail(q), m, r))
<1> DEFINE t == Tail(q)
           h == Head(q)
           n == Len(q)
<1>1. /\ n \in Nat \ {0} /\ t \in Seq(Message) /\ Len(t) = n - 1 /\ h = q[1] /\ h \in Message
      /\ \A i \in 1 .. Len(t) : t[i] = q[i + 1]
  <2>1. /\ t \in Seq(Message) /\ Len(t) = n - 1 /\ h \in Message
        /\ \A i \in 1 .. Len(t) : t[i] = q[i + 1]
    BY HeadTailProperties
  <2>2. n \in Nat \ {0}
    BY EmptySeq, LenProperties
  <2>3. h = q[1]
    OBVIOUS
  <2> HIDE DEF t, h, n
  <2> QED
    BY <2>1, <2>2, <2>3
<1> HIDE DEF t, h, n
<1>2. /\ 1 \in 1 .. n /\ 1 .. 1 - 1 = {} /\ \A i \in 1 .. Len(t) : i + 1 \in 1 .. n
      /\ \A i \in 1 .. n : i = 1 \/ (i - 1 \in 1 .. Len(t) /\ (i - 1) + 1 = i)
  BY <1>1
<1>3. ASSUME h # r
      PROVE  /\ Lacks(q, r) <=> Lacks(t, r)
             /\ Leads(t, m, r) => Leads(q, m, r)
             /\ Leads(q, m, r) /\ h # m => Leads(t, m, r)
  <2>1. Lacks(q, r) => Lacks(t, r)
    BY <1>1, <1>2 DEF Lacks, n
  <2>2. Lacks(t, r) => Lacks(q, r)
    <3> SUFFICES ASSUME Lacks(t, r), NEW i \in 1 .. n
                 PROVE  q[i] # r
      BY DEF Lacks, n
    <3>1. CASE i = 1
      BY <1>1, <1>3, <3>1
    <3>2. CASE i - 1 \in 1 .. Len(t) /\ (i - 1) + 1 = i
      <4>1. t[i - 1] # r
        BY <3>2 DEF Lacks
      <4> QED
        BY <1>1, <3>2, <4>1
    <3> QED
      BY <1>2, <3>1, <3>2
  <2>3. Leads(t, m, r) => Leads(q, m, r)
    <3> SUFFICES ASSUME NEW i \in 1 .. Len(t), t[i] = m, \A j \in 1 .. i - 1 : t[j] # r
                 PROVE  Leads(q, m, r)
      BY DEF Leads
    <3>1. i + 1 \in 1 .. n /\ q[i + 1] = m
      BY <1>1, <1>2
    <3>2. ASSUME NEW j \in 1 .. (i + 1) - 1
          PROVE  q[j] # r
      <4>1. CASE j = 1
        BY <1>1, <1>3, <4>1
      <4>2. CASE j # 1
        <5>1. j - 1 \in 1 .. i - 1 /\ j - 1 \in 1 .. Len(t) /\ (j - 1) + 1 = j
          BY <1>1, <4>2
        <5> QED
          BY <1>1, <5>1
      <4> QED
        BY <4>1, <4>2
    <3> QED
      BY <3>1, <3>2 DEF Leads, n
  <2>4. Leads(q, m, r) /\ h # m => Leads(t, m, r)
    <3> SUFFICES ASSUME h # m, NEW i \in 1 .. n, q[i] = m, \A j \in 1 .. i - 1 : q[j] # r
                 PROVE  Leads(t, m, r)
      BY DEF Leads, n
    <3>1. i - 1 \in 1 .. Len(t) /\ (i - 1) + 1 = i
      BY <1>1, <1>2
    <3>2. t[i - 1] = m
      BY <1>1, <3>1
    <3>3. ASSUME NEW j \in 1 .. (i - 1) - 1
          PROVE  t[j] # r
      <4>1. j \in 1 .. Len(t) /\ j + 1 \in 1 .. i - 1
        BY <1>1, <3>1
      <4> QED
        BY <1>1, <4>1
    <3> QED
      BY <3>1, <3>2, <3>3 DEF Leads
  <2> QED
    BY <2>1, <2>2, <2>3, <2>4
<1>4. h = m => Leads(q, m, r)
  BY <1>1, <1>2 DEF Leads, n
<1>5. ASSUME h = r, h # m
      PROVE  ~Leads(q, m, r)
  <2> SUFFICES ASSUME NEW i \in 1 .. n, q[i] = m, \A j \in 1 .. i - 1 : q[j] # r
               PROVE  FALSE
    BY DEF Leads, n
  <2>1. i # 1
    BY <1>1, <1>5
  <2>2. 1 \in 1 .. i - 1
    BY <1>1, <2>1
  <2> QED
    BY <1>1, <1>5, <2>2
<1>6. h = r => ~Lacks(q, r)
  BY <1>1, <1>2 DEF Lacks, n
<1>7. /\ Lacks(q, r) <=> h # r /\ Lacks(t, r)
      /\ Leads(q, m, r) <=> h = m \/ (h # r /\ Leads(t, m, r))
  BY <1>3, <1>4, <1>5, <1>6
<1> QED
  BY <1>1, <1>7 DEF h, t

\* The order in the front of a sequence whose last element is neither message.
LEMMA OrderFront ==
    ASSUME NEW q \in Seq(Message), q # <<>>, NEW m, NEW r, Last(q) # m, Last(q) # r
    PROVE  /\ Front(q) \in Seq(Message)
           /\ Lacks(Front(q), r) <=> Lacks(q, r)
           /\ Leads(Front(q), m, r) <=> Leads(q, m, r)
<1> DEFINE p == Front(q)
           x == Last(q)
<1>1. p \in Seq(Message) /\ x \in Message /\ q = Append(p, x) /\ x # m /\ x # r
  BY FrontLast
<1>2. q = Append(p, x)
  BY <1>1
<1> HIDE DEF p, x
<1>3. /\ Lacks(Append(p, x), r) <=> Lacks(p, r) /\ x # r
      /\ Leads(Append(p, x), m, r) <=> Leads(p, m, r) \/ (Lacks(p, r) /\ x = m)
  BY <1>1, OrderAppend
<1> QED
  BY <1>1, <1>2, <1>3 DEF p, x

\* A message sent is the last one on its way.
LEMMA ClearSent ==
    ASSUME NEW p \in Seq(Message), NEW w \in Seq(Message), NEW x \in Message, NEW m, NEW r
    PROVE  /\ Carried(p, Append(w, x), m) <=> Carried(p, w, m) \/ x = m
           /\ Clear(p, Append(w, x), m, r) <=>
                 Clear(p, w, m, r) \/ (x = m /\ ~Carried(p, w, r))
BY OrderAppend DEF Carried, Clear

\* A message taken is the first one pending.
LEMMA ClearTaken ==
    ASSUME NEW p \in Seq(Message), NEW w \in Seq(Message), p # <<>>, NEW m, NEW r
    PROVE  /\ Carried(p, w, m) <=> Carried(Tail(p), w, m) \/ Head(p) = m
           /\ Clear(p, w, m, r) <=> Head(p) = m \/ (Head(p) # r /\ Clear(Tail(p), w, m, r))
<1>1. /\ Lacks(p, r) <=> Head(p) # r /\ Lacks(Tail(p), r)
      /\ Leads(p, m, r) <=> Head(p) = m \/ (Head(p) # r /\ Leads(Tail(p), m, r))
  BY OrderTail
<1>2. Lacks(p, m) <=> Head(p) # m /\ Lacks(Tail(p), m)
  BY OrderTail
<1> QED
  BY <1>1, <1>2 DEF Carried, Clear

\* The link moves a message to the queue, in the place of one that is of no call or not,
\* or drops one that is of no call.
LEMMA ClearReceived ==
    ASSUME NEW p \in Seq(Message), NEW w \in Seq(Message), w # <<>>, NEW q,
           \/ q = p /\ Head(w) \notin RPCs
           \/ q = Append(p, Head(w))
           \/ p # <<>> /\ Last(p) \notin RPCs /\ q = Append(Front(p), Head(w))
    PROVE  Ranked(p, w, q, Tail(w))
<1> DEFINE h == Head(w)
           v == Tail(w)
<1> SUFFICES ASSUME NEW m \in RPCs, NEW r \in RPCs
             PROVE  /\ Carried(q, v, m) <=> Carried(p, w, m)
                    /\ Clear(q, v, m, r) <=> Clear(p, w, m, r)
  BY DEF Ranked
<1>1. /\ h \in Message /\ v \in Seq(Message)
      /\ Lacks(w, m) <=> h # m /\ Lacks(v, m)
      /\ Leads(w, m, r) <=> h = m \/ (h # r /\ Leads(v, m, r))
  BY OrderTail
<1> HIDE DEF h, v
<1>2. ASSUME NEW f \in Seq(Message), Lacks(f, m) <=> Lacks(p, m), Lacks(f, r) <=> Lacks(p, r),
             Leads(f, m, r) <=> Leads(p, m, r), q = Append(f, h)
      PROVE  /\ Carried(q, v, m) <=> Carried(p, w, m)
             /\ Clear(q, v, m, r) <=> Clear(p, w, m, r)
  <2>1. /\ Lacks(q, m) <=> Lacks(f, m) /\ h # m
        /\ Lacks(q, r) <=> Lacks(f, r) /\ h # r
        /\ Leads(q, m, r) <=> Leads(f, m, r) \/ (Lacks(f, r) /\ h = m)
    BY <1>1, <1>2, OrderAppend
  <2> QED
    BY <1>1, <1>2, <2>1 DEF Carried, Clear
<1>3. CASE q = p /\ h \notin RPCs
  BY <1>1, <1>3 DEF Carried, Clear
<1>4. CASE q = Append(p, h)
  BY <1>2, <1>4
<1>5. CASE p # <<>> /\ Last(p) \notin RPCs /\ q = Append(Front(p), h)
  <2>1. Last(p) # m /\ Last(p) # r
    BY <1>5
  <2>2. /\ Front(p) \in Seq(Message) /\ (Lacks(Front(p), r) <=> Lacks(p, r))
        /\ Leads(Front(p), m, r) <=> Leads(p, m, r)
    BY <1>5, <2>1, OrderFront
  <2>3. Lacks(Front(p), m) <=> Lacks(p, m)
    BY <1>5, <2>1, OrderFront
  <2> QED
    BY <1>2, <1>5, <2>2, <2>3
<1> QED
  BY <1>3, <1>4, <1>5, Zenon DEF h

\* Messages are carried exactly if they are held, when none is deferred.
LEMMA CarriedHeld ==
    ASSUME NEW w \in Seq(Message), NEW p \in Seq(Message), NEW e
    PROVE  /\ Held(w, p, <<>>, e) > 0 <=> Carried(p, w, e)
           /\ \A d \in Seq(Message) : Carried(p, w, e) => Held(w, p, d, e) > 0
<1>1. ASSUME NEW q \in Seq(Message)
      PROVE  Occurrences(e, q) \in Nat /\ (Occurrences(e, q) = 0 <=> Lacks(q, e))
  <2>1. DOMAIN q = 1 .. Len(q)
    BY LenProperties
  <2> QED
    BY <2>1, OccurrencesType DEF Lacks
<1>2. Occurrences(e, <<>>) = 0
  BY OccurrencesEmpty
<1>3. Held(w, p, <<>>, e) > 0 <=> Carried(p, w, e)
  BY <1>1, <1>2 DEF Held, Carried
<1>4. ASSUME NEW d \in Seq(Message), Carried(p, w, e)
      PROVE  Held(w, p, d, e) > 0
  BY <1>1, <1>4 DEF Held, Carried
<1> QED
  BY <1>3, <1>4

\* What is carried is ahead of what is not; what is ahead is carried.
LEMMA ClearCarried ==
    ASSUME NEW p, NEW w, NEW m, NEW r
    PROVE  /\ Carried(p, w, m) /\ ~Carried(p, w, r) => Clear(p, w, m, r)
           /\ Clear(p, w, m, r) => Carried(p, w, m)
BY DEF Carried, Clear, Lacks, Leads

-----------------------------------------------------------------------------
(***************************************************************************)
(* Without nested event loops, a side measures its stack as it is.         *)
(***************************************************************************)

Nests == {x \in FrameRec : x.at = "nest"}

\* No event loop is nested, and none can be.
Flat == \A s \in Sides : ~Bears(frames[s], Nests) /\ budget[s].nest = 0

\* The step from the stack f to h adds no nested event loop.
Levels(f, h) == h \in Stacks /\ (Bears(h, Nests) => Bears(f, Nests))

\* And no in-call that was handled no longer is.
Lasts(f, h) == Levels(f, h) /\ \A n \in Int : Running(f, n) > 0 => Running(h, n) > 0

\* A stack that stays the same.
LEMMA LastsItself ==
    ASSUME NEW f \in Stacks
    PROVE  Lasts(f, f)
BY DEF Lasts, Levels

\* Two such steps are one.
LEMMA LastsTwice ==
    ASSUME NEW f, NEW g, NEW h, Lasts(f, g), Lasts(g, h)
    PROVE  Lasts(f, h)
BY DEF Lasts, Levels

\* A frame is pushed.
LEMMA LastsPush ==
    ASSUME NEW f \in Stacks, NEW x \in FrameRec, x.at # "nest"
    PROVE  /\ Lasts(f, Append(f, x))
           /\ \A n \in Int : x = Frame("incall", n) => Running(Append(f, x), n) > 0
<1> DEFINE h == Append(f, x)
<1>1. h \in Stacks /\ Grown(f, x, h)
  BY AppendGrown
<1>2. Bears(h, Nests) <=> Bears(f, Nests) \/ x \in Nests
  BY MarksAppend DEF Stacks
<1> HIDE DEF h
<1>3. \A n \in Int : /\ Running(f, n) \in Nat
                     /\ Running(h, n) = Running(f, n) + (IF x = Frame("incall", n) THEN 1 ELSE 0)
  BY <1>1 DEF Grown
<1>4. \A n \in Int : /\ Running(f, n) > 0 => Running(h, n) > 0
                     /\ x = Frame("incall", n) => Running(h, n) > 0
  BY <1>3
<1>5. Bears(h, Nests) => Bears(f, Nests)
  BY <1>2 DEF Nests
<1> QED
  BY <1>1, <1>4, <1>5 DEF Lasts, Levels, h

\* A frame is popped; if it is that of an in-call, the in-call ends.
LEMMA LastsPop ==
    ASSUME NEW f \in Stacks, f # <<>>
    PROVE  /\ Levels(f, Front(f))
           /\ Last(f).at # "incall" => Lasts(f, Front(f))
<1> DEFINE g == Front(f)
           x == Last(f)
<1>1. g \in Stacks /\ x \in FrameRec /\ Grown(g, x, f)
  BY FrontGrown
<1>2. Bears(g, Nests) => Bears(f, Nests)
  BY MarksFront DEF Stacks
<1> HIDE DEF g, x
<1>3. \A n \in Int : /\ Running(g, n) \in Nat
                     /\ Running(f, n) = Running(g, n) + (IF x = Frame("incall", n) THEN 1 ELSE 0)
  BY <1>1 DEF Grown
<1>4. ASSUME x.at # "incall"
      PROVE  \A n \in Int : Running(f, n) > 0 => Running(g, n) > 0
  <2>1. \A n \in Int : x # Frame("incall", n)
    BY <1>4 DEF Frame
  <2> QED
    BY <1>3, <2>1
<1>5. Levels(f, g)
  BY <1>1, <1>2 DEF Levels
<1> QED
  BY <1>4, <1>5 DEF Lasts, g, x

\* A frame takes the place of another.
LEMMA LastsTop ==
    ASSUME NEW f \in Stacks, f # <<>>, NEW x \in FrameRec, x.at # "nest"
    PROVE  /\ Levels(f, Append(Front(f), x))
           /\ Last(f).at # "incall" => Lasts(f, Append(Front(f), x))
<1> DEFINE g == Front(f)
           h == Append(Front(f), x)
<1>1. Levels(f, g) /\ (Last(f).at # "incall" => Lasts(f, g)) /\ g \in Stacks
  BY LastsPop, FrontGrown
<1>2. Lasts(g, h)
  BY <1>1, LastsPush
<1> HIDE DEF g, h
<1>3. Levels(f, h)
  BY <1>1, <1>2 DEF Lasts, Levels
<1>4. Last(f).at # "incall" => Lasts(f, h)
  BY <1>1, <1>2, LastsTwice
<1> QED
  BY <1>3, <1>4 DEF h

-----------------------------------------------------------------------------
(***************************************************************************)
(* What the steps of a side do to the order of messages and to open calls. *)
(***************************************************************************)

\* Nothing happens on side o, but that a message may be sent to it.
Beside(o) ==
    /\ mPending'[o] = mPending[o] /\ mStack'[o] = mStack[o]
    /\ mOutOfTurnReplies'[o] = mOutOfTurnReplies[o] /\ mDeferred'[o] = mDeferred[o]
    /\ frames'[o] = frames[o] /\ races'[o] = races[o]
    /\ wire'[o] = wire[o] \/ \E x \in Message : wire'[o] = Append(wire[o], x)

\* Side a detects no race, and each of its in-calls is still handled, or answered.
Peaceful(a) ==
    /\ mDeferred'[a] = mDeferred[a] /\ races'[a] = races[a]
    /\ \A n \in Int : RunningOn(a, n) > 0
                         => RunningOn(a, n)' > 0 \/ HeldBy(Other(a), RPCReply(n))' > 0

\* It takes no message, and if it calls, sends the call ...
Idles(a) ==
    /\ Peaceful(a) /\ Ranked(mPending[a], wire[a], mPending'[a], wire'[a])
    /\ \A c \in Open(a) : c \in Open(a)'
    /\ \A c \in Open(a)' :
          c \in Open(a) \/ \E e \in Requests : e.seqno = c /\ HeldBy(Other(a), e)' > 0

\* ... or takes x, which if a reply closes its call, and if a call is handled, or
\* turns out to have raced.
Meets(a, x) ==
    \/ /\ x \notin Requests /\ Peaceful(a)
       /\ \A c \in Int : c \in Open(a)' <=> c \in Open(a) /\ x # RPCReply(c)
    \/ /\ x \in Requests /\ Peaceful(a) /\ x.guess = Cardinality(Open(a))
       /\ Open(a)' = Open(a) /\ RunningOn(a, x.seqno)' > 0
    \/ x \in Requests /\ x.guess # Cardinality(Open(a)) /\ races'[a] # {}

Takes(a, x) ==
    /\ mPending[a] # <<>> /\ x = Head(mPending[a])
    /\ mPending'[a] = Tail(mPending[a]) /\ wire'[a] = wire[a]
    /\ Meets(a, x)

Plays(a) ==
    /\ Beside(Other(a)) /\ Levels(frames[a], frames'[a])
    /\ races[a] \subseteq races'[a]
    /\ mDeferred[a] = <<>> => Idles(a) \/ \E x \in Message : Takes(a, x)

\* Side a leaves its queues, stacks and races as given.
Acts(a, p, st, r, d, f, y) ==
    /\ Replaced(mPending, mPending', a, p) /\ Replaced(mStack, mStack', a, st)
    /\ Replaced(mOutOfTurnReplies, mOutOfTurnReplies', a, r)
    /\ Replaced(mDeferred, mDeferred', a, d) /\ Replaced(frames, frames', a, f)
    /\ Replaced(races, races', a, y)

\* The state after such a step.
LEMMA ActsAre ==
    ASSUME TypeOK, NEW a \in Sides, NEW p, NEW st, NEW r, NEW d, NEW f, NEW y,
           Acts(a, p, st, r, d, f, y),
           wire'[Other(a)] = wire[Other(a)]
              \/ \E x \in Message : wire'[Other(a)] = Append(wire[Other(a)], x)
    PROVE  /\ mPending'[a] = p /\ mStack'[a] = st /\ mOutOfTurnReplies'[a] = r
           /\ mDeferred'[a] = d /\ frames'[a] = f /\ races'[a] = y
           /\ Beside(Other(a))
<1>1. /\ DOMAIN mPending = Sides /\ DOMAIN mStack = Sides /\ DOMAIN mOutOfTurnReplies = Sides
      /\ DOMAIN mDeferred = Sides /\ DOMAIN frames = Sides /\ DOMAIN races = Sides
  BY DEF TypeOK
<1>2. Other(a) \in Sides /\ Other(a) # a
  BY SidesAre
<1>3. ASSUME NEW v, NEW v2, NEW x, DOMAIN v = Sides, Replaced(v, v2, a, x)
      PROVE  v2[a] = x /\ v2[Other(a)] = v[Other(a)]
  BY <1>2, <1>3 DEF Replaced
<1>4. /\ mPending'[a] = p /\ mPending'[Other(a)] = mPending[Other(a)]
      /\ mStack'[a] = st /\ mStack'[Other(a)] = mStack[Other(a)]
  BY <1>1, <1>3 DEF Acts
<1>5. /\ mOutOfTurnReplies'[a] = r /\ mOutOfTurnReplies'[Other(a)] = mOutOfTurnReplies[Other(a)]
      /\ mDeferred'[a] = d /\ mDeferred'[Other(a)] = mDeferred[Other(a)]
  BY <1>1, <1>3 DEF Acts
<1>6. /\ frames'[a] = f /\ frames'[Other(a)] = frames[Other(a)]
      /\ races'[a] = y /\ races'[Other(a)] = races[Other(a)]
  BY <1>1, <1>3 DEF Acts
<1> QED
  BY <1>4, <1>5, <1>6, Zenon DEF Beside

\* Queues that stay the same keep their order.
LEMMA RankedItself ==
    ASSUME NEW p, NEW w
    PROVE  Ranked(p, w, p, w)
BY DEF Ranked

\* What a side sends goes to the other side.
LEMMA SentAside ==
    ASSUME TypeOK, NEW a \in Sides,
           wire' = wire \/ \E x \in Message : SendMessage(a, x)
    PROVE  /\ wire'[a] = wire[a]
           /\ wire'[Other(a)] = wire[Other(a)]
                 \/ \E x \in Message : wire'[Other(a)] = Append(wire[Other(a)], x)
BY Sent

\* The out-calls and the replies put aside decide which calls are open.
LEMMA OpenSame ==
    ASSUME NEW s, mStack'[s] = mStack[s], mOutOfTurnReplies'[s] = mOutOfTurnReplies[s]
    PROVE  Open(s)' = Open(s)
BY DEF Open

\* A step that leaves queues and calls of its side, unless a call is deferred there.
LEMMA PlaysIdle ==
    ASSUME Base, NEW a \in Sides, NEW p, NEW d, NEW f,
           Acts(a, p, mStack[a], mOutOfTurnReplies[a], d, f, races[a]),
           mDeferred[a] = <<>> => p = mPending[a] /\ d = <<>>, Lasts(frames[a], f),
           wire' = wire \/ \E x \in Message : SendMessage(a, x)
    PROVE  Plays(a)
<1>1. TypeOK
  BY DEF Base
<1>2. /\ wire'[a] = wire[a]
      /\ wire'[Other(a)] = wire[Other(a)]
            \/ \E x \in Message : wire'[Other(a)] = Append(wire[Other(a)], x)
  BY <1>1, SentAside
<1>3. /\ mPending'[a] = p /\ mStack'[a] = mStack[a]
      /\ mOutOfTurnReplies'[a] = mOutOfTurnReplies[a]
      /\ mDeferred'[a] = d /\ frames'[a] = f /\ races'[a] = races[a]
      /\ Beside(Other(a))
  BY <1>1, <1>2, ActsAre
<1>4. ASSUME mDeferred[a] = <<>>
      PROVE  Idles(a)
  <2>1. Open(a)' = Open(a)
    BY <1>3, OpenSame
  <2>2. Ranked(mPending[a], wire[a], mPending'[a], wire'[a])
    BY <1>2, <1>3, <1>4, RankedItself
  <2>3. Peaceful(a)
    BY <1>3, <1>4 DEF Peaceful, Lasts, RunningOn
  <2> QED
    BY <2>1, <2>2, <2>3 DEF Idles
<1> QED
  BY <1>3, <1>4 DEF Plays, Lasts

\* A step that leaves all queues and calls.
LEMMA PlaysQuiet ==
    ASSUME Base, NEW a \in Sides, UNCHANGED <<queueVars, mStack>>,
           NEW f, Replaced(frames, frames', a, f), Lasts(frames[a], f),
           wire' = wire \/ \E x \in Message : SendMessage(a, x)
    PROVE  Plays(a)
<1>1. UNCHANGED <<mPending, mStack, mOutOfTurnReplies, mDeferred, races>>
  BY DEF queueVars
<1>2. \A v, v2 : v2 = v => Replaced(v, v2, a, v[a])
  BY DEF Replaced
<1>3. Acts(a, mPending[a], mStack[a], mOutOfTurnReplies[a], mDeferred[a], f, races[a])
  BY <1>1, <1>2 DEF Acts
<1> QED
  BY <1>3, PlaysIdle

\* The frames of which a handler's is none, and a nested event loop's is none.
LEMMA LastingFrames ==
    /\ \A at \in {"calltop", "callwait", "timeout", "unwind", "syncout", "syncin", "incall"} :
          \A n \in Int : Frame(at, n) \in FrameRec /\ Frame(at, n).at # "nest"
    /\ AsyncHandler \in FrameRec /\ AsyncHandler.at # "nest"
BY DEF Frame, FrameRec, FrameKinds, AsyncHandler

\* SendSync, SendAsync, and the steps of SyncChannel::Send, of sync handlers and of
\* timeouts.
LEMMA QuietPlays ==
    ASSUME Base, NEW a \in Sides,
           \/ SendSync(a) \/ SendAsync(a) \/ SyncDone(a) \/ SyncReturns(a) \/ CallFails(a)
           \/ ReplyTimesOut(a) \/ ContinueFromTimeout(a) \/ LeaveNestedLoop(a)
    PROVE  Plays(a)
<1>1. frames[a] \in Stacks /\ TypeOK
  BY SideTyped DEF Base
<1>2. At(a) # "loop" => /\ frames[a] # <<>> /\ Last(frames[a]).at = At(a)
                        /\ Last(frames[a]).seqno \in Int
  BY AtIs
<1>3. ASSUME NEW at \in {"callwait", "timeout", "unwind"}, NEW n \in Int,
             At(a) # "loop", At(a) # "incall", SetTop(a, Frame(at, n)),
             UNCHANGED <<queueVars, mStack>>,
             wire' = wire \/ \E x \in Message : SendMessage(a, x)
      PROVE  Plays(a)
  <2> DEFINE x == Frame(at, n)
             f == Append(Front(frames[a]), x)
  <2>1. x \in FrameRec /\ x.at # "nest"
    BY LastingFrames
  <2>2. Replaced(frames, frames', a, f)
    BY <1>3 DEF SetTop, Replaced
  <2> HIDE DEF x
  <2>3. Lasts(frames[a], f)
    BY <1>1, <1>2, <1>3, <2>1, LastsTop
  <2> HIDE DEF f
  <2> QED
    BY <1>3, <2>2, <2>3, PlaysQuiet
<1>4. CASE SendSync(a)
  <2>1. /\ UNCHANGED <<queueVars, mStack>> /\ SendMessage(a, Sync(NextSeqno(a)))
        /\ WaitForReply(a, NextSeqno(a))
    BY <1>4, Zenon DEF SendSync
  <2>2. NextSeqno(a) \in Int
    BY <1>1, SideTyped DEF NextSeqno
  <2> DEFINE x == Frame("syncout", NextSeqno(a))
             f == Append(frames[a], x)
  <2>3. x \in FrameRec /\ x.at # "nest"
    BY <2>2, LastingFrames
  <2>4. Replaced(frames, frames', a, f)
    BY <2>1 DEF WaitForReply, Push, Replaced
  <2> HIDE DEF x
  <2>5. Lasts(frames[a], f)
    BY <1>1, <2>3, LastsPush
  <2>6. Sync(NextSeqno(a)) \in Message
    BY <2>2, MessagesAre
  <2> HIDE DEF f
  <2> QED
    BY <2>1, <2>4, <2>5, <2>6, PlaysQuiet
<1>5. CASE SendAsync(a)
  <2>1. UNCHANGED <<queueVars, mStack, frames>> /\ SendMessage(a, Async)
    BY <1>5, Zenon DEF SendAsync
  <2>2. Replaced(frames, frames', a, frames[a]) /\ Lasts(frames[a], frames[a])
    BY <1>1, <2>1, LastsItself DEF Replaced
  <2>3. Async \in Message
    BY MessagesAre
  <2> QED
    BY <2>1, <2>2, <2>3, PlaysQuiet
<1>6. CASE SyncDone(a)
  <2>1. /\ At(a) = "syncin" /\ SetTop(a, Frame("unwind", 0)) /\ UNCHANGED <<queueVars, mStack>>
        /\ SendReply(a, SyncReply(Last(frames[a]).seqno))
    BY <1>6, Zenon DEF SyncDone
  <2>2. SyncReply(Last(frames[a]).seqno) \in Message
    BY <1>2, <2>1, MessagesAre
  <2>3. wire' = wire \/ \E x \in Message : SendMessage(a, x)
    BY <2>1, <2>2 DEF SendReply
  <2> QED
    BY <1>3, <2>1, <2>3
<1>7. CASE SyncReturns(a)
  <2>1. /\ At(a) = "syncout" /\ SetTop(a, Frame("unwind", 0))
        /\ UNCHANGED <<queueVars, mStack, wire>>
    BY <1>7, Zenon DEF SyncReturns
  <2> QED
    BY <1>3, <2>1
<1>8. CASE CallFails(a)
  <2>1. /\ At(a) \in {"calltop", "callwait"} /\ SetTop(a, Frame("unwind", 0))
        /\ UNCHANGED <<queueVars, mStack, wire>>
    BY <1>8, Zenon DEF CallFails, NoticesError
  <2> QED
    BY <1>3, <2>1
<1>9. CASE ReplyTimesOut(a)
  <2>1. /\ At(a) = "callwait" /\ SetTop(a, Frame("timeout", Last(frames[a]).seqno))
        /\ UNCHANGED <<queueVars, mStack, wire>>
    BY <1>9, Zenon DEF ReplyTimesOut
  <2> QED
    BY <1>2, <1>3, <2>1
<1>10. CASE ContinueFromTimeout(a)
  <2>1. /\ At(a) = "timeout" /\ SetTop(a, Frame("callwait", Last(frames[a]).seqno))
        /\ UNCHANGED <<queueVars, mStack, wire>>
    BY <1>10, Zenon DEF ContinueFromTimeout
  <2> QED
    BY <1>2, <1>3, <2>1
<1>11. CASE LeaveNestedLoop(a)
  <2> DEFINE f == Front(frames[a])
  <2>1. /\ At(a) = "nest" /\ frames' = [frames EXCEPT ![a] = f]
        /\ UNCHANGED <<queueVars, mStack, wire>>
    BY <1>11, Zenon DEF LeaveNestedLoop
  <2>2. Lasts(frames[a], f)
    BY <1>1, <1>2, <2>1, LastsPop
  <2> HIDE DEF f
  <2>3. Replaced(frames, frames', a, f)
    BY <2>1 DEF Replaced
  <2> QED
    BY <2>1, <2>2, <2>3, PlaysQuiet
<1> QED
  BY <1>4, <1>5, <1>6, <1>7, <1>8, <1>9, <1>10, <1>11

\* CallLoop and Unwind may put back a deferred call, but not if there is none.
LEMMA UndeferPlays ==
    ASSUME Base, NEW a \in Sides, CallLoop(a) \/ Unwind(a)
    PROVE  Plays(a)
<1> DEFINE u == Undeferred(a)
<1>1. frames[a] \in Stacks /\ TypeOK
  BY SideTyped DEF Base
<1>2. At(a) # "loop" => /\ frames[a] # <<>> /\ Last(frames[a]).at = At(a)
                        /\ Last(frames[a]).seqno \in Int
  BY AtIs
<1>3. mDeferred[a] = <<>> => u.pending = mPending[a] /\ u.deferred = <<>>
  BY DEF Undeferred, MustUndefer
<1>4. \A v, v2 : v2 = v => Replaced(v, v2, a, v[a])
  BY DEF Replaced
<1> HIDE DEF u
<1>5. CASE CallLoop(a)
  <2> DEFINE x == Frame("callwait", Last(frames[a]).seqno)
             f == Append(Front(frames[a]), x)
  <2>1. /\ At(a) = "calltop" /\ SetTop(a, x)
        /\ mPending' = [mPending EXCEPT ![a] = u.pending]
        /\ mDeferred' = [mDeferred EXCEPT ![a] = u.deferred]
        /\ UNCHANGED <<mStack, mOutOfTurnReplies, races, wire>>
    BY <1>5, Zenon DEF CallLoop, u
  <2>2. x \in FrameRec /\ x.at # "nest"
    BY <1>2, <2>1, LastingFrames
  <2>3. Replaced(frames, frames', a, f)
    BY <2>1 DEF SetTop, Replaced
  <2> HIDE DEF x
  <2>4. Lasts(frames[a], f)
    BY <1>1, <1>2, <2>1, <2>2, LastsTop
  <2> HIDE DEF f
  <2>5. Replaced(mPending, mPending', a, u.pending) /\ Replaced(mDeferred, mDeferred', a, u.deferred)
    BY <2>1 DEF Replaced
  <2>6. Acts(a, u.pending, mStack[a], mOutOfTurnReplies[a], u.deferred, f, races[a])
    BY <1>4, <2>1, <2>3, <2>5 DEF Acts
  <2> QED
    BY <1>3, <2>1, <2>4, <2>6, PlaysIdle
<1>6. CASE Unwind(a)
  <2> DEFINE f == Front(frames[a])
  <2>1. /\ At(a) \in {"unwind", "async"} /\ frames' = [frames EXCEPT ![a] = f]
        /\ \/ /\ mPending' = [mPending EXCEPT ![a] = u.pending]
              /\ mDeferred' = [mDeferred EXCEPT ![a] = u.deferred]
           \/ UNCHANGED <<mPending, mDeferred>>
        /\ UNCHANGED <<mStack, mOutOfTurnReplies, races, wire>>
    BY <1>6 DEF Unwind, u
  <2>2. Lasts(frames[a], f)
    BY <1>1, <1>2, <2>1, LastsPop
  <2> HIDE DEF f
  <2>3. Replaced(frames, frames', a, f)
    BY <2>1 DEF Replaced
  <2>4. PICK p, d : /\ Replaced(mPending, mPending', a, p) /\ Replaced(mDeferred, mDeferred', a, d)
                    /\ mDeferred[a] = <<>> => p = mPending[a] /\ d = <<>>
    <3>1. CASE /\ mPending' = [mPending EXCEPT ![a] = u.pending]
               /\ mDeferred' = [mDeferred EXCEPT ![a] = u.deferred]
      BY <1>3, <3>1 DEF Replaced
    <3>2. CASE UNCHANGED <<mPending, mDeferred>>
      BY <1>4, <3>2
    <3> QED
      BY <2>1, <3>1, <3>2
  <2>5. Acts(a, p, mStack[a], mOutOfTurnReplies[a], d, f, races[a])
    BY <1>4, <2>1, <2>3, <2>4 DEF Acts
  <2> QED
    BY <2>1, <2>2, <2>4, <2>5, PlaysIdle
<1> QED
  BY <1>5, <1>6

\* The link queues the first message on its way, compresses it, or keeps it to itself.
LEMMA ReceivePlays ==
    ASSUME Base, NEW a \in Sides, OnMessageReceivedFromLink(a)
    PROVE  Plays(a)
<1>1. /\ TypeOK /\ frames[a] \in Stacks /\ wire[a] \in Seq(Message) /\ mPending[a] \in Seq(Message)
      /\ wire \in [Sides -> Seq(Message)] /\ Other(a) \in Sides /\ Other(a) # a
  BY SideTyped, SidesAre DEF Base, TypeOK
<1> DEFINE m == Head(wire[a])
           p == mPending[a]
           q == mPending'[a]
<1>2. /\ wire[a] # <<>> /\ wire' = [wire EXCEPT ![a] = Tail(@)]
      /\ UNCHANGED <<mStack, mOutOfTurnReplies, mDeferred, frames, races>>
  BY Zenon DEF OnMessageReceivedFromLink
<1>3. PICK v : /\ Replaced(mPending, mPending', a, v)
               /\ \/ v = p /\ m \notin RPCs
                  \/ v = Append(p, m)
                  \/ p # <<>> /\ Last(p) \notin RPCs /\ v = Append(Front(p), m)
  <2> DEFINE c == /\ Compress /\ m.kind = "async" /\ p # <<>> /\ Last(p).kind = "async"
  <2>1. \/ m.kind = "sync" /\ mPending' = mPending
        \/ c /\ mPending' = [mPending EXCEPT ![a] = Append(Front(p), m)]
        \/ ~c /\ mPending' = [mPending EXCEPT ![a] = Append(p, m)]
    BY DEF OnMessageReceivedFromLink
  <2>2. \A x : x.kind = "sync" \/ x.kind = "async" => x \notin RPCs
    BY DEF RPCs
  <2>3. c => p # <<>> /\ Last(p) \notin RPCs
    BY <2>2
  <2>4. m.kind = "sync" => m \notin RPCs
    BY <2>2
  <2> HIDE DEF c, m, p
  <2>5. CASE m.kind = "sync" /\ mPending' = mPending
    BY <2>4, <2>5 DEF Replaced, p
  <2>6. CASE c /\ mPending' = [mPending EXCEPT ![a] = Append(Front(p), m)]
    BY <2>3, <2>6 DEF Replaced
  <2>7. CASE ~c /\ mPending' = [mPending EXCEPT ![a] = Append(p, m)]
    BY <2>7 DEF Replaced
  <2> QED
    BY <2>1, <2>5, <2>6, <2>7
<1>4. \A w, w2 : w2 = w => Replaced(w, w2, a, w[a])
  BY DEF Replaced
<1>5. Acts(a, v, mStack[a], mOutOfTurnReplies[a], mDeferred[a], frames[a], races[a])
  BY <1>2, <1>3, <1>4 DEF Acts
<1>6. wire'[a] = Tail(wire[a]) /\ wire'[Other(a)] = wire[Other(a)]
  BY <1>1, <1>2
<1>7. /\ mPending'[a] = v /\ mStack'[a] = mStack[a]
      /\ mOutOfTurnReplies'[a] = mOutOfTurnReplies[a]
      /\ mDeferred'[a] = mDeferred[a] /\ frames'[a] = frames[a] /\ races'[a] = races[a]
      /\ Beside(Other(a))
  BY <1>1, <1>5, <1>6, ActsAre
<1>8. Ranked(mPending[a], wire[a], mPending'[a], wire'[a])
  BY <1>1, <1>2, <1>3, <1>6, <1>7, ClearReceived
<1>9. Open(a)' = Open(a)
  BY <1>7, OpenSame
<1>10. Peaceful(a)
  BY <1>7 DEF Peaceful, RunningOn
<1>11. Levels(frames[a], frames'[a])
  BY <1>1, <1>7, LastsItself DEF Lasts
<1> QED
  BY <1>7, <1>8, <1>9, <1>10, <1>11 DEF Plays, Idles

\* A message on its way is held.
LEMMA SentIsHeld ==
    ASSUME TypeOK, NEW o \in Sides, NEW x \in Message, wire'[o] = Append(wire[o], x),
           Beside(o)
    PROVE  HeldBy(o, x)' > 0
<1>1. wire[o] \in Seq(Message) /\ mPending[o] \in Seq(Message) /\ mDeferred[o] \in Seq(Message)
  BY SideTyped
<1>2. Held(wire[o], mPending[o], mDeferred[o], x) \in Nat
  BY <1>1, HeldType
<1>3. Held(Append(wire[o], x), mPending[o], mDeferred[o], x)
         = Held(wire[o], mPending[o], mDeferred[o], x) + (IF x = x THEN 1 ELSE 0)
  BY <1>1, HeldSend
<1>4. HeldBy(o, x)' = Held(wire'[o], mPending'[o], mDeferred'[o], x)
  BY DEF HeldBy
<1>5. HeldBy(o, x)' = Held(Append(wire[o], x), mPending[o], mDeferred[o], x)
  BY <1>4 DEF Beside
<1> QED
  BY <1>2, <1>3, <1>5

\* Call sends what it is going to wait for.
LEMMA CallPlays ==
    ASSUME Base, NEW a \in Sides, Call(a)
    PROVE  Plays(a)
<1> DEFINE msg == RPC(NextSeqno(a), mRemoteStackDepthGuess[a])
<1>0. /\ mStack' = [mStack EXCEPT ![a] = Append(mStack[a], msg)] /\ SendMessage(a, msg)
      /\ Push(a, Frame("calltop", msg.seqno))
      /\ UNCHANGED queueVars
  BY Zenon DEF Call
<1>2. /\ TypeOK /\ frames[a] \in Stacks /\ mStack[a] \in Seq(Message)
      /\ NextSeqno(a) \in Int /\ mRemoteStackDepthGuess[a] \in Nat
      /\ Other(a) \in Sides
  BY SideTyped, SidesAre DEF Base, NextSeqno
<1>3. PICK m \in Requests : m = msg /\ m \in Message /\ m.seqno \in Int
  BY <1>2, MessagesAre
<1> DEFINE x == Frame("calltop", m.seqno)
           f == Append(frames[a], x)
           st == Append(mStack[a], m)
<1> HIDE DEF msg
<1>1. /\ mStack' = [mStack EXCEPT ![a] = st] /\ SendMessage(a, m) /\ Push(a, x)
      /\ UNCHANGED queueVars
  BY <1>0, <1>3
<1>4. Lasts(frames[a], f)
  <2>1. x \in FrameRec /\ x.at # "nest"
    BY <1>3, LastingFrames
  <2> HIDE DEF x
  <2> QED
    BY <1>2, <2>1, LastsPush
<1>6. /\ Replaced(frames, frames', a, f) /\ Replaced(mStack, mStack', a, st)
  BY <1>1 DEF Replaced, Push
<1>7. \A v, v2 : v2 = v => Replaced(v, v2, a, v[a])
  BY DEF Replaced
<1>8. Acts(a, mPending[a], st, mOutOfTurnReplies[a], mDeferred[a], f, races[a])
  <2> HIDE DEF st, f
  <2> QED
    BY <1>1, <1>6, <1>7 DEF Acts, queueVars
<1>9. wire'[a] = wire[a] /\ wire'[Other(a)] = Append(wire[Other(a)], m)
  BY <1>1, <1>2, <1>3, Sent
<1> HIDE DEF f
<1>10. /\ mPending'[a] = mPending[a] /\ mStack'[a] = st
       /\ mOutOfTurnReplies'[a] = mOutOfTurnReplies[a]
       /\ mDeferred'[a] = mDeferred[a] /\ frames'[a] = f /\ races'[a] = races[a]
       /\ Beside(Other(a))
  <2> HIDE DEF st
  <2> QED
    BY <1>2, <1>3, <1>8, <1>9, ActsAre
<1>11. HeldBy(Other(a), m)' > 0
  BY <1>2, <1>3, <1>9, <1>10, SentIsHeld
<1>12. \A n : Asked(st, n) <=> Asked(mStack[a], n) \/ n = m.seqno
  <2>1. /\ DOMAIN mStack[a] = 1 .. Len(mStack[a]) /\ DOMAIN st = 1 .. Len(mStack[a]) + 1
        /\ Len(mStack[a]) \in Nat /\ st[Len(mStack[a]) + 1] = m
        /\ \A i \in 1 .. Len(mStack[a]) : st[i] = mStack[a][i]
    BY <1>2, <1>3, AppendIs
  <2> DEFINE n == Len(mStack[a])
             q == mStack[a]
  <2> HIDE DEF st, n, q
  <2>2. /\ DOMAIN q = 1 .. n /\ DOMAIN st = 1 .. n + 1 /\ n \in Nat /\ st[n + 1] = m
        /\ \A i \in 1 .. n : st[i] = q[i]
    BY <2>1 DEF n, q
  <2>3. /\ n + 1 \in DOMAIN st /\ \A i \in DOMAIN q : i \in DOMAIN st
        /\ \A i \in DOMAIN st : i = n + 1 \/ i \in DOMAIN q
    BY <2>2
  <2>4. \A k : Asked(st, k) <=> Asked(q, k) \/ k = m.seqno
    BY <2>2, <2>3 DEF Asked
  <2> QED
    BY <2>4 DEF q
<1> HIDE DEF st
<1>13. /\ \A c \in Open(a) : c \in Open(a)'
       /\ \A c \in Open(a)' : c \in Open(a) \/ c = m.seqno
  BY <1>10, <1>12 DEF Open
<1>14. \A c \in Open(a)' :
          c \in Open(a) \/ \E e \in Requests : e.seqno = c /\ HeldBy(Other(a), e)' > 0
  BY <1>3, <1>11, <1>13
<1>15. Ranked(mPending[a], wire[a], mPending'[a], wire'[a])
  BY <1>9, <1>10, RankedItself
<1>16. Peaceful(a)
  BY <1>4, <1>10 DEF Peaceful, Lasts, RunningOn
<1> QED
  BY <1>4, <1>10, <1>13, <1>14, <1>15, <1>16 DEF Plays, Idles, Lasts

\* A step that takes the first message of q, which are those pending if none is deferred.
LEMMA TakenPlays ==
    ASSUME Base, NEW a \in Sides, NEW q, NEW st, NEW r, NEW d, NEW f, NEW y,
           Acts(a, Tail(q), st, r, d, f, y), wire' = wire,
           Levels(frames[a], f), q # <<>>, races[a] \subseteq y,
           mDeferred[a] = <<>> => q = mPending[a] /\ Meets(a, Head(q))
    PROVE  Plays(a)
<1>1. TypeOK /\ mPending[a] \in Seq(Message)
  BY SideTyped DEF Base
<1> DEFINE p == Tail(q)
<1> HIDE DEF p
<1>2. Acts(a, p, st, r, d, f, y)
  BY DEF p
<1>3. /\ mPending'[a] = p /\ mStack'[a] = st /\ frames'[a] = f /\ Beside(Other(a))
      /\ wire'[a] = wire[a] /\ races'[a] = y
  BY <1>1, <1>2, ActsAre
<1>4. ASSUME mDeferred[a] = <<>>
      PROVE  \E x \in Message : Takes(a, x)
  <2>1. q = mPending[a] /\ Meets(a, Head(q))
    BY <1>4
  <2>2. Head(mPending[a]) \in Message
    BY <1>1, <2>1, HeadTailProperties
  <2>3. Takes(a, Head(mPending[a]))
    BY <1>3, <2>1 DEF Takes, p
  <2> QED
    BY <2>2, <2>3
<1> QED
  BY <1>3, <1>4, Zenon DEF Plays

\* The frames and races that Acts speaks of.
LEMMA FramesNow ==
    ASSUME TypeOK, NEW a \in Sides, NEW f, Replaced(frames, frames', a, f),
           NEW y, Replaced(races, races', a, y), NEW r,
           Replaced(mOutOfTurnReplies, mOutOfTurnReplies', a, r)
    PROVE  frames'[a] = f /\ races'[a] = y /\ mOutOfTurnReplies'[a] = r
BY DEF TypeOK, Replaced

\* An async or sync message is dispatched.
LEMMA DispatchPlays ==
    ASSUME Base, NEW a \in Sides, NEW q, NEW u, q # <<>>, NEW m, m \in Message, m = Head(q),
           m.kind # "rpc", NEW stk, Lasts(frames[a], stk), OnDispatchMessage(a, m, stk, u),
           mPending' = [mPending EXCEPT ![a] = Tail(q)], wire' = wire,
           mStack' = mStack, mOutOfTurnReplies' = mOutOfTurnReplies,
           mDeferred[a] = <<>> => q = mPending[a] /\ u.deferred = <<>>
    PROVE  Plays(a)
<1> DEFINE x == IF m.kind = "sync" THEN Frame("syncin", m.seqno) ELSE AsyncHandler
           f == Append(stk, x)
<1>1. TypeOK
  BY DEF Base
<1>2. /\ frames' = [frames EXCEPT ![a] = f] /\ mDeferred' = [mDeferred EXCEPT ![a] = u.deferred]
      /\ races' = races
  BY DEF OnDispatchMessage
<1>3. x \in FrameRec /\ x.at # "nest"
  BY LastingFrames, MessagesAre
<1> HIDE DEF x
<1>4. Lasts(stk, f)
  BY <1>3, LastsPush DEF Lasts, Levels
<1>5. Lasts(frames[a], f)
  <2> HIDE DEF f
  <2> QED
    BY <1>4, LastsTwice
<1> HIDE DEF f
<1>6. \A v, v2 : v2 = v => Replaced(v, v2, a, v[a])
  BY DEF Replaced
<1>7. /\ Replaced(frames, frames', a, f) /\ Replaced(mDeferred, mDeferred', a, u.deferred)
      /\ Replaced(mPending, mPending', a, Tail(q)) /\ Replaced(races, races', a, races[a])
      /\ Replaced(mOutOfTurnReplies, mOutOfTurnReplies', a, mOutOfTurnReplies[a])
      /\ Replaced(mStack, mStack', a, mStack[a])
  <2>1. /\ Replaced(frames, frames', a, f) /\ Replaced(mDeferred, mDeferred', a, u.deferred)
        /\ Replaced(mPending, mPending', a, Tail(q))
    BY <1>2 DEF Replaced
  <2> QED
    BY <1>2, <1>6, <2>1
<1>8. Acts(a, Tail(q), mStack[a], mOutOfTurnReplies[a], u.deferred, f, races[a])
  BY <1>7 DEF Acts
<1>9. frames'[a] = f /\ races'[a] = races[a] /\ Open(a)' = Open(a)
  <2>1. frames'[a] = f /\ races'[a] = races[a]
    BY <1>1, <1>7, FramesNow
  <2>2. mStack'[a] = mStack[a] /\ mOutOfTurnReplies'[a] = mOutOfTurnReplies[a]
    OBVIOUS
  <2> QED
    BY <2>1, <2>2, OpenSame
<1>10. ASSUME mDeferred[a] = <<>>
       PROVE  q = mPending[a] /\ Meets(a, Head(q))
  <2>1. mDeferred'[a] = mDeferred[a]
    BY <1>1, <1>2, <1>10 DEF TypeOK
  <2>2. Peaceful(a)
    BY <1>5, <1>9, <2>1 DEF Peaceful, Lasts, RunningOn
  <2>3. m \notin Requests /\ \A c \in Int : m # RPCReply(c)
    BY DEF Requests, RPCs, RPCReply
  <2> QED
    BY <1>9, <1>10, <2>2, <2>3 DEF Meets
<1> QED
  BY <1>5, <1>8, <1>10, TakenPlays DEF Lasts

\* An in-call is handled, or deferred.
LEMMA IncallPlays ==
    ASSUME Base, NEW a \in Sides, NEW q, NEW u, q # <<>>, NEW m \in Requests, m = Head(q),
           NEW stk, Lasts(frames[a], stk), NEW depth, Incall(a, m, depth, stk, u),
           mPending' = [mPending EXCEPT ![a] = Tail(q)], wire' = wire,
           mStack' = mStack, mOutOfTurnReplies' = mOutOfTurnReplies,
           mDeferred[a] = <<>> =>
              /\ q = mPending[a] /\ u.deferred = <<>>
              /\ RemoteViewOfStackDepth(a, depth) = Cardinality(Open(a))
              /\ Raced(a, m, depth) => mStack[a] # <<>>
    PROVE  Plays(a)
<1> DEFINE raced == Raced(a, m, depth)
           defer == raced /\ MediateRPCRace(Race(a, m)) = a
           x == Frame("incall", m.seqno)
           f == IF defer THEN stk ELSE Append(stk, x)
           d == IF defer THEN Append(u.deferred, m) ELSE u.deferred
           c == Race(a, m)
           y == IF raced /\ mStack[a] # <<>> THEN races[a] \cup {c} ELSE races[a]
<1>1. TypeOK
  BY DEF Base
<1>2. /\ mDeferred' = [mDeferred EXCEPT ![a] = d]
      /\ frames' = [frames EXCEPT ![a] = f]
      /\ races' = IF raced /\ mStack[a] # <<>>
                  THEN [races EXCEPT ![a] = races[a] \cup {c}] ELSE races
  BY DEF Incall
<1>3. m.seqno \in Int /\ m.guess \in Nat
  BY MessagesAre
<1>4. Lasts(frames[a], f) /\ (~defer => Running(f, m.seqno) > 0)
  <2> HIDE DEF defer
  <2>1. x \in FrameRec /\ x.at # "nest"
    BY <1>3, LastingFrames
  <2>2. Lasts(stk, Append(stk, x)) /\ Running(Append(stk, x), m.seqno) > 0
    <3>1. stk \in Stacks
      BY DEF Lasts, Levels
    <3>2. \E i \in Int : i = m.seqno
      BY <1>3
    <3> DEFINE z == x
    <3>3. z \in FrameRec /\ z.at # "nest" /\ z = Frame("incall", m.seqno)
      BY <2>1
    <3> HIDE DEF z
    <3>4. Lasts(stk, Append(stk, z)) /\ Running(Append(stk, z), m.seqno) > 0
      BY <1>3, <3>1, <3>3, LastsPush
    <3> QED
      BY <3>4 DEF z
  <2>3. Lasts(frames[a], Append(stk, x))
    <3> DEFINE h == Append(stk, x)
    <3> HIDE DEF h
    <3>1. Lasts(stk, h)
      BY <2>2 DEF h
    <3>2. Lasts(frames[a], h)
      BY <3>1, LastsTwice
    <3> QED
      BY <3>2 DEF h
  <2>4. CASE defer
    BY <2>4
  <2>5. CASE ~defer
    BY <2>2, <2>3, <2>5
  <2> QED
    BY <2>4, <2>5
<1> HIDE DEF f, d, c
<1>5. \A v, v2 : v2 = v => Replaced(v, v2, a, v[a])
  BY DEF Replaced
<1>6. Replaced(races, races', a, y) /\ races[a] \subseteq y
  <2> HIDE DEF raced
  <2>1. CASE raced /\ mStack[a] # <<>>
    BY <1>2, <2>1 DEF Replaced
  <2>2. CASE ~(raced /\ mStack[a] # <<>>)
    BY <1>2, <1>5, <2>2
  <2> QED
    BY <2>1, <2>2
<1> HIDE DEF y
<1>7. /\ Replaced(frames, frames', a, f) /\ Replaced(mDeferred, mDeferred', a, d)
      /\ Replaced(mPending, mPending', a, Tail(q)) /\ Replaced(races, races', a, y)
      /\ Replaced(mOutOfTurnReplies, mOutOfTurnReplies', a, mOutOfTurnReplies[a])
      /\ Replaced(mStack, mStack', a, mStack[a])
  <2>1. /\ Replaced(frames, frames', a, f) /\ Replaced(mDeferred, mDeferred', a, d)
        /\ Replaced(mPending, mPending', a, Tail(q))
    BY <1>2 DEF Replaced
  <2> QED
    BY <1>5, <1>6, <2>1
<1>8. Acts(a, Tail(q), mStack[a], mOutOfTurnReplies[a], d, f, y)
  BY <1>7 DEF Acts
<1>9. frames'[a] = f /\ races'[a] = y /\ Open(a)' = Open(a)
  <2>1. frames'[a] = f /\ races'[a] = y
    BY <1>1, <1>7, FramesNow
  <2>2. mStack'[a] = mStack[a] /\ mOutOfTurnReplies'[a] = mOutOfTurnReplies[a]
    OBVIOUS
  <2> QED
    BY <2>1, <2>2, OpenSame
<1>10. ASSUME mDeferred[a] = <<>>
       PROVE  q = mPending[a] /\ Meets(a, Head(q))
  <2>1. raced <=> m.guess # Cardinality(Open(a))
    BY <1>10 DEF Raced
  <2>2. CASE raced
    <3>1. y # {}
      BY <1>10, <2>2 DEF y
    <3> QED
      BY <1>9, <1>10, <2>1, <2>2, <3>1 DEF Meets
  <2>3. CASE ~raced
    <3>1. y = races[a] /\ d = mDeferred[a] /\ ~defer
      BY <1>10, <2>3 DEF y, d
    <3>2. mDeferred'[a] = mDeferred[a]
      BY <1>1, <1>2, <3>1 DEF TypeOK
    <3>3. Peaceful(a)
      BY <1>4, <1>9, <3>1, <3>2 DEF Peaceful, Lasts, RunningOn
    <3>4. RunningOn(a, m.seqno)' > 0
      <4>1. PICK n \in Int : n = m.seqno
        BY <1>3
      <4>2. RunningOn(a, n)' > 0
        BY <1>4, <1>9, <3>1, <4>1 DEF RunningOn
      <4> QED
        BY <4>1, <4>2
    <3> QED
      BY <1>9, <1>10, <2>1, <2>3, <3>3, <3>4 DEF Meets
  <2> QED
    BY <2>2, <2>3
<1> QED
  BY <1>4, <1>6, <1>8, <1>10, TakenPlays DEF Lasts

\* All out-calls but the innermost are those in the front of the stack.
LEMMA FrontSpares ==
    ASSUME NEW s \in Sides, Ordered(s), mStack[s] \in Seq(Message), mStack[s] # <<>>
    PROVE  \A c : Asked(Front(mStack[s]), c)
                     <=> Asked(mStack[s], c) /\ c # Last(mStack[s]).seqno
<1> DEFINE q == mStack[s]
           f == Front(q)
           l == Len(q)
<1>1. /\ f \in Seq(Message) /\ l \in Nat \ {0} /\ Len(f) = l - 1
      /\ \A i \in 1 .. l - 1 : f[i] = q[i]
      /\ q[l] = Last(q)
  BY FrontLast
<1>2. DOMAIN q = 1 .. l /\ DOMAIN f = 1 .. Len(f)
  BY <1>1, LenProperties
<1>3. \A i \in 1 .. l : i < l => Rank(s, q[i].seqno) < Rank(s, q[l].seqno)
  <2>1. l \in 1 .. l
    BY <1>1
  <2> QED
    BY <2>1 DEF Ordered
<1>4. q[l].seqno \in Int
  BY <1>1, FrontLast, MessagesAre
<1>5. ~(Rank(s, q[l].seqno) < Rank(s, q[l].seqno))
  BY <1>4 DEF Rank
<1>6. \A c : Asked(q, c) /\ c # Last(q).seqno => Asked(f, c)
  BY InFront
<1> HIDE DEF f, l, q
<1>7. ASSUME NEW i \in DOMAIN f
      PROVE  i \in DOMAIN q /\ f[i] = q[i] /\ f[i].seqno # Last(q).seqno
  <2>1. i \in 1 .. l - 1 /\ i \in 1 .. l /\ i < l
    BY <1>1, <1>2, <1>7
  <2>2. f[i] = q[i] /\ i \in DOMAIN q
    BY <1>1, <1>2, <2>1
  <2>3. q[i].seqno # q[l].seqno
    BY <1>3, <1>5, <2>1
  <2> QED
    BY <1>1, <2>2, <2>3
<1>8. \A c : Asked(f, c) => Asked(q, c) /\ c # Last(q).seqno
  BY <1>7 DEF Asked
<1> QED
  BY <1>6, <1>8 DEF q, f

\* A Call that returns: what it leaves.
LEMMA ReturnLeaves ==
    ASSUME Booked, NEW a \in Sides, At(a) = "callwait", connected[a],
           mStack' = [mStack EXCEPT ![a] = Front(@)], SetTop(a, Frame("unwind", 0))
    PROVE  /\ \E f : Replaced(frames, frames', a, f) /\ Lasts(frames[a], f)
           /\ Replaced(mStack, mStack', a, Front(mStack[a]))
           /\ mStack'[a] = Front(mStack[a])
           /\ \A c : Asked(mStack'[a], c) <=> Asked(mStack[a], c) /\ c # Last(mStack[a]).seqno
<1>1. TypeOK /\ Base /\ Ordered(a)
  BY DEF Booked, Base
<1>2. mStack[a] \in Seq(Message) /\ frames[a] \in Stacks /\ mStack[a] # <<>>
  BY <1>1, SideTyped, Waiting
<1>3. At(a) # "loop" => /\ frames[a] # <<>> /\ Last(frames[a]).at = At(a)
  BY <1>1, AtIs
<1> DEFINE x == Frame("unwind", 0)
           f == Append(Front(frames[a]), x)
<1>4. Replaced(frames, frames', a, f)
  BY DEF SetTop, Replaced
<1>5. x \in FrameRec /\ x.at # "nest"
  BY LastingFrames
<1> HIDE DEF x
<1>6. Lasts(frames[a], f)
  BY <1>2, <1>3, <1>5, LastsTop
<1> HIDE DEF f
<1>7. Replaced(mStack, mStack', a, Front(mStack[a])) /\ mStack'[a] = Front(mStack[a])
  BY <1>1 DEF Replaced, TypeOK
<1> QED
  BY <1>1, <1>2, <1>4, <1>6, <1>7, FrontSpares

\* The innermost call returns with a reply put aside earlier.
LEMMA CallTakesOutOfTurnPlays ==
    ASSUME Booked, NEW a \in Sides, CallTakesOutOfTurn(a)
    PROVE  Plays(a)
<1> DEFINE n == Last(mStack[a]).seqno
           r == mOutOfTurnReplies[a] \ {n}
<1>1. /\ At(a) = "callwait" /\ connected[a] /\ SetTop(a, Frame("unwind", 0))
      /\ n \in mOutOfTurnReplies[a] /\ mStack' = [mStack EXCEPT ![a] = Front(@)]
      /\ mOutOfTurnReplies' = [mOutOfTurnReplies EXCEPT ![a] = r]
      /\ UNCHANGED <<mPending, mDeferred, races, wire>>
  BY DEF CallTakesOutOfTurn, EraseReply
<1>2. Base /\ TypeOK /\ mPending[a] \in Seq(Message)
  BY SideTyped DEF Booked, Base
<1>3. PICK f : Replaced(frames, frames', a, f) /\ Lasts(frames[a], f)
  BY <1>1, ReturnLeaves
<1> DEFINE st == Front(mStack[a])
<1>4. /\ Replaced(mStack, mStack', a, st) /\ mStack'[a] = st
      /\ \A c : Asked(mStack'[a], c) <=> Asked(mStack[a], c) /\ c # n
  BY <1>1, ReturnLeaves
<1> HIDE DEF st
<1>5. \A v, v2 : v2 = v => Replaced(v, v2, a, v[a])
  BY DEF Replaced
<1>6. Replaced(mOutOfTurnReplies, mOutOfTurnReplies', a, r)
  BY <1>1 DEF Replaced
<1>7. Acts(a, mPending[a], st, r, mDeferred[a], f, races[a])
  <2> HIDE DEF r
  <2> QED
    BY <1>1, <1>3, <1>4, <1>5, <1>6 DEF Acts
<1>8. /\ mPending'[a] = mPending[a] /\ mOutOfTurnReplies'[a] = r /\ mDeferred'[a] = mDeferred[a]
      /\ frames'[a] = f /\ races'[a] = races[a] /\ Beside(Other(a)) /\ wire'[a] = wire[a]
  <2> HIDE DEF r
  <2>1. wire'[Other(a)] = wire[Other(a)] /\ wire'[a] = wire[a]
    BY <1>1
  <2> QED
    BY <1>2, <1>7, <2>1, ActsAre
<1>9. Open(a)' = Open(a)
  <2>1. \A c \in Int : c \in Open(a)' <=> Asked(mStack'[a], c) /\ c \notin r
    BY <1>8 DEF Open
  <2>2. \A c \in Int : c \in Open(a)' <=> c \in Open(a)
    BY <1>1, <1>4, <2>1 DEF Open
  <2>3. Open(a)' \subseteq Int /\ Open(a) \subseteq Int
    BY DEF Open
  <2> QED
    BY <2>2, <2>3
<1>10. Peaceful(a)
  BY <1>3, <1>8 DEF Peaceful, Lasts, RunningOn
<1>11. Ranked(mPending[a], wire[a], mPending'[a], wire'[a])
  BY <1>8, RankedItself
<1>12. Idles(a)
  BY <1>9, <1>10, <1>11 DEF Idles
<1> QED
  BY <1>3, <1>4, <1>8, <1>12 DEF Plays, Lasts

\* An in-call returns: its reply is sent.
LEMMA IncallDonePlays ==
    ASSUME Base, NEW a \in Sides, connected[a], IncallDone(a)
    PROVE  Plays(a)
<1> DEFINE x == Frame("unwind", 0)
           f == Append(Front(frames[a]), x)
           o == Other(a)
<1>1. TypeOK /\ frames[a] \in Stacks /\ o \in Sides /\ o # a
  BY SideTyped, SidesAre DEF Base
<1>2. /\ At(a) = "incall" /\ SendReply(a, RPCReply(Last(frames[a]).seqno)) /\ SetTop(a, x)
      /\ UNCHANGED <<mPending, mOutOfTurnReplies, mDeferred, races, mStack>>
  BY Zenon DEF IncallDone
<1>3. frames[a] # <<>> /\ Last(frames[a]).at = "incall" /\ Last(frames[a]).seqno \in Int
  BY <1>2, AtIs
<1>4. PICK k \in Int : k = Last(frames[a]).seqno
  BY <1>3
<1>5. x \in FrameRec /\ Minor(x) /\ x.at # "nest"
  BY FramesAre
<1>6. RPCReply(k) \in Message
  BY MessagesAre
<1>7. Replaced(frames, frames', a, f)
  BY <1>2 DEF SetTop, Replaced
<1> HIDE DEF x
<1>8. Levels(frames[a], f) /\ Left(frames[a], f, k)
  BY <1>1, <1>3, <1>4, <1>5, LastsTop, TopIncall
<1> HIDE DEF f
<1>9. SendMessage(a, RPCReply(k))
  BY <1>2, <1>4 DEF SendReply
<1>10. wire'[a] = wire[a] /\ wire'[o] = Append(wire[o], RPCReply(k))
  BY <1>1, <1>6, <1>9, Sent
<1>11. \A v, v2 : v2 = v => Replaced(v, v2, a, v[a])
  BY DEF Replaced
<1>12. Acts(a, mPending[a], mStack[a], mOutOfTurnReplies[a], mDeferred[a], f, races[a])
  BY <1>2, <1>7, <1>11 DEF Acts
<1>13. /\ mPending'[a] = mPending[a] /\ mStack'[a] = mStack[a]
       /\ mOutOfTurnReplies'[a] = mOutOfTurnReplies[a]
       /\ mDeferred'[a] = mDeferred[a] /\ frames'[a] = f /\ races'[a] = races[a]
       /\ Beside(o)
  BY <1>1, <1>6, <1>10, <1>12, ActsAre
<1>14. HeldBy(o, RPCReply(k))' > 0
  BY <1>1, <1>6, <1>10, <1>13, SentIsHeld
<1>15. \A n \in Int : RunningOn(a, n) > 0
                         => RunningOn(a, n)' > 0 \/ HeldBy(o, RPCReply(n))' > 0
  <2> SUFFICES ASSUME NEW n \in Int, RunningOn(a, n) > 0, n # k
               PROVE  RunningOn(a, n)' > 0
    BY <1>14
  <2>1. Running(frames[a], n) = Running(f, n) + 0 /\ Running(f, n) \in Nat
    BY <1>8, StackIs DEF Left
  <2> QED
    BY <1>13, <2>1 DEF RunningOn
<1>16. Peaceful(a)
  BY <1>13, <1>15 DEF Peaceful
<1>17. Ranked(mPending[a], wire[a], mPending'[a], wire'[a])
  BY <1>10, <1>13, RankedItself
<1>18. Open(a)' = Open(a)
  BY <1>13, OpenSame
<1>19. Idles(a)
  BY <1>16, <1>17, <1>18 DEF Idles
<1> QED
  BY <1>8, <1>13, <1>19, Zenon DEF Plays

\* The reply to a call outstanding is put aside, or ends it: the call is closed.
LEMMA ReplyPlays ==
    ASSUME Base, NEW a \in Sides, NEW m \in RPCs \ Requests, mPending[a] # <<>>,
           m = Head(mPending[a]), NEW st, NEW r, NEW f,
           Acts(a, Tail(mPending[a]), st, r, mDeferred[a], f, races[a]), wire' = wire,
           Lasts(frames[a], f),
           \A c \in Int : Asked(st, c) /\ c \notin r <=> c \in Open(a) /\ c # m.seqno
    PROVE  Plays(a)
<1>1. TypeOK
  BY DEF Base
<1>2. /\ mStack'[a] = st /\ mOutOfTurnReplies'[a] = r /\ mDeferred'[a] = mDeferred[a]
      /\ frames'[a] = f /\ races'[a] = races[a]
  <2> DEFINE p == Tail(mPending[a])
  <2> HIDE DEF p
  <2>1. Acts(a, p, st, r, mDeferred[a], f, races[a]) /\ wire'[Other(a)] = wire[Other(a)]
    BY DEF p
  <2> QED
    BY <1>1, <2>1, ActsAre
<1>3. Peaceful(a)
  BY <1>2 DEF Peaceful, Lasts, RunningOn
<1>4. \A c \in Int : c \in Open(a)' <=> c \in Open(a) /\ m # RPCReply(c)
  <2>1. PICK n \in Int : n = m.seqno /\ m = RPCReply(n)
    BY MessagesAre
  <2>2. \A c \in Int : RPCReply(c) = RPCReply(n) <=> c = n
    BY MessagesAre
  <2>3. \A c \in Int : m # RPCReply(c) <=> c # m.seqno
    BY <2>1, <2>2
  <2> QED
    BY <1>2, <2>3 DEF Open
<1>5. Meets(a, Head(mPending[a]))
  BY <1>3, <1>4 DEF Meets
<1> QED
  BY <1>5, TakenPlays DEF Lasts

\* A waiting Call takes the first message pending.
LEMMA CallTakesPendingPlays ==
    ASSUME Booked, NEW a \in Sides, Shallow(a), CallTakesPending(a)
    PROVE  Plays(a)
<1> DEFINE q == mPending[a]
           m == Head(q)
           x == Frame("calltop", Last(frames[a]).seqno)
           stk == Append(Front(frames[a]), x)
           u == [deferred |-> mDeferred[a], guess |-> mRemoteStackDepthGuess[a]]
<1>1. Base /\ TypeOK /\ Ordered(a)
  BY DEF Booked, Base
<1>2. mPending[a] \in Seq(Message) /\ mStack[a] \in Seq(Message) /\ frames[a] \in Stacks
  BY <1>1, SideTyped
<1>3. /\ At(a) = "callwait" /\ connected[a] /\ mPending[a] # <<>>
      /\ mPending' = [mPending EXCEPT ![a] = Tail(@)]
      /\ wire' = wire
  BY Zenon DEF CallTakesPending
<1>4. \/ /\ m.kind # "rpc" /\ OnDispatchMessage(a, m, stk, u)
         /\ UNCHANGED <<mStack, mOutOfTurnReplies>>
      \/ /\ m.kind = "rpc" /\ ~m.reply /\ Incall(a, m, StackDepth(a), stk, u)
         /\ UNCHANGED <<mStack, mOutOfTurnReplies>>
      \/ /\ m.kind = "rpc" /\ m.reply
         /\ mOutOfTurnReplies' = [mOutOfTurnReplies EXCEPT ![a] = @ \cup {m.seqno}]
         /\ frames' = [frames EXCEPT ![a] = stk]
         /\ UNCHANGED <<mStack, mDeferred, mRemoteStackDepthGuess, races>>
      \/ /\ m.kind = "rpc" /\ m.reply /\ ~OutOfTurn(a, m.seqno)
         /\ mStack' = [mStack EXCEPT ![a] = Front(@)] /\ SetTop(a, Frame("unwind", 0))
         /\ UNCHANGED <<mOutOfTurnReplies, mDeferred, mRemoteStackDepthGuess, races>>
  BY DEF CallTakesPending
<1>5. u.deferred = mDeferred[a]
  OBVIOUS
<1>6. m \in Message /\ m.seqno \in Int
  BY <1>2, <1>3, HeadTailProperties, MessagesAre
<1>7. /\ m.kind = "rpc" /\ ~m.reply => m \in Requests
      /\ m.kind = "rpc" /\ m.reply => m \in RPCs \ Requests
  BY <1>6 DEF RPCs, Requests
<1>8. mStack[a] # <<>>
  BY <1>1, <1>3, Waiting
<1>9. Lasts(frames[a], stk)
  <2>1. frames[a] # <<>> /\ Last(frames[a]).at = "callwait" /\ Last(frames[a]).seqno \in Int
    BY <1>1, <1>3, AtIs
  <2>2. x \in FrameRec /\ x.at # "nest"
    BY <2>1, LastingFrames
  <2> HIDE DEF x
  <2> QED
    BY <1>2, <2>1, <2>2, LastsTop
<1>10. mPending' = [mPending EXCEPT ![a] = Tail(q)]
  BY <1>3
<1>11. \A v, v2 : v2 = v => Replaced(v, v2, a, v[a])
  BY DEF Replaced
<1>12. q = mPending[a] /\ q # <<>>
  BY <1>3
<1> HIDE DEF q, x, stk, u
<1>13. CASE /\ m.kind # "rpc" /\ OnDispatchMessage(a, m, stk, u)
            /\ UNCHANGED <<mStack, mOutOfTurnReplies>>
  BY <1>1, <1>3, <1>5, <1>6, <1>9, <1>10, <1>12, <1>13, DispatchPlays
<1>14. CASE /\ m.kind = "rpc" /\ ~m.reply /\ Incall(a, m, StackDepth(a), stk, u)
            /\ UNCHANGED <<mStack, mOutOfTurnReplies>>
  <2>1. RemoteViewOfStackDepth(a, StackDepth(a)) = Cardinality(Open(a))
    BY ViewIs
  <2>2. m \in Requests
    BY <1>7, <1>14
  <2> QED
    BY <1>1, <1>3, <1>5, <1>8, <1>9, <1>10, <1>12, <1>14, <2>1, <2>2, IncallPlays
<1>15. CASE /\ m.kind = "rpc" /\ m.reply
            /\ mOutOfTurnReplies' = [mOutOfTurnReplies EXCEPT ![a] = @ \cup {m.seqno}]
            /\ frames' = [frames EXCEPT ![a] = stk]
            /\ UNCHANGED <<mStack, mDeferred, mRemoteStackDepthGuess, races>>
  <2> DEFINE r == mOutOfTurnReplies[a] \cup {m.seqno}
  <2>1. m \in RPCs \ Requests
    BY <1>7, <1>15
  <2>2. \A c \in Int : Asked(mStack[a], c) /\ c \notin r <=> c \in Open(a) /\ c # m.seqno
    BY DEF Open
  <2>3. mOutOfTurnReplies' = [mOutOfTurnReplies EXCEPT ![a] = r]
    BY <1>15
  <2> HIDE DEF r
  <2>4. Replaced(mOutOfTurnReplies, mOutOfTurnReplies', a, r) /\ Replaced(frames, frames', a, stk)
        /\ Replaced(mPending, mPending', a, Tail(q))
    BY <1>10, <1>15, <2>3 DEF Replaced
  <2>5. Acts(a, Tail(q), mStack[a], r, mDeferred[a], stk, races[a])
    BY <1>11, <1>15, <2>4 DEF Acts
  <2> QED
    BY <1>1, <1>3, <1>9, <1>12, <2>1, <2>2, <2>5, ReplyPlays
<1>16. CASE /\ m.kind = "rpc" /\ m.reply /\ ~OutOfTurn(a, m.seqno)
            /\ mStack' = [mStack EXCEPT ![a] = Front(@)] /\ SetTop(a, Frame("unwind", 0))
            /\ UNCHANGED <<mOutOfTurnReplies, mDeferred, mRemoteStackDepthGuess, races>>
  <2>1. m \in RPCs \ Requests
    BY <1>7, <1>16
  <2>2. PICK n \in Int : n = m.seqno /\ m = RPCReply(n)
    BY <2>1, MessagesAre
  <2>3. n = Last(mStack[a]).seqno
    <3>1. HeldBy(a, m) > 0
      BY <1>1, <1>12, <2>1, HeadIsHeld
    <3>2. HeldBy(a, RPCReply(n)) > 0
      BY <2>2, <3>1
    <3>3. Asked(mStack[a], n)
      BY <3>2, RepliesAsked
    <3>4. ~OutOfTurn(a, n)
      BY <1>16, <2>2
    <3> QED
      BY <1>1, <1>2, <3>3, <3>4, ReplyIsLast
  <2>4. PICK f : Replaced(frames, frames', a, f) /\ Lasts(frames[a], f)
    BY <1>3, <1>16, ReturnLeaves
  <2> DEFINE st == Front(mStack[a])
  <2>5. /\ Replaced(mStack, mStack', a, st) /\ mStack'[a] = st
        /\ \A c : Asked(mStack'[a], c) <=> Asked(mStack[a], c) /\ c # Last(mStack[a]).seqno
    BY <1>3, <1>16, ReturnLeaves
  <2> HIDE DEF st
  <2>6. Replaced(mPending, mPending', a, Tail(q))
    BY <1>10 DEF Replaced
  <2>7. Acts(a, Tail(q), st, mOutOfTurnReplies[a], mDeferred[a], f, races[a])
    BY <1>11, <1>16, <2>4, <2>5, <2>6 DEF Acts
  <2>8. \A c \in Int : Asked(st, c) /\ c \notin mOutOfTurnReplies[a]
                          <=> c \in Open(a) /\ c # m.seqno
    BY <2>2, <2>3, <2>5 DEF Open
  <2> QED
    BY <1>1, <1>3, <1>12, <2>1, <2>4, <2>5, <2>7, <2>8, ReplyPlays
<1> QED
  BY <1>4, <1>13, <1>14, <1>15, <1>16

\* In the event loop that is not nested, no call is outstanding.
LEMMA LoopIsIdle ==
    ASSUME Booked, Flat, NEW a \in Sides, At(a) \in {"loop", "nest"}, connected[a]
    PROVE  /\ frames[a] = <<>> /\ mStack[a] = <<>> /\ Open(a) = {}
           /\ RemoteViewOfStackDepth(a, 0) = Cardinality(Open(a)) /\ Cardinality(Open(a)) = 0
<1>1. TypeOK /\ Base /\ SideSound(a) /\ frames[a] \in Stacks
  BY SideTyped DEF Booked, Base
<1>2. frames[a] = <<>>
  <2> SUFFICES ASSUME frames[a] # <<>>
               PROVE  FALSE
    OBVIOUS
  <2> DEFINE f == frames[a]
             n == Len(f)
  <2>1. f \in Seq(FrameRec) /\ f # <<>>
    BY <1>1 DEF Stacks
  <2>2. n \in Nat \ {0} /\ f[n] = Last(f) /\ Last(f) \in FrameRec
    BY <2>1, FrontLast
  <2>3. Last(f).at \in {"loop", "nest"}
    BY DEF At
  <2>4. Last(f).at = "nest"
    BY <2>2, <2>3 DEF FrameRec, FrameKinds
  <2>5. n \in 1 .. n
    BY <2>2
  <2>6. Bears(f, Nests)
    BY <2>2, <2>4, <2>5 DEF Bears, Nests
  <2> QED
    BY <2>6 DEF Flat
<1>3. mStack[a] = <<>>
  BY <1>1, <1>2 DEF SideSound, Sound
<1>4. mOutOfTurnReplies[a] = {}
  BY <1>3, NoCallNoReply
<1>5. Open(a) = {}
  BY <1>3, NoneAsked DEF Open
<1>6. Cardinality(mOutOfTurnReplies[a]) = 0 /\ Cardinality(Open(a)) = 0
  BY <1>4, <1>5, FS_EmptySet
<1>7. RemoteViewOfStackDepth(a, 0) = 0
  <2>1. RemoteViewOfStackDepth(a, 0) = (0 - 0) % 65536
    BY <1>6 DEF RemoteViewOfStackDepth, SizeT
  <2>2. (0 - 0) % 65536 = 0
    OBVIOUS
  <2> QED
    BY <2>1, <2>2
<1> QED
  BY <1>2, <1>3, <1>5, <1>6, <1>7

\* The event loop takes a message, which did not race.
LEMMA OnMaybeDequeueOnePlays ==
    ASSUME IInv, Flat, NEW a \in Sides, connected[a], OnMaybeDequeueOne(a)
    PROVE  Plays(a)
<1> DEFINE u == Undeferred(a)
           q == u.pending
           m == Head(q)
           d == u.deferred
           f == frames[a]
<1>1. Booked /\ Base /\ TypeOK
  BY DEF IInv, Booked, Base
<1>2. mPending[a] \in Seq(Message) /\ mDeferred[a] \in Seq(Message) /\ f \in Stacks
  BY <1>1, SideTyped
<1>3. At(a) \in {"loop", "nest"} /\ mStack' = mStack /\ wire' = wire
  BY Zenon DEF OnMaybeDequeueOne
<1>4. /\ frames[a] = <<>> /\ mStack[a] = <<>>
      /\ RemoteViewOfStackDepth(a, 0) = Cardinality(Open(a)) /\ Cardinality(Open(a)) = 0
  BY <1>1, <1>3, LoopIsIdle
<1>5. \/ UNCHANGED <<mPending, mOutOfTurnReplies, mDeferred, frames, races>>
      \/ /\ q # <<>> /\ mPending' = [mPending EXCEPT ![a] = Tail(q)]
         /\ m.kind # "rpc" /\ OnDispatchMessage(a, m, f, u) /\ UNCHANGED mOutOfTurnReplies
      \/ /\ q # <<>> /\ mPending' = [mPending EXCEPT ![a] = Tail(q)]
         /\ m.kind = "rpc" /\ ~m.reply /\ Incall(a, m, 0, f, u) /\ UNCHANGED mOutOfTurnReplies
  BY <1>4 DEF OnMaybeDequeueOne
<1>6. q \in Seq(Message)
  BY <1>1, UndeferIs
<1>7. mDeferred[a] = <<>> => q = mPending[a] /\ u.deferred = <<>>
  BY DEF Undeferred, MustUndefer
<1>8. q = Undeferred(a).pending
  OBVIOUS
<1>9. Lasts(frames[a], f)
  BY <1>2, LastsItself
<1> HIDE DEF q, u
<1>10. CASE UNCHANGED <<mPending, mOutOfTurnReplies, mDeferred, frames, races>>
  <2>1. \A v, v2 : v2 = v => Replaced(v, v2, a, v[a])
    BY DEF Replaced
  <2>2. Acts(a, mPending[a], mStack[a], mOutOfTurnReplies[a], mDeferred[a], f, races[a])
    BY <1>3, <1>10, <2>1 DEF Acts
  <2> QED
    BY <1>1, <1>3, <1>9, <2>2, PlaysIdle
<1>11. CASE /\ q # <<>> /\ mPending' = [mPending EXCEPT ![a] = Tail(q)]
            /\ m.kind # "rpc" /\ OnDispatchMessage(a, m, f, u) /\ UNCHANGED mOutOfTurnReplies
  <2>1. m \in Message
    BY <1>6, <1>11, HeadTailProperties
  <2> HIDE DEF f
  <2> QED
    BY <1>1, <1>3, <1>7, <1>9, <1>11, <2>1, DispatchPlays
<1>12. CASE /\ q # <<>> /\ mPending' = [mPending EXCEPT ![a] = Tail(q)]
            /\ m.kind = "rpc" /\ ~m.reply /\ Incall(a, m, 0, f, u) /\ UNCHANGED mOutOfTurnReplies
  <2>1. m \in RPCs /\ (m \in Requests /\ mStack[a] = <<>> => m.guess = 0)
    BY <1>8, <1>12, DequeuedIs
  <2>2. m \in Requests /\ m.guess = 0
    BY <1>4, <1>12, <2>1 DEF Requests
  <2>3. ~Raced(a, m, 0)
    BY <1>4, <2>2 DEF Raced
  <2> HIDE DEF f
  <2> QED
    BY <1>1, <1>3, <1>4, <1>7, <1>9, <1>12, <2>2, <2>3, IncallPlays
<1> QED
  BY <1>5, <1>10, <1>11, <1>12

\* The budget that is spent is not that of nested event loops.
LEMMA SpentOther ==
    ASSUME TypeOK, NEW a \in Sides, NEW what \in {"rpc", "sync", "async"}, Spend(a, what)
    PROVE  \A s \in Sides : budget'[s].nest = budget[s].nest
<1> DEFINE b == budget[a]
           c == [b EXCEPT ![what] = b[what] - 1]
<1>1. budget \in [Sides -> [rpc : Nat, sync : Nat, async : Nat, nest : Nat]]
  BY DEF TypeOK
<1>2. budget' = [budget EXCEPT ![a] = c]
  BY DEF Spend
<1>3. c.nest = b.nest
  <2>1. b \in [rpc : Nat, sync : Nat, async : Nat, nest : Nat] /\ what # "nest"
    BY <1>1
  <2> DEFINE k == b[what] - 1
  <2> HIDE DEF b, k
  <2> QED
    BY <2>1
<1> HIDE DEF c
<1> QED
  BY <1>1, <1>2, <1>3

NestsKept == \A s \in Sides : budget'[s].nest = budget[s].nest

\* A side without the budget for it nests no event loop.
LEMMA NoNest ==
    ASSUME Flat, NEW a \in Sides, SpinNestedLoop(a)
    PROVE  FALSE
<1>1. Spend(a, "nest")
  BY Zenon DEF SpinNestedLoop
<1>2. budget[a].nest > 0 /\ budget[a].nest = 0
  BY <1>1 DEF Spend, Flat
<1> QED
  BY <1>2

\* A closing channel is not connected.
LEMMA ClosingEnds ==
    ASSUME Base, NEW a \in Sides, OnChannelErrorFromLink(a) \/ GiveUp(a), Connected'
    PROVE  FALSE
<1>1. TypeOK
  BY DEF Base
<1>2. connected' = [connected EXCEPT ![a] = FALSE] /\ wire' = [wire EXCEPT ![a] = <<>>]
  <2>1. CASE OnChannelErrorFromLink(a)
    BY <2>1, Zenon DEF OnChannelErrorFromLink
  <2>2. CASE GiveUp(a)
    BY <2>2, Zenon DEF GiveUp, CloseOnTimeout
  <2> QED
    BY <2>1, <2>2
<1>3. ~connected'[a]
  BY <1>1, <1>2, Closed
<1> QED
  BY <1>3 DEF Connected

\* As long as the channel is connected, every step is one of those above.
LEMMA StepPlays ==
    ASSUME IInv, Flat, Connected, Connected', Next
    PROVE  \E a \in Sides : Effects(a) /\ Plays(a) /\ NestsKept
<1>1. Booked /\ Base /\ TypeOK
  BY DEF IInv, Booked, Base
<1>2. \A s \in Sides : connected[s]
  BY DEF Connected
<1>3. PICK a \in Sides :
         \/ AppStep(a) \/ WorkerStep(a) \/ HandlerStep(a) \/ LinkStep(a)
         \/ ReplyTimesOut(a) \/ TimeoutStep(a) \/ OnChannelErrorFromLink(a)
  BY Zenon DEF Next
<1>4. budget' = budget => NestsKept
  BY DEF NestsKept
<1>5. \A what \in {"rpc", "sync", "async"} : Spend(a, what) => NestsKept
  BY <1>1, SpentOther DEF NestsKept
<1>6. CASE Call(a)
  <2>1. Spend(a, "rpc")
    BY <1>6, Zenon DEF Call
  <2> QED
    BY <1>1, <1>5, <1>6, <2>1, CallStep, CallPlays
<1>7. CASE SendAsync(a)
  <2>1. Spend(a, "async")
    BY <1>7, Zenon DEF SendAsync
  <2> QED
    BY <1>1, <1>5, <1>7, <2>1, SendAsyncStep, QuietPlays
<1>8. CASE SendSync(a)
  <2>1. Spend(a, "sync")
    BY <1>8, Zenon DEF SendSync
  <2> QED
    BY <1>1, <1>5, <1>8, <2>1, SendSyncStep, QuietPlays
<1>9. CASE CallLoop(a) \/ Unwind(a)
  <2>1. budget' = budget
    BY <1>9, Zenon DEF CallLoop, Unwind
  <2> QED
    BY <1>1, <1>4, <1>9, <2>1, CallLoopStep, UnwindStep, UndeferPlays
<1>10. CASE CallFails(a) \/ SyncReturns(a) \/ SyncDone(a) \/ LeaveNestedLoop(a)
               \/ ReplyTimesOut(a) \/ ContinueFromTimeout(a)
  <2>1. budget' = budget
    BY <1>10, Zenon DEF CallFails, SyncReturns, SyncDone, LeaveNestedLoop, ReplyTimesOut,
                        ContinueFromTimeout
  <2>2. Plays(a)
    BY <1>1, <1>10, QuietPlays
  <2>3. Effects(a)
    BY <1>1, <1>10, CallFailsStep, SyncReturnsStep, SyncDoneStep, LeaveNestedLoopStep,
       ReplyTimesOutStep, ContinueFromTimeoutStep
  <2> QED
    BY <1>4, <2>1, <2>2, <2>3
<1>11. CASE CallTakesOutOfTurn(a)
  <2>1. budget' = budget
    BY <1>11, Zenon DEF CallTakesOutOfTurn
  <2> QED
    BY <1>1, <1>4, <1>11, <2>1, CallTakesOutOfTurnStep, CallTakesOutOfTurnPlays
<1>12. CASE CallTakesPending(a)
  <2>1. budget' = budget
    BY <1>12, Zenon DEF CallTakesPending
  <2> QED
    BY <1>1, <1>4, <1>12, <2>1, CallTakesPendingStep, CallTakesPendingPlays DEF IInv
<1>13. CASE OnMaybeDequeueOne(a)
  <2>1. budget' = budget
    BY <1>13, Zenon DEF OnMaybeDequeueOne
  <2> QED
    BY <1>1, <1>2, <1>4, <1>13, <2>1, OnMaybeDequeueOneStep, OnMaybeDequeueOnePlays
<1>14. CASE IncallDone(a)
  <2>1. budget' = budget
    BY <1>14, Zenon DEF IncallDone
  <2> QED
    BY <1>1, <1>2, <1>4, <1>14, <2>1, IncallDoneStep, IncallDonePlays
<1>15. CASE OnMessageReceivedFromLink(a)
  <2>1. budget' = budget
    BY <1>15, Zenon DEF OnMessageReceivedFromLink
  <2> QED
    BY <1>1, <1>4, <1>15, <2>1, OnMessageReceivedFromLinkStep, ReceivePlays
<1>16. ~SpinNestedLoop(a) /\ ~OnChannelErrorFromLink(a) /\ ~GiveUp(a)
  BY <1>1, NoNest, ClosingEnds
<1> QED
  BY <1>3, <1>6, <1>7, <1>8, <1>9, <1>10, <1>11, <1>12, <1>13, <1>14, <1>15, <1>16
     DEF AppStep, WorkerStep, HandlerStep, LinkStep, TimeoutStep

\* So the stacks stay as they are supposed to be.
LEMMA FlatStays ==
    ASSUME Flat, NEW a \in Sides, Plays(a), NestsKept
    PROVE  Flat'
<1>1. Beside(Other(a)) /\ Levels(frames[a], frames'[a])
  BY DEF Plays
<1>2. ~Bears(frames'[a], Nests)
  BY <1>1 DEF Flat, Levels
<1>3. Other(a) \in Sides /\ \A s \in Sides : s = a \/ s = Other(a)
  BY SidesAre
<1>4. ~Bears(frames'[Other(a)], Nests)
  BY <1>1, <1>3 DEF Beside, Flat
<1> QED
  BY <1>2, <1>3, <1>4 DEF Flat, NestsKept

-----------------------------------------------------------------------------
(***************************************************************************)
(* What each side knows of the other, as long as none has detected a race. *)
(***************************************************************************)

\* The call with seqno c is yet to be handled by the other side.
Brought(s, c) == \E e \in Requests : e.seqno = c /\ HeldBy(Other(s), e) > 0

\* What an in-call that side s holds does not count on, by D, was called before that
\* in-call was handled over there, or is answered before it is handled here.
Told(D, s) ==
    \A m \in Requests : HeldBy(s, m) > 0 =>
       \A c \in Open(s) : \/ c \in D[s][m] \/ Brought(s, c)
                          \/ ~Clear(mPending[s], wire[s], m, RPCReply(c))

\* No open call is lost.
Whole(s) ==
    \A c \in Open(s) : \/ RunningOn(Other(s), c) > 0 \/ Brought(s, c)
                       \/ HeldBy(s, RPCReply(c)) > 0

\* An in-call that is to be handled before the reply to an open call it does not
\* count on: it is going to race.
Due(D, s) ==
    \E e \in Requests, m \in Int :
       /\ m \in Open(s) /\ m \notin D[s][e]
       /\ Clear(mPending[s], wire[s], e, RPCReply(m))

NoneDeferred == \A s \in Sides : races[s] = {} => mDeferred[s] = <<>>
Unraced == \A s \in Sides : races[s] = {}

RaceFine(D) ==
    /\ NoneDeferred
    /\ Unraced => \A s \in Sides : Told(D, s) /\ Whole(s)
    /\ \A s \in Sides : races[s] # {} /\ races[Other(s)] = {} => Due(D, Other(s))

\* Side a, where no call is deferred, takes the messages in X (one, or none).
Handles(a, X) ==
    /\ Peaceful(a)
    /\ \A e \in RPCs : /\ HeldBy(a, e)' > 0 => HeldBy(a, e) > 0
                       /\ HeldBy(a, e) > 0 => HeldBy(a, e)' > 0 \/ e \in X
    /\ \A e, r \in RPCs :
          /\ Clear(mPending'[a], wire'[a], e, r)
                => Clear(mPending[a], wire[a], e, r) \/ r \in X
          /\ Clear(mPending[a], wire[a], e, r)
                => e \in X \/ (r \notin X /\ Clear(mPending'[a], wire'[a], e, r))
    /\ \A c \in Open(a)' : Brought(a, c)' \/ (c \in Open(a) /\ RPCReply(c) \notin X)
    /\ \A c \in Open(a) : c \in Open(a)' \/ RPCReply(c) \in X
    /\ \A x \in X : x \in Requests =>
          x.guess = Cardinality(Open(a)) /\ RunningOn(a, x.seqno)' > 0 /\ HeldBy(a, x) > 0

\* It takes one and detects a race.
Races(a) ==
    \E x \in Requests :
       /\ mPending[a] # <<>> /\ x = Head(mPending[a]) /\ HeldBy(a, x) > 0
       /\ x.guess # Cardinality(Open(a)) /\ races'[a] # {}

\* A side that defers nothing holds what is pending and on its way.
HeldAsCarried ==
    \A s \in Sides : mDeferred[s] = <<>> =>
       \A e : HeldBy(s, e) > 0 <=> Carried(mPending[s], wire[s], e)

LEMMA HeldIs == TypeOK => HeldAsCarried
<1> SUFFICES ASSUME TypeOK, NEW s \in Sides, mDeferred[s] = <<>>, NEW e
             PROVE  HeldBy(s, e) > 0 <=> Carried(mPending[s], wire[s], e)
  BY DEF HeldAsCarried
<1>1. wire[s] \in Seq(Message) /\ mPending[s] \in Seq(Message)
  BY SideTyped
<1>2. HeldBy(s, e) = Held(wire[s], mPending[s], <<>>, e)
  BY DEF HeldBy
<1> QED
  BY <1>1, <1>2, CarriedHeld

\* What is carried is held.
LEMMA CarriedIsHeld ==
    ASSUME TypeOK, NEW s \in Sides, NEW e, Carried(mPending[s], wire[s], e)
    PROVE  HeldBy(s, e) > 0
<1>1. wire[s] \in Seq(Message) /\ mPending[s] \in Seq(Message) /\ mDeferred[s] \in Seq(Message)
  BY SideTyped
<1>2. Held(wire[s], mPending[s], mDeferred[s], e) > 0
  BY <1>1, CarriedHeld
<1> QED
  BY <1>2 DEF HeldBy

\* The steps of a side that defers nothing.
LEMMA HandlesOrRaces ==
    ASSUME TypeOK, TypeOK', NEW a \in Sides, Plays(a), mDeferred[a] = <<>>
    PROVE  (\E X : Handles(a, X)) \/ Races(a)
<1> DEFINE p == mPending[a]
           w == wire[a]
           p2 == mPending'[a]
           w2 == wire'[a]
<1>1. p \in Seq(Message) /\ w \in Seq(Message)
  BY SideTyped
<1>2. \A e : HeldBy(a, e) > 0 <=> Carried(p, w, e)
  BY HeldIs DEF HeldAsCarried
<1>3. mDeferred'[a] = <<>> => \A e : HeldBy(a, e)' > 0 <=> Carried(p2, w2, e)
  <2>1. TypeOK' => HeldAsCarried'
    BY HeldIs, PTL
  <2> QED
    BY <2>1 DEF HeldAsCarried
<1>4. Idles(a) \/ \E x \in Message : Takes(a, x)
  BY DEF Plays
<1> HIDE DEF p, w, p2, w2
<1>5. CASE Idles(a)
  <2>1. Peaceful(a) /\ Ranked(p, w, p2, w2)
    BY <1>5 DEF Idles, p, w, p2, w2
  <2>2. mDeferred'[a] = <<>>
    BY <2>1 DEF Peaceful
  <2>3. \A e \in RPCs : HeldBy(a, e)' > 0 <=> HeldBy(a, e) > 0
    BY <1>2, <1>3, <2>1, <2>2 DEF Ranked
  <2>4. \A e, r \in RPCs : Clear(p2, w2, e, r) <=> Clear(p, w, e, r)
    BY <2>1 DEF Ranked
  <2>5. /\ \A c \in Open(a)' : Brought(a, c)' \/ c \in Open(a)
        /\ \A c \in Open(a) : c \in Open(a)'
    BY <1>5 DEF Idles, Brought
  <2>6. Handles(a, {})
    BY <2>1, <2>3, <2>4, <2>5 DEF Handles, p, w, p2, w2
  <2> QED
    BY <2>6
<1>6. CASE \E x \in Message : Takes(a, x)
  <2>1. PICK x \in Message : Takes(a, x)
    BY <1>6
  <2>2. p # <<>> /\ x = Head(p) /\ p2 = Tail(p) /\ w2 = w /\ Meets(a, x)
    BY <2>1 DEF Takes, p, w, p2, w2
  <2>3. \A m : Carried(p, w, m) <=> Carried(p2, w2, m) \/ x = m
    BY <1>1, <2>2, ClearTaken
  <2>4. \A m, r : Clear(p, w, m, r) <=> x = m \/ (x # r /\ Clear(p2, w2, m, r))
    BY <1>1, <2>2, ClearTaken
  <2>5. HeldBy(a, x) > 0
    BY <1>2, <2>3
  <2>6. CASE Peaceful(a) /\ /\ x \in Requests =>
                                  x.guess = Cardinality(Open(a)) /\ RunningOn(a, x.seqno)' > 0
                            /\ \A c \in Int : c \in Open(a)' <=> c \in Open(a) /\ x # RPCReply(c)
    <3>1. mDeferred'[a] = <<>>
      BY <2>6 DEF Peaceful
    <3>2. \A e \in RPCs : /\ HeldBy(a, e)' > 0 => HeldBy(a, e) > 0
                          /\ HeldBy(a, e) > 0 => HeldBy(a, e)' > 0 \/ e \in {x}
      BY <1>2, <1>3, <2>3, <3>1
    <3>3. Open(a) \subseteq Int /\ Open(a)' \subseteq Int
      BY DEF Open
    <3>4. /\ \A c \in Open(a)' : c \in Open(a) /\ RPCReply(c) \notin {x}
          /\ \A c \in Open(a) : c \in Open(a)' \/ RPCReply(c) \in {x}
      BY <2>6, <3>3
    <3>5. \A e, r \in RPCs :
             /\ Clear(p2, w2, e, r) => Clear(p, w, e, r) \/ r \in {x}
             /\ Clear(p, w, e, r) => e \in {x} \/ (r \notin {x} /\ Clear(p2, w2, e, r))
      BY <2>4
    <3>6. Handles(a, {x})
      BY <2>5, <2>6, <3>2, <3>4, <3>5 DEF Handles, p, w, p2, w2
    <3> QED
      BY <3>6
  <2>7. CASE x \in Requests /\ x.guess # Cardinality(Open(a)) /\ races'[a] # {}
    BY <2>2, <2>5, <2>7 DEF Races, p
  <2>8. CASE x \in Requests /\ Peaceful(a) /\ x.guess = Cardinality(Open(a))
             /\ Open(a)' = Open(a) /\ RunningOn(a, x.seqno)' > 0
    <3>1. \A c \in Int : x # RPCReply(c)
      BY <2>8, MessagesAre
    <3> QED
      BY <2>6, <2>8, <3>1
  <2> QED
    BY <2>2, <2>6, <2>7, <2>8 DEF Meets
<1> QED
  BY <1>4, <1>5, <1>6

\* A side on which nothing happens still holds what it held.
LEMMA BesideHeld ==
    ASSUME TypeOK, NEW o \in Sides, Beside(o), NEW e, HeldBy(o, e) > 0
    PROVE  HeldBy(o, e)' > 0
<1>1. wire[o] \in Seq(Message) /\ mPending[o] \in Seq(Message) /\ mDeferred[o] \in Seq(Message)
  BY SideTyped
<1>2. HeldBy(o, e)' = Held(wire'[o], mPending[o], mDeferred[o], e)
  BY DEF HeldBy, Beside
<1>3. HeldBy(o, e) = Held(wire[o], mPending[o], mDeferred[o], e)
  BY DEF HeldBy
<1>4. CASE wire'[o] = wire[o]
  BY <1>2, <1>3, <1>4
<1>5. CASE \E x \in Message : wire'[o] = Append(wire[o], x)
  <2>1. PICK x \in Message : wire'[o] = Append(wire[o], x)
    BY <1>5
  <2> DEFINE h == Held(wire[o], mPending[o], mDeferred[o], e)
  <2>2. Held(Append(wire[o], x), mPending[o], mDeferred[o], e) = h + (IF x = e THEN 1 ELSE 0)
    BY <1>1, HeldSend
  <2>3. h \in Nat
    BY <1>1, HeldType
  <2>4. HeldBy(o, e)' = h + (IF x = e THEN 1 ELSE 0)
    BY <1>2, <2>1, <2>2
  <2>5. h > 0
    BY <1>3
  <2> HIDE DEF h
  <2> QED
    BY <2>3, <2>4, <2>5
<1> QED
  BY <1>4, <1>5 DEF Beside

\* What is sent to it is behind all it has.
LEMMA BesideClear ==
    ASSUME TypeOK, NEW o \in Sides, Beside(o), NEW e, NEW r
    PROVE  /\ Clear(mPending[o], wire[o], e, r) => Clear(mPending'[o], wire'[o], e, r)
           /\ Clear(mPending'[o], wire'[o], e, r) =>
                 Clear(mPending[o], wire[o], e, r) \/ ~Carried(mPending[o], wire[o], r)
<1>1. wire[o] \in Seq(Message) /\ mPending[o] \in Seq(Message) /\ mPending'[o] = mPending[o]
  BY SideTyped DEF Beside
<1>2. CASE wire'[o] = wire[o]
  BY <1>1, <1>2
<1>3. CASE \E x \in Message : wire'[o] = Append(wire[o], x)
  <2>1. PICK x \in Message : wire'[o] = Append(wire[o], x)
    BY <1>3
  <2>2. Clear(mPending[o], Append(wire[o], x), e, r) <=>
           Clear(mPending[o], wire[o], e, r) \/ (x = e /\ ~Carried(mPending[o], wire[o], r))
    BY <1>1, ClearSent
  <2> QED
    BY <1>1, <2>1, <2>2
<1> QED
  BY <1>2, <1>3 DEF Beside

\* Its calls are the same.
LEMMA BesideSame ==
    ASSUME NEW o \in Sides, Beside(o)
    PROVE  /\ Open(o)' = Open(o) /\ mDeferred'[o] = mDeferred[o] /\ races'[o] = races[o]
           /\ \A n : RunningOn(o, n)' = RunningOn(o, n)
BY DEF Beside, Open, RunningOn

\* A call counts on open calls only.
LEMMA CountedAreOpen ==
    ASSUME Booked, NEW s \in Sides, NEW m \in Requests, NEW C, CountedOn(s, m, C)
    PROVE  /\ C \subseteq Open(s)
           /\ m.guess = Cardinality(Open(s)) <=> C = Open(s)
<1>1. C \subseteq Open(s) /\ IsFiniteSet(C) /\ Cardinality(C) = m.guess
  BY DEF CountedOn, Open
<1>2. IsFiniteSet(Open(s))
  BY OpenAre
<1>3. Cardinality(Open(s)) = Cardinality(C) => Open(s) = C
  BY <1>1, <1>2, FS_Subset
<1> QED
  BY <1>1, <1>3

\* What is carried now was carried before, or is new.
LEMMA BesideCarried ==
    ASSUME TypeOK, NEW o \in Sides, mDeferred[o] = <<>>, NEW m, HeldBy(o, m) > 0, NEW r,
           ~(HeldBy(o, r) > 0)
    PROVE  Clear(mPending[o], wire[o], m, r)
<1>1. Carried(mPending[o], wire[o], m) /\ ~Carried(mPending[o], wire[o], r)
  BY HeldIs DEF HeldAsCarried
<1> QED
  BY <1>1, ClearCarried

\* A side is still due to race when the other takes a step ...
LEMMA DueBeside ==
    ASSUME TypeOK, NEW a \in Sides, NEW o \in Sides, Beside(o),
           NEW D, NEW E, Refits(a, D, E), Due(D, o)
    PROVE  Due(E, o)'
<1>1. PICK e \in Requests, m \in Int :
         /\ m \in Open(o) /\ m \notin D[o][e] /\ Clear(mPending[o], wire[o], e, RPCReply(m))
  BY DEF Due
<1>2. HeldBy(o, e) > 0
  BY <1>1, ClearCarried, CarriedIsHeld
<1>3. m \in Open(o)' /\ m \notin E[o][e]
  BY <1>1, <1>2, BesideSame DEF Refits
<1>4. Clear(mPending'[o], wire'[o], e, RPCReply(m))
  BY <1>1, BesideClear
<1> QED
  BY <1>3, <1>4 DEF Due

\* ... or it handles another message itself: not the call that it is due to race with,
\* and no reply that is behind.
LEMMA DueHandled ==
    ASSUME Booked, NEW a \in Sides, NEW X, Handles(a, X),
           NEW D \in Guesses, NEW E \in Guesses, Guessing(D), Refits(a, D, E), Due(D, a)
    PROVE  Due(E, a)'
<1>1. PICK e \in Requests, m \in Int :
         /\ m \in Open(a) /\ m \notin D[a][e] /\ Clear(mPending[a], wire[a], e, RPCReply(m))
  BY DEF Due
<1>2. TypeOK /\ e \in RPCs /\ RPCReply(m) \in RPCs
  BY MessagesAre DEF Booked, Base
<1>3. HeldBy(a, e) > 0
  BY <1>1, <1>2, ClearCarried, CarriedIsHeld
<1>4. e \notin X
  <2>1. PICK C : C = D[a][e] /\ CountedOn(a, e, C)
    BY <1>3 DEF Guessing
  <2>2. e.guess # Cardinality(Open(a))
    BY <1>1, <2>1, CountedAreOpen
  <2> QED
    BY <2>2 DEF Handles
<1>5. RPCReply(m) \notin X /\ Clear(mPending'[a], wire'[a], e, RPCReply(m))
  BY <1>1, <1>2, <1>4 DEF Handles
<1>6. m \in Open(a)' /\ m \notin E[a][e]
  BY <1>1, <1>3, <1>5 DEF Handles, Refits
<1> QED
  BY <1>5, <1>6 DEF Due

\* An in-call that the other side holds is open here, and neither handled nor answered.
LEMMA HeldIsOpen ==
    ASSUME Booked, NEW s \in Sides, NEW o \in Sides, o = Other(s), NEW e \in Requests,
           HeldBy(o, e) > 0
    PROVE  /\ e.seqno \in Open(s) /\ e.seqno \in Int
           /\ ~(HeldBy(s, RPCReply(e.seqno)) > 0) /\ ~(RunningOn(o, e.seqno) > 0)
<1>1. PICK n \in Int : n = e.seqno
  BY MessagesAre
<1>2. /\ HeldBy(s, RPCReply(n)) = 0 /\ n \notin mOutOfTurnReplies[s] /\ RunningOn(o, n) = 0
  BY <1>1, OnceAnswered
<1>3. Among(mStack[s], e)
  BY DEF Booked, Accounts
<1>4. Asked(mStack[s], n)
  BY <1>1, <1>3 DEF Among, Asked
<1>5. n \in Open(s)
  BY <1>2, <1>4 DEF Open
<1> QED
  BY <1>1, <1>2, <1>5

\* A call counted on is handled over there, where none is deferred.
LEMMA CountedRuns ==
    ASSUME Booked, Connected, NEW s \in Sides, NEW o \in Sides, o = Other(s),
           mDeferred[o] = <<>>,
           NEW m \in Requests, NEW C, CountedOn(s, m, C), NEW c \in C
    PROVE  RunningOn(o, c) > 0
<1>1. c \in Int /\ m.seqno \in Int /\ frames[o] \in Stacks
  BY SideTyped, MessagesAre DEF CountedOn, Booked, Base
<1>2. Below(frames[o], c, m.seqno)
  BY NoneAsked DEF CountedOn, Connected, Deferring
<1> QED
  BY <1>1, <1>2, BelowRuns DEF RunningOn

\* When a side handles a call that did not race, the other side holds none.
LEMMA NoneElse ==
    ASSUME Booked, Connected, NEW a \in Sides, NEW o \in Sides, o = Other(a),
           mDeferred[o] = <<>>, NEW D \in Guesses, Guessing(D),
           NEW X, Handles(a, X), NEW x \in X, x \in Requests, NEW e \in Requests
    PROVE  ~(HeldBy(o, e) > 0)
<1> SUFFICES ASSUME HeldBy(o, e) > 0
             PROVE  FALSE
  OBVIOUS
<1>1. x.guess = Cardinality(Open(a)) /\ HeldBy(a, x) > 0
  BY DEF Handles
<1>2. PICK C : CountedOn(a, x, C)
  BY <1>1 DEF Guessing
<1>3. C = Open(a)
  BY <1>1, <1>2, CountedAreOpen
<1>4. e.seqno \in C /\ ~(RunningOn(o, e.seqno) > 0)
  BY <1>3, HeldIsOpen
<1> QED
  BY <1>2, <1>4, CountedRuns

\* When a side detects a race, the other side is due to detect one.
LEMMA RaceIsDue ==
    ASSUME Booked, Connected, NEW a \in Sides, NEW o \in Sides, o = Other(a), a = Other(o),
           NEW D \in Guesses, Guessing(D), Told(D, a),
           mDeferred[a] = <<>>, mDeferred[o] = <<>>, Races(a)
    PROVE  Due(D, o)
<1>1. TypeOK /\ mPending[a] \in Seq(Message) /\ wire[a] \in Seq(Message)
  BY SideTyped DEF Booked, Base
<1>2. PICK x \in Requests :
         /\ mPending[a] # <<>> /\ x = Head(mPending[a]) /\ HeldBy(a, x) > 0
         /\ x.guess # Cardinality(Open(a))
  BY DEF Races
<1>3. PICK C : C = D[a][x] /\ CountedOn(a, x, C)
  BY <1>2 DEF Guessing
<1>4. PICK c \in Open(a) : c \notin C
  <2>1. C \subseteq Open(a) /\ C # Open(a)
    BY <1>2, <1>3, CountedAreOpen
  <2> QED
    BY <2>1
<1>5. Clear(mPending[a], wire[a], x, RPCReply(c))
  BY <1>1, <1>2, ClearTaken
<1>6. PICK e \in Requests : e.seqno = c /\ HeldBy(o, e) > 0
  BY <1>2, <1>3, <1>4, <1>5 DEF Told, Brought
<1>7. PICK B : B = D[o][e] /\ CountedOn(o, e, B)
  BY <1>6 DEF Guessing
<1>8. PICK m \in Int : m = x.seqno
  BY MessagesAre
<1>9. m \in Open(o) /\ ~(HeldBy(o, RPCReply(m)) > 0) /\ ~(RunningOn(a, m) > 0)
  BY <1>2, <1>8, HeldIsOpen
<1>10. m \notin B
  BY <1>7, <1>9, CountedRuns
<1>11. Clear(mPending[o], wire[o], e, RPCReply(m))
  BY <1>1, <1>6, <1>9, BesideCarried
<1> QED
  BY <1>7, <1>9, <1>10, <1>11 DEF Due

\* No open call is lost by the side that made it ...
LEMMA WholeOwn ==
    ASSUME TypeOK, NEW a \in Sides, NEW o \in Sides, o = Other(a), Beside(o),
           NEW X, Handles(a, X), Whole(a)
    PROVE  Whole(a)'
<1> SUFFICES ASSUME NEW c \in Open(a)', ~Brought(a, c)'
             PROVE  RunningOn(o, c)' > 0 \/ HeldBy(a, RPCReply(c))' > 0
  BY DEF Whole
<1>1. c \in Open(a) /\ RPCReply(c) \notin X /\ c \in Int
  BY DEF Handles, Open
<1>2. RPCReply(c) \in RPCs
  BY <1>1, MessagesAre
<1>3. CASE RunningOn(o, c) > 0
  BY <1>3, BesideSame
<1>4. CASE Brought(a, c)
  <2>1. PICK e \in Requests : e.seqno = c /\ HeldBy(o, e) > 0
    BY <1>4 DEF Brought
  <2>2. HeldBy(o, e)' > 0
    BY <2>1, BesideHeld
  <2> QED
    BY <2>1, <2>2 DEF Brought
<1>5. CASE HeldBy(a, RPCReply(c)) > 0
  BY <1>1, <1>2, <1>5 DEF Handles
<1> QED
  BY <1>1, <1>3, <1>4, <1>5 DEF Whole

\* ... or by the other.
LEMMA WholeOther ==
    ASSUME TypeOK, NEW a \in Sides, NEW o \in Sides, o = Other(a), a = Other(o), Beside(o),
           NEW X, Handles(a, X), Whole(o)
    PROVE  Whole(o)'
<1>1. Open(o)' = Open(o)
  BY BesideSame
<1> SUFFICES ASSUME NEW c \in Open(o)', ~Brought(o, c)'
             PROVE  RunningOn(a, c)' > 0 \/ HeldBy(o, RPCReply(c))' > 0
  BY DEF Whole
<1>2. c \in Open(o) /\ c \in Int
  BY <1>1 DEF Open
<1>3. CASE RunningOn(a, c) > 0
  BY <1>2, <1>3 DEF Handles, Peaceful
<1>4. CASE Brought(o, c)
  <2>1. PICK e \in Requests : e.seqno = c /\ HeldBy(a, e) > 0
    BY <1>4 DEF Brought
  <2>2. e \in RPCs /\ ~(HeldBy(a, e)' > 0)
    BY <2>1, MessagesAre DEF Brought
  <2>3. e \in X
    BY <2>1, <2>2 DEF Handles
  <2>4. RunningOn(a, e.seqno)' > 0
    BY <2>3 DEF Handles
  <2> QED
    BY <2>1, <2>4
<1>5. CASE HeldBy(o, RPCReply(c)) > 0
  BY <1>5, BesideHeld
<1> QED
  BY <1>2, <1>3, <1>4, <1>5 DEF Whole

\* A side that handles a message is still told of all other calls.
LEMMA ToldOwn ==
    ASSUME TypeOK, NEW a \in Sides, NEW o \in Sides, o = Other(a), Beside(o),
           NEW X, Handles(a, X), NEW D, NEW E, Refits(a, D, E), Told(D, a)
    PROVE  Told(E, a)'
<1> SUFFICES ASSUME NEW m \in Requests, HeldBy(a, m)' > 0
             PROVE  \A c \in Open(a)' :
                       \/ c \in E[a][m] \/ Brought(a, c)'
                       \/ ~Clear(mPending'[a], wire'[a], m, RPCReply(c))
  BY DEF Told
<1>1. m \in RPCs
  BY MessagesAre
<1>2. HeldBy(a, m) > 0
  BY <1>1 DEF Handles
<1>3. PICK C : C = D[a][m] /\ C = E[a][m]
  BY <1>2 DEF Refits
<1>4. \A c \in Open(a) : \/ c \in C \/ Brought(a, c)
                        \/ ~Clear(mPending[a], wire[a], m, RPCReply(c))
  BY <1>2, <1>3 DEF Told
<1>5. ASSUME NEW c \in Open(a)', c \notin C, ~Brought(a, c)'
      PROVE  ~Clear(mPending'[a], wire'[a], m, RPCReply(c))
  <2>1. c \in Open(a) /\ RPCReply(c) \notin X /\ c \in Int
    BY <1>5 DEF Handles, Open
  <2>2. RPCReply(c) \in RPCs
    BY <2>1, MessagesAre
  <2>3. ~Brought(a, c)
    <3> SUFFICES ASSUME Brought(a, c)
                 PROVE  FALSE
      OBVIOUS
    <3>1. PICK e \in Requests : e.seqno = c /\ HeldBy(o, e) > 0
      BY DEF Brought
    <3>2. HeldBy(o, e)' > 0
      BY <3>1, BesideHeld
    <3> QED
      BY <1>5, <3>1, <3>2 DEF Brought
  <2>4. ~Clear(mPending[a], wire[a], m, RPCReply(c))
    BY <1>4, <1>5, <2>1, <2>3
  <2> QED
    BY <1>1, <2>1, <2>2, <2>4 DEF Handles
<1> QED
  BY <1>3, <1>5

\* The other side is told of new calls, and still of all others.
LEMMA ToldOther ==
    ASSUME Booked, Base', Counts, Counts', Connected, NEW a \in Sides, Effects(a), NEW o \in Sides,
           o = Other(a), a = Other(o), Beside(o), NEW X, Handles(a, X),
           mDeferred[a] = <<>>, mDeferred[o] = <<>>, NEW D \in Guesses, NEW E \in Guesses,
           Guessing(D), Refits(a, D, E), Told(D, o), Whole(o)
    PROVE  Told(E, o)'
<1> SUFFICES ASSUME NEW m \in Requests, HeldBy(o, m)' > 0
             PROVE  \A c \in Open(o)' :
                       \/ c \in E[o][m] \/ Brought(o, c)'
                       \/ ~Clear(mPending'[o], wire'[o], m, RPCReply(c))
  BY DEF Told
<1>1. TypeOK /\ m \in RPCs
  BY MessagesAre DEF Booked, Base
<1>2. Open(o)' = Open(o) /\ Open(o) \subseteq Int
  BY BesideSame DEF Open
<1>3. CASE HeldBy(o, m) > 0
  <2>1. PICK C : C = D[o][m] /\ C = E[o][m]
    BY <1>3 DEF Refits
  <2>2. \A c \in Open(o) : \/ c \in C \/ Brought(o, c)
                          \/ ~Clear(mPending[o], wire[o], m, RPCReply(c))
    BY <1>3, <2>1 DEF Told
  <2>3. ASSUME NEW c \in Open(o)', c \notin C, ~Brought(o, c)'
        PROVE  ~Clear(mPending'[o], wire'[o], m, RPCReply(c))
    <3>1. c \in Open(o)
      BY <1>2, <2>3
    <3>2. ~Brought(o, c)
      <4> SUFFICES ASSUME Brought(o, c)
                   PROVE  FALSE
        OBVIOUS
      <4>1. PICK e \in Requests : e.seqno = c /\ HeldBy(a, e) > 0
        BY DEF Brought
      <4>2. e \in RPCs /\ ~(HeldBy(a, e)' > 0)
        BY <2>3, <4>1, MessagesAre DEF Brought
      <4>3. e \in X
        BY <4>1, <4>2 DEF Handles
      <4> QED
        BY <1>3, <4>3, NoneElse
    <3>3. ~Clear(mPending[o], wire[o], m, RPCReply(c))
      BY <2>2, <2>3, <3>1, <3>2
    <3>4. Carried(mPending[o], wire[o], RPCReply(c))
      <4>1. HeldBy(o, RPCReply(c)) > 0
        BY <1>1, <1>3, <3>3, BesideCarried
      <4> QED
        BY <1>1, <4>1, HeldIs DEF HeldAsCarried
    <3> QED
      BY <1>1, <3>3, <3>4, BesideClear
  <2> QED
    BY <2>1, <2>3
<1>4. CASE ~(HeldBy(o, m) > 0)
  <2>1. Asks(a)
    BY <1>4, NewlyHeld
  <2>2. \A c \in Int : RunningOn(a, c) > 0 => c \in E[o][m]
    BY <1>4 DEF Refits
  <2>3. ASSUME NEW c \in Open(o)', c \notin E[o][m], ~Brought(o, c)'
        PROVE  ~Clear(mPending'[o], wire'[o], m, RPCReply(c))
    <3>1. c \in Open(o) /\ c \in Int /\ ~(RunningOn(a, c) > 0)
      BY <1>2, <2>2, <2>3
    <3>2. ~Brought(o, c)
      <4> SUFFICES ASSUME Brought(o, c)
                   PROVE  FALSE
        OBVIOUS
      <4>1. PICK e \in Requests : e.seqno = c /\ HeldBy(a, e) > 0
        BY DEF Brought
      <4>2. e \in RPCs /\ ~(HeldBy(a, e)' > 0)
        BY <2>3, <4>1, MessagesAre DEF Brought
      <4>3. e \in X
        BY <4>1, <4>2 DEF Handles
      <4>4. RunningOn(a, c)' > 0
        BY <4>1, <4>3 DEF Handles
      <4>5. RunningOn(a, c)' <= RunningOn(a, c)
        BY <2>1, <3>1 DEF Asks, RunningLess
      <4>6. RunningOn(a, c) \in Nat /\ RunningOn(a, c)' \in Nat
        BY <3>1 DEF Counts
      <4> QED
        BY <3>1, <4>4, <4>5, <4>6
    <3>3. HeldBy(o, RPCReply(c)) > 0
      BY <3>1, <3>2 DEF Whole
    <3>4. Carried(mPending[o], wire[o], RPCReply(c)) /\ ~Carried(mPending[o], wire[o], m)
      BY <1>1, <1>4, <3>3, HeldIs DEF HeldAsCarried
    <3>5. ~Clear(mPending[o], wire[o], m, RPCReply(c))
      BY <3>4, ClearCarried
    <3> QED
      BY <1>1, <3>4, <3>5, BesideClear
  <2> QED
    BY <2>3
<1> QED
  BY <1>3, <1>4

\* What the two sides know of each other stays right.
LEMMA RaceFineStays ==
    ASSUME Booked, Base', Counts, Counts', Connected, NEW a \in Sides, Effects(a), Plays(a),
           NEW D \in Guesses, NEW E \in Guesses, Guessing(D), Refits(a, D, E), RaceFine(D)
    PROVE  RaceFine(E)'
<1> DEFINE o == Other(a)
<1>1. /\ o \in Sides /\ o = Other(a) /\ a = Other(o) /\ TypeOK /\ TypeOK'
      /\ \A s \in Sides : s = a \/ s = o
  BY SidesAre DEF Booked, Base
<1>2. Beside(o) /\ races[a] \subseteq races'[a]
  BY DEF Plays
<1>3. NoneDeferred
  BY DEF RaceFine
<1> HIDE DEF o
<1>4. /\ mDeferred'[o] = mDeferred[o] /\ races'[o] = races[o]
  BY <1>1, <1>2, BesideSame
<1>5. races[o] = {} => mDeferred'[o] = <<>>
  BY <1>1, <1>3, <1>4 DEF NoneDeferred
<1>6. races[a] # {} /\ races[o] = {} => Due(E, o)'
  <2> SUFFICES ASSUME races[a] # {}, races[o] = {}
               PROVE  Due(E, o)'
    OBVIOUS
  <2>1. Due(D, o)
    BY <1>1 DEF RaceFine
  <2> QED
    BY <1>1, <1>2, <2>1, DueBeside
<1>7. CASE races'[a] # {} /\ (races[a] = {} /\ races[o] = {} => Due(E, o)')
  <2>1. ASSUME NEW s \in Sides, races'[s] = {}
        PROVE  mDeferred'[s] = <<>>
    <3>1. s = o
      BY <1>1, <1>7, <2>1
    <3> QED
      BY <1>4, <1>5, <2>1, <3>1
  <2>2. ~Unraced'
    BY <1>7 DEF Unraced
  <2>3. ASSUME NEW s \in Sides, races'[s] # {}, races'[Other(s)] = {}
        PROVE  Due(E, Other(s))'
    <3>1. s = a
      BY <1>1, <1>7, <2>3
    <3>2. races[o] = {}
      BY <1>1, <1>4, <2>3, <3>1
    <3>3. Due(E, o)'
      BY <1>6, <1>7, <3>2
    <3> QED
      BY <1>1, <3>1, <3>3
  <2>4. NoneDeferred'
    BY <2>1 DEF NoneDeferred
  <2> QED
    BY <2>2, <2>3, <2>4 DEF RaceFine
<1>8. CASE mDeferred[a] = <<>> /\ Races(a)
  <2>1. races'[a] # {}
    BY <1>8 DEF Races
  <2>2. ASSUME races[a] = {}, races[o] = {}
        PROVE  Due(E, o)'
    <3>1. Unraced
      BY <1>1, <2>2 DEF Unraced
    <3>2. Told(D, a) /\ Told(D, o) /\ mDeferred[o] = <<>>
      BY <1>1, <1>3, <2>2, <3>1 DEF RaceFine, NoneDeferred
    <3>3. Due(D, o)
      BY <1>1, <1>8, <3>2, RaceIsDue
    <3> QED
      BY <1>1, <1>2, <3>3, DueBeside
  <2> QED
    BY <1>7, <2>1, <2>2
<1>9. CASE mDeferred[a] = <<>> /\ \E X : Handles(a, X)
  <2>1. PICK X : Handles(a, X)
    BY <1>9
  <2>2. mDeferred'[a] = mDeferred[a] /\ races'[a] = races[a]
    BY <2>1 DEF Handles, Peaceful
  <2>3. \A s \in Sides : mDeferred'[s] = mDeferred[s] /\ races'[s] = races[s]
    BY <1>1, <1>4, <2>2
  <2>4. NoneDeferred'
    BY <1>3, <2>3 DEF NoneDeferred
  <2>5. ASSUME Unraced'
        PROVE  \A s \in Sides : Told(E, s)' /\ Whole(s)'
    <3>1. Unraced
      BY <2>3, <2>5 DEF Unraced
    <3>2. Told(D, a) /\ Told(D, o) /\ Whole(a) /\ Whole(o)
      BY <1>1, <3>1 DEF RaceFine
    <3>3. mDeferred[o] = <<>>
      BY <1>1, <1>3, <3>1 DEF NoneDeferred, Unraced
    <3>4. Whole(a)' /\ Whole(o)'
      BY <1>1, <1>2, <2>1, <3>2, WholeOwn, WholeOther
    <3>5. Told(E, a)'
      BY <1>1, <1>2, <2>1, <3>2, ToldOwn
    <3>6. Told(E, o)'
      BY <1>1, <1>2, <1>9, <2>1, <3>2, <3>3, ToldOther
    <3> QED
      BY <1>1, <3>4, <3>5, <3>6
  <2>6. ASSUME NEW s \in Sides, races'[s] # {}, races'[Other(s)] = {}
        PROVE  Due(E, Other(s))'
    <3>1. CASE s = a
      <4>1. races[a] # {} /\ races[o] = {}
        BY <1>1, <2>3, <2>6, <3>1
      <4> QED
        BY <1>1, <1>6, <3>1, <4>1
    <3>2. CASE s = o
      <4>1. races[o] # {} /\ races[Other(o)] = {}
        BY <1>1, <2>3, <2>6, <3>2
      <4>2. Due(D, a)
        BY <1>1, <4>1 DEF RaceFine
      <4>3. Due(E, a)'
        BY <2>1, <4>2, DueHandled
      <4> QED
        BY <1>1, <3>2, <4>3
    <3> QED
      BY <1>1, <3>1, <3>2
  <2> QED
    BY <2>4, <2>5, <2>6 DEF RaceFine
<1>10. CASE mDeferred[a] # <<>>
  <2>1. races[a] # {}
    BY <1>3, <1>10 DEF NoneDeferred
  <2> QED
    BY <1>2, <1>7, <2>1
<1>11. mDeferred[a] = <<>> => (\E X : Handles(a, X)) \/ Races(a)
  BY <1>1, HandlesOrRaces
<1> QED
  BY <1>8, <1>9, <1>10, <1>11

-----------------------------------------------------------------------------
(***************************************************************************)
(* Races are symmetric when no event loop is nested.                       *)
(***************************************************************************)

RaceInv ==
    /\ IInv
    /\ Connected => Flat /\ \E D \in Guesses : Guessing(D) /\ Apart(D) /\ RaceFine(D)

\* At the start nothing has been sent, let alone raced.
LEMMA InitRaceInv ==
    ASSUME Init, \A s \in Sides : MaxNests[s] = 0
    PROVE  RaceInv
<1>1. IInv /\ TypeOK
  BY InitIInv, InitBase DEF Base
<1>2. \A s \in Sides : /\ frames[s] = <<>> /\ mStack[s] = <<>> /\ mDeferred[s] = <<>>
                       /\ races[s] = {} /\ mPending[s] = <<>> /\ wire[s] = <<>>
                       /\ budget[s].nest = 0
  BY DEF Init
<1>3. Len(<<>>) = 0 /\ 1 .. 0 = {}
  OBVIOUS
<1>4. Flat
  <2>1. ~Bears(<<>>, Nests)
    BY <1>3 DEF Bears
  <2> QED
    BY <1>2, <2>1 DEF Flat
<1>5. PICK D : D = [s \in Sides |-> [m \in Requests |-> {}]]
  OBVIOUS
<1>6. D \in Guesses
  BY <1>5 DEF Guesses
<1>7. ASSUME NEW s \in Sides
      PROVE  Told(D, s) /\ Whole(s) /\ \A e : ~(HeldBy(s, e) > 0)
  <2>1. \A e : ~(HeldBy(s, e) > 0)
    <3>1. \A e : ~Carried(<<>>, <<>>, e)
      BY <1>3 DEF Carried, Lacks
    <3> QED
      BY <1>1, <1>2, <3>1, HeldIs DEF HeldAsCarried
  <2>2. Told(D, s)
    BY <2>1 DEF Told
  <2>3. Open(s) = {}
    BY <1>2, NoneAsked DEF Open
  <2> QED
    BY <2>1, <2>2, <2>3 DEF Whole
<1>8. RaceFine(D)
  <2>1. NoneDeferred
    BY <1>2 DEF NoneDeferred
  <2> QED
    BY <1>2, <1>7, <2>1 DEF RaceFine
<1>9. Guessing(D) /\ Apart(D)
  BY <1>7, Zenon DEF Guessing, Apart
<1> QED
  BY <1>1, <1>4, <1>6, <1>8, <1>9 DEF RaceInv

\* A link that is down stays down.
LEMMA StaysDown ==
    ASSUME Base, NEW a \in Sides, Effects(a), Connected'
    PROVE  Connected
<1>1. connected' = connected \/ \A s \in Sides : BelowKept(s)
  BY DEF Effects, Passive, Begins, Replies, PutsAside, Asks, Gets
<1> QED
  BY <1>1 DEF Connected, BelowKept

\* Every step keeps the invariant.
LEMMA RaceInvStays ==
    ASSUME RaceInv, [Next]_vars
    PROVE  RaceInv'
<1>1. IInv /\ IInv' /\ Booked /\ Booked' /\ Base /\ Base'
  <2>1. IInv /\ IInv'
    BY IInvStays DEF RaceInv
  <2> QED
    BY <2>1 DEF IInv, Booked
<1> SUFFICES ASSUME Connected'
             PROVE  Flat' /\ \E E \in Guesses : Guessing(E)' /\ Apart(E)' /\ RaceFine(E)'
  BY <1>1 DEF RaceInv
<1>2. CASE Next
  <2>1. Connected
    <3>1. PICK b \in Sides : Effects(b)
      BY <1>1, <1>2, StepEffects
    <3> QED
      BY <1>1, <3>1, StaysDown
  <2>2. Flat /\ \E D \in Guesses : Guessing(D) /\ Apart(D) /\ RaceFine(D)
    BY <2>1 DEF RaceInv
  <2>3. PICK a \in Sides : Effects(a) /\ Plays(a) /\ NestsKept
    BY <1>1, <1>2, <2>1, <2>2, StepPlays
  <2>4. Counts /\ Counts'
    <3>1. Base' => Counts'
      BY CountsAre, PTL
    <3> QED
      BY <1>1, <3>1, CountsAre
  <2>5. PICK D \in Guesses : Guessing(D) /\ Apart(D) /\ RaceFine(D)
    BY <2>2
  <2>6. PICK E \in Guesses : Refits(a, D, E)
    BY Refitted
  <2>7. \A s \in Sides : Shallow(s) /\ DefersOn(s)
    BY <1>1, <1>2, StepDefersOn DEF IInv
  <2>8. Guessing(E)' /\ Apart(E)'
    BY <1>1, <2>3, <2>4, <2>5, <2>6, <2>7, GuessesStep
  <2>9. RaceFine(E)'
    BY <1>1, <2>1, <2>3, <2>4, <2>5, <2>6, RaceFineStays
  <2>10. Flat'
    BY <2>2, <2>3, FlatStays
  <2> QED
    BY <2>8, <2>9, <2>10
<1>3. CASE UNCHANGED vars
  <2>1. Connected
    BY <1>3 DEF vars, Connected
  <2>2. Flat
    BY <2>1 DEF RaceInv
  <2>3. PICK D \in Guesses : Guessing(D) /\ Apart(D) /\ RaceFine(D)
    BY <2>1 DEF RaceInv
  <2>4. Flat'
    BY <1>3, <2>2 DEF vars, Flat
  <2>5. Guessing(D)' /\ Apart(D)'
    BY <1>3, <2>3, GuessesKept
  <2>6. ASSUME NEW s \in Sides
        PROVE  /\ Open(s)' = Open(s) /\ \A e : HeldBy(s, e)' = HeldBy(s, e)
               /\ \A n : RunningOn(s, n)' = RunningOn(s, n)
    BY <1>3 DEF vars, Open, HeldBy, RunningOn
  <2>7. ASSUME NEW s \in Sides
        PROVE  (Told(D, s)' <=> Told(D, s)) /\ (Whole(s)' <=> Whole(s)) /\ (Due(D, s)' <=> Due(D, s))
    <3>1. Other(s) \in Sides
      BY SidesAre
    <3>2. \A c : Brought(s, c)' <=> Brought(s, c)
      BY <2>6, <3>1 DEF Brought
    <3>3. mPending' = mPending /\ wire' = wire
      BY <1>3 DEF vars
    <3>4. Told(D, s)' <=> Told(D, s)
      BY <2>6, <3>2, <3>3 DEF Told
    <3>5. Whole(s)' <=> Whole(s)
      BY <2>6, <3>1, <3>2 DEF Whole
    <3>6. Due(D, s)' <=> Due(D, s)
      BY <2>6, <3>3 DEF Due
    <3> QED
      BY <3>4, <3>5, <3>6
  <2>8. \A s \in Sides : Other(s) \in Sides
    BY SidesAre
  <2>9. RaceFine(D)'
    BY <1>3, <2>3, <2>7, <2>8 DEF vars, RaceFine, NoneDeferred, Unraced
  <2> QED
    BY <2>4, <2>5, <2>9
<1> QED
  BY <1>2, <1>3

\* "this race detection is symmetric" (RPCChannel.h:388-390), for calls whose handlers
\* do not spin event loops of their own: when all is quiet again, either both sides have
\* detected races or neither has.
THEOREM RacesAreSymmetric ==
    ASSUME \A s \in Sides : MaxNests[s] = 0
    PROVE  Spec => []RacesSymmetric
<1>1. RaceInv /\ QuietIsClean => RacesSymmetric
  <2> SUFFICES ASSUME RaceInv, QuietIsClean, Quiet, Connected
               PROVE  races["parent"] = {} <=> races["child"] = {}
    BY DEF RacesSymmetric
  <2>1. ASSUME NEW s \in Sides, races[s] # {}, races[Other(s)] = {}
        PROVE  FALSE
    <3>1. PICK D \in Guesses : Due(D, Other(s)) /\ Other(s) \in Sides
      BY <2>1, SidesAre DEF RaceInv, RaceFine
    <3>2. mStack[Other(s)] = <<>>
      BY <3>1 DEF QuietIsClean
    <3>3. Open(Other(s)) = {}
      BY <3>2, NoneAsked DEF Open
    <3> QED
      BY <3>1, <3>3 DEF Due
  <2>2. /\ "parent" \in Sides /\ "child" \in Sides
        /\ Other("parent") = "child" /\ Other("child") = "parent"
    BY DEF Sides, Other
  <2> QED
    BY <2>1, <2>2
<1>2. Init => RaceInv
  BY InitRaceInv
<1>3. RaceInv /\ [Next]_vars => RaceInv'
  BY RaceInvStays
<1> QED
  BY <1>1, <1>2, <1>3, QuietMeansClean, PTL DEF Spec
=============================================================================
