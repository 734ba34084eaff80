---------------------------- MODULE ThreadProofs ----------------------------
(***************************************************************************)
(* Proofs about nsThread, for any number of threads and runnables and any  *)
(* size of the queues' pages: what Shutdown promises, the life of its      *)
(* context, and that queues, dooming and nested event loops implement the  *)
(* event targets that callers of Dispatch see.                             *)
(***************************************************************************)
EXTENDS Thread, EventQueueProofs

-----------------------------------------------------------------------------
(***************************************************************************)
(* Queues as sets of events, and stacks as sets of frames.                 *)
(***************************************************************************)
Within(q) == {Contents(q)[i] : i \in 1 .. Count(q)}

\* Nothing is in the queue twice, or not the event e.
OnceAtMost(q, e) ==
    \A i, j \in 1 .. Count(q) : Contents(q)[i] = e /\ Contents(q)[j] = e => i = j

Frames(s) == {s[i] : i \in 1 .. Len(s)}

LastOf(s) == s[Len(s)]

\* The stack with the last frame in another place of its code.
Retopped(s, op) == [s EXCEPT ![Len(s)] = [op |-> op, event |-> LastOf(s).event]]

\* A queue that is empty holds nothing, and the other way round.
LEMMA NothingWithin ==
    ASSUME NEW S, NEW q, WellFormed(q, S)
    PROVE  /\ IsEmpty(q) <=> Within(q) = {}
           /\ Contents(q) = <<>> <=> Within(q) = {}
           /\ Within(q) \subseteq S
<1>1. /\ Contents(q) \in Seq(S) /\ Count(q) \in Nat /\ Len(Contents(q)) = Count(q)
      /\ DOMAIN Contents(q) = 1 .. Count(q)
  BY ContentsType
<1>2. Contents(q) = <<>> <=> Count(q) = 0
  BY <1>1, EmptySeq
<1>3. Within(q) = {} <=> Count(q) = 0
  <2>1. CASE Count(q) = 0
    BY <2>1 DEF Within
  <2>2. CASE Count(q) # 0
    <3>1. 1 \in 1 .. Count(q)
      BY <1>1, <2>2
    <3> QED
      BY <2>2, <3>1 DEF Within
  <2> QED
    BY <2>1, <2>2
<1>4. Within(q) \subseteq S
  <2>1. \A i \in 1 .. Count(q) : Contents(q)[i] \in S
    BY <1>1, ElementOfSeq
  <2> QED
    BY <2>1 DEF Within
<1> QED
  BY <1>2, <1>3, <1>4, EmptyMeansEmpty

\* PutEvent adds its event, and only once.
LEMMA PutWithin ==
    ASSUME NEW S, NEW q, WellFormed(q, S), NEW e \in S
    PROVE  /\ WellFormed(PutEvent(q, e), S)
           /\ Within(PutEvent(q, e)) = Within(q) \cup {e}
           /\ \A x : OnceAtMost(q, x) /\ (x = e => x \notin Within(q))
                        => OnceAtMost(PutEvent(q, e), x)
<1> DEFINE p == PutEvent(q, e)
           c == Contents(q)
           d == Contents(p)
<1>1. WellFormed(p, S) /\ d = Append(c, e)
  BY PutAppends
<1>2. c \in Seq(S) /\ Count(q) \in Nat /\ Len(c) = Count(q)
  BY ContentsType
<1>3. Len(d) = Count(p) /\ Count(p) \in Nat
  BY <1>1, ContentsType
<1> HIDE DEF p, c, d
<1>4. /\ Count(p) = Count(q) + 1
      /\ \A i \in 1 .. Count(q) : d[i] = c[i]
      /\ d[Count(q) + 1] = e
  BY <1>1, <1>2, <1>3, AppendProperties
<1>5. 1 .. Count(p) = (1 .. Count(q)) \cup {Count(q) + 1}
  BY <1>2, <1>4
<1>6. Within(p) = {d[i] : i \in 1 .. Count(p)} /\ Within(q) = {c[i] : i \in 1 .. Count(q)}
  BY DEF Within, c, d
<1>7. Within(p) = Within(q) \cup {e}
  BY <1>4, <1>5, <1>6
<1>8. ASSUME NEW x, OnceAtMost(q, x), x = e => x \notin Within(q)
      PROVE  OnceAtMost(p, x)
  <2>1. SUFFICES ASSUME NEW i \in 1 .. Count(p), NEW j \in 1 .. Count(p), d[i] = x, d[j] = x
                 PROVE  i = j
    BY DEF OnceAtMost, d
  <2>2. CASE i \in 1 .. Count(q) /\ j \in 1 .. Count(q)
    BY <1>4, <1>8, <2>1, <2>2 DEF OnceAtMost, c
  <2>3. CASE i = Count(q) + 1 /\ j = Count(q) + 1
    BY <2>3
  <2>4. CASE i = Count(q) + 1 /\ j \in 1 .. Count(q)
    BY <1>4, <1>6, <1>8, <2>1, <2>4
  <2>5. CASE j = Count(q) + 1 /\ i \in 1 .. Count(q)
    BY <1>4, <1>6, <1>8, <2>1, <2>5
  <2> QED
    BY <1>5, <2>2, <2>3, <2>4, <2>5
<1> QED
  BY <1>1, <1>7, <1>8 DEF p

\* GetEvent removes one occurrence of the event it returns.
LEMMA GetWithin ==
    ASSUME NEW S, NEW q, WellFormed(q, S), ~IsEmpty(q)
    PROVE  /\ WellFormed(GetEvent(q), S)
           /\ NextEvent(q) \in S /\ NextEvent(q) \in Within(q)
           /\ Within(GetEvent(q)) \subseteq Within(q)
           /\ Within(q) \subseteq Within(GetEvent(q)) \cup {NextEvent(q)}
           /\ \A x : OnceAtMost(q, x) => OnceAtMost(GetEvent(q), x)
           /\ OnceAtMost(q, NextEvent(q)) => NextEvent(q) \notin Within(GetEvent(q))
<1> DEFINE g == GetEvent(q)
           h == NextEvent(q)
           c == Contents(q)
           d == Contents(g)
<1>1. WellFormed(g, S) /\ d = Tail(c) /\ h = Head(c)
  BY GetTakes
<1>2. /\ c \in Seq(S) /\ Count(q) \in Nat /\ Len(c) = Count(q) /\ c # <<>>
  BY ContentsType, EmptyMeansEmpty
<1>3. Len(d) = Count(g) /\ Count(g) \in Nat
  BY <1>1, ContentsType
<1> HIDE DEF g, h, c, d
<1>4. /\ h = c[1] /\ Count(g) = Count(q) - 1
      /\ \A i \in 1 .. Count(g) : d[i] = c[i + 1]
  BY <1>1, <1>2, <1>3, HeadTailProperties
<1>5. /\ 1 \in 1 .. Count(q)
      /\ \A i \in 1 .. Count(g) : i + 1 \in 1 .. Count(q) /\ i + 1 # 1
      /\ \A i \in 1 .. Count(q) : i # 1 => i - 1 \in 1 .. Count(g) /\ (i - 1) + 1 = i
  BY <1>2, <1>3, <1>4
<1>6. Within(g) = {d[i] : i \in 1 .. Count(g)} /\ Within(q) = {c[i] : i \in 1 .. Count(q)}
  BY DEF Within, c, d
<1>7. h \in Within(q) /\ h \in S
  BY <1>2, <1>4, <1>5, <1>6, ElementOfSeq
<1>8. Within(g) \subseteq Within(q)
  BY <1>4, <1>5, <1>6
<1>9. Within(q) \subseteq Within(g) \cup {h}
  <2>1. SUFFICES ASSUME NEW i \in 1 .. Count(q), c[i] # h
                 PROVE  c[i] \in Within(g)
    BY <1>6
  <2>2. i # 1
    BY <1>4, <2>1
  <2> QED
    BY <1>4, <1>5, <1>6, <2>2
<1>10. ASSUME NEW x, OnceAtMost(q, x)
       PROVE  OnceAtMost(g, x)
  <2>1. SUFFICES ASSUME NEW i \in 1 .. Count(g), NEW j \in 1 .. Count(g), d[i] = x, d[j] = x
                 PROVE  i = j
    BY DEF OnceAtMost, d
  <2>2. i + 1 = j + 1
    BY <1>4, <1>5, <1>10, <2>1 DEF OnceAtMost, c
  <2> QED
    BY <2>2
<1>11. ASSUME OnceAtMost(q, h)
       PROVE  h \notin Within(g)
  <2>1. SUFFICES ASSUME NEW i \in 1 .. Count(g), d[i] = h
                 PROVE  FALSE
    BY <1>6
  <2>2. i + 1 = 1
    BY <1>4, <1>5, <1>11, <2>1 DEF OnceAtMost, c
  <2> QED
    BY <1>5, <2>2
<1> QED
  BY <1>1, <1>7, <1>8, <1>9, <1>10, <1>11 DEF g, h

\* A frame is pushed.
LEMMA Pushed ==
    ASSUME NEW s \in Seq(Frame), NEW f \in Frame
    PROVE  /\ Append(s, f) \in Seq(Frame) /\ Append(s, f) # <<>>
           /\ LastOf(Append(s, f)) = f
           /\ Frames(Append(s, f)) = Frames(s) \cup {f}
<1> DEFINE r == Append(s, f)
<1>1. /\ r \in Seq(Frame) /\ r # <<>> /\ Len(r) = Len(s) + 1 /\ Len(s) \in Nat
      /\ \A i \in 1 .. Len(s) : r[i] = s[i]
      /\ r[Len(s) + 1] = f
  BY AppendProperties, LenProperties
<1> HIDE DEF r
<1>2. 1 .. Len(r) = (1 .. Len(s)) \cup {Len(s) + 1}
  BY <1>1
<1>3. Frames(r) = Frames(s) \cup {f}
  BY <1>1, <1>2 DEF Frames
<1>4. LastOf(r) = f
  BY <1>1 DEF LastOf
<1> QED
  BY <1>1, <1>3, <1>4 DEF r

\* The last frame is popped.
LEMMA Popped ==
    ASSUME NEW s \in Seq(Frame), s # <<>>
    PROVE  LET p == SubSeq(s, 1, Len(s) - 1)
           IN  /\ p \in Seq(Frame)
               /\ Frames(p) \subseteq Frames(s)
               /\ Frames(s) \subseteq Frames(p) \cup {LastOf(s)}
<1> DEFINE p == SubSeq(s, 1, Len(s) - 1)
<1>1. Len(s) \in Nat \ {0}
  BY EmptySeq, LenProperties
<1>2. /\ p \in Seq(Frame) /\ Len(p) = Len(s) - 1
      /\ \A i \in 1 .. Len(s) - 1 : p[i] = s[i]
  <2> DEFINE n == Len(s) - 1
  <2>1. n \in Nat /\ n \in Int /\ 1 \in Int /\ \A i \in 1 .. n : i \in 1 .. Len(s)
    BY <1>1
  <2>2. \A i \in 1 .. n : s[i] \in Frame
    BY <2>1, ElementOfSeq
  <2> HIDE DEF n
  <2>3. /\ SubSeq(s, 1, n) \in Seq(Frame)
        /\ Len(SubSeq(s, 1, n)) = IF 1 <= n THEN n - 1 + 1 ELSE 0
        /\ \A i \in 1 .. n - 1 + 1 : SubSeq(s, 1, n)[i] = s[1 + i - 1]
    BY <2>1, <2>2, SubSeqProperties
  <2>4. n - 1 + 1 = n /\ (~(1 <= n) => n = 0) /\ \A i \in 1 .. n : 1 + i - 1 = i
    BY <2>1
  <2>5. /\ SubSeq(s, 1, n) \in Seq(Frame) /\ Len(SubSeq(s, 1, n)) = n
        /\ \A i \in 1 .. n : SubSeq(s, 1, n)[i] = s[i]
    BY <2>3, <2>4
  <2> QED
    BY <2>5 DEF n
<1> HIDE DEF p
<1>3. 1 .. Len(s) = (1 .. Len(p)) \cup {Len(s)}
  BY <1>1, <1>2
<1>4. Frames(p) \subseteq Frames(s)
  BY <1>2, <1>3 DEF Frames
<1>5. Frames(s) \subseteq Frames(p) \cup {LastOf(s)}
  BY <1>2, <1>3 DEF Frames, LastOf
<1> QED
  BY <1>2, <1>4, <1>5 DEF p

\* The last frame is on the stack.
LEMMA LastIsOn ==
    ASSUME NEW s \in Seq(Frame), s # <<>>
    PROVE  LastOf(s) \in Frames(s) /\ LastOf(s) \in Frame
<1>1. Len(s) \in 1 .. Len(s)
  BY EmptySeq, LenProperties
<1> QED
  BY <1>1, ElementOfSeq DEF Frames, LastOf

\* The last frame moves on.
LEMMA TopMoved ==
    ASSUME NEW s \in Seq(Frame), s # <<>>, NEW op,
           op \in {"run", "reply", "sync", "wait", "shutdown", "init"}
    PROVE  LET f == [op |-> op, event |-> LastOf(s).event]
           IN  /\ Retopped(s, op) \in Seq(Frame) /\ Retopped(s, op) # <<>>
               /\ LastOf(Retopped(s, op)) = f /\ f \in Frame
               /\ Frames(Retopped(s, op)) \subseteq Frames(s) \cup {f}
               /\ f \in Frames(Retopped(s, op))
               /\ Frames(s) \subseteq Frames(Retopped(s, op)) \cup {LastOf(s)}
<1> DEFINE f == [op |-> op, event |-> LastOf(s).event]
           r == Retopped(s, op)
<1>1. Len(s) \in Nat \ {0} /\ Len(s) \in 1 .. Len(s)
  BY EmptySeq, LenProperties
<1>2. f \in Frame
  BY LastIsOn DEF Frame
<1>3. r = [s EXCEPT ![Len(s)] = f]
  BY DEF Retopped
<1> HIDE DEF f, r
<1>4. /\ r \in Seq(Frame) /\ Len(r) = Len(s)
      /\ \A i \in 1 .. Len(s) : r[i] = IF i = Len(s) THEN f ELSE s[i]
  BY <1>1, <1>2, <1>3, ExceptSeq
<1>5. r # <<>>
  BY <1>1, <1>4, EmptySeq
<1>6. LastOf(r) = f /\ f \in Frames(r)
  BY <1>1, <1>4 DEF LastOf, Frames
<1>7. Frames(r) \subseteq Frames(s) \cup {f}
  BY <1>4 DEF Frames
<1>8. Frames(s) \subseteq Frames(r) \cup {LastOf(s)}
  BY <1>4 DEF Frames, LastOf
<1> QED
  BY <1>2, <1>4, <1>5, <1>6, <1>7, <1>8 DEF f, r


-----------------------------------------------------------------------------
(***************************************************************************)
(* The state of one thread.                                                *)
(***************************************************************************)
Ended == {"doomed", "ended", "joined"}

\* The variables have their types, and every queue is one that its operations leave.
Typed == TypeOK /\ \A t \in Threads : WellFormed(mEvents[t], Event)

\* What the place of a thread in ThreadFunc says of its other fields.
Placed(t) ==
    /\ mEventsAreDoomed[t] <=> pc[t] \in Ended
    /\ mEventsAreDoomed[t] => Within(mEvents[t]) = {}
    /\ pc[t] \notin {"loop", "drain"} => stack[t] = <<>>
    /\ pc[t] \in {"drain", "doomed"} => mShutdownContext[t] # None
    /\ mShutdownContext[t] \in {None, Main}
    /\ pc[t] \in {"none", "starting"} => owed[t] = {}

\* The thread that starts is the one that Init, on the main thread, waits for.
Awaited(t) ==
    pc[t] = "starting" =>
        /\ stack[Main] # <<>>
        /\ LastOf(stack[Main]).op = "init"
        /\ LastOf(stack[Main]).event = SystemEvent("startup", t)

Places ==
    /\ pc[Main] = "loop" /\ mShutdownContext[Main] = None
    /\ \A t \in Threads : Placed(t)
    /\ \A t \in Threads : Awaited(t)

Base == Typed /\ Places

\* The frames that the invariants below speak of.
Firm(s) == {f \in Frames(s) : f.op \in {"run", "reply", "shutdown"}}

(***************************************************************************)
(* What a step does to the queues and to the stacks.                       *)
(***************************************************************************)
QueuesTyped(queues) ==
    /\ queues \in [Threads -> Queue(Event)]
    /\ \A v \in Threads : WellFormed(queues[v], Event)

Put(m, n, u, e) ==
    /\ QueuesTyped(n)
    /\ \A v \in Threads \ {u} : n[v] = m[v]
    /\ Contents(n[u]) = Append(Contents(m[u]), e)
    /\ \A x : x \in Within(n[u]) <=> x \in Within(m[u]) \/ x = e
    /\ \A x : OnceAtMost(m[u], x) /\ (x = e => x \notin Within(m[u])) => OnceAtMost(n[u], x)

Got(m, n, u, h) ==
    /\ QueuesTyped(n)
    /\ \A v \in Threads \ {u} : n[v] = m[v]
    /\ Contents(m[u]) # <<>> /\ Contents(n[u]) = Tail(Contents(m[u]))
    /\ h \in Event /\ h \in Within(m[u])
    /\ \A x \in Within(n[u]) : x \in Within(m[u])
    /\ \A x \in Within(m[u]) : x \in Within(n[u]) \/ x = h
    /\ \A x : OnceAtMost(m[u], x) => OnceAtMost(n[u], x)
    /\ OnceAtMost(m[u], h) => h \notin Within(n[u])

\* Only the stack of u changes, and none of its firm frames.
Same(s, r, u) ==
    /\ r \in [Threads -> Seq(Frame)]
    /\ \A v \in Threads \ {u} : r[v] = s[v]
    /\ \A x : x \in Firm(r[u]) <=> x \in Firm(s[u])

\* Only the stack of u changes, and gets the firm frame f.
Plus(s, r, u, f) ==
    /\ r \in [Threads -> Seq(Frame)]
    /\ \A v \in Threads \ {u} : r[v] = s[v]
    /\ \A x : x \in Firm(r[u]) <=> x \in Firm(s[u]) \/ x = f

\* Only the stack of u changes, and its last frame f goes.
Less(s, r, u, f) ==
    /\ r \in [Threads -> Seq(Frame)]
    /\ \A v \in Threads \ {u} : r[v] = s[v]
    /\ \A x \in Firm(r[u]) : x \in Firm(s[u])
    /\ \A x \in Firm(s[u]) : x \in Firm(r[u]) \/ x = f
    /\ f \in Firm(s[u])

\* Only the stack of u changes, and its last frame f becomes g.
Swap(s, r, u, f, g) ==
    /\ r \in [Threads -> Seq(Frame)]
    /\ \A v \in Threads \ {u} : r[v] = s[v]
    /\ \A x \in Firm(r[u]) : x \in Firm(s[u]) \/ x = g
    /\ \A x \in Firm(s[u]) : x \in Firm(r[u]) \/ x = f
    /\ f \in Firm(s[u]) /\ g \in Firm(r[u])

\* n is m with x for u.
Replaced(m, n, u, x) ==
    /\ n = [v \in Threads |-> n[v]]
    /\ n[u] = x
    /\ \A v \in Threads \ {u} : n[v] = m[v]

\* One queue gets an event.
LEMMA PutTyped ==
    ASSUME NEW m, QueuesTyped(m), NEW u \in Threads, NEW e \in Event,
           NEW n, Replaced(m, n, u, PutEvent(m[u], e))
    PROVE  Put(m, n, u, e)
<1> DEFINE p == PutEvent(m[u], e)
<1>1. WellFormed(m[u], Event)
  BY DEF QueuesTyped
<1>2. /\ WellFormed(p, Event)
      /\ Within(p) = Within(m[u]) \cup {e}
      /\ \A x : OnceAtMost(m[u], x) /\ (x = e => x \notin Within(m[u])) => OnceAtMost(p, x)
  BY <1>1, PutWithin
<1>3. p \in Queue(Event)
  BY <1>2 DEF WellFormed
<1>4. Contents(p) = Append(Contents(m[u]), e)
  BY <1>1, PutAppends
<1> HIDE DEF p
<1>5. n[u] = p /\ \A v \in Threads \ {u} : n[v] = m[v]
  BY DEF Replaced, p
<1>6. n \in [Threads -> Queue(Event)]
  <2>1. \A v \in Threads : n[v] \in Queue(Event)
    BY <1>3, <1>5 DEF QueuesTyped
  <2> QED
    BY <2>1 DEF Replaced
<1>7. ASSUME NEW v \in Threads PROVE WellFormed(n[v], Event)
  <2>1. CASE v = u
    BY <1>2, <1>5, <2>1
  <2>2. CASE v # u
    BY <1>5, <2>2 DEF QueuesTyped
  <2> QED
    BY <2>1, <2>2
<1>8. QueuesTyped(n)
  BY <1>6, <1>7 DEF QueuesTyped
<1> QED
  BY <1>2, <1>4, <1>5, <1>8 DEF Put

\* An event is taken from one queue.
LEMMA GotTyped ==
    ASSUME NEW m, QueuesTyped(m), NEW u \in Threads, ~IsEmpty(m[u]),
           NEW n, Replaced(m, n, u, GetEvent(m[u]))
    PROVE  Got(m, n, u, NextEvent(m[u]))
<1> DEFINE p == GetEvent(m[u])
           h == NextEvent(m[u])
<1>1. WellFormed(m[u], Event)
  BY DEF QueuesTyped
<1>2. /\ WellFormed(p, Event)
      /\ h \in Event /\ h \in Within(m[u])
      /\ Within(p) \subseteq Within(m[u])
      /\ Within(m[u]) \subseteq Within(p) \cup {h}
      /\ \A x : OnceAtMost(m[u], x) => OnceAtMost(p, x)
      /\ OnceAtMost(m[u], h) => h \notin Within(p)
  BY <1>1, GetWithin
<1>3. p \in Queue(Event)
  BY <1>2 DEF WellFormed
<1>4. Contents(p) = Tail(Contents(m[u])) /\ Contents(m[u]) # <<>>
  BY <1>1, GetTakes, EmptyMeansEmpty
<1> HIDE DEF p, h
<1>5. n[u] = p /\ \A v \in Threads \ {u} : n[v] = m[v]
  BY DEF Replaced, p
<1>6. n \in [Threads -> Queue(Event)]
  <2>1. \A v \in Threads : n[v] \in Queue(Event)
    BY <1>3, <1>5 DEF QueuesTyped
  <2> QED
    BY <2>1 DEF Replaced
<1>7. ASSUME NEW v \in Threads PROVE WellFormed(n[v], Event)
  <2>1. CASE v = u
    BY <1>2, <1>5, <2>1
  <2>2. CASE v # u
    BY <1>5, <2>2 DEF QueuesTyped
  <2> QED
    BY <2>1, <2>2
<1>8. QueuesTyped(n)
  BY <1>6, <1>7 DEF QueuesTyped
<1> QED
  BY <1>2, <1>4, <1>5, <1>8 DEF Got, h


\* A frame is pushed on one stack.
LEMMA FramePushed ==
    ASSUME NEW s \in [Threads -> Seq(Frame)], NEW t \in Threads, NEW f \in Frame,
           NEW r, Replaced(s, r, t, Append(s[t], f))
    PROVE  /\ f.op \in {"run", "reply", "shutdown"} => Plus(s, r, t, f)
           /\ f.op \notin {"run", "reply", "shutdown"} => Same(s, r, t)
           /\ r[t] # <<>> /\ LastOf(r[t]) = f
<1> DEFINE a == Append(s[t], f)
<1>1. a \in Seq(Frame) /\ a # <<>> /\ LastOf(a) = f /\ Frames(a) = Frames(s[t]) \cup {f}
  BY Pushed
<1> HIDE DEF a
<1>2. /\ r \in [Threads -> Seq(Frame)] /\ r[t] = a
      /\ \A v \in Threads \ {t} : r[v] = s[v]
  <2>1. r[t] = a /\ \A v \in Threads \ {t} : r[v] = s[v]
    BY DEF Replaced, a
  <2>2. \A v \in Threads : r[v] \in Seq(Frame)
    BY <1>1, <2>1
  <2> QED
    BY <2>1, <2>2 DEF Replaced
<1> QED
  BY <1>1, <1>2 DEF Plus, Same, Firm

\* A frame is popped from one stack.
LEMMA FramePopped ==
    ASSUME NEW s \in [Threads -> Seq(Frame)], NEW t \in Threads, s[t] # <<>>,
           NEW r, Replaced(s, r, t, SubSeq(s[t], 1, Len(s[t]) - 1))
    PROVE  /\ LastOf(s[t]).op \in {"run", "reply", "shutdown"} => Less(s, r, t, LastOf(s[t]))
           /\ LastOf(s[t]).op \notin {"run", "reply", "shutdown"} => Same(s, r, t)
<1> DEFINE p == SubSeq(s[t], 1, Len(s[t]) - 1)
<1>1. /\ p \in Seq(Frame)
      /\ Frames(p) \subseteq Frames(s[t])
      /\ Frames(s[t]) \subseteq Frames(p) \cup {LastOf(s[t])}
  BY Popped
<1>3. LastOf(s[t]) \in Frames(s[t])
  BY LastIsOn
<1> HIDE DEF p
<1>2. /\ r \in [Threads -> Seq(Frame)] /\ r[t] = p
      /\ \A v \in Threads \ {t} : r[v] = s[v]
  <2>1. r[t] = p /\ \A v \in Threads \ {t} : r[v] = s[v]
    BY DEF Replaced, p
  <2>2. \A v \in Threads : r[v] \in Seq(Frame)
    BY <1>1, <2>1
  <2> QED
    BY <2>1, <2>2 DEF Replaced
<1> QED
  BY <1>1, <1>2, <1>3 DEF Less, Same, Firm

\* The last frame of one stack moves on.
LEMMA FrameMoved ==
    ASSUME NEW s \in [Threads -> Seq(Frame)], NEW t \in Threads, s[t] # <<>>,
           NEW op, op \in {"run", "reply", "sync", "wait", "shutdown", "init"},
           NEW r, Replaced(s, r, t, Retopped(s[t], op))
    PROVE  /\ op = "reply" /\ LastOf(s[t]).op = "run" =>
                Swap(s, r, t, LastOf(s[t]), [op |-> op, event |-> LastOf(s[t]).event])
           /\ op \in {"sync", "wait"} /\ LastOf(s[t]).op \in {"sync", "wait"} => Same(s, r, t)
           /\ r[t] # <<>>
<1> DEFINE m == Retopped(s[t], op)
           f == [op |-> op, event |-> LastOf(s[t]).event]
<1>1. /\ m \in Seq(Frame) /\ m # <<>> /\ f \in Frame
      /\ Frames(m) \subseteq Frames(s[t]) \cup {f}
      /\ f \in Frames(m)
      /\ Frames(s[t]) \subseteq Frames(m) \cup {LastOf(s[t])}
  BY TopMoved
<1>2. f.op = op
  OBVIOUS
<1> HIDE DEF m, f
<1>3. /\ r \in [Threads -> Seq(Frame)] /\ r[t] = m
      /\ \A v \in Threads \ {t} : r[v] = s[v]
  <2>1. r[t] = m /\ \A v \in Threads \ {t} : r[v] = s[v]
    BY DEF Replaced, m
  <2>2. \A v \in Threads : r[v] \in Seq(Frame)
    BY <1>1, <2>1
  <2> QED
    BY <2>1, <2>2 DEF Replaced
<1>4. LastOf(s[t]) \in Frames(s[t])
  BY LastIsOn
<1>5. op = "reply" /\ LastOf(s[t]).op = "run" => Swap(s, r, t, LastOf(s[t]), f)
  BY <1>1, <1>2, <1>3, <1>4 DEF Swap, Firm
<1>6. op \in {"sync", "wait"} /\ LastOf(s[t]).op \in {"sync", "wait"} => Same(s, r, t)
  BY <1>1, <1>2, <1>3 DEF Same, Firm
<1> QED
  BY <1>1, <1>3, <1>5, <1>6 DEF f

\* The type of the parts.
LEMMA TypedParts ==
    Typed => /\ QueuesTyped(mEvents)
             /\ stack \in [Threads -> Seq(Frame)]
  BY DEF Typed, TypeOK, QueuesTyped

\* Becomes and Pop, on the stack they change.
LEMMA BecomesIs ==
    ASSUME stack \in [Threads -> Seq(Frame)], NEW t \in Threads, stack[t] # <<>>, NEW op
    PROVE  /\ Becomes(t, op) = [stack EXCEPT ![t] = Retopped(stack[t], op)]
           /\ Becomes(t, op)[t] = Retopped(stack[t], op)
           /\ Pop(t) = [stack EXCEPT ![t] = SubSeq(stack[t], 1, Len(stack[t]) - 1)]
<1>1. LastOf(stack[t]) \in Frame /\ Len(stack[t]) \in 1 .. Len(stack[t])
  BY LastIsOn, EmptySeq, LenProperties
<1>3. Becomes(t, op) = [stack EXCEPT ![t] = Retopped(stack[t], op)]
  <2> DEFINE s == stack[t]
             n == Len(s)
             f == s[n]
  <2>1. Becomes(t, op) = [stack EXCEPT ![t] = [s EXCEPT ![n] = [f EXCEPT !.op = op]]]
    BY DEF Becomes
  <2>2. [f EXCEPT !.op = op] = [op |-> op, event |-> f.event]
    BY <1>1 DEF Frame, LastOf
  <2> HIDE DEF f
  <2>3. Retopped(s, op) = [s EXCEPT ![n] = [op |-> op, event |-> f.event]]
    BY DEF Retopped, LastOf, f
  <2> QED
    BY <2>1, <2>2, <2>3
<1>4. Becomes(t, op)[t] = Retopped(stack[t], op)
  BY <1>3
<1>5. Pop(t) = [stack EXCEPT ![t] = SubSeq(stack[t], 1, Len(stack[t]) - 1)]
  BY DEF Pop
<1> QED
  BY <1>3, <1>4, <1>5

\* The frames of a thread once its ProcessNextEvent returns.
LEMMA ResumedIs ==
    ASSUME stack \in [Threads -> Seq(Frame)], NEW t \in Threads
    PROVE  /\ Resumed(t) \in Seq(Frame)
           /\ Firm(Resumed(t)) = Firm(stack[t])
<1>1. CASE At(t, "wait")
  <2> DEFINE s == stack[t]
             m == Retopped(s, "sync")
             f == [op |-> "sync", event |-> LastOf(s).event]
  <2>1. s # <<>> /\ LastOf(s).op = "wait" /\ s \in Seq(Frame)
    BY <1>1 DEF At, Top, LastOf
  <2>2. Resumed(t) = m
    BY <1>1, <2>1, BecomesIs DEF Resumed
  <2> HIDE DEF s
  <2>3. /\ m \in Seq(Frame)
        /\ Frames(m) \subseteq Frames(s) \cup {f}
        /\ Frames(s) \subseteq Frames(m) \cup {LastOf(s)}
    BY <2>1, TopMoved
  <2>4. f.op = "sync"
    OBVIOUS
  <2> HIDE DEF m, f
  <2>5. Firm(m) = Firm(s)
    BY <2>1, <2>3, <2>4 DEF Firm
  <2> QED
    BY <2>2, <2>3, <2>5 DEF s
<1>2. CASE ~At(t, "wait")
  BY <1>2 DEF Resumed
<1> QED
  BY <1>1, <1>2


\* A thread that can make a step is in one of its event loops.
LEMMA InsideIsLooping ==
    ASSUME Base, NEW t \in Threads, NEW op, At(t, op)
    PROVE  /\ pc[t] \in {"loop", "drain"} /\ ~mEventsAreDoomed[t]
           /\ stack[t] # <<>> /\ LastOf(stack[t]) = Top(t) /\ Top(t).op = op
           /\ Top(t) \in Frame /\ Top(t) \in Frames(stack[t])
<1>1. stack[t] # <<>> /\ LastOf(stack[t]) = Top(t) /\ Top(t).op = op
  BY DEF At, Top, LastOf
<1>2. Placed(t) /\ stack[t] \in Seq(Frame)
  BY DEF Base, Places, Typed, TypeOK
<1>3. pc[t] \in {"loop", "drain"} /\ ~mEventsAreDoomed[t]
  BY <1>1, <1>2 DEF Placed, Ended
<1>4. Top(t) \in Frame /\ Top(t) \in Frames(stack[t])
  BY <1>1, <1>2, LastIsOn
<1> QED
  BY <1>1, <1>3, <1>4

\* Nothing starts while Init does not wait.
LEMMA NothingStarts ==
    ASSUME Base, stack[Main] # <<>> => LastOf(stack[Main]).op # "init"
    PROVE  \A v \in Threads : pc[v] # "starting"
  BY DEF Base, Places, Awaited

\* A step that changes queues and frames only leaves every thread where it is.
LEMMA PlacesKept ==
    ASSUME Base, NEW t \in Threads, pc' = pc, mEventsAreDoomed' = mEventsAreDoomed,
           mShutdownContext' = mShutdownContext,
           \A v \in Threads : mEventsAreDoomed[v] => Within(mEvents'[v]) \subseteq Within(mEvents[v]),
           \A v \in Threads \ {t} : stack'[v] = stack[v],
           \/ stack'[t] = stack[t]
           \/ pc[t] \in {"loop", "drain"} /\ (stack[t] # <<>> => LastOf(stack[t]).op # "init"),
           \A v \in Threads : owed'[v] \subseteq owed[v] \/ pc[v] \notin {"none", "starting"}
    PROVE  Places'
<1>1. Main \in Threads
  BY BoundsAssumption DEF Main, Threads
<1>2. pc'[Main] = "loop" /\ mShutdownContext'[Main] = None
  BY DEF Base, Places
<1>3. ASSUME NEW v \in Threads PROVE Placed(v)'
  <2>1. Placed(v)
    BY DEF Base, Places
  <2>2. /\ mEventsAreDoomed'[v] <=> pc'[v] \in Ended
        /\ mEventsAreDoomed'[v] => Within(mEvents'[v]) = {}
    BY <2>1 DEF Placed
  <2>3. pc'[v] \notin {"loop", "drain"} => stack'[v] = <<>>
    BY <2>1 DEF Placed
  <2>4. /\ pc'[v] \in {"drain", "doomed"} => mShutdownContext'[v] # None
        /\ mShutdownContext'[v] \in {None, Main}
        /\ pc'[v] \in {"none", "starting"} => owed'[v] = {}
    BY <2>1 DEF Placed
  <2> QED
    BY <2>2, <2>3, <2>4 DEF Placed
<1>4. ASSUME NEW v \in Threads PROVE Awaited(v)'
  <2>1. CASE stack'[Main] = stack[Main]
    <3>1. Awaited(v)
      BY DEF Base, Places
    <3> QED
      BY <2>1, <3>1 DEF Awaited
  <2>2. CASE stack'[Main] # stack[Main]
    <3>1. t = Main
      BY <1>1, <2>2
    <3>2. stack[Main] # <<>> => LastOf(stack[Main]).op # "init"
      BY <2>2, <3>1
    <3>3. pc'[v] # "starting"
      BY <3>2, NothingStarts
    <3> QED
      BY <3>3 DEF Awaited
  <2> QED
    BY <2>1, <2>2
<1> QED
  BY <1>2, <1>3, <1>4 DEF Places

\* InitThread
LEMMA InitThreadStep ==
    ASSUME Base, NEW t \in Threads \ {Main}, InitThread(t)
    PROVE  /\ Base'
           /\ Put(mEvents, mEvents', t, SystemEvent("startup", t))
           /\ Same(stack, stack', Main)
<1> DEFINE sent == SystemEvent("startup", t)
           call == [op |-> "init", event |-> sent]
<1>1. sent \in Event /\ call \in Frame /\ call.op = "init" /\ call.event = sent
  BY DEF SystemEvent, Event, Frame
<1>2. Main \in Threads /\ QueuesTyped(mEvents) /\ stack \in [Threads -> Seq(Frame)]
  BY BoundsAssumption, TypedParts DEF Main, Threads, Base
<1>3. Replaced(mEvents, mEvents', t, PutEvent(mEvents[t], sent))
  BY <1>2 DEF InitThread, QueuesTyped, Replaced
<1>4. Replaced(stack, stack', Main, Append(stack[Main], call))
  BY <1>2 DEF InitThread, Push, Replaced
<1> HIDE DEF sent, call
<1>5. Put(mEvents, mEvents', t, sent)
  BY <1>1, <1>2, <1>3, PutTyped
<1>6. Same(stack, stack', Main) /\ stack'[Main] # <<>> /\ LastOf(stack'[Main]) = call
  BY <1>1, <1>2, <1>4, FramePushed
<1>7. Typed'
  BY <1>5, <1>6 DEF Typed, TypeOK, Base, InitThread, Put, QueuesTyped, answers, history, Same
<1>8. /\ pc[Main] = "loop" /\ LastOf(stack[Main]).op = "run"
      /\ pc' = [pc EXCEPT ![t] = "starting"] /\ pc[t] = "none"
      /\ pc \in [Threads -> {"none", "starting", "loop", "drain", "doomed", "ended", "joined"}]
      /\ mShutdownContext' = mShutdownContext /\ mEventsAreDoomed' = mEventsAreDoomed
      /\ owed' = owed
  BY <1>2, InsideIsLooping DEF InitThread, history, Base, Places, Typed, TypeOK
<1>9. pc'[Main] = "loop" /\ mShutdownContext'[Main] = None
  BY <1>2, <1>8 DEF Base, Places
<1>10. ASSUME NEW v \in Threads PROVE Placed(v)'
  <2>1. Placed(v)
    BY DEF Base, Places
  <2>2. CASE v = t
    <3>1. stack'[v] = stack[v]
      BY <1>6, <2>2 DEF Same
    <3>2. pc[v] = "none" /\ pc'[v] = "starting"
      BY <1>8, <2>2
    <3>3. ~mEventsAreDoomed[v]
      BY <2>1, <3>2 DEF Placed, Ended
    <3>4. ~mEventsAreDoomed'[v]
      BY <1>8, <3>3, Zenon
    <3>5. stack'[v] = <<>> /\ owed'[v] = {}
      BY <1>8, <2>1, <3>1, <3>2 DEF Placed
    <3>6. mShutdownContext'[v] \in {None, Main}
      BY <1>8, <2>1 DEF Placed
    <3>7. pc'[v] \notin Ended /\ pc'[v] \notin {"drain", "doomed"}
      BY <3>2 DEF Ended
    <3> QED
      BY <3>4, <3>5, <3>6, <3>7, Zenon DEF Placed
  <2>3. CASE v # t
    <3>1. mEvents'[v] = mEvents[v] /\ pc'[v] = pc[v]
      BY <1>5, <1>8, <2>3 DEF Put
    <3>2. pc[v] \notin {"loop", "drain"} => stack'[v] = stack[v]
      BY <1>6, <1>8 DEF Same
    <3> QED
      BY <1>8, <2>1, <3>1, <3>2 DEF Placed
  <2> QED
    BY <2>2, <2>3
<1>11. ASSUME NEW v \in Threads PROVE Awaited(v)'
  <2>1. CASE v = t
    BY <1>1, <1>6, <2>1 DEF Awaited, sent
  <2>2. CASE v # t
    <3>1. pc[v] # "starting"
      BY <1>8, NothingStarts
    <3> QED
      BY <1>8, <2>2, <3>1 DEF Awaited
  <2> QED
    BY <2>1, <2>2
<1> QED
  BY <1>5, <1>6, <1>7, <1>9, <1>10, <1>11 DEF Base, Places, sent


\* ProcessStartup
LEMMA ProcessStartupStep ==
    ASSUME Base, NEW t \in Threads, ProcessStartup(t)
    PROVE  /\ Base'
           /\ Got(mEvents, mEvents', t, NextEvent(mEvents[t]))
           /\ Same(stack, stack', Main)
<1>1. Main \in Threads /\ QueuesTyped(mEvents) /\ stack \in [Threads -> Seq(Frame)]
  BY BoundsAssumption, TypedParts DEF Main, Threads, Base
<1>2. /\ pc[t] = "starting" /\ pc[Main] = "loop" /\ pc' = [pc EXCEPT ![t] = "loop"]
      /\ pc \in [Threads -> {"none", "starting", "loop", "drain", "doomed", "ended", "joined"}]
      /\ mShutdownContext' = mShutdownContext /\ mEventsAreDoomed' = mEventsAreDoomed
      /\ owed' = owed
  BY DEF ProcessStartup, Base, Places, Typed, TypeOK, history
<1>3. stack[Main] # <<>> /\ LastOf(stack[Main]).op = "init"
      /\ LastOf(stack[Main]).event = SystemEvent("startup", t)
  BY <1>2 DEF Base, Places, Awaited
<1>4. Replaced(mEvents, mEvents', t, GetEvent(mEvents[t])) /\ ~IsEmpty(mEvents[t])
  BY <1>1 DEF ProcessStartup, QueuesTyped, Replaced
<1>5. Got(mEvents, mEvents', t, NextEvent(mEvents[t]))
  BY <1>1, <1>4, GotTyped
<1>6. Replaced(stack, stack', Main, SubSeq(stack[Main], 1, Len(stack[Main]) - 1))
  <2>1. stack' = [stack EXCEPT ![Main] = SubSeq(stack[Main], 1, Len(stack[Main]) - 1)]
    BY <1>1, <1>3, BecomesIs DEF ProcessStartup
  <2> QED
    BY <1>1, <2>1 DEF Replaced
<1>7. Same(stack, stack', Main)
  BY <1>1, <1>3, <1>6, FramePopped
<1>8. Typed'
  BY <1>5, <1>7 DEF Typed, TypeOK, Base, ProcessStartup, Got, QueuesTyped, answers, history, Same
<1>9. pc'[Main] = "loop" /\ mShutdownContext'[Main] = None
  BY <1>1, <1>2 DEF Base, Places
<1>10. ASSUME NEW v \in Threads PROVE Placed(v)'
  <2>1. Placed(v)
    BY DEF Base, Places
  <2>2. CASE v = t
    <3>1. pc[v] = "starting" /\ pc'[v] = "loop"
      BY <1>2, <2>2
    <3>2. ~mEventsAreDoomed[v]
      BY <2>1, <3>1 DEF Placed, Ended
    <3>3. ~mEventsAreDoomed'[v]
      BY <1>2, <3>2, Zenon
    <3>4. mShutdownContext'[v] \in {None, Main}
      BY <1>2, <2>1 DEF Placed
    <3>5. /\ pc'[v] \notin Ended /\ pc'[v] \notin {"drain", "doomed"} /\ pc'[v] \in {"loop", "drain"}
          /\ pc'[v] \notin {"none", "starting"}
      BY <3>1 DEF Ended
    <3> QED
      BY <3>3, <3>4, <3>5, Zenon DEF Placed
  <2>3. CASE v # t
    <3>1. mEvents'[v] = mEvents[v] /\ pc'[v] = pc[v]
      BY <1>2, <1>5, <2>3 DEF Got
    <3>2. pc[v] \notin {"loop", "drain"} => stack'[v] = stack[v]
      BY <1>2, <1>7 DEF Same
    <3> QED
      BY <1>2, <2>1, <3>1, <3>2 DEF Placed
  <2> QED
    BY <2>2, <2>3
<1>11. ASSUME NEW v \in Threads PROVE Awaited(v)'
  <2>1. pc'[v] # "starting"
    <3>1. CASE v = t
      BY <1>2, <3>1
    <3>2. CASE v # t
      <4>1. SystemEvent("startup", v) # SystemEvent("startup", t)
        BY <3>2 DEF SystemEvent
      <4>2. pc[v] # "starting"
        BY <1>3, <4>1 DEF Base, Places, Awaited
      <4> QED
        BY <1>2, <3>2, <4>2
    <3> QED
      BY <3>1, <3>2
  <2> QED
    BY <2>1 DEF Awaited
<1> QED
  BY <1>5, <1>7, <1>8, <1>9, <1>10, <1>11 DEF Base, Places

\* Events of Dispatch have a number within the bound.
LEMMA NextTask ==
    ASSUME Base, NEW t \in Threads, dispatched < MaxTasks, NEW kind \in {"task", "sync"}
    PROVE  /\ dispatched + 1 \in Tasks
           /\ TaskEvent(kind, t, dispatched + 1) \in Event
<1>1. dispatched + 1 \in Tasks
  BY BoundsAssumption DEF Base, Typed, TypeOK, Tasks
<1> QED
  BY <1>1 DEF TaskEvent, Event

\* DispatchFails
LEMMA DispatchFailsStep ==
    ASSUME Base, NEW t \in Threads, NEW u \in Threads, DispatchFails(t, u)
    PROVE  /\ Base'
           /\ mEvents' = mEvents /\ stack' = stack
<1>1. /\ mEvents' = mEvents /\ stack' = stack /\ pc' = pc /\ owed' = owed
      /\ mEventsAreDoomed' = mEventsAreDoomed /\ mShutdownContext' = mShutdownContext
  BY DEF DispatchFails, thread, control
<1>2. Typed'
  BY DEF Base, Typed, TypeOK, DispatchFails, thread, answers, control
<1>3. Places'
  BY <1>1, PlacesKept
<1> QED
  BY <1>1, <1>2, <1>3 DEF Base

\* Accepted, in DispatchNormal and DispatchSync
LEMMA AcceptedStep ==
    ASSUME Base, NEW t \in Threads, NEW u \in Threads, NEW kind \in {"task", "sync"},
           Accepted(t, u, kind)
    PROVE  /\ Put(mEvents, mEvents', u, TaskEvent(kind, t, dispatched + 1))
           /\ ~mEventsAreDoomed[u] /\ pc[u] \notin {"none", "starting"}
           /\ owed' = [owed EXCEPT ![u] = owed[u] \cup {dispatched + 1}]
           /\ owed' \in [Threads -> SUBSET Tasks]
           /\ dispatched' = dispatched + 1 /\ dispatched + 1 \in Tasks
<1> DEFINE sent == TaskEvent(kind, t, dispatched + 1)
<1>1. sent \in Event /\ dispatched + 1 \in Tasks
  BY NextTask DEF Accepted
<1>2. QueuesTyped(mEvents)
  BY TypedParts DEF Base
<1>3. Replaced(mEvents, mEvents', u, PutEvent(mEvents[u], sent))
  BY <1>2 DEF Accepted, QueuesTyped, Replaced
<1> HIDE DEF sent
<1>4. Put(mEvents, mEvents', u, sent)
  BY <1>1, <1>2, <1>3, PutTyped
<1>5. /\ owed' = [owed EXCEPT ![u] = owed[u] \cup {dispatched + 1}]
      /\ dispatched' = dispatched + 1
      /\ ~mEventsAreDoomed[u] /\ pc[u] \notin {"none", "starting"}
  BY DEF Accepted, Known
<1>6. owed' \in [Threads -> SUBSET Tasks]
  BY <1>1, <1>5 DEF Base, Typed, TypeOK
<1> QED
  BY <1>1, <1>4, <1>5, <1>6 DEF sent

\* The facts PlacesKept asks of a Dispatch that was accepted.
LEMMA AcceptedKeeps ==
    ASSUME Base, NEW t \in Threads, NEW u \in Threads, NEW kind \in {"task", "sync"},
           Accepted(t, u, kind)
    PROVE  /\ \A v \in Threads :
                 mEventsAreDoomed[v] => Within(mEvents'[v]) \subseteq Within(mEvents[v])
           /\ \A v \in Threads : owed'[v] \subseteq owed[v] \/ pc[v] \notin {"none", "starting"}
<1>1. /\ Put(mEvents, mEvents', u, TaskEvent(kind, t, dispatched + 1))
      /\ ~mEventsAreDoomed[u] /\ pc[u] \notin {"none", "starting"}
      /\ owed' = [owed EXCEPT ![u] = owed[u] \cup {dispatched + 1}]
  BY AcceptedStep
<1>2. owed \in [Threads -> SUBSET Tasks]
  BY DEF Base, Typed, TypeOK
<1>3. ASSUME NEW v \in Threads, mEventsAreDoomed[v]
      PROVE  Within(mEvents'[v]) \subseteq Within(mEvents[v])
  <2>1. v # u
    BY <1>1, <1>3
  <2>2. mEvents'[v] = mEvents[v]
    BY <1>1, <2>1 DEF Put
  <2> QED
    BY <2>2
<1>4. ASSUME NEW v \in Threads
      PROVE  owed'[v] \subseteq owed[v] \/ pc[v] \notin {"none", "starting"}
  <2>1. CASE v = u
    BY <1>1, <2>1
  <2>2. CASE v # u
    BY <1>1, <1>2, <2>2
  <2> QED
    BY <2>1, <2>2
<1> QED
  BY <1>3, <1>4

\* DispatchNormal
LEMMA DispatchNormalStep ==
    ASSUME Base, NEW t \in Threads, NEW u \in Threads, DispatchNormal(t, u)
    PROVE  Base' /\ stack' = stack
<1>1. Accepted(t, u, "task") /\ stack' = stack /\ mSyncTask' = mSyncTask /\ "task" \in {"task", "sync"}
  BY DEF DispatchNormal
<1>2. /\ Put(mEvents, mEvents', u, TaskEvent("task", t, dispatched + 1))
      /\ owed' \in [Threads -> SUBSET Tasks]
      /\ dispatched' = dispatched + 1 /\ dispatched + 1 \in Tasks
  BY <1>1, AcceptedStep
<1>3. /\ pc' = pc /\ mEventsAreDoomed' = mEventsAreDoomed /\ mShutdownContext' = mShutdownContext
      /\ mShutdownRequired' = mShutdownRequired /\ shutdownAck' = shutdownAck
  BY <1>1 DEF Accepted
<1>4. Typed'
  BY <1>1, <1>2, <1>3 DEF Base, Typed, TypeOK, Put, QueuesTyped, Tasks
<1>5. Places'
  BY <1>1, <1>3, AcceptedKeeps, PlacesKept
<1> QED
  BY <1>1, <1>4, <1>5 DEF Base

\* DispatchSync
LEMMA DispatchSyncStep ==
    ASSUME Base, NEW t \in Threads, NEW u \in Threads, DispatchSync(t, u)
    PROVE  Base' /\ Same(stack, stack', t)
<1> DEFINE call == [op |-> "sync", event |-> TaskEvent("sync", t, dispatched + 1)]
<1>1. /\ Accepted(t, u, "sync") /\ "sync" \in {"task", "sync"} /\ At(t, "run")
      /\ dispatched < MaxTasks
  BY DEF DispatchSync, Accepted
<1>2. /\ Put(mEvents, mEvents', u, TaskEvent("sync", t, dispatched + 1))
      /\ owed' \in [Threads -> SUBSET Tasks]
      /\ dispatched' = dispatched + 1 /\ dispatched + 1 \in Tasks
  BY <1>1, AcceptedStep
<1>3. /\ pc' = pc /\ mEventsAreDoomed' = mEventsAreDoomed /\ mShutdownContext' = mShutdownContext
      /\ mShutdownRequired' = mShutdownRequired /\ shutdownAck' = shutdownAck
      /\ mSyncTask' = mSyncTask \cup {dispatched + 1}
  BY <1>1 DEF Accepted, DispatchSync
<1>4. call \in Frame /\ call.op = "sync"
  <2>1. TaskEvent("sync", t, dispatched + 1) \in Event
    BY <1>1, NextTask
  <2> QED
    BY <2>1 DEF Frame
<1>5. stack \in [Threads -> Seq(Frame)]
  BY TypedParts DEF Base
<1>6. Replaced(stack, stack', t, Append(stack[t], call))
  BY <1>5 DEF DispatchSync, Push, Replaced
<1> HIDE DEF call
<1>7. Same(stack, stack', t)
  BY <1>4, <1>5, <1>6, FramePushed
<1>8. Typed'
  BY <1>1, <1>2, <1>3, <1>7 DEF Base, Typed, TypeOK, Put, QueuesTyped, Tasks, Same
<1>9. Places'
  <2>1. pc[t] \in {"loop", "drain"} /\ LastOf(stack[t]).op # "init"
    BY <1>1, InsideIsLooping
  <2>2. \A v \in Threads \ {t} : stack'[v] = stack[v]
    BY <1>7 DEF Same
  <2> QED
    BY <1>1, <1>3, <2>1, <2>2, AcceptedKeeps, PlacesKept
<1> QED
  BY <1>7, <1>8, <1>9 DEF Base


\* A step of t that moves or pops a frame that is not firm, and does nothing else.
LEMMA FrameStep ==
    ASSUME Base, NEW t \in Threads, Same(stack, stack', t),
           UNCHANGED <<thread, answers, pc, history>>,
           pc[t] \in {"loop", "drain"}, stack[t] # <<>> => LastOf(stack[t]).op # "init"
    PROVE  Base'
<1>1. /\ mEvents' = mEvents /\ pc' = pc /\ owed' = owed /\ dispatched' = dispatched
      /\ mEventsAreDoomed' = mEventsAreDoomed /\ mShutdownContext' = mShutdownContext
      /\ mShutdownRequired' = mShutdownRequired
      /\ shutdownAck' = shutdownAck /\ mSyncTask' = mSyncTask
  BY DEF thread, answers, history
<1>2. Typed'
  BY <1>1 DEF Base, Typed, TypeOK, Same
<1>3. \A v \in Threads \ {t} : stack'[v] = stack[v]
  BY DEF Same
<1>4. Places'
  BY <1>1, <1>3, PlacesKept
<1> QED
  BY <1>2, <1>4 DEF Base

\* ReturnSync
LEMMA ReturnSyncStep ==
    ASSUME Base, NEW t \in Threads, ReturnSync(t)
    PROVE  Base' /\ Same(stack, stack', t)
<1>1. At(t, "sync") /\ stack \in [Threads -> Seq(Frame)]
  BY TypedParts DEF ReturnSync, Base
<1>2. pc[t] \in {"loop", "drain"} /\ stack[t] # <<>> /\ LastOf(stack[t]).op = "sync"
  BY <1>1, InsideIsLooping
<1>3. Replaced(stack, stack', t, SubSeq(stack[t], 1, Len(stack[t]) - 1))
  <2>1. stack' = [stack EXCEPT ![t] = SubSeq(stack[t], 1, Len(stack[t]) - 1)]
    BY <1>1, <1>2, BecomesIs DEF ReturnSync
  <2> QED
    BY <1>1, <2>1 DEF Replaced
<1>4. Same(stack, stack', t)
  BY <1>1, <1>2, <1>3, FramePopped
<1> QED
  BY <1>2, <1>4, FrameStep DEF ReturnSync

\* WaitSync
LEMMA WaitSyncStep ==
    ASSUME Base, NEW t \in Threads, WaitSync(t)
    PROVE  Base' /\ Same(stack, stack', t)
<1>1. At(t, "sync") /\ stack \in [Threads -> Seq(Frame)]
  BY TypedParts DEF WaitSync, Base
<1>2. pc[t] \in {"loop", "drain"} /\ stack[t] # <<>> /\ LastOf(stack[t]).op = "sync"
  BY <1>1, InsideIsLooping
<1>3. Replaced(stack, stack', t, Retopped(stack[t], "wait"))
  <2>1. stack' = [stack EXCEPT ![t] = Retopped(stack[t], "wait")]
    BY <1>1, <1>2, BecomesIs DEF WaitSync
  <2> QED
    BY <1>1, <2>1 DEF Replaced
<1>4. Same(stack, stack', t)
  BY <1>1, <1>2, <1>3, FrameMoved
<1> QED
  BY <1>2, <1>4, FrameStep DEF WaitSync

\* A ProcessNextEvent that returns leaves the firm frames.
LEMMA ResumedStep ==
    ASSUME Base, NEW t \in Threads, stack' = [stack EXCEPT ![t] = Resumed(t)]
    PROVE  Same(stack, stack', t)
<1>1. stack \in [Threads -> Seq(Frame)]
  BY TypedParts DEF Base
<1>2. Resumed(t) \in Seq(Frame) /\ Firm(Resumed(t)) = Firm(stack[t])
  BY <1>1, ResumedIs
<1> QED
  BY <1>1, <1>2 DEF Same

\* PollNothing
LEMMA PollNothingStep ==
    ASSUME Base, NEW t \in Threads, PollNothing(t)
    PROVE  Base' /\ Same(stack, stack', t)
<1>1. pc[t] \in {"loop", "drain"} /\ LastOf(stack[t]).op # "init"
  BY InsideIsLooping DEF PollNothing
<1>2. Same(stack, stack', t)
  BY ResumedStep DEF PollNothing
<1> QED
  BY <1>1, <1>2, FrameStep DEF PollNothing

\* Takes: an event is taken by the innermost loop.
LEMMA TakesStep ==
    ASSUME Base, NEW t \in Threads, NEW kind, Takes(t, kind)
    PROVE  /\ Got(mEvents, mEvents', t, NextEvent(mEvents[t]))
           /\ NextEvent(mEvents[t]).kind = kind
           /\ pc[t] \in {"loop", "drain"} /\ (stack[t] # <<>> => LastOf(stack[t]).op # "init")
           /\ \A v \in Threads : Within(mEvents'[v]) \subseteq Within(mEvents[v])
<1>1. QueuesTyped(mEvents)
  BY TypedParts DEF Base
<1>2. Replaced(mEvents, mEvents', t, GetEvent(mEvents[t])) /\ ~IsEmpty(mEvents[t])
  BY <1>1 DEF Takes, QueuesTyped, Replaced
<1>3. Got(mEvents, mEvents', t, NextEvent(mEvents[t]))
  BY <1>1, <1>2, GotTyped
<1>4. InEventLoop(t) /\ NextEvent(mEvents[t]).kind = kind
  BY DEF Takes
<1>5. pc[t] \in {"loop", "drain"} /\ (stack[t] # <<>> => LastOf(stack[t]).op # "init")
  <2>1. CASE stack[t] = <<>> /\ pc[t] \in {"loop", "drain"}
    BY <2>1
  <2>2. CASE At(t, "wait")
    BY <2>2, InsideIsLooping
  <2>3. CASE At(t, "shutdown")
    BY <2>3, InsideIsLooping
  <2> QED
    BY <1>4, <2>1, <2>2, <2>3 DEF InEventLoop
<1>6. ASSUME NEW v \in Threads PROVE Within(mEvents'[v]) \subseteq Within(mEvents[v])
  <2>1. CASE v = t
    BY <1>3, <2>1 DEF Got
  <2>2. CASE v # t
    BY <1>3, <2>2 DEF Got
  <2> QED
    BY <2>1, <2>2
<1> QED
  BY <1>3, <1>4, <1>5, <1>6

\* A runnable that was taken runs.
LEMMA RunningStep ==
    ASSUME Base, NEW t \in Threads, NextEvent(mEvents[t]) \in Event, stack' = Running(t)
    PROVE  Plus(stack, stack', t, [op |-> "run", event |-> NextEvent(mEvents[t])])
<1> DEFINE call == [op |-> "run", event |-> NextEvent(mEvents[t])]
           r == Resumed(t)
<1>1. stack \in [Threads -> Seq(Frame)]
  BY TypedParts DEF Base
<1>2. r \in Seq(Frame) /\ Firm(r) = Firm(stack[t])
  BY <1>1, ResumedIs
<1>3. call \in Frame /\ call.op = "run"
  BY DEF Frame
<1>4. stack' = [stack EXCEPT ![t] = Append(r, call)]
  BY DEF Running
<1> HIDE DEF call, r
<1>5. Append(r, call) \in Seq(Frame) /\ Frames(Append(r, call)) = Frames(r) \cup {call}
  BY <1>2, <1>3, Pushed
<1>6. stack' \in [Threads -> Seq(Frame)] /\ stack'[t] = Append(r, call)
      /\ \A v \in Threads \ {t} : stack'[v] = stack[v]
  BY <1>1, <1>4, <1>5
<1>7. \A x : x \in Firm(stack'[t]) <=> x \in Firm(stack[t]) \/ x = call
  BY <1>2, <1>3, <1>5, <1>6 DEF Firm
<1> QED
  BY <1>6, <1>7 DEF Plus, call

\* The base of every step that takes an event and leaves mShutdownContext.
LEMMA TakesKeeps ==
    ASSUME Base, NEW t \in Threads, NEW kind, Takes(t, kind),
           mShutdownContext' = mShutdownContext, shutdownAck' \subseteq Threads,
           stack' \in [Threads -> Seq(Frame)], \A v \in Threads \ {t} : stack'[v] = stack[v]
    PROVE  Base'
<1>1. /\ Got(mEvents, mEvents', t, NextEvent(mEvents[t]))
      /\ pc[t] \in {"loop", "drain"} /\ (stack[t] # <<>> => LastOf(stack[t]).op # "init")
      /\ \A v \in Threads : Within(mEvents'[v]) \subseteq Within(mEvents[v])
  BY TakesStep
<1>2. /\ pc' = pc /\ owed' = owed /\ dispatched' = dispatched
      /\ mEventsAreDoomed' = mEventsAreDoomed
      /\ mShutdownRequired' = mShutdownRequired /\ mSyncTask' = mSyncTask
  BY DEF Takes, history
<1>3. Typed'
  BY <1>1, <1>2 DEF Base, Typed, TypeOK, Got, QueuesTyped
<1>4. Places'
  BY <1>1, <1>2, PlacesKept
<1> QED
  BY <1>3, <1>4 DEF Base

\* RunTask
LEMMA RunTaskStep ==
    ASSUME Base, NEW t \in Threads, RunTask(t)
    PROVE  Base' /\ Plus(stack, stack', t, [op |-> "run", event |-> NextEvent(mEvents[t])])
<1>1. /\ Takes(t, "task") /\ stack' = Running(t)
      /\ mShutdownContext' = mShutdownContext /\ shutdownAck' = shutdownAck
  BY DEF RunTask
<1>2. NextEvent(mEvents[t]) \in Event
  BY <1>1, TakesStep DEF Got
<1>3. Plus(stack, stack', t, [op |-> "run", event |-> NextEvent(mEvents[t])])
  BY <1>1, <1>2, RunningStep
<1>4. shutdownAck' \subseteq Threads
  BY <1>1 DEF Base, Typed, TypeOK
<1>5. stack' \in [Threads -> Seq(Frame)] /\ \A v \in Threads \ {t} : stack'[v] = stack[v]
  BY <1>3 DEF Plus
<1>6. Base'
  BY <1>1, <1>4, <1>5, TakesKeeps
<1> QED
  BY <1>3, <1>6

\* RunSync
LEMMA RunSyncStep ==
    ASSUME Base, NEW t \in Threads, RunSync(t)
    PROVE  /\ Base'
           /\ \/ /\ NextEvent(mEvents[t]).task \in mSyncTask
                 /\ Plus(stack, stack', t, [op |-> "run", event |-> NextEvent(mEvents[t])])
              \/ /\ NextEvent(mEvents[t]).task \notin mSyncTask
                 /\ Same(stack, stack', t)
<1>1. /\ Takes(t, "sync")
      /\ mShutdownContext' = mShutdownContext /\ shutdownAck' = shutdownAck
  BY DEF RunSync
<1>2. NextEvent(mEvents[t]) \in Event
  BY <1>1, TakesStep DEF Got
<1>3. shutdownAck' \subseteq Threads
  BY <1>1 DEF Base, Typed, TypeOK
<1>4. CASE NextEvent(mEvents[t]).task \in mSyncTask
  <2>1. stack' = Running(t)
    BY <1>4 DEF RunSync
  <2>2. Plus(stack, stack', t, [op |-> "run", event |-> NextEvent(mEvents[t])])
    BY <1>2, <2>1, RunningStep
  <2>3. stack' \in [Threads -> Seq(Frame)] /\ \A v \in Threads \ {t} : stack'[v] = stack[v]
    BY <2>2 DEF Plus
  <2>4. Base'
    BY <1>1, <1>3, <2>3, TakesKeeps
  <2> QED
    BY <1>4, <2>2, <2>4
<1>5. CASE NextEvent(mEvents[t]).task \notin mSyncTask
  <2>1. stack' = [stack EXCEPT ![t] = Resumed(t)]
    BY <1>5 DEF RunSync
  <2>2. Same(stack, stack', t)
    BY <2>1, ResumedStep
  <2>3. stack' \in [Threads -> Seq(Frame)] /\ \A v \in Threads \ {t} : stack'[v] = stack[v]
    BY <2>2 DEF Same
  <2>4. Base'
    BY <1>1, <1>3, <2>3, TakesKeeps
  <2> QED
    BY <1>5, <2>2, <2>4
<1> QED
  BY <1>4, <1>5

\* RunShutdownAck
LEMMA RunShutdownAckStep ==
    ASSUME Base, NEW t \in Threads, RunShutdownAck(t)
    PROVE  Base' /\ Same(stack, stack', t)
<1>1. /\ Takes(t, "ack") /\ stack' = [stack EXCEPT ![t] = Resumed(t)]
      /\ mShutdownContext' = mShutdownContext
      /\ shutdownAck' = shutdownAck \cup {NextEvent(mEvents[t]).thread}
  BY DEF RunShutdownAck
<1>2. NextEvent(mEvents[t]) \in Event
  BY <1>1, TakesStep DEF Got
<1>3. NextEvent(mEvents[t]).thread \in Threads
  BY <1>2 DEF Event
<1>4. shutdownAck' \subseteq Threads
  BY <1>1, <1>3 DEF Base, Typed, TypeOK
<1>5. Same(stack, stack', t)
  BY <1>1, ResumedStep
<1>6. stack' \in [Threads -> Seq(Frame)] /\ \A v \in Threads \ {t} : stack'[v] = stack[v]
  BY <1>5 DEF Same
<1>7. Base'
  BY <1>1, <1>4, <1>6, TakesKeeps
<1> QED
  BY <1>5, <1>7


\* RunShutdownEvent, of an event that Shutdown sent to another thread than its own
LEMMA RunShutdownEventStep ==
    ASSUME Base, NEW t \in Threads, RunShutdownEvent(t), t # Main,
           NextEvent(mEvents[t]).thread = Main
    PROVE  /\ Base' /\ Same(stack, stack', t)
           /\ mShutdownContext' = [mShutdownContext EXCEPT ![t] = Main]
<1>1. /\ Takes(t, "shutdown") /\ stack' = [stack EXCEPT ![t] = Resumed(t)]
      /\ mShutdownContext' = [mShutdownContext EXCEPT ![t] = Main]
      /\ shutdownAck' = shutdownAck
  BY DEF RunShutdownEvent
<1>2. /\ Got(mEvents, mEvents', t, NextEvent(mEvents[t]))
      /\ pc[t] \in {"loop", "drain"} /\ (stack[t] # <<>> => LastOf(stack[t]).op # "init")
      /\ \A v \in Threads : Within(mEvents'[v]) \subseteq Within(mEvents[v])
  BY <1>1, TakesStep
<1>3. Same(stack, stack', t)
  BY <1>1, ResumedStep
<1>4. /\ pc' = pc /\ owed' = owed /\ dispatched' = dispatched
      /\ mEventsAreDoomed' = mEventsAreDoomed
      /\ mShutdownRequired' = mShutdownRequired /\ mSyncTask' = mSyncTask
  BY <1>1 DEF Takes, history
<1>5. Main \in Threads /\ mShutdownContext \in [Threads -> Threads \cup {None}] /\ Main # None
  BY BoundsAssumption, NoneAssumption DEF Main, Threads, Base, Typed, TypeOK
<1>6. Typed'
  BY <1>1, <1>2, <1>3, <1>4, <1>5 DEF Base, Typed, TypeOK, Got, QueuesTyped, Same
<1>7. pc'[Main] = "loop" /\ mShutdownContext'[Main] = None
  BY <1>1, <1>4, <1>5 DEF Base, Places
<1>8. ASSUME NEW v \in Threads PROVE Placed(v)'
  <2>1. Placed(v)
    BY DEF Base, Places
  <2>2. /\ mEventsAreDoomed'[v] <=> pc'[v] \in Ended
        /\ mEventsAreDoomed'[v] => Within(mEvents'[v]) = {}
    BY <1>2, <1>4, <2>1 DEF Placed
  <2>3. pc'[v] \notin {"loop", "drain"} => stack'[v] = <<>>
    BY <1>2, <1>3, <1>4, <2>1 DEF Placed, Same
  <2>4. /\ pc'[v] \in {"drain", "doomed"} => mShutdownContext'[v] # None
        /\ mShutdownContext'[v] \in {None, Main}
    BY <1>1, <1>4, <1>5, <2>1 DEF Placed
  <2>5. pc'[v] \in {"none", "starting"} => owed'[v] = {}
    BY <1>4, <2>1 DEF Placed
  <2> QED
    BY <2>2, <2>3, <2>4, <2>5 DEF Placed
<1>9. ASSUME NEW v \in Threads PROVE Awaited(v)'
  <2>1. stack'[Main] = stack[Main]
    BY <1>3, <1>5 DEF Same
  <2>2. Awaited(v)
    BY DEF Base, Places
  <2> QED
    BY <1>4, <2>1, <2>2 DEF Awaited
<1> QED
  BY <1>1, <1>3, <1>6, <1>7, <1>8, <1>9 DEF Base, Places

\* The base of every step in which the frame of t ends, or moves on to its reply.
LEMMA EndKeeps ==
    ASSUME Base, NEW t \in Threads, NEW op, op # "init", At(t, op),
           stack' \in [Threads -> Seq(Frame)], \A v \in Threads \ {t} : stack'[v] = stack[v],
           QueuesTyped(mEvents'),
           \A v \in Threads : mEventsAreDoomed[v] => Within(mEvents'[v]) \subseteq Within(mEvents[v]),
           owed' \in [Threads -> SUBSET Tasks], \A v \in Threads : owed'[v] \subseteq owed[v],
           mSyncTask' \subseteq mSyncTask, mShutdownRequired' \in [Threads -> BOOLEAN],
           UNCHANGED <<mEventsAreDoomed, mShutdownContext, shutdownAck, pc, dispatched>>
    PROVE  Base'
<1>1. pc[t] \in {"loop", "drain"} /\ LastOf(stack[t]).op # "init"
  BY InsideIsLooping
<1>2. Typed'
  BY DEF Base, Typed, TypeOK, QueuesTyped
<1>3. Places'
  BY <1>1, PlacesKept
<1> QED
  BY <1>2, <1>3 DEF Base

\* A frame written with its fields.
LEMMA FrameIs ==
    ASSUME NEW f \in Frame
    PROVE  f = [op |-> f.op, event |-> f.event] /\ f.event \in Event
  BY DEF Frame

\* EndTask
LEMMA EndTaskStep ==
    ASSUME Base, NEW t \in Threads, EndTask(t)
    PROVE  /\ Base'
           /\ Less(stack, stack', t, [op |-> "run", event |-> Top(t).event])
           /\ Top(t).event \in Event
           /\ owed' = [owed EXCEPT ![t] = owed[t] \ {Top(t).event.task}]
<1>1. At(t, "run") /\ stack \in [Threads -> Seq(Frame)]
  BY TypedParts DEF EndTask, Base
<1>2. /\ stack[t] # <<>> /\ LastOf(stack[t]) = Top(t) /\ Top(t).op = "run" /\ Top(t) \in Frame
  BY <1>1, InsideIsLooping
<1>3. Top(t) = [op |-> "run", event |-> Top(t).event] /\ Top(t).event \in Event
  BY <1>2, FrameIs
<1>4. Replaced(stack, stack', t, SubSeq(stack[t], 1, Len(stack[t]) - 1))
  <2>1. stack' = [stack EXCEPT ![t] = SubSeq(stack[t], 1, Len(stack[t]) - 1)]
    BY <1>1, <1>2, BecomesIs DEF EndTask
  <2> QED
    BY <1>1, <2>1 DEF Replaced
<1>5. Less(stack, stack', t, Top(t))
  BY <1>1, <1>2, <1>4, FramePopped
<1>6. owed' = [owed EXCEPT ![t] = owed[t] \ {Top(t).event.task}]
  BY DEF EndTask
<1>7. owed' \in [Threads -> SUBSET Tasks] /\ \A v \in Threads : owed'[v] \subseteq owed[v]
  BY <1>6 DEF Base, Typed, TypeOK
<1>8. Base'
  <2>1. /\ mEvents' = mEvents /\ mSyncTask' = mSyncTask /\ mShutdownRequired' = mShutdownRequired
        /\ UNCHANGED <<mEventsAreDoomed, mShutdownContext, shutdownAck, pc, dispatched>>
    BY DEF EndTask, thread, answers
  <2>2. QueuesTyped(mEvents')
    BY <2>1, TypedParts DEF Base
  <2>3. mShutdownRequired' \in [Threads -> BOOLEAN]
    BY <2>1 DEF Base, Typed, TypeOK
  <2>4. stack' \in [Threads -> Seq(Frame)] /\ \A v \in Threads \ {t} : stack'[v] = stack[v]
    BY <1>5 DEF Less
  <2> QED
    BY <1>1, <1>7, <2>1, <2>2, <2>3, <2>4, EndKeeps
<1> QED
  BY <1>3, <1>5, <1>6, <1>8

\* EndSyncTask
LEMMA EndSyncTaskStep ==
    ASSUME Base, NEW t \in Threads, EndSyncTask(t)
    PROVE  /\ Base'
           /\ Swap(stack, stack', t, [op |-> "run", event |-> Top(t).event],
                                     [op |-> "reply", event |-> Top(t).event])
           /\ Top(t).event \in Event
           /\ owed' = [owed EXCEPT ![t] = owed[t] \ {Top(t).event.task}]
<1>1. At(t, "run") /\ stack \in [Threads -> Seq(Frame)]
  BY TypedParts DEF EndSyncTask, Base
<1>2. /\ stack[t] # <<>> /\ LastOf(stack[t]) = Top(t) /\ Top(t).op = "run" /\ Top(t) \in Frame
  BY <1>1, InsideIsLooping
<1>3. Top(t) = [op |-> "run", event |-> Top(t).event] /\ Top(t).event \in Event
  BY <1>2, FrameIs
<1>4. Replaced(stack, stack', t, Retopped(stack[t], "reply"))
  <2>1. stack' = [stack EXCEPT ![t] = Retopped(stack[t], "reply")]
    BY <1>1, <1>2, BecomesIs DEF EndSyncTask
  <2> QED
    BY <1>1, <2>1 DEF Replaced
<1>5. Swap(stack, stack', t, Top(t), [op |-> "reply", event |-> Top(t).event])
  <2>1. Swap(stack, stack', t, LastOf(stack[t]), [op |-> "reply", event |-> LastOf(stack[t]).event])
    BY <1>1, <1>2, <1>4, FrameMoved
  <2> QED
    BY <1>2, <2>1
<1>6. owed' = [owed EXCEPT ![t] = owed[t] \ {Top(t).event.task}]
  BY DEF EndSyncTask
<1>7. owed' \in [Threads -> SUBSET Tasks] /\ \A v \in Threads : owed'[v] \subseteq owed[v]
  BY <1>6 DEF Base, Typed, TypeOK
<1>8. Base'
  <2>1. /\ mEvents' = mEvents /\ mSyncTask' \subseteq mSyncTask
        /\ mShutdownRequired' = mShutdownRequired
        /\ UNCHANGED <<mEventsAreDoomed, mShutdownContext, shutdownAck, pc, dispatched>>
    BY DEF EndSyncTask, thread
  <2>2. QueuesTyped(mEvents')
    BY <2>1, TypedParts DEF Base
  <2>3. mShutdownRequired' \in [Threads -> BOOLEAN]
    BY <2>1 DEF Base, Typed, TypeOK
  <2>4. stack' \in [Threads -> Seq(Frame)] /\ \A v \in Threads \ {t} : stack'[v] = stack[v]
    BY <1>5 DEF Swap
  <2> QED
    BY <1>1, <1>7, <2>1, <2>2, <2>3, <2>4, EndKeeps
<1> QED
  BY <1>3, <1>5, <1>6, <1>8

\* An event is put, unless the queue is doomed.
LEMMA PutUnlessDoomed ==
    ASSUME Base, NEW u \in Threads, NEW e \in Event,
           mEvents' = [mEvents EXCEPT ![u] =
              IF mEventsAreDoomed[u] THEN mEvents[u] ELSE PutEvent(mEvents[u], e)]
    PROVE  /\ \/ mEventsAreDoomed[u] /\ mEvents' = mEvents
              \/ ~mEventsAreDoomed[u] /\ Put(mEvents, mEvents', u, e)
           /\ QueuesTyped(mEvents')
           /\ \A v \in Threads :
                 mEventsAreDoomed[v] => Within(mEvents'[v]) \subseteq Within(mEvents[v])
<1>1. QueuesTyped(mEvents)
  BY TypedParts DEF Base
<1>2. CASE mEventsAreDoomed[u]
  <2>1. mEvents' = mEvents
    BY <1>1, <1>2 DEF QueuesTyped
  <2> QED
    BY <1>1, <1>2, <2>1
<1>3. CASE ~mEventsAreDoomed[u]
  <2>1. mEvents' = [mEvents EXCEPT ![u] = PutEvent(mEvents[u], e)]
    BY <1>3
  <2>2. Replaced(mEvents, mEvents', u, PutEvent(mEvents[u], e))
    BY <1>1, <2>1 DEF QueuesTyped, Replaced
  <2>3. Put(mEvents, mEvents', u, e)
    BY <1>1, <2>2, PutTyped
  <2>4. ASSUME NEW v \in Threads, mEventsAreDoomed[v]
        PROVE  Within(mEvents'[v]) \subseteq Within(mEvents[v])
    <3>1. v # u
      BY <1>3, <2>4
    <3> QED
      BY <2>3, <3>1 DEF Put
  <2>5. QueuesTyped(mEvents')
    BY <2>3 DEF Put
  <2> QED
    BY <1>3, <2>3, <2>4, <2>5
<1> QED
  BY <1>2, <1>3

\* Reply
LEMMA ReplyStep ==
    ASSUME Base, NEW t \in Threads, Reply(t)
    PROVE  /\ Base'
           /\ Less(stack, stack', t, [op |-> "reply", event |-> Top(t).event])
           /\ Top(t).event \in Event /\ Top(t).event.thread \in Threads
           /\ \/ mEventsAreDoomed[Top(t).event.thread] /\ mEvents' = mEvents
              \/ /\ ~mEventsAreDoomed[Top(t).event.thread]
                 /\ Put(mEvents, mEvents', Top(t).event.thread, Top(t).event)
<1> DEFINE sent == Top(t).event
           origin == sent.thread
<1>1. At(t, "reply") /\ stack \in [Threads -> Seq(Frame)]
  BY TypedParts DEF Reply, Base
<1>2. /\ stack[t] # <<>> /\ LastOf(stack[t]) = Top(t) /\ Top(t).op = "reply" /\ Top(t) \in Frame
  BY <1>1, InsideIsLooping
<1>3. Top(t) = [op |-> "reply", event |-> sent] /\ sent \in Event
  BY <1>2, FrameIs
<1>4. origin \in Threads
  BY <1>3 DEF Event
<1>5. Replaced(stack, stack', t, SubSeq(stack[t], 1, Len(stack[t]) - 1))
  <2>1. stack' = [stack EXCEPT ![t] = SubSeq(stack[t], 1, Len(stack[t]) - 1)]
    BY <1>1, <1>2, BecomesIs DEF Reply
  <2> QED
    BY <1>1, <2>1 DEF Replaced
<1>6. Less(stack, stack', t, Top(t))
  BY <1>1, <1>2, <1>5, FramePopped
<1>7. mEvents' = [mEvents EXCEPT ![origin] =
         IF mEventsAreDoomed[origin] THEN mEvents[origin] ELSE PutEvent(mEvents[origin], sent)]
  BY DEF Reply
<1> HIDE DEF sent, origin
<1>8. /\ \/ mEventsAreDoomed[origin] /\ mEvents' = mEvents
         \/ ~mEventsAreDoomed[origin] /\ Put(mEvents, mEvents', origin, sent)
      /\ QueuesTyped(mEvents')
      /\ \A v \in Threads :
            mEventsAreDoomed[v] => Within(mEvents'[v]) \subseteq Within(mEvents[v])
  BY <1>3, <1>4, <1>7, PutUnlessDoomed
<1>9. Base'
  <2>1. /\ mSyncTask' = mSyncTask /\ mShutdownRequired' = mShutdownRequired /\ owed' = owed
        /\ UNCHANGED <<mEventsAreDoomed, mShutdownContext, shutdownAck, pc, dispatched>>
    BY DEF Reply, answers, history
  <2>2. owed' \in [Threads -> SUBSET Tasks] /\ mShutdownRequired' \in [Threads -> BOOLEAN]
    BY <2>1 DEF Base, Typed, TypeOK
  <2>3. stack' \in [Threads -> Seq(Frame)] /\ \A v \in Threads \ {t} : stack'[v] = stack[v]
    BY <1>6 DEF Less
  <2> QED
    BY <1>1, <1>8, <2>1, <2>2, <2>3, EndKeeps
<1> QED
  BY <1>3, <1>4, <1>6, <1>8, <1>9 DEF sent, origin

\* Shutdown
LEMMA ShutdownStep ==
    ASSUME Base, NEW t \in Threads \ {Main}, Shutdown(t)
    PROVE  /\ Base'
           /\ Plus(stack, stack', Main, [op |-> "shutdown", event |-> SystemEvent("ack", t)])
           /\ \/ mEventsAreDoomed[t] /\ mEvents' = mEvents
              \/ ~mEventsAreDoomed[t] /\ Put(mEvents, mEvents', t, SystemEvent("shutdown", Main))
<1> DEFINE sent == SystemEvent("shutdown", Main)
           call == [op |-> "shutdown", event |-> SystemEvent("ack", t)]
<1>1. Main \in Threads /\ t \in Threads /\ stack \in [Threads -> Seq(Frame)] /\ At(Main, "run")
  BY BoundsAssumption, TypedParts DEF Main, Threads, Base, Shutdown
<1>2. sent \in Event /\ call \in Frame /\ call.op = "shutdown"
  BY <1>1 DEF SystemEvent, Event, Frame
<1>3. Replaced(stack, stack', Main, Append(stack[Main], call))
  BY <1>1 DEF Shutdown, Push, Replaced
<1>4. mEvents' = [mEvents EXCEPT ![t] =
         IF mEventsAreDoomed[t] THEN mEvents[t] ELSE PutEvent(mEvents[t], sent)]
  BY DEF Shutdown
<1> HIDE DEF sent, call
<1>5. Plus(stack, stack', Main, call)
  BY <1>1, <1>2, <1>3, FramePushed
<1>6. /\ \/ mEventsAreDoomed[t] /\ mEvents' = mEvents
         \/ ~mEventsAreDoomed[t] /\ Put(mEvents, mEvents', t, sent)
      /\ QueuesTyped(mEvents')
      /\ \A v \in Threads :
            mEventsAreDoomed[v] => Within(mEvents'[v]) \subseteq Within(mEvents[v])
  BY <1>1, <1>2, <1>4, PutUnlessDoomed
<1>7. Base'
  <2>1. /\ mSyncTask' = mSyncTask /\ owed' = owed
        /\ UNCHANGED <<mEventsAreDoomed, mShutdownContext, shutdownAck, pc, dispatched>>
    BY DEF Shutdown, answers, history
  <2>2. owed' \in [Threads -> SUBSET Tasks] /\ mShutdownRequired' \in [Threads -> BOOLEAN]
    BY <2>1 DEF Base, Typed, TypeOK, Shutdown
  <2>3. stack' \in [Threads -> Seq(Frame)] /\ \A v \in Threads \ {Main} : stack'[v] = stack[v]
    BY <1>5 DEF Plus
  <2> QED
    BY <1>1, <1>6, <2>1, <2>2, <2>3, EndKeeps
<1> QED
  BY <1>5, <1>6, <1>7 DEF sent, call


\* A thread moves on in ThreadFunc, to a place that its other fields fit, while no thread
\* comes to start and the main thread stays.
LEMMA MovesOn ==
    ASSUME Base, NEW t \in Threads \ {Main}, NEW place,
           place \in {"drain", "doomed", "ended", "joined"},
           pc' = [pc EXCEPT ![t] = place], UNCHANGED <<mShutdownContext, owed>>,
           mEventsAreDoomed'[t] <=> place \in Ended,
           mEventsAreDoomed'[t] => Within(mEvents'[t]) = {},
           stack'[t] = <<>>, place \in {"drain", "doomed"} => mShutdownContext[t] # None,
           \A v \in Threads \ {t} : mEventsAreDoomed'[v] = mEventsAreDoomed[v],
           \A v \in Threads \ {t} :
              mEventsAreDoomed[v] => Within(mEvents'[v]) \subseteq Within(mEvents[v]),
           \A v \in Threads \ {t, Main} : stack'[v] = stack[v],
           \/ stack'[Main] = stack[Main]
           \/ stack[Main] # <<>> /\ LastOf(stack[Main]).op # "init"
    PROVE  Places'
<1>1. /\ Main \in Threads
      /\ pc \in [Threads -> {"none", "starting", "loop", "drain", "doomed", "ended", "joined"}]
  BY BoundsAssumption DEF Main, Threads, Base, Typed, TypeOK
<1>2. pc[Main] = "loop" /\ pc'[Main] = "loop" /\ mShutdownContext'[Main] = None
  BY <1>1 DEF Base, Places
<1>3. ASSUME NEW v \in Threads PROVE Placed(v)'
  <2>1. Placed(v)
    BY DEF Base, Places
  <2>2. CASE v = t
    <3>1. pc'[v] = place
      BY <1>1, <2>2
    <3>2. mShutdownContext'[v] \in {None, Main}
      BY <2>1 DEF Placed
    <3>3. pc'[v] \notin {"none", "starting"} /\ (pc'[v] \in {"drain", "doomed"} => mShutdownContext'[v] # None)
      BY <2>2, <3>1
    <3> QED
      BY <2>2, <3>1, <3>2, <3>3 DEF Placed
  <2>3. CASE v # t
    <3>1. pc'[v] = pc[v]
      BY <1>1, <2>3
    <3>2. mEventsAreDoomed'[v] <=> pc'[v] \in Ended
      BY <2>1, <2>3, <3>1 DEF Placed
    <3>3. mEventsAreDoomed'[v] => Within(mEvents'[v]) = {}
      BY <2>1, <2>3 DEF Placed
    <3>4. pc'[v] \notin {"loop", "drain"} => stack'[v] = <<>>
      BY <1>2, <2>1, <2>3, <3>1 DEF Placed
    <3>5. /\ pc'[v] \in {"drain", "doomed"} => mShutdownContext'[v] # None
          /\ mShutdownContext'[v] \in {None, Main}
          /\ pc'[v] \in {"none", "starting"} => owed'[v] = {}
      BY <2>1, <3>1 DEF Placed
    <3> QED
      BY <3>2, <3>3, <3>4, <3>5 DEF Placed
  <2> QED
    BY <2>2, <2>3
<1>4. ASSUME NEW v \in Threads PROVE Awaited(v)'
  <2>1. pc'[v] = "starting" => pc[v] = "starting"
    BY <1>1
  <2>2. CASE stack'[Main] = stack[Main]
    <3>1. Awaited(v)
      BY DEF Base, Places
    <3> QED
      BY <2>1, <2>2, <3>1 DEF Awaited
  <2>3. CASE stack[Main] # <<>> /\ LastOf(stack[Main]).op # "init"
    <3>1. pc[v] # "starting"
      BY <2>3, NothingStarts
    <3> QED
      BY <2>1, <3>1 DEF Awaited
  <2> QED
    BY <2>2, <2>3
<1> QED
  BY <1>2, <1>3, <1>4 DEF Places

\* The main thread does not shut itself down.
LEMMA MainStays ==
    ASSUME Base, NEW t \in Threads, mShutdownContext[t] # None \/ pc[t] # "loop"
    PROVE  t # Main
  BY DEF Base, Places

\* LeaveLoop
LEMMA LeaveLoopStep ==
    ASSUME Base, NEW t \in Threads, LeaveLoop(t)
    PROVE  Base' /\ t # Main
<1>1. /\ stack[t] = <<>> /\ pc[t] = "loop" /\ mShutdownContext[t] # None
      /\ pc' = [pc EXCEPT ![t] = "drain"]
      /\ UNCHANGED <<mEvents, mEventsAreDoomed, mShutdownContext, mShutdownRequired,
                     shutdownAck, mSyncTask, stack, dispatched, owed>>
  BY DEF LeaveLoop, ShuttingDown, thread, answers, history
<1>2. t \in Threads \ {Main}
  BY <1>1, MainStays
<1>3. Typed'
  BY <1>1 DEF Base, Typed, TypeOK
<1>4. ~mEventsAreDoomed[t] /\ "drain" \notin Ended
  BY <1>1 DEF Base, Places, Placed, Ended
<1>5. mEventsAreDoomed'[t] <=> "drain" \in Ended
  BY <1>1, <1>4
<1>6. mEventsAreDoomed'[t] => Within(mEvents'[t]) = {}
  BY <1>1, <1>4
<1>7. Places'
  BY <1>1, <1>2, <1>5, <1>6, MovesOn
<1> QED
  BY <1>2, <1>3, <1>7 DEF Base

\* Doom
LEMMA DoomStep ==
    ASSUME Base, NEW t \in Threads, Doom(t)
    PROVE  Base' /\ t # Main
<1>1. /\ stack[t] = <<>> /\ pc[t] = "drain" /\ IsEmpty(mEvents[t])
      /\ pc' = [pc EXCEPT ![t] = "doomed"]
      /\ mEventsAreDoomed' = [mEventsAreDoomed EXCEPT ![t] = TRUE]
      /\ UNCHANGED <<mEvents, mShutdownContext, mShutdownRequired,
                     shutdownAck, mSyncTask, stack, dispatched, owed>>
  BY DEF Doom, answers, history
<1>2. t \in Threads \ {Main} /\ mShutdownContext[t] # None
  BY <1>1, MainStays DEF Base, Places, Placed
<1>3. Typed'
  BY <1>1 DEF Base, Typed, TypeOK
<1>4. mEventsAreDoomed \in [Threads -> BOOLEAN]
  BY DEF Base, Typed, TypeOK
<1>5. mEventsAreDoomed'[t] /\ \A v \in Threads \ {t} : mEventsAreDoomed'[v] = mEventsAreDoomed[v]
  BY <1>1, <1>4
<1>6. Within(mEvents'[t]) = {}
  <2>1. WellFormed(mEvents[t], Event)
    BY DEF Base, Typed
  <2>2. Within(mEvents[t]) = {}
    BY <1>1, <2>1, NothingWithin
  <2> QED
    BY <1>1, <2>2
<1>7. mEventsAreDoomed'[t] <=> "doomed" \in Ended
  BY <1>5 DEF Ended
<1>8. Places'
  BY <1>1, <1>2, <1>5, <1>6, <1>7, MovesOn
<1> QED
  BY <1>2, <1>3, <1>8 DEF Base

\* Acknowledge
LEMMA AcknowledgeStep ==
    ASSUME Base, NEW t \in Threads, Acknowledge(t)
    PROVE  /\ Base' /\ t # Main /\ mShutdownContext[t] = Main /\ pc[t] = "doomed"
           /\ Put(mEvents, mEvents', Main, SystemEvent("ack", t))
<1> DEFINE sent == SystemEvent("ack", t)
<1>1. /\ pc[t] = "doomed" /\ pc' = [pc EXCEPT ![t] = "ended"]
      /\ UNCHANGED <<mEventsAreDoomed, mShutdownContext, mShutdownRequired,
                     shutdownAck, mSyncTask, stack, dispatched, owed>>
  BY DEF Acknowledge, answers, history
<1>2. t \in Threads \ {Main}
  BY <1>1, MainStays
<1>3. mShutdownContext[t] = Main /\ mEventsAreDoomed[t] /\ Within(mEvents[t]) = {} /\ stack[t] = <<>>
  BY <1>1 DEF Base, Places, Placed, Ended
<1>4. Main \in Threads /\ QueuesTyped(mEvents)
  BY BoundsAssumption, TypedParts DEF Main, Threads, Base
<1>5. ~mEventsAreDoomed[Main]
  BY <1>4 DEF Base, Places, Placed, Ended
<1>6. sent \in Event
  BY DEF SystemEvent, Event
<1>7. mEvents' = [mEvents EXCEPT ![Main] =
         IF mEventsAreDoomed[Main] THEN mEvents[Main] ELSE PutEvent(mEvents[Main], sent)]
  BY <1>3 DEF Acknowledge
<1> HIDE DEF sent
<1>8. Put(mEvents, mEvents', Main, sent)
  BY <1>4, <1>5, <1>6, <1>7, PutUnlessDoomed
<1>9. Typed'
  BY <1>1, <1>8 DEF Base, Typed, TypeOK, Put, QueuesTyped
<1>10. Places'
  <2>1. mEvents'[t] = mEvents[t]
    BY <1>2, <1>8 DEF Put
  <2>2. mEventsAreDoomed'[t] <=> "ended" \in Ended
    BY <1>1, <1>3 DEF Ended
  <2>3. Within(mEvents'[t]) = {}
    BY <1>3, <2>1
  <2>4. ASSUME NEW v \in Threads \ {t}, mEventsAreDoomed[v]
        PROVE  Within(mEvents'[v]) \subseteq Within(mEvents[v])
    <3>1. v # Main
      BY <1>5, <2>4
    <3> QED
      BY <1>8, <3>1 DEF Put
  <2> QED
    BY <1>1, <1>2, <1>3, <2>2, <2>3, <2>4, MovesOn
<1> QED
  BY <1>1, <1>2, <1>3, <1>8, <1>9, <1>10 DEF Base, sent

\* Join
LEMMA JoinStep ==
    ASSUME Base, Join
    PROVE  /\ Base'
           /\ Less(stack, stack', Main, [op |-> "shutdown", event |-> Top(Main).event])
           /\ Top(Main).event \in Event
           /\ Top(Main).event.thread \in Threads
<1> DEFINE t == Top(Main).event.thread
<1>1. Main \in Threads /\ stack \in [Threads -> Seq(Frame)] /\ At(Main, "shutdown")
  BY BoundsAssumption, TypedParts DEF Main, Threads, Base, Join
<1>2. /\ stack[Main] # <<>> /\ LastOf(stack[Main]) = Top(Main) /\ Top(Main).op = "shutdown"
      /\ Top(Main) \in Frame
  BY <1>1, InsideIsLooping
<1>3. Top(Main) = [op |-> "shutdown", event |-> Top(Main).event] /\ Top(Main).event \in Event
  BY <1>2, FrameIs
<1>4. t \in Threads
  BY <1>3 DEF Event
<1>5. Replaced(stack, stack', Main, SubSeq(stack[Main], 1, Len(stack[Main]) - 1))
  <2>1. stack' = [stack EXCEPT ![Main] = SubSeq(stack[Main], 1, Len(stack[Main]) - 1)]
    BY <1>1, <1>2, BecomesIs DEF Join
  <2> QED
    BY <1>1, <2>1 DEF Replaced
<1>6. Less(stack, stack', Main, Top(Main))
  BY <1>1, <1>2, <1>5, FramePopped
<1>7. /\ pc[t] = "ended" /\ pc' = [pc EXCEPT ![t] = "joined"]
      /\ UNCHANGED <<mEvents, mEventsAreDoomed, mShutdownContext, mShutdownRequired,
                     shutdownAck, mSyncTask, dispatched, owed>>
  BY DEF Join, thread, answers, history
<1> HIDE DEF t
<1>8. t \in Threads \ {Main}
  BY <1>4, <1>7, MainStays
<1>9. mEventsAreDoomed[t] /\ Within(mEvents[t]) = {} /\ stack[t] = <<>>
  BY <1>4, <1>7 DEF Base, Places, Placed, Ended
<1>10. stack' \in [Threads -> Seq(Frame)] /\ \A v \in Threads \ {Main} : stack'[v] = stack[v]
  BY <1>6 DEF Less
<1>11. Typed'
  BY <1>7, <1>10 DEF Base, Typed, TypeOK
<1>12. Places'
  <2>1. mEventsAreDoomed'[t] <=> "joined" \in Ended
    BY <1>7, <1>9 DEF Ended
  <2>2. Within(mEvents'[t]) = {} /\ stack'[t] = <<>>
    BY <1>7, <1>8, <1>9, <1>10
  <2>3. \A v \in Threads \ {t, Main} : stack'[v] = stack[v]
    BY <1>10
  <2>4. stack[Main] # <<>> /\ LastOf(stack[Main]).op # "init"
    BY <1>2
  <2> QED
    BY <1>7, <1>8, <2>1, <2>2, <2>3, <2>4, MovesOn
<1> QED
  BY <1>3, <1>4, <1>6, <1>11, <1>12 DEF Base, t


-----------------------------------------------------------------------------
(***************************************************************************)
(* The runnables that a thread owes.                                       *)
(***************************************************************************)

\* An nsThreadSyncDispatch that comes back to its origin has nothing left to run.
Live(e, sync) == e.kind = "sync" => e.task \in sync

RunOf(e) == [op |-> "run", event |-> e]

\* A thread with queue q and stack s has still to run e, or is running it.
Has(q, s, sync, e) == (e \in Within(q) /\ Live(e, sync)) \/ RunOf(e) \in Firm(s)

\* The runnables that are about have been given to Dispatch.
Numbered ==
    /\ \A t \in Threads : \A e \in Within(mEvents[t]) : e.task <= dispatched
    /\ \A t \in Threads : \A f \in Firm(stack[t]) : f.event.task <= dispatched
    /\ \A t \in Threads : \A n \in owed[t] : n <= dispatched

\* What a thread owes it has still got.
Owing ==
    \A t \in Threads : \A n \in owed[t] :
        \E e \in Event : e.task = n /\ Has(mEvents[t], stack[t], mSyncTask, e)

\* No other thread has it: a runnable is run by the thread it was sent to.
Exclusive ==
    \A t \in Threads : \A u \in Threads \ {t} : \A e \in Event :
        Has(mEvents[t], stack[t], mSyncTask, e) => e.task \notin owed[u]

\* A synchronous runnable about to be sent back has been run.
Replies ==
    \A t \in Threads : \A f \in Firm(stack[t]) :
        f.op = "reply" => f.event.kind = "sync" /\ f.event.task \notin mSyncTask

Work == Numbered /\ Owing /\ Exclusive /\ Replies

\* A step that accepts no runnable keeps all this, if no thread gets hold of a runnable it
\* did not have, and none loses one that it still owes.
LEMMA WorkKept ==
    ASSUME Base, Base', Work, dispatched' >= dispatched, mSyncTask' \subseteq mSyncTask,
           \A v \in Threads : owed'[v] \subseteq owed[v],
           \A v \in Threads, e \in Event :
              Has(mEvents'[v], stack'[v], mSyncTask', e)
                 => Has(mEvents[v], stack[v], mSyncTask, e) \/ e.task = 0,
           \A v \in Threads, e \in Event :
              Has(mEvents[v], stack[v], mSyncTask, e) /\ e.task \in owed'[v]
                 => Has(mEvents'[v], stack'[v], mSyncTask', e),
           \A v \in Threads : \A e \in Within(mEvents'[v]) :
              e \in Within(mEvents[v]) \/ e.task <= dispatched,
           \A v \in Threads : \A f \in Firm(stack'[v]) :
              \/ f \in Firm(stack[v])
              \/ /\ f.event.task <= dispatched
                 /\ f.op = "reply" => f.event.kind = "sync" /\ f.event.task \notin mSyncTask'
    PROVE  Work'
<1>1. dispatched \in Nat /\ dispatched' \in Nat
  BY DEF Base, Typed, TypeOK
<1>2. \A e \in Event : e.task \in Nat
  BY BoundsAssumption DEF Event, Tasks
<1>3. \A v \in Threads : owed'[v] \subseteq Nat \ {0}
  BY BoundsAssumption DEF Base, Typed, TypeOK, Tasks
<1>4. \A v \in Threads : Within(mEvents'[v]) \subseteq Event
  BY NothingWithin DEF Base, Typed
<1>5. \A v \in Threads : \A f \in Firm(stack'[v]) : f.event.task \in Nat
  <2>1. SUFFICES ASSUME NEW v \in Threads, NEW f \in Firm(stack'[v])
                 PROVE  f.event.task \in Nat
    OBVIOUS
  <2>2. stack'[v] \in Seq(Frame)
    BY DEF Base, Typed, TypeOK
  <2>3. PICK i \in 1 .. Len(stack'[v]) : f = stack'[v][i]
    BY DEF Firm, Frames
  <2>4. f \in Frame
    BY <2>2, <2>3, ElementOfSeq
  <2> QED
    BY <1>2, <2>4 DEF Frame
<1>6. Numbered'
  <2>1. \A t \in Threads : \A e \in Within(mEvents'[t]) : e.task <= dispatched'
    BY <1>1, <1>2, <1>4 DEF Work, Numbered
  <2>2. \A t \in Threads : \A f \in Firm(stack'[t]) : f.event.task <= dispatched'
    BY <1>1, <1>5 DEF Work, Numbered
  <2>3. \A t \in Threads : \A n \in owed'[t] : n <= dispatched'
    BY <1>1, <1>3 DEF Work, Numbered
  <2> QED
    BY <2>1, <2>2, <2>3 DEF Numbered
<1>7. Owing'
  <2>1. ASSUME NEW t \in Threads, NEW n \in owed'[t]
        PROVE  \E e \in Event : e.task = n /\ Has(mEvents'[t], stack'[t], mSyncTask', e)
    <3>1. n \in owed[t]
      OBVIOUS
    <3>2. PICK e \in Event : e.task = n /\ Has(mEvents[t], stack[t], mSyncTask, e)
      BY <3>1 DEF Work, Owing
    <3> QED
      BY <3>2
  <2> QED
    BY <2>1 DEF Owing
<1>8. Exclusive'
  <2>1. ASSUME NEW t \in Threads, NEW u \in Threads \ {t}, NEW e \in Event,
               Has(mEvents'[t], stack'[t], mSyncTask', e)
        PROVE  e.task \notin owed'[u]
    <3>1. CASE e.task = 0
      BY <1>3, <3>1
    <3>2. CASE Has(mEvents[t], stack[t], mSyncTask, e)
      <4>1. e.task \notin owed[u]
        BY <3>2 DEF Work, Exclusive
      <4> QED
        BY <4>1
    <3> QED
      BY <2>1, <3>1, <3>2
  <2> QED
    BY <2>1 DEF Exclusive
<1>9. Replies'
  BY DEF Work, Replies
<1> QED
  BY <1>6, <1>7, <1>8, <1>9 DEF Work

\* No runnable begins or ends, and only a call of Shutdown may come or go.
RunsKept(s, r) ==
    /\ \A v \in Threads : \A f : f.op = "run" => (f \in Firm(r[v]) <=> f \in Firm(s[v]))
    /\ \A v \in Threads : \A f \in Firm(r[v]) :
          f \in Firm(s[v]) \/ (f.op = "shutdown" /\ f.event.task = 0)

\* A step that changes neither a queue nor a firm frame keeps it too.
LEMMA WorkUnchanged ==
    ASSUME Base, Base', Work, dispatched' >= dispatched, mSyncTask' = mSyncTask, owed' = owed,
           mEvents' = mEvents, RunsKept(stack, stack')
    PROVE  Work'
<1>1. \A e : RunOf(e).op = "run"
  BY DEF RunOf
<1>2. \A v \in Threads, e \in Event :
         Has(mEvents'[v], stack'[v], mSyncTask', e) <=> Has(mEvents[v], stack[v], mSyncTask, e)
  BY <1>1 DEF Has, RunsKept
<1>3. \A v \in Threads : \A f \in Firm(stack'[v]) :
         f \in Firm(stack[v]) \/ (f.event.task <= dispatched /\ f.op # "reply")
  BY DEF RunsKept, Base, Typed, TypeOK
<1> QED
  BY <1>2, <1>3, WorkKept

\* Nor does an event that stands for no runnable, or for one that has been run.
LEMMA WorkPut ==
    ASSUME Base, Base', Work, dispatched' = dispatched, mSyncTask' = mSyncTask, owed' = owed,
           NEW u \in Threads, NEW sent \in Event, Put(mEvents, mEvents', u, sent),
           sent.task <= dispatched, sent.task = 0 \/ ~Live(sent, mSyncTask),
           RunsKept(stack, stack')
    PROVE  Work'
<1>1. \A e : RunOf(e).op = "run"
  BY DEF RunOf
<1>2. \A v \in Threads : \A x : x \in Within(mEvents'[v]) => x \in Within(mEvents[v]) \/ x = sent
  BY DEF Put
<1>3. \A v \in Threads : \A x : x \in Within(mEvents[v]) => x \in Within(mEvents'[v])
  BY DEF Put
<1>4. \A v \in Threads, e \in Event :
         Has(mEvents'[v], stack'[v], mSyncTask', e)
            => Has(mEvents[v], stack[v], mSyncTask, e) \/ e.task = 0
  BY <1>1, <1>2 DEF Has, RunsKept
<1>5. \A v \in Threads, e \in Event :
         Has(mEvents[v], stack[v], mSyncTask, e) => Has(mEvents'[v], stack'[v], mSyncTask', e)
  BY <1>1, <1>3 DEF Has, RunsKept
<1>6. \A v \in Threads : \A e \in Within(mEvents'[v]) :
         e \in Within(mEvents[v]) \/ e.task <= dispatched
  BY <1>2
<1>7. \A v \in Threads : \A f \in Firm(stack'[v]) :
         f \in Firm(stack[v]) \/ (f.event.task <= dispatched /\ f.op # "reply")
  BY DEF RunsKept, Base, Typed, TypeOK
<1>8. dispatched' >= dispatched
  BY DEF Base, Typed, TypeOK
<1> QED
  BY <1>4, <1>5, <1>6, <1>7, <1>8, WorkKept

\* Nor does the thread that takes such an event, or that owes nothing.
LEMMA WorkGot ==
    ASSUME Base, Base', Work, dispatched' = dispatched, mSyncTask' = mSyncTask, owed' = owed,
           NEW t \in Threads, NEW h \in Event, Got(mEvents, mEvents', t, h),
           h.task = 0 \/ ~Live(h, mSyncTask) \/ owed[t] = {},
           RunsKept(stack, stack')
    PROVE  Work'
<1>1. \A e : RunOf(e).op = "run"
  BY DEF RunOf
<1>2. \A v \in Threads : \A x : x \in Within(mEvents'[v]) => x \in Within(mEvents[v])
  BY DEF Got
<1>3. \A v \in Threads : \A x : x \in Within(mEvents[v]) =>
         x \in Within(mEvents'[v]) \/ (v = t /\ x = h)
  BY DEF Got
<1>4. \A v \in Threads : 0 \notin owed'[v]
  BY BoundsAssumption DEF Base, Typed, TypeOK, Tasks
<1>5. \A v \in Threads, e \in Event :
         Has(mEvents'[v], stack'[v], mSyncTask', e)
            => Has(mEvents[v], stack[v], mSyncTask, e) \/ e.task = 0
  BY <1>1, <1>2 DEF Has, RunsKept
<1>6. \A v \in Threads, e \in Event :
         Has(mEvents[v], stack[v], mSyncTask, e) /\ e.task \in owed'[v]
            => Has(mEvents'[v], stack'[v], mSyncTask', e)
  BY <1>1, <1>3, <1>4 DEF Has, RunsKept
<1>7. \A v \in Threads : \A f \in Firm(stack'[v]) :
         f \in Firm(stack[v]) \/ (f.event.task <= dispatched /\ f.op # "reply")
  BY DEF RunsKept, Base, Typed, TypeOK
<1>8. dispatched' >= dispatched
  BY DEF Base, Typed, TypeOK
<1> QED
  BY <1>2, <1>5, <1>6, <1>7, <1>8, WorkKept

\* A runnable that is taken to be run is still there.
LEMMA WorkRun ==
    ASSUME Base, Base', Work, dispatched' = dispatched, mSyncTask' = mSyncTask, owed' = owed,
           NEW t \in Threads, NEW h \in Event, Got(mEvents, mEvents', t, h),
           Live(h, mSyncTask), Plus(stack, stack', t, RunOf(h))
    PROVE  Work'
<1>1. \A e : RunOf(e).op = "run" /\ RunOf(e).event = e
  BY DEF RunOf
<1>2. \A v \in Threads : \A x : x \in Within(mEvents'[v]) => x \in Within(mEvents[v])
  BY DEF Got
<1>3. \A v \in Threads : \A x : x \in Within(mEvents[v]) =>
         x \in Within(mEvents'[v]) \/ (v = t /\ x = h)
  BY DEF Got
<1>4. h \in Within(mEvents[t])
  BY DEF Got
<1>5. \A v \in Threads : \A x : x \in Firm(stack'[v]) <=>
         x \in Firm(stack[v]) \/ (v = t /\ x = RunOf(h))
  BY DEF Plus
<1>6. \A v \in Threads, e \in Event :
         Has(mEvents'[v], stack'[v], mSyncTask', e) => Has(mEvents[v], stack[v], mSyncTask, e)
  <2>1. SUFFICES ASSUME NEW v \in Threads, NEW e \in Event,
                        Has(mEvents'[v], stack'[v], mSyncTask', e)
                 PROVE  Has(mEvents[v], stack[v], mSyncTask, e)
    OBVIOUS
  <2>2. CASE e \in Within(mEvents'[v]) /\ Live(e, mSyncTask')
    BY <1>2, <2>2 DEF Has
  <2>3. CASE RunOf(e) \in Firm(stack'[v])
    <3>1. CASE RunOf(e) \in Firm(stack[v])
      BY <3>1 DEF Has
    <3>2. CASE v = t /\ RunOf(e) = RunOf(h)
      <4>1. e = h
        BY <1>1, <3>2
      <4> QED
        BY <1>4, <3>2, <4>1 DEF Has
    <3> QED
      BY <1>5, <2>3, <3>1, <3>2
  <2> QED
    BY <2>1, <2>2, <2>3 DEF Has
<1>7. \A v \in Threads, e \in Event :
         Has(mEvents[v], stack[v], mSyncTask, e) => Has(mEvents'[v], stack'[v], mSyncTask', e)
  BY <1>3, <1>5 DEF Has
<1>8. \A v \in Threads : \A f \in Firm(stack'[v]) :
         f \in Firm(stack[v]) \/ (f.event.task <= dispatched /\ f.op # "reply")
  <2>1. h.task <= dispatched
    BY <1>4 DEF Work, Numbered
  <2> QED
    BY <1>1, <1>5, <2>1
<1>9. dispatched' >= dispatched
  BY DEF Base, Typed, TypeOK
<1> QED
  BY <1>2, <1>6, <1>7, <1>8, <1>9, WorkKept


\* EndTask
LEMMA WorkEndTask ==
    ASSUME Base, Base', Work, NEW t \in Threads, EndTask(t)
    PROVE  Work'
<1> DEFINE done == Top(t).event
<1>1. /\ Less(stack, stack', t, RunOf(done)) /\ done \in Event
      /\ owed' = [owed EXCEPT ![t] = owed[t] \ {done.task}]
  BY EndTaskStep DEF RunOf
<1>2. mEvents' = mEvents /\ mSyncTask' = mSyncTask /\ dispatched' = dispatched
  BY DEF EndTask, thread, answers
<1>3. owed \in [Threads -> SUBSET Tasks]
  BY DEF Base, Typed, TypeOK
<1> HIDE DEF done
<1>4. (\A v \in Threads : owed'[v] \subseteq owed[v]) /\ done.task \notin owed'[t]
  BY <1>1, <1>3
<1>5. \A e : RunOf(e).event = e
  BY DEF RunOf
<1>6. /\ \A v \in Threads : \A x : x \in Firm(stack'[v]) => x \in Firm(stack[v])
      /\ \A v \in Threads : \A x : x \in Firm(stack[v]) =>
            x \in Firm(stack'[v]) \/ (v = t /\ x = RunOf(done))
  BY <1>1 DEF Less
<1>7. \A v \in Threads, e \in Event :
         Has(mEvents'[v], stack'[v], mSyncTask', e) => Has(mEvents[v], stack[v], mSyncTask, e)
  BY <1>2, <1>6 DEF Has
<1>8. ASSUME NEW v \in Threads, NEW e \in Event, Has(mEvents[v], stack[v], mSyncTask, e),
             e.task \in owed'[v]
      PROVE  Has(mEvents'[v], stack'[v], mSyncTask', e)
  <2>1. ~(v = t /\ RunOf(e) = RunOf(done))
    BY <1>4, <1>5, <1>8
  <2> QED
    BY <1>2, <1>6, <1>8, <2>1 DEF Has
<1>9. dispatched' >= dispatched
  BY <1>2 DEF Base, Typed, TypeOK
<1> QED
  BY <1>2, <1>4, <1>6, <1>7, <1>8, <1>9, WorkKept

\* EndSyncTask: the runnable is no other thread's.
LEMMA WorkEndSyncTask ==
    ASSUME Base, Base', Work, NEW t \in Threads, EndSyncTask(t)
    PROVE  Work'
<1> DEFINE done == Top(t).event
           back == [op |-> "reply", event |-> done]
<1>1. /\ Swap(stack, stack', t, RunOf(done), back) /\ done \in Event
      /\ owed' = [owed EXCEPT ![t] = owed[t] \ {done.task}]
  BY EndSyncTaskStep DEF RunOf
<1>2. /\ mEvents' = mEvents /\ mSyncTask' = mSyncTask \ {done.task} /\ dispatched' = dispatched
      /\ done.kind = "sync"
  BY DEF EndSyncTask, thread
<1>3. owed \in [Threads -> SUBSET Tasks]
  BY DEF Base, Typed, TypeOK
<1>4. back.op = "reply" /\ back.event = done
  OBVIOUS
<1> HIDE DEF done, back
<1>5. (\A v \in Threads : owed'[v] \subseteq owed[v]) /\ done.task \notin owed'[t]
  BY <1>1, <1>3
<1>6. \A e : RunOf(e).event = e /\ RunOf(e).op = "run"
  BY DEF RunOf
<1>7. /\ \A v \in Threads : \A x : x \in Firm(stack'[v]) => x \in Firm(stack[v]) \/ (v = t /\ x = back)
      /\ \A v \in Threads : \A x : x \in Firm(stack[v]) =>
            x \in Firm(stack'[v]) \/ (v = t /\ x = RunOf(done))
      /\ RunOf(done) \in Firm(stack[t])
  BY <1>1 DEF Swap
<1>8. \A v \in Threads : done.task \notin owed'[v]
  <2>1. Has(mEvents[t], stack[t], mSyncTask, done)
    BY <1>7 DEF Has
  <2>2. \A v \in Threads \ {t} : done.task \notin owed[v]
    BY <1>1, <2>1 DEF Work, Exclusive
  <2> QED
    BY <1>5, <2>2
<1>9. ASSUME NEW v \in Threads, NEW e \in Event, Has(mEvents'[v], stack'[v], mSyncTask', e)
      PROVE  Has(mEvents[v], stack[v], mSyncTask, e)
  <2>1. RunOf(e) # back
    BY <1>4, <1>6
  <2>2. Live(e, mSyncTask') => Live(e, mSyncTask)
    BY <1>2 DEF Live
  <2> QED
    BY <1>2, <1>7, <1>9, <2>1, <2>2 DEF Has
<1>10. ASSUME NEW v \in Threads, NEW e \in Event, Has(mEvents[v], stack[v], mSyncTask, e),
             e.task \in owed'[v]
       PROVE  Has(mEvents'[v], stack'[v], mSyncTask', e)
  <2>1. e.task # done.task
    BY <1>8, <1>10
  <2>2. RunOf(e) # RunOf(done)
    BY <1>6, <2>1
  <2>3. Live(e, mSyncTask) => Live(e, mSyncTask')
    BY <1>2, <2>1 DEF Live
  <2> QED
    BY <1>2, <1>7, <1>10, <2>2, <2>3 DEF Has
<1>11. dispatched' >= dispatched
  BY <1>2 DEF Base, Typed, TypeOK
<1>12. \A v \in Threads : \A f \in Firm(stack'[v]) :
          \/ f \in Firm(stack[v])
          \/ /\ f.event.task <= dispatched
             /\ f.op = "reply" => f.event.kind = "sync" /\ f.event.task \notin mSyncTask'
  <2>1. done.task <= dispatched
    BY <1>6, <1>7 DEF Work, Numbered
  <2> QED
    BY <1>2, <1>4, <1>7, <2>1
<1>13. mSyncTask' \subseteq mSyncTask
  BY <1>2
<1>14. \A v \in Threads : \A e \in Within(mEvents'[v]) :
          e \in Within(mEvents[v]) \/ e.task <= dispatched
  BY <1>2
<1> QED
  BY <1>5, <1>9, <1>10, <1>11, <1>12, <1>13, <1>14, WorkKept

\* DispatchNormal and DispatchSync: the new runnable has a number of its own.
LEMMA WorkAccepted ==
    ASSUME Base, Base', Work, NEW t \in Threads, NEW u \in Threads, NEW kind \in {"task", "sync"},
           Accepted(t, u, kind),
           mSyncTask' = IF kind = "sync" THEN mSyncTask \cup {dispatched + 1} ELSE mSyncTask,
           \A v \in Threads : \A x : x \in Firm(stack'[v]) <=> x \in Firm(stack[v])
    PROVE  Work'
<1> DEFINE n == dispatched + 1
           sent == TaskEvent(kind, t, n)
<1>1. /\ Put(mEvents, mEvents', u, sent)
      /\ owed' = [owed EXCEPT ![u] = owed[u] \cup {n}]
      /\ dispatched' = n /\ n \in Tasks
  BY AcceptedStep
<1>2. sent \in Event /\ sent.task = n /\ sent.kind = kind
  BY NextTask DEF Accepted, TaskEvent
<1>3. dispatched \in Nat /\ owed \in [Threads -> SUBSET Tasks] /\ Tasks \subseteq Nat
  BY BoundsAssumption DEF Base, Typed, TypeOK, Tasks
<1>4. \A x : x <= dispatched /\ x \in Nat => x # n /\ x <= n
  BY <1>3
<1>5. n <= n
  BY <1>3
<1>6. mSyncTask' = IF kind = "sync" THEN mSyncTask \cup {n} ELSE mSyncTask
  OBVIOUS
<1> HIDE DEF n, sent
<1>7. /\ \A v \in Threads : \A x : x \in Within(mEvents'[v]) <=>
            x \in Within(mEvents[v]) \/ (v = u /\ x = sent)
  BY <1>1 DEF Put
<1>8. \A e \in Event : e.task \in Nat
  BY BoundsAssumption DEF Event, Tasks
<1>9. \A v \in Threads : Within(mEvents[v]) \subseteq Event
  BY NothingWithin DEF Base, Typed
<1>10. \A v \in Threads : \A x \in owed'[v] : x \in owed[v] \/ (v = u /\ x = n)
  BY <1>1, <1>3
<1>11. \A v \in Threads : \A f \in Firm(stack[v]) : f.event.task \in Nat /\ f.event \in Event
  <2>1. SUFFICES ASSUME NEW v \in Threads, NEW f \in Firm(stack[v])
                 PROVE  f.event.task \in Nat /\ f.event \in Event
    OBVIOUS
  <2>2. stack[v] \in Seq(Frame)
    BY DEF Base, Typed, TypeOK
  <2>3. PICK i \in 1 .. Len(stack[v]) : f = stack[v][i]
    BY DEF Firm, Frames
  <2>4. f \in Frame
    BY <2>2, <2>3, ElementOfSeq
  <2> QED
    BY <1>8, <2>4 DEF Frame
<1>12. Numbered'
  <2>1. \A v \in Threads : \A e \in Within(mEvents'[v]) : e.task <= n
    BY <1>2, <1>4, <1>5, <1>7, <1>8, <1>9 DEF Work, Numbered
  <2>2. \A v \in Threads : \A f \in Firm(stack'[v]) : f.event.task <= n
    BY <1>4, <1>11 DEF Work, Numbered
  <2>3. \A v \in Threads : \A x \in owed'[v] : x <= n
    BY <1>3, <1>4, <1>5, <1>10 DEF Work, Numbered
  <2> QED
    BY <1>1, <2>1, <2>2, <2>3 DEF Numbered
<1>13. ASSUME NEW v \in Threads, NEW e \in Event
       PROVE  Has(mEvents'[v], stack'[v], mSyncTask', e)
                 <=> Has(mEvents[v], stack[v], mSyncTask, e) \/ (v = u /\ e = sent)
  <2>1. CASE e = sent
    <3>1. Live(e, mSyncTask')
      BY <1>2, <1>6, <2>1 DEF Live
    <3>2. e \notin Within(mEvents[v]) /\ RunOf(e) \notin Firm(stack[v])
      <4>1. ~(e.task <= dispatched)
        BY <1>2, <1>4, <1>8, <2>1
      <4>2. RunOf(e).event = e
        BY DEF RunOf
      <4> QED
        BY <4>1, <4>2 DEF Work, Numbered
    <3> QED
      BY <1>7, <2>1, <3>1, <3>2 DEF Has
  <2>2. CASE e # sent
    <3>1. e \in Within(mEvents[v]) => (Live(e, mSyncTask') <=> Live(e, mSyncTask))
      <4>1. e \in Within(mEvents[v]) => e.task # n
        BY <1>4, <1>8 DEF Work, Numbered
      <4> QED
        BY <1>6, <4>1 DEF Live
    <3> QED
      BY <1>7, <2>2, <3>1 DEF Has
  <2> QED
    BY <2>1, <2>2
<1>14. Owing'
  <2>1. ASSUME NEW v \in Threads, NEW x \in owed'[v]
        PROVE  \E e \in Event : e.task = x /\ Has(mEvents'[v], stack'[v], mSyncTask', e)
    <3>1. CASE x \in owed[v]
      <4>1. PICK e \in Event : e.task = x /\ Has(mEvents[v], stack[v], mSyncTask, e)
        BY <3>1 DEF Work, Owing
      <4> QED
        BY <1>13, <4>1
    <3>2. CASE v = u /\ x = n
      <4>1. sent.task = x /\ Has(mEvents'[v], stack'[v], mSyncTask', sent)
        BY <1>2, <1>13, <3>2
      <4> QED
        BY <1>2, <4>1
    <3> QED
      BY <1>10, <3>1, <3>2
  <2> QED
    BY <2>1 DEF Owing
<1>15. Exclusive'
  <2>1. ASSUME NEW v \in Threads, NEW w \in Threads \ {v}, NEW e \in Event,
               Has(mEvents'[v], stack'[v], mSyncTask', e)
        PROVE  e.task \notin owed'[w]
    <3>1. CASE Has(mEvents[v], stack[v], mSyncTask, e)
      <4>1. e.task \notin owed[w]
        BY <3>1 DEF Work, Exclusive
      <4>2. e.task # n
        <5>1. RunOf(e).event = e
          BY DEF RunOf
        <5> QED
          BY <1>4, <1>8, <3>1, <5>1 DEF Work, Numbered, Has
      <4> QED
        BY <1>10, <4>1, <4>2
    <3>2. CASE v = u /\ e = sent
      <4>1. n \notin owed[w]
        BY <1>3, <1>4 DEF Work, Numbered
      <4> QED
        BY <1>2, <1>10, <3>2, <4>1
    <3> QED
      BY <1>13, <2>1, <3>1, <3>2
  <2> QED
    BY <2>1 DEF Exclusive
<1>16. Replies'
  <2>1. ASSUME NEW v \in Threads, NEW f \in Firm(stack'[v]), f.op = "reply"
        PROVE  f.event.kind = "sync" /\ f.event.task \notin mSyncTask'
    <3>1. f \in Firm(stack[v])
      OBVIOUS
    <3>2. f.event.kind = "sync" /\ f.event.task \notin mSyncTask
      BY <2>1, <3>1 DEF Work, Replies
    <3>3. f.event.task # n
      BY <1>4, <1>11, <3>1 DEF Work, Numbered
    <3> QED
      BY <1>6, <3>2, <3>3
  <2> QED
    BY <2>1 DEF Replies
<1> QED
  BY <1>12, <1>14, <1>15, <1>16 DEF Work


-----------------------------------------------------------------------------
(***************************************************************************)
(* The contexts of Shutdown.                                               *)
(***************************************************************************)

\* The frame of the Shutdown that waits for the acknowledgement e.
WaitFor(e) == [op |-> "shutdown", event |-> e]

Gone == {"ended", "joined"}

\* A shutdown event is on its way from a Shutdown that waits.
Requested ==
    \A t \in Threads : \A e \in Within(mEvents[t]) : e.kind = "shutdown" =>
        /\ t # Main /\ e.thread = Main
        /\ WaitFor(SystemEvent("ack", t)) \in Firm(stack[Main])

\* An acknowledgement is on its way to one, from a thread that has ended, and has
\* not been there before.
Acknowledged ==
    /\ \A t \in Threads : \A e \in Within(mEvents[t]) : e.kind = "ack" =>
          /\ t = Main /\ pc[e.thread] = "ended" /\ e.thread \notin shutdownAck
          /\ WaitFor(e) \in Firm(stack[Main])
    /\ \A t \in Threads : OnceAtMost(mEvents[Main], SystemEvent("ack", t))
    /\ \A t \in Threads : t \in shutdownAck => pc[t] \in Gone

\* A thread that has the context, and has not acknowledged it, has it from one.
InShutdown ==
    /\ \A t \in Threads : mShutdownContext[t] # None /\ pc[t] \notin Gone =>
          WaitFor(SystemEvent("ack", t)) \in Firm(stack[Main])
    /\ \A f \in Firm(stack[Main]) : f.op = "shutdown" => f.event.kind = "ack"

Contexts == Requested /\ Acknowledged /\ InShutdown

\* No call of Shutdown begins or ends.
CallsKept(s, r) == \A f : f.op = "shutdown" => (f \in Firm(r[Main]) <=> f \in Firm(s[Main]))

\* An event of the shutdown protocol is determined by its kind and its thread.
LEMMA AckIs ==
    ASSUME NEW e \in Event, e.kind = "ack"
    PROVE  e = SystemEvent("ack", e.thread) /\ e.thread \in Threads
  BY DEF Event, SystemEvent

LEMMA WaitsFor == \A e : WaitFor(e).op = "shutdown" /\ WaitFor(e).event = e
  BY DEF WaitFor

\* A step that has nothing to do with Shutdown keeps the contexts.
LEMMA ContextsKept ==
    ASSUME Base, Base', Contexts, mShutdownContext' = mShutdownContext, shutdownAck' = shutdownAck,
           \A v \in Threads : pc'[v] = pc[v] \/ (pc[v] \notin Gone /\ pc'[v] \notin Gone),
           \A v \in Threads : \A e \in Within(mEvents'[v]) :
              e \in Within(mEvents[v]) \/ e.kind \notin {"shutdown", "ack"},
           \A v \in Threads : OnceAtMost(mEvents[Main], SystemEvent("ack", v))
                                 => OnceAtMost(mEvents'[Main], SystemEvent("ack", v)),
           CallsKept(stack, stack')
    PROVE  Contexts'
<1>1. \A v \in Threads : Within(mEvents[v]) \subseteq Event
  BY NothingWithin DEF Base, Typed
<1>2. \A e : WaitFor(e) \in Firm(stack[Main]) => WaitFor(e) \in Firm(stack'[Main])
  BY WaitsFor DEF CallsKept
<1>3. Requested'
  BY <1>2 DEF Contexts, Requested
<1>4. Acknowledged'
  <2>1. ASSUME NEW v \in Threads, NEW e \in Within(mEvents'[v]), e.kind = "ack"
        PROVE  /\ v = Main /\ pc'[e.thread] = "ended" /\ e.thread \notin shutdownAck'
               /\ WaitFor(e) \in Firm(stack'[Main])
    <3>1. e \in Within(mEvents[v]) /\ e \in Event
      BY <1>1, <2>1
    <3>2. /\ v = Main /\ pc[e.thread] = "ended" /\ e.thread \notin shutdownAck
          /\ WaitFor(e) \in Firm(stack[Main])
      BY <2>1, <3>1 DEF Contexts, Acknowledged
    <3>3. e.thread \in Threads
      BY <2>1, <3>1, AckIs
    <3>4. pc'[e.thread] = "ended"
      BY <3>2, <3>3 DEF Gone
    <3> QED
      BY <1>2, <3>2, <3>4
  <2>2. \A t \in Threads : OnceAtMost(mEvents'[Main], SystemEvent("ack", t))
    BY DEF Contexts, Acknowledged
  <2>3. \A t \in Threads : t \in shutdownAck' => pc'[t] \in Gone
    BY DEF Contexts, Acknowledged
  <2> QED
    BY <2>1, <2>2, <2>3 DEF Acknowledged
<1>5. InShutdown'
  <2>1. \A t \in Threads : mShutdownContext'[t] # None /\ pc'[t] \notin Gone =>
           WaitFor(SystemEvent("ack", t)) \in Firm(stack'[Main])
    BY <1>2 DEF Contexts, InShutdown
  <2>2. \A f \in Firm(stack'[Main]) : f.op = "shutdown" => f.event.kind = "ack"
    BY DEF Contexts, InShutdown, CallsKept
  <2> QED
    BY <2>1, <2>2 DEF InShutdown
<1> QED
  BY <1>3, <1>4, <1>5 DEF Contexts

\* RunShutdownEvent: the event came from a Shutdown that waits.
LEMMA ContextsRunShutdownEvent ==
    ASSUME Base, Base', Contexts, NEW t \in Threads, Got(mEvents, mEvents', t, NextEvent(mEvents[t])),
           NextEvent(mEvents[t]).kind = "shutdown", Same(stack, stack', t),
           mShutdownContext' = [mShutdownContext EXCEPT ![t] = Main],
           shutdownAck' = shutdownAck, pc' = pc
    PROVE  Contexts'
<1>1. Main \in Threads /\ mShutdownContext \in [Threads -> Threads \cup {None}]
  BY BoundsAssumption DEF Main, Threads, Base, Typed, TypeOK
<1>2. \A v \in Threads : \A f : f \in Firm(stack'[v]) <=> f \in Firm(stack[v])
  BY DEF Same
<1>3. \A v \in Threads : \A x : x \in Within(mEvents'[v]) => x \in Within(mEvents[v])
  BY DEF Got
<1>4. \A v \in Threads : OnceAtMost(mEvents'[Main], SystemEvent("ack", v))
  <2>1. \A v \in Threads : OnceAtMost(mEvents[Main], SystemEvent("ack", v))
    BY DEF Contexts, Acknowledged
  <2>2. CASE t = Main
    BY <2>1, <2>2 DEF Got
  <2>3. CASE t # Main
    BY <1>1, <2>1, <2>3 DEF Got
  <2> QED
    BY <2>2, <2>3
<1>5. NextEvent(mEvents[t]) \in Within(mEvents[t])
  BY DEF Got
<1>6. WaitFor(SystemEvent("ack", t)) \in Firm(stack[Main])
  BY <1>5 DEF Contexts, Requested
<1>7. Requested'
  BY <1>1, <1>2, <1>3 DEF Contexts, Requested
<1>8. Acknowledged'
  BY <1>1, <1>2, <1>3, <1>4 DEF Contexts, Acknowledged
<1>9. InShutdown'
  BY <1>1, <1>2, <1>6 DEF Contexts, InShutdown
<1> QED
  BY <1>7, <1>8, <1>9 DEF Contexts

\* RunShutdownAck: the acknowledgement comes once.
LEMMA ContextsRunShutdownAck ==
    ASSUME Base, Base', Contexts, NEW t \in Threads, Got(mEvents, mEvents', t, NextEvent(mEvents[t])),
           NextEvent(mEvents[t]).kind = "ack", Same(stack, stack', t),
           shutdownAck' = shutdownAck \cup {NextEvent(mEvents[t]).thread},
           mShutdownContext' = mShutdownContext, pc' = pc
    PROVE  Contexts'
<1> DEFINE h == NextEvent(mEvents[t])
<1>1. Main \in Threads
  BY BoundsAssumption DEF Main, Threads
<1>2. \A v \in Threads : \A f : f \in Firm(stack'[v]) <=> f \in Firm(stack[v])
  BY DEF Same
<1>3. \A v \in Threads : \A x : x \in Within(mEvents'[v]) => x \in Within(mEvents[v])
  BY DEF Got
<1>4. h \in Event /\ h \in Within(mEvents[t]) /\ h.kind = "ack"
  BY DEF Got
<1>5. h = SystemEvent("ack", h.thread) /\ h.thread \in Threads
  BY <1>4, AckIs
<1>6. t = Main /\ pc[h.thread] = "ended"
  BY <1>4 DEF Contexts, Acknowledged
<1>7. OnceAtMost(mEvents[Main], h)
  BY <1>5 DEF Contexts, Acknowledged
<1>8. h \notin Within(mEvents'[Main]) /\ \A x : OnceAtMost(mEvents[Main], x) => OnceAtMost(mEvents'[Main], x)
  BY <1>6, <1>7 DEF Got
<1>9. shutdownAck' = shutdownAck \cup {h.thread}
  OBVIOUS
<1>10. Within(mEvents'[Main]) \subseteq Event
  BY <1>1, NothingWithin DEF Base, Typed
<1> HIDE DEF h
<1>11. Requested'
  BY <1>1, <1>2, <1>3 DEF Contexts, Requested
<1>12. Acknowledged'
  <2>1. ASSUME NEW v \in Threads, NEW e \in Within(mEvents'[v]), e.kind = "ack"
        PROVE  /\ v = Main /\ pc'[e.thread] = "ended" /\ e.thread \notin shutdownAck'
               /\ WaitFor(e) \in Firm(stack'[Main])
    <3>1. /\ v = Main /\ pc[e.thread] = "ended" /\ e.thread \notin shutdownAck
          /\ WaitFor(e) \in Firm(stack[Main])
      BY <1>3, <2>1 DEF Contexts, Acknowledged
    <3>2. e \in Event /\ e # h
      BY <1>8, <1>10, <3>1
    <3>3. e = SystemEvent("ack", e.thread)
      BY <2>1, <3>2, AckIs
    <3>4. e.thread # h.thread
      BY <1>5, <3>2, <3>3
    <3> QED
      BY <1>1, <1>2, <1>9, <3>1, <3>4
  <2>2. \A v \in Threads : OnceAtMost(mEvents'[Main], SystemEvent("ack", v))
    BY <1>8 DEF Contexts, Acknowledged
  <2>3. \A v \in Threads : v \in shutdownAck' => pc'[v] \in Gone
    BY <1>6, <1>9 DEF Contexts, Acknowledged, Gone
  <2> QED
    BY <2>1, <2>2, <2>3 DEF Acknowledged
<1>13. InShutdown'
  BY <1>1, <1>2 DEF Contexts, InShutdown
<1> QED
  BY <1>11, <1>12, <1>13 DEF Contexts


\* The fields of an event of the machinery.
LEMMA SystemFields ==
    \A kind, t : /\ SystemEvent(kind, t).kind = kind
                 /\ SystemEvent(kind, t).thread = t
                 /\ SystemEvent(kind, t).task = 0
  BY DEF SystemEvent

\* Shutdown: it waits before anything else happens.
LEMMA ContextsShutdown ==
    ASSUME Base, Base', Contexts, NEW t \in Threads \ {Main}, pc' = pc,
           Plus(stack, stack', Main, WaitFor(SystemEvent("ack", t))),
           \/ mEvents' = mEvents
           \/ Put(mEvents, mEvents', t, SystemEvent("shutdown", Main)),
           mShutdownContext' = mShutdownContext, shutdownAck' = shutdownAck
    PROVE  Contexts'
<1> DEFINE sent == SystemEvent("shutdown", Main)
           call == WaitFor(SystemEvent("ack", t))
<1>1. Main \in Threads /\ t # Main
  BY BoundsAssumption DEF Main, Threads
<1>2. \A f : f \in Firm(stack'[Main]) <=> f \in Firm(stack[Main]) \/ f = call
  BY DEF Plus
<1>3. \A v \in Threads : \A x \in Within(mEvents'[v]) : x \in Within(mEvents[v]) \/ (v = t /\ x = sent)
  BY DEF Put
<1>4. \A x : OnceAtMost(mEvents[Main], x) => OnceAtMost(mEvents'[Main], x)
  BY <1>1 DEF Put
<1>5. sent.kind = "shutdown" /\ sent.thread = Main
  BY SystemFields
<1>6. call = WaitFor(SystemEvent("ack", t)) /\ call.event.kind = "ack"
  BY SystemFields, WaitsFor
<1> HIDE DEF sent, call
<1>7. Requested'
  <2>1. ASSUME NEW v \in Threads, NEW e \in Within(mEvents'[v]), e.kind = "shutdown"
        PROVE  /\ v # Main /\ e.thread = Main
               /\ WaitFor(SystemEvent("ack", v)) \in Firm(stack'[Main])
    <3>1. CASE e \in Within(mEvents[v])
      BY <1>2, <2>1, <3>1 DEF Contexts, Requested
    <3>2. CASE v = t /\ e = sent
      BY <1>1, <1>2, <1>5, <1>6, <3>2
    <3> QED
      BY <1>3, <3>1, <3>2
  <2> QED
    BY <2>1 DEF Requested
<1>8. Acknowledged'
  <2>1. \A v \in Threads : \A e \in Within(mEvents'[v]) : e.kind = "ack" =>
           /\ v = Main /\ pc'[e.thread] = "ended" /\ e.thread \notin shutdownAck'
           /\ WaitFor(e) \in Firm(stack'[Main])
    BY <1>2, <1>3, <1>5 DEF Contexts, Acknowledged
  <2>2. \A v \in Threads : OnceAtMost(mEvents'[Main], SystemEvent("ack", v))
    BY <1>4 DEF Contexts, Acknowledged
  <2>3. \A v \in Threads : v \in shutdownAck' => pc'[v] \in Gone
    BY DEF Contexts, Acknowledged
  <2> QED
    BY <2>1, <2>2, <2>3 DEF Acknowledged
<1>9. InShutdown'
  BY <1>2, <1>6 DEF Contexts, InShutdown
<1> QED
  BY <1>7, <1>8, <1>9 DEF Contexts

\* Acknowledge: the thread has not acknowledged before.
LEMMA ContextsAcknowledge ==
    ASSUME Base, Base', Contexts, NEW t \in Threads \ {Main}, mShutdownContext[t] = Main,
           pc[t] = "doomed", pc' = [pc EXCEPT ![t] = "ended"],
           Put(mEvents, mEvents', Main, SystemEvent("ack", t)), stack' = stack,
           mShutdownContext' = mShutdownContext, shutdownAck' = shutdownAck
    PROVE  Contexts'
<1> DEFINE sent == SystemEvent("ack", t)
<1>1. /\ Main \in Threads /\ Main # None
      /\ pc \in [Threads -> {"none", "starting", "loop", "drain", "doomed", "ended", "joined"}]
  BY BoundsAssumption, NoneAssumption DEF Main, Threads, Base, Typed, TypeOK
<1>2. \A v \in Threads : \A x \in Within(mEvents'[v]) : x \in Within(mEvents[v]) \/ (v = Main /\ x = sent)
  BY DEF Put
<1>3. WaitFor(sent) \in Firm(stack[Main])
  BY <1>1 DEF Contexts, InShutdown, Gone
<1>4. t \notin shutdownAck
  BY DEF Contexts, Acknowledged, Gone
<1>5. sent.kind = "ack" /\ sent.thread = t
  BY SystemFields
<1>6. sent \notin Within(mEvents[Main])
  BY <1>1, <1>5 DEF Contexts, Acknowledged
<1>7. \A v \in Threads : pc'[v] = IF v = t THEN "ended" ELSE pc[v]
  BY <1>1
<1>8. \A x : OnceAtMost(mEvents[Main], x) /\ (x = sent => x \notin Within(mEvents[Main]))
                => OnceAtMost(mEvents'[Main], x)
  BY DEF Put
<1>9. \A v \in Threads : Within(mEvents[v]) \subseteq Event
  BY NothingWithin DEF Base, Typed
<1> HIDE DEF sent
<1>10. Requested'
  <2>1. ASSUME NEW v \in Threads, NEW e \in Within(mEvents'[v]), e.kind = "shutdown"
        PROVE  /\ v # Main /\ e.thread = Main
               /\ WaitFor(SystemEvent("ack", v)) \in Firm(stack'[Main])
    <3>1. e # sent
      BY <1>5, <2>1
    <3>2. e \in Within(mEvents[v])
      BY <1>2, <3>1
    <3> QED
      BY <2>1, <3>2 DEF Contexts, Requested
  <2> QED
    BY <2>1 DEF Requested
<1>11. Acknowledged'
  <2>1. ASSUME NEW v \in Threads, NEW e \in Within(mEvents'[v]), e.kind = "ack"
        PROVE  /\ v = Main /\ pc'[e.thread] = "ended" /\ e.thread \notin shutdownAck'
               /\ WaitFor(e) \in Firm(stack'[Main])
    <3>1. CASE e \in Within(mEvents[v])
      <4>1. /\ v = Main /\ pc[e.thread] = "ended" /\ e.thread \notin shutdownAck
            /\ WaitFor(e) \in Firm(stack[Main])
        BY <2>1, <3>1 DEF Contexts, Acknowledged
      <4>2. e.thread \in Threads
        BY <1>9, <2>1, <3>1, AckIs
      <4> QED
        BY <1>7, <4>1, <4>2
    <3>2. CASE v = Main /\ e = sent
      BY <1>3, <1>4, <1>5, <1>7, <3>2
    <3> QED
      BY <1>2, <3>1, <3>2
  <2>2. \A v \in Threads : OnceAtMost(mEvents'[Main], SystemEvent("ack", v))
    BY <1>6, <1>8 DEF Contexts, Acknowledged
  <2>3. \A v \in Threads : v \in shutdownAck' => pc'[v] \in Gone
    BY <1>7 DEF Contexts, Acknowledged, Gone
  <2> QED
    BY <2>1, <2>2, <2>3 DEF Acknowledged
<1>12. InShutdown'
  BY <1>7 DEF Contexts, InShutdown, Gone
<1> QED
  BY <1>10, <1>11, <1>12 DEF Contexts

\* Join: no other thread uses the context that goes, and the joined one has done so.
LEMMA ContextsJoin ==
    ASSUME Base, Base', Contexts, Join, NEW done \in Event, done = Top(Main).event,
           Less(stack, stack', Main, WaitFor(done))
    PROVE  Contexts'
<1> DEFINE t == done.thread
<1>1. /\ Main \in Threads
      /\ pc \in [Threads -> {"none", "starting", "loop", "drain", "doomed", "ended", "joined"}]
  BY BoundsAssumption DEF Main, Threads, Base, Typed, TypeOK
<1>2. /\ t \in shutdownAck /\ pc[t] = "ended" /\ pc' = [pc EXCEPT ![t] = "joined"]
      /\ mEvents' = mEvents /\ mShutdownContext' = mShutdownContext /\ shutdownAck' = shutdownAck
  BY DEF Join, thread, answers
<1>3. /\ \A f : f \in Firm(stack'[Main]) => f \in Firm(stack[Main])
      /\ \A f : f \in Firm(stack[Main]) => f \in Firm(stack'[Main]) \/ f = WaitFor(done)
      /\ WaitFor(done) \in Firm(stack[Main])
  BY DEF Less
<1>4. done.kind = "ack"
  BY <1>3, WaitsFor DEF Contexts, InShutdown
<1>5. done = SystemEvent("ack", t) /\ t \in Threads
  BY <1>4, AckIs
<1>6. \A v \in Threads : pc'[v] = IF v = t THEN "joined" ELSE pc[v]
  BY <1>1, <1>2, <1>5
<1>7. \A v \in Threads : Within(mEvents[v]) \subseteq Event
  BY NothingWithin DEF Base, Typed
<1>8. Within(mEvents[t]) = {}
  BY <1>2, <1>5 DEF Base, Places, Placed, Ended
<1> HIDE DEF t
<1>9. \A v \in Threads \ {t} : WaitFor(SystemEvent("ack", v)) \in Firm(stack[Main])
                                  => WaitFor(SystemEvent("ack", v)) \in Firm(stack'[Main])
  BY <1>3, <1>5, SystemFields, WaitsFor
<1>10. Requested'
  <2>1. ASSUME NEW v \in Threads, NEW e \in Within(mEvents'[v]), e.kind = "shutdown"
        PROVE  /\ v # Main /\ e.thread = Main
               /\ WaitFor(SystemEvent("ack", v)) \in Firm(stack'[Main])
    <3>1. e \in Within(mEvents[v])
      BY <1>2
    <3>2. v # t
      BY <1>8, <3>1
    <3> QED
      BY <1>9, <2>1, <3>1, <3>2 DEF Contexts, Requested
  <2> QED
    BY <2>1 DEF Requested
<1>11. Acknowledged'
  <2>1. ASSUME NEW v \in Threads, NEW e \in Within(mEvents'[v]), e.kind = "ack"
        PROVE  /\ v = Main /\ pc'[e.thread] = "ended" /\ e.thread \notin shutdownAck'
               /\ WaitFor(e) \in Firm(stack'[Main])
    <3>1. e \in Within(mEvents[v]) /\ e \in Event
      BY <1>2, <1>7
    <3>2. /\ v = Main /\ pc[e.thread] = "ended" /\ e.thread \notin shutdownAck
          /\ WaitFor(e) \in Firm(stack[Main])
      BY <2>1, <3>1 DEF Contexts, Acknowledged
    <3>3. e = SystemEvent("ack", e.thread) /\ e.thread \in Threads
      BY <2>1, <3>1, AckIs
    <3>4. e.thread # t
      BY <1>2, <3>2 DEF t
    <3>5. WaitFor(e) \in Firm(stack'[Main])
      BY <1>9, <3>2, <3>3, <3>4
    <3> QED
      BY <1>2, <1>6, <3>2, <3>3, <3>4, <3>5
  <2>2. \A v \in Threads : OnceAtMost(mEvents'[Main], SystemEvent("ack", v))
    BY <1>2 DEF Contexts, Acknowledged
  <2>3. \A v \in Threads : v \in shutdownAck' => pc'[v] \in Gone
    BY <1>2, <1>6 DEF Contexts, Acknowledged, Gone
  <2> QED
    BY <2>1, <2>2, <2>3 DEF Acknowledged
<1>12. InShutdown'
  <2>1. \A v \in Threads : mShutdownContext'[v] # None /\ pc'[v] \notin Gone =>
           WaitFor(SystemEvent("ack", v)) \in Firm(stack'[Main])
    BY <1>2, <1>6, <1>9 DEF Contexts, InShutdown, Gone
  <2>2. \A f \in Firm(stack'[Main]) : f.op = "shutdown" => f.event.kind = "ack"
    BY <1>3 DEF Contexts, InShutdown
  <2> QED
    BY <2>1, <2>2 DEF InShutdown
<1> QED
  BY <1>10, <1>11, <1>12 DEF Contexts


-----------------------------------------------------------------------------
(***************************************************************************)
(* The inductive invariant.                                                *)
(***************************************************************************)
Inv == Base /\ Work /\ Contexts

\* Frames that are not firm are no runnables that run and no calls of Shutdown.
LEMMA SameKeeps ==
    ASSUME NEW s, NEW r, NEW u \in Threads, Same(s, r, u)
    PROVE  RunsKept(s, r) /\ CallsKept(s, r)
<1>1. Main \in Threads
  BY BoundsAssumption DEF Main, Threads
<1>2. \A v \in Threads : \A f : f \in Firm(r[v]) <=> f \in Firm(s[v])
  BY DEF Same
<1> QED
  BY <1>1, <1>2 DEF RunsKept, CallsKept

\* A call of Shutdown that begins is no runnable, and neither is one that ends.
LEMMA CallsAreNoRuns ==
    ASSUME NEW s, NEW r, NEW e,
           (e.task = 0 /\ Plus(s, r, Main, WaitFor(e))) \/ Less(s, r, Main, WaitFor(e))
    PROVE  RunsKept(s, r)
<1>1. Main \in Threads /\ WaitFor(e).op = "shutdown" /\ WaitFor(e).event = e
  BY BoundsAssumption, WaitsFor DEF Main, Threads
<1>2. CASE e.task = 0 /\ Plus(s, r, Main, WaitFor(e))
  <2>1. \A v \in Threads : \A f : f \in Firm(r[v]) <=> f \in Firm(s[v]) \/ (v = Main /\ f = WaitFor(e))
    BY <1>2 DEF Plus
  <2> QED
    BY <1>1, <1>2, <2>1 DEF RunsKept
<1>3. CASE Less(s, r, Main, WaitFor(e))
  <2>1. /\ \A v \in Threads : \A f : f \in Firm(r[v]) => f \in Firm(s[v])
        /\ \A v \in Threads : \A f : f \in Firm(s[v]) => f \in Firm(r[v]) \/ (v = Main /\ f = WaitFor(e))
    BY <1>3 DEF Less
  <2> QED
    BY <1>1, <2>1 DEF RunsKept
<1> QED
  BY <1>2, <1>3

\* Nor is a runnable that begins or ends a call of Shutdown.
LEMMA RunsAreNoCalls ==
    ASSUME NEW s, NEW r, NEW t \in Threads, NEW f, NEW g, f.op \in {"run", "reply"},
           g.op \in {"run", "reply"},
           Plus(s, r, t, f) \/ Less(s, r, t, f) \/ Swap(s, r, t, f, g)
    PROVE  CallsKept(s, r)
<1>1. Main \in Threads
  BY BoundsAssumption DEF Main, Threads
<1>2. CASE t # Main
  BY <1>1, <1>2 DEF CallsKept, Plus, Less, Swap
<1>3. CASE t = Main
  BY <1>3 DEF CallsKept, Plus, Less, Swap
<1> QED
  BY <1>2, <1>3

\* The first state: the main thread runs the program.
LEMMA InvInit == Init => Inv
<1> SUFFICES ASSUME Init PROVE Inv
  OBVIOUS
<1> DEFINE first == TaskEvent("task", Main, 1)
           start == [op |-> "run", event |-> first]
<1>1. Main \in Threads /\ MaxTasks \in Nat \ {0} /\ Main # None /\ Main = 0
  BY BoundsAssumption, NoneAssumption DEF Main, Threads
<1>2. /\ first \in Event /\ first.task = 1 /\ first.kind = "task" /\ 1 \in Tasks
      /\ start \in Frame /\ start.op = "run" /\ start.event = first
  BY <1>1 DEF TaskEvent, Event, Frame, Tasks
<1>3. /\ \A t \in Threads : mEvents[t] = NewQueue
      /\ \A t \in Threads : ~mEventsAreDoomed[t]
      /\ \A t \in Threads : mShutdownContext[t] = None
      /\ shutdownAck = {} /\ mSyncTask = {} /\ dispatched = 1
      /\ \A t \in Threads : pc[t] = IF t = Main THEN "loop" ELSE "none"
      /\ \A t \in Threads : stack[t] = IF t = Main THEN <<start>> ELSE <<>>
      /\ \A t \in Threads : owed[t] = IF t = Main THEN {1} ELSE {}
  BY DEF Init
<1> HIDE DEF start, first
<1>4. WellFormed(NewQueue, Event) /\ Within(NewQueue) = {} /\ NewQueue \in Queue(Event)
      /\ \A x : OnceAtMost(NewQueue, x)
  <2>1. WellFormed(NewQueue, Event) /\ Contents(NewQueue) = <<>>
    BY NewIsEmpty
  <2>2. Within(NewQueue) = {}
    BY <2>1, NothingWithin
  <2>3. Count(NewQueue) = 0
    BY DEF NewQueue, Count
  <2>4. \A x : OnceAtMost(NewQueue, x)
    BY <2>3 DEF OnceAtMost
  <2> QED
    BY <2>1, <2>2, <2>4 DEF WellFormed
<1>5. /\ <<start>> \in Seq(Frame) /\ Frames(<<start>>) = {start} /\ Frames(<<>>) = {}
      /\ <<>> \in Seq(Frame) /\ <<start>> # <<>>
  BY <1>2 DEF Frames
<1>6. /\ \A t \in Threads : stack[t] \in Seq(Frame)
      /\ \A t \in Threads : \A f : f \in Firm(stack[t]) <=> t = Main /\ f = start
  BY <1>2, <1>3, <1>5 DEF Firm
<1>7. Typed
  <2>1. mEvents \in [Threads -> Queue(Event)]
    BY <1>4 DEF Init
  <2>2. stack \in [Threads -> Seq(Frame)]
    <3>1. stack = [t \in Threads |-> stack[t]]
      BY DEF Init
    <3> QED
      BY <1>6, <3>1
  <2>3. owed \in [Threads -> SUBSET Tasks]
    BY <1>2 DEF Init
  <2>4. /\ mEventsAreDoomed \in [Threads -> BOOLEAN]
        /\ mShutdownContext \in [Threads -> Threads \cup {None}]
        /\ mShutdownRequired \in [Threads -> BOOLEAN]
        /\ shutdownAck \subseteq Threads /\ mSyncTask \subseteq Tasks
        /\ pc \in [Threads -> {"none", "starting", "loop", "drain", "doomed", "ended", "joined"}]
        /\ dispatched \in Nat
    BY DEF Init
  <2> QED
    BY <1>3, <1>4, <2>1, <2>2, <2>3, <2>4 DEF Typed, TypeOK
<1>8. Places
  <2>1. ASSUME NEW t \in Threads PROVE Placed(t)
    <3>1. pc[t] \in {"loop", "none"} /\ ~mEventsAreDoomed[t] /\ mShutdownContext[t] = None
      BY <1>3
    <3>2. pc[t] = "none" => stack[t] = <<>> /\ owed[t] = {}
      BY <1>3
    <3>3. pc[t] \notin Ended /\ pc[t] \notin {"drain", "doomed"}
      BY <3>1 DEF Ended
    <3> QED
      BY <3>1, <3>2, <3>3 DEF Placed
  <2>2. ASSUME NEW t \in Threads PROVE Awaited(t)
    BY <1>3 DEF Awaited
  <2> QED
    BY <1>1, <1>3, <2>1, <2>2 DEF Places
<1>9. Numbered
  BY <1>2, <1>3, <1>4, <1>6 DEF Numbered
<1>10. Owing
  <2>1. ASSUME NEW t \in Threads, NEW n \in owed[t]
        PROVE  \E e \in Event : e.task = n /\ Has(mEvents[t], stack[t], mSyncTask, e)
    <3>1. t = Main /\ n = 1
      BY <1>3
    <3>2. RunOf(first) = start
      BY DEF RunOf, start
    <3>3. first.task = n /\ Has(mEvents[t], stack[t], mSyncTask, first)
      BY <1>2, <1>6, <3>1, <3>2 DEF Has
    <3> QED
      BY <1>2, <3>3
  <2> QED
    BY <2>1 DEF Owing
<1>11. Exclusive
  <2>1. ASSUME NEW t \in Threads, NEW u \in Threads \ {t}, NEW e \in Event,
               Has(mEvents[t], stack[t], mSyncTask, e)
        PROVE  e.task \notin owed[u]
    <3>1. t = Main
      BY <1>3, <1>4, <1>6, <2>1 DEF Has
    <3> QED
      BY <1>3, <3>1
  <2> QED
    BY <2>1 DEF Exclusive
<1>12. Replies
  BY <1>2, <1>6 DEF Replies
<1>13. Contexts
  <2>1. Requested
    BY <1>3, <1>4 DEF Requested
  <2>2. Acknowledged
    BY <1>1, <1>3, <1>4 DEF Acknowledged
  <2>3. InShutdown
    BY <1>1, <1>2, <1>3, <1>6 DEF InShutdown
  <2> QED
    BY <2>1, <2>2, <2>3 DEF Contexts
<1> QED
  BY <1>7, <1>8, <1>9, <1>10, <1>11, <1>12, <1>13 DEF Inv, Base, Work


\* The parts of the invariant.
LEMMA InvParts ==
    Inv => /\ Base /\ Work /\ Contexts /\ Main \in Threads
           /\ dispatched \in Nat /\ \A v \in Threads : Placed(v)
           /\ dispatched >= dispatched
<1> SUFFICES ASSUME Inv PROVE /\ dispatched \in Nat /\ \A v \in Threads : Placed(v)
                              /\ Main \in Threads
  BY DEF Inv
<1> QED
  BY BoundsAssumption DEF Inv, Main, Threads, Base, Typed, TypeOK, Places

\* ProcessStartup
LEMMA InvProcessStartup ==
    ASSUME Inv, NEW t \in Threads, ProcessStartup(t)
    PROVE  Inv'
<1> DEFINE h == NextEvent(mEvents[t])
<1>1. Base' /\ Got(mEvents, mEvents', t, h) /\ Same(stack, stack', Main)
  BY InvParts, ProcessStartupStep
<1>2. /\ pc[t] = "starting" /\ pc' = [pc EXCEPT ![t] = "loop"]
      /\ mShutdownContext' = mShutdownContext /\ shutdownAck' = shutdownAck
      /\ dispatched' = dispatched /\ mSyncTask' = mSyncTask /\ owed' = owed
  BY DEF ProcessStartup, answers, history
<1>3. h \in Event /\ owed[t] = {}
  BY InvParts, <1>1, <1>2 DEF Got, Placed
<1>4. RunsKept(stack, stack') /\ CallsKept(stack, stack')
  BY InvParts, <1>1, SameKeeps
<1> HIDE DEF h
<1>5. Work'
  BY InvParts, <1>1, <1>2, <1>3, <1>4, WorkGot
<1>6. \A v \in Threads : pc'[v] = pc[v] \/ (pc[v] \notin Gone /\ pc'[v] \notin Gone)
  BY InvParts, <1>2 DEF Base, Typed, TypeOK, Gone
<1>7. /\ \A v \in Threads : \A e \in Within(mEvents'[v]) : e \in Within(mEvents[v])
      /\ \A x : OnceAtMost(mEvents[Main], x) => OnceAtMost(mEvents'[Main], x)
  BY InvParts, <1>1 DEF Got
<1>8. Contexts'
  BY InvParts, <1>1, <1>2, <1>4, <1>6, <1>7, ContextsKept
<1> QED
  BY <1>1, <1>5, <1>8 DEF Inv

\* DispatchFails
LEMMA InvDispatchFails ==
    ASSUME Inv, NEW t \in Threads, NEW u \in Threads, DispatchFails(t, u)
    PROVE  Inv'
<1>1. Base' /\ mEvents' = mEvents /\ stack' = stack
  BY InvParts, DispatchFailsStep
<1>2. /\ pc' = pc /\ mShutdownContext' = mShutdownContext /\ shutdownAck' = shutdownAck
      /\ dispatched' = dispatched + 1 /\ mSyncTask' = mSyncTask /\ owed' = owed
  BY DEF DispatchFails, thread, answers, control
<1>3. RunsKept(stack, stack') /\ CallsKept(stack, stack')
  BY <1>1 DEF RunsKept, CallsKept
<1>4. dispatched' >= dispatched
  BY InvParts, <1>2
<1>5. Work'
  BY InvParts, <1>1, <1>2, <1>3, <1>4, WorkUnchanged
<1>6. Contexts'
  BY InvParts, <1>1, <1>2, <1>3, ContextsKept
<1> QED
  BY <1>1, <1>5, <1>6 DEF Inv

\* DispatchNormal and DispatchSync
LEMMA InvDispatch ==
    ASSUME Inv, NEW t \in Threads, NEW u \in Threads, DispatchNormal(t, u) \/ DispatchSync(t, u)
    PROVE  Inv'
<1>1. /\ Base' /\ Same(stack, stack', t)
  <2>1. CASE DispatchNormal(t, u)
    <3>1. Base' /\ stack' = stack
      BY InvParts, <2>1, DispatchNormalStep
    <3> QED
      BY InvParts, <3>1 DEF Same, Base, Typed, TypeOK
  <2>2. CASE DispatchSync(t, u)
    BY InvParts, <2>2, DispatchSyncStep
  <2> QED
    BY <2>1, <2>2
<1>2. PICK kind \in {"task", "sync"} :
         /\ Accepted(t, u, kind)
         /\ mSyncTask' = IF kind = "sync" THEN mSyncTask \cup {dispatched + 1} ELSE mSyncTask
  <2>1. CASE DispatchNormal(t, u)
    <3>1. Accepted(t, u, "task") /\ mSyncTask' = mSyncTask
      BY <2>1 DEF DispatchNormal
    <3> QED
      BY <3>1
  <2>2. CASE DispatchSync(t, u)
    <3>1. Accepted(t, u, "sync") /\ mSyncTask' = mSyncTask \cup {dispatched + 1}
      BY <2>2 DEF DispatchSync
    <3> QED
      BY <3>1
  <2> QED
    BY <2>1, <2>2
<1>3. \A v \in Threads : \A x : x \in Firm(stack'[v]) <=> x \in Firm(stack[v])
  BY <1>1 DEF Same
<1>4. Work'
  BY InvParts, <1>1, <1>2, <1>3, WorkAccepted
<1>5. Put(mEvents, mEvents', u, TaskEvent(kind, t, dispatched + 1))
  BY InvParts, <1>2, AcceptedStep
<1>6. TaskEvent(kind, t, dispatched + 1).kind \notin {"shutdown", "ack"}
  BY DEF TaskEvent
<1>7. \A v \in Threads : \A e \in Within(mEvents'[v]) :
         e \in Within(mEvents[v]) \/ e.kind \notin {"shutdown", "ack"}
  BY <1>5, <1>6 DEF Put
<1>8. \A v \in Threads : OnceAtMost(mEvents[Main], SystemEvent("ack", v))
                            => OnceAtMost(mEvents'[Main], SystemEvent("ack", v))
  <2>1. \A v : SystemEvent("ack", v) # TaskEvent(kind, t, dispatched + 1)
    BY <1>6, SystemFields
  <2> QED
    BY InvParts, <1>5, <2>1 DEF Put
<1>9. pc' = pc /\ mShutdownContext' = mShutdownContext /\ shutdownAck' = shutdownAck
  BY <1>2 DEF Accepted
<1>10. CallsKept(stack, stack')
  BY <1>1, SameKeeps
<1>11. Contexts'
  BY InvParts, <1>1, <1>7, <1>8, <1>9, <1>10, ContextsKept
<1> QED
  BY <1>1, <1>4, <1>11 DEF Inv

\* ReturnSync, WaitSync and PollNothing
LEMMA InvWaits ==
    ASSUME Inv, NEW t \in Threads, ReturnSync(t) \/ WaitSync(t) \/ PollNothing(t)
    PROVE  Inv'
<1>1. Base' /\ Same(stack, stack', t)
  BY InvParts, ReturnSyncStep, WaitSyncStep, PollNothingStep
<1>2. /\ pc' = pc /\ mShutdownContext' = mShutdownContext /\ shutdownAck' = shutdownAck
      /\ dispatched' = dispatched /\ mSyncTask' = mSyncTask /\ owed' = owed /\ mEvents' = mEvents
  BY DEF ReturnSync, WaitSync, PollNothing, thread, answers, history
<1>3. RunsKept(stack, stack') /\ CallsKept(stack, stack')
  BY <1>1, SameKeeps
<1>4. Work'
  BY InvParts, <1>1, <1>2, <1>3, WorkUnchanged
<1>5. Contexts'
  BY InvParts, <1>1, <1>2, <1>3, ContextsKept
<1> QED
  BY <1>1, <1>4, <1>5 DEF Inv

\* RunTask and RunSync: the thread runs what it has taken, unless that has been run.
LEMMA InvTaken ==
    ASSUME Inv, NEW t \in Threads, NEW kind \in {"task", "sync"}, Takes(t, kind), Base',
           mShutdownContext' = mShutdownContext, shutdownAck' = shutdownAck,
           \/ /\ Live(NextEvent(mEvents[t]), mSyncTask)
              /\ Plus(stack, stack', t, RunOf(NextEvent(mEvents[t])))
           \/ ~Live(NextEvent(mEvents[t]), mSyncTask) /\ Same(stack, stack', t)
    PROVE  Inv'
<1> DEFINE h == NextEvent(mEvents[t])
<1>1. Got(mEvents, mEvents', t, h) /\ h.kind = kind /\ h \in Event
  BY InvParts, TakesStep DEF Got
<1>2. pc' = pc /\ dispatched' = dispatched /\ mSyncTask' = mSyncTask /\ owed' = owed
  BY DEF Takes, history
<1> HIDE DEF h
<1>3. Work'
  <2>1. CASE Live(h, mSyncTask) /\ Plus(stack, stack', t, RunOf(h))
    BY InvParts, <1>1, <1>2, <2>1, WorkRun
  <2>2. CASE ~Live(h, mSyncTask) /\ Same(stack, stack', t)
    <3>1. RunsKept(stack, stack')
      BY <2>2, SameKeeps
    <3> QED
      BY InvParts, <1>1, <1>2, <2>2, <3>1, WorkGot
  <2> QED
    BY <2>1, <2>2 DEF h
<1>4. CallsKept(stack, stack')
  <2>1. CASE Plus(stack, stack', t, RunOf(h))
    <3>1. RunOf(h).op \in {"run", "reply"}
      BY DEF RunOf
    <3> QED
      BY <2>1, <3>1, RunsAreNoCalls
  <2>2. CASE Same(stack, stack', t)
    BY <2>2, SameKeeps
  <2> QED
    BY <2>1, <2>2 DEF h
<1>5. /\ \A v \in Threads : \A e \in Within(mEvents'[v]) : e \in Within(mEvents[v])
      /\ \A x : OnceAtMost(mEvents[Main], x) => OnceAtMost(mEvents'[Main], x)
  BY InvParts, <1>1 DEF Got
<1>6. Contexts'
  BY InvParts, <1>2, <1>4, <1>5, ContextsKept
<1> QED
  BY <1>3, <1>6 DEF Inv

\* RunTask
LEMMA InvRunTask ==
    ASSUME Inv, NEW t \in Threads, RunTask(t)
    PROVE  Inv'
<1> DEFINE h == NextEvent(mEvents[t])
<1>1. Base' /\ Plus(stack, stack', t, RunOf(h))
  BY InvParts, RunTaskStep DEF RunOf
<1>2. Takes(t, "task") /\ mShutdownContext' = mShutdownContext /\ shutdownAck' = shutdownAck
  BY DEF RunTask
<1>3. Live(h, mSyncTask)
  BY <1>2 DEF Takes, Live
<1>4. Got(mEvents, mEvents', t, h) /\ h \in Event
  BY InvParts, <1>2, TakesStep DEF Got
<1> QED
  BY InvTaken, <1>1, <1>2, <1>3, <1>4


\* RunSync
LEMMA InvRunSync ==
    ASSUME Inv, NEW t \in Threads, RunSync(t)
    PROVE  Inv'
<1> DEFINE h == NextEvent(mEvents[t])
<1>1. /\ Base'
      /\ \/ h.task \in mSyncTask /\ Plus(stack, stack', t, RunOf(h))
         \/ h.task \notin mSyncTask /\ Same(stack, stack', t)
  BY InvParts, RunSyncStep DEF RunOf
<1>2. Takes(t, "sync") /\ mShutdownContext' = mShutdownContext /\ shutdownAck' = shutdownAck
  BY DEF RunSync
<1>3. h.kind = "sync"
  BY <1>2 DEF Takes
<1>4. Live(h, mSyncTask) <=> h.task \in mSyncTask
  BY <1>3 DEF Live
<1> QED
  BY <1>1, <1>2, <1>4, InvTaken

\* RunShutdownEvent
LEMMA InvRunShutdownEvent ==
    ASSUME Inv, NEW t \in Threads, RunShutdownEvent(t)
    PROVE  Inv'
<1> DEFINE h == NextEvent(mEvents[t])
<1>1. Takes(t, "shutdown") /\ shutdownAck' = shutdownAck
  BY DEF RunShutdownEvent
<1>2. Got(mEvents, mEvents', t, h) /\ h.kind = "shutdown" /\ h \in Event /\ h \in Within(mEvents[t])
  BY InvParts, <1>1, TakesStep DEF Got
<1>3. pc' = pc /\ dispatched' = dispatched /\ mSyncTask' = mSyncTask /\ owed' = owed
  BY <1>1 DEF Takes, history
<1>4. t # Main /\ h.thread = Main
  BY InvParts, <1>2 DEF Contexts, Requested
<1>5. /\ Base' /\ Same(stack, stack', t)
      /\ mShutdownContext' = [mShutdownContext EXCEPT ![t] = Main]
  BY InvParts, <1>4, RunShutdownEventStep
<1>6. h.task = 0
  BY <1>2 DEF Event
<1>7. RunsKept(stack, stack')
  BY <1>5, SameKeeps
<1>8. Contexts'
  BY InvParts, <1>1, <1>2, <1>3, <1>5, ContextsRunShutdownEvent
<1> HIDE DEF h
<1>9. Work'
  BY InvParts, <1>2, <1>3, <1>5, <1>6, <1>7, WorkGot
<1> QED
  BY <1>5, <1>8, <1>9 DEF Inv

\* RunShutdownAck
LEMMA InvRunShutdownAck ==
    ASSUME Inv, NEW t \in Threads, RunShutdownAck(t)
    PROVE  Inv'
<1> DEFINE h == NextEvent(mEvents[t])
<1>1. /\ Takes(t, "ack") /\ shutdownAck' = shutdownAck \cup {h.thread}
      /\ mShutdownContext' = mShutdownContext
  BY DEF RunShutdownAck
<1>2. Got(mEvents, mEvents', t, h) /\ h.kind = "ack" /\ h \in Event
  BY InvParts, <1>1, TakesStep DEF Got
<1>3. pc' = pc /\ dispatched' = dispatched /\ mSyncTask' = mSyncTask /\ owed' = owed
  BY <1>1 DEF Takes, history
<1>4. Base' /\ Same(stack, stack', t)
  BY InvParts, RunShutdownAckStep
<1>5. h.task = 0
  BY <1>2 DEF Event
<1>6. RunsKept(stack, stack')
  BY <1>4, SameKeeps
<1>7. Contexts'
  BY InvParts, <1>1, <1>2, <1>3, <1>4, ContextsRunShutdownAck
<1> HIDE DEF h
<1>8. Work'
  BY InvParts, <1>2, <1>3, <1>4, <1>5, <1>6, WorkGot
<1> QED
  BY <1>4, <1>7, <1>8 DEF Inv

\* EndTask and EndSyncTask
LEMMA InvEnds ==
    ASSUME Inv, NEW t \in Threads, EndTask(t) \/ EndSyncTask(t)
    PROVE  Inv'
<1>1. Base' /\ Work'
  BY InvParts, EndTaskStep, EndSyncTaskStep, WorkEndTask, WorkEndSyncTask
<1>2. /\ pc' = pc /\ mShutdownContext' = mShutdownContext /\ shutdownAck' = shutdownAck
      /\ mEvents' = mEvents
  BY DEF EndTask, EndSyncTask, thread, answers
<1>3. CallsKept(stack, stack')
  <2>1. DEFINE f == [op |-> "run", event |-> Top(t).event]
               g == [op |-> "reply", event |-> Top(t).event]
  <2>2. f.op \in {"run", "reply"} /\ g.op \in {"run", "reply"}
    OBVIOUS
  <2>3. Less(stack, stack', t, f) \/ Swap(stack, stack', t, f, g)
    BY InvParts, EndTaskStep, EndSyncTaskStep
  <2> HIDE DEF f, g
  <2> QED
    BY <2>2, <2>3, RunsAreNoCalls
<1>4. Contexts'
  BY InvParts, <1>1, <1>2, <1>3, ContextsKept
<1> QED
  BY <1>1, <1>4 DEF Inv

\* A reply that ends is no runnable that runs.
LEMMA RepliesAreNoRuns ==
    ASSUME NEW s, NEW r, NEW t \in Threads, NEW f, f.op = "reply", Less(s, r, t, f)
    PROVE  RunsKept(s, r)
<1>1. \A v \in Threads : \A x : x.op = "run" => (x \in Firm(r[v]) <=> x \in Firm(s[v]))
  BY DEF Less
<1>2. \A v \in Threads : \A x \in Firm(r[v]) : x \in Firm(s[v])
  BY DEF Less
<1> QED
  BY <1>1, <1>2 DEF RunsKept

\* Reply
LEMMA InvReply ==
    ASSUME Inv, NEW t \in Threads, Reply(t)
    PROVE  Inv'
<1> DEFINE e == Top(t).event
           u == e.thread
           f == [op |-> "reply", event |-> e]
<1>1. /\ Base' /\ Less(stack, stack', t, f) /\ e \in Event /\ u \in Threads
      /\ (mEvents' = mEvents) \/ Put(mEvents, mEvents', u, e)
  BY InvParts, ReplyStep
<1>2. /\ pc' = pc /\ mShutdownContext' = mShutdownContext /\ shutdownAck' = shutdownAck
      /\ dispatched' = dispatched /\ mSyncTask' = mSyncTask /\ owed' = owed
  BY DEF Reply, answers, history
<1>3. f.op = "reply" /\ f.event = e
  OBVIOUS
<1> HIDE DEF f, e, u
<1>4. f \in Firm(stack[t])
  BY <1>1 DEF Less
<1>5. e.kind = "sync" /\ e.task \notin mSyncTask /\ e.task <= dispatched
  BY InvParts, <1>3, <1>4 DEF Work, Replies, Numbered
<1>6. ~Live(e, mSyncTask)
  BY <1>5 DEF Live
<1>7. RunsKept(stack, stack')
  BY <1>1, <1>3, RepliesAreNoRuns
<1>8. Work'
  <2>1. CASE mEvents' = mEvents
    BY InvParts, <1>1, <1>2, <1>7, <2>1, WorkUnchanged
  <2>2. CASE Put(mEvents, mEvents', u, e)
    BY InvParts, <1>1, <1>2, <1>5, <1>6, <1>7, <2>2, WorkPut
  <2> QED
    BY <1>1, <2>1, <2>2
<1>9. CallsKept(stack, stack')
  BY <1>1, <1>3, RunsAreNoCalls
<1>10. \A v \in Threads : \A x \in Within(mEvents'[v]) :
          x \in Within(mEvents[v]) \/ x.kind \notin {"shutdown", "ack"}
  BY <1>1, <1>5 DEF Put
<1>11. \A v \in Threads : OnceAtMost(mEvents[Main], SystemEvent("ack", v))
                            => OnceAtMost(mEvents'[Main], SystemEvent("ack", v))
  <2>1. \A v : SystemEvent("ack", v) # e
    BY <1>5, SystemFields
  <2> QED
    BY InvParts, <1>1, <2>1 DEF Put
<1>12. Contexts'
  BY InvParts, <1>1, <1>2, <1>9, <1>10, <1>11, ContextsKept
<1> QED
  BY <1>1, <1>8, <1>12 DEF Inv

\* LeaveLoop and Doom
LEMMA InvMovesOn ==
    ASSUME Inv, NEW t \in Threads, LeaveLoop(t) \/ Doom(t)
    PROVE  Inv'
<1>1. Base'
  BY InvParts, LeaveLoopStep, DoomStep
<1>2. /\ mShutdownContext' = mShutdownContext /\ shutdownAck' = shutdownAck
      /\ dispatched' = dispatched /\ mSyncTask' = mSyncTask /\ owed' = owed
      /\ mEvents' = mEvents /\ stack' = stack
  BY DEF LeaveLoop, Doom, thread, answers, history
<1>3. \A v \in Threads : pc'[v] = pc[v] \/ (pc[v] \notin Gone /\ pc'[v] \notin Gone)
  BY InvParts DEF LeaveLoop, Doom, Base, Typed, TypeOK, Gone
<1>4. RunsKept(stack, stack') /\ CallsKept(stack, stack')
  BY <1>2 DEF RunsKept, CallsKept
<1>5. Work'
  BY InvParts, <1>1, <1>2, <1>4, WorkUnchanged
<1>6. Contexts'
  BY InvParts, <1>1, <1>2, <1>3, <1>4, ContextsKept
<1> QED
  BY <1>1, <1>5, <1>6 DEF Inv

\* Acknowledge
LEMMA InvAcknowledge ==
    ASSUME Inv, NEW t \in Threads, Acknowledge(t)
    PROVE  Inv'
<1> DEFINE e == SystemEvent("ack", t)
<1>1. /\ Base' /\ t # Main /\ mShutdownContext[t] = Main /\ pc[t] = "doomed"
      /\ Put(mEvents, mEvents', Main, e)
  BY InvParts, AcknowledgeStep
<1>2. /\ pc' = [pc EXCEPT ![t] = "ended"]
      /\ mShutdownContext' = mShutdownContext /\ shutdownAck' = shutdownAck
      /\ dispatched' = dispatched /\ mSyncTask' = mSyncTask /\ owed' = owed /\ stack' = stack
  BY DEF Acknowledge, answers, history
<1>3. Contexts'
  BY InvParts, <1>1, <1>2, ContextsAcknowledge
<1>4. e \in Event /\ e.task = 0
  BY DEF SystemEvent, Event
<1> HIDE DEF e
<1>5. RunsKept(stack, stack')
  BY <1>2 DEF RunsKept
<1>6. e.task <= dispatched
  BY InvParts, <1>4
<1>7. Work'
  BY InvParts, <1>1, <1>2, <1>4, <1>5, <1>6, WorkPut
<1> QED
  BY <1>1, <1>3, <1>7 DEF Inv

\* Every step of a thread keeps the invariant.
LEMMA InvStep ==
    ASSUME Inv, NEW t \in Threads, Step(t)
    PROVE  Inv'
<1>1. ASSUME NEW u \in Threads, DispatchFails(t, u) \/ DispatchNormal(t, u) \/ DispatchSync(t, u)
      PROVE  Inv'
  BY <1>1, InvDispatchFails, InvDispatch
<1>2. CASE ProcessNextEvent(t)
  BY <1>2, InvRunTask, InvRunSync, InvRunShutdownEvent, InvRunShutdownAck, InvWaits
     DEF ProcessNextEvent
<1> QED
  BY <1>1, <1>2, InvProcessStartup, InvWaits, InvEnds, InvReply, InvMovesOn, InvAcknowledge
     DEF Step

\* InitThread
LEMMA InvInitThread ==
    ASSUME Inv, NEW t \in Threads \ {Main}, InitThread(t)
    PROVE  Inv'
<1> DEFINE e == SystemEvent("startup", t)
<1>1. Base' /\ Put(mEvents, mEvents', t, e) /\ Same(stack, stack', Main)
  BY InvParts, InitThreadStep
<1>2. /\ pc' = [pc EXCEPT ![t] = "starting"] /\ pc[t] = "none"
      /\ mShutdownContext' = mShutdownContext /\ shutdownAck' = shutdownAck
      /\ dispatched' = dispatched /\ mSyncTask' = mSyncTask /\ owed' = owed
  BY DEF InitThread, answers, history
<1>3. e \in Event /\ e.task = 0 /\ e.kind = "startup"
  BY DEF SystemEvent, Event
<1> HIDE DEF e
<1>4. RunsKept(stack, stack') /\ CallsKept(stack, stack')
  BY InvParts, <1>1, SameKeeps
<1>5. e.task <= dispatched
  BY InvParts, <1>3
<1>6. Work'
  BY InvParts, <1>1, <1>2, <1>3, <1>4, <1>5, WorkPut
<1>7. \A v \in Threads : pc'[v] = pc[v] \/ (pc[v] \notin Gone /\ pc'[v] \notin Gone)
  BY InvParts, <1>2 DEF Base, Typed, TypeOK, Gone
<1>8. \A v \in Threads : \A x \in Within(mEvents'[v]) :
         x \in Within(mEvents[v]) \/ x.kind \notin {"shutdown", "ack"}
  BY <1>1, <1>3 DEF Put
<1>9. \A v \in Threads : OnceAtMost(mEvents[Main], SystemEvent("ack", v))
                            => OnceAtMost(mEvents'[Main], SystemEvent("ack", v))
  BY InvParts, <1>1 DEF Put
<1>10. Contexts'
  BY InvParts, <1>1, <1>2, <1>4, <1>7, <1>8, <1>9, ContextsKept
<1> QED
  BY <1>1, <1>6, <1>10 DEF Inv

\* Shutdown
LEMMA InvShutdown ==
    ASSUME Inv, NEW t \in Threads \ {Main}, Shutdown(t)
    PROVE  Inv'
<1> DEFINE e == SystemEvent("ack", t)
           sent == SystemEvent("shutdown", Main)
<1>1. /\ Base' /\ Plus(stack, stack', Main, WaitFor(e))
      /\ (mEvents' = mEvents) \/ Put(mEvents, mEvents', t, sent)
  BY InvParts, ShutdownStep DEF WaitFor
<1>2. /\ pc' = pc /\ mShutdownContext' = mShutdownContext /\ shutdownAck' = shutdownAck
      /\ dispatched' = dispatched /\ mSyncTask' = mSyncTask /\ owed' = owed
  BY DEF Shutdown, answers, history
<1>3. Contexts'
  BY InvParts, <1>1, <1>2, ContextsShutdown
<1>4. sent \in Event /\ sent.task = 0 /\ e.task = 0
  BY InvParts DEF SystemEvent, Event
<1> HIDE DEF e, sent
<1>5. RunsKept(stack, stack')
  BY <1>1, <1>4, CallsAreNoRuns
<1>6. sent.task <= dispatched
  BY InvParts, <1>4
<1>7. Work'
  <2>1. CASE mEvents' = mEvents
    BY InvParts, <1>1, <1>2, <1>5, <2>1, WorkUnchanged
  <2>2. CASE Put(mEvents, mEvents', t, sent)
    BY InvParts, <1>1, <1>2, <1>4, <1>5, <1>6, <2>2, WorkPut
  <2> QED
    BY <1>1, <2>1, <2>2
<1> QED
  BY <1>1, <1>3, <1>7 DEF Inv

\* Join
LEMMA InvJoin ==
    ASSUME Inv, Join
    PROVE  Inv'
<1> DEFINE e == Top(Main).event
<1>1. Base' /\ Less(stack, stack', Main, WaitFor(e)) /\ e \in Event
  BY InvParts, JoinStep DEF WaitFor
<1>2. /\ dispatched' = dispatched /\ mSyncTask' = mSyncTask /\ owed' = owed /\ mEvents' = mEvents
  BY DEF Join, thread, answers, history
<1>3. Contexts'
  BY InvParts, <1>1, ContextsJoin
<1> HIDE DEF e
<1>4. RunsKept(stack, stack')
  BY <1>1, CallsAreNoRuns
<1>5. Work'
  BY InvParts, <1>1, <1>2, <1>4, WorkUnchanged
<1> QED
  BY <1>1, <1>3, <1>5 DEF Inv

\* A step that changes nothing keeps the invariant.
LEMMA InvStutters ==
    ASSUME Inv, UNCHANGED vars
    PROVE  Inv'
<1>1. /\ mEvents' = mEvents /\ mEventsAreDoomed' = mEventsAreDoomed
      /\ mShutdownContext' = mShutdownContext /\ mShutdownRequired' = mShutdownRequired
      /\ shutdownAck' = shutdownAck /\ mSyncTask' = mSyncTask /\ pc' = pc /\ stack' = stack
      /\ dispatched' = dispatched /\ owed' = owed
  BY DEF vars, thread, answers, control, history
<1>2. Base'
  <2>1. Typed'
    BY InvParts, <1>1 DEF Base, Typed, TypeOK
  <2>2. Places'
    BY InvParts, <1>1 DEF Base, Places, Placed, Awaited
  <2> QED
    BY <2>1, <2>2 DEF Base
<1>3. RunsKept(stack, stack') /\ CallsKept(stack, stack')
  BY <1>1 DEF RunsKept, CallsKept
<1>4. Work'
  BY InvParts, <1>1, <1>2, <1>3, WorkUnchanged
<1>5. Contexts'
  BY InvParts, <1>1, <1>2, <1>3, ContextsKept
<1> QED
  BY <1>2, <1>4, <1>5 DEF Inv

\* Every step keeps the invariant.
LEMMA InvNext == Inv /\ [Next]_vars => Inv'
<1> SUFFICES ASSUME Inv, [Next]_vars PROVE Inv'
  OBVIOUS
<1>1. CASE OwnerStep
  BY <1>1, InvJoin, InvInitThread, InvShutdown DEF OwnerStep
<1>2. CASE \E t \in Threads : Step(t)
  BY <1>2, InvStep
<1>3. CASE UNCHANGED vars
  BY <1>3, InvStutters
<1> QED
  BY <1>1, <1>2, <1>3 DEF Next

-----------------------------------------------------------------------------
(***************************************************************************)
(* The theorems.                                                           *)
(***************************************************************************)

\* The inductive invariant: the places of the threads in ThreadFunc, where the runnables
\* a thread still owes are, and who may use the context of a call of Shutdown.
THEOREM Invariance == Spec => []Inv
<1>1. Init => Inv
  BY InvInit
<1>2. Inv /\ [Next]_vars => Inv'
  BY InvNext
<1> QED
  BY <1>1, <1>2, PTL DEF Spec

\* No handler leaves the types: no queue offset leaves its page, no stack is popped when it
\* is empty, and no event reaches a queue that does not exist.
THEOREM TypeCorrect == Spec => []TypeOK
<1>1. Inv => TypeOK
  BY DEF Inv, Base, Typed
<1> QED
  BY <1>1, Invariance, PTL

\* Shutdown, once it has joined a thread: that thread has run every runnable it ever
\* accepted to its end, whatever loops and synchronous calls were nested in it, and accepts
\* no other.
THEOREM SafeJoin == Spec => []JoinedIsDone
<1>1. Inv => JoinedIsDone
  <2> SUFFICES ASSUME Inv, NEW t \in Threads, pc[t] = "joined"
               PROVE  owed[t] = {} /\ stack[t] = <<>> /\ mEventsAreDoomed[t]
    BY DEF JoinedIsDone
  <2>1. mEventsAreDoomed[t] /\ Within(mEvents[t]) = {} /\ stack[t] = <<>>
    BY InvParts DEF Placed, Ended
  <2>2. Firm(stack[t]) = {}
    <3>1. Frames(<<>>) = {}
      BY DEF Frames
    <3> QED
      BY <2>1, <3>1 DEF Firm
  <2>3. \A e : ~Has(mEvents[t], stack[t], mSyncTask, e)
    BY <2>1, <2>2 DEF Has
  <2>4. owed[t] = {}
    BY InvParts, <2>3 DEF Work, Owing
  <2> QED
    BY <2>1, <2>4
<1> QED
  BY <1>1, Invariance, PTL

\* PutEvent and ThreadFunc's last look at its queue are in one section: a queue that is
\* doomed is empty, for ever, even of answers to synchronous calls.
THEOREM NothingInDoomedQueues == Spec => []NothingLeftBehind
<1>1. Inv => NothingLeftBehind
  <2> SUFFICES ASSUME Inv
               PROVE  TypeOK /\ \A t \in Threads :
                                   mEventsAreDoomed[t] => Contents(mEvents[t]) = <<>>
    BY DEF NothingLeftBehind
  <2>1. TypeOK /\ \A t \in Threads : WellFormed(mEvents[t], Event)
    BY DEF Inv, Base, Typed
  <2>2. ASSUME NEW t \in Threads, mEventsAreDoomed[t] PROVE Contents(mEvents[t]) = <<>>
    <3>1. Within(mEvents[t]) = {}
      BY InvParts, <2>2 DEF Placed
    <3> QED
      BY <2>1, <3>1, NothingWithin
  <2> QED
    BY <2>1, <2>2
<1> QED
  BY <1>1, Invariance, PTL

\* The shutdown context, which lives in the frame of Shutdown on the main thread, is not
\* used after that frame is gone: not by the shutdown event, nor by the ending thread, nor
\* by the acknowledgement that is on its way.
THEOREM ContextsAreSafe == Spec => []ContextOutlivesUse
<1>1. Inv => ContextOutlivesUse
  <2> SUFFICES ASSUME Inv, NEW t \in Threads \ {Main},
                      \/ Queued(t, SystemEvent("shutdown", Main))
                      \/ ShuttingDown(t) /\ pc[t] \in {"loop", "drain", "doomed"}
                      \/ Queued(Main, SystemEvent("ack", t))
               PROVE  Waits(Main, "shutdown", SystemEvent("ack", t))
    BY DEF ContextOutlivesUse
  <2> DEFINE e == SystemEvent("ack", t)
  <2>1. WaitFor(e) \in Firm(stack[Main])
    <3>1. CASE Queued(t, SystemEvent("shutdown", Main))
      <4>1. SystemEvent("shutdown", Main) \in Within(mEvents[t])
        BY <3>1 DEF Queued, Within
      <4> QED
        BY InvParts, <4>1, SystemFields DEF Contexts, Requested
    <3>2. CASE ShuttingDown(t) /\ pc[t] \in {"loop", "drain", "doomed"}
      BY InvParts, <3>2 DEF Contexts, InShutdown, Gone, ShuttingDown
    <3>3. CASE Queued(Main, e)
      <4>1. e \in Within(mEvents[Main])
        BY <3>3 DEF Queued, Within
      <4>2. e.kind = "ack"
        BY SystemFields
      <4> QED
        BY InvParts, <4>1, <4>2 DEF Contexts, Acknowledged
    <3> QED
      BY <3>1, <3>2, <3>3
  <2>2. WaitFor(e) \in Frames(stack[Main])
    BY <2>1 DEF Firm
  <2> QED
    BY <2>2 DEF Frames, Waits, WaitFor
<1> QED
  BY <1>1, Invariance, PTL

-----------------------------------------------------------------------------
(***************************************************************************)
(* The refinement: the threads implement EventTargets.                     *)
(***************************************************************************)

\* The promise of EventTargets without its fairness.
KeepsToTargets == Targets!Init /\ [][Targets!Next]_(Targets!vars)

\* An event is accepted.
LEMMA PutIsAccept ==
    ASSUME Base, NEW u \in Threads, NEW e \in Event, Put(mEvents, mEvents', u, e),
           ~mEventsAreDoomed[u], mEventsAreDoomed' = mEventsAreDoomed
    PROVE  Targets!Accept(u)
<1> DEFINE a == Contents(mEvents[u])
           b == Contents(mEvents'[u])
<1>1. a \in Seq(Event) /\ b = Append(a, e)
  BY ContentsType DEF Base, Typed, Put
<1>2. \A v \in Threads \ {u} : mEvents'[v] = mEvents[v]
  BY DEF Put
<1>3. \A v \in Threads \ {u} : Contents(mEvents'[v]) = Contents(mEvents[v])
  BY <1>2
<1>4. b # a
  <2>1. Len(b) = Len(a) + 1 /\ Len(a) \in Nat
    BY <1>1, AppendProperties, LenProperties
  <2> HIDE DEF a, b
  <2> QED
    BY <2>1
<1> DEFINE old == [v \in Threads |-> Contents(mEvents[v])]
           new == [v \in Threads |-> Contents(mEvents'[v])]
<1>5. new = [old EXCEPT ![u] = Append(old[u], e)]
  <2>1. old[u] = a /\ new[u] = b /\ \A v \in Threads \ {u} : new[v] = old[v]
    BY <1>3
  <2>2. DOMAIN old = Threads /\ old = [v \in Threads |-> old[v]] /\ new = [v \in Threads |-> new[v]]
    OBVIOUS
  <2> HIDE DEF old, new, a, b
  <2> QED
    BY <1>1, <2>1, <2>2
<1>6. new[u] # old[u]
  BY <1>4
<1> QED
  BY <1>5, <1>6 DEF Targets!Accept

\* An event is taken.
LEMMA GotIsTake ==
    ASSUME Base, NEW u \in Threads, NEW h, Got(mEvents, mEvents', u, h),
           mEventsAreDoomed' = mEventsAreDoomed
    PROVE  Targets!Take(u)
<1> DEFINE old == [v \in Threads |-> Contents(mEvents[v])]
           new == [v \in Threads |-> Contents(mEvents'[v])]
<1>1. old[u] # <<>> /\ new[u] = Tail(old[u])
  BY DEF Got
<1>2. \A v \in Threads \ {u} : mEvents'[v] = mEvents[v]
  BY DEF Got
<1>3. \A v \in Threads \ {u} : new[v] = old[v]
  BY <1>2
<1>4. new = [old EXCEPT ![u] = Tail(old[u])]
  <2>1. DOMAIN old = Threads /\ old = [v \in Threads |-> old[v]] /\ new = [v \in Threads |-> new[v]]
    OBVIOUS
  <2> HIDE DEF old, new
  <2> QED
    BY <1>1, <1>3, <2>1
<1> QED
  BY <1>1, <1>4 DEF Targets!Take

\* A queue is doomed: it is empty.
LEMMA DoomIsClose ==
    ASSUME Base, NEW t \in Threads, Doom(t)
    PROVE  Targets!Close(t)
<1>1. /\ mEvents' = mEvents /\ IsEmpty(mEvents[t])
      /\ mEventsAreDoomed' = [mEventsAreDoomed EXCEPT ![t] = TRUE]
  BY DEF Doom
<1>2. Contents(mEvents[t]) = <<>>
  BY <1>1, EmptyMeansEmpty DEF Base, Typed
<1> QED
  BY <1>1, <1>2 DEF Targets!Close

\* A step that changes no queue.
LEMMA QuietIsStutter ==
    ASSUME mEvents' = mEvents, mEventsAreDoomed' = mEventsAreDoomed
    PROVE  UNCHANGED Targets!vars
  BY DEF Targets!vars

\* The steps of a thread.
LEMMA StepImplements ==
    ASSUME Inv, NEW t \in Threads, Step(t)
    PROVE  [Targets!Next]_(Targets!vars)
<1>1. CASE ProcessStartup(t)
  <2>1. Got(mEvents, mEvents', t, NextEvent(mEvents[t])) /\ mEventsAreDoomed' = mEventsAreDoomed
    BY InvParts, <1>1, ProcessStartupStep DEF ProcessStartup
  <2> QED
    BY InvParts, <2>1, GotIsTake DEF Targets!Next
<1>2. ASSUME NEW u \in Threads, DispatchFails(t, u)
      PROVE  UNCHANGED Targets!vars
  BY <1>2, QuietIsStutter DEF DispatchFails, thread
<1>3. ASSUME NEW u \in Threads, DispatchNormal(t, u) \/ DispatchSync(t, u)
      PROVE  Targets!Next
  <2>1. PICK kind \in {"task", "sync"} : Accepted(t, u, kind)
    BY <1>3 DEF DispatchNormal, DispatchSync
  <2>2. /\ Put(mEvents, mEvents', u, TaskEvent(kind, t, dispatched + 1))
        /\ ~mEventsAreDoomed[u] /\ dispatched + 1 \in Tasks
    BY InvParts, <2>1, AcceptedStep
  <2>3. TaskEvent(kind, t, dispatched + 1) \in Event
    BY <2>2 DEF TaskEvent, Event
  <2>4. mEventsAreDoomed' = mEventsAreDoomed
    BY <2>1 DEF Accepted
  <2> QED
    BY InvParts, <2>2, <2>3, <2>4, PutIsAccept DEF Targets!Next
<1>4. CASE ReturnSync(t) \/ WaitSync(t) \/ PollNothing(t) \/ EndTask(t) \/ EndSyncTask(t)
  BY <1>4, QuietIsStutter DEF ReturnSync, WaitSync, PollNothing, EndTask, EndSyncTask, thread
<1>5. ASSUME NEW kind, Takes(t, kind)
      PROVE  Targets!Next
  <2>1. Got(mEvents, mEvents', t, NextEvent(mEvents[t])) /\ mEventsAreDoomed' = mEventsAreDoomed
    BY InvParts, <1>5, TakesStep DEF Takes
  <2> QED
    BY InvParts, <2>1, GotIsTake DEF Targets!Next
<1>6. CASE RunTask(t) \/ RunSync(t) \/ RunShutdownEvent(t) \/ RunShutdownAck(t)
  BY <1>5, <1>6 DEF RunTask, RunSync, RunShutdownEvent, RunShutdownAck
<1>7. CASE Reply(t)
  <2> DEFINE e == Top(t).event
  <2>1. /\ e \in Event /\ e.thread \in Threads
        /\ \/ mEvents' = mEvents
           \/ ~mEventsAreDoomed[e.thread] /\ Put(mEvents, mEvents', e.thread, e)
    BY InvParts, <1>7, ReplyStep
  <2>2. mEventsAreDoomed' = mEventsAreDoomed
    BY <1>7 DEF Reply
  <2> HIDE DEF e
  <2> QED
    BY InvParts, <2>1, <2>2, QuietIsStutter, PutIsAccept DEF Targets!Next
<1>8. CASE LeaveLoop(t)
  BY <1>8, QuietIsStutter DEF LeaveLoop, thread
<1>9. CASE Doom(t)
  BY InvParts, <1>9, DoomIsClose DEF Targets!Next
<1>10. CASE Acknowledge(t)
  <2>1. Put(mEvents, mEvents', Main, SystemEvent("ack", t))
    BY InvParts, <1>10, AcknowledgeStep
  <2>2. SystemEvent("ack", t) \in Event
    BY DEF SystemEvent, Event
  <2>3. ~mEventsAreDoomed[Main]
    BY InvParts DEF Base, Places, Placed, Ended
  <2>4. mEventsAreDoomed' = mEventsAreDoomed
    BY <1>10 DEF Acknowledge
  <2> QED
    BY InvParts, <2>1, <2>2, <2>3, <2>4, PutIsAccept DEF Targets!Next
<1> QED
  BY <1>1, <1>2, <1>3, <1>4, <1>6, <1>7, <1>8, <1>9, <1>10 DEF Step, ProcessNextEvent

\* The steps of the owner of the threads.
LEMMA OwnerImplements ==
    ASSUME Inv, OwnerStep
    PROVE  [Targets!Next]_(Targets!vars)
<1>1. CASE Join
  BY <1>1, QuietIsStutter DEF Join, thread
<1>2. ASSUME NEW t \in Threads \ {Main}, InitThread(t)
      PROVE  Targets!Next
  <2>1. Put(mEvents, mEvents', t, SystemEvent("startup", t)) /\ mEventsAreDoomed' = mEventsAreDoomed
    BY InvParts, <1>2, InitThreadStep DEF InitThread
  <2>2. SystemEvent("startup", t) \in Event
    BY DEF SystemEvent, Event
  <2>3. ~mEventsAreDoomed[t]
    BY InvParts, <1>2 DEF InitThread, Placed, Ended
  <2> QED
    BY InvParts, <2>1, <2>2, <2>3, PutIsAccept DEF Targets!Next
<1>3. ASSUME NEW t \in Threads \ {Main}, Shutdown(t)
      PROVE  [Targets!Next]_(Targets!vars)
  <2>1. \/ mEvents' = mEvents
        \/ ~mEventsAreDoomed[t] /\ Put(mEvents, mEvents', t, SystemEvent("shutdown", Main))
    BY InvParts, <1>3, ShutdownStep
  <2>2. SystemEvent("shutdown", Main) \in Event
    BY InvParts DEF SystemEvent, Event
  <2>3. mEventsAreDoomed' = mEventsAreDoomed
    BY <1>3 DEF Shutdown
  <2> QED
    BY InvParts, <2>1, <2>2, <2>3, QuietIsStutter, PutIsAccept DEF Targets!Next
<1> QED
  BY <1>1, <1>2, <1>3 DEF OwnerStep

\* nsThread implements what nsIEventTarget promises to the callers of Dispatch: whatever the
\* pages, the nested loops and the shutdowns do, each thread takes the events it accepted one
\* by one and in order, and it stops accepting at a moment when it has none left.  (That it
\* takes every one of them in the end needs fairness.)
THEOREM Refinement == Spec => KeepsToTargets
<1>1. Init => Targets!Init
  <2>1. Contents(NewQueue) = <<>>
    BY NewIsEmpty
  <2> QED
    BY <2>1 DEF Init, Targets!Init
<1>2. Inv /\ [Next]_vars => [Targets!Next]_(Targets!vars)
  <2> SUFFICES ASSUME Inv, [Next]_vars PROVE [Targets!Next]_(Targets!vars)
    OBVIOUS
  <2>1. CASE UNCHANGED vars
    BY <2>1, QuietIsStutter DEF vars, thread
  <2> QED
    BY <2>1, OwnerImplements, StepImplements DEF Next
<1> QED
  BY <1>1, <1>2, Invariance, PTL DEF Spec, KeepsToTargets
=============================================================================
