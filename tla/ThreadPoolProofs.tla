-------------------------- MODULE ThreadPoolProofs --------------------------
(***************************************************************************)
(* Proofs that the safety invariants of ThreadPool hold for any number of  *)
(* events, clients, workers and listeners, whatever the limits are.        *)
(***************************************************************************)
EXTENDS ThreadPool, FiniteSetTheorems, SequenceTheorems, TLAPS

\* What the program counters say about the locals: what TypeOK and
\* IdleCountExact need to be inductive.
Locals ==
    /\ \A c \in Clients :
          /\ cpc[c] = "put" => cevent[c] \in Events
          /\ cpc[c] \in {"append", "dispatch", "kill", "killwait"}
                => thread[c] \in Workers
    /\ \A w \in Workers :
          /\ wpc[w] = "run" => event[w] \in Events
          /\ wasIdle[w] => wpc[w] \in {"loop", "wait"}

TypeInv == TypeOK /\ Locals /\ IdleCountExact

\* A counter that counts a set is positive when the set has a member.
LEMMA IdleCountPositive ==
    ASSUME TypeOK, IdleCountExact, NEW w \in Workers, wasIdle[w]
    PROVE  mIdleCount - 1 \in Nat
<1> DEFINE S == {v \in Workers : wasIdle[v]}
<1>1. IsFiniteSet(S)
  BY WorkersAssumption, FS_Subset
<1>2. w \in S
  OBVIOUS
<1>3. Cardinality(S) # 0 /\ Cardinality(S) \in Nat
  BY <1>1, <1>2, FS_EmptySet, FS_CardinalityType
<1> QED
  BY <1>3 DEF IdleCountExact

\* Setting or clearing one worker's wasIdle changes the count by one.
LEMMA IdleCountChange ==
    ASSUME TypeOK, IdleCountExact, NEW w \in Workers, NEW b \in BOOLEAN,
           wasIdle' = [wasIdle EXCEPT ![w] = b],
           mIdleCount' = IF wasIdle[w] = b THEN mIdleCount
                         ELSE IF b THEN mIdleCount + 1 ELSE mIdleCount - 1
    PROVE  IdleCountExact'
<1> DEFINE S == {v \in Workers : wasIdle[v]}
           T == {v \in Workers : wasIdle'[v]}
<1>1. IsFiniteSet(S)
  BY WorkersAssumption, FS_Subset
<1>2. CASE wasIdle[w] = b
  <2>1. T = S
    BY <1>2 DEF TypeOK
  <2> QED
    BY <1>2, <2>1 DEF IdleCountExact
<1>3. CASE wasIdle[w] # b /\ b
  <2>1. T = S \cup {w} /\ w \notin S
    BY <1>3 DEF TypeOK
  <2>2. Cardinality(T) = Cardinality(S) + 1
    BY <1>1, <2>1, FS_AddElement
  <2> QED
    BY <1>3, <2>2 DEF IdleCountExact
<1>4. CASE wasIdle[w] # b /\ ~b
  <2>1. T = S \ {w} /\ w \in S
    BY <1>4 DEF TypeOK
  <2>2. Cardinality(T) = Cardinality(S) - 1
    BY <1>1, <2>1, FS_RemoveElement
  <2> QED
    BY <1>4, <2>2 DEF IdleCountExact
<1> QED
  BY <1>2, <1>3, <1>4

\* NotifyAll yields program counters.
LEMMA NotifyAllType ==
    ASSUME NEW pc \in [Workers -> WorkerPC]
    PROVE  /\ NotifyAll(pc) \in [Workers -> WorkerPC]
           /\ \A w \in Workers :
                 NotifyAll(pc)[w] = IF pc[w] = "wait" THEN "loop" ELSE pc[w]
BY DEF NotifyAll, WorkerPC

\* The disjuncts of the next-state relation, for proofs by cases.
LEMMA NextCases ==
    ASSUME Next
    PROVE  \/ \E c \in Clients :
                 \/ \E e \in Events, s \in BOOLEAN : Dispatch(c, e, s)
                 \/ PutEvent(c)
                 \/ \E w \in Workers : NewThread(c, w)
                 \/ NewThreadFails(c)
                 \/ AppendThread(c)
                 \/ DispatchPool(c)
                 \/ KillThread(c)
                 \/ KillJoined(c)
                 \/ SyncDone(c)
           \/ \E w \in Workers :
                 \/ RunEnter(w)
                 \/ TakeEvent(w)
                 \/ GoIdle(w)
                 \/ StayIdle(w)
                 \/ ExitThread(w)
                 \/ WaitTimeout(w)
                 \/ RunEvent(w)
                 \/ RunLeave(w)
                 \/ ThreadFuncExit(w)
                 \/ MainShutdownThread(w)
                 \/ MainJoined(w)
                 \/ ShutdownNext(w)
           \/ ShutdownBegin
           \/ ShutdownJoined
           \/ ShutdownReturn
           \/ \E n \in ThreadLimits : SetThreadLimit(n)
           \/ \E n \in IdleThreadLimits : SetIdleThreadLimit(n)
           \/ SetIdleThreadTimeout
           \/ \E l \in Listeners \cup {None} : SetListener(l)
BY DEF Next, ClientStep, WorkerStep, MainStep, OwnerStep, ShutdownStep

\* Types, locals and the idle count are preserved by every step.
LEMMA TypeInvStep == TypeInv /\ [Next]_vars => TypeInv'
<1> SUFFICES ASSUME TypeInv, [Next]_vars
             PROVE  TypeInv'
  OBVIOUS
<1> USE DEF TypeInv
<1> USE NoneAssumption, LimitsAssumption
<1>1. ASSUME NEW c \in Clients, NEW e \in Events, NEW s \in BOOLEAN, Dispatch(c, e, s)
      PROVE  TypeInv'
  BY <1>1 DEF Dispatch, TypeOK, Locals, IdleCountExact, poolVars, workerVars,
    reaperVars, ClientPC
<1>2. ASSUME NEW c \in Clients, PutEvent(c)
      PROVE  TypeInv'
  <2>1. cevent[c] \in Events
    BY <1>2 DEF PutEvent, Locals
  <2>2. mEvents' = Append(mEvents, cevent[c]) \/ mEvents' = mEvents
    BY <1>2 DEF PutEvent
  <2>3. mEvents \in Seq(Events)
    BY DEF TypeOK
  <2>4. Append(mEvents, cevent[c]) \in Seq(Events)
    BY <2>1, <2>3, AppendProperties
  <2>5. mEvents' \in Seq(Events)
    BY <2>2, <2>3, <2>4, Zenon
  <2>6. wpc' \in [Workers -> WorkerPC]
    BY <1>2, NotifyAllType DEF PutEvent, TypeOK
  <2>7. TypeOK'
    BY <1>2, <2>5, <2>6
    DEF PutEvent, AfterPut, TypeOK, reaperVars, ClientPC
  <2>8. Locals'
    BY <1>2, NotifyAllType DEF PutEvent, AfterPut, TypeOK, Locals
  <2> QED
    BY <1>2, <2>7, <2>8 DEF PutEvent, IdleCountExact
<1>3. ASSUME NEW c \in Clients, NEW w \in Workers, NewThread(c, w)
      PROVE  TypeInv'
  <2>1. TypeOK'
    BY <1>3
    DEF NewThread, TypeOK, poolVars, reaperVars, WorkerPC, ClientPC
  <2>2. Locals'
    BY <1>3 DEF NewThread, TypeOK, Locals
  <2>3. ~wasIdle[w] /\ mIdleCount' = mIdleCount
    BY <1>3 DEF NewThread, Locals, poolVars
  <2>4. IdleCountExact'
    <3>1. {v \in Workers : wasIdle'[v]} = {v \in Workers : wasIdle[v]}
      BY <1>3, <2>3 DEF NewThread, TypeOK
    <3> QED
      BY <2>3, <3>1 DEF IdleCountExact
  <2> QED
    BY <2>1, <2>2, <2>4
<1>4. ASSUME NEW c \in Clients, NewThreadFails(c)
      PROVE  TypeInv'
  BY <1>4 DEF NewThreadFails, TypeOK, Locals, IdleCountExact, AfterPut,
    poolVars, workerVars, reaperVars, ClientPC
<1>5. ASSUME NEW c \in Clients, AppendThread(c)
      PROVE  TypeInv'
  <2>1. mThreads' \subseteq Workers
    BY <1>5 DEF AppendThread, TypeOK, Locals
  <2>2. TypeOK'
    BY <1>5, <2>1
    DEF AppendThread, TypeOK, workerVars, reaperVars, WorkerPC, ClientPC
  <2>3. Locals'
    BY <1>5 DEF AppendThread, TypeOK, Locals, workerVars
  <2> QED
    BY <1>5, <2>2, <2>3 DEF AppendThread, workerVars, IdleCountExact
<1>6. ASSUME NEW c \in Clients, DispatchPool(c)
      PROVE  TypeInv'
  BY <1>6 DEF DispatchPool, TypeOK, Locals, IdleCountExact, AfterPut, poolVars,
    reaperVars, WorkerPC, ClientPC
<1>7. ASSUME NEW c \in Clients, KillThread(c)
      PROVE  TypeInv'
  BY <1>7 DEF KillThread, TypeOK, Locals, IdleCountExact, RequestShutdown,
    poolVars, workerVars, reaperVars, ClientPC
<1>8. ASSUME NEW c \in Clients, KillJoined(c)
      PROVE  TypeInv'
  BY <1>8 DEF KillJoined, TypeOK, Locals, IdleCountExact, Join, AfterPut,
    poolVars, reaperVars, WorkerPC, ClientPC
<1>9. ASSUME NEW c \in Clients, SyncDone(c)
      PROVE  TypeInv'
  BY <1>9 DEF SyncDone, TypeOK, Locals, IdleCountExact, poolVars, workerVars,
    reaperVars, ClientPC
<1>10. ASSUME NEW w \in Workers, RunEnter(w)
      PROVE  TypeInv'
  BY <1>10 DEF RunEnter, TypeOK, Locals, IdleCountExact, poolVars, clientVars,
    reaperVars, WorkerPC
<1>11. ASSUME NEW w \in Workers, TakeEvent(w)
      PROVE  TypeInv'
  <2>1. wasIdle[w] => mIdleCount - 1 \in Nat
    BY IdleCountPositive
  <2>2. Head(mEvents) \in Events /\ Tail(mEvents) \in Seq(Events)
    BY <1>11 DEF TakeEvent, NoLongerIdle, TypeOK
  <2>3. TypeOK'
    BY <1>11, <2>1, <2>2 DEF TakeEvent, NoLongerIdle, TypeOK, clientVars, reaperVars, WorkerPC
  <2>4. Locals'
    BY <1>11, <2>2 DEF TakeEvent, NoLongerIdle, TypeOK, Locals, clientVars
  <2>5. IdleCountExact'
    BY <1>11, IdleCountChange, FALSE \in BOOLEAN DEF TakeEvent, NoLongerIdle, TypeOK
  <2> QED
    BY <2>3, <2>4, <2>5
<1>12. ASSUME NEW w \in Workers, GoIdle(w)
      PROVE  TypeInv'
  <2>1. TypeOK'
    BY <1>12 DEF GoIdle, TypeOK, clientVars, reaperVars, WorkerPC
  <2>2. Locals'
    BY <1>12 DEF GoIdle, TypeOK, Locals, clientVars
  <2>3. IdleCountExact'
    BY <1>12, IdleCountChange, TRUE \in BOOLEAN DEF GoIdle, TypeOK
  <2> QED
    BY <2>1, <2>2, <2>3
<1>13. ASSUME NEW w \in Workers, StayIdle(w)
      PROVE  TypeInv'
  BY <1>13 DEF StayIdle, TypeOK, Locals, IdleCountExact, poolVars, clientVars,
    reaperVars, WorkerPC
<1>14. ASSUME NEW w \in Workers, ExitThread(w)
      PROVE  TypeInv'
  <2>1. wasIdle[w] => mIdleCount - 1 \in Nat
    BY IdleCountPositive
  <2>2. TypeOK'
    BY <1>14, <2>1 DEF ExitThread, NoLongerIdle, RemoveObject, Removed, TypeOK, clientVars, reaperVars, WorkerPC
  <2>3. Locals'
    BY <1>14 DEF ExitThread, NoLongerIdle, RemoveObject, Removed, TypeOK, Locals, clientVars
  <2>4. IdleCountExact'
    BY <1>14, IdleCountChange, FALSE \in BOOLEAN DEF ExitThread, NoLongerIdle, RemoveObject, Removed, TypeOK
  <2> QED
    BY <2>2, <2>3, <2>4
<1>15. ASSUME NEW w \in Workers, WaitTimeout(w)
      PROVE  TypeInv'
  BY <1>15 DEF WaitTimeout, TypeOK, Locals, IdleCountExact, poolVars,
    clientVars, reaperVars, WorkerPC
<1>16. ASSUME NEW w \in Workers, RunEvent(w)
      PROVE  TypeInv'
  BY <1>16 DEF RunEvent, TypeOK, Locals, IdleCountExact, poolVars, clientVars,
    reaperVars, WorkerPC
<1>17. ASSUME NEW w \in Workers, RunLeave(w)
      PROVE  TypeInv'
  BY <1>17 DEF RunLeave, OwnListener, ShutdownThread, TypeOK, Locals, IdleCountExact, poolVars, clientVars,
    WorkerPC
<1>18. ASSUME NEW w \in Workers, ThreadFuncExit(w)
      PROVE  TypeInv'
  BY <1>18 DEF ThreadFuncExit, TypeOK, Locals, IdleCountExact, poolVars,
    clientVars, reaperVars, WorkerPC
<1>19. ASSUME NEW w \in Workers, MainShutdownThread(w)
      PROVE  TypeInv'
  BY <1>19 DEF MainShutdownThread, TypeOK, Locals, IdleCountExact,
    RequestShutdown, poolVars, workerVars, clientVars, WorkerPC
<1>20. ASSUME NEW w \in Workers, MainJoined(w)
      PROVE  TypeInv'
  BY <1>20 DEF MainJoined, TypeOK, Locals, IdleCountExact, Join, poolVars,
    clientVars, WorkerPC
<1>21. ASSUME NEW w \in Workers, ShutdownNext(w)
      PROVE  TypeInv'
  BY <1>21 DEF ShutdownNext, TypeOK, Locals, IdleCountExact, RequestShutdown,
    poolVars, workerVars, clientVars, WorkerPC
<1>22. CASE ShutdownBegin
  BY <1>22, NotifyAllType DEF ShutdownBegin, TypeOK, Locals, IdleCountExact,
    clientVars, WorkerPC
<1>23. CASE ShutdownJoined
  BY <1>23 DEF ShutdownJoined, TypeOK, Locals, IdleCountExact, Join, poolVars,
    clientVars, WorkerPC
<1>24. CASE ShutdownReturn
  BY <1>24 DEF ShutdownReturn, TypeOK, Locals, IdleCountExact, poolVars,
    workerVars, clientVars, WorkerPC
<1>25. ASSUME NEW n \in ThreadLimits, SetThreadLimit(n)
      PROVE  TypeInv'
  BY <1>25, NotifyAllType DEF SetThreadLimit, TypeOK, Locals, IdleCountExact,
    Lesser, clientVars, reaperVars, WorkerPC
<1>26. ASSUME NEW n \in IdleThreadLimits, SetIdleThreadLimit(n)
      PROVE  TypeInv'
  BY <1>26, NotifyAllType DEF SetIdleThreadLimit, TypeOK, Locals,
    IdleCountExact, Lesser, clientVars, reaperVars, WorkerPC
<1>27. CASE SetIdleThreadTimeout
  BY <1>27, NotifyAllType DEF SetIdleThreadTimeout, TypeOK, Locals,
    IdleCountExact, poolVars, clientVars, reaperVars, WorkerPC
<1>28. ASSUME NEW l \in Listeners \cup {None}, SetListener(l)
      PROVE  TypeInv'
  BY <1>28 DEF SetListener, TypeOK, Locals, IdleCountExact, workerVars,
    clientVars, reaperVars
<1>29. CASE UNCHANGED vars
  BY <1>29 DEF vars, poolVars, workerVars, clientVars, reaperVars,
    TypeOK, Locals, IdleCountExact
<1> QED
  BY <1>1, <1>2, <1>3, <1>4, <1>5, <1>6, <1>7, <1>8, <1>9, <1>10, <1>11, <1>12,
    <1>13, <1>14, <1>15, <1>16, <1>17, <1>18, <1>19, <1>20, <1>21, <1>22,
    <1>23, <1>24, <1>25, <1>26, <1>27, <1>28, <1>29, NextCases

\* No worker sleeps while there is something to do: NoLostWakeup is inductive.
LEMMA NoLostWakeupStep ==
    ASSUME TypeInv, NoLostWakeup, [Next]_vars
    PROVE  NoLostWakeup'
<1> USE NoneAssumption, LimitsAssumption DEF TypeInv, InRun
<1>1. ASSUME NEW c \in Clients, NEW e \in Events, NEW s \in BOOLEAN, Dispatch(c, e, s)
      PROVE  NoLostWakeup'
  BY <1>1 DEF Dispatch, TypeOK, NoLostWakeup, poolVars, workerVars, reaperVars,
    ClientPC
<1>2. ASSUME NEW c \in Clients, PutEvent(c)
      PROVE  NoLostWakeup'
  BY <1>2, NotifyAllType DEF PutEvent, TypeOK, NoLostWakeup, AfterPut,
    reaperVars, WorkerPC, ClientPC
<1>3. ASSUME NEW c \in Clients, NEW w \in Workers, NewThread(c, w)
      PROVE  NoLostWakeup'
  BY <1>3 DEF NewThread, TypeOK, NoLostWakeup, poolVars, reaperVars, WorkerPC,
    ClientPC
<1>4. ASSUME NEW c \in Clients, NewThreadFails(c)
      PROVE  NoLostWakeup'
  BY <1>4 DEF NewThreadFails, TypeOK, NoLostWakeup, AfterPut, poolVars,
    workerVars, reaperVars, ClientPC
<1>5. ASSUME NEW c \in Clients, AppendThread(c)
      PROVE  NoLostWakeup'
  BY <1>5 DEF AppendThread, TypeOK, NoLostWakeup, workerVars, reaperVars,
    ClientPC
<1>6. ASSUME NEW c \in Clients, DispatchPool(c)
      PROVE  NoLostWakeup'
  BY <1>6 DEF DispatchPool, TypeOK, NoLostWakeup, AfterPut, poolVars,
    reaperVars, WorkerPC, ClientPC
<1>7. ASSUME NEW c \in Clients, KillThread(c)
      PROVE  NoLostWakeup'
  BY <1>7 DEF KillThread, TypeOK, NoLostWakeup, RequestShutdown, poolVars,
    workerVars, reaperVars, ClientPC
<1>8. ASSUME NEW c \in Clients, KillJoined(c)
      PROVE  NoLostWakeup'
  BY <1>8 DEF KillJoined, TypeOK, NoLostWakeup, Join, AfterPut, poolVars,
    reaperVars, WorkerPC, ClientPC
<1>9. ASSUME NEW c \in Clients, SyncDone(c)
      PROVE  NoLostWakeup'
  BY <1>9 DEF SyncDone, TypeOK, NoLostWakeup, poolVars, workerVars, reaperVars,
    ClientPC
<1>10. ASSUME NEW w \in Workers, RunEnter(w)
      PROVE  NoLostWakeup'
  BY <1>10 DEF RunEnter, TypeOK, NoLostWakeup, poolVars, clientVars,
    reaperVars, WorkerPC
<1>11. ASSUME NEW w \in Workers, TakeEvent(w)
      PROVE  NoLostWakeup'
  BY <1>11 DEF TakeEvent, NoLongerIdle, TypeOK, NoLostWakeup, clientVars, reaperVars,
    WorkerPC
<1>12. ASSUME NEW w \in Workers, GoIdle(w)
      PROVE  NoLostWakeup'
  BY <1>12 DEF GoIdle, TypeOK, NoLostWakeup, clientVars, reaperVars, WorkerPC
<1>13. ASSUME NEW w \in Workers, StayIdle(w)
      PROVE  NoLostWakeup'
  BY <1>13 DEF StayIdle, TypeOK, NoLostWakeup, poolVars, clientVars,
    reaperVars, WorkerPC
<1>14. ASSUME NEW w \in Workers, ExitThread(w)
      PROVE  NoLostWakeup'
  BY <1>14 DEF ExitThread, NoLongerIdle, RemoveObject, Removed, TypeOK, NoLostWakeup, clientVars, reaperVars,
    WorkerPC
<1>15. ASSUME NEW w \in Workers, WaitTimeout(w)
      PROVE  NoLostWakeup'
  BY <1>15 DEF WaitTimeout, TypeOK, NoLostWakeup, poolVars, clientVars,
    reaperVars, WorkerPC
<1>16. ASSUME NEW w \in Workers, RunEvent(w)
      PROVE  NoLostWakeup'
  BY <1>16 DEF RunEvent, TypeOK, NoLostWakeup, poolVars, clientVars,
    reaperVars, WorkerPC
<1>17. ASSUME NEW w \in Workers, RunLeave(w)
      PROVE  NoLostWakeup'
  BY <1>17 DEF RunLeave, OwnListener, ShutdownThread, TypeOK, NoLostWakeup, poolVars, clientVars, WorkerPC
<1>18. ASSUME NEW w \in Workers, ThreadFuncExit(w)
      PROVE  NoLostWakeup'
  BY <1>18 DEF ThreadFuncExit, TypeOK, NoLostWakeup, poolVars, clientVars,
    reaperVars, WorkerPC
<1>19. ASSUME NEW w \in Workers, MainShutdownThread(w)
      PROVE  NoLostWakeup'
  BY <1>19 DEF MainShutdownThread, TypeOK, NoLostWakeup, RequestShutdown,
    poolVars, workerVars, clientVars, WorkerPC
<1>20. ASSUME NEW w \in Workers, MainJoined(w)
      PROVE  NoLostWakeup'
  BY <1>20 DEF MainJoined, TypeOK, NoLostWakeup, Join, poolVars, clientVars,
    WorkerPC
<1>21. ASSUME NEW w \in Workers, ShutdownNext(w)
      PROVE  NoLostWakeup'
  BY <1>21 DEF ShutdownNext, TypeOK, NoLostWakeup, RequestShutdown, poolVars,
    workerVars, clientVars, WorkerPC
<1>22. CASE ShutdownBegin
  BY <1>22, NotifyAllType DEF ShutdownBegin, TypeOK, NoLostWakeup, clientVars,
    WorkerPC
<1>23. CASE ShutdownJoined
  BY <1>23 DEF ShutdownJoined, TypeOK, NoLostWakeup, Join, poolVars,
    clientVars, WorkerPC
<1>24. CASE ShutdownReturn
  BY <1>24 DEF ShutdownReturn, TypeOK, NoLostWakeup, poolVars, workerVars,
    clientVars, WorkerPC
<1>25. ASSUME NEW n \in ThreadLimits, SetThreadLimit(n)
      PROVE  NoLostWakeup'
  BY <1>25, NotifyAllType DEF SetThreadLimit, TypeOK, NoLostWakeup, Lesser,
    clientVars, reaperVars, WorkerPC
<1>26. ASSUME NEW n \in IdleThreadLimits, SetIdleThreadLimit(n)
      PROVE  NoLostWakeup'
  BY <1>26, NotifyAllType DEF SetIdleThreadLimit, TypeOK, NoLostWakeup, Lesser,
    clientVars, reaperVars, WorkerPC
<1>27. CASE SetIdleThreadTimeout
  BY <1>27, NotifyAllType DEF SetIdleThreadTimeout, TypeOK, NoLostWakeup,
    poolVars, clientVars, reaperVars, WorkerPC
<1>28. ASSUME NEW l \in Listeners \cup {None}, SetListener(l)
      PROVE  NoLostWakeup'
  BY <1>28 DEF SetListener, TypeOK, NoLostWakeup, workerVars, clientVars,
    reaperVars
<1>29. CASE UNCHANGED vars
  BY <1>29 DEF vars, poolVars, workerVars, clientVars, reaperVars, TypeOK,
    NoLostWakeup
<1> QED
  BY <1>1, <1>2, <1>3, <1>4, <1>5, <1>6, <1>7, <1>8, <1>9, <1>10, <1>11, <1>12,
    <1>13, <1>14, <1>15, <1>16, <1>17, <1>18, <1>19, <1>20, <1>21, <1>22,
    <1>23, <1>24, <1>25, <1>26, <1>27, <1>28, <1>29, NextCases

\* ThreadPlaces and SoleReaper are inductive together.
LEMMA ThreadPlacesStep ==
    ASSUME TypeInv, ThreadPlaces, SoleReaper, [Next]_vars
    PROVE  ThreadPlaces'
<1> USE NoneAssumption, LimitsAssumption DEF TypeInv, InRun
<1>1. ASSUME NEW c \in Clients, NEW e \in Events, NEW s \in BOOLEAN, Dispatch(c, e, s)
      PROVE  ThreadPlaces'
  BY <1>1 DEF Dispatch, TypeOK, Locals, ThreadPlaces, SoleReaper, Held,
    Leaving, poolVars, workerVars, reaperVars, ClientPC
<1>2. ASSUME NEW c \in Clients, PutEvent(c)
      PROVE  ThreadPlaces'
  <2>1. /\ \/ cpc' = [cpc EXCEPT ![c] = "spawn"]
           \/ cpc' = [cpc EXCEPT ![c] = AfterPut(c)]
        /\ AfterPut(c) \in {"idle", "syncwait"}
    BY <1>2 DEF PutEvent, AfterPut
  <2>2. \A w \in Workers :
           wpc'[w] = wpc[w] \/ (wpc[w] = "wait" /\ wpc'[w] = "loop")
    BY <1>2, NotifyAllType DEF PutEvent, TypeOK
  <2>3. UNCHANGED <<mThreads, mShutdown, wasIdle, shutdownThreadOnExit,
                    mShutdownRequired, thread, reaperVars>>
    BY <1>2 DEF PutEvent
  <2>4. cpc[c] = "put" /\ \A d \in Clients : d # c => cpc'[d] = cpc[d]
    BY <1>2, <2>1 DEF PutEvent, TypeOK
  <2>5. cpc'[c] \in {"spawn", "idle", "syncwait"}
    BY <2>1 DEF TypeOK
  <2> QED
    BY <2>2, <2>3, <2>4, <2>5 DEF ThreadPlaces, TypeOK, reaperVars
<1>3. ASSUME NEW c \in Clients, NEW w \in Workers, NewThread(c, w)
      PROVE  ThreadPlaces'
  BY <1>3 DEF NewThread, TypeOK, Locals, ThreadPlaces, SoleReaper, Held,
    Leaving, poolVars, reaperVars, WorkerPC, ClientPC
<1>4. ASSUME NEW c \in Clients, NewThreadFails(c)
      PROVE  ThreadPlaces'
  BY <1>4 DEF NewThreadFails, TypeOK, Locals, ThreadPlaces, SoleReaper, Held,
    Leaving, AfterPut, poolVars, workerVars, reaperVars, ClientPC
<1>5. ASSUME NEW c \in Clients, AppendThread(c)
      PROVE  ThreadPlaces'
  BY <1>5 DEF AppendThread, TypeOK, Locals, ThreadPlaces, SoleReaper, Held,
    Leaving, workerVars, reaperVars, ClientPC
<1>6. ASSUME NEW c \in Clients, DispatchPool(c)
      PROVE  ThreadPlaces'
  BY <1>6 DEF DispatchPool, TypeOK, Locals, ThreadPlaces, SoleReaper, Held,
    Leaving, AfterPut, poolVars, reaperVars, WorkerPC, ClientPC
<1>7. ASSUME NEW c \in Clients, KillThread(c)
      PROVE  ThreadPlaces'
  BY <1>7 DEF KillThread, TypeOK, Locals, ThreadPlaces, SoleReaper, Held,
    Leaving, RequestShutdown, poolVars, workerVars, reaperVars, ClientPC
<1>8. ASSUME NEW c \in Clients, KillJoined(c)
      PROVE  ThreadPlaces'
  BY <1>8 DEF KillJoined, TypeOK, Locals, ThreadPlaces, SoleReaper, Held,
    Leaving, Join, AfterPut, poolVars, reaperVars, WorkerPC, ClientPC
<1>9. ASSUME NEW c \in Clients, SyncDone(c)
      PROVE  ThreadPlaces'
  BY <1>9 DEF SyncDone, TypeOK, Locals, ThreadPlaces, SoleReaper, Held,
    Leaving, poolVars, workerVars, reaperVars, ClientPC
<1>10. ASSUME NEW w \in Workers, RunEnter(w)
      PROVE  ThreadPlaces'
  BY <1>10 DEF RunEnter, TypeOK, Locals, ThreadPlaces, SoleReaper, Held,
    Leaving, poolVars, clientVars, reaperVars, WorkerPC
<1>11. ASSUME NEW w \in Workers, TakeEvent(w)
      PROVE  ThreadPlaces'
  BY <1>11 DEF TakeEvent, NoLongerIdle, TypeOK, Locals, ThreadPlaces, SoleReaper, Held,
    Leaving, clientVars, reaperVars, WorkerPC
<1>12. ASSUME NEW w \in Workers, GoIdle(w)
      PROVE  ThreadPlaces'
  BY <1>12 DEF GoIdle, TypeOK, Locals, ThreadPlaces, SoleReaper, Held, Leaving,
    clientVars, reaperVars, WorkerPC
<1>13. ASSUME NEW w \in Workers, StayIdle(w)
      PROVE  ThreadPlaces'
  BY <1>13 DEF StayIdle, TypeOK, Locals, ThreadPlaces, SoleReaper, Held,
    Leaving, poolVars, clientVars, reaperVars, WorkerPC
<1>14. ASSUME NEW w \in Workers, ExitThread(w)
      PROVE  ThreadPlaces'
  BY <1>14 DEF ExitThread, NoLongerIdle, RemoveObject, Removed, TypeOK, Locals, ThreadPlaces, SoleReaper, Held,
    Leaving, clientVars, reaperVars, WorkerPC
<1>15. ASSUME NEW w \in Workers, WaitTimeout(w)
      PROVE  ThreadPlaces'
  BY <1>15 DEF WaitTimeout, TypeOK, Locals, ThreadPlaces, SoleReaper, Held,
    Leaving, poolVars, clientVars, reaperVars, WorkerPC
<1>16. ASSUME NEW w \in Workers, RunEvent(w)
      PROVE  ThreadPlaces'
  BY <1>16 DEF RunEvent, TypeOK, Locals, ThreadPlaces, SoleReaper, Held,
    Leaving, poolVars, clientVars, reaperVars, WorkerPC
<1>17. ASSUME NEW w \in Workers, RunLeave(w)
      PROVE  ThreadPlaces'
  BY <1>17 DEF RunLeave, OwnListener, ShutdownThread, TypeOK, Locals, ThreadPlaces, SoleReaper, Held,
    Leaving, poolVars, clientVars, WorkerPC
<1>18. ASSUME NEW w \in Workers, ThreadFuncExit(w)
      PROVE  ThreadPlaces'
  BY <1>18 DEF ThreadFuncExit, TypeOK, Locals, ThreadPlaces, SoleReaper, Held,
    Leaving, poolVars, clientVars, reaperVars, WorkerPC
<1>19. ASSUME NEW w \in Workers, MainShutdownThread(w)
      PROVE  ThreadPlaces'
  BY <1>19 DEF MainShutdownThread, TypeOK, Locals, ThreadPlaces, SoleReaper,
    Held, Leaving, RequestShutdown, poolVars, workerVars, clientVars, WorkerPC
<1>20. ASSUME NEW w \in Workers, MainJoined(w)
      PROVE  ThreadPlaces'
  BY <1>20 DEF MainJoined, TypeOK, Locals, ThreadPlaces, SoleReaper, Held,
    Leaving, Join, poolVars, clientVars, WorkerPC
<1>21. ASSUME NEW w \in Workers, ShutdownNext(w)
      PROVE  ThreadPlaces'
  BY <1>21 DEF ShutdownNext, TypeOK, Locals, ThreadPlaces, SoleReaper, Held,
    Leaving, RequestShutdown, poolVars, workerVars, clientVars, WorkerPC
<1>22. CASE ShutdownBegin
  <2>1. \A w \in Workers : wpc'[w] = IF wpc[w] = "wait" THEN "loop" ELSE wpc[w]
    BY <1>22, NotifyAllType DEF ShutdownBegin, TypeOK
  <2>2. \A c \in Clients : thread[c] # None => thread[c] \in Workers
    BY DEF TypeOK
  <2>3. mThreads \subseteq Workers /\ posted \subseteq Workers
    BY DEF TypeOK
  <2> HIDE DEF TypeInv
  <2> QED
    BY <1>22, <2>1, <2>2, <2>3 DEF ShutdownBegin, ThreadPlaces, clientVars, reaperVars, poolVars
<1>23. CASE ShutdownJoined
  BY <1>23 DEF ShutdownJoined, TypeOK, Locals, ThreadPlaces, SoleReaper, Held,
    Leaving, Join, poolVars, clientVars, WorkerPC
<1>24. CASE ShutdownReturn
  BY <1>24 DEF ShutdownReturn, TypeOK, Locals, ThreadPlaces, SoleReaper, Held,
    Leaving, poolVars, workerVars, clientVars, WorkerPC
<1>25. ASSUME NEW n \in ThreadLimits, SetThreadLimit(n)
      PROVE  ThreadPlaces'
  <2>1. \A w \in Workers : wpc'[w] = IF wpc[w] = "wait" THEN "loop" ELSE wpc[w]
    BY <1>25, NotifyAllType DEF SetThreadLimit, TypeOK
  <2>2. \A c \in Clients : thread[c] # None => thread[c] \in Workers
    BY DEF TypeOK
  <2>3. mThreads \subseteq Workers /\ posted \subseteq Workers
    BY DEF TypeOK
  <2> HIDE DEF TypeInv
  <2> QED
    BY <1>25, <2>1, <2>2, <2>3 DEF SetThreadLimit, ThreadPlaces, clientVars, reaperVars, poolVars
<1>26. ASSUME NEW n \in IdleThreadLimits, SetIdleThreadLimit(n)
      PROVE  ThreadPlaces'
  <2>1. \A w \in Workers : wpc'[w] = IF wpc[w] = "wait" THEN "loop" ELSE wpc[w]
    BY <1>26, NotifyAllType DEF SetIdleThreadLimit, TypeOK
  <2>2. \A c \in Clients : thread[c] # None => thread[c] \in Workers
    BY DEF TypeOK
  <2>3. mThreads \subseteq Workers /\ posted \subseteq Workers
    BY DEF TypeOK
  <2> HIDE DEF TypeInv
  <2> QED
    BY <1>26, <2>1, <2>2, <2>3 DEF SetIdleThreadLimit, ThreadPlaces, clientVars, reaperVars, poolVars
<1>27. CASE SetIdleThreadTimeout
  BY <1>27, NotifyAllType DEF SetIdleThreadTimeout, TypeOK, Locals,
    ThreadPlaces, SoleReaper, Held, Leaving, poolVars, clientVars, reaperVars,
    WorkerPC
<1>28. ASSUME NEW l \in Listeners \cup {None}, SetListener(l)
      PROVE  ThreadPlaces'
  BY <1>28 DEF SetListener, TypeOK, Locals, ThreadPlaces, SoleReaper, Held,
    Leaving, workerVars, clientVars, reaperVars
<1>29. CASE UNCHANGED vars
  BY <1>29 DEF vars, poolVars, workerVars, clientVars, reaperVars, TypeOK,
    Locals, ThreadPlaces, SoleReaper, Held, Leaving
<1> QED
  BY <1>1, <1>2, <1>3, <1>4, <1>5, <1>6, <1>7, <1>8, <1>9, <1>10, <1>11, <1>12,
    <1>13, <1>14, <1>15, <1>16, <1>17, <1>18, <1>19, <1>20, <1>21, <1>22,
    <1>23, <1>24, <1>25, <1>26, <1>27, <1>28, <1>29, NextCases

\* Every hand-over of a thread moves it from one claimant to exactly one other.
LEMMA SoleReaperStep ==
    ASSUME TypeInv, ThreadPlaces, SoleReaper, [Next]_vars
    PROVE  SoleReaper'
<1> USE NoneAssumption, LimitsAssumption DEF TypeInv, InRun
<1>1. ASSUME NEW c \in Clients, NEW e \in Events, NEW s \in BOOLEAN, Dispatch(c, e, s)
      PROVE  SoleReaper'
  BY <1>1 DEF Dispatch, TypeOK, Locals, ThreadPlaces, SoleReaper, Held,
    Leaving, poolVars, workerVars, reaperVars, ClientPC
<1>2. ASSUME NEW c \in Clients, PutEvent(c)
      PROVE  SoleReaper'
  BY <1>2, NotifyAllType DEF PutEvent, TypeOK, Locals, ThreadPlaces,
    SoleReaper, Held, Leaving, AfterPut, reaperVars, WorkerPC, ClientPC
<1>3. ASSUME NEW c \in Clients, NEW w \in Workers, NewThread(c, w)
      PROVE  SoleReaper'
  BY <1>3 DEF NewThread, TypeOK, Locals, ThreadPlaces, SoleReaper, Held,
    Leaving, poolVars, reaperVars, WorkerPC, ClientPC
<1>4. ASSUME NEW c \in Clients, NewThreadFails(c)
      PROVE  SoleReaper'
  BY <1>4 DEF NewThreadFails, TypeOK, Locals, ThreadPlaces, SoleReaper, Held,
    Leaving, AfterPut, poolVars, workerVars, reaperVars, ClientPC
<1>5. ASSUME NEW c \in Clients, AppendThread(c)
      PROVE  SoleReaper'
  BY <1>5 DEF AppendThread, TypeOK, Locals, ThreadPlaces, SoleReaper, Held,
    Leaving, workerVars, reaperVars, ClientPC
<1>6. ASSUME NEW c \in Clients, DispatchPool(c)
      PROVE  SoleReaper'
  BY <1>6 DEF DispatchPool, TypeOK, Locals, ThreadPlaces, SoleReaper, Held,
    Leaving, AfterPut, poolVars, reaperVars, WorkerPC, ClientPC
<1>7. ASSUME NEW c \in Clients, KillThread(c)
      PROVE  SoleReaper'
  BY <1>7 DEF KillThread, TypeOK, Locals, ThreadPlaces, SoleReaper, Held,
    Leaving, RequestShutdown, poolVars, workerVars, reaperVars, ClientPC
<1>8. ASSUME NEW c \in Clients, KillJoined(c)
      PROVE  SoleReaper'
  BY <1>8 DEF KillJoined, TypeOK, Locals, ThreadPlaces, SoleReaper, Held,
    Leaving, Join, AfterPut, poolVars, reaperVars, WorkerPC, ClientPC
<1>9. ASSUME NEW c \in Clients, SyncDone(c)
      PROVE  SoleReaper'
  BY <1>9 DEF SyncDone, TypeOK, Locals, ThreadPlaces, SoleReaper, Held,
    Leaving, poolVars, workerVars, reaperVars, ClientPC
<1>10. ASSUME NEW w \in Workers, RunEnter(w)
      PROVE  SoleReaper'
  BY <1>10 DEF RunEnter, TypeOK, Locals, ThreadPlaces, SoleReaper, Held,
    Leaving, poolVars, clientVars, reaperVars, WorkerPC
<1>11. ASSUME NEW w \in Workers, TakeEvent(w)
      PROVE  SoleReaper'
  BY <1>11 DEF TakeEvent, NoLongerIdle, TypeOK, Locals, ThreadPlaces, SoleReaper, Held,
    Leaving, clientVars, reaperVars, WorkerPC
<1>12. ASSUME NEW w \in Workers, GoIdle(w)
      PROVE  SoleReaper'
  BY <1>12 DEF GoIdle, TypeOK, Locals, ThreadPlaces, SoleReaper, Held, Leaving,
    clientVars, reaperVars, WorkerPC
<1>13. ASSUME NEW w \in Workers, StayIdle(w)
      PROVE  SoleReaper'
  BY <1>13 DEF StayIdle, TypeOK, Locals, ThreadPlaces, SoleReaper, Held,
    Leaving, poolVars, clientVars, reaperVars, WorkerPC
<1>14. ASSUME NEW w \in Workers, ExitThread(w)
      PROVE  SoleReaper'
  BY <1>14 DEF ExitThread, NoLongerIdle, RemoveObject, Removed, TypeOK, Locals, ThreadPlaces, SoleReaper, Held,
    Leaving, clientVars, reaperVars, WorkerPC
<1>15. ASSUME NEW w \in Workers, WaitTimeout(w)
      PROVE  SoleReaper'
  BY <1>15 DEF WaitTimeout, TypeOK, Locals, ThreadPlaces, SoleReaper, Held,
    Leaving, poolVars, clientVars, reaperVars, WorkerPC
<1>16. ASSUME NEW w \in Workers, RunEvent(w)
      PROVE  SoleReaper'
  BY <1>16 DEF RunEvent, TypeOK, Locals, ThreadPlaces, SoleReaper, Held,
    Leaving, poolVars, clientVars, reaperVars, WorkerPC
<1>17. ASSUME NEW w \in Workers, RunLeave(w)
      PROVE  SoleReaper'
  BY <1>17 DEF RunLeave, OwnListener, ShutdownThread, TypeOK, Locals, ThreadPlaces, SoleReaper, Held,
    Leaving, poolVars, clientVars, WorkerPC
<1>18. ASSUME NEW w \in Workers, ThreadFuncExit(w)
      PROVE  SoleReaper'
  BY <1>18 DEF ThreadFuncExit, TypeOK, Locals, ThreadPlaces, SoleReaper, Held,
    Leaving, poolVars, clientVars, reaperVars, WorkerPC
<1>19. ASSUME NEW w \in Workers, MainShutdownThread(w)
      PROVE  SoleReaper'
  BY <1>19 DEF MainShutdownThread, TypeOK, Locals, ThreadPlaces, SoleReaper,
    Held, Leaving, RequestShutdown, poolVars, workerVars, clientVars, WorkerPC
<1>20. ASSUME NEW w \in Workers, MainJoined(w)
      PROVE  SoleReaper'
  BY <1>20 DEF MainJoined, TypeOK, Locals, ThreadPlaces, SoleReaper, Held,
    Leaving, Join, poolVars, clientVars, WorkerPC
<1>21. ASSUME NEW w \in Workers, ShutdownNext(w)
      PROVE  SoleReaper'
  BY <1>21 DEF ShutdownNext, TypeOK, Locals, ThreadPlaces, SoleReaper, Held,
    Leaving, RequestShutdown, poolVars, workerVars, clientVars, WorkerPC
<1>22. CASE ShutdownBegin
  BY <1>22, NotifyAllType DEF ShutdownBegin, TypeOK, Locals, ThreadPlaces,
    SoleReaper, Held, Leaving, clientVars, WorkerPC
<1>23. CASE ShutdownJoined
  BY <1>23 DEF ShutdownJoined, TypeOK, Locals, ThreadPlaces, SoleReaper, Held,
    Leaving, Join, poolVars, clientVars, WorkerPC
<1>24. CASE ShutdownReturn
  BY <1>24 DEF ShutdownReturn, TypeOK, Locals, ThreadPlaces, SoleReaper, Held,
    Leaving, poolVars, workerVars, clientVars, WorkerPC
<1>25. ASSUME NEW n \in ThreadLimits, SetThreadLimit(n)
      PROVE  SoleReaper'
  BY <1>25, NotifyAllType DEF SetThreadLimit, TypeOK, Locals, ThreadPlaces,
    SoleReaper, Held, Leaving, Lesser, clientVars, reaperVars, WorkerPC
<1>26. ASSUME NEW n \in IdleThreadLimits, SetIdleThreadLimit(n)
      PROVE  SoleReaper'
  BY <1>26, NotifyAllType DEF SetIdleThreadLimit, TypeOK, Locals, ThreadPlaces,
    SoleReaper, Held, Leaving, Lesser, clientVars, reaperVars, WorkerPC
<1>27. CASE SetIdleThreadTimeout
  BY <1>27, NotifyAllType DEF SetIdleThreadTimeout, TypeOK, Locals,
    ThreadPlaces, SoleReaper, Held, Leaving, poolVars, clientVars, reaperVars,
    WorkerPC
<1>28. ASSUME NEW l \in Listeners \cup {None}, SetListener(l)
      PROVE  SoleReaper'
  BY <1>28 DEF SetListener, TypeOK, Locals, ThreadPlaces, SoleReaper, Held,
    Leaving, workerVars, clientVars, reaperVars
<1>29. CASE UNCHANGED vars
  BY <1>29 DEF vars, poolVars, workerVars, clientVars, reaperVars, TypeOK,
    Locals, ThreadPlaces, SoleReaper, Held, Leaving
<1> QED
  BY <1>1, <1>2, <1>3, <1>4, <1>5, <1>6, <1>7, <1>8, <1>9, <1>10, <1>11, <1>12,
    <1>13, <1>14, <1>15, <1>16, <1>17, <1>18, <1>19, <1>20, <1>21, <1>22,
    <1>23, <1>24, <1>25, <1>26, <1>27, <1>28, <1>29, NextCases

\* A positive mIdleCount names an idle worker.
LEMMA IdleWorker ==
    ASSUME TypeInv, mIdleCount # 0
    PROVE  \E w \in Workers : wasIdle[w] /\ wpc[w] \in {"loop", "wait"}
<1>1. {w \in Workers : wasIdle[w]} # {}
  BY FS_EmptySet DEF TypeInv, IdleCountExact
<1> QED
  BY <1>1 DEF TypeInv, Locals

\* A pool at its thread limit has a thread, and that thread serves the queue or
\* is about to be told to, unless the limit is 0.
LEMMA FullPoolServes ==
    ASSUME TypeInv, ThreadPlaces, ~(Cardinality(mThreads) < mThreadLimit)
    PROVE  \/ \E w \in Workers : wpc[w] \in {"start", "loop", "wait", "run"}
           \/ \E c \in Clients : cpc[c] = "dispatch"
           \/ 0 \in ThreadLimits /\ mThreads = {}
<1>1. CASE mThreads # {}
  BY <1>1 DEF TypeInv, TypeOK, ThreadPlaces
<1>2. CASE mThreads = {}
  <2>1. Cardinality(mThreads) = 0
    BY <1>2, FS_EmptySet
  <2>2. mThreadLimit \in Nat /\ mThreadLimit \in ThreadLimits \cup {DEFAULT_THREAD_LIMIT}
    BY LimitsAssumption DEF TypeInv, TypeOK
  <2>3. mThreadLimit = 0
    BY <2>1, <2>2
  <2> QED
    BY <1>2, <2>2, <2>3, LimitsAssumption
<1> QED
  BY <1>1, <1>2

\* A queued event keeps a worker or a spawning client through every step.
LEMMA EventServedStep ==
    ASSUME TypeInv, ThreadPlaces, NoLostWakeup, EventServed, [Next]_vars
    PROVE  EventServed'
<1> USE NoneAssumption, LimitsAssumption DEF TypeInv, InRun
<1>1. ASSUME NEW c \in Clients, NEW e \in Events, NEW s \in BOOLEAN, Dispatch(c, e, s)
      PROVE  EventServed'
  BY <1>1 DEF Dispatch, TypeOK, ThreadPlaces, NoLostWakeup, EventServed,
    poolVars, workerVars, reaperVars, ClientPC
<1>2. ASSUME NEW c \in Clients, PutEvent(c)
      PROVE  EventServed'
  <2> SUFFICES ASSUME ~mShutdown, ~MayFail
               PROVE  \/ \E w \in Workers : wpc'[w] \in {"start", "loop", "run"}
                      \/ \E d \in Clients :
                            cpc'[d] \in {"spawn", "append", "dispatch"}
                      \/ 0 \in ThreadLimits /\ mThreads = {}
    BY <1>2 DEF PutEvent, EventServed
  <2>1. \A w \in Workers : wpc[w] \in {"start", "loop", "wait", "run"}
                            => wpc'[w] \in {"start", "loop", "run"}
    BY <1>2, NotifyAllType DEF PutEvent, TypeOK
  <2>2. \A d \in Clients : cpc[d] = "dispatch" => cpc'[d] = "dispatch"
    BY <1>2 DEF PutEvent, TypeOK
  <2>3. CASE SpawnThread
    BY <1>2, <2>3 DEF PutEvent, TypeOK
  <2>4. CASE mIdleCount # 0
    BY <2>1, <2>4, IdleWorker DEF Locals
  <2>5. CASE ~(Cardinality(mThreads) < mThreadLimit)
    BY <2>1, <2>2, <2>5, FullPoolServes
  <2> QED
    BY <2>3, <2>4, <2>5 DEF SpawnThread
<1>3. ASSUME NEW c \in Clients, NEW w \in Workers, NewThread(c, w)
      PROVE  EventServed'
  BY <1>3 DEF NewThread, TypeOK, ThreadPlaces, NoLostWakeup, EventServed,
    poolVars, reaperVars, WorkerPC, ClientPC
<1>4. ASSUME NEW c \in Clients, NewThreadFails(c)
      PROVE  EventServed'
  BY <1>4 DEF NewThreadFails, TypeOK, ThreadPlaces, NoLostWakeup, EventServed,
    AfterPut, poolVars, workerVars, reaperVars, ClientPC
<1>5. ASSUME NEW c \in Clients, AppendThread(c)
      PROVE  EventServed'
  <2>1. CASE Cardinality(mThreads) < mThreadLimit
    BY <1>5, <2>1 DEF AppendThread, EventServed, TypeOK
  <2>2. CASE ~(Cardinality(mThreads) < mThreadLimit)
    <3>1. \A d \in Clients : cpc[d] = "dispatch" => cpc'[d] = "dispatch"
      BY <1>5 DEF AppendThread, TypeOK
    <3>2. \A w \in Workers : wpc'[w] = "wait" => mEvents = <<>> \/ mShutdown
      BY <1>5 DEF AppendThread, NoLostWakeup, workerVars
    <3> QED
      BY <1>5, <2>2, <3>1, <3>2, FullPoolServes
      DEF AppendThread, EventServed, workerVars
  <2> QED
    BY <2>1, <2>2
<1>6. ASSUME NEW c \in Clients, DispatchPool(c)
      PROVE  EventServed'
  BY <1>6 DEF DispatchPool, TypeOK, ThreadPlaces, NoLostWakeup, EventServed,
    AfterPut, poolVars, reaperVars, WorkerPC, ClientPC
<1>7. ASSUME NEW c \in Clients, KillThread(c)
      PROVE  EventServed'
  BY <1>7 DEF KillThread, TypeOK, ThreadPlaces, NoLostWakeup, EventServed,
    RequestShutdown, poolVars, workerVars, reaperVars, ClientPC
<1>8. ASSUME NEW c \in Clients, KillJoined(c)
      PROVE  EventServed'
  BY <1>8 DEF KillJoined, TypeOK, ThreadPlaces, NoLostWakeup, EventServed,
    Join, AfterPut, poolVars, reaperVars, WorkerPC, ClientPC
<1>9. ASSUME NEW c \in Clients, SyncDone(c)
      PROVE  EventServed'
  BY <1>9 DEF SyncDone, TypeOK, ThreadPlaces, NoLostWakeup, EventServed,
    poolVars, workerVars, reaperVars, ClientPC
<1>10. ASSUME NEW w \in Workers, RunEnter(w)
      PROVE  EventServed'
  BY <1>10 DEF RunEnter, TypeOK, ThreadPlaces, NoLostWakeup, EventServed,
    poolVars, clientVars, reaperVars, WorkerPC
<1>11. ASSUME NEW w \in Workers, TakeEvent(w)
      PROVE  EventServed'
  BY <1>11 DEF TakeEvent, NoLongerIdle, TypeOK, ThreadPlaces, NoLostWakeup, EventServed,
    clientVars, reaperVars, WorkerPC
<1>12. ASSUME NEW w \in Workers, GoIdle(w)
      PROVE  EventServed'
  BY <1>12 DEF GoIdle, TypeOK, ThreadPlaces, NoLostWakeup, EventServed,
    clientVars, reaperVars, WorkerPC
<1>13. ASSUME NEW w \in Workers, StayIdle(w)
      PROVE  EventServed'
  BY <1>13 DEF StayIdle, TypeOK, ThreadPlaces, NoLostWakeup, EventServed,
    poolVars, clientVars, reaperVars, WorkerPC
<1>14. ASSUME NEW w \in Workers, ExitThread(w)
      PROVE  EventServed'
  BY <1>14 DEF ExitThread, NoLongerIdle, RemoveObject, Removed, TypeOK, ThreadPlaces, NoLostWakeup, EventServed,
    clientVars, reaperVars, WorkerPC
<1>15. ASSUME NEW w \in Workers, WaitTimeout(w)
      PROVE  EventServed'
  BY <1>15 DEF WaitTimeout, TypeOK, ThreadPlaces, NoLostWakeup, EventServed,
    poolVars, clientVars, reaperVars, WorkerPC
<1>16. ASSUME NEW w \in Workers, RunEvent(w)
      PROVE  EventServed'
  BY <1>16 DEF RunEvent, TypeOK, ThreadPlaces, NoLostWakeup, EventServed,
    poolVars, clientVars, reaperVars, WorkerPC
<1>17. ASSUME NEW w \in Workers, RunLeave(w)
      PROVE  EventServed'
  BY <1>17 DEF RunLeave, OwnListener, ShutdownThread, TypeOK, ThreadPlaces, NoLostWakeup, EventServed,
    poolVars, clientVars, WorkerPC
<1>18. ASSUME NEW w \in Workers, ThreadFuncExit(w)
      PROVE  EventServed'
  BY <1>18 DEF ThreadFuncExit, TypeOK, ThreadPlaces, NoLostWakeup, EventServed,
    poolVars, clientVars, reaperVars, WorkerPC
<1>19. ASSUME NEW w \in Workers, MainShutdownThread(w)
      PROVE  EventServed'
  BY <1>19 DEF MainShutdownThread, TypeOK, ThreadPlaces, NoLostWakeup,
    EventServed, RequestShutdown, poolVars, workerVars, clientVars, WorkerPC
<1>20. ASSUME NEW w \in Workers, MainJoined(w)
      PROVE  EventServed'
  BY <1>20 DEF MainJoined, TypeOK, ThreadPlaces, NoLostWakeup, EventServed,
    Join, poolVars, clientVars, WorkerPC
<1>21. ASSUME NEW w \in Workers, ShutdownNext(w)
      PROVE  EventServed'
  BY <1>21 DEF ShutdownNext, TypeOK, ThreadPlaces, NoLostWakeup, EventServed,
    RequestShutdown, poolVars, workerVars, clientVars, WorkerPC
<1>22. CASE ShutdownBegin
  BY <1>22, NotifyAllType DEF ShutdownBegin, TypeOK, ThreadPlaces,
    NoLostWakeup, EventServed, clientVars, WorkerPC
<1>23. CASE ShutdownJoined
  BY <1>23 DEF ShutdownJoined, TypeOK, ThreadPlaces, NoLostWakeup, EventServed,
    Join, poolVars, clientVars, WorkerPC
<1>24. CASE ShutdownReturn
  BY <1>24 DEF ShutdownReturn, TypeOK, ThreadPlaces, NoLostWakeup, EventServed,
    poolVars, workerVars, clientVars, WorkerPC
<1>25. ASSUME NEW n \in ThreadLimits, SetThreadLimit(n)
      PROVE  EventServed'
  BY <1>25, NotifyAllType DEF SetThreadLimit, TypeOK, ThreadPlaces,
    NoLostWakeup, EventServed, Lesser, clientVars, reaperVars, WorkerPC
<1>26. ASSUME NEW n \in IdleThreadLimits, SetIdleThreadLimit(n)
      PROVE  EventServed'
  BY <1>26, NotifyAllType DEF SetIdleThreadLimit, TypeOK, ThreadPlaces,
    NoLostWakeup, EventServed, Lesser, clientVars, reaperVars, WorkerPC
<1>27. CASE SetIdleThreadTimeout
  BY <1>27, NotifyAllType DEF SetIdleThreadTimeout, TypeOK, ThreadPlaces,
    NoLostWakeup, EventServed, poolVars, clientVars, reaperVars, WorkerPC
<1>28. ASSUME NEW l \in Listeners \cup {None}, SetListener(l)
      PROVE  EventServed'
  BY <1>28 DEF SetListener, TypeOK, ThreadPlaces, NoLostWakeup, EventServed,
    workerVars, clientVars, reaperVars
<1>29. CASE UNCHANGED vars
  BY <1>29 DEF vars, poolVars, workerVars, clientVars, reaperVars, TypeOK,
    ThreadPlaces, NoLostWakeup, EventServed
<1> QED
  BY <1>1, <1>2, <1>3, <1>4, <1>5, <1>6, <1>7, <1>8, <1>9, <1>10, <1>11, <1>12,
    <1>13, <1>14, <1>15, <1>16, <1>17, <1>18, <1>19, <1>20, <1>21, <1>22,
    <1>23, <1>24, <1>25, <1>26, <1>27, <1>28, <1>29, NextCases

\* A worker has notified only the listener it holds, and only between
\* OnThreadCreated and OnThreadShuttingDown.
ListenerInv ==
    \A w \in Workers :
       /\ notified[w] \subseteq {listener[w]}
       /\ wpc[w] \notin {"loop", "wait", "run", "exit"} => notified[w] = {}

\* ListenerInv is inductive: SetListener does not touch a worker's listener.
LEMMA ListenerInvStep ==
    ASSUME TypeInv, ListenerInv, [Next]_vars
    PROVE  ListenerInv'
<1> USE NoneAssumption, LimitsAssumption DEF TypeInv, InRun
<1>1. ASSUME NEW c \in Clients, NEW e \in Events, NEW s \in BOOLEAN, Dispatch(c, e, s)
      PROVE  ListenerInv'
  BY <1>1 DEF Dispatch, TypeOK, ListenerInv, poolVars, workerVars, reaperVars,
    ClientPC
<1>2. ASSUME NEW c \in Clients, PutEvent(c)
      PROVE  ListenerInv'
  BY <1>2, NotifyAllType DEF PutEvent, TypeOK, ListenerInv, AfterPut,
    reaperVars, WorkerPC, ClientPC
<1>3. ASSUME NEW c \in Clients, NEW w \in Workers, NewThread(c, w)
      PROVE  ListenerInv'
  BY <1>3 DEF NewThread, TypeOK, ListenerInv, poolVars, reaperVars, WorkerPC,
    ClientPC
<1>4. ASSUME NEW c \in Clients, NewThreadFails(c)
      PROVE  ListenerInv'
  BY <1>4 DEF NewThreadFails, TypeOK, ListenerInv, AfterPut, poolVars,
    workerVars, reaperVars, ClientPC
<1>5. ASSUME NEW c \in Clients, AppendThread(c)
      PROVE  ListenerInv'
  BY <1>5 DEF AppendThread, TypeOK, ListenerInv, workerVars, reaperVars,
    ClientPC
<1>6. ASSUME NEW c \in Clients, DispatchPool(c)
      PROVE  ListenerInv'
  BY <1>6 DEF DispatchPool, TypeOK, ListenerInv, AfterPut, poolVars,
    reaperVars, WorkerPC, ClientPC
<1>7. ASSUME NEW c \in Clients, KillThread(c)
      PROVE  ListenerInv'
  BY <1>7 DEF KillThread, TypeOK, ListenerInv, RequestShutdown, poolVars,
    workerVars, reaperVars, ClientPC
<1>8. ASSUME NEW c \in Clients, KillJoined(c)
      PROVE  ListenerInv'
  BY <1>8 DEF KillJoined, TypeOK, ListenerInv, Join, AfterPut, poolVars,
    reaperVars, WorkerPC, ClientPC
<1>9. ASSUME NEW c \in Clients, SyncDone(c)
      PROVE  ListenerInv'
  BY <1>9 DEF SyncDone, TypeOK, ListenerInv, poolVars, workerVars, reaperVars,
    ClientPC
<1>10. ASSUME NEW w \in Workers, RunEnter(w)
      PROVE  ListenerInv'
  BY <1>10 DEF RunEnter, TypeOK, ListenerInv, poolVars, clientVars, reaperVars,
    WorkerPC
<1>11. ASSUME NEW w \in Workers, TakeEvent(w)
      PROVE  ListenerInv'
  BY <1>11 DEF TakeEvent, NoLongerIdle, TypeOK, ListenerInv, clientVars, reaperVars, WorkerPC
<1>12. ASSUME NEW w \in Workers, GoIdle(w)
      PROVE  ListenerInv'
  BY <1>12 DEF GoIdle, TypeOK, ListenerInv, clientVars, reaperVars, WorkerPC
<1>13. ASSUME NEW w \in Workers, StayIdle(w)
      PROVE  ListenerInv'
  BY <1>13 DEF StayIdle, TypeOK, ListenerInv, poolVars, clientVars, reaperVars,
    WorkerPC
<1>14. ASSUME NEW w \in Workers, ExitThread(w)
      PROVE  ListenerInv'
  BY <1>14 DEF ExitThread, NoLongerIdle, RemoveObject, Removed, TypeOK, ListenerInv, clientVars, reaperVars,
    WorkerPC
<1>15. ASSUME NEW w \in Workers, WaitTimeout(w)
      PROVE  ListenerInv'
  BY <1>15 DEF WaitTimeout, TypeOK, ListenerInv, poolVars, clientVars,
    reaperVars, WorkerPC
<1>16. ASSUME NEW w \in Workers, RunEvent(w)
      PROVE  ListenerInv'
  BY <1>16 DEF RunEvent, TypeOK, ListenerInv, poolVars, clientVars, reaperVars,
    WorkerPC
<1>17. ASSUME NEW w \in Workers, RunLeave(w)
      PROVE  ListenerInv'
  BY <1>17 DEF RunLeave, OwnListener, ShutdownThread, TypeOK, ListenerInv, poolVars, clientVars, WorkerPC
<1>18. ASSUME NEW w \in Workers, ThreadFuncExit(w)
      PROVE  ListenerInv'
  BY <1>18 DEF ThreadFuncExit, TypeOK, ListenerInv, poolVars, clientVars,
    reaperVars, WorkerPC
<1>19. ASSUME NEW w \in Workers, MainShutdownThread(w)
      PROVE  ListenerInv'
  BY <1>19 DEF MainShutdownThread, TypeOK, ListenerInv, RequestShutdown,
    poolVars, workerVars, clientVars, WorkerPC
<1>20. ASSUME NEW w \in Workers, MainJoined(w)
      PROVE  ListenerInv'
  BY <1>20 DEF MainJoined, TypeOK, ListenerInv, Join, poolVars, clientVars,
    WorkerPC
<1>21. ASSUME NEW w \in Workers, ShutdownNext(w)
      PROVE  ListenerInv'
  BY <1>21 DEF ShutdownNext, TypeOK, ListenerInv, RequestShutdown, poolVars,
    workerVars, clientVars, WorkerPC
<1>22. CASE ShutdownBegin
  BY <1>22, NotifyAllType DEF ShutdownBegin, TypeOK, ListenerInv, clientVars,
    WorkerPC
<1>23. CASE ShutdownJoined
  BY <1>23 DEF ShutdownJoined, TypeOK, ListenerInv, Join, poolVars, clientVars,
    WorkerPC
<1>24. CASE ShutdownReturn
  BY <1>24 DEF ShutdownReturn, TypeOK, ListenerInv, poolVars, workerVars,
    clientVars, WorkerPC
<1>25. ASSUME NEW n \in ThreadLimits, SetThreadLimit(n)
      PROVE  ListenerInv'
  BY <1>25, NotifyAllType DEF SetThreadLimit, TypeOK, ListenerInv, Lesser,
    clientVars, reaperVars, WorkerPC
<1>26. ASSUME NEW n \in IdleThreadLimits, SetIdleThreadLimit(n)
      PROVE  ListenerInv'
  BY <1>26, NotifyAllType DEF SetIdleThreadLimit, TypeOK, ListenerInv, Lesser,
    clientVars, reaperVars, WorkerPC
<1>27. CASE SetIdleThreadTimeout
  BY <1>27, NotifyAllType DEF SetIdleThreadTimeout, TypeOK, ListenerInv,
    poolVars, clientVars, reaperVars, WorkerPC
<1>28. ASSUME NEW l \in Listeners \cup {None}, SetListener(l)
      PROVE  ListenerInv'
  BY <1>28 DEF SetListener, TypeOK, ListenerInv, workerVars, clientVars,
    reaperVars
<1>29. CASE UNCHANGED vars
  BY <1>29 DEF vars, poolVars, workerVars, clientVars, reaperVars, TypeOK,
    ListenerInv
<1> QED
  BY <1>1, <1>2, <1>3, <1>4, <1>5, <1>6, <1>7, <1>8, <1>9, <1>10, <1>11, <1>12,
    <1>13, <1>14, <1>15, <1>16, <1>17, <1>18, <1>19, <1>20, <1>21, <1>22,
    <1>23, <1>24, <1>25, <1>26, <1>27, <1>28, <1>29, NextCases

-----------------------------------------------------------------------------
(***************************************************************************)
(* The theorems.                                                           *)
(***************************************************************************)

\* The inductive invariant.
IndInv ==
    /\ TypeInv
    /\ ThreadPlaces
    /\ SoleReaper
    /\ NoLostWakeup
    /\ EventServed
    /\ ListenerInv

\* A new pool satisfies it.
LEMMA InitIndInv == Init => IndInv
<1> SUFFICES ASSUME Init PROVE IndInv
  OBVIOUS
<1> USE NoneAssumption, LimitsAssumption DEF Init
<1>1. TypeOK /\ Locals
  <2>1. <<>> \in Seq(Events)
    OBVIOUS
  <2>2. TypeOK
    BY <2>1 DEF TypeOK, WorkerPC, ClientPC
  <2> QED
    BY <2>2 DEF Locals
<1>2. IdleCountExact
  <2>1. {w \in Workers : wasIdle[w]} = {}
    OBVIOUS
  <2> QED
    BY <2>1, FS_EmptySet DEF IdleCountExact
<1>3. ThreadPlaces /\ SoleReaper
  BY DEF ThreadPlaces, SoleReaper, Held, Leaving
<1>4. NoLostWakeup /\ EventServed /\ ListenerInv
  BY DEF NoLostWakeup, EventServed, ListenerInv
<1> QED
  BY <1>1, <1>2, <1>3, <1>4 DEF IndInv, TypeInv

\* IndInv is an invariant of the specification: nsThreadPool's fields, its
\* workers' locals and the references to its threads stay consistent through
\* every interleaving of Dispatch, Run, Shutdown and the setters.
THEOREM Invariance == Spec => []IndInv
<1>1. IndInv /\ [Next]_vars => IndInv'
  BY TypeInvStep, NoLostWakeupStep, ThreadPlacesStep, SoleReaperStep,
     EventServedStep, ListenerInvStep DEF IndInv
<1> QED
  BY InitIndInv, <1>1, PTL DEF Spec

\* Type correctness of nsThreadPool's state; in particular mIdleCount, an
\* unsigned counter, never wraps below zero.
THEOREM TypeCorrect == Spec => []TypeOK
<1>1. IndInv => TypeOK
  BY DEF IndInv, TypeInv
<1> QED
  BY Invariance, <1>1, PTL

\* mIdleCount always counts the workers whose wasIdle is set.
THEOREM IdleCountCorrect == Spec => []IdleCountExact
<1>1. IndInv => IdleCountExact
  BY DEF IndInv, TypeInv
<1> QED
  BY Invariance, <1>1, PTL

\* Every thread the pool made and nobody shut down yet has exactly one
\* claimant that will call nsThread::Shutdown on it.
THEOREM ReaperCorrect == Spec => []SoleReaper
<1>1. IndInv => SoleReaper
  BY DEF IndInv
<1> QED
  BY Invariance, <1>1, PTL

\* Every thread reference of the pool, of a client and of Shutdown points to a
\* thread in the part of its life that the reference implies.
THEOREM PlacesCorrect == Spec => []ThreadPlaces
<1>1. IndInv => ThreadPlaces
  BY DEF IndInv
<1> QED
  BY Invariance, <1>1, PTL

\* No worker waits on the monitor while an event is queued or after Shutdown.
THEOREM WakeupCorrect == Spec => []NoLostWakeup
<1>1. IndInv => NoLostWakeup
  BY DEF IndInv
<1> QED
  BY Invariance, <1>1, PTL

\* Until Shutdown, a queued event always has a worker that will look at the
\* queue or a client about to start one, but in a pool without threads whose
\* owner passes the limit 0.
THEOREM ServiceCorrect == Spec => []EventServed
<1>1. IndInv => EventServed
  BY DEF IndInv
<1> QED
  BY Invariance, <1>1, PTL

\* The listener told of a thread's creation is told of its end.
THEOREM ListenerCorrect == Spec => []ListenerPaired
<1>1. IndInv => ListenerPaired
  BY DEF IndInv, ListenerInv, ListenerPaired, InRun
<1> QED
  BY Invariance, <1>1, PTL
=============================================================================
