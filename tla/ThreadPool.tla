----------------------------- MODULE ThreadPool -----------------------------
(***************************************************************************)
(* nsThreadPool (xpcom/threads/nsThreadPool.cpp): an event queue served by *)
(* at most mThreadLimit anonymous worker threads, of which at most         *)
(* mIdleThreadLimit are kept alive while there is nothing to do.           *)
(*                                                                         *)
(* Four kinds of actor interleave.  Clients call Dispatch.  Workers run    *)
(* nsThreadPool::Run on an nsThread of their own.  The owner calls         *)
(* Shutdown and the setters.  The main thread runs the runnables posted by *)
(* ShutdownThread.  A step is a section under the monitor of mEvents, or   *)
(* the code between two such sections.                                     *)
(*                                                                         *)
(* Time is abstract: an idle worker may find its idle timeout expired      *)
(* whenever it looks.  Thread names are left out.                          *)
(***************************************************************************)
EXTENDS Naturals, Sequences, FiniteSets

CONSTANTS
    Events,                     \* runnables, each dispatched at most once
    Clients,                    \* threads that call Dispatch
    Workers,                    \* identities for the pool's nsThreads
    Listeners,                  \* nsIThreadPoolListener objects
    None,                       \* the null pointer
    DEFAULT_THREAD_LIMIT,
    DEFAULT_IDLE_THREAD_LIMIT,
    ThreadLimits,               \* values the owner passes to SetThreadLimit
    IdleThreadLimits,           \* values it passes to SetIdleThreadLimit
    MayFail,                    \* may an allocation of a queue page or thread fail
    OrderlyShutdown             \* does the owner wait for Dispatch calls first

ASSUME NoneAssumption == None \notin Events \cup Workers \cup Listeners

ASSUME WorkersAssumption == IsFiniteSet(Workers)

\* The default is not 0 (cpp:36), but the owner may pass 0.  Limits above 2^31 - 1,
\* which are negative where they are compared (cpp:76, 95), are left out.
ASSUME LimitsAssumption ==
    /\ DEFAULT_THREAD_LIMIT \in Nat \ {0}
    /\ DEFAULT_IDLE_THREAD_LIMIT \in Nat
    /\ ThreadLimits \subseteq Nat
    /\ IdleThreadLimits \subseteq Nat

ASSUME FlagsAssumption == MayFail \in BOOLEAN /\ OrderlyShutdown \in BOOLEAN

VARIABLES
    \* fields of nsThreadPool
    mEvents, mThreads, mThreadLimit, mIdleThreadLimit, mIdleCount, mShutdown,
    mListener,
    \* each worker: where its nsThread is, and the locals of nsThreadPool::Run
    wpc, wasIdle, event, listener, shutdownThreadOnExit,
    \* each worker's nsThread::mShutdownRequired
    mShutdownRequired,
    \* each client: where it is in Dispatch and PutEvent, and their locals
    cpc, cevent, sync, thread,
    \* the owner's call of Shutdown: in progress, its local array, and the
    \* thread whose nsThread::Shutdown it waits for
    inShutdown, threads, joining,
    \* the main thread: posted Shutdown runnables, and those waiting to join
    posted, mainJoining,
    \* history: events dispatched with NS_OK or being so, events run, and the
    \* listeners each worker notified of its creation but not of its end
    accepted, done, notified

poolVars == <<mEvents, mThreads, mThreadLimit, mIdleThreadLimit, mIdleCount,
              mShutdown, mListener>>
workerVars == <<wpc, wasIdle, event, listener, shutdownThreadOnExit, notified>>
clientVars == <<cpc, cevent, sync, thread, accepted>>
reaperVars == <<inShutdown, threads, joining, posted, mainJoining>>
vars == <<poolVars, workerVars, mShutdownRequired, clientVars, reaperVars, done>>

\* A worker identity is "dead" until NewThread creates its nsThread; "fresh"
\* while the nsThread exists but was never given the pool to run; then inside
\* nsThreadPool::Run; "left" once Run returned; "gone" once ThreadFunc set
\* mEventsAreDoomed and acknowledged; "dead" again once joined.
WorkerPC == {"dead", "fresh", "start", "loop", "wait", "run", "exit", "left",
             "gone"}
InRun == {"start", "loop", "wait", "run", "exit"}

ClientPC == {"idle", "put", "spawn", "append", "dispatch", "kill", "killwait",
             "syncwait"}

TypeOK ==
    /\ mEvents \in Seq(Events)
    /\ mThreads \subseteq Workers
    /\ mThreadLimit \in ThreadLimits \cup {DEFAULT_THREAD_LIMIT}
    /\ mIdleThreadLimit \in Nat
    /\ mIdleCount \in Nat
    /\ mShutdown \in BOOLEAN
    /\ mListener \in Listeners \cup {None}
    /\ wpc \in [Workers -> WorkerPC]
    /\ wasIdle \in [Workers -> BOOLEAN]
    /\ event \in [Workers -> Events \cup {None}]
    /\ listener \in [Workers -> Listeners \cup {None}]
    /\ shutdownThreadOnExit \in [Workers -> BOOLEAN]
    /\ mShutdownRequired \in [Workers -> BOOLEAN]
    /\ cpc \in [Clients -> ClientPC]
    /\ cevent \in [Clients -> Events \cup {None}]
    /\ sync \in [Clients -> BOOLEAN]
    /\ thread \in [Clients -> Workers \cup {None}]
    /\ inShutdown \in BOOLEAN
    /\ threads \subseteq Workers
    /\ joining \in Workers \cup {None}
    /\ posted \subseteq Workers
    /\ mainJoining \subseteq Workers
    /\ accepted \subseteq Events
    /\ done \subseteq Events
    /\ notified \in [Workers -> SUBSET Listeners]

\* The constructor, and the pool before its first Dispatch.
Init ==
    /\ mEvents = <<>>
    /\ mThreads = {}
    /\ mThreadLimit = DEFAULT_THREAD_LIMIT
    /\ mIdleThreadLimit = DEFAULT_IDLE_THREAD_LIMIT
    /\ mIdleCount = 0
    /\ mShutdown = FALSE
    /\ mListener = None
    /\ wpc = [w \in Workers |-> "dead"]
    /\ wasIdle = [w \in Workers |-> FALSE]
    /\ event = [w \in Workers |-> None]
    /\ listener = [w \in Workers |-> None]
    /\ shutdownThreadOnExit = [w \in Workers |-> FALSE]
    /\ mShutdownRequired = [w \in Workers |-> FALSE]
    /\ cpc = [c \in Clients |-> "idle"]
    /\ cevent = [c \in Clients |-> None]
    /\ sync = [c \in Clients |-> FALSE]
    /\ thread = [c \in Clients |-> None]
    /\ inShutdown = FALSE
    /\ threads = {}
    /\ joining = None
    /\ posted = {}
    /\ mainJoining = {}
    /\ accepted = {}
    /\ done = {}
    /\ notified = [w \in Workers |-> {}]

-----------------------------------------------------------------------------
(***************************************************************************)
(* nsThread as the pool uses it.                                           *)
(***************************************************************************)

\* Mutant: the waiting workers are not notified.
NotifyNone(pc) == pc

\* mon.NotifyAll(): every worker in mon.Wait will look at the pool again.
NotifyAll(pc) == [w \in Workers |-> IF pc[w] = "wait" THEN "loop" ELSE pc[w]]

\* The first part of nsThread::Shutdown, up to the posting of the shutdown
\* event.  A second call finds mShutdownRequired cleared and returns an error.
RequestShutdown(w) ==
    mShutdownRequired' = [mShutdownRequired EXCEPT ![w] = FALSE]

\* ThreadFunc: once the shutdown event ran, a thread whose queue is empty dooms
\* further events, acknowledges and returns.  The pool's runnable is the only
\* other event its queue ever holds ("start" means that it is there).
ThreadFuncExit(w) ==
    /\ wpc[w] \in {"fresh", "left"}
    /\ ~mShutdownRequired[w]
    /\ wpc' = [wpc EXCEPT ![w] = "gone"]
    /\ UNCHANGED <<poolVars, wasIdle, event, listener, shutdownThreadOnExit,
                   notified, mShutdownRequired, clientVars, reaperVars, done>>

\* The last part of nsThread::Shutdown: the acknowledged thread is joined.
Join(w) ==
    /\ wpc[w] = "gone"
    /\ wpc' = [wpc EXCEPT ![w] = "dead"]

-----------------------------------------------------------------------------
(***************************************************************************)
(* Dispatch and PutEvent, on a client's thread.                            *)
(***************************************************************************)

\* Dispatch reads mShutdown without the monitor: PutEvent is a later step.
Dispatch(c, e, s) ==
    /\ cpc[c] = "idle"
    /\ e \notin accepted
    /\ ~mShutdown
    /\ cpc' = [cpc EXCEPT ![c] = "put"]
    /\ cevent' = [cevent EXCEPT ![c] = e]
    /\ sync' = [sync EXCEPT ![c] = s]
    /\ accepted' = accepted \cup {e}
    /\ UNCHANGED <<poolVars, workerVars, mShutdownRequired, thread, reaperVars,
                   done>>

\* Where Dispatch continues when PutEvent returns, whatever its result.
AfterPut(c) == IF sync[c] THEN "syncwait" ELSE "idle"

\* Mutant: the limit is off by one.
SpawnThreadOffByOne ==
    mIdleCount = 0 /\ Cardinality(mThreads) + 1 < mThreadLimit

\* "Make sure we have a thread to service this event."
SpawnThread ==
    mIdleCount = 0 /\ Cardinality(mThreads) < mThreadLimit

\* The first monitor section of PutEvent; mEvents.PutEvent notifies.
PutEvent(c) ==
    /\ cpc[c] = "put"
    /\ \/ /\ mEvents' = Append(mEvents, cevent[c])
          /\ wpc' = NotifyAll(wpc)
       \/ /\ MayFail
          /\ UNCHANGED <<mEvents, wpc>>
    /\ cpc' = [cpc EXCEPT ![c] = IF SpawnThread THEN "spawn" ELSE AfterPut(c)]
    /\ UNCHANGED <<mThreads, mThreadLimit, mIdleThreadLimit, mIdleCount,
                   mShutdown, mListener, wasIdle, event, listener,
                   shutdownThreadOnExit, notified, mShutdownRequired, cevent,
                   sync, thread, accepted, reaperVars, done>>

\* nsThreadManager::NewThread.  A worker identity is used again once its
\* nsThread is joined and no client holds it.
NewThread(c, w) ==
    /\ cpc[c] = "spawn"
    /\ wpc[w] = "dead"
    /\ \A d \in Clients : thread[d] # w
    /\ wpc' = [wpc EXCEPT ![w] = "fresh"]
    /\ wasIdle' = [wasIdle EXCEPT ![w] = FALSE]
    /\ event' = [event EXCEPT ![w] = None]
    /\ listener' = [listener EXCEPT ![w] = None]
    /\ shutdownThreadOnExit' = [shutdownThreadOnExit EXCEPT ![w] = FALSE]
    /\ mShutdownRequired' = [mShutdownRequired EXCEPT ![w] = TRUE]
    /\ cpc' = [cpc EXCEPT ![c] = "append"]
    /\ thread' = [thread EXCEPT ![c] = w]
    /\ UNCHANGED <<poolVars, notified, cevent, sync, accepted, reaperVars, done>>

\* NS_ENSURE_STATE(thread): PutEvent fails, which Dispatch ignores.
NewThreadFails(c) ==
    /\ MayFail
    /\ cpc[c] = "spawn"
    /\ cpc' = [cpc EXCEPT ![c] = AfterPut(c)]
    /\ UNCHANGED <<poolVars, workerVars, mShutdownRequired, cevent, sync, thread,
                   accepted, reaperVars, done>>

\* The second monitor section of PutEvent.
AppendThread(c) ==
    /\ cpc[c] = "append"
    /\ IF Cardinality(mThreads) < mThreadLimit
       THEN /\ mThreads' = mThreads \cup {thread[c]}
            /\ cpc' = [cpc EXCEPT ![c] = "dispatch"]
       ELSE /\ cpc' = [cpc EXCEPT ![c] = "kill"]
            /\ UNCHANGED mThreads
    /\ UNCHANGED <<mEvents, mThreadLimit, mIdleThreadLimit, mIdleCount,
                   mShutdown, mListener, workerVars, mShutdownRequired, cevent,
                   sync, thread, accepted, reaperVars, done>>

\* thread->Dispatch(this): rejected, unnoticed, by a thread that has exited.
DispatchPool(c) ==
    /\ cpc[c] = "dispatch"
    /\ wpc' = [wpc EXCEPT ![thread[c]] = IF @ = "fresh" THEN "start" ELSE @]
    /\ cpc' = [cpc EXCEPT ![c] = AfterPut(c)]
    /\ thread' = [thread EXCEPT ![c] = None]
    /\ UNCHANGED <<poolVars, wasIdle, event, listener, shutdownThreadOnExit,
                   notified, mShutdownRequired, cevent, sync, accepted,
                   reaperVars, done>>

\* killThread: the client shuts the surplus thread down itself ...
KillThread(c) ==
    /\ cpc[c] = "kill"
    /\ RequestShutdown(thread[c])
    /\ cpc' = [cpc EXCEPT ![c] = "killwait"]
    /\ UNCHANGED <<poolVars, workerVars, cevent, sync, thread, accepted,
                   reaperVars, done>>

\* ... and joins it.
KillJoined(c) ==
    /\ cpc[c] = "killwait"
    /\ Join(thread[c])
    /\ cpc' = [cpc EXCEPT ![c] = AfterPut(c)]
    /\ thread' = [thread EXCEPT ![c] = None]
    /\ UNCHANGED <<poolVars, wasIdle, event, listener, shutdownThreadOnExit,
                   notified, mShutdownRequired, cevent, sync, accepted,
                   reaperVars, done>>

\* DISPATCH_SYNC: wrapper->IsPending() turned false.
SyncDone(c) ==
    /\ cpc[c] = "syncwait"
    /\ cevent[c] \in done
    /\ cpc' = [cpc EXCEPT ![c] = "idle"]
    /\ UNCHANGED <<poolVars, workerVars, mShutdownRequired, cevent, sync, thread,
                   accepted, reaperVars, done>>

-----------------------------------------------------------------------------
(***************************************************************************)
(* nsThreadPool::Run, on a worker.                                         *)
(***************************************************************************)

\* The prologue: read mListener under the monitor, call OnThreadCreated.
RunEnter(w) ==
    /\ wpc[w] = "start"
    /\ wpc' = [wpc EXCEPT ![w] = "loop"]
    /\ listener' = [listener EXCEPT ![w] = mListener]
    /\ notified' = [notified EXCEPT ![w] = @ \cup ({mListener} \ {None})]
    /\ UNCHANGED <<poolVars, wasIdle, event, shutdownThreadOnExit,
                   mShutdownRequired, clientVars, reaperVars, done>>

\* Mutant: the count is decremented for every worker.
NoLongerIdleAlways(w) == mIdleCount - 1

\* Mutant: the count is not decremented.
NoLongerIdleNever(w) == mIdleCount

\* "if (wasIdle) --mIdleCount", both when a worker takes an event and when it
\* leaves.
NoLongerIdle(w) == IF wasIdle[w] THEN mIdleCount - 1 ELSE mIdleCount

\* GetPendingEvent succeeds; an idle worker stops counting as one.
TakeEvent(w) ==
    /\ wpc[w] = "loop"
    /\ mEvents # <<>>
    /\ event' = [event EXCEPT ![w] = Head(mEvents)]
    /\ mEvents' = Tail(mEvents)
    /\ mIdleCount' = NoLongerIdle(w)
    /\ wasIdle' = [wasIdle EXCEPT ![w] = FALSE]
    /\ wpc' = [wpc EXCEPT ![w] = "run"]
    /\ UNCHANGED <<mThreads, mThreadLimit, mIdleThreadLimit, mShutdown,
                   mListener, listener, shutdownThreadOnExit, notified,
                   mShutdownRequired, clientVars, reaperVars, done>>

\* Nothing is pending and this worker may become idle.
GoIdle(w) ==
    /\ wpc[w] = "loop"
    /\ mEvents = <<>>
    /\ ~mShutdown
    /\ ~wasIdle[w]
    /\ mIdleCount # mIdleThreadLimit
    /\ mIdleCount' = mIdleCount + 1
    /\ wasIdle' = [wasIdle EXCEPT ![w] = TRUE]
    /\ wpc' = [wpc EXCEPT ![w] = "wait"]
    /\ UNCHANGED <<mEvents, mThreads, mThreadLimit, mIdleThreadLimit, mShutdown,
                   mListener, event, listener, shutdownThreadOnExit, notified,
                   mShutdownRequired, clientVars, reaperVars, done>>

\* Nothing is pending, the idle timeout has not expired: wait for the rest of it.
StayIdle(w) ==
    /\ wpc[w] = "loop"
    /\ mEvents = <<>>
    /\ ~mShutdown
    /\ wasIdle[w]
    /\ mIdleCount <= mIdleThreadLimit
    /\ wpc' = [wpc EXCEPT ![w] = "wait"]
    /\ UNCHANGED <<poolVars, wasIdle, event, listener, shutdownThreadOnExit,
                   notified, mShutdownRequired, clientVars, reaperVars, done>>

\* Why a worker with nothing to do leaves: shutdown; it is idle and there are
\* too many idle workers or its timeout expired (at any time, here); or it would
\* be one idle worker too many.
MayExit(w) == mShutdown \/ wasIdle[w] \/ mIdleCount = mIdleThreadLimit

\* Mutant: RemoveObject's result is ignored.
RemovedAlways(w) == TRUE

\* mThreads.RemoveObject(current) returns whether the pool still had the thread;
\* if not, a call of Shutdown took it.
Removed(w) == w \in mThreads

\* Mutant: the thread is looked up but not removed.
NotRemoved(w) == mThreads

RemoveObject(w) == mThreads \ {w}

\* The worker leaves, and must have itself shut down unless Shutdown() took it.
ExitThread(w) ==
    /\ wpc[w] = "loop"
    /\ mEvents = <<>>
    /\ MayExit(w)
    /\ mIdleCount' = NoLongerIdle(w)
    /\ wasIdle' = [wasIdle EXCEPT ![w] = FALSE]
    /\ shutdownThreadOnExit' =
          [shutdownThreadOnExit EXCEPT ![w] = Removed(w)]
    /\ mThreads' = RemoveObject(w)
    /\ wpc' = [wpc EXCEPT ![w] = "exit"]
    /\ UNCHANGED <<mEvents, mThreadLimit, mIdleThreadLimit, mShutdown, mListener,
                   event, listener, notified, mShutdownRequired, clientVars,
                   reaperVars, done>>

\* mon.Wait(delta) times out.
WaitTimeout(w) ==
    /\ wpc[w] = "wait"
    /\ wpc' = [wpc EXCEPT ![w] = "loop"]
    /\ UNCHANGED <<poolVars, wasIdle, event, listener, shutdownThreadOnExit,
                   notified, mShutdownRequired, clientVars, reaperVars, done>>

\* event->Run(), outside the monitor.
RunEvent(w) ==
    /\ wpc[w] = "run"
    /\ done' = done \cup {event[w]}
    /\ event' = [event EXCEPT ![w] = None]
    /\ wpc' = [wpc EXCEPT ![w] = "loop"]
    /\ UNCHANGED <<poolVars, wasIdle, listener, shutdownThreadOnExit, notified,
                   mShutdownRequired, clientVars, reaperVars>>

\* Mutant: the current listener is notified, not the one the worker kept.
CurrentListener(w) == mListener

\* The listener Run notifies at the end is the one it read at the start.
OwnListener(w) == listener[w]

\* Mutant: the exiting worker does not have itself shut down.
NoShutdownThread(w) == posted

\* ShutdownThread posts thread->Shutdown to the main thread.
ShutdownThread(w) == IF shutdownThreadOnExit[w] THEN posted \cup {w} ELSE posted

\* The epilogue: OnThreadShuttingDown, then ShutdownThread(current).
RunLeave(w) ==
    /\ wpc[w] = "exit"
    /\ wpc' = [wpc EXCEPT ![w] = "left"]
    /\ notified' = [notified EXCEPT ![w] = @ \ {OwnListener(w)}]
    /\ posted' = ShutdownThread(w)
    /\ shutdownThreadOnExit' = [shutdownThreadOnExit EXCEPT ![w] = FALSE]
    /\ UNCHANGED <<poolVars, wasIdle, event, listener, mShutdownRequired,
                   clientVars, inShutdown, threads, joining, mainJoining, done>>

-----------------------------------------------------------------------------
(***************************************************************************)
(* The main thread runs what ShutdownThread posted.  nsThread::Shutdown    *)
(* spins the event loop, so several may be waiting to join at once.        *)
(***************************************************************************)

MainShutdownThread(w) ==
    /\ w \in posted
    /\ posted' = posted \ {w}
    /\ mainJoining' = mainJoining \cup {w}
    /\ RequestShutdown(w)
    /\ UNCHANGED <<poolVars, workerVars, clientVars, inShutdown, threads,
                   joining, done>>

MainJoined(w) ==
    /\ w \in mainJoining
    /\ Join(w)
    /\ mainJoining' = mainJoining \ {w}
    /\ UNCHANGED <<poolVars, wasIdle, event, listener, shutdownThreadOnExit,
                   notified, mShutdownRequired, clientVars, inShutdown, threads,
                   joining, posted, done>>

-----------------------------------------------------------------------------
(***************************************************************************)
(* The owner: Shutdown (called explicitly and again by the destructor) and *)
(* the setters.                                                            *)
(***************************************************************************)

\* The monitor section of Shutdown.
ShutdownBegin ==
    /\ ~inShutdown
    /\ OrderlyShutdown => \A c \in Clients : cpc[c] \in {"idle", "syncwait"}
    /\ inShutdown' = TRUE
    /\ mShutdown' = TRUE
    /\ wpc' = NotifyAll(wpc)
    /\ threads' = mThreads
    /\ mThreads' = {}
    /\ mListener' = None
    /\ UNCHANGED <<mEvents, mThreadLimit, mIdleThreadLimit, mIdleCount, wasIdle,
                   event, listener, shutdownThreadOnExit, notified,
                   mShutdownRequired, clientVars, joining, posted, mainJoining,
                   done>>

\* threads[i]->Shutdown() for the next i ...
ShutdownNext(w) ==
    /\ inShutdown
    /\ joining = None
    /\ w \in threads
    /\ threads' = threads \ {w}
    /\ joining' = w
    /\ RequestShutdown(w)
    /\ UNCHANGED <<poolVars, workerVars, clientVars, inShutdown, posted,
                   mainJoining, done>>

\* ... returns once that thread is joined.
ShutdownJoined ==
    /\ joining # None
    /\ Join(joining)
    /\ joining' = None
    /\ UNCHANGED <<poolVars, wasIdle, event, listener, shutdownThreadOnExit,
                   notified, mShutdownRequired, clientVars, inShutdown, threads,
                   posted, mainJoining, done>>

ShutdownReturn ==
    /\ inShutdown
    /\ joining = None
    /\ threads = {}
    /\ inShutdown' = FALSE
    /\ UNCHANGED <<poolVars, workerVars, mShutdownRequired, clientVars, threads,
                   joining, posted, mainJoining, done>>

Lesser(m, n) == IF m < n THEN m ELSE n

SetThreadLimit(value) ==
    /\ mThreadLimit' = value
    /\ mIdleThreadLimit' = Lesser(mIdleThreadLimit, value)
    /\ wpc' = NotifyAll(wpc)
    /\ UNCHANGED <<mEvents, mThreads, mIdleCount, mShutdown, mListener, wasIdle,
                   event, listener, shutdownThreadOnExit, notified,
                   mShutdownRequired, clientVars, reaperVars, done>>

SetIdleThreadLimit(value) ==
    /\ mIdleThreadLimit' = Lesser(value, mThreadLimit)
    /\ wpc' = NotifyAll(wpc)
    /\ UNCHANGED <<mEvents, mThreads, mThreadLimit, mIdleCount, mShutdown,
                   mListener, wasIdle, event, listener, shutdownThreadOnExit,
                   notified, mShutdownRequired, clientVars, reaperVars, done>>

\* The timeout's value is abstracted; its setter wakes the idle workers.
SetIdleThreadTimeout ==
    /\ wpc' = NotifyAll(wpc)
    /\ UNCHANGED <<poolVars, wasIdle, event, listener, shutdownThreadOnExit,
                   notified, mShutdownRequired, clientVars, reaperVars, done>>

SetListener(l) ==
    /\ mListener' = l
    /\ UNCHANGED <<mEvents, mThreads, mThreadLimit, mIdleThreadLimit, mIdleCount,
                   mShutdown, workerVars, mShutdownRequired, clientVars,
                   reaperVars, done>>

-----------------------------------------------------------------------------

ClientStep(c) ==
    \/ \E e \in Events, s \in BOOLEAN : Dispatch(c, e, s)
    \/ PutEvent(c)
    \/ \E w \in Workers : NewThread(c, w)
    \/ NewThreadFails(c)
    \/ AppendThread(c)
    \/ DispatchPool(c)
    \/ KillThread(c)
    \/ KillJoined(c)
    \/ SyncDone(c)

WorkerStep(w) ==
    \/ RunEnter(w)
    \/ TakeEvent(w)
    \/ GoIdle(w)
    \/ StayIdle(w)
    \/ ExitThread(w)
    \/ WaitTimeout(w)
    \/ RunEvent(w)
    \/ RunLeave(w)
    \/ ThreadFuncExit(w)

MainStep(w) == MainShutdownThread(w) \/ MainJoined(w)

ShutdownStep ==
    \/ \E w \in Workers : ShutdownNext(w)
    \/ ShutdownJoined
    \/ ShutdownReturn

OwnerStep ==
    \/ ShutdownBegin
    \/ ShutdownStep
    \/ \E n \in ThreadLimits : SetThreadLimit(n)
    \/ \E n \in IdleThreadLimits : SetIdleThreadLimit(n)
    \/ SetIdleThreadTimeout
    \/ \E l \in Listeners \cup {None} : SetListener(l)

Next ==
    \/ \E c \in Clients : ClientStep(c)
    \/ \E w \in Workers : WorkerStep(w) \/ MainStep(w)
    \/ OwnerStep

Spec == Init /\ [][Next]_vars

\* The scheduler runs every thread that can move, event->Run() returns, and the
\* main thread and the owner's thread keep processing their events.  Nobody is
\* obliged to dispatch an event or to shut the pool down.
Fairness ==
    /\ \A c \in Clients :
          /\ WF_vars(PutEvent(c))
          /\ WF_vars(\E w \in Workers : NewThread(c, w))
          /\ WF_vars(AppendThread(c) \/ DispatchPool(c) \/ KillThread(c))
          /\ WF_vars(KillJoined(c) \/ SyncDone(c))
    /\ \A w \in Workers : WF_vars(WorkerStep(w)) /\ WF_vars(MainStep(w))
    /\ WF_vars(ShutdownStep)

FairSpec == Spec /\ Fairness

-----------------------------------------------------------------------------
(***************************************************************************)
(* Safety.                                                                 *)
(***************************************************************************)

\* mIdleCount counts the workers whose local wasIdle is set: every path through
\* the monitor section of Run, an exit at shutdown included, keeps the shared
\* counter and the workers' private flags together (nsThreadPool.cpp:153-191).
IdleCountExact == mIdleCount = Cardinality({w \in Workers : wasIdle[w]})

\* Threads some client created and has neither added to mThreads nor asked to
\* shut down yet.
Held == {thread[c] : c \in {d \in Clients : cpc[d] \in {"append", "kill"}}}

\* Workers that removed themselves from mThreads and have yet to post their own
\* Shutdown.
Leaving == {w \in Workers : shutdownThreadOnExit[w]}

\* nsThread::Shutdown must be called exactly once on every thread.  Whoever is
\* going to call it is, at any time, exactly one of: the pool (mThreads), a call
\* of Shutdown (threads), the main thread's queue, the exiting worker itself,
\* and the client that created the thread.  A thread with no claimant would
\* never be joined, one with two would be shut down twice (cpp:95-104, 181,
\* 202-204, 256-257).
SoleReaper ==
    /\ {w \in Workers : mShutdownRequired[w]} =
          mThreads \cup threads \cup posted \cup Leaving \cup Held
    /\ mThreads \cap (threads \cup posted \cup Leaving \cup Held) = {}
    /\ threads \cap (posted \cup Leaving \cup Held) = {}
    /\ posted \cap (Leaving \cup Held) = {}
    /\ Leaving \cap Held = {}

\* What a reference to a thread says about where the thread is.  A client's
\* local thread is its own until it is in mThreads and given the pool to run; a
\* thread in mThreads serves the queue or is about to; one that left Run, or was
\* never in it, is waiting for whoever shuts it down.  This is the part of the
\* inductive invariant that ties mThreads to the workers' progress (cpp:82-106,
\* 153-204, 246-257).
ThreadPlaces ==
    /\ \A w \in Workers : mShutdownRequired[w] => wpc[w] \notin {"gone", "dead"}
    /\ \A w \in Workers : shutdownThreadOnExit[w] => wpc[w] = "exit"
    /\ \A w \in Workers : wasIdle[w] => wpc[w] \in {"loop", "wait"}
    /\ \A w \in mThreads :
          \/ wpc[w] \in {"start", "loop", "wait", "run"}
          \/ wpc[w] = "fresh" /\ \E c \in Clients : cpc[c] = "dispatch"
                                                   /\ thread[c] = w
    /\ \A w \in posted : wpc[w] = "left"
    /\ \A c \in Clients :
          /\ thread[c] # None
                <=> cpc[c] \in {"append", "dispatch", "kill", "killwait"}
          /\ cpc[c] \in {"append", "kill"} => wpc[thread[c]] = "fresh"
          /\ cpc[c] = "dispatch" /\ ~mShutdown
                => wpc[thread[c]] = "fresh" /\ thread[c] \in mThreads
          /\ \A d \in Clients : thread[c] = thread[d] /\ thread[c] # None => c = d
    /\ ~inShutdown => threads = {} /\ joining = None

\* No wakeup is lost: a worker never sleeps in mon.Wait while an event is queued
\* or the pool is shut down, so no notification is needed but those the code
\* sends (nsThreadPool.cpp:153-191, 254; nsEventQueue.cpp:110).
NoLostWakeup ==
    \A w \in Workers : wpc[w] = "wait" => mEvents = <<>> /\ ~mShutdown

\* While the pool is not shut down, a queued event has a worker that will look
\* at the queue again, or a client about to start one (cpp:75-105).  The exception
\* is a pool that was given the thread limit 0, which SetThreadLimit accepts
\* (cpp:281-290): once it has no thread, PutEvent queues events that nobody serves,
\* and a higher limit does not start a thread before the next event.
EventServed ==
    mEvents # <<>> /\ ~mShutdown /\ ~MayFail
       => \/ \E w \in Workers : wpc[w] \in {"start", "loop", "run"}
          \/ \E c \in Clients : cpc[c] \in {"spawn", "append", "dispatch"}
          \/ 0 \in ThreadLimits /\ mThreads = {}

\* "A listener that receives an onThreadCreated() notification is guaranteed to
\* always receive the corresponding onThreadShuttingDown() notification", even
\* when mListener is replaced or swapped out by Shutdown in between
\* (nsIThreadPool.idl:64-66).
ListenerPaired ==
    \A w \in Workers : wpc[w] \notin InRun => notified[w] = {}

-----------------------------------------------------------------------------
(***************************************************************************)
(* Liveness, under FairSpec.                                               *)
(***************************************************************************)

\* When allocations succeed, no Dispatch call races with Shutdown and the owner
\* never passes the thread limit 0 (see EventServed), every event that Dispatch
\* accepted is run, also by a pool that is shutting down.
EveryEventRuns == \A e \in Events : []<>(e \in accepted => e \in done)

\* After such a Shutdown every thread the pool ever made is joined.
EveryThreadJoined == []<>(mShutdown => \A w \in Workers : wpc[w] = "dead")

-----------------------------------------------------------------------------
(***************************************************************************)
(* What comments and interfaces say and the code does not do.              *)
(***************************************************************************)

\* "Non-empty event queue being destroyed; events being leaked"
\* (nsEventQueue.cpp:39) is not asserted by the destructor: once Shutdown and
\* all Dispatch calls returned and all threads are joined, nothing is queued.
NoEventLeaked ==
    ( /\ mShutdown
      /\ ~inShutdown
      /\ \A c \in Clients : cpc[c] = "idle"
      /\ \A w \in Workers : wpc[w] = "dead" )
       => mEvents = <<>>
=============================================================================
