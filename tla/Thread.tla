------------------------------- MODULE Thread -------------------------------
(***************************************************************************)
(* nsThread (xpcom/threads/nsThread.cpp): threads with event queues, that  *)
(* dispatch events to one another, synchronously or not, and that the main *)
(* thread creates and shuts down.                                          *)
(*                                                                         *)
(* A thread has one stack.  A synchronous Dispatch and Shutdown wait by    *)
(* running the caller's own event loop, so frames of unrelated events pile *)
(* up above the frame that waits, and an answer may be consumed by a loop  *)
(* that waits for something else.                                          *)
(*                                                                         *)
(* A step is a section under mLock or the queue's monitor together with    *)
(* the code that only the running thread sees.  Runnables are user code:   *)
(* they call Dispatch and, on the main thread, create and shut down        *)
(* threads, any number of times up to the bound MaxTasks, and then return. *)
(***************************************************************************)
EXTENDS EventQueue, FiniteSets

CONSTANTS
    N,                          \* bound: threads created in a behaviour
    None,                       \* the null pointer
    MaxTasks,                   \* bound: runnables dispatched in a behaviour
    MayFail                     \* may the page for a runnable not be allocated

\* The main thread, which owns the others, and those in order of creation.
Main == 0
Threads == 0 .. N

ASSUME NoneAssumption == None \notin Threads

ASSUME BoundsAssumption ==
    N \in Nat /\ MaxTasks \in Nat \ {0} /\ MayFail \in BOOLEAN

Tasks == 1 .. MaxTasks

\* The runnables that reach a queue.  "task" is a runnable given to Dispatch,
\* "sync" the nsThreadSyncDispatch that wraps one, with its mOrigin; the others
\* are nsThreadStartupEvent, nsThreadShutdownEvent and nsThreadShutdownAckEvent,
\* with the thread that starts, the thread that joins and the thread that ends.
Event ==
    [kind : {"task", "sync"}, thread : Threads, task : Tasks]
        \cup [kind : {"startup", "shutdown", "ack"}, thread : Threads, task : {0}]

TaskEvent(kind, t, n) == [kind |-> kind, thread |-> t, task |-> n]
SystemEvent(kind, t) == [kind |-> kind, thread |-> t, task |-> 0]

\* What a thread can be in the middle of: running a runnable ("run"), telling
\* the origin that a synchronous one has run ("reply"), and waiting for the given
\* event in Shutdown, in Init and in a synchronous Dispatch, where it is about to
\* look at mSyncTask ("sync") or has looked and is in ProcessNextEvent ("wait").
Frame == [op : {"run", "reply", "sync", "wait", "shutdown", "init"}, event : Event]

VARIABLES
    \* fields of each nsThread
    mEvents, mEventsAreDoomed, mShutdownContext, mShutdownRequired,
    \* the nsThreadShutdownContexts whose shutdownAck is set, by thread, and the
    \* nsThreadSyncDispatch objects whose mSyncTask is not null yet
    shutdownAck, mSyncTask,
    \* where each thread is in ThreadFunc, and the frames above it
    pc, stack,
    \* the number of runnables given to Dispatch so far; history: the runnables
    \* each thread has accepted and not yet run to their end
    dispatched, owed

thread == <<mEvents, mEventsAreDoomed, mShutdownContext, mShutdownRequired>>
answers == <<shutdownAck, mSyncTask>>
control == <<pc, stack>>
history == <<dispatched, owed>>
vars == <<thread, answers, control, history>>

-----------------------------------------------------------------------------
(***************************************************************************)
(* Places in the code.                                                     *)
(***************************************************************************)
Top(t) == stack[t][Len(stack[t])]

At(t, op) == stack[t] # <<>> /\ Top(t).op = op

Push(t, op, event) ==
    [stack EXCEPT ![t] = Append(@, [op |-> op, event |-> event])]

Becomes(t, op) == [stack EXCEPT ![t][Len(stack[t])].op = op]

Pop(t) == [stack EXCEPT ![t] = SubSeq(@, 1, Len(@) - 1)]

ShuttingDown(t) == mShutdownContext[t] # None

\* Mutant: Shutdown blocks instead of running the events of its own thread.
InEventLoopUnlessJoining(t) ==
    \/ stack[t] = <<>> /\ pc[t] \in {"loop", "drain"}
    \/ At(t, "wait")

\* Is t in NS_ProcessNextEvent: in a loop of ThreadFunc, or of the main
\* thread, or in one that waits for an answer that had not come.
InEventLoop(t) ==
    \/ stack[t] = <<>> /\ pc[t] \in {"loop", "drain"}
    \/ At(t, "wait")
    \/ At(t, "shutdown") /\ Top(t).event.thread \notin shutdownAck

\* The threads a runnable may hold a pointer to: those whose Init returned.
Known(t) == pc[t] \notin {"none", "starting"}

Init ==
    /\ mEvents = [t \in Threads |-> NewQueue]
    /\ mEventsAreDoomed = [t \in Threads |-> FALSE]
    /\ mShutdownContext = [t \in Threads |-> None]
    /\ mShutdownRequired = [t \in Threads |-> FALSE]
    /\ shutdownAck = {}
    /\ mSyncTask = {}
    /\ pc = [t \in Threads |-> IF t = Main THEN "loop" ELSE "none"]
    \* the main thread is in the runnable that starts the program
    /\ stack = [t \in Threads |->
          IF t = Main THEN <<[op |-> "run", event |-> TaskEvent("task", Main, 1)]>> ELSE <<>>]
    /\ dispatched = 1
    /\ owed = [t \in Threads |-> IF t = Main THEN {1} ELSE {}]

-----------------------------------------------------------------------------
(***************************************************************************)
(* nsThread::Init on the main thread, and the start of ThreadFunc.         *)
(***************************************************************************)

\* PR_CreateThread, then the startup event: the new thread waits for it.
InitThread(t) ==
    /\ At(Main, "run")
    /\ pc[t] = "none"
    /\ \A u \in Threads : u < t => pc[u] # "none"
    /\ mShutdownRequired' = [mShutdownRequired EXCEPT ![t] = TRUE]
    /\ pc' = [pc EXCEPT ![t] = "starting"]
    /\ mEvents' = [mEvents EXCEPT ![t] = PutEvent(@, SystemEvent("startup", t))]
    /\ stack' = Push(Main, "init", SystemEvent("startup", t))
    /\ UNCHANGED <<mEventsAreDoomed, mShutdownContext, answers, history>>

\* ThreadFunc takes the startup event, which unblocks Init.
ProcessStartup(t) ==
    /\ pc[t] = "starting"
    /\ ~IsEmpty(mEvents[t])
    /\ mEvents' = [mEvents EXCEPT ![t] = GetEvent(@)]
    /\ pc' = [pc EXCEPT ![t] = "loop"]
    /\ stack' = Pop(Main)
    /\ UNCHANGED <<mEventsAreDoomed, mShutdownContext, mShutdownRequired, answers, history>>

-----------------------------------------------------------------------------
(***************************************************************************)
(* Dispatch, called by the runnable that t runs, on the target u.          *)
(***************************************************************************)

\* PutEvent refuses: u is doomed, or no page can be allocated.  Nothing is
\* queued, and a synchronous Dispatch does not wait.
DispatchFails(t, u) ==
    /\ At(t, "run")
    /\ Known(u)
    /\ dispatched < MaxTasks
    /\ mEventsAreDoomed[u] \/ (MayFail /\ NeedsPage(mEvents[u]))
    /\ dispatched' = dispatched + 1
    /\ UNCHANGED <<thread, answers, control, owed>>

Accepted(t, u, kind) ==
    /\ At(t, "run")
    /\ Known(u)
    /\ dispatched < MaxTasks
    /\ ~mEventsAreDoomed[u]
    /\ mEvents' = [mEvents EXCEPT ![u] = PutEvent(@, TaskEvent(kind, t, dispatched + 1))]
    /\ dispatched' = dispatched + 1
    /\ owed' = [owed EXCEPT ![u] = @ \cup {dispatched + 1}]
    /\ UNCHANGED <<mEventsAreDoomed, mShutdownContext, mShutdownRequired, shutdownAck, pc>>

DispatchNormal(t, u) ==
    /\ Accepted(t, u, "task")
    /\ UNCHANGED <<mSyncTask, stack>>

DispatchSync(t, u) ==
    /\ Accepted(t, u, "sync")
    /\ mSyncTask' = mSyncTask \cup {dispatched + 1}
    /\ stack' = Push(t, "sync", TaskEvent("sync", t, dispatched + 1))

\* The loop of a synchronous Dispatch sees that mSyncTask is null, or not.
ReturnSync(t) ==
    /\ At(t, "sync")
    /\ Top(t).event.task \notin mSyncTask
    /\ stack' = Pop(t)
    /\ UNCHANGED <<thread, answers, pc, history>>

WaitSync(t) ==
    /\ At(t, "sync")
    /\ Top(t).event.task \in mSyncTask
    /\ stack' = Becomes(t, "wait")
    /\ UNCHANGED <<thread, answers, pc, history>>

-----------------------------------------------------------------------------
(***************************************************************************)
(* ProcessNextEvent: take the next event and start to run it.  The events  *)
(* of the thread's own machinery run to their end in the same step.        *)
(***************************************************************************)
Takes(t, kind) ==
    /\ InEventLoop(t)
    /\ ~IsEmpty(mEvents[t])
    /\ NextEvent(mEvents[t]).kind = kind
    /\ mEvents' = [mEvents EXCEPT ![t] = GetEvent(@)]
    /\ UNCHANGED <<mEventsAreDoomed, mShutdownRequired, mSyncTask, pc, history>>

\* The frames of t once ProcessNextEvent returns: a waiting Dispatch looks again.
Resumed(t) == IF At(t, "wait") THEN Becomes(t, "sync")[t] ELSE stack[t]

\* The frames of t when ProcessNextEvent runs the runnable it took.
Running(t) ==
    [stack EXCEPT ![t] =
        Append(Resumed(t), [op |-> "run", event |-> NextEvent(mEvents[t])])]

RunTask(t) ==
    /\ Takes(t, "task")
    /\ stack' = Running(t)
    /\ UNCHANGED <<mShutdownContext, shutdownAck>>

\* nsThreadSyncDispatch::Run.  Back on its origin mSyncTask is null, and the
\* only use of the event is to have ended the wait.
RunSync(t) ==
    /\ Takes(t, "sync")
    /\ IF NextEvent(mEvents[t]).task \in mSyncTask
       THEN stack' = Running(t)
       ELSE stack' = [stack EXCEPT ![t] = Resumed(t)]
    /\ UNCHANGED <<mShutdownContext, shutdownAck>>

\* nsThreadShutdownEvent::Run
RunShutdownEvent(t) ==
    /\ Takes(t, "shutdown")
    /\ mShutdownContext' = [mShutdownContext EXCEPT ![t] = NextEvent(mEvents[t]).thread]
    /\ stack' = [stack EXCEPT ![t] = Resumed(t)]
    /\ UNCHANGED shutdownAck

\* nsThreadShutdownAckEvent::Run
RunShutdownAck(t) ==
    /\ Takes(t, "ack")
    /\ shutdownAck' = shutdownAck \cup {NextEvent(mEvents[t]).thread}
    /\ stack' = [stack EXCEPT ![t] = Resumed(t)]
    /\ UNCHANGED mShutdownContext

\* A thread that is shutting down does not wait for an event.
PollNothing(t) ==
    /\ At(t, "wait")
    /\ IsEmpty(mEvents[t])
    /\ ShuttingDown(t)
    /\ stack' = [stack EXCEPT ![t] = Resumed(t)]
    /\ UNCHANGED <<thread, answers, pc, history>>

ProcessNextEvent(t) ==
    \/ RunTask(t) \/ RunSync(t) \/ RunShutdownEvent(t) \/ RunShutdownAck(t)
    \/ PollNothing(t)

\* The runnable returns.
EndTask(t) ==
    /\ At(t, "run") /\ Top(t).event.kind = "task"
    /\ stack' = Pop(t)
    /\ owed' = [owed EXCEPT ![t] = @ \ {Top(t).event.task}]
    /\ UNCHANGED <<thread, answers, pc, dispatched>>

\* The wrapped runnable returns: nsThreadSyncDispatch::Run clears mSyncTask,
\* which the origin may see at once, and only then dispatches itself back.
EndSyncTask(t) ==
    /\ At(t, "run") /\ Top(t).event.kind = "sync"
    /\ mSyncTask' = mSyncTask \ {Top(t).event.task}
    /\ stack' = Becomes(t, "reply")
    /\ owed' = [owed EXCEPT ![t] = @ \ {Top(t).event.task}]
    /\ UNCHANGED <<thread, shutdownAck, pc, dispatched>>

\* The answer is refused by an origin that ended in the meantime.
Reply(t) ==
    LET origin == Top(t).event.thread
    IN  /\ At(t, "reply")
        /\ mEvents' = [mEvents EXCEPT ![origin] =
              IF mEventsAreDoomed[origin] THEN @ ELSE PutEvent(@, Top(t).event)]
        /\ stack' = Pop(t)
        /\ UNCHANGED <<mEventsAreDoomed, mShutdownContext, mShutdownRequired, answers,
                       pc, history>>

-----------------------------------------------------------------------------
(***************************************************************************)
(* Shutdown, called by a runnable on the main thread, and the end of       *)
(* ThreadFunc.                                                             *)
(***************************************************************************)

\* The main thread is not (below this call) in a runnable that another thread
\* waits for.  A runnable that shuts down the thread that waits for it waits
\* for itself; nothing in nsThread can end that, so its users avoid it.
NobodyWaitsForMain ==
    \A i \in 1 .. Len(stack[Main]) :
        ~(stack[Main][i].op = "run" /\ stack[Main][i].event.kind = "sync")

\* A second call returns early, without mThread or without mShutdownRequired.
Shutdown(t) ==
    /\ At(Main, "run")
    /\ NobodyWaitsForMain
    /\ Known(t) /\ pc[t] # "joined"
    /\ mShutdownRequired[t]
    /\ mShutdownRequired' = [mShutdownRequired EXCEPT ![t] = FALSE]
    /\ mEvents' = [mEvents EXCEPT ![t] =
          IF mEventsAreDoomed[t] THEN @ ELSE PutEvent(@, SystemEvent("shutdown", Main))]
    /\ stack' = Push(Main, "shutdown", SystemEvent("ack", t))
    /\ UNCHANGED <<mEventsAreDoomed, mShutdownContext, answers, pc, history>>

\* Mutant: the thread ends without running the events that are pending.
LeaveLoopNoDrain(t) ==
    /\ stack[t] = <<>> /\ pc[t] = "loop"
    /\ ShuttingDown(t)
    /\ pc' = [pc EXCEPT ![t] = "doomed"]
    /\ mEventsAreDoomed' = [mEventsAreDoomed EXCEPT ![t] = TRUE]
    /\ UNCHANGED <<mEvents, mShutdownContext, mShutdownRequired, answers, stack, history>>

\* ThreadFunc leaves its event loop once the shutdown event has run in it, or
\* in a loop nested in it.
LeaveLoop(t) ==
    /\ stack[t] = <<>> /\ pc[t] = "loop"
    /\ ShuttingDown(t)
    /\ pc' = [pc EXCEPT ![t] = "drain"]
    /\ UNCHANGED <<thread, answers, stack, history>>

\* Mutant: the queue is doomed without another look at it.
DoomUnchecked(t) ==
    /\ stack[t] = <<>> /\ pc[t] = "drain"
    /\ mEventsAreDoomed' = [mEventsAreDoomed EXCEPT ![t] = TRUE]
    /\ pc' = [pc EXCEPT ![t] = "doomed"]
    /\ UNCHANGED <<mEvents, mShutdownContext, mShutdownRequired, answers, stack, history>>

\* The queue is found empty and doomed in one section under mLock.
Doom(t) ==
    /\ stack[t] = <<>> /\ pc[t] = "drain"
    /\ IsEmpty(mEvents[t])
    /\ mEventsAreDoomed' = [mEventsAreDoomed EXCEPT ![t] = TRUE]
    /\ pc' = [pc EXCEPT ![t] = "doomed"]
    /\ UNCHANGED <<mEvents, mShutdownContext, mShutdownRequired, answers, stack, history>>

\* The acknowledgement, through the context on the joining thread's stack.
Acknowledge(t) ==
    LET joining == mShutdownContext[t]
    IN  /\ pc[t] = "doomed"
        /\ mEvents' = [mEvents EXCEPT ![joining] =
              IF mEventsAreDoomed[joining] THEN @ ELSE PutEvent(@, SystemEvent("ack", t))]
        /\ pc' = [pc EXCEPT ![t] = "ended"]
        /\ UNCHANGED <<mEventsAreDoomed, mShutdownContext, mShutdownRequired, answers,
                       stack, history>>

\* Mutant: Shutdown joins the thread without its acknowledgement.
JoinUnacknowledged ==
    LET t == Top(Main).event.thread
    IN  /\ At(Main, "shutdown")
        /\ pc[t] = "ended"
        /\ pc' = [pc EXCEPT ![t] = "joined"]
        /\ stack' = Pop(Main)
        /\ UNCHANGED <<thread, answers, history>>

\* Shutdown has the acknowledgement, joins the thread and returns.
Join ==
    LET t == Top(Main).event.thread
    IN  /\ At(Main, "shutdown")
        /\ t \in shutdownAck
        /\ pc[t] = "ended"
        /\ pc' = [pc EXCEPT ![t] = "joined"]
        /\ stack' = Pop(Main)
        /\ UNCHANGED <<thread, answers, history>>

-----------------------------------------------------------------------------
Step(t) ==
    \/ ProcessStartup(t)
    \/ \E u \in Threads : DispatchFails(t, u) \/ DispatchNormal(t, u) \/ DispatchSync(t, u)
    \/ ReturnSync(t) \/ WaitSync(t) \/ ProcessNextEvent(t) \/ EndTask(t) \/ EndSyncTask(t) \/ Reply(t)
    \/ LeaveLoop(t) \/ Doom(t) \/ Acknowledge(t)

OwnerStep ==
    Join \/ \E t \in Threads \ {Main} : InitThread(t) \/ Shutdown(t)

Next == OwnerStep \/ \E t \in Threads : Step(t)

Spec == Init /\ [][Next]_vars

\* The scheduler runs every thread that can run, and runnables end: their calls
\* of Dispatch are bounded, so a thread that keeps stepping returns from them.
FairSpec ==
    /\ Spec
    /\ \A t \in Threads \ {Main} : WF_vars(Step(t))
    /\ WF_vars(Step(Main) \/ OwnerStep)

-----------------------------------------------------------------------------
TypeOK ==
    /\ mEvents \in [Threads -> Queue(Event)]
    /\ mEventsAreDoomed \in [Threads -> BOOLEAN]
    /\ mShutdownContext \in [Threads -> Threads \cup {None}]
    /\ mShutdownRequired \in [Threads -> BOOLEAN]
    /\ shutdownAck \subseteq Threads
    /\ mSyncTask \subseteq Tasks
    /\ pc \in [Threads ->
          {"none", "starting", "loop", "drain", "doomed", "ended", "joined"}]
    /\ stack \in [Threads -> Seq(Frame)]
    /\ dispatched \in Nat
    /\ owed \in [Threads -> SUBSET Tasks]

\* nsIThread.idl on shutdown: "it causes any pending events to run to completion
\* before the thread joins", and "it will no longer be possible to dispatch
\* events to the thread".  When Shutdown has joined a thread, every runnable the
\* thread ever accepted has run to its end and it will accept no other.
JoinedIsDone ==
    \A t \in Threads :
        pc[t] = "joined" =>
            /\ owed[t] = {}
            /\ stack[t] = <<>>
            /\ mEventsAreDoomed[t]

\* ThreadFunc: "we will never permit PutEvent to succeed if the event would be
\* left in the queue after our final call to NS_ProcessPendingEvents".  The
\* answers to synchronous calls are no exception.  (Contents means something
\* because the offsets stay within the pages, which is part of TypeOK.)
NothingLeftBehind ==
    /\ TypeOK
    /\ \A t \in Threads : mEventsAreDoomed[t] => Contents(mEvents[t]) = <<>>

Waits(t, op, event) ==
    \E i \in 1 .. Len(stack[t]) : stack[t][i] = [op |-> op, event |-> event]

Queued(t, event) == \E i \in 1 .. Count(mEvents[t]) : Contents(mEvents[t])[i] = event

\* The nsThreadShutdownContext is a local variable of Shutdown, and the shutdown
\* event, the ending thread and the acknowledgement hold bare pointers to it:
\* as long as one of them may still use it, Shutdown has not returned.
ContextOutlivesUse ==
    \A t \in Threads \ {Main} :
        (\/ Queued(t, SystemEvent("shutdown", Main))
         \/ ShuttingDown(t) /\ pc[t] \in {"loop", "drain", "doomed"}
         \/ Queued(Main, SystemEvent("ack", t)))
            => Waits(Main, "shutdown", SystemEvent("ack", t))

-----------------------------------------------------------------------------
\* Every synchronous Dispatch, Shutdown and Init returns, although threads wait
\* for one another in cycles and the answer to a frame is taken by whichever loop
\* is innermost: again and again no thread is in the middle of anything, and a
\* thread that was asked to shut down has been joined.
EveryCallReturns ==
    []<>(\A t \in Threads : stack[t] = <<>> /\ (ShuttingDown(t) => pc[t] = "joined"))

\* The threads implement what EventTargets promises, with pages, dooming and
\* nested loops behind it.
Targets == INSTANCE EventTargets WITH
    Events <- Event,
    pending <- [t \in Threads |-> Contents(mEvents[t])],
    closed <- mEventsAreDoomed

ImplementsTargets == Targets!Spec
=============================================================================
