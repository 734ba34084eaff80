# Gecko's threading and messaging core in TLA+

This directory models the parts of mozilla-central in which threads and
processes hand work to each other: the threads of XPCOM with their event queues
(`xpcom/threads/nsThread.cpp`, `nsEventQueue.cpp`), its thread pool
(`nsThreadPool.cpp`) and timers (`nsTimerImpl.cpp`, `TimerThread.cpp`), the RPC
channel between Gecko's processes (`ipc/glue/RPCChannel.cpp`, on top of
`SyncChannel` and `AsyncChannel`), and the scheduler of IndexedDB transactions
(`dom/indexedDB/TransactionThreadPool.cpp`), a client of the thread pool. They were chosen because everything else rests on them, because
their comments state invariants, and because what can go wrong in them is a
matter of interleavings that tests hardly reach.

## 1. Inventory

| Component | State | Operations | Interacts with | What must hold |
|---|---|---|---|---|
| `nsThreadPool` | event queue and its monitor, `mThreads`, limits, `mIdleCount`, `mShutdown`, `mListener`; per worker the locals of `Run` | `Dispatch`, `PutEvent`, `Run`, `ShutdownThread`, `Shutdown`, setters | `nsThread` (one per worker), main thread (posted `Shutdown` runnables), listener | idle count exact, every thread shut down exactly once, no lost wakeup, every accepted event runs, listener notifications paired |
| `nsThread` | event queue, `mShutdownRequired`, `mShutdownContext`, `mEventsAreDoomed`; the stack of nested event loops | `Init`, `Dispatch` (normal, synchronous), `ProcessNextEvent`, `Shutdown`, `ThreadFunc` | `nsEventQueue`, other threads, observers | every accepted event runs, in order, before the thread is joined; every wait ends |
| `nsEventQueue` | linked pages, head and tail offsets | `PutEvent`, `GetEvent`, `IsEmpty` | `nsThread`, `nsThreadPool` (its monitor is the pool's) | FIFO, nothing lost at a page boundary |
| `TimerThread`, `nsTimerImpl` | ordered array of timers, `mShutdown`, `mSleeping`; per timer reference count, `mArmed`, `mCanceled`, `mGeneration`, `mTimeout` | `AddTimer`, `RemoveTimer`, `TimerDelayChanged`, `Run`, `PostTimerEvent`, `Fire`, `Init`, `Cancel`, `SetDelay`, `Release`, sleep, wake, shutdown | every thread with timers | references exact, an armed timer fires, early by the adjustment at most, nothing left armed at shutdown |
| `LazyIdleThread` | `mThread`, idle timer, notification counters | `Dispatch`, idle timeout, `Shutdown` | `nsThread`, `nsITimer` | an event never reaches a thread that is being shut down |
| `RPCChannel` | `mPending`, `mStack`, `mOutOfTurnReplies`, `mDeferred`, `mRemoteStackDepthGuess`, the C++ stack, posted dequeue tasks | `Call`, `Incall`, `OnMaybeDequeueOne`, `OnMessageReceivedFromLink`, link errors | the peer process, its worker's event loop | replies match calls, no race seen by one side only, deferred calls run, nobody waits for good |
| `SyncChannel`, `AsyncChannel` | `mPendingReply`, `mRecvd`, `mChannelState` | `Send`, `OnDispatchMessage`, open and close | link thread | one sync message at a time, orderly close |
| IndexedDB transaction scheduling | per database the blocking graph of transactions over object stores, callbacks | `Dispatch`, `FinishTransaction`, `AbortTransactionsForDatabase`, `WaitForAllDatabasesToComplete` | `nsThreadPool`, main thread | isolation in creation order, every transaction finishes |
| `nsPipe3` | segmented buffer, cursors, statuses | read, write, `AsyncWait`, close | two threads | bytes in order, no lost notification |
| mozStorage asynchronous execution | statement state, cancel flag, async thread | execute, cancel, close | `nsThread` | one completion per statement |

The behaviours that are hard: sections under a monitor with code between them,
tests made outside the monitor, notifications, threads that end by themselves
while somebody else ends them, re-entrancy (an event loop spun inside a handler,
a handler run inside a wait), two processes that call each other at once, and
failures in the middle of a sequence. `PROJECT.json` lists them one by one,
with their lines, under `hazards`.

Not modelled, and not planned: the JavaScript engine, layout, graphics, the
front end (sequential computation over large data, or code without a protocol of
its own), vendored libraries and generated code. `PROJECT.json` names them with
the reason.

## 2. Modules

| Module | Contents |
|---|---|
| `EventQueue` | `nsEventQueue`: the paged queue as a value, its operations, and the sequence it stands for |
| `EventQueueProofs` | what its operations do to that sequence, as theorems |
| `EventTargets` | what `Dispatch` promises: the abstract specification |
| `Thread` | `nsThread` over `EventQueue`, and the mapping to `EventTargets` |
| `ThreadMC` | its instance for TLC |
| `ThreadProofs` | its safety properties and the refinement, as theorems |
| `TimerThread` | the timer thread, its timers and their owner |
| `TimerThreadMC` | its instance for TLC |
| `TimerThreadProofs` | reference counts of timers, the list, the end, waits and early firing, as theorems |
| `ThreadPool` | `nsThreadPool` with the handshake of `nsThread::Shutdown` |
| `ThreadPoolMC` | its instances for TLC, with the symmetry set |
| `ThreadPoolProofs` | its invariants as theorems |
| `RPCChannel` | both ends of a channel, with their worker and link threads |
| `RPCChannelMC` | its instances for TLC |
| `RPCChannelProofs` | who calls, handles and answers what, depth guesses and tasks, as theorems |
| `RPCRaceProofs` | that races are symmetric, as a theorem |
| `TransactionThreadPool` | the scheduler, with the life of transactions and requests |
| `TransactionThreadPoolMC` | its instances for TLC |
| `TransactionProofs` | its invariants and `CallbackFindsIdle`, as theorems |
| `Counting` | `Occurrences`, with which properties count what is under way |
| `CountingProofs` | lemmas about `Occurrences` and about least numbers |

### EventQueue, Thread and EventTargets

A queue is a record: its pages, and the read and write offsets. `PutEvent` and
`GetEvent` are the code's, with the page that is allocated and the one that is
freed; `Contents` is the sequence of events a queue stands for.

`Thread` has one step for each section under `mLock` or the queue's monitor. The
variables named `m...` are the fields of each `nsThread`; `pc` is the place in
`ThreadFunc`, and `stack` the frames above it: a runnable (`run`), the answer to a
synchronous one (`reply`), and the waits in `Init`, in a synchronous `Dispatch`
(`sync` before it looks at `mSyncTask`, `wait` in `ProcessNextEvent`) and in
`Shutdown`. All of the waits but `Init`'s run the thread's own events, so any event may run
above any wait (`InEventLoop`, `Takes`). What runnables do is unconstrained:
they dispatch to any thread whose `Init` returned, and on the main thread create
and shut down threads. A thread ends in the code's four steps (`LeaveLoop`,
`Doom`, `Acknowledge`, `Join`).

`EventTargets` is the promise: each thread takes the events it accepted in order,
takes all of them, and stops accepting at a moment when none is left. `Thread`
implements it with `pending` as the contents of the paged queues and `closed` as
`mEventsAreDoomed`; TLC checks `ImplementsTargets`, fairness included, and
`ThreadProofs` proves it without the fairness.

Left out: observers, priorities, the hang monitor and memory pressure. The
machinery's own events always find a page (the code asks "What if posting the
event fails due to OOM?" and has no answer). Only the main thread creates and
shuts down threads, and not from a runnable that somebody waits for
(`NobodyWaitsForMain`): such a call waits for itself, and nothing in `nsThread`
could end it.

### TimerThread

Three actors. The timer thread goes through `Run`: `Top`, `Again` after a post,
`WaitExpires`; when the first timer is due, `Pops` takes it out with a reference,
and then, outside the monitor, `PostTimerEvent` is `MakeEvent`, `Rearm` (precise
timers), `DispatchEvent` or `DispatchRefused`, and on failure `DropTimer` and
`DropUnlists`. The owner is the main thread and the target of its timers: it
calls `Init` (`BeginInit`, `FinishInit`: two sections under the monitor),
`Cancel`, `SetDelay` (whose first half writes `mTimeout` unlocked, as the code
does) and releases timers (`LetGo`, `Releases`, `RemoveTimer`), between events and
in callbacks; it runs the events (`RunEvent`, `EndFire`), observes sleep and
wake (`DoBeforeSleep`, `WakesUnslept`, `BeginAfterSleep`, `ResetNext`,
`EndAfterSleep`) and shuts the timers down. The clock ticks.

`timer[t]` has the fields of an `nsTimerImpl`, with `mCallback` for whether there
is a callback; a timer without references is `Blank(0)`. An event in `queue` is
the timer, its generation, and what the timer thread saw when it popped it (its
generation then, and `mTimeoutAdjustment`), which is history for `NeverEarly`, as is
`delaySet`: whether `SetDelay` was called since the timer was initialised.
`rewritten` is history for `SleepsInTime`: whether `mTimeout` of a timer was ever
written while that was in `mTimers`, or `mTimeoutAdjustment` changed while any was.
`InsertElementSorted` is a binary search that assumes a
sorted list; `Places` has every place such a search may end at, of which there is
one when the list is sorted.

`Fire` calls `UpdateFilter` before the callback. The average it takes over the last
firings is reduced to its result: each firing leaves `mTimeoutAdjustment` as it is or
gives it any value of the constant `Adjustments`, negative ones included, with which
the timer thread pops timers and computes its waits from then on. That nothing
changes in the first 32 firings is left out. `InitCommon` calls `RemoveTimer` if the
timer is armed only, so a precise timer that is listed twice leaves an entry behind.

Left out: `SetType`, `SetTarget`, the lazy creation of the thread, event loops spun in callbacks, and timers used by a third
thread. The unlocked reads of `DoAfterSleep` are atomic steps, as is `nsTimerImpl::Release` up
to the monitor.

### ThreadPool

The variables named `m...` are the fields of `nsThreadPool`. `mThreads` is a
set: the code only counts it, appends to it and removes from it. Four kinds of
actor take steps.

* A client calls `Dispatch`. `cpc` says where it is. `Dispatch` reads
  `mShutdown` without the monitor, so `PutEvent` is a separate step; the two
  monitor sections of `PutEvent`, the creation of the thread between them and
  what follows are steps too (`PutEvent`, `NewThread`, `AppendThread`,
  `DispatchPool`, or `KillThread` and `KillJoined` for a thread that turned out
  to be one too many).
* A worker runs `nsThreadPool::Run`. The monitor section at the head of its loop
  is split by outcome: `TakeEvent`, `GoIdle`, `StayIdle`, `ExitThread`.
* The owner calls `Shutdown` (`ShutdownBegin`, then for each thread
  `ShutdownNext` and `ShutdownJoined`, then `ShutdownReturn`) and the setters.
* The main thread runs the `nsThread::Shutdown` runnables that leaving workers
  post (`MainShutdownThread`, `MainJoined`).

`wpc` is the life of an `nsThread`: `dead` (not created, or joined), `fresh`
(created, not yet given the pool to run), the places inside `Run`, `left` (Run
returned), `gone` (`ThreadFunc` acknowledged the shutdown). Time is abstract:
the idle timeout may be found expired whenever a worker looks.

`MayFail` allows the allocations of a queue page and of a thread to fail, whose
results the code ignores. `OrderlyShutdown` says whether the owner makes sure
that no `Dispatch` is in progress when it calls `Shutdown`.

### RPCChannel

One copy of every field per side, and per side the worker's C++ stack as the
sequence `frames`: a call at the top of its loop or waiting in it, a sync send
waiting, the handler of a message, a nested event loop, and a frame about to be
left (which is where `CxxStackFrame`'s destructor does its work). `wire[s]` is
what is in flight to side `s`; `tasks[s]` counts the `DequeueTask`s posted to
its event loop.

`Call` is split where the monitor is released: entering it, the top of its loop
(`CallLoop`, which undefers), waking up with a reply kept earlier
(`CallTakesOutOfTurn`) or with a pending message (`CallTakesPending`, which
dispatches it in a frame above), and failing (`CallFails`).
`OnMaybeDequeueOne` is what a posted task runs, in the event loop or in a nested
one. `Incall` decides whether a call raced, asks the listener who wins
(`MediateRPCRace`), and defers the call where the answer is this side. The answer
belongs to a pair of messages, that of the parent and that of the child: the constant
`ParentWins` is the set of races, as pairs of seqnos, for which it is
`RRPParentWins`. A seqno stands for the message and so for its type, which policies
look at: most listeners have the default, by which the child always wins
(RPCChannel.h:80), and the channel to plugins lets the parent win for four types of
its messages only (`dom/plugins/ipc/PluginMessageUtils.cpp:70-86`). What handlers do
is unconstrained within the bounds.

With `MayTimeOut` a call of the parent may find its reply timeout expired
(`ReplyTimesOut`); the listener is asked with the monitor released, while the
reply or a failure may still arrive, and then the wait goes on
(`ContinueFromTimeout`) or the channel is closed under the call and all frames
below it (`GiveUp`). Children have no reply timeout.

Payloads are left out. `BlockChild`, `FlushPendingRPCQueue`, the Windows message
loops and the opening and closing of the channel on request are not modelled.

### TransactionThreadPool

Transactions are numbered in the order of their creation, and `txn[t]` is the
database object, mode and list of store names it was created with (the set of
names, and those that come up more than once). `blockedOn`, `blocking`,
`lastBlockingReads` and `lastBlockingWrites` are the pool's tables, with a
`TransactionInfo` named by its transaction; `inProgress` is
`mTransactionsInProgress`.

The main thread alternates between script and events. Within script,
transactions are created (`Create`, which includes `GetQueueForTransaction`),
requests are made (`OnNewRequest`, if `IsOpen`), transactions are aborted and
databases invalidated. A failed request whose error nobody handles aborts its
own transaction (`OnError`), which no constant turns off; `MayAbort` is about
aborts that come from elsewhere and may hit a blocked transaction. An event is either the result of a request, whose
handlers run with `gCurrentTransaction` set (`ResultArrives` ...
`OnRequestFinished`), or the end of a transaction (`FinishTransaction`, which
stands for all of `FinishTransactionRunnable::Run`). `IDBTransaction::Run` comes
before the next event, as `RunBeforeNextEvent` has it.

A transaction nobody blocks is `queued` in the thread pool and then `running`:
`TransactionQueue::Run` swaps its queue out (`SwapQueue`), runs requests
(`RunRequest`, which opens the connection) and the commit helper (`RunCommit`,
which commits or rolls back and closes it), and posts its end (`EndRun`).
`Dispatch` of the helper and `Finish` are two monitor sections; a swap between
them is a case of `SwapQueue`.

The thread pool runs what it is given, at most `kThreadLimit` at once; this is
what `ThreadPool`'s `EveryEventRuns` says when no call of `Dispatch` races with
`Shutdown`. Left out: `VERSION_CHANGE` transactions, savepoints and statements,
child processes, the pool's `Shutdown`, and `Close` (it only forbids new
transactions). So are event loops spun in a script or a handler (a synchronous
`XMLHttpRequest`, an alert): the main thread is in one event at a time. In a nested
loop `IDBTransaction::Run` waits for its own nesting level
(`nsBaseAppShell.cpp:344-401`), and a result that arrives there saves and restores
`gCurrentTransaction` (`AsyncConnectionHelper.cpp:201-202, 253`); the results here do not cover such
interleavings.

## 3. Runs

Every run is listed in `PROJECT.json`; here is what each one asks.

| Run | Instance | Result |
|---|---|---|
| `pool_safety` | 2 events, 2 clients, 2 workers, 1 listener, limits 2/1 that may drop to 1 or 0 and to 0, failures, shutdown at any time | passes: 488,748 states |
| `pool_live` | 2 events, 2 clients, 3 workers, limit 2 that may drop to 1, no failures, orderly shutdown, fair | passes: 120,310 states |
| `pool_leak` | 1 event, 1 worker, disorderly shutdown | violated |
| `rpc_nested` | 2 calls per side, 2 async of the child, compression, a nested loop in the parent, the winner by type | passes: 568,487 states |
| `rpc_live` | 2 calls of the parent, 1 of the child, 1 sync and 1 async of the child, the winner by type, both links may fail, reply timeouts, fair | passes: 622,127 states |
| `rpc_sync` | 2 calls and 1 async per side, 1 sync of the child, the parent wins | violated |
| `txn_schedule` | 3 transactions over 2 stores by 2 objects of one database, 1 request, 2 threads, aborts | passes: 478,068 states |
| `txn_life` | 2 transactions on 2 databases, 2 requests, 1 thread, aborts, invalidation, a callback, fair | passes: 627,540 states |
| `txn_abort` | 2 transactions, 1 request, aborts, fair | violated |
| `txn_repeat` | 2 transactions whose scopes may repeat a name, fair | violated |
| `thread` | 3 threads, 2 of them created and shut down, 4 runnables, pages of 2 events, failures, fair | passes: 251,776 states |
| `timers` | 2 timers (one-shot; slack or precise), delay 1, adjustment 0 or -1, 2 calls of `Init`, 1 tick, 1 upset (a `SetDelay`, a sleep, or a refused event), shutdown, fair | passes: 752,173 states |

**What the passing runs show.**

* `pool_safety`: the idle count is exact, every thread has one party that will
  shut it down, references to threads agree with what the threads do, no wakeup is
  lost and listener notifications come in pairs, whatever the owner changes.
* `pool_live`: every accepted event runs and every thread is joined, as long as the
  thread limit stays positive. `SetThreadLimit` accepts 0 too: a pool without threads
  then queues events that nobody serves, which `EventServed` states as its exception.
* `rpc_nested`: with nested event loops, the guess of the other side's depth is
  never too high, replies reach the call they belong to, every queued message has
  a task that will take it, and a quiet channel has nothing left over.
  Here and in `rpc_live` the parent wins the races of its second call, the child
  those of the parent's first, as a policy by types may have it.
* `rpc_live`: once all is quiet, both sides have seen a race or neither has; as long
  as the parent won none, nothing is queued behind a sync message; a call that fails
  or times out never leaves its entry on the stack of an open channel; every call
  returns, and every deferred in-call is processed, also when links fail and replies
  time out, unless each side keeps an in-call of the other deferred.
* `txn_schedule`: conflicting transactions run one after the other in the order of
  creation, nobody is blocked without need, no table refers to a finished one.
* `txn_life`: requests are counted exactly and none follows the commit, an aborted
  transaction does not commit, callbacks find their databases idle, and
  transactions and callbacks come to their end.
* `thread`: a joined thread has run all it accepted, nothing is left in a doomed
  queue, the shutdown context outlives its users, every call returns although
  threads wait for one another in cycles, and `EventTargets` is implemented.
* `timers`: reference counts are exact on every path; an armed timer is listed
  once, with somebody else to hold it, and none is armed at the end; the timer
  thread never sleeps past a timer; a one-shot timer fires early by the adjustment
  at most; armed timers fire and shutdown returns.

**Why these bounds.** For the pool, two clients are what it takes for two
`PutEvent`s to overlap and for a new thread to be one too many; two workers for
one to leave while another works; dropping limits for the idle count to be at and
above its limit. Worker identities are reused after a join, so two of them stand
for any number of threads over time; three are needed in `pool_live`, where a
surplus thread exists besides two in the pool. Clients, events and workers are
only compared for equality, which makes the symmetry reduction sound; the run
with temporal properties does not use it. For the channel, two calls per side are
the least for a race below an ordinary nested call, for an out-of-turn reply and
for a deferred call to meet another; seqnos and depths are bounded by the number
of calls, so the width of `size_t` only shows as `% SizeT` in an underflow. For
transactions, three over two stores are the least for a writer behind readers
behind a writer, for a transaction blocked by two others that end in either
order, and for two that do not conflict to run at once; two requests are needed
for one made while another's result is handled. Store names are only compared
for equality. For threads, three are the least for a cycle of synchronous calls
that one of them is shut down in; four runnables (the first is the program) with
the machinery's events fill and free pages of two, so that the offsets pass every
boundary. For timers, two are the least for one to be inserted before another
while the thread sleeps; two calls of `Init` for a timer to be initialised anew
while its event is under way, or to fire early once another's firing has made the
adjustment negative; at most one upset, because each opens a race of its
own and the properties say which of them they survive.

**Deadlock** is checked in the pool's runs, where the setters are always enabled
and prove little; it is off in the other runs, because a channel or a
database whose users do nothing more really stops. That nobody waits for good is what
the liveness properties say.

**Fairness.** `ThreadPool`: the operating system runs every thread that can
move, and `event->Run()` returns; the main thread and the owner, who waits in
`Shutdown`, process their events. Nobody is obliged to dispatch or to shut down.
`RPCChannel`: handlers return and leave nested loops, event loops run their
tasks, the link thread delivers, and when one end's transport has broken the
other end's reports it as well (a closed socket is seen by both ends).
When a reply times out, the listener answers. `Thread`: every thread that can move
is scheduled, and runnables return (their dispatches are bounded, so a thread that
keeps stepping comes to their end). `TimerThread`: the clock ticks, both threads
run, callbacks return, and a machine that sleeps wakes up; nobody is obliged to
initialise, release or shut down. `TransactionThreadPool`: the main thread processes its events and handlers
return, the thread pool starts what it was given, SQLite's work ends. Weak
fairness is enough everywhere. Liveness properties about conditions that stay
true until they are answered are written `[]<>(asked => answered)`, which then says
the same as a leads-to and is checked faster.

### What the violated runs show

* `pool_leak`. `Dispatch` tests `mShutdown` without the monitor. A thread it
  appended to `mThreads` may be taken and joined by `Shutdown` before
  `thread->Dispatch(this)`, whose result is ignored: the event was accepted with
  `NS_OK` and is never run. The queue is then destroyed non-empty, which the
  assertion in `nsEventQueue`'s destructor excludes.
* `rpc_sync`. When the parent has won a race and deferred the child's call,
  `MaybeUndeferIncall` may append that call behind a sync message, and the next
  `Call` aborts on "other side should have been blocked". The sync message comes from
  a handler of the child that runs while its deferred call waits: the parent's call
  has returned, the parent sends an asynchronous message, the waiting call dispatches
  it, and its handler sends. (A handler of one of the parent's own calls will not do:
  it raises the child's stack, and the parent's call would still be open, so nothing
  would be undeferred.) On the channel to plugins the parent wins for `Paint`,
  `NPP_SetWindow`, `NPP_HandleEvent_Shmem` and `NPP_HandleEvent_IOSurface` only; the
  parent's calls of the run are of such types.
* `txn_abort`. `MaybeUnblockTransaction` does not unblock a transaction that was
  aborted while it was blocked. Its commit helper never runs, its abort event
  never fires, and transactions behind it wait for good.
* `txn_repeat`. A readwrite transaction created with a list that names a store
  twice finds itself as the store's last writer and blocks on itself.

Limits of what is claimed. A policy that answers by types can make both sides wait
for good, which `StacksUnwind` and `DeferredRuns` name as their exception
(`BothDeferred`) and the instance of `rpc_live` reaches. Let the parent win the races
of its call P2 (a `Paint`, say), and the child those of P1. The parent calls P1. The
child sends an asynchronous message and calls C1. The parent, waiting in P1,
dispatches the message, whose handler calls P2, and takes C1: it races with P2, the
parent wins, and C1 is deferred with guess 0. The child takes P1: it races with C1,
the child wins, and P1 is deferred with guess 0. P2 is served. Now each side waits in
its first call, of which the remote view is 1, so that neither deferred call is ever
undeferred, until the link breaks or a reply times out. Under either constant policy
one side defers nothing, and the exception is empty.

`RacesSymmetric` says that, when all is quiet, both sides have seen a race or neither
has. The comment it is named after says more, that the other side "must also detect
the same race" (RPCChannel.h:388-390), and this does not hold pair by pair: an
in-call that raced with two nested calls is compared with the inner one only, and the
sides may record different pairs. It is checked and proved without nested
event loops: an in-call taken by a nested loop is compared with stack depth 0, and then
one side may see a race that the other does not. `SenderBlockedUnlessWon` leaves out
what `rpc_sync` shows. `Shutdown` of the pool is not
claimed to have stopped every thread when it returns: a worker that had just
removed itself from `mThreads` is shut down later, from the main thread.
`EveryTransactionFires` and `EveryCallbackRuns` exclude transactions that are
`Stuck`, which is what `txn_abort` shows. For timers, the code has races that the
properties exclude by name: `SetDelay`, also from `DoAfterSleep`, writes
`mTimeout` of a listed timer unlocked, after which the timer thread may sleep too
long (`rewritten`); `UpdateFilter`, which also runs without the monitor and notifies
nobody, has the same effect when it gives a new adjustment while timers are listed,
and so has the adjustment that a wake resets to 0. The proof of `SleepsInTime` found a second place that does so:
`PostTimerEvent` gives a precise timer its next timeout after the monitor was
released, and by then the owner may have initialised the timer again, so that it
is in the list (`nsTimerImpl.cpp:592`); the instance of `timers` is too small to
show it. `DoAfterSleep` may miss timers, and arm one that was
deleted when an event is refused at the same time. `NeverEarly` measures a timer by
the adjustment the timer thread popped it with, since the filter is there to let
timers fire early, and it excludes two cases in which the code fires a one-shot timer
early by any amount: a timer initialised between being popped and the copy of its
generation, and one whose event was posted when `SetDelay` gave it a later time, which
leaves the generation alone (`nsTimerImpl.cpp:344-365`, `:553`). A `REPEATING_PRECISE`
timer may be listed twice; and a timer may be destroyed on the timer thread when its owner
released it and its target then refuses the event.

## 4. Proofs

`ThreadPoolProofs` proves for every set of events, clients, workers (finite) and
listeners and all limits that the pool's safety properties are invariants:

| Theorem | States |
|---|---|
| `Invariance` | the inductive invariant `Inv` holds in every reachable state |
| `TypeCorrect` | `Spec => []TypeOK`: the unsigned idle count never underflows |
| `IdleCountCorrect` | `mIdleCount` is the number of workers with `wasIdle` |
| `ReaperCorrect` | exactly one party will shut a thread down |
| `PlacesCorrect` | references to threads and their progress agree |
| `WakeupCorrect` | no worker sleeps on an event or on shutdown |
| `ServiceCorrect` | a queued event has somebody who will serve it, except in a pool without threads whose owner passes the limit 0 |
| `ListenerCorrect` | listener notifications are paired |

The assumptions are those of `ThreadPool`: the null pointer is no object, the
workers are a finite set (their number is a cardinality), limits are natural
numbers (0 included, below 2^31 in the code, which compares them as `int32_t`) and
the default thread limit, 4 in the code, is positive.

The argument. None of the properties is inductive alone. That the idle count does
not underflow needs the exact count, which needs that a flag is only set inside
the loop (`ThreadPlaces`). That a thread has one reaper needs to know that a
thread is not created twice and that a client's thread is nobody else's, again
`ThreadPlaces`. That a queued event is served needs that a thread in `mThreads`
is in `Run` or about to be given the pool, and that an idle worker waits only on
an empty queue. `Inv` is therefore the conjunction of all of them with the
auxiliary facts in the module, and there is one lemma per action, which says that
this action preserves `Inv`.

`TransactionProofs` proves for any transactions, databases, stores and bounds:

| Theorem | States |
|---|---|
| `LifeInvariant` | `Life` is invariant: what each transaction's state says of its requests and of its queue |
| `NothingIsDispatchedAfterFinish` | `NothingAfterFinish`: requests are counted exactly, none follows the commit |
| `AbortedIsNeverCommitted` | `AbortedNeverCommits` |
| `OrderInvariant` | `Life` and `Order` are invariant together |
| `InfoIsNeverDangling` | `NoDanglingInfo`: tables name transactions in progress only, `blocking` mirrors `blockedOn` |
| `NobodyWaitsInVain` | `BlockedForAReason` |
| `TransactionsAreIsolated` | `Isolation`: conflicting transactions run one after the other, in the order of creation |
| `CallbacksFindDatabasesIdle` | `CallbackFindsIdle`, an action property |

The argument. `Life` ties each transaction's `mReadyState`, `mPendingRequests`,
`mShouldFinish` and outcome to the number of requests and commits in its two
queues and in the main thread's; the lemmas of `CountingProofs` follow these
numbers through `Append`, `Tail` and concatenation. `Order` has four parts. A
transaction is in progress from its creation until its thread is done
(`Progress`). The tables remember for each store the last writer in progress and
the readers since then, and everybody else on the store comes before that writer
(`Remembered`). A transaction waits only for earlier ones that conflict with it, or
for itself (`Waits`). And the part that isolation rests on (`Covered`): while `t` is
in progress, a later transaction that conflicts with it waits for `t` or for one
between the two that conflicts with `t` as well. `GetQueueForTransaction` adds edges
to the last users of a store only, so the graph is not transitive: a writer waits
for the readers before it and not for the writer that those wait for.

`TimerThreadProofs` proves for any timers, types, delays and bounds:

| Theorem | States |
|---|---|
| `CountedInvariant` | `Counted` is invariant: types, who holds a timer at which place, exact counts |
| `ReferencesAreCounted` | `RefCntExact` |
| `ListsInvariant` | `Counted` and `Lists` are invariant together |
| `ListIsSound` | `ListSound`: listed once if and only if armed, and never the list's alone |
| `NothingIsArmedAtTheEnd` | `NoneArmedAtEnd` |
| `TheThreadWakesInTime` | `SleepsInTime` |
| `NoTimerFiresEarly` | `NeverEarly` |

The argument has layers, each used by the next. `Counted`: the reference count is
the sum of all holders, which also says that a deleted timer is in no list and in
nobody's hands. `Lists`: after `Shutdown` the list stays empty (`Shut`); an armed
timer is in a list, and a timer that is never precise is there once, because only
the owner arms it and never while it is listed (`Listed`); places that only an
upset leads to are empty without one (`Upset`); an armed timer has a second
reference, unless the owner has just dropped it (`Second`). `Timely`: the list is
sorted but for overdue timers, which `LessThan` passes over, and so the first timer
that is not overdue is the earliest; inserting keeps this, and inserting in front
notifies. A timer is due when `now` reaches its timeout plus the adjustment, so this
is said with the adjustment subtracted on the other side (`Clock`, `Deadline`), and
holds until the adjustment or a timeout changes under a listed timer (`rewritten`).
`Fresh`: generations are given out in order, so a timer that is initialised again has
one that no event has, and until then, or until its delay is set, the time at which
it was found due, by the adjustment recorded with the generation when it was popped,
stays passed.

The assumptions are that the timers are a finite set, that the null pointer is none
of them, that types are those of `nsITimer`, that adjustments are integers and that
delays and bounds are natural numbers; and for transactions, the ones in `TransactionThreadPool`.

`EventQueueProofs` and `ThreadProofs` prove for any page size, any number of threads
and runnables and any depth of nested loops:

| Theorem | States |
|---|---|
| `EmptyMeansEmpty`, `PutAppends`, `GetTakes` | on well-formed queues `IsEmpty`, `PutEvent` and `GetEvent` are those of the sequence `Contents`, and leave well-formed queues |
| `Invariance` | the inductive invariant `Inv` of `Thread` |
| `TypeCorrect` | `Spec => []TypeOK`: offsets stay within their pages |
| `SafeJoin` | `JoinedIsDone` |
| `NothingInDoomedQueues` | `NothingLeftBehind` |
| `ContextsAreSafe` | `ContextOutlivesUse` |
| `Refinement` | every behaviour of `Thread` is one of `EventTargets`, but for its fairness |

The argument. A queue is well-formed if its offsets are in range and in order and every
slot between them holds an event; the slot of a place in `Contents` is found by division
(`Division`, `SlotOf`), and taking the last event of a page renumbers the others by
one page (`Renumbered`). From there on, a queue is the set of the events in it, and a
stack the set of its firm frames: runnables that run or are answered, and calls of
`Shutdown`. The frames of waits come and go without anybody's noticing (`Same`).
`Inv` has three parts. `Base` says where a thread may be in `ThreadFunc`, given its
stack and its queue. `Work` follows the runnables: what a thread owes is in its queue
or on its stack (`Owing`), and nobody else has it (`Exclusive`); an
`nsThreadSyncDispatch` that travels back to its origin is told apart by its
`mSyncTask` being null (`Replies`, `Live`), without which the origin would seem to
have the work of its target. A thread that ends has an empty queue and an empty stack, so it
owes nothing. `Contexts` follows the shutdown protocol: each shutdown event, each
thread that has the context and each acknowledgement under way has its call of
`Shutdown` on the main thread's stack, and an acknowledgement comes only once
(`Acknowledged`), which is why `Join` leaves none behind. TLC has checked the three parts on the
instance of `thread`. The assumptions are that a page holds at least one event,
that the null pointer is no thread, and that the bounds are natural numbers.

`RPCChannelProofs` proves for every policy of races, with or without compression,
failing links and reply timeouts, and for any bounds on calls, messages, nested
loops and frames:

| Theorem | States |
|---|---|
| `CallsMatchFrames` | `StackMatchesFrames`, with the types |
| `RepliesMatchCalls` | `ReplyMatches` |
| `RepliesAsideBelong` | `OutOfTurnBelongs` |
| `DepthsAreUnderestimated` | `NeverOverestimated` |
| `NoneStranded` | `TasksCoverQueue` |
| `QuietMeansClean` | `QuietIsClean` |
| `IncallsAreSane` | `IncallSane` |
| `SendersAreBlocked` | `SenderBlockedUnlessWon` |

The argument. `Base` is what holds of each side by itself (`Sound`): on a connected
side the Calls on the C++ stack are the messages of `mStack`, and the guess is the
number of in-calls being handled plus those deferred. The lemmas named after
actions show that each keeps `Base`, and that what it does to calls and replies is
of one of six kinds (`Effects`): it begins to handle a call, replies, puts a reply
aside, makes a call, returns from one, or does none of this (`Passive`). Everything
after that is about the six kinds only. `Accounts` says that each call is at most
once on its way, queued, deferred, handled or answered, and that only calls that
are still made are; with `Ordered`, seqnos in the order of `mStack`, it gives
`ReplyMatches`. Depth guesses need to know which calls a number stands for.
`Guessed` says that there are such sets: each call that a side holds counts on as
many of that side's open calls as its guess says, and the other side is handling
each of these, beneath the call, or keeps it deferred (`CountedOn`). The sender
answers none of them before its own call has returned. What it handles stays there,
but what it defers could be undeferred; that it is not is `DeferredStays`: a deferred
call is undeferred only when it counts on all the open calls it meets, and the call
that counts on it is one more. This needs that of two calls which wait to be
handled, one on each side, not both count on the other (`Apart`), which holds
because a new call counts on calls already there. When a step makes a call, the sets
are extended by that call's (`Refits`). A worker that has made no call since it left
its event loop has none that could be counted on, so nothing it holds can look like
a race (`Innocent`), it defers nothing, and it has a task for each of its messages
(`TasksFine`). None of this asks who wins a race, so the theorems hold for policies
that answer by the types of messages.
The inductive invariant `IInv` is the conjunction of all of these. Its assumption is
that the bounds of each side are natural numbers and `MaxFrames` is below `SizeT`
(`BoundsAssumption`): no C++ stack has as many frames as a `size_t` counts, and
depths are compared modulo that.

`SendersAreBlocked` has an invariant of its own, `NoneWon`, beside `IInv`: as long as
the parent has won no race, it defers nothing, and `SyncFine`. Only the
child sends sync messages, and it waits for each reply, so at any time at most one of
these exists: a sync message queued at the parent or on its way there, the parent's
frame that handles it, the reply on its way back, the reply in `mRecvd` (`InTurn`).
While one of them exists the child's innermost frame is the one that waits
(`ChildWaits`), so the child sends nothing, and the message stays the last of what the
parent has queued or is to receive. Only a deferred in-call could still come behind
it. With the default policy (`MediateRPCRace` returns `RRPChildWins`,
RPCChannel.h:80) the parent never defers one, and the code's assertion cannot fail;
once the parent has, `rpc_sync` shows it to fail.

`RPCRaceProofs` proves one more, for the same parameters without nested event loops:

| Theorem | States |
|---|---|
| `RacesAreSymmetric` | `RacesSymmetric`, where `MaxNests` is 0 |

The argument. Without nested loops a side sees a race exactly when the in-call it
takes counts on fewer calls than the side has open (`StepPlays`, `Flat`). That the
other side must see one too is a statement about messages still on their way, so
the invariant `RaceInv` adds to `IInv` what the two sides know of each other
(`RaceFine`), while the link holds. Until a race is seen, no open call is lost: the
other side is handling it, has it before it, or its reply is on the way back
(`Whole`). And each of the receiver's open calls
an in-call counts on, or its sender has yet to handle, or it is answered before the
in-call is taken (`Told`). When a
side then takes an in-call that does not count on one of its open calls, `Told`
leaves one reason: the other side has yet to handle that call. As nothing is deferred
yet, that call counts on in-calls that its sender is handling only, so not on this
one, and it comes before the reply to this one, which nobody has handled. It is going to race as well
(`Due`, by `RaceIsDue`). A side for which a race is due cannot become quiet without
seeing one: every step keeps `Due` (`DueBeside`, `DueHandled`) or records a race, and
`Due` needs an open call, of which a quiet side has none. Two facts carry this:
`mPending` and the links are first in, first out (`Clear`), and a side that has seen
no race has deferred nothing (`NoneDeferred`), so that `MaybeUndeferIncall` reorders
nothing there; on the side that has, nothing more is claimed.

TLC checked `RaceInv` on small instances before it was proved. The
assumption is the property's own: with nested loops it is false, since
an in-call taken by a nested loop is compared with stack depth 0.

**Only model-checked**: the liveness properties and the fairness in
`ImplementsTargets` (fairness and `ENABLED` are out of the prover's reach). Every
invariant that a run checks is stated by a theorem.

## 5. Plan

Done: `ThreadPool` with its proofs, `RPCChannel` with reply timeouts,
`TransactionThreadPool`, `EventQueue` and `Thread` with the refinement,
`TimerThread`; the proofs of the safety properties of all of them. Next: models of
`LazyIdleThread`, `nsPipe3`, mozStorage's asynchronous close, the pool's shutdown and
`VERSION_CHANGE` transactions of IndexedDB, and the opening and closing of an
`AsyncChannel`.
