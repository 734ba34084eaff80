----------------------- MODULE TransactionThreadPool -----------------------
(***************************************************************************)
(* The scheduling of IndexedDB transactions in the main process            *)
(* (dom/indexedDB/TransactionThreadPool.cpp, with the life of a            *)
(* transaction in IDBTransaction.cpp and of a request in                   *)
(* AsyncConnectionHelper.cpp).                                             *)
(*                                                                         *)
(* The main thread creates transactions, dispatches their requests, aborts *)
(* them and handles results.  The pool keeps, for every object store, who  *)
(* blocks later readers and writers, and gives a transaction that nobody   *)
(* blocks a thread of its own.  That thread runs the transaction's queue   *)
(* until the commit helper has run and posts its results to the main       *)
(* thread.                                                                 *)
(*                                                                         *)
(* Transactions are numbered in the order of their creation.  The thread   *)
(* pool is the one of module ThreadPool: it runs what it is given, at most *)
(* kThreadLimit at a time; that it does so in order is not relied on.      *)
(* Closing a database only forbids new transactions, which nobody is       *)
(* obliged to create anyway, so it is left out.  So are VERSION_CHANGE     *)
(* transactions, child processes, the pool's shutdown, and event loops     *)
(* spun by a script or a handler (a synchronous XMLHttpRequest, an alert): *)
(* there the sections of RunBeforeNextEvent wait for the same nesting      *)
(* level (nsBaseAppShell.cpp:344-401), and a result that arrives in one    *)
(* saves and restores gCurrentTransaction (AsyncConnectionHelper.cpp:      *)
(* 201-202, 253).  Here the main thread is in one event at a time.         *)
(***************************************************************************)
EXTENDS Counting

CONSTANTS
    Databases,      \* IDBDatabase objects
    IdOf,           \* their ids: several objects may stand for one database
    Stores,         \* names of object stores
    Callbacks,      \* runnables passed to WaitForAllDatabasesToComplete
    N,              \* bound: the number of transactions created
    MaxRequests,    \* bound: the number of requests made
    kThreadLimit,
    MayAbort,       \* does anybody but their own requests abort transactions
    MayInvalidate,  \* does anybody invalidate databases
    Scopes          \* the scopes and modes transactions are created with

ASSUME BoundsAssumption ==
    N \in Nat /\ MaxRequests \in Nat /\ kThreadLimit \in Nat \ {0}

ASSUME FlagsAssumption == MayAbort \in BOOLEAN /\ MayInvalidate \in BOOLEAN

\* What IDBDatabase::Transaction lets through: a mode and a list of names, which
\* is not empty and names existing stores, those in repeated more than once.
Scope == [db : Databases, mode : {"readonly", "readwrite"},
          names : (SUBSET Stores) \ {{}}, repeated : SUBSET Stores]

ASSUME ScopesAssumption ==
    /\ Scopes \subseteq Scope
    /\ \A scope \in Scopes : scope.repeated \subseteq scope.names

Transactions == 1 .. N
Null == 0
Ids == {IdOf[d] : d \in Databases}

VARIABLES
    \* the main thread
    created,                \* the number of transactions created so far
    txn,                    \* mDatabase, mMode and mObjectStoreNames of each
    mReadyState,
    mCreating,
    mPendingRequests,
    mAbortCode,             \* NS_FAILED(mAbortCode)
    requests,               \* requests made so far
    gCurrentTransaction,
    mInvalidated,
    mainQueue,              \* events posted to the main thread
    firedEvent,             \* the event that ended a transaction
    \* the pool's tables; a TransactionInfo is named by its transaction
    inProgress,
    blockedOn, blocking,
    lastBlockingReads, lastBlockingWrites,
    callback,               \* the databases each callback was registered for
    calledBack,             \* callbacks that were run and removed
    \* each transaction's TransactionQueue and the thread that runs it
    mQueue, mShouldFinish,
    wpc, queue, shouldFinish,
    helperAborted,          \* NS_FAILED of the CommitHelper's mAbortCode
    mConnection,            \* is a database connection open
    outcome                 \* what the CommitHelper did

mainVars == <<created, txn, mReadyState, mCreating, mPendingRequests, mAbortCode,
              requests, gCurrentTransaction, mInvalidated, firedEvent>>
tableVars == <<inProgress, blockedOn, blocking, lastBlockingReads,
               lastBlockingWrites>>
callbackVars == <<callback, calledBack>>
queueVars == <<mQueue, mShouldFinish, helperAborted>>
workerVars == <<queue, shouldFinish, mConnection, outcome>>
vars == <<mainVars, mainQueue, tableVars, callbackVars, queueVars, wpc,
          workerVars>>

\* The scope of a transaction not created yet.
NoScope == [mode |-> "none"]

\* What a TransactionQueue holds: requests' helpers and the CommitHelper.  The
\* runnable every transaction starts with, which does nothing, is left out.
Runnable == {"request", "commit"}

\* A transaction's queue is "blocked" until Unblock, then "queued" in the thread
\* pool, "running", and "over" once FinishTransactionRunnable is posted.
WorkerPC == {"blocked", "queued", "running", "over"}

TypeOK ==
    /\ created \in 0 .. N
    /\ txn \in [Transactions -> Scopes \cup {NoScope}]
    /\ mReadyState \in
          [Transactions -> {"INITIAL", "LOADING", "COMMITTING", "DONE"}]
    /\ mCreating \in [Transactions -> BOOLEAN]
    /\ mPendingRequests \in [Transactions -> Nat]
    /\ mAbortCode \in [Transactions -> BOOLEAN]
    /\ requests \in 0 .. MaxRequests
    /\ gCurrentTransaction \in Transactions \cup {Null}
    /\ mInvalidated \subseteq Databases
    /\ mainQueue \in Seq({"result", "finish"} \X Transactions)
    /\ firedEvent \in [Transactions -> {"none", "complete", "abort"}]
    /\ inProgress \subseteq Transactions
    /\ blockedOn \in [Transactions -> SUBSET Transactions]
    /\ blocking \in [Transactions -> SUBSET Transactions]
    /\ lastBlockingReads \in [Ids -> [Stores -> Transactions \cup {Null}]]
    /\ lastBlockingWrites \in [Ids -> [Stores -> SUBSET Transactions]]
    /\ callback \in [Callbacks -> SUBSET Databases]
    /\ calledBack \subseteq Callbacks
    /\ mQueue \in [Transactions -> Seq(Runnable)]
    /\ mShouldFinish \in [Transactions -> BOOLEAN]
    /\ wpc \in [Transactions -> WorkerPC]
    /\ queue \in [Transactions -> Seq(Runnable)]
    /\ shouldFinish \in [Transactions -> BOOLEAN]
    /\ helperAborted \in [Transactions -> BOOLEAN]
    /\ mConnection \in [Transactions -> BOOLEAN]
    /\ outcome \in [Transactions -> {"none", "committed", "aborted"}]

Init ==
    /\ created = 0
    /\ txn = [t \in Transactions |-> NoScope]
    /\ mReadyState = [t \in Transactions |-> "INITIAL"]
    /\ mCreating = [t \in Transactions |-> FALSE]
    /\ mPendingRequests = [t \in Transactions |-> 0]
    /\ mAbortCode = [t \in Transactions |-> FALSE]
    /\ requests = 0
    /\ gCurrentTransaction = Null
    /\ mInvalidated = {}
    /\ mainQueue = <<>>
    /\ firedEvent = [t \in Transactions |-> "none"]
    /\ inProgress = {}
    /\ blockedOn = [t \in Transactions |-> {}]
    /\ blocking = [t \in Transactions |-> {}]
    /\ lastBlockingReads = [i \in Ids |-> [s \in Stores |-> Null]]
    /\ lastBlockingWrites = [i \in Ids |-> [s \in Stores |-> {}]]
    /\ callback = [c \in Callbacks |-> {}]
    /\ calledBack = {}
    /\ mQueue = [t \in Transactions |-> <<>>]
    /\ mShouldFinish = [t \in Transactions |-> FALSE]
    /\ wpc = [t \in Transactions |-> "blocked"]
    /\ queue = [t \in Transactions |-> <<>>]
    /\ shouldFinish = [t \in Transactions |-> FALSE]
    /\ helperAborted = [t \in Transactions |-> FALSE]
    /\ mConnection = [t \in Transactions |-> FALSE]
    /\ outcome = [t \in Transactions |-> "none"]

Created(t) == t <= created
Writes(scope) == scope.mode = "readwrite"
Id(t) == IdOf[txn[t].db]
InProgressOn(i) == {t \in inProgress : Id(t) = i}

\* No event runs on the main thread before what RunBeforeNextEvent was given, nor
\* while another one runs: nested event loops are left out.
AtEventLoop ==
    gCurrentTransaction = Null /\ \A t \in Transactions : ~mCreating[t]

-----------------------------------------------------------------------------
(***************************************************************************)
(* The creation of a transaction, and its requests.                        *)
(***************************************************************************)

\* Mutant: a writer waits for the last writer only.
BlockersWithoutReaders(t, scope) ==
    UNION {{lastBlockingReads[IdOf[scope.db]][s]} \ {Null} : s \in scope.names}

\* The transactions GetQueueForTransaction finds in its way, name by name; a
\* name that comes up again finds the transaction itself.
Blockers(t, scope) ==
    LET i == IdOf[scope.db]
    IN  UNION {({lastBlockingReads[i][s]} \ {Null})
                 \cup (IF Writes(scope) THEN lastBlockingWrites[i][s] ELSE {})
                 \cup (IF Writes(scope) /\ s \in scope.repeated THEN {t} ELSE {}) :
               s \in scope.names}

\* GetQueueForTransaction, for a transaction it has not seen before.
GetQueueForTransaction(t, scope) ==
    LET i == IdOf[scope.db]
        blockers == Blockers(t, scope)
    IN  /\ inProgress' = inProgress \cup {t}
        /\ blockedOn' = [blockedOn EXCEPT ![t] = blockers]
        /\ blocking' = [u \in Transactions |->
              IF u \in blockers THEN blocking[u] \cup {t} ELSE blocking[u]]
        /\ lastBlockingReads' = [lastBlockingReads EXCEPT ![i] =
              [s \in Stores |-> IF s \in scope.names /\ Writes(scope)
                                THEN t ELSE @[s]]]
        /\ lastBlockingWrites' = [lastBlockingWrites EXCEPT ![i] =
              [s \in Stores |-> IF s \notin scope.names THEN @[s]
                                ELSE IF Writes(scope) THEN {}
                                ELSE @[s] \cup {t}]]
        /\ wpc' = [wpc EXCEPT ![t] = IF blockers = {} THEN "queued" ELSE @]

\* IDBDatabase::Transaction and IDBTransaction::CreateInternal, which dispatches
\* a runnable that does nothing and asks for Run before the next event.
Create(t, scope) ==
    /\ t = created + 1
    /\ scope.db \notin mInvalidated
    /\ created' = t
    /\ txn' = [txn EXCEPT ![t] = scope]
    /\ mCreating' = [mCreating EXCEPT ![t] = TRUE]
    /\ GetQueueForTransaction(t, scope)
    /\ UNCHANGED <<mReadyState, mPendingRequests, mAbortCode, requests,
                   gCurrentTransaction, mInvalidated, firedEvent, mainQueue,
                   callbackVars, queueVars, workerVars>>

IsOpen(t) ==
    \/ mReadyState[t] = "INITIAL"
    \/ mReadyState[t] = "LOADING" /\ (mCreating[t] \/ gCurrentTransaction = t)

OneMoreRequest(t) == mPendingRequests[t] + 1

\* TransactionThreadPool::Dispatch of a runnable that is not the last one; on an
\* invalidated database it fails and nothing changes.
Dispatch(t, runnable) ==
    /\ txn[t].db \notin mInvalidated
    /\ mQueue' = [mQueue EXCEPT ![t] = Append(@, runnable)]

\* AsyncConnectionHelper::DispatchToTransactionPool.
DispatchToTransactionPool(t) == Dispatch(t, "request")

\* A request is made: DispatchToTransactionPool and OnNewRequest.
OnNewRequest(t) ==
    /\ Created(t)
    /\ IsOpen(t)
    /\ requests < MaxRequests
    /\ DispatchToTransactionPool(t)
    /\ mReadyState' = [mReadyState EXCEPT ![t] =
          IF mPendingRequests[t] = 0 THEN "LOADING" ELSE @]
    /\ mPendingRequests' = [mPendingRequests EXCEPT ![t] = OneMoreRequest(t)]
    /\ requests' = requests + 1
    /\ UNCHANGED <<created, txn, mCreating, mAbortCode, gCurrentTransaction,
                   mInvalidated, firedEvent, mainQueue, tableVars, callbackVars,
                   mShouldFinish, helperAborted, wpc, workerVars>>

-----------------------------------------------------------------------------
(***************************************************************************)
(* The end of a transaction, on the main thread.                           *)
(***************************************************************************)

\* TransactionQueue::Finish, of the queues of the transactions in S.
Finish(S) == mShouldFinish' = [t \in Transactions |-> t \in S \/ mShouldFinish[t]]

\* CommitOrRollback of the transactions in S, whose abort codes are aborted: the
\* helper takes the code and is dispatched as the last runnable, which Dispatch
\* accepts even on an invalidated database.
CommitOrRollback(S, aborted) ==
    /\ mQueue' = [t \in Transactions |-> IF t \in S THEN Append(mQueue[t], "commit")
                                         ELSE mQueue[t]]
    /\ Finish(S)
    /\ helperAborted' = [t \in Transactions |-> IF t \in S THEN aborted[t]
                                                ELSE helperAborted[t]]

\* Mutant: the commit does not wait for requests.
CommitsInRunAlways(t) == mReadyState[t] # "DONE"

\* "Maybe set the readyState to DONE if there were no requests generated."
CommitsInRun(t) == mReadyState[t] = "INITIAL"

\* IDBTransaction::Run, back at the event loop after the creation.
Run(t) ==
    /\ mCreating[t]
    /\ gCurrentTransaction = Null
    /\ mCreating' = [mCreating EXCEPT ![t] = FALSE]
    /\ IF CommitsInRun(t)
       THEN /\ mReadyState' = [mReadyState EXCEPT ![t] = "DONE"]
            /\ CommitOrRollback({t}, mAbortCode)
       ELSE UNCHANGED <<mReadyState, queueVars>>
    /\ UNCHANGED <<created, txn, mPendingRequests, mAbortCode, requests,
                   gCurrentTransaction, mInvalidated, firedEvent, mainQueue,
                   tableVars, callbackVars, wpc, workerVars>>

\* AsyncConnectionHelper::Run on the main thread: the result's event handlers
\* run with gCurrentTransaction set ...
ResultArrives ==
    /\ AtEventLoop
    /\ mainQueue # <<>>
    /\ Head(mainQueue)[1] = "result"
    /\ gCurrentTransaction' = Head(mainQueue)[2]
    /\ mainQueue' = Tail(mainQueue)
    /\ UNCHANGED <<created, txn, mReadyState, mCreating, mPendingRequests,
                   mAbortCode, requests, mInvalidated, firedEvent, tableVars,
                   callbackVars, queueVars, wpc, workerVars>>

\* Mutant: the last request but one already commits.
LastRequestEarly(t) == mPendingRequests[t] <= 2

LastRequest(t) == mPendingRequests[t] = 1

\* ... and then OnRequestFinished.
OnRequestFinished(t) ==
    /\ gCurrentTransaction = t
    /\ gCurrentTransaction' = Null
    /\ mPendingRequests' = [mPendingRequests EXCEPT ![t] = @ - 1]
    /\ IF LastRequest(t)
       THEN /\ mReadyState' = [mReadyState EXCEPT ![t] = "COMMITTING"]
            /\ CommitOrRollback({t}, mAbortCode)
       ELSE UNCHANGED <<mReadyState, queueVars>>
    /\ UNCHANGED <<created, txn, mCreating, mAbortCode, requests, mInvalidated,
                   firedEvent, mainQueue, tableVars, callbackVars, wpc,
                   workerVars>>

\* Mutant: a committing transaction can be aborted.
IsFinishedWhenDone(t) == mReadyState[t] = "DONE"

IsFinished(t) == mReadyState[t] \in {"COMMITTING", "DONE"}

\* AbortInternal, for the transactions in S.
AbortInternal(S) ==
    LET aborting == {t \in S : ~IsFinished(t)}
        aborted == [t \in Transactions |-> t \in aborting \/ mAbortCode[t]]
    IN  /\ mAbortCode' = aborted
        /\ mReadyState' = [t \in Transactions |->
              IF t \in aborting THEN "DONE" ELSE mReadyState[t]]
        /\ CommitOrRollback({t \in aborting : mReadyState[t] = "INITIAL"}, aborted)
        /\ UNCHANGED <<created, txn, mCreating, mPendingRequests, requests,
                       gCurrentTransaction, mInvalidated, firedEvent, mainQueue,
                       tableVars, callbackVars, wpc, workerVars>>

\* Abort, called by script.
Abort(t) ==
    /\ MayAbort
    /\ Created(t)
    /\ ~IsFinished(t)
    /\ AbortInternal({t})

\* OnSuccess and OnError abort the transaction of a request whose handler threw,
\* or whose error event nobody handled.
OnError(t) ==
    /\ gCurrentTransaction = t
    /\ IsOpen(t)
    /\ AbortInternal({t})

AbortTransactionsForDatabase(d) ==
    /\ MayAbort
    /\ \E t \in inProgress : txn[t].db = d
    /\ AbortInternal({t \in inProgress : txn[t].db = d})

\* IDBDatabase::Invalidate.
Invalidate(d) ==
    /\ MayInvalidate
    /\ d \notin mInvalidated
    /\ mInvalidated' = mInvalidated \cup {d}
    /\ UNCHANGED <<created, txn, mReadyState, mCreating, mPendingRequests,
                   mAbortCode, requests, gCurrentTransaction, firedEvent,
                   mainQueue, tableVars, callbackVars, queueVars, wpc,
                   workerVars>>

-----------------------------------------------------------------------------
(***************************************************************************)
(* The pool's bookkeeping when a transaction ends, and callbacks.          *)
(***************************************************************************)

\* Mutant: one idle database is enough.
CompleteIfAny(databases, busy) == \E d \in databases : IdOf[d] \notin busy

\* MaybeFireCallback: nothing is in progress on any of the databases.
Complete(databases, busy) == \A d \in databases : IdOf[d] \notin busy

BusyIds(S) == {Id(t) : t \in S}

WaitForAllDatabasesToComplete(c, databases) ==
    /\ callback[c] = {}
    /\ databases # {}
    /\ callback' = [callback EXCEPT ![c] = databases]
    /\ calledBack' = IF Complete(databases, BusyIds(inProgress))
                     THEN calledBack \cup {c} ELSE calledBack
    /\ UNCHANGED <<mainVars, mainQueue, tableVars, queueVars, wpc, workerVars>>

\* Mutant: the finished reader stays registered.
RemovedFromWritesNever(t, s, others) == others

\* lastBlockingWrites without the finished transaction.
RemovedFromWrites(t, s, others) == others \ {t}

\* Mutant: every transaction that was blocked is let run.
UnblockedAll(t) == {u \in blocking[t] : ~mAbortCode[u]}

\* Mutant: the count is taken before the entry is removed.
UnblockedTooEarly(t) == {u \in blocking[t] : blockedOn[u] = {} /\ ~mAbortCode[u]}

\* MaybeUnblockTransaction, of everyone the finished transaction was blocking.
Unblocked(t) ==
    {u \in blocking[t] : blockedOn[u] \ {t} = {} /\ ~mAbortCode[u]}

\* The last transaction of a database takes the database's tables with it, and
\* callbacks may run.
FinishLast(t) ==
    LET left == inProgress \ {t}
        complete == {c \in Callbacks : callback[c] # {}
                                       /\ Complete(callback[c], BusyIds(left))}
    IN  /\ InProgressOn(Id(t)) = {t}
        /\ inProgress' = left
        /\ blockedOn' = [blockedOn EXCEPT ![t] = {}]
        /\ blocking' = [blocking EXCEPT ![t] = {}]
        /\ lastBlockingReads' =
              [lastBlockingReads EXCEPT ![Id(t)] = [s \in Stores |-> Null]]
        /\ lastBlockingWrites' =
              [lastBlockingWrites EXCEPT ![Id(t)] = [s \in Stores |-> {}]]
        /\ calledBack' = calledBack \cup complete
        /\ UNCHANGED <<callback, wpc>>

FinishOther(t) ==
    LET names == txn[t].names
    IN  /\ InProgressOn(Id(t)) # {t}
        /\ inProgress' = inProgress \ {t}
        /\ lastBlockingReads' = [lastBlockingReads EXCEPT ![Id(t)] =
              [s \in Stores |-> IF s \in names /\ Writes(txn[t]) /\ @[s] = t
                                THEN Null ELSE @[s]]]
        /\ lastBlockingWrites' = [lastBlockingWrites EXCEPT ![Id(t)] =
              [s \in Stores |-> IF s \in names
                                THEN RemovedFromWrites(t, s, @[s]) ELSE @[s]]]
        /\ blockedOn' = [u \in Transactions |->
              IF u = t THEN {}
              ELSE IF u \in blocking[t] THEN blockedOn[u] \ {t} ELSE blockedOn[u]]
        /\ blocking' = [blocking EXCEPT ![t] = {}]
        /\ wpc' = [u \in Transactions |->
              IF u \in Unblocked(t) THEN "queued" ELSE wpc[u]]
        /\ UNCHANGED callbackVars

\* The event that CommitHelper::Run fires on the main thread.
LastEvent(t) == IF outcome[t] = "committed" THEN "complete" ELSE "abort"

\* FinishTransactionRunnable::Run: FinishTransaction, then the main-thread half
\* of CommitHelper::Run, which fires the transaction's last event.
FinishTransaction(t) ==
    /\ AtEventLoop
    /\ mainQueue # <<>>
    /\ Head(mainQueue) = <<"finish", t>>
    /\ mainQueue' = Tail(mainQueue)
    /\ FinishLast(t) \/ FinishOther(t)
    /\ mReadyState' = [mReadyState EXCEPT ![t] = "DONE"]
    /\ firedEvent' = [firedEvent EXCEPT ![t] = LastEvent(t)]
    /\ UNCHANGED <<created, txn, mCreating, mPendingRequests, mAbortCode,
                   requests, gCurrentTransaction, mInvalidated, queueVars,
                   workerVars>>

-----------------------------------------------------------------------------
(***************************************************************************)
(* TransactionQueue::Run, on a thread of the pool.                         *)
(***************************************************************************)

StartRun(t) ==
    /\ wpc[t] = "queued"
    /\ Cardinality({u \in Transactions : wpc[u] = "running"}) < kThreadLimit
    /\ wpc' = [wpc EXCEPT ![t] = "running"]
    /\ UNCHANGED <<mainVars, mainQueue, tableVars, callbackVars, queueVars,
                   workerVars>>

\* The monitor section: swap the queue out, read mShouldFinish with it.  Dispatch
\* puts the CommitHelper into the queue and sets mShouldFinish in two sections;
\* a swap between them gets the helper and not the flag.
SwapQueue(t) ==
    /\ wpc[t] = "running"
    /\ queue[t] = <<>>
    /\ ~shouldFinish[t]
    /\ mShouldFinish[t] \/ mQueue[t] # <<>>
    /\ queue' = [queue EXCEPT ![t] = mQueue[t]]
    /\ mQueue' = [mQueue EXCEPT ![t] = <<>>]
    /\ \/ shouldFinish' = [shouldFinish EXCEPT ![t] = mShouldFinish[t]]
       \/ /\ \E i \in DOMAIN mQueue[t] : mQueue[t][i] = "commit"
          /\ UNCHANGED shouldFinish
    /\ UNCHANGED <<mainVars, mainQueue, tableVars, callbackVars, mShouldFinish,
                   helperAborted, wpc, mConnection, outcome>>

\* It opens no connection to an invalidated database, and SQLite may fail.
GetOrCreateConnection(t) ==
    \/ /\ txn[t].db \notin mInvalidated
       /\ mConnection' = [mConnection EXCEPT ![t] = TRUE]
    \/ UNCHANGED mConnection

\* AsyncConnectionHelper::Run on the database thread, which posts the request's
\* result, good or bad, to the main thread.
RunRequest(t) ==
    /\ wpc[t] = "running"
    /\ queue[t] # <<>>
    /\ Head(queue[t]) = "request"
    /\ queue' = [queue EXCEPT ![t] = Tail(@)]
    /\ GetOrCreateConnection(t)
    /\ mainQueue' = Append(mainQueue, <<"result", t>>)
    /\ UNCHANGED <<mainVars, tableVars, callbackVars, queueVars, wpc,
                   shouldFinish, outcome>>

\* Mutant: the helper does not look at the abort code.
MustAbortIfInvalidated(t) == txn[t].db \in mInvalidated

MustAbort(t) == helperAborted[t] \/ txn[t].db \in mInvalidated

\* CommitHelper::Run on the database thread; SQLite's commit may fail.
RunCommit(t) ==
    /\ wpc[t] = "running"
    /\ queue[t] # <<>>
    /\ Head(queue[t]) = "commit"
    /\ queue' = [queue EXCEPT ![t] = Tail(@)]
    /\ \/ ~MustAbort(t) /\ outcome' = [outcome EXCEPT ![t] = "committed"]
       \/ /\ MustAbort(t) \/ mConnection[t]
          /\ outcome' = [outcome EXCEPT ![t] = "aborted"]
    /\ mConnection' = [mConnection EXCEPT ![t] = FALSE]
    /\ UNCHANGED <<mainVars, mainQueue, tableVars, callbackVars, queueVars, wpc,
                   shouldFinish>>

\* The loop ends: FinishTransactionRunnable is posted.
EndRun(t) ==
    /\ wpc[t] = "running"
    /\ queue[t] = <<>>
    /\ shouldFinish[t]
    /\ wpc' = [wpc EXCEPT ![t] = "over"]
    /\ mainQueue' = Append(mainQueue, <<"finish", t>>)
    /\ UNCHANGED <<mainVars, tableVars, callbackVars, queueVars, workerVars>>

-----------------------------------------------------------------------------

\* What scripts and other parts of Gecko ask for on the main thread.
AppStep ==
    \/ \E t \in Transactions, scope \in Scopes : Create(t, scope)
    \/ \E t \in Transactions : OnNewRequest(t) \/ Abort(t) \/ OnError(t)
    \/ \E d \in Databases : AbortTransactionsForDatabase(d) \/ Invalidate(d)
    \/ \E c \in Callbacks, databases \in SUBSET Databases :
          WaitForAllDatabasesToComplete(c, databases)

\* What the main thread's event loop does by itself.
MainStep ==
    \/ ResultArrives
    \/ \E t \in Transactions :
          Run(t) \/ OnRequestFinished(t) \/ FinishTransaction(t)

WorkerStep(t) ==
    \/ SwapQueue(t)
    \/ RunRequest(t)
    \/ RunCommit(t)
    \/ EndRun(t)

PoolStep == \E t \in Transactions : StartRun(t)

Next ==
    \/ AppStep
    \/ MainStep
    \/ PoolStep
    \/ \E t \in Transactions : WorkerStep(t)

Spec == Init /\ [][Next]_vars

\* The main thread processes its events, handlers return, the thread pool starts
\* what it was given and SQLite's work ends.
Fairness ==
    /\ WF_vars(MainStep)
    /\ WF_vars(PoolStep)
    /\ \A t \in Transactions : WF_vars(WorkerStep(t))

FairSpec == Spec /\ Fairness

-----------------------------------------------------------------------------
(***************************************************************************)
(* Safety.                                                                 *)
(***************************************************************************)

\* Two transactions conflict if they share a store that one of them writes.
Conflict(t, u) ==
    /\ Id(t) = Id(u)
    /\ txn[t].names \cap txn[u].names # {}
    /\ Writes(txn[t]) \/ Writes(txn[u])

\* Conflicting transactions run one after the other in the order of their
\* creation, although the pool only remembers the last writer and the readers
\* since then of each store: a transaction gets a thread only when every earlier
\* one that conflicts with it has ended, so the two never have connections at
\* the same time (TransactionThreadPool.cpp:179-330).
Isolation ==
    \A u \in Transactions : \A t \in 1 .. u - 1 :
       Created(u) /\ Conflict(t, u) /\ wpc[u] # "blocked" =>
          t \notin inProgress /\ ~mConnection[t] /\ outcome[t] # "none"

\* Nobody waits without need: a transaction that is still blocked waits for
\* earlier transactions in progress that conflict with it (or for itself, if its
\* scope repeats a name), and unless it was aborted it waits for somebody
\* (TransactionThreadPool.cpp:157-177, 285-327).
BlockedForAReason ==
    \A u \in inProgress : wpc[u] = "blocked" =>
       /\ \A t \in blockedOn[u] :
             \/ t < u /\ Conflict(t, u)
             \/ t = u /\ txn[u].repeated # {}
       /\ blockedOn[u] # {} \/ mAbortCode[u]

\* A TransactionInfo is freed when its transaction finishes: whatever the tables
\* still point to is in progress, and a transaction is in another one's blocking
\* exactly if that one is in its blockedOn, "Huh?"
\* (TransactionThreadPool.cpp:166-169, 236-253).
NoDanglingInfo ==
    /\ \A i \in Ids, s \in Stores :
          ({lastBlockingReads[i][s]} \ {Null}) \cup lastBlockingWrites[i][s]
             \subseteq inProgress
    /\ \A t, u \in Transactions :
          /\ t \in blocking[u] <=> u \in blockedOn[t]
          /\ t \in blocking[u] => {t, u} \subseteq inProgress

\* Requests on their way to or from the thread that runs the transaction.
RequestsIn(t) ==
    Occurrences("request", mQueue[t]) + Occurrences("request", queue[t])
      + Occurrences(<<"result", t>>, mainQueue)
      + (IF gCurrentTransaction = t THEN 1 ELSE 0)

\* CommitHelpers dispatched to the transaction's queue and not run yet.
CommitsIn(t) == Occurrences("commit", mQueue[t]) + Occurrences("commit", queue[t])

\* The CommitHelper takes mConnection away on the main thread without a lock, so
\* it is made only when no request is on its way; the count of requests is exact
\* and nothing is dispatched after Finish: "Dispatch called after Finish!",
\* "Finish called more than once!", "Reusing a transaction!"
\* (TransactionThreadPool.cpp:516, 528; IDBTransaction.cpp:195-217, 253-279).
NothingAfterFinish ==
    /\ TypeOK
    /\ \A t \in Transactions :
          /\ mPendingRequests[t] = RequestsIn(t)
          /\ mShouldFinish[t] => mPendingRequests[t] = 0 /\ ~IsOpen(t)
          /\ CommitsIn(t) <= 1
          /\ mReadyState[t] = "LOADING" => mPendingRequests[t] > 0

\* A transaction that abort() accepted is never committed, and the last event a
\* transaction gets tells what happened to its data
\* (IDBTransaction.cpp:506-571, 815-945).
AbortedNeverCommits ==
    \A t \in Transactions :
       /\ mAbortCode[t] => outcome[t] # "committed" /\ firedEvent[t] # "complete"
       /\ firedEvent[t] = "complete" => outcome[t] = "committed"

\* A callback runs only when no thread is left at work on its databases: every
\* transaction created on them has ended (TransactionThreadPool.cpp:213-226,
\* 355-380, 475-489).
CallbackFindsIdle ==
    [][\A c \in calledBack' \ calledBack :
          \A t \in Transactions :
             Created(t) /\ Id(t) \in {IdOf[d] : d \in callback'[c]}
                => wpc[t] = "over" /\ ~mConnection[t]]_vars

-----------------------------------------------------------------------------
(***************************************************************************)
(* Liveness, under FairSpec.                                               *)
(***************************************************************************)

\* It, or one that blocks it, was aborted while blocked: see AbortFires.
Stuck(t) == \E u \in {t} \cup blockedOn[t] : mAbortCode[u] /\ wpc[u] = "blocked"

\* "Should have fired event!" (IDBTransaction.cpp:183): every transaction ends
\* with a complete or an abort event, but for those an abort leaves stuck.
EveryTransactionFires ==
    \A t \in Transactions : []<>(Created(t) => firedEvent[t] # "none" \/ Stuck(t))

\* "the abort event will be fired when all outstanding requests finish"
\* (IDBTransaction.cpp:564-565), and at once if there are none.
AbortFires == \A t \in Transactions : []<>(mAbortCode[t] => firedEvent[t] = "abort")

\* Every callback runs in the end, if no transaction is left stuck.
EveryCallbackRuns ==
    \A c \in Callbacks :
       []<>(callback[c] # {} => c \in calledBack \/ \E t \in Transactions : Stuck(t))
=============================================================================
