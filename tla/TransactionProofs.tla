------------------------- MODULE TransactionProofs -------------------------
(***************************************************************************)
(* Proofs that the safety properties of TransactionThreadPool hold for any *)
(* databases, stores, scopes and numbers of transactions, requests and     *)
(* threads.                                                                *)
(*                                                                         *)
(* The first invariant, Life, is about one transaction at a time: its      *)
(* requests are counted and its CommitHelper comes once, after them.  The  *)
(* second, Order, is about the pool's tables, which remember only the last *)
(* writer of a store and the readers since: everybody who must wait waits  *)
(* for somebody who comes no earlier than those it must wait for.          *)
(***************************************************************************)
EXTENDS TransactionThreadPool, CountingProofs

\* The state of a transaction, its requests and its CommitHelper: the helper is
\* in one of the queues or has run, exactly if mShouldFinish is set, and the
\* thread that saw the flag has taken the helper out of mQueue.
LifeOf(t) ==
    /\ mPendingRequests[t] = RequestsIn(t)
    /\ mReadyState[t] = "INITIAL" => mPendingRequests[t] = 0
    /\ mReadyState[t] = "LOADING" => mPendingRequests[t] > 0
    /\ mShouldFinish[t] => /\ mPendingRequests[t] = 0
                           /\ mReadyState[t] \in {"COMMITTING", "DONE"}
    /\ CommitsIn(t) = IF mShouldFinish[t] /\ outcome[t] = "none" THEN 1 ELSE 0
    /\ outcome[t] # "none" => mShouldFinish[t] /\ ~mConnection[t]
    /\ shouldFinish[t] => mShouldFinish[t] /\ Occurrences("commit", mQueue[t]) = 0
    /\ wpc[t] = "over" => outcome[t] # "none"
    /\ mAbortCode[t] /\ mShouldFinish[t] => helperAborted[t]
    /\ mAbortCode[t] => outcome[t] # "committed"
    /\ firedEvent[t] = "complete" => outcome[t] = "committed"

Life == TypeOK /\ \A t \in Transactions : LifeOf(t)

\* The transaction is in progress and uses the store.
On(t, i, s) == t \in inProgress /\ Id(t) = i /\ s \in txn[t].names

\* A transaction is in progress from its creation until its thread is done and
\* the main thread has been told so; it waits only while it has no thread.
Progress ==
    /\ inProgress \subseteq 1 .. created
    /\ \A t \in Transactions :
          /\ Created(t) => txn[t] \in Scopes
          /\ Created(t) /\ t \notin inProgress => wpc[t] = "over"
          /\ ~Created(t) => wpc[t] = "blocked"
          /\ blockedOn[t] # {} => wpc[t] = "blocked"
    /\ \A k \in DOMAIN mainQueue : \A t \in Transactions :
          mainQueue[k] = <<"finish", t>> => Created(t) /\ wpc[t] = "over"

\* What the pool remembers of a store: its last writer, and the readers since
\* then.  Everybody else on the store comes before that writer.
Remembered ==
    \A i \in Ids, s \in Stores :
       LET writer == lastBlockingReads[i][s]
           readers == lastBlockingWrites[i][s]
       IN  /\ writer # Null => On(writer, i, s) /\ Writes(txn[writer])
           /\ \A t \in readers : On(t, i, s) /\ ~Writes(txn[t])
           /\ \A t \in Transactions :
                 On(t, i, s) => t \in readers \/ (writer # Null /\ t <= writer)

\* Who waits for whom: only for earlier transactions in the way, or for oneself.
Waits ==
    /\ \A t, u \in Transactions :
          /\ t \in blocking[u] <=> u \in blockedOn[t]
          /\ t \in blocking[u] =>
                /\ {t, u} \subseteq inProgress
                /\ \/ u < t /\ Conflict(u, t)
                   \/ u = t /\ txn[u].repeated # {}
    /\ \A u \in inProgress :
          wpc[u] = "blocked" => blockedOn[u] # {} \/ mAbortCode[u]

\* While t is in progress a later transaction that conflicts with it waits for t
\* or for one in between that conflicts with t, too.
Covered ==
    \A u \in Transactions : \A t \in inProgress :
       t < u /\ Created(u) /\ Conflict(t, u) =>
          /\ u \in inProgress
          /\ \E v \in blockedOn[u] : v = t \/ (t < v /\ v < u /\ Conflict(t, v))

Order == Progress /\ Remembered /\ Waits /\ Covered

-----------------------------------------------------------------------------
(***************************************************************************)
(* The life of a transaction.                                              *)
(***************************************************************************)

\* The disjuncts of the next-state relation, for proofs by cases.
LEMMA NextCases ==
    ASSUME TypeOK, Next
    PROVE  \/ \E t \in Transactions, scope \in Scopes : Create(t, scope)
           \/ \E t \in Transactions :
                 \/ OnNewRequest(t)
                 \/ Run(t)
                 \/ OnRequestFinished(t)
                 \/ FinishTransaction(t)
                 \/ StartRun(t)
                 \/ SwapQueue(t)
                 \/ RunRequest(t)
                 \/ RunCommit(t)
                 \/ EndRun(t)
           \/ ResultArrives
           \/ \E S \in SUBSET Transactions : AbortInternal(S)
           \/ \E d \in Databases : Invalidate(d)
           \/ \E c \in Callbacks, databases \in SUBSET Databases :
                 WaitForAllDatabasesToComplete(c, databases)
<1> SUFFICES ASSUME AppStep
             PROVE  \/ \E t \in Transactions, scope \in Scopes : Create(t, scope)
                    \/ \E t \in Transactions : OnNewRequest(t)
                    \/ \E S \in SUBSET Transactions : AbortInternal(S)
                    \/ \E d \in Databases : Invalidate(d)
                    \/ \E c \in Callbacks, databases \in SUBSET Databases :
                          WaitForAllDatabasesToComplete(c, databases)
  BY Zenon DEF Next, MainStep, PoolStep, WorkerStep
<1>1. ASSUME NEW t \in Transactions, Abort(t) \/ OnError(t)
      PROVE  \E S \in SUBSET Transactions : AbortInternal(S)
  <2>1. AbortInternal({t}) /\ {t} \in SUBSET Transactions
    BY <1>1 DEF Abort, OnError
  <2> QED
    BY <2>1
<1>2. ASSUME NEW d \in Databases, AbortTransactionsForDatabase(d)
      PROVE  \E S \in SUBSET Transactions : AbortInternal(S)
  <2> DEFINE S == {t \in inProgress : txn[t].db = d}
  <2>1. AbortInternal(S)
    BY <1>2, Zenon DEF AbortTransactionsForDatabase
  <2>2. S \in SUBSET Transactions
    BY DEF TypeOK
  <2> QED
    BY <2>1, <2>2, Zenon
<1> QED
  BY <1>1, <1>2, Zenon DEF AppStep

\* The queues are sequences, so what occurs in them is counted by naturals.
LEMMA QueueCounts ==
    ASSUME TypeOK, NEW u \in Transactions, NEW e
    PROVE  /\ mQueue[u] \in Seq(Runnable) /\ Occurrences(e, mQueue[u]) \in Nat
           /\ queue[u] \in Seq(Runnable) /\ Occurrences(e, queue[u]) \in Nat
           /\ mainQueue \in Seq({"result", "finish"} \X Transactions)
           /\ Occurrences(e, mainQueue) \in Nat
BY OccurrencesType DEF TypeOK

\* A transaction's life goes on as before where nothing it is about changes.
LEMMA LifeFrame ==
    ASSUME NEW u \in Transactions, LifeOf(u), RequestsIn(u)' = RequestsIn(u),
           CommitsIn(u)' = CommitsIn(u), mQueue'[u] = mQueue[u],
           mPendingRequests'[u] = mPendingRequests[u],
           mReadyState'[u] = mReadyState[u], mShouldFinish'[u] = mShouldFinish[u],
           outcome'[u] = outcome[u], mConnection'[u] = mConnection[u],
           shouldFinish'[u] = shouldFinish[u],
           wpc'[u] = "over" => wpc[u] = "over",
           mAbortCode'[u] = mAbortCode[u], helperAborted'[u] = helperAborted[u],
           firedEvent'[u] = firedEvent[u]
    PROVE  LifeOf(u)'
BY DEF LifeOf

\* CommitOrRollback appends the CommitHelper and nothing else.
LEMMA CommitCounts ==
    ASSUME TypeOK, NEW S \in SUBSET Transactions,
           NEW aborted \in [Transactions -> BOOLEAN], CommitOrRollback(S, aborted)
    PROVE  /\ mQueue' \in [Transactions -> Seq(Runnable)]
           /\ mShouldFinish' \in [Transactions -> BOOLEAN]
           /\ helperAborted' \in [Transactions -> BOOLEAN]
           /\ \A u \in Transactions :
                 /\ Occurrences("request", mQueue'[u]) =
                       Occurrences("request", mQueue[u])
                 /\ u \in S => /\ Occurrences("commit", mQueue'[u]) =
                                     Occurrences("commit", mQueue[u]) + 1
                               /\ mShouldFinish'[u]
                               /\ helperAborted'[u] = aborted[u]
                 /\ u \notin S => /\ mQueue'[u] = mQueue[u]
                                  /\ mShouldFinish'[u] = mShouldFinish[u]
                                  /\ helperAborted'[u] = helperAborted[u]
<1>1. "commit" \in Runnable
  BY DEF Runnable
<1>2. ASSUME NEW u \in Transactions
      PROVE  /\ Append(mQueue[u], "commit") \in Seq(Runnable)
             /\ Occurrences("request", Append(mQueue[u], "commit")) =
                   Occurrences("request", mQueue[u])
             /\ Occurrences("commit", Append(mQueue[u], "commit")) =
                   Occurrences("commit", mQueue[u]) + 1
  <2>1. mQueue[u] \in Seq(Runnable) /\ Occurrences("request", mQueue[u]) \in Nat
    BY QueueCounts
  <2>2. Append(mQueue[u], "commit") \in Seq(Runnable)
    BY <1>1, <2>1, AppendProperties
  <2>3. /\ Occurrences("request", Append(mQueue[u], "commit")) =
             Occurrences("request", mQueue[u]) + 0
        /\ Occurrences("commit", Append(mQueue[u], "commit")) =
             Occurrences("commit", mQueue[u]) + 1
    BY <1>1, <2>1, OccurrencesAppend
  <2> QED
    BY <2>1, <2>2, <2>3
<1>3. mQueue' \in [Transactions -> Seq(Runnable)]
  BY <1>2 DEF CommitOrRollback, TypeOK
<1> QED
  BY <1>2, <1>3 DEF CommitOrRollback, Finish, TypeOK

\* The CommitHelper is made for a transaction that is not finished and has no
\* requests on their way.
LEMMA CommitLife ==
    ASSUME TypeOK, NEW S \in SUBSET Transactions,
           NEW aborted \in [Transactions -> BOOLEAN], CommitOrRollback(S, aborted),
           mAbortCode' = aborted,
           UNCHANGED <<queue, mainQueue, outcome, mConnection, shouldFinish, wpc,
                       firedEvent>>,
           NEW u \in S, LifeOf(u), ~mShouldFinish[u],
           RequestsIn(u)' = 0 /\ mPendingRequests'[u] = 0,
           mReadyState'[u] \in {"COMMITTING", "DONE"}
    PROVE  LifeOf(u)'
<1>1. /\ Occurrences("commit", mQueue'[u]) = Occurrences("commit", mQueue[u]) + 1
      /\ mShouldFinish'[u]
      /\ helperAborted'[u] = aborted[u]
  BY CommitCounts
<1>2. /\ Occurrences("commit", mQueue[u]) \in Nat
      /\ Occurrences("commit", queue[u]) \in Nat
  BY QueueCounts
<1>3. CommitsIn(u)' = 1
  BY <1>1, <1>2 DEF CommitsIn, LifeOf
<1> QED
  BY <1>1, <1>3 DEF LifeOf

\* A scope names stores of a database, and is not NoScope.
LEMMA ScopeType ==
    ASSUME NEW scope \in Scopes
    PROVE  /\ scope.db \in Databases /\ IdOf[scope.db] \in Ids
           /\ scope.names \subseteq Stores /\ scope.names # {}
           /\ scope.repeated \subseteq scope.names
           /\ scope # NoScope
<1>1. scope \in Scope /\ scope.repeated \subseteq scope.names
  BY ScopesAssumption
<1>2. scope.mode # "none"
  BY <1>1 DEF Scope
<1>3. scope # NoScope
  BY <1>2 DEF NoScope
<1>4. scope.db \in Databases /\ scope.names \in (SUBSET Stores) \ {{}}
  BY <1>1 DEF Scope
<1> QED
  BY <1>1, <1>3, <1>4 DEF Ids

\* Who is found in the way: the last writer of a store, or for a writer one of
\* the readers since then or the transaction itself.
LEMMA BlockersAre ==
    ASSUME NEW t, NEW scope, NEW v
    PROVE  v \in Blockers(t, scope) <=>
              \E s \in scope.names :
                 \/ v = lastBlockingReads[IdOf[scope.db]][s] /\ v # Null
                 \/ Writes(scope) /\ v \in lastBlockingWrites[IdOf[scope.db]][s]
                 \/ Writes(scope) /\ s \in scope.repeated /\ v = t
BY DEF Blockers

\* The effect of GetQueueForTransaction on the tables, entry by entry.
LEMMA TablesAfterCreate ==
    ASSUME TypeOK, NEW t \in Transactions, NEW scope \in Scopes,
           GetQueueForTransaction(t, scope), NEW i \in Ids, NEW s \in Stores
    PROVE  /\ lastBlockingReads'[i][s] =
                 IF i = IdOf[scope.db] /\ s \in scope.names /\ Writes(scope)
                 THEN t ELSE lastBlockingReads[i][s]
           /\ lastBlockingWrites'[i][s] =
                 IF i = IdOf[scope.db] /\ s \in scope.names
                 THEN IF Writes(scope) THEN {}
                      ELSE lastBlockingWrites[i][s] \cup {t}
                 ELSE lastBlockingWrites[i][s]
BY DEF GetQueueForTransaction, TypeOK

\* Creating a transaction does not change the life of any.
LEMMA LifeCreate ==
    ASSUME Life, NEW t \in Transactions, NEW scope \in Scopes, Create(t, scope)
    PROVE  Life'
<1> USE DEF Life
<1>1. TypeOK'
  <2>1. Blockers(t, scope) \subseteq Transactions
    <3> SUFFICES ASSUME NEW v \in Blockers(t, scope)
                 PROVE  v \in Transactions
      OBVIOUS
    <3>1. PICK s \in scope.names :
             \/ v = lastBlockingReads[IdOf[scope.db]][s] /\ v # Null
             \/ v \in lastBlockingWrites[IdOf[scope.db]][s]
             \/ v = t
      BY BlockersAre
    <3>2. s \in Stores /\ IdOf[scope.db] \in Ids
      BY ScopeType
    <3> QED
      BY <3>1, <3>2 DEF TypeOK, Null
  <2>2. GetQueueForTransaction(t, scope)
    BY DEF Create
  <2>3. /\ inProgress' \subseteq Transactions
        /\ blockedOn' \in [Transactions -> SUBSET Transactions]
        /\ blocking' \in [Transactions -> SUBSET Transactions]
        /\ wpc' \in [Transactions -> WorkerPC]
    BY <2>1, <2>2 DEF GetQueueForTransaction, TypeOK, WorkerPC
  <2>4. lastBlockingReads' \in [Ids -> [Stores -> Transactions \cup {Null}]]
    BY <2>2, ScopeType DEF GetQueueForTransaction, TypeOK
  <2>5. lastBlockingWrites' \in [Ids -> [Stores -> SUBSET Transactions]]
    BY <2>2, ScopeType DEF GetQueueForTransaction, TypeOK
  <2>6. created' \in 0 .. N
    BY BoundsAssumption DEF Create, Transactions
  <2>7. /\ txn' \in [Transactions -> Scopes \cup {NoScope}]
        /\ mCreating' \in [Transactions -> BOOLEAN]
    BY DEF Create, TypeOK
  <2> QED
    BY <2>3, <2>4, <2>5, <2>6, <2>7
    DEF Create, TypeOK, callbackVars, queueVars, workerVars
<1>2. SUFFICES ASSUME NEW u \in Transactions
               PROVE  LifeOf(u)'
  BY <1>1
<1>3. wpc'[u] = "over" => wpc[u] = "over"
  BY DEF Create, GetQueueForTransaction, TypeOK
<1> QED
  BY <1>3, LifeFrame
  DEF Create, queueVars, workerVars, RequestsIn, CommitsIn

\* A request is counted and dispatched.
LEMMA LifeOnNewRequest ==
    ASSUME Life, NEW t \in Transactions, OnNewRequest(t)
    PROVE  Life'
<1> USE DEF Life
<1>1. TypeOK'
  BY BoundsAssumption, QueueCounts, AppendProperties
  DEF OnNewRequest, OneMoreRequest, DispatchToTransactionPool, Dispatch, TypeOK,
    tableVars, callbackVars, workerVars, Runnable
<1>2. ~mShouldFinish[t]
  BY DEF OnNewRequest, LifeOf, IsOpen
<1>3. SUFFICES ASSUME NEW u \in Transactions
               PROVE  LifeOf(u)'
  BY <1>1
<1>4. CASE u = t
  <2>1. /\ mQueue' = [mQueue EXCEPT ![t] = Append(mQueue[t], "request")]
        /\ mQueue'[u] = Append(mQueue[u], "request")
    BY <1>4 DEF OnNewRequest, DispatchToTransactionPool, Dispatch, TypeOK
  <2>2. mQueue[u] \in Seq(Runnable) /\ "request" \in Runnable
    BY QueueCounts DEF Runnable
  <2>3. /\ Occurrences("request", mQueue'[u]) = Occurrences("request", mQueue[u]) + 1
        /\ Occurrences("commit", mQueue'[u]) = Occurrences("commit", mQueue[u]) + 0
    BY <2>1, <2>2, OccurrencesAppend
  <2>4. /\ Occurrences("request", mQueue[u]) \in Nat
        /\ Occurrences("commit", mQueue[u]) \in Nat
        /\ Occurrences("request", queue[u]) \in Nat
        /\ Occurrences(<<"result", u>>, mainQueue) \in Nat
    BY QueueCounts
  <2>5. /\ queue' = queue /\ mainQueue' = mainQueue
        /\ gCurrentTransaction' = gCurrentTransaction
    BY DEF OnNewRequest, workerVars
  <2>6. RequestsIn(u)' = RequestsIn(u) + 1 /\ CommitsIn(u)' = CommitsIn(u)
    BY <2>3, <2>4, <2>5 DEF RequestsIn, CommitsIn
  <2> QED
    BY <1>2, <1>4, <2>4, <2>3, <2>6
    DEF OnNewRequest, OneMoreRequest, LifeOf, TypeOK, workerVars
<1>5. CASE u # t
  BY <1>5, LifeFrame
  DEF OnNewRequest, DispatchToTransactionPool, Dispatch, TypeOK, workerVars,
    RequestsIn, CommitsIn
<1> QED
  BY <1>4, <1>5

\* Back at the event loop a transaction without requests commits.
LEMMA LifeRun ==
    ASSUME Life, NEW t \in Transactions, Run(t)
    PROVE  Life'
<1> USE DEF Life
<1>1. mAbortCode \in [Transactions -> BOOLEAN]
  BY DEF TypeOK
<1>2. CASE CommitsInRun(t)
  <2>1. CommitOrRollback({t}, mAbortCode)
    BY <1>2 DEF Run
  <2>2. {t} \in SUBSET Transactions
    OBVIOUS
  <2>3. /\ mQueue' \in [Transactions -> Seq(Runnable)]
        /\ mShouldFinish' \in [Transactions -> BOOLEAN]
        /\ helperAborted' \in [Transactions -> BOOLEAN]
    BY <1>1, <2>1, <2>2, CommitCounts
  <2>4. TypeOK'
    BY <1>2, <2>3 DEF Run, TypeOK, tableVars, callbackVars, workerVars
  <2>5. ASSUME NEW u \in Transactions
        PROVE  LifeOf(u)'
    <3>1. RequestsIn(u)' = RequestsIn(u)
      BY <1>1, <2>1, CommitCounts DEF Run, RequestsIn, workerVars
    <3>2. CASE u = t
      <4>1. ~mShouldFinish[t] /\ mPendingRequests[t] = 0 /\ RequestsIn(t) = 0
        BY <1>2 DEF CommitsInRun, LifeOf
      <4>2. mReadyState'[t] = "DONE" /\ mPendingRequests' = mPendingRequests
        BY <1>2 DEF Run, TypeOK
      <4> QED
        BY <1>1, <2>1, <3>1, <3>2, <4>1, <4>2, CommitLife DEF Run, workerVars
    <3>3. CASE u # t
      <4>1. mQueue'[u] = mQueue[u] /\ mShouldFinish'[u] = mShouldFinish[u]
            /\ helperAborted'[u] = helperAborted[u]
        BY <1>1, <2>1, <2>2, <3>3, CommitCounts
      <4> QED
        BY <1>2, <3>1, <3>3, <4>1, LifeFrame DEF Run, TypeOK, workerVars, CommitsIn
    <3> QED
      BY <3>2, <3>3
  <2> QED
    BY <2>4, <2>5
<1>3. CASE ~CommitsInRun(t)
  <2>1. TypeOK'
    BY <1>3 DEF Run, TypeOK, tableVars, callbackVars, queueVars, workerVars
  <2>2. ASSUME NEW u \in Transactions
        PROVE  LifeOf(u)'
    BY <1>3, LifeFrame DEF Run, queueVars, workerVars, RequestsIn, CommitsIn
  <2> QED
    BY <2>1, <2>2
<1> QED
  BY <1>2, <1>3

\* A result takes the place of its message in the count.
LEMMA LifeResultArrives ==
    ASSUME Life, ResultArrives
    PROVE  Life'
<1> USE DEF Life
<1> DEFINE m == Head(mainQueue)
<1>1. /\ mainQueue \in Seq({"result", "finish"} \X Transactions)
      /\ mainQueue # <<>>
  BY DEF ResultArrives, TypeOK
<1>2. /\ m \in {"result", "finish"} \X Transactions
      /\ Tail(mainQueue) \in Seq({"result", "finish"} \X Transactions)
  BY <1>1, HeadTailProperties
<1>3. m = <<"result", m[2]>> /\ m[2] \in Transactions
  BY <1>2 DEF ResultArrives
<1>4. gCurrentTransaction = Null /\ gCurrentTransaction' = m[2]
      /\ mainQueue' = Tail(mainQueue)
  BY DEF ResultArrives, AtEventLoop
<1>5. TypeOK'
  BY <1>2, <1>3, <1>4
  DEF ResultArrives, TypeOK, tableVars, callbackVars, queueVars, workerVars
<1>6. ASSUME NEW u \in Transactions
      PROVE  LifeOf(u)'
  <2>1. Occurrences(<<"result", u>>, mainQueue) =
          Occurrences(<<"result", u>>, mainQueue') + (IF m = <<"result", u>> THEN 1 ELSE 0)
    BY <1>1, <1>4, OccurrencesTail
  <2>2. m = <<"result", u>> <=> gCurrentTransaction' = u
    BY <1>3, <1>4
  <2>3. gCurrentTransaction # u
    BY <1>4 DEF Transactions, Null
  <2>4. Occurrences(<<"result", u>>, mainQueue') \in Nat
    BY <1>2, <1>4, OccurrencesType
  <2>5. /\ Occurrences("request", mQueue[u]) \in Nat
        /\ Occurrences("request", queue[u]) \in Nat
    BY QueueCounts
  <2>6. mQueue' = mQueue /\ queue' = queue
    BY DEF ResultArrives, queueVars, workerVars
  <2>7. RequestsIn(u)' = RequestsIn(u)
    BY <2>1, <2>2, <2>3, <2>4, <2>5, <2>6 DEF RequestsIn
  <2> QED
    BY <2>6, <2>7, LifeFrame DEF ResultArrives, queueVars, workerVars, CommitsIn
<1> QED
  BY <1>5, <1>6

\* The last request that finishes commits the transaction.
LEMMA LifeOnRequestFinished ==
    ASSUME Life, NEW t \in Transactions, OnRequestFinished(t)
    PROVE  Life'
<1> USE DEF Life
<1>1. mAbortCode \in [Transactions -> BOOLEAN] /\ {t} \in SUBSET Transactions
  BY DEF TypeOK
<1>2. ASSUME NEW u \in Transactions
      PROVE  /\ RequestsIn(u) \in Nat
             /\ Occurrences("request", mQueue[u]) \in Nat
             /\ Occurrences("request", queue[u]) \in Nat
             /\ Occurrences(<<"result", u>>, mainQueue) \in Nat
  <2>1. /\ Occurrences("request", mQueue[u]) \in Nat
        /\ Occurrences("request", queue[u]) \in Nat
        /\ Occurrences(<<"result", u>>, mainQueue) \in Nat
    BY QueueCounts
  <2> QED
    BY <2>1 DEF RequestsIn
<1>3. ASSUME NEW u \in Transactions, u = t
      PROVE  RequestsIn(u) > 0 /\ mPendingRequests[u] = RequestsIn(u)
  BY <1>2, <1>3 DEF OnRequestFinished, RequestsIn, LifeOf
<1>4. /\ mPendingRequests'[t] = mPendingRequests[t] - 1
      /\ mPendingRequests' \in [Transactions -> Nat]
      /\ \A u \in Transactions : u # t => mPendingRequests'[u] = mPendingRequests[u]
  <2>1. mPendingRequests[t] > 0
    BY <1>2, <1>3
  <2> QED
    BY <2>1 DEF OnRequestFinished, TypeOK
<1>5. gCurrentTransaction = t /\ gCurrentTransaction' = Null /\ t # Null
  BY DEF OnRequestFinished, Transactions, Null
<1>6. ASSUME NEW u \in Transactions,
             Occurrences("request", mQueue'[u]) = Occurrences("request", mQueue[u])
      PROVE  RequestsIn(u)' = IF u = t THEN RequestsIn(u) - 1 ELSE RequestsIn(u)
  <2>1. u # Null
    BY DEF Transactions, Null
  <2> QED
    BY <1>2, <1>5, <1>6, <2>1 DEF OnRequestFinished, RequestsIn, workerVars
<1>7. CASE LastRequest(t)
  <2>1. CommitOrRollback({t}, mAbortCode)
    BY <1>7 DEF OnRequestFinished
  <2>2. /\ mQueue' \in [Transactions -> Seq(Runnable)]
        /\ mShouldFinish' \in [Transactions -> BOOLEAN]
        /\ helperAborted' \in [Transactions -> BOOLEAN]
    BY <1>1, <2>1, CommitCounts
  <2>3. TypeOK'
    BY <1>4, <1>7, <2>2
    DEF OnRequestFinished, TypeOK, tableVars, callbackVars, workerVars
  <2>4. ASSUME NEW u \in Transactions
        PROVE  LifeOf(u)'
    <3>1. RequestsIn(u)' = IF u = t THEN RequestsIn(u) - 1 ELSE RequestsIn(u)
      BY <1>1, <1>6, <2>1, CommitCounts
    <3>2. CASE u = t
      <4>1. ~mShouldFinish[t]
        BY <1>3 DEF LifeOf
      <4>2. mReadyState'[t] = "COMMITTING"
        BY <1>7 DEF OnRequestFinished, TypeOK
      <4>3. mPendingRequests'[u] = 0 /\ RequestsIn(u)' = 0
        BY <1>3, <1>4, <1>7, <3>1, <3>2 DEF LastRequest
      <4> QED
        BY <1>1, <2>1, <3>2, <4>1, <4>2, <4>3, CommitLife
        DEF OnRequestFinished, workerVars
    <3>3. CASE u # t
      <4>1. mQueue'[u] = mQueue[u] /\ mShouldFinish'[u] = mShouldFinish[u]
            /\ helperAborted'[u] = helperAborted[u]
        BY <1>1, <2>1, <3>3, CommitCounts
      <4> QED
        BY <1>4, <1>7, <3>1, <3>3, <4>1, LifeFrame
        DEF OnRequestFinished, TypeOK, workerVars, CommitsIn
    <3> QED
      BY <3>2, <3>3
  <2> QED
    BY <2>3, <2>4
<1>8. CASE ~LastRequest(t)
  <2>1. TypeOK'
    BY <1>4, <1>8
    DEF OnRequestFinished, TypeOK, tableVars, callbackVars, queueVars, workerVars
  <2>2. ASSUME NEW u \in Transactions
        PROVE  LifeOf(u)'
    <3>1. RequestsIn(u)' = IF u = t THEN RequestsIn(u) - 1 ELSE RequestsIn(u)
      BY <1>6, <1>8 DEF OnRequestFinished, queueVars
    <3>2. CommitsIn(u)' = CommitsIn(u)
      BY <1>8 DEF OnRequestFinished, queueVars, workerVars, CommitsIn
    <3>3. CASE u = t
      <4>1. RequestsIn(u) \in Nat
        BY <1>2
      <4>2. /\ RequestsIn(u) \in Nat /\ RequestsIn(u) > 1
            /\ mPendingRequests[u] = RequestsIn(u)
            /\ mPendingRequests'[u] = RequestsIn(u) - 1
        BY <1>3, <1>4, <1>8, <3>3, <4>1 DEF LastRequest
      <4>3. LifeOf(u)
        OBVIOUS
      <4> QED
        BY <1>8, <3>1, <3>2, <3>3, <4>2, <4>3
        DEF OnRequestFinished, LifeOf, queueVars, workerVars
    <3>4. CASE u # t
      BY <1>4, <1>8, <3>1, <3>2, <3>4, LifeFrame
      DEF OnRequestFinished, queueVars, workerVars
    <3> QED
      BY <3>3, <3>4
  <2> QED
    BY <2>1, <2>2
<1> QED
  BY <1>7, <1>8

\* An abort is accepted only before the CommitHelper is made, and at once makes
\* one if there are no requests.
LEMMA LifeAbortInternal ==
    ASSUME Life, NEW S \in SUBSET Transactions, AbortInternal(S)
    PROVE  Life'
<1> USE DEF Life
<1> DEFINE aborting == {t \in S : ~IsFinished(t)}
           aborted == [t \in Transactions |-> t \in aborting \/ mAbortCode[t]]
           D == {t \in aborting : mReadyState[t] = "INITIAL"}
<1>1. aborted \in [Transactions -> BOOLEAN] /\ D \in SUBSET Transactions
  BY DEF TypeOK
<1>2. /\ CommitOrRollback(D, aborted)
      /\ mAbortCode' = aborted
      /\ mReadyState' = [t \in Transactions |->
            IF t \in aborting THEN "DONE" ELSE mReadyState[t]]
      /\ UNCHANGED <<created, txn, mCreating, mPendingRequests, requests,
                     gCurrentTransaction, mInvalidated, firedEvent, mainQueue,
                     tableVars, callbackVars, wpc, workerVars>>
  BY Zenon DEF AbortInternal
<1>3. ASSUME NEW u \in Transactions, u \in aborting
      PROVE  ~mShouldFinish[u] /\ mReadyState[u] \in {"INITIAL", "LOADING"}
  BY <1>3 DEF TypeOK, LifeOf, IsFinished
<1> HIDE DEF aborting, aborted, D
<1>4. /\ mQueue' \in [Transactions -> Seq(Runnable)]
      /\ mShouldFinish' \in [Transactions -> BOOLEAN]
      /\ helperAborted' \in [Transactions -> BOOLEAN]
  BY <1>1, <1>2, CommitCounts
<1>5. TypeOK'
  BY <1>1, <1>2, <1>4 DEF TypeOK, tableVars, callbackVars, workerVars
<1>6. ASSUME NEW u \in Transactions
      PROVE  LifeOf(u)'
  <2>1. RequestsIn(u)' = RequestsIn(u)
    BY <1>1, <1>2, CommitCounts DEF RequestsIn, workerVars
  <2>2. CASE u \in D
    <3>1. /\ ~mShouldFinish[u] /\ mPendingRequests[u] = 0
          /\ RequestsIn(u) = 0 /\ mReadyState'[u] = "DONE"
      BY <1>2, <1>3, <2>2 DEF D, LifeOf
    <3> QED
      BY <1>1, <1>2, <2>1, <2>2, <3>1, CommitLife DEF workerVars
  <2>3. CASE u \notin D
    <3>1. mQueue'[u] = mQueue[u] /\ mShouldFinish'[u] = mShouldFinish[u]
          /\ helperAborted'[u] = helperAborted[u]
      BY <1>1, <1>2, <2>3, CommitCounts
    <3>2. CommitsIn(u)' = CommitsIn(u)
      BY <1>2, <3>1 DEF CommitsIn, workerVars
    <3>3. CASE u \in aborting
      <4>1. /\ ~mShouldFinish[u] /\ mReadyState[u] = "LOADING"
            /\ mReadyState'[u] = "DONE"
        BY <1>2, <1>3, <2>3, <3>3 DEF D
      <4> QED
        BY <1>2, <2>1, <3>1, <3>2, <4>1 DEF LifeOf, workerVars
    <3>4. CASE u \notin aborting
      <4>1. mAbortCode'[u] = mAbortCode[u] /\ mReadyState'[u] = mReadyState[u]
        BY <1>2, <3>4 DEF aborted, TypeOK
      <4> QED
        BY <1>2, <2>1, <3>1, <3>2, <4>1, LifeFrame DEF workerVars
    <3> QED
      BY <3>3, <3>4
  <2> QED
    BY <2>2, <2>3
<1> QED
  BY <1>5, <1>6

\* The end of a transaction tells the page what became of its data.
LEMMA LifeFinishTransaction ==
    ASSUME Life, NEW t \in Transactions, FinishTransaction(t)
    PROVE  Life'
<1> USE DEF Life
<1>1. /\ mainQueue \in Seq({"result", "finish"} \X Transactions)
      /\ mainQueue # <<>> /\ Head(mainQueue) = <<"finish", t>>
      /\ mainQueue' = Tail(mainQueue)
  BY DEF FinishTransaction, TypeOK
<1>2. mainQueue' \in Seq({"result", "finish"} \X Transactions)
  BY <1>1, HeadTailProperties
<1>3. /\ inProgress' \subseteq Transactions
      /\ blockedOn' \in [Transactions -> SUBSET Transactions]
      /\ blocking' \in [Transactions -> SUBSET Transactions]
      /\ lastBlockingReads' \in [Ids -> [Stores -> Transactions \cup {Null}]]
      /\ lastBlockingWrites' \in [Ids -> [Stores -> SUBSET Transactions]]
      /\ callback' \in [Callbacks -> SUBSET Databases]
      /\ calledBack' \subseteq Callbacks
      /\ wpc' \in [Transactions -> WorkerPC]
      /\ \A u \in Transactions : wpc'[u] = "over" => wpc[u] = "over"
  <2>1. CASE FinishLast(t)
    BY <2>1 DEF FinishLast, TypeOK
  <2>2. CASE FinishOther(t)
    <3>1. /\ wpc' \in [Transactions -> WorkerPC]
          /\ \A u \in Transactions : wpc'[u] = "over" => wpc[u] = "over"
      BY <2>2 DEF FinishOther, TypeOK, WorkerPC
    <3>2. lastBlockingReads' \in [Ids -> [Stores -> Transactions \cup {Null}]]
      <4>1. lastBlockingReads' = [lastBlockingReads EXCEPT ![Id(t)] =
              [s \in Stores |-> IF s \in txn[t].names /\ Writes(txn[t])
                                   /\ lastBlockingReads[Id(t)][s] = t
                                THEN Null ELSE lastBlockingReads[Id(t)][s]]]
        BY <2>2, Zenon DEF FinishOther
      <4>2. CASE Id(t) \in Ids
        BY <4>1, <4>2 DEF TypeOK
      <4>3. CASE Id(t) \notin Ids
        BY <4>1, <4>3 DEF TypeOK
      <4> QED
        BY <4>2, <4>3
    <3>3. lastBlockingWrites' \in [Ids -> [Stores -> SUBSET Transactions]]
      <4>1. lastBlockingWrites' = [lastBlockingWrites EXCEPT ![Id(t)] =
              [s \in Stores |-> IF s \in txn[t].names
                                THEN lastBlockingWrites[Id(t)][s] \ {t}
                                ELSE lastBlockingWrites[Id(t)][s]]]
        BY <2>2, Zenon DEF FinishOther, RemovedFromWrites
      <4>2. CASE Id(t) \in Ids
        BY <4>1, <4>2 DEF TypeOK
      <4>3. CASE Id(t) \notin Ids
        BY <4>1, <4>3 DEF TypeOK
      <4> QED
        BY <4>2, <4>3
    <3> QED
      BY <2>2, <3>1, <3>2, <3>3 DEF FinishOther, TypeOK, callbackVars
  <2> QED
    BY <2>1, <2>2 DEF FinishTransaction
<1>4. TypeOK'
  BY <1>2, <1>3 DEF FinishTransaction, LastEvent, TypeOK, queueVars, workerVars
<1>5. ASSUME NEW u \in Transactions
      PROVE  LifeOf(u)'
  <2>1. Occurrences(<<"result", u>>, mainQueue) =
           Occurrences(<<"result", u>>, mainQueue') + 0
    BY <1>1, OccurrencesTail
  <2>2. Occurrences(<<"result", u>>, mainQueue') \in Nat
    BY <1>2, OccurrencesType
  <2>3. RequestsIn(u)' = RequestsIn(u) /\ CommitsIn(u)' = CommitsIn(u)
    BY <2>1, <2>2
    DEF FinishTransaction, RequestsIn, CommitsIn, queueVars, workerVars
  <2>4. wpc'[u] = "over" => wpc[u] = "over"
    BY <1>3
  <2>5. firedEvent'[u] = "complete" => outcome[u] = "committed"
    BY DEF FinishTransaction, LastEvent, TypeOK, LifeOf
  <2>6. mReadyState'[u] \in {mReadyState[u], "DONE"}
    BY DEF FinishTransaction, TypeOK
  <2>7. LifeOf(u)
    OBVIOUS
  <2> QED
    BY <2>3, <2>4, <2>5, <2>6, <2>7
    DEF FinishTransaction, LifeOf, queueVars, workerVars
<1> QED
  BY <1>4, <1>5

\* The thread takes over what is queued; it sees mShouldFinish only together
\* with the CommitHelper.
LEMMA LifeSwapQueue ==
    ASSUME Life, NEW t \in Transactions, SwapQueue(t)
    PROVE  Life'
<1> USE DEF Life
<1>1. <<>> \in Seq(Runnable) /\ Occurrences("commit", <<>>) = 0
      /\ Occurrences("request", <<>>) = 0
  BY OccurrencesEmpty
<1>2. /\ queue[t] = <<>>
      /\ queue' = [queue EXCEPT ![t] = mQueue[t]]
      /\ mQueue' = [mQueue EXCEPT ![t] = <<>>]
      /\ shouldFinish'[t] => mShouldFinish[t]
      /\ shouldFinish' \in [Transactions -> BOOLEAN]
      /\ \A u \in Transactions : u # t => shouldFinish'[u] = shouldFinish[u]
  BY DEF SwapQueue, TypeOK
<1>3. TypeOK'
  <2>1. /\ queue' \in [Transactions -> Seq(Runnable)]
        /\ mQueue' \in [Transactions -> Seq(Runnable)]
    BY <1>1, <1>2 DEF TypeOK
  <2> QED
    BY <1>2, <2>1 DEF SwapQueue, TypeOK, mainVars, tableVars, callbackVars
<1>4. ASSUME NEW u \in Transactions
      PROVE  LifeOf(u)'
  <2>1. CASE u = t
    <3>1. mQueue'[u] = <<>> /\ queue'[u] = mQueue[u] /\ queue[u] = <<>>
      BY <1>2, <2>1 DEF TypeOK
    <3>2. /\ Occurrences("commit", mQueue[u]) \in Nat
          /\ Occurrences("request", mQueue[u]) \in Nat
      BY QueueCounts
    <3>3. RequestsIn(u)' = RequestsIn(u)
      BY <1>1, <3>1, <3>2 DEF RequestsIn, SwapQueue, mainVars
    <3>4. CommitsIn(u)' = CommitsIn(u)
      BY <1>1, <3>1, <3>2 DEF CommitsIn
    <3>5. LifeOf(u)
      OBVIOUS
    <3> QED
      BY <1>1, <1>2, <2>1, <3>1, <3>3, <3>4, <3>5 DEF SwapQueue, LifeOf, mainVars
  <2>2. CASE u # t
    <3>1. mQueue'[u] = mQueue[u] /\ queue'[u] = queue[u]
          /\ shouldFinish'[u] = shouldFinish[u]
      BY <1>2, <2>2 DEF TypeOK
    <3> QED
      BY <3>1, LifeFrame DEF SwapQueue, mainVars, RequestsIn, CommitsIn
  <2> QED
    BY <2>1, <2>2
<1> QED
  BY <1>3, <1>4

\* A request that runs leaves the queue for the main thread; it opens a
\* connection only while the CommitHelper is still to come.
LEMMA LifeRunRequest ==
    ASSUME Life, NEW t \in Transactions, RunRequest(t)
    PROVE  Life'
<1> USE DEF Life
<1> DEFINE M == {"result", "finish"} \X Transactions
<1>1. /\ queue[t] \in Seq(Runnable) /\ queue[t] # <<>>
      /\ Head(queue[t]) = "request"
      /\ queue' = [queue EXCEPT ![t] = Tail(queue[t])]
      /\ mainQueue \in Seq(M)
      /\ <<"result", t>> \in M
      /\ mainQueue' = Append(mainQueue, <<"result", t>>)
  BY DEF RunRequest, TypeOK
<1>2. Tail(queue[t]) \in Seq(Runnable) /\ mainQueue' \in Seq(M)
  BY <1>1, HeadTailProperties, AppendProperties
<1>3. /\ mConnection' \in [Transactions -> BOOLEAN]
      /\ \A u \in Transactions : u # t => mConnection'[u] = mConnection[u]
  BY DEF RunRequest, GetOrCreateConnection, TypeOK
<1>4. TypeOK'
  <2>1. queue' \in [Transactions -> Seq(Runnable)]
    BY <1>1, <1>2 DEF TypeOK
  <2> QED
    BY <1>2, <1>3, <2>1
    DEF RunRequest, TypeOK, mainVars, tableVars, callbackVars, queueVars
<1>5. ASSUME NEW u \in Transactions
      PROVE  LifeOf(u)'
  <2>1. Occurrences(<<"result", u>>, mainQueue') =
           Occurrences(<<"result", u>>, mainQueue) + (IF t = u THEN 1 ELSE 0)
    <3>1. PICK x \in M : x = <<"result", t>>
      BY <1>1
    <3>2. PICK e : e = <<"result", u>>
      OBVIOUS
    <3> HIDE DEF M
    <3>3. Occurrences(e, Append(mainQueue, x)) =
             Occurrences(e, mainQueue) + (IF x = e THEN 1 ELSE 0)
      BY <1>1, OccurrencesAppend
    <3>4. mainQueue' = Append(mainQueue, x) /\ (x = e <=> t = u)
      BY <1>1, <3>1, <3>2
    <3> QED
      BY <3>2, <3>3, <3>4
  <2>2. /\ Occurrences("request", queue[t]) = Occurrences("request", Tail(queue[t])) + 1
        /\ Occurrences("commit", queue[t]) = Occurrences("commit", Tail(queue[t])) + 0
    BY <1>1, OccurrencesTail
  <2>3. /\ Occurrences("request", Tail(queue[t])) \in Nat
        /\ Occurrences("commit", Tail(queue[t])) \in Nat
    BY <1>2, OccurrencesType
  <2>4. /\ Occurrences("request", mQueue[u]) \in Nat
        /\ Occurrences(<<"result", u>>, mainQueue) \in Nat
        /\ Occurrences("request", queue[u]) \in Nat
        /\ Occurrences("commit", mQueue[u]) \in Nat
    BY QueueCounts
  <2>5. mQueue' = mQueue /\ gCurrentTransaction' = gCurrentTransaction
    BY DEF RunRequest, queueVars, mainVars
  <2>6. CASE u = t
    <3>1. queue'[u] = Tail(queue[t]) /\ queue[u] = queue[t]
      BY <1>1, <2>6 DEF TypeOK
    <3>2. RequestsIn(u)' = RequestsIn(u) /\ CommitsIn(u)' = CommitsIn(u)
      BY <2>1, <2>2, <2>3, <2>4, <2>5, <2>6, <3>1 DEF RequestsIn, CommitsIn
    <3>3. RequestsIn(u) > 0
      BY <2>2, <2>3, <2>4, <3>1 DEF RequestsIn
    <3>4. ~mShouldFinish[u] /\ LifeOf(u)
      BY <3>3 DEF LifeOf
    <3> QED
      BY <2>5, <3>2, <3>4 DEF RunRequest, LifeOf, mainVars, queueVars
  <2>7. CASE u # t
    <3>1. queue'[u] = queue[u]
      BY <1>1, <2>7 DEF TypeOK
    <3>2. RequestsIn(u)' = RequestsIn(u) /\ CommitsIn(u)' = CommitsIn(u)
      BY <2>1, <2>4, <2>5, <2>7, <3>1 DEF RequestsIn, CommitsIn
    <3> QED
      BY <1>3, <2>7, <3>2, LifeFrame DEF RunRequest, mainVars, queueVars
  <2> QED
    BY <2>6, <2>7
<1> QED
  BY <1>4, <1>5

\* The CommitHelper runs once, and commits nothing that was aborted.
LEMMA LifeRunCommit ==
    ASSUME Life, NEW t \in Transactions, RunCommit(t)
    PROVE  Life'
<1> USE DEF Life
<1>1. /\ queue[t] \in Seq(Runnable) /\ queue[t] # <<>>
      /\ Head(queue[t]) = "commit"
      /\ queue' = [queue EXCEPT ![t] = Tail(queue[t])]
  BY DEF RunCommit, TypeOK
<1>2. Tail(queue[t]) \in Seq(Runnable)
  BY <1>1, HeadTailProperties
<1>3. /\ outcome' \in [Transactions -> {"none", "committed", "aborted"}]
      /\ outcome'[t] # "none"
      /\ outcome'[t] = "committed" => ~helperAborted[t]
      /\ \A u \in Transactions : u # t => outcome'[u] = outcome[u]
      /\ mConnection' = [mConnection EXCEPT ![t] = FALSE]
  BY DEF RunCommit, MustAbort, TypeOK
<1>4. TypeOK'
  <2>1. queue' \in [Transactions -> Seq(Runnable)]
    BY <1>1, <1>2 DEF TypeOK
  <2> QED
    BY <1>3, <2>1
    DEF RunCommit, TypeOK, mainVars, tableVars, callbackVars, queueVars
<1>5. ASSUME NEW u \in Transactions
      PROVE  LifeOf(u)'
  <2>1. /\ Occurrences("request", queue[t]) = Occurrences("request", Tail(queue[t])) + 0
        /\ Occurrences("commit", queue[t]) = Occurrences("commit", Tail(queue[t])) + 1
    BY <1>1, OccurrencesTail
  <2>2. /\ Occurrences("request", Tail(queue[t])) \in Nat
        /\ Occurrences("commit", Tail(queue[t])) \in Nat
    BY <1>2, OccurrencesType
  <2>3. Occurrences("commit", mQueue[u]) \in Nat
    BY QueueCounts
  <2>4. CASE u = t
    <3>1. queue'[u] = Tail(queue[t]) /\ queue[u] = queue[t]
      BY <1>1, <2>4 DEF TypeOK
    <3>2. RequestsIn(u)' = RequestsIn(u)
      BY <2>1, <2>2, <3>1 DEF RunCommit, RequestsIn, mainVars, queueVars
    <3>3. CommitsIn(u) > 0 /\ CommitsIn(u)' = CommitsIn(u) - 1 /\ CommitsIn(u) \in Nat
      BY <2>1, <2>2, <2>3, <3>1 DEF RunCommit, CommitsIn, queueVars
    <3>4. /\ LifeOf(u) /\ mShouldFinish[u] /\ outcome[u] = "none"
          /\ CommitsIn(u)' = 0
      BY <3>3 DEF LifeOf
    <3>5. ~mConnection'[u]
      BY <1>3, <2>4 DEF TypeOK
    <3>6. /\ outcome'[u] # "none"
          /\ outcome'[u] = "committed" => ~helperAborted[u]
      BY <1>3, <2>4
    <3> QED
      BY <3>2, <3>4, <3>5, <3>6 DEF RunCommit, LifeOf, mainVars, queueVars
  <2>5. CASE u # t
    <3>1. queue'[u] = queue[u] /\ mConnection'[u] = mConnection[u]
          /\ outcome'[u] = outcome[u]
      BY <1>1, <1>3, <2>5 DEF TypeOK
    <3> QED
      BY <3>1, LifeFrame
      DEF RunCommit, RequestsIn, CommitsIn, mainVars, queueVars
  <2> QED
    BY <2>4, <2>5
<1> QED
  BY <1>4, <1>5

\* The thread ends only after the CommitHelper, which it has taken out of mQueue
\* and of its own queue.
LEMMA LifeEndRun ==
    ASSUME Life, NEW t \in Transactions, EndRun(t)
    PROVE  Life'
<1> USE DEF Life
<1> DEFINE M == {"result", "finish"} \X Transactions
<1>1. /\ mainQueue \in Seq(M)
      /\ <<"finish", t>> \in M
      /\ mainQueue' = Append(mainQueue, <<"finish", t>>)
  BY DEF EndRun, TypeOK
<1>2. mainQueue' \in Seq(M)
  BY <1>1, AppendProperties
<1>3. TypeOK'
  BY <1>2
  DEF EndRun, TypeOK, WorkerPC, mainVars, tableVars, callbackVars, queueVars,
    workerVars
<1>4. ASSUME NEW u \in Transactions
      PROVE  LifeOf(u)'
  <2>1. Occurrences(<<"result", u>>, mainQueue') =
           Occurrences(<<"result", u>>, mainQueue) + 0
    <3>1. PICK x \in M : x = <<"finish", t>>
      BY <1>1
    <3>2. PICK e : e = <<"result", u>>
      OBVIOUS
    <3> HIDE DEF M
    <3>3. Occurrences(e, Append(mainQueue, x)) =
             Occurrences(e, mainQueue) + (IF x = e THEN 1 ELSE 0)
      BY <1>1, OccurrencesAppend
    <3>4. mainQueue' = Append(mainQueue, x) /\ x # e
      BY <1>1, <3>1, <3>2
    <3> QED
      BY <3>2, <3>3, <3>4
  <2>2. Occurrences(<<"result", u>>, mainQueue) \in Nat
    BY QueueCounts
  <2>3. RequestsIn(u)' = RequestsIn(u) /\ CommitsIn(u)' = CommitsIn(u)
    BY <2>1, <2>2
    DEF EndRun, RequestsIn, CommitsIn, mainVars, queueVars, workerVars
  <2>4. CASE u = t
    <3>1. Occurrences("commit", queue[u]) = 0
      BY <2>4, OccurrencesEmpty DEF EndRun
    <3>2. LifeOf(u) /\ shouldFinish[u]
      BY <2>4 DEF EndRun
    <3>3. outcome[u] # "none"
      BY <3>1, <3>2 DEF LifeOf, CommitsIn
    <3> QED
      BY <2>3, <3>2, <3>3 DEF EndRun, LifeOf, mainVars, queueVars, workerVars
  <2>5. CASE u # t
    BY <2>3, <2>5, LifeFrame DEF EndRun, TypeOK, mainVars, queueVars, workerVars
  <2> QED
    BY <2>4, <2>5
<1> QED
  BY <1>3, <1>4

\* Types, the count of requests and the place of the CommitHelper are preserved
\* by every step.
LEMMA LifeStep == Life /\ [Next]_vars => Life'
<1> SUFFICES ASSUME Life, [Next]_vars
             PROVE  Life'
  OBVIOUS
<1>1. ASSUME NEW t \in Transactions, StartRun(t)
      PROVE  Life'
  <2>1. TypeOK'
    BY <1>1
    DEF Life, StartRun, TypeOK, WorkerPC, mainVars, tableVars, callbackVars,
      queueVars, workerVars
  <2>2. ASSUME NEW u \in Transactions
        PROVE  LifeOf(u)'
    <3>1. wpc'[u] = "over" => wpc[u] = "over"
      BY <1>1 DEF Life, StartRun, TypeOK
    <3> QED
      BY <1>1, <3>1, LifeFrame
      DEF Life, StartRun, RequestsIn, CommitsIn, mainVars, queueVars, workerVars
  <2> QED
    BY <2>1, <2>2 DEF Life
<1>2. ASSUME NEW d \in Databases, Invalidate(d)
      PROVE  Life'
  <2>1. TypeOK'
    BY <1>2
    DEF Life, Invalidate, TypeOK, tableVars, callbackVars, queueVars, workerVars
  <2>2. ASSUME NEW u \in Transactions
        PROVE  LifeOf(u)'
    BY <1>2, LifeFrame
    DEF Life, Invalidate, RequestsIn, CommitsIn, queueVars, workerVars
  <2> QED
    BY <2>1, <2>2 DEF Life
<1>3. ASSUME NEW c \in Callbacks, NEW databases \in SUBSET Databases,
             WaitForAllDatabasesToComplete(c, databases)
      PROVE  Life'
  <2>1. TypeOK'
    BY <1>3
    DEF Life, WaitForAllDatabasesToComplete, TypeOK, mainVars, tableVars,
      queueVars, workerVars
  <2>2. ASSUME NEW u \in Transactions
        PROVE  LifeOf(u)'
    BY <1>3, LifeFrame
    DEF Life, WaitForAllDatabasesToComplete, RequestsIn, CommitsIn, mainVars,
      queueVars, workerVars
  <2> QED
    BY <2>1, <2>2 DEF Life
<1>4. CASE UNCHANGED vars
  <2>1. TypeOK'
    BY <1>4
    DEF Life, vars, TypeOK, mainVars, tableVars, callbackVars, queueVars,
      workerVars
  <2>2. ASSUME NEW u \in Transactions
        PROVE  LifeOf(u)'
    BY <1>4, LifeFrame
    DEF Life, vars, RequestsIn, CommitsIn, mainVars, queueVars, workerVars
  <2> QED
    BY <2>1, <2>2 DEF Life
<1>5. TypeOK
  BY DEF Life
<1> QED
  BY <1>1, <1>2, <1>3, <1>4, <1>5, NextCases, LifeCreate, LifeOnNewRequest,
    LifeRun, LifeResultArrives, LifeOnRequestFinished, LifeAbortInternal,
    LifeFinishTransaction, LifeSwapQueue, LifeRunRequest, LifeRunCommit,
    LifeEndRun, Zenon

\* Nothing is on its way in the beginning.
LEMMA LifeInit == Init => Life
<1> SUFFICES ASSUME Init
             PROVE  Life
  OBVIOUS
<1>1. TypeOK
  BY BoundsAssumption, EmptySeq DEF Init, TypeOK, WorkerPC, Null
<1>2. ASSUME NEW u \in Transactions
      PROVE  LifeOf(u)
  <2>1. /\ Occurrences("request", <<>>) = 0
        /\ Occurrences("commit", <<>>) = 0
        /\ Occurrences(<<"result", u>>, <<>>) = 0
    BY OccurrencesEmpty
  <2>2. mQueue[u] = <<>> /\ queue[u] = <<>> /\ mainQueue = <<>>
        /\ gCurrentTransaction # u
    BY DEF Init, Transactions, Null
  <2>3. RequestsIn(u) = 0 /\ CommitsIn(u) = 0
    BY <2>1, <2>2 DEF RequestsIn, CommitsIn
  <2> QED
    BY <2>3 DEF Init, LifeOf
<1> QED
  BY <1>1, <1>2 DEF Life

\* Life is an invariant.
THEOREM LifeInvariant == Spec => []Life
<1> QED
  BY LifeInit, LifeStep, PTL DEF Spec

\* The count of requests is exact, nothing is dispatched after Finish, and one
\* CommitHelper is made: TypeOK is part of the property.
THEOREM NothingIsDispatchedAfterFinish == Spec => []NothingAfterFinish
<1>1. Life => NothingAfterFinish
  <2> SUFFICES ASSUME Life, NEW t \in Transactions
               PROVE  /\ mPendingRequests[t] = RequestsIn(t)
                      /\ mShouldFinish[t] => mPendingRequests[t] = 0 /\ ~IsOpen(t)
                      /\ CommitsIn(t) <= 1
                      /\ mReadyState[t] = "LOADING" => mPendingRequests[t] > 0
    BY DEF Life, NothingAfterFinish
  <2> QED
    BY DEF Life, LifeOf, IsOpen
<1> QED
  BY <1>1, LifeInvariant, PTL

\* A transaction that abort() accepted is never committed, and its last event
\* says so.
THEOREM AbortedIsNeverCommitted == Spec => []AbortedNeverCommits
<1>1. Life => AbortedNeverCommits
  BY DEF Life, LifeOf, AbortedNeverCommits
<1> QED
  BY <1>1, LifeInvariant, PTL

-----------------------------------------------------------------------------
(***************************************************************************)
(* The order of transactions.                                              *)
(***************************************************************************)

\* Steps that leave the tables alone and let nobody run keep the order.
LEMMA OrderFrame ==
    ASSUME TypeOK, Order, UNCHANGED <<created, txn, inProgress, blockedOn, blocking,
                              lastBlockingReads, lastBlockingWrites>>,
           \A u \in Transactions :
              /\ wpc'[u] = "blocked" <=> wpc[u] = "blocked"
              /\ wpc[u] = "over" => wpc'[u] = "over"
              /\ mAbortCode[u] => mAbortCode'[u],
           \A k \in DOMAIN mainQueue' : \A t \in Transactions :
              mainQueue'[k] = <<"finish", t>> => Created(t) /\ wpc'[t] = "over"
    PROVE  Order'
<1>1. Progress'
  BY DEF Order, Progress, Created
<1>2. Remembered'
  BY DEF Order, Remembered, On, Id
<1>3. Waits'
  <2>1. inProgress \subseteq Transactions
    BY DEF TypeOK
  <2> QED
    BY <2>1 DEF Order, Waits, Conflict, Id
<1>4. Covered'
  BY DEF Order, Covered, Conflict, Id, Created
<1> QED
  BY <1>1, <1>2, <1>3, <1>4 DEF Order

\* A new transaction waits for whoever it must: it conflicts with its blockers,
\* and an earlier transaction in its way that is not among them comes before the
\* last writer, which is.
LEMMA OrderCreate ==
    ASSUME Life, Order, NEW t \in Transactions, NEW scope \in Scopes,
           Create(t, scope)
    PROVE  Order'
<1> DEFINE i0 == IdOf[scope.db]
           blockers == Blockers(t, scope)
<1>1. TypeOK
  BY DEF Life
<1>2. /\ t = created + 1 /\ created' = t /\ created \in Nat
      /\ t \notin inProgress /\ inProgress' = inProgress \cup {t}
      /\ \A u \in inProgress : u \in Transactions /\ u < t
  BY <1>1 DEF Create, GetQueueForTransaction, Order, Progress, TypeOK
<1>3. /\ txn'[t] = scope
      /\ \A u \in Transactions : u # t => txn'[u] = txn[u]
  BY <1>1 DEF Create, TypeOK
<1>4. /\ blockedOn'[t] = blockers
      /\ \A u \in Transactions : u # t => blockedOn'[u] = blockedOn[u]
      /\ \A u \in Transactions : blocking'[u] =
            IF u \in blockers THEN blocking[u] \cup {t} ELSE blocking[u]
      /\ \A u \in Transactions : u # t => wpc'[u] = wpc[u]
      /\ wpc'[t] = IF blockers = {} THEN "queued" ELSE wpc[t]
      /\ mAbortCode' = mAbortCode /\ mainQueue' = mainQueue
  BY <1>1 DEF Create, GetQueueForTransaction, TypeOK
<1>5. scope.names \subseteq Stores /\ i0 \in Ids /\ scope.repeated \subseteq scope.names
  BY ScopeType
<1>6. ASSUME NEW i \in Ids, NEW s \in Stores
      PROVE  /\ lastBlockingReads'[i][s] =
                   IF i = i0 /\ s \in scope.names /\ Writes(scope)
                   THEN t ELSE lastBlockingReads[i][s]
             /\ lastBlockingWrites'[i][s] =
                   IF i = i0 /\ s \in scope.names
                   THEN IF Writes(scope) THEN {}
                        ELSE lastBlockingWrites[i][s] \cup {t}
                   ELSE lastBlockingWrites[i][s]
  <2>1. GetQueueForTransaction(t, scope)
    BY DEF Create
  <2> QED
    BY <1>1, <2>1, TablesAfterCreate
<1>7. Progress'
  <2>1. wpc[t] = "blocked"
    BY <1>2 DEF Order, Progress, Created
  <2>2. \A k \in DOMAIN mainQueue : mainQueue[k] # <<"finish", t>>
    BY <1>2 DEF Order, Progress, Created
  <2>3. inProgress' \subseteq 1 .. created'
    BY <1>2 DEF Order, Progress
  <2>4. ASSUME NEW u \in Transactions
        PROVE  /\ Created(u)' => txn'[u] \in Scopes
               /\ Created(u)' /\ u \notin inProgress' => wpc'[u] = "over"
               /\ ~Created(u)' => wpc'[u] = "blocked"
               /\ blockedOn'[u] # {} => wpc'[u] = "blocked"
    BY <1>2, <1>3, <1>4, <2>1 DEF Order, Progress, Created, Transactions
  <2>5. ASSUME NEW k \in DOMAIN mainQueue', NEW u \in Transactions,
               mainQueue'[k] = <<"finish", u>>
        PROVE  Created(u)' /\ wpc'[u] = "over"
    BY <1>2, <1>4, <2>2, <2>5 DEF Order, Progress, Created, Transactions
  <2> QED
    BY <2>3, <2>4, <2>5 DEF Progress
<1>8. ASSUME NEW u \in Transactions, NEW i \in Ids, NEW s \in Stores
      PROVE  On(u, i, s)' <=> \/ On(u, i, s)
                              \/ u = t /\ i = i0 /\ s \in scope.names
  BY <1>2, <1>3 DEF On, Id
<1>9. Remembered'
  <2>1. Remembered
    BY DEF Order
  <2>2. inProgress' = inProgress \cup {t}
    BY <1>2
  <2>3. ASSUME NEW i \in Ids, NEW s \in Stores, lastBlockingReads'[i][s] # Null
        PROVE  On(lastBlockingReads[i][s], i, s)' /\ Writes(txn'[lastBlockingReads'[i][s]])
    <3>1. CASE i = i0 /\ s \in scope.names /\ Writes(scope)
      BY <1>2, <1>3, <1>6, <3>1 DEF On, Id
    <3>2. CASE ~(i = i0 /\ s \in scope.names /\ Writes(scope))
      <4>1. lastBlockingReads'[i][s] = lastBlockingReads[i][s]
        BY <1>6, <3>2
      <4>2. /\ lastBlockingReads[i][s] \in inProgress
            /\ IdOf[txn[lastBlockingReads[i][s]].db] = i
            /\ s \in txn[lastBlockingReads[i][s]].names
            /\ Writes(txn[lastBlockingReads[i][s]])
        BY <2>1, <2>3, <4>1 DEF Remembered, On, Id
      <4>3. lastBlockingReads[i][s] \in Transactions /\ lastBlockingReads[i][s] # t
        BY <1>2, <4>2
      <4>4. txn'[lastBlockingReads[i][s]] = txn[lastBlockingReads[i][s]]
        BY <1>3, <4>3
      <4> QED
        BY <2>2, <4>1, <4>2, <4>4 DEF On, Id
    <3> QED
      BY <3>1, <3>2
  <2>4. ASSUME NEW i \in Ids, NEW s \in Stores, NEW u \in lastBlockingWrites'[i][s]
        PROVE  On(u, i, s)' /\ ~Writes(txn'[u])
    <3>1. CASE u \in lastBlockingWrites[i][s]
      <4>1. u \in inProgress /\ IdOf[txn[u].db] = i /\ s \in txn[u].names
            /\ ~Writes(txn[u])
        BY <2>1, <3>1 DEF Remembered, On, Id
      <4>2. u \in Transactions /\ u # t
        BY <1>2, <4>1
      <4>3. txn'[u] = txn[u]
        BY <1>3, <4>2
      <4> QED
        BY <2>2, <4>1, <4>3 DEF On, Id
    <3>2. CASE u \notin lastBlockingWrites[i][s]
      <4>1. u = t /\ i = i0 /\ s \in scope.names /\ ~Writes(scope)
        <5>1. lastBlockingWrites'[i][s] =
                 IF i = i0 /\ s \in scope.names
                 THEN IF Writes(scope) THEN {} ELSE lastBlockingWrites[i][s] \cup {t}
                 ELSE lastBlockingWrites[i][s]
          BY <1>6
        <5> HIDE DEF i0
        <5> QED
          BY <2>4, <3>2, <5>1 DEF Writes
      <4> QED
        BY <1>2, <1>3, <4>1 DEF On, Id
    <3> QED
      BY <3>1, <3>2
  <2>5. ASSUME NEW i \in Ids, NEW s \in Stores, NEW u \in Transactions, On(u, i, s)'
        PROVE  \/ u \in lastBlockingWrites'[i][s]
               \/ lastBlockingReads'[i][s] # Null /\ u <= lastBlockingReads'[i][s]
    <3>1. CASE u = t
      <4>1. i = i0 /\ s \in scope.names
        BY <1>3, <2>5, <3>1 DEF On, Id
      <4>2. t # Null /\ t <= t
        BY DEF Transactions, Null
      <4> QED
        BY <1>6, <3>1, <4>1, <4>2
    <3>2. CASE u # t
      <4>1. u \in inProgress /\ Id(u) = i /\ s \in txn[u].names
        BY <1>2, <1>3, <2>5, <3>2 DEF On, Id
      <4>2. \/ u \in lastBlockingWrites[i][s]
            \/ lastBlockingReads[i][s] # Null /\ u <= lastBlockingReads[i][s]
        BY <2>1, <4>1 DEF Remembered, On
      <4>3. u <= t /\ t # Null
        BY <1>2, <4>1 DEF Transactions, Null
      <4> QED
        BY <1>6, <4>2, <4>3
    <3> QED
      BY <3>1, <3>2
  <2> QED
    BY <2>3, <2>4, <2>5 DEF Remembered, On, Id
<1>10. ASSUME NEW v \in blockers
       PROVE  /\ v \in inProgress'
              /\ \/ v < t /\ Conflict(v, t)'
                 \/ v = t /\ txn'[v].repeated # {}
  <2>1. PICK s \in scope.names :
           \/ v = lastBlockingReads[i0][s] /\ v # Null
           \/ Writes(scope) /\ v \in lastBlockingWrites[i0][s]
           \/ Writes(scope) /\ s \in scope.repeated /\ v = t
    BY BlockersAre
  <2>2. CASE v = t /\ s \in scope.repeated
    BY <1>2, <1>3, <2>2
  <2>3. CASE ~(v = t /\ s \in scope.repeated)
    <3>1. /\ v \in inProgress /\ IdOf[txn[v].db] = i0 /\ s \in txn[v].names
          /\ Writes(txn[v]) \/ Writes(scope)
      BY <1>5, <2>1, <2>3 DEF Order, Remembered, On, Id
    <3>2. v \in Transactions /\ v < t /\ v # t
      BY <1>2, <3>1 DEF Transactions
    <3>3. txn'[v] = txn[v]
      BY <1>3, <3>2
    <3> QED
      BY <1>2, <1>3, <3>1, <3>2, <3>3 DEF Conflict, Id
  <2> QED
    BY <2>2, <2>3
<1>11. \A u \in Transactions : t \notin blocking[u] /\ u \notin blocking[t]
                              /\ u \notin blockedOn[t] /\ t \notin blockedOn[u]
  BY <1>2 DEF Order, Waits
<1>12. blockers \subseteq Transactions
  BY <1>2, <1>10 
<1>13. Waits'
  <2>1. ASSUME NEW a \in Transactions, NEW b \in Transactions
        PROVE  a \in blocking'[b] <=> b \in blockedOn'[a]
    <3>1. a \in blocking[b] <=> b \in blockedOn[a]
      BY DEF Order, Waits
    <3> QED
      BY <1>4, <1>11, <3>1
  <2>2. ASSUME NEW a \in Transactions, NEW b \in Transactions, a \in blocking'[b]
        PROVE  /\ {a, b} \subseteq inProgress'
               /\ \/ b < a /\ Conflict(b, a)'
                  \/ b = a /\ txn'[b].repeated # {}
    <3>1. CASE a \in blocking[b]
      <4>1. /\ {a, b} \subseteq inProgress
            /\ \/ b < a /\ Conflict(b, a)
               \/ b = a /\ txn[b].repeated # {}
        BY <3>1 DEF Order, Waits
      <4>2. txn'[a] = txn[a] /\ txn'[b] = txn[b]
        BY <1>2, <1>3, <4>1
      <4> QED
        BY <1>2, <4>1, <4>2 DEF Conflict, Id
    <3>2. CASE a \notin blocking[b]
      <4>1. a = t /\ b \in blockers
        <5>1. blocking'[b] = IF b \in blockers THEN blocking[b] \cup {t} ELSE blocking[b]
          BY <1>4
        <5> HIDE DEF blockers
        <5> QED
          BY <2>2, <3>2, <5>1
      <4> QED
        BY <1>2, <1>10, <4>1 DEF Conflict, Id
    <3> QED
      BY <3>1, <3>2
  <2>3. ASSUME NEW u \in inProgress', wpc'[u] = "blocked"
        PROVE  blockedOn'[u] # {} \/ mAbortCode'[u]
    <3>1. CASE u = t
      BY <1>4, <2>3, <3>1
    <3>2. CASE u # t
      <4>1. u \in inProgress /\ u \in Transactions
        BY <1>2, <3>2
      <4> QED
        BY <1>4, <2>3, <3>2, <4>1 DEF Order, Waits
    <3> QED
      BY <3>1, <3>2
  <2> QED
    BY <2>1, <2>2, <2>3 DEF Waits, Conflict, Id
<1>14. Covered'
  <2> SUFFICES ASSUME NEW u \in Transactions, NEW a \in inProgress',
                      a < u, Created(u)', Conflict(a, u)'
               PROVE  /\ u \in inProgress'
                      /\ \E v \in blockedOn'[u] :
                            v = a \/ (a < v /\ v < u /\ Conflict(a, v)')
    BY DEF Covered, Conflict, Id, Created
  <2>1. CASE u # t
    <3>1. u \in Nat /\ Created(u) /\ a # t /\ a \in inProgress /\ a \in Transactions
      BY <1>2, <2>1 DEF Created, Transactions
    <3>2. txn'[u] = txn[u] /\ txn'[a] = txn[a]
      BY <1>3, <2>1, <3>1
    <3>3. Conflict(a, u)
      BY <3>2 DEF Conflict, Id
    <3>4. /\ u \in inProgress
          /\ \E v \in blockedOn[u] : v = a \/ (a < v /\ v < u /\ Conflict(a, v))
      BY <3>1, <3>3 DEF Order, Covered
    <3>5. PICK v \in blockedOn[u] : v = a \/ (a < v /\ v < u /\ Conflict(a, v))
      BY <3>4
    <3>6. v \in Transactions /\ v # t
      BY <1>1, <1>2, <1>11, <3>5 DEF TypeOK
    <3>7. txn'[v] = txn[v]
      BY <1>3, <3>6
    <3>8. v = a \/ (a < v /\ v < u /\ Conflict(a, v)')
      BY <3>2, <3>5, <3>7 DEF Conflict, Id
    <3>9. v \in blockedOn'[u]
      BY <1>4, <2>1, <3>5
    <3> QED
      BY <1>2, <3>4, <3>8, <3>9
  <2>2. CASE u = t
    <3>1. a \in inProgress /\ a \in Transactions /\ a < t /\ a # t
      BY <1>2, <2>2 DEF Transactions
    <3>2. txn'[a] = txn[a] /\ txn'[u] = scope
      BY <1>3, <2>2, <3>1
    <3>3. PICK s \in scope.names : s \in txn[a].names
      BY <3>2 DEF Conflict
    <3>4. IdOf[txn[a].db] = i0 /\ (Writes(txn[a]) \/ Writes(scope))
      BY <3>2 DEF Conflict, Id
    <3>5. s \in Stores
      BY <1>5
    <3>6. On(a, i0, s)
      BY <3>1, <3>3, <3>4 DEF On, Id
    <3>7. \/ a \in lastBlockingWrites[i0][s] /\ ~Writes(txn[a])
          \/ lastBlockingReads[i0][s] # Null /\ a <= lastBlockingReads[i0][s]
      BY <1>5, <3>1, <3>5, <3>6 DEF Order, Remembered
    <3>8. CASE a \in lastBlockingWrites[i0][s] /\ ~Writes(txn[a])
      <4>1. a \in blockers
        BY <3>4, <3>8, BlockersAre
      <4> QED
        BY <1>2, <1>4, <2>2, <4>1
    <3>9. CASE lastBlockingReads[i0][s] # Null /\ a <= lastBlockingReads[i0][s]
      <4>1. PICK w \in blockers : w = lastBlockingReads[i0][s]
        BY <3>9, BlockersAre
      <4>2. /\ w \in inProgress /\ IdOf[txn[w].db] = i0
            /\ s \in txn[w].names /\ Writes(txn[w])
        BY <1>5, <3>5, <3>9, <4>1 DEF Order, Remembered, On, Id
      <4>3. w \in Transactions /\ w < t /\ w # t
        BY <1>2, <4>2 DEF Transactions
      <4>4. txn'[w] = txn[w]
        BY <1>3, <4>3
      <4>5. w \in blockedOn'[u]
        BY <1>4, <2>2, <4>1
      <4>6. Conflict(a, w)'
        BY <3>2, <3>3, <3>4, <4>2, <4>4 DEF Conflict, Id
      <4>7. w = a \/ (a < w /\ w < u)
        BY <2>2, <3>1, <3>9, <4>1, <4>3 DEF Transactions
      <4> QED
        BY <1>2, <2>2, <4>5, <4>6, <4>7
    <3> QED
      BY <3>7, <3>8, <3>9
  <2> QED
    BY <2>1, <2>2
<1> QED
  BY <1>7, <1>9, <1>13, <1>14 DEF Order

\* The transaction that finishes is over, so that it waits for nobody and no
\* earlier one in its way is left.
LEMMA FinishedIsFirst ==
    ASSUME Life, Order, NEW t \in Transactions, FinishTransaction(t)
    PROVE  /\ Created(t) /\ wpc[t] = "over" /\ blockedOn[t] = {}
           /\ \A a \in inProgress : ~(a < t /\ Conflict(a, t))
<1>1. /\ mainQueue \in Seq({"result", "finish"} \X Transactions)
      /\ mainQueue # <<>> /\ Head(mainQueue) = <<"finish", t>>
  BY DEF FinishTransaction, Life, TypeOK
<1>2. 1 \in DOMAIN mainQueue /\ mainQueue[1] = <<"finish", t>>
  BY <1>1, HeadTailProperties, LenProperties, EmptySeq
<1>3. Created(t) /\ wpc[t] = "over"
  BY <1>2 DEF Order, Progress
<1>4. blockedOn[t] = {}
  BY <1>3 DEF Order, Progress
<1> QED
  BY <1>3, <1>4 DEF Order, Covered

\* Whether it is the last one of its database or not, the finished transaction
\* leaves every table, and those that wait for nobody else are let run.
LEMMA TablesAfterFinish ==
    ASSUME Life, Order, NEW t \in Transactions, FinishTransaction(t)
    PROVE  /\ inProgress' = inProgress \ {t}
           /\ \A u \in Transactions :
                 /\ blockedOn'[u] = blockedOn[u] \ {t}
                 /\ blocking'[u] = IF u = t THEN {} ELSE blocking[u]
                 /\ wpc'[u] = IF u \in Unblocked(t) THEN "queued" ELSE wpc[u]
           /\ \A i \in Ids, s \in Stores :
                 /\ lastBlockingReads'[i][s] =
                       IF lastBlockingReads[i][s] = t THEN Null
                       ELSE lastBlockingReads[i][s]
                 /\ lastBlockingWrites'[i][s] = lastBlockingWrites[i][s] \ {t}
<1>1. TypeOK
  BY DEF Life
<1>2. blockedOn[t] = {} /\ Created(t)
  BY FinishedIsFirst
<1>3. Id(t) \in Ids
  BY <1>2, ScopeType DEF Order, Progress, Id
<1>4. ASSUME NEW i \in Ids, NEW s \in Stores, lastBlockingReads[i][s] # Null
      PROVE  /\ lastBlockingReads[i][s] \in inProgress
             /\ IdOf[txn[lastBlockingReads[i][s]].db] = i
             /\ s \in txn[lastBlockingReads[i][s]].names
             /\ Writes(txn[lastBlockingReads[i][s]])
  BY <1>4 DEF Order, Remembered, On, Id
<1>5. ASSUME NEW i \in Ids, NEW s \in Stores, NEW u \in lastBlockingWrites[i][s]
      PROVE  u \in inProgress /\ IdOf[txn[u].db] = i /\ s \in txn[u].names
  BY <1>5 DEF Order, Remembered, On, Id
<1>6. CASE FinishLast(t)
  <2>1. ASSUME NEW u \in inProgress
        PROVE  u = t \/ IdOf[txn[u].db] # Id(t)
    BY <1>6 DEF FinishLast, InProgressOn, Id
  <2>2. blocking[t] = {}
    <3>1. ASSUME NEW a \in blocking[t]
          PROVE  FALSE
      <4>1. a \in Transactions
        BY <1>1, <3>1 DEF TypeOK
      <4>2. a \in inProgress /\ t \in blockedOn[a] /\ (Conflict(t, a) \/ a = t)
        BY <3>1, <4>1 DEF Order, Waits
      <4>3. a # t
        BY <1>2, <4>2
      <4> QED
        BY <2>1, <4>2, <4>3 DEF Conflict, Id
    <3> QED
      BY <3>1
  <2>3. \A u \in Transactions : t \notin blockedOn[u]
    BY <2>2 DEF Order, Waits
  <2>4. /\ inProgress' = inProgress \ {t}
        /\ \A u \in Transactions :
              /\ blockedOn'[u] = blockedOn[u] \ {t}
              /\ blocking'[u] = IF u = t THEN {} ELSE blocking[u]
              /\ wpc'[u] = wpc[u]
    BY <1>1, <1>2, <1>6, <2>2, <2>3 DEF FinishLast, TypeOK
  <2>5. Unblocked(t) = {}
    BY <2>2 DEF Unblocked
  <2>6. ASSUME NEW i \in Ids, NEW s \in Stores
        PROVE  /\ lastBlockingReads'[i][s] =
                    IF i = Id(t) THEN Null ELSE lastBlockingReads[i][s]
               /\ lastBlockingWrites'[i][s] =
                    IF i = Id(t) THEN {} ELSE lastBlockingWrites[i][s]
    BY <1>1, <1>6 DEF FinishLast, TypeOK
  <2>7. ASSUME NEW i \in Ids, NEW s \in Stores
        PROVE  lastBlockingReads'[i][s] =
                    IF lastBlockingReads[i][s] = t THEN Null
                    ELSE lastBlockingReads[i][s]
    <3>1. t # Null
      BY DEF Transactions, Null
    <3>2. lastBlockingReads[i][s] = t => i = Id(t)
      BY <1>4, <3>1 DEF Id
    <3>3. i = Id(t) => lastBlockingReads[i][s] \in {t, Null}
      BY <1>4, <2>1
    <3> QED
      BY <2>6, <3>2, <3>3
  <2>8. ASSUME NEW i \in Ids, NEW s \in Stores
        PROVE  lastBlockingWrites'[i][s] = lastBlockingWrites[i][s] \ {t}
    <3>1. t \in lastBlockingWrites[i][s] => i = Id(t)
      BY <1>5 DEF Id
    <3>2. i = Id(t) => lastBlockingWrites[i][s] \subseteq {t}
      BY <1>5, <2>1
    <3> QED
      BY <2>6, <3>1, <3>2
  <2> QED
    BY <2>4, <2>5, <2>7, <2>8
<1>7. CASE FinishOther(t)
  <2>1. /\ inProgress' = inProgress \ {t}
        /\ blocking' = [blocking EXCEPT ![t] = {}]
        /\ wpc' = [u \in Transactions |->
              IF u \in Unblocked(t) THEN "queued" ELSE wpc[u]]
        /\ blockedOn' = [u \in Transactions |->
              IF u = t THEN {}
              ELSE IF u \in blocking[t] THEN blockedOn[u] \ {t} ELSE blockedOn[u]]
    BY <1>7, Zenon DEF FinishOther
  <2>2. ASSUME NEW u \in Transactions
        PROVE  blockedOn'[u] = blockedOn[u] \ {t}
    <3>1. u \in blocking[t] <=> t \in blockedOn[u]
      BY DEF Order, Waits
    <3> QED
      BY <1>2, <2>1, <3>1
  <2>3. lastBlockingReads' = [lastBlockingReads EXCEPT ![Id(t)] =
              [s \in Stores |-> IF s \in txn[t].names /\ Writes(txn[t])
                                   /\ lastBlockingReads[Id(t)][s] = t
                                THEN Null ELSE lastBlockingReads[Id(t)][s]]]
    BY <1>7, Zenon DEF FinishOther
  <2>4. lastBlockingWrites' = [lastBlockingWrites EXCEPT ![Id(t)] =
              [s \in Stores |-> IF s \in txn[t].names
                                THEN lastBlockingWrites[Id(t)][s] \ {t}
                                ELSE lastBlockingWrites[Id(t)][s]]]
    BY <1>7, Zenon DEF FinishOther, RemovedFromWrites
  <2>5. ASSUME NEW i \in Ids, NEW s \in Stores
        PROVE  lastBlockingReads'[i][s] =
                    IF lastBlockingReads[i][s] = t THEN Null
                    ELSE lastBlockingReads[i][s]
    <3>1. t # Null
      BY DEF Transactions, Null
    <3>2. lastBlockingReads[i][s] = t =>
             i = Id(t) /\ s \in txn[t].names /\ Writes(txn[t])
      BY <1>4, <3>1 DEF Id
    <3> QED
      BY <1>1, <1>3, <2>3, <3>2 DEF TypeOK
  <2>6. ASSUME NEW i \in Ids, NEW s \in Stores
        PROVE  lastBlockingWrites'[i][s] = lastBlockingWrites[i][s] \ {t}
    <3>1. t \in lastBlockingWrites[i][s] => i = Id(t) /\ s \in txn[t].names
      BY <1>5 DEF Id
    <3> QED
      BY <1>1, <1>3, <2>4, <3>1 DEF TypeOK
  <2> QED
    BY <1>1, <2>1, <2>2, <2>5, <2>6 DEF TypeOK
<1> QED
  BY <1>6, <1>7 DEF FinishTransaction

\* A transaction that finishes lets nobody pass who still has to wait: the one
\* it covered for has finished before it.
LEMMA OrderFinish ==
    ASSUME Life, Order, NEW t \in Transactions, FinishTransaction(t)
    PROVE  Order'
<1>1. TypeOK
  BY DEF Life
<1>2. /\ Created(t) /\ wpc[t] = "over" /\ blockedOn[t] = {}
      /\ \A a \in inProgress : ~(a < t /\ Conflict(a, t))
  BY FinishedIsFirst
<1>3. txn' = txn /\ created' = created /\ mAbortCode' = mAbortCode
  BY DEF FinishTransaction
<1>4. inProgress' = inProgress \ {t} /\ inProgress \subseteq Transactions
  BY <1>1, TablesAfterFinish DEF TypeOK
<1>5. ASSUME NEW u \in Transactions
      PROVE  /\ blockedOn'[u] = blockedOn[u] \ {t}
             /\ blocking'[u] = IF u = t THEN {} ELSE blocking[u]
             /\ wpc'[u] = IF u \in Unblocked(t) THEN "queued" ELSE wpc[u]
  BY TablesAfterFinish
<1>6. ASSUME NEW i \in Ids, NEW s \in Stores
      PROVE  /\ lastBlockingReads'[i][s] =
                   IF lastBlockingReads[i][s] = t THEN Null
                   ELSE lastBlockingReads[i][s]
             /\ lastBlockingWrites'[i][s] = lastBlockingWrites[i][s] \ {t}
  BY TablesAfterFinish
<1>7. ASSUME NEW u \in Transactions, u \in Unblocked(t)
      PROVE  /\ t \in blockedOn[u] /\ blockedOn'[u] = {} /\ wpc[u] = "blocked"
             /\ u \in inProgress /\ u # t
  BY <1>2, <1>5, <1>7 DEF Unblocked, Order, Waits, Progress
<1>8. Progress'
  <2>1. inProgress' \subseteq 1 .. created'
    BY <1>3, <1>4 DEF Order, Progress
  <2>2. ASSUME NEW u \in Transactions
        PROVE  /\ Created(u)' => txn'[u] \in Scopes
               /\ Created(u)' /\ u \notin inProgress' => wpc'[u] = "over"
               /\ ~Created(u)' => wpc'[u] = "blocked"
               /\ blockedOn'[u] # {} => wpc'[u] = "blocked"
    <3>1. CASE u \in Unblocked(t)
      <4>1. u \in inProgress /\ u # t /\ blockedOn'[u] = {}
        BY <1>7, <3>1
      <4>2. u \in inProgress'
        BY <1>4, <4>1
      <4>3. inProgress \subseteq 1 .. created /\ (Created(u) => txn[u] \in Scopes)
        BY DEF Order, Progress
      <4>4. Created(u) /\ txn[u] \in Scopes
        BY <4>1, <4>3 DEF Created
      <4> QED
        BY <1>3, <4>1, <4>2, <4>4 DEF Created
    <3>2. CASE u \notin Unblocked(t)
      <4>1. wpc'[u] = wpc[u]
        BY <1>5, <3>2
      <4> QED
        BY <1>2, <1>3, <1>4, <1>5, <4>1 DEF Order, Progress, Created
    <3> QED
      BY <3>1, <3>2
  <2>3. ASSUME NEW k \in DOMAIN mainQueue', NEW u \in Transactions,
               mainQueue'[k] = <<"finish", u>>
        PROVE  Created(u)' /\ wpc'[u] = "over"
    <3>1. /\ mainQueue \in Seq({"result", "finish"} \X Transactions)
          /\ mainQueue # <<>> /\ mainQueue' = Tail(mainQueue)
      BY <1>1 DEF FinishTransaction, TypeOK
    <3>2. k + 1 \in DOMAIN mainQueue /\ mainQueue[k + 1] = mainQueue'[k]
      BY <2>3, <3>1, HeadTailProperties, LenProperties
    <3>3. Created(u) /\ wpc[u] = "over"
      BY <2>3, <3>2 DEF Order, Progress
    <3>4. u \notin Unblocked(t)
      BY <1>7, <3>3
    <3> QED
      BY <1>3, <1>5, <3>3, <3>4 DEF Created
  <2> QED
    BY <2>1, <2>2, <2>3 DEF Progress
<1>9. Remembered'
  <2>1. ASSUME NEW i \in Ids, NEW s \in Stores, lastBlockingReads'[i][s] # Null
        PROVE  On(lastBlockingReads[i][s], i, s)' /\ Writes(txn'[lastBlockingReads'[i][s]])
    <3>1. lastBlockingReads'[i][s] = lastBlockingReads[i][s]
          /\ lastBlockingReads[i][s] # t
      BY <1>6, <2>1
    <3>2. /\ lastBlockingReads[i][s] \in inProgress
          /\ IdOf[txn[lastBlockingReads[i][s]].db] = i
          /\ s \in txn[lastBlockingReads[i][s]].names
          /\ Writes(txn[lastBlockingReads[i][s]])
      BY <2>1, <3>1 DEF Order, Remembered, On, Id
    <3> QED
      BY <1>3, <1>4, <3>1, <3>2 DEF On, Id
  <2>2. ASSUME NEW i \in Ids, NEW s \in Stores, NEW u \in lastBlockingWrites'[i][s]
        PROVE  On(u, i, s)' /\ ~Writes(txn'[u])
    <3>1. u \in lastBlockingWrites[i][s] /\ u # t
      BY <1>6, <2>2
    <3>2. u \in inProgress /\ IdOf[txn[u].db] = i /\ s \in txn[u].names
          /\ ~Writes(txn[u])
      BY <3>1 DEF Order, Remembered, On, Id
    <3> QED
      BY <1>3, <1>4, <3>1, <3>2 DEF On, Id
  <2>3. ASSUME NEW i \in Ids, NEW s \in Stores, NEW u \in Transactions, On(u, i, s)'
        PROVE  \/ u \in lastBlockingWrites'[i][s]
               \/ lastBlockingReads'[i][s] # Null /\ u <= lastBlockingReads'[i][s]
    <3>1. u \in inProgress /\ u # t /\ Id(u) = i /\ s \in txn[u].names
      BY <1>3, <1>4, <2>3 DEF On, Id
    <3>2. \/ u \in lastBlockingWrites[i][s]
          \/ lastBlockingReads[i][s] # Null /\ u <= lastBlockingReads[i][s]
      BY <3>1 DEF Order, Remembered, On
    <3>3. ASSUME lastBlockingReads[i][s] = t, u <= t
          PROVE  FALSE
      <4>1. t # Null /\ u < t
        BY <3>1, <3>3 DEF Transactions, Null
      <4>2. IdOf[txn[t].db] = i /\ s \in txn[t].names /\ Writes(txn[t])
        BY <3>3, <4>1 DEF Order, Remembered, On, Id
      <4>3. Conflict(u, t)
        BY <3>1, <4>2 DEF Conflict, Id
      <4> QED
        BY <1>2, <3>1, <4>1, <4>3
    <3> QED
      BY <1>6, <3>1, <3>2, <3>3
  <2> QED
    BY <2>1, <2>2, <2>3 DEF Remembered, On, Id
<1>10. Waits'
  <2>1. ASSUME NEW a \in Transactions, NEW b \in Transactions
        PROVE  a \in blocking'[b] <=> b \in blockedOn'[a]
    <3>1. a \in blocking[b] <=> b \in blockedOn[a]
      BY DEF Order, Waits
    <3> QED
      BY <1>2, <1>5, <3>1
  <2>2. ASSUME NEW a \in Transactions, NEW b \in Transactions, a \in blocking'[b]
        PROVE  /\ {a, b} \subseteq inProgress'
               /\ \/ b < a /\ Conflict(b, a)'
                  \/ b = a /\ txn'[b].repeated # {}
    <3>1. a \in blocking[b] /\ b # t
      BY <1>5, <2>2
    <3>2. a # t
      BY <1>2, <3>1 DEF Order, Waits
    <3>3. /\ {a, b} \subseteq inProgress
          /\ \/ b < a /\ Conflict(b, a)
             \/ b = a /\ txn[b].repeated # {}
      BY <3>1 DEF Order, Waits
    <3> QED
      BY <1>3, <1>4, <3>1, <3>2, <3>3 DEF Conflict, Id
  <2>3. ASSUME NEW u \in inProgress', wpc'[u] = "blocked"
        PROVE  blockedOn'[u] # {} \/ mAbortCode'[u]
    <3>1. u \in Transactions /\ u \in inProgress /\ u # t
      BY <1>4
    <3>2. u \notin Unblocked(t) /\ wpc[u] = "blocked"
      BY <1>5, <2>3, <3>1
    <3>3. blockedOn[u] # {} \/ mAbortCode[u]
      BY <3>1, <3>2 DEF Order, Waits
    <3>4. u \in blocking[t] <=> t \in blockedOn[u]
      BY <3>1 DEF Order, Waits
    <3> QED
      BY <1>3, <1>5, <3>1, <3>2, <3>3, <3>4 DEF Unblocked
  <2> QED
    BY <2>1, <2>2, <2>3 DEF Waits, Conflict, Id
<1>11. Covered'
  <2> SUFFICES ASSUME NEW u \in Transactions, NEW a \in inProgress',
                      a < u, Created(u)', Conflict(a, u)'
               PROVE  /\ u \in inProgress'
                      /\ \E v \in blockedOn'[u] :
                            v = a \/ (a < v /\ v < u /\ Conflict(a, v)')
    BY DEF Covered, Conflict, Id, Created
  <2>1. a \in inProgress /\ a # t /\ Created(u) /\ Conflict(a, u)
    BY <1>3, <1>4 DEF Created, Conflict, Id
  <2>2. PICK v \in blockedOn[u] : v = a \/ (a < v /\ v < u /\ Conflict(a, v))
    BY <2>1 DEF Order, Covered
  <2>3. u \in inProgress
    BY <2>1 DEF Order, Covered
  <2>4. u # t
    BY <1>2, <2>2
  <2>5. v # t
    <3>1. ASSUME v = t
          PROVE  FALSE
      <4>1. a < t /\ Conflict(a, t)
        BY <2>1, <2>2, <3>1 DEF Conflict, Id
      <4> QED
        BY <1>2, <2>1, <4>1
    <3> QED
      BY <3>1
  <2>6. v \in blockedOn'[u]
    BY <1>5, <2>2, <2>5
  <2>7. v = a \/ (a < v /\ v < u /\ Conflict(a, v)')
    BY <1>3, <2>2 DEF Conflict, Id
  <2> QED
    BY <1>4, <2>3, <2>4, <2>6, <2>7
<1> QED
  BY <1>8, <1>9, <1>10, <1>11 DEF Order

\* The thread that ends posts FinishTransactionRunnable.
LEMMA OrderEndRun ==
    ASSUME Life, Order, NEW t \in Transactions, EndRun(t)
    PROVE  Order'
<1> DEFINE M == {"result", "finish"} \X Transactions
<1>1. /\ TypeOK /\ mainQueue \in Seq(M) /\ <<"finish", t>> \in M
      /\ mainQueue' = Append(mainQueue, <<"finish", t>>)
      /\ wpc[t] = "running" /\ wpc' = [wpc EXCEPT ![t] = "over"]
  BY DEF EndRun, Life, TypeOK
<1>2. ASSUME NEW u \in Transactions
      PROVE  /\ wpc'[u] = "blocked" <=> wpc[u] = "blocked"
             /\ wpc[u] = "over" => wpc'[u] = "over"
             /\ mAbortCode'[u] = mAbortCode[u]
  BY <1>1 DEF TypeOK, EndRun, mainVars
<1>3. ASSUME NEW k \in DOMAIN mainQueue', NEW u \in Transactions,
             mainQueue'[k] = <<"finish", u>>
      PROVE  Created(u) /\ wpc'[u] = "over"
  <2>1. CASE k \in DOMAIN mainQueue
    <3>1. mainQueue[k] = <<"finish", u>>
      BY <1>1, <1>3, <2>1, AppendProperties, LenProperties
    <3> QED
      BY <1>2, <2>1, <3>1 DEF Order, Progress
  <2>2. CASE k \notin DOMAIN mainQueue
    <3>1. mainQueue'[k] = <<"finish", t>>
      BY <1>1, <2>2, AppendProperties, LenProperties
    <3>2. u = t
      BY <1>3, <3>1
    <3>3. Created(t)
      BY <1>1 DEF Order, Progress
    <3> QED
      BY <1>1, <3>2, <3>3 DEF TypeOK, Created
  <2> QED
    BY <2>1, <2>2
<1> QED
  BY <1>1, <1>2, <1>3, OrderFrame DEF EndRun, mainVars, tableVars

\* The tables and the order of transactions are preserved by every step.
LEMMA OrderStep == Life /\ Order /\ [Next]_vars => Order'
<1> SUFFICES ASSUME Life, Order, [Next]_vars
             PROVE  Order'
  OBVIOUS
<1> DEFINE M == {"result", "finish"} \X Transactions
<1>1. TypeOK /\ mainQueue \in Seq(M)
  BY DEF Life, TypeOK
<1>2. ASSUME UNCHANGED <<created, txn, tableVars, mainQueue, wpc>>,
             \A u \in Transactions : mAbortCode[u] => mAbortCode'[u]
      PROVE  Order'
  <2>1. \A k \in DOMAIN mainQueue' : \A u \in Transactions :
           mainQueue'[k] = <<"finish", u>> => Created(u) /\ wpc'[u] = "over"
    BY <1>2 DEF Order, Progress
  <2> QED
    BY <1>1, <1>2, <2>1, OrderFrame DEF tableVars
<1>3. ASSUME NEW S \in SUBSET Transactions, AbortInternal(S)
      PROVE  Order'
  BY <1>2, <1>3 DEF AbortInternal
<1>4. ASSUME NEW t \in Transactions,
             OnNewRequest(t) \/ Run(t) \/ OnRequestFinished(t) \/ SwapQueue(t)
               \/ RunCommit(t)
      PROVE  Order'
  BY <1>2, <1>4
  DEF OnNewRequest, Run, OnRequestFinished, SwapQueue, RunCommit, mainVars
<1>5. ASSUME NEW t \in Transactions, StartRun(t)
      PROVE  Order'
  <2>1. ASSUME NEW u \in Transactions
        PROVE  /\ wpc'[u] = "blocked" <=> wpc[u] = "blocked"
               /\ wpc[u] = "over" => wpc'[u] = "over"
    BY <1>1, <1>5 DEF StartRun, TypeOK
  <2>2. ASSUME NEW k \in DOMAIN mainQueue', NEW u \in Transactions,
               mainQueue'[k] = <<"finish", u>>
        PROVE  Created(u) /\ wpc'[u] = "over"
    BY <1>5, <2>1, <2>2 DEF StartRun, Order, Progress
  <2> QED
    BY <1>1, <1>5, <2>1, <2>2, OrderFrame DEF StartRun, mainVars, tableVars
<1>6. ASSUME NEW t \in Transactions, RunRequest(t)
      PROVE  Order'
  <2>1. /\ <<"result", t>> \in M
        /\ mainQueue' = Append(mainQueue, <<"result", t>>)
        /\ wpc' = wpc
    BY <1>6 DEF RunRequest
  <2>2. ASSUME NEW k \in DOMAIN mainQueue', NEW u \in Transactions,
               mainQueue'[k] = <<"finish", u>>
        PROVE  Created(u) /\ wpc'[u] = "over"
    <3>1. mainQueue'[k] # <<"result", t>>
      BY <2>2
    <3>2. k \in DOMAIN mainQueue /\ mainQueue[k] = mainQueue'[k]
      BY <1>1, <2>1, <3>1, AppendProperties, LenProperties
    <3> QED
      BY <2>1, <2>2, <3>2 DEF Order, Progress
  <2> QED
    BY <1>1, <1>6, <2>1, <2>2, OrderFrame DEF RunRequest, mainVars, tableVars
<1>7. ASSUME ResultArrives
      PROVE  Order'
  <2>1. mainQueue # <<>> /\ mainQueue' = Tail(mainQueue) /\ wpc' = wpc
    BY <1>7 DEF ResultArrives
  <2>2. ASSUME NEW k \in DOMAIN mainQueue', NEW u \in Transactions,
               mainQueue'[k] = <<"finish", u>>
        PROVE  Created(u) /\ wpc'[u] = "over"
    <3>1. k + 1 \in DOMAIN mainQueue /\ mainQueue[k + 1] = mainQueue'[k]
      BY <1>1, <2>1, HeadTailProperties, LenProperties
    <3> QED
      BY <2>1, <2>2, <3>1 DEF Order, Progress
  <2> QED
    BY <1>1, <1>7, <2>1, <2>2, OrderFrame DEF ResultArrives, tableVars
<1>8. ASSUME NEW d \in Databases, Invalidate(d)
      PROVE  Order'
  BY <1>2, <1>8 DEF Invalidate
<1>9. ASSUME NEW c \in Callbacks, NEW databases \in SUBSET Databases,
             WaitForAllDatabasesToComplete(c, databases)
      PROVE  Order'
  BY <1>2, <1>9 DEF WaitForAllDatabasesToComplete, mainVars
<1>10. CASE UNCHANGED vars
  BY <1>2, <1>10 DEF vars, mainVars
<1> QED
  BY <1>1, <1>3, <1>4, <1>5, <1>6, <1>7, <1>8, <1>9, <1>10, NextCases,
    OrderCreate, OrderFinish, OrderEndRun, Zenon

\* The tables are empty in the beginning.
LEMMA OrderInit == Init => Order
<1> SUFFICES ASSUME Init
             PROVE  Order
  OBVIOUS
<1>1. Progress
  BY DEF Init, Progress, Created, Transactions
<1>2. Remembered
  BY DEF Init, Remembered, On, Null
<1>3. Waits /\ Covered
  BY DEF Init, Waits, Covered
<1> QED
  BY <1>1, <1>2, <1>3 DEF Order

\* Life and Order together are an invariant.
THEOREM OrderInvariant == Spec => [](Life /\ Order)
<1>1. Init => Life /\ Order
  BY LifeInit, OrderInit
<1>2. Life /\ Order /\ [Next]_vars => (Life /\ Order)'
  BY LifeStep, OrderStep
<1> QED
  BY <1>1, <1>2, PTL DEF Spec

\* The tables point only to transactions in progress, and blocking and blockedOn
\* agree.
THEOREM InfoIsNeverDangling == Spec => []NoDanglingInfo
<1>1. Life /\ Order => NoDanglingInfo
  <2> SUFFICES ASSUME Life, Order
               PROVE  NoDanglingInfo
    OBVIOUS
  <2>1. ASSUME NEW i \in Ids, NEW s \in Stores
        PROVE  ({lastBlockingReads[i][s]} \ {Null}) \cup lastBlockingWrites[i][s]
                  \subseteq inProgress
    BY DEF Order, Remembered, On
  <2>2. ASSUME NEW t \in Transactions, NEW u \in Transactions
        PROVE  /\ t \in blocking[u] <=> u \in blockedOn[t]
               /\ t \in blocking[u] => {t, u} \subseteq inProgress
    BY DEF Order, Waits
  <2> QED
    BY <2>1, <2>2 DEF NoDanglingInfo
<1> QED
  BY <1>1, OrderInvariant, PTL

\* A blocked transaction waits for earlier ones that conflict with it, or for
\* itself, or was aborted.
THEOREM NobodyWaitsInVain == Spec => []BlockedForAReason
<1>1. Life /\ Order => BlockedForAReason
  <2> SUFFICES ASSUME Life, Order, NEW u \in inProgress, wpc[u] = "blocked"
               PROVE  /\ \A t \in blockedOn[u] :
                            \/ t < u /\ Conflict(t, u)
                            \/ t = u /\ txn[u].repeated # {}
                      /\ blockedOn[u] # {} \/ mAbortCode[u]
    BY DEF BlockedForAReason
  <2>1. u \in Transactions /\ blockedOn[u] \subseteq Transactions
    BY DEF Life, TypeOK
  <2>2. ASSUME NEW t \in blockedOn[u]
        PROVE  \/ t < u /\ Conflict(t, u)
               \/ t = u /\ txn[u].repeated # {}
    <3>1. u \in blocking[t]
      BY <2>1 DEF Order, Waits
    <3> QED
      BY <2>1, <3>1 DEF Order, Waits
  <2> QED
    BY <2>2 DEF Order, Waits
<1> QED
  BY <1>1, OrderInvariant, PTL

\* Conflicting transactions run one after the other, in the order of their
\* creation.
THEOREM TransactionsAreIsolated == Spec => []Isolation
<1>1. Life /\ Order => Isolation
  <2> SUFFICES ASSUME Life, Order, NEW u \in Transactions, NEW t \in 1 .. u - 1,
                      Created(u), Conflict(t, u), wpc[u] # "blocked"
               PROVE  t \notin inProgress /\ ~mConnection[t] /\ outcome[t] # "none"
    BY DEF Isolation
  <2>1. t \in Transactions /\ t < u /\ Created(t)
    BY BoundsAssumption DEF Transactions, Created, Life, TypeOK
  <2>2. blockedOn[u] = {}
    BY DEF Order, Progress
  <2>3. t \notin inProgress
    BY <2>1, <2>2 DEF Order, Covered
  <2>4. wpc[t] = "over"
    BY <2>1, <2>3 DEF Order, Progress
  <2> QED
    BY <2>1, <2>3, <2>4 DEF Life, LifeOf
<1> QED
  BY <1>1, OrderInvariant, PTL

\* When a callback runs, every transaction ever created on its databases is over
\* and has no connection.
THEOREM CallbacksFindDatabasesIdle == Spec => CallbackFindsIdle
<1> DEFINE Idle == \A c \in calledBack' \ calledBack :
                      \A t \in Transactions :
                         Created(t) /\ Id(t) \in {IdOf[d] : d \in callback'[c]}
                            => wpc[t] = "over" /\ ~mConnection[t]
<1>1. Life /\ Order /\ [Next]_vars => [Idle]_vars
  <2> SUFFICES ASSUME Life, Order, Next,
                      NEW c \in calledBack' \ calledBack, NEW t \in Transactions,
                      Created(t), NEW d \in callback'[c], Id(t) = IdOf[d]
               PROVE  wpc[t] = "over" /\ ~mConnection[t]
    OBVIOUS
  <2>1. TypeOK
    BY DEF Life
  <2>2. wpc[t] = "over" => ~mConnection[t]
    BY DEF Life, LifeOf
  <2>3. ASSUME NEW b \in Callbacks, NEW databases \in SUBSET Databases,
               WaitForAllDatabasesToComplete(b, databases)
        PROVE  wpc[t] = "over"
    <3>1. c = b /\ callback'[c] = databases /\ Complete(databases, BusyIds(inProgress))
      BY <2>1, <2>3 DEF WaitForAllDatabasesToComplete, TypeOK
    <3>2. t \notin inProgress
      BY <3>1 DEF Complete, BusyIds
    <3> QED
      BY <3>2 DEF Order, Progress
  <2>4. ASSUME NEW u \in Transactions, FinishTransaction(u)
        PROVE  wpc[t] = "over"
    <3>1. FinishLast(u)
      BY <2>4 DEF FinishTransaction, FinishOther, callbackVars
    <3>2. callback' = callback /\ Complete(callback[c], BusyIds(inProgress \ {u}))
      BY <3>1 DEF FinishLast
    <3>3. t \notin inProgress \ {u}
      BY <3>2 DEF Complete, BusyIds
    <3>4. wpc[u] = "over"
      BY <2>4, FinishedIsFirst
    <3> QED
      BY <3>3, <3>4 DEF Order, Progress
  <2>5. ASSUME UNCHANGED calledBack
        PROVE  FALSE
    BY <2>5
  <2> QED
    BY <2>1, <2>2, <2>3, <2>4, <2>5, NextCases
    DEF Create, OnNewRequest, Run, OnRequestFinished, StartRun, SwapQueue,
      RunRequest, RunCommit, EndRun, ResultArrives, AbortInternal, Invalidate,
      callbackVars
<1> QED
  BY <1>1, OrderInvariant, PTL DEF Spec, CallbackFindsIdle
=============================================================================
