----------------------------- MODULE RPCChannel -----------------------------
(***************************************************************************)
(* mozilla::ipc::RPCChannel (ipc/glue/RPCChannel.cpp) with the parts of    *)
(* SyncChannel and AsyncChannel it is built on: the two ends of a channel  *)
(* between a parent and a child process, over which either side sends      *)
(* asynchronous messages and makes re-entrant RPC calls, and the child     *)
(* also sends synchronous messages.                                        *)
(*                                                                         *)
(* Each side has a worker thread, whose C++ stack is the sequence frames   *)
(* (bottom first), and a link thread that delivers what is on the wire.    *)
(* While a call waits for its reply the worker dispatches whatever         *)
(* arrives, so calls nest across the two processes, and calls made by both *)
(* sides at once race.                                                     *)
(*                                                                         *)
(* What handlers do is free: they send, call, spin a nested event loop and *)
(* return, in any order, within the bounds MaxCalls, MaxSyncs, MaxAsyncs,  *)
(* MaxNests (per side) and MaxFrames (the height of a C++ stack).  Message *)
(* payloads, BlockChild and the opening and orderly closing of the channel *)
(* are left out; of a reply timeout, its two halves are one.               *)
(***************************************************************************)
EXTENDS Integers, Sequences, SequencesExt

CONSTANTS
    ParentWins,     \* the races for which MediateRPCRace answers RRPParentWins
    Compress,       \* do asynchronous messages have compression enabled
    LinkMayFail,    \* the sides whose transport may be the first to report an error
    MayTimeOut,     \* has the parent set a reply timeout (SetReplyTimeoutMs)
    MaxCalls, MaxSyncs, MaxAsyncs, MaxNests,  \* [Sides -> Nat]
    MaxFrames

Sides == {"parent", "child"}

\* size_t: any modulus larger than every stack depth behaves the same.
SizeT == 65536

\* What handlers may do is bounded by natural numbers, and no C++ stack has as many
\* frames as a size_t counts.
ASSUME BoundsAssumption ==
    /\ MaxCalls \in [Sides -> Nat] /\ MaxSyncs \in [Sides -> Nat]
    /\ MaxAsyncs \in [Sides -> Nat] /\ MaxNests \in [Sides -> Nat]
    /\ MaxFrames \in Nat /\ MaxFrames < SizeT

Other(s) == IF s = "parent" THEN "child" ELSE "parent"

VARIABLES
    mPending,               \* incoming messages other than sync replies
    mStack,                 \* RPC out-calls awaiting a reply, top last
    mOutOfTurnReplies,      \* replies that arrived before their turn
    mDeferred,              \* in-calls that lost a race, top last
    mRemoteStackDepthGuess,
    mSawRPCOutMsg,
    mNextSeqno,
    mPendingReply,          \* seqno of the sync message awaiting its reply, or 0
    mRecvd,                 \* has that reply arrived
    connected,              \* Connected()
    frames,                 \* the worker's C++ stack
    tasks,                  \* DequeueTasks posted to the worker's event loop
    wire,                   \* messages in flight to this side
    budget,                 \* what this side may still do
    races                   \* history: the races this side detected

vars == <<mPending, mStack, mOutOfTurnReplies, mDeferred, mRemoteStackDepthGuess,
          mSawRPCOutMsg, mNextSeqno, mPendingReply, mRecvd, connected, frames,
          tasks, wire, budget, races>>

queueVars == <<mPending, mOutOfTurnReplies, mDeferred, mRemoteStackDepthGuess,
               tasks, races>>
syncVars == <<mPendingReply, mRecvd>>

\* Messages.  A call carries the depth its sender believes the receiver's stack
\* of out-calls to have; a reply carries the seqno of what it answers.
Message == {m \in [kind : {"async", "sync", "rpc"}, reply : BOOLEAN, seqno : Int,
                    guess : Nat] :
               m.kind # "rpc" \/ m.reply => m.guess = 0}
Async == [kind |-> "async", reply |-> FALSE, seqno |-> 0, guess |-> 0]
Sync(n) == [kind |-> "sync", reply |-> FALSE, seqno |-> n, guess |-> 0]
SyncReply(n) == [kind |-> "sync", reply |-> TRUE, seqno |-> n, guess |-> 0]
RPC(n, g) == [kind |-> "rpc", reply |-> FALSE, seqno |-> n, guess |-> g]
RPCReply(n) == [kind |-> "rpc", reply |-> TRUE, seqno |-> n, guess |-> 0]

\* Frames of the C++ stack: Call at the top of its loop or waiting in it,
\* its listener asked about a timeout, SyncChannel::Send waiting, a handler of
\* an in-call, a sync or an async message, a frame about to be left, and a nested
\* event loop.
Frame(a, n) == [at |-> a, seqno |-> n]
FrameKinds == {"calltop", "callwait", "timeout", "syncout", "incall", "syncin", "async",
               "unwind", "nest"}

TypeOK ==
    /\ mPending \in [Sides -> Seq(Message)]
    /\ mStack \in [Sides -> Seq(Message)]
    /\ mOutOfTurnReplies \in [Sides -> SUBSET Int]
    /\ mDeferred \in [Sides -> Seq(Message)]
    /\ mRemoteStackDepthGuess \in [Sides -> Nat]
    /\ mSawRPCOutMsg \in [Sides -> BOOLEAN]
    /\ mNextSeqno \in [Sides -> Int]
    /\ mPendingReply \in [Sides -> Int]
    /\ mRecvd \in [Sides -> BOOLEAN]
    /\ connected \in [Sides -> BOOLEAN]
    /\ frames \in [Sides -> Seq([at : FrameKinds, seqno : Int])]
    /\ tasks \in [Sides -> Nat]
    /\ wire \in [Sides -> Seq(Message)]
    /\ budget \in [Sides -> [rpc : Nat, sync : Nat, async : Nat, nest : Nat]]
    /\ races \in [Sides -> SUBSET (Int \X Int)]

\* A connected channel, both workers in their event loops.
Init ==
    /\ mPending = [s \in Sides |-> <<>>]
    /\ mStack = [s \in Sides |-> <<>>]
    /\ mOutOfTurnReplies = [s \in Sides |-> {}]
    /\ mDeferred = [s \in Sides |-> <<>>]
    /\ mRemoteStackDepthGuess = [s \in Sides |-> 0]
    /\ mSawRPCOutMsg = [s \in Sides |-> FALSE]
    /\ mNextSeqno = [s \in Sides |-> 0]
    /\ mPendingReply = [s \in Sides |-> 0]
    /\ mRecvd = [s \in Sides |-> FALSE]
    /\ connected = [s \in Sides |-> TRUE]
    /\ frames = [s \in Sides |-> <<>>]
    /\ tasks = [s \in Sides |-> 0]
    /\ wire = [s \in Sides |-> <<>>]
    /\ budget = [s \in Sides |-> [rpc |-> MaxCalls[s], sync |-> MaxSyncs[s],
                                  async |-> MaxAsyncs[s], nest |-> MaxNests[s]]]
    /\ races = [s \in Sides |-> {}]

-----------------------------------------------------------------------------
(***************************************************************************)
(* The C++ stack and the link.                                             *)
(***************************************************************************)

\* Where the worker is: the kind of the topmost frame.
At(s) == IF frames[s] = <<>> THEN "loop" ELSE Last(frames[s]).at

StackDepth(s) == Len(mStack[s])

Push(s, f) == frames' = [frames EXCEPT ![s] = Append(@, f)]
SetTop(s, f) == frames' = [frames EXCEPT ![s] = Append(Front(@), f)]

\* NextSeqno(): the parent counts up from 0, the child down.
NextSeqno(s) == IF s = "child" THEN mNextSeqno[s] - 1 ELSE mNextSeqno[s] + 1

SendMessage(s, m) == wire' = [wire EXCEPT ![Other(s)] = Append(@, m)]

\* Replies are only sent on a connected channel.
SendReply(s, m) == IF connected[s] THEN SendMessage(s, m) ELSE UNCHANGED wire

\* Application code runs in the event loop, in a nested one, or in a handler.
InApp(s) == At(s) \in {"loop", "nest", "incall", "async"}
Spend(s, what) == /\ budget[s][what] > 0
                  /\ budget' = [budget EXCEPT ![s][what] = @ - 1]

-----------------------------------------------------------------------------
(***************************************************************************)
(* The link thread.                                                        *)
(***************************************************************************)

\* OnMessageReceivedFromLink.
OnMessageReceivedFromLink(s) ==
    /\ connected[s]
    /\ wire[s] # <<>>
    /\ LET msg == Head(wire[s])
           compressMessage == /\ Compress
                              /\ msg.kind = "async"
                              /\ mPending[s] # <<>>
                              /\ Last(mPending[s]).kind = "async"
       IN  IF mPendingReply[s] # 0 /\ msg.kind = "sync"
           THEN /\ mRecvd' = [mRecvd EXCEPT ![s] = TRUE]
                /\ UNCHANGED <<mPending, tasks>>
           ELSE /\ mPending' =
                     [mPending EXCEPT ![s] =
                        Append(IF compressMessage THEN Front(@) ELSE @, msg)]
                /\ tasks' = [tasks EXCEPT ![s] =
                               IF StackDepth(s) = 0 /\ ~compressMessage
                               THEN @ + 1 ELSE @]
                /\ UNCHANGED mRecvd
    /\ wire' = [wire EXCEPT ![s] = Tail(@)]
    /\ UNCHANGED <<mStack, mOutOfTurnReplies, mDeferred, mRemoteStackDepthGuess,
                   mSawRPCOutMsg, mNextSeqno, mPendingReply, connected, frames,
                   budget, races>>

\* OnChannelErrorFromLink: what is still in flight to this side is lost.
OnChannelErrorFromLink(s) ==
    /\ s \in LinkMayFail \/ ~connected[Other(s)]
    /\ connected[s]
    /\ connected' = [connected EXCEPT ![s] = FALSE]
    /\ wire' = [wire EXCEPT ![s] = <<>>]
    /\ UNCHANGED <<queueVars, mStack, mSawRPCOutMsg, mNextSeqno, syncVars,
                   frames, budget>>

-----------------------------------------------------------------------------
(***************************************************************************)
(* Race detection, deferral and the dispatch of a message.                 *)
(***************************************************************************)

\* The other side, which sent the replies put aside here, no longer counts the
\* calls they answer.
RemoteViewOfStackDepth(s, stackDepth) ==
    (stackDepth - Cardinality(mOutOfTurnReplies[s])) % SizeT

\* Mutant: an off-by-one in the comparison of depths.
MustUndeferLate(s) ==
    /\ mDeferred[s] # <<>>
    /\ Last(mDeferred[s]).guess > RemoteViewOfStackDepth(s, StackDepth(s))

\* MaybeUndeferIncall moves the deferred in-call on top back to the queue once
\* the stack is as deep as its sender believed.
MustUndefer(s) ==
    /\ mDeferred[s] # <<>>
    /\ Last(mDeferred[s]).guess >= RemoteViewOfStackDepth(s, StackDepth(s))

\* Mutant: the guess still counts the frame of the call put back.
UndeferredStillCounted(s) ==
    IF MustUndefer(s)
    THEN [pending |-> Append(mPending[s], Last(mDeferred[s])),
          deferred |-> Front(mDeferred[s]),
          guess |-> mRemoteStackDepthGuess[s]]
    ELSE [pending |-> mPending[s], deferred |-> mDeferred[s],
          guess |-> mRemoteStackDepthGuess[s]]

\* mPending, mDeferred and the guess as MaybeUndeferIncall leaves them.
Undeferred(s) ==
    IF MustUndefer(s)
    THEN [pending |-> Append(mPending[s], Last(mDeferred[s])),
          deferred |-> Front(mDeferred[s]),
          guess |-> mRemoteStackDepthGuess[s] - 1]
    ELSE [pending |-> mPending[s], deferred |-> mDeferred[s],
          guess |-> mRemoteStackDepthGuess[s]]

\* Does in-call msg, dispatched at stackDepth, turn out to have raced?
Raced(s, msg, stackDepth) ==
    msg.guess # RemoteViewOfStackDepth(s, stackDepth)

\* The seqno of mStack.top(), which is only read when there is one (IncallSane).
TopSeqno(s) == IF mStack[s] = <<>> THEN 0 ELSE Last(mStack[s]).seqno

\* The race of in-call msg with the innermost out-call: the seqno of the parent's
\* message and that of the child's.
Race(s, msg) == IF s = "child" THEN <<msg.seqno, TopSeqno(s)>>
                ELSE <<TopSeqno(s), msg.seqno>>

\* MediateRPCRace: the listener's answer for these two messages.  (A seqno stands
\* for the message and so for its type, which policies look at.)
MediateRPCRace(race) == IF race \in ParentWins THEN "parent" ELSE "child"

\* Mutant: the other side's frame is not counted.
GuessInIncallUnchanged(g) == g

\* A deferred in-call, and one being handled, is a frame on the other side.
GuessInIncall(g) == g + 1

\* Incall and the first half of DispatchIncall, on a worker whose stack below
\* the new frame is stk and whose deferred calls and guess are those of u.
Incall(s, msg, stackDepth, stk, u) ==
    LET raced == Raced(s, msg, stackDepth)
        defer == raced /\ MediateRPCRace(Race(s, msg)) = s
    IN  /\ mRemoteStackDepthGuess' =
              [mRemoteStackDepthGuess EXCEPT ![s] = GuessInIncall(u.guess)]
        /\ mDeferred' = [mDeferred EXCEPT ![s] = IF defer
                                                 THEN Append(u.deferred, msg)
                                                 ELSE u.deferred]
        /\ frames' = [frames EXCEPT ![s] = IF defer THEN stk
                        ELSE Append(stk, Frame("incall", msg.seqno))]
        /\ races' = IF raced /\ mStack[s] # <<>>
                    THEN [races EXCEPT ![s] = @ \cup {Race(s, msg)}]
                    ELSE races

\* AsyncChannel::OnDispatchMessage: even on a broken channel the handler runs,
\* and nothing is left to do after it.
AsyncHandler == Frame("async", 0)

\* The handler of a sync or async message is entered.
OnDispatchMessage(s, msg, stk, u) ==
    /\ frames' = [frames EXCEPT ![s] =
                    Append(stk, IF msg.kind = "sync"
                                THEN Frame("syncin", msg.seqno)
                                ELSE AsyncHandler)]
    /\ mDeferred' = [mDeferred EXCEPT ![s] = u.deferred]
    /\ mRemoteStackDepthGuess' = [mRemoteStackDepthGuess EXCEPT ![s] = u.guess]
    /\ UNCHANGED races

\* Mutant: only deferred in-calls get a task.
TasksForDeferred(u) == Len(u.deferred)

\* The tasks EnqueuePendingMessages posts.
TasksForQueues(u) == Len(u.deferred) + Len(u.pending)

\* A frame is left.  ~CxxStackFrame of the last one calls ExitedCxxStack, which
\* posts a task for everything deferred or pending (EnqueuePendingMessages) if
\* this stack made an RPC out-call.
Unwind(s) ==
    /\ At(s) \in {"unwind", "async"}
    /\ frames' = [frames EXCEPT ![s] = Front(@)]
    /\ IF Len(frames[s]) = 1 /\ mSawRPCOutMsg[s]
       THEN LET u == Undeferred(s)
            IN  /\ mPending' = [mPending EXCEPT ![s] = u.pending]
                /\ mDeferred' = [mDeferred EXCEPT ![s] = u.deferred]
                /\ mRemoteStackDepthGuess' =
                      [mRemoteStackDepthGuess EXCEPT ![s] = u.guess]
                /\ tasks' = [tasks EXCEPT ![s] = @ + TasksForQueues(u)]
                /\ mSawRPCOutMsg' = [mSawRPCOutMsg EXCEPT ![s] = FALSE]
       ELSE UNCHANGED <<mPending, mDeferred, mRemoteStackDepthGuess, tasks,
                        mSawRPCOutMsg>>
    /\ UNCHANGED <<mStack, mOutOfTurnReplies, mNextSeqno, syncVars, connected,
                   wire, budget, races>>

-----------------------------------------------------------------------------
(***************************************************************************)
(* RPCChannel::Call.                                                       *)
(***************************************************************************)

Call(s) ==
    /\ InApp(s)
    /\ Len(frames[s]) < MaxFrames
    /\ connected[s]
    /\ Spend(s, "rpc")
    /\ LET msg == RPC(NextSeqno(s), mRemoteStackDepthGuess[s])
       IN  /\ mNextSeqno' = [mNextSeqno EXCEPT ![s] = msg.seqno]
           /\ mStack' = [mStack EXCEPT ![s] = Append(@, msg)]
           /\ SendMessage(s, msg)
           /\ Push(s, Frame("calltop", msg.seqno))
    /\ mSawRPCOutMsg' = [mSawRPCOutMsg EXCEPT ![s] = TRUE]
    /\ UNCHANGED <<queueVars, syncVars, connected>>

\* The top of the loop: MaybeUndeferIncall, then wait.
CallLoop(s) ==
    /\ At(s) = "calltop"
    /\ connected[s]
    /\ LET u == Undeferred(s)
       IN  /\ mPending' = [mPending EXCEPT ![s] = u.pending]
           /\ mDeferred' = [mDeferred EXCEPT ![s] = u.deferred]
           /\ mRemoteStackDepthGuess' =
                 [mRemoteStackDepthGuess EXCEPT ![s] = u.guess]
    /\ SetTop(s, Frame("callwait", Last(frames[s]).seqno))
    /\ UNCHANGED <<mStack, mOutOfTurnReplies, mSawRPCOutMsg, mNextSeqno, syncVars,
                   connected, tasks, wire, budget, races>>

\* Mutant: a Call that waits is not woken by an error.
NoticesErrorAtTop(s) == At(s) = "calltop"

\* Call checks Connected() at the top of its loop and whenever it is woken.
NoticesError(s) == At(s) \in {"calltop", "callwait"}

\* The channel broke: Call returns false and leaves mStack alone.
CallFails(s) ==
    /\ NoticesError(s)
    /\ ~connected[s]
    /\ SetTop(s, Frame("unwind", 0))
    /\ UNCHANGED <<queueVars, mStack, mSawRPCOutMsg, mNextSeqno, syncVars,
                   connected, wire, budget>>

\* Mutant: the child's seqnos are taken to increase, too.
OutOfTurnAscending(s, n) == n < Last(mStack[s]).seqno

\* Is this the reply to an outer call, and not to the innermost?
OutOfTurn(s, n) ==
    IF s = "child" THEN n > Last(mStack[s]).seqno ELSE n < Last(mStack[s]).seqno

\* Mutant: a reply put aside is returned but not erased.
KeepReply(s, n) == mOutOfTurnReplies[s]

EraseReply(s, n) == mOutOfTurnReplies[s] \ {n}

\* The reply to the innermost call was put aside earlier: Call returns it.
CallTakesOutOfTurn(s) ==
    /\ At(s) = "callwait"
    /\ connected[s]
    /\ Last(mStack[s]).seqno \in mOutOfTurnReplies[s]
    /\ mOutOfTurnReplies' =
          [mOutOfTurnReplies EXCEPT ![s] = EraseReply(s, Last(mStack[s]).seqno)]
    /\ mStack' = [mStack EXCEPT ![s] = Front(@)]
    /\ SetTop(s, Frame("unwind", 0))
    /\ UNCHANGED <<mPending, mDeferred, mRemoteStackDepthGuess, tasks, races,
                   mSawRPCOutMsg, mNextSeqno, syncVars, connected, wire, budget>>

\* Otherwise the loop takes the first pending message: a reply is put aside or
\* ends the call; anything else is dispatched in a frame above this one.
CallTakesPending(s) ==
    /\ At(s) = "callwait"
    /\ connected[s]
    /\ Last(mStack[s]).seqno \notin mOutOfTurnReplies[s]
    /\ mPending[s] # <<>>
    /\ mPending' = [mPending EXCEPT ![s] = Tail(@)]
    /\ LET recvd == Head(mPending[s])
           stk == Append(Front(frames[s]),
                         Frame("calltop", Last(frames[s]).seqno))
           u == [deferred |-> mDeferred[s], guess |-> mRemoteStackDepthGuess[s]]
       IN  \/ /\ recvd.kind # "rpc"
              /\ OnDispatchMessage(s, recvd, stk, u)
              /\ UNCHANGED <<mStack, mOutOfTurnReplies>>
           \/ /\ recvd.kind = "rpc" /\ ~recvd.reply
              /\ Incall(s, recvd, StackDepth(s), stk, u)
              /\ UNCHANGED <<mStack, mOutOfTurnReplies>>
           \/ /\ recvd.kind = "rpc" /\ recvd.reply /\ OutOfTurn(s, recvd.seqno)
              /\ mOutOfTurnReplies' =
                    [mOutOfTurnReplies EXCEPT ![s] = @ \cup {recvd.seqno}]
              /\ frames' = [frames EXCEPT ![s] = stk]
              /\ UNCHANGED <<mStack, mDeferred, mRemoteStackDepthGuess, races>>
           \/ /\ recvd.kind = "rpc" /\ recvd.reply /\ ~OutOfTurn(s, recvd.seqno)
              /\ mStack' = [mStack EXCEPT ![s] = Front(@)]
              /\ SetTop(s, Frame("unwind", 0))
              /\ UNCHANGED <<mOutOfTurnReplies, mDeferred,
                             mRemoteStackDepthGuess, races>>
    /\ UNCHANGED <<mSawRPCOutMsg, mNextSeqno, syncVars, connected, tasks, wire,
                   budget>>

\* EventOccurred() of a connected channel.
EventOccurred(s) ==
    mPending[s] # <<>> \/ Last(mStack[s]).seqno \in mOutOfTurnReplies[s]

\* Call waited in vain for the reply timeout and asks its listener, with the
\* monitor unlocked: OnReplyTimeout.  Children have no reply timeout.
ReplyTimesOut(s) ==
    /\ MayTimeOut /\ s = "parent"
    /\ At(s) = "callwait"
    /\ connected[s]
    /\ ~EventOccurred(s)
    /\ SetTop(s, Frame("timeout", Last(frames[s]).seqno))
    /\ UNCHANGED <<queueVars, mStack, mSawRPCOutMsg, mNextSeqno, syncVars,
                   connected, wire, budget>>

\* The listener says to go on: Call looks again for what came in the meantime.
ContinueFromTimeout(s) ==
    /\ At(s) = "timeout"
    /\ SetTop(s, Frame("callwait", Last(frames[s]).seqno))
    /\ UNCHANGED <<queueVars, mStack, mSawRPCOutMsg, mNextSeqno, syncVars,
                   connected, wire, budget>>

\* Mutant: a timed out Call returns without closing the channel.
CloseOnTimeoutNot(s) == UNCHANGED <<connected, wire>>

\* SynchronouslyClose and the state ChannelTimeout: nothing more is received.
CloseOnTimeout(s) ==
    /\ connected' = [connected EXCEPT ![s] = FALSE]
    /\ wire' = [wire EXCEPT ![s] = <<>>]

\* The listener gives up: the channel is closed, whatever arrived meanwhile, and
\* Call returns false.
GiveUp(s) ==
    /\ At(s) = "timeout"
    /\ CloseOnTimeout(s)
    /\ SetTop(s, Frame("unwind", 0))
    /\ UNCHANGED <<queueVars, mStack, mSawRPCOutMsg, mNextSeqno, syncVars, budget>>

-----------------------------------------------------------------------------
(***************************************************************************)
(* The event loop, nested or not: OnMaybeDequeueOne.                       *)
(***************************************************************************)

OnMaybeDequeueOne(s) ==
    /\ At(s) \in {"loop", "nest"}
    /\ tasks[s] > 0
    /\ Len(frames[s]) < MaxFrames
    /\ tasks' = [tasks EXCEPT ![s] = @ - 1]
    /\ LET u == Undeferred(s)
       IN  \/ /\ ~connected[s]
              /\ UNCHANGED <<mPending, mOutOfTurnReplies, mDeferred,
                             mRemoteStackDepthGuess, frames, races>>
           \/ /\ connected[s] /\ u.pending = <<>>
              /\ UNCHANGED <<mPending, mOutOfTurnReplies, mDeferred,
                             mRemoteStackDepthGuess, frames, races>>
           \/ /\ connected[s] /\ u.pending # <<>>
              /\ mPending' = [mPending EXCEPT ![s] = Tail(u.pending)]
              /\ LET recvd == Head(u.pending)
                 IN  \/ /\ recvd.kind # "rpc"
                        /\ OnDispatchMessage(s, recvd, frames[s], u)
                        /\ UNCHANGED mOutOfTurnReplies
                     \/ /\ recvd.kind = "rpc" /\ ~recvd.reply
                        /\ Incall(s, recvd, 0, frames[s], u)
                        /\ UNCHANGED mOutOfTurnReplies
                     \/ /\ recvd.kind = "rpc" /\ recvd.reply
                        /\ frames[s] # <<>>
                        /\ mOutOfTurnReplies' =
                              [mOutOfTurnReplies EXCEPT ![s] =
                                 @ \cup {recvd.seqno}]
                        /\ mDeferred' = [mDeferred EXCEPT ![s] = u.deferred]
                        /\ mRemoteStackDepthGuess' =
                              [mRemoteStackDepthGuess EXCEPT ![s] = u.guess]
                        /\ UNCHANGED <<frames, races>>
    /\ UNCHANGED <<mStack, mSawRPCOutMsg, mNextSeqno, syncVars, connected, wire,
                   budget>>

\* A handler spins a nested event loop ...
SpinNestedLoop(s) ==
    /\ At(s) \in {"incall", "async"}
    /\ Len(frames[s]) < MaxFrames
    /\ Spend(s, "nest")
    /\ Push(s, Frame("nest", 0))
    /\ UNCHANGED <<queueVars, mStack, mSawRPCOutMsg, mNextSeqno, syncVars,
                   connected, wire>>

\* ... and leaves it.
LeaveNestedLoop(s) ==
    /\ At(s) = "nest"
    /\ frames' = [frames EXCEPT ![s] = Front(@)]
    /\ UNCHANGED <<queueVars, mStack, mSawRPCOutMsg, mNextSeqno, syncVars,
                   connected, wire, budget>>

-----------------------------------------------------------------------------
(***************************************************************************)
(* Handlers and the other ways to send.                                    *)
(***************************************************************************)

\* Mutant: the guess is not restored after the handler.
GuessAfterIncallKept(g) == g

GuessAfterIncall(g) == g - 1

\* The second half of DispatchIncall: OnCallReceived returned.
IncallDone(s) ==
    /\ At(s) = "incall"
    /\ mRemoteStackDepthGuess' =
          [mRemoteStackDepthGuess EXCEPT ![s] = GuessAfterIncall(@)]
    /\ SendReply(s, RPCReply(Last(frames[s]).seqno))
    /\ SetTop(s, Frame("unwind", 0))
    /\ UNCHANGED <<mPending, mOutOfTurnReplies, mDeferred, tasks, races, mStack,
                   mSawRPCOutMsg, mNextSeqno, syncVars, connected, budget>>

\* The second half of SyncChannel::OnDispatchMessage.
SyncDone(s) ==
    /\ At(s) = "syncin"
    /\ SendReply(s, SyncReply(Last(frames[s]).seqno))
    /\ SetTop(s, Frame("unwind", 0))
    /\ UNCHANGED <<queueVars, mStack, mSawRPCOutMsg, mNextSeqno, syncVars,
                   connected, budget>>

\* AsyncChannel::Send, which sync handlers may use as well.
SendAsync(s) ==
    /\ InApp(s) \/ At(s) = "syncin"
    /\ connected[s]
    /\ Spend(s, "async")
    /\ SendMessage(s, Async)
    /\ UNCHANGED <<queueVars, mStack, mSawRPCOutMsg, mNextSeqno, syncVars,
                   connected, frames>>

\* Mutant: Send does not wait for the reply.
DoNotWait(s, n) == UNCHANGED frames

WaitForReply(s, n) == Push(s, Frame("syncout", n))

\* SyncChannel::Send up to its wait.  IPDL only lets children send sync messages.
SendSync(s) ==
    /\ s = "child"
    /\ InApp(s)
    /\ Len(frames[s]) < MaxFrames
    /\ connected[s]
    /\ Spend(s, "sync")
    /\ mNextSeqno' = [mNextSeqno EXCEPT ![s] = NextSeqno(s)]
    /\ mPendingReply' = [mPendingReply EXCEPT ![s] = NextSeqno(s)]
    /\ SendMessage(s, Sync(NextSeqno(s)))
    /\ WaitForReply(s, NextSeqno(s))
    /\ UNCHANGED <<queueVars, mStack, mSawRPCOutMsg, mRecvd, connected>>

\* SyncChannel::Send wakes up: the reply arrived or the channel broke.
SyncReturns(s) ==
    /\ At(s) = "syncout"
    /\ \/ /\ ~connected[s]
          /\ UNCHANGED syncVars
       \/ /\ connected[s]
          /\ mRecvd[s]
          /\ mPendingReply' = [mPendingReply EXCEPT ![s] = 0]
          /\ mRecvd' = [mRecvd EXCEPT ![s] = FALSE]
    /\ SetTop(s, Frame("unwind", 0))
    /\ UNCHANGED <<queueVars, mStack, mSawRPCOutMsg, mNextSeqno, connected, wire,
                   budget>>

-----------------------------------------------------------------------------

AppStep(s) == Call(s) \/ SendAsync(s) \/ SendSync(s) \/ SpinNestedLoop(s)

\* What the worker does by itself, without the application asking for more.
WorkerStep(s) ==
    \/ CallLoop(s)
    \/ CallFails(s)
    \/ CallTakesOutOfTurn(s)
    \/ CallTakesPending(s)
    \/ OnMaybeDequeueOne(s)
    \/ SyncReturns(s)
    \/ Unwind(s)

\* Handlers return, and nested loops end.
HandlerStep(s) == IncallDone(s) \/ SyncDone(s) \/ LeaveNestedLoop(s)

\* OnReplyTimeout returns.
TimeoutStep(s) == ContinueFromTimeout(s) \/ GiveUp(s)

LinkStep(s) == OnMessageReceivedFromLink(s)

Next ==
    \E s \in Sides :
       \/ AppStep(s)
       \/ WorkerStep(s)
       \/ HandlerStep(s)
       \/ LinkStep(s)
       \/ ReplyTimesOut(s)
       \/ TimeoutStep(s)
       \/ OnChannelErrorFromLink(s)

Spec == Init /\ [][Next]_vars

\* Handlers and OnReplyTimeout return, event loops run the tasks posted to them,
\* the link delivers, and when one side's transport broke the other side's reports it too.
Fairness ==
    \A s \in Sides :
       /\ WF_vars(WorkerStep(s))
       /\ WF_vars(HandlerStep(s))
       /\ WF_vars(TimeoutStep(s))
       /\ WF_vars(LinkStep(s))
       /\ WF_vars(~connected[Other(s)] /\ OnChannelErrorFromLink(s))

FairSpec == Spec /\ Fairness

-----------------------------------------------------------------------------
(***************************************************************************)
(* Safety.                                                                 *)
(***************************************************************************)

Connected == \A s \in Sides : connected[s]

\* Nothing runs and nothing is on its way.
Quiet == \A s \in Sides : frames[s] = <<>> /\ wire[s] = <<>> /\ tasks[s] = 0

\* The places where MaybeUndeferIncall is about to look at mDeferred.
LooksAtDeferred(s) ==
    \/ At(s) = "calltop"
    \/ At(s) \in {"loop", "nest"} /\ tasks[s] > 0
    \/ At(s) \in {"unwind", "async"} /\ Len(frames[s]) = 1 /\ mSawRPCOutMsg[s]

\* "the other side can only *under*-estimate our actual stack depth": the
\* assertion of MaybeUndeferIncall never fails, nor the one that guards its
\* decrement of the guess (RPCChannel.cpp:298-300, 309-311).
NeverOverestimated ==
    \A s \in Sides : LooksAtDeferred(s) /\ mDeferred[s] # <<>> =>
       /\ Last(mDeferred[s]).guess <= StackDepth(s)
       /\ MustUndefer(s) => mRemoteStackDepthGuess[s] > 0

\* "other side should have been blocked": when Call takes a sync message
\* nothing is queued behind it (RPCChannel.cpp:219-220).
SenderBlocked ==
    \A s \in Sides :
       (At(s) = "callwait" /\ mPending[s] # <<>> /\ Head(mPending[s]).kind = "sync")
          => Len(mPending[s]) = 1

\* The races that side s detected and won, so that it deferred the in-call.
Won(s) == {race \in races[s] : MediateRPCRace(race) = s}

\* The assertion holds as long as the parent never defers an in-call: an undeferred
\* one is what it finds behind the sync message otherwise.
SenderBlockedUnlessWon == Won("parent") = {} => SenderBlocked

\* "somebody's misbehavin'": a reply that Call takes and that is not out of turn
\* answers the innermost out-call, however calls nested and raced
\* (RPCChannel.cpp:244-249).
ReplyMatches ==
    \A s \in Sides :
       (At(s) = "callwait" /\ mPending[s] # <<>>) =>
          LET recvd == Head(mPending[s])
          IN  recvd.kind = "rpc" /\ recvd.reply /\ ~OutOfTurn(s, recvd.seqno)
                => recvd.seqno = Last(mStack[s]).seqno

\* "still have pending replies with no pending out-calls": a reply put aside
\* always belongs to a call still on the stack (RPCChannel.cpp:260-265).
OutOfTurnBelongs ==
    \A s \in Sides :
       mOutOfTurnReplies[s] \subseteq {mStack[s][i].seqno : i \in DOMAIN mStack[s]}

\* The places of the Calls among the lowest n frames of a C++ stack.
CallsUpTo(stk, n) == {i \in 1 .. n : stk[i].at \in {"calltop", "callwait", "timeout"}}

\* The calls in a C++ stack are those in calls, and in this order.
Matched(stk, calls) ==
    /\ Cardinality(CallsUpTo(stk, Len(stk))) = Len(calls)
    /\ \A i \in CallsUpTo(stk, Len(stk)) :
          stk[i].seqno = calls[Cardinality(CallsUpTo(stk, i))].seqno

\* The out-calls of mStack are, in order, those whose Call is still on the C++
\* stack.  A Call that fails, because the link broke or its reply timed out,
\* leaves its message on mStack: no reply, late or not, and no later call may
\* meet that message, so the channel must be closed by then
\* (RPCChannel.cpp:154-190, SyncChannel.cpp:225-253).
StackMatchesFrames ==
    /\ TypeOK
    /\ \A s \in Sides : connected[s] => Matched(frames[s], mStack[s])

\* What OnMaybeDequeueOne is about to take.
Dequeues(s, m) ==
    /\ At(s) \in {"loop", "nest"}
    /\ tasks[s] > 0
    /\ connected[s]
    /\ Undeferred(s).pending # <<>>
    /\ m = Head(Undeferred(s).pending)

\* Incall takes mStack.top() when it detects a race, so a race is only ever
\* detected with an out-call outstanding; and the event loop never hands it a
\* reply, "wrong message type" (RPCChannel.cpp:419, 430-431).
IncallSane ==
    \A s \in Sides : \A m \in ToSet(Undeferred(s).pending) :
       Dequeues(s, m) /\ m.kind = "rpc" =>
          /\ frames[s] = <<>> => ~m.reply
          /\ ~m.reply /\ Raced(s, m, 0) => mStack[s] # <<>>

\* A worker back in its event loop has a DequeueTask posted for every message
\* still queued or deferred: neither compression, which reuses a task, nor the
\* calls that consumed messages without their tasks, strands one
\* (RPCChannel.cpp:316-336, 613-623, 700-718).
TasksCoverQueue ==
    \A s \in Sides :
       frames[s] = <<>> /\ connected[s]
          => tasks[s] >= Len(mPending[s]) + Len(mDeferred[s])

\* When everything is quiet on a connected channel, both sides have unwound to
\* the same picture: no call, no deferred in-call, no reply left over, and both
\* guesses zero (RPCChannel.h:364-386).
QuietIsClean ==
    Quiet /\ Connected =>
       \A s \in Sides :
          /\ mStack[s] = <<>> /\ mDeferred[s] = <<>> /\ mPending[s] = <<>>
          /\ mOutOfTurnReplies[s] = {}
          /\ mRemoteStackDepthGuess[s] = 0

\* "this race detection is symmetric" (RPCChannel.h:388-390): when everything is
\* quiet again on a connected channel, either both sides have detected a race or
\* neither has.  (That the other side "must also detect the same race" is more than
\* holds: each in-call is compared with the innermost out-call only, so where an
\* in-call raced with two nested ones the sides may record different pairs.)
RacesSymmetric ==
    Quiet /\ Connected => (races["parent"] = {} <=> races["child"] = {})

-----------------------------------------------------------------------------
(***************************************************************************)
(* Liveness, under FairSpec.                                               *)
(***************************************************************************)

\* Each side has deferred an in-call of the other.  A policy that answers by the
\* types of the messages lets this happen: an outer call of either side races with
\* another call of the other side than the one it lost to.
BothDeferred == \A s \in Sides : mDeferred[s] # <<>>

\* The two sides never wait for each other for good: every C++ stack unwinds, so
\* every Call and every sync Send returns, also when the link breaks; unless each
\* side keeps a call of the other deferred.  Then both may wait for the replies of
\* these calls, in Calls whose remote view never sinks to the guess of the deferred
\* call, and nothing but a broken link or a reply timeout ends it
\* (RPCChannel.cpp:289-315, 424-446; dom/plugins/ipc/PluginMessageUtils.cpp:70-86).
StacksUnwind == \A s \in Sides : []<>(frames[s] = <<>> \/ BothDeferred)

\* Every in-call deferred in a race is eventually processed, unless each side keeps
\* one deferred.
DeferredRuns ==
    \A s \in Sides : []<>(mDeferred[s] = <<>> \/ BothDeferred \/ ~connected[s])
=============================================================================
