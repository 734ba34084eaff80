---------------------------- MODULE TimerThread ----------------------------
(***************************************************************************)
(* Timers: nsTimerImpl and TimerThread (xpcom/threads/nsTimerImpl.cpp and  *)
(* TimerThread.cpp).  One timer thread keeps the armed timers in mTimers,  *)
(* sleeps until the first is due, and posts an nsTimerEvent to the timer's *)
(* target, where the event calls the callback.                             *)
(*                                                                         *)
(* Three actors: the timer thread, the owner and the clock.  The owner is  *)
(* the main thread, the target of its timers.  Its code initialises,       *)
(* cancels and releases timers between events and in callbacks, in any     *)
(* order; it also observes sleep and wake notifications and shuts the      *)
(* timer thread down.                                                      *)
(*                                                                         *)
(* A step is a section under mMonitor, or the unlocked code between two.   *)
(* Time is discrete and ends at MaxTime.  The filter that adapts           *)
(* mTimeoutAdjustment to observed delays is reduced to its result: each    *)
(* firing may leave it or give it any of the values in Adjustments.  The   *)
(* 32 firings in which its delay line fills are left out.                  *)
(***************************************************************************)
EXTENDS Counting, Integers

CONSTANTS
    Timers,                     \* nsTimerImpl objects, created and held by the owner
    TypesOf,                    \* the types each timer is initialised with
    Delays,                     \* the delays that are asked for
    Adjustments,                \* the adjustments that UpdateFilter comes to
    None,                       \* the null pointer
    MaxTime, MaxInits,          \* bounds on the clock and on calls of Init
    MaxUpsets                   \* bound: SetDelay calls, sleeps, refused events

Types == {"ONE_SHOT", "REPEATING_SLACK", "REPEATING_PRECISE",
          "REPEATING_PRECISE_CAN_SKIP"}

ASSUME TimersAssumption == IsFiniteSet(Timers) /\ None \notin Timers

ASSUME TypesAssumption == TypesOf \in [Timers -> SUBSET Types]

ASSUME BoundsAssumption ==
    /\ Delays \subseteq Nat /\ Adjustments \subseteq Int
    /\ MaxTime \in Nat /\ MaxInits \in Nat /\ MaxUpsets \in Nat

Never == MaxTime + 1            \* the end of a wait that only a notification ends

VARIABLES
    now,
    \* fields of TimerThread, and the owner's gThread
    mTimers, mShutdown, mSleeping, mTimeoutAdjustment, gThread,
    \* the fields of each nsTimerImpl, and whether SetDelay was called since it was
    \* initialised (history); a timer without references is deleted
    timer,
    \* the timer thread: its place in Run and PostTimerEvent, with the end of its
    \* wait, the timer it holds a reference to, the generation in the new event, and
    \* the timer's generation and the adjustment when it was popped (history)
    tpc, cur, evGen, popped,
    \* the nsTimerEvents posted to the owner
    queue,
    \* the owner: the timers it has a reference to, the call it is in the middle
    \* of, the timer whose callback it runs with the callback type Fire saved,
    \* the next index in DoAfterSleep (0: not in it), Shutdown's local array
    held, call, firing, saved, index, leaving,
    \* counts of the calls of Init and of the upsets, and whether mTimeout of a timer
    \* in mTimers, or mTimeoutAdjustment with a timer in it, was ever changed (history)
    gGenerator, upsets, rewritten

timerThread == <<tpc, cur, evGen, popped>>
owner == <<held, call, firing, saved, index, leaving>>
counts == <<gGenerator, upsets, rewritten>>
vars == <<now, mTimers, mShutdown, mSleeping, mTimeoutAdjustment, gThread, timer,
          timerThread, queue, owner, counts>>

-----------------------------------------------------------------------------
(***************************************************************************)
(* mTimers and the timers in it.  An operator is given the list and the    *)
(* timers as the caller has changed them so far.                           *)
(***************************************************************************)
InList(list, t) == \E i \in DOMAIN list : list[i] = t

\* RemoveElement: the first occurrence.
Removed(list, t) ==
    IF ~InList(list, t) THEN list
    ELSE LET i == CHOOSE i \in DOMAIN list :
                    list[i] = t /\ \A j \in DOMAIN list : j < i => list[j] # t
         IN  SubSeq(list, 1, i - 1) \o SubSeq(list, i + 1, Len(list))

\* TimerAdditionComparator::LessThan, which passes over overdue timers.
LessThan(timers, u, t) ==
    \/ now >= timers[u].mTimeout + mTimeoutAdjustment
    \/ timers[u].mTimeout <= timers[t].mTimeout

\* Where InsertElementSorted may put t.  Its binary search ends at some place
\* with a smaller element before and none after it; there is just one when the
\* list is sorted, which it is not while SetDelay is between its two steps.
Places(list, timers, t) ==
    {i \in 0 .. Len(list) :
        /\ i > 0 => LessThan(timers, list[i], t)
        /\ i < Len(list) => ~LessThan(timers, list[i + 1], t)}

Inserted(list, i, t) == SubSeq(list, 1, i) \o <<t>> \o SubSeq(list, i + 1, Len(list))

\* A timer with the given reference count that has not been initialised, or is
\* deleted: nothing is left of its fields.
Blank(count) ==
    [mRefCnt |-> count, mArmed |-> FALSE, mCanceled |-> FALSE, mGeneration |-> 0,
     mType |-> "ONE_SHOT", mDelay |-> 0, mTimeout |-> 0, mCallback |-> FALSE,
     delaySet |-> FALSE]

Dropped(timers, t) ==
    [timers EXCEPT ![t] = IF timers[t].mRefCnt = 1 THEN Blank(0)
                          ELSE [timers[t] EXCEPT !.mRefCnt = @ - 1]]

Armed(timers, t) == [timers EXCEPT ![t].mArmed = TRUE, ![t].mRefCnt = @ + 1]

\* ReleaseTimerInternal: mArmed is cleared first, so Release goes no further
\* than the reference count.
Disarmed(timers, t) == Dropped([timers EXCEPT ![t].mArmed = FALSE], t)

\* nsTimerImpl::Release up to the monitor: with one reference left and mArmed set,
\* that reference is taken to be the one of mTimers.
Alone(t) == timer[t].mRefCnt = 2 /\ timer[t].mArmed

Released(t) == Dropped([timer EXCEPT ![t].mCanceled = @ \/ Alone(t)], t)

\* RemoveTimerInternal's effect on the timers.
Unlisted(list, timers, t) == IF InList(list, t) THEN Disarmed(timers, t) ELSE timers

\* What popped records of a timer, and of none.
Popped(t) == [generation |-> timer[t].mGeneration, adjustment |-> mTimeoutAdjustment]
NotPopped == [generation |-> 0, adjustment |-> 0]

\* A place in Run other than Wait.
At(place) == [at |-> place, until |-> 0]

\* Notify, if the timer thread is in Wait.
Notified == IF tpc.at = "waiting" THEN At("top") ELSE tpc

\* Mutants: the timer thread is not notified; timers are added after Shutdown.
AddTimerSilently(list, timers, t) ==
    IF mShutdown
    THEN mTimers' = list /\ timer' = timers /\ UNCHANGED tpc
    ELSE \E i \in Places(list, timers, t) :
            /\ mTimers' = Inserted(list, i, t)
            /\ timer' = Armed(timers, t)
            /\ UNCHANGED tpc

AddTimerAnyTime(list, timers, t) ==
    \E i \in Places(list, timers, t) :
        /\ mTimers' = Inserted(list, i, t)
        /\ timer' = Armed(timers, t)
        /\ tpc' = IF i = 0 THEN Notified ELSE tpc

\* AddTimer, called by the owner.
AddTimer(list, timers, t) ==
    IF mShutdown
    THEN mTimers' = list /\ timer' = timers /\ UNCHANGED tpc
    ELSE \E i \in Places(list, timers, t) :
            /\ mTimers' = Inserted(list, i, t)
            /\ timer' = Armed(timers, t)
            /\ tpc' = IF i = 0 THEN Notified ELSE tpc

\* SetDelayInternal: a precise timer counts from its last timeout.
SetDelayInternal(timers, t, delay) ==
    LET start == IF timers[t].mType = "REPEATING_PRECISE" THEN timers[t].mTimeout ELSE now
    IN  [timers EXCEPT ![t].mDelay = delay,
                       ![t].mTimeout = start + delay]

\* mTimeout of t is written, and the given list is not sorted any more if t is in it.
WritesTimeout(list, t) == rewritten' = (rewritten \/ InList(list, t))

-----------------------------------------------------------------------------
Init ==
    /\ now = 0
    /\ mTimers = <<>> /\ mShutdown = FALSE /\ mSleeping = FALSE /\ gThread = TRUE
    /\ mTimeoutAdjustment = 0
    /\ timer = [t \in Timers |-> Blank(1)]
    /\ tpc = At("top") /\ cur = None /\ evGen = 0 /\ popped = NotPopped
    /\ queue = <<>>
    /\ held = Timers /\ call = [op |-> "idle", timer |-> None]
    /\ firing = None /\ saved = FALSE /\ index = 0 /\ leaving = <<>>
    /\ gGenerator = 0 /\ upsets = 0 /\ rewritten = FALSE

Tick ==
    /\ now < MaxTime
    /\ now' = now + 1
    /\ UNCHANGED <<mTimers, mShutdown, mSleeping, mTimeoutAdjustment, gThread, timer,
                   timerThread, queue, owner, counts>>

-----------------------------------------------------------------------------
(***************************************************************************)
(* The timer thread: TimerThread::Run and PostTimerEvent.                  *)
(***************************************************************************)
Ends ==
    /\ tpc' = At("done")
    /\ UNCHANGED <<cur, popped, mTimers, timer>>

\* Wait(waitFor): until the given time, or until notified.
Waits(until) ==
    /\ tpc' = [at |-> "waiting", until |-> until]
    /\ UNCHANGED <<cur, popped, mTimers, timer>>

\* Mutant: no reference is kept.
PopsUnreferenced ==
    LET t == mTimers[1]
    IN  /\ tpc' = At("post")
        /\ cur' = t
        /\ popped' = [generation |-> timer[t].mGeneration, adjustment |-> mTimeoutAdjustment]
        /\ mTimers' = Tail(mTimers)
        /\ timer' = Disarmed(timer, t)

\* The first timer is due: take it out of mTimers and keep a reference to it.
Pops ==
    LET t == mTimers[1]
    IN  /\ tpc' = At("post")
        /\ cur' = t
        /\ popped' = [generation |-> timer[t].mGeneration, adjustment |-> mTimeoutAdjustment]
        /\ mTimers' = Tail(mTimers)
        /\ timer' = [timer EXCEPT ![t].mArmed = FALSE]

\* Look at the first timer, and wait for it, post it, or wait for a notification.
Looks ==
    LET timeout == timer[mTimers[1]].mTimeout + mTimeoutAdjustment
    IN  IF mTimers = <<>> THEN Waits(Never)
        ELSE IF now >= timeout THEN Pops
        ELSE Waits(timeout)

\* The top of the loop.  While the machine sleeps the wait ends by itself.
Top ==
    /\ tpc.at = "top"
    /\ CASE mShutdown -> Ends
         [] ~mShutdown /\ mSleeping -> Waits(now)
         [] OTHER -> Looks
    /\ UNCHANGED <<now, mShutdown, mSleeping, mTimeoutAdjustment, gThread, evGen, queue,
                   owner, counts>>

\* Mutant: the rest of the list is not looked at.
AgainWaits ==
    /\ tpc.at = "again"
    /\ IF mShutdown THEN Ends ELSE Waits(Never)
    /\ UNCHANGED <<now, mShutdown, mSleeping, mTimeoutAdjustment, gThread, evGen, queue,
                   owner, counts>>

\* Back under the monitor after PostTimerEvent: mSleeping is not looked at.
Again ==
    /\ tpc.at = "again"
    /\ IF mShutdown THEN Ends ELSE Looks
    /\ UNCHANGED <<now, mShutdown, mSleeping, mTimeoutAdjustment, gThread, evGen, queue,
                   owner, counts>>

WaitExpires ==
    /\ tpc.at = "waiting"
    /\ now >= tpc.until
    /\ tpc' = At("top")
    /\ UNCHANGED <<now, mTimers, mShutdown, mSleeping, mTimeoutAdjustment, gThread,
                   timer, cur, evGen, popped, queue, owner, counts>>

\* PostTimerEvent makes the event, with the generation the timer has now, and
\* gives precise timers their next timeout.
MakeEvent ==
    /\ tpc.at = "post"
    /\ evGen' = timer[cur].mGeneration
    /\ IF timer[cur].mType \in {"REPEATING_PRECISE", "REPEATING_PRECISE_CAN_SKIP"}
       THEN /\ timer' = SetDelayInternal(timer, cur, timer[cur].mDelay)
            /\ WritesTimeout(mTimers, cur)
       ELSE UNCHANGED <<timer, rewritten>>
    /\ tpc' = At(IF timer[cur].mType = "REPEATING_PRECISE" THEN "rearm" ELSE "dispatch")
    /\ UNCHANGED <<now, mTimers, mShutdown, mSleeping, mTimeoutAdjustment, gThread, cur,
                   popped, queue, owner, gGenerator, upsets>>

Rearm ==
    /\ tpc.at = "rearm"
    /\ IF mShutdown
       THEN tpc' = At("drop") /\ UNCHANGED <<mTimers, timer>>
       ELSE \E i \in Places(mTimers, timer, cur) :
               /\ mTimers' = Inserted(mTimers, i, cur)
               /\ timer' = Armed(timer, cur)
               /\ tpc' = At("dispatch")
    /\ UNCHANGED <<now, mShutdown, mSleeping, mTimeoutAdjustment, gThread, cur, evGen,
                   popped, queue, owner, counts>>

\* The event takes over the reference.
DispatchEvent ==
    /\ tpc.at = "dispatch"
    /\ queue' = Append(queue, [timer |-> cur, generation |-> evGen, popped |-> popped])
    /\ tpc' = At("again")
    /\ cur' = None
    /\ evGen' = 0
    /\ popped' = NotPopped
    /\ UNCHANGED <<now, mTimers, mShutdown, mSleeping, mTimeoutAdjustment, gThread,
                   timer, owner, counts>>

\* The target refuses the event: RemoveTimer.
DispatchRefused ==
    /\ tpc.at = "dispatch"
    /\ upsets < MaxUpsets
    /\ upsets' = upsets + 1
    /\ mTimers' = Removed(mTimers, cur)
    /\ timer' = Unlisted(mTimers, timer, cur)
    /\ tpc' = At("drop")
    /\ UNCHANGED <<now, mShutdown, mSleeping, mTimeoutAdjustment, gThread, cur, evGen,
                   popped, queue, owner, gGenerator, rewritten>>

\* Release on the timer thread, when PostTimerEvent failed: as on the owner's
\* thread, with RemoveTimer to follow if the reference left is that of mTimers.
DropTimer ==
    /\ tpc.at = "drop"
    /\ timer' = Released(cur)
    /\ tpc' = At(IF Alone(cur) THEN "unlist" ELSE "again")
    /\ cur' = IF Alone(cur) THEN cur ELSE None
    /\ evGen' = 0
    /\ popped' = NotPopped
    /\ UNCHANGED <<now, mTimers, mShutdown, mSleeping, mTimeoutAdjustment, gThread,
                   queue, owner, counts>>

\* That RemoveTimer, of a timer to which the timer thread has no reference.
DropUnlists ==
    /\ tpc.at = "unlist"
    /\ mTimers' = Removed(mTimers, cur)
    /\ timer' = Unlisted(mTimers, timer, cur)
    /\ tpc' = At("again")
    /\ cur' = None
    /\ UNCHANGED <<now, mShutdown, mSleeping, mTimeoutAdjustment, gThread, evGen, popped,
                   queue, owner, counts>>

TimerStep ==
    \/ Top \/ Again \/ WaitExpires
    \/ MakeEvent \/ Rearm \/ DispatchEvent \/ DispatchRefused
    \/ DropTimer \/ DropUnlists

-----------------------------------------------------------------------------
(***************************************************************************)
(* The owner's calls.                                                      *)
(***************************************************************************)
Idle == [op |-> "idle", timer |-> None]

\* May the owner's code call a method of t?  It runs between two events, or in
\* a callback, which gets the timer as its argument.
AppHas(t) ==
    /\ call = Idle /\ index = 0 /\ leaving = <<>>
    /\ ~mShutdown \/ firing # None
    /\ t \in held \/ t = firing

\* What Init and InitCommon write.
Initialised(timers, t, generation, type) ==
    [timers EXCEPT ![t].mCallback = TRUE, ![t].mCanceled = FALSE,
                   ![t].mGeneration = generation, ![t].mType = type, ![t].mTimeout = now,
                   ![t].delaySet = FALSE]

\* Init: a new callback; InitCommon: leave mTimers if armed, then a new generation.
BeginInit(t, type, delay) ==
    /\ AppHas(t)
    /\ gThread
    /\ type \in TypesOf[t]
    /\ gGenerator < MaxInits
    /\ gGenerator' = gGenerator + 1
    /\ LET left == IF timer[t].mArmed THEN Unlisted(mTimers, timer, t) ELSE timer
       IN  timer' = SetDelayInternal(Initialised(left, t, gGenerator + 1, type), t, delay)
    /\ mTimers' = IF timer[t].mArmed THEN Removed(mTimers, t) ELSE mTimers
    /\ tpc' = IF timer[t].mArmed /\ InList(mTimers, t) THEN Notified ELSE tpc
    /\ WritesTimeout(mTimers', t)
    /\ call' = [op |-> "adding", timer |-> t]
    /\ UNCHANGED <<now, mShutdown, mSleeping, mTimeoutAdjustment, gThread, cur, evGen,
                   popped, queue, held, firing, saved, index, leaving, upsets>>

FinishInit ==
    /\ call.op = "adding"
    /\ AddTimer(mTimers, timer, call.timer)
    /\ call' = Idle
    /\ UNCHANGED <<now, mShutdown, mSleeping, mTimeoutAdjustment, gThread, cur, evGen,
                   popped, queue, held, firing, saved, index, leaving, counts>>

\* mCanceled, RemoveTimer, ReleaseCallback.
Cancel(t) ==
    /\ AppHas(t)
    /\ ~timer[t].mCanceled
    /\ mTimers' = Removed(mTimers, t)
    /\ timer' = [Unlisted(mTimers, timer, t) EXCEPT ![t].mCanceled = TRUE,
                                                    ![t].mCallback = FALSE]
    /\ tpc' = IF InList(mTimers, t) THEN Notified ELSE tpc
    /\ UNCHANGED <<now, mShutdown, mSleeping, mTimeoutAdjustment, gThread, cur, evGen,
                   popped, queue, owner, counts>>

\* SetDelay up to TimerDelayChanged: mTimeout is written without the monitor,
\* maybe while the timer is in mTimers.
DelayWritten(t, delay) ==
    LET restarted ==
            [timer EXCEPT ![t].delaySet = TRUE,
                          ![t].mTimeout = IF timer[t].mType = "REPEATING_PRECISE"
                                          THEN now ELSE @]
    IN  /\ timer[t].mCallback \/ timer[t].mType # "ONE_SHOT"
        /\ timer' = SetDelayInternal(restarted, t, delay)
        /\ WritesTimeout(mTimers, t)
        /\ call' = IF t # firing /\ gThread THEN [op |-> "changing", timer |-> t] ELSE Idle

SetDelay(t, delay) ==
    /\ AppHas(t)
    /\ upsets < MaxUpsets
    /\ upsets' = upsets + 1
    /\ DelayWritten(t, delay)
    /\ UNCHANGED <<now, mTimers, mShutdown, mSleeping, mTimeoutAdjustment, gThread,
                   timerThread, queue, held, firing, saved, index, leaving, gGenerator>>

TimerDelayChanged ==
    /\ call.op = "changing"
    /\ AddTimer(Removed(mTimers, call.timer), Unlisted(mTimers, timer, call.timer), call.timer)
    /\ call' = Idle
    /\ UNCHANGED <<now, mShutdown, mSleeping, mTimeoutAdjustment, gThread, cur, evGen,
                   popped, queue, held, firing, saved, index, leaving, counts>>

\* Mutant: a plain reference count.
ReleasesOnly(t) ==
    /\ timer' = Dropped(timer, t)
    /\ call' = Idle

\* nsTimerImpl::Release on the owner's thread, with RemoveTimer to follow.
Releases(t) ==
    /\ timer' = Released(t)
    /\ call' = IF Alone(t) THEN [op |-> "removing", timer |-> t] ELSE Idle

\* The owner gives up its reference.
LetGo(t) ==
    /\ AppHas(t) /\ t \in held
    /\ held' = held \ {t}
    /\ Releases(t)
    /\ UNCHANGED <<now, mTimers, mShutdown, mSleeping, mTimeoutAdjustment, gThread,
                   timerThread, queue, firing, saved, index, leaving, counts>>

\* An event that has fired its timer gives up its reference.
ReleaseFired ==
    /\ call.op = "releasing"
    /\ Releases(call.timer)
    /\ UNCHANGED <<now, mTimers, mShutdown, mSleeping, mTimeoutAdjustment, gThread,
                   timerThread, queue, held, firing, saved, index, leaving, counts>>

\* RemoveTimer, in Release.
RemoveTimer ==
    LET t == call.timer
    IN  /\ call.op = "removing"
        /\ mTimers' = Removed(mTimers, t)
        /\ timer' = Unlisted(mTimers, timer, t)
        /\ tpc' = IF InList(mTimers, t) THEN Notified ELSE tpc
        /\ call' = Idle
        /\ UNCHANGED <<now, mShutdown, mSleeping, mTimeoutAdjustment, gThread, cur,
                       evGen, popped, queue, held, firing, saved, index, leaving,
                       counts>>

-----------------------------------------------------------------------------
(***************************************************************************)
(* The owner runs an nsTimerEvent, also in the event loop in which         *)
(* Shutdown waits for the timer thread to end.                             *)
(***************************************************************************)

\* Mutant: the generation is not compared.
FiresAnyGeneration(e) == ~timer[e.timer].mCanceled

\* Does nsTimerEvent::Run fire the timer, or was that re-initialised or cancelled?
Fires(e) == e.generation = timer[e.timer].mGeneration /\ ~timer[e.timer].mCanceled

\* An adjustment is made while timers are listed, and they are not sorted by it any more.
Readjusts ==
    rewritten' = \/ rewritten
                 \/ mTimers # <<>> /\ mTimeoutAdjustment' # mTimeoutAdjustment

\* UpdateFilter, called by Fire: one and a half times the average slack of the last
\* firings, each clamped to FILTER_FEEDBACK_MAX either way.  Nothing changes while the
\* delay line fills.
UpdateFilter ==
    /\ IF gThread THEN mTimeoutAdjustment' \in Adjustments \cup {mTimeoutAdjustment}
                  ELSE UNCHANGED mTimeoutAdjustment
    /\ Readjusts

RunEvent ==
    LET e == Head(queue)
        t == e.timer
    IN  /\ call = Idle /\ firing = None /\ index = 0 /\ leaving = <<>>
        /\ queue # <<>>
        /\ queue' = Tail(queue)
        /\ IF Fires(e)
           THEN /\ firing' = t
                /\ saved' = timer[t].mCallback
                /\ timer' = [timer EXCEPT ![t].mCallback = FALSE]
                /\ UpdateFilter
                /\ UNCHANGED call
           ELSE /\ Releases(t)
                /\ UNCHANGED <<firing, saved, mTimeoutAdjustment, rewritten>>
        /\ UNCHANGED <<now, mTimers, mShutdown, mSleeping, gThread, timerThread, held,
                       index, leaving, gGenerator, upsets>>

\* The callback returned: Fire puts it back unless it was replaced or is not
\* needed any more, and arms a repeating timer again.  The event then drops its
\* reference.
EndFire ==
    LET t == firing
        restores == ~timer[t].mCallback /\ timer[t].mType # "ONE_SHOT" /\ ~timer[t].mCanceled
        restored == IF restores THEN [timer EXCEPT ![t].mCallback = saved] ELSE timer
        again == /\ timer[t].mType \in {"REPEATING_SLACK", "REPEATING_PRECISE_CAN_SKIP"}
                 /\ ~timer[t].mArmed
        timed == IF timer[t].mType = "REPEATING_SLACK"
                 THEN SetDelayInternal(restored, t, timer[t].mDelay) ELSE restored
    IN  /\ call = Idle /\ firing # None
        /\ IF again /\ timer[t].mType = "REPEATING_SLACK"
           THEN WritesTimeout(mTimers, t) ELSE UNCHANGED rewritten
        /\ IF again /\ gThread
           THEN AddTimer(mTimers, timed, t)
           ELSE timer' = (IF again THEN timed ELSE restored) /\ UNCHANGED <<mTimers, tpc>>
        /\ firing' = None
        /\ saved' = FALSE
        /\ call' = [op |-> "releasing", timer |-> t]
        /\ UNCHANGED <<now, mShutdown, mSleeping, mTimeoutAdjustment, gThread, cur,
                       evGen, popped, queue, held, index, leaving, gGenerator, upsets>>

-----------------------------------------------------------------------------
(***************************************************************************)
(* Sleep and wake notifications, and shutdown, on the owner's thread.      *)
(***************************************************************************)
AtRest == call = Idle /\ firing = None /\ index = 0 /\ leaving = <<>>

DoBeforeSleep ==
    /\ AtRest /\ ~mShutdown
    /\ upsets < MaxUpsets /\ ~mSleeping
    /\ upsets' = upsets + 1
    /\ mSleeping' = TRUE
    /\ UNCHANGED <<now, mTimers, mShutdown, mTimeoutAdjustment, gThread, timer,
                   timerThread, queue, owner, gGenerator, rewritten>>

BeginAfterSleep ==
    /\ AtRest /\ ~mShutdown
    /\ mSleeping
    /\ index' = 1
    /\ UNCHANGED <<now, mTimers, mShutdown, mSleeping, mTimeoutAdjustment, gThread,
                   timer, timerThread, queue, held, call, firing, saved, leaving,
                   counts>>

\* "wake may be notified without preceding sleep notification"
WakesUnslept ==
    /\ AtRest /\ ~mShutdown
    /\ upsets < MaxUpsets /\ ~mSleeping
    /\ upsets' = upsets + 1
    /\ mSleeping' = TRUE
    /\ index' = 1
    /\ UNCHANGED <<now, mTimers, mShutdown, mTimeoutAdjustment, gThread, timer,
                   timerThread, queue, held, call, firing, saved, leaving, gGenerator,
                   rewritten>>

\* The loop of DoAfterSleep sets the delay of mTimers[i], for i that counts up
\* while each SetDelay moves a timer and the timer thread takes others out.
ResetNext ==
    LET t == mTimers[index]
    IN  /\ call = Idle /\ index > 0
        /\ index <= Len(mTimers)
        /\ index' = index + 1
        /\ \/ DelayWritten(t, timer[t].mDelay)
           \/ /\ ~timer[t].mCallback /\ timer[t].mType = "ONE_SHOT"
              /\ UNCHANGED <<timer, call, rewritten>>
        /\ UNCHANGED <<now, mTimers, mShutdown, mSleeping, mTimeoutAdjustment, gThread,
                       timerThread, queue, held, firing, saved, leaving, gGenerator,
                       upsets>>

EndAfterSleep ==
    /\ call = Idle /\ index > Len(mTimers)
    /\ index' = 0
    /\ mTimeoutAdjustment' = 0
    /\ Readjusts
    /\ mSleeping' = FALSE
    /\ UNCHANGED <<now, mTimers, mShutdown, gThread, timer, timerThread, queue, held,
                   call, firing, saved, leaving, gGenerator, upsets>>

\* Mutant: the timer thread is not notified.
BeginShutdownSilently ==
    /\ AtRest /\ ~mShutdown
    /\ mShutdown' = TRUE
    /\ leaving' = mTimers
    /\ mTimers' = <<>>
    /\ UNCHANGED <<now, mSleeping, mTimeoutAdjustment, gThread, timer, timerThread,
                   queue, held, call, firing, saved, index, counts>>

\* TimerThread::Shutdown takes the timers out of mTimers,
BeginShutdown ==
    /\ AtRest /\ ~mShutdown
    /\ mShutdown' = TRUE
    /\ tpc' = Notified
    /\ leaving' = mTimers
    /\ mTimers' = <<>>
    /\ UNCHANGED <<now, mSleeping, mTimeoutAdjustment, gThread, timer, cur, evGen,
                   popped, queue, held, call, firing, saved, index, counts>>

\* releases them one by one without the monitor,
ShutdownReleases ==
    LET t == Head(leaving)
    IN  /\ leaving # <<>>
        /\ leaving' = Tail(leaving)
        /\ timer' = Disarmed([timer EXCEPT ![t].mCallback = FALSE], t)
        /\ UNCHANGED <<now, mTimers, mShutdown, mSleeping, mTimeoutAdjustment, gThread,
                       timerThread, queue, held, call, firing, saved, index, counts>>

\* and waits for the timer thread to end.
EndShutdown ==
    /\ AtRest /\ mShutdown
    /\ gThread
    /\ tpc.at = "done"
    /\ gThread' = FALSE
    /\ UNCHANGED <<now, mTimers, mShutdown, mSleeping, mTimeoutAdjustment, timer,
                   timerThread, queue, owner, counts>>

-----------------------------------------------------------------------------
\* What the owner must go on with once it has begun, and what it may begin.
OwnerStep ==
    \/ FinishInit \/ TimerDelayChanged \/ ReleaseFired \/ RemoveTimer
    \/ RunEvent \/ EndFire
    \/ BeginAfterSleep \/ ResetNext \/ EndAfterSleep
    \/ ShutdownReleases \/ EndShutdown

OwnerCalls ==
    \/ \E t \in Timers :
          \/ \E type \in Types, delay \in Delays : BeginInit(t, type, delay)
          \/ \E delay \in Delays : SetDelay(t, delay)
          \/ Cancel(t)
          \/ LetGo(t)
    \/ DoBeforeSleep \/ WakesUnslept
    \/ BeginShutdown

Next == Tick \/ TimerStep \/ OwnerStep \/ OwnerCalls

Spec == Init /\ [][Next]_vars

\* Time passes, both threads run, callbacks return and the machine wakes up.
FairSpec == Spec /\ WF_vars(Tick) /\ WF_vars(TimerStep) /\ WF_vars(OwnerStep)

-----------------------------------------------------------------------------
\* The values of popped.
Looked == [generation : 0 .. MaxInits, adjustment : Adjustments \cup {0}]

Events == [timer : Timers, generation : 0 .. MaxInits, popped : Looked]

\* The fields of an nsTimerImpl.
Fields ==
    [mRefCnt : Nat, mArmed : BOOLEAN, mCanceled : BOOLEAN, mGeneration : 0 .. MaxInits,
     mType : Types, mDelay : Delays \cup {0}, mTimeout : Nat, mCallback : BOOLEAN,
     delaySet : BOOLEAN]

TypeOK ==
    /\ now \in 0 .. MaxTime
    /\ mTimers \in Seq(Timers) /\ leaving \in Seq(Timers)
    /\ mShutdown \in BOOLEAN /\ mSleeping \in BOOLEAN /\ gThread \in BOOLEAN
    /\ mTimeoutAdjustment \in Adjustments \cup {0}
    /\ timer \in [Timers -> Fields]
    /\ tpc \in [at : {"top", "again", "waiting", "post", "rearm", "dispatch", "drop", "unlist",
                      "done"},
                until : Int]
    /\ cur \in Timers \cup {None} /\ evGen \in 0 .. MaxInits
    /\ popped \in Looked
    /\ queue \in Seq(Events)
    /\ held \subseteq Timers /\ firing \in Timers \cup {None} /\ saved \in BOOLEAN
    /\ call \in [op : {"idle", "adding", "changing", "releasing", "removing"},
                 timer : Timers \cup {None}]
    /\ index \in Nat
    /\ gGenerator \in 0 .. MaxInits /\ upsets \in Nat /\ rewritten \in BOOLEAN

\* The timers of the events in the owner's queue.
Queued == [i \in DOMAIN queue |-> queue[i].timer]

Holds(condition) == IF condition THEN 1 ELSE 0

\* Who has a reference to t: the owner, mTimers or Shutdown's copy of it for each
\* occurrence, the timer thread while it posts t, the events, and the event being
\* run.
References(t) ==
    Holds(t \in held) + Occurrences(t, mTimers) + Occurrences(t, leaving)
      + Holds(cur = t /\ tpc.at # "unlist") + Occurrences(t, Queued)
      + Holds(firing = t) + Holds(call.op = "releasing" /\ call.timer = t)

\* The reference count of a timer is exact on every path, so a timer is deleted
\* exactly when nobody can reach it, though Release, RemoveTimer, PostTimerEvent
\* and Shutdown race to drop the references.
RefCntExact ==
    /\ TypeOK
    /\ \A t \in Timers : timer[t].mRefCnt = References(t)

NeverPrecise(t) == "REPEATING_PRECISE" \notin TypesOf[t]

\* mArmed says whether the timer is in the list, and it is there once: Init,
\* SetDelay, DoAfterSleep and the end of Fire never insert it a second time.
\* (Timers of type REPEATING_PRECISE may be listed twice: the timer thread arms
\* them too.)
ArmedOnce ==
    \A t \in Timers :
        NeverPrecise(t) =>
            Occurrences(t, mTimers) + Occurrences(t, leaving) = Holds(timer[t].mArmed)

\* No call of SetDelay has been made, by the owner or after a sleep, and no event
\* has been refused.
Undisturbed == upsets = 0

\* nsTimerImpl::Release: "Timers need non-mTimers-element strong refs to stay
\* alive."  When the owner is not in the middle of a call, no timer is armed
\* whose only reference is that of mTimers.  (DoAfterSleep breaks this when the
\* target refuses events: it may arm a timer that was deleted under its hands.)
NoOrphans ==
    call = Idle /\ Undisturbed =>
        \A t \in Timers :
            NeverPrecise(t) /\ timer[t].mArmed /\ tpc.at \notin {"drop", "unlist"} /\ ~mShutdown
                => timer[t].mRefCnt > 1

\* The list of armed timers is sound: each is in it once, and somebody else has a
\* reference to it, as the two parts above say.
ListSound == ArmedOnce /\ NoOrphans

\* nsTimerImpl::Release: "Armed timer exists after the thread timer stopped."
\* Once the timer thread is gone no timer is in its list, none says that it is,
\* and none is held by it.
NoneArmedAtEnd ==
    ~gThread =>
        /\ mTimers = <<>> /\ leaving = <<>> /\ cur = None
        /\ \A t \in Timers : ~timer[t].mArmed

\* The wait ends in time: while the timer thread sleeps, the wait is over before
\* any timer of the list is due, as mTimeoutAdjustment has it, although only the first
\* one is looked at and only an insertion in front of it notifies.  (Writing mTimeout
\* of a listed timer, without the monitor, breaks this: SetDelay does, and
\* PostTimerEvent, to a precise timer that was initialised again since it was popped.
\* So does UpdateFilter, which has no monitor either and notifies nobody, when it
\* gives a new adjustment while timers are listed.)
SleepsInTime ==
    tpc.at = "waiting" /\ ~rewritten =>
        \A i \in DOMAIN mTimers :
            \/ tpc.until <= now
            \/ tpc.until <= timer[mTimers[i]].mTimeout + mTimeoutAdjustment

\* The filter lets timers fire early, but only by the adjustment that the timer thread
\* saw when it popped them: an event that will fire a one-shot timer finds its timeout
\* passed but for that adjustment, however the owner cancelled and initialised the timer
\* since, because PostTimerEvent copies the generation "so we can avoid firing a timer
\* that was re-initialized after being canceled".
\* Three cases are excluded.  The copy is made after the monitor was released, so a
\* timer initialised between the two fires early.  SetDelay keeps the generation, so
\* a timer whose event is posted already fires at its old time, long before the new
\* one (delaySet).  A repeating timer may have its next timeout already.
NeverEarly ==
    \A i \in DOMAIN queue :
        LET e == queue[i]
        IN  ( /\ Fires(e) /\ e.popped.generation = e.generation
              /\ timer[e.timer].mType = "ONE_SHOT" /\ ~timer[e.timer].delaySet )
            => now >= timer[e.timer].mTimeout + e.popped.adjustment

\* The first look at t may come after the end of time.
Beyond(t) == \E a \in Adjustments \cup {0} : timer[t].mTimeout + a > MaxTime

\* A timer that is armed fires, unless it is cancelled, its timeout or that of the
\* first timer is beyond the end of time, its delay is set, its target refuses the
\* event or the timers are shut down: no notification is lost between AddTimer,
\* RemoveTimer and the wait, and no adjustment of the timeouts keeps it from firing.
EveryTimerFires ==
    \A t \in Timers :
        InList(mTimers, t) ~>
            (\/ firing = t
             \/ timer[t].mCanceled
             \/ Beyond(t)
             \/ mTimers # <<>> /\ Beyond(mTimers[1])
             \/ ~Undisturbed \/ mShutdown)

\* Shutdown returns: the timer thread notices mShutdown wherever it is.
ShutdownEnds == []<>(mShutdown => ~gThread)
=============================================================================
