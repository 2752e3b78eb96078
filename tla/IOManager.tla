----------------------------- MODULE IOManager -----------------------------
(***************************************************************************)
(* The IO scheduler (src/src/IOmanager over src/src/Scheduler and           *)
(* src/src/Timer).  It overrides the scheduler's virtual functions: idle()  *)
(* waits in epoll_wait and then queues the due timers and the coroutines    *)
(* whose events arrived, tickle() interrupts one epoll_wait through a pipe, *)
(* and stopping() also asks for no registered event and no timer.           *)
(*                                                                         *)
(* A task that waits for IO is registered itself (addEvent() without a      *)
(* callback takes the running coroutine); which fd and which direction it   *)
(* waits on is FdEvents' subject.  A timer is the function it will queue;   *)
(* when it is due is TimerMng's subject, here it is due at any moment.  A   *)
(* recurring timer is due again only when its callback has returned, so     *)
(* that one coroutine stands for all its runs.                              *)
(***************************************************************************)
EXTENDS Scheduler

CONSTANT MayRecur   \* are recurring timers added?

ASSUME IOAssumption == MayRecur \in BOOLEAN

VARIABLES
  pending,    \* m_pendingEventCount
  waiting,    \* the coroutines registered in some FdContext
  fired,      \* those of them on epoll's ready list
  timers,     \* m_timers
  recurs,     \* those of them with m_recur
  due,        \* those of them whose m_goTime has passed
  tickled,    \* TimerMng::m_tickled
  pipeReady,  \* the tickle pipe is on epoll's ready list (edge-triggered)
  next,       \* idle()'s local nextTime: is it finite?
  got,        \* idle()'s local evs, still to be dispatched (None: the pipe)
  cbs,        \* idle()'s local cbs
  orphans     \* history: the coroutines that registered last on a thread whose
              \* idle coroutine had already ended

ioVars == <<pending, waiting, fired, timers, recurs, due, tickled, pipeReady, next,
            got, cbs, orphans>>
allVars == <<vars, ioVars>>

(* idle() and stopping() on the way: pc values of this class. *)
IdlePc == {"checkPending", "checkQueue", "epoll", "timers", "pushCbs", "events",
           "eventDone"}

IOTypeOK ==
  /\ queue \in Seq(Entry)
  /\ state \in [Task -> State]
  /\ active \in Nat /\ idle \in Nat /\ pending \in Nat
  /\ pc \in [Thread -> WorkerPc \cup MasterPc \cup IdlePc \cup
                     {"stopPending", "stopQueue", "cancelDone", "notify", "off", "exited"}]
  /\ waiting \subseteq Task /\ fired \subseteq waiting
  /\ timers \subseteq Task /\ recurs \subseteq timers /\ due \subseteq timers
  /\ orphans \subseteq Task
  /\ got \in [Thread -> SUBSET (Task \cup {None})] /\ cbs \in [Thread -> SUBSET Task]
  /\ next \in [Thread -> BOOLEAN]
  /\ {tickled, pipeReady} \subseteq BOOLEAN

IOInit ==
  /\ Init
  /\ pending = 0 /\ waiting = {} /\ fired = {} /\ timers = {} /\ recurs = {}
  /\ due = {} /\ orphans = {} /\ tickled = FALSE /\ pipeReady = FALSE
  /\ next = [t \in Thread |-> FALSE]
  /\ got = [t \in Thread |-> {}] /\ cbs = [t \in Thread |-> {}]

-----------------------------------------------------------------------------
(* Tasks *)

(* A coroutine is off every stack and in nobody's hands: only then is waking
   it safe.  Without EarlyWake nothing is delivered to it before. *)
Parked(c) == state[c] = "HOLD" /\ ~InHand(c) /\ ~Queued(c)
MayDeliver(c) == EarlyWake \/ Parked(c)

(* addTimer() between its critical section and its return. *)
GotoNotify(t) == Goto(t, "notify") /\ ret' = [ret EXCEPT ![t] = pc[t]]

Reserved(c) == c \in waiting \cup timers \cup UNION {cbs[t] : t \in Thread}

(* In this system early wake-ups come from events only. *)
IOSchedule(t, c) ==
  ~Reserved(c) /\ ~InHand(c) /\ Schedule(t, c) /\ UNCHANGED ioVars

(* A coroutine that has registered itself goes on to yield, even when its event
   has been triggered meanwhile. *)
MustYield(t) == hand[t] \in waiting \/ Queued(hand[t])

(* addEvent(fd, event): the running coroutine registers itself. *)
AddEvent(t) ==
  /\ At(t, "run")
  /\ ~MustYield(t)
  /\ pending' = pending + 1
  /\ waiting' = waiting \cup {hand[t]}
  /\ orphans' = IF idleDone[t] THEN orphans \cup {hand[t]} ELSE orphans \ {hand[t]}
  /\ UNCHANGED <<vars, fired, timers, recurs, due, tickled, pipeReady, next, got, cbs>>

(* Timer calls, by a task or by Master before stop(). *)
MayUseTimers(t) == At(t, "run") \/ At(t, "user")

(* Mutant of AddTimer: m_tickled is not set for a new first timer. *)
AddTimerUnmarked(t, f) ==
  /\ MayUseTimers(t)
  /\ state[f] = "INIT" /\ ~Queued(f) /\ ~InHand(f) /\ ~Reserved(f)
  /\ timers' = timers \cup {f}
  /\ recurs' \in {recurs} \cup (IF MayRecur THEN {recurs \cup {f}} ELSE {})
  /\ GotoNotify(t)
  /\ UNCHANGED <<queue, state, active, idle, flags, hand, idleDone, ticks, aborted>>
  /\ UNCHANGED <<pending, waiting, fired, due, tickled, pipeReady, next, got, cbs, orphans>>

(* TimerMng::addTimer(): insert under m_mutex, and note in m_tickled that the
   timer came first ... *)
AddTimer(t, f) ==
  /\ MayUseTimers(t)
  /\ state[f] = "INIT" /\ ~Queued(f) /\ ~InHand(f) /\ ~Reserved(f)
  /\ timers' = timers \cup {f}
  /\ recurs' \in {recurs} \cup (IF MayRecur THEN {recurs \cup {f}} ELSE {})
  /\ \E front \in IF timers = {} THEN {TRUE} ELSE BOOLEAN : tickled' = (tickled \/ front)
  /\ GotoNotify(t)
  /\ UNCHANGED <<queue, state, active, idle, flags, hand, idleDone, ticks, aborted>>
  /\ UNCHANGED <<pending, waiting, fired, due, pipeReady, next, got, cbs, orphans>>

(* ... then, after the unlock, onTimersInsertedAtFront() tickles when m_tickled
   is (still, or again) set. *)
NotifyTimer(t) ==
  /\ At(t, "notify")
  /\ Goto(t, IF tickled THEN "tickle" ELSE ret[t])
  /\ UNCHANGED <<queue, state, active, idle, flags, ret, hand, idleDone, ticks, aborted>>
  /\ UNCHANGED ioVars

(* Timer::cancelTimer() *)
CancelTimer(t, f) ==
  /\ MayUseTimers(t)
  /\ f \in timers
  /\ timers' = timers \ {f} /\ recurs' = recurs \ {f} /\ due' = due \ {f}
  /\ UNCHANGED <<vars, pending, waiting, fired, tickled, pipeReady, next, got, cbs, orphans>>

(* FdContext::triggerEvent(): take the coroutine out and schedule it. *)
Trigger(t, c, l) ==
  /\ waiting' = waiting \ {c}
  /\ fired' = fired \ {c}
  /\ ScheduleFrom(t, c, None, l)
  /\ UNCHANGED <<state, active, idle, flags, hand, idleDone, ticks, aborted>>

(* cancelEvent() by another coroutine (a timeout's callback, close()) or by the
   main thread: trigger it at once, then --m_pendingEventCount. *)
CancelEvent(t, c) ==
  /\ At(t, "run") \/ At(t, "user")
  /\ hand[t] # c
  /\ c \in waiting /\ MayDeliver(c)
  /\ Trigger(t, c, "cancelDone")
  /\ UNCHANGED <<pending, timers, recurs, due, tickled, pipeReady, next, got, cbs, orphans>>

AfterCancel(t) == IF hand[t] = None THEN "user" ELSE "run"

IOFinish(t) == ~MustYield(t) /\ Finish(t) /\ UNCHANGED ioVars
IOYield(t) == Yield(t) /\ UNCHANGED ioVars

-----------------------------------------------------------------------------
(* The kernel *)

Arrive(c) ==
  /\ ~aborted
  /\ c \in waiting \ fired /\ MayDeliver(c)
  /\ fired' = fired \cup {c}
  /\ UNCHANGED <<vars, pending, waiting, timers, recurs, due, tickled, pipeReady, next, got, cbs, orphans>>

(* The callback is nowhere: not yet queued, or run to its end. *)
Returned(f) ==
  state[f] \in {"INIT"} \cup Ended /\ ~Queued(f) /\ ~InHand(f) /\ \A t \in Thread : f \notin cbs[t]

Expire(f) ==
  /\ ~aborted
  /\ f \in timers \ due
  /\ f \in recurs => Returned(f)
  /\ due' = due \cup {f}
  /\ UNCHANGED <<vars, pending, waiting, fired, timers, recurs, tickled, pipeReady, next, got, cbs, orphans>>

-----------------------------------------------------------------------------
(* The overridden virtual functions *)

(* tickle(): nothing if no thread is idle, else one byte into the pipe. *)
IOTickle(t) ==
  /\ Tickle(t)
  /\ pipeReady' = (pipeReady \/ idle > 0)
  /\ UNCHANGED <<pending, waiting, fired, timers, recurs, due, tickled, next, got, cbs, orphans>>

(* stopping(nextTime) in the order it reads: getNextTime() ... *)
ReadNext(t, from, to) ==
  /\ At(t, from)
  /\ next' = [next EXCEPT ![t] = timers # {}]
  /\ tickled' = FALSE
  /\ Goto(t, to)
  /\ UNCHANGED <<queue, state, active, idle, flags, ret, hand, idleDone, ticks, aborted>>
  /\ UNCHANGED <<pending, waiting, fired, timers, recurs, due, pipeReady, got, cbs, orphans>>

(* Mutant of ReadPending: m_pendingEventCount is not asked for. *)
ReadPendingIgnored(t, from, to, busy) ==
  /\ At(t, from)
  /\ Goto(t, to)
  /\ UNCHANGED <<queue, state, active, idle, flags, ret, hand, idleDone, ticks, aborted>>
  /\ UNCHANGED ioVars

(* ... m_pendingEventCount ... *)
ReadPending(t, from, to, busy) ==
  /\ At(t, from)
  /\ Goto(t, IF pending = 0 THEN to ELSE busy)
  /\ UNCHANGED <<queue, state, active, idle, flags, ret, hand, idleDone, ticks, aborted>>
  /\ UNCHANGED ioVars

(* ... and Scheduler::stopping(). *)
IOStopping(t) == Stopping /\ ~next[t]

(* idle() ends when stopping(nextTime), else it waits. *)
IdleQueue(t) ==
  /\ At(t, "checkQueue")
  /\ idleDone' = [idleDone EXCEPT ![t] = IOStopping(t)]
  /\ Goto(t, IF IOStopping(t) THEN "idleBack" ELSE "epoll")
  /\ UNCHANGED <<queue, state, active, idle, flags, ret, hand, ticks, aborted>>
  /\ UNCHANGED ioVars

(* stop(): with a coroutine for it, Master asks stopping() before it joins the
   loop, else it goes on to wait for the threads ... *)
IOStopRun ==
  IF UseMaster THEN ReadNext(Master, "stopRun", "stopPending")
  ELSE StopRun(TRUE) /\ UNCHANGED ioVars

(* ... and joins it unless that says yes. *)
StopQueue ==
  /\ At(Master, "stopQueue")
  /\ Goto(Master, IF IOStopping(Master) THEN "join" ELSE "scan")
  /\ UNCHANGED <<queue, state, active, idle, flags, ret, hand, idleDone, ticks, aborted>>
  /\ UNCHANGED ioVars

(* Mutant of EpollReady: everything returned is taken for a wake-up. *)
EpollReadyDropsEvents(t) ==
  /\ At(t, "epoll")
  /\ pipeReady \/ fired # {}
  /\ fired' = {}
  /\ pipeReady' = FALSE
  /\ Goto(t, "timers")
  /\ UNCHANGED <<queue, state, active, idle, flags, ret, hand, idleDone, ticks, aborted>>
  /\ UNCHANGED <<pending, waiting, timers, recurs, due, tickled, next, got, cbs, orphans>>

(* epoll_wait() returns everything on the ready list; the list is emptied
   because every registration is edge-triggered. *)
EpollReady(t) ==
  /\ At(t, "epoll")
  /\ pipeReady \/ fired # {}
  /\ got' = [got EXCEPT ![t] = fired \cup (IF pipeReady THEN {None} ELSE {})]
  /\ fired' = {}
  /\ pipeReady' = FALSE
  /\ Goto(t, "timers")
  /\ UNCHANGED <<queue, state, active, idle, flags, ret, hand, idleDone, ticks, aborted>>
  /\ UNCHANGED <<pending, waiting, timers, recurs, due, tickled, next, cbs, orphans>>

(* ... or times out on an empty list, at the next timer or after MAX_TIMEOUT. *)
EpollTimeout(t) ==
  /\ At(t, "epoll")
  /\ ~pipeReady /\ fired = {}
  /\ Goto(t, "timers")
  /\ UNCHANGED <<queue, state, active, idle, flags, ret, hand, idleDone, ticks, aborted>>
  /\ UNCHANGED ioVars

(* getTriggerableCB(): take the due timers out and insert the recurring ones
   again. *)
TakeTimers(t) ==
  /\ At(t, "timers")
  /\ cbs' = [cbs EXCEPT ![t] = due]
  /\ timers' = timers \ (due \ recurs)
  /\ due' = {}
  /\ Goto(t, IF due = {} THEN "events" ELSE "pushCbs")
  /\ UNCHANGED <<queue, state, active, idle, flags, ret, hand, idleDone, ticks, aborted>>
  /\ UNCHANGED <<pending, waiting, fired, recurs, tickled, pipeReady, next, got, orphans>>

(* schedule(begin, end): all callbacks in one critical section.  run() makes a
   new coroutine for each. *)
PushCbs(t) ==
  /\ At(t, "pushCbs")
  /\ \E order \in SetToSeqs(cbs[t]) :
       queue' = queue \o [i \in DOMAIN order |-> [task |-> order[i], thread |-> None]]
  /\ IF queue = <<>> THEN GotoTickle(t, "events") ELSE Goto(t, "events") /\ UNCHANGED ret
  /\ cbs' = [cbs EXCEPT ![t] = {}]
  /\ state' = [c \in Task |-> IF c \in cbs[t] THEN "INIT" ELSE state[c]]
  /\ UNCHANGED <<active, idle, flags, hand, idleDone, ticks, aborted>>
  /\ UNCHANGED <<pending, waiting, fired, timers, recurs, due, tickled, pipeReady, next, got, orphans>>

(* Read the pipe empty: wake-ups sent since epoll_wait() returned go with it. *)
DrainPipe(t) ==
  /\ At(t, "events")
  /\ None \in got[t]
  /\ got' = [got EXCEPT ![t] = @ \ {None}]
  /\ pipeReady' = FALSE
  /\ UNCHANGED <<vars, pending, waiting, fired, timers, recurs, due, tickled, next, cbs, orphans>>

(* Dispatch one event: skip it when nobody is registered any more, else
   trigger it ... *)
DispatchStale(t, c) ==
  /\ At(t, "events")
  /\ c \in got[t] \ waiting
  /\ got' = [got EXCEPT ![t] = @ \ {c}]
  /\ UNCHANGED <<vars, pending, waiting, fired, timers, recurs, due, tickled, pipeReady, next, cbs, orphans>>

DispatchEvent(t, c) ==
  /\ At(t, "events")
  /\ c \in got[t] \cap waiting /\ MayDeliver(c)
  /\ got' = [got EXCEPT ![t] = @ \ {c}]
  /\ Trigger(t, c, "eventDone")
  /\ UNCHANGED <<pending, timers, recurs, due, tickled, pipeReady, next, cbs, orphans>>

(* Mutant of EventDone: the event is not counted off. *)
EventDoneStillCounted(t, from, to) ==
  /\ At(t, from)
  /\ Goto(t, to)
  /\ UNCHANGED <<queue, state, active, idle, flags, ret, hand, idleDone, ticks, aborted>>
  /\ UNCHANGED ioVars

(* ... and count it off. *)
EventDone(t, from, to) ==
  /\ At(t, from)
  /\ pending' = pending - 1
  /\ Goto(t, to)
  /\ UNCHANGED <<queue, state, active, idle, flags, ret, hand, idleDone, ticks, aborted>>
  /\ UNCHANGED <<waiting, fired, timers, recurs, due, tickled, pipeReady, next, got, cbs, orphans>>

(* YieldToHold() out of the idle coroutine. *)
IdleYield(t) ==
  /\ At(t, "events") /\ got[t] = {}
  /\ Goto(t, "idleBack")
  /\ UNCHANGED <<queue, state, active, idle, flags, ret, hand, idleDone, ticks, aborted>>
  /\ UNCHANGED ioVars

-----------------------------------------------------------------------------
IdleStep(t) ==
  \/ ReadNext(t, "idle", "checkPending")
  \/ ReadPending(t, "checkPending", "checkQueue", "epoll")
  \/ IdleQueue(t)
  \/ EpollReady(t) \/ EpollTimeout(t)
  \/ TakeTimers(t) \/ PushCbs(t) \/ DrainPipe(t)
  \/ \E c \in Task : DispatchStale(t, c) \/ DispatchEvent(t, c)
  \/ EventDone(t, "eventDone", "events")
  \/ IdleYield(t)

IOThreadStep(t) ==
  \/ LoopStep(t) /\ UNCHANGED ioVars
  \/ IOTickle(t) \/ NotifyTimer(t)
  \/ IdleStep(t)
  \/ EventDone(t, "cancelDone", AfterCancel(t))

IOTaskStep(t) ==
  \/ IOFinish(t) \/ IOYield(t)
  \/ \E c \in Task : IOSchedule(t, c) \/ AddTimer(t, c) \/ CancelTimer(t, c) \/ CancelEvent(t, c)
  \/ AddEvent(t)

IOMasterStep ==
  \/ MasterStep /\ UNCHANGED ioVars
  \/ IOStopRun
  \/ ReadPending(Master, "stopPending", "stopQueue", "scan")
  \/ StopQueue

IONext ==
  \/ \E t \in Thread : IOThreadStep(t) \/ IOTaskStep(t)
  \/ (Start \/ StopBegin) /\ UNCHANGED ioVars
  \/ IOMasterStep
  \/ \E c \in Task : Arrive(c) \/ Expire(c)
  \/ Over /\ UNCHANGED allVars

IOSpec == IOInit /\ [][IONext]_allVars

(* As in Scheduler; in addition a coroutine that has registered itself goes on
   to yield, and every registered event arrives and every timer expires in the
   end (do_io() arms a timer that cancels its event). *)
IOFairness ==
  /\ \A t \in Thread : WF_allVars(IOThreadStep(t))
  /\ WF_allVars(IOMasterStep)
  /\ \A c \in Task : SF_allVars(\E t \in Thread : hand[t] = c /\ IOFinish(t))
  /\ \A t \in Thread : WF_allVars(MustYield(t) /\ IOYield(t))
  /\ \A c \in Task : SF_allVars(Arrive(c)) /\ WF_allVars(Expire(c))

IOFairSpec == IOSpec /\ IOFairness

-----------------------------------------------------------------------------
(* Properties *)

(* m_pendingEventCount, which stopping() relies on, counts the registrations
   and those already taken out whose trigger is still being scheduled;
   m_idleThreadCount, which tickle() relies on, counts the threads inside their
   idle coroutine. *)
Settling(t) == \/ pc[t] \in {"eventDone", "cancelDone"}
               \/ pc[t] = "tickle" /\ ret[t] \in {"eventDone", "cancelDone"}
InIdle(t) == \/ pc[t] \in {"idle", "idleBack"} \cup IdlePc
             \/ pc[t] = "tickle" /\ ret[t] \in {"events", "eventDone"}
CountersExact ==
  /\ pending = Cardinality(waiting) + Cardinality({t \in Thread : Settling(t)})
  /\ idle = Cardinality({t \in Thread : InIdle(t)})

(* stopping() "adds the listened events" (IO scheduling notes): when the loop
   has ended on every thread, nobody is left waiting for an event. *)
NobodyLeftWaiting == LoopEnded => waiting = {}

(* The only coroutines that the end of the loop leaves waiting for an event are
   those that registered on a thread whose idle coroutine had ended: whatever
   timers, tasks and events turn into each other between the three reads of
   stopping(), whoever registers elsewhere has a thread that still sees it. *)
NoWaiterLeftBehind == LoopEnded => waiting \subseteq orphans

(* All threads of the loop sleep, and nothing is on its way to wake them. *)
Asleep == /\ \E t \in Thread : pc[t] = "epoll"
          /\ \A t \in Thread : pc[t] \in {"epoll", "off", "exited", "user", "join"}
          /\ ~pipeReady /\ fired = {}

(* schedule() "adds the task and wakes a thread": the threads are never all
   asleep, with nothing on its way to wake them, over a task they could run. *)
NoLostWakeup == Asleep => EligibleAt = {}

(* A timer is never overslept by everybody: when all threads are asleep, one
   of them knows of a timer and wakes up for it. *)
NoOversleep == Asleep /\ timers # {} => \E t \in Thread : pc[t] = "epoll" /\ next[t]

(* A coroutine that waits for IO is woken in the end, unless it is an orphan
   and the loop ends over it. *)
WaiterRuns ==
  \A c \in Task : c \in waiting ~> (c \notin waiting \/ (LoopEnded /\ c \in orphans))

(* Once stop() is called it returns, although threads sleep through
   epoll_wait() and events and timers are outstanding; only a recurring timer
   that nobody cancels keeps stopping() false. *)
IOStopReturns == autoStop ~> (Over \/ recurs # {})
=============================================================================
