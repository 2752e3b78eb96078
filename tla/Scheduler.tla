----------------------------- MODULE Scheduler -----------------------------
(***************************************************************************)
(* The N:M coroutine scheduler (src/src/Scheduler, src/src/Coroutine).      *)
(*                                                                         *)
(* Every thread of the pool runs Scheduler::run(): it takes the first       *)
(* eligible entry of m_coros under m_mutex, swaps into its coroutine, and,  *)
(* when the coroutine swaps back, queues it again or parks it; a thread     *)
(* that finds nothing enters its idle coroutine.  The thread that created   *)
(* the scheduler starts the pool, schedules tasks, and stops it; with       *)
(* useSche it also runs the loop, inside stop().                            *)
(*                                                                         *)
(* A task is a coroutine together with the code it runs; the wrapper that   *)
(* run() makes for a queued function is that function's coroutine.  One     *)
(* action is the code between two points where another thread can observe   *)
(* the shared state: a critical section of m_mutex, an access to a counter, *)
(* a coroutine's state or a context switch.  tickle(), idle() and           *)
(* stopping() are virtual: their base versions are here, IOManager has its  *)
(* own, and everything else is shared by the two.                           *)
(***************************************************************************)
EXTENDS Naturals, FiniteSets, SequencesExt

CONSTANTS
  Pool,          \* the threads that start() creates (m_tpool)
  Master,        \* the thread that constructs, starts and stops the scheduler
  UseMaster,     \* the constructor's useSche: Master runs the loop in stop()
  Task,          \* coroutines and functions handed to schedule()
  Pin,           \* Pin[c]: the thread argument c is first scheduled with
  None,          \* no thread (-1) or no task (an empty CorFType)
  EarlyWake,     \* may a coroutine be scheduled again before it has parked?
  LateResubmit,  \* may a finished coroutine be scheduled again by a task?
  MayYieldReady  \* do the tasks call YieldToReady?

Worker == IF UseMaster THEN Pool \cup {Master} ELSE Pool
Thread == Pool \cup {Master}
MasterTid == IF UseMaster THEN Master ELSE None   \* m_masterTid

ASSUME SchedulerAssumption ==
  /\ IsFiniteSet(Pool) /\ Master \notin Pool
  /\ None \notin Thread \cup Task
  /\ UseMaster \in BOOLEAN
  /\ Worker # {}                     \* GAIYA_ASSERT(size > 0)
  /\ Pin \in [Task -> Thread \cup {None}]
  /\ EarlyWake \in BOOLEAN /\ LateResubmit \in BOOLEAN /\ MayYieldReady \in BOOLEAN

State == {"INIT", "READY", "EXECU", "END", "HOLD", "EXCEPT"}
Ended == {"END", "EXCEPT"}
Entry == [task : Task, thread : Thread \cup {None}]

VARIABLES
  queue,     \* m_coros
  state,     \* Coroutine::m_state
  active,    \* m_activeThreadCount
  idle,      \* m_idleThreadCount
  autoStop,  \* m_autoStop
  stopping,  \* m_stopping
  pc,        \* where each thread is in run(), in a task, or in start()/stop()
  ret,       \* where tickle() returns to
  hand,      \* run()'s local corf (and the coroutine it swapped into)
  idleDone,  \* has this thread's idle coroutine reached END?
  ticks,     \* tickles stop() still has to send
  aborted    \* a GAIYA_ASSERT has failed: the process is gone

vars == <<queue, state, active, idle, autoStop, stopping, pc, ret, hand,
          idleDone, ticks, aborted>>
flags == <<autoStop, stopping>>

WorkerPc == {"scan", "tickle", "dispatch", "run", "swapOut", "back", "post",
             "idle", "idleBack"}
MasterPc == {"user", "stop", "stopTickle", "stopRun", "join", "done"}

TypeOK ==
  /\ queue \in Seq(Entry)
  /\ state \in [Task -> State]
  /\ active \in Nat /\ idle \in Nat /\ ticks \in Nat
  /\ autoStop \in BOOLEAN /\ stopping \in BOOLEAN /\ aborted \in BOOLEAN
  /\ pc \in [Thread -> WorkerPc \cup MasterPc \cup {"off", "exited"}]
  /\ ret \in [Thread -> {"dispatch", "run", "scan", "user", "stopTickle"}]
  /\ hand \in [Thread -> Task \cup {None}]
  /\ idleDone \in [Thread -> BOOLEAN]

-----------------------------------------------------------------------------
Init ==
  /\ queue = <<>>
  /\ state = [c \in Task |-> "INIT"]
  /\ active = 0 /\ idle = 0 /\ ticks = 0
  /\ autoStop = FALSE /\ stopping = TRUE
  /\ pc = [t \in Thread |-> IF t = Master THEN "user" ELSE "off"]
  /\ ret = [t \in Thread |-> "scan"]
  /\ hand = [t \in Thread |-> None]
  /\ idleDone = [t \in Thread |-> FALSE]
  /\ aborted = FALSE

(* The process is alive and thread t is at l. *)
At(t, l) == ~aborted /\ pc[t] = l

Goto(t, l) == pc' = [pc EXCEPT ![t] = l]

(* A call of the virtual tickle() that continues at l. *)
GotoTickle(t, l) == Goto(t, "tickle") /\ ret' = [ret EXCEPT ![t] = l]

Abort == aborted' = TRUE

(* Mutant of ScheduleFrom: schedule() accepts nothing once stop() was called. *)
ScheduleFromUntilStop(t, c, p, l) ==
  /\ queue' = IF autoStop THEN queue ELSE Append(queue, [task |-> c, thread |-> p])
  /\ IF queue = <<>> THEN GotoTickle(t, l) ELSE Goto(t, l) /\ UNCHANGED ret

(***************************************************************************)
(* schedule(): append the entry under m_mutex; the caller tickles, after    *)
(* the unlock, exactly when the queue was empty.                            *)
(***************************************************************************)
ScheduleFrom(t, c, p, l) ==
  /\ queue' = Append(queue, [task |-> c, thread |-> p])
  /\ IF queue = <<>> THEN GotoTickle(t, l) ELSE Goto(t, l) /\ UNCHANGED ret

Queued(c) == \E i \in DOMAIN queue : queue[i].task = c
InHand(c) == \E t \in Thread : hand[t] = c

(* When client code may hand c to schedule(): a coroutine nobody handles that
   is new or parked, or, if t may, already finished.  With EarlyWake also one
   that still runs or is just yielding: do_io() registers the coroutine with
   epoll before it calls YieldToHold(). *)
MaySchedule(t, c) ==
  \/ ~Queued(c) /\ ~InHand(c) /\ state[c] \in {"INIT", "HOLD"}
  \/ ~Queued(c) /\ ~InHand(c) /\ state[c] \in Ended
     /\ (LateResubmit \/ pc[t] = "user")
  \/ EarlyWake /\ ~Queued(c) /\ state[c] \in {"EXECU", "HOLD"}
     /\ \A u \in Thread : hand[u] = c => pc[u] \in {"run", "swapOut", "back", "post"}

PinOf(c) == IF state[c] = "INIT" THEN Pin[c] ELSE None

(* A task, or Master before stop(), schedules c. *)
Schedule(t, c) ==
  /\ At(t, "run") \/ At(t, "user")
  /\ MaySchedule(t, c)
  /\ ScheduleFrom(t, c, PinOf(c), pc[t])
  /\ UNCHANGED <<state, active, idle, flags, hand, idleDone, ticks, aborted>>

-----------------------------------------------------------------------------
(* Scheduler::run() *)

IgnoredPin(e) == e.thread # None /\ e.thread = MasterTid
Eligible(e) == ~IgnoredPin(e) /\ state[e.task] # "EXECU"
EligibleAt == {i \in DOMAIN queue : Eligible(queue[i])}

(* Mutant of ScanTake: the entry is not erased. *)
ScanTakeKeep(t) ==
  /\ At(t, "scan")
  /\ \E i \in EligibleAt :
       /\ \A j \in EligibleAt : i <= j
       /\ hand' = [hand EXCEPT ![t] = queue[i].task]
  /\ Goto(t, "dispatch")
  /\ active' = active + 1
  /\ UNCHANGED <<queue, state, idle, flags, ret, idleDone, ticks, aborted>>

(* The critical section finds an entry: erase it and count the thread as
   active.  tickle_me: an entry was skipped for its pin, or more remain. *)
ScanTake(t) ==
  /\ At(t, "scan")
  /\ \E i \in EligibleAt :
       /\ \A j \in EligibleAt : i <= j
       /\ queue' = RemoveAt(queue, i)
       /\ hand' = [hand EXCEPT ![t] = queue[i].task]
       /\ IF i < Len(queue) \/ \E j \in 1..(i - 1) : IgnoredPin(queue[j])
          THEN GotoTickle(t, "dispatch")
          ELSE Goto(t, "dispatch") /\ UNCHANGED ret
  /\ active' = active + 1
  /\ UNCHANGED <<state, idle, flags, idleDone, ticks, aborted>>

(* The critical section finds nothing to take. *)
ScanNothing(t) ==
  /\ At(t, "scan")
  /\ EligibleAt = {}
  /\ IF \E j \in DOMAIN queue : IgnoredPin(queue[j])
     THEN GotoTickle(t, "dispatch")
     ELSE Goto(t, "dispatch") /\ UNCHANGED ret
  /\ UNCHANGED <<queue, state, active, idle, flags, hand, idleDone, ticks, aborted>>

(* Coroutine::swapIn(), with its assertion. *)
SwapIn(t) ==
  /\ At(t, "dispatch")
  /\ hand[t] # None /\ state[hand[t]] \notin Ended
  /\ IF state[hand[t]] = "EXECU"
     THEN Abort /\ UNCHANGED <<state, pc>>
     ELSE /\ state' = [state EXCEPT ![hand[t]] = "EXECU"]
          /\ Goto(t, "run")
          /\ UNCHANGED aborted
  /\ UNCHANGED <<queue, active, idle, flags, ret, hand, idleDone, ticks>>

(* Mutants of GoIdle: the thread is counted off although it took no entry, or
   not counted off for the finished coroutine it took. *)
GoIdleCountedOff(t) ==
  /\ At(t, "dispatch")
  /\ hand[t] # None => state[hand[t]] \in Ended
  /\ active' = active - 1
  /\ hand' = [hand EXCEPT ![t] = None]
  /\ IF idleDone[t]
     THEN Goto(t, IF t = Master THEN "join" ELSE "exited") /\ UNCHANGED idle
     ELSE Goto(t, "idle") /\ idle' = idle + 1
  /\ UNCHANGED <<queue, state, flags, ret, idleDone, ticks, aborted>>

GoIdleStillCounted(t) ==
  /\ At(t, "dispatch")
  /\ hand[t] # None => state[hand[t]] \in Ended
  /\ hand' = [hand EXCEPT ![t] = None]
  /\ IF idleDone[t]
     THEN Goto(t, IF t = Master THEN "join" ELSE "exited") /\ UNCHANGED idle
     ELSE Goto(t, "idle") /\ idle' = idle + 1
  /\ UNCHANGED <<queue, state, active, flags, ret, idleDone, ticks, aborted>>

(* The else branch, for no entry or a finished coroutine: leave run() when the
   idle coroutine has ended, else swap into it. *)
GoIdle(t) ==
  /\ At(t, "dispatch")
  /\ hand[t] # None => state[hand[t]] \in Ended
  /\ active' = IF hand[t] = None THEN active ELSE active - 1
  /\ hand' = [hand EXCEPT ![t] = None]
  /\ IF idleDone[t]
     THEN Goto(t, IF t = Master THEN "join" ELSE "exited") /\ UNCHANGED idle
     ELSE Goto(t, "idle") /\ idle' = idle + 1
  /\ UNCHANGED <<queue, state, flags, ret, idleDone, ticks, aborted>>

(* Mutant of Back: the thread stays counted as active. *)
BackStillCounted(t) ==
  /\ At(t, "back")
  /\ Goto(t, "post")
  /\ UNCHANGED <<queue, state, active, idle, flags, ret, hand, idleDone, ticks, aborted>>

(* Back from swapIn(): --m_activeThreadCount. *)
Back(t) ==
  /\ At(t, "back")
  /\ active' = active - 1
  /\ Goto(t, "post")
  /\ UNCHANGED <<queue, state, idle, flags, ret, hand, idleDone, ticks, aborted>>

(* run() looks at the state the coroutine came back with. *)
PostReady(t) ==
  /\ At(t, "post")
  /\ state[hand[t]] = "READY"
  /\ ScheduleFrom(t, hand[t], None, "scan")
  /\ hand' = [hand EXCEPT ![t] = None]
  /\ UNCHANGED <<state, active, idle, flags, idleDone, ticks, aborted>>

(* Mutant of PostOther: a finished coroutine is parked as well. *)
PostOtherParksAll(t) ==
  /\ At(t, "post")
  /\ state[hand[t]] # "READY"
  /\ state' = [state EXCEPT ![hand[t]] = "HOLD"]
  /\ hand' = [hand EXCEPT ![t] = None]
  /\ Goto(t, "scan")
  /\ UNCHANGED <<queue, active, idle, flags, ret, idleDone, ticks, aborted>>

PostOther(t) ==
  /\ At(t, "post")
  /\ state[hand[t]] # "READY"
  /\ state' = IF state[hand[t]] \in Ended THEN state
              ELSE [state EXCEPT ![hand[t]] = "HOLD"]
  /\ hand' = [hand EXCEPT ![t] = None]
  /\ Goto(t, "scan")
  /\ UNCHANGED <<queue, active, idle, flags, ret, idleDone, ticks, aborted>>

(* Mutant of IdleBack: the thread stays counted as idle. *)
IdleBackStillCounted(t) ==
  /\ At(t, "idleBack")
  /\ Goto(t, "scan")
  /\ UNCHANGED <<queue, state, active, idle, flags, ret, hand, idleDone, ticks, aborted>>

(* Back from the idle coroutine: --m_idleThreadCount. *)
IdleBack(t) ==
  /\ At(t, "idleBack")
  /\ idle' = idle - 1
  /\ Goto(t, "scan")
  /\ UNCHANGED <<queue, state, active, flags, ret, hand, idleDone, ticks, aborted>>

-----------------------------------------------------------------------------
(* What the running coroutine does. *)

(* toMasterFunc(): the function returned (END) or threw (EXCEPT). *)
Finish(t) ==
  /\ At(t, "run")
  /\ \E s \in Ended : state' = [state EXCEPT ![hand[t]] = s]
  /\ Goto(t, "back")
  /\ UNCHANGED <<queue, active, idle, flags, ret, hand, idleDone, ticks, aborted>>

(* YieldToReady() and YieldToHold() publish the new state first ... *)
Yield(t) ==
  /\ At(t, "run")
  /\ IF state[hand[t]] # "EXECU"
     THEN Abort /\ UNCHANGED <<state, pc>>
     ELSE /\ \E s \in {"HOLD"} \cup (IF MayYieldReady THEN {"READY"} ELSE {}) :
               state' = [state EXCEPT ![hand[t]] = s]
          /\ Goto(t, "swapOut")
          /\ UNCHANGED aborted
  /\ UNCHANGED <<queue, active, idle, flags, ret, hand, idleDone, ticks>>

(* ... and only then does swapcontext() save the context and leave the stack. *)
SwapOut(t) ==
  /\ At(t, "swapOut")
  /\ Goto(t, "back")
  /\ UNCHANGED <<queue, state, active, idle, flags, ret, hand, idleDone, ticks, aborted>>

-----------------------------------------------------------------------------
(* Scheduler::start() and stop(), called by Master. *)

(* Mutant of Start: one thread too few is created. *)
StartOneLess ==
  /\ At(Master, "user")
  /\ stopping
  /\ stopping' = FALSE
  /\ pc' = [t \in Thread |-> IF t \in Pool \ {CHOOSE w \in Pool : TRUE} THEN "scan" ELSE pc[t]]
  /\ UNCHANGED <<queue, state, active, idle, autoStop, ret, hand, idleDone, ticks, aborted>>

Start ==
  /\ At(Master, "user")
  /\ stopping                        \* else start() returns at once
  /\ stopping' = FALSE
  /\ pc' = [t \in Thread |-> IF t \in Pool THEN "scan" ELSE pc[t]]
  /\ UNCHANGED <<queue, state, active, idle, autoStop, ret, hand, idleDone, ticks, aborted>>

(* stop() is called on a started scheduler. *)
StopBegin ==
  /\ At(Master, "user")
  /\ ~stopping
  /\ autoStop' = TRUE
  /\ Goto(Master, "stop")
  /\ UNCHANGED <<queue, state, active, idle, stopping, ret, hand, idleDone, ticks, aborted>>

StopFlag ==
  /\ At(Master, "stop")
  /\ stopping' = TRUE
  /\ ticks' = Cardinality(Pool)
  /\ Goto(Master, "stopTickle")
  /\ UNCHANGED <<queue, state, active, idle, autoStop, ret, hand, idleDone, aborted>>

StopTickle ==
  /\ At(Master, "stopTickle")
  /\ IF ticks > 0
     THEN ticks' = ticks - 1 /\ GotoTickle(Master, "stopTickle")
     ELSE Goto(Master, "stopRun") /\ UNCHANGED <<ticks, ret>>
  /\ UNCHANGED <<queue, state, active, idle, flags, hand, idleDone, aborted>>

(* m_masterCoro->call(), unless the scheduler is already drained. *)
StopRun(drained) ==
  /\ At(Master, "stopRun")
  /\ Goto(Master, IF UseMaster /\ ~drained THEN "scan" ELSE "join")
  /\ UNCHANGED <<queue, state, active, idle, flags, ret, hand, idleDone, ticks, aborted>>

Join ==
  /\ At(Master, "join")
  /\ \A t \in Pool : pc[t] = "exited"
  /\ Goto(Master, "done")
  /\ UNCHANGED <<queue, state, active, idle, flags, ret, hand, idleDone, ticks, aborted>>

-----------------------------------------------------------------------------
(* The base class's virtual functions. *)

(* Scheduler::stopping() *)
Stopping == autoStop /\ stopping /\ queue = <<>> /\ active = 0

(* Scheduler::tickle() only logs. *)
Tickle(t) ==
  /\ At(t, "tickle")
  /\ Goto(t, ret[t])
  /\ UNCHANGED <<queue, state, active, idle, flags, ret, hand, idleDone, ticks, aborted>>

(* Scheduler::idle(): yield until stopping(), then end. *)
Idle(t) ==
  /\ At(t, "idle")
  /\ idleDone' = [idleDone EXCEPT ![t] = Stopping]
  /\ Goto(t, "idleBack")
  /\ UNCHANGED <<queue, state, active, idle, flags, ret, hand, ticks, aborted>>

-----------------------------------------------------------------------------
(* The part of the loop that no subclass overrides. *)
LoopStep(t) ==
  \/ ScanTake(t) \/ ScanNothing(t)
  \/ SwapIn(t) \/ GoIdle(t)
  \/ Back(t) \/ PostReady(t) \/ PostOther(t)
  \/ IdleBack(t)
  \/ SwapOut(t)

TaskStep(t) == Finish(t) \/ Yield(t) \/ \E c \in Task : Schedule(t, c)

MasterStep == StopFlag \/ StopTickle \/ Join

(* The process has ended, one way or the other. *)
Over == aborted \/ pc[Master] = "done"
Terminated == Over /\ UNCHANGED vars

ThreadStep(t) == LoopStep(t) \/ Tickle(t) \/ Idle(t)

Next ==
  \/ \E t \in Thread : ThreadStep(t) \/ TaskStep(t)
  \/ Start \/ StopBegin
  \/ MasterStep \/ StopRun(Stopping)
  \/ Terminated

Spec == Init /\ [][Next]_vars

(***************************************************************************)
(* Fairness: the operating system runs every thread that can run, and a     *)
(* task that gets to run again and again eventually returns.  Master is     *)
(* not obliged to start or to stop anything, nor a task to throw, to yield  *)
(* or to schedule.                                                          *)
(***************************************************************************)
Fairness ==
  /\ \A t \in Thread : WF_vars(ThreadStep(t))
  /\ WF_vars(MasterStep \/ StopRun(Stopping))
  /\ \A c \in Task : SF_vars(\E t \in Thread : hand[t] = c /\ Finish(t))

FairSpec == Spec /\ Fairness

-----------------------------------------------------------------------------
(* Properties *)

OnStack(t, c) ==
  /\ hand[t] = c
  /\ pc[t] \in {"run", "swapOut"} \/ (pc[t] = "tickle" /\ ret[t] = "run")

(* A coroutine has one stack: no two threads may ever be on it, although
   run() lets any thread take any entry and m_state is not protected. *)
OneRunner ==
  \A c \in Task : \A t, u \in Thread : OnStack(t, c) /\ OnStack(u, c) => t = u

(* swapIn() and the yields assert the coroutine's state; none may fail. *)
NoAbort == ~aborted

(* m_activeThreadCount is exactly the number of threads between taking an
   entry and coming back from it, wherever they are: stopping() relies on it. *)
ActiveExact ==
  active = Cardinality({t \in Thread : hand[t] # None /\ pc[t] # "post"})

LoopEnded == /\ \A t \in Pool : pc[t] = "exited"
             /\ pc[Master] \in {"join", "done"}

(* When the loop has ended on every thread nothing is left in the queue, and
   no task is still to be continued: the last thread out has looked again
   after its idle coroutine ended. *)
NoAbandonedWork ==
  LoopEnded => queue = <<>> /\ \A c \in Task : state[c] \notin {"READY", "EXECU"}

(* Once stop() is called it returns: every thread finds the scheduler drained
   and leaves, whatever the tasks were doing. *)
StopReturns == pc[Master] = "stop" ~> Over

Started == autoStop \/ ~stopping

(* The task's place in the abstract pool.  A task that is queued, or taken but
   not swapped into yet, waits. *)
ToBeRun(c) ==
  Queued(c) \/ \E t \in Thread : hand[t] = c /\ (pc[t] = "dispatch" \/ (pc[t] = "tickle" /\ ret[t] = "dispatch"))

Status(c) ==
  CASE state[c] = "EXECU" -> "running"
    [] state[c] \in Ended -> "done"
    [] state[c] = "READY" -> "waiting"
    [] state[c] \in {"INIT", "HOLD"} /\ ToBeRun(c) -> "waiting"
    [] state[c] = "INIT" /\ ~ToBeRun(c) -> "new"
    [] state[c] = "HOLD" /\ ~ToBeRun(c) -> "parked"

TP == INSTANCE TaskPool WITH
        status <- [c \in Task |-> Status(c)],
        phase <- IF ~Started THEN "created" ELSE IF LoopEnded THEN "closed" ELSE "open"

(* The threads, the shared queue and the counters together implement the
   abstract pool: nothing is run twice for one schedule(), dropped, revived
   after its end, or left behind when the loop has ended on every thread. *)
ImplementsTaskPool == TP!Spec

(* Whatever is handed to a started scheduler gets its turn, a requeued
   coroutine as much as a new one. *)
EveryTaskServed == TP!Served

(* The comment on stop() (schedule.hpp): the idle coroutine is closed only when
   no thread is active and no task is queued, that is, when no task is still
   on its way through run(). *)
ClosesWhenDrained ==
  [][\A t \in Thread : idleDone[t]' /\ ~idleDone[t] =>
       \A c \in Task : state[c] # "READY"]_vars

(* The comment on CorFType::m_threadId: an entry pinned to a thread is taken
   by that thread. *)
PinRespected ==
  [][\A t \in Thread : \A i \in DOMAIN queue :
       ScanTake(t) /\ hand'[t] = queue[i].task => queue[i].thread \in {None, t}]_vars
=============================================================================
