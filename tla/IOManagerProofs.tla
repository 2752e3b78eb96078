-------------------------- MODULE IOManagerProofs --------------------------
(***************************************************************************)
(* Proofs about Scheduler, for every pool of threads and every set of       *)
(* tasks, and about IOManager, which extends it, with wake-ups at any time. *)
(* The first three parts are about Scheduler alone, the last is about       *)
(* IOManager and rests on their lemmas.                                    *)
(*                                                                         *)
(* Types, counters, owners.  TypeCore and Control say where a thread can    *)
(* be and what it then has in hand; with them the counters are shown exact  *)
(* (Counted).  Owned, which needs clients that schedule a coroutine only    *)
(* when it has parked, gives each task one owner: a queue entry, a thread,  *)
(* or nobody.                                                              *)
(*                                                                         *)
(* The end of the loop.  When every thread has left Scheduler::run(),       *)
(* m_coros is empty and no coroutine still has to be continued.  An idle    *)
(* coroutine ends only when stopping() sees an empty queue and no active    *)
(* thread, yet a thread that is past its counter decrement may still queue  *)
(* a yielded coroutine again.  That thread is itself not committed to       *)
(* leave, so as long as the queue holds something some thread of the loop   *)
(* will look at it again.                                                  *)
(*                                                                         *)
(* The refinement of TaskPool.  Place is a task's status in the abstract    *)
(* pool; each action moves one task along the arrows of TaskPool, opens or  *)
(* closes the pool, or is a stutter.                                       *)
(*                                                                         *)
(* IOManager.  The two counters are exact (CountersExact), no timer is      *)
(* overslept by all threads (NoOversleep), and when the loop has ended the  *)
(* only waiters left behind are those that registered on a thread past its  *)
(* idle coroutine (NoWaiterLeftBehind), however many threads there are.     *)
(***************************************************************************)
EXTENDS IOManager, FiniteSetTheorems, SequenceTheorems, TLAPS

(* Where a thread is, or, inside tickle(), where it returns to. *)
Where(t) == IF pc[t] = "tickle" THEN ret[t] ELSE pc[t]

(* TypeOK but for the counters. *)
TypeCore ==
  /\ queue \in Seq(Entry)
  /\ state \in [Task -> State]
  /\ ticks \in Nat
  /\ autoStop \in BOOLEAN /\ stopping \in BOOLEAN /\ aborted \in BOOLEAN
  /\ pc \in [Thread -> WorkerPc \cup MasterPc \cup {"off", "exited"}]
  /\ ret \in [Thread -> {"dispatch", "run", "scan", "user", "stopTickle"}]
  /\ hand \in [Thread -> Task \cup {None}]
  /\ idleDone \in [Thread -> BOOLEAN]

(* Which threads hold a task, and who can be where. *)
Control ==
  /\ \A t \in Thread : Where(t) \in {"run", "swapOut", "back", "post"} => hand[t] # None
  /\ \A t \in Thread : Where(t) \notin {"dispatch", "run", "swapOut", "back", "post"} => hand[t] = None
  /\ \A t \in Pool : Where(t) \in WorkerPc \cup {"off", "exited"}
  /\ Where(Master) \in WorkerPc \cup MasterPc
  /\ ~UseMaster => Where(Master) \in MasterPc
  /\ autoStop <=> Where(Master) # "user"
  /\ stopping /\ Where(Master) = "user" => \A t \in Pool : pc[t] = "off"

(* Erasing entry i closes the gap and keeps everything else in order. *)
LEMMA RemoveAtFacts ==
  ASSUME NEW S, NEW q \in Seq(S), NEW i \in 1..Len(q)
  PROVE  /\ RemoveAt(q, i) \in Seq(S)
         /\ Len(RemoveAt(q, i)) = Len(q) - 1
         /\ \A j \in 1..(Len(q) - 1) : RemoveAt(q, i)[j] = IF j < i THEN q[j] ELSE q[j + 1]
<1> DEFINE u == SubSeq(q, 1, i - 1)
           v == SubSeq(q, i + 1, Len(q))
<1>1. u \in Seq(S) /\ Len(u) = i - 1 /\ \A j \in 1..(i - 1) : u[j] = q[j]
  OBVIOUS
<1>2. v \in Seq(S) /\ Len(v) = Len(q) - i /\ \A j \in 1..(Len(q) - i) : v[j] = q[i + j]
  OBVIOUS
<1> HIDE DEF u, v
<1>3. /\ u \o v \in Seq(S) /\ Len(u \o v) = Len(u) + Len(v)
      /\ \A j \in 1..(Len(u) + Len(v)) :
           (u \o v)[j] = IF j <= Len(u) THEN u[j] ELSE v[j - Len(u)]
  BY <1>1, <1>2, ConcatProperties
<1>4. ASSUME NEW j \in 1..(Len(q) - 1)
      PROVE  (u \o v)[j] = IF j < i THEN q[j] ELSE q[j + 1]
  BY <1>1, <1>2, <1>3
<1>5. RemoveAt(q, i) = u \o v
  BY DEF RemoveAt, u, v
<1> QED  BY <1>1, <1>2, <1>3, <1>4, <1>5

(* What is queued is an entry, and its coroutine is a task. *)
LEMMA EntryFacts ==
  ASSUME TypeCore, NEW i \in DOMAIN queue
  PROVE  queue[i] \in Entry /\ queue[i].task \in Task
<1>1. queue[i] \in Entry
  BY DEF TypeCore
<1>2. ASSUME NEW e \in Entry
      PROVE  e.task \in Task
  BY DEF Entry
<1> QED  BY <1>1, <1>2

(* schedule() appends an entry. *)
LEMMA AppendFacts ==
  ASSUME NEW q \in Seq(Entry), NEW c \in Task, NEW p \in Thread \cup {None}
  PROVE  Append(q, [task |-> c, thread |-> p]) \in Seq(Entry)
<1> DEFINE e == [task |-> c, thread |-> p]
<1>1. e \in Entry
  BY DEF Entry
<1> HIDE DEF e
<1>2. Append(q, e) \in Seq(Entry)
  BY <1>1, AppendProperties
<1> QED  BY <1>2 DEF e

(* No task has two entries in q. *)
Distinct(q) == \A i, j \in DOMAIN q : q[i].task = q[j].task => i = j

(* Erasing an entry leaves the others, and no new duplicate. *)
LEMMA RemoveEntry ==
  ASSUME NEW q \in Seq(Entry), NEW i \in DOMAIN q
  PROVE  /\ \A j \in DOMAIN RemoveAt(q, i) : \E k \in DOMAIN q : k # i /\ RemoveAt(q, i)[j] = q[k]
         /\ \A k \in DOMAIN q : k # i => \E j \in DOMAIN RemoveAt(q, i) : RemoveAt(q, i)[j] = q[k]
         /\ Distinct(q) => Distinct(RemoveAt(q, i))
<1> DEFINE r == RemoveAt(q, i)
<1>1. /\ r \in Seq(Entry) /\ Len(r) = Len(q) - 1
      /\ \A j \in 1..(Len(q) - 1) : r[j] = IF j < i THEN q[j] ELSE q[j + 1]
  <2>1. i \in 1..Len(q)
    OBVIOUS
  <2> QED  BY <2>1, RemoveAtFacts
<1> HIDE DEF r
<1>2. \A j \in DOMAIN r : \E k \in DOMAIN q : k # i /\ r[j] = q[k]
  BY <1>1
<1>3. ASSUME Distinct(q), NEW j \in DOMAIN r, NEW k \in DOMAIN r, r[j].task = r[k].task
      PROVE  j = k
  <2>1. j \in 1..(Len(q) - 1) /\ k \in 1..(Len(q) - 1)
    BY <1>1
  <2> DEFINE m(n) == IF n < i THEN n ELSE n + 1
  <2>2. m(j) \in DOMAIN q /\ m(k) \in DOMAIN q /\ r[j] = q[m(j)] /\ r[k] = q[m(k)]
    BY <1>1, <2>1
  <2>3. m(j) = m(k)
    BY <1>3, <2>2 DEF Distinct
  <2> QED  BY <2>1, <2>3
<1>4. ASSUME NEW k \in DOMAIN q, k # i
      PROVE  \E j \in DOMAIN r : r[j] = q[k]
  <2> DEFINE n == IF k < i THEN k ELSE k - 1
  <2>1. n \in DOMAIN r /\ r[n] = q[k]
    BY <1>1, <1>4
  <2> QED  BY <2>1
<1> QED  BY <1>2, <1>3, <1>4 DEF Distinct, r

(* Appending an entry keeps the others, and makes no duplicate of a task
   that has none. *)
LEMMA AppendEntry ==
  ASSUME NEW q \in Seq(Entry), NEW e \in Entry
  PROVE  /\ \A j \in DOMAIN Append(q, e) : Append(q, e)[j] = e \/ \E k \in DOMAIN q : Append(q, e)[j] = q[k]
         /\ \A k \in DOMAIN q : k \in DOMAIN Append(q, e) /\ Append(q, e)[k] = q[k]
         /\ \E j \in DOMAIN Append(q, e) : Append(q, e)[j] = e
         /\ Distinct(q) /\ (\A k \in DOMAIN q : q[k].task # e.task) => Distinct(Append(q, e))
<1> DEFINE r == Append(q, e)
<1>1. /\ r \in Seq(Entry) /\ Len(r) = Len(q) + 1
      /\ \A j \in 1..Len(q) : r[j] = q[j]
      /\ r[Len(q) + 1] = e
  BY AppendProperties
<1> HIDE DEF r
<1>2. Len(q) \in Nat /\ DOMAIN q = 1..Len(q) /\ DOMAIN r = 1..(Len(q) + 1)
  BY <1>1
<1>3. \A j \in DOMAIN r : j \in DOMAIN q \/ j = Len(q) + 1
  BY <1>2
<1> QED  BY <1>1, <1>2, <1>3 DEF r, Distinct

(* Every step of run(), of a task and of stop() keeps the types. *)
LEMMA CoreStep ==
  ASSUME TypeCore, Control, [Next]_vars
  PROVE  TypeCore'
<1> USE SchedulerAssumption DEF TypeCore, Control, Where, Thread, WorkerPc, MasterPc, At, Goto, GotoTickle, flags
<1>1. ASSUME NEW t \in Thread, ScanTake(t)
      PROVE  TypeCore'
  <2>1. PICK i \in DOMAIN queue :
          /\ queue' = RemoveAt(queue, i)
          /\ hand' = [hand EXCEPT ![t] = queue[i].task]
          /\ \/ GotoTickle(t, "dispatch")
             \/ Goto(t, "dispatch") /\ UNCHANGED ret
    BY <1>1 DEF ScanTake, EligibleAt
  <2>2. queue[i].task \in Task
    BY EntryFacts
  <2>3. queue' \in Seq(Entry)
    BY <2>1, RemoveAtFacts
  <2>4. hand' \in [Thread -> Task \cup {None}]
    BY <2>1, <2>2
  <2>5. pc' \in [Thread -> WorkerPc \cup MasterPc \cup {"off", "exited"}]
    BY <2>1, SMTT(30)
  <2>6. ret' \in [Thread -> {"dispatch", "run", "scan", "user", "stopTickle"}]
    BY <2>1, SMTT(30)
  <2> QED  BY <1>1, <2>3, <2>4, <2>5, <2>6 DEF ScanTake
<1>2. ASSUME NEW t \in Thread, ScanNothing(t)
      PROVE  TypeCore'
  BY <1>2 DEF ScanNothing
<1>3. ASSUME NEW t \in Thread, SwapIn(t)
      PROVE  TypeCore'
  <2>1. hand[t] \in Task
    BY <1>3 DEF SwapIn
  <2>2. state' \in [Task -> State]
    BY <1>3, <2>1 DEF SwapIn, State
  <2>3. aborted' \in BOOLEAN
    BY <1>3 DEF SwapIn, Abort
  <2> QED  BY <1>3, <2>2, <2>3 DEF SwapIn
<1>4. ASSUME NEW t \in Thread, GoIdle(t)
      PROVE  TypeCore'
  BY <1>4 DEF GoIdle
<1>5. ASSUME NEW t \in Thread, Back(t)
      PROVE  TypeCore'
  BY <1>5 DEF Back
<1>6. ASSUME NEW t \in Thread, PostReady(t)
      PROVE  TypeCore'
  BY <1>6, AppendFacts DEF PostReady, ScheduleFrom
<1>7. ASSUME NEW t \in Thread, PostOther(t)
      PROVE  TypeCore'
  BY <1>7 DEF PostOther, State
<1>8. ASSUME NEW t \in Thread, IdleBack(t)
      PROVE  TypeCore'
  BY <1>8 DEF IdleBack
<1>9. ASSUME NEW t \in Thread, SwapOut(t)
      PROVE  TypeCore'
  BY <1>9 DEF SwapOut
<1>10. ASSUME NEW t \in Thread, Tickle(t)
      PROVE  TypeCore'
  BY <1>10 DEF Tickle
<1>11. ASSUME NEW t \in Thread, Idle(t)
      PROVE  TypeCore'
  BY <1>11 DEF Idle, Stopping
<1>12. ASSUME NEW t \in Thread, Finish(t)
      PROVE  TypeCore'
  BY <1>12 DEF Finish, Ended, State
<1>13. ASSUME NEW t \in Thread, Yield(t)
      PROVE  TypeCore'
  <2>1. hand[t] \in Task
    BY <1>13 DEF Yield
  <2>2. state' \in [Task -> State]
    BY <1>13, <2>1 DEF Yield, State
  <2>3. aborted' \in BOOLEAN
    BY <1>13 DEF Yield, Abort
  <2> QED  BY <1>13, <2>2, <2>3 DEF Yield
<1>14. ASSUME NEW t \in Thread, NEW c \in Task, Schedule(t, c)
      PROVE  TypeCore'
  BY <1>14, AppendFacts DEF Schedule, ScheduleFrom, PinOf
<1>15. CASE Start
  BY <1>15 DEF Start
<1>16. CASE StopBegin
  BY <1>16 DEF StopBegin
<1>17. CASE StopFlag
  BY <1>17, FS_CardinalityType DEF StopFlag
<1>18. CASE StopTickle
  BY <1>18 DEF StopTickle
<1>19. CASE StopRun(Stopping)
  BY <1>19 DEF StopRun
<1>20. CASE Join
  BY <1>20 DEF Join
<1>21. CASE UNCHANGED vars
  BY <1>21 DEF vars
<1> QED
  BY <1>1, <1>2, <1>3, <1>4, <1>5, <1>6, <1>7, <1>8, <1>9, <1>10, <1>11, <1>12, <1>13, <1>14, <1>15, <1>16, <1>17, <1>18, <1>19, <1>20, <1>21
     DEF Next, ThreadStep, LoopStep, TaskStep, MasterStep, Terminated

(* Every step keeps what a place in run() says about the task in hand. *)
LEMMA ControlStep ==
  ASSUME TypeCore, Control, [Next]_vars
  PROVE  Control'
<1> USE SchedulerAssumption DEF TypeCore, Control, Where, Thread, WorkerPc, MasterPc, At, Goto, GotoTickle, flags
<1>1. ASSUME NEW t \in Thread, ScanTake(t)
      PROVE  Control'
  <2>1. PICK i \in DOMAIN queue :
          /\ queue' = RemoveAt(queue, i)
          /\ hand' = [hand EXCEPT ![t] = queue[i].task]
          /\ \/ GotoTickle(t, "dispatch")
             \/ Goto(t, "dispatch") /\ UNCHANGED ret
    BY <1>1 DEF ScanTake, EligibleAt
  <2>2. queue[i].task \in Task
    BY EntryFacts
  <2> QED  BY <1>1, <2>1, <2>2, SMTT(30) DEF ScanTake
<1>2. ASSUME NEW t \in Thread, ScanNothing(t)
      PROVE  Control'
  BY <1>2 DEF ScanNothing
<1>3. ASSUME NEW t \in Thread, SwapIn(t)
      PROVE  Control'
  BY <1>3 DEF SwapIn, Abort
<1>4. ASSUME NEW t \in Thread, GoIdle(t)
      PROVE  Control'
  BY <1>4 DEF GoIdle
<1>5. ASSUME NEW t \in Thread, Back(t)
      PROVE  Control'
  BY <1>5 DEF Back
<1>6. ASSUME NEW t \in Thread, PostReady(t)
      PROVE  Control'
  BY <1>6 DEF PostReady, ScheduleFrom
<1>7. ASSUME NEW t \in Thread, PostOther(t)
      PROVE  Control'
  BY <1>7 DEF PostOther
<1>8. ASSUME NEW t \in Thread, IdleBack(t)
      PROVE  Control'
  BY <1>8 DEF IdleBack
<1>9. ASSUME NEW t \in Thread, SwapOut(t)
      PROVE  Control'
  BY <1>9 DEF SwapOut
<1>10. ASSUME NEW t \in Thread, Tickle(t)
      PROVE  Control'
  BY <1>10 DEF Tickle
<1>11. ASSUME NEW t \in Thread, Idle(t)
      PROVE  Control'
  BY <1>11 DEF Idle, Stopping
<1>12. ASSUME NEW t \in Thread, Finish(t)
      PROVE  Control'
  BY <1>12 DEF Finish
<1>13. ASSUME NEW t \in Thread, Yield(t)
      PROVE  Control'
  BY <1>13 DEF Yield, Abort
<1>14. ASSUME NEW t \in Thread, NEW c \in Task, Schedule(t, c)
      PROVE  Control'
  BY <1>14 DEF Schedule, ScheduleFrom, PinOf
<1>15. CASE Start
  BY <1>15 DEF Start
<1>16. CASE StopBegin
  BY <1>16 DEF StopBegin
<1>17. CASE StopFlag
  BY <1>17 DEF StopFlag
<1>18. CASE StopTickle
  BY <1>18 DEF StopTickle
<1>19. CASE StopRun(Stopping)
  BY <1>19 DEF StopRun
<1>20. CASE Join
  BY <1>20 DEF Join
<1>21. CASE UNCHANGED vars
  BY <1>21 DEF vars
<1> QED
  BY <1>1, <1>2, <1>3, <1>4, <1>5, <1>6, <1>7, <1>8, <1>9, <1>10, <1>11, <1>12, <1>13, <1>14, <1>15, <1>16, <1>17, <1>18, <1>19, <1>20, <1>21
     DEF Next, ThreadStep, LoopStep, TaskStep, MasterStep, Terminated

(* The pool and its creator are finitely many threads. *)
LEMMA ThreadFinite == IsFiniteSet(Thread)
BY SchedulerAssumption, FS_AddElement DEF Thread

(* The threads m_activeThreadCount and m_idleThreadCount count. *)
Busy == {t \in Thread : hand[t] # None /\ pc[t] # "post"}
Resting == {t \in Thread : pc[t] \in {"idle", "idleBack"}}
Counted == active = Cardinality(Busy) /\ idle = Cardinality(Resting)

(* A step that moves no thread into or out of a counted place may leave the
   counters alone. *)
LEMMA CountSame ==
  ASSUME Counted, UNCHANGED <<active, idle>>, Busy' = Busy, Resting' = Resting
  PROVE  Counted'
BY DEF Counted

(* Both counters count finite sets of threads. *)
LEMMA CountFinite == IsFiniteSet(Busy) /\ IsFiniteSet(Resting)
BY ThreadFinite, FS_Subset DEF Busy, Resting

(* Every step that moves a thread into or out of a counted place moves the
   counter with it. *)
LEMMA CountStep ==
  ASSUME TypeCore, Control, Counted, [Next]_vars
  PROVE  Counted'
<1> USE SchedulerAssumption DEF TypeCore, Control, Where, Busy, Resting, At, Goto, GotoTickle, flags
<1>1. ASSUME NEW t \in Thread, ScanTake(t)
      PROVE  Counted'
  <2>1. PICK i \in DOMAIN queue :
          /\ hand' = [hand EXCEPT ![t] = queue[i].task]
          /\ \/ GotoTickle(t, "dispatch")
             \/ Goto(t, "dispatch") /\ UNCHANGED ret
    BY <1>1 DEF ScanTake, EligibleAt
  <2>2. queue[i].task # None
    BY EntryFacts
  <2>3. t \notin Busy /\ Busy' = Busy \cup {t}
    BY <1>1, <2>1, <2>2 DEF ScanTake
  <2>4. Resting' = Resting
    BY <1>1, <2>1 DEF ScanTake
  <2>5. active' = active + 1 /\ idle' = idle
    BY <1>1 DEF ScanTake
  <2>6. Cardinality(Busy \cup {t}) = Cardinality(Busy) + 1
    BY <2>3, CountFinite, FS_AddElement
  <2> HIDE DEF Busy, Resting
  <2> QED  BY <2>3, <2>4, <2>5, <2>6 DEF Counted
<1>2. ASSUME NEW t \in Thread, ScanNothing(t)
      PROVE  Counted'
  BY <1>2, CountSame DEF ScanNothing
<1>3. ASSUME NEW t \in Thread, SwapIn(t)
      PROVE  Counted'
  BY <1>3, CountSame DEF SwapIn
<1>4. ASSUME NEW t \in Thread, GoIdle(t)
      PROVE  Counted'
  <2>1. active' = Cardinality(Busy')
    <3>1. CASE hand[t] = None
      <4>1. Busy' = Busy
        BY <1>4, <3>1 DEF GoIdle
      <4> HIDE DEF Busy
      <4> QED  BY <1>4, <3>1, <4>1 DEF GoIdle, Counted
    <3>2. CASE hand[t] # None
      <4>1. t \in Busy /\ Busy' = Busy \ {t}
        BY <1>4, <3>2 DEF GoIdle
      <4>2. Cardinality(Busy \ {t}) = Cardinality(Busy) - 1
        BY <4>1, CountFinite, FS_RemoveElement
      <4> HIDE DEF Busy
      <4> QED  BY <1>4, <3>2, <4>1, <4>2 DEF GoIdle, Counted
    <3> QED  BY <3>1, <3>2
  <2>2. idle' = Cardinality(Resting')
    <3>1. CASE idleDone[t]
      <4>1. Resting' = Resting
        BY <1>4, <3>1 DEF GoIdle
      <4> HIDE DEF Resting
      <4> QED  BY <1>4, <3>1, <4>1 DEF GoIdle, Counted
    <3>2. CASE ~idleDone[t]
      <4>1. t \notin Resting /\ Resting' = Resting \cup {t}
        BY <1>4, <3>2 DEF GoIdle
      <4>2. Cardinality(Resting \cup {t}) = Cardinality(Resting) + 1
        BY <4>1, CountFinite, FS_AddElement
      <4> HIDE DEF Resting
      <4> QED  BY <1>4, <3>2, <4>1, <4>2 DEF GoIdle, Counted
    <3> QED  BY <3>1, <3>2
  <2> HIDE DEF Busy, Resting
  <2> QED  BY <2>1, <2>2 DEF Counted
<1>5. ASSUME NEW t \in Thread, Back(t)
      PROVE  Counted'
  <2>1. t \in Busy /\ Busy' = Busy \ {t} /\ Resting' = Resting
    BY <1>5 DEF Back
  <2>2. Cardinality(Busy \ {t}) = Cardinality(Busy) - 1
    BY <2>1, CountFinite, FS_RemoveElement
  <2>3. active' = active - 1 /\ idle' = idle
    BY <1>5 DEF Back
  <2> HIDE DEF Busy, Resting
  <2> QED  BY <2>1, <2>2, <2>3 DEF Counted
<1>6. ASSUME NEW t \in Thread, PostReady(t)
      PROVE  Counted'
  BY <1>6, CountSame DEF PostReady, ScheduleFrom
<1>7. ASSUME NEW t \in Thread, PostOther(t)
      PROVE  Counted'
  BY <1>7, CountSame DEF PostOther
<1>8. ASSUME NEW t \in Thread, IdleBack(t)
      PROVE  Counted'
  <2>1. t \in Resting /\ Resting' = Resting \ {t} /\ Busy' = Busy
    BY <1>8 DEF IdleBack
  <2>2. Cardinality(Resting \ {t}) = Cardinality(Resting) - 1
    BY <2>1, CountFinite, FS_RemoveElement
  <2>3. idle' = idle - 1 /\ active' = active
    BY <1>8 DEF IdleBack
  <2> HIDE DEF Busy, Resting
  <2> QED  BY <2>1, <2>2, <2>3 DEF Counted
<1>9. ASSUME NEW t \in Thread, SwapOut(t)
      PROVE  Counted'
  BY <1>9, CountSame DEF SwapOut
<1>10. ASSUME NEW t \in Thread, Tickle(t)
      PROVE  Counted'
  BY <1>10, CountSame DEF Tickle
<1>11. ASSUME NEW t \in Thread, Idle(t)
      PROVE  Counted'
  BY <1>11, CountSame DEF Idle
<1>12. ASSUME NEW t \in Thread, Finish(t)
      PROVE  Counted'
  BY <1>12, CountSame DEF Finish
<1>13. ASSUME NEW t \in Thread, Yield(t)
      PROVE  Counted'
  BY <1>13, CountSame DEF Yield
<1>14. ASSUME NEW t \in Thread, NEW c \in Task, Schedule(t, c)
      PROVE  Counted'
  BY <1>14, CountSame DEF Schedule, ScheduleFrom
<1>15. CASE Start
  BY <1>15, CountSame DEF Start, Thread
<1>16. CASE StopBegin
  BY <1>16, CountSame DEF StopBegin, Thread
<1>17. CASE StopFlag
  BY <1>17, CountSame DEF StopFlag, Thread
<1>18. CASE StopTickle
  BY <1>18, CountSame DEF StopTickle, Thread
<1>19. CASE StopRun(Stopping)
  BY <1>19, CountSame DEF StopRun, Thread
<1>20. CASE Join
  BY <1>20, CountSame DEF Join, Thread
<1>21. CASE UNCHANGED vars
  BY <1>21, CountSame DEF vars
<1> QED
  BY <1>1, <1>2, <1>3, <1>4, <1>5, <1>6, <1>7, <1>8, <1>9, <1>10, <1>11, <1>12, <1>13, <1>14, <1>15, <1>16, <1>17, <1>18, <1>19, <1>20, <1>21
     DEF Next, ThreadStep, LoopStep, TaskStep, MasterStep, Terminated

(* A scheduler just constructed has the right types and counts. *)
LEMMA InitBase == Init => TypeCore /\ Control /\ Counted
<1> SUFFICES ASSUME Init PROVE TypeCore /\ Control /\ Counted
  OBVIOUS
<1>1. TypeCore
  <2>1. queue \in Seq(Entry) /\ state \in [Task -> State]
    BY EmptySeq DEF Init, State
  <2>2. pc \in [Thread -> WorkerPc \cup MasterPc \cup {"off", "exited"}]
    BY DEF Init, WorkerPc, MasterPc
  <2> QED  BY <2>1, <2>2 DEF Init, TypeCore
<1>2. Control
  BY SchedulerAssumption DEF Init, Control, Where, Thread, WorkerPc, MasterPc
<1>3. Busy = {} /\ Resting = {}
  BY DEF Init, Busy, Resting
<1>4. Counted
  BY <1>3, FS_EmptySet DEF Init, Counted
<1> QED  BY <1>1, <1>2, <1>4

(* What holds whatever the clients of the scheduler do. *)
Base == TypeCore /\ Control /\ Counted

(* Types, control and counters hold in every reachable state. *)
LEMMA BaseInvariant == Spec => []Base
<1>1. Init => Base
  BY InitBase DEF Base
<1>2. Base /\ [Next]_vars => Base'
  BY CoreStep, ControlStep, CountStep DEF Base
<1> QED  BY <1>1, <1>2, PTL DEF Spec

(* Every variable of the scheduler keeps its type; in particular neither
   m_activeThreadCount nor m_idleThreadCount, which are unsigned, is ever
   decremented below zero. *)
THEOREM TypeCorrect == Spec => []TypeOK
<1>1. Base => TypeOK
  <2> SUFFICES ASSUME Base PROVE TypeOK
    OBVIOUS
  <2>1. active \in Nat /\ idle \in Nat
    BY CountFinite, FS_CardinalityType DEF Base, Counted
  <2> QED  BY <2>1 DEF Base, TypeCore, TypeOK
<1> QED  BY <1>1, BaseInvariant, PTL

(* m_activeThreadCount, changed far apart in run() and read without the lock
   by stopping(), is exactly the number of threads between erasing an entry and
   coming back from its coroutine, whatever clients do. *)
THEOREM ActiveCountExact == Spec => []ActiveExact
<1>1. Base => ActiveExact
  BY DEF Base, Counted, Busy, ActiveExact
<1> QED  BY <1>1, BaseInvariant, PTL

(* Who has a task: one queue entry or one thread, and its state says what that
   thread is doing with it. *)
OneEntry == Distinct(queue) /\ \A i \in DOMAIN queue : \A t \in Thread : hand[t] # queue[i].task
OneHand == \A t, u \in Thread : hand[t] = hand[u] /\ hand[t] # None => t = u
Staged == \A t \in Thread : hand[t] # None =>
       /\ Where(t) = "dispatch" => state[hand[t]] # "EXECU"
       /\ Where(t) = "run" => state[hand[t]] = "EXECU"
       /\ Where(t) = "swapOut" => state[hand[t]] \in {"READY", "HOLD"}
       /\ Where(t) \in {"back", "post"} => state[hand[t]] \in {"READY", "HOLD", "END", "EXCEPT"}
Owned == ~aborted /\ OneEntry /\ OneHand /\ Staged

(* With well-behaved clients a task passes from hand to hand and never has
   two owners. *)
LEMMA OwnedStep ==
  ASSUME ~EarlyWake, TypeCore, Control, Owned, [Next]_vars
  PROVE  Owned'
<1> USE SchedulerAssumption DEF TypeCore, Control, Where, Thread, WorkerPc, MasterPc, At, Goto, GotoTickle, flags, Owned, OneEntry, OneHand, Staged
<1>1. ASSUME NEW t \in Thread, ScanTake(t)
      PROVE  Owned'
  <2>1. PICK i \in DOMAIN queue :
          /\ Eligible(queue[i])
          /\ queue' = RemoveAt(queue, i)
          /\ hand' = [hand EXCEPT ![t] = queue[i].task]
          /\ \/ GotoTickle(t, "dispatch")
             \/ Goto(t, "dispatch") /\ UNCHANGED ret
    BY <1>1 DEF ScanTake, EligibleAt
  <2>2. queue[i].task \in Task /\ state[queue[i].task] # "EXECU"
    BY <2>1, EntryFacts DEF Eligible
  <2>3. /\ Distinct(queue')
        /\ \A j \in DOMAIN queue' : \E k \in DOMAIN queue : k # i /\ queue'[j] = queue[k]
    BY <2>1, RemoveEntry
  <2>4. \A j \in DOMAIN queue' : \A u \in Thread : queue'[j].task \notin {hand[u], queue[i].task}
    BY <2>3 DEF Distinct
  <2>5. \A u \in Thread : hand'[u] = IF u = t THEN queue[i].task ELSE hand[u]
    BY <2>1
  <2>6. UNCHANGED <<state, aborted>>
    BY <1>1 DEF ScanTake
  <2>7. \A u \in Thread : Where(u)' = IF u = t THEN "dispatch" ELSE Where(u)
    BY <2>1
  <2>8. OneEntry'
    BY <2>3, <2>4, <2>5
  <2>9. OneHand'
    BY <2>2, <2>5
  <2>10. Staged'
    BY <2>2, <2>5, <2>6, <2>7
  <2> QED  BY <2>6, <2>8, <2>9, <2>10
<1>2. ASSUME NEW t \in Thread, ScanNothing(t)
      PROVE  Owned'
  BY <1>2 DEF ScanNothing
<1>3. ASSUME NEW t \in Thread, SwapIn(t)
      PROVE  Owned'
  BY <1>3 DEF SwapIn, Abort
<1>4. ASSUME NEW t \in Thread, GoIdle(t)
      PROVE  Owned'
  <2>1. UNCHANGED <<queue, state, aborted>>
    BY <1>4 DEF GoIdle
  <2>2. \A u \in Thread : hand'[u] = IF u = t THEN None ELSE hand[u]
    BY <1>4 DEF GoIdle
  <2>3. \A u \in Thread : u # t => Where(u)' = Where(u)
    BY <1>4 DEF GoIdle
  <2>4. OneEntry'
    <3> SUFFICES ASSUME NEW i \in DOMAIN queue, NEW u \in Thread PROVE hand'[u] # queue[i].task
      BY <2>1
    <3>1. queue[i].task # None
      BY EntryFacts
    <3> QED  BY <2>2, <3>1
  <2>5. OneHand'
    BY <2>2
  <2>6. Staged'
    BY <2>1, <2>2, <2>3
  <2> QED  BY <2>1, <2>4, <2>5, <2>6
<1>5. ASSUME NEW t \in Thread, Back(t)
      PROVE  Owned'
  BY <1>5 DEF Back
<1>6. ASSUME NEW t \in Thread, PostReady(t)
      PROVE  Owned'
  <2>1. hand[t] \in Task /\ [task |-> hand[t], thread |-> None] \in Entry
    BY <1>6 DEF PostReady, Entry, PinOf
  <2>2. queue' = Append(queue, [task |-> hand[t], thread |-> None])
    BY <1>6 DEF PostReady, ScheduleFrom
  <2>3. \A i \in DOMAIN queue : queue[i].task # hand[t]
    BY <1>6 DEF PostReady, Queued
  <2>4. /\ Distinct(queue')
        /\ \A j \in DOMAIN queue' : queue'[j].task = hand[t] \/ \E k \in DOMAIN queue : queue'[j] = queue[k]
    BY <2>1, <2>2, <2>3, AppendEntry
  <2>5. \A u \in Thread : hand'[u] = IF u = t THEN None ELSE hand[u]
    BY <1>6 DEF PostReady
  <2>6. \A u \in Thread : u # t => Where(u)' = Where(u)
    BY <1>6 DEF PostReady, ScheduleFrom
  <2>7. OneEntry'
    <3> SUFFICES ASSUME NEW i \in DOMAIN queue', NEW u \in Thread PROVE hand'[u] # queue'[i].task
      BY <2>4
    <3>1. queue'[i].task # None
      BY <2>1, <2>4, EntryFacts
    <3> QED  BY <2>1, <2>4, <2>5, <3>1
  <2>8. OneHand'
    BY <2>5
  <2>9. UNCHANGED <<state, aborted>>
    BY <1>6 DEF PostReady
  <2>10. Staged'
    BY <2>5, <2>6, <2>9
  <2> QED  BY <2>7, <2>8, <2>9, <2>10
<1>7. ASSUME NEW t \in Thread, PostOther(t)
      PROVE  Owned'
  <2>1. hand[t] \in Task
    BY <1>7 DEF PostOther
  <2>2. UNCHANGED <<queue, aborted>>
    BY <1>7 DEF PostOther
  <2>3. \A u \in Thread : hand'[u] = IF u = t THEN None ELSE hand[u]
    BY <1>7 DEF PostOther
  <2>4. \A u \in Thread : u # t => Where(u)' = Where(u)
    BY <1>7 DEF PostOther
  <2>5. \A c \in Task : c # hand[t] => state'[c] = state[c]
    BY <1>7 DEF PostOther
  <2>6. OneEntry'
    <3> SUFFICES ASSUME NEW i \in DOMAIN queue, NEW u \in Thread PROVE hand'[u] # queue[i].task
      BY <2>2
    <3>1. queue[i].task # None
      BY EntryFacts
    <3> QED  BY <2>3, <3>1
  <2>7. OneHand'
    BY <2>3
  <2>8. Staged'
    <3> SUFFICES ASSUME NEW u \in Thread, u # t, hand[u] # None
                 PROVE  state'[hand[u]] = state[hand[u]]
      BY <2>3, <2>4
    <3>1. hand[u] \in Task /\ hand[u] # hand[t]
      OBVIOUS
    <3> QED  BY <2>5, <3>1
  <2> QED  BY <2>2, <2>6, <2>7, <2>8
<1>8. ASSUME NEW t \in Thread, IdleBack(t)
      PROVE  Owned'
  BY <1>8 DEF IdleBack
<1>9. ASSUME NEW t \in Thread, SwapOut(t)
      PROVE  Owned'
  BY <1>9 DEF SwapOut
<1>10. ASSUME NEW t \in Thread, Tickle(t)
      PROVE  Owned'
  BY <1>10 DEF Tickle
<1>11. ASSUME NEW t \in Thread, Idle(t)
      PROVE  Owned'
  BY <1>11 DEF Idle
<1>12. ASSUME NEW t \in Thread, Finish(t)
      PROVE  Owned'
  BY <1>12 DEF Finish, Ended
<1>13. ASSUME NEW t \in Thread, Yield(t)
      PROVE  Owned'
  BY <1>13 DEF Yield, Abort
<1>14. ASSUME NEW t \in Thread, NEW c \in Task, Schedule(t, c)
      PROVE  Owned'
  <2>1. c \in Task /\ [task |-> c, thread |-> PinOf(c)] \in Entry
    BY <1>14 DEF Schedule, MaySchedule, Entry, PinOf
  <2>2. queue' = Append(queue, [task |-> c, thread |-> PinOf(c)])
    BY <1>14 DEF Schedule, MaySchedule, ScheduleFrom
  <2>3. \A i \in DOMAIN queue : queue[i].task # c
    BY <1>14 DEF Schedule, MaySchedule, Queued
  <2>4. /\ Distinct(queue')
        /\ \A j \in DOMAIN queue' : queue'[j].task = c \/ \E k \in DOMAIN queue : queue'[j] = queue[k]
    BY <2>1, <2>2, <2>3, AppendEntry
  <2> QED  BY <1>14, <2>1, <2>4 DEF Schedule, MaySchedule, ScheduleFrom, InHand, Ended
<1>15. CASE Start
  BY <1>15 DEF Start
<1>16. CASE StopBegin
  BY <1>16 DEF StopBegin
<1>17. CASE StopFlag
  BY <1>17 DEF StopFlag
<1>18. CASE StopTickle
  BY <1>18 DEF StopTickle
<1>19. CASE StopRun(Stopping)
  BY <1>19 DEF StopRun
<1>20. CASE Join
  BY <1>20 DEF Join
<1>21. CASE UNCHANGED vars
  BY <1>21 DEF vars
<1> QED
  BY <1>1, <1>2, <1>3, <1>4, <1>5, <1>6, <1>7, <1>8, <1>9, <1>10, <1>11, <1>12, <1>13, <1>14, <1>15, <1>16, <1>17, <1>18, <1>19, <1>20, <1>21
     DEF Next, ThreadStep, LoopStep, TaskStep, MasterStep, Terminated

(* Ownership holds in every reachable state if no coroutine is scheduled
   before it has parked. *)
LEMMA OwnedInvariant == ~EarlyWake => (Spec => [](Base /\ Owned))
<1> SUFFICES ASSUME ~EarlyWake PROVE Spec => [](Base /\ Owned)
  OBVIOUS
<1>1. Init => Owned
  BY DEF Init, Owned, OneEntry, OneHand, Staged, Distinct
<1>2. Base /\ Owned /\ [Next]_vars => Owned'
  BY OwnedStep DEF Base
<1> QED  BY <1>1, <1>2, BaseInvariant, PTL DEF Spec

(* No two threads are ever on one coroutine's stack, although any thread may
   take any entry and m_state is not protected, if no coroutine is scheduled
   before it has parked. *)
THEOREM OneRunnerOnly == ~EarlyWake => (Spec => []OneRunner)
<1> SUFFICES ASSUME ~EarlyWake PROVE Spec => []OneRunner
  OBVIOUS
<1>1. Owned => OneRunner
  BY SchedulerAssumption DEF Owned, OneHand, OneRunner, OnStack, Thread
<1> QED  BY <1>1, OwnedInvariant, PTL

(* Under the same condition no assertion of swapIn(), YieldToReady() or
   YieldToHold() fails. *)
THEOREM NothingAborts == ~EarlyWake => (Spec => []NoAbort)
<1> SUFFICES ASSUME ~EarlyWake PROVE Spec => []NoAbort
  OBVIOUS
<1>1. Owned => NoAbort
  BY DEF Owned, NoAbort
<1> QED  BY <1>1, OwnedInvariant, PTL

-----------------------------------------------------------------------------
(* The end of the loop. *)

(* How tasks are handed over: nothing is scheduled before it has parked, nor
   after it has finished, nor pinned to the thread that called stop(), whose
   entries run() never takes. *)
TameClients ==
  /\ ~EarlyWake /\ ~LateResubmit
  /\ \A c \in Task : Pin[c] = None \/ Pin[c] # MasterTid

(* No entry is one that run() ignores. *)
Takeable == \A i \in DOMAIN queue : ~IgnoredPin(queue[i])

(* A task that has to go on is somewhere the loop will find it. *)
Tracked ==
  \A c \in Task :
    /\ state[c] = "EXECU" => \E t \in Thread : hand[t] = c /\ Where(t) = "run"
    /\ state[c] = "READY" => Queued(c) \/ InHand(c)

(* Once an idle coroutine has ended, run() will not be given a finished
   coroutine any more, so a thread that has taken an entry will swap into it. *)
Closing ==
  /\ \A t \in Thread : pc[t] = "exited" => idleDone[t]
  /\ \A t \in Thread : idleDone[t] =>
       /\ autoStop
       /\ \A i \in DOMAIN queue : state[queue[i].task] \notin Ended
       /\ \A u \in Thread : hand[u] # None /\ Where(u) = "dispatch" => state[hand[u]] \notin Ended

(* Thread t will not look at the queue again. *)
Committed(t) ==
  \/ pc[t] \in {"exited", "join", "done"}
  \/ Where(t) = "dispatch" /\ idleDone[t] /\ hand[t] = None

Someone == queue # <<>> => \E t \in Worker : ~Committed(t)

(* The thread at the loop's head, or inside a task, is one of the loop's. *)
LEMMA LoopThread ==
  ASSUME TypeCore, Control, NEW t \in Thread, Where(t) \in WorkerPc
  PROVE  t \in Worker
BY SchedulerAssumption DEF TypeCore, Control, Thread, Worker, WorkerPc, MasterPc, Where

(* No step queues an entry that the loop ignores. *)
LEMMA TakeableStep ==
  ASSUME TameClients, Base, Takeable, [Next]_vars
  PROVE  Takeable'
<1> USE SchedulerAssumption DEF Base, TypeCore, Control, Where, Thread, WorkerPc, MasterPc, At, Goto, GotoTickle, flags, TameClients, Takeable, IgnoredPin
<1>1. ASSUME NEW t \in Thread, ScanTake(t)
      PROVE  Takeable'
  <2>1. PICK i \in DOMAIN queue :
          /\ queue' = RemoveAt(queue, i)
          /\ hand' = [hand EXCEPT ![t] = queue[i].task]
          /\ \/ GotoTickle(t, "dispatch")
             \/ Goto(t, "dispatch") /\ UNCHANGED ret
    BY <1>1 DEF ScanTake, EligibleAt
  <2>2. queue[i].task \in Task
    BY EntryFacts
  <2>3. /\ \A j \in DOMAIN queue' : \E k \in DOMAIN queue : queue'[j] = queue[k]
        /\ \A k \in DOMAIN queue : k # i => \E j \in DOMAIN queue' : queue'[j] = queue[k]
    BY <2>1, RemoveEntry
  <2>4. \A u \in Thread : hand'[u] = IF u = t THEN queue[i].task ELSE hand[u]
    BY <2>1
  <2> QED  BY <2>3
<1>2. ASSUME NEW t \in Thread, ScanNothing(t)
      PROVE  Takeable'
  BY <1>2 DEF ScanNothing
<1>3. ASSUME NEW t \in Thread, SwapIn(t)
      PROVE  Takeable'
  BY <1>3 DEF SwapIn, Abort
<1>4. ASSUME NEW t \in Thread, GoIdle(t)
      PROVE  Takeable'
  BY <1>4 DEF GoIdle
<1>5. ASSUME NEW t \in Thread, Back(t)
      PROVE  Takeable'
  BY <1>5 DEF Back
<1>6. ASSUME NEW t \in Thread, PostReady(t)
      PROVE  Takeable'
  <2> DEFINE e == [task |-> hand[t], thread |-> None]
  <2>1. hand[t] \in Task /\ e \in Entry /\ e.task = hand[t] /\ e.thread = None
    BY <1>6 DEF PostReady, Entry, PinOf
  <2>2. queue' = Append(queue, e)
    BY <1>6 DEF PostReady, ScheduleFrom
  <2> HIDE DEF e
  <2>3. /\ \A j \in DOMAIN queue' : queue'[j] = e \/ \E k \in DOMAIN queue : queue'[j] = queue[k]
        /\ \A k \in DOMAIN queue : k \in DOMAIN queue' /\ queue'[k] = queue[k]
        /\ \E j \in DOMAIN queue' : queue'[j] = e
    BY <2>1, <2>2, AppendEntry, SMTT(30)
  <2> QED  BY <2>1, <2>3
<1>7. ASSUME NEW t \in Thread, PostOther(t)
      PROVE  Takeable'
  BY <1>7 DEF PostOther
<1>8. ASSUME NEW t \in Thread, IdleBack(t)
      PROVE  Takeable'
  BY <1>8 DEF IdleBack
<1>9. ASSUME NEW t \in Thread, SwapOut(t)
      PROVE  Takeable'
  BY <1>9 DEF SwapOut
<1>10. ASSUME NEW t \in Thread, Tickle(t)
      PROVE  Takeable'
  BY <1>10 DEF Tickle
<1>11. ASSUME NEW t \in Thread, Idle(t)
      PROVE  Takeable'
  BY <1>11 DEF Idle
<1>12. ASSUME NEW t \in Thread, Finish(t)
      PROVE  Takeable'
  BY <1>12 DEF Finish
<1>13. ASSUME NEW t \in Thread, Yield(t)
      PROVE  Takeable'
  BY <1>13 DEF Yield, Abort
<1>14. ASSUME NEW t \in Thread, NEW c \in Task, Schedule(t, c)
      PROVE  Takeable'
  <2> DEFINE e == [task |-> c, thread |-> PinOf(c)]
  <2>1. c \in Task /\ e \in Entry /\ e.task = c /\ e.thread = PinOf(c)
    BY <1>14 DEF Schedule, Entry, PinOf
  <2>2. queue' = Append(queue, e)
    BY <1>14 DEF Schedule, ScheduleFrom
  <2> HIDE DEF e
  <2>3. /\ \A j \in DOMAIN queue' : queue'[j] = e \/ \E k \in DOMAIN queue : queue'[j] = queue[k]
        /\ \A k \in DOMAIN queue : k \in DOMAIN queue' /\ queue'[k] = queue[k]
        /\ \E j \in DOMAIN queue' : queue'[j] = e
    BY <2>1, <2>2, AppendEntry, SMTT(30)
  <2>4. ~IgnoredPin(e)
    BY <2>1 DEF PinOf
  <2> QED  BY <2>3, <2>4
<1>15. CASE Start
  BY <1>15 DEF Start
<1>16. CASE StopBegin
  BY <1>16 DEF StopBegin
<1>17. CASE StopFlag
  BY <1>17 DEF StopFlag
<1>18. CASE StopTickle
  BY <1>18 DEF StopTickle
<1>19. CASE StopRun(Stopping)
  BY <1>19 DEF StopRun
<1>20. CASE Join
  BY <1>20 DEF Join
<1>21. CASE UNCHANGED vars
  BY <1>21 DEF vars
<1> QED
  BY <1>1, <1>2, <1>3, <1>4, <1>5, <1>6, <1>7, <1>8, <1>9, <1>10, <1>11, <1>12, <1>13, <1>14, <1>15, <1>16, <1>17, <1>18, <1>19, <1>20, <1>21
     DEF Next, ThreadStep, LoopStep, TaskStep, MasterStep, Terminated

(* A step that makes a coroutine ready or running leaves it where the loop finds it. *)
LEMMA TrackedStep ==
  ASSUME TameClients, Base, Owned, Tracked, [Next]_vars
  PROVE  Tracked'
<1> USE SchedulerAssumption DEF Base, TypeCore, Control, Where, Thread, WorkerPc, MasterPc, At, Goto, GotoTickle, flags, Owned, OneHand, Staged, Tracked
<1>1. ASSUME NEW t \in Thread, ScanTake(t)
      PROVE  Tracked'
  <2>1. PICK i \in DOMAIN queue :
          /\ queue' = RemoveAt(queue, i)
          /\ hand' = [hand EXCEPT ![t] = queue[i].task]
          /\ \/ GotoTickle(t, "dispatch")
             \/ Goto(t, "dispatch") /\ UNCHANGED ret
    BY <1>1 DEF ScanTake, EligibleAt
  <2>2. queue[i].task \in Task
    BY EntryFacts
  <2>3. /\ \A j \in DOMAIN queue' : \E k \in DOMAIN queue : queue'[j] = queue[k]
        /\ \A k \in DOMAIN queue : k # i => \E j \in DOMAIN queue' : queue'[j] = queue[k]
    BY <2>1, RemoveEntry
  <2>4. \A u \in Thread : hand'[u] = IF u = t THEN queue[i].task ELSE hand[u]
    BY <2>1
  <2>5. \A u \in Thread : Where(u)' = IF u = t THEN "dispatch" ELSE Where(u)
    BY <2>1
  <2>6. UNCHANGED state
    BY <1>1 DEF ScanTake
  <2>7. Where(t) = "scan" /\ hand[t] = None
    BY <1>1 DEF ScanTake
  <2>8. ASSUME NEW c \in Task, state[c] = "EXECU"
        PROVE  \E u \in Thread : hand'[u] = c /\ Where(u)' = "run"
    BY <2>4, <2>5, <2>7, <2>8
  <2>9. ASSUME NEW c \in Task, state[c] = "READY"
        PROVE  Queued(c)' \/ InHand(c)'
    <3>1. CASE InHand(c)
      BY <2>4, <2>7, <3>1 DEF InHand
    <3>2. CASE Queued(c)
      <4>1. PICK k \in DOMAIN queue : queue[k].task = c
        BY <3>2 DEF Queued
      <4>2. CASE k = i
        <5>1. hand'[t] = c
          BY <2>4, <4>1, <4>2
        <5> QED  BY <2>5, <5>1 DEF InHand
      <4>3. CASE k # i
        <5>1. PICK j \in DOMAIN queue' : queue'[j] = queue[k]
          BY <2>3, <4>3
        <5> QED  BY <4>1, <5>1 DEF Queued
      <4> QED  BY <4>2, <4>3
    <3> QED  BY <2>9, <3>1, <3>2
  <2> QED  BY <2>6, <2>8, <2>9
<1>2. ASSUME NEW t \in Thread, ScanNothing(t)
      PROVE  Tracked'
  BY <1>2 DEF ScanNothing, Queued, InHand
<1>3. ASSUME NEW t \in Thread, SwapIn(t)
      PROVE  Tracked'
  <2>1. hand[t] \in Task
    BY <1>3 DEF SwapIn, Abort
  <2>2. \A c \in Task : c # hand[t] => state'[c] = state[c]
    BY <1>3 DEF SwapIn, Abort
  <2>3. \A u \in Thread : u # t => Where(u)' = Where(u) /\ hand'[u] = hand[u]
    BY <1>3 DEF SwapIn, Abort
  <2>4. state'[hand[t]] = "EXECU" /\ Where(t)' = "run"
    BY <1>3 DEF SwapIn
  <2>5. UNCHANGED <<queue, hand>>
    BY <1>3 DEF SwapIn
  <2> QED  BY <2>1, <2>2, <2>3, <2>4, <2>5 DEF Queued, InHand
<1>4. ASSUME NEW t \in Thread, GoIdle(t)
      PROVE  Tracked'
  <2>1. UNCHANGED <<queue, state>>
    BY <1>4 DEF GoIdle
  <2>2. \A u \in Thread : u # t => Where(u)' = Where(u) /\ hand'[u] = hand[u]
    BY <1>4 DEF GoIdle
  <2>3. Where(t) = "dispatch" /\ (hand[t] # None => state[hand[t]] \in Ended)
    BY <1>4 DEF GoIdle
  <2> QED  BY <2>1, <2>2, <2>3 DEF Queued, InHand, Ended
<1>5. ASSUME NEW t \in Thread, Back(t)
      PROVE  Tracked'
  BY <1>5 DEF Back, Queued, InHand
<1>6. ASSUME NEW t \in Thread, PostReady(t)
      PROVE  Tracked'
  <2> DEFINE e == [task |-> hand[t], thread |-> None]
  <2>1. hand[t] \in Task /\ e \in Entry /\ e.task = hand[t] /\ e.thread = None
    BY <1>6 DEF PostReady, Entry, PinOf
  <2>2. queue' = Append(queue, e)
    BY <1>6 DEF PostReady, ScheduleFrom
  <2> HIDE DEF e
  <2>3. /\ \A j \in DOMAIN queue' : queue'[j] = e \/ \E k \in DOMAIN queue : queue'[j] = queue[k]
        /\ \A k \in DOMAIN queue : k \in DOMAIN queue' /\ queue'[k] = queue[k]
        /\ \E j \in DOMAIN queue' : queue'[j] = e
    BY <2>1, <2>2, AppendEntry
  <2>4. \A u \in Thread : u # t => Where(u)' = Where(u) /\ hand'[u] = hand[u]
    BY <1>6 DEF PostReady, ScheduleFrom
  <2>5. UNCHANGED state /\ Where(t) = "post"
    BY <1>6 DEF PostReady
  <2>6. (\E j \in DOMAIN queue' : queue'[j].task = hand[t]) /\ \A c \in Task : Queued(c) => Queued(c)'
    BY <2>1, <2>3 DEF Queued
  <2>7. \A c \in Task : InHand(c) => c = hand[t] \/ InHand(c)'
    BY <2>4 DEF InHand
  <2>8. \A c \in Task : state[c] = "EXECU" => \E u \in Thread : hand'[u] = c /\ Where(u)' = "run"
    BY <2>4, <2>5
  <2> QED  BY <2>1, <2>5, <2>6, <2>7, <2>8 DEF Queued
<1>7. ASSUME NEW t \in Thread, PostOther(t)
      PROVE  Tracked'
  <2>1. hand[t] \in Task
    BY <1>7 DEF PostOther
  <2>2. \A c \in Task : c # hand[t] => state'[c] = state[c]
    BY <1>7 DEF PostOther
  <2>3. \A u \in Thread : u # t => Where(u)' = Where(u) /\ hand'[u] = hand[u]
    BY <1>7 DEF PostOther
  <2>4. state'[hand[t]] \notin {"EXECU", "READY"} /\ UNCHANGED queue
    BY <2>1, <1>7 DEF PostOther, Ended
  <2>5. \A c \in Task : InHand(c) => c = hand[t] \/ InHand(c)'
    BY <2>3 DEF InHand
  <2> QED  BY <2>1, <2>2, <2>3, <2>4, <2>5 DEF Queued
<1>8. ASSUME NEW t \in Thread, IdleBack(t)
      PROVE  Tracked'
  BY <1>8 DEF IdleBack, Queued, InHand
<1>9. ASSUME NEW t \in Thread, SwapOut(t)
      PROVE  Tracked'
  BY <1>9 DEF SwapOut, Queued, InHand
<1>10. ASSUME NEW t \in Thread, Tickle(t)
      PROVE  Tracked'
  BY <1>10 DEF Tickle, Queued, InHand
<1>11. ASSUME NEW t \in Thread, Idle(t)
      PROVE  Tracked'
  BY <1>11 DEF Idle, Queued, InHand
<1>12. ASSUME NEW t \in Thread, Finish(t)
      PROVE  Tracked'
  <2>1. hand[t] \in Task
    BY <1>12 DEF Finish
  <2>2. \A c \in Task : c # hand[t] => state'[c] = state[c]
    BY <1>12 DEF Finish
  <2>3. \A u \in Thread : u # t => Where(u)' = Where(u) /\ hand'[u] = hand[u]
    BY <1>12 DEF Finish
  <2>4. state'[hand[t]] \in Ended /\ UNCHANGED <<queue, hand>>
    BY <1>12, <2>1 DEF Finish
  <2> QED  BY <2>1, <2>2, <2>3, <2>4 DEF Queued, InHand, Ended
<1>13. ASSUME NEW t \in Thread, Yield(t)
      PROVE  Tracked'
  <2>1. hand[t] \in Task
    BY <1>13 DEF Yield, Abort
  <2>2. \A c \in Task : c # hand[t] => state'[c] = state[c]
    BY <1>13 DEF Yield, Abort
  <2>3. \A u \in Thread : u # t => Where(u)' = Where(u) /\ hand'[u] = hand[u]
    BY <1>13 DEF Yield, Abort
  <2>4. state'[hand[t]] # "EXECU" /\ InHand(hand[t])' /\ UNCHANGED <<queue, hand>>
    BY <1>13, <2>1 DEF Yield, InHand
  <2> QED  BY <2>1, <2>2, <2>3, <2>4 DEF Queued, InHand
<1>14. ASSUME NEW t \in Thread, NEW c \in Task, Schedule(t, c)
      PROVE  Tracked'
  <2> DEFINE e == [task |-> c, thread |-> PinOf(c)]
  <2>1. c \in Task /\ e \in Entry /\ e.task = c /\ e.thread = PinOf(c)
    BY <1>14 DEF Schedule, Entry, PinOf
  <2>2. queue' = Append(queue, e)
    BY <1>14 DEF Schedule, ScheduleFrom
  <2> HIDE DEF e
  <2>3. /\ \A j \in DOMAIN queue' : queue'[j] = e \/ \E k \in DOMAIN queue : queue'[j] = queue[k]
        /\ \A k \in DOMAIN queue : k \in DOMAIN queue' /\ queue'[k] = queue[k]
        /\ \E j \in DOMAIN queue' : queue'[j] = e
    BY <2>1, <2>2, AppendEntry
  <2>4. UNCHANGED <<state, hand>>
    BY <1>14 DEF Schedule
  <2>5. \A u \in Thread : Where(u)' = Where(u)
    BY <1>14 DEF Schedule, ScheduleFrom
  <2>6. \A d \in Task : Queued(d) => Queued(d)'
    BY <2>3 DEF Queued
  <2> QED  BY <2>4, <2>5, <2>6 DEF InHand
<1>15. CASE Start
  BY <1>15 DEF Start, Queued, InHand
<1>16. CASE StopBegin
  BY <1>16 DEF StopBegin, Queued, InHand
<1>17. CASE StopFlag
  BY <1>17 DEF StopFlag, Queued, InHand
<1>18. CASE StopTickle
  BY <1>18 DEF StopTickle, Queued, InHand
<1>19. CASE StopRun(Stopping)
  BY <1>19 DEF StopRun, Queued, InHand
<1>20. CASE Join
  BY <1>20 DEF Join, Queued, InHand
<1>21. CASE UNCHANGED vars
  BY <1>21 DEF vars, Queued, InHand
<1> QED
  BY <1>1, <1>2, <1>3, <1>4, <1>5, <1>6, <1>7, <1>8, <1>9, <1>10, <1>11, <1>12, <1>13, <1>14, <1>15, <1>16, <1>17, <1>18, <1>19, <1>20, <1>21
     DEF Next, ThreadStep, LoopStep, TaskStep, MasterStep, Terminated

(* An idle coroutine ends only when no thread has a task and the queue is empty; a finished coroutine is not handed to run() after that. *)
LEMMA ClosingStep ==
  ASSUME TameClients, Base, Owned, Closing, [Next]_vars
  PROVE  Closing'
<1> USE SchedulerAssumption DEF Base, TypeCore, Control, Where, Thread, WorkerPc, MasterPc, At, Goto, GotoTickle, flags, TameClients, Owned, OneEntry, OneHand, Staged, Closing
<1>1. ASSUME NEW t \in Thread, ScanTake(t)
      PROVE  Closing'
  <2>1. PICK i \in DOMAIN queue :
          /\ queue' = RemoveAt(queue, i)
          /\ hand' = [hand EXCEPT ![t] = queue[i].task]
          /\ \/ GotoTickle(t, "dispatch")
             \/ Goto(t, "dispatch") /\ UNCHANGED ret
    BY <1>1 DEF ScanTake, EligibleAt
  <2>2. queue[i].task \in Task
    BY EntryFacts
  <2>3. /\ \A j \in DOMAIN queue' : \E k \in DOMAIN queue : queue'[j] = queue[k]
        /\ \A k \in DOMAIN queue : k # i => \E j \in DOMAIN queue' : queue'[j] = queue[k]
    BY <2>1, RemoveEntry
  <2>4. \A u \in Thread : hand'[u] = IF u = t THEN queue[i].task ELSE hand[u]
    BY <2>1
  <2>5. \A u \in Thread : u # t => Where(u)' = Where(u)
    BY <2>1
  <2>6. UNCHANGED <<state, idleDone, autoStop>>
    BY <1>1 DEF ScanTake
  <2>7. \A u \in Thread : pc'[u] = "exited" => pc[u] = "exited"
    BY <2>1
  <2> QED  BY <2>3, <2>4, <2>5, <2>6, <2>7, SMTT(30)
<1>2. ASSUME NEW t \in Thread, ScanNothing(t)
      PROVE  Closing'
  BY <1>2 DEF ScanNothing
<1>3. ASSUME NEW t \in Thread, SwapIn(t)
      PROVE  Closing'
  <2>1. hand[t] \in Task /\ state' = [state EXCEPT ![hand[t]] = "EXECU"]
    BY <1>3 DEF SwapIn
  <2>2. \A c \in Task : state'[c] \in Ended => state[c] \in Ended
    BY <2>1 DEF Ended
  <2>3. \A i \in DOMAIN queue : queue[i].task \in Task
    BY EntryFacts
  <2>4. UNCHANGED <<queue, hand, idleDone, autoStop>> /\ \A u \in Thread : u # t => Where(u)' = Where(u)
    BY <1>3 DEF SwapIn
  <2>5. Where(t)' = "run" /\ \A u \in Thread : pc'[u] = "exited" => pc[u] = "exited"
    BY <1>3 DEF SwapIn
  <2> QED  BY <2>2, <2>3, <2>4, <2>5
<1>4. ASSUME NEW t \in Thread, GoIdle(t)
      PROVE  Closing'
  BY <1>4 DEF GoIdle
<1>5. ASSUME NEW t \in Thread, Back(t)
      PROVE  Closing'
  BY <1>5 DEF Back
<1>6. ASSUME NEW t \in Thread, PostReady(t)
      PROVE  Closing'
  <2> DEFINE e == [task |-> hand[t], thread |-> None]
  <2>1. hand[t] \in Task /\ e \in Entry /\ e.task = hand[t] /\ e.thread = None
    BY <1>6 DEF PostReady, Entry, PinOf
  <2>2. queue' = Append(queue, e)
    BY <1>6 DEF PostReady, ScheduleFrom
  <2> HIDE DEF e
  <2>3. /\ \A j \in DOMAIN queue' : queue'[j] = e \/ \E k \in DOMAIN queue : queue'[j] = queue[k]
        /\ \A k \in DOMAIN queue : k \in DOMAIN queue' /\ queue'[k] = queue[k]
        /\ \E j \in DOMAIN queue' : queue'[j] = e
    BY <2>1, <2>2, AppendEntry
  <2>4. state[hand[t]] = "READY" /\ UNCHANGED <<state, idleDone, autoStop>>
    BY <1>6 DEF PostReady
  <2>5. /\ \A u \in Thread : hand'[u] = IF u = t THEN None ELSE hand[u]
        /\ \A u \in Thread : u # t => Where(u)' = Where(u)
        /\ \A u \in Thread : pc'[u] = "exited" => pc[u] = "exited"
    BY <1>6 DEF PostReady, ScheduleFrom
  <2>6. \A i \in DOMAIN queue' : queue'[i].task = hand[t] \/ \E k \in DOMAIN queue : queue'[i] = queue[k]
    BY <2>1, <2>3
  <2> QED  BY <2>4, <2>5, <2>6 DEF Ended
<1>7. ASSUME NEW t \in Thread, PostOther(t)
      PROVE  Closing'
  <2>1. \A c \in Task : state'[c] \in Ended => state[c] \in Ended
    BY <1>7 DEF PostOther, Ended
  <2>2. \A i \in DOMAIN queue : queue[i].task \in Task
    BY EntryFacts
  <2>3. /\ UNCHANGED <<queue, idleDone, autoStop>>
        /\ \A u \in Thread : hand'[u] = IF u = t THEN None ELSE hand[u]
        /\ \A u \in Thread : u # t => Where(u)' = Where(u)
        /\ \A u \in Thread : pc'[u] = "exited" => pc[u] = "exited"
    BY <1>7 DEF PostOther
  <2> QED  BY <2>1, <2>2, <2>3
<1>8. ASSUME NEW t \in Thread, IdleBack(t)
      PROVE  Closing'
  BY <1>8 DEF IdleBack
<1>9. ASSUME NEW t \in Thread, SwapOut(t)
      PROVE  Closing'
  BY <1>9 DEF SwapOut
<1>10. ASSUME NEW t \in Thread, Tickle(t)
      PROVE  Closing'
  BY <1>10 DEF Tickle
<1>11. ASSUME NEW t \in Thread, Idle(t)
      PROVE  Closing'
  <2>1. CASE Stopping
    <3>1. Busy = {}
      BY <2>1, CountFinite, FS_EmptySet DEF Stopping, Counted
    <3>2. \A u \in Thread : hand[u] # None => Where(u) # "dispatch"
      BY <3>1 DEF Busy
    <3>3. queue = <<>> /\ autoStop /\ UNCHANGED <<queue, state, hand, autoStop>>
      BY <1>11, <2>1 DEF Idle, Stopping
    <3>4. /\ \A u \in Thread : u # t => Where(u)' = Where(u)
          /\ hand[t] = None
          /\ \A u \in Thread : pc'[u] = "exited" => pc[u] = "exited" /\ u # t
          /\ \A u \in Thread : u # t => idleDone'[u] = idleDone[u]
      BY <1>11 DEF Idle
    <3> QED  BY <3>2, <3>3, <3>4
  <2>2. CASE ~Stopping
    <3>1. \A u \in Thread : idleDone'[u] => idleDone[u]
      BY <1>11, <2>2 DEF Idle
    <3>2. UNCHANGED <<queue, state, hand, autoStop>>
      BY <1>11 DEF Idle
    <3>3. /\ \A u \in Thread : u # t => Where(u)' = Where(u) /\ idleDone'[u] = idleDone[u]
          /\ hand[t] = None
          /\ \A u \in Thread : pc'[u] = "exited" => pc[u] = "exited" /\ u # t
      BY <1>11 DEF Idle
    <3> QED  BY <3>1, <3>2, <3>3
  <2> QED  BY <2>1, <2>2
<1>12. ASSUME NEW t \in Thread, Finish(t)
      PROVE  Closing'
  <2>1. hand[t] \in Task /\ Where(t) = "run" /\ Where(t)' = "back"
    BY <1>12 DEF Finish
  <2>2. \A c \in Task : c # hand[t] => state'[c] = state[c]
    BY <1>12 DEF Finish
  <2>3. \A i \in DOMAIN queue : queue[i].task \in Task
    BY EntryFacts
  <2>4. UNCHANGED <<queue, hand, idleDone, autoStop>>
    BY <1>12 DEF Finish
  <2>5. /\ \A u \in Thread : u # t => Where(u)' = Where(u)
        /\ \A u \in Thread : pc'[u] = "exited" => pc[u] = "exited"
    BY <1>12 DEF Finish
  <2> QED  BY <2>1, <2>2, <2>3, <2>4, <2>5
<1>13. ASSUME NEW t \in Thread, Yield(t)
      PROVE  Closing'
  <2>1. hand[t] \in Task /\ Where(t) = "run" /\ Where(t)' = "swapOut"
    BY <1>13 DEF Yield
  <2>2. \A c \in Task : c # hand[t] => state'[c] = state[c]
    BY <1>13 DEF Yield
  <2>3. \A i \in DOMAIN queue : queue[i].task \in Task
    BY EntryFacts
  <2>4. UNCHANGED <<queue, hand, idleDone, autoStop>>
    BY <1>13 DEF Yield
  <2>5. /\ \A u \in Thread : u # t => Where(u)' = Where(u)
        /\ \A u \in Thread : pc'[u] = "exited" => pc[u] = "exited"
    BY <1>13 DEF Yield
  <2> QED  BY <2>1, <2>2, <2>3, <2>4, <2>5
<1>14. ASSUME NEW t \in Thread, NEW c \in Task, Schedule(t, c)
      PROVE  Closing'
  <2> DEFINE e == [task |-> c, thread |-> PinOf(c)]
  <2>1. c \in Task /\ e \in Entry /\ e.task = c /\ e.thread = PinOf(c)
    BY <1>14 DEF Schedule, Entry, PinOf
  <2>2. queue' = Append(queue, e)
    BY <1>14 DEF Schedule, ScheduleFrom
  <2> HIDE DEF e
  <2>3. /\ \A j \in DOMAIN queue' : queue'[j] = e \/ \E k \in DOMAIN queue : queue'[j] = queue[k]
        /\ \A k \in DOMAIN queue : k \in DOMAIN queue' /\ queue'[k] = queue[k]
        /\ \E j \in DOMAIN queue' : queue'[j] = e
    BY <2>1, <2>2, AppendEntry
  <2>4. UNCHANGED <<state, hand, idleDone, autoStop>>
    BY <1>14 DEF Schedule
  <2>5. /\ \A u \in Thread : Where(u)' = Where(u)
        /\ \A u \in Thread : pc'[u] = "exited" => pc[u] = "exited"
    BY <1>14 DEF Schedule, ScheduleFrom
  <2>6. autoStop => state[c] \notin Ended
    <3> SUFFICES ASSUME autoStop PROVE state[c] \notin Ended
      OBVIOUS
    <3>1. pc[t] # "user"
      BY SchedulerAssumption
    <3> QED  BY <1>14, <3>1 DEF Schedule, MaySchedule, Ended
  <2>7. \A i \in DOMAIN queue' : queue'[i].task = c \/ \E k \in DOMAIN queue : queue'[i] = queue[k]
    BY <2>1, <2>3
  <2> QED  BY <2>4, <2>5, <2>6, <2>7
<1>15. CASE Start
  BY <1>15 DEF Start
<1>16. CASE StopBegin
  BY <1>16 DEF StopBegin
<1>17. CASE StopFlag
  BY <1>17 DEF StopFlag
<1>18. CASE StopTickle
  BY <1>18 DEF StopTickle
<1>19. CASE StopRun(Stopping)
  BY <1>19 DEF StopRun
<1>20. CASE Join
  BY <1>20 DEF Join
<1>21. CASE UNCHANGED vars
  BY <1>21 DEF vars
<1> QED
  BY <1>1, <1>2, <1>3, <1>4, <1>5, <1>6, <1>7, <1>8, <1>9, <1>10, <1>11, <1>12, <1>13, <1>14, <1>15, <1>16, <1>17, <1>18, <1>19, <1>20, <1>21
     DEF Next, ThreadStep, LoopStep, TaskStep, MasterStep, Terminated

(* A thread that queues something, or takes something, or has not looked yet, keeps a thread of the loop uncommitted as long as the queue holds an entry. *)
LEMMA SomeoneStep ==
  ASSUME Base, Owned, Takeable, Tracked, Closing, Someone, [Next]_vars
  PROVE  Someone'
<1> USE SchedulerAssumption DEF Base, TypeCore, Control, Where, Thread, WorkerPc, MasterPc, At, Goto, GotoTickle, flags, Someone, Committed
<1>1. ASSUME NEW t \in Thread, ScanTake(t)
      PROVE  Someone'
  <2>1. PICK i \in DOMAIN queue :
          /\ queue' = RemoveAt(queue, i)
          /\ hand' = [hand EXCEPT ![t] = queue[i].task]
          /\ \/ GotoTickle(t, "dispatch")
             \/ Goto(t, "dispatch") /\ UNCHANGED ret
    BY <1>1 DEF ScanTake, EligibleAt
  <2>2. queue[i].task \in Task
    BY EntryFacts
  <2>3. /\ \A j \in DOMAIN queue' : \E k \in DOMAIN queue : queue'[j] = queue[k]
        /\ \A k \in DOMAIN queue : k # i => \E j \in DOMAIN queue' : queue'[j] = queue[k]
    BY <2>1, RemoveEntry
  <2>4. \A u \in Thread : hand'[u] = IF u = t THEN queue[i].task ELSE hand[u]
    BY <2>1
  <2>5. ~Committed(t)'
    BY <2>1, <2>2, <2>4
  <2>6. t \in Worker
    BY <1>1, LoopThread DEF ScanTake
  <2> QED  BY <2>5, <2>6
<1>2. ASSUME NEW t \in Thread, ScanNothing(t)
      PROVE  Someone'
  <2>1. ASSUME NEW i \in DOMAIN queue
        PROVE  Eligible(queue[i])
    <3>1. queue[i].task \in Task
      BY EntryFacts
    <3>2. state[queue[i].task] # "EXECU"
      BY <3>1 DEF Owned, OneEntry, Tracked
    <3> QED  BY <3>2 DEF Takeable, Eligible
  <2>2. DOMAIN queue = {}
    BY <1>2, <2>1 DEF ScanNothing, EligibleAt
  <2>3. queue' = <<>>
    BY <1>2, <2>2 DEF ScanNothing
  <2> QED  BY <2>3
<1>3. ASSUME NEW t \in Thread, SwapIn(t)
      PROVE  Someone'
  <2>1. ~Committed(t)'
    BY <1>3 DEF SwapIn, Abort
  <2>2. t \in Worker
    BY <1>3, LoopThread DEF SwapIn, Abort
  <2> QED  BY <2>1, <2>2
<1>4. ASSUME NEW t \in Thread, GoIdle(t)
      PROVE  Someone'
  <2>1. CASE ~idleDone[t]
    <3>1. ~Committed(t)'
      BY <1>4, <2>1 DEF GoIdle
    <3>2. t \in Worker
      BY <1>4, LoopThread DEF GoIdle
    <3> QED  BY <3>1, <3>2
  <2>2. CASE idleDone[t]
    <3>1. Committed(t)
      BY <1>4, <2>2 DEF GoIdle, Closing
    <3>2. \A u \in Thread : u # t => (Committed(u)' <=> Committed(u))
      BY <1>4 DEF GoIdle
    <3> QED  BY <1>4, <3>1, <3>2 DEF GoIdle, Worker
  <2> QED  BY <2>1, <2>2
<1>5. ASSUME NEW t \in Thread, Back(t)
      PROVE  Someone'
  <2>1. ~Committed(t)'
    BY <1>5 DEF Back
  <2>2. t \in Worker
    BY <1>5, LoopThread DEF Back
  <2> QED  BY <2>1, <2>2
<1>6. ASSUME NEW t \in Thread, PostReady(t)
      PROVE  Someone'
  <2>1. ~Committed(t)'
    BY <1>6 DEF PostReady, ScheduleFrom
  <2>2. t \in Worker
    BY <1>6, LoopThread DEF PostReady, ScheduleFrom
  <2> QED  BY <2>1, <2>2
<1>7. ASSUME NEW t \in Thread, PostOther(t)
      PROVE  Someone'
  <2>1. ~Committed(t)'
    BY <1>7 DEF PostOther
  <2>2. t \in Worker
    BY <1>7, LoopThread DEF PostOther
  <2> QED  BY <2>1, <2>2
<1>8. ASSUME NEW t \in Thread, IdleBack(t)
      PROVE  Someone'
  <2>1. ~Committed(t)'
    BY <1>8 DEF IdleBack
  <2>2. t \in Worker
    BY <1>8, LoopThread DEF IdleBack
  <2> QED  BY <2>1, <2>2
<1>9. ASSUME NEW t \in Thread, SwapOut(t)
      PROVE  Someone'
  <2>1. ~Committed(t)'
    BY <1>9 DEF SwapOut
  <2>2. t \in Worker
    BY <1>9, LoopThread DEF SwapOut
  <2> QED  BY <2>1, <2>2
<1>10. ASSUME NEW t \in Thread, Tickle(t)
      PROVE  Someone'
  <2>1. \A u \in Thread : Committed(u)' => Committed(u)
    BY <1>10 DEF Tickle
  <2> QED  BY <1>10, <2>1 DEF Tickle, Worker
<1>11. ASSUME NEW t \in Thread, Idle(t)
      PROVE  Someone'
  <2>1. ~Committed(t)'
    BY <1>11 DEF Idle
  <2>2. t \in Worker
    BY <1>11, LoopThread DEF Idle
  <2> QED  BY <2>1, <2>2
<1>12. ASSUME NEW t \in Thread, Finish(t)
      PROVE  Someone'
  <2>1. ~Committed(t)'
    BY <1>12 DEF Finish
  <2>2. t \in Worker
    BY <1>12, LoopThread DEF Finish
  <2> QED  BY <2>1, <2>2
<1>13. ASSUME NEW t \in Thread, Yield(t)
      PROVE  Someone'
  <2>1. ~Committed(t)'
    BY <1>13 DEF Yield, Abort
  <2>2. t \in Worker
    BY <1>13, LoopThread DEF Yield, Abort
  <2> QED  BY <2>1, <2>2
<1>14. ASSUME NEW t \in Thread, NEW c \in Task, Schedule(t, c)
      PROVE  Someone'
  <2>1. CASE pc[t] = "run"
    <3>1. ~Committed(t)'
      BY <1>14, <2>1 DEF Schedule, ScheduleFrom
    <3>2. t \in Worker
      BY <2>1, LoopThread
    <3> QED  BY <3>1, <3>2
  <2>2. CASE pc[t] = "user"
    <3>1. t = Master /\ ~autoStop
      BY <2>2
    <3>2. \A u \in Thread : ~idleDone[u] /\ pc[u] # "exited"
      BY <3>1 DEF Closing
    <3>3. UNCHANGED idleDone /\ \A u \in Thread : pc'[u] \in {pc[u], "tickle"}
      BY <1>14 DEF Schedule, ScheduleFrom
    <3>4. \A u \in Thread : pc[u] \notin {"exited", "join", "done"}
      BY <2>2, <3>1, <3>2
    <3>5. \A u \in Thread : ~Committed(u)'
      BY <3>2, <3>3, <3>4
    <3> QED  BY <3>5, SchedulerAssumption DEF Worker
  <2> QED  BY <1>14, <2>1, <2>2 DEF Schedule
<1>15. CASE Start
  <2>1. \A u \in Thread : Committed(u)' => Committed(u)
    BY <1>15 DEF Start
  <2> QED  BY <1>15, <2>1 DEF Start, Worker
<1>16. CASE StopBegin
  <2>1. \A u \in Thread : Committed(u)' => Committed(u)
    BY <1>16 DEF StopBegin
  <2> QED  BY <1>16, <2>1 DEF StopBegin, Worker
<1>17. CASE StopFlag
  <2>1. \A u \in Thread : Committed(u)' => Committed(u)
    BY <1>17 DEF StopFlag
  <2> QED  BY <1>17, <2>1 DEF StopFlag, Worker
<1>18. CASE StopTickle
  <2>1. \A u \in Thread : Committed(u)' => Committed(u)
    BY <1>18 DEF StopTickle
  <2> QED  BY <1>18, <2>1 DEF StopTickle, Worker
<1>19. CASE StopRun(Stopping)
  <2>1. CASE UseMaster /\ Stopping
    BY <1>19, <2>1 DEF StopRun, Stopping
  <2>2. CASE ~(UseMaster /\ Stopping)
    <3>1. \A u \in Worker : Committed(u)' => Committed(u)
      BY <1>19, <2>2 DEF StopRun, Worker
    <3> QED  BY <1>19, <3>1 DEF StopRun
  <2> QED  BY <2>1, <2>2
<1>20. CASE Join
  <2>1. \A u \in Thread : Committed(u)' => Committed(u)
    BY <1>20 DEF Join
  <2> QED  BY <1>20, <2>1 DEF Join, Worker
<1>21. CASE UNCHANGED vars
  BY <1>21 DEF vars
<1> QED
  BY <1>1, <1>2, <1>3, <1>4, <1>5, <1>6, <1>7, <1>8, <1>9, <1>10, <1>11, <1>12, <1>13, <1>14, <1>15, <1>16, <1>17, <1>18, <1>19, <1>20, <1>21
     DEF Next, ThreadStep, LoopStep, TaskStep, MasterStep, Terminated

(* What is needed of the parts at the start. *)
LEMMA DrainInit == Init => Takeable /\ Tracked /\ Closing /\ Someone
BY DEF Init, Takeable, Tracked, Closing, Someone

Drained == Takeable /\ Tracked /\ Closing /\ Someone

(* If every thread has left the loop then none of them holds a task, and none
   would look at a queue that is not empty, so it is empty. *)
LEMMA DrainedLeavesNothing == Base /\ Owned /\ Drained => NoAbandonedWork
<1> SUFFICES ASSUME Base, Owned, Drained, LoopEnded
             PROVE  queue = <<>> /\ \A c \in Task : state[c] \notin {"READY", "EXECU"}
  BY DEF NoAbandonedWork
<1>1. \A t \in Worker : Committed(t)
  BY DEF LoopEnded, Worker, Committed
<1>2. queue = <<>>
  BY <1>1 DEF Drained, Someone
<1>3. \A t \in Thread : hand[t] = None
  BY DEF LoopEnded, Base, Control, Where, Thread
<1>4. ASSUME NEW c \in Task
      PROVE  ~Queued(c) /\ ~InHand(c)
  BY <1>2, <1>3, SchedulerAssumption DEF Queued, InHand
<1>5. \A c \in Task : state[c] \notin {"READY", "EXECU"}
  BY <1>4 DEF Drained, Tracked, InHand
<1> QED  BY <1>2, <1>5

(* Scheduler::stop(), for every pool and every set of tasks: once the loop has
   ended on every thread, nothing is left in m_coros and no coroutine still
   waits to be continued, under clients that behave as TameClients says. *)
THEOREM NothingAbandoned == TameClients => (Spec => []NoAbandonedWork)
<1> SUFFICES ASSUME TameClients PROVE Spec => []NoAbandonedWork
  OBVIOUS
<1>1. ~EarlyWake
  BY DEF TameClients
<1>2. Init => Drained
  BY DrainInit DEF Drained
<1>3. Base /\ Owned /\ Drained /\ [Next]_vars => Drained'
  BY TakeableStep, TrackedStep, ClosingStep, SomeoneStep DEF Drained
<1>4. Spec => [](Base /\ Owned)
  BY <1>1, OwnedInvariant
<1> QED  BY <1>2, <1>3, <1>4, DrainedLeavesNothing, PTL DEF Spec

-----------------------------------------------------------------------------
(* The refinement of TaskPool. *)

(* Some thread has taken c and not swapped into it yet. *)
Taken(c) == \E t \in Thread : hand[t] = c /\ Where(t) = "dispatch"

(* Status, without the CASE, and the phase of the abstract pool. *)
Place(c) ==
  IF state[c] = "EXECU" THEN "running"
  ELSE IF state[c] \in Ended THEN "done"
  ELSE IF state[c] = "READY" \/ Queued(c) \/ Taken(c) THEN "waiting"
  ELSE IF state[c] = "INIT" THEN "new" ELSE "parked"

Phase == IF ~Started THEN "created" ELSE IF LoopEnded THEN "closed" ELSE "open"

(* Place is the status that the refinement mapping gives to a task. *)
LEMMA PlaceIsStatus == TypeCore => [c \in Task |-> Status(c)] = [c \in Task |-> Place(c)]
<1> SUFFICES ASSUME TypeCore, NEW c \in Task
             PROVE  Status(c) = Place(c)
  OBVIOUS
<1>1. state[c] \in State
  BY DEF TypeCore
<1>2. ToBeRun(c) <=> Queued(c) \/ Taken(c)
  BY DEF ToBeRun, Taken, Where
<1> HIDE DEF Queued, Taken, ToBeRun
<1>3. CASE state[c] = "EXECU"
  BY <1>3 DEF Status, Place, Ended
<1>4. CASE state[c] \in Ended
  BY <1>4 DEF Status, Place, Ended
<1>5. CASE state[c] = "READY"
  BY <1>5 DEF Status, Place, Ended
<1>6. CASE state[c] \in {"INIT", "HOLD"} /\ ToBeRun(c)
  BY <1>2, <1>6 DEF Status, Place, Ended
<1>7. CASE state[c] = "INIT" /\ ~ToBeRun(c)
  BY <1>2, <1>7 DEF Status, Place, Ended
<1>8. CASE state[c] = "HOLD" /\ ~ToBeRun(c)
  BY <1>2, <1>8 DEF Status, Place, Ended
<1> QED  BY <1>1, <1>3, <1>4, <1>5, <1>6, <1>7, <1>8 DEF State, Ended

(* A step that moves no task and keeps the phase is a stutter of the pool. *)
LEMMA PoolStutters ==
  ASSUME TypeCore, TypeCore', \A c \in Task : Place(c)' = Place(c), Phase' = Phase
  PROVE  UNCHANGED TP!tpVars
<1>1. [c \in Task |-> Place(c)]' = [c \in Task |-> Place(c)]
  OBVIOUS
<1>2. ([c \in Task |-> Status(c)] = [c \in Task |-> Place(c)])'
  BY PlaceIsStatus, PTL
<1> QED  BY <1>1, <1>2, PlaceIsStatus DEF TP!tpVars, Phase

(* A step that moves task d to s and keeps the phase sets the abstract status. *)
LEMMA PoolSets ==
  ASSUME TypeCore, TypeCore', NEW d \in Task, NEW s, Phase' = Phase,
         \A c \in Task : Place(c)' = IF c = d THEN s ELSE Place(c)
  PROVE  TP!Set(d, s)
<1>1. [c \in Task |-> Place(c)]' = [[c \in Task |-> Place(c)] EXCEPT ![d] = s]
  OBVIOUS
<1>2. ([c \in Task |-> Status(c)] = [c \in Task |-> Place(c)])'
  BY PlaceIsStatus, PTL
<1> QED  BY <1>1, <1>2, PlaceIsStatus DEF TP!Set, Phase

(* What the abstract actions read. *)
LEMMA PoolReads ==
  ASSUME TypeCore, NEW d \in Task
  PROVE  [c \in Task |-> Status(c)][d] = Place(d)
BY PlaceIsStatus

(* A thread in the loop, or in a task, runs on a started and open pool. *)
OpenPool == \A t \in Thread : Where(t) \in WorkerPc => Phase = "open"

(* It holds wherever the counters and the control are right. *)
LEMMA PoolOpen == Base => OpenPool
BY SchedulerAssumption
   DEF OpenPool, Base, TypeCore, Control, Where, Thread, WorkerPc, MasterPc, Phase, Started, LoopEnded

(* A step of a thread that was and is in the loop keeps the phase. *)
LEMMA PhaseKept ==
  ASSUME Base, Base', NEW t \in Thread, Where(t) \in WorkerPc, Where(t)' \in WorkerPc
  PROVE  Phase = "open" /\ Phase' = Phase
<1>1. Phase = "open"
  BY PoolOpen DEF OpenPool
<1>2. OpenPool'
  BY PoolOpen, PTL
<1> QED  BY <1>1, <1>2 DEF OpenPool

(* Nothing waits or runs when the loop has ended on every thread. *)
LEMMA ClosedIsEmpty ==
  Base /\ NoAbandonedWork => (LoopEnded => \A c \in Task : Place(c) \notin {"waiting", "running"})
<1> SUFFICES ASSUME Base, NoAbandonedWork, LoopEnded, NEW c \in Task
             PROVE  Place(c) \notin {"waiting", "running"}
  OBVIOUS
<1>1. queue = <<>> /\ state[c] \notin {"READY", "EXECU"}
  BY DEF NoAbandonedWork
<1>2. ~Queued(c)
  BY <1>1 DEF Queued
<1>3. ~Taken(c)
  BY SchedulerAssumption DEF Taken, LoopEnded, Thread, Where
<1> QED  BY <1>1, <1>2, <1>3 DEF Place, Ended

(* How a step of thread t that only moves t looks to the rest of the pool. *)
Moved(t) == \A u \in Thread : u # t => Where(u)' = Where(u) /\ hand'[u] = hand[u]

(* A step that leaves the queue and the coroutines alone, and takes nothing. *)
LEMMA PlaceKept ==
  ASSUME UNCHANGED <<queue, state>>, NEW t \in Thread, Moved(t),
         Where(t) = "dispatch" /\ hand[t] \in Task <=> Where(t)' = "dispatch" /\ hand'[t] \in Task,
         hand[t] \in Task => hand'[t] = hand[t] \/ Where(t) # "dispatch"
  PROVE  \A c \in Task : Place(c)' = Place(c)
<1>1. ASSUME NEW c \in Task
      PROVE  Taken(c)' <=> Taken(c)
  BY DEF Taken, Moved
<1>2. ASSUME NEW c \in Task
      PROVE  Queued(c)' <=> Queued(c)
  BY DEF Queued
<1> QED  BY <1>1, <1>2 DEF Place

(* Taking an entry leaves its task waiting. *)
LEMMA PoolScanTake ==
  ASSUME Base, Base', NEW t \in Thread, ScanTake(t)
  PROVE  UNCHANGED TP!tpVars
<1> USE DEF Base
<1>1. PICK i \in DOMAIN queue :
        /\ queue' = RemoveAt(queue, i)
        /\ hand' = [hand EXCEPT ![t] = queue[i].task]
        /\ \/ GotoTickle(t, "dispatch")
           \/ Goto(t, "dispatch") /\ UNCHANGED ret
  BY DEF ScanTake, EligibleAt
<1>2. queue[i].task \in Task
  BY EntryFacts
<1>3. queue \in Seq(Entry)
  BY DEF TypeCore
<1>4. /\ \A j \in DOMAIN queue' : \E k \in DOMAIN queue : queue'[j] = queue[k]
      /\ \A k \in DOMAIN queue : k # i => \E j \in DOMAIN queue' : queue'[j] = queue[k]
  BY <1>1, <1>3, RemoveEntry
<1>5. \A u \in Thread : hand'[u] = IF u = t THEN queue[i].task ELSE hand[u]
  BY <1>1 DEF TypeCore
<1>6. \A u \in Thread : Where(u)' = IF u = t THEN "dispatch" ELSE Where(u)
  BY <1>1 DEF Where, TypeCore, Goto, GotoTickle
<1>7. UNCHANGED state /\ Where(t) = "scan"
  BY DEF ScanTake, Where, At
<1>8. ASSUME NEW c \in Task
      PROVE  Queued(c)' \/ Taken(c)' <=> Queued(c) \/ Taken(c)
  <2>1. ASSUME Queued(c)' PROVE Queued(c)
    BY <1>4, <2>1 DEF Queued
  <2>2. ASSUME Taken(c)' PROVE Queued(c) \/ Taken(c)
    BY <1>5, <1>6, <2>2 DEF Queued, Taken
  <2>3. ASSUME Queued(c) PROVE Queued(c)' \/ Taken(c)'
    <3>1. PICK k \in DOMAIN queue : queue[k].task = c
      BY <2>3 DEF Queued
    <3>2. CASE k = i
      BY <1>5, <1>6, <3>1, <3>2 DEF Taken
    <3>3. CASE k # i
      BY <1>4, <3>1, <3>3 DEF Queued
    <3> QED  BY <3>2, <3>3
  <2>4. ASSUME Taken(c) PROVE Taken(c)'
    BY <1>5, <1>6, <1>7, <2>4 DEF Taken
  <2> QED  BY <2>1, <2>2, <2>3, <2>4
<1>9. \A c \in Task : Place(c)' = Place(c)
  BY <1>7, <1>8 DEF Place
<1>10. Phase' = Phase
  BY <1>6, <1>7, PhaseKept DEF WorkerPc
<1> QED  BY <1>9, <1>10, PoolStutters

(* A step of a thread that has not left the loop before or after it does not
   close the pool. *)
LEMMA PhaseSame ==
  ASSUME NEW t \in Thread, pc[t] \notin {"exited", "join", "done"},
         pc'[t] \notin {"exited", "join", "done"}, Started' = Started
  PROVE  Phase' = Phase
BY DEF Phase, LoopEnded, Thread

(* The steps that neither take a task nor change a coroutine. *)
LEMMA PoolQuiet ==
  ASSUME Base, Base', NEW t \in Thread,
         \/ ScanNothing(t) \/ Back(t) \/ SwapOut(t)
         \/ IdleBack(t) \/ Tickle(t) \/ Idle(t)
  PROVE  UNCHANGED TP!tpVars
<1> USE SchedulerAssumption
    DEF Base, ScanNothing, Back, SwapOut, IdleBack, Tickle, Idle, At
<1>1. UNCHANGED <<queue, state, hand, flags>>
  OBVIOUS
<1>2. \A u \in Thread : u # t => Where(u)' = Where(u)
  BY DEF Where, TypeCore, Goto, GotoTickle
<1>3. Where(t) = "dispatch" /\ hand[t] \in Task <=> Where(t)' = "dispatch" /\ hand'[t] \in Task
  BY DEF Where, TypeCore, Control, Goto, GotoTickle
<1>4. \A c \in Task : Place(c)' = Place(c)
  BY <1>1, <1>2, <1>3, PlaceKept DEF Moved
<1>5. pc[t] \notin {"exited", "join", "done"} /\ pc'[t] \notin {"exited", "join", "done"}
  BY DEF TypeCore, Goto, GotoTickle
<1>6. Phase' = Phase
  BY <1>1, <1>5, PhaseSame DEF Started, flags
<1> QED  BY <1>4, <1>6, PoolStutters

(* What the master does before the loop ends on its thread. *)
LEMMA PoolMaster ==
  ASSUME Base, Base', StopBegin \/ StopFlag \/ StopTickle \/ Join
  PROVE  UNCHANGED TP!tpVars
<1> USE SchedulerAssumption
    DEF Base, StopBegin, StopFlag, StopTickle, Join, At
<1>0. Master \in Thread
  BY DEF Thread
<1>1. UNCHANGED <<queue, state, hand>>
  BY DEF flags
<1>2. \A u \in Thread : u # Master => Where(u)' = Where(u) /\ pc'[u] = pc[u]
  BY DEF Where, TypeCore, Goto, GotoTickle
<1>3. Where(Master) # "dispatch" /\ Where(Master)' # "dispatch"
  BY <1>0 DEF Where, TypeCore, Control, Goto, GotoTickle
<1>4. \A c \in Task : Place(c)' = Place(c)
  BY <1>0, <1>1, <1>2, <1>3, PlaceKept DEF Moved
<1>5. Started' = Started
  BY <1>0 DEF Started, Control, Where, flags, TypeCore
<1>6. pc'[Master] \in {"join", "done"} <=> pc[Master] \in {"join", "done"}
  BY <1>0 DEF TypeCore, Goto, GotoTickle
<1>7. LoopEnded' <=> LoopEnded
  BY <1>2, <1>6 DEF LoopEnded, Thread
<1>8. Phase' = Phase
  BY <1>5, <1>7 DEF Phase
<1> QED  BY <1>4, <1>8, PoolStutters

(* start() opens the pool. *)
LEMMA PoolStart ==
  ASSUME Base, Base', Start
  PROVE  TP!Open
<1> USE SchedulerAssumption DEF Base, Start, At
<1>0. Master \in Thread
  BY DEF Thread
<1>1. UNCHANGED <<queue, state, hand>>
  OBVIOUS
<1>2. \A u \in Thread : hand[u] # None => Where(u)' = Where(u)
  BY DEF Where, TypeCore, Control, Thread
<1>3. \A u \in Thread : Where(u)' = "dispatch" => Where(u) = "dispatch"
  BY DEF Where, TypeCore, Thread
<1>4. ASSUME NEW c \in Task
      PROVE  Taken(c)' <=> Taken(c)
  BY <1>1, <1>2, <1>3 DEF Taken
<1>5. \A c \in Task : Place(c)' = Place(c)
  BY <1>1, <1>4 DEF Place, Queued
<1>6. [c \in Task |-> Place(c)]' = [c \in Task |-> Place(c)]
  BY <1>5
<1>7. ([c \in Task |-> Status(c)] = [c \in Task |-> Place(c)])'
  BY PlaceIsStatus, PTL DEF Base
<1>8. Phase = "created" /\ Phase' = "open"
  BY <1>0 DEF Phase, Started, LoopEnded, TypeCore, Control, Where
<1> QED  BY <1>6, <1>7, <1>8, PlaceIsStatus DEF TP!Open, Phase

(* The loop ends on the last thread: an open pool is closed, or nothing happens. *)
LEMMA PoolEnds ==
  ASSUME Base, Base', NoAbandonedWork', Started, ~LoopEnded, Started' = Started,
         \A c \in Task : Place(c)' = Place(c)
  PROVE  TP!Close \/ UNCHANGED TP!tpVars
<1>1. CASE ~LoopEnded'
  <2>1. Phase' = Phase
    BY <1>1 DEF Phase
  <2> QED  BY <2>1, PoolStutters DEF Base
<1>2. CASE LoopEnded'
  <2>1. (LoopEnded => \A c \in Task : Place(c) \notin {"waiting", "running"})'
    BY ClosedIsEmpty, PTL
  <2>2. \A c \in Task : Place(c) \notin {"waiting", "running"}
    BY <1>2, <2>1
  <2>3. Phase = "open" /\ Phase' = "closed"
    BY <1>2 DEF Phase
  <2>4. [c \in Task |-> Place(c)]' = [c \in Task |-> Place(c)]
    OBVIOUS
  <2>5. ([c \in Task |-> Status(c)] = [c \in Task |-> Place(c)])'
    BY PlaceIsStatus, PTL DEF Base
  <2> QED  BY <2>2, <2>3, <2>4, <2>5, PlaceIsStatus DEF TP!Close, Phase, Base
<1> QED  BY <1>1, <1>2

(* A thread enters its idle coroutine or leaves the loop; the coroutine it may
   have in hand has ended. *)
LEMMA PoolGoIdle ==
  ASSUME Base, Base', NoAbandonedWork', NEW t \in Thread, GoIdle(t)
  PROVE  TP!Close \/ UNCHANGED TP!tpVars
<1> USE DEF Base, GoIdle, At
<1>1. UNCHANGED <<queue, state, autoStop, stopping>>
  BY DEF flags
<1>2. \A u \in Thread : u # t => Where(u)' = Where(u) /\ hand'[u] = hand[u]
  BY DEF Where, TypeCore, Goto
<1>3. Where(t) = "dispatch" /\ hand'[t] = None /\ (hand[t] # None => state[hand[t]] \in Ended)
  BY DEF Where, TypeCore
<1>4. ASSUME NEW c \in Task, state[c] \notin Ended
      PROVE  Taken(c)' <=> Taken(c)
  BY <1>2, <1>3, <1>4, SchedulerAssumption DEF Taken
<1>5. \A c \in Task : Place(c)' = Place(c)
  BY <1>1, <1>4 DEF Place, Queued
<1>6. Phase = "open"
  BY <1>3, PoolOpen DEF OpenPool, WorkerPc
<1>7. Started /\ ~LoopEnded
  BY <1>6 DEF Phase
<1> QED  BY <1>1, <1>5, <1>7, PoolEnds DEF Started

(* stop() enters the loop on the master's thread, or skips it. *)
LEMMA PoolStopRun ==
  ASSUME Base, Base', NoAbandonedWork', StopRun(Stopping)
  PROVE  TP!Close \/ UNCHANGED TP!tpVars
<1> USE SchedulerAssumption DEF Base, StopRun, At
<1>0. Master \in Thread /\ Where(Master) = "stopRun"
  BY DEF Thread, Where
<1>1. UNCHANGED <<queue, state, hand, autoStop, stopping>>
  BY DEF flags
<1>2. \A u \in Thread : u # Master => Where(u)' = Where(u)
  BY DEF Where, TypeCore, Goto
<1>3. Where(Master)' # "dispatch"
  BY <1>0 DEF Where, TypeCore, Goto
<1>4. \A c \in Task : Place(c)' = Place(c)
  BY <1>0, <1>1, <1>2, <1>3, PlaceKept DEF Moved
<1>5. Started /\ ~LoopEnded
  BY <1>0 DEF Started, LoopEnded, Control, TypeCore
<1> QED  BY <1>1, <1>4, <1>5, PoolEnds DEF Started

(* swapIn() runs a waiting task. *)
LEMMA PoolSwapIn ==
  ASSUME Base, Base', ~aborted', NEW t \in Thread, SwapIn(t)
  PROVE  \E d \in Task : TP!Run(d)
<1> USE DEF Base, At
<1> DEFINE d == hand[t]
<1>1. d \in Task /\ Where(t) = "dispatch" /\ state[d] \notin Ended /\ state[d] # "EXECU"
  BY DEF SwapIn, Where, TypeCore, Abort
<1>2. \A c \in Task : state'[c] = IF c = d THEN "EXECU" ELSE state[c]
  BY <1>1 DEF SwapIn, TypeCore, Abort
<1>3. \A u \in Thread : Where(u)' = IF u = t THEN "run" ELSE Where(u)
  BY <1>1 DEF SwapIn, TypeCore, Abort, Goto, Where
<1>4. UNCHANGED <<queue, hand>>
  BY DEF SwapIn
<1>5. \A c \in Task : c # d => (Taken(c)' <=> Taken(c))
  BY <1>3, <1>4 DEF Taken
<1>6. Place(d) = "waiting"
  BY <1>1 DEF Place, Taken
<1> HIDE DEF d
<1>7. \A c \in Task : Place(c)' = IF c = d THEN "running" ELSE Place(c)
  BY <1>2, <1>4, <1>5 DEF Place, Queued
<1>8. Phase = "open" /\ Phase' = Phase
  BY <1>1, <1>3, PhaseKept DEF WorkerPc
<1>9. TP!Set(d, "running")
  BY <1>1, <1>7, <1>8, PoolSets
<1> QED  BY <1>1, <1>6, <1>8, <1>9, PoolReads DEF TP!Run, Phase

(* A running task ends or yields: it is done, parked, or waits again. *)
LEMMA PoolPause ==
  ASSUME Base, Base', Owned, ~aborted', NEW t \in Thread, Finish(t) \/ Yield(t)
  PROVE  \E d \in Task : TP!Pause(d)
<1> USE DEF Base, At
<1> DEFINE d == hand[t]
<1>1. d \in Task /\ Where(t) = "run"
  BY DEF Finish, Yield, Where, TypeCore, Control
<1>2. state[d] = "EXECU"
  BY <1>1, SchedulerAssumption DEF Owned, Staged
<1>3. PICK s \in Ended \cup {"HOLD", "READY"} :
        \A c \in Task : state'[c] = IF c = d THEN s ELSE state[c]
  <2>1. PICK s \in Ended \cup {"HOLD", "READY"} : state' = [state EXCEPT ![d] = s]
    <3>1. CASE Finish(t)
      BY <3>1 DEF Finish
    <3>2. CASE Yield(t)
      BY <1>2, <3>2 DEF Yield
    <3> QED  BY <3>1, <3>2
  <2> QED  BY <2>1 DEF TypeCore
<1>4. /\ Where(t)' \in {"swapOut", "back"}
      /\ \A u \in Thread : u # t => Where(u)' = Where(u)
  BY <1>1, <1>2 DEF Finish, Yield, TypeCore, Goto, Where
<1>5. UNCHANGED <<queue, hand>>
  BY DEF Finish, Yield
<1>6. \A c \in Task : Taken(c)' <=> Taken(c)
  BY <1>1, <1>4, <1>5 DEF Taken
<1>7. \A c \in Task : Queued(c)' <=> Queued(c)
  BY <1>5 DEF Queued
<1>8. ~Queued(d) /\ ~Taken(d)
  BY <1>1, SchedulerAssumption DEF Owned, OneEntry, OneHand, Queued, Taken
<1> HIDE DEF d
<1> DEFINE p == IF s \in Ended THEN "done" ELSE IF s = "READY" THEN "waiting" ELSE "parked"
<1>9. \A c \in Task : Place(c)' = IF c = d THEN p ELSE Place(c)
  BY <1>3, <1>6, <1>7, <1>8 DEF Place, Ended
<1>10. p \in {"waiting", "parked", "done"}
  OBVIOUS
<1> HIDE DEF p
<1>11. Phase' = Phase
  BY <1>1, <1>4, PhaseKept DEF WorkerPc
<1>12. TP!Set(d, p)
  BY <1>1, <1>9, <1>11, PoolSets
<1>13. Place(d) = "running"
  BY <1>2 DEF Place
<1> QED  BY <1>1, <1>10, <1>12, <1>13, PoolReads DEF TP!Pause

(* A coroutine that came back ready is queued again: it waits on. *)
LEMMA PoolPostReady ==
  ASSUME Base, Base', NEW t \in Thread, PostReady(t)
  PROVE  UNCHANGED TP!tpVars
<1> USE DEF Base, PostReady, At
<1> DEFINE d == hand[t]
           e == [task |-> d, thread |-> None]
<1>1. d \in Task /\ Where(t) = "post" /\ state[d] = "READY"
  BY DEF Where, TypeCore, Control
<1>2. e \in Entry /\ e.task = d /\ queue' = Append(queue, e)
  BY <1>1 DEF Entry, ScheduleFrom
<1>3. queue \in Seq(Entry)
  BY DEF TypeCore
<1> HIDE DEF d, e
<1>4. /\ \A j \in DOMAIN queue' : queue'[j] = e \/ \E k \in DOMAIN queue : queue'[j] = queue[k]
      /\ \A k \in DOMAIN queue : k \in DOMAIN queue' /\ queue'[k] = queue[k]
  BY <1>2, <1>3, AppendEntry
<1>5. \A c \in Task : c # d => (Queued(c)' <=> Queued(c))
  BY <1>2, <1>4 DEF Queued
<1>6. \A u \in Thread : Where(u)' = IF u = t THEN "scan" ELSE Where(u)
  BY DEF ScheduleFrom, Goto, GotoTickle, TypeCore, Where
<1>7. UNCHANGED state /\ \A u \in Thread : u # t => hand'[u] = hand[u]
  OBVIOUS
<1>8. \A c \in Task : Taken(c)' <=> Taken(c)
  BY <1>1, <1>6, <1>7 DEF Taken
<1>9. \A c \in Task : Place(c)' = Place(c)
  BY <1>1, <1>5, <1>7, <1>8 DEF Place, Ended
<1>10. Phase' = Phase
  BY <1>1, <1>6, PhaseKept DEF WorkerPc
<1> QED  BY <1>9, <1>10, PoolStutters

(* run() stores HOLD into what did not come back ready and has not ended; it
   is parked already. *)
LEMMA PoolPostOther ==
  ASSUME Base, Base', Owned, NEW t \in Thread, PostOther(t)
  PROVE  UNCHANGED TP!tpVars
<1> USE DEF Base, PostOther, At
<1>1. hand[t] \in Task /\ Where(t) = "post"
  BY DEF Where, TypeCore, Control
<1>2. state[hand[t]] \in Ended \cup {"HOLD"}
  BY <1>1, SchedulerAssumption DEF Owned, Staged, Ended
<1>3. UNCHANGED <<queue, state>>
  BY <1>1, <1>2 DEF TypeCore
<1>4. \A u \in Thread : Where(u)' = IF u = t THEN "scan" ELSE Where(u)
  BY DEF Goto, TypeCore, Where
<1>5. \A u \in Thread : u # t => hand'[u] = hand[u]
  OBVIOUS
<1>6. \A c \in Task : Place(c)' = Place(c)
  BY <1>1, <1>3, <1>4, <1>5, PlaceKept DEF Moved
<1>7. Phase' = Phase
  BY <1>1, <1>4, PhaseKept DEF WorkerPc
<1> QED  BY <1>6, <1>7, PoolStutters

(* schedule() submits a new or parked task; one that has ended stays ended. *)
LEMMA PoolSchedule ==
  ASSUME TameClients, Base, Base', NEW t \in Thread, NEW d \in Task, Schedule(t, d)
  PROVE  TP!Submit(d) \/ UNCHANGED TP!tpVars
<1> USE DEF Base, Schedule, At
<1> DEFINE e == [task |-> d, thread |-> PinOf(d)]
<1>1. e \in Entry /\ e.task = d /\ queue' = Append(queue, e)
  BY SchedulerAssumption DEF Entry, ScheduleFrom, PinOf
<1>2. queue \in Seq(Entry)
  BY DEF TypeCore
<1> HIDE DEF e
<1>3. /\ \A j \in DOMAIN queue' : queue'[j] = e \/ \E k \in DOMAIN queue : queue'[j] = queue[k]
      /\ \A k \in DOMAIN queue : k \in DOMAIN queue' /\ queue'[k] = queue[k]
      /\ \E j \in DOMAIN queue' : queue'[j] = e
  BY <1>1, <1>2, AppendEntry
<1>4. Queued(d)' /\ \A c \in Task : c # d => (Queued(c)' <=> Queued(c))
  BY <1>1, <1>3 DEF Queued
<1>5. UNCHANGED <<state, hand>> /\ \A u \in Thread : Where(u)' = Where(u)
  BY DEF ScheduleFrom, Goto, GotoTickle, TypeCore, Where
<1>6. \A c \in Task : Taken(c)' <=> Taken(c)
  BY <1>5 DEF Taken
<1>7. ~Queued(d) /\ ~Taken(d) /\ state[d] \in {"INIT", "HOLD"} \cup Ended
  BY DEF MaySchedule, TameClients, InHand, Taken
<1>8. pc[t] \notin {"exited", "join", "done"} /\ pc'[t] \notin {"exited", "join", "done"}
  BY DEF ScheduleFrom, Goto, GotoTickle, TypeCore
<1>9. Phase' = Phase /\ Phase # "closed"
  BY <1>8, PhaseSame DEF Started, flags, Phase, LoopEnded, Thread
<1>10. CASE state[d] \in Ended
  <2>1. \A c \in Task : Place(c)' = Place(c)
    BY <1>4, <1>5, <1>6, <1>10 DEF Place
  <2> QED  BY <1>9, <2>1, PoolStutters
<1>11. CASE state[d] \notin Ended
  <2>1. Place(d) \in {"new", "parked"}
    BY <1>7, <1>11 DEF Place, Ended
  <2>2. \A c \in Task : Place(c)' = IF c = d THEN "waiting" ELSE Place(c)
    BY <1>4, <1>5, <1>6, <1>7, <1>11 DEF Place, Ended
  <2>3. TP!Set(d, "waiting")
    BY <1>9, <2>2, PoolSets
  <2> QED  BY <1>9, <2>1, <2>3, PoolReads DEF TP!Submit, Phase
<1> QED  BY <1>10, <1>11

(* Every step of the scheduler is a step of the abstract pool or a stutter. *)
LEMMA PoolStep ==
  ASSUME TameClients, Base, Owned, Base', Owned', NoAbandonedWork', [Next]_vars
  PROVE  [TP!Next]_TP!tpVars
<1>0. ~aborted'
  BY DEF Owned
<1>1. ASSUME NEW t \in Thread, ScanTake(t)
      PROVE  UNCHANGED TP!tpVars
  BY <1>1, PoolScanTake
<1>2. ASSUME NEW t \in Thread,
             \/ ScanNothing(t) \/ Back(t) \/ SwapOut(t)
             \/ IdleBack(t) \/ Tickle(t) \/ Idle(t)
      PROVE  UNCHANGED TP!tpVars
  BY <1>2, PoolQuiet
<1>3. ASSUME NEW t \in Thread, SwapIn(t)
      PROVE  TP!Next
  BY <1>0, <1>3, PoolSwapIn DEF TP!Next
<1>4. ASSUME NEW t \in Thread, GoIdle(t)
      PROVE  TP!Next \/ UNCHANGED TP!tpVars
  BY <1>4, PoolGoIdle DEF TP!Next
<1>5. ASSUME NEW t \in Thread, PostReady(t)
      PROVE  UNCHANGED TP!tpVars
  BY <1>5, PoolPostReady
<1>6. ASSUME NEW t \in Thread, PostOther(t)
      PROVE  UNCHANGED TP!tpVars
  BY <1>6, PoolPostOther
<1>7. ASSUME NEW t \in Thread, Finish(t) \/ Yield(t)
      PROVE  TP!Next
  BY <1>0, <1>7, PoolPause DEF TP!Next
<1>8. ASSUME NEW t \in Thread, NEW c \in Task, Schedule(t, c)
      PROVE  TP!Next \/ UNCHANGED TP!tpVars
  BY <1>8, PoolSchedule DEF TP!Next
<1>9. CASE Start
  BY <1>9, PoolStart DEF TP!Next
<1>10. CASE StopBegin \/ StopFlag \/ StopTickle \/ Join
  BY <1>10, PoolMaster
<1>11. CASE StopRun(Stopping)
  BY <1>11, PoolStopRun DEF TP!Next
<1>12. CASE UNCHANGED vars
  <2>1. UNCHANGED <<queue, state, hand, pc, ret, autoStop, stopping>>
    BY <1>12 DEF vars
  <2>2. \A c \in Task : Place(c)' = Place(c)
    BY <2>1 DEF Place, Queued, Taken, Where
  <2>3. Phase' = Phase
    BY <2>1 DEF Phase, Started, LoopEnded
  <2> QED  BY <2>2, <2>3, PoolStutters DEF Base
<1> HIDE DEF TP!Next
<1> QED
  BY <1>1, <1>2, <1>3, <1>4, <1>5, <1>6, <1>7, <1>8, <1>9, <1>10, <1>11, <1>12
     DEF Next, ThreadStep, LoopStep, TaskStep, MasterStep, Terminated

(* Before start() every task is new. *)
LEMMA PoolInit == Init /\ Base => TP!Init
<1> SUFFICES ASSUME Init, Base PROVE TP!Init
  OBVIOUS
<1>1. \A c \in Task : Place(c) = "new"
  BY SchedulerAssumption DEF Init, Place, Taken, Queued, Ended
<1>2. Phase = "created"
  BY DEF Init, Phase, Started
<1>3. [c \in Task |-> Status(c)] = [c \in Task |-> "new"]
  BY <1>1, PlaceIsStatus DEF Base
<1> QED  BY <1>2, <1>3 DEF TP!Init, Phase

(* The refinement, for every pool and every set of tasks: the threads, the
   queue and the counters together are the abstract pool.  Nothing is run
   twice for one schedule(), dropped, revived after its end, or left behind
   when the loop has ended on every thread. *)
THEOREM PoolImplemented == TameClients => (Spec => ImplementsTaskPool)
<1> SUFFICES ASSUME TameClients PROVE Spec => ImplementsTaskPool
  OBVIOUS
<1>1. ~EarlyWake
  BY DEF TameClients
<1>2. Spec => [](Base /\ Owned)
  BY <1>1, OwnedInvariant
<1>3. Spec => []NoAbandonedWork
  BY NothingAbandoned
<1>4. Init /\ Base => TP!Init
  BY PoolInit
<1>5. Base /\ Owned /\ Base' /\ Owned' /\ NoAbandonedWork' /\ [Next]_vars => [TP!Next]_TP!tpVars
  BY PoolStep
<1> QED  BY <1>2, <1>3, <1>4, <1>5, PTL DEF Spec, ImplementsTaskPool, TP!Spec

-----------------------------------------------------------------------------
(***************************************************************************)
(* IOManager.  IOTypes and IOControl are TypeCore and Control with the      *)
(* places of idle() and stopping() that IOManager adds.                     *)
(***************************************************************************)
(* Where a thread is, or, inside tickle() or addTimer(), where it returns to. *)
IOWhere(t) == IF pc[t] \in {"tickle", "notify"} THEN ret[t] ELSE pc[t]

(* Where run() and idle() can be, but for tickle() and addTimer(). *)
LoopPc == (WorkerPc \ {"tickle"}) \cup IdlePc \cup {"cancelDone"}
InTask == {"run", "swapOut", "back", "post"}
IORet == {"dispatch", "run", "scan", "user", "stopTickle", "events", "eventDone", "cancelDone"}

IOTypes ==
  /\ queue \in Seq(Entry)
  /\ autoStop \in BOOLEAN /\ stopping \in BOOLEAN
  /\ pc \in [Thread -> LoopPc \cup MasterPc \cup {"tickle", "notify", "stopPending", "stopQueue", "off", "exited"}]
  /\ ret \in [Thread -> IORet]
  /\ hand \in [Thread -> Task \cup {None}]
  /\ idleDone \in [Thread -> BOOLEAN] /\ next \in [Thread -> BOOLEAN]
  /\ IsFiniteSet(waiting)
  /\ timers \subseteq Task /\ IsFiniteSet(timers) /\ due \subseteq timers /\ recurs \subseteq timers
  /\ cbs \in [Thread -> SUBSET Task] /\ \A t \in Thread : IsFiniteSet(cbs[t])

(* The thread runs neither a task nor the loop: Master before stop(). *)
UserSide(t) == IOWhere(t) = "user" \/ (IOWhere(t) = "cancelDone" /\ hand[t] = None)

(* Which threads hold a task, and who can be where. *)
IOControl ==
  /\ \A t \in Thread : IOWhere(t) \in InTask => hand[t] # None
  /\ \A t \in Thread : IOWhere(t) \notin InTask \cup {"dispatch", "cancelDone"} => hand[t] = None
  /\ \A t \in Pool : IOWhere(t) \in LoopPc \cup {"off", "exited"} /\ ~UserSide(t)
  /\ IOWhere(Master) \in LoopPc \cup MasterPc \cup {"stopPending", "stopQueue"}
  /\ ~UseMaster => IOWhere(Master) \in MasterPc \/ UserSide(Master)
  /\ autoStop <=> ~UserSide(Master)
  /\ stopping /\ ~autoStop => \A t \in Pool : pc[t] = "off"
  /\ \A t \in Thread : pc[t] = "notify" => ret[t] \in {"run", "user"}

IOBase == IOTypes /\ IOControl

(* The entries of callbacks that schedule(begin, end) gets in this order. *)
Entries(order) == [i \in DOMAIN order |-> [task |-> order[i], thread |-> None]]

(* One element more or fewer leaves a finite set finite. *)
LEMMA FiniteStays ==
  ASSUME NEW S, NEW x, IsFiniteSet(S)
  PROVE  IsFiniteSet(S \cup {x}) /\ IsFiniteSet(S \ {x})
  BY FS_AddElement, FS_RemoveElement

(* schedule(begin, end) appends the callbacks in some order. *)
LEMMA PushFacts ==
  ASSUME NEW q \in Seq(Entry), NEW S, S \subseteq Task, IsFiniteSet(S), NEW order \in SetToSeqs(S)
  PROVE  q \o Entries(order) \in Seq(Entry)
<1> DEFINE n == Cardinality(S)
           r == Entries(order)
<1>1. n \in Nat
  BY FS_CardinalityType
<1>2. order \in [1..n -> S]
  BY DEF SetToSeqs
<1>3. r \in [1..n -> Entry]
  <2> SUFFICES ASSUME NEW i \in 1..n PROVE [task |-> order[i], thread |-> None] \in Entry
    BY <1>2 DEF Entries
  <2>1. order[i] \in Task
    BY <1>2
  <2> QED  BY <2>1 DEF Entry
<1> HIDE DEF n, r
<1>4. r \in Seq(Entry)
  BY <1>1, <1>3, SeqDef
<1>5. q \o r \in Seq(Entry)
  BY <1>4, ConcatProperties
<1> QED  BY <1>5 DEF r

(* What schedule(begin, end) does to the queue ... *)
LEMMA PushQueue ==
  ASSUME NEW t \in Thread, PushCbs(t)
  PROVE  \E order \in SetToSeqs(cbs[t]) : queue' = queue \o Entries(order)
BY DEF PushCbs, Entries

(* ... and to everything else. *)
LEMMA PushRest ==
  ASSUME NEW t \in Thread, PushCbs(t)
  PROVE  /\ At(t, "pushCbs")
         /\ GotoTickle(t, "events") \/ (Goto(t, "events") /\ UNCHANGED ret)
         /\ cbs' = [cbs EXCEPT ![t] = {}]
         /\ UNCHANGED <<active, idle, flags, hand, idleDone, pending, waiting, timers, recurs, due>>
         /\ UNCHANGED <<tickled, pipeReady, next, orphans>>
BY DEF PushCbs

(* Every step keeps the types. *)
LEMMA IOTypesStep ==
  ASSUME IOBase, [IONext]_allVars
  PROVE  IOTypes'
<1> USE SchedulerAssumption DEF IOBase, IOTypes, IOControl, IOWhere, UserSide, LoopPc, InTask, IORet, Thread,
        WorkerPc, MasterPc, IdlePc, At, Goto, GotoTickle, flags, ioVars
<1>0. IsFiniteSet(waiting) /\ IsFiniteSet(timers)
  OBVIOUS
<1>1. ASSUME NEW t \in Thread, ScanTake(t) /\ UNCHANGED ioVars
      PROVE  IOTypes'
  <2>1. PICK i \in DOMAIN queue :
          /\ queue' = RemoveAt(queue, i)
          /\ hand' = [hand EXCEPT ![t] = queue[i].task]
          /\ \/ GotoTickle(t, "dispatch")
             \/ Goto(t, "dispatch") /\ UNCHANGED ret
    BY <1>1 DEF ScanTake, EligibleAt
  <2>2. queue[i].task \in Task
    <3>1. queue[i] \in Entry
      OBVIOUS
    <3> QED  BY <3>1 DEF Entry
  <2>3. queue' \in Seq(Entry)
    BY <2>1, RemoveAtFacts
  <2>4. hand' \in [Thread -> Task \cup {None}]
    BY <2>1, <2>2
  <2>5. /\ pc' \in [Thread -> LoopPc \cup MasterPc \cup {"tickle", "notify", "stopPending", "stopQueue", "off", "exited"}]
        /\ ret' \in [Thread -> IORet]
    BY <2>1
  <2> QED  BY <1>1, <2>3, <2>4, <2>5 DEF ScanTake
<1>2. ASSUME NEW t \in Thread, ScanNothing(t) /\ UNCHANGED ioVars
      PROVE  IOTypes'
  BY <1>2 DEF ScanNothing
<1>3. ASSUME NEW t \in Thread, SwapIn(t) /\ UNCHANGED ioVars
      PROVE  IOTypes'
  BY <1>3 DEF SwapIn
<1>4. ASSUME NEW t \in Thread, GoIdle(t) /\ UNCHANGED ioVars
      PROVE  IOTypes'
  BY <1>4 DEF GoIdle
<1>5. ASSUME NEW t \in Thread, Back(t) /\ UNCHANGED ioVars
      PROVE  IOTypes'
  BY <1>5 DEF Back
<1>6. ASSUME NEW t \in Thread, PostReady(t) /\ UNCHANGED ioVars
      PROVE  IOTypes'
  BY <1>6, AppendFacts DEF PostReady, ScheduleFrom
<1>7. ASSUME NEW t \in Thread, PostOther(t) /\ UNCHANGED ioVars
      PROVE  IOTypes'
  BY <1>7 DEF PostOther
<1>8. ASSUME NEW t \in Thread, IdleBack(t) /\ UNCHANGED ioVars
      PROVE  IOTypes'
  BY <1>8 DEF IdleBack
<1>9. ASSUME NEW t \in Thread, SwapOut(t) /\ UNCHANGED ioVars
      PROVE  IOTypes'
  BY <1>9 DEF SwapOut
<1>10. ASSUME NEW t \in Thread, IOTickle(t)
      PROVE  IOTypes'
  BY <1>10 DEF IOTickle, Tickle
<1>11. ASSUME NEW t \in Thread, ReadNext(t, "idle", "checkPending")
      PROVE  IOTypes'
  BY <1>11 DEF ReadNext
<1>12. ASSUME NEW t \in Thread, ReadPending(t, "checkPending", "checkQueue", "epoll")
      PROVE  IOTypes'
  BY <1>12 DEF ReadPending
<1>13. ASSUME NEW t \in Thread, IdleQueue(t)
      PROVE  IOTypes'
  BY <1>13 DEF IdleQueue, IOStopping, Stopping
<1>14. ASSUME NEW t \in Thread, EpollReady(t) \/ EpollTimeout(t)
      PROVE  IOTypes'
  BY <1>14 DEF EpollReady, EpollTimeout
<1>15. ASSUME NEW t \in Thread, TakeTimers(t)
      PROVE  IOTypes'
  <2>1. IsFiniteSet(due) /\ IsFiniteSet(timers \ (due \ recurs))
    BY FS_Subset
  <2>2. cbs' \in [Thread -> SUBSET Task] /\ \A u \in Thread : IsFiniteSet(cbs'[u])
    BY <1>15, <2>1 DEF TakeTimers
  <2>3. pc' \in [Thread -> LoopPc \cup MasterPc \cup {"tickle", "notify", "stopPending", "stopQueue", "off", "exited"}]
    BY <1>15 DEF TakeTimers
  <2> QED  BY <1>15, <2>1, <2>2, <2>3 DEF TakeTimers
<1>16. ASSUME NEW t \in Thread, PushCbs(t)
      PROVE  IOTypes'
  <2>1. queue' \in Seq(Entry)
    <3>1. cbs[t] \subseteq Task /\ IsFiniteSet(cbs[t])
      OBVIOUS
    <3>2. PICK order \in SetToSeqs(cbs[t]) :
            queue' = queue \o Entries(order)
      BY <1>16, PushQueue, Zenon
    <3>3. queue \in Seq(Entry)
      OBVIOUS
    <3> QED  BY <3>1, <3>2, <3>3, PushFacts
  <2>2. /\ pc' \in [Thread -> LoopPc \cup MasterPc \cup {"tickle", "notify", "stopPending", "stopQueue", "off", "exited"}]
        /\ ret' \in [Thread -> IORet]
    <3>1. GotoTickle(t, "events") \/ (Goto(t, "events") /\ UNCHANGED ret)
      BY <1>16, PushRest, Zenon
    <3> QED  BY <3>1
  <2>3. /\ cbs' = [cbs EXCEPT ![t] = {}]
        /\ UNCHANGED <<flags, hand, idleDone, waiting, timers, recurs, due, next>>
    BY <1>16, PushRest, Zenon
  <2>4. cbs' \in [Thread -> SUBSET Task] /\ \A u \in Thread : IsFiniteSet(cbs'[u])
    BY <2>3, FS_EmptySet
  <2> QED  BY <2>1, <2>2, <2>3, <2>4
<1>17. ASSUME NEW t \in Thread, DrainPipe(t) \/ \E c \in Task : DispatchStale(t, c)
      PROVE  IOTypes'
  BY <1>17 DEF DrainPipe, DispatchStale, vars
<1>18. ASSUME NEW t \in Thread, NEW c \in Task, DispatchEvent(t, c)
      PROVE  IOTypes'
  <2>1. queue' \in Seq(Entry)
    BY <1>18, AppendFacts DEF DispatchEvent, Trigger, ScheduleFrom
  <2>2. /\ pc' \in [Thread -> LoopPc \cup MasterPc \cup {"tickle", "notify", "stopPending", "stopQueue", "off", "exited"}]
        /\ ret' \in [Thread -> IORet]
    BY <1>18 DEF DispatchEvent, Trigger, ScheduleFrom
  <2>3. waiting' = waiting \ {c} /\ UNCHANGED <<flags, hand, idleDone, timers, recurs, due, next, cbs>>
    BY <1>18 DEF DispatchEvent, Trigger
  <2>4. IsFiniteSet(waiting')
    <3> HIDE DEF IOBase, IOTypes
    <3> QED  BY <1>0, <2>3, FiniteStays
  <2> QED  BY <2>1, <2>2, <2>3, <2>4
<1>19. ASSUME NEW t \in Thread, EventDone(t, "eventDone", "events")
      PROVE  IOTypes'
  BY <1>19 DEF EventDone
<1>20. ASSUME NEW t \in Thread, IdleYield(t)
      PROVE  IOTypes'
  BY <1>20 DEF IdleYield
<1>21. ASSUME NEW t \in Thread, EventDone(t, "cancelDone", AfterCancel(t))
      PROVE  IOTypes'
  BY <1>21 DEF EventDone, AfterCancel
<1>22. ASSUME NEW t \in Thread, IOFinish(t)
      PROVE  IOTypes'
  BY <1>22 DEF IOFinish, Finish
<1>23. ASSUME NEW t \in Thread, IOYield(t)
      PROVE  IOTypes'
  BY <1>23 DEF IOYield, Yield
<1>24. ASSUME NEW t \in Thread, NEW c \in Task, IOSchedule(t, c)
      PROVE  IOTypes'
  <2>1. queue' \in Seq(Entry)
    BY <1>24, AppendFacts DEF IOSchedule, Schedule, ScheduleFrom, PinOf
  <2>2. pc' \in [Thread -> LoopPc \cup MasterPc \cup {"tickle", "notify", "stopPending", "stopQueue", "off", "exited"}]
    BY <1>24 DEF IOSchedule, Schedule, ScheduleFrom
  <2>3. ret' \in [Thread -> IORet]
    BY <1>24 DEF IOSchedule, Schedule, ScheduleFrom
  <2>4. UNCHANGED <<flags, hand, idleDone, timers, recurs, due, next, cbs, waiting>>
    BY <1>24 DEF IOSchedule, Schedule, ScheduleFrom
  <2> QED  BY <1>24, <2>1, <2>2, <2>3, <2>4 DEF IOSchedule, Schedule, ScheduleFrom
<1>25. ASSUME NEW t \in Thread, NEW c \in Task, AddTimer(t, c)
      PROVE  IOTypes'
  <2>1. timers' \subseteq Task /\ IsFiniteSet(timers')
    <3>1. timers' = timers \cup {c}
      BY <1>25 DEF AddTimer
    <3>2. IsFiniteSet(timers')
      <4> HIDE DEF IOBase, IOTypes
      <4> QED  BY <1>0, <3>1, FiniteStays
    <3> QED  BY <3>1, <3>2
  <2>2. pc[t] \in {"run", "user"} /\ pc' = [pc EXCEPT ![t] = "notify"] /\ ret' = [ret EXCEPT ![t] = pc[t]]
    BY <1>25 DEF AddTimer, MayUseTimers, GotoNotify
  <2>3. pc' \in [Thread -> LoopPc \cup MasterPc \cup {"tickle", "notify", "stopPending", "stopQueue", "off", "exited"}]
    BY <2>2
  <2>4. ret' \in [Thread -> IORet]
    BY <2>2
  <2>5. UNCHANGED <<queue, flags, hand, idleDone, due, next, cbs, waiting>> /\ timers \subseteq timers'
    BY <1>25 DEF AddTimer
  <2>6. recurs' \subseteq timers'
    BY <1>25 DEF AddTimer
  <2> QED  BY <2>1, <2>3, <2>4, <2>5, <2>6
<1>26. ASSUME NEW t \in Thread, NEW c \in Task, CancelEvent(t, c)
      PROVE  IOTypes'
  <2>1. queue' \in Seq(Entry)
    BY <1>26, AppendFacts DEF CancelEvent, Trigger, ScheduleFrom
  <2>2. /\ pc' \in [Thread -> LoopPc \cup MasterPc \cup {"tickle", "notify", "stopPending", "stopQueue", "off", "exited"}]
        /\ ret' \in [Thread -> IORet]
    BY <1>26 DEF CancelEvent, Trigger, ScheduleFrom
  <2>3. waiting' = waiting \ {c} /\ UNCHANGED <<flags, hand, idleDone, timers, recurs, due, next, cbs>>
    BY <1>26 DEF CancelEvent, Trigger
  <2>4. IsFiniteSet(waiting')
    <3> HIDE DEF IOBase, IOTypes
    <3> QED  BY <1>0, <2>3, FiniteStays
  <2> QED  BY <2>1, <2>2, <2>3, <2>4
<1>27. ASSUME NEW t \in Thread, AddEvent(t)
      PROVE  IOTypes'
  <2>1. PICK c \in Task \cup {None} : waiting' = waiting \cup {c} \/ waiting' = waiting
    BY <1>27 DEF AddEvent, vars
  <2>2. IsFiniteSet(waiting')
    <3>1. CASE waiting' = waiting
      BY <1>0, <3>1
    <3>2. CASE waiting' = waiting \cup {c}
      <4> HIDE DEF IOBase, IOTypes
      <4> QED  BY <1>0, <3>2, FiniteStays
    <3> QED  BY <2>1, <3>1, <3>2
  <2> QED  BY <1>27, <2>2 DEF AddEvent, vars
<1>28. CASE StopFlag /\ UNCHANGED ioVars
  BY <1>28 DEF StopFlag
<1>29. CASE StopTickle /\ UNCHANGED ioVars
  BY <1>29 DEF StopTickle
<1>30. CASE Join /\ UNCHANGED ioVars
  BY <1>30 DEF Join
<1>31. CASE ~UseMaster /\ StopRun(TRUE) /\ UNCHANGED ioVars
  BY <1>31 DEF StopRun
<1>32. CASE UseMaster /\ ReadNext(Master, "stopRun", "stopPending")
  BY <1>32 DEF ReadNext
<1>33. CASE ReadPending(Master, "stopPending", "stopQueue", "scan")
  BY <1>33 DEF ReadPending
<1>34. CASE StopQueue
  BY <1>34 DEF StopQueue, IOStopping, Stopping
<1>35. CASE Start /\ UNCHANGED ioVars
  BY <1>35 DEF Start
<1>36. CASE StopBegin /\ UNCHANGED ioVars
  BY <1>36 DEF StopBegin
<1>37. ASSUME NEW c \in Task, Arrive(c) \/ Expire(c)
      PROVE  IOTypes'
  BY <1>37 DEF Arrive, Expire, vars
<1>38. CASE UNCHANGED allVars
  BY <1>38 DEF allVars, vars
<1>39. ASSUME NEW t \in Thread, NotifyTimer(t)
      PROVE  IOTypes'
  BY <1>39 DEF NotifyTimer
<1>40. ASSUME NEW t \in Thread, NEW c \in Task, CancelTimer(t, c)
      PROVE  IOTypes'
  <2>1. timers' = timers \ {c} /\ recurs' = recurs \ {c} /\ due' = due \ {c}
    BY <1>40 DEF CancelTimer
  <2>2. IsFiniteSet(timers')
    <3> HIDE DEF IOBase, IOTypes
    <3> QED  BY <1>0, <2>1, FiniteStays
  <2> QED  BY <1>40, <2>1, <2>2 DEF CancelTimer, vars
<1> HIDE DEF IOBase, IOTypes, IOControl, IOWhere, UserSide, LoopPc, InTask, IORet, Thread,
        WorkerPc, MasterPc, IdlePc, At, Goto, GotoTickle, flags, ioVars
<1> QED
  BY <1>1, <1>2, <1>3, <1>4, <1>5, <1>6, <1>7, <1>8, <1>9, <1>10, <1>11, <1>12, <1>13, <1>14, <1>15, <1>16, <1>17, <1>18, <1>19, <1>20, <1>21, <1>22, <1>23, <1>24, <1>25, <1>26, <1>27, <1>28, <1>29, <1>30, <1>31, <1>32, <1>33, <1>34, <1>35, <1>36, <1>37, <1>38, <1>39, <1>40
     DEF IONext, IOThreadStep, IdleStep, IOTaskStep, IOMasterStep, IOStopRun, LoopStep, MasterStep

(* Every step keeps what a place in run() and idle() says about the task in
   hand, and Master on its side until stop(). *)
LEMMA IOControlStep ==
  ASSUME IOBase, [IONext]_allVars
  PROVE  IOControl'
<1> USE SchedulerAssumption DEF IOBase, IOTypes, IOControl, IOWhere, UserSide, LoopPc, InTask, IORet, Thread,
        WorkerPc, MasterPc, IdlePc, At, Goto, GotoTickle, flags, ioVars
<1>1. ASSUME NEW t \in Thread, ScanTake(t) /\ UNCHANGED ioVars
      PROVE  IOControl'
  <2>1. PICK i \in DOMAIN queue :
          /\ queue' = RemoveAt(queue, i)
          /\ hand' = [hand EXCEPT ![t] = queue[i].task]
          /\ \/ GotoTickle(t, "dispatch")
             \/ Goto(t, "dispatch") /\ UNCHANGED ret
    BY <1>1 DEF ScanTake, EligibleAt
  <2>2. queue[i].task \in Task
    <3>1. queue[i] \in Entry
      OBVIOUS
    <3> QED  BY <3>1 DEF Entry
  <2> QED  BY <1>1, <2>1, <2>2 DEF ScanTake
<1>2. ASSUME NEW t \in Thread, ScanNothing(t) /\ UNCHANGED ioVars
      PROVE  IOControl'
  BY <1>2, SMTT(30) DEF ScanNothing
<1>3. ASSUME NEW t \in Thread, SwapIn(t) /\ UNCHANGED ioVars
      PROVE  IOControl'
  BY <1>3 DEF SwapIn
<1>4. ASSUME NEW t \in Thread, GoIdle(t) /\ UNCHANGED ioVars
      PROVE  IOControl'
  BY <1>4 DEF GoIdle
<1>5. ASSUME NEW t \in Thread, Back(t) /\ UNCHANGED ioVars
      PROVE  IOControl'
  BY <1>5 DEF Back
<1>6. ASSUME NEW t \in Thread, PostReady(t) /\ UNCHANGED ioVars
      PROVE  IOControl'
  BY <1>6 DEF PostReady, ScheduleFrom
<1>7. ASSUME NEW t \in Thread, PostOther(t) /\ UNCHANGED ioVars
      PROVE  IOControl'
  BY <1>7 DEF PostOther
<1>8. ASSUME NEW t \in Thread, IdleBack(t) /\ UNCHANGED ioVars
      PROVE  IOControl'
  BY <1>8 DEF IdleBack
<1>9. ASSUME NEW t \in Thread, SwapOut(t) /\ UNCHANGED ioVars
      PROVE  IOControl'
  BY <1>9 DEF SwapOut
<1>10. ASSUME NEW t \in Thread, IOTickle(t)
      PROVE  IOControl'
  BY <1>10 DEF IOTickle, Tickle
<1>11. ASSUME NEW t \in Thread, ReadNext(t, "idle", "checkPending")
      PROVE  IOControl'
  BY <1>11 DEF ReadNext
<1>12. ASSUME NEW t \in Thread, ReadPending(t, "checkPending", "checkQueue", "epoll")
      PROVE  IOControl'
  BY <1>12 DEF ReadPending
<1>13. ASSUME NEW t \in Thread, IdleQueue(t)
      PROVE  IOControl'
  BY <1>13 DEF IdleQueue, IOStopping, Stopping
<1>14. ASSUME NEW t \in Thread, EpollReady(t) \/ EpollTimeout(t)
      PROVE  IOControl'
  BY <1>14 DEF EpollReady, EpollTimeout
<1>15. ASSUME NEW t \in Thread, TakeTimers(t)
      PROVE  IOControl'
  BY <1>15 DEF TakeTimers
<1>16. ASSUME NEW t \in Thread, PushCbs(t)
      PROVE  IOControl'
  BY <1>16, PushRest
<1>17. ASSUME NEW t \in Thread, DrainPipe(t) \/ \E c \in Task : DispatchStale(t, c)
      PROVE  IOControl'
  BY <1>17 DEF DrainPipe, DispatchStale, vars
<1>18. ASSUME NEW t \in Thread, NEW c \in Task, DispatchEvent(t, c)
      PROVE  IOControl'
  <2>1. /\ pc[t] = "events"
        /\ \/ pc' = [pc EXCEPT ![t] = "tickle"] /\ ret' = [ret EXCEPT ![t] = "eventDone"]
           \/ pc' = [pc EXCEPT ![t] = "eventDone"] /\ UNCHANGED ret
        /\ UNCHANGED <<hand, autoStop, stopping>>
    BY <1>18 DEF DispatchEvent, Trigger, ScheduleFrom
  <2> QED  BY <2>1
<1>19. ASSUME NEW t \in Thread, EventDone(t, "eventDone", "events")
      PROVE  IOControl'
  BY <1>19 DEF EventDone
<1>20. ASSUME NEW t \in Thread, IdleYield(t)
      PROVE  IOControl'
  BY <1>20 DEF IdleYield
<1>21. ASSUME NEW t \in Thread, EventDone(t, "cancelDone", AfterCancel(t))
      PROVE  IOControl'
  BY <1>21 DEF EventDone, AfterCancel
<1>22. ASSUME NEW t \in Thread, IOFinish(t)
      PROVE  IOControl'
  BY <1>22 DEF IOFinish, Finish
<1>23. ASSUME NEW t \in Thread, IOYield(t)
      PROVE  IOControl'
  BY <1>23 DEF IOYield, Yield
\* schedule() and addTimer(): the caller stays where it is, or enters tickle() from there.
<1>stays. ASSUME NEW t \in Thread, pc[t] \in {"run", "user"},
                 UNCHANGED <<autoStop, stopping, hand>>,
                 GotoTickle(t, pc[t]) \/ (Goto(t, pc[t]) /\ UNCHANGED ret) \/ GotoNotify(t)
          PROVE  IOControl'
  <2>1. UNCHANGED <<autoStop, stopping, hand>>
    BY <1>stays
  <2>2. \A u \in Thread : IOWhere(u)' = IOWhere(u)
    <3>3. CASE GotoTickle(t, pc[t])
      BY <1>stays, <3>3
    <3>4. CASE Goto(t, pc[t]) /\ UNCHANGED ret
      BY <1>stays, <3>4
    <3>5. CASE GotoNotify(t)
      BY <1>stays, <3>5 DEF GotoNotify
    <3> QED  BY <1>stays, <3>3, <3>4, <3>5
  <2>3. \A u \in Pool : pc[u] = "off" => pc'[u] = "off"
    BY <1>stays DEF GotoNotify
  <2>8. \A u \in Thread : pc'[u] = "notify" => ret'[u] \in {"run", "user"}
    BY <1>stays DEF GotoNotify
  <2> HIDE DEF IOWhere, IOTypes, LoopPc, IORet, InTask, IORet, MasterPc, WorkerPc, IdlePc
  <2>4. Pool \subseteq Thread /\ Master \in Thread
    OBVIOUS
  <2>5. /\ \A u \in Thread : IOWhere(u)' \in InTask => hand'[u] # None
        /\ \A u \in Thread : IOWhere(u)' \notin InTask \cup {"dispatch", "cancelDone"} => hand'[u] = None
    BY <2>1, <2>2
  <2>6. \A u \in Thread : UserSide(u)' <=> UserSide(u)
    BY <2>1, <2>2
  <2>7. (stopping /\ ~autoStop => \A u \in Pool : pc[u] = "off")'
    BY <2>1, <2>3
  <2> HIDE DEF UserSide
  <2> QED  BY <2>1, <2>2, <2>4, <2>5, <2>6, <2>7, <2>8
<1>24. ASSUME NEW t \in Thread, NEW c \in Task, IOSchedule(t, c)
      PROVE  IOControl'
  <2>1. UNCHANGED <<autoStop, stopping, hand>> /\ pc[t] \in {"run", "user"}
    BY <1>24 DEF IOSchedule, Schedule
  <2>2. GotoTickle(t, pc[t]) \/ (Goto(t, pc[t]) /\ UNCHANGED ret)
    BY <1>24 DEF IOSchedule, Schedule, ScheduleFrom
  <2> HIDE DEF IOControl
  <2> QED  BY <1>stays, <2>1, <2>2
<1>25. ASSUME NEW t \in Thread, NEW c \in Task, AddTimer(t, c)
      PROVE  IOControl'
  <2>1. UNCHANGED <<autoStop, stopping, hand>> /\ pc[t] \in {"run", "user"}
    BY <1>25 DEF AddTimer, MayUseTimers
  <2>2. GotoNotify(t)
    BY <1>25 DEF AddTimer
  <2> HIDE DEF IOControl
  <2> QED  BY <1>stays, <2>1, <2>2
<1>26. ASSUME NEW t \in Thread, NEW c \in Task, CancelEvent(t, c)
      PROVE  IOControl'
  BY <1>26 DEF CancelEvent, Trigger, ScheduleFrom
<1>27. ASSUME NEW t \in Thread, AddEvent(t)
      PROVE  IOControl'
  BY <1>27 DEF AddEvent, vars
<1>28. CASE StopFlag /\ UNCHANGED ioVars
  BY <1>28 DEF StopFlag
<1>29. CASE StopTickle /\ UNCHANGED ioVars
  BY <1>29 DEF StopTickle
<1>30. CASE Join /\ UNCHANGED ioVars
  BY <1>30 DEF Join
<1>31. CASE ~UseMaster /\ StopRun(TRUE) /\ UNCHANGED ioVars
  BY <1>31 DEF StopRun
<1>32. CASE UseMaster /\ ReadNext(Master, "stopRun", "stopPending")
  BY <1>32 DEF ReadNext
<1>33. CASE ReadPending(Master, "stopPending", "stopQueue", "scan")
  BY <1>33 DEF ReadPending
<1>34. CASE StopQueue
  BY <1>34 DEF StopQueue, IOStopping, Stopping
<1>35. CASE Start /\ UNCHANGED ioVars
  BY <1>35 DEF Start
<1>36. CASE StopBegin /\ UNCHANGED ioVars
  BY <1>36 DEF StopBegin
<1>37. ASSUME NEW c \in Task, Arrive(c) \/ Expire(c)
      PROVE  IOControl'
  BY <1>37 DEF Arrive, Expire, vars
<1>38. CASE UNCHANGED allVars
  BY <1>38 DEF allVars, vars
<1>39. ASSUME NEW t \in Thread, NotifyTimer(t)
      PROVE  IOControl'
  BY <1>39 DEF NotifyTimer
<1>40. ASSUME NEW t \in Thread, NEW c \in Task, CancelTimer(t, c)
      PROVE  IOControl'
  BY <1>40 DEF CancelTimer, vars
<1> HIDE DEF IOBase, IOTypes, IOControl, IOWhere, UserSide, LoopPc, InTask, IORet, Thread,
        WorkerPc, MasterPc, IdlePc, At, Goto, GotoTickle, flags, ioVars
<1> QED
  BY <1>1, <1>2, <1>3, <1>4, <1>5, <1>6, <1>7, <1>8, <1>9, <1>10, <1>11, <1>12, <1>13, <1>14, <1>15, <1>16, <1>17, <1>18, <1>19, <1>20, <1>21, <1>22, <1>23, <1>24, <1>25, <1>26, <1>27, <1>28, <1>29, <1>30, <1>31, <1>32, <1>33, <1>34, <1>35, <1>36, <1>37, <1>38, <1>39, <1>40
     DEF IONext, IOThreadStep, IdleStep, IOTaskStep, IOMasterStep, IOStopRun, LoopStep, MasterStep

(* The threads the two counters count, besides the waiting coroutines. *)
Settlers == {t \in Thread : Settling(t)}
Idlers == {t \in Thread : InIdle(t)}

(* The counted sets are finite. *)
LEMMA IOCountFinite == IsFiniteSet(Settlers) /\ IsFiniteSet(Idlers)
BY ThreadFinite, FS_Subset DEF Settlers, Idlers

(* A step that moves nothing counted may leave the counters alone. *)
LEMMA IOCountSame ==
  ASSUME CountersExact, UNCHANGED <<pending, waiting, idle>>, Settlers' = Settlers, Idlers' = Idlers
  PROVE  CountersExact'
<1> USE DEF Settlers, Idlers
<1>1. pending = Cardinality(waiting) + Cardinality(Settlers) /\ idle = Cardinality(Idlers)
  BY DEF CountersExact
<1>2. pending' = Cardinality(waiting') + Cardinality(Settlers') /\ idle' = Cardinality(Idlers')
  <2> HIDE DEF Settlers, Idlers
  <2> QED  BY <1>1
<1> QED  BY <1>2 DEF CountersExact

(* A registered coroutine that is triggered becomes a registration to be
   counted off by its thread. *)
LEMMA IOCountTrigger ==
  ASSUME IOTypes, CountersExact, UNCHANGED <<pending, idle>>, NEW c \in waiting, waiting' = waiting \ {c},
         NEW t \in Thread, t \notin Settlers, Settlers' = Settlers \cup {t}, Idlers' = Idlers
  PROVE  CountersExact'
<1>1. pending = Cardinality(waiting) + Cardinality(Settlers) /\ idle = Cardinality(Idlers)
  BY DEF CountersExact, Settlers, Idlers
<1>2. Cardinality(waiting \ {c}) = Cardinality(waiting) - 1
  BY FS_RemoveElement DEF IOTypes
<1>3. Cardinality(Settlers \cup {t}) = Cardinality(Settlers) + 1
  BY IOCountFinite, FS_AddElement
<1>4. Cardinality(waiting) \in Nat /\ Cardinality(Settlers) \in Nat
  BY IOCountFinite, FS_CardinalityType DEF IOTypes
<1>5. pending' = Cardinality(waiting') + Cardinality(Settlers') /\ idle' = Cardinality(Idlers')
  BY <1>1, <1>2, <1>3, <1>4
<1> QED  BY <1>5 DEF CountersExact, Settlers, Idlers

(* A registration that is counted off was counted. *)
LEMMA IOCountOff ==
  ASSUME CountersExact, pending' = pending - 1, UNCHANGED <<waiting, idle>>,
         NEW t \in Settlers, Settlers' = Settlers \ {t}, Idlers' = Idlers, IsFiniteSet(waiting)
  PROVE  CountersExact'
<1>1. pending = Cardinality(waiting) + Cardinality(Settlers) /\ idle = Cardinality(Idlers)
  BY DEF CountersExact, Settlers, Idlers
<1>2. Cardinality(Settlers \ {t}) = Cardinality(Settlers) - 1
  BY IOCountFinite, FS_RemoveElement
<1>3. Cardinality(waiting) \in Nat /\ Cardinality(Settlers) \in Nat
  BY IOCountFinite, FS_CardinalityType
<1>4. pending' = Cardinality(waiting') + Cardinality(Settlers') /\ idle' = Cardinality(Idlers')
  BY <1>1, <1>2, <1>3
<1> QED  BY <1>4 DEF CountersExact, Settlers, Idlers

(* addEvent() counts a registration that was not there. *)
LEMMA IOCountOn ==
  ASSUME IOTypes, CountersExact, pending' = pending + 1, UNCHANGED idle,
         NEW c, c \notin waiting, waiting' = waiting \cup {c}, Settlers' = Settlers, Idlers' = Idlers
  PROVE  CountersExact'
<1>1. pending = Cardinality(waiting) + Cardinality(Settlers) /\ idle = Cardinality(Idlers)
  BY DEF CountersExact, Settlers, Idlers
<1>2. Cardinality(waiting \cup {c}) = Cardinality(waiting) + 1
  BY FS_AddElement DEF IOTypes
<1>3. Cardinality(waiting) \in Nat /\ Cardinality(Settlers) \in Nat
  BY IOCountFinite, FS_CardinalityType DEF IOTypes
<1>4. pending' = Cardinality(waiting') + Cardinality(Settlers') /\ idle' = Cardinality(Idlers')
  BY <1>1, <1>2, <1>3
<1> QED  BY <1>4 DEF CountersExact, Settlers, Idlers

(* A thread goes into its idle coroutine, or comes back from it. *)
LEMMA IOCountIdle ==
  ASSUME CountersExact, UNCHANGED <<pending, waiting>>, Settlers' = Settlers, NEW t,
         \/ idle' = idle + 1 /\ t \notin Idlers /\ Idlers' = Idlers \cup {t}
         \/ idle' = idle - 1 /\ t \in Idlers /\ Idlers' = Idlers \ {t}
  PROVE  CountersExact'
<1>1. pending = Cardinality(waiting) + Cardinality(Settlers) /\ idle = Cardinality(Idlers)
  BY DEF CountersExact, Settlers, Idlers
<1>2. /\ t \notin Idlers => Cardinality(Idlers \cup {t}) = Cardinality(Idlers) + 1
      /\ t \in Idlers => Cardinality(Idlers \ {t}) = Cardinality(Idlers) - 1
  BY IOCountFinite, FS_AddElement, FS_RemoveElement
<1>3. pending' = Cardinality(waiting') + Cardinality(Settlers') /\ idle' = Cardinality(Idlers')
  BY <1>1, <1>2
<1> QED  BY <1>3 DEF CountersExact, Settlers, Idlers

(* Every step moves the counters with what they count. *)
LEMMA CountersStep ==
  ASSUME IOBase, CountersExact, [IONext]_allVars
  PROVE  CountersExact'
<1> USE SchedulerAssumption DEF IOBase, IOTypes, IOControl, IOWhere, UserSide, LoopPc, InTask, IORet, Thread,
        WorkerPc, MasterPc, IdlePc, At, Goto, GotoTickle, flags, ioVars, Settlers, Idlers, Settling, InIdle
<1>1. ASSUME NEW t \in Thread, ScanTake(t) /\ UNCHANGED ioVars
      PROVE  CountersExact'
  BY <1>1, IOCountSame DEF ScanTake
<1>2. ASSUME NEW t \in Thread, ScanNothing(t) /\ UNCHANGED ioVars
      PROVE  CountersExact'
  BY <1>2, IOCountSame DEF ScanNothing
<1>3. ASSUME NEW t \in Thread, SwapIn(t) /\ UNCHANGED ioVars
      PROVE  CountersExact'
  BY <1>3, IOCountSame DEF SwapIn
<1>4. ASSUME NEW t \in Thread, GoIdle(t) /\ UNCHANGED ioVars
      PROVE  CountersExact'
  <2>1. Settlers' = Settlers /\ UNCHANGED <<pending, waiting>>
    BY <1>4 DEF GoIdle
  <2>2. CASE idleDone[t]
    <3>1. Idlers' = Idlers /\ idle' = idle
      BY <1>4, <2>2 DEF GoIdle
    <3> QED  BY <2>1, <3>1, IOCountSame
  <2>3. CASE ~idleDone[t]
    <3>1. idle' = idle + 1 /\ t \notin Idlers /\ Idlers' = Idlers \cup {t}
      BY <1>4, <2>3 DEF GoIdle
    <3> QED  BY <2>1, <3>1, IOCountIdle
  <2> QED  BY <2>2, <2>3
<1>5. ASSUME NEW t \in Thread, Back(t) /\ UNCHANGED ioVars
      PROVE  CountersExact'
  BY <1>5, IOCountSame DEF Back
<1>6. ASSUME NEW t \in Thread, PostReady(t) /\ UNCHANGED ioVars
      PROVE  CountersExact'
  BY <1>6, IOCountSame DEF PostReady, ScheduleFrom
<1>7. ASSUME NEW t \in Thread, PostOther(t) /\ UNCHANGED ioVars
      PROVE  CountersExact'
  BY <1>7, IOCountSame DEF PostOther
<1>8. ASSUME NEW t \in Thread, IdleBack(t) /\ UNCHANGED ioVars
      PROVE  CountersExact'
  <2>1. Settlers' = Settlers /\ UNCHANGED <<pending, waiting>>
    BY <1>8 DEF IdleBack
  <2>2. idle' = idle - 1 /\ t \in Idlers /\ Idlers' = Idlers \ {t}
    BY <1>8 DEF IdleBack
  <2> QED  BY <2>1, <2>2, IOCountIdle
<1>9. ASSUME NEW t \in Thread, SwapOut(t) /\ UNCHANGED ioVars
      PROVE  CountersExact'
  BY <1>9, IOCountSame DEF SwapOut
<1>10. ASSUME NEW t \in Thread, IOTickle(t)
      PROVE  CountersExact'
  BY <1>10, IOCountSame DEF IOTickle, Tickle
<1>11. ASSUME NEW t \in Thread, ReadNext(t, "idle", "checkPending")
      PROVE  CountersExact'
  BY <1>11, IOCountSame DEF ReadNext
<1>12. ASSUME NEW t \in Thread, ReadPending(t, "checkPending", "checkQueue", "epoll")
      PROVE  CountersExact'
  BY <1>12, IOCountSame DEF ReadPending
<1>13. ASSUME NEW t \in Thread, IdleQueue(t)
      PROVE  CountersExact'
  BY <1>13, IOCountSame DEF IdleQueue, IOStopping, Stopping
<1>14. ASSUME NEW t \in Thread, EpollReady(t) \/ EpollTimeout(t)
      PROVE  CountersExact'
  BY <1>14, IOCountSame DEF EpollReady, EpollTimeout
<1>15. ASSUME NEW t \in Thread, TakeTimers(t)
      PROVE  CountersExact'
  BY <1>15, IOCountSame DEF TakeTimers
<1>16. ASSUME NEW t \in Thread, PushCbs(t)
      PROVE  CountersExact'
  <2>1. Settlers' = Settlers /\ Idlers' = Idlers
    <3>1. GotoTickle(t, "events") \/ (Goto(t, "events") /\ UNCHANGED ret)
      BY <1>16, PushRest, Zenon
    <3>2. pc[t] = "pushCbs"
      BY <1>16, PushRest
    <3> QED  BY <3>1, <3>2
  <2>2. UNCHANGED <<pending, waiting, idle>>
    BY <1>16, PushRest, Zenon
  <2> QED  BY <2>1, <2>2, IOCountSame
<1>17. ASSUME NEW t \in Thread, DrainPipe(t) \/ \E c \in Task : DispatchStale(t, c)
      PROVE  CountersExact'
  BY <1>17, IOCountSame DEF DrainPipe, DispatchStale, vars
<1>18. ASSUME NEW t \in Thread, NEW c \in Task, DispatchEvent(t, c)
      PROVE  CountersExact'
  <2>1. c \in waiting /\ waiting' = waiting \ {c} /\ UNCHANGED <<pending, idle>>
    BY <1>18 DEF DispatchEvent, Trigger
  <2>2. t \notin Settlers /\ Settlers' = Settlers \cup {t} /\ Idlers' = Idlers
    BY <1>18 DEF DispatchEvent, Trigger, ScheduleFrom
  <2> QED  BY <2>1, <2>2, IOCountTrigger
<1>19. ASSUME NEW t \in Thread, EventDone(t, "eventDone", "events")
      PROVE  CountersExact'
  <2>1. pending' = pending - 1 /\ UNCHANGED <<waiting, idle>>
    BY <1>19 DEF EventDone
  <2>2. t \in Settlers /\ Settlers' = Settlers \ {t} /\ Idlers' = Idlers
    BY <1>19 DEF EventDone, AfterCancel
  <2> QED  BY <2>1, <2>2, IOCountOff
<1>20. ASSUME NEW t \in Thread, IdleYield(t)
      PROVE  CountersExact'
  BY <1>20, IOCountSame DEF IdleYield
<1>21. ASSUME NEW t \in Thread, EventDone(t, "cancelDone", AfterCancel(t))
      PROVE  CountersExact'
  <2>1. pending' = pending - 1 /\ UNCHANGED <<waiting, idle>>
    BY <1>21 DEF EventDone
  <2>2. t \in Settlers /\ Settlers' = Settlers \ {t} /\ Idlers' = Idlers
    BY <1>21 DEF EventDone, AfterCancel
  <2> QED  BY <2>1, <2>2, IOCountOff
<1>22. ASSUME NEW t \in Thread, IOFinish(t)
      PROVE  CountersExact'
  BY <1>22, IOCountSame DEF IOFinish, Finish
<1>23. ASSUME NEW t \in Thread, IOYield(t)
      PROVE  CountersExact'
  BY <1>23, IOCountSame DEF IOYield, Yield
<1>24. ASSUME NEW t \in Thread, NEW c \in Task, IOSchedule(t, c)
      PROVE  CountersExact'
  BY <1>24, IOCountSame DEF IOSchedule, Schedule, ScheduleFrom, PinOf
<1>25. ASSUME NEW t \in Thread, NEW c \in Task, AddTimer(t, c)
      PROVE  CountersExact'
  BY <1>25, IOCountSame DEF AddTimer, MayUseTimers, GotoNotify
<1>26. ASSUME NEW t \in Thread, NEW c \in Task, CancelEvent(t, c)
      PROVE  CountersExact'
  <2>1. c \in waiting /\ waiting' = waiting \ {c} /\ UNCHANGED <<pending, idle>>
    BY <1>26 DEF CancelEvent, Trigger
  <2>2. t \notin Settlers /\ Settlers' = Settlers \cup {t} /\ Idlers' = Idlers
    BY <1>26 DEF CancelEvent, Trigger, ScheduleFrom
  <2> QED  BY <2>1, <2>2, IOCountTrigger
<1>27. ASSUME NEW t \in Thread, AddEvent(t)
      PROVE  CountersExact'
  <2>1. hand[t] \notin waiting /\ waiting' = waiting \cup {hand[t]} /\ pending' = pending + 1 /\ idle' = idle
    BY <1>27 DEF AddEvent, MustYield, vars
  <2>2. Settlers' = Settlers /\ Idlers' = Idlers
    BY <1>27 DEF AddEvent, vars
  <2> QED  BY <2>1, <2>2, IOCountOn
<1>28. CASE StopFlag /\ UNCHANGED ioVars
  BY <1>28, IOCountSame DEF StopFlag
<1>29. CASE StopTickle /\ UNCHANGED ioVars
  BY <1>29, IOCountSame DEF StopTickle
<1>30. CASE Join /\ UNCHANGED ioVars
  BY <1>30, IOCountSame DEF Join
<1>31. CASE ~UseMaster /\ StopRun(TRUE) /\ UNCHANGED ioVars
  BY <1>31, IOCountSame DEF StopRun
<1>32. CASE UseMaster /\ ReadNext(Master, "stopRun", "stopPending")
  BY <1>32, IOCountSame DEF ReadNext
<1>33. CASE ReadPending(Master, "stopPending", "stopQueue", "scan")
  BY <1>33, IOCountSame DEF ReadPending
<1>34. CASE StopQueue
  BY <1>34, IOCountSame DEF StopQueue, IOStopping, Stopping
<1>35. CASE Start /\ UNCHANGED ioVars
  BY <1>35, IOCountSame DEF Start
<1>36. CASE StopBegin /\ UNCHANGED ioVars
  BY <1>36, IOCountSame DEF StopBegin
<1>37. ASSUME NEW c \in Task, Arrive(c) \/ Expire(c)
      PROVE  CountersExact'
  BY <1>37, IOCountSame DEF Arrive, Expire, vars
<1>38. CASE UNCHANGED allVars
  BY <1>38, IOCountSame DEF allVars, vars
<1>39. ASSUME NEW t \in Thread, NotifyTimer(t)
      PROVE  CountersExact'
  BY <1>39, IOCountSame DEF NotifyTimer
<1>40. ASSUME NEW t \in Thread, NEW c \in Task, CancelTimer(t, c)
      PROVE  CountersExact'
  BY <1>40, IOCountSame DEF CancelTimer, vars
<1> HIDE DEF IOBase, IOTypes, IOControl, IOWhere, UserSide, LoopPc, InTask, IORet, Thread,
        WorkerPc, MasterPc, IdlePc, At, Goto, GotoTickle, flags, ioVars, Settlers, Idlers, Settling, InIdle
<1> QED
  BY <1>1, <1>2, <1>3, <1>4, <1>5, <1>6, <1>7, <1>8, <1>9, <1>10, <1>11, <1>12, <1>13, <1>14, <1>15, <1>16, <1>17, <1>18, <1>19, <1>20, <1>21, <1>22, <1>23, <1>24, <1>25, <1>26, <1>27, <1>28, <1>29, <1>30, <1>31, <1>32, <1>33, <1>34, <1>35, <1>36, <1>37, <1>38, <1>39, <1>40
     DEF IONext, IOThreadStep, IdleStep, IOTaskStep, IOMasterStep, IOStopRun, LoopStep, MasterStep

(* An IOManager just constructed has the right types and counts. *)
LEMMA IOInitBase == IOInit => IOBase /\ CountersExact
<1> SUFFICES ASSUME IOInit PROVE IOBase /\ CountersExact
  OBVIOUS
<1>1. IOTypes
  <2>1. queue \in Seq(Entry)
    BY EmptySeq DEF IOInit, Init
  <2>2. pc \in [Thread -> LoopPc \cup MasterPc \cup {"tickle", "notify", "stopPending", "stopQueue", "off", "exited"}]
    BY DEF IOInit, Init, MasterPc
  <2>3. ret \in [Thread -> IORet]
    BY DEF IOInit, Init, IORet
  <2> QED  BY <2>1, <2>2, <2>3, FS_EmptySet DEF IOInit, Init, IOTypes
<1>2. IOControl
  BY SchedulerAssumption
     DEF IOInit, Init, IOControl, IOWhere, UserSide, Thread, LoopPc, InTask, WorkerPc, MasterPc, IdlePc
<1>3. Settlers = {} /\ Idlers = {}
  BY DEF IOInit, Init, Settlers, Idlers, Settling, InIdle, IdlePc
<1>4. CountersExact
  <2>1. pending = 0 /\ idle = 0 /\ waiting = {}
    BY DEF IOInit, Init
  <2> QED  BY <1>3, <2>1, FS_EmptySet DEF CountersExact, Settlers, Idlers
<1> QED  BY <1>1, <1>2, <1>4 DEF IOBase

(* Types, control and counters of the IO scheduler hold in every reachable state. *)
LEMMA IOBaseInvariant == IOSpec => [](IOBase /\ CountersExact)
<1>1. IOBase /\ CountersExact /\ [IONext]_allVars => (IOBase /\ CountersExact)'
  BY IOTypesStep, IOControlStep, CountersStep DEF IOBase
<1> QED  BY IOInitBase, <1>1, PTL DEF IOSpec

(* m_pendingEventCount is the registered events and those being triggered, and
   m_idleThreadCount the threads in idle(), although both are changed outside
   m_mutex and read without it by stopping() and tickle(). *)
THEOREM IOCountersExact == IOSpec => []CountersExact
BY IOBaseInvariant, PTL

-----------------------------------------------------------------------------
(* t is in idle() and has asked for the next timer. *)
Dozing(t) == pc[t] \in {"checkPending", "checkQueue", "epoll"}

(* The loop goes on in this thread, and it will look at the timers again or
   sleep no longer than the first of them. *)
Knows(t) ==
  /\ ~idleDone[t]
  /\ \/ IOWhere(t) \in LoopPc /\ ~UserSide(t) /\ ~Dozing(t)
     \/ (Dozing(t) \/ pc[t] \in {"stopPending", "stopQueue"}) /\ next[t]

(* Unless nobody is about to sleep, a thread knows of the timers or a wake-up
   is on its way. *)
Watched ==
  \/ timers = {} \/ pipeReady
  \/ \E t \in Thread : pc[t] = "tickle" \/ (pc[t] = "notify" /\ tickled)
  \/ \A t \in Thread : ~Dozing(t)
  \/ \E t \in Thread : Knows(t)

(* An idle coroutine that is running, or yet to be started, has not ended. *)
BeforeEnd(t) ==
  \/ IOWhere(t) \in IdlePc \cup {"idle", "off", "stop", "stopTickle", "stopRun", "stopPending", "stopQueue"}
  \/ UserSide(t)

IdleGoesOn == \A t \in Thread : BeforeEnd(t) => ~idleDone[t]

(* A thread that finds m_idleThreadCount 0 in tickle() finds nobody in idle(). *)
LEMMA NobodyIdle ==
  ASSUME CountersExact, ~(idle > 0), NEW w \in Thread
  PROVE  ~InIdle(w)
<1>1. idle = Cardinality(Idlers) /\ Cardinality(Idlers) \in Nat
  BY IOCountFinite, FS_CardinalityType DEF CountersExact, Idlers
<1>2. Idlers = {}
  BY <1>1, IOCountFinite, FS_EmptySet
<1> QED  BY <1>2 DEF Idlers

(* The idle coroutine ends in the step that leaves its loop. *)
LEMMA IdleGoesOnStep ==
  ASSUME IOBase, IdleGoesOn, [IONext]_allVars
  PROVE  IdleGoesOn'
<1> USE SchedulerAssumption DEF IOBase, IOTypes, IOControl, IOWhere, UserSide, LoopPc, InTask, IORet, Thread, Worker,
        WorkerPc, MasterPc, IdlePc, At, Goto, GotoTickle, flags, ioVars, IdleGoesOn, BeforeEnd
<1>1. ASSUME NEW t \in Thread, ScanTake(t) /\ UNCHANGED ioVars
      PROVE  IdleGoesOn'
  BY <1>1 DEF ScanTake
<1>2. ASSUME NEW t \in Thread, ScanNothing(t) /\ UNCHANGED ioVars
      PROVE  IdleGoesOn'
  BY <1>2 DEF ScanNothing
<1>3. ASSUME NEW t \in Thread, SwapIn(t) /\ UNCHANGED ioVars
      PROVE  IdleGoesOn'
  BY <1>3 DEF SwapIn
<1>4. ASSUME NEW t \in Thread, GoIdle(t) /\ UNCHANGED ioVars
      PROVE  IdleGoesOn'
  BY <1>4 DEF GoIdle
<1>5. ASSUME NEW t \in Thread, Back(t) /\ UNCHANGED ioVars
      PROVE  IdleGoesOn'
  BY <1>5 DEF Back
<1>6. ASSUME NEW t \in Thread, PostReady(t) /\ UNCHANGED ioVars
      PROVE  IdleGoesOn'
  BY <1>6 DEF PostReady, ScheduleFrom
<1>7. ASSUME NEW t \in Thread, PostOther(t) /\ UNCHANGED ioVars
      PROVE  IdleGoesOn'
  BY <1>7 DEF PostOther
<1>8. ASSUME NEW t \in Thread, IdleBack(t) /\ UNCHANGED ioVars
      PROVE  IdleGoesOn'
  BY <1>8 DEF IdleBack
<1>9. ASSUME NEW t \in Thread, SwapOut(t) /\ UNCHANGED ioVars
      PROVE  IdleGoesOn'
  BY <1>9 DEF SwapOut
<1>10. ASSUME NEW t \in Thread, IOTickle(t)
      PROVE  IdleGoesOn'
  BY <1>10 DEF IOTickle, Tickle
<1>11. ASSUME NEW t \in Thread, ReadNext(t, "idle", "checkPending")
      PROVE  IdleGoesOn'
  BY <1>11 DEF ReadNext
<1>12. ASSUME NEW t \in Thread, ReadPending(t, "checkPending", "checkQueue", "epoll")
      PROVE  IdleGoesOn'
  BY <1>12 DEF ReadPending
<1>13. ASSUME NEW t \in Thread, IdleQueue(t)
      PROVE  IdleGoesOn'
  BY <1>13 DEF IdleQueue, IOStopping, Stopping
<1>14. ASSUME NEW t \in Thread, EpollReady(t) \/ EpollTimeout(t)
      PROVE  IdleGoesOn'
  BY <1>14 DEF EpollReady, EpollTimeout
<1>15. ASSUME NEW t \in Thread, TakeTimers(t)
      PROVE  IdleGoesOn'
  BY <1>15 DEF TakeTimers
<1>16. ASSUME NEW t \in Thread, PushCbs(t)
      PROVE  IdleGoesOn'
  <2>1. GotoTickle(t, "events") \/ (Goto(t, "events") /\ UNCHANGED ret)
    BY <1>16, PushRest, Zenon
  <2>2. pc[t] = "pushCbs"
    BY <1>16, PushRest
  <2>3. UNCHANGED <<flags, hand, idleDone, pending, waiting, timers, tickled, pipeReady, next, orphans>>
    BY <1>16, PushRest, Zenon
  <2> QED  BY <2>1, <2>2, <2>3
<1>17. ASSUME NEW t \in Thread, DrainPipe(t) \/ \E c \in Task : DispatchStale(t, c)
      PROVE  IdleGoesOn'
  BY <1>17 DEF DrainPipe, DispatchStale, vars
<1>18. ASSUME NEW t \in Thread, NEW c \in Task, DispatchEvent(t, c)
      PROVE  IdleGoesOn'
  BY <1>18 DEF DispatchEvent, Trigger, ScheduleFrom
<1>19. ASSUME NEW t \in Thread, EventDone(t, "eventDone", "events")
      PROVE  IdleGoesOn'
  BY <1>19 DEF EventDone
<1>20. ASSUME NEW t \in Thread, IdleYield(t)
      PROVE  IdleGoesOn'
  BY <1>20 DEF IdleYield
<1>21. ASSUME NEW t \in Thread, EventDone(t, "cancelDone", AfterCancel(t))
      PROVE  IdleGoesOn'
  BY <1>21 DEF EventDone, AfterCancel
<1>22. ASSUME NEW t \in Thread, IOFinish(t)
      PROVE  IdleGoesOn'
  BY <1>22 DEF IOFinish, Finish
<1>23. ASSUME NEW t \in Thread, IOYield(t)
      PROVE  IdleGoesOn'
  BY <1>23 DEF IOYield, Yield
<1>24. ASSUME NEW t \in Thread, NEW c \in Task, IOSchedule(t, c)
      PROVE  IdleGoesOn'
  BY <1>24 DEF IOSchedule, Schedule, ScheduleFrom, PinOf
<1>25. ASSUME NEW t \in Thread, NEW c \in Task, AddTimer(t, c)
      PROVE  IdleGoesOn'
  BY <1>25 DEF AddTimer, MayUseTimers, GotoNotify
<1>26. ASSUME NEW t \in Thread, NEW c \in Task, CancelEvent(t, c)
      PROVE  IdleGoesOn'
  BY <1>26 DEF CancelEvent, Trigger, ScheduleFrom
<1>27. ASSUME NEW t \in Thread, AddEvent(t)
      PROVE  IdleGoesOn'
  BY <1>27 DEF AddEvent, vars
<1>28. CASE StopFlag /\ UNCHANGED ioVars
  BY <1>28 DEF StopFlag
<1>29. CASE StopTickle /\ UNCHANGED ioVars
  BY <1>29 DEF StopTickle
<1>30. CASE Join /\ UNCHANGED ioVars
  BY <1>30 DEF Join
<1>31. CASE ~UseMaster /\ StopRun(TRUE) /\ UNCHANGED ioVars
  BY <1>31 DEF StopRun
<1>32. CASE UseMaster /\ ReadNext(Master, "stopRun", "stopPending")
  BY <1>32 DEF ReadNext
<1>33. CASE ReadPending(Master, "stopPending", "stopQueue", "scan")
  BY <1>33 DEF ReadPending
<1>34. CASE StopQueue
  BY <1>34 DEF StopQueue, IOStopping, Stopping
<1>35. CASE Start /\ UNCHANGED ioVars
  BY <1>35 DEF Start
<1>36. CASE StopBegin /\ UNCHANGED ioVars
  BY <1>36 DEF StopBegin
<1>37. ASSUME NEW c \in Task, Arrive(c) \/ Expire(c)
      PROVE  IdleGoesOn'
  BY <1>37 DEF Arrive, Expire, vars
<1>38. CASE UNCHANGED allVars
  BY <1>38 DEF allVars, vars
<1>39. ASSUME NEW t \in Thread, NotifyTimer(t)
      PROVE  IdleGoesOn'
  BY <1>39 DEF NotifyTimer
<1>40. ASSUME NEW t \in Thread, NEW c \in Task, CancelTimer(t, c)
      PROVE  IdleGoesOn'
  BY <1>40 DEF CancelTimer, vars
<1> HIDE DEF IOBase, IOTypes, IOControl, IOWhere, UserSide, LoopPc, InTask, IORet, Thread, Worker,
        WorkerPc, MasterPc, IdlePc, At, Goto, GotoTickle, flags, ioVars, IdleGoesOn, BeforeEnd
<1> QED
  BY <1>1, <1>2, <1>3, <1>4, <1>5, <1>6, <1>7, <1>8, <1>9, <1>10, <1>11, <1>12, <1>13, <1>14, <1>15, <1>16, <1>17, <1>18, <1>19, <1>20, <1>21, <1>22, <1>23, <1>24, <1>25, <1>26, <1>27, <1>28, <1>29, <1>30, <1>31, <1>32, <1>33, <1>34, <1>35, <1>36, <1>37, <1>38, <1>39, <1>40
     DEF IONext, IOThreadStep, IdleStep, IOTaskStep, IOMasterStep, IOStopRun, LoopStep, MasterStep

(* Who asks for the next timer while there is one finds one. *)
LEMMA ReadNextFinds ==
  ASSUME next \in [Thread -> BOOLEAN], NEW t \in Thread, NEW from, NEW to,
         ReadNext(t, from, to), timers # {}
  PROVE  next'[t]
<1>1. next' = [next EXCEPT ![t] = timers # {}]
  BY DEF ReadNext
<1>2. next'[t] = (timers # {})
  BY <1>1, Zenon
<1> QED  BY <1>2

(* An insertion sets m_tickled when the set was empty, and never clears it. *)
LEMMA AddTimerTickled ==
  ASSUME NEW t \in Thread, NEW c \in Task, AddTimer(t, c)
  PROVE  (tickled => tickled') /\ (timers = {} => tickled')
<1>1. PICK front \in IF timers = {} THEN {TRUE} ELSE BOOLEAN : tickled' = (tickled \/ front)
  BY Zenon DEF AddTimer
<1>2. timers = {} => front
  BY <1>1
<1> QED  BY <1>1, <1>2, Zenon

(* Whoever puts a timer first tickles, and whoever takes the wake-up looks at
   the timers again. *)
LEMMA WatchedStep ==
  ASSUME IOBase, CountersExact, IdleGoesOn, Watched, [IONext]_allVars
  PROVE  Watched'
<1> USE SchedulerAssumption DEF IOBase, IOTypes, IOControl, IOWhere, UserSide, LoopPc, InTask, IORet, Thread, Worker,
        WorkerPc, MasterPc, IdlePc, At, Goto, GotoTickle, flags, ioVars, IdleGoesOn, BeforeEnd, Watched, Knows, Dozing
<1>1. ASSUME NEW t \in Thread, ScanTake(t) /\ UNCHANGED ioVars
      PROVE  Watched'
  BY <1>1 DEF ScanTake
<1>2. ASSUME NEW t \in Thread, ScanNothing(t) /\ UNCHANGED ioVars
      PROVE  Watched'
  BY <1>2 DEF ScanNothing
<1>3. ASSUME NEW t \in Thread, SwapIn(t) /\ UNCHANGED ioVars
      PROVE  Watched'
  BY <1>3 DEF SwapIn
<1>4. ASSUME NEW t \in Thread, GoIdle(t) /\ UNCHANGED ioVars
      PROVE  Watched'
  BY <1>4 DEF GoIdle
<1>5. ASSUME NEW t \in Thread, Back(t) /\ UNCHANGED ioVars
      PROVE  Watched'
  BY <1>5 DEF Back
<1>6. ASSUME NEW t \in Thread, PostReady(t) /\ UNCHANGED ioVars
      PROVE  Watched'
  BY <1>6 DEF PostReady, ScheduleFrom
<1>7. ASSUME NEW t \in Thread, PostOther(t) /\ UNCHANGED ioVars
      PROVE  Watched'
  BY <1>7 DEF PostOther
<1>8. ASSUME NEW t \in Thread, IdleBack(t) /\ UNCHANGED ioVars
      PROVE  Watched'
  BY <1>8 DEF IdleBack
<1>9. ASSUME NEW t \in Thread, SwapOut(t) /\ UNCHANGED ioVars
      PROVE  Watched'
  BY <1>9 DEF SwapOut
<1>10. ASSUME NEW t \in Thread, IOTickle(t)
      PROVE  Watched'
  <2>1. /\ pc[t] = "tickle" /\ pc' = [pc EXCEPT ![t] = ret[t]]
        /\ pipeReady' = (pipeReady \/ idle > 0) /\ UNCHANGED <<timers, next>>
    BY <1>10 DEF IOTickle, Tickle
  <2>2. CASE idle > 0
    BY <2>1, <2>2
  <2>3. CASE ~(idle > 0)
    <3>1. \A u \in Thread : ~InIdle(u)
      BY <2>3, NobodyIdle
    <3>2. \A u \in Thread : ~Dozing(u)'
      BY <2>1, <3>1 DEF InIdle
    <3> QED  BY <3>2
  <2> QED  BY <2>2, <2>3
<1>11. ASSUME NEW t \in Thread, ReadNext(t, "idle", "checkPending")
      PROVE  Watched'
  <2>1. next' = [next EXCEPT ![t] = timers # {}] /\ pc' = [pc EXCEPT ![t] = "checkPending"]
        /\ UNCHANGED <<timers, idleDone>> /\ ~idleDone[t]
    BY <1>11 DEF ReadNext
  <2>2. CASE timers = {}
    BY <2>1, <2>2
  <2>3. CASE timers # {}
    <3>2. pc'[t] = "checkPending" /\ ~idleDone'[t]
      BY <2>1
    <3>3. next'[t]
      BY <1>11, <2>3, ReadNextFinds
    <3>1. Knows(t)'
      BY <3>2, <3>3 DEF Knows, Dozing
    <3> QED  BY <3>1
  <2> QED  BY <2>2, <2>3
<1>12. ASSUME NEW t \in Thread, ReadPending(t, "checkPending", "checkQueue", "epoll")
      PROVE  Watched'
  BY <1>12 DEF ReadPending
<1>13. ASSUME NEW t \in Thread, IdleQueue(t)
      PROVE  Watched'
  BY <1>13 DEF IdleQueue, IOStopping, Stopping
<1>14. ASSUME NEW t \in Thread, EpollReady(t) \/ EpollTimeout(t)
      PROVE  Watched'
  BY <1>14 DEF EpollReady, EpollTimeout
<1>15. ASSUME NEW t \in Thread, TakeTimers(t)
      PROVE  Watched'
  BY <1>15 DEF TakeTimers
<1>16. ASSUME NEW t \in Thread, PushCbs(t)
      PROVE  Watched'
  <2>1. pc' \in {[pc EXCEPT ![t] = "tickle"], [pc EXCEPT ![t] = "events"]} /\ pc[t] = "pushCbs"
    BY <1>16, PushRest
  <2>2. (pc'[t] = "tickle" => ret'[t] = "events") /\ \A u \in Thread : u # t => ret'[u] = ret[u]
    BY <1>16, PushRest
  <2>3. UNCHANGED <<hand, idleDone, timers, tickled, pipeReady, next>>
    BY <1>16, PushRest
  <2>4. ~idleDone[t]
    BY <2>1
  <2>5. Knows(t)'
    BY <2>1, <2>2, <2>3, <2>4
  <2> QED  BY <2>5
<1>17. ASSUME NEW t \in Thread, DrainPipe(t) \/ \E c \in Task : DispatchStale(t, c)
      PROVE  Watched'
  BY <1>17 DEF DrainPipe, DispatchStale, vars
<1>18. ASSUME NEW t \in Thread, NEW c \in Task, DispatchEvent(t, c)
      PROVE  Watched'
  BY <1>18 DEF DispatchEvent, Trigger, ScheduleFrom
<1>19. ASSUME NEW t \in Thread, EventDone(t, "eventDone", "events")
      PROVE  Watched'
  BY <1>19 DEF EventDone
<1>20. ASSUME NEW t \in Thread, IdleYield(t)
      PROVE  Watched'
  BY <1>20 DEF IdleYield
<1>21. ASSUME NEW t \in Thread, EventDone(t, "cancelDone", AfterCancel(t))
      PROVE  Watched'
  BY <1>21 DEF EventDone, AfterCancel
<1>22. ASSUME NEW t \in Thread, IOFinish(t)
      PROVE  Watched'
  BY <1>22 DEF IOFinish, Finish
<1>23. ASSUME NEW t \in Thread, IOYield(t)
      PROVE  Watched'
  BY <1>23 DEF IOYield, Yield
<1>24. ASSUME NEW t \in Thread, NEW c \in Task, IOSchedule(t, c)
      PROVE  Watched'
  BY <1>24 DEF IOSchedule, Schedule, ScheduleFrom, PinOf
<1>25. ASSUME NEW t \in Thread, NEW c \in Task, AddTimer(t, c)
      PROVE  Watched'
  <2>6. /\ pc[t] \in {"run", "user"} /\ pc' = [pc EXCEPT ![t] = "notify"] /\ ret' = [ret EXCEPT ![t] = pc[t]]
        /\ UNCHANGED <<hand, idleDone, pipeReady, next>>
    BY <1>25 DEF AddTimer, MayUseTimers, GotoNotify
  <2>7. (tickled => tickled') /\ (timers = {} => tickled')
    BY <1>25, AddTimerTickled
  <2>1. pc'[t] = "notify"
    BY <2>6
  <2>2. CASE timers = {}
    BY <2>1, <2>7, <2>2
  <2>3. \A u \in Thread : (Dozing(u)' => Dozing(u)) /\ (Knows(u) => Knows(u)')
    BY <2>6
  <2>4. CASE timers # {} /\ ~(pipeReady \/ (\A u \in Thread : ~Dozing(u)) \/ \E u \in Thread : Knows(u))
    <3>1. PICK u \in Thread : pc[u] = "tickle" \/ (pc[u] = "notify" /\ tickled)
      BY <2>4
    <3>2. pc'[u] = pc[u]
      BY <2>6, <3>1
    <3> QED  BY <2>7, <3>1, <3>2
  <2>5. CASE pipeReady \/ (\A u \in Thread : ~Dozing(u)) \/ \E u \in Thread : Knows(u)
    <3> HIDE DEF Dozing, Knows
    <3> QED  BY <2>6, <2>3, <2>5
  <2> QED  BY <2>2, <2>4, <2>5
<1>26. ASSUME NEW t \in Thread, NEW c \in Task, CancelEvent(t, c)
      PROVE  Watched'
  BY <1>26 DEF CancelEvent, Trigger, ScheduleFrom
<1>27. ASSUME NEW t \in Thread, AddEvent(t)
      PROVE  Watched'
  BY <1>27 DEF AddEvent, vars
<1>28. CASE StopFlag /\ UNCHANGED ioVars
  BY <1>28 DEF StopFlag
<1>29. CASE StopTickle /\ UNCHANGED ioVars
  BY <1>29 DEF StopTickle
<1>30. CASE Join /\ UNCHANGED ioVars
  BY <1>30 DEF Join
<1>31. CASE ~UseMaster /\ StopRun(TRUE) /\ UNCHANGED ioVars
  BY <1>31 DEF StopRun
<1>32. CASE UseMaster /\ ReadNext(Master, "stopRun", "stopPending")
  <2>1. next' = [next EXCEPT ![Master] = timers # {}] /\ pc' = [pc EXCEPT ![Master] = "stopPending"]
        /\ UNCHANGED <<timers, idleDone>> /\ ~idleDone[Master] /\ Master \in Thread
    BY <1>32 DEF ReadNext
  <2>2. CASE timers = {}
    BY <2>1, <2>2
  <2>3. CASE timers # {}
    <3>2. pc'[Master] = "stopPending" /\ ~idleDone'[Master]
      BY <2>1
    <3>3. next'[Master]
      BY <1>32, <2>1, <2>3, ReadNextFinds
    <3>1. Knows(Master)'
      BY <3>2, <3>3 DEF Knows, Dozing
    <3> QED  BY <2>1, <3>1
  <2> QED  BY <2>2, <2>3
<1>33. CASE ReadPending(Master, "stopPending", "stopQueue", "scan")
  BY <1>33 DEF ReadPending
<1>34. CASE StopQueue
  BY <1>34 DEF StopQueue, IOStopping, Stopping
<1>35. CASE Start /\ UNCHANGED ioVars
  BY <1>35 DEF Start
<1>36. CASE StopBegin /\ UNCHANGED ioVars
  BY <1>36 DEF StopBegin
<1>37. ASSUME NEW c \in Task, Arrive(c) \/ Expire(c)
      PROVE  Watched'
  BY <1>37 DEF Arrive, Expire, vars
<1>38. CASE UNCHANGED allVars
  BY <1>38 DEF allVars, vars
<1>39. ASSUME NEW t \in Thread, NotifyTimer(t)
      PROVE  Watched'
  BY <1>39 DEF NotifyTimer
<1>40. ASSUME NEW t \in Thread, NEW c \in Task, CancelTimer(t, c)
      PROVE  Watched'
  BY <1>40 DEF CancelTimer, vars
<1> HIDE DEF IOBase, IOTypes, IOControl, IOWhere, UserSide, LoopPc, InTask, IORet, Thread, Worker,
        WorkerPc, MasterPc, IdlePc, At, Goto, GotoTickle, flags, ioVars, IdleGoesOn, BeforeEnd, Watched, Knows, Dozing
<1> QED
  BY <1>1, <1>2, <1>3, <1>4, <1>5, <1>6, <1>7, <1>8, <1>9, <1>10, <1>11, <1>12, <1>13, <1>14, <1>15, <1>16, <1>17, <1>18, <1>19, <1>20, <1>21, <1>22, <1>23, <1>24, <1>25, <1>26, <1>27, <1>28, <1>29, <1>30, <1>31, <1>32, <1>33, <1>34, <1>35, <1>36, <1>37, <1>38, <1>39, <1>40
     DEF IONext, IOThreadStep, IdleStep, IOTaskStep, IOMasterStep, IOStopRun, LoopStep, MasterStep

(* A timer is never overslept by everybody: when all threads of the loop are
   in epoll_wait and no wake-up is coming, one of them knows of a timer. *)
THEOREM TimersAreWatched == IOSpec => []NoOversleep
<1> DEFINE Inv == IOBase /\ CountersExact /\ IdleGoesOn /\ Watched
<1>1. IOInit => Inv
  BY IOInitBase, SchedulerAssumption DEF IOInit, Init, Watched, IdleGoesOn
<1>2. Inv /\ [IONext]_allVars => Inv'
  BY IOTypesStep, IOControlStep, CountersStep, IdleGoesOnStep, WatchedStep DEF IOBase
<1>3. Inv => NoOversleep
  <2> SUFFICES ASSUME Inv, Asleep, timers # {} PROVE \E t \in Thread : pc[t] = "epoll" /\ next[t]
    BY DEF NoOversleep
  <2>1. PICK t \in Thread : Knows(t)
    BY DEF Watched, Asleep, Dozing
  <2>2. pc[t] \in {"epoll", "off", "exited", "user", "join"}
    BY DEF Asleep
  <2>3. pc[t] = "epoll" /\ next[t]
    BY <2>1, <2>2 DEF Knows, Dozing, IOWhere, LoopPc, IdlePc, WorkerPc, UserSide
  <2> QED  BY <2>3
<1> QED  BY <1>1, <1>2, <1>3, PTL DEF IOSpec

-----------------------------------------------------------------------------
(* The idle coroutine of this thread has not ended, nor has the thread just
   found m_pendingEventCount 0: it will ask again. *)
Attends(t) ==
  /\ t \in Worker /\ ~idleDone[t]
  /\ pc[t] \notin {"checkQueue", "stopQueue", "join", "done", "exited"}

(* As long as a coroutine waits that did not register on a thread past its idle
   coroutine, there is a thread that will not leave over it. *)
Attended == waiting \ orphans # {} => \E t \in Thread : Attends(t)

(* m_pendingEventCount is not 0 while a coroutine is registered. *)
LEMMA WaitingIsPending ==
  ASSUME IOBase, CountersExact, pending = 0
  PROVE  waiting = {}
<1>1. pending = Cardinality(waiting) + Cardinality(Settlers)
  BY DEF CountersExact, Settlers
<1>2. Cardinality(waiting) \in Nat /\ Cardinality(Settlers) \in Nat /\ IsFiniteSet(waiting)
  BY IOCountFinite, FS_CardinalityType DEF IOBase, IOTypes
<1>3. Cardinality(waiting) = 0
  BY <1>1, <1>2
<1> QED  BY <1>2, <1>3, FS_EmptySet

(* Who registers is attended by the own thread, and a thread stops attending
   only when it sees that nobody is registered. *)
LEMMA AttendedStep ==
  ASSUME IOBase, CountersExact, Attended, [IONext]_allVars
  PROVE  Attended'
<1> USE SchedulerAssumption DEF IOBase, IOTypes, IOControl, IOWhere, UserSide, LoopPc, InTask, IORet, Thread, Worker,
        WorkerPc, MasterPc, IdlePc, At, Goto, GotoTickle, flags, ioVars, Attended, Attends
<1>1. ASSUME NEW t \in Thread, ScanTake(t) /\ UNCHANGED ioVars
      PROVE  Attended'
  <2>1. pc' \in {[pc EXCEPT ![t] = "tickle"], [pc EXCEPT ![t] = "dispatch"]} /\ pc[t] = "scan"
        /\ UNCHANGED <<idleDone, waiting, orphans>>
    BY <1>1 DEF ScanTake
  <2>2. \A u \in Thread : Attends(u) => Attends(u)'
    BY <2>1
  <2> HIDE DEF Attends
  <2> QED  BY <2>1, <2>2
<1>2. ASSUME NEW t \in Thread, ScanNothing(t) /\ UNCHANGED ioVars
      PROVE  Attended'
  BY <1>2 DEF ScanNothing
<1>3. ASSUME NEW t \in Thread, SwapIn(t) /\ UNCHANGED ioVars
      PROVE  Attended'
  BY <1>3 DEF SwapIn
<1>4. ASSUME NEW t \in Thread, GoIdle(t) /\ UNCHANGED ioVars
      PROVE  Attended'
  BY <1>4 DEF GoIdle
<1>5. ASSUME NEW t \in Thread, Back(t) /\ UNCHANGED ioVars
      PROVE  Attended'
  BY <1>5 DEF Back
<1>6. ASSUME NEW t \in Thread, PostReady(t) /\ UNCHANGED ioVars
      PROVE  Attended'
  BY <1>6 DEF PostReady, ScheduleFrom
<1>7. ASSUME NEW t \in Thread, PostOther(t) /\ UNCHANGED ioVars
      PROVE  Attended'
  BY <1>7 DEF PostOther
<1>8. ASSUME NEW t \in Thread, IdleBack(t) /\ UNCHANGED ioVars
      PROVE  Attended'
  BY <1>8 DEF IdleBack
<1>9. ASSUME NEW t \in Thread, SwapOut(t) /\ UNCHANGED ioVars
      PROVE  Attended'
  BY <1>9 DEF SwapOut
<1>10. ASSUME NEW t \in Thread, IOTickle(t)
      PROVE  Attended'
  BY <1>10 DEF IOTickle, Tickle
<1>11. ASSUME NEW t \in Thread, ReadNext(t, "idle", "checkPending")
      PROVE  Attended'
  BY <1>11 DEF ReadNext
<1>12. ASSUME NEW t \in Thread, ReadPending(t, "checkPending", "checkQueue", "epoll")
      PROVE  Attended'
  <2>1. CASE pending = 0
    BY <1>12, <2>1, WaitingIsPending DEF ReadPending
  <2>2. CASE pending # 0
    BY <1>12, <2>2 DEF ReadPending
  <2> QED  BY <2>1, <2>2
<1>13. ASSUME NEW t \in Thread, IdleQueue(t)
      PROVE  Attended'
  BY <1>13 DEF IdleQueue, IOStopping, Stopping
<1>14. ASSUME NEW t \in Thread, EpollReady(t) \/ EpollTimeout(t)
      PROVE  Attended'
  BY <1>14 DEF EpollReady, EpollTimeout
<1>15. ASSUME NEW t \in Thread, TakeTimers(t)
      PROVE  Attended'
  BY <1>15 DEF TakeTimers
<1>16. ASSUME NEW t \in Thread, PushCbs(t)
      PROVE  Attended'
  <2>1. GotoTickle(t, "events") \/ (Goto(t, "events") /\ UNCHANGED ret)
    BY <1>16, PushRest, Zenon
  <2>2. pc[t] = "pushCbs"
    BY <1>16, PushRest
  <2>3. UNCHANGED <<flags, hand, idleDone, pending, waiting, timers, tickled, pipeReady, next, orphans>>
    BY <1>16, PushRest, Zenon
  <2> QED  BY <2>1, <2>2, <2>3
<1>17. ASSUME NEW t \in Thread, DrainPipe(t) \/ \E c \in Task : DispatchStale(t, c)
      PROVE  Attended'
  BY <1>17 DEF DrainPipe, DispatchStale, vars
<1>18. ASSUME NEW t \in Thread, NEW c \in Task, DispatchEvent(t, c)
      PROVE  Attended'
  BY <1>18 DEF DispatchEvent, Trigger, ScheduleFrom
<1>19. ASSUME NEW t \in Thread, EventDone(t, "eventDone", "events")
      PROVE  Attended'
  BY <1>19 DEF EventDone
<1>20. ASSUME NEW t \in Thread, IdleYield(t)
      PROVE  Attended'
  BY <1>20 DEF IdleYield
<1>21. ASSUME NEW t \in Thread, EventDone(t, "cancelDone", AfterCancel(t))
      PROVE  Attended'
  BY <1>21 DEF EventDone, AfterCancel
<1>22. ASSUME NEW t \in Thread, IOFinish(t)
      PROVE  Attended'
  BY <1>22 DEF IOFinish, Finish
<1>23. ASSUME NEW t \in Thread, IOYield(t)
      PROVE  Attended'
  BY <1>23 DEF IOYield, Yield
<1>24. ASSUME NEW t \in Thread, NEW c \in Task, IOSchedule(t, c)
      PROVE  Attended'
  BY <1>24 DEF IOSchedule, Schedule, ScheduleFrom, PinOf
<1>25. ASSUME NEW t \in Thread, NEW c \in Task, AddTimer(t, c)
      PROVE  Attended'
  BY <1>25 DEF AddTimer, MayUseTimers, GotoNotify
<1>26. ASSUME NEW t \in Thread, NEW c \in Task, CancelEvent(t, c)
      PROVE  Attended'
  BY <1>26 DEF CancelEvent, Trigger, ScheduleFrom
<1>27. ASSUME NEW t \in Thread, AddEvent(t)
      PROVE  Attended'
  <2>1. /\ pc[t] = "run" /\ waiting' = waiting \cup {hand[t]}
        /\ orphans' = IF idleDone[t] THEN orphans \cup {hand[t]} ELSE orphans \ {hand[t]}
        /\ UNCHANGED <<pc, idleDone>>
    BY <1>27 DEF AddEvent, vars
  <2>2. CASE idleDone[t]
    BY <2>1, <2>2
  <2>3. CASE ~idleDone[t]
    BY <2>1, <2>3
  <2> QED  BY <2>2, <2>3
<1>28. CASE StopFlag /\ UNCHANGED ioVars
  BY <1>28 DEF StopFlag
<1>29. CASE StopTickle /\ UNCHANGED ioVars
  BY <1>29 DEF StopTickle
<1>30. CASE Join /\ UNCHANGED ioVars
  BY <1>30 DEF Join
<1>31. CASE ~UseMaster /\ StopRun(TRUE) /\ UNCHANGED ioVars
  BY <1>31 DEF StopRun
<1>32. CASE UseMaster /\ ReadNext(Master, "stopRun", "stopPending")
  BY <1>32 DEF ReadNext
<1>33. CASE ReadPending(Master, "stopPending", "stopQueue", "scan")
  <2>1. CASE pending = 0
    BY <1>33, <2>1, WaitingIsPending DEF ReadPending
  <2>2. CASE pending # 0
    BY <1>33, <2>2 DEF ReadPending
  <2> QED  BY <2>1, <2>2
<1>34. CASE StopQueue
  BY <1>34 DEF StopQueue, IOStopping, Stopping
<1>35. CASE Start /\ UNCHANGED ioVars
  BY <1>35 DEF Start
<1>36. CASE StopBegin /\ UNCHANGED ioVars
  BY <1>36 DEF StopBegin
<1>37. ASSUME NEW c \in Task, Arrive(c) \/ Expire(c)
      PROVE  Attended'
  BY <1>37 DEF Arrive, Expire, vars
<1>38. CASE UNCHANGED allVars
  BY <1>38 DEF allVars, vars
<1>39. ASSUME NEW t \in Thread, NotifyTimer(t)
      PROVE  Attended'
  BY <1>39 DEF NotifyTimer
<1>40. ASSUME NEW t \in Thread, NEW c \in Task, CancelTimer(t, c)
      PROVE  Attended'
  BY <1>40 DEF CancelTimer, vars
<1> HIDE DEF IOBase, IOTypes, IOControl, IOWhere, UserSide, LoopPc, InTask, IORet, Thread, Worker,
        WorkerPc, MasterPc, IdlePc, At, Goto, GotoTickle, flags, ioVars, Attended, Attends
<1> QED
  BY <1>1, <1>2, <1>3, <1>4, <1>5, <1>6, <1>7, <1>8, <1>9, <1>10, <1>11, <1>12, <1>13, <1>14, <1>15, <1>16, <1>17, <1>18, <1>19, <1>20, <1>21, <1>22, <1>23, <1>24, <1>25, <1>26, <1>27, <1>28, <1>29, <1>30, <1>31, <1>32, <1>33, <1>34, <1>35, <1>36, <1>37, <1>38, <1>39, <1>40
     DEF IONext, IOThreadStep, IdleStep, IOTaskStep, IOMasterStep, IOStopRun, LoopStep, MasterStep

(* When the loop has ended on every thread, only coroutines that registered on
   a thread whose idle coroutine had ended are left waiting: the race of the
   three reads of stopping() loses nobody else, on any number of threads. *)
THEOREM OnlyOrphansAreLeft == IOSpec => []NoWaiterLeftBehind
<1> DEFINE Inv == IOBase /\ CountersExact /\ Attended
<1>1. IOInit => Inv
  BY IOInitBase DEF IOInit, Attended
<1>2. Inv /\ [IONext]_allVars => Inv'
  BY IOTypesStep, IOControlStep, CountersStep, AttendedStep DEF IOBase
<1>3. Inv => NoWaiterLeftBehind
  BY DEF Attended, Attends, NoWaiterLeftBehind, LoopEnded, Thread
<1> QED  BY <1>1, <1>2, <1>3, PTL DEF IOSpec
=============================================================================
