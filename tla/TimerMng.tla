------------------------------ MODULE TimerMng ------------------------------
(***************************************************************************)
(* The timer manager (src/src/Timer) between the threads that add, reset    *)
(* and cancel timers and the pollers: the threads of IOmanager::idle() that *)
(* ask getNextTime(), sleep in epoll_wait for that long, and collect what   *)
(* getTriggerableCB() returns.  What getNextTime() answers is a length of   *)
(* time: it counts from the moment epoll_wait() starts, and from its start  *)
(* again whenever a signal has interrupted it.                              *)
(*                                                                         *)
(* m_timers is ordered by m_goTime, so the set and goTime stand for it.     *)
(* Time is counted in ticks; the clock only goes forward, and               *)
(* detectClockRollover() is left out: whatever it answers, lower_bound(now) *)
(* yields the timers with m_goTime <= now.  Between any two steps of a       *)
(* thread time may pass; between the two reads of the clock in              *)
(* getNextTime() only with Preempt.                                         *)
(***************************************************************************)
EXTENDS Integers, FiniteSets, FiniteSetsExt

CONSTANTS
  Timer,        \* timer objects
  Caller,       \* threads that add, reset and cancel timers
  Poller,       \* threads in IOmanager::idle()
  Period,       \* the periods used
  MaxTimeout,   \* MAX_TIMEOUT of IOmanager::idle(), in ticks
  MaxTime,      \* bound on the clock
  Preempt       \* may time pass between getNextTime()'s reads of the clock?

ASSUME TimerAssumption ==
  /\ Period \subseteq Nat \ {0} /\ MaxTimeout \in Nat \ {0} /\ MaxTime \in Nat
  /\ Preempt \in BOOLEAN

VARIABLES
  clock,      \* GetCurrentTime()
  timers,     \* m_timers
  goTime,     \* Timer::m_goTime
  period,     \* Timer::m_period
  recur,      \* Timer::m_recur
  live,       \* the timers whose m_cb is set
  tickled,    \* m_tickled
  notified,   \* a wake-up is in the tickle pipe
  cpc,        \* callers: "free", or "check" after addTimer() has unlocked
  ppc,        \* pollers
  timeout,    \* pollers: idle()'s nextTime, cut down to MAX_TIMEOUT
  since,      \* pollers: when this epoll_wait() started
  seen,       \* pollers: getTriggerableCB()'s nowTime
  batch,      \* pollers: the timers whose callbacks were collected last
  cancelled,  \* history: the timers cancelTimer() returned true for
  asked,      \* history, pollers: the reading of the clock that timeout came from
  wrapped     \* history: the pollers whose timeout came from a subtraction that wrapped

vars == <<clock, timers, goTime, period, recur, live, tickled, notified, cpc,
          ppc, timeout, since, seen, batch, cancelled, asked, wrapped>>
timerVars == <<timers, goTime, period, recur, live, cancelled>>
waitVars == <<timeout, since, asked, wrapped>>
pollVars == <<ppc, waitVars, seen, batch>>

TypeOK ==
  /\ clock \in 0..MaxTime
  /\ timers \subseteq live /\ live \subseteq Timer /\ cancelled \subseteq Timer
  /\ goTime \in [Timer -> Nat] /\ period \in [Timer -> Nat]
  /\ recur \in [Timer -> BOOLEAN]
  /\ tickled \in BOOLEAN /\ notified \in BOOLEAN
  /\ cpc \in [Caller -> {"free", "check"}]
  /\ ppc \in [Poller -> {"loop", "next", "subtract", "ready", "sleep", "now", "collect"}]
  /\ timeout \in [Poller -> 0..MaxTimeout]
  /\ {since, asked, seen} \subseteq [Poller -> Nat]
  /\ batch \in [Poller -> SUBSET Timer]
  /\ wrapped \subseteq Poller

Init ==
  /\ clock = 0
  /\ timers = {} /\ live = {} /\ cancelled = {}
  /\ goTime = [x \in Timer |-> 0] /\ period = [x \in Timer |-> 0]
  /\ recur = [x \in Timer |-> FALSE]
  /\ tickled = FALSE /\ notified = FALSE
  /\ cpc = [c \in Caller |-> "free"]
  /\ ppc = [p \in Poller |-> "loop"]
  /\ timeout = [p \in Poller |-> 0] /\ since = [p \in Poller |-> 0]
  /\ asked = [p \in Poller |-> 0] /\ seen = [p \in Poller |-> 0]
  /\ batch = [p \in Poller |-> {}] /\ wrapped = {}

(* m_timers.begin()->m_goTime *)
First == Min({goTime[x] : x \in timers})

(* No getNextTime() holds the read lock: a writer may take the lock. *)
WriteLockFree == \A p \in Poller : ppc[p] # "subtract"

-----------------------------------------------------------------------------
(* Timer and TimerMng, called by any thread *)

(* addTimer(timer, lock): insert x at time g; x came first if nothing is
   ordered before it (equal times are ordered by address: either may win). *)
Insert(c, x, g) ==
  LET others == {goTime[y] : y \in timers \ {x}}
  IN /\ goTime' = [goTime EXCEPT ![x] = g]
     /\ timers' = timers \cup {x}
     /\ tickled' \in {tickled \/ front :
                        front \in {b \in BOOLEAN :
                          /\ (\A h \in others : g < h) => b
                          /\ (\E h \in others : h < g) => ~b}}
     /\ cpc' = [cpc EXCEPT ![c] = "check"]

AddTimer(c, x) ==
  /\ cpc[c] = "free" /\ WriteLockFree
  /\ period[x] = 0                       \* a new object
  /\ \E d \in Period, r \in BOOLEAN :
       /\ Insert(c, x, clock + d)
       /\ period' = [period EXCEPT ![x] = d]
       /\ recur' = [recur EXCEPT ![x] = r]
  /\ live' = live \cup {x}
  /\ UNCHANGED <<clock, notified, pollVars, cancelled>>

(* Mutant of NotifyIfTickled: a first timer is not announced. *)
NotifyNever(c) ==
  /\ cpc[c] = "check"
  /\ cpc' = [cpc EXCEPT ![c] = "free"]
  /\ UNCHANGED <<clock, timerVars, tickled, notified, pollVars>>

(* The end of addTimer(): m_tickled is read after the unlock. *)
NotifyIfTickled(c) ==
  /\ cpc[c] = "check"
  /\ notified' = (notified \/ tickled)
  /\ cpc' = [cpc EXCEPT ![c] = "free"]
  /\ UNCHANGED <<clock, timerVars, tickled, pollVars>>

(* Mutant of Reset: a timer that is not in the set is put back. *)
ResetAnywhere(c, x, d, fromNow) ==
  /\ cpc[c] = "free" /\ WriteLockFree
  /\ ~(d = period[x] /\ ~fromNow)
  /\ x \in live
  /\ Insert(c, x, (IF fromNow THEN clock ELSE goTime[x] - period[x]) + d)
  /\ period' = [period EXCEPT ![x] = d]
  /\ UNCHANGED <<clock, recur, live, notified, pollVars, cancelled>>

(* Timer::reset(d, fromNow), where it does not return early. *)
Reset(c, x, d, fromNow) ==
  /\ cpc[c] = "free" /\ WriteLockFree
  /\ ~(d = period[x] /\ ~fromNow)
  /\ x \in live /\ x \in timers
  /\ Insert(c, x, (IF fromNow THEN clock ELSE goTime[x] - period[x]) + d)
  /\ period' = [period EXCEPT ![x] = d]
  /\ UNCHANGED <<clock, recur, live, notified, pollVars, cancelled>>

(* Timer::cancelTimer(), where it returns true. *)
CancelTimer(c, x) ==
  /\ cpc[c] = "free" /\ WriteLockFree
  /\ x \in timers
  /\ timers' = timers \ {x}
  /\ cancelled' = cancelled \cup {x}
  /\ UNCHANGED <<clock, goTime, period, recur, live, tickled, notified, cpc, pollVars>>

-----------------------------------------------------------------------------
(* Pollers *)

(* idle() asks getNextTime() and does not use the answer: stopping(nextTime)
   overwrites it.  What stays is that m_tickled is cleared once more. *)
UnusedNextTime(p) ==
  /\ ppc[p] = "loop"
  /\ tickled' = FALSE
  /\ ppc' = [ppc EXCEPT ![p] = "next"]
  /\ batch' = [batch EXCEPT ![p] = {}]
  /\ UNCHANGED <<clock, timerVars, notified, cpc, waitVars, seen>>

(* getNextTime() returns; idle() waits no longer than MAX_TIMEOUT. *)
Answer(p, ticks) ==
  /\ timeout' = [timeout EXCEPT ![p] = Min({ticks, MaxTimeout})]
  /\ asked' = [asked EXCEPT ![p] = clock]
  /\ ppc' = [ppc EXCEPT ![p] = "ready"]

(* getNextTime(): under the read lock, clear m_tickled and look at the first
   timer; it is compared with one reading of the clock ... *)
GetNextTime(p) ==
  /\ ppc[p] = "next"
  /\ tickled' = FALSE
  /\ IF timers = {} THEN Answer(p, MaxTimeout)
     ELSE IF First <= clock THEN Answer(p, 0)
     ELSE ppc' = [ppc EXCEPT ![p] = "subtract"] /\ UNCHANGED <<timeout, asked>>
  /\ UNCHANGED <<clock, timerVars, notified, cpc, since, wrapped, seen, batch>>

(* ... and a second one is subtracted from it: when that has passed it, the
   uint64_t difference wraps, and idle() cuts it down to MAX_TIMEOUT. *)
Subtract(p) ==
  /\ ppc[p] = "subtract"
  /\ Answer(p, IF clock > First THEN MaxTimeout ELSE First - clock)
  /\ wrapped' = IF clock > First THEN wrapped \cup {p} ELSE wrapped
  /\ UNCHANGED <<clock, timerVars, tickled, notified, cpc, since, seen, batch>>

(* epoll_wait() starts: the timeout counts from now. *)
EpollWait(p) ==
  /\ ppc[p] = "ready"
  /\ since' = [since EXCEPT ![p] = clock]
  /\ ppc' = [ppc EXCEPT ![p] = "sleep"]
  /\ UNCHANGED <<clock, timerVars, tickled, notified, cpc, timeout, asked, wrapped, seen, batch>>

(* EINTR: idle() starts epoll_wait() again, with the same timeout. *)
Interrupted(p) ==
  /\ ppc[p] = "sleep"
  /\ since' = [since EXCEPT ![p] = clock]
  /\ UNCHANGED <<clock, timerVars, tickled, notified, cpc, ppc, timeout, asked, wrapped, seen, batch>>

WakesAt(p) == since[p] + timeout[p]

(* epoll_wait() returns: one wake-up is consumed, or it has timed out. *)
Wake(p) ==
  /\ ppc[p] = "sleep"
  /\ notified \/ clock >= WakesAt(p)
  /\ notified' = FALSE
  /\ ppc' = [ppc EXCEPT ![p] = "now"]
  /\ timeout' = [timeout EXCEPT ![p] = 0]
  /\ since' = [since EXCEPT ![p] = 0]
  /\ asked' = [asked EXCEPT ![p] = 0]
  /\ wrapped' = wrapped \ {p}
  /\ UNCHANGED <<clock, timerVars, tickled, cpc, seen, batch>>

(* getTriggerableCB() reads the clock before it takes the lock ... *)
ReadNow(p) ==
  /\ ppc[p] = "now"
  /\ seen' = [seen EXCEPT ![p] = clock]
  /\ ppc' = [ppc EXCEPT ![p] = "collect"]
  /\ UNCHANGED <<clock, timerVars, tickled, notified, cpc, waitVars, batch>>

(* Mutants of Collect: timers due one tick later are taken as well, and the
   timers taken stay in the set. *)
CollectUpTo(p, limit, out) ==
  LET ripe == {x \in timers : goTime[x] <= limit}
      again == {x \in ripe : recur[x]}
  IN /\ ppc[p] = "collect" /\ WriteLockFree
     /\ batch' = [batch EXCEPT ![p] = ripe]
     /\ timers' = IF out THEN timers \ (ripe \ again) ELSE timers
     /\ live' = live \ (ripe \ again)
     /\ goTime' = [x \in Timer |-> IF x \in again THEN seen[p] + period[x] ELSE goTime[x]]
     /\ ppc' = [ppc EXCEPT ![p] = "loop"]
     /\ seen' = [seen EXCEPT ![p] = 0]
     /\ UNCHANGED <<clock, period, recur, tickled, notified, cpc, waitVars, cancelled>>
CollectEarly(p) == CollectUpTo(p, seen[p] + 1, TRUE)
CollectKeep(p) == CollectUpTo(p, seen[p], FALSE)

(* ... and takes out every timer up to then; a recurring one goes back in. *)
Collect(p) ==
  LET now == seen[p]
      ripe == {x \in timers : goTime[x] <= now}
      again == {x \in ripe : recur[x]}
  IN /\ ppc[p] = "collect" /\ WriteLockFree
     /\ batch' = [batch EXCEPT ![p] = ripe]
     /\ timers' = timers \ (ripe \ again)
     /\ live' = live \ (ripe \ again)
     /\ goTime' = [x \in Timer |-> IF x \in again THEN now + period[x] ELSE goTime[x]]
     /\ ppc' = [ppc EXCEPT ![p] = "loop"]
     /\ seen' = [seen EXCEPT ![p] = 0]
     /\ UNCHANGED <<clock, period, recur, tickled, notified, cpc, waitVars, cancelled>>

-----------------------------------------------------------------------------
Tick ==
  /\ clock < MaxTime
  /\ Preempt \/ WriteLockFree
  /\ clock' = clock + 1
  /\ UNCHANGED <<timerVars, tickled, notified, cpc, pollVars>>

Next ==
  \/ \E c \in Caller, x \in Timer :
       \/ AddTimer(c, x) \/ CancelTimer(c, x)
       \/ \E d \in Period, b \in BOOLEAN : Reset(c, x, d, b)
  \/ \E c \in Caller : NotifyIfTickled(c)
  \/ \E p \in Poller : \/ UnusedNextTime(p) \/ GetNextTime(p) \/ Subtract(p)
                       \/ EpollWait(p) \/ Interrupted(p) \/ Wake(p)
                       \/ ReadNow(p) \/ Collect(p)
  \/ Tick

Spec == Init /\ [][Next]_vars

-----------------------------------------------------------------------------
(* Properties *)

(* How late the wait of p started: the time that went by between the reading of
   the clock behind its timeout and the start, or last restart, of epoll_wait(). *)
Delay(p) == since[p] - asked[p]

(* When every poller sleeps and no wake-up is on its way, one of them wakes up
   by the time the first timer is due (or at once, when it is overdue), or
   later by no more than its own wait started late, no matter how insertions,
   resets and m_tickled, which getNextTime() clears and addTimer() reads
   outside the lock, interleave.  The one way to sleep longer is the
   subtraction of getNextTime(), whose second reading of the clock may have
   passed the timer. *)
Quiet == /\ \A p \in Poller : ppc[p] = "sleep"
         /\ \A c \in Caller : cpc[c] = "free"
         /\ ~notified
NoOversleep ==
  Quiet /\ timers # {} =>
    \E p \in Poller : p \in wrapped \/ WakesAt(p) <= Max({First, clock}) + Delay(p)

(* A timer that cancelTimer() has taken out is never collected afterwards,
   whoever was about to collect it or to reset it. *)
CancelledStaysSilent ==
  [][\A p \in Poller : batch'[p] # batch[p] => batch'[p] \cap cancelled = {}]_vars

(* A one-shot timer is collected once: no two pollers hold it, and it is not in
   the set any more. *)
CollectedOnce ==
  \A p \in Poller : \A x \in batch[p] :
    ~recur[x] => x \notin timers /\ \A q \in Poller \ {p} : x \notin batch[q]

(* A callback is never collected before its time, although nowTime may be
   stale and the timer may have been moved meanwhile. *)
NeverEarly ==
  [][\A p \in Poller : \A x \in batch'[p] \ batch[p] : goTime[x] <= clock]_vars
=============================================================================
