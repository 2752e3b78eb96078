--------------------------- MODULE TimerMngProofs ---------------------------
(***************************************************************************)
(* CollectedOnce, CancelledStaysSilent, NeverEarly and NoOversleep, for    *)
(* every number of timers, callers and pollers and without a bound on the  *)
(* periods.                                                                *)
(*                                                                         *)
(* That a timer which has left the set, by cancellation or collection,     *)
(* does not come back needs to know that addTimer() gets new objects only  *)
(* and that reset() looks for its timer in the set first (Used, Apart).    *)
(* That collection is not early needs to know that the nowTime of          *)
(* getTriggerableCB(), stale as it may be, is not ahead of the clock.      *)
(*                                                                         *)
(* That somebody wakes up for the first timer is kept by handing over: an  *)
(* insertion at the front is announced by m_tickled until its caller has   *)
(* notified, and whoever clears m_tickled before will look at the timer    *)
(* before it sleeps (Covered).  What is in time is the timeout counted from *)
(* the reading of the clock behind it (Ends); epoll_wait() counts it from  *)
(* its own start, and Delay is the difference.                             *)
(***************************************************************************)
EXTENDS TimerMng, WellFoundedInduction, TLAPS

Types ==
  /\ clock \in Nat
  /\ timers \subseteq Timer /\ cancelled \subseteq Timer
  /\ goTime \in [Timer -> Int] /\ period \in [Timer -> Nat]
  /\ recur \in [Timer -> BOOLEAN]
  /\ ppc \in [Poller -> {"loop", "next", "subtract", "ready", "sleep", "now", "collect"}]
  /\ seen \in [Poller -> Nat]
  /\ batch \in [Poller -> SUBSET Timer]

\* Whatever has been in the set is not a new object.
Used ==
  \A x \in Timer :
    x \in timers \cup cancelled \/ (\E p \in Poller : x \in batch[p]) => period[x] # 0
Apart == timers \cap cancelled = {}
NotAhead == \A p \in Poller : ppc[p] = "collect" => seen[p] <= clock

IInv == Types /\ Used /\ Apart /\ NotAhead /\ CollectedOnce

-----------------------------------------------------------------------------
LEMMA InitIInv == Init => IInv
  BY DEF Init, IInv, Types, Used, Apart, NotAhead, CollectedOnce

(* addTimer(): the object is new, so nobody holds or has cancelled it. *)
LEMMA AddKeeps ==
  ASSUME IInv, NEW c \in Caller, NEW x \in Timer, AddTimer(c, x)
  PROVE  IInv'
<1> USE TimerAssumption DEF IInv, Types
<1>1. PICK d \in Period, r \in BOOLEAN :
        /\ goTime' = [goTime EXCEPT ![x] = clock + d]
        /\ timers' = timers \cup {x}
        /\ period' = [period EXCEPT ![x] = d]
        /\ recur' = [recur EXCEPT ![x] = r]
  BY DEF AddTimer, Insert
<1>2. period[x] = 0 /\ UNCHANGED <<clock, pollVars, cancelled>>
  BY DEF AddTimer
<1>3. x \notin cancelled /\ \A p \in Poller : x \notin batch[p]
  BY <1>2 DEF Used
<1>4. Types'
  BY <1>1, <1>2 DEF pollVars
<1>5. (Used /\ Apart /\ NotAhead)'
  BY <1>1, <1>2, <1>3 DEF Used, Apart, NotAhead, pollVars
<1>6. CollectedOnce'
  BY <1>1, <1>2, <1>3 DEF CollectedOnce, pollVars
<1> QED
  BY <1>4, <1>5, <1>6

(* reset(): the timer is in the set before and after. *)
LEMMA ResetKeeps ==
  ASSUME IInv, NEW c \in Caller, NEW x \in Timer, NEW d \in Period, NEW b \in BOOLEAN,
         Reset(c, x, d, b)
  PROVE  IInv'
<1> USE TimerAssumption DEF IInv, Types
<1>1. /\ goTime' = [goTime EXCEPT ![x] = (IF b THEN clock ELSE goTime[x] - period[x]) + d]
      /\ timers' = timers
      /\ period' = [period EXCEPT ![x] = d]
      /\ UNCHANGED <<clock, recur, pollVars, cancelled>>
  BY DEF Reset, Insert
<1>2. Types'
  BY <1>1 DEF pollVars
<1>3. (Used /\ Apart /\ NotAhead /\ CollectedOnce)'
  BY <1>1 DEF Used, Apart, NotAhead, CollectedOnce, pollVars
<1> QED
  BY <1>2, <1>3

(* getTriggerableCB(): what it takes comes from the set, and only what recurs stays. *)
LEMMA CollectKeeps ==
  ASSUME IInv, NEW p \in Poller, Collect(p)
  PROVE  /\ IInv'
         /\ \A q \in Poller : batch'[q] # batch[q] => batch'[q] \cap cancelled = {}
         /\ \A q \in Poller : \A x \in batch'[q] \ batch[q] : goTime[x] <= clock
<1> USE TimerAssumption DEF IInv, Types
<1> DEFINE ripe == {x \in timers : goTime[x] <= seen[p]}
           again == {x \in ripe : recur[x]}
<1>1. /\ ppc[p] = "collect"
      /\ batch' = [batch EXCEPT ![p] = ripe]
      /\ timers' = timers \ (ripe \ again)
      /\ goTime' = [x \in Timer |-> IF x \in again THEN seen[p] + period[x] ELSE goTime[x]]
      /\ ppc' = [ppc EXCEPT ![p] = "loop"]
      /\ seen' = [seen EXCEPT ![p] = 0]
      /\ UNCHANGED <<clock, period, recur, cancelled>>
  BY DEF Collect
<1>2. ripe \subseteq timers /\ \A x \in ripe : x \notin again => ~recur[x]
  OBVIOUS
<1>3. Types'
  BY <1>1, <1>2
<1>4. (Used /\ Apart /\ NotAhead)'
  BY <1>1, <1>2 DEF Used, Apart, NotAhead
<1>5. CollectedOnce'
  <2> SUFFICES ASSUME NEW q \in Poller, NEW x \in batch'[q], ~recur'[x]
               PROVE  x \notin timers' /\ \A r \in Poller \ {q} : x \notin batch'[r]
    BY DEF CollectedOnce
  <2>1. x \in Timer /\ ~recur[x] /\ x \notin again
    BY <1>1, <1>2
  <2>2. CASE q = p
    <3>1. x \in ripe
      BY <1>1, <2>2
    <3>2. \A r \in Poller : x \notin batch[r]
      BY <2>1, <3>1 DEF CollectedOnce
    <3> QED
      BY <1>1, <2>1, <2>2, <3>1, <3>2
  <2>3. CASE q # p
    <3>1. x \in batch[q]
      BY <1>1, <2>3
    <3>2. x \notin timers /\ \A r \in Poller \ {q} : x \notin batch[r]
      BY <2>1, <3>1 DEF CollectedOnce
    <3> QED
      BY <1>1, <1>2, <2>3, <3>2
  <2> QED
    BY <2>2, <2>3
<1>6. \A q \in Poller : batch'[q] # batch[q] => batch'[q] \cap cancelled = {}
  BY <1>1, <1>2 DEF Apart
<1>7. \A q \in Poller : \A x \in batch'[q] \ batch[q] : goTime[x] <= clock
  <2> SUFFICES ASSUME NEW q \in Poller, NEW x \in batch'[q] \ batch[q]
               PROVE  goTime[x] <= clock
    OBVIOUS
  <2>1. q = p /\ x \in ripe
    BY <1>1
  <2>2. seen[p] <= clock
    BY <1>1 DEF NotAhead
  <2> QED
    BY <2>1, <2>2
<1> QED
  BY <1>3, <1>4, <1>5, <1>6, <1>7

(* Every step keeps the invariant, collects nothing that was cancelled and nothing early. *)
LEMMA StepIsRight ==
  ASSUME IInv, [Next]_vars
  PROVE  /\ IInv'
         /\ \A q \in Poller : batch'[q] # batch[q] => batch'[q] \cap cancelled = {}
         /\ \A q \in Poller : \A x \in batch'[q] \ batch[q] : goTime[x] <= clock
<1> USE TimerAssumption DEF IInv, Types
<1>1. ASSUME NEW c \in Caller, NEW x \in Timer, AddTimer(c, x) \/ (\E d \in Period, b \in BOOLEAN : Reset(c, x, d, b))
      PROVE  IInv' /\ batch' = batch
  BY <1>1, AddKeeps, ResetKeeps DEF AddTimer, Reset, pollVars
<1>2. ASSUME NEW c \in Caller, NEW x \in Timer, CancelTimer(c, x)
      PROVE  IInv' /\ batch' = batch
  <2>1. /\ x \in timers /\ timers' = timers \ {x} /\ cancelled' = cancelled \cup {x}
        /\ UNCHANGED <<clock, goTime, period, recur, ppc, seen, batch>>
    BY <1>2 DEF CancelTimer, pollVars
  <2> QED
    BY <2>1 DEF Used, Apart, NotAhead, CollectedOnce
<1>3. ASSUME NEW c \in Caller, NotifyIfTickled(c)
      PROVE  IInv' /\ batch' = batch
  BY <1>3 DEF NotifyIfTickled, timerVars, pollVars, Used, Apart, NotAhead, CollectedOnce
<1>4. ASSUME NEW p \in Poller, UnusedNextTime(p)
      PROVE  IInv' /\ \A q \in Poller : batch'[q] = batch[q] \/ batch'[q] = {}
  <2>1. /\ batch' = [batch EXCEPT ![p] = {}]
        /\ ppc' = [ppc EXCEPT ![p] = "next"]
        /\ UNCHANGED <<clock, timers, goTime, period, recur, cancelled, seen>>
    BY <1>4 DEF UnusedNextTime, timerVars
  <2> QED
    BY <2>1 DEF Used, Apart, NotAhead, CollectedOnce
<1>5. ASSUME NEW p \in Poller,
             GetNextTime(p) \/ Subtract(p) \/ EpollWait(p) \/ Interrupted(p) \/ Wake(p)
      PROVE  IInv' /\ batch' = batch
  <2>1. /\ UNCHANGED <<clock, timers, goTime, period, recur, cancelled, seen, batch>>
        /\ \E at \in {"subtract", "ready", "sleep", "now"} :
             ppc' = [ppc EXCEPT ![p] = at] \/ ppc' = ppc
    BY <1>5 DEF GetNextTime, Subtract, Answer, EpollWait, Interrupted, Wake, timerVars
  <2> QED
    BY <2>1 DEF Used, Apart, NotAhead, CollectedOnce
<1>6. ASSUME NEW p \in Poller, ReadNow(p)
      PROVE  IInv' /\ batch' = batch
  <2>1. /\ UNCHANGED <<clock, timers, goTime, period, recur, cancelled, batch>>
        /\ seen' = [seen EXCEPT ![p] = clock]
        /\ ppc' = [ppc EXCEPT ![p] = "collect"]
    BY <1>6 DEF ReadNow, timerVars
  <2> QED
    BY <2>1 DEF Used, Apart, NotAhead, CollectedOnce
<1>7. CASE Tick \/ UNCHANGED vars
  <2>1. /\ clock' \in {clock, clock + 1}
        /\ UNCHANGED <<timers, goTime, period, recur, cancelled, ppc, seen, batch>>
    BY <1>7 DEF Tick, vars, timerVars, pollVars
  <2> QED
    BY <2>1 DEF Used, Apart, NotAhead, CollectedOnce
<1> QED
  BY <1>1, <1>2, <1>3, <1>4, <1>5, <1>6, <1>7, CollectKeeps DEF Next

(* A one-shot timer that has been collected is in no other poller's hand and *)
(* not in the set.                                                           *)
THEOREM OneShotsOnce == Spec => []CollectedOnce
<1>1. IInv /\ [Next]_vars => IInv'
  BY StepIsRight
<1>2. IInv => CollectedOnce
  BY DEF IInv
<1> QED
  BY InitIInv, <1>1, <1>2, PTL DEF Spec

(* No step collects a timer that cancelTimer() has taken out. *)
THEOREM CancelledForGood == Spec => CancelledStaysSilent
<1>1. IInv /\ [Next]_vars => IInv'
  BY StepIsRight
<1>2. IInv /\ [Next]_vars =>
        [\A p \in Poller : batch'[p] # batch[p] => batch'[p] \cap cancelled = {}]_vars
  BY StepIsRight
<1> QED
  BY InitIInv, <1>1, <1>2, PTL DEF Spec, CancelledStaysSilent

(* No step collects a timer before it is due. *)
THEOREM NothingEarly == Spec => NeverEarly
<1>1. IInv /\ [Next]_vars => IInv'
  BY StepIsRight
<1>2. IInv /\ [Next]_vars =>
        [\A p \in Poller : \A x \in batch'[p] \ batch[p] : goTime[x] <= clock]_vars
  BY StepIsRight
<1> QED
  BY InitIInv, <1>1, <1>2, PTL DEF Spec, NeverEarly

-----------------------------------------------------------------------------
(* Nobody oversleeps the first timer. *)

SleepTypes ==
  /\ tickled \in BOOLEAN /\ notified \in BOOLEAN
  /\ cpc \in [Caller -> {"free", "check"}]
  /\ timeout \in [Poller -> Nat] /\ since \in [Poller -> Nat] /\ asked \in [Poller -> Nat]
  /\ \A x \in timers : period[x] <= goTime[x]

\* A wake-up is in the pipe, or a caller that will send one has not read
\* m_tickled yet.
Announced == notified \/ (tickled /\ \E c \in Caller : cpc[c] = "check")
\* Counted from the reading of the clock behind it, the timeout of p is over
\* now, or by the time any timer is due.
Ends(p) == asked[p] + timeout[p]
InTime(p) == Ends(p) <= clock \/ \A x \in timers : Ends(p) <= goTime[x]
\* p will still look at the timers, or waits for none of them too long.
Guards(p) == ppc[p] \notin {"ready", "sleep"} \/ p \in wrapped \/ InTime(p)
Covered == timers = {} \/ Announced \/ \E p \in Poller : Guards(p)

\* The read lock keeps the first timer in the set.
Locked == \A p \in Poller : ppc[p] = "subtract" => timers # {}

SleepInv == IInv /\ SleepTypes /\ Locked /\ Covered

(* Any times there are have an earliest. *)
LEMMA Earliest ==
  ASSUME NEW S, S \subseteq Nat, S # {}
  PROVE  \E n \in S : \A m \in S : n <= m
<1>1. \E n \in S : \A m \in S : ~ (<<m, n>> \in OpToRel(<, Nat))
  BY NatLessThanWellFounded, WFMin
<1>2. \E n \in S : \A m \in S : ~(m < n)
  BY <1>1 DEF OpToRel
<1>3. \A n \in S, m \in S : ~(m < n) => n <= m
  OBVIOUS
<1> QED  BY <1>2, <1>3, Zenon

(* m_timers.begin(): the first timer is in the set, and no timer is before it. *)
LEMMA FirstIsMinimum ==
  ASSUME IInv, SleepTypes, timers # {}
  PROVE  /\ First \in Nat
         /\ \E x \in timers : First = goTime[x]
         /\ \A x \in timers : First <= goTime[x]
<1> DEFINE S == {goTime[x] : x \in timers}
<1>1. S \subseteq Nat /\ S # {}
  BY DEF IInv, Types, SleepTypes
<1>2. \E n \in S : \A m \in S : n <= m
  <2> HIDE DEF S
  <2> QED  BY <1>1, Earliest
<1>3. First \in S /\ \A m \in S : First <= m
  <2> HIDE DEF S
  <2>1. First = CHOOSE n \in S : \A m \in S : n <= m
    BY DEF First, Min, S
  <2> QED  BY <1>2, <2>1
<1> QED  BY <1>1, <1>3

(* The later of two times is one of them and not before the other. *)
LEMMA MaxOfTwo ==
  ASSUME NEW a \in Nat, NEW b \in Nat
  PROVE  Max({a, b}) \in Nat /\ a <= Max({a, b}) /\ b <= Max({a, b})
<1>1. \E m \in {a, b} : \A n \in {a, b} : m >= n
  <2>1. CASE a >= b
    BY <2>1
  <2>2. CASE ~(a >= b)
    BY <2>2
  <2> QED  BY <2>1, <2>2
<1> QED  BY <1>1 DEF Max

(* The earlier of two times is one of them and not after the other. *)
LEMMA MinOfTwo ==
  ASSUME NEW a \in Nat, NEW b \in Nat
  PROVE  Min({a, b}) \in Nat /\ Min({a, b}) <= a /\ Min({a, b}) <= b
<1>1. \E m \in {a, b} : \A n \in {a, b} : m <= n
  <2>1. CASE a <= b
    BY <2>1
  <2>2. CASE ~(a <= b)
    BY <2>2
  <2> QED  BY <2>1, <2>2
<1> QED  BY <1>1 DEF Min

(* addTimer(timer, lock): a timer put first is announced, and one that is not
   leaves everybody in time who was. *)
LEMMA InsertCovers ==
  ASSUME SleepInv, NEW c \in Caller, NEW x \in Timer, NEW g \in Nat, NEW d \in Nat, d <= g,
         Insert(c, x, g), period' = [period EXCEPT ![x] = d],
         UNCHANGED <<clock, notified, pollVars>>
  PROVE  SleepTypes' /\ Covered'
<1> USE DEF SleepInv, IInv, Types, SleepTypes, pollVars
<1>1. PICK front \in BOOLEAN :
        /\ (\A y \in timers \ {x} : g < goTime[y]) => front
        /\ tickled' = (tickled \/ front)
  BY DEF Insert
<1>2. /\ goTime' = [goTime EXCEPT ![x] = g] /\ timers' = timers \cup {x}
      /\ cpc' = [cpc EXCEPT ![c] = "check"]
  BY DEF Insert
<1>3. SleepTypes'
  <2>1. /\ tickled' \in BOOLEAN /\ notified' \in BOOLEAN
        /\ UNCHANGED waitVars
    BY <1>1
  <2>2. cpc' \in [Caller -> {"free", "check"}]
    BY <1>2
  <2>3. \A y \in timers' : period'[y] <= goTime'[y]
    BY <1>2
  <2> QED  BY <2>1, <2>2, <2>3 DEF waitVars
<1>4. Covered'
  <2>1. CASE tickled'
    BY <1>2, <2>1 DEF Covered, Announced
  <2>2. CASE ~tickled'
    <3>1. PICK y \in timers \ {x} : goTime[y] <= g
      BY <1>1, <2>2
    <3>2. CASE notified
      BY <3>2 DEF Covered, Announced
    <3>3. CASE ~notified
      <4>1. PICK p \in Poller : Guards(p)
        BY <1>1, <2>2, <3>1, <3>3 DEF Covered, Announced
      <4>2. InTime(p) => InTime(p)'
        <5>1. ASSUME \A z \in timers : Ends(p) <= goTime[z], NEW z \in timers'
              PROVE  Ends(p) <= goTime'[z]
          <6>1. Ends(p) \in Nat
            BY DEF Ends
          <6> HIDE DEF Ends
          <6> QED  BY <1>2, <3>1, <5>1, <6>1
        <5>2. Ends(p)' = Ends(p)
          BY DEF Ends, waitVars
        <5> QED  BY <5>1, <5>2 DEF InTime
      <4> QED  BY <4>1, <4>2 DEF Covered, Guards, waitVars
    <3> QED  BY <3>2, <3>3
  <2> QED  BY <2>1, <2>2
<1> QED  BY <1>3, <1>4

(* An answer that counts from now ends no later than the time asked for. *)
LEMMA AnswerEnds ==
  ASSUME SleepInv, NEW p \in Poller, NEW ticks \in Nat, Answer(p, ticks), UNCHANGED since
  PROVE  /\ timeout' \in [Poller -> Nat] /\ since' \in [Poller -> Nat] /\ asked' \in [Poller -> Nat]
         /\ Ends(p)' \in Nat /\ Ends(p)' <= clock + ticks
         /\ ppc' = [ppc EXCEPT ![p] = "ready"]
<1> USE TimerAssumption DEF SleepInv, IInv, Types, SleepTypes
<1> DEFINE cut == Min({ticks, MaxTimeout})
<1>1. /\ timeout' = [timeout EXCEPT ![p] = cut] /\ asked' = [asked EXCEPT ![p] = clock]
      /\ ppc' = [ppc EXCEPT ![p] = "ready"]
  BY DEF Answer
<1>2. cut \in Nat /\ cut <= ticks
  BY MinOfTwo
<1> HIDE DEF cut
<1>3. Ends(p)' = clock + cut
  BY <1>1 DEF Ends
<1> QED  BY <1>1, <1>2, <1>3

(* getNextTime(): whoever clears m_tickled has looked at the first timer, and
   will wait no longer than until then. *)
LEMMA GetNextTimeCovers ==
  ASSUME SleepInv, NEW p \in Poller, GetNextTime(p)
  PROVE  SleepTypes' /\ Covered'
<1>1. tickled' = FALSE /\ UNCHANGED <<clock, timerVars, notified, cpc, since, wrapped>>
  BY DEF GetNextTime
<1>2. ASSUME timeout' \in [Poller -> Nat], since' \in [Poller -> Nat], asked' \in [Poller -> Nat]
      PROVE  SleepTypes'
  BY <1>1, <1>2 DEF SleepInv, SleepTypes, timerVars
<1>3. CASE timers = {}
  <2>1. Answer(p, MaxTimeout) /\ MaxTimeout \in Nat
    BY <1>3, TimerAssumption DEF GetNextTime
  <2>2. SleepTypes'
    BY <1>1, <1>2, <2>1, AnswerEnds
  <2> QED  BY <1>1, <1>3, <2>2 DEF Covered, timerVars
<1>4. CASE timers # {} /\ First <= clock
  <2>1. Answer(p, 0)
    BY <1>4 DEF GetNextTime
  <2>2. SleepTypes' /\ Ends(p)' \in Nat /\ Ends(p)' <= clock + 0
    BY <1>1, <1>2, <2>1, AnswerEnds
  <2>3. InTime(p)'
    BY <1>1, <2>2 DEF InTime, SleepInv, IInv, Types
  <2> QED  BY <2>2, <2>3 DEF Covered, Guards
<1>5. CASE timers # {} /\ ~(First <= clock)
  <2>1. ppc' = [ppc EXCEPT ![p] = "subtract"] /\ UNCHANGED <<timeout, asked>>
    BY <1>5 DEF GetNextTime
  <2>2. ppc'[p] = "subtract"
    BY <2>1 DEF SleepInv, IInv, Types
  <2>3. SleepTypes'
    BY <1>1, <1>2, <2>1 DEF SleepInv, SleepTypes
  <2> QED  BY <2>2, <2>3 DEF Covered, Guards
<1> QED  BY <1>3, <1>4, <1>5

(* The subtraction of getNextTime() answers the time until the first timer, or
   it has wrapped. *)
LEMMA SubtractCovers ==
  ASSUME SleepInv, NEW p \in Poller, Subtract(p)
  PROVE  SleepTypes' /\ Covered'
<1>1. UNCHANGED <<clock, timerVars, tickled, notified, cpc, since>>
  BY DEF Subtract
<1>2. ASSUME timeout' \in [Poller -> Nat], since' \in [Poller -> Nat], asked' \in [Poller -> Nat]
      PROVE  SleepTypes'
  BY <1>1, <1>2 DEF SleepInv, SleepTypes, timerVars
<1>3. timers # {} /\ clock \in Nat
  BY DEF Subtract, SleepInv, Locked, IInv, Types
<1>4. First \in Nat /\ \A x \in timers : First <= goTime[x]
  BY <1>3, FirstIsMinimum DEF SleepInv
<1>5. CASE clock > First
  <2>1. Answer(p, MaxTimeout) /\ MaxTimeout \in Nat /\ p \in wrapped'
    BY <1>5, TimerAssumption DEF Subtract
  <2>2. SleepTypes'
    BY <1>1, <1>2, <2>1, AnswerEnds
  <2> QED  BY <2>1, <2>2 DEF Covered, Guards
<1>6. CASE ~(clock > First)
  <2>1. Answer(p, First - clock)
    BY <1>6 DEF Subtract
  <2>2. First - clock \in Nat /\ clock + (First - clock) = First
    BY <1>3, <1>4, <1>6
  <2>3. SleepTypes' /\ Ends(p)' \in Nat /\ Ends(p)' <= First
    BY <1>1, <1>2, <2>1, <2>2, AnswerEnds
  <2>4. \A x \in timers' : Ends(p)' <= goTime'[x]
    <3>1. \A x \in timers : goTime[x] \in Int
      BY DEF SleepInv, IInv, Types
    <3> QED  BY <1>1, <1>4, <2>3, <3>1 DEF timerVars
  <2>5. InTime(p)'
    BY <2>4 DEF InTime
  <2> QED  BY <2>3, <2>5 DEF Covered, Guards
<1> QED  BY <1>5, <1>6

(* Every step leaves somebody up, warned or asleep until the first timer. *)
LEMMA SleepStep ==
  ASSUME SleepInv, [Next]_vars
  PROVE  SleepTypes' /\ Locked' /\ Covered'
<1> USE TimerAssumption DEF SleepInv, IInv, Types
<1>1. ASSUME NEW c \in Caller, NEW x \in Timer, AddTimer(c, x)
      PROVE  SleepTypes' /\ Locked' /\ Covered'
  <2>1. PICK d \in Period : Insert(c, x, clock + d) /\ period' = [period EXCEPT ![x] = d]
    BY <1>1 DEF AddTimer
  <2>2. d \in Nat /\ clock + d \in Nat /\ d <= clock + d
    OBVIOUS
  <2>3. UNCHANGED <<clock, notified, pollVars>>
    BY <1>1 DEF AddTimer
  <2>4. Locked'
    BY <2>1, <2>3 DEF Insert, Locked, pollVars
  <2> QED  BY <2>1, <2>2, <2>3, <2>4, InsertCovers
<1>2. ASSUME NEW c \in Caller, NEW x \in Timer, NEW d \in Period, NEW b \in BOOLEAN, Reset(c, x, d, b)
      PROVE  SleepTypes' /\ Locked' /\ Covered'
  <2> DEFINE g == (IF b THEN clock ELSE goTime[x] - period[x]) + d
  <2>1. /\ Insert(c, x, g) /\ period' = [period EXCEPT ![x] = d]
        /\ UNCHANGED <<clock, notified, pollVars>> /\ x \in timers
    BY <1>2 DEF Reset
  <2>2. d \in Nat /\ g \in Nat /\ d <= g
    BY <2>1 DEF SleepTypes
  <2> HIDE DEF g
  <2>3. Locked'
    BY <2>1 DEF Insert, Locked, pollVars
  <2> QED  BY <2>1, <2>2, <2>3, InsertCovers
<1>3. ASSUME NEW c \in Caller, NEW x \in Timer, CancelTimer(c, x)
      PROVE  SleepTypes' /\ Locked' /\ Covered'
  <2>1. /\ timers' = timers \ {x} /\ WriteLockFree
        /\ UNCHANGED <<clock, goTime, period, tickled, notified, cpc, pollVars>>
    BY <1>3 DEF CancelTimer
  <2>2. SleepTypes' /\ Locked'
    BY <2>1 DEF SleepTypes, Locked, WriteLockFree, pollVars, waitVars
  <2>3. Covered'
    BY <2>1 DEF Covered, Announced, Guards, InTime, Ends, pollVars, waitVars
  <2> QED  BY <2>2, <2>3
<1>4. ASSUME NEW c \in Caller, NotifyIfTickled(c)
      PROVE  SleepTypes' /\ Locked' /\ Covered'
  <2>1. /\ cpc[c] = "check" /\ notified' = (notified \/ tickled)
        /\ cpc' = [cpc EXCEPT ![c] = "free"]
        /\ UNCHANGED <<clock, timerVars, tickled, pollVars>>
    BY <1>4 DEF NotifyIfTickled
  <2>2. SleepTypes' /\ Locked'
    BY <2>1 DEF SleepTypes, Locked, pollVars, waitVars, timerVars
  <2>3. Covered'
    BY <2>1 DEF Covered, Announced, Guards, InTime, Ends, pollVars, waitVars, timerVars
  <2> QED  BY <2>2, <2>3
<1>5. ASSUME NEW p \in Poller, GetNextTime(p)
      PROVE  SleepTypes' /\ Locked' /\ Covered'
  <2>1. timers' = timers
    BY <1>5 DEF GetNextTime, timerVars
  <2>2. \E at \in {"ready", "subtract"} :
          ppc' = [ppc EXCEPT ![p] = at] /\ (timers = {} => at # "subtract")
    BY <1>5 DEF GetNextTime, Answer
  <2>3. Locked'
    BY <2>1, <2>2 DEF Locked
  <2> QED  BY <1>5, <2>3, GetNextTimeCovers
<1>6. ASSUME NEW p \in Poller, Subtract(p)
      PROVE  SleepTypes' /\ Locked' /\ Covered'
  <2>1. Locked'
    BY <1>6 DEF Subtract, Answer, Locked, timerVars
  <2> QED  BY <1>6, <2>1, SubtractCovers
<1>7. ASSUME NEW p \in Poller, UnusedNextTime(p) \/ Wake(p) \/ ReadNow(p)
      PROVE  SleepTypes' /\ Locked' /\ Covered'
  <2>1. /\ \E at \in {"next", "now", "collect"} : ppc' = [ppc EXCEPT ![p] = at]
        /\ notified' \in {notified, FALSE} /\ tickled' \in {tickled, FALSE}
        /\ UNCHANGED <<clock, timerVars, cpc>>
    BY <1>7 DEF UnusedNextTime, Wake, ReadNow
  <2>2. /\ timeout' \in {timeout, [timeout EXCEPT ![p] = 0]}
        /\ since' \in {since, [since EXCEPT ![p] = 0]}
        /\ asked' \in {asked, [asked EXCEPT ![p] = 0]}
    BY <1>7 DEF UnusedNextTime, Wake, ReadNow, waitVars
  <2>3. ppc'[p] \notin {"ready", "sleep"}
    BY <2>1
  <2>4. Locked'
    BY <2>1 DEF Locked, timerVars
  <2>5. timeout' \in [Poller -> Nat] /\ since' \in [Poller -> Nat] /\ asked' \in [Poller -> Nat]
    BY <2>2 DEF SleepTypes
  <2>6. SleepTypes'
    BY <2>1, <2>5 DEF SleepTypes, timerVars
  <2> QED  BY <2>3, <2>4, <2>6 DEF Covered, Guards
<1>10. ASSUME NEW p \in Poller, EpollWait(p) \/ Interrupted(p)
       PROVE  SleepTypes' /\ Locked' /\ Covered'
  <2>1. /\ \E at \in {"sleep"} : ppc' = [ppc EXCEPT ![p] = at] \/ ppc' = ppc
        /\ ppc[p] \in {"ready", "sleep"} /\ since' = [since EXCEPT ![p] = clock]
        /\ UNCHANGED <<clock, timerVars, tickled, notified, cpc, timeout, asked, wrapped>>
    BY <1>10 DEF EpollWait, Interrupted
  <2>2. SleepTypes' /\ Locked'
    BY <2>1 DEF SleepTypes, Locked, timerVars
  <2>3. \A q \in Poller : Guards(q) => Guards(q)'
    BY <2>1 DEF Guards, InTime, Ends, timerVars
  <2>4. Covered'
    BY <2>1, <2>3 DEF Covered, Announced, timerVars
  <2> QED  BY <2>2, <2>4
<1>8. ASSUME NEW p \in Poller, Collect(p)
      PROVE  SleepTypes' /\ Locked' /\ Covered'
  <2> DEFINE ripe == {x \in timers : goTime[x] <= seen[p]}
             again == {x \in ripe : recur[x]}
  <2>1. /\ timers' = timers \ (ripe \ again) /\ WriteLockFree
        /\ goTime' = [x \in Timer |-> IF x \in again THEN seen[p] + period[x] ELSE goTime[x]]
        /\ ppc' = [ppc EXCEPT ![p] = "loop"]
        /\ UNCHANGED <<clock, period, tickled, notified, cpc, timeout, since, asked>>
    BY <1>8 DEF Collect, waitVars
  <2>2. ppc'[p] \notin {"ready", "sleep"}
    BY <2>1
  <2>3. \A x \in timers' : period'[x] <= goTime'[x]
    BY <2>1 DEF SleepTypes
  <2>4. SleepTypes'
    BY <2>1, <2>3 DEF SleepTypes
  <2>5. Locked'
    BY <2>1 DEF Locked, WriteLockFree
  <2> QED  BY <2>2, <2>4, <2>5 DEF Covered, Guards
<1>9. CASE Tick \/ UNCHANGED vars
  <2>1. /\ clock' \in {clock, clock + 1}
        /\ UNCHANGED <<timers, goTime, period, tickled, notified, cpc, ppc, waitVars>>
    BY <1>9 DEF Tick, vars, timerVars, pollVars, waitVars
  <2>2. SleepTypes' /\ Locked'
    BY <2>1 DEF SleepTypes, Locked, waitVars
  <2>3. \A p \in Poller : Guards(p) => Guards(p)'
    <3>1. \A p \in Poller : Ends(p) \in Nat /\ Ends(p)' = Ends(p)
      BY <2>1 DEF Ends, SleepTypes, waitVars
    <3> QED  BY <2>1, <3>1 DEF Guards, InTime, waitVars
  <2>4. Covered'
    BY <2>1, <2>3 DEF Covered, Announced
  <2> QED  BY <2>2, <2>4
<1> QED
  BY <1>1, <1>2, <1>3, <1>4, <1>5, <1>6, <1>7, <1>8, <1>9, <1>10 DEF Next

(* When all threads sleep and nobody is about to tickle, one of them wakes up by
   the time the first timer is due, later only by as much as its epoll_wait()
   started, or was started again, after the reading of the clock behind its
   timeout, or when the subtraction behind it has wrapped. *)
THEOREM SomebodyIsUpInTime == Spec => []NoOversleep
<1>1. Init => SleepInv
  <2> SUFFICES ASSUME Init PROVE SleepTypes /\ Locked /\ Covered
    BY InitIInv DEF SleepInv
  <2> QED  BY DEF Init, SleepTypes, Locked, Covered
<1>2. SleepInv /\ [Next]_vars => SleepInv'
  BY StepIsRight, SleepStep DEF SleepInv
<1>3. SleepInv => NoOversleep
  <2> SUFFICES ASSUME SleepInv, Quiet, timers # {}
               PROVE  \E p \in Poller :
                        p \in wrapped \/ WakesAt(p) <= Max({First, clock}) + Delay(p)
    BY DEF NoOversleep
  <2>1. PICK p \in Poller : p \in wrapped \/ InTime(p)
    BY DEF SleepInv, Covered, Announced, Guards, Quiet
  <2>2. First \in Nat /\ \E x \in timers : First = goTime[x]
    BY FirstIsMinimum DEF SleepInv
  <2>3. /\ clock \in Nat /\ since[p] \in Nat /\ asked[p] \in Nat /\ timeout[p] \in Nat
    BY DEF SleepInv, IInv, Types, SleepTypes
  <2>4. InTime(p) => Ends(p) <= clock \/ Ends(p) <= First
    BY <2>2 DEF InTime
  <2> DEFINE until == Max({First, clock})
  <2>5. until \in Nat /\ First <= until /\ clock <= until
    BY <2>2, <2>3, MaxOfTwo
  <2> HIDE DEF until
  <2>6. InTime(p) => asked[p] + timeout[p] <= until
    BY <2>2, <2>3, <2>4, <2>5 DEF Ends
  <2>7. InTime(p) => WakesAt(p) <= until + Delay(p)
    BY <2>3, <2>5, <2>6 DEF WakesAt, Delay
  <2> QED  BY <2>1, <2>7 DEF until
<1> QED
  BY <1>1, <1>2, <1>3, PTL DEF Spec
=============================================================================
