-------------------------------- MODULE Hook --------------------------------
(***************************************************************************)
(* The hooked system calls on one descriptor number (src/src/Hook and       *)
(* src/src/FdMng over src/src/IOmanager): coroutines open a connection,     *)
(* read from it through do_io(), and close it; the kernel may give the      *)
(* number to the next connection at once.                                   *)
(*                                                                         *)
(* do_io() tries the call, and when it would block arms a timer, registers  *)
(* the coroutine, yields, and tries again.  The timer's callback is queued  *)
(* like any task and runs on any thread, possibly long after the wait it    *)
(* was armed for; it reaches the call through a weak pointer to a           *)
(* condition that lives as long as the call.                                *)
(*                                                                         *)
(* A coroutine keeps its thread from one yield to the next, so at most      *)
(* Threads of them are between two steps.  Events are delivered to parked   *)
(* coroutines only (earlier ones are Scheduler's subject), and the          *)
(* registration is the one of IOmanager for EPOLLIN alone: FdEvents has     *)
(* the rest.  accept() is do_io() on a listening descriptor.                *)
(***************************************************************************)
EXTENDS Naturals, FiniteSets

CONSTANTS
  Coro,         \* coroutines that use the descriptor
  Threads,      \* threads of the IOmanager
  None,         \* no coroutine
  MaxConn,      \* bound on the connections opened
  MaxQueued     \* bound on the timeout callbacks queued for one call

ASSUME HookAssumption ==
  /\ Threads \in Nat \ {0} /\ MaxConn \in Nat /\ MaxQueued \in Nat \ {0}
  /\ None \notin Coro

VARIABLES
  conn,        \* kernel: the connection behind the descriptor, 0 if closed
  opened,      \* how many have been opened
  ready,       \* kernel: there is something to read
  watched,     \* epoll has the descriptor
  fdctx,       \* FdMng has an FdCtx for the descriptor
  reg,         \* FdContext: the coroutine registered for READ, or None
  pc,          \* where each coroutine is
  own,         \* the connection each coroutine takes the descriptor for
  timed,       \* has the current call a timeout?
  armed,       \* is the timer of the current wait in m_timers?
  queued,      \* queued timeout callbacks whose condition is still alive
  cancelled,   \* timerCond::cancelled of the current call
  fired,       \* history: did a timer of the current call expire?
  cancelling,  \* callbacks between setting cancelled and cancelEvent()
  aborted      \* a GAIYA_ASSERT has failed

kernelVars == <<conn, opened, ready>>
callVars == <<timed, armed, queued, cancelled, fired>>
vars == <<kernelVars, watched, fdctx, reg, pc, own, callVars, cancelling, aborted>>

OffThread == {"out", "parked", "queued"}
Closing == {"closeAll", "closeDel", "closeFd"}
OnThread == {"user", "opened", "raw", "io", "arm", "add", "woke", "check"} \cup Closing

(* How many threads run a coroutine or a callback. *)
Busy == Cardinality({c \in Coro : pc[c] \in OnThread}) + cancelling

TypeOK ==
  /\ conn \in 0..MaxConn /\ opened \in 0..MaxConn
  /\ {ready, watched, fdctx, aborted} \subseteq BOOLEAN
  /\ reg \in Coro \cup {None}
  /\ pc \in [Coro -> OffThread \cup OnThread]
  /\ own \in [Coro -> 0..MaxConn]
  /\ timed \in [Coro -> BOOLEAN] /\ armed \in [Coro -> BOOLEAN]
  /\ queued \in [Coro -> 0..MaxQueued]
  /\ cancelled \in [Coro -> BOOLEAN] /\ fired \in [Coro -> BOOLEAN]
  /\ cancelling \in 0..Threads /\ Busy <= Threads

Init ==
  /\ conn = 0 /\ opened = 0 /\ ready = FALSE
  /\ watched = FALSE /\ fdctx = FALSE /\ reg = None
  /\ pc = [c \in Coro |-> "out"] /\ own = [c \in Coro |-> 0]
  /\ timed = [c \in Coro |-> FALSE] /\ armed = [c \in Coro |-> FALSE]
  /\ queued = [c \in Coro |-> 0]
  /\ cancelled = [c \in Coro |-> FALSE] /\ fired = [c \in Coro |-> FALSE]
  /\ cancelling = 0 /\ aborted = FALSE

At(c, l) == ~aborted /\ pc[c] = l
Goto(c, l) == pc' = [pc EXCEPT ![c] = l]

(* A thread is in its idle coroutine, or between two tasks. *)
ThreadFree == ~aborted /\ Busy < Threads

-----------------------------------------------------------------------------
(* run() gives a coroutine a thread; a coroutine with nothing to do yields. *)
Enter(c) ==
  /\ ThreadFree /\ pc[c] = "out"
  /\ Goto(c, "user")
  /\ UNCHANGED <<kernelVars, watched, fdctx, reg, own, callVars, cancelling, aborted>>

Leave(c) ==
  /\ At(c, "user")
  /\ Goto(c, "out")
  /\ UNCHANGED <<kernelVars, watched, fdctx, reg, own, callVars, cancelling, aborted>>

(* socket() or accept(): the kernel gives out the number ... *)
Open(c) ==
  /\ At(c, "user")
  /\ conn = 0 /\ opened < MaxConn
  /\ conn' = opened + 1 /\ opened' = opened + 1
  /\ ready' = FALSE
  /\ own' = [own EXCEPT ![c] = opened + 1]
  /\ Goto(c, "opened")
  /\ UNCHANGED <<watched, fdctx, reg, callVars, cancelling, aborted>>

(* ... and FdMng::get(fd, true) makes its FdCtx. *)
CreateCtx(c) ==
  /\ At(c, "opened")
  /\ fdctx' = TRUE
  /\ Goto(c, "user")
  /\ UNCHANGED <<kernelVars, watched, reg, own, callVars, cancelling, aborted>>

-----------------------------------------------------------------------------
(* do_io() *)

(* Mutant of Return: the condition outlives the call. *)
ReturnCondAlive(c) == Goto(c, "user") /\ UNCHANGED queued

(* The call returns and its condition goes: callbacks still queued will find
   their weak pointer expired and do nothing. *)
Return(c) ==
  /\ Goto(c, "user")
  /\ queued' = [queued EXCEPT ![c] = 0]

(* A call on a connection the caller holds, with the timeout the descriptor
   has at that moment; without an FdCtx it is passed through to the kernel. *)
Read(c) ==
  /\ At(c, "user")
  /\ own[c] # 0 /\ own[c] = conn
  /\ \E t \in BOOLEAN : timed' = [timed EXCEPT ![c] = t]
  /\ cancelled' = [cancelled EXCEPT ![c] = FALSE]
  /\ fired' = [fired EXCEPT ![c] = FALSE]
  /\ Goto(c, IF fdctx THEN "io" ELSE "raw")
  /\ UNCHANGED <<kernelVars, watched, fdctx, reg, own, armed, queued, cancelling, aborted>>

Raw(c) ==
  /\ At(c, "raw")
  /\ ready' = FALSE
  /\ Goto(c, "user")
  /\ UNCHANGED <<conn, opened, watched, fdctx, reg, own, callVars, cancelling, aborted>>

(* retry: the call itself fails on a closed descriptor, succeeds, or would
   block. *)
IO(c) ==
  /\ At(c, "io")
  /\ IF conn = 0 \/ ready
     THEN Return(c) /\ ready' = FALSE
     ELSE Goto(c, "arm") /\ UNCHANGED <<ready, queued>>
  /\ UNCHANGED <<conn, opened, watched, fdctx, reg, own, timed, armed, cancelled,
                 fired, cancelling, aborted>>

(* addConditionTimer(), if the call has a timeout. *)
Arm(c) ==
  /\ At(c, "arm")
  /\ armed' = [armed EXCEPT ![c] = timed[c]]
  /\ Goto(c, "add")
  /\ UNCHANGED <<kernelVars, watched, fdctx, reg, own, timed, queued, cancelled,
                 fired, cancelling, aborted>>

(* addEvent(), which asserts that nobody is registered and fails on a closed
   descriptor; then YieldToHold(). *)
Add(c) ==
  /\ At(c, "add")
  /\ CASE reg # None ->
            aborted' = TRUE /\ UNCHANGED <<reg, watched, pc, armed, queued>>
       [] reg = None /\ conn = 0 ->
            /\ armed' = [armed EXCEPT ![c] = FALSE]
            /\ Return(c)
            /\ UNCHANGED <<reg, watched, aborted>>
       [] reg = None /\ conn # 0 ->
            /\ reg' = c /\ watched' = TRUE
            /\ Goto(c, "parked")
            /\ UNCHANGED <<armed, queued, aborted>>
  /\ UNCHANGED <<kernelVars, fdctx, own, timed, cancelled, fired, cancelling>>

(* Mutant of Trigger: the coroutine is taken out but not scheduled. *)
TriggerNobody == reg' = None /\ watched' = FALSE /\ UNCHANGED pc

(* Mutant of Trigger: the context is not reset. *)
TriggerKeepsContext ==
  /\ Goto(reg, "queued")
  /\ watched' = FALSE /\ UNCHANGED reg

(* triggerEvent(): schedule the coroutine that is registered; epoll forgets
   the descriptor. *)
Trigger ==
  /\ Goto(reg, "queued")
  /\ reg' = None /\ watched' = FALSE

Registered == reg # None /\ watched

(* An idle thread dispatches the event. *)
Dispatch ==
  /\ ThreadFree
  /\ Registered /\ ready
  /\ Trigger
  /\ UNCHANGED <<kernelVars, fdctx, own, callVars, cancelling, aborted>>

Resume(c) ==
  /\ ThreadFree /\ pc[c] = "queued"
  /\ Goto(c, "woke")
  /\ UNCHANGED <<kernelVars, watched, fdctx, reg, own, callVars, cancelling, aborted>>

(* Mutant of Woke: the timer is left in the set. *)
WokeKeepsTimer(c) ==
  /\ At(c, "woke")
  /\ Goto(c, "check")
  /\ UNCHANGED <<kernelVars, watched, fdctx, reg, own, callVars, cancelling, aborted>>

(* Back from the yield: cancelTimer(), too late for one already collected. *)
Woke(c) ==
  /\ At(c, "woke")
  /\ armed' = [armed EXCEPT ![c] = FALSE]
  /\ Goto(c, "check")
  /\ UNCHANGED <<kernelVars, watched, fdctx, reg, own, timed, queued, cancelled,
                 fired, cancelling, aborted>>

(* Timed out: return; else the goto. *)
Check(c) ==
  /\ At(c, "check")
  /\ IF cancelled[c] THEN Return(c) ELSE Goto(c, "io") /\ UNCHANGED queued
  /\ UNCHANGED <<kernelVars, watched, fdctx, reg, own, timed, armed, cancelled,
                 fired, cancelling, aborted>>

(* The timer is due and an idle thread queues its callback. *)
Fire(c) ==
  /\ ThreadFree
  /\ armed[c] /\ queued[c] < MaxQueued
  /\ armed' = [armed EXCEPT ![c] = FALSE]
  /\ queued' = [queued EXCEPT ![c] = @ + 1]
  /\ fired' = [fired EXCEPT ![c] = TRUE]
  /\ UNCHANGED <<kernelVars, watched, fdctx, reg, pc, own, timed, cancelled,
                 cancelling, aborted>>

(* The callback runs: the first one for the call marks it ... *)
Timeout(c) ==
  /\ ThreadFree
  /\ queued[c] > 0
  /\ queued' = [queued EXCEPT ![c] = @ - 1]
  /\ cancelled' = [cancelled EXCEPT ![c] = TRUE]
  /\ cancelling' = IF cancelled[c] THEN cancelling ELSE cancelling + 1
  /\ UNCHANGED <<kernelVars, watched, fdctx, reg, pc, own, timed, armed, fired, aborted>>

(* ... and cancels whatever is registered for the descriptor by then:
   EPOLL_CTL_DEL fails, and nothing happens, when epoll does not have it. *)
TimeoutCancel ==
  /\ ~aborted
  /\ cancelling > 0
  /\ cancelling' = cancelling - 1
  /\ IF Registered THEN Trigger ELSE UNCHANGED <<reg, watched, pc>>
  /\ UNCHANGED <<kernelVars, fdctx, own, callVars, aborted>>

-----------------------------------------------------------------------------
(* close(): Socket::close() calls it once, from any coroutine. *)
Close(c) ==
  /\ At(c, "user")
  /\ conn # 0
  /\ \A d \in Coro : pc[d] \notin Closing \cup {"opened"}
  /\ Goto(c, IF fdctx THEN "closeAll" ELSE "closeFd")
  /\ UNCHANGED <<kernelVars, watched, fdctx, reg, own, callVars, cancelling, aborted>>

CloseCancelAll(c) ==
  /\ At(c, "closeAll")
  /\ IF Registered
     THEN /\ pc' = [pc EXCEPT ![reg] = "queued", ![c] = "closeDel"]
          /\ reg' = None /\ watched' = FALSE
     ELSE Goto(c, "closeDel") /\ UNCHANGED <<reg, watched>>
  /\ UNCHANGED <<kernelVars, fdctx, own, callVars, cancelling, aborted>>

CloseDelCtx(c) ==
  /\ At(c, "closeDel")
  /\ fdctx' = FALSE
  /\ Goto(c, "closeFd")
  /\ UNCHANGED <<kernelVars, watched, reg, own, callVars, cancelling, aborted>>

(* The kernel closes the descriptor, and epoll forgets it. *)
CloseFd(c) ==
  /\ At(c, "closeFd")
  /\ conn' = 0 /\ ready' = FALSE /\ watched' = FALSE
  /\ own' = [own EXCEPT ![c] = 0]
  /\ Goto(c, "user")
  /\ UNCHANGED <<opened, fdctx, reg, callVars, cancelling, aborted>>

Arrive ==
  /\ ~aborted
  /\ conn # 0 /\ ~ready
  /\ ready' = TRUE
  /\ UNCHANGED <<conn, opened, watched, fdctx, reg, pc, own, callVars, cancelling, aborted>>

-----------------------------------------------------------------------------
CallStep(c) == Raw(c) \/ IO(c) \/ Arm(c) \/ Add(c) \/ Woke(c) \/ Check(c)
CloseStep(c) == CloseCancelAll(c) \/ CloseDelCtx(c) \/ CloseFd(c)
Proceed(c) == CallStep(c) \/ CloseStep(c) \/ CreateCtx(c) \/ Leave(c)

Next ==
  \/ \E c \in Coro :
       \/ Enter(c) \/ Open(c) \/ Read(c) \/ Close(c)
       \/ Proceed(c) \/ Resume(c) \/ Fire(c) \/ Timeout(c)
  \/ Dispatch \/ TimeoutCancel \/ Arrive
  \/ aborted /\ UNCHANGED vars

Spec == Init /\ [][Next]_vars

(* A coroutine on a thread goes on and yields in the end, a callback returns,
   and a thread that is idle again and again polls again and again. *)
Fairness ==
  /\ \A c \in Coro : WF_vars(CallStep(c)) /\ WF_vars(CloseStep(c) \/ CreateCtx(c))
  /\ \A c \in Coro : SF_vars(Leave(c))
  /\ SF_vars(Dispatch) /\ WF_vars(TimeoutCancel)

FairSpec == Spec /\ Fairness

-----------------------------------------------------------------------------
(* Properties *)

(* A coroutine that has yielded in do_io() can still be woken, as long as its
   connection lives: it is the one registered, and epoll has its descriptor.
   An event, the timer's callback and close() all depend on both. *)
WaiterHasWaker ==
  \A c \in Coro : pc[c] = "parked" /\ own[c] = conn => reg = c /\ watched

(* addEvent()'s assertion that nobody else waits can fail only when the
   connection of another waiting call was closed and its number given out
   again: two calls for one connection never meet, and a call that retries
   never meets its own earlier registration. *)
AbortNeedsReuse ==
  aborted =>
    \E c, d \in Coro : pc[c] = "add" /\ pc[d] = "parked" /\ own[c] # own[d]

(* A call reports a timeout only if one of its own timers has expired: a
   callback that comes late does not end the caller's next call, although it
   may wake it. *)
TimeoutIsGenuine == \A c \in Coro : cancelled[c] => fired[c]

(* "... yields and waits for the event or the timer" (Hook notes).  No timer is
   left in the set by a call that has returned, timed out or been woken to
   retry; it would hold up stopping() and wake a later wait.  And while a call
   with a timeout waits, its timer is armed or a callback that will cancel the
   wait is on its way: unless a callback has marked the call before it
   registered; that one has cancelled nothing, and no later callback of the
   call will do anything either. *)
TimerFitsWait ==
  \A c \in Coro :
    /\ armed[c] => pc[c] \in {"add", "parked", "queued", "woke"}
    /\ pc[c] = "parked" /\ timed[c] =>
         armed[c] \/ queued[c] > 0 \/ cancelling > 0 \/ cancelled[c]

(* A parked call goes on once there is something to read on its connection,
   whatever timeouts and closes happen on the number, unless a call left over
   from an earlier connection takes the data. *)
ArrivalEndsWait ==
  \A c \in Coro :
    (pc[c] = "parked" /\ own[c] = conn /\ ready)
      ~> (pc[c] # "parked" \/ own[c] # conn \/ ~ready \/ aborted)
=============================================================================
