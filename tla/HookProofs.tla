----------------------------- MODULE HookProofs -----------------------------
(***************************************************************************)
(* Proofs about Hook, for every set of coroutines and every number of       *)
(* threads, connections and queued callbacks: a waiting call keeps its      *)
(* waker while its connection lives, addEvent()'s assertion fails only on a *)
(* number that was given out again, and timers and callbacks stay with the  *)
(* call they were armed for.                                               *)
(***************************************************************************)
EXTENDS Hook, TLAPS

Types ==
  /\ conn \in Nat /\ opened \in Nat /\ conn <= opened
  /\ ready \in BOOLEAN /\ watched \in BOOLEAN /\ fdctx \in BOOLEAN /\ aborted \in BOOLEAN
  /\ reg \in Coro \cup {None}
  /\ pc \in [Coro -> OffThread \cup OnThread]
  /\ own \in [Coro -> Nat]
  /\ timed \in [Coro -> BOOLEAN] /\ armed \in [Coro -> BOOLEAN]
  /\ cancelled \in [Coro -> BOOLEAN] /\ fired \in [Coro -> BOOLEAN]
  /\ queued \in [Coro -> Nat] /\ cancelling \in Nat

(* Where a coroutine is in do_io(), from the first try to the last. *)
InCall == {"io", "arm", "add", "parked", "queued", "woke", "check"}

(* A connection belongs to the coroutine that opened it. *)
Ownership ==
  /\ \A c \in Coro : own[c] <= opened
  /\ \A c \in Coro : pc[c] \in InCall \cup {"raw", "opened"} => own[c] # 0
  /\ \A c, d \in Coro : own[c] = own[d] /\ own[c] # 0 => c = d

(* The registered coroutine is the parked one; epoll loses sight of it only
   with its connection. *)
Waiting ==
  /\ \A c \in Coro : reg = c <=> pc[c] = "parked"
  /\ \A c \in Coro : pc[c] = "parked" /\ ~watched => own[c] # conn

(* A timer, and a callback that finds its condition, belong to the call that
   is under way. *)
Timers ==
  \A c \in Coro :
    /\ armed[c] => pc[c] \in {"add", "parked", "queued", "woke"}
    /\ queued[c] > 0 => pc[c] \in InCall /\ fired[c]
    /\ cancelled[c] => fired[c]
    /\ pc[c] \in {"add", "parked"} /\ timed[c] => armed[c] \/ queued[c] > 0 \/ cancelled[c]

HookInv == Types /\ Ownership /\ Waiting /\ Timers /\ AbortNeedsReuse

(* The steps of a coroutine that leave the registration alone keep it. *)
LEMMA CallSteps ==
  ASSUME HookInv, NEW c \in Coro,
         \/ Enter(c) \/ Leave(c) \/ Open(c) \/ CreateCtx(c) \/ Read(c) \/ Raw(c) \/ IO(c)
         \/ Arm(c) \/ Resume(c) \/ Woke(c) \/ Check(c) \/ Close(c) \/ CloseDelCtx(c)
  PROVE  HookInv'
<1> USE HookAssumption
    DEF HookInv, Types, Ownership, Waiting, Timers, AbortNeedsReuse, InCall, OffThread, OnThread,
        Closing, At, Goto, kernelVars, callVars, ThreadFree
<1>1. CASE Enter(c)
  BY <1>1 DEF Enter
<1>2. CASE Leave(c)
  BY <1>2 DEF Leave
<1>3. CASE Open(c)
  <2>0. /\ pc[c] = "user" /\ conn' = opened + 1 /\ opened' = opened + 1 /\ ready' = FALSE
        /\ own' = [own EXCEPT ![c] = opened + 1] /\ pc' = [pc EXCEPT ![c] = "opened"]
        /\ UNCHANGED <<watched, fdctx, reg, callVars, cancelling, aborted>> /\ ~aborted
    BY <1>3 DEF Open
  <2>1. Types'
    <3>1. own' \in [Coro -> Nat]
      BY <2>0
    <3>2. pc' \in [Coro -> OffThread \cup OnThread]
      BY <2>0
    <3>3. conn' \in Nat /\ opened' \in Nat /\ conn' <= opened'
      BY <2>0
    <3>4. ready' \in BOOLEAN /\ watched' \in BOOLEAN /\ fdctx' \in BOOLEAN /\ aborted' \in BOOLEAN
      BY <2>0
    <3>5. timed' \in [Coro -> BOOLEAN] /\ armed' \in [Coro -> BOOLEAN]
      BY <2>0
    <3> QED  BY <2>0, <3>1, <3>2, <3>3, <3>4, <3>5
  <2>2. Ownership'
    BY <2>0
  <2>3. Waiting'
    BY <2>0
  <2>4. Timers'
    BY <2>0
  <2> QED  BY <2>0, <2>1, <2>2, <2>3, <2>4
<1>4. CASE CreateCtx(c)
  BY <1>4 DEF CreateCtx
<1>5. CASE Read(c)
  BY <1>5 DEF Read
<1>6. CASE Raw(c)
  <2>1. UNCHANGED <<conn, opened, watched, fdctx, reg, own, timed, armed, queued, cancelled, fired, cancelling, aborted>>
    BY <1>6 DEF Raw
  <2>2. pc[c] = "raw" /\ pc' = [pc EXCEPT ![c] = "user"] /\ ready' \in BOOLEAN
    BY <1>6 DEF Raw
  <2> QED  BY <2>1, <2>2, SMTT(30)
<1>7. CASE IO(c)
  <2>1. UNCHANGED <<conn, opened, watched, fdctx, reg, own, timed, armed, cancelled, fired, cancelling, aborted>>
    BY <1>7 DEF IO
  <2>2. pc[c] = "io" /\ ~aborted /\ ready' \in BOOLEAN
    BY <1>7 DEF IO
  <2>3. \/ pc' = [pc EXCEPT ![c] = "user"] /\ queued' = [queued EXCEPT ![c] = 0]
        \/ pc' = [pc EXCEPT ![c] = "arm"] /\ UNCHANGED queued
    BY <1>7 DEF IO, Return
  <2> QED  BY <2>1, <2>2, <2>3
<1>8. CASE Arm(c)
  BY <1>8 DEF Arm
<1>9. CASE Resume(c)
  BY <1>9 DEF Resume
<1>10. CASE Woke(c)
  BY <1>10 DEF Woke
<1>11. CASE Check(c)
  BY <1>11 DEF Check, Return
<1>12. CASE Close(c)
  BY <1>12 DEF Close
<1>13. CASE CloseDelCtx(c)
  BY <1>13 DEF CloseDelCtx
<1> QED
  BY <1>1, <1>2, <1>3, <1>4, <1>5, <1>6, <1>7, <1>8, <1>9, <1>10, <1>11, <1>12, <1>13

(* triggerEvent() takes out the registered coroutine, which then waits for a
   thread and no longer for the event. *)
LEMMA TriggerStep ==
  ASSUME HookInv, ~aborted, Registered, Trigger, cancelling' \in Nat,
         UNCHANGED <<kernelVars, fdctx, own, callVars, aborted>>
  PROVE  HookInv'
<1> USE HookAssumption
    DEF HookInv, Types, Ownership, Waiting, Timers, InCall, OffThread, OnThread, Closing,
        kernelVars, callVars, Trigger, Registered, Goto
<1>1. reg \in Coro /\ pc[reg] = "parked"
  OBVIOUS
<1>2. pc' = [pc EXCEPT ![reg] = "queued"] /\ reg' = None /\ watched' = FALSE
  OBVIOUS
<1>3. Types'
  BY <1>1, <1>2
<1>4. Ownership'
  BY <1>1, <1>2
<1>5. Waiting'
  BY <1>1, <1>2
<1>6. Timers'
  BY <1>1, <1>2
<1> QED  BY <1>3, <1>4, <1>5, <1>6 DEF AbortNeedsReuse

(* The steps that register, time out and close. *)
LEMMA WakeSteps ==
  ASSUME HookInv, NEW c \in Coro,
         \/ Add(c) \/ Fire(c) \/ Timeout(c) \/ CloseCancelAll(c) \/ CloseFd(c)
  PROVE  HookInv'
<1> USE HookAssumption
    DEF HookInv, Types, Ownership, Waiting, Timers, AbortNeedsReuse, InCall, OffThread, OnThread,
        Closing, At, Goto, kernelVars, callVars, ThreadFree
<1>1. CASE Add(c)
  <2>1. pc[c] = "add" /\ ~aborted
    BY <1>1 DEF Add
  <2>2. UNCHANGED <<kernelVars, fdctx, own, timed, cancelled, fired, cancelling>>
    BY <1>1 DEF Add
  <2>3. CASE reg # None
    <3>1. aborted' = TRUE /\ UNCHANGED <<reg, watched, pc, armed, queued>>
      BY <1>1, <2>3 DEF Add
    <3>2. reg \in Coro /\ pc[reg] = "parked" /\ own[c] # own[reg]
      BY <2>1, <2>3
    <3> QED  BY <2>1, <2>2, <3>1, <3>2
  <2>4. CASE reg = None /\ conn = 0
    <3>1. /\ armed' = [armed EXCEPT ![c] = FALSE] /\ UNCHANGED <<reg, watched, aborted>>
          /\ pc' = [pc EXCEPT ![c] = "user"] /\ queued' = [queued EXCEPT ![c] = 0]
      BY <1>1, <2>4 DEF Add, Return
    <3> QED  BY <2>1, <2>2, <3>1
  <2>5. CASE reg = None /\ conn # 0
    <3>1. /\ reg' = c /\ watched' = TRUE /\ UNCHANGED <<armed, queued, aborted>>
          /\ pc' = [pc EXCEPT ![c] = "parked"]
      BY <1>1, <2>5 DEF Add
    <3> QED  BY <2>1, <2>2, <2>5, <3>1
  <2> QED  BY <2>3, <2>4, <2>5
<1>2. CASE Fire(c)
  BY <1>2 DEF Fire
<1>3. CASE Timeout(c)
  BY <1>3 DEF Timeout
<1>4. CASE CloseCancelAll(c)
  <2>1. pc[c] = "closeAll" /\ UNCHANGED <<kernelVars, fdctx, own, callVars, cancelling, aborted>>
    BY <1>4 DEF CloseCancelAll
  <2>2. CASE Registered
    <3>1. reg \in Coro /\ pc[reg] = "parked" /\ reg # c
      BY <2>1, <2>2 DEF Registered
    <3>2. \A d \in Coro : pc'[d] = IF d = c THEN "closeDel" ELSE IF d = reg THEN "queued" ELSE pc[d]
      BY <1>4, <2>2, <3>1 DEF CloseCancelAll
    <3>3. reg' = None /\ watched' = FALSE /\ pc' \in [Coro -> OffThread \cup OnThread]
      BY <1>4, <2>2 DEF CloseCancelAll
    <3>4. ~aborted
      BY <1>4 DEF CloseCancelAll
    <3>5. Types'
      BY <2>1, <3>3
    <3>6. Ownership'
      BY <2>1, <3>1, <3>2
    <3>7. Waiting'
      BY <2>1, <3>1, <3>2, <3>3
    <3>8. Timers'
      BY <2>1, <3>1, <3>2
    <3> QED  BY <2>1, <3>4, <3>5, <3>6, <3>7, <3>8
  <2>3. CASE ~Registered
    <3>1. pc' = [pc EXCEPT ![c] = "closeDel"] /\ UNCHANGED <<reg, watched>>
      BY <1>4, <2>3 DEF CloseCancelAll
    <3>2. ~aborted
      BY <1>4 DEF CloseCancelAll
    <3> QED  BY <2>1, <3>1, <3>2
  <2> QED  BY <2>2, <2>3
<1>5. CASE CloseFd(c)
  <2>1. /\ pc[c] = "closeFd" /\ conn' = 0 /\ ready' = FALSE /\ watched' = FALSE
        /\ own' = [own EXCEPT ![c] = 0] /\ pc' = [pc EXCEPT ![c] = "user"]
        /\ UNCHANGED <<opened, fdctx, reg, callVars, cancelling, aborted>> /\ ~aborted
    BY <1>5 DEF CloseFd
  <2>2. Types'
    <3>1. own' \in [Coro -> Nat]
      BY <2>1
    <3>2. pc' \in [Coro -> OffThread \cup OnThread]
      BY <2>1
    <3>3. conn' \in Nat /\ opened' \in Nat /\ conn' <= opened'
      BY <2>1
    <3>4. ready' \in BOOLEAN /\ watched' \in BOOLEAN /\ fdctx' \in BOOLEAN /\ aborted' \in BOOLEAN
      BY <2>1
    <3>5. timed' \in [Coro -> BOOLEAN] /\ armed' \in [Coro -> BOOLEAN]
      BY <2>1
    <3> QED  BY <2>1, <3>1, <3>2, <3>3, <3>4, <3>5
  <2>3. Ownership'
    BY <2>1
  <2>4. Waiting'
    BY <2>1
  <2>5. Timers'
    BY <2>1
  <2> QED  BY <2>1, <2>2, <2>3, <2>4, <2>5
<1> QED
  BY <1>1, <1>2, <1>3, <1>4, <1>5

(* The steps of idle threads and of the kernel. *)
LEMMA IdleSteps ==
  ASSUME HookInv, Dispatch \/ TimeoutCancel \/ Arrive
  PROVE  HookInv'
<1>1. CASE Dispatch
  <2>1. ~aborted /\ Registered /\ Trigger /\ UNCHANGED <<kernelVars, fdctx, own, callVars, cancelling, aborted>>
    BY <1>1 DEF Dispatch, ThreadFree
  <2> QED  BY <2>1, TriggerStep DEF HookInv, Types
<1>2. CASE TimeoutCancel
  <2>1. cancelling' \in Nat /\ UNCHANGED <<kernelVars, fdctx, own, callVars, aborted>> /\ ~aborted
    BY <1>2 DEF TimeoutCancel, HookInv, Types
  <2>2. CASE Registered
    BY <1>2, <2>1, <2>2, TriggerStep DEF TimeoutCancel
  <2>3. CASE ~Registered
    <3>1. UNCHANGED <<reg, watched, pc>>
      BY <1>2, <2>3 DEF TimeoutCancel
    <3> QED  BY <2>1, <3>1 DEF kernelVars, callVars, HookInv, Types, Ownership, Waiting, Timers, AbortNeedsReuse
  <2> QED  BY <2>2, <2>3
<1>3. CASE Arrive
  BY <1>3 DEF Arrive, callVars, HookInv, Types, Ownership, Waiting, Timers, AbortNeedsReuse
<1> QED  BY <1>1, <1>2, <1>3

(* The invariant of Hook. *)
LEMMA HookInvariant == Spec => []HookInv
<1>1. Init => HookInv
  <2> SUFFICES ASSUME Init PROVE HookInv
    OBVIOUS
  <2> USE HookAssumption DEF Init
  <2>1. pc \in [Coro -> OffThread \cup OnThread]
    BY DEF OffThread
  <2>2. Types
    <3>1. own \in [Coro -> Nat] /\ queued \in [Coro -> Nat]
      OBVIOUS
    <3>2. /\ timed \in [Coro -> BOOLEAN] /\ armed \in [Coro -> BOOLEAN]
          /\ cancelled \in [Coro -> BOOLEAN] /\ fired \in [Coro -> BOOLEAN]
      OBVIOUS
    <3>3. conn \in Nat /\ opened \in Nat /\ conn <= opened /\ cancelling \in Nat
      OBVIOUS
    <3>4. /\ ready \in BOOLEAN /\ watched \in BOOLEAN /\ fdctx \in BOOLEAN /\ aborted \in BOOLEAN
          /\ reg \in Coro \cup {None}
      OBVIOUS
    <3> QED  BY <2>1, <3>1, <3>2, <3>3, <3>4 DEF Types
  <2>3. \A c \in Coro : pc[c] = "out" /\ own[c] = 0 /\ ~armed[c] /\ queued[c] = 0 /\ ~cancelled[c]
    OBVIOUS
  <2>4. Ownership
    BY <2>3 DEF Ownership, InCall
  <2>5. Waiting
    BY <2>3 DEF Waiting
  <2>6. Timers
    BY <2>3 DEF Timers
  <2> QED  BY <2>2, <2>4, <2>5, <2>6 DEF HookInv, AbortNeedsReuse
<1>2. HookInv /\ [Next]_vars => HookInv'
  <2> SUFFICES ASSUME HookInv, [Next]_vars PROVE HookInv'
    OBVIOUS
  <2>1. CASE UNCHANGED vars
    BY <2>1 DEF vars, kernelVars, callVars, HookInv, Types, Ownership, Waiting, Timers, AbortNeedsReuse
  <2> QED  BY <2>1, CallSteps, WakeSteps, IdleSteps DEF Next, Proceed, CallStep, CloseStep
<1> QED  BY <1>1, <1>2, PTL DEF Spec

(* Whoever has yielded in do_io() can be woken by an event, its timer's callback
   or close() as long as its connection lives. *)
THEOREM WaitersCanBeWoken == Spec => []WaiterHasWaker
<1>1. HookInv => WaiterHasWaker
  BY DEF HookInv, Waiting, WaiterHasWaker
<1> QED  BY <1>1, HookInvariant, PTL

(* addEvent()'s assertion that nobody else waits fails only when the number was
   closed under a waiting call and given out again. *)
THEOREM AbortsOnlyOnReuse == Spec => []AbortNeedsReuse
<1>1. HookInv => AbortNeedsReuse
  BY DEF HookInv
<1> QED  BY <1>1, HookInvariant, PTL

(* do_io() reports ETIMEDOUT only when a timer of the same call has expired. *)
THEOREM TimeoutsAreGenuine == Spec => []TimeoutIsGenuine
<1>1. HookInv => TimeoutIsGenuine
  BY DEF HookInv, Timers, TimeoutIsGenuine
<1> QED  BY <1>1, HookInvariant, PTL

(* No timer outlives the wait it was armed for, and no wait with a timeout is
   without one, unless a callback has marked the call already. *)
THEOREM TimersFitWaits == Spec => []TimerFitsWait
<1>1. HookInv => TimerFitsWait
  BY DEF HookInv, Timers, TimerFitsWait
<1> QED  BY <1>1, HookInvariant, PTL
=============================================================================
