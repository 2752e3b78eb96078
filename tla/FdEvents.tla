------------------------------ MODULE FdEvents ------------------------------
(***************************************************************************)
(* The event registrations of IOmanager: an FdContext for every descriptor, *)
(* the interest set epoll keeps for it, and the threads that change both:   *)
(* clients with addEvent(), cancelEvent() and cancelAll(),                  *)
(* pollers with the epoll_event array that epoll_wait() filled for them.    *)
(*                                                                         *)
(* Everything an operation does to one descriptor it does under that        *)
(* FdContext's mutex, so it is one action.  What is not atomic: the array   *)
(* is read long after it was filled, and addEvent() gives the context table *)
(* up between finding it too small and resizing it.  FdEventsAssumption      *)
(* keeps a resize from cutting off a descriptor in use: what becomes of a   *)
(* context that is cut off is not modelled.                                 *)
(***************************************************************************)
EXTENDS Integers, FiniteSets

CONSTANTS
  Fd,           \* descriptors
  Client,       \* threads that register and cancel
  Poller,       \* threads in IOmanager::idle()
  InitSize      \* contexts made by the constructor (32)

ASSUME FdEventsAssumption ==
  /\ Fd \subseteq Nat /\ \A f \in Fd : f >= 2
  /\ InitSize \in Nat \ {0, 1}
  /\ \A f, g \in Fd : f >= InitSize => g < (3 * f) \div 2

Event == {"READ", "WRITE"}
Mask == SUBSET (Event \cup {"HUP"})       \* HUP: EPOLLERR | EPOLLHUP

VARIABLES
  size,       \* m_fdctxs.size()
  events,     \* FdContext::events
  ctx,        \* the events whose EventContext is filled in
  pending,    \* m_pendingEventCount
  interest,   \* epoll: the events each descriptor is registered for
  level,      \* kernel: what the descriptor is ready for now
  list,       \* epoll's ready list
  evs,        \* pollers: the part of the array still to be dispatched
  growing,    \* clients: the fd addEvent() will resize the table for, or 0
  lost,       \* history, pollers: the events that somebody else has taken out since
              \* they were reported in the array
  late,       \* history: a client cancelled what was not registered
  twice,      \* history: a client registered what was registered
  aborted     \* a GAIYA_ASSERT has failed, or a wild pointer was followed

ctxVars == <<events, ctx, pending, lost>>
epollVars == <<interest, list>>
vars == <<size, events, ctx, pending, interest, level, list, evs,
          growing, lost, late, twice, aborted>>

Returned == [fd : Fd, mask : Mask]

TypeOK ==
  /\ size \in Nat
  /\ events \in [Fd -> SUBSET Event] /\ ctx \in [Fd -> SUBSET Event]
  /\ pending \in Nat
  /\ interest \in [Fd -> SUBSET Event]
  /\ level \in [Fd -> Mask]
  /\ list \subseteq Fd
  /\ evs \in [Poller -> SUBSET Returned]
  /\ growing \in [Client -> Fd \cup {0}]
  /\ lost \in [Poller -> SUBSET (Fd \X Event)]
  /\ {late, twice, aborted} \subseteq BOOLEAN

Init ==
  /\ size = InitSize
  /\ events = [f \in Fd |-> {}] /\ ctx = [f \in Fd |-> {}] /\ pending = 0
  /\ interest = [f \in Fd |-> {}]
  /\ level = [f \in Fd |-> {}] /\ list = {}
  /\ evs = [p \in Poller |-> {}]
  /\ growing = [c \in Client |-> 0] /\ lost = [p \in Poller |-> {}]
  /\ late = FALSE /\ twice = FALSE /\ aborted = FALSE

-----------------------------------------------------------------------------
(* epoll_ctl() and epoll_wait() *)

(* EPOLL_CTL_ADD, MOD or DEL (mask = {}); arming looks at the descriptor again,
   edge-triggered or not. *)
EpollCtl(f, mask) ==
  /\ interest' = [interest EXCEPT ![f] = mask]
  /\ list' = IF mask # {} /\ level[f] \cap (mask \cup {"HUP"}) # {}
             THEN list \cup {f} ELSE list \ {f}

(* The descriptor becomes ready; the peer hangs up. *)
Arrive(f, e) ==
  /\ ~aborted
  /\ e \notin level[f]
  /\ level' = [level EXCEPT ![f] = @ \cup {e}]
  /\ list' = IF interest[f] # {} /\ e \in interest[f] \cup {"HUP"}
             THEN list \cup {f} ELSE list
  /\ UNCHANGED <<size, ctxVars, interest, evs, growing, aborted>>

(* Somebody reads or writes until it would block. *)
Drain(f, e) ==
  /\ ~aborted
  /\ e \in level[f]
  /\ level' = [level EXCEPT ![f] = @ \ {e}]
  /\ UNCHANGED <<size, ctxVars, epollVars, evs, growing, aborted>>

(* epoll_wait(): everything on the ready list that is still ready. *)
EpollWait(p) ==
  /\ ~aborted
  /\ evs[p] = {} /\ list # {}
  /\ evs' = [evs EXCEPT ![p] =
       {[fd |-> f, mask |-> level[f] \cap (interest[f] \cup {"HUP"})] :
          f \in {g \in list : level[g] \cap (interest[g] \cup {"HUP"}) # {}}}]
  /\ list' = {}
  /\ lost' = [lost EXCEPT ![p] = {}]
  /\ UNCHANGED <<size, events, ctx, pending, interest, level, growing, aborted>>

-----------------------------------------------------------------------------
(* The arrays that still report an event of es for f are now older than its
   registration. *)
Outdate(f, es) ==
  lost' = [p \in Poller |->
             lost[p] \cup {x \in {f} \X es : \E r \in evs'[p] : r.fd = f /\ x[2] \in r.mask}]

(* Mutant of Trigger: several events are counted off as one. *)
TriggerCountOnce(f, es) ==
  IF es \subseteq events[f]
  THEN /\ events' = [events EXCEPT ![f] = @ \ es]
       /\ ctx' = [ctx EXCEPT ![f] = @ \ es]
       /\ pending' = pending - 1
       /\ Outdate(f, es)
       /\ UNCHANGED aborted
  ELSE aborted' = TRUE /\ UNCHANGED ctxVars

(* FdContext::triggerEvent() for every event of es: assert that it is
   registered, take it out and schedule what waits for it. *)
Trigger(f, es) ==
  IF es \subseteq events[f]
  THEN /\ events' = [events EXCEPT ![f] = @ \ es]
       /\ ctx' = [ctx EXCEPT ![f] = @ \ es]
       /\ pending' = pending - Cardinality(es)
       /\ Outdate(f, es)
       /\ UNCHANGED aborted
  ELSE aborted' = TRUE /\ UNCHANGED ctxVars

(* One element of idle()'s dispatch loop.  HUP stands for every registered
   event. *)
RealEvents(r) ==
  (r.mask \cup IF "HUP" \in r.mask THEN events[r.fd] ELSE {}) \cap Event

DispatchSkip(p, r) ==
  /\ ~aborted
  /\ r \in evs[p]
  /\ RealEvents(r) \cap events[r.fd] = {}
  /\ evs' = [evs EXCEPT ![p] = @ \ {r}]
  /\ UNCHANGED <<size, ctxVars, epollVars, level, growing, aborted>>

(* The loop is done with r, unless its assertion fails. *)
Dispatched(p, r) ==
  evs' = IF RealEvents(r) \subseteq events[r.fd] THEN [evs EXCEPT ![p] = @ \ {r}] ELSE evs

(* Mutant of Dispatch: the descriptor is taken out of epoll altogether. *)
DispatchDisarm(p, r) ==
  /\ ~aborted
  /\ r \in evs[p]
  /\ RealEvents(r) \cap events[r.fd] # {}
  /\ EpollCtl(r.fd, {})
  /\ Dispatched(p, r)
  /\ Trigger(r.fd, RealEvents(r))
  /\ UNCHANGED <<size, level, growing>>

Dispatch(p, r) ==
  /\ ~aborted
  /\ r \in evs[p]
  /\ RealEvents(r) \cap events[r.fd] # {}
  /\ EpollCtl(r.fd, events[r.fd] \ RealEvents(r))
  /\ Dispatched(p, r)
  /\ Trigger(r.fd, RealEvents(r))
  /\ UNCHANGED <<size, level, growing>>

-----------------------------------------------------------------------------
(* addEvent() *)

(* Mutants of Register: epoll is told of the new event only, or of both. *)
RegisterWith(f, e, mask) ==
  /\ e \notin events[f]
  /\ EpollCtl(f, mask)
  /\ pending' = pending + 1
  /\ events' = [events EXCEPT ![f] = @ \cup {e}]
  /\ ctx' = [ctx EXCEPT ![f] = @ \cup {e}]
  /\ UNCHANGED <<lost, twice, aborted>>
RegisterNewOnly(f, e) == RegisterWith(f, e, {e})
RegisterBoth(f, e) == RegisterWith(f, e, Event)

(* The context exists: assert that the event is not registered; then register
   with epoll, count, and fill the context in, asserted to be empty. *)
Register(f, e) ==
  \/ /\ e \in events[f]
     /\ twice' = TRUE /\ aborted' = TRUE
     /\ UNCHANGED <<ctxVars, epollVars>>
  \/ /\ e \notin events[f]
     /\ EpollCtl(f, events[f] \cup {e})
     /\ pending' = pending + 1
     /\ events' = [events EXCEPT ![f] = @ \cup {e}]
     /\ IF e \in ctx[f] THEN aborted' = TRUE /\ UNCHANGED ctx
        ELSE ctx' = [ctx EXCEPT ![f] = @ \cup {e}] /\ UNCHANGED aborted
     /\ UNCHANGED <<lost, twice>>

AddEvent(c, f, e) ==
  /\ ~aborted
  /\ growing[c] = 0 /\ f < size
  /\ Register(f, e)
  /\ UNCHANGED <<size, level, evs, growing>>

(* The table is too small: the read lock is given up ... *)
AddEventGrow(c, f) ==
  /\ ~aborted
  /\ growing[c] = 0 /\ f >= size
  /\ growing' = [growing EXCEPT ![c] = f]
  /\ UNCHANGED <<size, ctxVars, epollVars, level, evs, aborted>>

(* ... and contextResize(fd * 1.5) is done under the write lock, whatever the
   size is by then. *)
AddEventResize(c, e) ==
  LET f == growing[c]
  IN /\ ~aborted
     /\ f # 0
     /\ size' = (3 * f) \div 2
     /\ growing' = [growing EXCEPT ![c] = 0]
     /\ Register(f, e)
     /\ UNCHANGED <<level, evs>>

-----------------------------------------------------------------------------
(* cancelEvent(): the assertion on an unregistered event cannot fail there, so
   the call goes on.  With nothing registered EPOLL_CTL_DEL fails and it
   returns false; else the event is triggered. *)
CancelEvent(c, f, e) ==
  /\ ~aborted
  /\ growing[c] = 0 /\ f < size
  /\ events[f] # {}
  /\ EpollCtl(f, events[f] \ {e})
  /\ UNCHANGED <<size, level, evs, growing>>
  /\ Trigger(f, {e})
  /\ late' = (late \/ e \notin events[f])

(* cancelAll(): take everything out of epoll and trigger it. *)
CancelAll(c, f) ==
  /\ ~aborted
  /\ growing[c] = 0 /\ f < size
  /\ events[f] # {}
  /\ EpollCtl(f, {})
  /\ UNCHANGED <<size, level, evs, growing>>
  /\ Trigger(f, events[f])

-----------------------------------------------------------------------------
PollStep(p) ==
  /\ UNCHANGED <<late, twice>>
  /\ EpollWait(p) \/ \E r \in evs[p] : DispatchSkip(p, r) \/ Dispatch(p, r)

ClientStep(c) ==
  \/ /\ UNCHANGED late
     /\ \/ \E f \in Fd, e \in Event : AddEvent(c, f, e)
        \/ \E e \in Event : AddEventResize(c, e)
  \/ /\ UNCHANGED twice
     /\ \E f \in Fd, e \in Event : CancelEvent(c, f, e)
  \/ /\ UNCHANGED <<late, twice>>
     /\ \E f \in Fd : AddEventGrow(c, f) \/ CancelAll(c, f)

Kernel ==
  /\ UNCHANGED <<late, twice>>
  /\ \/ \E f \in Fd, e \in Event \cup {"HUP"} : Arrive(f, e)
     \/ \E f \in Fd, e \in Event : Drain(f, e)

Next ==
  \/ \E p \in Poller : PollStep(p)
  \/ \E c \in Client : ClientStep(c)
  \/ Kernel
  \/ aborted /\ UNCHANGED vars

Spec == Init /\ [][Next]_vars

(* The pollers keep polling; clients and the network owe nothing. *)
FairSpec == Spec /\ \A p \in Poller : WF_vars(PollStep(p))

-----------------------------------------------------------------------------
(* Properties *)

(* What makes the assertions of addEvent(), triggerEvent() and cancelAll() fail:
   a client cancels an event that is no longer registered while the other one
   is (a timeout of do_io() that comes late); a client registers an event that
   is registered (two coroutines on one descriptor); or the dispatch of a stale
   epoll_event, whose event was registered when it was reported and has been
   taken out by somebody else since.  An event that comes, a dispatch that arms
   a descriptor again, the resize of the table or cancelAll() never do. *)
Stale(p, r) ==
  \E e \in r.mask \cap Event : e \notin events[r.fd] /\ <<r.fd, e>> \in lost[p]
AbortHasCause == aborted => late \/ twice \/ \E p \in Poller : \E r \in evs[p] : Stale(p, r)

(* m_pendingEventCount is the number of registered events: with less, the
   manager stops under a waiting coroutine, with more it never stops. *)
PendingExact ==
  ~aborted => pending = Cardinality(UNION {{f} \X events[f] : f \in Fd})

(* What a context waits for is what epoll watches, and each of its
   events has somebody to schedule: no waiter is deaf, whatever stale array elements were dispatched. *)
Armed ==
  ~aborted => \A f \in Fd : interest[f] = events[f] /\ ctx[f] = events[f]

(* No edge is lost between epoll_wait(), the dispatch that arms the descriptor
   again and new registrations: a waiter whose descriptor is ready is woken,
   cancelled, or the descriptor stops being ready. *)
ReadyIsDelivered ==
  \A f \in Fd : \A e \in Event :
    (e \in events[f] /\ e \in level[f])
      ~> ~(e \in events[f] /\ e \in level[f]) \/ aborted
=============================================================================
