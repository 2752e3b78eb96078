--------------------------- MODULE FdEventsProofs ---------------------------
(***************************************************************************)
(* Proofs about FdEvents, for every set of descriptors, clients and         *)
(* pollers: the contexts, epoll's interest sets and m_pendingEventCount     *)
(* agree, and an assertion fails only from one of the three causes that     *)
(* AbortHasCause names.                                                    *)
(*                                                                         *)
(* The argument: an event that an array reports is registered, or was until *)
(* somebody took it out after it was reported (Fresh), so that a dispatch   *)
(* that finds it gone is a stale one.                                       *)
(***************************************************************************)
EXTENDS FdEvents, FiniteSetTheorems, TLAPS

(* All registered events, one pair for each. *)
Registered == UNION {{f} \X events[f] : f \in Fd}

Counted == pending = Cardinality(Registered) /\ IsFiniteSet(Registered)
Agree == \A f \in Fd : interest[f] = events[f] /\ ctx[f] = events[f]

(* An event that an array reports is registered, unless it has been taken out
   since. *)
Fresh ==
  \A p \in Poller : \A r \in evs[p] : \A e \in r.mask \cap Event :
    e \in events[r.fd] \/ <<r.fd, e>> \in lost[p]

FdInv ==
  /\ TypeOK
  /\ ~aborted => Counted /\ Agree /\ Fresh
  /\ AbortHasCause

(* Taking the events es of f out counts them off. *)
LEMMA TakeOut ==
  ASSUME NEW S, IsFiniteSet(S), NEW f, NEW es \in SUBSET Event, {f} \X es \subseteq S
  PROVE  /\ IsFiniteSet(S \ ({f} \X es))
         /\ Cardinality(S \ ({f} \X es)) = Cardinality(S) - Cardinality(es)
<1> DEFINE T == {f} \X es
<1>1. IsFiniteSet(Event)
  <2>1. IsFiniteSet({"READ"})
    BY FS_Singleton
  <2>2. IsFiniteSet({"READ"} \cup {"WRITE"})
    BY <2>1, FS_AddElement
  <2>3. Event = {"READ"} \cup {"WRITE"}
    BY DEF Event
  <2> QED  BY <2>2, <2>3
<1>2. IsFiniteSet(es)
  BY <1>1, FS_Subset
<1>3. IsFiniteSet({f}) /\ Cardinality({f}) = 1
  BY FS_Singleton
<1>4. IsFiniteSet(T) /\ Cardinality(T) = 1 * Cardinality(es)
  BY <1>2, <1>3, FS_Product
<1>5. Cardinality(es) \in Nat
  BY <1>2, FS_CardinalityType
<1> HIDE DEF T
<1>6. T \subseteq S
  BY DEF T
<1>7. S \cap T = T
  BY <1>6
<1>8. IsFiniteSet(S \ T) /\ Cardinality(S \ T) = Cardinality(S) - Cardinality(T)
  BY <1>7, FS_Difference
<1> QED  BY <1>4, <1>5, <1>8 DEF T

(* epoll_ctl() leaves the registration it was asked for. *)
LEMMA CtlFacts ==
  ASSUME TypeOK, NEW f \in Fd, NEW mask \in SUBSET Event, EpollCtl(f, mask)
  PROVE  /\ interest' \in [Fd -> SUBSET Event]
         /\ interest'[f] = mask /\ \A g \in Fd \ {f} : interest'[g] = interest[g]
         /\ list' \subseteq Fd
BY DEF TypeOK, EpollCtl

(* triggerEvent() for registered events takes them out everywhere, and what the
   arrays still report of them is from before. *)
LEMMA TriggerFacts ==
  ASSUME TypeOK, ~aborted, Counted, Agree, NEW f \in Fd, NEW es \in SUBSET Event,
         es \subseteq events[f], Trigger(f, es), EpollCtl(f, events[f] \ es),
         evs' \in [Poller -> SUBSET Returned]
  PROVE  /\ aborted' = FALSE /\ pending' \in Nat /\ list' \subseteq Fd
         /\ events' \in [Fd -> SUBSET Event] /\ ctx' \in [Fd -> SUBSET Event]
         /\ interest' \in [Fd -> SUBSET Event] /\ lost' \in [Poller -> SUBSET (Fd \X Event)]
         /\ Counted' /\ Agree'
         /\ \A g \in Fd \ {f} : events'[g] = events[g]
         /\ events'[f] = events[f] \ es
         /\ \A p \in Poller : lost[p] \subseteq lost'[p]
         /\ \A p \in Poller : \A r \in evs'[p] : \A e \in r.mask \cap es :
              r.fd = f => <<f, e>> \in lost'[p]
<1>1. /\ \A g \in Fd : events'[g] = IF g = f THEN events[f] \ es ELSE events[g]
      /\ \A g \in Fd : ctx'[g] = IF g = f THEN ctx[f] \ es ELSE ctx[g]
      /\ events' \in [Fd -> SUBSET Event] /\ ctx' \in [Fd -> SUBSET Event]
      /\ pending' = pending - Cardinality(es) /\ aborted' = FALSE
  BY DEF Trigger, TypeOK
<1>2. /\ lost' \in [Poller -> SUBSET (Fd \X Event)]
      /\ \A p \in Poller : lost[p] \subseteq lost'[p]
      /\ \A p \in Poller : \A r \in evs'[p] : \A e \in r.mask \cap es :
           r.fd = f => <<f, e>> \in lost'[p]
  <2> DEFINE out(p) == {x \in {f} \X es : \E r \in evs'[p] : r.fd = f /\ x[2] \in r.mask}
  <2>1. lost' = [p \in Poller |-> lost[p] \cup out(p)]
    BY DEF Trigger, Outdate
  <2>2. \A p \in Poller : out(p) \subseteq Fd \X Event
    OBVIOUS
  <2>3. \A p \in Poller : \A r \in evs'[p] : \A e \in r.mask \cap es :
          r.fd = f => <<f, e>> \in out(p)
    OBVIOUS
  <2> HIDE DEF out
  <2> QED  BY <2>1, <2>2, <2>3 DEF TypeOK
<1>3. /\ interest' \in [Fd -> SUBSET Event] /\ list' \subseteq Fd
      /\ interest'[f] = events[f] \ es
      /\ \A g \in Fd \ {f} : interest'[g] = interest[g]
  <2>1. events[f] \ es \in SUBSET Event
    BY DEF TypeOK
  <2> QED  BY <2>1, CtlFacts
<1>4. Registered' = Registered \ ({f} \X es) /\ {f} \X es \subseteq Registered
  BY <1>1 DEF Registered
<1>5. Counted' /\ pending' \in Nat
  <2>1. IsFiniteSet(Registered') /\ Cardinality(Registered') = Cardinality(Registered) - Cardinality(es)
    BY <1>4, TakeOut DEF Counted
  <2>2. Cardinality(Registered') \in Nat
    BY <2>1, FS_CardinalityType
  <2> QED  BY <1>1, <2>1, <2>2 DEF Counted
<1>6. Agree'
  BY <1>1, <1>3 DEF Agree
<1> QED  BY <1>1, <1>2, <1>3, <1>5, <1>6

(* addEvent() registers one more event, everywhere. *)
LEMMA RegisterFacts ==
  ASSUME TypeOK, ~aborted, Counted, Agree, NEW f \in Fd, NEW e \in Event, Register(f, e),
         e \notin events[f]
  PROVE  /\ aborted' = FALSE /\ pending' \in Nat /\ list' \subseteq Fd /\ UNCHANGED <<lost, twice>>
         /\ events' \in [Fd -> SUBSET Event] /\ ctx' \in [Fd -> SUBSET Event]
         /\ interest' \in [Fd -> SUBSET Event]
         /\ Counted' /\ Agree'
         /\ \A g \in Fd : events[g] \subseteq events'[g]
<1>1. e \notin ctx[f]
  BY DEF Agree
<1>2. /\ \A g \in Fd : events'[g] = IF g = f THEN events[f] \cup {e} ELSE events[g]
      /\ \A g \in Fd : ctx'[g] = IF g = f THEN ctx[f] \cup {e} ELSE ctx[g]
      /\ events' \in [Fd -> SUBSET Event] /\ ctx' \in [Fd -> SUBSET Event]
      /\ pending' = pending + 1 /\ aborted' = FALSE /\ UNCHANGED <<lost, twice>>
  <2>1. /\ events' = [events EXCEPT ![f] = @ \cup {e}] /\ ctx' = [ctx EXCEPT ![f] = @ \cup {e}]
        /\ pending' = pending + 1 /\ UNCHANGED <<lost, twice, aborted>>
    BY <1>1 DEF Register
  <2> QED  BY <2>1 DEF TypeOK
<1>3. /\ interest' \in [Fd -> SUBSET Event] /\ list' \subseteq Fd
      /\ interest'[f] = events[f] \cup {e}
      /\ \A g \in Fd \ {f} : interest'[g] = interest[g]
  <2>1. events[f] \cup {e} \in SUBSET Event
    BY DEF TypeOK
  <2> QED  BY <2>1, CtlFacts DEF Register
<1>4. Registered' = Registered \cup {<<f, e>>} /\ <<f, e>> \notin Registered
  BY <1>1, <1>2 DEF Registered
<1>5. Counted' /\ pending' \in Nat
  BY <1>2, <1>4, FS_AddElement, FS_CardinalityType DEF Counted
<1>6. Agree'
  BY <1>2, <1>3 DEF Agree
<1> QED  BY <1>2, <1>3, <1>5, <1>6

(* Triggering registered events, whoever does it, keeps the invariant. *)
LEMMA TriggerStep ==
  ASSUME FdInv, ~aborted, NEW f \in Fd, NEW es \in SUBSET Event, es \subseteq events[f],
         Trigger(f, es), EpollCtl(f, events[f] \ es), UNCHANGED <<size, level, growing>>,
         UNCHANGED <<late, twice>>,
         evs' \in [Poller -> SUBSET Returned], \A q \in Poller : evs'[q] \subseteq evs[q]
  PROVE  FdInv'
<1> USE DEF FdInv
<1>1. /\ aborted' = FALSE /\ pending' \in Nat /\ list' \subseteq Fd
      /\ events' \in [Fd -> SUBSET Event] /\ ctx' \in [Fd -> SUBSET Event]
      /\ interest' \in [Fd -> SUBSET Event] /\ lost' \in [Poller -> SUBSET (Fd \X Event)]
      /\ Counted' /\ Agree'
      /\ \A g \in Fd \ {f} : events'[g] = events[g]
      /\ events'[f] = events[f] \ es
      /\ \A p \in Poller : lost[p] \subseteq lost'[p]
      /\ \A p \in Poller : \A r \in evs'[p] : \A e \in r.mask \cap es :
           r.fd = f => <<f, e>> \in lost'[p]
  BY TriggerFacts
<1>2. Fresh'
  <2> SUFFICES ASSUME NEW p \in Poller, NEW r \in evs'[p], NEW e \in r.mask \cap Event
               PROVE  e \in events'[r.fd] \/ <<r.fd, e>> \in lost'[p]
    BY DEF Fresh
  <2>1. r \in evs[p] /\ (e \in events[r.fd] \/ <<r.fd, e>> \in lost[p])
    BY DEF Fresh
  <2>2. r.fd \in Fd
    BY <2>1 DEF TypeOK, Returned
  <2>3. CASE r.fd = f /\ e \in es
    BY <1>1, <2>3
  <2>4. CASE ~(r.fd = f /\ e \in es)
    BY <1>1, <2>1, <2>2, <2>4
  <2> QED  BY <2>3, <2>4
<1>3. TypeOK'
  BY <1>1 DEF TypeOK
<1> QED  BY <1>1, <1>2, <1>3 DEF AbortHasCause

(* So does the registration of an event; one that is registered aborts. *)
LEMMA RegisterStep ==
  ASSUME FdInv, ~aborted, NEW f \in Fd, NEW e \in Event, Register(f, e),
         UNCHANGED <<level, evs, late>>, size' \in Nat, growing' \in [Client -> Fd \cup {0}]
  PROVE  FdInv'
<1> USE DEF FdInv
<1>1. CASE e \in events[f]
  <2>1. twice' = TRUE /\ aborted' = TRUE /\ UNCHANGED <<ctxVars, epollVars>>
    BY <1>1 DEF Register
  <2> QED  BY <2>1 DEF TypeOK, AbortHasCause, ctxVars, epollVars
<1>2. CASE e \notin events[f]
  <2>1. /\ aborted' = FALSE /\ pending' \in Nat /\ list' \subseteq Fd /\ UNCHANGED <<lost, twice>>
        /\ events' \in [Fd -> SUBSET Event] /\ ctx' \in [Fd -> SUBSET Event]
        /\ interest' \in [Fd -> SUBSET Event]
        /\ Counted' /\ Agree'
        /\ \A g \in Fd : events[g] \subseteq events'[g]
    BY <1>2, RegisterFacts
  <2>2. Fresh'
    <3> SUFFICES ASSUME NEW p \in Poller, NEW r \in evs'[p], NEW d \in r.mask \cap Event
                 PROVE  d \in events'[r.fd] \/ <<r.fd, d>> \in lost'[p]
      BY DEF Fresh
    <3>1. r \in evs[p] /\ r.fd \in Fd
      BY DEF TypeOK, Returned
    <3> QED  BY <2>1, <3>1 DEF Fresh
  <2>3. TypeOK'
    BY <2>1 DEF TypeOK
  <2> QED  BY <2>1, <2>2, <2>3 DEF AbortHasCause
<1> QED  BY <1>1, <1>2

(* Only the three causes make an assertion fail, and until one does, the
   contexts, epoll and the counter agree. *)
LEMMA FdStep ==
  ASSUME FdInv, [Next]_vars
  PROVE  FdInv'
<1> USE DEF FdInv, ctxVars, epollVars
<1>1. ASSUME NEW p \in Poller, UNCHANGED <<late, twice>>, EpollWait(p)
      PROVE  FdInv'
  <2> USE <1>1 DEF EpollWait
  <2>1. UNCHANGED <<size, events, ctx, pending, interest, level, growing, late, twice, aborted>> /\ ~aborted
    OBVIOUS
  <2>2. /\ \A q \in Poller \ {p} : evs'[q] = evs[q] /\ lost'[q] = lost[q]
        /\ lost'[p] = {} /\ lost' \in [Poller -> SUBSET (Fd \X Event)] /\ list' = {}
    BY DEF TypeOK
  <2>3. \A r \in evs'[p] : r \in Returned /\ r.mask \subseteq interest[r.fd] \cup {"HUP"}
    BY DEF TypeOK, Returned, Mask
  <2>4. evs' \in [Poller -> SUBSET Returned]
    BY <2>2, <2>3 DEF TypeOK
  <2>5. TypeOK'
    BY <2>1, <2>2, <2>4 DEF TypeOK
  <2>6. \A r \in evs'[p] : r.mask \cap Event \subseteq events[r.fd]
    BY <2>1, <2>3 DEF Agree, Event, Returned
  <2>7. Fresh'
    BY <2>1, <2>2, <2>6 DEF Fresh
  <2> QED  BY <2>1, <2>5, <2>7 DEF Counted, Agree, Registered, AbortHasCause
<1>2. ASSUME NEW p \in Poller, NEW r \in evs[p], UNCHANGED <<late, twice>>, DispatchSkip(p, r)
      PROVE  FdInv'
  <2>1. UNCHANGED <<size, events, ctx, pending, interest, level, list, growing, lost, late, twice, aborted>> /\ ~aborted
    BY <1>2 DEF DispatchSkip
  <2>2. evs' \in [Poller -> SUBSET Returned] /\ \A q \in Poller : evs'[q] \subseteq evs[q]
    BY <1>2 DEF DispatchSkip, TypeOK
  <2>3. TypeOK' /\ Fresh'
    BY <2>1, <2>2 DEF TypeOK, Fresh
  <2> QED  BY <2>1, <2>3 DEF Counted, Agree, Registered, AbortHasCause
<1>3. ASSUME NEW p \in Poller, NEW r \in evs[p], UNCHANGED <<late, twice>>, Dispatch(p, r)
      PROVE  FdInv'
  <2> DEFINE f == r.fd
             es == RealEvents(r)
  <2>1. f \in Fd /\ es \in SUBSET Event /\ r \in Returned
    BY DEF TypeOK, Returned, RealEvents
  <2>2. ~aborted /\ UNCHANGED <<size, level, growing, late, twice>>
    BY <1>3 DEF Dispatch
  <2>3. Trigger(f, es) /\ EpollCtl(f, events[f] \ es)
    BY <1>3 DEF Dispatch
  <2>4. /\ evs' \in [Poller -> SUBSET Returned] /\ \A q \in Poller : evs'[q] \subseteq evs[q]
        /\ ~(es \subseteq events[f]) => evs' = evs
    BY <1>3 DEF Dispatch, Dispatched, TypeOK
  <2>5. es \subseteq events[f] \/ Stale(p, r)
    BY <2>2 DEF Fresh, Stale, RealEvents, Event
  <2> HIDE DEF es
  <2>6. CASE es \subseteq events[f]
    BY <2>1, <2>2, <2>3, <2>4, <2>6, TriggerStep
  <2>7. CASE ~(es \subseteq events[f])
    <3>1. aborted' = TRUE /\ UNCHANGED <<ctxVars, evs>>
      BY <2>3, <2>4, <2>7 DEF Trigger
    <3>2. Stale(p, r)'
      BY <2>5, <2>7, <3>1 DEF Stale
    <3>3. AbortHasCause'
      BY <3>1, <3>2 DEF AbortHasCause
    <3>4. interest' \in [Fd -> SUBSET Event] /\ list' \subseteq Fd
      <4>1. events[f] \ es \in SUBSET Event
        BY <2>1 DEF TypeOK
      <4> QED  BY <2>1, <2>3, <4>1, CtlFacts
    <3> QED  BY <2>2, <3>1, <3>3, <3>4 DEF TypeOK
  <2> QED  BY <2>6, <2>7
<1>4. ASSUME NEW c \in Client, NEW f \in Fd, UNCHANGED <<late, twice>>, AddEventGrow(c, f)
      PROVE  FdInv'
  <2>1. UNCHANGED <<size, events, ctx, pending, interest, level, list, evs, lost, late, twice, aborted>>
       /\ ~aborted
    BY <1>4 DEF AddEventGrow
  <2>2. growing' \in [Client -> Fd \cup {0}]
    BY <1>4 DEF AddEventGrow, TypeOK
  <2>3. TypeOK'
    BY <2>1, <2>2 DEF TypeOK
  <2>4. Counted' /\ Agree'
    BY <2>1 DEF Counted, Agree, Registered
  <2>5. Fresh'
    BY <2>1 DEF Fresh
  <2> QED  BY <2>1, <2>3, <2>4, <2>5 DEF AbortHasCause
<1>5. ASSUME NEW c \in Client, NEW f \in Fd, UNCHANGED <<late, twice>>, CancelAll(c, f)
      PROVE  FdInv'
  <2>1. ~aborted /\ UNCHANGED <<size, level, evs, growing>>
    BY <1>5 DEF CancelAll
  <2>2. Trigger(f, events[f]) /\ EpollCtl(f, events[f] \ events[f])
    <3>1. events[f] \ events[f] = {}
      OBVIOUS
    <3> QED  BY <1>5, <3>1 DEF CancelAll
  <2>3. events[f] \in SUBSET Event /\ evs' \in [Poller -> SUBSET Returned]
    BY <2>1 DEF TypeOK
  <2> QED  BY <1>5, <2>1, <2>2, <2>3, TriggerStep
<1>6. ASSUME NEW c \in Client, NEW f \in Fd, NEW e \in Event, UNCHANGED twice, CancelEvent(c, f, e)
      PROVE  FdInv'
  <2>1. ~aborted /\ UNCHANGED <<size, level, evs, growing>>
    BY <1>6 DEF CancelEvent
  <2>2. Trigger(f, {e}) /\ EpollCtl(f, events[f] \ {e})
    BY <1>6 DEF CancelEvent
  <2>3. {e} \in SUBSET Event /\ evs' \in [Poller -> SUBSET Returned]
    BY <2>1 DEF TypeOK
  <2>4. late' = (late \/ e \notin events[f]) /\ late' \in BOOLEAN
    BY <1>6 DEF CancelEvent, TypeOK
  <2>5. CASE e \in events[f]
    <3>1. UNCHANGED late
      BY <2>4, <2>5 DEF TypeOK
    <3> QED  BY <1>6, <2>1, <2>2, <2>3, <2>5, <3>1, TriggerStep
  <2>6. CASE e \notin events[f]
    <3>1. late' = TRUE
      BY <2>4, <2>6
    <3>2. aborted' = TRUE /\ UNCHANGED ctxVars
      BY <2>2, <2>6 DEF Trigger
    <3>3. interest' \in [Fd -> SUBSET Event] /\ list' \subseteq Fd
      <4>1. events[f] \ {e} \in SUBSET Event
        BY DEF TypeOK
      <4> QED  BY <2>2, <4>1, CtlFacts
    <3> QED  BY <1>6, <2>1, <3>1, <3>2, <3>3 DEF TypeOK, AbortHasCause
  <2> QED  BY <2>5, <2>6
<1>7. ASSUME NEW c \in Client, NEW f \in Fd, NEW e \in Event, UNCHANGED late, AddEvent(c, f, e)
      PROVE  FdInv'
  BY <1>7, RegisterStep DEF AddEvent, TypeOK
<1>8. ASSUME NEW c \in Client, NEW e \in Event, UNCHANGED late, AddEventResize(c, e)
      PROVE  FdInv'
  <2>1. growing[c] \in Fd
    BY <1>8 DEF AddEventResize, TypeOK
  <2>2. size' \in Nat
    <3>1. growing[c] \in Nat /\ size' = (3 * growing[c]) \div 2
      BY <1>8, <2>1, FdEventsAssumption DEF AddEventResize
    <3>2. \A n \in Nat : (3 * n) \div 2 \in Nat
      OBVIOUS
    <3> QED  BY <3>1, <3>2
  <2>3. growing' \in [Client -> Fd \cup {0}]
    BY <1>8 DEF AddEventResize, TypeOK
  <2> QED  BY <1>8, <2>1, <2>2, <2>3, RegisterStep DEF AddEventResize
<1>9. CASE Kernel
  <2>1. UNCHANGED <<size, events, ctx, pending, interest, evs, growing, lost, late, twice, aborted>>
       /\ ~aborted
    BY <1>9 DEF Kernel, Arrive, Drain
  <2>2. level' \in [Fd -> Mask] /\ list' \subseteq Fd
    BY <1>9 DEF Kernel, Arrive, Drain, TypeOK, Mask
  <2>3. TypeOK'
    BY <2>1, <2>2 DEF TypeOK
  <2>4. Counted' /\ Agree'
    BY <2>1 DEF Counted, Agree, Registered
  <2>5. Fresh'
    BY <2>1 DEF Fresh
  <2> QED  BY <2>1, <2>3, <2>4, <2>5 DEF AbortHasCause
<1>10. CASE UNCHANGED vars
  <2>1. TypeOK'
    BY <1>10 DEF vars, TypeOK
  <2>2. ~aborted' => Counted' /\ Agree'
    BY <1>10 DEF vars, Counted, Agree, Registered
  <2>3. ~aborted' => Fresh'
    BY <1>10 DEF vars, Fresh
  <2>4. AbortHasCause'
    BY <1>10 DEF vars, AbortHasCause, Stale
  <2> QED  BY <2>1, <2>2, <2>3, <2>4
<1> QED
  BY <1>1, <1>2, <1>3, <1>4, <1>5, <1>6, <1>7, <1>8, <1>9, <1>10
     DEF Next, PollStep, ClientStep

(* The invariant of FdEvents. *)
LEMMA FdInvariant == Spec => []FdInv
<1>1. Init => FdInv
  <2> SUFFICES ASSUME Init PROVE FdInv
    OBVIOUS
  <2>1. TypeOK
    BY FdEventsAssumption DEF Init, TypeOK, Mask
  <2>2. Registered = {}
    BY DEF Init, Registered
  <2>3. Counted
    BY <2>2, FS_EmptySet DEF Init, Counted
  <2> QED  BY <2>1, <2>3 DEF Init, FdInv, Agree, Fresh, AbortHasCause, Stale
<1>2. FdInv /\ [Next]_vars => FdInv'
  BY FdStep
<1> QED  BY <1>1, <1>2, PTL DEF Spec

(* Every variable of FdEvents keeps its type; m_pendingEventCount is unsigned
   and never passes below zero. *)
THEOREM FdTypeCorrect == Spec => []TypeOK
<1>1. FdInv => TypeOK
  BY DEF FdInv
<1> QED  BY <1>1, FdInvariant, PTL

(* IOManager's m_pendingEventCount, which stopping() asks for, is the number of
   registered events: addEvent(), cancelEvent(), cancelAll() and the dispatch of
   epoll's results count each event once, whatever stale results they act on. *)
THEOREM PendingCountExact == Spec => []PendingExact
<1>1. FdInv => PendingExact
  BY DEF FdInv, PendingExact, Counted, Registered
<1> QED  BY <1>1, FdInvariant, PTL

(* Nobody waits in an FdContext for an event that epoll does not watch, and
   each registered event has somebody to schedule. *)
THEOREM NoDeafWaiter == Spec => []Armed
<1>1. FdInv => Armed
  BY DEF FdInv, Armed, Agree
<1> QED  BY <1>1, FdInvariant, PTL

(* The assertions of addEvent(), triggerEvent() and cancelAll() can fail only by
   a cancellation of what is not registered, a registration of what is, or the
   dispatch of an event that was taken out after epoll_wait() had reported it. *)
THEOREM AbortsHaveCause == Spec => []AbortHasCause
<1>1. FdInv => AbortHasCause
  BY DEF FdInv
<1> QED  BY <1>1, FdInvariant, PTL
=============================================================================
