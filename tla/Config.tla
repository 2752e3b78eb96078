------------------------------- MODULE Config -------------------------------
(***************************************************************************)
(* ConfigVar of src/src/Config: setVal(), by which threads change a        *)
(* configuration variable directly or through fromString() when a file is  *)
(* loaded.  It tells every listener under the read lock and stores the     *)
(* value afterwards under the write lock; the listeners of this repository *)
(* keep copies that the program works with.                                *)
(*                                                                         *)
(* The write lock is held for one assignment, which is one step; a second  *)
(* read lock of a thread that has one is always granted (the rwlock is     *)
(* initialised with its default attributes, which prefer readers).         *)
(***************************************************************************)
EXTENDS Naturals, FiniteSets

CONSTANTS
  Threads,
  Values, Default,  \* what the variable may hold, and holds first
  Listeners,        \* the keys of m_cb_funcs
  MaxCalls          \* bound: calls of setVal()

ASSUME ConfigAssumption == Default \in Values /\ MaxCalls \in Nat

VARIABLES
  val,        \* m_val
  readers,    \* threads that hold the read lock
  pc, arg,    \* each thread: where in setVal(), with which value
  todo,       \* each thread: the listeners it has yet to call
  copy,       \* each listener: the value it was told last
  sets,       \* a listener sets the variable itself
  calls,      \* calls so far
  crossed     \* two calls were between comparing and storing at once

vars == <<val, readers, pc, arg, todo, copy, sets, calls, crossed>>

Init ==
  /\ val = Default /\ readers = {}
  /\ pc = [t \in Threads |-> "outside"] /\ arg = [t \in Threads |-> Default]
  /\ todo = [t \in Threads |-> {}]
  /\ copy = [l \in Listeners |-> Default]
  /\ sets \in BOOLEAN
  /\ calls = 0 /\ crossed = FALSE

Go(t, to) == pc' = [pc EXCEPT ![t] = to]

Call(t, v) ==
  /\ pc[t] = "outside" /\ calls < MaxCalls
  /\ Go(t, "compare") /\ arg' = [arg EXCEPT ![t] = v] /\ calls' = calls + 1
  /\ UNCHANGED <<val, readers, todo, copy, sets, crossed>>

\* The value it has already is not news.
Compare(t) ==
  /\ pc[t] = "compare"
  /\ IF arg[t] = val THEN Go(t, "outside") /\ UNCHANGED <<readers, todo, crossed>>
     ELSE /\ Go(t, "tell") /\ readers' = readers \union {t}
          /\ todo' = [todo EXCEPT ![t] = Listeners]
          /\ crossed' = (crossed \/ \E u \in Threads : pc[u] \in {"tell", "store"})
  /\ UNCHANGED <<val, arg, copy, sets, calls>>

(* Mutant of Tell: a listener takes the old value for the new one. *)
TellOld(t) ==
  /\ pc[t] = "tell"
  /\ \E l \in todo[t] :
       copy' = [copy EXCEPT ![l] = val] /\ todo' = [todo EXCEPT ![t] = @ \ {l}]
  /\ IF sets THEN Go(t, "stuck") ELSE UNCHANGED pc
  /\ UNCHANGED <<val, readers, arg, sets, calls, crossed>>

\* One listener after the other.  One that calls setVal() with another value is called
\* again by it, or waits for the write lock that its own read lock excludes.
Tell(t) ==
  /\ pc[t] = "tell"
  /\ \E l \in todo[t] :
       copy' = [copy EXCEPT ![l] = arg[t]] /\ todo' = [todo EXCEPT ![t] = @ \ {l}]
  /\ IF sets THEN Go(t, "stuck") ELSE UNCHANGED pc
  /\ UNCHANGED <<val, readers, arg, sets, calls, crossed>>

(* Mutant of Told: the read lock is kept. *)
ToldKeepsLock(t) ==
  /\ pc[t] = "tell" /\ todo[t] = {} /\ Go(t, "store")
  /\ UNCHANGED <<val, readers, arg, todo, copy, sets, calls, crossed>>

Told(t) ==
  /\ pc[t] = "tell" /\ todo[t] = {} /\ Go(t, "store")
  /\ readers' = readers \ {t}
  /\ UNCHANGED <<val, arg, todo, copy, sets, calls, crossed>>

Store(t) ==
  /\ pc[t] = "store" /\ readers = {}
  /\ val' = arg[t] /\ Go(t, "outside")
  /\ UNCHANGED <<readers, arg, todo, copy, sets, calls, crossed>>

SetVal(t) == Compare(t) \/ Tell(t) \/ Told(t) \/ Store(t)

Next ==
  \/ \E t \in Threads, v \in Values : Call(t, v)
  \/ \E t \in Threads : SetVal(t)

\* Threads go on.  The calls are bounded: with no end of readers a writer may starve.
Spec == Init /\ [][Next]_vars /\ \A t \in Threads : WF_vars(SetVal(t))

-----------------------------------------------------------------------------
(* "Listeners follow the updates of the item" (readMe/初始化配置模块.md:3):  *)
(* when no setVal() is under way the copies of all listeners are the stored *)
(* value.  Two calls that told in one order and stored in the other leave   *)
(* them apart for good, and no others do.                                   *)
CopiesFollow ==
  ~crossed /\ (\A t \in Threads : pc[t] = "outside") => \A l \in Listeners : copy[l] = val

(* setVal() returns, whatever other threads do, unless a listener sets the  *)
(* variable it listens to.                                                  *)
SetReturns == \A t \in Threads : pc[t] # "outside" ~> pc[t] = "outside" \/ sets
=============================================================================
