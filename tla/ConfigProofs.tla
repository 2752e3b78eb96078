---------------------------- MODULE ConfigProofs ----------------------------
(***************************************************************************)
(* CopiesFollow, for every number of threads, listeners and values.        *)
(*                                                                         *)
(* The property speaks of the moments when no setVal() is under way, and   *)
(* says nothing of how the copies got there.  What is inductive is: as     *)
(* long as no two calls have crossed and no listener waits for itself, at  *)
(* most one call is between comparing and storing, and each copy is known: *)
(* the value of that call for the listeners it has told, the stored value  *)
(* when there is no such call.                                             *)
(***************************************************************************)
EXTENDS Config, TLAPS

UnderWay(t) == pc[t] \in {"tell", "store"}
Stuck == \E t \in Threads : pc[t] = "stuck"

Types ==
  /\ pc \in [Threads -> {"outside", "compare", "tell", "store", "stuck"}]
  /\ arg \in [Threads -> Values]
  /\ todo \in [Threads -> SUBSET Listeners]
  /\ copy \in [Listeners -> Values]
  /\ val \in Values
  /\ {sets, crossed} \subseteq BOOLEAN

OneCall == \A t, u \in Threads : UnderWay(t) /\ UnderWay(u) => t = u
Told1 == \A t \in Threads : pc[t] = "tell" => \A l \in Listeners \ todo[t] : copy[l] = arg[t]
ToldAll == \A t \in Threads : pc[t] = "store" => \A l \in Listeners : copy[l] = arg[t]
AtRest == (\A t \in Threads : ~UnderWay(t)) => \A l \in Listeners : copy[l] = val

Orderly == crossed \/ Stuck \/ (OneCall /\ Told1 /\ ToldAll /\ AtRest)

-----------------------------------------------------------------------------
(* The members of setVal() and of the variable keep their types. *)
LEMMA TypesInductive ==
  ASSUME Types, [Next]_vars
  PROVE  Types'
<1> USE ConfigAssumption DEF Types, Go
<1>1. ASSUME NEW t \in Threads, NEW v \in Values, Call(t, v) PROVE Types'
  BY <1>1 DEF Call
<1>2. ASSUME NEW t \in Threads, Compare(t) PROVE Types'
  BY <1>2 DEF Compare
<1>3. ASSUME NEW t \in Threads, Tell(t) PROVE Types'
  BY <1>3 DEF Tell
<1>4. ASSUME NEW t \in Threads, Told(t) PROVE Types'
  BY <1>4 DEF Told
<1>5. ASSUME NEW t \in Threads, Store(t) PROVE Types'
  BY <1>5 DEF Store
<1>6. CASE UNCHANGED vars
  BY <1>6 DEF vars
<1> QED
  BY <1>1, <1>2, <1>3, <1>4, <1>5, <1>6 DEF Next, SetVal

(* Comparing: the call starts alone, having told nobody, or crosses another one. *)
LEMMA CompareKeepsOrder ==
  ASSUME Types, Orderly, NEW t \in Threads, Compare(t)
  PROVE  Orderly'
<1> USE DEF Types, UnderWay
<1> SUFFICES ASSUME ~crossed', ~Stuck' PROVE (OneCall /\ Told1 /\ ToldAll /\ AtRest)'
  BY DEF Orderly
<1>1. ~crossed /\ ~Stuck
  BY DEF Compare, Go, Stuck
<1>2. OneCall /\ Told1 /\ ToldAll /\ AtRest
  BY <1>1 DEF Orderly
<1>3. CASE arg[t] = val
  <2>1. pc' = [pc EXCEPT ![t] = "outside"] /\ pc[t] = "compare"
    BY <1>3 DEF Compare, Go
  <2>2. \A u \in Threads : UnderWay(u)' <=> UnderWay(u)
    BY <2>1
  <2> QED
    BY <1>2, <1>3, <2>1, <2>2 DEF Compare, OneCall, Told1, ToldAll, AtRest
<1>4. CASE arg[t] # val
  <2>1. /\ pc' = [pc EXCEPT ![t] = "tell"] /\ pc[t] = "compare"
        /\ todo' = [todo EXCEPT ![t] = Listeners]
        /\ \A u \in Threads : ~UnderWay(u)
    BY <1>4 DEF Compare, Go
  <2> QED
    BY <1>4, <2>1 DEF Compare, OneCall, Told1, ToldAll, AtRest
<1> QED
  BY <1>3, <1>4

(* Telling one listener, or leaving the read lock when all have been told. *)
LEMMA TellKeepsOrder ==
  ASSUME Types, Orderly, NEW t \in Threads, Tell(t) \/ Told(t)
  PROVE  Orderly'
<1> USE DEF Types, UnderWay
<1> SUFFICES ASSUME ~crossed', ~Stuck' PROVE (OneCall /\ Told1 /\ ToldAll /\ AtRest)'
  BY DEF Orderly
<1>1. ~crossed /\ ~Stuck
  BY DEF Tell, Told, Go, Stuck
<1>2. OneCall /\ Told1 /\ ToldAll /\ AtRest
  BY <1>1 DEF Orderly
<1>3. pc[t] = "tell" /\ \A u \in Threads \ {t} : ~UnderWay(u)
  BY <1>2 DEF Tell, Told, OneCall
<1>4. CASE Tell(t)
  <2>1. PICK l \in todo[t] : /\ copy' = [copy EXCEPT ![l] = arg[t]]
                             /\ todo' = [todo EXCEPT ![t] = @ \ {l}]
    BY <1>4 DEF Tell
  <2>2. UNCHANGED <<pc, arg, val>>
    BY <1>4 DEF Tell, Go, Stuck
  <2>3. Told1'
    BY <1>2, <1>3, <2>1, <2>2 DEF Told1
  <2> QED
    BY <1>2, <1>3, <2>1, <2>2, <2>3 DEF OneCall, ToldAll, AtRest
<1>5. CASE Told(t)
  <2>1. /\ pc' = [pc EXCEPT ![t] = "store"] /\ todo[t] = {}
        /\ UNCHANGED <<copy, arg, todo, val>>
    BY <1>5 DEF Told, Go
  <2>2. \A l \in Listeners : copy[l] = arg[t]
    BY <1>2, <1>3, <2>1 DEF Told1
  <2> QED
    BY <1>2, <1>3, <2>1, <2>2 DEF OneCall, Told1, ToldAll, AtRest
<1> QED
  BY <1>4, <1>5

(* Storing: the variable gets the value that every listener has been told. *)
LEMMA StoreKeepsOrder ==
  ASSUME Types, Orderly, NEW t \in Threads, Store(t)
  PROVE  Orderly'
<1> USE DEF Types, UnderWay
<1> SUFFICES ASSUME ~crossed', ~Stuck' PROVE (OneCall /\ Told1 /\ ToldAll /\ AtRest)'
  BY DEF Orderly
<1>1. ~crossed /\ ~Stuck
  BY DEF Store, Go, Stuck
<1>2. OneCall /\ Told1 /\ ToldAll /\ AtRest
  BY <1>1 DEF Orderly
<1>3. /\ pc[t] = "store" /\ pc' = [pc EXCEPT ![t] = "outside"]
      /\ val' = arg[t] /\ UNCHANGED <<copy, arg, todo>>
  BY DEF Store, Go
<1>4. \A u \in Threads \ {t} : ~UnderWay(u)
  BY <1>2, <1>3 DEF OneCall
<1>5. \A l \in Listeners : copy[l] = arg[t]
  BY <1>2, <1>3 DEF ToldAll
<1> QED
  BY <1>3, <1>4, <1>5 DEF OneCall, Told1, ToldAll, AtRest

LEMMA OrderInductive ==
  ASSUME Types, Orderly, [Next]_vars
  PROVE  Orderly'
<1>1. ASSUME NEW t \in Threads, NEW v \in Values, Call(t, v) PROVE Orderly'
  \* The argument of a call that has not compared yet is nobody's business.
  <2>1. /\ pc[t] = "outside" /\ pc' = [pc EXCEPT ![t] = "compare"]
        /\ arg' = [arg EXCEPT ![t] = v]
        /\ UNCHANGED <<val, todo, copy, crossed>>
    BY <1>1 DEF Call, Go
  <2>2. \A u \in Threads : (pc'[u] = "tell" <=> pc[u] = "tell")
                        /\ (pc'[u] = "store" <=> pc[u] = "store")
                        /\ (pc'[u] = "stuck" <=> pc[u] = "stuck")
                        /\ (UnderWay(u) => arg'[u] = arg[u])
    BY <2>1 DEF Types, UnderWay
  <2> QED
    BY <2>1, <2>2 DEF Orderly, Stuck, UnderWay, OneCall, Told1, ToldAll, AtRest
<1>2. CASE UNCHANGED vars
  BY <1>2 DEF vars, Orderly, Stuck, UnderWay, OneCall, Told1, ToldAll, AtRest
<1> QED
  BY <1>1, <1>2, CompareKeepsOrder, TellKeepsOrder, StoreKeepsOrder DEF Next, SetVal

(* When no setVal() is under way and none has ever crossed another, every   *)
(* listener's copy is the value of the variable.                            *)
THEOREM ListenersFollow == Spec => []CopiesFollow
<1>1. Init => Types /\ Orderly
  BY ConfigAssumption DEF Init, Types, Orderly, Stuck, UnderWay, OneCall, Told1, ToldAll, AtRest
<1>2. Types /\ Orderly /\ [Next]_vars => (Types /\ Orderly)'
  BY TypesInductive, OrderInductive
<1>3. Types /\ Orderly => CopiesFollow
  BY DEF Orderly, Stuck, UnderWay, AtRest, CopiesFollow
<1> QED
  BY <1>1, <1>2, <1>3, PTL DEF Spec
=============================================================================
