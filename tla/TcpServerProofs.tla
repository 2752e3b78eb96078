-------------------------- MODULE TcpServerProofs --------------------------
(***************************************************************************)
(* NoSpinNoAbort and StrandedHasCause, for every number of accept loops,   *)
(* closing tasks, threads and clients.                                     *)
(*                                                                         *)
(* Both stand on what the managers do with a coroutine (Queues, Watched):  *)
(* it is in a queue once and only when queued or woken, and the loop that  *)
(* epoll knows is the one that waits.                                      *)
(*                                                                         *)
(* NoSpinNoAbort: unless start() was called over the coroutines of an      *)
(* earlier round, there is one loop and one closing task, the latter only  *)
(* after stop() was called (Rounds).                                       *)
(*                                                                         *)
(* StrandedHasCause: from the second cancelAll() on only a loop that       *)
(* registers later can be waiting (Cleared), and such a loop was running   *)
(* beside the closing task, on a thread of its own (Crew).                 *)
(***************************************************************************)
EXTENDS TcpServer, TLAPS, FiniteSetTheorems

LoopPc == {"none", "queued", "check", "accept", "add", "waiting", "woken", "ended"}
CloserPc == {"none", "queued", "list", "cancel", "closing", "del", "close", "clear", "ended"}

Types ==
  /\ shared \in BOOLEAN /\ threads \in Nat \ {0}
  /\ {isStop, bound, sockfd, open, fdctx, aborted, overlap} \subseteq BOOLEAN
  /\ registered \in Loops \union {None}
  /\ pc \in [Tasks -> LoopPc \union CloserPc]
  /\ \A l \in Loops : pc[l] \in LoopPc
  /\ \A c \in Closers : pc[c] \in CloserPc
  /\ queue \in [Managers -> Seq(Tasks)]
  /\ user \in {"outside", "start", "stop"}
  /\ late \subseteq Loops

Queues ==
  \A m \in Managers :
    /\ \A i \in DOMAIN queue[m] :
         /\ pc[queue[m][i]] \in {"queued", "woken"}
         /\ ManagerOf(queue[m][i]) = m
    /\ \A i, j \in DOMAIN queue[m] : queue[m][i] = queue[m][j] => i = j
Watched == \A l \in Loops : pc[l] = "waiting" <=> registered = l

Base == Types /\ Queues /\ Watched

Round ==
  /\ ~aborted
  /\ \A l, k \in Loops : AtWork(l) /\ AtWork(k) => l = k
  /\ \A c, d \in Closers : AtWork(c) /\ AtWork(d) => c = d
  /\ user = "start" => \A t \in Tasks : ~AtWork(t)
  /\ \A c \in Closers : AtWork(c) => isStop \/ user = "stop"
  /\ ~open => ~bound \/ \E c \in Closers : pc[c] = "clear"
  /\ ~open /\ ~isStop /\ user # "stop" => \A l \in Loops : ~AtWork(l)
Rounds == overlap \/ Round

Crowd(m) == {t \in Tasks : ManagerOf(t) = m /\ Running(t)}
Crew == \A m \in Managers : Cardinality(Crowd(m)) <= threads
Cleared ==
  /\ open = sockfd
  /\ ~fdctx /\ open => \E c \in Closers : pc[c] = "close"
  /\ shared => \A l \in Loops :
       registered = l /\ (~open \/ \E c \in Closers : pc[c] \in {"del", "close"}) =>
         l \in late /\ threads > 1

IInv == Base /\ Rounds /\ Crew /\ Cleared

-----------------------------------------------------------------------------
(* A task that is queued nowhere is pushed. *)
LEMMA PushKeepsQueues ==
  ASSUME Types, Queues, NEW t \in Tasks, pc[t] \notin {"queued", "woken"},
         pc'[t] \in {"queued", "woken"},
         \A u \in Tasks : pc[u] \in {"queued", "woken"} => pc'[u] = pc[u],
         Push(t), UNCHANGED shared
  PROVE  /\ queue' \in [Managers -> Seq(Tasks)]
         /\ Queues'
<1> USE DEF Types, Push
<1> DEFINE m == ManagerOf(t)
<1>1. m \in Managers /\ \A u \in Tasks : ManagerOf(u)' = ManagerOf(u)
  BY DEF ManagerOf, Managers
<1>2. queue[m] \in Seq(Tasks) /\ queue'[m] = Append(queue[m], t)
  BY <1>1
<1>3. \A n \in Managers \ {m} : queue'[n] = queue[n]
  BY <1>1
<1>4. queue' \in [Managers -> Seq(Tasks)]
  BY <1>1, <1>2
<1>5. \A i \in DOMAIN queue'[m] :
        \/ i \in DOMAIN queue[m] /\ queue'[m][i] = queue[m][i]
        \/ i = Len(queue[m]) + 1 /\ queue'[m][i] = t
  BY <1>2
<1>6. \A n \in Managers : \A i \in DOMAIN queue[n] : queue[n][i] \in Tasks /\ queue[n][i] # t
  BY DEF Queues
<1>7. Len(queue[m]) + 1 \notin DOMAIN queue[m]
  BY <1>2
<1> HIDE DEF m, Push
<1>8. ASSUME NEW n \in Managers, NEW i \in DOMAIN queue'[n]
      PROVE  (pc[queue[n][i]] \in {"queued", "woken"} /\ ManagerOf(queue[n][i]) = n)'
  <2>1. CASE n = m
    <3>1. CASE queue'[m][i] = t
      BY <2>1, <3>1 DEF m, ManagerOf
    <3>2. CASE i \in DOMAIN queue[m] /\ queue'[m][i] = queue[m][i]
      <4>1. /\ pc[queue[m][i]] \in {"queued", "woken"} /\ ManagerOf(queue[m][i]) = m
            /\ queue[m][i] \in Tasks
        BY <1>1, <1>6, <3>2 DEF Queues
      <4> QED
        BY <2>1, <3>2, <4>1 DEF ManagerOf
    <3> QED
      BY <1>5, <2>1, <3>1, <3>2
  <2>2. CASE n # m
    BY <1>1, <1>3, <1>6, <2>2 DEF Queues, ManagerOf
  <2> QED
    BY <2>1, <2>2
<1>9. ASSUME NEW n \in Managers, NEW i \in DOMAIN queue'[n], NEW j \in DOMAIN queue'[n],
             queue'[n][i] = queue'[n][j]
      PROVE  i = j
  <2>1. CASE n = m
    BY <1>1, <1>5, <1>6, <1>9, <2>1 DEF Queues
  <2>2. CASE n # m
    BY <1>3, <1>9, <2>2 DEF Queues
  <2> QED
    BY <2>1, <2>2
<1> QED
  BY <1>4, <1>8, <1>9 DEF Queues

(* A step that leaves the queues alone, and the queued tasks queued. *)
LEMMA SameQueues ==
  ASSUME Types, Queues, UNCHANGED <<queue, shared>>,
         \A u \in Tasks : pc[u] \in {"queued", "woken"} => pc'[u] = pc[u]
  PROVE  Queues'
<1>1. \A n \in Managers : \A i \in DOMAIN queue[n] : queue[n][i] \in Tasks
  BY DEF Types
<1> QED
  BY <1>1 DEF Queues, ManagerOf

(* A step that puts nobody on a thread. *)
LEMMA CrewShrinks ==
  ASSUME Crew, UNCHANGED <<shared, threads>>, threads \in Nat,
         \A t \in Tasks : Running(t)' => Running(t)
  PROVE  Crew'
<1> SUFFICES ASSUME NEW m \in Managers PROVE (Cardinality(Crowd(m)) <= threads)'
  BY DEF Crew
<1>1. Crowd(m)' \subseteq Crowd(m)
  BY DEF Crowd, ManagerOf
<1>2. IsFiniteSet(Tasks)
  BY TcpServerAssumption, FS_Union DEF Tasks
<1>3. IsFiniteSet(Crowd(m))
  BY <1>2, FS_Subset DEF Crowd
<1>4. /\ Cardinality(Crowd(m)') <= Cardinality(Crowd(m))
      /\ Cardinality(Crowd(m)) \in Nat /\ Cardinality(Crowd(m)') \in Nat
  BY <1>1, <1>3, FS_Subset, FS_CardinalityType
<1> QED
  BY <1>4 DEF Crew

(* Two tasks of one manager that run at once have two threads. *)
LEMMA TwoThreads ==
  ASSUME Crew, threads \in Nat, NEW m \in Managers, NEW t \in Crowd(m), NEW u \in Crowd(m), t # u
  PROVE  threads > 1
<1>1. IsFiniteSet(Tasks)
  BY TcpServerAssumption, FS_Union DEF Tasks
<1>2. IsFiniteSet(Crowd(m))
  BY <1>1, FS_Subset DEF Crowd
<1>3. Cardinality({t} \union {u}) = 2
  <2>1. IsFiniteSet({t}) /\ Cardinality({t}) = 1 /\ u \notin {t}
    BY FS_Singleton
  <2>2. Cardinality({t} \union {u}) = Cardinality({t}) + 1
    BY <2>1, FS_AddElement
  <2> QED
    BY <2>1, <2>2
<1>4. Cardinality({t} \union {u}) <= Cardinality(Crowd(m)) /\ Cardinality(Crowd(m)) \in Nat
  BY <1>2, FS_Subset, FS_CardinalityType
<1> QED
  BY <1>3, <1>4 DEF Crew
-----------------------------------------------------------------------------
(* The steps by what they do to the tasks. *)

(* No task moves. *)
LEMMA UserKeepsBase ==
  ASSUME Base, Start \/ StopFlag \/ Connect \/ (StartLoops /\ ~bound) \/ UNCHANGED vars
  PROVE  Base' /\ UNCHANGED <<shared, threads, pc, queue, registered>>
<1> USE DEF Base, Types
<1>1. UNCHANGED <<shared, threads, pc, queue, registered, bound, late, sockfd, fdctx, open, aborted>>
  BY DEF Start, StopFlag, Connect, StartLoops, vars, scene, socket, ghosts
<1>2. Types'
  BY <1>1 DEF Start, StopFlag, Connect, StartLoops, vars, ghosts
<1>3. Queues' /\ Watched'
  BY <1>1, SameQueues DEF Watched
<1> QED
  BY <1>1, <1>2, <1>3

(* Somebody is put in a queue. *)
LEMMA PushKeepsBase ==
  ASSUME Base, NEW t \in Tasks, NEW s \in {"queued", "woken"},
         pc[t] \notin {"queued", "woken"}, pc' = [pc EXCEPT ![t] = s], Push(t),
         t \in Closers => s = "queued",
         UNCHANGED <<shared, threads, isStop, bound, sockfd, open, fdctx, aborted, overlap, late>>,
         user' \in {"outside", "start", "stop"},
         registered' = IF pc[t] = "waiting" THEN None ELSE registered
  PROVE  Base'
<1> USE TcpServerAssumption DEF Base, Tasks
<1>1. \A u \in Tasks : pc'[u] = IF u = t THEN s ELSE pc[u]
  BY DEF Types
<1>2. queue' \in [Managers -> Seq(Tasks)] /\ Queues'
  BY <1>1, PushKeepsQueues
<1>3. pc' \in [Tasks -> LoopPc \union CloserPc]
  BY DEF Types, LoopPc, CloserPc
<1>4. \A l \in Loops : pc'[l] \in LoopPc
  BY <1>1 DEF Types, LoopPc
<1>5. \A c \in Closers : pc'[c] \in CloserPc
  BY <1>1 DEF Types, CloserPc
<1>6. registered' \in Loops \union {None}
  BY DEF Types
<1>7. Types'
  BY <1>2, <1>3, <1>4, <1>5, <1>6 DEF Types
<1>8. Watched'
  <2>1. CASE pc[t] = "waiting"
    <3>1. t \in Loops /\ registered = t
      BY <2>1 DEF Watched, Types, CloserPc
    <3>2. \A l \in Loops : pc[l] = "waiting" => l = t
      BY <3>1 DEF Watched
    <3> QED
      BY <1>1, <2>1, <3>2 DEF Watched
  <2>2. CASE pc[t] # "waiting"
    BY <1>1, <2>2 DEF Watched
  <2> QED
    BY <2>1, <2>2
<1> QED
  BY <1>2, <1>7, <1>8

(* A running task goes on. *)
LEMMA MoveKeepsBase ==
  ASSUME Base, NEW t \in Tasks, NEW s,
         t \in Loops => s \in LoopPc, t \in Closers => s \in CloserPc,
         pc[t] \notin {"queued", "woken", "waiting"}, pc' = [pc EXCEPT ![t] = s],
         UNCHANGED <<shared, threads, queue>>,
         {isStop', bound', sockfd', open', fdctx', aborted', overlap'} \subseteq BOOLEAN,
         user' \in {"outside", "start", "stop"}, late' \subseteq Loops,
         registered' = IF s = "waiting" THEN t ELSE registered,
         s = "waiting" => registered = None
  PROVE  Base'
<1> USE TcpServerAssumption DEF Base, Tasks
<1>1. \A u \in Tasks : pc'[u] = IF u = t THEN s ELSE pc[u]
  BY DEF Types
<1>2. Queues'
  BY <1>1, SameQueues
<1>3. s = "waiting" => t \in Loops
  BY DEF CloserPc
<1>4. Types'
  BY <1>1, <1>3 DEF Types
<1>5. Watched'
  BY <1>1, <1>3 DEF Watched, Types
<1> QED
  BY <1>2, <1>4, <1>5

(* A thread takes a task: it is in no queue any more. *)
LEMMA RunKeepsBase ==
  ASSUME Base, NEW m \in Managers, Run(m)
  PROVE  /\ Base'
         /\ \E t \in Tasks, s \in {"accept", "check", "list"} :
              /\ pc[t] \in {"queued", "woken"} /\ ManagerOf(t) = m
              /\ pc' = [pc EXCEPT ![t] = s]
<1> USE TcpServerAssumption DEF Base, Tasks
<1> DEFINE q == queue[m]
           t == Head(q)
           s == IF pc[t] = "woken" THEN "accept" ELSE IF t \in Loops THEN "check" ELSE "list"
<1>1. /\ q \in Seq(Tasks) /\ q # <<>> /\ t = q[1] /\ 1 \in DOMAIN q /\ t \in Tasks
      /\ Tail(q) \in Seq(Tasks)
      /\ \A i \in DOMAIN Tail(q) : i + 1 \in DOMAIN q /\ Tail(q)[i] = q[i + 1] /\ i + 1 # 1
                                   /\ i \in Nat
  BY DEF Run, Types
<1>2. /\ pc' = [pc EXCEPT ![t] = s] /\ queue' = [queue EXCEPT ![m] = Tail(q)]
      /\ UNCHANGED <<shared, threads, isStop, bound, sockfd, open, fdctx, aborted, overlap, late,
                     user, registered>>
  BY DEF Run, scene, socket, ghosts
<1>3. pc[t] \in {"queued", "woken"} /\ ManagerOf(t) = m
  BY <1>1 DEF Queues
<1> HIDE DEF t
<1>4. \A u \in Tasks : pc'[u] = IF u = t THEN s ELSE pc[u]
  BY <1>1, <1>2 DEF Types
<1>5. s \in {"accept", "check", "list"} /\ (t \in Loops => s # "list")
      /\ (t \in Closers => s = "list")
  BY <1>3 DEF Types, LoopPc, CloserPc
<1> HIDE DEF s
<1>6. queue' \in [Managers -> Seq(Tasks)] /\ queue'[m] = Tail(q)
      /\ \A n \in Managers \ {m} : queue'[n] = queue[n]
  BY <1>1, <1>2 DEF Types
<1>7. Types'
  <2>1. pc' \in [Tasks -> LoopPc \union CloserPc]
    BY <1>2, <1>5 DEF Types, LoopPc, CloserPc
  <2>2. (\A l \in Loops : pc'[l] \in LoopPc) /\ (\A c \in Closers : pc'[c] \in CloserPc)
    BY <1>4, <1>5 DEF Types, LoopPc, CloserPc
  <2> QED
    BY <1>2, <1>6, <2>1, <2>2 DEF Types
<1>8. Watched'
  BY <1>2, <1>3, <1>4, <1>5 DEF Watched
<1>9. \A u \in Tasks : ManagerOf(u)' = ManagerOf(u)
  BY <1>2 DEF ManagerOf
<1>10. \A i \in DOMAIN q : q[i] \in Tasks
  BY <1>1
<1>11. \A i \in DOMAIN Tail(q) : Tail(q)[i] \in Tasks /\ Tail(q)[i] # t
  BY <1>1, <1>10 DEF Queues
<1>12. \A n \in Managers \ {m} : \A i \in DOMAIN queue[n] :
         queue[n][i] \in Tasks /\ queue[n][i] # t
  <2> SUFFICES ASSUME NEW n \in Managers \ {m}, NEW i \in DOMAIN queue[n]
               PROVE  queue[n][i] \in Tasks /\ queue[n][i] # t
    OBVIOUS
  <2>1. queue[n][i] \in Tasks
    BY DEF Types
  <2>2. ManagerOf(queue[n][i]) = n
    BY DEF Queues
  <2> QED
    BY <1>3, <2>1, <2>2
<1>13. ASSUME NEW n \in Managers
       PROVE  /\ \A i \in DOMAIN queue'[n] : (/\ pc[queue[n][i]] \in {"queued", "woken"}
                                              /\ ManagerOf(queue[n][i]) = n)'
              /\ \A i, j \in DOMAIN queue'[n] : queue'[n][i] = queue'[n][j] => i = j
  <2>1. CASE n = m
    <3>1. \A i \in DOMAIN Tail(q) : /\ pc[Tail(q)[i]] \in {"queued", "woken"}
                                    /\ ManagerOf(Tail(q)[i]) = n
      BY <1>1, <2>1 DEF Queues
    <3>2. \A i, j \in DOMAIN Tail(q) : Tail(q)[i] = Tail(q)[j] => i = j
      <4> SUFFICES ASSUME NEW i \in DOMAIN Tail(q), NEW j \in DOMAIN Tail(q),
                          Tail(q)[i] = Tail(q)[j]
                   PROVE  i = j
        OBVIOUS
      <4>1. i + 1 = j + 1
        BY <1>1 DEF Queues
      <4> QED
        BY <1>1, <4>1
    <3>3. queue'[n] = Tail(q)
      BY <1>6, <2>1
    <3> HIDE DEF q
    <3>4. \A i \in DOMAIN Tail(q) : pc'[Tail(q)[i]] \in {"queued", "woken"}
      BY <1>4, <1>11, <3>1
    <3> QED
      BY <1>9, <1>11, <3>1, <3>2, <3>3, <3>4
  <2>2. CASE n # m
    <3>1. queue'[n] = queue[n]
      BY <1>6, <2>2
    <3>2. \A i \in DOMAIN queue[n] : /\ pc[queue[n][i]] \in {"queued", "woken"}
                                     /\ ManagerOf(queue[n][i]) = n
      BY DEF Queues
    <3>3. \A i, j \in DOMAIN queue[n] : queue[n][i] = queue[n][j] => i = j
      BY DEF Queues
    <3> QED
      BY <1>4, <1>9, <1>12, <2>2, <3>1, <3>2, <3>3
  <2> QED
    BY <2>1, <2>2
<1>14. Queues'
  BY <1>13 DEF Queues
<1> QED
  BY <1>1, <1>2, <1>3, <1>5, <1>7, <1>8, <1>14

(* A closing task goes on, and may wake the loop that waits. *)
LEMMA CancelKeepsBase ==
  ASSUME Base, NEW c \in Closers, NEW from \in {"cancel", "closing"}, NEW to \in {"closing", "del"},
         Cancel(c, from, to)
  PROVE  /\ Base'
         /\ \A u \in Tasks : pc'[u] = IF u = c THEN to
                                      ELSE IF u = registered /\ shared /\ sockfd
                                           THEN "woken" ELSE pc[u]
         /\ \/ UNCHANGED registered /\ (shared => ~sockfd \/ registered = None)
            \/ registered' = None /\ registered \in Loops /\ pc[registered] = "waiting"
<1> USE TcpServerAssumption DEF Base, Tasks
<1>1. /\ UNCHANGED <<shared, threads, isStop, bound, sockfd, open, fdctx, aborted, overlap, late,
                     user>>
      /\ pc[c] = from /\ c \notin Loops
  BY DEF Cancel, scene, socket, ghosts
<1>2. CASE shared /\ sockfd /\ registered # None
  <2>1. registered \in Loops /\ registered # c /\ pc[registered] = "waiting"
    BY <1>1, <1>2 DEF Types, Watched
  <2>2. /\ pc' = [pc EXCEPT ![c] = to, ![registered] = "woken"]
        /\ Push(registered) /\ registered' = None
    BY <1>2 DEF Cancel
  <2>3. \A u \in Tasks : pc'[u] = IF u = c THEN to ELSE IF u = registered THEN "woken" ELSE pc[u]
    BY <2>1, <2>2 DEF Types
  <2>4. queue' \in [Managers -> Seq(Tasks)] /\ Queues'
    BY <1>1, <2>1, <2>2, <2>3, PushKeepsQueues
  <2>5. pc' \in [Tasks -> LoopPc \union CloserPc]
    BY <2>2 DEF Types, LoopPc, CloserPc
  <2>6. \A l \in Loops : pc'[l] \in LoopPc
    BY <1>1, <2>3 DEF Types, LoopPc
  <2>7. \A d \in Closers : pc'[d] \in CloserPc
    BY <2>1, <2>3 DEF Types, CloserPc
  <2>8. Types'
    BY <1>1, <2>2, <2>4, <2>5, <2>6, <2>7 DEF Types
  <2>9. Watched'
    <3>1. \A l \in Loops : pc[l] = "waiting" => l = registered
      BY DEF Watched
    <3>2. \A l \in Loops : pc'[l] # "waiting"
      BY <1>1, <2>3, <3>1
    <3> QED
      BY <2>2, <3>2 DEF Watched
  <2> QED
    BY <1>2, <2>1, <2>2, <2>3, <2>4, <2>8, <2>9
<1>3. CASE ~(shared /\ sockfd /\ registered # None)
  <2>1. pc' = [pc EXCEPT ![c] = to] /\ UNCHANGED <<registered, queue>>
    BY <1>3 DEF Cancel, Go
  <2>2. to \in CloserPc /\ to # "waiting"
    BY DEF CloserPc
  <2>3. Base'
    BY <1>1, <2>1, <2>2, MoveKeepsBase DEF Types
  <2>4. \A u \in Tasks : pc'[u] = IF u = c THEN to ELSE pc[u]
    BY <2>1 DEF Types
  <2>5. \A u \in Tasks : ~(u = registered /\ shared /\ sockfd)
    BY <1>1, <1>3 DEF Types
  <2> QED
    BY <1>3, <2>1, <2>3, <2>4, <2>5
<1> QED
  BY <1>2, <1>3

(* Every step keeps the queues and the registration in order. *)
LEMMA NextKeepsBase ==
  ASSUME Base, [Next]_vars
  PROVE  Base'
<1> USE TcpServerAssumption DEF Base, Tasks
<1>1. CASE Start \/ StopFlag \/ Connect \/ UNCHANGED vars
  BY <1>1, UserKeepsBase
<1>2. CASE StartLoops
  <2>1. CASE ~bound
    BY <1>2, <2>1, UserKeepsBase
  <2>2. CASE bound
    <3>1. PICK l \in Loops : pc[l] = "none" /\ pc' = [pc EXCEPT ![l] = "queued"] /\ Push(l)
      BY <1>2, <2>2 DEF StartLoops, Unused
    <3> QED
      BY <1>2, <3>1, PushKeepsBase DEF StartLoops, scene, socket, ghosts
  <2> QED
    BY <2>1, <2>2
<1>3. CASE Stop
  <2>1. PICK c \in Closers : pc[c] = "none" /\ pc' = [pc EXCEPT ![c] = "queued"] /\ Push(c)
    BY <1>3 DEF Stop, Unused
  <2> QED
    BY <1>3, <2>1, PushKeepsBase DEF Stop, scene, socket, ghosts
<1>4. CASE Dispatch
  <2>1. registered \in Loops /\ pc[registered] = "waiting"
    BY <1>4 DEF Dispatch, Types, Watched
  <2>2. pc' = [pc EXCEPT ![registered] = "woken"] /\ Push(registered) /\ registered' = None
    BY <1>4 DEF Dispatch, Trigger
  <2> QED
    BY <1>4, <2>1, <2>2, PushKeepsBase DEF Dispatch, Types, scene, socket, ghosts
<1>5. ASSUME NEW m \in Managers, Run(m) PROVE Base'
  BY <1>5, RunKeepsBase
<1>6. ASSUME NEW l \in Loops, Check(l) PROVE Base'
  <2> DEFINE s == IF isStop THEN "ended" ELSE "accept"
  <2>1. s \in LoopPc /\ s # "waiting" /\ l \notin Closers
    BY DEF LoopPc
  <2>2. pc[l] = "check" /\ pc' = [pc EXCEPT ![l] = s]
    BY <1>6 DEF Check
  <2> HIDE DEF s
  <2> QED
    BY <1>6, <2>1, <2>2, MoveKeepsBase DEF Check, Types, scene, socket, ghosts
<1>7. ASSUME NEW l \in Loops, Accept(l) PROVE Base'
  <2>1. PICK s \in {"check", "add"} : pc' = [pc EXCEPT ![l] = s]
    BY <1>7 DEF Accept
  <2>2. s \in LoopPc /\ s # "waiting" /\ l \notin Closers
    BY DEF LoopPc
  <2> QED
    BY <1>7, <2>1, <2>2, MoveKeepsBase DEF Accept, Types, scene, socket, ghosts
<1>8. ASSUME NEW l \in Loops, Add(l) PROVE Base'
  <2>1. CASE registered # None
    <3>1. UNCHANGED <<shared, threads, pc, queue, registered, isStop, bound, sockfd, open, fdctx,
                      overlap, late, user>> /\ aborted' = TRUE
      BY <1>8, <2>1 DEF Add, scene, socket, ghosts
    <3>2. Types' /\ Watched'
      BY <3>1 DEF Types, Watched
    <3> QED
      BY <3>1, <3>2, SameQueues
  <2>2. CASE registered = None
    <3> DEFINE s == IF open THEN "waiting" ELSE "check"
    <3>1. s \in LoopPc /\ l \notin Closers
      BY DEF LoopPc
    <3>2. /\ pc' = [pc EXCEPT ![l] = s] /\ pc[l] = "add"
          /\ registered' = (IF s = "waiting" THEN l ELSE registered)
      BY <1>8, <2>2 DEF Add
    <3>3. late' \subseteq Loops /\ aborted' \in BOOLEAN
      BY <1>8, <2>2 DEF Add, Types
    <3> HIDE DEF s
    <3> QED
      BY <1>8, <2>2, <3>1, <3>2, <3>3, MoveKeepsBase, ZenonT(40) DEF Add, Types, scene, socket, ghosts
  <2> QED
    BY <2>1, <2>2
<1>9. ASSUME NEW c \in Closers, CancelAll(c) PROVE Base'
  BY <1>9, CancelKeepsBase DEF CancelAll
<1>10. ASSUME NEW c \in Closers, CloseCancel(c) PROVE Base'
  <2>1. CASE Cancel(c, "closing", "del")
    BY <2>1, CancelKeepsBase
  <2>2. CASE ~Cancel(c, "closing", "del")
    <3>1. PICK s \in {"close", "clear"} : pc' = [pc EXCEPT ![c] = s]
      BY <1>10, <2>2 DEF CloseCancel, Go
    <3>2. s \in CloserPc /\ s # "waiting" /\ c \notin Loops
      BY DEF CloserPc
    <3> QED
      BY <1>10, <2>2, <3>1, <3>2, MoveKeepsBase DEF CloseCancel, Types, scene, socket, ghosts
  <2> QED
    BY <2>1, <2>2
<1>11. ASSUME NEW c \in Closers, List(c) \/ Del(c) \/ CloseFd(c) \/ Clear(c) PROVE Base'
  <2>1. PICK s \in {"cancel", "ended", "close", "clear"} : Go(c, s)
    BY <1>11 DEF List, Del, CloseFd, Clear
  <2>2. s \in CloserPc /\ s # "waiting" /\ c \notin Loops
    BY DEF CloserPc
  <2>3. pc[c] \in {"list", "del", "close", "clear"}
    BY <1>11 DEF List, Del, CloseFd, Clear
  <2>4. /\ UNCHANGED <<shared, threads, queue, isStop, aborted, overlap, user, late, registered>>
        /\ {bound', sockfd', open', fdctx'} \subseteq BOOLEAN
    BY <1>11 DEF List, Del, CloseFd, Clear, scene, socket, ghosts, Types
  <2>5. {isStop', bound', sockfd', open', fdctx', aborted', overlap'} \subseteq BOOLEAN
    BY <2>4 DEF Types
  <2>6. user' \in {"outside", "start", "stop"} /\ late' \subseteq Loops
    BY <2>4 DEF Types
  <2> QED
    BY <2>1, <2>2, <2>3, <2>4, <2>5, <2>6, MoveKeepsBase DEF Go
<1> QED
  BY <1>1, <1>2, <1>3, <1>4, <1>5, <1>6, <1>7, <1>8, <1>9, <1>10, <1>11
     DEF Next, LoopStep, CloserStep

-----------------------------------------------------------------------------
(* Most steps put nobody to work, nobody on a thread, and close nothing. *)
LEMMA QuietStep ==
  ASSUME Base, Rounds, UNCHANGED <<isStop, user, open, bound, aborted, overlap>>,
         \A t \in Tasks : AtWork(t)' => AtWork(t),
         \A c \in Closers : pc[c] = "clear" => pc'[c] = "clear"
  PROVE  Rounds'
<1> SUFFICES ASSUME Round, ~overlap' PROVE Round'
  BY DEF Rounds
<1>1. \A t \in Loops \union Closers : AtWork(t)' => AtWork(t)
  BY DEF Tasks
<1> QED
  BY <1>1 DEF Round, Tasks

(* Most steps register nobody and bring no closing task past its cancelAll(). *)
LEMMA QuietSocket ==
  ASSUME Cleared, UNCHANGED <<open, sockfd, threads, shared>>, late \subseteq late',
         registered' \in {None, registered}, UNCHANGED fdctx,
         \A c \in Closers : pc'[c] \in {"del", "close"} => pc[c] \in {"del", "close"},
         \A c \in Closers : pc[c] = "close" => pc'[c] = "close"
  PROVE  Cleared'
BY TcpServerAssumption DEF Cleared

(* Who is at work after a step of one task. *)
LEMMA OneMoves ==
  ASSUME Types, NEW t \in Tasks, NEW s, pc' = [pc EXCEPT ![t] = s],
         pc[t] \notin {"none", "ended"}
  PROVE  /\ \A u \in Tasks : pc'[u] = IF u = t THEN s ELSE pc[u]
         /\ \A u \in Tasks : AtWork(u)' => AtWork(u)
         /\ Running(t) => \A u \in Tasks : Running(u)' => Running(u)
         /\ s \in {"queued", "waiting", "woken", "ended"} =>
              \A u \in Tasks : Running(u)' => Running(u)
<1>1. \A u \in Tasks : pc'[u] = IF u = t THEN s ELSE pc[u]
  BY DEF Types
<1> QED
  BY <1>1 DEF AtWork, Running

(* A thread that is free takes one task more. *)
LEMMA RunKeepsCrew ==
  ASSUME Types, Crew, NEW m \in Managers, Free(m), NEW t \in Tasks, ManagerOf(t) = m,
         \A u \in Tasks : Running(u)' => Running(u) \/ u = t,
         UNCHANGED <<shared, threads>>
  PROVE  Crew'
<1> SUFFICES ASSUME NEW n \in Managers PROVE (Cardinality(Crowd(n)) <= threads)'
  BY DEF Crew
<1>1. IsFiniteSet(Tasks)
  BY TcpServerAssumption, FS_Union DEF Tasks
<1>2. IsFiniteSet(Crowd(n)) /\ Cardinality(Crowd(n)) \in Nat /\ Cardinality(Crowd(n)) <= threads
  BY <1>1, FS_Subset, FS_CardinalityType DEF Crowd, Crew
<1>3. threads \in Nat
  BY DEF Types
<1>4. CASE n # m
  <2>1. Crowd(n)' \subseteq Crowd(n)
    BY <1>4 DEF Crowd, ManagerOf
  <2>2. /\ Cardinality(Crowd(n)') <= Cardinality(Crowd(n))
        /\ Cardinality(Crowd(n)') \in Nat
    BY <1>2, <2>1, FS_Subset, FS_CardinalityType
  <2> QED
    BY <1>2, <1>3, <2>2
<1>5. CASE n = m
  <2>1. Crowd(n)' \subseteq Crowd(n) \union {t}
    BY DEF Crowd, ManagerOf
  <2>2. /\ IsFiniteSet(Crowd(n) \union {t})
        /\ Cardinality(Crowd(n) \union {t}) <= Cardinality(Crowd(n)) + 1
    <3>1. CASE t \in Crowd(n)
      <4>1. Crowd(n) \union {t} = Crowd(n)
        BY <3>1
      <4> QED
        BY <1>2, <4>1
    <3>2. CASE t \notin Crowd(n)
      <4>1. /\ IsFiniteSet(Crowd(n) \union {t})
            /\ Cardinality(Crowd(n) \union {t}) = Cardinality(Crowd(n)) + 1
        BY <1>2, <3>2, FS_AddElement
      <4> QED
        BY <1>2, <4>1
    <3> QED
      BY <3>1, <3>2
  <2>3. /\ Cardinality(Crowd(n)') <= Cardinality(Crowd(n) \union {t})
        /\ Cardinality(Crowd(n)') \in Nat /\ Cardinality(Crowd(n) \union {t}) \in Nat
    BY <2>1, <2>2, FS_Subset, FS_CardinalityType
  <2>4. Cardinality(Crowd(n)) < threads
    BY <1>5 DEF Free, Crowd
  <2> QED
    BY <1>2, <1>3, <2>2, <2>3, <2>4
<1> QED
  BY <1>4, <1>5

(* The rest of the invariant, over the steps of the user, ... *)
LEMMA UserKeepsRest ==
  ASSUME IInv, Start \/ StartLoops \/ Stop \/ StopFlag \/ Connect \/ UNCHANGED vars
  PROVE  Rounds' /\ Crew' /\ Cleared'
<1> USE TcpServerAssumption DEF IInv, Base, Tasks
<1>1. Cleared'
  <2>1. UNCHANGED <<open, sockfd, fdctx, threads, shared, late, registered>>
    BY DEF Start, StartLoops, Stop, StopFlag, Connect, vars, scene, socket, ghosts
  <2>2. /\ \A c \in Closers : pc'[c] \in {"del", "close"} => pc[c] \in {"del", "close"}
        /\ \A c \in Closers : pc[c] = "close" => pc'[c] = "close"
    BY DEF Start, StartLoops, Stop, StopFlag, Connect, vars, Types, Unused
  <2> QED
    BY <2>1, <2>2, QuietSocket
<1>2. Crew'
  <2>1. UNCHANGED <<threads, shared>> /\ threads \in Nat
    BY DEF Start, StartLoops, Stop, StopFlag, Connect, vars, scene, Types
  <2>2. UNCHANGED pc \/ \E t \in Tasks : pc' = [pc EXCEPT ![t] = "queued"]
    BY DEF Start, StartLoops, Stop, StopFlag, Connect, vars, Unused
  <2>3. \A u \in Tasks : Running(u)' => Running(u)
    BY <2>2 DEF Running, AtWork, Types
  <2> QED
    BY <2>1, <2>3, CrewShrinks
<1>3. Rounds'
  <2> SUFFICES ASSUME ~overlap' PROVE Round'
    BY DEF Rounds
  <2>1. Round
    BY DEF Rounds, Start, StartLoops, Stop, StopFlag, Connect, vars, ghosts
  <2>2. CASE Start
    BY <2>1, <2>2 DEF Start, Round, AtWork, scene, socket
  <2>3. CASE StartLoops
    <3>1. CASE bound
      <4>1. PICK l \in Loops : pc' = [pc EXCEPT ![l] = "queued"]
        BY <2>3, <3>1 DEF StartLoops, Unused
      <4>2. \A t \in Tasks : AtWork(t)' => t = l
        BY <2>1, <2>3, <4>1 DEF StartLoops, Round, AtWork, Types
      <4>3. open /\ l \notin Closers
        BY <2>1, <2>3, <3>1 DEF StartLoops, Round, AtWork
      <4> QED
        BY <2>1, <2>3, <4>2, <4>3 DEF StartLoops, Round, scene, socket, ghosts
    <3>2. CASE ~bound
      BY <2>1, <2>3, <3>2 DEF StartLoops, Round, AtWork, scene, socket, ghosts
    <3> QED
      BY <3>1, <3>2
  <2>4. CASE Stop
    <3>1. PICK c \in Closers : pc[c] = "none" /\ pc' = [pc EXCEPT ![c] = "queued"]
      BY <2>4 DEF Stop, Unused
    <3>2. \A d \in Closers : ~AtWork(d)
      BY <2>1, <2>4 DEF Stop, Round
    <3>3. \A t \in Tasks : AtWork(t)' => AtWork(t) \/ t = c
      BY <3>1 DEF Types, AtWork
    <3>4. \A d \in Closers : pc[d] # "clear"
      BY <3>2 DEF AtWork
    <3> QED
      BY <2>1, <2>4, <3>2, <3>3, <3>4 DEF Stop, Round, scene, socket, ghosts
  <2>5. CASE StopFlag
    BY <2>1, <2>5 DEF StopFlag, Round, AtWork, scene, socket, ghosts
  <2>6. CASE Connect \/ UNCHANGED vars
    BY <2>1, <2>6 DEF Connect, Round, AtWork, vars, scene, socket, ghosts
  <2> QED
    BY <2>2, <2>3, <2>4, <2>5, <2>6
<1> QED
  BY <1>1, <1>2, <1>3

(* ... of an accept loop: registering late takes a thread beside the closer's, ... *)
LEMMA LoopKeepsRest ==
  ASSUME IInv, NEW l \in Loops, LoopStep(l)
  PROVE  Rounds' /\ Crew' /\ Cleared'
<1> USE TcpServerAssumption DEF IInv, Base, Tasks
<1>1. UNCHANGED <<shared, threads, sockfd, fdctx, isStop, user, open, bound, overlap>> /\ threads \in Nat
  BY DEF LoopStep, Check, Accept, Add, scene, socket, ghosts, Types
<1>2. pc[l] \in {"check", "accept", "add"} /\ Running(l) /\ AtWork(l)
  BY DEF LoopStep, Check, Accept, Add, Running, AtWork
<1>3. UNCHANGED pc \/ \E s \in LoopPc : pc' = [pc EXCEPT ![l] = s]
  BY DEF LoopStep, Check, Accept, Add, LoopPc
<1>4. /\ \A u \in Tasks : AtWork(u)' => AtWork(u)
      /\ \A u \in Tasks : Running(u)' => Running(u)
      /\ \A u \in Tasks : u # l => pc'[u] = pc[u]
  <2>1. CASE UNCHANGED pc
    BY <2>1 DEF AtWork, Running
  <2>2. CASE \E s \in LoopPc : pc' = [pc EXCEPT ![l] = s]
    BY <1>2, <2>2, OneMoves
  <2> QED
    BY <1>3, <2>1, <2>2
<1>5. Crew'
  BY <1>1, <1>4, CrewShrinks
<1>6. \A c \in Closers : pc'[c] = pc[c]
  BY <1>4
<1>7. Rounds'
  <2>1. CASE UNCHANGED aborted
    BY <1>1, <1>4, <1>6, <2>1, QuietStep
  <2>2. CASE aborted' # aborted
    <3>1. Add(l) /\ registered # None
      BY <2>2 DEF LoopStep, Check, Accept, Add, ghosts
    <3>2. registered \in Loops /\ AtWork(registered) /\ registered # l
      BY <1>2, <3>1 DEF Types, Watched, AtWork
    <3> QED
      BY <1>1, <1>2, <3>2 DEF Rounds, Round
  <2> QED
    BY <2>1, <2>2
<1>8. Cleared'
  <2>1. CASE registered' \in {None, registered}
    <3>1. late \subseteq late'
      BY DEF LoopStep, Check, Accept, Add, ghosts
    <3> QED
      BY <1>1, <1>6, <2>1, <3>1, QuietSocket
  <2>2. CASE registered' \notin {None, registered}
    <3>1. /\ Add(l) /\ registered = None /\ open /\ registered' = l
          /\ late' = IF Closing THEN late \union {l} ELSE late
      BY <2>2 DEF LoopStep, Check, Accept, Add
    <3>2. ASSUME shared, NEW c \in Closers, pc[c] \in {"del", "close"}
          PROVE  l \in late' /\ threads > 1
      <4>1. l \in late'
        BY <3>1, <3>2 DEF Closing
      <4>2. "worker" \in Managers /\ l \in Crowd("worker") /\ c \in Crowd("worker") /\ l # c
        BY <1>2, <3>2 DEF Crowd, ManagerOf, Running, AtWork, Managers
      <4> QED
        BY <1>1, <4>1, <4>2, TwoThreads
    <3> QED
      BY <1>1, <1>6, <3>1, <3>2 DEF Cleared
  <2> QED
    BY <2>1, <2>2
<1> QED
  BY <1>5, <1>7, <1>8

(* ... and of a closing task: what it leaves registered was late. *)
LEMMA CloserKeepsRest ==
  ASSUME IInv, NEW c \in Closers, CloserStep(c)
  PROVE  Rounds' /\ Crew' /\ Cleared'
<1> USE TcpServerAssumption DEF IInv, Base, Tasks
<1>1. /\ UNCHANGED <<shared, threads, isStop, user, aborted, overlap, late>>
      /\ threads \in Nat
  BY DEF CloserStep, List, CancelAll, CloseCancel, Cancel, Del, CloseFd, Clear, scene, socket,
         ghosts, Types
<1>2. pc[c] \in {"list", "cancel", "closing", "del", "close", "clear"} /\ Running(c) /\ AtWork(c)
  BY DEF CloserStep, List, CancelAll, CloseCancel, Cancel, Del, CloseFd, Clear, Running, AtWork
<1>3. CASE List(c) \/ Del(c)
  <2>1. PICK s \in {"cancel", "ended", "close"} :
          /\ pc' = [pc EXCEPT ![c] = s]
          /\ s = "close" => pc[c] = "del"
    BY <1>3 DEF List, Del, Go
  <2>2. UNCHANGED <<sockfd, open, bound, registered>>
    BY <1>3 DEF List, Del, socket
  <2>3. \A u \in Tasks : pc'[u] = IF u = c THEN s ELSE pc[u]
    BY <1>2, <2>1, OneMoves, ZenonT(40)
  <2>4. pc[c] # "clear" /\ (s = "close" => pc[c] = "del")
    BY <1>3, <2>1 DEF List, Del
  <2>5. /\ \A u \in Tasks : AtWork(u)' => AtWork(u)
        /\ \A u \in Tasks : Running(u)' => Running(u)
    BY <1>2, <2>1, OneMoves
  <2>6. Cleared'
    <3>1. CASE List(c)
      <4>1. UNCHANGED fdctx /\ pc[c] # "close"
        BY <3>1 DEF List, socket
      <4> QED
        BY <1>1, <2>2, <2>3, <2>4, <4>1, QuietSocket
    <3>2. CASE Del(c)
      <4>1. pc'[c] = "close" /\ pc[c] = "del"
        BY <1>3, <3>2, <2>1, <2>3 DEF Del, Go, Types
      <4> QED
        BY <1>1, <2>2, <2>3, <4>1 DEF Cleared
    <3> QED
      BY <1>3, <3>1, <3>2
  <2> QED
    BY <1>1, <2>2, <2>3, <2>4, <2>5, <2>6, QuietStep, CrewShrinks
<1>4. CASE CancelAll(c) \/ Cancel(c, "closing", "del")
  <2>1. PICK from \in {"cancel", "closing"}, to \in {"closing", "del"} : Cancel(c, from, to)
    BY <1>4 DEF CancelAll
  <2>2. UNCHANGED <<sockfd, open, bound, fdctx>> /\ pc[c] = from
    BY <2>1 DEF Cancel, socket
  <2>3. /\ \A u \in Tasks : pc'[u] = IF u = c THEN to
                                     ELSE IF u = registered /\ shared /\ sockfd
                                          THEN "woken" ELSE pc[u]
        /\ \/ UNCHANGED registered /\ (shared => ~sockfd \/ registered = None)
           \/ registered' = None /\ registered \in Loops /\ pc[registered] = "waiting"
    BY <2>1, CancelKeepsBase
  <2>4. registered \in Tasks => registered \in Loops /\ pc[registered] = "waiting"
    BY DEF Types, Watched
  <2>5. /\ \A u \in Tasks : AtWork(u)' => AtWork(u)
        /\ \A u \in Tasks : Running(u)' => Running(u)
    BY <1>2, <2>3, <2>4 DEF AtWork, Running
  <2>6. \A d \in Closers : d # c => pc'[d] = pc[d]
    BY <2>3, <2>4
  <2>7. Cleared'
    <3>0. (\E d \in Closers : pc[d] = "close") => \E d \in Closers : pc'[d] = "close"
      BY <2>2, <2>6
    <3>1. CASE registered' = None
      BY <1>1, <2>2, <3>0, <3>1 DEF Cleared
    <3>2. CASE UNCHANGED registered /\ (shared => ~sockfd)
      BY <1>1, <2>2, <3>0, <3>2 DEF Cleared
    <3> QED
      BY <2>3, <3>1, <3>2
  <2> QED
    BY <1>1, <2>2, <2>5, <2>6, <2>7, QuietStep, CrewShrinks
<1>7. CASE CloseCancel(c) /\ ~Cancel(c, "closing", "del")
  <2> DEFINE s == IF sockfd THEN "close" ELSE "clear"
  <2>1. /\ pc[c] = "closing" /\ ~(sockfd /\ fdctx) /\ pc' = [pc EXCEPT ![c] = s]
        /\ UNCHANGED <<sockfd, open, fdctx, bound, registered>>
    BY <1>7 DEF CloseCancel, Go, socket
  <2> HIDE DEF s
  <2>2. /\ \A u \in Tasks : pc'[u] = IF u = c THEN s ELSE pc[u]
        /\ \A u \in Tasks : AtWork(u)' => AtWork(u)
        /\ \A u \in Tasks : Running(u)' => Running(u)
    BY <1>2, <2>1, OneMoves
  <2>3. Cleared'
    BY <1>1, <2>1, <2>2 DEF Cleared, s
  <2>4. \A d \in Closers : pc[d] = "clear" => pc'[d] = "clear"
    BY <2>1, <2>2
  <2> QED
    BY <1>1, <2>1, <2>2, <2>3, <2>4, QuietStep, CrewShrinks
<1>5. CASE CloseFd(c)
  <2>1. /\ pc[c] = "close" /\ pc' = [pc EXCEPT ![c] = "clear"] /\ ~open' /\ ~sockfd'
        /\ UNCHANGED <<bound, registered>>
    BY <1>5 DEF CloseFd, Go
  <2>2. /\ \A u \in Tasks : pc'[u] = IF u = c THEN "clear" ELSE pc[u]
        /\ \A u \in Tasks : AtWork(u)' => AtWork(u)
        /\ \A u \in Tasks : Running(u)' => Running(u)
    BY <1>2, <2>1, OneMoves
  <2>3. Cleared'
    BY <1>1, <1>5, <2>1 DEF Cleared, CloseFd
  <2>4. Rounds'
    <3> SUFFICES ASSUME Round, ~overlap' PROVE Round'
      BY <1>1 DEF Rounds
    <3>1. isStop' \/ user' = "stop"
      BY <1>1, <1>2 DEF Round
    <3>2. pc'[c] = "clear"
      BY <2>2
    <3> QED
      BY <1>1, <2>1, <2>2, <3>1, <3>2 DEF Round
  <2> QED
    BY <1>1, <2>2, <2>3, <2>4, CrewShrinks
<1>6. CASE Clear(c)
  <2>1. /\ pc' = [pc EXCEPT ![c] = "ended"] /\ bound' = FALSE
        /\ UNCHANGED <<open, sockfd, fdctx, registered>> /\ pc[c] = "clear"
    BY <1>6 DEF Clear, Go, socket
  <2>2. /\ \A u \in Tasks : pc'[u] = IF u = c THEN "ended" ELSE pc[u]
        /\ \A u \in Tasks : AtWork(u)' => AtWork(u)
        /\ \A u \in Tasks : Running(u)' => Running(u)
    BY <1>2, <2>1, OneMoves
  <2>3. Cleared'
    BY <1>1, <2>1, <2>2, QuietSocket
  <2>4. Rounds'
    BY <1>1, <2>1, <2>2 DEF Rounds, Round
  <2> QED
    BY <1>1, <2>2, <2>3, <2>4, CrewShrinks
<1> QED
  BY <1>3, <1>4, <1>5, <1>6, <1>7 DEF CloserStep

(* Every step keeps it. *)
LEMMA NextKeepsIInv ==
  ASSUME IInv, [Next]_vars
  PROVE  IInv'
<1> USE DEF IInv
<1>1. Base'
  BY NextKeepsBase
<1>2. CASE Start \/ StartLoops \/ Stop \/ StopFlag \/ Connect \/ UNCHANGED vars
  BY <1>1, <1>2, UserKeepsRest
<1>3. ASSUME NEW m \in Managers, Run(m) PROVE IInv'
  <2>1. PICK t \in Tasks, s \in {"accept", "check", "list"} :
          /\ pc[t] \in {"queued", "woken"} /\ ManagerOf(t) = m
          /\ pc' = [pc EXCEPT ![t] = s]
    BY <1>3, RunKeepsBase
  <2>2. /\ UNCHANGED <<shared, threads, isStop, user, open, bound, aborted, overlap, sockfd, fdctx,
                       late, registered>>
        /\ Free(m)
    BY <1>3 DEF Run, scene, socket, ghosts
  <2>3. /\ \A u \in Tasks : pc'[u] = IF u = t THEN s ELSE pc[u]
        /\ \A u \in Tasks : AtWork(u)' => AtWork(u)
    BY <2>1, OneMoves DEF Base
  <2>4. /\ \A u \in Tasks : Running(u)' => Running(u) \/ u = t
        /\ \A c \in Closers : pc[c] = "clear" => pc'[c] = "clear"
        /\ \A c \in Closers : pc'[c] \in {"del", "close"} => pc[c] \in {"del", "close"}
        /\ \A c \in Closers : pc[c] = "close" => pc'[c] = "close"
    BY <2>1, <2>3 DEF Running, AtWork, Tasks
  <2> QED
    BY <1>1, <2>1, <2>2, <2>3, <2>4, QuietStep, QuietSocket, RunKeepsCrew DEF Base
<1>4. CASE Dispatch
  <2>1. /\ registered \in Loops /\ pc[registered] = "waiting" /\ registered' = None
        /\ pc' = [pc EXCEPT ![registered] = "woken"]
    BY <1>4 DEF Dispatch, Trigger, Base, Types, Watched
  <2>2. /\ UNCHANGED <<shared, threads, isStop, user, open, bound, aborted, overlap, sockfd, fdctx, late>>
        /\ threads \in Nat
    BY <1>4 DEF Dispatch, scene, socket, ghosts, Base, Types
  <2>3. /\ \A u \in Tasks : pc'[u] = IF u = registered THEN "woken" ELSE pc[u]
        /\ \A u \in Tasks : AtWork(u)' => AtWork(u)
        /\ \A u \in Tasks : Running(u)' => Running(u)
    BY <2>1, OneMoves DEF Base, Tasks
  <2>4. \A c \in Closers : pc'[c] = pc[c]
    BY <2>1, <2>3, TcpServerAssumption DEF Tasks
  <2> QED
    BY <1>1, <2>1, <2>2, <2>3, <2>4, QuietStep, QuietSocket, CrewShrinks
<1> QED
  BY <1>1, <1>2, <1>3, <1>4, LoopKeepsRest, CloserKeepsRest DEF Next

(* It holds before start() is first called. *)
LEMMA InitIInv ==
  ASSUME Init
  PROVE  IInv
<1> USE TcpServerAssumption DEF Init, Tasks
<1>1. Types
  <2>1. "none" \in LoopPc /\ "none" \in CloserPc
    BY DEF LoopPc, CloserPc
  <2>2. threads \in Nat \ {0} /\ registered \in Loops \union {None}
    OBVIOUS
  <2>3. \A t \in Tasks : pc[t] = "none"
    OBVIOUS
  <2>4. pc \in [Tasks -> LoopPc \union CloserPc]
    BY <2>1
  <2>5. queue \in [Managers -> Seq(Tasks)]
    OBVIOUS
  <2> QED
    BY <2>1, <2>2, <2>3, <2>4, <2>5 DEF Types
<1>2. Queues /\ Watched
  BY DEF Queues, Watched
<1>3. Round /\ Cleared
  BY DEF Round, Cleared, AtWork
<1>4. Crew
  <2> SUFFICES ASSUME NEW m \in Managers PROVE Cardinality(Crowd(m)) <= threads
    BY DEF Crew
  <2>1. Crowd(m) = {}
    BY DEF Crowd, Running, AtWork
  <2> QED
    BY <1>1, <2>1, FS_EmptySet DEF Types
<1> QED
  BY <1>1, <1>2, <1>3, <1>4 DEF IInv, Base, Rounds

(* The inductive invariant is one. *)
THEOREM Steady == Spec => []IInv
<1> QED
  BY InitIInv, NextKeepsIInv, PTL DEF Spec

(* NoSpinNoAbort of TcpServer: with calls that let each other take effect, *)
(* no loop spins on the closed socket and addEvent() never finds the event *)
(* taken (startAccept(), tcp_server.cpp:82; stop(), tcp_server.cpp:98).    *)
THEOREM CleanRounds == Spec => []NoSpinNoAbort
<1>1. IInv => NoSpinNoAbort
  BY DEF IInv, Rounds, Round, NoSpinNoAbort, Running
<1> QED
  BY <1>1, Steady, PTL

(* StrandedHasCause of TcpServer: what leaves a loop waiting on the closed *)
(* descriptor is a stop() that works on another manager, or a registration *)
(* between close()'s cancelAll() and its close_f(), by a loop on another   *)
(* thread (hook.cpp:381).                                                  *)
THEOREM StrandedOnlyBy == Spec => []StrandedHasCause
<1>1. IInv => StrandedHasCause
  BY DEF IInv, Base, Watched, Cleared, StrandedHasCause
<1> QED
  BY <1>1, Steady, PTL
=============================================================================
