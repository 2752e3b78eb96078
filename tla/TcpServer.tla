----------------------------- MODULE TcpServer -----------------------------
(***************************************************************************)
(* TcpServer of src/src/TcpServer with the listening socket of             *)
(* src/src/Socket and the hooked accept() and close() of src/src/Hook: the *)
(* accept loops of start(), the closing task of stop(), and a user's       *)
(* thread that calls start() and stop() again and again.                   *)
(*                                                                         *)
(* Loops and closing tasks are coroutines of the manager they were         *)
(* scheduled with; a manager runs as many at once as it has threads, and   *)
(* takes them in the order of its queue.  One socket is bound; its number  *)
(* is not given to anybody else after close() (Hook models that).  That a  *)
(* coroutine is woken between addEvent() and its yield is Scheduler's      *)
(* matter: registering and yielding are one step here.                     *)
(***************************************************************************)
EXTENDS Naturals, Sequences, FiniteSets

CONSTANTS
  Loops,       \* coroutines of startAccept()
  Closers,     \* coroutines of the task that stop() schedules
  Threads,     \* numbers of threads a manager may have
  None,
  MaxClients   \* bound: clients that connect

ASSUME TcpServerAssumption ==
  /\ IsFiniteSet(Loops) /\ IsFiniteSet(Closers) /\ Loops \cap Closers = {}
  /\ Loops # {} /\ Closers # {} /\ None \notin Loops \union Closers
  /\ Threads \subseteq Nat \ {0} /\ MaxClients \in Nat

Tasks == Loops \union Closers
Managers == {"worker", "accept"}

VARIABLES
  shared,      \* m_worker and m_accept are one manager
  threads,     \* threads of each manager
  isStop,      \* m_isStop
  bound,       \* m_socks holds the socket
  sockfd,      \* m_sockfd of the socket is not -1
  open,        \* the descriptor is open in the kernel
  fdctx,       \* FdMng holds the context of the descriptor
  backlog,     \* connections the kernel has for accept()
  registered,  \* the loop whose READ event the worker's epoll watches
  pc,          \* where each task stands
  hooked,      \* the accept() in progress has found the context
  queue,       \* per manager: tasks to be run
  user,        \* inside start(), stop() or outside
  arrived,     \* clients so far
  aborted,     \* the assertion of addEvent() has failed
  late,        \* loops that registered between the cancelAll() of close() and its end
  overlap      \* start() was called while a loop or closing task of before was at work

vars == <<shared, threads, isStop, bound, sockfd, open, fdctx, backlog, registered, pc, hooked,
          queue, user, arrived, aborted, late, overlap>>
scene == <<shared, threads>>
socket == <<sockfd, open, fdctx, backlog>>
ghosts == <<arrived, aborted, late, overlap>>

ManagerOf(t) == IF t \in Closers /\ ~shared THEN "accept" ELSE "worker"
AtWork(t) == pc[t] \notin {"none", "ended"}
Running(t) == AtWork(t) /\ pc[t] \notin {"queued", "waiting", "woken"}
Free(m) == Cardinality({t \in Tasks : ManagerOf(t) = m /\ Running(t)}) < threads
Unused(S) == {t \in S : pc[t] = "none"}

Init ==
  /\ shared \in BOOLEAN /\ threads \in Threads
  /\ isStop = TRUE /\ bound = TRUE
  /\ sockfd = TRUE /\ open = TRUE /\ fdctx = TRUE /\ backlog = 0
  /\ registered = None
  /\ pc = [t \in Tasks |-> "none"] /\ hooked = [l \in Loops |-> FALSE]
  /\ queue = [m \in Managers |-> <<>>]
  /\ user = "outside"
  /\ arrived = 0 /\ aborted = FALSE /\ late = {} /\ overlap = FALSE

Push(t) == queue' = [queue EXCEPT ![ManagerOf(t)] = Append(@, t)]

(***************************************************************************)
(* The user.                                                               *)
(***************************************************************************)
Start ==
  /\ user = "outside" /\ isStop
  /\ Unused(Loops) # {} /\ Unused(Closers) # {}
  /\ isStop' = FALSE /\ user' = "start"
  /\ overlap' = (overlap \/ \E t \in Tasks : AtWork(t))
  /\ UNCHANGED <<scene, bound, socket, registered, pc, hooked, queue, arrived, aborted, late>>

StartLoops ==
  /\ user = "start"
  /\ IF bound
     THEN \E l \in Unused(Loops) : pc' = [pc EXCEPT ![l] = "queued"] /\ Push(l)
     ELSE UNCHANGED <<pc, queue>>
  /\ user' = "outside"
  /\ UNCHANGED <<scene, isStop, bound, socket, registered, hooked, ghosts>>

(* Mutant of Stop: nobody closes the socket. *)
StopLeavesOpen ==
  /\ user = "outside" /\ ~isStop
  /\ user' = "stop"
  /\ UNCHANGED <<scene, isStop, bound, socket, registered, pc, hooked, queue, ghosts>>

Stop ==
  /\ user = "outside" /\ ~isStop
  /\ \E c \in Unused(Closers) : pc' = [pc EXCEPT ![c] = "queued"] /\ Push(c)
  /\ user' = "stop"
  /\ UNCHANGED <<scene, isStop, bound, socket, registered, hooked, ghosts>>

(* Mutant of StopFlag: stop() does not say so. *)
StopFlagForgets ==
  /\ user = "stop" /\ user' = "outside"
  /\ UNCHANGED <<scene, isStop, bound, socket, registered, pc, hooked, queue, ghosts>>

StopFlag ==
  /\ user = "stop"
  /\ isStop' = TRUE /\ user' = "outside"
  /\ UNCHANGED <<scene, bound, socket, registered, pc, hooked, queue, ghosts>>

(***************************************************************************)
(* The managers: a free thread takes the first task of the queue, or the   *)
(* event of a connection.                                                  *)
(***************************************************************************)
Run(m) ==
  /\ queue[m] # <<>> /\ Free(m)
  /\ LET t == Head(queue[m])
     IN  pc' = [pc EXCEPT ![t] = IF @ = "woken" THEN "accept"
                                 ELSE IF t \in Loops THEN "check" ELSE "list"]
  /\ queue' = [queue EXCEPT ![m] = Tail(@)]
  /\ UNCHANGED <<scene, isStop, bound, socket, registered, hooked, user, ghosts>>

\* triggerEvent() of the registered loop, if there is one.
Trigger ==
  IF registered = None THEN UNCHANGED <<registered, pc, queue>>
  ELSE /\ pc' = [pc EXCEPT ![registered] = "woken"]
       /\ Push(registered) /\ registered' = None

Dispatch ==
  /\ registered # None /\ open /\ backlog > 0 /\ Free("worker")
  /\ Trigger
  /\ UNCHANGED <<scene, isStop, bound, socket, hooked, user, ghosts>>

Connect ==
  /\ open /\ arrived < MaxClients
  /\ backlog' = backlog + 1 /\ arrived' = arrived + 1
  /\ UNCHANGED <<scene, isStop, bound, sockfd, open, fdctx, registered, pc, hooked, queue, user,
                 aborted, late, overlap>>

(***************************************************************************)
(* An accept loop.                                                         *)
(***************************************************************************)
\* while (!m_isStop), and do_io() up to its first system call.
Check(l) ==
  /\ pc[l] = "check"
  /\ pc' = [pc EXCEPT ![l] = IF isStop THEN "ended" ELSE "accept"]
  /\ hooked' = [hooked EXCEPT ![l] = ~isStop /\ sockfd /\ fdctx]
  /\ UNCHANGED <<scene, isStop, bound, socket, registered, queue, user, ghosts>>

(* Mutant of Accept: the loop ends with its first connection. *)
AcceptOnce(l) ==
  /\ pc[l] = "accept"
  /\ \/ /\ open /\ backlog > 0
        /\ backlog' = backlog - 1
        /\ pc' = [pc EXCEPT ![l] = "ended"]
     \/ /\ open /\ backlog = 0
        /\ pc' = [pc EXCEPT ![l] = IF hooked[l] THEN "add" ELSE "check"]
        /\ UNCHANGED backlog
     \/ /\ ~open
        /\ pc' = [pc EXCEPT ![l] = "check"]
        /\ UNCHANGED backlog
  /\ UNCHANGED <<scene, isStop, bound, sockfd, open, fdctx, registered, hooked, queue, user, ghosts>>

\* accept_f(): a connection, nothing yet (EAGAIN) or a closed descriptor (EBADF).
Accept(l) ==
  /\ pc[l] = "accept"
  /\ \/ /\ open /\ backlog > 0
        /\ backlog' = backlog - 1
        /\ pc' = [pc EXCEPT ![l] = "check"]
     \/ /\ open /\ backlog = 0
        /\ pc' = [pc EXCEPT ![l] = IF hooked[l] THEN "add" ELSE "check"]
        /\ UNCHANGED backlog
     \/ /\ ~open
        /\ pc' = [pc EXCEPT ![l] = "check"]
        /\ UNCHANGED backlog
  /\ UNCHANGED <<scene, isStop, bound, sockfd, open, fdctx, registered, hooked, queue, user, ghosts>>

\* close() has done its cancelAll() and not yet closed the descriptor.
Closing == open /\ \E c \in Closers : pc[c] \in {"del", "close"}

\* addEvent() and the yield: it asserts that nobody has registered, and fails on a
\* descriptor that is closed.
Add(l) ==
  /\ pc[l] = "add"
  /\ IF registered # None
     THEN aborted' = TRUE /\ UNCHANGED <<registered, pc, late>>
     ELSE /\ pc' = [pc EXCEPT ![l] = IF open THEN "waiting" ELSE "check"]
          /\ registered' = IF open THEN l ELSE None
          /\ late' = IF Closing THEN late \union {l} ELSE late
          /\ UNCHANGED aborted
  /\ UNCHANGED <<scene, isStop, bound, socket, hooked, queue, user, arrived, overlap>>

LoopStep(l) == Check(l) \/ Accept(l) \/ Add(l)

(***************************************************************************)
(* The closing task: for every socket of m_socks cancelAll() and close(),  *)
(* the latter cancelAll(), del() and close_f(); then clear().              *)
(***************************************************************************)
Go(c, to) == pc' = [pc EXCEPT ![c] = to]

List(c) ==
  /\ pc[c] = "list"
  /\ Go(c, IF bound THEN "cancel" ELSE "ended")
  /\ UNCHANGED <<scene, isStop, bound, socket, registered, hooked, queue, user, ghosts>>

\* cancelAll() of the manager this task runs on: it knows the loop's registration only
\* if that was made there, and no socket by the number -1.
Cancel(c, from, to) ==
  /\ pc[c] = from
  /\ IF shared /\ sockfd /\ registered # None
     THEN /\ pc' = [pc EXCEPT ![c] = to, ![registered] = "woken"]
          /\ Push(registered) /\ registered' = None
     ELSE Go(c, to) /\ UNCHANGED <<registered, queue>>
  /\ UNCHANGED <<scene, isStop, bound, socket, hooked, user, ghosts>>

CancelAll(c) == Cancel(c, "cancel", "closing")

(* Mutant of CloseCancel: close() relies on the cancelAll() of before. *)
CloseCancelsNothing(c) ==
  /\ pc[c] = "closing" /\ Go(c, "del")
  /\ UNCHANGED <<scene, isStop, bound, socket, registered, hooked, queue, user, ghosts>>

\* close() of the socket and of the descriptor: nothing to close when the number is -1,
\* and no cancelAll() and del() when another close() has already taken the context.
CloseCancel(c) ==
  \/ sockfd /\ fdctx /\ Cancel(c, "closing", "del")
  \/ /\ pc[c] = "closing" /\ ~(sockfd /\ fdctx)
     /\ Go(c, IF sockfd THEN "close" ELSE "clear")
     /\ UNCHANGED <<scene, isStop, bound, socket, registered, hooked, queue, user, ghosts>>

Del(c) ==
  /\ pc[c] = "del" /\ Go(c, "close")
  /\ fdctx' = FALSE
  /\ UNCHANGED <<scene, isStop, bound, sockfd, open, backlog, registered, hooked, queue, user, ghosts>>

\* close_f(): the connections that wait are gone; what epoll watched it forgets.
CloseFd(c) ==
  /\ pc[c] = "close" /\ Go(c, "clear")
  /\ open' = FALSE /\ sockfd' = FALSE /\ backlog' = 0
  /\ UNCHANGED <<scene, isStop, bound, fdctx, registered, hooked, queue, user, ghosts>>

Clear(c) ==
  /\ pc[c] = "clear" /\ Go(c, "ended")
  /\ bound' = FALSE
  /\ UNCHANGED <<scene, isStop, socket, registered, hooked, queue, user, ghosts>>

CloserStep(c) == List(c) \/ CancelAll(c) \/ CloseCancel(c) \/ Del(c) \/ CloseFd(c) \/ Clear(c)

Next ==
  /\ ~aborted
  /\ \/ Start \/ StartLoops \/ Stop \/ StopFlag
     \/ \E m \in Managers : Run(m)
     \/ Dispatch \/ Connect
     \/ \E l \in Loops : LoopStep(l)
     \/ \E c \in Closers : CloserStep(c)

\* A call of the user's returns, and a thread that has something to do does it.  Nobody
\* has to call or to connect.
Spec ==
  /\ Init /\ [][Next]_vars
  /\ WF_vars(~aborted /\ (StartLoops \/ StopFlag))
  /\ \A m \in Managers : WF_vars(~aborted /\ Run(m))
  /\ WF_vars(~aborted /\ Dispatch)
  /\ \A l \in Loops : WF_vars(~aborted /\ LoopStep(l))
  /\ \A c \in Closers : WF_vars(~aborted /\ CloserStep(c))

-----------------------------------------------------------------------------
(* stop() is meant to end the wait of a loop before its descriptor is      *)
(* closed under it (tcp_server.cpp:98).  A loop is left waiting on the     *)
(* closed descriptor, with no event, no timeout and no cancelAll() to come,*)
(* only when stop() works on another manager than start() did, or when the *)
(* loop, woken by the first cancelAll(), registers again after the second  *)
(* and before close_f(), for which it needs a thread of its own.           *)
StrandedHasCause ==
  \A l \in Loops :
    pc[l] = "waiting" /\ ~open => ~shared \/ (l \in late /\ threads > 1)

(* A loop that is at work on the closed socket and has not been told to    *)
(* stop calls accept() in vain without ever yielding its thread, and two   *)
(* loops on one socket trip over the assertion of addEvent(): neither      *)
(* happens outside the moments between stop()'s two statements, unless     *)
(* start() was called before the last stop() had its effect.               *)
NoSpinNoAbort ==
  aborted \/ (~isStop /\ ~open /\ \E l \in Loops : Running(l)) => user = "stop" \/ overlap

(* After stop(), when nobody calls start() any more, every loop ends and   *)
(* lets go of the server, the ones above that are stranded excepted.       *)
StopEndsLoops ==
  <>[]isStop => <>[](aborted \/ ~shared \/ \A l \in Loops : ~AtWork(l) \/ l \in late)

(* Every connection is accepted as long as the server is not stopped.      *)
ConnectionAccepted == backlog > 0 ~> backlog = 0 \/ isStop \/ aborted
=============================================================================
