------------------------------ MODULE TaskPool ------------------------------
(***************************************************************************)
(* What the scheduler promises, with no thread, queue or counter in it: a   *)
(* task that was handed in waits until it is run, one continuation at a     *)
(* time; it comes back to wait again, to be parked until somebody hands it  *)
(* in once more, or finished for good; and the pool closes only when no     *)
(* task is waiting or running.                                              *)
(***************************************************************************)
CONSTANT Task

VARIABLES
  status,  \* where each task is
  phase    \* "created", then "open" after start(), then "closed" for good

tpVars == <<status, phase>>

Set(c, s) == status' = [status EXCEPT ![c] = s] /\ UNCHANGED phase

Init ==
  /\ status = [c \in Task |-> "new"]
  /\ phase = "created"

Submit(c) == phase # "closed" /\ status[c] \in {"new", "parked"} /\ Set(c, "waiting")
Run(c)    == phase = "open" /\ status[c] = "waiting" /\ Set(c, "running")
Pause(c)  == \E s \in {"waiting", "parked", "done"} : status[c] = "running" /\ Set(c, s)

Open  == phase = "created" /\ phase' = "open" /\ UNCHANGED status
Close ==
  /\ phase = "open"
  /\ \A c \in Task : status[c] \notin {"waiting", "running"}
  /\ phase' = "closed"
  /\ UNCHANGED status

Next == Open \/ Close \/ \E c \in Task : Submit(c) \/ Run(c) \/ Pause(c)

Spec == Init /\ [][Next]_tpVars

(* No task waits for ever in an open pool. *)
Served ==
  \A c \in Task : status[c] = "waiting" /\ phase = "open" ~> status[c] # "waiting"
=============================================================================
