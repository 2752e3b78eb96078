----------------------------- MODULE MCTimerMng -----------------------------
(* Small instances of TimerMng for TLC; every property is a safety property
   and treats the pollers, and the timers, alike. *)
EXTENDS TimerMng, TLC

Symmetry == Permutations(Poller) \cup Permutations(Timer)
=============================================================================
