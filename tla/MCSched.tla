------------------------------- MODULE MCSched -------------------------------
(* Sched for TLC: the tasks other than the idle one are interchangeable. *)
EXTENDS Sched, TLC

Symm == Permutations(Tasks \ {Idle})

\* Where the properties of SchedLive.cfg go on saying something: each of them is
\* satisfied by a behaviour as soon as a tick has landed inside enqueue_ready_task.
Whole == ~torn
=============================================================================
