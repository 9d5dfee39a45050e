---------------------------- MODULE JobLifecycle ----------------------------
(***************************************************************************)
(* What the server promises about each job, whatever its coroutines do:    *)
(* the lifecycle of the job table.  A step of the server changes at most   *)
(* one job, along one of these edges; a finished job never changes; a job  *)
(* is handed to its agent at most MaxAttempts times, and only a job that   *)
(* used up its attempts can be given up.                                   *)
(*                                                                         *)
(* The table is the one of README.md ("Allowed transitions") corrected to  *)
(* what the code does: a DISPATCHED job may be cancelled, and giving up a  *)
(* job is an edge of its own, to GIVEN_UP: the FAILED a job gets without   *)
(* its agent having reported anything.                                     *)
(***************************************************************************)
EXTENDS Integers

CONSTANTS Job, MaxAttempts

VARIABLES state, attempts

lifecycle == <<state, attempts>>

Init ==
    /\ state = [j \in Job |-> "ABSENT"]
    /\ attempts = [j \in Job |-> 0]

Move(j, from, to) ==
    /\ state[j] \in from
    /\ state' = [state EXCEPT ![j] = to]

(* A client's request creates the job. *)
Submit(j) == Move(j, {"ABSENT"}, "PENDING") /\ UNCHANGED attempts

(* The job is handed to its agent once more. *)
Dispatch(j) ==
    /\ attempts[j] < MaxAttempts
    /\ Move(j, {"PENDING"}, "DISPATCHED")
    /\ attempts' = [attempts EXCEPT ![j] = @ + 1]

(* The agent took it up in time. *)
Start(j) == Move(j, {"DISPATCHED"}, "RUNNING") /\ UNCHANGED attempts

(* It did not, and attempts are left. *)
GiveBack(j) ==
    /\ attempts[j] < MaxAttempts
    /\ Move(j, {"DISPATCHED"}, "PENDING")
    /\ UNCHANGED attempts

(* It did not, and no attempt is left. *)
GiveUp(j) ==
    /\ attempts[j] = MaxAttempts
    /\ Move(j, {"DISPATCHED", "RUNNING"}, "GIVEN_UP")
    /\ UNCHANGED attempts

(* The agent reported how the container ended. *)
Finish(j) ==
    /\ \/ Move(j, {"RUNNING"}, "SUCCEEDED")
       \/ Move(j, {"RUNNING"}, "FAILED")
    /\ UNCHANGED attempts

Expire(j) == Move(j, {"RUNNING"}, "TIMED_OUT") /\ UNCHANGED attempts

Cancel(j) ==
    /\ Move(j, {"PENDING", "DISPATCHED", "RUNNING"}, "CANCELLED")
    /\ UNCHANGED attempts

JobStep(j) ==
    \/ Submit(j)   \/ Dispatch(j) \/ Start(j)  \/ GiveBack(j)
    \/ GiveUp(j)   \/ Finish(j)   \/ Expire(j) \/ Cancel(j)

Next == \E j \in Job : JobStep(j)

Spec == Init /\ [][Next]_lifecycle
=============================================================================
