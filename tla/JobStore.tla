------------------------------ MODULE JobStore ------------------------------
(***************************************************************************)
(* One row of the "jobs" table and what JobService, through the SQLite     *)
(* repository, does to it.                                                 *)
(*                                                                         *)
(* Every operator maps the row as one statement (or one get-then-save      *)
(* without an await in between) finds it to the row it leaves behind.  The *)
(* server is one asyncio thread, so each of them is atomic.                *)
(*                                                                         *)
(* Abstractions: image, command, metadata, stdout, stderr, updated_at and  *)
(* correlation_id decide no transition and are left out; created_at is the *)
(* rank of the insertion; started_at and finished_at are set or not set.   *)
(***************************************************************************)
EXTENDS Integers

CONSTANTS
    Agent,        \* the agent ids jobs are submitted for
    Key,          \* the idempotency keys clients use
    Priority,     \* the values of "priority" (0 is dispatched first)
    Nil           \* Python's None

ASSUME StoreAssumption ==
    /\ Priority \subseteq Nat
    /\ Nil \notin Agent \cup Key \cup Int \cup {"reported", "no_ack"}

TerminalState == {"SUCCEEDED", "FAILED", "TIMED_OUT", "CANCELLED"}

LiveState == {"PENDING", "DISPATCHED", "RUNNING"}

(* "ABSENT" stands for a job id no row of the table has. *)
JobState == {"ABSENT"} \cup LiveState \cup TerminalState

IsTerminal(state) == state \in TerminalState

(* error: none, the agent's text, or the AckWatcher's "No ack after ...". *)
JobRow ==
    [ state    : JobState,
      agent    : Agent \cup {Nil},
      priority : Nat,
      created  : Nat,
      key      : Key \cup {Nil},
      attempts : Nat,
      exit     : Int \cup {Nil},
      error    : {Nil, "reported", "no_ack"},
      started  : BOOLEAN,
      finished : BOOLEAN ]

NoRow ==
    [ state |-> "ABSENT", agent |-> Nil, priority |-> 0, created |-> 0,
      key |-> Nil, attempts |-> 0, exit |-> Nil, error |-> Nil,
      started |-> FALSE, finished |-> FALSE ]

(* The row a new Job is inserted as. *)
NewRow(agent, priority, key, created) ==
    [NoRow EXCEPT !.state = "PENDING", !.agent = agent, !.priority = priority,
                  !.key = key, !.created = created]

-----------------------------------------------------------------------------
(* repository.transition_if: compare-and-swap on the state column. *)
TransitionIf(row, expected, new) ==
    IF row.state = expected
    THEN [row EXCEPT !.state    = new,
                     !.started  = row.started \/ new = "RUNNING",
                     !.finished = row.finished \/ IsTerminal(new)]
    ELSE row

(* Mutant: a result is also accepted before the job was started. *)
CompleteIfDispatched(row, new, exit, error) ==
    IF row.state \in {"DISPATCHED", "RUNNING"}
    THEN [row EXCEPT !.state = new, !.exit = exit, !.error = error,
                     !.finished = TRUE]
    ELSE row

(* Mutant: a late result overwrites a timeout. *)
CompleteIfTimedOut(row, new, exit, error) ==
    IF row.state \in {"RUNNING", "TIMED_OUT"}
    THEN [row EXCEPT !.state = new, !.exit = exit, !.error = error,
                     !.finished = TRUE]
    ELSE row

(* repository.complete_if_running: store a result, only while RUNNING. *)
CompleteIfRunning(row, new, exit, error) ==
    IF row.state = "RUNNING"
    THEN [row EXCEPT !.state = new, !.exit = exit, !.error = error,
                     !.finished = TRUE]
    ELSE row

-----------------------------------------------------------------------------
(* job_service.mark_dispatched_with_attempt: get, test, save. *)
MarkDispatchedWithAttempt(row) ==
    IF row.state = "PENDING"
    THEN [row EXCEPT !.state = "DISPATCHED", !.attempts = row.attempts + 1]
    ELSE row

(* Mutant: "started" may overtake the bookkeeping of the send. *)
MarkRunningEarly(row) ==
    IF row.state = "PENDING" THEN TransitionIf(row, "PENDING", "RUNNING")
    ELSE TransitionIf(row, "DISPATCHED", "RUNNING")

(* job_service.mark_running *)
MarkRunning(row) == TransitionIf(row, "DISPATCHED", "RUNNING")

(* job_service.mark_succeeded *)
MarkSucceeded(row, exit) == CompleteIfRunning(row, "SUCCEEDED", exit, Nil)

(* job_service.mark_failed *)
MarkFailed(row, exit, error) == CompleteIfRunning(row, "FAILED", exit, error)

(* job_service.mark_timed_out *)
MarkTimedOut(row) == TransitionIf(row, "RUNNING", "TIMED_OUT")

(* Mutant: only a running job can be cancelled. *)
MarkCancelledRunning(row) == TransitionIf(row, "RUNNING", "CANCELLED")

(* job_service.mark_cancelled: from whatever live state the row is in. *)
MarkCancelled(row) ==
    IF IsTerminal(row.state) THEN row
    ELSE TransitionIf(row, row.state, "CANCELLED")

(* Mutant: the wrong expected state. *)
RequeueRunning(row) == TransitionIf(row, "RUNNING", "PENDING")

(* job_service.requeue; dispatch_attempts is kept. *)
Requeue(row) == TransitionIf(row, "DISPATCHED", "PENDING")

(* job_service.fail_stale_dispatch: unlike the others it accepts any live  *)
(* state, PENDING and RUNNING included.                                    *)
FailStaleDispatch(row) ==
    IF IsTerminal(row.state) THEN row
    ELSE [row EXCEPT !.state = "FAILED", !.exit = 1, !.error = "no_ack",
                     !.finished = TRUE]
=============================================================================
