----------------------------- MODULE JobRecords -----------------------------
(***************************************************************************)
(* What is kept beside the job table of ControlPlane.                      *)
(*                                                                         *)
(* The audit trail: after its statement on the row, every caller appends   *)
(* an event to job_events with a statement of its own.  No await lies      *)
(* between the two, so only the death of the process parts them.  The      *)
(* rows of job_events are represented by what a careful reader makes of    *)
(* them: "trail" holds the state and attempts it has come to.              *)
(*                                                                         *)
(* The in-memory repository, which the tests put in the place of SQLite:   *)
(* "mem" is the table it has after the same calls.  It hands out its Job   *)
(* objects, so who keeps one across an await sees it change; and it starts *)
(* empty.                                                                  *)
(***************************************************************************)
EXTENDS ControlPlane

VARIABLES
    trail,     \* per job: what its events so far tell
    lost,      \* history: jobs whose event was lost in a crash
    mem,       \* InMemoryJobRepository._jobs
    index      \* InMemoryJobRepository._idempotency

records == <<trail, lost, mem, index>>

RecordsInit ==
    /\ Init
    /\ trail = [j \in Job |-> [state |-> "ABSENT", attempts |-> 0]]
    /\ lost = {}
    /\ mem = [j \in Job |-> NoRow]
    /\ index = [k \in Key |-> Nil]

-----------------------------------------------------------------------------
(* The audit trail.                                                        *)

(* To a reader who may have missed events, any state that is not final. *)
Unfinished == JobState \ TerminalState

(* An event that carries no state is read as the transition of its caller, *)
(* which did nothing if the job was elsewhere: events are also appended    *)
(* after a statement that changed no row.                                  *)
Meaning ==
    [ submitted  |-> [from |-> {"ABSENT"},     to |-> "PENDING"],
      dispatched |-> [from |-> {"PENDING"},    to |-> "DISPATCHED"],
      requeued   |-> [from |-> {"DISPATCHED"}, to |-> "PENDING"],
      failed     |-> [from |-> Unfinished,     to |-> "FAILED"],
      timed_out  |-> [from |-> Unfinished,     to |-> "TIMED_OUT"],
      cancelled  |-> [from |-> Unfinished,     to |-> "CANCELLED"] ]

(* The events "started" and "result" carry the state, and "dispatched" the *)
(* attempts, that the statement left in the row.                           *)
Read(told, event, row) ==
    IF event \notin DOMAIN Meaning THEN [told EXCEPT !.state = row.state]
    ELSE IF told.state \notin Meaning[event].from THEN told
    ELSE [state    |-> Meaning[event].to,
          attempts |-> IF event = "dispatched" THEN row.attempts ELSE told.attempts]

AppendEvent(j, event) ==
    trail' = [trail EXCEPT ![j] = Read(@, event, jobs'[j])] /\ UNCHANGED lost

-----------------------------------------------------------------------------
(* The in-memory repository, and JobService over it.                       *)

MemoryTransitionIf(row, expected, new) ==
    CASE row.state # expected -> row
      [] row.state = expected /\ new = "RUNNING" ->
             [row EXCEPT !.state = new, !.started = TRUE]
      [] row.state = expected /\ IsTerminal(new) ->
             [row EXCEPT !.state = new, !.finished = TRUE]
      [] OTHER -> [row EXCEPT !.state = new]

(* Mutant: only a job that has finished keeps its outcome. *)
MemoryCompleteUnlessFinished(row, new, exit, error) ==
    IF IsTerminal(row.state) THEN row
    ELSE [row EXCEPT !.exit = exit, !.error = error, !.state = new, !.finished = TRUE]

MemoryCompleteIfRunning(row, new, exit, error) ==
    IF row.state # "RUNNING" THEN row
    ELSE [row EXCEPT !.exit = exit, !.error = error, !.state = new, !.finished = TRUE]

(* What JobService's statement before the event does to the Job object. *)
InMemory(row, event) ==
    IF row.state = "ABSENT" THEN row ELSE
    CASE event = "dispatched" ->
             IF row.state # "PENDING" THEN row
             ELSE [row EXCEPT !.state = "DISPATCHED", !.attempts = @ + 1]
      [] event = "started"   -> MemoryTransitionIf(row, "DISPATCHED", "RUNNING")
      [] event = "exit 0"    -> MemoryCompleteIfRunning(row, "SUCCEEDED", 0, Nil)
      [] event = "exit 1"    -> MemoryCompleteIfRunning(row, "FAILED", 1, Nil)
      [] event = "error"     -> MemoryCompleteIfRunning(row, "FAILED", 1, "reported")
      [] event = "timed_out" -> MemoryTransitionIf(row, "RUNNING", "TIMED_OUT")
      [] event = "requeued"  -> MemoryTransitionIf(row, "DISPATCHED", "PENDING")
      [] event = "cancelled" ->
             IF IsTerminal(row.state) THEN row
             ELSE MemoryTransitionIf(row, row.state, "CANCELLED")
      [] event = "failed"    ->
             IF IsTerminal(row.state) THEN row
             ELSE [row EXCEPT !.state = "FAILED", !.exit = 1, !.error = "no_ack",
                              !.finished = TRUE]

Memory(j, event) ==
    mem' = [mem EXCEPT ![j] = InMemory(@, event)] /\ UNCHANGED index

(* add *)
MemoryAdd(r, a, p, k) ==
    IF k # Nil /\ index[k] # Nil THEN UNCHANGED <<mem, index>>
    ELSE /\ mem' = [mem EXCEPT ![r] = NewRow(a, p, k, clock)]
         /\ index' = [x \in Key |-> IF x = k THEN r ELSE index[x]]

(* The keys of a table. *)
IndexOf(table) ==
    [k \in Key |-> IF \E j \in Job : table[j].key = k
                   THEN CHOOSE j \in Job : table[j].key = k ELSE Nil]

(* A new process starts with an empty memory. *)
MemoryStartsEmpty ==
    mem' = [j \in Job |-> NoRow] /\ index' = [k \in Key |-> Nil]

-----------------------------------------------------------------------------
(* The steps of ControlPlane that make a statement and append its event.   *)

Recorded(j, event) == AppendEvent(j, event) /\ Memory(j, event)

(* submit_job: a repeated key gives one more event to the job it names. *)
RecordedSubmit(r, a, p, k) ==
    /\ Submit(r, a, p, k)
    /\ \E j \in Job :
          /\ IF KeyOwner(k) = {} THEN j = r ELSE j \in KeyOwner(k)
          /\ AppendEvent(j, "submitted")
    /\ MemoryAdd(r, a, p, k)

(* The event is appended once the send has succeeded. *)
RecordedDispatch(t) ==
    /\ DispatchReturn(t)
    /\ IF inflight' # inflight THEN Recorded(disp[t].job, "dispatched")
       ELSE UNCHANGED records

(* _on_result: a result event tells the state that the statement left. *)
RecordedResult(c, j, report) == Result(c, j, report) /\ Recorded(j, report)

(* Mutant: the event is appended when the cancel is asked for. *)
RecordedCancelEarly(j) ==
    \/ CancelRequest(j) /\ AppendEvent(j, "cancelled")
       /\ IF j \in cancelling' THEN UNCHANGED <<mem, index>> ELSE Memory(j, "cancelled")
    \/ CancelReturn(j) /\ UNCHANGED <<trail, lost>> /\ Memory(j, "cancelled")

(* cancel_job: after the await, if there is one. *)
RecordedCancel(j) ==
    /\ CancelRequest(j) \/ CancelReturn(j)
    /\ IF j \in cancelling' THEN UNCHANGED records ELSE Recorded(j, "cancelled")

AckEvent(attempts) == IF Exhausted(attempts) THEN "failed" ELSE "requeued"

(* The scan over the in-memory repository.  It computes the age of a row   *)
(* when it comes to it, from the live object: every change since the scan  *)
(* renewed updated_at, and (only the watcher leads back to DISPATCHED) the *)
(* row is unchanged exactly if it is DISPATCHED.  The attempts it decides  *)
(* on are those of the live object too.                                    *)
MemoryAck(j) ==
    IF mem[j].state = "DISPATCHED" THEN Memory(j, AckEvent(mem[j].attempts))
    ELSE UNCHANGED <<mem, index>>

(* Mutant: only giving up is recorded. *)
RecordedAckFailure ==
    /\ AckNext
    /\ \E j \in AckBacklog :
          /\ ackDue'[j] = 0
          /\ MemoryAck(j)
          /\ IF Exhausted(ackDue[j]) THEN AppendEvent(j, "failed")
             ELSE UNCHANGED <<trail, lost>>

(* _scan's loop and _on_ack_timeout. *)
RecordedAck ==
    /\ AckNext
    /\ \E j \in AckBacklog :
          /\ ackDue'[j] = 0
          /\ AppendEvent(j, AckEvent(ackDue[j]))
          /\ MemoryAck(j)

(* _fire: after the await, if there is one. *)
RecordedTimeout ==
    \/ /\ TimeoutNext
       /\ \E j \in expired \ expired' :
             IF firing' = j THEN UNCHANGED records ELSE Recorded(j, "timed_out")
    \/ Calm /\ TimeoutReturn /\ Recorded(firing, "timed_out")

-----------------------------------------------------------------------------
(* The process dies between the statement that leaves row in the table and *)
(* its event.                                                              *)
DiesAfter(j, row) ==
    /\ row # jobs[j]
    /\ Reboot
    /\ jobs' = [jobs EXCEPT ![j] = row]
    /\ clock' = IF jobs[j].state = "ABSENT" THEN clock + 1 ELSE clock
    /\ lost' = lost \cup {j}
    /\ MemoryStartsEmpty
    /\ UNCHANGED trail

(* Wherever a statement is due. *)
DiesBeforeEvent(j) ==
    \/ /\ Calm
       /\ \/ /\ jobs[j].state = "ABSENT"
             /\ \E a \in Agent, p \in Priority, k \in Key \cup {Nil} :
                   KeyOwner(k) = {} /\ DiesAfter(j, NewRow(a, p, k, clock))
          \/ /\ \E t \in Task : disp[t].pc = "send" /\ disp[t].job = j
             /\ DiesAfter(j, MarkDispatchedWithAttempt(jobs[j]))
          \/ /\ j \in EverSent /\ \E c \in Conn : Handles(c)
             /\ \/ DiesAfter(j, MarkRunning(jobs[j]))
                \/ \E report \in Report : DiesAfter(j, Complete(jobs[j], report))
          \/ /\ jobs[j].state \in LiveState
             /\ j \in cancelling \/ ~CanSend(jobs[j].agent)
             /\ DiesAfter(j, MarkCancelled(jobs[j]))
          \/ firing = j /\ DiesAfter(j, MarkTimedOut(jobs[j]))
    \/ /\ AckRuns /\ IsNewest(j, AckBacklog)
       /\ DiesAfter(j, IF Exhausted(ackDue[j]) THEN FailStaleDispatch(jobs[j])
                       ELSE Requeue(jobs[j]))
    \/ /\ TimeoutRuns /\ IsNewest(j, expired) /\ ~CanSend(jobs[j].agent)
       /\ DiesAfter(j, MarkTimedOut(jobs[j]))

-----------------------------------------------------------------------------
(* The other steps record nothing. *)
Unrecorded ==
    \/ \E t \in Task : DispatchResume(t)
    \/ \E c \in Conn : (\E a \in Agent : Register(c, a)) \/ Lose(c) \/ HandlerEnd(c)
    \/ \E X \in SUBSET Job : AckScan(X) \/ TimeoutScan(X)
    \/ \E X \in SUBSET Agent : HeartbeatScan(X)

RecordsNext ==
    \/ /\ Calm
       /\ \/ \E j \in Job, a \in Agent, p \in Priority, k \in Key \cup {Nil} :
                RecordedSubmit(j, a, p, k)
          \/ \E t \in Task : RecordedDispatch(t)
          \/ \E c \in Conn, j \in Job :
                \/ Started(c, j) /\ Recorded(j, "started")
                \/ \E report \in Report : RecordedResult(c, j, report)
          \/ \E j \in Job : RecordedCancel(j)
          \/ Unrecorded /\ UNCHANGED records
    \/ RecordedAck
    \/ RecordedTimeout
    \/ Restart /\ MemoryStartsEmpty /\ UNCHANGED <<trail, lost>>
    \/ \E j \in Job : DiesBeforeEvent(j)

RecordsSpec == RecordsInit /\ [][RecordsNext]_<<vars, records>>

-----------------------------------------------------------------------------
(* The audit trail replays: whoever applies the events of a job with the   *)
(* rules of the table arrives at its row, though events are appended for   *)
(* statements that did nothing and callers decide on rows they read        *)
(* before an await; unless a crash swallowed an event of the job.          *)
TrailReplays ==
    \A j \in Job \ lost :
        trail[j] = [state |-> jobs[j].state, attempts |-> jobs[j].attempts]

(* Even then the trail may lag, but claims no outcome the job has not.     *)
TrailNeverWrong ==
    \A j \in Job : IsTerminal(trail[j].state) => jobs[j].state = trail[j].state

(* Tests over the in-memory repository speak for the SQLite one, though    *)
(* one of them hands out objects that change under their holder's hands:   *)
(* until the process dies, the two tables agree after every sequence of    *)
(* calls, with ONE exception.  A job that was started while the AckWatcher *)
(* awaited the dispatch of an earlier row is given up over SQLite, whose   *)
(* scan still holds the old row; in memory it keeps running.               *)
GivenUpStarted(j) == jobs[j].error = "no_ack" /\ jobs[j].started

MemoryAgrees ==
    restarts = 0 =>
        /\ index = IndexOf(jobs)
        /\ \A j \in Job :
              IF GivenUpStarted(j)
              THEN /\ mem[j].state \in {"RUNNING"} \cup TerminalState
                   /\ mem[j].error # "no_ack"
              ELSE mem[j] = jobs[j]
=============================================================================
