--------------------------- MODULE DispatchProofs ---------------------------
(***************************************************************************)
(* More theorems about ControlPlane, for every value of its constants: the *)
(* outcomes in the table, where and in which order jobs are handed out,    *)
(* and that no job waits unnoticed.                                        *)
(***************************************************************************)
EXTENDS ControlPlaneProofs, FiniteSetTheorems

(* OutcomeConsistent for one row. *)
OutcomeFits(row) ==
    /\ row.finished <=> IsTerminal(row.state)
    /\ row.exit = 0 <=> row.state = "SUCCEEDED"
    /\ row.exit # Nil <=> row.state \in {"SUCCEEDED", "FAILED"}
    /\ row.error # Nil => row.state = "FAILED"
    /\ row.state \in {"RUNNING", "SUCCEEDED", "TIMED_OUT"} => row.started
    /\ row.started => row.state = "RUNNING" \/ IsTerminal(row.state)

(* What no operation on a row changes, and that it keeps the outcome fit.  *)
Kept(row, after) ==
    /\ after.agent = row.agent /\ after.priority = row.priority
    /\ after.created = row.created /\ after.key = row.key
    /\ after.state = "ABSENT" <=> row.state = "ABSENT"
    /\ OutcomeFits(row) => OutcomeFits(after)

(* The row is not charged an attempt; it may be requeued. *)
Uncharged(row, after) ==
    /\ Kept(row, after)
    /\ after.attempts = row.attempts
    /\ after.started => row.started \/ row.state = "DISPATCHED"
    /\ after.state = "DISPATCHED" => row.state = "DISPATCHED"
    /\ after.state = "RUNNING" => row.state \in {"DISPATCHED", "RUNNING"}
    /\ after.state = "PENDING" => row.state \in {"PENDING", "DISPATCHED"}

(* ... and it is not requeued either. *)
Unqueued(row, after) ==
    Uncharged(row, after) /\ (after.state = "PENDING" => row.state = "PENDING")

(* The row is charged an attempt. *)
Charged(row, after) ==
    /\ Kept(row, after)
    /\ row.state = "PENDING" /\ after.state = "DISPATCHED"
    /\ after.attempts = row.attempts + 1

-----------------------------------------------------------------------------
(* The operations of JobStore *)

LEMMA SameRow == \A row : Unqueued(row, row)
  BY DEF Unqueued, Uncharged, Kept

(* The service's moves by compare-and-swap. *)
LEMMA TransitionKeeps ==
    ASSUME NEW row \in JobRow, NEW expected \in LiveState,
           NEW new \in {"RUNNING", "TIMED_OUT", "CANCELLED", "PENDING"},
           new = "RUNNING" => expected = "DISPATCHED",
           new = "TIMED_OUT" => expected = "RUNNING",
           new = "PENDING" => expected = "DISPATCHED"
    PROVE  /\ Uncharged(row, TransitionIf(row, expected, new))
           /\ new # "PENDING" => Unqueued(row, TransitionIf(row, expected, new))
<1>1. CASE row.state # expected
  BY <1>1, SameRow DEF TransitionIf, Unqueued
<1>2. CASE row.state = expected
  <2>. DEFINE after == TransitionIf(row, expected, new)
  <2>1. after = [row EXCEPT !.state = new,
                            !.started = row.started \/ new = "RUNNING",
                            !.finished = row.finished \/ IsTerminal(new)]
    BY <1>2 DEF TransitionIf
  <2>2. /\ after.agent = row.agent /\ after.priority = row.priority
        /\ after.created = row.created /\ after.key = row.key
        /\ after.attempts = row.attempts
        /\ after.exit = row.exit /\ after.error = row.error
        /\ after.state = new
        /\ after.started <=> (row.started \/ new = "RUNNING")
        /\ after.finished <=> (row.finished \/ IsTerminal(new))
    BY <2>1 DEF JobRow
  <2>3. OutcomeFits(row) => OutcomeFits(after)
    BY <1>2, <2>2 DEF OutcomeFits, IsTerminal, TerminalState, LiveState
  <2>. QED
    BY <1>2, <2>2, <2>3 DEF Kept, Uncharged, Unqueued, LiveState
<1>. QED
  BY <1>1, <1>2

(* A result, and the AckWatcher's giving up. *)
LEMMA FinishKeeps ==
    ASSUME NEW row \in JobRow, NEW new \in {"SUCCEEDED", "FAILED"}, NEW exit \in Int,
           NEW error \in {Nil, "reported", "no_ack"}, NEW after,
           after = [row EXCEPT !.state = new, !.exit = exit, !.error = error,
                               !.finished = TRUE],
           row.state # "ABSENT", new = "SUCCEEDED" => row.state = "RUNNING",
           exit = 0 <=> new = "SUCCEEDED", new = "SUCCEEDED" => error = Nil
    PROVE  Unqueued(row, after)
<1>1. /\ after.agent = row.agent /\ after.priority = row.priority
      /\ after.created = row.created /\ after.key = row.key
      /\ after.attempts = row.attempts /\ after.started = row.started
      /\ after.exit = exit /\ after.error = error /\ after.state = new
      /\ after.finished = TRUE
  BY DEF JobRow
<1>2. exit # Nil
  BY StoreAssumption
<1>3. OutcomeFits(row) => OutcomeFits(after)
  BY <1>1, <1>2 DEF OutcomeFits, IsTerminal, TerminalState
<1>. QED
  BY <1>1, <1>3 DEF Kept, Uncharged, Unqueued

LEMMA CompleteKeeps ==
    ASSUME NEW row \in JobRow, NEW report \in Report
    PROVE  Unqueued(row, Complete(row, report))
<1>1. CASE row.state # "RUNNING"
  <2>1. Complete(row, report) = row
    BY <1>1, ControlPlaneAssumption, Zenon
    DEF Complete, MarkFailed, MarkSucceeded, CompleteIfRunning
  <2>. QED
    BY <2>1, SameRow
<1>2. CASE row.state = "RUNNING"
  <2>0. 0 \in Int /\ 1 \in Int /\ 1 # 0
    OBVIOUS
  <2>1. PICK new \in {"SUCCEEDED", "FAILED"}, exit \in Int, error \in {Nil, "reported"} :
           /\ Complete(row, report) = [row EXCEPT !.state = new, !.exit = exit,
                                                  !.error = error, !.finished = TRUE]
           /\ exit = 0 <=> new = "SUCCEEDED"
           /\ new = "SUCCEEDED" => error = Nil
    <3>1. CASE report = "error"
      <4>1. Complete(row, report) = [row EXCEPT !.state = "FAILED", !.exit = 1,
                                         !.error = "reported", !.finished = TRUE]
        BY <1>2, <3>1, Zenon DEF Complete, MarkFailed, CompleteIfRunning
      <4>. QED
        BY <2>0, <4>1, Zenon
    <3>2. CASE report = "exit 0"
      <4>1. Complete(row, report) = [row EXCEPT !.state = "SUCCEEDED", !.exit = 0,
                                         !.error = Nil, !.finished = TRUE]
        BY <1>2, <3>2, Zenon DEF Complete, MarkSucceeded, CompleteIfRunning
      <4>. QED
        BY <2>0, <4>1, Zenon
    <3>3. CASE report = "exit 1"
      <4>1. Complete(row, report) = [row EXCEPT !.state = "FAILED", !.exit = 1,
                                         !.error = Nil, !.finished = TRUE]
        BY <1>2, <3>3, Zenon DEF Complete, MarkFailed, CompleteIfRunning
      <4>. QED
        BY <2>0, <4>1, Zenon
    <3>. QED
      BY <3>1, <3>2, <3>3, ControlPlaneAssumption
  <2>2. row.state # "ABSENT"
    BY <1>2
  <2>. QED
    BY <1>2, <2>1, <2>2, FinishKeeps
<1>. QED
  BY <1>1, <1>2

LEMMA GiveUpKeeps ==
    ASSUME NEW row \in JobRow, row.state # "ABSENT"
    PROVE  Unqueued(row, FailStaleDispatch(row))
<1>1. CASE IsTerminal(row.state)
  BY <1>1, SameRow DEF FailStaleDispatch
<1>2. CASE ~IsTerminal(row.state)
  <2>1. PICK code \in Int \ {0} :
           FailStaleDispatch(row) = [row EXCEPT !.state = "FAILED", !.exit = code,
                                                !.error = "no_ack", !.finished = TRUE]
    <3>1. FailStaleDispatch(row) = [row EXCEPT !.state = "FAILED", !.exit = 1,
                                               !.error = "no_ack", !.finished = TRUE]
      BY <1>2, Zenon DEF FailStaleDispatch
    <3>2. 1 \in Int \ {0}
      OBVIOUS
    <3>. QED
      BY <3>1, <3>2, Zenon
  <2>2. /\ "FAILED" \in {"SUCCEEDED", "FAILED"} /\ "FAILED" # "SUCCEEDED"
        /\ "no_ack" \in {Nil, "reported", "no_ack"}
    OBVIOUS
  <2>. QED
    BY <2>1, <2>2, FinishKeeps
<1>. QED
  BY <1>1, <1>2

(* No operation of the service disturbs the identity of a row or its       *)
(* outcome; only the return of a send charges an attempt, only Requeue     *)
(* makes a row PENDING.                                                    *)
LEMMA OperationsKeep ==
    ASSUME NEW row \in JobRow
    PROVE  /\ Unqueued(row, MarkRunning(row)) /\ Unqueued(row, MarkTimedOut(row))
           /\ \A report \in Report : Unqueued(row, Complete(row, report))
           /\ Uncharged(row, Requeue(row))
           /\ row.state # "ABSENT" => /\ Unqueued(row, MarkCancelled(row))
                                      /\ Unqueued(row, FailStaleDispatch(row))
           /\ \/ MarkDispatchedWithAttempt(row) = row
              \/ Charged(row, MarkDispatchedWithAttempt(row))
<1>1. Unqueued(row, MarkRunning(row)) /\ Unqueued(row, MarkTimedOut(row))
  BY TransitionKeeps DEF MarkRunning, MarkTimedOut, LiveState
<1>2. Uncharged(row, Requeue(row))
  BY TransitionKeeps DEF Requeue, LiveState
<1>3. ASSUME row.state # "ABSENT" PROVE Unqueued(row, MarkCancelled(row))
  <2>1. CASE IsTerminal(row.state)
    BY <2>1, SameRow DEF MarkCancelled
  <2>2. CASE ~IsTerminal(row.state)
    <3>1. row.state \in LiveState
      BY <1>3, <2>2 DEF JobRow, JobState, IsTerminal
    <3>. QED
      BY <2>2, <3>1, TransitionKeeps DEF MarkCancelled
  <2>. QED
    BY <2>1, <2>2
<1>4. \/ MarkDispatchedWithAttempt(row) = row
      \/ Charged(row, MarkDispatchedWithAttempt(row))
  <2>. DEFINE after == MarkDispatchedWithAttempt(row)
  <2>1. CASE row.state = "PENDING"
    <3>1. after = [row EXCEPT !.state = "DISPATCHED", !.attempts = row.attempts + 1]
      BY <2>1 DEF MarkDispatchedWithAttempt
    <3>2. /\ after.agent = row.agent /\ after.priority = row.priority
          /\ after.created = row.created /\ after.key = row.key
          /\ after.exit = row.exit /\ after.error = row.error
          /\ after.started = row.started /\ after.finished = row.finished
          /\ after.state = "DISPATCHED" /\ after.attempts = row.attempts + 1
      BY <3>1 DEF JobRow
    <3>3. OutcomeFits(row) => OutcomeFits(after)
      BY <2>1, <3>2 DEF OutcomeFits, IsTerminal, TerminalState
    <3>. QED
      BY <2>1, <3>2, <3>3 DEF Charged, Kept
  <2>2. CASE row.state # "PENDING"
    BY <2>2 DEF MarkDispatchedWithAttempt
  <2>. QED
    BY <2>1, <2>2
<1>. QED
  BY <1>1, <1>2, <1>3, <1>4, CompleteKeeps, GiveUpKeeps

-----------------------------------------------------------------------------
(* What a step does to the table. *)

(* A task awaits the send of job j. *)
Sends(j) == \E t \in Task : disp[t].pc = "send" /\ disp[t].job = j

(* ... and gets it back in this step. *)
Returns(j) ==
    \E t \in Task : disp[t].pc = "send" /\ disp[t].job = j /\ disp'[t].pc = "idle"

Served ==
    /\ clock' = clock
    /\ \A j \in Job : \/ Uncharged(jobs[j], jobs'[j])
                      \/ Charged(jobs[j], jobs'[j]) /\ Returns(j)

(* No row becomes PENDING. *)
Unfilled == \A j \in Job : \/ Unqueued(jobs[j], jobs'[j])
                           \/ Charged(jobs[j], jobs'[j])

Inserted ==
    \E j \in Job, a \in Agent, p \in Priority, k \in Key \cup {Nil} :
        /\ jobs[j].state = "ABSENT"
        /\ KeyOwner(k) = {}
        /\ jobs' = [jobs EXCEPT ![j] = NewRow(a, p, k, clock)]
        /\ clock' = clock + 1

(* A step that changes at most one row. *)
LEMMA OneRow ==
    ASSUME jobs \in [Job -> JobRow], NEW j \in Job, NEW after,
           jobs' = [jobs EXCEPT ![j] = after]
    PROVE  /\ Unqueued(jobs[j], after) => Unfilled
           /\ after = jobs[j] \/ Charged(jobs[j], after) => Unfilled
           /\ Uncharged(jobs[j], after) /\ clock' = clock => Served
           /\ after = jobs[j] /\ clock' = clock => Served
           /\ Charged(jobs[j], after) /\ Returns(j) /\ clock' = clock => Served
<1>1. jobs'[j] = after /\ \A i \in Job \ {j} : jobs'[i] = jobs[i]
  OBVIOUS
<1>2. \A i \in Job : Unqueued(jobs[i], jobs[i]) /\ Uncharged(jobs[i], jobs[i])
  BY SameRow DEF Unqueued
<1>. QED
  BY <1>1, <1>2 DEF Unfilled, Served

LEMMA NoRowChanges ==
    ASSUME UNCHANGED jobs
    PROVE  Unfilled /\ (clock' = clock => Served)
  BY SameRow DEF Unfilled, Served, Unqueued

LEMMA TableMoves ==
    ASSUME TypeOK, KnownRows, [Next]_vars
    PROVE  Served \/ Inserted
<1>. jobs \in [Job -> JobRow]
  BY DEF TypeOK
<1>. /\ \A j \in Job : jobs[j] \in JobRow
     /\ \A row : Unqueued(row, row) /\ Uncharged(row, row)
  BY SameRow DEF Unqueued
<1>1. CASE AckNext
  <2>1. PICK j \in AckBacklog :
           /\ clock' = clock
           /\ \/ jobs' = [jobs EXCEPT ![j] = FailStaleDispatch(jobs[j])]
              \/ jobs' = [jobs EXCEPT ![j] = Requeue(jobs[j])]
    BY <1>1 DEF AckNext, IsNewest
  <2>2. j \in Job /\ jobs[j].state # "ABSENT"
    BY DEF AckBacklog, KnownRows
  <2>. QED
    BY <2>1, <2>2, OneRow, OperationsKeep DEF Unqueued
<1>2. CASE TimeoutNext \/ TimeoutReturn
  <2>1. PICK j \in Job : /\ clock' = clock
                         /\ \/ jobs' = [jobs EXCEPT ![j] = MarkTimedOut(jobs[j])]
                            \/ UNCHANGED jobs
    BY <1>2 DEF TimeoutNext, TimeoutReturn, TypeOK
  <2>. QED
    BY <2>1, OneRow, NoRowChanges, OperationsKeep DEF Unqueued
<1>3. ASSUME NEW t \in Task, DispatchReturn(t) PROVE Served
  <2>1. disp[t].job \in Job /\ Returns(disp[t].job)
    BY <1>3 DEF TypeOK, TaskState, TaskShape, DispatchReturn, Returns, Idle
  <2>2. /\ clock' = clock
        /\ \/ UNCHANGED jobs
           \/ jobs' = [jobs EXCEPT ![disp[t].job] =
                          MarkDispatchedWithAttempt(jobs[disp[t].job])]
    BY <1>3 DEF DispatchReturn
  <2>. QED
    BY <2>1, <2>2, OneRow, NoRowChanges, OperationsKeep
<1>4. ASSUME NEW c \in Conn, NEW j \in Job,
             Started(c, j) \/ \E report \in Report : Result(c, j, report)
      PROVE  Served
  <2>1. PICK after : /\ Unqueued(jobs[j], after)
                     /\ jobs' = [jobs EXCEPT ![j] = after] /\ clock' = clock
    BY <1>4, OperationsKeep DEF Started, Result
  <2>. QED
    BY <2>1, OneRow DEF Unqueued
<1>5. ASSUME NEW j \in Job, NEW a \in Agent, NEW p \in Priority,
             NEW k \in Key \cup {Nil}, Submit(j, a, p, k)
      PROVE  Served \/ Inserted
  BY <1>5, NoRowChanges DEF Submit, Inserted
<1>6. ASSUME NEW j \in Job, CancelRequest(j) \/ CancelReturn(j) PROVE Served
  <2>1. jobs[j].state # "ABSENT"
    BY <1>6 DEF KnownRows, CancelRequest, CancelReturn, LiveState
  <2>2. /\ clock' = clock
        /\ UNCHANGED jobs \/ jobs' = [jobs EXCEPT ![j] = MarkCancelled(jobs[j])]
    BY <1>6 DEF CancelRequest, CancelReturn
  <2>. QED
    BY <2>1, <2>2, OneRow, NoRowChanges, OperationsKeep DEF Unqueued
<1>7. ASSUME \/ \E t \in Task : DispatchResume(t)
             \/ \E c \in Conn : Lose(c) \/ HandlerEnd(c) \/ \E a \in Agent : Register(c, a)
             \/ \E S \in SUBSET Job : AckScan(S) \/ TimeoutScan(S)
             \/ \E S \in SUBSET Agent : HeartbeatScan(S)
             \/ Restart
             \/ UNCHANGED vars
      PROVE  Served
  <2>1. UNCHANGED <<jobs, clock>>
    BY <1>7 DEF DispatchResume, Lose, HandlerEnd, Register, AckScan, TimeoutScan,
                HeartbeatScan, Restart, vars
  <2>. QED
    BY <2>1, NoRowChanges
<1>. QED
  BY <1>1, <1>2, <1>3, <1>4, <1>5, <1>6, <1>7
  DEF Next, Other, ConnStep, ApiStep, WatcherScan

-----------------------------------------------------------------------------
(* What a step does to the hand-outs. *)

(* Agent a has a free connection and a job to send on it. *)
Deliverable(a) ==
    /\ registry[a] # Nil /\ link[registry[a]] = "open"
    /\ inflight[registry[a]] = 0 /\ Pending(jobs, a) # {}

(* The next job of agent a is written to its connection. *)
HandsOut(t, a) ==
    \E j \in Job, c \in Conn :
        /\ c = registry'[a]
        /\ IsNext(jobs', a, j)
        /\ disp'[t].pc = "send" /\ disp'[t].agent = a
        /\ disp'[t].job = j /\ disp'[t].conn = c
        /\ sent' = [sent EXCEPT ![c] = @ \cup {j}]

(* Task t looks at the queue of agent a, or is going to. *)
Looks(t, a) ==
    /\ \A u \in Task \ {t} : disp'[u] = disp[u]
    /\ \/ HandsOut(t, a)
       \/ disp'[t].pc = "lock" /\ disp'[t].agent = a /\ UNCHANGED sent
       \/ disp'[t].pc = "idle" /\ ~Deliverable(a)' /\ UNCHANGED sent

LEMMA AttemptLooks ==
    ASSUME TypeOK, NEW t \in Task, NEW a \in Agent, NEW g \in Nat,
           registry' \in [Agent -> Conn \cup {Nil}], UNCHANGED link,
           Attempt(t, a, g)
    PROVE  Looks(t, a)
<1>1. disp \in [Task -> TaskState] /\ sent \in [Conn -> SUBSET Job]
  BY DEF TypeOK
<1>2. CASE disp' = [disp EXCEPT ![t] = Idle] /\ UNCHANGED sent
           /\ ~(/\ registry'[a] # Nil /\ inflight'[registry'[a]] = 0
                /\ Pending(jobs', a) # {} /\ link[registry'[a]] = "open")
  <2>1. ~Deliverable(a)'
    BY <1>2 DEF Deliverable, Pending
  <2>2. disp'[t].pc = "idle"
    BY <1>1, <1>2 DEF Idle
  <2>. QED
    BY <1>1, <1>2, <2>1, <2>2 DEF Looks
<1>3. ASSUME NEW j \in Job, registry'[a] # Nil, IsNext(jobs', a, j),
             disp' = [disp EXCEPT ![t] = Sending(a, g, j, registry'[a])],
             sent' = [sent EXCEPT ![registry'[a]] = @ \cup {j}]
      PROVE  Looks(t, a)
  <2>1. registry'[a] \in Conn
    BY <1>3
  <2>2. disp'[t] = Sending(a, g, j, registry'[a])
    BY <1>1, <1>3
  <2>3. /\ disp'[t].pc = "send" /\ disp'[t].agent = a
        /\ disp'[t].job = j /\ disp'[t].conn = registry'[a]
    BY <2>2 DEF Sending
  <2>4. HandsOut(t, a)
    BY <1>3, <2>1, <2>3, Zenon DEF HandsOut
  <2>. QED
    BY <1>1, <1>3, <2>4 DEF Looks
<1>. QED
  BY <1>2, <1>3 DEF Attempt

LEMMA EnterLooks ==
    ASSUME TypeOK, NEW t \in Task, NEW a \in Agent,
           registry' \in [Agent -> Conn \cup {Nil}], UNCHANGED link,
           EnterDispatch(t, a)
    PROVE  Looks(t, a)
<1>1. disp \in [Task -> TaskState] /\ lockGen[a] \in Nat
  BY DEF TypeOK
<1>2. CASE disp' = [disp EXCEPT ![t] = Waiting(a, lockGen[a])] /\ UNCHANGED sent
  <2>1. disp'[t].pc = "lock" /\ disp'[t].agent = a
    BY <1>1, <1>2 DEF Waiting
  <2>. QED
    BY <1>1, <1>2, <2>1 DEF Looks
<1>. QED
  BY <1>1, <1>2, AttemptLooks DEF EnterDispatch

(* A step in which task t looks at the queue of agent a: whatever else it  *)
(* does to registrations, slots and the table concerns this agent.         *)
Visit(t, a) ==
    /\ Looks(t, a)
    /\ disp[t].agent \in {Nil, a}
    /\ UNCHANGED link
    /\ \A b \in Agent \ {a} : registry'[b] = registry[b]
    /\ \A c \in Conn : c # registry[a] => inflight'[c] = inflight[c]
    /\ \A j \in Job : jobs'[j].state = "PENDING" /\ jobs'[j].agent # a =>
           jobs[j].state = "PENDING" /\ jobs[j].agent = jobs'[j].agent

(* A step that needs no look at any queue. *)
Apart ==
    /\ UNCHANGED <<dispatch, inflight>>
    /\ \A a \in Agent : registry'[a] \in {registry[a], Nil}
    /\ \A c \in Conn : link'[c] = "open" => link[c] = "open"
    /\ Unfilled

LEMMA IdleTask ==
    ASSUME TypeOK, NEW t \in Task, disp[t].pc = "idle"
    PROVE  disp[t].agent = Nil
  BY DEF TypeOK, TaskShape, Idle

LEMMA VisitByConn ==
    ASSUME TypeOK, NEW c \in Conn,
           \/ \E a \in Agent : Register(c, a)
           \/ \E j \in Job, report \in Report : Result(c, j, report)
    PROVE  \E a \in Agent : Visit(c, a)
<1>1. c \in Task
  BY DEF Task
<1>2. CASE \E a \in Agent : Register(c, a)
  <2>1. PICK a \in Agent : Register(c, a)
    BY <1>2
  <2>2. registry' \in [Agent -> Conn \cup {Nil}]
    BY <2>1 DEF TypeOK, Register
  <2>3. Looks(c, a)
    BY <1>1, <2>1, <2>2, EnterLooks DEF Register
  <2>4. disp[c].agent = Nil
    BY <1>1, <2>1, IdleTask DEF Register, Listening
  <2>5. Visit(c, a)
    BY <2>1, <2>3, <2>4 DEF Visit, Register, TypeOK
  <2>. QED
    BY <2>5
<1>3. CASE \E j \in Job, report \in Report : Result(c, j, report)
  <2>1. PICK j \in Job, report \in Report : Result(c, j, report)
    BY <1>3
  <2>2. who[c] \in Agent
    BY <2>1 DEF TypeOK, Result, Handles
  <2>3. Looks(c, who[c])
    BY <1>1, <2>1, <2>2, EnterLooks DEF TypeOK, Result
  <2>4. disp[c].agent = Nil
    BY <1>1, <2>1, IdleTask DEF Result, Handles, Listening
  <2>5. \A d \in Conn : d # registry[who[c]] => inflight'[d] = inflight[d]
    BY <2>1, <2>2 DEF Result, FreeSlot, TypeOK
  <2>6. \A i \in Job : jobs'[i].state = "PENDING" =>
            jobs[i].state = "PENDING" /\ jobs[i].agent = jobs'[i].agent
    <3>1. \A row \in JobRow : Unqueued(row, Complete(row, report))
      BY CompleteKeeps
    <3>2. /\ jobs \in [Job -> JobRow]
          /\ jobs' = [jobs EXCEPT ![j] = Complete(jobs[j], report)]
      BY <2>1 DEF TypeOK, Result
    <3>. QED
      BY <3>1, <3>2 DEF Unqueued, Uncharged, Kept
  <2>7. Visit(c, who[c])
    BY <2>1, <2>3, <2>4, <2>5, <2>6 DEF Visit, Result
  <2>. QED
    BY <2>2, <2>7
<1>. QED
  BY <1>2, <1>3

LEMMA VisitBySubmit ==
    ASSUME TypeOK, NEW r \in Job, NEW a \in Agent, NEW p \in Priority,
           NEW k \in Key \cup {Nil}, Submit(r, a, p, k)
    PROVE  r \in Task /\ Visit(r, a)
<1>1. r \in Task /\ registry' \in [Agent -> Conn \cup {Nil}] /\ UNCHANGED link
  BY DEF Task, TypeOK, Submit, gateway
<1>2. Looks(r, a)
  BY <1>1, EnterLooks DEF Submit
<1>3. disp[r].agent = Nil
  BY <1>1, IdleTask DEF Submit
<1>4. \A j \in Job : jobs'[j].state = "PENDING" /\ jobs'[j].agent # a =>
          jobs[j].state = "PENDING" /\ jobs[j].agent = jobs'[j].agent
  <2>1. CASE UNCHANGED jobs
    BY <2>1
  <2>2. CASE jobs' = [jobs EXCEPT ![r] = NewRow(a, p, k, clock)]
    <3>1. NewRow(a, p, k, clock).agent = a
      BY NewRowType DEF TypeOK
    <3>. QED
      BY <2>2, <3>1 DEF TypeOK
  <2>. QED
    BY <2>1, <2>2 DEF Submit
<1>. QED
  BY <1>1, <1>2, <1>3, <1>4 DEF Visit, Submit, gateway

LEMMA VisitByResume ==
    ASSUME TypeOK, NEW t \in Task, DispatchResume(t)
    PROVE  \E a \in Agent : Visit(t, a)
<1>1. disp[t].agent \in Agent /\ disp[t].gen \in Nat
  BY DEF TypeOK, TaskState, TaskShape, DispatchResume
<1>2. /\ UNCHANGED <<jobs, registry, inflight, link>>
      /\ registry' \in [Agent -> Conn \cup {Nil}]
  BY DEF TypeOK, DispatchResume, gateway
<1>3. Looks(t, disp[t].agent)
  BY <1>1, <1>2, AttemptLooks DEF DispatchResume
<1>4. Visit(t, disp[t].agent)
  BY <1>2, <1>3 DEF Visit
<1>. QED
  BY <1>1, <1>4

LEMMA VisitByAck ==
    ASSUME TypeOK, KnownRows, AckNext
    PROVE  Apart \/ \E a \in Agent : AckTask \in Task /\ Visit(AckTask, a)
<1>1. PICK j \in Job :
         /\ IsNewest(j, AckBacklog)
         /\ UNCHANGED gateway
         /\ \/ /\ jobs' = [jobs EXCEPT ![j] = FailStaleDispatch(jobs[j])]
               /\ UNCHANGED dispatch
            \/ /\ jobs' = [jobs EXCEPT ![j] = Requeue(jobs[j])]
               /\ EnterDispatch(AckTask, jobs[j].agent)
  BY DEF AckNext
<1>2. /\ jobs[j] \in JobRow /\ jobs \in [Job -> JobRow]
      /\ jobs[j].state # "ABSENT" /\ jobs[j].agent \in Agent
  BY <1>1 DEF TypeOK, KnownRows, IsNewest
<1>3. CASE jobs' = [jobs EXCEPT ![j] = FailStaleDispatch(jobs[j])] /\ UNCHANGED dispatch
  <2>1. Unfilled
    BY <1>2, <1>3, OneRow, GiveUpKeeps
  <2>. QED
    BY <1>1, <1>3, <2>1 DEF Apart, gateway
<1>4. CASE /\ jobs' = [jobs EXCEPT ![j] = Requeue(jobs[j])]
           /\ EnterDispatch(AckTask, jobs[j].agent)
  <2>1. /\ AckTask \in Task /\ UNCHANGED <<registry, inflight, link>>
        /\ registry' \in [Agent -> Conn \cup {Nil}]
    BY <1>1 DEF Task, TypeOK, gateway
  <2>2. Looks(AckTask, jobs[j].agent)
    BY <1>2, <1>4, <2>1, EnterLooks
  <2>3. disp[AckTask].agent = Nil
    BY <2>1, IdleTask DEF AckNext, AckRuns
  <2>4. \A i \in Job : jobs'[i].state = "PENDING" /\ jobs'[i].agent # jobs[j].agent =>
            jobs[i].state = "PENDING" /\ jobs[i].agent = jobs'[i].agent
    BY <1>2, <1>4, OperationsKeep DEF Uncharged, Kept
  <2>5. Visit(AckTask, jobs[j].agent)
    BY <2>1, <2>2, <2>3, <2>4 DEF Visit
  <2>. QED
    BY <1>2, <2>1, <2>5
<1>. QED
  BY <1>1, <1>3, <1>4

(* Every step is one of these. *)
LEMMA Moves ==
    ASSUME TypeOK, KnownRows, [Next]_vars
    PROVE  \/ \E t \in Task, a \in Agent : Visit(t, a)
           \/ \E t \in Task : DispatchReturn(t)
           \/ Apart
           \/ Restart
<1>. jobs \in [Job -> JobRow]
  BY DEF TypeOK
<1>1. CASE AckNext
  BY <1>1, VisitByAck
<1>2. ASSUME NEW c \in Conn, ConnStep(c)
      PROVE  Apart \/ \E a \in Agent : Visit(c, a)
  <2>1. ASSUME NEW j \in Job, Started(c, j) PROVE Apart
    <3>1. Unfilled
      BY <2>1, OneRow, OperationsKeep DEF Started
    <3>. QED
      BY <2>1, <3>1 DEF Apart, Started, gateway
  <2>2. ASSUME Lose(c) \/ HandlerEnd(c) PROVE Apart
    <3>1. /\ Unfilled /\ UNCHANGED <<dispatch, inflight>>
      BY <2>2, NoRowChanges DEF Lose, HandlerEnd
    <3>. QED
      BY <2>2, <3>1 DEF Apart, Lose, HandlerEnd, TypeOK
  <2>. QED
    BY <1>2, <2>1, <2>2, VisitByConn DEF ConnStep
<1>3. ASSUME NEW j \in Job, CancelRequest(j) \/ CancelReturn(j) PROVE Apart
  <2>1. jobs[j].state # "ABSENT"
    BY <1>3 DEF KnownRows, CancelRequest, CancelReturn, LiveState
  <2>2. UNCHANGED jobs \/ jobs' = [jobs EXCEPT ![j] = MarkCancelled(jobs[j])]
    BY <1>3 DEF CancelRequest, CancelReturn
  <2>3. Unfilled
    BY <2>1, <2>2, OneRow, NoRowChanges, OperationsKeep
  <2>. QED
    BY <1>3, <2>3 DEF Apart, CancelRequest, CancelReturn, gateway
<1>4. CASE TimeoutNext \/ TimeoutReturn
  <2>1. PICK j \in Job : \/ jobs' = [jobs EXCEPT ![j] = MarkTimedOut(jobs[j])]
                         \/ UNCHANGED jobs
    BY <1>4 DEF TimeoutNext, TimeoutReturn, TypeOK
  <2>2. Unfilled
    BY <2>1, OneRow, NoRowChanges, OperationsKeep
  <2>. QED
    BY <1>4, <2>2 DEF Apart, TimeoutNext, TimeoutReturn, gateway
<1>5. CASE \/ \E S \in SUBSET Job : AckScan(S) \/ TimeoutScan(S)
           \/ \E S \in SUBSET Agent : HeartbeatScan(S)
           \/ UNCHANGED vars
  <2>1. UNCHANGED <<jobs, dispatch, inflight, link>>
    BY <1>5 DEF AckScan, TimeoutScan, HeartbeatScan, vars, gateway
  <2>2. \A a \in Agent : registry'[a] \in {registry[a], Nil}
    BY <1>5 DEF AckScan, TimeoutScan, HeartbeatScan, vars, gateway
  <2>. QED
    BY <2>1, <2>2, NoRowChanges DEF Apart
<1>6. ASSUME NEW j \in Job, ApiStep(j)
      PROVE  Apart \/ \E t \in Task, a \in Agent : Visit(t, a)
  BY <1>3, <1>6, VisitBySubmit DEF ApiStep
<1>7. \A c \in Conn : c \in Task
  BY DEF Task
<1>. QED
  BY <1>1, <1>2, <1>4, <1>5, <1>6, <1>7, VisitByResume DEF Next, Other, WatcherScan

-----------------------------------------------------------------------------
(* The inductive invariant *)

(* A registered connection is its agent's. *)
Registered == \A a \in Agent : registry[a] # Nil => who[registry[a]] = a

(* A job a task sends was written to that connection, and is a row. *)
SendsWritten ==
    \A t \in Task : disp[t].pc = "send" => disp[t].job \in sent[disp[t].conn]

SentRows == \A c \in Conn : \A j \in sent[c] : jobs[j].state # "ABSENT"

(* The next row is the newest. *)
ClockAhead == \A j \in Job : jobs[j].state # "ABSENT" => jobs[j].created < clock

(* Row i never had an attempt. *)
Fresh(i) == jobs[i].state = "PENDING" /\ jobs[i].attempts = 0

(* FirstDispatchInOrder, from the moment a job is written to a socket on.  *)
SentInOrder ==
    \A c \in Conn : \A j \in sent[c] : \A i \in Job :
        /\ Fresh(i) /\ jobs[i].agent = jobs[j].agent
        /\ jobs[i].created < jobs[j].created
        => jobs[i].priority > jobs[j].priority

DInv ==
    /\ IInv
    /\ OutcomeConsistent /\ OneJobPerKey /\ ClockAhead
    /\ Registered /\ SendsWritten /\ SentRows /\ RoutedToOwner
    /\ DispatchedWasSent /\ SentInOrder
    /\ NoMissedDispatch

LEMMA InitDInv == Init => DInv
<1>. SUFFICES ASSUME Init PROVE DInv
  OBVIOUS
<1>1. \A j \in Job : /\ jobs[j].state = "ABSENT" /\ jobs[j].attempts = 0
                     /\ jobs[j].exit = Nil /\ jobs[j].error = Nil
                     /\ jobs[j].key = Nil
                     /\ jobs[j].started = FALSE /\ jobs[j].finished = FALSE
  BY DEF Init, NoRow
<1>2. Nil # 0
  BY StoreAssumption
<1>3. OutcomeConsistent
  BY <1>1, <1>2 DEF OutcomeConsistent, IsTerminal, TerminalState
<1>4. OneJobPerKey /\ ClockAhead /\ DispatchedWasSent
  BY <1>1 DEF OneJobPerKey, ClockAhead, DispatchedWasSent
<1>5. /\ Registered /\ SendsWritten /\ SentRows /\ RoutedToOwner /\ SentInOrder
      /\ NoMissedDispatch
  BY DEF Init, Idle, Registered, SendsWritten, SentRows, RoutedToOwner, SentInOrder,
         NoMissedDispatch
<1>. QED
  BY <1>3, <1>4, <1>5, InitIInv DEF DInv

(* The new row of a submission. *)
LEMMA NewRowFacts ==
    ASSUME NEW a \in Agent, NEW p \in Priority, NEW k \in Key \cup {Nil}, NEW n \in Nat
    PROVE  LET row == NewRow(a, p, k, n)
           IN  /\ row.state = "PENDING" /\ row.agent = a /\ row.priority = p
               /\ row.created = n /\ row.key = k /\ row.attempts = 0
               /\ ~row.started /\ OutcomeFits(row)
<1>1. Nil # 0
  BY StoreAssumption
<1>. DEFINE row == NewRow(a, p, k, n)
<1>2. /\ row.state = "PENDING" /\ row.agent = a /\ row.priority = p
      /\ row.created = n /\ row.key = k /\ row.attempts = 0
      /\ row.started = FALSE /\ row.finished = FALSE
      /\ row.exit = Nil /\ row.error = Nil
  BY DEF NewRow, NoRow
<1>. HIDE DEF row
<1>3. OutcomeFits(row)
  BY <1>1, <1>2 DEF OutcomeFits, IsTerminal, TerminalState
<1>. QED
  BY <1>2, <1>3 DEF row

LEMMA OutcomeByRow == OutcomeConsistent <=> \A j \in Job : OutcomeFits(jobs[j])
  BY DEF OutcomeConsistent, OutcomeFits

LEMMA TableInvStep ==
    ASSUME TypeOK, OutcomeConsistent, OneJobPerKey, ClockAhead, Served \/ Inserted
    PROVE  OutcomeConsistent' /\ OneJobPerKey' /\ ClockAhead'
<1>1. CASE Served
  <2>1. \A j \in Job : Kept(jobs[j], jobs'[j])
    BY <1>1 DEF Served, Uncharged, Charged
  <2>2. \A j \in Job : OutcomeFits(jobs'[j])
    BY <2>1, OutcomeByRow DEF Kept
  <2>3. OutcomeConsistent'
    BY <2>2 DEF OutcomeConsistent, OutcomeFits, IsTerminal
  <2>4. OneJobPerKey'
    BY <2>1 DEF OneJobPerKey, Kept
  <2>5. ClockAhead'
    BY <1>1, <2>1 DEF ClockAhead, Kept, Served
  <2>. QED
    BY <2>3, <2>4, <2>5
<1>2. ASSUME NEW r \in Job, NEW a \in Agent, NEW p \in Priority,
             NEW k \in Key \cup {Nil}, KeyOwner(k) = {},
             jobs' = [jobs EXCEPT ![r] = NewRow(a, p, k, clock)],
             clock' = clock + 1
      PROVE  OutcomeConsistent' /\ OneJobPerKey' /\ ClockAhead'
  <2>1. /\ clock \in Nat
        /\ jobs \in [Job -> JobRow]
        /\ \A j \in Job : jobs[j].created \in Nat
    BY DEF TypeOK, JobRow
  <2>2. /\ jobs'[r] = NewRow(a, p, k, clock)
        /\ \A i \in Job \ {r} : jobs'[i] = jobs[i]
    BY <1>2, <2>1
  <2>3. /\ jobs'[r].key = k /\ jobs'[r].created = clock
        /\ OutcomeFits(jobs'[r])
    BY <2>1, <2>2, NewRowFacts
  <2>4. \A j \in Job : OutcomeFits(jobs'[j])
    BY <2>2, <2>3, OutcomeByRow
  <2>5. OutcomeConsistent'
    BY <2>4 DEF OutcomeConsistent, OutcomeFits, IsTerminal
  <2>6. OneJobPerKey'
    <3>1. \A i \in Job \ {r} : k # Nil => jobs[i].key # k
      BY <1>2 DEF KeyOwner
    <3>. QED
      BY <2>2, <2>3, <3>1 DEF OneJobPerKey
  <2>7. ClockAhead'
    BY <1>2, <2>1, <2>2, <2>3 DEF ClockAhead
  <2>. QED
    BY <2>5, <2>6, <2>7
<1>. QED
  BY <1>1, <1>2 DEF Inserted

(* Registrations: an agent's entry is replaced by a connection that names  *)
(* it, or removed; a connection never changes its agent.                   *)
LEMMA RegistryStep ==
    ASSUME TypeOK, Registered, [Next]_vars
    PROVE  /\ Registered'
           /\ \A c \in Conn : who[c] # Nil => who'[c] = who[c]
           /\ \A a \in Agent : registry'[a] \in {registry[a], Nil} \/ who[registry'[a]] = Nil
<1>. registry \in [Agent -> Conn \cup {Nil}] /\ who \in [Conn -> Agent \cup {Nil}]
  BY DEF TypeOK
<1>1. ASSUME NEW c \in Conn, NEW a \in Agent, Register(c, a)
      PROVE  /\ Registered'
             /\ \A d \in Conn : who[d] # Nil => who'[d] = who[d]
             /\ \A b \in Agent : registry'[b] \in {registry[b], Nil} \/ who[registry'[b]] = Nil
  BY <1>1, StoreAssumption DEF Register, Registered
<1>2. ASSUME UNCHANGED who, \A a \in Agent : registry'[a] \in {registry[a], Nil}
      PROVE  /\ Registered'
             /\ \A d \in Conn : who[d] # Nil => who'[d] = who[d]
  BY <1>2 DEF Registered
<1>3. ASSUME \/ AckNext \/ TimeoutNext \/ TimeoutReturn \/ Restart
             \/ \E t \in Task : DispatchResume(t) \/ DispatchReturn(t)
             \/ \E c \in Conn : \/ Lose(c) \/ HandlerEnd(c)
                                \/ \E j \in Job : \/ Started(c, j)
                                                  \/ \E report \in Report : Result(c, j, report)
             \/ \E j \in Job : ApiStep(j)
             \/ \E S \in SUBSET Job : AckScan(S) \/ TimeoutScan(S)
             \/ \E S \in SUBSET Agent : HeartbeatScan(S)
             \/ UNCHANGED vars
      PROVE  UNCHANGED who /\ \A a \in Agent : registry'[a] \in {registry[a], Nil}
  BY <1>3 DEF AckNext, TimeoutNext, TimeoutReturn, Restart, Reboot, DispatchResume,
              DispatchReturn, Lose, HandlerEnd, Started, Result, ApiStep, Submit,
              CancelRequest, CancelReturn, AckScan, TimeoutScan, HeartbeatScan,
              vars, gateway
<1>. QED
  BY <1>1, <1>2, <1>3 DEF Next, Other, ConnStep, WatcherScan

(* A job is written to a socket only as the next one of the agent whose    *)
(* registered connection it is.                                            *)
Written ==
    \E a \in Agent, j \in Job, c \in Conn :
        /\ c = registry'[a]
        /\ IsNext(jobs', a, j)
        /\ sent' = [sent EXCEPT ![c] = @ \cup {j}]

LEMMA SentMoves ==
    ASSUME TypeOK, KnownRows, [Next]_vars
    PROVE  /\ Written \/ UNCHANGED sent
           /\ \A t \in Task : disp'[t].pc = "send" =>
                 \/ disp'[t] = disp[t]
                 \/ /\ disp'[t].conn \in Conn
                    /\ disp'[t].job \in sent'[disp'[t].conn]
<1>. /\ sent \in [Conn -> SUBSET Job] /\ disp \in [Task -> TaskState]
  BY DEF TypeOK
<1>1. ASSUME NEW t \in Task, NEW a \in Agent, Looks(t, a)
      PROVE  /\ Written \/ UNCHANGED sent
             /\ disp'[t].pc = "send" => /\ disp'[t].conn \in Conn
                                        /\ disp'[t].job \in sent'[disp'[t].conn]
             /\ \A u \in Task \ {t} : disp'[u] = disp[u]
  <2>1. CASE HandsOut(t, a)
    <3>1. PICK j \in Job, c \in Conn :
             /\ c = registry'[a]
             /\ IsNext(jobs', a, j)
             /\ disp'[t].job = j /\ disp'[t].conn = c
             /\ sent' = [sent EXCEPT ![c] = @ \cup {j}]
      BY <2>1, Zenon DEF HandsOut
    <3>2. Written
      BY <3>1, Zenon DEF Written
    <3>3. j \in sent'[c]
      BY <3>1
    <3>. QED
      BY <1>1, <3>1, <3>2, <3>3 DEF Looks
  <2>2. CASE ~HandsOut(t, a)
    BY <1>1, <2>2 DEF Looks
  <2>. QED
    BY <2>1, <2>2
<1>2. CASE \E t \in Task, a \in Agent : Visit(t, a)
  BY <1>1, <1>2 DEF Visit
<1>3. ASSUME NEW t \in Task, DispatchReturn(t)
      PROVE  UNCHANGED sent /\ \A u \in Task : disp'[u].pc = "send" => disp'[u] = disp[u]
  BY <1>3 DEF DispatchReturn, Idle
<1>4. CASE Apart
  BY <1>4 DEF Apart, dispatch
<1>5. CASE Restart
  BY <1>5 DEF Restart, Reboot, Idle
<1>. QED
  BY <1>2, <1>3, <1>4, <1>5, Moves

LEMMA SentGrows ==
    ASSUME TypeOK, Written \/ UNCHANGED sent
    PROVE  /\ \A c \in Conn : sent[c] \subseteq sent'[c]
           /\ \A c \in Conn : \A j \in sent'[c] : j \in Job
           /\ \A c \in Conn : \A j \in sent'[c] \ sent[c] :
                 \E a \in Agent : c = registry'[a] /\ IsNext(jobs', a, j)
<1>1. sent \in [Conn -> SUBSET Job]
  BY DEF TypeOK
<1>2. CASE Written
  <2>1. PICK a \in Agent, j \in Job, c \in Conn :
           /\ c = registry'[a]
           /\ IsNext(jobs', a, j)
           /\ sent' = [sent EXCEPT ![c] = @ \cup {j}]
    BY <1>2, Zenon DEF Written
  <2>2. /\ sent'[c] = sent[c] \cup {j}
        /\ \A d \in Conn \ {c} : sent'[d] = sent[d]
    BY <1>1, <2>1
  <2>3. \A d \in Conn : \A i \in sent'[d] \ sent[d] : d = c /\ i = j
    BY <2>2
  <2>4. \A d \in Conn : \A i \in sent'[d] \ sent[d] :
            \E b \in Agent : d = registry'[b] /\ IsNext(jobs', b, i)
    BY <2>1, <2>3, Zenon
  <2>. QED
    BY <1>1, <2>2, <2>4
<1>. QED
  BY <1>1, <1>2

(* Rows are never lost, and keep what decides their place in the queue.    *)
LEMMA RowsStay ==
    ASSUME TypeOK, Served \/ Inserted, NEW j \in Job, jobs[j].state # "ABSENT"
    PROVE  /\ jobs'[j].state # "ABSENT" /\ jobs'[j].agent = jobs[j].agent
           /\ jobs'[j].priority = jobs[j].priority
           /\ jobs'[j].created = jobs[j].created
<1>1. CASE Served
  BY <1>1 DEF Served, Uncharged, Charged, Kept
<1>2. CASE Inserted
  BY <1>2 DEF Inserted, TypeOK
<1>. QED
  BY <1>1, <1>2

LEMMA SentRowsStep ==
    ASSUME TypeOK, KnownRows, Registered', SentRows, RoutedToOwner,
           Served \/ Inserted, Written \/ UNCHANGED sent,
           \A c \in Conn : who[c] # Nil => who'[c] = who[c]
    PROVE  SentRows' /\ RoutedToOwner'
<1>. SUFFICES ASSUME NEW c \in Conn, NEW j \in sent'[c]
              PROVE  jobs'[j].state # "ABSENT" /\ jobs'[j].agent = who'[c]
  BY DEF SentRows, RoutedToOwner
<1>1. j \in Job
  BY SentGrows
<1>2. CASE j \in sent[c]
  <2>1. jobs[j].state # "ABSENT" /\ jobs[j].agent = who[c] /\ jobs[j].agent \in Agent
    BY <1>1, <1>2 DEF SentRows, RoutedToOwner, KnownRows
  <2>2. who[c] # Nil
    BY <2>1, StoreAssumption
  <2>. QED
    BY <1>1, <2>1, <2>2, RowsStay
<1>3. CASE j \notin sent[c]
  <2>1. PICK a \in Agent : c = registry'[a] /\ IsNext(jobs', a, j)
    BY <1>3, SentGrows
  <2>2. jobs'[j].state = "PENDING" /\ jobs'[j].agent = a
    BY <2>1 DEF IsNext, Pending
  <2>3. c # Nil
    BY ControlPlaneAssumption
  <2>4. who'[c] = a
    BY <2>1, <2>3 DEF Registered
  <2>. QED
    BY <2>2, <2>4
<1>. QED
  BY <1>2, <1>3

LEMMA SendsWrittenStep ==
    ASSUME TypeOK, KnownRows, SendsWritten, [Next]_vars
    PROVE  SendsWritten'
<1>. SUFFICES ASSUME NEW t \in Task, disp'[t].pc = "send"
              PROVE  disp'[t].job \in sent'[disp'[t].conn]
  BY DEF SendsWritten
<1>1. CASE disp'[t] = disp[t]
  <2>1. disp[t].conn \in Conn /\ disp[t].job \in sent[disp[t].conn]
    BY <1>1 DEF SendsWritten, TypeOK, TaskState, TaskShape
  <2>2. sent[disp[t].conn] \subseteq sent'[disp[t].conn]
    BY <2>1, SentMoves, SentGrows
  <2>. QED
    BY <1>1, <2>1, <2>2
<1>. QED
  BY <1>1, SentMoves

LEMMA DispatchedStep ==
    ASSUME TypeOK, SendsWritten, DispatchedWasSent, Served \/ Inserted,
           Written \/ UNCHANGED sent
    PROVE  DispatchedWasSent'
<1>. SUFFICES ASSUME NEW j \in Job,
                     \/ jobs'[j].attempts > 0 \/ jobs'[j].started
                     \/ jobs'[j].state = "DISPATCHED"
              PROVE  jobs'[j].attempts > 0 /\ j \in EverSent'
  BY DEF DispatchedWasSent
<1>1. j \in EverSent => j \in EverSent'
  BY SentGrows DEF EverSent
<1>2. jobs[j].attempts \in Nat
  BY DEF TypeOK, JobRow
<1>3. CASE Uncharged(jobs[j], jobs'[j])
  BY <1>1, <1>2, <1>3 DEF Uncharged, DispatchedWasSent
<1>4. CASE Charged(jobs[j], jobs'[j]) /\ Returns(j)
  <2>1. j \in EverSent
    <3>1. PICK t \in Task : disp[t].pc = "send" /\ disp[t].job = j
      BY <1>4 DEF Returns
    <3>2. disp[t].conn \in Conn /\ j \in sent[disp[t].conn]
      BY <3>1 DEF SendsWritten, TypeOK, TaskState, TaskShape
    <3>. QED
      BY <3>2 DEF EverSent
  <2>. QED
    BY <1>1, <1>2, <1>4, <2>1 DEF Charged
<1>5. ASSUME NEW r \in Job, NEW a \in Agent, NEW p \in Priority,
             NEW k \in Key \cup {Nil},
             jobs' = [jobs EXCEPT ![r] = NewRow(a, p, k, clock)]
      PROVE  jobs'[j].attempts > 0 /\ j \in EverSent'
  <2>1. clock \in Nat /\ jobs \in [Job -> JobRow]
    BY DEF TypeOK
  <2>2. j # r
    <3>1. jobs'[r] = NewRow(a, p, k, clock)
      BY <1>5, <2>1
    <3>2. LET row == NewRow(a, p, k, clock)
          IN  row.attempts = 0 /\ ~row.started /\ row.state = "PENDING"
      BY <2>1, NewRowFacts
    <3>3. /\ jobs'[r].attempts = 0 /\ ~jobs'[r].started
          /\ jobs'[r].state = "PENDING"
      BY <3>1, <3>2
    <3>. QED
      BY <3>3
  <2>3. jobs'[j] = jobs[j]
    BY <1>5, <2>1, <2>2
  <2>. QED
    BY <1>1, <2>3 DEF DispatchedWasSent
<1>. QED
  BY <1>3, <1>4, <1>5 DEF Served, Inserted

(* A row that has no attempt in the end had none before. *)
LEMMA FreshBefore ==
    ASSUME TypeOK, DispatchedWasSent, Served, NEW i \in Job, Fresh(i)'
    PROVE  /\ Fresh(i)
           /\ jobs'[i].agent = jobs[i].agent /\ jobs'[i].created = jobs[i].created
           /\ jobs'[i].priority = jobs[i].priority
<1>1. jobs[i].attempts \in Nat
  BY DEF TypeOK, JobRow
<1>2. jobs'[i].state = "PENDING" /\ jobs'[i].attempts = 0
  BY DEF Fresh
<1>3. Uncharged(jobs[i], jobs'[i])
  BY <1>2 DEF Served, Charged
<1>4. jobs[i].state = "DISPATCHED" => jobs[i].attempts > 0
  BY DEF DispatchedWasSent
<1>. QED
  BY <1>1, <1>2, <1>3, <1>4 DEF Fresh, Uncharged, Kept

(* A job is written to a socket when no earlier row of its agent waits     *)
(* with an equal or smaller priority; later insertions are newer, and a    *)
(* requeued row has had its first attempt.                                 *)
LEMMA SentInOrderStep ==
    ASSUME TypeOK, TypeOK', DispatchedWasSent, SentRows, ClockAhead, SentInOrder,
           Served \/ Inserted, Written \/ UNCHANGED sent
    PROVE  SentInOrder'
<1>. SUFFICES ASSUME NEW c \in Conn, NEW j \in sent'[c], NEW i \in Job, Fresh(i)',
                     jobs'[i].agent = jobs'[j].agent,
                     jobs'[i].created < jobs'[j].created
              PROVE  jobs'[i].priority > jobs'[j].priority
  BY DEF SentInOrder
<1>0. /\ j \in Job
      /\ jobs'[i].created \in Nat /\ jobs'[j].created \in Nat
      /\ jobs'[i].priority \in Nat /\ jobs'[j].priority \in Nat
  BY SentGrows DEF TypeOK, JobRow
<1>1. CASE j \notin sent[c]
  <2>1. PICK a \in Agent : IsNext(jobs', a, j)
    BY <1>1, SentGrows
  <2>2. jobs'[j].agent = a /\ \A x \in Pending(jobs', a) : ~Before(jobs', x, j)
    BY <2>1 DEF IsNext, Pending
  <2>3. i \in Pending(jobs', a)
    BY <2>2 DEF Pending, Fresh
  <2>4. ~Before(jobs', i, j)
    BY <2>2, <2>3
  <2>. QED
    BY <1>0, <2>4 DEF Before
<1>2. CASE j \in sent[c] /\ Served
  <2>1. jobs[j].state # "ABSENT"
    BY <1>2 DEF SentRows
  <2>2. /\ jobs'[j].agent = jobs[j].agent /\ jobs'[j].created = jobs[j].created
        /\ jobs'[j].priority = jobs[j].priority
    BY <1>0, <1>2, <2>1, RowsStay
  <2>3. /\ Fresh(i)
        /\ jobs'[i].agent = jobs[i].agent /\ jobs'[i].created = jobs[i].created
        /\ jobs'[i].priority = jobs[i].priority
    BY <1>2, FreshBefore
  <2>. QED
    BY <1>0, <1>2, <2>2, <2>3 DEF SentInOrder
<1>3. CASE j \in sent[c] /\ Inserted
  <2>1. PICK r \in Job, a \in Agent, p \in Priority, k \in Key \cup {Nil} :
           /\ jobs[r].state = "ABSENT"
           /\ jobs' = [jobs EXCEPT ![r] = NewRow(a, p, k, clock)]
    BY <1>3 DEF Inserted
  <2>2. /\ clock \in Nat /\ jobs \in [Job -> JobRow]
        /\ jobs[j].state # "ABSENT" /\ jobs[j].created \in Nat
        /\ jobs[j].created < clock
    BY <1>0, <1>3 DEF TypeOK, JobRow, SentRows, ClockAhead
  <2>3. j # r /\ jobs'[j] = jobs[j]
    BY <1>0, <2>1, <2>2
  <2>4. jobs'[r].created = clock
    <3>1. jobs'[r] = NewRow(a, p, k, clock)
      BY <2>1, <2>2
    <3>2. NewRow(a, p, k, clock).created = clock
      BY <2>2, NewRowFacts
    <3>. QED
      BY <3>1, <3>2
  <2>5. i # r
    BY <1>0, <2>2, <2>3, <2>4
  <2>6. jobs'[i] = jobs[i]
    BY <2>1, <2>2, <2>5
  <2>7. Fresh(i)
    BY <2>6 DEF Fresh
  <2>. QED
    BY <1>3, <2>3, <2>6, <2>7 DEF SentInOrder
<1>. QED
  BY <1>1, <1>2, <1>3

-----------------------------------------------------------------------------
(* No lost wake-up *)

(* A coroutine is about to look at the queue of agent a. *)
Looker(a) == \E t \in Task : /\ disp[t].agent = a
                             /\ disp[t].pc = "send" => disp[t].conn = registry[a]

LEMMA LookerOfDeliverable ==
    ASSUME NoMissedDispatch, NEW a \in Agent, Deliverable(a)
    PROVE  Looker(a)
  BY Zenon DEF NoMissedDispatch, Deliverable, Looker, Pending

(* The agent a step is not about keeps its queue and its lookers.          *)
LEMMA VisitSpares ==
    ASSUME TypeOK, Registered, NEW t \in Task, NEW a \in Agent, Visit(t, a),
           NEW b \in Agent \ {a}, Deliverable(b) => Looker(b), Deliverable(b)'
    PROVE  Looker(b)'
<1>1. /\ registry'[b] = registry[b] /\ link' = link
      /\ registry[b] \in Conn
  BY DEF Visit, Deliverable, TypeOK
<1>2. registry[b] # registry[a]
  BY <1>1, ControlPlaneAssumption DEF Registered
<1>3. inflight'[registry[b]] = inflight[registry[b]]
  BY <1>1, <1>2 DEF Visit
<1>4. Pending(jobs, b) # {}
  BY DEF Deliverable, Visit, Pending
<1>5. Deliverable(b)
  BY <1>1, <1>3, <1>4 DEF Deliverable
<1>6. PICK u \in Task : /\ disp[u].agent = b
                        /\ disp[u].pc = "send" => disp[u].conn = registry[b]
  BY <1>5 DEF Looker
<1>7. u # t
  BY <1>6, StoreAssumption DEF Visit
<1>8. disp'[u] = disp[u]
  BY <1>7 DEF Visit, Looks
<1>. QED
  BY <1>1, <1>6, <1>8 DEF Looker

LEMMA VisitServes ==
    ASSUME NEW t \in Task, NEW a \in Agent, Visit(t, a), Deliverable(a)'
    PROVE  Looker(a)'
<1>1. CASE HandsOut(t, a)
  <2>1. disp'[t].agent = a /\ disp'[t].conn = registry'[a]
    BY <1>1, Zenon DEF HandsOut
  <2>. QED
    BY <2>1 DEF Looker
<1>2. CASE disp'[t].pc = "lock" /\ disp'[t].agent = a
  BY <1>2 DEF Looker
<1>. QED
  BY <1>1, <1>2 DEF Visit, Looks

LEMMA WakeupStep ==
    ASSUME TypeOK, KnownRows, Registered, NoMissedDispatch, [Next]_vars
    PROVE  NoMissedDispatch'
<1>0. \A a \in Agent : Deliverable(a) => Looker(a)
  BY LookerOfDeliverable
<1>. SUFFICES ASSUME NEW a \in Agent, Deliverable(a)' PROVE Looker(a)'
  BY DEF NoMissedDispatch, Deliverable, Looker, Pending
<1>1. CASE \E t \in Task, b \in Agent : Visit(t, b)
  BY <1>0, <1>1, VisitSpares, VisitServes
<1>2. ASSUME NEW t \in Task, DispatchReturn(t) PROVE Looker(a)'
  <2>1. /\ UNCHANGED <<registry, link>> /\ registry[a] \in Conn
        /\ disp' = [disp EXCEPT ![t] = Idle]
        /\ disp \in [Task -> TaskState]
        /\ disp[t].job \in Job /\ disp[t].conn \in Conn
        /\ inflight \in [Conn -> Nat] /\ jobs \in [Job -> JobRow]
    BY <1>2 DEF TypeOK, TaskState, TaskShape, DispatchReturn, Deliverable
  <2>2. \/ link[disp[t].conn] # "open" /\ UNCHANGED <<jobs, inflight>>
        \/ /\ inflight' = [inflight EXCEPT ![disp[t].conn] = @ + 1]
           /\ jobs' = [jobs EXCEPT ![disp[t].job] = MarkDispatchedWithAttempt(@)]
    BY <1>2 DEF DispatchReturn
  <2>3. disp[t].conn # registry[a] /\ inflight'[registry[a]] = inflight[registry[a]]
    BY <2>1, <2>2 DEF Deliverable
  <2>4. Unfilled
    BY <2>1, <2>2, OneRow, NoRowChanges, OperationsKeep
  <2>5. Pending(jobs, a) # {}
    BY <2>4 DEF Deliverable, Pending, Unfilled, Unqueued, Uncharged, Charged, Kept
  <2>6. Deliverable(a)
    BY <2>1, <2>3, <2>5 DEF Deliverable
  <2>7. PICK u \in Task : /\ disp[u].agent = a
                          /\ disp[u].pc = "send" => disp[u].conn = registry[a]
    BY <1>0, <2>6 DEF Looker
  <2>8. u # t
    BY <1>2, <2>3, <2>7 DEF DispatchReturn
  <2>. QED
    BY <2>1, <2>7, <2>8 DEF Looker
<1>3. CASE Apart
  <2>1. /\ registry'[a] = registry[a] /\ registry[a] \in Conn
        /\ disp' = disp /\ inflight' = inflight
        /\ link[registry[a]] = "open"
    BY <1>3 DEF Apart, Deliverable, TypeOK, dispatch
  <2>2. Pending(jobs, a) # {}
    BY <1>3 DEF Apart, Deliverable, Pending, Unfilled, Unqueued, Uncharged, Charged, Kept
  <2>3. Looker(a)
    BY <1>0, <2>1, <2>2 DEF Deliverable
  <2>. QED
    BY <2>1, <2>3 DEF Looker
<1>4. CASE Restart
  BY <1>4 DEF Restart, Reboot, Deliverable
<1>. QED
  BY <1>1, <1>2, <1>3, <1>4, Moves

-----------------------------------------------------------------------------
LEMMA DInvStep == DInv /\ [Next]_vars => DInv'
<1>. SUFFICES ASSUME DInv, [Next]_vars PROVE DInv'
  OBVIOUS
<1>1. TypeOK /\ KnownRows /\ Registered
  BY DEF DInv, IInv
<1>2. IInv' /\ TypeOK'
  BY IInvStep DEF DInv, IInv
<1>3. Served \/ Inserted
  BY <1>1, TableMoves
<1>4. Written \/ UNCHANGED sent
  BY <1>1, SentMoves
<1>5. Registered' /\ \A c \in Conn : who[c] # Nil => who'[c] = who[c]
  BY <1>1, RegistryStep
<1>6. OutcomeConsistent' /\ OneJobPerKey' /\ ClockAhead'
  BY <1>1, <1>3, TableInvStep DEF DInv
<1>7. SentRows' /\ RoutedToOwner'
  BY <1>1, <1>3, <1>4, <1>5, SentRowsStep DEF DInv
<1>8. SendsWritten' /\ DispatchedWasSent' /\ SentInOrder'
  BY <1>1, <1>2, <1>3, <1>4, SendsWrittenStep, DispatchedStep, SentInOrderStep DEF DInv
<1>9. NoMissedDispatch'
  BY <1>1, WakeupStep DEF DInv
<1>. QED
  BY <1>2, <1>5, <1>6, <1>7, <1>8, <1>9 DEF DInv

LEMMA DispatchInvariance == Spec => []DInv
  BY InitDInv, DInvStep, PTL DEF Spec

(* A row carries an outcome exactly if it is finished, and the one that    *)
(* fits its state, for every interleaving of results, timeouts, cancels,   *)
(* requeues and give-ups.                                                  *)
THEOREM OutcomesFit == Spec => []OutcomeConsistent
<1>1. DInv => OutcomeConsistent
  BY DEF DInv
<1>. QED
  BY <1>1, DispatchInvariance, PTL

(* No two rows ever share an idempotency key, however many clients submit. *)
THEOREM KeysStayUnique == Spec => []OneJobPerKey
<1>1. DInv => OneJobPerKey
  BY DEF DInv
<1>. QED
  BY <1>1, DispatchInvariance, PTL

(* The table never claims a hand-out that did not happen. *)
THEOREM HandOutsHappened == Spec => []DispatchedWasSent
<1>1. DInv => DispatchedWasSent
  BY DEF DInv
<1>. QED
  BY <1>1, DispatchInvariance, PTL

(* A job is only ever written to connections of its own agent. *)
THEOREM RoutingKept == Spec => []RoutedToOwner
<1>1. DInv => RoutedToOwner
  BY DEF DInv
<1>. QED
  BY <1>1, DispatchInvariance, PTL

LEMMA OrderOfFirstDispatch ==
    ASSUME TypeOK, DispatchedWasSent, SentInOrder
    PROVE  FirstDispatchInOrder
<1>. SUFFICES ASSUME NEW i \in Job, NEW j \in Job,
                     jobs[i].state = "PENDING", jobs[i].attempts = 0,
                     jobs[j].attempts > 0, jobs[i].agent = jobs[j].agent,
                     jobs[i].created < jobs[j].created
              PROVE  jobs[i].priority > jobs[j].priority
  BY DEF FirstDispatchInOrder
<1>1. PICK c \in Conn : j \in sent[c]
  BY DEF DispatchedWasSent, EverSent
<1>. QED
  BY <1>1 DEF SentInOrder, Fresh

(* An agent's jobs get their first attempts in the order of their priority *)
(* and age, for any number of jobs, agents, connections and coroutines.    *)
THEOREM QueueingIsFair == Spec => []FirstDispatchInOrder
<1>1. DInv => FirstDispatchInOrder
  BY OrderOfFirstDispatch DEF DInv, IInv
<1>. QED
  BY <1>1, DispatchInvariance, PTL

(* A job waits for a free and connected agent only while some coroutine is *)
(* about to look at that agent's queue.                                    *)
THEOREM NoLostWakeUp == Spec => []NoMissedDispatch
<1>1. DInv => NoMissedDispatch
  BY DEF DInv
<1>. QED
  BY <1>1, DispatchInvariance, PTL
-----------------------------------------------------------------------------
(* One job at a time *)

(* The dispatch lock excludes: no two tasks send for one agent under the   *)
(* same lock object, and none has a lock object the agent never had.       *)
LockSound ==
    /\ \A t, u \in Task :
          /\ disp[t].pc = "send" /\ disp[u].pc = "send"
          /\ disp[t].agent = disp[u].agent /\ disp[t].gen = disp[u].gen
          => t = u
    /\ \A t \in Task : disp[t].pc # "idle" => disp[t].gen <= lockGen[disp[t].agent]

(* A task sends on a connection of its agent. *)
SendsOwn == \A t \in Task : disp[t].pc = "send" => who[disp[t].conn] = disp[t].agent

(* A connection nobody registered on is free; one whose agent still has    *)
(* its first lock is free whenever a task sends on it.                     *)
SlotsFit ==
    \A c \in Conn :
        IF who[c] = Nil THEN inflight[c] = 0
        ELSE link[c] # "ended" /\ lockGen[who[c]] = 0 =>
                 /\ inflight[c] <= 1
                 /\ \A t \in Task : disp[t].conn = c => inflight[c] = 0

(* Task t takes the lock, waits for it, or finds nothing to do. *)
TakesFor(t, a, g) ==
    \/ disp'[t] = Idle
    \/ disp'[t] = Waiting(a, g)
    \/ /\ \E j \in Job, c \in Conn :
              /\ c = registry'[a] /\ inflight'[c] = 0 /\ link[c] = "open"
              /\ jobs'[j].state = "PENDING"
              /\ disp'[t] = Sending(a, g, j, c)
       /\ \A u \in Task \ {t} : disp[u].pc = "send" =>
              disp[u].agent # a \/ disp[u].gen # g

Takes(t) ==
    /\ disp[t].pc # "send"
    /\ \A u \in Task \ {t} : disp'[u] = disp[u]
    /\ \E a \in Agent, g \in Nat : g <= lockGen[a] /\ TakesFor(t, a, g)
    /\ UNCHANGED <<link, lockGen, firing, cancelling>>
    /\ \A c \in Conn : inflight'[c] <= inflight[c]

LEMMA AttemptTakes ==
    ASSUME TypeOK, NEW t \in Task, NEW a \in Agent, NEW g \in Nat,
           registry' \in [Agent -> Conn \cup {Nil}],
           \A u \in Task \ {t} : disp[u].pc = "send" =>
              disp[u].agent # a \/ disp[u].gen # g,
           Attempt(t, a, g)
    PROVE  TakesFor(t, a, g) /\ \A u \in Task \ {t} : disp'[u] = disp[u]
<1>1. disp \in [Task -> TaskState]
  BY DEF TypeOK
<1>2. CASE disp' = [disp EXCEPT ![t] = Idle]
  BY <1>1, <1>2 DEF TakesFor
<1>3. ASSUME NEW j \in Job, registry'[a] # Nil, inflight'[registry'[a]] = 0,
             link[registry'[a]] = "open", IsNext(jobs', a, j),
             disp' = [disp EXCEPT ![t] = Sending(a, g, j, registry'[a])]
      PROVE  TakesFor(t, a, g) /\ \A u \in Task \ {t} : disp'[u] = disp[u]
  <2>1. /\ registry'[a] \in Conn /\ disp'[t] = Sending(a, g, j, registry'[a])
        /\ jobs'[j].state = "PENDING"
    BY <1>1, <1>3 DEF IsNext, Pending
  <2>. QED
    BY <1>1, <1>3, <2>1, Zenon DEF TakesFor
<1>. QED
  BY <1>2, <1>3 DEF Attempt

LEMMA EnterTakes ==
    ASSUME TypeOK, NEW t \in Task, NEW a \in Agent, disp[t].pc = "idle",
           registry' \in [Agent -> Conn \cup {Nil}],
           UNCHANGED <<link, lockGen, firing, cancelling>>,
           \A c \in Conn : inflight'[c] <= inflight[c],
           EnterDispatch(t, a)
    PROVE  Takes(t)
<1>1. disp \in [Task -> TaskState] /\ lockGen[a] \in Nat
  BY DEF TypeOK
<1>2. CASE disp' = [disp EXCEPT ![t] = Waiting(a, lockGen[a])]
  <2>1. TakesFor(t, a, lockGen[a]) /\ \A u \in Task \ {t} : disp'[u] = disp[u]
    BY <1>1, <1>2 DEF TakesFor
  <2>. QED
    BY <1>1, <2>1 DEF Takes
<1>3. CASE ~LockBusy(a, lockGen[a]) /\ Attempt(t, a, lockGen[a])
  <2>1. TakesFor(t, a, lockGen[a]) /\ \A u \in Task \ {t} : disp'[u] = disp[u]
    BY <1>1, <1>3, AttemptTakes DEF LockBusy
  <2>. QED
    BY <1>1, <2>1 DEF Takes
<1>. QED
  BY <1>2, <1>3 DEF EnterDispatch

(* A step that takes no lock and returns from no send. *)
Aside ==
    /\ UNCHANGED <<disp, inflight, who>>
    /\ \A a \in Agent : lockGen'[a] >= lockGen[a]
    /\ \A c \in Conn : link[c] = "ended" => link'[c] = "ended"

LEMMA LockMoves ==
    ASSUME TypeOK, KnownRows, LockSound, [Next]_vars
    PROVE  \/ \E t \in Task : Takes(t) \/ DispatchReturn(t)
           \/ Aside \/ Restart
<1>0. /\ registry \in [Agent -> Conn \cup {Nil}] /\ inflight \in [Conn -> Nat]
      /\ lockGen \in [Agent -> Nat] /\ who \in [Conn -> Agent \cup {Nil}]
  BY DEF TypeOK
<1>1. UNCHANGED gateway => /\ registry' \in [Agent -> Conn \cup {Nil}]
                           /\ UNCHANGED <<link, lockGen, who>>
                           /\ \A c \in Conn : inflight'[c] <= inflight[c]
  BY <1>0 DEF gateway
<1>2. UNCHANGED gateway /\ UNCHANGED dispatch => Aside
  BY <1>0 DEF gateway, dispatch, Aside
<1>3. CASE AckNext
  <2>1. /\ AckTask \in Task /\ disp[AckTask].pc = "idle"
        /\ UNCHANGED gateway /\ UNCHANGED <<firing, cancelling>>
    BY <1>3 DEF Task, AckNext, AckRuns
  <2>2. PICK j \in Job : /\ IsNewest(j, AckBacklog)
                         /\ UNCHANGED dispatch \/ EnterDispatch(AckTask, jobs[j].agent)
    BY <1>3, Zenon DEF AckNext
  <2>3. jobs[j].agent \in Agent
    BY <2>2 DEF TypeOK, KnownRows, IsNewest
  <2>. QED
    BY <1>1, <1>2, <2>1, <2>2, <2>3, EnterTakes
<1>4. ASSUME NEW c \in Conn, NEW a \in Agent, Register(c, a) PROVE c \in Task /\ Takes(c)
  <2>1. c \in Task /\ disp[c].pc = "idle"
    BY <1>4 DEF Task, Register, Listening
  <2>2. /\ registry' \in [Agent -> Conn \cup {Nil}]
        /\ UNCHANGED <<link, lockGen, inflight, firing, cancelling>>
        /\ EnterDispatch(c, a)
    BY <1>0, <1>4 DEF Register, watchers
  <2>. QED
    BY <1>0, <2>1, <2>2, EnterTakes
<1>5. ASSUME NEW c \in Conn, NEW j \in Job, NEW report \in Report, Result(c, j, report)
      PROVE  c \in Task /\ Takes(c)
  <2>1. c \in Task /\ disp[c].pc = "idle" /\ who[c] \in Agent
    BY <1>0, <1>5 DEF Task, Result, Handles, Listening
  <2>2. /\ registry' \in [Agent -> Conn \cup {Nil}]
        /\ UNCHANGED <<link, lockGen, firing, cancelling>>
        /\ EnterDispatch(c, who[c])
    BY <1>0, <1>5 DEF Result, watchers
  <2>3. \A d \in Conn : inflight'[d] <= inflight[d]
    BY <1>0, <1>5, <2>1 DEF Result, FreeSlot
  <2>. QED
    BY <2>1, <2>2, <2>3, EnterTakes
<1>6. ASSUME NEW r \in Job, NEW a \in Agent, NEW p \in Priority, NEW k \in Key \cup {Nil},
             Submit(r, a, p, k)
      PROVE  r \in Task /\ Takes(r)
  <2>1. /\ r \in Task /\ disp[r].pc = "idle" /\ UNCHANGED gateway
        /\ EnterDispatch(r, a) /\ UNCHANGED <<firing, cancelling>>
    BY <1>6 DEF Task, Submit, watchers
  <2>. QED
    BY <1>1, <2>1, EnterTakes
<1>7. ASSUME NEW t \in Task, DispatchResume(t) PROVE Takes(t)
  <2>1. /\ disp[t].agent \in Agent /\ disp[t].gen \in Nat /\ disp[t].pc = "lock"
        /\ UNCHANGED gateway /\ UNCHANGED <<firing, cancelling>>
    BY <1>7 DEF TypeOK, TaskState, TaskShape, DispatchResume, watchers
  <2>4. disp[t].gen <= lockGen[disp[t].agent]
    BY <2>1 DEF LockSound
  <2>2. \A u \in Task \ {t} : disp[u].pc = "send" =>
            disp[u].agent # disp[t].agent \/ disp[u].gen # disp[t].gen
    BY <1>7 DEF DispatchResume
  <2>3. /\ TakesFor(t, disp[t].agent, disp[t].gen)
        /\ \A u \in Task \ {t} : disp'[u] = disp[u]
    BY <1>1, <1>7, <2>1, <2>2, AttemptTakes DEF DispatchResume
  <2>. QED
    BY <1>1, <2>1, <2>3, <2>4 DEF Takes
<1>8. CASE \/ TimeoutNext \/ TimeoutReturn
           \/ \E c \in Conn : \E j \in Job : Started(c, j)
           \/ \E j \in Job : CancelRequest(j) \/ CancelReturn(j)
           \/ \E S \in SUBSET Job : AckScan(S) \/ TimeoutScan(S)
           \/ UNCHANGED vars
  BY <1>2, <1>8, Zenon DEF TimeoutNext, TimeoutReturn, Started, CancelRequest, CancelReturn,
                           AckScan, TimeoutScan, vars
<1>9. ASSUME \/ \E c \in Conn : Lose(c) \/ HandlerEnd(c)
             \/ \E S \in SUBSET Agent : HeartbeatScan(S)
      PROVE  Aside
  BY <1>0, <1>9 DEF Lose, HandlerEnd, HeartbeatScan, Aside, dispatch, TypeOK
<1>. QED
  BY <1>3, <1>4, <1>5, <1>6, <1>7, <1>8, <1>9, Zenon
     DEF Next, Other, ConnStep, ApiStep, WatcherScan

(* What a task that takes the lock does to the two invariants. *)
LEMMA TakesLocks ==
    ASSUME TypeOK, TypeOK', LockSound, NEW t \in Task, Takes(t)
    PROVE  LockSound'
<1>. disp \in [Task -> TaskState] /\ disp' \in [Task -> TaskState]
  BY DEF TypeOK
<1>1. PICK a \in Agent, g \in Nat : g <= lockGen[a] /\ TakesFor(t, a, g)
  BY DEF Takes
<1>2. disp'[t].pc # "idle" => disp'[t].agent = a /\ disp'[t].gen = g
  BY <1>1 DEF TakesFor, Idle, Waiting, Sending
<1>3. disp'[t].pc = "send" => \A u \in Task \ {t} : disp[u].pc = "send" =>
          disp[u].agent # a \/ disp[u].gen # g
  BY <1>1 DEF TakesFor, Idle, Waiting
<1>4. (\A u \in Task \ {t} : disp'[u] = disp[u]) /\ UNCHANGED lockGen
  BY DEF Takes
<1>. QED
  BY <1>1, <1>2, <1>3, <1>4 DEF LockSound

LEMMA NoNil == Nil \notin Conn /\ Nil \notin Agent
  BY StoreAssumption, ControlPlaneAssumption

LEMMA TakesSlots ==
    ASSUME TypeOK, TypeOK', LockSound, SendsOwn, SlotsFit, Registered',
           \A c \in Conn : who[c] # Nil => who'[c] = who[c],
           NEW t \in Task, Takes(t)
    PROVE  SendsOwn' /\ SlotsFit'
<1>. /\ disp \in [Task -> TaskState] /\ disp' \in [Task -> TaskState]
     /\ inflight \in [Conn -> Nat] /\ inflight' \in [Conn -> Nat]
     /\ \A u \in Task : TaskShape(disp[u])
     /\ Nil \notin Conn /\ Nil \notin Agent
  BY NoNil DEF TypeOK
<1>1. PICK a \in Agent, g \in Nat : g <= lockGen[a] /\ TakesFor(t, a, g)
  BY DEF Takes
<1>2. \A u \in Task \ {t} : disp'[u] = disp[u]
  BY DEF Takes
<1>3. disp'[t].conn \in Conn =>
          /\ disp'[t].agent = a /\ disp'[t].conn = registry'[a]
          /\ inflight'[disp'[t].conn] = 0
  BY <1>1 DEF TakesFor, Idle, Waiting, Sending
<1>4. disp'[t].pc = "send" => disp'[t].conn \in Conn
  BY <1>1 DEF TakesFor, Idle, Waiting, Sending
<1>5. disp'[t].conn \in Conn => who'[disp'[t].conn] = a
  BY <1>3 DEF Registered
<1>6. ASSUME NEW u \in Task \ {t}, disp[u].pc = "send"
      PROVE  who'[disp[u].conn] = disp[u].agent
  BY <1>6 DEF SendsOwn, TaskShape, TaskState
<1>7. SendsOwn'
  BY <1>2, <1>3, <1>4, <1>5, <1>6 DEF SendsOwn
<1>8. ASSUME NEW c \in Conn
      PROVE  IF who'[c] = Nil THEN inflight'[c] = 0
             ELSE link'[c] # "ended" /\ lockGen'[who'[c]] = 0 =>
                      /\ inflight'[c] <= 1
                      /\ \A u \in Task : disp'[u].conn = c => inflight'[c] = 0
  <2>1. inflight'[c] <= inflight[c] /\ UNCHANGED <<link, lockGen>>
    BY DEF Takes
  <2>2. CASE who[c] = Nil
    <3>1. inflight[c] = 0
      BY <2>2 DEF SlotsFit
    <3>. QED
      BY <2>1, <3>1
  <2>3. CASE who[c] # Nil /\ link[c] # "ended" /\ lockGen[who[c]] = 0
    <3>1. who'[c] = who[c]
      BY <2>3
    <3>2. inflight[c] <= 1 /\ \A u \in Task : disp[u].conn = c => inflight[c] = 0
      BY <2>3 DEF SlotsFit
    <3>3. \A u \in Task : disp'[u].conn = c => inflight'[c] = 0
      BY <1>2, <1>3, <2>1, <3>2
    <3>. QED
      BY <2>1, <2>3, <3>1, <3>2, <3>3
  <2>4. CASE who[c] # Nil /\ ~(link[c] # "ended" /\ lockGen[who[c]] = 0)
    BY <2>1, <2>4
  <2>. QED
    BY <2>2, <2>3, <2>4
<1>. QED
  BY <1>7, <1>8 DEF SlotsFit

(* The task that returns from a send was the only one to send there. *)
LEMMA ReturnSlots ==
    ASSUME TypeOK, LockSound, SendsOwn, SlotsFit, NEW t \in Task, DispatchReturn(t)
    PROVE  LockSound' /\ SendsOwn' /\ SlotsFit'
<1>. DEFINE d == disp[t].conn
<1>1. /\ disp \in [Task -> TaskState] /\ inflight \in [Conn -> Nat]
      /\ \A u \in Task : TaskShape(disp[u])
      /\ Nil \notin Conn /\ Nil \notin Agent
  BY NoNil DEF TypeOK
<1>2. /\ disp[t].pc = "send" /\ disp' = [disp EXCEPT ![t] = Idle]
      /\ UNCHANGED inflight \/ inflight' = [inflight EXCEPT ![d] = @ + 1]
      /\ UNCHANGED <<who, link, lockGen>>
  BY DEF DispatchReturn
<1>3. disp'[t].pc = "idle" /\ disp'[t].conn = Nil /\ \A u \in Task \ {t} : disp'[u] = disp[u]
  BY <1>1, <1>2 DEF Idle
<1>4. LockSound' /\ SendsOwn'
  BY <1>2, <1>3 DEF LockSound, SendsOwn
<1>5. d \in Conn /\ who[d] = disp[t].agent /\ who[d] # Nil
  BY <1>1, <1>2 DEF SendsOwn, TaskShape, TaskState
<1>6. ASSUME lockGen[who[d]] = 0, NEW u \in Task \ {t}, disp[u].conn = d PROVE FALSE
  <2>1. disp[u].pc = "send"
    BY <1>1, <1>5, <1>6 DEF TaskShape, Idle, TaskState
  <2>2. disp[u].agent = who[d]
    BY <1>6, <2>1 DEF SendsOwn
  <2>3. disp[u].gen = 0 /\ disp[t].gen = 0
    BY <1>1, <1>2, <1>5, <1>6, <2>1, <2>2 DEF LockSound, TaskState
  <2>. QED
    BY <1>2, <1>5, <1>6, <2>1, <2>2, <2>3 DEF LockSound
<1>7. ASSUME NEW c \in Conn
      PROVE  IF who[c] = Nil THEN inflight'[c] = 0
             ELSE link[c] # "ended" /\ lockGen[who[c]] = 0 =>
                      /\ inflight'[c] <= 1
                      /\ \A u \in Task : disp'[u].conn = c => inflight'[c] = 0
  <2>1. CASE c # d
    BY <1>1, <1>2, <1>3, <2>1 DEF SlotsFit
  <2>2. CASE c = d /\ link[c] # "ended" /\ lockGen[who[c]] = 0
    <3>1. inflight[c] = 0
      BY <1>5, <2>2 DEF SlotsFit
    <3>2. \A u \in Task : disp'[u].conn # c
      BY <1>1, <1>3, <1>5, <1>6, <2>2
    <3>. QED
      BY <1>1, <1>2, <1>5, <2>2, <3>1, <3>2
  <2>. QED
    BY <1>5, <2>1, <2>2
<1>. QED
  BY <1>2, <1>4, <1>7 DEF SlotsFit

LockInv == LockSound /\ SendsOwn /\ SlotsFit

LEMMA InitLockInv == Init => LockInv
  BY DEF Init, Idle, LockInv, LockSound, SendsOwn, SlotsFit

LEMMA LockInvStep ==
    ASSUME TypeOK, TypeOK', KnownRows, Registered, LockInv, [Next]_vars
    PROVE  LockInv'
<1>. LockSound /\ SendsOwn /\ SlotsFit
  BY DEF LockInv
<1>1. Registered' /\ \A c \in Conn : who[c] # Nil => who'[c] = who[c]
  BY RegistryStep
<1>2. ASSUME NEW t \in Task, Takes(t) \/ DispatchReturn(t) PROVE LockInv'
  BY <1>1, <1>2, TakesLocks, TakesSlots, ReturnSlots DEF LockInv
<1>3. CASE Aside
  <2>1. \A t \in Task : disp[t].pc # "idle" => disp[t].agent \in Agent /\ disp[t].gen \in Nat
    BY DEF TypeOK, TaskShape, TaskState
  <2>2. LockSound' /\ SendsOwn'
    BY <1>3, <2>1 DEF Aside, LockSound, SendsOwn, TypeOK
  <2>3. SlotsFit'
    BY <1>3 DEF Aside, SlotsFit, TypeOK
  <2>. QED
    BY <2>2, <2>3 DEF LockInv
<1>4. CASE Restart
  <2>1. \A t \in Task : disp'[t] = Idle
    BY <1>4 DEF Restart, Reboot
  <2>2. LockSound' /\ SendsOwn'
    BY <2>1 DEF Idle, LockSound, SendsOwn
  <2>3. UNCHANGED <<inflight, who>> /\ \A c \in Conn : who[c] # Nil => link'[c] = "ended"
    BY <1>4 DEF Restart, Reboot
  <2>4. SlotsFit'
    BY <2>3 DEF SlotsFit
  <2>. QED
    BY <2>2, <2>4 DEF LockInv
<1>. QED
  BY <1>2, <1>3, <1>4, LockMoves

LEMMA LockedOneAtATime ==
    ASSUME TypeOK, LockInv
    PROVE  OneAtATime
<1>. SUFFICES ASSUME NEW c \in Conn, link[c] # "ended", who[c] # Nil, lockGen[who[c]] = 0
              PROVE  inflight[c] + Cardinality({t \in Task : disp[t].conn = c}) <= 1
  BY DEF OneAtATime
<1>. DEFINE T == {t \in Task : disp[t].conn = c}
<1>1. /\ inflight[c] \in Nat /\ inflight[c] <= 1
      /\ \A t \in Task : disp[t].conn = c => inflight[c] = 0
  BY DEF TypeOK, LockInv, SlotsFit
<1>2. CASE T = {}
  <2>1. Cardinality(T) = 0
    BY <1>2, FS_EmptySet, Zenon
  <2>. QED
    BY <1>1, <2>1
<1>3. ASSUME NEW t \in T PROVE T = {t}
  <2>1. ASSUME NEW u \in T
        PROVE  disp[u].pc = "send" /\ disp[u].agent = who[c] /\ disp[u].gen = 0
    <3>0. disp[u] \in TaskState /\ TaskShape(disp[u]) /\ disp[u].conn = c /\ c # Nil
      BY NoNil DEF TypeOK
    <3>1. disp[u].pc = "send"
      BY <3>0 DEF TaskShape, Idle, TaskState
    <3>. QED
      BY <3>0, <3>1 DEF TypeOK, TaskState, LockInv, LockSound, SendsOwn
  <2>. QED
    BY <2>1 DEF LockInv, LockSound
<1>4. CASE T # {}
  <2>1. PICK t \in T : T = {t}
    BY <1>3, <1>4
  <2>2. Cardinality(T) = 1
    BY <2>1, FS_Singleton
  <2>. QED
    BY <1>1, <2>1, <2>2
<1>. QED
  BY <1>2, <1>4

(* One job at a time: until the end of one of an agent's handlers drops    *)
(* its dispatch lock, no connection of the agent ever has two jobs charged *)
(* to it or on their way to it, for any number of jobs, agents and         *)
(* connections, and however requests, results and requeues race for the    *)
(* agent.                                                                  *)
THEOREM OneJobAtATime == Spec => []OneAtATime
<1>1. Init => DInv /\ LockInv
  BY InitDInv, InitLockInv
<1>2. DInv /\ LockInv /\ [Next]_vars => DInv' /\ LockInv'
  BY DInvStep, LockInvStep DEF DInv, IInv
<1>3. DInv /\ LockInv => OneAtATime
  BY LockedOneAtATime DEF DInv, IInv
<1>. QED
  BY <1>1, <1>2, <1>3, PTL DEF Spec
=============================================================================
