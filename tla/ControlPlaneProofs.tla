------------------------- MODULE ControlPlaneProofs -------------------------
(***************************************************************************)
(* Theorems about ControlPlane, for every number of jobs, agents and       *)
(* connections and every MaxAttempts and MaxRestarts.                      *)
(***************************************************************************)
EXTENDS ControlPlane, JobStoreProofs

(* The part of TypeOK that dispatch_pending changes. *)
DispatchTyped ==
    /\ disp \in [Task -> TaskState]
    /\ \A t \in Task : TaskShape(disp[t])
    /\ sent \in [Conn -> SUBSET Job]

(* Every row names an agent, only rows are charged attempts, and the       *)
(* coroutines that remember a job across an await, a cancel request and    *)
(* the AckWatcher's scan, remember rows.                                   *)
KnownRows ==
    /\ \A j \in Job : jobs[j].state = "ABSENT" => jobs[j].attempts = 0
    /\ \A j \in Job : jobs[j].state # "ABSENT" => jobs[j].agent \in Agent
    /\ \A j \in cancelling \cup AckBacklog : jobs[j].state # "ABSENT"

-----------------------------------------------------------------------------
(* Type correctness *)

LEMMA TaskStates ==
    /\ Idle \in TaskState /\ TaskShape(Idle)
    /\ \A a \in Agent, g \in Nat :
          Waiting(a, g) \in TaskState /\ TaskShape(Waiting(a, g))
    /\ \A a \in Agent, g \in Nat, j \in Job, c \in Conn :
          Sending(a, g, j, c) \in TaskState /\ TaskShape(Sending(a, g, j, c))
<1>1. Nil \notin Agent \cup Job \cup Conn
  BY StoreAssumption, ControlPlaneAssumption
<1>. QED
  BY <1>1 DEF Idle, Waiting, Sending, TaskState, TaskShape

LEMMA AttemptTyped ==
    ASSUME NEW t \in Task, NEW a \in Agent, NEW g \in Nat,
           DispatchTyped, registry' \in [Agent -> Conn \cup {Nil}],
           Attempt(t, a, g)
    PROVE  DispatchTyped'
<1>. DEFINE c == registry'[a]
<1>1. CASE \E j \in Job : /\ c # Nil
                          /\ disp' = [disp EXCEPT ![t] = Sending(a, g, j, c)]
                          /\ sent' = [sent EXCEPT ![c] = @ \cup {j}]
  <2>1. PICK j \in Job : /\ c # Nil
                         /\ disp' = [disp EXCEPT ![t] = Sending(a, g, j, c)]
                         /\ sent' = [sent EXCEPT ![c] = @ \cup {j}]
    BY <1>1
  <2>2. c \in Conn
    BY <2>1
  <2>3. Sending(a, g, j, c) \in TaskState /\ TaskShape(Sending(a, g, j, c))
    BY <2>2, TaskStates
  <2>4. \A u \in Task : disp'[u] = IF u = t THEN Sending(a, g, j, c) ELSE disp[u]
    BY <2>1 DEF DispatchTyped
  <2>. QED
    BY <2>1, <2>2, <2>3, <2>4 DEF DispatchTyped
<1>2. CASE disp' = [disp EXCEPT ![t] = Idle] /\ UNCHANGED sent
  BY <1>2, TaskStates DEF DispatchTyped
<1>. QED
  BY <1>1, <1>2 DEF Attempt

LEMMA EnterDispatchTyped ==
    ASSUME NEW t \in Task, NEW a \in Agent,
           DispatchTyped, lockGen \in [Agent -> Nat],
           registry' \in [Agent -> Conn \cup {Nil}],
           EnterDispatch(t, a)
    PROVE  DispatchTyped'
<1>1. CASE disp' = [disp EXCEPT ![t] = Waiting(a, lockGen[a])] /\ UNCHANGED sent
  BY <1>1, TaskStates DEF DispatchTyped
<1>2. CASE Attempt(t, a, lockGen[a])
  BY <1>2, AttemptTyped
<1>. QED
  BY <1>1, <1>2 DEF EnterDispatch

(* Every kind of report stores an outcome in a RUNNING row and leaves any  *)
(* other row alone.                                                        *)
LEMMA CompleteFacts ==
    ASSUME NEW row \in JobRow, NEW report \in Report
    PROVE  /\ Complete(row, report) \in JobRow
           /\ HandlerEdge(row, Complete(row, report))
<1>1. PICK new \in {"SUCCEEDED", "FAILED"}, exit \in Int, error \in {Nil, "reported"} :
         Complete(row, report) = CompleteIfRunning(row, new, exit, error)
  <2>0. 0 \in Int /\ 1 \in Int
    OBVIOUS
  <2>1. CASE report = "error"
    <3>1. Complete(row, report) = CompleteIfRunning(row, "FAILED", 1, "reported")
      BY <2>1, Zenon DEF Complete, MarkFailed
    <3>. QED
      BY <2>0, <3>1, Zenon
  <2>2. CASE report = "exit 0"
    <3>1. Complete(row, report) = CompleteIfRunning(row, "SUCCEEDED", 0, Nil)
      BY <2>2, Zenon DEF Complete, MarkSucceeded
    <3>. QED
      BY <2>0, <3>1, Zenon
  <2>3. CASE report = "exit 1"
    <3>1. Complete(row, report) = CompleteIfRunning(row, "FAILED", 1, Nil)
      BY <2>3, Zenon DEF Complete, MarkFailed
    <3>. QED
      BY <2>0, <3>1, Zenon
  <2>. QED
    BY <2>1, <2>2, <2>3, ControlPlaneAssumption
<1>2. new \in JobState
  BY StateNames
<1>. QED
  BY <1>1, <1>2, CompleteIfRunningFacts, ResultEdge

LEMMA TypeInit == Init => TypeOK
<1>. SUFFICES ASSUME Init PROVE TypeOK
  OBVIOUS
<1>1. jobs \in [Job -> JobRow]
  BY NoRowType DEF Init
<1>2. DispatchTyped
  BY TaskStates DEF Init, DispatchTyped
<1>3. restarts \in 0 .. MaxRestarts
  <2>1. MaxRestarts \in Nat
    BY ControlPlaneAssumption
  <2>. QED
    BY <2>1 DEF Init
<1>. QED
  BY <1>1, <1>2, <1>3 DEF Init, TypeOK, DispatchTyped

LEMMA TimedOutType ==
    ASSUME NEW row \in JobRow
    PROVE  MarkTimedOut(row) \in JobRow /\ MarkRunning(row) \in JobRow
           /\ Requeue(row) \in JobRow
  BY TransitionIfFacts, StateNames DEF MarkTimedOut, MarkRunning, Requeue

LEMMA DispatchSteps ==
    ASSUME TypeOK, NEW t \in Task, DispatchResume(t) \/ DispatchReturn(t)
    PROVE  TypeOK'
<1>1. CASE DispatchResume(t)
  <2>1. disp[t].agent \in Agent /\ disp[t].gen \in Nat
    BY <1>1 DEF TypeOK, TaskState, TaskShape, DispatchResume
  <2>2. registry' \in [Agent -> Conn \cup {Nil}] /\ DispatchTyped
    BY <1>1 DEF TypeOK, DispatchTyped, DispatchResume, gateway
  <2>3. DispatchTyped'
    BY <1>1, <2>1, <2>2, AttemptTyped DEF DispatchResume
  <2>. QED
    BY <1>1, <2>3 DEF TypeOK, DispatchTyped, DispatchResume, gateway, watchers
<1>2. CASE DispatchReturn(t)
  <2>1. disp[t].conn \in Conn /\ disp[t].job \in Job
    BY <1>2 DEF TypeOK, TaskState, TaskShape, DispatchReturn
  <2>2. jobs' \in [Job -> JobRow] /\ inflight' \in [Conn -> Nat]
    BY <1>2, <2>1, MarkDispatchedFacts DEF TypeOK, DispatchReturn
  <2>3. DispatchTyped'
    BY <1>2, TaskStates DEF TypeOK, DispatchTyped, DispatchReturn
  <2>. QED
    BY <1>2, <2>2, <2>3 DEF TypeOK, DispatchTyped, DispatchReturn, watchers
<1>. QED
  BY <1>1, <1>2

LEMMA ConnSteps ==
    ASSUME TypeOK, NEW c \in Conn, ConnStep(c)
    PROVE  TypeOK'
<1>. c \in Task
  BY DEF Task
<1>. DispatchTyped
  BY DEF TypeOK, DispatchTyped
<1>1. ASSUME NEW a \in Agent, Register(c, a) PROVE TypeOK'
  <2>1. /\ registry' \in [Agent -> Conn \cup {Nil}]
        /\ who' \in [Conn -> Agent \cup {Nil}]
    BY <1>1 DEF TypeOK, Register
  <2>2. DispatchTyped'
    BY <1>1, <2>1, EnterDispatchTyped DEF TypeOK, Register
  <2>. QED
    BY <1>1, <2>1, <2>2 DEF TypeOK, DispatchTyped, Register, watchers
<1>2. ASSUME NEW j \in Job, Started(c, j) PROVE TypeOK'
  <2>1. jobs' \in [Job -> JobRow]
    BY <1>2, TimedOutType DEF TypeOK, Started
  <2>. QED
    BY <1>2, <2>1 DEF TypeOK, Started, gateway, dispatch, watchers
<1>3. ASSUME NEW j \in Job, NEW report \in Report, Result(c, j, report) PROVE TypeOK'
  <2>1. who[c] \in Agent
    BY <1>3 DEF TypeOK, Result, Handles
  <2>2. jobs' \in [Job -> JobRow]
    BY <1>3, CompleteFacts DEF TypeOK, Result
  <2>3. registry[who[c]] \in Conn \cup {Nil}
    BY <2>1 DEF TypeOK
  <2>4. inflight' \in [Conn -> Nat]
    BY <1>3, <2>3 DEF TypeOK, Result, FreeSlot
  <2>5. DispatchTyped'
    BY <1>3, <2>1, EnterDispatchTyped DEF TypeOK, Result
  <2>. QED
    BY <1>3, <2>2, <2>4, <2>5 DEF TypeOK, DispatchTyped, Result, watchers
<1>4. ASSUME Lose(c) PROVE TypeOK'
  BY <1>4 DEF TypeOK, Lose, dispatch, watchers
<1>5. ASSUME HandlerEnd(c) PROVE TypeOK'
  <2>1. who[c] \in Agent
    BY <1>5 DEF TypeOK, HandlerEnd, Handles
  <2>2. /\ link' \in [Conn -> {"open", "lost", "ended"}]
        /\ registry' \in [Agent -> Conn \cup {Nil}]
        /\ lockGen' \in [Agent -> Nat]
    BY <1>5, <2>1 DEF TypeOK, HandlerEnd
  <2>. QED
    BY <1>5, <2>2 DEF TypeOK, HandlerEnd, dispatch, watchers
<1>. QED
  BY <1>1, <1>2, <1>3, <1>4, <1>5 DEF ConnStep

LEMMA ApiSteps ==
    ASSUME TypeOK, NEW j \in Job, ApiStep(j)
    PROVE  TypeOK'
<1>1. ASSUME NEW a \in Agent, NEW p \in Priority, NEW k \in Key \cup {Nil},
             Submit(j, a, p, k)
      PROVE  TypeOK'
  <2>1. j \in Task /\ DispatchTyped
    BY DEF Task, TypeOK, DispatchTyped
  <2>2. NewRow(a, p, k, clock) \in JobRow
    BY NewRowType DEF TypeOK
  <2>3. jobs' \in [Job -> JobRow] /\ clock' \in Nat
    BY <1>1, <2>2 DEF TypeOK, Submit
  <2>4. DispatchTyped'
    BY <1>1, <2>1, EnterDispatchTyped DEF TypeOK, Submit, gateway
  <2>. QED
    BY <1>1, <2>3, <2>4 DEF TypeOK, DispatchTyped, Submit, gateway, watchers
<1>2. ASSUME CancelRequest(j) \/ CancelReturn(j) PROVE TypeOK'
  <2>1. jobs' \in [Job -> JobRow]
    BY <1>2, MarkCancelledFacts DEF TypeOK, CancelRequest, CancelReturn
  <2>2. cancelling' \in SUBSET Job
    BY <1>2 DEF TypeOK, CancelRequest, CancelReturn
  <2>. QED
    BY <1>2, <2>1, <2>2
    DEF TypeOK, CancelRequest, CancelReturn, gateway, dispatch
<1>. QED
  BY <1>1, <1>2 DEF ApiStep

(* A scan of the AckWatcher, and what it does with one row.                *)
LEMMA AckSteps ==
    ASSUME TypeOK, KnownRows, AckNext \/ \E S \in SUBSET Job : AckScan(S)
    PROVE  TypeOK'
<1>1. ASSUME NEW S \in SUBSET Job, AckScan(S) PROVE TypeOK'
  <2>1. \A j \in Job : jobs[j].attempts \in Nat
    BY DEF TypeOK, JobRow
  <2>2. ackDue' \in [Job -> Nat]
    BY <1>1, <2>1 DEF AckScan
  <2>. QED
    BY <1>1, <2>2 DEF TypeOK, AckScan, gateway, dispatch
<1>2. CASE AckNext
  <2>1. PICK j \in Job :
           /\ AckRuns
           /\ IsNewest(j, AckBacklog)
           /\ ackDue' = [ackDue EXCEPT ![j] = 0]
           /\ UNCHANGED <<clock, gateway, expired, firing, cancelling, restarts>>
           /\ \/ /\ jobs' = [jobs EXCEPT ![j] = FailStaleDispatch(@)]
                 /\ UNCHANGED dispatch
              \/ /\ jobs' = [jobs EXCEPT ![j] = Requeue(@)]
                 /\ EnterDispatch(AckTask, jobs[j].agent)
    BY <1>2 DEF AckNext
  <2>2. jobs' \in [Job -> JobRow] /\ ackDue' \in [Job -> Nat]
    BY <2>1, FailStaleFacts, TimedOutType DEF TypeOK
  <2>3. CASE UNCHANGED dispatch
    BY <2>1, <2>2, <2>3 DEF TypeOK, gateway, dispatch
  <2>4. CASE EnterDispatch(AckTask, jobs[j].agent)
    <3>1. AckTask \in Task /\ DispatchTyped
      BY DEF Task, TypeOK, DispatchTyped
    <3>2. jobs[j].agent \in Agent
      BY <2>1 DEF KnownRows, IsNewest
    <3>3. DispatchTyped'
      BY <2>1, <2>4, <3>1, <3>2, EnterDispatchTyped DEF TypeOK, gateway
    <3>. QED
      BY <2>1, <2>2, <3>3 DEF TypeOK, DispatchTyped, gateway
  <2>. QED
    BY <2>1, <2>3, <2>4
<1>. QED
  BY <1>1, <1>2
LEMMA TimeoutSteps ==
    ASSUME TypeOK,
           TimeoutNext \/ TimeoutReturn \/ \E S \in SUBSET Job : TimeoutScan(S)
    PROVE  TypeOK'
<1>1. ASSUME NEW S \in SUBSET Job, TimeoutScan(S) PROVE TypeOK'
  BY <1>1 DEF TypeOK, TimeoutScan, gateway, dispatch
<1>2. CASE TimeoutNext
  <2>1. PICK j \in Job :
           /\ expired' = expired \ {j}
           /\ \/ firing' = j /\ UNCHANGED jobs
              \/ jobs' = [jobs EXCEPT ![j] = MarkTimedOut(@)] /\ UNCHANGED firing
    BY <1>2 DEF TimeoutNext
  <2>2. jobs' \in [Job -> JobRow]
    BY <2>1, TimedOutType DEF TypeOK
  <2>3. expired' \in SUBSET Job /\ firing' \in Job \cup {Nil}
    BY <2>1 DEF TypeOK
  <2>. QED
    BY <1>2, <2>2, <2>3 DEF TypeOK, TimeoutNext, gateway, dispatch
<1>3. CASE TimeoutReturn
  <2>1. jobs' \in [Job -> JobRow]
    BY <1>3, TimedOutType DEF TypeOK, TimeoutReturn
  <2>. QED
    BY <1>3, <2>1 DEF TypeOK, TimeoutReturn, gateway, dispatch
<1>. QED
  BY <1>1, <1>2, <1>3

LEMMA HeartbeatSteps ==
    ASSUME TypeOK, NEW S \in SUBSET Agent, HeartbeatScan(S)
    PROVE  TypeOK'
<1>1. registry' \in [Agent -> Conn \cup {Nil}]
  BY DEF TypeOK, HeartbeatScan
<1>. QED
  BY <1>1 DEF TypeOK, HeartbeatScan, dispatch, watchers

LEMMA RestartStep ==
    ASSUME TypeOK, Restart
    PROVE  TypeOK'
<1>1. restarts' \in 0 .. MaxRestarts
  <2>1. MaxRestarts \in Nat
    BY ControlPlaneAssumption
  <2>. QED
    BY <2>1 DEF TypeOK, Restart, Reboot
<1>2. disp' \in [Task -> TaskState] /\ \A t \in Task : TaskShape(disp'[t])
  BY TaskStates DEF Restart, Reboot
<1>3. /\ registry' \in [Agent -> Conn \cup {Nil}]
      /\ link' \in [Conn -> {"open", "lost", "ended"}]
      /\ lockGen' \in [Agent -> Nat]
      /\ ackDue' \in [Job -> Nat]
      /\ expired' \in SUBSET Job /\ cancelling' \in SUBSET Job
      /\ firing' \in Job \cup {Nil}
  BY DEF TypeOK, Restart, Reboot
<1>. QED
  BY <1>1, <1>2, <1>3 DEF TypeOK, Restart, Reboot

LEMMA TypeStep == TypeOK /\ KnownRows /\ [Next]_vars => TypeOK'
<1>. SUFFICES ASSUME TypeOK, KnownRows, [Next]_vars PROVE TypeOK'
  OBVIOUS
<1>1. CASE AckNext \/ TimeoutNext \/ Restart
  BY <1>1, AckSteps, TimeoutSteps, RestartStep
<1>2. CASE Other
  <2>1. CASE \E t \in Task : DispatchResume(t) \/ DispatchReturn(t)
    BY <2>1, DispatchSteps
  <2>2. CASE \E c \in Conn : ConnStep(c)
    BY <2>2, ConnSteps
  <2>3. CASE \E j \in Job : ApiStep(j)
    BY <2>3, ApiSteps
  <2>4. CASE WatcherScan
    BY <2>4, AckSteps, TimeoutSteps, HeartbeatSteps DEF WatcherScan
  <2>. QED
    BY <1>2, <2>1, <2>2, <2>3, <2>4 DEF Other
<1>3. CASE UNCHANGED vars
  BY <1>3 DEF TypeOK, vars, gateway, dispatch, watchers
<1>. QED
  BY <1>1, <1>2, <1>3 DEF Next

-----------------------------------------------------------------------------
(* What a step does to the table and to the AckWatcher's snapshot of it:   *)
(* all that the theorems below need to know of the steps.                  *)
HandlerCall(j) ==
    /\ HandlerEdge(jobs[j], jobs'[j])
    /\ \A i \in Job \ {j} : jobs'[i] = jobs[i]
    /\ ackDue' = ackDue

Insertion(j) ==
    /\ jobs[j].state = "ABSENT"
    /\ jobs'[j].state = "PENDING" /\ jobs'[j].agent \in Agent
    /\ jobs'[j].attempts = 0 /\ jobs'[j].error = Nil
    /\ \A i \in Job \ {j} : jobs'[i] = jobs[i]
    /\ ackDue' = ackDue

Snapshot ==
    /\ jobs' = jobs
    /\ \A j \in Job : ackDue'[j] # 0 => /\ jobs[j].state = "DISPATCHED"
                                       /\ ackDue'[j] = jobs[j].attempts

AckDecision(j) ==
    /\ ackDue[j] # 0
    /\ ackDue'[j] = 0
    /\ \A i \in Job \ {j} : jobs'[i] = jobs[i] /\ ackDue'[i] = ackDue[i]
    /\ \/ Exhausted(ackDue[j]) /\ jobs'[j] = FailStaleDispatch(jobs[j])
       \/ ~Exhausted(ackDue[j]) /\ jobs'[j] = Requeue(jobs[j])

TableStep ==
    \/ \E j \in Job : HandlerCall(j) \/ Insertion(j) \/ AckDecision(j)
    \/ Snapshot
    \/ UNCHANGED <<jobs, ackDue>>

LEMMA TableSteps == TypeOK /\ KnownRows /\ [Next]_vars => TableStep
<1>. SUFFICES ASSUME TypeOK, KnownRows, [Next]_vars PROVE TableStep
  OBVIOUS
<1>. jobs \in [Job -> JobRow] /\ ackDue \in [Job -> Nat]
  BY DEF TypeOK
<1>1. CASE AckNext
  <2>1. PICK j \in Job :
           /\ IsNewest(j, AckBacklog)
           /\ ackDue' = [ackDue EXCEPT ![j] = 0]
           /\ \/ /\ Exhausted(ackDue[j])
                 /\ jobs' = [jobs EXCEPT ![j] = FailStaleDispatch(@)]
              \/ /\ ~Exhausted(ackDue[j])
                 /\ jobs' = [jobs EXCEPT ![j] = Requeue(@)]
    BY <1>1 DEF AckNext
  <2>2. ackDue[j] # 0
    BY <2>1 DEF IsNewest, AckBacklog
  <2>3. AckDecision(j)
    BY <2>1, <2>2 DEF AckDecision
  <2>. QED
    BY <2>3 DEF TableStep
<1>2. CASE TimeoutNext
  <2>1. PICK j \in Job : jobs' = [jobs EXCEPT ![j] = MarkTimedOut(@)] \/ UNCHANGED jobs
    BY <1>2 DEF TimeoutNext
  <2>2. HandlerCall(j) \/ UNCHANGED <<jobs, ackDue>>
    BY <1>2, <2>1, ServiceEdges DEF TimeoutNext, HandlerCall
  <2>. QED
    BY <2>2 DEF TableStep
<1>3. CASE TimeoutReturn
  <2>1. firing \in Job
    BY <1>3 DEF TypeOK, TimeoutReturn
  <2>2. HandlerCall(firing)
    BY <1>3, <2>1, ServiceEdges DEF TimeoutReturn, HandlerCall
  <2>. QED
    BY <2>1, <2>2 DEF TableStep
<1>4. ASSUME NEW S \in SUBSET Job, AckScan(S) PROVE TableStep
  BY <1>4 DEF AckScan, Snapshot, TableStep
<1>5. CASE Restart
  BY <1>5 DEF Restart, Reboot, Snapshot, TableStep
<1>6. ASSUME NEW t \in Task, DispatchReturn(t) PROVE TableStep
  <2>1. disp[t].job \in Job
    BY <1>6 DEF TypeOK, TaskState, TaskShape, DispatchReturn
  <2>2. HandlerCall(disp[t].job) \/ UNCHANGED <<jobs, ackDue>>
    BY <1>6, <2>1, ServiceEdges DEF DispatchReturn, HandlerCall, watchers
  <2>. QED
    BY <2>1, <2>2 DEF TableStep
<1>7. ASSUME NEW c \in Conn, NEW j \in Job, Started(c, j) PROVE TableStep
  <2>1. HandlerCall(j)
    BY <1>7, ServiceEdges DEF Started, HandlerCall, watchers
  <2>. QED
    BY <2>1 DEF TableStep
<1>8. ASSUME NEW c \in Conn, NEW j \in Job, NEW report \in Report,
             Result(c, j, report)
      PROVE  TableStep
  <2>1. HandlerCall(j)
    BY <1>8, CompleteFacts DEF Result, HandlerCall, watchers
  <2>. QED
    BY <2>1 DEF TableStep
<1>9. ASSUME NEW j \in Job, NEW a \in Agent, NEW p \in Priority,
             NEW k \in Key \cup {Nil}, Submit(j, a, p, k)
      PROVE  TableStep
  <2>1. clock \in Nat
    BY DEF TypeOK
  <2>2. Insertion(j) \/ UNCHANGED <<jobs, ackDue>>
    BY <1>9, <2>1, NewRowType DEF Submit, Insertion, watchers
  <2>. QED
    BY <2>2 DEF TableStep
<1>10. ASSUME NEW j \in Job, CancelRequest(j) \/ CancelReturn(j) PROVE TableStep
  <2>1. jobs[j].state # "ABSENT"
    BY <1>10 DEF KnownRows, CancelRequest, CancelReturn, LiveState
  <2>2. HandlerCall(j) \/ UNCHANGED <<jobs, ackDue>>
    BY <1>10, <2>1, ServiceEdges DEF CancelRequest, CancelReturn, HandlerCall
  <2>. QED
    BY <2>2 DEF TableStep
<1>11. ASSUME \/ \E t \in Task : DispatchResume(t)
              \/ \E c \in Conn : Lose(c) \/ HandlerEnd(c) \/ \E a \in Agent : Register(c, a)
              \/ \E S \in SUBSET Job : TimeoutScan(S)
              \/ \E S \in SUBSET Agent : HeartbeatScan(S)
              \/ UNCHANGED vars
       PROVE  UNCHANGED <<jobs, ackDue>>
  BY <1>11 DEF DispatchResume, Lose, HandlerEnd, Register, TimeoutScan,
               HeartbeatScan, vars, watchers
<1>. QED
  BY <1>1, <1>2, <1>3, <1>4, <1>5, <1>6, <1>7, <1>8, <1>9, <1>10, <1>11
  DEF TableStep, Next, Other, ConnStep, ApiStep, WatcherScan

-----------------------------------------------------------------------------
(* The inductive invariant *)

IInv == TypeOK /\ KnownRows /\ SnapshotCurrent /\ RetryBudget

LEMMA InitIInv == Init => IInv
<1>. SUFFICES ASSUME Init PROVE IInv
  OBVIOUS
<1>1. Nil # "no_ack"
  BY NilIsNoError
<1>2. MaxAttempts \in Nat
  <2>1. MaxAttempts \in Nat \ {0}
    BY ControlPlaneAssumption
  <2>. QED
    BY <2>1
<1>3. \A j \in Job : /\ ackDue[j] = 0
                      /\ jobs[j].state = "ABSENT" /\ jobs[j].attempts = 0
                      /\ jobs[j].error = Nil
  BY DEF Init, NoRow
<1>4. cancelling = {} /\ AckBacklog = {}
  BY <1>3 DEF Init, AckBacklog
<1>5. KnownRows /\ SnapshotCurrent
  BY <1>3, <1>4 DEF KnownRows, SnapshotCurrent
<1>6. RetryBudget
  <2>1. \A j \in Job : jobs[j].error # "no_ack" /\ jobs[j].state # "PENDING"
    BY <1>1, <1>3
  <2>2. \A j \in Job : jobs[j].attempts <= MaxAttempts
    <3>1. 0 <= MaxAttempts
      BY <1>2
    <3>. QED
      BY <1>3, <3>1
  <2>. QED
    BY <2>1, <2>2 DEF RetryBudget
<1>. QED
  BY <1>5, <1>6, TypeInit DEF IInv

(* Only rows that exist are remembered by a cancel request. *)
LEMMA CancellingSteps ==
    ASSUME [Next]_vars
    PROVE  cancelling' \subseteq cancelling \cup {j \in Job : jobs[j].state \in LiveState}
<1>1. ASSUME NEW j \in Job, CancelRequest(j)
      PROVE  cancelling' \subseteq cancelling \cup {j} /\ jobs[j].state \in LiveState
  BY <1>1 DEF CancelRequest
<1>2. ASSUME NEW j \in Job, CancelReturn(j) PROVE cancelling' \subseteq cancelling
  BY <1>2 DEF CancelReturn
<1>3. CASE Restart
  BY <1>3 DEF Restart, Reboot
<1>4. ASSUME \/ AckNext
             \/ TimeoutNext \/ TimeoutReturn
             \/ \E t \in Task : DispatchResume(t) \/ DispatchReturn(t)
             \/ \E c \in Conn : ConnStep(c)
             \/ \E j \in Job, a \in Agent, p \in Priority, k \in Key \cup {Nil} :
                   Submit(j, a, p, k)
             \/ \E S \in SUBSET Job : AckScan(S) \/ TimeoutScan(S)
             \/ \E S \in SUBSET Agent : HeartbeatScan(S)
             \/ UNCHANGED vars
      PROVE  cancelling' = cancelling
  BY <1>4 DEF AckNext, TimeoutNext, TimeoutReturn, DispatchResume, DispatchReturn,
              ConnStep, Register, Started, Result, Lose, HandlerEnd, Submit,
              AckScan, TimeoutScan, HeartbeatScan, vars, watchers
<1>. QED
  BY <1>1, <1>2, <1>3, <1>4 DEF Next, Other, ApiStep, WatcherScan

(* Rows stay rows and keep their agent. *)
LEMMA KnownStep ==
    ASSUME TypeOK, KnownRows, TableStep,
           cancelling' \subseteq cancelling \cup {j \in Job : jobs[j].state \in LiveState}
    PROVE  KnownRows'
<1>1. "ABSENT" \notin LiveState /\ "FAILED" # "ABSENT" /\ "PENDING" # "ABSENT"
  BY DEF LiveState
<1>2. ASSUME NEW j \in Job
      PROVE  /\ jobs[j].state # "ABSENT" =>
                   jobs'[j].state # "ABSENT" /\ jobs'[j].agent = jobs[j].agent
             /\ jobs'[j].state # "ABSENT" =>
                   jobs[j].state # "ABSENT" \/ jobs'[j].agent \in Agent
             /\ jobs'[j].state = "ABSENT" =>
                   jobs[j].state = "ABSENT" /\ jobs'[j].attempts = jobs[j].attempts
             /\ ackDue'[j] # 0 => ackDue[j] # 0 \/ jobs[j].state # "ABSENT"
  <2>. jobs[j] \in JobRow
    BY DEF TypeOK
  <2>1. CASE HandlerCall(j)
    BY <2>1 DEF HandlerCall, HandlerEdge, LiveState
  <2>2. CASE Insertion(j)
    BY <2>2 DEF Insertion
  <2>3. CASE AckDecision(j)
    BY <2>3, FailStaleFacts, TransitionIfFacts, StateNames
    DEF AckDecision, Requeue, KnownRows, AckBacklog
  <2>4. CASE Snapshot
    BY <2>4 DEF Snapshot
  <2>5. CASE jobs'[j] = jobs[j] /\ ackDue'[j] = ackDue[j]
    BY <2>5
  <2>. QED
    BY <2>1, <2>2, <2>3, <2>4, <2>5
    DEF TypeOK, TableStep, HandlerCall, Insertion, AckDecision
<1>. QED
  BY <1>1, <1>2 DEF KnownRows, AckBacklog, TypeOK

(* Only a PENDING row is charged an attempt, and no row of a scan becomes  *)
(* PENDING before the AckWatcher gets to it.                               *)
LEMMA SnapshotStep ==
    ASSUME TypeOK, SnapshotCurrent, TableStep
    PROVE  SnapshotCurrent'
<1>. SUFFICES ASSUME NEW j \in Job, ackDue'[j] # 0
              PROVE  /\ jobs'[j].attempts = ackDue'[j]
                     /\ jobs'[j].state \in {"DISPATCHED", "RUNNING"} \cup TerminalState
  BY DEF SnapshotCurrent, AckBacklog
<1>1. CASE ackDue[j] # 0 /\ ackDue'[j] = ackDue[j] /\ HandlerEdge(jobs[j], jobs'[j])
  BY <1>1 DEF SnapshotCurrent, AckBacklog, HandlerEdge, TerminalState
<1>2. CASE Snapshot
  BY <1>2 DEF Snapshot
<1>3. CASE jobs'[j] = jobs[j] /\ ackDue'[j] = ackDue[j]
  BY <1>3 DEF SnapshotCurrent, AckBacklog
<1>4. ~AckDecision(j)
  BY DEF AckDecision
<1>5. ASSUME Insertion(j) PROVE FALSE
  BY <1>5 DEF Insertion, SnapshotCurrent, AckBacklog, TerminalState
<1>. QED
  BY <1>1, <1>2, <1>3, <1>4, <1>5
  DEF TypeOK, TableStep, HandlerCall, Insertion, AckDecision

(* A row is charged only while PENDING, that is while an attempt is left,  *)
(* and made PENDING again only if the snapshot, which is current, says so. *)
LEMMA BudgetStep ==
    ASSUME TypeOK, SnapshotCurrent, RetryBudget, TableStep
    PROVE  RetryBudget'
<1>1. MaxAttempts \in Nat \ {0} /\ Nil # "no_ack"
  BY ControlPlaneAssumption, NilIsNoError
<1>. SUFFICES ASSUME NEW j \in Job
              PROVE  /\ jobs'[j].attempts <= MaxAttempts
                     /\ jobs'[j].state = "PENDING" => jobs'[j].attempts < MaxAttempts
                     /\ jobs'[j].error = "no_ack" =>
                           jobs'[j].attempts = MaxAttempts /\ jobs'[j].state = "FAILED"
  BY DEF RetryBudget
<1>2. jobs[j] \in JobRow /\ jobs[j].attempts \in Nat
  BY DEF TypeOK, JobRow
<1>3. CASE HandlerEdge(jobs[j], jobs'[j])
  BY <1>1, <1>2, <1>3 DEF RetryBudget, HandlerEdge, LiveState
<1>4. CASE Insertion(j)
  BY <1>1, <1>4 DEF Insertion
<1>5. CASE AckDecision(j)
  <2>1. /\ jobs[j].attempts = ackDue[j]
        /\ jobs[j].state \in {"DISPATCHED", "RUNNING"} \cup TerminalState
    BY <1>5 DEF AckDecision, SnapshotCurrent, AckBacklog
  <2>2. CASE Exhausted(ackDue[j]) /\ jobs'[j] = FailStaleDispatch(jobs[j])
    BY <1>1, <1>2, <2>1, <2>2, FailStaleFacts DEF RetryBudget, Exhausted
  <2>3. CASE ~Exhausted(ackDue[j]) /\ jobs'[j] = Requeue(jobs[j])
    BY <1>1, <1>2, <2>1, <2>3, TransitionIfFacts, StateNames
    DEF RetryBudget, Exhausted, Requeue
  <2>. QED
    BY <1>5, <2>2, <2>3 DEF AckDecision
<1>6. CASE jobs'[j] = jobs[j]
  BY <1>6 DEF RetryBudget
<1>. QED
  BY <1>3, <1>4, <1>5, <1>6
  DEF TypeOK, TableStep, HandlerCall, Insertion, AckDecision, Snapshot

LEMMA IInvStep == IInv /\ [Next]_vars => IInv'
  BY TypeStep, TableSteps, CancellingSteps, KnownStep, SnapshotStep, BudgetStep DEF IInv

(* In every behaviour of the server the inductive invariant holds. *)
THEOREM Invariance == Spec => []IInv
  BY InitIInv, IInvStep, PTL DEF Spec

-----------------------------------------------------------------------------
(* Type correctness: every variable of the server always holds a value of  *)
(* its type; in particular every row an await is resumed with is a row.    *)
THEOREM TypeCorrect == Spec => []TypeOK
<1>1. IInv => TypeOK
  BY DEF IInv
<1>. QED
  BY <1>1, Invariance, PTL

(* The attempts the AckWatcher's scan read never go stale, for any number  *)
(* of jobs, agents, connections and concurrent dispatch calls.             *)
THEOREM SnapshotStaysCurrent == Spec => []SnapshotCurrent
<1>1. IInv => SnapshotCurrent
  BY DEF IInv
<1>. QED
  BY <1>1, Invariance, PTL

(* The retry budget: no job is handed out more than MaxAttempts times, and *)
(* the AckWatcher gives up a job exactly when all attempts are spent.      *)
THEOREM BudgetKept == Spec => []RetryBudget
<1>1. IInv => RetryBudget
  BY DEF IInv
<1>. QED
  BY <1>1, Invariance, PTL

-----------------------------------------------------------------------------
(* Finished rows *)

LEMMA FinalStep ==
    ASSUME IInv, TableStep, NEW j \in Job, IsTerminal(jobs[j].state)
    PROVE  jobs'[j] = jobs[j]
<1>1. jobs[j] \in JobRow /\ jobs[j].state \notin LiveState \cup {"ABSENT"}
  BY DEF IInv, TypeOK, IsTerminal, TerminalState, LiveState
<1>2. CASE HandlerEdge(jobs[j], jobs'[j])
  BY <1>1, <1>2 DEF HandlerEdge, LiveState
<1>3. CASE AckDecision(j)
  BY <1>1, <1>3, FailStaleFacts, TransitionIfFacts, StateNames
  DEF AckDecision, Requeue, LiveState
<1>4. ~Insertion(j)
  BY <1>1 DEF Insertion
<1>5. CASE jobs'[j] = jobs[j]
  BY <1>5
<1>. QED
  BY <1>2, <1>3, <1>4, <1>5
  DEF IInv, TypeOK, TableStep, HandlerCall, Insertion, AckDecision, Snapshot

(* A finished job is final: no step of any coroutine changes its row.      *)
THEOREM FinishedIsFinal == Spec => TerminalFinal
<1>1. IInv /\ [Next]_vars
        => [\A j \in Job : IsTerminal(jobs[j].state) => jobs'[j] = jobs[j]]_vars
  BY TableSteps, FinalStep DEF IInv
<1>. QED
  BY <1>1, Invariance, PTL DEF Spec, TerminalFinal

-----------------------------------------------------------------------------
(* The server implements JobLifecycle *)

(* The state a row has in the abstract lifecycle. *)
Bar(row) == IF row.error = "no_ack" THEN "GIVEN_UP" ELSE row.state

LEMMA PromiseInit == Init => Promise!Init
<1>. SUFFICES ASSUME Init PROVE Promise!Init
  OBVIOUS
<1>1. \A j \in Job : /\ jobs[j].state = "ABSENT" /\ jobs[j].attempts = 0
                      /\ jobs[j].error = Nil
  BY DEF Init, NoRow
<1>. QED
  BY <1>1, NilIsNoError DEF Promise!Init

(* If a single row changes, the two functions of the abstract lifecycle    *)
(* change at that job only.                                                *)
LEMMA OneRowChanges ==
    ASSUME NEW j \in Job, \A i \in Job \ {j} : jobs'[i] = jobs[i]
    PROVE  /\ [i \in Job |-> Bar(jobs'[i])]
                = [[i \in Job |-> Bar(jobs[i])] EXCEPT ![j] = Bar(jobs'[j])]
           /\ [i \in Job |-> jobs'[i].attempts]
                = [[i \in Job |-> jobs[i].attempts] EXCEPT ![j] = jobs'[j].attempts]
  OBVIOUS

(* A step that changes one row is a move of the abstract lifecycle.        *)
LEMMA RowMove ==
    ASSUME NEW j \in Job, \A i \in Job \ {j} : jobs'[i] = jobs[i],
           NEW from, Bar(jobs[j]) \in from, NEW to, Bar(jobs'[j]) = to
    PROVE  /\ Promise!Move(j, from, to)
           /\ jobs'[j].attempts = jobs[j].attempts
                 => [i \in Job |-> jobs'[i].attempts] = [i \in Job |-> jobs[i].attempts]
  BY OneRowChanges DEF Promise!Move, Bar

(* An unchanged row is a stutter of the abstract lifecycle.                *)
LEMMA RowStutter ==
    ASSUME \A i \in Job : jobs'[i] = jobs[i]
    PROVE  UNCHANGED Promise!lifecycle
  BY DEF Promise!lifecycle

LEMMA PromiseHandler ==
    ASSUME IInv, NEW j \in Job, HandlerCall(j)
    PROVE  [Promise!Next]_Promise!lifecycle
<1>1. jobs[j] \in JobRow /\ jobs[j].attempts \in Nat /\ Nil # "no_ack"
  BY NilIsNoError DEF IInv, TypeOK, JobRow
<1>2. /\ HandlerEdge(jobs[j], jobs'[j])
      /\ \A i \in Job \ {j} : jobs'[i] = jobs[i]
  BY DEF HandlerCall
<1>3. jobs[j].error = "no_ack" => jobs[j].state = "FAILED"
  BY DEF IInv, RetryBudget
<1>4. CASE jobs'[j] = jobs[j]
  <2>1. \A i \in Job : jobs'[i] = jobs[i]
    BY <1>2, <1>4
  <2>. QED
    BY <2>1, RowStutter
<1>5. CASE /\ jobs[j].state = "PENDING" /\ jobs'[j].state = "DISPATCHED"
           /\ jobs'[j].attempts = jobs[j].attempts + 1
           /\ jobs'[j].error = jobs[j].error
  <2>1. Bar(jobs[j]) = "PENDING" /\ Bar(jobs'[j]) = "DISPATCHED"
    BY <1>3, <1>5 DEF Bar
  <2>2. jobs[j].attempts < MaxAttempts
    BY <1>5 DEF IInv, RetryBudget
  <2>3. Promise!Move(j, {"PENDING"}, "DISPATCHED")
    BY <1>2, <2>1, RowMove
  <2>4. [i \in Job |-> jobs'[i].attempts]
          = [[i \in Job |-> jobs[i].attempts] EXCEPT ![j] = jobs[j].attempts + 1]
    BY <1>2, <1>5, OneRowChanges
  <2>5. Promise!Dispatch(j)
    BY <2>2, <2>3, <2>4 DEF Promise!Dispatch
  <2>. QED
    BY <2>5 DEF Promise!Next, Promise!JobStep
<1>6. CASE /\ jobs'[j].attempts = jobs[j].attempts
           /\ jobs'[j].error \in {jobs[j].error, Nil, "reported"}
           /\ \/ jobs[j].state = "DISPATCHED" /\ jobs'[j].state = "RUNNING"
              \/ jobs[j].state = "RUNNING"
                 /\ jobs'[j].state \in {"SUCCEEDED", "FAILED", "TIMED_OUT"}
              \/ jobs[j].state \in LiveState /\ jobs'[j].state = "CANCELLED"
  <2>1. Bar(jobs[j]) = jobs[j].state /\ Bar(jobs'[j]) = jobs'[j].state
    BY <1>1, <1>3, <1>6 DEF Bar, LiveState
  <2>2. /\ jobs[j].state = "DISPATCHED" /\ jobs'[j].state = "RUNNING"
              => Promise!Start(j)
        /\ jobs[j].state = "RUNNING" /\ jobs'[j].state \in {"SUCCEEDED", "FAILED"}
              => Promise!Finish(j)
        /\ jobs[j].state = "RUNNING" /\ jobs'[j].state = "TIMED_OUT"
              => Promise!Expire(j)
        /\ jobs[j].state \in LiveState /\ jobs'[j].state = "CANCELLED"
              => Promise!Cancel(j)
    BY <1>2, <1>6, <2>1, RowMove
    DEF LiveState, Promise!Start, Promise!Finish, Promise!Expire, Promise!Cancel
  <2>. QED
    BY <1>6, <2>2 DEF Promise!Next, Promise!JobStep
<1>. QED
  BY <1>2, <1>4, <1>5, <1>6 DEF HandlerEdge

LEMMA PromiseSubmit ==
    ASSUME IInv, NEW j \in Job, Insertion(j)
    PROVE  Promise!Next
<1>1. jobs[j].error # "no_ack"
  BY DEF IInv, RetryBudget, Insertion
<1>2. Bar(jobs[j]) = "ABSENT" /\ Bar(jobs'[j]) = "PENDING"
  BY <1>1, NilIsNoError DEF Bar, Insertion
<1>3. jobs'[j].attempts = jobs[j].attempts
  BY DEF IInv, KnownRows, Insertion
<1>4. Promise!Submit(j)
  BY <1>2, <1>3, RowMove DEF Insertion, Promise!Submit
<1>. QED
  BY <1>4 DEF Promise!JobStep, Promise!Next

LEMMA PromiseAck ==
    ASSUME IInv, NEW j \in Job, AckDecision(j)
    PROVE  [Promise!Next]_Promise!lifecycle
<1>1. /\ jobs[j].attempts = ackDue[j]
      /\ jobs[j].state \in {"DISPATCHED", "RUNNING"} \cup TerminalState
  BY DEF IInv, SnapshotCurrent, AckBacklog, AckDecision
<1>2. /\ jobs[j] \in JobRow
      /\ \A i \in Job \ {j} : jobs'[i] = jobs[i]
      /\ jobs[j].error = "no_ack" => jobs[j].state = "FAILED"
  BY DEF IInv, TypeOK, RetryBudget, AckDecision
<1>3. CASE jobs'[j] = jobs[j]
  <2>1. \A i \in Job : jobs'[i] = jobs[i]
    BY <1>2, <1>3
  <2>. QED
    BY <2>1, RowStutter
<1>4. CASE /\ Exhausted(ackDue[j]) /\ jobs'[j] = FailStaleDispatch(jobs[j])
           /\ ~IsTerminal(jobs[j].state)
  <2>1. jobs[j].attempts = MaxAttempts
    <3>1. /\ jobs[j].attempts \in Nat /\ MaxAttempts \in Nat
          /\ jobs[j].attempts <= MaxAttempts /\ jobs[j].attempts >= MaxAttempts
      BY <1>1, <1>4, ControlPlaneAssumption
      DEF IInv, TypeOK, JobRow, RetryBudget, Exhausted
    <3>. QED
      BY <3>1
  <2>2. Bar(jobs[j]) \in {"DISPATCHED", "RUNNING"} /\ Bar(jobs'[j]) = "GIVEN_UP"
    BY <1>1, <1>2, <1>4, FailStaleFacts DEF Bar, IsTerminal
  <2>3. jobs'[j].attempts = jobs[j].attempts
    BY <1>2, <1>4, FailStaleFacts
  <2>4. Promise!GiveUp(j)
    BY <1>2, <2>1, <2>2, <2>3, RowMove DEF Promise!GiveUp
  <2>. QED
    BY <2>4 DEF Promise!Next, Promise!JobStep
<1>5. CASE /\ ~Exhausted(ackDue[j]) /\ jobs'[j] = Requeue(jobs[j])
           /\ jobs[j].state = "DISPATCHED"
  <2>1. jobs[j].attempts < MaxAttempts
    <3>1. /\ jobs[j].attempts \in Nat /\ MaxAttempts \in Nat
          /\ ~(jobs[j].attempts >= MaxAttempts)
      BY <1>1, <1>5, ControlPlaneAssumption DEF IInv, TypeOK, JobRow, Exhausted
    <3>. QED
      BY <3>1
  <2>2. /\ jobs'[j].state = "PENDING" /\ jobs'[j].error = jobs[j].error
        /\ jobs'[j].attempts = jobs[j].attempts
    BY <1>2, <1>5, TransitionIfFacts, StateNames DEF Requeue
  <2>3. Bar(jobs[j]) = "DISPATCHED" /\ Bar(jobs'[j]) = "PENDING"
    BY <1>2, <1>5, <2>2 DEF Bar
  <2>4. Promise!GiveBack(j)
    BY <1>2, <2>1, <2>2, <2>3, RowMove DEF Promise!GiveBack
  <2>. QED
    BY <2>4 DEF Promise!Next, Promise!JobStep
<1>6. \/ jobs'[j] = jobs[j]
      \/ Exhausted(ackDue[j]) /\ ~IsTerminal(jobs[j].state)
            /\ jobs'[j] = FailStaleDispatch(jobs[j])
      \/ ~Exhausted(ackDue[j]) /\ jobs[j].state = "DISPATCHED"
            /\ jobs'[j] = Requeue(jobs[j])
  BY <1>2, FailStaleFacts, TransitionIfFacts, StateNames DEF AckDecision, Requeue
<1>. QED
  BY <1>3, <1>4, <1>5, <1>6

LEMMA PromiseStep == IInv /\ [Next]_vars => [Promise!Next]_Promise!lifecycle
<1>. SUFFICES ASSUME IInv, TableStep PROVE [Promise!Next]_Promise!lifecycle
  BY TableSteps DEF IInv
<1>1. CASE Snapshot \/ UNCHANGED <<jobs, ackDue>>
  BY <1>1, RowStutter DEF Snapshot
<1>. QED
  BY <1>1, PromiseHandler, PromiseSubmit, PromiseAck DEF TableStep

(* The server implements the lifecycle it promises for each job.           *)
THEOREM LifecycleKept == Spec => KeepsPromise
  BY PromiseInit, PromiseStep, Invariance, PTL DEF Spec, KeepsPromise, Promise!Spec
=============================================================================
