-------------------------- MODULE JobSystemProofs --------------------------
(***************************************************************************)
(* JobSystem implements ControlPlane: joined with the agents and the       *)
(* connections between them, the server takes no step it would not take in *)
(* the open environment it was modelled against.  What is proved there,    *)
(* instantiated as P, thus holds in the whole system.                      *)
(***************************************************************************)
EXTENDS JobSystem, SequenceTheorems, TLAPS

P == INSTANCE DispatchProofs

-----------------------------------------------------------------------------
(* S and P instantiate the same definitions. *)

LEMMA SameAssumptions == P!StoreAssumption /\ P!ControlPlaneAssumption
  BY SystemAssumption DEF S!StoreAssumption, P!StoreAssumption,
                          S!ControlPlaneAssumption, P!ControlPlaneAssumption

LEMMA SameServer ==
    /\ S!Init <=> P!Init
    /\ S!Next <=> P!Next
    /\ S!vars = P!vars
  BY Zenon DEF
      S!TerminalState, P!TerminalState, S!LiveState, P!LiveState,
      S!IsTerminal, P!IsTerminal, S!NoRow, P!NoRow, S!NewRow, P!NewRow,
      S!TransitionIf, P!TransitionIf, S!CompleteIfRunning,
      P!CompleteIfRunning, S!MarkDispatchedWithAttempt,
      P!MarkDispatchedWithAttempt, S!MarkRunning, P!MarkRunning,
      S!MarkSucceeded, P!MarkSucceeded, S!MarkFailed, P!MarkFailed,
      S!MarkTimedOut, P!MarkTimedOut, S!MarkCancelled, P!MarkCancelled,
      S!Requeue, P!Requeue, S!FailStaleDispatch, P!FailStaleDispatch, S!Task,
      P!Task, S!gateway, P!gateway, S!dispatch, P!dispatch, S!watchers,
      P!watchers, S!vars, P!vars, S!Idle, P!Idle, S!Waiting, P!Waiting,
      S!Sending, P!Sending, S!Init, P!Init, S!Pending, P!Pending, S!Before,
      P!Before, S!IsNext, P!IsNext, S!Attempt, P!Attempt, S!LockBusy,
      P!LockBusy, S!EnterDispatch, P!EnterDispatch, S!DispatchResume,
      P!DispatchResume, S!DispatchReturn, P!DispatchReturn, S!Listening,
      P!Listening, S!Handles, P!Handles, S!EverSent, P!EverSent, S!Register,
      P!Register, S!Started, P!Started, S!Complete, P!Complete, S!FreeSlot,
      P!FreeSlot, S!Result, P!Result, S!Lose, P!Lose, S!HandlerEnd,
      P!HandlerEnd, S!KeyOwner, P!KeyOwner, S!Submit, P!Submit, S!CanSend,
      P!CanSend, S!CancelRequest, P!CancelRequest, S!CancelReturn,
      P!CancelReturn, S!IsNewest, P!IsNewest, S!AckBacklog, P!AckBacklog,
      S!AckRuns, P!AckRuns, S!TimeoutRuns, P!TimeoutRuns, S!AckScan,
      P!AckScan, S!Exhausted, P!Exhausted, S!AckNext, P!AckNext,
      S!TimeoutScan, P!TimeoutScan, S!TimeoutNext, P!TimeoutNext,
      S!TimeoutReturn, P!TimeoutReturn, S!HeartbeatScan, P!HeartbeatScan,
      S!Reboot, P!Reboot, S!Restart, P!Restart, S!ConnStep, P!ConnStep,
      S!ApiStep, P!ApiStep, S!WatcherScan, P!WatcherScan, S!Calm, P!Calm,
      S!Other, P!Other, S!Next, P!Next

-----------------------------------------------------------------------------
(* What the agents may write on a connection. *)
Admitted(m) ==
    /\ m.type \in {"register", "started", "result"}
    /\ m.type = "register" => m.agent \in Agent
    /\ m.type = "result" => m.report \in Report

Messages(s) == \E M : s \in Seq(M) /\ \A m \in M : Admitted(m)

Admissible ==
    /\ up = [c \in Conn |-> up[c]]
    /\ \A c \in Conn : Messages(up[c])

LEMMA AreMessages ==
    ASSUME NEW s, NEW M, s \in Seq(M), \A m \in M : Admitted(m)
    PROVE  Messages(s)
  BY DEF Messages

LEMMA MessagesConcat ==
    ASSUME NEW s, NEW t, Messages(s), Messages(t)
    PROVE  Messages(s \o t)
<1>1. PICK M : s \in Seq(M) /\ \A m \in M : Admitted(m)
  BY DEF Messages
<1>2. PICK N : t \in Seq(N) /\ \A m \in N : Admitted(m)
  BY DEF Messages
<1>3. s \in Seq(M \cup N) /\ t \in Seq(M \cup N)
  BY <1>1, <1>2, SeqMonotonic, Zenon
<1>4. s \o t \in Seq(M \cup N)
  BY <1>3, ConcatProperties
<1>5. \A m \in M \cup N : Admitted(m)
  BY <1>1, <1>2
<1>. QED
  BY <1>4, <1>5, AreMessages

LEMMA MessagesTail ==
    ASSUME NEW s, Messages(s), s # <<>>
    PROVE  Messages(Tail(s)) /\ Admitted(Head(s))
<1>1. PICK M : s \in Seq(M) /\ \A m \in M : Admitted(m)
  BY DEF Messages
<1>2. Tail(s) \in Seq(M) /\ Head(s) \in M
  BY <1>1
<1>. QED
  BY <1>1, <1>2, AreMessages

LEMMA MessageOne ==
    ASSUME NEW m, Admitted(m)
    PROVE  Messages(<<m>>)
<1>. PICK M : M = {m}
  OBVIOUS
<1>1. <<m>> \in Seq(M)
  OBVIOUS
<1>2. \A x \in M : Admitted(x)
  OBVIOUS
<1>. QED
  BY <1>1, <1>2, AreMessages

LEMMA NoMessage == Messages(<<>>)
<1>. PICK M : M = {}
  OBVIOUS
<1>1. <<>> \in Seq(M)
  BY EmptySeq
<1>2. \A x \in M : Admitted(x)
  OBVIOUS
<1>. QED
  BY <1>1, <1>2, AreMessages

(* What the agents send is admitted. *)
LEMMA AgentMessages ==
    /\ \A j : Messages(StartedMessage(j))
    /\ \A j : \A report \in Report : Messages(ResultMessage(j, report))
<1>1. ASSUME NEW j PROVE Messages(StartedMessage(j))
  <2>1. Admitted([type |-> "started", job |-> j])
    BY DEF Admitted
  <2>. QED
    BY <2>1, MessageOne DEF StartedMessage
<1>2. ASSUME NEW j, NEW report \in Report PROVE Messages(ResultMessage(j, report))
  <2>1. Admitted([type |-> "result", job |-> j, report |-> report])
    BY DEF Admitted
  <2>. QED
    BY <2>1, MessageOne DEF ResultMessage
<1>. QED
  BY <1>1, <1>2

-----------------------------------------------------------------------------
(* Every step keeps what is on the way to the server admissible, and is a  *)
(* step of the server of ControlPlane or leaves the server alone.          *)

LEMMA UpStays ==
    ASSUME Admissible, UNCHANGED up
    PROVE  Admissible'
  BY DEF Admissible

LEMMA UpGrows ==
    ASSUME Admissible, NEW w, NEW STATE messages, Messages(messages),
           up' = [c \in Conn |-> IF c = w /\ c \notin cut THEN up[c] \o messages
                                 ELSE up[c]]
    PROVE  Admissible'
<1>1. ASSUME NEW c \in Conn PROVE Messages(up'[c])
  <2>1. Messages(up[c])
    BY DEF Admissible
  <2>2. up'[c] = up[c] \/ up'[c] = up[c] \o messages
    OBVIOUS
  <2>. QED
    BY <2>1, <2>2, MessagesConcat
<1>2. up' = [c \in Conn |-> up'[c]]
  OBVIOUS
<1>. QED
  BY <1>1, <1>2 DEF Admissible

LEMMA UpSet ==
    ASSUME Admissible, NEW c \in Conn, NEW STATE s, Messages(s), up' = [up EXCEPT ![c] = s]
    PROVE  Admissible'
<1>1. ASSUME NEW d \in Conn PROVE Messages(up'[d])
  <2>1. up'[d] = s \/ up'[d] = up[d]
    BY DEF Admissible
  <2>. QED
    BY <2>1 DEF Admissible
<1>2. up' = [d \in Conn |-> up'[d]]
  BY DEF Admissible
<1>. QED
  BY <1>1, <1>2 DEF Admissible

(* The handler of a connection reads what ControlPlane expects to be read. *)
LEMMA ConnStepIsNext ==
    ASSUME NEW c \in Conn, S!Calm, S!ConnStep(c)
    PROVE  S!Next
<1>1. S!Other
  BY Zenon DEF S!Other
<1>. QED
  BY <1>1, Zenon DEF S!Next

LEMMA HandleStep ==
    ASSUME Admissible, P!TypeOK, NEW c \in Conn, Handle(c)
    PROVE  Admissible' /\ S!Next
<1>. DEFINE m == Head(up[c])
<1>1. Messages(up[c]) /\ up[c] # <<>>
  BY DEF Admissible, Handle
<1>2. Messages(Tail(up[c])) /\ Admitted(m)
  BY <1>1, MessagesTail
<1>3. Admissible'
  BY <1>2, UpSet DEF Handle
<1>4. CASE m.type = "register"
  <2>1. m.agent \in Agent
    BY <1>2, <1>4 DEF Admitted
  <2>2. S!Calm /\ S!Register(c, m.agent)
    BY <1>4 DEF Handle
  <2>. QED
    BY <1>3, <2>1, <2>2, ConnStepIsNext, Zenon DEF S!ConnStep
<1>5. CASE m.type = "started"
  <2>1. S!Calm /\ S!Started(c, m.job)
    BY <1>5 DEF Handle
  <2>2. m.job \in Job
    BY <2>1 DEF S!Started, S!EverSent, P!TypeOK
  <2>. QED
    BY <1>3, <2>1, <2>2, ConnStepIsNext, Zenon DEF S!ConnStep
<1>6. CASE m.type = "result"
  <2>1. S!Calm /\ S!Result(c, m.job, m.report)
    BY <1>6 DEF Handle
  <2>2. m.job \in Job
    BY <2>1 DEF S!Result, S!EverSent, P!TypeOK
  <2>3. m.report \in Report
    BY <1>2, <1>6 DEF Admitted
  <2>. QED
    BY <1>3, <2>1, <2>2, <2>3, ConnStepIsNext, Zenon DEF S!ConnStep
<1>7. m.type \in {"register", "started", "result"}
  BY <1>2 DEF Admitted
<1>. QED
  BY <1>4, <1>5, <1>6, <1>7

(* An agent's step appends to what is on the way. *)
LEMMA SendsStep ==
    ASSUME Admissible, NEW a \in Agent, NEW STATE messages, Messages(messages),
           up' = [c \in Conn |-> IF c = wire[a] /\ c \notin cut THEN up[c] \o messages
                                 ELSE up[c]]
    PROVE  Admissible'
  BY UpGrows

LEMMA AgentsStep ==
    ASSUME Admissible, AgentsRun
    PROVE  Admissible' /\ UNCHANGED server
<1>1. ASSUME NEW a \in Agent, Connect(a) PROVE Admissible' /\ UNCHANGED server
  <2>1. PICK c \in Conn :
            /\ up' = [up EXCEPT ![c] = <<[type |-> "register", agent |-> a]>>]
            /\ UNCHANGED server
    BY <1>1 DEF Connect
  <2>2. Admitted([type |-> "register", agent |-> a])
    BY DEF Admitted
  <2>. QED
    BY <2>1, <2>2, MessageOne, UpSet
<1>2. ASSUME NEW a \in Agent, Accept(a) PROVE Admissible' /\ UNCHANGED server
  BY <1>2, NoMessage, SendsStep DEF Accept, AgentSends
<1>3. ASSUME NEW a \in Agent, StartFails(a) PROVE Admissible' /\ UNCHANGED server
  <2>1. Messages(ResultMessage(main[a].job, "error"))
    BY AgentMessages, SystemAssumption
  <2>. QED
    BY <1>3, <2>1, SendsStep DEF StartFails, AgentSends
<1>4. ASSUME NEW a \in Agent, Main(a) PROVE Admissible' /\ UNCHANGED server
  <2>1. CASE AgentSends(ReconcileStep(a) \/ ListenStep(a), a, <<>>)
    BY <2>1, NoMessage, SendsStep DEF AgentSends
  <2>2. CASE AgentSends(A!Launch(a), a, StartedMessage(main[a].job))
    BY <2>2, AgentMessages, SendsStep DEF AgentSends
  <2>3. ASSUME NEW report \in ExitReport,
               AgentSends(A!ReportExited(a), a,
                          ResultMessage(docker[main[a].container].job, report))
        PROVE  Admissible' /\ UNCHANGED server
    <3>1. Messages(ResultMessage(docker[main[a].container].job, report))
      BY AgentMessages, SystemAssumption
    <3>. QED
      BY <2>3, <3>1, SendsStep DEF AgentSends
  <2>. QED
    BY <1>1, <1>2, <1>3, <1>4, <2>1, <2>2, <2>3 DEF Main
<1>5. ASSUME NEW a \in Agent, NEW c \in Container, Wait(a, c)
      PROVE  Admissible' /\ UNCHANGED server
  <2>1. PICK r \in runs :
            \/ AgentSends(A!Collect(r) \/ A!Remove(r) \/ A!WaitFails(r), a, <<>>)
            \/ \E report \in ExitReport :
                  AgentSends(A!SendResult(r), a,
                             IF r.session = session[a]
                             THEN ResultMessage(docker[c].job, report) ELSE <<>>)
    BY <1>5 DEF Wait
  <2>2. CASE AgentSends(A!Collect(r) \/ A!Remove(r) \/ A!WaitFails(r), a, <<>>)
    BY <2>2, NoMessage, SendsStep DEF AgentSends
  <2>3. ASSUME NEW report \in ExitReport,
               AgentSends(A!SendResult(r), a,
                          IF r.session = session[a]
                          THEN ResultMessage(docker[c].job, report) ELSE <<>>)
        PROVE  Admissible' /\ UNCHANGED server
    <3>1. Messages(ResultMessage(docker[c].job, report)) /\ Messages(<<>>)
      BY AgentMessages, NoMessage, SystemAssumption
    <3>2. Messages(IF r.session = session[a]
                   THEN ResultMessage(docker[c].job, report) ELSE <<>>)
      BY <3>1
    <3>. QED
      BY <2>3, <3>2, SendsStep DEF AgentSends
  <2>. QED
    BY <2>1, <2>2, <2>3
<1>6. ASSUME NEW a \in Agent, NoticeBreak(a) PROVE Admissible' /\ UNCHANGED server
  BY <1>6, UpStays DEF NoticeBreak, between
<1>. QED
  BY <1>4, <1>5, <1>6 DEF AgentsRun

LEMMA ServerRunsStep ==
    ASSUME Admissible, P!TypeOK, ServerRuns
    PROVE  Admissible' /\ S!Next
<1>1. ASSUME UNCHANGED between PROVE Admissible'
  BY <1>1, UpStays DEF between
<1>2. CASE Server(S!AckNext \/ S!TimeoutNext)
  BY <1>1, <1>2, Zenon DEF Server, S!Next
<1>3. ASSUME NEW t \in S!Task, Server(S!Calm /\ (S!DispatchResume(t) \/ S!DispatchReturn(t)))
      PROVE  Admissible' /\ S!Next
  BY <1>1, <1>3, Zenon DEF Server, S!Next, S!Other
<1>4. ASSUME NEW j \in Job, Server(S!Calm /\ S!CancelReturn(j))
      PROVE  Admissible' /\ S!Next
  BY <1>1, <1>4, Zenon DEF Server, S!Next, S!Other, S!ApiStep
<1>5. ASSUME NEW X \in SUBSET Job, Server(S!Calm /\ (S!AckScan(X) \/ S!TimeoutScan(X)))
      PROVE  Admissible' /\ S!Next
  BY <1>1, <1>5, Zenon DEF Server, S!Next, S!Other, S!WatcherScan
<1>6. CASE Server(S!Calm /\ S!TimeoutReturn)
  BY <1>1, <1>6, Zenon DEF Server, S!Next, S!Other, S!WatcherScan
<1>7. ASSUME NEW c \in Conn, NoticeLoss(c) PROVE Admissible' /\ S!Next
  <2>1. Admissible'
    BY <1>1, <1>7 DEF NoticeLoss, Server
  <2>2. S!Calm /\ S!ConnStep(c)
    BY <1>7, Zenon DEF NoticeLoss, Server, S!ConnStep
  <2>. QED
    BY <2>1, <2>2, ConnStepIsNext
<1>. QED
  BY <1>2, <1>3, <1>4, <1>5, <1>6, <1>7, HandleStep DEF ServerRuns

LEMMA EnvironmentStep ==
    ASSUME Admissible, Environment
    PROVE  Admissible' /\ (S!Next \/ UNCHANGED server)
<1>1. ASSUME NEW j \in Job,
             Server(S!Calm /\
                ((jobs[j].state \in CancelIn /\ S!CancelRequest(j))
                 \/ \E a \in Agent, p \in Priority, k \in Key \cup {Nil} :
                       S!Submit(j, a, p, k)))
      PROVE  Admissible' /\ S!Next
  <2>1. Admissible'
    BY <1>1, UpStays DEF Server, between
  <2>2. S!Calm /\ S!ApiStep(j)
    BY <1>1, Zenon DEF Server, S!ApiStep
  <2>. QED
    BY <2>1, <2>2, Zenon DEF S!Next, S!Other
<1>2. CASE HeartbeatLate
  <2>1. Admissible'
    BY <1>2, UpStays DEF HeartbeatLate
  <2>2. S!Calm /\ S!WatcherScan
    BY <1>2, Zenon DEF HeartbeatLate, S!WatcherScan
  <2>. QED
    BY <2>1, <2>2, Zenon DEF S!Next, S!Other
<1>3. CASE Restart
  <2>1. up' = [c \in Conn |-> <<>>] /\ S!Next
    BY <1>3, Zenon DEF Restart, S!Next
  <2>. QED
    BY <2>1, NoMessage DEF Admissible
<1>4. ASSUME NEW a \in Agent, Crash(a) PROVE Admissible' /\ UNCHANGED server
  BY <1>4, UpStays DEF Crash
<1>5. ASSUME NEW c \in Conn, Cut(c) PROVE Admissible' /\ UNCHANGED server
  BY <1>5, UpStays DEF Cut
<1>. QED
  BY <1>1, <1>2, <1>3, <1>4, <1>5 DEF Environment

LEMMA SystemStep ==
    ASSUME Admissible, P!TypeOK, [Next]_vars
    PROVE  Admissible' /\ [P!Next]_(P!vars)
<1>1. UNCHANGED server => UNCHANGED P!vars
  BY DEF server, P!vars, P!gateway, P!dispatch, P!watchers
<1>2. CASE UNCHANGED vars
  <2>1. UNCHANGED server /\ UNCHANGED up
    BY <1>2 DEF vars, between
  <2>. QED
    BY <1>1, <2>1, UpStays
<1>3. CASE ServerRuns
  BY <1>3, ServerRunsStep, SameServer
<1>4. CASE AgentsRun
  BY <1>1, <1>4, AgentsStep
<1>5. ASSUME NEW c \in Container, Exit(c)
      PROVE  Admissible' /\ [P!Next]_(P!vars)
  BY <1>1, <1>5, UpStays DEF Exit, between
<1>6. CASE Environment
  BY <1>1, <1>6, EnvironmentStep, SameServer
<1>. QED
  BY <1>2, <1>3, <1>4, <1>5, <1>6 DEF Next

LEMMA SystemInit == Init => Admissible /\ P!Init
<1>. SUFFICES ASSUME Init PROVE Admissible /\ P!Init
  OBVIOUS
<1>1. P!Init
  BY SameServer DEF Init
<1>2. Admissible
  BY NoMessage DEF Init, Admissible
<1>. QED
  BY <1>1, <1>2

-----------------------------------------------------------------------------
(* What is on the way to the server is what ControlPlane lets it read, and *)
(* the server's part of the whole system behaves as ControlPlane says: the *)
(* open environment it was modelled and proved against leaves out nothing  *)
(* the agents, their crashes and their broken connections can do to it.    *)
THEOREM ServerImplemented == Spec => []Admissible /\ P!Spec
<1>1. Init => Admissible /\ P!IInv /\ P!Init
  BY SystemInit, SameAssumptions, P!InitIInv
<1>2. Admissible /\ P!IInv /\ [Next]_vars
        => Admissible' /\ P!IInv' /\ [P!Next]_(P!vars)
  <2>. SUFFICES ASSUME Admissible, P!IInv, [Next]_vars
                PROVE  Admissible' /\ P!IInv' /\ [P!Next]_(P!vars)
    OBVIOUS
  <2>1. P!TypeOK
    BY DEF P!IInv
  <2>2. Admissible' /\ [P!Next]_(P!vars)
    BY <2>1, SystemStep
  <2>. QED
    BY <2>2, SameAssumptions, P!IInvStep
<1>. QED
  BY <1>1, <1>2, PTL DEF Spec, P!Spec

(* The safety of the server, in the whole system: whatever the agents, the *)
(* Docker daemon and the network do, no job is handed out more often than  *)
(* allowed, outcomes fit their rows, keys stay unique, jobs go to their    *)
(* own agents, first attempts leave in order and no job is left waiting    *)
(* for a free, connected agent.                                            *)
THEOREM ServerSafe ==
    Spec => [](/\ P!TypeOK
               /\ P!RetryBudget
               /\ P!OutcomeConsistent
               /\ P!OneJobPerKey
               /\ P!DispatchedWasSent
               /\ P!RoutedToOwner
               /\ P!FirstDispatchInOrder
               /\ P!NoMissedDispatch)
  BY ServerImplemented, SameAssumptions, P!TypeCorrect, P!BudgetKept, P!OutcomesFit,
     P!KeysStayUnique, P!HandOutsHappened, P!RoutingKept, P!QueueingIsFair,
     P!NoLostWakeUp, PTL

(* A finished job stays as it finished and every row moves as JobLifecycle *)
(* promises the clients, also when an agent reports a job again after a    *)
(* crash, or late on a connection the server gave up.                      *)
THEOREM ClientsSafe == Spec => P!TerminalFinal /\ P!KeepsPromise
  BY ServerImplemented, SameAssumptions, P!FinishedIsFinal, P!LifecycleKept, PTL
=============================================================================
