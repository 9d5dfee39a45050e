---------------------------- MODULE SystemProofs ----------------------------
(***************************************************************************)
(* The whole system, continued: the agents of JobSystem are the agents of  *)
(* AgentRuntime, so what is proved of those, instantiated as G, holds of   *)
(* them; and the table of jobs says of Docker only what is true.           *)
(***************************************************************************)
EXTENDS JobSystemProofs, FiniteSetTheorems

G == INSTANCE AgentProofs WITH
        link <- socket, MaxJobs <- 0, MaxCancels <- 0, MaxBreaks <- Cardinality(Conn),
        MaxEvents <- Cardinality(Conn) + MaxCrashes + MaxFaults

-----------------------------------------------------------------------------
(* A and G instantiate the same definitions. *)

LEMMA AgentAssumption == G!RuntimeAssumption
  BY SystemAssumption, Zenon DEF A!RuntimeAssumption, G!RuntimeAssumption,
                                 A!Cardinality, G!Cardinality

LEMMA SameInit == A!Init <=> G!Init
  BY Zenon DEF A!Init, G!Init, A!Off, G!Off

LEMMA SameMain ==
    ASSUME NEW a
    PROVE  /\ A!Connect(a) <=> G!Connect(a)
           /\ A!List(a) <=> G!List(a)
           /\ A!ListFails(a) <=> G!ListFails(a)
           /\ A!ReconcileNext(a) <=> G!ReconcileNext(a)
           /\ A!Inspect(a) <=> G!Inspect(a)
           /\ A!ReportExited(a) <=> G!ReportExited(a)
           /\ A!Discard(a) <=> G!Discard(a)
           /\ A!ReconcileDone(a) <=> G!ReconcileDone(a)
  BY Zenon DEF A!Connect, G!Connect, A!List, G!List, A!ListFails, G!ListFails,
               A!ReconcileNext, G!ReconcileNext, A!Inspect, G!Inspect,
               A!ReportExited, G!ReportExited, A!Discard, G!Discard,
               A!ReconcileDone, G!ReconcileDone, A!Managed, G!Managed,
               A!Reattach, G!Reattach, A!Fails, G!Fails, A!Cardinality,
               G!Cardinality, A!Events, G!Events, A!Goto, G!Goto, A!SendThen,
               G!SendThen, A!EndSession, G!EndSession, A!SetState, G!SetState,
               A!Off, G!Off

LEMMA SameListen ==
    ASSUME NEW a
    PROVE  /\ A!OnJob(a) <=> G!OnJob(a)
           /\ A!OnCancel(a) <=> G!OnCancel(a)
           /\ A!EndListen(a) <=> G!EndListen(a)
           /\ A!CreateContainer(a) <=> G!CreateContainer(a)
           /\ A!StartFails(a) <=> G!StartFails(a)
           /\ A!Launch(a) <=> G!Launch(a)
           /\ A!Break(a) <=> G!Break(a)
           /\ A!Crash(a) <=> G!Crash(a)
  BY Zenon DEF A!OnJob, G!OnJob, A!OnCancel, G!OnCancel, A!EndListen,
               G!EndListen, A!CreateContainer, G!CreateContainer, A!StartFails,
               G!StartFails, A!Launch, G!Launch, A!Break, G!Break, A!Crash,
               G!Crash, A!Fails, G!Fails, A!Cardinality, G!Cardinality, A!Events,
               G!Events, A!Spend, G!Spend, A!Goto, G!Goto, A!SendThen,
               G!SendThen, A!EndSession, G!EndSession, A!SetState, G!SetState,
               A!Off, G!Off

LEMMA SameTasks ==
    /\ \A r : /\ A!Collect(r) <=> G!Collect(r)
              /\ A!Remove(r) <=> G!Remove(r)
              /\ A!WaitFails(r) <=> G!WaitFails(r)
              /\ A!SendResult(r) <=> G!SendResult(r)
    /\ \A c : A!Exit(c) <=> G!Exit(c)
    /\ \A a, type, j : A!Receive(a, type, j) <=> G!Receive(a, type, j)
  BY Zenon DEF A!Collect, G!Collect, A!Remove, G!Remove, A!WaitFails, G!WaitFails,
               A!SendResult, G!SendResult, A!Exit, G!Exit, A!Receive, G!Receive, A!Fails,
               G!Fails, A!Cardinality, G!Cardinality, A!Events, G!Events,
               A!SetState, G!SetState, A!Pop, G!Pop, A!HandlerDone,
               G!HandlerDone, A!EndSession, G!EndSession, A!Off, G!Off

-----------------------------------------------------------------------------
(* Every step is a step of the agents, or leaves them alone. *)

(* The server sends known jobs. *)
LEMMA WrittenJobs ==
    ASSUME P!TypeOK'
    PROVE  \A m \in Written : m[2] \in {"job", "cancel"} /\ m[3] \in Job
<1>. SUFFICES ASSUME NEW m \in Written PROVE m[2] \in {"job", "cancel"} /\ m[3] \in Job
  OBVIOUS
<1>1. CASE \E t \in S!Task :
              disp'[t].pc = "send" /\ m = <<disp'[t].conn, "job", disp'[t].job>>
  BY <1>1 DEF S!Task, P!Task, P!TypeOK, P!TaskState, P!TaskShape
<1>2. CASE \E j \in (cancelling' \ cancelling) \cup ({firing'} \ {firing, Nil}) :
              m = <<registry[jobs[j].agent], "cancel", j>>
  BY <1>2 DEF P!TypeOK
<1>. QED
  BY <1>1, <1>2 DEF Written

LEMMA CarryMoves ==
    ASSUME G!AgentInv, P!TypeOK', Carry
    PROVE  G!Moves \/ UNCHANGED agents
<1>1. ASSUME NEW a \in Agent, NEW m \in Written, A!Receive(a, m[2], m[3]), UNCHANGED used
      PROVE  G!Delivery
  <2>1. m[2] \in {"job", "cancel"} /\ m[3] \in Job
    BY WrittenJobs
  <2>2. G!Receive(a, m[2], m[3])
    BY <1>1, SameTasks
  <2>3. used \in G!Tally
    BY DEF G!AgentInv, G!Typed
  <2>. QED
    BY <1>1, <2>1, <2>2, <2>3 DEF G!Delivery
<1>. QED
  BY <1>1 DEF Carry, G!Moves

(* A step of the agents of their own accord. *)
Acts ==
    \/ \E a \in Agent : G!Connect(a) \/ G!Reconcile(a) \/ G!Listen(a)
    \/ \E r \in runs : G!Work(r)
    \/ \E c \in Container : G!Exit(c)
    \/ \E a \in Agent : G!Break(a) \/ G!Crash(a)

LEMMA MainActs ==
    ASSUME NEW a \in Agent, Main(a) \/ NoticeBreak(a) \/ Crash(a)
    PROVE  Acts
<1>1. CASE A!Connect(a) \/ ReconcileStep(a) \/ A!ReportExited(a)
  <2>1. G!Connect(a) \/ G!Reconcile(a)
    BY <1>1, SameMain, Zenon DEF ReconcileStep, G!Reconcile
  <2>. QED
    BY <2>1, Zenon DEF Acts
<1>2. CASE A!OnJob(a) \/ A!StartFails(a) \/ ListenStep(a) \/ A!Launch(a)
  <2>1. G!Listen(a)
    BY <1>2, SameListen, Zenon DEF ListenStep, CreateContainer, G!Listen
  <2>. QED
    BY <2>1, Zenon DEF Acts
<1>3. CASE A!Break(a) \/ A!Crash(a)
  BY <1>3, SameListen, Zenon DEF Acts
<1>. QED
  BY <1>1, <1>2, <1>3, Zenon
     DEF Main, Connect, Accept, StartFails, AgentSends, NoticeBreak, Crash

LEMMA TaskActs ==
    ASSUME NEW a, NEW c, Wait(a, c)
    PROVE  Acts
<1>1. PICK r \in runs : A!Collect(r) \/ A!Remove(r) \/ A!WaitFails(r) \/ A!SendResult(r)
  BY Zenon DEF Wait, AgentSends
<1>2. G!Work(r)
  BY <1>1, SameTasks, Zenon DEF G!Work
<1>. QED
  BY <1>2, Zenon DEF Acts

LEMMA AgentsAct ==
    ASSUME [Next]_vars
    PROVE  \/ Acts /\ UNCHANGED server
           \/ Carry /\ UNCHANGED wire
           \/ UNCHANGED agents
<1>1. CASE UNCHANGED vars
  BY <1>1 DEF vars
<1>2. CASE ServerRuns
  BY <1>2, Zenon DEF ServerRuns, Server, Handle, NoticeLoss, between
<1>3. CASE AgentsRun
  <2>1. Acts
    BY <1>3, MainActs, TaskActs DEF AgentsRun
  <2>2. UNCHANGED server
    BY <1>3, Zenon DEF AgentsRun, Main, Connect, Accept, StartFails, AgentSends, Wait,
                       NoticeBreak
  <2>. QED
    BY <2>1, <2>2
<1>4. ASSUME NEW c \in Container, Exit(c) PROVE Acts /\ UNCHANGED server
  BY <1>4, SameTasks, Zenon DEF Exit, Acts
<1>5. CASE Environment
  <2>1. \/ Carry /\ UNCHANGED wire
        \/ UNCHANGED agents
        \/ \E a \in Agent : Crash(a)
    BY <1>5, Zenon DEF Environment, Server, HeartbeatLate, Restart, Cut, between
  <2>2. ASSUME NEW a \in Agent, Crash(a) PROVE Acts /\ UNCHANGED server
    BY <2>2, MainActs DEF Crash
  <2>. QED
    BY <2>1, <2>2
<1>. QED
  BY <1>1, <1>2, <1>3, <1>4, <1>5 DEF Next

LEMMA AgentsMove ==
    ASSUME G!AgentInv, P!TypeOK', [Next]_vars
    PROVE  G!Moves \/ UNCHANGED agents
<1>1. Acts => G!Moves
  BY Zenon DEF Acts, G!Moves
<1>. QED
  BY <1>1, AgentsAct, CarryMoves

-----------------------------------------------------------------------------
(* Connections: what an agent writes to one that is not cut, it writes to  *)
(* a socket that is up.                                                    *)
Wired ==
    /\ wire \in [Agent -> Conn \cup {Nil}]
    /\ \A a \in Agent : wire[a] \in Conn \ cut => socket[a] = "up"

(* A step of an agent that sends may end its session; no other socket      *)
(* changes.                                                                *)
SocketKept(a) ==
    UNCHANGED socket \/ socket' = [socket EXCEPT ![a] = "down"]

LEMMA MainSocket ==
    ASSUME NEW a,
           \/ ReconcileStep(a) \/ ListenStep(a) \/ A!OnJob(a) \/ A!StartFails(a)
           \/ A!Launch(a) \/ A!ReportExited(a)
    PROVE  SocketKept(a)
  BY Zenon DEF SocketKept, ReconcileStep, ListenStep, CreateContainer, A!List,
               A!ListFails, A!ReconcileNext, A!Inspect, A!ReportExited, A!Discard,
               A!ReconcileDone, A!OnJob, A!OnCancel, A!EndListen, A!CreateContainer,
               A!StartFails, A!Launch, A!Goto, A!SendThen, A!EndSession

LEMMA TaskSocket ==
    ASSUME NEW r, A!Collect(r) \/ A!Remove(r) \/ A!WaitFails(r) \/ A!SendResult(r)
    PROVE  SocketKept(r.agent)
<1>1. CASE A!Collect(r) \/ A!Remove(r) \/ A!WaitFails(r)
  BY <1>1, Zenon DEF SocketKept, A!Collect, A!Remove, A!WaitFails, A!EndSession
<1>2. CASE A!SendResult(r)
  BY <1>2 DEF SocketKept, A!SendResult, A!HandlerDone, A!EndSession
<1>. QED
  BY <1>1, <1>2

LEMMA SendsWired ==
    ASSUME Wired, G!Typed, NEW a \in Agent, SocketKept(a), NEW ACTION step,
           NEW STATE messages, AgentSends(step, a, messages)
    PROVE  Wired'
<1>1. Nil \notin Conn
  BY SystemAssumption DEF S!ControlPlaneAssumption
<1>2. wire' \in [Agent -> Conn \cup {Nil}] /\ cut \subseteq cut'
  BY DEF Wired, AgentSends
<1>3. ASSUME NEW b \in Agent, wire'[b] \in Conn \ cut' PROVE socket'[b] = "up"
  <2>1. wire[b] = wire'[b]
    BY <1>1, <1>3 DEF Wired, AgentSends
  <2>2. socket[b] = "up"
    BY <1>2, <1>3, <2>1 DEF Wired
  <2>3. CASE b # a \/ UNCHANGED socket
    BY <2>2, <2>3 DEF SocketKept, G!Typed
  <2>4. CASE b = a /\ socket' = [socket EXCEPT ![a] = "down"]
    <3>1. socket'[a] = "down"
      BY <2>4 DEF G!Typed
    <3>2. wire'[a] = Nil
      BY <1>3, <2>1, <2>4, <3>1, <1>1 DEF Wired, AgentSends
    <3>. QED
      BY <1>1, <1>3, <2>4, <3>2
  <2>. QED
    BY <2>3, <2>4 DEF SocketKept
<1>. QED
  BY <1>2, <1>3 DEF Wired

LEMMA AgentsWired ==
    ASSUME Wired, G!Typed, AgentsRun
    PROVE  Wired'
<1>1. ASSUME NEW a \in Agent, Connect(a) PROVE Wired'
  BY <1>1 DEF Wired, Connect, A!Connect, G!Typed
<1>2. ASSUME NEW a \in Agent, Main(a) PROVE Wired'
  <2>1. CASE AgentSends(ReconcileStep(a) \/ ListenStep(a), a, <<>>)
    <3>1. SocketKept(a)
      BY <2>1, MainSocket, Zenon DEF AgentSends
    <3>. QED
      BY <2>1, <3>1, SendsWired
  <2>2. CASE Accept(a) \/ StartFails(a)
    <3>1. SocketKept(a)
      BY <2>2, MainSocket, Zenon DEF Accept, StartFails, AgentSends
    <3>. QED
      BY <2>2, <3>1, SendsWired DEF Accept, StartFails
  <2>3. CASE AgentSends(A!Launch(a), a, StartedMessage(main[a].job))
    <3>1. SocketKept(a)
      BY <2>3, MainSocket, Zenon DEF AgentSends
    <3>. QED
      BY <2>3, <3>1, SendsWired
  <2>4. ASSUME NEW report \in ExitReport,
               AgentSends(A!ReportExited(a), a,
                          ResultMessage(docker[main[a].container].job, report))
        PROVE  Wired'
    <3>1. SocketKept(a)
      BY <2>4, MainSocket, Zenon DEF AgentSends
    <3>. QED
      BY <2>4, <3>1, SendsWired
  <2>. QED
    BY <1>1, <1>2, <2>1, <2>2, <2>3, <2>4 DEF Main
<1>3. ASSUME NEW a \in Agent, NEW c \in Container, Wait(a, c) PROVE Wired'
  <2>1. PICK r \in runs :
            /\ r.agent = a
            /\ \/ AgentSends(A!Collect(r) \/ A!Remove(r) \/ A!WaitFails(r), a, <<>>)
               \/ \E report \in ExitReport :
                     AgentSends(A!SendResult(r), a,
                                IF r.session = session[a]
                                THEN ResultMessage(docker[c].job, report) ELSE <<>>)
    BY <1>3 DEF Wait
  <2>2. SocketKept(a)
    BY <2>1, TaskSocket, Zenon DEF AgentSends
  <2>. QED
    BY <2>1, <2>2, SendsWired
<1>4. ASSUME NEW a \in Agent, NoticeBreak(a) PROVE Wired'
  BY <1>4 DEF Wired, NoticeBreak, A!Break, between, G!Typed
<1>. QED
  BY <1>2, <1>3, <1>4 DEF AgentsRun

LEMMA WiredStep ==
    ASSUME Wired, G!Typed, [Next]_vars
    PROVE  Wired'
<1>1. ASSUME UNCHANGED <<wire, socket>>, cut \subseteq cut' PROVE Wired'
  BY <1>1 DEF Wired
<1>2. Carry => UNCHANGED socket
  BY Zenon DEF Carry, A!Receive, agents
<1>3. CASE UNCHANGED vars
  BY <1>1, <1>3 DEF vars, agents, between
<1>4. CASE ServerRuns
  <2>1. Carry /\ UNCHANGED <<wire, cut>>
    BY <1>4, Zenon DEF ServerRuns, Server, Handle, NoticeLoss, between
  <2>. QED
    BY <1>1, <1>2, <2>1
<1>5. CASE AgentsRun
  BY <1>5, AgentsWired
<1>6. ASSUME NEW c \in Container, Exit(c) PROVE Wired'
  BY <1>1, <1>6 DEF Exit, A!Exit, between
<1>7. CASE Environment
  <2>1. ASSUME NEW a \in Agent, Crash(a) PROVE Wired'
    <3>1. Nil \notin Conn
      BY SystemAssumption DEF S!ControlPlaneAssumption
    <3>. QED
      BY <2>1, <3>1 DEF Wired, Crash, A!Crash, A!EndSession, G!Typed
  <2>2. CASE ~\E a \in Agent : Crash(a)
    <3>1. (Carry \/ UNCHANGED agents) /\ UNCHANGED wire
      BY <1>7, <2>2, Zenon DEF Environment, Server, HeartbeatLate, Restart, Cut, between
    <3>2. cut \subseteq cut'
      BY <1>7, <2>2 DEF Environment, Server, HeartbeatLate, Restart, Cut, between
    <3>. QED
      BY <1>1, <1>2, <3>1, <3>2 DEF agents
  <2>. QED
    BY <2>1, <2>2
<1>. QED
  BY <1>3, <1>4, <1>5, <1>6, <1>7 DEF Next
-----------------------------------------------------------------------------
(* What is true of Docker: the jobs of which a container was started, and  *)
(* those of which an agent reported a container that ended.                *)
Begun == {docker[c].job : c \in {d \in Container : G!Begun(d)}}

Ended == {docker[c].job : c \in reported}

(* The jobs the server handed out: EverSent of ControlPlane. *)
Known == UNION {sent[c] : c \in Conn}

(* Neither is ever taken back. *)
LEMMA FactsLast ==
    ASSUME G!AgentInv, G!Moves \/ UNCHANGED agents
    PROVE  Begun \subseteq Begun' /\ Ended \subseteq Ended'
<1>1. CASE UNCHANGED agents
  BY <1>1 DEF agents, Begun, Ended, G!Begun
<1>2. CASE G!Moves
  <2>1. ASSUME NEW c \in Container, G!Begun(c)
        PROVE  G!Begun(c)' /\ docker'[c].job = docker[c].job
    <3>1. G!Grows(c)
      BY <1>2, AgentAssumption, G!DockerStep
    <3>2. docker[c].state # "none"
      BY <2>1 DEF G!Begun
    <3>. QED
      BY <2>1, <3>1, <3>2, AgentAssumption, G!Persists
  <2>2. reported \subseteq reported' /\ \A c \in reported : c \in Container /\ G!Begun(c)
    BY <1>2, AgentAssumption, G!ReportedStep DEF G!AgentInv, G!Typed, G!ReportedBegun
  <2>3. Begun \subseteq Begun'
    BY <2>1 DEF Begun
  <2>4. Ended \subseteq Ended'
    BY <2>1, <2>2 DEF Ended
  <2>. QED
    BY <2>3, <2>4
<1>. QED
  BY <1>1, <1>2

(* A message that says nothing but the truth, and a sequence of them. *)
Truthful(m, begun, ended, known) ==
    /\ m.type # "register" => m.job \in known
    /\ m.type = "started" => m.job \in begun
    /\ m.type = "result" /\ m.report = "exit 0" => m.job \in ended

Truths(s, begun, ended, known) ==
    \E M : s \in Seq(M) /\ \A m \in M : Truthful(m, begun, ended, known)

LEMMA AreTruths ==
    ASSUME NEW s, NEW M, NEW begun, NEW ended, NEW known, s \in Seq(M),
           \A m \in M : Truthful(m, begun, ended, known)
    PROVE  Truths(s, begun, ended, known)
  BY DEF Truths

LEMMA TruthsLast ==
    ASSUME NEW s, NEW begun, NEW ended, NEW known,
           NEW begun2, NEW ended2, NEW known2,
           Truths(s, begun, ended, known), begun \subseteq begun2,
           ended \subseteq ended2, known \subseteq known2
    PROVE  Truths(s, begun2, ended2, known2)
<1>1. PICK M : s \in Seq(M) /\ \A m \in M : Truthful(m, begun, ended, known)
  BY DEF Truths
<1>2. \A m \in M : Truthful(m, begun2, ended2, known2)
  BY <1>1 DEF Truthful
<1>. QED
  BY <1>1, <1>2, AreTruths

LEMMA TruthsConcat ==
    ASSUME NEW s, NEW t, NEW begun, NEW ended, NEW known,
           Truths(s, begun, ended, known), Truths(t, begun, ended, known)
    PROVE  Truths(s \o t, begun, ended, known)
<1>1. PICK M : s \in Seq(M) /\ \A m \in M : Truthful(m, begun, ended, known)
  BY DEF Truths
<1>2. PICK N : t \in Seq(N) /\ \A m \in N : Truthful(m, begun, ended, known)
  BY DEF Truths
<1>3. s \in Seq(M \cup N) /\ t \in Seq(M \cup N)
  BY <1>1, <1>2, SeqMonotonic, Zenon
<1>4. s \o t \in Seq(M \cup N)
  BY <1>3, ConcatProperties
<1>5. \A m \in M \cup N : Truthful(m, begun, ended, known)
  BY <1>1, <1>2
<1>. QED
  BY <1>4, <1>5, AreTruths

LEMMA TruthsTail ==
    ASSUME NEW s, NEW begun, NEW ended, NEW known,
           Truths(s, begun, ended, known), s # <<>>
    PROVE  Truths(Tail(s), begun, ended, known) /\ Truthful(Head(s), begun, ended, known)
<1>1. PICK M : s \in Seq(M) /\ \A m \in M : Truthful(m, begun, ended, known)
  BY DEF Truths
<1>2. Tail(s) \in Seq(M) /\ Head(s) \in M
  BY <1>1
<1>. QED
  BY <1>1, <1>2, AreTruths

LEMMA TruthOne ==
    ASSUME NEW m, NEW begun, NEW ended, NEW known, Truthful(m, begun, ended, known)
    PROVE  Truths(<<m>>, begun, ended, known)
<1>. PICK M : M = {m}
  OBVIOUS
<1>1. <<m>> \in Seq(M)
  OBVIOUS
<1>2. \A x \in M : Truthful(x, begun, ended, known)
  OBVIOUS
<1>. QED
  BY <1>1, <1>2, AreTruths

LEMMA NoTruth ==
    ASSUME NEW begun, NEW ended, NEW known
    PROVE  Truths(<<>>, begun, ended, known)
<1>. PICK M : M = {}
  OBVIOUS
<1>1. <<>> \in Seq(M)
  BY EmptySeq
<1>2. \A x \in M : Truthful(x, begun, ended, known)
  OBVIOUS
<1>. QED
  BY <1>1, <1>2, AreTruths

LEMMA StartedIsTrue ==
    ASSUME NEW begun, NEW ended, NEW known, NEW j \in begun \cap known
    PROVE  Truths(StartedMessage(j), begun, ended, known)
<1>1. Truthful([type |-> "started", job |-> j], begun, ended, known)
  BY DEF Truthful
<1>. QED
  BY <1>1, TruthOne DEF StartedMessage

LEMMA ResultIsTrue ==
    ASSUME NEW begun, NEW ended, NEW known, NEW j \in known, NEW report,
           j \in ended \/ report = "error"
    PROVE  Truths(ResultMessage(j, report), begun, ended, known)
<1>1. Truthful([type |-> "result", job |-> j, report |-> report], begun, ended, known)
  BY DEF Truthful
<1>. QED
  BY <1>1, TruthOne DEF ResultMessage

-----------------------------------------------------------------------------
(* A connection opens with register, and nothing else registers. *)
Opens(s) == \A i \in 1 .. Len(s) : s[i].type = "register" => i = 1

Reports(s) == \A i \in 1 .. Len(s) : s[i].type # "register"

LEMMA AgentReports ==
    /\ Reports(<<>>)
    /\ \A j : Reports(StartedMessage(j))
    /\ \A j, report : Reports(ResultMessage(j, report))
  BY DEF Reports, StartedMessage, ResultMessage

LEMMA OpensConcat ==
    ASSUME NEW s, NEW t, NEW begun, NEW ended, NEW known,
           Truths(s, begun, ended, known), Truths(t, begun, ended, known),
           Opens(s), Reports(t)
    PROVE  Opens(s \o t)
<1>1. PICK M : s \in Seq(M)
  BY DEF Truths
<1>2. PICK N : t \in Seq(N)
  BY DEF Truths
<1>. QED
  BY <1>1, <1>2 DEF Opens, Reports

LEMMA OpensTail ==
    ASSUME NEW s, NEW begun, NEW ended, NEW known,
           Truths(s, begun, ended, known), s # <<>>, Opens(s)
    PROVE  Opens(Tail(s))
<1>1. PICK M : s \in Seq(M)
  BY DEF Truths
<1>. QED
  BY <1>1 DEF Opens

LEMMA OpensOne ==
    ASSUME NEW m
    PROVE  Opens(<<m>>) /\ Opens(<<>>)
  BY DEF Opens

(* What is on the way to the server is true, and in order.                 *)
AllTrue == \A c \in Conn : Truths(up[c], Begun, Ended, Known) /\ Opens(up[c])

FactsKept == Begun \subseteq Begun' /\ Ended \subseteq Ended' /\ Known \subseteq Known'

LEMMA TrueStays ==
    ASSUME AllTrue, FactsKept, UNCHANGED up
    PROVE  AllTrue'
<1>1. ASSUME NEW c \in Conn
      PROVE  Truths(up'[c], Begun', Ended', Known') /\ Opens(up'[c])
  BY TruthsLast DEF AllTrue, FactsKept
<1>. QED
  BY <1>1 DEF AllTrue

LEMMA TrueGrows ==
    ASSUME AllTrue, FactsKept, NEW a, NEW ACTION step, NEW STATE messages,
           AgentSends(step, a, messages), Reports(messages),
           wire[a] \in Conn \ cut => Truths(messages, Begun', Ended', Known')
    PROVE  AllTrue'
<1>1. ASSUME NEW c \in Conn
      PROVE  Truths(up'[c], Begun', Ended', Known') /\ Opens(up'[c])
  <2>1. Truths(up[c], Begun', Ended', Known') /\ Opens(up[c])
    BY TruthsLast DEF AllTrue, FactsKept
  <2>2. CASE c = wire[a] /\ c \notin cut
    <3>1. up'[c] = up[c] \o messages
      BY <2>2 DEF AgentSends
    <3>. QED
      BY <2>1, <2>2, <3>1, TruthsConcat, OpensConcat
  <2>3. CASE ~(c = wire[a] /\ c \notin cut)
    BY <2>1, <2>3 DEF AgentSends
  <2>. QED
    BY <2>2, <2>3
<1>. QED
  BY <1>1 DEF AllTrue

LEMMA TrueSet ==
    ASSUME AllTrue, FactsKept, Admissible, NEW c \in Conn, NEW STATE s,
           up' = [up EXCEPT ![c] = s], Truths(s, Begun', Ended', Known'), Opens(s)
    PROVE  AllTrue'
<1>1. ASSUME NEW d \in Conn
      PROVE  Truths(up'[d], Begun', Ended', Known') /\ Opens(up'[d])
  <2>1. up'[d] = s \/ up'[d] = up[d]
    BY DEF Admissible
  <2>. QED
    BY <2>1, TruthsLast DEF AllTrue, FactsKept
<1>. QED
  BY <1>1 DEF AllTrue

-----------------------------------------------------------------------------
(* The agents were handed every job they know of. *)

Orders(s, known) ==
    \E M : s \in Seq(M) /\ \A m \in M : m.type = "job" => m.job \in known

Knowing ==
    /\ \A c \in Container : docker[c].job \in Known \cup {Nil}
    /\ \A a \in Agent :
          /\ main[a].pc \in {"start", "launch"} => main[a].job \in Known
          /\ Orders(inbox[a], Known)

LEMMA AreOrders ==
    ASSUME NEW s, NEW M, NEW known, s \in Seq(M),
           \A m \in M : m.type = "job" => m.job \in known
    PROVE  Orders(s, known)
  BY DEF Orders

LEMMA NoOrder ==
    ASSUME NEW known
    PROVE  Orders(<<>>, known)
<1>. PICK M : M = {}
  OBVIOUS
<1>1. <<>> \in Seq(M)
  BY EmptySeq
<1>2. \A m \in M : m.type = "job" => m.job \in known
  OBVIOUS
<1>. QED
  BY <1>1, <1>2, AreOrders

LEMMA OrdersLast ==
    ASSUME NEW s, NEW known, NEW known2, Orders(s, known), known \subseteq known2
    PROVE  Orders(s, known2)
<1>1. PICK M : s \in Seq(M) /\ \A m \in M : m.type = "job" => m.job \in known
  BY DEF Orders
<1>. QED
  BY <1>1, AreOrders

LEMMA OrdersTail ==
    ASSUME NEW s, NEW known, Orders(s, known), s # <<>>
    PROVE  /\ Orders(Tail(s), known)
           /\ Head(s).type = "job" => Head(s).job \in known
<1>1. PICK M : s \in Seq(M) /\ \A m \in M : m.type = "job" => m.job \in known
  BY DEF Orders
<1>2. Tail(s) \in Seq(M) /\ Head(s) \in M
  BY <1>1
<1>. QED
  BY <1>1, <1>2, AreOrders

LEMMA OrdersAppend ==
    ASSUME NEW s, NEW known, Orders(s, known), NEW m,
           m.type = "job" => m.job \in known
    PROVE  Orders(Append(s, m), known)
<1>1. PICK M : s \in Seq(M) /\ \A x \in M : x.type = "job" => x.job \in known
  BY DEF Orders
<1>2. PICK N : N = M \cup {m}
  OBVIOUS
<1>3. s \in Seq(N) /\ m \in N
  BY <1>1, <1>2, SeqMonotonic, Zenon
<1>4. Append(s, m) \in Seq(N)
  BY <1>3
<1>5. \A x \in N : x.type = "job" => x.job \in known
  BY <1>1, <1>2
<1>. QED
  BY <1>4, <1>5, AreOrders

LEMMA BegunKnown ==
    ASSUME G!AgentInv, Knowing, NEW c \in Container, G!Begun(c)
    PROVE  docker[c].job \in Known
<1>1. docker[c].job \in Job
  BY DEF G!AgentInv, G!Labelled, G!Begun
<1>2. Nil \notin Job
  BY SystemAssumption DEF A!RuntimeAssumption
<1>. QED
  BY <1>1, <1>2 DEF Knowing

(* What the agents read, they read in order. *)
InboxMoves(b) ==
    \/ inbox'[b] = inbox[b]
    \/ inbox'[b] = <<>>
    \/ inbox[b] # <<>> /\ inbox'[b] = Tail(inbox[b])

LEMMA LoopReads ==
    ASSUME G!Typed, NEW a \in Agent, NEW b \in Agent,
           G!Connect(a) \/ G!Reconcile(a) \/ G!Listen(a) \/ G!Break(a) \/ G!Crash(a)
    PROVE  InboxMoves(b)
<1>1. \/ UNCHANGED inbox
      \/ inbox' = [inbox EXCEPT ![a] = <<>>]
      \/ inbox[a] # <<>> /\ inbox' = [inbox EXCEPT ![a] = Tail(@)]
  BY Zenon DEF G!Connect, G!Reconcile, G!List, G!ListFails, G!ReconcileNext, G!Inspect,
               G!ReportExited, G!Discard, G!ReconcileDone, G!Listen, G!OnJob, G!OnCancel,
               G!EndListen, G!CreateContainer, G!StartFails, G!Launch, G!Break, G!Crash,
               G!Goto, G!SendThen, G!EndSession
<1>. QED
  BY <1>1 DEF G!Typed, InboxMoves

LEMMA TaskReads ==
    ASSUME G!Typed, NEW r \in runs, NEW b \in Agent, G!Work(r)
    PROVE  InboxMoves(b)
<1>1. CASE G!Collect(r) \/ G!Remove(r) \/ G!WaitFails(r)
  <2>1. UNCHANGED inbox \/ inbox' = [inbox EXCEPT ![r.agent] = <<>>]
    BY <1>1, Zenon DEF G!Collect, G!Remove, G!WaitFails, G!EndSession
  <2>. QED
    BY <2>1 DEF G!Typed, InboxMoves
<1>2. CASE G!SendResult(r)
  <2>1. UNCHANGED inbox \/ inbox' = [inbox EXCEPT ![r.agent] = <<>>]
    BY <1>2 DEF G!Typed, G!Run, G!SendResult, G!HandlerDone, G!EndSession
  <2>. QED
    BY <2>1 DEF G!Typed, InboxMoves
<1>. QED
  BY <1>1, <1>2 DEF G!Work

LEMMA ActsRead ==
    ASSUME G!Typed, Acts, NEW b \in Agent
    PROVE  InboxMoves(b)
<1>1. ASSUME NEW c \in Container, G!Exit(c) PROVE InboxMoves(b)
  BY <1>1 DEF G!Exit, InboxMoves
<1>. QED
  BY <1>1, LoopReads, TaskReads DEF Acts

(* The job an agent has in hand is the one it had, or the next it read. *)
LEMMA HandTakes ==
    ASSUME G!AgentInv, G!Moves, NEW a \in Agent, main'[a].pc \in {"start", "launch"}
    PROVE  \/ /\ main[a].pc \in {"start", "launch"} /\ main'[a].job = main[a].job
              /\ main'[a].pc = "start" => main[a].pc = "start"
           \/ /\ inbox[a] # <<>> /\ Head(inbox[a]).type = "job"
              /\ main[a].pc = "listen" /\ main'[a].job = Head(inbox[a]).job
              /\ inbox'[a] = Tail(inbox[a])
<1>1. G!MainMoves(a)
  BY AgentAssumption, G!MainStep
<1>2. main[a] \in G!MainState
  BY DEF G!AgentInv, G!Typed
<1>3. CASE G!Stays(a) \/ G!Linked(a)
  BY <1>2, <1>3 DEF G!Stays, G!Linked, G!MainState
<1>4. CASE G!Starting(a)
  BY <1>2, <1>4 DEF G!Starting, G!MainState
<1>5. ASSUME NEW todo,
             main'[a] = [main[a] EXCEPT !.pc = "reconcile", !.listed = TRUE, !.todo = todo]
      PROVE  FALSE
  BY <1>2, <1>5 DEF G!MainState
<1>6. ASSUME NEW pc \in {"listen", "report", "discard"},
             main'[a] = [main[a] EXCEPT !.pc = pc]
      PROVE  FALSE
  BY <1>2, <1>6 DEF G!MainState
<1>7. ~G!Listed(a) /\ ~G!Ended(a) /\ ~G!ToListen(a)
  <2>1. ~G!Listed(a)
    BY <1>5, Zenon DEF G!Listed
  <2>2. ~G!Ended(a)
    BY DEF G!Ended, G!Off
  <2>3. ~G!ToListen(a)
    BY <1>6 DEF G!ToListen, G!Off
  <2>. QED
    BY <2>1, <2>2, <2>3
<1>8. ~G!WorkedOff(a)
  BY <1>2, <1>6 DEF G!WorkedOff, G!MainState
<1>9. \A x \in main[a].todo : ~G!Taken(a, x)
  BY <1>2 DEF G!Taken, G!MainState
<1>. QED
  BY <1>1, <1>3, <1>4, <1>7, <1>8, <1>9 DEF G!MainMoves

(* A job an agent acts on is one it was handed. *)
LEMMA ActsKnow ==
    ASSUME G!AgentInv, Knowing, Known \subseteq Known', Acts
    PROVE  Knowing'
<1>1. G!Moves /\ G!Typed
  BY Zenon DEF Acts, G!Moves, G!AgentInv
<1>2. ASSUME NEW c \in Container PROVE docker'[c].job \in Known' \cup {Nil}
  <2>1. G!Grows(c)
    BY <1>1, AgentAssumption, G!DockerStep
  <2>2. docker[c].job \in Known' \cup {Nil}
    BY DEF Knowing
  <2>3. CASE docker'[c].job = docker[c].job
    BY <2>2, <2>3
  <2>4. ASSUME NEW a \in Agent, main[a].pc = "start",
               docker'[c] = [state |-> "created", job |-> main[a].job, by |-> a]
        PROVE  docker'[c].job \in Known'
    BY <2>4 DEF Knowing
  <2>5. CASE docker'[c] = [state |-> docker'[c].state, job |-> docker[c].job,
                           by |-> docker[c].by]
    <3>1. docker'[c].job = docker[c].job
      BY <2>5
    <3>. QED
      BY <2>3, <3>1
  <2>6. \/ docker'[c] = docker[c]
        \/ \E a \in Agent :
              /\ main[a].pc = "start"
              /\ docker'[c] = [state |-> "created", job |-> main[a].job, by |-> a]
        \/ docker'[c] = [state |-> docker'[c].state, job |-> docker[c].job,
                         by |-> docker[c].by]
    BY <2>1, Zenon DEF G!Grows
  <2>. QED
    BY <2>3, <2>4, <2>5, <2>6
<1>3. ASSUME NEW a \in Agent, main'[a].pc \in {"start", "launch"}
      PROVE  main'[a].job \in Known'
  BY <1>1, <1>3, HandTakes, OrdersTail DEF Knowing
<1>4. ASSUME NEW a \in Agent PROVE Orders(inbox'[a], Known')
  <2>1. InboxMoves(a) /\ Orders(inbox[a], Known')
    BY <1>1, ActsRead, OrdersLast DEF Knowing
  <2>. QED
    BY <2>1, NoOrder, OrdersTail DEF InboxMoves
<1>. QED
  BY <1>2, <1>3, <1>4 DEF Knowing

(* What arrives was handed out. *)
LEMMA CarryKnows ==
    ASSUME G!Typed, Knowing, Known \subseteq Known', P!TypeOK', P!SendsWritten', Carry
    PROVE  Knowing'
<1>1. CASE UNCHANGED agents
  BY <1>1, OrdersLast DEF Knowing, agents
<1>2. ASSUME NEW a \in Agent, NEW m \in Written, A!Receive(a, m[2], m[3])
      PROVE  Knowing'
  <2>1. m[2] = "job" => m[3] \in Known'
    <3>1. CASE \E t \in S!Task :
                  disp'[t].pc = "send" /\ m = <<disp'[t].conn, "job", disp'[t].job>>
      BY <3>1 DEF S!Task, P!Task, P!TypeOK, P!TaskState, P!TaskShape, P!SendsWritten, Known
    <3>2. CASE \E j \in (cancelling' \ cancelling) \cup ({firing'} \ {firing, Nil}) :
                  m = <<registry[jobs[j].agent], "cancel", j>>
      BY <3>2
    <3>. QED
      BY <3>1, <3>2 DEF Written
  <2>2. UNCHANGED <<docker, main>>
    BY <1>2, Zenon DEF A!Receive
  <2>3. inbox' = [inbox EXCEPT ![a] = Append(@, [type |-> m[2], job |-> m[3]])]
    BY <1>2, Zenon DEF A!Receive
  <2>4. ASSUME NEW b \in Agent PROVE Orders(inbox'[b], Known')
    <3>1. Orders(inbox[b], Known')
      BY OrdersLast DEF Knowing
    <3>2. CASE a = b
      <4>1. inbox'[b] = Append(inbox[b], [type |-> m[2], job |-> m[3]])
        BY <2>3, <3>2 DEF G!Typed
      <4>. QED
        BY <2>1, <3>1, <4>1, OrdersAppend
    <3>3. CASE a # b
      BY <2>3, <3>1, <3>3 DEF G!Typed
    <3>. QED
      BY <3>2, <3>3
  <2>. QED
    BY <2>2, <2>4 DEF Knowing
<1>. QED
  BY <1>1, <1>2 DEF Carry

LEMMA KnowingStep ==
    ASSUME G!AgentInv, Knowing, Known \subseteq Known', P!TypeOK', P!SendsWritten',
           [Next]_vars
    PROVE  Knowing'
<1>1. CASE UNCHANGED agents
  BY <1>1, OrdersLast DEF Knowing, agents
<1>. QED
  BY <1>1, AgentsAct, ActsKnow, CarryKnows DEF G!AgentInv

(* What the server handed out, it remembers. *)
LEMMA KnownGrows ==
    ASSUME P!IInv, [P!Next]_(P!vars)
    PROVE  Known \subseteq Known'
<1>1. P!TypeOK /\ P!KnownRows
  BY DEF P!IInv
<1>2. \A c \in Conn : sent[c] \subseteq sent'[c]
  BY <1>1, SameAssumptions, P!SentMoves, P!SentGrows
<1>. QED
  BY <1>2 DEF Known

-----------------------------------------------------------------------------
(* "started" follows the start of the container. *)
LEMMA LaunchTrue ==
    ASSUME G!AgentInv, Knowing, NEW a \in Agent, A!Launch(a)
    PROVE  main[a].job \in Begun' \cap Known
<1>1. /\ main[a].pc = "launch"
      /\ docker' = [docker EXCEPT ![main[a].container].state = "running"]
  BY Zenon DEF A!Launch, A!SetState
<1>2. G!Placed(a) /\ docker \in [Container -> G!Label]
  BY DEF G!AgentInv, G!Typed
<1>3. PICK c \in Container :
          /\ main[a].container = c
          /\ docker[c] = [state |-> "created", job |-> main[a].job, by |-> a]
  BY <1>1, <1>2 DEF G!Placed
<1>4. docker'[c].state = "running" /\ docker'[c].job = main[a].job
  BY <1>1, <1>2, <1>3 DEF G!Label
<1>5. G!Begun(c)'
  BY <1>4 DEF G!Begun
<1>. QED
  BY <1>1, <1>4, <1>5 DEF Begun, Knowing

(* A result that reaches a connection is that of a reported container. *)
LEMMA ReportTrue ==
    ASSUME G!AgentInv, Knowing, NEW a \in Agent, A!ReportExited(a), socket[a] = "up"
    PROVE  docker[main[a].container].job \in Ended' \cap Known
<1>1. main[a].container \in reported' /\ UNCHANGED docker
  BY DEF A!ReportExited
<1>2. main[a].container \in Container /\ G!Over(main[a].container)
  BY DEF A!ReportExited, G!AgentInv, G!Placed
<1>3. docker[main[a].container].job \in Known
  BY <1>2, BegunKnown DEF G!Over, G!Begun
<1>. QED
  BY <1>1, <1>3 DEF Ended

LEMMA SendTrue ==
    ASSUME G!AgentInv, Knowing, NEW r \in runs, A!SendResult(r),
           r.session = session[r.agent], socket[r.agent] = "up"
    PROVE  docker[r.container].job \in Ended' \cap Known
<1>1. r.container \in reported' /\ UNCHANGED docker
  BY DEF A!SendResult
<1>2. r.container \in Container /\ G!Begun(r.container)
  BY DEF G!AgentInv, G!Typed, G!Run, G!RunsFit
<1>. QED
  BY <1>1, <1>2, BegunKnown DEF Ended

LEMMA MainTrue ==
    ASSUME G!AgentInv, Knowing, Wired, Admissible, AllTrue, FactsKept,
           NEW a \in Agent, Main(a)
    PROVE  AllTrue'
<1>. USE AgentReports
<1>. Known \subseteq Known'
  BY DEF FactsKept
<1>1. CASE Connect(a)
  <2>1. PICK c \in Conn : up' = [up EXCEPT ![c] = <<[type |-> "register", agent |-> a]>>]
    BY <1>1 DEF Connect
  <2>2. Truthful([type |-> "register", agent |-> a], Begun', Ended', Known')
    BY DEF Truthful
  <2>. QED
    BY <2>1, <2>2, TruthOne, OpensOne, TrueSet
<1>2. CASE Accept(a) \/ AgentSends(ReconcileStep(a) \/ ListenStep(a), a, <<>>)
  BY <1>2, NoTruth, TrueGrows DEF Accept
<1>3. CASE StartFails(a)
  <2>1. main[a].pc \in {"start", "launch"}
    BY <1>3, Zenon DEF StartFails, AgentSends, A!StartFails
  <2>2. Truths(ResultMessage(main[a].job, "error"), Begun', Ended', Known')
    BY <2>1, ResultIsTrue DEF Knowing
  <2>. QED
    BY <1>3, <2>2, TrueGrows DEF StartFails
<1>4. CASE AgentSends(A!Launch(a), a, StartedMessage(main[a].job))
  <2>1. A!Launch(a)
    BY <1>4, Zenon DEF AgentSends
  <2>2. Truths(StartedMessage(main[a].job), Begun', Ended', Known')
    BY <2>1, LaunchTrue, StartedIsTrue
  <2>. QED
    BY <1>4, <2>2, TrueGrows
<1>5. ASSUME NEW report \in ExitReport,
             AgentSends(A!ReportExited(a), a,
                        ResultMessage(docker[main[a].container].job, report))
      PROVE  AllTrue'
  <2>1. A!ReportExited(a)
    BY <1>5, Zenon DEF AgentSends
  <2>2. wire[a] \in Conn \ cut =>
            Truths(ResultMessage(docker[main[a].container].job, report),
                   Begun', Ended', Known')
    BY <2>1, ReportTrue, ResultIsTrue DEF Wired
  <2>. QED
    BY <1>5, <2>2, TrueGrows
<1>. QED
  BY <1>1, <1>2, <1>3, <1>4, <1>5 DEF Main

LEMMA WaitTrue ==
    ASSUME G!AgentInv, Knowing, Wired, AllTrue, FactsKept,
           NEW a \in Agent, NEW c \in Container, Wait(a, c)
    PROVE  AllTrue'
<1>. USE AgentReports
<1>. Known \subseteq Known'
  BY DEF FactsKept
<1>1. PICK r \in runs :
          /\ r.agent = a /\ r.container = c
          /\ \/ AgentSends(A!Collect(r) \/ A!Remove(r) \/ A!WaitFails(r), a, <<>>)
             \/ \E report \in ExitReport :
                   AgentSends(A!SendResult(r), a,
                              IF r.session = session[a]
                              THEN ResultMessage(docker[c].job, report) ELSE <<>>)
  BY DEF Wait
<1>2. CASE AgentSends(A!Collect(r) \/ A!Remove(r) \/ A!WaitFails(r), a, <<>>)
  BY <1>2, NoTruth, TrueGrows
<1>3. ASSUME NEW report \in ExitReport,
             AgentSends(A!SendResult(r), a,
                        IF r.session = session[a]
                        THEN ResultMessage(docker[c].job, report) ELSE <<>>)
      PROVE  AllTrue'
  <2>1. A!SendResult(r)
    BY <1>3, Zenon DEF AgentSends
  <2>2. wire[a] \in Conn \ cut /\ r.session = session[a] =>
            Truths(ResultMessage(docker[c].job, report), Begun', Ended', Known')
    BY <1>1, <2>1, SendTrue, ResultIsTrue DEF Wired
  <2>3. wire[a] \in Conn \ cut =>
            Truths(IF r.session = session[a]
                   THEN ResultMessage(docker[c].job, report) ELSE <<>>,
                   Begun', Ended', Known')
    BY <2>2, NoTruth
  <2>. QED
    BY <1>3, <2>3, TrueGrows
<1>. QED
  BY <1>1, <1>2, <1>3

LEMMA TrueStep ==
    ASSUME G!AgentInv, Knowing, Wired, Admissible, AllTrue, FactsKept, [Next]_vars
    PROVE  AllTrue'
<1>1. CASE UNCHANGED vars
  BY <1>1, TrueStays DEF vars, between
<1>2. ASSUME NEW c \in Conn, Handle(c) PROVE AllTrue'
  <2>1. up[c] # <<>> /\ up' = [up EXCEPT ![c] = Tail(@)]
    BY <1>2 DEF Handle
  <2>2. Truths(Tail(up[c]), Begun', Ended', Known') /\ Opens(Tail(up[c]))
    BY <2>1, TruthsTail, TruthsLast, OpensTail DEF AllTrue, FactsKept
  <2>. QED
    BY <2>1, <2>2, TrueSet
<1>3. CASE ServerRuns /\ ~\E c \in Conn : Handle(c)
  <2>1. UNCHANGED up
    BY <1>3, Zenon DEF ServerRuns, Server, NoticeLoss, between
  <2>. QED
    BY <2>1, TrueStays
<1>4. CASE AgentsRun
  <2>1. ASSUME NEW a \in Agent, NoticeBreak(a) PROVE AllTrue'
    BY <2>1, TrueStays DEF NoticeBreak, between
  <2>. QED
    BY <1>4, <2>1, MainTrue, WaitTrue DEF AgentsRun
<1>5. ASSUME NEW c \in Container, Exit(c) PROVE AllTrue'
  BY <1>5, TrueStays DEF Exit, between
<1>6. CASE Environment
  <2>1. UNCHANGED up \/ up' = [c \in Conn |-> <<>>]
    BY <1>6, Zenon DEF Environment, Server, HeartbeatLate, Restart, Crash, Cut, between
  <2>2. CASE up' = [c \in Conn |-> <<>>]
    BY <2>2, NoTruth, OpensOne DEF AllTrue
  <2>. QED
    BY <2>1, <2>2, TrueStays
<1>. QED
  BY <1>1, <1>2, <1>3, <1>4, <1>5, <1>6 DEF Next

-----------------------------------------------------------------------------
(* The rows.  Only the handlers of "started" and of a result of exit code  *)
(* 0 make a row claim something of Docker.                                 *)
Quiet(row, after) ==
    /\ after.started => row.started
    /\ after.state = "SUCCEEDED" => row.state = "SUCCEEDED"
    /\ after.state = "RUNNING" => row.state = "RUNNING"

AllQuiet == \A j \in Job : Quiet(jobs[j], jobs'[j])

LEMMA QuietOperations ==
    ASSUME NEW row \in P!JobRow
    PROVE  /\ Quiet(row, S!MarkDispatchedWithAttempt(row))
           /\ Quiet(row, S!MarkTimedOut(row))
           /\ Quiet(row, S!MarkCancelled(row))
           /\ Quiet(row, S!Requeue(row))
           /\ Quiet(row, S!FailStaleDispatch(row))
           /\ Quiet(row, S!MarkFailed(row, 1, "reported"))
           /\ Quiet(row, S!MarkFailed(row, 1, Nil))
  BY DEF P!JobRow, Quiet, S!MarkDispatchedWithAttempt, S!MarkTimedOut, S!MarkCancelled,
         S!Requeue, S!FailStaleDispatch, S!MarkFailed, S!TransitionIf,
         S!CompleteIfRunning

LEMMA QuietRow ==
    ASSUME jobs \in [Job -> P!JobRow], NEW j \in Job, NEW STATE row,
           jobs' = [jobs EXCEPT ![j] = row], Quiet(jobs[j], row)
    PROVE  AllQuiet
  BY DEF AllQuiet, Quiet

LEMMA NothingSaid ==
    ASSUME UNCHANGED jobs
    PROVE  AllQuiet
  BY DEF AllQuiet, Quiet

LEMMA DispatchesQuietly ==
    ASSUME P!TypeOK, NEW t \in S!Task, S!DispatchReturn(t)
    PROVE  AllQuiet
<1>. DEFINE j == disp[t].job
<1>1. j \in Job
  BY DEF P!TypeOK, P!Task, S!Task, P!TaskState, P!TaskShape, S!DispatchReturn
<1>2. UNCHANGED jobs \/ jobs' = [jobs EXCEPT ![j] = S!MarkDispatchedWithAttempt(@)]
  BY Zenon DEF S!DispatchReturn
<1>. QED
  BY <1>1, <1>2, QuietOperations, QuietRow, NothingSaid DEF P!TypeOK

LEMMA WatchesQuietly ==
    ASSUME P!TypeOK, S!AckNext \/ S!TimeoutNext \/ S!TimeoutReturn
    PROVE  AllQuiet
<1>1. CASE S!AckNext
  <2>1. PICK j \in Job : \/ jobs' = [jobs EXCEPT ![j] = S!FailStaleDispatch(@)]
                         \/ jobs' = [jobs EXCEPT ![j] = S!Requeue(@)]
    BY <1>1, Zenon DEF S!AckNext
  <2>. QED
    BY <2>1, QuietOperations, QuietRow DEF P!TypeOK
<1>2. CASE S!TimeoutNext
  <2>1. PICK j \in Job : UNCHANGED jobs \/ jobs' = [jobs EXCEPT ![j] = S!MarkTimedOut(@)]
    BY <1>2, Zenon DEF S!TimeoutNext
  <2>. QED
    BY <2>1, QuietOperations, QuietRow, NothingSaid DEF P!TypeOK
<1>3. CASE S!TimeoutReturn
  <2>1. firing \in Job /\ jobs' = [jobs EXCEPT ![firing] = S!MarkTimedOut(@)]
    BY <1>3 DEF P!TypeOK, S!TimeoutReturn
  <2>. QED
    BY <2>1, QuietOperations, QuietRow DEF P!TypeOK
<1>. QED
  BY <1>1, <1>2, <1>3

LEMMA ClientsQuietly ==
    ASSUME P!TypeOK, NEW j \in Job,
           \/ S!CancelRequest(j) \/ S!CancelReturn(j)
           \/ \E a \in Agent, p \in Priority, k \in Key \cup {Nil} : S!Submit(j, a, p, k)
    PROVE  AllQuiet
<1>1. CASE S!CancelRequest(j) \/ S!CancelReturn(j)
  <2>1. UNCHANGED jobs \/ jobs' = [jobs EXCEPT ![j] = S!MarkCancelled(@)]
    BY <1>1, Zenon DEF S!CancelRequest, S!CancelReturn
  <2>. QED
    BY <2>1, QuietOperations, QuietRow, NothingSaid DEF P!TypeOK
<1>2. ASSUME NEW a \in Agent, NEW p \in Priority, NEW k \in Key \cup {Nil},
             S!Submit(j, a, p, k)
      PROVE  AllQuiet
  <2>1. UNCHANGED jobs \/ jobs' = [jobs EXCEPT ![j] = S!NewRow(a, p, k, clock)]
    BY <1>2, Zenon DEF S!Submit
  <2>2. Quiet(jobs[j], S!NewRow(a, p, k, clock))
    BY DEF Quiet, S!NewRow, S!NoRow
  <2>. QED
    BY <2>1, <2>2, QuietRow, NothingSaid DEF P!TypeOK
<1>. QED
  BY <1>1, <1>2

LEMMA OthersQuietly ==
    ASSUME P!TypeOK, [Next]_vars, \A c \in Conn : ~Handle(c)
    PROVE  AllQuiet
<1>1. CASE UNCHANGED server
  BY <1>1, NothingSaid DEF server
<1>2. CASE ServerRuns
  <2>1. ASSUME NEW t \in S!Task, S!DispatchResume(t) PROVE AllQuiet
    BY <2>1, NothingSaid DEF S!DispatchResume
  <2>2. ASSUME NEW X, S!AckScan(X) \/ S!TimeoutScan(X) PROVE AllQuiet
    BY <2>2, NothingSaid DEF S!AckScan, S!TimeoutScan
  <2>3. ASSUME NEW c \in Conn, S!Lose(c) \/ S!HandlerEnd(c) PROVE AllQuiet
    BY <2>3, NothingSaid DEF S!Lose, S!HandlerEnd
  <2>. QED
    BY <1>2, <2>1, <2>2, <2>3, DispatchesQuietly, WatchesQuietly, ClientsQuietly, Zenon
       DEF ServerRuns, Server, NoticeLoss
<1>3. CASE AgentsRun
  BY <1>1, <1>3, Zenon DEF AgentsRun, Main, Connect, Accept, StartFails, AgentSends,
                           Wait, NoticeBreak
<1>4. ASSUME NEW c \in Container, Exit(c) PROVE AllQuiet
  BY <1>1, <1>4 DEF Exit
<1>5. CASE Environment
  <2>1. ASSUME NEW X, S!HeartbeatScan(X) PROVE AllQuiet
    BY <2>1, NothingSaid DEF S!HeartbeatScan
  <2>2. CASE S!Restart
    BY <2>2, NothingSaid DEF S!Restart
  <2>. QED
    BY <1>1, <1>5, <2>1, <2>2, ClientsQuietly, Zenon
       DEF Environment, Server, HeartbeatLate, Restart, Crash, Cut
<1>. QED
  BY <1>1, <1>2, <1>3, <1>4, <1>5 DEF Next, vars

(* The rows claim only what is true. *)
RowsTrue ==
    \A j \in Job :
        /\ jobs[j].started => j \in Begun
        /\ jobs[j].state = "SUCCEEDED" => j \in Ended

LEMMA QuietlyTrue ==
    ASSUME RowsTrue, FactsKept, AllQuiet
    PROVE  RowsTrue'
<1>1. ASSUME NEW j \in Job
      PROVE  /\ jobs'[j].started => j \in Begun'
             /\ jobs'[j].state = "SUCCEEDED" => j \in Ended'
  BY DEF RowsTrue, FactsKept, AllQuiet, Quiet
<1>. QED
  BY <1>1 DEF RowsTrue

LEMMA HandleTrue ==
    ASSUME P!TypeOK, RowsTrue, Admissible, AllTrue, FactsKept, NEW c \in Conn, Handle(c)
    PROVE  RowsTrue'
<1>. DEFINE m == Head(up[c])
<1>1. Messages(up[c]) /\ Truths(up[c], Begun, Ended, Known) /\ up[c] # <<>>
  BY DEF Admissible, AllTrue, Handle
<1>2. Admitted(m) /\ Truthful(m, Begun, Ended, Known)
  BY <1>1, MessagesTail, TruthsTail
<1>3. jobs \in [Job -> P!JobRow]
  BY DEF P!TypeOK
<1>4. CASE m.type = "register"
  <2>1. S!Register(c, m.agent)
    BY <1>4 DEF Handle
  <2>2. UNCHANGED jobs
    BY <2>1, Zenon DEF S!Register
  <2>. QED
    BY <2>2, NothingSaid, QuietlyTrue
<1>5. CASE m.type = "started"
  <2>1. S!Started(c, m.job)
    BY <1>5 DEF Handle
  <2>2. m.job \in Job
    BY <2>1 DEF S!Started, S!EverSent, P!TypeOK
  <2>3. jobs' = [jobs EXCEPT ![m.job] = S!MarkRunning(@)]
    BY <2>1, Zenon DEF S!Started
  <2>4. m.job \in Begun
    BY <1>2, <1>5 DEF Truthful
  <2>5. ASSUME NEW row \in P!JobRow, S!MarkRunning(row).state = "SUCCEEDED"
        PROVE  row.state = "SUCCEEDED"
    BY <2>5 DEF S!MarkRunning, S!TransitionIf, P!JobRow
  <2>6. ASSUME NEW j \in Job
        PROVE  /\ jobs'[j].started => j \in Begun
               /\ jobs'[j].state = "SUCCEEDED" => j \in Ended
    <3>1. CASE j = m.job
      BY <1>3, <2>3, <2>4, <2>5, <3>1 DEF RowsTrue
    <3>2. CASE j # m.job
      BY <1>3, <2>3, <3>2 DEF RowsTrue
    <3>. QED
      BY <3>1, <3>2
  <2>. QED
    BY <2>6 DEF RowsTrue, FactsKept
<1>6. CASE m.type = "result"
  <2>1. S!Result(c, m.job, m.report)
    BY <1>6 DEF Handle
  <2>2. m.job \in Job /\ m.report \in Report
    BY <1>2, <1>6, <2>1 DEF S!Result, S!EverSent, P!TypeOK, Admitted
  <2>3. jobs' = [jobs EXCEPT ![m.job] = S!Complete(@, m.report)]
    BY <2>1, Zenon DEF S!Result
  <2>4. CASE m.report = "exit 0"
    <3>1. m.job \in Ended
      BY <1>2, <1>6, <2>4 DEF Truthful
    <3>2. S!Complete(jobs[m.job], "exit 0") = S!MarkSucceeded(jobs[m.job], 0)
      BY DEF S!Complete
    <3>3. jobs' = [jobs EXCEPT ![m.job] = S!MarkSucceeded(jobs[m.job], 0)]
      BY <2>3, <2>4, <3>2
    <3>4. ASSUME NEW row \in P!JobRow, S!MarkSucceeded(row, 0).started PROVE row.started
      BY <3>4 DEF S!MarkSucceeded, S!CompleteIfRunning, P!JobRow
    <3>5. ASSUME NEW j \in Job
          PROVE  /\ jobs'[j].started => j \in Begun
                 /\ jobs'[j].state = "SUCCEEDED" => j \in Ended
      <4>1. CASE j = m.job
        BY <1>3, <3>1, <3>3, <3>4, <4>1 DEF RowsTrue
      <4>2. CASE j # m.job
        BY <1>3, <3>3, <4>2 DEF RowsTrue
      <4>. QED
        BY <4>1, <4>2
    <3>. QED
      BY <3>5 DEF RowsTrue, FactsKept
  <2>5. CASE m.report # "exit 0"
    <3>1. m.report \in {"error", "exit 1"}
      BY <2>2, <2>5, SystemAssumption DEF S!ControlPlaneAssumption
    <3>2. /\ S!Complete(jobs[m.job], "error") = S!MarkFailed(jobs[m.job], 1, "reported")
          /\ S!Complete(jobs[m.job], "exit 1") = S!MarkFailed(jobs[m.job], 1, Nil)
      BY DEF S!Complete
    <3>3. Quiet(jobs[m.job], S!Complete(jobs[m.job], m.report))
      BY <1>3, <2>2, <3>1, <3>2, QuietOperations
    <3>. QED
      BY <1>3, <2>2, <2>3, <3>3, QuietRow, QuietlyTrue
  <2>. QED
    BY <2>4, <2>5
<1>. QED
  BY <1>2, <1>4, <1>5, <1>6 DEF Admitted

LEMMA RowsStep ==
    ASSUME P!TypeOK, RowsTrue, Admissible, AllTrue, FactsKept, [Next]_vars
    PROVE  RowsTrue'
<1>1. CASE \E c \in Conn : Handle(c)
  BY <1>1, HandleTrue
<1>2. CASE \A c \in Conn : ~Handle(c)
  BY <1>2, OthersQuietly, QuietlyTrue
<1>. QED
  BY <1>1, <1>2

-----------------------------------------------------------------------------
(* Every agent has a wire of its own exactly while it has a socket.        *)
Wires ==
    /\ \A a \in Agent :
          /\ wire[a] = Nil <=> socket[a] = "down"
          /\ socket[a] = "broken" => wire[a] \in cut
          /\ \A b \in Agent : wire[a] = wire[b] /\ wire[a] # Nil => a = b
    /\ cut \subseteq Conn
    /\ trouble \subseteq Trouble \cup {"cut"}

LEMMA WiresStay ==
    ASSUME Wires, UNCHANGED <<wire, socket, cut>>,
           trouble' \subseteq Trouble \cup {"cut"}
    PROVE  Wires'
  BY DEF Wires

LEMMA WiresCut ==
    ASSUME Wires, Wired, UNCHANGED <<wire, socket>>,
           trouble' \subseteq Trouble \cup {"cut"}, NEW lost \in SUBSET Conn,
           cut' = cut \cup lost
    PROVE  Wires'
  BY DEF Wires

LEMMA SendsWires ==
    ASSUME Wires, Wired, G!Typed, NEW a \in Agent, SocketKept(a), NEW ACTION step,
           NEW STATE messages, AgentSends(step, a, messages)
    PROVE  Wires'
<1>1. trouble' \subseteq Trouble \cup {"cut"}
  BY DEF Wires, AgentSends, MayHappen
<1>2. CASE socket'[a] = "down" /\ wire[a] # Nil
  <2>1. wire' = [wire EXCEPT ![a] = Nil] /\ cut' = cut \cup {wire[a]}
    BY <1>2 DEF AgentSends
  <2>2. \A b \in Agent \ {a} : socket'[b] = socket[b]
    BY DEF SocketKept, G!Typed
  <2>. QED
    BY <1>1, <1>2, <2>1, <2>2 DEF Wires, Wired
<1>3. CASE ~(socket'[a] = "down" /\ wire[a] # Nil)
  <2>1. UNCHANGED <<wire, cut>>
    BY <1>3 DEF AgentSends
  <2>2. \A b \in Agent : socket'[b] = socket[b]
    BY <1>3 DEF SocketKept, Wires, G!Typed
  <2>. QED
    BY <1>1, <2>1, <2>2 DEF Wires
<1>. QED
  BY <1>2, <1>3

LEMMA ConnectWires ==
    ASSUME Wires, Wired, G!AgentInv, NEW a \in Agent, Connect(a)
    PROVE  Wires'
<1>1. G!Typed /\ G!Placed(a)
  BY DEF G!AgentInv
<1>2. socket' = [socket EXCEPT ![a] = "up"] /\ UNCHANGED <<cut, trouble>>
  BY Zenon DEF Connect, A!Connect
<1>3. PICK c \in Conn : Unused(c) /\ wire' = [wire EXCEPT ![a] = c]
  BY DEF Connect
<1>4. c # Nil
  BY SystemAssumption DEF S!ControlPlaneAssumption
<1>5. \A b \in Agent : wire[b] # c
  BY <1>3 DEF Unused
<1>6. ASSUME NEW b \in Agent
      PROVE  /\ wire'[b] = Nil <=> socket'[b] = "down"
             /\ socket'[b] = "broken" => wire'[b] \in cut
  BY <1>1, <1>2, <1>3, <1>4 DEF Wires, Wired, G!Typed
<1>7. ASSUME NEW b \in Agent, NEW d \in Agent, wire'[b] = wire'[d], wire'[b] # Nil
      PROVE  b = d
  BY <1>3, <1>5, <1>7 DEF Wires, Wired
<1>. QED
  BY <1>2, <1>6, <1>7 DEF Wires

LEMMA AgentsWires ==
    ASSUME Wires, Wired, G!AgentInv, AgentsRun
    PROVE  Wires'
<1>. G!Typed
  BY DEF G!AgentInv
<1>1. ASSUME NEW a \in Agent, Main(a) PROVE Wires'
  <2>1. CASE AgentSends(ReconcileStep(a) \/ ListenStep(a), a, <<>>)
    <3>1. SocketKept(a)
      BY <2>1, MainSocket, Zenon DEF AgentSends
    <3>. QED
      BY <2>1, <3>1, SendsWires
  <2>2. CASE Accept(a) \/ StartFails(a)
    <3>1. SocketKept(a)
      BY <2>2, MainSocket, Zenon DEF Accept, StartFails, AgentSends
    <3>. QED
      BY <2>2, <3>1, SendsWires DEF Accept, StartFails
  <2>3. CASE AgentSends(A!Launch(a), a, StartedMessage(main[a].job))
    <3>1. SocketKept(a)
      BY <2>3, MainSocket, Zenon DEF AgentSends
    <3>. QED
      BY <2>3, <3>1, SendsWires
  <2>4. ASSUME NEW report \in ExitReport,
               AgentSends(A!ReportExited(a), a,
                          ResultMessage(docker[main[a].container].job, report))
        PROVE  Wires'
    <3>1. SocketKept(a)
      BY <2>4, MainSocket, Zenon DEF AgentSends
    <3>. QED
      BY <2>4, <3>1, SendsWires
  <2>. QED
    BY <1>1, <2>1, <2>2, <2>3, <2>4, ConnectWires DEF Main
<1>2. ASSUME NEW a \in Agent, NEW c \in Container, Wait(a, c) PROVE Wires'
  <2>1. PICK r \in runs :
            /\ r.agent = a
            /\ \/ AgentSends(A!Collect(r) \/ A!Remove(r) \/ A!WaitFails(r), a, <<>>)
               \/ \E report \in ExitReport :
                     AgentSends(A!SendResult(r), a,
                                IF r.session = session[a]
                                THEN ResultMessage(docker[c].job, report) ELSE <<>>)
    BY <1>2 DEF Wait
  <2>2. SocketKept(a)
    BY <2>1, TaskSocket, Zenon DEF AgentSends
  <2>. QED
    BY <2>1, <2>2, SendsWires
<1>3. ASSUME NEW a \in Agent, NoticeBreak(a) PROVE Wires'
  <2>1. /\ socket' = [socket EXCEPT ![a] = "broken"] /\ socket[a] = "up"
        /\ wire[a] \in cut /\ UNCHANGED <<wire, cut, trouble>>
    BY <1>3, Zenon DEF NoticeBreak, A!Break, between
  <2>. QED
    BY <2>1 DEF Wires, G!Typed
<1>. QED
  BY <1>1, <1>2, <1>3 DEF AgentsRun

LEMMA WiresStep ==
    ASSUME Wires, Wired, G!AgentInv, [Next]_vars
    PROVE  Wires'
<1>. G!Typed
  BY DEF G!AgentInv
<1>0. trouble \subseteq Trouble \cup {"cut"}
  BY DEF Wires
<1>1. ASSUME NEW kind, Happens(kind) PROVE trouble' \subseteq Trouble \cup {"cut"}
  BY <1>0, <1>1 DEF Happens, MayHappen
<1>2. Carry => UNCHANGED socket
  BY Zenon DEF Carry, A!Receive, agents
<1>3. CASE UNCHANGED vars
  BY <1>0, <1>3, WiresStay DEF vars, agents, between
<1>4. CASE ServerRuns
  <2>1. Carry /\ UNCHANGED <<wire, cut>> /\ (UNCHANGED trouble \/ Happens("overtaken"))
    BY <1>4, Zenon DEF ServerRuns, Server, Handle, NoticeLoss, between
  <2>. QED
    BY <1>0, <1>1, <1>2, <2>1, WiresStay
<1>5. CASE AgentsRun
  BY <1>5, AgentsWires
<1>6. ASSUME NEW c \in Container, Exit(c) PROVE Wires'
  BY <1>0, <1>6, WiresStay DEF Exit, A!Exit, between
<1>7. CASE Environment
  <2>1. ASSUME NEW a \in Agent, Crash(a) PROVE Wires'
    <3>1. /\ socket' = [socket EXCEPT ![a] = "down"] /\ wire' = [wire EXCEPT ![a] = Nil]
          /\ cut' = cut \cup ({wire[a]} \ {Nil}) /\ Happens("crash")
      BY <2>1, Zenon DEF Crash, A!Crash, A!EndSession
    <3>. QED
      BY <1>1, <3>1 DEF Wires, Wired, G!Typed
  <2>2. CASE Restart
    <3>1. /\ UNCHANGED <<wire, socket>> /\ Happens("restart")
          /\ cut' = cut \cup ({wire[a] : a \in Agent} \ {Nil})
      BY <2>2, Zenon DEF Restart, agents
    <3>2. {wire[a] : a \in Agent} \ {Nil} \subseteq Conn
      BY DEF Wired
    <3>. QED
      BY <1>1, <3>1, <3>2, WiresCut
  <2>3. ASSUME NEW c \in Conn, Cut(c) PROVE Wires'
    <3>1. UNCHANGED <<wire, socket>> /\ Happens("cut") /\ cut' = cut \cup {c}
      BY <2>3, Zenon DEF Cut, agents
    <3>. QED
      BY <1>1, <3>1, WiresCut
  <2>4. CASE HeartbeatLate
    BY <1>1, <2>4, WiresStay DEF HeartbeatLate, agents
  <2>5. ASSUME NEW ACTION step, Server(step) PROVE Wires'
    BY <1>0, <1>2, <2>5, WiresStay DEF Server, between
  <2>. QED
    BY <1>7, <2>1, <2>2, <2>3, <2>4, <2>5, Zenon DEF Environment, Server
<1>. QED
  BY <1>3, <1>4, <1>5, <1>6, <1>7 DEF Next

-----------------------------------------------------------------------------
SystemInv ==
    /\ Admissible /\ P!DInv /\ G!SettledInv
    /\ Wired /\ Wires /\ Knowing /\ AllTrue /\ RowsTrue

LEMMA SystemInvInit == Init => SystemInv
<1>. SUFFICES ASSUME Init PROVE SystemInv
  OBVIOUS
<1>1. Admissible /\ P!DInv
  BY SystemInit, SameAssumptions, P!InitDInv
<1>2. G!SettledInv
  BY SameInit, AgentAssumption, G!InitSettledInv DEF Init
<1>3. Wired /\ Wires
  BY SystemAssumption DEF Init, Wired, Wires, S!ControlPlaneAssumption, A!Init
<1>4. AllTrue
  BY NoTruth, OpensOne DEF Init, AllTrue
<1>6. Knowing
  BY NoOrder DEF Init, A!Init, A!Off, Knowing
<1>5. RowsTrue
  BY DEF Init, S!Init, S!NoRow, RowsTrue
<1>. QED
  BY <1>1, <1>2, <1>3, <1>4, <1>5, <1>6 DEF SystemInv

LEMMA SystemInvStep ==
    ASSUME SystemInv, [Next]_vars
    PROVE  SystemInv' /\ (G!Moves \/ UNCHANGED agents)
<1>. /\ Admissible /\ P!DInv /\ G!SettledInv
     /\ Wired /\ Wires /\ Knowing /\ AllTrue /\ RowsTrue
  BY DEF SystemInv
<1>1. P!TypeOK /\ G!AgentInv /\ G!Typed
  BY DEF P!DInv, P!IInv, G!SettledInv, G!AgentInv
<1>2. Admissible' /\ [P!Next]_(P!vars)
  BY <1>1, SystemStep
<1>3. P!DInv' /\ P!TypeOK' /\ P!SendsWritten'
  <2>1. P!DInv'
    BY <1>2, SameAssumptions, P!DInvStep
  <2>. QED
    BY <2>1 DEF P!DInv, P!IInv
<1>4. G!Moves \/ UNCHANGED agents
  BY <1>1, <1>3, AgentsMove
<1>5. G!SettledInv'
  <2>1. CASE G!Moves
    BY <2>1, AgentAssumption, G!SettledMoves
  <2>2. CASE UNCHANGED agents
    <3>1. UNCHANGED G!vars
      BY <2>2 DEF agents, G!vars
    <3>. QED
      BY <3>1, AgentAssumption, G!SettledInvNext
  <2>. QED
    BY <1>4, <2>1, <2>2
<1>6. FactsKept
  BY <1>1, <1>2, <1>4, FactsLast, KnownGrows DEF FactsKept, P!DInv
<1>7. Wired' /\ Wires' /\ AllTrue' /\ RowsTrue'
  BY <1>1, <1>6, WiredStep, WiresStep, TrueStep, RowsStep
<1>8. Knowing'
  BY <1>1, <1>3, <1>6, KnowingStep DEF FactsKept
<1>. QED
  BY <1>2, <1>3, <1>4, <1>5, <1>7, <1>8 DEF SystemInv

(* In every behaviour of the whole system the server, the agents and what  *)
(* is on the way between them keep their invariants together.              *)
THEOREM SystemInvariance == Spec => []SystemInv
<1>1. SystemInv /\ [Next]_vars => SystemInv'
  BY SystemInvStep
<1>. QED
  BY <1>1, SystemInvInit, PTL DEF Spec

LEMMA SameTypes == (S!TypeOK <=> P!TypeOK) /\ (A!TypeOK <=> G!TypeOK)
<1>1. S!TypeOK <=> P!TypeOK
  BY Zenon DEF S!TypeOK, P!TypeOK, S!JobRow, P!JobRow, S!JobState, P!JobState,
               S!TerminalState, P!TerminalState, S!LiveState, P!LiveState, S!Task, P!Task,
               S!TaskState, P!TaskState, S!TaskShape, P!TaskShape, S!Idle, P!Idle
<1>2. A!TypeOK <=> G!TypeOK
  BY Zenon DEF A!TypeOK, G!TypeOK, A!ContainerState, G!ContainerState, A!Place, G!Place,
               A!Run, G!Run, A!Cardinality, G!Cardinality
<1>. QED
  BY <1>1, <1>2

LEMMA InvTyped ==
    ASSUME SystemInv
    PROVE  TypeOK
<1>. /\ Admissible /\ P!DInv /\ G!SettledInv /\ Wired /\ Wires /\ AllTrue
  BY DEF SystemInv
<1>1. S!TypeOK
  BY SameTypes DEF P!DInv, P!IInv
<1>2. A!TypeOK
  BY SameTypes, AgentAssumption, G!InvTypes DEF G!SettledInv
<1>3. ASSUME NEW c \in Conn, NEW i \in 1 .. Len(up[c])
      PROVE  IF up[c][i].type = "register" THEN i = 1 /\ up[c][i].agent \in Agent
             ELSE up[c][i].job \in S!EverSent
  <2>1. PICK M : up[c] \in Seq(M) /\ \A m \in M : Admitted(m)
    BY DEF Admissible, Messages
  <2>2. PICK N : up[c] \in Seq(N) /\ \A m \in N : Truthful(m, Begun, Ended, Known)
    BY DEF AllTrue, Truths
  <2>3. Admitted(up[c][i]) /\ Truthful(up[c][i], Begun, Ended, Known)
    BY <2>1, <2>2
  <2>4. up[c][i].type = "register" => i = 1
    BY DEF AllTrue, Opens
  <2>. QED
    BY <2>3, <2>4 DEF Admitted, Truthful, Known, S!EverSent
<1>. QED
  BY <1>1, <1>2, <1>3 DEF TypeOK, Wired, Wires

(* Each side finds what the other one wrote to be what it expects: what an *)
(* agent sends names a job the server handed out, a connection opens with  *)
(* register, and no agent shares its connection with another.              *)
THEOREM TypeCorrect == Spec => []TypeOK
<1>1. SystemInv => TypeOK
  BY InvTyped
<1>. QED
  BY <1>1, SystemInvariance, PTL

LEMMA RowsTellTruth ==
    ASSUME SystemInv
    PROVE  TableTellsTruth
<1>. SUFFICES ASSUME NEW j \in Job
              PROVE  /\ jobs[j].started => Launched(j) # {}
                     /\ jobs[j].state = "SUCCEEDED" => Executions(j) \cap reported # {}
  BY DEF TableTellsTruth
<1>1. j \in Begun => Launched(j) # {}
  BY DEF Begun, G!Begun, Launched, Executions
<1>2. j \in Ended => Executions(j) \cap reported # {}
  BY DEF Ended, Executions, SystemInv, G!SettledInv, G!AgentInv, G!Typed
<1>. QED
  BY <1>1, <1>2 DEF SystemInv, RowsTrue

(* The table tells the truth about Docker, whatever restarts, crashes,     *)
(* breaks, fails, overtakes or comes too late: a job that was started has  *)
(* a container that was, and a job that succeeded has one whose end an     *)
(* agent reported.                                                         *)
THEOREM TruthIsTold == Spec => []TableTellsTruth
<1>1. SystemInv => TableTellsTruth
  BY RowsTellTruth
<1>. QED
  BY <1>1, SystemInvariance, PTL

(* The safety of the agents, joined with the server in the place of their  *)
(* open environment: no container is forgotten by its agent, a cancel      *)
(* finds its container, and none leaves Docker without its result.         *)
THEOREM AgentsSafe ==
    Spec => [](G!TypeOK /\ G!Attended /\ G!Cancellable)
            /\ [][G!RemovedWithResult]_agents
<1>1. SystemInv => G!TypeOK /\ G!Attended /\ G!Cancellable
  <2>. SUFFICES ASSUME SystemInv PROVE G!TypeOK /\ G!Attended /\ G!Cancellable
    OBVIOUS
  <2>1. G!SettledInv /\ G!AgentInv
    BY DEF SystemInv, G!SettledInv
  <2>. QED
    BY <2>1, AgentAssumption, G!InvTypes, G!SettledAttends, G!SettledCancels
<1>2. SystemInv /\ [Next]_vars => [G!RemovedWithResult]_agents
  <2>. SUFFICES ASSUME SystemInv, [Next]_vars PROVE G!RemovedWithResult \/ UNCHANGED agents
    OBVIOUS
  <2>1. G!Moves \/ UNCHANGED agents
    BY SystemInvStep
  <2>2. G!AgentInv
    BY DEF SystemInv, G!SettledInv
  <2>. QED
    BY <2>1, <2>2, AgentAssumption, G!RemovedStep
<1>. QED
  BY <1>1, <1>2, SystemInvariance, PTL DEF Spec

-----------------------------------------------------------------------------
(* No job is RUNNING for nothing. *)

(* s holds a result of job j, in full or from position n + 1. *)
AnswersAfter(s, n, j) ==
    \E k \in 1 .. Len(s) : k > n /\ s[k].type = "result" /\ s[k].job = j

Answers(s, j) == \E k \in 1 .. Len(s) : s[k].type = "result" /\ s[k].job = j

(* Each "started" in s is that of a job in J, or its result follows. *)
Covered(s, J) ==
    \A i \in 1 .. Len(s) : s[i].type = "started" =>
        s[i].job \in J \/ AnswersAfter(s, i, s[i].job)

LEMMA CoveredConcat ==
    ASSUME NEW M, NEW N, NEW s \in Seq(M), NEW t \in Seq(N), NEW J, NEW K,
           Covered(s, J), Covered(t, K), \A j \in J : j \in K \/ Answers(t, j)
    PROVE  Covered(s \o t, K)
<1>. DEFINE u == s \o t
<1>1. /\ Len(u) = Len(s) + Len(t) /\ Len(s) \in Nat /\ Len(t) \in Nat
      /\ \A i \in 1 .. Len(s) : u[i] = s[i]
      /\ \A i \in 1 .. Len(t) : u[Len(s) + i] = t[i]
  OBVIOUS
<1>. HIDE DEF u
<1>2. ASSUME NEW i \in 1 .. Len(s), s[i].type = "started"
      PROVE  s[i].job \in K \/ AnswersAfter(u, i, s[i].job)
  <2>1. CASE AnswersAfter(s, i, s[i].job)
    <3>1. PICK k \in 1 .. Len(s) : k > i /\ s[k].type = "result" /\ s[k].job = s[i].job
      BY <2>1 DEF AnswersAfter
    <3>2. k \in 1 .. Len(u) /\ u[k] = s[k]
      BY <1>1
    <3>. QED
      BY <3>1, <3>2 DEF AnswersAfter
  <2>2. CASE Answers(t, s[i].job)
    <3>1. PICK k \in 1 .. Len(t) : t[k].type = "result" /\ t[k].job = s[i].job
      BY <2>2 DEF Answers
    <3>2. Len(s) + k \in 1 .. Len(u) /\ u[Len(s) + k] = t[k] /\ Len(s) + k > i
      BY <1>1
    <3>. QED
      BY <3>1, <3>2 DEF AnswersAfter
  <2>. QED
    BY <1>2, <2>1, <2>2 DEF Covered
<1>3. ASSUME NEW i \in 1 .. Len(t), t[i].type = "started"
      PROVE  t[i].job \in K \/ AnswersAfter(u, Len(s) + i, t[i].job)
  <2>1. CASE AnswersAfter(t, i, t[i].job)
    <3>1. PICK k \in 1 .. Len(t) : k > i /\ t[k].type = "result" /\ t[k].job = t[i].job
      BY <2>1 DEF AnswersAfter
    <3>2. Len(s) + k \in 1 .. Len(u) /\ u[Len(s) + k] = t[k] /\ Len(s) + k > Len(s) + i
      BY <1>1, <3>1
    <3>. QED
      BY <3>1, <3>2 DEF AnswersAfter
  <2>. QED
    BY <1>3, <2>1 DEF Covered
<1>4. ASSUME NEW i \in 1 .. Len(u), u[i].type = "started"
      PROVE  u[i].job \in K \/ AnswersAfter(u, i, u[i].job)
  <2>1. CASE i <= Len(s)
    BY <1>1, <1>2, <1>4, <2>1
  <2>2. CASE i > Len(s)
    <3>1. i - Len(s) \in 1 .. Len(t) /\ Len(s) + (i - Len(s)) = i
      BY <1>1, <2>2
    <3>2. u[i] = t[i - Len(s)]
      BY <1>1, <3>1
    <3>. QED
      BY <1>3, <1>4, <3>1, <3>2
  <2>. QED
    BY <1>1, <2>1, <2>2
<1>5. Covered(u, K)
  BY <1>4 DEF Covered
<1>. QED
  BY <1>5 DEF u

LEMMA CoveredTail ==
    ASSUME NEW M, NEW s \in Seq(M), s # <<>>, NEW J, Covered(s, J)
    PROVE  /\ Covered(Tail(s), J)
           /\ Head(s).type = "started" =>
                 Head(s).job \in J \/ Answers(Tail(s), Head(s).job)
<1>. DEFINE t == Tail(s)
<1>1. /\ Len(t) \in Nat /\ Len(s) = Len(t) + 1 /\ Head(s) = s[1]
      /\ \A i \in 1 .. Len(t) : t[i] = s[i + 1]
  OBVIOUS
<1>. HIDE DEF t
<1>2. ASSUME NEW i \in 0 .. Len(t), NEW j, AnswersAfter(s, i + 1, j)
      PROVE  AnswersAfter(t, i, j)
  <2>1. PICK k \in 1 .. Len(s) : k > i + 1 /\ s[k].type = "result" /\ s[k].job = j
    BY <1>2 DEF AnswersAfter
  <2>2. k - 1 \in 1 .. Len(t) /\ k - 1 > i /\ t[k - 1] = s[k]
    BY <1>1, <2>1
  <2>. QED
    BY <2>1, <2>2 DEF AnswersAfter
<1>3. Covered(t, J)
  <2>1. ASSUME NEW i \in 1 .. Len(t), t[i].type = "started"
        PROVE  t[i].job \in J \/ AnswersAfter(t, i, t[i].job)
    <3>1. i + 1 \in 1 .. Len(s) /\ s[i + 1] = t[i] /\ i \in 0 .. Len(t)
      BY <1>1
    <3>2. t[i].job \in J \/ AnswersAfter(s, i + 1, t[i].job)
      BY <2>1, <3>1 DEF Covered
    <3>. QED
      BY <1>2, <3>1, <3>2
  <2>. QED
    BY <2>1 DEF Covered
<1>4. ASSUME Head(s).type = "started"
      PROVE  Head(s).job \in J \/ Answers(t, Head(s).job)
  <2>1. 1 \in 1 .. Len(s) /\ 0 \in 0 .. Len(t) /\ 0 + 1 = 1
    BY <1>1
  <2>2. s[1].job \in J \/ AnswersAfter(s, 1, s[1].job)
    BY <1>1, <1>4, <2>1 DEF Covered
  <2>3. s[1].job \in J \/ AnswersAfter(t, 0, s[1].job)
    BY <1>2, <2>1, <2>2
  <2>. QED
    BY <1>1, <2>3 DEF AnswersAfter, Answers
<1>. QED
  BY <1>3, <1>4 DEF t

LEMMA AnswersTail ==
    ASSUME NEW M, NEW s \in Seq(M), s # <<>>, NEW j, Answers(s, j),
           ~(Head(s).type = "result" /\ Head(s).job = j)
    PROVE  Answers(Tail(s), j)
<1>1. PICK k \in 1 .. Len(s) : s[k].type = "result" /\ s[k].job = j
  BY DEF Answers
<1>2. k # 1
  BY <1>1
<1>3. k - 1 \in 1 .. Len(Tail(s)) /\ Tail(s)[k - 1] = s[k]
  BY <1>2
<1>. QED
  BY <1>1, <1>3 DEF Answers

LEMMA AnswersConcat ==
    ASSUME NEW M, NEW N, NEW s \in Seq(M), NEW t \in Seq(N), NEW j,
           Answers(s, j) \/ Answers(t, j)
    PROVE  Answers(s \o t, j)
<1>1. CASE Answers(s, j)
  <2>1. PICK k \in 1 .. Len(s) : s[k].type = "result" /\ s[k].job = j
    BY <1>1 DEF Answers
  <2>2. k \in 1 .. Len(s \o t) /\ (s \o t)[k] = s[k]
    OBVIOUS
  <2>. QED
    BY <2>1, <2>2 DEF Answers
<1>2. CASE Answers(t, j)
  <2>1. PICK k \in 1 .. Len(t) : t[k].type = "result" /\ t[k].job = j
    BY <1>2 DEF Answers
  <2>2. Len(s) + k \in 1 .. Len(s \o t) /\ (s \o t)[Len(s) + k] = t[k]
    OBVIOUS
  <2>. QED
    BY <2>1, <2>2 DEF Answers
<1>. QED
  BY <1>1, <1>2

(* Of the messages of one step only "started" asks for an answer, and only *)
(* a result gives one.                                                     *)
LEMMA AgentAnswers ==
    ASSUME NEW J
    PROVE  /\ Covered(<<>>, J)
           /\ \A m : m.type # "started" => Covered(<<m>>, J)
           /\ \A j : /\ j \in J => Covered(StartedMessage(j), J)
                     /\ \A report : /\ Covered(ResultMessage(j, report), J)
                                    /\ Answers(ResultMessage(j, report), j)
  BY DEF Covered, Answers, AnswersAfter, StartedMessage, ResultMessage
-----------------------------------------------------------------------------
(* A connection no agent ever took carries nothing, and nobody registered  *)
(* on it.                                                                  *)
Fresh == \A c \in Conn : Unused(c) => up[c] = <<>> /\ who[c] = Nil

LEMMA OnlyHandleRegisters ==
    ASSUME [Next]_vars, \A c \in Conn : ~Handle(c)
    PROVE  UNCHANGED who
<1>1. CASE UNCHANGED server
  BY <1>1 DEF server
<1>2. CASE ServerRuns
  <2>1. ASSUME NEW t, S!DispatchResume(t) \/ S!DispatchReturn(t) PROVE UNCHANGED who
    BY <2>1, Zenon DEF S!DispatchResume, S!DispatchReturn, S!gateway
  <2>2. ASSUME NEW X, S!AckScan(X) \/ S!TimeoutScan(X) PROVE UNCHANGED who
    BY <2>2, Zenon DEF S!AckScan, S!TimeoutScan, S!gateway
  <2>3. ASSUME NEW c, S!Lose(c) \/ S!HandlerEnd(c) \/ S!CancelReturn(c) PROVE UNCHANGED who
    BY <2>3, Zenon DEF S!Lose, S!HandlerEnd, S!CancelReturn, S!gateway
  <2>4. S!AckNext \/ S!TimeoutNext \/ S!TimeoutReturn => UNCHANGED who
    BY Zenon DEF S!AckNext, S!TimeoutNext, S!TimeoutReturn, S!gateway
  <2>. QED
    BY <1>2, <2>1, <2>2, <2>3, <2>4, Zenon DEF ServerRuns, Server, NoticeLoss
<1>3. CASE AgentsRun
  BY <1>1, <1>3, Zenon DEF AgentsRun, Main, Connect, Accept, StartFails, AgentSends,
                           Wait, NoticeBreak
<1>4. ASSUME NEW c \in Container, Exit(c) PROVE UNCHANGED who
  BY <1>1, <1>4 DEF Exit
<1>5. CASE Environment
  <2>1. ASSUME NEW X, S!HeartbeatScan(X) \/ S!CancelRequest(X) PROVE UNCHANGED who
    BY <2>1, Zenon DEF S!HeartbeatScan, S!CancelRequest, S!gateway
  <2>2. ASSUME NEW j, NEW a, NEW p, NEW k, S!Submit(j, a, p, k) PROVE UNCHANGED who
    BY <2>2, Zenon DEF S!Submit, S!gateway
  <2>3. CASE S!Restart
    BY <2>3, Zenon DEF S!Restart, S!Reboot
  <2>. QED
    BY <1>1, <1>5, <2>1, <2>2, <2>3, Zenon
       DEF Environment, Server, HeartbeatLate, Restart, Crash, Cut
<1>. QED
  BY <1>1, <1>2, <1>3, <1>4, <1>5 DEF Next, vars

LEMMA HandleRegisters ==
    ASSUME Admissible, NEW c \in Conn, Handle(c)
    PROVE  \/ UNCHANGED who
           \/ /\ Head(up[c]).type = "register"
              /\ who' = [who EXCEPT ![c] = Head(up[c]).agent]
<1>. DEFINE m == Head(up[c])
<1>1. m.type \in {"register", "started", "result"}
  BY MessagesTail DEF Admissible, Handle, Admitted
<1>2. CASE m.type = "register"
  <2>1. S!Register(c, m.agent)
    BY <1>2 DEF Handle
  <2>. QED
    BY <1>2, <2>1, Zenon DEF S!Register
<1>3. CASE m.type = "started"
  <2>1. S!Started(c, m.job)
    BY <1>3 DEF Handle
  <2>. QED
    BY <2>1, Zenon DEF S!Started, S!gateway
<1>4. CASE m.type = "result"
  <2>1. S!Result(c, m.job, m.report)
    BY <1>4 DEF Handle
  <2>. QED
    BY <2>1, Zenon DEF S!Result
<1>. QED
  BY <1>1, <1>2, <1>3, <1>4

(* An agent that connects has no connection any more. *)
LEMMA ConnectsAnew ==
    ASSUME Wires, G!AgentInv, NEW a \in Agent, A!Connect(a)
    PROVE  wire[a] = Nil
<1>1. G!Placed(a) /\ main[a].pc = "off"
  BY DEF G!AgentInv, A!Connect
<1>. QED
  BY <1>1 DEF G!Placed, Wires

LEMMA FreshStays ==
    ASSUME Fresh, UNCHANGED <<up, who>>, \A c \in Conn : Unused(c)' => Unused(c)
    PROVE  Fresh'
  BY DEF Fresh

LEMMA FreshSends ==
    ASSUME Fresh, NEW a \in Agent, NEW ACTION step, NEW STATE messages,
           AgentSends(step, a, messages)
    PROVE  Fresh'
<1>1. ASSUME NEW c \in Conn, Unused(c)' PROVE Unused(c) /\ c # wire[a]
  BY <1>1 DEF Unused, AgentSends
<1>2. ASSUME NEW c \in Conn, c # wire[a] PROVE up'[c] = up[c]
  BY <1>2 DEF AgentSends
<1>3. UNCHANGED who
  BY DEF AgentSends, server
<1>. QED
  BY <1>1, <1>2, <1>3 DEF Fresh

LEMMA FreshStep ==
    ASSUME Fresh, Admissible, P!TypeOK, G!AgentInv, Wires, Wired, [Next]_vars
    PROVE  Fresh'
<1>1. ASSUME NEW c \in Conn, Handle(c) PROVE Fresh'
  <2>1. up[c] # <<>> /\ up' = [up EXCEPT ![c] = Tail(@)] /\ UNCHANGED <<wire, cut>>
    BY <1>1, Zenon DEF Handle
  <2>2. \A d \in Conn : Unused(d)' => Unused(d)
    BY <2>1 DEF Unused
  <2>3. ASSUME NEW d \in Conn \ {c} PROVE up'[d] = up[d] /\ who'[d] = who[d]
    BY <1>1, <2>1, HandleRegisters DEF Admissible, P!TypeOK
  <2>. QED
    BY <2>1, <2>2, <2>3 DEF Fresh
<1>2. CASE \A c \in Conn : ~Handle(c)
  <2>. UNCHANGED who
    BY <1>2, OnlyHandleRegisters
  <2>0. ASSUME UNCHANGED <<wire, cut>> PROVE \A c \in Conn : Unused(c)' => Unused(c)
    BY <2>0 DEF Unused
  <2>1. CASE UNCHANGED vars
    BY <2>0, <2>1, FreshStays DEF vars, between
  <2>2. CASE ServerRuns
    <3>1. UNCHANGED between
      BY <1>2, <2>2, Zenon DEF ServerRuns, Server, NoticeLoss
    <3>. QED
      BY <2>0, <3>1, FreshStays DEF between
  <2>3. ASSUME NEW a \in Agent, Main(a) PROVE Fresh'
    <3>1. CASE Connect(a)
      <4>1. PICK c \in Conn :
                /\ wire' = [wire EXCEPT ![a] = c]
                /\ up' = [up EXCEPT ![c] = <<[type |-> "register", agent |-> a]>>]
                /\ UNCHANGED cut
        BY <3>1 DEF Connect
      <4>2. wire[a] = Nil /\ Nil \notin Conn
        BY <3>1, ConnectsAnew, SystemAssumption DEF Connect, S!ControlPlaneAssumption
      <4>3. ASSUME NEW d \in Conn, Unused(d)' PROVE Unused(d) /\ d # c
        BY <4>1, <4>2, <4>3 DEF Unused, Wired
      <4>4. ASSUME NEW d \in Conn, d # c PROVE up'[d] = up[d]
        BY <4>1, <4>4 DEF Admissible
      <4>. QED
        BY <4>3, <4>4 DEF Fresh
    <3>. QED
      BY <2>3, <3>1, FreshSends DEF Main, Accept, StartFails
  <2>4. ASSUME NEW a \in Agent, NEW c \in Container, Wait(a, c) PROVE Fresh'
    BY <2>4, FreshSends DEF Wait
  <2>5. ASSUME NEW a \in Agent, NoticeBreak(a) PROVE Fresh'
    BY <2>0, <2>5, FreshStays DEF NoticeBreak, between
  <2>6. ASSUME NEW c \in Container, Exit(c) PROVE Fresh'
    BY <2>0, <2>6, FreshStays DEF Exit, between
  <2>7. CASE Environment
    <3>1. ASSUME NEW a \in Agent, Crash(a) PROVE Fresh'
      <4>1. /\ wire' = [wire EXCEPT ![a] = Nil] /\ UNCHANGED up
            /\ cut' = cut \cup ({wire[a]} \ {Nil})
        BY <3>1, Zenon DEF Crash
      <4>2. Nil \notin Conn
        BY SystemAssumption DEF S!ControlPlaneAssumption
      <4>. QED
        BY <4>1, <4>2, FreshStays DEF Unused, Wired
    <3>2. CASE Restart
      <4>1. /\ up' = [c \in Conn |-> <<>>] /\ UNCHANGED wire /\ cut \subseteq cut'
        BY <3>2 DEF Restart
      <4>2. \A c \in Conn : Unused(c)' => Unused(c)
        BY <4>1 DEF Unused
      <4>. QED
        BY <4>1, <4>2 DEF Fresh
    <3>3. ASSUME NEW c \in Conn, Cut(c) PROVE Fresh'
      <4>1. UNCHANGED <<up, wire>> /\ cut \subseteq cut'
        BY <3>3 DEF Cut
      <4>. QED
        BY <4>1, FreshStays DEF Unused
    <3>4. CASE UNCHANGED <<wire, cut, up>>
      BY <2>0, <3>4, FreshStays
    <3>. QED
      BY <2>7, <3>1, <3>2, <3>3, <3>4, Zenon DEF Environment, Server, HeartbeatLate, between
  <2>. QED
    BY <2>1, <2>2, <2>3, <2>4, <2>5, <2>6, <2>7 DEF Next, AgentsRun
<1>. QED
  BY <1>1, <1>2
-----------------------------------------------------------------------------
(* Neither end of a connection went down, and none was cut. *)
Unbroken == trouble \cap {"restart", "crash", "cut"} = {}

(* The jobs whose handlers wait for a container, and those of one's agent. *)
InHand == {docker[r.container].job : r \in {q \in runs : q.handler}}

AtWork(c) ==
    {docker[r.container].job : r \in {q \in runs : q.handler /\ wire[q.agent] = c}}

(* Every task belongs to the session its agent is in. *)
Attached == \A r \in runs : r.session = session[r.agent] /\ wire[r.agent] # Nil

(* A handler sends its result after its "started" and on the same          *)
(* connection, and only then forgets the job.                              *)
Held ==
    /\ cut = {} /\ Attached
    /\ \A c \in Conn : Covered(up[c], AtWork(c))
    /\ \A j \in Job : jobs[j].state = "RUNNING" =>
           j \in InHand \/ \E c \in Conn : Answers(up[c], j)

HeldInv == Unbroken => Held

LEMMA UnbrokenBefore ==
    ASSUME trouble \subseteq trouble', Unbroken'
    PROVE  Unbroken
  BY DEF Unbroken

LEMMA LabelsLast ==
    ASSUME G!AgentInv, G!Moves \/ UNCHANGED agents
    PROVE  \A r \in runs : docker'[r.container].job = docker[r.container].job
<1>1. CASE UNCHANGED agents
  BY <1>1 DEF agents
<1>2. CASE G!Moves
  <2>1. ASSUME NEW r \in runs PROVE docker'[r.container].job = docker[r.container].job
    <3>1. r.container \in Container /\ docker[r.container].state # "none"
      BY DEF G!AgentInv, G!Typed, G!Run, G!RunsFit, G!Begun
    <3>2. G!Grows(r.container)
      BY <1>2, <3>1, AgentAssumption, G!DockerStep
    <3>. QED
      BY <3>1, <3>2, AgentAssumption, G!Persists
  <2>. QED
    BY <2>1
<1>. QED
  BY <1>1, <1>2

(* A job stays in hand as long as its handler is there. *)
Likewise(r, q) == q.agent = r.agent /\ q.container = r.container /\ q.handler = r.handler

LEMMA WorkLasts ==
    ASSUME NEW r \in runs, NEW q \in runs', r.handler, Likewise(r, q), UNCHANGED wire,
           docker'[r.container].job = docker[r.container].job
    PROVE  /\ docker[r.container].job \in InHand'
           /\ \A c : wire[r.agent] = c => docker[r.container].job \in AtWork(c)'
  BY DEF InHand, AtWork, Likewise

LEMMA AllWorkLasts ==
    ASSUME UNCHANGED wire,
           \A r \in runs : docker'[r.container].job = docker[r.container].job,
           \A r \in runs : r.handler => \E q \in runs' : Likewise(r, q)
    PROVE  /\ InHand \subseteq InHand'
           /\ \A c : AtWork(c) \subseteq AtWork(c)'
<1>1. ASSUME NEW j \in InHand PROVE j \in InHand'
  <2>1. PICK r \in runs : r.handler /\ j = docker[r.container].job
    BY DEF InHand
  <2>2. PICK q \in runs' : Likewise(r, q)
    BY <2>1
  <2>. QED
    BY <2>1, <2>2, WorkLasts
<1>2. ASSUME NEW c, NEW j \in AtWork(c) PROVE j \in AtWork(c)'
  <2>1. PICK r \in runs : r.handler /\ wire[r.agent] = c /\ j = docker[r.container].job
    BY DEF AtWork
  <2>2. PICK q \in runs' : Likewise(r, q)
    BY <2>1
  <2>. QED
    BY <2>1, <2>2, WorkLasts
<1>. QED
  BY <1>1, <1>2

(* A step of an agent that does not end its session. *)
LEMMA SendsUnbroken ==
    ASSUME HeldInv, NEW a, NEW ACTION step, NEW STATE messages,
           AgentSends(step, a, messages), Unbroken'
    PROVE  /\ Held /\ UNCHANGED <<wire, cut, jobs>>
           /\ wire[a] = Nil \/ socket'[a] # "down"
           /\ up' = [c \in Conn |-> IF c = wire[a] THEN up[c] \o messages ELSE up[c]]
<1>1. trouble \subseteq trouble'
  BY DEF AgentSends
<1>2. Held /\ cut = {}
  BY <1>1, UnbrokenBefore DEF HeldInv, Held
<1>3. ~(socket'[a] = "down" /\ wire[a] # Nil)
  <2>. SUFFICES ASSUME socket'[a] = "down" /\ wire[a] # Nil PROVE FALSE
    OBVIOUS
  <2>1. wire[a] \in cut' \ cut
    BY <1>2 DEF AgentSends
  <2>2. "cut" \in trouble'
    BY <2>1 DEF AgentSends
  <2>. QED
    BY <2>2 DEF Unbroken
<1>4. UNCHANGED <<wire, cut, jobs>>
  BY <1>3 DEF AgentSends, server
<1>5. up' = [c \in Conn |-> IF c = wire[a] THEN up[c] \o messages ELSE up[c]]
  BY <1>2 DEF AgentSends
<1>. QED
  BY <1>2, <1>3, <1>4, <1>5

LEMMA HeldSends ==
    ASSUME HeldInv, Admissible, Wired, NEW a \in Agent, NEW ACTION step,
           NEW STATE messages, Messages(messages), AgentSends(step, a, messages),
           Unbroken', Attached', Covered(messages, AtWork(wire[a])'),
           \A r \in runs : docker'[r.container].job = docker[r.container].job,
           \A r \in runs : r.handler =>
              \/ \E q \in runs' : Likewise(r, q)
              \/ r.agent = a /\ Answers(messages, docker[r.container].job)
    PROVE  Held'
<1>1. /\ Held /\ UNCHANGED <<wire, cut, jobs>>
      /\ up' = [c \in Conn |-> IF c = wire[a] THEN up[c] \o messages ELSE up[c]]
  BY SendsUnbroken
<1>2. ASSUME NEW c \in Conn PROVE Covered(up'[c], AtWork(c)')
  <2>1. ASSUME NEW j \in AtWork(c)
        PROVE  j \in AtWork(c)' \/ (c = wire[a] /\ Answers(messages, j))
    <3>1. PICK r \in runs : r.handler /\ wire[r.agent] = c /\ j = docker[r.container].job
      BY <2>1 DEF AtWork
    <3>. QED
      BY <1>1, <3>1, WorkLasts
  <2>2. PICK M : up[c] \in Seq(M)
    BY DEF Admissible, Messages
  <2>3. PICK N : messages \in Seq(N)
    BY DEF Messages
  <2>4. Covered(up[c], AtWork(c))
    BY <1>1 DEF Held
  <2>5. CASE c = wire[a]
    <3>1. up'[c] = up[c] \o messages /\ Covered(messages, AtWork(c)')
      BY <1>1, <2>5
    <3>. QED
      BY <2>1, <2>2, <2>3, <2>4, <3>1, CoveredConcat
  <2>6. CASE c # wire[a]
    BY <1>1, <2>1, <2>4, <2>6 DEF Covered
  <2>. QED
    BY <2>5, <2>6
<1>3. ASSUME NEW j \in Job, jobs'[j].state = "RUNNING"
      PROVE  j \in InHand' \/ \E c \in Conn : Answers(up'[c], j)
  <2>1. ASSUME NEW c \in Conn, Answers(up[c], j) \/ (c = wire[a] /\ Answers(messages, j))
        PROVE  Answers(up'[c], j)
    <3>1. PICK M : up[c] \in Seq(M)
      BY DEF Admissible, Messages
    <3>2. PICK N : messages \in Seq(N)
      BY DEF Messages
    <3>. QED
      BY <1>1, <2>1, <3>1, <3>2, AnswersConcat
  <2>2. CASE j \in InHand
    <3>1. PICK r \in runs : r.handler /\ j = docker[r.container].job
      BY <2>2 DEF InHand
    <3>2. CASE \E q \in runs' : Likewise(r, q)
      BY <1>1, <3>1, <3>2, WorkLasts
    <3>3. CASE r.agent = a /\ Answers(messages, j)
      <4>1. wire[a] \in Conn
        BY <1>1, <3>1, <3>3 DEF Held, Attached, Wired
      <4>. QED
        BY <2>1, <3>3, <4>1
    <3>. QED
      BY <3>1, <3>2, <3>3
  <2>3. j \in InHand \/ \E c \in Conn : Answers(up[c], j)
    BY <1>1, <1>3 DEF Held
  <2>. QED
    BY <2>1, <2>2, <2>3
<1>4. cut' = {}
  BY <1>1 DEF Held
<1>. QED
  BY <1>2, <1>3, <1>4 DEF Held

(* What a step of run() itself does to the tasks; Launch below.            *)
NewTask(a, c, handler) ==
    [agent |-> a, session |-> session[a], container |-> c, handler |-> handler,
     stage |-> "wait"]

LEMMA MainTasks ==
    ASSUME NEW a,
           \/ ReconcileStep(a) \/ ListenStep(a) \/ A!OnJob(a) \/ A!StartFails(a)
           \/ A!ReportExited(a)
    PROVE  /\ UNCHANGED session
           /\ \/ UNCHANGED runs
              \/ /\ socket[a] = "up"
                 /\ \E c : runs' = runs \cup {NewTask(a, c, FALSE)}
<1>1. CASE A!ReconcileNext(a)
  BY <1>1, Zenon DEF A!ReconcileNext, A!Reattach, NewTask
<1>2. CASE ~A!ReconcileNext(a)
  BY <1>2, Zenon DEF ReconcileStep, ListenStep, CreateContainer, A!List,
               A!ListFails, A!Inspect, A!ReportExited, A!Discard,
               A!ReconcileDone, A!OnJob, A!OnCancel, A!EndListen, A!CreateContainer,
               A!StartFails
<1>. QED
  BY <1>1, <1>2

LEMMA MainOn ==
    ASSUME G!AgentInv, Wires, NEW a \in Agent,
           \/ ReconcileStep(a) \/ ListenStep(a) \/ A!OnJob(a) \/ A!StartFails(a)
           \/ A!ReportExited(a) \/ A!Launch(a)
    PROVE  wire[a] # Nil
<1>1. main[a].pc # "off"
  BY DEF ReconcileStep, ListenStep, CreateContainer, A!List,
               A!ListFails, A!ReconcileNext, A!Inspect, A!ReportExited, A!Discard,
               A!ReconcileDone, A!OnJob, A!OnCancel, A!EndListen, A!CreateContainer,
               A!StartFails, A!Launch
<1>. QED
  BY <1>1 DEF G!AgentInv, G!Placed, Wires

LEMMA AttachedGrows ==
    ASSUME Attached, Wires, UNCHANGED <<session, wire>>, NEW a \in Agent, socket[a] = "up",
           NEW c, NEW handler, runs' = runs \cup {NewTask(a, c, handler)}
    PROVE  Attached'
<1>1. wire[a] # Nil
  BY DEF Wires
<1>. QED
  BY <1>1 DEF Attached, NewTask

LEMMA AttachedStays ==
    ASSUME Attached, UNCHANGED <<session, wire>>,
           \A q \in runs' : \E r \in runs : q.agent = r.agent /\ q.session = r.session
    PROVE  Attached'
  BY DEF Attached

LEMMA MainHeld ==
    ASSUME HeldInv, G!AgentInv, Knowing, Admissible, Wires, Wired, Fresh, NEW a \in Agent,
           Main(a), G!Moves \/ UNCHANGED agents, Unbroken'
    PROVE  Held'
<1>. DEFINE Keeps == \A r \in runs : docker'[r.container].job = docker[r.container].job
<1>0. Keeps
  BY LabelsLast
<1>1. CASE Connect(a)
  <2>1. PICK c \in Conn :
            /\ Unused(c) /\ wire' = [wire EXCEPT ![a] = c]
            /\ up' = [up EXCEPT ![c] = <<[type |-> "register", agent |-> a]>>]
            /\ UNCHANGED <<server, cut, trouble>>
    BY <1>1 DEF Connect
  <2>2. /\ A!Connect(a) /\ wire[a] = Nil
        /\ session' = [session EXCEPT ![a] = @ + 1] /\ UNCHANGED <<runs, docker>>
    BY <1>1, ConnectsAnew DEF Connect, A!Connect
  <2>3. Held /\ up[c] = <<>>
    BY <2>1 DEF HeldInv, Unbroken, Fresh
  <2>4. ASSUME NEW r \in runs
        PROVE  r.agent # a /\ r.session = session'[r.agent] /\ wire'[r.agent] = wire[r.agent]
               /\ wire[r.agent] # Nil
    <3>1. r.agent \in Agent /\ r.session = session[r.agent] /\ wire[r.agent] # Nil
      BY <2>3 DEF Held, Attached, G!AgentInv, G!Typed, G!Run
    <3>2. r.agent # a
      BY <2>2, <3>1
    <3>. QED
      BY <2>1, <2>2, <3>1, <3>2 DEF G!AgentInv, G!Typed, Wired
  <2>5. Attached'
    BY <2>2, <2>4 DEF Attached
  <2>6. ASSUME NEW d \in Conn PROVE Covered(up'[d], AtWork(d)')
    <3>1. CASE d = c
      <4>1. up'[d] = <<[type |-> "register", agent |-> a]>>
        BY <2>1, <3>1 DEF Admissible
      <4>. QED
        BY <4>1, AgentAnswers
    <3>2. CASE d # c
      <4>1. up'[d] = up[d] /\ Covered(up[d], AtWork(d))
        BY <2>1, <2>3, <3>2 DEF Admissible, Held
      <4>2. AtWork(d) \subseteq AtWork(d)'
        BY <2>2, <2>4 DEF AtWork
      <4>. QED
        BY <4>1, <4>2 DEF Covered
    <3>. QED
      BY <3>1, <3>2
  <2>7. ASSUME NEW j \in Job, jobs'[j].state = "RUNNING"
        PROVE  j \in InHand' \/ \E d \in Conn : Answers(up'[d], j)
    <3>1. j \in InHand \/ \E d \in Conn : Answers(up[d], j)
      BY <2>1, <2>3, <2>7 DEF Held, server
    <3>2. InHand' = InHand
      BY <2>2 DEF InHand
    <3>3. ASSUME NEW d \in Conn, Answers(up[d], j) PROVE Answers(up'[d], j)
      <4>1. d # c
        BY <2>3, <3>3 DEF Answers
      <4>2. up'[d] = up[d]
        BY <2>1, <4>1 DEF Admissible
      <4>. QED
        BY <3>3, <4>2
    <3>. QED
      BY <3>1, <3>2, <3>3
  <2>. QED
    BY <2>1, <2>3, <2>5, <2>6, <2>7 DEF Held
<1>2. ASSUME NEW ACTION step, NEW STATE messages, AgentSends(step, a, messages),
             \/ ReconcileStep(a) \/ ListenStep(a) \/ A!OnJob(a) \/ A!StartFails(a)
             \/ A!ReportExited(a),
             Messages(messages), \A J : Covered(messages, J)
      PROVE  Held'
  <2>1. Held /\ UNCHANGED wire
    BY <1>2, SendsUnbroken
  <2>2. runs \subseteq runs' /\ Attached'
    <3>1. UNCHANGED session
      BY <1>2, MainTasks
    <3>2. CASE UNCHANGED runs
      BY <2>1, <3>1, <3>2 DEF Held, Attached
    <3>3. ASSUME socket[a] = "up", NEW c, runs' = runs \cup {NewTask(a, c, FALSE)}
          PROVE  Attached'
      BY <2>1, <3>1, <3>3, AttachedGrows DEF Held
    <3>. QED
      BY <1>2, <3>2, <3>3, MainTasks
  <2>3. \A r \in runs : r.handler => \E q \in runs' : Likewise(r, q)
    BY <2>2 DEF Likewise
  <2>. QED
    BY <1>0, <1>2, <2>2, <2>3, HeldSends
<1>3. CASE Accept(a) \/ AgentSends(ReconcileStep(a) \/ ListenStep(a), a, <<>>)
  <2>1. ReconcileStep(a) \/ ListenStep(a) \/ A!OnJob(a)
    BY <1>3, Zenon DEF Accept, AgentSends
  <2>. QED
    BY <1>2, <1>3, <2>1, NoMessage, AgentAnswers DEF Accept
<1>4. CASE StartFails(a)
  <2>1. A!StartFails(a)
    BY <1>4, Zenon DEF StartFails, AgentSends
  <2>2. Messages(ResultMessage(main[a].job, "error"))
    BY AgentMessages, SystemAssumption
  <2>. QED
    BY <1>2, <1>4, <2>1, <2>2, AgentAnswers DEF StartFails
<1>5. ASSUME NEW report \in ExitReport,
             AgentSends(A!ReportExited(a), a,
                        ResultMessage(docker[main[a].container].job, report))
      PROVE  Held'
  <2>1. A!ReportExited(a)
    BY <1>5, Zenon DEF AgentSends
  <2>2. Messages(ResultMessage(docker[main[a].container].job, report))
    BY AgentMessages, SystemAssumption
  <2>. QED
    BY <1>2, <1>5, <2>1, <2>2, AgentAnswers
<1>6. CASE AgentSends(A!Launch(a), a, StartedMessage(main[a].job))
  <2>0. A!Launch(a)
    BY <1>6, Zenon DEF AgentSends
  <2>1. Held /\ UNCHANGED wire /\ wire[a] # Nil /\ socket'[a] # "down"
    BY <1>6, <2>0, SendsUnbroken, MainOn
  <2>2. socket[a] = "up"
    BY <2>0, <2>1 DEF A!Launch, A!SendThen, A!EndSession, G!AgentInv, G!Typed
  <2>3. /\ runs' = runs \cup {NewTask(a, main[a].container, TRUE)} /\ UNCHANGED session
        /\ docker' = [docker EXCEPT ![main[a].container].state = "running"]
        /\ main[a].pc = "launch"
    BY <2>0, <2>2, Zenon DEF A!Launch, A!SetState, NewTask
  <2>4. docker'[main[a].container].job = main[a].job
    <3>1. G!Placed(a) /\ docker \in [Container -> G!Label]
      BY DEF G!AgentInv, G!Typed
    <3>2. PICK c \in Container :
              /\ main[a].container = c
              /\ docker[c] = [state |-> "created", job |-> main[a].job, by |-> a]
      BY <2>3, <3>1 DEF G!Placed
    <3>. QED
      BY <2>3, <3>1, <3>2 DEF G!Label
  <2>5. Attached'
    BY <2>1, <2>2, <2>3, AttachedGrows DEF Held
  <2>6. main[a].job \in AtWork(wire[a])'
    <3>1. NewTask(a, main[a].container, TRUE) \in runs'
      BY <2>3
    <3>. QED
      BY <2>1, <2>4, <3>1 DEF AtWork, NewTask
  <2>7. \A r \in runs : r.handler => \E q \in runs' : Likewise(r, q)
    BY <2>3 DEF Likewise
  <2>8. Messages(StartedMessage(main[a].job))
    BY AgentMessages
  <2>9. Covered(StartedMessage(main[a].job), AtWork(wire[a])')
    BY <2>6, AgentAnswers
  <2>. QED
    BY <1>0, <1>6, <2>5, <2>7, <2>8, <2>9, HeldSends
<1>. QED
  BY <1>1, <1>3, <1>4, <1>5, <1>6 DEF Main

LEMMA WaitHeld ==
    ASSUME HeldInv, G!AgentInv, Admissible, Wires, Wired, NEW a \in Agent,
           NEW c \in Container, Wait(a, c), G!Moves \/ UNCHANGED agents, Unbroken'
    PROVE  Held'
<1>0. \A r \in runs : docker'[r.container].job = docker[r.container].job
  BY LabelsLast
<1>1. PICK r \in runs :
          /\ r.agent = a /\ r.container = c
          /\ \/ AgentSends(A!Collect(r) \/ A!Remove(r) \/ A!WaitFails(r), a, <<>>)
             \/ \E report \in ExitReport :
                   AgentSends(A!SendResult(r), a,
                              IF r.session = session[a]
                              THEN ResultMessage(docker[c].job, report) ELSE <<>>)
  BY DEF Wait
<1>2. r \in A!Run
  BY DEF G!AgentInv, G!Typed, G!Run, A!Run
<1>3. ASSUME Held PROVE r.session = session[a] /\ wire[a] # Nil /\ socket[a] = "up"
  BY <1>1, <1>3 DEF Held, Attached, Wires, G!AgentInv, G!Typed
<1>4. ASSUME AgentSends(A!Collect(r) \/ A!Remove(r) \/ A!WaitFails(r), a, <<>>)
      PROVE  Held'
  <2>1. Held /\ UNCHANGED wire /\ (wire[a] = Nil \/ socket'[a] # "down")
    BY <1>4, SendsUnbroken
  <2>2. A!Collect(r) \/ A!Remove(r) \/ A!WaitFails(r)
    BY <1>4, Zenon DEF AgentSends
  <2>3. CASE A!Collect(r) \/ A!Remove(r)
    <3>1. PICK stage :
             runs' = (runs \ {r}) \cup {[r EXCEPT !.stage = stage]} /\ UNCHANGED session
      BY <2>3, Zenon DEF A!Collect, A!Remove
    <3>2. /\ [r EXCEPT !.stage = stage] \in runs'
          /\ Likewise(r, [r EXCEPT !.stage = stage])
          /\ [r EXCEPT !.stage = stage].session = r.session
      BY <1>2, <3>1 DEF Likewise, A!Run
    <3>3. \A p \in runs : \E q \in runs' : Likewise(p, q)
      BY <3>1, <3>2 DEF Likewise
    <3>4. Attached'
      BY <2>1, <3>1, <3>2, AttachedStays DEF Held, Likewise
    <3>. QED
      BY <1>0, <1>4, <3>3, <3>4, HeldSends, NoMessage, AgentAnswers
  <2>4. CASE A!WaitFails(r)
    <3>1. runs' = runs \ {r} /\ UNCHANGED session
      BY <2>4, Zenon DEF A!WaitFails
    <3>2. ~r.handler
      <4>1. r.handler => socket' = [socket EXCEPT ![r.agent] = "down"]
        BY <2>4, Zenon DEF A!WaitFails, A!EndSession
      <4>. QED
        BY <1>1, <1>3, <2>1, <4>1 DEF G!AgentInv, G!Typed
    <3>3. \A p \in runs : p.handler => \E q \in runs' : Likewise(p, q)
      BY <3>1, <3>2 DEF Likewise
    <3>4. Attached'
      BY <2>1, <3>1, AttachedStays DEF Held
    <3>. QED
      BY <1>0, <1>4, <3>3, <3>4, HeldSends, NoMessage, AgentAnswers
  <2>. QED
    BY <2>2, <2>3, <2>4
<1>5. ASSUME NEW report \in ExitReport,
             AgentSends(A!SendResult(r), a,
                        IF r.session = session[a]
                        THEN ResultMessage(docker[c].job, report) ELSE <<>>)
      PROVE  Held'
  <2>1. Held /\ UNCHANGED wire
    BY <1>5, SendsUnbroken
  <2>2. AgentSends(A!SendResult(r), a, ResultMessage(docker[c].job, report))
    <3>1. r.session = session[a]
      BY <1>3, <2>1
    <3>. QED
      BY <1>5, <3>1
  <2>3. runs' = runs \ {r} /\ UNCHANGED session
    BY <1>5 DEF AgentSends, A!SendResult
  <2>4. Attached'
    BY <2>1, <2>3, AttachedStays DEF Held
  <2>5. Messages(ResultMessage(docker[c].job, report))
    BY AgentMessages, SystemAssumption
  <2>6. ASSUME NEW p \in runs, p.handler
        PROVE  \/ \E q \in runs' : Likewise(p, q)
               \/ p.agent = a /\ Answers(ResultMessage(docker[c].job, report),
                                         docker[p.container].job)
    <3>1. CASE p = r
      BY <1>1, <3>1, AgentAnswers
    <3>2. CASE p # r
      BY <2>3, <3>2 DEF Likewise
    <3>. QED
      BY <3>1, <3>2
  <2>7. Covered(ResultMessage(docker[c].job, report), AtWork(wire[a])')
    BY AgentAnswers
  <2>. QED
    BY <1>0, <2>2, <2>4, <2>5, <2>6, <2>7, HeldSends
<1>. QED
  BY <1>1, <1>4, <1>5

(* What the server reads. *)
LEMMA HandleHeld ==
    ASSUME Held, Admissible, P!TypeOK, NEW c \in Conn, Handle(c),
           UNCHANGED <<docker, session, runs>>
    PROVE  Held'
<1>. DEFINE m == Head(up[c])
<1>1. /\ up[c] # <<>> /\ up' = [up EXCEPT ![c] = Tail(@)] /\ UNCHANGED <<wire, cut>>
      /\ \A d \in Conn : up'[d] = IF d = c THEN Tail(up[c]) ELSE up[d]
  BY DEF Handle, Admissible
<1>2. PICK M : up[c] \in Seq(M)
  BY DEF Admissible, Messages
<1>3. m.type \in {"register", "started", "result"} /\ (m.type = "result" => m.report \in Report)
  BY <1>1, MessagesTail DEF Admissible, Admitted
<1>4. Attached' /\ InHand' = InHand /\ \A d : AtWork(d)' = AtWork(d)
  BY <1>1 DEF Held, Attached, InHand, AtWork
<1>5. ASSUME NEW d \in Conn PROVE Covered(up'[d], AtWork(d)')
  <2>1. Covered(up[d], AtWork(d))
    BY DEF Held
  <2>2. CASE d = c
    BY <1>1, <1>2, <1>4, <2>1, <2>2, CoveredTail
  <2>3. CASE d # c
    BY <1>1, <1>4, <2>1, <2>3
  <2>. QED
    BY <2>2, <2>3
<1>6. ASSUME NEW j \in Job, ~(m.type = "result" /\ m.job = j), jobs[j].state = "RUNNING"
      PROVE  j \in InHand' \/ \E d \in Conn : Answers(up'[d], j)
  <2>1. ASSUME NEW d \in Conn, Answers(up[d], j) PROVE Answers(up'[d], j)
    BY <1>1, <1>2, <1>6, <2>1, AnswersTail
  <2>. QED
    BY <1>4, <1>6, <2>1 DEF Held
<1>7. CASE m.type = "register"
  <2>1. S!Register(c, m.agent)
    BY <1>7 DEF Handle
  <2>2. UNCHANGED jobs
    BY <2>1, Zenon DEF S!Register
  <2>. QED
    BY <1>1, <1>4, <1>5, <1>6, <1>7, <2>2 DEF Held
<1>8. CASE m.type = "started"
  <2>1. S!Started(c, m.job)
    BY <1>8 DEF Handle
  <2>2. jobs' = [jobs EXCEPT ![m.job] = S!MarkRunning(@)]
    BY <2>1, Zenon DEF S!Started
  <2>3. m.job \in InHand' \/ Answers(up'[c], m.job)
    <3>1. m.job \in AtWork(c) \/ Answers(Tail(up[c]), m.job)
      BY <1>1, <1>2, <1>8, CoveredTail DEF Held
    <3>2. AtWork(c) \subseteq InHand
      BY DEF AtWork, InHand
    <3>. QED
      BY <1>1, <1>4, <3>1, <3>2
  <2>4. ASSUME NEW j \in Job, j # m.job PROVE jobs'[j] = jobs[j]
    BY <2>2, <2>4 DEF P!TypeOK
  <2>. QED
    BY <1>1, <1>4, <1>5, <1>6, <1>8, <2>3, <2>4 DEF Held
<1>9. CASE m.type = "result"
  <2>1. S!Result(c, m.job, m.report)
    BY <1>9 DEF Handle
  <2>2. m.job \in Job /\ jobs \in [Job -> P!JobRow]
    BY <2>1 DEF S!Result, S!EverSent, P!TypeOK
  <2>3. jobs' = [jobs EXCEPT ![m.job] = S!Complete(@, m.report)]
    BY <2>1, Zenon DEF S!Result
  <2>4. ASSUME NEW row \in P!JobRow, NEW report \in Report
        PROVE  S!Complete(row, report).state # "RUNNING"
    <3>1. /\ S!Complete(row, "error") = S!MarkFailed(row, 1, "reported")
          /\ S!Complete(row, "exit 0") = S!MarkSucceeded(row, 0)
          /\ S!Complete(row, "exit 1") = S!MarkFailed(row, 1, Nil)
      BY DEF S!Complete
    <3>2. report \in {"error", "exit 0", "exit 1"}
      BY SystemAssumption DEF S!ControlPlaneAssumption
    <3>3. ASSUME NEW new \in {"SUCCEEDED", "FAILED"}, NEW exit, NEW error
          PROVE  S!CompleteIfRunning(row, new, exit, error).state # "RUNNING"
      BY DEF S!CompleteIfRunning, P!JobRow
    <3>. QED
      BY <3>1, <3>2, <3>3 DEF S!MarkFailed, S!MarkSucceeded
  <2>5. ASSUME NEW j \in Job, jobs'[j].state = "RUNNING"
        PROVE  j # m.job /\ jobs[j].state = "RUNNING"
    BY <1>3, <1>9, <2>2, <2>3, <2>4, <2>5
  <2>. QED
    BY <1>1, <1>4, <1>5, <1>6, <2>5 DEF Held
<1>. QED
  BY <1>3, <1>7, <1>8, <1>9

(* A step that leaves tasks, containers and connections alone. *)
LEMMA HeldStays ==
    ASSUME Held, AllQuiet, UNCHANGED <<docker, session, runs, wire, cut, up>>
    PROVE  Held'
  BY DEF Held, Attached, InHand, AtWork, AllQuiet, Quiet

(* Messages that arrive do not touch the tasks. *)
LEMMA CarryStays ==
    ASSUME Carry
    PROVE  UNCHANGED <<docker, session, runs>>
  BY Zenon DEF Carry, A!Receive, agents

LEMMA ExitHeld ==
    ASSUME Held, G!AgentInv, G!Moves \/ UNCHANGED agents, NEW c, Exit(c)
    PROVE  Held'
<1>1. UNCHANGED <<session, runs, wire, cut, up, jobs>>
  BY DEF Exit, A!Exit, server, between
<1>2. \A r \in runs : docker'[r.container].job = docker[r.container].job
  BY LabelsLast
<1>3. InHand' = InHand /\ \A d : AtWork(d)' = AtWork(d)
  BY <1>1, <1>2 DEF InHand, AtWork
<1>. QED
  BY <1>1, <1>3 DEF Held, Attached

LEMMA TroubleLasts ==
    ASSUME [Next]_vars
    PROVE  trouble \subseteq trouble'
<1>1. CASE UNCHANGED trouble \/ \E kind : Happens(kind)
  BY <1>1 DEF Happens
<1>2. ASSUME NEW ACTION step, NEW a, NEW STATE messages, AgentSends(step, a, messages)
      PROVE  trouble \subseteq trouble'
  BY <1>2 DEF AgentSends
<1>3. CASE ServerRuns \/ Environment \/ UNCHANGED vars \/ \E c \in Container : Exit(c)
  BY <1>1, <1>3, Zenon DEF ServerRuns, Environment, Server, Handle, NoticeLoss, HeartbeatLate,
                           Restart, Crash, Cut, Exit, between, vars
<1>4. CASE AgentsRun
  <2>1. ASSUME NEW a, Main(a) PROVE trouble \subseteq trouble'
    BY <1>1, <1>2, <2>1 DEF Main, Connect, Accept, StartFails
  <2>2. ASSUME NEW a, NEW c, Wait(a, c) PROVE trouble \subseteq trouble'
    BY <1>2, <2>2 DEF Wait
  <2>3. ASSUME NEW a, NoticeBreak(a) PROVE trouble \subseteq trouble'
    BY <2>3 DEF NoticeBreak, between
  <2>. QED
    BY <1>4, <2>1, <2>2, <2>3 DEF AgentsRun
<1>. QED
  BY <1>3, <1>4 DEF Next

LEMMA HeldStep ==
    ASSUME HeldInv, Fresh, SystemInv, [Next]_vars
    PROVE  HeldInv'
<1>. SUFFICES ASSUME Unbroken' PROVE Held'
  BY DEF HeldInv
<1>1. /\ Admissible /\ P!TypeOK /\ G!AgentInv /\ Knowing /\ Wires /\ Wired
      /\ G!Moves \/ UNCHANGED agents
  BY SystemInvStep DEF SystemInv, P!DInv, P!IInv, G!SettledInv
<1>2. Held
  BY TroubleLasts, UnbrokenBefore DEF HeldInv
<1>3. ASSUME NEW c \in Conn, Handle(c) PROVE Held'
  <2>1. Carry
    BY <1>3 DEF Handle
  <2>2. UNCHANGED <<docker, session, runs>>
    BY <2>1, CarryStays
  <2>. QED
    BY <1>1, <1>2, <1>3, <2>2, HandleHeld
<1>4. CASE AgentsRun
  <2>1. ASSUME NEW a \in Agent, NoticeBreak(a) PROVE FALSE
    BY <1>2, <2>1 DEF NoticeBreak, Held
  <2>. QED
    BY <1>1, <1>4, <2>1, MainHeld, WaitHeld DEF AgentsRun
<1>5. ASSUME NEW c \in Container, Exit(c) PROVE Held'
  BY <1>1, <1>2, <1>5, ExitHeld
<1>6. CASE /\ \A c \in Conn : ~Handle(c)
           /\ ServerRuns \/ Environment \/ UNCHANGED vars
  <2>1. AllQuiet
    BY <1>1, <1>6, OthersQuietly
  <2>2. ~Restart /\ (\A a : ~Crash(a)) /\ (\A c : ~Cut(c))
    BY DEF Restart, Crash, Cut, Happens, Unbroken
  <2>3. (Carry \/ UNCHANGED agents) /\ UNCHANGED <<wire, cut, up>>
    BY <1>6, <2>2, Zenon DEF ServerRuns, Environment, Server, NoticeLoss, HeartbeatLate,
                             between, vars
  <2>4. UNCHANGED <<docker, session, runs>>
    BY <2>3, CarryStays DEF agents
  <2>. QED
    BY <1>2, <2>1, <2>3, <2>4, HeldStays
<1>. QED
  BY <1>3, <1>4, <1>5, <1>6 DEF Next

LEMMA HeldInvInit == Init => HeldInv /\ Fresh
<1>. SUFFICES ASSUME Init PROVE Held /\ Fresh
  BY DEF HeldInv
<1>1. /\ \A c \in Conn : up[c] = <<>> /\ who[c] = Nil
      /\ runs = {} /\ cut = {} /\ \A j \in Job : jobs[j].state = "ABSENT"
  BY DEF Init, S!Init, A!Init, S!NoRow
<1>. QED
  BY <1>1, AgentAnswers DEF Held, Attached, Fresh

LEMMA HeldMeans ==
    ASSUME HeldInv, G!AgentInv
    PROVE  RunningIsHeld
<1>. SUFFICES ASSUME NEW j \in Job, jobs[j].state = "RUNNING", Held
              PROVE  \/ \E r \in runs : r.handler /\ r.container \in Executions(j)
                     \/ \E c \in Conn : \E i \in 1 .. Len(up[c]) :
                           up[c][i].type = "result" /\ up[c][i].job = j
  BY DEF RunningIsHeld, HeldInv, Unbroken
<1>1. j \in InHand \/ \E c \in Conn : Answers(up[c], j)
  BY DEF Held
<1>2. j \in InHand => \E r \in runs : r.handler /\ r.container \in Executions(j)
  BY DEF InHand, Executions, G!AgentInv, G!Typed, G!Run
<1>. QED
  BY <1>1, <1>2 DEF Answers

(* No job is RUNNING for nothing, for any number of jobs, agents and       *)
(* connections: while neither the server nor an agent goes down and no     *)
(* connection breaks, the handler that started a job in state RUNNING      *)
(* still waits for its container, or the result is on the way.             *)
THEOREM RunningHeld == Spec => []RunningIsHeld
<1>1. Init => SystemInv /\ HeldInv /\ Fresh
  BY SystemInvInit, HeldInvInit
<1>2. SystemInv /\ HeldInv /\ Fresh /\ [Next]_vars => SystemInv' /\ HeldInv' /\ Fresh'
  BY SystemInvStep, HeldStep, FreshStep
     DEF SystemInv, P!DInv, P!IInv, G!SettledInv
<1>3. SystemInv /\ HeldInv => RunningIsHeld
  BY HeldMeans DEF SystemInv, G!SettledInv
<1>. QED
  BY <1>1, <1>2, <1>3, PTL DEF Spec

-----------------------------------------------------------------------------
(* No slot leaks. *)

(* Where the messages of a type are in s, and how many there are. *)
Places(s, type) == {i \in 1 .. Len(s) : s[i].type = type}

Count(s, type) == Cardinality(Places(s, type))

LEMMA CountNat ==
    ASSUME NEW M, NEW s \in Seq(M), NEW type
    PROVE  IsFiniteSet(Places(s, type)) /\ Count(s, type) \in Nat
<1>1. IsFiniteSet(1 .. Len(s))
  BY FS_Interval
<1>2. IsFiniteSet(Places(s, type))
  BY <1>1, FS_Subset DEF Places
<1>. QED
  BY <1>2, FS_CardinalityType DEF Count

LEMMA CountNone ==
    ASSUME NEW type
    PROVE  Count(<<>>, type) = 0
<1>1. Places(<<>>, type) = {}
  BY DEF Places
<1>. QED
  BY <1>1, FS_EmptySet, Zenon DEF Count

LEMMA CountSome ==
    ASSUME NEW s, NEW type, Count(s, type) # 0
    PROVE  \E i \in 1 .. Len(s) : s[i].type = type
<1>1. Places(s, type) # {}
  BY FS_EmptySet, Zenon DEF Count
<1>. QED
  BY <1>1 DEF Places

LEMMA CountAppend ==
    ASSUME NEW M, NEW s \in Seq(M), NEW m, NEW type
    PROVE  /\ m.type = type => Count(Append(s, m), type) = Count(s, type) + 1
           /\ m.type # type => Count(Append(s, m), type) = Count(s, type)
<1>. DEFINE u == Append(s, m)
<1>1. /\ Len(u) = Len(s) + 1 /\ Len(s) \in Nat /\ u[Len(s) + 1] = m
      /\ \A i \in 1 .. Len(s) : u[i] = s[i]
  OBVIOUS
<1>2. IsFiniteSet(Places(s, type)) /\ Count(s, type) \in Nat
  BY CountNat
<1>. HIDE DEF u
<1>3. m.type # type => Places(u, type) = Places(s, type)
  BY <1>1 DEF Places
<1>4. m.type = type => /\ Places(u, type) = Places(s, type) \cup {Len(s) + 1}
                       /\ Len(s) + 1 \notin Places(s, type)
  BY <1>1 DEF Places
<1>5. m.type = type => Count(u, type) = Count(s, type) + 1
  BY <1>2, <1>4, FS_AddElement DEF Count
<1>6. m.type # type => Count(u, type) = Count(s, type)
  BY <1>3 DEF Count
<1>. QED
  BY <1>5, <1>6 DEF u

(* The places of a set, counted from the second on. *)
LEMMA PlacesTail ==
    ASSUME NEW n \in Nat, NEW X \in SUBSET (1 .. n + 1), NEW Y \in SUBSET (1 .. n),
           \A k \in 1 .. n : k \in Y <=> k + 1 \in X
    PROVE  /\ IsFiniteSet(X) /\ IsFiniteSet(Y)
           /\ Cardinality(X) \in Nat /\ Cardinality(Y) \in Nat
           /\ 1 \in X => Cardinality(X) = Cardinality(Y) + 1
           /\ 1 \notin X => Cardinality(X) = Cardinality(Y)
<1>. DEFINE Z == X \ {1}
            f == [i \in Z |-> i - 1]
<1>1. IsFiniteSet(X) /\ IsFiniteSet(Z)
  <2>1. IsFiniteSet(1 .. n + 1)
    BY FS_Interval
  <2>2. IsFiniteSet(X)
    BY <2>1, FS_Subset
  <2>3. Z \subseteq X
    OBVIOUS
  <2>. QED
    BY <2>2, <2>3, FS_Subset
<1>2. Cardinality(X) \in Nat
  BY <1>1, FS_CardinalityType
<1>3. \A i \in Z : i \in Int /\ i - 1 \in Y
  <2>. SUFFICES ASSUME NEW i \in Z PROVE i \in Int /\ i - 1 \in Y
    OBVIOUS
  <2>1. i \in 1 .. n + 1 /\ i # 1 /\ i \in X
    OBVIOUS
  <2>2. i - 1 \in 1 .. n /\ (i - 1) + 1 = i
    BY <2>1
  <2>. QED
    BY <2>1, <2>2
<1>4. f \in [Z -> Y]
  BY <1>3
<1>5. \A i, k \in Z : f[i] = f[k] => i = k
  BY <1>3
<1>6. ASSUME NEW k \in Y PROVE \E i \in Z : f[i] = k
  <2>1. k + 1 \in Z
    OBVIOUS
  <2>. QED
    BY <2>1
<1>7. f \in Bijection(Z, Y)
  BY <1>4, <1>5, <1>6 DEF Bijection, Injection, Surjection, IsInjective
<1>8. IsFiniteSet(Y) /\ Cardinality(Y) = Cardinality(Z)
  BY <1>1, <1>7, FS_Bijection DEF ExistsBijection
<1>9. Cardinality(Z) = IF 1 \in X THEN Cardinality(X) - 1 ELSE Cardinality(X)
  BY <1>1, FS_RemoveElement, Zenon
<1>. QED
  BY <1>1, <1>2, <1>8, <1>9, FS_CardinalityType

LEMMA CountTail ==
    ASSUME NEW M, NEW s \in Seq(M), s # <<>>, NEW type
    PROVE  /\ Head(s).type = type => Count(s, type) = Count(Tail(s), type) + 1
           /\ Head(s).type # type => Count(s, type) = Count(Tail(s), type)
<1>. DEFINE t == Tail(s)
<1>1. /\ Len(t) \in Nat /\ Len(s) = Len(t) + 1 /\ Head(s) = s[1]
      /\ \A i \in 1 .. Len(t) : t[i] = s[i + 1]
  OBVIOUS
<1>. HIDE DEF t
<1>2. PICK n \in Nat : n = Len(t)
  BY <1>1
<1>3. PICK X, Y : X = Places(s, type) /\ Y = Places(t, type)
  OBVIOUS
<1>4. /\ X \in SUBSET (1 .. n + 1) /\ Y \in SUBSET (1 .. n)
      /\ \A k \in 1 .. n : k \in Y <=> k + 1 \in X
  BY <1>1, <1>2, <1>3 DEF Places
<1>5. 1 \in X <=> Head(s).type = type
  BY <1>1, <1>3 DEF Places
<1>6. /\ IsFiniteSet(X) /\ IsFiniteSet(Y)
      /\ Cardinality(X) \in Nat /\ Cardinality(Y) \in Nat
      /\ 1 \in X => Cardinality(X) = Cardinality(Y) + 1
      /\ 1 \notin X => Cardinality(X) = Cardinality(Y)
  BY <1>4, PlacesTail, Zenon
<1>. QED
  BY <1>3, <1>5, <1>6 DEF t, Count

-----------------------------------------------------------------------------
(* The tasks that send on c, and what the server counts against it or is   *)
(* about to count.                                                         *)
Pend(c) == {t \in P!Task : disp[t].conn = c}

Charged(c) == inflight[c] + Cardinality(Pend(c))

(* What the agent does about it: jobs to read, the one it has, results.    *)
Hand(a) == IF main[a].pc \in {"start", "launch", "wait"} THEN 1 ELSE 0

Ordered(a) == Count(inbox[a], "job")

Owed(a) == Ordered(a) + Hand(a) + Count(up[wire[a]], "result")

Live(a) == wire[a] \in Conn \ cut /\ registry[a] = wire[a]

SlotInv ==
    /\ \A c \in Conn : IsFiniteSet(Pend(c))
    /\ "overtaken" \notin trouble => \A a \in Agent : Live(a) => Charged(wire[a]) <= Owed(a)

LEMMA OrderedNat ==
    ASSUME G!Typed, NEW a \in Agent
    PROVE  Ordered(a) \in Nat /\ Hand(a) \in Nat
<1>1. inbox[a] \in Seq(G!Message)
  BY DEF G!Typed
<1>. QED
  BY <1>1, CountNat DEF Ordered, Hand

LEMMA ResultsNat ==
    ASSUME Admissible, NEW c \in Conn
    PROVE  Count(up[c], "result") \in Nat
<1>1. PICK M : up[c] \in Seq(M)
  BY DEF Admissible, Messages
<1>. QED
  BY <1>1, CountNat

LEMMA ChargedNat ==
    ASSUME P!TypeOK, NEW c \in Conn, IsFiniteSet(Pend(c))
    PROVE  Charged(c) \in Nat /\ inflight[c] \in Nat /\ Cardinality(Pend(c)) \in Nat
<1>1. Cardinality(Pend(c)) \in Nat
  BY FS_CardinalityType
<1>. QED
  BY <1>1 DEF P!TypeOK, Charged

(* A task that takes the lock writes at most one message, and then sends.  *)
LEMMA TakesWrites ==
    ASSUME P!TypeOK, P!TypeOK', NEW t \in P!Task, P!Takes(t)
    PROVE  \/ \A c \in Conn : Pend(c)' = Pend(c)
           \/ \E d \in Conn, j \in Job :
                 /\ \A c \in Conn \ {d} : Pend(c)' = Pend(c)
                 /\ Pend(d)' = Pend(d) \cup {t} /\ t \notin Pend(d)
                 /\ Written = {<<d, "job", j>>}
<1>. /\ disp \in [P!Task -> P!TaskState] /\ disp' \in [P!Task -> P!TaskState]
     /\ \A u \in P!Task : P!TaskShape(disp[u])
     /\ Nil \notin Conn
  BY SystemAssumption DEF P!TypeOK, S!ControlPlaneAssumption
<1>1. PICK a \in Agent, g \in Nat : P!TakesFor(t, a, g)
  BY DEF P!Takes
<1>2. /\ disp[t].pc # "send" /\ UNCHANGED <<firing, cancelling>>
      /\ \A u \in P!Task \ {t} : disp'[u] = disp[u]
  BY DEF P!Takes
<1>3. disp[t].conn = Nil
  BY <1>2 DEF P!TaskShape, P!TaskState, P!Idle
<1>4. CASE disp'[t].conn = Nil
  BY <1>2, <1>3, <1>4 DEF Pend
<1>5. ASSUME NEW j \in Job, NEW d \in Conn, disp'[t] = P!Sending(a, g, j, d)
      PROVE  \E i \in Job :
                 /\ \A c \in Conn \ {d} : Pend(c)' = Pend(c)
                 /\ Pend(d)' = Pend(d) \cup {t} /\ t \notin Pend(d)
                 /\ Written = {<<d, "job", i>>}
  <2>1. disp'[t].pc = "send" /\ disp'[t].conn = d /\ disp'[t].job = j
    BY <1>5 DEF P!Sending
  <2>2. \A c \in Conn \ {d} : Pend(c)' = Pend(c)
    BY <1>2, <1>3, <2>1 DEF Pend
  <2>3. Pend(d)' = Pend(d) \cup {t} /\ t \notin Pend(d)
    BY <1>2, <1>3, <2>1 DEF Pend
  <2>4. {u \in S!Task : disp'[u].pc = "send" /\ disp[u].pc # "send"} = {t}
    BY <1>2, <2>1 DEF S!Task, P!Task
  <2>5. (cancelling' \ cancelling) \cup ({firing'} \ {firing, Nil}) = {}
    BY <1>2
  <2>6. Written = {<<d, "job", j>>}
    BY <2>1, <2>4, <2>5 DEF Written
  <2>. QED
    BY <2>2, <2>3, <2>6
<1>6. \/ disp'[t].conn = Nil
      \/ \E j \in Job, d \in Conn : disp'[t] = P!Sending(a, g, j, d)
  BY <1>1 DEF P!TakesFor, P!Idle, P!Waiting
<1>. QED
  BY <1>4, <1>5, <1>6

(* What arrives adds to what is ordered. *)
LEMMA CarryCounts ==
    ASSUME G!Typed, Carry
    PROVE  /\ UNCHANGED <<main, socket>>
           /\ \A a \in Agent : Ordered(a) \in Nat /\ Ordered(a)' \in Nat /\ Ordered(a) <= Ordered(a)'
<1>1. UNCHANGED <<main, socket>>
  BY Zenon DEF Carry, A!Receive, agents
<1>2. ASSUME NEW a \in Agent
      PROVE  Ordered(a) \in Nat /\ Ordered(a)' \in Nat /\ Ordered(a) <= Ordered(a)'
  <2>1. inbox[a] \in Seq(G!Message) /\ Ordered(a) \in Nat
    BY OrderedNat DEF G!Typed
  <2>2. inbox'[a] = inbox[a] => Ordered(a)' = Ordered(a)
    BY DEF Ordered
  <2>3. ASSUME NEW m, inbox'[a] = Append(inbox[a], m)
        PROVE  Ordered(a)' = Ordered(a) \/ Ordered(a)' = Ordered(a) + 1
    BY <2>1, <2>3, CountAppend DEF Ordered
  <2>4. ASSUME NEW b \in Agent, NEW type, NEW j, A!Receive(b, type, j)
        PROVE  \/ inbox'[a] = inbox[a]
               \/ inbox'[a] = Append(inbox[a], [type |-> type, job |-> j])
    <3>1. inbox' = [inbox EXCEPT ![b] = Append(@, [type |-> type, job |-> j])]
      BY <2>4, Zenon DEF A!Receive
    <3>. QED
      BY <3>1 DEF G!Typed
  <2>5. inbox'[a] = inbox[a] \/ \E m : inbox'[a] = Append(inbox[a], m)
    <3>1. \/ \E b \in Agent, m \in Written : A!Receive(b, m[2], m[3])
          \/ UNCHANGED inbox
      BY Zenon DEF Carry, agents
    <3>. QED
      BY <2>4, <3>1
  <2>6. Ordered(a)' = Ordered(a) \/ Ordered(a)' = Ordered(a) + 1
    BY <2>2, <2>3, <2>5, Zenon
  <2>. QED
    BY <2>1, <2>6
<1>. QED
  BY <1>1, <1>2

LEMMA JobArrives ==
    ASSUME G!Typed, Wires, NEW a \in Agent, wire[a] \in Conn \ cut, Carry, NEW j,
           Written = {<<wire[a], "job", j>>}
    PROVE  Ordered(a)' = Ordered(a) + 1
<1>1. PICK b \in Agent, m \in Written :
          /\ wire[b] = m[1]
          /\ A!Receive(b, m[2], m[3])
  BY DEF Carry
<1>2. m[1] = wire[a] /\ m[2] = "job" /\ m[3] = j
  BY <1>1
<1>3. b = a
  BY <1>1, <1>2, SystemAssumption DEF Wires, S!ControlPlaneAssumption
<1>4. inbox[a] \in Seq(G!Message) /\ inbox \in [Agent -> Seq(G!Message)]
  BY DEF G!Typed
<1>5. inbox' = [inbox EXCEPT ![a] = Append(@, [type |-> "job", job |-> j])]
  BY <1>1, <1>2, <1>3, Zenon DEF A!Receive
<1>6. inbox'[a] = Append(inbox[a], [type |-> "job", job |-> j])
  BY <1>4, <1>5
<1>. QED
  BY <1>4, <1>6, CountAppend DEF Ordered

(* What the server charges to an agent, it orders from it. *)
Balanced(a, c) ==
    /\ Charged(c)' + Ordered(a) <= Charged(c) + Ordered(a)'
    /\ Cardinality(Pend(c)') + Ordered(a) <= Cardinality(Pend(c)) + Ordered(a)'

AllBalanced ==
    /\ \A c \in Conn : IsFiniteSet(Pend(c)')
    /\ \A a \in Agent, c \in Conn \ cut : wire[a] = c => Balanced(a, c)

LEMMA TakesBalanced ==
    ASSUME P!TypeOK, P!TypeOK', G!Typed, Wires, Carry, \A c \in Conn : IsFiniteSet(Pend(c)),
           NEW t \in P!Task, P!Takes(t)
    PROVE  AllBalanced
<1>1. \A c \in Conn : inflight'[c] \in Nat /\ inflight[c] \in Nat /\ inflight'[c] <= inflight[c]
  BY DEF P!TypeOK, P!Takes
<1>2. \A c \in Conn : Cardinality(Pend(c)) \in Nat
  BY FS_CardinalityType
<1>3. \A a \in Agent : Ordered(a) \in Nat /\ Ordered(a)' \in Nat /\ Ordered(a) <= Ordered(a)'
  BY CarryCounts
<1>4. ASSUME NEW a \in Agent, NEW c \in Conn, Pend(c)' = Pend(c)
      PROVE  Balanced(a, c)
  <2>1. Cardinality(Pend(c)') = Cardinality(Pend(c))
    BY <1>4
  <2>. QED
    BY <1>1, <1>2, <1>3, <2>1 DEF Balanced, Charged
<1>5. CASE \A c \in Conn : Pend(c)' = Pend(c)
  BY <1>4, <1>5 DEF AllBalanced
<1>6. ASSUME NEW d \in Conn, NEW j,
             \A c \in Conn \ {d} : Pend(c)' = Pend(c),
             Pend(d)' = Pend(d) \cup {t}, t \notin Pend(d),
             Written = {<<d, "job", j>>}
      PROVE  AllBalanced
  <2>1. IsFiniteSet(Pend(d)') /\ Cardinality(Pend(d)') = Cardinality(Pend(d)) + 1
    BY <1>6, FS_AddElement
  <2>2. ASSUME NEW a \in Agent, d \notin cut, wire[a] = d PROVE Balanced(a, d)
    <3>1. Ordered(a)' = Ordered(a) + 1
      BY <1>6, <2>2, JobArrives
    <3>. QED
      BY <1>1, <1>2, <1>3, <2>1, <2>2, <3>1 DEF Balanced, Charged
  <2>. QED
    BY <1>4, <1>6, <2>1, <2>2 DEF AllBalanced
<1>. QED
  BY <1>5, <1>6, TakesWrites

LEMMA ReturnBalanced ==
    ASSUME P!TypeOK, P!TypeOK', G!Typed, Carry, \A c \in Conn : IsFiniteSet(Pend(c)),
           NEW t \in P!Task, P!DispatchReturn(t)
    PROVE  AllBalanced
<1>1. /\ disp \in [P!Task -> P!TaskState] /\ inflight \in [Conn -> Nat]
      /\ P!TaskShape(disp[t]) /\ Nil \notin Conn
  BY SystemAssumption DEF P!TypeOK, S!ControlPlaneAssumption
<1>2. /\ disp[t].pc = "send" /\ disp' = [disp EXCEPT ![t] = P!Idle]
  BY DEF P!DispatchReturn
<1>3. PICK d \in Conn : d = disp[t].conn
  BY <1>1, <1>2 DEF P!TaskShape, P!TaskState
<1>4. disp'[t].conn = Nil /\ \A u \in P!Task \ {t} : disp'[u] = disp[u]
  BY <1>1, <1>2 DEF P!Idle
<1>5. \A c \in Conn \ {d} : Pend(c)' = Pend(c)
  BY <1>1, <1>3, <1>4 DEF Pend
<1>6. Pend(d)' = Pend(d) \ {t} /\ t \in Pend(d)
  BY <1>1, <1>3, <1>4 DEF Pend
<1>0. UNCHANGED inflight \/ inflight' = [inflight EXCEPT ![d] = @ + 1]
  BY <1>3 DEF P!DispatchReturn
<1>7. \A c \in Conn : Cardinality(Pend(c)) \in Nat
  BY FS_CardinalityType
<1>8. IsFiniteSet(Pend(d)') /\ Cardinality(Pend(d)') = Cardinality(Pend(d)) - 1
  BY <1>3, <1>6, FS_RemoveElement
<1>9. \A a \in Agent : Ordered(a) \in Nat /\ Ordered(a)' \in Nat /\ Ordered(a) <= Ordered(a)'
  BY CarryCounts
<1>10. ASSUME NEW a \in Agent, NEW c \in Conn PROVE Balanced(a, c)
  <2>1. CASE c = d
    <3>1. inflight'[d] <= inflight[d] + 1 /\ inflight[d] \in Nat /\ inflight'[d] \in Nat
      BY <1>0, <1>1
    <3>. QED
      BY <1>7, <1>8, <1>9, <2>1, <3>1 DEF Balanced, Charged
  <2>2. CASE c # d
    <3>1. Cardinality(Pend(c)') = Cardinality(Pend(c)) /\ inflight'[c] = inflight[c]
      BY <1>0, <1>1, <1>5, <2>2
    <3>2. inflight[c] \in Nat
      BY <1>1
    <3>. QED
      BY <1>7, <1>9, <3>1, <3>2 DEF Balanced, Charged
  <2>. QED
    BY <2>1, <2>2
<1>. QED
  BY <1>5, <1>8, <1>10 DEF AllBalanced

LEMMA ServerBalanced ==
    ASSUME P!TypeOK, P!TypeOK', P!KnownRows, P!LockInv, G!Typed, Wires, Carry,
           \A c \in Conn : IsFiniteSet(Pend(c)), [P!Next]_(P!vars)
    PROVE  AllBalanced
<1>1. \/ \E t \in P!Task : P!Takes(t) \/ P!DispatchReturn(t)
      \/ P!Aside \/ P!Restart
  BY SameAssumptions, P!LockMoves DEF P!LockInv
<1>2. ASSUME UNCHANGED inflight, \A c \in Conn : Pend(c)' = Pend(c) \/ Pend(c)' = {}
      PROVE  AllBalanced
  <2>0. IsFiniteSet({}) /\ Cardinality({}) = 0
    BY FS_EmptySet, Zenon
  <2>1. \A c \in Conn : /\ Cardinality(Pend(c)) \in Nat /\ inflight[c] \in Nat
    BY FS_CardinalityType DEF P!TypeOK
  <2>2. \A c \in Conn : /\ Cardinality(Pend(c)') \in {0, Cardinality(Pend(c))}
                        /\ IsFiniteSet(Pend(c)')
    BY <1>2, <2>0
  <2>3. \A a \in Agent : Ordered(a) \in Nat /\ Ordered(a)' \in Nat /\ Ordered(a) <= Ordered(a)'
    BY CarryCounts
  <2>. QED
    BY <1>2, <2>1, <2>2, <2>3 DEF AllBalanced, Balanced, Charged
<1>3. CASE P!Aside
  <2>1. UNCHANGED inflight /\ \A c \in Conn : Pend(c)' = Pend(c)
    BY <1>3 DEF P!Aside, Pend
  <2>. QED
    BY <1>2, <2>1
<1>4. CASE P!Restart
  <2>1. UNCHANGED inflight /\ \A t \in P!Task : disp'[t].conn = Nil
    BY <1>4 DEF P!Restart, P!Reboot, P!Idle
  <2>2. \A c \in Conn : Pend(c)' = {}
    BY <2>1, SystemAssumption DEF Pend, S!ControlPlaneAssumption
  <2>. QED
    BY <1>2, <2>1, <2>2
<1>. QED
  BY <1>1, <1>3, <1>4, TakesBalanced, ReturnBalanced

(* What an agent has to do, but for results on the way. *)
Due(a) == Ordered(a) + Hand(a)

LEMMA ListenDue ==
    ASSUME G!Typed, NEW a \in Agent, socket'[a] # "down",
           A!OnJob(a) \/ A!OnCancel(a) \/ A!CreateContainer(a) \/ A!Launch(a)
    PROVE  Due(a) <= Due(a)'
<1>. /\ inbox \in [Agent -> Seq(G!Message)] /\ main \in [Agent -> G!MainState]
     /\ socket \in [Agent -> {"down", "up", "broken"}]
  BY DEF G!Typed
<1>1. A!EndSession(a) => socket'[a] = "down"
  BY DEF A!EndSession
<1>2. CASE A!OnJob(a)
  <2>1. /\ inbox[a] # <<>> /\ Head(inbox[a]).type = "job" /\ main[a].pc = "listen"
        /\ \/ /\ main' = [main EXCEPT ![a].pc = "start", ![a].job = Head(inbox[a]).job]
              /\ inbox' = [inbox EXCEPT ![a] = Tail(@)]
           \/ A!EndSession(a)
    BY <1>2, Zenon DEF A!OnJob
  <2>2. main'[a].pc = "start" /\ inbox'[a] = Tail(inbox[a])
    BY <1>1, <2>1 DEF G!MainState
  <2>3. Ordered(a) = Ordered(a)' + 1 /\ Ordered(a)' \in Nat
    <3>1. Tail(inbox[a]) \in Seq(G!Message) /\ inbox[a] \in Seq(G!Message)
      BY <2>1
    <3>2. Count(Tail(inbox[a]), "job") \in Nat
      BY <3>1, CountNat
    <3>3. Count(inbox[a], "job") = Count(Tail(inbox[a]), "job") + 1
      BY <2>1, <3>1, CountTail
    <3>. QED
      BY <2>2, <3>2, <3>3 DEF Ordered
  <2>. QED
    BY <2>1, <2>2, <2>3 DEF Due, Hand
<1>3. CASE A!OnCancel(a)
  <2>1. /\ inbox[a] # <<>> /\ Head(inbox[a]).type = "cancel"
        /\ UNCHANGED main /\ inbox' = [inbox EXCEPT ![a] = Tail(@)]
    BY <1>3, Zenon DEF A!OnCancel
  <2>2. Ordered(a) = Ordered(a)' /\ Ordered(a)' \in Nat
    BY <2>1, CountTail, CountNat DEF Ordered
  <2>. QED
    BY <2>1, <2>2 DEF Due, Hand
<1>4. ASSUME UNCHANGED inbox, main[a].pc \in {"start", "launch"},
             main'[a].pc \in {"launch", "wait"}
      PROVE  Due(a) <= Due(a)'
  <2>1. Ordered(a)' = Ordered(a) /\ Ordered(a) \in Nat
    BY <1>4, OrderedNat DEF Ordered
  <2>. QED
    BY <1>4, <2>1 DEF Due, Hand
<1>5. CASE A!CreateContainer(a)
  BY <1>4, <1>5 DEF A!CreateContainer, G!MainState
<1>6. CASE A!Launch(a)
  <2>1. main[a].pc = "launch" /\ (A!Goto(a, "wait") \/ A!EndSession(a))
    BY <1>6, Zenon DEF A!Launch, A!SendThen
  <2>. QED
    BY <1>1, <1>4, <2>1 DEF A!Goto, G!MainState
<1>. QED
  BY <1>2, <1>3, <1>5, <1>6

(* Steps of run() while it has no job in hand. *)
LEMMA ReconcileDue ==
    ASSUME G!Typed, NEW a \in Agent, socket'[a] # "down",
           ReconcileStep(a) \/ A!ReportExited(a) \/ A!EndListen(a)
    PROVE  Due(a) <= Due(a)'
<1>. socket \in [Agent -> {"down", "up", "broken"}]
  BY DEF G!Typed
<1>1. A!EndSession(a) => socket'[a] = "down"
  BY DEF A!EndSession
<1>2. main[a].pc \notin {"start", "launch", "wait"}
  BY DEF ReconcileStep, A!List, A!ListFails, A!ReconcileNext, A!Inspect, A!Discard,
         A!ReconcileDone, A!ReportExited, A!EndListen
<1>3. UNCHANGED inbox \/ A!EndSession(a)
  BY Zenon DEF ReconcileStep, A!List, A!ListFails, A!ReconcileNext, A!Inspect, A!Discard,
               A!ReconcileDone, A!ReportExited, A!EndListen, A!Goto, A!SendThen
<1>4. Ordered(a)' = Ordered(a) /\ Ordered(a) \in Nat
  BY <1>1, <1>3, OrderedNat DEF Ordered
<1>5. Hand(a) = 0 /\ Hand(a)' \in {0, 1}
  BY <1>2 DEF Hand
<1>. QED
  BY <1>4, <1>5 DEF Due

(* A start that fails ends what the agent has in hand. *)
LEMMA FailDue ==
    ASSUME G!Typed, NEW a \in Agent, socket'[a] # "down", A!StartFails(a)
    PROVE  Due(a) <= Due(a)' + 1
<1>. socket \in [Agent -> {"down", "up", "broken"}]
  BY DEF G!Typed
<1>1. A!EndSession(a) => socket'[a] = "down"
  BY DEF A!EndSession
<1>2. UNCHANGED inbox
  BY <1>1 DEF A!StartFails
<1>3. Ordered(a)' = Ordered(a) /\ Ordered(a) \in Nat
  BY <1>2, OrderedNat DEF Ordered
<1>4. Hand(a) \in {0, 1} /\ Hand(a)' \in {0, 1}
  BY DEF Hand
<1>. QED
  BY <1>3, <1>4 DEF Due

(* A task that ends; only a handler with a connection frees the agent, and *)
(* its result is sent.                                                     *)
LEMMA TaskDue ==
    ASSUME G!Typed, NEW r \in runs, NEW a \in Agent, r.agent = a, socket'[a] # "down",
           A!Collect(r) \/ A!Remove(r) \/ A!WaitFails(r) \/ A!SendResult(r)
    PROVE  /\ \/ Due(a) <= Due(a)'
              \/ r.session = session[a] /\ Due(a) <= Due(a)' + 1
           /\ A!Collect(r) \/ A!Remove(r) \/ A!WaitFails(r) => Due(a) <= Due(a)'
<1>. socket \in [Agent -> {"down", "up", "broken"}]
  BY DEF G!Typed
<1>1. A!EndSession(a) => socket'[a] = "down"
  BY DEF A!EndSession
<1>2. ASSUME UNCHANGED <<main, inbox>> PROVE Due(a) <= Due(a)'
  <2>1. Due(a)' = Due(a) /\ Due(a) \in Nat
    BY <1>2, OrderedNat DEF Due, Ordered, Hand
  <2>. QED
    BY <2>1
<1>3. ASSUME A!Collect(r) \/ A!Remove(r) \/ A!WaitFails(r)
      PROVE  Due(a) <= Due(a)'
  <2>1. UNCHANGED <<main, inbox>> \/ A!EndSession(r.agent)
    BY <1>3, Zenon DEF A!Collect, A!Remove, A!WaitFails
  <2>. QED
    BY <1>1, <1>2, <2>1
<1>4. ASSUME A!SendResult(r)
      PROVE  \/ Due(a) <= Due(a)'
             \/ r.session = session[a] /\ Due(a) <= Due(a)' + 1
  <2>1. \/ UNCHANGED <<main, inbox>>
        \/ A!EndSession(r.agent)
        \/ r.session = session[r.agent] /\ A!HandlerDone(r)
    <3>1. r.handler \in BOOLEAN
      BY DEF G!Typed, G!Run
    <3>. QED
      BY <1>4, <3>1 DEF A!SendResult
  <2>2. CASE r.session = session[r.agent] /\ A!HandlerDone(r)
    <3>1. UNCHANGED inbox
      BY <2>2, Zenon DEF A!HandlerDone
    <3>2. Ordered(a)' = Ordered(a) /\ Ordered(a) \in Nat
      BY <3>1, OrderedNat DEF Ordered
    <3>3. Hand(a) \in {0, 1} /\ Hand(a)' \in {0, 1}
      BY DEF Hand
    <3>. QED
      BY <1>4, <2>2, <3>2, <3>3 DEF Due
  <2>. QED
    BY <1>1, <1>2, <2>1, <2>2
<1>. QED
  BY <1>3, <1>4

(* The other agents are left alone. *)
OthersRest(a) == \A b \in Agent \ {a} : main'[b] = main[b] /\ inbox'[b] = inbox[b]

LEMMA MainRest ==
    ASSUME G!Typed, NEW a \in Agent,
           \/ ReconcileStep(a) \/ ListenStep(a) \/ A!OnJob(a) \/ A!StartFails(a)
           \/ A!Launch(a) \/ A!ReportExited(a) \/ A!Connect(a) \/ A!Break(a) \/ A!Crash(a)
    PROVE  OthersRest(a)
<1>. main \in [Agent -> G!MainState] /\ inbox \in [Agent -> Seq(G!Message)]
  BY DEF G!Typed
<1>1. A!EndSession(a) => OthersRest(a)
  BY DEF A!EndSession, OthersRest
<1>2. \A pc : A!Goto(a, pc) => OthersRest(a)
  BY DEF A!Goto, OthersRest
<1>3. UNCHANGED <<main, inbox>> => OthersRest(a)
  BY DEF OthersRest
<1>4. CASE ReconcileStep(a) \/ A!ReportExited(a)
  BY <1>1, <1>2, <1>4 DEF ReconcileStep, A!List, A!ListFails, A!ReconcileNext, A!Inspect,
     A!Discard, A!ReconcileDone, A!ReportExited, A!SendThen, OthersRest
<1>5. CASE ListenStep(a) \/ A!OnJob(a) \/ A!StartFails(a) \/ A!Launch(a)
  BY <1>1, <1>2, <1>5 DEF ListenStep, CreateContainer, A!OnCancel, A!EndListen,
     A!CreateContainer, A!OnJob, A!StartFails, A!Launch, A!SendThen, OthersRest
<1>6. CASE A!Connect(a) \/ A!Break(a) \/ A!Crash(a)
  BY <1>1, <1>6 DEF A!Connect, A!Break, A!Crash, OthersRest
<1>. QED
  BY <1>4, <1>5, <1>6

LEMMA TaskRest ==
    ASSUME G!Typed, NEW r \in runs,
           A!Collect(r) \/ A!Remove(r) \/ A!WaitFails(r) \/ A!SendResult(r)
    PROVE  OthersRest(r.agent)
<1>. main \in [Agent -> G!MainState] /\ inbox \in [Agent -> Seq(G!Message)]
  BY DEF G!Typed
<1>1. r.agent \in Agent /\ r.handler \in BOOLEAN
  BY DEF G!Typed, G!Run
<1>2. A!EndSession(r.agent) \/ A!HandlerDone(r) \/ UNCHANGED <<main, inbox>>
  BY <1>1 DEF A!Collect, A!Remove, A!WaitFails, A!SendResult
<1>. QED
  BY <1>1, <1>2 DEF A!EndSession, A!HandlerDone, OthersRest

-----------------------------------------------------------------------------
(* What counts against an agent that is live after a step already did, or  *)
(* it just registered and nothing does.                                    *)
LEMMA ChargedBefore ==
    ASSUME SlotInv, Admissible, G!Typed, P!TypeOK, P!Registered, P!LockInv, [P!Next]_(P!vars),
           "overtaken" \notin trouble, NEW a \in Agent, NEW c \in Conn \ cut,
           wire[a] = c, registry'[a] = c
    PROVE  Charged(c) <= Owed(a)
<1>1. CASE registry[a] = c
  BY <1>1 DEF SlotInv, Live
<1>2. CASE who[c] = Nil
  <2>0. Nil \notin Conn /\ Nil \notin Agent
    BY SystemAssumption DEF S!ControlPlaneAssumption, S!StoreAssumption
  <2>1. inflight[c] = 0
    BY <1>2 DEF P!LockInv, P!SlotsFit
  <2>2. ASSUME NEW t \in Pend(c) PROVE FALSE
    <3>1. /\ t \in P!Task /\ disp[t].conn = c
          /\ disp[t] \in P!TaskState /\ P!TaskShape(disp[t])
      BY <2>2 DEF Pend, P!TypeOK
    <3>2. disp[t].pc = "send"
      BY <2>0, <3>1 DEF P!TaskShape, P!TaskState, P!Idle
    <3>3. who[c] = disp[t].agent
      BY <3>1, <3>2 DEF P!LockInv, P!SendsOwn
    <3>. QED
      BY <1>2, <3>1, <3>2, <3>3 DEF P!TaskShape
  <2>3. Pend(c) = {}
    BY <2>2
  <2>4. Charged(c) = 0
    <3>1. Cardinality(Pend(c)) = 0
      BY <2>3, FS_EmptySet, Zenon
    <3>. QED
      BY <2>1, <3>1 DEF Charged
  <2>5. Ordered(a) \in Nat /\ Hand(a) \in Nat /\ Count(up[wire[a]], "result") \in Nat
    BY OrderedNat, ResultsNat
  <2>. QED
    BY <2>4, <2>5 DEF Owed
<1>3. registry'[a] \in {registry[a], Nil} \/ who[registry'[a]] = Nil
  BY SameAssumptions, P!RegistryStep
<1>. QED
  BY <1>1, <1>2, <1>3, SystemAssumption DEF S!ControlPlaneAssumption

(* A step of the server that reads no message. *)
LEMMA ServerSlot ==
    ASSUME SlotInv, Admissible, G!Typed, P!TypeOK, P!TypeOK', P!KnownRows, P!Registered,
           P!LockInv, [P!Next]_(P!vars), Wires, Carry, UNCHANGED <<wire, up, cut>>,
           trouble \subseteq trouble'
    PROVE  SlotInv'
<1>1. AllBalanced
  BY ServerBalanced DEF SlotInv
<1>2. ASSUME "overtaken" \notin trouble', NEW a \in Agent, Live(a)'
      PROVE  Charged(wire[a])' <= Owed(a)'
  <2>1. PICK c \in Conn \ cut : c = wire[a] /\ registry'[a] = c
    BY <1>2 DEF Live
  <2>2. Charged(c) <= Owed(a)
    BY <1>2, <2>1, ChargedBefore
  <2>3. Charged(c)' + Ordered(a) <= Charged(c) + Ordered(a)'
    BY <1>1, <2>1 DEF AllBalanced, Balanced
  <2>4. Hand(a)' = Hand(a) /\ Ordered(a) \in Nat /\ Ordered(a)' \in Nat /\ Hand(a) \in Nat
    BY CarryCounts, OrderedNat DEF Hand
  <2>5. Count(up[c], "result") \in Nat /\ Charged(c) \in Nat /\ Charged(c)' \in Nat
    <3>1. IsFiniteSet(Pend(c)) /\ IsFiniteSet(Pend(c)')
      BY <1>1 DEF AllBalanced, SlotInv
    <3>2. Cardinality(Pend(c)') \in Nat
      BY <3>1, FS_CardinalityType
    <3>3. inflight'[c] \in Nat
      BY DEF P!TypeOK
    <3>4. Charged(c)' \in Nat
      BY <3>2, <3>3 DEF Charged
    <3>. QED
      BY <3>1, <3>4, ResultsNat, ChargedNat
  <2>6. Owed(a) = Ordered(a) + Hand(a) + Count(up[c], "result")
    BY <2>1 DEF Owed
  <2>7. Owed(a)' = Ordered(a)' + Hand(a) + Count(up[c], "result")
    BY <2>1, <2>4 DEF Owed
  <2>8. Charged(wire[a])' = Charged(c)'
    BY <2>1
  <2>. QED
    BY <2>2, <2>3, <2>4, <2>5, <2>6, <2>7, <2>8
<1>. QED
  BY <1>1, <1>2 DEF SlotInv, AllBalanced

(* A result is read: it frees the slot of the connection it came on, if    *)
(* the agent is still registered there.                                    *)
LEMMA ResultFrees ==
    ASSUME P!TypeOK, P!Registered, NEW a \in Agent, NEW c \in Conn, registry'[a] = c,
           NEW j, NEW report, S!Result(c, j, report)
    PROVE  inflight'[c] = IF inflight[c] > 0 THEN inflight[c] - 1 ELSE 0
<1>1. UNCHANGED registry /\ inflight' = S!FreeSlot(registry[who[c]])
  BY Zenon DEF S!Result
<1>2. registry[a] = c /\ Nil \notin Conn
  BY <1>1, SystemAssumption DEF S!ControlPlaneAssumption
<1>3. who[c] = a
  BY <1>2 DEF P!Registered
<1>4. inflight' = [inflight EXCEPT ![c] = IF @ > 0 THEN @ - 1 ELSE 0]
  BY <1>1, <1>2, <1>3 DEF S!FreeSlot
<1>. QED
  BY <1>4 DEF P!TypeOK

(* The handler of a connection reads a message. *)
LEMMA HandleSlot ==
    ASSUME SlotInv, Admissible, G!Typed, P!TypeOK, P!TypeOK', P!KnownRows, P!Registered,
           P!LockInv, [P!Next]_(P!vars), Wires, NEW d \in Conn, Handle(d)
    PROVE  SlotInv'
<1>. DEFINE m == Head(up[d])
            R(c) == Count(up[c], "result")
<1>0. /\ Carry /\ up[d] # <<>> /\ UNCHANGED <<wire, cut>>
      /\ up' = [up EXCEPT ![d] = Tail(@)] /\ trouble \subseteq trouble'
      /\ "overtaken" \notin trouble' => \A t \in S!Task : disp[t].conn # d
      /\ m.type = "result" => S!Result(d, m.job, m.report)
  BY DEF Handle, Happens
<1>1. AllBalanced
  BY <1>0, ServerBalanced DEF SlotInv
<1>2. /\ \A c \in Conn : R(c) \in Nat
      /\ \A c \in Conn \ {d} : up'[c] = up[c]
      /\ Count(up'[d], "result") = IF m.type = "result" THEN R(d) - 1 ELSE R(d)
      /\ m.type = "result" => R(d) >= 1
  <2>1. PICK M : up[d] \in Seq(M)
    BY DEF Admissible, Messages
  <2>2. Tail(up[d]) \in Seq(M)
    BY <1>0, <2>1
  <2>3. Count(Tail(up[d]), "result") \in Nat
    BY <2>2, CountNat
  <2>4. /\ m.type = "result" => R(d) = Count(Tail(up[d]), "result") + 1
        /\ m.type # "result" => R(d) = Count(Tail(up[d]), "result")
    BY <1>0, <2>1, CountTail
  <2>5. up'[d] = Tail(up[d]) /\ \A c \in Conn \ {d} : up'[c] = up[c]
    BY <1>0 DEF Admissible
  <2>6. \A c \in Conn : R(c) \in Nat
    BY ResultsNat
  <2>. QED
    BY <2>3, <2>4, <2>5, <2>6
<1>3. ASSUME "overtaken" \notin trouble', NEW a \in Agent, Live(a)'
      PROVE  Charged(wire[a])' <= Owed(a)'
  <2>1. PICK c \in Conn \ cut : c = wire[a] /\ registry'[a] = c
    BY <1>0, <1>3 DEF Live
  <2>2. Charged(c) <= Owed(a)
    BY <1>0, <1>3, <2>1, ChargedBefore
  <2>3. /\ Charged(c)' + Ordered(a) <= Charged(c) + Ordered(a)'
        /\ Cardinality(Pend(c)') + Ordered(a) <= Cardinality(Pend(c)) + Ordered(a)'
    BY <1>1, <2>1 DEF AllBalanced, Balanced
  <2>4. Hand(a)' = Hand(a) /\ Ordered(a) \in Nat /\ Ordered(a)' \in Nat /\ Hand(a) \in Nat
    BY <1>0, CarryCounts, OrderedNat DEF Hand
  <2>5. /\ Cardinality(Pend(c)) \in Nat /\ Cardinality(Pend(c)') \in Nat
        /\ inflight[c] \in Nat /\ inflight'[c] \in Nat
    <3>1. IsFiniteSet(Pend(c)) /\ IsFiniteSet(Pend(c)')
      BY <1>1 DEF AllBalanced, SlotInv
    <3>. QED
      BY <3>1, FS_CardinalityType DEF P!TypeOK
  <2>6. Owed(a) = Ordered(a) + Hand(a) + R(c)
    BY <2>1 DEF Owed
  <2>7. Owed(a)' = Ordered(a)' + Hand(a) + Count(up'[c], "result")
    BY <1>0, <2>1, <2>4 DEF Owed
  <2>8. /\ Charged(wire[a])' = Charged(c)' /\ Charged(c) = inflight[c] + Cardinality(Pend(c))
        /\ Charged(c)' = inflight'[c] + Cardinality(Pend(c)')
    BY <1>0, <2>1 DEF Charged
  <2>9. CASE c = d /\ m.type = "result"
    <3>1. Cardinality(Pend(c)) = 0
      <4>1. Pend(c) = {}
        BY <1>0, <1>3, <2>9 DEF Pend, S!Task, P!Task
      <4>. QED
        BY <4>1, FS_EmptySet, Zenon
    <3>2. inflight'[c] = IF inflight[c] > 0 THEN inflight[c] - 1 ELSE 0
      BY <1>0, <2>1, <2>9, ResultFrees
    <3>3. Count(up'[c], "result") = R(c) - 1 /\ R(c) \in Nat /\ R(c) >= 1
      BY <1>2, <2>9
    <3>. HIDE DEF R, m
    <3>. QED
      BY <2>2, <2>3, <2>4, <2>5, <2>6, <2>7, <2>8, <3>1, <3>2, <3>3
  <2>10. CASE ~(c = d /\ m.type = "result")
    <3>1. Count(up'[c], "result") = R(c) /\ R(c) \in Nat
      BY <1>2, <2>10
    <3>. HIDE DEF R, m
    <3>. QED
      BY <2>2, <2>3, <2>4, <2>5, <2>6, <2>7, <2>8, <3>1
  <2>. QED
    BY <2>9, <2>10
<1>4. UNCHANGED wire
  BY <1>0
<1>. QED
  BY <1>1, <1>3, <1>4 DEF SlotInv, AllBalanced

(* A step of an agent that sends. *)
LEMMA SendsSlot ==
    ASSUME SlotInv, Admissible, G!Typed, P!TypeOK, Wired, Wires, NEW a \in Agent,
           NEW ACTION step, NEW STATE messages, AgentSends(step, a, messages),
           OthersRest(a),
           socket'[a] # "down" =>
              \/ messages = <<>> /\ Due(a) <= Due(a)'
              \/ \E m : /\ messages = <<m>>
                        /\ \/ Due(a) <= Due(a)'
                           \/ m.type = "result" /\ Due(a) <= Due(a)' + 1,
           Ordered(a)' \in Nat
    PROVE  SlotInv'
<1>0. Nil \notin Conn
  BY SystemAssumption DEF S!ControlPlaneAssumption
<1>1. /\ UNCHANGED <<disp, inflight, registry>> /\ trouble \subseteq trouble' /\ cut \subseteq cut'
      /\ wire' = IF socket'[a] = "down" /\ wire[a] # Nil THEN [wire EXCEPT ![a] = Nil] ELSE wire
      /\ up' = [c \in Conn |-> IF c = wire[a] /\ c \notin cut THEN up[c] \o messages
                               ELSE up[c]]
  BY DEF AgentSends, server
<1>2. \A c : Pend(c)' = Pend(c) /\ Charged(c)' = Charged(c)
  BY <1>1 DEF Pend, Charged
<1>3. ASSUME "overtaken" \notin trouble', NEW b \in Agent, Live(b)'
      PROVE  Charged(wire[b])' <= Owed(b)'
  <2>1. PICK c \in Conn \ cut : c = wire[b] /\ wire'[b] = c /\ registry[b] = c
    BY <1>0, <1>1, <1>3 DEF Live
  <2>2. Charged(c) <= Owed(b) /\ Charged(c) \in Nat /\ IsFiniteSet(Pend(c))
    <3>1. IsFiniteSet(Pend(c)) /\ Charged(c) <= Owed(b)
      BY <1>1, <1>3, <2>1 DEF SlotInv, Live
    <3>. QED
      BY <3>1, ChargedNat
  <2>3. /\ Ordered(b) \in Nat /\ Hand(b) \in Nat /\ Count(up[c], "result") \in Nat
        /\ Hand(b)' \in Nat
    BY OrderedNat, ResultsNat DEF Hand
  <2>4. Owed(b) = Due(b) + Count(up[c], "result") /\ Owed(b)' = Due(b)' + Count(up'[c], "result")
    BY <2>1 DEF Owed, Due
  <2>5. CASE b # a
    <3>1. Due(b)' = Due(b)
      BY <2>5 DEF OthersRest, Due, Ordered, Hand
    <3>2. wire[a] # c
      BY <1>0, <2>1, <2>5 DEF Wires
    <3>3. up'[c] = up[c]
      BY <1>1, <3>2
    <3>. QED
      BY <1>2, <2>1, <2>2, <2>4, <3>1, <3>3
  <2>6. CASE b = a
    <3>0. wire[a] = c /\ wire'[a] = c /\ wire \in [Agent -> Conn \cup {Nil}]
      BY <2>1, <2>6 DEF Wired
    <3>1. socket'[a] # "down" /\ up'[c] = up[c] \o messages
      BY <1>0, <1>1, <2>1, <3>0
    <3>2. PICK M : up[c] \in Seq(M)
      BY DEF Admissible, Messages
    <3>3. Due(a) \in Nat /\ Due(a)' \in Nat
      BY <2>3, <2>6 DEF Due
    <3>4. CASE messages = <<>> /\ Due(a) <= Due(a)'
      <4>1. up'[c] = up[c]
        BY <3>1, <3>2, <3>4
      <4>. QED
        BY <1>2, <2>1, <2>2, <2>3, <2>4, <2>6, <3>3, <3>4, <4>1
    <3>5. ASSUME NEW m, messages = <<m>>,
                 \/ Due(a) <= Due(a)'
                 \/ m.type = "result" /\ Due(a) <= Due(a)' + 1
          PROVE  Charged(wire[b])' <= Owed(b)'
      <4>1. up'[c] = Append(up[c], m)
        BY <3>1, <3>2, <3>5
      <4>2. Count(up'[c], "result") = IF m.type = "result" THEN Count(up[c], "result") + 1
                                      ELSE Count(up[c], "result")
        BY <3>2, <4>1, CountAppend
      <4>. QED
        BY <1>2, <2>1, <2>2, <2>3, <2>4, <2>6, <3>3, <3>5, <4>2
    <3>. QED
      BY <3>1, <3>4, <3>5
  <2>. QED
    BY <2>5, <2>6
<1>4. ASSUME NEW b \in Agent, Live(b)' PROVE wire'[b] = wire[b]
  BY <1>0, <1>1, <1>4 DEF Live
<1>. QED
  BY <1>2, <1>3, <1>4 DEF SlotInv

LEMMA OrderedNext ==
    ASSUME G!Typed'
    PROVE  \A a \in Agent : Ordered(a)' \in Nat
<1>1. \A a \in Agent : inbox'[a] \in Seq(G!Message)
  BY DEF G!Typed
<1>. QED
  BY <1>1, CountNat DEF Ordered

(* A step that writes nothing, and leaves the agents that stay live alone. *)
LEMMA RestSlot ==
    ASSUME SlotInv, UNCHANGED <<disp, inflight, up>>, trouble \subseteq trouble',
           \A a \in Agent : Live(a)' => /\ Live(a) /\ wire'[a] = wire[a]
                                        /\ inbox'[a] = inbox[a] /\ main'[a] = main[a]
    PROVE  SlotInv'
<1>1. \A c : Pend(c)' = Pend(c) /\ Charged(c)' = Charged(c)
  BY DEF Pend, Charged
<1>2. ASSUME NEW a \in Agent, Live(a)'
      PROVE  Live(a) /\ Charged(wire[a])' = Charged(wire[a]) /\ Owed(a)' = Owed(a)
  <2>1. wire'[a] = wire[a] /\ inbox'[a] = inbox[a] /\ main'[a] = main[a] /\ Live(a)
    BY <1>2
  <2>. QED
    BY <2>1, <1>1 DEF Charged, Pend, Owed, Ordered, Hand
<1>3. \A c \in Conn : IsFiniteSet(Pend(c)')
  BY <1>1 DEF SlotInv
<1>. QED
  BY <1>2, <1>3 DEF SlotInv

LEMMA ConnectSlot ==
    ASSUME SlotInv, Fresh, G!Typed, G!AgentInv, P!Registered, Wired, Wires, NEW a \in Agent,
           Connect(a)
    PROVE  SlotInv'
<1>0. Nil \notin Conn /\ Nil \notin Agent
  BY SystemAssumption DEF S!ControlPlaneAssumption, S!StoreAssumption
<1>1. PICK c \in Conn :
          /\ Unused(c) /\ wire' = [wire EXCEPT ![a] = c]
          /\ up' = [up EXCEPT ![c] = <<[type |-> "register", agent |-> a]>>]
  BY DEF Connect
<1>2. A!Connect(a) /\ UNCHANGED <<disp, inflight, registry, who, cut, trouble>>
  BY DEF Connect, server
<1>3. OthersRest(a)
  BY <1>2, MainRest
<1>4. registry[a] # c
  BY <1>0, <1>1 DEF Fresh, P!Registered
<1>5. ASSUME NEW b \in Agent, Live(b)' PROVE b # a /\ wire'[b] = wire[b] /\ Live(b) /\ wire[b] # c
  <2>1. b # a
    BY <1>1, <1>2, <1>4, <1>5 DEF Live, Wired
  <2>2. wire'[b] = wire[b]
    BY <1>1, <2>1 DEF Wired
  <2>. QED
    BY <1>1, <1>2, <1>5, <2>1, <2>2 DEF Live, Unused
<1>6. \A d : Pend(d)' = Pend(d) /\ Charged(d)' = Charged(d)
  BY <1>2 DEF Pend, Charged
<1>7. ASSUME NEW b \in Agent, Live(b)'
      PROVE  Live(b) /\ Charged(wire[b])' = Charged(wire[b]) /\ Owed(b)' = Owed(b)
  <2>1. /\ wire'[b] = wire[b] /\ inbox'[b] = inbox[b] /\ main'[b] = main[b] /\ Live(b)
        /\ wire[b] # c
    BY <1>3, <1>5, <1>7 DEF OthersRest
  <2>2. up'[wire[b]] = up[wire[b]]
    BY <1>1, <2>1
  <2>. QED
    BY <1>2, <2>1, <2>2 DEF Charged, Pend, Owed, Ordered, Hand
<1>8. \A d \in Conn : IsFiniteSet(Pend(d)')
  BY <1>6 DEF SlotInv
<1>. QED
  BY <1>2, <1>7, <1>8 DEF SlotInv

LEMMA MainSlot ==
    ASSUME SlotInv, Fresh, Admissible, G!Typed, G!Typed', G!AgentInv, P!TypeOK, P!Registered,
           Wired, Wires, NEW a \in Agent, Main(a)
    PROVE  SlotInv'
<1>0. Ordered(a)' \in Nat
  BY OrderedNext
<1>1. CASE Accept(a)
  <2>1. A!OnJob(a) /\ AgentSends(A!OnJob(a), a, <<>>)
    BY <1>1, Zenon DEF Accept, AgentSends
  <2>2. OthersRest(a) /\ (socket'[a] # "down" => Due(a) <= Due(a)')
    BY <2>1, MainRest, ListenDue
  <2>. QED
    BY <1>0, <2>1, <2>2, SendsSlot
<1>2. CASE StartFails(a)
  <2>1. /\ A!StartFails(a)
        /\ AgentSends(A!StartFails(a), a, ResultMessage(main[a].job, "error"))
    BY <1>2, Zenon DEF StartFails, AgentSends
  <2>2. OthersRest(a) /\ (socket'[a] # "down" => Due(a) <= Due(a)' + 1)
    BY <2>1, MainRest, FailDue
  <2>3. \E m : m.type = "result" /\ ResultMessage(main[a].job, "error") = <<m>>
    BY DEF ResultMessage
  <2>. QED
    BY <1>0, <2>1, <2>2, <2>3, SendsSlot
<1>3. CASE AgentSends(ReconcileStep(a) \/ ListenStep(a), a, <<>>)
  <2>1. ReconcileStep(a) \/ ListenStep(a)
    BY <1>3, Zenon DEF AgentSends
  <2>2. OthersRest(a) /\ (socket'[a] # "down" => Due(a) <= Due(a)')
    BY <2>1, MainRest, ListenDue, ReconcileDue DEF ListenStep, CreateContainer
  <2>. QED
    BY <1>0, <1>3, <2>2, SendsSlot
<1>4. CASE AgentSends(A!Launch(a), a, StartedMessage(main[a].job))
  <2>1. A!Launch(a)
    BY <1>4, Zenon DEF AgentSends
  <2>2. OthersRest(a) /\ (socket'[a] # "down" => Due(a) <= Due(a)')
    BY <2>1, MainRest, ListenDue
  <2>3. \E m : StartedMessage(main[a].job) = <<m>>
    BY DEF StartedMessage
  <2>. QED
    BY <1>0, <1>4, <2>2, <2>3, SendsSlot
<1>5. ASSUME NEW report \in ExitReport,
             AgentSends(A!ReportExited(a), a,
                        ResultMessage(docker[main[a].container].job, report))
      PROVE  SlotInv'
  <2>1. A!ReportExited(a)
    BY <1>5, Zenon DEF AgentSends
  <2>2. OthersRest(a) /\ (socket'[a] # "down" => Due(a) <= Due(a)')
    BY <2>1, MainRest, ReconcileDue
  <2>3. \E m : ResultMessage(docker[main[a].container].job, report) = <<m>>
    BY DEF ResultMessage
  <2>. QED
    BY <1>0, <1>5, <2>2, <2>3, SendsSlot
<1>. QED
  BY <1>1, <1>2, <1>3, <1>4, <1>5, ConnectSlot DEF Main

LEMMA WaitSlot ==
    ASSUME SlotInv, Admissible, G!Typed, G!Typed', P!TypeOK, Wired, Wires, NEW a \in Agent,
           NEW c \in Container, Wait(a, c)
    PROVE  SlotInv'
<1>0. Ordered(a)' \in Nat
  BY OrderedNext
<1>1. PICK r \in runs :
          /\ r.agent = a
          /\ \/ AgentSends(A!Collect(r) \/ A!Remove(r) \/ A!WaitFails(r), a, <<>>)
             \/ \E report \in ExitReport :
                   AgentSends(A!SendResult(r), a,
                              IF r.session = session[a]
                              THEN ResultMessage(docker[c].job, report) ELSE <<>>)
  BY DEF Wait
<1>2. A!Collect(r) \/ A!Remove(r) \/ A!WaitFails(r) \/ A!SendResult(r)
  BY <1>1, Zenon DEF AgentSends
<1>3. OthersRest(a)
  BY <1>1, <1>2, TaskRest
<1>4. socket'[a] # "down" =>
          \/ Due(a) <= Due(a)'
          \/ r.session = session[a] /\ Due(a) <= Due(a)' + 1
  BY <1>1, <1>2, TaskDue
<1>5. CASE AgentSends(A!Collect(r) \/ A!Remove(r) \/ A!WaitFails(r), a, <<>>)
  <2>1. A!Collect(r) \/ A!Remove(r) \/ A!WaitFails(r)
    BY <1>5, Zenon DEF AgentSends
  <2>2. socket'[a] # "down" => Due(a) <= Due(a)'
    BY <1>1, <2>1, TaskDue
  <2>. QED
    BY <1>0, <1>3, <1>5, <2>2, SendsSlot
<1>6. ASSUME NEW report \in ExitReport,
             AgentSends(A!SendResult(r), a,
                        IF r.session = session[a]
                        THEN ResultMessage(docker[c].job, report) ELSE <<>>)
      PROVE  SlotInv'
  <2>1. \E m : m.type = "result" /\ ResultMessage(docker[c].job, report) = <<m>>
    BY DEF ResultMessage
  <2>2. CASE r.session = session[a]
    <3>1. AgentSends(A!SendResult(r), a, ResultMessage(docker[c].job, report))
      BY <1>6, <2>2
    <3>. QED
      BY <1>0, <1>3, <1>4, <2>1, <3>1, SendsSlot
  <2>3. CASE r.session # session[a]
    <3>1. AgentSends(A!SendResult(r), a, <<>>)
      BY <1>6, <2>3
    <3>. QED
      BY <1>0, <1>3, <1>4, <2>3, <3>1, SendsSlot
  <2>. QED
    BY <2>2, <2>3
<1>. QED
  BY <1>1, <1>5, <1>6

LEMMA SlotStep ==
    ASSUME SlotInv, Fresh, P!LockInv, SystemInv, [Next]_vars
    PROVE  SlotInv'
<1>1. /\ Admissible /\ P!DInv /\ P!TypeOK /\ P!KnownRows /\ P!Registered
      /\ G!AgentInv /\ G!Typed /\ Wires /\ Wired
  BY DEF SystemInv, P!DInv, P!IInv, G!SettledInv, G!AgentInv
<1>2. SystemInv' /\ [P!Next]_(P!vars)
  BY <1>1, SystemInvStep, SystemStep
<1>3. P!TypeOK' /\ G!Typed'
  BY <1>2 DEF SystemInv, P!DInv, P!IInv, G!SettledInv, G!AgentInv
<1>4. trouble \subseteq trouble'
  BY TroubleLasts
<1>5. ASSUME Carry, UNCHANGED <<wire, up, cut>> PROVE SlotInv'
  BY <1>1, <1>2, <1>3, <1>4, <1>5, ServerSlot
<1>6. ASSUME NEW c \in Conn, Handle(c) PROVE SlotInv'
  BY <1>1, <1>2, <1>3, <1>6, HandleSlot
<1>7. CASE UNCHANGED vars
  BY <1>4, <1>7, RestSlot DEF vars, server, agents, between, Live
<1>8. CASE ServerRuns
  <2>1. \/ \E c \in Conn : Handle(c)
        \/ Carry /\ UNCHANGED between
    BY <1>8, Zenon DEF ServerRuns, Server, NoticeLoss
  <2>. QED
    BY <1>5, <1>6, <2>1 DEF between
<1>9. CASE AgentsRun
  <2>1. ASSUME NEW a \in Agent, NoticeBreak(a) PROVE SlotInv'
    <3>1. /\ A!Break(a) /\ wire[a] \in cut
          /\ UNCHANGED <<disp, inflight, registry, wire, up, cut>>
      BY <2>1 DEF NoticeBreak, server, between
    <3>2. OthersRest(a)
      BY <1>1, <3>1, MainRest
    <3>. QED
      BY <1>4, <3>1, <3>2, RestSlot DEF Live, OthersRest
  <2>. QED
    BY <1>1, <1>3, <1>9, <2>1, MainSlot, WaitSlot DEF AgentsRun
<1>10. ASSUME NEW c \in Container, Exit(c) PROVE SlotInv'
  BY <1>4, <1>10, RestSlot DEF Exit, A!Exit, server, between, Live
<1>11. CASE Environment
  <2>1. CASE HeartbeatLate
    <3>1. PICK X \in SUBSET Agent : S!HeartbeatScan(X)
      BY <2>1 DEF HeartbeatLate
    <3>2. /\ UNCHANGED <<disp, inflight, wire, up, cut, inbox, main>>
          /\ \A a \in Agent : registry'[a] \in {registry[a], Nil}
      BY <2>1, <3>1 DEF HeartbeatLate, S!HeartbeatScan, S!dispatch, agents
    <3>3. Nil \notin Conn
      BY SystemAssumption DEF S!ControlPlaneAssumption
    <3>. QED
      BY <1>4, <3>2, <3>3, RestSlot DEF Live
  <2>2. CASE Restart
    <3>1. /\ \A t \in P!Task : disp'[t].conn = Nil
          /\ \A a \in Agent : registry'[a] = Nil
      BY <2>2 DEF Restart, S!Restart, S!Reboot, S!Idle, S!Task, P!Task
    <3>2. Nil \notin Conn
      BY SystemAssumption DEF S!ControlPlaneAssumption
    <3>3. \A c \in Conn : Pend(c)' = {}
      BY <3>1, <3>2 DEF Pend
    <3>4. \A c \in Conn : IsFiniteSet(Pend(c)')
      BY <3>3, FS_EmptySet, Zenon
    <3>5. \A a \in Agent : ~Live(a)'
      BY <3>1, <3>2 DEF Live
    <3>. QED
      BY <3>4, <3>5 DEF SlotInv
  <2>3. ASSUME NEW a \in Agent, Crash(a) PROVE SlotInv'
    <3>1. /\ A!Crash(a) /\ wire' = [wire EXCEPT ![a] = Nil] /\ cut \subseteq cut'
          /\ UNCHANGED <<disp, inflight, registry, up>>
      BY <2>3 DEF Crash, server
    <3>2. OthersRest(a)
      BY <1>1, <3>1, MainRest
    <3>3. Nil \notin Conn
      BY SystemAssumption DEF S!ControlPlaneAssumption
    <3>4. ~Live(a)' /\ \A b \in Agent \ {a} : wire'[b] = wire[b]
      BY <1>1, <3>1, <3>3 DEF Live, Wired
    <3>. QED
      BY <1>4, <3>1, <3>2, <3>4, RestSlot DEF Live, OthersRest
  <2>4. ASSUME NEW c \in Conn, Cut(c) PROVE SlotInv'
    BY <1>4, <2>4, RestSlot DEF Cut, server, agents, Live
  <2>5. CASE Carry /\ UNCHANGED between
    BY <1>5, <2>5 DEF between
  <2>. QED
    BY <1>11, <2>1, <2>2, <2>3, <2>4, <2>5, Zenon DEF Environment, Server
<1>. QED
  BY <1>6, <1>7, <1>8, <1>9, <1>10, <1>11, Zenon DEF Next

LEMMA SlotInvInit == Init => SlotInv
<1>. SUFFICES ASSUME Init PROVE SlotInv
  OBVIOUS
<1>1. Nil \notin Conn
  BY SystemAssumption DEF S!ControlPlaneAssumption
<1>2. \A c \in Conn : Pend(c) = {}
  BY <1>1 DEF Init, S!Init, S!Task, P!Task, S!Idle, Pend
<1>3. \A c \in Conn : IsFiniteSet(Pend(c))
  BY <1>2, FS_EmptySet, Zenon
<1>4. \A a \in Agent : ~Live(a)
  BY <1>1 DEF Init, Live
<1>. QED
  BY <1>3, <1>4 DEF SlotInv

LEMMA SlotMeans ==
    ASSUME SlotInv, Admissible, G!Typed, P!TypeOK, Wired
    PROVE  SlotHeld
<1>. SUFFICES ASSUME NEW a \in Agent, wire[a] # Nil, registry[a] = wire[a],
                     inflight[wire[a]] > 0, wire[a] \notin cut, "overtaken" \notin trouble
              PROVE  Busy(a)
  BY DEF SlotHeld
<1>1. PICK c \in Conn : c = wire[a]
  BY DEF Wired
<1>2. Charged(c) <= Owed(a)
  BY <1>1 DEF SlotInv, Live
<1>3. inflight[c] > 0 /\ inflight[c] \in Nat /\ Cardinality(Pend(c)) \in Nat
  BY <1>1, ChargedNat DEF SlotInv
<1>4. Ordered(a) \in Nat /\ Count(up[c], "result") \in Nat
  BY OrderedNat, ResultsNat
<1>5. Ordered(a) # 0 \/ Hand(a) # 0 \/ Count(up[c], "result") # 0
  <2>1. Owed(a) = Ordered(a) + Hand(a) + Count(up[c], "result")
    BY <1>1 DEF Owed
  <2>2. Hand(a) \in {0, 1}
    BY DEF Hand
  <2>. QED
    BY <1>2, <1>3, <1>4, <2>1, <2>2 DEF Charged
<1>6. Hand(a) # 0 => main[a].pc \in {"start", "launch", "wait"}
  BY DEF Hand
<1>7. Ordered(a) # 0 => \E i \in 1 .. Len(inbox[a]) : inbox[a][i].type = "job"
  BY CountSome DEF Ordered
<1>8. Count(up[c], "result") # 0 => \E i \in 1 .. Len(up[c]) : up[c][i].type = "result"
  BY CountSome
<1>. QED
  BY <1>1, <1>5, <1>6, <1>7, <1>8 DEF Busy

(* No slot leaks, for any number of jobs, agents, connections and failures *)
(* of either side: as long as no result overtakes the return of ws.send,   *)
(* an agent whose live connection the server counts as busy has a job to   *)
(* read, to start or to wait for, or its result is on the way.             *)
THEOREM SlotsHeld == Spec => []SlotHeld
<1>1. Init => SystemInv /\ Fresh /\ P!LockInv /\ SlotInv
  <2>1. Init => P!Init
    BY SystemInit
  <2>. QED
    BY <2>1, SystemInvInit, HeldInvInit, SameAssumptions, P!InitLockInv, SlotInvInit
<1>2. SystemInv /\ Fresh /\ P!LockInv /\ SlotInv /\ [Next]_vars
          => SystemInv' /\ Fresh' /\ P!LockInv' /\ SlotInv'
  <2>. SUFFICES ASSUME SystemInv, Fresh, P!LockInv, SlotInv, [Next]_vars
                PROVE  SystemInv' /\ Fresh' /\ P!LockInv' /\ SlotInv'
    OBVIOUS
  <2>1. /\ Admissible /\ P!TypeOK /\ P!KnownRows /\ P!Registered
        /\ G!AgentInv /\ Wires /\ Wired
    BY DEF SystemInv, P!DInv, P!IInv, G!SettledInv
  <2>2. SystemInv' /\ [P!Next]_(P!vars)
    BY <2>1, SystemInvStep, SystemStep
  <2>3. P!LockInv'
    <3>1. P!TypeOK'
      BY <2>2 DEF SystemInv, P!DInv, P!IInv
    <3>. QED
      BY <2>1, <2>2, <3>1, SameAssumptions, P!LockInvStep
  <2>. QED
    BY <2>1, <2>2, <2>3, FreshStep, SlotStep
<1>3. SystemInv /\ SlotInv => SlotHeld
  BY SlotMeans DEF SystemInv, P!DInv, P!IInv, G!SettledInv, G!AgentInv
<1>. QED
  BY <1>1, <1>2, <1>3, PTL DEF Spec
-----------------------------------------------------------------------------
(* A job is only ever in the hands of its own agent.                       *)

Mine(a) == {j \in Job : jobs[j].state # "ABSENT" /\ jobs[j].agent = a}

Names(s, a) == \A i \in 1 .. Len(s) : s[i].type = "register" => s[i].agent = a

(* Nobody else registers on an agent's connection. *)
Named == \A a \in Agent, c \in Conn : wire[a] = c => who[c] \in {Nil, a} /\ Names(up[c], a)

Addressed ==
    \A a \in Agent :
        /\ Orders(inbox[a], Mine(a))
        /\ main[a].pc \in {"start", "launch"} => main[a].job \in Mine(a)

LEMMA NamesConcat ==
    ASSUME NEW s, NEW t, Messages(s), Messages(t), NEW a, Names(s, a), Reports(t)
    PROVE  Names(s \o t, a)
<1>1. PICK M : s \in Seq(M)
  BY DEF Messages
<1>2. PICK N : t \in Seq(N)
  BY DEF Messages
<1>. QED
  BY <1>1, <1>2 DEF Names, Reports

LEMMA NamesTail ==
    ASSUME NEW s, Messages(s), s # <<>>, NEW a, Names(s, a)
    PROVE  /\ Names(Tail(s), a)
           /\ Head(s).type = "register" => Head(s).agent = a
<1>1. PICK M : s \in Seq(M)
  BY DEF Messages
<1>. QED
  BY <1>1 DEF Names

LEMMA NamedStays ==
    ASSUME Named, UNCHANGED <<who, up>>,
           \A a \in Agent, c \in Conn : wire'[a] = c => wire[a] = c
    PROVE  Named'
  BY DEF Named

LEMMA NamedSends ==
    ASSUME Named, Admissible, Wired, NEW a \in Agent, NEW ACTION step, NEW STATE messages,
           AgentSends(step, a, messages), Messages(messages), Reports(messages)
    PROVE  Named'
<1>0. Nil \notin Conn
  BY SystemAssumption DEF S!ControlPlaneAssumption
<1>1. UNCHANGED who
  BY DEF AgentSends, server
<1>2. ASSUME NEW b \in Agent, NEW c \in Conn, wire'[b] = c
      PROVE  who'[c] \in {Nil, b} /\ Names(up'[c], b)
  <2>1. wire[b] = c
    BY <1>0, <1>2 DEF AgentSends, Wired
  <2>2. who[c] \in {Nil, b} /\ Names(up[c], b) /\ Messages(up[c])
    BY <2>1 DEF Named, Admissible
  <2>3. up'[c] = up[c] \/ up'[c] = up[c] \o messages
    BY DEF AgentSends
  <2>. QED
    BY <1>1, <2>2, <2>3, NamesConcat
<1>. QED
  BY <1>2 DEF Named

LEMMA NamedConnects ==
    ASSUME Named, Fresh, Admissible, Wired, NEW a \in Agent, Connect(a)
    PROVE  Named'
<1>1. PICK d \in Conn :
          /\ Unused(d) /\ wire' = [wire EXCEPT ![a] = d]
          /\ up' = [up EXCEPT ![d] = <<[type |-> "register", agent |-> a]>>]
          /\ UNCHANGED who
  BY DEF Connect, server
<1>2. ASSUME NEW b \in Agent, NEW c \in Conn, wire'[b] = c
      PROVE  who'[c] \in {Nil, b} /\ Names(up'[c], b)
  <2>1. CASE b = a
    <3>1. c = d /\ up'[d] = <<[type |-> "register", agent |-> a]>>
      BY <1>1, <1>2, <2>1 DEF Wired, Admissible
    <3>2. Names(up'[d], a)
      BY <3>1 DEF Names
    <3>. QED
      BY <1>1, <2>1, <3>1, <3>2 DEF Fresh
  <2>2. CASE b # a
    <3>1. wire[b] = c /\ c # d
      BY <1>1, <1>2, <2>2 DEF Wired, Unused
    <3>2. up'[c] = up[c]
      BY <1>1, <3>1 DEF Admissible
    <3>. QED
      BY <1>1, <3>1, <3>2 DEF Named
  <2>. QED
    BY <2>1, <2>2
<1>. QED
  BY <1>2 DEF Named

LEMMA NamedHandles ==
    ASSUME Named, Admissible, P!TypeOK, NEW c \in Conn, Handle(c)
    PROVE  Named'
<1>1. up[c] # <<>> /\ up' = [up EXCEPT ![c] = Tail(@)] /\ UNCHANGED wire
  BY Zenon DEF Handle
<1>2. up'[c] = Tail(up[c]) /\ \A d \in Conn \ {c} : up'[d] = up[d]
  BY <1>1 DEF Admissible
<1>3. \A d \in Conn : Messages(up[d])
  BY DEF Admissible
<1>4. ASSUME NEW b \in Agent, NEW d \in Conn, wire[b] = d
      PROVE  who'[d] \in {Nil, b} /\ Names(up'[d], b)
  <2>1. who[d] \in {Nil, b} /\ Names(up[d], b)
    BY <1>4 DEF Named
  <2>2. Names(up'[d], b)
    BY <1>1, <1>2, <1>3, <2>1, NamesTail
  <2>3. CASE Head(up[c]).type = "register" /\ who' = [who EXCEPT ![c] = Head(up[c]).agent]
    <3>1. c = d => Head(up[c]).agent = b
      BY <1>1, <1>3, <2>1, <2>3, NamesTail
    <3>. QED
      BY <2>1, <2>2, <2>3, <3>1 DEF P!TypeOK
  <2>. QED
    BY <2>1, <2>2, <2>3, HandleRegisters
<1>. QED
  BY <1>1, <1>4 DEF Named

LEMMA NamedStep ==
    ASSUME Named, Fresh, Admissible, P!TypeOK, Wired, [Next]_vars
    PROVE  Named'
<1>1. ASSUME NEW c \in Conn, Handle(c) PROVE Named'
  BY <1>1, NamedHandles
<1>2. CASE \A c \in Conn : ~Handle(c)
  <2>. UNCHANGED who
    BY <1>2, OnlyHandleRegisters
  <2>1. CASE UNCHANGED between
    BY <2>1, NamedStays DEF between
  <2>2. CASE ServerRuns
    BY <1>2, <2>1, <2>2, Zenon DEF ServerRuns, Server, NoticeLoss
  <2>3. ASSUME NEW a \in Agent, Main(a) PROVE Named'
    <3>1. CASE \E report \in ExitReport :
                  AgentSends(A!ReportExited(a), a,
                             ResultMessage(docker[main[a].container].job, report))
      <4>1. ExitReport \subseteq Report
        BY SystemAssumption
      <4>. QED
        BY <3>1, <4>1, NamedSends, AgentMessages, AgentReports
    <3>2. CASE StartFails(a)
      <4>1. "error" \in Report
        BY SystemAssumption
      <4>. QED
        BY <3>2, <4>1, NamedSends, AgentMessages, AgentReports DEF StartFails
    <3>. QED
      BY <2>3, <3>1, <3>2, NamedConnects, NamedSends, AgentMessages, AgentReports, NoMessage
      DEF Main, Accept
  <2>4. ASSUME NEW a \in Agent, NEW c \in Container, Wait(a, c) PROVE Named'
    <3>1. PICK r \in runs :
              \/ AgentSends(A!Collect(r) \/ A!Remove(r) \/ A!WaitFails(r), a, <<>>)
              \/ \E report \in ExitReport :
                    AgentSends(A!SendResult(r), a,
                               IF r.session = session[a]
                               THEN ResultMessage(docker[c].job, report) ELSE <<>>)
      BY <2>4 DEF Wait
    <3>2. ASSUME NEW report \in ExitReport,
                 AgentSends(A!SendResult(r), a,
                            IF r.session = session[a]
                            THEN ResultMessage(docker[c].job, report) ELSE <<>>)
          PROVE  Named'
      <4>1. report \in Report
        BY SystemAssumption
      <4>2. LET s == IF r.session = session[a]
                     THEN ResultMessage(docker[c].job, report) ELSE <<>>
            IN  Messages(s) /\ Reports(s)
        BY <4>1, AgentMessages, AgentReports, NoMessage
      <4>. QED
        BY <3>2, <4>2, NamedSends
    <3>. QED
      BY <3>1, <3>2, NamedSends, AgentReports, NoMessage
  <2>5. ASSUME NEW a \in Agent, NoticeBreak(a) PROVE Named'
    BY <2>1, <2>5 DEF NoticeBreak
  <2>6. ASSUME NEW c \in Container, Exit(c) PROVE Named'
    BY <2>1, <2>6 DEF Exit
  <2>7. CASE Environment
    <3>1. ASSUME NEW a \in Agent, Crash(a) PROVE Named'
      <4>1. /\ wire' = [wire EXCEPT ![a] = Nil] /\ UNCHANGED up
            /\ Nil \notin Conn
        BY <3>1, SystemAssumption DEF Crash, S!ControlPlaneAssumption
      <4>. QED
        BY <4>1, NamedStays DEF Wired
    <3>2. CASE Restart
      <4>1. up' = [c \in Conn |-> <<>>] /\ UNCHANGED wire
        BY <3>2 DEF Restart
      <4>. QED
        BY <4>1 DEF Named, Names
    <3>3. CASE UNCHANGED <<wire, up>>
      BY <3>3, NamedStays
    <3>. QED
      BY <2>7, <3>1, <3>2, <3>3, Zenon
         DEF Environment, Server, HeartbeatLate, Cut, between
  <2>. QED
    BY <2>1, <2>2, <2>3, <2>4, <2>5, <2>6, <2>7 DEF Next, AgentsRun, vars
<1>. QED
  BY <1>1, <1>2

LEMMA MineGrows ==
    ASSUME P!TypeOK, P!KnownRows, [P!Next]_(P!vars), NEW a \in Agent
    PROVE  Mine(a) \subseteq Mine(a)'
<1>1. P!Served \/ P!Inserted
  BY SameAssumptions, P!TableMoves
<1>. QED
  BY <1>1, SameAssumptions, P!RowsStay DEF Mine

LEMMA ActsAddressed ==
    ASSUME G!AgentInv, Addressed, UNCHANGED server, Acts
    PROVE  Addressed'
<1>1. G!Moves /\ G!Typed
  BY Zenon DEF Acts, G!Moves, G!AgentInv
<1>2. ASSUME NEW a \in Agent
      PROVE  /\ Orders(inbox'[a], Mine(a)')
             /\ main'[a].pc \in {"start", "launch"} => main'[a].job \in Mine(a)'
  <2>0. PICK known : known = Mine(a) /\ known = Mine(a)'
    BY DEF Mine, server
  <2>1. InboxMoves(a) /\ Orders(inbox[a], known)
    BY <1>1, <2>0, ActsRead DEF Addressed
  <2>2. Orders(inbox'[a], known)
    BY <2>1, NoOrder, OrdersTail DEF InboxMoves
  <2>3. main'[a].pc \in {"start", "launch"} => main'[a].job \in known
    BY <1>1, <2>0, <2>1, HandTakes, OrdersTail DEF Addressed
  <2>. QED
    BY <2>0, <2>2, <2>3
<1>. QED
  BY <1>2 DEF Addressed

(* A job is written to a connection of its agent. *)
LEMMA CarryAddressed ==
    ASSUME Addressed, Named', P!TypeOK', P!SendsWritten', P!SentRows', P!RoutedToOwner',
           P!KnownRows', G!Typed, Carry, UNCHANGED wire,
           \A a \in Agent : Mine(a) \subseteq Mine(a)'
    PROVE  Addressed'
<1>0. Nil \notin Agent
  BY SystemAssumption DEF S!StoreAssumption
<1>1. CASE UNCHANGED agents
  BY <1>1, OrdersLast DEF Addressed, agents
<1>2. ASSUME NEW a \in Agent, NEW m \in Written, wire[a] = m[1], A!Receive(a, m[2], m[3])
      PROVE  Addressed'
  <2>1. m[2] = "job" => m[3] \in Mine(a)'
    <3>1. ASSUME NEW t \in P!Task, disp'[t].pc = "send", disp'[t].conn = wire[a]
          PROVE  disp'[t].job \in Mine(a)'
      <4>1. PICK c \in Conn : c = disp'[t].conn
        BY <3>1 DEF P!TypeOK, P!TaskState, P!TaskShape
      <4>2. PICK j \in Job : j = disp'[t].job
        BY <3>1 DEF P!TypeOK, P!TaskState, P!TaskShape
      <4>3. j \in sent'[c]
        BY <3>1, <4>1, <4>2 DEF P!SendsWritten
      <4>4. jobs'[j].state # "ABSENT" /\ jobs'[j].agent = who'[c]
        BY <4>1, <4>3 DEF P!SentRows, P!RoutedToOwner
      <4>5. who'[c] \in {Nil, a}
        BY <3>1, <4>1 DEF Named
      <4>6. jobs'[j].agent \in Agent
        BY <4>2, <4>4 DEF P!KnownRows
      <4>. QED
        BY <1>0, <4>2, <4>4, <4>5, <4>6 DEF Mine
    <3>2. CASE \E t \in S!Task :
                  disp'[t].pc = "send" /\ m = <<disp'[t].conn, "job", disp'[t].job>>
      BY <1>2, <3>1, <3>2 DEF S!Task, P!Task
    <3>3. CASE \E j \in (cancelling' \ cancelling) \cup ({firing'} \ {firing, Nil}) :
                  m = <<registry[jobs[j].agent], "cancel", j>>
      BY <3>3
    <3>. QED
      BY <3>2, <3>3 DEF Written
  <2>2. UNCHANGED main
    BY <1>2, Zenon DEF A!Receive
  <2>3. inbox' = [inbox EXCEPT ![a] = Append(@, [type |-> m[2], job |-> m[3]])]
    BY <1>2, Zenon DEF A!Receive
  <2>4. ASSUME NEW b \in Agent PROVE Orders(inbox'[b], Mine(b)')
    <3>1. Orders(inbox[b], Mine(b)')
      BY OrdersLast DEF Addressed
    <3>2. CASE a = b
      <4>1. inbox'[b] = Append(inbox[b], [type |-> m[2], job |-> m[3]])
        BY <2>3, <3>2 DEF G!Typed
      <4>. QED
        BY <2>1, <3>1, <3>2, <4>1, OrdersAppend
    <3>3. CASE a # b
      BY <2>3, <3>1, <3>3 DEF G!Typed
    <3>. QED
      BY <3>2, <3>3
  <2>. QED
    BY <2>2, <2>4 DEF Addressed
<1>. QED
  BY <1>1, <1>2 DEF Carry

LEMMA AddressedStep ==
    ASSUME Addressed, Named', SystemInv, SystemInv', [Next]_vars, [P!Next]_(P!vars)
    PROVE  Addressed'
<1>1. P!TypeOK /\ P!KnownRows /\ G!AgentInv /\ G!Typed
  BY DEF SystemInv, P!DInv, P!IInv, G!SettledInv, G!AgentInv
<1>2. P!TypeOK' /\ P!SendsWritten' /\ P!SentRows' /\ P!RoutedToOwner' /\ P!KnownRows'
  BY DEF SystemInv, P!DInv, P!IInv
<1>3. \A a \in Agent : Mine(a) \subseteq Mine(a)'
  BY <1>1, MineGrows
<1>4. CASE UNCHANGED agents
  BY <1>3, <1>4, OrdersLast DEF Addressed, agents
<1>. QED
  BY <1>1, <1>2, <1>3, <1>4, AgentsAct, ActsAddressed, CarryAddressed

-----------------------------------------------------------------------------
(* The orders for job j in s, and how often agent a will still try to      *)
(* create a container for it.                                              *)
Asks(s, j) == {i \in 1 .. Len(s) : s[i].type = "job" /\ s[i].job = j}

Tries(a, j) == Cardinality(Asks(inbox[a], j))
               + (IF main[a].pc = "start" /\ main[a].job = j THEN 1 ELSE 0)

(* The containers job j has, or will get from agent a. *)
Total(a, j) == Cardinality(Executions(j)) + Tries(a, j)

LEMMA AsksFinite ==
    ASSUME NEW M, NEW s \in Seq(M), NEW j
    PROVE  IsFiniteSet(Asks(s, j)) /\ Cardinality(Asks(s, j)) \in Nat
<1>1. IsFiniteSet(1 .. Len(s))
  BY FS_Interval
<1>2. IsFiniteSet(Asks(s, j))
  BY <1>1, FS_Subset DEF Asks
<1>. QED
  BY <1>2, FS_CardinalityType

LEMMA AsksNone ==
    ASSUME NEW j
    PROVE  Cardinality(Asks(<<>>, j)) = 0
<1>1. Asks(<<>>, j) = {}
  BY DEF Asks
<1>. QED
  BY <1>1, FS_EmptySet, Zenon

LEMMA AsksAppend ==
    ASSUME NEW M, NEW s \in Seq(M), NEW m, NEW j
    PROVE  Cardinality(Asks(Append(s, m), j))
               = Cardinality(Asks(s, j)) + (IF m.type = "job" /\ m.job = j THEN 1 ELSE 0)
<1>. DEFINE u == Append(s, m)
<1>1. /\ Len(u) = Len(s) + 1 /\ Len(s) \in Nat /\ u[Len(s) + 1] = m
      /\ \A i \in 1 .. Len(s) : u[i] = s[i]
  OBVIOUS
<1>2. IsFiniteSet(Asks(s, j)) /\ Cardinality(Asks(s, j)) \in Nat
  BY AsksFinite
<1>. HIDE DEF u
<1>3. ASSUME ~(m.type = "job" /\ m.job = j) PROVE Asks(u, j) = Asks(s, j)
  BY <1>1, <1>3 DEF Asks
<1>4. ASSUME m.type = "job", m.job = j
      PROVE  Asks(u, j) = Asks(s, j) \cup {Len(s) + 1} /\ Len(s) + 1 \notin Asks(s, j)
  BY <1>1, <1>4 DEF Asks
<1>5. CASE m.type = "job" /\ m.job = j
  <2>1. Cardinality(Asks(u, j)) = Cardinality(Asks(s, j)) + 1
    BY <1>2, <1>4, <1>5, FS_AddElement
  <2>. QED
    BY <1>5, <2>1 DEF u
<1>6. CASE ~(m.type = "job" /\ m.job = j)
  <2>1. Cardinality(Asks(u, j)) = Cardinality(Asks(s, j))
    BY <1>3, <1>6
  <2>. QED
    BY <1>2, <1>6, <2>1 DEF u
<1>. QED
  BY <1>5, <1>6

LEMMA AsksTail ==
    ASSUME NEW M, NEW s \in Seq(M), s # <<>>, NEW j
    PROVE  Cardinality(Asks(s, j)) = Cardinality(Asks(Tail(s), j))
               + (IF Head(s).type = "job" /\ Head(s).job = j THEN 1 ELSE 0)
<1>. DEFINE t == Tail(s)
<1>1. /\ Len(t) \in Nat /\ Len(s) = Len(t) + 1 /\ Head(s) = s[1]
      /\ \A i \in 1 .. Len(t) : t[i] = s[i + 1]
  OBVIOUS
<1>. HIDE DEF t
<1>2. PICK n \in Nat : n = Len(t)
  BY <1>1
<1>3. PICK X, Y : X = Asks(s, j) /\ Y = Asks(t, j)
  OBVIOUS
<1>4. /\ X \in SUBSET (1 .. n + 1) /\ Y \in SUBSET (1 .. n)
      /\ \A k \in 1 .. n : k \in Y <=> k + 1 \in X
  BY <1>1, <1>2, <1>3 DEF Asks
<1>5. 1 \in X <=> Head(s).type = "job" /\ Head(s).job = j
  BY <1>1, <1>3 DEF Asks
<1>6. /\ IsFiniteSet(X) /\ IsFiniteSet(Y)
      /\ Cardinality(X) \in Nat /\ Cardinality(Y) \in Nat
      /\ 1 \in X => Cardinality(X) = Cardinality(Y) + 1
      /\ 1 \notin X => Cardinality(X) = Cardinality(Y)
  BY <1>4, PlacesTail, Zenon
<1>7. Cardinality(X) = Cardinality(Y)
                         + (IF Head(s).type = "job" /\ Head(s).job = j THEN 1 ELSE 0)
  BY <1>5, <1>6
<1>. QED
  BY <1>3, <1>7 DEF t

LEMMA TriesNat ==
    ASSUME G!Typed, NEW a \in Agent, NEW j
    PROVE  Cardinality(Asks(inbox[a], j)) \in Nat /\ Tries(a, j) \in Nat
<1>1. inbox[a] \in Seq(G!Message)
  BY DEF G!Typed
<1>2. Cardinality(Asks(inbox[a], j)) \in Nat
  BY <1>1, AsksFinite
<1>. QED
  BY <1>2 DEF Tries

(* Nobody tries what is not addressed to him. *)
LEMMA TriesNone ==
    ASSUME Addressed, NEW a \in Agent, NEW j, j \notin Mine(a)
    PROVE  Tries(a, j) = 0
<1>1. PICK M : inbox[a] \in Seq(M) /\ \A m \in M : m.type = "job" => m.job \in Mine(a)
  BY DEF Addressed, Orders
<1>2. Asks(inbox[a], j) = {}
  BY <1>1 DEF Asks
<1>3. Cardinality(Asks(inbox[a], j)) = 0
  BY <1>2, FS_EmptySet, Zenon
<1>. QED
  BY <1>3 DEF Tries, Addressed

(* Only containers.run makes a container, and it makes one. *)
LEMMA LabelsKept ==
    ASSUME G!Typed, Acts
    PROVE  \/ \E a \in Agent : G!CreateContainer(a)
           \/ \A c \in Container : docker'[c].job = docker[c].job
<1>. docker \in [Container -> G!Label]
  BY DEF G!Typed
<1>1. ASSUME NEW d, NEW state, G!SetState(d, state)
      PROVE  \A c \in Container : docker'[c].job = docker[c].job
  BY <1>1 DEF G!SetState, G!Label
<1>2. \/ \E a \in Agent : G!CreateContainer(a)
      \/ UNCHANGED docker
      \/ \E d, state : G!SetState(d, state)
  <2>1. ASSUME NEW a \in Agent,
               G!Connect(a) \/ G!Reconcile(a) \/ G!Break(a) \/ G!Crash(a)
        PROVE  UNCHANGED docker \/ \E d, state : G!SetState(d, state)
    BY <2>1, Zenon DEF G!Connect, G!Reconcile, G!List, G!ListFails, G!ReconcileNext,
       G!Inspect, G!ReportExited, G!Discard, G!ReconcileDone, G!Break, G!Crash
  <2>2. ASSUME NEW a \in Agent, G!Listen(a)
        PROVE  \/ G!CreateContainer(a)
               \/ UNCHANGED docker \/ \E d, state : G!SetState(d, state)
    BY <2>2, Zenon DEF G!Listen, G!OnJob, G!OnCancel, G!EndListen, G!StartFails, G!Launch
  <2>3. ASSUME NEW r \in runs, G!Work(r)
        PROVE  UNCHANGED docker \/ \E d, state : G!SetState(d, state)
    BY <2>3, Zenon DEF G!Work, G!Collect, G!Remove, G!WaitFails, G!SendResult
  <2>4. ASSUME NEW c \in Container, G!Exit(c) PROVE \E d, state : G!SetState(d, state)
    BY <2>4, Zenon DEF G!Exit
  <2>. QED
    BY <2>1, <2>2, <2>3, <2>4, Zenon DEF Acts
<1>. QED
  BY <1>1, <1>2

LEMMA Creates ==
    ASSUME G!AgentInv, NEW a \in Agent, G!CreateContainer(a), NEW j \in Job,
           IsFiniteSet(Executions(j))
    PROVE  /\ IsFiniteSet(Executions(j)')
           /\ Cardinality(Executions(j)') = Cardinality(Executions(j))
                                            + (IF main[a].job = j THEN 1 ELSE 0)
<1>. docker \in [Container -> G!Label] /\ Nil \notin Job
  BY SystemAssumption DEF G!AgentInv, G!Typed, A!RuntimeAssumption
<1>1. PICK c \in Container :
          /\ docker[c].state = "none"
          /\ docker' = [docker EXCEPT ![c] =
                           [state |-> "created", job |-> main[a].job, by |-> a]]
  BY DEF G!CreateContainer
<1>2. docker'[c].job = main[a].job /\ \A d \in Container \ {c} : docker'[d] = docker[d]
  BY <1>1
<1>3. c \notin Executions(j)
  BY <1>1 DEF G!AgentInv, G!Labelled, Executions
<1>4. CASE main[a].job = j
  <2>1. Executions(j)' = Executions(j) \cup {c}
    BY <1>2, <1>4 DEF Executions
  <2>. QED
    BY <1>3, <1>4, <2>1, FS_AddElement
<1>5. CASE main[a].job # j
  <2>1. Executions(j)' = Executions(j)
    BY <1>2, <1>3, <1>5 DEF Executions
  <2>2. Cardinality(Executions(j)) \in Nat
    BY FS_CardinalityType
  <2>. QED
    BY <1>5, <2>1, <2>2
<1>. QED
  BY <1>4, <1>5

(* Whatever an agent does, it does not try more often than it was asked.   *)
LEMMA ActsTry ==
    ASSUME G!AgentInv, Acts, NEW b \in Agent, NEW j \in Job
    PROVE  /\ Tries(b, j)' \in Nat /\ Tries(b, j)' <= Tries(b, j)
           /\ G!CreateContainer(b) /\ main[b].job = j => Tries(b, j) = Tries(b, j)' + 1
<1>. DEFINE n == Cardinality(Asks(inbox[b], j))
            n2 == Cardinality(Asks(inbox'[b], j))
            h == IF main[b].pc = "start" /\ main[b].job = j THEN 1 ELSE 0
            h2 == IF main'[b].pc = "start" /\ main'[b].job = j THEN 1 ELSE 0
<1>0. Tries(b, j) = n + h /\ Tries(b, j)' = n2 + h2
  BY DEF Tries
<1>1. G!Moves /\ G!Typed /\ inbox[b] \in Seq(G!Message) /\ main \in [Agent -> G!MainState]
  BY Zenon DEF Acts, G!Moves, G!AgentInv, G!Typed
<1>2. n \in Nat /\ h \in {0, 1} /\ h2 \in {0, 1}
  BY <1>1, AsksFinite
<1>3. n2 \in Nat /\ n2 <= n
  <2>1. CASE inbox'[b] = inbox[b]
    BY <1>2, <2>1
  <2>2. CASE inbox'[b] = <<>>
    <3>1. n2 = 0
      BY <2>2, AsksNone
    <3>. QED
      BY <1>2, <3>1
  <2>3. CASE inbox[b] # <<>> /\ inbox'[b] = Tail(inbox[b])
    <3>1. Tail(inbox[b]) \in Seq(G!Message)
      BY <1>1, <2>3
    <3>2. n2 \in Nat
      BY <2>3, <3>1, AsksFinite
    <3>3. n = n2 + (IF Head(inbox[b]).type = "job" /\ Head(inbox[b]).job = j THEN 1 ELSE 0)
      BY <1>1, <2>3, AsksTail
    <3>. QED
      BY <3>2, <3>3
  <2>. QED
    BY <1>1, <2>1, <2>2, <2>3, ActsRead DEF InboxMoves
<1>4. h2 = 1 /\ h = 0 => n = n2 + 1
  <2>. SUFFICES ASSUME h2 = 1, h = 0 PROVE n = n2 + 1
    OBVIOUS
  <2>1. main'[b].pc = "start" /\ main'[b].job = j
    OBVIOUS
  <2>2. /\ inbox[b] # <<>> /\ Head(inbox[b]).type = "job" /\ Head(inbox[b]).job = j
        /\ inbox'[b] = Tail(inbox[b])
    BY <1>1, <2>1, HandTakes
  <2>. QED
    BY <1>1, <2>2, AsksTail
<1>5. ASSUME G!CreateContainer(b), main[b].job = j PROVE n2 = n /\ h = 1 /\ h2 = 0
  <2>1. main[b].pc = "start" /\ UNCHANGED inbox
    BY <1>5, Zenon DEF G!CreateContainer
  <2>2. main'[b].pc = "launch"
    BY <1>1, <1>5 DEF G!CreateContainer, G!MainState
  <2>. QED
    BY <1>5, <2>1, <2>2
<1>. HIDE DEF n, n2, h, h2
<1>. QED
  BY <1>0, <1>2, <1>3, <1>4, <1>5

LEMMA ActsTotal ==
    ASSUME G!AgentInv, Acts, NEW b \in Agent, NEW j \in Job, IsFiniteSet(Executions(j)),
           \A a \in Agent : main[a].pc = "start" /\ main[a].job = j => a = b
    PROVE  /\ IsFiniteSet(Executions(j)')
           /\ Total(b, j)' \in Nat /\ Total(b, j)' <= Total(b, j)
<1>. DEFINE e == Cardinality(Executions(j))
            e2 == Cardinality(Executions(j)')
            t == Tries(b, j)
            t2 == Tries(b, j)'
<1>0. Total(b, j) = e + t /\ Total(b, j)' = e2 + t2
  BY DEF Total
<1>1. e \in Nat /\ t \in Nat /\ t2 \in Nat /\ t2 <= t
  BY ActsTry, TriesNat, FS_CardinalityType DEF G!AgentInv
<1>2. CASE \A c \in Container : docker'[c].job = docker[c].job
  <2>1. Executions(j)' = Executions(j)
    BY <1>2 DEF Executions
  <2>. QED
    BY <1>0, <1>1, <2>1
<1>3. ASSUME NEW a \in Agent, G!CreateContainer(a)
      PROVE  /\ IsFiniteSet(Executions(j)')
             /\ Total(b, j)' \in Nat /\ Total(b, j)' <= Total(b, j)
  <2>1. IsFiniteSet(Executions(j)') /\ e2 = e + (IF main[a].job = j THEN 1 ELSE 0)
    BY <1>3, Creates
  <2>2. CASE main[a].job = j
    <3>1. a = b
      BY <1>3, <2>2 DEF G!CreateContainer
    <3>2. t = t2 + 1
      BY <1>3, <2>2, <3>1, ActsTry
    <3>. QED
      BY <1>0, <1>1, <2>1, <2>2, <3>2
  <2>3. CASE main[a].job # j
    BY <1>0, <1>1, <2>1, <2>3
  <2>. QED
    BY <2>2, <2>3
<1>. QED
  BY <1>2, <1>3, LabelsKept DEF G!AgentInv

-----------------------------------------------------------------------------
(* No connection breaks but by a restart of the server, and no agent       *)
(* crashes.                                                                *)
Smooth == trouble \cap {"crash", "cut"} = {}

(* Then no handler learns of a loss, and none ends: what a restart cut is  *)
(* forgotten, and each agent keeps its first dispatch lock.                *)
Whole ==
    /\ \A c \in Conn :
          /\ link[c] # "lost"
          /\ c \in cut => up[c] = <<>> /\ (who[c] = Nil \/ link[c] = "ended")
    /\ \A a \in Agent : lockGen[a] = 0

LEMMA NothingLost ==
    ASSUME Whole, NEW c \in Conn
    PROVE  ~NoticeLoss(c)
  BY Zenon DEF Whole, NoticeLoss, Server, S!Lose, S!HandlerEnd

LEMMA LinksStay ==
    ASSUME Whole, Admissible, [Next]_vars
    PROVE  Restart \/ UNCHANGED <<link, lockGen>>
<1>1. CASE UNCHANGED server
  BY <1>1 DEF server
<1>2. CASE ServerRuns
  <2>1. ASSUME NEW t, S!DispatchResume(t) \/ S!DispatchReturn(t)
        PROVE  UNCHANGED <<link, lockGen>>
    BY <2>1, Zenon DEF S!DispatchResume, S!DispatchReturn, S!gateway
  <2>2. ASSUME NEW X, S!AckScan(X) \/ S!TimeoutScan(X) \/ S!CancelReturn(X)
        PROVE  UNCHANGED <<link, lockGen>>
    BY <2>2, Zenon DEF S!AckScan, S!TimeoutScan, S!CancelReturn, S!gateway
  <2>3. S!AckNext \/ S!TimeoutNext \/ S!TimeoutReturn => UNCHANGED <<link, lockGen>>
    BY Zenon DEF S!AckNext, S!TimeoutNext, S!TimeoutReturn, S!gateway
  <2>4. ASSUME NEW c \in Conn, Handle(c) PROVE UNCHANGED <<link, lockGen>>
    <3>. DEFINE m == Head(up[c])
    <3>1. m.type \in {"register", "started", "result"}
      BY <2>4, MessagesTail DEF Admissible, Handle, Admitted
    <3>2. \/ S!Register(c, m.agent) \/ S!Started(c, m.job) \/ S!Result(c, m.job, m.report)
      BY <2>4, <3>1 DEF Handle
    <3>. QED
      BY <3>2, Zenon DEF S!Register, S!Started, S!Result, S!gateway
  <2>5. \A c \in Conn : ~NoticeLoss(c)
    BY NothingLost
  <2>6. \/ \E t : S!DispatchResume(t) \/ S!DispatchReturn(t)
        \/ \E X : S!AckScan(X) \/ S!TimeoutScan(X) \/ S!CancelReturn(X)
        \/ S!AckNext \/ S!TimeoutNext \/ S!TimeoutReturn
        \/ \E c \in Conn : Handle(c)
    BY <1>2, <2>5, Zenon DEF ServerRuns, Server
  <2>. QED
    BY <2>1, <2>2, <2>3, <2>4, <2>6
<1>3. CASE AgentsRun
  BY <1>1, <1>3, Zenon DEF AgentsRun, Main, Connect, Accept, StartFails, AgentSends,
                           Wait, NoticeBreak
<1>4. ASSUME NEW c \in Container, Exit(c) PROVE UNCHANGED <<link, lockGen>>
  BY <1>4 DEF Exit, server
<1>5. CASE Environment
  <2>1. ASSUME NEW X, S!HeartbeatScan(X) \/ S!CancelRequest(X)
        PROVE  UNCHANGED <<link, lockGen>>
    BY <2>1, Zenon DEF S!HeartbeatScan, S!CancelRequest, S!gateway
  <2>2. ASSUME NEW j, NEW a, NEW p, NEW k, S!Submit(j, a, p, k)
        PROVE  UNCHANGED <<link, lockGen>>
    BY <2>2, Zenon DEF S!Submit, S!gateway
  <2>. QED
    BY <1>1, <1>5, <2>1, <2>2, Zenon
       DEF Environment, Server, HeartbeatLate, Crash, Cut
<1>. QED
  BY <1>1, <1>2, <1>3, <1>4, <1>5 DEF Next, vars

(* Without trouble, an agent's step cuts nothing. *)
LEMMA CutsNothing ==
    ASSUME Smooth', NEW a, NEW ACTION step, NEW STATE messages,
           AgentSends(step, a, messages)
    PROVE  /\ cut' = cut /\ UNCHANGED who
           /\ \A c \in Conn \cap cut : up'[c] = up[c]
<1>1. cut' = cut
  <2>1. cut \subseteq cut'
    BY DEF AgentSends
  <2>2. ASSUME NEW c \in cut' \ cut PROVE "cut" \in trouble'
    BY DEF AgentSends
  <2>. QED
    BY <2>1, <2>2 DEF Smooth
<1>. QED
  BY <1>1 DEF AgentSends, server

LEMMA WholeStep ==
    ASSUME Whole, Admissible, P!TypeOK, Smooth', [Next]_vars
    PROVE  Whole' /\ (Restart \/ UNCHANGED <<link, lockGen>>)
<1>1. Restart \/ UNCHANGED <<link, lockGen>>
  BY LinksStay
<1>2. CASE Restart
  <2>1. /\ up' = [c \in Conn |-> <<>>] /\ UNCHANGED who
        /\ link' = [c \in Conn |-> IF who[c] = Nil THEN link[c] ELSE "ended"]
        /\ lockGen' = [a \in Agent |-> 0]
    BY <1>2 DEF Restart, S!Restart, S!Reboot
  <2>. QED
    BY <1>1, <1>2, <2>1 DEF Whole
<1>3. ASSUME UNCHANGED <<link, lockGen>>, cut' = cut,
             \A c \in Conn \cap cut : up'[c] = up[c] /\ who'[c] = who[c]
      PROVE  Whole'
  BY <1>3 DEF Whole
<1>4. ASSUME NEW c \in Conn, Handle(c), UNCHANGED <<link, lockGen>> PROVE Whole'
  <2>1. /\ up[c] # <<>> /\ up' = [up EXCEPT ![c] = Tail(@)] /\ UNCHANGED cut
    BY <1>4, Zenon DEF Handle
  <2>2. c \notin cut
    BY <2>1 DEF Whole
  <2>3. \A d \in Conn \ {c} : up'[d] = up[d]
    BY <2>1 DEF Admissible
  <2>4. \E m : UNCHANGED who \/ who' = [who EXCEPT ![c] = m.agent]
    BY <1>4, HandleRegisters
  <2>5. \A d \in Conn \ {c} : who'[d] = who[d]
    BY <2>4 DEF P!TypeOK
  <2>. QED
    BY <1>3, <1>4, <2>1, <2>2, <2>3, <2>5
<1>5. CASE \A c \in Conn : ~Handle(c)
  <2>1. UNCHANGED who
    BY <1>5, OnlyHandleRegisters
  <2>2. CASE ~Restart /\ UNCHANGED <<cut, up>>
    BY <1>1, <1>3, <2>1, <2>2
  <2>3. ASSUME NEW a, NEW ACTION step, NEW STATE messages,
               AgentSends(step, a, messages), ~Restart
        PROVE  Whole'
    BY <1>1, <1>3, <2>3, CutsNothing
  <2>4. ASSUME NEW a, Connect(a), ~Restart PROVE Whole'
    <3>1. PICK d \in Conn : /\ d \notin cut /\ UNCHANGED cut
                            /\ up' = [up EXCEPT ![d] = <<[type |-> "register", agent |-> a]>>]
      BY <2>4 DEF Connect, Unused
    <3>2. \A c \in Conn \cap cut : up'[c] = up[c]
      BY <3>1 DEF Admissible
    <3>. QED
      BY <1>1, <1>3, <2>1, <2>4, <3>1, <3>2
  <2>5. (\A a : ~Crash(a)) /\ (\A c : ~Cut(c))
    BY DEF Crash, Cut, Happens, Smooth
  <2>6. CASE ServerRuns \/ Environment \/ UNCHANGED vars \/ \E c \in Container : Exit(c)
    <3>1. Restart \/ UNCHANGED <<cut, up>>
      BY <1>5, <2>5, <2>6, Zenon DEF ServerRuns, Environment, Server, NoticeLoss,
                                     HeartbeatLate, Exit, between, vars
    <3>. QED
      BY <1>2, <2>2, <3>1
  <2>7. CASE AgentsRun /\ ~Restart
    <3>1. ASSUME NEW a, Main(a) PROVE Whole'
      BY <2>3, <2>4, <2>7, <3>1 DEF Main, Accept, StartFails
    <3>2. ASSUME NEW a, NEW c, Wait(a, c) PROVE Whole'
      BY <2>3, <2>7, <3>2 DEF Wait
    <3>3. ASSUME NEW a, NoticeBreak(a) PROVE Whole'
      BY <2>2, <2>7, <3>3 DEF NoticeBreak, between
    <3>. QED
      BY <1>1, <2>7, <3>1, <3>2, <3>3 DEF AgentsRun
  <2>. QED
    BY <1>2, <2>6, <2>7 DEF Next
<1>. QED
  BY <1>1, <1>2, <1>4, <1>5

(* A task starts to send job j. *)
Newly(j) == \E t \in P!Task :
                disp[t].pc # "send" /\ disp'[t].pc = "send" /\ disp'[t].job = j

(* What the server sends adds one order at most, and only to the job sent. *)
LEMMA CarryTries ==
    ASSUME G!Typed, Carry \/ UNCHANGED agents, NEW b \in Agent, NEW j \in Job
    PROVE  /\ Tries(b, j) \in Nat /\ Tries(b, j)' \in Nat
           /\ Tries(b, j)' <= Tries(b, j) + 1
           /\ ~Newly(j) => Tries(b, j)' = Tries(b, j)
<1>. DEFINE n == Cardinality(Asks(inbox[b], j))
            n2 == Cardinality(Asks(inbox'[b], j))
            h == IF main[b].pc = "start" /\ main[b].job = j THEN 1 ELSE 0
<1>1. UNCHANGED main
  BY Zenon DEF Carry, A!Receive, agents
<1>2. Tries(b, j) = n + h /\ Tries(b, j)' = n2 + h
  BY <1>1 DEF Tries
<1>3. inbox[b] \in Seq(G!Message) /\ n \in Nat /\ h \in {0, 1}
  BY TriesNat DEF G!Typed
<1>4. inbox'[b] = inbox[b] => n2 \in Nat /\ n2 <= n + 1 /\ n2 = n
  BY <1>3
<1>5. ASSUME NEW m \in Written, inbox'[b] = Append(inbox[b], [type |-> m[2], job |-> m[3]])
      PROVE  n2 \in Nat /\ n2 <= n + 1 /\ (~Newly(j) => n2 = n)
  <2>1. n2 = n + (IF m[2] = "job" /\ m[3] = j THEN 1 ELSE 0)
    BY <1>3, <1>5, AsksAppend
  <2>2. m[2] = "job" /\ m[3] = j => Newly(j)
    <3>1. \/ \E t \in S!Task : /\ disp'[t].pc = "send" /\ disp[t].pc # "send"
                               /\ m = <<disp'[t].conn, "job", disp'[t].job>>
          \/ \E i : m = <<registry[jobs[i].agent], "cancel", i>>
      BY DEF Written
    <3>. QED
      BY <3>1 DEF Newly, S!Task, P!Task
  <2>. QED
    BY <1>3, <2>1, <2>2
<1>6. inbox'[b] = inbox[b]
      \/ \E m \in Written : inbox'[b] = Append(inbox[b], [type |-> m[2], job |-> m[3]])
  <2>1. \/ UNCHANGED inbox
        \/ \E a \in Agent, m \in Written :
              inbox' = [inbox EXCEPT ![a] = Append(@, [type |-> m[2], job |-> m[3]])]
    BY Zenon DEF Carry, A!Receive, agents
  <2>. QED
    BY <2>1 DEF G!Typed
<1>7. n2 \in Nat /\ n2 <= n + 1 /\ (~Newly(j) => n2 = n)
  BY <1>4, <1>5, <1>6, Zenon
<1>. HIDE DEF n, n2, h
<1>. QED
  BY <1>2, <1>3, <1>7

LEMMA CarryTotal ==
    ASSUME G!Typed, Carry \/ UNCHANGED agents, NEW b \in Agent, NEW j \in Job,
           IsFiniteSet(Executions(j))
    PROVE  /\ IsFiniteSet(Executions(j)')
           /\ Total(b, j) \in Nat /\ Total(b, j)' \in Nat
           /\ Total(b, j)' <= Total(b, j) + 1
           /\ ~Newly(j) => Total(b, j)' = Total(b, j)
<1>1. UNCHANGED docker
  BY Zenon DEF Carry, A!Receive, agents
<1>2. Executions(j)' = Executions(j)
  BY <1>1 DEF Executions
<1>3. Cardinality(Executions(j)) \in Nat
  BY FS_CardinalityType
<1>. QED
  BY <1>2, <1>3, CarryTries DEF Total

(* The server hands out a job for the agent whose dispatch lock it holds. *)
Owning == \A t \in P!Task : disp[t].pc = "send" => jobs[disp[t].job].agent = disp[t].agent

LEMMA Owned == P!DInv /\ P!LockInv => Owning
<1>. SUFFICES ASSUME P!DInv, P!LockInv, NEW t \in P!Task, disp[t].pc = "send"
              PROVE  jobs[disp[t].job].agent = disp[t].agent
  BY DEF Owning
<1>1. PICK c \in Conn : c = disp[t].conn
  BY DEF P!DInv, P!IInv, P!TypeOK, P!TaskState, P!TaskShape
<1>2. disp[t].job \in sent[c] /\ jobs[disp[t].job].agent = who[c]
  BY <1>1 DEF P!DInv, P!SendsWritten, P!RoutedToOwner
<1>. QED
  BY <1>1, <1>2 DEF P!LockInv, P!SendsOwn

LEMMA OwnedNext == P!DInv' /\ P!LockInv' => Owning'
  BY Owned, PTL

(* As long as no handler ended, no two tasks send the same job. *)
LEMMA SoleSender ==
    ASSUME Whole, Owning, P!TypeOK, P!LockInv, NEW t \in P!Task, NEW u \in P!Task,
           disp[t].pc = "send", disp[u].pc = "send", disp[t].job = disp[u].job
    PROVE  t = u
<1>1. disp[t].agent = disp[u].agent /\ disp[t].agent \in Agent
  BY DEF Owning, P!TypeOK, P!TaskState, P!TaskShape
<1>2. lockGen[disp[t].agent] = 0 /\ disp[t].gen \in Nat /\ disp[u].gen \in Nat
  BY <1>1 DEF Whole, P!TypeOK, P!TaskState
<1>3. disp[t].gen <= lockGen[disp[t].agent] /\ disp[u].gen <= lockGen[disp[u].agent]
  BY DEF P!LockInv, P!LockSound
<1>4. disp[t].gen = disp[u].gen
  BY <1>1, <1>2, <1>3
<1>. QED
  BY <1>1, <1>4 DEF P!LockInv, P!LockSound

(* What is being sent waits in the table, or ended there meanwhile; and a  *)
(* send fails only if the server restarts.                                 *)
Serving ==
    \A t \in P!Task : disp[t].pc = "send" =>
        /\ link[disp[t].conn] = "open"
        /\ jobs[disp[t].job].state \in {"PENDING"} \cup P!TerminalState

(* A row that waits or has ended does so in the next state, unless its     *)
(* send returns.                                                           *)
LEMMA WaitsOn ==
    ASSUME P!TypeOK, P!TypeOK', P!Served \/ P!Inserted, NEW j \in Job, ~P!Returns(j),
           jobs[j].state \in {"PENDING"} \cup P!TerminalState
    PROVE  jobs'[j].state \in {"PENDING"} \cup P!TerminalState
<1>1. jobs'[j].state \in P!JobState
  BY DEF P!TypeOK, P!JobRow
<1>2. CASE P!Inserted
  <2>1. jobs[j].state # "ABSENT"
    BY DEF P!TerminalState
  <2>2. jobs'[j] = jobs[j]
    BY <1>2, <2>1 DEF P!Inserted, P!TypeOK
  <2>. QED
    BY <2>2
<1>3. CASE P!Uncharged(jobs[j], jobs'[j])
  BY <1>1, <1>3 DEF P!Uncharged, P!Kept, P!JobState, P!LiveState, P!TerminalState
<1>. QED
  BY <1>2, <1>3 DEF P!Served

LEMMA ServingStep ==
    ASSUME Serving, Whole, Owning, P!TypeOK, P!TypeOK', P!KnownRows, P!LockInv,
           [P!Next]_(P!vars), Restart \/ UNCHANGED link
    PROVE  Serving'
<1>. DEFINE Fine(t) == /\ link[disp[t].conn] = "open"
                       /\ jobs[disp[t].job].state \in {"PENDING"} \cup P!TerminalState
<1>0. P!Served \/ P!Inserted
  BY SameAssumptions, P!TableMoves
<1>1. CASE Restart
  <2>1. \A t \in P!Task : disp'[t].pc = "idle"
    BY <1>1 DEF Restart, S!Restart, S!Reboot, S!Idle, S!Task, P!Task
  <2>. QED
    BY <2>1 DEF Serving
<1>2. ASSUME NEW t \in P!Task, UNCHANGED link, disp[t].pc = "send", disp'[t] = disp[t],
             ~P!Returns(disp[t].job)
      PROVE  Fine(t)'
  <2>1. PICK j \in Job : j = disp[t].job
    BY <1>2 DEF P!TypeOK, P!TaskState, P!TaskShape
  <2>2. jobs[j].state \in {"PENDING"} \cup P!TerminalState /\ link[disp[t].conn] = "open"
    BY <1>2, <2>1 DEF Serving
  <2>3. jobs'[j].state \in {"PENDING"} \cup P!TerminalState
    BY <1>0, <1>2, <2>1, <2>2, WaitsOn
  <2>4. link'[disp'[t].conn] = "open" /\ disp'[t].job = j
    BY <1>2, <2>1, <2>2
  <2>. QED
    BY <2>3, <2>4
<1>3. ASSUME NEW t \in P!Task, P!Takes(t), UNCHANGED link PROVE Serving'
  <2>1. disp[t].pc # "send" /\ \A u \in P!Task \ {t} : disp'[u] = disp[u]
    BY <1>3 DEF P!Takes
  <2>2. \A j : ~P!Returns(j)
    BY <2>1 DEF P!Returns
  <2>3. disp'[t].pc = "send" => Fine(t)'
    <3>1. PICK a \in Agent, g \in Nat : P!TakesFor(t, a, g)
      BY <1>3 DEF P!Takes
    <3>2. disp'[t].pc = "send" => \E j \in Job, c \in Conn :
              link[c] = "open" /\ jobs'[j].state = "PENDING" /\ disp'[t] = P!Sending(a, g, j, c)
      <4>1. P!Idle.pc # "send" /\ P!Waiting(a, g).pc # "send"
        BY DEF P!Idle, P!Waiting
      <4>. QED
        BY <3>1, <4>1, Zenon DEF P!TakesFor
    <3>3. ASSUME NEW j \in Job, NEW c \in Conn, link[c] = "open", jobs'[j].state = "PENDING",
                 disp'[t] = P!Sending(a, g, j, c)
          PROVE  Fine(t)'
      <4>1. disp'[t].conn = c /\ disp'[t].job = j
        BY <3>3 DEF P!Sending
      <4>. QED
        BY <1>3, <3>3, <4>1
    <3>. QED
      BY <3>2, <3>3
  <2>. QED
    BY <1>2, <1>3, <2>1, <2>2, <2>3 DEF Serving
<1>4. ASSUME NEW t \in P!Task, P!DispatchReturn(t), UNCHANGED link PROVE Serving'
  <2>1. /\ disp[t].pc = "send" /\ disp'[t].pc = "idle"
        /\ \A u \in P!Task \ {t} : disp'[u] = disp[u]
    BY <1>4 DEF P!DispatchReturn, P!Idle, P!TypeOK
  <2>2. ASSUME NEW u \in P!Task \ {t}, disp[u].pc = "send" PROVE ~P!Returns(disp[u].job)
    <3>1. disp[u].job # disp[t].job
      BY <2>1, <2>2, SoleSender
    <3>. QED
      BY <2>1, <3>1 DEF P!Returns
  <2>. QED
    BY <1>2, <1>4, <2>1, <2>2 DEF Serving
<1>5. CASE P!Aside /\ UNCHANGED link
  <2>1. disp' = disp /\ \A j : ~P!Returns(j)
    BY <1>5 DEF P!Aside, P!Returns
  <2>. QED
    BY <1>2, <1>5, <2>1 DEF Serving
<1>6. P!Restart => \A t \in P!Task : disp'[t].pc = "idle"
  BY DEF P!Restart, P!Reboot, P!Idle
<1>7. CASE P!Restart
  BY <1>6, <1>7 DEF Serving
<1>8. \/ \E t \in P!Task : P!Takes(t) \/ P!DispatchReturn(t)
      \/ P!Aside \/ P!Restart
  BY SameAssumptions, P!LockMoves DEF P!LockInv
<1>. QED
  BY <1>1, <1>3, <1>4, <1>5, <1>7, <1>8

LEMMA RestartsGrow ==
    ASSUME P!TypeOK, [P!Next]_(P!vars)
    PROVE  restarts \in Nat /\ restarts' \in Nat /\ restarts' >= restarts
<1>1. restarts \in Nat
  <2>1. restarts \in 0 .. MaxRestarts
    BY DEF P!TypeOK
  <2>2. MaxRestarts \in Nat
    BY SystemAssumption, Zenon DEF S!ControlPlaneAssumption
  <2>. QED
    BY <2>1, <2>2
<1>2. P!Restart => restarts' = restarts + 1
  BY DEF P!Restart, P!Reboot
<1>3. P!AckNext \/ P!TimeoutNext \/ UNCHANGED P!vars => UNCHANGED restarts
  BY Zenon DEF P!AckNext, P!TimeoutNext, P!vars
<1>4. ASSUME NEW t, P!DispatchResume(t) \/ P!DispatchReturn(t) PROVE UNCHANGED restarts
  BY <1>4, Zenon DEF P!DispatchResume, P!DispatchReturn
<1>5. ASSUME NEW c, P!ConnStep(c) PROVE UNCHANGED restarts
  BY <1>5, Zenon DEF P!ConnStep, P!Register, P!Started, P!Result, P!Lose, P!HandlerEnd
<1>6. ASSUME NEW j, P!ApiStep(j) PROVE UNCHANGED restarts
  BY <1>6, Zenon DEF P!ApiStep, P!Submit, P!CancelRequest, P!CancelReturn
<1>7. P!WatcherScan => UNCHANGED restarts
  BY Zenon DEF P!WatcherScan, P!AckScan, P!TimeoutScan, P!TimeoutReturn, P!HeartbeatScan
<1>8. P!Restart \/ UNCHANGED restarts
  BY <1>3, <1>4, <1>5, <1>6, <1>7, Zenon DEF P!Next, P!Other
<1>. QED
  BY <1>1, <1>2, <1>8

(* The executions job j is entitled to while it lives: one per attempt     *)
(* counted or about to be, and one per restart of the server.              *)
Pledged(j) == IF P!Sends(j) THEN 1 ELSE 0

Allowed(j) == jobs[j].attempts + restarts + Pledged(j)

LEMMA AllowedNat ==
    ASSUME P!TypeOK, NEW j \in Job
    PROVE  Allowed(j) \in Nat /\ restarts \in Nat /\ MaxAttempts \in Nat \ {0}
<1>1. restarts \in 0 .. MaxRestarts /\ jobs[j].attempts \in Nat
  BY DEF P!TypeOK, P!JobRow
<1>2. MaxRestarts \in Nat /\ MaxAttempts \in Nat \ {0}
  BY SystemAssumption, Zenon DEF S!ControlPlaneAssumption
<1>. QED
  BY <1>1, <1>2 DEF Allowed, Pledged

(* A row that lives, lived before, and loses no attempt. *)
LEMMA LivesOn ==
    ASSUME P!TypeOK, P!TypeOK', P!Served \/ P!Inserted, NEW j \in Job,
           jobs[j].state # "ABSENT", jobs'[j].state \in P!LiveState
    PROVE  /\ jobs[j].state \in P!LiveState
           /\ jobs[j].attempts \in Nat /\ jobs'[j].attempts \in Nat
           /\ jobs'[j].attempts >= jobs[j].attempts
<1>1. jobs[j].attempts \in Nat /\ jobs'[j].attempts \in Nat /\ jobs[j].state \in P!JobState
  BY DEF P!TypeOK, P!JobRow
<1>2. CASE P!Inserted
  <2>1. jobs'[j] = jobs[j]
    BY <1>2 DEF P!Inserted, P!TypeOK
  <2>. QED
    BY <1>1, <2>1
<1>3. CASE P!Uncharged(jobs[j], jobs'[j])
  BY <1>1, <1>3 DEF P!Uncharged, P!LiveState
<1>4. CASE P!Charged(jobs[j], jobs'[j])
  BY <1>1, <1>4 DEF P!Charged, P!LiveState
<1>. QED
  BY <1>2, <1>3, <1>4 DEF P!Served

(* What a send pledges, its return counts, and a restart of the server     *)
(* forgets.                                                                *)
LEMMA TakesPledges ==
    ASSUME Whole, Owning', P!TypeOK, P!TypeOK', P!LockInv, NEW j \in Job,
           NEW t \in P!Task, P!Takes(t)
    PROVE  Pledged(j)' >= Pledged(j) + (IF Newly(j) THEN 1 ELSE 0)
<1>1. /\ disp[t].pc # "send" /\ UNCHANGED lockGen
      /\ \A u \in P!Task \ {t} : disp'[u] = disp[u]
  BY DEF P!Takes
<1>2. P!Sends(j) => P!Sends(j)'
  BY <1>1 DEF P!Sends
<1>3. Newly(j) => P!Sends(j)'
  BY DEF Newly, P!Sends
<1>4. ASSUME NEW u \in P!Task, disp[u].pc = "send", disp[u].job = j,
             disp'[t].pc = "send", disp'[t].job = j
      PROVE  FALSE
  <2>1. PICK a \in Agent, g \in Nat : g <= lockGen[a] /\ P!TakesFor(t, a, g)
    BY DEF P!Takes
  <2>2. u # t /\ disp'[u] = disp[u]
    BY <1>1, <1>4
  <2>3. P!Idle.pc # "send" /\ P!Waiting(a, g).pc # "send"
    BY DEF P!Idle, P!Waiting
  <2>4. /\ \E i, c : disp'[t] = P!Sending(a, g, i, c)
        /\ disp[u].agent # a \/ disp[u].gen # g
    BY <1>4, <2>1, <2>2, <2>3, Zenon DEF P!TakesFor
  <2>5. disp'[t].agent = a
    BY <2>4 DEF P!Sending
  <2>6. disp[u].agent = a
    BY <1>4, <2>2, <2>5 DEF Owning
  <2>7. lockGen[a] = 0 /\ disp[u].gen \in Nat
    BY DEF Whole, P!TypeOK, P!TaskState
  <2>8. disp[u].gen <= lockGen[a]
    BY <1>4, <2>6 DEF P!LockInv, P!LockSound
  <2>. QED
    BY <2>1, <2>4, <2>6, <2>7, <2>8
<1>. QED
  BY <1>1, <1>2, <1>3, <1>4 DEF Pledged, Newly, P!Sends

LEMMA AllowedGrows ==
    ASSUME Whole, Serving, Owning, Owning', P!TypeOK, P!TypeOK', P!KnownRows, P!LockInv,
           [P!Next]_(P!vars), NEW j \in Job,
           jobs[j].state # "ABSENT", jobs'[j].state \in P!LiveState
    PROVE  /\ Allowed(j) \in Nat /\ Allowed(j)' \in Nat
           /\ Allowed(j)' >= Allowed(j) + (IF Newly(j) THEN 1 ELSE 0)
<1>. DEFINE p == Pledged(j)
            p2 == Pledged(j)'
            x == jobs[j].attempts
            x2 == jobs'[j].attempts
<1>0. /\ Allowed(j) = x + restarts + p /\ Allowed(j)' = x2 + restarts' + p2
      /\ p \in {0, 1} /\ p2 \in {0, 1}
  BY DEF Allowed, Pledged
<1>1. P!Served \/ P!Inserted
  BY SameAssumptions, P!TableMoves
<1>2. x \in Nat /\ x2 \in Nat /\ x2 >= x
  BY <1>1, LivesOn
<1>3. restarts' \in Nat /\ restarts' >= restarts /\ restarts \in Nat
  BY RestartsGrow
<1>4. ASSUME NEW t \in P!Task, P!Takes(t) PROVE p2 >= p + (IF Newly(j) THEN 1 ELSE 0)
  BY <1>4, TakesPledges
<1>5. ASSUME NEW t \in P!Task, P!DispatchReturn(t)
      PROVE  ~Newly(j) /\ (p2 >= p \/ x2 = x + 1)
  <2>1. /\ disp[t].pc = "send" /\ disp'[t].pc = "idle"
        /\ \A u \in P!Task \ {t} : disp'[u] = disp[u]
    BY <1>5 DEF P!DispatchReturn, P!Idle, P!TypeOK
  <2>2. ~Newly(j)
    BY <2>1 DEF Newly
  <2>3. CASE disp[t].job # j
    <3>1. P!Sends(j) => P!Sends(j)'
      BY <2>1, <2>3 DEF P!Sends
    <3>. QED
      BY <2>2, <3>1 DEF Pledged
  <2>4. CASE disp[t].job = j
    <3>1. link[disp[t].conn] = "open"
      BY <2>1 DEF Serving
    <3>2. jobs' = [jobs EXCEPT ![j] = P!MarkDispatchedWithAttempt(@)]
      BY <1>5, <2>4, <3>1, Zenon DEF P!DispatchReturn
    <3>3. jobs[j].state \in {"PENDING"} \cup P!TerminalState
      BY <2>1, <2>4 DEF Serving
    <3>4. jobs[j].state \in P!LiveState
      BY <1>1, LivesOn
    <3>5. jobs[j].state = "PENDING"
      BY <3>3, <3>4 DEF P!LiveState, P!TerminalState
    <3>6. jobs'[j] = [jobs[j] EXCEPT !.state = "DISPATCHED", !.attempts = x + 1]
      BY <3>2, <3>5 DEF P!TypeOK, P!MarkDispatchedWithAttempt
    <3>. QED
      BY <2>2, <3>6 DEF P!TypeOK, P!JobRow
  <2>. QED
    BY <2>3, <2>4
<1>6. CASE P!Aside
  <2>1. disp' = disp
    BY <1>6 DEF P!Aside
  <2>2. p2 = p /\ ~Newly(j)
    BY <2>1 DEF Pledged, P!Sends, Newly
  <2>. QED
    BY <1>0, <1>2, <1>3, <2>2
<1>7. CASE P!Restart
  <2>1. restarts' = restarts + 1 /\ ~Newly(j)
    BY <1>7 DEF P!Restart, P!Reboot, P!Idle, Newly
  <2>. QED
    BY <1>0, <1>2, <1>3, <2>1
<1>8. \/ \E t \in P!Task : P!Takes(t) \/ P!DispatchReturn(t)
      \/ P!Aside \/ P!Restart
  BY SameAssumptions, P!LockMoves DEF P!LockInv
<1>9. CASE p2 >= p + (IF Newly(j) THEN 1 ELSE 0)
  BY <1>0, <1>2, <1>3, <1>9
<1>10. CASE ~Newly(j) /\ (p2 >= p \/ x2 = x + 1)
  BY <1>0, <1>2, <1>3, <1>10
<1>. HIDE DEF p, p2, x, x2
<1>. QED
  BY <1>4, <1>5, <1>6, <1>7, <1>8, <1>9, <1>10

(* Nothing was ever made of a job no client submitted. *)
LEMMA AbsentNone ==
    ASSUME Knowing, Addressed, P!SentRows, NEW a \in Agent, NEW j \in Job,
           jobs[j].state = "ABSENT"
    PROVE  IsFiniteSet(Executions(j)) /\ Total(a, j) = 0
<1>0. Nil \notin Job
  BY SystemAssumption, Zenon DEF S!ControlPlaneAssumption
<1>1. j \notin Known /\ j # Nil
  BY <1>0 DEF Known, P!SentRows
<1>2. Executions(j) = {}
  BY <1>1 DEF Knowing, Executions
<1>3. IsFiniteSet(Executions(j)) /\ Cardinality(Executions(j)) = 0
  BY <1>2, FS_EmptySet, Zenon
<1>4. Tries(a, j) = 0
  BY TriesNone DEF Mine
<1>. QED
  BY <1>3, <1>4 DEF Total

LEMMA FiniteStep ==
    ASSUME G!AgentInv, [Next]_vars, NEW j \in Job, IsFiniteSet(Executions(j))
    PROVE  IsFiniteSet(Executions(j)')
<1>0. G!Typed
  BY DEF G!AgentInv
<1>1. ASSUME \A c \in Container : docker'[c].job = docker[c].job
      PROVE  IsFiniteSet(Executions(j)')
  <2>1. Executions(j)' = Executions(j)
    BY <1>1 DEF Executions
  <2>. QED
    BY <2>1
<1>2. CASE Acts
  BY <1>0, <1>1, <1>2, LabelsKept, Creates
<1>3. CASE Carry \/ UNCHANGED agents
  <2>1. UNCHANGED docker
    BY <1>3, Zenon DEF Carry, A!Receive, agents
  <2>. QED
    BY <1>1, <2>1
<1>. QED
  BY <1>2, <1>3, AgentsAct

(* Executions and the orders in the owner's hands, against the budget.     *)
Bounded ==
    \A a \in Agent, j \in Job : j \in Mine(a) =>
        /\ Total(a, j) <= MaxAttempts + restarts
        /\ jobs[j].state \in P!LiveState => Total(a, j) <= Allowed(j)

BoundInv ==
    /\ \A j \in Job : IsFiniteSet(Executions(j))
    /\ Smooth => Whole /\ Serving /\ Bounded

(* An agent uses up orders as it makes containers. *)
LEMMA ActsBounded ==
    ASSUME Bounded, Addressed, G!AgentInv, Acts, UNCHANGED server, P!TypeOK,
           \A j \in Job : IsFiniteSet(Executions(j))
    PROVE  Bounded'
<1>. SUFFICES ASSUME NEW a \in Agent, NEW j \in Job, j \in Mine(a)'
              PROVE  /\ Total(a, j)' <= MaxAttempts + restarts'
                     /\ jobs'[j].state \in P!LiveState => Total(a, j)' <= Allowed(j)'
  BY DEF Bounded
<1>1. UNCHANGED <<jobs, restarts, disp>>
  BY DEF server
<1>2. j \in Mine(a) /\ Allowed(j)' = Allowed(j)
  BY <1>1 DEF Mine, Allowed, Pledged, P!Sends
<1>3. \A b \in Agent : main[b].pc = "start" /\ main[b].job = j => b = a
  BY <1>2 DEF Addressed, Mine
<1>4. Total(a, j)' \in Nat /\ Total(a, j)' <= Total(a, j)
  BY <1>3, ActsTotal
<1>5. Total(a, j) \in Nat
  <2>1. Cardinality(Executions(j)) \in Nat
    BY FS_CardinalityType
  <2>. QED
    BY <2>1, TriesNat DEF Total, G!AgentInv
<1>6. Allowed(j) \in Nat /\ restarts \in Nat /\ MaxAttempts \in Nat
  BY AllowedNat
<1>. QED
  BY <1>1, <1>2, <1>4, <1>5, <1>6 DEF Bounded

(* A task that starts to send keeps its job's executions within the budget:*)
(* there is an attempt left for it.                                        *)
LEMMA NewlySent ==
    ASSUME P!TypeOK, P!TypeOK', P!KnownRows, P!RetryBudget', P!LockInv, [P!Next]_(P!vars),
           NEW j \in Job, Newly(j)
    PROVE  /\ jobs'[j].state = "PENDING" /\ P!Sends(j)'
           /\ jobs'[j].attempts + 1 <= MaxAttempts
<1>1. PICK t \in P!Task : disp[t].pc # "send" /\ disp'[t].pc = "send" /\ disp'[t].job = j
  BY DEF Newly
<1>2. P!Sends(j)'
  BY <1>1 DEF P!Sends
<1>3. PICK u \in P!Task : P!Takes(u)
  <2>1. ASSUME NEW u \in P!Task, P!DispatchReturn(u) PROVE FALSE
    BY <1>1, <2>1 DEF P!DispatchReturn, P!Idle, P!TypeOK
  <2>2. ~P!Aside
    BY <1>1 DEF P!Aside
  <2>3. ~P!Restart
    BY <1>1 DEF P!Restart, P!Reboot, P!Idle
  <2>. QED
    BY <2>1, <2>2, <2>3, SameAssumptions, P!LockMoves DEF P!LockInv
<1>4. t = u
  BY <1>1, <1>3 DEF P!Takes
<1>5. PICK a \in Agent, g \in Nat : P!TakesFor(t, a, g)
  BY <1>3, <1>4 DEF P!Takes
<1>6. P!Idle.pc # "send" /\ P!Waiting(a, g).pc # "send"
  BY DEF P!Idle, P!Waiting
<1>7. \E i \in Job : \E c : jobs'[i].state = "PENDING" /\ disp'[t] = P!Sending(a, g, i, c)
  BY <1>1, <1>5, <1>6, Zenon DEF P!TakesFor
<1>8. jobs'[j].state = "PENDING"
  BY <1>1, <1>7 DEF P!Sending
<1>9. jobs'[j].attempts < MaxAttempts
  BY <1>8 DEF P!RetryBudget
<1>10. jobs'[j].attempts \in Nat /\ MaxAttempts \in Nat
  BY AllowedNat DEF P!TypeOK, P!JobRow
<1>. QED
  BY <1>2, <1>8, <1>9, <1>10

(* The server adds orders as it spends attempts and restarts. *)
LEMMA ServesBounded ==
    ASSUME Bounded, Whole, Serving, Knowing, Addressed, G!Typed, Carry \/ UNCHANGED agents,
           Owning, Owning', P!DInv, P!DInv', P!LockInv, [P!Next]_(P!vars),
           \A j \in Job : IsFiniteSet(Executions(j))
    PROVE  Bounded'
<1>. SUFFICES ASSUME NEW a \in Agent, NEW j \in Job, j \in Mine(a)'
              PROVE  /\ Total(a, j)' <= MaxAttempts + restarts'
                     /\ jobs'[j].state \in P!LiveState => Total(a, j)' <= Allowed(j)'
  BY DEF Bounded
<1>0. /\ P!TypeOK /\ P!TypeOK' /\ P!KnownRows /\ P!SentRows /\ P!RetryBudget'
  BY DEF P!DInv, P!IInv
<1>1. P!Served \/ P!Inserted
  BY <1>0, SameAssumptions, P!TableMoves
<1>2. /\ Total(a, j) \in Nat /\ Total(a, j)' \in Nat /\ Total(a, j)' <= Total(a, j) + 1
      /\ ~Newly(j) => Total(a, j)' = Total(a, j)
  BY CarryTotal
<1>3. /\ restarts \in Nat /\ restarts' \in Nat /\ restarts' >= restarts
      /\ Allowed(j) \in Nat /\ MaxAttempts \in Nat \ {0}
      /\ jobs'[j].attempts \in Nat
  BY <1>0, RestartsGrow, AllowedNat DEF P!TypeOK, P!JobRow
<1>4. Newly(j) => /\ jobs'[j].state \in P!LiveState
                  /\ Allowed(j)' = jobs'[j].attempts + restarts' + 1
                  /\ jobs'[j].attempts + 1 <= MaxAttempts
  BY <1>0, NewlySent DEF Allowed, Pledged, P!LiveState
<1>5. CASE jobs[j].state = "ABSENT"
  <2>1. Total(a, j) = 0
    BY <1>0, <1>5, AbsentNone
  <2>2. Allowed(j)' \in Nat
    BY <1>3 DEF Allowed, Pledged
  <2>3. CASE Newly(j)
    BY <1>2, <1>3, <1>4, <2>1, <2>3
  <2>4. CASE ~Newly(j)
    <3>1. Total(a, j)' = 0
      BY <1>2, <2>1, <2>4
    <3>2. 0 <= MaxAttempts + restarts' /\ 0 <= Allowed(j)'
      BY <1>3, <2>2
    <3>. QED
      BY <3>1, <3>2
  <2>. QED
    BY <2>3, <2>4
<1>6. CASE jobs[j].state # "ABSENT"
  <2>1. j \in Mine(a)
    BY <1>0, <1>1, <1>6, SameAssumptions, P!RowsStay DEF Mine
  <2>2. Total(a, j) <= MaxAttempts + restarts
    BY <2>1 DEF Bounded
  <2>3. jobs'[j].state \in P!LiveState =>
            /\ Total(a, j) <= Allowed(j) /\ Allowed(j)' \in Nat
            /\ Allowed(j)' >= Allowed(j) + (IF Newly(j) THEN 1 ELSE 0)
    BY <1>0, <1>1, <1>6, <2>1, AllowedGrows, LivesOn DEF Bounded
  <2>4. CASE Newly(j)
    BY <1>2, <1>3, <1>4, <2>3, <2>4
  <2>5. CASE ~Newly(j)
    BY <1>2, <1>3, <2>2, <2>3, <2>5
  <2>. QED
    BY <2>4, <2>5
<1>. QED
  BY <1>5, <1>6

LEMMA BoundStep ==
    ASSUME BoundInv, Addressed, SystemInv, SystemInv', P!LockInv, P!LockInv',
           [Next]_vars, [P!Next]_(P!vars)
    PROVE  BoundInv'
<1>1. /\ Admissible /\ P!DInv /\ P!DInv' /\ P!TypeOK /\ P!TypeOK' /\ P!KnownRows
      /\ G!AgentInv /\ G!Typed /\ Knowing
  BY DEF SystemInv, P!DInv, P!IInv, G!SettledInv, G!AgentInv
<1>2. \A j \in Job : IsFiniteSet(Executions(j)) /\ IsFiniteSet(Executions(j)')
  BY <1>1, FiniteStep DEF BoundInv
<1>3. ASSUME Smooth' PROVE Whole' /\ Serving' /\ Bounded'
  <2>1. Whole /\ Serving /\ Bounded
    BY <1>3, TroubleLasts DEF BoundInv, Smooth
  <2>2. Owning /\ Owning'
    BY <1>1, Owned, OwnedNext
  <2>3. Whole' /\ (Restart \/ UNCHANGED <<link, lockGen>>)
    BY <1>1, <1>3, <2>1, WholeStep
  <2>4. Serving'
    BY <1>1, <2>1, <2>2, <2>3, ServingStep
  <2>5. CASE Acts /\ UNCHANGED server
    BY <1>1, <1>2, <2>1, <2>3, <2>4, <2>5, ActsBounded
  <2>6. CASE Carry \/ UNCHANGED agents
    BY <1>1, <1>2, <2>1, <2>2, <2>3, <2>4, <2>6, ServesBounded
  <2>. QED
    BY <2>5, <2>6, AgentsAct
<1>. QED
  BY <1>2, <1>3 DEF BoundInv

LEMMA BoundInit == Init => Named /\ Addressed /\ BoundInv
<1>. SUFFICES ASSUME Init PROVE Named /\ Addressed /\ BoundInv
  OBVIOUS
<1>0. Nil \notin Conn /\ Nil \notin Job
  BY SystemAssumption, Zenon DEF S!ControlPlaneAssumption
<1>1. /\ \A c \in Conn : up[c] = <<>> /\ who[c] = Nil /\ link[c] = "open"
      /\ \A a \in Agent : wire[a] = Nil /\ lockGen[a] = 0
      /\ \A j \in Job : jobs[j].state = "ABSENT"
      /\ \A t \in P!Task : disp[t].pc = "idle"
      /\ cut = {}
  BY DEF Init, S!Init, S!NoRow, S!Task, P!Task, S!Idle
<1>2. /\ \A c \in Container : docker[c].job = Nil
      /\ \A a \in Agent : inbox[a] = <<>> /\ main[a].pc \notin {"start", "launch"}
  BY DEF Init, A!Init, A!Off
<1>3. Named
  BY <1>0, <1>1 DEF Named
<1>4. Addressed
  BY <1>2, NoOrder DEF Addressed
<1>5. \A j \in Job : Executions(j) = {}
  BY <1>0, <1>2 DEF Executions
<1>6. \A j \in Job : IsFiniteSet(Executions(j))
  BY <1>5, FS_EmptySet, Zenon
<1>7. Whole /\ Serving /\ Bounded
  BY <1>1 DEF Whole, Serving, Bounded, Mine
<1>. QED
  BY <1>3, <1>4, <1>6, <1>7 DEF BoundInv

LEMMA BoundMeans ==
    ASSUME BoundInv, SystemInv, Addressed
    PROVE  ExecutionBound
<1>1. P!TypeOK /\ P!KnownRows /\ P!SentRows /\ G!Typed /\ Knowing
  BY DEF SystemInv, P!DInv, P!IInv, G!SettledInv, G!AgentInv
<1>2. ASSUME NEW j \in Job, Smooth
      PROVE  Cardinality(Executions(j)) <= MaxAttempts + restarts
  <2>1. IsFiniteSet(Executions(j)) /\ Bounded
    BY <1>2 DEF BoundInv
  <2>2. /\ Cardinality(Executions(j)) \in Nat
        /\ restarts \in Nat /\ MaxAttempts \in Nat
    BY <1>1, <2>1, FS_CardinalityType, AllowedNat
  <2>3. CASE jobs[j].state = "ABSENT"
    <3>1. j \notin Known
      BY <1>1, <2>3 DEF Known, P!SentRows
    <3>2. Nil \notin Job
      BY SystemAssumption, Zenon DEF S!ControlPlaneAssumption
    <3>3. Executions(j) = {}
      BY <1>1, <3>1, <3>2 DEF Knowing, Executions
    <3>4. Cardinality(Executions(j)) = 0
      BY <3>3, FS_EmptySet, Zenon
    <3>. QED
      BY <2>2, <3>4
  <2>4. CASE jobs[j].state # "ABSENT"
    <3>1. PICK a \in Agent : j \in Mine(a)
      BY <1>1, <2>4 DEF P!KnownRows, Mine
    <3>2. Total(a, j) <= MaxAttempts + restarts
      BY <2>1, <3>1 DEF Bounded
    <3>3. Tries(a, j) \in Nat
      BY <1>1, TriesNat
    <3>. QED
      BY <2>2, <3>2, <3>3 DEF Total
  <2>. QED
    BY <2>3, <2>4
<1>. QED
  BY <1>2 DEF ExecutionBound, Smooth

(* How often a job is executed, for any number of jobs, agents, attempts   *)
(* and restarts: while no agent crashes and no connection breaks, at most  *)
(* one container per attempt and one more per restart of the server is     *)
(* ever created for it, whatever ack timeouts, cancels, late heartbeats,   *)
(* overtaking answers and failing calls into Docker do meanwhile.          *)
THEOREM ExecutionsBounded == Spec => []ExecutionBound
<1>. DEFINE Inv == SystemInv /\ Fresh /\ P!LockInv /\ Named /\ Addressed /\ BoundInv
<1>1. Init => Inv
  <2>1. Init => P!Init
    BY SystemInit
  <2>. QED
    BY <2>1, SystemInvInit, HeldInvInit, SameAssumptions, P!InitLockInv, BoundInit
<1>2. Inv /\ [Next]_vars => Inv'
  <2>. SUFFICES ASSUME SystemInv, Fresh, P!LockInv, Named, Addressed, BoundInv, [Next]_vars
                PROVE  Inv'
    OBVIOUS
  <2>1. /\ Admissible /\ P!TypeOK /\ P!KnownRows /\ P!Registered
        /\ G!AgentInv /\ Wires /\ Wired
    BY DEF SystemInv, P!DInv, P!IInv, G!SettledInv
  <2>2. SystemInv' /\ [P!Next]_(P!vars) /\ Fresh'
    BY <2>1, SystemInvStep, SystemStep, FreshStep
  <2>3. P!LockInv'
    <3>1. P!TypeOK'
      BY <2>2 DEF SystemInv, P!DInv, P!IInv
    <3>. QED
      BY <2>1, <2>2, <3>1, SameAssumptions, P!LockInvStep
  <2>4. Named' /\ Addressed'
    BY <2>1, <2>2, NamedStep, AddressedStep
  <2>5. BoundInv'
    BY <2>2, <2>3, BoundStep
  <2>. QED
    BY <2>2, <2>3, <2>4, <2>5
<1>3. Inv => ExecutionBound
  BY BoundMeans
<1>. QED
  BY <1>1, <1>2, <1>3, PTL DEF Spec
=============================================================================
