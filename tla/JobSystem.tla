----------------------------- MODULE JobSystem -----------------------------
(***************************************************************************)
(* The whole system: the server of ControlPlane and the agents of          *)
(* AgentRuntime, joined by the WebSockets between them.  Each component    *)
(* was modelled against an open environment; here the other component is   *)
(* the environment, so what one side reads is what the other side wrote.   *)
(*                                                                         *)
(* A connection carries messages in order and without loss until it is     *)
(* cut.  Either side goes on writing to a cut connection until it notices, *)
(* and what it writes then is lost.  Of the messages an agent sends, ack,  *)
(* reconcile and heartbeat change nothing the server reads again; log is   *)
(* the subject of LogPipeline.                                             *)
(***************************************************************************)
EXTENDS Naturals, Sequences, FiniteSets

CONSTANTS
    Agent, Job, Nil, Key, Priority, Report, AckTask, MaxAttempts, MaxRestarts,
    Conn, Container,     \* numbers: taken in order
    Fault, MaxCrashes, MaxFaults,
    ExitReport,          \* what _send_result makes of exit codes
    CancelIn,            \* the states in which clients cancel a job
    Trouble,             \* the kinds of trouble that happen: see "trouble"
    MaxTrouble           \* bound: how many kinds happen in one behaviour

VARIABLES
    \* the server: ControlPlane
    jobs, clock, registry, inflight, who, link, lockGen, disp, sent,
    ackDue, expired, firing, cancelling, restarts,
    \* the agents: AgentRuntime
    docker, socket, inbox, session, main, runs, running, reported, used,
    \* between them
    wire,       \* the connection each agent uses
    up,         \* per connection: written by the agent, not yet read by the server
    cut,        \* connections that carry nothing any more
    trouble     \* what went wrong so far.  "restart": of the server; "crash": of
                \* an agent; "fault": a call into Docker raised; "cut": a
                \* connection broke otherwise; "overtaken": an answer was read
                \* before ws.send returned; "late": a heartbeat, and the
                \* HeartbeatWatcher unregistered its agent

S == INSTANCE ControlPlane

A == INSTANCE AgentRuntime WITH
        link <- socket, MaxJobs <- 0, MaxCancels <- 0, MaxBreaks <- Cardinality(Conn),
        MaxEvents <- Cardinality(Conn) + MaxCrashes + MaxFaults

ASSUME SystemAssumption ==
    /\ S!StoreAssumption /\ S!ControlPlaneAssumption /\ A!RuntimeAssumption
    /\ Conn \cup Container \subseteq Nat
    /\ ExitReport \subseteq {"exit 0", "error"}
    /\ ExitReport \cup {"error"} \subseteq Report
    /\ Trouble \subseteq {"restart", "crash", "cut", "overtaken", "late", "fault"}
    /\ MaxTrouble \in Nat

server  == <<jobs, clock, registry, inflight, who, link, lockGen, disp, sent,
             ackDue, expired, firing, cancelling, restarts>>
agents  == <<docker, socket, inbox, session, main, runs, running, reported, used>>
between == <<wire, up, cut, trouble>>
vars    == <<server, agents, between>>

Init ==
    /\ S!Init
    /\ A!Init
    /\ wire = [a \in Agent |-> Nil]
    /\ up = [c \in Conn |-> <<>>]
    /\ cut = {}
    /\ trouble = {}

(* Bound: MaxTrouble kinds of trouble, each as often as MaxRestarts,       *)
(* MaxCrashes, MaxFaults, Conn and the messages on the way allow.          *)
MayHappen(kind) ==
    kind \in Trouble /\ Cardinality(trouble \cup {kind}) <= MaxTrouble

Happens(kind) == MayHappen(kind) /\ trouble' = trouble \cup {kind}

-----------------------------------------------------------------------------
(* The server's side.                                                      *)

(* What a step of the server writes: the connection and the message. *)
Written ==
    {<<disp'[t].conn, "job", disp'[t].job>> :
        t \in {u \in S!Task : disp'[u].pc = "send" /\ disp[u].pc # "send"}}
    \cup
    {<<registry[jobs[j].agent], "cancel", j>> :
        j \in (cancelling' \ cancelling) \cup ({firing'} \ {firing, Nil})}

(* The agent finds it in its socket, unless the connection is cut. *)
Carry ==
    LET arrives(a, m) == wire[a] = m[1] /\ m[1] \notin cut
    IN  \/ \E a \in Agent, m \in Written :
              arrives(a, m) /\ A!Receive(a, m[2], m[3]) /\ UNCHANGED used
        \/ /\ \A a \in Agent, m \in Written : ~arrives(a, m)
           /\ UNCHANGED agents

(* A step of the server that reads no message. *)
Server(step) == step /\ Carry /\ UNCHANGED between

(* A connection's handler takes the next message. *)
Handle(c) ==
    /\ S!Calm /\ up[c] # <<>>
    /\ LET m == Head(up[c])
       IN  CASE m.type = "register" -> S!Register(c, m.agent)
             [] m.type = "started"  -> S!Started(c, m.job)
             [] m.type = "result"   -> S!Result(c, m.job, m.report)
    /\ IF \E t \in S!Task : disp[t].conn = c THEN Happens("overtaken")
       ELSE UNCHANGED trouble
    /\ Carry
    /\ up' = [up EXCEPT ![c] = Tail(@)]
    /\ UNCHANGED <<wire, cut>>

(* The handler learns that the connection is gone, and ends once it has    *)
(* read what was buffered.                                                 *)
NoticeLoss(c) ==
    \/ c \in cut /\ Server(S!Calm /\ S!Lose(c))
    \/ up[c] = <<>> /\ Server(S!Calm /\ S!HandlerEnd(c))

HeartbeatLate ==
    /\ S!Calm /\ \E X \in SUBSET Agent : S!HeartbeatScan(X)
    /\ Happens("late")
    /\ UNCHANGED <<agents, wire, up, cut>>

Restart ==
    /\ S!Restart /\ Happens("restart")
    /\ cut' = cut \cup ({wire[a] : a \in Agent} \ {Nil})
    /\ up' = [c \in Conn |-> <<>>]
    /\ UNCHANGED <<agents, wire>>

-----------------------------------------------------------------------------
(* The agents' side.                                                       *)

(* A step of agent a that sends the messages.  A send that raises sends    *)
(* nothing: the connection is cut then.  A step that ends the session      *)
(* closes the connection, which is trouble of its own if it was not cut.   *)
AgentSends(step, a, messages) ==
    LET ends == socket'[a] = "down" /\ wire[a] # Nil
    IN  /\ step
        /\ up' = [c \in Conn |-> IF c = wire[a] /\ c \notin cut THEN up[c] \o messages
                                 ELSE up[c]]
        /\ wire' = IF ends THEN [wire EXCEPT ![a] = Nil] ELSE wire
        /\ cut' = IF ends THEN cut \cup {wire[a]} ELSE cut
        /\ used' # used => MayHappen("fault")
        /\ trouble' = trouble \cup {"cut" : c \in cut' \ cut}
                             \cup {"fault" : u \in {used'} \ {used}}
        /\ UNCHANGED server

StartedMessage(j) == <<[type |-> "started", job |-> j]>>

ResultMessage(j, report) == <<[type |-> "result", job |-> j, report |-> report]>>

Unused(c) == c \notin cut /\ \A a \in Agent : wire[a] # c

Connect(a) ==
    \E c \in Conn :
        /\ Unused(c) /\ \A d \in Conn : Unused(d) => c <= d
        /\ A!Connect(a)
        /\ wire' = [wire EXCEPT ![a] = c]
        /\ up' = [up EXCEPT ![c] = <<[type |-> "register", agent |-> a]>>]
        /\ UNCHANGED <<server, cut, trouble>>

(* Containers are numbered as they are created. *)
CreateContainer(a) ==
    /\ A!CreateContainer(a)
    /\ \A c \in Container : docker[c].state = "none" => main'[a].container <= c

ReconcileStep(a) ==
    \/ A!List(a) \/ A!ListFails(a) \/ A!ReconcileNext(a) \/ A!Inspect(a)
    \/ A!Discard(a) \/ A!ReconcileDone(a)

ListenStep(a) == A!OnCancel(a) \/ A!EndListen(a) \/ CreateContainer(a)

(* Mutant: "started" is sent when the job is accepted. *)
AcceptAsStarted(a) ==
    AgentSends(A!OnJob(a), a, StartedMessage(Head(inbox[a]).job))

(* _on_job accepts the next job message. *)
Accept(a) == AgentSends(A!OnJob(a), a, <<>>)

(* Mutant: a start that fails is logged and not reported. *)
StartFailsSilently(a) == AgentSends(A!StartFails(a), a, <<>>)

(* containers.run raises: the error is the result. *)
StartFails(a) == AgentSends(A!StartFails(a), a, ResultMessage(main[a].job, "error"))

(* The task of run(). *)
Main(a) ==
    \/ Connect(a)
    \/ Accept(a)
    \/ StartFails(a)
    \/ AgentSends(ReconcileStep(a) \/ ListenStep(a), a, <<>>)
    \/ AgentSends(A!Launch(a), a, StartedMessage(main[a].job))
    \/ \E report \in ExitReport :
          AgentSends(A!ReportExited(a), a,
                     ResultMessage(docker[main[a].container].job, report))

(* Mutant: a task logs its result and does not send it. *)
WaitSilently(a, c) ==
    \E r \in runs :
        /\ r.agent = a /\ r.container = c
        /\ AgentSends(A!Collect(r) \/ A!Remove(r) \/ A!WaitFails(r) \/ A!SendResult(r),
                      a, <<>>)

(* A task that waits for container c. *)
Wait(a, c) ==
    \E r \in runs :
        /\ r.agent = a /\ r.container = c
        /\ \/ AgentSends(A!Collect(r) \/ A!Remove(r) \/ A!WaitFails(r), a, <<>>)
           \/ \E report \in ExitReport :
                 AgentSends(A!SendResult(r), a,
                            IF r.session = session[a]
                            THEN ResultMessage(docker[c].job, report) ELSE <<>>)

Exit(c) == A!Exit(c) /\ UNCHANGED <<server, between>>

(* The agent's side of a cut connection finds out. *)
NoticeBreak(a) ==
    wire[a] \in cut /\ A!Break(a) /\ UNCHANGED <<server, between>>

Crash(a) ==
    /\ A!Crash(a)
    /\ Happens("crash")
    /\ wire' = [wire EXCEPT ![a] = Nil]
    /\ cut' = cut \cup ({wire[a]} \ {Nil})
    /\ UNCHANGED <<server, up>>

(* Bound: the last connection of the model stays. *)
Cut(c) ==
    /\ c \notin cut /\ \E a \in Agent : wire[a] = c
    /\ \E d \in Conn : Unused(d)
    /\ cut' = cut \cup {c}
    /\ Happens("cut")
    /\ UNCHANGED <<server, agents, wire, up>>

-----------------------------------------------------------------------------
(* What the server does by itself. *)
ServerRuns ==
    \/ Server(S!AckNext \/ S!TimeoutNext)
    \/ \E t \in S!Task : Server(S!Calm /\ (S!DispatchResume(t) \/ S!DispatchReturn(t)))
    \/ \E j \in Job : Server(S!Calm /\ S!CancelReturn(j))
    \/ \E X \in SUBSET Job : Server(S!Calm /\ (S!AckScan(X) \/ S!TimeoutScan(X)))
    \/ Server(S!Calm /\ S!TimeoutReturn)
    \/ \E c \in Conn : Handle(c) \/ NoticeLoss(c)

(* What the agents do by themselves. *)
AgentsRun ==
    \/ \E a \in Agent : Main(a) \/ NoticeBreak(a)
    \/ \E a \in Agent, c \in Container : Wait(a, c)

(* Clients and accidents. *)
Environment ==
    \/ \E j \in Job : Server(S!Calm /\
            ((jobs[j].state \in CancelIn /\ S!CancelRequest(j))
             \/ \E a \in Agent, p \in Priority, k \in Key \cup {Nil} : S!Submit(j, a, p, k)))
    \/ HeartbeatLate
    \/ Restart
    \/ \E a \in Agent : Crash(a)
    \/ \E c \in Conn : Cut(c)

Next == ServerRuns \/ AgentsRun \/ (\E c \in Container : Exit(c)) \/ Environment

Spec == Init /\ [][Next]_vars

(* The system does not stop while the server, an agent or a container can  *)
(* go on.  Nothing is assumed about which of them does, or by what step.   *)
Fairness == WF_vars(ServerRuns \/ AgentsRun \/ \E c \in Container : Exit(c))

FairSpec == Spec /\ Fairness

-----------------------------------------------------------------------------
(* Types; an agent has a wire of its own exactly while it has a socket;    *)
(* and what the agents write is what ControlPlane admits of them.          *)
TypeOK ==
    /\ S!TypeOK /\ A!TypeOK
    /\ wire \in [Agent -> Conn \cup {Nil}]
    /\ \A a \in Agent :
          /\ wire[a] = Nil <=> socket[a] = "down"
          /\ socket[a] = "broken" => wire[a] \in cut
          /\ \A b \in Agent : wire[a] = wire[b] /\ wire[a] # Nil => a = b
    /\ \A c \in Conn : \A i \in 1 .. Len(up[c]) :
          IF up[c][i].type = "register" THEN i = 1 /\ up[c][i].agent \in Agent
          ELSE up[c][i].job \in S!EverSent
    /\ cut \subseteq Conn
    /\ trouble \subseteq Trouble \cup {"cut"}

Executions(j) == {c \in Container : docker[c].job = j}

Launched(j) == {c \in Executions(j) : docker[c].state # "created"}

(* How often a job is executed: one container per attempt, and one more    *)
(* for each restart of the server, which may forget an attempt that is on  *)
(* the wire; whatever the ack timeout, cancels, late heartbeats, answers   *)
(* that overtake ws.send and failing calls into Docker do meanwhile.  (A   *)
(* send on a connection that breaks is not counted, though the job may     *)
(* have arrived.)                                                          *)
ExecutionBound ==
    \A j \in Job : trouble \cap {"crash", "cut"} = {} =>
        Cardinality(Executions(j)) <= MaxAttempts + restarts

(* The table tells the truth about Docker, whatever goes wrong: a job that *)
(* was started has a container that was, and a job that succeeded has one  *)
(* whose end an agent reported.                                            *)
TableTellsTruth ==
    \A j \in Job :
        /\ jobs[j].started => Launched(j) # {}
        /\ jobs[j].state = "SUCCEEDED" => Executions(j) \cap reported # {}

(* No job is RUNNING for nothing: while agents and connections stay up,    *)
(* the handler that started it waits for its container, or its result is   *)
(* on the way, however late heartbeats are, whatever overtakes what,       *)
(* whichever other tasks wait for the container too, and though a call     *)
(* into Docker fails.                                                      *)
RunningIsHeld ==
    \A j \in Job :
        jobs[j].state = "RUNNING" /\ trouble \cap {"restart", "crash", "cut"} = {} =>
            \/ \E r \in runs : r.handler /\ r.container \in Executions(j)
            \/ \E c \in Conn : \E i \in 1 .. Len(up[c]) :
                  up[c][i].type = "result" /\ up[c][i].job = j

(* The agent has a job to read, to start or to wait for, or its result is  *)
(* on the way.                                                             *)
Busy(a) ==
    \/ main[a].pc \in {"start", "launch", "wait"}
    \/ \E i \in 1 .. Len(inbox[a]) : inbox[a][i].type = "job"
    \/ \E i \in 1 .. Len(up[wire[a]]) : up[wire[a]][i].type = "result"

(* No slot leaks: while the server takes an agent's live connection for    *)
(* busy, the agent has a job in hand or its result is on the way, through  *)
(* failing starts, requeues, give-ups, restarts of either side and late    *)
(* heartbeats.  (A result that overtakes the return of ws.send does leak   *)
(* the slot: the handler frees it before dispatch_pending takes it.)       *)
SlotHeld ==
    \A a \in Agent :
       LET c == wire[a]
       IN  c # Nil /\ registry[a] = c /\ inflight[c] > 0 /\ c \notin cut
           /\ "overtaken" \notin trouble => Busy(a)

(* Every job ends, if connections, agents and heartbeats last, though the  *)
(* server restarts or a call into Docker fails, and however requests,      *)
(* watchers and messages interleave.                                       *)
EveryJobEnds ==
    \A j \in Job : jobs[j].state \in S!LiveState
        ~> S!IsTerminal(jobs[j].state) \/ trouble \ {"restart", "fault"} # {}

(* Containers that ended are removed, whatever goes wrong but a failing    *)
(* listing or removal, or a start that raises though the container runs:   *)
(* every agent comes back and reconciles.                                  *)
ContainersGo ==
    (\E c \in Container : docker[c].state = "exited")
        ~> \/ \A c \in Container : docker[c].state # "exited"
           \/ used.failed \cap {"answer", "list", "remove"} # {}

(* README.md, "Failure Model": "Duplicate delivery | Idempotency prevents  *)
(* double execution".  So a job runs once, if nothing goes wrong at least. *)
ExecutedOnce ==
    \A j \in Job : trouble = {} => Cardinality(Launched(j)) <= 1
=============================================================================
