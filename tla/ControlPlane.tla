---------------------------- MODULE ControlPlane ----------------------------
(***************************************************************************)
(* The server of the job system: HTTP API, agent gateway, agent registry,  *)
(* and the three watchers, all coroutines of ONE asyncio thread over the   *)
(* SQLite job table.                                                       *)
(*                                                                         *)
(* A coroutine runs undisturbed from one await to the next, so an action   *)
(* is such a segment: the code from a resumption to the next suspension.   *)
(* The suspensions that matter are the per-agent dispatch lock and         *)
(* ws.send, both inside dispatch_pending, and ws.send inside send_cancel.  *)
(*                                                                         *)
(* The agents and the network are the environment.  Once a job was written *)
(* to any socket, any registered connection may report anything about it,  *)
(* at any time and any number of times: that covers late, duplicated and   *)
(* reordered messages, agents that restart and reconcile, and agents that  *)
(* share a Docker daemon and see each other's containers.                  *)
(*                                                                         *)
(* Time is abstracted: an age, a timeout or a heartbeat deadline may have  *)
(* passed at any moment.                                                   *)
(***************************************************************************)
EXTENDS JobStore, FiniteSets

CONSTANTS
    Job,           \* job ids; also the HTTP requests that would create them
    Conn,          \* WebSocket connections, each used once
    Report,        \* the kinds of result messages agents send
    AckTask,       \* the AckWatcher's coroutine
    MaxAttempts,   \* max_dispatch_attempts of the AckWatcher
    MaxRestarts    \* bound: how often the server process may restart

ASSUME ControlPlaneAssumption ==
    /\ MaxAttempts \in Nat \ {0}
    /\ MaxRestarts \in Nat
    /\ Report \subseteq {"error", "exit 0", "exit 1"}
    /\ Job \cap Conn = {}
    /\ AckTask \notin Job \cup Conn
    /\ Nil \notin Job \cup Conn

(* The coroutines that call dispatch_pending: a connection's handler, an   *)
(* HTTP submit, the AckWatcher.                                            *)
Task == Conn \cup Job \cup {AckTask}

VARIABLES
    jobs,         \* the job table (survives a restart)
    clock,        \* created_at of the next insertion
    registry,     \* AgentRegistry._agents: agent id -> connection
    inflight,     \* AgentConnection.in_flight of each connection
    who,          \* the agent_id local of each connection's handler
    link,         \* each connection: "open" (or yet to come), "lost", "ended"
    lockGen,      \* which asyncio.Lock object _dispatch_locks holds, by agent
    disp,         \* where each task is inside dispatch_pending
    sent,         \* history: the jobs written to each connection
    ackDue,       \* AckWatcher: attempts of the rows its scan has yet to handle
    expired,      \* TimeoutWatcher: rows its scan has yet to handle
    firing,       \* TimeoutWatcher: the job whose cancel it is sending
    cancelling,   \* jobs whose HTTP cancel is sending its message
    restarts      \* restarts so far

gateway  == <<registry, inflight, who, link, lockGen>>
dispatch == <<disp, sent>>
watchers == <<ackDue, expired, firing, cancelling>>
vars     == <<jobs, clock, gateway, dispatch, watchers, restarts>>

Idle == [pc |-> "idle", agent |-> Nil, gen |-> 0, job |-> Nil, conn |-> Nil]

Waiting(a, g) ==
    [pc |-> "lock", agent |-> a, gen |-> g, job |-> Nil, conn |-> Nil]

Sending(a, g, j, c) ==
    [pc |-> "send", agent |-> a, gen |-> g, job |-> j, conn |-> c]

Init ==
    /\ jobs = [j \in Job |-> NoRow]
    /\ clock = 1
    /\ registry = [a \in Agent |-> Nil]
    /\ inflight = [c \in Conn |-> 0]
    /\ who = [c \in Conn |-> Nil]
    /\ link = [c \in Conn |-> "open"]
    /\ lockGen = [a \in Agent |-> 0]
    /\ disp = [t \in Task |-> Idle]
    /\ sent = [c \in Conn |-> {}]
    /\ ackDue = [j \in Job |-> 0]
    /\ expired = {}
    /\ firing = Nil
    /\ cancelling = {}
    /\ restarts = 0

-----------------------------------------------------------------------------
(* gateway.dispatch_pending, up to its next suspension.                    *)

(* Mutant: the query forgets the agent. *)
PendingOfAll(table, a) == {j \in Job : table[j].state = "PENDING" /\ a # Nil}

(* repository.list(agent_id, state = PENDING) *)
Pending(table, a) == {j \in Job : table[j].state = "PENDING" /\ table[j].agent = a}

(* Mutant: newest first, the order the repository lists rows in. *)
BeforeNewest(table, i, j) ==
    \/ table[i].priority < table[j].priority
    \/ /\ table[i].priority = table[j].priority
       /\ table[i].created > table[j].created

(* sorted(pending, key = (priority, created_at))[0] *)
Before(table, i, j) ==
    \/ table[i].priority < table[j].priority
    \/ /\ table[i].priority = table[j].priority
       /\ table[i].created < table[j].created

(* The first of the sorted list; created_at makes it unique. *)
IsNext(table, a, j) ==
    /\ j \in Pending(table, a)
    /\ \A i \in Pending(table, a) : ~Before(table, i, j)

(* The body under the lock: nothing to do, or a failing send, ends the     *)
(* call; otherwise the job is on the wire and the task awaits ws.send.     *)
Attempt(t, a, g) ==
    LET c     == registry'[a]
        ready == /\ c # Nil
                 /\ inflight'[c] = 0
                 /\ Pending(jobs', a) # {}
                 /\ link[c] = "open"
    IN  \/ /\ ready
           /\ \E j \in Job :
                  /\ IsNext(jobs', a, j)
                  /\ disp' = [disp EXCEPT ![t] = Sending(a, g, j, c)]
                  /\ sent' = [sent EXCEPT ![c] = @ \cup {j}]
        \/ /\ ~ready
           /\ disp' = [disp EXCEPT ![t] = Idle]
           /\ UNCHANGED sent

(* Mutant: no dispatch lock. *)
LockNever(a, g) == a = Nil /\ g = 0

(* Someone holds, or queues for, the lock object g of agent a. *)
LockBusy(a, g) == \E t \in Task : disp[t].agent = a /\ disp[t].gen = g

(* Mutant: a call that finds the lock taken gives up. *)
EnterDispatchTry(t, a) ==
    IF LockBusy(a, lockGen[a]) THEN UNCHANGED dispatch
    ELSE Attempt(t, a, lockGen[a])

(* "async with self._lock_for(agent_id)": the lock object is looked up now; *)
(* a task that has to wait keeps waiting for that object.                  *)
EnterDispatch(t, a) ==
    IF LockBusy(a, lockGen[a])
    THEN disp' = [disp EXCEPT ![t] = Waiting(a, lockGen[a])] /\ UNCHANGED sent
    ELSE Attempt(t, a, lockGen[a])

(* A released lock wakes a task that waits for it. *)
DispatchResume(t) ==
    /\ disp[t].pc = "lock"
    /\ \A u \in Task : disp[u].pc = "send" =>
           <<disp[u].agent, disp[u].gen>> # <<disp[t].agent, disp[t].gen>>
    /\ UNCHANGED <<jobs, clock, gateway, watchers, restarts>>
    /\ Attempt(t, disp[t].agent, disp[t].gen)

(* ws.send returns.  It may have failed if the socket closed meanwhile;    *)
(* otherwise the connection OBJECT seen before the await becomes busy, and *)
(* the row is DISPATCHED unless it left PENDING during the await.          *)
DispatchReturn(t) ==
    /\ disp[t].pc = "send"
    /\ LET c == disp[t].conn
           j == disp[t].job
       IN  \/ /\ link[c] # "open"
              /\ UNCHANGED <<jobs, inflight>>
           \/ /\ inflight' = [inflight EXCEPT ![c] = @ + 1]
              /\ jobs' = [jobs EXCEPT ![j] = MarkDispatchedWithAttempt(@)]
    /\ disp' = [disp EXCEPT ![t] = Idle]
    /\ UNCHANGED <<clock, registry, who, link, lockGen, sent, watchers, restarts>>

-----------------------------------------------------------------------------
(* Connections: gateway._handle_connection and the message handlers.  The  *)
(* handler of a connection takes the next message only when it is not      *)
(* suspended; buffered messages are still handled after the link is lost.  *)

Listening(c) == link[c] # "ended" /\ disp[c].pc = "idle"

Handles(c) == Listening(c) /\ who[c] # Nil

(* The agent was sent the job, or finds its container: see the head. *)
EverSent == UNION {sent[c] : c \in Conn}

(* _on_register; a connection registers once. *)
Register(c, a) ==
    /\ Listening(c) /\ who[c] = Nil
    /\ registry' = [registry EXCEPT ![a] = c]
    /\ who' = [who EXCEPT ![c] = a]
    /\ UNCHANGED <<jobs, clock, inflight, link, lockGen, watchers, restarts>>
    /\ EnterDispatch(c, a)

(* _on_started *)
Started(c, j) ==
    /\ Handles(c) /\ j \in EverSent
    /\ jobs' = [jobs EXCEPT ![j] = MarkRunning(@)]
    /\ UNCHANGED <<clock, gateway, dispatch, watchers, restarts>>

(* The branches on what an agent reports: an error text, with which agents *)
(* send no exit code 0, or an exit code.                                   *)
Complete(row, report) ==
    CASE report = "error"   -> MarkFailed(row, 1, "reported")
      [] report = "exit 0"  -> MarkSucceeded(row, 0)
      [] report = "exit 1"  -> MarkFailed(row, 1, Nil)

(* Mutant: mark_free without max(0, ...). *)
FreeSlotUnclamped(c) ==
    IF c = Nil THEN inflight ELSE [inflight EXCEPT ![c] = @ - 1]

(* agent.mark_free of the connection registered NOW for the handler's agent *)
FreeSlot(c) ==
    IF c = Nil THEN inflight
    ELSE [inflight EXCEPT ![c] = IF @ > 0 THEN @ - 1 ELSE 0]

(* Mutant: a result frees the slot but does not dispatch the next job. *)
ResultOnly(c, j, report) ==
    /\ Handles(c) /\ j \in EverSent
    /\ jobs' = [jobs EXCEPT ![j] = Complete(@, report)]
    /\ inflight' = FreeSlot(registry[who[c]])
    /\ UNCHANGED <<clock, registry, who, link, lockGen, dispatch, watchers, restarts>>

(* _on_result: store the outcome if the job is RUNNING; in any case free a *)
(* slot of the agent and dispatch its next job.                            *)
Result(c, j, report) ==
    /\ Handles(c) /\ j \in EverSent
    /\ jobs' = [jobs EXCEPT ![j] = Complete(@, report)]
    /\ inflight' = FreeSlot(registry[who[c]])
    /\ UNCHANGED <<clock, registry, who, link, lockGen, watchers, restarts>>
    /\ EnterDispatch(c, who[c])

(* The socket breaks; the handler finds out later. *)
Lose(c) ==
    /\ link[c] = "open" /\ who[c] # Nil
    /\ link' = [link EXCEPT ![c] = "lost"]
    /\ UNCHANGED <<jobs, clock, registry, inflight, who, lockGen, dispatch,
                   watchers, restarts>>

(* The finally of _handle_connection: unregister the agent by its ID and   *)
(* drop its lock object.  Sends on the socket may be pending still.        *)
HandlerEnd(c) ==
    /\ link[c] = "lost" /\ Handles(c)
    /\ link' = [link EXCEPT ![c] = "ended"]
    /\ registry' = [registry EXCEPT ![who[c]] = Nil]
    /\ lockGen' = [lockGen EXCEPT ![who[c]] = @ + 1]
    /\ UNCHANGED <<jobs, clock, inflight, who, dispatch, watchers, restarts>>

-----------------------------------------------------------------------------
(* HTTP API *)

(* Mutant: the key is free again once its job has finished. *)
LiveKeyOwner(k) ==
    {i \in Job : k # Nil /\ jobs[i].key = k /\ jobs[i].state \in LiveState}

(* The row an idempotency key belongs to (the UNIQUE index). *)
KeyOwner(k) == {i \in Job : k # Nil /\ jobs[i].key = k}

(* POST /jobs: the new id r is used unless the idempotency key is taken;   *)
(* the agent NAMED IN THE REQUEST is dispatched to in both cases.          *)
Submit(r, a, p, k) ==
    /\ jobs[r].state = "ABSENT" /\ disp[r].pc = "idle"
    /\ IF KeyOwner(k) = {}
       THEN /\ jobs' = [jobs EXCEPT ![r] = NewRow(a, p, k, clock)]
            /\ clock' = clock + 1
       ELSE UNCHANGED <<jobs, clock>>
    /\ UNCHANGED <<gateway, watchers, restarts>>
    /\ EnterDispatch(r, a)

(* send_cancel suspends only if there is a socket that takes the message. *)
CanSend(a) == registry[a] # Nil /\ link[registry[a]] = "open"

(* POST /jobs/{id}/cancel, up to its await (bound: one request per job at  *)
(* a time); without a live connection it runs to its end.                  *)
CancelRequest(j) ==
    /\ jobs[j].state \in LiveState /\ j \notin cancelling
    /\ IF CanSend(jobs[j].agent)
       THEN cancelling' = cancelling \cup {j} /\ UNCHANGED jobs
       ELSE /\ jobs' = [jobs EXCEPT ![j] = MarkCancelled(@)]
            /\ UNCHANGED cancelling
    /\ UNCHANGED <<clock, gateway, dispatch, ackDue, expired, firing, restarts>>

CancelReturn(j) ==
    /\ j \in cancelling
    /\ cancelling' = cancelling \ {j}
    /\ jobs' = [jobs EXCEPT ![j] = MarkCancelled(@)]
    /\ UNCHANGED <<clock, gateway, dispatch, ackDue, expired, firing, restarts>>

-----------------------------------------------------------------------------
(* Watchers.  A scan reads its rows once and then handles them one by one, *)
(* newest first, awaiting in between.                                      *)

IsNewest(j, S) == j \in S /\ \A i \in S : jobs[i].created <= jobs[j].created

AckBacklog == {j \in Job : ackDue[j] # 0}

(* A watcher that has rows left and awaits nothing keeps the thread. *)
AckRuns == AckBacklog # {} /\ disp[AckTask].pc = "idle"
TimeoutRuns == expired # {} /\ firing = Nil

(* Mutant: the scan does not filter by state. *)
AckScanWaiting(S) ==
    /\ AckBacklog = {} /\ disp[AckTask].pc = "idle"
    /\ S # {} /\ \A j \in S : jobs[j].state \in {"PENDING", "DISPATCHED"}
    /\ ackDue' = [j \in Job |-> IF j \in S THEN jobs[j].attempts ELSE 0]
    /\ UNCHANGED <<jobs, clock, gateway, dispatch, expired, firing, cancelling,
                   restarts>>

(* AckWatcher._scan: S is the set of DISPATCHED rows that are too old. *)
AckScan(S) ==
    /\ AckBacklog = {} /\ disp[AckTask].pc = "idle"
    /\ S # {} /\ \A j \in S : jobs[j].state = "DISPATCHED"
    /\ ackDue' = [j \in Job |-> IF j \in S THEN jobs[j].attempts ELSE 0]
    /\ UNCHANGED <<jobs, clock, gateway, dispatch, expired, firing, cancelling,
                   restarts>>

(* Mutant: one attempt too many. *)
ExhaustedLate(attempts) == attempts > MaxAttempts

Exhausted(attempts) == attempts >= MaxAttempts

(* Mutant: a requeued job is left for the next dispatch. *)
AckNextOnly ==
    /\ AckRuns
    /\ \E j \in Job :
          /\ IsNewest(j, AckBacklog)
          /\ ackDue' = [ackDue EXCEPT ![j] = 0]
          /\ jobs' = [jobs EXCEPT ![j] = IF Exhausted(ackDue[j])
                          THEN FailStaleDispatch(@) ELSE Requeue(@)]
    /\ UNCHANGED <<clock, gateway, dispatch, expired, firing, cancelling, restarts>>

(* AckWatcher._on_ack_timeout for the next row of the scan: the decision   *)
(* uses the attempts the SCAN read.                                        *)
AckNext ==
    /\ AckRuns
    /\ \E j \in Job :
          /\ IsNewest(j, AckBacklog)
          /\ ackDue' = [ackDue EXCEPT ![j] = 0]
          /\ UNCHANGED <<clock, gateway, expired, firing, cancelling, restarts>>
          /\ \/ /\ Exhausted(ackDue[j])
                /\ jobs' = [jobs EXCEPT ![j] = FailStaleDispatch(@)]
                /\ UNCHANGED dispatch
             \/ /\ ~Exhausted(ackDue[j])
                /\ jobs' = [jobs EXCEPT ![j] = Requeue(@)]
                /\ EnterDispatch(AckTask, jobs[j].agent)

(* TimeoutWatcher._scan: S is the set of RUNNING rows past their timeout. *)
TimeoutScan(S) ==
    /\ expired = {} /\ firing = Nil
    /\ S # {} /\ \A j \in S : jobs[j].state = "RUNNING" /\ jobs[j].started
    /\ expired' = S
    /\ UNCHANGED <<jobs, clock, gateway, dispatch, ackDue, firing, cancelling,
                   restarts>>

(* Mutant: no timeout for the jobs of an agent that is offline. *)
TimeoutNextOnline ==
    /\ TimeoutRuns
    /\ \E j \in Job :
          /\ IsNewest(j, expired)
          /\ expired' = expired \ {j}
          /\ IF CanSend(jobs[j].agent) THEN firing' = j ELSE UNCHANGED firing
    /\ UNCHANGED <<jobs, clock, gateway, dispatch, ackDue, cancelling, restarts>>

(* TimeoutWatcher._fire for the next row, up to the await of send_cancel. *)
TimeoutNext ==
    /\ TimeoutRuns
    /\ \E j \in Job :
          /\ IsNewest(j, expired)
          /\ expired' = expired \ {j}
          /\ IF CanSend(jobs[j].agent)
             THEN firing' = j /\ UNCHANGED jobs
             ELSE /\ jobs' = [jobs EXCEPT ![j] = MarkTimedOut(@)]
                  /\ UNCHANGED firing
    /\ UNCHANGED <<clock, gateway, dispatch, ackDue, cancelling, restarts>>

TimeoutReturn ==
    /\ firing # Nil
    /\ jobs' = [jobs EXCEPT ![firing] = MarkTimedOut(@)]
    /\ firing' = Nil
    /\ UNCHANGED <<clock, gateway, dispatch, ackDue, expired, cancelling, restarts>>

(* HeartbeatWatcher._scan: the agents S missed their beats; their handlers *)
(* and sockets are left alone.                                             *)
HeartbeatScan(S) ==
    /\ S # {} /\ \A a \in S : registry[a] # Nil
    /\ registry' = [a \in Agent |-> IF a \in S THEN Nil ELSE registry[a]]
    /\ UNCHANGED <<jobs, clock, inflight, who, link, lockGen, dispatch, watchers,
                   restarts>>

-----------------------------------------------------------------------------
(* The process dies and starts again: all but the table is lost. *)
Reboot ==
    /\ restarts < MaxRestarts
    /\ restarts' = restarts + 1
    /\ registry' = [a \in Agent |-> Nil]
    /\ link' = [c \in Conn |-> IF who[c] = Nil THEN link[c] ELSE "ended"]
    /\ lockGen' = [a \in Agent |-> 0]
    /\ disp' = [t \in Task |-> Idle]
    /\ ackDue' = [j \in Job |-> 0]
    /\ expired' = {}
    /\ firing' = Nil
    /\ cancelling' = {}
    /\ UNCHANGED <<inflight, who, sent>>

Restart == Reboot /\ UNCHANGED <<jobs, clock>>

-----------------------------------------------------------------------------
ConnStep(c) ==
    \/ \E a \in Agent : Register(c, a)
    \/ \E j \in Job : Started(c, j) \/ \E report \in Report : Result(c, j, report)
    \/ Lose(c)
    \/ HandlerEnd(c)

ApiStep(j) ==
    \/ \E a \in Agent, p \in Priority, k \in Key \cup {Nil} : Submit(j, a, p, k)
    \/ CancelRequest(j)
    \/ CancelReturn(j)

WatcherScan ==
    \/ \E S \in SUBSET Job : AckScan(S) \/ TimeoutScan(S)
    \/ TimeoutReturn
    \/ \E S \in SUBSET Agent : HeartbeatScan(S)

(* Everything that needs the thread: no watcher is in the middle of a scan. *)
Calm == ~AckRuns /\ ~TimeoutRuns

Other ==
    \/ \E t \in Task : DispatchResume(t) \/ DispatchReturn(t)
    \/ \E c \in Conn : ConnStep(c)
    \/ \E j \in Job : ApiStep(j)
    \/ WatcherScan

Next ==
    \/ AckNext
    \/ TimeoutNext
    \/ Calm /\ Other
    \/ Restart

Spec == Init /\ [][Next]_vars

(***************************************************************************)
(* Fairness.  asyncio runs its ready coroutines in FIFO order, so what     *)
(* stays able to run does run: ws.send returns (or fails when the          *)
(* keepalive ping finds the peer gone) and the watchers scan every second  *)
(* for ever.  Other tasks may keep taking the dispatch lock, but an        *)
(* asyncio.Lock is handed to its waiters in order, so the AckWatcher gets  *)
(* it: strong fairness.  Nothing is assumed of clients, agents, the        *)
(* network or crashes.                                                     *)
(***************************************************************************)
Fairness ==
    /\ WF_vars(AckNext)
    /\ WF_vars(TimeoutNext)
    /\ WF_vars(Calm /\ TimeoutReturn)
    /\ SF_vars(Calm /\ DispatchResume(AckTask))
    /\ \A t \in Task : WF_vars(Calm /\ DispatchReturn(t))
    /\ \A j \in Job :
          /\ WF_vars(Calm /\ CancelReturn(j))
          /\ WF_vars(Calm /\ \E S \in SUBSET Job : j \in S /\ AckScan(S))
          /\ WF_vars(Calm /\ \E S \in SUBSET Job : j \in S /\ TimeoutScan(S))

FairSpec == Spec /\ Fairness

-----------------------------------------------------------------------------
(* Types *)

TaskState ==
    [ pc    : {"idle", "lock", "send"},
      agent : Agent \cup {Nil},
      gen   : Nat,
      job   : Job \cup {Nil},
      conn  : Conn \cup {Nil} ]

(* What a task remembers fits where it is. *)
TaskShape(d) ==
    /\ d.pc = "idle" => d = Idle
    /\ d.pc = "lock" => d.agent # Nil /\ d.job = Nil /\ d.conn = Nil
    /\ d.pc = "send" => d.agent # Nil /\ d.job # Nil /\ d.conn # Nil

(* Every variable of the server holds a value of its Python type. *)
TypeOK ==
    /\ jobs \in [Job -> JobRow]
    /\ clock \in Nat
    /\ registry \in [Agent -> Conn \cup {Nil}]
    /\ inflight \in [Conn -> Nat]
    /\ who \in [Conn -> Agent \cup {Nil}]
    /\ link \in [Conn -> {"open", "lost", "ended"}]
    /\ lockGen \in [Agent -> Nat]
    /\ disp \in [Task -> TaskState]
    /\ \A t \in Task : TaskShape(disp[t])
    /\ sent \in [Conn -> SUBSET Job]
    /\ ackDue \in [Job -> Nat]
    /\ expired \in SUBSET Job
    /\ firing \in Job \cup {Nil}
    /\ cancelling \in SUBSET Job
    /\ restarts \in 0 .. MaxRestarts

-----------------------------------------------------------------------------
(* Safety *)

(* The retry budget: the attempts counted in a row never exceed the limit, *)
(* a job that waits to be handed out has one left, and the AckWatcher      *)
(* gives up only jobs without one.  Three coroutines share the counter:    *)
(* dispatch_pending counts, the watcher's scan reads, and the watcher      *)
(* decides after awaiting the dispatches of earlier rows.  (What is not    *)
(* counted may have arrived: a send that failed, that a restart cut off,   *)
(* or that found the row no longer PENDING.  See JobSystem's               *)
(* ExecutionBound for how often a job is run.)                             *)
RetryBudget ==
    \A j \in Job :
        /\ jobs[j].attempts <= MaxAttempts
        /\ jobs[j].state = "PENDING" => jobs[j].attempts < MaxAttempts
        /\ jobs[j].error = "no_ack" => /\ jobs[j].attempts = MaxAttempts
                                      /\ jobs[j].state = "FAILED"

(* The attempts an AckWatcher scan read are still the row's attempts when  *)
(* the watcher gets to the row, however long it awaited in between: no one *)
(* else requeues a job.                                                    *)
SnapshotCurrent ==
    \A j \in AckBacklog :
        /\ jobs[j].attempts = ackDue[j]
        /\ jobs[j].state \in {"DISPATCHED", "RUNNING"} \cup TerminalState

(* Routing: a job is only ever written to connections that registered as   *)
(* its agent, whatever registered, closed or expired since it was chosen.  *)
RoutedToOwner == \A c \in Conn : \A j \in sent[c] : jobs[j].agent = who[c]

(* The table never claims more than happened: a job that is DISPATCHED,    *)
(* was started, or was counted as an attempt had been written to a socket. *)
(* (So the socket is written first and the row second, whatever README.md  *)
(* says of the order: see RecordedBeforeSent below.)                       *)
DispatchedWasSent ==
    \A j \in Job :
        (jobs[j].attempts > 0 \/ jobs[j].started \/ jobs[j].state = "DISPATCHED")
            => jobs[j].attempts > 0 /\ j \in EverSent

(* Idempotent submission: no two rows share an idempotency key. *)
OneJobPerKey ==
    \A i, j \in Job : jobs[i].key # Nil /\ jobs[i].key = jobs[j].key => i = j

(* A row carries an outcome exactly if it is finished, and the one that    *)
(* belongs to its state: no result is half stored, none sticks to a job    *)
(* that was requeued, timed out or cancelled meanwhile; and a job that was *)
(* started is not handed out again.                                        *)
OutcomeConsistent ==
    \A j \in Job :
        LET row == jobs[j]
        IN  /\ row.finished <=> IsTerminal(row.state)
            /\ row.exit = 0 <=> row.state = "SUCCEEDED"
            /\ row.exit # Nil <=> row.state \in {"SUCCEEDED", "FAILED"}
            /\ row.error # Nil => row.state = "FAILED"
            /\ row.state \in {"RUNNING", "SUCCEEDED", "TIMED_OUT"} => row.started
            /\ row.started => row.state = "RUNNING" \/ IsTerminal(row.state)

(* No lost wake-up: a job waits for a connected, idle agent only while     *)
(* some coroutine is about to look at that agent's queue again.            *)
NoMissedDispatch ==
    \A j \in Job, a \in Agent :
        LET c == registry[a]
        IN  /\ jobs[j].state = "PENDING" /\ jobs[j].agent = a
            /\ c # Nil /\ link[c] = "open" /\ inflight[c] = 0
            => \E t \in Task : /\ disp[t].agent = a
                               /\ disp[t].pc = "send" => disp[t].conn = c

(* Fair queueing of an agent: a job gets its first attempt only after each *)
(* job that precedes it by (priority, created_at) got one or ended first,  *)
(* whatever is requeued, lost or sent twice in between.                    *)
FirstDispatchInOrder ==
    \A i, j \in Job :
        /\ jobs[i].state = "PENDING" /\ jobs[i].attempts = 0
        /\ jobs[j].attempts > 0 /\ jobs[i].agent = jobs[j].agent
        /\ jobs[i].created < jobs[j].created
        => jobs[i].priority > jobs[j].priority

(* One job at a time: an agent's connection never has two jobs charged to  *)
(* it or on their way to it, whatever submits, results and requeues meet   *)
(* in dispatch_pending; until the end of one of the agent's handlers drops *)
(* its lock.  (After that NoDoubleSend below fails, and this with it.)     *)
OneAtATime ==
    \A c \in Conn :
        link[c] # "ended" /\ who[c] # Nil /\ lockGen[who[c]] = 0 =>
            inflight[c] + Cardinality({t \in Task : disp[t].conn = c}) <= 1

-----------------------------------------------------------------------------
(* Action properties *)

(* A finished job is final: no late result, timeout, cancel, requeue or    *)
(* give-up changes anything in its row.                                    *)
TerminalFinal ==
    [][\A j \in Job : IsTerminal(jobs[j].state) => jobs'[j] = jobs[j]]_vars

(* The server implements the lifecycle it promises for each job.           *)
Promise == INSTANCE JobLifecycle WITH
    state <- [j \in Job |-> IF jobs[j].error = "no_ack" THEN "GIVEN_UP"
                            ELSE jobs[j].state],
    attempts <- [j \in Job |-> jobs[j].attempts]

KeepsPromise == Promise!Spec

-----------------------------------------------------------------------------
(* Liveness, under Fairness *)

(* A job does not run for ever in the table: an agent that never reports   *)
(* loses to the TimeoutWatcher, even across a restart of the server.       *)
RunningEnds == \A j \in Job : jobs[j].state = "RUNNING" ~> IsTerminal(jobs[j].state)

(* A job does not stay DISPATCHED: started, requeued or given up.          *)
AckTimeoutActs ==
    \A j \in Job : jobs[j].state = "DISPATCHED" ~> jobs[j].state # "DISPATCHED"

(* An accepted cancel request ends the job, unless the server dies first. *)
CancelEnds ==
    \A j \in Job : j \in cancelling /\ restarts = MaxRestarts
        ~> IsTerminal(jobs[j].state)

-----------------------------------------------------------------------------
(* What the documents say and the code does not do.                        *)

(* README.md, "Allowed transitions": the table, and "any transition not in *)
(* this table is invalid and is rejected".                                 *)
DocumentedEdge ==
    ({"ABSENT"} \X {"PENDING"})
    \cup {<<"PENDING", "DISPATCHED">>, <<"DISPATCHED", "RUNNING">>,
          <<"DISPATCHED", "PENDING">>, <<"PENDING", "CANCELLED">>}
    \cup ({"RUNNING"} \X TerminalState)

DocumentedTransitions ==
    [][\A j \in Job : jobs'[j].state # jobs[j].state
          => <<jobs[j].state, jobs'[j].state>> \in DocumentedEdge]_vars

(* README.md, "Agent identity across reconnects": the registry overwrites  *)
(* the connection and pending jobs flow to the new connection.  So the end *)
(* of an old connection leaves the newer one registered.                   *)
CloseKeepsNewerConnection ==
    [][\A c \in Conn, a \in Agent :
          /\ link[c] = "lost" /\ link'[c] = "ended" /\ restarts' = restarts
          /\ registry[a] \notin {c, Nil}
          => registry'[a] = registry[a]]_vars

(* tests/phase2/test_ack_watcher.py, test_running_job_is_not_touched: the  *)
(* AckWatcher does not fail a job that is RUNNING.                         *)
AckWatcherSparesRunning ==
    [][\A j \in Job : jobs[j].state = "RUNNING" => jobs'[j].error # "no_ack"]_vars

(* README.md, "Practical implications": "Every state change writes to the  *)
(* DB first, then acts".  So a job that is being sent is no longer PENDING *)
(* in the table.                                                           *)
RecordedBeforeSent ==
    \A t \in Task : disp[t].pc = "send" => jobs[disp[t].job].state # "PENDING"

(* docs/EVIDENCE_PHASE1.md, "Dispatch race": two concurrent calls of       *)
(* dispatch_pending cannot send the same job twice.                        *)
NoDoubleSend ==
    \A t, u \in Task :
        disp[t].pc = "send" /\ disp[u].pc = "send" /\ disp[t].job = disp[u].job
            => t = u

(* README.md, "Failure handling": no ack from the agent means requeue, up  *)
(* to the maximal number of attempts, then FAILED.  So a dispatched job is *)
(* eventually started or finished, as long as its agent stays connected.   *)
UnackedJobResolves ==
    \A j \in Job : jobs[j].state = "DISPATCHED"
        ~> \/ jobs[j].state \in {"RUNNING"} \cup TerminalState
           \/ jobs[j].agent # Nil /\ ~CanSend(jobs[j].agent)
=============================================================================
