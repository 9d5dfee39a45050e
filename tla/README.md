# Verification of the job system

TLA+ specifications, TLC configurations and TLAPS proofs for the job system of
this repository: a server that accepts jobs over HTTP, hands each one to the
agent it names over a WebSocket, and keeps a durable record of what became of
it. Paths below are relative to the repository; `server/` and `agent/` stand
for `packages/server/` and `packages/agent/`.

1. [The system](#1-the-system)
2. [The modules and the code](#2-the-modules-and-the-code)
3. [What is abstracted](#3-what-is-abstracted)
4. [Properties and runs](#4-properties-and-runs)
5. [Fairness](#5-fairness)
6. [Disagreements found](#6-disagreements-found)
7. [What is proved](#7-what-is-proved)
8. [What is not modelled, and what is left](#8-what-is-not-modelled-and-what-is-left)

## 1. The system

The server is **one process with one asyncio thread** (`server/main.py`). A
coroutine runs undisturbed until it awaits, so all that can go wrong between
coroutines goes wrong at an `await`. The job table is an SQLite file; nothing
else survives a restart.

| Component | State it keeps | Operations |
|---|---|---|
| Job table, `repositories/job/sqlite.py` with `services/job_service.py` | a row per job: state, agent, priority, key, attempts, outcome | `submit`, `mark_*`, `requeue`, `fail_stale_dispatch`: each a compare-and-swap or a get-then-save without an await |
| Agent registry, `services/agent_registry.py`, `domain/agent.py` | agent id -> connection; `in_flight` per connection | `register` (overwrites), `unregister` (by id), `mark_busy`, `mark_free` |
| Agent gateway, `gateway/connection.py` | the handler of each connection; `_dispatch_locks` by agent id | `_on_register`, `_on_ack`, `_on_started`, `_on_log`, `_on_result`, `_on_reconcile`, `_on_heartbeat`, `dispatch_pending`, `send_cancel`, clean-up |
| Watchers, `watchers/*.py` | the rows a scan read and has yet to handle | `AckWatcher` (requeue or give up), `TimeoutWatcher` (cancel and time out), `HeartbeatWatcher` (unregister) |
| HTTP API, `api/app.py` | the requests that await | `POST /jobs`, `POST /jobs/{id}/cancel`, reads, the SSE log stream |
| Audit trail, `repositories/event/` | `job_events` rows | append, in a statement of its own after the transition |
| Log pipeline, `services/log_broker.py`, `repositories/log/` | history and subscriber queues; stored chunks | publish, subscribe, append |
| Agent, `agent/main.py` | sequence counters; the containers of its Docker daemon | connect with back-off, reconcile, run a job, cancel, heartbeat |

**How they interact.** `dispatch_pending(agent)` is the heart. Submits,
registrations, results and the AckWatcher all call it. Under a lock of that
agent it looks the agent up, checks that its connection is free, takes the
first pending row by `(priority, created_at)`, **awaits the send**, and only
then charges the connection and moves the row to `DISPATCHED`. The agent answers
`ack`, `started`, `logs`, `result`; a result stores the outcome, frees a slot
of the connection registered *now*, and dispatches again. A cancel request and
the TimeoutWatcher send `cancel`, await it, then move the row. The end of a
connection unregisters its agent id and drops the agent's lock object.

**Hard behaviours.**

- *Stale reads across an await*: `dispatch_pending` keeps a connection object
  and a row; the AckWatcher keeps the rows of a scan, attempts included; cancel
  and timeout keep a row.
- *Lock identity*: the lock is looked up by agent id, but the entry is popped
  while tasks hold it or wait for it.
- *Reconnects*: two connections of one agent overlap; the older one's clean-up
  runs last.
- *Messages*: results that are late, duplicated, for an earlier attempt, or for
  a job that was cancelled, timed out or requeued.
- *Retries*: an ack timeout races the `started` of a slow start.
- *Crashes*: a job is written to the socket before its row is; a container
  outlives its agent.
- *Tasks that outlive their session*: an agent's reattach task keeps the
  connection it began with, and waits beside the task of the next session.
- *One Docker daemon for all agents* (`docker-compose.yml` mounts the host's
  socket into each): every agent lists, awaits and removes the containers of all.
- *Streams*: history replay overlaps live delivery into a bounded queue, and a
  timeout of the wait races a chunk or the end of the job.

**What makes each component correct.** The *table*: finished rows are final,
outcomes fit states, one row per idempotency key, attempts within the budget.
The *gateway*: a job goes to its own agent only, one at a time, in order, and
none is forgotten while its agent is idle. The *watchers*: decide on what is
still true, spare what needs no help, and let nothing run or wait for ever. The
*API*: an accepted cancel ends the job. The *audit trail*: tells what
happened, in order. The *log pipeline*: no subscriber loses or repeats a chunk
unnoticed. The *agent*: runs a job at most once per hand-out, reports every
container, obeys cancels.

`PROJECT.json` lists every component, modelled or not, and under "hazards" each
behaviour that is hard to test, at its line, with the properties aimed at it.

## 2. The modules and the code

| Module | Models |
|---|---|
| `JobStore` | One row of the job table and each service operation as an operator from row to row. |
| `JobLifecycle` | The abstract specification: what a client may rely on about each job. |
| `ControlPlane` | The server: gateway, registry, API and watchers as interleaved coroutines over a table of `JobStore` rows, with properties, fairness and the refinement mapping to `JobLifecycle`. |
| `JobStoreProofs`, `ControlPlaneProofs`, `DispatchProofs` | Theorems and lemmas about `JobStore` and `ControlPlane`. |
| `AgentProofs`, `LogProofs`, `RecordProofs` | Theorems about `AgentRuntime`, `LogPipeline` and `JobRecords`. |
| `JobSystemProofs`, `SystemProofs` | Theorems about `JobSystem`: it implements `ControlPlane` and its agents those of `AgentRuntime`; then what neither side shows alone. |
| `AgentRuntime` | The agents: session loop, reconciliation, job and cancel handlers, reattach tasks, over the containers of one Docker daemon. |
| `LogPipeline` | The live log of one job: the broker's history and numbering, subscriber queues, the SSE generator. |
| `JobRecords` | What is kept beside the table, over `ControlPlane`: the audit trail `job_events`, with crashes between a statement and its event, and the in-memory repository of the tests. |
| `JobSystem` | The composition: `ControlPlane` and `AgentRuntime` joined by connections, each in the place of the other's open environment. |
| `MCControlPlane`, `MCAgentRuntime`, `MCLogPipeline`, `MCJobRecords`, `MCJobSystem` | The modules above with the symmetry sets TLC uses; the `.cfg` files choose the instances. |

`JobLifecycle` gives the table of README "Allowed transitions", corrected to
what the code does (section 6), and gives "given up" a state of its own: a job
may only be given up when it used all its attempts.

State of `ControlPlane`:

| Variable | Code |
|---|---|
| `jobs`, `clock` | the `jobs` table; the rank of `created_at` |
| `registry`, `inflight` | `AgentRegistry._agents`; `AgentConnection.in_flight` |
| `who`, `link` | the handler's local `agent_id`; the socket: open, lost, or handled to the end |
| `lockGen` | which `asyncio.Lock` object the entry of `_dispatch_locks` is; popping it moves to the next number |
| `disp` | per task, where it is inside `dispatch_pending`: idle, waiting for a lock object, or awaiting `ws.send` of a job on a connection |
| `ackDue`, `expired`, `firing` | the rows a watcher's scan has left; the job whose cancel it awaits |
| `cancelling` | jobs whose cancel request awaits its send |
| `sent` | history: what was written to each socket |

An action is the code from a resumption to the next suspension. `Register`,
`Submit`, `Result` and `AckNext` therefore contain the whole handler *and* the
first part of `dispatch_pending` (`EnterDispatch`): with a free lock, up to the
await of the send; with a taken one, up to the wait. `DispatchResume` is the
wake-up of a waiter, `DispatchReturn` what follows the send. `CancelRequest` /
`CancelReturn` and `TimeoutNext` / `TimeoutReturn` are the two sides of their
awaits. A watcher that has rows left and awaits nothing keeps the thread
(`Calm` in `Next`): nothing else can run between two rows that involve no
await. `Restart` keeps the table and loses everything else.

A task that waits keeps the lock *object* it looked up (`gen`), and a sending
task keeps the connection *object* it chose. That is what makes the reconnect
races of section 6 appear.

State of `AgentRuntime`:

| Variable | Code |
|---|---|
| `docker` | the daemon's containers: state, `job_id` label, and (history) the agent that ran it |
| `link`, `inbox`, `session` | the agent's WebSocket, the messages it has received but not read, and which connection of the agent it is |
| `main` | where `Agent.run()` is, down to the Docker call or send it awaits, and the listing it works off |
| `runs` | every pending `executor.wait` with what follows it: `_on_job` itself, or a `_reattach` task |
| `running` | `Agent._running` |
| `reported` | history: containers whose result was written to a live connection |

`_on_job` occupies `main` ("wait") until its container ended, as the code does;
a `_reattach` task is a record in `runs` only, keeps the session it began with,
and survives the end of that session. `Collect` and `Remove` are the two halves
of `_wait_blocking`: it reads the output, then *removes the container*, both
before `SendResult` sends anything; several tasks may have read one container's
output before the first removes it. An exception in a send or a Docker call
takes the path it takes in the code: out of the session (`EndSession`), into the
log, or into an error result. `containers.run` may raise, and the agent may die
in it, although the daemon started the container (`StartFails`, `Crash`).

State of `LogPipeline`: `sequences` and `history` are `LogBroker._sequences` and
`_history` of the job; `view[v]` is the generator `_log_stream` of one request:
the yield or wait it is suspended at, the copied history it has left
(`backlog`), its subscriber queue, and (history variables) what it has shown,
where its replay began, whether its queue overflowed and whether it ever
reached the live loop. `published` is a history variable too: it gives each
chunk its place among all. An action runs the generator from one suspension to
the next; `OnLog` is `_on_log` with the whole of `publish`, which does not
suspend.

State of `JobRecords`, beside that of `ControlPlane`: `trail` is what a careful
reader of `GET /jobs/{id}/events` makes of a job's events so far (its state and
attempts), `lost` the jobs of which a crash swallowed an event, `mem` and
`index` the table and the key index of `InMemoryJobRepository`. Each step of
`ControlPlane` that makes a statement is conjoined with the event its caller
appends and with what the same call does to the in-memory table; `DiesAfter` is
the death of the process when the statement is made and the event is not.
The AckWatcher is the one caller that acts differently over the two tables
(`RecordedAck`): SQLite hands it rows as they were at the scan, the in-memory
repository the live objects, whose age it computes when it comes to them. A job
that changed since the scan is therefore skipped in memory (`MemoryAck`).

`JobSystem` instantiates the two components side by side. A step of the server
that begins a `ws.send` (`Written`) puts the message into the inbox of the
agent whose connection it is (`Carry`), or loses it if the connection is cut. A
step of an agent appends what it sends to `up`, the channel of its connection,
from which the connection's handler reads in order (`Handle`). `wire` is the
connection an agent uses, `cut` the connections that carry nothing any more.
Either side notices a cut later, and in its own time (`NoticeLoss`,
`NoticeBreak`). `trouble` records what went wrong so far, which the properties
refer to: they say what holds whatever happens, and what holds as long as
certain things do not happen.

## 3. What is abstracted

In `ControlPlane`:

- **Agents and network** are an open environment: once a job was written to any
  socket, any registered connection may report `started` or a result for it, any
  number of times, at any moment. This covers late, duplicated and reordered
  messages, reconciliation after a reconnect, agents that restart, and agents
  that share a Docker daemon and report each other's containers. Safety
  properties therefore hold for every agent, well behaved or not.
- **Time**: an age, a timeout or a heartbeat deadline may have passed at any
  moment. Ties of `created_at` are ignored.
- **Data** that decides no transition is left out: image, command, log text,
  metadata, correlation ids. `error` is absent, the agent's, or the AckWatcher's.
  A result is an `error`, an `exit 0` or an `exit 1`. An `error` comes with exit
  code 1: the server would store an error with exit code 0 as it comes, but the
  agent sends an error text only for a failed start or a non-zero exit code.
- **Every `ws.send` on an open socket suspends.** In the code it may also finish
  at once; that is the case where the step after it comes next.
- **Lock waiters** are woken in any order. `asyncio.Lock` wakes the oldest
  first; that is one of the orders.
- **A connection** registers once and is used once. `"open"` also stands for a
  connection that is yet to be made. A handler may end while other tasks' sends
  on its socket are pending.
- **One cancel request per job at a time.**
- **Not modelled here**: a scan that an unexpected exception aborts (the base
  watcher logs it and scans again); an empty agent id, for which
  `repository.list` would drop its filter; `ack`, `reconcile` and `heartbeat`
  messages, which change no state of this module (the deadline a heartbeat
  moves is covered by "at any moment").

In `AgentRuntime`:

- **The server** is the environment: it may send any job, the same one twice
  too, and any cancel to any connected agent.
- **Time**: the back-off between connections takes any time. A broken connection
  is noticed when the code next uses it; messages received before the break can
  still be read.
- **A container** is made by `containers.run` in two halves, with room for a
  crash or an exception before, between and after them. It may run for ever.
  "dead" counts as "exited". Docker calls may fail as the constant `Fault` says
  (`"answer"`: the daemon starts the container and its answer is lost); `kill`
  does not.
- **The order of a listing** is arbitrary (Docker lists the newest first).
- **Left out**: containers without a `job_id` label (the system makes none),
  the `_stream` task and sequence counters, the heartbeat task, log text.
  The two sends `ack` and `reconcile` are only modelled as places that can raise.

In `JobRecords`:

- The sequence of a job's events is folded as it grows: it is represented by
  what its reader has come to. The reader applies an event that carries no state
  as the transition of its caller, if the job is in a state that allows it.
  `ack` and `reconciled` events carry no state and move nothing.
- The in-memory table starts empty and is empty again after a restart, while
  the SQLite table survives. The two are therefore compared until the first
  restart only (`MemoryAgrees`).

In `JobSystem`:

- `ack`, `reconcile` and `heartbeat` messages are not carried: the server reads
  no state from them. That a heartbeat comes too late is an accident of its own.
- `MaxTrouble` bounds how many *kinds* of trouble happen in one behaviour. How
  often each happens is bounded by `MaxRestarts`, `MaxCrashes`, `MaxFaults` and
  the connections; late heartbeats and overtaking answers may happen any number
  of times. A session that ends because a Docker call raised closes its
  connection; that counts as a cut, without using up the bound. A cut leaves the
  agent an unused connection to come back on.
- Connections and containers are numbered and taken in order, which is a
  symmetry reduction.
- What the agent reports of an exited container is a success or an error text:
  `_send_result` turns every other exit code into an error (the constant
  `ExitReport`).

In `LogPipeline`:

- A chunk is its place in the order of publication, its stream and its number.
- The job ends at any time, and log messages may still come after that.
- The suspension at the yield of the end event is merged with what follows it:
  after it the generator only unsubscribes.
- The rows of `job_logs` are counted only. `GET /jobs/{id}/logs` reads them back
  in the order they were appended and ignores the agent's sequence stored in them.

## 4. Properties and runs

Deadlock checking is off: the supply of job ids,
connections and restarts is bounded, and when it is used up the model stops
where the server would wait for the next client. Symmetry is used only in runs
without a liveness property.

| Run | Instance | Question |
|---|---|---|
| `dispatch_order` | 1 agent, 1 connection, 2 jobs, 2 priorities, 2 attempts | `FirstDispatchInOrder`: does the order by `(priority, created_at)` survive requeues and concurrent dispatch calls? `OneAtATime`: is a connection never charged with, or on the way to get, two jobs? `RetryBudget`; `SnapshotCurrent` (the attempts a scan read are still true when acted on); `KeepsPromise` (`ControlPlane` implements `JobLifecycle`). |
| `connections` | 2 agents, 2 connections, 2 jobs, 1 attempt | `NoMissedDispatch`: no job waits for a free, connected agent unless some coroutine is about to look at the queue. `DispatchedWasSent`: no row claims a hand-out that did not happen. `RoutedToOwner`: each job reaches connections of its own agent only. `OneAtATime`, with connections that take over from each other, until the end of a handler drops the agent's lock. |
| `records` | 1 connection, 2 jobs, 1 key, 2 attempts, 1 restart, results `exit 0` | `OneJobPerKey`, `OutcomeConsistent` (outcome columns fit the state, and a job that was started is not handed out again), `TerminalFinal` (finished rows never change). `TrailReplays`: the events of a job, replayed, give its row, unless a crash swallowed one. `TrailNeverWrong`: even then the trail claims no outcome the job has not. `MemoryAgrees`: until the restart the in-memory repository is in the same state as the SQLite one, but for jobs that started during the AckWatcher's await and are given up over SQLite only (section 6). |
| `liveness` | 2 connections, 1 job, 2 attempts, 1 restart, fair | `RunningEnds`, `AckTimeoutActs`, `CancelEnds`; `TypeOK` and `NoMissedDispatch` with several lock objects alive, requeues and a restart. |
| `agents` | 2 agents, 2 jobs, 2 containers, any two of: a cancel, a break, a crash, a failing Docker call | `TypeOK`; `Attended`: once an agent has worked off its listing, each container it ever started has a task that waits for it. `Cancellable`: a running container is the one a cancel of its job finds. `RemovedOnlyWithResult`: no container leaves Docker without its result sent or in the hands of a task. |
| `system` | 1 agent, 2 connections, 1 job, 2 attempts, 5 containers, one of six kinds of trouble (heartbeats and overtaking answers any number of times), cancels of running jobs, fair | `TypeOK` (also: agents write only what `ControlPlane` admits of them). `ExecutionBound`: a job is executed at most once per attempt, plus once per server restart, unless an agent crashes or a connection breaks (a hand-out that may have arrived is then not counted). `TableTellsTruth`: started and succeeded jobs have the containers that make it true, whatever goes wrong. `RunningIsHeld`: while agents and connections stay up, the handler that started a running job waits for its container, or the result is on the way. `SlotHeld`: no slot leaks. `EveryJobEnds`: despite a restart or a Docker fault. `ContainersGo`: ended containers are removed in the end, unless a listing or a removal failed or a start succeeded without its answer. |
| `logs` | 1 viewer, 2 streams, 6 chunks, history 2, queue 2, 1 restart, fair | `TypeOK` (the caps), `InOrderToNewest` (no repeat, no hole, the newest never lost), `GapsVisible` (numbers jump exactly where chunks are missing), `LiveViewerComplete` (a live viewer misses nothing at the end), `StreamEnds`. |
| `doc_*` | as small as the counterexample | section 6. |

**Why the bounds are enough for their questions.** Each hazard needs at most two
actors of a kind: an older and a newer connection, the job being handled and
the one that overtakes it, an exhausted and a non-exhausted row. Two attempts
make requeue, retry and give-up all happen.
In `records` an agent's result is a success: the failure is the AckWatcher's,
and results of all kinds are `liveness`' business.
`connections` allows one attempt since its question is about connections: with
it a job is handed out once and then given up. One restart
reaches every volatile state, since a restart leaves the same state whatever
went before. For agents: two tasks that wait for one container need an old and a
new session, or two agents; `_running` is contested by two containers of one
job; each of these takes at most two of a cancel, a break, a crash and a failing
call. `Attended` excepts behaviours in which a removal failed or the answer of
`containers.run` was lost (the container stays and nobody waits for it until the
next listing), `Cancellable` the latter, and `RemovedOnlyWithResult` those in
which a `wait` failed (its `finally` removes a container whose output was not
read); the code swallows these failures. For logs, one viewer is enough because
viewers share nothing but what is published, and a queue of two overflows while
the viewer is at any of its suspension points.

`system` has one job because two would exceed what TLC explores; the interplay of jobs on the server is the question of `dispatch_order`
and `connections`, the one on the agents of `agents`, and both are checked there
against environments that include every behaviour of the other side. The
property `TypeOK` of `system` is what makes that inclusion more than a claim.
One kind of trouble at a time: with two of them the documents promise no
recovery. `MCSystemTroubles.cfg`, not among the runs, combines restarts, faults,
late heartbeats and overtaking answers freely for the safety properties, with
cancels in every state (`CancelIn`), and they hold there too; the theorems of
section 7 cover all combinations. `system` itself has clients cancel running jobs
only: cancels in other states multiply its states by two, and are the business
of `liveness` and `records` on the server. Five containers are more
than the three a job can come to have there. The second connection is the one
after a cut, a crash, a fault or a restart.
All instances are explored completely.

`MCAgentLiveness.cfg` is a further instance of `AgentRuntime`, not among the runs:
two agents, one container, two breaks and a crash, for `NoLeak`, the form
`ContainersGo` takes with several agents on one daemon.

Every property has a mutant in `PROJECT.json`: a change of one definition of the
model that a plausible bug in the code would correspond to, and which breaks the
property in the same run (a result that does not dispatch the next job, a lock
call that gives up when the lock is taken, an off-by-one in the attempts limit,
a key that becomes free when its job ends, ...).

## 5. Fairness

`FairSpec` adds fairness to what the server's own scheduling provides, never to
clients, agents, the network, heartbeats or crashes:

- weak fairness of the return of each `ws.send` (it returns, or fails once the
  keepalive of the WebSocket library finds the peer gone), hence of
  `DispatchReturn`, `TimeoutReturn`, `CancelReturn`;
- weak fairness of the rows a watcher still has to handle, and of scans that
  contain a given overdue job: the watchers run for ever, once per second;
- strong fairness of the AckWatcher's wake-up on a dispatch lock: others may
  keep taking the lock, but `asyncio.Lock` serves its waiters in order, so the
  watcher's turn comes.

`RunningEnds` says more than "the timeout fires": it holds when the agent never
answers, when its connection is dead, and across a restart. `CancelEnds` is
stated for requests the server does not die under (a cancel that was not stored
before a crash is lost; the client gets no answer).

`FairSpec` of `AgentRuntime`: weak fairness of each agent's main task (the
back-off ends, the daemon answers) and of the tasks that wait for a container.
No container has to end, and the server has to send nothing. `FairSpec` of
`JobSystem` assumes the least: as long as the server, an agent or a running
container can take a step, one of them does. Since requests, attempts and
troubles are bounded, that is enough. Here containers do end. `FairSpec` of
`LogPipeline`: weak fairness of each generator, which for its yields means that
a client that stays connected takes what it is sent.

## 6. Disagreements found

Each is a run that must find a violation; the property quotes the document.

- `doc_reconnect`: the clean-up of an old connection unregisters the agent *by
  id* and removes its newer connection; the agent stays connected and gets no
  work until it reconnects.
- `doc_double_execution`: "Duplicate delivery: idempotency prevents double
  execution" has no code behind it. The agent runs every job message it reads. A
  start that takes longer than the ack timeout gets the job requeued; its
  `started` and its result find the row `PENDING` and are ignored, but the result
  frees the slot, and the job is sent and run again, though nothing failed.
- `doc_no_ack`: the requeue after an ack timeout does not free the slot the lost
  dispatch took. An agent that stays connected and silent keeps its job
  `PENDING` for ever after one attempt; "up to 3 attempts, then FAILED" happens
  only if something else frees the slot.
- `doc_result_lost`: `executor.wait` removes the container before its result is
  sent; if the connection broke during the run, the send raises and the result is
  gone, though "state preserved; on reconnect, Agent reconciles container" is
  promised. An agent that dies between the two, or a reattach task of an earlier
  session that finishes first, loses it in the same way.
- `doc_cancel_kills`: the agent reads its next message only after the container
  of the current job ended, so the cancel of a running job is read too late.
  (It does work for a container that was reattached: `Cancellable`.)

Five more differences have a property and a `.cfg` that shows them, but are not
among the runs of `PROJECT.json`:

- `MCDocWriteFirst.cfg`: "Every state change writes to the DB first, then acts"
  (README.md:286) is the other way round in every handler that sends.
  `dispatch_pending` moves the row after `ws.send` returned
  (`server/gateway/connection.py:271-274`), and a cancel request and the
  TimeoutWatcher mark theirs after the `cancel` was sent
  (`server/api/app.py:131`, `server/watchers/timeout.py:48`). `RecordedBeforeSent`
  fails after two steps, a register and a submit: the `PENDING` job is on its way.
  `DispatchedWasSent`, which holds, is about the order the code chose instead:
  what a row says was sent, was sent. The price is a job that is on the wire and
  `PENDING` when the server restarts, and is executed once more: the `restarts`
  in `ExecutionBound`.
- `MCDocDoubleSend.cfg`: the clean-up of an old connection also pops the lock
  object while a dispatch holds it; the next registration makes a new lock and
  sends the same job again (`docs/EVIDENCE_PHASE1.md`, "Dispatch race").
- `MCDocTransitions.cfg`: README's transition table and its "any transition not
  in this table is invalid and is rejected" do not describe `mark_cancelled` and
  `fail_stale_dispatch`, which also end `DISPATCHED` jobs. (The table's row
  "agent disconnect before start" is not implemented at all: no code requeues on
  a disconnect.)
- `MCDocAckRunning.cfg`: the AckWatcher gives up a job that started after its
  scan, while it was awaiting the dispatch of an earlier row. Its container runs
  on and its result is ignored. Over the in-memory repository, which the tests
  use, the same watcher skips the job, since it computes the age from the live
  object, whose `updated_at` the start renewed
  (`server/repositories/job/memory.py:58`): no such test can meet this.
- `MCDocLogEnd.cfg`: a stream whose job is terminal when the replay of its
  history ends drops what was published during the replay.

And some were met in reading, which no model is about: `GET /jobs?state=...`
hands the repository a string where SQLite's expects a `JobState` and calls
`.value` on it (`api/app.py:99`, `repositories/job/sqlite.py:125`), so the request
fails; `tests/phase1/test_api.py` passes because the in-memory repository only
compares. "Log storage temporarily down: buffered in memory" is not implemented:
`_on_log` calls the repository once and the dispatch guard logs the exception.
"Every state transition recorded in `job_events`" holds only without a crash
between the two statements (`TrailReplays` excepts the jobs in `lost`).

## 7. What is proved

### The server

For **every** set of jobs, agents, connections, keys and priorities, every
`MaxAttempts >= 1` and every number of restarts, under the assumptions
`StoreAssumption` and `ControlPlaneAssumption` (disjointness of the sets of ids,
`None` is none of them, priorities are natural numbers, known result kinds):

| Theorem | States |
|---|---|
| `Invariance` | `Spec => []IInv` |
| `TypeCorrect` | `Spec => []TypeOK` |
| `SnapshotStaysCurrent` | `Spec => []SnapshotCurrent` |
| `BudgetKept` | `Spec => []RetryBudget` |
| `FinishedIsFinal` | `Spec => TerminalFinal` |
| `LifecycleKept` | `Spec => KeepsPromise`: the server implements `JobLifecycle` |
| `OutcomesFit` | `Spec => []OutcomeConsistent` |
| `KeysStayUnique` | `Spec => []OneJobPerKey` |
| `HandOutsHappened` | `Spec => []DispatchedWasSent` |
| `RoutingKept` | `Spec => []RoutedToOwner` |
| `QueueingIsFair` | `Spec => []FirstDispatchInOrder` |
| `NoLostWakeUp` | `Spec => []NoMissedDispatch` |
| `OneJobAtATime` | `Spec => []OneAtATime` |

The first six are in `ControlPlaneProofs`, the others in `DispatchProofs`.

**The argument, retries and lifecycle.** Two invariants need help. The AckWatcher requeues by the
attempts its *scan* read, so the budget is kept only if these are still the
row's attempts: `SnapshotCurrent`. That in turn holds because only `PENDING` rows
are charged and no row of a scan becomes `PENDING` before the watcher reaches
it. And the AckWatcher and a resumed cancel act on a job they remember, so it
must be a row: `KnownRows`. Hence
`IInv == TypeOK /\ KnownRows /\ SnapshotCurrent /\ RetryBudget`.

`JobStoreProofs` shows what each row operation preserves, and that all but the
AckWatcher's follow `HandlerEdge`. `TableSteps` then classifies every step of
the server by what it does to the table and the snapshot: a handler's edge on
one row, an insertion, a fresh snapshot, a decision of the AckWatcher, or
nothing. Everything after it (`KnownStep`, `SnapshotStep`, `BudgetStep`,
`FinalStep`, `PromiseStep`) is proved from that classification alone, without
opening the actions again. Types are the only part that goes through every
action variable by variable (`TypeStep`).

**The argument, hand-outs** (`DispatchProofs`). A second invariant, `DInv`, adds
to `IInv` what the other properties need of each other:

- `Registered`: the connection of an agent names that agent. It makes the
  registrations of different agents disjoint, so what one agent's result frees
  is never the slot of another; `RoutedToOwner` rests on it.
- `SendsWritten`, `SentRows`: what a coroutine remembers across `ws.send` was
  written to that connection, and is a row. `DispatchedWasSent` rests on them,
  since only the return of a send charges an attempt.
- `ClockAhead`: a new row is the newest. With `SentInOrder`, which is
  `FirstDispatchInOrder` from the moment a job is *written* instead of charged,
  it makes the order of first attempts inductive: a row inserted later cannot
  come before, a requeued row is not without attempts, and whichever coroutine
  writes a job chose it among all waiting rows in the same segment. No mutual
  exclusion is needed: the order holds even while two lock objects of one agent
  are alive.

Every step is one of four kinds (`Moves`): a coroutine visits one agent's queue
and leaves all other agents alone (`Visit`), a send returns, a step that fills
no queue and frees no slot (`Apart`), or a restart. `NoMissedDispatch` is
proved from that: a visit ends with the agent served, or queued for by a task
(`Looks`); a returning send either takes the slot or had lost its socket.

**The argument, one job at a time** (`OneJobAtATime`, from `LockInv`). The dispatch
lock is an object that the end of any of the agent's handlers throws away, so
what it excludes is stated per object: no two coroutines send for one agent
under the same lock object (`LockSound`). A coroutine sends on a connection of
the agent whose lock it holds (`SendsOwn`), so while the agent still has its
*first* object, at most one sends on any of its connections, and it does so only
if the slot was free (`SlotsFit`). A result can free the slot in the meantime but
never take it. Past that point the property fails: a coroutine that waits on the
object dropped by the old connection and one that takes its successor may both
send to the new connection. `MCDocDoubleSend.cfg` shows it.

### The agents

In `AgentProofs`, for every set of agents, jobs and containers and all bounds,
under `RuntimeAssumption`:

| Theorem | States |
|---|---|
| `AgentInvariance` | `Spec => []AgentInv` |
| `TypeCorrect` | `Spec => []TypeOK` |
| `ResultsPrecedeRemoval` | `Spec => RemovedOnlyWithResult` |
| `NoneForgotten` | `Spec => []Attended` |
| `CancelsFind` | `Spec => []Cancellable` |

Everything is proved of `Moves`, which is `Next` with a delivery (`Delivery`)
that any server may make, bounded by nothing; that is what lets `SystemProofs`
use it. `AgentInv` says what each place of `main` knows (`Placed`: in
`"report"` the container has ended, in `"launch"` it is created and ours), that
a listing goes stale in one direction only (`Snapshot`: what was listed as
exited stays ended), that `main` waits exactly while its one handler task is
pending (`Waits`), and that tasks wait for containers that were started, which
have ended from the task's second stage on and, unless a removal failed, are
removed when it sends (`RunsFit`). `MainMoves` and `Grows` classify the steps by what they do to one
agent's loop and to one container; the rest is proved from them. For `Attended`
and `Cancellable` the invariant must hold *before* the listing is worked off:
each container of a listed agent has a task, is still in the listing, or is in
the agent's hands (`AllCared`), and the same with its entry in `_running`
(`AllEntered`).

### The log

In `LogProofs`, for any number of viewers, streams and chunks and all limits,
under `LogAssumption`:

| Theorem | States |
|---|---|
| `TypeCorrect` | `Spec => []TypeOK`, the caps on history and queues included |
| `ReplayMeetsLive` | `Spec => []InOrderToNewest` |
| `HolesShow` | `Spec => []GapsVisible` |
| `LiveEndsComplete` | `Spec => []LiveViewerComplete` |

The invariant looks at *one* sequence per viewer: what it was shown, then the
rest of its replay, then its queue. That sequence ends at the newest chunk at
every moment, whatever the generator does next; replay, delivery and overflow
only move the borders between its parts or drop from the queue's front. Sequence
numbers count the chunks of a stream, so a jump between two neighbours is the
number of chunks missing between them.

### The whole system

In `JobSystemProofs` and `SystemProofs`, for all the constants above, any kinds of
trouble and any `MaxTrouble`, under `SystemAssumption`. With `MaxTrouble` at six
every kind may happen, as often as the other constants allow: restarts,
crashes, failing calls and connections are parameters, late heartbeats and
overtaking answers are unlimited.

| Theorem | States |
|---|---|
| `ServerImplemented` | `Spec => []Admissible /\ P!Spec`: the server in the system behaves as `ControlPlane` says |
| `ServerSafe`, `ClientsSafe` | so all its proved properties, and `JobLifecycle`, hold in the system |
| `SystemInvariance` | `Spec => []SystemInv` |
| `TypeCorrect` | `Spec => []TypeOK`: each side finds what it expects of the other |
| `TruthIsTold` | `Spec => []TableTellsTruth` |
| `AgentsSafe` | `Attended`, `Cancellable` and `RemovedWithResult` hold of the joined agents |
| `RunningHeld` | `Spec => []RunningIsHeld` |
| `SlotsHeld` | `Spec => []SlotHeld` |
| `ExecutionsBounded` | `Spec => []ExecutionBound` |

`ServerImplemented` needs only that messages on the way are well formed
(`Admissible`); that makes the open environment of `ControlPlane`, against which
its theorems are proved, more than a convenient assumption. The agents are then
shown to take the steps of `AgentRuntime`'s `Moves` (`AgentsMove`).

`TruthIsTold` needs both sides and the wire. `Begun` and `Ended` are the jobs of
containers that were started, and whose end was reported; neither ever shrinks
(`FactsLast`), so a message that was true when it was written is still true
when it is read, however late (`Truths`, `AllTrue`). It was true when written
because an agent writes only to a socket that is up while its connection is not
cut (`Wired`). And only the handlers of `started` and of a result of exit code 0
make a row claim anything of Docker (`Quiet`): every other step of the server
leaves such claims as they were.

`TypeCorrect` adds where jobs come from: an agent acts on, labels containers
with and reports only jobs the server handed out (`Knowing`), so the handlers'
`j \in EverSent` in `ControlPlane` refuses nothing that can arrive; and each agent
has a connection of its own, opened by `register`, exactly while it has a socket
(`Wires`).

The last three need invariants that go through the server's rows and slots, the
messages on the way and the place of each agent's loop at once.

`RunningHeld` is proved from `HeldInv`. While nothing broke (`Unbroken`), every
task belongs to its agent's current session (`Attached`), so its result goes to
the connection its `started` went to, and after it: every `started` on the way
is followed there by the job's result, or the handler that sent it is still
waiting (`Covered`). When the server reads a `started`, the row it makes
`RUNNING` is therefore held; when it reads a result, the row is not `RUNNING`
afterwards. An unused connection is empty (`Fresh`), so a new one starts covered.

`SlotsHeld` is a count (`SlotInv`). What the server charges to an agent's live
connection, or is about to charge when a send returns (`Charged`), is at most
what the agent still owes for it (`Owed`): orders to read, the one its loop has
in hand, results on the way. A send adds one to both sides in one step, since
the message is in the agent's inbox before `ws.send` returns; a result frees the
slot when it leaves the connection. The one step that can break the balance is a
result read while its own send has not returned: the slot is freed before it is
taken. That is the kind of trouble called `"overtaken"`, and the reason why the
property excepts it. The server's half of the count rests on `LockInv`: who
takes the lock writes one message, and no one else does.

`ExecutionsBounded` is proved from a potential (`BoundInv`). For each job, the
containers it has and the orders for it that its agent has yet to read or to act
on (`Total`) are at most the attempts counted in its row, the restarts of the
server, and one more while a send of it has not returned (`Allowed`). An agent
turns an order into a container and never one order into two (`ActsTotal`). The
server adds an order when a send starts, which pledges an attempt; the return
counts it, and a restart forgets it, but is a restart (`AllowedGrows`). What it
starts to send is `PENDING`, so `RetryBudget` leaves an attempt for it; a row that
has ended gets no orders any more. Three things have to be known for that.
Orders for a job are in the hands of *its* agent only (`Addressed`, which needs
`Named`: nobody else registers on an agent's connection). No two coroutines send
the same job (`SoleSender`), which again is the lock, and holds because no
handler ends while connections last (`Whole`). And a send returns with success
and finds its row `PENDING`, or ended meanwhile (`Serving`): an attempt that was
made is counted. A crash or a broken connection takes away the last two, and the
property excepts them: a send that fails is not counted, though the job may have
arrived.

### The audit trail and the in-memory repository

In `RecordProofs`, for all constants of `ControlPlane`:

| Theorem | States |
|---|---|
| `RecordsInvariance` | `RecordsSpec => []RInv` |
| `TrailsReplay` | `RecordsSpec => []TrailReplays` |
| `TrailsTellNoLie` | `RecordsSpec => []TrailNeverWrong` |
| `TablesAgree` | `RecordsSpec => []MemoryAgrees` |
| `FinalAcrossDeaths` | `RecordsSpec => TerminalFinal`, deaths in the middle of a handler included |

`RecordSteps` shows that a step of `JobRecords` is one of `ControlPlane` that makes
at most one statement and appends its event (`Telling`, `Adding`, `Repeating`), a
restart, or a death between the two; so all that is proved of the table carries
over, and `Death` shows that what a death leaves obeys the same rules.

The trail says "timed out" or "cancelled" although the statement may have done
nothing. That a careful reader is not misled needs two facts about what the
server remembers: a row the TimeoutWatcher is about to mark was running when it
was scanned, and rows never run backwards (`ExpiredRuns`); and if the event that
ended a job was lost, so was everything that remembered the job, so no later
event can end it in another way (`Behind`). `SnapshotCurrent` does the same for
the AckWatcher's requeues.

`TablesAgree` is proved row by row (`RowAgrees`), until the first restart.
`SameStatements` compares the two repositories statement by statement. What is
left is the AckWatcher, which over the in-memory repository decides on live
objects. If the row is still `DISPATCHED`, it decides alike, since
`SnapshotCurrent` makes the live attempts equal to the scan's. If it is not, the
watcher does nothing in memory, and over SQLite nothing either (a requeue is a
compare-and-swap, finished rows stay), except that it gives up a job that has
`started`: the one exception (`GivenUpStarted`). From then on the SQLite row is
finished, and the one in memory runs until it ends in some other way; that it
cannot come to look given up too (`NotGivenUp`) is where `OutcomeConsistent` is
needed: what is handed out was not started. The indexes agree because keys are
unique (`OneJobPerKey`).

### Only model-checked

The liveness properties: `RunningEnds`, `AckTimeoutActs` and `CancelEnds` of the
server, `EveryJobEnds` and `ContainersGo` of the system, `StreamEnds` of the log.
The prover handles neither `ENABLED` nor fairness. Every safety property that a
passing run checks is a theorem.

## 8. What is not modelled, and what is left

- **The log stream of the agent**: the `_stream` task, its sequence numbers, and its
  cancellation when `wait` returns, which cuts off the tail of the stored and the
  live log (the result carries the whole output). What is forwarded by then
  depends on the daemon's timing alone.
- **The reconnect back-off**: delays of 1 to 30 seconds. `Connect` may happen after
  any time.
- **Clock readings**: heartbeats, ack ages and job timeouts are "may have passed".
- **An exception that aborts a watcher's scan**, or a handler between two
  statements without the process dying: the base watcher scans again, the dispatch
  guard goes on with the next message.

Next would come: how often a job is executed when connections break. Each break
may cost one execution per attempt it interrupts, and the two lock objects alive
after the end of a handler one more; a bound that counts both would say what
`ExecutionBound` leaves open.

Never: rendering of log lines, JSON schemas, the PowerShell demo scripts,
logging configuration, and start-up wiring beyond what `Init` and `Restart` say.
The GET routes only read.
