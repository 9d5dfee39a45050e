---------------------------- MODULE AgentRuntime ----------------------------
(***************************************************************************)
(* Agents and the containers they run: the session loop with its           *)
(* reconciliation, the handlers of job and cancel messages, and the tasks  *)
(* that wait for a container.  All agents share one Docker daemon (the     *)
(* compose file mounts the host's socket into each), and a container       *)
(* carries only the label of its job, so every agent lists all of them.    *)
(*                                                                         *)
(* An agent is one thread of an event loop: main is the task of run(), and *)
(* every call into Docker or the socket is a point where others proceed.   *)
(* The server is the environment: it sends any job and any cancel to any   *)
(* connected agent.  Log streaming is left out (see LogPipeline).          *)
(***************************************************************************)
EXTENDS Naturals, Sequences, FiniteSets

CONSTANTS
    Agent, Job, Container, Nil,
    Fault,         \* calls into Docker that may fail: "list" "start" "wait" "remove";
                   \* "answer": the daemon starts the container, the call raises
    MaxJobs,       \* bound: job messages sent
    MaxCancels,    \* bound: cancel messages sent
    MaxBreaks,     \* bound: connections that break
    MaxCrashes,    \* bound: agent processes that die
    MaxFaults,     \* bound: calls into Docker that fail
    MaxEvents      \* bound: all of these four together

ASSUME RuntimeAssumption ==
    /\ Nil \notin Job \cup Container
    /\ Fault \subseteq {"list", "start", "answer", "wait", "remove"}
    /\ MaxJobs \in 0 .. Cardinality(Container)   \* one container per message
    /\ {MaxCancels, MaxBreaks, MaxCrashes, MaxFaults, MaxEvents} \subseteq Nat

VARIABLES
    docker,      \* per container: its state, label and the agent that ran it
    link,        \* per agent: its WebSocket; sends raise on a broken one
    inbox,       \* per agent: messages received and not yet read
    session,     \* per agent: how many sessions it has begun
    main,        \* per agent: where run() is, and its locals
    runs,        \* the pending executor.wait calls with what follows them
    running,     \* per agent: Agent._running, the container of a job
    reported,    \* containers whose result was written to a live connection
    used         \* how much of each bound is spent, and the calls that failed

vars == <<docker, link, inbox, session, main, runs, running, reported, used>>

(*  "created": made, not started (containers.run does both).               *)
ContainerState == {"none", "created", "running", "exited", "removed"}

(*  "off": between sessions; "list" .. "discard": in _reconcile; "start"   *)
(*  and "launch": in containers.run; "wait": in _on_job's executor.wait.   *)
Place == {"off", "list", "reconcile", "inspect", "report", "discard",
          "listen", "start", "launch", "wait"}

Off == [pc |-> "off", todo |-> {}, container |-> Nil, job |-> Nil,
        listed |-> FALSE]

(* A task that waits for a container.  handler: it is _on_job itself, and  *)
(* main is in "wait"; otherwise a _reattach task.  "wait": until the       *)
(* container ends; "remove": its output is read; "send": it was removed.   *)
Run == [agent : Agent, session : Nat, container : Container,
        handler : BOOLEAN, stage : {"wait", "remove", "send"}]

Init ==
    /\ docker = [c \in Container |-> [state |-> "none", job |-> Nil, by |-> Nil]]
    /\ link = [a \in Agent |-> "down"]
    /\ inbox = [a \in Agent |-> <<>>]
    /\ session = [a \in Agent |-> 0]
    /\ main = [a \in Agent |-> Off]
    /\ runs = {}
    /\ running = [a \in Agent |-> [j \in Job |-> Nil]]
    /\ reported = {}
    /\ used = [jobs |-> 0, cancels |-> 0, breaks |-> 0, crashes |-> 0, failed |-> {}]

Events ==
    used.cancels + used.breaks + used.crashes + Cardinality(used.failed)

Spend(bound, max) ==
    /\ used[bound] < max /\ (bound = "jobs" \/ Events < MaxEvents)
    /\ used' = [used EXCEPT ![bound] = @ + 1]

(* A call into Docker raises; each at most once. *)
Fails(call) ==
    /\ call \in Fault \ used.failed
    /\ Cardinality(used.failed) < MaxFaults /\ Events < MaxEvents
    /\ used' = [used EXCEPT !.failed = @ \cup {call}]

(* An exception, or the end of _listen, leaves the connection's context.   *)
EndSession(a) ==
    /\ main' = [main EXCEPT ![a] = Off]
    /\ link' = [link EXCEPT ![a] = "down"]
    /\ inbox' = [inbox EXCEPT ![a] = <<>>]

(* main goes on to pc, in the same session. *)
Goto(a, pc) ==
    /\ main' = [main EXCEPT ![a].pc = pc]
    /\ UNCHANGED <<link, inbox>>

(* Mutant: an exception of a send is ignored. *)
SendThenIgnore(a, pc) == Goto(a, pc)

(* A message is sent and main goes on, or the send raises. *)
SendThen(a, pc) == IF link[a] = "up" THEN Goto(a, pc) ELSE EndSession(a)

SetState(c, state) == docker' = [docker EXCEPT ![c].state = state]

-----------------------------------------------------------------------------
(* run(): connect, after the back-off, and register. *)
Connect(a) ==
    /\ main[a].pc = "off"
    /\ link' = [link EXCEPT ![a] = "up"]
    /\ session' = [session EXCEPT ![a] = @ + 1]
    /\ main' = [main EXCEPT ![a].pc = "list"]
    /\ UNCHANGED <<docker, inbox, runs, running, reported, used>>

(* Mutant: containers.list without all=True. *)
ManagedRunning == {c \in Container : docker[c].state = "running"}

(* The containers with our label, exited ones too. *)
Managed == {c \in Container : docker[c].state \notin {"none", "removed"}}

(* list_managed_containers: a snapshot of the containers and their states. *)
List(a) ==
    /\ main[a].pc = "list"
    /\ main' = [main EXCEPT ![a].pc = "reconcile", ![a].listed = TRUE,
                   ![a].todo = {[container |-> c, status |-> docker[c].state] :
                                   c \in Managed}]
    /\ UNCHANGED <<docker, link, inbox, session, runs, running, reported, used>>

(* The listing raises; the agent goes on to listen all the same. *)
ListFails(a) ==
    /\ main[a].pc = "list" /\ Fails("list")
    /\ Goto(a, "listen")
    /\ UNCHANGED <<docker, session, runs, running, reported>>

(* Mutant: the reattached container is not entered in _running. *)
ReattachUnlisted(a, c) ==
    /\ runs' = runs \cup {[agent |-> a, session |-> session[a], container |-> c,
                           handler |-> FALSE, stage |-> "wait"]}
    /\ UNCHANGED running

(* A container that was running: enter it and begin a _reattach task. *)
Reattach(a, c) ==
    /\ runs' = runs \cup {[agent |-> a, session |-> session[a], container |-> c,
                           handler |-> FALSE, stage |-> "wait"]}
    /\ running' = [running EXCEPT ![a][docker[c].job] = c]

(* The next container of the listing, in any order. *)
ReconcileNext(a) ==
    /\ main[a].pc = "reconcile"
    /\ \E x \in main[a].todo :
          LET next == [main[a] EXCEPT !.todo = @ \ {x}]
          IN  \/ /\ x.status = "running" /\ link[a] = "up"
                 /\ main' = [main EXCEPT ![a] = next]
                 /\ Reattach(a, x.container)
                 /\ UNCHANGED <<link, inbox>>
              \/ /\ x.status = "running" /\ link[a] # "up"
                 /\ EndSession(a)
                 /\ UNCHANGED <<runs, running>>
              \/ /\ x.status = "exited"
                 /\ main' = [main EXCEPT ![a] =
                       [next EXCEPT !.pc = "inspect", !.container = x.container]]
                 /\ UNCHANGED <<link, inbox, runs, running>>
              \/ /\ x.status = "created"
                 /\ main' = [main EXCEPT ![a] = next]
                 /\ UNCHANGED <<link, inbox, runs, running>>
    /\ UNCHANGED <<docker, session, reported, used>>

(* inspect_exited: raises if another agent removed the container. *)
Inspect(a) ==
    /\ main[a].pc = "inspect"
    /\ IF docker[main[a].container].state = "removed" THEN EndSession(a)
       ELSE Goto(a, "report")
    /\ UNCHANGED <<docker, session, runs, running, reported, used>>

(* Mutant: an exception of the send is swallowed. *)
ReportExitedSwallow(a) ==
    /\ main[a].pc = "report"
    /\ Goto(a, "discard")
    /\ reported' = IF link[a] = "up" THEN reported \cup {main[a].container} ELSE reported
    /\ UNCHANGED <<docker, session, runs, running, used>>

ReportExited(a) ==
    /\ main[a].pc = "report"
    /\ SendThen(a, "discard")
    /\ reported' = IF link[a] = "up" THEN reported \cup {main[a].container} ELSE reported
    /\ UNCHANGED <<docker, session, runs, running, used>>

Discard(a) ==
    /\ main[a].pc = "discard"
    /\ \/ SetState(main[a].container, "removed") /\ UNCHANGED used
       \/ Fails("remove") /\ UNCHANGED docker        \* logged, nothing else
    /\ main' = [main EXCEPT ![a].pc = "reconcile", ![a].container = Nil]
    /\ UNCHANGED <<link, inbox, session, runs, running, reported>>

(* The listing is worked off: begin to listen. *)
ReconcileDone(a) ==
    /\ main[a].pc = "reconcile" /\ main[a].todo = {}
    /\ Goto(a, "listen")
    /\ UNCHANGED <<docker, session, runs, running, reported, used>>

-----------------------------------------------------------------------------
(* _on_job: the ack goes out before anything else. *)
OnJob(a) ==
    /\ main[a].pc = "listen" /\ inbox[a] # <<>> /\ Head(inbox[a]).type = "job"
    /\ IF link[a] = "up"
       THEN /\ main' = [main EXCEPT ![a].pc = "start", ![a].job = Head(inbox[a]).job]
            /\ inbox' = [inbox EXCEPT ![a] = Tail(@)]
            /\ UNCHANGED link
       ELSE EndSession(a)
    /\ UNCHANGED <<docker, session, runs, running, reported, used>>

(* _on_cancel: kill what _running has for the job, if anything. *)
OnCancel(a) ==
    /\ main[a].pc = "listen" /\ inbox[a] # <<>> /\ Head(inbox[a]).type = "cancel"
    /\ LET c == running[a][Head(inbox[a]).job]
       IN  IF c # Nil /\ docker[c].state = "running" THEN SetState(c, "exited")
           ELSE UNCHANGED docker
    /\ inbox' = [inbox EXCEPT ![a] = Tail(@)]
    /\ UNCHANGED <<link, session, main, runs, running, reported, used>>

(* The connection is closed and everything received was read. *)
EndListen(a) ==
    /\ main[a].pc = "listen" /\ inbox[a] = <<>> /\ link[a] = "broken"
    /\ EndSession(a)
    /\ UNCHANGED <<docker, session, runs, running, reported, used>>

(* containers.run, first half. *)
CreateContainer(a) ==
    /\ main[a].pc = "start"
    /\ \E c \in Container :
          /\ docker[c].state = "none"
          /\ docker' = [docker EXCEPT ![c] =
                           [state |-> "created", job |-> main[a].job, by |-> a]]
          /\ main' = [main EXCEPT ![a].pc = "launch", ![a].container = c]
    /\ UNCHANGED <<link, inbox, session, runs, running, reported, used>>

(* containers.run raises: an error is the result.  It may leave a created  *)
(* container, or a running one if only the daemon's answer was lost.       *)
StartFails(a) ==
    /\ \/ main[a].pc \in {"start", "launch"} /\ Fails("start") /\ UNCHANGED docker
       \/ /\ main[a].pc = "launch" /\ Fails("answer")
          /\ SetState(main[a].container, "running")
    /\ IF link[a] = "up"
       THEN /\ main' = [main EXCEPT ![a] = [Off EXCEPT !.pc = "listen",
                                                       !.listed = main[a].listed]]
            /\ UNCHANGED <<link, inbox>>
       ELSE EndSession(a)
    /\ UNCHANGED <<session, runs, running, reported>>

(* containers.run, second half; _running, started, and the wait.  If the   *)
(* send raises, the container runs on without a task.                      *)
Launch(a) ==
    LET c == main[a].container
    IN  /\ main[a].pc = "launch"
        /\ SetState(c, "running")
        /\ running' = [running EXCEPT ![a][main[a].job] = c]
        /\ SendThen(a, "wait")
        /\ runs' = IF link[a] # "up" THEN runs
                   ELSE runs \cup {[agent |-> a, session |-> session[a],
                                    container |-> c, handler |-> TRUE,
                                    stage |-> "wait"]}
        /\ UNCHANGED <<session, reported, used>>

-----------------------------------------------------------------------------
(* executor.wait and what follows it.                                      *)

Pop(r) == running' = [running EXCEPT ![r.agent][docker[r.container].job] = Nil]

(* The handler goes back to listening. *)
HandlerDone(r) ==
    /\ main' = [main EXCEPT ![r.agent] = [Off EXCEPT !.pc = "listen",
                                              !.listed = main[r.agent].listed]]
    /\ UNCHANGED <<link, inbox>>

(* The wait returns and the output is read, perhaps by several tasks. *)
Collect(r) ==
    /\ r.stage = "wait" /\ docker[r.container].state = "exited"
    /\ runs' = (runs \ {r}) \cup {[r EXCEPT !.stage = "remove"]}
    /\ UNCHANGED <<docker, link, inbox, session, main, running, reported, used>>

(* Mutant: the container is not removed after the wait. *)
RemoveNothing(r) ==
    /\ r.stage = "remove"
    /\ runs' = (runs \ {r}) \cup {[r EXCEPT !.stage = "send"]}
    /\ UNCHANGED <<docker, link, inbox, session, main, running, reported, used>>

(* The finally removes the container, before anything is sent.  That it    *)
(* is gone already, or another failure, is logged.                         *)
Remove(r) ==
    /\ r.stage = "remove"
    /\ \/ SetState(r.container, "removed") /\ UNCHANGED used
       \/ Fails("remove") /\ UNCHANGED docker
    /\ runs' = (runs \ {r}) \cup {[r EXCEPT !.stage = "send"]}
    /\ UNCHANGED <<link, inbox, session, main, running, reported>>

(* The wait, or the reading of the output, raises: another agent or task   *)
(* removed the container, or the daemon failed.  The finally removes it    *)
(* even if it still runs.  There is no result; _reattach logs that, the    *)
(* handler ends the session.                                               *)
WaitFails(r) ==
    /\ r.stage = "wait"
    /\ \/ docker[r.container].state = "removed" /\ UNCHANGED <<docker, used>>
       \/ /\ docker[r.container].state \in {"running", "exited"} /\ Fails("wait")
          /\ SetState(r.container, "removed")
    /\ runs' = runs \ {r}
    /\ Pop(r)
    /\ IF r.handler THEN EndSession(r.agent) ELSE UNCHANGED <<main, link, inbox>>
    /\ UNCHANGED <<session, reported>>

(* The result is sent on the connection the task began with. *)
SendResult(r) ==
    LET sent == r.session = session[r.agent] /\ link[r.agent] = "up"
    IN  /\ r.stage = "send"
        /\ runs' = runs \ {r}
        /\ Pop(r)
        /\ reported' = IF sent THEN reported \cup {r.container} ELSE reported
        /\ CASE r.handler /\ sent  -> HandlerDone(r)
             [] r.handler /\ ~sent -> EndSession(r.agent)
             [] ~r.handler         -> UNCHANGED <<main, link, inbox>>
        /\ UNCHANGED <<docker, session, used>>

-----------------------------------------------------------------------------
(* The environment. *)

Exit(c) ==
    /\ docker[c].state = "running"
    /\ SetState(c, "exited")
    /\ UNCHANGED <<link, inbox, session, main, runs, running, reported, used>>

Receive(a, type, j) ==
    /\ link[a] = "up"
    /\ inbox' = [inbox EXCEPT ![a] = Append(@, [type |-> type, job |-> j])]
    /\ UNCHANGED <<docker, link, session, main, runs, running, reported>>

ServerSends(a, j) ==
    \/ Spend("jobs", MaxJobs) /\ Receive(a, "job", j)
    \/ Spend("cancels", MaxCancels) /\ Receive(a, "cancel", j)

Break(a) ==
    /\ link[a] = "up" /\ Spend("breaks", MaxBreaks)
    /\ link' = [link EXCEPT ![a] = "broken"]
    /\ UNCHANGED <<docker, inbox, session, main, runs, running, reported>>

(* The agent dies and is started again; its containers live on, and one    *)
(* that it was starting may have been started.                             *)
Crash(a) ==
    /\ Spend("crashes", MaxCrashes)
    /\ \/ UNCHANGED docker
       \/ main[a].pc = "launch" /\ SetState(main[a].container, "running")
    /\ EndSession(a)
    /\ runs' = {r \in runs : r.agent # a}
    /\ running' = [running EXCEPT ![a] = [j \in Job |-> Nil]]
    /\ UNCHANGED <<session, reported>>

-----------------------------------------------------------------------------
Reconcile(a) ==
    \/ List(a) \/ ListFails(a) \/ ReconcileNext(a) \/ Inspect(a)
    \/ ReportExited(a) \/ Discard(a) \/ ReconcileDone(a)

Listen(a) ==
    \/ OnJob(a) \/ OnCancel(a) \/ EndListen(a)
    \/ CreateContainer(a) \/ StartFails(a) \/ Launch(a)

Work(r) == Collect(r) \/ Remove(r) \/ WaitFails(r) \/ SendResult(r)

Next ==
    \/ \E a \in Agent : Connect(a) \/ Reconcile(a) \/ Listen(a)
    \/ \E r \in runs : Work(r)
    \/ \E c \in Container : Exit(c)
    \/ \E a \in Agent, j \in Job : ServerSends(a, j)
    \/ \E a \in Agent : Break(a) \/ Crash(a)

Spec == Init /\ [][Next]_vars

(* The event loop runs every task that can run, the daemon answers, and    *)
(* the back-off ends.  No container has to end and nobody has to send.     *)
Fairness ==
    \A a \in Agent :
        /\ WF_vars(Connect(a) \/ Reconcile(a) \/ Listen(a))
        /\ \A c \in Container :
              WF_vars(\E r \in runs : r.agent = a /\ r.container = c /\ Work(r))

FairSpec == Spec /\ Fairness

-----------------------------------------------------------------------------
(* Types, and main is in executor.wait exactly while its task is pending.  *)
TypeOK ==
    /\ docker \in [Container -> [state : ContainerState, job : Job \cup {Nil},
                                 by : Agent \cup {Nil}]]
    /\ link \in [Agent -> {"down", "up", "broken"}]
    /\ inbox \in [Agent -> Seq([type : {"job", "cancel"}, job : Job])]
    /\ session \in [Agent -> Nat]
    /\ main \in [Agent -> [pc : Place, container : Container \cup {Nil},
                           job : Job \cup {Nil}, listed : BOOLEAN,
                           todo : SUBSET [container : Container,
                                          status : {"created", "running", "exited"}]]]
    /\ runs \subseteq Run
    /\ running \in [Agent -> [Job -> Container \cup {Nil}]]
    /\ reported \subseteq Container
    /\ \A a \in Agent :
          /\ main[a].pc = "off" <=> link[a] = "down"
          /\ Cardinality({r \in runs : r.agent = a /\ r.handler})
                = IF main[a].pc = "wait" THEN 1 ELSE 0

(* In a session whose listing succeeded and is worked off. *)
Settled(a) == main[a].listed /\ main[a].pc \in {"listen", "start", "launch", "wait"}

Own(a) == {c \in Container : docker[c].by = a}

(* No container is forgotten: once an agent has worked off its listing,    *)
(* each container it ever started and that still exists has a task of that *)
(* agent which waits for it, through crashes, broken connections, earlier  *)
(* listings that failed and sends that raised between start and wait;      *)
(* provided that no removal failed, and no start of which the agent did    *)
(* not learn that it succeeded.                                            *)
Attended ==
    \A a \in Agent : Settled(a) /\ used.failed \cap {"answer", "remove"} = {} =>
        \A c \in Own(a) : docker[c].state \in {"running", "exited"} =>
            \E r \in runs : r.agent = a /\ r.container = c

(* A cancel finds its container: a running container of a settled agent is *)
(* the one _running has for its job, if the job never had another and no   *)
(* start raised though it succeeded.  (With two containers for one job,    *)
(* the end of one drops the other's entry.)                                *)
Cancellable ==
    \A a \in Agent : Settled(a) /\ "answer" \notin used.failed =>
        \A c \in Own(a) :
            /\ docker[c].state = "running"
            /\ \A d \in Container : docker[d].job = docker[c].job => d = c
            => running[a][docker[c].job] = c

(* A container leaves Docker only once its result was sent, or is held by  *)
(* a task that is about to send it: reconciliation discards nothing it     *)
(* could not report, and two tasks that wait for one container never leave *)
(* it without a result; provided that no wait failed, whose finally        *)
(* removes the container all the same.                                     *)
RemovedOnlyWithResult ==
    [][\A c \in Container :
          /\ docker[c].state # "removed" /\ docker'[c].state = "removed"
          /\ "wait" \notin used'.failed
          => \/ c \in reported'
             \/ \E r \in runs' : r.container = c /\ r.stage # "wait"]_vars

(* Every container that ended is removed in the end, whatever connections  *)
(* broke and agents died, if no listing and no removal fails.              *)
NoLeak ==
    \A c \in Container : docker[c].state = "exited" ~> docker[c].state = "removed"

(* README.md: "Agent disconnects mid-run | State preserved; on reconnect,  *)
(* Agent reconciles container".  So a container that is gone has its       *)
(* result reported, or held by a task that can still report it.            *)
ResultKept ==
    \A c \in Container : docker[c].state = "removed" =>
        \/ c \in reported
        \/ \E r \in runs : r.container = c

(* README.md: "Timeout reached | Server sends `cancel`; Agent kills        *)
(* container".  So a cancel that reached the agent whose container runs    *)
(* ends it, or the connection does not last.                               *)
CancelKills ==
    \A a \in Agent, c \in Container :
        /\ docker[c].state = "running" /\ docker[c].by = a /\ link[a] = "up"
        /\ \E i \in 1 .. Len(inbox[a]) :
              inbox[a][i] = [type |-> "cancel", job |-> docker[c].job]
        ~> docker[c].state # "running" \/ link[a] # "up"
=============================================================================
