---------------------------- MODULE AgentProofs ----------------------------
(***************************************************************************)
(* Proofs about AgentRuntime, for any agents, jobs and containers, and any *)
(* bounds on messages, broken connections, crashes and failing calls.      *)
(*                                                                         *)
(* The proofs are about Moves, where the server sends what it likes, so    *)
(* that they hold of the agents wherever their messages come from.         *)
(***************************************************************************)
EXTENDS AgentRuntime, FiniteSetTheorems, SequenceTheorems, TLAPS

Tally == [jobs : Nat, cancels : Nat, breaks : Nat, crashes : Nat,
          failed : SUBSET {"list", "start", "answer", "wait", "remove"}]

Delivery ==
    /\ \E a \in Agent, type \in {"job", "cancel"}, j \in Job : Receive(a, type, j)
    /\ used' \in Tally /\ used'.failed = used.failed

Moves ==
    \/ \E a \in Agent : Connect(a) \/ Reconcile(a) \/ Listen(a)
    \/ \E r \in runs : Work(r)
    \/ \E c \in Container : Exit(c)
    \/ Delivery
    \/ \E a \in Agent : Break(a) \/ Crash(a)

-----------------------------------------------------------------------------
(* The inductive invariant. *)

Message == [type : {"job", "cancel"}, job : Job]

Item == [container : Container, status : {"created", "running", "exited"}]

MainState ==
    [pc : Place, container : Container \cup {Nil}, job : Job \cup {Nil},
     listed : BOOLEAN, todo : SUBSET Item]

Label == [state : ContainerState, job : Job \cup {Nil}, by : Agent \cup {Nil}]

Typed ==
    /\ docker \in [Container -> Label]
    /\ link \in [Agent -> {"down", "up", "broken"}]
    /\ inbox \in [Agent -> Seq(Message)]
    /\ session \in [Agent -> Nat]
    /\ main \in [Agent -> MainState]
    /\ runs \subseteq Run
    /\ running \in [Agent -> [Job -> Container \cup {Nil}]]
    /\ reported \subseteq Container
    /\ used \in Tally

(* A container that was started; one that runs no more. *)
Begun(c) == docker[c].state \in {"running", "exited", "removed"}

Over(c) == docker[c].state \in {"exited", "removed"}

(* A container has its label and its agent from the start. *)
Labelled ==
    \A c \in Container :
        IF docker[c].state = "none" THEN docker[c].job = Nil /\ docker[c].by = Nil
        ELSE docker[c].job \in Job /\ docker[c].by \in Agent

(* What main knows where it is. *)
Placed(a) ==
    LET m == main[a]
    IN  /\ m.pc = "off" <=> link[a] = "down"
        /\ m.pc \in {"off", "list"} => ~m.listed
        /\ m.pc \notin {"reconcile", "inspect", "report", "discard"} => m.todo = {}
        /\ m.pc \in {"start", "launch"} => m.job \in Job
        /\ m.pc \in {"inspect", "report", "discard"} =>
              m.container \in Container /\ Over(m.container)
        /\ m.pc = "discard" => m.container \in reported
        /\ m.pc = "launch" =>
              /\ m.container \in Container
              /\ docker[m.container] = [state |-> "created", job |-> m.job, by |-> a]

(* What is left of the listing is out of date in one direction only. *)
Snapshot(a) ==
    \A x \in main[a].todo :
        /\ x.status = "running" => Begun(x.container)
        /\ x.status = "exited" => Over(x.container)
        /\ x.status = "created" /\ docker[x.container].by = a =>
              docker[x.container].state = "created"

Handlers(a) == {r \in runs : r.agent = a /\ r.handler}

(* main is in executor.wait exactly while its task is pending. *)
Waits(a) ==
    IF main[a].pc = "wait" THEN \E r \in runs : Handlers(a) = {r}
    ELSE Handlers(a) = {}

(* Tasks wait for containers that were started, and remove them before     *)
(* they report.                                                            *)
RunsFit ==
    \A r \in runs :
        /\ Begun(r.container)
        /\ r.stage # "wait" => Over(r.container)
        /\ r.stage = "send" /\ "remove" \notin used.failed =>
              docker[r.container].state = "removed"

ReportedBegun == \A c \in reported : Begun(c)

AgentInv ==
    /\ Typed /\ Labelled
    /\ \A a \in Agent : Placed(a) /\ Snapshot(a) /\ Waits(a)
    /\ RunsFit /\ ReportedBegun

-----------------------------------------------------------------------------
(* What a step may do to a container. *)

Launching(a, c) == main[a].pc = "launch" /\ main[a].container = c

Grows(c) ==
    \/ docker'[c] = docker[c]
    \/ /\ docker[c].state = "none"
       /\ \E a \in Agent :
             /\ main[a].pc = "start" /\ main[a].job \in Job
             /\ docker'[c] = [state |-> "created", job |-> main[a].job, by |-> a]
    \/ /\ docker'[c] = [state |-> docker'[c].state, job |-> docker[c].job,
                        by |-> docker[c].by]
       /\ \/ /\ docker[c].state = "created" /\ docker'[c].state = "running"
             /\ Launching(docker[c].by, c) /\ main'[docker[c].by].pc # "launch"
          \/ docker[c].state = "running" /\ docker'[c].state = "exited"
          \/ Begun(c) /\ docker'[c].state = "removed"

LEMMA SetGrows ==
    ASSUME Typed, NEW c \in Container, NEW state, SetState(c, state),
           \/ /\ docker[c].state = "created" /\ state = "running"
              /\ Launching(docker[c].by, c) /\ main'[docker[c].by].pc # "launch"
           \/ docker[c].state = "running" /\ state = "exited"
           \/ Begun(c) /\ state = "removed"
    PROVE  \A d \in Container : Grows(d)
<1>1. /\ docker'[c].state = state
      /\ docker'[c] = [state |-> docker'[c].state, job |-> docker[c].job,
                       by |-> docker[c].by]
      /\ \A d \in Container \ {c} : docker'[d] = docker[d]
  BY DEF Typed, Label, SetState
<1>2. Grows(c)
  BY <1>1 DEF Grows
<1>3. ASSUME NEW d \in Container \ {c} PROVE Grows(d)
  BY <1>1 DEF Grows
<1>. QED
  BY <1>2, <1>3

LEMMA DockerStep ==
    ASSUME AgentInv, Moves
    PROVE  \A c \in Container : Grows(c)
<1>. SUFFICES ASSUME NEW c \in Container PROVE Grows(c)
  OBVIOUS
<1>. Typed /\ Labelled
  BY DEF AgentInv
<1>1. CASE UNCHANGED docker
  BY <1>1 DEF Grows
<1>2. ASSUME NEW a \in Agent, Discard(a) PROVE Grows(c)
  <2>1. main[a].container \in Container /\ Over(main[a].container)
    BY <1>2 DEF AgentInv, Placed, Discard
  <2>2. CASE SetState(main[a].container, "removed")
    BY <2>1, <2>2, SetGrows DEF Over, Begun
  <2>. QED
    BY <1>1, <1>2, <2>2 DEF Discard
<1>3. ASSUME NEW a \in Agent, OnCancel(a) PROVE Grows(c)
  <2>. DEFINE d == running[a][Head(inbox[a]).job]
  <2>1. CASE d # Nil /\ docker[d].state = "running"
    <3>1. Head(inbox[a]).job \in Job
      <4>1. inbox[a] \in Seq(Message) /\ inbox[a] # <<>>
        BY <1>3 DEF OnCancel, Typed
      <4>2. Head(inbox[a]) \in Message
        BY <4>1, HeadTailProperties
      <4>. QED
        BY <4>2 DEF Message
    <3>2. d \in Container
      BY <2>1, <3>1 DEF Typed
    <3>3. SetState(d, "exited")
      BY <1>3, <2>1 DEF OnCancel
    <3>. QED
      BY <2>1, <3>2, <3>3, SetGrows
  <2>. QED
    BY <1>1, <1>3, <2>1 DEF OnCancel
<1>4. ASSUME NEW a \in Agent, CreateContainer(a) PROVE Grows(c)
  <2>1. main[a].pc = "start" /\ main[a].job \in Job
    BY <1>4 DEF AgentInv, Placed, CreateContainer
  <2>2. PICK d \in Container :
            /\ docker[d].state = "none"
            /\ docker' = [docker EXCEPT ![d] =
                             [state |-> "created", job |-> main[a].job, by |-> a]]
    BY <1>4 DEF CreateContainer
  <2>. QED
    BY <2>1, <2>2 DEF Grows, Typed, Label
<1>5. ASSUME NEW a \in Agent, Launch(a) PROVE Grows(c)
  <2>. DEFINE d == main[a].container
  <2>1. d \in Container /\ docker[d] = [state |-> "created", job |-> main[a].job, by |-> a]
    BY <1>5 DEF AgentInv, Placed, Launch
  <2>2. SetState(d, "running") /\ Launching(a, d)
    BY <1>5 DEF Launch, Launching
  <2>3. main'[a].pc # "launch"
    BY <1>5 DEF Launch, SendThen, Goto, EndSession, Off, Typed, MainState
  <2>. QED
    BY <2>1, <2>2, <2>3, SetGrows
<1>6. ASSUME NEW r \in runs, Remove(r) PROVE Grows(c)
  <2>1. r.container \in Container /\ Begun(r.container)
    BY DEF AgentInv, Typed, Run, RunsFit
  <2>2. CASE SetState(r.container, "removed")
    BY <2>1, <2>2, SetGrows
  <2>. QED
    BY <1>1, <1>6, <2>2 DEF Remove
<1>7. ASSUME NEW r \in runs, WaitFails(r) PROVE Grows(c)
  <2>1. r.container \in Container
    BY DEF Typed, Run
  <2>2. CASE /\ docker[r.container].state \in {"running", "exited"}
             /\ SetState(r.container, "removed")
    BY <2>1, <2>2, SetGrows DEF Begun
  <2>. QED
    BY <1>1, <1>7, <2>2 DEF WaitFails
<1>8. ASSUME NEW d \in Container, Exit(d) PROVE Grows(c)
  BY <1>8, SetGrows DEF Exit
<1>9. ASSUME NEW a \in Agent,
             \/ Connect(a) \/ List(a) \/ ListFails(a) \/ ReconcileNext(a)
             \/ Inspect(a) \/ ReportExited(a) \/ ReconcileDone(a)
             \/ OnJob(a) \/ EndListen(a) \/ Break(a)
      PROVE  Grows(c)
  <2>1. UNCHANGED docker
    BY <1>9 DEF Connect, List, ListFails, ReconcileNext, Inspect, ReportExited,
                ReconcileDone, OnJob, EndListen, Break
  <2>. QED
    BY <1>1, <2>1
<1>10. ASSUME NEW r \in runs, Collect(r) \/ SendResult(r) PROVE Grows(c)
  BY <1>1, <1>10 DEF Collect, SendResult
<1>11. CASE Delivery
  BY <1>1, <1>11 DEF Delivery, Receive
<1>12. ASSUME NEW a \in Agent, StartFails(a) \/ Crash(a) PROVE Grows(c)
  <2>. DEFINE d == main[a].container
  <2>1. CASE main[a].pc = "launch" /\ SetState(d, "running")
    <3>1. /\ d \in Container
          /\ docker[d] = [state |-> "created", job |-> main[a].job, by |-> a]
      BY <2>1 DEF AgentInv, Placed
    <3>2. Launching(a, d)
      BY <2>1 DEF Launching
    <3>3. main'[a].pc # "launch"
      <4>1. [Off EXCEPT !.pc = "listen", !.listed = main[a].listed].pc # "launch"
        BY DEF Off
      <4>2. EndSession(a) => main'[a].pc # "launch"
        BY DEF EndSession, Off, Typed
      <4>3. \A m : main' = [main EXCEPT ![a] = m] => main'[a] = m
        BY DEF Typed
      <4>. QED
        BY <1>12, <4>1, <4>2, <4>3 DEF StartFails, Crash
    <3>. QED
      BY <2>1, <3>1, <3>2, <3>3, SetGrows
  <2>. QED
    BY <1>1, <1>12, <2>1 DEF StartFails, Crash
<1>. QED
  BY <1>2, <1>3, <1>4, <1>5, <1>6, <1>7, <1>8, <1>9, <1>10, <1>11, <1>12
     DEF Moves, Reconcile, Listen, Work

-----------------------------------------------------------------------------
(* Types. *)

LEMMA Failing ==
    ASSUME Typed, NEW call, Fails(call)
    PROVE  used' \in Tally /\ used.failed \subseteq used'.failed /\ call \in used'.failed
<1>1. call \in {"list", "start", "answer", "wait", "remove"}
  BY RuntimeAssumption DEF Fails
<1>. QED
  BY <1>1 DEF Typed, Tally, Fails

LEMMA Spending ==
    ASSUME Typed, NEW bound \in {"jobs", "cancels", "breaks", "crashes"}, NEW max,
           Spend(bound, max)
    PROVE  used' \in Tally /\ used'.failed = used.failed
<1>1. used \in Tally /\ used' = [used EXCEPT ![bound] = @ + 1]
  BY DEF Typed, Spend
<1>2. used[bound] + 1 \in Nat
  BY <1>1 DEF Tally
<1>. QED
  BY <1>1, <1>2 DEF Tally

LEMMA NextIsMove ==
    ASSUME Typed, [Next]_vars
    PROVE  Moves \/ UNCHANGED vars
<1>1. ASSUME NEW a \in Agent, NEW j \in Job, ServerSends(a, j) PROVE Delivery
  <2>1. CASE Spend("jobs", MaxJobs) /\ Receive(a, "job", j)
    BY <2>1, Spending DEF Delivery
  <2>2. CASE Spend("cancels", MaxCancels) /\ Receive(a, "cancel", j)
    BY <2>2, Spending DEF Delivery
  <2>. QED
    BY <1>1, <2>1, <2>2 DEF ServerSends
<1>. QED
  BY <1>1 DEF Next, Moves

LEMMA UsedStep ==
    ASSUME Typed, Moves
    PROVE  used' \in Tally /\ used.failed \subseteq used'.failed
<1>1. CASE UNCHANGED used
  BY <1>1 DEF Typed
<1>2. ASSUME NEW a \in Agent, ListFails(a) \/ StartFails(a) \/ Discard(a)
      PROVE  used' \in Tally /\ used.failed \subseteq used'.failed
  BY <1>1, <1>2, Failing DEF ListFails, StartFails, Discard
<1>3. ASSUME NEW r \in runs, Remove(r) \/ WaitFails(r)
      PROVE  used' \in Tally /\ used.failed \subseteq used'.failed
  BY <1>1, <1>3, Failing DEF Remove, WaitFails
<1>4. CASE Delivery
  BY <1>4 DEF Delivery
<1>5. ASSUME NEW a \in Agent, Break(a) \/ Crash(a)
      PROVE  used' \in Tally /\ used.failed \subseteq used'.failed
  BY <1>5, Spending DEF Break, Crash
<1>6. ASSUME NEW a \in Agent,
             \/ Connect(a) \/ List(a) \/ ReconcileNext(a) \/ Inspect(a)
             \/ ReportExited(a) \/ ReconcileDone(a) \/ OnJob(a) \/ OnCancel(a)
             \/ EndListen(a) \/ CreateContainer(a) \/ Launch(a)
      PROVE  used' \in Tally /\ used.failed \subseteq used'.failed
  <2>1. UNCHANGED used
    BY <1>6 DEF Connect, List, ReconcileNext, Inspect, ReportExited, ReconcileDone,
                OnJob, OnCancel, EndListen, CreateContainer, Launch
  <2>. QED
    BY <1>1, <2>1
<1>7. ASSUME NEW r \in runs, Collect(r) \/ SendResult(r)
      PROVE  used' \in Tally /\ used.failed \subseteq used'.failed
  BY <1>1, <1>7 DEF Collect, SendResult
<1>8. ASSUME NEW c \in Container, Exit(c)
      PROVE  used' \in Tally /\ used.failed \subseteq used'.failed
  BY <1>1, <1>8 DEF Exit
<1>. QED
  BY <1>2, <1>3, <1>4, <1>5, <1>6, <1>7, <1>8 DEF Moves, Reconcile, Listen, Work

(* The agent's own loop: where it is, its socket and its inbox. *)
Looped ==
    /\ link \in [Agent -> {"down", "up", "broken"}]
    /\ inbox \in [Agent -> Seq(Message)]
    /\ main \in [Agent -> MainState]

LEMMA OffTyped == Off \in MainState
  BY DEF Off, MainState, Place

LEMMA LoopGoes ==
    ASSUME Typed, NEW a \in Agent
    PROVE  /\ \A pc \in Place : Goto(a, pc) \/ SendThen(a, pc) => Looped'
           /\ EndSession(a) => Looped'
<1>1. EndSession(a) => Looped'
  <2>1. <<>> \in Seq(Message)
    BY EmptySeq
  <2>. QED
    BY <2>1, OffTyped DEF EndSession, Typed, Looped
<1>2. ASSUME NEW pc \in Place, Goto(a, pc) PROVE Looped'
  BY <1>2 DEF Goto, Typed, Looped, MainState
<1>. QED
  BY <1>1, <1>2 DEF SendThen

LEMMA LoopStep ==
    ASSUME AgentInv, Moves
    PROVE  Looped'
<1>. Typed
  BY DEF AgentInv
<1>1. CASE UNCHANGED <<link, inbox, main>>
  BY <1>1 DEF Typed, Looped
<1>2. ASSUME NEW a \in Agent, Connect(a) PROVE Looped'
  BY <1>2 DEF Connect, Typed, Looped, MainState, Place
<1>3. ASSUME NEW a \in Agent, List(a) PROVE Looped'
  <2>1. ASSUME NEW c \in Managed
        PROVE  [container |-> c, status |-> docker[c].state] \in Item
    BY DEF Managed, Typed, Label, ContainerState, Item
  <2>2. {[container |-> c, status |-> docker[c].state] : c \in Managed} \in SUBSET Item
    BY <2>1
  <2>3. PICK listing \in SUBSET Item :
            /\ main' = [main EXCEPT ![a].pc = "reconcile", ![a].listed = TRUE,
                                   ![a].todo = listing]
            /\ UNCHANGED <<link, inbox>>
    BY <1>3, <2>2 DEF List
  <2>4. [main[a] EXCEPT !.pc = "reconcile", !.listed = TRUE, !.todo = listing] \in MainState
    BY DEF Typed, MainState, Place
  <2>5. main' = [main EXCEPT ![a] = [main[a] EXCEPT !.pc = "reconcile", !.listed = TRUE,
                                                   !.todo = listing]]
    BY <2>3 DEF Typed
  <2>. QED
    BY <2>3, <2>4, <2>5 DEF Typed, Looped
<1>4. ASSUME NEW a \in Agent,
             ListFails(a) \/ Inspect(a) \/ ReportExited(a) \/ ReconcileDone(a) \/ EndListen(a)
      PROVE  Looped'
  <2>1. {"listen", "report", "discard"} \subseteq Place
    BY DEF Place
  <2>. QED
    BY <1>4, <2>1, LoopGoes DEF ListFails, Inspect, ReportExited, ReconcileDone, EndListen
<1>5. ASSUME NEW a \in Agent, ReconcileNext(a) PROVE Looped'
  <2>. DEFINE next(x) == [main[a] EXCEPT !.todo = @ \ {x}]
  <2>1. PICK x \in main[a].todo :
            \/ EndSession(a)
            \/ /\ UNCHANGED <<link, inbox>>
               /\ main' = [main EXCEPT ![a] = next(x)]
            \/ /\ UNCHANGED <<link, inbox>>
               /\ main' = [main EXCEPT ![a] =
                              [next(x) EXCEPT !.pc = "inspect", !.container = x.container]]
    BY <1>5 DEF ReconcileNext
  <2>2. x.container \in Container /\ next(x) \in MainState
    <3>1. main[a] \in MainState
      BY DEF Typed
    <3>2. main[a].todo \subseteq Item /\ x \in Item
      BY <3>1 DEF MainState
    <3>3. main[a].todo \ {x} \in SUBSET Item
      BY <3>2
    <3>. QED
      BY <3>1, <3>2, <3>3 DEF MainState, Item
  <2>3. [next(x) EXCEPT !.pc = "inspect", !.container = x.container] \in MainState
    BY <2>2 DEF MainState, Place
  <2>. HIDE DEF next
  <2>. QED
    BY <2>1, <2>2, <2>3, LoopGoes DEF Typed, Looped
<1>6. ASSUME NEW a \in Agent, Discard(a) PROVE Looped'
  <2>1. /\ main' = [main EXCEPT ![a].pc = "reconcile", ![a].container = Nil]
        /\ UNCHANGED <<link, inbox>>
    BY <1>6 DEF Discard
  <2>2. [main[a] EXCEPT !.pc = "reconcile", !.container = Nil] \in MainState
    BY DEF Typed, MainState, Place
  <2>3. main' = [main EXCEPT ![a] = [main[a] EXCEPT !.pc = "reconcile", !.container = Nil]]
    BY <2>1 DEF Typed
  <2>. QED
    BY <2>1, <2>2, <2>3 DEF Typed, Looped
<1>7. ASSUME NEW a \in Agent, OnJob(a) \/ OnCancel(a) PROVE Looped'
  <2>1. inbox[a] \in Seq(Message) /\ inbox[a] # <<>>
    BY <1>7 DEF OnJob, OnCancel, Typed
  <2>2. /\ Head(inbox[a]) \in Message
        /\ Tail(inbox[a]) \in Seq(Message)
    BY <2>1, HeadTailProperties
  <2>3. Head(inbox[a]).job \in Job
    BY <2>2 DEF Message
  <2>4. [main[a] EXCEPT !.pc = "start", !.job = Head(inbox[a]).job] \in MainState
    BY <2>3 DEF Typed, MainState, Place
  <2>5. CASE OnCancel(a)
    BY <2>2, <2>5 DEF OnCancel, Typed, Looped
  <2>6. CASE OnJob(a)
    BY <2>2, <2>4, <2>6, LoopGoes DEF OnJob, Typed, Looped
  <2>. QED
    BY <1>7, <2>5, <2>6
<1>8. ASSUME NEW a \in Agent, CreateContainer(a) PROVE Looped'
  <2>1. PICK c \in Container :
            /\ main' = [main EXCEPT ![a].pc = "launch", ![a].container = c]
            /\ UNCHANGED <<link, inbox>>
    BY <1>8 DEF CreateContainer
  <2>2. [main[a] EXCEPT !.pc = "launch", !.container = c] \in MainState
    BY DEF Typed, MainState, Place
  <2>3. main' = [main EXCEPT ![a] = [main[a] EXCEPT !.pc = "launch", !.container = c]]
    BY <2>1 DEF Typed
  <2>. QED
    BY <2>1, <2>2, <2>3 DEF Typed, Looped
<1>9. ASSUME NEW a \in Agent, StartFails(a) PROVE Looped'
  <2>1. [Off EXCEPT !.pc = "listen", !.listed = main[a].listed] \in MainState
    BY OffTyped DEF Typed, MainState, Place
  <2>. QED
    BY <1>9, <2>1, LoopGoes DEF StartFails, Typed, Looped
<1>10. ASSUME NEW a \in Agent, Launch(a) PROVE Looped'
  <2>1. SendThen(a, "wait") /\ "wait" \in Place
    BY <1>10 DEF Launch, Place
  <2>. QED
    BY <2>1, LoopGoes
<1>11. ASSUME NEW r \in runs, WaitFails(r) PROVE Looped'
  <2>1. r.agent \in Agent
    BY DEF Typed, Run
  <2>. QED
    BY <1>1, <1>11, <2>1, LoopGoes DEF WaitFails
<1>12. ASSUME NEW r \in runs, SendResult(r) PROVE Looped'
  <2>1. r.agent \in Agent /\ r.handler \in BOOLEAN
    BY DEF Typed, Run
  <2>2. HandlerDone(r) => Looped'
    <3>1. [Off EXCEPT !.pc = "listen", !.listed = main[r.agent].listed] \in MainState
      BY <2>1, OffTyped DEF Typed, MainState, Place
    <3>. QED
      BY <2>1, <3>1 DEF HandlerDone, Typed, Looped
  <2>. QED
    BY <1>1, <1>12, <2>1, <2>2, LoopGoes DEF SendResult
<1>13. CASE Delivery
  <2>1. PICK a \in Agent, type \in {"job", "cancel"}, j \in Job : Receive(a, type, j)
    BY <1>13 DEF Delivery
  <2>2. [type |-> type, job |-> j] \in Message
    BY DEF Message
  <2>3. Append(inbox[a], [type |-> type, job |-> j]) \in Seq(Message)
    BY <2>2, AppendProperties DEF Typed
  <2>. QED
    BY <2>1, <2>3 DEF Receive, Typed, Looped
<1>14. ASSUME NEW a \in Agent, Break(a) PROVE Looped'
  BY <1>14 DEF Break, Typed, Looped
<1>15. ASSUME NEW a \in Agent, Crash(a) PROVE Looped'
  BY <1>15, LoopGoes DEF Crash
<1>16. ASSUME NEW r \in runs, Collect(r) \/ Remove(r) PROVE Looped'
  BY <1>1, <1>16 DEF Collect, Remove
<1>17. ASSUME NEW c \in Container, Exit(c) PROVE Looped'
  BY <1>1, <1>17 DEF Exit
<1>. QED
  BY <1>2, <1>3, <1>4, <1>5, <1>6, <1>7, <1>8, <1>9, <1>10, <1>11, <1>12, <1>13,
     <1>14, <1>15, <1>16, <1>17 DEF Moves, Reconcile, Listen, Work

(* What was begun stays begun, and labels stay. *)
LEMMA Persists ==
    ASSUME NEW c, Grows(c)
    PROVE  /\ docker[c].state # "none" =>
                 /\ docker'[c].state # "none"
                 /\ docker'[c].job = docker[c].job /\ docker'[c].by = docker[c].by
           /\ Begun(c) => Begun(c)'
           /\ Over(c) => Over(c)'
           /\ docker[c].state = "removed" => docker'[c].state = "removed"
  BY DEF Grows, Begun, Over

LEMMA DockerTyped ==
    ASSUME AgentInv, Moves
    PROVE  docker' \in [Container -> Label] /\ Labelled'
<1>. Typed /\ Labelled
  BY DEF AgentInv
<1>1. CASE UNCHANGED docker
  BY <1>1 DEF Typed, Labelled
<1>2. docker' = [c \in Container |-> docker'[c]]
  <2>1. ASSUME NEW c, NEW state, SetState(c, state)
        PROVE  docker' = [d \in Container |-> docker'[d]]
    BY <2>1 DEF SetState, Typed
  <2>2. UNCHANGED docker => docker' = [d \in Container |-> docker'[d]]
    BY DEF Typed
  <2>3. ASSUME NEW a \in Agent, CreateContainer(a)
        PROVE  docker' = [d \in Container |-> docker'[d]]
    <3>1. PICK c \in Container :
              docker' = [docker EXCEPT ![c] =
                            [state |-> "created", job |-> main[a].job, by |-> a]]
      BY <2>3 DEF CreateContainer
    <3>. QED
      BY <3>1 DEF Typed
  <2>4. ASSUME NEW a \in Agent,
               \/ Connect(a) \/ List(a) \/ ListFails(a) \/ ReconcileNext(a)
               \/ Inspect(a) \/ ReportExited(a) \/ ReconcileDone(a)
               \/ OnJob(a) \/ EndListen(a) \/ Break(a)
        PROVE  docker' = [d \in Container |-> docker'[d]]
    <3>1. UNCHANGED docker
      BY <2>4 DEF Connect, List, ListFails, ReconcileNext, Inspect, ReportExited,
                  ReconcileDone, OnJob, EndListen, Break
    <3>. QED
      BY <2>2, <3>1
  <2>5. ASSUME NEW a \in Agent,
               \/ Discard(a) \/ OnCancel(a) \/ StartFails(a) \/ Launch(a) \/ Crash(a)
        PROVE  docker' = [d \in Container |-> docker'[d]]
    BY <2>1, <2>2, <2>5 DEF Discard, OnCancel, StartFails, Launch, Crash
  <2>6. ASSUME NEW r \in runs, Work(r)
        PROVE  docker' = [d \in Container |-> docker'[d]]
    BY <2>1, <2>2, <2>6 DEF Work, Collect, Remove, WaitFails, SendResult
  <2>7. ASSUME NEW c \in Container, Exit(c)
        PROVE  docker' = [d \in Container |-> docker'[d]]
    BY <2>1, <2>7 DEF Exit
  <2>8. Delivery => docker' = [d \in Container |-> docker'[d]]
    BY <2>2 DEF Delivery, Receive
  <2>. QED
    BY <2>3, <2>4, <2>5, <2>6, <2>7, <2>8 DEF Moves, Reconcile, Listen
<1>3. ASSUME NEW c \in Container
      PROVE  /\ docker'[c] \in Label
             /\ IF docker'[c].state = "none"
                THEN docker'[c].job = Nil /\ docker'[c].by = Nil
                ELSE docker'[c].job \in Job /\ docker'[c].by \in Agent
  <2>. DEFINE Fits(d) == /\ d \in Label
                         /\ IF d.state = "none" THEN d.job = Nil /\ d.by = Nil
                            ELSE d.job \in Job /\ d.by \in Agent
  <2>1. Fits(docker[c])
    BY DEF Typed, Labelled
  <2>2. CASE docker'[c] = docker[c]
    BY <2>1, <2>2
  <2>3. CASE \E a \in Agent, j \in Job :
                docker'[c] = [state |-> "created", job |-> j, by |-> a]
    BY <2>3 DEF Label, ContainerState
  <2>4. CASE /\ docker[c].state # "none"
             /\ docker'[c].state \in {"running", "exited", "removed"}
             /\ docker'[c] = [state |-> docker'[c].state, job |-> docker[c].job,
                              by |-> docker[c].by]
    BY <2>1, <2>4 DEF Label, ContainerState
  <2>. QED
    BY <2>2, <2>3, <2>4, DockerStep DEF Grows, Begun
<1>. QED
  BY <1>2, <1>3 DEF Labelled

-----------------------------------------------------------------------------
(* The tasks that wait. *)

LEMMA RunAdded ==
    ASSUME AgentInv, Moves, NEW a \in Agent, NEW c \in Container, NEW handler \in BOOLEAN,
           runs' = runs \cup {[agent |-> a, session |-> session[a], container |-> c,
                               handler |-> handler, stage |-> "wait"]},
           Begun(c)'
    PROVE  runs' \subseteq Run /\ RunsFit'
<1>. DEFINE new == [agent |-> a, session |-> session[a], container |-> c,
                    handler |-> handler, stage |-> "wait"]
<1>1. new \in Run /\ runs' \subseteq Run
  <2>1. session[a] \in Nat /\ runs \subseteq Run
    BY DEF AgentInv, Typed
  <2>2. new \in Run
    BY <2>1 DEF Run
  <2>. QED
    BY <2>1, <2>2
<1>2. ASSUME NEW r \in runs
      PROVE  /\ Begun(r.container)'
             /\ r.stage # "wait" => Over(r.container)'
             /\ r.stage = "send" /\ "remove" \notin used'.failed =>
                   docker'[r.container].state = "removed"
  <2>1. Grows(r.container)
    BY DockerStep DEF AgentInv, Typed, Run
  <2>2. used.failed \subseteq used'.failed
    BY UsedStep DEF AgentInv
  <2>. QED
    BY <2>1, <2>2, Persists DEF AgentInv, RunsFit
<1>3. /\ Begun(new.container)'
      /\ new.stage = "wait"
  OBVIOUS
<1>. HIDE DEF new
<1>. QED
  BY <1>1, <1>2, <1>3 DEF RunsFit

LEMMA RunsKept ==
    ASSUME AgentInv, Moves,
           \A r \in runs' : r \in runs
    PROVE  runs' \subseteq Run /\ RunsFit'
<1>1. runs' \subseteq Run
  BY DEF AgentInv, Typed
<1>2. ASSUME NEW r \in runs'
      PROVE  /\ Begun(r.container)'
             /\ r.stage # "wait" => Over(r.container)'
             /\ r.stage = "send" /\ "remove" \notin used'.failed =>
                   docker'[r.container].state = "removed"
  <2>1. r \in runs /\ Grows(r.container)
    BY DockerStep DEF AgentInv, Typed, Run
  <2>2. used.failed \subseteq used'.failed
    BY UsedStep DEF AgentInv
  <2>. QED
    BY <2>1, <2>2, Persists DEF AgentInv, RunsFit
<1>. QED
  BY <1>1, <1>2 DEF RunsFit

LEMMA RunGoesOn ==
    ASSUME AgentInv, Moves, NEW q \in runs, NEW stage \in {"remove", "send"},
           runs' = (runs \ {q}) \cup {[q EXCEPT !.stage = stage]}, Over(q.container),
           stage = "send" /\ "remove" \notin used'.failed =>
              docker'[q.container].state = "removed"
    PROVE  runs' \subseteq Run /\ RunsFit'
<1>. DEFINE new == [q EXCEPT !.stage = stage]
<1>1. q \in Run
  BY DEF AgentInv, Typed
<1>2. /\ new \in Run /\ new.container = q.container /\ q.container \in Container
      /\ new.stage = stage
  BY <1>1 DEF Run
<1>3. Over(q.container)' /\ Begun(q.container)'
  <2>1. Over(q.container)'
    BY <1>2, DockerStep, Persists
  <2>. QED
    BY <2>1 DEF Over, Begun
<1>4. ASSUME NEW r \in runs
      PROVE  /\ Begun(r.container)'
             /\ r.stage # "wait" => Over(r.container)'
             /\ r.stage = "send" /\ "remove" \notin used'.failed =>
                   docker'[r.container].state = "removed"
  <2>1. Grows(r.container)
    BY DockerStep DEF AgentInv, Typed, Run
  <2>2. used.failed \subseteq used'.failed
    BY UsedStep DEF AgentInv
  <2>. QED
    BY <2>1, <2>2, Persists DEF AgentInv, RunsFit
<1>5. runs' = (runs \ {q}) \cup {new} /\ runs' \subseteq Run
  BY <1>2 DEF AgentInv, Typed
<1>. HIDE DEF new
<1>. QED
  BY <1>2, <1>3, <1>4, <1>5 DEF RunsFit

LEMMA RunsStep ==
    ASSUME AgentInv, Moves
    PROVE  runs' \subseteq Run /\ RunsFit'
<1>1. CASE UNCHANGED runs
  BY <1>1, RunsKept
<1>2. ASSUME NEW a \in Agent, ReconcileNext(a) PROVE runs' \subseteq Run /\ RunsFit'
  <2>1. ASSUME NEW x \in main[a].todo, x.status = "running", Reattach(a, x.container)
        PROVE  runs' \subseteq Run /\ RunsFit'
    <3>1. x.container \in Container /\ Begun(x.container)
      BY <2>1 DEF AgentInv, Typed, MainState, Item, Snapshot
    <3>2. Begun(x.container)'
      BY <3>1, DockerStep, Persists
    <3>. QED
      BY <2>1, <3>1, <3>2, RunAdded DEF Reattach
  <2>. QED
    BY <1>1, <1>2, <2>1 DEF ReconcileNext
<1>3. ASSUME NEW a \in Agent, Launch(a) PROVE runs' \subseteq Run /\ RunsFit'
  <2>1. PICK c \in Container : c = main[a].container
    BY <1>3 DEF AgentInv, Placed, Launch
  <2>2. Begun(c)'
    BY <1>3, <2>1 DEF Launch, SetState, AgentInv, Typed, Label, Begun
  <2>. QED
    BY <1>1, <1>3, <2>1, <2>2, RunAdded DEF Launch
<1>4. ASSUME NEW q \in runs, Collect(q) PROVE runs' \subseteq Run /\ RunsFit'
  <2>1. Over(q.container)
    BY <1>4 DEF Collect, Over
  <2>. QED
    BY <1>4, <2>1, RunGoesOn DEF Collect
<1>10. ASSUME NEW q \in runs, Remove(q) PROVE runs' \subseteq Run /\ RunsFit'
  <2>1. Over(q.container) /\ q.container \in Container
    BY <1>10 DEF Remove, AgentInv, Typed, Run, RunsFit
  <2>2. "remove" \notin used'.failed => docker'[q.container].state = "removed"
    <3>1. CASE SetState(q.container, "removed")
      BY <2>1, <3>1 DEF SetState, AgentInv, Typed, Label
    <3>2. CASE Fails("remove")
      BY <3>2, Failing DEF AgentInv
    <3>. QED
      BY <1>10, <3>1, <3>2 DEF Remove
  <2>. QED
    BY <1>10, <2>1, <2>2, RunGoesOn DEF Remove
<1>5. ASSUME NEW r \in runs, WaitFails(r) \/ SendResult(r)
      PROVE  runs' \subseteq Run /\ RunsFit'
  BY <1>5, RunsKept DEF WaitFails, SendResult
<1>6. ASSUME NEW a \in Agent, Crash(a) PROVE runs' \subseteq Run /\ RunsFit'
  BY <1>6, RunsKept DEF Crash
<1>7. ASSUME NEW a \in Agent,
             \/ Connect(a) \/ List(a) \/ ListFails(a) \/ Inspect(a) \/ ReportExited(a)
             \/ Discard(a) \/ ReconcileDone(a) \/ OnJob(a) \/ OnCancel(a)
             \/ EndListen(a) \/ CreateContainer(a) \/ StartFails(a) \/ Break(a)
      PROVE  runs' \subseteq Run /\ RunsFit'
  <2>1. UNCHANGED runs
    BY <1>7 DEF Connect, List, ListFails, Inspect, ReportExited, Discard, ReconcileDone,
                OnJob, OnCancel, EndListen, CreateContainer, StartFails, Break
  <2>. QED
    BY <1>1, <2>1
<1>8. ASSUME NEW c \in Container, Exit(c) PROVE runs' \subseteq Run /\ RunsFit'
  BY <1>1, <1>8 DEF Exit
<1>9. CASE Delivery
  BY <1>1, <1>9 DEF Delivery, Receive
<1>. QED
  BY <1>2, <1>3, <1>4, <1>5, <1>6, <1>7, <1>8, <1>9, <1>10
     DEF Moves, Reconcile, Listen, Work

-----------------------------------------------------------------------------
(* What was entered and what was reported. *)

LEMMA ReportedStep ==
    ASSUME AgentInv, Moves
    PROVE  reported' \subseteq Container /\ reported \subseteq reported' /\ ReportedBegun'
<1>1. \/ UNCHANGED reported
      \/ \E c \in Container : Begun(c) /\ reported' = reported \cup {c}
  <2>1. ASSUME NEW a \in Agent, ReportExited(a)
        PROVE  \/ UNCHANGED reported
               \/ \E c \in Container : Begun(c) /\ reported' = reported \cup {c}
    BY <2>1 DEF ReportExited, AgentInv, Placed, Over, Begun
  <2>2. ASSUME NEW r \in runs, SendResult(r)
        PROVE  \/ UNCHANGED reported
               \/ \E c \in Container : Begun(c) /\ reported' = reported \cup {c}
    BY <2>2 DEF SendResult, AgentInv, Typed, Run, RunsFit
  <2>3. ASSUME NEW a \in Agent,
               \/ Connect(a) \/ List(a) \/ ListFails(a) \/ ReconcileNext(a) \/ Inspect(a)
               \/ Discard(a) \/ ReconcileDone(a) \/ OnJob(a) \/ OnCancel(a)
               \/ EndListen(a) \/ CreateContainer(a) \/ StartFails(a) \/ Launch(a)
               \/ Break(a) \/ Crash(a)
        PROVE  UNCHANGED reported
    BY <2>3 DEF Connect, List, ListFails, ReconcileNext, Inspect, Discard, ReconcileDone,
                OnJob, OnCancel, EndListen, CreateContainer, StartFails, Launch,
                Break, Crash
  <2>4. ASSUME NEW r \in runs, Collect(r) \/ Remove(r) \/ WaitFails(r)
        PROVE  UNCHANGED reported
    BY <2>4 DEF Collect, Remove, WaitFails
  <2>5. ASSUME NEW c \in Container, Exit(c) PROVE UNCHANGED reported
    BY <2>5 DEF Exit
  <2>6. Delivery => UNCHANGED reported
    BY DEF Delivery, Receive
  <2>. QED
    BY <2>1, <2>2, <2>3, <2>4, <2>5, <2>6 DEF Moves, Reconcile, Listen, Work
<1>2. \A c \in Container : Begun(c) => Begun(c)'
  BY DockerStep, Persists
<1>. QED
  BY <1>1, <1>2 DEF AgentInv, Typed, ReportedBegun

LEMMA SessionStep ==
    ASSUME AgentInv, Moves
    PROVE  session' \in [Agent -> Nat]
<1>1. ASSUME NEW a \in Agent, Connect(a) PROVE session' \in [Agent -> Nat]
  BY <1>1 DEF AgentInv, Typed, Connect
<1>2. UNCHANGED session \/ \E a \in Agent : Connect(a)
  BY DEF Moves, Reconcile, Listen, Work, List, ListFails, ReconcileNext, Inspect,
         ReportExited, Discard, ReconcileDone, OnJob, OnCancel, EndListen,
         CreateContainer, StartFails, Launch, Collect, Remove, WaitFails, SendResult, Exit,
         Delivery, Receive, Break, Crash
<1>. QED
  BY <1>1, <1>2 DEF AgentInv, Typed

(* A task ends, and its container is no longer the one of its job. *)
Ends(r) == Pop(r) /\ runs' = runs \ {r} /\ docker[r.container].job \in Job

(* How _running changes. *)
RunningMoves ==
    \/ UNCHANGED running
    \/ \E a \in Agent, c \in Container :
          /\ running' = [running EXCEPT ![a][docker[c].job] = c]
          /\ docker[c].job \in Job
          /\ \/ \E handler \in BOOLEAN :
                   runs' = runs \cup {[agent |-> a, session |-> session[a], container |-> c,
                                       handler |-> handler, stage |-> "wait"]}
             \/ main'[a] = Off /\ UNCHANGED runs
    \/ \E r \in runs : Ends(r) /\ Over(r.container)'
    \/ \E a \in Agent : /\ running' = [running EXCEPT ![a] = [j \in Job |-> Nil]]
                        /\ runs' = {r \in runs : r.agent # a}
                        /\ main'[a] = Off

LEMMA LaunchKnows ==
    ASSUME AgentInv, NEW a \in Agent, Launch(a)
    PROVE  \E c \in Container :
               c = main[a].container /\ main[a].job = docker[c].job /\ main[a].job \in Job
<1>. DEFINE c == main[a].container
<1>1. c \in Container /\ docker[c] = [state |-> "created", job |-> main[a].job, by |-> a]
  BY DEF AgentInv, Placed, Launch
<1>2. main[a].job \in Job
  BY DEF AgentInv, Placed, Launch
<1>3. docker[c].job = main[a].job
  BY <1>1
<1>. QED
  BY <1>1, <1>2, <1>3

LEMMA RunningStep ==
    ASSUME AgentInv, Moves
    PROVE  RunningMoves
<1>. Typed /\ Labelled
  BY DEF AgentInv
<1>1. CASE UNCHANGED running
  BY <1>1 DEF RunningMoves
<1>2. ASSUME NEW a \in Agent, ReconcileNext(a) PROVE RunningMoves
  <2>1. ASSUME NEW x \in main[a].todo, x.status = "running", Reattach(a, x.container)
        PROVE  RunningMoves
    <3>1. x.container \in Container /\ Begun(x.container)
      BY <2>1 DEF AgentInv, Typed, MainState, Item, Snapshot
    <3>2. docker[x.container].job \in Job
      BY <3>1 DEF Labelled, Begun
    <3>. QED
      BY <2>1, <3>1, <3>2 DEF Reattach, RunningMoves
  <2>. QED
    BY <1>1, <1>2, <2>1 DEF ReconcileNext
<1>3. ASSUME NEW a \in Agent, Launch(a) PROVE RunningMoves
  <2>1. PICK c \in Container :
            c = main[a].container /\ main[a].job = docker[c].job /\ main[a].job \in Job
    BY <1>3, LaunchKnows
  <2>2. running' = [running EXCEPT ![a][docker[c].job] = c]
    BY <1>3, <2>1 DEF Launch
  <2>3. CASE link[a] # "up"
    <3>1. main'[a] = Off /\ UNCHANGED runs
      BY <1>3, <2>3 DEF Launch, SendThen, EndSession, Typed
    <3>. QED
      BY <2>1, <2>2, <3>1 DEF RunningMoves
  <2>4. CASE link[a] = "up"
    <3>1. runs' = runs \cup {[agent |-> a, session |-> session[a], container |-> c,
                              handler |-> TRUE, stage |-> "wait"]}
      BY <1>3, <2>1, <2>4 DEF Launch
    <3>. QED
      BY <2>1, <2>2, <3>1 DEF RunningMoves
  <2>. QED
    BY <2>3, <2>4
<1>4. ASSUME NEW r \in runs, WaitFails(r) \/ SendResult(r) PROVE RunningMoves
  <2>1. r.container \in Container /\ Begun(r.container)
    BY DEF AgentInv, Typed, Run, RunsFit
  <2>2. docker[r.container].job \in Job
    BY <2>1 DEF Labelled, Begun
  <2>3. Over(r.container)'
    <3>1. CASE WaitFails(r)
      <4>1. CASE docker[r.container].state = "removed" /\ UNCHANGED docker
        BY <4>1 DEF Over
      <4>2. CASE SetState(r.container, "removed")
        BY <2>1, <4>2 DEF SetState, Typed, Label, Over
      <4>. QED
        BY <3>1, <4>1, <4>2 DEF WaitFails
    <3>2. CASE SendResult(r)
      BY <3>2 DEF SendResult, AgentInv, RunsFit, Over
    <3>. QED
      BY <1>4, <3>1, <3>2
  <2>. QED
    BY <1>4, <2>2, <2>3 DEF WaitFails, SendResult, RunningMoves, Ends
<1>5. ASSUME NEW a \in Agent, Crash(a) PROVE RunningMoves
  <2>1. main'[a] = Off
    BY <1>5 DEF Crash, EndSession, Typed
  <2>. QED
    BY <1>5, <2>1 DEF Crash, RunningMoves
<1>6. ASSUME NEW a \in Agent,
             \/ Connect(a) \/ List(a) \/ ListFails(a) \/ Inspect(a) \/ ReportExited(a)
             \/ Discard(a) \/ ReconcileDone(a) \/ OnJob(a) \/ OnCancel(a)
             \/ EndListen(a) \/ CreateContainer(a) \/ StartFails(a) \/ Break(a)
      PROVE  RunningMoves
  <2>1. UNCHANGED running
    BY <1>6 DEF Connect, List, ListFails, Inspect, ReportExited, Discard, ReconcileDone,
                OnJob, OnCancel, EndListen, CreateContainer, StartFails, Break
  <2>. QED
    BY <1>1, <2>1
<1>7. ASSUME NEW r \in runs, Collect(r) \/ Remove(r) PROVE RunningMoves
  BY <1>1, <1>7 DEF Collect, Remove
<1>8. ASSUME NEW c \in Container, Exit(c) PROVE RunningMoves
  BY <1>1, <1>8 DEF Exit
<1>9. CASE Delivery
  BY <1>1, <1>9 DEF Delivery, Receive
<1>. QED
  BY <1>2, <1>3, <1>4, <1>5, <1>6, <1>7, <1>8, <1>9 DEF Moves, Reconcile, Listen, Work

LEMMA RunningTyped ==
    ASSUME Typed, RunningMoves
    PROVE  running' \in [Agent -> [Job -> Container \cup {Nil}]]
<1>1. ASSUME NEW a \in Agent, NEW c \in Container, docker[c].job \in Job,
             running' = [running EXCEPT ![a][docker[c].job] = c]
      PROVE  running' \in [Agent -> [Job -> Container \cup {Nil}]]
  BY <1>1 DEF Typed
<1>2. ASSUME NEW r \in runs, Ends(r)
      PROVE  running' \in [Agent -> [Job -> Container \cup {Nil}]]
  BY <1>2 DEF Typed, Run, Ends, Pop
<1>3. ASSUME NEW a \in Agent, running' = [running EXCEPT ![a] = [j \in Job |-> Nil]]
      PROVE  running' \in [Agent -> [Job -> Container \cup {Nil}]]
  BY <1>3 DEF Typed
<1>4. UNCHANGED running => running' \in [Agent -> [Job -> Container \cup {Nil}]]
  BY DEF Typed
<1>. QED
  BY <1>1, <1>2, <1>3, <1>4 DEF RunningMoves

-----------------------------------------------------------------------------
(* How an agent's loop moves on. *)

Stays(b) == main'[b] = main[b] /\ link'[b] = link[b]

Ended(b) == main'[b] = Off /\ link'[b] = "down"

(* The connection is made, or is lost. *)
Linked(b) ==
    \/ /\ main[b].pc = "off" /\ main'[b] = [main[b] EXCEPT !.pc = "list"]
       /\ link'[b] = "up"
    \/ main'[b] = main[b] /\ link[b] = "up" /\ link'[b] = "broken"

Listed(b) ==
    /\ main[b].pc = "list" /\ UNCHANGED docker
    /\ main'[b] = [main[b] EXCEPT !.pc = "reconcile", !.listed = TRUE,
                      !.todo = {[container |-> c, status |-> docker[c].state] :
                                   c \in Managed}]

ToListen(b) ==
    \/ /\ main[b].pc = "list" \/ (main[b].pc = "reconcile" /\ main[b].todo = {})
       /\ main'[b] = [main[b] EXCEPT !.pc = "listen"]
    \/ /\ main[b].pc \in {"start", "launch", "wait"}
       /\ main'[b] = [Off EXCEPT !.pc = "listen", !.listed = main[b].listed]
       /\ UNCHANGED docker \/ "answer" \in used'.failed

(* The agent has a task for the container, and entered it. *)
HasTask(a, c) == \E r \in runs : r.agent = a /\ r.container = c

TakenUp(a, c) == HasTask(a, c)' /\ running'[a][docker[c].job] = c

(* The next of the listing is taken. *)
Taken(b, x) ==
    /\ main[b].pc = "reconcile"
    /\ x.status = "running" => TakenUp(b, x.container)
    /\ \/ x.status # "exited" /\ main'[b] = [main[b] EXCEPT !.todo = @ \ {x}]
       \/ /\ x.status = "exited"
          /\ main'[b] = [main[b] EXCEPT !.todo = @ \ {x}, !.pc = "inspect",
                                        !.container = x.container]

(* What exited is worked off. *)
WorkedOff(b) ==
    \/ main[b].pc = "inspect" /\ main'[b] = [main[b] EXCEPT !.pc = "report"]
    \/ /\ main[b].pc = "report" /\ main'[b] = [main[b] EXCEPT !.pc = "discard"]
       /\ main[b].container \in reported'
    \/ /\ main[b].pc = "discard"
       /\ main'[b] = [main[b] EXCEPT !.pc = "reconcile", !.container = Nil]
       /\ \/ docker'[main[b].container].state = "removed"
          \/ "remove" \in used'.failed

(* A job is accepted, its container made, and started. *)
Starting(b) ==
    \/ /\ main[b].pc = "listen"
       /\ inbox[b] # <<>> /\ Head(inbox[b]).type = "job" /\ Head(inbox[b]).job \in Job
       /\ main'[b] = [main[b] EXCEPT !.pc = "start", !.job = Head(inbox[b]).job]
       /\ inbox'[b] = Tail(inbox[b])
    \/ /\ main[b].pc = "start"
       /\ \E c \in Container :
             /\ docker'[c] = [state |-> "created", job |-> main[b].job, by |-> b]
             /\ main'[b] = [main[b] EXCEPT !.pc = "launch", !.container = c]
    \/ /\ main[b].pc = "launch" /\ main'[b] = [main[b] EXCEPT !.pc = "wait"]
       /\ \E c \in Container : c = main[b].container /\ TakenUp(b, c)

MainMoves(b) ==
    \/ Stays(b) \/ Ended(b) \/ Linked(b)
    \/ /\ link'[b] = link[b]
       /\ \/ Listed(b) \/ ToListen(b) \/ WorkedOff(b) \/ Starting(b)
          \/ \E x \in main[b].todo : Taken(b, x)

LEMMA EntersTask ==
    ASSUME Typed, NEW a \in Agent, NEW c \in Container, NEW handler,
           docker[c].job \in Job, running' = [running EXCEPT ![a][docker[c].job] = c],
           runs' = runs \cup {[agent |-> a, session |-> session[a], container |-> c,
                               handler |-> handler, stage |-> "wait"]}
    PROVE  TakenUp(a, c)
<1>1. running'[a][docker[c].job] = c
  BY DEF Typed
<1>. DEFINE r == [agent |-> a, session |-> session[a], container |-> c,
                  handler |-> handler, stage |-> "wait"]
<1>2. r \in runs' /\ r.agent = a /\ r.container = c
  OBVIOUS
<1>3. HasTask(a, c)'
  BY <1>2 DEF HasTask
<1>. QED
  BY <1>1, <1>3 DEF TakenUp

LEMMA MainStep ==
    ASSUME AgentInv, Moves, NEW b \in Agent
    PROVE  MainMoves(b)
<1>. Typed
  BY DEF AgentInv
<1>. USE DEF MainMoves
<1>1. CASE UNCHANGED <<main, link>>
  BY <1>1 DEF Stays
<1>2. ASSUME NEW a \in Agent, EndSession(a) PROVE MainMoves(b)
  BY <1>2 DEF EndSession, Typed, Stays, Ended
<1>3. ASSUME NEW a \in Agent, NEW pc, Goto(a, pc)
      PROVE  /\ a # b => MainMoves(b)
             /\ main'[a] = [main[a] EXCEPT !.pc = pc] /\ link'[a] = link[a]
  BY <1>3 DEF Goto, Typed, Stays
<1>4. ASSUME NEW a \in Agent, Connect(a) PROVE MainMoves(b)
  BY <1>4 DEF Connect, Typed, Stays, Linked
<1>5. ASSUME NEW a \in Agent, List(a) PROVE MainMoves(b)
  <2>1. CASE a # b
    BY <1>5, <2>1 DEF List, Typed, Stays
  <2>2. CASE a = b
    <3>1. Listed(b) /\ link'[b] = link[b]
      BY <1>5, <2>2 DEF List, Typed, Listed
    <3>. QED
      BY <3>1
  <2>. QED
    BY <2>1, <2>2
<1>6. ASSUME NEW a \in Agent, ListFails(a) \/ ReconcileDone(a) PROVE MainMoves(b)
  BY <1>3, <1>6 DEF ListFails, ReconcileDone, ToListen
<1>7. ASSUME NEW a \in Agent, ReconcileNext(a) PROVE MainMoves(b)
  <2>1. PICK x \in main[a].todo :
            \/ EndSession(a)
            \/ /\ UNCHANGED link
               /\ x.status = "running" => Reattach(a, x.container)
               /\ \/ /\ x.status # "exited"
                     /\ main' = [main EXCEPT ![a] = [main[a] EXCEPT !.todo = @ \ {x}]]
                  \/ /\ x.status = "exited"
                     /\ main' = [main EXCEPT ![a] =
                           [[main[a] EXCEPT !.todo = @ \ {x}]
                               EXCEPT !.pc = "inspect", !.container = x.container]]
    BY <1>7 DEF ReconcileNext
  <2>2. CASE a # b
    BY <1>2, <2>1, <2>2 DEF Typed, Stays
  <2>3. CASE a = b
    <3>1. ASSUME x.status = "running", Reattach(b, x.container)
          PROVE  TakenUp(b, x.container)
      <4>1. x.container \in Container /\ Begun(x.container)
        BY <2>3, <3>1 DEF AgentInv, Typed, MainState, Item, Snapshot
      <4>2. docker[x.container].job \in Job
        BY <4>1 DEF AgentInv, Labelled, Begun
      <4>. QED
        BY <3>1, <4>1, <4>2, EntersTask DEF Reattach
    <3>2. EndSession(b) \/ (UNCHANGED link /\ Taken(b, x))
      BY <1>7, <2>1, <2>3, <3>1 DEF ReconcileNext, Typed, Taken
    <3>. QED
      BY <1>2, <2>3, <3>2
  <2>. QED
    BY <2>2, <2>3
<1>8. ASSUME NEW a \in Agent, Inspect(a) PROVE MainMoves(b)
  BY <1>2, <1>3, <1>8 DEF Inspect, WorkedOff
<1>9. ASSUME NEW a \in Agent, ReportExited(a) PROVE MainMoves(b)
  BY <1>2, <1>3, <1>9 DEF ReportExited, SendThen, WorkedOff
<1>10. ASSUME NEW a \in Agent, Discard(a) PROVE MainMoves(b)
  <2>1. CASE a # b
    BY <1>10, <2>1 DEF Discard, Typed, Stays
  <2>2. CASE a = b
    <3>1. main[b].container \in Container
      BY <1>10, <2>2 DEF AgentInv, Placed, Discard
    <3>2. \/ docker'[main[b].container].state = "removed"
          \/ "remove" \in used'.failed
      BY <1>10, <2>2, <3>1, Failing DEF Discard, SetState, Typed, Label
    <3>3. /\ main'[b] = [main[b] EXCEPT !.pc = "reconcile", !.container = Nil]
          /\ main[b].pc = "discard" /\ link'[b] = link[b]
      BY <1>10, <2>2 DEF Discard, Typed
    <3>. QED
      BY <3>2, <3>3 DEF WorkedOff
  <2>. QED
    BY <2>1, <2>2
<1>11. ASSUME NEW a \in Agent, OnJob(a) PROVE MainMoves(b)
  <2>1. inbox[a] \in Seq(Message) /\ inbox[a] # <<>>
    BY <1>11 DEF OnJob, Typed
  <2>2. Head(inbox[a]).job \in Job
    <3>1. Head(inbox[a]) \in Message
      BY <2>1, HeadTailProperties
    <3>. QED
      BY <3>1 DEF Message
  <2>3. CASE a # b
    BY <1>2, <1>11, <2>3 DEF OnJob, Typed, Stays
  <2>4. CASE a = b
    <3>1. \/ EndSession(b)
          \/ /\ main'[b] = [main[b] EXCEPT !.pc = "start", !.job = Head(inbox[a]).job]
             /\ main[b].pc = "listen" /\ link'[b] = link[b]
             /\ inbox'[b] = Tail(inbox[b])
      BY <1>11, <2>4 DEF OnJob, Typed
    <3>2. inbox[b] # <<>> /\ Head(inbox[b]).type = "job"
      BY <1>11, <2>4 DEF OnJob
    <3>. QED
      BY <1>2, <2>2, <2>4, <3>1, <3>2 DEF Starting
  <2>. QED
    BY <2>3, <2>4
<1>12. ASSUME NEW a \in Agent, CreateContainer(a) PROVE MainMoves(b)
  <2>1. PICK c \in Container :
            /\ docker' = [docker EXCEPT ![c] =
                             [state |-> "created", job |-> main[a].job, by |-> a]]
            /\ main' = [main EXCEPT ![a].pc = "launch", ![a].container = c]
    BY <1>12 DEF CreateContainer
  <2>2. main[a].pc = "start" /\ UNCHANGED link
    BY <1>12 DEF CreateContainer
  <2>3. CASE a # b
    BY <2>1, <2>2, <2>3 DEF Typed, Stays
  <2>4. CASE a = b
    <3>1. /\ docker'[c] = [state |-> "created", job |-> main[b].job, by |-> b]
          /\ main'[b] = [main[b] EXCEPT !.pc = "launch", !.container = c]
      BY <2>1, <2>4 DEF Typed
    <3>. QED
      BY <2>2, <2>4, <3>1 DEF Starting
  <2>. QED
    BY <2>3, <2>4
<1>13. ASSUME NEW a \in Agent, StartFails(a) PROVE MainMoves(b)
  <2>1. UNCHANGED docker \/ "answer" \in used'.failed
    BY <1>13, Failing DEF StartFails
  <2>. QED
    BY <1>2, <1>13, <2>1 DEF StartFails, Typed, Stays, ToListen
<1>14. ASSUME NEW a \in Agent, Launch(a) PROVE MainMoves(b)
  <2>1. PICK c \in Container :
            c = main[a].container /\ main[a].job = docker[c].job /\ main[a].job \in Job
    BY <1>14, LaunchKnows
  <2>2. CASE link[a] # "up"
    BY <1>2, <1>14, <2>2 DEF Launch, SendThen
  <2>3. CASE link[a] = "up"
    <3>1. /\ running' = [running EXCEPT ![a][docker[c].job] = c]
          /\ runs' = runs \cup {[agent |-> a, session |-> session[a], container |-> c,
                                  handler |-> TRUE, stage |-> "wait"]}
      BY <1>14, <2>1, <2>3 DEF Launch
    <3>2. TakenUp(a, c)
      BY <2>1, <3>1, EntersTask
    <3>. QED
      <4>1. main[a].pc = "launch" /\ Goto(a, "wait")
        BY <1>14, <2>3 DEF Launch, SendThen
      <4>2. CASE a # b
        BY <1>3, <4>1, <4>2
      <4>3. CASE a = b
        <5>1. Starting(b) /\ link'[b] = link[b]
          BY <1>3, <2>1, <3>2, <4>1, <4>3 DEF Starting
        <5>. QED
          BY <5>1
      <4>. QED
        BY <4>2, <4>3
  <2>. QED
    BY <2>2, <2>3
<1>15. ASSUME NEW r \in runs, WaitFails(r) PROVE MainMoves(b)
  <2>1. r.agent \in Agent
    BY DEF Typed, Run
  <2>. QED
    BY <1>1, <1>2, <1>15, <2>1 DEF WaitFails
<1>16. ASSUME NEW r \in runs, SendResult(r) PROVE MainMoves(b)
  <2>1. r.agent \in Agent /\ r.handler \in BOOLEAN
    BY DEF Typed, Run
  <2>2. ASSUME r.handler, HandlerDone(r) PROVE MainMoves(b)
    <3>1. main[r.agent].pc = "wait" /\ UNCHANGED docker
      BY <1>16, <2>1, <2>2 DEF AgentInv, Waits, Handlers, SendResult
    <3>. QED
      BY <2>1, <2>2, <3>1 DEF HandlerDone, Typed, Stays, ToListen
  <2>. QED
    BY <1>1, <1>2, <1>16, <2>1, <2>2 DEF SendResult
<1>17. ASSUME NEW a \in Agent, Break(a) PROVE MainMoves(b)
  BY <1>17 DEF Break, Typed, Stays, Linked
<1>18. ASSUME NEW a \in Agent, Crash(a) PROVE MainMoves(b)
  BY <1>2, <1>18 DEF Crash
<1>19. ASSUME NEW a \in Agent, OnCancel(a) PROVE MainMoves(b)
  BY <1>1, <1>19 DEF OnCancel
<1>20. ASSUME NEW a \in Agent, EndListen(a) PROVE MainMoves(b)
  BY <1>2, <1>20 DEF EndListen
<1>21. ASSUME NEW r \in runs, Collect(r) \/ Remove(r) PROVE MainMoves(b)
  BY <1>1, <1>21 DEF Collect, Remove
<1>22. ASSUME NEW c \in Container, Exit(c) PROVE MainMoves(b)
  BY <1>1, <1>22 DEF Exit
<1>23. CASE Delivery
  BY <1>1, <1>23 DEF Delivery, Receive
<1>. QED
  BY <1>4, <1>5, <1>6, <1>7, <1>8, <1>9, <1>10, <1>11, <1>12, <1>13, <1>14, <1>15, <1>16,
     <1>17, <1>18, <1>19, <1>20, <1>21, <1>22, <1>23 DEF Moves, Reconcile, Listen, Work

(* Only its own agent starts a container it made. *)
LEMMA CreatedStays ==
    ASSUME NEW b \in Agent, NEW c, Grows(c), main[b].pc # "launch",
           docker'[c].by = b,
           docker[c].by = b => docker[c].state = "created"
    PROVE  docker'[c].state = "created"
<1>1. CASE docker'[c] = docker[c]
  BY <1>1
<1>2. CASE \E a \in Agent, j \in Job :
              docker'[c] = [state |-> "created", job |-> j, by |-> a]
  BY <1>2
<1>3. CASE /\ docker'[c] = [state |-> docker'[c].state, job |-> docker[c].job,
                            by |-> docker[c].by]
           /\ docker[c].state = "created" => Launching(docker[c].by, c)
  <2>1. docker[c].by = b
    BY <1>3
  <2>. QED
    BY <1>3, <2>1 DEF Launching
<1>. QED
  BY <1>1, <1>2, <1>3 DEF Grows, Begun

(* What main knows stays true while it stays where it is. *)
LEMMA StaysPlaced ==
    ASSUME AgentInv, Moves, NEW b \in Agent, main'[b] = main[b],
           link'[b] = "down" <=> link[b] = "down"
    PROVE  Placed(b)' /\ Snapshot(b)'
<1>1. Typed /\ Placed(b) /\ Snapshot(b) /\ main[b] \in MainState
  BY DEF AgentInv, Typed
<1>2. \A c \in Container : Grows(c)
  BY DockerStep
<1>3. reported \subseteq reported'
  BY ReportedStep
<1>4. ASSUME main[b].pc = "launch"
      PROVE  docker'[main[b].container]
                = [state |-> "created", job |-> main[b].job, by |-> b]
  <2>1. /\ main[b].container \in Container
        /\ docker[main[b].container] = [state |-> "created", job |-> main[b].job, by |-> b]
    BY <1>1, <1>4 DEF Placed
  <2>. DEFINE c == main[b].container
  <2>2. Grows(c) /\ docker[c].state = "created" /\ docker[c].by = b
    BY <1>2, <2>1
  <2>3. main'[docker[c].by].pc = "launch"
    BY <1>4, <2>2
  <2>4. docker'[c] = docker[c]
    BY <2>2, <2>3 DEF Grows, Begun
  <2>. QED
    BY <2>1, <2>4
<1>5. Placed(b)'
  BY <1>1, <1>2, <1>3, <1>4, Persists DEF Placed
<1>6. ASSUME NEW x \in main[b].todo
      PROVE  /\ x.status = "running" => Begun(x.container)'
             /\ x.status = "exited" => Over(x.container)'
             /\ x.status = "created" /\ docker'[x.container].by = b =>
                   docker'[x.container].state = "created"
  <2>1. x.container \in Container /\ Grows(x.container)
    BY <1>1, <1>2 DEF MainState, Item
  <2>2. main[b].pc # "launch"
    BY <1>1, <1>6 DEF Placed
  <2>3. ASSUME x.status = "created", docker'[x.container].by = b
        PROVE  docker'[x.container].state = "created"
    BY <1>1, <2>1, <2>2, <2>3, CreatedStays DEF Snapshot
  <2>. QED
    BY <1>1, <2>1, <2>3, Persists DEF Snapshot
<1>. QED
  BY <1>5, <1>6 DEF Snapshot

LEMMA SnapshotShrinks ==
    ASSUME AgentInv, Moves, NEW b \in Agent, main'[b].todo \subseteq main[b].todo
    PROVE  Snapshot(b)'
<1>1. Typed /\ Placed(b) /\ Snapshot(b) /\ main[b] \in MainState
  BY DEF AgentInv, Typed
<1>2. ASSUME NEW x \in main'[b].todo
      PROVE  /\ x.status = "running" => Begun(x.container)'
             /\ x.status = "exited" => Over(x.container)'
             /\ x.status = "created" /\ docker'[x.container].by = b =>
                   docker'[x.container].state = "created"
  <2>1. x \in main[b].todo /\ x.container \in Container /\ Grows(x.container)
    BY <1>1, DockerStep DEF MainState, Item
  <2>2. main[b].pc # "launch"
    BY <1>1, <2>1 DEF Placed
  <2>3. ASSUME x.status = "created", docker'[x.container].by = b
        PROVE  docker'[x.container].state = "created"
    BY <1>1, <2>1, <2>2, <2>3, CreatedStays DEF Snapshot
  <2>. QED
    BY <1>1, <2>1, <2>3, Persists DEF Snapshot
<1>. QED
  BY <1>2 DEF Snapshot

LEMMA PlacedStep ==
    ASSUME AgentInv, Moves, NEW b \in Agent
    PROVE  Placed(b)' /\ Snapshot(b)'
<1>1. Typed /\ Placed(b) /\ Snapshot(b) /\ main[b] \in MainState
  BY DEF AgentInv, Typed
<1>2. \A c \in Container : Grows(c)
  BY DockerStep
<1>3. CASE Stays(b)
  BY <1>3, StaysPlaced DEF Stays
<1>4. CASE Ended(b)
  BY <1>4 DEF Ended, Off, Placed, Snapshot
<1>5. CASE Linked(b)
  <2>1. CASE main'[b] = main[b] /\ link[b] = "up" /\ link'[b] = "broken"
    BY <2>1, StaysPlaced
  <2>2. CASE /\ main[b].pc = "off" /\ main'[b] = [main[b] EXCEPT !.pc = "list"]
             /\ link'[b] = "up"
    BY <1>1, <2>2 DEF Placed, Snapshot, MainState
  <2>. QED
    BY <1>5, <2>1, <2>2 DEF Linked
<1>6. CASE link'[b] = link[b] /\ Listed(b)
  <2>1. main'[b].pc = "reconcile"
    BY <1>1, <1>6 DEF Listed, MainState
  <2>2. ASSUME NEW x \in main'[b].todo
        PROVE  x.status = docker'[x.container].state /\ x.container \in Container
    BY <1>1, <1>6, <2>2 DEF Listed, MainState, Managed
  <2>3. Snapshot(b)'
    BY <2>2 DEF Snapshot, Begun, Over
  <2>4. link[b] # "down"
    BY <1>1, <1>6 DEF Placed, Listed
  <2>. QED
    BY <1>6, <2>1, <2>3, <2>4 DEF Placed
<1>7. CASE link'[b] = link[b] /\ ToListen(b)
  <2>1. main'[b].pc = "listen" /\ main'[b].todo = {}
    BY <1>1, <1>7 DEF ToListen, Placed, MainState, Off
  <2>2. link[b] # "down"
    BY <1>1, <1>7 DEF ToListen, Placed
  <2>. QED
    BY <1>7, <2>1, <2>2 DEF Placed, Snapshot
<1>8. ASSUME NEW x \in main[b].todo, Taken(b, x), link'[b] = link[b]
      PROVE  Placed(b)' /\ Snapshot(b)'
  <2>1. main'[b].todo \subseteq main[b].todo
    <3>1. main'[b].todo = main[b].todo \ {x}
      BY <1>1, <1>8 DEF Taken, MainState
    <3>. QED
      BY <3>1
  <2>2. link[b] # "down"
    BY <1>1, <1>8 DEF Taken, Placed
  <2>3. CASE x.status # "exited"
    BY <1>1, <1>8, <2>1, <2>2, <2>3, SnapshotShrinks DEF Taken, Placed, MainState
  <2>4. CASE x.status = "exited"
    <3>1. x.container \in Container /\ Over(x.container)
      BY <1>1, <2>4 DEF Snapshot, MainState, Item
    <3>2. Over(x.container)'
      BY <1>2, <3>1, Persists
    <3>3. main'[b].pc = "inspect" /\ main'[b].container = x.container
      BY <1>1, <1>8, <2>4 DEF Taken, MainState
    <3>. QED
      BY <1>8, <2>1, <2>2, <3>1, <3>2, <3>3, SnapshotShrinks DEF Placed, Over
  <2>. QED
    BY <2>3, <2>4
<1>9. CASE link'[b] = link[b] /\ WorkedOff(b)
  <2>1. main'[b].todo \subseteq main[b].todo
    <3>1. main'[b].todo = main[b].todo
      BY <1>1, <1>9 DEF WorkedOff, MainState
    <3>. QED
      BY <3>1
  <2>2. /\ main[b].pc \in {"inspect", "report", "discard"} /\ link[b] # "down"
        /\ main[b].container \in Container /\ Over(main[b].container)
    BY <1>1, <1>9 DEF WorkedOff, Placed
  <2>3. PICK c \in Container : c = main[b].container /\ Over(c)'
    BY <1>2, <2>2, Persists
  <2>4. \/ main'[b].pc = "report" /\ main'[b].container = c
        \/ main'[b].pc = "discard" /\ main'[b].container = c /\ c \in reported'
        \/ main'[b].pc = "reconcile"
    BY <1>1, <1>9, <2>3 DEF WorkedOff, MainState
  <2>. QED
    BY <1>9, <2>1, <2>2, <2>3, <2>4, SnapshotShrinks DEF Placed, Over
<1>10. CASE link'[b] = link[b] /\ Starting(b)
  <2>1. main'[b].todo = {} /\ link[b] # "down"
    BY <1>1, <1>10 DEF Starting, Placed, MainState
  <2>2. CASE main'[b].pc = "start" /\ main'[b].job \in Job
    BY <1>10, <2>1, <2>2 DEF Placed, Snapshot
  <2>3. ASSUME NEW c \in Container, main[b].pc = "start",
               docker'[c] = [state |-> "created", job |-> main[b].job, by |-> b],
               main'[b] = [main[b] EXCEPT !.pc = "launch", !.container = c]
        PROVE  Placed(b)' /\ Snapshot(b)'
    <3>1. /\ main'[b].pc = "launch" /\ main'[b].container = c
          /\ main'[b].job = main[b].job /\ main[b].job \in Job
      BY <1>1, <2>3 DEF MainState, Placed
    <3>. QED
      BY <1>10, <2>1, <2>3, <3>1 DEF Placed, Snapshot
  <2>4. CASE main'[b].pc = "wait"
    BY <1>10, <2>1, <2>4 DEF Placed, Snapshot
  <2>. QED
    BY <1>1, <1>10, <2>2, <2>3, <2>4 DEF Starting, MainState
<1>. QED
  BY <1>3, <1>4, <1>5, <1>6, <1>7, <1>8, <1>9, <1>10, MainStep DEF MainMoves

-----------------------------------------------------------------------------
(* main waits exactly while its task is pending. *)

LEMMA SameHandlers ==
    ASSUME NEW b \in Agent, Waits(b), Handlers(b)' = Handlers(b),
           main'[b].pc = "wait" <=> main[b].pc = "wait"
    PROVE  Waits(b)'
<1>1. CASE main[b].pc = "wait"
  <2>1. PICK r \in runs : Handlers(b) = {r}
    BY <1>1 DEF Waits
  <2>2. Handlers(b)' = {r} /\ r \in Handlers(b)'
    BY <2>1
  <2>3. r \in runs'
    BY <2>2 DEF Handlers
  <2>. QED
    BY <1>1, <2>2, <2>3 DEF Waits
<1>2. CASE main[b].pc # "wait"
  BY <1>2 DEF Waits
<1>. QED
  BY <1>1, <1>2

LEMMA NotToWait ==
    ASSUME AgentInv, Moves, NEW a \in Agent, main[a].pc \notin {"launch", "wait"}
    PROVE  main'[a].pc # "wait"
<1>1. main[a] \in MainState
  BY DEF AgentInv, Typed
<1>2. MainMoves(a)
  BY MainStep
<1>3. Ended(a) => main'[a].pc # "wait"
  BY DEF Ended, Off
<1>4. Listed(a) => main'[a].pc # "wait"
  BY <1>1 DEF Listed, MainState
<1>5. ToListen(a) => main'[a].pc # "wait"
  BY <1>1 DEF ToListen, Off, MainState
<1>6. ASSUME NEW x, Taken(a, x) PROVE main'[a].pc # "wait"
  BY <1>1, <1>6 DEF Taken, MainState
<1>7. Stays(a) \/ Linked(a) \/ WorkedOff(a) \/ Starting(a) => main'[a].pc # "wait"
  BY <1>1 DEF Stays, Linked, WorkedOff, Starting, MainState
<1>. QED
  BY <1>2, <1>3, <1>4, <1>5, <1>6, <1>7 DEF MainMoves

LEMMA WaitsStep ==
    ASSUME AgentInv, Moves, NEW b \in Agent
    PROVE  Waits(b)'
<1>. Typed /\ Waits(b)
  BY DEF AgentInv
<1>1. ASSUME Handlers(b)' = Handlers(b), main'[b].pc = "wait" <=> main[b].pc = "wait"
      PROVE  Waits(b)'
  BY <1>1, SameHandlers
<1>2. UNCHANGED runs => Handlers(b)' = Handlers(b)
  BY DEF Handlers
<1>3. ASSUME NEW a \in Agent, EndSession(a)
      PROVE  main'[a].pc # "wait" /\ (a # b => main'[b] = main[b])
  BY <1>3 DEF EndSession, Off, Typed
<1>4. ASSUME NEW a \in Agent, NEW pc, Goto(a, pc)
      PROVE  main'[a].pc = pc /\ (a # b => main'[b] = main[b])
  BY <1>4 DEF Goto, Typed, MainState
<1>5. ASSUME NEW a \in Agent, UNCHANGED runs, main[a].pc # "wait", main'[a].pc # "wait",
             a # b => main'[b] = main[b]
      PROVE  Waits(b)'
  BY <1>1, <1>2, <1>5
<1>6. CASE UNCHANGED <<main, runs>>
  BY <1>1, <1>2, <1>6
<1>7. ASSUME NEW a \in Agent,
             \/ Connect(a) \/ List(a) \/ Discard(a) \/ CreateContainer(a)
      PROVE  Waits(b)'
  <2>1. main[a].pc # "wait" /\ main'[a].pc # "wait" /\ UNCHANGED runs
    BY <1>7 DEF Connect, List, Discard, CreateContainer, Typed, MainState
  <2>2. a # b => main'[b] = main[b]
    BY <1>7 DEF Connect, List, Discard, CreateContainer, Typed
  <2>. QED
    BY <1>5, <2>1, <2>2
<1>8. ASSUME NEW a \in Agent,
             \/ ListFails(a) \/ Inspect(a) \/ ReportExited(a) \/ ReconcileDone(a)
             \/ EndListen(a)
      PROVE  Waits(b)'
  <2>1. main[a].pc # "wait" /\ UNCHANGED runs
    BY <1>8 DEF ListFails, Inspect, ReportExited, ReconcileDone, EndListen
  <2>2. EndSession(a) \/ \E pc \in {"listen", "report", "discard"} : Goto(a, pc)
    BY <1>8 DEF ListFails, Inspect, ReportExited, SendThen, ReconcileDone, EndListen
  <2>. QED
    BY <1>3, <1>4, <1>5, <2>1, <2>2
<1>9. ASSUME NEW a \in Agent, OnJob(a) PROVE Waits(b)'
  <2>1. main[a].pc = "listen" /\ UNCHANGED runs
    BY <1>9 DEF OnJob
  <2>2. a # b => main'[b] = main[b]
    BY <1>3, <1>9 DEF OnJob, Typed
  <2>. QED
    BY <1>5, <2>1, <2>2, NotToWait
<1>10. ASSUME NEW a \in Agent, ReconcileNext(a) PROVE Waits(b)'
  <2>1. main[a].pc = "reconcile"
    BY <1>10 DEF ReconcileNext
  <2>2. a # b => main'[b] = main[b]
    BY <1>3, <1>10 DEF ReconcileNext, Typed
  <2>3. \/ UNCHANGED runs
        \/ \E n : ~n.handler /\ runs' = runs \cup {n}
    BY <1>10 DEF ReconcileNext, Reattach
  <2>4. Handlers(b)' = Handlers(b)
    BY <2>3 DEF Handlers
  <2>. QED
    BY <1>1, <2>1, <2>2, <2>4, NotToWait
<1>11. ASSUME NEW a \in Agent, Launch(a) PROVE Waits(b)'
  <2>. DEFINE n == [agent |-> a, session |-> session[a], container |-> main[a].container,
                    handler |-> TRUE, stage |-> "wait"]
  <2>1. main[a].pc = "launch"
    BY <1>11 DEF Launch
  <2>2. CASE link[a] # "up"
    BY <1>3, <1>5, <1>11, <2>1, <2>2 DEF Launch, SendThen
  <2>3. CASE link[a] = "up"
    <3>1. PICK m : m = n /\ runs' = runs \cup {m}
      BY <1>11, <2>3 DEF Launch
    <3>2. main'[a].pc = "wait" /\ (a # b => main'[b] = main[b])
      BY <1>4, <1>11, <2>3 DEF Launch, SendThen
    <3>3. CASE a # b
      <4>1. Handlers(b)' = Handlers(b)
        BY <3>1, <3>3 DEF Handlers
      <4>. QED
        BY <1>1, <3>2, <3>3, <4>1
    <3>4. CASE a = b
      <4>1. Handlers(b) = {}
        BY <2>1, <3>4 DEF Waits
      <4>2. Handlers(b)' = {m}
        BY <3>1, <3>4, <4>1 DEF Handlers
      <4>. QED
        BY <3>1, <3>2, <3>4, <4>2 DEF Waits
    <3>. QED
      BY <3>3, <3>4
  <2>. QED
    BY <2>2, <2>3
<1>12. ASSUME NEW r \in runs, Collect(r) \/ Remove(r) PROVE Waits(b)'
  <2>1. PICK stage, n : /\ n = [r EXCEPT !.stage = stage]
                        /\ runs' = (runs \ {r}) \cup {n} /\ main' = main
    BY <1>12 DEF Collect, Remove
  <2>2. n.agent = r.agent /\ n.handler = r.handler
    BY <2>1 DEF Typed, Run
  <2>3. CASE r.agent = b /\ r.handler
    <3>1. main[b].pc = "wait" /\ Handlers(b) = {r}
      BY <2>3 DEF Waits, Handlers
    <3>2. Handlers(b)' = {n}
      BY <2>1, <2>2, <2>3, <3>1 DEF Handlers
    <3>. QED
      BY <2>1, <3>1, <3>2 DEF Waits
  <2>4. CASE ~(r.agent = b /\ r.handler)
    <3>1. Handlers(b)' = Handlers(b)
      BY <2>1, <2>2, <2>4 DEF Handlers
    <3>. QED
      BY <1>1, <2>1, <3>1
  <2>. QED
    BY <2>3, <2>4
<1>13. ASSUME NEW r \in runs, WaitFails(r) \/ SendResult(r) PROVE Waits(b)'
  <2>1. r.agent \in Agent /\ r.handler \in BOOLEAN /\ runs' = runs \ {r}
    BY <1>13 DEF WaitFails, SendResult, Typed, Run
  <2>2. CASE r.agent = b /\ r.handler
    <3>1. main[b].pc = "wait" /\ Handlers(b) = {r}
      BY <2>2 DEF Waits, Handlers
    <3>2. Handlers(b)' = {}
      BY <2>1, <3>1 DEF Handlers
    <3>3. main'[b].pc # "wait"
      <4>1. ASSUME HandlerDone(r) PROVE main'[b].pc # "wait"
        <5>1. main'[b] = [Off EXCEPT !.pc = "listen", !.listed = main[b].listed]
          BY <2>1, <2>2, <4>1 DEF HandlerDone, Typed
        <5>. QED
          BY <5>1 DEF Off
      <4>. QED
        BY <1>3, <1>13, <2>1, <2>2, <4>1 DEF WaitFails, SendResult
    <3>. QED
      BY <3>2, <3>3 DEF Waits
  <2>3. CASE ~(r.agent = b /\ r.handler)
    <3>1. Handlers(b)' = Handlers(b)
      BY <2>1, <2>3 DEF Handlers
    <3>2. main'[b] = main[b]
      BY <1>3, <1>13, <2>1, <2>3 DEF WaitFails, SendResult, HandlerDone, Typed
    <3>. QED
      BY <1>1, <3>1, <3>2
  <2>. QED
    BY <2>2, <2>3
<1>14. ASSUME NEW a \in Agent, Crash(a) PROVE Waits(b)'
  <2>1. runs' = {r \in runs : r.agent # a}
    BY <1>14 DEF Crash
  <2>2. CASE a = b
    <3>1. Handlers(b)' = {}
      BY <2>1, <2>2 DEF Handlers
    <3>. QED
      BY <1>3, <1>14, <2>2, <3>1 DEF Crash, Waits
  <2>3. CASE a # b
    <3>1. Handlers(b)' = Handlers(b)
      BY <2>1, <2>3 DEF Handlers
    <3>. QED
      BY <1>1, <1>3, <1>14, <2>3, <3>1 DEF Crash
  <2>. QED
    BY <2>2, <2>3
<1>15. ASSUME NEW a \in Agent, OnCancel(a) \/ Break(a) PROVE Waits(b)'
  BY <1>6, <1>15 DEF OnCancel, Break
<1>16. ASSUME NEW c \in Container, Exit(c) PROVE Waits(b)'
  BY <1>6, <1>16 DEF Exit
<1>17. CASE Delivery
  BY <1>6, <1>17 DEF Delivery, Receive
<1>18. ASSUME NEW a \in Agent, StartFails(a) PROVE Waits(b)'
  <2>1. main[a].pc # "wait" /\ UNCHANGED runs
    BY <1>18 DEF StartFails
  <2>2. main'[a].pc # "wait" /\ (a # b => main'[b] = main[b])
    <3>1. CASE main' = [main EXCEPT ![a] = [Off EXCEPT !.pc = "listen",
                                                       !.listed = main[a].listed]]
      <4>1. [Off EXCEPT !.pc = "listen", !.listed = main[a].listed].pc # "wait"
        BY DEF Off
      <4>. QED
        BY <3>1, <4>1 DEF Typed
    <3>. QED
      BY <1>3, <1>18, <3>1 DEF StartFails
  <2>. QED
    BY <1>5, <2>1, <2>2
<1>. QED
  BY <1>7, <1>8, <1>9, <1>10, <1>11, <1>12, <1>13, <1>14, <1>15, <1>16, <1>17, <1>18
     DEF Moves, Reconcile, Listen, Work

-----------------------------------------------------------------------------
LEMMA InitAgentInv == Init => AgentInv
<1>. SUFFICES ASSUME Init PROVE AgentInv
  OBVIOUS
<1>1. Typed
  <2>1. <<>> \in Seq(Message)
    BY EmptySeq
  <2>. QED
    BY <2>1, OffTyped DEF Init, Typed, Label, ContainerState, Tally
<1>2. Labelled /\ RunsFit /\ ReportedBegun
  BY DEF Init, Labelled, RunsFit, ReportedBegun
<1>3. ASSUME NEW a \in Agent PROVE Placed(a) /\ Snapshot(a) /\ Waits(a)
  BY DEF Init, Off, Placed, Snapshot, Waits, Handlers
<1>. QED
  BY <1>1, <1>2, <1>3 DEF AgentInv

LEMMA AgentInvStep ==
    ASSUME AgentInv, Moves
    PROVE  AgentInv'
<1>. Typed
  BY DEF AgentInv
<1>1. Typed'
  BY DockerTyped, LoopStep, SessionStep, RunsStep, RunningStep, RunningTyped,
     ReportedStep, UsedStep DEF Typed, Looped
<1>. QED
  BY <1>1, DockerTyped, PlacedStep, WaitsStep, RunsStep, ReportedStep DEF AgentInv

LEMMA AgentInvNext == AgentInv /\ [Next]_vars => AgentInv'
<1>. SUFFICES ASSUME AgentInv, [Next]_vars PROVE AgentInv'
  OBVIOUS
<1>1. CASE Moves
  BY <1>1, AgentInvStep
<1>2. CASE UNCHANGED vars
  BY <1>2 DEF vars, AgentInv, Typed, Labelled, Begun, Over, Placed, Snapshot, Handlers,
              Waits, RunsFit, ReportedBegun
<1>. QED
  BY <1>1, <1>2, NextIsMove DEF AgentInv

(* In every behaviour of the agents the invariant holds. *)
THEOREM AgentInvariance == Spec => []AgentInv
  BY InitAgentInv, AgentInvNext, PTL DEF Spec

LEMMA InvTypes ==
    ASSUME AgentInv
    PROVE  TypeOK
<1>1. ASSUME NEW a \in Agent
      PROVE  Cardinality(Handlers(a)) = IF main[a].pc = "wait" THEN 1 ELSE 0
  <2>1. Waits(a)
    BY DEF AgentInv
  <2>. QED
    BY <2>1, FS_EmptySet, FS_Singleton DEF Waits
<1>2. ASSUME NEW a \in Agent PROVE main[a].pc = "off" <=> link[a] = "down"
  BY DEF AgentInv, Placed
<1>. QED
  BY <1>1, <1>2 DEF AgentInv, Typed, TypeOK, Handlers, Label, Message, MainState, Item

(* Type correctness of the agents, and the one task of _on_job: main is in *)
(* executor.wait exactly while the task that waits for it is pending, so a *)
(* handler never waits for a task that was dropped.                        *)
THEOREM TypeCorrect == Spec => []TypeOK
<1>1. AgentInv => TypeOK
  BY InvTypes
<1>. QED
  BY <1>1, AgentInvariance, PTL

-----------------------------------------------------------------------------
(* A container leaves Docker only with its result: what reconciliation     *)
(* discards was reported, and what a task removes it still reports, unless *)
(* its wait failed.                                                        *)

RemovedWithResult ==
    \A c \in Container :
        /\ docker[c].state # "removed" /\ docker'[c].state = "removed"
        /\ "wait" \notin used'.failed
        => \/ c \in reported'
           \/ \E r \in runs' : r.container = c /\ r.stage # "wait"

LEMMA SetOne ==
    ASSUME Typed, NEW c \in Container, NEW state, SetState(c, state),
           NEW d \in Container, docker'[d].state # docker[d].state
    PROVE  d = c
  BY DEF Typed, Label, SetState

LEMMA RemovedStep ==
    ASSUME AgentInv, Moves
    PROVE  RemovedWithResult
<1>. Typed
  BY DEF AgentInv
<1>. SUFFICES ASSUME NEW c \in Container, docker[c].state # "removed",
                     docker'[c].state = "removed", "wait" \notin used'.failed
              PROVE  \/ c \in reported'
                     \/ \E r \in runs' : r.container = c /\ r.stage # "wait"
  BY DEF RemovedWithResult
<1>1. ~ UNCHANGED docker
  OBVIOUS
<1>2. ASSUME NEW d \in Container, NEW state, SetState(d, state)
      PROVE  c = d /\ state = "removed"
  <2>1. c = d
    BY <1>2, SetOne
  <2>. QED
    BY <1>2, <2>1 DEF SetState, Typed, Label
<1>3. ASSUME NEW a \in Agent, Discard(a) PROVE c \in reported'
  <2>1. main[a].container \in Container /\ main[a].container \in reported
    BY <1>3 DEF AgentInv, Placed, Discard
  <2>2. c = main[a].container
    BY <1>1, <1>2, <1>3, <2>1 DEF Discard
  <2>. QED
    BY <2>1, <2>2, ReportedStep
<1>4. ASSUME NEW q \in runs, Remove(q)
      PROVE  \E r \in runs' : r.container = c /\ r.stage # "wait"
  <2>. DEFINE new == [q EXCEPT !.stage = "send"]
  <2>1. q \in Run /\ q.container \in Container
    BY DEF Typed, Run
  <2>2. c = q.container
    BY <1>1, <1>2, <1>4, <2>1 DEF Remove
  <2>3. new.container = c /\ new.stage # "wait"
    BY <2>1, <2>2 DEF Run
  <2>4. new \in runs'
    BY <1>4 DEF Remove
  <2>. QED
    BY <2>3, <2>4
<1>5. ASSUME NEW r \in runs PROVE ~WaitFails(r)
  BY <1>1, Failing DEF WaitFails
<1>6. ASSUME NEW a \in Agent, CreateContainer(a) PROVE FALSE
  BY <1>6 DEF CreateContainer, Typed, Label
<1>7. ASSUME NEW a \in Agent PROVE ~Launch(a)
  <2>1. ASSUME Launch(a) PROVE main[a].container \in Container
    BY <2>1 DEF AgentInv, Placed, Launch
  <2>. QED
    BY <1>2, <2>1 DEF Launch
<1>8. ASSUME NEW a \in Agent PROVE ~OnCancel(a)
  <2>. SUFFICES ASSUME OnCancel(a) PROVE FALSE
    OBVIOUS
  <2>. DEFINE d == running[a][Head(inbox[a]).job]
  <2>1. inbox[a] \in Seq(Message) /\ inbox[a] # <<>>
    BY DEF OnCancel, Typed
  <2>2. Head(inbox[a]) \in Message
    BY <2>1, HeadTailProperties
  <2>3. Head(inbox[a]).job \in Job
    BY <2>2 DEF Message
  <2>4. d \in Container \cup {Nil}
    BY <2>3 DEF Typed
  <2>5. d # Nil /\ SetState(d, "exited")
    BY <1>1 DEF OnCancel
  <2>. QED
    BY <1>2, <2>4, <2>5
<1>9. ASSUME NEW d \in Container PROVE ~Exit(d)
  BY <1>2 DEF Exit
<1>10. ASSUME NEW a \in Agent,
             \/ Connect(a) \/ List(a) \/ ListFails(a) \/ ReconcileNext(a)
             \/ Inspect(a) \/ ReportExited(a) \/ ReconcileDone(a)
             \/ OnJob(a) \/ EndListen(a) \/ Break(a)
      PROVE  FALSE
  BY <1>1, <1>10 DEF Connect, List, ListFails, ReconcileNext, Inspect, ReportExited,
              ReconcileDone, OnJob, EndListen, Break
<1>11. ASSUME NEW r \in runs PROVE ~Collect(r) /\ ~SendResult(r)
  BY <1>1 DEF Collect, SendResult
<1>12. ~Delivery
  BY <1>1 DEF Delivery, Receive
<1>13. ASSUME NEW a \in Agent PROVE ~StartFails(a) /\ ~Crash(a)
  <2>1. ASSUME main[a].pc = "launch", SetState(main[a].container, "running") PROVE FALSE
    <3>1. main[a].container \in Container
      BY <2>1 DEF AgentInv, Placed
    <3>. QED
      BY <1>2, <2>1, <3>1
  <2>. QED
    BY <1>1, <2>1 DEF StartFails, Crash
<1>. QED
  BY <1>3, <1>4, <1>5, <1>6, <1>7, <1>8, <1>9, <1>10, <1>11, <1>12, <1>13
     DEF Moves, Reconcile, Listen, Work

(* Containers leave Docker only with their result sent or about to be      *)
(* sent, whatever connections break, agents crash and calls fail, but for  *)
(* a failing wait.                                                         *)
THEOREM ResultsPrecedeRemoval == Spec => RemovedOnlyWithResult
<1>1. AgentInv /\ [Next]_vars => [RemovedWithResult]_vars
  <2>. SUFFICES ASSUME AgentInv, [Next]_vars PROVE RemovedWithResult \/ UNCHANGED vars
    OBVIOUS
  <2>1. Moves \/ UNCHANGED vars
    BY NextIsMove DEF AgentInv
  <2>. QED
    BY <2>1, RemovedStep
<1>. QED
  BY <1>1, AgentInvariance, PTL DEF Spec, RemovedOnlyWithResult, RemovedWithResult

-----------------------------------------------------------------------------
(* No container is forgotten.  While an agent works off its listing, each  *)
(* of its containers has a task, or is still to be taken from the listing, *)
(* or is the one in hand.                                                  *)

Queued(a, c, status) == \E x \in main[a].todo : x.container = c /\ x.status \in status

InHand(a, c) ==
    main[a].pc \in {"inspect", "report", "discard"} /\ main[a].container = c

Cared(a, c) == HasTask(a, c) \/ Queued(a, c, {"running", "exited"}) \/ InHand(a, c)

AllCared(a) ==
    main[a].listed /\ used.failed \cap {"answer", "remove"} = {} =>
        \A c \in Own(a) : docker[c].state \in {"running", "exited"} => Cared(a, c)

(* A container the agent started: before this step, or in it. *)
LEMMA OwnBefore ==
    ASSUME AgentInv, Moves, NEW b \in Agent, NEW c \in Container,
           docker'[c].by = b, docker'[c].state \in {"running", "exited"}
    PROVE  /\ docker[c].by = b /\ docker'[c].job = docker[c].job
           /\ \/ docker[c].state \in {"running", "exited"}
              \/ docker[c].state = "created" /\ Launching(b, c) /\ main'[b].pc # "launch"
           /\ docker'[c].state = "running" =>
                 docker[c].state = "running" \/ docker[c].state = "created"
<1>1. Grows(c)
  BY DockerStep
<1>2. CASE docker'[c] = docker[c]
  BY <1>2
<1>3. CASE \E a \in Agent, j \in Job :
              docker'[c] = [state |-> "created", job |-> j, by |-> a]
  BY <1>3
<1>4. CASE /\ docker'[c] = [state |-> docker'[c].state, job |-> docker[c].job,
                            by |-> docker[c].by]
           /\ \/ /\ docker[c].state = "created" /\ docker'[c].state = "running"
                 /\ Launching(docker[c].by, c) /\ main'[docker[c].by].pc # "launch"
              \/ docker[c].state = "running" /\ docker'[c].state = "exited"
              \/ Begun(c) /\ docker'[c].state = "removed"
  <2>1. docker[c].by = b /\ docker'[c].job = docker[c].job
    BY <1>4
  <2>. QED
    BY <1>4, <2>1
<1>. QED
  BY <1>1, <1>2, <1>3, <1>4 DEF Grows

(* A container that the agent just started has a task, and is entered. *)
LEMMA JustStarted ==
    ASSUME AgentInv, Moves, NEW b \in Agent, NEW c \in Container,
           Launching(b, c), main'[b].pc # "launch", docker'[c] # docker[c],
           main'[b].listed, "answer" \notin used'.failed
    PROVE  TakenUp(b, c)
<1>1. Placed(b) /\ main[b] \in MainState
  BY DEF AgentInv, Typed
<1>2. main[b].pc = "launch" /\ main[b].container = c /\ main[b].todo = {}
  BY <1>1 DEF Launching, Placed
<1>3. ~Stays(b) /\ ~Linked(b) /\ ~Listed(b) /\ ~WorkedOff(b)
  BY <1>1, <1>2 DEF Stays, Linked, Listed, WorkedOff, MainState
<1>4. ~Ended(b)
  BY DEF Ended, Off
<1>5. ~ToListen(b)
  <2>1. ~UNCHANGED docker
    OBVIOUS
  <2>. QED
    BY <1>2, <2>1 DEF ToListen
<1>6. Starting(b)
  BY <1>2, <1>3, <1>4, <1>5, MainStep DEF MainMoves
<1>. QED
  BY <1>2, <1>6 DEF Starting

(* A task lasts until its container is gone, or its agent's session. *)
LEMMA TaskLasts ==
    ASSUME AgentInv, Moves, NEW b \in Agent, NEW c \in Container, HasTask(b, c),
           docker'[c].state # "removed", "remove" \notin used'.failed, main'[b].listed
    PROVE  HasTask(b, c)'
<1>. Typed
  BY DEF AgentInv
<1>1. PICK q \in runs : q.agent = b /\ q.container = c /\ q \in Run
  BY DEF HasTask, Typed
<1>2. runs \subseteq runs' => HasTask(b, c)'
  BY <1>1 DEF HasTask
<1>3. UNCHANGED runs => HasTask(b, c)'
  BY <1>2
<1>4. ASSUME NEW a \in Agent, ReconcileNext(a) \/ Launch(a) PROVE HasTask(b, c)'
  <2>1. runs \subseteq runs'
    BY <1>4 DEF ReconcileNext, Reattach, Launch
  <2>. QED
    BY <1>2, <2>1
<1>5. ASSUME NEW r \in runs, Collect(r) \/ Remove(r) PROVE HasTask(b, c)'
  <2>1. PICK stage, new : /\ new = [r EXCEPT !.stage = stage]
                          /\ runs' = (runs \ {r}) \cup {new}
    BY <1>5 DEF Collect, Remove
  <2>2. CASE q = r
    <3>1. new.agent = b /\ new.container = c
      BY <1>1, <2>1, <2>2 DEF Run
    <3>. QED
      BY <2>1, <3>1 DEF HasTask
  <2>3. CASE q # r
    BY <1>1, <2>1, <2>3 DEF HasTask
  <2>. QED
    BY <2>2, <2>3
<1>6. ASSUME NEW r \in runs, WaitFails(r) \/ SendResult(r) PROVE HasTask(b, c)'
  <2>1. runs' = runs \ {r}
    BY <1>6 DEF WaitFails, SendResult
  <2>2. q # r
    <3>1. used.failed \subseteq used'.failed
      BY UsedStep
    <3>2. CASE SendResult(r)
      BY <1>1, <3>1, <3>2 DEF SendResult, AgentInv, RunsFit
    <3>3. CASE WaitFails(r)
      BY <1>1, <3>3 DEF WaitFails, SetState, Typed, Label
    <3>. QED
      BY <1>6, <3>2, <3>3
  <2>. QED
    BY <1>1, <2>1, <2>2 DEF HasTask
<1>7. ASSUME NEW a \in Agent, Crash(a) PROVE HasTask(b, c)'
  <2>1. a # b
    BY <1>7 DEF Crash, EndSession, Off, Typed
  <2>. QED
    BY <1>1, <1>7, <2>1 DEF Crash, HasTask
<1>8. ASSUME NEW a \in Agent,
             \/ Connect(a) \/ List(a) \/ ListFails(a) \/ Inspect(a) \/ ReportExited(a)
             \/ Discard(a) \/ ReconcileDone(a) \/ OnJob(a) \/ OnCancel(a)
             \/ EndListen(a) \/ CreateContainer(a) \/ StartFails(a) \/ Break(a)
      PROVE  HasTask(b, c)'
  <2>1. UNCHANGED runs
    BY <1>8 DEF Connect, List, ListFails, Inspect, ReportExited, Discard, ReconcileDone,
                OnJob, OnCancel, EndListen, CreateContainer, StartFails, Break
  <2>. QED
    BY <1>3, <2>1
<1>9. ASSUME NEW d \in Container, Exit(d) PROVE HasTask(b, c)'
  BY <1>3, <1>9 DEF Exit
<1>10. CASE Delivery
  BY <1>3, <1>10 DEF Delivery, Receive
<1>. QED
  BY <1>4, <1>5, <1>6, <1>7, <1>8, <1>9, <1>10 DEF Moves, Reconcile, Listen, Work

(* What is still to be taken from the listing stays so until it is taken. *)
LEMMA QueuedLasts ==
    ASSUME AgentInv, Moves, NEW b \in Agent, NEW c \in Container,
           NEW status \in SUBSET {"running", "exited"},
           Queued(b, c, status), main'[b].listed
    PROVE  \/ Queued(b, c, status)'
           \/ "running" \in status /\ TakenUp(b, c)
           \/ "exited" \in status /\ InHand(b, c)'
<1>1. Placed(b) /\ main[b] \in MainState
  BY DEF AgentInv, Typed
<1>2. PICK x \in main[b].todo : x.container = c /\ x.status \in status
  BY DEF Queued
<1>3. main[b].pc \in {"reconcile", "inspect", "report", "discard"}
  BY <1>1, <1>2 DEF Placed
<1>4. main'[b].todo = main[b].todo => Queued(b, c, status)'
  BY <1>2 DEF Queued
<1>5. ~Ended(b)
  BY DEF Ended, Off
<1>6. ~Listed(b) /\ ~ToListen(b) /\ ~Starting(b)
  BY <1>2, <1>3 DEF Listed, ToListen, Starting
<1>7. Stays(b) \/ Linked(b) \/ WorkedOff(b) => main'[b].todo = main[b].todo
  <2>1. Stays(b) => main'[b].todo = main[b].todo
    BY DEF Stays
  <2>2. Linked(b) => main'[b].todo = main[b].todo
    BY <1>1 DEF Linked, MainState
  <2>3. WorkedOff(b) => main'[b].todo = main[b].todo
    BY <1>1 DEF WorkedOff, MainState
  <2>. QED
    BY <2>1, <2>2, <2>3
<1>8. ASSUME NEW y \in main[b].todo, Taken(b, y)
      PROVE  \/ Queued(b, c, status)'
             \/ "running" \in status /\ TakenUp(b, c)
             \/ "exited" \in status /\ InHand(b, c)'
  <2>1. main'[b].todo = main[b].todo \ {y}
    BY <1>1, <1>8 DEF Taken, MainState
  <2>2. CASE x # y
    BY <1>2, <2>1, <2>2 DEF Queued
  <2>3. CASE x = y /\ x.status = "running"
    BY <1>2, <1>8, <2>3 DEF Taken
  <2>4. CASE x = y /\ x.status = "exited"
    <3>1. main'[b].pc = "inspect" /\ main'[b].container = c
      BY <1>1, <1>2, <1>8, <2>4 DEF Taken, MainState
    <3>. QED
      BY <1>2, <2>4, <3>1 DEF InHand
  <2>. QED
    BY <1>2, <2>2, <2>3, <2>4
<1>. QED
  BY <1>4, <1>5, <1>6, <1>7, <1>8, MainStep DEF MainMoves

(* An agent that comes to have a listing has just made it. *)
LEMMA NewlyListed ==
    ASSUME AgentInv, Moves, NEW b \in Agent, ~main[b].listed, main'[b].listed
    PROVE  Listed(b)
<1>0. main[b] \in MainState
  BY DEF AgentInv, Typed
<1>1. ~Ended(b)
  BY DEF Ended, Off
<1>2. Stays(b) \/ Linked(b) => main'[b].listed = main[b].listed
  BY <1>0 DEF Stays, Linked, MainState
<1>3. ToListen(b) => main'[b].listed = main[b].listed
  BY <1>0 DEF ToListen, Off, MainState
<1>4. WorkedOff(b) \/ Starting(b) => main'[b].listed = main[b].listed
  <2>1. WorkedOff(b) => main'[b].listed = main[b].listed
    BY <1>0 DEF WorkedOff, MainState
  <2>2. Starting(b) => main'[b].listed = main[b].listed
    BY <1>0 DEF Starting, MainState
  <2>. QED
    BY <2>1, <2>2
<1>5. \A x : Taken(b, x) => main'[b].listed = main[b].listed
  BY <1>0 DEF Taken, MainState
<1>. QED
  BY <1>1, <1>2, <1>3, <1>4, <1>5, MainStep DEF MainMoves

LEMMA CaredStep ==
    ASSUME AgentInv, Moves, NEW b \in Agent, AllCared(b)
    PROVE  AllCared(b)'
<1>. SUFFICES ASSUME main'[b].listed, used'.failed \cap {"answer", "remove"} = {},
                     NEW c \in Container, docker'[c].by = b,
                     docker'[c].state \in {"running", "exited"}
              PROVE  Cared(b, c)'
  BY DEF AllCared, Own
<1>1. Placed(b) /\ main[b] \in MainState
  BY DEF AgentInv, Typed
<1>2. /\ docker[c].by = b
      /\ \/ docker[c].state \in {"running", "exited"}
         \/ docker[c].state = "created" /\ Launching(b, c) /\ main'[b].pc # "launch"
  BY OwnBefore
<1>3. CASE docker[c].state = "created" /\ Launching(b, c) /\ main'[b].pc # "launch"
  <2>1. docker'[c] # docker[c]
    BY <1>3
  <2>. QED
    BY <1>3, <2>1, JustStarted DEF TakenUp, Cared
<1>4. CASE docker[c].state \in {"running", "exited"} /\ ~main[b].listed
  <2>1. Listed(b)
    BY <1>4, NewlyListed
  <2>2. c \in Managed
    BY <1>4 DEF Managed
  <2>3. [container |-> c, status |-> docker[c].state] \in main'[b].todo
    BY <1>1, <2>1, <2>2 DEF Listed, MainState
  <2>4. Queued(b, c, {"running", "exited"})'
    BY <1>4, <2>3 DEF Queued
  <2>. QED
    BY <2>4 DEF Cared
<1>5. CASE docker[c].state \in {"running", "exited"} /\ main[b].listed
  <2>1. Cared(b, c)
    <3>1. used.failed \cap {"answer", "remove"} = {}
      BY UsedStep DEF AgentInv
    <3>. QED
      BY <1>2, <1>5, <3>1 DEF AllCared, Own
  <2>2. CASE HasTask(b, c)
    BY <2>2, TaskLasts DEF Cared
  <2>3. CASE Queued(b, c, {"running", "exited"})
    BY <2>3, QueuedLasts DEF Cared, TakenUp
  <2>4. CASE InHand(b, c)
    <3>1. main[b].pc \in {"inspect", "report", "discard"} /\ main[b].container = c
      BY <2>4 DEF InHand
    <3>2. ~Ended(b)
      BY DEF Ended, Off
    <3>3. ~Listed(b) /\ ~ToListen(b) /\ ~Starting(b)
      BY <3>1 DEF Listed, ToListen, Starting
    <3>4. \A x : ~Taken(b, x)
      BY <3>1 DEF Taken
    <3>5. main'[b].pc \in {"inspect", "report", "discard"} /\ main'[b].container = c
      <4>1. Stays(b) \/ Linked(b) \/ WorkedOff(b)
        BY <3>2, <3>3, <3>4, MainStep DEF MainMoves
      <4>2. CASE Stays(b)
        BY <3>1, <4>2 DEF Stays
      <4>3. CASE Linked(b)
        BY <3>1, <4>3 DEF Linked
      <4>4. CASE WorkedOff(b)
        <5>1. "remove" \notin used'.failed
          OBVIOUS
        <5>2. main[b].pc # "discard"
          BY <1>5, <3>1, <4>4, <5>1 DEF WorkedOff
        <5>. QED
          BY <1>1, <3>1, <4>4, <5>2 DEF WorkedOff, MainState
      <4>. QED
        BY <4>1, <4>2, <4>3, <4>4
    <3>. QED
      BY <3>5 DEF Cared, InHand
  <2>. QED
    BY <2>1, <2>2, <2>3, <2>4 DEF Cared
<1>. QED
  BY <1>2, <1>3, <1>4, <1>5

-----------------------------------------------------------------------------
(* A cancel finds its container: what runs is entered, or is still to be   *)
(* taken from the listing.                                                 *)

Only(c) == \A d \in Container : docker[d].job = docker[c].job => d = c

AllEntered(a) ==
    main[a].listed /\ "answer" \notin used.failed =>
        \A c \in Own(a) :
            docker[c].state = "running" /\ Only(c) =>
                running[a][docker[c].job] = c \/ Queued(a, c, {"running"})

LEMMA OnlyBefore ==
    ASSUME AgentInv, Moves, NEW c \in Container, Only(c)',
           docker[c].state # "none", docker'[c].job = docker[c].job
    PROVE  Only(c)
<1>. SUFFICES ASSUME NEW d \in Container, docker[d].job = docker[c].job PROVE d = c
  BY DEF Only
<1>1. docker[d].state # "none"
  BY RuntimeAssumption DEF AgentInv, Labelled
<1>2. docker'[d].job = docker[d].job
  BY <1>1, DockerStep, Persists
<1>. QED
  BY <1>2 DEF Only

LEMMA EntryLasts ==
    ASSUME AgentInv, Moves, NEW b \in Agent, NEW c \in Container,
           docker[c].job \in Job, running[b][docker[c].job] = c, Only(c),
           docker'[c].state = "running", main'[b].listed
    PROVE  running'[b][docker[c].job] = c
<1>. Typed
  BY DEF AgentInv
<1>1. CASE UNCHANGED running
  BY <1>1
<1>2. ASSUME NEW a \in Agent, NEW d \in Container, docker[d].job \in Job,
             running' = [running EXCEPT ![a][docker[d].job] = d]
      PROVE  running'[b][docker[c].job] = c
  <2>1. CASE a = b /\ docker[d].job = docker[c].job
    <3>1. d = c
      BY <2>1 DEF Only
    <3>. QED
      BY <1>2, <2>1, <3>1 DEF Typed
  <2>2. CASE ~(a = b /\ docker[d].job = docker[c].job)
    BY <1>2, <2>2 DEF Typed
  <2>. QED
    BY <2>1, <2>2
<1>3. ASSUME NEW r \in runs, Ends(r), Over(r.container)'
      PROVE  running'[b][docker[c].job] = c
  <2>1. r.container \in Container /\ r.agent \in Agent
    BY DEF Typed, Run
  <2>2. r.container # c
    BY <1>3 DEF Over
  <2>3. docker[r.container].job # docker[c].job
    BY <2>1, <2>2 DEF Only
  <2>. QED
    BY <1>3, <2>1, <2>3 DEF Ends, Pop, Typed
<1>4. ASSUME NEW a \in Agent, running' = [running EXCEPT ![a] = [j \in Job |-> Nil]],
             main'[a] = Off
      PROVE  running'[b][docker[c].job] = c
  <2>1. a # b
    BY <1>4 DEF Off
  <2>. QED
    BY <1>4, <2>1 DEF Typed
<1>. QED
  BY <1>1, <1>2, <1>3, <1>4, RunningStep DEF RunningMoves

LEMMA EnteredStep ==
    ASSUME AgentInv, Moves, NEW b \in Agent, AllEntered(b)
    PROVE  AllEntered(b)'
<1>. SUFFICES ASSUME main'[b].listed, "answer" \notin used'.failed,
                     NEW c \in Container, docker'[c].by = b,
                     docker'[c].state = "running", Only(c)'
              PROVE  running'[b][docker'[c].job] = c \/ Queued(b, c, {"running"})'
  BY DEF AllEntered, Own
<1>1. Placed(b) /\ main[b] \in MainState
  BY DEF AgentInv, Typed
<1>2. /\ docker[c].by = b /\ docker'[c].job = docker[c].job
      /\ \/ docker[c].state = "running"
         \/ docker[c].state = "created" /\ Launching(b, c) /\ main'[b].pc # "launch"
  BY OwnBefore
<1>3. CASE docker[c].state = "created" /\ Launching(b, c) /\ main'[b].pc # "launch"
  <2>1. docker'[c] # docker[c]
    BY <1>3
  <2>. QED
    BY <1>2, <1>3, <2>1, JustStarted DEF TakenUp
<1>4. CASE docker[c].state = "running" /\ ~main[b].listed
  <2>1. Listed(b)
    BY <1>4, NewlyListed
  <2>2. c \in Managed
    BY <1>4 DEF Managed
  <2>3. [container |-> c, status |-> docker[c].state] \in main'[b].todo
    BY <1>1, <2>1, <2>2 DEF Listed, MainState
  <2>. QED
    BY <1>4, <2>3 DEF Queued
<1>5. CASE docker[c].state = "running" /\ main[b].listed
  <2>1. Only(c) /\ docker[c].job \in Job
    BY <1>2, <1>5, OnlyBefore DEF AgentInv, Labelled
  <2>2. running[b][docker[c].job] = c \/ Queued(b, c, {"running"})
    <3>1. "answer" \notin used.failed
      BY UsedStep DEF AgentInv
    <3>. QED
      BY <1>2, <1>5, <2>1, <3>1 DEF AllEntered, Own
  <2>3. CASE running[b][docker[c].job] = c
    BY <1>2, <2>1, <2>3, EntryLasts
  <2>4. CASE Queued(b, c, {"running"})
    BY <1>2, <2>4, QueuedLasts DEF TakenUp
  <2>. QED
    BY <2>2, <2>3, <2>4
<1>. QED
  BY <1>2, <1>3, <1>4, <1>5

-----------------------------------------------------------------------------
SettledInv == AgentInv /\ \A a \in Agent : AllCared(a) /\ AllEntered(a)

LEMMA InitSettledInv == Init => SettledInv
  BY InitAgentInv DEF Init, Off, AllCared, AllEntered, SettledInv

LEMMA SettledMoves ==
    ASSUME SettledInv, Moves
    PROVE  SettledInv'
  BY AgentInvStep, CaredStep, EnteredStep DEF SettledInv

LEMMA SettledInvNext == SettledInv /\ [Next]_vars => SettledInv'
<1>. SUFFICES ASSUME SettledInv, [Next]_vars PROVE SettledInv'
  OBVIOUS
<1>1. CASE Moves
  BY <1>1, SettledMoves
<1>2. CASE UNCHANGED vars
  <2>1. AgentInv'
    BY AgentInvNext DEF SettledInv
  <2>2. ASSUME NEW a \in Agent PROVE AllCared(a)' /\ AllEntered(a)'
    BY <1>2 DEF SettledInv, vars, AllCared, AllEntered, Own, Cared, HasTask, Queued,
                InHand, Only
  <2>. QED
    BY <2>1, <2>2 DEF SettledInv
<1>. QED
  BY <1>1, <1>2, NextIsMove DEF SettledInv, AgentInv

LEMMA AlwaysSettled == Spec => []SettledInv
  BY InitSettledInv, SettledInvNext, PTL DEF Spec

LEMMA SettledQueue ==
    ASSUME AgentInv, NEW a \in Agent, Settled(a)
    PROVE  main[a].listed /\ main[a].todo = {} /\ \A c : ~InHand(a, c)
  BY DEF AgentInv, Placed, Settled, InHand

LEMMA SettledAttends ==
    ASSUME SettledInv
    PROVE  Attended
<1>. SUFFICES ASSUME NEW a \in Agent, Settled(a),
                     used.failed \cap {"answer", "remove"} = {},
                     NEW c \in Own(a), docker[c].state \in {"running", "exited"}
              PROVE  HasTask(a, c)
  BY DEF Attended, HasTask
<1>1. main[a].listed /\ main[a].todo = {} /\ ~InHand(a, c)
  BY SettledQueue DEF SettledInv
<1>2. Cared(a, c)
  BY <1>1 DEF SettledInv, AllCared
<1>. QED
  BY <1>1, <1>2 DEF Cared, Queued

LEMMA SettledCancels ==
    ASSUME SettledInv
    PROVE  Cancellable
<1>. SUFFICES ASSUME NEW a \in Agent, Settled(a), "answer" \notin used.failed,
                     NEW c \in Own(a), docker[c].state = "running", Only(c)
              PROVE  running[a][docker[c].job] = c
  BY DEF Cancellable, Only
<1>1. main[a].listed /\ main[a].todo = {}
  BY SettledQueue DEF SettledInv
<1>. QED
  BY <1>1 DEF SettledInv, AllEntered, Queued

(* No container is forgotten: a settled agent has a task for each of its   *)
(* containers, through crashes, broken connections, listings and starts    *)
(* that failed.                                                            *)
THEOREM NoneForgotten == Spec => []Attended
<1>1. SettledInv => Attended
  BY SettledAttends
<1>. QED
  BY <1>1, AlwaysSettled, PTL

(* A cancel finds its container: for a running container of a settled      *)
(* agent, whose job never had another, _running has the entry.             *)
THEOREM CancelsFind == Spec => []Cancellable
<1>1. SettledInv => Cancellable
  BY SettledCancels
<1>. QED
  BY <1>1, AlwaysSettled, PTL
=============================================================================
