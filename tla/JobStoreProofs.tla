--------------------------- MODULE JobStoreProofs ---------------------------
(***************************************************************************)
(* What the row operations of JobStore preserve, for every row.            *)
(***************************************************************************)
EXTENDS JobStore, TLAPS

(* A row without an error is not one that was given up. *)
LEMMA NilIsNoError == Nil # "no_ack"
<1>1. "no_ack" \in {"reported", "no_ack"}
  OBVIOUS
<1>2. Nil \notin {"reported", "no_ack"}
  BY StoreAssumption
<1>. QED
  BY <1>1, <1>2, Zenon

(* A freshly submitted job is a row, PENDING and without attempts. *)
LEMMA NewRowType ==
    ASSUME NEW agent \in Agent, NEW priority \in Priority,
           NEW key \in Key \cup {Nil}, NEW created \in Nat
    PROVE  /\ NewRow(agent, priority, key, created) \in JobRow
           /\ NewRow(agent, priority, key, created).state = "PENDING"
           /\ NewRow(agent, priority, key, created).agent = agent
           /\ NewRow(agent, priority, key, created).attempts = 0
           /\ NewRow(agent, priority, key, created).error = Nil
  BY StoreAssumption DEF NewRow, NoRow, JobRow, JobState, LiveState

LEMMA NoRowType == NoRow \in JobRow
  BY DEF NoRow, JobRow, JobState

(* Compare-and-swap moves the state, or does nothing; the attempts and the *)
(* outcome columns are never touched.                                      *)
LEMMA TransitionIfFacts ==
    ASSUME NEW row \in JobRow, NEW expected, NEW new \in JobState
    PROVE  LET after == TransitionIf(row, expected, new)
           IN  /\ after \in JobRow
               /\ after.agent = row.agent /\ after.attempts = row.attempts
               /\ after.error = row.error
               /\ after.state = IF row.state = expected THEN new ELSE row.state
               /\ row.state # expected => after = row
  BY DEF TransitionIf, JobRow, IsTerminal

(* Storing a result moves only RUNNING rows. *)
LEMMA CompleteIfRunningFacts ==
    ASSUME NEW row \in JobRow, NEW new \in JobState,
           NEW exit \in Int, NEW error \in {Nil, "reported"}
    PROVE  LET after == CompleteIfRunning(row, new, exit, error)
           IN  /\ after \in JobRow
               /\ after.agent = row.agent /\ after.attempts = row.attempts
               /\ row.state # "RUNNING" => after = row
               /\ row.state = "RUNNING" => after.state = new /\ after.error = error
  BY DEF CompleteIfRunning, JobRow

(* Only a PENDING row is charged an attempt. *)
LEMMA MarkDispatchedFacts ==
    ASSUME NEW row \in JobRow
    PROVE  LET after == MarkDispatchedWithAttempt(row)
           IN  /\ after \in JobRow
               /\ after.agent = row.agent /\ after.error = row.error
               /\ row.state # "PENDING" => after = row
               /\ row.state = "PENDING" => /\ after.state = "DISPATCHED"
                                           /\ after.attempts = row.attempts + 1
<1>1. row.attempts \in Nat /\ row.attempts + 1 \in Nat
  BY DEF JobRow
<1>2. CASE row.state = "PENDING"
  <2>1. MarkDispatchedWithAttempt(row)
          = [row EXCEPT !.state = "DISPATCHED", !.attempts = row.attempts + 1]
    BY <1>2 DEF MarkDispatchedWithAttempt
  <2>2. "DISPATCHED" \in JobState
    BY DEF JobState, LiveState
  <2>. QED
    BY <1>1, <1>2, <2>1, <2>2 DEF JobRow
<1>3. CASE row.state # "PENDING"
  BY <1>3 DEF MarkDispatchedWithAttempt
<1>. QED
  BY <1>2, <1>3

(* Giving up spares only finished rows. *)
LEMMA FailStaleFacts ==
    ASSUME NEW row \in JobRow
    PROVE  LET after == FailStaleDispatch(row)
           IN  /\ after \in JobRow
               /\ after.agent = row.agent /\ after.attempts = row.attempts
               /\ IsTerminal(row.state) => after = row
               /\ ~IsTerminal(row.state) => /\ after.state = "FAILED"
                                            /\ after.error = "no_ack"
<1>1. CASE IsTerminal(row.state)
  BY <1>1 DEF FailStaleDispatch
<1>2. CASE ~IsTerminal(row.state)
  <2>1. PICK code \in Int :
           FailStaleDispatch(row) = [row EXCEPT !.state = "FAILED", !.exit = code,
                                                !.error = "no_ack", !.finished = TRUE]
    <3>1. FailStaleDispatch(row) = [row EXCEPT !.state = "FAILED", !.exit = 1,
                                               !.error = "no_ack", !.finished = TRUE]
      BY <1>2, Zenon DEF FailStaleDispatch
    <3>2. 1 \in Int
      OBVIOUS
    <3>. QED
      BY <3>1, <3>2, Zenon
  <2>2. "FAILED" \in JobState
    BY DEF JobState, TerminalState
  <2>. QED
    BY <1>2, <2>1, <2>2 DEF JobRow
<1>. QED
  BY <1>1, <1>2

(* A cancel ends every row that is not finished. *)
LEMMA MarkCancelledFacts ==
    ASSUME NEW row \in JobRow
    PROVE  LET after == MarkCancelled(row)
           IN  /\ after \in JobRow
               /\ after.agent = row.agent /\ after.attempts = row.attempts
               /\ after.error = row.error
               /\ IsTerminal(row.state) => after = row
               /\ ~IsTerminal(row.state) => after.state = "CANCELLED"
<1>1. "CANCELLED" \in JobState
  BY DEF JobState, TerminalState
<1>. QED
  BY <1>1, TransitionIfFacts DEF MarkCancelled

(* The states the operations mention are states of the table. *)
LEMMA StateNames ==
    /\ {"PENDING", "DISPATCHED", "RUNNING"} \subseteq JobState
    /\ {"SUCCEEDED", "FAILED", "TIMED_OUT", "CANCELLED"} \subseteq JobState
  BY DEF JobState, LiveState, TerminalState

-----------------------------------------------------------------------------
(* The edges of the table along which a client's or an agent's call, or a  *)
(* timeout, moves a row; the AckWatcher has two more.                      *)
HandlerEdge(row, after) ==
    /\ after.agent = row.agent
    /\ \/ after = row
       \/ /\ row.state = "PENDING" /\ after.state = "DISPATCHED"
          /\ after.attempts = row.attempts + 1 /\ after.error = row.error
       \/ /\ after.attempts = row.attempts
          /\ after.error \in {row.error, Nil, "reported"}
          /\ \/ row.state = "DISPATCHED" /\ after.state = "RUNNING"
             \/ row.state = "RUNNING"
                /\ after.state \in {"SUCCEEDED", "FAILED", "TIMED_OUT"}
             \/ row.state \in LiveState /\ after.state = "CANCELLED"

(* Every service operation but the AckWatcher's follows these edges. *)
LEMMA ServiceEdges ==
    ASSUME NEW row \in JobRow
    PROVE  /\ HandlerEdge(row, MarkDispatchedWithAttempt(row))
           /\ HandlerEdge(row, MarkRunning(row))
           /\ HandlerEdge(row, MarkTimedOut(row))
           /\ row.state # "ABSENT" => HandlerEdge(row, MarkCancelled(row))
<1>1. HandlerEdge(row, MarkDispatchedWithAttempt(row))
  BY MarkDispatchedFacts DEF HandlerEdge
<1>2. HandlerEdge(row, MarkRunning(row))
  BY TransitionIfFacts, StateNames DEF HandlerEdge, MarkRunning
<1>3. HandlerEdge(row, MarkTimedOut(row))
  BY TransitionIfFacts, StateNames DEF HandlerEdge, MarkTimedOut
<1>4. ASSUME row.state # "ABSENT" PROVE HandlerEdge(row, MarkCancelled(row))
  <2>1. IsTerminal(row.state) \/ row.state \in LiveState
    BY <1>4 DEF JobRow, JobState, IsTerminal
  <2>. QED
    BY <2>1, MarkCancelledFacts DEF HandlerEdge
<1>. QED
  BY <1>1, <1>2, <1>3, <1>4

(* So does every result. *)
LEMMA ResultEdge ==
    ASSUME NEW row \in JobRow, NEW new \in {"SUCCEEDED", "FAILED"},
           NEW exit \in Int, NEW error \in {Nil, "reported"}
    PROVE  HandlerEdge(row, CompleteIfRunning(row, new, exit, error))
<1>1. new \in JobState
  BY StateNames
<1>. QED
  BY <1>1, CompleteIfRunningFacts DEF HandlerEdge
=============================================================================
