---------------------------- MODULE RecordProofs ----------------------------
(***************************************************************************)
(* Theorems about JobRecords, for every value of its constants: the audit  *)
(* trail replays to the table, and the in-memory repository holds the      *)
(* table of the SQLite one but for the rows of MemoryAgrees' exception.    *)
(***************************************************************************)
EXTENDS JobRecords, DispatchProofs

(* The events that are told after a statement on a row that exists.        *)
CarriesState == {"started"} \cup Report
Event == CarriesState \cup {"dispatched", "requeued", "failed", "timed_out", "cancelled"}

(* What a reader of the trail has come to. *)
Told == [state : JobState, attempts : Nat]

-----------------------------------------------------------------------------
(* Reading an event *)

LEMMA Meanings ==
    /\ DOMAIN Meaning
          = {"submitted", "dispatched", "requeued", "failed", "timed_out", "cancelled"}
    /\ Meaning["submitted"]  = [from |-> {"ABSENT"},     to |-> "PENDING"]
    /\ Meaning["dispatched"] = [from |-> {"PENDING"},    to |-> "DISPATCHED"]
    /\ Meaning["requeued"]   = [from |-> {"DISPATCHED"}, to |-> "PENDING"]
    /\ Meaning["failed"]     = [from |-> Unfinished,     to |-> "FAILED"]
    /\ Meaning["timed_out"]  = [from |-> Unfinished,     to |-> "TIMED_OUT"]
    /\ Meaning["cancelled"]  = [from |-> Unfinished,     to |-> "CANCELLED"]
  BY DEF Meaning

(* An event that carries the state is believed. *)
LEMMA ReadState ==
    ASSUME NEW told \in Told, NEW event \in CarriesState, NEW row
    PROVE  /\ Read(told, event, row).state = row.state
           /\ Read(told, event, row).attempts = told.attempts
           /\ row.state \in JobState => Read(told, event, row) \in Told
<1>1. event \notin DOMAIN Meaning
  BY Meanings, ControlPlaneAssumption DEF CarriesState
<1>2. Read(told, event, row) = [told EXCEPT !.state = row.state]
  BY <1>1 DEF Read
<1>. QED
  BY <1>2 DEF Told

(* An event that tells a move is read as the move, or ignored. *)
LEMMA ReadMove ==
    ASSUME NEW told \in Told, NEW event \in DOMAIN Meaning, NEW row
    PROVE  /\ told.state \notin Meaning[event].from => Read(told, event, row) = told
           /\ told.state \in Meaning[event].from =>
                 /\ Read(told, event, row).state = Meaning[event].to
                 /\ Read(told, event, row).attempts =
                       IF event = "dispatched" THEN row.attempts ELSE told.attempts
           /\ row.attempts \in Nat => Read(told, event, row) \in Told
<1>1. Meaning[event].to \in JobState
  BY Meanings DEF JobState, LiveState, TerminalState
<1>2. CASE told.state \notin Meaning[event].from
  BY <1>2 DEF Read
<1>3. CASE told.state \in Meaning[event].from
  <2>1. Read(told, event, row) =
           [state    |-> Meaning[event].to,
            attempts |-> IF event = "dispatched" THEN row.attempts ELSE told.attempts]
    BY <1>3 DEF Read
  <2>. QED
    BY <1>1, <1>3, <2>1 DEF Told
<1>. QED
  BY <1>2, <1>3

-----------------------------------------------------------------------------
(* The in-memory repository's statements and SQLite's *)

LEMMA SameMove ==
    ASSUME NEW row \in JobRow, NEW expected \in LiveState,
           NEW new \in {"RUNNING", "TIMED_OUT", "CANCELLED", "PENDING"}
    PROVE  MemoryTransitionIf(row, expected, new) = TransitionIf(row, expected, new)
<1>1. CASE row.state # expected
  BY <1>1, Zenon DEF MemoryTransitionIf, TransitionIf
<1>2. CASE row.state = expected
  <2>1. row.started \in BOOLEAN /\ row.finished \in BOOLEAN
    BY DEF JobRow
  <2>2. TransitionIf(row, expected, new)
          = [row EXCEPT !.state    = new,
                        !.started  = row.started \/ new = "RUNNING",
                        !.finished = row.finished \/ IsTerminal(new)]
    BY <1>2, Zenon DEF TransitionIf
  <2>3. CASE new = "RUNNING"
    <3>1. ~IsTerminal(new)
      BY <2>3 DEF IsTerminal, TerminalState
    <3>2. MemoryTransitionIf(row, expected, new)
            = [row EXCEPT !.state = new, !.started = TRUE]
      BY <1>2, <2>3, <3>1, Zenon DEF MemoryTransitionIf
    <3>3. /\ (row.started \/ new = "RUNNING") = TRUE
          /\ (row.finished \/ IsTerminal(new)) = row.finished
      BY <2>1, <2>3, <3>1
    <3>4. TransitionIf(row, expected, new)
            = [row EXCEPT !.state = new, !.started = TRUE, !.finished = row.finished]
      BY <2>2, <3>3, Zenon
    <3>5. [row EXCEPT !.state = new, !.started = TRUE, !.finished = row.finished]
            = [row EXCEPT !.state = new, !.started = TRUE]
      BY DEF JobRow
    <3>. QED
      BY <3>2, <3>4, <3>5, Zenon
  <2>4. CASE IsTerminal(new)
    <3>1. new # "RUNNING"
      BY <2>4 DEF IsTerminal, TerminalState
    <3>2. MemoryTransitionIf(row, expected, new)
            = [row EXCEPT !.state = new, !.finished = TRUE]
      BY <1>2, <2>4, <3>1, Zenon DEF MemoryTransitionIf
    <3>3. /\ (row.started \/ new = "RUNNING") = row.started
          /\ (row.finished \/ IsTerminal(new)) = TRUE
      BY <2>1, <2>4, <3>1
    <3>4. TransitionIf(row, expected, new)
            = [row EXCEPT !.state = new, !.started = row.started, !.finished = TRUE]
      BY <2>2, <3>3, Zenon
    <3>5. [row EXCEPT !.state = new, !.started = row.started, !.finished = TRUE]
            = [row EXCEPT !.state = new, !.finished = TRUE]
      BY DEF JobRow
    <3>. QED
      BY <3>2, <3>4, <3>5, Zenon
  <2>5. CASE new # "RUNNING" /\ ~IsTerminal(new)
    <3>1. MemoryTransitionIf(row, expected, new) = [row EXCEPT !.state = new]
      BY <1>2, <2>5, Zenon DEF MemoryTransitionIf
    <3>2. /\ (row.started \/ new = "RUNNING") = row.started
          /\ (row.finished \/ IsTerminal(new)) = row.finished
      BY <2>1, <2>5
    <3>3. TransitionIf(row, expected, new)
            = [row EXCEPT !.state = new, !.started = row.started,
                          !.finished = row.finished]
      BY <2>2, <3>2, Zenon
    <3>4. [row EXCEPT !.state = new, !.started = row.started, !.finished = row.finished]
            = [row EXCEPT !.state = new]
      BY DEF JobRow
    <3>. QED
      BY <3>1, <3>3, <3>4, Zenon
  <2>. QED
    BY <2>3, <2>4, <2>5
<1>. QED
  BY <1>1, <1>2

(* Statement by statement the two repositories do the same to a row.       *)
LEMMA SameStatements ==
    ASSUME NEW row \in JobRow
    PROVE  /\ InMemory(row, "dispatched") = MarkDispatchedWithAttempt(row)
           /\ InMemory(row, "started") = MarkRunning(row)
           /\ \A report \in Report : InMemory(row, report) = Complete(row, report)
           /\ InMemory(row, "timed_out") = MarkTimedOut(row)
           /\ InMemory(row, "requeued") = Requeue(row)
           /\ row.state # "ABSENT" => /\ InMemory(row, "cancelled") = MarkCancelled(row)
                                      /\ InMemory(row, "failed") = FailStaleDispatch(row)
<1>1. CASE row.state = "ABSENT"
  <2>1. \A event : InMemory(row, event) = row
    BY <1>1 DEF InMemory
  <2>2. /\ MarkDispatchedWithAttempt(row) = row /\ MarkRunning(row) = row
        /\ MarkTimedOut(row) = row /\ Requeue(row) = row
    BY <1>1, Zenon
    DEF MarkDispatchedWithAttempt, MarkRunning, MarkTimedOut, Requeue, TransitionIf
  <2>3. \A report \in Report : Complete(row, report) = row
    BY <1>1, ControlPlaneAssumption, Zenon
    DEF Complete, MarkFailed, MarkSucceeded, CompleteIfRunning
  <2>. QED
    BY <1>1, <2>1, <2>2, <2>3
<1>2. CASE row.state # "ABSENT"
  <2>1. InMemory(row, "dispatched") = MarkDispatchedWithAttempt(row)
    BY <1>2 DEF InMemory, MarkDispatchedWithAttempt
  <2>2. InMemory(row, "started") = MarkRunning(row)
    BY <1>2, SameMove DEF InMemory, MarkRunning, LiveState
  <2>3. ASSUME NEW report \in Report PROVE InMemory(row, report) = Complete(row, report)
    <3>1. CASE report = "error"
      BY <1>2, <3>1
      DEF InMemory, Complete, MarkFailed, MemoryCompleteIfRunning, CompleteIfRunning
    <3>2. CASE report = "exit 0"
      BY <1>2, <3>2
      DEF InMemory, Complete, MarkSucceeded, MemoryCompleteIfRunning, CompleteIfRunning
    <3>3. CASE report = "exit 1"
      BY <1>2, <3>3
      DEF InMemory, Complete, MarkFailed, MemoryCompleteIfRunning, CompleteIfRunning
    <3>. QED
      BY <3>1, <3>2, <3>3, ControlPlaneAssumption
  <2>4. InMemory(row, "timed_out") = MarkTimedOut(row)
    BY <1>2, SameMove DEF InMemory, MarkTimedOut, LiveState
  <2>5. InMemory(row, "requeued") = Requeue(row)
    BY <1>2, SameMove DEF InMemory, Requeue, LiveState
  <2>6. InMemory(row, "cancelled") = MarkCancelled(row)
    <3>1. IsTerminal(row.state) \/ row.state \in LiveState
      BY <1>2 DEF JobRow, JobState, IsTerminal
    <3>2. ~IsTerminal(row.state) =>
             MemoryTransitionIf(row, row.state, "CANCELLED")
               = TransitionIf(row, row.state, "CANCELLED")
      BY <3>1, SameMove
    <3>. QED
      BY <1>2, <3>2 DEF InMemory, MarkCancelled
  <2>7. InMemory(row, "failed") = FailStaleDispatch(row)
    BY <1>2 DEF InMemory, FailStaleDispatch
  <2>. QED
    BY <2>1, <2>2, <2>3, <2>4, <2>5, <2>6, <2>7
<1>. QED
  BY <1>1, <1>2

-----------------------------------------------------------------------------
(* What a step does to the table and what is kept beside it. *)

(* The rows the TimeoutWatcher has yet to mark; and the rows that someone  *)
(* is going to make a statement on whatever becomes of them.               *)
ToExpire == expired \cup ({firing} \cap Job)
Remembered == cancelling \cup AckBacklog \cup ToExpire

(* Only rows have keys. *)
Keyless == \A j \in Job : jobs[j].state = "ABSENT" => jobs[j].key = Nil

Quiet == UNCHANGED <<jobs, records>>

(* What the statement before the event does in memory, as long as the      *)
(* process lives: the same, but the AckWatcher passes over a row that      *)
(* changed since its scan.                                                 *)
InMemoryToo(j, event) ==
    restarts = 0 =>
        IF event \in {"requeued", "failed"} /\ mem[j].state # "DISPATCHED"
        THEN UNCHANGED <<mem, index>>
        ELSE Memory(j, event)

(* A statement on a row, and its event. *)
Telling(j, event) ==
    /\ event \in Event
    /\ event \in {"requeued", "failed"} => j \in AckBacklog
    /\ event = "timed_out" => j \in ToExpire
    /\ event = "cancelled" => j \in cancelling \/ jobs[j].state \in LiveState
    /\ jobs' = [jobs EXCEPT ![j] = InMemory(jobs[j], event)]
    /\ AppendEvent(j, event) /\ InMemoryToo(j, event)

(* A submission with a new key, or none, and one with a known key. *)
Adding(r, a, p, k) ==
    /\ jobs[r].state = "ABSENT" /\ KeyOwner(k) = {}
    /\ jobs' = [jobs EXCEPT ![r] = NewRow(a, p, k, clock)]
    /\ AppendEvent(r, "submitted") /\ MemoryAdd(r, a, p, k)

Repeating(j, r, a, p, k) ==
    /\ j \in KeyOwner(k)
    /\ UNCHANGED jobs
    /\ AppendEvent(j, "submitted") /\ MemoryAdd(r, a, p, k)

Telltale ==
    \/ Quiet
    \/ \E j \in Job : \E event \in Event : Telling(j, event)
    \/ \E r \in Job, a \in Agent, p \in Priority, k \in Key \cup {Nil} :
          Adding(r, a, p, k) \/ \E j \in Job : Repeating(j, r, a, p, k)
    \/ Restart /\ MemoryStartsEmpty /\ UNCHANGED <<trail, lost>>

(* Events and statements by name. *)
LEMMA EventNames ==
    /\ Report \subseteq CarriesState /\ CarriesState \subseteq Event
    /\ {"started", "dispatched", "requeued", "failed", "timed_out", "cancelled"}
          \subseteq Event
    /\ \A report \in Report :
          report \notin {"dispatched", "requeued", "failed", "timed_out", "cancelled"}
  BY ControlPlaneAssumption DEF Event, CarriesState

LEMMA Mirrors ==
    ASSUME NEW j \in Job, NEW event, event \notin {"requeued", "failed"},
           Memory(j, event)
    PROVE  InMemoryToo(j, event)
  BY DEF InMemoryToo

LEMMA DispatchTells ==
    ASSUME TypeOK, NEW t \in Task, RecordedDispatch(t)
    PROVE  Telltale
<1>1. disp[t].conn \in Conn /\ disp[t].job \in Job
  BY DEF TypeOK, TaskState, TaskShape, RecordedDispatch, DispatchReturn
<1>2. \/ UNCHANGED <<jobs, inflight>>
      \/ /\ inflight' = [inflight EXCEPT ![disp[t].conn] = @ + 1]
         /\ jobs' = [jobs EXCEPT ![disp[t].job]
                         = MarkDispatchedWithAttempt(jobs[disp[t].job])]
  BY DEF RecordedDispatch, DispatchReturn
<1>3. CASE inflight' = inflight
  <2>1. inflight # [inflight EXCEPT ![disp[t].conn] = @ + 1]
    BY <1>1 DEF TypeOK
  <2>. QED
    BY <1>2, <1>3, <2>1 DEF RecordedDispatch, Telltale, Quiet
<1>4. CASE inflight' # inflight
  <2>1. Recorded(disp[t].job, "dispatched")
    BY <1>4 DEF RecordedDispatch
  <2>2. jobs' = [jobs EXCEPT ![disp[t].job] = InMemory(jobs[disp[t].job], "dispatched")]
    BY <1>1, <1>2, <1>4, SameStatements DEF TypeOK
  <2>3. Telling(disp[t].job, "dispatched")
    BY <1>1, <2>1, <2>2, EventNames, Mirrors DEF Telling, Recorded
  <2>. QED
    BY <1>1, <2>3, EventNames DEF Telltale
<1>. QED
  BY <1>3, <1>4

LEMMA AgentTells ==
    ASSUME TypeOK, NEW c \in Conn, NEW j \in Job,
           \/ Started(c, j) /\ Recorded(j, "started")
           \/ \E report \in Report : RecordedResult(c, j, report)
    PROVE  Telltale
<1>0. jobs[j] \in JobRow
  BY DEF TypeOK
<1>1. CASE Started(c, j) /\ Recorded(j, "started")
  <2>1. jobs' = [jobs EXCEPT ![j] = InMemory(jobs[j], "started")]
    BY <1>0, <1>1, SameStatements DEF Started
  <2>2. Telling(j, "started")
    BY <1>1, <2>1, EventNames, Mirrors DEF Telling, Recorded
  <2>. QED
    BY <2>2, EventNames DEF Telltale
<1>2. ASSUME NEW report \in Report, RecordedResult(c, j, report) PROVE Telltale
  <2>1. jobs' = [jobs EXCEPT ![j] = InMemory(jobs[j], report)]
    BY <1>0, <1>2, SameStatements DEF RecordedResult, Result
  <2>2. Telling(j, report)
    BY <1>2, <2>1, EventNames, Mirrors DEF Telling, Recorded, RecordedResult
  <2>. QED
    BY <2>2, EventNames DEF Telltale
<1>. QED
  BY <1>1, <1>2

LEMMA SubmitTells ==
    ASSUME NEW r \in Job, NEW a \in Agent, NEW p \in Priority,
           NEW k \in Key \cup {Nil}, RecordedSubmit(r, a, p, k)
    PROVE  Telltale
<1>1. CASE KeyOwner(k) = {}
  <2>1. Adding(r, a, p, k)
    BY <1>1 DEF RecordedSubmit, Submit, Adding
  <2>. QED
    BY <2>1 DEF Telltale
<1>2. CASE KeyOwner(k) # {}
  <2>1. PICK j \in Job : j \in KeyOwner(k) /\ AppendEvent(j, "submitted")
    BY <1>2 DEF RecordedSubmit
  <2>2. Repeating(j, r, a, p, k)
    BY <1>2, <2>1 DEF RecordedSubmit, Submit, Repeating
  <2>. QED
    BY <2>2 DEF Telltale
<1>. QED
  BY <1>1, <1>2

LEMMA CancelTells ==
    ASSUME TypeOK, KnownRows, NEW j \in Job, RecordedCancel(j)
    PROVE  Telltale
<1>1. jobs[j] \in JobRow /\ jobs[j].state # "ABSENT"
  BY DEF TypeOK, KnownRows, RecordedCancel, CancelRequest, CancelReturn, LiveState
<1>2. CASE j \in cancelling'
  BY <1>2 DEF RecordedCancel, CancelRequest, CancelReturn, Telltale, Quiet
<1>3. CASE j \notin cancelling'
  <2>1. /\ jobs' = [jobs EXCEPT ![j] = MarkCancelled(jobs[j])]
        /\ j \in cancelling \/ jobs[j].state \in LiveState
    BY <1>3 DEF RecordedCancel, CancelRequest, CancelReturn
  <2>2. jobs' = [jobs EXCEPT ![j] = InMemory(jobs[j], "cancelled")]
    BY <1>1, <2>1, SameStatements
  <2>3. Telling(j, "cancelled")
    BY <1>3, <2>1, <2>2, EventNames, Mirrors DEF Telling, Recorded, RecordedCancel
  <2>. QED
    BY <2>3, EventNames DEF Telltale
<1>. QED
  BY <1>2, <1>3

(* The attempts of the scan are those of the live object, if the watcher   *)
(* does not pass over it.                                                  *)
LEMMA AckMirrors ==
    ASSUME SnapshotCurrent, MemoryAgrees, NEW j \in AckBacklog, MemoryAck(j)
    PROVE  InMemoryToo(j, AckEvent(ackDue[j]))
<1>1. j \in Job /\ jobs[j].attempts = ackDue[j]
  BY DEF SnapshotCurrent, AckBacklog
<1>2. AckEvent(ackDue[j]) \in {"requeued", "failed"}
  BY DEF AckEvent
<1>3. CASE mem[j].state = "DISPATCHED"
  <2>1. Memory(j, AckEvent(mem[j].attempts))
    BY <1>3 DEF MemoryAck
  <2>2. "DISPATCHED" \notin {"RUNNING"} \cup TerminalState
    BY DEF TerminalState
  <2>3. restarts = 0 => mem[j] = jobs[j]
    BY <1>1, <1>3, <2>2 DEF MemoryAgrees
  <2>. QED
    BY <1>1, <1>3, <2>1, <2>3 DEF InMemoryToo
<1>4. CASE mem[j].state # "DISPATCHED"
  BY <1>2, <1>4 DEF MemoryAck, InMemoryToo
<1>. QED
  BY <1>3, <1>4

LEMMA AckTells ==
    ASSUME TypeOK, KnownRows, SnapshotCurrent, MemoryAgrees, RecordedAck
    PROVE  Telltale
<1>1. PICK j \in AckBacklog :
         /\ ackDue'[j] = 0
         /\ AppendEvent(j, AckEvent(ackDue[j]))
         /\ MemoryAck(j)
  BY DEF RecordedAck
<1>2. PICK i \in Job :
         /\ ackDue' = [ackDue EXCEPT ![i] = 0]
         /\ \/ /\ Exhausted(ackDue[i])
               /\ jobs' = [jobs EXCEPT ![i] = FailStaleDispatch(jobs[i])]
            \/ /\ ~Exhausted(ackDue[i])
               /\ jobs' = [jobs EXCEPT ![i] = Requeue(jobs[i])]
  BY DEF RecordedAck, AckNext
<1>3. j \in Job /\ ackDue[j] # 0 /\ jobs[j] \in JobRow /\ jobs[j].state # "ABSENT"
  BY DEF AckBacklog, TypeOK, KnownRows
<1>4. i = j
  BY <1>1, <1>2, <1>3 DEF TypeOK
<1>5. InMemoryToo(j, AckEvent(ackDue[j]))
  BY <1>1, AckMirrors
<1>6. CASE Exhausted(ackDue[j])
  <2>1. jobs' = [jobs EXCEPT ![j] = InMemory(jobs[j], "failed")]
    BY <1>2, <1>3, <1>4, <1>6, SameStatements
  <2>2. AppendEvent(j, "failed") /\ InMemoryToo(j, "failed")
    BY <1>1, <1>5, <1>6 DEF AckEvent
  <2>3. Telling(j, "failed")
    BY <2>1, <2>2, EventNames DEF Telling
  <2>. QED
    BY <1>3, <2>3, EventNames DEF Telltale
<1>7. CASE ~Exhausted(ackDue[j])
  <2>1. jobs' = [jobs EXCEPT ![j] = InMemory(jobs[j], "requeued")]
    BY <1>2, <1>3, <1>4, <1>7, SameStatements
  <2>2. AppendEvent(j, "requeued") /\ InMemoryToo(j, "requeued")
    BY <1>1, <1>5, <1>7 DEF AckEvent
  <2>3. Telling(j, "requeued")
    BY <2>1, <2>2, EventNames DEF Telling
  <2>. QED
    BY <1>3, <2>3, EventNames DEF Telltale
<1>. QED
  BY <1>6, <1>7

LEMMA TimeoutTells ==
    ASSUME TypeOK, RecordedTimeout
    PROVE  Telltale
<1>1. CASE TimeoutNext /\ \E j \in expired \ expired' :
              IF firing' = j THEN UNCHANGED records ELSE Recorded(j, "timed_out")
  <2>1. PICK j \in expired \ expired' :
              IF firing' = j THEN UNCHANGED records ELSE Recorded(j, "timed_out")
    BY <1>1
  <2>2. PICK i \in Job :
           /\ expired' = expired \ {i}
           /\ \/ firing' = i /\ UNCHANGED jobs
              \/ /\ jobs' = [jobs EXCEPT ![i] = MarkTimedOut(jobs[i])]
                 /\ firing' = Nil
    BY <1>1 DEF TimeoutNext, TimeoutRuns
  <2>3. i = j /\ j \in Job /\ j # Nil /\ jobs[j] \in JobRow
    BY <2>2, ControlPlaneAssumption DEF TypeOK
  <2>4. CASE firing' = j
    BY <2>1, <2>2, <2>3, <2>4 DEF Telltale, Quiet
  <2>5. CASE firing' # j
    <3>1. jobs' = [jobs EXCEPT ![j] = InMemory(jobs[j], "timed_out")]
      BY <2>2, <2>3, <2>5, SameStatements
    <3>2. Telling(j, "timed_out")
      BY <2>1, <2>3, <2>5, <3>1, EventNames, Mirrors DEF Telling, Recorded, ToExpire
    <3>. QED
      BY <2>3, <3>2, EventNames DEF Telltale
  <2>. QED
    BY <2>4, <2>5
<1>2. CASE TimeoutReturn /\ Recorded(firing, "timed_out")
  <2>1. firing \in Job /\ jobs[firing] \in JobRow
    BY <1>2 DEF TypeOK, TimeoutReturn
  <2>2. jobs' = [jobs EXCEPT ![firing] = InMemory(jobs[firing], "timed_out")]
    BY <1>2, <2>1, SameStatements DEF TimeoutReturn
  <2>3. Telling(firing, "timed_out")
    BY <1>2, <2>1, <2>2, EventNames, Mirrors DEF Telling, Recorded, ToExpire
  <2>. QED
    BY <2>1, <2>3, EventNames DEF Telltale
<1>. QED
  BY <1>1, <1>2 DEF RecordedTimeout

LEMMA UnrecordedQuiet ==
    ASSUME Unrecorded /\ UNCHANGED records
    PROVE  Quiet
  BY DEF Unrecorded, Quiet, DispatchResume, Register, Lose, HandlerEnd, AckScan,
         TimeoutScan, HeartbeatScan

(* A step is one of ControlPlane that keeps its records, or a death. *)
LEMMA RecordSteps ==
    ASSUME TypeOK, KnownRows, SnapshotCurrent, MemoryAgrees,
           [RecordsNext]_<<vars, records>>
    PROVE  \/ [Next]_vars /\ Telltale
           \/ \E j \in Job : DiesBeforeEvent(j)
<1>1. CASE /\ Calm
           /\ \/ \E j \in Job, a \in Agent, p \in Priority, k \in Key \cup {Nil} :
                    RecordedSubmit(j, a, p, k)
              \/ \E t \in Task : RecordedDispatch(t)
              \/ \E c \in Conn, j \in Job :
                    \/ Started(c, j) /\ Recorded(j, "started")
                    \/ \E report \in Report : RecordedResult(c, j, report)
              \/ \E j \in Job : RecordedCancel(j)
              \/ Unrecorded /\ UNCHANGED records
  <2>1. Other
    BY <1>1 DEF Other, ConnStep, ApiStep, WatcherScan, RecordedSubmit,
                RecordedDispatch, RecordedResult, RecordedCancel, Unrecorded
  <2>2. Telltale
    BY <1>1, SubmitTells, DispatchTells, AgentTells, CancelTells, UnrecordedQuiet
    DEF Telltale
  <2>. QED
    BY <1>1, <2>1, <2>2 DEF Next
<1>2. CASE RecordedAck
  BY <1>2, AckTells DEF Next, RecordedAck
<1>3. CASE RecordedTimeout
  BY <1>3, TimeoutTells DEF Next, Other, WatcherScan, RecordedTimeout
<1>4. CASE Restart /\ MemoryStartsEmpty /\ UNCHANGED <<trail, lost>>
  BY <1>4 DEF Next, Telltale
<1>5. CASE UNCHANGED <<vars, records>>
  BY <1>5 DEF vars, Telltale, Quiet
<1>. QED
  BY <1>1, <1>2, <1>3, <1>4, <1>5 DEF RecordsNext

-----------------------------------------------------------------------------
(* The process dies before the event. *)

(* What the row j may be left as. *)
DueRow(j, row) ==
    \/ \E a \in Agent, p \in Priority, k \in Key \cup {Nil} :
          jobs[j].state = "ABSENT" /\ KeyOwner(k) = {} /\ row = NewRow(a, p, k, clock)
    \/ Sends(j) /\ row = MarkDispatchedWithAttempt(jobs[j])
    \/ row = MarkRunning(jobs[j]) \/ row = MarkTimedOut(jobs[j])
    \/ \E report \in Report : row = Complete(jobs[j], report)
    \/ jobs[j].state # "ABSENT" /\ row = MarkCancelled(jobs[j])
    \/ j \in AckBacklog /\ row = IF Exhausted(ackDue[j]) THEN FailStaleDispatch(jobs[j])
                                 ELSE Requeue(jobs[j])

LEMMA DeathRow ==
    ASSUME KnownRows, NEW j \in Job, DiesBeforeEvent(j)
    PROVE  \E row : DiesAfter(j, row) /\ DueRow(j, row)
<1>1. jobs[j].state \in LiveState => jobs[j].state # "ABSENT"
  BY DEF LiveState
<1>. QED
  BY <1>1 DEF DiesBeforeEvent, DueRow, Sends, IsNewest

(* The row that is left obeys the table's rules, wherever it came from.    *)
LEMMA DueRowFacts ==
    ASSUME IInv, NEW j \in Job, NEW row, DueRow(j, row), row # jobs[j]
    PROVE  /\ row \in JobRow /\ row.state # "ABSENT" /\ row.agent \in Agent
           /\ ~IsTerminal(jobs[j].state)
           /\ \/ \E a \in Agent, p \in Priority, k \in Key \cup {Nil} :
                    /\ jobs[j].state = "ABSENT" /\ KeyOwner(k) = {}
                    /\ row = NewRow(a, p, k, clock)
              \/ /\ jobs[j].state # "ABSENT"
                 /\ Uncharged(jobs[j], row) \/ (Charged(jobs[j], row) /\ Sends(j))
           /\ row.attempts <= MaxAttempts
           /\ row.state = "PENDING" => row.attempts < MaxAttempts
           /\ row.error = "no_ack" => row.attempts = MaxAttempts /\ row.state = "FAILED"
<1>1. /\ jobs[j] \in JobRow /\ jobs[j].attempts \in Nat /\ clock \in Nat
      /\ MaxAttempts \in Nat \ {0} /\ Nil # "no_ack"
  BY ControlPlaneAssumption, NilIsNoError DEF IInv, TypeOK, JobRow
<1>2. /\ jobs[j].attempts <= MaxAttempts
      /\ jobs[j].state = "PENDING" => jobs[j].attempts < MaxAttempts
      /\ jobs[j].error = "no_ack" => /\ jobs[j].attempts = MaxAttempts
                                     /\ jobs[j].state = "FAILED"
      /\ jobs[j].state # "ABSENT" => jobs[j].agent \in Agent
  BY DEF IInv, RetryBudget, KnownRows
<1>3. ASSUME NEW a \in Agent, NEW p \in Priority, NEW k \in Key \cup {Nil},
             jobs[j].state = "ABSENT", KeyOwner(k) = {}, row = NewRow(a, p, k, clock)
      PROVE  /\ row \in JobRow /\ row.state = "PENDING" /\ row.agent = a
             /\ row.attempts = 0 /\ row.error = Nil
             /\ ~IsTerminal(jobs[j].state)
  BY <1>1, <1>3, NewRowType DEF IsTerminal, TerminalState
<1>4. ASSUME HandlerEdge(jobs[j], row), row \in JobRow
      PROVE  /\ jobs[j].state # "ABSENT" /\ row.state # "ABSENT"
             /\ row.agent \in Agent /\ ~IsTerminal(jobs[j].state)
             /\ row.attempts <= MaxAttempts
             /\ row.state = "PENDING" => row.attempts < MaxAttempts
             /\ row.error = "no_ack" =>
                   row.attempts = MaxAttempts /\ row.state = "FAILED"
  <2>1. jobs[j].state \in LiveState
    BY <1>4 DEF HandlerEdge, LiveState
  <2>2. jobs[j].state # "ABSENT" /\ ~IsTerminal(jobs[j].state)
    BY <2>1 DEF LiveState, IsTerminal, TerminalState
  <2>. QED
    BY <1>1, <1>2, <1>4, <2>1, <2>2 DEF HandlerEdge, LiveState
<1>5. CASE \/ Sends(j) /\ row = MarkDispatchedWithAttempt(jobs[j])
           \/ row = MarkRunning(jobs[j]) \/ row = MarkTimedOut(jobs[j])
           \/ \E report \in Report : row = Complete(jobs[j], report)
           \/ jobs[j].state # "ABSENT" /\ row = MarkCancelled(jobs[j])
  <2>1. HandlerEdge(jobs[j], row)
    BY <1>1, <1>5, ServiceEdges, CompleteFacts
  <2>2. row \in JobRow
    BY <1>1, <1>5, MarkDispatchedFacts, TimedOutType, CompleteFacts, MarkCancelledFacts
  <2>3. Uncharged(jobs[j], row) \/ (Charged(jobs[j], row) /\ Sends(j))
    <3>1. CASE Sends(j) /\ row = MarkDispatchedWithAttempt(jobs[j])
      BY <1>1, <3>1, OperationsKeep
    <3>2. CASE row # MarkDispatchedWithAttempt(jobs[j])
      <4>1. Unqueued(jobs[j], row)
        BY <1>1, <1>5, <3>2, OperationsKeep
      <4>. QED
        BY <4>1 DEF Unqueued
    <3>3. CASE row = MarkDispatchedWithAttempt(jobs[j]) /\ ~Sends(j)
      <4>1. Unqueued(jobs[j], row)
        BY <1>1, <1>5, <3>3, OperationsKeep
      <4>. QED
        BY <4>1 DEF Unqueued
    <3>. QED
      BY <3>1, <3>2, <3>3
  <2>. QED
    BY <1>4, <2>1, <2>2, <2>3
<1>6. CASE /\ j \in AckBacklog
           /\ row = IF Exhausted(ackDue[j]) THEN FailStaleDispatch(jobs[j])
                    ELSE Requeue(jobs[j])
  <2>1. /\ jobs[j].attempts = ackDue[j] /\ jobs[j].state # "ABSENT"
    BY <1>6 DEF IInv, SnapshotCurrent, KnownRows
  <2>2. CASE Exhausted(ackDue[j])
    <3>1. row = FailStaleDispatch(jobs[j])
      BY <1>6, <2>2
    <3>2. /\ row \in JobRow
          /\ row.agent = jobs[j].agent /\ row.attempts = jobs[j].attempts
          /\ ~IsTerminal(jobs[j].state) /\ row.state = "FAILED"
      BY <1>1, <3>1, FailStaleFacts
    <3>4. Uncharged(jobs[j], row)
      BY <1>1, <2>1, <3>1, OperationsKeep DEF Unqueued
    <3>3. row.attempts = MaxAttempts
      BY <1>1, <1>2, <2>1, <2>2, <3>2 DEF Exhausted
    <3>. QED
      BY <1>2, <2>1, <3>2, <3>3, <3>4
  <2>3. CASE ~Exhausted(ackDue[j])
    <3>1. row = Requeue(jobs[j])
      BY <1>6, <2>3
    <3>2. /\ row \in JobRow
          /\ row.agent = jobs[j].agent /\ row.attempts = jobs[j].attempts
          /\ row.error = jobs[j].error
          /\ jobs[j].state = "DISPATCHED" /\ row.state = "PENDING"
      BY <1>1, <3>1, TransitionIfFacts, StateNames DEF Requeue
    <3>4. Uncharged(jobs[j], row)
      BY <1>1, <3>1, OperationsKeep
    <3>3. row.attempts < MaxAttempts /\ ~IsTerminal(jobs[j].state)
      BY <1>1, <1>2, <2>1, <2>3, <3>2 DEF Exhausted, IsTerminal, TerminalState
    <3>. QED
      BY <1>2, <2>1, <3>2, <3>3, <3>4
  <2>. QED
    BY <2>2, <2>3
<1>. QED
  BY <1>1, <1>3, <1>5, <1>6 DEF DueRow

(* The restarts are counted. *)
LEMMA CountedRestarts ==
    ASSUME TypeOK
    PROVE  restarts \in Nat
<1>1. restarts \in 0 .. MaxRestarts
  BY DEF TypeOK
<1>2. MaxRestarts \in Nat
  BY ControlPlaneAssumption
<1>. QED
  BY <1>1, <1>2

(* After a death the server has forgotten all but a table in good order.   *)
LEMMA Death ==
    ASSUME IInv, NEW j \in Job, DiesBeforeEvent(j)
    PROVE  /\ IInv' /\ (Served \/ Inserted)
           /\ Remembered' = {} /\ restarts' # 0 /\ trail' = trail
           /\ lost' = lost \cup {j} /\ ~IsTerminal(jobs[j].state)
           /\ jobs'[j].state # "ABSENT"
           /\ \A i \in Job \ {j} : jobs'[i] = jobs[i]
<1>1. PICK row : DiesAfter(j, row) /\ DueRow(j, row)
  BY DeathRow DEF IInv
<1>2. /\ row # jobs[j] /\ Reboot
      /\ jobs' = [jobs EXCEPT ![j] = row]
      /\ clock' = IF jobs[j].state = "ABSENT" THEN clock + 1 ELSE clock
      /\ lost' = lost \cup {j} /\ trail' = trail
  BY <1>1 DEF DiesAfter
<1>3. /\ row \in JobRow /\ row.state # "ABSENT" /\ row.agent \in Agent
      /\ ~IsTerminal(jobs[j].state)
      /\ row.attempts <= MaxAttempts
      /\ row.state = "PENDING" => row.attempts < MaxAttempts
      /\ row.error = "no_ack" => row.attempts = MaxAttempts /\ row.state = "FAILED"
  BY <1>1, <1>2, DueRowFacts
<1>4. jobs'[j] = row /\ \A i \in Job \ {j} : jobs'[i] = jobs[i]
  BY <1>2 DEF IInv, TypeOK
<1>5. AckBacklog' = {} /\ cancelling' = {} /\ expired' = {} /\ firing' = Nil
  BY <1>2 DEF Reboot, AckBacklog
<1>6. Remembered' = {}
  BY <1>5, ControlPlaneAssumption DEF Remembered, ToExpire
<1>7. Served \/ Inserted
  <2>1. CASE \E a \in Agent, p \in Priority, k \in Key \cup {Nil} :
                /\ jobs[j].state = "ABSENT" /\ KeyOwner(k) = {}
                /\ row = NewRow(a, p, k, clock)
    BY <1>2, <2>1 DEF Inserted
  <2>2. CASE /\ jobs[j].state # "ABSENT"
             /\ Uncharged(jobs[j], row) \/ (Charged(jobs[j], row) /\ Sends(j))
    <3>1. clock' = clock /\ jobs \in [Job -> JobRow]
      BY <1>2, <2>2 DEF IInv, TypeOK
    <3>2. Sends(j) => Returns(j)
      BY <1>2 DEF Sends, Returns, Reboot, Idle
    <3>. QED
      BY <1>2, <2>2, <3>1, <3>2, OneRow
  <2>. QED
    BY <1>1, <1>2, <2>1, <2>2, DueRowFacts
<1>8. TypeOK'
  <2>1. restarts' \in 0 .. MaxRestarts
    <3>1. MaxRestarts \in Nat
      BY ControlPlaneAssumption
    <3>. QED
      BY <1>2, <3>1 DEF IInv, TypeOK, Reboot
  <2>2. disp' \in [Task -> TaskState] /\ \A t \in Task : TaskShape(disp'[t])
    BY <1>2, TaskStates DEF Reboot
  <2>3. /\ registry' \in [Agent -> Conn \cup {Nil}]
        /\ link' \in [Conn -> {"open", "lost", "ended"}]
        /\ lockGen' \in [Agent -> Nat] /\ ackDue' \in [Job -> Nat]
        /\ expired' \in SUBSET Job /\ cancelling' \in SUBSET Job
        /\ firing' \in Job \cup {Nil}
    BY <1>2 DEF IInv, TypeOK, Reboot
  <2>4. jobs' \in [Job -> JobRow] /\ clock' \in Nat
    BY <1>2, <1>3 DEF IInv, TypeOK
  <2>. QED
    BY <1>2, <2>1, <2>2, <2>3, <2>4 DEF IInv, TypeOK, Reboot
<1>9. KnownRows'
  BY <1>3, <1>4, <1>5 DEF IInv, KnownRows
<1>10. SnapshotCurrent'
  BY <1>5 DEF SnapshotCurrent
<1>11. RetryBudget'
  BY <1>3, <1>4 DEF IInv, RetryBudget
<1>12. restarts' # 0
  <2>1. restarts \in Nat /\ restarts' = restarts + 1
    BY <1>2, CountedRestarts DEF IInv, Reboot
  <2>. QED
    BY <2>1
<1>. QED
  BY <1>2, <1>3, <1>4, <1>6, <1>7, <1>8, <1>9, <1>10, <1>11, <1>12 DEF IInv

-----------------------------------------------------------------------------
(* The inductive invariant *)

(* A row about to be timed out was running when the scan found it. *)
ExpiredRuns == \A j \in ToExpire : jobs[j].state \in {"RUNNING"} \cup TerminalState

(* A trail that lags behind a finished job is not going to be continued:   *)
(* what it lacks was lost in a crash, and so was who remembered the job.   *)
Behind ==
    \A j \in Remembered : IsTerminal(jobs[j].state) => IsTerminal(trail[j].state)

TrailInv == trail \in [Job -> Told] /\ Behind /\ TrailReplays /\ TrailNeverWrong

MemoryInv == MemoryAgrees /\ (restarts = 0 => mem \in [Job -> JobRow])

RInv ==
    /\ IInv /\ OutcomeConsistent /\ OneJobPerKey /\ ClockAhead /\ Keyless
    /\ ExpiredRuns /\ TrailInv /\ MemoryInv

(* The statement before an event moves the row along one edge, or does     *)
(* nothing.                                                                *)
LEMMA Statements ==
    ASSUME NEW row \in JobRow, NEW event \in Event, NEW after,
           after = InMemory(row, event),
           event \in {"cancelled", "failed"} => row.state # "ABSENT"
    PROVE  /\ after \in JobRow
           /\ event # "dispatched" => after.attempts = row.attempts
           /\ event = "dispatched" =>
                 IF row.state = "PENDING"
                 THEN after.state = "DISPATCHED" /\ after.attempts = row.attempts + 1
                 ELSE after = row
           /\ event = "requeued" =>
                 after.state = IF row.state = "DISPATCHED" THEN "PENDING" ELSE row.state
           /\ event = "timed_out" =>
                 after.state = IF row.state = "RUNNING" THEN "TIMED_OUT" ELSE row.state
           /\ event = "failed" =>
                 after.state = IF IsTerminal(row.state) THEN row.state ELSE "FAILED"
           /\ event = "cancelled" =>
                 after.state = IF IsTerminal(row.state) THEN row.state ELSE "CANCELLED"
           /\ IsTerminal(row.state) => after.state = row.state
<1>1. ~IsTerminal("DISPATCHED") /\ ~IsTerminal("RUNNING") /\ ~IsTerminal("PENDING")
  BY DEF IsTerminal, TerminalState
<1>2. CASE event = "dispatched"
  BY <1>1, <1>2, SameStatements, MarkDispatchedFacts
<1>3. CASE event = "started"
  <2>1. after = TransitionIf(row, "DISPATCHED", "RUNNING")
    BY <1>3, SameStatements DEF MarkRunning
  <2>. QED
    BY <1>1, <1>3, <2>1, TransitionIfFacts, StateNames
<1>4. CASE event = "requeued"
  <2>1. after = TransitionIf(row, "DISPATCHED", "PENDING")
    BY <1>4, SameStatements DEF Requeue
  <2>. QED
    BY <1>1, <1>4, <2>1, TransitionIfFacts, StateNames
<1>5. CASE event = "timed_out"
  <2>1. after = TransitionIf(row, "RUNNING", "TIMED_OUT")
    BY <1>5, SameStatements DEF MarkTimedOut
  <2>. QED
    BY <1>1, <1>5, <2>1, TransitionIfFacts, StateNames
<1>6. CASE event = "failed"
  BY <1>6, SameStatements, FailStaleFacts
<1>7. CASE event = "cancelled"
  BY <1>7, SameStatements, MarkCancelledFacts
<1>8. CASE event \in Report
  <2>1. after \in JobRow /\ HandlerEdge(row, after)
    BY <1>8, SameStatements, CompleteFacts
  <2>2. /\ after.attempts = row.attempts
        /\ IsTerminal(row.state) => after.state = row.state
    <3>1. CASE row.state = "PENDING"
      <4>1. after = row
        BY <1>8, <3>1, SameStatements, ControlPlaneAssumption, Zenon
        DEF Complete, MarkFailed, MarkSucceeded, CompleteIfRunning
      <4>. QED
        BY <4>1
    <3>2. CASE row.state # "PENDING"
      BY <2>1, <3>2 DEF HandlerEdge, IsTerminal, TerminalState, LiveState
    <3>. QED
      BY <3>1, <3>2
  <2>. QED
    BY <1>8, <2>1, <2>2, EventNames
<1>. QED
  BY <1>2, <1>3, <1>4, <1>5, <1>6, <1>7, <1>8 DEF Event, CarriesState

(* ... and keeps its key. *)
LEMMA StatementKey ==
    ASSUME NEW row \in JobRow, NEW event \in Event, NEW after,
           after = InMemory(row, event),
           event \in {"cancelled", "failed"} => row.state # "ABSENT"
    PROVE  after.key = row.key
<1>1. \/ Unqueued(row, after) \/ Uncharged(row, after)
      \/ after = row \/ Charged(row, after)
  BY SameStatements, OperationsKeep DEF Event, CarriesState
<1>. QED
  BY <1>1 DEF Unqueued, Uncharged, Charged, Kept

-----------------------------------------------------------------------------
(* The audit trail *)

(* What becomes of the trail of job j: it replays, it tells no outcome but *)
(* the job's, it lags behind no job that finishes now, and it takes no     *)
(* outcome back.                                                           *)
TrailMoves(j) ==
    /\ trail'[j] \in Told
    /\ j \notin lost =>
          trail'[j] = [state |-> jobs'[j].state, attempts |-> jobs'[j].attempts]
    /\ IsTerminal(trail'[j].state) => jobs'[j].state = trail'[j].state
    /\ IsTerminal(jobs'[j].state) =>
          IsTerminal(jobs[j].state) \/ IsTerminal(trail'[j].state)
    /\ IsTerminal(trail[j].state) => IsTerminal(trail'[j].state)

LEMMA TrailFacts ==
    ASSUME RInv, NEW j \in Job
    PROVE  /\ jobs[j] \in JobRow /\ jobs[j].attempts \in Nat
           /\ jobs[j].state \in JobState
           /\ trail \in [Job -> Told] /\ trail[j] \in Told
           /\ trail[j].state \in JobState /\ trail[j].attempts \in Nat
           /\ trail[j] = [state |-> trail[j].state, attempts |-> trail[j].attempts]
           /\ j \notin lost => /\ trail[j].state = jobs[j].state
                               /\ trail[j].attempts = jobs[j].attempts
           /\ IsTerminal(trail[j].state) => jobs[j].state = trail[j].state
           /\ jobs[j].state = "ABSENT" => jobs[j].attempts = 0 /\ jobs[j].key = Nil
           /\ trail[j].state \in Unfinished <=> ~IsTerminal(trail[j].state)
<1>1. trail[j] \in Told /\ jobs[j] \in JobRow
  BY DEF RInv, TrailInv, IInv, TypeOK
<1>2. j \notin lost =>
         trail[j] = [state |-> jobs[j].state, attempts |-> jobs[j].attempts]
  BY DEF RInv, TrailInv, TrailReplays
<1>3. /\ IsTerminal(trail[j].state) => jobs[j].state = trail[j].state
      /\ jobs[j].state = "ABSENT" => jobs[j].attempts = 0 /\ jobs[j].key = Nil
      /\ trail \in [Job -> Told]
  BY DEF RInv, TrailInv, TrailNeverWrong, IInv, KnownRows, Keyless
<1>4. /\ jobs[j].attempts \in Nat /\ jobs[j].state \in JobState
  BY <1>1 DEF JobRow
<1>5. /\ trail[j].state \in JobState /\ trail[j].attempts \in Nat
      /\ trail[j] = [state |-> trail[j].state, attempts |-> trail[j].attempts]
  BY <1>1 DEF Told
<1>. QED
  BY <1>1, <1>2, <1>3, <1>4, <1>5 DEF Unfinished, IsTerminal

(* An event that leaves a trail in step with its row. *)
LEMMA InStep ==
    ASSUME NEW told \in Told, NEW row, told.state = row.state,
           told.attempts = row.attempts
    PROVE  told = [state |-> row.state, attempts |-> row.attempts]
  BY DEF Told

LEMMA TellingMoves ==
    ASSUME RInv, NEW j \in Job, NEW event \in Event, Telling(j, event)
    PROVE  TrailMoves(j)
<1>. DEFINE row   == jobs[j]
            after == jobs'[j]
            told  == trail[j]
            read  == trail'[j]
<1>1. /\ row \in JobRow /\ told \in Told
      /\ row.attempts \in Nat /\ told.attempts \in Nat
      /\ row.state \in JobState /\ told.state \in JobState
      /\ j \notin lost => told.state = row.state /\ told.attempts = row.attempts
      /\ IsTerminal(told.state) => row.state = told.state
      /\ told.state \in Unfinished <=> ~IsTerminal(told.state)
  BY TrailFacts
<1>2. read = Read(told, event, after)
  BY TrailFacts DEF Telling, AppendEvent
<1>3. after = InMemory(row, event)
  BY DEF Telling, RInv, IInv, TypeOK
<1>4. event \in {"cancelled", "failed"} => row.state # "ABSENT"
  BY DEF Telling, RInv, IInv, KnownRows, LiveState
<1>5. j \in Remembered /\ IsTerminal(row.state) => IsTerminal(told.state)
  BY DEF RInv, TrailInv, Behind
<1>6. /\ ~IsTerminal("DISPATCHED") /\ ~IsTerminal("RUNNING") /\ ~IsTerminal("PENDING")
      /\ IsTerminal("FAILED") /\ IsTerminal("TIMED_OUT") /\ IsTerminal("CANCELLED")
      /\ \A s \in LiveState : ~IsTerminal(s)
  BY DEF IsTerminal, TerminalState, LiveState
<1>7. after \in JobRow /\ after.state \in JobState /\ after.attempts \in Nat
  <2>1. after \in JobRow
    BY <1>1, <1>3, <1>4, Statements
  <2>. QED
    BY <2>1 DEF JobRow
<1>8. IsTerminal(row.state) => after.state = row.state
  BY <1>1, <1>3, <1>4, Statements
<1>. SUFFICES /\ read \in Told
              /\ j \notin lost => read.state = after.state /\ read.attempts = after.attempts
              /\ IsTerminal(read.state) => after.state = read.state
              /\ IsTerminal(after.state) =>
                    IsTerminal(row.state) \/ IsTerminal(read.state)
              /\ IsTerminal(told.state) => IsTerminal(read.state)
  BY InStep DEF TrailMoves
<1>. HIDE DEF row, after, told, read
<1>9. CASE event \in CarriesState
  <2>1. read \in Told /\ read.state = after.state /\ read.attempts = told.attempts
    BY <1>1, <1>2, <1>7, <1>9, ReadState
  <2>2. event # "dispatched" /\ event # "cancelled"
    BY <1>9, EventNames DEF CarriesState
  <2>3. after.attempts = row.attempts
    BY <1>1, <1>3, <1>4, <2>2, Statements
  <2>. QED
    BY <1>1, <1>8, <2>1, <2>3
<1>10. ASSUME event \in DOMAIN Meaning
       PROVE  /\ told.state \notin Meaning[event].from => read = told
              /\ told.state \in Meaning[event].from =>
                    /\ read.state = Meaning[event].to
                    /\ read.attempts = IF event = "dispatched" THEN after.attempts
                                       ELSE told.attempts
              /\ read \in Told
  BY <1>1, <1>2, <1>7, <1>10, ReadMove
<1>11. CASE event = "dispatched"
  <2>1. /\ told.state # "PENDING" => read = told
        /\ told.state = "PENDING" =>
              read.state = "DISPATCHED" /\ read.attempts = after.attempts
        /\ read \in Told
    BY <1>10, <1>11, Meanings
  <2>2. IF row.state = "PENDING"
        THEN after.state = "DISPATCHED" /\ after.attempts = row.attempts + 1
        ELSE after = row
    BY <1>1, <1>3, <1>11, Statements
  <2>. QED
    BY <1>1, <1>6, <2>1, <2>2
<1>12. CASE event = "requeued"
  <2>1. /\ told.state # "DISPATCHED" => read = told
        /\ told.state = "DISPATCHED" =>
              read.state = "PENDING" /\ read.attempts = told.attempts
        /\ read \in Told
    BY <1>10, <1>12, Meanings
  <2>2. /\ after.state = IF row.state = "DISPATCHED" THEN "PENDING" ELSE row.state
        /\ after.attempts = row.attempts
    BY <1>1, <1>3, <1>12, Statements
  <2>. QED
    BY <1>1, <1>6, <2>1, <2>2
<1>13. CASE event \in {"failed", "timed_out", "cancelled"}
  <2>. DEFINE new == IF event = "failed" THEN "FAILED"
                     ELSE IF event = "timed_out" THEN "TIMED_OUT" ELSE "CANCELLED"
  <2>1. /\ IsTerminal(told.state) => read = told
        /\ ~IsTerminal(told.state) =>
              read.state = new /\ read.attempts = told.attempts
        /\ read \in Told
    BY <1>1, <1>10, <1>13, Meanings
  <2>2. IsTerminal(row.state) => IsTerminal(told.state)
    <3>1. j \in Remembered \/ row.state \in LiveState
      BY <1>13 DEF Telling, Remembered, row
    <3>. QED
      BY <1>5, <1>6, <3>1
  <2>3. event = "timed_out" => row.state = "RUNNING" \/ IsTerminal(row.state)
    BY DEF Telling, RInv, ExpiredRuns, IsTerminal, row
  <2>4. /\ after.state = IF IsTerminal(row.state) THEN row.state ELSE new
        /\ after.attempts = row.attempts
    BY <1>1, <1>3, <1>4, <1>6, <1>13, <2>3, Statements
  <2>5. IsTerminal(new)
    BY <1>6
  <2>. HIDE DEF new
  <2>. QED
    BY <1>1, <2>1, <2>2, <2>4, <2>5
<1>. QED
  BY <1>9, <1>11, <1>12, <1>13 DEF Event

(* The event of a submission: of a new row, or of the row that has the key. *)
LEMMA SubmittedMoves ==
    ASSUME RInv, NEW j \in Job, AppendEvent(j, "submitted"),
           \/ jobs[j].state = "ABSENT" /\ jobs'[j].state = "PENDING"
                 /\ jobs'[j].attempts = 0
           \/ jobs[j].state # "ABSENT" /\ jobs'[j] = jobs[j]
    PROVE  TrailMoves(j)
<1>1. /\ trail[j] \in Told /\ jobs[j].attempts \in Nat
      /\ j \notin lost => /\ trail[j].state = jobs[j].state
                          /\ trail[j].attempts = jobs[j].attempts
      /\ IsTerminal(trail[j].state) => jobs[j].state = trail[j].state
      /\ jobs[j].state = "ABSENT" => jobs[j].attempts = 0
  BY TrailFacts
<1>2. trail'[j] = Read(trail[j], "submitted", jobs'[j])
  BY TrailFacts DEF AppendEvent
<1>3. ~IsTerminal("ABSENT") /\ ~IsTerminal("PENDING")
  BY DEF IsTerminal, TerminalState
<1>4. /\ trail[j].state # "ABSENT" => trail'[j] = trail[j]
      /\ trail[j].state = "ABSENT" => /\ trail'[j].state = "PENDING"
                                      /\ trail'[j].attempts = trail[j].attempts
      /\ trail'[j] \in Told
  <2>1. /\ "submitted" \in DOMAIN Meaning /\ jobs'[j].attempts \in Nat
        /\ Meaning["submitted"].from = {"ABSENT"}
        /\ Meaning["submitted"].to = "PENDING"
    BY <1>1, Meanings
  <2>. DEFINE read == Read(trail[j], "submitted", jobs'[j])
  <2>2. /\ trail[j].state \notin {"ABSENT"} => read = trail[j]
        /\ trail[j].state \in {"ABSENT"} => /\ read.state = "PENDING"
                                           /\ read.attempts = trail[j].attempts
        /\ read \in Told
    BY <1>1, <2>1, ReadMove
  <2>. QED
    BY <1>2, <2>2
<1>5. j \notin lost => /\ trail'[j].state = jobs'[j].state
                       /\ trail'[j].attempts = jobs'[j].attempts
  BY <1>1, <1>4
<1>6. /\ IsTerminal(trail'[j].state) => jobs'[j].state = trail'[j].state
      /\ IsTerminal(jobs'[j].state) => IsTerminal(jobs[j].state)
      /\ IsTerminal(trail[j].state) => IsTerminal(trail'[j].state)
  BY <1>1, <1>3, <1>4
<1>. QED
  BY <1>4, <1>5, <1>6, InStep DEF TrailMoves

(* A job whose row and trail stay as they are. *)
LEMMA StillMoves ==
    ASSUME RInv, NEW j \in Job, trail'[j] = trail[j], jobs'[j] = jobs[j]
    PROVE  TrailMoves(j)
  BY TrailFacts DEF TrailMoves

LEMMA AppendOne ==
    ASSUME RInv, NEW j \in Job, NEW event, AppendEvent(j, event), TrailMoves(j)
    PROVE  trail' \in [Job -> Told] /\ \A i \in Job \ {j} : trail'[i] = trail[i]
<1>1. trail \in [Job -> Told] /\ trail'[j] \in Told
  BY TrailFacts DEF TrailMoves
<1>. QED
  BY <1>1 DEF AppendEvent

LEMMA TrailsMove ==
    ASSUME RInv, Telltale
    PROVE  /\ trail' \in [Job -> Told] /\ lost' = lost
           /\ \A j \in Job : TrailMoves(j)
<1>0. jobs \in [Job -> JobRow] /\ trail \in [Job -> Told]
  BY DEF RInv, TrailInv, IInv, TypeOK
<1>1. CASE Quiet
  BY <1>0, <1>1, StillMoves DEF Quiet, records
<1>2. CASE Restart /\ MemoryStartsEmpty /\ UNCHANGED <<trail, lost>>
  BY <1>0, <1>2, StillMoves DEF Restart
<1>3. ASSUME NEW j \in Job, NEW event \in Event, Telling(j, event)
      PROVE  /\ trail' \in [Job -> Told] /\ lost' = lost
             /\ \A i \in Job : TrailMoves(i)
  <2>1. TrailMoves(j)
    BY <1>3, TellingMoves
  <2>2. AppendEvent(j, event) /\ \A i \in Job \ {j} : jobs'[i] = jobs[i]
    BY <1>0, <1>3 DEF Telling
  <2>3. trail' \in [Job -> Told] /\ \A i \in Job \ {j} : trail'[i] = trail[i]
    BY <2>1, <2>2, AppendOne
  <2>. QED
    BY <2>1, <2>2, <2>3, StillMoves DEF AppendEvent
<1>4. ASSUME NEW r \in Job, NEW a \in Agent, NEW p \in Priority,
             NEW k \in Key \cup {Nil}, Adding(r, a, p, k)
      PROVE  /\ trail' \in [Job -> Told] /\ lost' = lost
             /\ \A i \in Job : TrailMoves(i)
  <2>1. /\ jobs'[r] = NewRow(a, p, k, clock) /\ clock \in Nat
        /\ \A i \in Job \ {r} : jobs'[i] = jobs[i]
    BY <1>0, <1>4 DEF Adding, RInv, IInv, TypeOK
  <2>2. jobs'[r].state = "PENDING" /\ jobs'[r].attempts = 0
    BY <2>1, NewRowType
  <2>3. TrailMoves(r) /\ AppendEvent(r, "submitted")
    BY <1>4, <2>2, SubmittedMoves DEF Adding
  <2>4. trail' \in [Job -> Told] /\ \A i \in Job \ {r} : trail'[i] = trail[i]
    BY <2>3, AppendOne
  <2>. QED
    BY <2>1, <2>3, <2>4, StillMoves DEF AppendEvent
<1>5. ASSUME NEW r \in Job, NEW a \in Agent, NEW p \in Priority,
             NEW k \in Key \cup {Nil}, NEW j \in Job, Repeating(j, r, a, p, k)
      PROVE  /\ trail' \in [Job -> Told] /\ lost' = lost
             /\ \A i \in Job : TrailMoves(i)
  <2>1. jobs' = jobs /\ jobs[j].key # Nil
    BY <1>5 DEF Repeating, KeyOwner
  <2>2. jobs[j].state # "ABSENT"
    BY <2>1 DEF RInv, Keyless
  <2>3. TrailMoves(j) /\ AppendEvent(j, "submitted")
    BY <1>5, <2>1, <2>2, SubmittedMoves DEF Repeating
  <2>4. trail' \in [Job -> Told] /\ \A i \in Job \ {j} : trail'[i] = trail[i]
    BY <2>3, AppendOne
  <2>. QED
    BY <2>1, <2>3, <2>4, StillMoves DEF AppendEvent
<1>. QED
  BY <1>1, <1>2, <1>3, <1>4, <1>5 DEF Telltale

-----------------------------------------------------------------------------
(* What the server remembers *)

(* A row is remembered for a statement while it is live, and for a timeout *)
(* while it is running.                                                    *)
LEMMA Remembers ==
    ASSUME TypeOK, [Next]_vars
    PROVE  /\ \A j \in Remembered' : j \in Remembered \/ jobs[j].state \in LiveState
           /\ \A j \in ToExpire' : j \in ToExpire \/ jobs[j].state = "RUNNING"
<1>1. \A j \in cancelling' : j \in cancelling \/ jobs[j].state \in LiveState
  BY CancellingSteps
<1>2. \A j \in AckBacklog' : j \in AckBacklog \/ jobs[j].state = "DISPATCHED"
  <2>1. ASSUME NEW S \in SUBSET Job, AckScan(S)
        PROVE  \A j \in AckBacklog' : jobs[j].state = "DISPATCHED"
    BY <2>1 DEF AckScan, AckBacklog
  <2>2. CASE AckNext \/ Restart
    BY <2>2 DEF AckNext, Restart, Reboot, AckBacklog, TypeOK
  <2>3. ASSUME \/ TimeoutNext \/ TimeoutReturn
               \/ \E t \in Task : DispatchResume(t) \/ DispatchReturn(t)
               \/ \E c \in Conn : ConnStep(c)
               \/ \E j \in Job : ApiStep(j)
               \/ \E S \in SUBSET Job : TimeoutScan(S)
               \/ \E S \in SUBSET Agent : HeartbeatScan(S)
               \/ UNCHANGED vars
        PROVE  ackDue' = ackDue
    BY <2>3 DEF TimeoutNext, TimeoutReturn, DispatchResume, DispatchReturn, ConnStep,
                Register, Started, Result, Lose, HandlerEnd, ApiStep, Submit,
                CancelRequest, CancelReturn, TimeoutScan, HeartbeatScan, vars, watchers
  <2>. QED
    BY <2>1, <2>2, <2>3 DEF Next, Other, WatcherScan, AckBacklog
<1>3. \A j \in ToExpire' : j \in ToExpire \/ jobs[j].state = "RUNNING"
  <2>1. ASSUME NEW S \in SUBSET Job, TimeoutScan(S)
        PROVE  \A j \in ToExpire' : j \in ToExpire \/ jobs[j].state = "RUNNING"
    BY <2>1 DEF TimeoutScan, ToExpire
  <2>2. CASE TimeoutNext
    <3>1. PICK i \in Job :
             /\ i \in expired /\ expired' = expired \ {i}
             /\ firing' = i \/ firing' = firing
      BY <2>2 DEF TimeoutNext, IsNewest
    <3>. QED
      BY <3>1 DEF ToExpire
  <2>4. CASE TimeoutReturn \/ Restart
    BY <2>4, ControlPlaneAssumption DEF TimeoutReturn, Restart, Reboot, ToExpire
  <2>3. ASSUME \/ AckNext
               \/ \E t \in Task : DispatchResume(t) \/ DispatchReturn(t)
               \/ \E c \in Conn : ConnStep(c)
               \/ \E j \in Job : ApiStep(j)
               \/ \E S \in SUBSET Job : AckScan(S)
               \/ \E S \in SUBSET Agent : HeartbeatScan(S)
               \/ UNCHANGED vars
        PROVE  UNCHANGED <<expired, firing>>
    BY <2>3 DEF AckNext, DispatchResume, DispatchReturn, ConnStep, Register, Started,
                Result, Lose, HandlerEnd, ApiStep, Submit, CancelRequest, CancelReturn,
                AckScan, HeartbeatScan, vars, watchers
  <2>. QED
    BY <2>1, <2>2, <2>3, <2>4 DEF Next, Other, WatcherScan, ToExpire
<1>. QED
  BY <1>1, <1>2, <1>3 DEF Remembered, LiveState

(* A running row runs on or ends. *)
LEMMA RunsOn ==
    ASSUME IInv, TableStep, NEW j \in Job,
           jobs[j].state \in {"RUNNING"} \cup TerminalState
    PROVE  jobs'[j].state \in {"RUNNING"} \cup TerminalState
<1>1. jobs[j] \in JobRow /\ jobs[j].state \notin {"ABSENT", "PENDING", "DISPATCHED"}
  BY DEF IInv, TypeOK, TerminalState
<1>2. CASE HandlerEdge(jobs[j], jobs'[j])
  BY <1>1, <1>2 DEF HandlerEdge, TerminalState
<1>3. CASE AckDecision(j)
  BY <1>1, <1>3, FailStaleFacts, TransitionIfFacts, StateNames
  DEF AckDecision, Requeue, IsTerminal, TerminalState
<1>4. ~Insertion(j)
  BY <1>1 DEF Insertion
<1>5. CASE jobs'[j] = jobs[j]
  BY <1>5
<1>. QED
  BY <1>2, <1>3, <1>4, <1>5
  DEF IInv, TypeOK, TableStep, HandlerCall, Insertion, AckDecision, Snapshot

LEMMA ExpiredRunsStep ==
    ASSUME RInv, [Next]_vars
    PROVE  ExpiredRuns'
<1>1. TypeOK /\ KnownRows /\ IInv
  BY DEF RInv, IInv
<1>2. TableStep /\ \A j \in ToExpire' : j \in ToExpire \/ jobs[j].state = "RUNNING"
  BY <1>1, TableSteps, Remembers
<1>3. \A j \in ToExpire' : j \in Job
  <2>1. TypeOK'
    BY <1>1, IInvStep DEF IInv
  <2>. QED
    BY <2>1 DEF TypeOK, ToExpire
<1>4. \A j \in ToExpire' : jobs[j].state \in {"RUNNING"} \cup TerminalState
  BY <1>2 DEF RInv, ExpiredRuns
<1>. QED
  BY <1>1, <1>2, <1>3, <1>4, RunsOn DEF ExpiredRuns

LEMMA TrailInvStep ==
    ASSUME RInv, [Next]_vars, Telltale
    PROVE  TrailInv'
<1>1. /\ trail' \in [Job -> Told] /\ lost' = lost
      /\ \A j \in Job : TrailMoves(j)
  BY TrailsMove
<1>2. TrailReplays'
  BY <1>1 DEF TrailMoves, TrailReplays
<1>3. TrailNeverWrong'
  BY <1>1 DEF TrailMoves, TrailNeverWrong
<1>4. Behind'
  <2>. SUFFICES ASSUME NEW j \in Remembered', IsTerminal(jobs'[j].state)
                PROVE  IsTerminal(trail'[j].state)
    BY DEF Behind
  <2>1. j \in Job
    <3>1. TypeOK'
      BY IInvStep DEF RInv, IInv
    <3>. QED
      BY <3>1 DEF TypeOK, Remembered, ToExpire, AckBacklog
  <2>2. CASE IsTerminal(jobs[j].state)
    <3>1. jobs[j].state \notin LiveState
      BY <2>2 DEF IsTerminal, TerminalState, LiveState
    <3>2. j \in Remembered
      BY <3>1, Remembers DEF RInv, IInv
    <3>3. IsTerminal(trail[j].state)
      BY <2>2, <3>2 DEF RInv, TrailInv, Behind
    <3>. QED
      BY <1>1, <2>1, <3>3 DEF TrailMoves
  <2>3. CASE ~IsTerminal(jobs[j].state)
    BY <1>1, <2>1, <2>3 DEF TrailMoves
  <2>. QED
    BY <2>2, <2>3
<1>. QED
  BY <1>1, <1>2, <1>3, <1>4 DEF TrailInv

-----------------------------------------------------------------------------
(* The in-memory repository *)

(* In a table whose keys are unique the index names the row of a key. *)
LEMMA IndexNames ==
    ASSUME NEW table, NEW k \in Key,
           \A i, j \in Job : table[i].key = k /\ table[j].key = k => i = j
    PROVE  /\ \A j \in Job : table[j].key = k => IndexOf(table)[k] = j
           /\ (\A j \in Job : table[j].key # k) => IndexOf(table)[k] = Nil
<1>1. IndexOf(table)[k] = IF \E j \in Job : table[j].key = k
                          THEN CHOOSE j \in Job : table[j].key = k ELSE Nil
  BY DEF IndexOf
<1>2. ASSUME NEW j \in Job, table[j].key = k PROVE IndexOf(table)[k] = j
  <2>1. IndexOf(table)[k] = CHOOSE i \in Job : table[i].key = k
    BY <1>1, <1>2
  <2>2. (CHOOSE i \in Job : table[i].key = k) = j
    BY <1>2
  <2>. QED
    BY <2>1, <2>2
<1>. QED
  BY <1>1, <1>2

LEMMA UniqueKeys ==
    ASSUME OneJobPerKey, NEW k \in Key
    PROVE  \A i, j \in Job : jobs[i].key = k /\ jobs[j].key = k => i = j
  BY StoreAssumption DEF OneJobPerKey

(* A table with the same keys has the same index. *)
LEMMA SameIndex ==
    ASSUME OneJobPerKey, OneJobPerKey', \A j \in Job : jobs'[j].key = jobs[j].key
    PROVE  IndexOf(jobs') = IndexOf(jobs)
<1>1. ASSUME NEW k \in Key PROVE IndexOf(jobs')[k] = IndexOf(jobs)[k]
  <2>1. /\ \A i, j \in Job : jobs[i].key = k /\ jobs[j].key = k => i = j
        /\ \A i, j \in Job : jobs'[i].key = k /\ jobs'[j].key = k => i = j
    BY UniqueKeys
  <2>2. CASE \E j \in Job : jobs[j].key = k
    <3>1. PICK j \in Job : jobs[j].key = k
      BY <2>2
    <3>2. IndexOf(jobs)[k] = j
      BY <2>1, <3>1, IndexNames
    <3>3. jobs'[j].key = k
      BY <3>1
    <3>4. IndexOf(jobs')[k] = j
      BY <2>1, <3>3, IndexNames
    <3>. QED
      BY <3>2, <3>4
  <2>3. CASE \A j \in Job : jobs[j].key # k
    <3>1. IndexOf(jobs)[k] = Nil
      BY <2>1, <2>3, IndexNames
    <3>2. \A j \in Job : jobs'[j].key # k
      BY <2>3
    <3>3. IndexOf(jobs')[k] = Nil
      BY <2>1, <3>2, IndexNames
    <3>. QED
      BY <3>1, <3>3
  <2>. QED
    BY <2>2, <2>3
<1>. QED
  BY <1>1 DEF IndexOf

(* The index knows a key exactly if a row has it. *)
LEMMA IndexKnows ==
    ASSUME OneJobPerKey, NEW k \in Key
    PROVE  IndexOf(jobs)[k] # Nil <=> KeyOwner(k) # {}
<1>1. \A i, j \in Job : jobs[i].key = k /\ jobs[j].key = k => i = j
  BY UniqueKeys
<1>2. k # Nil /\ Nil \notin Job
  BY StoreAssumption, ControlPlaneAssumption
<1>3. /\ \A j \in Job : jobs[j].key = k => IndexOf(jobs)[k] = j
      /\ (\A j \in Job : jobs[j].key # k) => IndexOf(jobs)[k] = Nil
  BY <1>1, IndexNames
<1>. QED
  BY <1>2, <1>3 DEF KeyOwner

(* A statement in memory, other than the AckWatcher's giving up: it leaves *)
(* a finished row alone, and a running one running or finished.            *)
LEMMA InMemoryMoves ==
    ASSUME NEW row \in JobRow, NEW event \in Event \ {"failed"}, NEW after,
           after = InMemory(row, event)
    PROVE  /\ after \in JobRow
           /\ after.error \in {row.error, Nil, "reported"}
           /\ IsTerminal(row.state) => after = row
           /\ row.state = "RUNNING" => after.state \in {"RUNNING"} \cup TerminalState
<1>1. CASE row.state = "ABSENT"
  <2>1. after = row
    BY <1>1 DEF InMemory
  <2>. QED
    BY <1>1, <2>1
<1>2. CASE row.state # "ABSENT"
  <2>1. after \in JobRow
    BY <1>2, Statements
  <2>2. ASSUME NEW expected \in JobState, NEW new \in JobState,
               after = MemoryTransitionIf(row, expected, new),
               IsTerminal(row.state) => expected # row.state,
               expected = "RUNNING" => new \in {"RUNNING"} \cup TerminalState
        PROVE  /\ after.error = row.error
               /\ IsTerminal(row.state) => after = row
               /\ row.state = "RUNNING" => after.state \in {"RUNNING"} \cup TerminalState
    <3>1. CASE row.state # expected
      BY <2>2, <3>1 DEF MemoryTransitionIf
    <3>2. CASE row.state = expected
      <4>1. \/ after = [row EXCEPT !.state = new, !.started = TRUE]
            \/ after = [row EXCEPT !.state = new, !.finished = TRUE]
            \/ after = [row EXCEPT !.state = new]
        <5>1. CASE new = "RUNNING"
          <6>1. ~IsTerminal(new)
            BY <5>1 DEF IsTerminal, TerminalState
          <6>. QED
            BY <2>2, <3>2, <5>1, <6>1, Zenon DEF MemoryTransitionIf
        <5>2. CASE IsTerminal(new)
          <6>1. new # "RUNNING"
            BY <5>2 DEF IsTerminal, TerminalState
          <6>. QED
            BY <2>2, <3>2, <5>2, <6>1, Zenon DEF MemoryTransitionIf
        <5>3. CASE new # "RUNNING" /\ ~IsTerminal(new)
          BY <2>2, <3>2, <5>3, Zenon DEF MemoryTransitionIf
        <5>. QED
          BY <5>1, <5>2, <5>3
      <4>2. after.error = row.error /\ after.state = new
        BY <4>1 DEF JobRow
      <4>. QED
        BY <2>2, <3>2, <4>2
    <3>. QED
      BY <3>1, <3>2
  <2>3. ASSUME NEW new \in TerminalState, NEW exit, NEW error \in {Nil, "reported"},
               after = MemoryCompleteIfRunning(row, new, exit, error)
        PROVE  /\ after.error \in {row.error, Nil, "reported"}
               /\ IsTerminal(row.state) => after = row
               /\ row.state = "RUNNING" => after.state \in {"RUNNING"} \cup TerminalState
    <3>1. CASE row.state # "RUNNING"
      BY <2>3, <3>1 DEF MemoryCompleteIfRunning
    <3>2. CASE row.state = "RUNNING"
      <4>1. after = [row EXCEPT !.exit = exit, !.error = error, !.state = new,
                                !.finished = TRUE]
        BY <2>3, <3>2, Zenon DEF MemoryCompleteIfRunning
      <4>2. after.error = error /\ after.state = new
        BY <4>1 DEF JobRow
      <4>3. ~IsTerminal(row.state)
        BY <3>2 DEF IsTerminal, TerminalState
      <4>. QED
        BY <4>2, <4>3
    <3>. QED
      BY <3>1, <3>2
  <2>4. CASE event = "dispatched"
    <3>1. \/ after = row
          \/ /\ row.state = "PENDING"
             /\ after = [row EXCEPT !.state = "DISPATCHED", !.attempts = @ + 1]
      BY <1>2, <2>4 DEF InMemory
    <3>. QED
      BY <2>1, <3>1 DEF JobRow, IsTerminal, TerminalState
  <2>5. CASE event \in {"started", "timed_out", "requeued", "cancelled"}
    <3>1. /\ event = "started" => after = MemoryTransitionIf(row, "DISPATCHED", "RUNNING")
          /\ event = "timed_out" => after = MemoryTransitionIf(row, "RUNNING", "TIMED_OUT")
          /\ event = "requeued" => after = MemoryTransitionIf(row, "DISPATCHED", "PENDING")
          /\ event = "cancelled" =>
                \/ IsTerminal(row.state) /\ after = row
                \/ /\ ~IsTerminal(row.state)
                   /\ after = MemoryTransitionIf(row, row.state, "CANCELLED")
      BY <1>2, <2>5 DEF InMemory
    <3>2. /\ ~IsTerminal("DISPATCHED") /\ ~IsTerminal("RUNNING")
          /\ {"CANCELLED", "TIMED_OUT"} \subseteq TerminalState
          /\ {"DISPATCHED", "RUNNING", "TIMED_OUT", "PENDING", "CANCELLED"}
                \subseteq JobState
          /\ row.state \in JobState
      BY DEF IsTerminal, TerminalState, JobState, LiveState, JobRow
    <3>3. CASE event = "cancelled" /\ IsTerminal(row.state)
      <4>1. after = row /\ row.state # "RUNNING"
        BY <3>1, <3>2, <3>3
      <4>. QED
        BY <2>1, <4>1
    <3>. QED
      BY <2>1, <2>2, <2>5, <3>1, <3>2, <3>3
  <2>6. CASE event \in Report
    <3>1. \/ after = MemoryCompleteIfRunning(row, "SUCCEEDED", 0, Nil)
          \/ after = MemoryCompleteIfRunning(row, "FAILED", 1, Nil)
          \/ after = MemoryCompleteIfRunning(row, "FAILED", 1, "reported")
      BY <1>2, <2>6, ControlPlaneAssumption DEF InMemory
    <3>2. {"SUCCEEDED", "FAILED"} \subseteq TerminalState
      BY DEF TerminalState
    <3>. QED
      BY <2>1, <2>3, <3>1, <3>2
  <2>. QED
    BY <2>4, <2>5, <2>6 DEF Event, CarriesState
<1>. QED
  BY <1>1, <1>2

(* A job in memory that the watcher does not pass over is not given up     *)
(* after it was started.                                                   *)
LEMMA NotGivenUp ==
    ASSUME NEW row \in JobRow, NEW event \in Event, NEW after,
           after = InMemory(row, event), OutcomeFits(row),
           event = "failed" => row.state = "DISPATCHED",
           ~(row.error = "no_ack" /\ row.started)
    PROVE  ~(after.error = "no_ack" /\ after.started)
<1>1. CASE event = "failed"
  <2>1. row.state = "DISPATCHED" /\ ~IsTerminal(row.state)
    BY <1>1 DEF IsTerminal, TerminalState
  <2>2. ~row.started
    BY <2>1 DEF OutcomeFits
  <2>3. after = FailStaleDispatch(row)
    BY <1>1, <2>1, SameStatements
  <2>4. after = [row EXCEPT !.state = "FAILED", !.exit = 1, !.error = "no_ack",
                            !.finished = TRUE]
    BY <2>1, <2>3 DEF FailStaleDispatch
  <2>5. after.started = row.started
    BY <2>4 DEF JobRow
  <2>. QED
    BY <2>2, <2>5
<1>2. CASE event # "failed"
  <2>1. /\ after.error \in {row.error, Nil, "reported"}
        /\ IsTerminal(row.state) => after = row
    BY <1>2, InMemoryMoves
  <2>2. row.error = "no_ack" => IsTerminal(row.state)
    BY NilIsNoError DEF OutcomeFits, IsTerminal, TerminalState
  <2>. QED
    BY <2>1, <2>2, NilIsNoError
<1>. QED
  BY <1>1, <1>2

(* What the exception of MemoryAgrees allows for a row. *)
RunsInMemory(row) ==
    row.state \in {"RUNNING"} \cup TerminalState /\ row.error # "no_ack"

RowAgrees(j) ==
    IF GivenUpStarted(j) THEN RunsInMemory(mem[j]) ELSE mem[j] = jobs[j]

(* The row a statement is made on. *)
LEMMA RowTelling ==
    ASSUME RInv, restarts = 0, NEW j \in Job, NEW event \in Event, Telling(j, event)
    PROVE  /\ mem' \in [Job -> JobRow] /\ index' = index
           /\ \A i \in Job \ {j} : mem'[i] = mem[i]
           /\ RowAgrees(j)'
<1>1. /\ jobs[j] \in JobRow /\ mem \in [Job -> JobRow] /\ mem[j] \in JobRow
      /\ RowAgrees(j) /\ OutcomeFits(jobs[j])
      /\ jobs[j].error = "no_ack" => jobs[j].state = "FAILED"
  BY OutcomeByRow
  DEF RInv, IInv, TypeOK, RetryBudget, MemoryInv, MemoryAgrees, RowAgrees, RunsInMemory
<1>2. jobs'[j] = InMemory(jobs[j], event)
  BY DEF Telling, RInv, IInv, TypeOK
<1>3. event \in {"requeued", "failed"} =>
         /\ jobs[j].state \in {"DISPATCHED", "RUNNING"} \cup TerminalState
         /\ jobs[j].state # "ABSENT"
  BY DEF Telling, RInv, IInv, SnapshotCurrent, KnownRows
<1>4. /\ "RUNNING" \notin TerminalState /\ "DISPATCHED" \notin TerminalState
      /\ "FAILED" \in TerminalState /\ "ABSENT" \notin TerminalState
  BY DEF TerminalState
<1>5. CASE event \in {"requeued", "failed"} /\ mem[j].state # "DISPATCHED"
  <2>1. UNCHANGED <<mem, index>>
    BY <1>5 DEF Telling, InMemoryToo
  <2>2. CASE IsTerminal(jobs[j].state)
    <3>1. jobs'[j] = jobs[j]
      <4>1. CASE event = "failed"
        BY <1>1, <1>2, <1>3, <2>2, <4>1, SameStatements DEF FailStaleDispatch
      <4>2. CASE event = "requeued"
        BY <1>1, <1>2, <2>2, <4>2, InMemoryMoves
      <4>. QED
        BY <1>5, <4>1, <4>2
    <3>2. RowAgrees(j)'
      BY <1>1, <2>1, <3>1 DEF RowAgrees, GivenUpStarted, RunsInMemory
    <3>. QED
      BY <1>1, <2>1, <3>2
  <2>3. CASE ~IsTerminal(jobs[j].state)
    <3>1. ~GivenUpStarted(j) /\ mem[j] = jobs[j] /\ jobs[j].state = "RUNNING"
      BY <1>1, <1>3, <1>4, <1>5, <2>3 DEF GivenUpStarted, RowAgrees, IsTerminal
    <3>2. jobs[j].started /\ jobs[j].error # "no_ack"
      BY <1>1, <3>1 DEF OutcomeFits
    <3>3. CASE event = "requeued"
      <4>1. jobs'[j] = jobs[j]
        BY <1>1, <1>2, <3>1, <3>3, SameStatements DEF Requeue, TransitionIf
      <4>2. RowAgrees(j)'
        BY <1>1, <2>1, <4>1 DEF RowAgrees, GivenUpStarted, RunsInMemory
      <4>. QED
        BY <1>1, <2>1, <4>2
    <3>4. CASE event = "failed"
      <4>1. jobs'[j] = FailStaleDispatch(jobs[j])
        BY <1>1, <1>2, <1>3, <3>4, SameStatements
      <4>2. jobs'[j] = [jobs[j] EXCEPT !.state = "FAILED", !.exit = 1,
                                       !.error = "no_ack", !.finished = TRUE]
        BY <2>3, <4>1, Zenon DEF FailStaleDispatch
      <4>3. jobs'[j].error = "no_ack" /\ jobs'[j].started
        BY <1>1, <3>2, <4>2 DEF JobRow
      <4>4. RowAgrees(j)'
        BY <2>1, <3>1, <3>2, <4>3 DEF RowAgrees, GivenUpStarted, RunsInMemory
      <4>. QED
        BY <1>1, <2>1, <4>4
    <3>. QED
      BY <1>5, <3>3, <3>4
  <2>. QED
    BY <2>2, <2>3
<1>6. CASE ~(event \in {"requeued", "failed"} /\ mem[j].state # "DISPATCHED")
  <2>1. mem' = [mem EXCEPT ![j] = InMemory(mem[j], event)] /\ index' = index
    BY <1>6 DEF Telling, InMemoryToo, Memory
  <2>2. mem'[j] = InMemory(mem[j], event) /\ \A i \in Job \ {j} : mem'[i] = mem[i]
    BY <1>1, <2>1
  <2>3. CASE GivenUpStarted(j)
    <3>1. RunsInMemory(mem[j]) /\ event # "failed"
      BY <1>1, <1>4, <1>6, <2>3 DEF RowAgrees, RunsInMemory
    <3>2. mem'[j] \in JobRow /\ RunsInMemory(mem'[j])
      <4>1. /\ mem'[j] \in JobRow
            /\ mem'[j].error \in {mem[j].error, Nil, "reported"}
            /\ IsTerminal(mem[j].state) => mem'[j] = mem[j]
            /\ mem[j].state = "RUNNING" =>
                  mem'[j].state \in {"RUNNING"} \cup TerminalState
        BY <1>1, <2>2, <3>1, InMemoryMoves
      <4>. QED
        BY <3>1, <4>1, NilIsNoError DEF RunsInMemory, IsTerminal
    <3>3. jobs'[j] = jobs[j]
      <4>1. IsTerminal(jobs[j].state)
        BY <1>1, <1>4, <2>3 DEF GivenUpStarted, IsTerminal
      <4>. QED
        BY <1>1, <1>2, <3>1, <4>1, InMemoryMoves
    <3>4. RowAgrees(j)'
      BY <2>3, <3>2, <3>3 DEF RowAgrees, GivenUpStarted
    <3>. QED
      BY <1>1, <2>1, <2>2, <3>2, <3>4
  <2>4. CASE ~GivenUpStarted(j)
    <3>1. mem[j] = jobs[j] /\ mem'[j] = jobs'[j]
      BY <1>1, <1>2, <2>2, <2>4 DEF RowAgrees
    <3>2. event = "failed" => jobs[j].state = "DISPATCHED"
      BY <1>6, <3>1
    <3>3. ~(jobs'[j].error = "no_ack" /\ jobs'[j].started)
      BY <1>1, <1>2, <2>4, <3>2, NotGivenUp DEF GivenUpStarted
    <3>4. event \in {"cancelled", "failed"} => jobs[j].state # "ABSENT"
      BY DEF Telling, RInv, IInv, KnownRows, LiveState
    <3>5. jobs'[j] \in JobRow
      BY <1>1, <1>2, <3>4, Statements
    <3>6. RowAgrees(j)'
      BY <3>1, <3>3 DEF RowAgrees, GivenUpStarted
    <3>. QED
      BY <1>1, <2>1, <2>2, <3>1, <3>5, <3>6
  <2>. QED
    BY <2>3, <2>4
<1>. QED
  BY <1>5, <1>6

(* A process that lives on had not restarted before. *)
LEMMA Lives ==
    ASSUME TypeOK, [Next]_vars, restarts' = 0
    PROVE  restarts = 0
<1>1. restarts \in Nat
  BY CountedRestarts
<1>2. restarts' = restarts \/ restarts' = restarts + 1
  BY DEF Next, Other, ConnStep, ApiStep, WatcherScan, DispatchResume, DispatchReturn,
         Register, Started, Result, Lose, HandlerEnd, Submit, CancelRequest, CancelReturn,
         AckScan, TimeoutScan, TimeoutReturn, HeartbeatScan, AckNext, TimeoutNext,
         Restart, Reboot, vars
<1>. QED
  BY <1>1, <1>2

LEMMA MemoryStep ==
    ASSUME RInv, OneJobPerKey', Telltale, restarts' = 0 => restarts = 0
    PROVE  MemoryInv'
<1>. SUFFICES ASSUME restarts' = 0
              PROVE  /\ mem' \in [Job -> JobRow] /\ index' = IndexOf(jobs')
                     /\ \A i \in Job : RowAgrees(i)'
  BY DEF MemoryInv, MemoryAgrees, RowAgrees, RunsInMemory, GivenUpStarted
<1>1. jobs \in [Job -> JobRow] /\ clock \in Nat /\ restarts \in Nat
  <2>1. restarts \in Nat
    BY CountedRestarts DEF RInv, IInv
  <2>. QED
    BY <2>1 DEF RInv, IInv, TypeOK
<1>2. /\ OneJobPerKey /\ mem \in [Job -> JobRow] /\ index = IndexOf(jobs)
      /\ \A i \in Job : RowAgrees(i)
  BY DEF RInv, MemoryInv, MemoryAgrees, RowAgrees, RunsInMemory
<1>3. CASE UNCHANGED <<jobs, mem, index>>
  BY <1>2, <1>3 DEF RowAgrees, GivenUpStarted, RunsInMemory
<1>4. CASE Restart
  BY <1>1, <1>4 DEF Restart, Reboot
<1>5. ASSUME NEW j \in Job, NEW event \in Event, Telling(j, event)
      PROVE  /\ mem' \in [Job -> JobRow] /\ index' = IndexOf(jobs')
             /\ \A i \in Job : RowAgrees(i)'
  <2>1. /\ mem' \in [Job -> JobRow] /\ index' = index
        /\ \A i \in Job \ {j} : mem'[i] = mem[i]
        /\ RowAgrees(j)'
    BY <1>5, RowTelling
  <2>2. jobs'[j] = InMemory(jobs[j], event) /\ \A i \in Job \ {j} : jobs'[i] = jobs[i]
    BY <1>1, <1>5 DEF Telling
  <2>3. jobs'[j].key = jobs[j].key
    <3>1. event \in {"cancelled", "failed"} => jobs[j].state # "ABSENT"
      BY <1>5 DEF Telling, RInv, IInv, KnownRows, LiveState
    <3>. QED
      BY <1>1, <2>2, <3>1, StatementKey
  <2>4. IndexOf(jobs') = IndexOf(jobs)
    BY <1>2, <2>2, <2>3, SameIndex
  <2>5. \A i \in Job \ {j} : RowAgrees(i)'
    BY <1>2, <2>1, <2>2 DEF RowAgrees, GivenUpStarted, RunsInMemory
  <2>. QED
    BY <1>2, <2>1, <2>4, <2>5
<1>6. ASSUME NEW r \in Job, NEW a \in Agent, NEW p \in Priority,
             NEW k \in Key \cup {Nil}, NEW j \in Job, Repeating(j, r, a, p, k)
      PROVE  /\ mem' \in [Job -> JobRow] /\ index' = IndexOf(jobs')
             /\ \A i \in Job : RowAgrees(i)'
  <2>1. k \in Key /\ KeyOwner(k) # {} /\ jobs' = jobs
    BY <1>6 DEF Repeating, KeyOwner
  <2>2. index[k] # Nil /\ k # Nil
    BY <1>2, <2>1, IndexKnows, StoreAssumption
  <2>3. UNCHANGED <<mem, index>>
    BY <1>6, <2>2 DEF Repeating, MemoryAdd
  <2>. QED
    BY <1>3, <2>1, <2>3
<1>7. ASSUME NEW r \in Job, NEW a \in Agent, NEW p \in Priority,
             NEW k \in Key \cup {Nil}, Adding(r, a, p, k)
      PROVE  /\ mem' \in [Job -> JobRow] /\ index' = IndexOf(jobs')
             /\ \A i \in Job : RowAgrees(i)'
  <2>1. /\ jobs' = [jobs EXCEPT ![r] = NewRow(a, p, k, clock)]
        /\ KeyOwner(k) = {} /\ jobs[r].key = Nil
    BY <1>7 DEF Adding, RInv, Keyless
  <2>2. ~(k # Nil /\ index[k] # Nil)
    BY <1>2, <2>1, IndexKnows
  <2>3. /\ mem' = [mem EXCEPT ![r] = NewRow(a, p, k, clock)]
        /\ index' = [x \in Key |-> IF x = k THEN r ELSE index[x]]
    BY <1>2, <1>7, <2>1, <2>2 DEF Adding, MemoryAdd
  <2>4. jobs'[r].key = k /\ \A i \in Job \ {r} : jobs'[i] = jobs[i]
    BY <1>1, <2>1, NewRowFacts
  <2>5. ASSUME NEW x \in Key PROVE IndexOf(jobs')[x] = index'[x]
    <3>1. /\ \A i, j \in Job : jobs[i].key = x /\ jobs[j].key = x => i = j
          /\ \A i, j \in Job : jobs'[i].key = x /\ jobs'[j].key = x => i = j
      BY <1>2, StoreAssumption DEF OneJobPerKey
    <3>2. /\ \A j \in Job : jobs[j].key = x => IndexOf(jobs)[x] = j
          /\ (\A j \in Job : jobs[j].key # x) => IndexOf(jobs)[x] = Nil
      BY <3>1, IndexNames
    <3>3. /\ \A j \in Job : jobs'[j].key = x => IndexOf(jobs')[x] = j
          /\ (\A j \in Job : jobs'[j].key # x) => IndexOf(jobs')[x] = Nil
      BY <3>1, IndexNames
    <3>4. x # Nil
      BY StoreAssumption
    <3>. QED
      BY <1>2, <2>1, <2>3, <2>4, <3>2, <3>3, <3>4
  <2>6. index' = IndexOf(jobs')
    BY <2>3, <2>5 DEF IndexOf
  <2>7. NewRow(a, p, k, clock) \in JobRow /\ ~NewRow(a, p, k, clock).started
    BY <1>1, NewRowFacts, NewRowType
  <2>8. mem' \in [Job -> JobRow] /\ \A i \in Job \ {r} : mem'[i] = mem[i]
    BY <1>2, <2>3, <2>7
  <2>9. RowAgrees(r)'
    <3>1. mem'[r] = NewRow(a, p, k, clock) /\ jobs'[r] = NewRow(a, p, k, clock)
      BY <1>1, <1>2, <2>1, <2>3
    <3>. QED
      BY <2>7, <3>1 DEF RowAgrees, GivenUpStarted
  <2>10. \A i \in Job \ {r} : RowAgrees(i)'
    BY <1>2, <2>4, <2>8 DEF RowAgrees, GivenUpStarted, RunsInMemory
  <2>. QED
    BY <2>6, <2>8, <2>9, <2>10
<1>. QED
  BY <1>3, <1>4, <1>5, <1>6, <1>7 DEF Telltale, Quiet, records

-----------------------------------------------------------------------------
LEMMA RInvInit == RecordsInit => RInv
<1>. SUFFICES ASSUME RecordsInit PROVE RInv
  OBVIOUS
<1>1. Init /\ IInv /\ OutcomeConsistent /\ OneJobPerKey /\ ClockAhead
  BY InitDInv DEF RecordsInit, DInv
<1>2. \A j \in Job : jobs[j].state = "ABSENT" /\ jobs[j].attempts = 0 /\ jobs[j].key = Nil
  BY <1>1 DEF Init, NoRow
<1>3. Remembered = {} /\ ToExpire = {}
  BY <1>1, ControlPlaneAssumption DEF Init, Remembered, ToExpire, AckBacklog
<1>4. "ABSENT" \in JobState /\ ~IsTerminal("ABSENT")
  BY DEF JobState, IsTerminal, TerminalState
<1>5. \A j \in Job : trail[j] = [state |-> "ABSENT", attempts |-> 0]
  BY DEF RecordsInit
<1>6. TrailInv
  <2>1. trail \in [Job -> Told]
    BY <1>4 DEF RecordsInit, Told
  <2>2. TrailReplays
    BY <1>2, <1>5 DEF TrailReplays
  <2>3. TrailNeverWrong
    BY <1>4, <1>5 DEF TrailNeverWrong
  <2>. QED
    BY <1>3, <2>1, <2>2, <2>3 DEF TrailInv, Behind
<1>7. MemoryInv
  <2>1. mem = jobs /\ mem \in [Job -> JobRow] /\ \A j \in Job : ~jobs[j].started
    <3>1. mem = jobs /\ \A j \in Job : jobs[j] = NoRow
      BY DEF RecordsInit, Init
    <3>2. NoRow \in JobRow /\ ~NoRow.started
      BY NoRowType DEF NoRow
    <3>3. mem = [j \in Job |-> NoRow]
      BY DEF RecordsInit
    <3>. QED
      BY <3>1, <3>2, <3>3
  <2>2. ASSUME NEW k \in Key PROVE IndexOf(jobs)[k] = Nil
    <3>1. \A j \in Job : jobs[j].key # k
      BY <1>2, StoreAssumption
    <3>. QED
      BY <3>1, IndexNames
  <2>3. index = IndexOf(jobs)
    BY <2>2 DEF RecordsInit, IndexOf
  <2>. QED
    BY <2>1, <2>3 DEF MemoryInv, MemoryAgrees, GivenUpStarted
<1>. QED
  BY <1>1, <1>2, <1>3, <1>6, <1>7 DEF RInv, Keyless, ExpiredRuns

(* A row that is served keeps its key, and a new row is one.               *)
LEMMA KeylessStep ==
    ASSUME TypeOK, Keyless, Served \/ Inserted
    PROVE  Keyless'
<1>1. CASE Served
  BY <1>1 DEF Served, Uncharged, Charged, Kept, Keyless
<1>2. CASE Inserted
  <2>1. PICK r \in Job, a \in Agent, p \in Priority, k \in Key \cup {Nil} :
           jobs' = [jobs EXCEPT ![r] = NewRow(a, p, k, clock)]
    BY <1>2 DEF Inserted
  <2>2. /\ jobs'[r] = NewRow(a, p, k, clock) /\ clock \in Nat
        /\ \A i \in Job \ {r} : jobs'[i] = jobs[i]
    BY <2>1 DEF TypeOK
  <2>3. jobs'[r].state = "PENDING"
    BY <2>2, NewRowType
  <2>. QED
    BY <2>2, <2>3 DEF Keyless
<1>. QED
  BY <1>1, <1>2

LEMMA DeathStep ==
    ASSUME RInv, NEW j \in Job, DiesBeforeEvent(j)
    PROVE  RInv'
<1>1. /\ IInv' /\ (Served \/ Inserted)
      /\ Remembered' = {} /\ restarts' # 0 /\ trail' = trail
      /\ lost' = lost \cup {j} /\ ~IsTerminal(jobs[j].state)
      /\ \A i \in Job \ {j} : jobs'[i] = jobs[i]
  BY Death DEF RInv
<1>2. OutcomeConsistent' /\ OneJobPerKey' /\ ClockAhead' /\ Keyless'
  BY <1>1, TableInvStep, KeylessStep DEF RInv, IInv
<1>3. ExpiredRuns' /\ Behind'
  BY <1>1 DEF ExpiredRuns, Behind, Remembered
<1>4. TrailReplays' /\ TrailNeverWrong'
  BY <1>1 DEF RInv, TrailInv, TrailReplays, TrailNeverWrong
<1>5. trail' \in [Job -> Told]
  BY <1>1 DEF RInv, TrailInv
<1>6. MemoryInv'
  BY <1>1 DEF MemoryInv, MemoryAgrees
<1>. QED
  BY <1>1, <1>2, <1>3, <1>4, <1>5, <1>6 DEF RInv, TrailInv

LEMMA RInvStep == RInv /\ [RecordsNext]_<<vars, records>> => RInv'
<1>. SUFFICES ASSUME RInv, [RecordsNext]_<<vars, records>> PROVE RInv'
  OBVIOUS
<1>1. TypeOK /\ KnownRows /\ SnapshotCurrent /\ MemoryAgrees /\ IInv
  BY DEF RInv, IInv, MemoryInv
<1>2. CASE [Next]_vars /\ Telltale
  <2>1. IInv'
    BY <1>1, <1>2, IInvStep
  <2>2. OutcomeConsistent' /\ OneJobPerKey' /\ ClockAhead' /\ Keyless'
    BY <1>1, <1>2, TableMoves, TableInvStep, KeylessStep DEF RInv
  <2>3. ExpiredRuns' /\ TrailInv'
    BY <1>2, ExpiredRunsStep, TrailInvStep
  <2>4. MemoryInv'
    BY <1>1, <1>2, <2>2, Lives, MemoryStep
  <2>. QED
    BY <2>1, <2>2, <2>3, <2>4 DEF RInv
<1>. QED
  BY <1>1, <1>2, RecordSteps, DeathStep

(* In every behaviour, deaths between a statement and its event included,  *)
(* the inductive invariant of the table and its records holds.             *)
THEOREM RecordsInvariance == RecordsSpec => []RInv
  BY RInvInit, RInvStep, PTL DEF RecordsSpec

(* The events of a job replay to its row, though callers append events for *)
(* statements that did nothing and decide on rows they read before an      *)
(* await, unless a crash swallowed one of them.                            *)
THEOREM TrailsReplay == RecordsSpec => []TrailReplays
<1>1. RInv => TrailReplays
  BY DEF RInv, TrailInv
<1>. QED
  BY <1>1, RecordsInvariance, PTL

(* Even a trail with a hole tells no outcome that the job has not.         *)
THEOREM TrailsTellNoLie == RecordsSpec => []TrailNeverWrong
<1>1. RInv => TrailNeverWrong
  BY DEF RInv, TrailInv
<1>. QED
  BY <1>1, RecordsInvariance, PTL

(* Until the process dies the in-memory repository and SQLite's hold the   *)
(* same table and the same idempotency keys after every sequence of calls  *)
(* the server can make, but for the jobs that were started and then given  *)
(* up over SQLite: in memory those run on or end otherwise.                *)
THEOREM TablesAgree == RecordsSpec => []MemoryAgrees
<1>1. RInv => MemoryAgrees
  BY DEF RInv, MemoryInv
<1>. QED
  BY <1>1, RecordsInvariance, PTL

(* A finished job is final also across deaths in the middle of a handler.  *)
THEOREM FinalAcrossDeaths == RecordsSpec => TerminalFinal
<1>1. RInv /\ [RecordsNext]_<<vars, records>>
        => [\A j \in Job : IsTerminal(jobs[j].state) => jobs'[j] = jobs[j]]_vars
  <2>. SUFFICES ASSUME RInv, [RecordsNext]_<<vars, records>>,
                       NEW j \in Job, IsTerminal(jobs[j].state)
                PROVE  jobs'[j] = jobs[j]
    OBVIOUS
  <2>1. TypeOK /\ KnownRows /\ SnapshotCurrent /\ MemoryAgrees /\ IInv
    BY DEF RInv, IInv, MemoryInv
  <2>2. CASE [Next]_vars
    BY <2>1, <2>2, TableSteps, FinalStep
  <2>3. ASSUME NEW i \in Job, DiesBeforeEvent(i) PROVE jobs'[j] = jobs[j]
    BY <2>1, <2>3, Death
  <2>. QED
    BY <2>1, <2>2, <2>3, RecordSteps
<1>. QED
  BY <1>1, RecordsInvariance, PTL DEF RecordsSpec, TerminalFinal
=============================================================================
