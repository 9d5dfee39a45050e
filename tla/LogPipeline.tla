---------------------------- MODULE LogPipeline ----------------------------
(***************************************************************************)
(* The live log of one job: LogBroker, the gateway's handler of a log      *)
(* message, and the SSE streams that follow the log.  Jobs do not share    *)
(* any of this state.                                                      *)
(*                                                                         *)
(* A stream is a generator on the server's single thread.  It suspends     *)
(* where it yields (the client may be slow) and where it waits for its     *)
(* queue; chunks arrive, the job ends and clients leave meanwhile.         *)
(***************************************************************************)
EXTENDS Naturals, Sequences

CONSTANTS
    Viewer,        \* requests for the live log, each made once
    Stream,        \* the output streams of a container
    HistoryCap,    \* history_cap of the broker
    QueueCap,      \* queue_cap of the broker
    MaxChunks,     \* bound: log messages that arrive
    MaxRestarts    \* bound: how often the server process may restart

ASSUME LogAssumption ==
    /\ HistoryCap \in Nat \ {0}
    /\ QueueCap \in Nat \ {0}
    /\ MaxChunks \in Nat
    /\ MaxRestarts \in Nat

VARIABLES
    published,   \* history: the stream of every chunk since the server started
    sequences,   \* LogBroker._sequences of the job
    history,     \* LogBroker._history of the job
    stored,      \* how many rows job_logs has (survives a restart)
    finished,    \* 0, or 1 + the chunks published before the job was terminal
    view,        \* per viewer: where its generator is and what it holds
    restarts     \* restarts so far

broker == <<published, sequences, history, stored>>
vars   == <<broker, finished, view, restarts>>

(* n is the place of the chunk among all published ones. *)
Chunk == [n : Nat, stream : Stream, sequence : Nat]

(*  pc: "away" has not come yet, "replay" and "live" are suspended at a    *)
(*  yield, "wait" awaits the queue, "tail" is suspended at a yield of the  *)
(*  final loop, "ended" got the end event, "gone" was cut off.             *)
Place == {"away", "replay", "live", "wait", "tail", "ended", "gone"}

Following == {"replay", "live", "wait", "tail"}

NewView ==
    [ pc |-> "away", backlog |-> <<>>, queue |-> <<>>, got |-> <<>>,
      first |-> 0, overflowed |-> FALSE, live |-> FALSE ]

Init ==
    /\ published = <<>>
    /\ sequences = [s \in Stream |-> 0]
    /\ history = <<>>
    /\ stored = 0
    /\ finished = 0
    /\ view = [v \in Viewer |-> NewView]
    /\ restarts = 0

(* A deque with maxlen: the newest entries. *)
Newest(entries, cap) ==
    IF Len(entries) <= cap THEN entries
    ELSE SubSeq(entries, Len(entries) - cap + 1, Len(entries))

(* Mutant: a full queue refuses the new chunk instead. *)
DropNewest(entries, cap) ==
    IF Len(entries) <= cap THEN entries ELSE SubSeq(entries, 1, cap)

(* The queue of a subscriber: when full, the oldest entry makes room. *)
DropOldest(entries, cap) == Newest(entries, cap)

-----------------------------------------------------------------------------
(* Mutant: one counter for all streams of the job. *)
NumberedPerJob(s) ==
    [x \in Stream |-> sequences[x] + 1]

(* The broker numbers the chunks of each stream by itself. *)
Numbered(s) == [sequences EXCEPT ![s] = @ + 1]

(* _on_log: publish to the history and to every subscriber, then store. *)
OnLog(s) ==
    LET entry == [n |-> Len(published) + 1, stream |-> s,
                  sequence |-> Numbered(s)[s]]
        Offered(w) ==
            IF w.pc \notin Following THEN w
            ELSE [w EXCEPT !.queue = DropOldest(Append(@, entry), QueueCap),
                           !.overflowed = @ \/ Len(w.queue) = QueueCap]
    IN  /\ stored < MaxChunks
        /\ published' = Append(published, s)
        /\ sequences' = Numbered(s)
        /\ history' = Newest(Append(history, entry), HistoryCap)
        /\ view' = [v \in Viewer |-> Offered(view[v])]
        /\ stored' = stored + 1
        /\ UNCHANGED <<finished, restarts>>

(* The job reaches a terminal state; log messages may still follow. *)
Finish ==
    /\ finished = 0
    /\ finished' = 1 + Len(published)
    /\ UNCHANGED <<broker, view, restarts>>

-----------------------------------------------------------------------------
(* _log_stream, from one suspension to the next: w is the generator's      *)
(* state, the value the state it leaves behind.                            *)

(* Mutant: the queue is not unsubscribed. *)
EndsSubscribed(w) == [w EXCEPT !.pc = "ended"]

(* The end event, after which the finally unsubscribes the queue. *)
Ends(w) == [w EXCEPT !.pc = "ended", !.queue = <<>>]

Yields(w, pc) ==
    [w EXCEPT !.pc = pc, !.got = Append(@, Head(w.queue)), !.queue = Tail(@)]

(* The top of the endless loop: wait_for returns at once if it can. *)
Loop(w) ==
    IF w.queue = <<>> THEN [w EXCEPT !.pc = "wait", !.live = TRUE]
    ELSE [Yields(w, "live") EXCEPT !.live = TRUE]

(* The next chunk of the history, or the check that follows them. *)
Replay(w) ==
    IF w.backlog # <<>>
    THEN [w EXCEPT !.pc = "replay", !.got = Append(@, Head(w.backlog)),
                   !.backlog = Tail(@)]
    ELSE IF finished # 0 THEN Ends(w) ELSE Loop(w)

(* The final loop. *)
Drain(w) == IF w.queue = <<>> THEN Ends(w) ELSE Yields(w, "tail")

(* subscribe, and the first chunk: the queue is registered and the history *)
(* copied in one go.                                                       *)
Subscribe(v) ==
    /\ view[v].pc = "away"
    /\ view' = [view EXCEPT ![v] =
          Replay([@ EXCEPT !.backlog = history,
                           !.first = Len(published) - Len(history) + 1])]
    /\ UNCHANGED <<broker, finished, restarts>>

(* The client took the chunk that was yielded. *)
Resume(v) ==
    /\ view[v].pc \in {"replay", "live", "tail"}
    /\ view' = [view EXCEPT ![v] =
          CASE @.pc = "replay" -> Replay(@)
            [] @.pc = "live"   -> Loop(@)
            [] @.pc = "tail"   -> Drain(@)]
    /\ UNCHANGED <<broker, finished, restarts>>

(* The queue hands over a chunk that arrived during the wait. *)
Arrive(v) ==
    /\ view[v].pc = "wait" /\ view[v].queue # <<>>
    /\ view' = [view EXCEPT ![v] = Yields(@, "live")]
    /\ UNCHANGED <<broker, finished, restarts>>

(* Mutant: the timeout ends the stream without the final loop. *)
PollNoDrain(v) ==
    /\ view[v].pc = "wait"
    /\ view' = [view EXCEPT ![v] = IF finished # 0 THEN Ends(@) ELSE Loop(@)]
    /\ UNCHANGED <<broker, finished, restarts>>

(* Mutant: the timeout only ever waits again. *)
PollOnly(v) ==
    /\ view[v].pc = "wait"
    /\ view' = [view EXCEPT ![v] = Loop(@)]
    /\ UNCHANGED <<broker, finished, restarts>>

(* The wait times out, possibly in the iteration of the event loop in      *)
(* which a chunk arrives.                                                  *)
Poll(v) ==
    /\ view[v].pc = "wait"
    /\ view' = [view EXCEPT ![v] = IF finished # 0 THEN Drain(@) ELSE Loop(@)]
    /\ UNCHANGED <<broker, finished, restarts>>

CutOff(w) == [w EXCEPT !.pc = "gone", !.backlog = <<>>, !.queue = <<>>]

(* The client goes away while the generator is suspended. *)
Disconnect(v) ==
    /\ view[v].pc \in Following
    /\ view' = [view EXCEPT ![v] = CutOff(@)]
    /\ UNCHANGED <<broker, finished, restarts>>

(* The server dies and starts again: the rows of job_logs are left.  A job *)
(* that was terminal stays so.                                             *)
Restart ==
    /\ restarts < MaxRestarts
    /\ restarts' = restarts + 1
    /\ published' = <<>>
    /\ sequences' = [s \in Stream |-> 0]
    /\ history' = <<>>
    /\ finished' = IF finished = 0 THEN 0 ELSE 1
    /\ view' = [v \in Viewer |-> IF view[v].pc \in Following THEN CutOff(view[v])
                                 ELSE view[v]]
    /\ UNCHANGED stored

-----------------------------------------------------------------------------
Next ==
    \/ \E s \in Stream : OnLog(s)
    \/ Finish
    \/ \E v \in Viewer :
          Subscribe(v) \/ Resume(v) \/ Arrive(v) \/ Poll(v) \/ Disconnect(v)
    \/ Restart

Spec == Init /\ [][Next]_vars

(* The event loop resumes a generator whose chunk arrived and fires its    *)
(* timers; clients that stay connected take what they are sent.            *)
Fairness ==
    \A v \in Viewer : WF_vars(Resume(v)) /\ WF_vars(Arrive(v)) /\ WF_vars(Poll(v))

FairSpec == Spec /\ Fairness

-----------------------------------------------------------------------------
(* Types and caps: neither the history nor a subscriber's queue outgrows   *)
(* its cap, and a generator that is not suspended holds no queue.          *)
TypeOK ==
    /\ published \in Seq(Stream)
    /\ sequences \in [Stream -> Nat]
    /\ history \in Seq(Chunk) /\ Len(history) <= HistoryCap
    /\ stored \in 0 .. MaxChunks
    /\ finished \in Nat
    /\ \A v \in Viewer :
          /\ view[v].pc \in Place
          /\ view[v].backlog \in Seq(Chunk) /\ view[v].got \in Seq(Chunk)
          /\ view[v].queue \in Seq(Chunk) /\ Len(view[v].queue) <= QueueCap
          /\ view[v].pc \notin Following => view[v].queue = <<>>
    /\ restarts \in 0 .. MaxRestarts

(* What a viewer was shown, is about to be replayed, and has queued. *)
Told(v) == view[v].got \o view[v].backlog \o view[v].queue

(* A viewer's chunks come in the order of publication, none twice, though  *)
(* replay and live delivery overlap; the newest one is never the one that  *)
(* is lost; and without an overflow of its queue there is no hole.         *)
InOrderToNewest ==
    \A v \in Viewer :
        LET told == Told(v)
        IN  view[v].pc \in Following =>
                /\ \A i \in 1 .. Len(told) - 1 : told[i].n < told[i + 1].n
                /\ told # <<>> => told[Len(told)].n = Len(published)
                /\ ~view[v].overflowed
                       => Len(told) = Len(published) + 1 - view[v].first

(* A viewer can tell from the sequence numbers of a stream that chunks of  *)
(* it are missing, and only then: two neighbours in what it was shown of a *)
(* stream differ by one exactly if nothing of the stream came in between.  *)
GapsVisible ==
    \A v \in Viewer :
        LET got == view[v].got
        IN  view[v].pc \in Following =>
              \A i \in 1 .. Len(got) : \A k \in i + 1 .. Len(got) :
                  /\ got[i].stream = got[k].stream
                  /\ \A m \in i + 1 .. k - 1 : got[m].stream # got[i].stream
                  => (got[k].sequence = got[i].sequence + 1
                        <=> \A n \in got[i].n + 1 .. got[k].n - 1 :
                               published[n] # got[i].stream)

(* Everything up to the end of the job was shown, from the start of the    *)
(* replay on.                                                              *)
Complete(w) ==
    finished > 1 => w.first .. finished - 1
                        \subseteq {w.got[i].n : i \in 1 .. Len(w.got)}

(* A stream that went live ends only after it has shown every chunk that   *)
(* was published before the job ended, whatever arrives while the timeout  *)
(* of the wait and the final loop run, unless its queue overflowed.        *)
LiveViewerComplete ==
    \A v \in Viewer :
        view[v].pc = "ended" /\ view[v].live /\ ~view[v].overflowed
            => Complete(view[v])

(* A stream does not outlive its job: once the job is terminal, and log    *)
(* messages cease, every viewer gets the end event or is cut off.          *)
StreamEnds ==
    \A v \in Viewer :
        finished # 0 /\ view[v].pc \in Following ~> view[v].pc \in {"ended", "gone"}

(* docs/EVIDENCE_PHASE2.md: "SSE endpoint replays history, then streams    *)
(* live, then sends event: end".  So what was published before the job     *)
(* ended is shown before the end event, unless the queue overflowed.       *)
EndMeansComplete ==
    \A v \in Viewer :
        view[v].pc = "ended" /\ ~view[v].overflowed => Complete(view[v])
=============================================================================
