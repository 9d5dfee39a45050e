------------------------------ MODULE LogProofs ------------------------------
(***************************************************************************)
(* Proofs about LogPipeline: types and caps, the order and completeness of *)
(* what a viewer is shown, and that holes show in the sequence numbers.    *)
(*                                                                         *)
(* A viewer's state matters through one sequence only, all it was shown,   *)
(* is about to be replayed and has queued.  A step of its generator moves  *)
(* a chunk from one part of it to the next and leaves the whole as it is;  *)
(* a log message appends to it, and drops one chunk if the queue is full.  *)
(***************************************************************************)
EXTENDS LogPipeline, FiniteSetTheorems, SequenceTheorems, TLAPS

-----------------------------------------------------------------------------
(* The inductive invariant. *)

(* How many of the first n published chunks are of stream s. *)
Occurrences(p, s, n) == {m \in 1 .. n : p[m] = s}

Count(p, s, n) == Cardinality(Occurrences(p, s, n))

(* c is what the broker made of a chunk it published. *)
Published(c, p) ==
    /\ c \in Chunk
    /\ c.n \in 1 .. Len(p)
    /\ c.stream = p[c.n]
    /\ c.sequence = Count(p, c.stream, c.n)

WellTold(t, p) ==
    /\ t \in Seq(Chunk)
    /\ \A i \in 1 .. Len(t) : Published(t[i], p)
    /\ \A i, k \in 1 .. Len(t) : i < k => t[i].n < t[k].n
    /\ t # <<>> => t[Len(t)].n = Len(p)

(* t is all that was published from the first-th chunk on. *)
Whole(t, first, p) ==
    /\ Len(t) = Len(p) + 1 - first
    /\ \A i \in 1 .. Len(t) : t[i].n = first + i - 1

ToldBy(w) == w.got \o w.backlog \o w.queue

View == [ pc : Place, backlog : Seq(Chunk), queue : Seq(Chunk), got : Seq(Chunk),
          first : Nat, overflowed : BOOLEAN, live : BOOLEAN ]

Heard(w, p) ==
    /\ w \in View
    /\ Len(w.queue) <= QueueCap
    /\ WellTold(ToldBy(w), p)
    /\ ~w.overflowed => Whole(ToldBy(w), w.first, p)

Follows(w, p, f) ==
    /\ Heard(w, p)
    /\ w.pc \in {"live", "wait", "tail"} => w.backlog = <<>>
    /\ w.pc = "replay" => ~w.live
    /\ w.pc = "tail" => f # 0

(* Complete, of a job that finished at f. *)
Shown(w, f) ==
    f > 1 => w.first .. f - 1 \subseteq {w.got[i].n : i \in 1 .. Len(w.got)}

ViewInv(w, p, f) ==
    /\ w \in View
    /\ w.pc = "away" => w = NewView
    /\ w.pc \notin Following => w.queue = <<>>
    /\ w.pc \in Following => Follows(w, p, f)
    /\ w.pc = "ended" => f # 0 /\ (w.live /\ ~w.overflowed => Shown(w, f))

BrokerInv ==
    /\ published \in Seq(Stream)
    /\ sequences = [s \in Stream |-> Count(published, s, Len(published))]
    /\ WellTold(history, published)
    /\ Len(history) <= HistoryCap
    /\ Len(history) <= Len(published)
    /\ Whole(history, Len(published) - Len(history) + 1, published)
    /\ stored \in 0 .. MaxChunks
    /\ restarts \in 0 .. MaxRestarts
    /\ finished \in 0 .. Len(published) + 1

LogInv ==
    /\ BrokerInv
    /\ \A v \in Viewer : ViewInv(view[v], published, finished)
    /\ view = [v \in Viewer |-> view[v]]

-----------------------------------------------------------------------------
(* Counting chunks. *)

LEMMA OccurrencesFinite ==
    ASSUME NEW p, NEW s, NEW n \in Nat
    PROVE  IsFiniteSet(Occurrences(p, s, n)) /\ Count(p, s, n) \in Nat
<1>1. IsFiniteSet(1 .. n)
  BY FS_Interval
<1>2. Occurrences(p, s, n) \subseteq 1 .. n
  BY DEF Occurrences
<1>. QED
  BY <1>1, <1>2, FS_Subset, FS_CardinalityType DEF Count

(* A chunk of the stream counts one more, any other leaves the count. *)
LEMMA CountNext ==
    ASSUME NEW p, NEW s, NEW n \in Nat
    PROVE  Count(p, s, n + 1) = IF p[n + 1] = s THEN Count(p, s, n) + 1
                                ELSE Count(p, s, n)
<1>1. CASE p[n + 1] = s
  <2>1. Occurrences(p, s, n + 1) = Occurrences(p, s, n) \cup {n + 1}
    BY <1>1 DEF Occurrences
  <2>2. n + 1 \notin Occurrences(p, s, n)
    BY DEF Occurrences
  <2>. QED
    BY <1>1, <2>1, <2>2, OccurrencesFinite, FS_AddElement DEF Count
<1>2. CASE p[n + 1] # s
  <2>1. Occurrences(p, s, n + 1) = Occurrences(p, s, n)
    BY <1>2 DEF Occurrences
  <2>. QED
    BY <1>2, <2>1 DEF Count
<1>. QED
  BY <1>1, <1>2

(* What follows does not change the count. *)
LEMMA CountOfAppend ==
    ASSUME NEW p \in Seq(Stream), NEW x \in Stream, NEW s, NEW n \in 0 .. Len(p)
    PROVE  Count(Append(p, x), s, n) = Count(p, s, n)
<1>1. \A m \in 1 .. n : Append(p, x)[m] = p[m]
  OBVIOUS
<1>2. Occurrences(Append(p, x), s, n) = Occurrences(p, s, n)
  BY <1>1 DEF Occurrences
<1>. QED
  BY <1>2 DEF Count

(* Two counts at chunks of the stream differ by one exactly if no other    *)
(* chunk of it lies between them.                                          *)
LEMMA CountGap ==
    ASSUME NEW p, NEW s, NEW a \in Nat, NEW b \in Nat, a < b, p[b] = s
    PROVE  Count(p, s, b) = Count(p, s, a) + 1 <=> \A n \in a + 1 .. b - 1 : p[n] # s
<1>. DEFINE between == {n \in a + 1 .. b - 1 : p[n] = s}
<1>1. b - 1 \in Nat /\ b = (b - 1) + 1
  OBVIOUS
<1>2. Count(p, s, b) = Count(p, s, b - 1) + 1
  BY <1>1, CountNext
<1>3. Occurrences(p, s, b - 1) = Occurrences(p, s, a) \cup between
  BY DEF Occurrences
<1>4. Occurrences(p, s, a) \cap between = {}
  BY DEF Occurrences
<1>5. IsFiniteSet(between)
  <2>1. IsFiniteSet(a + 1 .. b - 1)
    BY FS_Interval
  <2>2. between \subseteq a + 1 .. b - 1
    OBVIOUS
  <2>. QED
    BY <2>1, <2>2, FS_Subset
<1>6. Cardinality(between) \in Nat /\ (Cardinality(between) = 0 <=> between = {})
  BY <1>5, FS_CardinalityType, FS_EmptySet
<1>7. Cardinality(Occurrences(p, s, a) \cap between) = 0
  BY <1>4, FS_EmptySet
<1>8. Count(p, s, b - 1) = Count(p, s, a) + Cardinality(between)
  <2>1. IsFiniteSet(Occurrences(p, s, a)) /\ Count(p, s, a) \in Nat
    BY OccurrencesFinite
  <2>2. Cardinality(Occurrences(p, s, a) \cup between)
          = Cardinality(Occurrences(p, s, a)) + Cardinality(between)
              - Cardinality(Occurrences(p, s, a) \cap between)
    BY <1>5, <2>1, FS_Union
  <2>. QED
    BY <1>3, <1>6, <1>7, <2>1, <2>2 DEF Count
<1>9. Count(p, s, b) = Count(p, s, a) + 1 <=> between = {}
  BY <1>2, <1>6, <1>8, OccurrencesFinite
<1>. QED
  BY <1>9

-----------------------------------------------------------------------------
(* Sequences. *)

(* Moving the first element of q to the end of p. *)
LEMMA MoveHead ==
    ASSUME NEW p \in Seq(Chunk), NEW q \in Seq(Chunk), q # <<>>
    PROVE  /\ Append(p, Head(q)) \o Tail(q) = p \o q
           /\ Append(p, Head(q)) \in Seq(Chunk) /\ Tail(q) \in Seq(Chunk)
<1>1. Append(p, Head(q)) \in Seq(Chunk) /\ Tail(q) \in Seq(Chunk)
  OBVIOUS
<1>2. Len(Append(p, Head(q)) \o Tail(q)) = Len(p \o q)
  BY <1>1
<1>3. ASSUME NEW i \in 1 .. Len(p \o q)
      PROVE  (Append(p, Head(q)) \o Tail(q))[i] = (p \o q)[i]
  BY <1>1
<1>. QED
  BY <1>1, <1>2, <1>3, SeqEqual

LEMMA AppendLast ==
    ASSUME NEW p \in Seq(Chunk), NEW q \in Seq(Chunk), NEW e \in Chunk
    PROVE  p \o Append(q, e) = Append(p \o q, e)
<1>1. p \o Append(q, e) \in Seq(Chunk) /\ Append(p \o q, e) \in Seq(Chunk)
  OBVIOUS
<1>2. Len(p \o Append(q, e)) = Len(Append(p \o q, e))
  OBVIOUS
<1>3. ASSUME NEW i \in 1 .. Len(p \o Append(q, e))
      PROVE  (p \o Append(q, e))[i] = Append(p \o q, e)[i]
  OBVIOUS
<1>. QED
  BY <1>1, <1>2, <1>3, SeqEqual

(* A bounded sequence that takes one more. *)
LEMMA NewestOfAppend ==
    ASSUME NEW q \in Seq(Chunk), NEW e \in Chunk, NEW cap \in Nat \ {0}, Len(q) <= cap
    PROVE  /\ Len(q) < cap => Newest(Append(q, e), cap) = Append(q, e)
           /\ Len(q) = cap => /\ q # <<>>
                              /\ Newest(Append(q, e), cap) = Append(Tail(q), e)
<1>1. CASE Len(q) < cap
  <2>1. Len(Append(q, e)) <= cap
    BY <1>1
  <2>. QED
    BY <1>1, <2>1 DEF Newest
<1>2. CASE Len(q) = cap
  <2>1. q # <<>>
    BY <1>2
  <2>2. Newest(Append(q, e), cap) = SubSeq(Append(q, e), 2, cap + 1)
    BY <1>2 DEF Newest
  <2>3. /\ SubSeq(Append(q, e), 2, cap + 1) \in Seq(Chunk)
        /\ Append(Tail(q), e) \in Seq(Chunk)
    BY <1>2, <2>1
  <2>4. Len(SubSeq(Append(q, e), 2, cap + 1)) = Len(Append(Tail(q), e))
    BY <1>2, <2>1
  <2>5. ASSUME NEW i \in 1 .. Len(Append(Tail(q), e))
        PROVE  SubSeq(Append(q, e), 2, cap + 1)[i] = Append(Tail(q), e)[i]
    BY <1>2, <2>1
  <2>. QED
    BY <1>2, <2>1, <2>2, <2>3, <2>4, <2>5, SeqEqual
<1>. QED
  BY <1>1, <1>2

-----------------------------------------------------------------------------
(* What is told of the log. *)

LEMMA EntryIsPublished ==
    ASSUME NEW p \in Seq(Stream), NEW s \in Stream,
           NEW e, e = [n |-> Len(p) + 1, stream |-> s, sequence |-> Count(p, s, Len(p)) + 1]
    PROVE  Published(e, Append(p, s)) /\ e.n = Len(Append(p, s))
<1>1. Append(p, s)[Len(p) + 1] = s /\ Len(Append(p, s)) = Len(p) + 1
  OBVIOUS
<1>2. Count(Append(p, s), s, Len(p) + 1) = Count(Append(p, s), s, Len(p)) + 1
  <2>1. ASSUME NEW n \in Nat, NEW o, o[n + 1] = s
        PROVE  Count(o, s, n + 1) = Count(o, s, n) + 1
    BY <2>1, CountNext
  <2>2. Len(p) \in Nat
    OBVIOUS
  <2>. QED
    BY <1>1, <2>1, <2>2
<1>3. Count(Append(p, s), s, Len(p)) = Count(p, s, Len(p))
  BY CountOfAppend
<1>4. Count(p, s, Len(p)) \in Nat
  BY OccurrencesFinite
<1>. QED
  BY <1>1, <1>2, <1>3, <1>4 DEF Published, Chunk

LEMMA StaysPublished ==
    ASSUME NEW p \in Seq(Stream), NEW s \in Stream, NEW c, Published(c, p)
    PROVE  Published(c, Append(p, s)) /\ c.n < Len(Append(p, s))
<1>1. Len(Append(p, s)) = Len(p) + 1 /\ c.n \in 1 .. Len(p)
  BY DEF Published
<1>2. Append(p, s)[c.n] = p[c.n]
  BY <1>1
<1>3. Count(Append(p, s), c.stream, c.n) = Count(p, c.stream, c.n)
  BY <1>1, CountOfAppend
<1>. QED
  BY <1>1, <1>2, <1>3 DEF Published

(* A new chunk, told last. *)
LEMMA TellNext ==
    ASSUME NEW p \in Seq(Stream), NEW s \in Stream, NEW t, WellTold(t, p),
           NEW e, Published(e, Append(p, s)), e.n = Len(Append(p, s))
    PROVE  /\ WellTold(Append(t, e), Append(p, s))
           /\ \A first \in Nat : Whole(t, first, p) => Whole(Append(t, e), first, Append(p, s))
<1>. t \in Seq(Chunk) /\ e \in Chunk
  BY DEF WellTold, Published
<1>1. /\ Len(Append(t, e)) = Len(t) + 1 /\ Append(t, e)[Len(t) + 1] = e
      /\ \A i \in 1 .. Len(t) : Append(t, e)[i] = t[i]
  OBVIOUS
<1>2. \A i \in 1 .. Len(t) : Published(t[i], Append(p, s)) /\ t[i].n < e.n
  BY StaysPublished DEF WellTold
<1>3. WellTold(Append(t, e), Append(p, s))
  <2>1. \A i, k \in 1 .. Len(t) : i < k => t[i].n < t[k].n
    BY DEF WellTold
  <2>. QED
    BY <1>1, <1>2, <2>1 DEF WellTold
<1>4. ASSUME NEW first \in Nat, Whole(t, first, p)
      PROVE  Whole(Append(t, e), first, Append(p, s))
  <2>1. Len(Append(p, s)) = Len(p) + 1 /\ Len(p) \in Nat /\ Len(t) \in Nat
    OBVIOUS
  <2>2. Len(t) = Len(p) + 1 - first /\ \A i \in 1 .. Len(t) : t[i].n = first + i - 1
    BY <1>4 DEF Whole
  <2>3. e.n = first + (Len(t) + 1) - 1
    BY <2>1, <2>2
  <2>4. ASSUME NEW i \in 1 .. Len(t) + 1 PROVE Append(t, e)[i].n = first + i - 1
    BY <1>1, <2>1, <2>2, <2>3
  <2>. QED
    BY <1>1, <2>1, <2>2, <2>4 DEF Whole
<1>. QED
  BY <1>3, <1>4

(* Whatever is dropped, the last one stays. *)
LEMMA TellLess ==
    ASSUME NEW p \in Seq(Stream), NEW t \in Seq(Chunk), NEW q \in Seq(Chunk), q # <<>>,
           NEW e \in Chunk,
           WellTold(Append(t \o q, e), p)
    PROVE  WellTold(Append(t \o Tail(q), e), p)
<1>. DEFINE all == Append(t \o q, e)
            less == Append(t \o Tail(q), e)
            at(i) == IF i <= Len(t) THEN i ELSE i + 1
<1>1. /\ less \in Seq(Chunk) /\ Len(less) = Len(all) - 1 /\ Len(less) >= 1
      /\ Len(all) \in Nat
  OBVIOUS
<1>2. ASSUME NEW i \in 1 .. Len(less)
      PROVE  at(i) \in 1 .. Len(all) /\ less[i] = all[at(i)]
  <2>1. /\ t \o q \in Seq(Chunk) /\ Tail(q) \in Seq(Chunk)
        /\ t \o Tail(q) \in Seq(Chunk)
        /\ Len(t \o q) = Len(t) + Len(q) /\ Len(Tail(q)) = Len(q) - 1
        /\ Len(t \o Tail(q)) = Len(t) + Len(q) - 1
        /\ Len(t) \in Nat /\ Len(q) \in Nat
    OBVIOUS
  <2>2. CASE i <= Len(t)
    <3>1. (t \o Tail(q))[i] = t[i] /\ (t \o q)[i] = t[i]
      BY <2>1, <2>2
    <3>. QED
      BY <2>1, <2>2, <3>1
  <2>3. CASE i > Len(t) /\ i < Len(less)
    <3>1. i <= Len(t) + Len(q) - 1
      BY <1>1, <2>1, <2>3
    <3>2. /\ (t \o Tail(q))[i] = Tail(q)[i - Len(t)]
          /\ (t \o q)[i + 1] = q[i + 1 - Len(t)]
      BY <2>1, <2>3, <3>1
    <3>3. Tail(q)[i - Len(t)] = q[i - Len(t) + 1]
      BY <2>1, <2>3, <3>1
    <3>. QED
      BY <2>1, <2>3, <3>1, <3>2, <3>3
  <2>4. CASE i = Len(less)
    BY <2>1, <2>4
  <2>. QED
    BY <1>1, <2>2, <2>3, <2>4
<1>3. /\ \A i \in 1 .. Len(all) : Published(all[i], p)
      /\ \A i, k \in 1 .. Len(all) : i < k => all[i].n < all[k].n
      /\ all[Len(all)].n = Len(p)
  BY <1>1 DEF WellTold
<1>4. at(Len(less)) = Len(all)
  OBVIOUS
<1>. HIDE DEF all, less
<1>5. \A i \in 1 .. Len(less) : Published(less[i], p)
  BY <1>2, <1>3
<1>6. ASSUME NEW i \in 1 .. Len(less), NEW k \in 1 .. Len(less), i < k
      PROVE  less[i].n < less[k].n
  <2>1. at(i) < at(k)
    BY <1>1, <1>6
  <2>2. /\ at(i) \in 1 .. Len(all) /\ less[i] = all[at(i)]
        /\ at(k) \in 1 .. Len(all) /\ less[k] = all[at(k)]
    BY <1>2
  <2>. HIDE DEF at
  <2>. QED
    BY <1>3, <2>1, <2>2
<1>7. less[Len(less)].n = Len(p)
  <2>1. Len(less) \in 1 .. Len(less)
    BY <1>1
  <2>2. less[Len(less)] = all[at(Len(less))]
    BY <1>2, <2>1
  <2>. HIDE DEF at
  <2>. QED
    BY <1>3, <1>4, <2>2
<1>8. WellTold(less, p)
  BY <1>1, <1>5, <1>6, <1>7 DEF WellTold
<1>. QED
  BY <1>8 DEF less

-----------------------------------------------------------------------------
(* The generator.  p and f stand for published and finished. *)

LEMMA ToldShape ==
    ASSUME NEW w \in View
    PROVE  /\ ToldBy(w) \in Seq(Chunk)
           /\ Len(w.got) <= Len(ToldBy(w))
           /\ \A i \in 1 .. Len(w.got) : ToldBy(w)[i] = w.got[i]
  BY DEF View, ToldBy

(* What is told is all that matters. *)
LEMMA SameTold ==
    ASSUME NEW w, NEW p, Heard(w, p), NEW y \in View,
           y.first = w.first, y.overflowed = w.overflowed,
           ToldBy(y) = ToldBy(w), Len(y.queue) <= Len(w.queue)
    PROVE  Heard(y, p)
<1>1. QueueCap \in Nat /\ Len(w.queue) \in Nat /\ Len(y.queue) \in Nat
  BY LogAssumption DEF Heard, View
<1>. QED
  BY <1>1 DEF Heard

LEMMA Concats ==
    ASSUME NEW S, NEW g \in Seq(S), NEW q \in Seq(S)
    PROVE  g \o <<>> = g /\ g \o <<>> \o q = g \o q
  BY ConcatEmptySeq

(* A chunk of the queue is yielded. *)
LEMMA YieldsHeard ==
    ASSUME NEW w, NEW p, NEW pc \in Place, Heard(w, p), w.backlog = <<>>, w.queue # <<>>
    PROVE  /\ Heard(Yields(w, pc), p)
           /\ Yields(w, pc).pc = pc /\ Yields(w, pc).backlog = <<>>
           /\ Yields(w, pc).live = w.live
<1>. w \in View /\ w.got \in Seq(Chunk) /\ w.queue \in Seq(Chunk)
  BY DEF Heard, View
<1>1. PICK y : y = Yields(w, pc)
  OBVIOUS
<1>2. /\ y.got = Append(w.got, Head(w.queue)) /\ y.queue = Tail(w.queue)
      /\ y.backlog = <<>> /\ y.first = w.first /\ y.overflowed = w.overflowed
      /\ y.pc = pc /\ y.live = w.live
      /\ y = [w EXCEPT !.pc = pc, !.got = y.got, !.queue = y.queue]
  BY <1>1 DEF Yields, View
<1>3. /\ Append(w.got, Head(w.queue)) \o Tail(w.queue) = w.got \o w.queue
      /\ y.got \in Seq(Chunk) /\ y.queue \in Seq(Chunk)
  BY <1>2, MoveHead
<1>4. y \in View
  BY <1>2, <1>3 DEF View
<1>5. ToldBy(y) = ToldBy(w)
  <2>1. ToldBy(y) = y.got \o y.queue
    BY <1>2, <1>3, Concats DEF ToldBy
  <2>2. ToldBy(w) = w.got \o w.queue
    BY Concats DEF ToldBy
  <2>. QED
    BY <1>2, <1>3, <2>1, <2>2
<1>6. Len(y.queue) <= Len(w.queue)
  BY <1>2
<1>. QED
  BY <1>1, <1>2, <1>4, <1>5, <1>6, SameTold

(* The fields a step of the generator sets besides. *)
LEMMA FlagsHeard ==
    ASSUME NEW w, NEW p, Heard(w, p), NEW pc \in Place, NEW live \in BOOLEAN
    PROVE  Heard([w EXCEPT !.pc = pc, !.live = live], p)
<1>. w \in View
  BY DEF Heard
<1>1. PICK y : y = [w EXCEPT !.pc = pc, !.live = live]
  OBVIOUS
<1>2. /\ y \in View
      /\ y.first = w.first /\ y.overflowed = w.overflowed
      /\ y.got = w.got /\ y.backlog = w.backlog /\ y.queue = w.queue
  BY <1>1 DEF View
<1>3. ToldBy(y) = ToldBy(w) /\ Len(y.queue) <= Len(w.queue)
  BY <1>2 DEF ToldBy, View
<1>. QED
  BY <1>1, <1>2, <1>3, SameTold

(* Once the queue is empty, all that was told was shown. *)
LEMMA AllShown ==
    ASSUME NEW w, NEW p, NEW f \in 0 .. Len(p) + 1, Heard(w, p), p \in Seq(Stream),
           w.backlog = <<>>, w.queue = <<>>, ~w.overflowed
    PROVE  Shown(w, f)
<1>. w \in View /\ w.got \in Seq(Chunk) /\ w.first \in Nat /\ Len(p) \in Nat
  BY DEF Heard, View
<1>1. ToldBy(w) = w.got
  BY Concats DEF ToldBy
<1>2. Len(w.got) = Len(p) + 1 - w.first /\ \A i \in 1 .. Len(w.got) : w.got[i].n = w.first + i - 1
  BY <1>1 DEF Heard, Whole
<1>3. ASSUME NEW m \in w.first .. f - 1
      PROVE  \E i \in 1 .. Len(w.got) : w.got[i].n = m
  <2>1. PICK i : i = m - w.first + 1
    OBVIOUS
  <2>2. i \in 1 .. Len(w.got) /\ w.first + i - 1 = m
    BY <1>2, <2>1
  <2>3. w.got[i].n = m
    BY <1>2, <2>2
  <2>. QED
    BY <2>2, <2>3
<1>. QED
  BY <1>3 DEF Shown

-----------------------------------------------------------------------------
LEMMA FollowingView ==
    ASSUME NEW w, NEW p, NEW f, Follows(w, p, f), w.pc \in Following
    PROVE  ViewInv(w, p, f)
  BY DEF ViewInv, Follows, Heard, Following

(* The stream ends. *)
LEMMA EndsInv ==
    ASSUME NEW w, NEW p, NEW f, w \in View, f # 0,
           w.live /\ ~w.overflowed => Shown(w, f)
    PROVE  ViewInv(Ends(w), p, f)
<1>1. PICK y : y = Ends(w)
  OBVIOUS
<1>2. /\ y \in View /\ y.pc = "ended" /\ y.queue = <<>>
      /\ y.live = w.live /\ y.overflowed = w.overflowed
      /\ y.first = w.first /\ y.got = w.got
  BY <1>1, EmptySeq DEF Ends, View, Place
<1>3. Shown(w, f) => Shown(y, f)
  BY <1>2 DEF Shown
<1>4. ViewInv(y, p, f)
  BY <1>2, <1>3 DEF ViewInv, Following
<1>. QED
  BY <1>1, <1>4

LEMMA LoopInv ==
    ASSUME NEW w, NEW p, NEW f, Heard(w, p), w.backlog = <<>>
    PROVE  ViewInv(Loop(w), p, f)
<1>. w \in View
  BY DEF Heard
<1>1. CASE w.queue = <<>>
  <2>1. PICK y : y = [w EXCEPT !.pc = "wait", !.live = TRUE]
    OBVIOUS
  <2>2. Heard(y, p)
    BY <2>1, FlagsHeard DEF Place
  <2>3. y.pc = "wait" /\ y.backlog = <<>>
    BY <2>1 DEF View
  <2>4. ViewInv(y, p, f)
    BY <2>2, <2>3, FollowingView DEF Follows, Following
  <2>. QED
    BY <1>1, <2>1, <2>4 DEF Loop
<1>2. CASE w.queue # <<>>
  <2>1. PICK x : x = Yields(w, "live")
    OBVIOUS
  <2>2. Heard(x, p) /\ x.pc = "live" /\ x.backlog = <<>> /\ x \in View
    BY <1>2, <2>1, YieldsHeard DEF Place, Heard
  <2>3. PICK y : y = [x EXCEPT !.live = TRUE]
    OBVIOUS
  <2>4. y = [x EXCEPT !.pc = "live", !.live = TRUE] /\ y.pc = "live" /\ y.backlog = <<>>
    BY <2>2, <2>3 DEF View
  <2>5. Heard(y, p)
    BY <2>2, <2>4, FlagsHeard DEF Place
  <2>6. ViewInv(y, p, f)
    BY <2>4, <2>5, FollowingView DEF Follows, Following
  <2>. QED
    BY <1>2, <2>1, <2>3, <2>6 DEF Loop
<1>. QED
  BY <1>1, <1>2

LEMMA ReplayInv ==
    ASSUME NEW w, NEW p, Heard(w, p), ~w.live
    PROVE  ViewInv(Replay(w), p, finished)
<1>. w \in View /\ w.got \in Seq(Chunk) /\ w.backlog \in Seq(Chunk) /\ w.queue \in Seq(Chunk)
  BY DEF Heard, View
<1>1. CASE w.backlog # <<>>
  <2>1. PICK y : y = [w EXCEPT !.pc = "replay", !.got = Append(@, Head(w.backlog)),
                               !.backlog = Tail(@)]
    OBVIOUS
  <2>2. /\ y.got = Append(w.got, Head(w.backlog)) /\ y.backlog = Tail(w.backlog)
        /\ y.queue = w.queue /\ y.first = w.first /\ y.overflowed = w.overflowed
        /\ y.pc = "replay" /\ ~y.live
        /\ y = [w EXCEPT !.pc = "replay", !.got = y.got, !.backlog = y.backlog]
    BY <2>1 DEF View
  <2>3. /\ Append(w.got, Head(w.backlog)) \o Tail(w.backlog) = w.got \o w.backlog
        /\ Append(w.got, Head(w.backlog)) \in Seq(Chunk)
        /\ Tail(w.backlog) \in Seq(Chunk)
    BY <1>1, MoveHead
  <2>4. y \in View
    BY <2>2, <2>3 DEF View, Place
  <2>5. ToldBy(y) = ToldBy(w)
    BY <2>2, <2>3 DEF ToldBy
  <2>6. Len(y.queue) <= Len(w.queue)
    BY <2>2
  <2>7. Heard(y, p)
    BY <2>2, <2>4, <2>5, <2>6, SameTold
  <2>8. ViewInv(y, p, finished)
    BY <2>2, <2>7, FollowingView DEF Follows, Following
  <2>. QED
    BY <1>1, <2>1, <2>8 DEF Replay
<1>2. CASE w.backlog = <<>> /\ finished # 0
  BY <1>2, EndsInv DEF Replay
<1>3. CASE w.backlog = <<>> /\ finished = 0
  BY <1>3, LoopInv DEF Replay
<1>. QED
  BY <1>1, <1>2, <1>3

LEMMA DrainInv ==
    ASSUME NEW w, NEW p \in Seq(Stream), NEW f \in 0 .. Len(p) + 1, f # 0,
           Heard(w, p), w.backlog = <<>>
    PROVE  ViewInv(Drain(w), p, f)
<1>1. CASE w.queue = <<>>
  <2>1. w.live /\ ~w.overflowed => Shown(w, f)
    BY <1>1, AllShown
  <2>2. w \in View
    BY DEF Heard
  <2>3. ViewInv(Ends(w), p, f)
    BY <2>1, <2>2, EndsInv
  <2>. QED
    BY <1>1, <2>3 DEF Drain
<1>2. CASE w.queue # <<>>
  <2>1. PICK y : y = Yields(w, "tail")
    OBVIOUS
  <2>2. Heard(y, p) /\ y.pc = "tail" /\ y.backlog = <<>>
    BY <1>2, <2>1, YieldsHeard DEF Place
  <2>3. ViewInv(y, p, f)
    BY <2>2, FollowingView DEF Follows, Following
  <2>. QED
    BY <1>2, <2>1, <2>3 DEF Drain
<1>. QED
  BY <1>1, <1>2

LEMMA CutOffInv ==
    ASSUME NEW w \in View, NEW p, NEW f
    PROVE  ViewInv(CutOff(w), p, f)
<1>1. PICK y : y = CutOff(w)
  OBVIOUS
<1>2. y \in View /\ y.pc = "gone" /\ y.queue = <<>>
  BY <1>1, EmptySeq DEF CutOff, View, Place
<1>3. ViewInv(y, p, f)
  BY <1>2 DEF ViewInv, Following
<1>. QED
  BY <1>1, <1>3

-----------------------------------------------------------------------------
(* A log message, seen by a viewer. *)
Hears(w, e) ==
    IF w.pc \notin Following THEN w
    ELSE [w EXCEPT !.queue = DropOldest(Append(@, e), QueueCap),
                   !.overflowed = @ \/ Len(w.queue) = QueueCap]

LEMMA HearsInv ==
    ASSUME NEW p \in Seq(Stream), NEW s \in Stream, NEW w, NEW f, ViewInv(w, p, f),
           NEW e, Published(e, Append(p, s)), e.n = Len(Append(p, s))
    PROVE  ViewInv(Hears(w, e), Append(p, s), f)
<1>1. CASE w.pc \notin Following
  BY <1>1 DEF ViewInv, Hears
<1>2. CASE w.pc \in Following
  <2>. /\ w \in View /\ Follows(w, p, f) /\ Heard(w, p) /\ e \in Chunk
       /\ w.got \in Seq(Chunk) /\ w.backlog \in Seq(Chunk) /\ w.queue \in Seq(Chunk)
       /\ w.first \in Nat
    BY <1>2 DEF ViewInv, Follows, Heard, View, Published
  <2>. DEFINE told == w.got \o w.backlog
  <2>1. PICK y : y = Hears(w, e)
    OBVIOUS
  <2>2. /\ y.queue = Newest(Append(w.queue, e), QueueCap)
        /\ y.overflowed = (w.overflowed \/ Len(w.queue) = QueueCap)
        /\ y.pc = w.pc /\ y.backlog = w.backlog /\ y.got = w.got
        /\ y.first = w.first /\ y.live = w.live
        /\ y = [w EXCEPT !.queue = y.queue, !.overflowed = y.overflowed]
    BY <1>2, <2>1 DEF Hears, DropOldest, View
  <2>3. told \in Seq(Chunk) /\ ToldBy(w) = told \o w.queue /\ ToldBy(w) \in Seq(Chunk)
    BY DEF ToldBy
  <2>4. Len(w.queue) <= QueueCap /\ QueueCap \in Nat \ {0} /\ Len(w.queue) \in Nat
    BY LogAssumption DEF Heard
  <2>5. /\ WellTold(Append(ToldBy(w), e), Append(p, s))
        /\ ~w.overflowed => Whole(Append(ToldBy(w), e), w.first, Append(p, s))
    BY TellNext DEF Heard
  <2>6. ToldBy(y) = told \o y.queue
    BY <2>2 DEF ToldBy
  <2>7. Heard(y, Append(p, s))
    <3>1. CASE Len(w.queue) < QueueCap
      <4>1. y.queue = Append(w.queue, e) /\ y.overflowed = w.overflowed
        <5>1. Newest(Append(w.queue, e), QueueCap) = Append(w.queue, e)
          BY <2>4, <3>1, NewestOfAppend
        <5>2. Len(w.queue) # QueueCap /\ w.overflowed \in BOOLEAN
          BY <2>4, <3>1 DEF View
        <5>. QED
          BY <2>2, <5>1, <5>2
      <4>2. y \in View /\ Len(y.queue) <= QueueCap
        <5>1. y.queue \in Seq(Chunk) /\ Len(y.queue) = Len(w.queue) + 1
          BY <4>1
        <5>2. y \in View
          BY <2>2, <4>1, <5>1 DEF View
        <5>. QED
          BY <2>4, <3>1, <5>1, <5>2
      <4>3. told \o Append(w.queue, e) = Append(told \o w.queue, e)
        BY <2>3, AppendLast
      <4>4. ToldBy(y) = Append(ToldBy(w), e)
        BY <2>3, <2>6, <4>1, <4>3
      <4>. QED
        BY <2>2, <2>5, <4>1, <4>2, <4>4 DEF Heard
    <3>2. CASE Len(w.queue) = QueueCap
      <4>1. w.queue # <<>> /\ y.queue = Append(Tail(w.queue), e) /\ y.overflowed
        <5>1. /\ w.queue # <<>>
              /\ Newest(Append(w.queue, e), QueueCap) = Append(Tail(w.queue), e)
          BY <2>4, <3>2, NewestOfAppend
        <5>. QED
          BY <2>2, <3>2, <5>1
      <4>2. Tail(w.queue) \in Seq(Chunk) /\ Len(Tail(w.queue)) = Len(w.queue) - 1
        BY <4>1
      <4>3. y \in View /\ Len(y.queue) <= QueueCap
        <5>1. y.queue \in Seq(Chunk) /\ Len(y.queue) = Len(w.queue)
          BY <2>4, <4>1, <4>2
        <5>2. y.overflowed \in BOOLEAN
          BY <2>2, <3>2
        <5>3. y \in View
          BY <2>2, <5>1, <5>2 DEF View
        <5>. QED
          BY <2>4, <5>1, <5>3
      <4>4. told \o Append(Tail(w.queue), e) = Append(told \o Tail(w.queue), e)
        BY <2>3, <4>2, AppendLast
      <4>5. ToldBy(y) = Append(told \o Tail(w.queue), e)
        BY <2>6, <4>1, <4>4
      <4>6. Append(p, s) \in Seq(Stream)
        OBVIOUS
      <4>7. WellTold(Append(told \o Tail(w.queue), e), Append(p, s))
        BY <2>3, <2>5, <4>1, <4>6, TellLess
      <4>. QED
        BY <4>1, <4>3, <4>5, <4>7 DEF Heard
    <3>. QED
      BY <2>4, <3>1, <3>2
  <2>8. Follows(y, Append(p, s), f)
    BY <2>2, <2>7 DEF Follows
  <2>9. ViewInv(y, Append(p, s), f)
    BY <1>2, <2>2, <2>8, FollowingView
  <2>. QED
    BY <2>1, <2>9
<1>. QED
  BY <1>1, <1>2

(* The history takes one more. *)
LEMMA HistoryTells ==
    ASSUME NEW p \in Seq(Stream), NEW s \in Stream, NEW h, WellTold(h, p),
           Len(h) <= HistoryCap, Len(h) <= Len(p), Whole(h, Len(p) - Len(h) + 1, p),
           NEW e, Published(e, Append(p, s)), e.n = Len(Append(p, s)),
           NEW g, g = Newest(Append(h, e), HistoryCap)
    PROVE  /\ WellTold(g, Append(p, s))
           /\ Len(g) <= HistoryCap /\ Len(g) <= Len(Append(p, s))
           /\ Whole(g, Len(Append(p, s)) - Len(g) + 1, Append(p, s))
<1>. h \in Seq(Chunk) /\ e \in Chunk
  BY DEF WellTold, Published
<1>1. /\ HistoryCap \in Nat \ {0} /\ Len(h) \in Nat /\ Len(p) \in Nat
      /\ Len(Append(p, s)) = Len(p) + 1
      /\ Append(h, e) \in Seq(Chunk) /\ Len(Append(h, e)) = Len(h) + 1
  BY LogAssumption
<1>2. /\ WellTold(Append(h, e), Append(p, s))
      /\ Whole(Append(h, e), Len(p) - Len(h) + 1, Append(p, s))
  BY <1>1, TellNext
<1>3. CASE Len(h) < HistoryCap
  <2>1. g = Append(h, e)
    BY <1>1, <1>3, NewestOfAppend
  <2>2. Len(Append(p, s)) - Len(g) + 1 = Len(p) - Len(h) + 1
    BY <1>1, <2>1
  <2>. QED
    BY <1>1, <1>2, <1>3, <2>1, <2>2
<1>4. CASE Len(h) = HistoryCap
  <2>1. h # <<>> /\ g = Append(Tail(h), e)
    BY <1>1, <1>4, NewestOfAppend
  <2>2. /\ Tail(h) \in Seq(Chunk) /\ Len(Tail(h)) = Len(h) - 1
        /\ <<>> \o h = h /\ <<>> \o Tail(h) = Tail(h)
    BY <2>1, ConcatEmptySeq
  <2>3. WellTold(g, Append(p, s))
    <3>1. <<>> \in Seq(Chunk) /\ Append(p, s) \in Seq(Stream)
      BY EmptySeq
    <3>2. WellTold(Append(<<>> \o h, e), Append(p, s))
      BY <1>2, <2>2
    <3>3. WellTold(Append(<<>> \o Tail(h), e), Append(p, s))
      BY <2>1, <3>1, <3>2, TellLess
    <3>. QED
      BY <2>1, <2>2, <3>3
  <2>4. Len(g) = Len(h) /\ \A i \in 1 .. Len(h) : g[i] = Append(h, e)[i + 1]
    <3>1. Len(g) = Len(h)
      BY <1>1, <2>1, <2>2
    <3>2. ASSUME NEW i \in 1 .. Len(h), i < Len(h)
          PROVE  g[i] = Append(h, e)[i + 1]
      <4>1. g[i] = Tail(h)[i]
        BY <1>1, <2>1, <2>2, <3>2
      <4>2. Tail(h)[i] = h[i + 1]
        BY <1>1, <2>1, <2>2, <3>2
      <4>. QED
        BY <1>1, <3>2, <4>1, <4>2
    <3>3. g[Len(h)] = e /\ Append(h, e)[Len(h) + 1] = e
      BY <1>1, <2>1, <2>2
    <3>. QED
      BY <1>1, <3>1, <3>2, <3>3
  <2>5. \A i \in 1 .. Len(h) + 1 : Append(h, e)[i].n = Len(p) - Len(h) + 1 + i - 1
    BY <1>1, <1>2 DEF Whole
  <2>6. \A i \in 1 .. Len(g) : g[i].n = Len(p) + 1 - Len(g) + 1 + i - 1
    BY <1>1, <2>4, <2>5
  <2>. QED
    BY <1>1, <1>4, <2>3, <2>4, <2>6 DEF Whole
<1>. QED
  BY <1>1, <1>3, <1>4

-----------------------------------------------------------------------------
(* The invariant holds in every behaviour. *)

LEMMA InitLogInv == Init => LogInv
<1>. SUFFICES ASSUME Init PROVE LogInv
  OBVIOUS
<1>1. published = <<>> /\ published \in Seq(Stream) /\ Len(published) = 0
      /\ history = <<>> /\ history \in Seq(Chunk) /\ Len(history) = 0
  BY EmptySeq DEF Init
<1>2. ASSUME NEW s \in Stream PROVE Count(published, s, 0) = 0
  <2>1. Occurrences(published, s, 0) = {}
    BY DEF Occurrences
  <2>. QED
    BY <2>1, FS_EmptySet DEF Count
<1>3. BrokerInv
  <2>1. sequences = [s \in Stream |-> Count(published, s, Len(published))]
    BY <1>1, <1>2 DEF Init
  <2>. QED
    BY <1>1, <2>1, LogAssumption DEF Init, BrokerInv, WellTold, Whole
<1>4. ASSUME NEW v \in Viewer PROVE ViewInv(view[v], published, finished)
  <2>1. view[v] = NewView
    BY DEF Init
  <2>2. NewView \in View
    BY EmptySeq DEF NewView, View, Place
  <2>3. NewView.pc = "away" /\ NewView.queue = <<>>
    BY DEF NewView
  <2>. QED
    BY <2>1, <2>2, <2>3 DEF ViewInv, Following
<1>. QED
  BY <1>3, <1>4 DEF Init, LogInv

(* A step of one generator. *)
LEMMA ViewerStep ==
    ASSUME LogInv, NEW v \in Viewer, NEW w, ViewInv(w, published, finished),
           view' = [view EXCEPT ![v] = w], UNCHANGED <<broker, finished, restarts>>
    PROVE  LogInv'
<1>1. BrokerInv'
  BY DEF LogInv, BrokerInv, broker
<1>2. \A x \in Viewer : view'[x] = IF x = v THEN w ELSE view[x]
  BY DEF LogInv
<1>3. published' = published /\ finished' = finished
  BY DEF broker
<1>4. \A x \in Viewer : ViewInv(view'[x], published', finished')
  BY <1>2, <1>3 DEF LogInv
<1>5. view' = [x \in Viewer |-> view'[x]]
  BY DEF LogInv
<1>. QED
  BY <1>1, <1>4, <1>5 DEF LogInv

LEMMA OnLogStep ==
    ASSUME LogInv, NEW s \in Stream, OnLog(s)
    PROVE  LogInv'
<1>. BrokerInv
  BY DEF LogInv
<1>1. PICK e : e = [n |-> Len(published) + 1, stream |-> s, sequence |-> Numbered(s)[s]]
  OBVIOUS
<1>2. /\ published' = Append(published, s) /\ sequences' = Numbered(s)
      /\ history' = Newest(Append(history, e), HistoryCap)
      /\ view' = [v \in Viewer |-> Hears(view[v], e)]
      /\ stored < MaxChunks /\ stored' = stored + 1
      /\ UNCHANGED <<finished, restarts>>
  BY <1>1 DEF OnLog, Hears
<1>3. /\ published \in Seq(Stream) /\ Len(published) \in Nat
      /\ Len(published') = Len(published) + 1 /\ published' \in Seq(Stream)
      /\ published'[Len(published) + 1] = s
  BY <1>2 DEF BrokerInv
<1>4. Numbered(s)[s] = Count(published, s, Len(published)) + 1
  BY DEF BrokerInv, Numbered
<1>5. Published(e, Append(published, s)) /\ e.n = Len(Append(published, s))
  BY <1>1, <1>3, <1>4, EntryIsPublished
<1>6. sequences' = [x \in Stream |-> Count(published', x, Len(published'))]
  <2>1. ASSUME NEW x \in Stream
        PROVE  Count(published', x, Len(published'))
                 = IF x = s THEN Count(published, x, Len(published)) + 1
                   ELSE Count(published, x, Len(published))
    <3>1. Count(published', x, Len(published)) = Count(published, x, Len(published))
      BY <1>2, <1>3, CountOfAppend
    <3>2. ASSUME NEW n \in Nat, NEW o
          PROVE  Count(o, x, n + 1) = IF o[n + 1] = x THEN Count(o, x, n) + 1
                                      ELSE Count(o, x, n)
      BY CountNext
    <3>3. Count(published', x, Len(published) + 1)
            = IF published'[Len(published) + 1] = x THEN Count(published', x, Len(published)) + 1
              ELSE Count(published', x, Len(published))
      BY <1>3, <3>2
    <3>. QED
      BY <1>3, <3>1, <3>3
  <2>2. sequences = [x \in Stream |-> Count(published, x, Len(published))]
    BY DEF BrokerInv
  <2>3. sequences' = [x \in Stream |-> IF x = s THEN sequences[s] + 1 ELSE sequences[x]]
    BY <1>2, <2>2 DEF Numbered
  <2>. QED
    BY <2>1, <2>2, <2>3
<1>7. /\ WellTold(history', published')
      /\ Len(history') <= HistoryCap /\ Len(history') <= Len(published')
      /\ Whole(history', Len(published') - Len(history') + 1, published')
  BY <1>2, <1>3, <1>5, HistoryTells DEF BrokerInv
<1>8. BrokerInv'
  <2>1. stored' \in 0 .. MaxChunks
    BY <1>2, LogAssumption DEF BrokerInv
  <2>2. finished' \in 0 .. Len(published') + 1 /\ restarts' \in 0 .. MaxRestarts
    BY <1>2, <1>3 DEF BrokerInv
  <2>. QED
    BY <1>3, <1>6, <1>7, <2>1, <2>2 DEF BrokerInv
<1>9. ASSUME NEW v \in Viewer PROVE ViewInv(Hears(view[v], e), published', finished')
  BY <1>2, <1>3, <1>5, HearsInv DEF LogInv
<1>10. \A v \in Viewer : ViewInv(view'[v], published', finished')
  BY <1>2, <1>9
<1>11. view' = [v \in Viewer |-> view'[v]]
  BY <1>2
<1>. QED
  BY <1>8, <1>10, <1>11 DEF LogInv

LEMMA FinishStep ==
    ASSUME LogInv, Finish
    PROVE  LogInv'
<1>1. /\ finished = 0 /\ finished' = 1 + Len(published)
      /\ UNCHANGED <<published, sequences, history, stored, view, restarts>>
  BY DEF Finish, broker
<1>2. BrokerInv'
  BY <1>1 DEF LogInv, BrokerInv
<1>3. ASSUME NEW v \in Viewer PROVE ViewInv(view[v], published, finished')
  <2>1. view[v].pc # "ended" /\ view[v].pc # "tail"
    BY <1>1 DEF LogInv, ViewInv, Follows, Following
  <2>. QED
    BY <2>1 DEF LogInv, ViewInv, Follows
<1>. QED
  BY <1>1, <1>2, <1>3 DEF LogInv

LEMMA SubscribeStep ==
    ASSUME LogInv, NEW v \in Viewer, Subscribe(v)
    PROVE  LogInv'
<1>1. view[v] = NewView
  BY DEF LogInv, ViewInv, Subscribe
<1>2. PICK w : w = [NewView EXCEPT !.backlog = history,
                                   !.first = Len(published) - Len(history) + 1]
  OBVIOUS
<1>3. /\ view' = [view EXCEPT ![v] = Replay(w)]
      /\ UNCHANGED <<broker, finished, restarts>>
  BY <1>1, <1>2 DEF Subscribe, LogInv
<1>4. /\ w.backlog = history /\ w.first = Len(published) - Len(history) + 1
      /\ w.got = <<>> /\ w.queue = <<>> /\ w.overflowed = FALSE /\ w.live = FALSE
      /\ w.pc = "away"
      /\ w = [pc |-> w.pc, backlog |-> w.backlog, queue |-> w.queue, got |-> w.got,
              first |-> w.first, overflowed |-> w.overflowed, live |-> w.live]
  BY <1>2 DEF NewView
<1>5. history \in Seq(Chunk) /\ Len(history) \in Nat /\ Len(published) \in Nat
      /\ Len(history) <= Len(published)
  BY DEF LogInv, BrokerInv, WellTold
<1>6. w \in View
  <2>1. w.first \in Nat
    BY <1>4, <1>5
  <2>. QED
    BY <1>4, <1>5, <2>1, EmptySeq DEF View, Place
<1>7. ToldBy(w) = history
  BY <1>4, <1>5, ConcatEmptySeq DEF ToldBy
<1>8. Heard(w, published)
  <2>1. Len(w.queue) <= QueueCap
    BY <1>4, LogAssumption
  <2>. QED
    BY <1>4, <1>6, <1>7, <2>1 DEF Heard, LogInv, BrokerInv
<1>9. ViewInv(Replay(w), published, finished)
  BY <1>4, <1>8, ReplayInv
<1>. QED
  BY <1>3, <1>9, ViewerStep

(* The steps of a generator that was suspended. *)
LEMMA GeneratorStep ==
    ASSUME LogInv, NEW v \in Viewer, Resume(v) \/ Arrive(v) \/ Poll(v) \/ Disconnect(v)
    PROVE  LogInv'
<1>. DEFINE w == view[v]
<1>1. UNCHANGED <<broker, finished, restarts>>
  BY DEF Resume, Arrive, Poll, Disconnect
<1>2. /\ ViewInv(w, published, finished) /\ w \in View /\ view = [x \in Viewer |-> view[x]]
      /\ published \in Seq(Stream) /\ finished \in 0 .. Len(published) + 1
  BY DEF LogInv, BrokerInv, ViewInv
<1>3. w.pc \in Following => Heard(w, published)
  BY <1>2 DEF ViewInv, Follows
<1>4. w.pc \in {"live", "wait", "tail"} => w.backlog = <<>>
  BY <1>2 DEF ViewInv, Follows, Following
<1>5. ASSUME NEW y, view' = [view EXCEPT ![v] = y], ViewInv(y, published, finished)
      PROVE  LogInv'
  BY <1>1, <1>5, ViewerStep
<1>6. CASE w.pc = "replay" /\ Resume(v)
  <2>1. view' = [view EXCEPT ![v] = Replay(w)]
    BY <1>2, <1>6 DEF Resume
  <2>2. ~w.live
    BY <1>2, <1>6 DEF ViewInv, Follows, Following
  <2>3. ViewInv(Replay(w), published, finished)
    BY <1>3, <1>6, <2>2, ReplayInv DEF Following
  <2>. QED
    BY <1>5, <2>1, <2>3
<1>7. CASE \/ w.pc = "live" /\ Resume(v)
           \/ w.pc = "wait" /\ Poll(v) /\ finished = 0
  <2>1. view' = [view EXCEPT ![v] = Loop(w)]
    BY <1>2, <1>7 DEF Resume, Poll
  <2>2. ViewInv(Loop(w), published, finished)
    BY <1>3, <1>4, <1>7, LoopInv DEF Following
  <2>. QED
    BY <1>5, <2>1, <2>2
<1>8. CASE \/ w.pc = "tail" /\ Resume(v)
           \/ w.pc = "wait" /\ Poll(v) /\ finished # 0
  <2>1. view' = [view EXCEPT ![v] = Drain(w)]
    BY <1>2, <1>8 DEF Resume, Poll
  <2>2. finished # 0
    BY <1>2, <1>8 DEF ViewInv, Follows, Following
  <2>3. ViewInv(Drain(w), published, finished)
    BY <1>2, <1>3, <1>4, <1>8, <2>2, DrainInv DEF Following
  <2>. QED
    BY <1>5, <2>1, <2>3
<1>9. CASE Arrive(v)
  <2>1. /\ view' = [view EXCEPT ![v] = Yields(w, "live")]
        /\ w.pc = "wait" /\ w.queue # <<>>
    BY <1>2, <1>9 DEF Arrive
  <2>2. PICK y : y = Yields(w, "live")
    OBVIOUS
  <2>3. Heard(y, published) /\ y.pc = "live" /\ y.backlog = <<>>
    BY <1>3, <1>4, <2>1, <2>2, YieldsHeard DEF Place, Following
  <2>4. ViewInv(y, published, finished)
    BY <2>3, FollowingView DEF Follows, Following
  <2>. QED
    BY <1>5, <2>1, <2>2, <2>4
<1>10. CASE Disconnect(v)
  <2>1. view' = [view EXCEPT ![v] = CutOff(w)]
    BY <1>2, <1>10 DEF Disconnect
  <2>. QED
    BY <1>2, <1>5, <2>1, CutOffInv
<1>. QED
  BY <1>6, <1>7, <1>8, <1>9, <1>10 DEF Resume, Poll

LEMMA RestartStep ==
    ASSUME LogInv, Restart
    PROVE  LogInv'
<1>1. /\ published' = <<>> /\ published' \in Seq(Stream) /\ Len(published') = 0
      /\ history' = <<>> /\ history' \in Seq(Chunk) /\ Len(history') = 0
      /\ stored' = stored /\ restarts' = restarts + 1 /\ restarts < MaxRestarts
      /\ finished' = IF finished = 0 THEN 0 ELSE 1
  BY EmptySeq DEF Restart
<1>2. sequences' = [s \in Stream |-> Count(published', s, Len(published'))]
  <2>1. ASSUME NEW s \in Stream PROVE Count(published', s, 0) = 0
    <3>1. Occurrences(published', s, 0) = {}
      BY DEF Occurrences
    <3>. QED
      BY <3>1, FS_EmptySet DEF Count
  <2>. QED
    BY <1>1, <2>1 DEF Restart
<1>3. BrokerInv'
  <2>1. restarts' \in 0 .. MaxRestarts
    BY <1>1, LogAssumption DEF LogInv, BrokerInv
  <2>2. finished' \in 0 .. Len(published') + 1
    BY <1>1
  <2>3. WellTold(history', published')
    BY <1>1 DEF WellTold
  <2>4. /\ Whole(history', Len(published') - Len(history') + 1, published')
        /\ Len(history') <= HistoryCap /\ Len(history') <= Len(published')
    BY <1>1, LogAssumption DEF Whole
  <2>5. stored' \in 0 .. MaxChunks
    BY <1>1 DEF LogInv, BrokerInv
  <2>. QED
    BY <1>1, <1>2, <2>1, <2>2, <2>3, <2>4, <2>5 DEF BrokerInv
<1>4. ASSUME NEW v \in Viewer PROVE ViewInv(view'[v], published', finished')
  <2>1. ViewInv(view[v], published, finished) /\ view[v] \in View
    BY DEF LogInv, ViewInv
  <2>2. CASE view[v].pc \in Following
    <3>1. view'[v] = CutOff(view[v])
      BY <2>2 DEF Restart
    <3>. QED
      BY <2>1, <3>1, CutOffInv
  <2>3. CASE view[v].pc \notin Following
    <3>1. view'[v] = view[v]
      BY <2>3 DEF Restart
    <3>2. ~(finished' > 1) /\ (finished # 0 => finished' # 0)
      BY <1>1
    <3>3. Shown(view[v], finished')
      BY <3>2 DEF Shown
    <3>. QED
      BY <2>1, <2>3, <3>1, <3>2, <3>3 DEF ViewInv
  <2>. QED
    BY <2>2, <2>3
<1>5. view' = [v \in Viewer |-> view'[v]]
  BY DEF Restart
<1>. QED
  BY <1>3, <1>4, <1>5 DEF LogInv

LEMMA LogInvStep == LogInv /\ [Next]_vars => LogInv'
<1>. SUFFICES ASSUME LogInv, [Next]_vars PROVE LogInv'
  OBVIOUS
<1>1. CASE UNCHANGED vars
  BY <1>1 DEF vars, broker, LogInv, BrokerInv
<1>. QED
  BY <1>1, OnLogStep, FinishStep, SubscribeStep, GeneratorStep, RestartStep DEF Next

LEMMA LogInvariance == Spec => []LogInv
  BY InitLogInv, LogInvStep, PTL DEF Spec

-----------------------------------------------------------------------------
(* Every variable has its type, and no cap is exceeded, for caps of any    *)
(* size and any number of viewers, streams, chunks and restarts.           *)
THEOREM TypeCorrect == Spec => []TypeOK
<1>1. ASSUME LogInv PROVE TypeOK
  <2>1. published \in Seq(Stream) /\ Len(published) \in Nat
    BY <1>1 DEF LogInv, BrokerInv
  <2>2. sequences \in [Stream -> Nat]
    BY <1>1, <2>1, OccurrencesFinite DEF LogInv, BrokerInv
  <2>3. finished \in Nat
    BY <1>1, <2>1 DEF LogInv, BrokerInv
  <2>4. ASSUME NEW v \in Viewer
        PROVE  /\ view[v].pc \in Place
               /\ view[v].backlog \in Seq(Chunk) /\ view[v].got \in Seq(Chunk)
               /\ view[v].queue \in Seq(Chunk) /\ Len(view[v].queue) <= QueueCap
               /\ view[v].pc \notin Following => view[v].queue = <<>>
    <3>1. ViewInv(view[v], published, finished) /\ view[v] \in View
      BY <1>1 DEF LogInv, ViewInv
    <3>2. Len(view[v].queue) <= QueueCap
      <4>1. CASE view[v].pc \in Following
        BY <3>1, <4>1 DEF ViewInv, Follows, Heard
      <4>2. CASE view[v].pc \notin Following
        BY <3>1, <4>2, LogAssumption DEF ViewInv
      <4>. QED
        BY <4>1, <4>2
    <3>. QED
      BY <3>1, <3>2 DEF ViewInv, View
  <2>. QED
    BY <1>1, <2>1, <2>2, <2>3, <2>4 DEF TypeOK, LogInv, BrokerInv, WellTold
<1>2. LogInv => TypeOK
  BY <1>1
<1>. QED
  BY <1>2, LogInvariance, PTL

LEMMA FollowerTold ==
    ASSUME LogInv, NEW v \in Viewer, view[v].pc \in Following
    PROVE  /\ view[v] \in View /\ Told(v) = ToldBy(view[v])
           /\ WellTold(Told(v), published)
           /\ ~view[v].overflowed => Whole(Told(v), view[v].first, published)
<1>1. Heard(view[v], published)
  BY DEF LogInv, ViewInv, Follows
<1>2. Told(v) = ToldBy(view[v])
  BY DEF Told, ToldBy
<1>. QED
  BY <1>1, <1>2 DEF Heard

(* No chunk is told twice or out of order, the newest is never the one     *)
(* that is lost, and without an overflow none is.                          *)
THEOREM ReplayMeetsLive == Spec => []InOrderToNewest
<1>1. ASSUME LogInv PROVE InOrderToNewest
  <2>. SUFFICES ASSUME NEW v \in Viewer, view[v].pc \in Following
                PROVE  /\ \A i \in 1 .. Len(Told(v)) - 1 : Told(v)[i].n < Told(v)[i + 1].n
                       /\ Told(v) # <<>> => Told(v)[Len(Told(v))].n = Len(published)
                       /\ ~view[v].overflowed
                              => Len(Told(v)) = Len(published) + 1 - view[v].first
    BY DEF InOrderToNewest
  <2>1. PICK t : t = Told(v)
    OBVIOUS
  <2>2. /\ WellTold(t, published)
        /\ ~view[v].overflowed => Whole(t, view[v].first, published)
    BY <1>1, <2>1, FollowerTold
  <2>3. \A i \in 1 .. Len(t) - 1 : t[i].n < t[i + 1].n
    BY <2>2 DEF WellTold
  <2>. QED
    BY <2>1, <2>2, <2>3 DEF WellTold, Whole
<1>2. LogInv => InOrderToNewest
  BY <1>1
<1>. QED
  BY <1>2, LogInvariance, PTL

(* The numbers of a stream jump in what a viewer was shown exactly where   *)
(* chunks of it are missing, however many streams and chunks there are.    *)
THEOREM HolesShow == Spec => []GapsVisible
<1>1. ASSUME LogInv PROVE GapsVisible
  <2>. SUFFICES ASSUME NEW v \in Viewer, view[v].pc \in Following,
                       NEW i \in 1 .. Len(view[v].got),
                       NEW k \in i + 1 .. Len(view[v].got),
                       view[v].got[i].stream = view[v].got[k].stream
                PROVE  view[v].got[k].sequence = view[v].got[i].sequence + 1
                        <=> \A n \in view[v].got[i].n + 1 .. view[v].got[k].n - 1 :
                               published[n] # view[v].got[i].stream
    BY DEF GapsVisible
  <2>1. PICK x, y : x = view[v].got[i] /\ y = view[v].got[k]
    OBVIOUS
  <2>2. PICK t : t = Told(v)
    OBVIOUS
  <2>3. WellTold(t, published) /\ view[v].got \in Seq(Chunk)
        /\ Len(view[v].got) <= Len(t)
        /\ \A m \in 1 .. Len(view[v].got) : t[m] = view[v].got[m]
    <3>1. view[v] \in View /\ t = ToldBy(view[v]) /\ WellTold(t, published)
      BY <1>1, <2>2, FollowerTold
    <3>. QED
      BY <3>1, ToldShape DEF View
  <2>4. i \in 1 .. Len(t) /\ k \in 1 .. Len(t) /\ i < k /\ t[i] = x /\ t[k] = y
    BY <2>1, <2>3
  <2>5. Published(x, published) /\ Published(y, published) /\ x.n < y.n
    BY <2>3, <2>4 DEF WellTold
  <2>6. x.n \in Nat /\ y.n \in Nat /\ published[y.n] = x.stream /\ x.stream = y.stream
    BY <2>1, <2>5 DEF Published, Chunk
  <2>7. Count(published, x.stream, y.n) = Count(published, x.stream, x.n) + 1
          <=> \A n \in x.n + 1 .. y.n - 1 : published[n] # x.stream
    BY <2>5, <2>6, CountGap
  <2>8. /\ x.sequence = Count(published, x.stream, x.n)
        /\ y.sequence = Count(published, x.stream, y.n)
    BY <2>5, <2>6 DEF Published
  <2>. QED
    BY <2>1, <2>7, <2>8
<1>2. LogInv => GapsVisible
  BY <1>1
<1>. QED
  BY <1>2, LogInvariance, PTL

(* A live stream that reached its end has shown all that was published     *)
(* before the job ended, unless its queue overflowed.                      *)
THEOREM LiveEndsComplete == Spec => []LiveViewerComplete
<1>1. ASSUME LogInv PROVE LiveViewerComplete
  BY <1>1 DEF LogInv, ViewInv, Shown, Complete, LiveViewerComplete
<1>2. LogInv => LiveViewerComplete
  BY <1>1
<1>. QED
  BY <1>2, LogInvariance, PTL
=============================================================================
