----------------------------- MODULE LogProofs -----------------------------
(***************************************************************************)
(* The theorems of the event log and its follower, for any bounds, lengths *)
(* of lines, numbers of events and faults: a sealed segment is never       *)
(* written again, holds the events in order, and, unless a process died,   *)
(* misses none; segments stay within their bounds; two stats list them;    *)
(* and a follower gets the beginning of what was written, each part once.  *)
(*                                                                         *)
(* What makes them inductive: nothing is said of the files alone.  What    *)
(* counts is the text a segment will have, LiveText: what is on disk, what *)
(* the kernel is writing, and what SonicBoom holds.  A step of the kernel  *)
(* does not change it, a write extends it by a whole line, and a segment   *)
(* is given up only when its text is on disk.  The lines still to come are *)
(* those of the running turn behind those held by a seal, and their        *)
(* numbers go on from the text's.                                          *)
(***************************************************************************)
EXTENDS LogFollower, FiniteSetTheorems, SequenceTheorems, WellFoundedInduction, TLAPS

Unit == [id : Int, part : Nat \ {0}, last : BOOLEAN]

LineItem == [op : {"append"}, id : Int, size : Nat \ {0}, checked : BOOLEAN]

Writer == [usable : BOOLEAN, opened : BOOLEAN, discovered : BOOLEAN, index : SUBSET Segments,
           live : Segments, bytes : Nat, sealing : BOOLEAN, pending : Seq(LineItem),
           rotated : Segments \union {None}]

\* The types of the writer and its files.
Types ==
    /\ mode \in DOMAIN LineSizes
    /\ DOMAIN disk \subseteq Segments /\ disk \in [DOMAIN disk -> Seq(Unit)]
    /\ wrote \in [Segments -> Seq(Unit)]
    /\ w \in Writer
    /\ stream \in [segment : Segments, inflight : Seq(Unit), buffer : Seq(Unit)]
    /\ todo \in Seq(LineItem \union {Flush})
    /\ retiring \in BOOLEAN
    /\ emitted \in 0..MaxLines[mode]
    /\ phase \in {"running", "ended", "closed"}
    /\ faults \subseteq {"open", "unlink", "write", "crash"}

\* The stream has something for its segment.
Busy == stream.inflight # <<>> \/ stream.buffer # <<>>

\* What is on disk is what was written, up to retirement; the writer has its
\* stream on the live segment, which no segment is above.
Files ==
    /\ \A k \in DOMAIN disk : disk[k] = wrote[k]
    /\ \A k \in Segments : wrote[k] # <<>> => \E j \in DOMAIN disk : j >= k
    /\ w.discovered => /\ \A j \in DOMAIN disk : j <= w.live
                       /\ w.live \in w.index /\ \A j \in w.index : j <= w.live
    /\ ~w.discovered => w.live = 0
    /\ w.opened \/ w.sealing =>
        w.discovered /\ stream.segment = w.live /\ w.live \in DOMAIN disk
    /\ Busy => w.opened \/ w.sealing
    /\ mode = "sync" => stream.buffer = <<>> /\ ~w.sealing
    /\ w.opened => w.usable /\ ~w.sealing
    /\ retiring => w.opened /\ ~Busy
    /\ w.sealing => w.live < MaxSegment

Contiguous(S) == \A i, j \in S, m \in Segments : i <= m /\ m <= j => m \in S

\* Until an unlink is refused the segments on disk have no gap, and the index
\* is what is on disk; after it, at most one segment is left out of the index.
Listing ==
    /\ "unlink" \notin faults =>
        /\ Contiguous(DOMAIN disk)
        /\ w.discovered => w.index = DOMAIN disk \union {w.live} /\ Contiguous(w.index)
    /\ w.discovered => \E x \in Segments : DOMAIN disk \subseteq w.index \union {x}
    /\ w.opened /\ ~retiring => ~MustRetire

\* The text the live segment has, or is about to get.
LiveText == wrote[w.live] \o stream.inflight \o stream.buffer

\* A text within maxBytes, or one event, behind a marker at most.
Fits(k, text) == Len(text) <= MaxBytes \/ \E n \in 0..emitted : Ids(text) \subseteq {-k, n}

IsLine(i) == i \in DOMAIN todo /\ todo[i].op = "append"

\* The marker of the live segment is the next line, and its first.
MarkerNext ==
    /\ todo[1] = Marker(w.live) /\ w.live > 0 /\ LiveText = <<>>
    /\ w.opened /\ ~retiring

\* The lines to be appended are events, or the marker of a segment just opened.
\* One that is written unconditionally has a segment of its own, and a rotation
\* is announced once.
QueueKept ==
    /\ \A i \in DOMAIN todo : IsLine(i) => todo[i].id \in 1..emitted \/ (i = 1 /\ MarkerNext)
    /\ \A i \in DOMAIN w.pending : w.pending[i].id \in 1..emitted /\ ~w.pending[i].checked
    /\ \A i \in DOMAIN todo : IsLine(i) /\ todo[i].checked =>
        /\ mode = "sync" /\ w.discovered
        /\ i = 1 \/ (i = 2 /\ IsLine(1) /\ todo[1].id = -w.live)
        /\ w.usable => Ids(LiveText) \subseteq {-w.live}
    /\ w.rotated # None =>
        w.discovered /\ LiveText = <<>> /\ w.live > 0 /\ (w.opened => retiring)

\* What the count in memory and the bound on a segment rest on.
Bytes ==
    /\ w.opened => w.bytes = Len(LiveText)
    /\ \A k \in Segments : Fits(k, wrote[k])
    /\ Fits(w.live, LiveText)
    /\ QueueKept

FollowerTypes ==
    /\ pc \in {"stat", "scan", "read", "successor", "final", "drain", "dead"}
    /\ cursor \in [segment : Segments, offset : Nat]
    /\ size \in Nat
    /\ leftover \in Seq(Unit)
    /\ delivered \in [Segments -> Seq(Unit)]

EndsLine(text) == text # <<>> => text[Len(text)].last

\* What was handed out of the cursor's segment and what is left over are what
\* the cursor has passed; what is behind was left whole or has been retired.
Follow ==
    LET c == cursor.segment
    IN  /\ cursor.offset <= Len(wrote[c])
        /\ delivered[c] \o leftover = SubSeq(wrote[c], 1, cursor.offset)
        /\ \A i \in DOMAIN leftover : ~leftover[i].last
        /\ \A k \in Segments : EndsLine(delivered[k])
        /\ \A k \in Segments : k > c => delivered[k] = <<>>
        /\ \A k \in Segments : k < c =>
            /\ IsPrefix(delivered[k], wrote[k])
            /\ k \in Sealed
            /\ delivered[k] # <<>> /\ k \in DOMAIN disk => delivered[k] = WholeLines(wrote[k])
        /\ pc \in {"read", "drain"} => cursor.offset <= size /\ size <= Len(wrote[c])
        /\ pc \in {"final", "drain"} => c \in Sealed
        /\ pc = "drain" => size = Len(wrote[c])
        /\ pc = "scan" /\ delivered[c] # <<>> => c \in Sealed /\ c \notin DOMAIN disk

-----------------------------------------------------------------------------
TextOf(k) == IF k = w.live THEN LiveText ELSE wrote[k]

\* the events and markers a list of pending calls still has to write
LinesIn(q) == {q[i].id : i \in {j \in DOMAIN q : q[j].op = "append"}}

Ascending(q) == \A i, j \in DOMAIN q :
    q[i].op = "append" /\ q[j].op = "append" /\ i < j => q[i].id < q[j].id

FlushLast(q) == \A i \in DOMAIN q : q[i].op # "append" => i = Len(q)

\* The lines of the turn come behind the held ones, in the order of their
\* numbers, and a flush comes last, behind run.end.
Queued ==
    /\ Ascending(todo) /\ Ascending(w.pending)
    /\ \A m \in LinesIn(w.pending), n \in LinesIn(todo) : m < n
    /\ FlushLast(todo)
    /\ (\E i \in DOMAIN todo : todo[i].op # "append") => phase # "running"
    /\ ~w.sealing => w.pending = <<>>

Waiting == LinesIn(todo) \union LinesIn(w.pending)

\* A line that waits is later than all that is in a segment, and what is in a
\* segment later than what is on disk in those before.
Later ==
    /\ \A k \in Segments : \A n \in Ids(TextOf(k)) :
        n <= emitted /\ \A m \in Waiting : m > 0 => n < m
    /\ \A k, l \in Segments : k < l =>
        \A m \in Ids(wrote[k]), n \in Ids(TextOf(l)) : n > 0 => m < n

\* The state run.end's flush leaves a buffered log in.
Reordered ==
    mode = "async" /\ phase # "running" /\ todo = <<>> /\ w.pending = <<>> /\ ~w.sealing

\* The text of a segment that was rolled to begins with its marker,
Begins(k, text) == k > 0 /\ text # <<>> => text[1].id = -k

\* which is nowhere else.
MarkerOnly(k, text) ==
    \A i \in DOMAIN text : text[i].id <= 0 =>
        k > 0 /\ i <= MarkerSize /\ text[i] = Units(Marker(k))[i]

\* Each segment's text is in order, but the last one's behind run.end's flush.
Ordered ==
    mode = "sync" \/ "crash" \notin faults =>
        \A k \in Segments : (k = w.live => ~Reordered) =>
            /\ InOrder(TextOf(k)) /\ MarkerOnly(k, TextOf(k))
            /\ "crash" \notin faults => Begins(k, TextOf(k))

\* An event that is in no segment, and that nothing is about to write.
Lost(n) ==
    /\ \A k \in 0..w.live : n \notin Ids(TextOf(k))
    /\ n \notin Waiting

WholeTexts ==
    /\ ~Reordered => Unbroken(LiveText)
    /\ \A k \in Segments : k < w.live => Unbroken(wrote[k])

\* A segment rolled to and still empty has its marker coming.
MarkerDue ==
    w.live > 0 /\ LiveText = <<>> =>
        w.rotated # None \/ (todo # <<>> /\ Head(todo) = Marker(w.live))

SealedComplete ==
    \A k \in Sealed :
        /\ Unbroken(wrote[k])
        /\ \A n \in Events(k) : \A m \in 1..n : \E l \in 0..k : m \in Events(l)

\* Unless a process died, and as long as the log is usable, no event is lost and
\* no line cut short; the sealed segments stay so when it no longer is.
Complete ==
    "crash" \notin faults =>
        /\ ~w.discovered => DOMAIN disk = {}
        /\ w.usable => WholeTexts /\ MarkerDue /\ \A n \in 1..emitted : ~Lost(n)
        /\ SealedComplete

-----------------------------------------------------------------------------
\* a nonempty set of numbers has a least one
LEMMA LeastNat ==
    ASSUME NEW S \in SUBSET Nat, S # {}
    PROVE  \E n \in S : \A m \in S : n <= m
<1>1. PICK n \in S : \A m \in S : <<m, n>> \notin OpToRel(<, Nat)
  BY WFMin, NatLessThanWellFounded
<1>2. \A m \in S : ~(m < n)
  BY <1>1 DEF OpToRel
<1> QED
  BY <1>2

\* the greatest and the least of some segments
LEMMA MaxMin ==
    ASSUME NEW S \in SUBSET Segments, S # {}
    PROVE  /\ Max(S) \in S /\ \A y \in S : y <= Max(S)
           /\ Min(S) \in S /\ \A y \in S : Min(S) <= y
<1>1. MaxSegment \in Nat
  BY LogAssumption
<1>2. PICK x \in S : \A y \in S : x <= y
  BY <1>1, LeastNat DEF Segments
<1>3. \E x3 \in S : \A y \in S : y <= x3
  <2> DEFINE D == {MaxSegment - x3 : x3 \in S}
  <2>1. D \in SUBSET Nat /\ D # {}
    BY <1>1 DEF Segments
  <2>2. PICK d \in D : \A e \in D : d <= e
    <3> HIDE DEF D
    <3> QED BY <2>1, LeastNat
  <2>3. PICK z \in S : d = MaxSegment - z
    OBVIOUS
  <2>4. \A y \in S : MaxSegment - z <= MaxSegment - y
    BY <2>2, <2>3
  <2> HIDE DEF D
  <2> QED
    BY <1>1, <2>3, <2>4 DEF Segments
<1> QED
  BY <1>2, <1>3 DEF Max, Min, Segments

\* the last step of a chunk: what the text is made of does not change
LEMMA ConcatHead ==
    ASSUME NEW S, NEW s \in Seq(S), NEW t \in Seq(S), t # <<>>
    PROVE  /\ Append(s, Head(t)) \o Tail(t) = s \o t
           /\ Append(s, Head(t)) \in Seq(S) /\ Tail(t) \in Seq(S) /\ Head(t) \in S
<1>1. Head(t) \in S /\ Tail(t) \in Seq(S) /\ Len(Tail(t)) = Len(t) - 1
  BY HeadTailProperties
<1>2. Append(s, Head(t)) \in Seq(S) /\ Len(Append(s, Head(t))) = Len(s) + 1
  BY <1>1
<1>3. Append(s, Head(t)) \o Tail(t) \in Seq(S) /\ s \o t \in Seq(S)
  BY <1>1, <1>2, ConcatProperties
<1>4. \A i \in 1..Len(s) + Len(t) : (Append(s, Head(t)) \o Tail(t))[i] = (s \o t)[i]
  <2> TAKE i \in 1..Len(s) + Len(t)
  <2>1. CASE i <= Len(s)
    BY <1>1, <1>2, <2>1
  <2>2. CASE i = Len(s) + 1
    BY <1>1, <1>2, <2>2
  <2>3. CASE i > Len(s) + 1
    BY <1>1, <1>2, <2>3, HeadTailProperties, LenProperties
  <2> QED
    BY <2>1, <2>2, <2>3, LenProperties
<1> QED
  BY <1>1, <1>2, <1>3, <1>4, SeqEqual, ConcatProperties, LenProperties

\* the events of a text are those of its parts
LEMMA IdsOfConcat ==
    ASSUME NEW s \in Seq(Unit), NEW t \in Seq(Unit)
    PROVE  Ids(s \o t) = Ids(s) \union Ids(t)
<1>1. /\ s \o t \in Seq(Unit) /\ Len(s \o t) = Len(s) + Len(t)
      /\ \A i \in 1 .. Len(s) + Len(t) : (s \o t)[i] =
                     IF i <= Len(s) THEN s[i] ELSE t[i - Len(s)]
  BY ConcatProperties
<1>2. DOMAIN s = 1..Len(s) /\ DOMAIN t = 1..Len(t) /\ Len(s) \in Nat /\ Len(t) \in Nat
      /\ DOMAIN (s \o t) = 1..Len(s) + Len(t)
  BY <1>1, LenProperties
<1>3. \A i \in 1..Len(t) : (s \o t)[i + Len(s)] = t[i] /\ i + Len(s) \in DOMAIN (s \o t)
  BY <1>1, <1>2
<1>4. \A i \in 1..Len(s) : (s \o t)[i] = s[i] /\ i \in DOMAIN (s \o t)
  BY <1>1, <1>2
<1>5. \A i \in DOMAIN (s \o t) : (s \o t)[i].id \in Ids(s) \union Ids(t)
  <2> TAKE i \in DOMAIN (s \o t)
  <2>1. CASE i <= Len(s)
    BY <1>1, <1>2, <2>1 DEF Ids
  <2>2. CASE ~(i <= Len(s))
    <3>1. i - Len(s) \in DOMAIN t /\ (s \o t)[i] = t[i - Len(s)]
      BY <1>1, <1>2, <2>2
    <3> QED BY <3>1 DEF Ids
  <2> QED BY <2>1, <2>2
<1>6. Ids(s) \subseteq Ids(s \o t)
  BY <1>2, <1>4 DEF Ids
<1>7. Ids(t) \subseteq Ids(s \o t)
  BY <1>2, <1>3 DEF Ids
<1>8. Ids(s \o t) \subseteq Ids(s) \union Ids(t)
  BY <1>5 DEF Ids
<1> QED
  BY <1>6, <1>7, <1>8

\* a text in two parts
LEMMA Joined ==
    ASSUME NEW s \in Seq(Unit), NEW t \in Seq(Unit)
    PROVE  /\ s \o t \in Seq(Unit)
           /\ Len(s) \in Nat /\ Len(t) \in Nat
           /\ Len(s \o t) = Len(s) + Len(t)
           /\ \A i \in 1..Len(s) : (s \o t)[i] = s[i]
           /\ \A i \in 1..Len(t) : (s \o t)[Len(s) + i] = t[i]
           /\ Ids(s \o t) = Ids(s) \union Ids(t)
           /\ s \o <<>> = s /\ <<>> \o s = s
<1>1. /\ s \o t \in Seq(Unit) /\ Len(s \o t) = Len(s) + Len(t)
      /\ \A i \in 1 .. Len(s) + Len(t) : (s \o t)[i] =
                     IF i <= Len(s) THEN s[i] ELSE t[i - Len(s)]
  BY ConcatProperties
<1>2. Len(s) \in Nat /\ Len(t) \in Nat
  OBVIOUS
<1>3. \A i \in 1..Len(s) : (s \o t)[i] = s[i]
  BY <1>1, <1>2
<1>4. \A i \in 1..Len(t) : (s \o t)[Len(s) + i] = t[i]
  BY <1>1, <1>2
<1>5. Ids(s \o t) = Ids(s) \union Ids(t)
  BY IdsOfConcat
<1>6. s \o <<>> = s /\ <<>> \o s = s
  BY ConcatEmptySeq
<1> QED
  BY <1>1, <1>2, <1>3, <1>4, <1>5, <1>6

\* a text in three parts
LEMMA JoinedThrice ==
    ASSUME NEW s \in Seq(Unit), NEW t \in Seq(Unit), NEW u \in Seq(Unit)
    PROVE  (s \o t) \o u = s \o (t \o u)
BY ConcatAssociative

\* the units of a line
LEMMA UnitsOfLine ==
    ASSUME NEW line \in LineItem
    PROVE  /\ Units(line) \in Seq(Unit) /\ Len(Units(line)) = line.size
           /\ DOMAIN Units(line) = 1..line.size
           /\ Units(line) # <<>>
           /\ \A i \in 1..line.size :
                Units(line)[i] = [id |-> line.id, part |-> i, last |-> i = line.size]
           /\ Ids(Units(line)) = {line.id}
<1>1. line.size \in Nat \ {0} /\ line.id \in Int
  BY DEF LineItem
<1>2. \A i \in 1..line.size : [id |-> line.id, part |-> i, last |-> i = line.size] \in Unit
  BY <1>1 DEF Unit
<1>3. Units(line) \in Seq(Unit) /\ Len(Units(line)) = line.size /\ DOMAIN Units(line) = 1..line.size
  BY <1>1, <1>2 DEF Units
<1>4. \A i \in 1..line.size : Units(line)[i] = [id |-> line.id, part |-> i, last |-> i = line.size]
  BY <1>1 DEF Units
<1>5. Ids(Units(line)) = {line.id}
  <2>1. ASSUME NEW i \in 1..line.size PROVE Units(line)[i].id = line.id
    <3>1. Units(line)[i] = [id |-> line.id, part |-> i, last |-> i = line.size]
      BY <1>4
    <3> HIDE DEF Units
    <3> QED BY <3>1
  <2>2. 1 \in DOMAIN Units(line)
    BY <1>1, <1>3
  <2> QED BY <1>3, <2>1, <2>2 DEF Ids
<1> QED
  BY <1>1, <1>3, <1>4, <1>5

-----------------------------------------------------------------------------
\* the constants
LEMMA Numbers ==
    /\ MaxBytes \in Nat \ {0} /\ MaxFiles \in Nat \ {0} /\ MarkerSize \in Nat \ {0}
    /\ MaxSegment \in Nat
    /\ DOMAIN LineSizes \subseteq {"sync", "async"}
    /\ \A m \in DOMAIN LineSizes : LineSizes[m] \subseteq Nat \ {0} /\ MaxLines[m] \in Nat
BY LogAssumption

\* the initial state
LEMMA InitTypes == LogInit => Types /\ Files
<1> SUFFICES ASSUME LogInit PROVE Types /\ Files
  OBVIOUS
<1> USE Numbers DEF LogInit
<1>1. disk \in [DOMAIN disk -> Seq(Unit)] /\ DOMAIN disk = {}
  OBVIOUS
<1>2. wrote \in [Segments -> Seq(Unit)] /\ \A k \in Segments : wrote[k] = <<>>
  OBVIOUS
<1>3. w \in Writer
  BY DEF Writer, NewWriter, Segments, None
<1>4. stream \in [segment : Segments, inflight : Seq(Unit), buffer : Seq(Unit)]
  BY DEF Idle, Segments
<1>5. emitted \in 0..MaxLines[mode]
  OBVIOUS
<1>8. todo \in Seq(LineItem \union {Flush})
  OBVIOUS
<1>9. /\ mode \in DOMAIN LineSizes /\ DOMAIN disk \subseteq Segments
      /\ retiring \in BOOLEAN /\ phase \in {"running", "ended", "closed"}
      /\ faults \subseteq {"open", "unlink", "write", "crash"}
  BY <1>1
<1>6. Types
  BY ONLY <1>1, <1>2, <1>3, <1>4, <1>5, <1>8, <1>9 DEF Types
<1>7. Files
  BY <1>1, <1>2 DEF Files, NewWriter, Idle, Busy
<1> QED
  BY <1>6, <1>7

\* what the first open() finds
LEMMA DiscoveredSegments ==
    ASSUME Types
    PROVE  /\ Discovered \in Writer
           /\ Discovered.discovered
           /\ \A j \in DOMAIN disk : ~w.discovered => j <= Discovered.live
           /\ w.discovered => Discovered = w
           /\ ~w.discovered =>
                /\ Discovered.live \in Discovered.index
                /\ \A j \in Discovered.index : j <= Discovered.live
                /\ DOMAIN disk # {} => Discovered.index = DOMAIN disk
                /\ DOMAIN disk = {} => Discovered.index = {0} /\ Discovered.live = 0
           /\ Discovered.usable = w.usable /\ Discovered.opened = w.opened
           /\ Discovered.sealing = w.sealing /\ Discovered.pending = w.pending
           /\ Discovered.rotated = w.rotated /\ Discovered.bytes = w.bytes
<1> DEFINE found == IF DOMAIN disk = {} THEN {0} ELSE DOMAIN disk
<1>1. found \in SUBSET Segments /\ found # {}
  <2>1. 0 \in Segments /\ DOMAIN disk \subseteq Segments
    BY Numbers DEF Types, Segments
  <2> QED BY <2>1
<1>2. Max(found) \in found /\ \A y \in found : y <= Max(found)
  <2> HIDE DEF found
  <2> QED BY <1>1, MaxMin
<1>3. CASE w.discovered
  BY <1>3 DEF Discovered, Types
<1>4. CASE ~w.discovered
  <2>1. Discovered = [w EXCEPT !.discovered = TRUE, !.live = Max(found), !.index = found]
    BY <1>4 DEF Discovered
  <2>2. Max(found) \in Segments /\ found \in SUBSET Segments
    BY <1>1, <1>2
  <2>3. w \in Writer
    BY DEF Types
  <2>4. /\ Discovered \in Writer
        /\ Discovered.discovered
        /\ Discovered.live = Max(found) /\ Discovered.index = found
        /\ Discovered.usable = w.usable /\ Discovered.opened = w.opened
        /\ Discovered.sealing = w.sealing /\ Discovered.pending = w.pending
        /\ Discovered.rotated = w.rotated /\ Discovered.bytes = w.bytes
    <3> HIDE DEF found
    <3> QED BY <2>1, <2>2, <2>3 DEF Writer
  <2>5. DOMAIN disk # {} => found = DOMAIN disk
    OBVIOUS
  <2>6. DOMAIN disk = {} => found = {0} /\ Max(found) = 0
    <3>1. DOMAIN disk = {} => found = {0}
      OBVIOUS
    <3> HIDE DEF found
    <3> QED BY <3>1, <1>2
  <2>7. \A j \in DOMAIN disk : j \in found
    OBVIOUS
  <2> HIDE DEF found
  <2> QED
    BY <1>2, <1>4, <2>4, <2>5, <2>6, <2>7
<1> QED
  BY <1>3, <1>4

\* the next thing the turn has to do
LEMMA HeadOfTurn ==
    ASSUME Types, todo # <<>>
    PROVE  /\ Head(todo) \in LineItem \union {Flush} /\ Head(todo) = todo[1]
           /\ Tail(todo) \in Seq(LineItem \union {Flush})
           /\ Len(Tail(todo)) = Len(todo) - 1
           /\ \A i \in 1..Len(todo) - 1 : Tail(todo)[i] = todo[i + 1]
           /\ Head(todo).op = "append" => Head(todo) \in LineItem
<1>1. todo \in Seq(LineItem \union {Flush})
  BY DEF Types
<1>2. /\ Head(todo) \in LineItem \union {Flush}
      /\ Tail(todo) \in Seq(LineItem \union {Flush})
      /\ Len(Tail(todo)) = Len(todo) - 1
      /\ \A i \in 1..Len(todo) - 1 : Tail(todo)[i] = todo[i + 1]
      /\ Head(todo) = todo[1]
  BY <1>1, HeadTailProperties, LenProperties
<1> QED
  BY <1>2 DEF Flush

\* a line of an event or a marker
LEMMA LineTypes ==
    ASSUME NEW id \in Int, NEW s \in Nat \ {0}
    PROVE  Line(id, s) \in LineItem
BY DEF Line, LineItem

\* the writer behind a roll
LEMMA AdvancedTypes ==
    ASSUME Types, w.live < MaxSegment
    PROVE  /\ Advanced(w) \in Writer
           /\ Advanced(w).live = w.live + 1 /\ Advanced(w).index = w.index \union {w.live + 1}
           /\ Advanced(w).rotated = w.live /\ Advanced(w).bytes = 0
           /\ Advanced(w).usable = w.usable /\ Advanced(w).opened = w.opened
           /\ Advanced(w).sealing = w.sealing /\ Advanced(w).pending = w.pending
           /\ Advanced(w).discovered = w.discovered
<1>1. w \in Writer
  BY DEF Types
<1>2. w.live + 1 \in Segments /\ w.live \in Segments /\ w.index \union {w.live + 1} \in SUBSET Segments
  BY <1>1, Numbers DEF Writer, Segments
<1> QED
  BY <1>1, <1>2 DEF Advanced, Writer

\* every step of the writer keeps the types,
LEMMA TypesStep ==
    ASSUME Types, Files, LogNext
    PROVE  Types'
<1> USE Numbers
<1>0. /\ mode \in DOMAIN LineSizes
      /\ DOMAIN disk \subseteq Segments /\ disk \in [DOMAIN disk -> Seq(Unit)]
      /\ wrote \in [Segments -> Seq(Unit)]
      /\ w \in Writer
      /\ stream \in [segment : Segments, inflight : Seq(Unit), buffer : Seq(Unit)]
      /\ todo \in Seq(LineItem \union {Flush})
      /\ retiring \in BOOLEAN
      /\ emitted \in 0..MaxLines[mode]
      /\ phase \in {"running", "ended", "closed"}
      /\ faults \subseteq {"open", "unlink", "write", "crash"}
  BY DEF Types
<1>a. /\ stream.inflight \in Seq(Unit) /\ stream.buffer \in Seq(Unit)
      /\ w.pending \in Seq(LineItem) /\ w.live \in Segments /\ w.bytes \in Nat
      /\ <<>> \in Seq(Unit)
  BY <1>0 DEF Writer
<1>b. \A kind \in {"open", "unlink", "write", "crash"} :
        Fault(kind) => faults' \subseteq {"open", "unlink", "write", "crash"}
  BY <1>0 DEF Fault
<1>c. \A q \in Seq(LineItem), u, o, e \in BOOLEAN, n \in Nat :
        [w EXCEPT !.pending = q] \in Writer /\ [w EXCEPT !.bytes = n] \in Writer
        /\ [w EXCEPT !.opened = o, !.sealing = e, !.pending = q] \in Writer
  BY <1>0 DEF Writer
<1>1. ASSUME NEW s \in LineSizes[mode], NEW end \in BOOLEAN, Emit(s, end) PROVE Types'
  <2>1. emitted' \in 0..MaxLines[mode] /\ emitted' = emitted + 1
    BY <1>0, <1>1 DEF Emit
  <2>2. Line(emitted + 1, s) \in LineItem
    <3>1. emitted + 1 \in Int /\ s \in Nat \ {0}
      BY <1>0, <1>1
    <3> QED BY <3>1, LineTypes
  <2>3. todo' \in Seq(LineItem \union {Flush})
    <3>1. CASE end
      BY <1>1, <2>2, <3>1 DEF Emit
    <3>2. CASE ~end
      BY <1>1, <2>2, <3>2 DEF Emit
    <3> QED BY <3>1, <3>2
  <2>4. phase' \in {"running", "ended", "closed"}
    BY <1>0, <1>1 DEF Emit
  <2> QED
    BY <1>0, <1>1, <2>1, <2>3, <2>4 DEF Emit, Types
<1>2. CASE HoldOrDrop
  <2>1. Tail(todo) \in Seq(LineItem \union {Flush}) /\ Head(todo) \in LineItem
    BY <1>2, HeadOfTurn DEF HoldOrDrop, Appending
  <2>2. w' \in Writer
    <3>1. Append(w.pending, Head(todo)) \in Seq(LineItem)
      BY <1>a, <2>1
    <3> QED BY <1>0, <1>2, <1>c, <3>1 DEF HoldOrDrop
  <2> QED
    BY <1>0, <1>2, <2>1, <2>2 DEF HoldOrDrop, Types
<1>3. CASE Open
  <2> DEFINE k == Discovered.live
             content == IF k \in DOMAIN disk THEN disk[k] ELSE <<>>
  <2>1. k \in Segments /\ Discovered \in Writer
    BY DiscoveredSegments DEF Writer
  <2>2. content \in Seq(Unit) /\ Len(content) \in Nat
    BY <1>0
  <2>3. DOMAIN disk' \subseteq Segments /\ disk' \in [DOMAIN disk' -> Seq(Unit)]
    <3>1. disk' = [j \in DOMAIN disk \union {k} |-> IF j = k THEN content ELSE disk[j]]
      BY <1>3 DEF Open
    <3> HIDE DEF content, k
    <3> QED BY <1>0, <2>1, <2>2, <3>1
  <2>4. w' \in Writer
    <3>1. w' = [Discovered EXCEPT !.opened = TRUE, !.bytes = Len(content)]
      BY <1>3 DEF Open
    <3> HIDE DEF content, k
    <3> QED BY <2>1, <2>2, <3>1 DEF Writer
  <2>5. stream' \in [segment : Segments, inflight : Seq(Unit), buffer : Seq(Unit)]
    <3>1. stream' = [Idle EXCEPT !.segment = k]
      BY <1>3 DEF Open
    <3> HIDE DEF k
    <3> QED BY <1>a, <2>1, <3>1 DEF Idle
  <2> QED
    BY <1>0, <1>3, <2>3, <2>4, <2>5 DEF Open, Types
<1>4. CASE OpenFails
  <2>1. w' \in Writer
    BY <1>4, DiscoveredSegments DEF OpenFails, Disabled, Writer
  <2> QED
    BY <1>0, <1>4, <2>1 DEF OpenFails, Fault, Types
<1>5. CASE Retire
  <2>1. w' \in Writer
    BY <1>0, <1>5 DEF Retire, Writer
  <2>2. DOMAIN disk' \subseteq Segments /\ disk' \in [DOMAIN disk' -> Seq(Unit)]
    <3>1. CASE UNCHANGED disk
      BY <1>0, <3>1
    <3>2. CASE disk' = Restrict(disk, DOMAIN disk \ {Min(w.index)})
      BY <1>0, <3>2 DEF Restrict
    <3> QED BY <1>5, <3>1, <3>2 DEF Retire
  <2>3. faults' \subseteq {"open", "unlink", "write", "crash"}
    BY <1>0, <1>5 DEF Retire, Fault
  <2> QED
    BY <1>0, <1>5, <2>1, <2>2, <2>3 DEF Retire, Types
<1>6. CASE Opened
  <2>1. Marker(w.live) \in LineItem
    <3>1. -w.live \in Int
      BY <1>a DEF Segments
    <3> QED BY <3>1, LineTypes DEF Marker
  <2>2. todo' \in Seq(LineItem \union {Flush})
    <3>1. <<Marker(w.live)>> \o todo \in Seq(LineItem \union {Flush})
      BY <1>0, <2>1, ConcatProperties
    <3> QED BY <1>0, <1>6, <3>1 DEF Opened
  <2>3. w' \in Writer
    BY <1>0, <1>6 DEF Opened, Writer
  <2> QED
    BY <1>0, <1>6, <2>2, <2>3 DEF Opened, Types
<1>7. CASE Seal
  <2>1. Tail(todo) \in Seq(LineItem \union {Flush}) /\ Head(todo) \in LineItem
        /\ Head(todo) = todo[1] /\ todo # <<>>
    BY <1>7, HeadOfTurn DEF Seal, Appending
  <2>2. CASE mode = "sync"
    <3>1. w' \in Writer
      BY <1>0, <1>7, <2>2, AdvancedTypes DEF Seal, Writer
    <3>2. todo' \in Seq(LineItem \union {Flush})
      <4>1. [todo[1] EXCEPT !.checked = TRUE] \in LineItem
        BY <2>1 DEF LineItem
      <4>2. todo' = [todo EXCEPT ![1] = [todo[1] EXCEPT !.checked = TRUE]]
        BY <1>7, <2>2 DEF Seal
      <4>3. 1 \in 1..Len(todo)
        BY <1>0, <2>1
      <4> QED BY <1>0, <4>1, <4>2, <4>3, ExceptSeq
    <3> QED
      BY <1>0, <1>7, <3>1, <3>2 DEF Seal, Types
  <2>3. CASE mode # "sync"
    <3>1. w' \in Writer
      <4>1. Append(w.pending, Head(todo)) \in Seq(LineItem)
        BY <1>a, <2>1
      <4> QED BY <1>7, <2>3, <1>c, <4>1 DEF Seal
    <3> QED
      BY <1>0, <1>7, <2>1, <2>3, <3>1 DEF Seal, Types
  <2> QED BY <2>2, <2>3
<1>8. CASE Write
  <2>1. Tail(todo) \in Seq(LineItem \union {Flush}) /\ Head(todo) \in LineItem
    BY <1>8, HeadOfTurn DEF Write, Appending
  <2>2. Units(Head(todo)) \in Seq(Unit)
    BY <2>1, UnitsOfLine
  <2>3. stream' \in [segment : Segments, inflight : Seq(Unit), buffer : Seq(Unit)]
    <3> DEFINE units == Units(Head(todo))
    <3>1. stream' = IF mode = "sync" THEN [stream EXCEPT !.inflight = units]
                     ELSE [stream EXCEPT !.buffer = @ \o units]
      BY <1>8 DEF Write
    <3> HIDE DEF units
    <3>2. units \in Seq(Unit) /\ stream.buffer \o units \in Seq(Unit)
      BY <1>a, <2>2, ConcatProperties DEF units
    <3> QED BY <1>0, <3>1, <3>2
  <2>4. w' \in Writer
    <3>1. w.bytes + Head(todo).size \in Nat
      BY <1>a, <2>1 DEF LineItem
    <3>2. w' = [w EXCEPT !.bytes = w.bytes + Head(todo).size]
      BY <1>8 DEF Write
    <3> QED BY <1>0, <3>1, <3>2 DEF Writer
  <2> QED
    BY <1>0, <1>8, <2>1, <2>3, <2>4 DEF Write, Types
<1>9. CASE FlushSync
  <2>1. Tail(todo) \in Seq(LineItem \union {Flush})
    BY <1>9, HeadOfTurn DEF FlushSync
  <2>2. stream' \in [segment : Segments, inflight : Seq(Unit), buffer : Seq(Unit)]
    <3>4. /\ stream.inflight \o stream.buffer \in Seq(Unit)
          /\ stream.buffer \o stream.inflight \in Seq(Unit)
      BY <1>a, ConcatProperties
    <3>1. CASE UNCHANGED stream
      BY <1>0, <3>1
    <3>2. CASE stream' = [stream EXCEPT !.inflight = @ \o stream.buffer, !.buffer = <<>>]
      BY <1>0, <1>a, <3>2, <3>4
    <3>3. CASE stream' = [stream EXCEPT !.inflight = stream.buffer \o @, !.buffer = <<>>]
      BY <1>0, <1>a, <3>3, <3>4
    <3> QED BY <1>9, <3>1, <3>2, <3>3 DEF FlushSync
  <2> QED
    BY <1>0, <1>9, <2>1, <2>2 DEF FlushSync, Types
<1>10. CASE StartWrite
  BY <1>0, <1>10 DEF StartWrite, Types
<1>11. CASE Deposit
  <2>1. stream.inflight \in Seq(Unit) /\ stream.inflight # <<>> /\ stream.segment \in Segments
    BY <1>0, <1>11 DEF Deposit
  <2>2. Head(stream.inflight) \in Unit /\ Tail(stream.inflight) \in Seq(Unit)
    BY <2>1
  <2>3. wrote' \in [Segments -> Seq(Unit)]
    BY <1>0, <1>11, <2>1, <2>2 DEF Deposit
  <2>4. DOMAIN disk' \subseteq Segments /\ disk' \in [DOMAIN disk' -> Seq(Unit)]
    BY <1>0, <1>11, <2>1, <2>2 DEF Deposit
  <2> QED
    BY <1>0, <1>11, <2>2, <2>3, <2>4 DEF Deposit, Types
<1>12. CASE WriteFails
  <2>1. w' \in Writer
    BY <1>0, <1>12 DEF WriteFails, Disabled, Writer
  <2> QED
    <3>1. stream' \in [segment : Segments, inflight : Seq(Unit), buffer : Seq(Unit)]
      BY <1>0, <1>a, <1>12 DEF WriteFails
    <3> QED BY <1>0, <1>12, <1>b, <2>1, <3>1 DEF WriteFails, Types
<1>13. CASE SealDone
  <2>1. w.live < MaxSegment
    BY <1>13 DEF SealDone, Files
  <2>2. w' \in Writer
    <3>1. Advanced(w) \in Writer /\ <<>> \in Seq(LineItem)
      BY <2>1, AdvancedTypes
    <3>2. w' = [Advanced(w) EXCEPT !.sealing = FALSE, !.pending = <<>>]
      BY <1>13 DEF SealDone
    <3> QED BY <3>1, <3>2 DEF Writer
  <2>3. todo' \in Seq(LineItem \union {Flush})
    BY <1>0, <1>13, SeqMonotonic DEF SealDone, Writer
  <2> QED
    BY <1>0, <1>13, <2>2, <2>3 DEF SealDone, Types
<1>14. CASE CloseLog
  <2>1. w' \in Writer
    BY <1>0, <1>14 DEF CloseLog, Disabled, Writer
  <2> QED
    BY <1>0, <1>14, <2>1 DEF CloseLog, Types
<1>15. CASE CrashAndRestart
  <2>1. w' \in Writer
    BY <1>15 DEF CrashAndRestart, NewWriter, Writer, Segments, None
  <2>2. stream' \in [segment : Segments, inflight : Seq(Unit), buffer : Seq(Unit)]
    BY <1>15 DEF CrashAndRestart, Idle, Segments
  <2> QED
    <3>1. todo' \in Seq(LineItem \union {Flush})
      BY <1>15 DEF CrashAndRestart
    <3> QED BY <1>0, <1>15, <1>b, <2>1, <2>2, <3>1 DEF CrashAndRestart, Types
<1> QED
  BY <1>1, <1>2, <1>3, <1>4, <1>5, <1>6, <1>7, <1>8, <1>9, <1>10, <1>11, <1>12, <1>13, <1>14,
     <1>15 DEF LogNext

\* what its files hold,
LEMMA FilesStep ==
    ASSUME Types, Files, LogNext
    PROVE  Files'
<1> USE Numbers
<1>0. /\ mode \in {"sync", "async"}
      /\ DOMAIN disk \subseteq Segments /\ disk \in [DOMAIN disk -> Seq(Unit)]
      /\ wrote \in [Segments -> Seq(Unit)]
      /\ w \in Writer
      /\ stream \in [segment : Segments, inflight : Seq(Unit), buffer : Seq(Unit)]
      /\ \A k \in Segments : k \in Nat
  BY DEF Types, Segments
<1>1. ASSUME NEW s \in LineSizes[mode], NEW end \in BOOLEAN, Emit(s, end) PROVE Files'
  BY <1>1 DEF Emit, Files, Busy
<1>2. CASE HoldOrDrop
  <2>1. w \in Writer
    BY <1>0
  <2>2. /\ w'.discovered = w.discovered /\ w'.live = w.live /\ w'.index = w.index
        /\ w'.opened = w.opened /\ w'.sealing = w.sealing /\ w'.usable = w.usable
    BY <1>2, <2>1 DEF HoldOrDrop, Writer
  <2> QED
    BY <1>2, <2>2 DEF HoldOrDrop, Files, Busy
<1>3. CASE Open
  <2> DEFINE k == Discovered.live
             content == IF k \in DOMAIN disk THEN disk[k] ELSE <<>>
  <2>1. k \in Segments /\ Discovered \in Writer
    BY DiscoveredSegments DEF Writer
  <2>2. w.usable /\ ~w.sealing /\ ~w.opened
    BY <1>3 DEF Open, MustOpen
  <2>3. disk' = [j \in DOMAIN disk \union {k} |-> IF j = k THEN content ELSE disk[j]]
        /\ w' = [Discovered EXCEPT !.opened = TRUE, !.bytes = Len(content)]
        /\ stream' = [Idle EXCEPT !.segment = k]
        /\ retiring' /\ mode' = mode /\ wrote' = wrote
    BY <1>3 DEF Open
  <2>4. /\ w'.opened /\ w'.live = k /\ w'.index = Discovered.index /\ w'.discovered
        /\ w'.usable /\ ~w'.sealing
    BY <2>1, <2>2, <2>3, DiscoveredSegments DEF Writer
  <2>5. stream'.segment = k /\ stream'.inflight = <<>> /\ stream'.buffer = <<>>
    BY <2>3 DEF Idle
  <2>6. DOMAIN disk' = DOMAIN disk \union {k}
    BY <2>3
  <2>7. k \notin DOMAIN disk => wrote[k] = <<>>
    BY <1>0, <2>1, DiscoveredSegments DEF Files
  <2>8. \A j \in DOMAIN disk' : disk'[j] = wrote'[j]
    <3>1. \A j \in DOMAIN disk : j # k => disk'[j] = disk[j]
      BY <2>3
    <3>2. disk'[k] = content
      BY <2>3
    <3> QED BY <2>3, <2>6, <2>7, <3>1, <3>2 DEF Files
  <2>9. /\ \A j \in DOMAIN disk' : j <= k
        /\ k \in w'.index /\ \A j \in w'.index : j <= k
    BY <2>1, <1>0, <2>4, <2>6, DiscoveredSegments DEF Files
  <2>10. \A j \in Segments : wrote'[j] # <<>> => \E i \in DOMAIN disk' : i >= j
    BY <2>3, <2>6 DEF Files
  <2> HIDE DEF k, content
  <2> QED
    BY <2>3, <2>4, <2>5, <2>6, <2>8, <2>9, <2>10 DEF Files, Busy
<1>4. CASE OpenFails
  <2>1. ~w.sealing /\ ~w.opened
    BY <1>4 DEF OpenFails, MustOpen
  <2>2. /\ w'.discovered /\ w'.live = Discovered.live /\ w'.index = Discovered.index
        /\ ~w'.opened /\ ~w'.sealing
    BY <1>4, <2>1, DiscoveredSegments DEF OpenFails, Disabled, Writer
  <2>3. /\ \A j \in DOMAIN disk : j <= Discovered.live
        /\ Discovered.live \in Discovered.index
        /\ \A j \in Discovered.index : j <= Discovered.live
    BY <1>0, DiscoveredSegments DEF Files
  <2> QED
    BY <1>4, <2>1, <2>2, <2>3 DEF OpenFails, Files, Busy
<1>5. CASE Retire
  <2>1. w.opened /\ w.index \in SUBSET Segments /\ w.index # {} /\ w.live \in w.index
        /\ Min(w.index) # w.live
    BY <1>0, <1>5 DEF Retire, Files, Writer, MustRetire
  <2>2. /\ w'.discovered = w.discovered /\ w'.live = w.live /\ w'.index = w.index \ {Min(w.index)}
        /\ w'.opened = w.opened /\ w'.sealing = w.sealing /\ w'.usable = w.usable
    BY <1>0, <1>5 DEF Retire, Writer
  <2>3. \/ disk' = disk
        \/ disk' = [x \in DOMAIN disk \ {Min(w.index)} |-> disk[x]]
    BY <1>5 DEF Retire, Restrict
  <2>4. /\ DOMAIN disk' \subseteq DOMAIN disk
        /\ \A j \in DOMAIN disk' : disk'[j] = disk[j]
        /\ w.live \in DOMAIN disk'
    BY <2>1, <2>3 DEF Files
  <2>5. \A j \in Segments : wrote'[j] # <<>> => \E i \in DOMAIN disk' : i >= j
    BY <1>0, <1>5, <2>1, <2>4 DEF Files, Retire
  <2> QED
    BY <1>5, <2>1, <2>2, <2>4, <2>5 DEF Retire, Files, Busy
<1>6. CASE Opened
  <2>2. /\ w'.discovered = w.discovered /\ w'.live = w.live /\ w'.index = w.index
        /\ w'.opened = w.opened /\ w'.sealing = w.sealing /\ w'.usable = w.usable
    BY <1>0, <1>6 DEF Opened, Writer
  <2> QED
    BY <1>6, <2>2 DEF Opened, Files, Busy
<1>7. CASE Seal
  <2>1. w.opened /\ w.live < MaxSegment /\ ThreadFree /\ ~retiring /\ w.discovered
    BY <1>7 DEF Seal, Appending, Files
  <2>2. CASE mode = "sync"
    <3>1. /\ w'.discovered /\ w'.live = w.live + 1 /\ w'.index = w.index \union {w.live + 1}
          /\ ~w'.opened /\ w'.sealing = w.sealing
      BY <1>7, <2>1, <2>2, AdvancedTypes DEF Seal, Writer
    <3>2. stream.inflight = <<>> /\ stream.buffer = <<>>
      BY <2>1, <2>2 DEF ThreadFree, Files
    <3>3. w.live \in Segments /\ w.index \subseteq Segments
      BY <1>0 DEF Writer
    <3> QED
      BY <1>0, <1>7, <2>1, <2>2, <3>1, <3>2, <3>3 DEF Seal, Files, Busy
  <2>3. CASE mode # "sync"
    <3>1. /\ w'.discovered = w.discovered /\ w'.live = w.live /\ w'.index = w.index
          /\ ~w'.opened /\ w'.sealing
      BY <1>0, <1>7, <2>1, <2>3 DEF Seal, Writer
    <3> QED
      BY <1>7, <2>1, <2>3, <3>1 DEF Seal, Files, Busy
  <2> QED BY <2>2, <2>3
<1>8. CASE Write
  <2>2. /\ w'.discovered = w.discovered /\ w'.live = w.live /\ w'.index = w.index
        /\ w'.opened = w.opened /\ w'.sealing = w.sealing /\ w'.usable = w.usable
    BY <1>0, <1>8 DEF Write, Writer
  <2>3. stream'.segment = stream.segment /\ (mode = "sync" => stream'.buffer = stream.buffer)
    BY <1>0, <1>8 DEF Write
  <2> QED
    BY <1>8, <2>2, <2>3 DEF Write, Appending, Files, Busy
<1>9. CASE FlushSync
  <2>1. /\ stream'.segment = stream.segment
        /\ mode = "sync" => stream'.buffer = <<>>
        /\ stream' # stream => w.opened
    BY <1>0, <1>9 DEF FlushSync, Files
  <2> QED
    BY <1>9, <2>1 DEF FlushSync, Files, Busy
<1>10. CASE StartWrite
  <2>1. stream'.segment = stream.segment /\ stream'.buffer = <<>>
    BY <1>0, <1>10 DEF StartWrite
  <2> QED
    BY <1>10, <2>1 DEF StartWrite, Files, Busy
<1>11. CASE Deposit
  <2> DEFINE k == stream.segment
             u == Head(stream.inflight)
  <2>1. k \in DOMAIN disk /\ Busy
    BY <1>11 DEF Deposit, Files, Busy
  <2>2. disk' = [disk EXCEPT ![k] = Append(@, u)] /\ wrote' = [wrote EXCEPT ![k] = Append(@, u)]
    BY <1>11, <2>1 DEF Deposit
  <2>3. DOMAIN disk' = DOMAIN disk /\ \A j \in DOMAIN disk : disk'[j] = wrote'[j]
    <3> HIDE DEF u, k
    <3> QED BY <1>0, <2>1, <2>2 DEF Files
  <2>4. \A j \in Segments : wrote'[j] # <<>> => \E i \in DOMAIN disk' : i >= j
    <3>1. \A j \in Segments : j # k => wrote'[j] = wrote[j]
      BY <1>0, <2>2
    <3> QED BY <1>0, <2>1, <2>3, <3>1 DEF Files
  <2>5. stream'.segment = stream.segment /\ stream'.buffer = stream.buffer
    BY <1>0, <1>11 DEF Deposit
  <2> QED
    BY <1>11, <2>1, <2>3, <2>4, <2>5 DEF Deposit, Files, Busy
<1>12. CASE WriteFails
  <2>1. stream'.segment = stream.segment /\ stream'.buffer = <<>> /\ stream'.inflight = <<>>
    BY <1>0, <1>12 DEF WriteFails
  <2>2. /\ w'.discovered = w.discovered /\ w'.live = w.live /\ w'.index = w.index
        /\ ~w'.opened /\ w'.sealing = w.sealing
    BY <1>0, <1>12 DEF WriteFails, Disabled, Writer
  <2> QED
    BY <1>12, <2>1, <2>2 DEF WriteFails, Files, Busy
<1>13. CASE SealDone
  <2>1. w.live < MaxSegment /\ ~w.opened /\ w.discovered /\ ~retiring
    BY <1>13 DEF SealDone, Files, TurnOver
  <2>2. /\ w'.discovered /\ w'.live = w.live + 1 /\ w'.index = w.index \union {w.live + 1}
        /\ ~w'.opened /\ ~w'.sealing
    BY <1>13, <2>1, AdvancedTypes DEF SealDone, Writer
  <2>3. w.live \in Segments /\ w.index \subseteq Segments
    BY <1>0 DEF Writer
  <2> QED
    <3>1. /\ \A j \in DOMAIN disk' : j <= w'.live
          /\ w'.live \in w'.index /\ \A j \in w'.index : j <= w'.live
      <4>1. /\ \A j \in DOMAIN disk : j <= w.live /\ j \in Nat
            /\ \A j \in w.index : j <= w.live /\ j \in Nat
            /\ disk' = disk /\ w.live \in Nat
        BY <1>0, <1>13, <2>1, <2>3 DEF SealDone, Files, Segments
      <4>2. \A j \in Nat : j <= w.live => j <= w.live + 1
        BY <4>1
      <4> QED BY <2>2, <4>1, <4>2
    <3>2. ~Busy' /\ stream' = stream /\ disk' = disk /\ wrote' = wrote /\ mode' = mode
          /\ retiring' = retiring
      BY <1>13 DEF SealDone, Busy
    <3> QED BY <2>1, <2>2, <3>1, <3>2 DEF Files
<1>14. CASE CloseLog
  <2>2. /\ w'.discovered = w.discovered /\ w'.live = w.live /\ w'.index = w.index
        /\ ~w'.opened /\ ~w'.sealing
    BY <1>0, <1>14 DEF CloseLog, Disabled, Writer
  <2> QED
    BY <1>14, <2>2 DEF CloseLog, TurnOver, Files, Busy
<1>15. CASE CrashAndRestart
  BY <1>15 DEF CrashAndRestart, NewWriter, Idle, Files, Busy
<1> QED
  BY <1>1, <1>2, <1>3, <1>4, <1>5, <1>6, <1>7, <1>8, <1>9, <1>10, <1>11, <1>12, <1>13, <1>14,
     <1>15 DEF LogNext

\* the segments with a successor, before and after the writer's step
LEMMA SegmentsStep ==
    ASSUME Types, Files, LogNext
    PROVE  /\ Sealed \subseteq Sealed'
           /\ \A k \in Sealed : wrote'[k] = wrote[k] /\ (k \in DOMAIN disk' => k \in DOMAIN disk)
           /\ \A k \in Segments :
                \/ wrote'[k] = wrote[k]
                \/ /\ k = stream.segment /\ stream.inflight # <<>>
                   /\ wrote'[k] = Append(wrote[k], Head(stream.inflight))
<1> USE Numbers
<1>0. /\ DOMAIN disk \subseteq Segments /\ disk \in [DOMAIN disk -> Seq(Unit)]
      /\ wrote \in [Segments -> Seq(Unit)]
      /\ w \in Writer
      /\ \A k \in Segments : k \in Nat
  BY DEF Types, Segments
<1>1. CASE Open
  <2> DEFINE k == Discovered.live
  <2>1. k \in Segments
    BY DiscoveredSegments DEF Writer
  <2>2. DOMAIN disk' = DOMAIN disk \union {k} /\ wrote' = wrote
    BY <1>1 DEF Open
  <2>3. \A j \in DOMAIN disk : j <= k
    BY DiscoveredSegments DEF Files
  <2> HIDE DEF k
  <2> QED
    BY <1>0, <2>1, <2>2, <2>3 DEF Sealed
<1>2. CASE Retire
  <2>1. w.opened /\ Min(w.index) # w.live /\ w.live \in DOMAIN disk
    BY <1>2 DEF Retire, Files, MustRetire
  <2>2. disk' = disk \/ disk' = [x \in DOMAIN disk \ {Min(w.index)} |-> disk[x]]
    BY <1>2 DEF Retire, Restrict
  <2>3. DOMAIN disk' \subseteq DOMAIN disk /\ w.live \in DOMAIN disk' /\ wrote' = wrote
    BY <1>2, <2>1, <2>2 DEF Retire
  <2>4. \A j \in DOMAIN disk : j <= w.live
    BY <2>1 DEF Files
  <2>5. w.live \in Segments
    BY <1>0 DEF Writer
  <2> QED
    BY <1>0, <2>3, <2>4, <2>5 DEF Sealed
<1>3. CASE Deposit
  <2> DEFINE k == stream.segment
             u == Head(stream.inflight)
  <2>1. /\ k \in DOMAIN disk /\ stream.inflight # <<>>
        /\ \A j \in DOMAIN disk : j <= k
    BY <1>3 DEF Deposit, Files, Busy
  <2>2. disk' = [disk EXCEPT ![k] = Append(@, u)] /\ wrote' = [wrote EXCEPT ![k] = Append(@, u)]
    BY <1>3, <2>1 DEF Deposit
  <2>3. k \notin Sealed
    BY <1>0, <2>1 DEF Sealed
  <2>4. DOMAIN disk' = DOMAIN disk
    BY <2>2
  <2>5. \A j \in Segments : j # k => wrote'[j] = wrote[j]
    BY <1>0, <2>2
  <2>6. wrote'[k] = Append(wrote[k], u)
    BY <1>0, <2>1, <2>2
  <2> HIDE DEF k, u
  <2>7. Sealed' = Sealed /\ \A j \in Sealed : j \in Segments
    BY <2>4 DEF Sealed
  <2> QED
    BY <2>1, <2>3, <2>4, <2>5, <2>6, <2>7 DEF k, u
<1>4. CASE UNCHANGED <<disk, wrote>>
  BY <1>4 DEF Sealed
<1> QED
  BY <1>1, <1>2, <1>3, <1>4 DEF LogNext, Emit, HoldOrDrop, OpenFails, Opened, Seal, Write,
     FlushSync, StartWrite, WriteFails, SealDone, CloseLog, CrashAndRestart

\* and what the index says of them
LEMMA ListingStep ==
    ASSUME Types, Files, Listing, LogNext
    PROVE  Listing'
<1> USE Numbers
<1>0. /\ DOMAIN disk \subseteq Segments /\ disk \in [DOMAIN disk -> Seq(Unit)]
      /\ w \in Writer /\ w.live \in Segments /\ w.index \in SUBSET Segments
      /\ \A k \in Segments : k \in Nat
  BY DEF Types, Segments, Writer
<1>1. CASE Open
  <2> DEFINE k == Discovered.live
             d == Discovered.index
  <2>1. k \in Segments /\ d \in SUBSET Segments /\ Discovered \in Writer
    BY DiscoveredSegments DEF Writer
  <2>2. DOMAIN disk' = DOMAIN disk \union {k} /\ retiring' /\ faults' = faults
    BY <1>1 DEF Open
  <2>3. w'.live = k /\ w'.index = d /\ w'.discovered
    BY <1>1, <2>1, DiscoveredSegments DEF Open, Writer
  <2>4. (d = (DOMAIN disk \union {k}) /\ Contiguous(d)) \/ "unlink" \in faults
    <3>1. CASE w.discovered
      BY <3>1, DiscoveredSegments DEF Listing
    <3>2. CASE ~w.discovered /\ DOMAIN disk # {}
      BY <3>2, DiscoveredSegments DEF Listing
    <3>3. CASE ~w.discovered /\ DOMAIN disk = {}
      <4>1. d = {0} /\ k = 0
        BY <3>3, DiscoveredSegments
      <4>2. Contiguous({0})
        BY <1>0 DEF Contiguous
      <4> QED BY <3>3, <4>1, <4>2
    <3> QED BY <3>1, <3>2, <3>3
  <2>5. \E x \in Segments : DOMAIN disk' \subseteq d \union {x}
    <3>1. CASE w.discovered
      <4>1. Discovered = w
        BY <3>1, DiscoveredSegments
      <4>2. k \in d
        BY <3>1, <4>1 DEF Files
      <4>3. PICK x \in Segments : DOMAIN disk \subseteq w.index \union {x}
        BY <3>1 DEF Listing
      <4>4. DOMAIN disk' \subseteq d \union {x}
        BY <2>2, <4>1, <4>2, <4>3
      <4> QED BY <4>4
    <3>2. CASE ~w.discovered
      BY <2>1, <2>2, <3>2, DiscoveredSegments
    <3> QED BY <3>1, <3>2
  <2> HIDE DEF k, d
  <2>6. "unlink" \notin faults' => Contiguous(DOMAIN disk') /\ w'.index = DOMAIN disk' \union {w'.live}
                                   /\ Contiguous(w'.index)
    <3> HAVE "unlink" \notin faults'
    <3>1. d = DOMAIN disk \union {k} /\ Contiguous(d)
      BY <2>2, <2>4
    <3>2. DOMAIN disk' = d
      BY <2>2, <3>1
    <3> QED BY <2>3, <3>1, <3>2
  <2> QED
    BY <2>2, <2>3, <2>5, <2>6 DEF Listing
<1>2. CASE OpenFails
  <2> DEFINE k == Discovered.live
             d == Discovered.index
  <2>1. k \in Segments /\ d \in SUBSET Segments /\ Discovered \in Writer
    BY DiscoveredSegments DEF Writer
  <2>2. disk' = disk /\ retiring' = retiring /\ faults' = faults \union {"open"}
    BY <1>2 DEF OpenFails, Fault
  <2>3. w'.live = k /\ w'.index = d /\ w'.discovered /\ ~w'.opened
    BY <1>2, <2>1, DiscoveredSegments DEF OpenFails, Disabled, Writer
  <2>4. (d = (DOMAIN disk \union {k}) /\ Contiguous(d)) \/ "unlink" \in faults
    <3>1. CASE w.discovered
      BY <3>1, DiscoveredSegments DEF Listing
    <3>2. CASE ~w.discovered /\ DOMAIN disk # {}
      BY <3>2, DiscoveredSegments DEF Listing
    <3>3. CASE ~w.discovered /\ DOMAIN disk = {}
      <4>1. d = {0} /\ k = 0
        BY <3>3, DiscoveredSegments
      <4>2. Contiguous({0})
        BY <1>0 DEF Contiguous
      <4> QED BY <3>3, <4>1, <4>2
    <3> QED BY <3>1, <3>2, <3>3
  <2>5. \E x \in Segments : DOMAIN disk \subseteq d \union {x}
    <3>1. CASE w.discovered
      BY <3>1, DiscoveredSegments DEF Listing
    <3>2. CASE ~w.discovered
      BY <2>1, <3>2, DiscoveredSegments
    <3> QED BY <3>1, <3>2
  <2> HIDE DEF k, d
  <2> QED
    BY <2>2, <2>3, <2>4, <2>5 DEF Listing
<1>3. CASE Retire
  <2> DEFINE m == Min(w.index)
  <2>1. w.opened /\ m # w.live /\ w.live \in DOMAIN disk /\ w.discovered /\ retiring
        /\ m \in w.index /\ \A j \in w.index : m <= j
    BY <1>0, <1>3, MaxMin DEF Retire, Files, MustRetire
  <2>2. /\ w'.discovered = w.discovered /\ w'.live = w.live /\ w'.index = w.index \ {m}
        /\ retiring'
    BY <1>0, <1>3, <2>1 DEF Retire, Writer
  <2> HIDE DEF m
  <2>3. CASE disk' = Restrict(disk, DOMAIN disk \ {m}) /\ UNCHANGED faults
    <3>1. DOMAIN disk' = DOMAIN disk \ {m}
      BY <2>3 DEF Restrict
    <3>2. PICK x \in Segments : DOMAIN disk \subseteq w.index \union {x}
      BY <2>1 DEF Listing
    <3>3. DOMAIN disk' \subseteq w'.index \union {x}
      BY <2>2, <3>1, <3>2
    <3>4. ASSUME "unlink" \notin faults
          PROVE  Contiguous(DOMAIN disk') /\ w'.index = DOMAIN disk' \union {w'.live}
                 /\ Contiguous(w'.index)
      <4>1. w.index = DOMAIN disk /\ Contiguous(w.index)
        BY <2>1, <3>4 DEF Listing
      <4>2. Contiguous(w.index \ {m})
        <5> SUFFICES ASSUME NEW i \in w.index \ {m}, NEW j \in w.index \ {m}, NEW h \in Segments,
                            i <= h, h <= j
                     PROVE  h \in w.index \ {m}
          BY DEF Contiguous
        <5>1. h \in w.index
          BY <4>1 DEF Contiguous
        <5>2. m < i
          BY <1>0, <2>1
        <5> QED BY <1>0, <2>1, <5>1, <5>2
      <4> QED BY <2>1, <2>2, <3>1, <4>1, <4>2
    <3> QED
      BY <2>2, <2>3, <3>3, <3>4 DEF Listing
  <2>4. CASE Fault("unlink") /\ UNCHANGED disk
    <3>1. "unlink" \notin faults /\ "unlink" \in faults'
      BY <2>4 DEF Fault
    <3>2. DOMAIN disk' \subseteq w'.index \union {m} /\ m \in Segments
      BY <1>0, <2>1, <2>2, <2>4, <3>1 DEF Listing
    <3> QED
      BY <2>2, <3>1, <3>2 DEF Listing
  <2> QED
    BY <1>3, <2>3, <2>4 DEF Retire, m
<1>4. CASE Opened
  <2>1. w'.index = w.index /\ w'.live = w.live /\ w'.discovered = w.discovered /\ ~MustRetire
        /\ disk' = disk /\ faults' = faults
    BY <1>0, <1>4 DEF Opened, Writer
  <2>2. ~MustRetire'
    BY <2>1 DEF MustRetire
  <2> QED
    BY <2>1, <2>2 DEF Listing
<1>5. ASSUME /\ w'.index = w.index \union {w.live + 1} /\ w'.live = w.live + 1
             /\ w'.discovered /\ ~w'.opened /\ w.discovered /\ disk' = disk /\ faults' = faults
             /\ w.live \in DOMAIN disk /\ w.live < MaxSegment
      PROVE  Listing'
  <2>1. PICK x \in Segments : DOMAIN disk \subseteq w.index \union {x}
    BY <1>5 DEF Listing
  <2>2. DOMAIN disk' \subseteq w'.index \union {x}
    BY <1>5, <2>1
  <2>3. ASSUME "unlink" \notin faults
        PROVE  Contiguous(DOMAIN disk') /\ w'.index = DOMAIN disk' \union {w'.live}
               /\ Contiguous(w'.index)
    <3>4. /\ w.index = DOMAIN disk \union {w.live} /\ Contiguous(w.index)
          /\ Contiguous(DOMAIN disk) /\ w.live \in DOMAIN disk
      BY <1>5, <2>3 DEF Listing
    <3>1. w.index = DOMAIN disk /\ Contiguous(w.index) /\ Contiguous(DOMAIN disk)
      BY <3>4
    <3>2. \A j \in w.index : j <= w.live
      BY <1>5 DEF Files
    <3>3. Contiguous(w.index \union {w.live + 1})
      <4> SUFFICES ASSUME NEW i \in w.index \union {w.live + 1},
                          NEW j \in w.index \union {w.live + 1}, NEW h \in Segments,
                          i <= h, h <= j
                   PROVE  h \in w.index \union {w.live + 1}
        BY DEF Contiguous
      <4>1. i \in Nat /\ j \in Nat /\ h \in Nat /\ w.live \in Nat
        BY <1>0
      <4>2. CASE h <= w.live
        <5>1. i \in w.index /\ w.live \in w.index
          BY <1>5, <3>1, <4>1, <4>2
        <5> QED BY <1>0, <3>1, <4>2, <5>1 DEF Contiguous
      <4>3. CASE ~(h <= w.live)
        BY <3>2, <4>1, <4>3
      <4> QED BY <4>2, <4>3
    <3> QED BY <1>5, <3>1, <3>3
  <2> QED
    BY <1>5, <2>2, <2>3 DEF Listing
<1>6. CASE Seal
  <2>1. w.opened /\ w.live < MaxSegment /\ w.live \in DOMAIN disk /\ w.discovered
    BY <1>6 DEF Seal, Files
  <2>2. CASE mode = "sync"
    BY <1>5, <1>6, <2>1, <2>2, AdvancedTypes DEF Seal, Writer
  <2>3. CASE mode # "sync"
    <3>1. /\ w'.discovered = w.discovered /\ w'.live = w.live /\ w'.index = w.index
          /\ ~w'.opened /\ disk' = disk /\ faults' = faults
      BY <1>0, <1>6, <2>1, <2>3 DEF Seal, Writer
    <3> QED
      BY <3>1 DEF Listing
  <2> QED BY <2>2, <2>3
<1>7. CASE SealDone
  <2>1. w.live < MaxSegment /\ ~w.opened /\ w.discovered /\ w.live \in DOMAIN disk
    BY <1>7 DEF SealDone, Files
  <2> QED
    BY <1>5, <1>7, <2>1, AdvancedTypes DEF SealDone, Writer
<1>8. CASE CrashAndRestart
  <2>1. ~w'.discovered /\ ~w'.opened /\ disk' = disk /\ faults' = faults \union {"crash"}
    BY <1>8 DEF CrashAndRestart, NewWriter, Fault
  <2> QED BY <2>1 DEF Listing
<1>9. ASSUME /\ w'.index = w.index /\ w'.live = w.live /\ w'.discovered = w.discovered
             /\ w'.opened => w.opened /\ retiring' = retiring
             /\ disk' = disk \/ DOMAIN disk' = DOMAIN disk
             /\ faults \subseteq faults'
      PROVE  Listing'
  <2>1. MustRetire' = MustRetire
    BY <1>9 DEF MustRetire
  <2>2. DOMAIN disk' = DOMAIN disk
    BY <1>9
  <2> QED BY <1>9, <2>1, <2>2 DEF Listing
<1>10. CASE \E s \in LineSizes[mode], end \in BOOLEAN : Emit(s, end)
  BY <1>9, <1>10 DEF Emit
<1>11. CASE HoldOrDrop
  BY <1>0, <1>9, <1>11 DEF HoldOrDrop, Writer
<1>12. CASE Write
  BY <1>0, <1>9, <1>12 DEF Write, Writer
<1>13. CASE FlushSync
  BY <1>9, <1>13 DEF FlushSync
<1>14. CASE StartWrite
  BY <1>9, <1>14 DEF StartWrite
<1>15. CASE Deposit
  <2>1. DOMAIN disk' = DOMAIN disk
    BY <1>0, <1>15 DEF Deposit
  <2> QED BY <1>9, <1>15, <2>1 DEF Deposit
<1>16. CASE WriteFails
  BY <1>0, <1>9, <1>16 DEF WriteFails, Disabled, Writer, Fault
<1>17. CASE CloseLog
  BY <1>0, <1>9, <1>17 DEF CloseLog, Disabled, Writer
<1> QED
  BY <1>1, <1>2, <1>3, <1>4, <1>6, <1>7, <1>8, <1>10, <1>11, <1>12, <1>13, <1>14, <1>15,
     <1>16, <1>17 DEF LogNext

-----------------------------------------------------------------------------
\* the parts of the live segment's text
LEMMA LiveTextParts ==
    ASSUME Types
    PROVE  /\ LiveText \in Seq(Unit) /\ wrote[w.live] \in Seq(Unit)
           /\ Len(LiveText) =
                Len(wrote[w.live]) + Len(stream.inflight) + Len(stream.buffer)
           /\ Len(wrote[w.live]) <= Len(LiveText)
           /\ \A i \in 1..Len(wrote[w.live]) : LiveText[i] = wrote[w.live][i]
           /\ Ids(LiveText) =
                Ids(wrote[w.live]) \union Ids(stream.inflight) \union Ids(stream.buffer)
           /\ ~Busy => LiveText = wrote[w.live]
<1>1. /\ wrote[w.live] \in Seq(Unit) /\ stream.inflight \in Seq(Unit)
      /\ stream.buffer \in Seq(Unit)
  BY DEF Types, Writer
<1> DEFINE a == wrote[w.live]
           b == stream.inflight
           c == stream.buffer
<1>2. LiveText = (a \o b) \o c
  BY DEF LiveText
<1> HIDE DEF a, b, c
<1>3. a \in Seq(Unit) /\ b \in Seq(Unit) /\ c \in Seq(Unit)
  BY <1>1 DEF a, b, c
<1>4. /\ a \o b \in Seq(Unit) /\ Len(a \o b) = Len(a) + Len(b)
      /\ \A i \in 1..Len(a) : (a \o b)[i] = a[i]
      /\ Ids(a \o b) = Ids(a) \union Ids(b)
      /\ a \o <<>> = a
      /\ Len(a) \in Nat /\ Len(b) \in Nat
  BY <1>3, Joined
<1>5. /\ LiveText \in Seq(Unit) /\ Len(LiveText) = Len(a \o b) + Len(c)
      /\ \A i \in 1..Len(a \o b) : LiveText[i] = (a \o b)[i]
      /\ Ids(LiveText) = Ids(a \o b) \union Ids(c)
      /\ Len(c) \in Nat
  BY <1>2, <1>3, <1>4, Joined
<1>6. ~Busy => LiveText = a
  BY <1>2, <1>4 DEF Busy, b, c
<1>7. \A i \in 1..Len(a) : LiveText[i] = a[i]
  BY <1>4, <1>5
<1>8. Len(LiveText) = Len(a) + Len(b) + Len(c) /\ Len(a) <= Len(LiveText)
  BY <1>4, <1>5
<1>9. Ids(LiveText) = Ids(a) \union Ids(b) \union Ids(c)
  BY <1>4, <1>5
<1> QED
  BY <1>3, <1>5, <1>6, <1>7, <1>8, <1>9 DEF a, b, c

\* what each step does to the live segment's text
LEMMA TextSteps ==
    ASSUME Types, Files, LogNext
    PROVE  /\ Write =>
                /\ w'.live = w.live /\ wrote' = wrote
                /\ LiveText' = LiveText \o Units(Head(todo))
           /\ FlushSync =>
                /\ w' = w /\ wrote' = wrote
                /\ Len(LiveText') = Len(LiveText) /\ Ids(LiveText') = Ids(LiveText)
                /\ mode = "sync" \/ ~w.opened => LiveText' = LiveText
           /\ WriteFails => w'.live = w.live /\ wrote' = wrote /\ LiveText' = wrote[w.live]
           /\ (Seal /\ mode = "sync") \/ SealDone =>
                /\ w.live < MaxSegment /\ w'.live = w.live + 1 /\ wrote' = wrote
                /\ LiveText = wrote[w.live] /\ LiveText' = <<>> /\ wrote[w.live + 1] = <<>>
           /\ Open \/ OpenFails =>
                /\ w'.live = Discovered.live /\ wrote' = wrote
                /\ LiveText = wrote[w.live] /\ LiveText' = wrote[w'.live]
           /\ CrashAndRestart => w'.live = 0 /\ wrote' = wrote /\ LiveText' = wrote[0]
           /\ Deposit =>
                /\ w' = w /\ LiveText' = LiveText /\ stream.segment = w.live
                /\ \A k \in Segments : k # w.live => wrote'[k] = wrote[k]
           /\ \/ Write \/ FlushSync \/ WriteFails \/ Seal \/ SealDone \/ Open \/ OpenFails
              \/ CrashAndRestart \/ Deposit
              \/ w'.live = w.live /\ wrote' = wrote /\ LiveText' = LiveText
           /\ \/ Seal /\ mode # "sync"
              \/ HoldOrDrop \/ Retire \/ Opened \/ StartWrite \/ CloseLog
              => w'.live = w.live /\ wrote' = wrote /\ LiveText' = LiveText
<1> USE Numbers
<1>0. /\ wrote \in [Segments -> Seq(Unit)]
      /\ w \in Writer /\ w.live \in Segments
      /\ stream.inflight \in Seq(Unit) /\ stream.buffer \in Seq(Unit)
      /\ stream \in [segment : Segments, inflight : Seq(Unit), buffer : Seq(Unit)]
      /\ wrote[w.live] \in Seq(Unit) /\ <<>> \in Seq(Unit)
      /\ mode \in {"sync", "async"}
  BY DEF Types, Writer
<1>1. ASSUME Write
      PROVE  /\ w'.live = w.live /\ wrote' = wrote
             /\ LiveText' = LiveText \o Units(Head(todo))
  <2> DEFINE units == Units(Head(todo))
  <2>1. w'.live = w.live /\ wrote' = wrote
    BY <1>0, <1>1 DEF Write, Writer
  <2>2. units \in Seq(Unit)
    BY <1>1, HeadOfTurn, UnitsOfLine DEF Write, Appending
  <2>3. stream' = IF mode = "sync" THEN [stream EXCEPT !.inflight = units]
                  ELSE [stream EXCEPT !.buffer = @ \o units]
    BY <1>1 DEF Write
  <2> HIDE DEF units
  <2>4. CASE mode = "sync"
    <3>1. stream.inflight = <<>> /\ stream.buffer = <<>>
      BY <1>1, <2>4 DEF Write, Appending, ThreadFree, Files
    <3>2. stream'.inflight = units /\ stream'.buffer = <<>>
      BY <1>0, <2>3, <2>4, <3>1
    <3>3. LiveText' = (wrote[w.live] \o units) \o <<>>
      BY <2>1, <3>2 DEF LiveText
    <3>4. LiveText = (wrote[w.live] \o <<>>) \o <<>>
      BY <3>1 DEF LiveText
    <3> QED
      BY <1>0, <2>1, <2>2, <3>3, <3>4, ConcatEmptySeq, ConcatProperties DEF units
  <2>5. CASE mode # "sync"
    <3>1. stream'.inflight = stream.inflight /\ stream'.buffer = stream.buffer \o units
      BY <1>0, <2>3, <2>5
    <3>2. LiveText' = (wrote[w.live] \o stream.inflight) \o (stream.buffer \o units)
      BY <2>1, <3>1 DEF LiveText
    <3>3. wrote[w.live] \o stream.inflight \in Seq(Unit)
      BY <1>0, ConcatProperties
    <3> QED
      <4>1. LiveText = (wrote[w.live] \o stream.inflight) \o stream.buffer
        BY DEF LiveText
      <4>2. LiveText' = LiveText \o units
        <5> DEFINE a == wrote[w.live] \o stream.inflight
                   b == stream.buffer
        <5>1. /\ a \in Seq(Unit) /\ b \in Seq(Unit) /\ units \in Seq(Unit)
              /\ LiveText' = a \o (b \o units) /\ LiveText = a \o b
          BY <1>0, <2>2, <3>2, <3>3, <4>1
        <5> HIDE DEF a, b
        <5> QED BY ONLY <5>1, JoinedThrice
      <4> QED BY <2>1, <4>2 DEF units
  <2> QED BY <2>4, <2>5
<1>2. ASSUME FlushSync
      PROVE  /\ w' = w /\ wrote' = wrote
             /\ Len(LiveText') = Len(LiveText) /\ Ids(LiveText') = Ids(LiveText)
             /\ mode = "sync" \/ ~w.opened => LiveText' = LiveText
  <2>1. w' = w /\ wrote' = wrote
    BY <1>2 DEF FlushSync
  <2>2. CASE UNCHANGED stream
    BY <2>1, <2>2 DEF LiveText
  <2>3. CASE stream' = [stream EXCEPT !.inflight = @ \o stream.buffer, !.buffer = <<>>]
    <3>1. stream'.inflight = stream.inflight \o stream.buffer /\ stream'.buffer = <<>>
      BY <1>0, <2>3
    <3>2. LiveText' = (wrote[w.live] \o (stream.inflight \o stream.buffer)) \o <<>>
      BY <2>1, <3>1 DEF LiveText
    <3>3. LiveText' = LiveText
      <4>1. LiveText = (wrote[w.live] \o stream.inflight) \o stream.buffer
        BY DEF LiveText
      <4>2. LiveText = wrote[w.live] \o (stream.inflight \o stream.buffer)
        BY <1>0, <4>1, JoinedThrice
      <4> QED BY <3>2, <4>2, LiveTextParts, Joined
    <3> QED BY <2>1, <3>3
  <2>4. CASE /\ w.opened /\ stream.inflight # <<>>
             /\ stream' = [stream EXCEPT !.inflight = stream.buffer \o @, !.buffer = <<>>]
    <3>1. stream'.inflight = stream.buffer \o stream.inflight /\ stream'.buffer = <<>>
      BY <1>0, <2>4
    <3>2. LiveText' = (wrote[w.live] \o (stream.buffer \o stream.inflight)) \o <<>>
      BY <2>1, <3>1 DEF LiveText
    <3>3. /\ stream.buffer \o stream.inflight \in Seq(Unit)
          /\ Len(stream.buffer \o stream.inflight) = Len(stream.buffer) + Len(stream.inflight)
          /\ Ids(stream.buffer \o stream.inflight) = Ids(stream.buffer) \union Ids(stream.inflight)
      BY <1>0, ConcatProperties, IdsOfConcat
    <3>4. LiveText' = wrote[w.live] \o (stream.buffer \o stream.inflight)
      BY <1>0, <3>2, <3>3, ConcatEmptySeq, ConcatProperties
    <3>5. /\ Len(LiveText') = Len(wrote[w.live]) + (Len(stream.buffer) + Len(stream.inflight))
          /\ Ids(LiveText') =
                Ids(wrote[w.live]) \union (Ids(stream.buffer) \union Ids(stream.inflight))
      <4> DEFINE x == stream.buffer \o stream.inflight
                 a == wrote[w.live]
      <4>1. LiveText' = a \o x /\ x \in Seq(Unit) /\ a \in Seq(Unit)
        BY <1>0, <3>3, <3>4
      <4> HIDE DEF x, a
      <4>2. Len(LiveText') = Len(a) + Len(x) /\ Ids(LiveText') = Ids(a) \union Ids(x)
        BY <4>1, Joined
      <4> QED BY <3>3, <4>2 DEF x, a
    <3>6. mode # "sync"
      BY <1>2, <2>4 DEF FlushSync, ThreadFree
    <3>7. Len(LiveText') = Len(LiveText) /\ Ids(LiveText') = Ids(LiveText)
      <4>1. /\ Len(wrote[w.live]) \in Nat /\ Len(stream.inflight) \in Nat
            /\ Len(stream.buffer) \in Nat
        BY <1>0
      <4>2. Len(LiveText') = Len(LiveText)
        <5>1. Len(LiveText) =
                Len(wrote[w.live]) + Len(stream.inflight) + Len(stream.buffer)
          BY LiveTextParts
        <5>2. Len(LiveText') =
                Len(wrote[w.live]) + (Len(stream.buffer) + Len(stream.inflight))
          BY <3>5
        <5>3. \A n, p, q \in Nat : n + (q + p) = n + p + q
          OBVIOUS
        <5>4. Len(wrote[w.live]) + (Len(stream.buffer) + Len(stream.inflight))
                = Len(wrote[w.live]) + Len(stream.inflight) + Len(stream.buffer)
          BY ONLY <5>3, <4>1
        <5> QED BY ONLY <5>1, <5>2, <5>4
      <4>3. Ids(LiveText') = Ids(LiveText)
        BY <3>5, LiveTextParts
      <4> QED BY <4>2, <4>3
    <3> QED BY <2>1, <2>4, <3>6, <3>7
  <2> QED
    BY <1>2, <2>2, <2>3, <2>4 DEF FlushSync
<1>3. ASSUME WriteFails
      PROVE  w'.live = w.live /\ wrote' = wrote /\ LiveText' = wrote[w.live]
  <2>1. w'.live = w.live /\ wrote' = wrote /\ stream'.inflight = <<>> /\ stream'.buffer = <<>>
    BY <1>0, <1>3 DEF WriteFails, Disabled, Writer
  <2> QED
    BY <1>0, <2>1, ConcatEmptySeq DEF LiveText
<1>4. ASSUME (Seal /\ mode = "sync") \/ SealDone
      PROVE  /\ w.live < MaxSegment /\ w'.live = w.live + 1 /\ wrote' = wrote
             /\ LiveText = wrote[w.live] /\ LiveText' = <<>> /\ wrote[w.live + 1] = <<>>
  <2>1. /\ w.live < MaxSegment /\ wrote' = wrote /\ ~Busy /\ w.discovered
        /\ stream' = stream
    BY <1>4 DEF Seal, SealDone, Files, Busy, Appending, ThreadFree
  <2>2. w'.live = w.live + 1
    BY <1>4, <2>1, AdvancedTypes DEF Seal, SealDone, Writer
  <2>3. w.live + 1 \in Segments
    BY <1>0, <2>1 DEF Segments
  <2>4. wrote[w.live + 1] = <<>>
    <3>1. \A j \in DOMAIN disk : j \in Segments /\ j <= w.live
      BY <2>1 DEF Files, Types
    <3>2. ~ \E j \in DOMAIN disk : j >= w.live + 1
      BY <1>0, <3>1 DEF Segments
    <3> QED BY <2>3, <3>2 DEF Files
  <2>5. LiveText' = wrote[w.live + 1] \o <<>> \o <<>>
    BY <2>1, <2>2 DEF LiveText, Busy
  <2>6. LiveText' = <<>>
    BY <1>0, <2>4, <2>5, ConcatEmptySeq
  <2> QED
    BY <2>1, <2>2, <2>4, <2>6, LiveTextParts
<1>5. ASSUME Open \/ OpenFails
      PROVE  /\ w'.live = Discovered.live /\ wrote' = wrote
             /\ LiveText = wrote[w.live] /\ LiveText' = wrote[w'.live]
  <2>1. wrote' = wrote /\ ~Busy
    BY <1>5 DEF Open, OpenFails, MustOpen, Files
  <2>2. w'.live = Discovered.live
    BY <1>5, DiscoveredSegments DEF Open, OpenFails, Disabled, Writer
  <2>3. stream'.inflight = <<>> /\ stream'.buffer = <<>>
    BY <1>5, <2>1 DEF Open, OpenFails, Busy, Idle
  <2>4. wrote[Discovered.live] \in Seq(Unit)
    BY <1>0, DiscoveredSegments DEF Writer
  <2> QED
    BY <2>1, <2>2, <2>3, <2>4, LiveTextParts, ConcatEmptySeq DEF LiveText
<1>6. ASSUME CrashAndRestart
      PROVE  w'.live = 0 /\ wrote' = wrote /\ LiveText' = wrote[0]
  <2>1. w'.live = 0 /\ wrote' = wrote /\ stream'.inflight = <<>> /\ stream'.buffer = <<>>
    BY <1>6 DEF CrashAndRestart, NewWriter, Idle
  <2>2. wrote[0] \in Seq(Unit)
    BY <1>0 DEF Segments
  <2> QED
    BY <2>1, <2>2, ConcatEmptySeq DEF LiveText
<1>7. ASSUME Deposit
      PROVE  /\ w' = w /\ LiveText' = LiveText /\ stream.segment = w.live
             /\ \A k \in Segments : k # w.live => wrote'[k] = wrote[k]
  <2>1. w' = w /\ stream.segment = w.live /\ stream.inflight # <<>>
    BY <1>7 DEF Deposit, Files, Busy
  <2>2. wrote' = [wrote EXCEPT ![w.live] = Append(@, Head(stream.inflight))]
        /\ stream' = [stream EXCEPT !.inflight = Tail(@)]
    BY <1>7, <2>1 DEF Deposit
  <2>3. wrote'[w.live] = Append(wrote[w.live], Head(stream.inflight))
        /\ \A k \in Segments : k # w.live => wrote'[k] = wrote[k]
    BY <1>0, <2>2
  <2>4. stream'.inflight = Tail(stream.inflight) /\ stream'.buffer = stream.buffer
    BY <1>0, <2>2
  <2>5. LiveText' =
            (Append(wrote[w.live], Head(stream.inflight)) \o Tail(stream.inflight)) \o stream.buffer
    BY <2>1, <2>3, <2>4 DEF LiveText
  <2>6. LiveText' = LiveText
    BY <1>0, <2>1, <2>5, ConcatHead DEF LiveText
  <2> QED
    BY <2>1, <2>3, <2>6
<1>8. ASSUME StartWrite
      PROVE  w'.live = w.live /\ wrote' = wrote /\ LiveText' = LiveText
  <2>1. w' = w /\ wrote' = wrote /\ stream'.inflight = stream.buffer /\ stream'.buffer = <<>>
        /\ stream.inflight = <<>>
    BY <1>0, <1>8 DEF StartWrite
  <2> QED
    BY <1>0, <2>1, ConcatEmptySeq, ConcatProperties DEF LiveText
<1>9. ASSUME Seal, mode # "sync"
      PROVE  w'.live = w.live /\ wrote' = wrote /\ LiveText' = LiveText
  BY <1>0, <1>9 DEF Seal, Writer, LiveText
<1>10. ASSUME (\E s \in LineSizes[mode], end \in BOOLEAN : Emit(s, end)) \/ HoldOrDrop \/ Retire
              \/ Opened \/ CloseLog
       PROVE  w'.live = w.live /\ wrote' = wrote /\ LiveText' = LiveText
  <2>1. w'.live = w.live /\ wrote' = wrote /\ stream' = stream
    BY <1>0, <1>10 DEF Emit, HoldOrDrop, Retire, Opened, CloseLog, Disabled, Writer
  <2> QED
    BY <2>1 DEF LiveText
<1> QED
  BY <1>1, <1>2, <1>3, <1>4, <1>5, <1>6, <1>7, <1>8, <1>9, <1>10 DEF LogNext

\* a text that loses something still fits
LEMMA FitsStill ==
    ASSUME NEW k \in Segments, NEW s, NEW t, Fits(k, s), emitted \in Nat, emitted' \in Nat,
           emitted <= emitted', Len(s) \in Nat, Len(t) \in Nat,
           Len(t) <= Len(s), Ids(t) \subseteq Ids(s)
    PROVE  Len(t) <= MaxBytes \/ \E n \in 0..emitted' : Ids(t) \subseteq {-k, n}
<1>1. CASE Len(s) <= MaxBytes
  BY <1>1, Numbers
<1>2. ASSUME NEW n \in 0..emitted, Ids(s) \subseteq {-k, n}
      PROVE  \E m \in 0..emitted' : Ids(t) \subseteq {-k, m}
  BY <1>2
<1> QED
  BY <1>1, <1>2 DEF Fits

\* events are numbered upwards
LEMMA EmittedGrows ==
    ASSUME Types, LogNext
    PROVE  emitted \in Nat /\ emitted' \in Nat /\ emitted <= emitted'
<1>1. emitted \in Nat
  BY Numbers DEF Types
<1>2. emitted' = emitted \/ emitted' = emitted + 1
  BY DEF LogNext, Emit, HoldOrDrop, Open, OpenFails, Retire, Opened, Seal, Write, FlushSync,
     StartWrite, Deposit, WriteFails, SealDone, CloseLog, CrashAndRestart
<1> QED
  BY <1>1, <1>2

\* a segment with nothing in it
LEMMA NoIds == Ids(<<>>) = {} /\ Len(<<>>) = 0
BY DEF Ids

\* the text written to a segment so far, when nothing but its prefix counts
LEMMA WroteWithinText ==
    ASSUME Types
    PROVE  /\ Ids(wrote[w.live]) \subseteq Ids(LiveText) /\ Len(wrote[w.live]) <= Len(LiveText)
           /\ Len(LiveText) \in Nat /\ \A k \in Segments : Len(wrote[k]) \in Nat
           /\ w.live \in Segments
<1>1. \A k \in Segments : wrote[k] \in Seq(Unit)
  BY DEF Types
<1>2. LiveText \in Seq(Unit)
  BY LiveTextParts
<1> QED
  BY <1>1, <1>2, LiveTextParts DEF Types, Writer

\* the same of the next state
LEMMA NextText ==
    Types' =>
        /\ (Ids(wrote[w.live]) \subseteq Ids(LiveText))' /\ (Len(wrote[w.live]) <= Len(LiveText))'
        /\ (Len(LiveText) \in Nat)' /\ (\A k \in Segments : Len(wrote[k]) \in Nat)'
        /\ (w.live \in Segments)' /\ (LiveText \in Seq(Unit))'
        /\ (\A i \in 1..Len(wrote[w.live]) : LiveText[i] = wrote[w.live][i])'
<1>1. Types =>
        /\ Ids(wrote[w.live]) \subseteq Ids(LiveText) /\ Len(wrote[w.live]) <= Len(LiveText)
        /\ Len(LiveText) \in Nat /\ \A k \in Segments : Len(wrote[k]) \in Nat
        /\ w.live \in Segments /\ LiveText \in Seq(Unit)
        /\ \A i \in 1..Len(wrote[w.live]) : LiveText[i] = wrote[w.live][i]
  BY WroteWithinText, LiveTextParts
<1> QED
  BY <1>1, PTL

\* a write fits, because the line before was checked against the same text
LEMMA LiveTextFits ==
    ASSUME Types, Files, Bytes, LogNext, Types', Files'
    PROVE  Fits(w.live, LiveText)'
<1> USE Numbers
<1>0. /\ emitted \in Nat /\ emitted' \in Nat /\ emitted <= emitted'
      /\ w.live \in Segments /\ w'.live \in Segments
      /\ LiveText \in Seq(Unit) /\ LiveText' \in Seq(Unit)
      /\ Len(LiveText) \in Nat /\ Len(LiveText') \in Nat
      /\ wrote \in [Segments -> Seq(Unit)] /\ \A k \in Segments : Len(wrote[k]) \in Nat
      /\ w.bytes \in Nat /\ mode \in {"sync", "async"}
  BY EmittedGrows, LiveTextParts, WroteWithinText, NextText DEF Types, Writer
<1>1. CASE Write
  <2> DEFINE line == Head(todo)
  <2>1. line \in LineItem /\ todo # <<>> /\ line = todo[1] /\ w.opened /\ w.usable /\ IsLine(1)
    BY <1>1, HeadOfTurn DEF Write, Appending, Files, IsLine, Types
  <2>2. LiveText' = LiveText \o Units(line) /\ w'.live = w.live /\ emitted' = emitted
    BY <1>1, TextSteps DEF Write
  <2>3. line.id \in 0..emitted \/ line.id = -w.live
    <3>1. line.id \in 1..emitted \/ line = Marker(w.live)
      BY <2>1 DEF Bytes, QueueKept, IsLine, MarkerNext
    <3> QED BY <1>0, <3>1 DEF Marker, Line
  <2> HIDE DEF line
  <2>4. /\ Units(line) \in Seq(Unit) /\ Len(Units(line)) = line.size
        /\ Ids(Units(line)) = {line.id} /\ line.size \in Nat
    BY <2>1, UnitsOfLine DEF LineItem
  <2>5. /\ Len(LiveText') = Len(LiveText) + line.size
        /\ Ids(LiveText') = Ids(LiveText) \union {line.id}
    BY <1>0, <2>2, <2>4, Joined
  <2>6. ASSUME Ids(LiveText) \subseteq {-w.live}
        PROVE  \E n \in 0..emitted : Ids(LiveText') \subseteq {-w.live, n}
    <3>1. CASE line.id \in 0..emitted
      <4>1. Ids(LiveText') \subseteq {-w.live, line.id}
        BY <2>5, <2>6
      <4> QED BY <3>1, <4>1
    <3>2. CASE line.id = -w.live
      <4>1. Ids(LiveText') \subseteq {-w.live, 0}
        BY <2>5, <2>6, <3>2
      <4> QED BY <1>0, <4>1
    <3> QED BY <2>3, <3>1, <3>2
  <2>7. w.bytes = Len(LiveText)
    BY <2>1 DEF Bytes, QueueKept
  <2>8. CASE line.checked
    <3>1. Ids(LiveText) \subseteq {-w.live}
      BY <2>1, <2>8 DEF Bytes, QueueKept, IsLine
    <3> QED BY <2>2, <2>6, <3>1 DEF Fits
  <2>9. CASE w.bytes = 0
    <3>1. LiveText = <<>>
      BY <1>0, <2>7, <2>9, EmptySeq
    <3>2. Ids(LiveText) = {}
      BY <3>1, NoIds
    <3> QED BY <2>2, <2>6, <3>2 DEF Fits
  <2>10. CASE w.bytes + line.size <= MaxBytes
    <3>1. Len(LiveText') <= MaxBytes
      BY <2>5, <2>7, <2>10
    <3> QED BY <3>1 DEF Fits
  <2>11. line.checked \/ w.bytes = 0 \/ w.bytes + line.size <= MaxBytes
    <3>1. line.checked \/ ~(w.bytes > 0 /\ w.bytes + line.size > MaxBytes)
      BY <1>1 DEF Write, Overflows, line
    <3> QED BY <1>0, <2>4, <3>1
  <2> QED
    BY <2>8, <2>9, <2>10, <2>11
<1>2. CASE (Seal /\ mode = "sync") \/ SealDone
  <2>1. Len(LiveText') <= MaxBytes
    BY <1>2, TextSteps, NoIds
  <2> QED BY <2>1 DEF Fits
<1>3. ASSUME NEW k \in Segments, w'.live = k, LiveText' = wrote[k] PROVE Fits(w.live, LiveText)'
  <2>1. Fits(k, wrote[k])
    BY DEF Bytes, QueueKept
  <2> QED BY <1>0, <1>3, <2>1, FitsStill DEF Fits
<1>4. ASSUME w'.live = w.live, Len(LiveText') = Len(LiveText), Ids(LiveText') = Ids(LiveText)
      PROVE  Fits(w.live, LiveText)'
  <2>1. Fits(w.live, LiveText)
    BY DEF Bytes, QueueKept
  <2>2. Len(LiveText') <= MaxBytes \/ \E n \in 0..emitted' : Ids(LiveText') \subseteq {-w.live, n}
    <3> DEFINE s == LiveText
               t == LiveText'
               k == w.live
    <3>1. /\ k \in Segments /\ Fits(k, s) /\ emitted \in Nat /\ emitted' \in Nat
          /\ emitted <= emitted' /\ Len(s) \in Nat /\ Len(t) \in Nat
          /\ Len(t) <= Len(s) /\ Ids(t) \subseteq Ids(s)
      BY <1>0, <1>4, <2>1
    <3> HIDE DEF s, t, k
    <3>2. Len(t) <= MaxBytes \/ \E n \in 0..emitted' : Ids(t) \subseteq {-k, n}
      BY ONLY <3>1, FitsStill
    <3> QED BY <3>2 DEF t, k
  <2> QED BY <1>4, <2>2 DEF Fits
<1>5. CASE WriteFails
  BY <1>0, <1>3, <1>5, TextSteps
<1>6. CASE Open \/ OpenFails
  BY <1>0, <1>3, <1>6, TextSteps
<1>7. CASE CrashAndRestart
  BY <1>0, <1>3, <1>7, TextSteps
<1>8. CASE FlushSync
  BY <1>4, <1>8, TextSteps
<1>9. CASE Deposit
  BY <1>4, <1>9, TextSteps
<1>10. CASE Seal /\ mode # "sync"
  BY <1>4, <1>10, TextSteps
<1> QED
  BY <1>1, <1>2, <1>4, <1>5, <1>6, <1>7, <1>8, <1>9, <1>10, TextSteps

\* and so does what gets to the disk
LEMMA WroteFits ==
    ASSUME Types, Files, Bytes, LogNext, Types', Files'
    PROVE  \A k \in Segments : Fits(k, wrote[k])'
<1> SUFFICES ASSUME NEW k \in Segments PROVE Fits(k, wrote[k])'
  OBVIOUS
<1>0. /\ emitted \in Nat /\ emitted' \in Nat /\ emitted <= emitted'
      /\ Len(wrote[k]) \in Nat /\ Len(wrote'[k]) \in Nat
  BY EmittedGrows, WroteWithinText, NextText
<1>1. CASE wrote'[k] = wrote[k]
  <2>1. Fits(k, wrote[k])
    BY DEF Bytes, QueueKept
  <2> QED BY <1>0, <1>1, <2>1, FitsStill DEF Fits
<1>2. CASE wrote'[k] # wrote[k]
  <2>1. Deposit /\ k = w'.live
    BY <1>2, TextSteps
  <2>2. Fits(w.live, LiveText)'
    BY LiveTextFits
  <2>3. Ids(wrote'[k]) \subseteq Ids(LiveText') /\ Len(wrote'[k]) <= Len(LiveText')
        /\ Len(LiveText') \in Nat
    <3>1. Ids(wrote'[w'.live]) \subseteq Ids(LiveText') /\ Len(wrote'[w'.live]) <= Len(LiveText')
          /\ Len(LiveText') \in Nat
      BY NextText
    <3> QED BY <2>1, <3>1
  <2>4. CASE Len(LiveText') <= MaxBytes
    BY <1>0, <2>3, <2>4, Numbers DEF Fits
  <2>5. ASSUME NEW n \in 0..emitted', Ids(LiveText') \subseteq {-k, n}
        PROVE  Fits(k, wrote[k])'
    BY <2>3, <2>5 DEF Fits
  <2> QED
    BY <2>1, <2>2, <2>4, <2>5 DEF Fits
<1> QED
  BY <1>1, <1>2

\* the count in memory follows the text
LEMMA BytesCounted ==
    ASSUME Types, Files, Bytes, LogNext, Types', Files'
    PROVE  w'.opened => w'.bytes = Len(LiveText')
<1>0. /\ w \in Writer /\ w.bytes \in Nat /\ wrote \in [Segments -> Seq(Unit)]
      /\ LiveText \in Seq(Unit) /\ Len(LiveText) \in Nat
      /\ mode \in {"sync", "async"}
  BY Numbers, LiveTextParts, WroteWithinText DEF Types, Writer
<1>1. CASE Open
  <2> DEFINE k == Discovered.live
             content == IF k \in DOMAIN disk THEN disk[k] ELSE <<>>
  <2>1. k \in Segments /\ Discovered \in Writer
    BY DiscoveredSegments DEF Writer
  <2>2. w' = [Discovered EXCEPT !.opened = TRUE, !.bytes = Len(content)]
    BY <1>1 DEF Open
  <2>3. content = wrote[k]
    <3>1. k \notin DOMAIN disk => wrote[k] = <<>>
      <4>1. ASSUME k \notin DOMAIN disk, wrote[k] # <<>> PROVE FALSE
        <5>1. PICK j \in DOMAIN disk : j >= k
          BY <2>1, <4>1 DEF Files
        <5>2. j <= k /\ j \in Segments
          BY DiscoveredSegments DEF Files, Types
        <5> QED BY <2>1, <4>1, <5>1, <5>2 DEF Segments
      <4> QED BY <4>1
    <3> QED BY <3>1 DEF Files
  <2>4. w'.bytes = Len(content) /\ w'.live = k
    <3> HIDE DEF content, k
    <3> QED BY <2>1, <2>2 DEF Writer, k
  <2>5. LiveText' = wrote[k]
    BY <1>1, <2>4, TextSteps
  <2> QED BY <2>3, <2>4, <2>5
<1>2. CASE Write
  <2>1. Head(todo) \in LineItem /\ w.opened
    BY <1>2, HeadOfTurn DEF Write, Appending
  <2>2. Units(Head(todo)) \in Seq(Unit) /\ Len(Units(Head(todo))) = Head(todo).size
    BY <2>1, UnitsOfLine
  <2>3. Len(LiveText') = Len(LiveText) + Head(todo).size
    BY <1>0, <1>2, <2>2, TextSteps, Joined
  <2>4. w'.bytes = w.bytes + Head(todo).size
    BY <1>0, <1>2 DEF Write, Writer
  <2> QED BY <2>1, <2>3, <2>4 DEF Bytes, QueueKept
<1>3. ASSUME ~w'.opened PROVE w'.opened => w'.bytes = Len(LiveText')
  BY <1>3
<1>4. ASSUME w'.opened => w.opened, w'.bytes = w.bytes, Len(LiveText') = Len(LiveText)
      PROVE  w'.opened => w'.bytes = Len(LiveText')
  BY <1>4 DEF Bytes, QueueKept
<1>5. CASE HoldOrDrop
  <2>1. w'.opened = w.opened /\ w'.bytes = w.bytes
    BY <1>0, <1>5 DEF HoldOrDrop, Writer
  <2>2. LiveText' = LiveText
    BY <1>5, TextSteps
  <2> QED BY <1>4, <2>1, <2>2
<1>6. CASE Retire
  <2>1. w'.opened = w.opened /\ w'.bytes = w.bytes
    BY <1>0, <1>6 DEF Retire, Writer
  <2>2. LiveText' = LiveText
    BY <1>6, TextSteps
  <2> QED BY <1>4, <2>1, <2>2
<1>7. CASE Opened
  <2>1. w'.opened = w.opened /\ w'.bytes = w.bytes
    BY <1>0, <1>7 DEF Opened, Writer
  <2>2. LiveText' = LiveText
    BY <1>7, TextSteps
  <2> QED BY <1>4, <2>1, <2>2
<1>8. CASE FlushSync
  BY <1>4, <1>8, TextSteps
<1>9. CASE Deposit
  BY <1>4, <1>9, TextSteps
<1>10. CASE StartWrite
  <2>2. LiveText' = LiveText
    BY <1>10, TextSteps
  <2> QED BY <1>4, <1>10, <2>2 DEF StartWrite
<1>11. CASE \E s \in LineSizes[mode], end \in BOOLEAN : Emit(s, end)
  <2>1. w' = w /\ LiveText' = LiveText
    BY <1>11 DEF Emit, LiveText
  <2> QED BY <1>4, <2>1
<1>12. CASE OpenFails \/ Seal \/ WriteFails \/ SealDone \/ CloseLog \/ CrashAndRestart
  <2>1. ~w'.opened
    <3>1. CASE OpenFails
      BY <3>1, DiscoveredSegments DEF OpenFails, Disabled, Writer
    <3>2. CASE Seal
      <4>1. w.live < MaxSegment
        BY <3>2 DEF Seal
      <4>2. CASE mode = "sync"
        BY <1>0, <3>2, <4>1, <4>2, AdvancedTypes DEF Seal, Writer
      <4>3. CASE mode # "sync"
        BY <1>0, <3>2, <4>3 DEF Seal, Writer
      <4> QED BY <4>2, <4>3
    <3>3. CASE WriteFails
      BY <1>0, <3>3 DEF WriteFails, Disabled, Writer
    <3>4. CASE SealDone
      <4>1. w.live < MaxSegment /\ ~w.opened
        BY <3>4 DEF SealDone, Files
      <4> QED BY <3>4, <4>1, AdvancedTypes DEF SealDone, Writer
    <3>5. CASE CloseLog
      BY <1>0, <3>5 DEF CloseLog, Disabled, Writer
    <3>6. CASE CrashAndRestart
      BY <3>6 DEF CrashAndRestart, NewWriter
    <3> QED BY <1>12, <3>1, <3>2, <3>3, <3>4, <3>5, <3>6
  <2> QED BY <1>3, <2>1
<1> QED
  BY <1>1, <1>2, <1>5, <1>6, <1>7, <1>8, <1>9, <1>10, <1>11, <1>12 DEF LogNext

\* what each step does to the lines that wait
LEMMA QueueStep ==
    ASSUME Types, Files, Bytes, LogNext, Types', Files'
    PROVE  QueueKept'
<1> USE Numbers
<1>0. /\ w \in Writer /\ w.live \in Segments /\ w.live \in Nat
      /\ wrote \in [Segments -> Seq(Unit)]
      /\ w.pending \in Seq(LineItem) /\ todo \in Seq(LineItem \union {Flush})
      /\ emitted \in Nat /\ emitted' \in Nat /\ emitted <= emitted'
      /\ LiveText \in Seq(Unit) /\ LiveText' \in Seq(Unit)
      /\ mode \in {"sync", "async"} /\ mode' = mode
      /\ DOMAIN todo = 1..Len(todo) /\ Len(todo) \in Nat
      /\ DOMAIN w.pending = 1..Len(w.pending) /\ Len(w.pending) \in Nat
  <2>1. mode' = mode
    BY DEF LogNext, Emit, HoldOrDrop, Open, OpenFails, Retire, Opened, Seal, Write, FlushSync,
     StartWrite, Deposit, WriteFails, SealDone, CloseLog, CrashAndRestart
  <2>2. /\ w \in Writer /\ w.live \in Segments /\ wrote \in [Segments -> Seq(Unit)]
        /\ w.pending \in Seq(LineItem) /\ todo \in Seq(LineItem \union {Flush})
        /\ mode \in {"sync", "async"}
    BY DEF Types, Writer
  <2>3. w.live \in Nat
    BY <2>2 DEF Segments
  <2>4. DOMAIN todo = 1..Len(todo) /\ Len(todo) \in Nat
    BY <2>2
  <2>5. DOMAIN w.pending = 1..Len(w.pending) /\ Len(w.pending) \in Nat
    BY <2>2
  <2>6. /\ emitted \in Nat /\ emitted' \in Nat /\ emitted <= emitted'
    BY EmittedGrows
  <2>7. LiveText \in Seq(Unit) /\ LiveText' \in Seq(Unit)
    BY LiveTextParts, NextText
  <2> QED BY <2>1, <2>2, <2>3, <2>4, <2>5, <2>6, <2>7
<1>a. QueueKept
  BY DEF Bytes, QueueKept
<1>c. \A n \in 1..emitted : n \in 1..emitted'
  BY <1>0
<1>d. \A i \in DOMAIN w.pending : w.pending[i].id \in 1..emitted' /\ ~w.pending[i].checked
  <2>1. \A i \in DOMAIN w.pending : w.pending[i].id \in 1..emitted
    BY <1>a DEF QueueKept
  <2>2. \A i \in DOMAIN w.pending : ~w.pending[i].checked
    BY <1>a DEF QueueKept
  <2> QED BY <1>c, <2>1, <2>2
<1>1. ASSUME NEW s \in LineSizes[mode], NEW end \in BOOLEAN, Emit(s, end) PROVE QueueKept'
  <2>1. w' = w /\ LiveText' = LiveText /\ retiring' = retiring /\ todo = <<>>
        /\ emitted' = emitted + 1
    BY <1>1 DEF Emit, LiveText, TurnOver
  <2>2. \A i \in DOMAIN todo' :
            IsLine(i)' => todo'[i].id = emitted + 1 /\ ~todo'[i].checked
    <3>1. CASE ~w.usable
      BY <1>1, <3>1 DEF Emit
    <3>2. CASE w.usable /\ end
      <4>2. todo' = <<Line(emitted + 1, s)>> \o <<Flush>>
        BY <1>1, <3>2 DEF Emit
      <4> DEFINE l == Line(emitted + 1, s)
      <4>3. l \in LineItem /\ l.id = emitted + 1 /\ ~l.checked
        <5>1. s \in Nat \ {0} /\ emitted + 1 \in Int
          BY <1>0 DEF Types
        <5> QED BY <5>1, LineTypes DEF Line
      <4> HIDE DEF l
      <4>4. <<l>> \in Seq(LineItem \union {Flush}) /\ <<Flush>> \in Seq(LineItem \union {Flush})
            /\ Len(<<l>>) = 1 /\ Len(<<Flush>>) = 1
        BY <4>3
      <4>5. /\ todo' \in Seq(LineItem \union {Flush}) /\ Len(todo') = 2
            /\ \A i \in 1..2 : todo'[i] = IF i <= 1 THEN <<l>>[i] ELSE <<Flush>>[i - 1]
        BY <4>2, <4>4, ConcatProperties DEF l
      <4>6. todo'[1] = l /\ todo'[2] = Flush /\ DOMAIN todo' = 1..2
        BY <4>5
      <4>7. todo'[2].op # "append"
        BY <4>6 DEF Flush
      <4> QED BY <4>3, <4>6, <4>7 DEF IsLine
    <3>3. CASE w.usable /\ ~end
      <4>1. todo' = <<Line(emitted + 1, s)>>
        BY <1>1, <3>3 DEF Emit
      <4> QED BY <4>1 DEF IsLine, Line, Flush
    <3> QED BY <3>1, <3>2, <3>3
  <2>3. \A i \in DOMAIN todo' : IsLine(i)' => todo'[i].id \in 1..emitted'
    BY <1>0, <2>1, <2>2
  <2>4. \A i \in DOMAIN w'.pending : w'.pending[i].id \in 1..emitted' /\ ~w'.pending[i].checked
    BY <1>d, <2>1
  <2> QED
    BY <1>a, <2>1, <2>2, <2>3, <2>4 DEF QueueKept
<1>2. ASSUME todo' = todo, w'.pending = w.pending, w'.live = w.live, LiveText' = LiveText,
             w'.opened = w.opened, w'.discovered = w.discovered, w'.usable = w.usable,
             w'.rotated = w.rotated, retiring' = retiring
      PROVE  QueueKept'
  <2>1. MarkerNext' = MarkerNext /\ \A i : IsLine(i)' = IsLine(i)
    BY <1>2 DEF MarkerNext, IsLine
  <2>2. \A i \in DOMAIN todo' : IsLine(i)' => todo'[i].id \in 1..emitted' \/ (i = 1 /\ MarkerNext')
    BY <1>0, <1>2, <1>a, <2>1 DEF QueueKept
  <2>3. \A i \in DOMAIN w'.pending : w'.pending[i].id \in 1..emitted' /\ ~w'.pending[i].checked
    BY <1>2, <1>d
  <2> QED
    BY <1>0, <1>2, <1>a, <2>1, <2>2, <2>3 DEF QueueKept
<1>b. ASSUME todo # <<>>
      PROVE  /\ DOMAIN Tail(todo) = 1..Len(todo) - 1
             /\ \A i \in 1..Len(todo) - 1 : Tail(todo)[i] = todo[i + 1] /\ i + 1 \in DOMAIN todo
             /\ Head(todo) = todo[1] /\ 1 \in DOMAIN todo
  <2>1. Tail(todo) \in Seq(LineItem \union {Flush}) /\ Len(Tail(todo)) = Len(todo) - 1
    BY <1>b, HeadOfTurn
  <2>2. Len(todo) > 0
    BY <1>0, <1>b
  <2> QED BY <1>0, <1>b, <2>1, <2>2, HeadOfTurn
\* the head of the queue is taken
<1>3. ASSUME todo # <<>>, todo' = Tail(todo), w'.live = w.live,
             w'.discovered = w.discovered, w'.usable = w.usable, emitted' = emitted
      PROVE  /\ \A i \in DOMAIN todo' : IsLine(i)' => todo'[i].id \in 1..emitted'
             /\ \A i \in DOMAIN todo' : IsLine(i)' /\ todo'[i].checked =>
                    /\ mode = "sync" /\ w'.discovered
                    /\ i = 1 /\ IsLine(2) /\ todo[2].checked
                    /\ IsLine(1) /\ todo[1].id = -w.live
                    /\ w.usable => Ids(LiveText) \subseteq {-w.live}
  <2>1. \A i \in DOMAIN todo' : /\ todo'[i] = todo[i + 1] /\ i + 1 \in DOMAIN todo
                                /\ i + 1 # 1 /\ (i + 1 = 2 => i = 1)
                                /\ (IsLine(i)' => IsLine(i + 1))
    BY <1>0, <1>3, <1>b DEF IsLine
  <2> QED
    BY <1>a, <1>3, <2>1 DEF QueueKept
<1>4. CASE HoldOrDrop
  <2>1. /\ todo # <<>> /\ todo' = Tail(todo) /\ LiveText' = LiveText /\ Head(todo) \in LineItem
        /\ emitted' = emitted /\ retiring' = retiring /\ Head(todo).op = "append"
    BY <1>4, TextSteps, HeadOfTurn DEF HoldOrDrop, Appending
  <2>2. /\ w'.live = w.live /\ w'.opened = w.opened /\ w'.discovered = w.discovered
        /\ w'.usable = w.usable /\ w'.rotated = w.rotated
        /\ w'.pending = IF w.sealing THEN Append(w.pending, Head(todo)) ELSE w.pending
    BY <1>0, <1>4 DEF HoldOrDrop, Writer
  <2>3. \A i \in DOMAIN w'.pending : w'.pending[i].id \in 1..emitted /\ ~w'.pending[i].checked
    <3>1. CASE ~w.sealing
      BY <1>a, <2>2, <3>1 DEF QueueKept
    <3>2. CASE w.sealing
      <4>1. ~w.opened /\ mode # "sync"
        BY <3>2 DEF Files
      <4>2. IsLine(1) /\ 1 \in DOMAIN todo /\ Head(todo) = todo[1]
        BY <1>b, <2>1 DEF IsLine
      <4>3. Head(todo).id \in 1..emitted /\ ~Head(todo).checked
        BY <1>a, <4>1, <4>2 DEF QueueKept, MarkerNext
      <4>4. w'.pending = Append(w.pending, Head(todo))
        BY <2>2, <3>2
      <4>5. \A i \in DOMAIN w'.pending :
            (i \in DOMAIN w.pending /\ w'.pending[i] = w.pending[i]) \/ w'.pending[i] = Head(todo)
        BY <1>0, <2>1, <4>4
      <4> QED BY <1>a, <4>3, <4>5 DEF QueueKept
    <3> QED BY <3>1, <3>2
  <2> QED
    BY <1>0, <1>3, <1>a, <2>1, <2>2, <2>3 DEF QueueKept
<1>5. CASE Open \/ OpenFails
  <2>1. /\ w'.pending = w.pending /\ w'.discovered /\ w'.rotated = w.rotated /\ ~w.opened
        /\ w'.usable => w.usable
        /\ w'.opened => retiring'
    BY <1>0, <1>5, DiscoveredSegments DEF Open, OpenFails, MustOpen, Disabled, Writer
  <2>2. todo' = todo /\ emitted' = emitted
    BY <1>5 DEF Open, OpenFails
  <2>3. w.discovered => w'.live = w.live /\ LiveText' = LiveText
    BY <1>5, TextSteps, DiscoveredSegments
  <2> QED
    BY <1>0, <1>a, <2>1, <2>2, <2>3 DEF QueueKept, IsLine, MarkerNext
<1>6. CASE Retire
  <2>1. /\ w'.pending = w.pending /\ w'.discovered = w.discovered /\ w'.rotated = w.rotated
        /\ w'.opened = w.opened /\ w'.usable = w.usable
    BY <1>0, <1>6 DEF Retire, Writer
  <2> QED
    BY <1>2, <1>6, <2>1, TextSteps DEF Retire
<1>7. CASE Opened
  <2>1. /\ w'.pending = w.pending /\ w'.discovered = w.discovered /\ w'.rotated = None
        /\ w'.opened = w.opened /\ w'.usable = w.usable /\ w.opened /\ retiring /\ ~retiring'
        /\ emitted' = emitted
    BY <1>0, <1>7 DEF Opened, Writer, Files
  <2>2. w'.live = w.live /\ LiveText' = LiveText
    BY <1>7, TextSteps
  <2>3. \A i \in DOMAIN todo : IsLine(i) => todo[i].id \in 1..emitted
    BY <1>a, <2>1 DEF QueueKept, MarkerNext
  <2>4. CASE w.rotated = None
    BY <1>0, <1>2, <1>7, <1>a, <2>1, <2>2, <2>3, <2>4 DEF Opened, QueueKept, IsLine
  <2>5. CASE w.rotated # None
    <3>1. todo' = <<Marker(w.live)>> \o todo /\ Marker(w.live) \in LineItem
      <4>1. -w.live \in Int /\ MarkerSize \in Nat \ {0}
        BY <1>0
      <4>2. Marker(w.live) \in LineItem
        BY <4>1, LineTypes DEF Marker
      <4> QED BY <1>7, <2>5, <4>2 DEF Opened
    <3>2. LiveText = <<>> /\ w.live > 0
      BY <1>a, <2>5 DEF QueueKept
    <3>3. /\ todo'[1] = Marker(w.live)
          /\ \A i \in DOMAIN todo' : i # 1 => i - 1 \in DOMAIN todo /\ todo'[i] = todo[i - 1]
          /\ IsLine(1)'
      <4>1. <<Marker(w.live)>> \in Seq(LineItem \union {Flush}) /\ Len(<<Marker(w.live)>>) = 1
            /\ <<Marker(w.live)>>[1] = Marker(w.live)
        BY <3>1
      <4>2. todo' \in Seq(LineItem \union {Flush}) /\ Len(todo') = 1 + Len(todo)
            /\ \A i \in 1..1 + Len(todo) :
                todo'[i] = IF i <= 1 THEN <<Marker(w.live)>>[i] ELSE todo[i - 1]
        BY <1>0, <3>1, <4>1, ConcatProperties
      <4>3. DOMAIN todo' = 1..1 + Len(todo)
        BY <4>2, LenProperties
      <4>4. todo'[1] = Marker(w.live)
        BY <1>0, <4>1, <4>2
      <4>5. \A i \in DOMAIN todo' : i # 1 => i - 1 \in DOMAIN todo /\ todo'[i] = todo[i - 1]
        BY <1>0, <4>2, <4>3
      <4> QED
        BY <1>0, <4>3, <4>4, <4>5 DEF IsLine, Marker, Line
    <3>4. todo'[1].id = -w.live /\ ~todo'[1].checked
      BY <3>3 DEF Marker, Line
    <3>5. \A i \in DOMAIN todo' : i # 1 /\ IsLine(i)' => IsLine(i - 1)
      BY <3>3 DEF IsLine
    <3>6. \A i \in DOMAIN todo' : IsLine(i)' =>
            todo'[i].id \in 1..emitted' \/ (i = 1 /\ MarkerNext')
      BY <2>1, <2>2, <2>3, <3>2, <3>3, <3>5 DEF MarkerNext
    <3>7. \A i \in DOMAIN todo' : IsLine(i)' /\ todo'[i].checked =>
            /\ mode = "sync" /\ w'.discovered
            /\ i = 2
            /\ w'.usable => Ids(LiveText') \subseteq {-w'.live}
      <4> SUFFICES ASSUME NEW i \in DOMAIN todo', IsLine(i)', todo'[i].checked
                   PROVE  /\ mode = "sync" /\ w'.discovered
                          /\ i = 2
                          /\ w'.usable => Ids(LiveText') \subseteq {-w'.live}
        OBVIOUS
      <4>1. i # 1 /\ IsLine(i - 1) /\ todo[i - 1].checked /\ i - 1 \in DOMAIN todo
        BY <3>3, <3>4, <3>5
      <4>2. \A j \in DOMAIN todo : IsLine(j) => todo[j].id > 0
        BY <1>0, <2>3
      <4>3. /\ mode = "sync" /\ w.discovered
            /\ i - 1 = 1 \/ (i - 1 = 2 /\ IsLine(1) /\ todo[1].id = -w.live)
            /\ w.usable => Ids(LiveText) \subseteq {-w.live}
        BY <1>a, <4>1 DEF QueueKept
      <4>4. IsLine(1) => todo[1].id > 0
        BY <4>2 DEF IsLine
      <4>5. i - 1 = 1
        BY <1>0, <4>3, <4>4
      <4>6. i = 2
        <5>1. \A n : n - 1 \in 1..Len(todo) /\ n \in 1..Len(todo) + 1 => (n - 1 = 1 => n = 2)
          BY <1>0
        <5>2. i \in 1..Len(todo) + 1
          BY <1>0, <3>1, <3>3, ConcatProperties
        <5> QED BY <1>0, <4>1, <4>5, <5>1, <5>2
      <4> QED BY <2>1, <2>2, <4>3, <4>5, <4>6
    <3> QED
      BY <1>0, <1>a, <2>1, <2>2, <3>3, <3>4, <3>6, <3>7 DEF QueueKept
  <2> QED BY <2>4, <2>5
<1>8. CASE Seal
  <2>1. /\ w.live < MaxSegment /\ todo # <<>> /\ Head(todo) = todo[1] /\ Head(todo) \in LineItem
        /\ w.opened /\ w.discovered /\ IsLine(1) /\ ~Head(todo).checked /\ emitted' = emitted
        /\ w.bytes > 0 /\ ~retiring /\ retiring' = retiring
    BY <1>8, <1>b, HeadOfTurn DEF Seal, Appending, Files, IsLine, Overflows
  <2>2. LiveText # <<>>
    BY <2>1, NoIds DEF Bytes, QueueKept
  <2>3. \A i \in DOMAIN todo : IsLine(i) => todo[i].id \in 1..emitted
    BY <1>a, <2>2 DEF QueueKept, MarkerNext
  <2>4. w.rotated = None
    BY <1>a, <2>2 DEF QueueKept
  <2>5. CASE mode = "sync"
    <3>1. /\ w'.live = w.live + 1 /\ w'.rotated = w.live /\ w'.pending = w.pending
          /\ w'.discovered /\ ~w'.opened
      BY <1>8, <2>1, <2>5, AdvancedTypes DEF Seal, Writer
    <3>2. LiveText' = <<>>
      BY <1>8, <2>5, TextSteps
    <3>3. todo' = [todo EXCEPT ![1] = [todo[1] EXCEPT !.checked = TRUE]]
      BY <1>8, <2>1, <2>5 DEF Seal
    <3>4. DOMAIN todo' = DOMAIN todo /\ \A i \in DOMAIN todo : i # 1 => todo'[i] = todo[i]
      BY <3>3
    <3>5. todo'[1] = [todo[1] EXCEPT !.checked = TRUE] /\ 1 \in DOMAIN todo
      BY <2>1, <3>3 DEF IsLine
    <3>6. todo'[1].id = todo[1].id
      BY <2>1, <3>5 DEF LineItem
    <3>7. \A i \in DOMAIN todo' : IsLine(i)' => todo'[i].id \in 1..emitted'
      BY <2>1, <2>3, <3>4, <3>6 DEF IsLine
    <3>8. \A i \in DOMAIN todo' : IsLine(i)' /\ todo'[i].checked => i = 1
      <4> SUFFICES ASSUME NEW i \in DOMAIN todo', IsLine(i)', todo'[i].checked, i # 1
                   PROVE  FALSE
        OBVIOUS
      <4>1. IsLine(i) /\ todo[i].checked
        BY <3>4 DEF IsLine
      <4>2. i \in DOMAIN todo
        BY <3>4
      <4>4. todo[1].id = -w.live
        BY <1>a, <4>1, <4>2 DEF QueueKept
      <4>5. todo[1].id \in 1..emitted
        BY <2>1, <2>3, <3>5
      <4>3. todo[1].id > 0
        BY <1>0, <4>5
      <4> QED BY <1>0, <4>4, <4>3
    <3>9. Ids(LiveText') = {}
      BY <3>2, NoIds
    <3>11. w'.live > 0
      BY <1>0, <3>1
    <3>10. w'.live > 0 /\ \A i \in DOMAIN w'.pending :
                w'.pending[i].id \in 1..emitted' /\ ~w'.pending[i].checked
      BY <1>d, <2>1, <3>1, <3>11
    <3> QED
      BY <1>0, <2>5, <3>1, <3>2, <3>7, <3>8, <3>9, <3>10 DEF QueueKept
  <2>6. CASE mode # "sync"
    <3>1. /\ w'.live = w.live /\ w'.rotated = w.rotated
          /\ w'.pending = Append(w.pending, Head(todo))
          /\ w'.discovered = w.discovered /\ ~w'.opened /\ w'.usable = w.usable
      BY <1>0, <1>8, <2>6 DEF Seal, Writer
    <3>2. LiveText' = LiveText /\ todo' = Tail(todo)
      BY <1>8, <2>6, TextSteps DEF Seal
    <3>3. \A i \in DOMAIN w'.pending :
            (i \in DOMAIN w.pending /\ w'.pending[i] = w.pending[i]) \/ w'.pending[i] = Head(todo)
      BY <1>0, <2>1, <3>1
    <3>4. Head(todo).id \in 1..emitted
      BY <2>1, <2>3 DEF IsLine
    <3>5. \A i \in DOMAIN w'.pending : w'.pending[i].id \in 1..emitted /\ ~w'.pending[i].checked
      BY <1>a, <2>1, <3>3, <3>4 DEF QueueKept
    <3>6. /\ \A i \in DOMAIN todo' : IsLine(i)' => todo'[i].id \in 1..emitted'
          /\ \A i \in DOMAIN todo' : ~(IsLine(i)' /\ todo'[i].checked)
      BY <1>3, <2>1, <2>6, <3>1, <3>2
    <3> QED
      BY <2>1, <2>4, <3>1, <3>5, <3>6 DEF QueueKept
  <2> QED BY <2>5, <2>6
<1>9. CASE Write
  <2>1. /\ todo # <<>> /\ Head(todo) = todo[1] /\ Head(todo) \in LineItem
        /\ w.opened /\ emitted' = emitted /\ ~retiring /\ todo' = Tail(todo)
    BY <1>9, <1>b, HeadOfTurn DEF Write, Appending
  <2>2. /\ w'.live = w.live /\ w'.opened = w.opened /\ w'.discovered = w.discovered
        /\ w'.usable = w.usable /\ w'.rotated = w.rotated /\ w'.pending = w.pending
    BY <1>0, <1>9 DEF Write, Writer
  <2>3. w.rotated = None
    BY <1>a, <2>1 DEF QueueKept
  <2>4. Ids(LiveText') = Ids(LiveText) \union {Head(todo).id}
    <3>1. LiveText' = LiveText \o Units(Head(todo))
      BY <1>9, TextSteps
    <3>2. Units(Head(todo)) \in Seq(Unit) /\ Ids(Units(Head(todo))) = {Head(todo).id}
      BY <2>1, UnitsOfLine
    <3> QED BY <1>0, <3>1, <3>2, IdsOfConcat
  <2> QED
    BY <1>0, <1>3, <1>a, <2>1, <2>2, <2>3, <2>4 DEF QueueKept
<1>10. CASE FlushSync
  <2>1. /\ todo # <<>> /\ Head(todo) = todo[1] /\ emitted' = emitted /\ todo' = Tail(todo)
        /\ ~IsLine(1) /\ w' = w /\ ~retiring
    BY <1>10, <1>b DEF FlushSync, IsLine
  <2>2. Len(LiveText') = Len(LiveText)
    BY <1>10, TextSteps
  <2>3. LiveText = <<>> => LiveText' = <<>>
    BY <1>0, <2>2, EmptySeq, NoIds
  <2> QED
    BY <1>0, <1>3, <1>a, <2>1, <2>3, <1>10 DEF QueueKept, FlushSync
<1>11. CASE StartWrite
  BY <1>2, <1>11, TextSteps DEF StartWrite
<1>12. CASE Deposit
  BY <1>2, <1>12, TextSteps DEF Deposit
<1>13. CASE WriteFails
  <2>1. Len(LiveText) > 0 /\ emitted' = emitted /\ todo' = todo
    <3>1. stream.inflight \in Seq(Unit) /\ stream.inflight # <<>> /\ stream.buffer \in Seq(Unit)
          /\ wrote[w.live] \in Seq(Unit)
      BY <1>0, <1>13 DEF WriteFails, Types
    <3>2. Len(stream.inflight) > 0 /\ Len(stream.buffer) \in Nat /\ Len(wrote[w.live]) \in Nat
          /\ Len(stream.inflight) \in Nat
      BY <3>1, EmptySeq
    <3>3. Len(LiveText) = Len(wrote[w.live]) + Len(stream.inflight) + Len(stream.buffer)
      BY LiveTextParts
    <3>4. \A a, b, c \in Nat : b > 0 => a + b + c > 0
      OBVIOUS
    <3> QED BY <1>13, <3>2, <3>3, <3>4 DEF WriteFails
  <2>2. LiveText # <<>>
    BY <2>1, NoIds
  <2>3. /\ w'.discovered = w.discovered /\ ~w'.opened /\ w'.live = w.live
        /\ ~w'.usable /\ w'.rotated = w.rotated /\ w'.pending = w.pending
    BY <1>0, <1>13 DEF WriteFails, Disabled, Writer
  <2> QED
    BY <1>0, <1>a, <2>1, <2>2, <2>3 DEF QueueKept, IsLine, MarkerNext
<1>14. CASE SealDone
  <2>1. /\ w.live < MaxSegment /\ ~w.opened /\ w.discovered
    BY <1>14 DEF SealDone, Files
  <2>2. /\ w'.live = w.live + 1 /\ w'.rotated = w.live /\ w'.pending = <<>>
        /\ w'.discovered /\ ~w'.opened /\ todo' = w.pending /\ emitted' = emitted
    BY <1>14, <2>1, AdvancedTypes DEF SealDone, Writer
  <2>3. LiveText' = <<>>
    BY <1>14, TextSteps
  <2>4. \A i \in DOMAIN todo' : todo'[i].id \in 1..emitted' /\ ~todo'[i].checked
    BY <1>a, <2>2 DEF QueueKept
  <2>5. w'.live > 0 /\ w'.pending = <<>>
    BY <1>0, <2>2
  <2> QED
    BY <2>2, <2>3, <2>4, <2>5 DEF QueueKept
<1>15. CASE CloseLog
  <2>1. /\ w'.pending = w.pending /\ w'.discovered = w.discovered /\ w'.rotated = w.rotated
        /\ ~w'.opened /\ w'.live = w.live /\ todo = <<>> /\ todo' = todo /\ emitted' = emitted
    BY <1>0, <1>15 DEF CloseLog, Disabled, Writer, TurnOver
  <2>2. LiveText' = LiveText
    BY <1>15, TextSteps
  <2>3. todo' = <<>>
    BY <2>1
  <2>4. \A i \in DOMAIN w'.pending : w'.pending[i].id \in 1..emitted' /\ ~w'.pending[i].checked
    BY <1>a, <2>1 DEF QueueKept
  <2>5. w'.rotated # None =>
          w'.discovered /\ LiveText' = <<>> /\ w'.live > 0 /\ (w'.opened => retiring')
    BY <1>a, <2>1, <2>2 DEF QueueKept
  <2>6. DOMAIN todo' = {}
    BY <2>3
  <2> QED
    BY <2>4, <2>5, <2>6 DEF QueueKept
<1>16. CASE CrashAndRestart
  <2>1. todo' = <<>> /\ w'.pending = <<>> /\ w'.rotated = None
    BY <1>16 DEF CrashAndRestart, NewWriter
  <2> QED
    BY <2>1 DEF QueueKept
<1> QED
  BY <1>1, <1>4, <1>5, <1>6, <1>7, <1>8, <1>9, <1>10, <1>11, <1>12, <1>13, <1>14, <1>15, <1>16
     DEF LogNext

\* the bounds of a segment, kept by every step
LEMMA BytesStep ==
    ASSUME Types, Files, Bytes, LogNext, Types', Files'
    PROVE  Bytes'
<1>1. QueueKept'
  BY QueueStep
<1>2. w'.opened => w'.bytes = Len(LiveText')
  BY BytesCounted
<1>3. Fits(w.live, LiveText)' /\ (\A k \in Segments : Fits(k, wrote[k]))'
  BY LiveTextFits, WroteFits
<1> QED
  BY <1>1, <1>2, <1>3 DEF Bytes, QueueKept

\* the initial index and texts
LEMMA InitText == LogInit => Listing /\ Bytes
<1> SUFFICES ASSUME LogInit PROVE Listing /\ Bytes
  OBVIOUS
<1>1. Types
  BY InitTypes
<1>2. /\ DOMAIN disk = {} /\ ~w.discovered /\ ~w.opened /\ w.live = 0 /\ w.pending = <<>>
      /\ w.rotated = None /\ todo = <<>> /\ faults = {}
      /\ stream.inflight = <<>> /\ stream.buffer = <<>>
      /\ \A k \in Segments : wrote[k] = <<>>
  BY DEF LogInit, NewWriter, Idle
<1>3. Listing
  BY <1>2 DEF Listing, Contiguous
<1>4. 0 \in Segments
  BY Numbers DEF Segments
<1>5. LiveText = <<>>
  BY <1>1, <1>2, <1>4, LiveTextParts DEF Busy
<1>6. Ids(<<>>) = {} /\ Len(<<>>) = 0 /\ MaxBytes \in Nat
  BY NoIds, Numbers
<1>7. /\ \A k \in Segments : Fits(k, wrote[k])
      /\ Fits(w.live, LiveText)
  BY <1>2, <1>5, <1>6 DEF Fits
<1>8. DOMAIN todo = {} /\ DOMAIN w.pending = {}
  BY <1>2
<1>9. Bytes
  BY <1>2, <1>7, <1>8 DEF Bytes, QueueKept, IsLine
<1> QED
  BY <1>3, <1>9

\* what the invariant says of the files kept
LEMMA FilesKept ==
    ASSUME Types, Files, Listing, Bytes
    PROVE  KeptFiles
<1> USE Numbers
<1>1. ASSUME w.opened, ~retiring
      PROVE  /\ w.live \in DOMAIN disk
             /\ Cardinality(DOMAIN disk) <= MaxFiles + (IF "unlink" \in faults THEN 1 ELSE 0)
  <2>1. /\ w.live \in DOMAIN disk /\ w.discovered /\ w.live \in w.index /\ ~MustRetire
        /\ w.index \in SUBSET Segments /\ DOMAIN disk \subseteq Segments
        /\ \A j \in w.index : j <= w.live
    BY <1>1 DEF Files, Listing, Types, Writer
  <2>2. IsFiniteSet(w.index) /\ Cardinality(w.index) \in Nat
    <3>1. IsFiniteSet(Segments)
      BY FS_Interval DEF Segments
    <3> QED BY <2>1, <3>1, FS_Subset, FS_CardinalityType
  <2>3. Cardinality(w.index) <= MaxFiles
    <3>1. CASE Min(w.index) # w.live
      BY <2>1, <2>2, <3>1 DEF MustRetire
    <3>2. CASE Min(w.index) = w.live
      <4>1. \A j \in w.index : j = w.live
        BY <2>1, <3>2, MaxMin DEF Segments
      <4>2. w.index = {w.live}
        BY <2>1, <4>1
      <4>3. Cardinality({w.live}) = 1
        BY FS_Singleton
      <4> QED BY <4>2, <4>3
    <3> QED BY <3>1, <3>2
  <2>4. CASE "unlink" \notin faults
    <3>1. DOMAIN disk = w.index
      BY <2>1, <2>4 DEF Listing
    <3> QED BY <2>1, <2>2, <2>3, <2>4, <3>1
  <2>5. CASE "unlink" \in faults
    <3>1. PICK x \in Segments : DOMAIN disk \subseteq w.index \union {x}
      BY <2>1 DEF Listing
    <3>2. IsFiniteSet(w.index \union {x}) /\ Cardinality(w.index \union {x}) \in Nat
          /\ Cardinality(w.index \union {x}) <= Cardinality(w.index) + 1
      <4>1. /\ IsFiniteSet(w.index \union {x})
            /\ Cardinality(w.index \union {x}) =
                 IF x \in w.index THEN Cardinality(w.index) ELSE Cardinality(w.index) + 1
        BY <2>2, FS_AddElement
      <4> QED BY <2>2, <4>1
    <3>3. Cardinality(DOMAIN disk) \in Nat
          /\ Cardinality(DOMAIN disk) <= Cardinality(w.index \union {x})
      <4>1. IsFiniteSet(DOMAIN disk)
            /\ Cardinality(DOMAIN disk) <= Cardinality(w.index \union {x})
        BY <3>1, <3>2, FS_Subset
      <4> QED BY <4>1, FS_CardinalityType
    <3> QED BY <2>1, <2>2, <2>3, <2>5, <3>2, <3>3
  <2> QED BY <2>4, <2>5
<1> QED
  BY <1>1 DEF KeptFiles, Bytes, QueueKept, Fits

\* without a gap, two stats are enough
LEMMA ListingIsComplete ==
    ASSUME Types, Listing
    PROVE  ListingComplete
<1> SUFFICES ASSUME "unlink" \notin faults, DOMAIN disk # {}, Exists(0), ~Exists(1)
             PROVE  DOMAIN disk = {0}
  BY DEF ListingComplete, ListLogSegments
<1>1. Contiguous(DOMAIN disk) /\ DOMAIN disk \subseteq Segments
  BY DEF Listing, Types
<1>2. \A k \in DOMAIN disk : k = 0
  <2> SUFFICES ASSUME NEW k \in DOMAIN disk, k # 0 PROVE FALSE
    OBVIOUS
  <2>1. k \in Nat /\ k <= MaxSegment /\ 1 \in Segments /\ 0 <= 1 /\ 1 <= k
    BY <1>1, Numbers DEF Segments
  <2> QED BY <1>1, <2>1 DEF Contiguous, Exists
<1> QED
  BY <1>2 DEF Exists

\* a beginning of a text
LEMMA PrefixOfText ==
    ASSUME NEW s \in Seq(Unit), NEW t \in Seq(Unit)
    PROVE  IsPrefix(s, t) <=> Len(s) <= Len(t) /\ s = SubSeq(t, 1, Len(s))
BY SubSeqFull DEF IsPrefix

\* a text is its whole lines and the rest, which ends no line
LEMMA LinesOfText ==
    ASSUME NEW text \in Seq(Unit)
    PROVE  /\ LineEnd(text) \in 0..Len(text)
           /\ LineEnd(text) > 0 => text[LineEnd(text)].last
           /\ \A i \in DOMAIN text : text[i].last => i <= LineEnd(text)
           /\ WholeLines(text) \in Seq(Unit) /\ Fragment(text) \in Seq(Unit)
           /\ WholeLines(text) \o Fragment(text) = text
           /\ EndsLine(WholeLines(text))
           /\ \A i \in DOMAIN Fragment(text) : ~Fragment(text)[i].last
<1> DEFINE S == {0} \union {i \in DOMAIN text : text[i].last}
           e == LineEnd(text)
<1>1. DOMAIN text = 1..Len(text) /\ Len(text) \in Nat
  OBVIOUS
<1>2. e \in S /\ \A i \in S : i <= e
  <2>1. S \subseteq Nat /\ \A i \in S : i <= Len(text)
    BY <1>1
  <2>2. \E x \in S : \A y \in S : y <= x
    <3> DEFINE D == {Len(text) - x : x \in S}
    <3>1. D \in SUBSET Nat /\ D # {}
      BY <1>1, <2>1
    <3>2. PICK d \in D : \A y \in D : d <= y
      <4> HIDE DEF D
      <4> QED BY <3>1, LeastNat
    <3>3. PICK z \in S : d = Len(text) - z
      OBVIOUS
    <3>4. \A y \in S : Len(text) - z <= Len(text) - y
      BY <3>2, <3>3
    <3> HIDE DEF D, S
    <3> QED
      BY <1>1, <2>1, <3>4
  <2>3. e = Max(S)
    BY DEF LineEnd
  <2> HIDE DEF S, e
  <2> QED
    BY <2>2, <2>3 DEF Max
<1>3. /\ e \in 0..Len(text)
      /\ e > 0 => text[e].last
      /\ \A i \in DOMAIN text : text[i].last => i <= e
  <2>1. e \in S
    BY <1>2
  <2>2. \A i \in S : i <= e
    BY <1>2
  <2> HIDE DEF e
  <2> QED BY <1>1, <2>1, <2>2
<1> HIDE DEF e
<1>4. WholeLines(text) = SubSeq(text, 1, e) /\ Fragment(text) = SubSeq(text, e + 1, Len(text))
  BY DEF WholeLines, Fragment, e
<1>5. /\ SubSeq(text, 1, e) \in Seq(Unit) /\ Len(SubSeq(text, 1, e)) = e
      /\ \A i \in 1..e : SubSeq(text, 1, e)[i] = text[i]
  <2>1. \A i \in 1..e : text[i] \in Unit
    BY <1>1, <1>3
  <2>2. /\ SubSeq(text, 1, e) \in Seq(Unit)
        /\ Len(SubSeq(text, 1, e)) = IF 1 <= e THEN e - 1 + 1 ELSE 0
        /\ \A i \in 1..e - 1 + 1 : SubSeq(text, 1, e)[i] = text[1 + i - 1]
    BY <1>3, <2>1, SubSeqProperties
  <2> QED BY <1>3, <2>2
<1>6. /\ SubSeq(text, e + 1, Len(text)) \in Seq(Unit)
      /\ Len(SubSeq(text, e + 1, Len(text))) = Len(text) - e
      /\ \A i \in 1..Len(text) - e : SubSeq(text, e + 1, Len(text))[i] = text[e + i]
  <2>1. \A i \in e + 1..Len(text) : text[i] \in Unit
    BY <1>1, <1>3
  <2>2. /\ SubSeq(text, e + 1, Len(text)) \in Seq(Unit)
        /\ Len(SubSeq(text, e + 1, Len(text))) =
             IF e + 1 <= Len(text) THEN Len(text) - (e + 1) + 1 ELSE 0
        /\ \A i \in 1..Len(text) - (e + 1) + 1 :
             SubSeq(text, e + 1, Len(text))[i] = text[e + 1 + i - 1]
    BY <1>1, <1>3, <2>1, SubSeqProperties
  <2> QED BY <1>1, <1>3, <2>2
<1>7. WholeLines(text) \o Fragment(text) = text
  <2>1. SubSeq(text, 1, e) \o SubSeq(text, e + 1, Len(text)) = SubSeq(text, 1, Len(text))
    <3>1. 1 \in 1..Len(text) + 1 /\ e \in 1 - 1..Len(text) /\ Len(text) \in e..Len(text)
      BY <1>1, <1>3
    <3> QED BY <3>1, ConcatAdjacentSubSeq
  <2> QED BY <1>4, <2>1, SubSeqFull
<1>8. EndsLine(WholeLines(text))
  <2>1. CASE e = 0
    BY <1>1, <1>3, <1>4, <2>1, SubSeqEmpty DEF EndsLine
  <2>2. CASE e > 0
    BY <1>3, <1>4, <1>5, <2>2 DEF EndsLine
  <2> QED BY <1>3, <2>1, <2>2
<1>9. \A i \in DOMAIN Fragment(text) : ~Fragment(text)[i].last
  <2> SUFFICES ASSUME NEW i \in DOMAIN Fragment(text) PROVE ~Fragment(text)[i].last
    OBVIOUS
  <2>1. i \in 1..Len(text) - e /\ Fragment(text)[i] = text[e + i]
    BY <1>4, <1>6
  <2>2. e + i \in DOMAIN text /\ ~(e + i <= e)
    BY <1>1, <1>3, <2>1
  <2> QED BY <1>3, <2>1, <2>2
<1> QED
  BY <1>3, <1>4, <1>5, <1>6, <1>7, <1>8, <1>9 DEF e

\* what ends in a newline, followed by what has none, is its own whole lines
LEMMA LinesOfJoined ==
    ASSUME NEW s \in Seq(Unit), NEW t \in Seq(Unit), EndsLine(s),
           \A i \in DOMAIN t : ~t[i].last
    PROVE  WholeLines(s \o t) = s
<1> DEFINE u == s \o t
           e == LineEnd(u)
<1>1. /\ u \in Seq(Unit) /\ Len(u) = Len(s) + Len(t) /\ Len(s) \in Nat /\ Len(t) \in Nat
      /\ \A i \in 1..Len(s) : u[i] = s[i]
      /\ \A i \in 1..Len(t) : u[Len(s) + i] = t[i]
  BY Joined
<1>2. /\ e \in 0..Len(u)
      /\ e > 0 => u[e].last
      /\ \A i \in DOMAIN u : u[i].last => i <= e
  <2> HIDE DEF u
  <2> QED BY <1>1, LinesOfText
<1> HIDE DEF u, e
<1>3. e <= Len(s)
  <2> SUFFICES ASSUME e > Len(s) PROVE FALSE
    BY <1>1, <1>2
  <2>1. e - Len(s) \in 1..Len(t) /\ Len(s) + (e - Len(s)) = e
    BY <1>1, <1>2
  <2>2. u[e] = t[e - Len(s)] /\ e - Len(s) \in DOMAIN t
    BY <1>1, <2>1
  <2> QED BY <1>1, <1>2, <2>2
<1>4. Len(s) <= e
  <2>1. CASE s = <<>>
    BY <1>1, <1>2, <2>1, NoIds
  <2>2. CASE s # <<>>
    <3>1. Len(s) \in 1..Len(s) /\ s[Len(s)].last
      BY <1>1, <2>2, EmptySeq DEF EndsLine
    <3>2. u[Len(s)].last /\ Len(s) \in DOMAIN u
      BY <1>1, <3>1
    <3> QED BY <1>2, <3>2
  <2> QED BY <2>1, <2>2
<1>5. e = Len(s)
  BY <1>1, <1>2, <1>3, <1>4
<1>6. WholeLines(u) = SubSeq(u, 1, Len(s))
  BY <1>5 DEF WholeLines, e
<1>7. SubSeq(u, 1, Len(s)) = s
  <2>1. \A i \in 1..Len(s) : u[i] \in Unit
    BY <1>1
  <2>2. /\ SubSeq(u, 1, Len(s)) \in Seq(Unit)
        /\ Len(SubSeq(u, 1, Len(s))) = IF 1 <= Len(s) THEN Len(s) - 1 + 1 ELSE 0
        /\ \A i \in 1..Len(s) - 1 + 1 : SubSeq(u, 1, Len(s))[i] = u[1 + i - 1]
    BY <1>1, <2>1, SubSeqProperties
  <2>3. Len(SubSeq(u, 1, Len(s))) = Len(s) /\ \A i \in 1..Len(s) : SubSeq(u, 1, Len(s))[i] = s[i]
    BY <1>1, <2>2
  <2> QED BY <2>2, <2>3, SeqEqual
<1> QED
  BY <1>6, <1>7 DEF u

\* the follower begins with nothing
LEMMA InitFollow == Init => FollowerTypes /\ Follow
<1> SUFFICES ASSUME Init PROVE FollowerTypes /\ Follow
  OBVIOUS
<1>1. /\ pc = "stat" /\ cursor = [segment |-> 0, offset |-> 0] /\ size = 0 /\ leftover = <<>>
      /\ delivered = [k \in Segments |-> <<>>]
      /\ wrote = [k \in Segments |-> <<>>]
  BY DEF Init, LogInit, FollowerInit
<1>2. 0 \in Segments /\ \A k \in Segments : k >= 0 /\ k \in Nat
  BY Numbers DEF Segments
<1>3. FollowerTypes
  BY <1>1, <1>2 DEF FollowerTypes
<1>4. \A k \in Segments : delivered[k] = <<>> /\ wrote[k] = <<>>
  BY <1>1
<1>5. <<>> \o <<>> = <<>> /\ SubSeq(<<>>, 1, 0) = <<>> /\ <<>> \in Seq(Unit)
  BY SubSeqEmpty, EmptySeq, ConcatEmptySeq
<1>6. Len(<<>>) = 0 /\ DOMAIN leftover = {}
  BY <1>1
<1>7. cursor.segment = 0 /\ cursor.offset = 0
  BY <1>1
<1>8. \A k \in Segments : EndsLine(delivered[k])
  BY <1>4 DEF EndsLine
<1>9. delivered[0] \o leftover = SubSeq(wrote[0], 1, 0)
  BY <1>1, <1>2, <1>4, <1>5
<1>10. ~(\E k \in Segments : k < 0) /\ Len(wrote[0]) = 0
  BY <1>2, <1>4, <1>6
<1> QED
  BY <1>1, <1>2, <1>3, <1>4, <1>6, <1>7, <1>8, <1>9, <1>10 DEF Follow

\* the writer's steps leave what was read valid
LEMMA FollowWhileWriting ==
    ASSUME Types, Files, FollowerTypes, Follow, LogNext, UNCHANGED followerVars
    PROVE  Follow'
<1> DEFINE c == cursor.segment
<1>1. c \in Segments /\ cursor.offset \in Nat /\ wrote \in [Segments -> Seq(Unit)]
      /\ stream.inflight \in Seq(Unit) /\ size \in Nat
  BY DEF FollowerTypes, Types
<1>2. /\ Sealed \subseteq Sealed'
      /\ \A k \in Sealed : wrote'[k] = wrote[k] /\ (k \in DOMAIN disk' => k \in DOMAIN disk)
      /\ \A k \in Segments :
            \/ wrote'[k] = wrote[k]
            \/ /\ k = stream.segment /\ stream.inflight # <<>>
               /\ wrote'[k] = Append(wrote[k], Head(stream.inflight))
  BY SegmentsStep
<1>3. /\ pc' = pc /\ cursor' = cursor /\ size' = size /\ leftover' = leftover
      /\ delivered' = delivered
  BY DEF followerVars
<1>4. /\ Len(wrote[c]) \in Nat /\ Len(wrote'[c]) \in Nat /\ Len(wrote[c]) <= Len(wrote'[c])
      /\ SubSeq(wrote'[c], 1, cursor.offset) = SubSeq(wrote[c], 1, cursor.offset)
  <2>1. CASE wrote'[c] = wrote[c]
    BY <1>1, <2>1
  <2>2. CASE stream.inflight # <<>> /\ wrote'[c] = Append(wrote[c], Head(stream.inflight))
    <3>1. Head(stream.inflight) \in Unit /\ wrote[c] \in Seq(Unit)
      BY <1>1, <2>2, HeadTailProperties
    <3>2. Len(wrote'[c]) = Len(wrote[c]) + 1 /\ Len(wrote[c]) \in Nat
      BY <2>2, <3>1
    <3>3. <<Head(stream.inflight)>> \in Seq(Unit)
          /\ wrote'[c] = wrote[c] \o <<Head(stream.inflight)>>
      BY <2>2, <3>1, AppendIsConcat
    <3>4. cursor.offset <= Len(wrote[c])
      BY DEF Follow
    <3>5. CASE cursor.offset = 0
      <4>1. \A s : SubSeq(s, 1, 0) = <<>>
        BY SubSeqEmpty
      <4> QED BY <3>2, <3>5, <4>1
    <3>6. CASE cursor.offset # 0
      <4>1. 1 \in 1..Len(wrote[c]) /\ cursor.offset \in 1..Len(wrote[c])
        BY <1>1, <3>2, <3>4, <3>6
      <4> QED BY <3>1, <3>2, <3>3, <4>1, SubSeqOfConcat1
    <3> QED BY <3>2, <3>5, <3>6
  <2> QED BY <1>1, <1>2, <2>1, <2>2
<1>5. cursor.offset <= Len(wrote'[c])
      /\ delivered[c] \o leftover = SubSeq(wrote'[c], 1, cursor.offset)
      /\ (pc \in {"read", "drain"} => cursor.offset <= size /\ size <= Len(wrote'[c]))
  BY <1>1, <1>4 DEF Follow
<1>6. \A k \in Segments : k < c =>
            /\ IsPrefix(delivered[k], wrote'[k])
            /\ k \in Sealed'
            /\ delivered[k] # <<>> /\ k \in DOMAIN disk' => delivered[k] = WholeLines(wrote'[k])
  BY <1>2 DEF Follow
<1>7. /\ pc \in {"final", "drain"} => c \in Sealed'
      /\ pc = "drain" => size = Len(wrote'[c])
      /\ pc = "scan" /\ delivered[c] # <<>> => c \in Sealed' /\ c \notin DOMAIN disk'
  BY <1>2 DEF Follow
<1>8. /\ \A i \in DOMAIN leftover : ~leftover[i].last
      /\ \A k \in Segments : EndsLine(delivered[k])
      /\ \A k \in Segments : k > c => delivered[k] = <<>>
  BY DEF Follow
<1> QED
  BY <1>3, <1>5, <1>6, <1>7, <1>8 DEF Follow

\* reading on from the cursor: what was handed out and what is left over are
\* together what the cursor has passed
LEMMA Reading ==
    ASSUME Types, Files, FollowerTypes, Follow, pc \in {"read", "drain"}, Exists(cursor.segment),
           HandOut(leftover \o Unread)
    PROVE  LET c == cursor.segment
               rest == Fragment(leftover \o Unread)
           IN  /\ delivered' \in [Segments -> Seq(Unit)] /\ rest \in Seq(Unit)
               /\ delivered'[c] \o rest = SubSeq(wrote[c], 1, size)
               /\ \A i \in DOMAIN rest : ~rest[i].last
               /\ EndsLine(delivered'[c])
               /\ \A k \in Segments : k # c => delivered'[k] = delivered[k]
<1> DEFINE c == cursor.segment
           text == leftover \o Unread
           rest == Fragment(text)
           lines == WholeLines(text)
<1>1. /\ c \in Segments /\ cursor.offset \in Nat /\ wrote[c] \in Seq(Unit) /\ size \in Nat
      /\ leftover \in Seq(Unit) /\ delivered \in [Segments -> Seq(Unit)]
      /\ Len(wrote[c]) \in Nat
  BY DEF FollowerTypes, Types
<1>2. cursor.offset <= size /\ size <= Len(wrote[c]) /\ disk[c] = wrote[c]
  BY DEF Follow, Files, Exists
<1>3. Unread = SubSeq(wrote[c], cursor.offset + 1, size)
  BY <1>2 DEF Unread
<1>4. Unread \in Seq(Unit)
  <2>1. \A i \in cursor.offset + 1..size : wrote[c][i] \in Unit
    BY <1>1, <1>2
  <2>2. cursor.offset + 1 \in Int /\ size \in Int
    BY <1>1
  <2> QED BY <1>3, <2>1, <2>2, SubSeqProperties
<1>5. text \in Seq(Unit)
  BY <1>1, <1>4, ConcatProperties
<1>6. SubSeq(wrote[c], 1, cursor.offset) \o Unread = SubSeq(wrote[c], 1, size)
  <2>1. /\ 1 \in 1..Len(wrote[c]) + 1 /\ cursor.offset \in 1 - 1..Len(wrote[c])
        /\ size \in cursor.offset..Len(wrote[c])
    BY <1>1, <1>2
  <2> QED BY <1>1, <1>3, <2>1, ConcatAdjacentSubSeq
<1>7. /\ lines \in Seq(Unit) /\ rest \in Seq(Unit) /\ lines \o rest = text /\ EndsLine(lines)
      /\ \A i \in DOMAIN rest : ~rest[i].last
  <2> HIDE DEF text
  <2> QED BY <1>5, LinesOfText
<1>8. delivered' = [delivered EXCEPT ![c] = delivered[c] \o lines]
  BY DEF HandOut
<1> HIDE DEF text, lines, rest
<1>9. delivered[c] \o lines \in Seq(Unit)
  BY <1>1, <1>7, ConcatProperties
<1>10. /\ delivered' \in [Segments -> Seq(Unit)] /\ delivered'[c] = delivered[c] \o lines
       /\ \A k \in Segments : k # c => delivered'[k] = delivered[k]
  BY <1>1, <1>8, <1>9
<1>11. delivered'[c] \o rest = SubSeq(wrote[c], 1, size)
  <2>4. delivered[c] \in Seq(Unit)
    BY <1>1
  <2>1. (delivered[c] \o lines) \o rest = delivered[c] \o text
    <3>1. (delivered[c] \o lines) \o rest = delivered[c] \o (lines \o rest)
      BY <1>7, <2>4, JoinedThrice
    <3> QED BY <1>7, <3>1
  <2>2. delivered[c] \o text = (delivered[c] \o leftover) \o Unread
    BY <1>1, <1>4, <2>4, JoinedThrice DEF text
  <2>3. delivered[c] \o leftover = SubSeq(wrote[c], 1, cursor.offset)
    BY DEF Follow
  <2> QED BY <1>6, <1>10, <2>1, <2>2, <2>3
<1>12. EndsLine(delivered'[c])
  <2>1. CASE lines = <<>>
    <3>1. delivered'[c] = delivered[c]
      BY <1>1, <1>10, <2>1, ConcatEmptySeq
    <3> QED BY <1>1, <3>1 DEF Follow
  <2>2. CASE lines # <<>>
    <3>1. Len(lines) \in Nat \ {0} /\ lines[Len(lines)].last
      BY <1>7, <2>2, EmptySeq DEF EndsLine
    <3>2. /\ Len(delivered[c] \o lines) = Len(delivered[c]) + Len(lines)
          /\ \A i \in 1..Len(lines) : (delivered[c] \o lines)[Len(delivered[c]) + i] = lines[i]
      BY <1>1, <1>7, Joined
    <3>3. (delivered[c] \o lines)[Len(delivered[c] \o lines)] = lines[Len(lines)]
      BY <3>1, <3>2
    <3> QED BY <1>10, <3>1, <3>3 DEF EndsLine
  <2> QED BY <2>1, <2>2
<1> QED
  BY <1>7, <1>10, <1>11, <1>12 DEF rest, text

\* what is known of a segment the cursor has read to its end
LEMMA Finished ==
    ASSUME NEW d \in Seq(Unit), NEW rest \in Seq(Unit), NEW text \in Seq(Unit), NEW n \in Nat,
           n <= Len(text), d \o rest = SubSeq(text, 1, n), EndsLine(d),
           \A i \in DOMAIN rest : ~rest[i].last
    PROVE  IsPrefix(d, text) /\ (n = Len(text) => d = WholeLines(text))
<1>1. /\ Len(d) \in Nat /\ Len(rest) \in Nat /\ Len(text) \in Nat
      /\ d \o rest \in Seq(Unit) /\ Len(d \o rest) = Len(d) + Len(rest)
      /\ \A i \in 1..Len(d) : (d \o rest)[i] = d[i]
  BY Joined
<1>2. /\ Len(SubSeq(text, 1, n)) = n
      /\ \A i \in 1..n : SubSeq(text, 1, n)[i] = text[i]
  <2>1. \A i \in 1..n : text[i] \in Unit
    BY <1>1
  <2>2. /\ Len(SubSeq(text, 1, n)) = IF 1 <= n THEN n - 1 + 1 ELSE 0
        /\ \A i \in 1..n - 1 + 1 : SubSeq(text, 1, n)[i] = text[1 + i - 1]
    BY <2>1, SubSeqProperties
  <2> QED BY <2>2
<1>3. Len(d) <= n /\ \A i \in 1..Len(d) : d[i] = text[i]
  BY <1>1, <1>2
<1>4. d = SubSeq(text, 1, Len(d))
  <2>1. \A i \in 1..Len(d) : text[i] \in Unit
    BY <1>1, <1>3
  <2>2. /\ SubSeq(text, 1, Len(d)) \in Seq(Unit)
        /\ Len(SubSeq(text, 1, Len(d))) = IF 1 <= Len(d) THEN Len(d) - 1 + 1 ELSE 0
        /\ \A i \in 1..Len(d) - 1 + 1 : SubSeq(text, 1, Len(d))[i] = text[1 + i - 1]
    BY <1>1, <2>1, SubSeqProperties
  <2>3. /\ Len(SubSeq(text, 1, Len(d))) = Len(d)
        /\ \A i \in 1..Len(d) : SubSeq(text, 1, Len(d))[i] = d[i]
    BY <1>1, <1>3, <2>2
  <2> QED BY <2>2, <2>3, SeqEqual
<1>5. IsPrefix(d, text)
  BY <1>1, <1>3, <1>4, PrefixOfText
<1>6. ASSUME n = Len(text) PROVE d = WholeLines(text)
  <2>1. d \o rest = text
    BY <1>6, SubSeqFull
  <2>2. WholeLines(d \o rest) = d
    BY LinesOfJoined
  <2> QED BY <2>1, <2>2
<1> QED
  BY <1>5, <1>6

\* the segment the cursor leaves and the one it comes to
LEMMA Leaving ==
    ASSUME Types, Files, FollowerTypes, Follow, UNCHANGED logVars,
           NEW d \in [Segments -> Seq(Unit)], NEW rest \in Seq(Unit), NEW n \in Nat,
           NEW next \in Segments, next > cursor.segment,
           next \in DOMAIN disk \/ (cursor.segment \in Sealed /\ next = cursor.segment + 1),
           \A k \in DOMAIN disk : k > cursor.segment => k >= next,
           d[cursor.segment] \o rest = SubSeq(wrote[cursor.segment], 1, n),
           n <= Len(wrote[cursor.segment]),
           EndsLine(d[cursor.segment]),
           \A i \in DOMAIN rest : ~rest[i].last,
           \A k \in Segments : k # cursor.segment => d[k] = delivered[k],
           d[cursor.segment] # <<>> /\ cursor.segment \in DOMAIN disk =>
                n = Len(wrote[cursor.segment]),
           cursor' = At(next), leftover' = <<>>, delivered' = d, pc' = "stat"
    PROVE  Follow'
<1> DEFINE c == cursor.segment
<1>1. /\ c \in Segments /\ wrote \in [Segments -> Seq(Unit)] /\ wrote' = wrote /\ disk' = disk
      /\ wrote[c] \in Seq(Unit) /\ d[c] \in Seq(Unit)
      /\ \A k \in Segments : k \in Nat
  <2>1. c \in Segments
    BY DEF FollowerTypes
  <2>2. wrote \in [Segments -> Seq(Unit)]
    BY DEF Types
  <2>3. wrote' = wrote /\ disk' = disk
    BY DEF logVars
  <2>4. \A k \in Segments : k \in Nat
    BY DEF Segments
  <2> QED BY <2>1, <2>2, <2>3, <2>4
<1>2. cursor'.segment = next /\ cursor'.offset = 0
  BY DEF At
<1>3. c \in Sealed /\ \A k \in Segments : k < next /\ k >= c => k \in Sealed
  BY <1>1 DEF Sealed
<1>4. Sealed' = Sealed
  BY <1>1 DEF Sealed
<1>5. IsPrefix(d[c], wrote[c]) /\ (n = Len(wrote[c]) => d[c] = WholeLines(wrote[c]))
  <2>1. /\ d[c] \o rest = SubSeq(wrote[c], 1, n) /\ n <= Len(wrote[c])
        /\ EndsLine(d[c])
        /\ \A i \in DOMAIN rest : ~rest[i].last
    OBVIOUS
  <2>2. wrote[c] \in Seq(Unit) /\ d[c] \in Seq(Unit)
    BY <1>1
  <2> HIDE DEF c
  <2> QED BY <2>1, <2>2, Finished
<1>6. /\ \A k \in Segments : EndsLine(d[k])
      /\ \A k \in Segments : k > c => d[k] = <<>>
  <2>1. /\ \A k \in Segments : EndsLine(delivered[k])
        /\ \A k \in Segments : k > c => delivered[k] = <<>>
    BY DEF Follow
  <2>2. \A k \in Segments : k > c => k # c
    BY <1>1
  <2> QED BY <2>1, <2>2
<1>7. \A s : SubSeq(s, 1, 0) = <<>>
  BY SubSeqEmpty
<1>8. \A k \in Segments : k < next =>
            /\ IsPrefix(d[k], wrote[k])
            /\ k \in Sealed
            /\ d[k] # <<>> /\ k \in DOMAIN disk => d[k] = WholeLines(wrote[k])
  <2> SUFFICES ASSUME NEW k \in Segments, k < next
               PROVE  /\ IsPrefix(d[k], wrote[k])
                      /\ k \in Sealed
                      /\ d[k] # <<>> /\ k \in DOMAIN disk => d[k] = WholeLines(wrote[k])
    OBVIOUS
  <2>1. CASE k < c
    <3>1. k # c /\ d[k] = delivered[k]
      BY <1>1, <2>1
    <3> QED BY <2>1, <3>1 DEF Follow
  <2>2. CASE k = c
    BY <1>3, <1>5, <2>2
  <2>3. CASE k > c
    <3>1. d[k] = <<>> /\ wrote[k] \in Seq(Unit) /\ k \in Sealed
      BY <1>1, <1>3, <1>6, <2>3
    <3>2. IsPrefix(<<>>, wrote[k])
      <4>1. Len(<<>>) = 0 /\ Len(wrote[k]) \in Nat /\ <<>> \in Seq(Unit)
        BY <3>1
      <4>2. Len(<<>>) <= Len(wrote[k])
        BY <4>1
      <4> QED BY <1>7, <3>1, <4>1, <4>2, PrefixOfText
    <3> QED BY <3>1, <3>2
  <2> QED BY <1>1, <2>1, <2>2, <2>3
<1>9. d[next] = <<>> /\ \A k \in Segments : k > next => d[k] = <<>>
  BY <1>1, <1>6
<1>10. Len(wrote[next]) \in Nat /\ <<>> \o <<>> = <<>>
  BY <1>1, ConcatEmptySeq, EmptySeq
<1>11. DOMAIN leftover' = {}
  OBVIOUS
<1>12. d[next] \o leftover' = SubSeq(wrote[next], 1, 0)
  BY <1>7, <1>9, <1>10
<1>13. 0 <= Len(wrote[next])
  BY <1>10
<1> QED
  BY <1>1, <1>2, <1>4, <1>6, <1>8, <1>9, <1>11, <1>12, <1>13 DEF Follow

\* a step that only moves the poll on
LEMMA PollMoves ==
    ASSUME Types, FollowerTypes, Follow, UNCHANGED logVars,
           cursor' = cursor, leftover' = leftover, delivered' = delivered,
           pc' \in {"read", "drain"} =>
                cursor.offset <= size' /\ size' <= Len(wrote[cursor.segment]),
           pc' \in {"final", "drain"} => cursor.segment \in Sealed,
           pc' = "drain" => size' = Len(wrote[cursor.segment]),
           pc' = "scan" /\ delivered[cursor.segment] # <<>> =>
                cursor.segment \in Sealed /\ cursor.segment \notin DOMAIN disk
    PROVE  Follow'
<1>1. wrote' = wrote /\ disk' = disk
  BY DEF logVars
<1>2. Sealed' = Sealed
  BY <1>1 DEF Sealed
<1>3. \A k \in Segments : EndsLine(delivered'[k]) <=> EndsLine(delivered[k])
  OBVIOUS
<1> QED
  BY <1>1, <1>2, <1>3 DEF Follow

\* and the follower's own steps
LEMMA FollowWhilePolling ==
    ASSUME Types, Files, FollowerTypes, Follow, FollowerStep, UNCHANGED logVars
    PROVE  FollowerTypes' /\ Follow'
<1> DEFINE c == cursor.segment
           top == Len(wrote[c])
<1>1. /\ c \in Segments /\ c \in Nat /\ cursor.offset \in Nat /\ size \in Nat
      /\ wrote \in [Segments -> Seq(Unit)] /\ top \in Nat
      /\ leftover \in Seq(Unit) /\ delivered \in [Segments -> Seq(Unit)]
      /\ delivered[c] \in Seq(Unit)
      /\ DOMAIN disk \subseteq Segments /\ MaxSegment \in Nat
      /\ cursor \in [segment : Segments, offset : Nat]
  <2>1. c \in Segments /\ wrote \in [Segments -> Seq(Unit)]
    BY DEF FollowerTypes, Types
  <2>2. top \in Nat
    BY <2>1
  <2> QED BY <2>1, <2>2, Numbers DEF FollowerTypes, Types, Segments
<1>2. wrote' = wrote /\ disk' = disk
  BY DEF logVars
<1>3. Exists(c) => disk[c] = wrote[c]
  BY DEF Files, Exists
<1>4. cursor.offset <= top
  BY DEF Follow
<1>5. c + 1 \in Segments => (c + 1 \in DOMAIN disk => c \in Sealed)
  BY <1>1 DEF Sealed
<1>6. CASE Stat
  <2>1. cursor' = cursor /\ leftover' = leftover /\ delivered' = delivered
    BY <1>6 DEF Stat
  <2>2. CASE ~Exists(c)
    <3>1. pc' = "scan" /\ size' = size
      BY <1>6, <2>2 DEF Stat
    <3>2. delivered[c] # <<>> => c \in Sealed
      <4> SUFFICES ASSUME delivered[c] # <<>> PROVE c \in Sealed
        OBVIOUS
      <4>1. wrote[c] # <<>>
        <5> SUFFICES ASSUME wrote[c] = <<>> PROVE FALSE
          OBVIOUS
        <5>1. top = 0 /\ cursor.offset = 0
          BY <1>1, <1>4, NoIds
        <5>2. delivered[c] \o leftover = <<>>
          <6>1. \A s : SubSeq(s, 1, 0) = <<>>
            BY SubSeqEmpty
          <6> QED BY <5>1, <6>1 DEF Follow
        <5> QED BY <1>1, <5>2, ConcatEqualIffEmpty
      <4>2. PICK j \in DOMAIN disk : j >= c
        BY <1>1, <4>1 DEF Files
      <4>3. j # c /\ j \in Nat
        BY <1>1, <2>2 DEF Exists, Segments
      <4> QED BY <1>1, <4>2, <4>3 DEF Sealed
    <3>3. Follow'
      BY <2>1, <2>2, <3>1, <3>2, PollMoves DEF Exists
    <3> QED BY <1>1, <2>1, <3>1, <3>3 DEF FollowerTypes
  <2>3. CASE Exists(c) /\ Len(disk[c]) > cursor.offset
    <3>1. pc' = "read" /\ size' = top
      BY <1>3, <1>6, <2>3 DEF Stat
    <3>2. Follow'
      BY <1>1, <1>4, <2>1, <3>1, PollMoves
    <3> QED BY <1>1, <2>1, <3>1, <3>2 DEF FollowerTypes
  <2>4. CASE Exists(c) /\ ~(Len(disk[c]) > cursor.offset)
    <3>1. pc' = "successor" /\ size' = size
      BY <1>6, <2>4 DEF Stat
    <3>2. Follow'
      BY <2>1, <3>1, PollMoves
    <3> QED BY <1>1, <2>1, <3>1, <3>2 DEF FollowerTypes
  <2> QED BY <2>2, <2>3, <2>4
<1>7. CASE Scan
  <2> DEFINE above == {k \in DOMAIN disk : k > cursor.segment}
  <2>1. pc' = "stat" /\ size' = size /\ delivered' = delivered
    BY <1>7 DEF Scan
  <2>2. CASE above = {}
    <3>1. cursor' = cursor /\ leftover' = leftover
      BY <1>7, <2>2 DEF Scan
    <3>2. Follow'
      BY <2>1, <3>1, PollMoves
    <3> QED BY <1>1, <2>1, <3>1, <3>2 DEF FollowerTypes
  <2>3. CASE above # {}
    <3> DEFINE next == Min(above)
    <3>1. cursor' = At(next) /\ leftover' = <<>>
      BY <1>7, <2>3 DEF Scan
    <3>2. next \in above /\ \A y \in above : next <= y
      <4>1. above \in SUBSET Segments
        BY <1>1
      <4> HIDE DEF above
      <4> QED BY <2>3, <4>1, MaxMin
    <3>3. /\ next \in Segments /\ next > c /\ next \in DOMAIN disk
          /\ \A k \in DOMAIN disk : k > c => k >= next
      BY <1>1, <3>2 DEF Segments
    <3> HIDE DEF next, above
    <3>4. c \in DOMAIN disk => delivered[c] = <<>>
      BY <1>7 DEF Follow, Scan
    <3>5. /\ delivered[c] \o leftover = SubSeq(wrote[c], 1, cursor.offset)
          /\ EndsLine(delivered[c])
          /\ \A i \in DOMAIN leftover : ~leftover[i].last
      BY <1>1 DEF Follow
    <3>6. Follow'
      BY <1>1, <1>4, <2>1, <3>1, <3>3, <3>4, <3>5, Leaving
    <3>7. cursor' \in [segment : Segments, offset : Nat]
      BY <3>1, <3>3 DEF At
    <3> QED BY <1>1, <2>1, <3>1, <3>6, <3>7 DEF FollowerTypes
  <2> QED BY <2>2, <2>3
<1>8. CASE FirstRead
  <2>1. /\ pc = "read" /\ Exists(c) /\ HandOut(leftover \o Unread) /\ pc' = "successor" /\ size' = 0
        /\ leftover' = Fragment(leftover \o Unread) /\ cursor' = [cursor EXCEPT !.offset = size]
    BY <1>8 DEF FirstRead
  <2>2. /\ delivered' \in [Segments -> Seq(Unit)] /\ leftover' \in Seq(Unit)
        /\ delivered'[c] \o leftover' = SubSeq(wrote[c], 1, size)
        /\ \A i \in DOMAIN leftover' : ~leftover'[i].last
        /\ EndsLine(delivered'[c])
        /\ \A k \in Segments : k # c => delivered'[k] = delivered[k]
    BY <2>1, Reading
  <2>3. cursor'.segment = c /\ cursor'.offset = size /\ cursor' \in [segment : Segments, offset : Nat]
    BY <1>1, <2>1
  <2>4. size <= top
    BY <2>1 DEF Follow
  <2>5. /\ \A k \in Segments : EndsLine(delivered'[k])
        /\ \A k \in Segments : k > c => delivered'[k] = <<>>
    <3>1. /\ \A k \in Segments : EndsLine(delivered[k])
          /\ \A k \in Segments : k > c => delivered[k] = <<>>
      BY DEF Follow
    <3>2. \A k \in Segments : k > c => k # c
      BY <1>1
    <3> QED BY <2>2, <3>1, <3>2
  <2>6. \A k \in Segments : k < c =>
            /\ IsPrefix(delivered'[k], wrote[k])
            /\ k \in Sealed
            /\ delivered'[k] # <<>> /\ k \in DOMAIN disk => delivered'[k] = WholeLines(wrote[k])
    <3>1. \A k \in Segments : k < c => k # c
      BY <1>1
    <3>2. \A k \in Segments : k < c =>
            /\ IsPrefix(delivered[k], wrote[k])
            /\ k \in Sealed
            /\ delivered[k] # <<>> /\ k \in DOMAIN disk => delivered[k] = WholeLines(wrote[k])
      BY DEF Follow
    <3> QED BY <2>2, <3>1, <3>2
  <2>7. Sealed' = Sealed
    BY <1>2 DEF Sealed
  <2>8. Follow'
    BY <1>2, <2>1, <2>2, <2>3, <2>4, <2>5, <2>6, <2>7 DEF Follow
  <2> QED BY <2>1, <2>2, <2>3, <2>8 DEF FollowerTypes
<1>9. CASE ReadFails
  <2>1. cursor' = cursor /\ leftover' = leftover /\ delivered' = delivered /\ pc' = "dead" /\ size' = 0
    BY <1>9 DEF ReadFails
  <2>2. Follow'
    BY <2>1, PollMoves
  <2> QED BY <1>1, <2>1, <2>2 DEF FollowerTypes
<1>10. CASE Successor
  <2>1. cursor' = cursor /\ leftover' = leftover /\ delivered' = delivered /\ size' = size
        /\ pc' = IF Exists(c + 1) THEN "final" ELSE "stat"
    BY <1>10 DEF Successor
  <2>2. pc' = "final" => c \in Sealed
    BY <1>1, <1>5, <2>1 DEF Exists
  <2>3. Follow'
    BY <2>1, <2>2, PollMoves
  <2> QED BY <1>1, <2>1, <2>3 DEF FollowerTypes
<1>a. ASSUME c \in Sealed
      PROVE  /\ c + 1 \in Segments /\ c + 1 > c
             /\ \A k \in DOMAIN disk : k > c => k >= c + 1
             /\ At(c + 1) \in [segment : Segments, offset : Nat]
  <2>1. \A k \in DOMAIN disk : k \in Nat /\ k <= MaxSegment
    BY <1>1 DEF Segments
  <2>2. PICK k \in DOMAIN disk : k > c
    BY <1>a DEF Sealed
  <2>3. c + 1 \in Segments
    BY <1>1, <2>1, <2>2 DEF Segments
  <2> QED BY <1>1, <2>1, <2>3 DEF At
<1>11. CASE FinalStat
  <2>1. pc = "final" /\ delivered' = delivered /\ c \in Sealed
    BY <1>11 DEF FinalStat, Follow
  <2>2. CASE Exists(c) /\ Len(disk[c]) > cursor.offset
    <3>1. cursor' = cursor /\ leftover' = leftover /\ pc' = "drain" /\ size' = top
      BY <1>3, <1>11, <2>2 DEF FinalStat
    <3>2. Follow'
      BY <1>1, <1>4, <2>1, <3>1, PollMoves
    <3> QED BY <1>1, <2>1, <3>1, <3>2 DEF FollowerTypes
  <2>3. CASE ~(Exists(c) /\ Len(disk[c]) > cursor.offset)
    <3>1. cursor' = At(c + 1) /\ leftover' = <<>> /\ pc' = "stat" /\ size' = size
      BY <1>11, <2>3 DEF FinalStat, MoveOn
    <3>2. c \in DOMAIN disk => cursor.offset = top
      BY <1>1, <1>3, <1>4, <2>3 DEF Exists
    <3>3. /\ delivered[c] \o leftover = SubSeq(wrote[c], 1, cursor.offset)
          /\ EndsLine(delivered[c])
          /\ \A i \in DOMAIN leftover : ~leftover[i].last
      BY <1>1 DEF Follow
    <3>4. Follow'
      BY <1>1, <1>4, <1>a, <2>1, <3>1, <3>2, <3>3, Leaving
    <3> QED BY <1>1, <1>a, <2>1, <3>1, <3>4 DEF FollowerTypes
  <2> QED BY <2>2, <2>3
<1>12. CASE FinalRead
  <2> DEFINE rest == Fragment(leftover \o Unread)
  <2>1. /\ pc = "drain" /\ Exists(c) /\ HandOut(leftover \o Unread) /\ size' = 0
        /\ cursor' = At(c + 1) /\ leftover' = <<>> /\ pc' = "stat"
    BY <1>12 DEF FinalRead, MoveOn
  <2>2. /\ delivered' \in [Segments -> Seq(Unit)] /\ rest \in Seq(Unit)
        /\ delivered'[c] \o rest = SubSeq(wrote[c], 1, size)
        /\ \A i \in DOMAIN rest : ~rest[i].last
        /\ EndsLine(delivered'[c])
        /\ \A k \in Segments : k # c => delivered'[k] = delivered[k]
    BY <2>1, Reading
  <2>3. size = top /\ c \in Sealed
    BY <2>1 DEF Follow
  <2> HIDE DEF rest
  <2>5. /\ delivered' \in [Segments -> Seq(Unit)] /\ rest \in Seq(Unit) /\ top \in Nat
        /\ c + 1 \in Segments /\ c + 1 > cursor.segment
        /\ cursor.segment \in Sealed /\ c + 1 = cursor.segment + 1
        /\ \A k \in DOMAIN disk : k > cursor.segment => k >= c + 1
        /\ delivered'[cursor.segment] \o rest = SubSeq(wrote[cursor.segment], 1, top)
        /\ top <= Len(wrote[cursor.segment]) /\ top = Len(wrote[cursor.segment])
        /\ EndsLine(delivered'[cursor.segment])
        /\ \A i \in DOMAIN rest : ~rest[i].last
        /\ \A k \in Segments : k # cursor.segment => delivered'[k] = delivered[k]
        /\ cursor' = At(c + 1) /\ leftover' = <<>> /\ pc' = "stat"
    BY <1>1, <1>a, <2>1, <2>2, <2>3
  <2>4. Follow'
    <3> HIDE DEF c, top
    <3> QED BY <2>5, Leaving
  <2> QED BY <1>1, <1>a, <2>1, <2>2, <2>3, <2>4 DEF FollowerTypes
<1> QED
  BY <1>6, <1>7, <1>8, <1>9, <1>10, <1>11, <1>12 DEF FollowerStep

-----------------------------------------------------------------------------
\* a segment's text begins with what is on disk
LEMMA TextOfParts ==
    ASSUME Types
    PROVE  \A k \in Segments :
            /\ TextOf(k) \in Seq(Unit) /\ wrote[k] \in Seq(Unit)
            /\ Ids(wrote[k]) \subseteq Ids(TextOf(k))
            /\ Len(wrote[k]) <= Len(TextOf(k))
            /\ \A i \in 1..Len(wrote[k]) : TextOf(k)[i] = wrote[k][i]
            /\ ~Busy => TextOf(k) = wrote[k]
<1> SUFFICES ASSUME NEW k \in Segments
             PROVE  /\ TextOf(k) \in Seq(Unit) /\ wrote[k] \in Seq(Unit)
                    /\ Ids(wrote[k]) \subseteq Ids(TextOf(k))
                    /\ Len(wrote[k]) <= Len(TextOf(k))
                    /\ \A i \in 1..Len(wrote[k]) : TextOf(k)[i] = wrote[k][i]
                    /\ ~Busy => TextOf(k) = wrote[k]
  OBVIOUS
<1>1. wrote[k] \in Seq(Unit) /\ Len(wrote[k]) \in Nat
  BY DEF Types
<1>2. CASE k = w.live
  BY <1>1, <1>2, LiveTextParts DEF TextOf
<1>3. CASE k # w.live
  <2>1. TextOf(k) = wrote[k]
    BY <1>3 DEF TextOf
  <2> QED BY <1>1, <2>1
<1> QED
  BY <1>2, <1>3

\* the same of the next state
LEMMA NextTextOf ==
    Types' =>
        (\A k \in Segments :
            /\ TextOf(k) \in Seq(Unit) /\ wrote[k] \in Seq(Unit)
            /\ Ids(wrote[k]) \subseteq Ids(TextOf(k))
            /\ Len(wrote[k]) <= Len(TextOf(k))
            /\ \A i \in 1..Len(wrote[k]) : TextOf(k)[i] = wrote[k][i]
            /\ ~Busy => TextOf(k) = wrote[k])'
<1>1. Types =>
        \A k \in Segments :
            /\ TextOf(k) \in Seq(Unit) /\ wrote[k] \in Seq(Unit)
            /\ Ids(wrote[k]) \subseteq Ids(TextOf(k))
            /\ Len(wrote[k]) <= Len(TextOf(k))
            /\ \A i \in 1..Len(wrote[k]) : TextOf(k)[i] = wrote[k][i]
            /\ ~Busy => TextOf(k) = wrote[k]
  BY TextOfParts
<1> QED
  BY <1>1, PTL

\* what each step does to the text a segment has, or is about to get
LEMMA TextOfSteps ==
    ASSUME Types, Files, LogNext, NEW k \in Segments
    PROVE  /\ Write => TextOf(k)' = IF k = w.live THEN TextOf(k) \o Units(Head(todo))
                                    ELSE TextOf(k)
           /\ FlushSync => /\ Ids(TextOf(k)') = Ids(TextOf(k)) /\ Len(TextOf(k)') = Len(TextOf(k))
                           /\ mode = "sync" \/ ~w.opened \/ k # w.live => TextOf(k)' = TextOf(k)
           /\ WriteFails \/ CrashAndRestart => TextOf(k)' = wrote[k] /\ wrote' = wrote
           /\ Write \/ FlushSync \/ WriteFails \/ CrashAndRestart \/ TextOf(k)' = TextOf(k)
<1>0. w.live \in Segments /\ wrote \in [Segments -> Seq(Unit)]
  BY DEF Types, Writer
<1>1. ASSUME Write
      PROVE  TextOf(k)' = IF k = w.live THEN TextOf(k) \o Units(Head(todo)) ELSE TextOf(k)
  BY <1>1, TextSteps DEF TextOf
<1>2. ASSUME FlushSync
      PROVE  /\ Ids(TextOf(k)') = Ids(TextOf(k)) /\ Len(TextOf(k)') = Len(TextOf(k))
             /\ mode = "sync" \/ ~w.opened \/ k # w.live => TextOf(k)' = TextOf(k)
  BY <1>2, TextSteps DEF TextOf
<1>3. ASSUME WriteFails \/ CrashAndRestart
      PROVE  TextOf(k)' = wrote[k] /\ wrote' = wrote
  BY <1>3, TextSteps DEF TextOf
<1>4. ASSUME Open \/ OpenFails
      PROVE  TextOf(k)' = TextOf(k)
  BY <1>4, TextSteps DEF TextOf
<1>5. ASSUME (Seal /\ mode = "sync") \/ SealDone
      PROVE  TextOf(k)' = TextOf(k)
  <2>1. /\ w'.live = w.live + 1 /\ wrote' = wrote
        /\ LiveText = wrote[w.live] /\ LiveText' = <<>> /\ wrote[w.live + 1] = <<>>
    BY <1>5, TextSteps
  <2>2. w.live + 1 # w.live
    BY <1>0 DEF Segments
  <2> QED BY <2>1, <2>2 DEF TextOf
<1>6. ASSUME Deposit
      PROVE  TextOf(k)' = TextOf(k)
  BY <1>6, TextSteps DEF TextOf
<1>7. ASSUME w'.live = w.live, wrote' = wrote, LiveText' = LiveText
      PROVE  TextOf(k)' = TextOf(k)
  BY <1>7 DEF TextOf
<1>8. \/ Write \/ FlushSync \/ WriteFails \/ (Seal /\ mode = "sync") \/ SealDone \/ Open \/ OpenFails
      \/ CrashAndRestart \/ Deposit
      \/ w'.live = w.live /\ wrote' = wrote /\ LiveText' = LiveText
  BY TextSteps
<1> QED
  BY <1>1, <1>2, <1>3, <1>4, <1>5, <1>6, <1>7, <1>8

-----------------------------------------------------------------------------
\* the beginning of a text in order is in order
LEMMA OrderOfPrefix ==
    ASSUME NEW s \in Seq(Unit), NEW t \in Seq(Unit), Len(s) <= Len(t),
           \A i \in 1..Len(s) : t[i] = s[i], InOrder(t)
    PROVE  InOrder(s)
<1>1. Len(s) \in Nat /\ Len(t) \in Nat
  OBVIOUS
<1> SUFFICES ASSUME NEW i \in 1..Len(s) - 1 PROVE Follows(s[i], s[i + 1])
  BY DEF InOrder
<1>2. i \in 1..Len(t) - 1 /\ i \in 1..Len(s) /\ i + 1 \in 1..Len(s)
  BY <1>1
<1>3. t[i] = s[i] /\ t[i + 1] = s[i + 1] /\ Follows(t[i], t[i + 1])
  BY <1>2 DEF InOrder
<1> QED
  BY <1>3

\* a unit of a line
LEMMA UnitFields ==
    ASSUME NEW line \in LineItem, NEW i \in 1..line.size
    PROVE  /\ Units(line)[i].id = line.id /\ Units(line)[i].part = i
           /\ Units(line)[i].last <=> i = line.size
<1> DEFINE u == Units(line)[i]
<1>1. u = [id |-> line.id, part |-> i, last |-> i = line.size]
  BY UnitsOfLine
<1> HIDE DEF u
<1>2. u.id = line.id /\ u.part = i
  BY <1>1
<1>3. ASSUME u.last PROVE i = line.size
  BY <1>1, <1>3, Zenon
<1>4. ASSUME i = line.size PROVE u.last
  BY <1>1, <1>4, Zenon
<1> QED BY <1>2, <1>3, <1>4 DEF u

\* a text in order, followed by a later line
LEMMA OrderOfJoined ==
    ASSUME NEW s \in Seq(Unit), NEW line \in LineItem, InOrder(s),
           \A n \in Ids(s) : n < line.id
    PROVE  InOrder(s \o Units(line))
<1> DEFINE u == Units(line)
           t == s \o u
<1>1. /\ u \in Seq(Unit) /\ Len(u) = line.size /\ line.size \in Nat \ {0}
      /\ \A i \in 1..line.size : /\ u[i].id = line.id /\ u[i].part = i
                                 /\ u[i].last <=> i = line.size
  BY UnitsOfLine, UnitFields DEF LineItem
<1> HIDE DEF u
<1>2. /\ Len(t) = Len(s) + Len(u) /\ Len(s) \in Nat /\ Len(u) \in Nat
      /\ \A i \in 1..Len(s) : t[i] = s[i]
      /\ \A i \in 1..Len(u) : t[Len(s) + i] = u[i]
  BY <1>1, Joined
<1> HIDE DEF t
<1> SUFFICES ASSUME NEW i \in 1..Len(t) - 1 PROVE Follows(t[i], t[i + 1])
  BY DEF InOrder, t, u
<1>3. CASE i < Len(s)
  <2>1. i \in 1..Len(s) - 1 /\ i \in 1..Len(s) /\ i + 1 \in 1..Len(s)
    BY <1>2, <1>3
  <2>2. t[i] = s[i] /\ t[i + 1] = s[i + 1]
    BY <1>2, <2>1
  <2> QED BY <2>1, <2>2 DEF InOrder
<1>4. CASE i = Len(s)
  <2>1. i \in 1..Len(s) /\ 1 \in 1..Len(u)
    BY <1>1, <1>2, <1>4
  <2>2. t[i] = s[i] /\ t[i + 1] = u[1] /\ s[i].id \in Ids(s)
    BY <1>2, <1>4, <2>1 DEF Ids
  <2>4. u[1].id = line.id /\ u[1].part = 1
    BY <1>1, <2>1
  <2>5. s[i].id \in Int /\ line.id \in Int /\ s[i].id < line.id
    <3>1. s[i] \in Unit
      BY <2>1
    <3> QED BY <2>2, <3>1 DEF LineItem, Unit
  <2> QED BY <2>2, <2>4, <2>5 DEF Follows
<1>5. CASE i > Len(s)
  <2> DEFINE j == i - Len(s)
  <2>1. j \in 1..Len(u) /\ j + 1 \in 1..Len(u) /\ Len(s) + j = i /\ Len(s) + (j + 1) = i + 1
        /\ j # line.size
    BY <1>1, <1>2, <1>5
  <2>2. t[i] = u[j] /\ t[i + 1] = u[j + 1]
    BY <1>2, <2>1
  <2> HIDE DEF j
  <2>4. u[j].id = line.id /\ u[j].part = j /\ u[j + 1].id = line.id /\ u[j + 1].part = j + 1
    BY <1>1, <2>1
  <2>5. ~u[j].last
    BY <1>1, <2>1
  <2> QED BY <2>2, <2>4, <2>5 DEF Follows
<1> QED
  BY <1>2, <1>3, <1>4, <1>5

\* whole lines, followed by a whole line
LEMMA UnbrokenJoined ==
    ASSUME NEW s \in Seq(Unit), NEW line \in LineItem, Unbroken(s)
    PROVE  Unbroken(s \o Units(line))
<1> DEFINE u == Units(line)
           t == s \o u
<1>1. /\ u \in Seq(Unit) /\ Len(u) = line.size /\ line.size \in Nat \ {0}
      /\ \A i \in 1..line.size : /\ u[i].id = line.id /\ u[i].part = i
                                 /\ u[i].last <=> i = line.size
  BY UnitsOfLine, UnitFields DEF LineItem
<1> HIDE DEF u
<1>2. /\ Len(t) = Len(s) + Len(u) /\ Len(s) \in Nat /\ Len(u) \in Nat
      /\ \A i \in 1..Len(s) : t[i] = s[i]
      /\ \A i \in 1..Len(u) : t[Len(s) + i] = u[i]
      /\ t \in Seq(Unit)
  BY <1>1, Joined
<1> HIDE DEF t
<1> SUFFICES ASSUME NEW i \in 1..Len(t), ~t[i].last
             PROVE  i < Len(t) /\ t[i + 1].id = t[i].id
  BY <1>2 DEF Unbroken, t, u
<1>3. CASE i <= Len(s)
  <2>1. i \in 1..Len(s) /\ i \in DOMAIN s /\ t[i] = s[i]
    BY <1>2, <1>3
  <2>2. i < Len(s) /\ s[i + 1].id = s[i].id
    BY <2>1 DEF Unbroken
  <2>3. i + 1 \in 1..Len(s)
    BY <1>2, <2>1, <2>2
  <2> QED BY <1>2, <2>1, <2>2, <2>3
<1>4. CASE i > Len(s)
  <2> DEFINE j == i - Len(s)
  <2>1. j \in 1..Len(u) /\ Len(s) + j = i
    BY <1>1, <1>2, <1>4
  <2>2. t[i] = u[j]
    BY <1>2, <2>1
  <2>4. j # line.size
    BY <1>1, <2>1, <2>2
  <2>5. j + 1 \in 1..Len(u) /\ Len(s) + (j + 1) = i + 1 /\ i < Len(t)
    BY <1>1, <1>2, <2>1, <2>4
  <2>6. t[i + 1] = u[j + 1]
    BY <1>2, <2>5
  <2> HIDE DEF j
  <2>8. u[j].id = line.id /\ u[j + 1].id = line.id
    BY <1>1, <2>1, <2>5
  <2> QED BY <2>2, <2>5, <2>6, <2>8
<1> QED
  BY <1>2, <1>3, <1>4

-----------------------------------------------------------------------------
Item == LineItem \union {Flush}

\* the lines in a queue of one
LEMMA LinesOfOne ==
    /\ LinesIn(<<>>) = {} /\ Ascending(<<>>) /\ FlushLast(<<>>)
    /\ \A x : /\ x.op = "append" => LinesIn(<<x>>) = {x.id}
              /\ x.op # "append" => LinesIn(<<x>>) = {}
              /\ Ascending(<<x>>) /\ FlushLast(<<x>>)
<1>1. LinesIn(<<>>) = {} /\ Ascending(<<>>) /\ FlushLast(<<>>)
  BY DEF LinesIn, Ascending, FlushLast
<1> SUFFICES ASSUME NEW x
             PROVE  /\ x.op = "append" => LinesIn(<<x>>) = {x.id}
                    /\ x.op # "append" => LinesIn(<<x>>) = {}
                    /\ Ascending(<<x>>) /\ FlushLast(<<x>>)
  BY <1>1
<1>2. DOMAIN <<x>> = {1} /\ <<x>>[1] = x /\ Len(<<x>>) = 1
  OBVIOUS
<1>3. Ascending(<<x>>) /\ FlushLast(<<x>>)
  BY <1>2 DEF Ascending, FlushLast
<1>4. ASSUME x.op = "append" PROVE LinesIn(<<x>>) = {x.id}
  <2>1. {j \in DOMAIN <<x>> : <<x>>[j].op = "append"} = {1}
    BY <1>2, <1>4
  <2> QED BY <1>2, <2>1 DEF LinesIn
<1>5. ASSUME x.op # "append" PROVE LinesIn(<<x>>) = {}
  <2>1. {j \in DOMAIN <<x>> : <<x>>[j].op = "append"} = {}
    BY <1>2, <1>5
  <2> QED BY <2>1 DEF LinesIn
<1> QED
  BY <1>3, <1>4, <1>5

\* the lines in two queues, one behind the other
LEMMA LinesOfJoin ==
    ASSUME NEW s \in Seq(Item), NEW t \in Seq(Item)
    PROVE  /\ LinesIn(s \o t) = LinesIn(s) \union LinesIn(t)
           /\ Ascending(s \o t) <=> /\ Ascending(s) /\ Ascending(t)
                                    /\ \A m \in LinesIn(s), n \in LinesIn(t) : m < n
           /\ FlushLast(t) /\ (\A i \in DOMAIN s : s[i].op = "append") => FlushLast(s \o t)
           /\ FlushLast(s \o t) => FlushLast(t)
<1> DEFINE u == s \o t
<1>1. /\ u \in Seq(Item) /\ Len(u) = Len(s) + Len(t) /\ Len(s) \in Nat /\ Len(t) \in Nat
      /\ \A i \in 1..Len(s) + Len(t) : u[i] = IF i <= Len(s) THEN s[i] ELSE t[i - Len(s)]
  BY ConcatProperties
<1>2. DOMAIN s = 1..Len(s) /\ DOMAIN t = 1..Len(t) /\ DOMAIN u = 1..Len(s) + Len(t)
  BY <1>1, LenProperties
<1> HIDE DEF u
<1>3. \A i \in DOMAIN s : i \in DOMAIN u /\ u[i] = s[i]
  BY <1>1, <1>2
<1>4. \A i \in DOMAIN t : Len(s) + i \in DOMAIN u /\ u[Len(s) + i] = t[i]
  BY <1>1, <1>2
<1>5. \A i \in DOMAIN u : i \in DOMAIN s \/ (i > Len(s) /\ i - Len(s) \in DOMAIN t
                                              /\ Len(s) + (i - Len(s)) = i)
  BY <1>1, <1>2
<1>6. LinesIn(u) = LinesIn(s) \union LinesIn(t)
  <2>1. LinesIn(s) \subseteq LinesIn(u)
    BY <1>3 DEF LinesIn
  <2>2. LinesIn(t) \subseteq LinesIn(u)
    BY <1>4 DEF LinesIn
  <2>3. LinesIn(u) \subseteq LinesIn(s) \union LinesIn(t)
    <3> SUFFICES ASSUME NEW i \in DOMAIN u, u[i].op = "append"
                 PROVE  u[i].id \in LinesIn(s) \union LinesIn(t)
      BY DEF LinesIn
    <3>1. CASE i \in DOMAIN s
      BY <1>3, <3>1 DEF LinesIn
    <3>2. CASE i > Len(s) /\ i - Len(s) \in DOMAIN t /\ Len(s) + (i - Len(s)) = i
      <4>1. u[i] = t[i - Len(s)]
        BY <1>4, <3>2
      <4> QED BY <3>2, <4>1 DEF LinesIn
    <3> QED BY <1>5, <3>1, <3>2
  <2> QED BY <2>1, <2>2, <2>3
<1>7. ASSUME Ascending(u)
      PROVE  /\ Ascending(s) /\ Ascending(t) /\ \A m \in LinesIn(s), n \in LinesIn(t) : m < n
  <2>1. Ascending(s)
    BY <1>3, <1>7 DEF Ascending
  <2>2. Ascending(t)
    <3>1. \A i, j \in DOMAIN t : i < j => Len(s) + i < Len(s) + j
      BY <1>1, <1>2
    <3> QED BY <1>4, <1>7, <3>1 DEF Ascending
  <2>3. \A m \in LinesIn(s), n \in LinesIn(t) : m < n
    <3> SUFFICES ASSUME NEW i \in DOMAIN s, NEW j \in DOMAIN t, s[i].op = "append", t[j].op = "append"
                 PROVE  s[i].id < t[j].id
      BY DEF LinesIn
    <3>1. i < Len(s) + j
      BY <1>1, <1>2
    <3> QED BY <1>3, <1>4, <1>7, <3>1 DEF Ascending
  <2> QED BY <2>1, <2>2, <2>3
<1>8. ASSUME Ascending(s), Ascending(t), \A m \in LinesIn(s), n \in LinesIn(t) : m < n
      PROVE  Ascending(u)
  <2> SUFFICES ASSUME NEW i \in DOMAIN u, NEW j \in DOMAIN u,
                      u[i].op = "append", u[j].op = "append", i < j
               PROVE  u[i].id < u[j].id
    BY DEF Ascending
  <2>1. CASE i \in DOMAIN s /\ j \in DOMAIN s
    BY <1>3, <1>8, <2>1 DEF Ascending
  <2>2. CASE i \in DOMAIN s /\ j \notin DOMAIN s
    <3>1. u[j] = t[j - Len(s)] /\ j - Len(s) \in DOMAIN t /\ u[i] = s[i]
      BY <1>3, <1>4, <1>5, <2>2
    <3>2. u[i].id \in LinesIn(s) /\ u[j].id \in LinesIn(t)
      BY <2>2, <3>1 DEF LinesIn
    <3> QED BY <1>8, <3>2
  <2>3. CASE i \notin DOMAIN s
    <3>1. i - Len(s) \in DOMAIN t /\ u[i] = t[i - Len(s)] /\ i > Len(s)
      BY <1>4, <1>5, <2>3
    <3>2. j \notin DOMAIN s
      BY <1>1, <1>2, <3>1
    <3>3. j - Len(s) \in DOMAIN t /\ u[j] = t[j - Len(s)]
      BY <1>4, <1>5, <3>2
    <3>4. i - Len(s) < j - Len(s)
      BY <1>1, <1>2
    <3> QED BY <1>8, <3>1, <3>3, <3>4 DEF Ascending
  <2> QED BY <2>1, <2>2, <2>3
<1>9. ASSUME FlushLast(t), \A i \in DOMAIN s : s[i].op = "append"
      PROVE  FlushLast(u)
  <2> SUFFICES ASSUME NEW i \in DOMAIN u, u[i].op # "append" PROVE i = Len(u)
    BY DEF FlushLast
  <2>1. i \notin DOMAIN s
    BY <1>3, <1>9
  <2>2. i - Len(s) \in DOMAIN t /\ u[i] = t[i - Len(s)]
    BY <1>4, <1>5, <2>1
  <2>3. i - Len(s) = Len(t)
    BY <1>9, <2>2 DEF FlushLast
  <2> QED BY <1>1, <1>2, <2>3
<1>10. ASSUME FlushLast(u) PROVE FlushLast(t)
  <2> SUFFICES ASSUME NEW i \in DOMAIN t, t[i].op # "append" PROVE i = Len(t)
    BY DEF FlushLast
  <2>1. Len(s) + i = Len(u)
    BY <1>4, <1>10 DEF FlushLast
  <2> QED BY <1>1, <1>2, <2>1
<1> QED
  BY <1>6, <1>7, <1>8, <1>9, <1>10 DEF u

\* a queue is its head and the rest
LEMMA HeadAndTail ==
    ASSUME NEW q \in Seq(Item), q # <<>>
    PROVE  /\ q = <<Head(q)>> \o Tail(q)
           /\ <<Head(q)>> \in Seq(Item) /\ Tail(q) \in Seq(Item) /\ Head(q) \in Item
<1>1. Head(q) \in Item /\ Tail(q) \in Seq(Item) /\ Len(Tail(q)) = Len(q) - 1 /\ Head(q) = q[1]
      /\ \A i \in 1..Len(Tail(q)) : Tail(q)[i] = q[i + 1]
  BY HeadTailProperties
<1>2. <<Head(q)>> \in Seq(Item) /\ Len(<<Head(q)>>) = 1 /\ <<Head(q)>>[1] = Head(q)
  BY <1>1
<1>3. Len(q) \in Nat /\ Len(q) > 0
  BY EmptySeq
<1> DEFINE r == <<Head(q)>> \o Tail(q)
<1>4. /\ r \in Seq(Item) /\ Len(r) = Len(<<Head(q)>>) + Len(Tail(q))
      /\ \A i \in 1..Len(<<Head(q)>>) + Len(Tail(q)) :
            r[i] = IF i <= Len(<<Head(q)>>) THEN <<Head(q)>>[i] ELSE Tail(q)[i - Len(<<Head(q)>>)]
  BY <1>1, <1>2, ConcatProperties
<1> HIDE DEF r
<1>5. Len(r) = Len(q)
  BY <1>1, <1>2, <1>3, <1>4
<1>6. \A i \in 1..Len(q) : r[i] = q[i]
  <2> SUFFICES ASSUME NEW i \in 1..Len(q) PROVE r[i] = q[i]
    OBVIOUS
  <2>1. CASE i = 1
    BY <1>1, <1>2, <1>3, <1>4, <2>1
  <2>2. CASE i # 1
    <3>1. i - 1 \in 1..Len(Tail(q)) /\ ~(i <= 1) /\ i \in 1..1 + Len(Tail(q)) /\ i - 1 + 1 = i
      BY <1>1, <1>3, <2>2
    <3>2. r[i] = Tail(q)[i - 1]
      BY <1>2, <1>4, <3>1
    <3> QED BY <1>1, <3>1, <3>2
  <2> QED BY <2>1, <2>2
<1>7. q = r
  BY <1>4, <1>5, <1>6, SeqEqual
<1> QED
  BY <1>1, <1>2, <1>7 DEF r

\* the lines a sequence loses with its head
LEMMA LinesOfTail ==
    ASSUME NEW q \in Seq(Item), q # <<>>, Ascending(q), FlushLast(q)
    PROVE  /\ Tail(q) \in Seq(Item)
           /\ LinesIn(q) = LinesIn(<<Head(q)>>) \union LinesIn(Tail(q))
           /\ Ascending(Tail(q)) /\ FlushLast(Tail(q))
           /\ \A m \in LinesIn(<<Head(q)>>), n \in LinesIn(Tail(q)) : m < n
           /\ Head(q).op # "append" => Tail(q) = <<>>
           /\ \A i \in DOMAIN Tail(q) : \E j \in DOMAIN q : Tail(q)[i] = q[j]
<1>1. /\ q = <<Head(q)>> \o Tail(q)
      /\ <<Head(q)>> \in Seq(Item) /\ Tail(q) \in Seq(Item)
  BY HeadAndTail
<1>2. /\ LinesIn(q) = LinesIn(<<Head(q)>>) \union LinesIn(Tail(q))
      /\ Ascending(Tail(q)) /\ FlushLast(Tail(q))
      /\ \A m \in LinesIn(<<Head(q)>>), n \in LinesIn(Tail(q)) : m < n
  <2> DEFINE h == <<Head(q)>>
             t == Tail(q)
  <2>1. h \in Seq(Item) /\ t \in Seq(Item) /\ q = h \o t
    BY <1>1
  <2> HIDE DEF h, t
  <2>2. Ascending(h \o t) /\ FlushLast(h \o t)
    BY <2>1
  <2>3. LinesIn(q) = LinesIn(h) \union LinesIn(t) /\ Ascending(t) /\ FlushLast(t)
        /\ \A m \in LinesIn(h), n \in LinesIn(t) : m < n
    BY <2>1, <2>2, LinesOfJoin
  <2> QED BY <2>3 DEF h, t
<1>3. Len(q) \in Nat \ {0} /\ Head(q) = q[1] /\ Len(Tail(q)) = Len(q) - 1
      /\ \A i \in 1..Len(Tail(q)) : Tail(q)[i] = q[i + 1]
  BY EmptySeq, HeadTailProperties
<1>4. ASSUME Head(q).op # "append" PROVE Tail(q) = <<>>
  <2>1. 1 \in DOMAIN q
    BY <1>3
  <2>2. 1 = Len(q)
    BY <1>3, <1>4, <2>1 DEF FlushLast
  <2>4. Len(Tail(q)) = Len(q) - 1
    BY <1>3
  <2>3. Len(Tail(q)) = 0
    BY <2>2, <2>4
  <2> QED BY <1>1, <2>3, EmptySeq
<1>5. \A i \in DOMAIN Tail(q) : \E j \in DOMAIN q : Tail(q)[i] = q[j]
  <2> SUFFICES ASSUME NEW i \in DOMAIN Tail(q) PROVE \E j \in DOMAIN q : Tail(q)[i] = q[j]
    OBVIOUS
  <2>1. i \in 1..Len(Tail(q)) /\ i + 1 \in DOMAIN q
    BY <1>1, <1>3, LenProperties
  <2> QED BY <1>3, <2>1
<1> QED
  BY <1>1, <1>2, <1>4, <1>5

\* a held line goes behind those held before it
LEMMA LinesOfAppend ==
    ASSUME NEW q \in Seq(LineItem), NEW x \in LineItem, Ascending(q), \A m \in LinesIn(q) : m < x.id
    PROVE  /\ Append(q, x) \in Seq(LineItem)
           /\ LinesIn(Append(q, x)) = LinesIn(q) \union {x.id} /\ Ascending(Append(q, x))
<1>1. x.op = "append" /\ x \in Item
  BY DEF LineItem, Item
<1>2. q \in Seq(Item) /\ <<x>> \in Seq(Item) /\ Append(q, x) \in Seq(LineItem)
  <2>1. LineItem \subseteq Item
    BY DEF Item
  <2>2. q \in Seq(Item)
    BY <2>1, SeqMonotonic
  <2> QED BY <1>1, <2>2
<1>3. Append(q, x) = q \o <<x>>
  BY <1>1, <1>2, AppendIsConcat
<1>4. LinesIn(<<x>>) = {x.id} /\ Ascending(<<x>>)
  BY <1>1, LinesOfOne
<1> DEFINE h == <<x>>
<1> HIDE DEF h
<1>5. LinesIn(q \o h) = LinesIn(q) \union LinesIn(h)
      /\ (Ascending(q \o h) <=> /\ Ascending(q) /\ Ascending(h)
                                /\ \A m \in LinesIn(q), n \in LinesIn(h) : m < n)
  BY <1>2, LinesOfJoin DEF h
<1> QED
  BY <1>2, <1>3, <1>4, <1>5 DEF h

\* marking a line as checked leaves the queue's order alone
LEMMA SameLines ==
    ASSUME NEW q, NEW r, DOMAIN r = DOMAIN q, Len(r) = Len(q),
           \A i \in DOMAIN q : r[i].op = q[i].op /\ (q[i].op = "append" => r[i].id = q[i].id)
    PROVE  /\ LinesIn(r) = LinesIn(q) /\ (Ascending(q) => Ascending(r))
           /\ FlushLast(q) => FlushLast(r)
<1>1. LinesIn(r) = LinesIn(q)
  BY DEF LinesIn
<1>2. Ascending(q) => Ascending(r)
  BY DEF Ascending
<1>3. FlushLast(q) => FlushLast(r)
  BY DEF FlushLast
<1> QED BY <1>1, <1>2, <1>3

-----------------------------------------------------------------------------
\* the queue and the held lines, as the lemmas above want them
LEMMA QueueTypes ==
    ASSUME Types, Files, Bytes, Queued
    PROVE  /\ todo \in Seq(Item) /\ w.pending \in Seq(LineItem) /\ w.pending \in Seq(Item)
           /\ Ascending(todo) /\ Ascending(w.pending) /\ FlushLast(todo)
           /\ LinesIn(w.pending) \subseteq 1..emitted
           /\ \A n \in LinesIn(todo) :
                n \in 1..emitted \/ (n = -w.live /\ MarkerNext /\ Head(todo) = Marker(w.live))
           /\ emitted \in Nat /\ w.live \in Nat
           /\ \A i \in DOMAIN w.pending : w.pending[i].op = "append"
<1>1. todo \in Seq(Item) /\ w.pending \in Seq(LineItem) /\ w.live \in Segments
  BY DEF Types, Item, Writer
<1>2. w.pending \in Seq(Item)
  <2>1. LineItem \subseteq Item
    BY DEF Item
  <2> QED BY <1>1, <2>1, SeqMonotonic
<1>3. emitted \in Nat /\ w.live \in Nat
  BY <1>1, Numbers DEF Types, Segments
<1>4. LinesIn(w.pending) \subseteq 1..emitted
  BY DEF Bytes, QueueKept, LinesIn
<1>5. ASSUME NEW n \in LinesIn(todo)
      PROVE  n \in 1..emitted \/ (n = -w.live /\ MarkerNext /\ Head(todo) = Marker(w.live))
  <2>1. PICK i \in DOMAIN todo : todo[i].op = "append" /\ n = todo[i].id
    BY DEF LinesIn
  <2>2. CASE n \in 1..emitted
    BY <2>2
  <2>3. CASE n \notin 1..emitted
    <3>1. i = 1 /\ MarkerNext
      BY <2>1, <2>3 DEF Bytes, QueueKept, IsLine
    <3>2. todo[1] = Marker(w.live) /\ todo # <<>>
      BY <2>1, <3>1 DEF MarkerNext
    <3>3. Head(todo) = Marker(w.live)
      BY <1>1, <3>2, HeadTailProperties
    <3>4. n = -w.live
      BY <2>1, <3>1, <3>2 DEF Marker, Line
    <3> QED BY <3>1, <3>3, <3>4
  <2> QED BY <2>2, <2>3
<1>6. \A i \in DOMAIN w.pending : w.pending[i].op = "append"
  <2>1. \A i \in DOMAIN w.pending : w.pending[i] \in LineItem
    BY <1>1
  <2> QED BY <2>1 DEF LineItem
<1> QED
  BY <1>1, <1>2, <1>3, <1>4, <1>5, <1>6 DEF Queued

\* what emit() puts into the queue
LEMMA EmittedLines ==
    ASSUME Types, NEW s \in LineSizes[mode], NEW end \in BOOLEAN, Emit(s, end)
    PROVE  /\ LinesIn(todo') = IF w.usable THEN {emitted + 1} ELSE {}
           /\ Ascending(todo') /\ FlushLast(todo')
           /\ (\E i \in DOMAIN todo' : todo'[i].op # "append") => phase' # "running"
           /\ todo = <<>> /\ w' = w /\ emitted' = emitted + 1 /\ todo' \in Seq(Item)
<1> DEFINE l == Line(emitted + 1, s)
<1>0. todo = <<>> /\ w' = w /\ emitted' = emitted + 1
  BY DEF Emit, TurnOver
<1>1. l \in LineItem /\ l.id = emitted + 1 /\ l.op = "append" /\ l \in Item
  <2>1. s \in Nat \ {0} /\ emitted + 1 \in Int
    BY Numbers DEF Types
  <2> QED BY <2>1, LineTypes DEF Line, Item
<1>a. Flush.op # "append" /\ Flush \in Item
  BY DEF Flush, Item
<1>b. /\ todo' = IF ~w.usable THEN <<>> ELSE <<l>> \o (IF end THEN <<Flush>> ELSE <<>>)
      /\ phase' = IF end THEN "ended" ELSE phase
  BY DEF Emit
<1> HIDE DEF l
<1> DEFINE h == <<l>>
           f == <<Flush>>
<1>2. /\ LinesIn(h) = {emitted + 1} /\ Ascending(h) /\ FlushLast(h) /\ h \in Seq(Item)
      /\ LinesIn(f) = {} /\ Ascending(f) /\ FlushLast(f) /\ f \in Seq(Item)
      /\ LinesIn(<<>>) = {} /\ Ascending(<<>>) /\ FlushLast(<<>>) /\ <<>> \in Seq(Item)
      /\ \A i \in DOMAIN h : h[i].op = "append"
  BY <1>1, <1>a, LinesOfOne
<1>3. CASE ~w.usable
  <2>1. todo' = <<>> /\ DOMAIN todo' = {}
    BY <1>b, <1>3
  <2> QED BY <1>0, <1>2, <1>3, <2>1
<1>4. CASE w.usable /\ ~end
  <2>1. todo' = h
    <3>1. todo' = <<l>> \o <<>>
      BY <1>b, <1>4
    <3> HIDE DEF h
    <3> QED BY <1>2, <3>1, ConcatEmptySeq DEF h
  <2> HIDE DEF h
  <2> QED BY <1>0, <1>2, <1>4, <2>1
<1>5. CASE w.usable /\ end
  <2>1. todo' = h \o f
    BY <1>b, <1>5
  <2>2. phase' # "running"
    BY <1>b, <1>5
  <2> HIDE DEF h, f
  <2>3. LinesIn(todo') = {emitted + 1} /\ Ascending(todo') /\ FlushLast(todo')
    BY <1>2, <2>1, LinesOfJoin
  <2>4. todo' \in Seq(Item)
    BY <1>2, <2>1, ConcatProperties
  <2> QED BY <1>0, <1>5, <2>2, <2>3, <2>4
<1> QED
  BY <1>3, <1>4, <1>5

\* the head of the queue is a line, and is taken
LEMMA TakenLine ==
    ASSUME Types, Files, Bytes, Queued, todo # <<>>, todo' = Tail(todo), Head(todo).op = "append"
    PROVE  /\ LinesIn(todo) = LinesIn(todo') \union {Head(todo).id}
           /\ Ascending(todo') /\ FlushLast(todo')
           /\ \A n \in LinesIn(todo') : Head(todo).id < n
           /\ \A i \in DOMAIN todo' : \E j \in DOMAIN todo : todo'[i] = todo[j]
<1>1. todo \in Seq(Item) /\ Ascending(todo) /\ FlushLast(todo)
  BY QueueTypes
<1>2. LinesIn(<<Head(todo)>>) = {Head(todo).id}
  BY LinesOfOne
<1>3. /\ LinesIn(todo) = LinesIn(<<Head(todo)>>) \union LinesIn(Tail(todo))
      /\ Ascending(Tail(todo)) /\ FlushLast(Tail(todo))
      /\ \A m \in LinesIn(<<Head(todo)>>), n \in LinesIn(Tail(todo)) : m < n
      /\ \A i \in DOMAIN Tail(todo) : \E j \in DOMAIN todo : Tail(todo)[i] = todo[j]
  BY <1>1, LinesOfTail
<1> QED
  BY <1>2, <1>3

\* the flush is the last thing to do
LEMMA TakenFlush ==
    ASSUME Types, Files, Bytes, Queued, todo # <<>>, todo' = Tail(todo), Head(todo).op # "append"
    PROVE  todo' = <<>> /\ LinesIn(todo) = {}
<1>1. todo \in Seq(Item) /\ Ascending(todo) /\ FlushLast(todo)
  BY QueueTypes
<1>2. LinesIn(<<Head(todo)>>) = {}
  BY LinesOfOne
<1>3. /\ LinesIn(todo) = LinesIn(<<Head(todo)>>) \union LinesIn(Tail(todo))
      /\ Tail(todo) = <<>>
  BY <1>1, LinesOfTail
<1> QED
  BY <1>2, <1>3, LinesOfOne

\* the marker goes in front of everything else
LEMMA PushedMarker ==
    ASSUME Types, Files, Bytes, Queued, Opened, w.rotated # None
    PROVE  /\ LinesIn(todo') = LinesIn(todo) \union {-w.live}
           /\ Ascending(todo') /\ FlushLast(todo')
           /\ Head(todo') = Marker(w.live) /\ todo' # <<>>
           /\ LinesIn(todo) \subseteq 1..emitted
           /\ w.pending = <<>>
           /\ \A i \in DOMAIN todo' : todo'[i].op # "append" =>
                \E j \in DOMAIN todo : todo[j].op # "append"
<1> DEFINE m == Marker(w.live)
           h == <<m>>
<1>1. /\ todo \in Seq(Item) /\ Ascending(todo) /\ FlushLast(todo)
      /\ w.live \in Nat /\ emitted \in Nat
  BY QueueTypes
<1>2. retiring /\ todo' = h \o todo /\ w.opened /\ ~w.sealing
  BY DEF Opened, Files
<1>3. LinesIn(todo) \subseteq 1..emitted
  BY <1>2, QueueTypes DEF MarkerNext
<1>4. m \in LineItem /\ m.op = "append" /\ m.id = -w.live /\ m \in Item
  <2>1. -w.live \in Int /\ MarkerSize \in Nat \ {0}
    BY <1>1, Numbers
  <2> QED BY <2>1, LineTypes DEF Marker, Line, Item
<1> HIDE DEF m
<1>5. /\ h \in Seq(Item) /\ LinesIn(h) = {-w.live} /\ Ascending(h)
      /\ \A i \in DOMAIN h : h[i].op = "append"
  BY <1>4, LinesOfOne
<1>6. \A x \in {-w.live}, y \in LinesIn(todo) : x < y
  BY <1>1, <1>3
<1>a. Len(h) = 1 /\ h[1] = m
  OBVIOUS
<1> HIDE DEF h
<1>7. LinesIn(todo') = LinesIn(todo) \union {-w.live} /\ Ascending(todo') /\ FlushLast(todo')
  BY <1>1, <1>2, <1>5, <1>6, LinesOfJoin
<1>8. /\ Len(todo') = Len(h) + Len(todo) /\ todo' \in Seq(Item)
      /\ \A i \in 1..Len(h) + Len(todo) : todo'[i] = IF i <= Len(h) THEN h[i] ELSE todo[i - Len(h)]
  BY <1>1, <1>2, <1>5, ConcatProperties
<1>9. Len(todo) \in Nat /\ todo'[1] = m /\ Len(todo') > 0
  BY <1>1, <1>8, <1>a
<1>10. todo' # <<>> /\ Head(todo') = m
  <2>1. todo' # <<>>
    BY <1>9, NoIds
  <2> QED BY <1>8, <1>9, <2>1, HeadTailProperties
<1>11. w.pending = <<>>
  BY <1>2 DEF Queued
<1>12. \A i \in DOMAIN todo' : todo'[i].op # "append" => \E j \in DOMAIN todo : todo[j].op # "append"
  <2> SUFFICES ASSUME NEW i \in DOMAIN todo', todo'[i].op # "append"
               PROVE  \E j \in DOMAIN todo : todo[j].op # "append"
    OBVIOUS
  <2>1. i \in 1..1 + Len(todo)
    BY <1>8, <1>a, LenProperties
  <2>2. i # 1
    BY <1>4, <1>9
  <2>3. i - 1 \in DOMAIN todo /\ todo'[i] = todo[i - 1]
    BY <1>1, <1>8, <1>9, <1>a, <2>1, <2>2
  <2> QED BY <2>3
<1> QED
  BY <1>3, <1>7, <1>10, <1>11, <1>12 DEF m

\* every step keeps the order of the queue,
LEMMA QueuedStep ==
    ASSUME Types, Files, Bytes, Queued, LogNext, Types', Files'
    PROVE  Queued'
<1>0. /\ todo \in Seq(Item) /\ w.pending \in Seq(LineItem) /\ w.pending \in Seq(Item)
      /\ Ascending(todo) /\ Ascending(w.pending) /\ FlushLast(todo)
      /\ LinesIn(w.pending) \subseteq 1..emitted
      /\ emitted \in Nat
      /\ \A i \in DOMAIN w.pending : w.pending[i].op = "append"
      /\ w \in Writer
  BY QueueTypes DEF Types
<1>a. /\ \A m \in LinesIn(w.pending), n \in LinesIn(todo) : m < n
      /\ (\E i \in DOMAIN todo : todo[i].op # "append") => phase # "running"
      /\ ~w.sealing => w.pending = <<>>
  BY DEF Queued
<1>b. LinesIn(<<>>) = {} /\ Ascending(<<>>) /\ FlushLast(<<>>) /\ DOMAIN <<>> = {}
  BY LinesOfOne
<1>1. ASSUME NEW s \in LineSizes[mode], NEW end \in BOOLEAN, Emit(s, end) PROVE Queued'
  <2>1. /\ LinesIn(todo') \subseteq {emitted + 1}
        /\ Ascending(todo') /\ FlushLast(todo')
        /\ (\E i \in DOMAIN todo' : todo'[i].op # "append") => phase' # "running"
        /\ w' = w
    BY <1>1, EmittedLines
  <2>2. \A m \in LinesIn(w.pending), n \in LinesIn(todo') : m < n
    BY <1>0, <2>1
  <2> QED BY <1>0, <1>a, <2>1, <2>2 DEF Queued
<1>2. ASSUME todo' = todo, w'.pending = w.pending, w'.sealing = w.sealing,
             phase' = phase \/ phase' # "running"
      PROVE  Queued'
  BY <1>0, <1>2, <1>a DEF Queued
<1>3. ASSUME todo' = <<>>, w'.pending = <<>> PROVE Queued'
  BY <1>3, <1>b DEF Queued
\* a line is taken, and written or dropped
<1>4. ASSUME todo # <<>>, todo' = Tail(todo), Head(todo).op = "append",
             w'.pending = w.pending, w'.sealing = w.sealing, phase' = phase
      PROVE  Queued'
  <2>1. /\ LinesIn(todo) = LinesIn(todo') \union {Head(todo).id}
        /\ Ascending(todo') /\ FlushLast(todo')
        /\ \A i \in DOMAIN todo' : \E j \in DOMAIN todo : todo'[i] = todo[j]
    BY <1>4, TakenLine
  <2> QED BY <1>0, <1>4, <1>a, <2>1 DEF Queued
\* a line is taken, and held
<1>5. ASSUME todo # <<>>, todo' = Tail(todo), Head(todo) \in LineItem,
             w'.pending = Append(w.pending, Head(todo)), w'.sealing, phase' = phase
      PROVE  Queued'
  <2>0. Head(todo).op = "append"
    BY <1>5 DEF LineItem
  <2>1. /\ LinesIn(todo) = LinesIn(todo') \union {Head(todo).id}
        /\ Ascending(todo') /\ FlushLast(todo')
        /\ \A n \in LinesIn(todo') : Head(todo).id < n
        /\ \A i \in DOMAIN todo' : \E j \in DOMAIN todo : todo'[i] = todo[j]
    BY <1>5, <2>0, TakenLine
  <2>2. LinesIn(w'.pending) = LinesIn(w.pending) \union {Head(todo).id} /\ Ascending(w'.pending)
    <3>1. \A m \in LinesIn(w.pending) : m < Head(todo).id
      BY <1>a, <2>1
    <3> QED BY <1>0, <1>5, <3>1, LinesOfAppend
  <2> QED BY <1>5, <1>a, <2>1, <2>2 DEF Queued
<1>6. CASE HoldOrDrop
  <2>1. /\ todo # <<>> /\ todo' = Tail(todo) /\ Head(todo) \in LineItem /\ phase' = phase
        /\ Head(todo).op = "append"
    BY <1>6, HeadOfTurn DEF HoldOrDrop, Appending
  <2>2. CASE w.sealing
    <3>1. w'.pending = Append(w.pending, Head(todo)) /\ w'.sealing
      BY <1>0, <1>6, <2>2 DEF HoldOrDrop, Writer
    <3> QED BY <1>5, <2>1, <3>1
  <2>3. CASE ~w.sealing
    <3>1. w' = w
      BY <1>6, <2>3 DEF HoldOrDrop
    <3> QED BY <1>4, <2>1, <3>1
  <2> QED BY <2>2, <2>3
<1>7. CASE Open \/ OpenFails
  <2>1. todo' = todo /\ phase' = phase
    BY <1>7 DEF Open, OpenFails
  <2>2. w'.pending = w.pending /\ w'.sealing = w.sealing
    BY <1>7, DiscoveredSegments DEF Open, OpenFails, Disabled, Writer
  <2> QED BY <1>2, <2>1, <2>2
<1>8. CASE Retire \/ WriteFails \/ CloseLog
  <2>1. todo' = todo /\ (phase' = phase \/ phase' # "running")
    BY <1>8 DEF Retire, WriteFails, CloseLog
  <2>2. w'.pending = w.pending /\ w'.sealing = w.sealing
    BY <1>0, <1>8 DEF Retire, WriteFails, CloseLog, Disabled, Writer
  <2> QED BY <1>2, <2>1, <2>2
<1>9. CASE Opened
  <2>1. w'.pending = w.pending /\ w'.sealing = w.sealing /\ phase' = phase
    BY <1>0, <1>9 DEF Opened, Writer
  <2>2. CASE w.rotated = None
    BY <1>2, <1>9, <2>1, <2>2 DEF Opened
  <2>3. CASE w.rotated # None
    <3>1. /\ Ascending(todo') /\ FlushLast(todo') /\ w.pending = <<>>
          /\ \A i \in DOMAIN todo' : todo'[i].op # "append" =>
                \E j \in DOMAIN todo : todo[j].op # "append"
      BY <1>9, <2>3, PushedMarker
    <3> QED BY <1>a, <1>b, <2>1, <3>1 DEF Queued
  <2> QED BY <2>2, <2>3
<1>10. CASE Seal
  <2>1. /\ todo # <<>> /\ Head(todo) \in LineItem /\ Head(todo) = todo[1] /\ phase' = phase
        /\ w.opened /\ w.live < MaxSegment
    BY <1>10, HeadOfTurn DEF Seal, Appending
  <2>2. CASE mode = "sync"
    <3>1. todo' = [todo EXCEPT ![1] = [todo[1] EXCEPT !.checked = TRUE]]
      BY <1>10, <2>1, <2>2 DEF Seal
    <3>2. w'.pending = w.pending /\ w'.sealing = w.sealing
      BY <1>10, <2>1, <2>2, AdvancedTypes DEF Seal, Writer
    <3>3. DOMAIN todo' = DOMAIN todo /\ Len(todo') = Len(todo)
      BY <1>0, <3>1
    <3>4. \A i \in DOMAIN todo : todo'[i].op = todo[i].op
                                 /\ (todo[i].op = "append" => todo'[i].id = todo[i].id)
      <4>1. \A i \in DOMAIN todo : i # 1 => todo'[i] = todo[i]
        BY <3>1
      <4>2. 1 \in DOMAIN todo => todo'[1] = [todo[1] EXCEPT !.checked = TRUE]
        BY <3>1
      <4>3. 1 \in DOMAIN todo => todo'[1].op = todo[1].op /\ todo'[1].id = todo[1].id
        BY <2>1, <4>2 DEF LineItem
      <4> QED BY <4>1, <4>3
    <3>5. LinesIn(todo') = LinesIn(todo) /\ Ascending(todo') /\ FlushLast(todo')
      BY <1>0, <3>3, <3>4, SameLines
    <3>6. (\E i \in DOMAIN todo' : todo'[i].op # "append") => phase' # "running"
      BY <1>a, <2>1, <3>3, <3>4
    <3> QED BY <1>0, <1>a, <3>2, <3>5, <3>6 DEF Queued
  <2>3. CASE mode # "sync"
    <3>1. w'.pending = Append(w.pending, Head(todo)) /\ w'.sealing /\ todo' = Tail(todo)
      BY <1>0, <1>10, <2>3 DEF Seal, Writer
    <3> QED BY <1>5, <2>1, <3>1
  <2> QED BY <2>2, <2>3
<1>11. CASE Write
  <2>1. /\ todo # <<>> /\ todo' = Tail(todo) /\ phase' = phase /\ Head(todo).op = "append"
    BY <1>11 DEF Write, Appending
  <2>2. w'.pending = w.pending /\ w'.sealing = w.sealing
    BY <1>0, <1>11 DEF Write, Writer
  <2> QED BY <1>4, <2>1, <2>2
<1>12. CASE FlushSync
  <2>1. todo # <<>> /\ todo' = Tail(todo) /\ phase' = phase /\ Head(todo).op # "append" /\ w' = w
    BY <1>12 DEF FlushSync
  <2>2. todo' = <<>>
    BY <2>1, TakenFlush
  <2> QED BY <1>0, <1>a, <1>b, <2>1, <2>2 DEF Queued
<1>13. CASE StartWrite
  BY <1>2, <1>13 DEF StartWrite
<1>14. CASE Deposit
  BY <1>2, <1>14 DEF Deposit
<1>15. CASE SealDone
  <2>1. w.live < MaxSegment
    BY <1>15 DEF SealDone, Files
  <2>2. todo' = w.pending /\ w'.pending = <<>> /\ ~w'.sealing
    BY <1>15, <2>1, AdvancedTypes DEF SealDone, Writer
  <2>3. FlushLast(w.pending)
    BY <1>0 DEF FlushLast
  <2>4. ~\E i \in DOMAIN todo' : todo'[i].op # "append"
    BY <1>0, <2>2
  <2> QED BY <1>0, <1>b, <2>2, <2>3, <2>4 DEF Queued
<1>16. CASE CrashAndRestart
  BY <1>3, <1>16 DEF CrashAndRestart, NewWriter
<1> QED
  BY <1>1, <1>6, <1>7, <1>8, <1>9, <1>10, <1>11, <1>12, <1>13, <1>14, <1>15, <1>16 DEF LogNext

\* what each step does to the lines that wait
LEMMA WaitingStep ==
    ASSUME Types, Files, Bytes, Queued, LogNext
    PROVE  /\ \A s \in LineSizes[mode], end \in BOOLEAN : Emit(s, end) =>
                Waiting' = Waiting \union (IF w.usable THEN {emitted + 1} ELSE {})
           /\ Write =>
                /\ Head(todo) \in LineItem /\ Waiting = Waiting' \union {Head(todo).id}
                /\ \A n \in Waiting' : Head(todo).id < n
           /\ Opened =>
                Waiting' = Waiting \union (IF w.rotated = None THEN {} ELSE {-w.live})
           /\ HoldOrDrop => Waiting' \subseteq Waiting /\ (w.usable => Waiting' = Waiting)
           /\ CrashAndRestart => Waiting' = {}
           /\ \/ Open \/ OpenFails \/ Retire \/ Seal \/ FlushSync \/ StartWrite \/ Deposit
              \/ WriteFails \/ SealDone \/ CloseLog
              => Waiting' = Waiting
<1>0. /\ todo \in Seq(Item) /\ w.pending \in Seq(LineItem) /\ w.pending \in Seq(Item)
      /\ Ascending(todo) /\ Ascending(w.pending) /\ FlushLast(todo)
      /\ w \in Writer
  BY QueueTypes DEF Types
<1>a. /\ \A m \in LinesIn(w.pending), n \in LinesIn(todo) : m < n
      /\ ~w.sealing => w.pending = <<>>
  BY DEF Queued
<1>b. LinesIn(<<>>) = {}
  BY LinesOfOne
<1>1. ASSUME NEW s \in LineSizes[mode], NEW end \in BOOLEAN, Emit(s, end)
      PROVE  Waiting' = Waiting \union (IF w.usable THEN {emitted + 1} ELSE {})
  <2>1. LinesIn(todo') = (IF w.usable THEN {emitted + 1} ELSE {}) /\ todo = <<>> /\ w' = w
    BY <1>1, EmittedLines
  <2> QED BY <1>b, <2>1 DEF Waiting
<1>2. ASSUME todo' = todo, w'.pending = w.pending PROVE Waiting' = Waiting
  BY <1>2 DEF Waiting
\* a line is taken, and held
<1>5. ASSUME todo # <<>>, todo' = Tail(todo), Head(todo) \in LineItem,
             w'.pending = Append(w.pending, Head(todo))
      PROVE  Waiting' = Waiting
  <2>0. Head(todo).op = "append"
    BY <1>5 DEF LineItem
  <2>1. LinesIn(todo) = LinesIn(todo') \union {Head(todo).id}
    BY <1>5, <2>0, TakenLine
  <2>2. LinesIn(w'.pending) = LinesIn(w.pending) \union {Head(todo).id}
    <3>1. \A m \in LinesIn(w.pending) : m < Head(todo).id
      BY <1>a, <2>1
    <3> QED BY <1>0, <1>5, <3>1, LinesOfAppend
  <2> QED BY <2>1, <2>2 DEF Waiting
<1>6. ASSUME HoldOrDrop
      PROVE  Waiting' \subseteq Waiting /\ (w.usable => Waiting' = Waiting)
  <2>1. /\ todo # <<>> /\ todo' = Tail(todo) /\ Head(todo) \in LineItem
        /\ Head(todo).op = "append"
    BY <1>6, HeadOfTurn DEF HoldOrDrop, Appending
  <2>2. CASE w.sealing
    <3>1. w'.pending = Append(w.pending, Head(todo))
      BY <1>0, <1>6, <2>2 DEF HoldOrDrop, Writer
    <3> QED BY <1>5, <2>1, <3>1
  <2>3. CASE ~w.sealing
    <3>1. w' = w /\ ~w.usable
      BY <1>6, <2>3 DEF HoldOrDrop
    <3>2. LinesIn(todo) = LinesIn(todo') \union {Head(todo).id}
      BY <2>1, TakenLine
    <3> QED BY <3>1, <3>2 DEF Waiting
  <2> QED BY <2>2, <2>3
<1>7. ASSUME Open \/ OpenFails PROVE Waiting' = Waiting
  <2>1. todo' = todo
    BY <1>7 DEF Open, OpenFails
  <2>2. w'.pending = w.pending
    BY <1>7, DiscoveredSegments DEF Open, OpenFails, Disabled, Writer
  <2> QED BY <1>2, <2>1, <2>2
<1>8. ASSUME Retire \/ WriteFails \/ CloseLog PROVE Waiting' = Waiting
  <2>1. todo' = todo
    BY <1>8 DEF Retire, WriteFails, CloseLog
  <2>2. w'.pending = w.pending
    BY <1>0, <1>8 DEF Retire, WriteFails, CloseLog, Disabled, Writer
  <2> QED BY <1>2, <2>1, <2>2
<1>9. ASSUME Opened
      PROVE  Waiting' = Waiting \union (IF w.rotated = None THEN {} ELSE {-w.live})
  <2>1. w'.pending = w.pending
    BY <1>0, <1>9 DEF Opened, Writer
  <2>2. CASE w.rotated = None
    BY <1>2, <1>9, <2>1, <2>2 DEF Opened
  <2>3. CASE w.rotated # None
    <3>1. LinesIn(todo') = LinesIn(todo) \union {-w.live}
      BY <1>9, <2>3, PushedMarker
    <3> QED BY <2>1, <2>3, <3>1 DEF Waiting
  <2> QED BY <2>2, <2>3
<1>10. ASSUME Seal PROVE Waiting' = Waiting
  <2>1. /\ todo # <<>> /\ Head(todo) \in LineItem /\ Head(todo) = todo[1]
        /\ w.opened /\ w.live < MaxSegment
    BY <1>10, HeadOfTurn DEF Seal, Appending
  <2>2. CASE mode = "sync"
    <3>1. todo' = [todo EXCEPT ![1] = [todo[1] EXCEPT !.checked = TRUE]]
      BY <1>10, <2>1, <2>2 DEF Seal
    <3>2. w'.pending = w.pending
      BY <1>10, <2>1, <2>2, AdvancedTypes DEF Seal, Writer
    <3>3. DOMAIN todo' = DOMAIN todo /\ Len(todo') = Len(todo)
      BY <1>0, <3>1
    <3>4. \A i \in DOMAIN todo : todo'[i].op = todo[i].op
                                 /\ (todo[i].op = "append" => todo'[i].id = todo[i].id)
      <4>1. \A i \in DOMAIN todo : i # 1 => todo'[i] = todo[i]
        BY <3>1
      <4>2. 1 \in DOMAIN todo => todo'[1] = [todo[1] EXCEPT !.checked = TRUE]
        BY <3>1
      <4>3. 1 \in DOMAIN todo => todo'[1].op = todo[1].op /\ todo'[1].id = todo[1].id
        BY <2>1, <4>2 DEF LineItem
      <4> QED BY <4>1, <4>3
    <3>5. LinesIn(todo') = LinesIn(todo)
      BY <1>0, <3>3, <3>4, SameLines
    <3> QED BY <3>2, <3>5 DEF Waiting
  <2>3. CASE mode # "sync"
    <3>1. w'.pending = Append(w.pending, Head(todo)) /\ todo' = Tail(todo)
      BY <1>0, <1>10, <2>3 DEF Seal, Writer
    <3> QED BY <1>5, <2>1, <3>1
  <2> QED BY <2>2, <2>3
<1>11. ASSUME Write
       PROVE  /\ Head(todo) \in LineItem /\ Waiting = Waiting' \union {Head(todo).id}
              /\ \A n \in Waiting' : Head(todo).id < n
  <2>1. /\ todo # <<>> /\ todo' = Tail(todo) /\ Head(todo).op = "append" /\ Head(todo) \in LineItem
        /\ w.opened
    BY <1>11, HeadOfTurn DEF Write, Appending
  <2>2. w'.pending = w.pending
    BY <1>0, <1>11 DEF Write, Writer
  <2>3. w.pending = <<>>
    BY <1>a, <2>1 DEF Files
  <2>4. /\ LinesIn(todo) = LinesIn(todo') \union {Head(todo).id}
        /\ \A n \in LinesIn(todo') : Head(todo).id < n
    BY <2>1, TakenLine
  <2> QED BY <1>b, <2>1, <2>2, <2>3, <2>4 DEF Waiting
<1>12. ASSUME FlushSync PROVE Waiting' = Waiting
  <2>1. todo # <<>> /\ todo' = Tail(todo) /\ Head(todo).op # "append" /\ w' = w
    BY <1>12 DEF FlushSync
  <2>2. todo' = <<>> /\ LinesIn(todo) = {}
    BY <2>1, TakenFlush
  <2> QED BY <1>b, <2>1, <2>2 DEF Waiting
<1>13. ASSUME StartWrite \/ Deposit PROVE Waiting' = Waiting
  BY <1>2, <1>13 DEF StartWrite, Deposit
<1>15. ASSUME SealDone PROVE Waiting' = Waiting
  <2>1. w.live < MaxSegment /\ todo = <<>>
    BY <1>15 DEF SealDone, Files, TurnOver
  <2>2. todo' = w.pending /\ w'.pending = <<>>
    BY <1>15, <2>1, AdvancedTypes DEF SealDone, Writer
  <2> QED BY <1>b, <2>1, <2>2 DEF Waiting
<1>16. ASSUME CrashAndRestart PROVE Waiting' = {}
  <2>1. todo' = <<>> /\ w'.pending = <<>>
    BY <1>16 DEF CrashAndRestart, NewWriter
  <2> QED BY <1>b, <2>1 DEF Waiting
<1> QED
  BY <1>1, <1>6, <1>7, <1>8, <1>9, <1>10, <1>11, <1>12, <1>13, <1>15, <1>16

\* a line that waits is an event, or the marker of the live segment
LEMMA WaitingIds ==
    ASSUME Types, Files, Bytes, Queued
    PROVE  /\ \A n \in Waiting : n \in Int /\ (n > 0 => n <= emitted)
           /\ \A n \in Waiting : n > 0 \/ (n = -w.live /\ MarkerNext /\ Head(todo) = Marker(w.live))
           /\ todo # <<>> /\ Head(todo) \in LineItem =>
                Head(todo).id > 0 \/ (Head(todo).id = -w.live /\ MarkerNext
                                        /\ Head(todo) = Marker(w.live))
<1>1. /\ LinesIn(w.pending) \subseteq 1..emitted
      /\ \A n \in LinesIn(todo) :
            n \in 1..emitted \/ (n = -w.live /\ MarkerNext /\ Head(todo) = Marker(w.live))
      /\ emitted \in Nat /\ w.live \in Nat
  BY QueueTypes
<1>2. \A n \in Waiting : n \in 1..emitted \/ (n = -w.live /\ MarkerNext
                                               /\ Head(todo) = Marker(w.live))
  BY <1>1 DEF Waiting
<1>3. \A n \in Waiting : n \in Int /\ (n > 0 => n <= emitted)
  BY <1>1, <1>2
<1>4. \A n \in Waiting : n > 0 \/ (n = -w.live /\ MarkerNext /\ Head(todo) = Marker(w.live))
  BY <1>1, <1>2
<1>5. todo # <<>> /\ Head(todo) \in LineItem => Head(todo).id \in Waiting
  <2> SUFFICES ASSUME todo # <<>>, Head(todo) \in LineItem PROVE Head(todo).id \in Waiting
    OBVIOUS
  <2>1. Head(todo) = todo[1] /\ 1 \in DOMAIN todo /\ todo[1].op = "append"
    <3>1. todo \in Seq(Item)
      BY QueueTypes
    <3>2. Len(todo) > 0 /\ Len(todo) \in Nat
      BY <3>1, EmptySeq
    <3> QED BY <3>1, <3>2, HeadTailProperties DEF LineItem
  <2> QED BY <2>1 DEF Waiting, LinesIn
<1> QED
  BY <1>3, <1>4, <1>5

\* and what is later than what
LEMMA LaterStep ==
    ASSUME Types, Files, Bytes, Queued, Later, LogNext, Types', Files'
    PROVE  Later'
<1>0. /\ emitted \in Nat /\ emitted' \in Nat /\ emitted <= emitted'
      /\ w.live \in Segments /\ \A k \in Segments : k \in Nat
      /\ wrote \in [Segments -> Seq(Unit)]
  <2>1. emitted \in Nat /\ emitted' \in Nat /\ emitted <= emitted'
    BY EmittedGrows
  <2>2. w.live \in Segments /\ wrote \in [Segments -> Seq(Unit)]
    BY DEF Types, Writer
  <2>3. \A k \in Segments : k \in Nat
    BY DEF Segments
  <2> QED BY <2>1, <2>2, <2>3
<1>a. /\ \A k \in Segments : \A n \in Ids(TextOf(k)) :
            n <= emitted /\ \A m \in Waiting : m > 0 => n < m
      /\ \A k, l \in Segments : k < l =>
            \A m \in Ids(wrote[k]), n \in Ids(TextOf(l)) : n > 0 => m < n
  BY DEF Later
<1>b. \A k \in Segments :
            /\ TextOf(k) \in Seq(Unit) /\ wrote[k] \in Seq(Unit)
            /\ Ids(wrote[k]) \subseteq Ids(TextOf(k))
  BY TextOfParts
<1>c. \A k \in Segments : Ids(wrote[k]') \subseteq Ids(TextOf(k)')
  BY NextTextOf
<1>d. \A k \in Segments : \A n \in Ids(TextOf(k)) : n \in Int
  <2> SUFFICES ASSUME NEW k \in Segments, NEW i \in DOMAIN TextOf(k) PROVE TextOf(k)[i].id \in Int
    BY DEF Ids
  <2>1. TextOf(k)[i] \in Unit
    BY <1>b
  <2> QED BY <2>1 DEF Unit
<1>1. CASE Write
  <2> DEFINE h == Head(todo).id
  <2>1. /\ Head(todo) \in LineItem /\ Waiting = Waiting' \union {h}
        /\ \A n \in Waiting' : h < n
    BY <1>1, WaitingStep
  <2>2. wrote' = wrote /\ emitted' = emitted /\ todo # <<>>
    BY <1>1 DEF Write, Appending
  <2>3. h \in Int /\ h <= emitted
    <3>1. h \in Int /\ (h > 0 => h <= emitted)
      BY <2>1, WaitingIds
    <3> QED BY <1>0, <3>1
  <2>4. \A k \in Segments : Ids(TextOf(k)') = IF k = w.live THEN Ids(TextOf(k)) \union {h}
                                              ELSE Ids(TextOf(k))
    <3> SUFFICES ASSUME NEW k \in Segments
                 PROVE  Ids(TextOf(k)') = IF k = w.live THEN Ids(TextOf(k)) \union {h}
                                          ELSE Ids(TextOf(k))
      OBVIOUS
    <3>1. TextOf(k)' = IF k = w.live THEN TextOf(k) \o Units(Head(todo)) ELSE TextOf(k)
      BY <1>1, TextOfSteps
    <3>2. Units(Head(todo)) \in Seq(Unit) /\ Ids(Units(Head(todo))) = {h}
      BY <2>1, UnitsOfLine
    <3>3. Ids(TextOf(k) \o Units(Head(todo))) = Ids(TextOf(k)) \union {h}
      BY <1>b, <3>2, IdsOfConcat
    <3> QED BY <3>1, <3>3
  <2> HIDE DEF h
  <2>5. \A k \in Segments : \A n \in Ids(TextOf(k)') :
            n <= emitted' /\ \A m \in Waiting' : m > 0 => n < m
    BY <1>a, <2>1, <2>2, <2>3, <2>4
  <2>6. \A k, l \in Segments : k < l =>
            \A m \in Ids(wrote'[k]), n \in Ids(TextOf(l)') : n > 0 => m < n
    <3> SUFFICES ASSUME NEW k \in Segments, NEW l \in Segments, k < l,
                        NEW m \in Ids(wrote[k]), NEW n \in Ids(TextOf(l)'), n > 0
                 PROVE  m < n
      BY <2>2
    <3>1. CASE n \in Ids(TextOf(l))
      BY <1>a, <3>1
    <3>2. CASE n \notin Ids(TextOf(l))
      <4>1. n = h /\ h \in Waiting
        BY <2>1, <2>4, <3>2
      <4>2. m \in Ids(TextOf(k))
        BY <1>b
      <4> QED BY <1>a, <4>1, <4>2
    <3> QED BY <3>1, <3>2
  <2> QED BY <2>5, <2>6 DEF Later
<1>2. CASE ~Write
  <2>1. \A k \in Segments : Ids(TextOf(k)') \subseteq Ids(TextOf(k))
    <3> SUFFICES ASSUME NEW k \in Segments PROVE Ids(TextOf(k)') \subseteq Ids(TextOf(k))
      OBVIOUS
    <3>1. \/ Ids(TextOf(k)') = Ids(TextOf(k)) \/ TextOf(k)' = wrote[k]
          \/ TextOf(k)' = TextOf(k)
      BY <1>2, TextOfSteps
    <3> QED BY <1>b, <3>1
  <2>2. \A k \in Segments : \A n \in Ids(TextOf(k)') : n <= emitted' /\ n \in Int
    <3>1. \A k \in Segments : \A n \in Ids(TextOf(k)') : n <= emitted /\ n \in Int
      BY <1>a, <1>d, <2>1
    <3> QED BY <1>0, <3>1
  <2>3. \A k \in Segments : \A n \in Ids(TextOf(k)') : \A m \in Waiting' : m > 0 => n < m
    <3>1. \A m \in Waiting' : m \in Waiting \/ m = emitted + 1 \/ m = -w.live
      <4>1. ASSUME NEW s \in LineSizes[mode], NEW end \in BOOLEAN, Emit(s, end)
            PROVE  \A m \in Waiting' : m \in Waiting \/ m = emitted + 1 \/ m = -w.live
        BY <4>1, WaitingStep
      <4>2. CASE Opened
        BY <4>2, WaitingStep
      <4>3. CASE HoldOrDrop
        BY <4>3, WaitingStep
      <4>4. CASE CrashAndRestart
        BY <4>4, WaitingStep
      <4>5. CASE \/ Open \/ OpenFails \/ Retire \/ Seal \/ FlushSync \/ StartWrite \/ Deposit
                 \/ WriteFails \/ SealDone \/ CloseLog
        BY <4>5, WaitingStep
      <4> QED BY <1>2, <4>1, <4>2, <4>3, <4>4, <4>5 DEF LogNext
    <3>2. \A k \in Segments : \A n \in Ids(TextOf(k)') :
                n <= emitted /\ n \in Int /\ \A m \in Waiting : m > 0 => n < m
      BY <1>a, <1>d, <2>1
    <3>3. ~(-w.live > 0) /\ \A n \in Int : n <= emitted => n < emitted + 1
      BY <1>0
    <3> QED BY <3>1, <3>2, <3>3
  <2>4. \A k, l \in Segments : k < l =>
            \A m \in Ids(wrote'[k]), n \in Ids(TextOf(l)') : n > 0 => m < n
    <3> SUFFICES ASSUME NEW k \in Segments, NEW l \in Segments, k < l,
                        NEW m \in Ids(wrote'[k]), NEW n \in Ids(TextOf(l)'), n > 0
                 PROVE  m < n
      OBVIOUS
    <3>1. n \in Ids(TextOf(l))
      BY <2>1
    <3>2. CASE wrote'[k] = wrote[k]
      BY <1>a, <3>1, <3>2
    <3>3. CASE wrote'[k] # wrote[k]
      <4>1. k = stream.segment /\ Busy
        BY <3>3, SegmentsStep DEF Busy
      <4>2. k = w.live /\ w.discovered /\ \A j \in DOMAIN disk : j <= w.live
        BY <4>1 DEF Files
      <4>3. wrote[l] = <<>>
        <5>1. DOMAIN disk \subseteq Nat
          BY <1>0 DEF Types
        <5>2. ~\E j \in DOMAIN disk : j >= l
          BY <1>0, <4>2, <5>1
        <5> QED BY <5>2 DEF Files
      <4>4. TextOf(l) = <<>>
        BY <1>0, <4>2, <4>3 DEF TextOf
      <4> QED BY <3>1, <4>4, NoIds
    <3> QED BY <3>2, <3>3
  <2> QED BY <2>2, <2>3, <2>4 DEF Later
<1> QED
  BY <1>1, <1>2

\* a marker leads the beginning of a text it leads
LEMMA LeadsPrefix ==
    ASSUME NEW k \in Nat, NEW s \in Seq(Unit), NEW t \in Seq(Unit), Len(s) <= Len(t),
           \A i \in 1..Len(s) : t[i] = s[i]
    PROVE  /\ Begins(k, t) => Begins(k, s)
           /\ MarkerOnly(k, t) => MarkerOnly(k, s)
<1>1. Len(s) \in Nat /\ Len(t) \in Nat /\ DOMAIN s = 1..Len(s) /\ DOMAIN t = 1..Len(t)
  OBVIOUS
<1>2. \A i \in DOMAIN s : i \in DOMAIN t /\ t[i] = s[i]
  BY <1>1
<1>3. s # <<>> => t # <<>> /\ s[1] = t[1]
  <2> SUFFICES ASSUME s # <<>> PROVE t # <<>> /\ s[1] = t[1]
    OBVIOUS
  <2>1. 1 \in 1..Len(s) /\ Len(t) > 0
    BY <1>1, EmptySeq
  <2> QED BY <2>1, NoIds
<1> QED
  BY <1>2, <1>3 DEF Begins, MarkerOnly

\* faults are not forgotten
LEMMA FaultsGrow ==
    ASSUME LogNext
    PROVE  faults \subseteq faults' /\ mode' = mode
BY DEF LogNext, Emit, HoldOrDrop, Open, OpenFails, Retire, Opened, Seal, Write, FlushSync,
       StartWrite, Deposit, WriteFails, SealDone, CloseLog, CrashAndRestart, Fault

\* after run.end's flush no step appends anything any more
LEMMA ReorderedStays ==
    ASSUME Types, Files, Bytes, Queued, LogNext, ~CrashAndRestart, Reordered
    PROVE  (w'.live = w.live /\ Reordered') \/ LiveText = <<>>
<1>1. mode = "async" /\ phase # "running" /\ todo = <<>> /\ w.pending = <<>> /\ ~w.sealing
  BY DEF Reordered
<1>2. w \in Writer
  BY DEF Types
<1>3. ASSUME NEW s \in LineSizes[mode], NEW end \in BOOLEAN, Emit(s, end) PROVE FALSE
  BY <1>1, <1>3 DEF Emit
<1>4. CASE HoldOrDrop \/ Open \/ OpenFails \/ Seal \/ Write \/ FlushSync \/ SealDone
  BY <1>1, <1>4 DEF HoldOrDrop, Open, OpenFails, Seal, Write, FlushSync, SealDone, MustOpen, Appending
<1>5. CASE Retire \/ StartWrite \/ Deposit
  <2>1. mode' = mode /\ phase' = phase /\ todo' = todo
    BY <1>5 DEF Retire, StartWrite, Deposit
  <2>2. w'.pending = w.pending /\ w'.sealing = w.sealing /\ w'.live = w.live
    BY <1>2, <1>5 DEF Retire, StartWrite, Deposit, Writer
  <2> QED BY <1>1, <2>1, <2>2 DEF Reordered
<1>6. CASE Opened
  <2>1. mode' = mode /\ phase' = phase
    BY <1>6 DEF Opened
  <2>2. w'.pending = w.pending /\ w'.sealing = w.sealing /\ w'.live = w.live
    BY <1>2, <1>6 DEF Opened, Writer
  <2>3. CASE w.rotated = None
    <3>1. todo' = todo
      BY <1>6, <2>3 DEF Opened
    <3> QED BY <1>1, <2>1, <2>2, <3>1 DEF Reordered
  <2>4. CASE w.rotated # None
    BY <2>4 DEF Bytes, QueueKept
  <2> QED BY <2>3, <2>4
<1>7. CASE WriteFails \/ CloseLog
  <2>1. mode' = mode /\ phase' # "running" /\ todo' = todo
    BY <1>1, <1>7 DEF WriteFails, CloseLog
  <2>2. w'.pending = w.pending /\ w'.sealing = w.sealing /\ w'.live = w.live
    BY <1>2, <1>7 DEF WriteFails, CloseLog, Disabled, Writer
  <2> QED BY <1>1, <2>1, <2>2 DEF Reordered
<1> QED
  BY <1>3, <1>4, <1>5, <1>6, <1>7 DEF LogNext

\* each step keeps the texts in order
LEMMA OrderedStep ==
    ASSUME Types, Files, Bytes, Queued, Later, Ordered, Complete, LogNext, Types', Files'
    PROVE  Ordered'
<1>1. faults \subseteq faults' /\ mode' = mode
  BY FaultsGrow
<1> SUFFICES ASSUME mode = "sync" \/ "crash" \notin faults',
                    NEW k \in Segments, k = w'.live => ~Reordered'
             PROVE  /\ InOrder(TextOf(k)') /\ MarkerOnly(k, TextOf(k)')
                    /\ "crash" \notin faults' => Begins(k, TextOf(k)')
  BY <1>1 DEF Ordered
<1>2. (k = w.live => ~Reordered) =>
        /\ InOrder(TextOf(k)) /\ MarkerOnly(k, TextOf(k))
        /\ "crash" \notin faults => Begins(k, TextOf(k))
  BY <1>1 DEF Ordered
<1>3. /\ k \in Nat /\ w.live \in Segments /\ TextOf(k) \in Seq(Unit) /\ wrote[k] \in Seq(Unit)
      /\ Len(wrote[k]) <= Len(TextOf(k))
      /\ \A i \in 1..Len(wrote[k]) : TextOf(k)[i] = wrote[k][i]
  <2>1. k \in Nat
    BY DEF Segments
  <2>2. w.live \in Segments
    BY DEF Types, Writer
  <2> QED BY <2>1, <2>2, TextOfParts
<1>4. /\ InOrder(<<>>) /\ MarkerOnly(k, <<>>) /\ Begins(k, <<>>)
  BY DEF InOrder, MarkerOnly, Begins
<1>5. todo # <<>> => ~Reordered
  BY DEF Reordered
<1>6. CASE TextOf(k)' = TextOf(k) /\ ~CrashAndRestart
  <2>1. CASE k = w.live /\ Reordered
    <3>1. TextOf(k) = <<>>
      BY <1>6, <2>1, ReorderedStays DEF TextOf
    <3> QED BY <1>4, <1>6, <3>1
  <2>2. CASE k = w.live => ~Reordered
    BY <1>1, <1>2, <1>6, <2>2
  <2> QED BY <2>1, <2>2
<1>7. CASE WriteFails \/ CrashAndRestart
  <2>1. TextOf(k)' = wrote[k]
    BY <1>7, TextOfSteps
  <2>2. CASE k = w.live => ~Reordered
    <3>1. InOrder(wrote[k]) /\ MarkerOnly(k, wrote[k]) /\ ("crash" \notin faults => Begins(k, wrote[k]))
      BY <1>2, <1>3, <2>2, OrderOfPrefix, LeadsPrefix
    <3> QED BY <1>1, <2>1, <3>1
  <2>3. CASE k = w.live /\ Reordered
    <3>1. mode = "async"
      BY <2>3 DEF Reordered
    <3>2. WriteFails /\ ~CrashAndRestart
      BY <1>7, <3>1 DEF CrashAndRestart, Fault
    <3>3. TextOf(k) = <<>>
      BY <2>3, <3>2, ReorderedStays DEF TextOf
    <3>4. Len(<<>>) = 0 /\ Len(wrote[k]) \in Nat
      BY <1>3
    <3>5. wrote[k] = <<>>
      BY <1>3, <3>3, <3>4, EmptySeq
    <3> QED BY <1>4, <2>1, <3>5
  <2> QED BY <2>2, <2>3
<1>8. CASE FlushSync
  <2>1. CASE mode = "sync" \/ ~w.opened \/ k # w.live
    <3>1. TextOf(k)' = TextOf(k)
      BY <1>8, <2>1, TextOfSteps
    <3>2. k = w.live => ~Reordered
      BY <1>5, <1>8 DEF FlushSync
    <3> QED BY <1>1, <1>2, <3>1, <3>2
  <2>2. CASE mode # "sync" /\ w.opened /\ k = w.live
    <3>1. /\ todo # <<>> /\ todo' = Tail(todo) /\ phase' = phase /\ Head(todo).op # "append" /\ w' = w
      BY <1>8 DEF FlushSync
    <3>2. todo' = <<>>
      BY <3>1, TakenFlush
    <3>3. phase # "running"
      <4>1. todo \in Seq(Item)
        BY QueueTypes
      <4>2. Head(todo) = todo[1] /\ 1 \in DOMAIN todo
        <5>1. Len(todo) \in Nat /\ Len(todo) > 0
          BY <3>1, <4>1, EmptySeq
        <5> QED BY <3>1, <4>1, <5>1, HeadTailProperties
      <4> QED BY <3>1, <4>2 DEF Queued
    <3>4. ~w.sealing /\ w.pending = <<>> /\ mode = "async"
      <4>1. mode \in {"sync", "async"}
        BY Numbers DEF Types
      <4> QED BY <2>2, <4>1 DEF Files, Queued
    <3>5. Reordered'
      BY <1>1, <3>1, <3>2, <3>3, <3>4 DEF Reordered
    <3> QED BY <2>2, <3>1, <3>5
  <2> QED BY <2>1, <2>2
<1>9. CASE Write /\ k = w.live
  <2> DEFINE h == Head(todo)
             u == Units(h)
  <2>1. h \in LineItem /\ Waiting = Waiting' \union {h.id} /\ todo # <<>> /\ ~retiring /\ w.opened
    BY <1>9, WaitingStep DEF Write, Appending
  <2>2. TextOf(k)' = TextOf(k) \o u /\ TextOf(k) = LiveText
    BY <1>9, TextOfSteps DEF TextOf
  <2>3. /\ InOrder(TextOf(k)) /\ MarkerOnly(k, TextOf(k))
        /\ "crash" \notin faults => Begins(k, TextOf(k))
    BY <1>2, <1>5, <2>1
  <2>4. h.id > 0 \/ (h.id = -k /\ TextOf(k) = <<>> /\ k > 0 /\ h = Marker(k))
    <3>1. h.id > 0 \/ (h.id = -w.live /\ MarkerNext /\ h = Marker(w.live))
      BY <2>1, WaitingIds
    <3> QED BY <1>9, <2>2, <3>1 DEF MarkerNext
  <2>5. h.id \in Int /\ h.size \in Nat \ {0}
    BY <2>1 DEF LineItem
  <2>6. /\ u \in Seq(Unit) /\ Len(u) = h.size
        /\ \A i \in 1..h.size : u[i].id = h.id
    BY <2>1, UnitsOfLine, UnitFields
  <2> HIDE DEF u, h
  <2>7. \A n \in Ids(TextOf(k)) : n < h.id
    <3>1. CASE h.id > 0
      BY <2>1, <3>1 DEF Later
    <3>2. CASE TextOf(k) = <<>>
      BY <3>2, NoIds
    <3> QED BY <2>4, <3>1, <3>2
  <2>8. InOrder(TextOf(k)')
    <3>1. InOrder(TextOf(k) \o Units(h))
      BY <1>3, <2>1, <2>3, <2>7, OrderOfJoined
    <3> QED BY <2>2, <3>1 DEF u
  <2>9. /\ TextOf(k) \o u \in Seq(Unit)
        /\ Len(TextOf(k) \o u) = Len(TextOf(k)) + Len(u)
        /\ Len(TextOf(k)) \in Nat /\ Len(u) \in Nat
        /\ \A i \in 1..Len(TextOf(k)) : (TextOf(k) \o u)[i] = TextOf(k)[i]
        /\ \A i \in 1..Len(u) : (TextOf(k) \o u)[Len(TextOf(k)) + i] = u[i]
    BY <1>3, <2>6, Joined
  <2>10. TextOf(k) = <<>> => TextOf(k) \o u = u
    BY <2>6, ConcatEmptySeq
  <2>11. MarkerOnly(k, TextOf(k)')
    <3>1. CASE h.id > 0
      <4> SUFFICES ASSUME NEW i \in 1..Len(TextOf(k)) + Len(u), (TextOf(k) \o u)[i].id <= 0
                   PROVE  k > 0 /\ i <= MarkerSize /\ (TextOf(k) \o u)[i] = Units(Marker(k))[i]
        BY <2>2, <2>9 DEF MarkerOnly
      <4>1. i <= Len(TextOf(k))
        <5> SUFFICES ASSUME i > Len(TextOf(k)) PROVE FALSE
          BY <2>9
        <5>1. i - Len(TextOf(k)) \in 1..Len(u) /\ Len(TextOf(k)) + (i - Len(TextOf(k))) = i
          BY <2>9
        <5>2. (TextOf(k) \o u)[i] = u[i - Len(TextOf(k))]
          BY <2>9, <5>1
        <5>3. u[i - Len(TextOf(k))].id = h.id
          BY <2>6, <5>1
        <5> QED BY <2>5, <3>1, <5>2, <5>3
      <4>2. (TextOf(k) \o u)[i] = TextOf(k)[i] /\ i \in DOMAIN TextOf(k)
        BY <1>3, <2>9, <4>1
      <4> QED BY <2>3, <4>2 DEF MarkerOnly
    <3>2. CASE h.id = -k /\ TextOf(k) = <<>> /\ k > 0 /\ h = Marker(k)
      <4>1. TextOf(k)' = Units(Marker(k)) /\ Marker(k).size = MarkerSize
        BY <2>2, <2>10, <3>2 DEF u, Marker, Line
      <4>2. DOMAIN Units(Marker(k)) = 1..MarkerSize
        BY <2>1, <3>2, <4>1, UnitsOfLine
      <4>3. \A i \in 1..MarkerSize : i <= MarkerSize
        BY Numbers
      <4> QED BY <3>2, <4>1, <4>2, <4>3 DEF MarkerOnly
    <3> QED BY <2>4, <3>1, <3>2
  <2>12. "crash" \notin faults' => Begins(k, TextOf(k)')
    <3> SUFFICES ASSUME "crash" \notin faults', k > 0 PROVE (TextOf(k) \o u)[1].id = -k
      BY <2>2 DEF Begins
    <3>1. "crash" \notin faults
      BY <1>1
    <3>2. CASE TextOf(k) = <<>>
      <4>1. w.usable /\ (w.rotated = None)
        BY <2>1 DEF Files, Bytes, QueueKept
      <4>2. h = Marker(k)
        BY <1>9, <2>2, <3>1, <3>2, <4>1 DEF Complete, MarkerDue, h
      <4>3. h.id = -k
        BY <4>2 DEF Marker, Line
      <4>4. 1 \in 1..h.size
        BY <2>5
      <4> QED BY <2>6, <2>10, <3>2, <4>3, <4>4
    <3>3. CASE TextOf(k) # <<>>
      <4>1. 1 \in 1..Len(TextOf(k))
        BY <1>3, <2>9, <3>3, EmptySeq
      <4>2. TextOf(k)[1].id = -k
        BY <2>3, <3>1, <3>3 DEF Begins
      <4> QED BY <2>9, <4>1, <4>2
    <3> QED BY <3>2, <3>3
  <2> QED BY <2>8, <2>11, <2>12
<1>10. Write /\ k # w.live => TextOf(k)' = TextOf(k) /\ ~CrashAndRestart
  <2> SUFFICES ASSUME Write, k # w.live PROVE TextOf(k)' = TextOf(k) /\ ~CrashAndRestart
    OBVIOUS
  <2>1. w'.opened
    BY DEF Write, Appending, Types, Writer
  <2>2. ~CrashAndRestart
    BY <2>1 DEF CrashAndRestart, NewWriter
  <2>3. TextOf(k)' = TextOf(k)
    BY TextOfSteps
  <2> QED BY <2>2, <2>3
<1> QED
  BY <1>6, <1>7, <1>8, <1>9, <1>10, TextOfSteps

\* segments become sealed when their successor is opened, and only then
LEMMA SealedStep ==
    ASSUME Types, Files, LogNext, ~Open
    PROVE  Sealed' = Sealed
<1>1. disk \in [DOMAIN disk -> Seq(Unit)]
  BY DEF Types
<1>2. DOMAIN disk' \subseteq DOMAIN disk
  <2>1. CASE Deposit
    BY <1>1, <2>1 DEF Deposit
  <2>2. CASE Retire
    BY <1>1, <2>2 DEF Retire, Restrict
  <2>3. CASE disk' = disk
    BY <2>3
  <2> QED BY <2>1, <2>2, <2>3 DEF LogNext, Emit, HoldOrDrop, OpenFails, Opened, Seal, Write, FlushSync,
       StartWrite, WriteFails, SealDone, CloseLog, CrashAndRestart
<1>3. Sealed' \subseteq Sealed
  BY <1>2 DEF Sealed
<1> QED
  BY <1>3, SegmentsStep

\* when a segment is sealed, nothing emitted before its last event is missing
LEMMA NothingMissing ==
    ASSUME Types, Files, Bytes, Queued, Later, NEW k \in Segments, k < w.live,
           \A n \in 1..emitted : ~Lost(n)
    PROVE  \A n \in Events(k) : \A m \in 1..n : \E l \in 0..k : m \in Events(l)
<1> SUFFICES ASSUME NEW n \in Events(k), NEW m \in 1..n
             PROVE  \E l \in 0..k : m \in Events(l)
  OBVIOUS
<1>1. /\ w.live \in Nat /\ emitted \in Nat /\ k \in Nat /\ w.live \in Segments
  BY Numbers DEF Types, Writer, Segments
<1>2. n \in 1..emitted /\ n \in Ids(wrote[k]) /\ m \in 1..emitted /\ m <= n /\ m > 0 /\ m \in Nat
  <2>1. n \in 1..emitted /\ n \in Ids(wrote[k])
    BY DEF Events
  <2> QED BY <1>1, <2>1
<1>3. n \in Ids(TextOf(k))
  BY <1>2, TextOfParts
<1>4. m \notin Waiting
  <2> SUFFICES ASSUME m \in Waiting PROVE FALSE
    OBVIOUS
  <2>1. n < m
    BY <1>2, <1>3 DEF Later
  <2> QED BY <1>1, <1>2, <2>1
<1>5. PICK l \in 0..w.live : m \in Ids(TextOf(l))
  BY <1>2, <1>4 DEF Lost
<1>6. l \in Segments /\ l \in Nat /\ l <= w.live
  BY <1>1, Numbers DEF Segments
<1>7. l <= k
  <2> SUFFICES ASSUME k < l PROVE FALSE
    BY <1>1, <1>6
  <2>1. n < m
    BY <1>2, <1>5, <1>6 DEF Later
  <2> QED BY <1>1, <1>2, <2>1
<1>8. l # w.live /\ l \in 0..k
  BY <1>1, <1>6, <1>7
<1>9. m \in Ids(wrote[l])
  BY <1>5, <1>8 DEF TextOf
<1> QED
  BY <1>2, <1>8, <1>9 DEF Events

\* a segment is whole when its successor is opened, and stays so
LEMMA SealedCompleteStep ==
    ASSUME Types, Files, Bytes, Queued, Later, Complete, LogNext, "crash" \notin faults
    PROVE  SealedComplete'
<1>0. SealedComplete
  BY DEF Complete
<1>1. /\ \A k \in Segments : k \in Nat /\ \A l \in 0..k : l \in Segments /\ l <= k /\ l \in Nat
      /\ emitted \in Nat /\ emitted' \in Nat /\ emitted <= emitted'
      /\ w.live \in Segments /\ DOMAIN disk \subseteq Segments /\ w \in Writer
  <2>1. \A k \in Segments : k \in Nat /\ \A l \in 0..k : l \in Segments /\ l <= k /\ l \in Nat
    BY Numbers DEF Segments
  <2>2. w.live \in Segments /\ DOMAIN disk \subseteq Segments /\ w \in Writer
    BY DEF Types, Writer
  <2> QED BY <2>1, <2>2, EmittedGrows
\* no event emitted later is already in a segment
<1>2. ASSUME NEW k \in Segments, wrote'[k] = wrote[k] PROVE Events(k)' = Events(k)
  <2>1. \A n \in Ids(wrote[k]) : n <= emitted
    BY TextOfParts DEF Later
  <2> QED BY <1>1, <1>2, <2>1 DEF Events
<1>3. CASE ~Open
  <2>1. Sealed' = Sealed
    BY <1>3, SealedStep
  <2>2. \A k \in Sealed : k \in Segments /\ wrote'[k] = wrote[k] /\ \A l \in 0..k : l \in Sealed
    <3>1. \A k \in Sealed : \A l \in 0..k : l \in Sealed
      <4> SUFFICES ASSUME NEW k \in Sealed, NEW l \in 0..k PROVE l \in Sealed
        OBVIOUS
      <4>1. PICK j \in DOMAIN disk : j > k
        BY DEF Sealed
      <4>2. j \in Nat /\ k \in Segments
        BY <1>1 DEF Sealed
      <4>3. l \in Segments /\ j > l
        BY <1>1, <4>1, <4>2
      <4> QED BY <4>3 DEF Sealed
    <3>2. \A k \in Sealed : k \in Segments
      BY DEF Sealed
    <3> QED BY <3>1, <3>2, SegmentsStep
  <2> SUFFICES ASSUME NEW k \in Sealed
               PROVE  /\ Unbroken(wrote'[k])
                      /\ \A n \in Events(k)' : \A m \in 1..n : \E l \in 0..k : m \in Events(l)'
    BY <2>1 DEF SealedComplete
  <2>3. \A l \in 0..k : Events(l)' = Events(l)
    BY <1>2, <2>2
  <2>4. Events(k)' = Events(k) /\ wrote'[k] = wrote[k]
    BY <1>2, <2>2
  <2> QED BY <1>0, <2>3, <2>4 DEF SealedComplete
<1>4. CASE Open
  <2>1. /\ wrote' = wrote /\ emitted' = emitted /\ w.usable
        /\ DOMAIN disk' = DOMAIN disk \union {Discovered.live}
    BY <1>4 DEF Open, MustOpen
  <2>2. \A k \in Segments : Events(k)' = Events(k)
    BY <1>2, <2>1
  <2>3. CASE ~w.discovered
    <3>1. DOMAIN disk = {}
      BY <2>3 DEF Complete
    <3>2. Discovered.live = 0
      BY <2>3, <3>1, DiscoveredSegments
    <3>3. DOMAIN disk' = {0}
      BY <2>1, <3>1, <3>2
    <3>4. \A k \in Segments : ~(0 > k)
      BY <1>1
    <3>5. Sealed' = {}
      BY <3>3, <3>4 DEF Sealed
    <3> QED BY <3>5 DEF SealedComplete
  <2>4. CASE w.discovered
    <3>1. DOMAIN disk' = DOMAIN disk \union {w.live} /\ \A j \in DOMAIN disk : j <= w.live
      BY <2>1, <2>4, DiscoveredSegments DEF Files
    <3>2. \A k \in Sealed' : k \in Segments /\ k < w.live
      <4> SUFFICES ASSUME NEW k \in Sealed' PROVE k \in Segments /\ k < w.live
        OBVIOUS
      <4>1. k \in Segments
        BY DEF Sealed
      <4>2. PICK j \in DOMAIN disk' : j > k
        BY DEF Sealed
      <4>3. j \in Nat /\ j <= w.live /\ w.live \in Nat
        BY <1>1, <3>1, <4>2
      <4> QED BY <1>1, <4>1, <4>2, <4>3
    <3>3. /\ \A k \in Segments : k < w.live => Unbroken(wrote[k])
          /\ \A n \in 1..emitted : ~Lost(n)
      BY <2>1 DEF Complete, WholeTexts
    <3>4. \A k \in Segments : k < w.live =>
            \A n \in Events(k) : \A m \in 1..n : \E l \in 0..k : m \in Events(l)
      BY <3>3, NothingMissing
    <3> SUFFICES ASSUME NEW k \in Sealed'
                 PROVE  /\ Unbroken(wrote'[k])
                        /\ \A n \in Events(k)' : \A m \in 1..n : \E l \in 0..k : m \in Events(l)'
      BY DEF SealedComplete
    <3>5. \A l \in 0..k : Events(l)' = Events(l)
      BY <1>1, <2>2, <3>2
    <3>6. Events(k)' = Events(k) /\ Unbroken(wrote'[k])
      BY <2>1, <2>2, <3>2, <3>3
    <3> QED BY <3>2, <3>4, <3>5, <3>6
  <2> QED BY <2>3, <2>4
<1> QED
  BY <1>3, <1>4

\* nothing is on disk before the first open of a run no process of which has died
LEMMA UndiscoveredStep ==
    ASSUME Types, Files, LogNext, ~CrashAndRestart, ~w.discovered => DOMAIN disk = {}
    PROVE  ~w'.discovered => DOMAIN disk' = {}
<1>1. w \in Writer /\ disk \in [DOMAIN disk -> Seq(Unit)]
  BY DEF Types
<1>2. CASE Open
  <2>1. w'.discovered
    BY <1>2, DiscoveredSegments DEF Open, Writer
  <2> QED BY <2>1
<1>3. CASE OpenFails
  <2>1. w'.discovered
    BY <1>3, DiscoveredSegments DEF OpenFails, Disabled, Writer
  <2> QED BY <2>1
<1>4. CASE Deposit
  <2>1. w' = w /\ DOMAIN disk' = DOMAIN disk
    BY <1>1, <1>4 DEF Deposit
  <2> QED BY <2>1
<1>5. CASE Retire
  <2>1. w'.discovered = w.discovered
    BY <1>1, <1>5 DEF Retire, Writer
  <2>2. DOMAIN disk' \subseteq DOMAIN disk
    BY <1>1, <1>5 DEF Retire, Restrict
  <2> QED BY <2>1, <2>2
<1>6. CASE Seal \/ SealDone
  <2>1. w.discovered
    BY <1>6 DEF Seal, SealDone, Files
  <2>2. w'.discovered
    <3>1. CASE Seal /\ mode = "sync"
      <4>1. w.live < MaxSegment
        BY <3>1 DEF Seal
      <4> QED BY <2>1, <3>1, <4>1, AdvancedTypes DEF Seal, Writer
    <3>2. CASE Seal /\ mode # "sync"
      BY <1>1, <2>1, <3>2 DEF Seal, Writer
    <3>3. CASE SealDone
      <4>1. w.live < MaxSegment
        BY <3>3 DEF SealDone, Files
      <4> QED BY <2>1, <3>3, <4>1, AdvancedTypes DEF SealDone, Writer
    <3> QED BY <1>6, <3>1, <3>2, <3>3
  <2> QED BY <2>2
<1>7. CASE HoldOrDrop \/ Opened \/ Write \/ WriteFails \/ CloseLog
  <2>1. disk' = disk
    BY <1>7 DEF HoldOrDrop, Opened, Write, WriteFails, CloseLog
  <2>2. w'.discovered = w.discovered
    BY <1>1, <1>7 DEF HoldOrDrop, Opened, Write, WriteFails, CloseLog, Disabled, Writer
  <2> QED BY <2>1, <2>2
<1>8. CASE w' = w /\ disk' = disk
  BY <1>8
<1> QED
  BY <1>2, <1>3, <1>4, <1>5, <1>6, <1>7, <1>8 DEF LogNext, Emit, FlushSync, StartWrite

\* what becomes of the live segment and its text while the log stays usable
LEMMA LiveSteps ==
    ASSUME Types, Files, LogNext, ~CrashAndRestart, w'.usable,
           ~w.discovered => DOMAIN disk = {}
    PROVE  /\ w.usable /\ ~WriteFails /\ ~OpenFails /\ ~CloseLog
           /\ \A k \in Segments : k # w.live => wrote'[k] = wrote[k]
           /\ \/ Write /\ w'.live = w.live /\ LiveText' = LiveText \o Units(Head(todo))
              \/ FlushSync /\ w' = w /\ Len(LiveText') = Len(LiveText)
                 /\ (mode = "sync" \/ ~w.opened => LiveText' = LiveText)
              \/ ((Seal /\ mode = "sync") \/ SealDone) /\ w'.live = w.live + 1
                 /\ wrote' = wrote /\ LiveText = wrote[w.live] /\ LiveText' = <<>>
              \/ w'.live = w.live /\ LiveText' = LiveText
<1>1. w \in Writer /\ w.live \in Segments /\ wrote \in [Segments -> Seq(Unit)]
  BY DEF Types, Writer
<1>2. ~WriteFails /\ ~OpenFails /\ ~CloseLog
  <2>1. ~WriteFails /\ ~CloseLog
    BY <1>1 DEF WriteFails, CloseLog, Disabled, Writer
  <2>2. ~OpenFails
    BY DiscoveredSegments DEF OpenFails, Disabled, Writer
  <2> QED BY <2>1, <2>2
<1>3. w.usable
  <2>1. CASE \/ Write \/ Open \/ Seal \/ FlushSync
    BY <2>1 DEF Write, Open, MustOpen, Seal, FlushSync, Files
  <2>2. CASE HoldOrDrop \/ Retire \/ Opened
    BY <1>1, <2>2 DEF HoldOrDrop, Retire, Opened, Writer
  <2>3. CASE SealDone
    <3>1. w.live < MaxSegment
      BY <2>3 DEF SealDone, Files
    <3> QED BY <2>3, <3>1, AdvancedTypes DEF SealDone, Writer
  <2>4. CASE w' = w
    BY <2>4
  <2> QED BY <1>2, <2>1, <2>2, <2>3, <2>4 DEF LogNext, Emit, StartWrite, Deposit
<1>4. Open => w'.live = w.live
  <2> SUFFICES ASSUME Open PROVE Discovered.live = w.live
    BY TextSteps
  <2>1. CASE w.discovered
    BY <2>1, DiscoveredSegments
  <2>2. CASE ~w.discovered
    BY <2>2, DiscoveredSegments DEF Files
  <2> QED BY <2>1, <2>2
<1>5. CASE Open
  BY <1>2, <1>3, <1>4, <1>5, TextSteps
<1>6. CASE Write \/ FlushSync \/ (Seal /\ mode = "sync") \/ SealDone
  BY <1>2, <1>3, <1>6, TextSteps
<1>7. CASE Deposit
  BY <1>2, <1>3, <1>7, TextSteps
<1>8. CASE w'.live = w.live /\ wrote' = wrote /\ LiveText' = LiveText
  BY <1>2, <1>3, <1>8
<1> QED
  BY <1>2, <1>5, <1>6, <1>7, <1>8, TextSteps

\* no line is cut short while the log is usable
LEMMA WholeTextsStep ==
    ASSUME Types, Files, Bytes, Queued, LogNext, ~CrashAndRestart, w'.usable, WholeTexts,
           ~w.discovered => DOMAIN disk = {}
    PROVE  WholeTexts'
<1>1. /\ w.live \in Segments /\ w.live \in Nat /\ \A k \in Segments : k \in Nat
      /\ wrote \in [Segments -> Seq(Unit)] /\ LiveText \in Seq(Unit)
  <2>1. w.live \in Segments /\ wrote \in [Segments -> Seq(Unit)]
    BY DEF Types, Writer
  <2>2. \A k \in Segments : k \in Nat
    BY DEF Segments
  <2> QED BY <2>1, <2>2, LiveTextParts
<1>2. /\ \A k \in Segments : k # w.live => wrote'[k] = wrote[k]
      /\ mode' = mode
  BY LiveSteps, FaultsGrow
<1>3. todo # <<>> => ~Reordered
  BY DEF Reordered
<1>4. Unbroken(<<>>)
  BY DEF Unbroken
<1>5. CASE Write /\ w'.live = w.live /\ LiveText' = LiveText \o Units(Head(todo))
  <2>1. Head(todo) \in LineItem /\ todo # <<>>
    BY <1>5, WaitingStep DEF Write, Appending
  <2>2. Unbroken(LiveText)
    BY <1>3, <2>1 DEF WholeTexts
  <2>3. Unbroken(LiveText')
    BY <1>1, <1>5, <2>1, <2>2, UnbrokenJoined
  <2>4. \A k \in Segments : k < w.live => wrote'[k] = wrote[k]
    BY <1>1, <1>2
  <2> QED BY <1>5, <2>3, <2>4 DEF WholeTexts
<1>6. CASE FlushSync /\ w' = w /\ (mode = "sync" \/ ~w.opened => LiveText' = LiveText)
  <2>1. \A k \in Segments : k < w.live => wrote'[k] = wrote[k]
    BY <1>1, <1>2
  <2>2. todo # <<>> /\ todo' = Tail(todo) /\ phase' = phase /\ Head(todo).op # "append"
    BY <1>6 DEF FlushSync
  <2>3. CASE mode = "sync" \/ ~w.opened
    <3>1. Unbroken(LiveText')
      BY <1>3, <1>6, <2>2, <2>3 DEF WholeTexts
    <3> QED BY <1>6, <2>1, <3>1 DEF WholeTexts
  <2>4. CASE mode # "sync" /\ w.opened
    <3>2. todo' = <<>>
      BY <2>2, TakenFlush
    <3>3. phase # "running"
      <4>1. todo \in Seq(Item)
        BY QueueTypes
      <4>2. Head(todo) = todo[1] /\ 1 \in DOMAIN todo
        <5>1. Len(todo) \in Nat /\ Len(todo) > 0
          BY <2>2, <4>1, EmptySeq
        <5> QED BY <2>2, <4>1, <5>1, HeadTailProperties
      <4> QED BY <2>2, <4>2 DEF Queued
    <3>4. ~w.sealing /\ w.pending = <<>> /\ mode = "async"
      <4>1. mode \in {"sync", "async"}
        BY Numbers DEF Types
      <4> QED BY <2>4, <4>1 DEF Files, Queued
    <3>5. Reordered'
      BY <1>2, <1>6, <2>2, <3>2, <3>3, <3>4 DEF Reordered
    <3> QED BY <1>6, <2>1, <3>5 DEF WholeTexts
  <2> QED BY <2>3, <2>4
<1>7. CASE ((Seal /\ mode = "sync") \/ SealDone) /\ w'.live = w.live + 1
           /\ wrote' = wrote /\ LiveText = wrote[w.live] /\ LiveText' = <<>>
  <2>1. ~Reordered
    BY <1>3, <1>7 DEF Seal, SealDone, Appending, Reordered
  <2>2. Unbroken(wrote[w.live])
    BY <1>7, <2>1 DEF WholeTexts
  <2>3. \A k \in Segments : k < w.live + 1 => k < w.live \/ k = w.live
    BY <1>1
  <2>4. \A k \in Segments : k < w'.live => Unbroken(wrote'[k])
    BY <1>7, <2>2, <2>3 DEF WholeTexts
  <2> QED BY <1>4, <1>7, <2>4 DEF WholeTexts
<1>8. CASE w'.live = w.live /\ LiveText' = LiveText
  <2>1. \A k \in Segments : k < w.live => wrote'[k] = wrote[k]
    BY <1>1, <1>2
  <2>2. CASE Reordered
    BY <1>4, <1>8, <2>1, <2>2, ReorderedStays DEF WholeTexts
  <2>3. CASE ~Reordered
    BY <1>8, <2>1, <2>3 DEF WholeTexts
  <2> QED BY <2>2, <2>3
<1> QED
  BY <1>5, <1>6, <1>7, <1>8, LiveSteps

\* an event is on its way, or in a segment, until it is lost with the log
LEMMA LostStep ==
    ASSUME Types, Files, Bytes, Queued, LogNext, ~CrashAndRestart, w'.usable,
           ~w.discovered => DOMAIN disk = {},
           \A n \in 1..emitted : ~Lost(n)
    PROVE  \A n \in 1..emitted' : ~Lost(n)'
<1>1. w.live \in Segments /\ w.live \in Nat /\ emitted \in Nat /\ emitted' \in Nat
  <2>1. w.live \in Segments
    BY DEF Types, Writer
  <2> QED BY <2>1, EmittedGrows DEF Segments
<1>2. w.usable /\ ~WriteFails
  BY LiveSteps
<1>3. w'.live \in Nat /\ w.live <= w'.live
  BY <1>1, LiveSteps
<1>4. \A k \in 0..w.live : k \in Segments /\ k \in 0..w'.live
  BY <1>1, <1>3, Numbers DEF Segments
<1>5. \A k \in 0..w.live : Ids(TextOf(k)) \subseteq Ids(TextOf(k)')
  <2> SUFFICES ASSUME NEW k \in 0..w.live PROVE Ids(TextOf(k)) \subseteq Ids(TextOf(k)')
    OBVIOUS
  <2>0. k \in Segments
    BY <1>4
  <2>1. CASE Write
    <3>1. TextOf(k)' = IF k = w.live THEN TextOf(k) \o Units(Head(todo)) ELSE TextOf(k)
      BY <2>0, <2>1, TextOfSteps
    <3>2. Head(todo) \in LineItem
      BY <2>1, WaitingStep
    <3>3. Ids(TextOf(k) \o Units(Head(todo))) = Ids(TextOf(k)) \union Ids(Units(Head(todo)))
      BY <2>0, <3>2, TextOfParts, UnitsOfLine, IdsOfConcat
    <3> QED BY <3>1, <3>3
  <2>2. CASE FlushSync
    BY <2>0, <2>2, TextOfSteps
  <2>3. CASE TextOf(k)' = TextOf(k)
    BY <2>3
  <2> QED BY <1>2, <2>0, <2>1, <2>2, <2>3, TextOfSteps
<1>6. ASSUME NEW n \in Int, \/ n \in Waiting' \/ \E k \in 0..w'.live : n \in Ids(TextOf(k)')
      PROVE  ~Lost(n)'
  BY <1>6 DEF Lost
<1>7. ASSUME NEW n \in Int, NEW k \in 0..w.live, n \in Ids(TextOf(k))
      PROVE  ~Lost(n)'
  BY <1>4, <1>5, <1>6, <1>7
<1>8. CASE Write
  <2> DEFINE h == Head(todo).id
  <2>1. /\ Head(todo) \in LineItem /\ Waiting = Waiting' \union {h} /\ emitted' = emitted
    BY <1>8, WaitingStep DEF Write
  <2>2. h \in Ids(TextOf(w.live)')
    <3>1. TextOf(w.live)' = TextOf(w.live) \o Units(Head(todo))
      <4>1. \A k \in Segments : TextOf(k)' = IF k = w.live THEN TextOf(k) \o Units(Head(todo))
                                             ELSE TextOf(k)
        BY <1>8, TextOfSteps
      <4> HIDE DEF TextOf
      <4>2. w.live' = w.live
        BY <1>8, LiveSteps DEF Write, Writer, Types
      <4> QED BY <1>1, <4>1, <4>2
    <3>2. Ids(TextOf(w.live) \o Units(Head(todo))) = Ids(TextOf(w.live)) \union {h}
      BY <1>1, <2>1, TextOfParts, UnitsOfLine, IdsOfConcat
    <3> QED BY <3>1, <3>2
  <2> HIDE DEF h
  <2>3. w'.live \in 0..w'.live
    BY <1>3
  <2>4. \A n \in Waiting : n \in Waiting' \/ n \in Ids(TextOf(w.live)')
    BY <2>1, <2>2
  <2> SUFFICES ASSUME NEW n \in 1..emitted PROVE ~Lost(n)'
    BY <2>1
  <2>5. CASE n \in Waiting
    BY <1>6, <2>3, <2>4, <2>5
  <2>6. CASE n \notin Waiting
    BY <1>7, <2>6 DEF Lost
  <2> QED BY <2>5, <2>6
<1>9. ASSUME NEW s \in LineSizes[mode], NEW end \in BOOLEAN, Emit(s, end)
      PROVE  \A n \in 1..emitted' : ~Lost(n)'
  <2>1. emitted' = emitted + 1 /\ Waiting' = Waiting \union {emitted + 1}
    BY <1>2, <1>9, WaitingStep DEF Emit
  <2> SUFFICES ASSUME NEW n \in 1..emitted + 1 PROVE ~Lost(n)'
    BY <2>1
  <2>2. CASE n \in Waiting'
    BY <1>6, <2>2
  <2>3. CASE n \notin Waiting'
    <3>1. n \in 1..emitted /\ n \notin Waiting
      BY <1>1, <2>1, <2>3
    <3> QED BY <1>7, <3>1 DEF Lost
  <2> QED BY <2>2, <2>3
<1>10. CASE Waiting \subseteq Waiting' /\ emitted' = emitted
  <2> SUFFICES ASSUME NEW n \in 1..emitted PROVE ~Lost(n)'
    BY <1>10
  <2>1. CASE n \in Waiting
    BY <1>6, <1>10, <2>1
  <2>2. CASE n \notin Waiting
    BY <1>7, <2>2 DEF Lost
  <2> QED BY <2>1, <2>2
<1>11. CASE Opened \/ HoldOrDrop
  <2>1. Waiting \subseteq Waiting'
    BY <1>2, <1>11, WaitingStep
  <2>2. emitted' = emitted
    BY <1>11 DEF Opened, HoldOrDrop
  <2> QED BY <1>10, <2>1, <2>2
<1>12. CASE \/ Open \/ OpenFails \/ Retire \/ Seal \/ FlushSync \/ StartWrite \/ Deposit
            \/ WriteFails \/ SealDone \/ CloseLog
  <2>1. Waiting' = Waiting
    BY <1>12, WaitingStep
  <2>2. emitted' = emitted
    BY <1>12 DEF Open, OpenFails, Retire, Seal, FlushSync, StartWrite, Deposit, WriteFails,
                 SealDone, CloseLog
  <2> QED BY <1>10, <2>1, <2>2
<1> QED
  BY <1>8, <1>9, <1>11, <1>12 DEF LogNext

\* a segment that is still empty has its marker coming
LEMMA MarkerDueStep ==
    ASSUME Types, Files, Bytes, Queued, LogNext, ~CrashAndRestart, w'.usable, MarkerDue,
           ~w.discovered => DOMAIN disk = {}
    PROVE  MarkerDue'
<1>1. w \in Writer /\ w.live \in Segments /\ w.live \in Nat /\ LiveText \in Seq(Unit)
  <2>1. w \in Writer /\ w.live \in Segments
    BY DEF Types, Writer
  <2> QED BY <2>1, LiveTextParts DEF Segments
<1>2. w.usable /\ ~WriteFails /\ ~OpenFails /\ ~CloseLog
  BY LiveSteps
<1>3. CASE (Seal /\ mode = "sync") \/ SealDone
  <2>1. w.live < MaxSegment
    BY <1>3, TextSteps
  <2>2. w'.rotated = w.live
    BY <1>3, <2>1, AdvancedTypes DEF Seal, SealDone, Writer
  <2>3. w.live # None
    BY <1>1 DEF None
  <2> QED BY <2>2, <2>3 DEF MarkerDue
\* otherwise the segment stays, and was empty before
<1> SUFFICES ASSUME ~(Seal /\ mode = "sync"), ~SealDone, w'.live > 0, LiveText' = <<>>
             PROVE  w'.rotated # None \/ (todo' # <<>> /\ Head(todo') = Marker(w'.live))
  BY <1>3 DEF MarkerDue
<1>4. ~Write /\ w'.live = w.live /\ LiveText = <<>>
  <2>1. CASE Write /\ LiveText' = LiveText \o Units(Head(todo))
    <3>1. Head(todo) \in LineItem
      BY <2>1, WaitingStep
    <3>2. /\ Units(Head(todo)) \in Seq(Unit) /\ Units(Head(todo)) # <<>>
          /\ Len(Units(Head(todo))) \in Nat
      BY <3>1, UnitsOfLine DEF LineItem
    <3>3. Len(Units(Head(todo))) > 0
      BY <3>2, EmptySeq
    <3>4. Len(LiveText \o Units(Head(todo))) = Len(LiveText) + Len(Units(Head(todo)))
          /\ Len(LiveText) \in Nat
      BY <1>1, <3>2, Joined
    <3>5. Len(LiveText') = 0
      BY NoIds
    <3> DEFINE l == Len(LiveText)
               m == Len(Units(Head(todo)))
    <3>6. Len(LiveText') = l + m
      BY <2>1, <3>4
    <3>7. l \in Nat /\ m \in Nat /\ m > 0
      BY <3>2, <3>3, <3>4
    <3> HIDE DEF l, m
    <3>8. FALSE
      BY <3>5, <3>6, <3>7
    <3> QED BY <3>8
  <2>2. CASE FlushSync /\ w' = w /\ Len(LiveText') = Len(LiveText)
    <3>1. ~Write
      BY <2>2 DEF FlushSync, Write, Appending
    <3>2. Len(LiveText) = 0
      BY <2>2, NoIds
    <3> QED BY <1>1, <2>2, <3>1, <3>2, EmptySeq
  <2>3. CASE w'.live = w.live /\ LiveText' = LiveText
    <3>1. CASE Write
      BY <2>1, <3>1, TextSteps
    <3> QED BY <2>3, <3>1
  <2> QED BY <2>1, <2>2, <2>3, LiveSteps
<1>5. w.rotated # None \/ (todo # <<>> /\ Head(todo) = Marker(w.live))
  BY <1>1, <1>4 DEF MarkerDue
<1>6. Marker(w.live).op = "append" /\ Marker(w.live).id = -w.live
  BY DEF Marker, Line
<1>7. CASE w'.rotated = w.rotated /\ todo' = todo
  BY <1>4, <1>5, <1>7
<1>8. ASSUME NEW s \in LineSizes[mode], NEW end \in BOOLEAN, Emit(s, end)
      PROVE  w'.rotated # None
  BY <1>5, <1>8 DEF Emit, TurnOver
<1>9. CASE HoldOrDrop
  <2>1. w'.rotated = w.rotated /\ w.sealing
    BY <1>1, <1>2, <1>9 DEF HoldOrDrop, Writer
  <2>2. ~w.opened
    BY <2>1 DEF Files
  <2>3. ~(todo # <<>> /\ Head(todo) = Marker(w.live))
    <3> SUFFICES ASSUME todo # <<>>, Head(todo) = Marker(w.live) PROVE FALSE
      OBVIOUS
    <3>1. Head(todo) \in LineItem
      BY <1>6, HeadOfTurn
    <3>2. Head(todo).id > 0
      BY <2>2, <3>1, WaitingIds DEF MarkerNext
    <3> QED BY <1>1, <1>6, <3>2
  <2> QED BY <1>5, <2>1, <2>3
<1>10. CASE Open
  <2>1. todo' = todo /\ w'.rotated = w.rotated
    BY <1>10, DiscoveredSegments DEF Open, Writer
  <2> QED BY <1>7, <2>1
<1>11. CASE Retire \/ StartWrite \/ Deposit
  <2>1. todo' = todo /\ w'.rotated = w.rotated
    BY <1>1, <1>11 DEF Retire, StartWrite, Deposit, Writer
  <2> QED BY <1>7, <2>1
<1>12. CASE Opened
  <2>1. CASE w.rotated = None
    <3>1. todo' = todo /\ w'.rotated = None
      BY <1>1, <1>12, <2>1 DEF Opened, Writer
    <3> QED BY <1>4, <1>5, <2>1, <3>1
  <2>2. CASE w.rotated # None
    <3>1. Head(todo') = Marker(w.live) /\ todo' # <<>>
      BY <1>12, <2>2, PushedMarker
    <3> QED BY <1>4, <3>1
  <2> QED BY <2>1, <2>2
<1>13. CASE Seal
  <2>1. w.opened /\ w.bytes > 0
    BY <1>13 DEF Seal, Overflows
  <2>2. w.bytes = 0
    BY <1>4, <2>1, NoIds DEF Bytes, QueueKept
  <2> QED BY <2>1, <2>2
<1>14. CASE FlushSync
  <2>1. w' = w /\ Head(todo).op # "append"
    BY <1>14 DEF FlushSync
  <2> QED BY <1>5, <1>6, <2>1
<1> QED
  BY <1>2, <1>4, <1>8, <1>9, <1>10, <1>11, <1>12, <1>13, <1>14 DEF LogNext

\* every step keeps what is complete
LEMMA CompleteStep ==
    ASSUME Types, Files, Bytes, Queued, Later, Complete, LogNext
    PROVE  Complete'
<1>1. faults \subseteq faults'
  BY FaultsGrow
<1> SUFFICES ASSUME "crash" \notin faults'
             PROVE  /\ ~w'.discovered => DOMAIN disk' = {}
                    /\ w'.usable => WholeTexts' /\ MarkerDue' /\ \A n \in 1..emitted' : ~Lost(n)'
                    /\ SealedComplete'
  BY DEF Complete
<1>2. ~CrashAndRestart /\ "crash" \notin faults
  BY <1>1 DEF CrashAndRestart, Fault
<1>3. ~w.discovered => DOMAIN disk = {}
  BY <1>2 DEF Complete
<1>4. ~w'.discovered => DOMAIN disk' = {}
  BY <1>2, <1>3, UndiscoveredStep
<1>5. SealedComplete'
  BY <1>2, SealedCompleteStep
<1>6. ASSUME w'.usable
      PROVE  WholeTexts' /\ MarkerDue' /\ \A n \in 1..emitted' : ~Lost(n)'
  <2>1. w.usable
    BY <1>2, <1>3, <1>6, LiveSteps
  <2>2. WholeTexts /\ MarkerDue /\ \A n \in 1..emitted : ~Lost(n)
    BY <1>2, <2>1 DEF Complete
  <2>3. WholeTexts'
    BY <1>2, <1>3, <1>6, <2>2, WholeTextsStep
  <2>4. MarkerDue'
    BY <1>2, <1>3, <1>6, <2>2, MarkerDueStep
  <2>5. \A n \in 1..emitted' : ~Lost(n)'
    BY <1>2, <1>3, <1>6, <2>2, LostStep
  <2> QED BY <2>3, <2>4, <2>5
<1> QED
  BY <1>4, <1>5, <1>6

-----------------------------------------------------------------------------
Order == Queued /\ Later /\ Ordered /\ Complete

\* the initial state has nothing out of order,
LEMMA OrderInit == LogInit => Order
<1> SUFFICES ASSUME LogInit PROVE Order
  OBVIOUS
<1>1. /\ todo = <<>> /\ w = NewWriter /\ stream = Idle /\ emitted = 0 /\ phase = "running"
      /\ DOMAIN disk = {} /\ faults = {} /\ wrote = [k \in Segments |-> <<>>]
  BY DEF LogInit
<1>2. /\ w.pending = <<>> /\ w.live = 0 /\ ~w.sealing /\ w.rotated = None
      /\ stream.inflight = <<>> /\ stream.buffer = <<>>
  BY <1>1 DEF NewWriter, Idle
<1>3. LinesIn(<<>>) = {} /\ Ascending(<<>>) /\ FlushLast(<<>>) /\ DOMAIN <<>> = {}
  BY LinesOfOne
<1>4. Queued
  BY <1>1, <1>2, <1>3 DEF Queued
<1>5. w.live \in Segments /\ \A k \in Segments : wrote[k] = <<>>
  <2>1. Types
    BY InitTypes
  <2> QED BY <1>1, <2>1 DEF Types, Writer
<1>6. LiveText = <<>>
  <2>1. <<>> \o <<>> \o <<>> = <<>>
    OBVIOUS
  <2> QED BY <1>2, <1>5, <2>1 DEF LiveText
<1>7. \A k \in Segments : TextOf(k) = <<>>
  BY <1>5, <1>6 DEF TextOf
<1>8. Later
  BY <1>5, <1>7, NoIds DEF Later
<1>9. InOrder(<<>>) /\ Unbroken(<<>>) /\ \A k : Begins(k, <<>>) /\ MarkerOnly(k, <<>>)
  BY DEF InOrder, Unbroken, Begins, MarkerOnly
<1>10. Ordered
  BY <1>7, <1>9 DEF Ordered
<1>11. Complete
  <2>1. Sealed = {} /\ ~(0 > 0) /\ 1..0 = {}
    BY <1>1 DEF Sealed
  <2>2. WholeTexts /\ MarkerDue /\ SealedComplete /\ \A n \in 1..emitted : ~Lost(n)
    BY <1>1, <1>2, <1>5, <1>6, <1>9, <2>1 DEF WholeTexts, MarkerDue, SealedComplete
  <2> QED BY <1>1, <2>2 DEF Complete
<1> QED
  BY <1>4, <1>8, <1>10, <1>11 DEF Order

\* each step of the writer keeps it so,
LEMMA OrderStep ==
    ASSUME Types, Files, Bytes, Order, LogNext, Types', Files'
    PROVE  Order'
<1>1. Queued /\ Later /\ Ordered /\ Complete
  BY DEF Order
<1>2. Queued'
  BY <1>1, QueuedStep
<1>3. Later'
  BY <1>1, LaterStep
<1>4. Ordered'
  BY <1>1, OrderedStep
<1>5. Complete'
  BY <1>1, CompleteStep
<1> QED
  BY <1>2, <1>3, <1>4, <1>5 DEF Order

\* and the follower has no part in it
LEMMA OrderUnchanged ==
    ASSUME UNCHANGED logVars, Order
    PROVE  Order'
<1>1. /\ mode' = mode /\ disk' = disk /\ wrote' = wrote /\ w' = w /\ stream' = stream
      /\ todo' = todo /\ emitted' = emitted /\ phase' = phase /\ faults' = faults
  BY DEF logVars
<1>2. /\ Queued /\ Later /\ Ordered /\ Complete
      /\ LiveText' = LiveText /\ Waiting' = Waiting /\ Reordered' = Reordered /\ Sealed' = Sealed
  BY <1>1 DEF Order, LiveText, Waiting, Reordered, Sealed
<1>3. \A k : TextOf(k)' = TextOf(k) /\ Events(k)' = Events(k)
  BY <1>1, <1>2 DEF TextOf, Events
<1>4. \A n : Lost(n)' = Lost(n)
  BY <1>1, <1>2, <1>3 DEF Lost
<1>5. Queued'
  BY <1>1, <1>2 DEF Queued
<1>6. Later'
  BY <1>1, <1>2, <1>3 DEF Later
<1>7. Ordered'
  BY <1>1, <1>2, <1>3 DEF Ordered
<1>8. WholeTexts' = WholeTexts /\ MarkerDue' = MarkerDue /\ SealedComplete' = SealedComplete
  BY <1>1, <1>2, <1>3 DEF WholeTexts, MarkerDue, SealedComplete
<1>9. Complete'
  BY <1>1, <1>2, <1>4, <1>8 DEF Complete
<1> QED
  BY <1>5, <1>6, <1>7, <1>9 DEF Order

\* what the invariant says of the sealed segments
LEMMA SealedAreInOrder ==
    ASSUME Types, Files, Order
    PROVE  SealedInOrder
<1>0. Queued /\ Later /\ Ordered /\ Complete
  BY DEF Order
<1>1. ASSUME NEW k \in Segments, mode = "sync" \/ "crash" \notin faults, k = w.live => ~Reordered
      PROVE  InOrder(wrote[k]) /\ MarkerLeads(k)
  <2>1. /\ InOrder(TextOf(k)) /\ MarkerOnly(k, TextOf(k))
        /\ "crash" \notin faults => Begins(k, TextOf(k))
    BY <1>0, <1>1 DEF Ordered
  <2>2. /\ TextOf(k) \in Seq(Unit) /\ wrote[k] \in Seq(Unit) /\ Len(wrote[k]) <= Len(TextOf(k))
        /\ \A i \in 1..Len(wrote[k]) : TextOf(k)[i] = wrote[k][i]
    BY TextOfParts DEF Segments
  <2>3. k \in Nat
    BY DEF Segments
  <2>4. /\ InOrder(wrote[k]) /\ MarkerOnly(k, wrote[k])
        /\ "crash" \notin faults => Begins(k, wrote[k])
    BY <2>1, <2>2, <2>3, OrderOfPrefix, LeadsPrefix
  <2> QED BY <2>4 DEF MarkerLeads, MarkerOnly, Begins
<1>2. ASSUME NEW k \in Sealed, mode = "sync" \/ "crash" \notin faults
      PROVE  k \in Segments /\ (k = w.live => ~Reordered)
  <2>1. k \in Segments
    BY DEF Sealed
  <2>2. PICK j \in DOMAIN disk : j > k
    BY DEF Sealed
  <2> SUFFICES ASSUME k = w.live, Reordered PROVE FALSE
    BY <2>1
  <2>3. "crash" \notin faults
    BY <1>2 DEF Reordered
  <2>4. w.discovered
    BY <1>0, <2>2, <2>3 DEF Complete
  <2>5. j <= w.live /\ j \in Nat /\ w.live \in Nat
    BY <2>2, <2>4 DEF Files, Types, Writer, Segments
  <2> QED BY <2>2, <2>5
<1>3. (mode = "sync" \/ "crash" \notin faults) => \A k \in Sealed : InOrder(wrote[k])
  BY <1>1, <1>2
<1>4. \A k, l \in Sealed : k < l => \A m \in Events(k), n \in Events(l) : m < n
  <2> SUFFICES ASSUME NEW k \in Sealed, NEW l \in Sealed, k < l,
                      NEW m \in Events(k), NEW n \in Events(l)
               PROVE  m < n
    OBVIOUS
  <2>1. k \in Segments /\ l \in Segments
    BY DEF Sealed
  <2>2. m \in Ids(wrote[k]) /\ n \in Ids(wrote[l]) /\ n > 0
    BY DEF Events
  <2>3. n \in Ids(TextOf(l))
    BY <2>1, <2>2, TextOfParts
  <2> QED BY <1>0, <2>1, <2>2, <2>3 DEF Later
<1>5. "crash" \notin faults => SealedComplete
  BY <1>0 DEF Complete
<1>6. ASSUME NEW k \in Segments,
             mode = "sync" \/ ("crash" \notin faults /\ (phase = "running" \/ k \in Sealed))
      PROVE  MarkerLeads(k)
  <2>1. k = w.live => ~Reordered
    <3>1. CASE k \in Sealed
      BY <1>2, <1>6, <3>1
    <3>2. CASE k \notin Sealed
      BY <1>6, <3>2 DEF Reordered
    <3> QED BY <3>1, <3>2
  <2> QED BY <1>1, <1>6, <2>1
<1> QED
  BY <1>3, <1>4, <1>5, <1>6 DEF SealedInOrder, SealedComplete

-----------------------------------------------------------------------------
LogInv == Types /\ Files /\ Listing /\ Bytes /\ Order /\ FollowerTypes /\ Follow

\* the invariant holds at first,
LEMMA LogInvInit == Init => LogInv
<1> SUFFICES ASSUME Init PROVE LogInv
  OBVIOUS
<1>1. LogInit
  BY DEF Init
<1>2. Types /\ Files
  BY <1>1, InitTypes
<1>3. Listing /\ Bytes
  BY <1>1, InitText
<1>4. FollowerTypes /\ Follow
  BY InitFollow
<1>5. Order
  BY <1>1, OrderInit
<1> QED
  BY <1>2, <1>3, <1>4, <1>5 DEF LogInv

\* does not see the follower's steps,
LEMMA WriterUnchanged ==
    ASSUME UNCHANGED logVars, Types, Files, Listing, Bytes
    PROVE  Types' /\ Files' /\ Listing' /\ Bytes'
<1>1. /\ mode' = mode /\ disk' = disk /\ wrote' = wrote /\ w' = w /\ stream' = stream
      /\ todo' = todo /\ retiring' = retiring /\ emitted' = emitted /\ phase' = phase
      /\ faults' = faults
  BY DEF logVars
<1>2. Types'
  BY <1>1 DEF Types
<1>3. Files'
  BY <1>1 DEF Files, Busy
<1>4. Listing'
  BY <1>1 DEF Listing, Contiguous, MustRetire
<1>5. LiveText' = LiveText
  BY <1>1 DEF LiveText
<1>6. \A i : IsLine(i)' = IsLine(i)
  BY <1>1 DEF IsLine
<1>7. MarkerNext' = MarkerNext
  BY <1>1, <1>5 DEF MarkerNext
<1>8. \A k, text : Fits(k, text)' = Fits(k, text)
  BY <1>1 DEF Fits
<1>9. Bytes'
  BY <1>1, <1>5, <1>6, <1>7 DEF Bytes, QueueKept, Fits
<1> QED
  BY <1>2, <1>3, <1>4, <1>9

\* and is kept by every step
LEMMA LogInvStep == LogInv /\ [Next]_vars => LogInv'
<1> SUFFICES ASSUME LogInv, [Next]_vars PROVE LogInv'
  OBVIOUS
<1>0. Types /\ Files /\ Listing /\ Bytes /\ Order /\ FollowerTypes /\ Follow
  BY DEF LogInv
<1>1. CASE LogNext /\ UNCHANGED followerVars
  <2>1. Types'
    BY <1>0, <1>1, TypesStep
  <2>2. Files'
    BY <1>0, <1>1, FilesStep
  <2>3. Listing'
    BY <1>0, <1>1, ListingStep
  <2>4. Bytes'
    BY <1>0, <1>1, <2>1, <2>2, BytesStep
  <2>5. FollowerTypes'
    BY <1>0, <1>1 DEF FollowerTypes, followerVars
  <2>6. Follow'
    BY <1>0, <1>1, FollowWhileWriting
  <2>7. Order'
    BY <1>0, <1>1, <2>1, <2>2, OrderStep
  <2> QED BY <2>1, <2>2, <2>3, <2>4, <2>5, <2>6, <2>7 DEF LogInv
<1>2. CASE FollowerStep /\ UNCHANGED logVars
  <2>1. Types' /\ Files' /\ Listing' /\ Bytes' /\ Order'
    BY <1>0, <1>2, WriterUnchanged, OrderUnchanged
  <2>2. FollowerTypes' /\ Follow'
    BY <1>0, <1>2, FollowWhilePolling
  <2> QED BY <2>1, <2>2 DEF LogInv
<1>3. CASE UNCHANGED vars
  <2>1. UNCHANGED logVars /\ UNCHANGED followerVars
    BY <1>3 DEF vars
  <2>2. Types' /\ Files' /\ Listing' /\ Bytes' /\ Order'
    BY <1>0, <2>1, WriterUnchanged, OrderUnchanged
  <2>3. pc' = pc /\ cursor' = cursor /\ size' = size /\ leftover' = leftover
        /\ delivered' = delivered /\ wrote' = wrote /\ disk' = disk
    BY <2>1 DEF followerVars, logVars
  <2>4. FollowerTypes'
    BY <1>0, <2>3 DEF FollowerTypes
  <2>5. Follow'
    BY <1>0, <2>3 DEF Follow, Sealed, EndsLine
  <2> QED BY <2>2, <2>4, <2>5 DEF LogInv
<1> QED
  BY <1>1, <1>2, <1>3 DEF Next

\* The types of the log and its follower; the descriptor is open on the live
\* segment of a usable log, and no seal is in flight then (createLineWriter).
THEOREM LogTypes == Spec => []TypeOK
<1>1. LogInv => TypeOK
  <2> SUFFICES ASSUME LogInv PROVE TypeOK
    OBVIOUS
  <2>1. Types /\ Files /\ FollowerTypes
    BY DEF LogInv
  <2>2. /\ w.live \in Segments /\ w.bytes \in Nat /\ w.rotated \in Segments \union {None}
        /\ mode \in DOMAIN LineSizes /\ mode \in {"sync", "async"}
    BY <2>1, Numbers DEF Types, Writer
  <2>3. /\ w.opened => w.usable /\ ~w.sealing /\ stream.segment = w.live
        /\ w.sealing => mode = "async"
    BY <2>1, <2>2 DEF Files
  <2>4. /\ DOMAIN disk \subseteq Segments /\ emitted \in 0..MaxLines[mode]
        /\ phase \in {"running", "ended", "closed"}
        /\ pc \in {"stat", "scan", "read", "successor", "final", "drain", "dead"}
        /\ cursor.segment \in Segments /\ cursor.offset \in Nat
    BY <2>1 DEF Types, FollowerTypes
  <2> QED BY <2>2, <2>3, <2>4 DEF TypeOK
<1> QED
  BY <1>1, LogInvInit, LogInvStep, PTL DEF Spec

\* Behind open() the live segment is on disk and at most maxFiles segments are,
\* one more for a refused unlink; and no segment outgrows maxBytes, but by a line
\* too long for any (enforceMaxFiles, appendLine).
THEOREM LogFilesKept == Spec => []KeptFiles
<1>1. LogInv => KeptFiles
  BY FilesKept DEF LogInv
<1> QED
  BY <1>1, LogInvInit, LogInvStep, PTL DEF Spec

\* listLogSegments may conclude from two stats what a scan would list, as long as
\* no unlink was refused.
THEOREM TwoStatsConclude == Spec => []ListingComplete
<1>1. LogInv => ListingComplete
  BY ListingIsComplete DEF LogInv
<1> QED
  BY <1>1, LogInvInit, LogInvStep, PTL DEF Spec

\* What readNewSegmentBytes has handed out of a segment is the beginning of what
\* was written there, up to the end of a line: no event twice, none in parts.
THEOREM NoEventTwice == Spec => []DeliveredOnce
<1>1. LogInv => DeliveredOnce
  <2> SUFFICES ASSUME LogInv, NEW k \in Segments
               PROVE  /\ IsPrefix(delivered[k], wrote[k])
                      /\ delivered[k] # <<>> => Last(delivered[k]).last
    BY DEF DeliveredOnce
  <2> DEFINE c == cursor.segment
  <2>1. Types /\ FollowerTypes /\ Follow
    BY DEF LogInv
  <2>2. /\ wrote \in [Segments -> Seq(Unit)] /\ delivered \in [Segments -> Seq(Unit)]
        /\ c \in Segments /\ cursor.offset \in Nat /\ leftover \in Seq(Unit)
        /\ wrote[k] \in Seq(Unit) /\ delivered[k] \in Seq(Unit)
        /\ k \in Nat /\ c \in Nat
    BY <2>1 DEF Types, FollowerTypes, Segments
  <2>3. delivered[k] # <<>> => Last(delivered[k]).last
    BY <2>1 DEF Follow, EndsLine, Last
  <2>4. CASE k < c
    BY <2>1, <2>3, <2>4 DEF Follow
  <2>5. CASE k = c
    <3>1. /\ cursor.offset <= Len(wrote[k]) /\ EndsLine(delivered[k])
          /\ delivered[k] \o leftover = SubSeq(wrote[k], 1, cursor.offset)
          /\ \A i \in DOMAIN leftover : ~leftover[i].last
      BY <2>1, <2>5 DEF Follow
    <3>2. IsPrefix(delivered[k], wrote[k])
      BY <2>2, <3>1, Finished
    <3> QED BY <2>3, <3>2
  <2>6. CASE k > c
    <3>1. delivered[k] = <<>>
      BY <2>1, <2>6 DEF Follow
    <3>2. IsPrefix(<<>>, wrote[k])
      <4>1. Len(<<>>) = 0 /\ Len(wrote[k]) \in Nat /\ <<>> \in Seq(Unit)
        BY <2>2
      <4>2. \A s : SubSeq(s, 1, 0) = <<>>
        BY SubSeqEmpty
      <4>3. Len(<<>>) <= Len(wrote[k])
        BY <4>1
      <4> QED BY <2>2, <4>1, <4>2, <4>3, PrefixOfText
    <3> QED BY <3>1, <3>2
  <2> QED BY <2>2, <2>4, <2>5, <2>6
<1> QED
  BY <1>1, LogInvInit, LogInvStep, PTL DEF Spec

\* A follower leaves a segment it has begun only when it has handed out all its
\* lines, unless the segment was retired meanwhile.
THEOREM BegunMeansWhole == Spec => []BegunIsFinished
<1>1. LogInv => BegunIsFinished
  <2> SUFFICES ASSUME LogInv, NEW k \in 0..cursor.segment - 1,
                      delivered[k] # <<>>, k \in DOMAIN disk
               PROVE  delivered[k] = WholeLines(wrote[k])
    BY DEF BegunIsFinished
  <2>1. Types /\ FollowerTypes /\ Follow
    BY DEF LogInv
  <2>2. k \in Segments /\ k < cursor.segment
    BY <2>1, Numbers DEF FollowerTypes, Segments
  <2> QED BY <2>1, <2>2 DEF Follow
<1> QED
  BY <1>1, LogInvInit, LogInvStep, PTL DEF Spec

\* Unless a process died, the sealed segments hold the events in the order they
\* were emitted, each segment behind its marker, whole lines only and none
\* missing between two (sealLiveSegment, drainPendingLines, the emission of
\* log.rotate).  What a later segment holds is later in any case.
THEOREM SealedSegmentsInOrder == Spec => []SealedInOrder
<1>1. LogInv => SealedInOrder
  BY SealedAreInOrder DEF LogInv
<1> QED
  BY <1>1, LogInvInit, LogInvStep, PTL DEF Spec

\* "Segment N+1 exists, so segment N is final": no step writes to a segment that
\* has a successor, of this process or the one before it.
THEOREM SealedMeansFinal == Spec => SealedIsFinal
<1>1. LogInv /\ [Next]_vars => \A k \in Segments : k + 1 \in DOMAIN disk => wrote'[k] = wrote[k]
  <2> SUFFICES ASSUME LogInv, [Next]_vars, NEW k \in Segments, k + 1 \in DOMAIN disk
               PROVE  wrote'[k] = wrote[k]
    OBVIOUS
  <2>1. Types /\ Files
    BY DEF LogInv
  <2>2. CASE LogNext
    <3>1. k \in Sealed
      BY <2>1 DEF Sealed, Segments
    <3> QED BY <2>1, <2>2, <3>1, SegmentsStep
  <2>3. CASE UNCHANGED logVars
    BY <2>3 DEF logVars
  <2> QED BY <2>2, <2>3 DEF Next, vars
<1> QED
  BY <1>1, LogInvInit, LogInvStep, PTL DEF Spec, SealedIsFinal
=============================================================================
