---------------------------- MODULE LogFollower ----------------------------
(***************************************************************************)
(* A reader following a run's log from another process: `runs tail -f` and *)
(* `workspace logs -f` (packages/rawbox-cli/src/workspace/log-segments.ts, *)
(* log-merge.ts), against the writer of LogSegments.                       *)
(*                                                                         *)
(* A poll walks forward from its cursor, one file-system call per action,  *)
(* each of which may find the files changed by the writer since the last.  *)
(***************************************************************************)
EXTENDS LogSegments

VARIABLES
    pc,         \* where the poll is; a poll begins, and ends, at "stat"
    cursor,     \* [segment, offset]: SegmentCursor
    size,       \* what the last stat of the segment said, until it is used
    leftover,   \* units after the last newline read
    delivered   \* [segment -> the text handed out of it, to be parsed line by line]

followerVars == <<pc, cursor, size, leftover, delivered>>
vars == <<logVars, followerVars>>

FollowerInit ==
    /\ pc = "stat"
    /\ cursor = [segment |-> 0, offset |-> 0]
    /\ size = 0
    /\ leftover = <<>>
    /\ delivered = [k \in Segments |-> <<>>]

Exists(k) == k \in DOMAIN disk

At(k) == [segment |-> k, offset |-> 0]

\* the length of a text up to its last newline; its whole lines, and the rest
LineEnd(text) == Max({0} \union {i \in DOMAIN text : text[i].last})

WholeLines(text) == SubSeq(text, 1, LineEnd(text))

Fragment(text) == SubSeq(text, LineEnd(text) + 1, Len(text))

\* readNewEvents: the lines that are complete go to the JSON parser
HandOut(text) == delivered' = [delivered EXCEPT ![cursor.segment] = @ \o WholeLines(text)]

\* listLogSegments: the unrotated case from two stats, else a directory scan;
\* with nothing on disk, segment 0's path
ListLogSegments ==
    IF (Exists(0) /\ ~Exists(1)) \/ DOMAIN disk = {} THEN {0} ELSE DOMAIN disk

\* the size of the current segment, if it is there
Stat ==
    /\ pc = "stat"
    /\ IF ~Exists(cursor.segment) THEN pc' = "scan" /\ UNCHANGED size
       ELSE IF Len(disk[cursor.segment]) > cursor.offset
       THEN pc' = "read" /\ size' = Len(disk[cursor.segment])
       ELSE pc' = "successor" /\ UNCHANGED size
    /\ UNCHANGED <<cursor, leftover, delivered>>

\* mutant: a segment that is gone is waited for
ScanWaiting == pc = "scan" /\ pc' = "stat" /\ UNCHANGED <<cursor, size, leftover, delivered>>

\* the segment is gone, or was never there: the lowest surviving one above it
Scan ==
    /\ pc = "scan"
    /\ LET above == {k \in DOMAIN disk : k > cursor.segment}
       IN  IF above = {}
           THEN UNCHANGED <<cursor, leftover>>
           ELSE cursor' = At(Min(above)) /\ leftover' = <<>>
    /\ pc' = "stat"
    /\ UNCHANGED <<size, delivered>>

\* readRange, of the bytes the last stat saw
Unread == SubSeq(disk[cursor.segment], cursor.offset + 1, size)

\* a segment retired since that stat cannot be opened: nothing catches it
ReadFails ==
    /\ pc \in {"read", "drain"} /\ ~Exists(cursor.segment)
    /\ pc' = "dead" /\ size' = 0
    /\ UNCHANGED <<cursor, leftover, delivered>>

\* mutant: the cursor is not advanced
FirstReadAgain ==
    /\ pc = "read" /\ Exists(cursor.segment)
    /\ HandOut(leftover \o Unread)
    /\ leftover' = Fragment(leftover \o Unread)
    /\ pc' = "successor" /\ size' = 0
    /\ UNCHANGED cursor

\* what a poll reads first; a line read in part waits for the rest
FirstRead ==
    /\ pc = "read" /\ Exists(cursor.segment)
    /\ HandOut(leftover \o Unread)
    /\ leftover' = Fragment(leftover \o Unread)
    /\ cursor' = [cursor EXCEPT !.offset = size]
    /\ pc' = "successor" /\ size' = 0

\* without a successor the segment is still live and the poll is over
Successor ==
    /\ pc = "successor"
    /\ pc' = IF Exists(cursor.segment + 1) THEN "final" ELSE "stat"
    /\ UNCHANGED <<cursor, size, leftover, delivered>>

\* on to the successor: an unterminated line is dropped
MoveOn == cursor' = At(cursor.segment + 1) /\ leftover' = <<>> /\ pc' = "stat"

\* mutant: no second drain
FinalStatSkipping == pc = "final" /\ MoveOn /\ UNCHANGED <<size, delivered>>

\* the segment is sealed: was anything appended since it was last read?
FinalStat ==
    /\ pc = "final"
    /\ IF Exists(cursor.segment) /\ Len(disk[cursor.segment]) > cursor.offset
       THEN /\ size' = Len(disk[cursor.segment]) /\ pc' = "drain"
            /\ UNCHANGED <<cursor, leftover>>
       ELSE MoveOn /\ UNCHANGED size
    /\ UNCHANGED delivered

\* the second drain
FinalRead ==
    /\ pc = "drain" /\ Exists(cursor.segment)
    /\ HandOut(leftover \o Unread)
    /\ MoveOn /\ size' = 0

FollowerStep ==
    Stat \/ Scan \/ FirstRead \/ ReadFails \/ Successor \/ FinalStat \/ FinalRead

Init == LogInit /\ FollowerInit

Next ==
    \/ LogNext /\ UNCHANGED followerVars
    \/ FollowerStep /\ UNCHANGED logVars

\* a seal and the flush behind run.end drain the buffer; a buffer below
\* SonicBoom's minLength may otherwise wait for ever
Drain == StartWrite /\ (w.sealing \/ phase = "ended")

\* The thread, SonicBoom and the kernel go on once they have work; the follower
\* polls from a timer.  Nothing is assumed of when events are emitted.
Fairness ==
    /\ WF_vars((Turn \/ Drain \/ Deposit \/ SealDone \/ CloseLog) /\ UNCHANGED followerVars)
    /\ WF_vars(FollowerStep /\ UNCHANGED logVars)

Spec == Init /\ [][Next]_vars /\ Fairness
-----------------------------------------------------------------------------
TypeOK ==
    /\ mode \in DOMAIN LineSizes
    /\ DOMAIN disk \subseteq Segments
    /\ w.live \in Segments /\ w.bytes \in Nat
    /\ w.rotated \in Segments \union {None}
    /\ w.opened => w.usable /\ ~w.sealing /\ stream.segment = w.live
    /\ w.sealing => mode = "async"
    /\ emitted \in 0..MaxLines[mode]
    /\ phase \in {"running", "ended", "closed"}
    /\ pc \in {"stat", "scan", "read", "successor", "final", "drain", "dead"}
    /\ cursor.segment \in Segments /\ cursor.offset \in Nat

\* segments with a successor
Sealed == {k \in Segments : \E j \in DOMAIN disk : j > k}

\* the events, markers left out, of which segment k received at least a part
Events(k) == {n \in 1..emitted : n \in Ids(wrote[k])}

\* two units one behind the other: of one line, or of a line and a later one
Follows(u, v) ==
    \/ v.id = u.id /\ v.part = u.part + 1 /\ ~u.last
    \/ v.id > u.id /\ v.part = 1

InOrder(text) == \A i \in 1..Len(text) - 1 : Follows(text[i], text[i + 1])

\* no line is cut short by another, or by the end of the text
Unbroken(text) ==
    \A i \in DOMAIN text : ~text[i].last => i < Len(text) /\ text[i + 1].id = text[i].id

(***************************************************************************)
(* "Segment N+1 exists, so segment N is final" (header of                  *)
(* ndjson-file-sink.ts): the rule every reader relies on.                  *)
(***************************************************************************)
SealedIsFinal ==
    [][\A k \in Segments : k + 1 \in DOMAIN disk => wrote'[k] = wrote[k]]_vars

\* log.rotate is the first line of every segment but the first, and appears
\* nowhere else, through the re-entrant append of its emission
MarkerLeads(k) ==
    /\ k > 0 /\ "crash" \notin faults /\ wrote[k] # <<>> => wrote[k][1].id = -k
    /\ \A i \in DOMAIN wrote[k] : wrote[k][i].id <= 0 =>
        k > 0 /\ i <= MarkerSize /\ wrote[k][i] = Units(Marker(k))[i]

(***************************************************************************)
(* The sealed segments hold the events in the order they were emitted: a   *)
(* buffered seal never writes past a chunk in flight, and held lines keep  *)
(* their place.  Unless a process died they hold whole lines only, and no  *)
(* event is missing between two.  A process killed between the roll and the*)
(* marker leaves none.  Run.end's flushSync may write past a chunk in      *)
(* flight, the marker included, but only in the segment that is live at the*)
(* end; another process can seal that one when the first is killed there.  *)
(***************************************************************************)
SealedInOrder ==
    /\ (mode = "sync" \/ "crash" \notin faults) =>
        \A k \in Sealed : InOrder(wrote[k])
    /\ \A k, l \in Sealed : k < l => \A m \in Events(k), n \in Events(l) : m < n
    /\ "crash" \notin faults => \A k \in Sealed :
        /\ Unbroken(wrote[k])
        /\ \A n \in Events(k) : \A m \in 1..n : \E l \in 0..k : m \in Events(l)
    /\ \A k \in Segments :
        (mode = "sync" \/ ("crash" \notin faults /\ (phase = "running" \/ k \in Sealed)))
            => MarkerLeads(k)

(***************************************************************************)
(* Once open() has returned, the live segment is on disk, and at most      *)
(* maxFiles segments are, plus one for a refused unlink.  A segment stays  *)
(* within maxBytes, or holds one event too long for it: the count kept in  *)
(* memory agrees with the file, also when the segment was taken over from  *)
(* a process that died.                                                    *)
(***************************************************************************)
KeptFiles ==
    /\ w.opened /\ ~retiring =>
        /\ w.live \in DOMAIN disk
        /\ Cardinality(DOMAIN disk) <= MaxFiles + (IF "unlink" \in faults THEN 1 ELSE 0)
    /\ \A k \in Segments :
        \/ Len(wrote[k]) <= MaxBytes
        \/ \E n \in 0..emitted : Ids(wrote[k]) \subseteq {-k, n}

(***************************************************************************)
(* "No event can be read twice" (readNewSegmentBytes): what was handed out *)
(* of a segment is the beginning of what the writer put there, in order    *)
(* and up to the end of a line.                                            *)
(***************************************************************************)
DeliveredOnce ==
    \A k \in Segments :
        /\ IsPrefix(delivered[k], wrote[k])
        /\ delivered[k] # <<>> => Last(delivered[k]).last

(***************************************************************************)
(* A segment the follower has handed a line of is handed out whole before  *)
(* it is left, unless it was retired under the follower.                   *)
(***************************************************************************)
BegunIsFinished ==
    \A k \in 0..cursor.segment - 1 :
        delivered[k] # <<>> /\ k \in DOMAIN disk => delivered[k] = WholeLines(wrote[k])

(***************************************************************************)
(* "No event can be skipped" (readNewSegmentBytes): a segment still on disk*)
(* is never left behind unread.                                            *)
(***************************************************************************)
NoSegmentSkipped ==
    \A k \in 0..cursor.segment - 1 : k \in DOMAIN disk => delivered[k] = WholeLines(wrote[k])

(***************************************************************************)
(* The two stats that spare a directory scan are conclusive: what is listed*)
(* is what is there, as long as no unlink was refused.                     *)
(***************************************************************************)
ListingComplete ==
    "unlink" \notin faults /\ DOMAIN disk # {} => ListLogSegments = DOMAIN disk

(***************************************************************************)
(* "A single line longer than maxBytes is written whole into a segment of  *)
(* its own": no segment is sealed before it holds an event.                *)
(***************************************************************************)
SealedHoldsAnEvent == \A k \in Sealed : Events(k) # {}

(***************************************************************************)
(* After run.end, flush and close end, and every event is on disk, also    *)
(* those held behind a seal.                                               *)
(***************************************************************************)
OnDisk(n) == \E k \in Segments : \E i \in DOMAIN wrote[k] : wrote[k][i].id = n /\ wrote[k][i].last

RunEndIsDurable ==
    phase = "ended" ~> \/ phase = "closed" /\ \A n \in 1..emitted : OnDisk(n)
                       \/ faults \ {"unlink"} # {}

(***************************************************************************)
(* Whenever the writer pauses, the follower reaches the end of the live    *)
(* segment, across rolls and retirements and after a crash, unless an      *)
(* unlink was refused or it lost the race with one.                        *)
(***************************************************************************)
CaughtUp ==
    LET top == Max(DOMAIN disk)
    IN  DOMAIN disk # {} => cursor = [segment |-> top, offset |-> Len(disk[top])]

FollowerCatchesUp == []<>(CaughtUp \/ pc = "dead" \/ "unlink" \in faults)
=============================================================================
