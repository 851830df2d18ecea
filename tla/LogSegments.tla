---------------------------- MODULE LogSegments ----------------------------
(***************************************************************************)
(* The writer of a run's event log (packages/rawbox-runner/src/events/     *)
(* ndjson-file-sink.ts, createLineWriter) and the files it leaves.         *)
(*                                                                         *)
(* A run's log is a sequence of segment files 0, 1, 2, ...; the highest is *)
(* live, and the writer seals it and opens its successor when the next     *)
(* line would carry it past MaxBytes.  The writer runs on one JavaScript   *)
(* thread, but its file-system calls are visible one by one to a reader in *)
(* another process, so each of them is an action here.  `todo` is what the *)
(* running turn still has to do: nothing else of the thread runs meanwhile.*)
(*                                                                         *)
(* A line is [id, size]; on disk it is `size` units, so that a reader can  *)
(* see a part of it.  Events are numbered in the order they are emitted;   *)
(* the log.rotate marker of segment k has the id -k.                       *)
(***************************************************************************)
EXTENDS Integers, Sequences, SequencesExt, FiniteSets, Functions

CONSTANTS
    MaxBytes,       \* logs.rotate.maxBytes, in units
    MaxFiles,       \* logs.rotate.maxFiles
    MarkerSize,     \* length of a log.rotate line
    LineSizes,      \* [mode -> the lengths an event line may have]
    MaxLines,       \* [mode -> bound on the events emitted]
    MaxSegment,     \* bound on the segment numbers reached
    MaxFaults       \* bound on failed calls and crashes

ASSUME LogAssumption ==
    /\ {MaxBytes, MaxFiles, MarkerSize} \subseteq Nat \ {0}
    /\ {MaxSegment, MaxFaults} \subseteq Nat
    /\ DOMAIN LineSizes \subseteq {"sync", "async"} /\ DOMAIN MaxLines = DOMAIN LineSizes
    /\ \A m \in DOMAIN LineSizes : LineSizes[m] \subseteq Nat \ {0} /\ MaxLines[m] \in Nat

VARIABLES
    mode,       \* "sync" or "async": logs.async, fixed for a run
    disk,       \* [existing segment -> its units], what a reader can see
    wrote,      \* [segment -> every unit it ever received]: history
    w,          \* the closure variables of createLineWriter
    stream,     \* the SonicBoom on the live (or sealing) segment
    todo,       \* what the running turn still has to do
    retiring,   \* open() is in enforceMaxFiles
    emitted,    \* events emitted so far
    phase,      \* "running", "ended" (run.end emitted), "closed"
    faults      \* the kinds of fault met so far

logVars == <<mode, disk, wrote, w, stream, todo, retiring, emitted, phase, faults>>

None == -1

Segments == 0..MaxSegment

Line(id, size) == [op |-> "append", id |-> id, size |-> size, checked |-> FALSE]

\* the flushSync that emit() issues behind run.end
Flush == [op |-> "flushSync"]

Units(line) == [i \in 1..line.size |-> [id |-> line.id, part |-> i, last |-> i = line.size]]

\* the events and markers of which a text holds at least a unit
Ids(text) == {text[i].id : i \in DOMAIN text}

-----------------------------------------------------------------------------
NewWriter == [usable |-> TRUE, opened |-> FALSE, discovered |-> FALSE, index |-> {},
              live |-> 0, bytes |-> 0, sealing |-> FALSE, pending |-> <<>>, rotated |-> None]

Idle == [segment |-> 0, inflight |-> <<>>, buffer |-> <<>>]

LogInit ==
    /\ mode \in DOMAIN LineSizes
    /\ disk = [k \in {} |-> <<>>]
    /\ wrote = [k \in Segments |-> <<>>]
    /\ w = NewWriter
    /\ stream = Idle
    /\ todo = <<>>
    /\ retiring = FALSE
    /\ emitted = 0
    /\ phase = "running"
    /\ faults = {}

Fault(kind) ==
    /\ Cardinality(faults) < MaxFaults /\ kind \notin faults
    /\ faults' = faults \union {kind}

\* a synchronous write keeps the thread until its last unit is on disk
ThreadFree == mode = "async" \/ stream.inflight = <<>>

\* the event loop may start another callback
TurnOver == todo = <<>> /\ ~retiring /\ ThreadFree

\* the turn is about to append the line at the head of `todo`
Appending ==
    /\ todo # <<>> /\ ~retiring /\ ThreadFree
    /\ Head(todo).op = "append"

\* liveBytes > 0 && liveBytes + lineBytes > maxBytes
Overflows(line) == w.bytes > 0 /\ w.bytes + line.size > MaxBytes

\* advanceSegment: the successor's file is created by the next open()
Advanced(writer) ==
    [writer EXCEPT !.live = @ + 1, !.bytes = 0, !.index = @ \union {writer.live + 1},
                   !.rotated = writer.live]

\* mutant: the destination is kept
DisabledKeepingStream(writer) == [writer EXCEPT !.usable = FALSE]

\* disable
Disabled(writer) == [writer EXCEPT !.usable = FALSE, !.opened = FALSE]
-----------------------------------------------------------------------------
\* emit(): a disabled writer gets nothing; run.end is followed by flushSync()
Emit(size, end) ==
    /\ TurnOver /\ phase = "running" /\ emitted < MaxLines[mode]
    /\ emitted' = emitted + 1
    /\ phase' = IF end THEN "ended" ELSE phase
    /\ todo' = IF ~w.usable THEN <<>>
               ELSE <<Line(emitted + 1, size)>> \o (IF end THEN <<Flush>> ELSE <<>>)
    /\ UNCHANGED <<mode, disk, wrote, w, stream, retiring, faults>>

\* appendLine: a seal is in flight, the line is held; or the log is disabled
HoldOrDrop ==
    /\ Appending
    /\ w.sealing \/ ~w.usable
    /\ w' = IF w.sealing THEN [w EXCEPT !.pending = Append(@, Head(todo))] ELSE w
    /\ todo' = Tail(todo)
    /\ UNCHANGED <<mode, disk, wrote, stream, retiring, emitted, phase, faults>>

\* mutant: the lowest segment is taken for the live one
DiscoveredOldest ==
    LET found == IF DOMAIN disk = {} THEN {0} ELSE DOMAIN disk
    IN  IF w.discovered THEN w
        ELSE [w EXCEPT !.discovered = TRUE, !.live = Min(found), !.index = found]

\* the state of the writer once open() knows which segment is live: the first
\* open takes the highest segment a previous writer of this path left
Discovered ==
    LET found == IF DOMAIN disk = {} THEN {0} ELSE DOMAIN disk
    IN  IF w.discovered THEN w
        ELSE [w EXCEPT !.discovered = TRUE, !.live = Max(found), !.index = found]

MustOpen == Appending /\ w.usable /\ ~w.sealing /\ ~w.opened

\* open(): the descriptor and its size; enforceMaxFiles follows
Open ==
    /\ MustOpen
    /\ LET k == Discovered.live
           content == IF k \in DOMAIN disk THEN disk[k] ELSE <<>>
       IN  /\ disk' = [j \in DOMAIN disk \union {k} |-> IF j = k THEN content ELSE disk[j]]
           /\ w' = [Discovered EXCEPT !.opened = TRUE, !.bytes = Len(content)]
           /\ stream' = [Idle EXCEPT !.segment = k]
    /\ retiring' = TRUE
    /\ UNCHANGED <<mode, wrote, todo, emitted, phase, faults>>

\* openSync throws: the log is disabled
OpenFails ==
    /\ MustOpen
    /\ Fault("open")
    /\ w' = Disabled(Discovered)
    /\ UNCHANGED <<mode, disk, wrote, stream, todo, retiring, emitted, phase>>

\* mutant: one segment too many is kept
MustRetireLate == Cardinality(w.index) > MaxFiles + 1 /\ Min(w.index) # w.live

\* segmentIndexList is ascending: its first is the oldest
MustRetire == Cardinality(w.index) > MaxFiles /\ Min(w.index) # w.live

\* enforceMaxFiles, one unlink: a failure drops the index and keeps the file
Retire ==
    /\ retiring /\ MustRetire
    /\ w' = [w EXCEPT !.index = @ \ {Min(@)}]
    /\ \/ disk' = Restrict(disk, DOMAIN disk \ {Min(w.index)}) /\ UNCHANGED faults
       \/ Fault("unlink") /\ UNCHANGED disk
    /\ UNCHANGED <<mode, wrote, stream, todo, retiring, emitted, phase>>

\* the log.rotate line of segment k
Marker(k) == Line(-k, MarkerSize)

\* the end of open(): onRotate emits log.rotate, whose own append runs before
\* the line that opened the segment
Opened ==
    /\ retiring /\ ~MustRetire
    /\ retiring' = FALSE
    /\ w' = [w EXCEPT !.rotated = None]
    /\ todo' = IF w.rotated = None THEN todo ELSE <<Marker(w.live)>> \o todo
    /\ UNCHANGED <<mode, disk, wrote, stream, emitted, phase, faults>>

\* mutant: a buffered seal flushes synchronously first
SealFlushing ==
    /\ Appending /\ w.opened
    /\ ~Head(todo).checked /\ Overflows(Head(todo))
    /\ w.live < MaxSegment
    /\ stream' = [stream EXCEPT !.inflight = stream.buffer \o @, !.buffer = <<>>]
    /\ IF mode = "sync"
       THEN /\ w' = [Advanced(w) EXCEPT !.opened = FALSE]
            /\ todo' = [todo EXCEPT ![1].checked = TRUE]
       ELSE /\ w' = [w EXCEPT !.opened = FALSE, !.sealing = TRUE,
                              !.pending = Append(@, Head(todo))]
            /\ todo' = Tail(todo)
    /\ UNCHANGED <<mode, disk, wrote, retiring, emitted, phase, faults>>

\* sealLiveSegment: a synchronous seal is done at once, and the line is then
\* written to the successor unconditionally; a buffered one is only started
Seal ==
    /\ Appending /\ w.opened
    /\ ~Head(todo).checked /\ Overflows(Head(todo))
    /\ w.live < MaxSegment
    /\ IF mode = "sync"
       THEN /\ w' = [Advanced(w) EXCEPT !.opened = FALSE]
            /\ todo' = [todo EXCEPT ![1].checked = TRUE]
       ELSE /\ w' = [w EXCEPT !.opened = FALSE, !.sealing = TRUE,
                              !.pending = Append(@, Head(todo))]
            /\ todo' = Tail(todo)
    /\ UNCHANGED <<mode, disk, wrote, stream, retiring, emitted, phase, faults>>

\* stream.write(line)
Write ==
    /\ Appending /\ w.opened
    /\ Head(todo).checked \/ ~Overflows(Head(todo))
    /\ LET units == Units(Head(todo))
       IN  stream' = IF mode = "sync" THEN [stream EXCEPT !.inflight = units]
                     ELSE [stream EXCEPT !.buffer = @ \o units]
    /\ w' = [w EXCEPT !.bytes = @ + Head(todo).size]
    /\ todo' = Tail(todo)
    /\ UNCHANGED <<mode, disk, wrote, retiring, emitted, phase, faults>>

\* run.end's flushSync: the buffer is written past a chunk still in flight,
\* unless that chunk reaches the file first
FlushSync ==
    /\ todo # <<>> /\ ~retiring /\ ThreadFree
    /\ Head(todo).op = "flushSync"
    /\ \/ /\ w.opened
          /\ stream' = [stream EXCEPT !.inflight = @ \o stream.buffer, !.buffer = <<>>]
       \/ /\ w.opened /\ stream.inflight # <<>> /\ stream.inflight[1].part = 1
          /\ stream' = [stream EXCEPT !.inflight = stream.buffer \o @, !.buffer = <<>>]
       \/ ~w.opened /\ UNCHANGED stream
    /\ todo' = Tail(todo)
    /\ UNCHANGED <<mode, disk, wrote, w, retiring, emitted, phase, faults>>
-----------------------------------------------------------------------------
\* SonicBoom, buffered: one chunk at a time is handed to the kernel
StartWrite ==
    /\ mode = "async"
    /\ stream.inflight = <<>> /\ stream.buffer # <<>>
    /\ stream' = [stream EXCEPT !.inflight = stream.buffer, !.buffer = <<>>]
    /\ UNCHANGED <<mode, disk, wrote, w, todo, retiring, emitted, phase, faults>>

\* the kernel appends the next unit
Deposit ==
    /\ stream.inflight # <<>>
    /\ LET k == stream.segment
           u == Head(stream.inflight)
       IN  /\ disk'  = IF k \in DOMAIN disk THEN [disk EXCEPT ![k] = Append(@, u)] ELSE disk
           /\ wrote' = [wrote EXCEPT ![k] = Append(@, u)]
    /\ stream' = [stream EXCEPT !.inflight = Tail(@)]
    /\ UNCHANGED <<mode, w, todo, retiring, emitted, phase, faults>>

\* a write is refused: SonicBoom's `error` event disables the log
WriteFails ==
    /\ stream.inflight # <<>>
    /\ Fault("write")
    /\ stream' = [stream EXCEPT !.inflight = <<>>, !.buffer = <<>>]
    /\ w' = Disabled(w)
    /\ UNCHANGED <<mode, disk, wrote, todo, retiring, emitted, phase>>

\* SonicBoom has drained and closed the segment: advance, then append what was
\* held, each line by the same appendLine (drainPendingLines)
SealDone ==
    /\ TurnOver /\ w.sealing
    /\ stream.inflight = <<>> /\ stream.buffer = <<>>
    /\ w' = [Advanced(w) EXCEPT !.sealing = FALSE, !.pending = <<>>]
    /\ todo' = w.pending
    /\ UNCHANGED <<mode, disk, wrote, stream, retiring, emitted, phase, faults>>

\* mutant: a seal in progress is not waited for
CloseLogAtOnce ==
    /\ TurnOver /\ phase = "ended"
    /\ stream.inflight = <<>> /\ stream.buffer = <<>>
    /\ phase' = "closed"
    /\ w' = Disabled(w)
    /\ UNCHANGED <<mode, disk, wrote, stream, todo, retiring, emitted, faults>>

\* the producer's flush() then close(), behind run.end: both wait for a seal
CloseLog ==
    /\ TurnOver /\ phase = "ended" /\ ~w.sealing
    /\ stream.inflight = <<>> /\ stream.buffer = <<>>
    /\ phase' = "closed"
    /\ w' = Disabled(w)
    /\ UNCHANGED <<mode, disk, wrote, stream, todo, retiring, emitted, faults>>

\* the process is killed and a new one opens the same path (--log-file): what
\* was in memory is lost
CrashAndRestart ==
    /\ Fault("crash")
    /\ w' = NewWriter
    /\ stream' = Idle
    /\ todo' = <<>>
    /\ retiring' = FALSE
    /\ phase' = "running"
    /\ UNCHANGED <<mode, disk, wrote, emitted>>

Turn == HoldOrDrop \/ Open \/ Retire \/ Opened \/ Seal \/ Write \/ FlushSync

LogNext ==
    \/ \E size \in LineSizes[mode], end \in BOOLEAN : Emit(size, end)
    \/ HoldOrDrop \/ Open \/ OpenFails \/ Retire \/ Opened \/ Seal \/ Write \/ FlushSync
    \/ StartWrite \/ Deposit \/ WriteFails \/ SealDone \/ CloseLog \/ CrashAndRestart
=============================================================================
