---------------------------- MODULE RunRegistry ----------------------------
(***************************************************************************)
(* The run registry: one file per run under runs/, written and rewritten   *)
(* by the process of that run, listed and pruned by every other one.       *)
(* There is no lock.  A pass (runs list, runs prune, and the opportunistic *)
(* prune of every workflow run) reads the files one by one, judges the     *)
(* runs alive or not by their pid and its start time, decides, and removes *)
(* files, while the runs it judged go on, end or die.                      *)
(***************************************************************************)
EXTENDS Integers, FiniteSets, FiniteSetsExt, Sequences, SequencesExt

CONSTANTS
  Run,        \* the runs; the numbers stand for the order of their file names
  Past,       \* those of earlier days, whose processes are gone
  History,    \* what these may have left: their segments, end and entry
  Operator,   \* the process of the runs commands
  Pid,        \* the process ids there are
  LogOf,      \* LogOf[r]: the log path of run r (--log-file may share one)
  Buffered,   \* the runs started with --log-async
  Outcome,    \* the outcomes of the runs that get to their end
  Bounds,     \* the prune bounds a pass may be given
  Tolerance,  \* START_TIME_TOLERANCE_MS, in ticks
  MaxSegment, \* bound: the highest segment a log rolls to
  MaxSkew,    \* bound: how far the wall clock is stepped
  MaxPasses,  \* bound: passes of the operator
  Torn,       \* a registry file that does not parse
  None

Terminal == {"ok", "error", "interrupted", "bootstrap-failed"}
Status == Terminal \cup {"bootstrapping", "running"}

(* What a registry file says: RegistryEntry, in what a pass looks at. *)
Entry == [status : Status, pid : Pid, since : Nat, at : Nat]

ASSUME RegistryAssumption ==
  /\ Run \subseteq Nat /\ IsFiniteSet(Run) /\ Past \subseteq Run
  /\ \A h \in History : \A r \in Past :
       /\ h[r].segment \in Nat \cup {-1}
       /\ h[r].end \in Terminal \cup {None}
       /\ h[r].entry \in Entry \cup {Torn, None}
       /\ h[r].entry \in Entry /\ h[r].entry.status \in Terminal =>
            h[r].entry.status = h[r].end
  /\ Outcome \subseteq {"ok", "error", "interrupted"}
  /\ Operator \notin Run
  /\ None \notin Run \cup {Operator} \cup Pid \cup Nat \cup Entry \cup Terminal
  /\ Torn \notin Entry \cup {None} /\ None # {}
  /\ Tolerance \in Nat /\ MaxSkew \in 0 .. Tolerance
  /\ Bounds \subseteq [keep : Nat \cup {None}, since : Nat \cup {None}, bytes : Nat \cup {None}]

Process == Run \cup {Operator}

VARIABLES
  run,     \* run[r]: where its command is, its pid, its log, how it ended
  entry,   \* entry[r]: the registry file of run r, Torn while it is rewritten
  pending, \* pending[r]: the status a rewrite under way will leave
  disk,    \* the log segments that exist, <<path, index>>
  started, \* started[pid]: when the process holding the pid started, or None
  clock,   \* the time, in ticks
  skew,    \* how far the wall clock has been stepped
  pass,    \* pass[p]: the listing or pruning process p is in
  passes,  \* how many passes the operator has begun
  stray,   \* history: runs that were left with log files and no entry
  condemned \* history: runs that a pass has decided to prune

runVars == <<run, entry, pending>>
osVars == <<started, clock, skew>>
passVars == <<pass, passes, stray, condemned>>
vars == <<runVars, disk, osVars, passVars>>

NoPass == [at |-> "off"]

NoRun == [at |-> "absent", pid |-> None, segment |-> -1, failed |-> FALSE,
          end |-> None, code |-> None]

(* Earlier runs left their logs and an entry: a terminal one, or the one   *)
(* they had when they were killed, which may be torn; or, once a pass was  *)
(* cut short, logs alone.                                                  *)
Init ==
  /\ \E h \in History :
       /\ run = [r \in Run |-> IF r \in Past
                              THEN [NoRun EXCEPT !.at = "gone", !.end = h[r].end,
                                                 !.segment = h[r].segment]
                              ELSE NoRun]
       /\ entry = [r \in Run |-> IF r \in Past THEN h[r].entry ELSE None]
       /\ disk = UNION {{<<LogOf[r], i>> : i \in 0 .. h[r].segment} : r \in Past}
       /\ stray = {r \in Past : h[r].entry = None}
  /\ pending = [r \in Run |-> None]
  /\ started = [i \in Pid |-> None]
  /\ clock = Tolerance + 1
  /\ skew = 0
  /\ pass = [p \in Process |-> NoPass]
  /\ passes = 0
  /\ condemned = {}

Alive(r) == run[r].at \in {"pruning", "entering", "bootstrapping", "running"}
Readable(r) == entry[r] \notin {None, Torn}
At(r, places) == run[r].at \in places /\ pending[r] = None
Moved(r, place) == [run EXCEPT ![r].at = place]

-----------------------------------------------------------------------------
(* The command of run r. *)

(* Everything before the run has an id: flags, documents, auto-setup. *)
Start(r) ==
  /\ run[r].at = "absent"
  /\ \E i \in Pid :
       /\ started[i] = None
       /\ started' = [started EXCEPT ![i] = clock]
       /\ run' = [run EXCEPT ![r].at = "pruning", ![r].pid = i]
  /\ clock' = clock + 1
  /\ UNCHANGED <<entry, pending, disk, skew, passVars>>

(* writeFileSync: the file is emptied, or created, before it is written. *)
Write(r, e) ==
  /\ entry' = [entry EXCEPT ![r] = Torn]
  /\ pending' = [pending EXCEPT ![r] = e]

(* writeRegistryEntrySync.  A file that cannot be written is reported and  *)
(* the run goes on without one.                                            *)
WriteEntry(r) ==
  /\ At(r, {"entering"})
  /\ run' = Moved(r, "bootstrapping")
  /\ \/ /\ Write(r, [status |-> "bootstrapping", pid |-> run[r].pid,
                     since |-> started[run[r].pid] + skew, at |-> clock + skew])
        /\ UNCHANGED stray
     \/ stray' = stray \cup {r} /\ UNCHANGED <<entry, pending>>
  /\ UNCHANGED <<disk, osVars, pass, passes, condemned>>

(* updateRegistryEntrySync: a file that is gone is left so. *)
Rewrite(r, status) ==
  IF Readable(r) THEN Write(r, [entry[r] EXCEPT !.status = status])
                 ELSE UNCHANGED <<entry, pending>>

FinishRewrite(r) ==
  /\ pending[r] # None
  /\ entry' = [entry EXCEPT ![r] = IF @ = Torn THEN pending[r] ELSE @]
  /\ pending' = [pending EXCEPT ![r] = None]
  /\ UNCHANGED <<run, disk, osVars, passVars>>

(* The log is the first sink: an event is in it before the registry moves. *)
(* A segment is opened, and created, by its first line.  Every later one   *)
(* goes to the descriptor, be the file still there or not.                 *)
Log(r, segment) ==
  /\ IF segment = run[r].segment THEN UNCHANGED <<disk, stray>>
     ELSE /\ disk' = disk \cup {<<LogOf[r], segment>>}
          /\ stray' = IF entry[r] = None THEN stray \cup {r} ELSE stray
  /\ UNCHANGED <<osVars, pass, passes, condemned>>

(* run.start. *)
RunStart(r) ==
  /\ At(r, {"bootstrapping"})
  /\ ~run[r].failed
  /\ run' = [run EXCEPT ![r].at = "running", ![r].segment = Max({0, @})]
  /\ Log(r, Max({0, run[r].segment}))
  /\ Rewrite(r, "running")

(* bootstrap.error, before run.start or after it; the sink remembers it. *)
BootstrapError(r) ==
  /\ At(r, {"bootstrapping", "running"})
  /\ ~run[r].failed
  /\ run' = [run EXCEPT ![r].segment = Max({0, @}), ![r].failed = TRUE]
  /\ Log(r, Max({0, run[r].segment}))
  /\ Rewrite(r, "bootstrap-failed")

(* run.end overwrites whatever the entry says. *)
RunEndUnlatched(r) ==
  \E outcome \in IF run[r].failed THEN {"error"} ELSE Outcome :
    /\ At(r, {"running"})
    /\ run' = [run EXCEPT ![r].at = "ended",
                          ![r].end = IF run[r].failed THEN "bootstrap-failed" ELSE outcome]
    /\ Log(r, run[r].segment)
    /\ Rewrite(r, outcome)

(* run.end, which after a bootstrap.error reports an error. *)
RunEnd(r) ==
  \E outcome \in IF run[r].failed THEN {"error"} ELSE Outcome :
    /\ At(r, {"running"})
    /\ run' = [run EXCEPT ![r].at = "ended",
                          ![r].end = IF run[r].failed THEN "bootstrap-failed" ELSE outcome]
    /\ Log(r, run[r].segment)
    /\ IF run[r].failed THEN UNCHANGED <<entry, pending>> ELSE Rewrite(r, outcome)

(* A bootstrap that failed before run.start: no run.end follows. *)
Conclude(r) ==
  /\ At(r, {"bootstrapping"})
  /\ run[r].failed
  /\ run' = [run EXCEPT ![r].at = "ended", ![r].end = "bootstrap-failed"]
  /\ UNCHANGED <<entry, pending, disk, osVars, passVars>>

(* An event for which the live segment has no room; of a buffered log the  *)
(* last ones are written when the log is closed, after run.end.            *)
Roll(r) ==
  /\ At(r, IF r \in Buffered THEN {"running", "ended"} ELSE {"running"})
  /\ run[r].segment \in 0 .. MaxSegment - 1
  /\ run' = [run EXCEPT ![r].segment = @ + 1]
  /\ Log(r, run[r].segment + 1)
  /\ UNCHANGED <<entry, pending>>

(* The process ends, having flushed its sinks, with the code of its outcome. *)
ExitCode(end) == CASE end = "ok" -> 0 [] end = "interrupted" -> 143 [] OTHER -> 1
Exit(r) ==
  /\ At(r, {"ended"})
  /\ run' = [run EXCEPT ![r].at = "gone", ![r].pid = None, ![r].code = ExitCode(run[r].end)]
  /\ started' = [started EXCEPT ![run[r].pid] = None]
  /\ UNCHANGED <<entry, pending, disk, clock, skew, passVars>>

(* What a pass of p that stops here leaves half done. *)
CutShort(p) == IF pass[p].at = "files" THEN {pass[p].victim} ELSE {}

(* SIGKILL, or the second SIGTERM or SIGINT, at any moment. *)
Kill(r) ==
  /\ run[r].at \notin {"absent", "gone"}
  /\ run' = [run EXCEPT ![r].at = "gone", ![r].pid = None]
  /\ started' = [started EXCEPT ![run[r].pid] = None]
  /\ pending' = [pending EXCEPT ![r] = None]
  /\ pass' = [pass EXCEPT ![r] = NoPass]
  /\ stray' = stray \cup CutShort(r)
  /\ UNCHANGED <<entry, disk, clock, skew, passes, condemned>>

-----------------------------------------------------------------------------
(* The machine they share. *)

(* Another process is given a pid that has been released. *)
Recycle(i) ==
  /\ started[i] = None
  /\ \E r \in Run : Readable(r) /\ entry[r].pid = i
  /\ started' = [started EXCEPT ![i] = clock]
  /\ UNCHANGED <<runVars, disk, clock, skew, passVars>>

ClockStep ==
  /\ skew < MaxSkew
  /\ skew' = skew + 1
  /\ UNCHANGED <<runVars, disk, started, clock, passVars>>

-----------------------------------------------------------------------------
(* A pass. *)

Distance(a, b) == IF a < b THEN b - a ELSE a - b

StartTimesMatch(recorded, probed) == Distance(recorded, probed) <= Tolerance

(* classifyDisplayStatus on an entry that was read earlier. *)
Classify(e) ==
  IF e.status \in Terminal THEN e.status
  ELSE IF started[e.pid] = None \/ ~StartTimesMatch(e.since, started[e.pid] + skew)
       THEN "crashed" ELSE e.status

Segments(path) == {f \in disk : f[1] = path}

(* runs in the directory when a pass begins *)
Begin(p) ==
  /\ pass[p] = NoPass
  /\ IF p = Operator THEN passes < MaxPasses ELSE At(p, {"pruning"})
  /\ passes' = IF p = Operator THEN passes + 1 ELSE passes
  /\ \E bounds \in Bounds :
       pass' = [pass EXCEPT ![p] = [at |-> "reading", bounds |-> bounds,
                                    names |-> {r \in Run : entry[r] # None},
                                    seen |-> [r \in {} |-> None]]]
  /\ UNCHANGED <<runVars, disk, osVars, stray, condemned>>

With(f, x, y) == [z \in DOMAIN f \cup {x} |-> IF z = x THEN y ELSE f[z]]
Without(f, x) == [z \in DOMAIN f \ {x} |-> f[z]]

(* readRegistryEntry: a file that is gone or does not parse is skipped. *)
ReadEntry(p) ==
  /\ pass[p].at = "reading"
  /\ \E r \in pass[p].names :
       /\ \A q \in pass[p].names : r <= q
       /\ pass' = [pass EXCEPT ![p].names = @ \ {r},
                               ![p].seen = IF Readable(r) THEN With(@, r, entry[r]) ELSE @]
  /\ UNCHANGED <<runVars, disk, osVars, passes, stray, condemned>>

EndReading(p) ==
  /\ pass[p].at = "reading"
  /\ pass[p].names = {}
  /\ pass' = [pass EXCEPT ![p] = [at |-> "judging", bounds |-> pass[p].bounds,
                                  seen |-> pass[p].seen, judged |-> [r \in {} |-> None]]]
  /\ UNCHANGED <<runVars, disk, osVars, passes, stray, condemned>>

(* sizeOf, and what runs list shows of a run. *)
Judge(p, r) ==
  /\ pass[p].at = "judging"
  /\ r \in DOMAIN pass[p].seen \ DOMAIN pass[p].judged
  /\ pass' = [pass EXCEPT ![p].judged =
                With(@, r, [status |-> Classify(pass[p].seen[r]), at |-> pass[p].seen[r].at,
                            bytes |-> Cardinality(Segments(LogOf[r]))])]
  /\ UNCHANGED <<runVars, disk, osVars, passes, stray, condemned>>

Live(judged) == {r \in DOMAIN judged : judged[r].status \in {"bootstrapping", "running"}}
Bytes(judged, S) == MapThenSumSet(LAMBDA r : judged[r].bytes, S)

(* Newest first; of two entries of one instant, the first file. *)
Newer(judged, q, r) ==
  judged[q].at > judged[r].at \/ (judged[q].at = judged[r].at /\ q < r)
UpTo(judged, S, r) == {q \in S : q = r \/ Newer(judged, q, r)}

(* The three bounds of a pass, each applied to what the one before left. *)
WithinAge(judged, b) ==
  {r \in DOMAIN judged : b.since # None => judged[r].at >= b.since}
WithinCount(judged, b) ==
  LET recent == WithinAge(judged, b)
  IN {r \in recent : b.keep # None => Cardinality(UpTo(judged, recent, r)) <= b.keep}

(* Live runs use up none of the budget. *)
WithinBytesLiveFree(judged, b) ==
  LET finished == WithinCount(judged, b) \ Live(judged)
      fits(r) == \/ Bytes(judged, UpTo(judged, finished, r)) <= b.bytes
                 \/ Live(judged) = {} /\ UpTo(judged, finished, r) = {r}
  IN IF b.bytes = None THEN WithinCount(judged, b)
     ELSE {r \in finished : \A q \in UpTo(judged, finished, r) : fits(q)}

WithinBytes(judged, b) ==
  LET finished == WithinCount(judged, b) \ Live(judged)
      fits(r) == \/ Bytes(judged, Live(judged) \cup UpTo(judged, finished, r)) <= b.bytes
                 \/ Live(judged) = {} /\ UpTo(judged, finished, r) = {r}
  IN IF b.bytes = None THEN WithinCount(judged, b)
     ELSE {r \in finished : \A q \in UpTo(judged, finished, r) : fits(q)}

(* The bounds alone decide. *)
SurvivorsByBounds(judged, b) == WithinBytes(judged, b)

(* Every live run survives, whatever the bounds say. *)
Survivors(judged, b) == WithinBytes(judged, b) \cup Live(judged)

Judged(p) == pass[p].at = "judging" /\ DOMAIN pass[p].judged = DOMAIN pass[p].seen

(* pruneRuns up to its deletions; the files survivors point at are listed. *)
Decide(p) ==
  /\ Judged(p)
  /\ LET judged == pass[p].judged
         kept == Survivors(judged, pass[p].bounds)
     IN /\ pass' = [pass EXCEPT ![p] =
             [at |-> "deleting", victim |-> None, listed |-> None,
              doomed |-> [r \in DOMAIN judged \ kept |-> judged[r]],
              spared |-> UNION {Segments(LogOf[r]) : r \in kept}]]
        /\ condemned' = condemned \cup (DOMAIN judged \ kept)
  /\ UNCHANGED <<runVars, disk, osVars, passes, stray>>

(* The next run to go, the newest of those left. *)
IsNext(doomed, r) ==
  r \in DOMAIN doomed /\ \A q \in DOMAIN doomed \ {r} : Newer(doomed, r, q)

(* deleteSized: the entry first, then the segments there are by then. *)
DeleteEntry(p) ==
  /\ pass[p].at = "deleting"
  /\ \E r \in Run :
       /\ IsNext(pass[p].doomed, r)
       /\ entry' = [entry EXCEPT ![r] = None]
       /\ pass' = [pass EXCEPT ![p].at = "files", ![p].victim = r,
                               ![p].doomed = Without(@, r)]
  /\ UNCHANGED <<run, pending, disk, osVars, passes, stray, condemned>>

(* Lists segment 0 only. *)
ListFilesUnrolled(p) ==
  /\ pass[p].at = "files"
  /\ pass[p].listed = None
  /\ pass' = [pass EXCEPT ![p].listed =
                (Segments(LogOf[pass[p].victim]) \cap {<<LogOf[pass[p].victim], 0>>})
                  \ pass[p].spared]
  /\ UNCHANGED <<runVars, disk, osVars, passes, stray, condemned>>

ListFiles(p) ==
  /\ pass[p].at = "files"
  /\ pass[p].listed = None
  /\ pass' = [pass EXCEPT ![p].listed = Segments(LogOf[pass[p].victim]) \ pass[p].spared]
  /\ UNCHANGED <<runVars, disk, osVars, passes, stray, condemned>>

RemoveFile(p) ==
  /\ pass[p].at = "files"
  /\ pass[p].listed \notin {None, {}}
  /\ LET f == CHOOSE g \in pass[p].listed : \A h \in pass[p].listed : g[2] <= h[2]
     IN /\ disk' = disk \ {f}
        /\ pass' = [pass EXCEPT ![p].listed = @ \ {f}]
  /\ UNCHANGED <<runVars, osVars, passes, stray, condemned>>

EndFiles(p) ==
  /\ pass[p].at = "files"
  /\ pass[p].listed = {}
  /\ pass' = [pass EXCEPT ![p].at = "deleting", ![p].victim = None, ![p].listed = None]
  /\ UNCHANGED <<runVars, disk, osVars, passes, stray, condemned>>

(* A removal is refused: reported, and the pass goes on with the next run. *)
RemoveFails(p) ==
  /\ \/ /\ pass[p].at = "deleting"
        /\ \E r \in Run : /\ IsNext(pass[p].doomed, r)
                          /\ pass' = [pass EXCEPT ![p].doomed = Without(@, r)]
     \/ /\ pass[p].at = "files" /\ pass[p].listed \notin {None, {}}
        /\ pass' = [pass EXCEPT ![p].at = "deleting", ![p].victim = None, ![p].listed = None]
  /\ stray' = stray \cup CutShort(p)
  /\ UNCHANGED <<runVars, disk, osVars, passes, condemned>>

(* runs list stops once all are judged; a prune when nobody is left.  The  *)
(* opportunistic one is followed by the entry of the run it precedes.      *)
EndPass(p) ==
  /\ \/ pass[p].at = "deleting" /\ DOMAIN pass[p].doomed = {}
     \/ p = Operator /\ Judged(p)
  /\ pass' = [pass EXCEPT ![p] = NoPass]
  /\ IF p = Operator THEN UNCHANGED <<run, clock>>
     ELSE run' = Moved(p, "entering") /\ clock' = clock + 1
  /\ UNCHANGED <<entry, pending, disk, started, skew, passes, stray, condemned>>

StopOperator ==
  /\ pass[Operator] # NoPass
  /\ pass' = [pass EXCEPT ![Operator] = NoPass]
  /\ stray' = stray \cup CutShort(Operator)
  /\ UNCHANGED <<runVars, disk, osVars, passes, condemned>>

RunStep(r) ==
  \/ Start(r) \/ WriteEntry(r) \/ FinishRewrite(r) \/ RunStart(r) \/ BootstrapError(r)
  \/ RunEnd(r) \/ Conclude(r) \/ Roll(r) \/ Exit(r) \/ Kill(r)

PassStep(p) ==
  \/ Begin(p) \/ ReadEntry(p) \/ EndReading(p) \/ \E r \in Run : Judge(p, r)
  \/ Decide(p) \/ DeleteEntry(p) \/ ListFiles(p) \/ RemoveFile(p) \/ EndFiles(p)
  \/ RemoveFails(p) \/ EndPass(p)

Next ==
  \/ \E r \in Run : RunStep(r)
  \/ \E p \in Process : PassStep(p)
  \/ \E i \in Pid : Recycle(i)
  \/ ClockStep
  \/ StopOperator

Spec == Init /\ [][Next]_vars

-----------------------------------------------------------------------------

(* LiveRunsKept: "Pruning MUST NOT remove an entry whose run is still      *)
(* alive": whatever was read and judged how long ago, no step removes the  *)
(* file of a run whose process is there and has not reported its end.      *)
LiveRunsKept ==
  [][\A r \in Run : Alive(r) /\ ~run[r].failed /\ entry[r] # None => entry'[r] # None]_vars

Private(r) == \A q \in Run \ {r} : LogOf[q] # LogOf[r]
Settled(r) == r \notin condemned /\ \A q \in Run : LogOf[q] = LogOf[r] => q \in Past

(* EntriesMatchLogs: a listed run whose log is its own still has every     *)
(* segment it has written, and so has a run no pass has condemned that     *)
(* shares its log with others, once all of these have ended; a run with a  *)
(* log of its own that is not listed has none, unless a pass is removing   *)
(* them, was stopped while it did, or it has written behind its entry.     *)
EntriesMatchLogs ==
  \A r \in Run :
    LET written == {<<LogOf[r], i>> : i \in 0 .. run[r].segment}
    IN /\ Private(r) /\ entry[r] # None => written \subseteq disk
       /\ Settled(r) /\ Readable(r) => written \subseteq disk
       /\ Private(r) /\ entry[r] = None =>
            \/ written \cap disk = {}
            \/ r \in stray
            \/ \E p \in Process : pass[p].at = "files" /\ pass[p].victim = r

(* RetentionHonoured: what a pass keeps is every live run and the newest   *)
(* of the others, within the three bounds together; the bytes of the live  *)
(* ones are charged, and may be all there is.                              *)
RetentionHonoured ==
  \A p \in Process : Judged(p) =>
    LET judged == pass[p].judged
        b == pass[p].bounds
        kept == Survivors(judged, b)
        finished == kept \ Live(judged)
    IN /\ Live(judged) \subseteq kept
       /\ b.since # None => \A r \in finished : judged[r].at >= b.since
       /\ b.keep # None => Cardinality(finished) <= b.keep
       /\ b.bytes # None => \/ finished = {}
                            \/ Bytes(judged, kept) <= b.bytes
                            \/ Cardinality(kept) = 1
       /\ \A r \in finished, q \in DOMAIN judged : Newer(judged, q, r) => q \in kept
       /\ b.since = None /\ b.keep # 0 => kept # {} \/ DOMAIN judged = {}

(* DisplayHonest: a run shown as crashed is gone, and one shown with a     *)
(* terminal status ended with it, whenever its file was read; and the file *)
(* of a process that exited by itself says what its exit code says. A file *)
(* no reader can parse is one its process is rewriting, or was killed on.  *)
DisplayHonest ==
  /\ \A r \in Run : entry[r] = Torn => pending[r] # None \/ run[r].at = "gone"
  /\ \A p \in Process : pass[p].at = "judging" =>
       \A r \in DOMAIN pass[p].judged :
         LET shown == pass[p].judged[r].status
         IN /\ shown = "crashed" => run[r].at = "gone"
            /\ shown \in Terminal => \/ run[r].end = shown
                                     \/ run[r].failed /\ shown = "bootstrap-failed"
  /\ \A r \in Run : Readable(r) /\ run[r].code # None =>
       entry[r].status \in Terminal /\ ExitCode(entry[r].status) = run[r].code
=============================================================================
