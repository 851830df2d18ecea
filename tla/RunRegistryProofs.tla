------------------------- MODULE RunRegistryProofs -------------------------
(***************************************************************************)
(* The theorems of the run registry, for any runs, processes, bounds of    *)
(* retention, logs shared or not, and passes at the same time: pruning     *)
(* removes no run that is still alive, what is shown of a run is so, a     *)
(* pass keeps the newest runs within its bounds, and entries agree with    *)
(* the log files they point at.  What makes it inductive: whatever was     *)
(* ever read of a run that is still there names its pid and a start time   *)
(* within the tolerance, so that every pass judges it alive, however long  *)
(* ago it read its file; and what a pass is about to remove belongs to a   *)
(* run whose entry is gone for good.                                       *)
(***************************************************************************)
EXTENDS RunRegistry, FiniteSetTheorems, TLAPS

(* A run before its first entry. *)
Fresh(r) == run[r].at \in {"absent", "pruning", "entering"}

(* A run whose process holds a pid. *)
Held(r) == run[r].at \notin {"absent", "gone"}

Places == {"absent", "pruning", "entering", "bootstrapping", "running", "ended", "gone"}
Stages == {"off", "reading", "judging", "deleting", "files"}

(* The variables are functions, and the records have the fields they have. *)
Shape ==
  /\ DOMAIN run = Run /\ DOMAIN entry = Run /\ DOMAIN pending = Run /\ DOMAIN pass = Process
  /\ \A r \in Run : /\ DOMAIN run[r] = {"at", "pid", "segment", "failed", "end", "code"}
                    /\ run[r].at \in Places /\ run[r].failed \in BOOLEAN
                    /\ run[r].segment \in Nat \cup {-1}
                    /\ run[r].end \in Terminal \cup {None}
                    /\ entry[r] \in Entry \cup {None, Torn}
                    /\ pending[r] \in Entry \cup {None}
  /\ started \in [Pid -> Nat \cup {None}]
  /\ clock \in Nat
  /\ skew \in 0 .. MaxSkew

(* Every run that is there has a pid, which no other run has. *)
PidsHeld ==
  \A r \in Run : Held(r) =>
    /\ run[r].pid \in Pid
    /\ started[run[r].pid] \in Nat
    /\ \A q \in Run : Held(q) /\ run[q].pid = run[r].pid => q = r

(* A fresh run has written nothing, and only a run at its own pass has one. *)
Early ==
  \A r \in Run :
    /\ Fresh(r) => /\ entry[r] = None /\ pending[r] = None
                   /\ ~run[r].failed /\ run[r].segment = -1
    /\ pass[r].at # "off" => run[r].at = "pruning"

(* A run that has not ended has no outcome, and that of a failed bootstrap *)
(* is known; one that has started has a log; and a torn file is one that   *)
(* is being rewritten, or was abandoned.                                   *)
Told ==
  \A r \in Run :
    /\ run[r].end # None => run[r].at \in {"ended", "gone"}
    /\ run[r].at = "ended" => run[r].end # None
    /\ run[r].at = "running" => run[r].segment \in Nat
    /\ run[r].failed /\ run[r].end # None => run[r].end = "bootstrap-failed"
    /\ run[r].at = "gone" => pending[r] = None
    /\ pending[r] # None => entry[r] \in {None, Torn}
    /\ entry[r] = Torn => pending[r] # None \/ run[r].at = "gone"

Base == Shape /\ PidsHeld /\ Early /\ Told

(* A run that goes on keeps its pid and its start, and stays failed; one   *)
(* that is gone stays as it is; and only a fresh run gets a file.          *)
Evolves(r) ==
  /\ Fresh(r)' => Fresh(r)
  /\ Held(r)' /\ ~Fresh(r) =>
       /\ Held(r)
       /\ run[r].pid' = run[r].pid
       /\ started[run[r].pid]' = started[run[r].pid]
  /\ run[r].failed => run[r].failed'
  /\ run[r].end # None => run[r].end' = run[r].end
  /\ run[r].at = "gone" => run[r]' = run[r] /\ entry[r]' \in {entry[r], None}
  /\ entry[r] = None /\ entry[r]' # None => Fresh(r)

LEMMA BaseInit == Init => Base
<1>. SUFFICES ASSUME Init PROVE Base
  OBVIOUS
<1>0. /\ \A r \in Run \ Past : entry[r] = None
      /\ pending = [r \in Run |-> None]
      /\ started = [i \in Pid |-> None]
      /\ clock = Tolerance + 1 /\ skew = 0
      /\ pass = [p \in Process |-> NoPass]
  BY DEF Init
<1>1. PICK h \in History :
        /\ run = [r \in Run |-> IF r \in Past
                                THEN [NoRun EXCEPT !.at = "gone", !.end = h[r].end,
                                                   !.segment = h[r].segment]
                                ELSE NoRun]
        /\ entry = [r \in Run |-> IF r \in Past THEN h[r].entry ELSE None]
  BY DEF Init
<1>2. ASSUME NEW r \in Run
      PROVE  /\ DOMAIN run[r] = {"at", "pid", "segment", "failed", "end", "code"}
             /\ run[r].at = (IF r \in Past THEN "gone" ELSE "absent")
             /\ ~run[r].failed /\ run[r].failed \in BOOLEAN
             /\ run[r].segment \in Nat \cup {-1}
             /\ r \notin Past => run[r].segment = -1 /\ run[r].end = None
             /\ run[r].end \in Terminal \cup {None}
             /\ entry[r] \in Entry \cup {None, Torn}
             /\ pending[r] = None
  <2>1. CASE r \in Past
    <3>1. /\ h[r].segment \in Nat \cup {-1} /\ h[r].end \in Terminal \cup {None}
          /\ h[r].entry \in Entry \cup {None, Torn}
      BY <2>1, RegistryAssumption
    <3>. QED  BY <1>0, <1>1, <2>1, <3>1 DEF NoRun
  <2>2. CASE r \notin Past
    BY <1>0, <1>1, <2>2 DEF NoRun
  <2>. QED  BY <2>1, <2>2
<1>3. Shape
  <2>1. DOMAIN run = Run /\ DOMAIN entry = Run /\ DOMAIN pending = Run /\ DOMAIN pass = Process
    BY <1>0, <1>1
  <2>2. started \in [Pid -> Nat \cup {None}]
    BY <1>0
  <2>3. clock \in Nat /\ skew \in 0 .. MaxSkew
    BY <1>0, RegistryAssumption
  <2>. QED  BY <1>2, <2>1, <2>2, <2>3 DEF Shape, Places
<1>4. PidsHeld
  BY <1>2 DEF PidsHeld, Held
<1>5. Early
  <2>1. \A r \in Run : pass[r].at = "off"
    BY <1>0 DEF Process, NoPass
  <2>. QED  BY <1>0, <1>2, <2>1 DEF Early, Fresh
<1>6. Told
  <2>1. Torn # None /\ \A r \in Run \ Past : entry[r] # Torn
    BY <1>0, RegistryAssumption
  <2>. QED  BY <1>2, <2>1 DEF Told
<1>. QED  BY <1>3, <1>4, <1>5, <1>6 DEF Base

Goal == Base' /\ skew' >= skew /\ \A r \in Run : Evolves(r)

(* A run that is past its pass moves on, or writes its entry. *)
LEMMA RunMoves ==
  ASSUME Base, NEW r \in Run,
         DOMAIN run' = Run, \A q \in Run \ {r} : run'[q] = run[q],
         DOMAIN run'[r] = {"at", "pid", "segment", "failed", "end", "code"},
         run'[r].failed \in BOOLEAN, run[r].failed => run'[r].failed,
         run'[r].pid = run[r].pid, run'[r].segment \in Nat \cup {-1},
         run'[r].at = "running" => run'[r].segment \in Nat,
         \/ run[r].at \in {"entering", "bootstrapping", "running"}
            /\ run'[r].at \in {"bootstrapping", "running", "ended"}
         \/ run'[r].at = run[r].at /\ ~Fresh(r),
         \/ /\ run'[r].end = run[r].end /\ (run'[r].failed => run[r].failed \/ run[r].end = None)
            /\ run'[r].at = "ended" => run[r].at = "ended"
         \/ /\ run[r].end = None /\ run'[r].at = "ended" /\ run'[r].end \in Terminal
            /\ run'[r].failed => run'[r].end = "bootstrap-failed",
         DOMAIN entry' = Run, \A q \in Run \ {r} : entry'[q] = entry[q],
         DOMAIN pending' = Run, \A q \in Run \ {r} : pending'[q] = pending[q],
         run[r].at # "gone",
         \/ entry'[r] = entry[r] /\ pending'[r] = pending[r]
         \/ entry'[r] = Torn /\ pending'[r] \in Entry /\ (Fresh(r) \/ Readable(r))
         \/ /\ pending[r] # None /\ pending'[r] = None
            /\ entry'[r] = IF entry[r] = Torn THEN pending[r] ELSE entry[r],
         UNCHANGED <<osVars, pass>>
  PROVE  Goal
<1>. USE DEF Base, osVars
<1>1. Shape'
  BY DEF Shape, Places
<1>2. \A q \in Run : Held(q)' => Held(q) /\ run'[q].pid = run[q].pid
  BY DEF Held, Fresh
<1>3. PidsHeld'
  BY <1>2 DEF PidsHeld
<1>4. Early'
  BY DEF Early, Fresh
<1>7. Told'
  <2>1. Torn # None /\ None \notin Terminal /\ None \notin Entry /\ Torn \notin Entry
    BY RegistryAssumption
  <2>2. \A q \in Run \ {r} : /\ run'[q] = run[q] /\ entry'[q] = entry[q]
                             /\ pending'[q] = pending[q]
    OBVIOUS
  <2>. QED  BY <2>1, <2>2 DEF Told, Shape
<1>5. \A q \in Run : Evolves(q)
  <2>1. ASSUME NEW q \in Run \ {r} PROVE Evolves(q)
    BY DEF Evolves, Fresh, Held
  <2>2. /\ Fresh(r)' => Fresh(r)
        /\ Held(r)
        /\ run[r].pid' = run[r].pid /\ started[run[r].pid]' = started[run[r].pid]
        /\ (run[r].end # None => run[r].end' = run[r].end)
        /\ (entry[r] = None /\ entry[r]' # None => Fresh(r))
    BY RegistryAssumption DEF Fresh, Held, Readable
  <2>. QED  BY <2>1, <2>2 DEF Evolves
<1>6. skew' >= skew
  BY DEF Shape
<1>. QED  BY <1>1, <1>3, <1>4, <1>5, <1>6, <1>7 DEF Goal

(* A step of a pass of p leaves the runs, but for the one that ends it. *)
LEMMA PassMoves ==
  ASSUME Base, NEW p \in Process,
         DOMAIN pass' = Process, \A q \in Process \ {p} : pass'[q] = pass[q],
         DOMAIN run' = Run, \A q \in Run \ {p} : run'[q] = run[q],
         p \in Run => \/ run'[p] = run[p] /\ (run[p].at = "pruning" \/ pass'[p].at = "off")
                      \/ /\ run[p].at = "pruning" /\ run' = Moved(p, "entering")
                         /\ pass'[p].at = "off",
         DOMAIN entry' = Run, \A q \in Run : entry'[q] # entry[q] => entry'[q] = None,
         pending' = pending, started' = started, clock' \in {clock, clock + 1}, skew' = skew
  PROVE  Goal
<1>. USE DEF Base
<1>1. \A q \in Run : /\ run'[q].pid = run[q].pid /\ run'[q].failed = run[q].failed
                     /\ run'[q].end = run[q].end /\ run'[q].segment = run[q].segment
                     /\ DOMAIN run'[q] = DOMAIN run[q]
                     /\ \/ run'[q] = run[q]
                        \/ run[q].at = "pruning" /\ run'[q].at = "entering"
                     /\ entry'[q] \in {entry[q], None}
  BY DEF Moved, Shape
<1>7. Told'
  BY <1>1, RegistryAssumption DEF Told
<1>2. Shape'
  BY <1>1 DEF Shape, Places
<1>3. PidsHeld'
  BY <1>1 DEF PidsHeld, Held
<1>4. Early'
  <2>1. \A q \in Run : /\ pass'[q].at # "off" => run'[q].at = "pruning"
                       /\ Fresh(q)' => Fresh(q)
    BY <1>1 DEF Early, Fresh, Process
  <2>. QED  BY <1>1, <2>1 DEF Early
<1>5. \A q \in Run : Evolves(q)
  <2>1. ASSUME NEW q \in Run
        PROVE  /\ Fresh(q)' => Fresh(q)
               /\ Held(q)' => Held(q)
               /\ started[run[q].pid]' = started[run[q].pid]
    BY <1>1 DEF Fresh, Held
  <2>. QED  BY <1>1, <2>1 DEF Evolves
<1>6. skew' >= skew
  BY DEF Shape
<1>. QED  BY <1>2, <1>3, <1>4, <1>5, <1>6, <1>7 DEF Goal

(* A process ends, and its pid is released. *)
LEMMA RunGoes ==
  ASSUME Base, NEW r \in Run, Held(r),
         \A q \in Run \ {r} : run'[q] = run[q], DOMAIN run' = Run,
         run'[r].at = "gone", run'[r].failed = run[r].failed, DOMAIN run'[r] = DOMAIN run[r],
         run'[r].end = run[r].end, run'[r].segment = run[r].segment,
         started' = [started EXCEPT ![run[r].pid] = None],
         DOMAIN pending' = Run, pending'[r] = None,
         \A q \in Run \ {r} : pending'[q] = pending[q],
         DOMAIN pass' = Process, \A q \in Run \ {r} : pass'[q] = pass[q],
         run[r].at = "pruning" => pass'[r].at = "off",
         pass'[r].at \in {pass[r].at, "off"},
         entry' = entry, clock' = clock, skew' = skew
  PROVE  Goal
<1>. USE DEF Base
<1>1. \A q \in Run \ {r} : Held(q) => started'[run[q].pid] = started[run[q].pid]
  BY DEF Held, PidsHeld, Shape
<1>2. Shape'
  BY DEF Shape, Places
<1>3. PidsHeld'
  BY <1>1 DEF PidsHeld, Held
<1>4. Early'
  BY DEF Early, Fresh, Held
<1>5. \A q \in Run : Evolves(q)
  BY <1>1 DEF Evolves, Fresh, Held
<1>6. skew' >= skew
  BY DEF Shape
<1>7. Told'
  <2>1. /\ run'[r].at = "gone" /\ pending'[r] = None /\ run'[r].failed = run[r].failed
        /\ run'[r].end = run[r].end /\ entry'[r] = entry[r]
    OBVIOUS
  <2>2. \A q \in Run \ {r} : /\ run'[q] = run[q] /\ pending'[q] = pending[q]
                             /\ entry'[q] = entry[q]
    OBVIOUS
  <2>. QED  BY <2>1, <2>2 DEF Told
<1>. QED  BY <1>2, <1>3, <1>4, <1>5, <1>6, <1>7 DEF Goal

LEMMA MaxSegmentNat ==
  ASSUME NEW n \in Nat \cup {-1}
  PROVE  Max({0, n}) = (IF n = -1 THEN 0 ELSE n) /\ Max({0, n}) \in Nat
BY DEF Max

LEMMA RunStepBase ==
  ASSUME Base, NEW r \in Run, RunStep(r)
  PROVE  Goal
<1>0. /\ DOMAIN run = Run /\ DOMAIN run[r] = {"at", "pid", "segment", "failed", "end", "code"}
      /\ DOMAIN entry = Run /\ DOMAIN pending = Run /\ run[r].failed \in BOOLEAN
      /\ DOMAIN pass = Process
      /\ run[r].segment \in Nat \cup {-1} /\ run[r].end \in Terminal \cup {None}
      /\ pending[r] # None => ~Fresh(r) /\ run[r].at # "gone"
      /\ run[r].at \in {"bootstrapping", "running"} => run[r].end = None
      /\ run[r].at = "running" => run[r].segment \in Nat
  BY DEF Base, Shape, Early, Told
<1>11. ASSUME NEW status \in Status, Rewrite(r, status)
       PROVE  /\ DOMAIN entry' = Run /\ \A q \in Run \ {r} : entry'[q] = entry[q]
              /\ DOMAIN pending' = Run /\ \A q \in Run \ {r} : pending'[q] = pending[q]
              /\ \/ entry'[r] = entry[r] /\ pending'[r] = pending[r]
                 \/ entry'[r] = Torn /\ pending'[r] \in Entry /\ (Fresh(r) \/ Readable(r))
  <2>1. CASE Readable(r)
    <3>1. entry[r] \in Entry
      BY <2>1 DEF Base, Shape, Readable
    <3>2. [entry[r] EXCEPT !.status = status] \in Entry
      BY <3>1 DEF Entry
    <3>. QED  BY <1>0, <1>11, <2>1, <3>2 DEF Rewrite, Write
  <2>2. CASE ~Readable(r)
    BY <1>0, <1>11, <2>2 DEF Rewrite
  <2>. QED  BY <2>1, <2>2
<1>1. CASE Start(r)
  <2>. USE DEF Base
  <2>1. PICK i \in Pid : /\ started[i] = None
                         /\ started' = [started EXCEPT ![i] = clock]
                         /\ run' = [run EXCEPT ![r].at = "pruning", ![r].pid = i]
    BY <1>1 DEF Start
  <2>2. /\ run[r].at = "absent" /\ clock' = clock + 1 /\ skew' = skew
        /\ entry' = entry /\ pending' = pending /\ pass' = pass
    BY <1>1 DEF Start, passVars
  <2>3. /\ \A q \in Run \ {r} : run'[q] = run[q]
        /\ run'[r].at = "pruning" /\ run'[r].pid = i /\ run'[r].failed = run[r].failed
        /\ run'[r].end = run[r].end /\ run'[r].segment = run[r].segment
        /\ DOMAIN run'[r] = DOMAIN run[r]
    BY <1>0, <2>1
  <2>4. /\ started'[i] \in Nat
        /\ \A j \in Pid \ {i} : started'[j] = started[j]
        /\ \A q \in Run : Held(q) => run[q].pid # i
    BY <2>1, RegistryAssumption DEF Shape, PidsHeld
  <2>5. Shape'
    BY <2>1, <2>2, <2>3 DEF Shape, Places
  <2>6. PidsHeld'
    BY <2>3, <2>4 DEF PidsHeld, Held
  <2>7. Early'
    BY <2>2, <2>3 DEF Early, Fresh
  <2>8. \A q \in Run : Evolves(q)
    BY <2>2, <2>3, <2>4 DEF Evolves, Fresh, Alive, Held, PidsHeld
  <2>9. skew' >= skew
    BY <2>2 DEF Shape
  <2>10. Told'
    BY <2>2, <2>3 DEF Told
  <2>. QED  BY <2>5, <2>6, <2>7, <2>8, <2>9, <2>10 DEF Goal
<1>2. CASE WriteEntry(r)
  <2>. DEFINE e == [status |-> "bootstrapping", pid |-> run[r].pid,
                    since |-> started[run[r].pid] + skew, at |-> clock + skew]
  <2>1. /\ run[r].at = "entering" /\ Fresh(r)
        /\ run' = [run EXCEPT ![r].at = "bootstrapping"]
        /\ UNCHANGED <<osVars, pass>>
        /\ Write(r, e) \/ UNCHANGED <<entry, pending>>
    BY <1>2 DEF WriteEntry, At, Moved, Fresh
  <2>2. e \in Entry
    <3>1. run[r].pid \in Pid /\ started[run[r].pid] \in Nat /\ clock \in Nat /\ skew \in Nat
      BY <2>1, RegistryAssumption DEF Base, Shape, PidsHeld, Held
    <3>. QED  BY <3>1 DEF Entry, Status
  <2>. HIDE DEF e
  <2>3. /\ DOMAIN entry' = Run /\ \A q \in Run \ {r} : entry'[q] = entry[q]
        /\ DOMAIN pending' = Run /\ \A q \in Run \ {r} : pending'[q] = pending[q]
        /\ \/ entry'[r] = entry[r] /\ pending'[r] = pending[r]
           \/ entry'[r] = Torn /\ pending'[r] \in Entry
    BY <1>0, <2>1, <2>2 DEF Write
  <2>4. run[r].end = None
    BY <2>1 DEF Base, Told
  <2>5. /\ DOMAIN run' = Run /\ \A q \in Run \ {r} : run'[q] = run[q]
        /\ DOMAIN run'[r] = DOMAIN run[r] /\ run'[r].at = "bootstrapping"
        /\ run'[r].failed = run[r].failed /\ run'[r].pid = run[r].pid
        /\ run'[r].segment = run[r].segment /\ run'[r].end = run[r].end
    BY <1>0, <2>1
  <2>. QED  BY <1>0, <2>1, <2>3, <2>4, <2>5, RunMoves
<1>3. CASE FinishRewrite(r)
  <2>1. /\ ~Fresh(r) /\ UNCHANGED <<run, osVars, pass>>
        /\ DOMAIN entry' = Run /\ \A q \in Run \ {r} : entry'[q] = entry[q]
        /\ DOMAIN pending' = Run /\ \A q \in Run \ {r} : pending'[q] = pending[q]
        /\ pending[r] # None /\ pending'[r] = None
        /\ entry'[r] = IF entry[r] = Torn THEN pending[r] ELSE entry[r]
        /\ run[r].at # "gone"
    BY <1>0, <1>3 DEF FinishRewrite, passVars
  <2>2. /\ DOMAIN run' = Run /\ \A q \in Run \ {r} : run'[q] = run[q]
        /\ DOMAIN run'[r] = {"at", "pid", "segment", "failed", "end", "code"}
        /\ run'[r].failed \in BOOLEAN /\ (run[r].failed => run'[r].failed)
        /\ run'[r].pid = run[r].pid /\ run'[r].at = run[r].at /\ ~Fresh(r)
        /\ run'[r].segment \in Nat \cup {-1} /\ run'[r].end = run[r].end
        /\ (run'[r].at = "running" => run'[r].segment \in Nat)
        /\ (run'[r].failed => run[r].failed \/ run[r].end = None)
        /\ (run'[r].at = "ended" => run[r].at = "ended")
        /\ UNCHANGED <<osVars, pass>>
    BY <1>0, <2>1
  <2>. QED  BY <2>1, <2>2, RunMoves
<1>4. CASE RunStart(r)
  <2>1. /\ run[r].at = "bootstrapping"
        /\ run' = [run EXCEPT ![r].at = "running", ![r].segment = Max({0, @})]
        /\ Rewrite(r, "running") /\ UNCHANGED <<osVars, pass>>
    BY <1>4 DEF RunStart, At, Log
  <2>2. Max({0, run[r].segment}) \in Nat
    BY <1>0, MaxSegmentNat
  <2>3. /\ DOMAIN run' = Run /\ \A q \in Run \ {r} : run'[q] = run[q]
        /\ DOMAIN run'[r] = DOMAIN run[r] /\ run'[r].at = "running"
        /\ run'[r].failed = run[r].failed /\ run'[r].pid = run[r].pid
        /\ run'[r].segment \in Nat /\ run'[r].end = run[r].end
    BY <1>0, <2>1, <2>2
  <2>. QED  BY <1>0, <1>11, <2>1, <2>3, RunMoves DEF Status
<1>5. CASE BootstrapError(r)
  <2>1. /\ run[r].at \in {"bootstrapping", "running"}
        /\ run' = [run EXCEPT ![r].segment = Max({0, @}), ![r].failed = TRUE]
        /\ Rewrite(r, "bootstrap-failed") /\ UNCHANGED <<osVars, pass>>
    BY <1>5 DEF BootstrapError, At, Log
  <2>2. Max({0, run[r].segment}) \in Nat
    BY <1>0, MaxSegmentNat
  <2>3. /\ DOMAIN run' = Run /\ \A q \in Run \ {r} : run'[q] = run[q]
        /\ DOMAIN run'[r] = DOMAIN run[r] /\ run'[r].at = run[r].at
        /\ run'[r].failed = TRUE /\ run'[r].pid = run[r].pid
        /\ run'[r].segment \in Nat /\ run'[r].end = run[r].end
    BY <1>0, <2>1, <2>2
  <2>. QED  BY <1>0, <1>11, <2>1, <2>3, RunMoves DEF Status, Terminal
<1>6. CASE RunEnd(r)
  <2>1. PICK outcome \in IF run[r].failed THEN {"error"} ELSE Outcome :
          /\ run[r].at = "running"
          /\ run' = [run EXCEPT ![r].at = "ended",
                        ![r].end = IF run[r].failed THEN "bootstrap-failed" ELSE outcome]
          /\ UNCHANGED <<osVars, pass>>
          /\ IF run[r].failed THEN UNCHANGED <<entry, pending>> ELSE Rewrite(r, outcome)
    BY <1>6 DEF RunEnd, At, Log
  <2>2. outcome \in Status /\ outcome \in Terminal
    BY RegistryAssumption DEF Status, Terminal
  <2>3. /\ DOMAIN run' = Run /\ \A q \in Run \ {r} : run'[q] = run[q]
        /\ DOMAIN run'[r] = DOMAIN run[r] /\ run'[r].at = "ended"
        /\ run'[r].failed = run[r].failed /\ run'[r].pid = run[r].pid
        /\ run'[r].segment = run[r].segment
        /\ run'[r].end = IF run[r].failed THEN "bootstrap-failed" ELSE outcome
    BY <1>0, <2>1
  <2>4. /\ DOMAIN entry' = Run /\ \A q \in Run \ {r} : entry'[q] = entry[q]
        /\ DOMAIN pending' = Run /\ \A q \in Run \ {r} : pending'[q] = pending[q]
        /\ \/ entry'[r] = entry[r] /\ pending'[r] = pending[r]
           \/ entry'[r] = Torn /\ pending'[r] \in Entry /\ (Fresh(r) \/ Readable(r))
    BY <1>0, <1>11, <2>1, <2>2
  <2>5. run'[r].end \in Terminal /\ (run'[r].failed => run'[r].end = "bootstrap-failed")
    BY <2>2, <2>3 DEF Terminal
  <2>. QED  BY <1>0, <2>1, <2>3, <2>4, <2>5, RunMoves
<1>7. CASE Conclude(r)
  <2>1. /\ run[r].at = "bootstrapping" /\ run[r].failed
        /\ run' = [run EXCEPT ![r].at = "ended", ![r].end = "bootstrap-failed"]
        /\ UNCHANGED <<entry, pending, osVars, pass>>
    BY <1>7 DEF Conclude, At, passVars
  <2>2. /\ DOMAIN run' = Run /\ \A q \in Run \ {r} : run'[q] = run[q]
        /\ DOMAIN run'[r] = DOMAIN run[r] /\ run'[r].at = "ended"
        /\ run'[r].failed = run[r].failed /\ run'[r].pid = run[r].pid
        /\ run'[r].segment = run[r].segment /\ run'[r].end = "bootstrap-failed"
    BY <1>0, <2>1
  <2>. QED  BY <1>0, <2>1, <2>2, RunMoves DEF Terminal
<1>8. CASE Roll(r)
  <2>1. /\ run[r].at \in {"running", "ended"} /\ run[r].segment \in Nat
        /\ run' = [run EXCEPT ![r].segment = @ + 1]
        /\ UNCHANGED <<entry, pending, osVars, pass>>
    BY <1>0, <1>8 DEF Roll, At, Log
  <2>2. /\ DOMAIN run' = Run /\ \A q \in Run \ {r} : run'[q] = run[q]
        /\ DOMAIN run'[r] = DOMAIN run[r] /\ run'[r].at = run[r].at
        /\ run'[r].failed = run[r].failed /\ run'[r].pid = run[r].pid
        /\ run'[r].segment = run[r].segment + 1 /\ run'[r].end = run[r].end
    BY <1>0, <2>1
  <2>3. ~Fresh(r)
    BY <2>1 DEF Fresh
  <2>. QED  BY <1>0, <2>1, <2>2, <2>3, RunMoves
<1>9. CASE Exit(r)
  <2>1. Held(r) /\ run[r].at = "ended"
    BY <1>9 DEF Exit, At, Held
  <2>2. /\ \A q \in Run \ {r} : run'[q] = run[q]
        /\ DOMAIN run' = Run /\ DOMAIN run'[r] = DOMAIN run[r]
        /\ run'[r].at = "gone" /\ run'[r].failed = run[r].failed
        /\ run'[r].end = run[r].end /\ run'[r].segment = run[r].segment
    BY <1>0, <1>9 DEF Exit
  <2>3. /\ started' = [started EXCEPT ![run[r].pid] = None]
        /\ UNCHANGED <<entry, pending, clock, skew, pass>>
    BY <1>9 DEF Exit, passVars
  <2>4. /\ DOMAIN pass' = Process /\ pass'[r].at = pass[r].at
        /\ \A q \in Run \ {r} : pass'[q] = pass[q]
        /\ DOMAIN pending' = Run /\ \A q \in Run : pending'[q] = pending[q]
        /\ entry' = entry /\ clock' = clock /\ skew' = skew
    BY <1>0, <2>3
  <2>5. /\ pending'[r] = None
        /\ (run[r].at = "pruning" => pass'[r].at = "off")
        /\ pass'[r].at \in {pass[r].at, "off"}
    BY <1>9, <2>1, <2>4 DEF Exit, At
  <2>. QED  BY <2>1, <2>2, <2>3, <2>4, <2>5, RunGoes
<1>10. CASE Kill(r)
  <2>1. Held(r) /\ r \in Process
    BY <1>10 DEF Kill, Held, Process
  <2>2. /\ \A q \in Run \ {r} : run'[q] = run[q]
        /\ DOMAIN run' = Run /\ DOMAIN run'[r] = DOMAIN run[r]
        /\ run'[r].at = "gone" /\ run'[r].failed = run[r].failed
        /\ run'[r].end = run[r].end /\ run'[r].segment = run[r].segment
    BY <1>0, <1>10 DEF Kill
  <2>3. /\ started' = [started EXCEPT ![run[r].pid] = None]
        /\ UNCHANGED <<entry, clock, skew>>
        /\ DOMAIN pending' = Run /\ pending'[r] = None
        /\ \A q \in Run \ {r} : pending'[q] = pending[q]
    BY <1>0, <1>10 DEF Kill
  <2>4. /\ DOMAIN pass' = Process /\ pass'[r].at = "off"
        /\ \A q \in Run \ {r} : pass'[q] = pass[q]
    <3>1. pass' = [pass EXCEPT ![r] = NoPass]
      BY <1>10 DEF Kill
    <3>2. DOMAIN pass' = Process /\ pass'[r] = NoPass
      BY <1>0, <2>1, <3>1
    <3>3. \A q \in Run \ {r} : pass'[q] = pass[q]
      BY <1>0, <3>1 DEF Process
    <3>. QED  BY <3>2, <3>3 DEF NoPass
  <2>5. /\ (run[r].at = "pruning" => pass'[r].at = "off")
        /\ pass'[r].at \in {pass[r].at, "off"}
        /\ entry' = entry /\ clock' = clock /\ skew' = skew
    BY <2>3, <2>4
  <2>. QED  BY <2>1, <2>2, <2>3, <2>4, <2>5, RunGoes
<1>. QED
  BY <1>1, <1>2, <1>3, <1>4, <1>5, <1>6, <1>7, <1>8, <1>9, <1>10 DEF RunStep

LEMMA PassStepBase ==
  ASSUME Base, NEW p \in Process, PassStep(p)
  PROVE  Goal
<1>0. /\ DOMAIN run = Run /\ DOMAIN entry = Run /\ DOMAIN pass = Process
      /\ p \in Run /\ pass[p].at # "off" => run[p].at = "pruning"
      /\ p \in Run <=> p # Operator
      /\ clock \in Nat
  BY RegistryAssumption DEF Base, Shape, Early, Process
<1>. USE DEF runVars, osVars
<1>1. CASE Begin(p)
  BY <1>0, <1>1, PassMoves DEF Begin, At
<1>2. CASE ReadEntry(p)
  BY <1>0, <1>2, PassMoves DEF ReadEntry
<1>3. CASE EndReading(p)
  BY <1>0, <1>3, PassMoves DEF EndReading
<1>4. ASSUME NEW r \in Run, Judge(p, r) PROVE Goal
  BY <1>0, <1>4, PassMoves DEF Judge
<1>5. CASE Decide(p)
  BY <1>0, <1>5, PassMoves DEF Decide, Judged
<1>6. CASE DeleteEntry(p)
  BY <1>0, <1>6, PassMoves DEF DeleteEntry
<1>7. CASE ListFiles(p)
  BY <1>0, <1>7, PassMoves DEF ListFiles
<1>8. CASE RemoveFile(p)
  BY <1>0, <1>8, PassMoves DEF RemoveFile
<1>9. CASE EndFiles(p)
  BY <1>0, <1>9, PassMoves DEF EndFiles
<1>10. CASE RemoveFails(p)
  BY <1>0, <1>10, PassMoves DEF RemoveFails
<1>11. CASE EndPass(p)
  <2>1. /\ DOMAIN pass' = Process /\ pass'[p].at = "off"
        /\ \A q \in Process \ {p} : pass'[q] = pass[q]
        /\ UNCHANGED <<entry, pending, started, skew>>
    BY <1>0, <1>11 DEF EndPass, NoPass
  <2>2. CASE p = Operator
    BY <1>0, <1>11, <2>1, <2>2, PassMoves DEF EndPass
  <2>3. CASE p # Operator
    <3>1. run' = Moved(p, "entering") /\ clock' = clock + 1 /\ run[p].at = "pruning"
      BY <1>0, <1>11, <2>3 DEF EndPass
    <3>2. DOMAIN run' = Run /\ \A q \in Run \ {p} : run'[q] = run[q]
      BY <1>0, <3>1 DEF Moved
    <3>. QED  BY <1>0, <2>1, <2>3, <3>1, <3>2, PassMoves
  <2>. QED  BY <2>2, <2>3
<1>. QED
  BY <1>1, <1>2, <1>3, <1>4, <1>5, <1>6, <1>7, <1>8, <1>9, <1>10, <1>11 DEF PassStep

LEMMA BaseStep ==
  ASSUME Base, [Next]_vars
  PROVE  Goal
<1>. USE DEF Base
<1>1. ASSUME NEW i \in Pid, Recycle(i) PROVE Goal
  <2>1. /\ started[i] = None /\ started' = [started EXCEPT ![i] = clock]
        /\ UNCHANGED <<run, entry, pending, pass, clock, skew>>
    BY <1>1 DEF Recycle, runVars, passVars
  <2>2. \A q \in Run : Held(q) => started'[run[q].pid] = started[run[q].pid]
    BY <2>1, RegistryAssumption DEF PidsHeld, Shape
  <2>3. Shape' /\ skew' >= skew
    BY <2>1 DEF Shape
  <2>4. PidsHeld' /\ Early'
    BY <2>1, <2>2 DEF PidsHeld, Early, Fresh, Held
  <2>5. \A q \in Run : Evolves(q)
    BY <2>1, <2>2 DEF Evolves, Fresh, Alive, Held
  <2>6. Told'
    BY <2>1 DEF Told
  <2>. QED  BY <2>3, <2>4, <2>5, <2>6 DEF Goal
<1>2. CASE ClockStep
  <2>1. /\ UNCHANGED <<run, entry, pending, pass, clock, started>>
        /\ skew' = skew + 1 /\ skew < MaxSkew
    BY <1>2 DEF ClockStep, runVars, passVars
  <2>2. Shape' /\ skew' >= skew
    BY <2>1, RegistryAssumption DEF Shape
  <2>3. PidsHeld' /\ Early'
    BY <2>1 DEF PidsHeld, Early, Fresh, Held
  <2>4. \A q \in Run : Evolves(q)
    BY <2>1 DEF Evolves, Fresh, Held
  <2>5. Told'
    BY <2>1 DEF Told
  <2>. QED  BY <2>2, <2>3, <2>4, <2>5 DEF Goal
<1>3. CASE StopOperator
  <2>1. Operator \in Process /\ Operator \notin Run
    BY RegistryAssumption DEF Process
  <2>. QED  BY <1>3, <2>1, PassMoves DEF StopOperator, NoPass, runVars, osVars, Shape
<1>4. CASE UNCHANGED vars
  BY <1>4 DEF vars, runVars, osVars, passVars, Shape, PidsHeld, Held, Early, Fresh, Evolves,
              Told, Goal
<1>. QED  BY <1>1, <1>2, <1>3, <1>4, RunStepBase, PassStepBase DEF Next

(* The status s of run r is an outcome it has. *)
Ended(r, s) == run[r].end = s \/ (run[r].failed /\ s = "bootstrap-failed")

(* What an entry read of run r says is so: the pid of its process, its     *)
(* start by a clock that has been stepped since at most, and its outcome.  *)
Faithful(r, e) ==
  /\ e \in Entry
  /\ Held(r) => /\ e.pid = run[r].pid
                /\ e.since \in started[run[r].pid] .. (started[run[r].pid] + skew)
  /\ e.status \in Terminal => Ended(r, e.status)

(* The file of a process that got to its end says how. *)
Final(r) ==
  /\ run[r].failed /\ run[r].at # "gone" =>
       /\ Readable(r) => entry[r].status = "bootstrap-failed"
       /\ pending[r] # None => pending[r].status = "bootstrap-failed"
  /\ run[r].at = "ended" =>
       /\ Readable(r) => entry[r].status = run[r].end
       /\ pending[r] # None => pending[r].status = run[r].end
  /\ run[r].code # None =>
       /\ run[r].at = "gone" /\ run[r].end \in Terminal /\ run[r].code = ExitCode(run[r].end)
       /\ Readable(r) => entry[r].status = run[r].end

FileFaithful(r) ==
  /\ Readable(r) => Faithful(r, entry[r])
  /\ pending[r] # None => Faithful(r, pending[r])

(* What pass p has read, judged and condemned.                             *)
SeenOf(p, r) == r \in DOMAIN pass[p].seen => ~Fresh(r) /\ Faithful(r, pass[p].seen[r])

JudgedOf(p, r) ==
  r \in DOMAIN pass[p].judged =>
    /\ ~Fresh(r)
    /\ pass[p].judged[r].status \in Status \cup {"crashed"}
    /\ pass[p].judged[r].status = "crashed" => ~Held(r)
    /\ pass[p].judged[r].status \in Terminal => Ended(r, pass[p].judged[r].status)
    /\ pass[p].judged[r].at \in Nat

DoomedOf(p, r) ==
  r \in DOMAIN pass[p].doomed => ~Fresh(r) /\ (Alive(r) => run[r].failed)

Careful(p) ==
  /\ pass[p].at \in Stages
  /\ pass[p].at = "reading" =>
       /\ DOMAIN pass[p] = {"at", "bounds", "names", "seen"}
       /\ pass[p].bounds \in Bounds /\ pass[p].names \subseteq Run
       /\ DOMAIN pass[p].seen \subseteq Run
       /\ \A r \in Run : SeenOf(p, r)
  /\ pass[p].at = "judging" =>
       /\ DOMAIN pass[p] = {"at", "bounds", "seen", "judged"}
       /\ pass[p].bounds \in Bounds
       /\ DOMAIN pass[p].seen \subseteq Run /\ DOMAIN pass[p].judged \subseteq DOMAIN pass[p].seen
       /\ \A r \in Run : SeenOf(p, r) /\ JudgedOf(p, r)
  /\ pass[p].at \in {"deleting", "files"} =>
       /\ DOMAIN pass[p] = {"at", "victim", "listed", "doomed", "spared"}
       /\ DOMAIN pass[p].doomed \subseteq Run
       /\ pass[p].at = "files" => pass[p].victim \in Run /\ ~Fresh(pass[p].victim)
       /\ \A r \in Run : DoomedOf(p, r)

IInv ==
  /\ Base
  /\ \A r \in Run : FileFaithful(r) /\ Final(r)
  /\ \A p \in Process : Careful(p)


LEMMA InitIInv == Init => IInv
<1>. SUFFICES ASSUME Init PROVE IInv
  OBVIOUS
<1>1. PICK h \in History :
        /\ run = [r \in Run |-> IF r \in Past
                                THEN [NoRun EXCEPT !.at = "gone", !.end = h[r].end,
                                                   !.segment = h[r].segment]
                                ELSE NoRun]
        /\ entry = [r \in Run |-> IF r \in Past THEN h[r].entry ELSE None]
  BY DEF Init
<1>2. \A r \in Run : /\ ~Held(r) /\ ~run[r].failed /\ run[r].code = None /\ pending[r] = None
                     /\ run[r].at \in {"absent", "gone"}
  BY <1>1 DEF NoRun, Held, Init
<1>3. \A p \in Process : pass[p].at = "off"
  BY DEF Init, NoPass
<1>4. ASSUME NEW r \in Run, Readable(r) PROVE Faithful(r, entry[r])
  <2>1. r \in Past /\ entry[r] = h[r].entry /\ run[r].end = h[r].end
    BY <1>1, <1>4 DEF Readable, NoRun
  <2>2. entry[r] \in Entry /\ (entry[r].status \in Terminal => entry[r].status = run[r].end)
    BY <1>4, <2>1, RegistryAssumption DEF Readable
  <2>. QED  BY <1>2, <2>2 DEF Faithful, Ended
<1>5. \A r \in Run : FileFaithful(r) /\ Final(r)
  BY <1>2, <1>4 DEF FileFaithful, Final
<1>. QED  BY <1>3, <1>5, BaseInit DEF IInv, Careful, Stages

(* What is known of a run stays so: the clock is only stepped forward, and *)
(* the run stays itself.                                                   *)
LEMMA StillEnded ==
  ASSUME Base, Goal, NEW r \in Run, NEW s \in Terminal, Ended(r, s)
  PROVE  run'[r].end = s \/ (run'[r].failed /\ s = "bootstrap-failed")
BY RegistryAssumption DEF Goal, Evolves, Ended

LEMMA StillAlive ==
  ASSUME Base, Goal, NEW r \in Run, Alive(r)', ~Fresh(r)
  PROVE  Alive(r)
<1>1. Held(r)
  BY DEF Goal, Evolves, Held, Alive
<1>2. run[r].end = None
  BY DEF Goal, Evolves, Base, Told, Alive
<1>3. run[r].at \in Places /\ run[r].at # "ended"
  BY <1>2 DEF Base, Told, Shape
<1>. QED  BY <1>1, <1>3 DEF Alive, Held, Places

LEMMA StillFaithful ==
  ASSUME Base, Goal, NEW r \in Run, NEW e, ~Fresh(r), Faithful(r, e)
  PROVE  /\ e \in Entry
         /\ Held(r)' => /\ e.pid = run'[r].pid
                        /\ e.since \in started'[run'[r].pid] .. (started'[run'[r].pid] + skew')
         /\ e.status \in Terminal =>
              run'[r].end = e.status \/ (run'[r].failed /\ e.status = "bootstrap-failed")
<1>1. ASSUME Held(r)'
      PROVE  /\ e.pid = run'[r].pid
             /\ e.since \in started'[run'[r].pid] .. (started'[run'[r].pid] + skew')
  <2>1. /\ Held(r) /\ run'[r].pid = run[r].pid
        /\ started'[run'[r].pid] = started[run[r].pid]
    BY <1>1 DEF Goal, Evolves
  <2>2. started[run[r].pid] \in Nat /\ skew \in Nat /\ skew' \in Nat /\ skew' >= skew
    BY <2>1, RegistryAssumption DEF Base, Shape, PidsHeld, Goal
  <2>. QED  BY <2>1, <2>2 DEF Faithful
<1>. QED  BY <1>1, StillEnded DEF Faithful

(* A file that is not rewritten, is removed, or is left torn.              *)
LEMMA FileKept ==
  ASSUME Base, Goal, NEW r \in Run, FileFaithful(r),
         entry'[r] \in {entry[r], None, Torn}, pending'[r] \in {pending[r], None}
  PROVE  FileFaithful(r)'
<1>1. ASSUME Readable(r)' PROVE Faithful(r, entry[r])'
  <2>1. entry'[r] = entry[r] /\ Readable(r) /\ Faithful(r, entry[r])
    BY <1>1 DEF Readable, FileFaithful
  <2>2. ~Fresh(r)
    BY <2>1 DEF Readable, Base, Early
  <2>. QED  BY <2>1, <2>2, StillFaithful DEF Faithful, Ended
<1>2. ASSUME pending'[r] # None PROVE Faithful(r, pending[r])'
  <2>1. pending'[r] = pending[r] /\ Faithful(r, pending[r])
    BY <1>2 DEF FileFaithful
  <2>2. ~Fresh(r)
    BY <1>2, <2>1 DEF Base, Early
  <2>. QED  BY <2>1, <2>2, StillFaithful DEF Faithful, Ended
<1>. QED  BY <1>1, <1>2 DEF FileFaithful

(* A file that is rewritten with another status, which is true.            *)
LEMMA FileRewritten ==
  ASSUME Base, Goal, NEW r \in Run, FileFaithful(r), ~Fresh(r), NEW status \in Status,
         status \in Terminal =>
           run'[r].end = status \/ (run'[r].failed /\ status = "bootstrap-failed"),
         pending[r] = None, Rewrite(r, status)
  PROVE  FileFaithful(r)'
<1>1. CASE ~Readable(r)
  BY <1>1, FileKept DEF Rewrite
<1>2. CASE Readable(r)
  <2>1. /\ entry'[r] = Torn
        /\ pending'[r] = [entry[r] EXCEPT !.status = status]
    BY <1>2 DEF Rewrite, Write, Base, Shape
  <2>2. Faithful(r, entry[r]) /\ entry[r] \in Entry
    BY <1>2 DEF FileFaithful, Faithful
  <2>3. /\ pending'[r] \in Entry /\ pending'[r].status = status
        /\ pending'[r].pid = entry[r].pid /\ pending'[r].since = entry[r].since
    BY <2>1, <2>2 DEF Entry
  <2>4. Faithful(r, pending[r])'
    BY <2>2, <2>3, StillFaithful DEF Faithful, Ended
  <2>. QED  BY <2>1, <2>4 DEF FileFaithful, Readable
<1>. QED  BY <1>1, <1>2

(* What the file of an ended run says, while nothing is written over it.   *)
LEMMA FinalKept ==
  ASSUME Base, Goal, NEW r \in Run, Final(r),
         run'[r].failed = run[r].failed, run'[r].end = run[r].end, run'[r].code = run[r].code,
         run'[r].at = "ended" => run[r].at = "ended",
         run[r].at = "gone" => run'[r].at = "gone",
         run[r].failed /\ run'[r].at # "gone" => run[r].at # "gone",
         entry'[r] \in {entry[r], None, Torn}, pending'[r] \in {pending[r], None}
  PROVE  Final(r)'
<1>1. Readable(r)' => Readable(r) /\ entry'[r] = entry[r]
  BY DEF Readable
<1>. QED  BY <1>1 DEF Final

LEMMA RunStepFiles ==
  ASSUME IInv, NEW r \in Run, RunStep(r)
  PROVE  \A q \in Run : FileFaithful(q)'
<1>0. Base /\ Goal /\ \A q \in Run : FileFaithful(q)
  BY RunStepBase DEF IInv
<1>1. /\ DOMAIN run = Run /\ DOMAIN entry = Run /\ DOMAIN pending = Run
      /\ run[r].failed \in BOOLEAN
      /\ DOMAIN run[r] = {"at", "pid", "segment", "failed", "end", "code"}
  BY <1>0 DEF Base, Shape
<1>2. ASSUME \A q \in Run : entry'[q] = entry[q] /\ pending'[q] \in {pending[q], None}
      PROVE  \A q \in Run : FileFaithful(q)'
  BY <1>0, <1>2, FileKept
<1>3. ASSUME NEW status \in Status,
             status \in Terminal =>
               run'[r].end = status \/ (run'[r].failed /\ status = "bootstrap-failed"),
             pending[r] = None, ~Fresh(r), Rewrite(r, status)
      PROVE  \A q \in Run : FileFaithful(q)'
  <2>1. FileFaithful(r)'
    BY <1>0, <1>3, FileRewritten
  <2>2. \A q \in Run \ {r} : entry'[q] = entry[q] /\ pending'[q] = pending[q]
    BY <1>1, <1>3 DEF Rewrite, Write
  <2>3. \A q \in Run \ {r} : FileFaithful(q)'
    BY <1>0, <2>2, FileKept
  <2>. QED  BY <2>1, <2>3
<1>4. CASE Start(r)
  BY <1>2, <1>4 DEF Start
<1>5. CASE WriteEntry(r)
  <2>. DEFINE e == [status |-> "bootstrapping", pid |-> run[r].pid,
                    since |-> started[run[r].pid] + skew, at |-> clock + skew]
  <2>1. CASE UNCHANGED <<entry, pending>>
    BY <1>2, <2>1
  <2>2. CASE Write(r, e)
    <3>1. entry'[r] = Torn /\ pending'[r] = e
      BY <1>1, <2>2 DEF Write
    <3>2. \A q \in Run \ {r} : entry'[q] = entry[q] /\ pending'[q] = pending[q]
      BY <1>1, <2>2 DEF Write
    <3>3. \A q \in Run \ {r} : FileFaithful(q)'
      BY <1>0, <3>2, FileKept
    <3>4. /\ run'[r].pid = run[r].pid /\ started' = started /\ skew' = skew
          /\ skew \in Nat /\ started[run[r].pid] \in Nat
          /\ clock \in Nat /\ run[r].pid \in Pid
      BY <1>0, <1>1, <1>5, RegistryAssumption
      DEF WriteEntry, Moved, osVars, At, Base, PidsHeld, Held, Shape
    <3>5. e \in Entry /\ e.status \notin Terminal
      BY <3>4 DEF Entry, Status, Terminal
    <3>6. Faithful(r, pending[r])'
      BY <3>1, <3>4, <3>5 DEF Faithful
    <3>7. FileFaithful(r)'
      BY <3>1, <3>6 DEF FileFaithful, Readable
    <3>. QED  BY <3>3, <3>7
  <2>. QED  BY <1>5, <2>1, <2>2 DEF WriteEntry
<1>6. CASE FinishRewrite(r)
  <2>1. /\ entry'[r] \in {pending[r], entry[r]} /\ pending'[r] = None /\ pending[r] # None
        /\ \A q \in Run \ {r} : entry'[q] = entry[q] /\ pending'[q] = pending[q]
        /\ ~Fresh(r)
    BY <1>0, <1>1, <1>6 DEF FinishRewrite, Base, Early
  <2>2. \A q \in Run \ {r} : FileFaithful(q)'
    BY <1>0, <2>1, FileKept
  <2>3. CASE entry'[r] = entry[r]
    BY <1>0, <2>1, <2>2, <2>3, FileKept
  <2>4. CASE entry'[r] = pending[r]
    <3>1. Faithful(r, pending[r])
      BY <1>0, <2>1 DEF FileFaithful
    <3>2. Faithful(r, entry[r])'
      BY <1>0, <2>1, <2>4, <3>1, StillFaithful DEF Faithful, Ended
    <3>. QED  BY <2>1, <2>2, <3>2 DEF FileFaithful
  <2>. QED  BY <2>1, <2>3, <2>4
<1>7. CASE RunStart(r)
  BY <1>3, <1>7 DEF RunStart, At, Fresh, Terminal, Status
<1>8. CASE BootstrapError(r)
  <2>1. run'[r].failed
    BY <1>1, <1>8 DEF BootstrapError
  <2>2. pending[r] = None /\ ~Fresh(r) /\ Rewrite(r, "bootstrap-failed")
    BY <1>8 DEF BootstrapError, At, Fresh
  <2>. QED  BY <1>3, <2>1, <2>2 DEF Terminal, Status
<1>9. CASE RunEnd(r)
  <2>1. CASE run[r].failed
    BY <1>2, <1>9, <2>1 DEF RunEnd
  <2>2. CASE ~run[r].failed
    <3>1. PICK outcome \in Outcome :
            /\ run' = [run EXCEPT ![r].at = "ended", ![r].end = outcome]
            /\ Rewrite(r, outcome) /\ pending[r] = None /\ ~Fresh(r)
      BY <1>9, <2>2 DEF RunEnd, At, Fresh
    <3>2. run'[r].end = outcome /\ outcome \in Status
      BY <1>1, <3>1, RegistryAssumption DEF Status, Terminal
    <3>. QED  BY <1>3, <3>1, <3>2
  <2>. QED  BY <2>1, <2>2
<1>10. CASE Conclude(r)
  BY <1>2, <1>10 DEF Conclude
<1>11. CASE Roll(r)
  BY <1>2, <1>11 DEF Roll
<1>12. CASE Exit(r)
  BY <1>2, <1>12 DEF Exit
<1>13. CASE Kill(r)
  BY <1>1, <1>2, <1>13 DEF Kill
<1>. QED
  BY <1>4, <1>5, <1>6, <1>7, <1>8, <1>9, <1>10, <1>11, <1>12, <1>13 DEF RunStep

LEMMA RunStepFinal ==
  ASSUME IInv, NEW r \in Run, RunStep(r)
  PROVE  \A q \in Run : Final(q)'
<1>0. Base /\ Base' /\ Goal /\ \A q \in Run : Final(q)
  BY RunStepBase DEF IInv, Goal
<1>1. /\ DOMAIN run = Run /\ DOMAIN entry = Run /\ DOMAIN pending = Run
      /\ run[r].failed \in BOOLEAN
      /\ DOMAIN run[r] = {"at", "pid", "segment", "failed", "end", "code"}
      /\ run[r].code # None => run[r].at = "gone"
  BY <1>0 DEF Base, Shape, Final
<1>2. /\ \A q \in Run \ {r} : run'[q] = run[q] /\ entry'[q] = entry[q] /\ pending'[q] = pending[q]
      /\ DOMAIN run' = Run
  BY <1>1 DEF RunStep, Start, WriteEntry, FinishRewrite, RunStart, BootstrapError, RunEnd, Conclude,
     Roll, Exit, Kill, Rewrite, Write, Moved
<1>. SUFFICES Final(r)'
  BY <1>0, <1>2, FinalKept
<1>3. ASSUME run'[r].code = run[r].code, run[r].at # "gone",
             run'[r].at # "ended", ~run'[r].failed
      PROVE  Final(r)'
  BY <1>1, <1>3 DEF Final
<1>4. ASSUME run'[r].code = run[r].code, run'[r].failed = run[r].failed,
             run'[r].end = run[r].end, run'[r].at = run[r].at,
             entry' = entry, pending' = pending
      PROVE  Final(r)'
  BY <1>0, <1>4, FinalKept
<1>5. CASE Start(r)
  BY <1>0, <1>1, <1>3, <1>5 DEF Start, Base, Early, Fresh
<1>6. CASE WriteEntry(r)
  BY <1>0, <1>1, <1>3, <1>6 DEF WriteEntry, At, Moved, Base, Early, Fresh
<1>7. CASE FinishRewrite(r)
  <2>1. /\ run' = run /\ pending[r] # None /\ pending'[r] = None /\ run[r].at # "gone"
        /\ entry'[r] = IF entry[r] = Torn THEN pending[r] ELSE entry[r]
        /\ entry[r] \in {None, Torn}
    BY <1>0, <1>1, <1>7 DEF FinishRewrite, Base, Told
  <2>2. Readable(r)' => entry'[r] = pending[r]
    BY <2>1, RegistryAssumption DEF Readable
  <2>. QED  BY <1>0, <1>1, <2>1, <2>2 DEF Final
<1>8. CASE RunStart(r)
  <2>1. /\ run[r].at = "bootstrapping" /\ ~run[r].failed
        /\ run' = [run EXCEPT ![r].at = "running", ![r].segment = Max({0, @})]
    BY <1>8 DEF RunStart, At
  <2>. QED  BY <1>1, <1>3, <2>1
<1>9. CASE BootstrapError(r)
  <2>1. /\ run[r].at \in {"bootstrapping", "running"} /\ pending[r] = None
        /\ run' = [run EXCEPT ![r].segment = Max({0, @}), ![r].failed = TRUE]
        /\ Rewrite(r, "bootstrap-failed")
    BY <1>9 DEF BootstrapError, At
  <2>2. run'[r].at = run[r].at /\ run'[r].code = run[r].code
    BY <1>1, <2>1
  <2>3. /\ Readable(r)' => entry'[r].status = "bootstrap-failed"
        /\ pending'[r] # None => pending'[r].status = "bootstrap-failed"
    <3>1. CASE Readable(r)
      <4>1. entry'[r] = Torn /\ pending'[r] = [entry[r] EXCEPT !.status = "bootstrap-failed"]
        BY <1>1, <2>1, <3>1 DEF Rewrite, Write
      <4>2. entry[r] \in Entry
        BY <1>0, <3>1 DEF Base, Shape, Readable
      <4>3. pending'[r].status = "bootstrap-failed"
        BY <4>1, <4>2 DEF Entry
      <4>. QED  BY <4>1, <4>3 DEF Readable
    <3>2. CASE ~Readable(r)
      BY <2>1, <3>2 DEF Rewrite, Readable
    <3>. QED  BY <3>1, <3>2
  <2>. QED  BY <1>1, <2>1, <2>2, <2>3 DEF Final
<1>10. CASE RunEnd(r)
  <2>1. PICK outcome \in IF run[r].failed THEN {"error"} ELSE Outcome :
          /\ run[r].at = "running" /\ pending[r] = None
          /\ run' = [run EXCEPT ![r].at = "ended",
                        ![r].end = IF run[r].failed THEN "bootstrap-failed" ELSE outcome]
          /\ IF run[r].failed THEN UNCHANGED <<entry, pending>> ELSE Rewrite(r, outcome)
    BY <1>10 DEF RunEnd, At
  <2>2. /\ run'[r].at = "ended" /\ run'[r].failed = run[r].failed /\ run'[r].code = run[r].code
        /\ run'[r].end = IF run[r].failed THEN "bootstrap-failed" ELSE outcome
    BY <1>1, <2>1
  <2>3. CASE run[r].failed
    <3>1. entry' = entry /\ pending' = pending
      BY <2>1, <2>3
    <3>. QED  BY <1>0, <1>1, <2>1, <2>2, <2>3, <3>1 DEF Final, Readable
  <2>4. CASE ~run[r].failed /\ Readable(r)
    <3>1. entry'[r] = Torn /\ pending'[r] = [entry[r] EXCEPT !.status = outcome]
      BY <1>1, <2>1, <2>4 DEF Rewrite, Write
    <3>2. entry[r] \in Entry
      BY <1>0, <2>4 DEF Base, Shape, Readable
    <3>3. pending'[r].status = outcome
      BY <3>1, <3>2 DEF Entry
    <3>. QED  BY <1>1, <2>1, <2>2, <2>4, <3>1, <3>3 DEF Final, Readable
  <2>5. CASE ~run[r].failed /\ ~Readable(r)
    <3>1. entry' = entry /\ pending' = pending
      BY <2>1, <2>5 DEF Rewrite
    <3>. QED  BY <1>1, <2>1, <2>2, <2>5, <3>1 DEF Final, Readable
  <2>. QED  BY <1>1, <2>3, <2>4, <2>5
<1>11. CASE Conclude(r)
  <2>1. /\ run[r].at = "bootstrapping" /\ pending[r] = None /\ run[r].failed
        /\ run' = [run EXCEPT ![r].at = "ended", ![r].end = "bootstrap-failed"]
        /\ entry' = entry /\ pending' = pending
    BY <1>11 DEF Conclude, At
  <2>2. /\ run'[r].at = "ended" /\ run'[r].failed = run[r].failed /\ run'[r].code = run[r].code
        /\ run'[r].end = "bootstrap-failed"
    BY <1>1, <2>1
  <2>. QED  BY <1>0, <1>1, <2>1, <2>2 DEF Final, Readable
<1>12. CASE Roll(r)
  <2>1. /\ run[r].at \in {"running", "ended"}
        /\ run' = [run EXCEPT ![r].segment = @ + 1]
        /\ entry' = entry /\ pending' = pending
    BY <1>12 DEF Roll, At
  <2>2. /\ run'[r].at = run[r].at /\ run'[r].failed = run[r].failed
        /\ run'[r].code = run[r].code /\ run'[r].end = run[r].end
    BY <1>1, <2>1
  <2>. QED  BY <1>4, <2>1, <2>2
<1>13. CASE Exit(r)
  <2>1. /\ run[r].at = "ended" /\ pending[r] = None
        /\ run' = [run EXCEPT ![r].at = "gone", ![r].pid = None, ![r].code = ExitCode(run[r].end)]
        /\ entry' = entry /\ pending' = pending
    BY <1>13 DEF Exit, At
  <2>2. /\ run'[r].at = "gone" /\ run'[r].code = ExitCode(run[r].end)
        /\ run'[r].end = run[r].end /\ run'[r].failed = run[r].failed
    BY <1>1, <2>1
  <2>3. run[r].end \in Terminal
    BY <1>0, <2>1 DEF Base, Told, Shape
  <2>4. Readable(r) => entry[r].status = run[r].end
    BY <1>0, <2>1 DEF Final
  <2>. QED  BY <2>1, <2>2, <2>3, <2>4 DEF Final, Readable
<1>14. CASE Kill(r)
  <2>1. /\ run[r].at # "gone"
        /\ run' = [run EXCEPT ![r].at = "gone", ![r].pid = None]
        /\ entry' = entry
    BY <1>14 DEF Kill
  <2>2. run'[r].at = "gone" /\ run'[r].code = None
    BY <1>1, <2>1
  <2>. QED  BY <2>2 DEF Final
<1>. QED
  BY <1>5, <1>6, <1>7, <1>8, <1>9, <1>10, <1>11, <1>12, <1>13, <1>14 DEF RunStep

(* A pass that does not move stays careful. *)
LEMMA PassKept ==
  ASSUME Base, Goal, NEW p \in Process, Careful(p), pass'[p] = pass[p]
  PROVE  Careful(p)'
<1>0. \A r \in Run : ~Fresh(r) => ~Fresh(r)'
  BY DEF Goal, Evolves
<1>1. ASSUME NEW r \in Run, SeenOf(p, r) PROVE SeenOf(p, r)'
  <2>1. CASE r \in DOMAIN pass[p].seen
    <3>1. ~Fresh(r) /\ Faithful(r, pass[p].seen[r])
      BY <1>1, <2>1 DEF SeenOf
    <3>2. Faithful(r, pass[p].seen[r])'
      BY <3>1, StillFaithful DEF Faithful, Ended
    <3>. QED  BY <1>0, <3>1, <3>2 DEF SeenOf
  <2>. QED  BY <2>1 DEF SeenOf
<1>2. ASSUME NEW r \in Run, JudgedOf(p, r) PROVE JudgedOf(p, r)'
  <2>1. CASE r \in DOMAIN pass[p].judged
    <3>. DEFINE s == pass[p].judged[r].status
    <3>1. /\ ~Fresh(r) /\ s \in Status \cup {"crashed"} /\ (s = "crashed" => ~Held(r))
          /\ (s \in Terminal => Ended(r, s)) /\ pass[p].judged[r].at \in Nat
      BY <1>2, <2>1 DEF JudgedOf
    <3>2. s = "crashed" => ~Held(r)'
      BY <3>1 DEF Goal, Evolves
    <3>3. s \in Terminal => run'[r].end = s \/ (run'[r].failed /\ s = "bootstrap-failed")
      BY <3>1, StillEnded
    <3>. QED  BY <1>0, <3>1, <3>2, <3>3 DEF JudgedOf, Ended
  <2>. QED  BY <2>1 DEF JudgedOf
<1>3. ASSUME NEW r \in Run, DoomedOf(p, r) PROVE DoomedOf(p, r)'
  <2>1. r \in DOMAIN pass[p].doomed => ~Fresh(r) /\ (Alive(r)' => Alive(r) /\ run[r].failed)
    BY <1>3, StillAlive DEF DoomedOf
  <2>2. run[r].failed => run'[r].failed
    BY DEF Goal, Evolves
  <2>. QED  BY <1>0, <2>1, <2>2 DEF DoomedOf
<1>. QED  BY <1>0, <1>1, <1>2, <1>3 DEF Careful

(* The pass of a run that takes a step of its own, or that is killed.      *)
LEMMA RunStepPasses ==
  ASSUME IInv, NEW r \in Run, RunStep(r)
  PROVE  \A p \in Process : Careful(p)'
<1>0. Base /\ Goal /\ DOMAIN pass = Process /\ \A p \in Process : Careful(p)
  BY RunStepBase DEF IInv, Base, Shape
<1>1. CASE pass' = pass
  BY <1>0, <1>1, PassKept
<1>2. CASE pass' = [pass EXCEPT ![r] = NoPass]
  <2>1. \A p \in Process \ {r} : Careful(p)'
    BY <1>0, <1>2, PassKept
  <2>2. pass'[r].at = "off"
    BY <1>0, <1>2 DEF NoPass, Process
  <2>. QED  BY <2>1, <2>2 DEF Careful, Stages
<1>. QED
  BY <1>1, <1>2 DEF RunStep, Start, WriteEntry, FinishRewrite, RunStart, BootstrapError, RunEnd,
     Conclude, Roll, Exit, Kill, Log, passVars

(* A process whose pid it is, started within the tolerance, is shown with  *)
(* the status its file says.                                               *)
LEMMA JudgedAlive ==
  ASSUME Base, NEW r \in Run, NEW e, Faithful(r, e)
  PROVE  /\ Classify(e) \in {e.status, "crashed"}
         /\ Held(r) => Classify(e) = e.status
<1>1. Classify(e) \in {e.status, "crashed"}
  BY DEF Classify
<1>2. ASSUME Held(r) PROVE Classify(e) = e.status
  <2>1. /\ run[r].pid \in Pid /\ started[run[r].pid] \in Nat
        /\ skew \in Nat /\ skew <= Tolerance /\ Tolerance \in Nat
    BY <1>2, RegistryAssumption DEF Base, Shape, PidsHeld
  <2>2. started[e.pid] # None /\ e.since \in started[e.pid] .. (started[e.pid] + skew)
    BY <1>2, <2>1, RegistryAssumption DEF Faithful
  <2>3. StartTimesMatch(e.since, started[e.pid] + skew)
    BY <1>2, <2>1, <2>2 DEF StartTimesMatch, Distance, Faithful
  <2>. QED  BY <2>2, <2>3 DEF Classify
<1>. QED  BY <1>1, <1>2

LEMMA PassStepCareful ==
  ASSUME IInv, NEW p \in Process, PassStep(p)
  PROVE  \A q \in Process : Careful(q)'
<1>0. /\ Base /\ Goal /\ DOMAIN pass = Process /\ Careful(p)
      /\ \A r \in Run : FileFaithful(r)
  BY PassStepBase DEF IInv, Base, Shape
<1>. SUFFICES Careful(p)'
  <2>1. \A q \in Process \ {p} : pass'[q] = pass[q]
    BY <1>0 DEF PassStep, Begin, ReadEntry, EndReading, Judge, Decide, DeleteEntry, ListFiles,
       RemoveFile, EndFiles, RemoveFails, EndPass
  <2>2. \A q \in Process \ {p} : Careful(q)'
    BY <1>0, <2>1, PassKept DEF IInv
  <2>. QED  BY <2>2
<1>1. ASSUME run' = run, started' = started, skew' = skew
      PROVE  \A r \in Run : /\ Fresh(r)' <=> Fresh(r)
                            /\ Alive(r)' <=> Alive(r)
                            /\ Held(r)' <=> Held(r)
                            /\ run'[r].failed = run[r].failed
                            /\ \A s : Ended(r, s)' <=> Ended(r, s)
                            /\ \A e : Faithful(r, e)' <=> Faithful(r, e)
  BY <1>1 DEF Fresh, Alive, Held, Ended, Faithful
<1>2. CASE Begin(p)
  <2>1. PICK bounds \in Bounds :
          pass'[p] = [at |-> "reading", bounds |-> bounds, names |-> {r \in Run : entry[r] # None},
                      seen |-> [r \in {} |-> None]]
    BY <1>0, <1>2 DEF Begin
  <2>. QED  BY <2>1 DEF Careful, SeenOf, Stages
<1>3. CASE ReadEntry(p)
  <2>1. PICK r \in pass[p].names :
          pass' = [pass EXCEPT ![p].names = @ \ {r},
                               ![p].seen = IF Readable(r) THEN With(@, r, entry[r]) ELSE @]
    BY <1>3 DEF ReadEntry
  <2>2. /\ DOMAIN pass[p] = {"at", "bounds", "names", "seen"} /\ pass[p].at = "reading"
        /\ pass[p].bounds \in Bounds /\ DOMAIN pass[p].seen \subseteq Run
        /\ pass[p].names \subseteq Run /\ \A q \in Run : SeenOf(p, q)
    BY <1>0, <1>3 DEF Careful, ReadEntry
  <2>3. /\ DOMAIN pass'[p] = {"at", "bounds", "names", "seen"} /\ pass'[p].at = "reading"
        /\ pass'[p].names \subseteq Run /\ pass'[p].bounds = pass[p].bounds
        /\ pass'[p].seen = IF Readable(r) THEN With(pass[p].seen, r, entry[r]) ELSE pass[p].seen
    BY <1>0, <2>1, <2>2
  <2>4. run' = run /\ started' = started /\ skew' = skew
    BY <1>3 DEF ReadEntry, runVars, osVars
  <2>5. Readable(r) => ~Fresh(r) /\ Faithful(r, entry[r])
    BY <1>0, <2>2 DEF Base, Early, Readable, FileFaithful
  <2>6. ASSUME NEW q \in Run, q \in DOMAIN pass'[p].seen
        PROVE  ~Fresh(q)' /\ Faithful(q, pass[p].seen[q])'
    <3>1. CASE Readable(r) /\ q = r
      <4>1. pass'[p].seen[q] = entry[r]
        BY <2>3, <3>1 DEF With
      <4>2. Faithful(r, entry[r])'
        <5>1. entry' = entry
          BY <1>3 DEF ReadEntry, runVars
        <5>. QED  BY <1>1, <2>4, <2>5, <3>1, <5>1 DEF Faithful, Held, Ended
      <4>. QED  BY <1>1, <2>4, <2>5, <3>1, <4>1, <4>2 DEF Faithful, Held, Ended
    <3>2. CASE ~(Readable(r) /\ q = r)
      <4>1. q \in DOMAIN pass[p].seen /\ pass'[p].seen[q] = pass[p].seen[q]
        BY <2>3, <2>6, <3>2 DEF With
      <4>2. ~Fresh(q) /\ Faithful(q, pass[p].seen[q])
        BY <2>2, <4>1 DEF SeenOf
      <4>. QED  BY <1>1, <2>4, <4>1, <4>2 DEF Faithful, Held, Ended
    <3>. QED  BY <3>1, <3>2
  <2>7. DOMAIN pass'[p].seen \subseteq Run
    BY <2>2, <2>3 DEF With
  <2>. QED  BY <2>2, <2>3, <2>6, <2>7 DEF Careful, SeenOf, Stages
<1>4. CASE EndReading(p)
  <2>1. pass'[p] = [at |-> "judging", bounds |-> pass[p].bounds, seen |-> pass[p].seen,
                    judged |-> [r \in {} |-> None]]
    BY <1>0, <1>4 DEF EndReading
  <2>2. run' = run /\ started' = started /\ skew' = skew
    BY <1>4 DEF EndReading, runVars, osVars
  <2>3. /\ pass[p].bounds \in Bounds /\ DOMAIN pass[p].seen \subseteq Run
        /\ \A r \in Run : SeenOf(p, r)
    BY <1>0, <1>4 DEF Careful, EndReading
  <2>4. \A r \in Run : SeenOf(p, r)'
    BY <1>1, <2>1, <2>2, <2>3 DEF SeenOf, Faithful, Held, Ended
  <2>. QED  BY <2>1, <2>3, <2>4 DEF Careful, JudgedOf, Stages
<1>5. ASSUME NEW r \in Run, Judge(p, r) PROVE Careful(p)'
  <2>. DEFINE verdict == [status |-> Classify(pass[p].seen[r]), at |-> pass[p].seen[r].at,
                          bytes |-> Cardinality(Segments(LogOf[r]))]
  <2>1. /\ DOMAIN pass[p] = {"at", "bounds", "seen", "judged"} /\ pass[p].at = "judging"
        /\ pass[p].bounds \in Bounds /\ DOMAIN pass[p].seen \subseteq Run
        /\ DOMAIN pass[p].judged \subseteq DOMAIN pass[p].seen
        /\ \A q \in Run : SeenOf(p, q) /\ JudgedOf(p, q)
    BY <1>0, <1>5 DEF Careful, Judge
  <2>2. pass' = [pass EXCEPT ![p].judged = With(@, r, verdict)]
    BY <1>5 DEF Judge
  <2>3. /\ DOMAIN pass'[p] = {"at", "bounds", "seen", "judged"} /\ pass'[p].at = "judging"
        /\ pass'[p].judged = With(pass[p].judged, r, verdict) /\ pass'[p].seen = pass[p].seen
        /\ pass'[p].bounds = pass[p].bounds
    BY <1>0, <2>1, <2>2
  <2>4. run' = run /\ started' = started /\ skew' = skew
    BY <1>5 DEF Judge, runVars, osVars
  <2>5. \A q \in Run : SeenOf(p, q)'
    BY <1>1, <2>1, <2>3, <2>4 DEF SeenOf, Faithful, Held, Ended
  <2>6. /\ r \in DOMAIN pass[p].seen /\ ~Fresh(r)
        /\ verdict.status \in Status \cup {"crashed"}
        /\ verdict.status = "crashed" => ~Held(r)
        /\ verdict.status \in Terminal => Ended(r, verdict.status)
        /\ verdict.at \in Nat
    <3>. DEFINE e == pass[p].seen[r]
    <3>1. r \in DOMAIN pass[p].seen
      BY <1>5 DEF Judge
    <3>2. Faithful(r, e) /\ ~Fresh(r)
      BY <2>1, <3>1 DEF SeenOf
    <3>3. e.status \in Status /\ e.at \in Nat /\ "crashed" \notin Status
      BY <3>2 DEF Faithful, Entry, Status, Terminal
    <3>4. /\ Classify(e) \in {e.status, "crashed"}
          /\ Held(r) => Classify(e) = e.status
      BY <1>0, <3>2, JudgedAlive
    <3>5. e.status \in Terminal => Ended(r, e.status)
      BY <3>2 DEF Faithful
    <3>. QED  BY <3>1, <3>2, <3>3, <3>4, <3>5 DEF Status
  <2>7. ASSUME NEW q \in Run PROVE JudgedOf(p, q)'
    <3>1. CASE q = r
      <4>1. pass'[p].judged[q] = verdict
        BY <2>3, <3>1 DEF With
      <4>. QED  BY <1>1, <2>4, <2>6, <3>1, <4>1 DEF JudgedOf, Ended, Held
    <3>2. CASE q # r
      <4>1. q \in DOMAIN pass'[p].judged =>
              q \in DOMAIN pass[p].judged /\ pass'[p].judged[q] = pass[p].judged[q]
        BY <2>3, <3>2 DEF With
      <4>. QED  BY <1>1, <2>1, <2>4, <4>1 DEF JudgedOf, Ended, Held
    <3>. QED  BY <3>1, <3>2
  <2>8. DOMAIN pass'[p].judged \subseteq DOMAIN pass'[p].seen
    BY <2>1, <2>3, <2>6 DEF With
  <2>. QED  BY <2>1, <2>3, <2>5, <2>7, <2>8 DEF Careful, Stages
<1>6. CASE Decide(p)
  <2>. DEFINE judged == pass[p].judged
              kept == Survivors(judged, pass[p].bounds)
  <2>1. /\ pass[p].at = "judging"
        /\ pass'[p] = [at |-> "deleting", victim |-> None, listed |-> None,
                       doomed |-> [r \in DOMAIN judged \ kept |-> judged[r]],
                       spared |-> UNION {Segments(LogOf[r]) : r \in kept}]
    BY <1>0, <1>6 DEF Decide, Judged
  <2>2. run' = run /\ started' = started /\ skew' = skew
    BY <1>6 DEF Decide, runVars, osVars
  <2>3. ASSUME NEW r \in Run PROVE DoomedOf(p, r)'
    <3>1. JudgedOf(p, r)
      BY <1>0, <2>1 DEF Careful
    <3>2. r \in DOMAIN pass'[p].doomed => r \in DOMAIN judged \ Live(judged)
      BY <2>1 DEF Survivors
    <3>3. ASSUME r \in DOMAIN pass'[p].doomed PROVE ~Fresh(r) /\ (Alive(r) => run[r].failed)
      <4>1. judged[r].status \in Terminal \cup {"crashed"} /\ ~Fresh(r)
        BY <3>1, <3>2, <3>3 DEF JudgedOf, Live, Status
      <4>2. /\ judged[r].status = "crashed" => ~Held(r)
            /\ judged[r].status \in Terminal => Ended(r, judged[r].status)
        BY <3>1, <3>2, <3>3 DEF JudgedOf
      <4>3. Alive(r) => Held(r) /\ run[r].end = None
        BY <1>0 DEF Alive, Held, Base, Told
      <4>. QED  BY <4>1, <4>2, <4>3, RegistryAssumption DEF Ended
    <3>. QED  BY <1>1, <2>2, <3>3 DEF DoomedOf
  <2>4. DOMAIN pass'[p].doomed \subseteq Run
    BY <1>0, <2>1 DEF Careful
  <2>. QED  BY <2>1, <2>3, <2>4 DEF Careful, Stages
<1>7. ASSUME NEW r \in Run, pass[p].at = "deleting", r \in DOMAIN pass[p].doomed, run' = run, started' = started, skew' = skew,
             \/ pass' = [pass EXCEPT ![p].at = "files", ![p].victim = r,
                                     ![p].doomed = Without(@, r)]
             \/ pass' = [pass EXCEPT ![p].doomed = Without(@, r)]
      PROVE  Careful(p)'
  <2>1. /\ DOMAIN pass[p] = {"at", "victim", "listed", "doomed", "spared"}
        /\ DOMAIN pass[p].doomed \subseteq Run /\ \A q \in Run : DoomedOf(p, q)
    BY <1>0, <1>7 DEF Careful
  <2>2. /\ DOMAIN pass'[p] = {"at", "victim", "listed", "doomed", "spared"}
        /\ pass'[p].doomed = Without(pass[p].doomed, r) /\ pass'[p].at \in {"deleting", "files"}
        /\ pass'[p].at = "files" => pass'[p].victim = r
    BY <1>0, <1>7, <2>1
  <2>3. \A q \in Run : DoomedOf(p, q)'
    BY <1>1, <1>7, <2>1, <2>2 DEF DoomedOf, Without
  <2>4. ~Fresh(r)' /\ DOMAIN pass'[p].doomed \subseteq Run
    BY <1>1, <1>7, <2>1, <2>2 DEF DoomedOf, Without
  <2>. QED  BY <2>2, <2>3, <2>4 DEF Careful, Stages
<1>8. ASSUME pass[p].at = "files", run' = run, started' = started, skew' = skew,
             NEW listed,
             \/ pass' = [pass EXCEPT ![p].listed = listed]
             \/ pass' = [pass EXCEPT ![p].at = "deleting", ![p].victim = None, ![p].listed = None]
      PROVE  Careful(p)'
  <2>1. /\ DOMAIN pass[p] = {"at", "victim", "listed", "doomed", "spared"}
        /\ pass[p].victim \in Run /\ ~Fresh(pass[p].victim)
        /\ DOMAIN pass[p].doomed \subseteq Run /\ \A q \in Run : DoomedOf(p, q)
    BY <1>0, <1>8 DEF Careful
  <2>2. /\ DOMAIN pass'[p] = {"at", "victim", "listed", "doomed", "spared"}
        /\ pass'[p].doomed = pass[p].doomed /\ pass'[p].at \in {"deleting", "files"}
        /\ pass'[p].at = "files" => pass'[p].victim = pass[p].victim
    BY <1>0, <1>8, <2>1
  <2>3. \A q \in Run : DoomedOf(p, q)'
    BY <1>1, <1>8, <2>1, <2>2 DEF DoomedOf
  <2>4. \A q \in Run : Fresh(q)' <=> Fresh(q)
    BY <1>8 DEF Fresh
  <2>. QED  BY <1>1, <1>8, <2>1, <2>2, <2>3, <2>4 DEF Careful, Stages, Fresh
<1>9. CASE DeleteEntry(p)
  BY <1>7, <1>9 DEF DeleteEntry, IsNext, osVars
<1>10. CASE ListFiles(p)
  BY <1>8, <1>10 DEF ListFiles, runVars, osVars
<1>11. CASE RemoveFile(p)
  <2>1. PICK f : pass' = [pass EXCEPT ![p].listed = @ \ {f}]
    BY <1>11 DEF RemoveFile
  <2>2. pass' = [pass EXCEPT ![p].listed = pass[p].listed \ {f}]
    BY <2>1
  <2>. QED  BY <1>8, <1>11, <2>2 DEF RemoveFile, runVars, osVars
<1>12. CASE EndFiles(p)
  BY <1>8, <1>12 DEF EndFiles, runVars, osVars
<1>13. CASE RemoveFails(p)
  BY <1>7, <1>8, <1>13 DEF RemoveFails, IsNext, runVars, osVars
<1>14. CASE EndPass(p)
  <2>1. pass'[p].at = "off"
    BY <1>0, <1>14 DEF EndPass, NoPass
  <2>. QED  BY <2>1 DEF Careful, Stages
<1>. QED
  BY <1>2, <1>3, <1>4, <1>5, <1>6, <1>9, <1>10, <1>11, <1>12, <1>13, <1>14 DEF PassStep

LEMMA NextIInv == IInv /\ [Next]_vars => IInv'
<1>. SUFFICES ASSUME IInv, [Next]_vars PROVE IInv'
  OBVIOUS
<1>0. Base /\ Goal /\ Base' /\ DOMAIN entry = Run /\ DOMAIN run = Run /\ DOMAIN pass = Process
  BY BaseStep DEF IInv, Goal, Base, Shape
<1>1. ASSUME \A r \in Run : /\ entry'[r] \in {entry[r], None, Torn}
                            /\ pending'[r] \in {pending[r], None}
                            /\ \/ run'[r] = run[r]
                               \/ run[r].at = "pruning" /\ run'[r] = [run[r] EXCEPT !.at = "entering"]
      PROVE  \A r \in Run : FileFaithful(r)' /\ Final(r)'
  <2>. SUFFICES ASSUME NEW r \in Run PROVE FileFaithful(r)' /\ Final(r)'
    OBVIOUS
  <2>1. FileFaithful(r) /\ Final(r)
        /\ DOMAIN run[r] = {"at", "pid", "segment", "failed", "end", "code"}
    BY <1>0 DEF IInv, Base, Shape
  <2>2. FileFaithful(r)'
    BY <1>0, <1>1, <2>1, FileKept
  <2>3. /\ run'[r].failed = run[r].failed /\ run'[r].end = run[r].end /\ run'[r].code = run[r].code
        /\ \/ run'[r].at = run[r].at
           \/ run[r].at = "pruning" /\ run'[r].at = "entering"
    BY <1>1, <2>1
  <2>4. Final(r)'
    BY <1>0, <1>1, <2>1, <2>3, FinalKept
  <2>. QED  BY <2>2, <2>4
<1>2. ASSUME NEW r \in Run, RunStep(r) PROVE IInv'
  BY <1>0, <1>2, RunStepFiles, RunStepFinal, RunStepPasses DEF IInv
<1>3. ASSUME NEW p \in Process, PassStep(p) PROVE IInv'
  <2>1. \A r \in Run : entry'[r] \in {entry[r], None} /\ pending'[r] = pending[r]
    BY <1>0, <1>3
    DEF PassStep, Begin, ReadEntry, EndReading, Judge, Decide, DeleteEntry, ListFiles,
        RemoveFile, EndFiles, RemoveFails, EndPass, runVars
  <2>2. \/ run' = run
        \/ p \in Run /\ run[p].at = "pruning" /\ run' = Moved(p, "entering")
    <3>1. CASE EndPass(p)
      <4>1. pass[p].at # "off"
        BY <3>1 DEF EndPass, Judged
      <4>2. p # Operator => p \in Run /\ run[p].at = "pruning"
        BY <1>0, <4>1 DEF Process, Base, Early
      <4>. QED  BY <3>1, <4>2 DEF EndPass
    <3>2. CASE ~EndPass(p)
      BY <1>3, <3>2 DEF PassStep, Begin, ReadEntry, EndReading, Judge, Decide, DeleteEntry,
         ListFiles, RemoveFile, EndFiles, RemoveFails, runVars
    <3>. QED  BY <3>1, <3>2
  <2>3. \A r \in Run : FileFaithful(r)' /\ Final(r)'
    BY <1>0, <1>1, <2>1, <2>2 DEF Moved
  <2>. QED  BY <1>0, <1>3, <2>3, PassStepCareful DEF IInv
<1>4. ASSUME run' = run, entry' = entry, pending' = pending, pass' = pass PROVE IInv'
  BY <1>0, <1>1, <1>4, PassKept DEF IInv
<1>5. CASE StopOperator
  <2>1. /\ pass' = [pass EXCEPT ![Operator] = NoPass]
        /\ entry' = entry /\ pending' = pending /\ run' = run
    BY <1>5 DEF StopOperator, runVars
  <2>2. \A p \in Process \ {Operator} : Careful(p)'
    BY <1>0, <2>1, PassKept DEF IInv
  <2>3. Careful(Operator)'
    BY <1>0, <2>1 DEF Careful, NoPass, Stages, Process
  <2>. QED  BY <1>0, <1>1, <2>1, <2>2, <2>3 DEF IInv
<1>6. CASE ClockStep
  BY <1>4, <1>6 DEF ClockStep, runVars, passVars
<1>7. ASSUME NEW i \in Pid, Recycle(i) PROVE IInv'
  BY <1>4, <1>7 DEF Recycle, runVars, passVars
<1>8. CASE UNCHANGED vars
  BY <1>4, <1>8 DEF vars, runVars, passVars
<1>. QED  BY <1>2, <1>3, <1>5, <1>6, <1>7, <1>8 DEF Next

(* Only a removal takes a file away, and it takes that of a condemned run. *)
LEMMA KeepsLiveRuns ==
  ASSUME IInv, [Next]_vars, NEW r \in Run, Alive(r), ~run[r].failed, entry[r] # None
  PROVE  entry'[r] # None
<1>0. DOMAIN entry = Run /\ Torn # None
  BY RegistryAssumption DEF IInv, Base, Shape
<1>1. ASSUME NEW q \in Run, RunStep(q) PROVE entry'[r] # None
  BY <1>0, <1>1
  DEF RunStep, Start, WriteEntry, FinishRewrite, RunStart, BootstrapError, RunEnd, Conclude, Roll,
      Exit, Kill, Rewrite, Write
<1>2. ASSUME NEW p \in Process, PassStep(p) PROVE entry'[r] # None
  <2>1. CASE DeleteEntry(p)
    <3>1. PICK q \in Run : q \in DOMAIN pass[p].doomed /\ entry' = [entry EXCEPT ![q] = None]
      BY <2>1 DEF DeleteEntry, IsNext
    <3>2. Alive(q) => run[q].failed
      BY <2>1, <3>1 DEF IInv, Careful, DoomedOf, DeleteEntry
    <3>. QED  BY <1>0, <3>1, <3>2
  <2>2. CASE ~DeleteEntry(p)
    BY <1>2, <2>2 DEF PassStep, Begin, ReadEntry, EndReading, Judge, Decide, ListFiles,
       RemoveFile, EndFiles, RemoveFails, EndPass, runVars
  <2>. QED  BY <2>1, <2>2
<1>. QED
  BY <1>1, <1>2 DEF Next, Recycle, ClockStep, StopOperator, vars, runVars

(* "Pruning MUST NOT remove an entry whose run is still alive": for any    *)
(* runs, pids, bounds, and passes at the same time, while the clock is not *)
(* stepped by more than the tolerance, no step takes the file of a run     *)
(* whose process is there and that has not failed its bootstrap.           *)
THEOREM PruningKeepsLiveRuns == Spec => LiveRunsKept
<1>1. IInv /\ [Next]_vars =>
        [\A r \in Run : Alive(r) /\ ~run[r].failed /\ entry[r] # None => entry'[r] # None]_vars
  BY KeepsLiveRuns
<1>. QED  BY <1>1, InitIInv, NextIInv, PTL DEF Spec, LiveRunsKept

(* What runs list shows is so, for any runs and however long ago it read   *)
(* their files: a run shown as crashed is gone, one shown with an outcome  *)
(* has it, a file that does not parse is being rewritten or was abandoned, *)
(* and that of a process that exited by itself agrees with its exit code.  *)
THEOREM WhatIsShownIsSo == Spec => []DisplayHonest
<1>1. IInv => DisplayHonest
  <2>. SUFFICES ASSUME IInv PROVE DisplayHonest
    OBVIOUS
  <2>1. \A r \in Run : entry[r] = Torn => pending[r] # None \/ run[r].at = "gone"
    BY DEF IInv, Base, Told
  <2>2. ASSUME NEW p \in Process, pass[p].at = "judging", NEW r \in DOMAIN pass[p].judged
        PROVE  LET shown == pass[p].judged[r].status
               IN /\ shown = "crashed" => run[r].at = "gone"
                  /\ shown \in Terminal => \/ run[r].end = shown
                                           \/ run[r].failed /\ shown = "bootstrap-failed"
    <3>1. r \in Run /\ JudgedOf(p, r)
      BY <2>2 DEF IInv, Careful
    <3>2. ~Fresh(r) /\ ~Held(r) => run[r].at = "gone"
      BY DEF Fresh, Held
    <3>. QED  BY <3>1, <3>2 DEF JudgedOf, Ended
  <2>3. \A r \in Run : Readable(r) /\ run[r].code # None =>
          entry[r].status \in Terminal /\ ExitCode(entry[r].status) = run[r].code
    BY DEF IInv, Final
  <2>. QED  BY <2>1, <2>2, <2>3 DEF DisplayHonest
<1>. QED  BY <1>1, InitIInv, NextIInv, PTL DEF Spec

-----------------------------------------------------------------------------
(* What a pass keeps, of any judged runs and under any bounds.             *)

(* A set of naturals that is not empty has a least element. *)
LEMMA LeastNat ==
  ASSUME NEW S \in SUBSET Nat, S # {}
  PROVE  \E n \in S : \A m \in S : n <= m
<1>1. PICK n \in S : \A m \in S : <<m, n>> \notin OpToRel(<, Nat)
  BY WFMin, NatLessThanWellFounded
<1>2. \A m \in S : ~(m < n)
  BY <1>1 DEF OpToRel
<1>. QED  BY <1>2

(* The judgements of a pass: of finitely many runs, each with its age. *)
Sized(judged) ==
  /\ DOMAIN judged \subseteq Nat /\ IsFiniteSet(DOMAIN judged)
  /\ \A r \in DOMAIN judged : judged[r].at \in Nat

(* Newer is a strict total order on the judged runs. *)
LEMMA NewerOrders ==
  ASSUME NEW judged, Sized(judged)
  PROVE  /\ \A q, r \in DOMAIN judged : q # r => Newer(judged, q, r) \/ Newer(judged, r, q)
         /\ \A q, r \in DOMAIN judged : Newer(judged, q, r) => ~Newer(judged, r, q) /\ q # r
         /\ \A q, r, s \in DOMAIN judged :
              Newer(judged, q, r) /\ Newer(judged, r, s) => Newer(judged, q, s)
BY DEF Newer, Sized

(* Of some judged runs, what is newer than a newer one is among what is    *)
(* newer than the older; there is a newest, and an oldest.                 *)
LEMMA UpToShrinks ==
  ASSUME NEW judged, Sized(judged), NEW S \in SUBSET DOMAIN judged,
         NEW q \in DOMAIN judged, NEW r \in S, Newer(judged, q, r)
  PROVE  /\ UpTo(judged, S, q) \subseteq UpTo(judged, S, r) \ {r}
         /\ IsFiniteSet(UpTo(judged, S, r)) /\ IsFiniteSet(UpTo(judged, S, q))
         /\ Cardinality(UpTo(judged, S, q)) \in Nat /\ Cardinality(UpTo(judged, S, r)) \in Nat
         /\ Cardinality(UpTo(judged, S, q)) < Cardinality(UpTo(judged, S, r))
<1>1. UpTo(judged, S, q) \subseteq UpTo(judged, S, r) \ {r}
  BY NewerOrders DEF UpTo
<1>2. IsFiniteSet(UpTo(judged, S, r)) /\ IsFiniteSet(UpTo(judged, S, q))
  <2>1. UpTo(judged, S, r) \in SUBSET DOMAIN judged /\ UpTo(judged, S, q) \in SUBSET DOMAIN judged
    BY DEF UpTo
  <2>. QED  BY <2>1, FS_Subset DEF Sized
<1>3. /\ Cardinality(UpTo(judged, S, q)) \in Nat /\ Cardinality(UpTo(judged, S, r)) \in Nat
      /\ Cardinality(UpTo(judged, S, q)) <= Cardinality(UpTo(judged, S, r))
      /\ Cardinality(UpTo(judged, S, r)) = Cardinality(UpTo(judged, S, q)) =>
           UpTo(judged, S, r) = UpTo(judged, S, q)
  BY <1>1, <1>2, FS_Subset, FS_CardinalityType
<1>4. r \in UpTo(judged, S, r)
  BY DEF UpTo
<1>. QED  BY <1>1, <1>2, <1>3, <1>4

LEMMA NewestAndOldest ==
  ASSUME NEW judged, Sized(judged), NEW S \in SUBSET DOMAIN judged, S # {}
  PROVE  /\ \E r \in S : UpTo(judged, S, r) = {r}
         /\ \E r \in S : UpTo(judged, S, r) = S
<1>. DEFINE count(r) == Cardinality(UpTo(judged, S, r))
            counts == {count(r) : r \in S}
            total == Cardinality(S)
            rests == {total - count(r) : r \in S}
<1>0. /\ IsFiniteSet(S) /\ total \in Nat
      /\ \A r \in S : /\ r \in UpTo(judged, S, r) /\ UpTo(judged, S, r) \in SUBSET S
                      /\ count(r) \in Nat /\ count(r) <= total
  <2>1. IsFiniteSet(S)
    BY FS_Subset DEF Sized
  <2>2. \A r \in S : r \in UpTo(judged, S, r) /\ UpTo(judged, S, r) \in SUBSET S
    BY DEF UpTo
  <2>3. total \in Nat
    BY <2>1, FS_CardinalityType
  <2>4. \A r \in S : count(r) \in Nat /\ count(r) <= total
    BY <2>1, <2>2, FS_Subset, FS_CardinalityType
  <2>. QED  BY <2>1, <2>2, <2>3, <2>4
<1>1. \E r \in S : UpTo(judged, S, r) = {r}
  <2>1. PICK n \in counts : \A m \in counts : n <= m
    <3>1. counts \in SUBSET Nat /\ counts # {}
      BY <1>0
    <3>. QED  BY <3>1, LeastNat
  <2>2. PICK r \in S : n = count(r)
    BY <2>1
  <2>3. ASSUME NEW q \in UpTo(judged, S, r), q # r PROVE FALSE
    <3>1. q \in S /\ Newer(judged, q, r)
      BY <2>3 DEF UpTo
    <3>2. count(q) < count(r)
      BY <3>1, UpToShrinks
    <3>3. count(r) <= count(q)
      BY <2>1, <2>2, <3>1
    <3>. QED  BY <1>0, <3>1, <3>2, <3>3
  <2>. QED  BY <1>0, <2>2, <2>3
<1>2. \E r \in S : UpTo(judged, S, r) = S
  <2>1. PICK n \in rests : \A m \in rests : n <= m
    <3>1. rests \in SUBSET Nat /\ rests # {}
      BY <1>0
    <3>. QED  BY <3>1, LeastNat
  <2>2. PICK r \in S : n = total - count(r)
    BY <2>1
  <2>3. ASSUME NEW q \in S, q \notin UpTo(judged, S, r) PROVE FALSE
    <3>1. Newer(judged, r, q)
      BY <1>0, <2>3, NewerOrders DEF UpTo
    <3>2. count(r) < count(q)
      BY <3>1, UpToShrinks
    <3>3. total - count(r) <= total - count(q)
      BY <2>1, <2>2
    <3>. QED  BY <1>0, <3>2, <3>3
  <2>. QED  BY <1>0, <2>3
<1>. QED  BY <1>1, <1>2

(* What survives the three bounds together, and the live runs with it.     *)
LEMMA Retained ==
  ASSUME NEW judged, Sized(judged), NEW b \in Bounds
  PROVE  LET kept == Survivors(judged, b)
             finished == kept \ Live(judged)
         IN /\ Live(judged) \subseteq kept
            /\ b.since # None => \A r \in finished : judged[r].at >= b.since
            /\ b.keep # None => Cardinality(finished) <= b.keep
            /\ b.bytes # None => \/ finished = {}
                                 \/ Bytes(judged, kept) <= b.bytes
                                 \/ Cardinality(kept) = 1
            /\ \A r \in finished, q \in DOMAIN judged : Newer(judged, q, r) => q \in kept
            /\ b.since = None /\ b.keep # 0 => kept # {} \/ DOMAIN judged = {}
<1>. DEFINE live == Live(judged)
            recent == WithinAge(judged, b)
            counted == WithinCount(judged, b)
            within == WithinBytes(judged, b)
            kept == Survivors(judged, b)
            finished == kept \ live
            last == counted \ live
            fits(r) == \/ Bytes(judged, live \cup UpTo(judged, last, r)) <= b.bytes
                       \/ live = {} /\ UpTo(judged, last, r) = {r}
<1>0. /\ b.keep \in Nat \cup {None} /\ b.since \in Nat \cup {None} /\ b.bytes \in Nat \cup {None}
      /\ None \notin Nat
  BY RegistryAssumption
<1>1. /\ recent \subseteq DOMAIN judged
      /\ \A r \in DOMAIN judged : r \in recent <=> (b.since # None => judged[r].at >= b.since)
      /\ counted \subseteq recent
      /\ \A r \in recent : r \in counted <=>
           (b.keep # None => Cardinality(UpTo(judged, recent, r)) <= b.keep)
      /\ live \subseteq DOMAIN judged
  BY DEF WithinAge, WithinCount, Live
<1>2. /\ b.bytes = None => within = counted
      /\ b.bytes # None => within = {r \in last : \A q \in UpTo(judged, last, r) : fits(q)}
      /\ kept = within \cup live
  BY DEF WithinBytes, Survivors
<1>. HIDE DEF fits
<1>. HIDE DEF live, recent, counted, within, kept
<1>3. finished \subseteq last /\ last \subseteq DOMAIN judged /\ finished \subseteq DOMAIN judged
  BY <1>1, <1>2
<1>4. \A r \in finished : b.since # None => judged[r].at >= b.since
  BY <1>1, <1>3
<1>5. ASSUME b.keep # None PROVE Cardinality(finished) <= b.keep
  <2>1. CASE finished = {}
    BY <1>0, <1>5, <2>1, FS_EmptySet
  <2>2. CASE finished # {}
    <3>1. PICK r \in finished : UpTo(judged, finished, r) = finished
      BY <1>3, <2>2, NewestAndOldest
    <3>2. finished \subseteq UpTo(judged, recent, r) /\ UpTo(judged, recent, r) \subseteq recent
      BY <1>1, <1>3, <3>1 DEF UpTo
    <3>3. IsFiniteSet(UpTo(judged, recent, r))
      BY <1>1, <3>2, FS_Subset DEF Sized
    <3>4. /\ Cardinality(finished) <= Cardinality(UpTo(judged, recent, r))
          /\ Cardinality(finished) \in Nat /\ Cardinality(UpTo(judged, recent, r)) \in Nat
      BY <3>2, <3>3, FS_Subset, FS_CardinalityType
    <3>5. Cardinality(UpTo(judged, recent, r)) <= b.keep
      BY <1>1, <1>3, <1>5
    <3>. QED  BY <1>0, <1>5, <3>4, <3>5
  <2>. QED  BY <2>1, <2>2
<1>6. ASSUME b.bytes # None, finished # {}
      PROVE  Bytes(judged, kept) <= b.bytes \/ Cardinality(kept) = 1
  <2>1. PICK r \in finished : UpTo(judged, finished, r) = finished
    BY <1>3, <1>6, NewestAndOldest
  <2>2. r \in last /\ \A q \in UpTo(judged, last, r) : fits(q)
    BY <1>2, <1>6, <2>1
  <2>3. UpTo(judged, last, r) = finished
    <3>1. finished \subseteq UpTo(judged, last, r)
      BY <1>3, <2>1 DEF UpTo
    <3>2. ASSUME NEW q \in UpTo(judged, last, r) PROVE q \in finished
      <4>1. q \in last /\ (q = r \/ Newer(judged, q, r))
        BY DEF UpTo
      <4>2. \A s \in UpTo(judged, last, q) : fits(s)
        BY <1>3, <2>2, <4>1, UpToShrinks
      <4>. QED  BY <1>2, <1>6, <4>1, <4>2
    <3>. QED  BY <3>1, <3>2
  <2>4. fits(r)
    BY <2>2 DEF UpTo
  <2>5. live \cup UpTo(judged, last, r) = kept
    BY <1>2, <2>3
  <2>6. Bytes(judged, kept) <= b.bytes \/ (live = {} /\ UpTo(judged, last, r) = {r})
    BY <2>4, <2>5 DEF fits
  <2>7. live = {} /\ UpTo(judged, last, r) = {r} => Cardinality(kept) = 1
    BY <2>5, FS_Singleton
  <2>. QED  BY <2>6, <2>7
<1>7. ASSUME NEW r \in finished, NEW q \in DOMAIN judged, Newer(judged, q, r)
      PROVE  q \in kept
  <2>1. CASE q \in live
    BY <1>2, <2>1
  <2>2. CASE q \notin live
    <3>1. r \in DOMAIN judged /\ r \in recent /\ r \in counted
      BY <1>1, <1>3
    <3>2. judged[q].at >= judged[r].at /\ judged[q].at \in Nat /\ judged[r].at \in Nat
      BY <1>7, <3>1 DEF Newer, Sized
    <3>3. q \in recent
      BY <1>0, <1>1, <3>1, <3>2
    <3>4. q \in counted
      <4>1. /\ Cardinality(UpTo(judged, recent, q)) \in Nat
            /\ Cardinality(UpTo(judged, recent, r)) \in Nat
            /\ Cardinality(UpTo(judged, recent, q)) < Cardinality(UpTo(judged, recent, r))
        BY <1>1, <1>7, <3>1, UpToShrinks
      <4>. QED  BY <1>0, <1>1, <3>1, <3>3, <4>1
    <3>5. CASE b.bytes = None
      BY <1>2, <3>4, <3>5
    <3>6. CASE b.bytes # None
      <4>1. q \in last /\ r \in last
        BY <1>3, <2>2, <3>4
      <4>2. \A s \in UpTo(judged, last, r) : fits(s)
        BY <1>2, <3>6
      <4>3. UpTo(judged, last, q) \subseteq UpTo(judged, last, r)
        BY <1>3, <1>7, <4>1, UpToShrinks
      <4>. QED  BY <1>2, <3>6, <4>1, <4>2, <4>3
    <3>. QED  BY <3>5, <3>6
  <2>. QED  BY <2>1, <2>2
<1>8. ASSUME b.since = None, b.keep # 0, DOMAIN judged # {} PROVE kept # {}
  <2>1. CASE live # {}
    BY <1>2, <2>1
  <2>2. CASE live = {}
    <3>1. recent = DOMAIN judged
      BY <1>1, <1>8
    <3>2. PICK r \in recent : UpTo(judged, recent, r) = {r}
      BY <1>8, <3>1, NewestAndOldest
    <3>3. r \in counted
      <4>1. Cardinality(UpTo(judged, recent, r)) = 1
        BY <3>2, FS_Singleton
      <4>2. b.keep # None => b.keep \in Nat /\ 1 <= b.keep
        BY <1>0, <1>8
      <4>. QED  BY <1>1, <4>1, <4>2
    <3>4. r \in last /\ UpTo(judged, last, r) = {r}
      BY <1>1, <2>2, <3>2, <3>3 DEF UpTo
    <3>5. fits(r)
      BY <2>2, <3>4 DEF fits
    <3>. QED  BY <1>2, <3>3, <3>4, <3>5
  <2>. QED  BY <2>1, <2>2
<1>. QED
  BY <1>2, <1>4, <1>5, <1>6, <1>7, <1>8 DEF live, kept

(* What a pass keeps is every live run and the newest of the others,       *)
(* within the three bounds together, for any runs judged in any order and  *)
(* any bounds.                                                             *)
THEOREM WhatAPassKeeps == Spec => []RetentionHonoured
<1>1. IInv => RetentionHonoured
  <2>. SUFFICES ASSUME IInv, NEW p \in Process, Judged(p)
                PROVE  LET judged == pass[p].judged
                           b == pass[p].bounds
                           kept == Survivors(judged, b)
                           finished == kept \ Live(judged)
                       IN /\ Live(judged) \subseteq kept
                          /\ b.since # None => \A r \in finished : judged[r].at >= b.since
                          /\ b.keep # None => Cardinality(finished) <= b.keep
                          /\ b.bytes # None => \/ finished = {}
                                               \/ Bytes(judged, kept) <= b.bytes
                                               \/ Cardinality(kept) = 1
                          /\ \A r \in finished, q \in DOMAIN judged :
                               Newer(judged, q, r) => q \in kept
                          /\ b.since = None /\ b.keep # 0 => kept # {} \/ DOMAIN judged = {}
    BY DEF RetentionHonoured
  <2>1. /\ pass[p].bounds \in Bounds /\ DOMAIN pass[p].judged \subseteq Run
        /\ \A r \in Run : JudgedOf(p, r)
    BY DEF Judged, IInv, Careful
  <2>2. Sized(pass[p].judged)
    <3>1. IsFiniteSet(DOMAIN pass[p].judged)
      BY <2>1, RegistryAssumption, FS_Subset
    <3>. QED  BY <2>1, <3>1, RegistryAssumption DEF Sized, JudgedOf
  <2>. QED  BY <2>1, <2>2, Retained
<1>. QED  BY <1>1, InitIInv, NextIInv, PTL DEF Spec

-----------------------------------------------------------------------------
(* Entries and log files.                                                  *)

(* The segments run r has written; a file is a segment of some run's log;  *)
(* and the runs of earlier days are gone.                                  *)
Written(r) == {<<LogOf[r], i>> : i \in 0 .. run[r].segment}

LogsTyped == \A f \in disk : \E r \in Run : f = <<LogOf[r], f[2]>> /\ f[2] \in Nat

PastGone == \A r \in Past : run[r].at = "gone"

(* What pass p removes: nothing of a run whose entry is there, nothing the *)
(* survivors point at, and, of a log that is the victim's own, all of it.  *)
Removing(p) ==
  /\ pass[p].at = "deleting" => pass[p].listed = None
  /\ pass[p].at \in {"deleting", "files"} =>
       \A r \in Run : Private(r) /\ (r \in DOMAIN pass[p].doomed \/ r = pass[p].victim) =>
         \A f \in pass[p].spared : f[1] # LogOf[r]
  /\ pass[p].at = "files" =>
       /\ entry[pass[p].victim] = None
       /\ pass[p].listed # None =>
            /\ \A f \in pass[p].listed :
                 /\ f = <<LogOf[pass[p].victim], f[2]>> /\ f[2] \in Nat
                 /\ f \notin pass[p].spared
            /\ Private(pass[p].victim) /\ pass[p].victim \notin stray =>
                 Written(pass[p].victim) \cap disk \subseteq pass[p].listed

(* A run no pass has condemned is among those pass p keeps.                *)
Sparing(p, r) ==
  Settled(r) /\ Readable(r) =>
    /\ pass[p].at = "reading" => r \in pass[p].names \cup DOMAIN pass[p].seen
    /\ pass[p].at = "judging" => r \in DOMAIN pass[p].seen
    /\ pass[p].at \in {"deleting", "files"} => Segments(LogOf[r]) \subseteq pass[p].spared

LogInv ==
  /\ LogsTyped /\ PastGone
  /\ \A p \in Process : Removing(p)
  /\ \A p \in Process, r \in Run : Sparing(p, r)
  /\ EntriesMatchLogs

LEMMA InitLogInv == Init => LogInv
<1>. SUFFICES ASSUME Init PROVE LogInv
  OBVIOUS
<1>1. PICK h \in History :
        /\ run = [r \in Run |-> IF r \in Past
                                THEN [NoRun EXCEPT !.at = "gone", !.end = h[r].end,
                                                   !.segment = h[r].segment]
                                ELSE NoRun]
        /\ entry = [r \in Run |-> IF r \in Past THEN h[r].entry ELSE None]
        /\ disk = UNION {{<<LogOf[r], i>> : i \in 0 .. h[r].segment} : r \in Past}
        /\ stray = {r \in Past : h[r].entry = None}
  BY DEF Init
<1>2. \A r \in Run : /\ run[r].at = IF r \in Past THEN "gone" ELSE "absent"
                     /\ r \in Past => run[r].segment = h[r].segment /\ h[r].segment \in Nat \cup {-1}
                     /\ r \notin Past => run[r].segment = -1 /\ entry[r] = None
  BY <1>1, RegistryAssumption DEF NoRun
<1>3. \A p \in Process : pass[p].at = "off"
  BY DEF Init, NoPass
<1>4. LogsTyped
  <2>1. ASSUME NEW f \in disk PROVE \E r \in Run : f = <<LogOf[r], f[2]>> /\ f[2] \in Nat
    <3>1. PICK r \in Past : f \in {<<LogOf[r], i>> : i \in 0 .. h[r].segment}
      BY <1>1
    <3>2. PICK i \in 0 .. h[r].segment : f = <<LogOf[r], i>>
      BY <3>1
    <3>3. r \in Run /\ i \in Nat
      BY <1>2, RegistryAssumption
    <3>. QED  BY <3>2, <3>3
  <2>. QED  BY <2>1 DEF LogsTyped
<1>5. PastGone
  BY <1>2, RegistryAssumption DEF PastGone
<1>6. \A r \in Run : /\ r \in Past => Written(r) \subseteq disk
                     /\ r \notin Past => Written(r) = {}
  <2>1. ASSUME NEW r \in Past PROVE Written(r) \subseteq disk
    <3>1. Written(r) = {<<LogOf[r], i>> : i \in 0 .. h[r].segment}
      BY <1>2, RegistryAssumption DEF Written
    <3>2. Written(r) \in {{<<LogOf[q], i>> : i \in 0 .. h[q].segment} : q \in Past}
      BY <3>1
    <3>. QED  BY <1>1, <3>2
  <2>2. ASSUME NEW r \in Run \ Past PROVE Written(r) = {}
    BY <1>2 DEF Written
  <2>. QED  BY <2>1, <2>2
<1>7. \A r \in Past : entry[r] = None => r \in stray
  BY <1>1, RegistryAssumption
<1>8. EntriesMatchLogs
  <2>1. ASSUME NEW r \in Run
        PROVE  /\ entry[r] # None => Written(r) \subseteq disk
               /\ entry[r] = None => Written(r) \cap disk = {} \/ r \in stray
    BY <1>2, <1>6, <1>7
  <2>. QED  BY <2>1 DEF EntriesMatchLogs, Written, Readable
<1>. QED  BY <1>3, <1>4, <1>5, <1>8 DEF LogInv, Removing, Sparing

(* The lowest segment a pass has listed is one of them. *)
LEMMA LowestListed ==
  ASSUME NEW S, S # {}, \A f \in S : f[2] \in Nat
  PROVE  (CHOOSE g \in S : \A h \in S : g[2] <= h[2]) \in S
<1>1. PICK n \in {f[2] : f \in S} : \A m \in {f[2] : f \in S} : n <= m
  <2>1. {f[2] : f \in S} \in SUBSET Nat /\ {f[2] : f \in S} # {}
    OBVIOUS
  <2>. QED  BY <2>1, LeastNat
<1>2. PICK g \in S : n = g[2]
  BY <1>1
<1>3. \A h \in S : g[2] <= h[2]
  BY <1>1, <1>2
<1>. QED  BY <1>3

(* How a step touches the logs: a run opens the segment after its last, a  *)
(* pass removes a file, or they stay as they are.                          *)
Opens(r, n) ==
  /\ n = run[r].segment + 1 /\ n \in Nat
  /\ run[r].at # "gone" /\ run'[r].segment = n
  /\ \A q \in Run \ {r} : run'[q].segment = run[q].segment
  /\ disk' = disk \cup {<<LogOf[r], n>>}
  /\ entry[r] = None => r \in stray'
  /\ \A q \in Run : entry'[q] = None <=> entry[q] = None

Leaves == \A q \in Run : run'[q].segment = run[q].segment

LEMMA LogSteps ==
  ASSUME IInv, [Next]_vars
  PROVE  /\ stray \subseteq stray' /\ condemned \subseteq condemned'
         /\ \/ \E r \in Run, n \in Nat : Opens(r, n)
            \/ Leaves /\ disk' = disk
            \/ Leaves /\ \E p \in Process : RemoveFile(p)
         /\ \A p \in Process :
              \/ pass'[p] = pass[p]
              \/ PassStep(p)
              \/ pass'[p] = NoPass /\ CutShort(p) \subseteq stray'
         /\ \A r \in Run : entry[r] # None /\ entry'[r] = None =>
              \E p \in Process : DeleteEntry(p) /\ pass'[p].victim = r
<1>0. /\ Base /\ DOMAIN run = Run /\ DOMAIN entry = Run /\ DOMAIN pass = Process /\ Torn # None
      /\ \A r \in Run : /\ DOMAIN run[r] = {"at", "pid", "segment", "failed", "end", "code"}
                        /\ run[r].segment \in Nat \cup {-1}
                        /\ pending[r] \in Entry \cup {None}
  BY RegistryAssumption DEF IInv, Base, Shape
<1>. DEFINE Kept == \A r \in Run : entry[r] # None => entry'[r] # None
            Apart(p) == \A q \in Process \ {p} : pass'[q] = pass[q]
<1>1. ASSUME NEW r \in Run, RunStep(r)
      PROVE  /\ stray \subseteq stray' /\ condemned' = condemned
             /\ (\E n \in Nat : Opens(r, n)) \/ (Leaves /\ disk' = disk)
             /\ pass' = pass \/ Kill(r)
             /\ Kept
  <2>1. ASSUME NEW n \in Nat, n \in {run[r].segment, run[r].segment + 1},
               run[r].at # "gone", run'[r].segment = n,
               \A q \in Run \ {r} : run'[q] = run[q], Log(r, n),
               \/ entry' = entry
               \/ entry' = [entry EXCEPT ![r] = Torn] /\ Readable(r)
        PROVE  /\ stray \subseteq stray' /\ condemned' = condemned
               /\ Opens(r, n) \/ (Leaves /\ disk' = disk)
               /\ pass' = pass /\ Kept
    <3>1. /\ \A q \in Run : entry'[q] = None <=> entry[q] = None
          /\ Kept
      BY <1>0, <2>1 DEF Readable
    <3>2. condemned' = condemned /\ pass' = pass
      BY <2>1 DEF Log
    <3>3. CASE n = run[r].segment
      <4>1. disk' = disk /\ stray' = stray
        BY <2>1, <3>3 DEF Log
      <4>2. Leaves
        BY <2>1, <3>3 DEF Leaves
      <4>. QED  BY <3>1, <3>2, <4>1, <4>2
    <3>4. CASE n # run[r].segment
      <4>1. /\ disk' = disk \cup {<<LogOf[r], n>>}
            /\ stray \subseteq stray' /\ (entry[r] = None => r \in stray')
        BY <2>1, <3>4 DEF Log
      <4>2. n = run[r].segment + 1
        BY <2>1, <3>4
      <4>. QED  BY <2>1, <3>1, <3>2, <4>1, <4>2 DEF Opens
    <3>. QED  BY <3>3, <3>4
  <2>2. ASSUME \A q \in Run : run'[q].segment = run[q].segment, disk' = disk,
               condemned' = condemned, stray \subseteq stray', pass' = pass, Kept
        PROVE  /\ stray \subseteq stray' /\ condemned' = condemned
               /\ (\E n \in Nat : Opens(r, n)) \/ (Leaves /\ disk' = disk)
               /\ pass' = pass \/ Kill(r)
               /\ Kept
    BY <2>2 DEF Leaves
  <2>3. Max({0, run[r].segment}) \in {run[r].segment, run[r].segment + 1}
        /\ Max({0, run[r].segment}) \in Nat
    BY <1>0, MaxSegmentNat
  <2>4. CASE Start(r)
    BY <1>0, <2>2, <2>4 DEF Start, passVars
  <2>5. CASE WriteEntry(r)
    BY <1>0, <2>2, <2>5 DEF WriteEntry, Moved, Write
  <2>6. CASE FinishRewrite(r)
    <3>1. Kept
      BY <1>0, <2>6 DEF FinishRewrite
    <3>. QED  BY <2>2, <2>6, <3>1 DEF FinishRewrite, passVars
  <2>7. CASE RunStart(r)
    <3>1. /\ run' = [run EXCEPT ![r].at = "running", ![r].segment = Max({0, @})]
          /\ run[r].at = "bootstrapping" /\ Log(r, Max({0, run[r].segment}))
          /\ entry' = entry \/ (entry' = [entry EXCEPT ![r] = Torn] /\ Readable(r))
      BY <2>7 DEF RunStart, At, Rewrite, Write
    <3>2. run'[r].segment = Max({0, run[r].segment}) /\ \A q \in Run \ {r} : run'[q] = run[q]
      BY <1>0, <3>1
    <3>. QED  BY <2>1, <2>3, <3>1, <3>2
  <2>8. CASE BootstrapError(r)
    <3>1. /\ run' = [run EXCEPT ![r].segment = Max({0, @}), ![r].failed = TRUE]
          /\ run[r].at # "gone" /\ Log(r, Max({0, run[r].segment}))
          /\ entry' = entry \/ (entry' = [entry EXCEPT ![r] = Torn] /\ Readable(r))
      BY <2>8 DEF BootstrapError, At, Rewrite, Write
    <3>2. run'[r].segment = Max({0, run[r].segment}) /\ \A q \in Run \ {r} : run'[q] = run[q]
      BY <1>0, <3>1
    <3>. QED  BY <2>1, <2>3, <3>1, <3>2
  <2>9. CASE RunEnd(r)
    <3>1. /\ \A q \in Run \ {r} : run'[q] = run[q]
          /\ run'[r].segment = run[r].segment
          /\ run[r].at = "running" /\ Log(r, run[r].segment)
          /\ entry' = entry \/ (entry' = [entry EXCEPT ![r] = Torn] /\ Readable(r))
      BY <1>0, <2>9 DEF RunEnd, At, Rewrite, Write
    <3>2. run[r].segment \in Nat /\ run[r].segment \in {run[r].segment, run[r].segment + 1}
      BY <1>0, <3>1 DEF Base, Told
    <3>. QED  BY <2>1, <3>1, <3>2
  <2>10. CASE Conclude(r)
    BY <1>0, <2>2, <2>10 DEF Conclude, passVars
  <2>11. CASE Roll(r)
    <3>1. /\ run' = [run EXCEPT ![r].segment = @ + 1]
          /\ run[r].at # "gone" /\ run[r].segment \in Nat /\ Log(r, run[r].segment + 1)
          /\ entry' = entry
      BY <1>0, <2>11 DEF Roll, At
    <3>2. run'[r].segment = run[r].segment + 1 /\ \A q \in Run \ {r} : run'[q] = run[q]
      BY <1>0, <3>1
    <3>. QED  BY <2>1, <3>1, <3>2
  <2>12. CASE Exit(r)
    BY <1>0, <2>2, <2>12 DEF Exit, passVars
  <2>13. CASE Kill(r)
    BY <1>0, <2>13 DEF Kill, Leaves
  <2>. QED
    BY <1>1, <2>4, <2>5, <2>6, <2>7, <2>8, <2>9, <2>10, <2>11, <2>12, <2>13 DEF RunStep
<1>2. ASSUME NEW p \in Process, PassStep(p)
      PROVE  /\ stray \subseteq stray' /\ condemned \subseteq condemned'
             /\ Leaves /\ (disk' = disk \/ RemoveFile(p))
             /\ Apart(p)
             /\ Kept \/ DeleteEntry(p)
  <2>1. Leaves
    <3>1. run' = run \/ run' = [run EXCEPT ![p].at = "entering"]
      BY <1>2
      DEF PassStep, Begin, ReadEntry, EndReading, Judge, Decide, DeleteEntry, ListFiles,
          RemoveFile, EndFiles, RemoveFails, EndPass, runVars, Moved
    <3>2. CASE run' = run
      BY <3>2 DEF Leaves
    <3>3. CASE run' = [run EXCEPT ![p].at = "entering"]
      BY <1>0, <3>3 DEF Leaves
    <3>. QED  BY <3>1, <3>2, <3>3
  <2>2. /\ stray \subseteq stray' /\ condemned \subseteq condemned'
        /\ disk' = disk \/ RemoveFile(p)
        /\ entry' = entry \/ DeleteEntry(p)
    BY <1>2
    DEF PassStep, Begin, ReadEntry, EndReading, Judge, Decide, DeleteEntry, ListFiles,
        RemoveFile, EndFiles, RemoveFails, EndPass, runVars
  <2>3. Apart(p)
    BY <1>0, <1>2
    DEF PassStep, Begin, ReadEntry, EndReading, Judge, Decide, DeleteEntry, ListFiles,
        RemoveFile, EndFiles, RemoveFails, EndPass
  <2>. QED  BY <2>1, <2>2, <2>3
<1>3. ASSUME NEW p \in Process, NEW r \in Run, DeleteEntry(p), entry[r] # None, entry'[r] = None
      PROVE  pass'[p].victim = r
  <2>1. PICK q \in Run : /\ entry' = [entry EXCEPT ![q] = None]
                         /\ pass' = [pass EXCEPT ![p].at = "files", ![p].victim = q,
                                                 ![p].doomed = Without(@, q)]
    BY <1>3 DEF DeleteEntry
  <2>2. q = r
    BY <1>0, <1>3, <2>1
  <2>3. DOMAIN pass[p] = {"at", "victim", "listed", "doomed", "spared"}
    BY <1>3 DEF DeleteEntry, IInv, Careful
  <2>. QED  BY <1>0, <2>1, <2>2, <2>3
<1>4. ASSUME NEW r \in Run, Kill(r) PROVE pass'[r] = NoPass /\ CutShort(r) \subseteq stray' /\ Apart(r)
  BY <1>0, <1>4 DEF Kill, Process
<1>5. CASE StopOperator
  <2>1. /\ Apart(Operator) /\ pass'[Operator] = NoPass /\ CutShort(Operator) \subseteq stray'
        /\ stray \subseteq stray' /\ condemned' = condemned /\ disk' = disk /\ Leaves /\ Kept
    BY <1>0, <1>5 DEF StopOperator, runVars, Leaves, Process
  <2>. QED  BY <2>1
<1>6. ASSUME pass' = pass, stray' = stray, condemned' = condemned, disk' = disk, run' = run, entry' = entry
      PROVE  /\ stray \subseteq stray' /\ condemned \subseteq condemned'
             /\ Leaves /\ disk' = disk /\ pass' = pass /\ Kept
  BY <1>6 DEF Leaves
<1>7. ASSUME NEW r \in Run, RunStep(r)
      PROVE  /\ stray \subseteq stray' /\ condemned \subseteq condemned'
             /\ \/ \E n \in Nat : Opens(r, n)
                \/ Leaves /\ disk' = disk
             /\ \A p \in Process : \/ pass'[p] = pass[p]
                                   \/ pass'[p] = NoPass /\ CutShort(p) \subseteq stray'
             /\ Kept
  BY <1>1, <1>4, <1>7
<1>8. CASE \E r \in Run : RunStep(r)
  BY <1>7, <1>8
<1>9. CASE \E p \in Process : PassStep(p)
  BY <1>2, <1>3, <1>9
<1>10. CASE (\E i \in Pid : Recycle(i)) \/ ClockStep \/ UNCHANGED vars
  <2>1. pass' = pass /\ stray' = stray /\ condemned' = condemned /\ disk' = disk /\ run' = run /\ entry' = entry
    BY <1>10 DEF Recycle, ClockStep, vars, runVars, passVars
  <2>. QED  BY <1>6, <2>1
<1>. QED  BY <1>5, <1>8, <1>9, <1>10 DEF Next


(* What a step leaves of the logs.  A file is added to the log of a run    *)
(* that is there, and removed from that of a run that has no entry.        *)
LEMMA LogsKept ==
  ASSUME IInv, LogInv, [Next]_vars
  PROVE  /\ stray \subseteq stray' /\ LogsTyped' /\ PastGone'
         /\ \A r \in Run : Settled(r)' /\ Readable(r)' =>
              /\ Settled(r) /\ Readable(r) /\ Written(r)' = Written(r)
              /\ Segments(LogOf[r])' \subseteq Segments(LogOf[r])
         /\ \A r \in Run : Private(r) /\ entry[r] = None /\ r \notin stray' =>
              Written(r)' \cap disk' \subseteq Written(r) \cap disk
         /\ \A r \in Run : entry[r] = None /\ ~Fresh(r) => entry'[r] = None
<1>0. /\ Base /\ Goal
      /\ stray \subseteq stray' /\ condemned \subseteq condemned'
      /\ \/ \E r \in Run, n \in Nat : Opens(r, n)
         \/ Leaves /\ disk' = disk
         \/ Leaves /\ \E p \in Process : RemoveFile(p)
  BY LogSteps, BaseStep DEF IInv
<1>1. \A r \in Run : entry[r] = None /\ ~Fresh(r) => entry'[r] = None
  BY <1>0 DEF Goal, Evolves
<1>2. PastGone'
  <2>1. \A r \in Past : r \in Run /\ run[r].at = "gone"
    BY RegistryAssumption DEF LogInv, PastGone
  <2>. QED  BY <1>0, <2>1 DEF Goal, Evolves, PastGone
<1>3. ASSUME NEW r \in Run, NEW n \in Nat, Opens(r, n)
      PROVE  LogsTyped'
  <2>1. disk' = disk \cup {<<LogOf[r], n>>}
    BY <1>3 DEF Opens
  <2>. QED  BY <2>1 DEF LogInv, LogsTyped
<1>4. ASSUME disk' \subseteq disk PROVE LogsTyped'
  BY <1>4 DEF LogInv, LogsTyped
<1>5. \/ \E r \in Run, n \in Nat : Opens(r, n)
      \/ Leaves /\ disk' \subseteq disk
  BY <1>0 DEF RemoveFile
<1>6. LogsTyped'
  BY <1>3, <1>4, <1>5
<1>7. ASSUME NEW r \in Run, Settled(r)', Readable(r)'
      PROVE  /\ Settled(r) /\ Readable(r) /\ Written(r)' = Written(r)
             /\ Segments(LogOf[r])' \subseteq Segments(LogOf[r])
  <2>1. Settled(r)
    BY <1>0, <1>7 DEF Settled
  <2>2. \A q \in Run : LogOf[q] = LogOf[r] => run[q].at = "gone"
    BY <2>1, RegistryAssumption DEF Settled, LogInv, PastGone
  <2>3. run'[r] = run[r] /\ entry'[r] \in {entry[r], None}
    BY <1>0, <2>2 DEF Goal, Evolves
  <2>4. Readable(r) /\ Written(r)' = Written(r)
    BY <1>7, <2>3 DEF Readable, Written
  <2>5. Segments(LogOf[r])' \subseteq Segments(LogOf[r])
    <3>1. CASE disk' \subseteq disk
      BY <3>1 DEF Segments
    <3>2. ASSUME NEW q \in Run, NEW n \in Nat, Opens(q, n)
          PROVE  Segments(LogOf[r])' \subseteq Segments(LogOf[r])
      <4>1. LogOf[q] # LogOf[r] /\ disk' = disk \cup {<<LogOf[q], n>>}
        BY <2>2, <3>2 DEF Opens
      <4>. QED  BY <4>1 DEF Segments
    <3>. QED  BY <1>5, <3>1, <3>2
  <2>. QED  BY <2>1, <2>4, <2>5
<1>8. ASSUME NEW r \in Run, Private(r), entry[r] = None, r \notin stray'
      PROVE  Written(r)' \cap disk' \subseteq Written(r) \cap disk
  <2>1. CASE Leaves /\ disk' \subseteq disk
    BY <2>1 DEF Leaves, Written
  <2>2. ASSUME NEW q \in Run, NEW n \in Nat, Opens(q, n)
        PROVE  Written(r)' \cap disk' \subseteq Written(r) \cap disk
    <3>1. q # r
      BY <1>8, <2>2 DEF Opens
    <3>2. /\ LogOf[q] # LogOf[r] /\ run'[r].segment = run[r].segment
          /\ disk' = disk \cup {<<LogOf[q], n>>}
      BY <1>8, <2>2, <3>1 DEF Private, Opens
    <3>. QED  BY <3>2 DEF Written
  <2>. QED  BY <1>5, <2>1, <2>2
<1>. QED  BY <1>0, <1>1, <1>2, <1>6, <1>7, <1>8

(* A pass that does not move, or stops, removes as it should. *)
LEMMA RemovingKept ==
  ASSUME IInv, LogInv, [Next]_vars, NEW p \in Process
  PROVE  Removing(p)'
<1>. USE DEF IInv
<1>0. /\ DOMAIN pass = Process /\ Removing(p) /\ Careful(p) /\ None \notin Run
      /\ \A r \in Run : Private(r)' <=> Private(r)
  BY RegistryAssumption DEF Base, Shape, LogInv, Private
<1>1. ASSUME NEW v \in Run, pass[p].at = "files", pass[p].victim = v
      PROVE  /\ entry'[v] = None
             /\ Private(v) /\ v \notin stray' =>
                  v \notin stray /\ Written(v)' \cap disk' \subseteq Written(v) \cap disk
  <2>1. entry[v] = None /\ ~Fresh(v)
    BY <1>0, <1>1 DEF Removing, Careful
  <2>2. stray \subseteq stray' /\ entry'[v] = None
    BY <1>1, <2>1, LogsKept
  <2>3. Private(v) /\ v \notin stray' => Written(v)' \cap disk' \subseteq Written(v) \cap disk
    BY <1>1, <2>1, LogsKept
  <2>. QED  BY <2>2, <2>3
<1>12. ASSUME NEW v \in Run, pass'[p].at = "files", pass'[p].victim = v,
              entry'[v] = None,
              \A r \in Run : Private(r) /\ (r \in DOMAIN pass'[p].doomed \/ r = v) =>
                \A f \in pass'[p].spared : f[1] # LogOf[r],
              pass'[p].listed # None =>
                /\ \A f \in pass'[p].listed : /\ f = <<LogOf[v], f[2]>> /\ f[2] \in Nat
                                              /\ f \notin pass'[p].spared
                /\ Private(v) /\ v \notin stray' => Written(v)' \cap disk' \subseteq pass'[p].listed
       PROVE  Removing(p)'
  BY <1>0, <1>12 DEF Removing, Written
<1>2. CASE pass'[p].at \notin {"deleting", "files"}
  BY <1>2 DEF Removing
<1>3. CASE pass'[p] = pass[p]
  <2>1. CASE pass[p].at = "files"
    <3>1. PICK v \in Run : v = pass[p].victim
      BY <1>0, <2>1 DEF Careful
    <3>2. entry'[v] = None
      BY <1>1, <2>1, <3>1
    <3>3. ASSUME pass[p].listed # None, Private(v), v \notin stray'
          PROVE  Written(v)' \cap disk' \subseteq pass[p].listed
      <4>1. v \notin stray /\ Written(v)' \cap disk' \subseteq Written(v) \cap disk
        BY <1>1, <2>1, <3>1, <3>3
      <4>2. Written(v) \cap disk \subseteq pass[p].listed
        BY <1>0, <2>1, <3>1, <3>3, <4>1 DEF Removing
      <4>. QED  BY <4>1, <4>2
    <3>4. /\ \A r \in Run : Private(r) /\ (r \in DOMAIN pass[p].doomed \/ r = v) =>
                \A f \in pass[p].spared : f[1] # LogOf[r]
          /\ pass[p].listed # None =>
                \A f \in pass[p].listed : /\ f = <<LogOf[v], f[2]>> /\ f[2] \in Nat
                                          /\ f \notin pass[p].spared
      BY <1>0, <2>1, <3>1 DEF Removing
    <3>. QED  BY <1>3, <1>12, <2>1, <3>1, <3>2, <3>3, <3>4
  <2>2. CASE pass[p].at # "files"
    BY <1>0, <1>3, <2>2 DEF Removing
  <2>. QED  BY <2>1, <2>2
<1>4. CASE Decide(p)
  <2>1. PICK kept : /\ kept = Survivors(pass[p].judged, pass[p].bounds)
                    /\ pass' = [pass EXCEPT ![p] =
                         [at |-> "deleting", victim |-> None, listed |-> None,
                          doomed |-> [r \in DOMAIN pass[p].judged \ kept |-> pass[p].judged[r]],
                          spared |-> UNION {Segments(LogOf[r]) : r \in kept}]]
    BY <1>4 DEF Decide
  <2>2. /\ pass'[p].at = "deleting" /\ pass'[p].victim = None /\ pass'[p].listed = None
        /\ DOMAIN pass'[p].doomed = DOMAIN pass[p].judged \ kept
        /\ pass'[p].spared = UNION {Segments(LogOf[r]) : r \in kept}
    BY <1>0, <2>1
  <2>3. kept \subseteq Run
    BY <1>0, <1>4, <2>1
    DEF Careful, Decide, Judged, Survivors, WithinBytes, WithinCount, WithinAge, Live
  <2>4. ASSUME NEW r \in Run, Private(r), r \in DOMAIN pass'[p].doomed, NEW f \in pass'[p].spared
        PROVE  f[1] # LogOf[r]
    <3>1. PICK q \in kept : f \in Segments(LogOf[q])
      BY <2>2
    <3>2. q # r /\ f[1] = LogOf[q]
      BY <2>2, <2>4, <3>1 DEF Segments
    <3>. QED  BY <2>3, <2>4, <3>2 DEF Private
  <2>. QED  BY <1>0, <2>2, <2>4 DEF Removing
<1>5. CASE DeleteEntry(p)
  <2>1. PICK r \in Run : /\ r \in DOMAIN pass[p].doomed
                         /\ entry' = [entry EXCEPT ![r] = None]
                         /\ pass' = [pass EXCEPT ![p].at = "files", ![p].victim = r,
                                                 ![p].doomed = Without(@, r)]
    BY <1>5 DEF DeleteEntry, IsNext
  <2>2. /\ DOMAIN pass[p] = {"at", "victim", "listed", "doomed", "spared"}
        /\ pass[p].listed = None /\ pass[p].at = "deleting"
    BY <1>0, <1>5 DEF Careful, DeleteEntry, Removing
  <2>3. /\ pass'[p].at = "files" /\ pass'[p].victim = r /\ pass'[p].listed = None
        /\ pass'[p].doomed = Without(pass[p].doomed, r) /\ pass'[p].spared = pass[p].spared
    BY <1>0, <2>1, <2>2
  <2>4. entry'[r] = None
    BY <2>1 DEF Base, Shape
  <2>5. DOMAIN pass'[p].doomed \subseteq DOMAIN pass[p].doomed
    BY <2>3 DEF Without
  <2>. QED  BY <1>0, <2>1, <2>2, <2>3, <2>4, <2>5 DEF Removing
<1>6. CASE ListFiles(p)
  <2>1. PICK v \in Run : v = pass[p].victim
    BY <1>0, <1>6 DEF Careful, ListFiles
  <2>. DEFINE gone == Segments(LogOf[v]) \ pass[p].spared
  <2>2. /\ DOMAIN pass[p] = {"at", "victim", "listed", "doomed", "spared"} /\ pass[p].at = "files"
        /\ pass' = [pass EXCEPT ![p].listed = gone] /\ UNCHANGED <<run, disk, stray>>
    BY <1>0, <1>6, <2>1 DEF Careful, ListFiles, runVars
  <2>3. \A f \in gone : f = <<LogOf[v], f[2]>> /\ f[2] \in Nat /\ f \notin pass[p].spared
    BY DEF Segments, LogInv, LogsTyped
  <2>4. \A r \in Run : Private(r) /\ (r \in DOMAIN pass[p].doomed \/ r = v) =>
          \A f \in pass[p].spared : f[1] # LogOf[r]
    BY <1>0, <2>1, <2>2 DEF Removing
  <2>5. Private(v) => Written(v) \cap disk \subseteq gone
    BY <2>4 DEF Segments, Written
  <2>6. Written(v)' \cap disk' = Written(v) \cap disk
    BY <2>2 DEF Written
  <2>7. entry'[v] = None
    BY <1>1, <2>1, <2>2
  <2>. HIDE DEF gone
  <2>8. /\ pass'[p].at = "files" /\ pass'[p].victim = v /\ pass'[p].listed = gone
        /\ pass'[p].doomed = pass[p].doomed /\ pass'[p].spared = pass[p].spared
    BY <1>0, <2>1, <2>2
  <2>. QED  BY <1>12, <2>3, <2>4, <2>5, <2>6, <2>7, <2>8
<1>7. CASE RemoveFile(p)
  <2>1. PICK f : /\ disk' = disk \ {f} /\ pass' = [pass EXCEPT ![p].listed = @ \ {f}]
                 /\ pass[p].at = "files" /\ pass[p].listed # None
    BY <1>7 DEF RemoveFile
  <2>2. PICK v \in Run : v = pass[p].victim
    BY <1>0, <2>1 DEF Careful
  <2>3. /\ DOMAIN pass[p] = {"at", "victim", "listed", "doomed", "spared"}
        /\ run' = run /\ stray' = stray
    BY <1>0, <1>7, <2>1 DEF Careful, RemoveFile, runVars
  <2>4. /\ pass'[p].at = "files" /\ pass'[p].victim = v
        /\ pass'[p].listed = pass[p].listed \ {f}
        /\ pass'[p].doomed = pass[p].doomed /\ pass'[p].spared = pass[p].spared
    BY <1>0, <2>1, <2>2, <2>3
  <2>5. Written(v)' = Written(v)
    BY <2>3 DEF Written
  <2>6. entry'[v] = None
    BY <1>1, <2>1, <2>2
  <2>7. /\ \A r \in Run : Private(r) /\ (r \in DOMAIN pass[p].doomed \/ r = v) =>
                \A g \in pass[p].spared : g[1] # LogOf[r]
        /\ \A g \in pass[p].listed : g = <<LogOf[v], g[2]>> /\ g[2] \in Nat
                                     /\ g \notin pass[p].spared
        /\ Private(v) /\ v \notin stray => Written(v) \cap disk \subseteq pass[p].listed
    BY <1>0, <2>1, <2>2 DEF Removing
  <2>. QED  BY <1>12, <2>1, <2>3, <2>4, <2>5, <2>6, <2>7
<1>8. CASE EndFiles(p) \/ RemoveFails(p)
  <2>1. /\ DOMAIN pass[p] = {"at", "victim", "listed", "doomed", "spared"}
        /\ pass[p].at \in {"deleting", "files"}
        /\ \/ pass' = [pass EXCEPT ![p].at = "deleting", ![p].victim = None, ![p].listed = None]
           \/ /\ pass[p].at = "deleting"
              /\ \E r \in Run : pass' = [pass EXCEPT ![p].doomed = Without(@, r)]
    BY <1>0, <1>8 DEF EndFiles, RemoveFails, Careful
  <2>2. CASE pass' = [pass EXCEPT ![p].at = "deleting", ![p].victim = None, ![p].listed = None]
    <3>1. /\ pass'[p].at = "deleting" /\ pass'[p].victim = None /\ pass'[p].listed = None
          /\ pass'[p].doomed = pass[p].doomed /\ pass'[p].spared = pass[p].spared
      BY <1>0, <2>1, <2>2
    <3>. QED  BY <1>0, <2>1, <3>1 DEF Removing
  <2>3. ASSUME NEW r \in Run, pass[p].at = "deleting",
               pass' = [pass EXCEPT ![p].doomed = Without(@, r)]
        PROVE  Removing(p)'
    <3>1. /\ pass'[p].at = "deleting" /\ pass'[p].victim = pass[p].victim
          /\ pass'[p].listed = pass[p].listed /\ pass'[p].spared = pass[p].spared
          /\ DOMAIN pass'[p].doomed \subseteq DOMAIN pass[p].doomed
      BY <1>0, <2>1, <2>3 DEF Without
    <3>. QED  BY <1>0, <2>1, <2>3, <3>1 DEF Removing
  <2>. QED  BY <2>1, <2>2, <2>3
<1>9. CASE pass'[p] = NoPass
  BY <1>2, <1>9 DEF NoPass
<1>10. CASE Begin(p) \/ ReadEntry(p) \/ EndReading(p) \/ (\E r \in Run : Judge(p, r)) \/ EndPass(p)
  <2>1. CASE Begin(p) \/ EndReading(p) \/ EndPass(p)
    BY <1>0, <1>2, <2>1 DEF Begin, EndReading, EndPass, NoPass
  <2>2. CASE ReadEntry(p)
    <3>1. DOMAIN pass[p] = {"at", "bounds", "names", "seen"} /\ pass[p].at = "reading"
      BY <1>0, <2>2 DEF ReadEntry, Careful
    <3>. QED  BY <1>0, <1>2, <2>2, <3>1 DEF ReadEntry
  <2>3. CASE \E r \in Run : Judge(p, r)
    <3>1. DOMAIN pass[p] = {"at", "bounds", "seen", "judged"} /\ pass[p].at = "judging"
      BY <1>0, <2>3 DEF Judge, Careful
    <3>. QED  BY <1>0, <1>2, <2>3, <3>1 DEF Judge
  <2>. QED  BY <1>10, <2>1, <2>2, <2>3
<1>11. pass'[p] = pass[p] \/ PassStep(p) \/ pass'[p] = NoPass
  BY LogSteps
<1>. QED  BY <1>3, <1>4, <1>5, <1>6, <1>7, <1>8, <1>9, <1>10, <1>11 DEF PassStep

(* A run no pass has condemned stays among those every pass keeps. *)
LEMMA SparingKept ==
  ASSUME IInv, LogInv, [Next]_vars, NEW p \in Process, NEW r \in Run
  PROVE  Sparing(p, r)'
<1>. SUFFICES ASSUME Settled(r)', Readable(r)'
              PROVE  /\ pass'[p].at = "reading" => r \in pass'[p].names \cup DOMAIN pass'[p].seen
                     /\ pass'[p].at = "judging" => r \in DOMAIN pass'[p].seen
                     /\ pass'[p].at \in {"deleting", "files"} =>
                          Segments(LogOf[r])' \subseteq pass'[p].spared
  BY DEF Sparing
<1>0. /\ DOMAIN pass = Process /\ Sparing(p, r) /\ Careful(p)
      /\ Settled(r) /\ Readable(r) /\ Segments(LogOf[r])' \subseteq Segments(LogOf[r])
  BY LogsKept DEF IInv, Base, Shape, LogInv
<1>1. /\ pass[p].at = "reading" => r \in pass[p].names \cup DOMAIN pass[p].seen
      /\ pass[p].at = "judging" => r \in DOMAIN pass[p].seen
      /\ pass[p].at \in {"deleting", "files"} => Segments(LogOf[r]) \subseteq pass[p].spared
  BY <1>0 DEF Sparing
<1>2. CASE pass'[p] = pass[p]
  BY <1>0, <1>1, <1>2
<1>3. CASE pass'[p].at = "off"
  BY <1>3
<1>4. CASE Begin(p)
  <2>1. pass'[p].at = "reading" /\ pass'[p].names = {q \in Run : entry[q] # None}
    BY <1>0, <1>4 DEF Begin
  <2>. QED  BY <1>0, <2>1 DEF Readable
<1>5. CASE ReadEntry(p)
  <2>1. PICK q \in pass[p].names :
          pass' = [pass EXCEPT ![p].names = @ \ {q},
                               ![p].seen = IF Readable(q) THEN With(@, q, entry[q]) ELSE @]
    BY <1>5 DEF ReadEntry
  <2>2. DOMAIN pass[p] = {"at", "bounds", "names", "seen"} /\ pass[p].at = "reading"
    BY <1>0, <1>5 DEF ReadEntry, Careful
  <2>3. /\ pass'[p].at = "reading" /\ pass'[p].names = pass[p].names \ {q}
        /\ pass'[p].seen = IF Readable(q) THEN With(pass[p].seen, q, entry[q]) ELSE pass[p].seen
    BY <1>0, <2>1, <2>2
  <2>. QED  BY <1>0, <1>1, <2>2, <2>3 DEF With
<1>6. CASE EndReading(p)
  <2>1. /\ pass'[p].at = "judging" /\ pass'[p].seen = pass[p].seen
        /\ pass[p].at = "reading" /\ pass[p].names = {}
    BY <1>0, <1>6 DEF EndReading
  <2>. QED  BY <1>1, <2>1
<1>7. ASSUME NEW q \in Run, Judge(p, q)
      PROVE  pass'[p].at = "judging" /\ r \in DOMAIN pass'[p].seen
  <2>1. DOMAIN pass[p] = {"at", "bounds", "seen", "judged"} /\ pass[p].at = "judging"
    BY <1>0, <1>7 DEF Judge, Careful
  <2>. QED  BY <1>0, <1>1, <1>7, <2>1 DEF Judge
<1>8. CASE Decide(p)
  <2>. DEFINE judged == pass[p].judged
  <2>1. PICK kept : /\ kept = Survivors(judged, pass[p].bounds)
                    /\ pass' = [pass EXCEPT ![p] =
                         [at |-> "deleting", victim |-> None, listed |-> None,
                          doomed |-> [q \in DOMAIN judged \ kept |-> judged[q]],
                          spared |-> UNION {Segments(LogOf[q]) : q \in kept}]]
                    /\ condemned' = condemned \cup (DOMAIN judged \ kept)
    BY <1>8 DEF Decide
  <2>2. r \in DOMAIN judged
    BY <1>1, <1>8 DEF Decide, Judged
  <2>3. r \in kept
    BY <2>1, <2>2 DEF Settled
  <2>4. /\ pass'[p].at = "deleting"
        /\ pass'[p].spared = UNION {Segments(LogOf[q]) : q \in kept}
    BY <1>0, <2>1
  <2>5. Segments(LogOf[r]) \subseteq pass'[p].spared
    BY <2>3, <2>4
  <2>. QED  BY <1>0, <2>4, <2>5
<1>9. CASE DeleteEntry(p) \/ ListFiles(p) \/ RemoveFile(p) \/ EndFiles(p) \/ RemoveFails(p)
  <2>1. /\ DOMAIN pass[p] = {"at", "victim", "listed", "doomed", "spared"}
        /\ pass[p].at \in {"deleting", "files"}
    BY <1>0, <1>9 DEF Careful, DeleteEntry, ListFiles, RemoveFile, EndFiles, RemoveFails
  <2>2. pass'[p].at \in {"deleting", "files"} /\ pass'[p].spared = pass[p].spared
    <3>1. CASE DeleteEntry(p)
      BY <1>0, <2>1, <3>1 DEF DeleteEntry
    <3>2. CASE ListFiles(p) \/ RemoveFile(p)
      BY <1>0, <2>1, <3>2 DEF ListFiles, RemoveFile
    <3>3. CASE EndFiles(p) \/ RemoveFails(p)
      BY <1>0, <2>1, <3>3 DEF EndFiles, RemoveFails
    <3>. QED  BY <1>9, <3>1, <3>2, <3>3
  <2>. QED  BY <1>0, <1>1, <2>1, <2>2
<1>10. CASE EndPass(p)
  BY <1>0, <1>3, <1>10 DEF EndPass, NoPass
<1>11. pass'[p] = pass[p] \/ PassStep(p) \/ pass'[p].at = "off"
  BY LogSteps DEF NoPass
<1>. QED
  BY <1>2, <1>3, <1>4, <1>5, <1>6, <1>7, <1>8, <1>9, <1>10, <1>11 DEF PassStep

LEMMA MatchKept ==
  ASSUME IInv, LogInv, [Next]_vars
  PROVE  EntriesMatchLogs'
<1>0. /\ Base /\ Goal /\ DOMAIN entry = Run /\ DOMAIN pass = Process
      /\ \A r \in Run : Private(r)' <=> Private(r)
      /\ stray \subseteq stray'
  BY BaseStep, LogSteps DEF IInv, Base, Shape, Private
<1>1. ASSUME NEW r \in Run
      PROVE  /\ Private(r) /\ entry[r] # None => Written(r) \subseteq disk
             /\ Settled(r) /\ Readable(r) => Written(r) \subseteq disk
             /\ Private(r) /\ entry[r] = None =>
                  \/ Written(r) \cap disk = {}
                  \/ r \in stray
                  \/ \E p \in Process : pass[p].at = "files" /\ pass[p].victim = r
  BY DEF LogInv, EntriesMatchLogs, Written
<1>2. ASSUME NEW p \in Process, RemoveFile(p)
      PROVE  \E f : /\ disk' = disk \ {f} /\ f \in pass[p].listed /\ f \notin pass[p].spared
                    /\ pass[p].at = "files" /\ pass[p].victim \in Run
                    /\ entry[pass[p].victim] = None /\ f[1] = LogOf[pass[p].victim]
  <2>. DEFINE f == CHOOSE g \in pass[p].listed : \A h \in pass[p].listed : g[2] <= h[2]
  <2>1. /\ pass[p].at = "files" /\ pass[p].listed # None /\ pass[p].listed # {}
        /\ disk' = disk \ {f}
    BY <1>2 DEF RemoveFile
  <2>2. /\ pass[p].victim \in Run /\ entry[pass[p].victim] = None
        /\ \A g \in pass[p].listed :
             /\ g = <<LogOf[pass[p].victim], g[2]>> /\ g[2] \in Nat /\ g \notin pass[p].spared
    BY <2>1 DEF IInv, Careful, LogInv, Removing
  <2>3. f \in pass[p].listed
    BY <2>1, <2>2, LowestListed
  <2>4. f = <<LogOf[pass[p].victim], f[2]>> /\ f \notin pass[p].spared
    BY <2>2, <2>3
  <2>. HIDE DEF f
  <2>. QED  BY <2>1, <2>2, <2>3, <2>4
<1>3. ASSUME NEW r \in Run, Private(r), entry'[r] # None
      PROVE  Written(r)' \subseteq disk'
  <2>1. CASE entry[r] = None
    <3>1. Fresh(r)
      BY <1>0, <1>3, <2>1 DEF Goal, Evolves
    <3>2. run[r].segment = -1
      BY <1>0, <3>1 DEF Base, Early
    <3>3. ~\E q \in Run, n \in Nat : Opens(q, n) /\ q = r
      BY <1>3, <2>1 DEF Opens
    <3>4. run'[r].segment = -1
      BY <3>2, <3>3, LogSteps DEF Opens, Leaves
    <3>5. Written(r)' = {}
      BY <3>4 DEF Written
    <3>. QED  BY <3>5
  <2>2. CASE entry[r] # None
    <3>1. Written(r) \subseteq disk
      BY <1>1, <1>3, <2>2
    <3>2. ASSUME NEW q \in Run, NEW n \in Nat, Opens(q, n) PROVE Written(r)' \subseteq disk'
      <4>1. CASE q = r
        <5>1. /\ run'[r].segment = n /\ n \in {run[r].segment, run[r].segment + 1}
              /\ disk' = disk \cup {<<LogOf[r], n>>} /\ run[r].segment \in Nat \cup {-1}
          BY <1>0, <3>2, <4>1 DEF Opens, Base, Shape
        <5>2. ASSUME NEW i \in 0 .. n PROVE <<LogOf[r], i>> \in disk'
          <6>1. i = n \/ i \in 0 .. run[r].segment
            BY <5>1
          <6>2. i \in 0 .. run[r].segment => <<LogOf[r], i>> \in Written(r)
            BY DEF Written
          <6>. QED  BY <3>1, <5>1, <6>1, <6>2
        <5>. QED  BY <5>1, <5>2 DEF Written
      <4>2. CASE q # r
        <5>1. Written(r)' = Written(r) /\ disk \subseteq disk'
          BY <3>2, <4>2 DEF Opens, Written
        <5>. QED  BY <3>1, <5>1
      <4>. QED  BY <4>1, <4>2
    <3>3. ASSUME Leaves, disk' = disk PROVE Written(r)' \subseteq disk'
      BY <3>1, <3>3 DEF Leaves, Written
    <3>4. ASSUME Leaves, NEW p \in Process, RemoveFile(p) PROVE Written(r)' \subseteq disk'
      <4>1. PICK f : /\ disk' = disk \ {f} /\ pass[p].victim \in Run
                     /\ entry[pass[p].victim] = None /\ f[1] = LogOf[pass[p].victim]
        BY <1>2, <3>4
      <4>2. f[1] # LogOf[r]
        BY <1>3, <2>2, <4>1 DEF Private
      <4>3. f \notin Written(r)
        BY <4>2 DEF Written
      <4>4. Written(r)' = Written(r)
        BY <3>4 DEF Leaves, Written
      <4>. QED  BY <3>1, <4>1, <4>3, <4>4
    <3>. QED  BY <3>2, <3>3, <3>4, LogSteps
  <2>. QED  BY <2>1, <2>2
<1>4. ASSUME NEW r \in Run, Settled(r)', Readable(r)'
      PROVE  Written(r)' \subseteq disk'
  <2>1. /\ Settled(r) /\ Readable(r) /\ Written(r)' = Written(r)
    BY <1>4, LogsKept
  <2>2. Written(r) \subseteq disk
    BY <1>1, <2>1
  <2>3. disk \subseteq disk' \/ \E p \in Process : RemoveFile(p)
    BY LogSteps DEF Opens
  <2>4. ASSUME NEW p \in Process, RemoveFile(p) PROVE Written(r) \subseteq disk'
    <3>1. PICK f : disk' = disk \ {f} /\ f \notin pass[p].spared /\ pass[p].at = "files"
      BY <1>2, <2>4
    <3>2. Segments(LogOf[r]) \subseteq pass[p].spared
      BY <2>1, <3>1 DEF LogInv, Sparing
    <3>3. Written(r) \subseteq Segments(LogOf[r])
      BY <2>2 DEF Written, Segments
    <3>. QED  BY <2>2, <3>1, <3>2, <3>3
  <2>. QED  BY <2>1, <2>2, <2>3, <2>4
<1>5. ASSUME NEW r \in Run, Private(r), entry'[r] = None
      PROVE  \/ Written(r)' \cap disk' = {}
             \/ r \in stray'
             \/ \E p \in Process : pass'[p].at = "files" /\ pass'[p].victim = r
  <2>1. CASE entry[r] # None
    <3>1. PICK p \in Process : DeleteEntry(p) /\ pass'[p].victim = r
      BY <1>5, <2>1, LogSteps
    <3>2. DOMAIN pass[p] = {"at", "victim", "listed", "doomed", "spared"}
      BY <3>1 DEF DeleteEntry, IInv, Careful
    <3>3. pass'[p].at = "files"
      BY <1>0, <3>1, <3>2 DEF DeleteEntry
    <3>. QED  BY <3>1, <3>3
  <2>2. CASE entry[r] = None /\ r \notin stray'
    <3>1. Written(r)' \cap disk' \subseteq Written(r) \cap disk
      BY <1>5, <2>2, LogsKept
    <3>2. CASE Written(r) \cap disk = {}
      BY <3>1, <3>2
    <3>3. ASSUME NEW p \in Process, pass[p].at = "files", pass[p].victim = r
          PROVE  \/ Written(r)' \cap disk' = {}
                 \/ pass'[p].at = "files" /\ pass'[p].victim = r
      <4>1. DOMAIN pass[p] = {"at", "victim", "listed", "doomed", "spared"}
        BY <3>3 DEF IInv, Careful
      <4>2. CASE pass'[p] = pass[p]
        BY <3>3, <4>2
      <4>3. CASE pass'[p] = NoPass /\ CutShort(p) \subseteq stray'
        BY <2>2, <3>3, <4>3 DEF CutShort
      <4>4. CASE ListFiles(p) \/ RemoveFile(p)
        BY <1>0, <3>3, <4>1, <4>4 DEF ListFiles, RemoveFile
      <4>5. CASE EndFiles(p)
        <5>1. pass[p].listed = {} /\ {} # None
          BY <4>5, RegistryAssumption DEF EndFiles
        <5>2. Written(r) \cap disk \subseteq {}
          <6>1. r \notin stray
            BY <1>0, <2>2
          <6>. QED  BY <1>5, <3>3, <5>1, <6>1 DEF LogInv, Removing
        <5>. QED  BY <3>1, <5>2
      <4>6. CASE RemoveFails(p)
        BY <2>2, <3>3, <4>6 DEF RemoveFails, CutShort
      <4>7. CASE PassStep(p) /\ ~(ListFiles(p) \/ RemoveFile(p) \/ EndFiles(p) \/ RemoveFails(p))
        BY <3>3, <4>7 DEF PassStep, Begin, ReadEntry, EndReading, Judge, Decide, DeleteEntry,
           EndPass, Judged, NoPass
      <4>. QED  BY <4>2, <4>3, <4>4, <4>5, <4>6, <4>7, LogSteps
    <3>. QED  BY <1>1, <1>0, <1>5, <2>2, <3>2, <3>3
  <2>. QED  BY <2>1, <2>2
<1>. QED  BY <1>0, <1>3, <1>4, <1>5 DEF EntriesMatchLogs, Written

(* For any runs, logs shared or not, and passes at the same time: a listed *)
(* run whose log is its own has every segment it has written, a run no     *)
(* pass has condemned has those of the log it shares with ended ones, and  *)
(* a log that is left without an entry is one whose removal is under way,  *)
(* was cut short, or that was written behind its entry.                    *)
THEOREM EntriesAndLogsAgree == Spec => []EntriesMatchLogs
<1>1. IInv /\ LogInv /\ [Next]_vars => LogInv'
  BY LogsKept, RemovingKept, SparingKept, MatchKept DEF LogInv
<1>2. LogInv => EntriesMatchLogs
  BY DEF LogInv
<1>. QED  BY <1>1, <1>2, InitIInv, NextIInv, InitLogInv, PTL DEF Spec
=============================================================================
