----------------------------- MODULE SetupLock -----------------------------
(***************************************************************************)
(* The auto-setup step of workflow run: processes that find a plugin       *)
(* missing race for the lock file of a target folder, the winner installs, *)
(* the others wait for the file to go and look again.  A lock whose owner  *)
(* is gone, or that stays unreadable for long, is stale: whoever finds it  *)
(* removes it and races again.  Every file system call is a step of its    *)
(* own, so that what a process has seen may be history when it acts on it. *)
(* A process may die at any step; one that throws before it holds the lock *)
(* (no permission, disk full) ends as if it had died.                      *)
(***************************************************************************)
EXTENDS Naturals, FiniteSets

CONSTANTS
  Process,     \* concurrent workflow runs of one target folder
  Plugin,
  Needs,       \* Needs[p]: the plugins the workflow of p declares
  Installs,    \* Installs[p]: what p installs, the plugins of its workspace
  Forced,      \* the processes started with --setup
  None,        \* no lock file, nothing seen, no outcome yet
  MaxCrashes   \* bound on the processes that die

Outcome == {"not-needed", "installed", "joined-existing-install", "failed"}

(* The lock file: who created it, and whether its payload is written yet. *)
LockFile == [owner : Process, written : BOOLEAN]

ASSUME SetupAssumption ==
  /\ Needs \in [Process -> SUBSET Plugin]
  /\ Installs \in [Process -> SUBSET Plugin]
  /\ \A p \in Process : Needs[p] \subseteq Installs[p]
  /\ Forced \subseteq Process
  /\ None \notin Process \cup Outcome \cup LockFile
  /\ MaxCrashes \in Nat

VARIABLES
  lock,       \* the lock file, or None
  pc,         \* pc[p]: the next call p makes
  aged,       \* aged[p]: the file p looked at is over corruptStaleAfterMs old
  seen,       \* seen[p]: the owner p has read in the file, None if unreadable
  outcome,    \* outcome[p]: how the auto-setup of p ended
  installed,  \* the plugins that resolve from the target folder
  gone,       \* the processes that have exited or died
  crashes,    \* how many died
  robbed,     \* history: the processes whose lock another one removed
  redundant   \* history: who installed needing, by then, nothing

lockVars == <<lock, robbed>>
seenVars == <<aged, seen>>
vars == <<lock, pc, aged, seen, outcome, installed, gone, crashes, robbed, redundant>>

Steps == {"check", "create", "write", "stat", "read", "probe", "remove",
          "install", "release", "wait", "recheck", "done"}

(* From the moment its file exists until it has removed it. *)
InCriticalSection(p) == pc[p] \in {"write", "install", "release"}

Goto(p, step) == pc' = [pc EXCEPT ![p] = step]
Conclude(p, result) == outcome' = [outcome EXCEPT ![p] = result]

(* findUnresolved() finds nothing. *)
Resolved(p) == Needs[p] \subseteq installed

Init ==
  /\ lock = None
  /\ pc = [p \in Process |-> "check"]
  /\ aged = [p \in Process |-> FALSE]
  /\ seen = [p \in Process |-> None]
  /\ outcome = [p \in Process |-> None]
  /\ installed \in SUBSET Plugin
  /\ gone = {}
  /\ crashes = 0
  /\ robbed = {}
  /\ redundant = {}

(* The decision to install at all takes no lock. *)
Check(p) ==
  /\ pc[p] = "check"
  /\ IF p \notin Forced /\ Resolved(p)
     THEN Goto(p, "done") /\ Conclude(p, "not-needed")
     ELSE Goto(p, "create") /\ UNCHANGED outcome
  /\ UNCHANGED <<lockVars, seenVars, installed, gone, crashes, redundant>>

(* Opens the lock file with a plain w flag. *)
CreateOverwriting(p) ==
  /\ pc[p] = "create"
  /\ lock' = [owner |-> p, written |-> FALSE]
  /\ Goto(p, "write")
  /\ UNCHANGED <<seenVars, outcome, installed, gone, crashes, robbed,
                 redundant>>

(* The wx flag: the file is created by whoever finds none. *)
Create(p) ==
  /\ pc[p] = "create"
  /\ IF lock = None
     THEN lock' = [owner |-> p, written |-> FALSE] /\ Goto(p, "write")
     ELSE Goto(p, "stat") /\ UNCHANGED lock
  /\ UNCHANGED <<seenVars, outcome, installed, gone, crashes, robbed,
                 redundant>>

(* The payload goes to the file p created, which may no longer be there.   *)
WriteLock(p) ==
  /\ pc[p] = "write"
  /\ lock' = IF lock # None /\ lock.owner = p
             THEN [lock EXCEPT !.written = TRUE] ELSE lock
  /\ Goto(p, "install")
  /\ redundant' = IF Resolved(p) /\ p \notin Forced THEN redundant \cup {p} ELSE redundant
  /\ UNCHANGED <<seenVars, outcome, installed, gone, crashes, robbed>>

(* The age of the file.  One that is just being written is not old.        *)
Stat(p) ==
  /\ pc[p] = "stat"
  /\ IF lock = None
     THEN Goto(p, "create") /\ UNCHANGED aged
     ELSE /\ Goto(p, "read")
          /\ \E old \in BOOLEAN :
               /\ old => lock.owner \in gone \/ pc[lock.owner] # "write"
               /\ aged' = [aged EXCEPT ![p] = old]
  /\ UNCHANGED <<lockVars, seen, outcome, installed, gone, crashes, redundant>>

(* The payload, unreadable when the file is empty or has just gone.        *)
ReadLock(p) ==
  /\ pc[p] = "read"
  /\ seen' = [seen EXCEPT ![p] = IF lock # None /\ lock.written THEN lock.owner ELSE None]
  /\ Goto(p, "probe")
  /\ UNCHANGED <<lockVars, aged, outcome, installed, gone, crashes, redundant>>

IsLockStale(p) == IF seen[p] = None THEN aged[p] ELSE seen[p] \in gone

Probe(p) ==
  /\ pc[p] = "probe"
  /\ Goto(p, IF IsLockStale(p) THEN "remove" ELSE "wait")
  /\ aged' = [aged EXCEPT ![p] = FALSE]
  /\ seen' = [seen EXCEPT ![p] = None]
  /\ UNCHANGED <<lockVars, outcome, installed, gone, crashes, redundant>>

(* fs.rm removes the file that is there, whoever made it. *)
Unlink(p) ==
  /\ lock' = None
  /\ robbed' = IF lock # None /\ lock.owner # p THEN robbed \cup {lock.owner} ELSE robbed

RemoveStale(p) ==
  /\ pc[p] = "remove"
  /\ Unlink(p)
  /\ Goto(p, "create")
  /\ UNCHANGED <<seenVars, outcome, installed, gone, crashes, redundant>>

(* npm makes the plugins resolvable one after the other. *)
InstallPlugin(p, x) ==
  /\ pc[p] = "install"
  /\ x \in Installs[p] \ installed
  /\ installed' = installed \cup {x}
  /\ UNCHANGED <<lockVars, pc, seenVars, outcome, gone, crashes, redundant>>

InstallDone(p) ==
  /\ pc[p] = "install"
  /\ Installs[p] \subseteq installed
  /\ Conclude(p, "installed")
  /\ Goto(p, "release")
  /\ UNCHANGED <<lockVars, seenVars, installed, gone, crashes, redundant>>

(* Returns the error outside the try, without the release. *)
InstallFailedKeepingLock(p) ==
  /\ pc[p] = "install"
  /\ Conclude(p, "failed")
  /\ Goto(p, "done")
  /\ UNCHANGED <<lockVars, seenVars, installed, gone, crashes, redundant>>

InstallFailed(p) ==
  /\ pc[p] = "install"
  /\ Conclude(p, "failed")
  /\ Goto(p, "release")
  /\ UNCHANGED <<lockVars, seenVars, installed, gone, crashes, redundant>>

Release(p) ==
  /\ pc[p] = "release"
  /\ Unlink(p)
  /\ Goto(p, "done")
  /\ UNCHANGED <<seenVars, outcome, installed, gone, crashes, redundant>>

Released(p) ==
  /\ pc[p] = "wait"
  /\ lock = None
  /\ Goto(p, "recheck")
  /\ UNCHANGED <<lockVars, seenVars, outcome, installed, gone, crashes,
                 redundant>>

(* Gives up waiting without saying so. *)
TimedOutSilently(p) ==
  /\ pc[p] = "wait"
  /\ lock # None
  /\ Goto(p, "done")
  /\ UNCHANGED <<lockVars, seenVars, outcome, installed, gone, crashes,
                 redundant>>

(* Polls for as long as the file exists. *)
TimedOutNever(p) == FALSE /\ UNCHANGED vars

(* The wait is bounded by maxWaitMs, whatever the holder is doing. *)
TimedOut(p) ==
  /\ pc[p] = "wait"
  /\ lock # None
  /\ Conclude(p, "failed")
  /\ Goto(p, "done")
  /\ UNCHANGED <<lockVars, seenVars, installed, gone, crashes, redundant>>

(* Takes the end of the wait for the success of the winner. *)
RecheckTrusting(p) ==
  /\ pc[p] = "recheck"
  /\ Goto(p, "done")
  /\ Conclude(p, "joined-existing-install")
  /\ UNCHANGED <<lockVars, seenVars, installed, gone, crashes, redundant>>

Recheck(p) ==
  /\ pc[p] = "recheck"
  /\ IF Resolved(p)
     THEN Goto(p, "done") /\ Conclude(p, "joined-existing-install")
     ELSE Goto(p, "create") /\ UNCHANGED outcome
  /\ UNCHANGED <<lockVars, seenVars, installed, gone, crashes, redundant>>

(* A failed setup exits the process; the others run their workflow first.  *)
Exit(p) ==
  /\ pc[p] = "done"
  /\ p \notin gone
  /\ gone' = gone \cup {p}
  /\ UNCHANGED <<lockVars, pc, seenVars, outcome, installed, crashes,
                 redundant>>

(* Killed: no finally block runs. *)
Crash(p) ==
  /\ pc[p] # "done"
  /\ p \notin gone
  /\ crashes < MaxCrashes
  /\ crashes' = crashes + 1
  /\ gone' = gone \cup {p}
  /\ UNCHANGED <<lockVars, pc, seenVars, outcome, installed, redundant>>

Acquire(p) ==
  Create(p) \/ WriteLock(p) \/ Stat(p) \/ ReadLock(p) \/ Probe(p) \/ RemoveStale(p)

Install(p) ==
  (\E x \in Plugin : InstallPlugin(p, x)) \/ InstallDone(p) \/ InstallFailed(p)

WaitForRelease(p) == Released(p) \/ TimedOut(p) \/ Recheck(p)

(* The calls of performAutoSetup, in a process that still lives. *)
Step(p) ==
  /\ p \notin gone
  /\ Check(p) \/ Acquire(p) \/ Install(p) \/ Release(p) \/ WaitForRelease(p)

Next == \E p \in Process : Step(p) \/ Exit(p) \/ Crash(p)

Spec == Init /\ [][Next]_vars

(* A live process makes its next call: the event loop runs, npm and the    *)
(* bounded wait come to an end.  Nothing says that anyone dies or exits.   *)
FairSpec == Spec /\ \A p \in Process : WF_vars(Step(p))

-----------------------------------------------------------------------------

(* TypeOK: the variables have their types, and a process has an outcome    *)
(* exactly from the end of its install or of its wait on.                  *)
TypeOK ==
  /\ lock \in LockFile \cup {None}
  /\ pc \in [Process -> Steps]
  /\ aged \in [Process -> BOOLEAN]
  /\ seen \in [Process -> Process \cup {None}]
  /\ outcome \in [Process -> Outcome \cup {None}]
  /\ \A p \in Process : outcome[p] # None <=> pc[p] \in {"release", "done"}
  /\ installed \subseteq Plugin
  /\ gone \subseteq Process
  /\ crashes \in 0 .. MaxCrashes
  /\ robbed \subseteq Process
  /\ redundant \subseteq Process

(* OverlapNeedsTheft: two processes are in the critical section together   *)
(* only if another process has removed the lock of one of them.  Creation, *)
(* waiting and release leave no other way in, whatever crashes.            *)
OverlapNeedsTheft ==
  \A p, q \in Process :
    p # q /\ InCriticalSection(p) /\ InCriticalSection(q)
      => p \in robbed \/ q \in robbed

(* LockHasAnOwner: a lock file that exists belongs to a process that is in *)
(* its critical section or that no longer exists.  No path out of an       *)
(* install leaves behind a lock that the live process would hold forever.  *)
LockHasAnOwner ==
  lock # None => InCriticalSection(lock.owner) \/ lock.owner \in gone

(* SuccessIsProvisioned: whoever goes on to run its workflow, having       *)
(* installed, joined or needed nothing, resolves every plugin it declares, *)
(* although it may have waited for a winner that failed, died, or          *)
(* installed the plugins of somebody else.                                 *)
SuccessIsProvisioned ==
  \A p \in Process : outcome[p] \notin {None, "failed"} => Resolved(p)

(* SetupEnds: every process that lives ends its auto-setup.  The waits are *)
(* bounded, and the loops only turn because some other process finished.   *)
SetupEnds == \A p \in Process : <>(pc[p] = "done" \/ p \in gone)

(* ExclusiveInstall: mutually exclusive per target folder.                 *)
ExclusiveInstall ==
  \A p, q \in Process \ gone : pc[p] = "install" /\ pc[q] = "install" => p = q

(* NoSecondInstall: nobody installs for want of a plugin that is there     *)
(* when it gets the lock.                                                  *)
NoSecondInstall == redundant = {}
=============================================================================
