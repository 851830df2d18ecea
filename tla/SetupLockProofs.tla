-------------------------- MODULE SetupLockProofs --------------------------
(***************************************************************************)
(* Theorems about SetupLock, for any number of processes and crashes.      *)
(* What makes the safety properties inductive is HeldUnlessRobbed: from    *)
(* the moment it has created the lock file until it removes it, a process  *)
(* either still owns the file or has been robbed of it.                    *)
(***************************************************************************)
EXTENDS SetupLock, TLAPS

HeldUnlessRobbed ==
  \A p \in Process :
    InCriticalSection(p) => p \in robbed \/ (lock # None /\ lock.owner = p)

IInv ==
  /\ TypeOK
  /\ HeldUnlessRobbed
  /\ LockHasAnOwner
  /\ SuccessIsProvisioned

LEMMA InitInvariant == Init => IInv
BY SetupAssumption
   DEF Init, IInv, TypeOK, HeldUnlessRobbed, LockHasAnOwner, SuccessIsProvisioned,
       InCriticalSection, Steps, Resolved

(* Every step keeps the types, and gives an outcome where one is due. *)
LEMMA TypeStep == TypeOK /\ [Next]_vars => TypeOK'
<1>. SUFFICES ASSUME TypeOK, [Next]_vars PROVE TypeOK'
  OBVIOUS
<1>. USE SetupAssumption DEF TypeOK, Steps, Outcome, LockFile, Goto, Conclude,
         lockVars, seenVars
<1>1. ASSUME NEW p \in Process, Check(p) PROVE TypeOK'
  BY <1>1 DEF Check
<1>2. ASSUME NEW p \in Process, Create(p) PROVE TypeOK'
  <2>1. [owner |-> p, written |-> FALSE] \in LockFile
    OBVIOUS
  <2>. HIDE DEF LockFile
  <2>2. CASE lock = None
    BY <1>2, <2>1, <2>2 DEF Create
  <2>3. CASE lock # None
    BY <1>2, <2>3 DEF Create
  <2>. QED  BY <2>2, <2>3
<1>3. ASSUME NEW p \in Process, WriteLock(p) PROVE TypeOK'
  BY <1>3 DEF WriteLock
<1>4. ASSUME NEW p \in Process, Stat(p) PROVE TypeOK'
  BY <1>4 DEF Stat
<1>5. ASSUME NEW p \in Process, ReadLock(p) PROVE TypeOK'
  BY <1>5 DEF ReadLock
<1>6. ASSUME NEW p \in Process, Probe(p) PROVE TypeOK'
  BY <1>6 DEF Probe
<1>7. ASSUME NEW p \in Process, RemoveStale(p) PROVE TypeOK'
  BY <1>7 DEF RemoveStale, Unlink
<1>8. ASSUME NEW p \in Process, NEW x \in Plugin, InstallPlugin(p, x) PROVE TypeOK'
  BY <1>8 DEF InstallPlugin
<1>9. ASSUME NEW p \in Process, InstallDone(p) PROVE TypeOK'
  BY <1>9 DEF InstallDone
<1>10. ASSUME NEW p \in Process, InstallFailed(p) PROVE TypeOK'
  BY <1>10 DEF InstallFailed
<1>11. ASSUME NEW p \in Process, Release(p) PROVE TypeOK'
  BY <1>11 DEF Release, Unlink
<1>12. ASSUME NEW p \in Process, Released(p) PROVE TypeOK'
  BY <1>12 DEF Released
<1>13. ASSUME NEW p \in Process, TimedOut(p) PROVE TypeOK'
  BY <1>13 DEF TimedOut
<1>14. ASSUME NEW p \in Process, Recheck(p) PROVE TypeOK'
  BY <1>14 DEF Recheck
<1>15. ASSUME NEW p \in Process, Exit(p) PROVE TypeOK'
  BY <1>15 DEF Exit
<1>16. ASSUME NEW p \in Process, Crash(p) PROVE TypeOK'
  BY <1>16 DEF Crash
<1>17. ASSUME UNCHANGED vars PROVE TypeOK'
  BY <1>17 DEF vars
<1>. QED  BY <1>1, <1>2, <1>3, <1>4, <1>5, <1>6, <1>7, <1>8, <1>9, <1>10, <1>11,
             <1>12, <1>13, <1>14, <1>15, <1>16, <1>17
          DEF Next, Step, Acquire, Install, WaitForRelease

(* Who owns the lock file, and what success rests on, after every step. *)
LEMMA OwnerStep ==
  TypeOK /\ HeldUnlessRobbed /\ LockHasAnOwner /\ [Next]_vars
    => HeldUnlessRobbed' /\ LockHasAnOwner'
<1>. SUFFICES ASSUME TypeOK, HeldUnlessRobbed, LockHasAnOwner, [Next]_vars
              PROVE  HeldUnlessRobbed' /\ LockHasAnOwner'
  OBVIOUS
<1>0. /\ pc \in [Process -> Steps]
      /\ lock # None => lock \in LockFile
      /\ None \notin LockFile
  BY SetupAssumption DEF TypeOK
<1>. USE <1>0 DEF HeldUnlessRobbed, LockHasAnOwner, InCriticalSection, Goto,
         lockVars, seenVars
<1>1. ASSUME NEW p \in Process, NEW step, Goto(p, step), pc[p] \notin {"write", "install", "release"},
             step \notin {"write", "install", "release"},
             UNCHANGED lockVars, UNCHANGED gone
      PROVE  HeldUnlessRobbed' /\ LockHasAnOwner'
  BY <1>1
<1>2. ASSUME NEW p \in Process, NEW step \in {"install", "release"}, Goto(p, step),
             InCriticalSection(p), UNCHANGED <<gone, robbed>>,
             lock' = None <=> lock = None,
             lock # None => lock'.owner = lock.owner
      PROVE  HeldUnlessRobbed' /\ LockHasAnOwner'
  <2>1. pc' = [pc EXCEPT ![p] = step] /\ pc[p] \in {"write", "install", "release"}
    BY <1>2
  <2>2. \A q \in Process : InCriticalSection(q)' <=> InCriticalSection(q)
    BY <2>1
  <2>3. lock # None => lock.owner \in Process
    BY DEF LockFile
  <2>. HIDE DEF InCriticalSection
  <2>4. HeldUnlessRobbed'
    BY <1>2, <2>2
  <2>5. LockHasAnOwner'
    BY <1>2, <2>2, <2>3
  <2>. QED  BY <2>4, <2>5
<1>3. ASSUME NEW p \in Process, Create(p) PROVE HeldUnlessRobbed' /\ LockHasAnOwner'
  <2>1. CASE lock = None
    <3>1. lock' \in LockFile /\ lock'.owner = p
      <4>1. lock' = [owner |-> p, written |-> FALSE]
        BY <1>3, <2>1 DEF Create
      <4>. QED  BY <4>1 DEF LockFile
    <3>2. lock' # None
      BY <3>1
    <3>3. pc' = [pc EXCEPT ![p] = "write"] /\ UNCHANGED <<gone, robbed>>
      BY <1>3, <2>1 DEF Create
    <3>4. ASSUME NEW q \in Process, InCriticalSection(q)', q # p PROVE q \in robbed'
      BY <2>1, <3>3, <3>4
    <3>5. pc'[p] = "write"
      BY <3>3
    <3>. QED  BY <3>1, <3>2, <3>4, <3>5
  <2>2. CASE lock # None
    <3>1. Goto(p, "stat") /\ pc[p] = "create" /\ UNCHANGED lockVars /\ UNCHANGED gone
      BY <1>3, <2>2 DEF Create
    <3>. QED  BY <1>1, <3>1
  <2>. QED  BY <2>1, <2>2
<1>4. ASSUME NEW p \in Process, WriteLock(p) PROVE HeldUnlessRobbed' /\ LockHasAnOwner'
  <2>1. /\ lock' = None <=> lock = None
        /\ lock # None => lock'.owner = lock.owner
    <3>1. CASE lock # None /\ lock.owner = p
      <4>1. lock' = [lock EXCEPT !.written = TRUE] /\ lock \in LockFile
        BY <1>4, <3>1 DEF WriteLock
      <4>2. lock' \in LockFile /\ lock'.owner = lock.owner
        BY <4>1 DEF LockFile
      <4>. QED  BY <3>1, <4>2
    <3>2. CASE ~(lock # None /\ lock.owner = p)
      BY <1>4, <3>2 DEF WriteLock
    <3>. QED  BY <3>1, <3>2
  <2>. QED  BY <1>2, <1>4, <2>1 DEF WriteLock
<1>5. ASSUME NEW p \in Process, NEW step \in {"create", "done"}, Unlink(p),
             UNCHANGED gone, Goto(p, step)
      PROVE  HeldUnlessRobbed' /\ LockHasAnOwner'
  <2>1. lock' = None
    BY <1>5 DEF Unlink
  <2>2. ASSUME NEW q \in Process, InCriticalSection(q)' PROVE q \in robbed'
    <3>1. q # p /\ InCriticalSection(q)
      BY <1>5, <2>2
    <3>2. q \in robbed \/ (lock # None /\ lock.owner = q)
      BY <3>1
    <3>. QED  BY <1>5, <3>1, <3>2 DEF Unlink
  <2>. QED  BY <2>1, <2>2
<1>6. ASSUME NEW p \in Process, InstallDone(p) \/ InstallFailed(p)
      PROVE  HeldUnlessRobbed' /\ LockHasAnOwner'
  BY <1>2, <1>6 DEF InstallDone, InstallFailed
<1>7. ASSUME UNCHANGED <<lockVars, pc>>, gone \subseteq gone'
      PROVE  HeldUnlessRobbed' /\ LockHasAnOwner'
  BY <1>7
<1>8. ASSUME NEW p \in Process, Check(p) \/ Stat(p) \/ ReadLock(p) \/ Probe(p)
                                  \/ Released(p) \/ TimedOut(p) \/ Recheck(p)
      PROVE  HeldUnlessRobbed' /\ LockHasAnOwner'
  BY <1>1, <1>8 DEF Check, Stat, ReadLock, Probe, Released, TimedOut, Recheck
<1>9. ASSUME NEW p \in Process, (\E x \in Plugin : InstallPlugin(p, x)) \/ Exit(p) \/ Crash(p)
      PROVE  HeldUnlessRobbed' /\ LockHasAnOwner'
  BY <1>7, <1>9 DEF InstallPlugin, Exit, Crash
<1>10. CASE UNCHANGED vars
  BY <1>7, <1>10 DEF vars
<1>11. ASSUME NEW p \in Process, RemoveStale(p) \/ Release(p)
       PROVE  HeldUnlessRobbed' /\ LockHasAnOwner'
  BY <1>5, <1>11 DEF RemoveStale, Release
<1>. QED  BY <1>3, <1>4, <1>6, <1>8, <1>9, <1>10, <1>11
          DEF Next, Step, Acquire, Install, WaitForRelease

(* Nothing that resolved stops resolving, and success is said by who sees it. *)
LEMMA ProvisionStep ==
  TypeOK /\ SuccessIsProvisioned /\ [Next]_vars => SuccessIsProvisioned'
<1>. SUFFICES ASSUME TypeOK, SuccessIsProvisioned, [Next]_vars
              PROVE  SuccessIsProvisioned'
  OBVIOUS
<1>0. outcome \in [Process -> Outcome \cup {None}]
  BY DEF TypeOK
<1>. USE <1>0, SetupAssumption DEF SuccessIsProvisioned, Resolved, Conclude
<1>1. ASSUME UNCHANGED outcome, installed \subseteq installed'
      PROVE  SuccessIsProvisioned'
  BY <1>1
<1>2. ASSUME NEW p \in Process, NEW result, Conclude(p, result), UNCHANGED installed,
             result = "failed" \/ Resolved(p)
      PROVE  SuccessIsProvisioned'
  BY <1>2
<1>3. ASSUME NEW p \in Process, Check(p) \/ Recheck(p) PROVE SuccessIsProvisioned'
  BY <1>1, <1>2, <1>3 DEF Check, Recheck
<1>4. ASSUME NEW p \in Process, InstallDone(p) PROVE SuccessIsProvisioned'
  <2>1. Resolved(p)
    BY <1>4 DEF InstallDone
  <2>. QED  BY <1>2, <1>4, <2>1 DEF InstallDone
<1>5. ASSUME NEW p \in Process, InstallFailed(p) \/ TimedOut(p) PROVE SuccessIsProvisioned'
  BY <1>2, <1>5 DEF InstallFailed, TimedOut
<1>6. ASSUME NEW p \in Process, NEW x \in Plugin, InstallPlugin(p, x)
      PROVE  SuccessIsProvisioned'
  BY <1>1, <1>6 DEF InstallPlugin
<1>7. ASSUME NEW p \in Process, Acquire(p) \/ Release(p) \/ Released(p) \/ Exit(p) \/ Crash(p)
      PROVE  SuccessIsProvisioned'
  BY <1>1, <1>7 DEF Acquire, Create, WriteLock, Stat, ReadLock, Probe, RemoveStale,
                    Release, Released, Exit, Crash
<1>8. CASE UNCHANGED vars
  BY <1>1, <1>8 DEF vars
<1>. QED  BY <1>3, <1>4, <1>5, <1>6, <1>7, <1>8
          DEF Next, Step, Install, WaitForRelease

LEMMA NextInvariant == IInv /\ [Next]_vars => IInv'
BY TypeStep, OwnerStep, ProvisionStep DEF IInv

(* The invariant holds of every behaviour. *)
THEOREM Invariant == Spec => []IInv
BY InitInvariant, NextInvariant, PTL DEF Spec

(* TypeOK holds for any number of processes, plugins and crashes. *)
THEOREM TypeCorrect == Spec => []TypeOK
BY Invariant, PTL DEF IInv

(* Two processes are in the critical section together only when somebody   *)
(* has removed the lock file of one of them: fs.writeFile with wx, the     *)
(* bounded wait and the release let nobody else in, for any number of      *)
(* processes, of crashes and of loops.                                     *)
THEOREM OverlapIsTheft == Spec => []OverlapNeedsTheft
<1>1. IInv => OverlapNeedsTheft
  BY DEF IInv, HeldUnlessRobbed, OverlapNeedsTheft
<1>. QED  BY <1>1, Invariant, PTL

(* A lock file is never left behind by a process that lives and has left   *)
(* its critical section.                                                   *)
THEOREM LockIsOwned == Spec => []LockHasAnOwner
BY Invariant, PTL DEF IInv

(* Whoever goes on to run its workflow has all its plugins. *)
THEOREM SuccessHasPlugins == Spec => []SuccessIsProvisioned
BY Invariant, PTL DEF IInv
=============================================================================
