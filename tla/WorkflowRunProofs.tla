------------------------- MODULE WorkflowRunProofs -------------------------
(***************************************************************************)
(* Theorems about a run of any workflow, over any queues that any other    *)
(* runs share.  The heart is Books: where the machine is tells which       *)
(* outputs are in the store, so that an abort at any moment, a transaction *)
(* that commits behind its back, or one that is tried again by exiting     *)
(* neither loses nor repeats one without the run saying so.  The second    *)
(* part is about the consumers of the event stream: what each of them has  *)
(* made of it is told from the stream alone, and so they agree.            *)
(***************************************************************************)
EXTENDS StreamConsumers, FiniteSetTheorems, TLAPS

LEMMA QueueAppend ==
  ASSUME NEW S, NEW s \in Seq(S), NEW e \in S
  PROVE  Append(s, e) \in Seq(S) /\ Len(Append(s, e)) = Len(s) + 1
OBVIOUS

LEMMA QueueTail ==
  ASSUME NEW S, NEW s \in Seq(S), s # <<>>
  PROVE  Tail(s) \in Seq(S) /\ Len(Tail(s)) = Len(s) - 1
OBVIOUS

(* What the queues hold, and that none holds more than it may. *)
QueuesOK(q) ==
  DOMAIN q = Key /\ \A k \in Key : q[k] \in Seq(Entry) /\ Len(q[k]) <= Capacity[k]

LEMMA EntryFacts ==
  /\ SeedEntry \in Entry /\ PeerEntry \in Entry
  /\ \A d \in DoneStep : d.step \in Execution /\ d.step \in Entry /\ d # None
BY WorkflowAssumption DEF Entry, DoneStep

(* A transaction whose puts find room leaves the queues within bounds. *)
LEMMA PutKeepsQueues ==
  ASSUME QueuesOK(queue), NEW ks, CanPut(ks), ks \subseteq Key, NEW e \in Entry
  PROVE  QueuesOK(Put(queue, ks, e))
<1>1. ASSUME NEW k \in Key
      PROVE  Put(queue, ks, e)[k] \in Seq(Entry) /\ Len(Put(queue, ks, e)[k]) <= Capacity[k]
  <2>1. CASE k \in ks
    <3>1. Put(queue, ks, e)[k] = Append(queue[k], e)
      BY <2>1 DEF Put
    <3>2. Len(queue[k]) < Capacity[k] /\ queue[k] \in Seq(Entry) /\ Capacity[k] \in Nat
      BY <2>1, WorkflowAssumption DEF CanPut, QueuesOK
    <3>3. Append(queue[k], e) \in Seq(Entry) /\ Len(Append(queue[k], e)) = Len(queue[k]) + 1
      BY <3>2, QueueAppend
    <3>. QED  BY <3>1, <3>2, <3>3
  <2>2. CASE k \notin ks
    BY <2>2 DEF Put, QueuesOK
  <2>. QED  BY <2>1, <2>2
<1>. QED  BY <1>1 DEF QueuesOK, Put

LEMMA StoreKeepsQueues ==
  ASSUME QueuesOK(queue), NEW d \in DoneStep \cup {None}, CanStore(d)
  PROVE  QueuesOK(AfterStore(d))
<1>1. CASE d = None
  BY <1>1 DEF AfterStore
<1>2. CASE d # None
  <2>1. d.step \in Entry /\ OutputKeys(d) \subseteq Key /\ CanPut(OutputKeys(d))
    BY <1>2, EntryFacts, WorkflowAssumption DEF CanStore, OutputKeys, DoneStep, Execution
  <2>. QED  BY <1>2, <2>1, PutKeepsQueues DEF AfterStore
<1>. QED  BY <1>1, <1>2

LEMMA FeedKeepsQueues ==
  ASSUME NEW q, QueuesOK(q), NEW i \in Step, CanFeed(i, q)
  PROVE  QueuesOK(AfterFeeding(i, q))
<1>1. ASSUME NEW k \in Key
      PROVE  AfterFeeding(i, q)[k] \in Seq(Entry) /\ Len(AfterFeeding(i, q)[k]) <= Capacity[k]
  <2>1. CASE k \in Reads[i]
    <3>1. AfterFeeding(i, q)[k] = Tail(q[k])
      BY <2>1 DEF AfterFeeding
    <3>2. q[k] \in Seq(Entry) /\ q[k] # <<>> /\ Len(q[k]) <= Capacity[k] /\ Capacity[k] \in Nat
      BY <2>1, WorkflowAssumption DEF CanFeed, QueuesOK
    <3>3. Tail(q[k]) \in Seq(Entry) /\ Len(Tail(q[k])) = Len(q[k]) - 1
      BY <3>2, QueueTail
    <3>4. Len(q[k]) \in Nat
      BY <3>2
    <3>. QED  BY <3>1, <3>2, <3>3, <3>4
  <2>2. CASE k \notin Reads[i]
    BY <2>2 DEF AfterFeeding, QueuesOK
  <2>. QED  BY <2>1, <2>2
<1>. QED  BY <1>1 DEF QueuesOK, AfterFeeding

(* The types, with the domain of the queues, which TypeOK leaves open. *)
Types == TypeOK /\ DOMAIN queue = Key

LEMMA TypesQueues == Types => QueuesOK(queue)
BY DEF Types, TypeOK, QueuesOK

(* What a transaction of the machine does to the types. *)
LEMMA StoredWithTyped ==
  ASSUME Types, NEW d \in DoneStep \cup {None}
  PROVE  StoredWith(d) \in Seq(Execution)
<1>1. CASE d # None
  BY <1>1, EntryFacts, QueueAppend DEF StoredWith, Types, TypeOK
<1>. QED  BY <1>1 DEF StoredWith, Types, TypeOK

LEMMA SyncDataTyped ==
  ASSUME Types, NEW i \in Step, SyncData(i, doneStep)
  PROVE  QueuesOK(queue') /\ stored' \in Seq(Execution) /\ verdict' \in {"ok", "err"}
<1>0. doneStep \in DoneStep \cup {None} /\ stored \in Seq(Execution)
  BY DEF Types, TypeOK
<1>1. CASE CanStore(doneStep) /\ CanFeed(i, AfterStore(doneStep)) /\ verdict' = "ok"
  BY <1>0, <1>1, TypesQueues, StoreKeepsQueues, FeedKeepsQueues, StoredWithTyped DEF SyncData
<1>. QED  BY <1>0, <1>1, TypesQueues DEF SyncData

LEMMA ExitStoreTyped ==
  ASSUME Types, ExitStore(doneStep)
  PROVE  QueuesOK(queue') /\ stored' \in Seq(Execution) /\ verdict' \in {"ok", "err"}
<1>0. doneStep \in DoneStep \cup {None} /\ stored \in Seq(Execution)
  BY DEF Types, TypeOK
<1>. QED  BY <1>0, TypesQueues, StoreKeepsQueues, StoredWithTyped DEF ExitStore

LEMMA ObserveTyped ==
  ASSUME Types, todoStep' \in Step, Observe
  PROVE  inFlight' \in Execution \cup {None} /\ iteration' \in [Step -> Nat]
<1>1. inFlight \in Execution \cup {None} /\ iteration \in [Step -> Nat]
  BY DEF Types, TypeOK
<1>2. CASE BeginStep
  <2>1. [index |-> todoStep', iteration |-> iteration[todoStep']] \in Execution
    BY <1>1 DEF Execution
  <2>. QED  BY <1>1, <1>2, <2>1 DEF BeginStep
<1>. QED  BY <1>1, <1>2 DEF Observe, FinishStep, producerVars

LEMMA SelectedIsStep ==
  ASSUME Types, Selected # 0
  PROVE  Selected \in Step
BY WorkflowAssumption DEF Types, TypeOK, Selected, Step, DoneStep, Execution

LEMMA TypesInit == Init => Types
<1>. SUFFICES ASSUME Init PROVE Types
  OBVIOUS
<1>1. ASSUME NEW k \in Key PROVE queue[k] \in Seq(Entry) /\ Len(queue[k]) <= Capacity[k]
  <2>1. queue[k] \in {<<>>, <<PeerEntry>>}
    BY DEF Init
  <2>2. Capacity[k] \in Nat \ {0}
    BY WorkflowAssumption
  <2>3. <<PeerEntry>> \in Seq(Entry) /\ Len(<<PeerEntry>>) = 1 /\ <<>> \in Seq(Entry) /\ Len(<<>>) = 0
    BY EntryFacts
  <2>4. CASE queue[k] = <<>>
    BY <2>2, <2>3, <2>4
  <2>5. CASE queue[k] = <<PeerEntry>>
    BY <2>2, <2>3, <2>5
  <2>. QED  BY <2>1, <2>4, <2>5
<1>2. DOMAIN queue = Key
  BY DEF Init
<1>3. 1 \in Step /\ 1 \in DOMAIN Stage /\ <<>> \in Seq(Execution)
  BY WorkflowAssumption DEF Step, Stage
<1>. QED  BY <1>1, <1>2, <1>3 DEF Init, Types, TypeOK

(* The next state has the types whenever the parts a step touches do.      *)
LEMMA TypesFromParts ==
  ASSUME progress' \in {"bootstrapping", "seeding", "supervising", "concluded", "rejected"},
         stage' \in DOMAIN Stage,
         phase' \in {"idle", "starting", "selecting", "syncingDb", "running", "exiting", "stopping"},
         todoStep' \in Step, doneStep' \in DoneStep \cup {None},
         verdict' \in {None, "ok", "err"}, error' \in {None, "error", "timeout"},
         QueuesOK(queue'), inFlight' \in Execution \cup {None}, iteration' \in [Step -> Nat],
         completed' \in Seq(Execution), stored' \in Seq(Execution),
         aborted' \in BOOLEAN, interrupted' \in BOOLEAN
  PROVE  Types'
BY DEF Types, TypeOK, QueuesOK

LEMMA TypesStep == Types /\ [Next]_vars => Types'
<1>. SUFFICES ASSUME Types, [Next]_vars PROVE Types'
  OBVIOUS
<1>0. /\ progress \in {"bootstrapping", "seeding", "supervising", "concluded", "rejected"}
      /\ stage \in DOMAIN Stage
      /\ phase \in {"idle", "starting", "selecting", "syncingDb", "running", "exiting", "stopping"}
      /\ todoStep \in Step /\ doneStep \in DoneStep \cup {None}
      /\ verdict \in {None, "ok", "err"} /\ error \in {None, "error", "timeout"}
      /\ QueuesOK(queue) /\ inFlight \in Execution \cup {None} /\ iteration \in [Step -> Nat]
      /\ completed \in Seq(Execution) /\ stored \in Seq(Execution)
      /\ aborted \in BOOLEAN /\ interrupted \in BOOLEAN
  BY TypesQueues DEF Types, TypeOK
<1>. USE DEF machineVars, producerVars, signalVars, Transition
<1>1. CASE PassStage
  <2>1. stage' \in DOMAIN Stage
    BY <1>0, <1>1 DEF PassStage, Stage
  <2>. QED  BY <1>0, <1>1, <2>1, TypesFromParts DEF PassStage
<1>2. CASE FailStage \/ OpenStoreThrows
  BY <1>0, <1>2, TypesFromParts DEF FailStage, OpenStoreThrows
<1>3. CASE SeedAndLaunch
  <2>1. QueuesOK(queue')
    BY <1>0, <1>3, PutKeepsQueues, EntryFacts, WorkflowAssumption DEF SeedAndLaunch
  <2>. QED  BY <1>0, <1>3, <2>1, TypesFromParts DEF SeedAndLaunch
<1>4. CASE SeedFails
  BY <1>0, <1>4, TypesFromParts DEF SeedFails
<1>5. CASE StartDone
  BY <1>0, <1>5, ObserveTyped, TypesFromParts DEF StartDone
<1>6. CASE StartFailed
  BY <1>0, <1>6, ObserveTyped, TypesFromParts DEF StartFailed
<1>7. CASE SelectStep
  BY <1>0, <1>7, ObserveTyped, SelectedIsStep, SyncDataTyped, TypesFromParts DEF SelectStep
<1>8. CASE SelectExit
  BY <1>0, <1>8, ObserveTyped, ExitStoreTyped, TypesFromParts DEF SelectExit
<1>9. CASE SelectFailed
  BY <1>0, <1>9, ObserveTyped, TypesFromParts DEF SelectFailed
<1>10. CASE SyncDone
  BY <1>0, <1>10, ObserveTyped, TypesFromParts DEF SyncDone
<1>11. CASE SyncFailed
  BY <1>0, <1>11, ObserveTyped, ExitStoreTyped, TypesFromParts DEF SyncFailed
<1>12. ASSUME NEW d \in DoneStep, RunDone(d) PROVE Types'
  <2>1. completed' \in Seq(Execution)
    BY <1>0, <1>12, EntryFacts, QueueAppend DEF RunDone
  <2>. QED  BY <1>0, <1>12, <2>1, ObserveTyped, TypesFromParts DEF RunDone
<1>13. CASE RunFailed
  BY <1>0, <1>13, ObserveTyped, ExitStoreTyped, TypesFromParts DEF RunFailed
<1>14. CASE RunTimedOut
  BY <1>0, <1>14, ObserveTyped, ExitStoreTyped, TypesFromParts DEF RunTimedOut
<1>15. CASE ExitDone
  BY <1>0, <1>15, ObserveTyped, TypesFromParts DEF ExitDone
<1>16. CASE Abort
  BY <1>0, <1>16, ObserveTyped, TypesFromParts DEF Abort
<1>17. CASE Conclude
  BY <1>0, <1>17, TypesFromParts DEF Conclude
<1>18. ASSUME NEW k \in Shared, PeerPuts(k) PROVE Types'
  <2>1. queue' = [queue EXCEPT ![k] = Append(queue[k], PeerEntry)]
        /\ Len(queue[k]) < Capacity[k] /\ k \in Key
    BY <1>18, WorkflowAssumption DEF PeerPuts
  <2>2. queue[k] \in Seq(Entry) /\ Capacity[k] \in Nat
    BY <1>0, <2>1, WorkflowAssumption DEF QueuesOK
  <2>3. Append(queue[k], PeerEntry) \in Seq(Entry) /\ Len(Append(queue[k], PeerEntry)) <= Capacity[k]
    BY <2>1, <2>2, QueueAppend, EntryFacts
  <2>4. QueuesOK(queue')
    BY <1>0, <2>1, <2>3 DEF QueuesOK
  <2>. QED  BY <1>0, <1>18, <2>4, TypesFromParts DEF PeerPuts
<1>19. ASSUME NEW k \in Shared, PeerTakes(k) PROVE Types'
  <2>1. queue' = [queue EXCEPT ![k] = Tail(queue[k])] /\ queue[k] # <<>> /\ k \in Key
    BY <1>19, WorkflowAssumption DEF PeerTakes
  <2>2. queue[k] \in Seq(Entry) /\ Capacity[k] \in Nat /\ Len(queue[k]) <= Capacity[k]
    BY <1>0, <2>1, WorkflowAssumption DEF QueuesOK
  <2>3. Tail(queue[k]) \in Seq(Entry) /\ Len(Tail(queue[k])) <= Capacity[k]
    BY <2>1, <2>2, QueueTail
  <2>4. QueuesOK(queue')
    BY <1>0, <2>1, <2>3 DEF QueuesOK
  <2>. QED  BY <1>0, <1>19, <2>4, TypesFromParts DEF PeerTakes
<1>20. CASE UNCHANGED vars
  BY <1>20 DEF vars, Types, TypeOK
<1>21. ASSUME NEW s \in {inFlight} \ {None}, NEW r \in Result, NEW t \in Step, NEW b \in BOOLEAN
       PROVE  [step |-> s, result |-> r, target |-> t, storable |-> b] \in DoneStep
  BY <1>0, <1>21 DEF DoneStep
<1>. QED
  BY <1>1, <1>2, <1>3, <1>4, <1>5, <1>6, <1>7, <1>8, <1>9, <1>10, <1>11, <1>12, <1>13, <1>14,
     <1>15, <1>16, <1>17, <1>18, <1>19, <1>20, <1>21 DEF Next, Machine, Handler, Rest

(* TypeOK holds of any run. *)
THEOREM TypeCorrect == Spec => []TypeOK
<1>1. Types => TypeOK
  BY DEF Types
<1>. QED  BY <1>1, TypesInit, TypesStep, PTL DEF Spec

-----------------------------------------------------------------------------
(* Where the supervisor is, the machine is where it may be then. *)
Control ==
  /\ progress \in {"bootstrapping", "seeding", "rejected"} =>
       phase = "idle" /\ doneStep = None /\ error = None /\ ~interrupted
  /\ progress = "supervising" => phase # "idle"
  /\ progress = "concluded" => phase \in {"idle", "stopping"}
  /\ interrupted => phase = "stopping" /\ aborted
  /\ phase = "running" <=> inFlight # None

(* The last result is not in the store yet. *)
Owed == doneStep # None /\ completed = Append(stored, doneStep.step)
Paid == stored = completed

(* What is in the store, wherever the machine is: between two steps the    *)
(* verdict tells, although the machine has not looked at it yet.           *)
Books ==
  /\ phase \in {"idle", "starting", "running"} => doneStep = None /\ Paid
  /\ phase = "selecting" => IF doneStep = None THEN Paid ELSE Owed
  /\ phase = "syncingDb" => IF verdict = "ok" \/ doneStep = None THEN Paid ELSE Owed
  /\ phase = "exiting" => IF verdict = "err" THEN Owed ELSE Paid
  /\ phase = "stopping" => Paid \/ (Owed /\ (error # None \/ interrupted))

Machinery == Types /\ Control /\ Books

LEMMA MachineryInit == Init => Machinery
BY TypesInit DEF Init, Machinery, Control, Books, Paid

(* A transaction of exiting pays what is owed, or its verdict says not.    *)
LEMMA ExitStorePays ==
  ASSUME ExitStore(doneStep), (Paid /\ doneStep = None) \/ Owed, UNCHANGED <<doneStep, completed>>
  PROVE  IF verdict' = "err" THEN Owed' ELSE Paid'
BY DEF ExitStore, Paid, Owed, CanStore, StoredWith

LEMMA SyncDataPays ==
  ASSUME NEW i, SyncData(i, doneStep), (Paid /\ doneStep = None) \/ Owed,
         UNCHANGED <<doneStep, completed>>
  PROVE  IF verdict' = "ok" \/ doneStep' = None THEN Paid' ELSE Owed'
BY DEF SyncData, Paid, Owed, StoredWith

(* The producer has a step in flight exactly while the machine runs one.   *)
LEMMA ObserveFollows ==
  ASSUME Types, Control, Observe, todoStep' \in Step
  PROVE  phase' = "running" <=> inFlight' # None
<1>1. \A i \in Step : [index |-> i, iteration |-> iteration[i]] \in Execution
  BY DEF Types, TypeOK, Execution
<1>. QED
  BY <1>1, WorkflowAssumption DEF Observe, BeginStep, FinishStep, producerVars, Control

LEMMA MachineryStep == Machinery /\ [Next]_vars => Machinery'
<1>. SUFFICES ASSUME Machinery, [Next]_vars PROVE Machinery'
  OBVIOUS
<1>0. Types /\ Control /\ Books /\ Types'
  BY TypesStep DEF Machinery
<1>1. todoStep' \in Step /\ error' \in {None, "error", "timeout"} /\ verdict' \in {None, "ok", "err"}
  BY <1>0 DEF Types, TypeOK
<1>. SUFFICES Control' /\ Books'
  BY <1>0 DEF Machinery
<1>. USE DEF machineVars, producerVars, signalVars, Transition
<1>2. CASE PassStage \/ FailStage \/ OpenStoreThrows \/ SeedFails
  BY <1>0, <1>2
     DEF PassStage, FailStage, OpenStoreThrows, SeedFails, Control, Books, Paid, Owed
<1>3. CASE SeedAndLaunch
  BY <1>0, <1>3 DEF SeedAndLaunch, Control, Books, Paid, Owed
<1>4. CASE StartDone \/ StartFailed
  BY <1>0, <1>1, <1>4, ObserveFollows DEF StartDone, StartFailed, Control, Books, Paid, Owed
<1>5. CASE SelectStep
  <2>1. IF verdict' = "ok" \/ doneStep' = None THEN Paid' ELSE Owed'
    BY <1>0, <1>5, SyncDataPays DEF SelectStep, Books
  <2>. QED  BY <1>0, <1>1, <1>5, <2>1, ObserveFollows DEF SelectStep, Control, Books
<1>6. CASE SelectExit
  <2>1. IF verdict' = "err" THEN Owed' ELSE Paid'
    BY <1>0, <1>6, ExitStorePays DEF SelectExit, Books
  <2>. QED  BY <1>0, <1>1, <1>6, <2>1, ObserveFollows DEF SelectExit, Control, Books
<1>7. CASE SelectFailed
  <2>1. error' # None
    BY <1>7, WorkflowAssumption DEF SelectFailed
  <2>. QED
    BY <1>0, <1>1, <1>7, <2>1, ObserveFollows DEF SelectFailed, Control, Books, Paid, Owed
<1>8. CASE SyncDone
  BY <1>0, <1>1, <1>8, ObserveFollows DEF SyncDone, Control, Books, Paid
<1>9. CASE SyncFailed
  <2>1. IF verdict' = "err" THEN Owed' ELSE Paid'
    BY <1>0, <1>9, ExitStorePays DEF SyncFailed, Books
  <2>. QED  BY <1>0, <1>1, <1>9, <2>1, ObserveFollows DEF SyncFailed, Control, Books
<1>10. CASE RunFailed \/ RunTimedOut
  <2>1. IF verdict' = "err" THEN Owed' ELSE Paid'
    BY <1>0, <1>10, ExitStorePays DEF RunFailed, RunTimedOut, Books
  <2>. QED
    BY <1>0, <1>1, <1>10, <2>1, ObserveFollows DEF RunFailed, RunTimedOut, Control, Books
<1>11. ASSUME NEW d \in DoneStep, RunDone(d) PROVE Control' /\ Books'
  <2>1. d # None
    BY EntryFacts
  <2>. QED  BY <1>0, <1>1, <1>11, <2>1, ObserveFollows DEF RunDone, Control, Books, Paid, Owed
<1>12. CASE ExitDone
  <2>1. verdict = "err" => error' # None
    BY <1>12, WorkflowAssumption DEF ExitDone
  <2>. QED  BY <1>0, <1>1, <1>12, <2>1, ObserveFollows DEF ExitDone, Control, Books, Paid, Owed
<1>13. CASE Abort
  <2>1. CASE progress = "supervising"
    <3>1. phase' = "stopping" /\ Observe /\ interrupted' = TRUE /\ aborted' = TRUE
      BY <1>13, <2>1 DEF Abort
    <3>2. phase' = "running" <=> inFlight' # None
      BY <1>0, <1>1, <3>1, ObserveFollows
    <3>3. Control'
      BY <1>13, <2>1, <3>1, <3>2 DEF Abort, Control
    <3>4. Paid \/ Owed
      BY <1>0 DEF Books, Types, TypeOK
    <3>5. Books'
      BY <1>13, <3>1, <3>4 DEF Abort, Books, Paid, Owed
    <3>. QED  BY <3>3, <3>5
  <2>2. CASE progress # "supervising"
    <3>1. phase = "idle" /\ phase' = "idle" /\ interrupted' = FALSE /\ inFlight' = inFlight
      BY <1>0, <1>13, <2>2 DEF Abort, Over, Control, Types, TypeOK
    <3>. QED  BY <1>0, <1>13, <2>2, <3>1 DEF Abort, Control, Books, Paid, Owed
  <2>. QED  BY <2>1, <2>2
<1>14. CASE Conclude
  BY <1>0, <1>14 DEF Conclude, Control, Books, Paid, Owed
<1>15. ASSUME NEW k \in Shared, PeerPuts(k) \/ PeerTakes(k) PROVE Control' /\ Books'
  BY <1>0, <1>15 DEF PeerPuts, PeerTakes, Control, Books, Paid, Owed
<1>16. CASE UNCHANGED vars
  BY <1>0, <1>16 DEF vars, Control, Books, Paid, Owed
<1>17. ASSUME NEW s \in {inFlight} \ {None}, NEW r \in Result, NEW t \in Step, NEW b \in BOOLEAN
       PROVE  [step |-> s, result |-> r, target |-> t, storable |-> b] \in DoneStep
  BY <1>0, <1>17 DEF DoneStep, Types, TypeOK
<1>. QED
  BY <1>2, <1>3, <1>4, <1>5, <1>6, <1>7, <1>8, <1>9, <1>10, <1>11, <1>12, <1>13, <1>14, <1>15,
     <1>16, <1>17 DEF Next, Machine, Handler, Rest

(* One more element, and no other change. *)
LEMMA OneMore ==
  ASSUME NEW S, NEW s \in Seq(S), NEW e \in S
  PROVE  /\ IsPrefix(s, Append(s, e)) /\ IsPrefix(s, s)
         /\ Front(Append(s, e)) = s
<1>1. /\ Len(Append(s, e)) = Len(s) + 1 /\ Len(s) \in Nat
      /\ SubSeq(Append(s, e), 1, Len(s)) = s
      /\ SubSeq(s, 1, Len(s)) = s
  OBVIOUS
<1>. QED  BY <1>1 DEF IsPrefix, Front

(* The outputs of completed executions are committed once each, in order   *)
(* and without a gap, all of them before the next handler runs: for any    *)
(* steps, queues and other runs, and an abort at any moment.               *)
THEOREM OutputsAreStoredInOrder == Spec => []StoredInOrder
<1>1. Machinery => StoredInOrder
  <2>. SUFFICES ASSUME Machinery PROVE StoredInOrder
    OBVIOUS
  <2>1. stored \in Seq(Execution) /\ completed \in Seq(Execution) /\ doneStep \in DoneStep \cup {None}
        /\ phase \in {"idle", "starting", "selecting", "syncingDb", "running", "exiting", "stopping"}
    BY DEF Machinery, Types, TypeOK
  <2>2. Paid \/ Owed
    BY <2>1 DEF Machinery, Books
  <2>3. CASE Paid
    BY <2>1, <2>3, OneMore DEF Paid, StoredInOrder, IsPrefix
  <2>4. CASE Owed
    <3>1. doneStep.step \in Execution
      BY <2>1, <2>4, EntryFacts DEF Owed
    <3>2. IsPrefix(stored, completed) /\ Len(completed) <= Len(stored) + 1
      BY <2>1, <2>4, <3>1, OneMore, QueueAppend DEF Owed
    <3>3. phase = "running" => stored = completed
      BY DEF Machinery, Books, Paid
    <3>. QED  BY <3>2, <3>3 DEF StoredInOrder
  <2>. QED  BY <2>2, <2>3, <2>4
<1>. QED  BY <1>1, MachineryInit, MachineryStep, PTL DEF Spec

-----------------------------------------------------------------------------
(* The step that runs is the step selected, so that the result a handler   *)
(* leaves is a result of that step.                                        *)
RunsSelected == phase = "running" => inFlight.index = todoStep

LEMMA RunsSelectedStep ==
  ASSUME Machinery, RunsSelected, [Next]_vars
  PROVE  RunsSelected'
<1>. USE DEF machineVars, producerVars, signalVars, Transition
<1>1. phase' # "running" \/ SyncDone \/ UNCHANGED <<phase, todoStep, inFlight>>
  BY DEF Next, PassStage, FailStage, OpenStoreThrows, SeedAndLaunch, SeedFails, Machine, Handler,
         StartDone, StartFailed, SelectStep, SelectExit, SelectFailed, SyncFailed, RunFailed,
         RunTimedOut, RunDone, ExitDone, Abort, Conclude, PeerPuts, PeerTakes, Rest, vars,
         Machinery, Control
<1>2. CASE SyncDone
  <2>1. BeginStep
    BY <1>2 DEF SyncDone, Observe
  <2>. QED  BY <2>1 DEF BeginStep, RunsSelected
<1>. QED  BY <1>1, <1>2 DEF RunsSelected

LEMMA CourseInit == Init => Abstract!Init
BY DEF Init, Abstract!Init

(* Each action is a step of RunControl, or leaves all it looks at alone.   *)
LEMMA CourseStep ==
  ASSUME Machinery, RunsSelected, [Next]_vars
  PROVE  [Abstract!Next]_(Abstract!vars)
<1>. DEFINE last == IF doneStep = None THEN 0 ELSE doneStep.step.index
<1>0. /\ doneStep \in DoneStep \cup {None} /\ doneStep' \in DoneStep \cup {None}
      /\ StepCount \in Nat \ {0} /\ None \notin DoneStep
      /\ \A d \in DoneStep : d.step.index \in Step /\ d.target \in Step
      /\ todoStep' \in Step
  <2>1. Types /\ Types'
    BY TypesStep DEF Machinery
  <2>. QED  BY <2>1, WorkflowAssumption DEF Types, TypeOK, DoneStep, Execution
<1>. USE DEF machineVars, producerVars, signalVars
<1>1. CASE PassStage
  BY <1>1 DEF PassStage, Abstract!Next, Abstract!Bootstrap, Abstract!Prepare, Abstract!vars
<1>2. CASE FailStage \/ SeedFails
  BY <1>2 DEF FailStage, SeedFails, Abstract!Next, Abstract!Bootstrap, Abstract!FailBootstrap
<1>3. CASE OpenStoreThrows
  BY <1>3 DEF OpenStoreThrows, Abstract!Next, Abstract!Bootstrap, Abstract!OpenStoreThrows
<1>4. CASE SeedAndLaunch
  BY <1>4 DEF SeedAndLaunch, Abstract!Next, Abstract!Bootstrap, Abstract!Launch
<1>. USE DEF Transition, Abstract!Transition
<1>5. CASE StartDone \/ StartFailed
  BY <1>5 DEF StartDone, StartFailed, Abstract!Next, Abstract!Machine, Abstract!Started
<1>6. CASE SelectStep
  <2>1. todoStep' = Selected /\ Selected \in Step
    BY <1>0, <1>6 DEF SelectStep
  <2>2. \/ last \notin ControlFlow /\ last # StepCount /\ todoStep' = last + 1
        \/ last \in ControlFlow /\ todoStep' \in Step
    <3>1. CASE doneStep = None
      BY <1>0, <2>1, <3>1 DEF Selected
    <3>2. CASE doneStep # None
      BY <1>0, <1>6, <2>1, <3>2 DEF Selected, SelectStep, Step
    <3>. QED  BY <3>1, <3>2
  <2>3. Abstract!Select
    BY <1>6, <2>2 DEF SelectStep, Abstract!Select, Abstract!Step, Step
  <2>. QED  BY <2>3 DEF Abstract!Next, Abstract!Machine
<1>7. CASE SelectExit
  <2>1. last = StepCount \/ last \in ControlFlow
    BY <1>0, <1>7 DEF SelectExit, Selected, Step
  <2>2. Abstract!SelectExit
    BY <1>7, <2>1 DEF SelectExit, Abstract!SelectExit
  <2>. QED  BY <2>2 DEF Abstract!Next, Abstract!Machine
<1>8. CASE SelectFailed
  <2>1. last # 0
    BY <1>0, <1>8 DEF SelectFailed, Step
  <2>2. Abstract!SelectFailed
    BY <1>8, <2>1 DEF SelectFailed, Abstract!SelectFailed
  <2>. QED  BY <2>2 DEF Abstract!Next, Abstract!Machine
<1>9. CASE SyncDone
  BY <1>9 DEF SyncDone, Abstract!Next, Abstract!Machine, Abstract!SyncDone
<1>10. CASE SyncFailed
  BY <1>10 DEF SyncFailed, Abstract!Next, Abstract!Machine, Abstract!SyncFailed
<1>11. CASE RunTimedOut
  BY <1>11
     DEF RunTimedOut, Abstract!Next, Abstract!Machine, Abstract!RunTimedOut, Abstract!RunFailed
<1>12. CASE ExitDone
  BY <1>12 DEF ExitDone, Abstract!Next, Abstract!Machine, Abstract!ExitDone
<1>13. CASE RunFailed
  BY <1>13 DEF RunFailed, Abstract!Next, Abstract!RunFailed
<1>14. ASSUME NEW d \in DoneStep, RunDone(d) PROVE Abstract!Next
  <2>1. doneStep' = d /\ d # None /\ d.step.index = todoStep
    BY <1>0, <1>14 DEF RunDone, RunsSelected
  <2>. QED  BY <1>14, <2>1 DEF RunDone, Abstract!Next, Abstract!RunDone
<1>15. CASE Abort
  BY <1>15 DEF Abort, Over, Abstract!Next, Abstract!Abort, Abstract!Over
<1>16. CASE Conclude
  BY <1>16 DEF Conclude, Abstract!Next, Abstract!Conclude
<1>17. CASE (\E k \in Shared : PeerPuts(k) \/ PeerTakes(k)) \/ UNCHANGED vars
  BY <1>17 DEF PeerPuts, PeerTakes, vars, Abstract!vars
<1>18. ASSUME NEW s \in {inFlight} \ {None}, NEW r \in Result, NEW t \in Step, NEW b \in BOOLEAN
       PROVE  [step |-> s, result |-> r, target |-> t, storable |-> b] \in DoneStep
  BY <1>18 DEF DoneStep, Machinery, Types, TypeOK
<1>. QED
  BY <1>1, <1>2, <1>3, <1>4, <1>5, <1>6, <1>7, <1>8, <1>9, <1>10, <1>11, <1>12, <1>13, <1>14,
     <1>15, <1>16, <1>17, <1>18 DEF Next, Machine, Handler, Rest

(* Of any workflow, over any queues and whatever other runs do to them,    *)
(* the machine goes from step to step as RunControl lets it: it feeds a    *)
(* step once, fails for good when it cannot, goes back only where a        *)
(* control-flow step sends it, and stops where it is on an abort.          *)
THEOREM RunFollowsControl == Spec => ImplementsRunControl
<1>1. Init => RunsSelected
  BY DEF Init, RunsSelected
<1>2. Spec => [](Machinery /\ RunsSelected)
  BY <1>1, MachineryInit, MachineryStep, RunsSelectedStep, PTL DEF Spec
<1>. QED
  BY <1>2, CourseInit, CourseStep, PTL DEF Spec, ImplementsRunControl, Abstract!Spec

-----------------------------------------------------------------------------
(* The stream, whatever its events carry: a sequence, of which only the    *)
(* events' names, steps and counts are looked at.                          *)
IsSequence(s) == \E S : s \in Seq(S)
Has(s, kind) == \E i \in 1 .. Len(s) : s[i].event = kind
Open(s) == Len(s) > 0 /\ s[Len(s)].event = "step.start"
TimeoutIn(s) == \E i \in 1 .. Len(s) : s[i].event = "step.end" /\ s[i].outcome = "timeout"

StepsPaired(s) ==
  \A i \in 1 .. Len(s) : s[i].event = "step.end" =>
    /\ i - 1 \in 1 .. Len(s) /\ s[i - 1].event = "step.start" /\ s[i - 1].step = s[i].step
StepsClosed(s) ==
  \A i \in 1 .. Len(s) : s[i].event = "step.start" /\ i < Len(s) =>
    s[i + 1].event \in {"step.end", "run.end"}
StepsNumbered(s, it) ==
  \A i \in 1 .. Len(s) : s[i].event = "step.start" =>
    /\ s[i].step \in Execution /\ s[i].step.iteration < it[s[i].step.index]
    /\ \E j \in 1 .. Len(s) : j < i /\ s[j].event = "run.start"
StepsDistinct(s) ==
  \A i, j \in 1 .. Len(s) :
    s[i].event = "step.start" /\ s[j].event = "step.start" /\ i < j => s[i].step # s[j].step
EndIsFinal(s) ==
  \A i \in 1 .. Len(s) : s[i].event = "run.end" =>
    /\ i = Len(s) /\ Has(s, "run.start")
    /\ s[i].stepsTotal = Cardinality({j \in 1 .. Len(s) : s[j].event = "step.end"})

StreamOK(s, it) ==
  /\ IsSequence(s)
  /\ StepsPaired(s) /\ StepsClosed(s) /\ StepsNumbered(s, it) /\ StepsDistinct(s)
  /\ EndIsFinal(s)

LEMMA SequenceFacts ==
  ASSUME NEW s, IsSequence(s) PROVE Len(s) \in Nat /\ DOMAIN s = 1 .. Len(s)
BY DEF IsSequence

LEMMA AppendFacts ==
  ASSUME NEW s, IsSequence(s), NEW e
  PROVE  /\ IsSequence(Append(s, e))
         /\ Len(s) \in Nat /\ Len(Append(s, e)) = Len(s) + 1
         /\ \A i \in 1 .. Len(s) : Append(s, e)[i] = s[i]
         /\ Append(s, e)[Len(s) + 1] = e
<1>1. PICK S : s \in Seq(S)
  BY DEF IsSequence
<1>2. s \in Seq(S \cup {e}) /\ e \in S \cup {e}
  BY <1>1
<1>3. Append(s, e) \in Seq(S \cup {e})
  BY <1>2
<1>. QED  BY <1>2, <1>3 DEF IsSequence

LEMMA HasAppend ==
  ASSUME NEW s, IsSequence(s), NEW e, NEW kind
  PROVE  Has(Append(s, e), kind) <=> Has(s, kind) \/ e.event = kind
BY AppendFacts DEF Has

(* What is appended to a stream not closed yet keeps it well-formed.       *)
LEMMA AppendNote ==
  ASSUME NEW s, NEW it, StreamOK(s, it), ~Has(s, "run.end"), ~Open(s),
         NEW e, e.event \in {"run.start", "storage.seed", "bootstrap.error"}
  PROVE  StreamOK(Append(s, e), it)
<1>. DEFINE t == Append(s, e)
<1>1. /\ IsSequence(t) /\ Len(s) \in Nat /\ Len(t) = Len(s) + 1
      /\ \A i \in 1 .. Len(s) : t[i] = s[i]
      /\ t[Len(s) + 1] = e
  BY AppendFacts DEF StreamOK
<1>. HIDE DEF t
<1>2. StepsPaired(t)
  BY <1>1 DEF StreamOK, StepsPaired
<1>3. StepsClosed(t)
  BY <1>1 DEF StreamOK, StepsClosed, Open
<1>4. StepsNumbered(t, it)
  BY <1>1 DEF StreamOK, StepsNumbered
<1>5. StepsDistinct(t)
  BY <1>1 DEF StreamOK, StepsDistinct
<1>6. EndIsFinal(t)
  BY <1>1 DEF EndIsFinal, Has
<1>. QED  BY <1>1, <1>2, <1>3, <1>4, <1>5, <1>6 DEF StreamOK, t

LEMMA AppendStart ==
  ASSUME NEW s, NEW it \in [Step -> Nat], StreamOK(s, it), ~Has(s, "run.end"),
         Has(s, "run.start"), ~Open(s),
         NEW e, e.event = "step.start", NEW i \in Step,
         e.step = [index |-> i, iteration |-> it[i]]
  PROVE  StreamOK(Append(s, e), [it EXCEPT ![i] = @ + 1])
<1>. DEFINE t == Append(s, e)
            jt == [it EXCEPT ![i] = @ + 1]
<1>1. /\ IsSequence(t) /\ Len(s) \in Nat /\ Len(t) = Len(s) + 1
      /\ \A j \in 1 .. Len(s) : t[j] = s[j]
      /\ t[Len(s) + 1] = e
  BY AppendFacts DEF StreamOK
<1>2. e.step \in Execution /\ e.step.index = i /\ e.step.iteration = it[i]
  BY DEF Execution
<1>3. /\ \A j \in Step : it[j] <= jt[j] /\ it[j] \in Nat /\ jt[j] \in Nat
      /\ it[i] < jt[i]
  OBVIOUS
<1>4. \A x \in Execution : x.index \in Step /\ x.iteration \in Nat
  BY DEF Execution
<1>. HIDE DEF t, jt
<1>5. StepsPaired(t)
  BY <1>1 DEF StreamOK, StepsPaired
<1>6. StepsClosed(t)
  BY <1>1 DEF StreamOK, StepsClosed, Open
<1>7. StepsNumbered(t, jt)
  <2>. SUFFICES ASSUME NEW k \in 1 .. Len(t), t[k].event = "step.start"
                PROVE  /\ t[k].step \in Execution /\ t[k].step.iteration < jt[t[k].step.index]
                       /\ \E j \in 1 .. Len(t) : j < k /\ t[j].event = "run.start"
    BY DEF StepsNumbered
  <2>1. CASE k \in 1 .. Len(s)
    <3>1. /\ s[k].step \in Execution /\ s[k].step.iteration < it[s[k].step.index]
          /\ \E j \in 1 .. Len(s) : j < k /\ s[j].event = "run.start"
      BY <1>1, <2>1 DEF StreamOK, StepsNumbered
    <3>2. s[k].step.iteration < jt[s[k].step.index]
      BY <1>3, <1>4, <3>1
    <3>. QED  BY <1>1, <2>1, <3>1, <3>2
  <2>2. CASE k = Len(s) + 1
    BY <1>1, <1>2, <1>3, <2>2 DEF Has
  <2>. QED  BY <1>1, <2>1, <2>2
<1>8. \A j \in 1 .. Len(s) : s[j].event = "step.start" => s[j].step # e.step
  <2>. SUFFICES ASSUME NEW j \in 1 .. Len(s), s[j].event = "step.start", s[j].step = e.step
                PROVE  FALSE
    OBVIOUS
  <2>1. e.step.iteration < it[e.step.index]
    BY DEF StreamOK, StepsNumbered
  <2>. QED  BY <1>2, <1>3, <2>1
<1>9. StepsDistinct(t)
  BY <1>1, <1>8 DEF StreamOK, StepsDistinct
<1>10. EndIsFinal(t)
  BY <1>1 DEF EndIsFinal, Has
<1>. QED  BY <1>1, <1>5, <1>6, <1>7, <1>9, <1>10 DEF StreamOK, t, jt

LEMMA AppendEnd ==
  ASSUME NEW s, NEW it, StreamOK(s, it), ~Has(s, "run.end"), Open(s),
         NEW e, e.event = "step.end", e.step = s[Len(s)].step
  PROVE  StreamOK(Append(s, e), it)
<1>. DEFINE t == Append(s, e)
<1>1. /\ IsSequence(t) /\ Len(s) \in Nat /\ Len(t) = Len(s) + 1
      /\ \A i \in 1 .. Len(s) : t[i] = s[i]
      /\ t[Len(s) + 1] = e
  BY AppendFacts DEF StreamOK
<1>. HIDE DEF t
<1>2. StepsPaired(t)
  BY <1>1 DEF StreamOK, StepsPaired, Open
<1>3. StepsClosed(t)
  BY <1>1 DEF StreamOK, StepsClosed
<1>4. StepsNumbered(t, it)
  BY <1>1 DEF StreamOK, StepsNumbered
<1>5. StepsDistinct(t)
  BY <1>1 DEF StreamOK, StepsDistinct
<1>6. EndIsFinal(t)
  BY <1>1 DEF EndIsFinal, Has
<1>. QED  BY <1>1, <1>2, <1>3, <1>4, <1>5, <1>6 DEF StreamOK, t

LEMMA AppendRunEnd ==
  ASSUME NEW s, NEW it, StreamOK(s, it), ~Has(s, "run.end"), Has(s, "run.start"),
         NEW e, e.event = "run.end", e.stepsTotal = StepsEnded(s)
  PROVE  StreamOK(Append(s, e), it)
<1>. DEFINE t == Append(s, e)
<1>1. /\ IsSequence(t) /\ Len(s) \in Nat /\ Len(t) = Len(s) + 1
      /\ \A i \in 1 .. Len(s) : t[i] = s[i]
      /\ t[Len(s) + 1] = e /\ DOMAIN s = 1 .. Len(s)
  BY AppendFacts, SequenceFacts DEF StreamOK
<1>. HIDE DEF t
<1>2. StepsPaired(t)
  BY <1>1 DEF StreamOK, StepsPaired
<1>3. StepsClosed(t)
  BY <1>1 DEF StreamOK, StepsClosed
<1>4. StepsNumbered(t, it)
  BY <1>1 DEF StreamOK, StepsNumbered
<1>5. StepsDistinct(t)
  BY <1>1 DEF StreamOK, StepsDistinct
<1>6. EndIsFinal(t)
  <2>1. {j \in 1 .. Len(t) : t[j].event = "step.end"} = {j \in DOMAIN s : s[j].event = "step.end"}
    BY <1>1
  <2>2. e.stepsTotal = Cardinality({j \in 1 .. Len(t) : t[j].event = "step.end"})
    BY <2>1 DEF StepsEnded
  <2>3. Has(t, "run.start")
    BY <1>1 DEF Has
  <2>4. \A i \in 1 .. Len(s) : t[i].event # "run.end"
    BY <1>1 DEF Has
  <2>. QED  BY <1>1, <2>2, <2>3, <2>4 DEF EndIsFinal
<1>. QED  BY <1>1, <1>2, <1>3, <1>4, <1>5, <1>6 DEF StreamOK, t
-----------------------------------------------------------------------------
(* What the stream says and where the run is.                              *)
Framed ==
  /\ progress = "bootstrapping" => (Has(stream, "run.start") <=> stage > 3)
  /\ (progress = "bootstrapping" /\ stage > 3) \/ progress \in {"seeding", "rejected"} =>
       Len(stream) > 0 /\ stream[Len(stream)].event = "run.start"
  /\ progress \in {"seeding", "rejected"} => stage = Len(Stage)
  /\ progress \in {"seeding", "supervising", "rejected"} => Has(stream, "run.start")
  /\ progress # "concluded" => ~Has(stream, "run.end") /\ ~Has(stream, "bootstrap.error")
  /\ progress \in {"bootstrapping", "seeding", "rejected"} =>
       ~Has(stream, "step.start") /\ ~Has(stream, "step.end")

(* The step in flight is the one the stream left open.                     *)
InFlightOpen ==
  /\ inFlight # None =>
       progress = "supervising" /\ Open(stream) /\ stream[Len(stream)].step = inFlight
  /\ progress = "supervising" /\ Open(stream) => inFlight # None \/ interrupted

(* A bound that expired is the error the run is going to give: a handler   *)
(* that timed out owes nothing, so that exiting has nothing to fail on.    *)
TimedOut ==
  progress = "supervising" /\ TimeoutIn(stream) =>
    /\ error = "timeout" /\ phase \in {"exiting", "stopping"}
    /\ phase = "exiting" => verdict = "ok"

Conclusion ==
  /\ ConclusionHonest
  /\ progress = "concluded" => Paid \/ stream[Len(stream)].outcome # "ok"

Telling == StreamOK(stream, iteration) /\ Framed /\ InFlightOpen
Reporting == Machinery /\ Telling /\ TimedOut /\ Conclusion

LEMMA ReportingInit == Init => Reporting
<1>. SUFFICES ASSUME Init PROVE Reporting
  OBVIOUS
<1>1. stream = <<>> /\ Len(stream) = 0 /\ stream \in Seq({})
  BY DEF Init
<1>2. StreamOK(stream, iteration)
  BY <1>1 DEF StreamOK, IsSequence, StepsPaired, StepsClosed, StepsNumbered, StepsDistinct,
              EndIsFinal
<1>3. Framed /\ InFlightOpen /\ TimedOut /\ Conclusion
  BY <1>1 DEF Init, Framed, InFlightOpen, TimedOut, Conclusion, ConclusionHonest, Has, Open
<1>. QED  BY <1>2, <1>3, MachineryInit DEF Reporting, Telling

LEMMA EmittedIsHas ==
  ASSUME IsSequence(stream) PROVE \A kind : Emitted(kind) <=> Has(stream, kind)
BY SequenceFacts DEF Emitted, Has

(* Whatever transition the producer watches, what it emits fits.           *)
LEMMA ObserveTells ==
  ASSUME Machinery, Machinery', Telling, Observe, todoStep' \in Step,
         progress = "supervising", progress' = "supervising", interrupted => interrupted'
  PROVE  Telling'
<1>0. Types /\ Control /\ Control'
  BY DEF Machinery
<1>1. /\ StreamOK(stream, iteration) /\ IsSequence(stream)
      /\ Has(stream, "run.start") /\ ~Has(stream, "run.end") /\ ~Has(stream, "bootstrap.error")
      /\ iteration \in [Step -> Nat]
      /\ inFlight # None => Open(stream) /\ stream[Len(stream)].step = inFlight
      /\ Open(stream) => inFlight # None \/ interrupted
  BY <1>0 DEF Telling, Framed, InFlightOpen, StreamOK, Types, TypeOK
<1>2. CASE phase # "running" /\ phase' = "running" /\ BeginStep
  <2>. DEFINE s == [index |-> todoStep', iteration |-> iteration[todoStep']]
              e == StartOf(s)
  <2>1. /\ inFlight' = s /\ stream' = Append(stream, e)
        /\ iteration' = [iteration EXCEPT ![todoStep'] = @ + 1]
        /\ e.event = "step.start" /\ e.step = s
    BY <1>2 DEF BeginStep, StartOf
  <2>2. ~Open(stream)
    BY <1>0, <1>1, <1>2 DEF Control
  <2>. HIDE DEF e
  <2>3. StreamOK(stream', iteration')
    BY <1>1, <2>1, <2>2, AppendStart
  <2>4. /\ Has(stream', "run.start") /\ ~Has(stream', "run.end")
        /\ ~Has(stream', "bootstrap.error")
    BY <1>1, <2>1, HasAppend
  <2>5. Open(stream') /\ stream'[Len(stream')].step = inFlight'
    BY <1>1, <2>1, AppendFacts DEF Open
  <2>6. inFlight' # None
    BY <1>0, <1>2 DEF Control
  <2>. QED  BY <2>3, <2>4, <2>5, <2>6 DEF Telling, Framed, InFlightOpen
<1>3. CASE phase = "running" /\ phase' # "running" /\ FinishStep
  <2>0. inFlight' = None /\ iteration' = iteration /\ inFlight # None
    BY <1>0, <1>3 DEF FinishStep, Control
  <2>1. CASE interrupted'
    <3>1. stream' = stream
      BY <1>3, <2>1 DEF FinishStep
    <3>. QED  BY <1>1, <2>0, <2>1, <3>1 DEF Telling, Framed, InFlightOpen
  <2>2. CASE ~interrupted'
    <3>1. PICK outcome : stream' = Append(stream, EndOf(outcome))
      BY <1>3, <2>2 DEF FinishStep
    <3>. DEFINE e == EndOf(outcome)
    <3>2. e.event = "step.end" /\ e.step = inFlight
      BY DEF EndOf
    <3>. HIDE DEF e
    <3>3. StreamOK(stream', iteration')
      BY <1>1, <2>0, <3>1, <3>2, AppendEnd DEF e
    <3>4. /\ Has(stream', "run.start") /\ ~Has(stream', "run.end")
          /\ ~Has(stream', "bootstrap.error")
      BY <1>1, <3>1, <3>2, HasAppend DEF e
    <3>5. ~Open(stream')
      BY <1>1, <3>1, <3>2, AppendFacts DEF Open, e
    <3>. QED  BY <2>0, <3>3, <3>4, <3>5 DEF Telling, Framed, InFlightOpen
  <2>. QED  BY <2>1, <2>2
<1>4. CASE (phase = "running" <=> phase' = "running") /\ UNCHANGED producerVars
  BY <1>1, <1>4 DEF producerVars, Telling, Framed, InFlightOpen
<1>. QED  BY <1>2, <1>3, <1>4 DEF Observe

(* The producer tells of a timeout only when the machine has just set one. *)
LEMMA ObserveTimesOut ==
  ASSUME Machinery, Telling, Observe, TimeoutIn(stream')
  PROVE  \/ TimeoutIn(stream)
         \/ /\ phase = "running" /\ phase' # "running" /\ error' = "timeout"
            /\ ~(doneStep' # None /\ doneStep'.step.index = inFlight.index)
<1>1. IsSequence(stream)
  BY DEF Telling, StreamOK
<1>2. CASE phase # "running" /\ phase' = "running" /\ BeginStep
  <2>1. PICK e : stream' = Append(stream, e) /\ e.event = "step.start"
    BY <1>2 DEF BeginStep, StartOf
  <2>. QED  BY <1>1, <2>1, AppendFacts DEF TimeoutIn
<1>3. CASE phase = "running" /\ phase' # "running" /\ FinishStep
  <2>1. CASE stream' = stream
    BY <2>1
  <2>2. CASE doneStep' # None /\ doneStep'.step.index = inFlight.index /\ stream' # stream
    <3>1. PICK e : stream' = Append(stream, e) /\ e.outcome \in {"error", "ok"}
      BY <1>3, <2>2 DEF FinishStep, EndOf
    <3>. QED  BY <1>1, <3>1, AppendFacts DEF TimeoutIn
  <2>3. CASE ~(doneStep' # None /\ doneStep'.step.index = inFlight.index) /\ stream' # stream
    <3>1. PICK e : stream' = Append(stream, e) /\ e.outcome = error'
      BY <1>3, <2>3 DEF FinishStep, EndOf
    <3>2. TimeoutIn(stream) \/ error' = "timeout"
      BY <1>1, <3>1, AppendFacts DEF TimeoutIn
    <3>. QED  BY <1>3, <2>3, <3>2
  <2>. QED  BY <2>1, <2>2, <2>3
<1>4. CASE UNCHANGED producerVars
  BY <1>4 DEF producerVars
<1>. QED  BY <1>2, <1>3, <1>4 DEF Observe
-----------------------------------------------------------------------------
(* How a run that has started ends, and one that has not does not.         *)
LEMMA EndedSays ==
  ASSUME NEW s, NEW outcome, IsSequence(stream), StreamOK(s, iteration), inFlight = None,
         ~Has(stream, "run.end"), ~Has(s, "run.end"),
         Has(s, "run.start") <=> Has(stream, "run.start")
  PROVE  /\ StreamOK(Ended(s, outcome), iteration)
         /\ ~Has(stream, "run.start") => Ended(s, outcome) = s
         /\ Has(stream, "run.start") =>
              \E e : /\ Ended(s, outcome) = Append(s, e)
                     /\ e.event = "run.end" /\ e.outcome = outcome
<1>. DEFINE e == [event |-> "run.end", outcome |-> outcome,
                  stepsTotal |-> StepsEnded(s), stepsFailed |-> StepsFailed(s)]
<1>1. CASE Has(stream, "run.start")
  <2>1. Ended(s, outcome) = Append(s, e)
    BY <1>1, EmittedIsHas DEF Ended
  <2>2. e.event = "run.end" /\ e.outcome = outcome /\ e.stepsTotal = StepsEnded(s)
    OBVIOUS
  <2>. HIDE DEF e
  <2>3. StreamOK(Append(s, e), iteration)
    BY <1>1, <2>2, AppendRunEnd
  <2>. QED  BY <1>1, <2>1, <2>2, <2>3
<1>2. CASE ~Has(stream, "run.start")
  BY <1>2, EmittedIsHas DEF Ended
<1>. QED  BY <1>1, <1>2

(* The bootstrap that ends a run says so, if the run had started.          *)
LEMMA BootstrapConcludes ==
  ASSUME Machinery, Telling, progress \in {"bootstrapping", "seeding"}, progress' = "concluded",
         NEW s,
         s = stream \/ \E e : s = Append(stream, e) /\ e.event \in {"storage.seed", "bootstrap.error"},
         NEW outcome \in {"error", "interrupted"}, outcome = "interrupted" => aborted,
         stream' = Ended(s, outcome),
         UNCHANGED <<inFlight, iteration, signalVars, completed, stored>>
  PROVE  Telling' /\ TimedOut' /\ Conclusion'
<1>1. /\ StreamOK(stream, iteration) /\ IsSequence(stream)
      /\ ~Has(stream, "run.end") /\ ~Has(stream, "step.start") /\ ~Has(stream, "step.end")
  BY DEF Telling, Framed, StreamOK
<1>2. /\ ~Open(stream) /\ inFlight = None /\ ~interrupted /\ Paid
  <2>1. phase = "idle" /\ ~interrupted
    BY DEF Machinery, Control
  <2>2. inFlight = None /\ Paid
    BY <2>1 DEF Machinery, Control, Books
  <2>3. ~Open(stream)
    BY <1>1, SequenceFacts DEF Open, Has
  <2>. QED  BY <2>1, <2>2, <2>3
<1>3. /\ StreamOK(s, iteration) /\ IsSequence(s) /\ ~Has(s, "run.end") /\ ~Has(s, "step.start")
      /\ ~Has(s, "step.end") /\ (Has(s, "run.start") <=> Has(stream, "run.start"))
  <2>1. CASE s = stream
    BY <1>1, <2>1
  <2>2. CASE s # stream
    <3>0. PICK e : s = Append(stream, e) /\ e.event \in {"storage.seed", "bootstrap.error"}
      BY <2>2
    <3>1. StreamOK(s, iteration)
      BY <1>1, <1>2, <3>0, AppendNote
    <3>2. \A kind : Has(s, kind) <=> Has(stream, kind) \/ e.event = kind
      BY <1>1, <3>0, HasAppend
    <3>. QED  BY <1>1, <3>0, <3>1, <3>2 DEF StreamOK
  <2>. QED  BY <2>1, <2>2
<1>4. /\ StreamOK(stream', iteration') /\ IsSequence(stream')
      /\ ~Has(stream, "run.start") => stream' = s
      /\ Has(stream, "run.start") =>
           \E e : stream' = Append(s, e) /\ e.event = "run.end" /\ e.outcome = outcome
  BY <1>1, <1>2, <1>3, EndedSays DEF StreamOK
<1>5. Telling' /\ TimedOut'
  BY <1>2, <1>4 DEF Telling, Framed, InFlightOpen, TimedOut
<1>6. CASE ~Has(stream, "run.start")
  <2>1. ~Has(stream', "run.start")
    BY <1>3, <1>4, <1>6
  <2>2. ~Emitted("run.start")'
    BY <1>4, <2>1, SequenceFacts DEF Emitted, Has
  <2>. QED  BY <1>2, <1>5, <2>2 DEF Conclusion, ConclusionHonest, Paid
<1>7. CASE Has(stream, "run.start")
  <2>1. PICK e : stream' = Append(s, e) /\ e.event = "run.end" /\ e.outcome = outcome
    BY <1>4, <1>7
  <2>2. stream'[Len(stream')] = e
    BY <1>3, <2>1, AppendFacts
  <2>3. ~Has(stream', "step.end")
    BY <1>3, <2>1, HasAppend
  <2>4. Indices("step.end")' = {}
    BY <1>4, <2>3, SequenceFacts DEF Indices, Has
  <2>5. ConclusionHonest'
    BY <1>2, <2>1, <2>2, <2>4 DEF ConclusionHonest, signalVars
  <2>. QED  BY <1>2, <1>5, <2>5 DEF Conclusion, Paid
<1>. QED  BY <1>6, <1>7, <1>5
LEMMA BootstrapReports ==
  Reporting /\ (PassStage \/ FailStage \/ OpenStoreThrows \/ SeedAndLaunch \/ SeedFails)
    /\ Machinery' => Telling' /\ TimedOut' /\ Conclusion'
<1>. SUFFICES ASSUME Reporting, Machinery',
                     PassStage \/ FailStage \/ OpenStoreThrows \/ SeedAndLaunch \/ SeedFails
              PROVE  Telling' /\ TimedOut' /\ Conclusion'
  OBVIOUS
<1>1. /\ Machinery /\ Telling /\ StreamOK(stream, iteration) /\ IsSequence(stream)
      /\ progress \in {"bootstrapping", "seeding"}
      /\ ~Has(stream, "run.end") /\ ~Has(stream, "bootstrap.error")
      /\ ~Has(stream, "step.start") /\ ~Has(stream, "step.end")
      /\ progress = "bootstrapping" => (Has(stream, "run.start") <=> stage > 3)
      /\ progress = "seeding" => Has(stream, "run.start")
      /\ (progress = "bootstrapping" /\ stage > 3) \/ progress = "seeding" =>
           Len(stream) > 0 /\ stream[Len(stream)].event = "run.start"
  BY DEF Reporting, Telling, Framed, StreamOK, PassStage, FailStage, OpenStoreThrows,
         SeedAndLaunch, SeedFails
<1>2. ~Open(stream) /\ inFlight = None /\ stage \in 1 .. 7
  <2>1. stage \in 1 .. 7
    BY <1>1 DEF Machinery, Types, TypeOK, Stage
  <2>2. ~Open(stream)
    BY <1>1, SequenceFacts DEF Open, Has
  <2>. QED  BY <1>1, <2>1, <2>2 DEF Machinery, Control
<1>3. CASE PassStage
  <2>1. /\ UNCHANGED <<inFlight, iteration>>
        /\ IF stage = 7 THEN progress' = "seeding" /\ stage' = stage
                        ELSE stage' = stage + 1 /\ progress' = "bootstrapping"
        /\ progress = "bootstrapping"
        /\ IF stage = 3 THEN stream' = Append(stream, [event |-> "run.start"]) ELSE stream' = stream
    BY <1>2, <1>3 DEF PassStage, Stage
  <2>2. /\ StreamOK(stream', iteration') /\ IsSequence(stream') /\ ~Open(stream')
        /\ \A kind : Has(stream', kind) <=>
             Has(stream, kind) \/ (stage = 3 /\ kind = "run.start")
        /\ stage >= 3 => Len(stream') > 0 /\ stream'[Len(stream')].event = "run.start"
    <3>1. CASE stage # 3
      BY <1>1, <1>2, <2>1, <3>1
    <3>2. CASE stage = 3
      <4>. DEFINE e == [event |-> "run.start"]
      <4>1. stream' = Append(stream, e) /\ e.event = "run.start"
        BY <2>1, <3>2
      <4>. HIDE DEF e
      <4>2. StreamOK(stream', iteration')
        BY <1>1, <1>2, <2>1, <4>1, AppendNote
      <4>3. \A kind : Has(stream', kind) <=> Has(stream, kind) \/ kind = "run.start"
        BY <1>1, <4>1, HasAppend
      <4>4. /\ ~Open(stream')
            /\ Len(stream') > 0 /\ stream'[Len(stream')].event = "run.start"
        BY <1>1, <4>1, AppendFacts DEF Open
      <4>. QED  BY <3>2, <4>2, <4>3, <4>4 DEF StreamOK
    <3>. QED  BY <3>1, <3>2
  <2>3. Framed'
    <3>1. Has(stream', "run.start") <=> Has(stream, "run.start") \/ stage = 3
      BY <2>2
    <3>2. /\ ~Has(stream', "run.end") /\ ~Has(stream', "bootstrap.error")
          /\ ~Has(stream', "step.start") /\ ~Has(stream', "step.end")
      BY <1>1, <2>2
    <3>. QED  BY <1>1, <1>2, <2>1, <2>2, <3>1, <3>2 DEF Framed, Stage
  <2>4. InFlightOpen' /\ TimedOut' /\ Conclusion'
    BY <1>2, <2>1 DEF InFlightOpen, TimedOut, Conclusion, ConclusionHonest
  <2>. QED  BY <2>2, <2>3, <2>4 DEF Telling
<1>4. CASE FailStage \/ SeedFails
  <2>. DEFINE e == [event |-> "bootstrap.error"]
  <2>1. e.event = "bootstrap.error" /\ Failed(stream) = Append(stream, e)
    BY DEF Failed
  <2>. HIDE DEF e
  <2>2. /\ stream' = Ended(Failed(stream), "error") /\ progress' = "concluded"
        /\ UNCHANGED <<inFlight, iteration, signalVars, completed, stored>>
    BY <1>4 DEF FailStage, SeedFails
  <2>. QED  BY <1>1, <2>1, <2>2, BootstrapConcludes
<1>5. CASE SeedAndLaunch
  <2>. DEFINE e == [event |-> "storage.seed"]
              s == IF Seeded = {} THEN stream ELSE Append(stream, e)
  <2>1. e.event = "storage.seed"
    OBVIOUS
  <2>2. /\ progress = "seeding" /\ UNCHANGED <<inFlight, iteration, signalVars, completed, stored>>
        /\ \/ aborted /\ progress' = "concluded" /\ stream' = Ended(s, "interrupted")
           \/ progress' = "supervising" /\ stream' = s
    BY <1>5 DEF SeedAndLaunch
  <2>3. s = stream \/ s = Append(stream, e)
    OBVIOUS
  <2>. HIDE DEF e, s
  <2>4. CASE progress' = "concluded"
    BY <1>1, <2>1, <2>2, <2>3, <2>4, BootstrapConcludes
  <2>5. CASE progress' = "supervising"
    <3>1. stream' = s
      BY <2>2, <2>5
    <3>2. /\ StreamOK(stream', iteration')
          /\ \A kind : Has(stream', kind) <=>
               Has(stream, kind) \/ (stream' # stream /\ kind = "storage.seed")
      <4>1. CASE stream' = stream
        BY <1>1, <2>2, <4>1
      <4>2. CASE stream' # stream
        <5>1. stream' = Append(stream, e) /\ iteration' = iteration
          BY <2>2, <2>3, <3>1, <4>2
        <5>2. StreamOK(stream', iteration')
          BY <1>1, <1>2, <2>1, <5>1, AppendNote
        <5>3. \A kind : Has(stream', kind) <=> Has(stream, kind) \/ kind = "storage.seed"
          BY <1>1, <2>1, <5>1, HasAppend
        <5>. QED  BY <4>2, <5>2, <5>3
      <4>. QED  BY <4>1, <4>2
    <3>4. Has(stream', "run.start")
      BY <1>1, <2>2, <3>2
    <3>5. /\ ~Has(stream', "run.end") /\ ~Has(stream', "bootstrap.error")
          /\ ~Has(stream', "step.start") /\ ~Has(stream', "step.end")
      BY <1>1, <3>2
    <3>6. ~Open(stream') /\ ~TimeoutIn(stream')
      BY <3>2, <3>5, SequenceFacts DEF Open, Has, TimeoutIn, StreamOK
    <3>. QED
      BY <1>2, <2>2, <2>5, <3>2, <3>4, <3>5, <3>6
         DEF Telling, Framed, InFlightOpen, TimedOut, Conclusion, ConclusionHonest
  <2>. QED  BY <2>2, <2>4, <2>5
<1>6. CASE OpenStoreThrows
  <2>1. /\ progress = "seeding" /\ progress' = "rejected" /\ stage = Len(Stage) /\ phase = "idle"
        /\ UNCHANGED <<stage, phase, stream, iteration, inFlight>>
    BY <1>1, <1>6 DEF OpenStoreThrows, Telling, Framed, Machinery, Control, machineVars, producerVars
  <2>. QED
    BY <1>1, <1>2, <2>1 DEF Telling, Framed, InFlightOpen, TimedOut, Conclusion, ConclusionHonest
<1>. QED  BY <1>3, <1>4, <1>5, <1>6

LEMMA ConcludeReports ==
  Reporting /\ Conclude => Telling' /\ TimedOut' /\ Conclusion'
<1>. SUFFICES ASSUME Reporting, Conclude PROVE Telling' /\ TimedOut' /\ Conclusion'
  OBVIOUS
<1>1. /\ Types /\ Control /\ Books /\ Telling /\ TimedOut
      /\ StreamOK(stream, iteration) /\ IsSequence(stream)
      /\ progress = "supervising" /\ phase = "stopping" /\ progress' = "concluded"
      /\ ~Has(stream, "run.end") /\ ~Has(stream, "bootstrap.error") /\ Has(stream, "run.start")
      /\ inFlight' = None /\ stream' = Ended(stream, Outcome)
      /\ UNCHANGED <<iteration, error, doneStep, stored, completed, aborted, interrupted>>
  BY DEF Reporting, Machinery, Telling, Framed, StreamOK, Conclude, machineVars, signalVars
<1>2. inFlight = None /\ error \in {None, "error", "timeout"}
  BY <1>1 DEF Control, Types, TypeOK
<1>3. /\ Outcome = "interrupted" <=> interrupted
      /\ Outcome = "ok" => error = None
      /\ error = "timeout" => Outcome \in {"timeout", "interrupted"}
      /\ error # None \/ interrupted => Outcome # "ok"
  BY <1>2, WorkflowAssumption DEF Outcome
<1>4. StreamOK(stream', iteration')
  BY <1>1, <1>2, EndedSays
<1>5. PICK e : stream' = Append(stream, e) /\ e.event = "run.end" /\ e.outcome = Outcome
  BY <1>1, <1>2, EndedSays
<1>6. /\ stream'[Len(stream')] = e /\ IsSequence(stream')
      /\ Len(stream) \in Nat /\ Len(stream') = Len(stream) + 1
      /\ \A i \in 1 .. Len(stream) : stream'[i] = stream[i]
  BY <1>1, <1>5, AppendFacts
<1>7. Indices("bootstrap.error")' = {}
  <2>1. ~Has(stream', "bootstrap.error")
    BY <1>1, <1>5, HasAppend
  <2>. QED  BY <1>6, <2>1, SequenceFacts DEF Indices, Has
<1>8. \A i \in Indices("step.end")' :
        stream'[i].outcome = "timeout" => Outcome \in {"timeout", "interrupted"}
  <2>. SUFFICES ASSUME NEW i \in Indices("step.end")', stream'[i].outcome = "timeout"
                PROVE  Outcome \in {"timeout", "interrupted"}
    OBVIOUS
  <2>1. i \in 1 .. Len(stream) + 1 /\ stream'[i].event = "step.end"
    BY <1>6, SequenceFacts DEF Indices
  <2>2. i \in 1 .. Len(stream)
    BY <1>5, <1>6, <2>1
  <2>3. TimeoutIn(stream)
    BY <1>6, <2>1, <2>2 DEF TimeoutIn
  <2>. QED  BY <1>1, <1>3, <2>3 DEF TimedOut
<1>9. ConclusionHonest'
  <2>1. interrupted => aborted
    BY <1>1 DEF Control
  <2>. QED  BY <1>1, <1>3, <1>5, <1>6, <1>7, <1>8, <2>1 DEF ConclusionHonest
<1>10. Paid' \/ Outcome # "ok"
  BY <1>1, <1>3 DEF Books, Paid
<1>. QED
  BY <1>1, <1>4, <1>5, <1>6, <1>9, <1>10
     DEF Telling, Framed, InFlightOpen, TimedOut, Conclusion

(* No transition of the machine, and no abort of it, loses a timeout.      *)
LEMMA SupervisedReports ==
  ASSUME Reporting, Machinery', progress = "supervising", progress' = "supervising", Observe,
         interrupted => interrupted',
         phase \in {"exiting", "stopping"} => phase' = "stopping",
         (error = "timeout" /\ phase \in {"exiting", "stopping"}
            /\ (phase = "exiting" => verdict = "ok")) => error' = "timeout",
         (phase = "running" /\ phase' # "running" /\ error' = "timeout"
            /\ ~(doneStep' # None /\ doneStep'.step.index = inFlight.index)) =>
           phase' \in {"exiting", "stopping"} /\ (phase' = "exiting" => verdict' = "ok")
  PROVE  Telling' /\ TimedOut' /\ Conclusion'
<1>1. Machinery /\ Telling /\ TimedOut /\ todoStep' \in Step
  BY DEF Reporting, Machinery, Types, TypeOK
<1>2. Telling'
  BY <1>1, ObserveTells
<1>3. TimedOut'
  BY <1>1, ObserveTimesOut DEF TimedOut
<1>4. Conclusion'
  BY DEF Conclusion, ConclusionHonest
<1>. QED  BY <1>2, <1>3, <1>4

LEMMA ReportingStep == Reporting /\ [Next]_vars => Reporting'
<1>. SUFFICES ASSUME Reporting, [Next]_vars PROVE Reporting'
  OBVIOUS
<1>1. Machinery /\ Machinery' /\ Telling
  BY MachineryStep DEF Reporting
<1>. SUFFICES Telling' /\ TimedOut' /\ Conclusion'
  BY <1>1 DEF Reporting
<1>2. CASE PassStage \/ FailStage \/ OpenStoreThrows \/ SeedAndLaunch \/ SeedFails
  BY <1>1, <1>2, BootstrapReports
<1>3. CASE Conclude
  BY <1>3, ConcludeReports
<1>4. CASE StartDone \/ StartFailed \/ SelectFailed \/ SyncDone \/ ExitDone
  BY <1>1, <1>4, SupervisedReports, WorkflowAssumption
     DEF StartDone, StartFailed, SelectFailed, SyncDone, ExitDone, Transition, signalVars
<1>5. CASE SelectStep \/ SelectExit \/ SyncFailed
  BY <1>1, <1>5, SupervisedReports
     DEF SelectStep, SelectExit, SyncFailed, Transition, signalVars
<1>6. CASE RunFailed
  BY <1>1, <1>6, SupervisedReports DEF RunFailed, Transition, signalVars
<1>7. CASE RunTimedOut
  <2>1. verdict' = "ok"
    BY <1>1, <1>7 DEF Machinery, Books, RunTimedOut, Transition, ExitStore, CanStore
  <2>. QED  BY <1>1, <1>7, <2>1, SupervisedReports DEF RunTimedOut, Transition, signalVars
<1>8. ASSUME NEW d \in DoneStep, RunDone(d) PROVE Telling' /\ TimedOut' /\ Conclusion'
  <2>1. doneStep' # None /\ doneStep'.step.index = inFlight.index
    BY <1>8, EntryFacts DEF RunDone
  <2>. QED  BY <1>1, <1>8, <2>1, SupervisedReports DEF RunDone, Transition, signalVars
<1>9. CASE Abort
  <2>1. CASE progress = "supervising"
    BY <1>1, <1>9, <2>1, SupervisedReports DEF Abort
  <2>2. CASE progress # "supervising"
    <3>1. /\ progress' = progress /\ ~Over /\ progress # "supervising"
          /\ UNCHANGED <<stage, stream, iteration, inFlight>>
      BY <1>9, <2>2 DEF Abort, producerVars
    <3>. QED
      BY <1>1, <3>1
         DEF Over, Telling, Framed, InFlightOpen, TimedOut, Conclusion, ConclusionHonest
  <2>. QED  BY <2>1, <2>2
<1>10. CASE UNCHANGED <<progress, stage, machineVars, producerVars, signalVars, completed, stored>>
  BY <1>10 DEF Reporting, Telling, Framed, InFlightOpen, TimedOut, Conclusion, ConclusionHonest,
               Emitted, Indices, Paid, machineVars, producerVars, signalVars
<1>11. ASSUME NEW s \in {inFlight} \ {None}, NEW r \in Result, NEW t \in Step, NEW b \in BOOLEAN
       PROVE  [step |-> s, result |-> r, target |-> t, storable |-> b] \in DoneStep
  BY <1>1, <1>11 DEF DoneStep, Machinery, Types, TypeOK
<1>12. CASE \E k \in Shared : PeerPuts(k) \/ PeerTakes(k)
  BY <1>10, <1>12 DEF PeerPuts, PeerTakes
<1>. QED
  BY <1>2, <1>3, <1>4, <1>5, <1>6, <1>7, <1>8, <1>9, <1>10, <1>11, <1>12
     DEF Next, Machine, Handler, Rest, vars
LEMMA Reports == Spec => []Reporting
BY ReportingInit, ReportingStep, PTL DEF Spec

-----------------------------------------------------------------------------
(* The stream of a run, of any workflow and whatever happens to it, reads  *)
(* as one run: every step.end closes the step.start right before it, no    *)
(* execution is told of twice, and a run.end is final and counts right.    *)
THEOREM StreamReadsAsOneRun == Spec => []StreamWellFormed
<1>1. Reporting => StreamWellFormed
  <2>. SUFFICES ASSUME Reporting PROVE StreamWellFormed
    OBVIOUS
  <2>1. /\ StreamOK(stream, iteration) /\ IsSequence(stream) /\ Framed /\ InFlightOpen /\ Control
        /\ Len(stream) \in Nat /\ DOMAIN stream = 1 .. Len(stream)
    BY SequenceFacts DEF Reporting, Telling, Machinery, StreamOK
  <2>2. \A i \in Indices("step.end") :
          stream[i - 1].event = "step.start" /\ stream[i - 1].step = stream[i].step
    BY <2>1 DEF Indices, StreamOK, StepsPaired
  <2>3. \A i \in Indices("step.start") :
          i < Len(stream) => stream[i + 1].event \in {"step.end", "run.end"}
    BY <2>1 DEF Indices, StreamOK, StepsClosed
  <2>4. \A i, j \in Indices("step.start") :
          i < j => stream[i + 1].event = "step.end" /\ stream[i].step # stream[j].step
    <3>. SUFFICES ASSUME NEW i \in Indices("step.start"), NEW j \in Indices("step.start"), i < j
                  PROVE  stream[i + 1].event = "step.end" /\ stream[i].step # stream[j].step
      OBVIOUS
    <3>1. /\ i \in 1 .. Len(stream) /\ j \in 1 .. Len(stream)
          /\ stream[i].event = "step.start" /\ stream[j].event = "step.start"
      BY <2>1 DEF Indices
    <3>2. stream[i].step # stream[j].step
      BY <2>1, <3>1 DEF StreamOK, StepsDistinct
    <3>3. i + 1 \in 1 .. Len(stream) /\ stream[i + 1].event \in {"step.end", "run.end"}
      BY <2>1, <2>3, <3>1
    <3>4. stream[i + 1].event # "run.end"
      <4>. SUFFICES ASSUME stream[i + 1].event = "run.end" PROVE FALSE
        OBVIOUS
      <4>1. i + 1 = Len(stream)
        BY <2>1, <3>3 DEF StreamOK, EndIsFinal
      <4>2. j = i + 1
        BY <2>1, <3>1, <4>1
      <4>. QED  BY <3>1, <4>2
    <3>. QED  BY <3>2, <3>3, <3>4
  <2>5. \A i \in Indices("run.end") :
          /\ i = Len(stream) /\ Emitted("run.start")
          /\ stream[i].stepsTotal = Cardinality(Indices("step.end"))
    BY <2>1 DEF Indices, Emitted, StreamOK, EndIsFinal, Has
  <2>6. \A i \in Indices("step.start") : \E j \in Indices("run.start") : j < i
    BY <2>1 DEF Indices, StreamOK, StepsNumbered
  <2>7. inFlight # None <=>
          progress = "supervising" /\ stream[Len(stream)].event = "step.start" /\ ~interrupted
    <3>1. progress = "supervising" => Len(stream) > 0
      BY <2>1 DEF Framed, Has
    <3>2. inFlight # None => ~interrupted
      BY <2>1 DEF Control
    <3>. QED  BY <2>1, <3>1, <3>2 DEF InFlightOpen, Open
  <2>. QED  BY <2>2, <2>3, <2>4, <2>5, <2>6, <2>7 DEF StreamWellFormed
<1>. QED  BY <1>1, Reports, PTL

(* A concluded run that started has said how it ended, and a bound that    *)
(* expired is the reason it gives, unless the operator interrupted it.     *)
(* Only of a run whose store could not be opened is nothing heard after    *)
(* its run.start.                                                          *)
THEOREM RunEndIsHonest == Spec => []ConclusionHonest
<1>1. Reporting => ConclusionHonest
  BY DEF Reporting, Conclusion
<1>. QED  BY <1>1, Reports, PTL

(* What a concluded run has not stored are the outputs of its last         *)
(* execution, and then it does not call itself ok.                         *)
THEOREM LossIsReported == Spec => []NothingLostSilently
<1>1. Reporting => NothingLostSilently
  <2>. SUFFICES ASSUME Reporting, progress = "concluded", stored # completed
                PROVE  stream[Len(stream)].outcome # "ok" /\ stored = Front(completed)
    BY DEF NothingLostSilently
  <2>1. /\ stream[Len(stream)].outcome # "ok"
        /\ stored \in Seq(Execution) /\ doneStep \in DoneStep \cup {None}
    BY DEF Reporting, Conclusion, Paid, Machinery, Types, TypeOK
  <2>2. Owed
    BY DEF Reporting, Machinery, Control, Books, Paid
  <2>3. doneStep.step \in Execution
    BY <2>1, <2>2, EntryFacts DEF Owed
  <2>. QED  BY <2>1, <2>2, <2>3, OneMore DEF Owed
<1>. QED  BY <1>1, Reports, PTL

(* After an abort was acted on, or once the machine stops, no step starts  *)
(* and nothing of this run reaches the store.                              *)
THEOREM NothingAfterStop == Spec => StopIsFinal
<1>. DEFINE Still == UNCHANGED stored /\ Indices("step.start")' = Indices("step.start")
<1>1. Reporting /\ [Next]_vars => [(interrupted \/ phase = "stopping") => Still]_vars
  <2>. SUFFICES ASSUME Reporting, [Next]_vars, interrupted \/ phase = "stopping" PROVE Still
    OBVIOUS
  <2>1. /\ phase = "stopping" /\ progress \notin {"bootstrapping", "seeding"} /\ inFlight = None
        /\ IsSequence(stream)
    BY DEF Reporting, Machinery, Control, Telling, StreamOK
  <2>2. CASE Conclude
    <3>1. stored' = stored /\ stream' = Ended(stream, Outcome)
      BY <2>2 DEF Conclude
    <3>2. \/ stream' = stream
          \/ \E e : stream' = Append(stream, e) /\ e.event = "run.end"
      BY <2>1, <3>1 DEF Ended
    <3>3. Indices("step.start")' = Indices("step.start")
      <4>1. CASE stream' = stream
        BY <4>1 DEF Indices
      <4>2. CASE stream' # stream
        <5>1. PICK e : stream' = Append(stream, e) /\ e.event = "run.end"
          BY <3>2, <4>2
        <5>2. /\ DOMAIN stream = 1 .. Len(stream) /\ DOMAIN stream' = 1 .. Len(stream) + 1
              /\ Len(stream) \in Nat /\ stream'[Len(stream) + 1] = e
              /\ \A i \in 1 .. Len(stream) : stream'[i] = stream[i]
          BY <2>1, <5>1, AppendFacts, SequenceFacts
        <5>. QED  BY <5>1, <5>2 DEF Indices
      <4>. QED  BY <4>1, <4>2
    <3>. QED  BY <3>1, <3>3
  <2>3. CASE Abort
    <3>1. stored' = stored /\ stream' = stream
      BY <2>1, <2>3 DEF Abort, Observe, producerVars
    <3>. QED  BY <3>1 DEF Indices
  <2>4. CASE \E k \in Shared : PeerPuts(k) \/ PeerTakes(k)
    BY <2>4 DEF PeerPuts, PeerTakes, producerVars, Indices
  <2>5. CASE UNCHANGED vars
    BY <2>5 DEF vars, producerVars, Indices
  <2>6. ~(Machine \/ Handler \/ PassStage \/ FailStage \/ OpenStoreThrows \/ SeedAndLaunch
          \/ SeedFails)
    BY <2>1
       DEF Machine, Handler, PassStage, FailStage, OpenStoreThrows, SeedAndLaunch, SeedFails, StartDone,
                StartFailed, SelectStep, SelectExit, SelectFailed, SyncDone, SyncFailed,
                RunTimedOut, ExitDone, RunFailed, RunDone, Transition
  <2>. QED  BY <2>2, <2>3, <2>4, <2>5, <2>6 DEF Next, Rest
<1>. QED  BY <1>1, Reports, PTL DEF Spec, StopIsFinal, Still
-----------------------------------------------------------------------------
(* Where an entry is: in a sequence, and at one place of it only.          *)
In(s, e) == \E i \in 1 .. Len(s) : s[i] = e
Once(s, e) == \A i, j \in 1 .. Len(s) : s[i] = e /\ s[j] = e => i = j

(* What the step.start events of a stream say step inputs were. *)
GivenAt(s, i, k, e) ==
  s[i].event = "step.start" /\ k \in DOMAIN s[i].inputs /\ s[i].inputs[k] = e
Given(s, k, e) == \E i \in 1 .. Len(s) : GivenAt(s, i, k, e)
GivenOnce(s, k, e) ==
  \A i, j \in 1 .. Len(s) : GivenAt(s, i, k, e) /\ GivenAt(s, j, k, e) => i = j

(* Taken by a transaction whose machine state has not been left yet. *)
Taking(k, e) ==
  phase = "syncingDb" /\ verdict = "ok" /\ k \in DOMAIN inputs /\ inputs[k] = e

(* An output is nowhere before it is stored, and then in one place: in the *)
(* queue, among the inputs just taken, or with the step it was given to.   *)
Accounted(k, e) ==
  /\ In(queue[k], e) \/ Given(stream, k, e) \/ Taking(k, e) => In(stored, e)
  /\ In(queue[k], e) => ~Given(stream, k, e)
  /\ Taking(k, e) => ~In(queue[k], e) /\ ~Given(stream, k, e)
  /\ Once(queue[k], e) /\ GivenOnce(stream, k, e)

Ledger == \A k \in Key : \A e \in Execution : Accounted(k, e)

(* No execution completes twice: the producer numbers them. *)
Fresh ==
  /\ \A e \in Execution : Once(completed, e)
  /\ \A e \in Execution : In(completed, e) => e.iteration < iteration[e.index]
  /\ inFlight # None =>
       inFlight.iteration < iteration[inFlight.index] /\ ~In(completed, inFlight)

Delivery == Reporting /\ Fresh /\ Ledger

LEMMA AppendIn ==
  ASSUME NEW S, NEW s \in Seq(S), NEW x \in S, NEW e
  PROVE  /\ In(Append(s, x), e) <=> In(s, e) \/ x = e
         /\ Once(s, e) /\ (x = e => ~In(s, e)) => Once(Append(s, x), e)
<1>1. /\ Len(s) \in Nat /\ Len(Append(s, x)) = Len(s) + 1
      /\ \A i \in 1 .. Len(s) : Append(s, x)[i] = s[i]
      /\ Append(s, x)[Len(s) + 1] = x
  OBVIOUS
<1>. DEFINE t == Append(s, x)
<1>. HIDE DEF t
<1>2. In(t, e) <=> In(s, e) \/ x = e
  BY <1>1 DEF In, t
<1>3. ASSUME Once(s, e), x = e => ~In(s, e) PROVE Once(t, e)
  BY <1>1, <1>3 DEF Once, In, t
<1>. QED  BY <1>2, <1>3 DEF t

LEMMA TailIn ==
  ASSUME NEW S, NEW s \in Seq(S), s # <<>>, NEW e
  PROVE  /\ In(Tail(s), e) => In(s, e)
         /\ Head(s) = e => In(s, e)
         /\ Once(s, e) => Once(Tail(s), e) /\ (Head(s) = e => ~In(Tail(s), e))
<1>1. /\ Len(s) \in Nat \ {0} /\ Len(Tail(s)) = Len(s) - 1
      /\ \A i \in 1 .. Len(s) - 1 : Tail(s)[i] = s[i + 1]
      /\ Head(s) = s[1]
  OBVIOUS
<1>. DEFINE t == Tail(s)
<1>2. \A i \in 1 .. Len(t) : t[i] = s[i + 1] /\ i + 1 \in 2 .. Len(s)
  BY <1>1
<1>3. Len(t) = Len(s) - 1
  BY <1>1
<1>. HIDE DEF t
<1>4. In(t, e) => In(s, e)
  BY <1>1, <1>2 DEF In
<1>5. Head(s) = e => In(s, e)
  BY <1>1 DEF In
<1>6. ASSUME Once(s, e) PROVE Once(t, e)
  <2>. SUFFICES ASSUME NEW i \in 1 .. Len(t), NEW j \in 1 .. Len(t), t[i] = e, t[j] = e
                PROVE  i = j
    BY DEF Once
  <2>1. i + 1 = j + 1
    BY <1>1, <1>2, <1>6 DEF Once
  <2>. QED  BY <1>1, <1>3, <2>1
<1>7. ASSUME Once(s, e), Head(s) = e, In(t, e) PROVE FALSE
  <2>1. PICK i \in 1 .. Len(t) : t[i] = e
    BY <1>7 DEF In
  <2>2. s[i + 1] = e /\ s[1] = e /\ i + 1 \in 1 .. Len(s) /\ 1 \in 1 .. Len(s) /\ i + 1 # 1
    BY <1>1, <1>2, <1>7, <2>1
  <2>. QED  BY <1>7, <2>2 DEF Once
<1>. QED  BY <1>4, <1>5, <1>6, <1>7 DEF t

(* t tells of the same inputs as s: it is s with other events after it. *)
SameGiven(s, t) ==
  /\ IsSequence(t)
  /\ \A k, e : (Given(t, k, e) <=> Given(s, k, e)) /\ (GivenOnce(s, k, e) => GivenOnce(t, k, e))

LEMMA AppendGiven ==
  ASSUME NEW s, IsSequence(s), NEW x, NEW k, NEW e
  PROVE  LET given == x.event = "step.start" /\ k \in DOMAIN x.inputs /\ x.inputs[k] = e
         IN /\ Given(Append(s, x), k, e) <=> Given(s, k, e) \/ given
            /\ GivenOnce(s, k, e) /\ (given => ~Given(s, k, e)) => GivenOnce(Append(s, x), k, e)
<1>. DEFINE t == Append(s, x)
            given == x.event = "step.start" /\ k \in DOMAIN x.inputs /\ x.inputs[k] = e
<1>1. /\ Len(s) \in Nat /\ Len(t) = Len(s) + 1
      /\ \A i \in 1 .. Len(s) : t[i] = s[i]
      /\ t[Len(s) + 1] = x
  BY AppendFacts
<1>. HIDE DEF t
<1>2. /\ \A i \in 1 .. Len(s) : GivenAt(t, i, k, e) <=> GivenAt(s, i, k, e)
      /\ GivenAt(t, Len(s) + 1, k, e) <=> given
  BY <1>1 DEF GivenAt
<1>. HIDE DEF given
<1>3. Given(t, k, e) <=> Given(s, k, e) \/ given
  BY <1>1, <1>2 DEF Given
<1>4. ASSUME GivenOnce(s, k, e), given => ~Given(s, k, e) PROVE GivenOnce(t, k, e)
  BY <1>1, <1>2, <1>4 DEF GivenOnce, Given
<1>. QED  BY <1>3, <1>4 DEF t, given

LEMMA SameGivenAppend ==
  ASSUME NEW s, NEW t, SameGiven(s, t), NEW x, x.event # "step.start"
  PROVE  SameGiven(s, Append(t, x))
<1>1. IsSequence(t) /\ IsSequence(Append(t, x))
  BY AppendFacts DEF SameGiven
<1>2. ASSUME NEW k, NEW e
      PROVE  /\ Given(Append(t, x), k, e) <=> Given(s, k, e)
             /\ GivenOnce(s, k, e) => GivenOnce(Append(t, x), k, e)
  BY <1>1, AppendGiven DEF SameGiven
<1>. QED  BY <1>1, <1>2 DEF SameGiven

LEMMA SameGivenEnded ==
  ASSUME NEW t, SameGiven(stream, t), NEW o
  PROVE  SameGiven(stream, Ended(t, o))
<1>. DEFINE closed == IF inFlight # None /\ o # "interrupted"
                      THEN Append(t, EndOf("error")) ELSE t
            last == [event |-> "run.end", outcome |-> o,
                     stepsTotal |-> StepsEnded(closed), stepsFailed |-> StepsFailed(closed)]
<1>1. SameGiven(stream, closed)
  BY SameGivenAppend DEF EndOf
<1>2. last.event # "step.start"
  OBVIOUS
<1>3. Ended(t, o) = t \/ Ended(t, o) = Append(closed, last)
  BY DEF Ended
<1>. HIDE DEF closed, last
<1>4. SameGiven(stream, Append(closed, last))
  BY <1>1, <1>2, SameGivenAppend
<1>. QED  BY <1>3, <1>4

-----------------------------------------------------------------------------
(* What is owed has never been stored. *)
LEMMA OwedIsNew ==
  ASSUME Machinery, Fresh, Owed
  PROVE  doneStep.step \in Execution /\ ~In(stored, doneStep.step)
<1>1. stored \in Seq(Execution) /\ doneStep.step \in Execution
  BY EntryFacts DEF Machinery, Types, TypeOK, Owed
<1>2. completed = Append(stored, doneStep.step)
  BY DEF Owed
<1>3. Once(completed, doneStep.step)
  BY <1>1 DEF Fresh
<1>4. /\ Len(stored) \in Nat /\ Len(completed) = Len(stored) + 1
      /\ \A i \in 1 .. Len(stored) : completed[i] = stored[i]
      /\ completed[Len(stored) + 1] = doneStep.step
  BY <1>1, <1>2
<1>. QED  BY <1>1, <1>3, <1>4 DEF Once, In

(* The puts of a transaction: what is owed goes to the end of its queues.  *)
LEMMA StoreAccounts ==
  ASSUME Machinery, Fresh, Ledger, CanStore(doneStep), (Paid /\ doneStep = None) \/ Owed,
         NEW k \in Key, NEW e \in Execution
  PROVE  LET q == AfterStore(doneStep)
         IN /\ q[k] \in Seq(Entry) /\ Once(q[k], e)
            /\ In(q[k], e) \/ Given(stream, k, e) => In(StoredWith(doneStep), e)
            /\ In(q[k], e) => ~Given(stream, k, e)
            /\ In(stored, e) => In(StoredWith(doneStep), e)
<1>. DEFINE d == doneStep
            q == AfterStore(d)
<1>0. Accounted(k, e) /\ queue[k] \in Seq(Entry) /\ stored \in Seq(Execution)
  BY DEF Ledger, Machinery, Types, TypeOK
<1>1. CASE d = None
  BY <1>0, <1>1 DEF AfterStore, StoredWith, Accounted
<1>2. CASE d # None
  <2>1. d.step \in Execution /\ ~In(stored, d.step) /\ d.step \in Entry
    BY <1>2, OwedIsNew DEF Entry
  <2>2. StoredWith(d) = Append(stored, d.step)
    BY <1>2 DEF StoredWith
  <2>3. In(StoredWith(d), e) <=> In(stored, e) \/ d.step = e
    BY <1>0, <2>1, <2>2, AppendIn
  <2>4. q[k] = queue[k] \/ q[k] = Append(queue[k], d.step)
    BY <1>2 DEF AfterStore, Put
  <2>5. d.step = e => ~In(queue[k], e) /\ ~Given(stream, k, e)
    BY <1>0, <2>1 DEF Accounted
  <2>6. CASE q[k] = queue[k]
    BY <1>0, <2>3, <2>6 DEF Accounted
  <2>7. CASE q[k] = Append(queue[k], d.step)
    <3>1. /\ In(q[k], e) <=> In(queue[k], e) \/ d.step = e
          /\ Once(queue[k], e) /\ (d.step = e => ~In(queue[k], e)) => Once(q[k], e)
          /\ q[k] \in Seq(Entry)
      BY <1>0, <2>1, <2>7, AppendIn, QueueAppend
    <3>. QED  BY <1>0, <2>3, <2>5, <3>1 DEF Accounted
  <2>. QED  BY <2>4, <2>6, <2>7
<1>. QED  BY <1>1, <1>2

(* The transaction of exiting. *)
LEMMA ExitStoreAccounts ==
  ASSUME Machinery, Fresh, Ledger, ExitStore(doneStep), (Paid /\ doneStep = None) \/ Owed,
         SameGiven(stream, stream'), phase' # "syncingDb"
  PROVE  Ledger'
<1>. SUFFICES ASSUME NEW k \in Key, NEW e \in Execution PROVE Accounted(k, e)'
  BY DEF Ledger
<1>1. /\ Given(stream', k, e) <=> Given(stream, k, e)
      /\ GivenOnce(stream, k, e) => GivenOnce(stream', k, e)
  BY DEF SameGiven
<1>2. Accounted(k, e)
  BY DEF Ledger
<1>3. CASE CanStore(doneStep) /\ queue' = AfterStore(doneStep) /\ stored' = StoredWith(doneStep)
  BY <1>1, <1>2, <1>3, StoreAccounts DEF Accounted, Taking
<1>4. CASE UNCHANGED <<queue, stored>>
  BY <1>1, <1>2, <1>4 DEF Accounted, Taking
<1>. QED  BY <1>3, <1>4 DEF ExitStore

(* The transaction that stores and feeds: an input taken has left its      *)
(* queue, in which it was once.                                            *)
LEMMA SyncDataAccounts ==
  ASSUME Machinery, Fresh, Ledger, NEW i \in Step, SyncData(i, doneStep),
         (Paid /\ doneStep = None) \/ Owed, SameGiven(stream, stream')
  PROVE  Ledger'
<1>. SUFFICES ASSUME NEW k \in Key, NEW e \in Execution PROVE Accounted(k, e)'
  BY DEF Ledger
<1>1. /\ Given(stream', k, e) <=> Given(stream, k, e)
      /\ GivenOnce(stream, k, e) => GivenOnce(stream', k, e)
  BY DEF SameGiven
<1>2. Accounted(k, e)
  BY DEF Ledger
<1>. DEFINE q == AfterStore(doneStep)
<1>3. CASE /\ CanStore(doneStep) /\ CanFeed(i, q)
           /\ queue' = AfterFeeding(i, q) /\ inputs' = Taken(i, q)
           /\ stored' = StoredWith(doneStep)
  <2>1. /\ q[k] \in Seq(Entry) /\ Once(q[k], e)
        /\ In(q[k], e) \/ Given(stream, k, e) => In(stored', e)
        /\ In(q[k], e) => ~Given(stream, k, e)
        /\ In(stored, e) => In(stored', e)
    BY <1>3, StoreAccounts
  <2>. HIDE DEF q
  <2>2. DOMAIN inputs' = Reads[i]
    BY <1>3 DEF Taken
  <2>3. CASE k \in Reads[i]
    <3>1. q[k] # <<>> /\ queue'[k] = Tail(q[k]) /\ inputs'[k] = Head(q[k])
      BY <1>3, <2>3 DEF CanFeed, AfterFeeding, Taken
    <3>2. /\ In(queue'[k], e) => In(q[k], e)
          /\ inputs'[k] = e => In(q[k], e) /\ ~In(queue'[k], e)
          /\ Once(queue'[k], e)
      BY <2>1, <3>1, TailIn
    <3>. QED  BY <1>1, <1>2, <2>1, <3>2 DEF Accounted, Taking
  <2>4. CASE k \notin Reads[i]
    <3>1. queue'[k] = q[k]
      BY <1>3, <2>4 DEF AfterFeeding
    <3>. QED  BY <1>1, <1>2, <2>1, <2>2, <2>4, <3>1 DEF Accounted, Taking
  <2>. QED  BY <2>3, <2>4
<1>4. CASE UNCHANGED <<queue, stored>> /\ verdict' = "err"
  BY <1>1, <1>2, <1>4 DEF Accounted, Taking
<1>. QED  BY <1>3, <1>4 DEF SyncData

(* A step that leaves the books alone. *)
LEMMA NothingAccounts ==
  ASSUME Ledger, UNCHANGED <<queue, stored>>, SameGiven(stream, stream'),
         phase' # "syncingDb" \/ UNCHANGED <<phase, verdict, inputs>>
  PROVE  Ledger'
<1>. SUFFICES ASSUME NEW k \in Key, NEW e \in Execution PROVE Accounted(k, e)'
  BY DEF Ledger
<1>1. Accounted(k, e)
  BY DEF Ledger
<1>2. /\ Given(stream', k, e) <=> Given(stream, k, e)
      /\ GivenOnce(stream, k, e) => GivenOnce(stream', k, e)
  BY DEF SameGiven
<1>. QED  BY <1>1, <1>2 DEF Accounted, Taking

(* What others put is no output of this run, and what they take is gone.   *)
LEMMA OthersAccount ==
  ASSUME Machinery, Ledger,
         \A k \in Key : \/ queue'[k] = queue[k]
                        \/ \E x \in {SeedEntry, PeerEntry} : queue'[k] = Append(queue[k], x)
                        \/ queue[k] # <<>> /\ queue'[k] = Tail(queue[k]),
         stored' = stored, SameGiven(stream, stream'),
         phase' # "syncingDb" \/ UNCHANGED <<phase, verdict, inputs>>
  PROVE  Ledger'
<1>. SUFFICES ASSUME NEW k \in Key, NEW e \in Execution PROVE Accounted(k, e)'
  BY DEF Ledger
<1>1. Accounted(k, e) /\ queue[k] \in Seq(Entry)
  BY DEF Ledger, Machinery, Types, TypeOK
<1>2. /\ Given(stream', k, e) <=> Given(stream, k, e)
      /\ GivenOnce(stream, k, e) => GivenOnce(stream', k, e)
  BY DEF SameGiven
<1>3. (In(queue'[k], e) => In(queue[k], e)) /\ Once(queue'[k], e)
  <2>1. CASE queue'[k] = queue[k]
    BY <1>1, <2>1 DEF Accounted
  <2>2. ASSUME NEW x \in {SeedEntry, PeerEntry}, queue'[k] = Append(queue[k], x)
        PROVE  (In(queue'[k], e) => In(queue[k], e)) /\ Once(queue'[k], e)
    <3>1. x \in Entry /\ x # e
      BY EntryFacts, WorkflowAssumption DEF SeedEntry, PeerEntry, Execution, Step
    <3>. QED  BY <1>1, <2>2, <3>1, AppendIn DEF Accounted
  <2>3. CASE queue[k] # <<>> /\ queue'[k] = Tail(queue[k])
    BY <1>1, <2>3, TailIn DEF Accounted
  <2>. QED  BY <2>1, <2>2, <2>3
<1>. QED  BY <1>1, <1>2, <1>3 DEF Accounted, Taking

(* The step starts: what was taken is now what it was given. *)
LEMMA StartAccounts ==
  ASSUME Ledger, UNCHANGED <<queue, stored, inputs>>, IsSequence(stream),
         phase = "syncingDb", verdict = "ok", phase' = "running",
         NEW x, stream' = Append(stream, x), x.event = "step.start", x.inputs = inputs
  PROVE  Ledger'
<1>. SUFFICES ASSUME NEW k \in Key, NEW e \in Execution PROVE Accounted(k, e)'
  BY DEF Ledger
<1>1. Accounted(k, e)
  BY DEF Ledger
<1>2. /\ Given(stream', k, e) <=> Given(stream, k, e) \/ Taking(k, e)
      /\ GivenOnce(stream, k, e) /\ (Taking(k, e) => ~Given(stream, k, e)) => GivenOnce(stream', k, e)
  BY AppendGiven DEF Taking
<1>. QED  BY <1>1, <1>2 DEF Accounted, Taking

-----------------------------------------------------------------------------
LEMMA ObserveFresh ==
  ASSUME Types, Fresh, Observe, todoStep' \in Step, completed' = completed
  PROVE  Fresh'
<1>0. /\ iteration \in [Step -> Nat] /\ inFlight \in Execution \cup {None}
      /\ \A x \in Execution : x.index \in Step /\ x.iteration \in Nat
  BY DEF Types, TypeOK, Execution
<1>1. CASE BeginStep
  <2>. DEFINE i == todoStep'
              s == [index |-> i, iteration |-> iteration[i]]
  <2>1. /\ inFlight' = s /\ iteration' = [iteration EXCEPT ![i] = @ + 1]
        /\ s \in Execution /\ s.index = i /\ s.iteration = iteration[i]
    BY <1>0, <1>1 DEF BeginStep, Execution
  <2>2. ~In(completed, s)
    BY <1>0, <2>1 DEF Fresh
  <2>3. /\ \A j \in Step : iteration[j] <= iteration'[j] /\ iteration'[j] \in Nat
        /\ iteration[i] < iteration'[i]
    BY <1>0, <2>1
  <2>. HIDE DEF i, s
  <2>4. \A x \in Execution : In(completed, x) => x.iteration < iteration'[x.index]
    BY <1>0, <2>3 DEF Fresh
  <2>. QED  BY <2>1, <2>2, <2>3, <2>4 DEF Fresh
<1>2. CASE FinishStep
  BY <1>2 DEF FinishStep, Fresh
<1>3. CASE UNCHANGED producerVars
  BY <1>3 DEF producerVars, Fresh
<1>. QED  BY <1>1, <1>2, <1>3 DEF Observe

LEMMA RunDoneFresh ==
  ASSUME Types, Fresh, NEW d \in DoneStep, RunDone(d)
  PROVE  Fresh'
<1>1. /\ inFlight' = None /\ iteration' = iteration /\ d.step = inFlight
      /\ completed' = Append(completed, inFlight)
  BY DEF RunDone, Transition, Observe, FinishStep
<1>2. /\ inFlight \in Execution /\ inFlight # None /\ completed \in Seq(Execution)
      /\ inFlight.iteration < iteration[inFlight.index] /\ ~In(completed, inFlight)
  BY <1>1, EntryFacts, WorkflowAssumption DEF Types, TypeOK, Fresh
<1>3. ASSUME NEW e \in Execution
      PROVE  /\ Once(completed', e)
             /\ In(completed', e) => e.iteration < iteration[e.index]
  <2>1. Once(completed, e) /\ (In(completed, e) => e.iteration < iteration[e.index])
    BY DEF Fresh
  <2>. QED  BY <1>1, <1>2, <2>1, AppendIn
<1>. QED  BY <1>1, <1>3 DEF Fresh

(* What the producer emits at a transition that starts no step. *)
LEMMA ObserveSameGiven ==
  ASSUME Telling, Observe, phase' # "running"
  PROVE  SameGiven(stream, stream')
<1>1. SameGiven(stream, stream)
  BY DEF SameGiven, Telling, StreamOK
<1>2. \A o : EndOf(o).event # "step.start"
  BY DEF EndOf
<1>3. stream' = stream \/ \E o : stream' = Append(stream, EndOf(o))
  BY DEF Observe, FinishStep, producerVars
<1>. QED  BY <1>1, <1>2, <1>3, SameGivenAppend

LEMMA DeliveryInit == Init => Delivery
<1>. SUFFICES ASSUME Init PROVE Delivery
  OBVIOUS
<1>1. completed = <<>> /\ stream = <<>> /\ stored = <<>> /\ inFlight = None /\ phase = "idle"
      /\ Len(<<>>) = 0
  BY DEF Init
<1>2. Fresh
  BY <1>1 DEF Fresh, Once, In
<1>3. ASSUME NEW k \in Key, NEW e \in Execution PROVE Accounted(k, e)
  <2>1. queue[k] \in {<<>>, <<PeerEntry>>}
    BY DEF Init
  <2>2. PeerEntry # e
    BY WorkflowAssumption DEF PeerEntry, Execution, Step
  <2>3. Len(<<PeerEntry>>) = 1 /\ <<PeerEntry>>[1] = PeerEntry
    OBVIOUS
  <2>4. ~In(queue[k], e) /\ Once(queue[k], e)
    BY <1>1, <2>1, <2>2, <2>3 DEF In, Once
  <2>. QED  BY <1>1, <2>4 DEF Accounted, Given, GivenOnce, Taking
<1>. QED  BY <1>2, <1>3, ReportingInit DEF Delivery, Ledger

LEMMA DeliveryStep == Delivery /\ [Next]_vars => Delivery'
<1>. SUFFICES ASSUME Delivery, [Next]_vars PROVE Delivery'
  OBVIOUS
<1>0. /\ Reporting /\ Machinery /\ Types /\ Control /\ Books /\ Telling /\ Fresh /\ Ledger
      /\ IsSequence(stream) /\ SameGiven(stream, stream)
      /\ Reporting' /\ todoStep' \in Step
  <2>1. Reporting' /\ Reporting
    BY ReportingStep DEF Delivery
  <2>2. todoStep' \in Step
    BY <2>1 DEF Reporting, Machinery, Types, TypeOK
  <2>. QED  BY <2>1, <2>2 DEF Delivery, Reporting, Machinery, Telling, StreamOK, SameGiven
<1>. SUFFICES Fresh' /\ Ledger'
  BY <1>0 DEF Delivery
<1>. USE DEF machineVars, producerVars, signalVars, Transition
<1>1. CASE PassStage \/ FailStage \/ OpenStoreThrows \/ SeedFails
  <2>1. completed' = completed /\ iteration' = iteration /\ inFlight' = inFlight
    BY <1>1 DEF PassStage, FailStage, OpenStoreThrows, SeedFails
  <2>2. Failed(stream) = Append(stream, [event |-> "bootstrap.error"])
        /\ SameGiven(stream, Failed(stream))
    BY <1>0, SameGivenAppend DEF Failed
  <2>3. SameGiven(stream, Append(stream, [event |-> "run.start"]))
    BY <1>0, SameGivenAppend
  <2>4. SameGiven(stream, stream')
    BY <1>0, <1>1, <2>2, <2>3, SameGivenEnded DEF PassStage, FailStage, OpenStoreThrows, SeedFails
  <2>5. UNCHANGED <<queue, stored, phase, verdict, inputs>>
    BY <1>1 DEF PassStage, FailStage, OpenStoreThrows, SeedFails
  <2>. QED  BY <1>0, <2>1, <2>4, <2>5, NothingAccounts DEF Fresh
<1>2. CASE SeedAndLaunch
  <2>1. completed' = completed /\ iteration' = iteration /\ inFlight' = inFlight
    BY <1>2 DEF SeedAndLaunch
  <2>. DEFINE seeded == IF Seeded = {} THEN stream
                        ELSE Append(stream, [event |-> "storage.seed"])
  <2>2. SameGiven(stream, seeded)
    BY <1>0, SameGivenAppend
  <2>3. stream' = seeded \/ stream' = Ended(seeded, "interrupted")
    BY <1>2 DEF SeedAndLaunch
  <2>. HIDE DEF seeded
  <2>4. SameGiven(stream, stream')
    BY <2>2, <2>3, SameGivenEnded
  <2>5. /\ stored' = stored /\ phase' # "syncingDb"
        /\ \A k \in Key : queue'[k] = queue[k] \/ queue'[k] = Append(queue[k], SeedEntry)
    BY <1>0, <1>2 DEF SeedAndLaunch, Control, Put
  <2>. QED  BY <1>0, <2>1, <2>4, <2>5, OthersAccount DEF Fresh
<1>3. CASE StartDone \/ StartFailed \/ SelectFailed \/ ExitDone
  <2>1. Observe /\ phase' \notin {"running", "syncingDb"} /\ UNCHANGED <<completed, queue, stored>>
    BY <1>3 DEF StartDone, StartFailed, SelectFailed, ExitDone
  <2>. QED  BY <1>0, <2>1, ObserveFresh, ObserveSameGiven, NothingAccounts
<1>4. CASE SelectStep
  <2>1. /\ Observe /\ phase' = "syncingDb" /\ completed' = completed
        /\ SyncData(Selected, doneStep) /\ Selected \in Step
    BY <1>0, <1>4, SelectedIsStep DEF SelectStep
  <2>2. (Paid /\ doneStep = None) \/ Owed
    BY <1>0, <1>4 DEF SelectStep, Books
  <2>. QED  BY <1>0, <2>1, <2>2, ObserveFresh, ObserveSameGiven, SyncDataAccounts
<1>5. CASE SelectExit \/ SyncFailed \/ RunFailed \/ RunTimedOut
  <2>1. /\ Observe /\ phase' = "exiting" /\ completed' = completed /\ ExitStore(doneStep)
    BY <1>5 DEF SelectExit, SyncFailed, RunFailed, RunTimedOut
  <2>2. (Paid /\ doneStep = None) \/ Owed
    BY <1>0, <1>5 DEF SelectExit, SyncFailed, RunFailed, RunTimedOut, Books
  <2>. QED  BY <1>0, <2>1, <2>2, ObserveFresh, ObserveSameGiven, ExitStoreAccounts
<1>6. CASE SyncDone
  <2>1. /\ Observe /\ phase = "syncingDb" /\ phase' = "running" /\ verdict = "ok"
        /\ UNCHANGED <<completed, queue, stored, inputs>>
    BY <1>6 DEF SyncDone
  <2>2. PICK s : stream' = Append(stream, StartOf(s))
    BY <2>1 DEF Observe, BeginStep
  <2>3. StartOf(s).event = "step.start" /\ StartOf(s).inputs = inputs
    BY <2>1 DEF StartOf
  <2>4. Ledger'
    BY <1>0, <2>1, <2>2, <2>3, StartAccounts
  <2>. QED  BY <1>0, <2>1, <2>4, ObserveFresh
<1>7. ASSUME NEW d \in DoneStep, RunDone(d) PROVE Fresh' /\ Ledger'
  <2>1. Observe /\ phase' = "selecting" /\ UNCHANGED <<queue, stored>>
    BY <1>7 DEF RunDone
  <2>. QED  BY <1>0, <1>7, <2>1, RunDoneFresh, ObserveSameGiven, NothingAccounts
<1>8. CASE Abort
  <2>1. UNCHANGED <<completed, queue, stored, verdict, inputs>>
    BY <1>8 DEF Abort
  <2>2. CASE progress = "supervising"
    <3>1. Observe /\ phase' = "stopping"
      BY <1>8, <2>2 DEF Abort
    <3>. QED  BY <1>0, <2>1, <3>1, ObserveFresh, ObserveSameGiven, NothingAccounts
  <2>3. CASE progress # "supervising"
    <3>1. UNCHANGED <<phase, stream, inFlight, iteration>>
      BY <1>8, <2>3 DEF Abort
    <3>. QED  BY <1>0, <2>1, <3>1, NothingAccounts DEF Fresh
  <2>. QED  BY <2>2, <2>3
<1>9. CASE Conclude
  <2>1. /\ UNCHANGED <<completed, iteration, queue, stored, phase, verdict, inputs>>
        /\ inFlight' = None /\ stream' = Ended(stream, Outcome)
    BY <1>9 DEF Conclude
  <2>2. SameGiven(stream, stream')
    BY <1>0, <2>1, SameGivenEnded
  <2>. QED  BY <1>0, <2>1, <2>2, NothingAccounts DEF Fresh
<1>10. ASSUME NEW k \in Shared, PeerPuts(k) \/ PeerTakes(k) PROVE Fresh' /\ Ledger'
  <2>1. UNCHANGED <<completed, iteration, inFlight, stored, stream, phase, verdict, inputs>>
    BY <1>10 DEF PeerPuts, PeerTakes
  <2>2. \A j \in Key : \/ queue'[j] = queue[j]
                       \/ \E x \in {SeedEntry, PeerEntry} : queue'[j] = Append(queue[j], x)
                       \/ queue[j] # <<>> /\ queue'[j] = Tail(queue[j])
    BY <1>0, <1>10, WorkflowAssumption DEF PeerPuts, PeerTakes, Types
  <2>. QED  BY <1>0, <2>1, <2>2, OthersAccount DEF Fresh
<1>11. CASE UNCHANGED vars
  <2>1. UNCHANGED <<completed, iteration, inFlight, queue, stored, stream, phase, verdict, inputs>>
    BY <1>11 DEF vars
  <2>. QED  BY <1>0, <2>1, NothingAccounts DEF Fresh
<1>12. ASSUME NEW s \in {inFlight} \ {None}, NEW r \in Result, NEW t \in Step, NEW b \in BOOLEAN
       PROVE  [step |-> s, result |-> r, target |-> t, storable |-> b] \in DoneStep
  BY <1>0, <1>12 DEF DoneStep, Types, TypeOK
<1>. QED
  BY <1>1, <1>2, <1>3, <1>4, <1>5, <1>6, <1>7, <1>8, <1>9, <1>10, <1>11, <1>12
  DEF Next, Machine, Handler, Rest

LEMMA AtMostOne ==
  ASSUME NEW S, \A x, y \in S : x = y
  PROVE  Cardinality(S) \in {0, 1} /\ (S = {} => Cardinality(S) = 0)
<1>1. CASE S = {}
  BY <1>1, FS_EmptySet
<1>2. CASE S # {}
  <2>1. PICK x \in S : TRUE
    BY <1>2
  <2>2. S = {x}
    BY <2>1
  <2>3. Cardinality({x}) = 1
    BY FS_Singleton
  <2>. QED  BY <1>2, <2>2, <2>3
<1>. QED  BY <1>1, <1>2

(* An output is in a queue, or was handed to one execution, and never both *)
(* or twice: for any steps, queues and other runs, a transaction that      *)
(* fails half way and is tried again, and an abort at any moment.          *)
THEOREM OutputsAreDeliveredOnce == Spec => []DeliveredOnce
<1>1. Delivery => DeliveredOnce
  <2>. SUFFICES ASSUME Delivery, NEW k \in Key, NEW e \in ToSet(completed)
                PROVE  Cardinality({i \in Indices("step.start") :
                                      k \in DOMAIN stream[i].inputs /\ stream[i].inputs[k] = e})
                         + Cardinality({j \in DOMAIN queue[k] : queue[k][j] = e}) <= 1
    BY DEF DeliveredOnce
  <2>. DEFINE A == {i \in Indices("step.start") :
                      k \in DOMAIN stream[i].inputs /\ stream[i].inputs[k] = e}
              B == {j \in DOMAIN queue[k] : queue[k][j] = e}
  <2>1. /\ completed \in Seq(Execution) /\ queue[k] \in Seq(Entry)
        /\ IsSequence(stream)
    BY DEF Delivery, Reporting, Machinery, Types, TypeOK, Telling, StreamOK
  <2>2. e \in Execution
    BY <2>1 DEF ToSet
  <2>3. Accounted(k, e)
    BY <2>2 DEF Delivery, Ledger
  <2>4. DOMAIN stream = 1 .. Len(stream) /\ DOMAIN queue[k] = 1 .. Len(queue[k])
    BY <2>1, SequenceFacts
  <2>5. A = {i \in 1 .. Len(stream) : GivenAt(stream, i, k, e)}
    BY <2>4 DEF Indices, GivenAt
  <2>6. B = {j \in 1 .. Len(queue[k]) : queue[k][j] = e}
    BY <2>4
  <2>. HIDE DEF A, B
  <2>7. (\A x, y \in A : x = y) /\ (\A x, y \in B : x = y) /\ (A = {} \/ B = {})
    BY <2>3, <2>5, <2>6 DEF Accounted, GivenOnce, Once, Given, In
  <2>8. /\ Cardinality(A) \in {0, 1} /\ Cardinality(B) \in {0, 1}
        /\ Cardinality(A) = 0 \/ Cardinality(B) = 0
    BY <2>7, AtMostOne
  <2>9. Cardinality(A) + Cardinality(B) <= 1
    BY <2>8
  <2>. QED  BY <2>9 DEF A, B
<1>. QED  BY <1>1, DeliveryInit, DeliveryStep, PTL DEF Spec

-----------------------------------------------------------------------------
(* The consumers.  Each is a fold of its own over the stream, so that an   *)
(* event more is a step more of it.                                        *)
Pretty(t, e) == Rendered("pretty", t, e)
Quiet(t, e) == Rendered("quiet", t, e)

Spans == INSTANCE FoldTheorems WITH Op <- Bridged
Prettily == INSTANCE FoldTheorems WITH Op <- Pretty
Quietly == INSTANCE FoldTheorems WITH Op <- Quiet
Entries == INSTANCE FoldTheorems WITH Op <- Registered
Counts == INSTANCE FoldTheorems WITH Op <- Counted
Logs == INSTANCE FoldTheorems WITH Op <- Logged

BridgeOf(s) == FoldLeft(Bridged, NoBridge, s)
PrettyOf(s) == FoldLeft(Pretty, NoTerminal, s)
QuietOf(s) == FoldLeft(Quiet, NoTerminal, s)
EntryOf(s) == FoldLeft(Registered, NoEntry, s)
CountOf(s) == FoldLeft(Counted, [ok |-> 0, failed |-> 0], s)
LogOf(s) == FoldLeft(Logged, <<>>, s)

(* The consumers have seen the stream, and nothing but it. *)
LEMMA ConsumersFold ==
  /\ Bridge = BridgeOf(stream) /\ RegistryEntry = EntryOf(stream)
  /\ CountedSteps = CountOf(stream) /\ ErrorLog = LogOf(stream)
  /\ Terminal("pretty") = PrettyOf(stream) /\ Terminal("quiet") = QuietOf(stream)
<1>1. Terminal("pretty") = PrettyOf(stream) /\ Terminal("quiet") = QuietOf(stream)
  BY DEF Terminal, PrettyOf, QuietOf, Pretty, Quiet, FoldLeft, MapThenFoldSet
<1>. QED  BY <1>1 DEF Bridge, BridgeOf, RegistryEntry, EntryOf, CountedSteps, CountOf, ErrorLog, LogOf

(* An event more: what each fold makes of it. *)
LEMMA BridgeFold ==
  /\ BridgeOf(<<>>) = NoBridge
  /\ \A s, e : IsSequence(s) => BridgeOf(Append(s, e)) = Bridged(BridgeOf(s), e)
<1>1. \A b, v : FoldLeft(Bridged, b, v) = Spans!FoldLeft(Bridged, b, v)
  BY DEF FoldLeft, MapThenFoldSet, Max, Spans!FoldLeft, Spans!MapThenFoldSet, Spans!Max
<1>2. \A v : BridgeOf(v) = Spans!FoldLeft(Bridged, NoBridge, v)
  BY <1>1 DEF BridgeOf
<1>3. Spans!FoldLeft(Bridged, NoBridge, <<>>) = NoBridge
  BY Spans!FoldEmpty
<1>4. ASSUME NEW s, NEW e, IsSequence(s)
      PROVE  BridgeOf(Append(s, e)) = Bridged(BridgeOf(s), e)
  <2>1. PICK S : s \in Seq(S)
    BY <1>4 DEF IsSequence
  <2>2. s \in Seq(S \cup {e}) /\ e \in S \cup {e}
    BY <2>1
  <2>3. Spans!FoldLeft(Bridged, NoBridge, Append(s, e)) = Bridged(Spans!FoldLeft(Bridged, NoBridge, s), e)
    BY <2>2, Spans!FoldAppend
  <2>. QED  BY <1>2, <2>3
<1>. QED  BY <1>2, <1>3, <1>4

LEMMA PrettyFold ==
  /\ PrettyOf(<<>>) = NoTerminal
  /\ \A s, e : IsSequence(s) => PrettyOf(Append(s, e)) = Pretty(PrettyOf(s), e)
<1>1. \A b, v : FoldLeft(Pretty, b, v) = Prettily!FoldLeft(Pretty, b, v)
  BY DEF FoldLeft, MapThenFoldSet, Max, Prettily!FoldLeft, Prettily!MapThenFoldSet, Prettily!Max
<1>2. \A v : PrettyOf(v) = Prettily!FoldLeft(Pretty, NoTerminal, v)
  BY <1>1 DEF PrettyOf
<1>3. Prettily!FoldLeft(Pretty, NoTerminal, <<>>) = NoTerminal
  BY Prettily!FoldEmpty
<1>4. ASSUME NEW s, NEW e, IsSequence(s)
      PROVE  PrettyOf(Append(s, e)) = Pretty(PrettyOf(s), e)
  <2>1. PICK S : s \in Seq(S)
    BY <1>4 DEF IsSequence
  <2>2. s \in Seq(S \cup {e}) /\ e \in S \cup {e}
    BY <2>1
  <2>3. Prettily!FoldLeft(Pretty, NoTerminal, Append(s, e)) = Pretty(Prettily!FoldLeft(Pretty, NoTerminal, s), e)
    BY <2>2, Prettily!FoldAppend
  <2>. QED  BY <1>2, <2>3
<1>. QED  BY <1>2, <1>3, <1>4

LEMMA QuietFold ==
  /\ QuietOf(<<>>) = NoTerminal
  /\ \A s, e : IsSequence(s) => QuietOf(Append(s, e)) = Quiet(QuietOf(s), e)
<1>1. \A b, v : FoldLeft(Quiet, b, v) = Quietly!FoldLeft(Quiet, b, v)
  BY DEF FoldLeft, MapThenFoldSet, Max, Quietly!FoldLeft, Quietly!MapThenFoldSet, Quietly!Max
<1>2. \A v : QuietOf(v) = Quietly!FoldLeft(Quiet, NoTerminal, v)
  BY <1>1 DEF QuietOf
<1>3. Quietly!FoldLeft(Quiet, NoTerminal, <<>>) = NoTerminal
  BY Quietly!FoldEmpty
<1>4. ASSUME NEW s, NEW e, IsSequence(s)
      PROVE  QuietOf(Append(s, e)) = Quiet(QuietOf(s), e)
  <2>1. PICK S : s \in Seq(S)
    BY <1>4 DEF IsSequence
  <2>2. s \in Seq(S \cup {e}) /\ e \in S \cup {e}
    BY <2>1
  <2>3. Quietly!FoldLeft(Quiet, NoTerminal, Append(s, e)) = Quiet(Quietly!FoldLeft(Quiet, NoTerminal, s), e)
    BY <2>2, Quietly!FoldAppend
  <2>. QED  BY <1>2, <2>3
<1>. QED  BY <1>2, <1>3, <1>4

LEMMA EntryFold ==
  /\ EntryOf(<<>>) = NoEntry
  /\ \A s, e : IsSequence(s) => EntryOf(Append(s, e)) = Registered(EntryOf(s), e)
<1>1. \A b, v : FoldLeft(Registered, b, v) = Entries!FoldLeft(Registered, b, v)
  BY DEF FoldLeft, MapThenFoldSet, Max, Entries!FoldLeft, Entries!MapThenFoldSet, Entries!Max
<1>2. \A v : EntryOf(v) = Entries!FoldLeft(Registered, NoEntry, v)
  BY <1>1 DEF EntryOf
<1>3. Entries!FoldLeft(Registered, NoEntry, <<>>) = NoEntry
  BY Entries!FoldEmpty
<1>4. ASSUME NEW s, NEW e, IsSequence(s)
      PROVE  EntryOf(Append(s, e)) = Registered(EntryOf(s), e)
  <2>1. PICK S : s \in Seq(S)
    BY <1>4 DEF IsSequence
  <2>2. s \in Seq(S \cup {e}) /\ e \in S \cup {e}
    BY <2>1
  <2>3. Entries!FoldLeft(Registered, NoEntry, Append(s, e)) = Registered(Entries!FoldLeft(Registered, NoEntry, s), e)
    BY <2>2, Entries!FoldAppend
  <2>. QED  BY <1>2, <2>3
<1>. QED  BY <1>2, <1>3, <1>4

LEMMA CountFold ==
  /\ CountOf(<<>>) = [ok |-> 0, failed |-> 0]
  /\ \A s, e : IsSequence(s) => CountOf(Append(s, e)) = Counted(CountOf(s), e)
<1>1. \A b, v : FoldLeft(Counted, b, v) = Counts!FoldLeft(Counted, b, v)
  BY DEF FoldLeft, MapThenFoldSet, Max, Counts!FoldLeft, Counts!MapThenFoldSet, Counts!Max
<1>2. \A v : CountOf(v) = Counts!FoldLeft(Counted, [ok |-> 0, failed |-> 0], v)
  BY <1>1 DEF CountOf
<1>3. Counts!FoldLeft(Counted, [ok |-> 0, failed |-> 0], <<>>) = [ok |-> 0, failed |-> 0]
  BY Counts!FoldEmpty
<1>4. ASSUME NEW s, NEW e, IsSequence(s)
      PROVE  CountOf(Append(s, e)) = Counted(CountOf(s), e)
  <2>1. PICK S : s \in Seq(S)
    BY <1>4 DEF IsSequence
  <2>2. s \in Seq(S \cup {e}) /\ e \in S \cup {e}
    BY <2>1
  <2>3. Counts!FoldLeft(Counted, [ok |-> 0, failed |-> 0], Append(s, e)) = Counted(Counts!FoldLeft(Counted, [ok |-> 0, failed |-> 0], s), e)
    BY <2>2, Counts!FoldAppend
  <2>. QED  BY <1>2, <2>3
<1>. QED  BY <1>2, <1>3, <1>4

LEMMA LogFold ==
  /\ LogOf(<<>>) = <<>>
  /\ \A s, e : IsSequence(s) => LogOf(Append(s, e)) = Logged(LogOf(s), e)
<1>1. \A b, v : FoldLeft(Logged, b, v) = Logs!FoldLeft(Logged, b, v)
  BY DEF FoldLeft, MapThenFoldSet, Max, Logs!FoldLeft, Logs!MapThenFoldSet, Logs!Max
<1>2. \A v : LogOf(v) = Logs!FoldLeft(Logged, <<>>, v)
  BY <1>1 DEF LogOf
<1>3. Logs!FoldLeft(Logged, <<>>, <<>>) = <<>>
  BY Logs!FoldEmpty
<1>4. ASSUME NEW s, NEW e, IsSequence(s)
      PROVE  LogOf(Append(s, e)) = Logged(LogOf(s), e)
  <2>1. PICK S : s \in Seq(S)
    BY <1>4 DEF IsSequence
  <2>2. s \in Seq(S \cup {e}) /\ e \in S \cup {e}
    BY <2>1
  <2>3. Logs!FoldLeft(Logged, <<>>, Append(s, e)) = Logged(Logs!FoldLeft(Logged, <<>>, s), e)
    BY <2>2, Logs!FoldAppend
  <2>. QED  BY <1>2, <2>3
<1>. QED  BY <1>2, <1>3, <1>4

-----------------------------------------------------------------------------
(* What each consumer has come to, told from the stream alone: from which  *)
(* events it holds, how its last one ends the run, and the step left open. *)
EndOutcome(s) == s[Len(s)].outcome
OpenSteps(s) == IF Open(s) THEN {s[Len(s)].step} ELSE {}
LeftSteps(s) ==
  IF Has(s, "run.end") /\ Len(s) > 1 /\ s[Len(s) - 1].event = "step.start"
  THEN {s[Len(s) - 1].step} ELSE {}
StartedStep(s, x) == \E i \in 1 .. Len(s) : s[i].event = "step.start" /\ s[i].step = x
EndsAs(s, x, outcome) ==
  \E i \in 1 .. Len(s) : s[i].event = "step.end" /\ s[i].step = x /\ s[i].outcome = outcome

BridgeShape(b) ==
  /\ b = [root |-> b.root, status |-> b.status, open |-> b.open,
          ended |-> b.ended, records |-> b.records, runs |-> b.runs]
  /\ b.ended = [x \in DOMAIN b.ended |-> b.ended[x]]

BridgeTells(b, s) ==
  /\ b.root = IF Has(s, "run.end") THEN "ended" ELSE IF Has(s, "run.start") THEN "open" ELSE "none"
  /\ b.runs = IF Has(s, "run.end") THEN 1 ELSE 0
  /\ b.records = IF Has(s, "bootstrap.error") /\ ~Has(s, "run.start") THEN 1 ELSE 0
  /\ b.status = IF Has(s, "run.end") THEN SpanStatus(EndOutcome(s))
                ELSE IF Has(s, "bootstrap.error") /\ Has(s, "run.start") THEN "ERROR" ELSE "UNSET"
  /\ b.open = OpenSteps(s)

SpansTell(b, s) ==
  /\ \A x : x \in DOMAIN b.ended <=> StartedStep(s, x) /\ x \notin OpenSteps(s)
  /\ \A x \in DOMAIN b.ended :
       \/ \E o : EndsAs(s, x, o) /\ b.ended[x] = SpanStatus(o)
       \/ x \in LeftSteps(s) /\ b.ended[x] = "UNSET"

TerminalShape(t) ==
  t = [started |-> t.started, bootstrapFailed |-> t.bootstrapFailed, pending |-> t.pending,
       shown |-> t.shown, reasons |-> t.reasons, errorPaths |-> t.errorPaths, recaps |-> t.recaps]

TerminalTells(t, s) ==
  /\ t.started \in BOOLEAN /\ (t.started <=> Has(s, "run.start"))
  /\ t.bootstrapFailed \in BOOLEAN /\ (t.bootstrapFailed <=> Has(s, "bootstrap.error"))
  /\ t.pending = OpenSteps(s) \cup LeftSteps(s)
  /\ \A x, o : EndsAs(s, x, o) /\ IsError(o) => x \in t.shown
  /\ t.reasons = IF Has(s, "bootstrap.error") \/ (Has(s, "run.end") /\ IsError(EndOutcome(s)))
                 THEN 1 ELSE 0
  /\ t.errorPaths = IF \/ Has(s, "bootstrap.error") /\ ~Has(s, "run.start")
                       \/ Has(s, "run.end") /\ (IsError(EndOutcome(s)) \/ StepsFailed(s) > 0)
                    THEN 1 ELSE 0

EntryTells(r, s) ==
  r = IF Has(s, "bootstrap.error") THEN [NoEntry EXCEPT !.status = "bootstrap-failed"]
      ELSE IF Has(s, "run.end")
      THEN [status |-> IF IsError(EndOutcome(s)) THEN "error" ELSE EndOutcome(s),
            stepsTotal |-> StepsEnded(s), stepsFailed |-> StepsFailed(s)]
      ELSE [NoEntry EXCEPT !.status = IF Has(s, "run.start") THEN "running" ELSE "bootstrapping"]

CountTells(c, s) == c = [ok |-> StepsEnded(s) - StepsFailed(s), failed |-> StepsFailed(s)]

LogTells(l, s) ==
  /\ IsSequence(l)
  /\ l # <<>> <=> \E i \in 1 .. Len(s) : IsFailure(s[i])

(* No step.end says interrupted, and a run.end counts what is before it.   *)
Plain(s) ==
  /\ \A i \in 1 .. Len(s) : s[i].event = "step.end" => s[i].outcome # "interrupted"
  /\ Has(s, "run.end") =>
       /\ Len(s) > 0 /\ s[Len(s)].event = "run.end"
       /\ s[Len(s)].stepsTotal = StepsEnded(s) /\ s[Len(s)].stepsFailed = StepsFailed(s)

Told(s) ==
  /\ BridgeShape(BridgeOf(s)) /\ BridgeTells(BridgeOf(s), s) /\ SpansTell(BridgeOf(s), s)
  /\ TerminalShape(PrettyOf(s)) /\ TerminalTells(PrettyOf(s), s)
  /\ TerminalShape(QuietOf(s)) /\ TerminalTells(QuietOf(s), s)
  /\ EntryTells(EntryOf(s), s) /\ CountTells(CountOf(s), s) /\ LogTells(LogOf(s), s)
  /\ Plain(s)

(* What the producer appends to a stream, and when. *)
Fits(s, e) ==
  /\ ~Has(s, "run.end")
  /\ e.event \in {"run.start", "storage.seed", "bootstrap.error", "step.start", "step.end", "run.end"}
  /\ e.event \in {"run.start", "bootstrap.error"} => ~Has(s, "bootstrap.error")
  /\ e.event \notin {"step.end", "run.end"} => ~Open(s)
  /\ e.event = "step.start" => ~StartedStep(s, e.step)
  /\ e.event = "step.end" => Open(s) /\ e.step = s[Len(s)].step /\ e.outcome # "interrupted"
  /\ e.event = "run.end" =>
       /\ Has(s, "run.start")
       /\ e.stepsTotal = StepsEnded(s) /\ e.stepsFailed = StepsFailed(s)
       /\ Has(s, "bootstrap.error") => IsError(e.outcome)
       /\ Open(s) => e.outcome = "interrupted"

(* How a concluded run has ended, and what its last event says of it.      *)
Verdict ==
  IF Has(stream, "bootstrap.error") THEN "error"
  ELSE IF interrupted \/ (aborted /\ phase = "idle") THEN "interrupted"
  ELSE IF error # None THEN error ELSE "ok"

Closed ==
  progress = "concluded" =>
    /\ Len(stream) > 0
    /\ IF Has(stream, "run.start")
       THEN stream[Len(stream)].event = "run.end" /\ EndOutcome(stream) = Verdict
       ELSE stream[Len(stream)].event = "bootstrap.error"
    /\ LeftSteps(stream) # {} => interrupted

Heard == Reporting /\ Told(stream) /\ Closed

(* The numbers of steps that ended and that failed, one event on. *)
LEMMA CountAppend ==
  ASSUME NEW s, IsSequence(s), NEW e
  PROVE  /\ StepsEnded(s) \in Nat /\ StepsFailed(s) \in Nat
         /\ StepsEnded(Append(s, e)) = StepsEnded(s) + IF e.event = "step.end" THEN 1 ELSE 0
         /\ StepsFailed(Append(s, e)) =
              StepsFailed(s) + IF e.event = "step.end" /\ e.outcome # "ok" THEN 1 ELSE 0
         /\ StepsFailed(s) > 0 <=>
              \E i \in 1 .. Len(s) : s[i].event = "step.end" /\ s[i].outcome # "ok"
<1>. DEFINE t == Append(s, e)
            n == Len(s)
            Ends(u) == {i \in DOMAIN u : u[i].event = "step.end"}
            Fails(u) == {i \in DOMAIN u : u[i].event = "step.end" /\ u[i].outcome # "ok"}
<1>1. /\ n \in Nat /\ DOMAIN s = 1 .. n /\ DOMAIN t = 1 .. n + 1 /\ n + 1 \notin 1 .. n
      /\ \A i \in 1 .. n : t[i] = s[i]
      /\ t[n + 1] = e
  BY AppendFacts, SequenceFacts
<1>. HIDE DEF t, n
<1>2. /\ Ends(t) = IF e.event = "step.end" THEN Ends(s) \cup {n + 1} ELSE Ends(s)
      /\ Fails(t) = IF e.event = "step.end" /\ e.outcome # "ok" THEN Fails(s) \cup {n + 1} ELSE Fails(s)
  <2>1. Ends(t) = IF e.event = "step.end" THEN Ends(s) \cup {n + 1} ELSE Ends(s)
    BY <1>1
  <2>2. Fails(t) = IF e.event = "step.end" /\ e.outcome # "ok" THEN Fails(s) \cup {n + 1} ELSE Fails(s)
    BY <1>1
  <2>. QED  BY <2>1, <2>2
<1>3. /\ IsFiniteSet(Ends(s)) /\ IsFiniteSet(Fails(s)) /\ n + 1 \notin Ends(s) /\ n + 1 \notin Fails(s)
  <2>1. IsFiniteSet(1 .. n)
    BY <1>1, FS_Interval
  <2>2. Ends(s) \subseteq 1 .. n /\ Fails(s) \subseteq 1 .. n
    BY <1>1
  <2>. HIDE DEF Ends, Fails
  <2>. QED  BY <1>1, <2>1, <2>2, FS_Subset
<1>4. Fails(s) = {} <=> ~\E i \in 1 .. n : s[i].event = "step.end" /\ s[i].outcome # "ok"
  BY <1>1
<1>5. /\ StepsEnded(s) = Cardinality(Ends(s)) /\ StepsFailed(s) = Cardinality(Fails(s))
      /\ StepsEnded(t) = Cardinality(Ends(t)) /\ StepsFailed(t) = Cardinality(Fails(t))
  BY DEF StepsEnded, StepsFailed
<1>. HIDE DEF Ends, Fails
<1>6. /\ Cardinality(Ends(s)) \in Nat /\ Cardinality(Fails(s)) \in Nat
      /\ Cardinality(Ends(s) \cup {n + 1}) = Cardinality(Ends(s)) + 1
      /\ Cardinality(Fails(s) \cup {n + 1}) = Cardinality(Fails(s)) + 1
      /\ Cardinality(Fails(s)) = 0 <=> Fails(s) = {}
  BY <1>3, FS_AddElement, FS_CardinalityType, FS_EmptySet
<1>7. StepsEnded(t) = StepsEnded(s) + IF e.event = "step.end" THEN 1 ELSE 0
  BY <1>2, <1>5, <1>6
<1>8. StepsFailed(t) = StepsFailed(s) + IF e.event = "step.end" /\ e.outcome # "ok" THEN 1 ELSE 0
  BY <1>2, <1>5, <1>6
<1>. QED  BY <1>4, <1>5, <1>6, <1>7, <1>8 DEF t, n

(* What a stream holds once one event more is appended to it.              *)
LEMMA Appended ==
  ASSUME NEW s, IsSequence(s), ~Has(s, "run.end"), NEW e
  PROVE  LET t == Append(s, e)
         IN /\ \A kind : Has(t, kind) <=> Has(s, kind) \/ e.event = kind
            /\ Len(t) > 0 /\ t[Len(t)] = e
            /\ OpenSteps(t) = IF e.event = "step.start" THEN {e.step} ELSE {}
            /\ LeftSteps(s) = {}
            /\ LeftSteps(t) = IF e.event = "run.end" THEN OpenSteps(s) ELSE {}
            /\ \A x : StartedStep(t, x) <=> StartedStep(s, x) \/ (e.event = "step.start" /\ e.step = x)
            /\ \A x, o : EndsAs(t, x, o) <=>
                 EndsAs(s, x, o) \/ (e.event = "step.end" /\ e.step = x /\ e.outcome = o)
<1>. DEFINE t == Append(s, e)
<1>1. /\ Len(s) \in Nat /\ Len(t) = Len(s) + 1
      /\ \A i \in 1 .. Len(s) : t[i] = s[i]
      /\ t[Len(s) + 1] = e
  BY AppendFacts
<1>2. \A kind : Has(t, kind) <=> Has(s, kind) \/ e.event = kind
  BY HasAppend
<1>. HIDE DEF t
<1>3. Len(t) > 0 /\ t[Len(t)] = e
  BY <1>1
<1>4. OpenSteps(t) = IF e.event = "step.start" THEN {e.step} ELSE {}
  BY <1>3 DEF OpenSteps, Open
<1>5. LeftSteps(s) = {}
  BY DEF LeftSteps
<1>6. LeftSteps(t) = IF e.event = "run.end" THEN OpenSteps(s) ELSE {}
  <2>1. Len(t) > 1 <=> Len(s) > 0
    BY <1>1
  <2>2. Len(s) > 0 => t[Len(t) - 1] = s[Len(s)]
    BY <1>1
  <2>. QED  BY <1>2, <2>1, <2>2 DEF LeftSteps, OpenSteps, Open
<1>7. ASSUME NEW x
      PROVE  StartedStep(t, x) <=> StartedStep(s, x) \/ (e.event = "step.start" /\ e.step = x)
  BY <1>1 DEF StartedStep
<1>8. ASSUME NEW x, NEW o
      PROVE  EndsAs(t, x, o) <=>
               EndsAs(s, x, o) \/ (e.event = "step.end" /\ e.step = x /\ e.outcome = o)
  BY <1>1 DEF EndsAs
<1>. QED  BY <1>2, <1>3, <1>4, <1>5, <1>6, <1>7, <1>8 DEF t

(* The bridge, one event on.                                               *)
LEMMA BridgeAppend ==
  ASSUME NEW s, IsSequence(s), NEW e, Fits(s, e), NEW b,
         BridgeShape(b), BridgeTells(b, s), SpansTell(b, s)
  PROVE  /\ BridgeShape(Bridged(b, e))
         /\ BridgeTells(Bridged(b, e), Append(s, e))
         /\ SpansTell(Bridged(b, e), Append(s, e))
<1>. DEFINE t == Append(s, e)
            c == Bridged(b, e)
<1>1. ~Has(s, "run.end")
  BY DEF Fits
<1>2. /\ \A kind : Has(t, kind) <=> Has(s, kind) \/ e.event = kind
      /\ EndOutcome(t) = e.outcome
      /\ OpenSteps(t) = IF e.event = "step.start" THEN {e.step} ELSE {}
      /\ LeftSteps(s) = {}
      /\ LeftSteps(t) = IF e.event = "run.end" THEN OpenSteps(s) ELSE {}
      /\ \A x : StartedStep(t, x) <=> StartedStep(s, x) \/ (e.event = "step.start" /\ e.step = x)
      /\ \A x, o : EndsAs(t, x, o) <=>
           EndsAs(s, x, o) \/ (e.event = "step.end" /\ e.step = x /\ e.outcome = o)
  BY <1>1, Appended DEF EndOutcome
<1>3. \A x \in OpenSteps(s) : StartedStep(s, x)
  BY SequenceFacts DEF OpenSteps, Open, StartedStep
<1>. HIDE DEF t
<1>4. CASE e.event \in {"run.start", "storage.seed", "bootstrap.error"}
  <2>1. OpenSteps(s) = {} /\ OpenSteps(t) = {} /\ LeftSteps(t) = {}
    BY <1>2, <1>4 DEF Fits, OpenSteps
  <2>2. c.ended = b.ended /\ c.open = b.open
    BY <1>4 DEF Bridged, OnRunStart, OnBootstrapError, BridgeShape
  <2>3. BridgeShape(c)
    BY <1>4 DEF Bridged, OnRunStart, OnBootstrapError, BridgeShape
  <2>4. BridgeTells(c, t)
    <3>1. /\ b.root = IF Has(s, "run.start") THEN "open" ELSE "none"
          /\ b.runs = 0 /\ b.open = {}
          /\ b.records = IF Has(s, "bootstrap.error") /\ ~Has(s, "run.start") THEN 1 ELSE 0
          /\ b.status = IF Has(s, "bootstrap.error") /\ Has(s, "run.start") THEN "ERROR" ELSE "UNSET"
      BY <1>1, <2>1 DEF BridgeTells
    <3>2. /\ Has(t, "run.end") <=> FALSE
          /\ Has(t, "run.start") <=> Has(s, "run.start") \/ e.event = "run.start"
          /\ Has(t, "bootstrap.error") <=> Has(s, "bootstrap.error") \/ e.event = "bootstrap.error"
      BY <1>1, <1>2, <1>4
    <3>3. CASE e.event = "run.start"
      <4>1. c = [b EXCEPT !.root = "open"] /\ ~Has(s, "bootstrap.error")
        BY <3>3 DEF Bridged, OnRunStart, Fits
      <4>. HIDE DEF c
      <4>2. /\ c.root = "open" /\ c.status = b.status /\ c.records = b.records
            /\ c.runs = b.runs /\ c.open = b.open
        BY <4>1 DEF BridgeShape
      <4>. QED  BY <2>1, <3>1, <3>2, <3>3, <4>1, <4>2 DEF BridgeTells
    <3>4. CASE e.event = "storage.seed"
      <4>1. c = b
        BY <3>4 DEF Bridged
      <4>. HIDE DEF c
      <4>. QED  BY <2>1, <3>1, <3>2, <3>4, <4>1 DEF BridgeTells
    <3>5. CASE e.event = "bootstrap.error"
      <4>1. /\ c = IF b.root = "open" THEN [b EXCEPT !.status = "ERROR"] ELSE [b EXCEPT !.records = @ + 1]
            /\ ~Has(s, "bootstrap.error")
        BY <3>5 DEF Bridged, OnBootstrapError, Fits
      <4>. HIDE DEF c
      <4>2. /\ c.root = b.root /\ c.runs = b.runs /\ c.open = b.open
            /\ c.status = IF b.root = "open" THEN "ERROR" ELSE b.status
            /\ c.records = IF b.root = "open" THEN b.records ELSE b.records + 1
        BY <4>1 DEF BridgeShape
      <4>. QED  BY <2>1, <3>1, <3>2, <3>5, <4>1, <4>2 DEF BridgeTells
    <3>. QED  BY <1>4, <3>3, <3>4, <3>5
  <2>. HIDE DEF c
  <2>5. SpansTell(c, t)
    BY <1>2, <1>4, <2>1, <2>2 DEF SpansTell
  <2>. QED  BY <2>3, <2>4, <2>5 DEF c, t
<1>5. CASE e.event = "step.start"
  <2>1. c = [b EXCEPT !.open = @ \cup {e.step}]
    BY <1>5 DEF Bridged, OnStepStart
  <2>. HIDE DEF c
  <2>2. /\ c.root = b.root /\ c.status = b.status /\ c.records = b.records /\ c.runs = b.runs
        /\ c.ended = b.ended /\ c.open = b.open \cup {e.step} /\ BridgeShape(c)
    BY <2>1 DEF BridgeShape
  <2>3. OpenSteps(s) = {} /\ OpenSteps(t) = {e.step} /\ LeftSteps(t) = {} /\ ~StartedStep(s, e.step)
    BY <1>2, <1>5 DEF Fits, OpenSteps
  <2>4. BridgeTells(c, t)
    BY <1>1, <1>2, <1>5, <2>2, <2>3 DEF BridgeTells
  <2>5. SpansTell(c, t)
    BY <1>2, <1>5, <2>2, <2>3 DEF SpansTell
  <2>. QED  BY <2>2, <2>4, <2>5 DEF c, t
<1>6. CASE e.event = "step.end"
  <2>1. OpenSteps(s) = {e.step} /\ OpenSteps(t) = {} /\ LeftSteps(t) = {} /\ e.step \in b.open
    BY <1>2, <1>6 DEF Fits, OpenSteps, BridgeTells
  <2>2. c = EndSpan(b, e.step, SpanStatus(e.outcome))
    BY <1>6, <2>1 DEF Bridged, OnStepEnd
  <2>. HIDE DEF c
  <2>. DEFINE x == e.step
              v == SpanStatus(e.outcome)
              f == [y \in DOMAIN b.ended \cup {x} |-> IF y = x THEN v ELSE b.ended[y]]
  <2>3. /\ c.root = b.root /\ c.status = b.status /\ c.records = b.records /\ c.runs = b.runs
        /\ c.ended = f /\ c.open = b.open \ {x} /\ BridgeShape(c)
    <3>1. c = [[b EXCEPT !.open = @ \ {x}] EXCEPT !.ended = f]
      BY <2>2 DEF EndSpan, BridgeShape
    <3>2. f = [y \in DOMAIN f |-> f[y]]
      OBVIOUS
    <3>. HIDE DEF f, x
    <3>. QED  BY <3>1, <3>2 DEF BridgeShape
  <2>4. /\ \A y : y \in DOMAIN f <=> y \in DOMAIN b.ended \/ y = x
        /\ f[x] = v
        /\ \A y \in DOMAIN b.ended : y # x => f[y] = b.ended[y]
    OBVIOUS
  <2>5. BridgeTells(c, t)
    BY <1>1, <1>2, <1>6, <2>1, <2>3 DEF BridgeTells
  <2>6. \A y : y \in DOMAIN c.ended <=> StartedStep(t, y) /\ y \notin OpenSteps(t)
    <3>. HIDE DEF f
    <3>. QED  BY <1>2, <1>3, <1>6, <2>1, <2>3, <2>4 DEF SpansTell, x
  <2>7. \A y \in DOMAIN c.ended :
          \/ \E o : EndsAs(t, y, o) /\ c.ended[y] = SpanStatus(o)
          \/ y \in LeftSteps(t) /\ c.ended[y] = "UNSET"
    <3>. SUFFICES ASSUME NEW y \in DOMAIN c.ended
                  PROVE  \E o : EndsAs(t, y, o) /\ c.ended[y] = SpanStatus(o)
      OBVIOUS
    <3>1. CASE y = x
      <4>1. EndsAs(t, y, e.outcome) /\ c.ended[y] = SpanStatus(e.outcome)
        BY <1>2, <1>6, <2>3, <2>4, <3>1
      <4>. QED  BY <4>1
    <3>2. CASE y # x
      <4>. HIDE DEF f, x
      <4>1. y \in DOMAIN b.ended /\ c.ended[y] = b.ended[y]
        BY <2>3, <2>4, <3>2
      <4>2. PICK o : EndsAs(s, y, o) /\ b.ended[y] = SpanStatus(o)
        BY <1>2, <4>1 DEF SpansTell
      <4>. QED  BY <1>2, <4>1, <4>2
    <3>. QED  BY <3>1, <3>2
  <2>8. SpansTell(c, t)
    BY <2>6, <2>7 DEF SpansTell
  <2>. QED  BY <2>3, <2>5, <2>8 DEF c, t
<1>7. CASE e.event = "run.end"
  <2>1. /\ b.root = "open" /\ Has(s, "run.start") /\ b.open = OpenSteps(s)
        /\ b.runs = 0 /\ b.records = 0
    BY <1>1, <1>7 DEF BridgeTells, Fits
  <2>. DEFINE v == IF e.outcome = "interrupted" THEN "UNSET" ELSE "ERROR"
              f == [y \in DOMAIN b.ended \cup b.open |-> IF y \in b.open THEN v ELSE b.ended[y]]
              w == IF e.outcome = "interrupted" THEN b.status ELSE SpanStatus(e.outcome)
  <2>2. /\ c.root = "ended" /\ c.status = w /\ c.records = 0 /\ c.runs = 1
        /\ c.ended = f /\ c.open = {} /\ BridgeShape(c)
    <3>1. OnRunEnd(b, e) =
            [root |-> "ended", status |-> w, open |-> {}, ended |-> f, records |-> 0, runs |-> 1]
      <4>. DEFINE counted == [b EXCEPT !.runs = @ + 1]
                  dangling == EndDangling(counted, v)
      <4>1. counted = [root |-> b.root, status |-> b.status, open |-> b.open,
                       ended |-> b.ended, records |-> 0, runs |-> 1]
        BY <2>1 DEF BridgeShape
      <4>2. OnRunEnd(b, e) = [dangling EXCEPT !.root = "ended", !.status = w]
        <5>1. dangling.status = b.status
          BY <4>1 DEF EndDangling
        <5>. QED  BY <2>1, <5>1 DEF OnRunEnd
      <4>. HIDE DEF counted
      <4>3. dangling = [root |-> b.root, status |-> b.status, open |-> {},
                        ended |-> f, records |-> 0, runs |-> 1]
        <5>1. counted.ended = b.ended /\ counted.open = b.open
          BY <4>1
        <5>2. f = [y \in DOMAIN counted.ended \cup counted.open |->
                     IF y \in counted.open THEN v ELSE counted.ended[y]]
          BY <5>1
        <5>3. dangling = [[counted EXCEPT !.open = {}] EXCEPT !.ended = f]
          BY <5>2 DEF EndDangling
        <5>. HIDE DEF dangling, f
        <5>. QED  BY <4>1, <5>3
      <4>. HIDE DEF dangling, f, w
      <4>. QED  BY <4>2, <4>3
    <3>2. c = OnRunEnd(b, e)
      BY <1>7 DEF Bridged
    <3>3. f = [y \in DOMAIN f |-> f[y]]
      OBVIOUS
    <3>. HIDE DEF c, f, w
    <3>. QED  BY <3>1, <3>2, <3>3 DEF BridgeShape
  <2>. HIDE DEF c
  <2>3. OpenSteps(t) = {} /\ LeftSteps(t) = OpenSteps(s)
    BY <1>2, <1>7
  <2>4. OpenSteps(s) # {} => e.outcome = "interrupted"
    BY <1>7 DEF Fits, OpenSteps
  <2>5. w = SpanStatus(e.outcome)
    <3>1. CASE e.outcome = "interrupted"
      <4>1. ~Has(s, "bootstrap.error")
        BY <1>7, <3>1 DEF Fits, IsError
      <4>. QED  BY <1>1, <3>1, <4>1 DEF BridgeTells, SpanStatus
    <3>2. CASE e.outcome # "interrupted"
      BY <3>2
    <3>. QED  BY <3>1, <3>2
  <2>6. BridgeTells(c, t)
    <3>. HIDE DEF w
    <3>. QED  BY <1>2, <1>7, <2>1, <2>2, <2>3, <2>5 DEF BridgeTells
  <2>7. /\ \A y : y \in DOMAIN f <=> y \in DOMAIN b.ended \/ y \in b.open
        /\ \A y \in b.open : f[y] = v
        /\ \A y \in DOMAIN b.ended : y \notin b.open => f[y] = b.ended[y]
    OBVIOUS
  <2>8. \A y : y \in DOMAIN c.ended <=> StartedStep(t, y) /\ y \notin OpenSteps(t)
    <3>. HIDE DEF f
    <3>. QED  BY <1>2, <1>3, <1>7, <2>1, <2>2, <2>3, <2>7 DEF SpansTell
  <2>9. \A y \in DOMAIN c.ended :
          \/ \E o : EndsAs(t, y, o) /\ c.ended[y] = SpanStatus(o)
          \/ y \in LeftSteps(t) /\ c.ended[y] = "UNSET"
    <3>. SUFFICES ASSUME NEW y \in DOMAIN c.ended
                  PROVE  \/ \E o : EndsAs(t, y, o) /\ c.ended[y] = SpanStatus(o)
                         \/ y \in LeftSteps(t) /\ c.ended[y] = "UNSET"
      OBVIOUS
    <3>. HIDE DEF f
    <3>1. CASE y \in b.open
      BY <2>1, <2>2, <2>3, <2>4, <2>7, <3>1
    <3>2. CASE y \notin b.open
      <4>1. y \in DOMAIN b.ended /\ c.ended[y] = b.ended[y]
        BY <2>2, <2>7, <3>2
      <4>2. PICK o : EndsAs(s, y, o) /\ b.ended[y] = SpanStatus(o)
        BY <1>2, <4>1 DEF SpansTell
      <4>. QED  BY <1>2, <4>1, <4>2
    <3>. QED  BY <3>1, <3>2
  <2>10. SpansTell(c, t)
    BY <2>8, <2>9 DEF SpansTell
  <2>. QED  BY <2>2, <2>6, <2>10 DEF c, t
<1>. QED  BY <1>4, <1>5, <1>6, <1>7 DEF Fits

(* The terminal, in either mode, one event on. *)
LEMMA TerminalAppend ==
  ASSUME NEW s, IsSequence(s), NEW e, Fits(s, e), NEW mode, NEW b,
         TerminalShape(b), TerminalTells(b, s)
  PROVE  /\ TerminalShape(Rendered(mode, b, e))
         /\ TerminalTells(Rendered(mode, b, e), Append(s, e))
<1>. DEFINE t == Append(s, e)
            c == Rendered(mode, b, e)
<1>1. ~Has(s, "run.end")
  BY DEF Fits
<1>2. /\ Has(t, "run.start") <=> Has(s, "run.start") \/ e.event = "run.start"
      /\ Has(t, "run.end") <=> e.event = "run.end"
      /\ Has(t, "bootstrap.error") <=> Has(s, "bootstrap.error") \/ e.event = "bootstrap.error"
      /\ EndOutcome(t) = e.outcome
      /\ OpenSteps(t) = IF e.event = "step.start" THEN {e.step} ELSE {}
      /\ LeftSteps(s) = {}
      /\ LeftSteps(t) = IF e.event = "run.end" THEN OpenSteps(s) ELSE {}
      /\ \A x, o : EndsAs(t, x, o) <=>
           EndsAs(s, x, o) \/ (e.event = "step.end" /\ e.step = x /\ e.outcome = o)
      /\ e.event # "step.end" => StepsFailed(t) = StepsFailed(s)
  BY <1>1, Appended, CountAppend DEF EndOutcome
<1>3. /\ b.started \in BOOLEAN /\ (b.started <=> Has(s, "run.start"))
      /\ b.bootstrapFailed \in BOOLEAN /\ (b.bootstrapFailed <=> Has(s, "bootstrap.error"))
      /\ b.pending = OpenSteps(s)
      /\ \A x, o : EndsAs(s, x, o) /\ IsError(o) => x \in b.shown
      /\ b.reasons = IF Has(s, "bootstrap.error") THEN 1 ELSE 0
      /\ b.errorPaths = IF Has(s, "bootstrap.error") /\ ~Has(s, "run.start") THEN 1 ELSE 0
  BY <1>1, <1>2 DEF TerminalTells
<1>. HIDE DEF t
<1>4. CASE e.event = "run.start"
  <2>1. c = [b EXCEPT !.started = TRUE] /\ OpenSteps(s) = {} /\ ~Has(s, "bootstrap.error")
    BY <1>4 DEF Rendered, Fits, OpenSteps
  <2>. HIDE DEF c
  <2>2. /\ TerminalShape(c) /\ c.started = TRUE /\ c.bootstrapFailed = b.bootstrapFailed
        /\ c.pending = b.pending /\ c.shown = b.shown /\ c.reasons = b.reasons
        /\ c.errorPaths = b.errorPaths
    BY <2>1 DEF TerminalShape
  <2>. QED  BY <1>2, <1>3, <1>4, <2>1, <2>2 DEF TerminalTells, c, t
<1>5. CASE e.event = "storage.seed"
  <2>1. c = b /\ OpenSteps(s) = {}
    BY <1>5 DEF Rendered, Fits, OpenSteps
  <2>. QED  BY <1>2, <1>3, <1>5, <2>1 DEF TerminalTells, t
<1>6. CASE e.event = "bootstrap.error"
  <2>1. /\ c = [b EXCEPT !.bootstrapFailed = TRUE, !.reasons = @ + 1,
                         !.errorPaths = IF b.started THEN @ ELSE @ + 1]
        /\ OpenSteps(s) = {} /\ ~Has(s, "bootstrap.error")
    BY <1>6 DEF Rendered, Fits, OpenSteps
  <2>. HIDE DEF c
  <2>2. /\ TerminalShape(c) /\ c.started = b.started /\ c.bootstrapFailed = TRUE
        /\ c.pending = b.pending /\ c.shown = b.shown /\ c.reasons = 1
        /\ c.errorPaths = IF b.started THEN 0 ELSE 1
    <3>1. b.reasons = 0 /\ b.errorPaths = 0
      BY <1>3, <2>1
    <3>2. /\ TerminalShape(c) /\ c.started = b.started /\ c.bootstrapFailed = TRUE
          /\ c.pending = b.pending /\ c.shown = b.shown /\ c.reasons = b.reasons + 1
          /\ c.errorPaths = IF b.started THEN b.errorPaths ELSE b.errorPaths + 1
      BY <2>1 DEF TerminalShape
    <3>. QED  BY <3>1, <3>2
  <2>. QED  BY <1>2, <1>3, <1>6, <2>1, <2>2 DEF TerminalTells, c, t
<1>7. CASE e.event = "step.start"
  <2>1. c = [b EXCEPT !.pending = @ \cup {e.step}] /\ OpenSteps(s) = {}
    BY <1>7 DEF Rendered, Fits, OpenSteps
  <2>. HIDE DEF c
  <2>2. /\ TerminalShape(c) /\ c.started = b.started /\ c.bootstrapFailed = b.bootstrapFailed
        /\ c.pending = b.pending \cup {e.step} /\ c.shown = b.shown /\ c.reasons = b.reasons
        /\ c.errorPaths = b.errorPaths
    BY <2>1 DEF TerminalShape
  <2>. QED  BY <1>2, <1>3, <1>7, <2>1, <2>2 DEF TerminalTells, c, t
<1>8. CASE e.event = "step.end"
  <2>. DEFINE shown == IF mode = "pretty" \/ IsError(e.outcome) THEN b.shown \cup {e.step} ELSE b.shown
  <2>1. c = [b EXCEPT !.pending = @ \ {e.step}, !.shown = shown] /\ OpenSteps(s) = {e.step}
    BY <1>8 DEF Rendered, Fits, OpenSteps
  <2>. HIDE DEF c
  <2>2. /\ TerminalShape(c) /\ c.started = b.started /\ c.bootstrapFailed = b.bootstrapFailed
        /\ c.pending = b.pending \ {e.step} /\ c.shown = shown /\ c.reasons = b.reasons
        /\ c.errorPaths = b.errorPaths
    <3>. HIDE DEF shown
    <3>. QED  BY <2>1 DEF TerminalShape
  <2>3. \A x, o : EndsAs(t, x, o) /\ IsError(o) => x \in shown
    BY <1>2, <1>3, <1>8
  <2>. HIDE DEF shown
  <2>4. TerminalTells(c, t)
    BY <1>2, <1>3, <1>8, <2>1, <2>2, <2>3 DEF TerminalTells
  <2>. QED  BY <2>2, <2>4 DEF c, t
<1>9. CASE e.event = "run.end"
  <2>1. c = [b EXCEPT !.recaps = @ + 1,
                   !.reasons = IF IsError(e.outcome) /\ ~b.bootstrapFailed THEN @ + 1 ELSE @,
                   !.errorPaths = IF e.stepsFailed > 0 \/ IsError(e.outcome) THEN @ + 1 ELSE @]
    BY <1>9 DEF Rendered
  <2>2. /\ Has(s, "run.start") /\ e.stepsFailed = StepsFailed(s)
        /\ Has(s, "bootstrap.error") => IsError(e.outcome)
    BY <1>9 DEF Fits
  <2>. HIDE DEF c
  <2>3. /\ TerminalShape(c) /\ c.started = b.started /\ c.bootstrapFailed = b.bootstrapFailed
        /\ c.pending = b.pending /\ c.shown = b.shown
        /\ c.reasons = IF IsError(e.outcome) /\ ~b.bootstrapFailed THEN b.reasons + 1 ELSE b.reasons
        /\ c.errorPaths = IF e.stepsFailed > 0 \/ IsError(e.outcome) THEN b.errorPaths + 1 ELSE b.errorPaths
    BY <2>1 DEF TerminalShape
  <2>. HIDE DEF IsError
  <2>4. TerminalTells(c, t)
    BY <1>2, <1>3, <1>9, <2>2, <2>3 DEF TerminalTells
  <2>. QED  BY <2>3, <2>4 DEF c, t
<1>. QED  BY <1>4, <1>5, <1>6, <1>7, <1>8, <1>9 DEF Fits

(* The entry of the registry, one event on. *)
LEMMA EntryAppend ==
  ASSUME NEW s, IsSequence(s), NEW e, Fits(s, e), NEW r, EntryTells(r, s)
  PROVE  EntryTells(Registered(r, e), Append(s, e))
<1>. DEFINE t == Append(s, e)
<1>1. ~Has(s, "run.end")
  BY DEF Fits
<1>2. /\ Has(t, "run.start") <=> Has(s, "run.start") \/ e.event = "run.start"
      /\ Has(t, "run.end") <=> e.event = "run.end"
      /\ Has(t, "bootstrap.error") <=> Has(s, "bootstrap.error") \/ e.event = "bootstrap.error"
      /\ EndOutcome(t) = e.outcome
      /\ e.event # "step.end" => StepsFailed(t) = StepsFailed(s) /\ StepsEnded(t) = StepsEnded(s)
  BY <1>1, Appended, CountAppend DEF EndOutcome
<1>3. r = IF Has(s, "bootstrap.error") THEN [NoEntry EXCEPT !.status = "bootstrap-failed"]
          ELSE [NoEntry EXCEPT !.status = IF Has(s, "run.start") THEN "running" ELSE "bootstrapping"]
  BY <1>1 DEF EntryTells
<1>4. /\ r = [status |-> r.status, stepsTotal |-> None, stepsFailed |-> None]
      /\ r.status = IF Has(s, "bootstrap.error") THEN "bootstrap-failed"
                    ELSE IF Has(s, "run.start") THEN "running" ELSE "bootstrapping"
  BY <1>3 DEF NoEntry
<1>. HIDE DEF t
<1>5. CASE e.event = "run.start"
  BY <1>1, <1>2, <1>4, <1>5 DEF EntryTells, Registered, NoEntry, Fits, t
<1>6. CASE e.event = "bootstrap.error"
  BY <1>1, <1>2, <1>4, <1>6 DEF EntryTells, Registered, NoEntry, Fits, t
<1>7. CASE e.event = "run.end"
  BY <1>1, <1>2, <1>4, <1>7 DEF EntryTells, Registered, NoEntry, Fits, t
<1>8. CASE e.event \in {"storage.seed", "step.start", "step.end"}
  BY <1>1, <1>2, <1>4, <1>8 DEF EntryTells, Registered, NoEntry, t
<1>. QED  BY <1>5, <1>6, <1>7, <1>8 DEF Fits

(* What a reader of the log counts, one event on. *)
LEMMA CountedAppend ==
  ASSUME NEW s, IsSequence(s), NEW e, NEW c, CountTells(c, s)
  PROVE  CountTells(Counted(c, e), Append(s, e))
<1>1. /\ StepsEnded(s) \in Nat /\ StepsFailed(s) \in Nat
      /\ StepsEnded(Append(s, e)) = StepsEnded(s) + IF e.event = "step.end" THEN 1 ELSE 0
      /\ StepsFailed(Append(s, e)) =
           StepsFailed(s) + IF e.event = "step.end" /\ e.outcome # "ok" THEN 1 ELSE 0
  BY CountAppend
<1>. QED  BY <1>1 DEF CountTells, Counted

(* The error log, one event on. *)
LEMMA LogAppend ==
  ASSUME NEW s, IsSequence(s), NEW e, NEW l, LogTells(l, s)
  PROVE  LogTells(Logged(l, e), Append(s, e))
<1>. DEFINE t == Append(s, e)
<1>1. /\ Len(s) \in Nat /\ Len(t) = Len(s) + 1
      /\ \A i \in 1 .. Len(s) : t[i] = s[i]
      /\ t[Len(s) + 1] = e
  BY AppendFacts
<1>. HIDE DEF t
<1>2. (\E i \in 1 .. Len(t) : IsFailure(t[i])) <=> (\E i \in 1 .. Len(s) : IsFailure(s[i])) \/ IsFailure(e)
  BY <1>1
<1>3. IsSequence(l) /\ (l # <<>> <=> \E i \in 1 .. Len(s) : IsFailure(s[i]))
  BY DEF LogTells
<1>4. IsSequence(Append(l, e)) /\ Append(l, e) # <<>>
  <2>1. IsSequence(Append(l, e)) /\ Len(l) \in Nat /\ Len(Append(l, e)) = Len(l) + 1
    BY <1>3, AppendFacts
  <2>2. Len(<<>>) = 0
    OBVIOUS
  <2>. QED  BY <2>1, <2>2
<1>. QED  BY <1>2, <1>3, <1>4 DEF LogTells, Logged, t

(* What a stream itself keeps, one event on. *)
LEMMA PlainAppend ==
  ASSUME NEW s, IsSequence(s), NEW e, Fits(s, e), Plain(s)
  PROVE  Plain(Append(s, e))
<1>. DEFINE t == Append(s, e)
<1>1. /\ Len(s) \in Nat /\ Len(t) = Len(s) + 1
      /\ \A i \in 1 .. Len(s) : t[i] = s[i]
      /\ t[Len(s) + 1] = e
      /\ Has(t, "run.end") <=> e.event = "run.end"
      /\ e.event # "step.end" => StepsFailed(t) = StepsFailed(s) /\ StepsEnded(t) = StepsEnded(s)
  <2>1. e.event # "step.end" => StepsFailed(t) = StepsFailed(s) /\ StepsEnded(t) = StepsEnded(s)
    BY CountAppend
  <2>2. Has(t, "run.end") <=> e.event = "run.end"
    BY HasAppend DEF Fits
  <2>. QED  BY <2>1, <2>2, AppendFacts
<1>. HIDE DEF t
<1>2. \A i \in 1 .. Len(t) : t[i].event = "step.end" => t[i].outcome # "interrupted"
  BY <1>1 DEF Plain, Fits
<1>3. e.event = "run.end" => e.stepsTotal = StepsEnded(s) /\ e.stepsFailed = StepsFailed(s)
  BY DEF Fits
<1>. QED  BY <1>1, <1>2, <1>3 DEF Plain, t

(* What every consumer tells of a stream it also tells of a longer one.    *)
LEMMA ToldAppend ==
  ASSUME NEW s, IsSequence(s), NEW e, Fits(s, e), Told(s)
  PROVE  Told(Append(s, e))
<1>. DEFINE t == Append(s, e)
<1>1. /\ BridgeOf(t) = Bridged(BridgeOf(s), e)
      /\ PrettyOf(t) = Rendered("pretty", PrettyOf(s), e)
      /\ QuietOf(t) = Rendered("quiet", QuietOf(s), e)
      /\ EntryOf(t) = Registered(EntryOf(s), e)
      /\ CountOf(t) = Counted(CountOf(s), e)
      /\ LogOf(t) = Logged(LogOf(s), e)
  BY BridgeFold, PrettyFold, QuietFold, EntryFold, CountFold, LogFold DEF Pretty, Quiet
<1>2. BridgeShape(BridgeOf(t)) /\ BridgeTells(BridgeOf(t), t) /\ SpansTell(BridgeOf(t), t)
  BY <1>1, BridgeAppend DEF Told
<1>3. /\ TerminalShape(PrettyOf(t)) /\ TerminalTells(PrettyOf(t), t)
      /\ TerminalShape(QuietOf(t)) /\ TerminalTells(QuietOf(t), t)
  BY <1>1, TerminalAppend DEF Told
<1>4. EntryTells(EntryOf(t), t) /\ CountTells(CountOf(t), t) /\ LogTells(LogOf(t), t) /\ Plain(t)
  BY <1>1, EntryAppend, CountedAppend, LogAppend, PlainAppend DEF Told
<1>. QED  BY <1>2, <1>3, <1>4 DEF Told, t

(* Before the first event. *)
LEMMA ToldNothing == Told(<<>>)
<1>. DEFINE s == <<>>
<1>1. Len(s) = 0 /\ IsSequence(s) /\ DOMAIN s = {}
  <2>1. s \in Seq({}) /\ DOMAIN s = {}
    OBVIOUS
  <2>. QED  BY <2>1 DEF IsSequence
<1>2. StepsEnded(s) = 0 /\ StepsFailed(s) = 0
  BY <1>1, FS_EmptySet DEF StepsEnded, StepsFailed
<1>3. /\ BridgeOf(s) = NoBridge /\ PrettyOf(s) = NoTerminal /\ QuietOf(s) = NoTerminal
      /\ EntryOf(s) = NoEntry /\ CountOf(s) = [ok |-> 0, failed |-> 0] /\ LogOf(s) = s
  BY BridgeFold, PrettyFold, QuietFold, EntryFold, CountFold, LogFold
<1>. HIDE DEF s
<1>4. (\A kind : ~Has(s, kind)) /\ OpenSteps(s) = {} /\ LeftSteps(s) = {}
      /\ (\A x : ~StartedStep(s, x)) /\ (\A x, o : ~EndsAs(s, x, o))
  BY <1>1 DEF Has, OpenSteps, LeftSteps, StartedStep, EndsAs, Open
<1>5. BridgeShape(NoBridge) /\ BridgeTells(NoBridge, s) /\ SpansTell(NoBridge, s)
  BY <1>4 DEF BridgeShape, BridgeTells, SpansTell, NoBridge
<1>6. TerminalShape(NoTerminal) /\ TerminalTells(NoTerminal, s)
  BY <1>4 DEF TerminalShape, TerminalTells, NoTerminal
<1>7. EntryTells(NoEntry, s)
  BY <1>4 DEF EntryTells, NoEntry
<1>8. CountTells([ok |-> 0, failed |-> 0], s)
  BY <1>2 DEF CountTells
<1>9. LogTells(s, s) /\ Plain(s)
  BY <1>1, <1>4 DEF LogTells, Plain, s
<1>. QED  BY <1>3, <1>5, <1>6, <1>7, <1>8, <1>9 DEF Told, s

-----------------------------------------------------------------------------
(* Whatever the producer tells of a transition, the consumers take it in.  *)
LEMMA ObserveHeard ==
  ASSUME Reporting, Told(stream), Observe, progress = "supervising",
         Control', interrupted => interrupted', todoStep' \in Step,
         (phase = "running" /\ phase' # "running" /\ ~interrupted'
            /\ ~(doneStep' # None /\ doneStep'.step.index = inFlight.index)) =>
           error' \in {"error", "timeout"}
  PROVE  Told(stream')
<1>1. /\ StreamOK(stream, iteration) /\ IsSequence(stream) /\ Control /\ Types
      /\ Has(stream, "run.start") /\ ~Has(stream, "run.end") /\ ~Has(stream, "bootstrap.error")
      /\ inFlight # None => Open(stream) /\ stream[Len(stream)].step = inFlight
      /\ Open(stream) => inFlight # None \/ interrupted
  BY DEF Reporting, Machinery, Telling, Framed, InFlightOpen, StreamOK
<1>2. CASE phase # "running" /\ phase' = "running" /\ BeginStep
  <2>. DEFINE s == [index |-> todoStep', iteration |-> iteration[todoStep']]
              e == StartOf(s)
  <2>1. stream' = Append(stream, e) /\ e.event = "step.start" /\ e.step = s
    BY <1>2 DEF BeginStep, StartOf
  <2>2. ~Open(stream)
    BY <1>1, <1>2 DEF Control
  <2>3. s.index = todoStep' /\ s.iteration = iteration[todoStep'] /\ iteration[todoStep'] \in Nat
    BY <1>1 DEF Types, TypeOK
  <2>. HIDE DEF e, s
  <2>4. ~StartedStep(stream, s)
    <3>. SUFFICES ASSUME NEW i \in 1 .. Len(stream), stream[i].event = "step.start", stream[i].step = s
                  PROVE  FALSE
      BY DEF StartedStep
    <3>1. s.iteration < iteration[s.index]
      BY <1>1 DEF StreamOK, StepsNumbered
    <3>. QED  BY <2>3, <3>1
  <2>5. Fits(stream, e)
    BY <1>1, <2>1, <2>2, <2>4 DEF Fits
  <2>. QED  BY <1>1, <2>1, <2>5, ToldAppend
<1>3. CASE phase = "running" /\ phase' # "running" /\ FinishStep
  <2>1. CASE interrupted'
    BY <1>3, <2>1 DEF FinishStep
  <2>2. CASE ~interrupted'
    <3>1. PICK outcome \in {"ok", "error", "timeout"} : stream' = Append(stream, EndOf(outcome))
      BY <1>3, <2>2 DEF FinishStep
    <3>. DEFINE e == EndOf(outcome)
    <3>2. e.event = "step.end" /\ e.step = inFlight /\ e.outcome = outcome
      BY DEF EndOf
    <3>3. inFlight # None
      BY <1>1, <1>3 DEF Control
    <3>. HIDE DEF e
    <3>4. Fits(stream, e)
      BY <1>1, <3>1, <3>2, <3>3 DEF Fits
    <3>. QED  BY <1>1, <3>1, <3>4, ToldAppend DEF e
  <2>. QED  BY <2>1, <2>2
<1>4. CASE UNCHANGED producerVars
  BY <1>4 DEF producerVars
<1>. QED  BY <1>2, <1>3, <1>4 DEF Observe

(* The end of a run, as the consumers take it in. *)
LEMMA EndedHeard ==
  ASSUME NEW s, IsSequence(s), Told(s), NEW outcome, IsSequence(stream), inFlight = None,
         ~Has(stream, "run.end"), ~Has(s, "run.end"),
         Has(s, "run.start") <=> Has(stream, "run.start"),
         Has(s, "bootstrap.error") => IsError(outcome),
         Open(s) => outcome = "interrupted"
  PROVE  LET t == Ended(s, outcome)
         IN /\ Told(t)
            /\ ~Has(stream, "run.start") => t = s
            /\ Has(stream, "run.start") =>
                 /\ Len(t) > 0 /\ t[Len(t)].event = "run.end" /\ EndOutcome(t) = outcome
                 /\ Has(t, "run.start") /\ (Has(t, "bootstrap.error") <=> Has(s, "bootstrap.error"))
                 /\ LeftSteps(t) = OpenSteps(s)
<1>. DEFINE e == [event |-> "run.end", outcome |-> outcome,
                  stepsTotal |-> StepsEnded(s), stepsFailed |-> StepsFailed(s)]
            t == Ended(s, outcome)
<1>1. CASE Has(stream, "run.start")
  <2>1. t = Append(s, e)
    BY <1>1, EmittedIsHas DEF Ended
  <2>2. /\ e.event = "run.end" /\ e.outcome = outcome
        /\ e.stepsTotal = StepsEnded(s) /\ e.stepsFailed = StepsFailed(s)
    OBVIOUS
  <2>. HIDE DEF e, t
  <2>3. Fits(s, e)
    BY <1>1, <2>2 DEF Fits
  <2>4. Told(t)
    BY <2>1, <2>3, ToldAppend
  <2>5. /\ \A kind : Has(t, kind) <=> Has(s, kind) \/ e.event = kind
        /\ Len(t) > 0 /\ t[Len(t)] = e
        /\ LeftSteps(t) = OpenSteps(s)
    BY <2>1, <2>2, Appended
  <2>. QED  BY <1>1, <2>2, <2>4, <2>5 DEF EndOutcome, t
<1>2. CASE ~Has(stream, "run.start")
  BY <1>2, EmittedIsHas DEF Ended
<1>. QED  BY <1>1, <1>2

LEMMA HeardInit == Init => Heard
<1>. SUFFICES ASSUME Init PROVE Heard
  OBVIOUS
<1>1. stream = <<>> /\ progress = "bootstrapping"
  BY DEF Init
<1>. QED  BY <1>1, ReportingInit, ToldNothing DEF Heard, Closed

(* The bootstrap, as the consumers take it in. *)
LEMMA BootstrapHeard ==
  ASSUME Reporting, Told(stream),
         PassStage \/ FailStage \/ OpenStoreThrows \/ SeedAndLaunch \/ SeedFails
  PROVE  Told(stream') /\ Closed'
<1>1. /\ IsSequence(stream) /\ progress \in {"bootstrapping", "seeding"}
      /\ ~Has(stream, "run.end") /\ ~Has(stream, "bootstrap.error")
      /\ ~Has(stream, "step.start") /\ phase = "idle" /\ inFlight = None /\ ~interrupted
      /\ progress = "seeding" => Has(stream, "run.start")
  BY DEF Reporting, Machinery, Control, Telling, Framed, StreamOK, PassStage, FailStage,
         OpenStoreThrows, SeedAndLaunch, SeedFails
<1>2. ~Open(stream)
  BY <1>1, SequenceFacts DEF Open, Has
<1>3. ASSUME NEW e, e.event \in {"run.start", "storage.seed", "bootstrap.error"}
      PROVE  /\ Told(Append(stream, e)) /\ IsSequence(Append(stream, e))
             /\ ~Has(Append(stream, e), "run.end")
             /\ Has(Append(stream, e), "run.start") <=> Has(stream, "run.start") \/ e.event = "run.start"
             /\ Has(Append(stream, e), "bootstrap.error") <=> e.event = "bootstrap.error"
             /\ ~Open(Append(stream, e)) /\ OpenSteps(Append(stream, e)) = {}
             /\ LeftSteps(Append(stream, e)) = {}
             /\ Len(Append(stream, e)) > 0 /\ Append(stream, e)[Len(Append(stream, e))] = e
  <2>1. Fits(stream, e)
    BY <1>1, <1>2, <1>3 DEF Fits
  <2>2. /\ Told(Append(stream, e)) /\ IsSequence(Append(stream, e))
        /\ \A kind : Has(Append(stream, e), kind) <=> Has(stream, kind) \/ e.event = kind
    BY <1>1, <2>1, ToldAppend, AppendFacts, HasAppend
  <2>3. /\ Len(Append(stream, e)) > 0 /\ Append(stream, e)[Len(Append(stream, e))] = e
        /\ LeftSteps(Append(stream, e)) = {}
    BY <1>1, <1>3, Appended
  <2>4. ~Open(Append(stream, e)) /\ OpenSteps(Append(stream, e)) = {}
    BY <1>3, <2>3 DEF Open, OpenSteps
  <2>. QED  BY <1>1, <1>3, <2>2, <2>3, <2>4
<1>4. CASE PassStage
  <2>. DEFINE e == [event |-> "run.start"]
  <2>1. e.event = "run.start" /\ progress' # "concluded" /\ (stream' = stream \/ stream' = Append(stream, e))
    BY <1>4 DEF PassStage
  <2>. HIDE DEF e
  <2>2. Told(Append(stream, e))
    BY <1>3, <2>1
  <2>3. Told(stream')
    BY <2>1, <2>2
  <2>. QED  BY <2>1, <2>3 DEF Closed
<1>5. CASE FailStage \/ SeedFails
  <2>. DEFINE e == [event |-> "bootstrap.error"]
              s == Append(stream, e)
  <2>1. e.event = "bootstrap.error" /\ stream' = Ended(s, "error") /\ IsError("error")
    BY <1>5 DEF FailStage, SeedFails, Failed, IsError
  <2>. HIDE DEF e
  <2>2. /\ Told(s) /\ IsSequence(s) /\ ~Has(s, "run.end")
        /\ Has(s, "run.start") <=> Has(stream, "run.start")
        /\ Has(s, "bootstrap.error") /\ ~Open(s) /\ OpenSteps(s) = {} /\ LeftSteps(s) = {}
        /\ Len(s) > 0 /\ s[Len(s)] = e
    BY <1>3, <2>1
  <2>. HIDE DEF s
  <2>3. /\ Told(stream')
        /\ ~Has(stream, "run.start") => stream' = s
        /\ Has(stream, "run.start") =>
             /\ Len(stream') > 0 /\ stream'[Len(stream')].event = "run.end"
             /\ EndOutcome(stream') = "error"
             /\ Has(stream', "run.start") /\ (Has(stream', "bootstrap.error") <=> Has(s, "bootstrap.error"))
             /\ LeftSteps(stream') = OpenSteps(s)
    BY <1>1, <2>1, <2>2, EndedHeard
  <2>. QED  BY <2>1, <2>2, <2>3 DEF Closed, Verdict
<1>6. CASE SeedAndLaunch
  <2>. DEFINE e == [event |-> "storage.seed"]
              s == IF Seeded = {} THEN stream ELSE Append(stream, e)
  <2>1. /\ e.event = "storage.seed" /\ progress = "seeding"
        /\ \/ aborted /\ stream' = Ended(s, "interrupted") /\ UNCHANGED <<phase, aborted, interrupted>>
           \/ progress' = "supervising" /\ stream' = s
    BY <1>6 DEF SeedAndLaunch, signalVars
  <2>2. /\ Told(s) /\ IsSequence(s) /\ ~Has(s, "run.end")
        /\ Has(s, "run.start") <=> Has(stream, "run.start")
        /\ ~Has(s, "bootstrap.error") /\ ~Open(s) /\ OpenSteps(s) = {}
    <3>. HIDE DEF e
    <3>1. CASE Seeded = {}
      BY <1>1, <1>2, <3>1 DEF OpenSteps
    <3>2. CASE Seeded # {}
      BY <1>3, <2>1, <3>2
    <3>. QED  BY <3>1, <3>2
  <2>. HIDE DEF e, s
  <2>3. CASE progress' = "supervising" /\ stream' = s
    BY <2>2, <2>3 DEF Closed
  <2>4. CASE aborted /\ stream' = Ended(s, "interrupted") /\ UNCHANGED <<phase, aborted, interrupted>>
    <3>1. /\ Told(stream')
          /\ Has(stream, "run.start") =>
               /\ Len(stream') > 0 /\ stream'[Len(stream')].event = "run.end"
               /\ EndOutcome(stream') = "interrupted"
               /\ Has(stream', "run.start") /\ (Has(stream', "bootstrap.error") <=> Has(s, "bootstrap.error"))
               /\ LeftSteps(stream') = OpenSteps(s)
      BY <1>1, <2>1, <2>2, <2>4, EndedHeard
    <3>. QED  BY <1>1, <2>1, <2>2, <2>4, <3>1 DEF Closed, Verdict
  <2>. QED  BY <2>1, <2>3, <2>4
<1>7. CASE OpenStoreThrows
  BY <1>7 DEF OpenStoreThrows, Closed, producerVars
<1>. QED  BY <1>4, <1>5, <1>6, <1>7

(* The end of a supervised run, as the consumers take it in. *)
LEMMA ConcludeHeard ==
  ASSUME Reporting, Told(stream), Conclude
  PROVE  Told(stream') /\ Closed'
<1>1. /\ IsSequence(stream) /\ progress = "supervising" /\ phase = "stopping" /\ inFlight = None
      /\ Has(stream, "run.start") /\ ~Has(stream, "run.end") /\ ~Has(stream, "bootstrap.error")
      /\ Open(stream) => interrupted
      /\ stream' = Ended(stream, Outcome) /\ UNCHANGED <<phase, aborted, interrupted, error>>
  BY DEF Reporting, Machinery, Control, Telling, Framed, InFlightOpen, StreamOK, Conclude,
         machineVars, signalVars
<1>2. Open(stream) => Outcome = "interrupted"
  BY <1>1 DEF Outcome
<1>3. /\ Told(stream')
      /\ Len(stream') > 0 /\ stream'[Len(stream')].event = "run.end"
      /\ EndOutcome(stream') = Outcome
      /\ Has(stream', "run.start") /\ ~Has(stream', "bootstrap.error")
      /\ LeftSteps(stream') = OpenSteps(stream)
  BY <1>1, <1>2, EndedHeard
<1>4. Verdict' = Outcome
  BY <1>1, <1>3 DEF Verdict, Outcome
<1>5. LeftSteps(stream') # {} => interrupted'
  BY <1>1, <1>3 DEF OpenSteps
<1>. QED  BY <1>3, <1>4, <1>5 DEF Closed

LEMMA HeardStep == Heard /\ [Next]_vars => Heard'
<1>. SUFFICES ASSUME Heard, [Next]_vars PROVE Heard'
  OBVIOUS
<1>1. Reporting /\ Reporting' /\ Told(stream) /\ Closed
  BY ReportingStep DEF Heard
<1>2. /\ Control /\ Control' /\ todoStep' \in Step /\ Types
  BY <1>1 DEF Reporting, Machinery, Types, TypeOK
<1>. SUFFICES Told(stream') /\ Closed'
  BY <1>1 DEF Heard
<1>3. CASE PassStage \/ FailStage \/ OpenStoreThrows \/ SeedAndLaunch \/ SeedFails
  BY <1>1, <1>3, BootstrapHeard
<1>4. CASE Conclude
  BY <1>1, <1>4, ConcludeHeard
<1>5. CASE StartDone \/ StartFailed \/ SelectFailed \/ SyncDone \/ ExitDone \/ SelectStep
           \/ SelectExit \/ SyncFailed \/ RunFailed \/ RunTimedOut
  <2>1. /\ Observe /\ progress = "supervising" /\ progress' # "concluded" /\ interrupted' = interrupted
        /\ phase = "running" => error' \in {"error", "timeout"}
    BY <1>5 DEF StartDone, StartFailed, SelectFailed, SyncDone, ExitDone, SelectStep,
                SelectExit, SyncFailed, RunFailed, RunTimedOut, Transition, signalVars
  <2>. QED  BY <1>1, <1>2, <2>1, ObserveHeard DEF Closed
<1>6. ASSUME NEW d \in DoneStep, RunDone(d) PROVE Told(stream') /\ Closed'
  <2>1. /\ Observe /\ progress = "supervising" /\ progress' # "concluded" /\ interrupted' = interrupted
        /\ doneStep' # None /\ doneStep'.step.index = inFlight.index
    BY <1>6, EntryFacts DEF RunDone, Transition, signalVars
  <2>. QED  BY <1>1, <1>2, <2>1, ObserveHeard DEF Closed
<1>7. CASE Abort
  <2>1. progress' # "concluded"
    BY <1>7 DEF Abort, Over
  <2>2. CASE progress = "supervising"
    <3>1. Observe /\ interrupted'
      BY <1>7, <2>2 DEF Abort
    <3>. QED  BY <1>1, <1>2, <2>1, <2>2, <3>1, ObserveHeard DEF Closed
  <2>3. CASE progress # "supervising"
    BY <1>1, <1>7, <2>1, <2>3 DEF Abort, Closed, producerVars
  <2>. QED  BY <2>2, <2>3
<1>8. CASE UNCHANGED <<progress, machineVars, producerVars, signalVars>>
  BY <1>1, <1>8 DEF Closed, Verdict, machineVars, producerVars, signalVars
<1>9. CASE \E k \in Shared : PeerPuts(k) \/ PeerTakes(k)
  BY <1>8, <1>9 DEF PeerPuts, PeerTakes
<1>10. ASSUME NEW s \in {inFlight} \ {None}, NEW r \in Result, NEW t \in Step, NEW b \in BOOLEAN
       PROVE  [step |-> s, result |-> r, target |-> t, storable |-> b] \in DoneStep
  BY <1>2, <1>10 DEF DoneStep, Types, TypeOK
<1>. QED
  BY <1>3, <1>4, <1>5, <1>6, <1>7, <1>8, <1>9, <1>10 DEF Next, Machine, Handler, Rest, vars

(* A closed stream: how it ends, and what that makes of the last event.    *)
LEMMA HeardEnds ==
  ASSUME Heard, progress = "concluded"
  PROVE  /\ IsSequence(stream) /\ Len(stream) \in Nat \ {0} /\ OpenSteps(stream) = {}
         /\ Has(stream, "run.start") <=> Has(stream, "run.end")
         /\ Has(stream, "run.end") =>
              stream[Len(stream)].event = "run.end" /\ EndOutcome(stream) = Verdict
         /\ ~Has(stream, "run.end") => stream[Len(stream)].event = "bootstrap.error"
         /\ ~Has(stream, "run.end") => Has(stream, "bootstrap.error")
         /\ LeftSteps(stream) # {} => interrupted
         /\ Verdict \in {"ok", "error", "timeout", "interrupted"}
         /\ Has(stream, "bootstrap.error") => Verdict = "error"
         /\ ResultCode = IF Verdict = "ok" THEN 0 ELSE IF Verdict = "interrupted" THEN 143 ELSE 1
<1>1. /\ IsSequence(stream) /\ StreamOK(stream, iteration) /\ Closed /\ progress = "concluded"
      /\ error \in {None, "error", "timeout"}
  BY DEF Heard, Reporting, Telling, StreamOK, Machinery, Types, TypeOK
<1>2. Len(stream) \in Nat \ {0} /\ (\A kind : Emitted(kind) <=> Has(stream, kind))
  BY <1>1, SequenceFacts, EmittedIsHas DEF Closed
<1>3. \A kind : stream[Len(stream)].event = kind => Has(stream, kind)
  BY <1>2 DEF Has
<1>4. Has(stream, "run.end") => Has(stream, "run.start")
  BY <1>1 DEF StreamOK, EndIsFinal, Has
<1>5. OpenSteps(stream) = {}
  BY <1>1 DEF Closed, OpenSteps, Open
<1>6. Verdict \in {"ok", "error", "timeout", "interrupted"}
  BY <1>1 DEF Verdict
<1>7. ResultCode = IF Verdict = "ok" THEN 0 ELSE IF Verdict = "interrupted" THEN 143 ELSE 1
  BY <1>1, <1>2, WorkflowAssumption DEF ResultCode, Verdict
<1>8. Has(stream, "bootstrap.error") => Verdict = "error"
  BY DEF Verdict
<1>. QED  BY <1>1, <1>2, <1>3, <1>4, <1>5, <1>6, <1>7, <1>8 DEF Closed

(* The spans of the trace are those of the steps. *)
LEMMA HeardSpans == Heard => SpansFaithful
<1>. SUFFICES ASSUME Heard PROVE SpansFaithful
  OBVIOUS
<1>. DEFINE b == BridgeOf(stream)
<1>0. Bridge = b
  BY ConsumersFold
<1>1. /\ IsSequence(stream) /\ StreamOK(stream, iteration) /\ Control /\ Framed /\ InFlightOpen
      /\ BridgeShape(b) /\ BridgeTells(b, stream) /\ SpansTell(b, stream)
      /\ progress \in {"bootstrapping", "seeding", "supervising", "concluded", "rejected"}
  BY DEF Heard, Told, Reporting, Telling, StreamOK, Machinery, Types, TypeOK
<1>. HIDE DEF b
<1>2. Len(stream) \in Nat /\ DOMAIN stream = 1 .. Len(stream)
  BY <1>1, SequenceFacts
<1>3. b.open = OpenSteps(stream)
  BY <1>1 DEF BridgeTells
<1>4. ASSUME ~interrupted, ~Over PROVE b.open = {inFlight} \ {None}
  <2>1. CASE progress \in {"bootstrapping", "seeding"}
    <3>1. ~Open(stream)
      BY <1>1, <1>2, <2>1 DEF Framed, Open, Has
    <3>2. inFlight = None
      BY <1>1, <2>1 DEF InFlightOpen
    <3>. QED  BY <1>3, <3>1, <3>2 DEF OpenSteps
  <2>2. CASE progress = "supervising"
    BY <1>1, <1>3, <1>4, <2>2 DEF InFlightOpen, OpenSteps
  <2>. QED  BY <1>1, <1>4, <2>1, <2>2 DEF Over
<1>5. ASSUME inFlight # None PROVE Correlated = inFlight
  <2>1. ~interrupted /\ ~Over
    BY <1>1, <1>5 DEF Control, InFlightOpen, Over
  <2>2. inFlight \in b.open
    BY <1>4, <1>5, <2>1
  <2>. QED  BY <1>0, <1>5, <2>2 DEF Correlated, StepNamed
<1>6. ASSUME progress = "concluded"
      PROVE  /\ BridgeClosed = b /\ b.root # "open"
             /\ b.runs = Cardinality(Indices("run.end"))
  <2>1. b.open = {} /\ b.root # "open"
    BY <1>1, <1>3, <1>6, HeardEnds DEF BridgeTells
  <2>2. EndDangling(b, "ERROR") = b
    <3>. DEFINE f == [x \in DOMAIN b.ended \cup b.open |-> IF x \in b.open THEN "ERROR" ELSE b.ended[x]]
    <3>1. f = b.ended
      BY <1>1, <2>1 DEF BridgeShape
    <3>2. EndDangling(b, "ERROR") = [[b EXCEPT !.open = {}] EXCEPT !.ended = f]
      BY <1>1 DEF EndDangling, BridgeShape
    <3>. HIDE DEF f
    <3>. QED  BY <1>1, <2>1, <3>1, <3>2 DEF BridgeShape
  <2>3. BridgeClosed = b
    BY <1>0, <2>1, <2>2 DEF BridgeClosed
  <2>4. Cardinality(Indices("run.end")) = IF Has(stream, "run.end") THEN 1 ELSE 0
    <3>1. CASE Has(stream, "run.end")
      <4>1. Indices("run.end") = {Len(stream)}
        <5>1. \A i \in 1 .. Len(stream) : stream[i].event = "run.end" => i = Len(stream)
          BY <1>1 DEF StreamOK, EndIsFinal
        <5>. QED  BY <1>2, <3>1, <5>1 DEF Indices, Has
      <4>. QED  BY <3>1, <4>1, FS_Singleton
    <3>2. CASE ~Has(stream, "run.end")
      <4>1. Indices("run.end") = {}
        BY <1>2, <3>2 DEF Indices, Has
      <4>. QED  BY <3>2, <4>1, FS_EmptySet
    <3>. QED  BY <3>1, <3>2
  <2>. QED  BY <1>1, <2>1, <2>3, <2>4 DEF BridgeTells
<1>7. ASSUME progress = "concluded"
      PROVE  DOMAIN b.ended = {stream[i].step : i \in Indices("step.start")}
  <2>1. \A x : x \in DOMAIN b.ended <=> StartedStep(stream, x)
    BY <1>1, <1>7, HeardEnds DEF SpansTell
  <2>2. \A x : StartedStep(stream, x) <=> \E i \in Indices("step.start") : stream[i].step = x
    BY <1>2 DEF StartedStep, Indices
  <2>. QED  BY <2>1, <2>2
<1>8. ASSUME progress = "concluded", NEW s \in DOMAIN b.ended
      PROVE  IF \E i \in Indices("step.end") : stream[i].step = s
             THEN \E i \in Indices("step.end") :
                    stream[i].step = s /\ b.ended[s] = SpanStatus(stream[i].outcome)
             ELSE interrupted /\ b.ended[s] = "UNSET"
  <2>1. CASE \E o : EndsAs(stream, s, o) /\ b.ended[s] = SpanStatus(o)
    <3>1. PICK o : EndsAs(stream, s, o) /\ b.ended[s] = SpanStatus(o)
      BY <2>1
    <3>2. PICK i \in 1 .. Len(stream) :
            stream[i].event = "step.end" /\ stream[i].step = s /\ stream[i].outcome = o
      BY <3>1 DEF EndsAs
    <3>3. i \in Indices("step.end")
      BY <1>2, <3>2 DEF Indices
    <3>. QED  BY <3>1, <3>2, <3>3
  <2>2. CASE s \in LeftSteps(stream) /\ b.ended[s] = "UNSET"
    <3>1. interrupted
      BY <1>8, <2>2, HeardEnds
    <3>. DEFINE n == Len(stream)
    <3>2. /\ n > 1 /\ stream[n - 1].event = "step.start" /\ stream[n - 1].step = s
          /\ stream[n].event = "run.end"
      BY <1>8, <2>2, HeardEnds DEF LeftSteps
    <3>3. ASSUME NEW i \in Indices("step.end"), stream[i].step = s PROVE FALSE
      <4>1. i \in 1 .. n /\ stream[i].event = "step.end"
        BY <1>2, <3>3 DEF Indices
      <4>2. i - 1 \in 1 .. n /\ stream[i - 1].event = "step.start" /\ stream[i - 1].step = s
        BY <1>1, <3>3, <4>1 DEF StreamOK, StepsPaired
      <4>3. n - 1 \in 1 .. n
        BY <1>2, <3>2
      <4>4. i - 1 = n - 1
        <5>1. ~(i - 1 < n - 1) /\ ~(n - 1 < i - 1)
          BY <1>1, <3>2, <4>2, <4>3 DEF StreamOK, StepsDistinct
        <5>. QED  BY <1>2, <4>2, <4>3, <5>1
      <4>5. i = n
        <5>1. i \in Int /\ n \in Int
          BY <1>2, <4>1
        <5>. HIDE DEF n
        <5>. QED  BY <4>4, <5>1
      <4>. QED  BY <3>2, <4>1, <4>5
    <3>. QED  BY <2>2, <3>1, <3>3
  <2>. QED  BY <1>1, <2>1, <2>2 DEF SpansTell
<1>. QED  BY <1>0, <1>4, <1>5, <1>6, <1>7, <1>8 DEF SpansFaithful

(* What a terminal in either mode has shown of a concluded run. *)
LEMMA HeardFailure ==
  ASSUME Heard, progress = "concluded", NEW t, TerminalTells(t, stream)
  PROVE  /\ t.reasons = IF FailureEmitted THEN 1 ELSE 0
         /\ t.errorPaths = IF ErrorLog # <<>> THEN 1 ELSE 0
         /\ {stream[i].step : i \in {j \in Indices("step.end") : IsFailure(stream[j])}} \subseteq t.shown
         /\ Cardinality(t.pending) <= IF interrupted THEN 1 ELSE 0
<1>. DEFINE n == Len(stream)
<1>1. /\ IsSequence(stream) /\ n \in Nat \ {0} /\ OpenSteps(stream) = {}
      /\ Has(stream, "run.start") <=> Has(stream, "run.end")
      /\ Has(stream, "run.end") =>
           stream[n].event = "run.end" /\ EndOutcome(stream) = Verdict
      /\ ~Has(stream, "run.end") => Has(stream, "bootstrap.error")
      /\ LeftSteps(stream) # {} => interrupted
      /\ Has(stream, "bootstrap.error") => Verdict = "error"
  BY HeardEnds
<1>2. DOMAIN stream = 1 .. n
  BY <1>1, SequenceFacts
<1>3. /\ \A i \in 1 .. n : stream[i].event = "run.end" => i = n
      /\ \A i \in 1 .. n : stream[i].event = "step.end" => stream[i].outcome # "interrupted"
      /\ ErrorLog # <<>> <=> \E i \in 1 .. n : IsFailure(stream[i])
  BY ConsumersFold DEF Heard, Told, Plain, LogTells, Reporting, Telling, StreamOK, EndIsFinal
<1>4. FailureEmitted <=>
        Has(stream, "bootstrap.error") \/ (Has(stream, "run.end") /\ IsError(EndOutcome(stream)))
  BY <1>1, <1>2, <1>3 DEF FailureEmitted, IsFailure, Has, EndOutcome
<1>5. StepsFailed(stream) > 0 <=>
        \E i \in 1 .. n : stream[i].event = "step.end" /\ stream[i].outcome # "ok"
  BY <1>1, CountAppend
<1>6. ErrorLog # <<>> <=> FailureEmitted \/ StepsFailed(stream) > 0
  BY <1>2, <1>3, <1>5 DEF FailureEmitted, IsFailure, IsError
<1>7. t.errorPaths = IF ErrorLog # <<>> THEN 1 ELSE 0
  <2>1. IsError("error")
    BY DEF IsError
  <2>2. StepsFailed(stream) > 0 => Has(stream, "run.end")
    <3>. SUFFICES ASSUME StepsFailed(stream) > 0 PROVE Has(stream, "run.start")
      BY <1>1
    <3>1. PICK i \in 1 .. n : stream[i].event = "step.end"
      BY <1>5
    <3>2. i - 1 \in 1 .. n /\ stream[i - 1].event = "step.start"
      BY <3>1 DEF Heard, Reporting, Telling, StreamOK, StepsPaired
    <3>. QED  BY <3>2 DEF Heard, Reporting, Telling, StreamOK, StepsNumbered, Has
  <2>. QED  BY <1>1, <1>4, <1>6, <2>1, <2>2 DEF TerminalTells
<1>8. {stream[i].step : i \in {j \in Indices("step.end") : IsFailure(stream[j])}} \subseteq t.shown
  <2>. SUFFICES ASSUME NEW i \in Indices("step.end"), IsFailure(stream[i])
                PROVE  stream[i].step \in t.shown
    OBVIOUS
  <2>1. stream[i].event = "step.end" /\ IsError(stream[i].outcome) /\ i \in 1 .. n
    BY <1>2 DEF Indices, IsFailure
  <2>2. EndsAs(stream, stream[i].step, stream[i].outcome)
    BY <2>1 DEF EndsAs
  <2>. QED  BY <2>1, <2>2 DEF TerminalTells
<1>9. Cardinality(t.pending) <= IF interrupted THEN 1 ELSE 0
  <2>1. t.pending = LeftSteps(stream)
    BY <1>1 DEF TerminalTells
  <2>2. CASE LeftSteps(stream) = {}
    <3>1. Cardinality(t.pending) = 0
      BY <2>1, <2>2, FS_EmptySet
    <3>. QED  BY <3>1
  <2>3. CASE LeftSteps(stream) # {}
    <3>1. interrupted /\ \E x : LeftSteps(stream) = {x}
      BY <1>1, <2>3 DEF LeftSteps
    <3>2. Cardinality(t.pending) = 1
      BY <2>1, <3>1, FS_Singleton
    <3>. QED  BY <3>1, <3>2
  <2>. QED  BY <2>2, <2>3
<1>. QED  BY <1>4, <1>7, <1>8, <1>9 DEF TerminalTells

(* The numbers of run.end are those a reader of the log counts itself.     *)
LEMMA HeardSummary ==
  Heard => /\ Summary = CountedSteps
           /\ Summary = [ok |-> StepsEnded(stream) - StepsFailed(stream),
                         failed |-> StepsFailed(stream)]
<1>. SUFFICES ASSUME Heard
              PROVE  /\ Summary = CountedSteps
                     /\ Summary = [ok |-> StepsEnded(stream) - StepsFailed(stream),
                                   failed |-> StepsFailed(stream)]
  OBVIOUS
<1>1. CountedSteps = [ok |-> StepsEnded(stream) - StepsFailed(stream), failed |-> StepsFailed(stream)]
  BY ConsumersFold DEF Heard, Told, CountTells
<1>2. IsSequence(stream) /\ StreamOK(stream, iteration) /\ Plain(stream)
  BY DEF Heard, Reporting, Telling, StreamOK, Told
<1>3. CASE Emitted("run.end")
  <2>. DEFINE n == Len(stream)
  <2>1. Has(stream, "run.end") /\ n \in Nat /\ DOMAIN stream = 1 .. n
    BY <1>2, <1>3, EmittedIsHas, SequenceFacts
  <2>2. Indices("run.end") = {n}
    <3>1. \A i \in 1 .. n : stream[i].event = "run.end" => i = n
      BY <1>2 DEF StreamOK, EndIsFinal
    <3>. QED  BY <2>1, <3>1 DEF Indices, Has
  <2>3. Max(Indices("run.end")) = n
    BY <2>1, <2>2 DEF Max
  <2>4. stream[n].stepsTotal = StepsEnded(stream) /\ stream[n].stepsFailed = StepsFailed(stream)
    BY <1>2, <2>1 DEF Plain
  <2>. QED  BY <1>1, <1>3, <2>3, <2>4 DEF Summary
<1>4. CASE ~Emitted("run.end")
  BY <1>1, <1>4 DEF Summary
<1>. QED  BY <1>3, <1>4

(* A run whose store could not be opened: its stream ends with run.start,  *)
(* and that is all the consumers know when they are closed.                *)
LEMMA HeardRejection == Heard => RejectionUntold
<1>. SUFFICES ASSUME Heard, progress = "rejected" PROVE RejectionUntold
  BY DEF RejectionUntold
<1>. DEFINE b == BridgeOf(stream)
<1>1. /\ IsSequence(stream) /\ StreamOK(stream, iteration)
      /\ Has(stream, "run.start") /\ ~Has(stream, "run.end") /\ ~Has(stream, "bootstrap.error")
      /\ ~Has(stream, "step.start") /\ ~Has(stream, "step.end")
      /\ BridgeShape(b) /\ BridgeTells(b, stream) /\ EntryTells(EntryOf(stream), stream)
      /\ TerminalTells(PrettyOf(stream), stream) /\ TerminalTells(QuietOf(stream), stream)
      /\ LogTells(LogOf(stream), stream)
  BY DEF Heard, Told, Reporting, Telling, Framed, StreamOK
<1>2. ResultCode = 1
  BY DEF ResultCode
<1>3. /\ BridgeClosed.root = "ended" /\ BridgeClosed.status = "ERROR" /\ BridgeClosed.runs = 0
  <2>. HIDE DEF b
  <2>1. Bridge = b /\ b.root = "open" /\ b.runs = 0
    BY <1>1, ConsumersFold DEF BridgeTells, b
  <2>. QED  BY <1>1, <2>1 DEF BridgeClosed, EndDangling, BridgeShape
<1>4. RegistryEntry.status = "running"
  BY <1>1, ConsumersFold DEF EntryTells, NoEntry
<1>5. ErrorLog = <<>>
  BY <1>1, ConsumersFold DEF LogTells, IsFailure, Has
<1>6. ASSUME NEW mode \in Mode PROVE Terminal(mode).reasons = 0
  BY <1>1, ConsumersFold DEF TerminalTells, Mode
<1>. QED  BY <1>2, <1>3, <1>4, <1>5, <1>6 DEF RejectionUntold

(* The trace, the terminal, the registry, the error log, the summary of    *)
(* the log and the exit code tell of the same run: of any workflow, with   *)
(* a bootstrap that fails at any stage, handlers that fail or time out,    *)
(* and an abort at any moment.  Of a run whose store could not be opened   *)
(* the exit code and the trace tell the failure, and no one else.          *)
THEOREM ConsumersTellOneStory == Spec => []ConsumersAgree
<1>1. Heard => ConsumersAgree
  <2>. SUFFICES ASSUME Heard PROVE ConsumersAgree
    OBVIOUS
  <2>. DEFINE b == BridgeOf(stream)
              r == EntryOf(stream)
  <2>1. /\ SpansFaithful
        /\ Summary = CountedSteps
        /\ Summary = [ok |-> StepsEnded(stream) - StepsFailed(stream), failed |-> StepsFailed(stream)]
    BY HeardSpans, HeardSummary
  <2>2. FailureToldOnce
    <3>. SUFFICES ASSUME progress = "concluded", NEW mode \in Mode
                  PROVE  LET t == Terminal(mode)
                             failedSteps == {stream[i].step :
                                               i \in {j \in Indices("step.end") : IsFailure(stream[j])}}
                         IN /\ t.reasons = IF FailureEmitted THEN 1 ELSE 0
                            /\ t.errorPaths = IF ErrorLog # <<>> THEN 1 ELSE 0
                            /\ failedSteps \subseteq t.shown
                            /\ Cardinality(t.pending) <= IF interrupted THEN 1 ELSE 0
      BY DEF FailureToldOnce
    <3>1. TerminalTells(Terminal("pretty"), stream) /\ TerminalTells(Terminal("quiet"), stream)
      BY ConsumersFold DEF Heard, Told
    <3>2. TerminalTells(Terminal(mode), stream)
      BY <3>1 DEF Mode
    <3>. QED  BY <3>2, HeardFailure
  <2>3. ASSUME progress = "concluded"
        PROVE  /\ RegistryEntry.status =
                    CASE Emitted("bootstrap.error") -> "bootstrap-failed"
                      [] ResultCode = 0 -> "ok" [] ResultCode = 143 -> "interrupted" [] OTHER -> "error"
               /\ Emitted("run.start") =>
                    Bridge.status = CASE ResultCode = 0 -> "OK" [] ResultCode = 143 -> "UNSET" [] OTHER -> "ERROR"
               /\ ~Emitted("run.start") => Bridge.records = 1
               /\ RegistryEntry.stepsTotal # None =>
                    /\ RegistryEntry.stepsFailed = Summary.failed
                    /\ RegistryEntry.stepsTotal = Summary.ok + Summary.failed
               /\ ResultCode = 1 => IsFailure(Last(stream))
    <3>1. /\ IsSequence(stream) /\ Len(stream) \in Nat \ {0}
          /\ Has(stream, "run.start") <=> Has(stream, "run.end")
          /\ Has(stream, "run.end") =>
               stream[Len(stream)].event = "run.end" /\ EndOutcome(stream) = Verdict
          /\ ~Has(stream, "run.end") => stream[Len(stream)].event = "bootstrap.error"
          /\ ~Has(stream, "run.end") => Has(stream, "bootstrap.error")
          /\ Verdict \in {"ok", "error", "timeout", "interrupted"}
          /\ Has(stream, "bootstrap.error") => Verdict = "error"
          /\ ResultCode = IF Verdict = "ok" THEN 0 ELSE IF Verdict = "interrupted" THEN 143 ELSE 1
      BY <2>3, HeardEnds
    <3>2. /\ Bridge = b /\ RegistryEntry = r /\ BridgeTells(b, stream) /\ EntryTells(r, stream)
          /\ \A kind : Emitted(kind) <=> Has(stream, kind)
      BY <3>1, ConsumersFold, EmittedIsHas DEF Heard, Told
    <3>. HIDE DEF b, r
    <3>3. RegistryEntry.status =
            CASE Emitted("bootstrap.error") -> "bootstrap-failed"
              [] ResultCode = 0 -> "ok" [] ResultCode = 143 -> "interrupted" [] OTHER -> "error"
      <4>1. CASE Has(stream, "bootstrap.error")
        <5>1. r.status = "bootstrap-failed" /\ ResultCode = 1
          BY <3>1, <3>2, <4>1 DEF EntryTells, NoEntry
        <5>. QED  BY <3>2, <4>1, <5>1
      <4>2. CASE ~Has(stream, "bootstrap.error")
        <5>1. r.status = IF IsError(Verdict) THEN "error" ELSE Verdict
          BY <3>1, <3>2, <4>2 DEF EntryTells
        <5>. QED  BY <3>1, <3>2, <4>2, <5>1 DEF IsError
      <4>. QED  BY <4>1, <4>2
    <3>4. ASSUME Emitted("run.start")
          PROVE  Bridge.status = CASE ResultCode = 0 -> "OK" [] ResultCode = 143 -> "UNSET" [] OTHER -> "ERROR"
      <4>1. b.status = SpanStatus(Verdict)
        BY <3>1, <3>2, <3>4 DEF BridgeTells
      <4>. QED  BY <3>1, <3>2, <4>1 DEF SpanStatus
    <3>5. ASSUME ~Emitted("run.start") PROVE Bridge.records = 1
      BY <3>1, <3>2, <3>5 DEF BridgeTells
    <3>6. ASSUME RegistryEntry.stepsTotal # None
          PROVE  /\ RegistryEntry.stepsFailed = Summary.failed
                 /\ RegistryEntry.stepsTotal = Summary.ok + Summary.failed
      <4>1. r.stepsTotal = StepsEnded(stream) /\ r.stepsFailed = StepsFailed(stream)
        BY <3>1, <3>2, <3>6 DEF EntryTells, NoEntry
      <4>2. StepsEnded(stream) \in Nat /\ StepsFailed(stream) \in Nat
        BY <3>1, CountAppend
      <4>3. Summary.ok = StepsEnded(stream) - StepsFailed(stream) /\ Summary.failed = StepsFailed(stream)
        BY <2>1
      <4>. QED  BY <3>2, <4>1, <4>2, <4>3
    <3>7. ASSUME ResultCode = 1 PROVE IsFailure(Last(stream))
      <4>1. Last(stream) = stream[Len(stream)]
        BY DEF Last
      <4>2. CASE Has(stream, "run.end")
        <5>1. Verdict \in {"error", "timeout"}
          BY <3>1, <3>7
        <5>. QED  BY <3>1, <4>1, <4>2, <5>1 DEF IsFailure, IsError, EndOutcome
      <4>3. CASE ~Has(stream, "run.end")
        BY <3>1, <4>1, <4>3 DEF IsFailure
      <4>. QED  BY <4>2, <4>3
    <3>. QED  BY <3>3, <3>4, <3>5, <3>6, <3>7
  <2>4. OutcomesAgree
    BY <2>3 DEF OutcomesAgree
  <2>. QED  BY <2>1, <2>2, <2>4, HeardRejection DEF ConsumersAgree
<1>. QED  BY <1>1, HeardInit, HeardStep, PTL DEF Spec
=============================================================================
