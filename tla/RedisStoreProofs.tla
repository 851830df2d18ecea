-------------------------- MODULE RedisStoreProofs --------------------------
(***************************************************************************)
(* Theorems about RedisStore, for any number of callers and clients, any   *)
(* bound on retries and any size of the queue.  What makes ClientTracked   *)
(* inductive is LateAreEarly: the map only loses sight of a client that is *)
(* still connecting through a close() that came early.  What makes what is *)
(* said of the queue inductive is where a value is while a call is under   *)
(* way: on its way to SET it is nowhere yet, and nobody was told of it.    *)
(***************************************************************************)
EXTENDS RedisStore, FiniteSetTheorems, SequenceTheorems, TLAPS

LateAreEarly == \A c \in Client : client[c] = "connecting" /\ cached # c => early

ClientInv == ClientsTypeOK /\ LateAreEarly /\ ClientTracked

(* A call of a caller touches the clients only when the socket drops. *)
LEMMA CallOnClients ==
  ASSUME NEW p \in Caller, Call(p)
  PROVE  \/ UNCHANGED clientVars
         \/ /\ Sends(p) /\ Drop(store[p])
            /\ UNCHANGED <<cached, retries, opener, awaiting, store, closing, early>>
<1>. USE DEF Answered, Failed, Lost, Refused
<1>1. CASE Oversize(p)
  BY <1>1 DEF Oversize
<1>2. CASE TypeProbe(p)
  BY <1>2 DEF TypeProbe
<1>3. CASE Set(p)
  BY <1>3 DEF Set
<1>4. CASE Enqueue(p)
  BY <1>4 DEF Enqueue
<1>5. CASE Dequeue(p)
  BY <1>5 DEF Dequeue
<1>6. CASE Get(p)
  BY <1>6 DEF Get
<1>7. CASE Diagnose(p)
  BY <1>7 DEF Diagnose
<1>. QED  BY <1>1, <1>2, <1>3, <1>4, <1>5, <1>6, <1>7 DEF Call

LEMMA ClientsInit == Init => ClientInv
<1>. SUFFICES ASSUME Init PROVE ClientInv
  OBVIOUS
<1>. USE DEF Init, InitClients
<1>1. ClientsTypeOK
  <2>1. retries \in [Client -> 0..RetryMax]
    BY RetryMaxAssumption
  <2>2. client \in [Client -> {"unused", "ready", "failed", "gone", "closed"} \cup Trying]
    OBVIOUS
  <2>3. /\ opener \in [Client -> Caller \cup {None}]
        /\ awaiting \in [Caller -> Client \cup {None}]
        /\ store \in [Caller -> Client \cup {None}]
    OBVIOUS
  <2>. QED  BY <2>1, <2>2, <2>3 DEF ClientsTypeOK
<1>2. LateAreEarly
  BY DEF LateAreEarly
<1>3. Open = {}
  BY DEF Open, Trying
<1>4. ClientTracked
  BY <1>3 DEF ClientTracked
<1>. QED  BY <1>1, <1>2, <1>4 DEF ClientInv

(* Every step keeps the clients, the map and the callers well typed. *)
LEMMA ClientsTypeStep == ClientsTypeOK /\ [Next]_vars => ClientsTypeOK'
<1>. SUFFICES ASSUME ClientsTypeOK, [Next]_vars PROVE ClientsTypeOK'
  OBVIOUS
<1>. USE RetryMaxAssumption DEF ClientsTypeOK, Trying
<1>1. ASSUME NEW p \in Caller, Call(p) PROVE ClientsTypeOK'
  <2>1. CASE UNCHANGED clientVars
    BY <2>1 DEF clientVars
  <2>2. CASE /\ Sends(p) /\ Drop(store[p])
             /\ UNCHANGED <<cached, retries, opener, awaiting, store, closing, early>>
    BY <2>2 DEF Drop
  <2>. QED  BY <1>1, <2>1, <2>2, CallOnClients
<1>2. ASSUME NEW p \in Caller, Share(p) PROVE ClientsTypeOK'
  BY <1>2 DEF Share
<1>3. ASSUME NEW p \in Caller, OpenRedisClient(p) PROVE ClientsTypeOK'
  BY <1>3 DEF OpenRedisClient
<1>4. ASSUME NEW p \in Caller, Create(p) PROVE ClientsTypeOK'
  BY <1>4 DEF Create
<1>5. ASSUME NEW c \in Client, Connected(c) PROVE ClientsTypeOK'
  BY <1>5 DEF Connected
<1>6. ASSUME NEW c \in Client, AttemptFails(c) PROVE ClientsTypeOK'
  BY <1>6 DEF AttemptFails
<1>7. ASSUME NEW c \in Client, ConnectFails(c) PROVE ClientsTypeOK'
  BY <1>7 DEF ConnectFails
<1>8. ASSUME NEW c \in Client, GiveUp(c) PROVE ClientsTypeOK'
  BY <1>8 DEF GiveUp
<1>9. ASSUME NEW c \in Client, Quit(c) PROVE ClientsTypeOK'
  BY <1>9 DEF Quit
<1>10. CASE Close
  BY <1>10 DEF Close
<1>11. CASE UNCHANGED vars
  BY <1>11 DEF vars, clientVars
<1>. QED
  BY <1>1, <1>2, <1>3, <1>4, <1>5, <1>6, <1>7, <1>8, <1>9, <1>10, <1>11 DEF Next, Connection

(* A step after which the same clients are open, failed and connecting, of *)
(* the same map, cannot disturb the invariant.                             *)
LEMMA ClientInvStep == ClientInv /\ [Next]_vars => (LateAreEarly /\ ClientTracked)'
<1>. SUFFICES ASSUME ClientInv, [Next]_vars PROVE (LateAreEarly /\ ClientTracked)'
  OBVIOUS
<1>. USE NoneAssumption DEF ClientInv, ClientsTypeOK, LateAreEarly, ClientTracked, Open, Trying
<1>1. ASSUME NEW p \in Caller, Call(p) PROVE (LateAreEarly /\ ClientTracked)'
  <2>1. CASE UNCHANGED clientVars
    BY <2>1 DEF clientVars
  <2>2. CASE /\ Sends(p) /\ Drop(store[p])
             /\ UNCHANGED <<cached, retries, opener, awaiting, store, closing, early>>
    BY <2>2 DEF Drop
  <2>. QED  BY <1>1, <2>1, <2>2, CallOnClients
<1>2. ASSUME NEW p \in Caller, Share(p) PROVE (LateAreEarly /\ ClientTracked)'
  BY <1>2 DEF Share
<1>3. ASSUME NEW p \in Caller, OpenRedisClient(p) PROVE (LateAreEarly /\ ClientTracked)'
  BY <1>3 DEF OpenRedisClient
<1>4. ASSUME NEW p \in Caller, Create(p) PROVE (LateAreEarly /\ ClientTracked)'
  BY <1>4 DEF Create
<1>5. ASSUME NEW c \in Client, Connected(c) PROVE (LateAreEarly /\ ClientTracked)'
  BY <1>5 DEF Connected
<1>6. ASSUME NEW c \in Client, AttemptFails(c) PROVE (LateAreEarly /\ ClientTracked)'
  BY <1>6 DEF AttemptFails
<1>7. ASSUME NEW c \in Client, ConnectFails(c) PROVE (LateAreEarly /\ ClientTracked)'
  BY <1>7 DEF ConnectFails
<1>8. ASSUME NEW c \in Client, GiveUp(c) PROVE (LateAreEarly /\ ClientTracked)'
  BY <1>8 DEF GiveUp
<1>9. ASSUME NEW c \in Client, Quit(c) PROVE (LateAreEarly /\ ClientTracked)'
  BY <1>9 DEF Quit
<1>10. CASE Close
  BY <1>10 DEF Close
<1>11. CASE UNCHANGED vars
  BY <1>11 DEF vars, clientVars
<1>. QED
  BY <1>1, <1>2, <1>3, <1>4, <1>5, <1>6, <1>7, <1>8, <1>9, <1>10, <1>11 DEF Next, Connection

(* No open client is out of reach of the map and of close(), unless an     *)
(* early close() and a failed attempt came together.                       *)
THEOREM OpenClientsAreTracked == Spec => []ClientTracked
<1>1. ClientInv /\ [Next]_vars => ClientInv'
  BY ClientsTypeStep, ClientInvStep DEF ClientInv
<1>2. ClientInv => ClientTracked
  BY DEF ClientInv
<1>. QED  BY ClientsInit, <1>1, <1>2, PTL DEF Spec

-----------------------------------------------------------------------------
(* The queue.  A value is given out in the order of the puts, so that what *)
(* a TYPE probe has seen is older than whatever is appended behind it.     *)

ValueInv ==
  /\ writes \in Nat
  /\ box \in [type : {"none", "string", "list"}, items : Seq(1..writes)]
  /\ box.type = "none" <=> box.items = <<>>
  /\ pushed \in Seq(1..writes)
  /\ call \in [Caller -> [step : {"idle", "set", "diagnose"}, value : 1..writes \cup {0},
                          seen : SUBSET (1..writes)]]
  /\ \A p \in Caller : call[p].step = "set" => call[p].value # 0

BoxInv == ValueInv /\ NeverOverflows /\ ProbeGuards

(* What a sequence holds after a value is appended, or the first removed. *)
LEMMA SequenceElements ==
  ASSUME NEW S, NEW s \in Seq(S)
  PROVE  /\ ToSet(s) \subseteq S
         /\ \A v : ToSet(Append(s, v)) = ToSet(s) \cup {v}
         /\ s # <<>> => ToSet(Tail(s)) \subseteq ToSet(s) /\ Tail(s) \in Seq(S) /\ Len(Tail(s)) = Len(s) - 1
<1>1. ToSet(s) \subseteq S
  BY DEF ToSet
<1>2. ASSUME NEW v PROVE ToSet(Append(s, v)) = ToSet(s) \cup {v}
  <2>1. /\ Len(Append(s, v)) = Len(s) + 1
        /\ \A i \in 1..Len(s) : Append(s, v)[i] = s[i]
        /\ Append(s, v)[Len(s) + 1] = v
        /\ DOMAIN Append(s, v) = 1..Len(s) + 1
        /\ DOMAIN s = 1..Len(s)
    OBVIOUS
  <2>. QED  BY <2>1 DEF ToSet
<1>3. ASSUME s # <<>>
      PROVE  ToSet(Tail(s)) \subseteq ToSet(s) /\ Tail(s) \in Seq(S) /\ Len(Tail(s)) = Len(s) - 1
  BY <1>3 DEF ToSet
<1>. QED  BY <1>1, <1>2, <1>3

LEMMA BoxInit == Init => BoxInv
<1>. SUFFICES ASSUME Init PROVE BoxInv
  OBVIOUS
<1>1. ValueInv
  BY DEF Init, ValueInv, NoBox, Idle
<1>2. NeverOverflows
  BY QueueSizeMaxAssumption DEF Init, NeverOverflows, Queued, NoBox
<1>3. ProbeGuards
  BY DEF Init, ProbeGuards, Idle
<1>. QED  BY <1>1, <1>2, <1>3 DEF BoxInv

(* A put that is begun, and leaves the box and the queue. *)
LEMMA KeepsBox ==
  ASSUME BoxInv, UNCHANGED <<box, pushed>>, writes' \in {writes, writes + 1},
         NEW p \in Caller,
         \/ call' = call
         \/ call' = [call EXCEPT ![p] = Idle]
         \/ call' = [call EXCEPT ![p] = [Idle EXCEPT !.step = "diagnose"]]
         \/ /\ box.type # "list" /\ writes' = writes + 1
            /\ call' = [call EXCEPT ![p] = [step |-> "set", value |-> writes', seen |-> ToSet(pushed)]]
  PROVE  BoxInv'
<1>. USE DEF BoxInv, ValueInv
<1>1. /\ writes' \in Nat /\ Seq(1..writes) \subseteq Seq(1..writes')
      /\ 1..writes \subseteq 1..writes'
  OBVIOUS
<1>2. ToSet(pushed) \subseteq 1..writes
  BY SequenceElements
<1>3. call' \in [Caller -> [step : {"idle", "set", "diagnose"}, value : 1..writes' \cup {0},
                            seen : SUBSET (1..writes')]]
  <2>. DEFINE State == [step : {"idle", "set", "diagnose"}, value : 1..writes' \cup {0},
                        seen : SUBSET (1..writes')]
  <2>1. call \in [Caller -> State]
    BY <1>1
  <2>2. Idle \in State /\ [Idle EXCEPT !.step = "diagnose"] \in State
    BY DEF Idle
  <2>3. writes' = writes + 1 => [step |-> "set", value |-> writes', seen |-> ToSet(pushed)] \in State
    BY <1>1, <1>2
  <2>. HIDE DEF State
  <2>4. call' \in [Caller -> State]
    BY <2>1, <2>2, <2>3
  <2>. QED  BY <2>4 DEF State
<1>4. ValueInv'
  BY <1>1, <1>3 DEF Idle
<1>5. NeverOverflows'
  BY DEF NeverOverflows, Queued
<1>6. ProbeGuards'
  <2>1. ASSUME NEW q \in Caller, call'[q].step = "set"
        PROVE  ToSet(Queued)' \cap call'[q].seen = {}
    <3>1. CASE call'[q] = call[q]
      BY <2>1, <3>1 DEF ProbeGuards, Queued
    <3>2. CASE call'[q] # call[q]
      <4>1. box.type # "list"
        BY <2>1, <3>2 DEF Idle
      <4>2. Queued' = <<>>
        BY <4>1 DEF Queued
      <4>. QED  BY <4>2 DEF ToSet
    <3>. QED  BY <3>1, <3>2
  <2>. QED  BY <2>1 DEF ProbeGuards
<1>. QED  BY <1>4, <1>5, <1>6

(* The box is written over, and the call is over. *)
LEMMA SetKeepsInvariant ==
  ASSUME BoxInv, NEW p \in Caller, call[p].step = "set", SetBox(p), Return(p), UNCHANGED writes
  PROVE  BoxInv'
<1>. USE DEF BoxInv, ValueInv, SetBox, Return, StringOf
<1>1. call[p].value \in 1..writes
  OBVIOUS
<1>2. ValueInv'
  BY <1>1 DEF Idle
<1>3. Queued' = <<>>
  BY DEF Queued
<1>4. NeverOverflows'
  BY <1>3, QueueSizeMaxAssumption DEF NeverOverflows
<1>5. ProbeGuards'
  BY <1>3 DEF ProbeGuards, ToSet
<1>. QED  BY <1>2, <1>4, <1>5

(* An element is appended, with a value no call has seen. *)
LEMMA PushKeepsInvariant ==
  ASSUME BoxInv, Push(writes'), writes' = writes + 1, UNCHANGED call
  PROVE  BoxInv'
<1>. USE DEF BoxInv, ValueInv, Push, ListOf
<1>1. /\ writes' \in Nat /\ Seq(1..writes) \subseteq Seq(1..writes')
      /\ 1..writes \subseteq 1..writes' /\ writes' \in 1..writes' /\ writes' \notin 1..writes
  OBVIOUS
<1>2. /\ Append(box.items, writes') \in Seq(1..writes') /\ Append(box.items, writes') # <<>>
      /\ Len(Append(box.items, writes')) = Len(box.items) + 1
  <2>1. box.items \in Seq(1..writes') /\ writes' \in 1..writes'
    BY <1>1
  <2>. HIDE DEF BoxInv, ValueInv, Push, ListOf
  <2>. QED  BY <2>1
<1>3. box' = [type |-> "list", items |-> Append(box.items, writes')]
  BY <1>2
<1>4. ValueInv'
  BY <1>1, <1>2, <1>3
<1>5. Queued' = Append(box.items, writes')
  BY <1>3 DEF Queued
<1>6. NeverOverflows'
  BY <1>2, <1>5, QueueSizeMaxAssumption DEF NeverOverflows, Full
<1>7. ProbeGuards'
  <2>1. ASSUME NEW q \in Caller, call[q].step = "set"
        PROVE  ToSet(Queued)' \cap call[q].seen = {}
    <3>1. ToSet(Queued)' = ToSet(box.items) \cup {writes'}
      BY <1>5, SequenceElements
    <3>2. Queued = box.items
      BY DEF Queued
    <3>. QED  BY <1>1, <2>1, <3>1, <3>2 DEF ProbeGuards
  <2>. QED  BY <2>1 DEF ProbeGuards
<1>. QED  BY <1>4, <1>6, <1>7

(* The first element is removed. *)
LEMMA PopKeepsInvariant ==
  ASSUME BoxInv, NEW answer, Pop(answer)
  PROVE  BoxInv'
<1>. USE DEF BoxInv, ValueInv, Pop, ListOf
<1>1. /\ Tail(box.items) \in Seq(1..writes) /\ Len(Tail(box.items)) = Len(box.items) - 1
      /\ ToSet(Tail(box.items)) \subseteq ToSet(box.items)
  BY SequenceElements
<1>2. ValueInv'
  BY <1>1 DEF NoBox
<1>3. Queued' = Tail(box.items) /\ Queued = box.items
  BY <1>1 DEF Queued, NoBox
<1>4. NeverOverflows'
  BY <1>1, <1>3, QueueSizeMaxAssumption DEF NeverOverflows
<1>5. ProbeGuards'
  BY <1>1, <1>3 DEF ProbeGuards
<1>. QED  BY <1>2, <1>4, <1>5

(* No call of any caller breaks the invariant, one command at a time. *)
LEMMA BoxStep == BoxInv /\ [Next]_vars => BoxInv'
<1>. SUFFICES ASSUME BoxInv, [Next]_vars PROVE BoxInv'
  OBVIOUS
<1>1. ASSUME NEW p \in Caller, Call(p) PROVE BoxInv'
  <2>. USE DEF Begins
  <2>1. CASE Oversize(p)
    BY <2>1, KeepsBox DEF Oversize
  <2>2. CASE TypeProbe(p)
    BY <2>2, KeepsBox DEF TypeProbe
  <2>3. CASE Set(p)
    <3>1. CASE SetBox(p)
      BY <2>3, <3>1, SetKeepsInvariant DEF Set
    <3>2. CASE ~SetBox(p)
      BY <2>3, <3>2, KeepsBox DEF Set, Return
    <3>. QED  BY <3>1, <3>2
  <2>4. CASE Enqueue(p)
    <3>1. CASE Push(writes') /\ UNCHANGED call
      BY <2>4, <3>1, PushKeepsInvariant DEF Enqueue
    <3>2. CASE ~(Push(writes') /\ UNCHANGED call)
      BY <2>4, <3>2, KeepsBox DEF Enqueue
    <3>. QED  BY <3>1, <3>2
  <2>5. CASE Dequeue(p)
    <3>1. CASE \E answer : Pop(answer)
      BY <3>1, PopKeepsInvariant
    <3>2. CASE WrongType(p)
      BY <3>2, KeepsBox DEF WrongType
    <3>. QED  BY <2>5, <3>1, <3>2 DEF Dequeue
  <2>6. CASE Get(p)
    BY <2>6, KeepsBox DEF Get, WrongType
  <2>7. CASE Diagnose(p)
    BY <2>7, KeepsBox DEF Diagnose, Return
  <2>. QED  BY <1>1, <2>1, <2>2, <2>3, <2>4, <2>5, <2>6, <2>7 DEF Call
<1>2. CASE UNCHANGED boxVars
  BY <1>2 DEF boxVars, BoxInv, ValueInv, NeverOverflows, ProbeGuards, Queued
<1>. QED  BY <1>1, <1>2 DEF Next, Connection, vars

(* The enqueue script keeps the declared bound, whoever else writes. *)
THEOREM QueueIsBounded == Spec => []NeverOverflows
<1>1. BoxInv => NeverOverflows
  BY DEF BoxInv
<1>. QED  BY BoxInit, BoxStep, <1>1, PTL DEF Spec

(* A SET that follows its TYPE probe writes over no element that was there *)
(* when the probe was made.                                                *)
THEOREM ProbeProtects == Spec => []ProbeGuards
<1>1. BoxInv => ProbeGuards
  BY DEF BoxInv
<1>. QED  BY BoxInit, BoxStep, <1>1, PTL DEF Spec

-----------------------------------------------------------------------------
(* The whole queue.  Every value that was appended is in the queue, popped *)
(* or written over, and what was told of it says which.                    *)

Kept ==
  /\ popped \in Seq(1..writes)
  /\ wiped \subseteq ToSet(pushed) \ ToSet(Queued)
  /\ Conserved

Operations == {"put", "enqueue", "get", "dequeue"}

Answers == {"ok", "failed", "full", "refused"}

(* A value on its way to a SET is nowhere yet, and nobody was told of it.  *)
Underway ==
  \A p \in Caller : call[p].step = "set" =>
    /\ call[p].value \notin ToSet(pushed) \cup stored
    /\ \A t \in told : t[2] # call[p].value
    /\ \A q \in Caller : call[q].step = "set" /\ call[q].value = call[p].value => q = p

Dequeued == {t \in told : t[1] = "dequeue"}

Telling ==
  /\ told \subseteq Operations \X (1..writes) \X Answers
  /\ stored \subseteq 1..writes
  /\ box.type = "string" => box.items # <<>> /\ Head(box.items) \in stored
  /\ Underway
  /\ \A t \in told :
       /\ t[1] = "enqueue" /\ t[3] = "ok" => t[2] \in ToSet(pushed)
       /\ t[1] = "put" /\ t[3] = "ok" => t[2] \in stored
       /\ t[3] \in {"full", "refused"} => t[2] \notin ToSet(pushed) \cup stored
       /\ t[1] = "get" => t[2] \in stored
       /\ t[1] = "dequeue" => t[2] \in ToSet(popped)
  /\ \A t, u \in Dequeued : t[2] = u[2] => t = u
  /\ \A v \in ToSet(popped) : \E t \in Dequeued : t[2] = v
  /\ drops \in Nat
  /\ drops = 0 => ~\E t \in told : t[1] = "dequeue" /\ t[3] = "failed"

HonestInv == BoxInv /\ Kept /\ Telling

LEMMA SuffixIs ==
  ASSUME NEW S, NEW s \in Seq(S), NEW t \in Seq(S)
  PROVE  IsSuffix(s, t) <=> /\ Len(s) <= Len(t)
                            /\ \A i \in 1..Len(s) : s[i] = t[Len(t) - Len(s) + i]
<1>1. /\ Len(s) \in Nat /\ Len(t) \in Nat
      /\ Reverse(s) = [i \in 1..Len(s) |-> s[(Len(s) - i) + 1]]
      /\ Reverse(t) = [i \in 1..Len(t) |-> t[(Len(t) - i) + 1]]
  BY DEF Reverse
<1>2. /\ Reverse(s) \in Seq(S) /\ Reverse(t) \in Seq(S)
      /\ Len(Reverse(s)) = Len(s) /\ Len(Reverse(t)) = Len(t)
  BY <1>1
<1>3. IsSuffix(s, t) <=> /\ Len(s) <= Len(t)
                         /\ \A i \in 1..Len(s) : Reverse(s)[i] = Reverse(t)[i]
  <2>. DEFINE r == Reverse(s)
              u == Reverse(t)
  <2>1. r \in Seq(S) /\ u \in Seq(S) /\ Len(r) = Len(s) /\ Len(u) = Len(t)
    BY <1>2
  <2>2. SubSeq(r, 1, Len(r)) = r
    BY <2>1, SubSeqFull
  <2>3. ASSUME Len(s) <= Len(t)
        PROVE  /\ SubSeq(u, 1, Len(s)) \in Seq(S) /\ Len(SubSeq(u, 1, Len(s))) = Len(s)
               /\ \A i \in 1..Len(s) : SubSeq(u, 1, Len(s))[i] = u[i]
    <3>. HIDE DEF r, u
    <3>1. \A i \in 1..Len(s) : u[i] \in S
      BY <1>1, <2>1, <2>3
    <3>2. /\ Len(SubSeq(u, 1, Len(s))) = IF 1 <= Len(s) THEN Len(s) - 1 + 1 ELSE 0
          /\ SubSeq(u, 1, Len(s)) \in Seq(S)
          /\ \A i \in 1..Len(s) - 1 + 1 : SubSeq(u, 1, Len(s))[i] = u[1 + i - 1]
      BY <3>1, <1>1, SubSeqProperties
    <3>. QED  BY <1>1, <3>2
  <2>4. ASSUME Len(s) <= Len(t), \A i \in 1..Len(s) : r[i] = u[i]
        PROVE  r = SubSeq(u, 1, Len(s))
    <3>. HIDE DEF r, u
    <3>. QED  BY <1>1, <2>1, <2>3, <2>4, SeqEqual
  <2>. QED  BY <1>1, <2>1, <2>2, <2>3, <2>4 DEF IsSuffix, IsPrefix
<1>4. ASSUME Len(s) <= Len(t), \A i \in 1..Len(s) : Reverse(s)[i] = Reverse(t)[i],
             NEW i \in 1..Len(s)
      PROVE  s[i] = t[Len(t) - Len(s) + i]
  <2>1. Len(s) - i + 1 \in 1..Len(s) /\ Len(s) - i + 1 \in 1..Len(t)
    BY <1>1, <1>4
  <2>2. /\ Reverse(s)[Len(s) - i + 1] = s[(Len(s) - (Len(s) - i + 1)) + 1]
        /\ Reverse(t)[Len(s) - i + 1] = t[(Len(t) - (Len(s) - i + 1)) + 1]
    BY <1>1, <2>1
  <2>3. /\ (Len(s) - (Len(s) - i + 1)) + 1 = i
        /\ (Len(t) - (Len(s) - i + 1)) + 1 = Len(t) - Len(s) + i
    BY <1>1
  <2>. QED  BY <1>4, <2>1, <2>2, <2>3
<1>5. ASSUME Len(s) <= Len(t), \A i \in 1..Len(s) : s[i] = t[Len(t) - Len(s) + i],
             NEW i \in 1..Len(s)
      PROVE  Reverse(s)[i] = Reverse(t)[i]
  <2>1. Len(s) - i + 1 \in 1..Len(s) /\ i \in 1..Len(t)
    BY <1>1, <1>5
  <2>2. Reverse(s)[i] = s[Len(s) - i + 1] /\ Reverse(t)[i] = t[Len(t) - i + 1]
    BY <1>1, <2>1
  <2>3. s[Len(s) - i + 1] = t[Len(t) - Len(s) + (Len(s) - i + 1)]
    BY <1>5, <2>1
  <2>4. Len(t) - Len(s) + (Len(s) - i + 1) = Len(t) - i + 1
    BY <1>1
  <2>. QED  BY <2>2, <2>3, <2>4
<1>. QED  BY <1>3, <1>4, <1>5

(* A value later than all before it keeps a sequence ascending. *)
LEMMA AscendingSequences ==
  ASSUME NEW n \in Nat, NEW s \in Seq(1..n), Ascending(s)
  PROVE  /\ \A v \in Nat : (\A x \in ToSet(s) : x < v) => Ascending(Append(s, v))
         /\ s # <<>> => Head(s) \in ToSet(s)
         /\ s # <<>> => ToSet(Tail(s)) = ToSet(s) \ {Head(s)}
<1>1. ASSUME NEW v \in Nat, \A x \in ToSet(s) : x < v PROVE Ascending(Append(s, v))
  <2>1. /\ Len(Append(s, v)) = Len(s) + 1 /\ Len(s) \in Nat
        /\ \A i \in 1..Len(s) : Append(s, v)[i] = s[i]
        /\ Append(s, v)[Len(s) + 1] = v
        /\ DOMAIN Append(s, v) = 1..Len(s) + 1
        /\ DOMAIN s = 1..Len(s)
    OBVIOUS
  <2>2. \A i \in 1..Len(s) : s[i] < v
    BY <1>1, <2>1 DEF ToSet
  <2>. QED  BY <2>1, <2>2 DEF Ascending
<1>2. ASSUME s # <<>>
      PROVE  Head(s) \in ToSet(s) /\ ToSet(Tail(s)) = ToSet(s) \ {Head(s)}
  <2>1. /\ Len(s) \in Nat /\ Len(s) >= 1 /\ Head(s) = s[1] /\ DOMAIN s = 1..Len(s)
        /\ Len(Tail(s)) = Len(s) - 1 /\ DOMAIN Tail(s) = 1..Len(s) - 1
        /\ \A i \in 1..Len(s) - 1 : Tail(s)[i] = s[i + 1]
    BY <1>2
  <2>2. \A i \in 1..Len(s) : s[i] \in Nat
    OBVIOUS
  <2>3. \A i \in 1..Len(s) : i > 1 => s[i] # s[1]
    BY <2>1, <2>2 DEF Ascending
  <2>4. \A i \in 1..Len(s) : i > 1 => i - 1 \in 1..Len(s) - 1 /\ Tail(s)[i - 1] = s[i]
    BY <2>1
  <2>5. \A i \in 1..Len(s) - 1 : i + 1 \in 1..Len(s) /\ i + 1 > 1
    BY <2>1
  <2>6. ToSet(Tail(s)) \subseteq ToSet(s) \ {Head(s)}
    BY <2>1, <2>3, <2>5 DEF ToSet
  <2>7. ToSet(s) \ {Head(s)} \subseteq ToSet(Tail(s))
    <3>. SUFFICES ASSUME NEW i \in 1..Len(s), s[i] # s[1] PROVE s[i] \in ToSet(Tail(s))
      BY <2>1 DEF ToSet
    <3>1. i > 1
      BY <2>1
    <3>2. i - 1 \in DOMAIN Tail(s) /\ Tail(s)[i - 1] = s[i]
      BY <2>1, <2>4, <3>1
    <3>. QED  BY <3>2 DEF ToSet
  <2>8. Head(s) \in ToSet(s)
    BY <2>1 DEF ToSet
  <2>. QED  BY <2>6, <2>7, <2>8
<1>. QED  BY <1>1, <1>2

LEMMA HonestInit == Init => HonestInv
<1>. SUFFICES ASSUME Init PROVE HonestInv
  OBVIOUS
<1>1. Kept
  <2>1. Queued = <<>> /\ pushed = <<>> /\ popped = <<>>
    BY DEF Init, Queued, NoBox
  <2>2. IsSuffix(Queued, pushed)
    <3>1. <<>> \in Seq(Nat) /\ Len(<<>>) = 0
      OBVIOUS
    <3>2. IsSuffix(<<>>, <<>>) <=> /\ Len(<<>>) <= Len(<<>>)
                                   /\ \A i \in 1..Len(<<>>) : <<>>[i] = <<>>[Len(<<>>) - Len(<<>>) + i]
      BY <3>1, SuffixIs, Zenon
    <3>. QED  BY <2>1, <3>1, <3>2
  <2>. QED  BY <2>1, <2>2 DEF Kept, Conserved, Ascending, ToSet, Init
<1>2. Telling
  BY DEF Init, Telling, Underway, Dequeued, NoBox, Idle, ToSet
<1>. QED  BY <1>1, <1>2, BoxInit DEF HonestInv

(* What is appended is behind all there was, in the queue and in what was  *)
(* ever appended.                                                          *)
LEMMA PushKeepsQueue ==
  ASSUME BoxInv, Kept, Push(writes'), writes' = writes + 1
  PROVE  Kept'
<1>. DEFINE q == box.items
            v == writes'
<1>1. /\ writes \in Nat /\ v \in Nat /\ v = writes + 1
      /\ q \in Seq(1..writes) /\ pushed \in Seq(1..writes) /\ popped \in Seq(1..writes)
      /\ box.type = "list" \/ q = <<>>
  BY DEF BoxInv, ValueInv, Kept, Push
<1>. HIDE DEF q, v
<1>2. /\ q \in Seq(1..v) /\ pushed \in Seq(1..v) /\ popped \in Seq(1..v) /\ v \in 1..v
  <2>1. 1..writes \subseteq 1..v /\ v \in 1..v
    BY <1>1
  <2>. QED  BY <1>1, <2>1
<1>3. /\ Queued = q /\ Queued' = Append(q, v)
      /\ pushed' = Append(pushed, v) /\ popped' = popped /\ wiped' = wiped
  <2>1. Queued = q
    BY <1>1 DEF Queued, q
  <2>2. Append(q, v) # <<>>
    <3>1. Len(Append(q, v)) = Len(q) + 1 /\ Len(q) \in Nat /\ Len(<<>>) = 0
      BY <1>2
    <3>. QED  BY <3>1
  <2>. QED  BY <2>1, <2>2 DEF Push, Queued, ListOf, q, v
<1>4. /\ ToSet(q) \subseteq 1..writes /\ ToSet(pushed) \subseteq 1..writes
      /\ ToSet(popped) \subseteq 1..writes
      /\ ToSet(Append(q, v)) = ToSet(q) \cup {v}
      /\ ToSet(Append(pushed, v)) = ToSet(pushed) \cup {v}
  BY <1>1, SequenceElements
<1>5. IsSuffix(Append(q, v), Append(pushed, v))
  <2>1. /\ Len(q) <= Len(pushed)
        /\ \A i \in 1..Len(q) : q[i] = pushed[Len(pushed) - Len(q) + i]
    <3>1. IsSuffix(q, pushed)
      BY <1>3 DEF Kept, Conserved
    <3>. QED  BY <1>1, <3>1, SuffixIs
  <2>2. /\ Append(q, v) \in Seq(1..v) /\ Append(pushed, v) \in Seq(1..v)
        /\ Len(Append(q, v)) = Len(q) + 1 /\ Len(Append(pushed, v)) = Len(pushed) + 1
        /\ Len(q) \in Nat /\ Len(pushed) \in Nat
        /\ Append(q, v)[Len(q) + 1] = v /\ Append(pushed, v)[Len(pushed) + 1] = v
        /\ \A i \in 1..Len(q) : Append(q, v)[i] = q[i]
        /\ \A i \in 1..Len(pushed) : Append(pushed, v)[i] = pushed[i]
    BY <1>2
  <2>3. ASSUME NEW i \in 1..Len(q) + 1
        PROVE  Append(q, v)[i] = Append(pushed, v)[Len(pushed) - Len(q) + i]
    <3>1. CASE i = Len(q) + 1
      <4>1. Len(pushed) - Len(q) + i = Len(pushed) + 1
        BY <2>2, <3>1
      <4>. QED  BY <2>2, <3>1, <4>1
    <3>2. CASE i # Len(q) + 1
      <4>1. i \in 1..Len(q) /\ Len(pushed) - Len(q) + i \in 1..Len(pushed)
        BY <2>1, <2>2, <3>2
      <4>. QED  BY <2>1, <2>2, <4>1
    <3>. QED  BY <3>1, <3>2
  <2>4. (Len(pushed) + 1) - (Len(q) + 1) = Len(pushed) - Len(q) /\ Len(q) + 1 <= Len(pushed) + 1
    BY <2>1, <2>2
  <2>. QED  BY <2>2, <2>3, <2>4, SuffixIs
<1>6. Ascending(Append(pushed, v)) /\ Ascending(popped)
  <2>1. \A x \in ToSet(pushed) : x < v
    BY <1>1, <1>4
  <2>2. Ascending(pushed) /\ Ascending(popped)
    BY DEF Kept, Conserved
  <2>. QED  BY <1>1, <2>1, <2>2, AscendingSequences
<1>7. ToSet(popped) = (ToSet(pushed) \cup {v}) \ (wiped \cup (ToSet(q) \cup {v}))
  <2>1. ToSet(popped) = ToSet(pushed) \ (wiped \cup ToSet(q))
    BY <1>3 DEF Kept, Conserved
  <2>2. v \notin ToSet(popped)
    BY <1>1, <1>4
  <2>. QED  BY <2>1, <2>2
<1>8. wiped \subseteq (ToSet(pushed) \cup {v}) \ (ToSet(q) \cup {v})
  BY <1>1, <1>3, <1>4 DEF Kept
<1>. QED  BY <1>2, <1>3, <1>4, <1>5, <1>6, <1>7, <1>8 DEF Kept, Conserved, v

(* What is popped is older than the queue, and later than what was popped. *)
LEMMA PopKeepsQueue ==
  ASSUME BoxInv, Kept, NEW answer, Pop(answer)
  PROVE  /\ Kept'
         /\ Head(box.items) \in ToSet(pushed) \ ToSet(popped)
         /\ ToSet(popped)' = ToSet(popped) \cup {Head(box.items)}
<1>. DEFINE q == box.items
            h == Head(q)
<1>1. /\ writes \in Nat /\ q \in Seq(1..writes) /\ q # <<>>
      /\ pushed \in Seq(1..writes) /\ popped \in Seq(1..writes)
      /\ Ascending(pushed) /\ Ascending(popped)
  BY DEF BoxInv, ValueInv, Kept, Conserved, Pop
<1>2. /\ Queued = q /\ Queued' = Tail(q)
      /\ popped' = Append(popped, h)
      /\ pushed' = pushed /\ wiped' = wiped /\ writes' = writes
  BY DEF Pop, Queued, ListOf, NoBox
<1>. HIDE DEF q, h
<1>3. /\ Len(q) <= Len(pushed) /\ Len(q) \in Nat /\ Len(q) >= 1 /\ Len(pushed) \in Nat
      /\ DOMAIN q = 1..Len(q) /\ DOMAIN pushed = 1..Len(pushed)
      /\ \A i \in 1..Len(q) : q[i] = pushed[Len(pushed) - Len(q) + i]
      /\ h = q[1] /\ h \in 1..writes
      /\ Tail(q) \in Seq(1..writes) /\ Len(Tail(q)) = Len(q) - 1
      /\ \A i \in 1..Len(q) - 1 : Tail(q)[i] = q[i + 1]
  <2>1. /\ Len(q) <= Len(pushed)
        /\ \A i \in 1..Len(q) : q[i] = pushed[Len(pushed) - Len(q) + i]
    <3>1. IsSuffix(q, pushed)
      BY <1>2 DEF Kept, Conserved
    <3>. QED  BY <1>1, <3>1, SuffixIs
  <2>2. /\ Len(q) \in Nat /\ Len(q) >= 1 /\ Len(pushed) \in Nat
        /\ DOMAIN q = 1..Len(q) /\ DOMAIN pushed = 1..Len(pushed)
    BY <1>1
  <2>3. /\ h = q[1] /\ h \in 1..writes
        /\ Tail(q) \in Seq(1..writes) /\ Len(Tail(q)) = Len(q) - 1
        /\ \A i \in 1..Len(q) - 1 : Tail(q)[i] = q[i + 1]
    BY <1>1 DEF h
  <2>. QED  BY <2>1, <2>2, <2>3
<1>4. IsSuffix(Tail(q), pushed)
  <2>1. ASSUME NEW i \in 1..Len(q) - 1
        PROVE  Tail(q)[i] = pushed[Len(pushed) - (Len(q) - 1) + i]
    <3>1. i + 1 \in 1..Len(q) /\ Len(pushed) - Len(q) + (i + 1) = Len(pushed) - (Len(q) - 1) + i
      BY <1>3
    <3>. QED  BY <1>3, <3>1
  <2>2. Len(Tail(q)) <= Len(pushed)
    BY <1>3
  <2>. QED  BY <1>1, <1>3, <2>1, <2>2, SuffixIs
<1>5. Ascending(q)
  <2>. SUFFICES ASSUME NEW i \in 1..Len(q), NEW j \in 1..Len(q), i < j PROVE q[i] < q[j]
    BY <1>3 DEF Ascending
  <2>1. /\ Len(pushed) - Len(q) + i \in 1..Len(pushed) /\ Len(pushed) - Len(q) + j \in 1..Len(pushed)
        /\ Len(pushed) - Len(q) + i < Len(pushed) - Len(q) + j
    BY <1>3
  <2>. QED  BY <1>1, <1>3, <2>1 DEF Ascending
<1>6. /\ h \in ToSet(q) /\ ToSet(Tail(q)) = ToSet(q) \ {h} /\ ToSet(q) \subseteq ToSet(pushed)
  <2>1. h \in ToSet(q) /\ ToSet(Tail(q)) = ToSet(q) \ {h}
    BY <1>1, <1>5, AscendingSequences DEF h
  <2>2. ASSUME NEW i \in 1..Len(q) PROVE q[i] \in ToSet(pushed)
    <3>1. Len(pushed) - Len(q) + i \in 1..Len(pushed)
      BY <1>3
    <3>. QED  BY <1>3, <3>1 DEF ToSet
  <2>3. ToSet(q) = {q[i] : i \in 1..Len(q)}
    BY <1>3 DEF ToSet
  <2>. QED  BY <2>1, <2>2, <2>3
<1>7. ToSet(popped) = ToSet(pushed) \ (wiped \cup ToSet(q))
  BY <1>2 DEF Kept, Conserved
<1>8. \A x \in ToSet(popped) : x < h
  <2>. SUFFICES ASSUME NEW k \in 1..Len(pushed), pushed[k] \notin ToSet(q) PROVE pushed[k] < h
    <3>1. \A x \in ToSet(popped) : \E k \in 1..Len(pushed) : x = pushed[k] /\ pushed[k] \notin ToSet(q)
      <4>1. ToSet(pushed) = {pushed[k] : k \in 1..Len(pushed)}
        BY <1>3 DEF ToSet
      <4>. QED  BY <1>7, <4>1
    <3>. QED  BY <3>1
  <2>1. CASE k <= Len(pushed) - Len(q)
    <3>1. Len(pushed) - Len(q) + 1 \in 1..Len(pushed) /\ k < Len(pushed) - Len(q) + 1
      BY <1>3, <2>1
    <3>2. h = pushed[Len(pushed) - Len(q) + 1]
      BY <1>3
    <3>. QED  BY <1>1, <3>1, <3>2 DEF Ascending
  <2>2. CASE k > Len(pushed) - Len(q)
    <3>1. /\ k - (Len(pushed) - Len(q)) \in 1..Len(q)
          /\ Len(pushed) - Len(q) + (k - (Len(pushed) - Len(q))) = k
      BY <1>3, <2>2
    <3>2. q[k - (Len(pushed) - Len(q))] = pushed[k]
      BY <1>3, <3>1
    <3>3. pushed[k] \in ToSet(q)
      BY <1>1, <3>1, <3>2 DEF ToSet
    <3>. QED  BY <3>3
  <2>. QED  BY <1>3, <2>1, <2>2
<1>9. h \in Nat /\ Ascending(Append(popped, h)) /\ ToSet(Append(popped, h)) = ToSet(popped) \cup {h}
  BY <1>1, <1>3, <1>8, AscendingSequences, SequenceElements
<1>10. /\ h \notin wiped /\ h \notin ToSet(popped)
       /\ wiped \subseteq ToSet(pushed) \ (ToSet(q) \ {h})
  BY <1>2, <1>6, <1>7 DEF Kept
<1>11. Conserved'
  <2>1. ToSet(popped) \cup {h} = ToSet(pushed) \ (wiped \cup (ToSet(q) \ {h}))
    BY <1>6, <1>7, <1>10
  <2>. QED  BY <1>1, <1>2, <1>4, <1>6, <1>9, <2>1 DEF Conserved
<1>12. Append(popped, h) \in Seq(1..writes)
  BY <1>1, <1>3
<1>. QED  BY <1>2, <1>6, <1>9, <1>10, <1>11, <1>12 DEF Kept, q, h

(* What SET writes over is neither in the queue any more nor popped. *)
LEMMA SetKeepsQueue ==
  ASSUME BoxInv, Kept, NEW p \in Caller, SetBox(p), UNCHANGED writes
  PROVE  Kept'
<1>1. /\ pushed \in Seq(1..writes) /\ pushed' = pushed /\ popped' = popped
      /\ wiped' = wiped \cup ToSet(Queued) /\ Queued' = <<>>
  <2>1. ToSet(<<>>) = {}
    BY DEF ToSet
  <2>. QED  BY <2>1 DEF BoxInv, ValueInv, SetBox, Queued, StringOf
<1>2. ToSet(Queued) \subseteq ToSet(pushed)
  <2>1. Queued \in Seq(1..writes)
    <3>1. box.items \in Seq(1..writes) /\ <<>> \in Seq(1..writes)
      BY DEF BoxInv, ValueInv
    <3>. QED  BY <3>1 DEF Queued
  <2>4. pushed \in Seq(1..writes) /\ Len(Queued) \in Nat /\ Len(pushed) \in Nat
    BY <1>1, <2>1
  <2>2. /\ Len(Queued) <= Len(pushed) /\ Len(Queued) \in Nat /\ Len(pushed) \in Nat
        /\ \A i \in 1..Len(Queued) : Queued[i] = pushed[Len(pushed) - Len(Queued) + i]
    BY <2>1, <2>4, SuffixIs DEF Kept, Conserved
  <2>3. \A i \in 1..Len(Queued) : Len(pushed) - Len(Queued) + i \in 1..Len(pushed)
    BY <2>2
  <2>. QED  BY <1>1, <2>1, <2>2, <2>3 DEF ToSet
<1>3. ToSet(<<>>) = {}
  BY DEF ToSet
<1>4. IsSuffix(<<>>, pushed)
  <2>1. <<>> \in Seq(1..writes) /\ Len(<<>>) = 0 /\ Len(pushed) \in Nat
    BY <1>1
  <2>2. IsSuffix(<<>>, pushed) <=>
          /\ Len(<<>>) <= Len(pushed)
          /\ \A i \in 1..Len(<<>>) : <<>>[i] = pushed[Len(pushed) - Len(<<>>) + i]
    BY <1>1, <2>1, SuffixIs, Zenon
  <2>. QED  BY <2>1, <2>2
<1>. QED  BY <1>1, <1>2, <1>3, <1>4 DEF Kept, Conserved

-----------------------------------------------------------------------------
(* What is told.                                                           *)

(* The values of a sequence are no later than the last put begun. *)
LEMMA KnownValues ==
  ASSUME BoxInv, Kept, Telling
  PROVE  /\ ToSet(pushed) \subseteq 1..writes /\ stored \subseteq 1..writes
         /\ writes \in Nat /\ 1..writes \subseteq 1..(writes + 1)
         /\ writes + 1 \in 1..(writes + 1) /\ writes + 1 \notin 1..writes
         /\ \A t \in told : t[2] \in 1..writes
         /\ ToSet(popped) \subseteq ToSet(pushed)
<1>1. pushed \in Seq(1..writes) /\ writes \in Nat
  BY DEF BoxInv, ValueInv
<1>2. ToSet(pushed) \subseteq 1..writes
  BY <1>1, SequenceElements
<1>3. told \subseteq Operations \X (1..writes) \X Answers /\ stored \subseteq 1..writes
  BY DEF Telling
<1>4. ToSet(popped) \subseteq ToSet(pushed)
  BY DEF Kept, Conserved
<1>. QED  BY <1>1, <1>2, <1>3, <1>4

(* A call that tells nothing and moves no value, but may begin a SET. *)
LEMMA SilentStep ==
  ASSUME BoxInv, Kept, Telling, UNCHANGED <<box, pushed, popped, stored, told>>,
         drops' \in {drops, drops + 1}, NEW p \in Caller,
         \/ writes' = writes /\ call' = call
         \/ writes' = writes /\ call' = [call EXCEPT ![p] = Idle]
         \/ writes' = writes /\ call' = [call EXCEPT ![p] = [Idle EXCEPT !.step = "diagnose"]]
         \/ /\ writes' = writes + 1
            /\ call' = [call EXCEPT ![p] = [step |-> "set", value |-> writes', seen |-> ToSet(pushed)]]
  PROVE  Telling'
<1>1. DOMAIN call = Caller /\ writes' \in {writes, writes + 1}
  BY DEF BoxInv, ValueInv
<1>2. told' \subseteq Operations \X (1..writes') \X Answers /\ stored' \subseteq 1..writes'
  BY <1>1, KnownValues DEF Telling
<1>3. Underway'
  <2>. SUFFICES ASSUME NEW q \in Caller, call'[q].step = "set"
                PROVE  /\ call'[q].value \notin ToSet(pushed) \cup stored
                       /\ \A t \in told : t[2] # call'[q].value
                       /\ \A r \in Caller : call'[r].step = "set" /\ call'[r].value = call'[q].value => r = q
    BY DEF Underway
  <2>1. CASE call'[q] = call[q] /\ \A r \in Caller : call'[r].step = "set" => call'[r] = call[r]
    BY <2>1 DEF Telling, Underway
  <2>2. CASE /\ writes' = writes + 1
             /\ call' = [call EXCEPT ![p] = [step |-> "set", value |-> writes', seen |-> ToSet(pushed)]]
    <3>1. \A r \in Caller : r # p => call'[r] = call[r]
      BY <1>1, <2>2
    <3>2. call'[p].value = writes + 1
      BY <1>1, <2>2
    <3>3. \A r \in Caller : call[r].step = "set" => call[r].value # writes + 1
      BY KnownValues DEF BoxInv, ValueInv
    <3>4. CASE q = p
      BY <3>1, <3>2, <3>3, <3>4, KnownValues
    <3>5. CASE q # p
      BY <3>1, <3>2, <3>3, <3>5 DEF Telling, Underway
    <3>. QED  BY <3>4, <3>5
  <2>3. CASE call' \in {call, [call EXCEPT ![p] = Idle], [call EXCEPT ![p] = [Idle EXCEPT !.step = "diagnose"]]}
    <3>1. \A r \in Caller : call'[r].step = "set" => call'[r] = call[r]
      BY <1>1, <2>3 DEF Idle
    <3>. QED  BY <2>1, <3>1
  <2>. QED  BY <2>2, <2>3
<1>. QED  BY <1>2, <1>3 DEF Telling, Dequeued

(* A put is refused, or fails before the server has done anything. *)
LEMMA PutAway ==
  ASSUME BoxInv, Kept, Telling, UNCHANGED <<box, pushed, popped, stored>>,
         drops' \in {drops, drops + 1}, NEW p \in Caller,
         NEW op \in {"put", "enqueue"}, NEW answer \in {"failed", "full", "refused"}, NEW v,
         told' = told \cup {<<op, v, answer>>},
         \/ /\ v = writes + 1 /\ writes' = writes + 1
            /\ call' = call \/ call' = [call EXCEPT ![p] = [Idle EXCEPT !.step = "diagnose"]]
         \/ /\ call[p].step = "set" /\ v = call[p].value /\ answer = "failed" /\ writes' = writes
            /\ call' = [call EXCEPT ![p] = Idle]
  PROVE  Telling'
<1>1. /\ DOMAIN call = Caller /\ writes' \in {writes, writes + 1}
      /\ writes \in Nat /\ writes' \in Nat
      /\ \A q \in Caller : call[q].step = "set" => call[q].value \in 1..writes
  BY DEF BoxInv, ValueInv
<1>2. v \in 1..writes' /\ 1..writes \subseteq 1..writes'
  BY <1>1
<1>3. told' \subseteq Operations \X (1..writes') \X Answers /\ stored' \subseteq 1..writes'
  <2>1. op \in Operations /\ answer \in Answers
    BY DEF Operations, Answers
  <2>. QED  BY <1>2, <2>1 DEF Telling
<1>4. \A q \in Caller : call'[q].step = "set" => call'[q] = call[q] /\ call[q].value # v
  <2>. TAKE q \in Caller
  <2>1. call'[q].step = "set" => call'[q] = call[q]
    BY <1>1 DEF Idle
  <2>2. CASE v = writes + 1
    BY <1>1, <2>1, <2>2
  <2>3. CASE call[p].step = "set" /\ v = call[p].value /\ call' = [call EXCEPT ![p] = Idle]
    <3>1. call'[q].step = "set" => q # p
      BY <1>1, <2>3 DEF Idle
    <3>2. call[q].step = "set" /\ q # p => call[q].value # v
      BY <2>3 DEF Telling, Underway
    <3>. QED  BY <2>1, <3>1, <3>2
  <2>. QED  BY <2>2, <2>3
<1>5. Underway'
  BY <1>4 DEF Telling, Underway
<1>6. answer \in {"full", "refused"} => v \notin ToSet(pushed) \cup stored
  BY KnownValues
<1>7. Dequeued' = Dequeued
  BY DEF Dequeued
<1>8. drops' = 0 => drops = 0
  BY DEF Telling
<1>. QED  BY <1>3, <1>5, <1>6, <1>7, <1>8 DEF Telling

(* What is got was put. *)
LEMMA GetTells ==
  ASSUME BoxInv, Kept, Telling, UNCHANGED <<box, call, writes, drops, pushed, popped, stored>>,
         box.type = "string", Tell("get", Head(box.items), "ok")
  PROVE  Telling'
<1>. DEFINE h == Head(box.items)
<1>1. h \in stored /\ h \in 1..writes
  BY DEF Telling
<1>2. told' = told \cup {<<"get", h, "ok">>}
  BY DEF Tell
<1>. HIDE DEF h
<1>3. told' \subseteq Operations \X (1..writes') \X Answers
  BY <1>1, <1>2 DEF Telling, Operations, Answers
<1>4. Underway'
  BY <1>1, <1>2 DEF Telling, Underway
<1>5. Dequeued' = Dequeued
  BY <1>2 DEF Dequeued
<1>. QED  BY <1>1, <1>2, <1>3, <1>4, <1>5 DEF Telling

(* SET executed, whether its answer arrives or not. *)
LEMMA SetTells ==
  ASSUME BoxInv, Kept, Telling, NEW p \in Caller, call[p].step = "set", SetBox(p), Return(p),
         UNCHANGED writes, drops' \in {drops, drops + 1},
         NEW answer \in {"ok", "failed"}, Tell("put", call[p].value, answer)
  PROVE  Telling'
<1>. DEFINE v == call[p].value
<1>1. /\ DOMAIN call = Caller /\ v \in 1..writes
      /\ told' = told \cup {<<"put", v, answer>>}
      /\ stored' = stored \cup {v} /\ pushed' = pushed /\ popped' = popped
      /\ box' = StringOf(v) /\ call' = [call EXCEPT ![p] = Idle]
      /\ v \notin ToSet(pushed) /\ \A t \in told : t[2] # v
  BY DEF BoxInv, ValueInv, Tell, SetBox, Return, Telling, Underway
<1>2. \A q \in Caller : call'[q].step = "set" => call'[q] = call[q] /\ call[q].value # v
  BY <1>1 DEF Telling, Underway, Idle
<1>. HIDE DEF v
<1>3. told' \subseteq Operations \X (1..writes') \X Answers /\ stored' \subseteq 1..writes'
  <2>1. "put" \in Operations /\ answer \in Answers
    BY DEF Operations, Answers
  <2>. QED  BY <1>1, <2>1 DEF Telling
<1>4. Underway'
  BY <1>1, <1>2 DEF Telling, Underway
<1>5. Dequeued' = Dequeued
  BY <1>1 DEF Dequeued
<1>6. box'.items # <<>> /\ Head(box'.items) \in stored'
  BY <1>1 DEF StringOf
<1>7. drops' = 0 => drops = 0
  BY DEF Telling
<1>8. \A t \in told' :
        /\ t[1] = "enqueue" /\ t[3] = "ok" => t[2] \in ToSet(pushed)
        /\ t[1] = "put" /\ t[3] = "ok" => t[2] \in stored'
        /\ t[3] \in {"full", "refused"} => t[2] \notin ToSet(pushed) \cup stored'
        /\ t[1] = "get" => t[2] \in stored'
        /\ t[1] = "dequeue" => t[2] \in ToSet(popped)
  BY <1>1 DEF Telling
<1>. QED  BY <1>1, <1>3, <1>4, <1>5, <1>6, <1>7, <1>8 DEF Telling

(* The script executed, whether its answer arrives or not. *)
LEMMA PushTells ==
  ASSUME BoxInv, Kept, Telling, Push(writes'), writes' = writes + 1, UNCHANGED call,
         drops' \in {drops, drops + 1},
         NEW answer \in {"ok", "failed"}, Tell("enqueue", writes', answer)
  PROVE  Telling'
<1>. DEFINE v == writes'
<1>1. /\ v = writes + 1 /\ told' = told \cup {<<"enqueue", v, answer>>}
      /\ pushed' = Append(pushed, v) /\ stored' = stored /\ popped' = popped
      /\ pushed \in Seq(1..writes)
      /\ \A q \in Caller : call[q].step = "set" => call[q].value \in 1..writes
  BY DEF BoxInv, ValueInv, Push, Tell
<1>2. ToSet(pushed') = ToSet(pushed) \cup {v}
  BY <1>1, SequenceElements
<1>3. /\ v \in 1..writes' /\ v \notin 1..writes /\ 1..writes \subseteq 1..writes'
  BY <1>1, KnownValues
<1>4. box'.type # "string"
  BY DEF Push, ListOf, NoBox
<1>. HIDE DEF v
<1>5. told' \subseteq Operations \X (1..writes') \X Answers /\ stored' \subseteq 1..writes'
  BY <1>1, <1>3 DEF Telling, Operations, Answers
<1>6. Underway'
  BY <1>1, <1>2, <1>3 DEF Telling, Underway
<1>7. Dequeued' = Dequeued
  BY <1>1 DEF Dequeued
<1>8. drops' = 0 => drops = 0
  BY DEF Telling
<1>9. \A t \in told' :
        /\ t[1] = "enqueue" /\ t[3] = "ok" => t[2] \in ToSet(pushed')
        /\ t[1] = "put" /\ t[3] = "ok" => t[2] \in stored
        /\ t[3] \in {"full", "refused"} => t[2] \notin ToSet(pushed') \cup stored
        /\ t[1] = "get" => t[2] \in stored
        /\ t[1] = "dequeue" => t[2] \in ToSet(popped)
  <2>1. \A t \in told : t[2] # v
    BY <1>3, KnownValues
  <2>. QED  BY <1>1, <1>2, <2>1 DEF Telling
<1>. QED  BY <1>1, <1>4, <1>5, <1>6, <1>7, <1>8, <1>9 DEF Telling

(* LPOP executed: an answer that is lost is told as failed. *)
LEMMA PopTells ==
  ASSUME BoxInv, Kept, Telling, NEW answer \in {"ok", "failed"}, Pop(answer),
         drops' \in {drops, drops + 1}, answer = "failed" => drops' = drops + 1
  PROVE  Telling'
<1>. DEFINE h == Head(box.items)
<1>1. /\ told' = told \cup {<<"dequeue", h, answer>>}
      /\ pushed' = pushed /\ stored' = stored /\ call' = call /\ writes' = writes
  BY DEF Pop, Tell
<1>2. h \in ToSet(pushed) \ ToSet(popped) /\ ToSet(popped') = ToSet(popped) \cup {h}
  BY PopKeepsQueue
<1>3. h \in 1..writes
  BY <1>2, KnownValues
<1>4. box'.type # "string"
  BY DEF Pop, ListOf, NoBox
<1>. HIDE DEF h
<1>5. told' \subseteq Operations \X (1..writes') \X Answers
  BY <1>1, <1>3 DEF Telling, Operations, Answers
<1>6. Underway'
  BY <1>1, <1>2 DEF Telling, Underway
<1>7. /\ Dequeued' = Dequeued \cup {<<"dequeue", h, answer>>}
      /\ \A t \in Dequeued : t[2] \in ToSet(popped)
  BY <1>1 DEF Dequeued, Telling
<1>8. /\ \A t, u \in Dequeued' : t[2] = u[2] => t = u
      /\ \A v \in ToSet(popped') : \E t \in Dequeued' : t[2] = v
  <2>. DEFINE e == <<"dequeue", h, answer>>
  <2>1. e[2] = h /\ e \in Dequeued' /\ \A t \in Dequeued : t[2] # h
    BY <1>2, <1>7
  <2>2. /\ \A t, u \in Dequeued : t[2] = u[2] => t = u
        /\ \A v \in ToSet(popped) : \E t \in Dequeued : t[2] = v
    BY DEF Telling
  <2>. HIDE DEF e
  <2>3. Dequeued' = Dequeued \cup {e}
    BY <1>7 DEF e
  <2>. QED  BY <1>2, <2>1, <2>2, <2>3
<1>9. \A t \in told' :
        /\ t[1] = "enqueue" /\ t[3] = "ok" => t[2] \in ToSet(pushed)
        /\ t[1] = "put" /\ t[3] = "ok" => t[2] \in stored
        /\ t[3] \in {"full", "refused"} => t[2] \notin ToSet(pushed) \cup stored
        /\ t[1] = "get" => t[2] \in stored
        /\ t[1] = "dequeue" => t[2] \in ToSet(popped')
  BY <1>1, <1>2 DEF Telling
<1>10. drops' \in Nat /\ (drops' = 0 => ~\E t \in told' : t[1] = "dequeue" /\ t[3] = "failed")
  BY <1>1 DEF Telling
<1>. QED  BY <1>1, <1>3, <1>4, <1>5, <1>6, <1>8, <1>9, <1>10 DEF Telling

(* Every command of every caller leaves the queue and what is told honest. *)
LEMMA HonestStep == HonestInv /\ [Next]_vars => HonestInv'
<1>. SUFFICES ASSUME HonestInv, [Next]_vars PROVE Kept' /\ Telling'
  BY BoxStep DEF HonestInv
<1>. USE DEF HonestInv
<1>1. ASSUME UNCHANGED <<box, pushed, popped, wiped>>, writes' \in {writes, writes + 1}
      PROVE  Kept'
  <2>1. Seq(1..writes) \subseteq Seq(1..writes')
    <3>1. writes \in Nat /\ writes' \in {writes, writes + 1}
      BY <1>1 DEF BoxInv, ValueInv
    <3>. HIDE DEF HonestInv
    <3>. QED  BY <3>1
  <2>. QED  BY <1>1, <2>1 DEF Kept, Conserved, Queued
<1>2. ASSUME NEW p \in Caller, Call(p) PROVE Kept' /\ Telling'
  <2>. USE DEF Begins
  <2>1. CASE Oversize(p)
    BY <1>1, <2>1, PutAway DEF Oversize, Tell
  <2>2. CASE TypeProbe(p)
    <3>. USE DEF Answered, Failed, Refused, Lost
    <3>0. /\ writes' = writes + 1 /\ UNCHANGED <<box, pushed, popped, stored, wiped>>
          /\ drops' \in {drops, drops + 1}
      BY <2>2 DEF TypeProbe
    <3>1. Kept'
      BY <1>1, <3>0
    <3>2. CASE /\ call' = [call EXCEPT ![p] = [step |-> "set", value |-> writes', seen |-> ToSet(pushed)]]
               /\ UNCHANGED <<told, drops>>
      BY <3>0, <3>1, <3>2, SilentStep
    <3>3. CASE Tell("put", writes', "refused") /\ UNCHANGED <<call, drops>>
      BY <3>0, <3>1, <3>3, PutAway DEF Tell
    <3>4. CASE Tell("put", writes', "failed") /\ UNCHANGED call /\ drops' \in {drops, drops + 1}
      BY <3>0, <3>1, <3>4, PutAway DEF Tell
    <3>. QED  BY <2>2, <3>1, <3>2, <3>3, <3>4 DEF TypeProbe
  <2>3. CASE Set(p)
    <3>. USE DEF Answered, Failed, Refused, Lost
    <3>1. CASE SetBox(p) /\ Tell("put", call[p].value, "ok") /\ UNCHANGED drops
      BY <2>3, <3>1, SetKeepsQueue, SetTells DEF Set
    <3>2. CASE SetBox(p) /\ Tell("put", call[p].value, "failed") /\ drops' = drops + 1
      BY <2>3, <3>2, SetKeepsQueue, SetTells DEF Set
    <3>3. CASE /\ Tell("put", call[p].value, "failed") /\ drops' \in {drops, drops + 1}
               /\ UNCHANGED <<box, pushed, popped, stored, wiped>>
      BY <1>1, <2>3, <3>3, PutAway DEF Set, Return, Tell
    <3>. QED  BY <2>3, <3>1, <3>2, <3>3 DEF Set
  <2>4. CASE Enqueue(p)
    <3>. USE DEF Answered, Failed, Refused, Lost
    <3>1. CASE Push(writes') /\ Tell("enqueue", writes', "ok") /\ UNCHANGED <<call, drops>>
      BY <2>4, <3>1, PushKeepsQueue, PushTells DEF Enqueue
    <3>2. CASE Push(writes') /\ Tell("enqueue", writes', "failed") /\ UNCHANGED call /\ drops' = drops + 1
      BY <2>4, <3>2, PushKeepsQueue, PushTells DEF Enqueue
    <3>3. CASE /\ \E answer \in {"failed", "full", "refused"} : Tell("enqueue", writes', answer)
               /\ call' = call \/ call' = [call EXCEPT ![p] = [Idle EXCEPT !.step = "diagnose"]]
               /\ drops' \in {drops, drops + 1}
               /\ UNCHANGED <<box, pushed, popped, stored, wiped>>
      BY <1>1, <2>4, <3>3, PutAway DEF Enqueue, Tell
    <3>. QED  BY <2>4, <3>1, <3>2, <3>3 DEF Enqueue
  <2>5. CASE Dequeue(p)
    <3>. USE DEF Answered, Lost
    <3>1. CASE Pop("ok") /\ UNCHANGED drops
      BY <3>1, PopKeepsQueue, PopTells
    <3>2. CASE Pop("failed") /\ drops' = drops + 1
      BY <3>2, PopKeepsQueue, PopTells
    <3>3. CASE WrongType(p) /\ UNCHANGED drops
      BY <1>1, <3>3, SilentStep DEF WrongType
    <3>. QED  BY <2>5, <3>1, <3>2, <3>3 DEF Dequeue
  <2>6. CASE Get(p)
    <3>. USE DEF Answered
    <3>1. CASE /\ box.type = "string" /\ Tell("get", Head(box.items), "ok")
               /\ UNCHANGED <<drops, writes, call, box, pushed, popped, stored, wiped>>
      BY <1>1, <3>1, GetTells
    <3>2. CASE WrongType(p) /\ UNCHANGED drops
      BY <1>1, <3>2, SilentStep DEF WrongType
    <3>. QED  BY <2>6, <3>1, <3>2 DEF Get
  <2>7. CASE Diagnose(p)
    BY <1>1, <2>7, SilentStep DEF Diagnose, Return, Answered, Failed, Refused, Lost
  <2>. QED  BY <1>2, <2>1, <2>2, <2>3, <2>4, <2>5, <2>6, <2>7 DEF Call
<1>3. CASE UNCHANGED boxVars
  BY <1>3 DEF boxVars, Kept, Conserved, Queued, Telling, Underway, Dequeued
<1>. QED  BY <1>2, <1>3 DEF Next, Connection, vars

(* What is asked of the queue and of the answers, and no more. *)
LEMMA HonestMeans == HonestInv => QueueHonest
<1>. SUFFICES ASSUME HonestInv PROVE AnswersTrue
  BY DEF HonestInv, BoxInv, Kept, QueueHonest
<1>1. \A t \in told :
       /\ t[1] = "enqueue" /\ t[3] = "ok" => t[2] \in ToSet(pushed)
       /\ t[1] = "put" /\ t[3] = "ok" => t[2] \in stored
       /\ t[3] \in {"full", "refused"} => t[2] \notin ToSet(pushed) \cup stored
       /\ t[1] = "get" => t[2] \in stored
       /\ t[1] = "dequeue" => t[2] \in ToSet(pushed)
  BY KnownValues DEF HonestInv, Telling
<1>2. ASSUME NEW v \in ToSet(popped)
      PROVE  Cardinality({t \in told : t[1] = "dequeue" /\ t[2] = v}) = 1
  <2>1. PICK t \in Dequeued : t[2] = v
    BY DEF HonestInv, Telling
  <2>2. {u \in told : u[1] = "dequeue" /\ u[2] = v} = {t}
    BY <2>1 DEF HonestInv, Telling, Dequeued
  <2>. QED  BY <2>2, FS_Singleton
<1>. QED  BY <1>1, <1>2 DEF HonestInv, Telling, AnswersTrue

(* A Redis queue holds what was appended and not yet removed or written    *)
(* over, in order, each value in one place; a caller was told the truth of *)
(* its value, whatever commands fail, and whenever.                        *)
THEOREM QueuesAreHonest == Spec => []QueueHonest
BY HonestInit, HonestStep, HonestMeans, PTL DEF Spec
=============================================================================
