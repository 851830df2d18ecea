----------------------------- MODULE RedisStore -----------------------------
(***************************************************************************)
(* BoxStoreRedis: boxes of the strategies redis-kv and redis-fifo, which   *)
(* live under the same physical key of a server.  A command is atomic on   *)
(* the server; between two commands of one call the others run.  A command *)
(* in flight when the socket drops is reported failed, executed or not.    *)
(* Values are numbered in the order of the calls that write them, so that  *)
(* no two are equal.                                                       *)
(***************************************************************************)
EXTENDS RedisClients, SequencesExt

CONSTANTS
  QueueSizeMax,   \* queueSizeMax declared for the key
  MaxWrites,      \* bound on the puts
  MaxDrops        \* bound on the sockets that drop

ASSUME QueueSizeMaxAssumption == QueueSizeMax \in Nat \ {0}

ASSUME BoundsAssumption == MaxWrites \in Nat /\ MaxDrops \in Nat

VARIABLES
  box,       \* what the server holds under the key: type and items
  call,      \* the call of a caller, between its commands
  writes,    \* the puts begun
  drops,     \* the sockets dropped
  pushed,    \* history: the values the script appended, in order
  popped,    \* history: the values LPOP removed, in order
  stored,    \* history: the values SET wrote
  wiped,     \* history: the queued values a SET wrote over
  told       \* history: the answers, <<operation, value, answer>>

boxVars == <<box, call, writes, drops, pushed, popped, stored, wiped, told>>
vars == <<clientVars, boxVars>>

(* No key: Redis keeps no empty list. *)
NoBox == [type |-> "none", items |-> <<>>]

ListOf(s) == IF s = <<>> THEN NoBox ELSE [type |-> "list", items |-> s]

StringOf(v) == [type |-> "string", items |-> <<v>>]

Idle == [step |-> "idle", value |-> 0, seen |-> {}]

Box ==
  {b \in [type : {"none", "string", "list"}, items : Seq(1..MaxWrites)] :
     /\ b.type = "none" <=> b.items = <<>>
     /\ b.type = "string" => Len(b.items) = 1}

TypeOK ==
  /\ ClientsTypeOK
  /\ box \in Box
  /\ call \in [Caller -> [step : {"idle", "set", "diagnose"},
                          value : 0..MaxWrites, seen : SUBSET (1..MaxWrites)]]
  /\ writes \in 0..MaxWrites
  /\ drops \in 0..MaxDrops
  /\ pushed \in Seq(1..MaxWrites) /\ popped \in Seq(1..MaxWrites)
  /\ stored \subseteq 1..MaxWrites /\ wiped \subseteq 1..MaxWrites

Init ==
  /\ InitClients
  /\ box = NoBox
  /\ call = [p \in Caller |-> Idle]
  /\ writes = 0
  /\ drops = 0
  /\ pushed = <<>> /\ popped = <<>>
  /\ stored = {} /\ wiped = {}
  /\ told = {}

-----------------------------------------------------------------------------
(* The life of a command.                                                  *)

Sends(p) == store[p] # None /\ client[store[p]] = "ready"

(* The server has answered, and the answer has arrived. *)
Answered(p) == Sends(p) /\ UNCHANGED <<clientVars, drops>>

(* The socket drops under the command. *)
Lost(p) ==
  /\ Sends(p) /\ drops < MaxDrops
  /\ Drop(store[p])
  /\ drops' = drops + 1
  /\ UNCHANGED <<cached, retries, opener, awaiting, store, closing, early>>

(* A client that was told to quit, or gave up, sends nothing. *)
Refused(p) ==
  /\ store[p] # None /\ client[store[p]] \in {"closed", "gone"}
  /\ UNCHANGED <<clientVars, drops>>

(* The command failed, and the server has not executed it. *)
Failed(p) == Refused(p) \/ Lost(p)

Tell(op, v, answer) == told' = told \cup {<<op, v, answer>>}

(* The call of p is over. *)
Return(p) == call' = [call EXCEPT ![p] = Idle]

-----------------------------------------------------------------------------
(* put under redis-kv: TYPE, then SET.                                     *)

(* A put is a value of its own, whatever becomes of it. *)
Begins(p) ==
  /\ call[p].step = "idle" /\ store[p] # None
  /\ writes < MaxWrites
  /\ writes' = writes + 1

(* Above valueSizeMax, or not to be packed: the network is not used. *)
Oversize(p) ==
  /\ Begins(p)
  /\ Tell("put", writes', "refused")
  /\ UNCHANGED <<clientVars, drops, call, box, pushed, popped, stored, wiped>>

(* A put that trusts SET to refuse a key of another type. *)
TypeUnprobed(p) ==
  /\ Begins(p)
  /\ call' = [call EXCEPT ![p] = [step |-> "set", value |-> writes', seen |-> ToSet(pushed)]]
  /\ UNCHANGED <<clientVars, drops, told, box, pushed, popped, stored, wiped>>

TypeProbe(p) ==
  /\ Begins(p)
  /\ \/ /\ Answered(p) /\ box.type # "list"
        /\ call' = [call EXCEPT ![p] = [step |-> "set", value |-> writes', seen |-> ToSet(pushed)]]
        /\ UNCHANGED told
     \/ /\ Answered(p) /\ box.type = "list"
        /\ Tell("put", writes', "refused")
        /\ UNCHANGED call
     \/ /\ Failed(p)
        /\ Tell("put", writes', "failed")
        /\ UNCHANGED call
  /\ UNCHANGED <<box, pushed, popped, stored, wiped>>

(* SET writes over a key of any type. *)
SetBox(p) ==
  /\ box' = StringOf(call[p].value)
  /\ stored' = stored \cup {call[p].value}
  /\ wiped' = wiped \cup (IF box.type = "list" THEN ToSet(box.items) ELSE {})
  /\ UNCHANGED <<pushed, popped>>

Set(p) ==
  /\ call[p].step = "set"
  /\ \/ Answered(p) /\ SetBox(p) /\ Tell("put", call[p].value, "ok")
     \/ Lost(p) /\ SetBox(p) /\ Tell("put", call[p].value, "failed")
     \/ /\ Failed(p)
        /\ Tell("put", call[p].value, "failed")
        /\ UNCHANGED <<box, pushed, popped, stored, wiped>>
  /\ Return(p)
  /\ UNCHANGED writes

-----------------------------------------------------------------------------
(* put under redis-fifo: one script, LLEN and RPUSH in one step.           *)

(* Off by one: a queue that is full takes another element. *)
FullLate == Len(box.items) > QueueSizeMax

Full == Len(box.items) >= QueueSizeMax

Push(v) ==
  /\ box.type # "string" /\ ~Full
  /\ box' = ListOf(Append(box.items, v))
  /\ pushed' = Append(pushed, v)
  /\ UNCHANGED <<popped, stored, wiped>>

Enqueue(p) ==
  /\ Begins(p)
  /\ \/ /\ Answered(p) /\ Push(writes')
        /\ Tell("enqueue", writes', "ok")
        /\ UNCHANGED call
     \/ /\ Lost(p) /\ Push(writes')
        /\ Tell("enqueue", writes', "failed")
        /\ UNCHANGED call
     \/ /\ Answered(p) /\ box.type # "string" /\ Full
        /\ Tell("enqueue", writes', "full")
        /\ UNCHANGED <<call, box, pushed, popped, stored, wiped>>
     \/ /\ Answered(p) /\ box.type = "string"
        /\ Tell("enqueue", writes', "refused")
        /\ call' = [call EXCEPT ![p] = [Idle EXCEPT !.step = "diagnose"]]
        /\ UNCHANGED <<box, pushed, popped, stored, wiped>>
     \/ /\ Failed(p)
        /\ Tell("enqueue", writes', "failed")
        /\ UNCHANGED <<call, box, pushed, popped, stored, wiped>>

-----------------------------------------------------------------------------
(* get.                                                                    *)

(* WRONGTYPE: the type is asked for, and the call fails whatever it is. *)
WrongType(p) ==
  /\ call' = [call EXCEPT ![p] = [Idle EXCEPT !.step = "diagnose"]]
  /\ UNCHANGED <<writes, box, pushed, popped, stored, wiped, told>>

(* describeRedisCommandFailure: its own failure is no other answer. *)
Diagnose(p) ==
  /\ call[p].step = "diagnose"
  /\ Answered(p) \/ Failed(p)
  /\ Return(p)
  /\ UNCHANGED <<writes, box, pushed, popped, stored, wiped, told>>

(* LPOP: an element removed for an answer that is lost is lost with it. *)
Pop(answer) ==
  /\ box.type = "list"
  /\ box' = ListOf(Tail(box.items))
  /\ popped' = Append(popped, Head(box.items))
  /\ Tell("dequeue", Head(box.items), answer)
  /\ UNCHANGED <<writes, call, pushed, stored, wiped>>

(* On no key it answers that the queue is empty, and changes nothing. *)
Dequeue(p) ==
  /\ call[p].step = "idle"
  /\ \/ Answered(p) /\ Pop("ok")
     \/ Lost(p) /\ Pop("failed")
     \/ Answered(p) /\ box.type = "string" /\ WrongType(p)

Get(p) ==
  /\ call[p].step = "idle"
  /\ \/ /\ Answered(p) /\ box.type = "string"
        /\ Tell("get", Head(box.items), "ok")
        /\ UNCHANGED <<writes, call, box, pushed, popped, stored, wiped>>
     \/ Answered(p) /\ box.type = "list" /\ WrongType(p)

-----------------------------------------------------------------------------

Call(p) ==
  \/ Oversize(p) \/ TypeProbe(p) \/ Set(p) \/ Enqueue(p)
  \/ Dequeue(p) \/ Get(p) \/ Diagnose(p)

Connection ==
  /\ \/ \E p \in Caller : Share(p) \/ OpenRedisClient(p) \/ Create(p)
     \/ \E c \in Client :
          Connected(c) \/ AttemptFails(c) \/ ConnectFails(c) \/ GiveUp(c) \/ Quit(c)
     \/ Close
  /\ UNCHANGED boxVars

Next == (\E p \in Caller : Call(p)) \/ Connection

(* Timers fire and promises that settled are taken up.  Nothing makes a    *)
(* caller call, a server answer or a connection close.                     *)
Fairness ==
  /\ \A p \in Caller : WF_vars(Create(p) /\ UNCHANGED boxVars)
  /\ \A c \in Client : WF_vars((Connected(c) \/ AttemptFails(c) \/ ConnectFails(c)) /\ UNCHANGED boxVars)

Spec == Init /\ [][Next]_vars /\ Fairness

-----------------------------------------------------------------------------

(* The queued values, if the key holds a queue. *)
Queued == IF box.type = "list" THEN box.items ELSE <<>>

(* Never more than queueSizeMax elements, whoever writes at the same time. *)
NeverOverflows == Len(Queued) <= QueueSizeMax

Ascending(s) == \A i, j \in DOMAIN s : i < j => s[i] < s[j]

(* In order, and each value in one place: what was appended was removed in *)
(* that order, or written over, or is still there.                         *)
Conserved ==
  /\ IsSuffix(Queued, pushed)
  /\ Ascending(pushed) /\ Ascending(popped)
  /\ ToSet(popped) = ToSet(pushed) \ (wiped \cup ToSet(Queued))

(* What a caller was told of a put is what became of the value; a value is *)
(* given to one caller, and only a lost answer takes a value with it.      *)
AnswersTrue ==
  /\ \A t \in told :
       /\ t[1] = "enqueue" /\ t[3] = "ok" => t[2] \in ToSet(pushed)
       /\ t[1] = "put" /\ t[3] = "ok" => t[2] \in stored
       /\ t[3] \in {"full", "refused"} => t[2] \notin ToSet(pushed) \cup stored
       /\ t[1] = "get" => t[2] \in stored
       /\ t[1] = "dequeue" => t[2] \in ToSet(pushed)
  /\ \A v \in ToSet(popped) :
       Cardinality({t \in told : t[1] = "dequeue" /\ t[2] = v}) = 1
  /\ drops = 0 => ~\E t \in told : t[1] = "dequeue" /\ t[3] = "failed"

(* A put under redis-kv destroys no queue it could have seen: what its SET *)
(* writes over was appended after its TYPE probe.                          *)
ProbeGuards ==
  \A p \in Caller :
    call[p].step = "set" => ToSet(Queued) \cap call[p].seen = {}

QueueHonest == NeverOverflows /\ Conserved /\ AnswersTrue /\ ProbeGuards
=============================================================================
