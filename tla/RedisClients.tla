---------------------------- MODULE RedisClients ----------------------------
(***************************************************************************)
(* RedisClientCache for one connection string: a map entry that holds the  *)
(* promise of a client, shared by whoever asks while it is pending, taken  *)
(* out by close() and by the caller whose attempt failed.  The entry is    *)
(* set before the attempt is awaited and looked at again after it, so that *)
(* the entry found then may be another one.                                *)
(***************************************************************************)
EXTENDS Naturals, FiniteSets

CONSTANTS
  Caller,     \* asks for a store on the connection
  Client,     \* the clients that may be opened
  None,       \* no client
  RetryMax    \* failed attempts that are tried again (REDIS_CONNECT_RETRY_MAX)

ASSUME RetryMaxAssumption == RetryMax \in Nat

ASSUME NoneAssumption == None \notin Client

VARIABLES
  cached,     \* the client whose promise the map holds, or None
  client,     \* what became of every client
  retries,    \* the attempts it failed since it last was connected
  opener,     \* the caller that opened it, or None
  awaiting,   \* the client whose promise a caller awaits, or None
  store,      \* the client of the store a caller was given, or None
  closing,    \* the clients close() took out and has not quit yet
  early       \* history: close() took out a client not connected yet

clientVars == <<cached, client, retries, opener, awaiting, store, closing, early>>

(* A client that retries, from the first attempt or after a drop. *)
Trying == {"connecting", "reconnecting"}

(* The clients that hold a socket, or go on asking for one. *)
Open == {c \in Client : client[c] \in Trying \cup {"ready"}}

ClientsTypeOK ==
  /\ cached \in Client \cup {None}
  /\ client \in [Client -> {"unused", "ready", "failed", "gone", "closed"} \cup Trying]
  /\ retries \in [Client -> 0..RetryMax]
  /\ opener \in [Client -> Caller \cup {None}]
  /\ awaiting \in [Caller -> Client \cup {None}]
  /\ store \in [Caller -> Client \cup {None}]
  /\ closing \subseteq Client
  /\ early \in BOOLEAN

InitClients ==
  /\ cached = None
  /\ client = [c \in Client |-> "unused"]
  /\ retries = [c \in Client |-> 0]
  /\ opener = [c \in Client |-> None]
  /\ awaiting = [p \in Caller |-> None]
  /\ store = [p \in Caller |-> None]
  /\ closing = {}
  /\ early = FALSE

-----------------------------------------------------------------------------
(* getOrCreateClient.                                                      *)

(* A caller with no store, that asks for none. *)
Outside(p) == awaiting[p] = None /\ store[p] = None

(* The map holds a promise, of whatever outcome: it is shared. *)
Share(p) ==
  /\ Outside(p) /\ cached # None
  /\ awaiting' = [awaiting EXCEPT ![p] = cached]
  /\ UNCHANGED <<cached, client, retries, opener, store, closing, early>>

(* The promise is in the map before the caller awaits it. *)
OpenRedisClient(p) ==
  /\ Outside(p) /\ cached = None
  /\ \E c \in Client :
       /\ client[c] = "unused"
       /\ client' = [client EXCEPT ![c] = "connecting"]
       /\ opener' = [opener EXCEPT ![c] = p]
       /\ awaiting' = [awaiting EXCEPT ![p] = c]
       /\ cached' = c
  /\ UNCHANGED <<retries, store, closing, early>>

Connected(c) ==
  /\ client[c] \in Trying
  /\ client' = [client EXCEPT ![c] = "ready"]
  /\ retries' = [retries EXCEPT ![c] = 0]
  /\ UNCHANGED <<cached, opener, awaiting, store, closing, early>>

(* A reconnectStrategy that knows no bound. *)
AttemptFailsAgain(c) ==
  /\ client[c] \in Trying
  /\ retries' = [retries EXCEPT ![c] = (@ + 1) % (RetryMax + 1)]
  /\ UNCHANGED <<cached, client, opener, awaiting, store, closing, early>>

(* reconnectStrategy answers with a delay. *)
AttemptFails(c) ==
  /\ client[c] \in Trying /\ retries[c] < RetryMax
  /\ retries' = [retries EXCEPT ![c] = @ + 1]
  /\ UNCHANGED <<cached, client, opener, awaiting, store, closing, early>>

(* It answers false while the client is being opened: connect() rejects,   *)
(* and the caller that opened it takes out what the map holds by then.     *)
ConnectFails(c) ==
  /\ client[c] = "connecting" /\ retries[c] = RetryMax
  /\ client' = [client EXCEPT ![c] = "failed"]
  /\ cached' = None
  /\ awaiting' = [awaiting EXCEPT ![opener[c]] = None]
  /\ UNCHANGED <<retries, opener, store, closing, early>>

(* It answers false after a drop: the client gives up, the map keeps it. *)
GiveUp(c) ==
  /\ client[c] = "reconnecting" /\ retries[c] = RetryMax
  /\ client' = [client EXCEPT ![c] = "gone"]
  /\ UNCHANGED <<cached, retries, opener, awaiting, store, closing, early>>

(* BoxStoreRedis.create goes on with the outcome of the promise. *)
Create(p) ==
  /\ awaiting[p] # None
  /\ client[awaiting[p]] # "connecting"
  /\ awaiting' = [awaiting EXCEPT ![p] = None]
  /\ store' = [store EXCEPT ![p] = IF client[awaiting[p]] = "failed" THEN None ELSE awaiting[p]]
  /\ UNCHANGED <<cached, client, retries, opener, closing, early>>

-----------------------------------------------------------------------------
(* close and closeAll.                                                     *)

(* A close() for which a client not connected yet is nothing to close. *)
CloseConnected ==
  /\ cached # None
  /\ closing' = closing \cup ({cached} \ {c \in Client : client[c] = "connecting"})
  /\ early' = (early \/ client[cached] = "connecting")
  /\ cached' = None
  /\ UNCHANGED <<client, retries, opener, awaiting, store>>

(* The entry leaves the map before its promise is awaited. *)
Close ==
  /\ cached # None
  /\ closing' = closing \cup {cached}
  /\ early' = (early \/ client[cached] = "connecting")
  /\ cached' = None
  /\ UNCHANGED <<client, retries, opener, awaiting, store>>

(* The promise has settled: a client that did connect is told to quit. *)
Quit(c) ==
  /\ c \in closing /\ client[c] # "connecting"
  /\ closing' = closing \ {c}
  /\ client' = [client EXCEPT ![c] = IF c \in Open THEN "closed" ELSE @]
  /\ UNCHANGED <<cached, retries, opener, awaiting, store, early>>

-----------------------------------------------------------------------------

(* A socket that drops: the commands sent are rejected by RedisStore. *)
Drop(c) ==
  /\ client[c] = "ready"
  /\ client' = [client EXCEPT ![c] = "reconnecting"]

(* ClientTracked: a client that is open is the one in the map, or is being *)
(* closed: at most one is shared, and closeAll() reaches it.  The only way *)
(* out is a close() of a client still connecting: if that client fails at  *)
(* last, the caller that opened it takes a later one out of the map.       *)
ClientTracked ==
  Open \ (closing \cup {cached}) # {} =>
    early /\ \E c \in Client : client[c] = "failed"

(* CreateAnswered: attempts are bounded, so that a caller that asks for a  *)
(* store is told, of a server that never answers too.                      *)
CreateAnswered ==
  \A p \in Caller : awaiting[p] # None ~> awaiting[p] = None
=============================================================================
