------------------------------- MODULE Caches --------------------------------
(***************************************************************************)
(* The cache of a process (libs/cache/Cache.ts): its bins, each with the   *)
(* adapter the configuration gives it, the memory adapter                  *)
(* (adapters/cache/MemoryCacheAdapter.ts) with a timer for each value that *)
(* has a time to live, and the Redis adapter with its client               *)
(* (adapters/cache/RedisCacheAdapter.ts, redis/RedisCacheClient.ts), which *)
(* connects with the first call.                                           *)
(*                                                                         *)
(* A value is the number of the set() that wrote it.  What the server      *)
(* stores is left out, and so are the hashes of keys; a timer fires at any *)
(* time after it was set.                                                  *)
(***************************************************************************)
EXTENDS Integers, Sequences, FiniteSets, FiniteSetsExt, SequencesExt

CONSTANTS
  CacheConfigs,  \* configurations: .adapter, keys with their types in order,
                 \* and .bins, which gives bins the key of an adapter
  Classes,       \* the adapters whose requirements are met
  Bins, CacheKeys,
  Calls,         \* calls of get(), set() and clearBin() on a Redis bin
  MaxSets        \* bound: how many values are set in memory

ASSUME CachesAssumption ==
  /\ Classes \subseteq {"memory", "redis"} /\ "memory" \in Classes
  /\ \A cfg \in CacheConfigs : "default" \in DOMAIN cfg.bins
  /\ MaxSets \in Nat

None == 0

VARIABLES
  adapterOf,  \* the type of the adapter each bin has
  data,       \* data[b][k]: the value, None if there is none
  made,       \* bins with an object in data
  handle,     \* timer[k] of the memory adapter: the value whose timer it is
  timers,     \* the timers that are set: [bin, key, of]
  sets,       \* values given
  expiring,   \* history: the values set with a time to live
  memoryDown, \* history: shutdown() of the memory adapter
  connected, client,  \* of the RedisCacheClient; client is None for null
  clients,    \* the state of each client ever created
  doing,      \* doing[c]: how far a call is, and the client it waits for
  closing,    \* close(): "no", "quitting" or "closed"
  uncaught    \* history: handlers that have thrown

memoryVars == <<data, made, handle, timers, sets, expiring, memoryDown>>
redisVars == <<connected, client, clients, doing, closing, uncaught>>
cacheVars == <<adapterOf, memoryVars, redisVars>>

-----------------------------------------------------------------------------
(* configure *)

\* An adapter that cannot be loaded is one in memory.
TypeOf(type) == IF type \in Classes THEN type ELSE "memory"
KeysOf(cfg) == {cfg.adapter[i].key : i \in DOMAIN cfg.adapter}
\* The last one that is named default, or that the default bin names.
DefaultAdapter(cfg) ==
  LET named == {i \in DOMAIN cfg.adapter : cfg.adapter[i].key \in {"default", cfg.bins["default"]}}
  IN  IF named = {} THEN "memory" ELSE TypeOf(cfg.adapter[Max(named)].type)
Adapters(cfg, key) ==
  IF key \in KeysOf(cfg) /\ key # "default"
  THEN TypeOf(cfg.adapter[Max({i \in DOMAIN cfg.adapter : cfg.adapter[i].key = key})].type)
  ELSE DefaultAdapter(cfg)
\* getBin: what has no bin of its own is in the default bin.
AdapterOfBin(cfg, b) ==
  Adapters(cfg, cfg.bins[IF b \in DOMAIN cfg.bins THEN b ELSE "default"])

TypeOKCaches ==
  /\ adapterOf \in [Bins -> {"memory", "redis"}]
  /\ data \in [Bins -> [CacheKeys -> 0..MaxSets]]
  /\ handle \in [Bins -> [CacheKeys -> 0..MaxSets]]
  /\ timers \subseteq [bin : Bins, key : CacheKeys, of : 1..MaxSets]
  /\ client \in 0..Len(clients)
  /\ clients \in Seq({"connecting", "ready"})
  /\ doing \in [Calls -> [at : {"idle", "connecting", "untimed", "connected", "asked", "resolved",
                                "rejected"},
                          on : 0..Len(clients)]]

InitCaches ==
  /\ \E cfg \in CacheConfigs : adapterOf = [b \in Bins |-> AdapterOfBin(cfg, b)]
  /\ data = [b \in Bins |-> [k \in CacheKeys |-> None]] /\ made = {}
  /\ handle = [b \in Bins |-> [k \in CacheKeys |-> None]] /\ timers = {}
  /\ sets = 0 /\ expiring = {} /\ memoryDown = FALSE
  /\ connected = FALSE /\ client = None /\ clients = <<>>
  /\ doing = [c \in Calls |-> [at |-> "idle", on |-> None]]
  /\ closing = "no" /\ uncaught = 0

-----------------------------------------------------------------------------
(* The memory adapter *)

InMemory(b) == adapterOf[b] = "memory" /\ UNCHANGED <<adapterOf, redisVars>>

TimersOf(b, k) == {t \in timers : t.bin = b /\ t.key = k /\ t.of = handle[b][k]}
NewTimer(b, k, v, ttl) == IF ttl THEN {[bin |-> b, key |-> k, of |-> v]} ELSE {}

\* Slip: the timer of the value before is not cleared.
KeepsTimer(b, k, v, ttl) ==
  /\ timers' = timers \cup NewTimer(b, k, v, ttl)
  /\ handle' = IF ttl THEN [handle EXCEPT ![b][k] = v] ELSE handle
\* The timer of the value before is cleared, and a new one set.
SetTimer(b, k, v, ttl) ==
  /\ timers' = (timers \ TimersOf(b, k)) \cup NewTimer(b, k, v, ttl)
  /\ handle' = [handle EXCEPT ![b][k] = IF ttl THEN v ELSE None]

SetInMemory(b, k, ttl) ==
  /\ InMemory(b) /\ sets < MaxSets
  /\ sets' = sets + 1
  /\ data' = [data EXCEPT ![b][k] = sets + 1] /\ made' = made \cup {b}
  /\ SetTimer(b, k, sets + 1, ttl)
  /\ expiring' = IF ttl THEN expiring \cup {sets + 1} ELSE expiring
  /\ UNCHANGED memoryDown

\* set() with null; on a bin that has no object yet it throws.
Unset(b, k) ==
  /\ InMemory(b) /\ b \in made
  /\ data' = [data EXCEPT ![b][k] = None]
  /\ UNCHANGED <<made, handle, timers, sets, expiring, memoryDown>>

ClearMemoryBin(b) ==
  /\ InMemory(b)
  /\ data' = [data EXCEPT ![b] = [k \in CacheKeys |-> None]] /\ made' = made \cup {b}
  /\ UNCHANGED <<handle, timers, sets, expiring, memoryDown>>

\* The timer fires.
Expire(t) ==
  /\ t \in timers
  /\ data' = [data EXCEPT ![t.bin][t.key] = None]
  /\ handle' = [handle EXCEPT ![t.bin][t.key] = None]
  /\ timers' = timers \ {t}
  /\ UNCHANGED <<made, sets, expiring, memoryDown, adapterOf, redisVars>>

ShutdownMemory ==
  /\ ~memoryDown /\ memoryDown' = TRUE
  /\ timers' = timers \ UNION {TimersOf(b, k) : b \in Bins, k \in CacheKeys}
  /\ handle' = [b \in Bins |-> [k \in CacheKeys |-> None]]
  /\ UNCHANGED <<data, made, sets, expiring, adapterOf, redisVars>>

-----------------------------------------------------------------------------
(* The Redis adapter and its client *)

InRedis == (\E b \in Bins : adapterOf[b] = "redis") /\ UNCHANGED <<adapterOf, memoryVars>>
Goes(c, at, on) == doing' = [doing EXCEPT ![c] = [at |-> at, on |-> on]]

\* The start of get(), set() and clearBin(): connect() creates a client, also
\* when another call is just connecting.
Connect(c) ==
  /\ InRedis /\ doing[c].at = "idle"
  /\ IF connected
     THEN Goes(c, "connected", None) /\ UNCHANGED <<clients, client>>
     ELSE /\ clients' = Append(clients, "connecting")
          /\ client' = Len(clients')
          /\ Goes(c, "connecting", Len(clients'))
  /\ UNCHANGED <<connected, closing, uncaught>>

Waits(c, i) == doing[c] = [at |-> "connecting", on |-> i]

\* The call that waits for the client goes on; one that timed out does not.
Woken(i) ==
  [c \in Calls |-> IF Waits(c, i) THEN [at |-> "connected", on |-> None] ELSE doing[c]]

\* There is no client to remove the listener from.  The handler throws, after it has cleared
\* the timer of its call, which waits on.
Throws(i) ==
  /\ doing' = [c \in Calls |-> IF Waits(c, i) THEN [at |-> "untimed", on |-> i] ELSE doing[c]]
  /\ uncaught' = uncaught + 1 /\ UNCHANGED connected

\* 'ready' of the i-th client
ClientReady(i) ==
  /\ InRedis /\ clients[i] = "connecting"
  /\ clients' = [clients EXCEPT ![i] = "ready"]
  /\ IF client = None
     THEN Throws(i)
     ELSE connected' = TRUE /\ doing' = Woken(i) /\ UNCHANGED uncaught
  /\ UNCHANGED <<client, closing>>

\* 'error' of the client, which tries again by itself; its listener outlives the timer.
ConnectFails(c) ==
  /\ InRedis /\ doing[c].at \in {"connecting", "untimed"}
  /\ Goes(c, "rejected", None)
  /\ UNCHANGED <<connected, client, clients, closing, uncaught>>

\* After 5 seconds, if the timer has not been cleared
TimesOut(c) == doing[c].at = "connecting"

ConnectTimeout(c) ==
  /\ InRedis /\ TimesOut(c)
  /\ Goes(c, "rejected", None)
  /\ UNCHANGED <<connected, client, clients, closing, uncaught>>

\* get, set and removeKeysByPattern of the client: the command is sent, or
\* the promise rejected as there is no connection any more.
Command(c) ==
  /\ InRedis /\ doing[c].at = "connected"
  /\ IF client = None \/ ~connected
     THEN Goes(c, "rejected", None) ELSE Goes(c, "asked", client)
  /\ UNCHANGED <<connected, client, clients, closing, uncaught>>

\* The server answers, or the library for it; the keys found by
\* clearBin() are deleted by a second command.
Reply(c) ==
  /\ InRedis /\ doing[c].at = "asked"
  /\ \E end \in {"resolved", "rejected"} : Goes(c, end, None)
  /\ UNCHANGED <<connected, client, clients, closing, uncaught>>

\* close: quit() if connected; a client that is connecting is left alone.
CloseClient ==
  /\ InRedis /\ closing = "no"
  /\ closing' = IF connected THEN "quitting" ELSE "closed"
  /\ UNCHANGED <<connected, client, clients, doing, uncaught>>

ClientClosed ==
  /\ InRedis /\ closing = "quitting"
  /\ closing' = "closed" /\ connected' = FALSE /\ client' = None
  /\ UNCHANGED <<clients, doing, uncaught>>

NextCaches ==
  \/ \E b \in Bins, k \in CacheKeys :
       Unset(b, k) \/ \E ttl \in BOOLEAN : SetInMemory(b, k, ttl)
  \/ \E b \in Bins : ClearMemoryBin(b)
  \/ \E t \in timers : Expire(t)
  \/ ShutdownMemory \/ CloseClient \/ ClientClosed
  \/ \E c \in Calls : Connect(c) \/ ConnectFails(c) \/ ConnectTimeout(c) \/ Command(c) \/ Reply(c)
  \/ \E i \in DOMAIN clients : ClientReady(i)

\* Timers fire, and a command is answered or fails.  Whether a client becomes
\* ready is up to the server.
FairCaches ==
  /\ \A b \in Bins, k \in CacheKeys, v \in 1..MaxSets :
       WF_cacheVars(Expire([bin |-> b, key |-> k, of |-> v]))
  /\ \A c \in Calls : WF_cacheVars(ConnectTimeout(c)) /\ WF_cacheVars(Command(c) \/ Reply(c))

SpecCaches == InitCaches /\ [][NextCaches]_cacheVars /\ FairCaches

-----------------------------------------------------------------------------
(* Properties *)

\* Whatever was set, unset, cleared and set again in between, a timer can only
\* take away the value it was set for.
TimersTakeTheirOwn == \A t \in timers : data[t.bin][t.key] \in {None, t.of}

\* A value with a time to live does not stay, unless the cache is shut down.
ValuesExpire ==
  \A b \in Bins, k \in CacheKeys, v \in 1..MaxSets :
    data[b][k] = v /\ v \in expiring ~> data[b][k] # v \/ memoryDown

\* get() and set() rely on it: whoever finds the client connected finds it,
\* also when several clients were made and one is ready after the close.
ConnectedHasClient == connected => client # None

\* Neither a timer nor a connection that comes late takes a newer one's place
\* (MemoryCacheAdapter.ts:46, RedisCacheClient.ts:39).
LateOnesHarmNobody == TimersTakeTheirOwn /\ ConnectedHasClient

\* Its client is ready when close() has set the one of the adapter to null.
Stranded(c) ==
  doing[c].at = "untimed" /\ clients[doing[c].on] = "ready" /\ closing = "closed"

\* Every call on Redis comes to an end, if the server answers or not, unless it waits across
\* a close() for a client that is ready only then: its timer is cleared before the handler
\* throws, and nothing ends it but an error of that client.
CacheCallsEnd ==
  \A c \in Calls :
    doing[c].at # "idle" ~> doing[c].at \in {"resolved", "rejected"} \/ Stranded(c)

\* "timeout redis" (RedisCacheClient.ts:27): within 5 seconds a call is connected or
\* rejected.  The code does not keep it: TLC finds a counterexample (README, 5).
ConnectsInTime ==
  \A c \in Calls : doing[c].at = "connecting" ~> doing[c].at \notin {"connecting", "untimed"}
=============================================================================
