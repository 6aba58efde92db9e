---------------------------- MODULE ProcessProofs ----------------------------
(***************************************************************************)
(* Theorems about five parts of a process that share no state: the infos   *)
(* it asks for (InfoRequests), its cache (Caches), its scheduler           *)
(* (Schedules), its start and stop (Lifecycle), and what it gives back of  *)
(* files (Files).                                                          *)
(*                                                                         *)
(* A section uses the assumptions of its own component only.               *)
(***************************************************************************)
EXTENDS InfoRequests, Caches, Schedules, Lifecycle, Files, FiniteSetTheorems,
        SequenceTheorems, WellFoundedInduction, TLAPS

-----------------------------------------------------------------------------
(*****************************************************************************)
(* InfoRequests                                                              *)
(*****************************************************************************)

Known == Peers \cup NoTargets
InfoRecords ==
  [at : {"new", "ready", "finished"}, asked : SUBSET Known, targetIds : SUBSET Known,
   responses : Seq(Known), results : Seq(Known), late : BOOLEAN]

\* Each response is from another node.
Single(s) == IsFiniteSet(ToSet(s)) /\ Len(s) = Cardinality(ToSet(s))

\* Whoever was asked has answered, or is waited for.
Accounted(r) ==
  /\ r.at = "new" => r.responses = <<>>
  /\ r.at = "ready" =>
       /\ Single(r.responses)
       /\ ToSet(r.responses) \cup r.targetIds = r.asked
       /\ ToSet(r.responses) \cap r.targetIds = {}
  /\ r.at = "finished" =>
       /\ Single(r.results)
       /\ ToSet(r.results) \subseteq r.asked
       /\ ToSet(r.results) = r.asked \/ r.late

InfosStructure ==
  /\ infoCall \in [InfoCalls -> InfoRecords]
  /\ answers \subseteq Known
  /\ asks \subseteq [of : InfoCalls, to : Peers] /\ alive \subseteq Peers
  /\ \A c \in InfoCalls : Accounted(infoCall[c])

LEMMA NobodyYet == Single(<<>>) /\ ToSet(<<>>) = {}
<1>1. ToSet(<<>>) = {}
  BY DEF ToSet
<1> QED BY <1>1, FS_EmptySet DEF Single

\* A response from somebody new leaves each of them single.
LEMMA OneMore ==
  ASSUME NEW S, NEW s \in Seq(S), NEW e \in S, Single(s), e \notin ToSet(s)
  PROVE  /\ Append(s, e) \in Seq(S)
         /\ ToSet(Append(s, e)) = ToSet(s) \cup {e}
         /\ Single(Append(s, e))
<1>1. /\ Append(s, e) \in Seq(S) /\ Len(Append(s, e)) = Len(s) + 1
      /\ \A i \in 1..Len(s) : Append(s, e)[i] = s[i]
      /\ Append(s, e)[Len(s) + 1] = e
  BY AppendProperties
<1>2. ToSet(Append(s, e)) = ToSet(s) \cup {e}
  BY <1>1 DEF ToSet
<1>3. IsFiniteSet(ToSet(s) \cup {e}) /\ Cardinality(ToSet(s) \cup {e}) = Cardinality(ToSet(s)) + 1
  BY FS_AddElement DEF Single
<1> QED BY <1>1, <1>2, <1>3 DEF Single

LEMMA TakesInfoKeeps ==
  ASSUME NEW r \in InfoRecords, Accounted(r), NEW from \in Known
  PROVE  TakesInfo(r, from) \in InfoRecords /\ Accounted(TakesInfo(r, from))
<1>1. CASE r.at # "ready" \/ from \notin r.targetIds
  BY <1>1 DEF TakesInfo
<1>2. CASE r.at = "ready" /\ from \in r.targetIds
  <2> DEFINE s == [r EXCEPT !.targetIds = StillWaits(@, from), !.responses = Append(@, from)]
  <2>1. from \notin ToSet(r.responses) /\ r.responses \in Seq(Known)
    BY <1>2 DEF Accounted, InfoRecords
  <2>2. /\ Append(r.responses, from) \in Seq(Known)
        /\ ToSet(Append(r.responses, from)) = ToSet(r.responses) \cup {from}
        /\ Single(Append(r.responses, from))
    BY <1>2, <2>1, OneMore DEF Accounted
  <2>3. /\ s \in InfoRecords
        /\ s.at = "ready" /\ s.asked = r.asked /\ s.targetIds = r.targetIds \ {from}
        /\ s.responses = Append(r.responses, from)
    BY <1>2, <2>2 DEF InfoRecords, StillWaits
  <2>4. /\ ToSet(s.responses) \cup s.targetIds = s.asked
        /\ ToSet(s.responses) \cap s.targetIds = {}
    BY <1>2, <2>1, <2>2, <2>3 DEF Accounted
  <2>5. Accounted(s)
    BY <2>2, <2>3, <2>4 DEF Accounted
  <2>6. CASE s.targetIds = {}
    <3>1. TakesInfo(r, from) = PostProcessInfos(s)
      BY <1>2, <2>6 DEF TakesInfo
    <3>2. /\ PostProcessInfos(s) \in InfoRecords
          /\ PostProcessInfos(s).at = "finished" /\ PostProcessInfos(s).asked = s.asked
          /\ PostProcessInfos(s).results = s.responses
      BY <2>3 DEF PostProcessInfos, InfoRecords
    <3> QED BY <2>2, <2>3, <2>4, <2>6, <3>1, <3>2, ZenonT(30) DEF Accounted
  <2>7. CASE s.targetIds # {}
    BY <1>2, <2>3, <2>5, <2>7 DEF TakesInfo
  <2> QED BY <2>6, <2>7
<1> QED BY <1>1, <1>2

LEMMA InitInfosStructure == InitInfos => InfosStructure
<1> SUFFICES ASSUME InitInfos PROVE InfosStructure
  OBVIOUS
<1>1. NewRequest \in InfoRecords /\ NewRequest.at = "new" /\ NewRequest.responses = <<>>
  BY DEF NewRequest, InfoRecords, Known
<1> QED BY <1>1 DEF InitInfos, InfosStructure, Accounted

LEMMA StepInfosStructure == InfosStructure /\ [NextInfos]_infoVars => InfosStructure'
<1> SUFFICES ASSUME InfosStructure, [NextInfos]_infoVars PROVE InfosStructure'
  OBVIOUS
<1> USE DEF InfosStructure
<1>1. ASSUME NEW n \in Peers, Stops(n) PROVE InfosStructure'
  BY <1>1 DEF Stops
<1>2. ASSUME NEW a \in asks, OnInfoRequest(a) PROVE InfosStructure'
  BY <1>2 DEF OnInfoRequest, Known
<1>3. ASSUME NEW c \in InfoCalls, RequestTimeout(c) PROVE InfosStructure'
  <2> DEFINE r == infoCall[c]
             s == [PostProcessInfos(r) EXCEPT !.late = TRUE]
  <2>1. /\ s \in InfoRecords /\ s.at = "finished" /\ s.late
        /\ s.results = r.responses /\ s.asked = r.asked
    BY DEF PostProcessInfos, InfoRecords
  <2>2. Accounted(s)
    BY <1>3, <2>1 DEF Accounted, RequestTimeout
  <2> QED BY <1>3, <2>1, <2>2 DEF RequestTimeout
<1>4. ASSUME NEW c \in InfoCalls, NEW targets \in {NoTargets} \cup SUBSET Peers,
             RunRequest(c, targets)
      PROVE  InfosStructure'
  <2> DEFINE r == infoCall[c]
             s == [r EXCEPT !.at = "ready", !.asked = targets, !.targetIds = targets]
  <2>1. targets \in SUBSET Known
    BY DEF Known
  <2>5. r \in InfoRecords /\ r.responses = <<>>
    BY <1>4 DEF Accounted, RunRequest
  <2>2. /\ s \in InfoRecords /\ s.at = "ready" /\ s.asked = targets /\ s.targetIds = targets
        /\ s.responses = <<>>
    BY <2>1, <2>5 DEF InfoRecords
  <2>3. Accounted(s)
    BY <2>2, NobodyYet DEF Accounted
  <2>4. infoCall' = [infoCall EXCEPT ![c] = s]
    BY <1>4 DEF RunRequest
  <2> QED BY <1>4, <2>2, <2>3, <2>4 DEF RunRequest
<1>5. ASSUME NEW from \in answers, NEW again \in BOOLEAN, OnResults(from, again)
      PROVE  InfosStructure'
  <2>1. from \in Known
    OBVIOUS
  <2>2. \A c \in InfoCalls : /\ TakesInfo(infoCall[c], from) \in InfoRecords
                             /\ Accounted(TakesInfo(infoCall[c], from))
    BY <2>1, TakesInfoKeeps
  <2> QED BY <1>5, <2>2 DEF OnResults
<1>6. CASE UNCHANGED infoVars
  BY <1>6 DEF infoVars
<1> QED BY <1>1, <1>2, <1>3, <1>4, <1>5, <1>6 DEF NextInfos

\* However the answers to overlapping calls mix: getNodeInfos() brings one info of each node
\* that was listed when it began, and misses some only if the time was over (SystemInfoRequest).
THEOREM AlwaysInfosOncePerNode == SpecInfos => []InfosOncePerNode
<1>1. InfosStructure => InfosOncePerNode
  BY DEF InfosStructure, Accounted, Single, InfosOncePerNode
<1> QED BY <1>1, InitInfosStructure, StepInfosStructure, PTL DEF SpecInfos

-----------------------------------------------------------------------------
(*****************************************************************************)
(* Caches                                                                    *)
(*****************************************************************************)

\* A timer is that of the value that stands in its place, or of one that has gone.
TimersHandled ==
  \A t \in timers : handle[t.bin][t.key] = t.of /\ data[t.bin][t.key] \in {None, t.of}

\* Only a client that was made is connected.
ClientMade == connected => client \in 1..Len(clients)

CachesStructure ==
  /\ TypeOKCaches
  /\ connected \in BOOLEAN /\ sets \in 0..MaxSets
  /\ TimersHandled
  /\ ClientMade

\* Whatever the configuration says, a bin has one of the two adapters.
LEMMA BinsHaveAdapters ==
  ASSUME NEW cfg, NEW b
  PROVE  AdapterOfBin(cfg, b) \in {"memory", "redis"}
<1>1. \A type : TypeOf(type) \in {"memory", "redis"}
  BY CachesAssumption DEF TypeOf
<1> QED BY <1>1 DEF AdapterOfBin, Adapters, DefaultAdapter

LEMMA InitCachesStructure == InitCaches => CachesStructure
<1> SUFFICES ASSUME InitCaches PROVE CachesStructure
  OBVIOUS
<1>1. adapterOf \in [Bins -> {"memory", "redis"}]
  BY BinsHaveAdapters DEF InitCaches
<1>2. TypeOKCaches /\ sets \in 0..MaxSets
  BY <1>1, CachesAssumption DEF InitCaches, TypeOKCaches, None
<1> QED BY <1>2 DEF InitCaches, CachesStructure, TimersHandled, ClientMade

\* What the memory adapter does leaves the client alone.
LEMMA MemoryOnly ==
  ASSUME CachesStructure, UNCHANGED <<adapterOf, redisVars>>,
         data' \in [Bins -> [CacheKeys -> 0..MaxSets]],
         handle' \in [Bins -> [CacheKeys -> 0..MaxSets]],
         timers' \subseteq [bin : Bins, key : CacheKeys, of : 1..MaxSets],
         sets' \in 0..MaxSets, TimersHandled'
  PROVE  CachesStructure'
BY DEF CachesStructure, TypeOKCaches, redisVars, ClientMade

LEMMA SetKeeps ==
  ASSUME CachesStructure, NEW b \in Bins, NEW k \in CacheKeys, NEW ttl \in BOOLEAN,
         SetInMemory(b, k, ttl)
  PROVE  CachesStructure'
<1> DEFINE v == sets + 1
<1>1. /\ v \in 1..MaxSets /\ sets' = v
      /\ data' = [data EXCEPT ![b][k] = v]
      /\ timers' = (timers \ TimersOf(b, k)) \cup NewTimer(b, k, v, ttl)
      /\ handle' = [handle EXCEPT ![b][k] = IF ttl THEN v ELSE None]
      /\ UNCHANGED <<adapterOf, redisVars>>
  BY CachesAssumption DEF SetInMemory, SetTimer, InMemory, CachesStructure
<1>2. /\ data \in [Bins -> [CacheKeys -> 0..MaxSets]]
      /\ handle \in [Bins -> [CacheKeys -> 0..MaxSets]]
      /\ timers \subseteq [bin : Bins, key : CacheKeys, of : 1..MaxSets]
  BY DEF CachesStructure, TypeOKCaches
<1>3. /\ data' \in [Bins -> [CacheKeys -> 0..MaxSets]]
      /\ handle' \in [Bins -> [CacheKeys -> 0..MaxSets]]
  BY <1>1, <1>2, CachesAssumption DEF None
<1>4. timers' \subseteq [bin : Bins, key : CacheKeys, of : 1..MaxSets]
  BY <1>1, <1>2 DEF NewTimer
<1>5. TimersHandled'
  <2> SUFFICES ASSUME NEW t \in timers'
               PROVE  handle'[t.bin][t.key] = t.of /\ data'[t.bin][t.key] \in {None, t.of}
    BY DEF TimersHandled
  <2>1. CASE t.bin = b /\ t.key = k
    <3>1. t \notin timers \/ t \in TimersOf(b, k)
      BY <2>1 DEF CachesStructure, TimersHandled, TimersOf
    <3>2. t \in NewTimer(b, k, v, ttl)
      BY <1>1, <3>1
    <3> QED BY <1>1, <1>2, <3>2 DEF NewTimer
  <2>2. CASE ~(t.bin = b /\ t.key = k)
    <3>1. t \in timers
      BY <1>1, <2>2 DEF NewTimer
    <3>2. handle'[t.bin][t.key] = handle[t.bin][t.key] /\ data'[t.bin][t.key] = data[t.bin][t.key]
      BY <1>1, <1>2, <2>2, <3>1
    <3> QED BY <3>1, <3>2 DEF CachesStructure, TimersHandled
  <2> QED BY <2>1, <2>2
<1> QED BY <1>1, <1>3, <1>4, <1>5, MemoryOnly

LEMMA UnsetKeeps ==
  ASSUME CachesStructure, NEW b \in Bins,
         ClearMemoryBin(b) \/ \E k \in CacheKeys : Unset(b, k)
  PROVE  CachesStructure'
<1>1. /\ data \in [Bins -> [CacheKeys -> 0..MaxSets]]
      /\ handle \in [Bins -> [CacheKeys -> 0..MaxSets]]
      /\ timers \subseteq [bin : Bins, key : CacheKeys, of : 1..MaxSets]
      /\ sets \in 0..MaxSets
  BY DEF CachesStructure, TypeOKCaches
<1>2. UNCHANGED <<adapterOf, redisVars, handle, timers, sets>>
  BY DEF ClearMemoryBin, Unset, InMemory
<1>3. /\ data' \in [Bins -> [CacheKeys -> 0..MaxSets]]
      /\ \A c \in Bins, k \in CacheKeys : data'[c][k] \in {data[c][k], None}
  <2>1. CASE ClearMemoryBin(b)
    BY <1>1, <2>1, CachesAssumption DEF ClearMemoryBin, None
  <2>2. ASSUME NEW k \in CacheKeys, Unset(b, k) PROVE <1>3!1 /\ <1>3!2
    BY <1>1, <2>2, CachesAssumption DEF Unset, None
  <2> QED BY <2>1, <2>2
<1>4. TimersHandled'
  BY <1>1, <1>2, <1>3 DEF CachesStructure, TimersHandled
<1> QED BY <1>1, <1>2, <1>3, <1>4, MemoryOnly

LEMMA ExpireKeeps ==
  ASSUME CachesStructure, NEW t \in timers, Expire(t)
  PROVE  CachesStructure'
<1>1. /\ data \in [Bins -> [CacheKeys -> 0..MaxSets]]
      /\ handle \in [Bins -> [CacheKeys -> 0..MaxSets]]
      /\ timers \subseteq [bin : Bins, key : CacheKeys, of : 1..MaxSets]
      /\ sets \in 0..MaxSets
  BY DEF CachesStructure, TypeOKCaches
<1>2. /\ UNCHANGED <<adapterOf, redisVars, sets>> /\ timers' = timers \ {t}
      /\ data' = [data EXCEPT ![t.bin][t.key] = None]
      /\ handle' = [handle EXCEPT ![t.bin][t.key] = None]
  BY DEF Expire
<1>3. /\ data' \in [Bins -> [CacheKeys -> 0..MaxSets]]
      /\ handle' \in [Bins -> [CacheKeys -> 0..MaxSets]]
  BY <1>1, <1>2, CachesAssumption DEF None
<1>4. \A u \in timers' : ~(u.bin = t.bin /\ u.key = t.key)
  <2> SUFFICES ASSUME NEW u \in timers', u.bin = t.bin, u.key = t.key PROVE FALSE
    OBVIOUS
  <2>1. u.of = t.of
    BY <1>2 DEF CachesStructure, TimersHandled
  <2>2. \A x \in timers : x = [bin |-> x.bin, key |-> x.key, of |-> x.of]
    BY <1>1
  <2>3. u = t
    BY <1>2, <2>1, <2>2
  <2> QED BY <1>2, <2>3
<1>5. TimersHandled'
  BY <1>1, <1>2, <1>4 DEF CachesStructure, TimersHandled
<1> QED BY <1>1, <1>2, <1>3, <1>5, MemoryOnly

LEMMA ShutdownMemoryKeeps ==
  ASSUME CachesStructure, ShutdownMemory
  PROVE  CachesStructure'
<1>1. /\ data \in [Bins -> [CacheKeys -> 0..MaxSets]]
      /\ timers \subseteq [bin : Bins, key : CacheKeys, of : 1..MaxSets]
      /\ sets \in 0..MaxSets
  BY DEF CachesStructure, TypeOKCaches
<1>2. timers' = {}
  <2>1. \A t \in timers : t \in TimersOf(t.bin, t.key) /\ t.bin \in Bins /\ t.key \in CacheKeys
    BY <1>1 DEF CachesStructure, TimersHandled, TimersOf
  <2> QED BY <2>1 DEF ShutdownMemory
<1>3. handle' \in [Bins -> [CacheKeys -> 0..MaxSets]]
  BY CachesAssumption DEF ShutdownMemory, None
<1> QED BY <1>1, <1>2, <1>3, MemoryOnly DEF ShutdownMemory, TimersHandled

LEMMA RedisKeeps ==
  ASSUME CachesStructure,
         \/ CloseClient \/ ClientClosed \/ \E i \in DOMAIN clients : ClientReady(i)
         \/ \E c \in Calls : \/ Connect(c) \/ ConnectFails(c) \/ ConnectTimeout(c)
                             \/ Command(c) \/ Reply(c)
  PROVE  CachesStructure'
<1> DEFINE At == {"idle", "connecting", "untimed", "connected", "asked", "resolved", "rejected"}
           RedisTypes == /\ connected' \in BOOLEAN
                         /\ client' \in 0..Len(clients')
                         /\ clients' \in Seq({"connecting", "ready"})
                         /\ doing' \in [Calls -> [at : At, on : 0..Len(clients')]]
                         /\ ClientMade'
<1> USE DEF None
<1>1. /\ connected \in BOOLEAN
      /\ client \in 0..Len(clients) /\ clients \in Seq({"connecting", "ready"})
      /\ Len(clients) \in Nat
      /\ doing \in [Calls -> [at : At, on : 0..Len(clients)]]
      /\ ClientMade
  BY DEF CachesStructure, TypeOKCaches
<1>2. UNCHANGED <<adapterOf, memoryVars>>
  BY DEF CloseClient, ClientClosed, ClientReady, Connect, ConnectFails, ConnectTimeout, Command,
         Reply, InRedis
<1>3. RedisTypes
  <2>1. CASE CloseClient
    BY <1>1, <2>1 DEF CloseClient, ClientMade
  <2>5. CASE ClientClosed
    <3>1. clients' = clients /\ doing' = doing /\ client' = 0 /\ ~connected' /\ connected' \in BOOLEAN
      BY <2>5 DEF ClientClosed
    <3> QED BY <1>1, <3>1 DEF ClientMade
  <2>2. ASSUME NEW i \in DOMAIN clients, ClientReady(i) PROVE RedisTypes
    <3>1. clients' \in Seq({"connecting", "ready"}) /\ Len(clients') = Len(clients)
      BY <1>1, <2>2, ExceptSeq DEF ClientReady
    <3>2. client' = client /\ doing' \in [Calls -> [at : At, on : 0..Len(clients)]]
      <4>1. i \in 0..Len(clients)
        BY <1>1
      <4>2. CASE client = None
        BY <1>1, <2>2, <4>1, <4>2 DEF ClientReady, Throws
      <4>3. CASE client # None
        BY <1>1, <2>2, <4>3 DEF ClientReady, Woken
      <4> QED BY <2>2, <4>2, <4>3 DEF ClientReady
    <3>3. connected' \in BOOLEAN /\ (connected' => connected \/ client # None)
      BY <1>1, <2>2 DEF ClientReady, Throws
    <3> QED BY <1>1, <3>1, <3>2, <3>3 DEF ClientMade
  <2>3. ASSUME NEW c \in Calls, Connect(c) PROVE RedisTypes
    <3>1. CASE connected
      BY <1>1, <2>3, <3>1 DEF Connect, Goes, ClientMade
    <3>2. CASE ~connected
      <4>1. clients' = Append(clients, "connecting")
        BY <2>3, <3>2 DEF Connect
      <4>2. clients' \in Seq({"connecting", "ready"}) /\ Len(clients') = Len(clients) + 1
        BY <1>1, <4>1, AppendProperties
      <4>3. /\ connected' = connected /\ client' = Len(clients')
            /\ doing' = [doing EXCEPT ![c] = [at |-> "connecting", on |-> Len(clients')]]
        BY <2>3, <3>2 DEF Connect, Goes
      <4>4. doing' \in [Calls -> [at : At, on : 0..Len(clients')]]
        BY <1>1, <4>2, <4>3
      <4> QED BY <1>1, <3>2, <4>2, <4>3, <4>4 DEF ClientMade
    <3> QED BY <3>1, <3>2
  <2>4. ASSUME NEW c \in Calls, ConnectFails(c) \/ ConnectTimeout(c) \/ Command(c) \/ Reply(c)
        PROVE  RedisTypes
    <3>1. /\ UNCHANGED <<connected, client, clients>>
          /\ \E how \in At, on \in 0..Len(clients) : Goes(c, how, on)
      BY <1>1, <2>4 DEF ConnectFails, ConnectTimeout, Command, Reply
    <3> QED BY <1>1, <3>1 DEF Goes, ClientMade
  <2> QED BY <2>1, <2>2, <2>3, <2>4, <2>5
<1>4. TimersHandled'
  BY <1>2 DEF memoryVars, CachesStructure, TimersHandled
<1> QED BY <1>2, <1>3, <1>4 DEF memoryVars, CachesStructure, TypeOKCaches

LEMMA StepCachesStructure == CachesStructure /\ [NextCaches]_cacheVars => CachesStructure'
<1> SUFFICES ASSUME CachesStructure, [NextCaches]_cacheVars PROVE CachesStructure'
  OBVIOUS
<1>1. CASE UNCHANGED cacheVars
  BY <1>1 DEF cacheVars, memoryVars, redisVars, CachesStructure, TypeOKCaches, TimersHandled, ClientMade
<1> QED
  BY <1>1, SetKeeps, UnsetKeeps, ExpireKeeps, ShutdownMemoryKeeps, RedisKeeps DEF NextCaches

\* Every variable of the cache keeps its type; a call waits for a client that was made.
THEOREM CachesTypeCorrect == SpecCaches => []TypeOKCaches
<1>1. CachesStructure => TypeOKCaches
  BY DEF CachesStructure
<1> QED BY <1>1, InitCachesStructure, StepCachesStructure, PTL DEF SpecCaches

\* Neither a timer that fires late (MemoryCacheAdapter.ts:46) nor a client that is ready
\* late (RedisCacheClient.ts:39) takes the place of a newer value or client.
THEOREM AlwaysLateOnesHarmNobody == SpecCaches => []LateOnesHarmNobody
<1>1. CachesStructure => LateOnesHarmNobody
  BY DEF CachesStructure, TypeOKCaches, LateOnesHarmNobody, TimersHandled, TimersTakeTheirOwn,
         ClientMade, ConnectedHasClient, None
<1> QED BY <1>1, InitCachesStructure, StepCachesStructure, PTL DEF SpecCaches

-----------------------------------------------------------------------------
(*****************************************************************************)
(* Schedules                                                                 *)
(*****************************************************************************)

\* A parenthesis around %, which does not bind more than + does.
LEMMA DivMod ==
  ASSUME NEW o \in Nat \ {0}, NEW x \in Nat
  PROVE  /\ x \div o \in Nat /\ x % o \in 0..o-1
         /\ x = o * (x \div o) + (x % o)
OBVIOUS

\* A time on the grid stays on it after some more offsets.
LEMMA ModStep ==
  ASSUME NEW o \in Nat \ {0}, NEW x \in Nat, NEW k \in Nat, x % o = 0
  PROVE  (x + o * k) % o = 0
<1> DEFINE y == x + o * k
          d == (y \div o) - (x \div o) - k
<1>1. /\ x \div o \in Nat /\ x = o * (x \div o)
  BY DivMod
<1>0. o * k \in Nat
  OBVIOUS
<1>2. y \in Nat
  BY <1>0
<1>3. /\ y \div o \in Nat /\ y % o \in 0..o-1
      /\ y = o * (y \div o) + (y % o)
  BY <1>2, DivMod
<1>4. d \in Int /\ o * d = - (y % o)
  <2>1. \A a, b, c \in Int : o * (a - b - c) = o * a - o * b - o * c
    OBVIOUS
  <2>2. o * d = o * (y \div o) - o * (x \div o) - o * k
    BY <1>1, <1>3, <2>1
  <2> HIDE DEF y
  <2>3. d \in Int
    BY <1>1, <1>3
  <2> USE DEF y
  <2> QED BY <1>1, <1>3, <2>2, <2>3, <1>0
<1>5. d = 0
  <2>1. \A e \in Int : e >= 1 => o * e >= o
    OBVIOUS
  <2>2. \A e \in Int : e <= -1 => o * e <= -o
    OBVIOUS
  <2> HIDE DEF y, d
  <2> QED BY <1>3, <1>4, <2>1, <2>2
<1> HIDE DEF y, d
<1>6. y % o = 0
  BY <1>4, <1>5, <1>3
<1> QED BY <1>6 DEF y

\* DefaultScheduleFactory: the first time after now is at most one offset away.
LEMMA NextStep ==
  ASSUME NEW o \in Nat \ {0}, NEW last \in Nat, now \in Nat, last <= now
  PROVE  LET k == (now - last) \div o + 1
         IN  /\ k \in Nat /\ last + o * k > now /\ last + o * k <= now + o /\ last + o * k \in Nat
<1> DEFINE x == now - last  q == x \div o
<1>0. x \in Nat
  OBVIOUS
<1>1. /\ q \in Nat /\ x % o \in 0..o-1 /\ x = o * q + (x % o)
  BY <1>0, DivMod
<1>2. o * q \in Nat /\ o * (q + 1) = o * q + o
  BY <1>1
<1> HIDE DEF q
<1>3. q + 1 \in Nat /\ o * (q + 1) > x /\ o * (q + 1) <= x + o /\ o * (q + 1) \in Nat
  BY <1>1, <1>2
<1> QED BY <1>3 DEF q

\* A set of moments that is not empty has a first one.
LEMMA FirstMoment ==
  ASSUME NEW S \in SUBSET Nat, S # {}
  PROVE  Min(S) \in S /\ \A t \in S : Min(S) <= t
<1>1. PICK m \in S : \A t \in S : ~(<<t, m>> \in OpToRel(<, Nat))
  BY WFMin, NatLessThanWellFounded
<1>2. \A t \in S : m <= t
  <2> TAKE t \in S
  <2>1. ~(t < m)
    BY <1>1 DEF OpToRel
  <2> QED BY <2>1
<1> QED BY <1>2 DEF Min

-----------------------------------------------------------------------------

\* Those that register() has not refused have names of their own.
Named ==
  /\ \A d \in Defs : call[d] \in {"attaching", "done"} => d \in schedules
  /\ \A d, e \in schedules : d.name = e.name => d = e

\* Nothing happens to a schedule before its factories are attached, or if none tells when.
Unattached ==
  \A d \in Defs :
    /\ call[d] # "done" => timer[d] = Never /\ under[d] = 0 /\ runs[d] = <<>>
    /\ ~Timed(d) => timer[d] = Never /\ under[d] = 0

\* The times at which d was executed are its own, and in order.
Executions(d) ==
  \A i \in 1..Len(runs[d]) :
    /\ OnTime(d, runs[d][i].due) /\ runs[d][i].due <= now
    /\ \A j \in 1..i - 1 : runs[d][j].due < runs[d][i].due

\* The next time is one of its own and after those; it has come when it is executed.
Ahead(d) ==
  /\ timer[d] # Never =>
       /\ timer[d] = next[d]
       /\ OnTime(d, next[d]) \/ next[d] = Horizon + 1
       /\ \A i \in 1..Len(runs[d]) : runs[d][i].due < next[d]
  /\ under[d] = 1 =>
       /\ next[d] <= now /\ OnTime(d, next[d])
       /\ \A i \in 1..Len(runs[d]) : runs[d][i].due <= next[d]

Kept == \A d \in Defs : Regular(d) => Executions(d) /\ Ahead(d)

SchedulesStructure ==
  /\ TypeOKSchedules /\ now >= 1
  /\ Named
  /\ Unattached
  /\ GoesOn
  /\ Kept

LEMMA InitSchedulesStructure == InitSchedules => SchedulesStructure
<1> SUFFICES ASSUME InitSchedules PROVE SchedulesStructure
  OBVIOUS
<1> USE DEF InitSchedules
<1>1. \A d \in Defs : d.start \in Nat
  BY SchedulesAssumption DEF Definitions
<1>2. TypeOKSchedules /\ now >= 1
  <2>1. now \in 0..Horizon /\ now >= 1
    BY SchedulesAssumption
  <2>2. <<>> \in Seq([due : Nat, asked : SUBSET Keys])
    OBVIOUS
  <2>3. runs \in [Defs -> Seq([due : Nat, asked : SUBSET Keys])]
    BY <2>2
  <2> QED BY <1>1, <2>1, <2>3 DEF TypeOKSchedules, Never
<1>3. Named /\ Unattached
  BY DEF Named, Unattached
<1>4. GoesOn
  BY DEF GoesOn
<1>5. Kept
  BY DEF Kept, Executions, Ahead
<1> QED BY <1>2, <1>3, <1>4, <1>5 DEF SchedulesStructure

\* What the factories make of a definition.
LEMMA DefinitionTypes ==
  ASSUME NEW d \in Defs
  PROVE  /\ d.cron \in SUBSET Nat /\ d.offset \in Nat /\ d.start \in Nat
         /\ d.startup \in BOOLEAN /\ OptionsOf(d) \in SUBSET Keys
<1>1. d \in Definitions
  BY SchedulesAssumption
<1> QED BY <1>1 DEF Definitions, OptionsOf, Keys

\* The next time is after now.
LEMMA UpcomingLater ==
  ASSUME now \in 1..Horizon, NEW d \in Defs, NEW last \in Nat
  PROVE  Upcoming(d, last) \in Nat /\ Upcoming(d, last) > now /\ DueAt(Upcoming(d, last)) \in Nat
         /\ DueAt(Upcoming(d, last)) > now
<1>1. Upcoming(d, last) \in Nat /\ Upcoming(d, last) > now
  <2>1. CASE d.offset > 0
    <3>1. d.offset \in Nat \ {0} /\ now \in Nat
      BY <2>1, DefinitionTypes, SchedulesAssumption
    <3>2. last <= now => /\ last + d.offset * ((now - last) \div d.offset + 1) > now
                         /\ last + d.offset * ((now - last) \div d.offset + 1) \in Nat
      BY <3>1, NextStep
    <3> HIDE DEF Upcoming
    <3> QED BY <2>1, <3>1, <3>2 DEF Upcoming, NextByOffset
  <2>2. CASE ~(d.offset > 0)
    <3> DEFINE matches == {t \in Matches(d) : t > now}
    <3>1. matches \in SUBSET Nat /\ Horizon + 1 \in matches
      BY DefinitionTypes, SchedulesAssumption DEF Matches
    <3>2. Min(matches) \in matches
      BY <3>1, FirstMoment
    <3>3. Upcoming(d, last) = Min(matches)
      BY <2>2 DEF Upcoming, NextByCron
    <3> QED BY <3>1, <3>2, <3>3
  <2> QED BY <2>1, <2>2
<1> HIDE DEF Upcoming
<1> QED BY <1>1, SchedulesAssumption DEF DueAt

\* From a time of a schedule, or its start, the next one is on time, and not too far for a timer.
LEMMA UpcomingOnTime ==
  ASSUME now \in 1..Horizon, NEW d \in Defs, Regular(d), NEW s \in Nat, NEW last \in Nat,
         last <= now + MaxDelay,
         d.offset > 0 => last >= s /\ (last - s) % d.offset = 0
  PROVE  LET t == Upcoming(d, last)
         IN  /\ DueAt(t) = t
             /\ IF d.offset > 0 THEN t >= s /\ (t - s) % d.offset = 0
                ELSE t \in d.cron \/ t = Horizon + 1
<1> DEFINE t == Upcoming(d, last)
<1>0. /\ t \in Nat /\ t > now /\ now \in Nat /\ MaxDelay \in Nat
      /\ d.offset \in Nat /\ d.offset <= MaxDelay
  BY UpcomingLater, SchedulesAssumption, DefinitionTypes DEF Regular
<1>1. CASE d.offset > 0
  <2> DEFINE k == (now - last) \div d.offset + 1
  <2>1. CASE last > now
    <3>1. t = last
      BY <1>1, <2>1 DEF Upcoming, NextByOffset
    <3> HIDE DEF t
    <3> QED BY <1>0, <1>1, <3>1 DEF DueAt, t
  <2>2. CASE last <= now
    <3>1. t = last + d.offset * k
      BY <1>0, <1>1, <2>2 DEF Upcoming, NextByOffset
    <3>9. d.offset \in Nat \ {0} /\ now \in Nat
      BY <1>0, <1>1
    <3>2. k \in Nat /\ last + d.offset * k <= now + d.offset /\ last + d.offset * k \in Nat
      BY <2>2, <3>9, NextStep
    <3>10. last - s \in Nat /\ (last - s) % d.offset = 0
      BY <1>1
    <3> HIDE DEF k
    <3>3. ((last - s) + d.offset * k) % d.offset = 0
      BY <3>2, <3>9, <3>10, ModStep
    <3>4. \A x \in Nat : (last + x) - s = (last - s) + x /\ last + x >= last
      OBVIOUS
    <3>5. d.offset * k \in Nat
      BY <1>0, <3>2
    <3> HIDE DEF t
    <3>6. t - s = (last - s) + d.offset * k /\ t >= last
      BY <3>1, <3>4, <3>5
    <3>7. (t - s) % d.offset = 0 /\ t >= s
      BY <1>0, <1>1, <3>3, <3>6
    <3>8. DueAt(t) = t
      BY <1>0, <3>1, <3>2 DEF DueAt
    <3> QED BY <1>1, <3>7, <3>8 DEF t
  <2> QED BY <1>0, <2>1, <2>2
<1>2. CASE d.offset = 0
  <2> DEFINE matches == {u \in Matches(d) : u > now}
  <2>1. matches \in SUBSET Nat /\ Horizon + 1 \in matches
    BY DefinitionTypes, SchedulesAssumption DEF Matches
  <2>2. Min(matches) \in matches /\ \A u \in matches : Min(matches) <= u
    BY <2>1, FirstMoment
  <2>3. t = Min(matches)
    BY <1>2 DEF Upcoming, NextByCron
  <2>4. PICK match \in Matches(d) : now < match /\ match <= now + MaxDelay
    BY <1>2 DEF Regular
  <2>5. t \in d.cron \/ t = Horizon + 1
    BY <2>2, <2>3 DEF Matches
  <2>6. t <= now + MaxDelay
    <3>1. match \in matches /\ match \in Nat
      BY <2>1, <2>4
    <3>2. t <= match
      BY <2>2, <2>3, <3>1
    <3> HIDE DEF t
    <3> QED BY <1>0, <2>4, <3>1, <3>2
  <2> HIDE DEF t
  <2>7. DueAt(t) = t
    BY <1>0, <2>6 DEF DueAt
  <2> QED BY <1>2, <2>5, <2>7 DEF t
<1> QED BY <1>0, <1>1, <1>2

-----------------------------------------------------------------------------
(* The steps of the scheduler *)

\* The types that the proofs use.
LEMMA ScheduleTypes ==
  ASSUME SchedulesStructure
  PROVE  /\ now \in 1..Horizon /\ now \in Nat
         /\ \A d \in Defs : /\ start[d] \in Nat /\ next[d] \in Nat /\ timer[d] \in Nat
                             /\ under[d] \in 0..1
                             /\ runs[d] \in Seq([due : Nat, asked : SUBSET Keys])
                             /\ Len(runs[d]) \in Nat
                             /\ \A i \in 1..Len(runs[d]) : runs[d][i].due \in Nat
<1>1. now \in 1..Horizon /\ now \in Nat
  BY SchedulesAssumption DEF SchedulesStructure, TypeOKSchedules
<1>2. \A d \in Defs : /\ start[d] \in Nat /\ next[d] \in Nat /\ timer[d] \in Nat
                      /\ under[d] \in Nat
                      /\ runs[d] \in Seq([due : Nat, asked : SUBSET Keys])
  BY DEF SchedulesStructure, TypeOKSchedules
<1>3. \A d \in Defs : under[d] \in 0..1
  BY <1>2 DEF SchedulesStructure, GoesOn
<1>4. ASSUME NEW d \in Defs
      PROVE  Len(runs[d]) \in Nat /\ \A i \in 1..Len(runs[d]) : runs[d][i].due \in Nat
  <2> DEFINE Executed1 == [due : Nat, asked : SUBSET Keys]
  <2>1. \A x \in Executed1 : x.due \in Nat
    OBVIOUS
  <2> HIDE DEF Executed1
  <2>2. runs[d] \in Seq(Executed1)
    BY <1>2 DEF Executed1
  <2>3. Len(runs[d]) \in Nat /\ \A i \in 1..Len(runs[d]) : runs[d][i] \in Executed1
    BY <2>2
  <2> QED BY <2>1, <2>3
<1> QED BY <1>1, <1>2, <1>3, <1>4

\* What a schedule has keeps its place while another one moves, or time passes.
LEMMA OthersKept ==
  ASSUME SchedulesStructure, NEW e \in Defs, Executions(e) /\ Ahead(e), now' \in Nat, now' >= now,
         runs'[e] = runs[e], start'[e] = start[e], next'[e] = next[e],
         timer'[e] \in {timer[e], Never}, under'[e] \in {under[e], 0}
  PROVE  Executions(e)' /\ Ahead(e)'
<1>1. ASSUME NEW t PROVE OnTime(e, t)' <=> OnTime(e, t)
  <2>1. start'[e] = start[e]
    OBVIOUS
  <2>2. CASE e.offset > 0
    BY <2>1, <2>2 DEF OnTime
  <2>3. CASE ~(e.offset > 0)
    BY <2>3 DEF OnTime
  <2> QED BY <2>2, <2>3
<1>2. /\ Len(runs[e]) \in Nat /\ now \in Nat /\ next[e] \in Nat
      /\ \A i \in 1..Len(runs[e]) : runs[e][i].due \in Nat
  BY ScheduleTypes
<1>3. Executions(e)'
  <2> SUFFICES ASSUME NEW i \in 1..Len(runs[e])
               PROVE  /\ OnTime(e, runs[e][i].due)' /\ runs[e][i].due <= now'
                      /\ \A j \in 1..i - 1 : runs[e][j].due < runs[e][i].due
    BY DEF Executions
  <2>1. /\ OnTime(e, runs[e][i].due) /\ runs[e][i].due <= now
        /\ \A j \in 1..i - 1 : runs[e][j].due < runs[e][i].due
    BY DEF Executions
  <2>2. OnTime(e, runs[e][i].due)'
    BY <1>1, <2>1
  <2> QED BY <1>2, <2>1, <2>2
<1>4. Ahead(e)'
  <2>1. OnTime(e, next[e])' <=> OnTime(e, next[e])
    BY <1>1
  <2> QED BY <1>2, <2>1 DEF Ahead, Never
<1> QED BY <1>3, <1>4

\* What doReschedule() does, for a schedule that has a factory.
LEMMA Rescheduled ==
  ASSUME SchedulesStructure, NEW d \in Defs, NEW last \in Nat, Timed(d), Reschedule(d, last)
  PROVE  /\ next' \in [Defs -> Nat] /\ timer' \in [Defs -> Nat]
         /\ timer'[d] > now /\ timer'[d] # Never /\ next'[d] > now
         /\ \A e \in Defs : e # d => next'[e] = next[e] /\ timer'[e] = timer[e]
<1>1. next \in [Defs -> Nat] /\ timer \in [Defs -> Nat] /\ now \in 1..Horizon
  BY ScheduleTypes DEF SchedulesStructure, TypeOKSchedules
<1>2. /\ Upcoming(d, last) \in Nat /\ Upcoming(d, last) > now
      /\ DueAt(Upcoming(d, last)) \in Nat /\ DueAt(Upcoming(d, last)) > now
  BY <1>1, UpcomingLater
<1>3. /\ next' = [next EXCEPT ![d] = Upcoming(d, last)]
      /\ timer' = [timer EXCEPT ![d] = DueAt(Upcoming(d, last))]
  BY DEF Reschedule
<1> QED BY <1>1, <1>2, <1>3 DEF Never

\* Its next time is one of its own, if the last one was.
LEMMA RescheduledOnTime ==
  ASSUME SchedulesStructure, NEW d \in Defs, NEW last \in Nat, Timed(d), Reschedule(d, last),
         Regular(d), start'[d] \in Nat, last <= now + MaxDelay,
         d.offset > 0 => last >= start'[d] /\ (last - start'[d]) % d.offset = 0
  PROVE  timer'[d] = next'[d] /\ (OnTime(d, next[d])' \/ next'[d] = Horizon + 1)
<1>1. next \in [Defs -> Nat] /\ timer \in [Defs -> Nat] /\ now \in 1..Horizon
  BY ScheduleTypes DEF SchedulesStructure, TypeOKSchedules
<1> DEFINE t == Upcoming(d, last)
<1>2. /\ DueAt(t) = t
      /\ IF d.offset > 0 THEN t >= start'[d] /\ (t - start'[d]) % d.offset = 0
         ELSE t \in d.cron \/ t = Horizon + 1
  BY <1>1, UpcomingOnTime
<1>3. next'[d] = t /\ timer'[d] = DueAt(t)
  BY <1>1 DEF Reschedule
<1> HIDE DEF t
<1> QED BY <1>2, <1>3 DEF OnTime

LEMMA TickKeeps ==
  ASSUME SchedulesStructure, Tick
  PROVE  SchedulesStructure'
<1> USE DEF Tick
<1>1. now' \in Nat /\ now' >= now /\ now' >= 1 /\ now' \in 0..Horizon
  BY ScheduleTypes, SchedulesAssumption
<1>2. Kept'
  <2> SUFFICES ASSUME NEW e \in Defs, Regular(e) PROVE Executions(e)' /\ Ahead(e)'
    BY DEF Kept, Regular, Matches
  <2>1. Executions(e) /\ Ahead(e)
    BY DEF SchedulesStructure, Kept
  <2> QED BY <1>1, <2>1, OthersKept
<1> QED
  BY <1>1, <1>2 DEF SchedulesStructure, TypeOKSchedules, Named, Unattached, GoesOn

LEMMA ShutdownTimersKeeps ==
  ASSUME SchedulesStructure, ShutdownTimers
  PROVE  SchedulesStructure'
<1> USE DEF ShutdownTimers
<1>1. \A e \in Defs : timer'[e] \in {timer[e], Never}
  OBVIOUS
<1>2. Kept'
  <2> SUFFICES ASSUME NEW e \in Defs, Regular(e) PROVE Executions(e)' /\ Ahead(e)'
    BY DEF Kept, Regular, Matches
  <2>1. Executions(e) /\ Ahead(e)
    BY DEF SchedulesStructure, Kept
  <2> QED BY <1>1, <2>1, OthersKept, ScheduleTypes
<1>3. timer' \in [Defs -> Nat]
  BY <1>1, ScheduleTypes DEF Never
<1> QED
  BY <1>1, <1>2, <1>3 DEF SchedulesStructure, TypeOKSchedules, Named, Unattached, GoesOn

LEMMA RegisterKeeps ==
  ASSUME SchedulesStructure, NEW d \in Defs, Register(d)
  PROVE  SchedulesStructure'
<1> USE DEF Register, Listed
<1>1. Kept'
  <2> SUFFICES ASSUME NEW e \in Defs, Regular(e) PROVE Executions(e)' /\ Ahead(e)'
    BY DEF Kept, Regular, Matches
  <2>1. Executions(e) /\ Ahead(e)
    BY DEF SchedulesStructure, Kept
  <2> QED BY <2>1, OthersKept, ScheduleTypes
<1>2. call \in [Defs -> {"none", "attaching", "done", "refused"}] /\ schedules \in SUBSET Defs
  BY DEF SchedulesStructure, TypeOKSchedules
<1>3. /\ call' \in [Defs -> {"none", "attaching", "done", "refused"}]
      /\ schedules' \in SUBSET Defs
  BY <1>2
<1>4. Named'
  BY <1>2 DEF SchedulesStructure, Named
<1>5. Unattached' /\ GoesOn'
  BY <1>2 DEF SchedulesStructure, Unattached, GoesOn
<1> QED
  BY <1>1, <1>3, <1>4, <1>5 DEF SchedulesStructure, TypeOKSchedules

LEMMA AttachedKeeps ==
  ASSUME SchedulesStructure, NEW d \in Defs, Attached(d)
  PROVE  SchedulesStructure'
<1> DEFINE begins == IF d.startup THEN now + Minute ELSE d.start
<1>1. /\ call[d] = "attaching" /\ call' = [call EXCEPT ![d] = "done"]
      /\ schedules' = schedules \cup {d}
      /\ start' = [start EXCEPT ![d] = begins] /\ options' = [options EXCEPT ![d] = OptionsOf(d)]
      /\ Reschedule(d, begins)
      /\ UNCHANGED <<now, under, runs, failed, stopped>>
  BY DEF Attached
<1>2. begins \in Nat
  BY DefinitionTypes, ScheduleTypes, SchedulesAssumption
<1>3. /\ call \in [Defs -> {"none", "attaching", "done", "refused"}] /\ schedules \in SUBSET Defs
      /\ start \in [Defs -> Nat] /\ options \in [Defs -> SUBSET Keys]
      /\ next \in [Defs -> Nat] /\ timer \in [Defs -> Nat]
  BY DEF SchedulesStructure, TypeOKSchedules
<1>4. d \in schedules /\ under[d] = 0 /\ timer[d] = Never /\ runs[d] = <<>>
  BY <1>1 DEF SchedulesStructure, Named, Unattached
<1>5. /\ start'[d] = begins
      /\ \A e \in Defs : e # d => start'[e] = start[e] /\ call'[e] = call[e]
  BY <1>1, <1>3
<1>6. /\ next' \in [Defs -> Nat] /\ timer' \in [Defs -> Nat]
      /\ Timed(d) => timer'[d] # Never
      /\ ~Timed(d) => timer'[d] = Never
      /\ \A e \in Defs : e # d => next'[e] = next[e] /\ timer'[e] = timer[e]
  <2>1. CASE Timed(d)
    BY <1>1, <1>2, <2>1, Rescheduled
  <2>2. CASE ~Timed(d)
    BY <1>1, <1>3, <1>4, <2>2 DEF Reschedule
  <2> QED BY <2>1, <2>2
<1>7. TypeOKSchedules'
  <2>1. /\ call' \in [Defs -> {"none", "attaching", "done", "refused"}]
        /\ schedules' \in SUBSET Defs
    BY <1>1, <1>3
  <2>2. start' \in [Defs -> Nat]
    BY <1>1, <1>2, <1>3
  <2>3. options' \in [Defs -> SUBSET Keys]
    BY <1>1, <1>3, DefinitionTypes
  <2> QED BY <1>1, <1>6, <2>1, <2>2, <2>3 DEF SchedulesStructure, TypeOKSchedules
<1>8. Named'
  BY <1>1, <1>3, <1>4 DEF SchedulesStructure, Named
<1>9. Unattached'
  <2> SUFFICES ASSUME NEW e \in Defs
               PROVE  /\ call'[e] # "done" => timer'[e] = Never /\ under'[e] = 0 /\ runs'[e] = <<>>
                      /\ ~Timed(e) => timer'[e] = Never /\ under'[e] = 0
    BY DEF Unattached, Timed
  <2>1. CASE e = d
    BY <1>1, <1>3, <1>4, <1>6, <2>1
  <2>2. CASE e # d
    BY <1>1, <1>5, <1>6, <2>2 DEF SchedulesStructure, Unattached
  <2> QED BY <2>1, <2>2
<1>11. GoesOn'
  <2> SUFFICES ASSUME NEW e \in Defs
               PROVE  /\ under'[e] <= 1 /\ (under'[e] = 1 => timer'[e] = Never)
                      /\ call'[e] = "done" /\ Timed(e) /\ ~stopped' /\ e \notin failed' =>
                           under'[e] = 1 \/ timer'[e] # Never
    BY DEF GoesOn, Timed
  <2>1. CASE e = d
    BY <1>1, <1>4, <1>6, <2>1
  <2>2. CASE e # d
    BY <1>1, <1>5, <1>6, <2>2 DEF SchedulesStructure, GoesOn
  <2> QED BY <2>1, <2>2
<1>10. Kept'
  <2> SUFFICES ASSUME NEW e \in Defs, Regular(e) PROVE Executions(e)' /\ Ahead(e)'
    BY DEF Kept, Regular, Matches
  <2>1. CASE e # d
    <3>1. Executions(e) /\ Ahead(e)
      BY DEF SchedulesStructure, Kept
    <3> QED BY <1>1, <1>5, <1>6, <2>1, <3>1, OthersKept, ScheduleTypes
  <2>2. CASE e = d
    <3>1. Executions(d)'
      BY <1>1, <1>4 DEF Executions
    <3>2. under'[d] = 0 /\ runs'[d] = <<>>
      BY <1>1, <1>4
    <3>3. ASSUME timer'[d] # Never
          PROVE  timer'[d] = next'[d] /\ (OnTime(d, next[d])' \/ next'[d] = Horizon + 1)
      <4>1. Timed(d)
        BY <1>6, <3>3
      <4>2. begins <= now + MaxDelay
        BY <2>2, ScheduleTypes, SchedulesAssumption, DefinitionTypes DEF Regular
      <4>3. d.offset > 0 => begins >= start'[d] /\ (begins - start'[d]) % d.offset = 0
        <5> SUFFICES ASSUME d.offset > 0
                     PROVE  begins >= start'[d] /\ (begins - start'[d]) % d.offset = 0
          OBVIOUS
        <5>1. begins - start'[d] = 0 /\ begins >= start'[d]
          BY <1>2, <1>5
        <5>2. d.offset \in Nat \ {0}
          BY DefinitionTypes
        <5>3. 0 % d.offset = 0
          BY <5>2
        <5> QED BY <5>1, <5>3
      <4> HIDE DEF begins
      <4> QED BY <1>1, <1>2, <1>5, <2>2, <4>1, <4>2, <4>3, RescheduledOnTime
    <3> QED BY <2>2, <3>1, <3>2, <3>3 DEF Ahead
  <2> QED BY <2>1, <2>2
<1> QED BY <1>1, <1>7, <1>8, <1>9, <1>10, <1>11, ScheduleTypes DEF SchedulesStructure

\* A schedule that fires has been attached and is not being executed.
LEMMA Firing ==
  ASSUME SchedulesStructure, NEW d \in Defs, Fire(d)
  PROVE  /\ call[d] = "done" /\ Timed(d) /\ under[d] = 0
         /\ runs' = [runs EXCEPT ![d] = Append(@, [due |-> next[d], asked |-> options[d]])]
         /\ runs' \in [Defs -> Seq([due : Nat, asked : SUBSET Keys])]
         /\ Len(runs'[d]) = Len(runs[d]) + 1
         /\ \A i \in 1..Len(runs[d]) : runs'[d][i].due = runs[d][i].due
         /\ runs'[d][Len(runs[d]) + 1].due = next[d]
         /\ \A e \in Defs : e # d => runs'[e] = runs[e]
<1> DEFINE Entries == [due : Nat, asked : SUBSET Keys]
           entry == [due |-> next[d], asked |-> options[d]]
<1>1. timer[d] # Never /\ runs' = [runs EXCEPT ![d] = Append(@, entry)]
  BY DEF Fire
<1>2. call[d] = "done" /\ Timed(d) /\ under[d] = 0
  BY <1>1, ScheduleTypes DEF SchedulesStructure, Unattached, GoesOn
<1>3. /\ runs \in [Defs -> Seq(Entries)] /\ next[d] \in Nat /\ options[d] \in SUBSET Keys
  BY DEF SchedulesStructure, TypeOKSchedules
<1>4. entry \in Entries /\ entry.due = next[d] /\ runs[d] \in Seq(Entries)
  BY <1>3
<1> HIDE DEF Entries, entry
<1>5. /\ Append(runs[d], entry) \in Seq(Entries) /\ Len(Append(runs[d], entry)) = Len(runs[d]) + 1
      /\ \A i \in 1..Len(runs[d]) : Append(runs[d], entry)[i] = runs[d][i]
      /\ Append(runs[d], entry)[Len(runs[d]) + 1] = entry
  BY <1>4, AppendProperties
<1>6. /\ runs'[d] = Append(runs[d], entry) /\ runs' \in [Defs -> Seq(Entries)]
      /\ \A e \in Defs : e # d => runs'[e] = runs[e]
  BY <1>1, <1>3, <1>5
<1> QED BY <1>1, <1>2, <1>4, <1>5, <1>6 DEF Entries, entry

\* What doReschedule() finds at the end of an execution: a last time that has come.
LEMMA RenewedAhead ==
  ASSUME SchedulesStructure, NEW d \in Defs, Timed(d), Renewed(d), Regular(d),
         UNCHANGED <<now, start>>, next[d] <= now, OnTime(d, next[d])
  PROVE  timer'[d] = next'[d] /\ (OnTime(d, next[d])' \/ next'[d] = Horizon + 1)
<1>1. next[d] \in Nat /\ start'[d] \in Nat /\ next[d] <= now + MaxDelay
  BY ScheduleTypes, SchedulesAssumption
<1>2. d.offset > 0 => next[d] >= start'[d] /\ (next[d] - start'[d]) % d.offset = 0
  BY DEF OnTime
<1> QED BY <1>1, <1>2, RescheduledOnTime DEF Renewed

LEMMA FireKeeps ==
  ASSUME SchedulesStructure, NEW d \in Defs, Fire(d)
  PROVE  SchedulesStructure'
<1>1. /\ call[d] = "done" /\ Timed(d) /\ under[d] = 0
      /\ timer[d] # Never /\ timer[d] <= now
      /\ UNCHANGED <<now, call, schedules, start, failed, stopped>>
      /\ options' = IF d.does = "task" THEN [options EXCEPT ![d] = {}] ELSE options
  BY Firing DEF Fire
<1>2. next \in [Defs -> Nat] /\ timer \in [Defs -> Nat] /\ under \in [Defs -> Nat]
  BY DEF SchedulesStructure, TypeOKSchedules
<1>3. /\ next' \in [Defs -> Nat] /\ timer' \in [Defs -> Nat] /\ under' \in [Defs -> Nat]
      /\ \/ timer'[d] # Never /\ next'[d] > now /\ under'[d] = 0 /\ Renewed(d)
         \/ timer'[d] = Never /\ next'[d] = next[d] /\ under'[d] = 1
      /\ \A e \in Defs : e # d => /\ next'[e] = next[e] /\ timer'[e] = timer[e]
                                /\ under'[e] = under[e]
  <2>1. CASE d.does = "nothing"
    <3>1. Renewed(d) /\ under' = under
      BY <2>1 DEF Fire
    <3>2. next[d] \in Nat
      BY <1>2
    <3> QED BY <1>1, <1>2, <3>1, <3>2, Rescheduled DEF Renewed
  <2>2. CASE d.does # "nothing"
    <3>1. /\ timer' = [timer EXCEPT ![d] = Never] /\ under' = [under EXCEPT ![d] = @ + 1]
          /\ next' = next
      BY <2>2 DEF Fire
    <3> QED BY <1>1, <1>2, <3>1 DEF Never
  <2> QED BY <2>1, <2>2
<1>4. TypeOKSchedules'
  <2>1. options' \in [Defs -> SUBSET Keys]
    BY <1>1 DEF SchedulesStructure, TypeOKSchedules
  <2> QED BY <1>1, <1>3, <2>1, Firing DEF SchedulesStructure, TypeOKSchedules
<1>5. Named'
  BY <1>1 DEF SchedulesStructure, Named
<1>6. Unattached'
  <2> SUFFICES ASSUME NEW e \in Defs
               PROVE  /\ call'[e] # "done" => timer'[e] = Never /\ under'[e] = 0 /\ runs'[e] = <<>>
                      /\ ~Timed(e) => timer'[e] = Never /\ under'[e] = 0
    BY DEF Unattached, Timed
  <2>1. CASE e = d
    BY <1>1, <2>1
  <2>2. CASE e # d
    BY <1>1, <1>3, <2>2, Firing, ZenonT(30) DEF SchedulesStructure, Unattached
  <2> QED BY <2>1, <2>2
<1>7. GoesOn'
  <2> SUFFICES ASSUME NEW e \in Defs
               PROVE  /\ under'[e] <= 1 /\ (under'[e] = 1 => timer'[e] = Never)
                      /\ call'[e] = "done" /\ Timed(e) /\ ~stopped' /\ e \notin failed' =>
                           under'[e] = 1 \/ timer'[e] # Never
    BY DEF GoesOn, Timed
  <2>1. CASE e = d
    BY <1>3, <2>1
  <2>2. CASE e # d
    BY <1>1, <1>3, <2>2 DEF SchedulesStructure, GoesOn
  <2> QED BY <2>1, <2>2
<1>8. Kept'
  <2> SUFFICES ASSUME NEW e \in Defs, Regular(e) PROVE Executions(e)' /\ Ahead(e)'
    BY DEF Kept, Regular, Matches
  <2>1. Executions(e) /\ Ahead(e)
    BY DEF SchedulesStructure, Kept
  <2>2. CASE e # d
    <3>1. /\ runs'[e] = runs[e] /\ start'[e] = start[e] /\ next'[e] = next[e]
          /\ timer'[e] = timer[e] /\ under'[e] = under[e] /\ now' = now /\ now \in Nat
      BY <1>1, <1>3, <2>2, Firing, ScheduleTypes
    <3> QED BY <2>1, <3>1, OthersKept
  <2>3. CASE e = d
    <3> DEFINE n == Len(runs[d])
    <3>1. /\ now \in 1..Horizon /\ next[d] \in Nat /\ n \in Nat
          /\ \A i \in 1..n : runs[d][i].due \in Nat
      BY ScheduleTypes
    <3>2. next[d] <= now /\ OnTime(d, next[d]) /\ \A i \in 1..n : runs[d][i].due < next[d]
      <4>1. timer[d] # Never /\ timer[d] <= now
        BY <1>1
      <4>2. /\ timer[d] = next[d] /\ (OnTime(d, next[d]) \/ next[d] = Horizon + 1)
            /\ \A i \in 1..n : runs[d][i].due < next[d]
        BY <2>1, <2>3, <4>1 DEF Ahead
      <4> QED BY <3>1, <4>1, <4>2, SchedulesAssumption
    <3>3. /\ Len(runs'[d]) = n + 1 /\ runs'[d][n + 1].due = next[d]
          /\ \A i \in 1..n : runs'[d][i].due = runs[d][i].due
      BY Firing
    <3>4. ASSUME NEW t PROVE OnTime(d, t)' <=> OnTime(d, t)
      <4>1. start'[d] = start[d]
        BY <1>1
      <4>2. CASE d.offset > 0
        BY <4>1, <4>2 DEF OnTime
      <4>3. CASE ~(d.offset > 0)
        BY <4>3 DEF OnTime
      <4> QED BY <4>2, <4>3
    <3>5. Executions(d)'
      <4> SUFFICES ASSUME NEW i \in 1..n + 1
                   PROVE  /\ OnTime(d, runs[d][i].due)' /\ runs'[d][i].due <= now'
                          /\ \A j \in 1..i - 1 : runs'[d][j].due < runs'[d][i].due
        BY <3>3 DEF Executions
      <4>1. CASE i = n + 1
        BY <1>1, <3>1, <3>2, <3>3, <3>4, <4>1
      <4>2. CASE i \in 1..n
        <5>1. /\ OnTime(d, runs[d][i].due) /\ runs[d][i].due <= now
              /\ \A j \in 1..i - 1 : runs[d][j].due < runs[d][i].due
          BY <2>1, <2>3, <4>2 DEF Executions
        <5>2. OnTime(d, runs[d][i].due)'
          BY <3>1, <3>3, <3>4, <4>2, <5>1
        <5>3. runs'[d][i].due <= now'
          BY <1>1, <3>3, <4>2, <5>1
        <5>4. \A j \in 1..i - 1 : j \in 1..n
          BY <3>1, <4>2
        <5>5. \A j \in 1..i - 1 : runs'[d][j].due < runs'[d][i].due
          BY <3>3, <4>2, <5>1, <5>4
        <5> QED BY <5>2, <5>3, <5>5
      <4> QED BY <3>1, <4>1, <4>2
    <3>6. ASSUME NEW i \in 1..n + 1
          PROVE  runs'[d][i].due <= next[d] /\ runs'[d][i].due \in Nat
      <4>1. CASE i = n + 1
        BY <3>1, <3>3, <4>1
      <4>2. CASE i \in 1..n
        BY <3>1, <3>2, <3>3, <4>2, SMTT(20)
      <4> QED BY <3>1, <4>1, <4>2
    <3>7. Ahead(d)'
      <4>1. CASE timer'[d] # Never /\ next'[d] > now /\ under'[d] = 0 /\ Renewed(d)
        <5>1. timer'[d] = next'[d] /\ (OnTime(d, next[d])' \/ next'[d] = Horizon + 1)
          BY <1>1, <2>3, <3>2, <4>1, RenewedAhead
        <5>2. \A i \in 1..n + 1 : runs'[d][i].due < next'[d]
          BY <1>3, <3>1, <3>2, <3>6, <4>1
        <5> QED BY <3>3, <4>1, <5>1, <5>2 DEF Ahead
      <4>2. CASE timer'[d] = Never /\ next'[d] = next[d] /\ under'[d] = 1
        <5>1. next'[d] <= now' /\ OnTime(d, next[d])'
          BY <1>1, <3>2, <3>4, <4>2
        <5>2. \A i \in 1..Len(runs'[d]) : runs'[d][i].due <= next'[d]
          BY <3>3, <3>6, <4>2
        <5> QED BY <4>2, <5>1, <5>2 DEF Ahead
      <4> QED BY <1>3, <4>1, <4>2
    <3> QED BY <2>3, <3>5, <3>7
  <2> QED BY <2>2, <2>3
<1> QED BY <1>1, <1>4, <1>5, <1>6, <1>7, <1>8 DEF SchedulesStructure

LEMMA ExecutedKeeps ==
  ASSUME SchedulesStructure, NEW d \in Defs, Executed(d) \/ Rejected(d)
  PROVE  SchedulesStructure'
<1>1. /\ under[d] = 1 /\ timer[d] = Never /\ Timed(d) /\ call[d] = "done"
      /\ UNCHANGED <<now, call, schedules, start, options, runs, stopped>>
      /\ failed \subseteq failed' /\ failed' \subseteq Defs
  BY ScheduleTypes DEF SchedulesStructure, TypeOKSchedules, Unattached, GoesOn, Executed, Rejected
<1>2. next \in [Defs -> Nat] /\ timer \in [Defs -> Nat] /\ under \in [Defs -> Nat]
  BY DEF SchedulesStructure, TypeOKSchedules
<1>3. /\ under' \in [Defs -> Nat] /\ under'[d] = 0
      /\ \A e \in Defs : e # d => under'[e] = under[e]
  <2>1. under' = [under EXCEPT ![d] = @ - 1]
    BY DEF Executed, Rejected
  <2> QED BY <1>1, <1>2, <2>1
<1>4. /\ next' \in [Defs -> Nat] /\ timer' \in [Defs -> Nat]
      /\ \/ timer'[d] # Never /\ next'[d] > now /\ Renewed(d)
         \/ timer'[d] = Never /\ d \in failed'
      /\ \A e \in Defs : e # d => next'[e] = next[e] /\ timer'[e] = timer[e]
  <2>1. CASE Executed(d)
    <3>1. Renewed(d) /\ next[d] \in Nat
      BY <1>2, <2>1 DEF Executed
    <3> QED BY <1>1, <3>1, Rescheduled DEF Renewed
  <2>2. CASE Rejected(d)
    BY <1>1, <1>2, <2>2 DEF Rejected
  <2> QED BY <2>1, <2>2
<1>5. TypeOKSchedules'
  BY <1>1, <1>3, <1>4 DEF SchedulesStructure, TypeOKSchedules
<1>6. Named'
  BY <1>1 DEF SchedulesStructure, Named
<1>7. Unattached'
  <2> SUFFICES ASSUME NEW e \in Defs
               PROVE  /\ call'[e] # "done" => timer'[e] = Never /\ under'[e] = 0 /\ runs'[e] = <<>>
                      /\ ~Timed(e) => timer'[e] = Never /\ under'[e] = 0
    BY DEF Unattached, Timed
  <2>1. CASE e = d
    BY <1>1, <2>1
  <2>2. CASE e # d
    BY <1>1, <1>3, <1>4, <2>2 DEF SchedulesStructure, Unattached
  <2> QED BY <2>1, <2>2
<1>8. GoesOn'
  <2> SUFFICES ASSUME NEW e \in Defs
               PROVE  /\ under'[e] <= 1 /\ (under'[e] = 1 => timer'[e] = Never)
                      /\ call'[e] = "done" /\ Timed(e) /\ ~stopped' /\ e \notin failed' =>
                           under'[e] = 1 \/ timer'[e] # Never
    BY DEF GoesOn, Timed
  <2>1. CASE e = d
    BY <1>3, <1>4, <2>1
  <2>2. CASE e # d
    BY <1>1, <1>3, <1>4, <2>2 DEF SchedulesStructure, GoesOn
  <2> QED BY <2>1, <2>2
<1>9. Kept'
  <2> SUFFICES ASSUME NEW e \in Defs, Regular(e) PROVE Executions(e)' /\ Ahead(e)'
    BY DEF Kept, Regular, Matches
  <2>1. Executions(e) /\ Ahead(e)
    BY DEF SchedulesStructure, Kept
  <2>2. CASE e # d
    BY <1>1, <1>3, <1>4, <2>1, <2>2, OthersKept, ScheduleTypes
  <2>3. CASE e = d
    <3>1. /\ now \in 1..Horizon /\ next[d] \in Nat
          /\ \A i \in 1..Len(runs[d]) : runs[d][i].due \in Nat
      BY ScheduleTypes
    <3>2. next[d] <= now /\ OnTime(d, next[d]) /\ \A i \in 1..Len(runs[d]) : runs[d][i].due <= next[d]
      BY <1>1, <2>1, <2>3 DEF Ahead
    <3>3. ASSUME NEW t PROVE OnTime(d, t)' <=> OnTime(d, t)
      <4>1. start'[d] = start[d]
        BY <1>1
      <4>2. CASE d.offset > 0
        BY <4>1, <4>2 DEF OnTime
      <4>3. CASE ~(d.offset > 0)
        BY <4>3 DEF OnTime
      <4> QED BY <4>2, <4>3
    <3>4. Executions(d)'
      BY <1>1, <2>1, <2>3, <3>3 DEF Executions
    <3>5. Ahead(d)'
      <4>1. CASE timer'[d] # Never /\ next'[d] > now /\ Renewed(d)
        <5>1. timer'[d] = next'[d] /\ (OnTime(d, next[d])' \/ next'[d] = Horizon + 1)
          BY <1>1, <2>3, <3>2, <4>1, RenewedAhead
        <5>2. \A i \in 1..Len(runs[d]) : runs[d][i].due < next'[d]
          BY <1>4, <3>1, <3>2, <4>1
        <5> QED BY <1>1, <1>3, <5>1, <5>2 DEF Ahead
      <4>2. CASE timer'[d] = Never
        BY <1>3, <4>2 DEF Ahead
      <4> QED BY <1>4, <4>1, <4>2
    <3> QED BY <2>3, <3>4, <3>5
  <2> QED BY <2>2, <2>3
<1> QED BY <1>1, <1>5, <1>6, <1>7, <1>8, <1>9 DEF SchedulesStructure

LEMMA StepSchedulesStructure ==
  SchedulesStructure /\ [NextSchedules]_scheduleVars => SchedulesStructure'
<1> SUFFICES ASSUME SchedulesStructure, [NextSchedules]_scheduleVars PROVE SchedulesStructure'
  OBVIOUS
<1>1. CASE UNCHANGED scheduleVars
  <2>1. Kept'
    <3> SUFFICES ASSUME NEW e \in Defs, Regular(e) PROVE Executions(e)' /\ Ahead(e)'
      BY DEF Kept, Regular, Matches
    <3>1. Executions(e) /\ Ahead(e)
      BY DEF SchedulesStructure, Kept
    <3>2. /\ runs'[e] = runs[e] /\ start'[e] = start[e] /\ next'[e] = next[e]
          /\ timer'[e] = timer[e] /\ under'[e] = under[e] /\ now' = now /\ now \in Nat
      BY <1>1, ScheduleTypes DEF scheduleVars
    <3> QED BY <3>1, <3>2, OthersKept
  <2> QED
    BY <1>1, <2>1 DEF scheduleVars, SchedulesStructure, TypeOKSchedules, Named, Unattached, GoesOn
<1> QED
  BY <1>1, TickKeeps, ShutdownTimersKeeps, RegisterKeeps, AttachedKeeps, FireKeeps, ExecutedKeeps
     DEF NextSchedules

\* Every variable of the scheduler keeps its type, and time stays within its bound.
THEOREM SchedulesTypeCorrect == SpecSchedules => []TypeOKSchedules
<1>1. SchedulesStructure => TypeOKSchedules
  BY DEF SchedulesStructure
<1> QED BY <1>1, InitSchedulesStructure, StepSchedulesStructure, PTL DEF SpecSchedules

\* However many definitions share a name and whenever they are registered (Scheduler.ts:60),
\* however late timers fire and however long executions take (Schedule.ts:31, 37): one schedule
\* of a name, executed at its own times only, at none twice, by one call at a time, and on and on.
THEOREM AlwaysSchedulesKeepTime == SpecSchedules => []SchedulesKeepTime
<1>1. SchedulesStructure => OneOfAName
  BY DEF SchedulesStructure, TypeOKSchedules, Named, OneOfAName
<1>2. SchedulesStructure => EachTimeOnce
  BY DEF SchedulesStructure, Kept, Executions, EachTimeOnce
<1>3. SchedulesStructure => SchedulesKeepTime
  BY <1>1, <1>2 DEF SchedulesStructure, SchedulesKeepTime
<1> QED BY <1>3, InitSchedulesStructure, StepSchedulesStructure, PTL DEF SpecSchedules

-----------------------------------------------------------------------------
(*****************************************************************************)
(* Lifecycle                                                                 *)
(*****************************************************************************)

\* What two sequences of names have together.
LEMMA BothOf ==
  ASSUME NEW S, NEW s \in Seq(S), NEW t \in Seq(S)
  PROVE  /\ s \o t \in Seq(S) /\ Len(s \o t) = Len(s) + Len(t)
         /\ Range(s \o t) = Range(s) \cup Range(t)
         /\ IsInjective(s) /\ IsInjective(t) /\ Range(s) \cap Range(t) = {} => IsInjective(s \o t)
<1>1. /\ s \o t \in Seq(S) /\ Len(s \o t) = Len(s) + Len(t)
      /\ \A i \in 1..Len(s) + Len(t) : (s \o t)[i] = IF i <= Len(s) THEN s[i] ELSE t[i - Len(s)]
  BY ConcatProperties
<1>2. Range(s \o t) = Range(s) \cup Range(t)
  BY RangeConcatenation
<1>3. ASSUME IsInjective(s), IsInjective(t), Range(s) \cap Range(t) = {} PROVE IsInjective(s \o t)
  <2>1. /\ DOMAIN (s \o t) = 1..Len(s) + Len(t) /\ DOMAIN s = 1..Len(s) /\ DOMAIN t = 1..Len(t)
        /\ Len(s) \in Nat /\ Len(t) \in Nat
    BY <1>1
  <2> SUFFICES ASSUME NEW i \in 1..Len(s) + Len(t), NEW j \in 1..Len(s) + Len(t),
                      (s \o t)[i] = (s \o t)[j]
               PROVE  i = j
    BY <2>1 DEF IsInjective
  <2>2. ASSUME NEW a \in 1..Len(s), NEW b \in 1..Len(t) PROVE s[a] # t[b]
    BY <1>3, <2>1 DEF Range
  <2>3. CASE i <= Len(s) /\ j <= Len(s)
    BY <1>1, <1>3, <2>1, <2>3 DEF IsInjective
  <2>4. CASE i > Len(s) /\ j > Len(s)
    <3>1. i - Len(s) \in DOMAIN t /\ j - Len(s) \in DOMAIN t
      BY <2>1, <2>4
    <3>2. t[i - Len(s)] = t[j - Len(s)]
      BY <1>1, <2>1, <2>4
    <3>3. i - Len(s) = j - Len(s)
      BY <1>3, <3>1, <3>2 DEF IsInjective
    <3> QED BY <2>1, <3>3
  <2>5. CASE i <= Len(s) /\ j > Len(s)
    <3>1. i \in 1..Len(s) /\ j - Len(s) \in 1..Len(t)
      BY <2>1, <2>5
    <3> QED BY <1>1, <2>1, <2>2, <2>5, <3>1
  <2>6. CASE i > Len(s) /\ j <= Len(s)
    <3>1. j \in 1..Len(s) /\ i - Len(s) \in 1..Len(t)
      BY <2>1, <2>6
    <3> QED BY <1>1, <2>1, <2>2, <2>6, <3>1
  <2> QED BY <2>1, <2>3, <2>4, <2>5, <2>6
<1> QED BY <1>1, <1>2, <1>3

\* A part of a sequence of names.
LEMMA PartOf ==
  ASSUME NEW S, NEW s \in Seq(S), NEW m \in Nat, NEW n \in Nat, 1 <= m, n <= Len(s)
  PROVE  /\ SubSeq(s, m, n) \in Seq(S) /\ Range(SubSeq(s, m, n)) = {s[i] : i \in m..n}
         /\ IsInjective(s) => IsInjective(SubSeq(s, m, n))
<1> DEFINE t == SubSeq(s, m, n)
<1>1. Len(s) \in Nat /\ DOMAIN s = 1..Len(s) /\ \A i \in m..n : i \in 1..Len(s) /\ s[i] \in S
  OBVIOUS
<1>2. /\ t \in Seq(S) /\ Len(t) = IF m <= n THEN n - m + 1 ELSE 0
      /\ \A i \in 1..n - m + 1 : t[i] = s[m + i - 1]
  BY <1>1, SubSeqProperties
<1>3. DOMAIN t = 1..n - m + 1
  BY <1>1, <1>2
<1> HIDE DEF t
<1>4. Range(t) = {s[i] : i \in m..n}
  <2>1. ASSUME NEW x \in Range(t) PROVE x \in {s[i] : i \in m..n}
    <3>1. PICK i \in 1..n - m + 1 : x = t[i]
      BY <1>3 DEF Range
    <3>2. m + i - 1 \in m..n /\ x = s[m + i - 1]
      BY <1>2, <3>1
    <3> QED BY <3>2
  <2>2. ASSUME NEW i \in m..n PROVE s[i] \in Range(t)
    <3>1. i - m + 1 \in 1..n - m + 1 /\ m + (i - m + 1) - 1 = i
      OBVIOUS
    <3>2. t[i - m + 1] = s[i]
      BY <1>2, <3>1
    <3> QED BY <1>3, <3>1, <3>2 DEF Range
  <2> QED BY <2>1, <2>2
<1>5. ASSUME IsInjective(s) PROVE IsInjective(t)
  <2> SUFFICES ASSUME NEW i \in 1..n - m + 1, NEW j \in 1..n - m + 1, t[i] = t[j] PROVE i = j
    BY <1>3 DEF IsInjective
  <2>1. m + i - 1 \in DOMAIN s /\ m + j - 1 \in DOMAIN s /\ s[m + i - 1] = s[m + j - 1]
    BY <1>1, <1>2
  <2>2. m + i - 1 = m + j - 1
    BY <1>5, <2>1 DEF IsInjective
  <2> QED BY <2>2
<1> QED BY <1>2, <1>4, <1>5 DEF t

\* The parts of the process have names of their own.
Names == OwnParts \cup Range(Storages) \cup Range(Modules) \cup Range(WorkerClasses)

LEMMA NamesApart ==
  /\ Storages \in Seq(Names) /\ WorkerClasses \in Seq(Names) /\ IsInjective(WorkerClasses)
  /\ Modules \in Seq(Names)
  /\ \A name \in OwnParts :
       name \notin Range(Storages) \cup Range(Modules) \cup Range(WorkerClasses)
  /\ Range(Storages) \cap (Range(Modules) \cup Range(WorkerClasses)) = {}
  /\ Range(Modules) \cap Range(WorkerClasses) = {}
<1>1. ASSUME NEW names \in {Storages, Modules, WorkerClasses} PROVE names \in Seq(Names)
  <2>1. names \in Seq(STRING)
    BY LifecycleAssumption
  <2>2. names \in Seq(Range(names))
    BY <2>1, SeqOfRange
  <2>3. Range(names) \subseteq Names
    BY DEF Names
  <2> QED BY <2>2, <2>3, SeqMonotonic
<1> QED BY <1>1, LifecycleAssumption

\* The steps of all modules: those of this package, and one of each other module.
LEMMA StepsOfModules ==
  ASSUME NEW own \in Seq(Names)
  PROVE  /\ OfModules(own) \in Seq(Names)
         /\ Range(OfModules(own)) = Range(own) \cup (Range(Modules) \ {Base})
         /\ IsInjective(own) /\ Range(own) \cap Range(Modules) = {} => IsInjective(OfModules(own))
<1> DEFINE b == CHOOSE i \in DOMAIN Modules : Modules[i] = Base
           before == SubSeq(Modules, 1, b - 1)
           behind == SubSeq(Modules, b + 1, Len(Modules))
<1>1. /\ Modules \in Seq(Names) /\ IsInjective(Modules) /\ Base \in Range(Modules)
      /\ Len(Modules) \in Nat /\ DOMAIN Modules = 1..Len(Modules)
  BY NamesApart, LifecycleAssumption
<1>2. b \in 1..Len(Modules) /\ Modules[b] = Base
  BY <1>1 DEF Range
<1> HIDE DEF b
<1>3. /\ before \in Seq(Names) /\ IsInjective(before) /\ Range(before) = {Modules[i] : i \in 1..b - 1}
      /\ behind \in Seq(Names) /\ IsInjective(behind)
      /\ Range(behind) = {Modules[i] : i \in b + 1..Len(Modules)}
  BY <1>1, <1>2, PartOf
<1>4. OfModules(own) = (before \o own) \o behind
  BY DEF OfModules, b
<1> HIDE DEF before, behind
<1>5. \A i, j \in 1..Len(Modules) : Modules[i] = Modules[j] => i = j
  BY <1>1 DEF IsInjective
<1>6. Range(before) \cup Range(behind) = Range(Modules) \ {Base}
  <2>1. ASSUME NEW x \in Range(before) \cup Range(behind) PROVE x \in Range(Modules) \ {Base}
    <3>1. PICK i \in 1..Len(Modules) : i # b /\ x = Modules[i]
      BY <1>2, <1>3
    <3> QED BY <1>1, <1>2, <1>5, <3>1 DEF Range
  <2>2. ASSUME NEW x \in Range(Modules) \ {Base} PROVE x \in Range(before) \cup Range(behind)
    <3>1. PICK i \in 1..Len(Modules) : x = Modules[i]
      BY <1>1 DEF Range
    <3>2. i # b
      BY <1>2, <3>1
    <3> QED BY <1>2, <1>3, <3>1, <3>2
  <2> QED BY <2>1, <2>2
<1>7. Range(before) \cap Range(behind) = {}
  <2> SUFFICES ASSUME NEW i \in 1..b - 1, NEW j \in b + 1..Len(Modules), Modules[i] = Modules[j]
               PROVE  FALSE
    BY <1>3
  <2> QED BY <1>2, <1>5
<1>8. before \o own \in Seq(Names) /\ Range(before \o own) = Range(before) \cup Range(own)
  BY <1>3, BothOf
<1>9. ASSUME IsInjective(own), Range(own) \cap Range(Modules) = {} PROVE IsInjective(OfModules(own))
  <2>1. IsInjective(before \o own)
    <3>1. Range(before) \cap Range(own) = {}
      BY <1>6, <1>9
    <3> QED BY <1>3, <1>9, <3>1, BothOf
  <2>2. Range(before \o own) \cap Range(behind) = {}
    BY <1>6, <1>7, <1>8, <1>9
  <2> DEFINE first == before \o own
  <2>3. first \in Seq(Names) /\ IsInjective(first) /\ Range(first) \cap Range(behind) = {}
    BY <1>8, <2>1, <2>2
  <2> HIDE DEF first
  <2>4. IsInjective(first \o behind)
    BY <1>3, <2>3, BothOf
  <2> QED BY <1>4, <2>4 DEF first
<1>10. /\ OfModules(own) \in Seq(Names)
       /\ Range(OfModules(own)) = Range(before \o own) \cup Range(behind)
  <2> DEFINE first == before \o own
  <2>1. first \in Seq(Names) /\ behind \in Seq(Names)
    BY <1>3, <1>8
  <2> HIDE DEF first
  <2>2. first \o behind \in Seq(Names) /\ Range(first \o behind) = Range(first) \cup Range(behind)
    BY <2>1, BothOf
  <2> QED BY <1>4, <2>2 DEF first
<1>11. Range(OfModules(own)) = Range(own) \cup (Range(Modules) \ {Base})
  BY <1>6, <1>8, <1>10
<1> QED BY <1>9, <1>10, <1>11

\* The sequences of the package's own parts.
LEMMA OwnSequences ==
  LET sixOfBase == <<"runners", "entry", "cache", "node", "bus", "tasks">>
  IN  /\ sixOfBase \in Seq(Names) /\ IsInjective(sixOfBase)
      /\ Range(sixOfBase) = {"runners", "entry", "cache", "node", "bus", "tasks"}
      /\ \A x \in OwnParts : <<x>> \in Seq(Names) /\ IsInjective(<<x>>) /\ Range(<<x>>) = {x}
      /\ \A x, y \in OwnParts :
           /\ <<x, y>> \in Seq(Names) /\ Range(<<x, y>>) = {x, y}
           /\ x # y => IsInjective(<<x, y>>)
      /\ BootstrapOfBase \in Seq(Names)
      /\ Range(BootstrapOfBase) = {"bus", "runners", "cache", "entry", "exchange", "watchers"}
<1> DEFINE s == <<"runners", "entry", "cache", "node", "bus", "tasks">>
<1>1. \A t : t \in Seq(OwnParts) => t \in Seq(Names)
  BY SeqMonotonic DEF Names
<1>2. s \in Seq(Names) /\ IsInjective(s)
      /\ Range(s) = {"runners", "entry", "cache", "node", "bus", "tasks"}
  <2>1. s \in Seq(OwnParts)
    BY DEF OwnParts
  <2>2. /\ DOMAIN s = 1..6 /\ s[1] = "runners" /\ s[2] = "entry" /\ s[3] = "cache"
        /\ s[4] = "node" /\ s[5] = "bus" /\ s[6] = "tasks"
    OBVIOUS
  <2> HIDE DEF s
  <2> QED BY <1>1, <2>1, <2>2 DEF Range, IsInjective
<1>3. ASSUME NEW x \in OwnParts
      PROVE  <<x>> \in Seq(Names) /\ IsInjective(<<x>>) /\ Range(<<x>>) = {x}
  <2> DEFINE t == <<x>>
  <2>1. t \in Seq(OwnParts) /\ DOMAIN t = 1..1 /\ t[1] = x
    OBVIOUS
  <2> HIDE DEF t
  <2>2. t \in Seq(Names) /\ Range(t) = {x} /\ IsInjective(t)
    BY <1>1, <2>1 DEF Range, IsInjective
  <2> QED BY <2>2 DEF t
<1>4. ASSUME NEW x \in OwnParts, NEW y \in OwnParts
      PROVE  /\ <<x, y>> \in Seq(Names) /\ Range(<<x, y>>) = {x, y}
             /\ x # y => IsInjective(<<x, y>>)
  <2> DEFINE t == <<x, y>>
  <2>1. t \in Seq(OwnParts)
    OBVIOUS
  <2>2. DOMAIN t = 1..2 /\ t[1] = x /\ t[2] = y
    OBVIOUS
  <2> HIDE DEF t
  <2>3. t \in Seq(Names) /\ Range(t) = {x, y} /\ (x # y => IsInjective(t))
    BY <1>1, <2>1, <2>2 DEF Range, IsInjective
  <2> QED BY <2>3 DEF t
<1>5. /\ BootstrapOfBase \in Seq(Names)
      /\ Range(BootstrapOfBase) = {"bus", "runners", "cache", "entry", "exchange", "watchers"}
  <2> DEFINE t == BootstrapOfBase
  <2>1. t \in Seq(OwnParts)
    BY DEF BootstrapOfBase, OwnParts
  <2>2. /\ DOMAIN t = 1..6 /\ t[1] = "bus" /\ t[2] = "runners" /\ t[3] = "cache"
        /\ t[4] = "entry" /\ t[5] = "exchange" /\ t[6] = "watchers"
    BY DEF BootstrapOfBase
  <2> HIDE DEF t
  <2>3. t \in Seq(Names) /\ Range(t) = {"bus", "runners", "cache", "entry", "exchange", "watchers"}
    BY <1>1, <2>1, <2>2 DEF Range
  <2> QED BY <2>3 DEF t
<1> QED BY <1>2, <1>3, <1>4, <1>5

\* What the shutdown of this package goes through, in an order without repetition.
LEMMA ShutdownOfBaseIs ==
  /\ ShutdownOfBase \in Seq(Names) /\ IsInjective(ShutdownOfBase)
  /\ Range(ShutdownOfBase) = {"runners", "entry", "cache", "node", "bus", "tasks", "watchers"}
                               \cup Range(WorkerClasses)
<1> DEFINE s == <<"runners", "entry", "cache", "node", "bus", "tasks">>
           t == s \o WorkerClasses
           u == <<"watchers">>
<1>1. /\ s \in Seq(Names) /\ IsInjective(s)
      /\ Range(s) = {"runners", "entry", "cache", "node", "bus", "tasks"}
  BY OwnSequences
<1>2. u \in Seq(Names) /\ IsInjective(u) /\ Range(u) = {"watchers"}
  BY OwnSequences DEF OwnParts
<1>3. ShutdownOfBase = t \o u
  BY DEF ShutdownOfBase
<1> HIDE DEF s, u
<1>4. t \in Seq(Names) /\ IsInjective(t) /\ Range(t) = Range(s) \cup Range(WorkerClasses)
  <2>1. Range(s) \cap Range(WorkerClasses) = {}
    BY <1>1, NamesApart DEF OwnParts
  <2> QED BY <1>1, <2>1, NamesApart, BothOf
<1> HIDE DEF t
<1>5. Range(t) \cap Range(u) = {}
  BY <1>1, <1>2, <1>4, NamesApart DEF OwnParts
<1>6. /\ t \o u \in Seq(Names) /\ IsInjective(t \o u) /\ Range(t \o u) = Range(t) \cup Range(u)
  BY <1>2, <1>4, <1>5, BothOf
<1> QED BY <1>1, <1>2, <1>3, <1>4, <1>6

\* shutdown(): the steps of the modules, each once, then the storages, and the locks last.
LEMMA ShutdownIs ==
  LET n == Len(ShutdownSteps)
      last == {"storages", "locks"}
  IN  /\ ShutdownSteps \in Seq(Names) /\ n \in Nat /\ n >= 2
      /\ \A i, j \in 1..n : ShutdownSteps[i] = ShutdownSteps[j] => i = j
      /\ ShutdownSteps[n - 1] = "storages" /\ ShutdownSteps[n] = "locks"
      /\ Range(ShutdownSteps) = Range(ShutdownOfBase) \cup (Range(Modules) \ {Base}) \cup last
<1> DEFINE s == OfModules(ShutdownOfBase)
           t == <<"storages", "locks">>
<1>1. Range(ShutdownOfBase) \cap Range(Modules) = {}
  BY ShutdownOfBaseIs, NamesApart DEF OwnParts
<1>2. /\ s \in Seq(Names) /\ IsInjective(s)
      /\ Range(s) = Range(ShutdownOfBase) \cup (Range(Modules) \ {Base})
  BY <1>1, ShutdownOfBaseIs, StepsOfModules
<1>3. /\ t \in Seq(Names) /\ IsInjective(t) /\ Range(t) = {"storages", "locks"} /\ Len(t) = 2
      /\ t[1] = "storages" /\ t[2] = "locks"
  <2>1. {"storages", "locks"} \subseteq OwnParts /\ "storages" # "locks"
    BY DEF OwnParts
  <2> QED BY <2>1, OwnSequences
<1>4. ShutdownSteps = s \o t
  BY DEF ShutdownSteps
<1> HIDE DEF s, t
<1>5. Range(s) \cap Range(t) = {}
  BY <1>2, <1>3, ShutdownOfBaseIs, NamesApart DEF OwnParts
<1>6. /\ s \o t \in Seq(Names) /\ Len(s \o t) = Len(s) + 2 /\ IsInjective(s \o t)
      /\ Range(s \o t) = Range(s) \cup Range(t) /\ Len(s) \in Nat
  <2>1. s \in Seq(Names) /\ t \in Seq(Names)
    BY <1>2, <1>3
  <2>2. /\ s \o t \in Seq(Names) /\ Len(s \o t) = Len(s) + Len(t)
        /\ Range(s \o t) = Range(s) \cup Range(t)
    BY <2>1, BothOf
  <2>3. IsInjective(s \o t)
    BY <1>2, <1>3, <1>5, <2>1, BothOf
  <2> QED BY <1>3, <2>1, <2>2, <2>3
<1>7. (s \o t)[Len(s) + 1] = "storages" /\ (s \o t)[Len(s) + 2] = "locks"
  <2>1. \A i \in 1..Len(s) + Len(t) : (s \o t)[i] = IF i <= Len(s) THEN s[i] ELSE t[i - Len(s)]
    <3>1. s \in Seq(Names) /\ t \in Seq(Names)
      BY <1>2, <1>3
    <3> QED BY <3>1, ConcatProperties
  <2> QED BY <1>3, <1>6, <2>1
<1>8. \A i, j \in 1..Len(s \o t) : (s \o t)[i] = (s \o t)[j] => i = j
  BY <1>6 DEF IsInjective
<1> QED BY <1>2, <1>3, <1>4, <1>6, <1>7, <1>8

\* What none of the steps of shutdown is named after.
LEMMA NotStopped ==
  /\ Range(ShutdownSteps) \cap Range(Storages) = {}
  /\ {"handlers", "exchange", "timers", "running"} \cap Range(ShutdownSteps) = {}
BY ShutdownIs, ShutdownOfBaseIs, NamesApart DEF OwnParts

\* What is in front of a name in the middle of a sequence, and that it is there only.
LEMMA InTheMiddle ==
  ASSUME NEW S, NEW s \in Seq(S), NEW t \in Seq(S), NEW x \in S,
         x \notin Range(s) \cup Range(t)
  PROVE  LET u == s \o <<x>> \o t
         IN  /\ u \in Seq(S) /\ Range(u) = Range(s) \cup {x} \cup Range(t)
             /\ Len(s) + 1 <= Len(u)
             /\ \A i \in 1..Len(u) : u[i] = x => i = Len(s) + 1
             /\ \A y \in Range(s) : \E j \in 1..Len(s) : u[j] = y
<1> DEFINE w == <<x>>
           r == s \o w
           u == r \o t
<1>1. Len(s) \in Nat /\ Len(t) \in Nat /\ DOMAIN s = 1..Len(s) /\ DOMAIN t = 1..Len(t)
  OBVIOUS
<1>2. w \in Seq(S) /\ Len(w) = 1 /\ w[1] = x /\ Range(w) = {x}
  BY DEF Range
<1> HIDE DEF w
<1>3. /\ r \in Seq(S) /\ Len(r) = Len(s) + 1 /\ Range(r) = Range(s) \cup {x}
      /\ \A i \in 1..Len(s) + 1 : r[i] = IF i <= Len(s) THEN s[i] ELSE w[i - Len(s)]
  <2>1. w \in Seq(S)
    BY <1>2
  <2>2. \A i \in 1..Len(s) + Len(w) : r[i] = IF i <= Len(s) THEN s[i] ELSE w[i - Len(s)]
    BY <2>1, ConcatProperties
  <2>3. /\ r \in Seq(S) /\ Len(r) = Len(s) + Len(w) /\ Range(r) = Range(s) \cup Range(w)
    BY <2>1, BothOf
  <2> QED BY <1>2, <2>2, <2>3
<1> HIDE DEF r
<1>4. /\ u \in Seq(S) /\ Len(u) = Len(r) + Len(t) /\ Range(u) = Range(r) \cup Range(t)
      /\ \A i \in 1..Len(r) + Len(t) : u[i] = IF i <= Len(r) THEN r[i] ELSE t[i - Len(r)]
  <2>1. r \in Seq(S)
    BY <1>3
  <2>2. u \in Seq(S) /\ Len(u) = Len(r) + Len(t) /\ Range(u) = Range(r) \cup Range(t)
    BY <2>1, BothOf
  <2>3. \A i \in 1..Len(r) + Len(t) : u[i] = IF i <= Len(r) THEN r[i] ELSE t[i - Len(r)]
    BY <2>1, ConcatProperties
  <2> QED BY <2>2, <2>3
<1> HIDE DEF u
<1>5. ASSUME NEW i \in 1..Len(u), u[i] = x PROVE i = Len(s) + 1
  <2>1. CASE i <= Len(s)
    <3>1. u[i] = s[i] /\ i \in 1..Len(s)
      BY <1>1, <1>3, <1>4, <2>1
    <3> QED BY <1>1, <1>5, <3>1 DEF Range
  <2>2. CASE i > Len(s) + 1
    <3>1. u[i] = t[i - Len(r)] /\ i - Len(r) \in 1..Len(t)
      BY <1>1, <1>3, <1>4, <2>2
    <3> QED BY <1>1, <1>5, <3>1 DEF Range
  <2> QED BY <1>1, <2>1, <2>2
<1>6. ASSUME NEW y \in Range(s) PROVE \E j \in 1..Len(s) : u[j] = y
  <2>1. PICK j \in 1..Len(s) : s[j] = y
    BY <1>1 DEF Range
  <2>2. j \in 1..Len(s) + 1 /\ j <= Len(s) /\ j \in 1..Len(r) + Len(t) /\ j <= Len(r)
    BY <1>1, <1>3
  <2>3. u[j] = r[j]
    BY <1>4, <2>2
  <2>4. r[j] = s[j]
    BY <1>3, <2>2
  <2> QED BY <2>1, <2>3, <2>4
<1> QED BY <1>1, <1>3, <1>4, <1>5, <1>6 DEF u, r, w

\* startup(): the handlers and all storages are there before the process runs, which it
\* comes to once; whatever it starts is stopped or removed, but for the timers.
LEMMA StartIs ==
  /\ StartSteps \in Seq(Names) /\ Len(StartSteps) \in Nat /\ Len(StartSteps) > 0
  /\ \A i \in 1..Len(StartSteps) : StartSteps[i] = "running" =>
       /\ \A j \in 1..Len(StartSteps) : StartSteps[j] = "running" => j = i
       /\ \A y \in Range(Storages) \cup {"handlers"} : \E j \in 1..i - 1 : StartSteps[j] = y
  /\ "storages" \notin Range(StartSteps)
  /\ Range(StartSteps) \subseteq Range(ShutdownSteps) \cup Range(Storages)
                                   \cup {"handlers", "exchange", "timers", "running"}
<1> DEFINE h == <<"handlers">>
           hs == h \o Storages
           hst == hs \o ActivatorOfBase
           s == hst \o OfModules(BootstrapOfBase)
           t == ReadyOfBase
           e == <<"timers", "node">>
<1>1. StartSteps = s \o <<"running">> \o t
  BY DEF StartSteps
<1>2. h \in Seq(Names) /\ Range(h) = {"handlers"}
  BY OwnSequences DEF OwnParts
<1>3. ActivatorOfBase \in Seq(Names) /\ Range(ActivatorOfBase) = {"tasks"}
  BY OwnSequences DEF ActivatorOfBase, OwnParts
<1>4. /\ BootstrapOfBase \in Seq(Names)
      /\ Range(BootstrapOfBase) = {"bus", "runners", "cache", "entry", "exchange", "watchers"}
  BY OwnSequences
<1>5. e \in Seq(Names) /\ Range(e) = {"timers", "node"}
  BY OwnSequences DEF OwnParts
<1>6. t = WorkerClasses \o e
  BY DEF ReadyOfBase
<1> HIDE DEF h, e
<1>7. t \in Seq(Names) /\ Range(t) = Range(WorkerClasses) \cup Range(e)
  BY <1>5, <1>6, NamesApart, BothOf
<1>8. hs \in Seq(Names) /\ Range(hs) = Range(h) \cup Range(Storages)
  BY <1>2, NamesApart, BothOf
<1> HIDE DEF hs, t
<1>9. hst \in Seq(Names) /\ Range(hst) = Range(hs) \cup Range(ActivatorOfBase)
  BY <1>3, <1>8, BothOf
<1> HIDE DEF hst
<1>10. /\ OfModules(BootstrapOfBase) \in Seq(Names)
       /\ Range(OfModules(BootstrapOfBase)) = Range(BootstrapOfBase) \cup (Range(Modules) \ {Base})
  BY <1>4, StepsOfModules
<1>11. s \in Seq(Names) /\ Range(s) = Range(hst) \cup Range(OfModules(BootstrapOfBase))
  BY <1>9, <1>10, BothOf
<1> HIDE DEF s
<1>12. /\ Range(s) = {"handlers", "tasks", "bus", "runners", "cache", "entry", "exchange", "watchers"}
                       \cup Range(Storages) \cup (Range(Modules) \ {Base})
       /\ Range(t) = {"timers", "node"} \cup Range(WorkerClasses)
  BY <1>2, <1>3, <1>4, <1>5, <1>7, <1>8, <1>9, <1>10, <1>11
<1>13. {"running", "storages"} \cap (Range(s) \cup Range(t)) = {}
  BY <1>12, NamesApart DEF OwnParts
<1>14. /\ StartSteps \in Seq(Names) /\ Range(StartSteps) = Range(s) \cup {"running"} \cup Range(t)
       /\ Len(s) + 1 <= Len(StartSteps)
       /\ \A i \in 1..Len(StartSteps) : StartSteps[i] = "running" => i = Len(s) + 1
       /\ \A y \in Range(s) : \E j \in 1..Len(s) : StartSteps[j] = y
  <2>1. /\ s \in Seq(Names) /\ t \in Seq(Names) /\ "running" \in Names
        /\ "running" \notin Range(s) \cup Range(t)
    BY <1>7, <1>11, <1>13 DEF Names, OwnParts
  <2> QED BY <1>1, <2>1, InTheMiddle
<1>15. Len(s) \in Nat /\ Len(StartSteps) \in Nat
  BY <1>11, <1>14
<1>16. Range(ShutdownSteps) = {"runners", "entry", "cache", "node", "bus", "tasks", "watchers",
                                "storages", "locks"}
                                \cup Range(WorkerClasses) \cup (Range(Modules) \ {Base})
  BY ShutdownIs, ShutdownOfBaseIs
<1>17. ASSUME NEW i \in 1..Len(StartSteps), StartSteps[i] = "running"
       PROVE  /\ \A j \in 1..Len(StartSteps) : StartSteps[j] = "running" => j = i
              /\ \A y \in Range(Storages) \cup {"handlers"} : \E j \in 1..i - 1 : StartSteps[j] = y
  <2>1. i = Len(s) + 1 /\ i - 1 = Len(s)
    BY <1>14, <1>15, <1>17
  <2>2. ASSUME NEW y \in Range(Storages) \cup {"handlers"} PROVE y \in Range(s)
    BY <1>12
  <2> QED BY <1>14, <2>1, <2>2
<1> QED BY <1>12, <1>13, <1>14, <1>15, <1>16, <1>17

-----------------------------------------------------------------------------
(* Starting and stopping *)

Started == {StartSteps[i] : i \in 1..step}
Steps == 1..Len(ShutdownSteps)
Undone(p) == undone[p] > 0

\* At most one call shuts the process down; it has taken the steps up to its own, each once.
OneCall ==
  \A c \in Callers : at[c] > 0 =>
    /\ \A i \in Steps : undone[ShutdownSteps[i]] = IF i < at[c] THEN 1 ELSE 0
    /\ \A d \in Callers : at[d] > 0 => d = c

\* Also when the call has ended or rejected: what was undone was undone once, and in order.
InOrder ==
  \A i \in Steps : /\ undone[ShutdownSteps[i]] <= 1
                   /\ Undone(ShutdownSteps[i]) => \A j \in 1..i : Undone(ShutdownSteps[j])

\* Until the process has run, and stopped running, nothing is undone, and nobody is at it.
NotYet ==
  running \/ "running" \notin Started =>
    /\ \A p \in Range(ShutdownSteps) : undone[p] = 0
    /\ \A c \in Callers : at[c] <= 0
    /\ "handlers" \in Started => "handlers" \in up

\* A start under way has a next step; a process runs once it has taken the step to.
StartMoves ==
  /\ startup = "starting" => step < Len(StartSteps)
  /\ running => "running" \in Started

PartsUp ==
  /\ up \subseteq Range(StartSteps) \ {"running"}
  /\ undone["storages"] = 0 => Range(Storages) \cap Started \subseteq up
  /\ failures = 0 => up \cap Range(WorkerClasses) \subseteq inList

\* In a shutdown of a process that had started, without failures: what is undone is gone.
Gone ==
  whole =>
    /\ startup = "done"
    /\ "handlers" \notin up => "exchange" \notin up
    /\ failures = 0 => \A p \in Range(ShutdownSteps) :
         Undone(p) => p \notin up /\ (p = "storages" => up \cap Range(Storages) = {})

LifeStructure ==
  /\ TypeOKLife
  /\ OneCall
  /\ InOrder
  /\ NotYet
  /\ StartMoves
  /\ PartsUp
  /\ Gone
  /\ without = {}

LEMMA InitLifeStructure == InitLife => LifeStructure
<1> SUFFICES ASSUME InitLife PROVE LifeStructure
  OBVIOUS
<1>1. /\ step = 0 /\ startup = "starting" /\ running = FALSE /\ up = {} /\ inList = {}
      /\ at = [c \in Callers |-> 0] /\ exited = FALSE /\ failures = 0
      /\ undone = [p \in Range(ShutdownSteps) |-> 0] /\ without = {} /\ whole = FALSE
  BY DEF InitLife
<1>2. Len(StartSteps) \in Nat /\ Len(StartSteps) > 0 /\ Len(ShutdownSteps) \in Nat
  BY StartIs, ShutdownIs
<1>3. \A i \in Steps : ShutdownSteps[i] \in Range(ShutdownSteps)
  BY ShutdownIs DEF Steps, Range
<1>4. "storages" \in Range(ShutdownSteps)
  BY ShutdownIs
<1>5. Started = {}
  <2>1. step = 0 /\ 1..0 = {}
    BY <1>1
  <2> QED BY <2>1 DEF Started
<1>6. TypeOKLife
  <2>1. step \in 0..Len(StartSteps) /\ failures \in 0..Failures
    BY <1>1, <1>2, LifecycleAssumption
  <2>2. at \in [Callers -> -2..Len(ShutdownSteps) + 1]
    BY <1>1, <1>2
  <2> QED BY <1>1, <2>1, <2>2 DEF TypeOKLife
<1>7. OneCall /\ InOrder /\ NotYet
  <2>1. /\ \A c \in Callers : at[c] = 0
        /\ \A q \in Range(ShutdownSteps) : undone[q] = 0
    BY <1>1
  <2>2. OneCall
    BY <2>1 DEF OneCall
  <2>3. InOrder
    BY <1>3, <2>1 DEF InOrder, Undone
  <2> QED BY <1>5, <2>1, <2>2, <2>3 DEF NotYet
<1>8. StartMoves /\ PartsUp /\ Gone
  BY <1>1, <1>2, <1>4, <1>5 DEF StartMoves, PartsUp, Gone
<1> QED BY <1>1, <1>6, <1>7, <1>8 DEF LifeStructure

\* The types that the proofs use.
LEMMA LifeTypes ==
  ASSUME LifeStructure
  PROVE  /\ step \in 0..Len(StartSteps) /\ Len(StartSteps) \in Nat /\ Len(ShutdownSteps) \in Nat
         /\ up \subseteq Parts /\ inList \subseteq Range(WorkerClasses) /\ failures \in 0..Failures
         /\ undone \in [Range(ShutdownSteps) -> Nat] /\ "storages" \in Range(ShutdownSteps)
         /\ at \in [Callers -> -2..Len(ShutdownSteps) + 1] /\ Failures \in Nat
         /\ \A c \in Callers : at[c] \in Int
         /\ \A i \in Steps : ShutdownSteps[i] \in Range(ShutdownSteps)
<1>1. TypeOKLife
  BY DEF LifeStructure
<1>2. Len(StartSteps) \in Nat /\ Len(ShutdownSteps) \in Nat /\ Failures \in Nat
  BY StartIs, ShutdownIs, LifecycleAssumption
<1>3. \A i \in Steps : ShutdownSteps[i] \in Range(ShutdownSteps)
  BY ShutdownIs DEF Steps, Range
<1>4. "storages" \in Range(ShutdownSteps)
  BY ShutdownIs
<1> QED BY <1>1, <1>2, <1>3, <1>4 DEF TypeOKLife

\* A step of startup that adds p to what was started, and may leave it up.
LEMMA StartKeeps ==
  ASSUME LifeStructure, NEW p, Starting(p), Advances, running' = (running \/ p = "running"),
         p # "running" => up \subseteq up' /\ up' \subseteq up \cup {p},
         p = "running" => up' = up,
         p \notin Range(WorkerClasses) => up' = up \cup ({p} \ {"running"}),
         inList \subseteq inList', inList' \subseteq Range(WorkerClasses),
         failures' \in failures..Failures,
         failures' = 0 => up' \cap Range(WorkerClasses) \subseteq inList'
  PROVE  LifeStructure'
<1>1. /\ startup = "starting" /\ StartSteps[step + 1] = p /\ step' = step + 1
      /\ startup' = IF step + 1 = Len(StartSteps) THEN "done" ELSE "starting"
      /\ UNCHANGED <<at, exited, undone, without, whole>>
  BY DEF Starting, Advances
<1>2. step \in Nat /\ step < Len(StartSteps) /\ Len(StartSteps) \in Nat /\ step + 1 \in 1..Len(StartSteps)
  BY <1>1, LifeTypes DEF LifeStructure, StartMoves
<1>3. p \in Range(StartSteps) /\ Started' = Started \cup {p}
  <2>1. DOMAIN StartSteps = 1..Len(StartSteps)
    BY StartIs
  <2>2. 1..step' = 1..step \cup {step + 1}
    BY <1>1, <1>2
  <2> QED BY <1>1, <1>2, <2>1, <2>2 DEF Started, Range
<1>4. up \subseteq up' /\ up' \subseteq up \cup ({p} \ {"running"})
  OBVIOUS
<1>5. ~whole
  BY <1>1 DEF LifeStructure, Gone
<1>6. TypeOKLife'
  <2>1. up' \subseteq Parts
    BY <1>3, <1>4, LifeTypes DEF Parts
  <2>2. failures' \in 0..Failures
    BY LifeTypes
  <2>3. step' \in 0..Len(StartSteps) /\ startup' \in {"starting", "done", "rejected"}
    BY <1>1, <1>2
  <2> QED BY <1>1, <2>1, <2>2, <2>3 DEF LifeStructure, TypeOKLife
<1>7. OneCall' /\ InOrder'
  BY <1>1 DEF LifeStructure, OneCall, InOrder, Undone
<1>8. p = "running" => "running" \notin Started /\ "handlers" \in Started
  <2> SUFFICES ASSUME p = "running" PROVE "running" \notin Started /\ "handlers" \in Started
    OBVIOUS
  <2>1. /\ \A j \in 1..Len(StartSteps) : StartSteps[j] = "running" => j = step + 1
        /\ \E j \in 1..step : StartSteps[j] = "handlers"
    <3>1. /\ step + 1 \in 1..Len(StartSteps) /\ StartSteps[step + 1] = "running"
          /\ (step + 1) - 1 = step
      BY <1>1, <1>2
    <3> DEFINE i == step + 1
    <3>2. /\ \A j \in 1..Len(StartSteps) : StartSteps[j] = "running" => j = i
          /\ \E j \in 1..i - 1 : StartSteps[j] = "handlers"
      <4>1. i \in 1..Len(StartSteps) /\ StartSteps[i] = "running"
        BY <3>1
      <4> HIDE DEF i
      <4> QED BY <4>1, StartIs
    <3> QED BY <3>1, <3>2
  <2>2. step \in Nat /\ step + 1 \notin 1..step /\ \A j \in 1..step : j \in 1..Len(StartSteps)
    BY <1>1, <1>2
  <2>3. "running" \notin Started
    BY <2>1, <2>2 DEF Started
  <2>4. "handlers" \in Started
    BY <2>1 DEF Started
  <2> QED BY <2>3, <2>4
<1>9. NotYet'
  <2> SUFFICES ASSUME running' \/ "running" \notin Started'
               PROVE  /\ \A q \in Range(ShutdownSteps) : undone'[q] = 0
                      /\ \A c \in Callers : at'[c] <= 0
                      /\ "handlers" \in Started' => "handlers" \in up'
    BY DEF NotYet
  <2>1. running \/ "running" \notin Started
    BY <1>3, <1>8
  <2>2. /\ \A q \in Range(ShutdownSteps) : undone[q] = 0
        /\ \A c \in Callers : at[c] <= 0
        /\ "handlers" \in Started => "handlers" \in up
    BY <2>1 DEF LifeStructure, NotYet
  <2>3. "handlers" \notin Range(WorkerClasses)
    BY NamesApart DEF OwnParts
  <2>4. "handlers" \in Started' => "handlers" \in up'
    <3>1. CASE p = "handlers"
      BY <2>3, <3>1
    <3>2. CASE p # "handlers"
      BY <1>3, <1>4, <2>2, <3>2
    <3> QED BY <3>1, <3>2
  <2> QED BY <1>1, <2>2, <2>4
<1>10. StartMoves'
  <2>1. startup' = "starting" => step' < Len(StartSteps)
    BY <1>1, <1>2
  <2>2. running' => running \/ p = "running"
    OBVIOUS
  <2>3. running' => "running" \in Started'
    BY <1>3, <2>2 DEF LifeStructure, StartMoves
  <2> QED BY <2>1, <2>3 DEF StartMoves
<1>11. PartsUp'
  <2>1. up' \subseteq Range(StartSteps) \ {"running"}
    BY <1>3, <1>4 DEF LifeStructure, PartsUp
  <2>2. undone'["storages"] = 0 => Range(Storages) \cap Started' \subseteq up'
    <3>1. "running" \notin Range(Storages) /\ Range(Storages) \cap Range(WorkerClasses) = {}
      BY NamesApart DEF OwnParts
    <3> QED BY <1>1, <1>3, <1>4, <3>1 DEF LifeStructure, PartsUp
  <2> QED BY <2>1, <2>2 DEF PartsUp
<1>12. Gone'
  BY <1>1, <1>5 DEF Gone
<1> QED BY <1>1, <1>6, <1>7, <1>9, <1>10, <1>11, <1>12 DEF LifeStructure

\* startup() rejects: what is up stays up.
LEMMA StartFailsKeeps ==
  ASSUME LifeStructure, NEW p, StartFails(p)
  PROVE  LifeStructure'
<1>1. /\ startup = "starting" /\ startup' = "rejected" /\ failures' = failures + 1
      /\ failures < Failures
      /\ UNCHANGED <<step, running, up, inList, at, exited, undone, without, whole>>
  BY DEF StartFails, Starting
<1>2. failures \in Nat /\ Failures \in Nat
  BY LifeTypes
<1>3. Started' = Started /\ ~whole
  BY <1>1 DEF Started, LifeStructure, Gone
<1>4. TypeOKLife'
  BY <1>1, <1>2 DEF LifeStructure, TypeOKLife
<1>5. OneCall' /\ InOrder' /\ NotYet' /\ StartMoves' /\ Gone'
  BY <1>1, <1>3 DEF LifeStructure, OneCall, InOrder, NotYet, StartMoves, Gone, Undone
<1>6. PartsUp'
  BY <1>1, <1>2, <1>3 DEF LifeStructure, PartsUp
<1> QED BY <1>1, <1>4, <1>5, <1>6 DEF LifeStructure

\* The first call that finds the process running.
LEMMA BeginKeeps ==
  ASSUME LifeStructure, NEW c \in Callers, BeginShutdown(c)
  PROVE  LifeStructure'
<1>1. /\ running /\ running' = FALSE /\ at' = [at EXCEPT ![c] = 1] /\ whole' = (startup = "done")
      /\ UNCHANGED <<step, startup, up, inList, exited, failures, undone, without>>
  BY DEF BeginShutdown, ResetAtOnce
<1>2. Started' = Started
  BY <1>1 DEF Started
<1>3. /\ \A p \in Range(ShutdownSteps) : undone[p] = 0
      /\ \A e \in Callers : at[e] <= 0
      /\ "handlers" \in Started => "handlers" \in up
      /\ "running" \in Started
  BY <1>1 DEF LifeStructure, NotYet, StartMoves
<1>4. "handlers" \in up
  <2>1. PICK i \in 1..step : StartSteps[i] = "running"
    BY <1>3 DEF Started
  <2>2. i \in 1..Len(StartSteps) /\ i - 1 \in Nat /\ i - 1 <= step /\ step \in Nat
    BY <2>1, LifeTypes
  <2>3. \E j \in 1..i - 1 : StartSteps[j] = "handlers"
    BY <2>1, <2>2, StartIs
  <2> QED BY <1>3, <2>2, <2>3 DEF Started
<1>5. /\ Len(ShutdownSteps) \in Nat /\ at \in [Callers -> -2..Len(ShutdownSteps) + 1]
      /\ \A i \in Steps : ShutdownSteps[i] \in Range(ShutdownSteps)
  BY LifeTypes
<1>6. at' \in [Callers -> -2..Len(ShutdownSteps) + 1] /\ at'[c] = 1 /\ \A e \in Callers : e # c => at'[e] = at[e]
  BY <1>1, <1>5
<1>7. TypeOKLife'
  BY <1>1, <1>6 DEF LifeStructure, TypeOKLife
<1>8. OneCall'
  <2> SUFFICES ASSUME NEW e \in Callers, at'[e] > 0
               PROVE  /\ \A i \in Steps : undone'[ShutdownSteps[i]] = IF i < at'[e] THEN 1 ELSE 0
                      /\ \A d \in Callers : at'[d] > 0 => d = e
    BY DEF OneCall, Steps
  <2>1. e = c
    BY <1>3, <1>5, <1>6
  <2>2. \A d \in Callers : at'[d] > 0 => d = c
    BY <1>3, <1>5, <1>6
  <2> QED BY <1>1, <1>3, <1>5, <1>6, <2>1, <2>2 DEF Steps
<1>9. InOrder'
  BY <1>1 DEF LifeStructure, InOrder, Steps, Undone
<1>10. NotYet' /\ StartMoves'
  BY <1>1, <1>2, <1>3 DEF LifeStructure, NotYet, StartMoves
<1>11. PartsUp'
  BY <1>1, <1>2 DEF LifeStructure, PartsUp
<1>12. Gone'
  <2>1. whole' => startup' = "done"
    BY <1>1
  <2>2. "handlers" \in up' /\ \A p \in Range(ShutdownSteps) : ~(undone'[p] > 0)
    BY <1>1, <1>3, <1>4
  <2> QED BY <2>1, <2>2 DEF Gone, Undone
<1> QED BY <1>1, <1>7, <1>8, <1>9, <1>10, <1>11, <1>12 DEF LifeStructure

\* A call returns or rejects; whoever of them had begun to stop the process is through.
LEMMA EndKeeps ==
  ASSUME LifeStructure, NEW c \in Callers, at'[c] \in {Returned, HasRejected},
         at' = [at EXCEPT ![c] = at'[c]],
         \/ running' = running /\ up' = up
         \/ at[c] > 0 /\ running' = FALSE /\ up' = up \ {"handlers", "exchange"},
         exited' \in BOOLEAN, failures' \in failures..Failures,
         UNCHANGED <<step, startup, inList, undone, without, whole>>
  PROVE  LifeStructure'
<1>1. Started' = Started
  BY DEF Started
<1>2. /\ Len(ShutdownSteps) \in Nat /\ at \in [Callers -> -2..Len(ShutdownSteps) + 1]
      /\ failures \in Nat /\ Failures \in Nat
  BY LifeTypes
<1>3. /\ at' \in [Callers -> -2..Len(ShutdownSteps) + 1] /\ ~(at'[c] > 0)
      /\ at'[c] <= 0
      /\ \A e \in Callers : e # c => at'[e] = at[e]
  BY <1>2 DEF Returned, HasRejected
<1>4. TypeOKLife'
  <2>1. running' \in BOOLEAN
    BY DEF LifeStructure, TypeOKLife
  <2>2. up' \subseteq Parts
    BY DEF LifeStructure, TypeOKLife
  <2>3. failures' \in 0..Failures
    BY <1>2
  <2> QED BY <1>3, <2>1, <2>2, <2>3 DEF LifeStructure, TypeOKLife
<1>5. OneCall'
  BY <1>3 DEF LifeStructure, OneCall, Steps
<1>6. InOrder'
  BY DEF LifeStructure, InOrder, Steps, Undone
<1>7. NotYet' /\ StartMoves'
  <2>1. CASE running' = running /\ up' = up
    BY <1>1, <1>3, <2>1 DEF LifeStructure, NotYet, StartMoves
  <2>2. CASE at[c] > 0 /\ running' = FALSE /\ up' = up \ {"handlers", "exchange"}
    <3>1. ~(at[c] <= 0)
      BY <1>2, <2>2
    <3>2. ~running /\ "running" \in Started
      BY <3>1 DEF LifeStructure, NotYet
    <3> QED BY <1>1, <2>2, <3>2 DEF LifeStructure, NotYet, StartMoves
  <2> QED BY <2>1, <2>2
<1>8. PartsUp'
  <2>1. {"handlers", "exchange"} \cap Range(Storages) = {}
    BY NamesApart DEF OwnParts
  <2>2. failures' = 0 => failures = 0
    BY <1>2
  <2> QED BY <1>1, <2>1, <2>2 DEF LifeStructure, PartsUp
<1>9. Gone'
  <2>1. failures' = 0 => failures = 0
    BY <1>2
  <2> QED BY <2>1 DEF LifeStructure, Gone, Undone
<1> QED BY <1>4, <1>5, <1>6, <1>7, <1>8, <1>9 DEF LifeStructure

\* A step of the call that shuts the process down: the modules, the workers that have still
\* something to save among them, find all storages up, and the part is gone afterwards.
LEMMA StepOfShutdownKeeps ==
  ASSUME LifeStructure, NEW c \in Callers, InShutdown(c), Record(Undoes(c)),
         at' = [at EXCEPT ![c] = @ + 1],
         UNCHANGED <<step, startup, running, inList, exited, whole>>,
         failures' \in failures..Failures, up' \subseteq up,
         Undoes(c) # "storages" => up \cap Range(Storages) \subseteq up',
         up \ up' \subseteq Range(ShutdownSteps) \cup Range(Storages),
         failures' = 0 /\ Undoes(c) # "storages" =>
           Undoes(c) \notin up' \/ Undoes(c) \in Range(WorkerClasses) \ inList,
         failures' = 0 /\ Undoes(c) = "storages" => up' \cap Range(Storages) = {}
  PROVE  LifeStructure'
<1> DEFINE n == at[c]
           p == Undoes(c)
           last == Len(ShutdownSteps)
<1>1. /\ last \in Nat /\ n \in 1..last /\ n \in Steps /\ p = ShutdownSteps[n]
      /\ p \in Range(ShutdownSteps) /\ at \in [Callers -> -2..last + 1]
      /\ undone \in [Range(ShutdownSteps) -> Nat] /\ failures \in Nat /\ Failures \in Nat
      /\ \A i \in Steps : ShutdownSteps[i] \in Range(ShutdownSteps)
  BY LifeTypes DEF InShutdown, Undoes, Steps
<1>2. /\ \A i, j \in Steps : ShutdownSteps[i] = ShutdownSteps[j] => i = j
      /\ last >= 2 /\ ShutdownSteps[last - 1] = "storages" /\ ShutdownSteps[last] = "locks"
  BY ShutdownIs DEF Steps
<1>3. /\ undone' = [undone EXCEPT ![p] = @ + 1]
      /\ without' = IF p \notin {"storages", "locks"} /\ ~(Range(Storages) \subseteq up)
                    THEN without \cup {p} ELSE without
  BY DEF Record
<1>4. /\ \A i \in Steps : undone[ShutdownSteps[i]] = IF i < n THEN 1 ELSE 0
      /\ \A d \in Callers : at[d] > 0 => d = c
  BY <1>1 DEF LifeStructure, OneCall
<1> HIDE DEF n, p, last
<1>5. ~running /\ "running" \in Started /\ Started' = Started
  <2>1. ~(at[c] <= 0)
    BY <1>1 DEF n
  <2> QED BY <2>1 DEF LifeStructure, NotYet, Started
<1>6. undone' \in [Range(ShutdownSteps) -> Nat]
  BY <1>1, <1>3
<1>7. \A i \in Steps : undone'[ShutdownSteps[i]] = IF i < n + 1 THEN 1 ELSE 0
  <2> SUFFICES ASSUME NEW i \in Steps
               PROVE  undone'[ShutdownSteps[i]] = IF i < n + 1 THEN 1 ELSE 0
    OBVIOUS
  <2>1. i \in Nat /\ n \in Nat
    BY <1>1 DEF Steps, last
  <2>2. CASE i = n
    BY <1>1, <1>3, <1>4, <2>1, <2>2
  <2>3. CASE i # n
    <3>1. ShutdownSteps[i] # p
      BY <1>1, <1>2, <2>3
    <3>2. undone'[ShutdownSteps[i]] = undone[ShutdownSteps[i]]
      BY <1>1, <1>3, <3>1
    <3> QED BY <1>4, <2>1, <2>3, <3>2
  <2> QED BY <2>2, <2>3
<1>8. at' \in [Callers -> -2..last + 1] /\ at'[c] = n + 1 /\ \A e \in Callers : e # c => at'[e] = at[e]
  <2>1. n + 1 \in -2..last + 1
    BY <1>1
  <2> QED BY <1>1, <2>1 DEF n
<1>9. Range(Storages) \subseteq up \/ p = "locks"
  <2>1. CASE p = "locks"
    BY <2>1
  <2>2. CASE p # "locks"
    <3>1. n < last /\ last - 1 \in Steps /\ ~(last - 1 < n)
      BY <1>1, <1>2, <2>2 DEF Steps, last
    <3>2. undone["storages"] = 0
      BY <1>2, <1>4, <3>1
    <3>3. Range(Storages) \cap Started \subseteq up
      BY <3>2 DEF LifeStructure, PartsUp
    <3>4. Range(Storages) \subseteq Started
      <4>1. PICK i \in 1..step : StartSteps[i] = "running"
        BY <1>5 DEF Started
      <4>2. i \in 1..Len(StartSteps) /\ i - 1 \in Nat /\ i - 1 <= step /\ step \in Nat
        BY <4>1, LifeTypes
      <4>3. \A y \in Range(Storages) : \E j \in 1..i - 1 : StartSteps[j] = y
        BY <4>1, <4>2, StartIs
      <4> QED BY <4>2, <4>3 DEF Started
    <3> QED BY <3>3, <3>4
  <2> QED BY <2>1, <2>2
<1>10. without' = {}
  BY <1>3, <1>9 DEF LifeStructure
<1>11. TypeOKLife'
  <2>1. up' \subseteq Parts
    BY DEF LifeStructure, TypeOKLife
  <2>2. failures' \in 0..Failures
    BY <1>1
  <2> QED BY <1>6, <1>8, <1>10, <2>1, <2>2 DEF LifeStructure, TypeOKLife, last
<1>12. OneCall'
  <2> SUFFICES ASSUME NEW e \in Callers, at'[e] > 0
               PROVE  /\ \A i \in Steps : undone'[ShutdownSteps[i]] = IF i < at'[e] THEN 1 ELSE 0
                      /\ \A d \in Callers : at'[d] > 0 => d = e
    BY DEF OneCall, Steps
  <2>1. \A d \in Callers : at'[d] > 0 => d = c
    BY <1>4, <1>8
  <2> QED BY <1>7, <1>8, <2>1
<1>13. InOrder'
  <2> SUFFICES ASSUME NEW i \in Steps
               PROVE  /\ undone'[ShutdownSteps[i]] <= 1
                      /\ undone'[ShutdownSteps[i]] > 0 =>
                           \A j \in 1..i : undone'[ShutdownSteps[j]] > 0
    BY DEF InOrder, Steps, Undone
  <2>1. undone'[ShutdownSteps[i]] <= 1
    BY <1>7
  <2>2. ASSUME undone'[ShutdownSteps[i]] > 0, NEW j \in 1..i PROVE undone'[ShutdownSteps[j]] > 0
    <3>1. i < n + 1 /\ i \in 1..last /\ n \in Nat
      BY <1>1, <1>7, <2>2 DEF Steps, last
    <3>2. j \in Steps /\ j < n + 1
      BY <1>1, <3>1 DEF Steps, last
    <3> QED BY <1>7, <3>2
  <2> QED BY <2>1, <2>2
<1>14. NotYet' /\ StartMoves'
  BY <1>5 DEF LifeStructure, NotYet, StartMoves
<1>15. PartsUp'
  <2>1. up' \subseteq Range(StartSteps) \ {"running"}
    BY DEF LifeStructure, PartsUp
  <2>2. failures' = 0 => up' \cap Range(WorkerClasses) \subseteq inList'
    <3>1. failures' = 0 => failures = 0
      BY <1>1
    <3> QED BY <3>1 DEF LifeStructure, PartsUp
  <2>3. undone'["storages"] = 0 => Range(Storages) \cap Started' \subseteq up'
    <3> SUFFICES ASSUME undone'["storages"] = 0 PROVE Range(Storages) \cap Started' \subseteq up'
      OBVIOUS
    <3>1. last - 1 \in Steps /\ ShutdownSteps[last - 1] = "storages"
      BY <1>1, <1>2 DEF Steps, last
    <3>2. ~(last - 1 < n + 1)
      BY <1>7, <3>1
    <3>3. p # "storages" /\ undone["storages"] = 0
      <4>1. n # last - 1 /\ ~(last - 1 < n)
        BY <1>1, <3>2
      <4> QED BY <1>1, <1>2, <1>4, <3>1, <4>1
    <3> QED BY <1>5, <3>3 DEF LifeStructure, PartsUp, p
  <2> QED BY <2>1, <2>2, <2>3 DEF PartsUp
<1>16. Gone'
  <2> SUFFICES ASSUME whole'
               PROVE  /\ startup' = "done"
                      /\ "handlers" \notin up' => "exchange" \notin up'
                      /\ failures' = 0 => \A q \in Range(ShutdownSteps) : undone'[q] > 0 =>
                           q \notin up' /\ (q = "storages" => up' \cap Range(Storages) = {})
    BY DEF Gone, Undone
  <2>1. /\ startup = "done" /\ ("handlers" \notin up => "exchange" \notin up)
        /\ failures = 0 => \A q \in Range(ShutdownSteps) : undone[q] > 0 =>
             q \notin up /\ (q = "storages" => up \cap Range(Storages) = {})
    BY DEF LifeStructure, Gone, Undone
  <2>2. "handlers" \notin up' => "exchange" \notin up'
    <3>1. "handlers" \notin Range(ShutdownSteps) \cup Range(Storages)
      BY NotStopped, NamesApart DEF OwnParts
    <3> QED BY <2>1, <3>1
  <2>3. ASSUME failures' = 0, NEW q \in Range(ShutdownSteps), undone'[q] > 0
        PROVE  q \notin up' /\ (q = "storages" => up' \cap Range(Storages) = {})
    <3>1. failures = 0
      BY <1>1, <2>3
    <3>2. CASE q # p
      <4>1. undone'[q] = undone[q]
        BY <1>1, <1>3, <3>2
      <4> QED BY <2>1, <2>3, <3>1, <4>1
    <3>3. CASE q = p /\ p = "storages"
      <4>1. "storages" \notin Range(StartSteps)
        BY StartIs
      <4>2. up' \subseteq Range(StartSteps)
        BY DEF LifeStructure, PartsUp
      <4> QED BY <2>3, <3>3, <4>1, <4>2 DEF p
    <3>4. CASE q = p /\ p # "storages"
      <4>1. p \notin up' \/ p \in Range(WorkerClasses) \ inList
        BY <2>3, <3>4 DEF p
      <4>2. up \cap Range(WorkerClasses) \subseteq inList
        BY <3>1 DEF LifeStructure, PartsUp
      <4> QED BY <3>4, <4>1, <4>2
    <3> QED BY <3>2, <3>3, <3>4
  <2> QED BY <2>1, <2>2, <2>3
<1> QED BY <1>10, <1>11, <1>12, <1>13, <1>14, <1>15, <1>16 DEF LifeStructure

LEMMA StepLifeStructure == LifeStructure /\ [NextLife]_lifeVars => LifeStructure'
<1> SUFFICES ASSUME LifeStructure, [NextLife]_lifeVars PROVE LifeStructure'
  OBVIOUS
<1>1. failures \in 0..Failures /\ Failures \in Nat /\ inList \subseteq Range(WorkerClasses)
  BY LifeTypes
<1>2. "running" \notin Range(WorkerClasses)
  BY NamesApart DEF OwnParts
<1>3. failures = 0 => up \cap Range(WorkerClasses) \subseteq inList
  BY DEF LifeStructure, PartsUp
<1>4. ASSUME NEW p, StartPart(p) PROVE LifeStructure'
  <2>1. /\ Starting(p) /\ Advances /\ p \notin Range(WorkerClasses)
        /\ running' = (running \/ p = "running")
        /\ up' = up \cup (IF p = "running" THEN {} ELSE {p}) /\ inList' = inList /\ failures' = failures
    BY <1>4 DEF StartPart, StartsUp
  <2>2. up' = up \cup ({p} \ {"running"})
    BY <2>1
  <2>3. failures' \in failures..Failures
    BY <1>1, <2>1
  <2> QED BY <1>1, <1>3, <2>1, <2>2, <2>3, StartKeeps
<1>5. ASSUME NEW w, StartWorker(w) PROVE LifeStructure'
  <2>1. /\ Starting(w) /\ Advances /\ w \in Range(WorkerClasses) /\ w # "running"
        /\ up' = up \cup {w} /\ inList' = inList \cup {w} /\ failures' = failures /\ running' = running
    BY <1>2, <1>5 DEF StartWorker
  <2>2. running' = (running \/ w = "running")
    BY <2>1 DEF LifeStructure, TypeOKLife
  <2>3. failures' \in failures..Failures
    BY <1>1, <2>1
  <2> QED BY <1>1, <1>3, <2>1, <2>2, <2>3, StartKeeps
<1>6. ASSUME NEW w, WorkerFails(w) PROVE LifeStructure'
  <2>1. /\ Starting(w) /\ Advances /\ w \in Range(WorkerClasses) /\ w # "running"
        /\ up' \in {up, up \cup {w}} /\ inList' = inList /\ failures' = failures + 1
        /\ failures < Failures /\ running' = running
    BY <1>2, <1>6 DEF WorkerFails
  <2>2. running' = (running \/ w = "running")
    BY <2>1 DEF LifeStructure, TypeOKLife
  <2>3. failures' \in failures..Failures /\ failures' # 0
    BY <1>1, <2>1
  <2> QED BY <1>1, <2>1, <2>2, <2>3, StartKeeps
<1>7. ASSUME NEW c \in Callers, ReturnAtOnce(c) PROVE LifeStructure'
  <2>1. at' = [at EXCEPT ![c] = Returned] /\ at'[c] = Returned
    BY <1>7, LifeTypes DEF ReturnAtOnce
  <2>2. exited' \in BOOLEAN /\ failures' \in failures..Failures
    BY <1>1, <1>7 DEF ReturnAtOnce
  <2> QED BY <1>7, <2>1, <2>2, EndKeeps DEF ReturnAtOnce
<1>8. ASSUME NEW c \in Callers, EndShutdown(c) PROVE LifeStructure'
  <2>1. at' = [at EXCEPT ![c] = Returned] /\ at'[c] = Returned /\ at[c] > 0
    BY <1>8, LifeTypes DEF EndShutdown
  <2>2. exited' \in BOOLEAN /\ failures' \in failures..Failures
    BY <1>1, <1>8 DEF EndShutdown
  <2> QED BY <1>8, <2>1, <2>2, EndKeeps DEF EndShutdown
<1>9. ASSUME NEW c \in Callers, ShutdownFails(c) PROVE LifeStructure'
  <2>1. at' = [at EXCEPT ![c] = HasRejected] /\ at'[c] = HasRejected
    BY <1>9, LifeTypes DEF ShutdownFails
  <2>2. exited' \in BOOLEAN /\ failures' \in failures..Failures
    BY <1>1, <1>9 DEF ShutdownFails, LifeStructure, TypeOKLife
  <2> QED BY <1>9, <2>1, <2>2, EndKeeps DEF ShutdownFails
<1>10. ASSUME NEW c \in Callers, ShutdownStep(c) PROVE LifeStructure'
  <2> DEFINE p == Undoes(c)
  <2>1. /\ InShutdown(c) /\ StopsPart(p) /\ Record(p) /\ at' = [at EXCEPT ![c] = @ + 1]
        /\ UNCHANGED <<step, startup, running, inList, exited, failures, whole>>
    BY <1>10 DEF ShutdownStep
  <2>2. p \in Range(ShutdownSteps)
    BY <2>1, LifeTypes DEF InShutdown, Undoes, Steps
  <2>3. p \notin Range(Storages)
    BY <2>2, NotStopped
  <2> HIDE DEF p
  <2>4. /\ p # "storages" =>
             /\ up' \subseteq up /\ up \ up' \subseteq {p}
             /\ p \notin up' \/ p \in Range(WorkerClasses) \ inList
        /\ p = "storages" => up' = up \ Range(Storages)
    <3>1. "storages" \notin Range(WorkerClasses)
      BY NamesApart DEF OwnParts
    <3> QED BY <2>1, <3>1 DEF StopsPart
  <2>5. /\ up' \subseteq up /\ (p # "storages" => up \cap Range(Storages) \subseteq up')
        /\ up \ up' \subseteq Range(ShutdownSteps) \cup Range(Storages)
        /\ p = "storages" => up' \cap Range(Storages) = {}
    BY <2>2, <2>3, <2>4
  <2>6. failures' \in failures..Failures
    BY <1>1, <2>1
  <2> QED BY <2>1, <2>4, <2>5, <2>6, StepOfShutdownKeeps DEF p
<1>11. ASSUME NEW c \in Callers, StorageStays(c) PROVE LifeStructure'
  <2>1. /\ InShutdown(c) /\ Undoes(c) = "storages" /\ Record(Undoes(c))
        /\ at' = [at EXCEPT ![c] = @ + 1]
        /\ UNCHANGED <<step, startup, running, inList, exited, whole>>
        /\ failures' = failures + 1 /\ failures < Failures
        /\ \E s \in Range(Storages) : up' = (up \ Range(Storages)) \cup ({s} \cap up)
    BY <1>11 DEF StorageStays
  <2>2. up' \subseteq up /\ up \ up' \subseteq Range(ShutdownSteps) \cup Range(Storages)
    BY <2>1
  <2>3. failures' \in failures..Failures /\ failures' # 0
    BY <1>1, <2>1
  <2> QED BY <2>1, <2>2, <2>3, StepOfShutdownKeeps
<1>12. CASE UNCHANGED lifeVars
  <2>1. /\ UNCHANGED <<step, startup, running, up, inList, at, exited, failures, undone>>
        /\ UNCHANGED <<without, whole>> /\ Started' = Started
    BY <1>12 DEF lifeVars, Started
  <2> QED BY <2>1 DEF LifeStructure, TypeOKLife, OneCall, InOrder, NotYet, StartMoves, PartsUp, Gone,
                      Undone, Steps
<1> QED BY <1>4, <1>5, <1>6, <1>7, <1>8, <1>9, <1>10, <1>11, <1>12, StartFailsKeeps, BeginKeeps
        DEF NextLife

\* Every variable of the start-up keeps its type.
THEOREM LifecycleTypeCorrect == SpecLife => []TypeOKLife
<1>1. LifeStructure => TypeOKLife
  BY DEF LifeStructure
<1> QED BY <1>1, InitLifeStructure, StepLifeStructure, PTL DEF SpecLife

\* Whatever the modules, storages and workers of a process are, and however many signals,
\* errors and calls ask it to stop, whenever they do (Bootstrap.ts:290): each part is shut down
\* once at most, the modules before the storages are closed, and of a process that had come
\* up, if nothing fails, all of them; only the timers of the schedules are left.
THEOREM AlwaysStopsInOrder == SpecLife => []StopsInOrder
<1>1. LifeStructure => StopsInOrder
  <2> SUFFICES ASSUME LifeStructure PROVE StopsInOrder
    OBVIOUS
  <2>1. DOMAIN ShutdownSteps = Steps /\ Len(ShutdownSteps) \in Nat /\ Len(ShutdownSteps) >= 2
    BY ShutdownIs DEF Steps
  <2>2. PartsStopOnce
    BY <2>1 DEF LifeStructure, InOrder, PartsStopOnce, Range
  <2>3. StoragesOutliveModules
    BY DEF LifeStructure, StoragesOutliveModules
  <2>4. NothingLeft
    <3> SUFFICES ASSUME undone["locks"] > 0, "handlers" \notin up, whole, failures = 0,
                        NEW x \in up
                 PROVE  x = "timers"
      BY DEF NothingLeft
    <3>1. \A j \in Steps : Undone(ShutdownSteps[j])
      <4>1. Len(ShutdownSteps) \in Steps /\ ShutdownSteps[Len(ShutdownSteps)] = "locks"
        BY <2>1, ShutdownIs DEF Steps
      <4> QED BY <4>1 DEF LifeStructure, InOrder, Undone, Steps
    <3>2. \A q \in Range(ShutdownSteps) : Undone(q)
      BY <2>1, <3>1 DEF Range
    <3>3. /\ "exchange" \notin up
          /\ \A q \in Range(ShutdownSteps) :
               q \notin up /\ (q = "storages" => up \cap Range(Storages) = {})
      BY <3>2 DEF LifeStructure, Gone
    <3>4. x \in Range(StartSteps) /\ x # "running"
      BY DEF LifeStructure, PartsUp
    <3>5. "storages" \in Range(ShutdownSteps)
      BY LifeTypes
    <3> QED BY <3>3, <3>4, <3>5, StartIs
  <2> QED BY <2>2, <2>3, <2>4 DEF StopsInOrder
<1> QED BY <1>1, InitLifeStructure, StepLifeStructure, PTL DEF SpecLife

-----------------------------------------------------------------------------
(*****************************************************************************)
(* Files                                                                     *)
(*                                                                           *)
(* FilesStructure: what tail() holds is the rest of the file as it was when  *)
(* its size was looked at, from some character on, with the newlines in it   *)
(* but the last character counted; what less() holds is nothing yet, or all  *)
(* characters of the lines asked for among those it has read.                *)
(*****************************************************************************)

Chars == {"a", NL}

\* Where there is a newline from the a-th character to the b-th.
NewLinesIn(s, a, b) == {j \in a..b : s[j] = NL}

\* A stretch of a file has finitely many newlines, an empty one none.
LEMMA FewNewLines ==
  ASSUME NEW s, NEW a \in Int, NEW b \in Int
  PROVE  /\ IsFiniteSet(NewLinesIn(s, a, b)) /\ Cardinality(NewLinesIn(s, a, b)) \in Nat
         /\ a > b => Cardinality(NewLinesIn(s, a, b)) = 0
<1>1. IsFiniteSet(a..b) /\ NewLinesIn(s, a, b) \in SUBSET (a..b)
  BY FS_Interval DEF NewLinesIn
<1>2. IsFiniteSet(NewLinesIn(s, a, b))
  BY <1>1, FS_Subset
<1>3. a > b => NewLinesIn(s, a, b) = {}
  BY DEF NewLinesIn
<1> QED BY <1>2, <1>3, FS_CardinalityType, FS_EmptySet

\* One more at either end of them.
LEMMA OneBefore ==
  ASSUME NEW s, NEW a \in Int, NEW b \in Int, a <= b
  PROVE  Cardinality(NewLinesIn(s, a, b)) = Cardinality(NewLinesIn(s, a + 1, b)) + NewLines(s[a])
<1> DEFINE rest == NewLinesIn(s, a + 1, b)
<1>1. IsFiniteSet(rest) /\ Cardinality(rest) \in Nat
  BY FewNewLines
<1>2. a \notin rest
  BY DEF NewLinesIn
<1>3. NewLinesIn(s, a, b) = IF s[a] = NL THEN rest \cup {a} ELSE rest
  BY DEF NewLinesIn
<1>4. Cardinality(rest \cup {a}) = Cardinality(rest) + 1
  <2> HIDE DEF rest
  <2> QED BY <1>1, <1>2, FS_AddElement
<1> QED BY <1>1, <1>3, <1>4 DEF NewLines

\* A stretch that is one character longer has one more if that is a newline.
LEMMA OneBehind ==
  ASSUME NEW s, NEW a \in Int, NEW b \in Int, a <= b
  PROVE  Cardinality(NewLinesIn(s, a, b)) = Cardinality(NewLinesIn(s, a, b - 1)) + NewLines(s[b])
<1> DEFINE rest == NewLinesIn(s, a, b - 1)
<1>1. IsFiniteSet(rest) /\ Cardinality(rest) \in Nat
  BY FewNewLines
<1>2. b \notin rest
  BY DEF NewLinesIn
<1>3. NewLinesIn(s, a, b) = IF s[b] = NL THEN rest \cup {b} ELSE rest
  BY DEF NewLinesIn
<1>4. Cardinality(rest \cup {b}) = Cardinality(rest) + 1
  <2> HIDE DEF rest
  <2> QED BY <1>1, <1>2, FS_AddElement
<1> QED BY <1>1, <1>3, <1>4 DEF NewLines

\* The least and the greatest of a set that are known.
LEMMA LeastIs ==
  ASSUME NEW S \in SUBSET Int, NEW x \in S, \A y \in S : x <= y
  PROVE  Min(S) = x
<1>1. \A z \in S : (\A y \in S : z <= y) => z = x
  OBVIOUS
<1>2. (CHOOSE z \in S : \A y \in S : z =< y) = x
  BY <1>1
<1> QED BY <1>2 DEF Min

\* An element that no other exceeds is the maximum.
LEMMA GreatestIs ==
  ASSUME NEW S \in SUBSET Int, NEW x \in S, \A y \in S : y <= x
  PROVE  Max(S) = x
<1>1. \A z \in S : (\A y \in S : z >= y) => z = x
  OBVIOUS
<1>2. (CHOOSE z \in S : \A y \in S : z >= y) = x
  BY <1>1
<1> QED BY <1>2 DEF Max

\* The number of a line, from one character to the next and to any later one.
LEMMA NextLineOf ==
  ASSUME NEW s, NEW i \in Nat \ {0}
  PROVE  /\ LineOf(s, i) \in Nat /\ LineOf(s, 1) = 0
         /\ LineOf(s, i + 1) = LineOf(s, i) + NewLines(s[i])
<1>1. \A k \in Nat : LineOf(s, k) = Cardinality(NewLinesIn(s, 1, k - 1))
  BY DEF LineOf, NewLinesIn
<1>2. Cardinality(NewLinesIn(s, 1, i)) = Cardinality(NewLinesIn(s, 1, i - 1)) + NewLines(s[i])
  BY OneBehind
<1>3. Cardinality(NewLinesIn(s, 1, i - 1)) \in Nat /\ Cardinality(NewLinesIn(s, 1, 0)) = 0
  BY FewNewLines
<1> QED BY <1>1, <1>2, <1>3

\* A later character is in no earlier line.
LEMMA LaterLineOf ==
  ASSUME NEW s, NEW i \in Nat \ {0}, NEW j \in Nat \ {0}, i <= j
  PROVE  LineOf(s, i) <= LineOf(s, j)
<1>1. LineOf(s, i) = Cardinality(NewLinesIn(s, 1, i - 1)) /\ LineOf(s, j) = Cardinality(NewLinesIn(s, 1, j - 1))
  BY DEF LineOf, NewLinesIn
<1>2. NewLinesIn(s, 1, i - 1) \in SUBSET NewLinesIn(s, 1, j - 1)
  BY DEF NewLinesIn
<1>3. IsFiniteSet(NewLinesIn(s, 1, j - 1))
  BY FewNewLines
<1> QED BY <1>1, <1>2, <1>3, FS_Subset

-----------------------------------------------------------------------------
(* What tail() has read *)

\* The rest of s from a on, its newlines but the last character counted.
TailFrom(s, a, lines, count, n) ==
  /\ lines = SubSeq(s, a, Len(s))
  /\ count = Cardinality(NewLinesIn(s, a, Len(s) - 1))
  /\ count <= n
  /\ count = n => a < Len(s) /\ s[a] = NL

\* The lines that start at i or later.
Starts(s) == {i \in DOMAIN s : i = 1 \/ s[i - 1] = NL}
StartsFrom(s, i) == {j \in Starts(s) : j >= i}

\* There are finitely many places at which lines begin.
LEMMA StartsFinite ==
  ASSUME NEW s \in Seq(Chars), NEW i \in Int
  PROVE  IsFiniteSet(StartsFrom(s, i)) /\ StartsFrom(s, i) \in SUBSET (1..Len(s))
<1>1. StartsFrom(s, i) \in SUBSET (1..Len(s))
  BY LenProperties DEF StartsFrom, Starts
<1>2. IsFiniteSet(1..Len(s))
  BY FS_Interval, LenProperties
<1> QED BY <1>1, <1>2, FS_Subset

\* As many as there are newlines before them.
LEMMA StartsCounted ==
  ASSUME NEW s \in Seq(Chars), NEW i \in 2..(Len(s) + 1)
  PROVE  Cardinality(StartsFrom(s, i)) = Cardinality(NewLinesIn(s, i - 1, Len(s) - 1))
<1> DEFINE N == NewLinesIn(s, i - 1, Len(s) - 1)
           f == [j \in N |-> j + 1]
<1>0. Len(s) \in Nat /\ DOMAIN s = 1..Len(s)
  BY LenProperties
<1>1. f \in Bijection(N, StartsFrom(s, i))
  <2>1. \A j \in N : j \in Int /\ j + 1 \in StartsFrom(s, i)
    BY <1>0 DEF NewLinesIn, StartsFrom, Starts
  <2>2. \A t \in StartsFrom(s, i) : t - 1 \in N /\ f[t - 1] = t
    BY <1>0 DEF NewLinesIn, StartsFrom, Starts
  <2>3. f \in [N -> StartsFrom(s, i)]
    BY <2>1
  <2>4. \A j, k \in N : f[j] = f[k] => j = k
    BY <2>1
  <2> HIDE DEF f, N
  <2> QED BY <2>2, <2>3, <2>4 DEF Bijection, Injection, Surjection, IsInjective
<1>2. IsFiniteSet(N)
  BY <1>0, FewNewLines
<1> HIDE DEF f, N
<1>3. ExistsBijection(N, StartsFrom(s, i))
  BY <1>1 DEF ExistsBijection
<1>4. Cardinality(StartsFrom(s, i)) = Cardinality(N)
  BY <1>2, <1>3, FS_Bijection
<1> QED BY <1>4 DEF N

\* A file that is not empty has a line more than newlines before its last character.
LEMMA StartsAll ==
  ASSUME NEW s \in Seq(Chars), s # <<>>
  PROVE  /\ Cardinality(StartsFrom(s, 1)) = Cardinality(NewLinesIn(s, 1, Len(s) - 1)) + 1
         /\ 1 \in Starts(s)
<1>0. Len(s) \in Nat \ {0} /\ DOMAIN s = 1..Len(s)
  BY LenProperties, EmptySeq
<1>1. StartsFrom(s, 1) = StartsFrom(s, 2) \cup {1} /\ 1 \notin StartsFrom(s, 2) /\ 1 \in Starts(s)
  BY <1>0 DEF StartsFrom, Starts
<1>2. IsFiniteSet(StartsFrom(s, 2)) /\ Cardinality(StartsFrom(s, 2)) \in Nat
  BY StartsFinite, FS_CardinalityType
<1>3. Cardinality(StartsFrom(s, 2)) = Cardinality(NewLinesIn(s, 1, Len(s) - 1))
  BY <1>0, StartsCounted
<1> QED BY <1>1, <1>2, <1>3, FS_AddElement

\* Where the last n lines begin: behind the n-th newline from the end, or at
\* the beginning when there are fewer.
FirstOf(s, n) == Min({i \in Starts(s) : Cardinality(StartsFrom(s, i)) <= n})

\* The last lines are what there is from FirstOf on.
LEMMA LastLinesFrom ==
  ASSUME NEW s \in Seq(Chars), NEW n \in Nat, s # <<>>
  PROVE  LastLines(s, n) = SubSeq(s, IF FirstOf(s, n) = 1 /\ s[1] = NL THEN 2 ELSE FirstOf(s, n), Len(s))
BY DEF LastLines, FirstOf, Starts, StartsFrom

\* Behind a newline begin as many lines as newlines are left from it on.
LEMMA BehindNewLine ==
  ASSUME NEW s \in Seq(Chars), NEW f \in 2..Len(s), s[f - 1] = NL
  PROVE  FirstOf(s, Cardinality(NewLinesIn(s, f - 1, Len(s) - 1))) = f
<1> DEFINE n == Cardinality(NewLinesIn(s, f - 1, Len(s) - 1))
           S == {i \in Starts(s) : Cardinality(StartsFrom(s, i)) <= n}
<1>0. Len(s) \in Nat /\ DOMAIN s = 1..Len(s)
  BY LenProperties
<1>1. Cardinality(StartsFrom(s, f)) = n
  BY <1>0, StartsCounted
<1>2. f \in Starts(s) /\ Starts(s) \in SUBSET Int /\ n \in Nat
  BY <1>0, FewNewLines DEF Starts
<1>3. ASSUME NEW i \in S, i < f PROVE FALSE
  <2>1. StartsFrom(s, f) \in SUBSET StartsFrom(s, i) /\ i \in StartsFrom(s, i) /\ i \notin StartsFrom(s, f)
    BY <1>2, <1>3 DEF StartsFrom
  <2>2. IsFiniteSet(StartsFrom(s, i)) /\ IsFiniteSet(StartsFrom(s, f)) /\ i \in Int
    BY <1>2, StartsFinite
  <2>3. Cardinality(StartsFrom(s, i)) \in Nat /\ Cardinality(StartsFrom(s, i)) <= n
    BY <2>2, FS_CardinalityType
  <2>4. Cardinality(StartsFrom(s, i)) = Cardinality(StartsFrom(s, f))
    BY <1>1, <1>2, <2>1, <2>2, <2>3, FS_Subset
  <2>5. StartsFrom(s, i) = StartsFrom(s, f)
    BY <2>1, <2>2, <2>4, FS_Subset
  <2> QED BY <2>1, <2>5
<1>4. S \in SUBSET Int /\ f \in S /\ \A y \in S : f <= y
  BY <1>1, <1>2, <1>3
<1> HIDE DEF S
<1>5. Min(S) = f
  BY <1>4, LeastIs
<1> QED BY <1>5 DEF FirstOf, S

\* A file with too few newlines is given back from its first line on.
LEMMA FromTheFirst ==
  ASSUME NEW s \in Seq(Chars), s # <<>>, NEW n \in Nat,
         Cardinality(NewLinesIn(s, 1, Len(s) - 1)) < n
  PROVE  FirstOf(s, n) = 1
<1> DEFINE S == {i \in Starts(s) : Cardinality(StartsFrom(s, i)) <= n}
<1>0. Len(s) \in Nat /\ DOMAIN s = 1..Len(s)
  BY LenProperties
<1>1. Cardinality(StartsFrom(s, 1)) <= n /\ 1 \in Starts(s)
  BY <1>0, StartsAll, FewNewLines
<1>2. S \in SUBSET Int /\ 1 \in S /\ \A y \in S : 1 <= y
  BY <1>0, <1>1 DEF Starts
<1> HIDE DEF S
<1>3. Min(S) = 1
  BY <1>2, LeastIs
<1> QED BY <1>3 DEF FirstOf, S

\* What tail() gives back when it is through.
LEMMA TailIsExact ==
  ASSUME NEW s \in Seq(Chars), NEW n \in Nat \ {0}, NEW a \in 1..(Len(s) + 1),
         NEW lines, NEW count, TailFrom(s, a, lines, count, n), a = 1 \/ count = n
  PROVE  (IF lines # <<>> /\ lines[1] = NL THEN Tail(lines) ELSE lines) = LastLines(s, n)
<1>0. Len(s) \in Nat /\ DOMAIN s = 1..Len(s)
  BY LenProperties
<1>a. /\ lines = SubSeq(s, a, Len(s))
      /\ count = Cardinality(NewLinesIn(s, a, Len(s) - 1))
      /\ count <= n
      /\ count = n => a < Len(s) /\ s[a] = NL
  BY DEF TailFrom
<1>1. CASE s = <<>>
  <2>1. a = 1 /\ Len(s) = 0
    BY <1>0, <1>1
  <2>2. lines = <<>>
    BY <1>a, <2>1, SubSeqEmpty
  <2> QED BY <1>1, <2>2 DEF LastLines
<1>2. CASE s # <<>> /\ count = n
  <2>1. a + 1 \in 2..Len(s) /\ s[a] = NL /\ a \in 1..Len(s) /\ Len(s) \in a..Len(s)
    BY <1>0, <1>a, <1>2
  <2>2. FirstOf(s, n) = a + 1
    <3>1. (a + 1) - 1 = a
      BY <2>1
    <3> QED BY <1>a, <1>2, <2>1, <3>1, BehindNewLine
  <2>3. LastLines(s, n) = SubSeq(s, a + 1, Len(s))
    <3>1. FirstOf(s, n) # 1
      BY <2>1, <2>2
    <3>2. LastLines(s, n) = SubSeq(s, FirstOf(s, n), Len(s))
      BY <1>2, <3>1, LastLinesFrom
    <3> QED BY <2>2, <3>2
  <2>4. Head(lines) = NL /\ Tail(lines) = SubSeq(s, a + 1, Len(s))
    BY <1>a, <2>1, HeadTailOfSubSeq
  <2>5. Len(lines) > 0 /\ lines \in Seq(Chars)
    BY <1>0, <1>a, <2>1
  <2>6. lines # <<>> /\ lines[1] = NL
    BY <2>4, <2>5
  <2> QED BY <2>3, <2>4, <2>6
<1>3. CASE s # <<>> /\ count # n
  <2>1. a = 1
    BY <1>3
  <2>2. count = Cardinality(NewLinesIn(s, 1, Len(s) - 1))
    BY <1>a, <2>1
  <2>3. Cardinality(NewLinesIn(s, 1, Len(s) - 1)) < n
    <3>1. Cardinality(NewLinesIn(s, 1, Len(s) - 1)) \in Nat
      BY <1>0, FewNewLines
    <3> QED BY <1>3, <1>a, <2>2, <3>1
  <2>4. FirstOf(s, n) = 1
    BY <1>3, <2>3, FromTheFirst
  <2>5. LastLines(s, n) = SubSeq(s, IF s[1] = NL THEN 2 ELSE 1, Len(s))
    BY <1>3, <2>4, LastLinesFrom
  <2>6. lines = s
    BY <1>a, <2>1, SubSeqFull
  <2>7. Tail(s) = SubSeq(s, 2, Len(s)) /\ SubSeq(s, 1, Len(s)) = s
    BY <1>3, TailIsSubSeq, SubSeqFull
  <2> QED BY <1>3, <2>5, <2>6, <2>7
<1> QED BY <1>1, <1>2, <1>3

\* A character before it keeps that.
LEMMA TailGoesOn ==
  ASSUME NEW s \in Seq(Chars), NEW n \in Nat \ {0}, NEW a \in 1..Len(s),
         NEW lines, NEW count, TailFrom(s, a + 1, lines, count, n), count < n
  PROVE  TailFrom(s, a, <<s[a]>> \o lines,
                  IF lines # <<>> THEN count + NewLines(s[a]) ELSE count, n)
<1> SUFFICES ASSUME NEW t, t = IF lines # <<>> THEN count + NewLines(s[a]) ELSE count
             PROVE  TailFrom(s, a, <<s[a]>> \o lines, t, n)
  OBVIOUS
<1>0. Len(s) \in Nat
  BY LenProperties
<1>a. /\ lines = SubSeq(s, a + 1, Len(s))
      /\ count = Cardinality(NewLinesIn(s, a + 1, Len(s) - 1))
  BY DEF TailFrom
<1>1. <<s[a]>> \o lines = SubSeq(s, a, Len(s))
  <2>1. SubSeq(s, a, Len(s)) = <<s[a]>> \o SubSeq(s, a + 1, Len(s))
    BY <1>0, SubSeqRecursiveFirst
  <2> QED BY <1>a, <2>1
<1>2. CASE a = Len(s)
  <2>1. lines = <<>>
    BY <1>0, <1>a, <1>2, SubSeqEmpty
  <2>2. count = 0 /\ Cardinality(NewLinesIn(s, a, Len(s) - 1)) = 0
    BY <1>0, <1>a, <1>2, FewNewLines
  <2>3. t = 0
    BY <2>1, <2>2
  <2> QED BY <1>0, <1>1, <2>2, <2>3 DEF TailFrom
<1>3. CASE a < Len(s)
  <2>1. lines # <<>>
    <3>1. \A i \in (a + 1)..Len(s) : s[i] \in Chars
      BY <1>0, ElementOfSeq
    <3>2. a + 1 \in Int /\ Len(s) \in Int /\ a + 1 <= Len(s)
      BY <1>0, <1>3
    <3>3. Len(SubSeq(s, a + 1, Len(s))) = Len(s) - (a + 1) + 1
      BY <3>1, <3>2, SubSeqProperties
    <3>4. Len(SubSeq(s, a + 1, Len(s))) # 0
      BY <1>0, <1>3, <3>3
    <3> QED BY <1>a, <3>4, EmptySeq
  <2>2. Cardinality(NewLinesIn(s, a, Len(s) - 1)) = Cardinality(NewLinesIn(s, a + 1, Len(s) - 1)) + NewLines(s[a])
    <3>1. a <= Len(s) - 1 /\ Len(s) - 1 \in Int
      BY <1>0, <1>3
    <3> QED BY <3>1, OneBefore
  <2>3. count \in Nat
    BY <1>0, <1>a, FewNewLines
  <2>4. t = Cardinality(NewLinesIn(s, a, Len(s) - 1)) /\ t = count + NewLines(s[a])
    BY <1>a, <2>1, <2>2
  <2>5. t <= n /\ (t = n => s[a] = NL)
    BY <2>3, <2>4 DEF NewLines
  <2> QED BY <1>0, <1>1, <1>3, <2>4, <2>5 DEF TailFrom
<1>4. a = Len(s) \/ a < Len(s)
  BY <1>0
<1> QED BY <1>2, <1>3, <1>4

-----------------------------------------------------------------------------
(* What less() has read *)

\* Nothing yet of the lines from .. from + n - 1 among the first k characters ...
Before(s, k, from, lines, count, selected, started) ==
  /\ lines = <<>> /\ ~started /\ selected = 0
  /\ count <= from
  /\ \A i \in 1..k : LineOf(s, i) < from

\* ... or all of them there are, which is from the b-th character to the e-th.
Within(s, k, b, e, from, n, lines, count, selected, started) ==
  /\ lines = SubSeq(s, b, e)
  /\ \A i \in 1..(b - 1) : LineOf(s, i) < from
  /\ LineOf(s, b) = from /\ LineOf(s, e) < from + n
  /\ \/ started /\ e = k /\ count >= from /\ selected = count - from
     \/ ~started /\ e < k /\ LineOf(s, e + 1) >= from + n

LessHeld(s, k, from, n, lines, count, selected, started) ==
  /\ count = LineOf(s, k + 1)
  /\ \/ Before(s, k, from, lines, count, selected, started)
     \/ \E b, e \in 1..k :
          b <= e /\ Within(s, k, b, e, from, n, lines, count, selected, started)

\* What less() gives back when it is through, but for the last character.
LEMMA LessIsExact ==
  ASSUME NEW s \in Seq(Chars), NEW from \in Nat, NEW n \in Nat \ {0}, NEW k \in 0..Len(s),
         NEW lines, NEW count, NEW selected, NEW started \in BOOLEAN,
         LessHeld(s, k, from, n, lines, count, selected, started),
         k = Len(s) \/ (~started /\ lines # <<>>)
  PROVE  lines = Lines(s, from, n)
<1> DEFINE chars == {i \in DOMAIN s : LineOf(s, i) \in from..(from + n - 1)}
<1>0. DOMAIN s = 1..Len(s)
  BY LenProperties
<1>00. Len(s) \in Nat
  BY LenProperties
<1>a. \A i \in 1..Len(s) : LineOf(s, i) \in Nat
  BY NextLineOf, SMTT(20)
<1>b. chars = {i \in 1..Len(s) : from <= LineOf(s, i) /\ LineOf(s, i) < from + n}
  <2>1. \A v \in Nat : v \in from..(from + n - 1) <=> from <= v /\ v < from + n
    OBVIOUS
  <2> QED BY <1>0, <1>a, <2>1
<1>1. CASE Before(s, k, from, lines, count, selected, started)
  <2>1. k = Len(s) /\ lines = <<>>
    BY <1>1 DEF Before
  <2>2. chars = {}
    BY <1>00, <1>a, <1>b, <1>1, <2>1 DEF Before
  <2> QED BY <2>1, <2>2 DEF Lines
<1>2. ASSUME NEW b \in 1..k, NEW e \in 1..k, b <= e,
             Within(s, k, b, e, from, n, lines, count, selected, started)
      PROVE  lines = Lines(s, from, n)
  <2>1. \A i \in b..e : LineOf(s, b) <= LineOf(s, i) /\ LineOf(s, i) <= LineOf(s, e)
    BY <1>00, <1>2, LaterLineOf
  <2>2. \A i \in 1..Len(s) : i > e => LineOf(s, i) >= from + n
    <3>1. CASE started
      BY <1>00, <1>2, <3>1 DEF Within
    <3>2. CASE ~started
      <4>1. LineOf(s, e + 1) >= from + n /\ LineOf(s, e + 1) \in Nat
        BY <1>2, <3>2, NextLineOf DEF Within
      <4>2. \A i \in 1..Len(s) : i > e => LineOf(s, e + 1) <= LineOf(s, i)
        BY <1>00, <1>2, LaterLineOf
      <4> QED BY <1>a, <4>1, <4>2
    <3> QED BY <3>1, <3>2
  <2>3. b..e \in SUBSET (1..Len(s))
    BY <1>00, <1>2
  <2>4. LineOf(s, b) = from /\ LineOf(s, e) < from + n /\ \A i \in 1..(b - 1) : LineOf(s, i) < from
    BY <1>2 DEF Within
  <2>5. chars = b..e
    BY <1>00, <1>a, <1>b, <1>2, <2>1, <2>2, <2>3, <2>4
  <2>6. Min(b..e) = b /\ Max(b..e) = e
    <3>1. b..e \in SUBSET Int /\ b \in b..e /\ e \in b..e /\ \A y \in b..e : b <= y /\ y <= e
      BY <1>2
    <3> QED BY <3>1, LeastIs, GreatestIs
  <2>7. b \in b..e
    BY <1>2
  <2> QED BY <1>2, <2>5, <2>6, <2>7 DEF Lines, Within
<1> QED BY <1>1, <1>2 DEF LessHeld

\* A character more keeps it.
LEMMA LessGoesOn ==
  ASSUME NEW s \in Seq(Chars), NEW from \in Nat, NEW n \in Nat \ {0}, NEW k \in 0..(Len(s) - 1),
         NEW lines, NEW count, NEW selected, NEW started \in BOOLEAN,
         LessHeld(s, k, from, n, lines, count, selected, started),
         started \/ lines = <<>>,
         NEW taken \in BOOLEAN, taken <=> count >= from /\ selected < n
  PROVE  LessHeld(s, k + 1, from, n,
                  IF taken THEN Append(lines, s[k + 1]) ELSE lines,
                  count + NewLines(s[k + 1]),
                  selected + (IF taken THEN NewLines(s[k + 1]) ELSE 0), taken)
<1> DEFINE c == s[k + 1]  L == IF taken THEN Append(lines, c) ELSE lines
           S == selected + (IF taken THEN NewLines(c) ELSE 0)
           C == count + NewLines(c)
<1>0. Len(s) \in Nat /\ k \in Nat /\ k + 1 \in 1..Len(s)
  BY LenProperties
<1>1. /\ count = LineOf(s, k + 1) /\ count \in Nat
      /\ C = LineOf(s, k + 1 + 1) /\ C \in Nat
      /\ C <= count + 1 /\ count <= C /\ NewLines(c) \in Nat
  <2>1. count = LineOf(s, k + 1)
    BY DEF LessHeld
  <2>2. k + 1 \in Nat \ {0}
    BY <1>0
  <2>3. LineOf(s, k + 1) \in Nat /\ LineOf(s, k + 1 + 1) = LineOf(s, k + 1) + NewLines(c)
    BY <2>2, NextLineOf
  <2> QED BY <2>1, <2>3 DEF NewLines
<1>2. CASE Before(s, k, from, lines, count, selected, started) /\ ~taken
  <2>1. count < from
    BY <1>1, <1>2 DEF Before
  <2>2. \A i \in 1..(k + 1) : LineOf(s, i) < from
    BY <1>0, <1>1, <1>2, <2>1 DEF Before
  <2>3. C <= from /\ L = <<>> /\ S = 0
    BY <1>1, <1>2, <2>1 DEF Before
  <2>4. Before(s, k + 1, from, L, C, S, taken)
    BY <1>2, <2>2, <2>3 DEF Before
  <2> QED BY <1>1, <2>4 DEF LessHeld
<1>3. CASE Before(s, k, from, lines, count, selected, started) /\ taken
  <2>1. count = from /\ lines = <<>> /\ selected = 0
    BY <1>1, <1>3 DEF Before
  <2>2. L = SubSeq(s, k + 1, k + 1)
    <3>1. L = <<c>>
      BY <1>3, <2>1
    <3>2. SubSeq(s, k + 1, k + 1) = SubSeq(s, k + 1, k) \o <<c>> /\ SubSeq(s, k + 1, k) = <<>>
      <4>1. SubSeq(s, k + 1, k + 1) = SubSeq(s, k + 1, (k + 1) - 1) \o <<s[k + 1]>> /\ (k + 1) - 1 = k
        BY <1>0, SubSeqRecursiveSecond
      <4>2. SubSeq(s, k + 1, k) = <<>>
        BY <1>0, SubSeqEmpty
      <4> QED BY <4>1, <4>2
    <3> QED BY <3>1, <3>2
  <2>3. \A i \in 1..(k + 1 - 1) : LineOf(s, i) < from
    BY <1>0, <1>3 DEF Before
  <2>4. LineOf(s, k + 1) = from /\ from < from + n
    BY <1>1, <2>1
  <2>5. S = C - from /\ C >= from
    BY <1>1, <1>3, <2>1
  <2>6. Within(s, k + 1, k + 1, k + 1, from, n, L, C, S, taken)
    BY <1>3, <2>2, <2>3, <2>4, <2>5 DEF Within
  <2> QED BY <1>0, <1>1, <2>6 DEF LessHeld
<1>4. ASSUME NEW b \in 1..k, NEW e \in 1..k, b <= e,
             Within(s, k, b, e, from, n, lines, count, selected, started)
      PROVE  LessHeld(s, k + 1, from, n, L, C, S, taken)
  <2>1. started
    <3>1. Len(SubSeq(s, b, e)) # 0
      <4>1. \A i \in b..e : s[i] \in Chars
        BY <1>0, <1>4, ElementOfSeq
      <4>2. Len(SubSeq(s, b, e)) = e - b + 1
        BY <1>4, <4>1, SubSeqProperties
      <4> QED BY <1>4, <4>2
    <3>2. lines # <<>>
      BY <1>4, <3>1, EmptySeq DEF Within
    <3> QED BY <3>2
  <2>2. e = k /\ count >= from /\ selected = count - from /\ lines = SubSeq(s, b, k)
    BY <1>4, <2>1 DEF Within
  <2>3. b \in 1..(k + 1) /\ k + 1 \in 1..(k + 1) /\ k \in 1..(k + 1) /\ b <= k + 1 /\ b <= k
    BY <1>0, <1>4, <2>2
  <2>4. CASE taken
    <3>1. L = SubSeq(s, b, k + 1)
      <4>1. SubSeq(s, b, k + 1) = SubSeq(s, b, (k + 1) - 1) \o <<s[k + 1]>> /\ (k + 1) - 1 = k
        BY <1>0, <2>3, SubSeqRecursiveSecond
      <4>2. \A i \in b..k : s[i] \in Chars
        BY <1>0, <1>4, ElementOfSeq
      <4>3. lines \in Seq(Chars) /\ c \in Chars
        BY <1>0, <1>4, <2>2, <4>2, ElementOfSeq, SubSeqProperties
      <4>4. Append(lines, c) = lines \o <<c>>
        BY <4>3
      <4> QED BY <2>2, <2>4, <4>1, <4>4
    <3>2. LineOf(s, k + 1) < from + n
      BY <1>1, <2>2, <2>4
    <3>3. S = C - from /\ C >= from
      BY <1>1, <2>2, <2>4, SMTT(20)
    <3>4. Within(s, k + 1, b, k + 1, from, n, L, C, S, taken)
      BY <1>4, <2>4, <3>1, <3>2, <3>3 DEF Within
    <3> QED BY <1>1, <2>3, <3>4 DEF LessHeld
  <2>5. CASE ~taken
    <3>1. LineOf(s, k + 1) >= from + n
      BY <1>1, <2>2, <2>5
    <3>2. L = SubSeq(s, b, k) /\ k < k + 1
      BY <1>0, <2>2, <2>5
    <3>3. Within(s, k + 1, b, k, from, n, L, C, S, taken)
      BY <1>4, <2>2, <2>5, <3>1, <3>2 DEF Within
    <3> QED BY <1>1, <2>3, <3>3 DEF LessHeld
  <2> QED BY <2>4, <2>5
<1>5. \/ Before(s, k, from, lines, count, selected, started)
      \/ \E b, e \in 1..k :
           b <= e /\ Within(s, k, b, e, from, n, lines, count, selected, started)
  BY DEF LessHeld
<1> QED BY <1>2, <1>3, <1>4, <1>5

-----------------------------------------------------------------------------
(* The handlers *)

\* What the file was when its size was looked at.
LookedAt == SubSeq(file, 1, size)

Readers == [lines : Seq(Chars), chars : Nat, count : Nat, selected : Nat, started : BOOLEAN]
NoReader == [lines |-> <<>>, chars |-> 0, count |-> 0, selected |-> 0, started |-> FALSE]

FilesTypes ==
  /\ file \in Seq(Chars) /\ size \in 0..Len(file)
  /\ reader \in Readers
  /\ place # "idle" => ask \in FileRequests

\* How the handler comes to a place, and what it has opened until then.
FilesPlaces ==
  /\ place \in {"idle", "asked", "stat", "exists", "size", "open"} => reader = NoReader /\ descriptors = 0
  /\ place \in {"tail", "less"} => descriptors = 1
  /\ place \in {"list", "listed"} => ask.path = "directory"
  /\ place = "whole" => Way(ask) = "whole"
  /\ place \in {"openBytes", "sizeBytes", "readBytes"} => Way(ask) = "openBytes"
  /\ place \in {"exists", "size", "open", "tail", "less"} => Way(ask) = "exists"
  /\ place = "tail" => ask.tail # Undefined
  /\ place = "less" => ask.tail = Undefined

TailKept ==
  /\ reader.chars <= size
  /\ TailFrom(LookedAt, size - reader.chars + 1, reader.lines, reader.count, Or(ask.tail, DefaultTail))

LessKept ==
  /\ reader.chars <= size
  /\ LessHeld(LookedAt, reader.chars, Or(ask.offset, 0), Or(ask.limit, DefaultLimit),
              reader.lines, reader.count, reader.selected, reader.started)

FilesStructure ==
  /\ FilesTypes /\ FilesPlaces
  /\ place = "tail" => TailKept
  /\ place = "less" => LessKept
  /\ ReadsAreExact

\* The options and their defaults.
LEMMA OptionsKnown ==
  ASSUME NEW a \in FileRequests
  PROVE  /\ Or(a.tail, DefaultTail) \in Nat \ {0}
         /\ Or(a.offset, 0) \in Nat
         /\ Or(a.limit, DefaultLimit) \in Nat \ {0}
BY FilesAssumption DEF Or, Undefined

\* It is part of the file, and remains what it is while the file grows.
LEMMA LookedAtKnown ==
  ASSUME FilesTypes
  PROVE  /\ LookedAt \in Seq(Chars) /\ Len(LookedAt) = size /\ size \in Nat /\ Len(file) \in Nat
         /\ \A i \in 1..size : LookedAt[i] = file[i]
<1>1. \A i \in 1..size : file[i] \in Chars
  BY ElementOfSeq, LenProperties DEF FilesTypes
<1>2. size \in Nat /\ Len(file) \in Nat
  BY LenProperties DEF FilesTypes
<1>3. /\ SubSeq(file, 1, size) \in Seq(Chars)
      /\ Len(SubSeq(file, 1, size)) = IF 1 <= size THEN size - 1 + 1 ELSE 0
      /\ \A i \in 1..(size - 1 + 1) : SubSeq(file, 1, size)[i] = file[1 + i - 1]
  BY <1>1, <1>2, SubSeqProperties
<1>4. \A i \in 1..size : i \in 1..(size - 1 + 1) /\ 1 + i - 1 = i
  BY <1>2
<1> QED BY <1>2, <1>3, <1>4 DEF LookedAt

\* What was there when the size was looked at stays as the file grows.
LEMMA LookedAtKept ==
  ASSUME FilesTypes, NEW c \in Chars, file' = Append(file, c), size' = size
  PROVE  LookedAt' = LookedAt /\ file' \in Seq(Chars) /\ size' \in 0..Len(file')
<1>1. /\ file' \in Seq(Chars) /\ Len(file') = Len(file) + 1
      /\ \A i \in 1..Len(file) : file'[i] = file[i]
  BY DEF FilesTypes
<1>2. size \in Nat /\ Len(file) \in Nat /\ size <= Len(file)
  BY LookedAtKnown DEF FilesTypes
<1>3. \A i \in 1..size : file'[i] = file[i]
  BY <1>1, <1>2
<1>4. \A i \in 1..size : file[i] \in Chars
  BY <1>2, ElementOfSeq DEF FilesTypes
<1>5. SubSeq(file', 1, size) = SubSeq(file, 1, size)
  <2>1. SubSeq(file', 1, size) \in Seq(Chars) /\ SubSeq(file, 1, size) \in Seq(Chars)
    BY <1>2, <1>3, <1>4, SubSeqProperties
  <2>2. /\ Len(SubSeq(file', 1, size)) = Len(SubSeq(file, 1, size))
        /\ \A i \in 1..(size - 1 + 1) : SubSeq(file', 1, size)[i] = SubSeq(file, 1, size)[i]
    <3>1. \A i \in 1..(size - 1 + 1) : 1 + i - 1 \in 1..size
      BY <1>2
    <3> QED BY <1>2, <1>3, <1>4, <3>1, SubSeqProperties
  <2>3. \A i \in 1..Len(SubSeq(file, 1, size)) : i \in 1..(size - 1 + 1)
    BY <1>2, LookedAtKnown DEF LookedAt
  <2> QED BY <2>1, <2>2, <2>3, SeqEqual
<1>6. size \in 0..Len(file')
  BY <1>1, <1>2
<1> QED BY <1>1, <1>5, <1>6 DEF LookedAt

LEMMA InitFilesStructure == InitFiles => FilesStructure
<1> SUFFICES ASSUME InitFiles PROVE FilesStructure
  OBVIOUS
<1>1. Len(file) = 0 /\ file \in Seq(Chars)
  BY EmptySeq DEF InitFiles
<1>2. reader \in Readers
  BY EmptySeq DEF InitFiles, Readers
<1> QED BY <1>1, <1>2 DEF InitFiles, FilesStructure, FilesTypes, FilesPlaces, NoReader, ReadsAreExact

\* While what is looked at, the request and the handler stay, so does this.
LEMMA SameFiles ==
  ASSUME FilesStructure, LookedAt' = LookedAt, file' \in Seq(Chars), size' \in 0..Len(file'),
         UNCHANGED <<ask, place, size, reader, descriptors, reply>>
  PROVE  FilesStructure'
<1>1. FilesTypes' /\ FilesPlaces'
  BY DEF FilesStructure, FilesTypes, FilesPlaces
<1>2. (place = "tail" => TailKept)' /\ (place = "less" => LessKept)'
  BY DEF FilesStructure, TailKept, LessKept
<1>3. ReadsAreExact'
  BY DEF FilesStructure, ReadsAreExact, LookedAt
<1> QED BY <1>1, <1>2, <1>3 DEF FilesStructure

\* What a handler does before it reads, beside it, or in vain.
LEMMA FilesGoOn ==
  ASSUME FilesStructure, UNCHANGED <<file, there>>, reader' = reader, size' \in 0..Len(file),
         place # "idle" => ask' = ask, place' # "idle" => ask' \in FileRequests, FilesPlaces',
         place' \notin {"tail", "less"}, ReadsAreExact'
  PROVE  FilesStructure'
BY DEF FilesStructure, FilesTypes

\* An error is nothing that is given back.
LEMMA ErrorIsExact ==
  ASSUME RespondsError
  PROVE  ReadsAreExact' /\ place' = "responded"
BY DEF RespondsError, Responds, ReadsAreExact, NoReply

\* Only a response says anything of the lines.
LEMMA ElsewhereIsExact ==
  ASSUME place' \notin {"responded", "received"}
  PROVE  ReadsAreExact'
BY DEF ReadsAreExact

\* The handlers up to the reading of lines.
LEMMA FilesBegin ==
  ASSUME FilesStructure,
         \/ \E a \in FileRequests : AskFor(a)
         \/ HandleRequest \/ StatInfo \/ ListDirectory \/ StatEach \/ ReadWhole
         \/ Exists \/ Sized \/ OpenBytes \/ SizeBytes \/ ReadBytes
  PROVE  FilesStructure'
<1>0. FilesTypes /\ FilesPlaces
  BY DEF FilesStructure
<1>1. ASSUME NEW a \in FileRequests, AskFor(a) PROVE FilesStructure'
  <2>1. FilesPlaces' /\ place' = "asked"
    BY <1>0, <1>1 DEF AskFor, FilesPlaces
  <2>2. ReadsAreExact'
    BY <2>1, ElsewhereIsExact
  <2> QED BY <1>0, <1>1, <2>1, <2>2, FilesGoOn DEF AskFor, FilesTypes
<1>2. CASE HandleRequest
  <2>1. FilesPlaces' /\ place' \in {"responded", "stat"}
    BY <1>0, <1>2 DEF HandleRequest, FilesPlaces, RespondsError, Responds, MovesTo, handling
  <2>2. ReadsAreExact'
    BY <1>2 DEF HandleRequest, RespondsError, Responds, MovesTo, NoReply, handling, ReadsAreExact
  <2> QED BY <1>0, <1>2, <2>1, <2>2, FilesGoOn
       DEF HandleRequest, RespondsError, Responds, MovesTo, handling, FilesTypes
<1>3. CASE StatInfo
  <2>1. Way(ask) \in {"whole", "exists", "openBytes"}
    BY DEF Way
  <2>2. FilesPlaces' /\ place' \in {"list", "whole", "exists", "openBytes", "responded"}
    BY <1>0, <1>3, <2>1 DEF StatInfo, FilesPlaces, RespondsError, Responds, MovesTo, handling
  <2>3. ReadsAreExact'
    BY <1>3, <2>1 DEF StatInfo, RespondsError, Responds, MovesTo, NoReply, handling, ReadsAreExact
  <2> QED BY <1>0, <1>3, <2>2, <2>3, FilesGoOn
       DEF StatInfo, RespondsError, Responds, MovesTo, handling, FilesTypes
<1>4. CASE ListDirectory
  <2>1. FilesPlaces' /\ place' \in {"listed", "responded"}
    BY <1>0, <1>4 DEF ListDirectory, FilesPlaces, Responds, MovesTo, handling
  <2>2. ReadsAreExact'
    BY <1>0, <1>4 DEF ListDirectory, Responds, MovesTo, handling, ReadsAreExact, FilesPlaces
  <2> QED BY <1>0, <1>4, <2>1, <2>2, FilesGoOn DEF ListDirectory, Responds, MovesTo, handling, FilesTypes
<1>5. CASE StatEach
  <2>1. FilesPlaces' /\ place' = "responded"
    BY <1>0, <1>5 DEF StatEach, FilesPlaces, RespondsError, Responds, handling
  <2>2. ReadsAreExact'
    BY <1>0, <1>5 DEF StatEach, RespondsError, Responds, handling, ReadsAreExact, FilesPlaces
  <2> QED BY <1>0, <1>5, <2>1, <2>2, FilesGoOn DEF StatEach, RespondsError, Responds, handling, FilesTypes
<1>6. CASE ReadWhole
  <2>1. FilesPlaces' /\ place' = "responded"
    BY <1>0, <1>6 DEF ReadWhole, FilesPlaces, RespondsError, Responds, handling
  <2>2. Way(ask) = "whole" /\ ask' = ask
    BY <1>0, <1>6 DEF ReadWhole, FilesPlaces, RespondsError, Responds, handling
  <2>3. ReadsAreExact'
    BY <2>2 DEF ReadsAreExact, Way
  <2> QED BY <1>0, <1>6, <2>1, <2>3, FilesGoOn DEF ReadWhole, RespondsError, Responds, handling, FilesTypes
<1>7. CASE Exists
  <2>1. FilesPlaces' /\ place' \in {"size", "responded"}
    BY <1>0, <1>7 DEF Exists, FilesPlaces, RespondsError, Responds, MovesTo, handling
  <2>2. ReadsAreExact'
    BY <1>7 DEF Exists, RespondsError, Responds, MovesTo, NoReply, handling, ReadsAreExact
  <2> QED BY <1>0, <1>7, <2>1, <2>2, FilesGoOn DEF Exists, RespondsError, Responds, MovesTo, handling, FilesTypes
<1>8. CASE Sized
  <2>1. FilesPlaces' /\ place' \in {"open", "responded"}
    BY <1>0, <1>8 DEF Sized, FilesPlaces, RespondsError, Responds, MovesTo, handling
  <2>2. ReadsAreExact'
    BY <1>8 DEF Sized, RespondsError, Responds, MovesTo, NoReply, handling, ReadsAreExact
  <2>3. size' \in 0..Len(file)
    BY <1>0, <1>8, LookedAtKnown DEF Sized, FilesTypes
  <2> QED BY <1>0, <1>8, <2>1, <2>2, <2>3, FilesGoOn
       DEF Sized, RespondsError, Responds, MovesTo, handling, FilesTypes
<1>9. CASE OpenBytes
  <2>1. FilesPlaces' /\ place' \in {"sizeBytes", "responded"}
    BY <1>0, <1>9 DEF OpenBytes, FilesPlaces, RespondsError, Responds, MovesTo, handling
  <2>2. ReadsAreExact'
    BY <1>9 DEF OpenBytes, RespondsError, Responds, MovesTo, NoReply, handling, ReadsAreExact
  <2> QED BY <1>0, <1>9, <2>1, <2>2, FilesGoOn DEF OpenBytes, RespondsError, Responds, MovesTo, handling, FilesTypes
<1>10. CASE SizeBytes
  <2>1. FilesPlaces' /\ place' \in {"readBytes", "responded"}
    BY <1>0, <1>10 DEF SizeBytes, FilesPlaces, RespondsError, Responds, MovesTo, handling
  <2>2. ReadsAreExact'
    BY <1>10 DEF SizeBytes, RespondsError, Responds, MovesTo, NoReply, handling, ReadsAreExact
  <2>3. size' \in 0..Len(file)
    BY <1>0, <1>10, LookedAtKnown DEF SizeBytes, FilesTypes
  <2> QED BY <1>0, <1>10, <2>1, <2>2, <2>3, FilesGoOn
       DEF SizeBytes, RespondsError, Responds, MovesTo, handling, FilesTypes
<1>11. CASE ReadBytes
  <2>1. place = "readBytes" /\ place' = "responded" /\ UNCHANGED <<handling, size, reader, descriptors>>
    BY <1>11 DEF ReadBytes, RespondsError, Responds
  <2>2. FilesPlaces'
    BY <1>0, <2>1 DEF FilesPlaces, handling
  <2>3. Way(ask) = "openBytes"
    BY <1>0, <2>1 DEF FilesPlaces
  <2>4. ReadsAreExact'
    BY <2>1, <2>3 DEF ReadsAreExact, Way, handling
  <2> QED BY <1>0, <2>1, <2>2, <2>4, FilesGoOn DEF handling, FilesTypes
<1> QED BY <1>1, <1>2, <1>3, <1>4, <1>5, <1>6, <1>7, <1>8, <1>9, <1>10, <1>11

\* A file that is open has not been read yet.
LEMMA FilesOpen ==
  ASSUME FilesStructure, Opened
  PROVE  FilesStructure'
<1>0. FilesTypes /\ FilesPlaces /\ place = "open" /\ ask \in FileRequests /\ reader = NoReader
  BY DEF FilesStructure, FilesTypes, FilesPlaces, Opened
<1>1. CASE ~there
  <2>1. FilesPlaces' /\ place' = "responded"
    BY <1>0, <1>1 DEF Opened, FilesPlaces, RespondsError, Responds, handling
  <2>2. ReadsAreExact'
    BY <1>1, ErrorIsExact DEF Opened
  <2> QED BY <1>0, <1>1, <2>1, <2>2, FilesGoOn DEF Opened, RespondsError, Responds, handling, FilesTypes
<1>2. CASE there
  <2>1. /\ place' = IF ask.tail # Undefined THEN "tail" ELSE "less"
        /\ UNCHANGED <<file, ask, size, reader, reply>> /\ descriptors' = 1
    BY <1>0, <1>2 DEF Opened, MovesTo, handling, FilesPlaces
  <2>2. FilesTypes' /\ FilesPlaces'
    BY <1>0, <2>1 DEF FilesTypes, FilesPlaces
  <2>3. LookedAt \in Seq(Chars) /\ Len(LookedAt) = size /\ size \in Nat /\ LookedAt' = LookedAt
    BY <1>0, <2>1, LookedAtKnown DEF LookedAt
  <2>4. reader.chars = 0 /\ reader.lines = <<>> /\ reader.count = 0 /\ reader.selected = 0 /\ ~reader.started
    BY <1>0 DEF NoReader
  <2>5. TailKept'
    <3>1. Or(ask.tail, DefaultTail) \in Nat \ {0}
      BY <1>0, OptionsKnown
    <3>2. SubSeq(LookedAt, size - 0 + 1, size) = <<>>
      BY <2>3, SubSeqEmpty
    <3>3. Cardinality(NewLinesIn(LookedAt, size - 0 + 1, size - 1)) = 0
      BY <2>3, FewNewLines
    <3>4. TailFrom(LookedAt, size - 0 + 1, <<>>, 0, Or(ask.tail, DefaultTail))
      BY <2>3, <3>1, <3>2, <3>3 DEF TailFrom
    <3> QED BY <2>1, <2>3, <2>4, <3>4 DEF TailKept
  <2>6. LessKept'
    <3>1. Or(ask.offset, 0) \in Nat /\ LineOf(LookedAt, 0 + 1) = 0
      BY <1>0, OptionsKnown, NextLineOf
    <3>2. Before(LookedAt, 0, Or(ask.offset, 0), <<>>, 0, 0, FALSE)
      BY <3>1 DEF Before
    <3>3. LessHeld(LookedAt, 0, Or(ask.offset, 0), Or(ask.limit, DefaultLimit), <<>>, 0, 0, FALSE)
      BY <3>1, <3>2 DEF LessHeld
    <3>4. reader.started = FALSE
      BY <1>0 DEF NoReader
    <3>5. LessHeld(LookedAt, reader.chars, Or(ask.offset, 0), Or(ask.limit, DefaultLimit),
                   reader.lines, reader.count, reader.selected, reader.started)
      BY <2>4, <3>3, <3>4
    <3>6. reader.chars <= size
      BY <2>3, <2>4
    <3> QED BY <2>1, <2>3, <3>5, <3>6 DEF LessKept
  <2>7. ReadsAreExact'
    BY <2>1, ElsewhereIsExact
  <2> QED BY <2>2, <2>5, <2>6, <2>7 DEF FilesStructure
<1> QED BY <1>1, <1>2

\* tail() reads one more character, from the end.
LEMMA FilesTailRead ==
  ASSUME FilesStructure, TailRead
  PROVE  FilesStructure'
<1> DEFINE c == PreviousChar(reader.chars)  n == Or(ask.tail, DefaultTail)
<1>0. FilesTypes /\ FilesPlaces /\ place = "tail" /\ ask \in FileRequests /\ TailKept /\ ~TailDone
  BY DEF FilesStructure, FilesTypes, TailRead
<1>1. /\ reader' = [reader EXCEPT !.lines = <<c>> \o @, !.chars = @ + 1,
                                  !.count = IF reader.lines # <<>> THEN @ + NewLines(c) ELSE @]
      /\ UNCHANGED <<file, ask, place, size, descriptors, reply>>
  BY <1>0 DEF TailRead, MovesTo, handling
<1>2. /\ reader \in Readers
      /\ reader'.lines = <<c>> \o reader.lines
      /\ reader'.chars = reader.chars + 1
      /\ reader'.count = IF reader.lines # <<>> THEN reader.count + NewLines(c) ELSE reader.count
  BY <1>0, <1>1 DEF FilesTypes, Readers
<1>3. LookedAt \in Seq(Chars) /\ Len(LookedAt) = size /\ size \in Nat /\ LookedAt' = LookedAt
      /\ \A i \in 1..size : LookedAt[i] = file[i]
  BY <1>0, <1>1, LookedAtKnown DEF LookedAt
<1>4. n \in Nat \ {0} /\ reader.chars \in Nat /\ reader.count \in Nat /\ reader.lines \in Seq(Chars)
  BY <1>0, <1>2, OptionsKnown DEF Readers
<1>5. reader.chars < size /\ reader.count < n
  <2>1. Len(reader.lines) = reader.chars
    <3>1. reader.lines = SubSeq(LookedAt, size - reader.chars + 1, size) /\ reader.chars <= size
      BY <1>0, <1>3 DEF TailKept, TailFrom
    <3>2. \A i \in (size - reader.chars + 1)..size : LookedAt[i] \in Chars
      BY <1>3, <1>4, <3>1, ElementOfSeq
    <3>3. Len(reader.lines) = IF size - reader.chars + 1 <= size THEN size - (size - reader.chars + 1) + 1 ELSE 0
      BY <1>3, <1>4, <3>1, <3>2, SubSeqProperties
    <3> QED BY <1>3, <1>4, <3>1, <3>3
  <2> QED BY <1>0, <1>3, <1>4, <2>1 DEF TailDone
<1> PICK a \in Int : a = size - reader.chars
  BY <1>3, <1>4
<1>6. a \in 1..size /\ a + 1 = size - reader.chars + 1 /\ a = size - (reader.chars + 1) + 1
  BY <1>3, <1>4, <1>5
<1>7. c = LookedAt[a] /\ c \in Chars
  <2>1. c = file[a]
    BY DEF PreviousChar
  <2> QED BY <1>3, <1>6, <2>1, ElementOfSeq
<1>8. TailFrom(LookedAt, a + 1, reader.lines, reader.count, n)
  BY <1>0, <1>6 DEF TailKept
<1>9. TailFrom(LookedAt, a, <<LookedAt[a]>> \o reader.lines,
               IF reader.lines # <<>> THEN reader.count + NewLines(LookedAt[a]) ELSE reader.count, n)
  BY <1>3, <1>4, <1>5, <1>6, <1>8, TailGoesOn
<1> HIDE DEF c
<1>10. TailKept'
  <2>1. TailFrom(LookedAt, a, reader'.lines, reader'.count, n)
    BY <1>2, <1>7, <1>9
  <2>2. reader'.chars <= size /\ size - reader'.chars + 1 = a
    BY <1>2, <1>3, <1>4, <1>5, <1>6
  <2>3. TailFrom(LookedAt, size - reader'.chars + 1, reader'.lines, reader'.count, n)
    BY <2>1, <2>2
  <2> HIDE DEF n
  <2> QED BY <1>1, <1>3, <2>2, <2>3 DEF TailKept, n
<1>11. FilesTypes' /\ FilesPlaces'
  <2>1. NewLines(c) \in Nat /\ <<c>> \o reader.lines \in Seq(Chars)
    <3>1. <<c>> \in Seq(Chars)
      BY <1>7
    <3> QED BY <1>4, <3>1, ConcatProperties DEF NewLines
  <2>2. (IF reader.lines # <<>> THEN reader.count + NewLines(c) ELSE reader.count) \in Nat
    BY <1>4, <2>1
  <2>3. reader' \in Readers
    <3>1. reader' = [lines |-> reader'.lines, chars |-> reader'.chars, count |-> reader'.count,
                     selected |-> reader.selected, started |-> reader.started]
      BY <1>1, <1>2 DEF Readers
    <3>2. reader'.lines \in Seq(Chars) /\ reader'.chars \in Nat /\ reader'.count \in Nat
      BY <1>2, <1>4, <2>1, <2>2
    <3>3. reader.selected \in Nat /\ reader.started \in BOOLEAN
      BY <1>2 DEF Readers
    <3> QED BY <3>1, <3>2, <3>3 DEF Readers
  <2> QED BY <1>0, <1>1, <2>3 DEF FilesTypes, FilesPlaces
<1>12. ReadsAreExact'
  BY <1>0, <1>1, ElsewhereIsExact
<1> QED BY <1>0, <1>1, <1>10, <1>11, <1>12 DEF FilesStructure

\* tail() has what was asked for.
LEMMA FilesTailEnd ==
  ASSUME FilesStructure, TailEnd
  PROVE  FilesStructure'
<1> DEFINE n == Or(ask.tail, DefaultTail)
           given == IF reader.lines # <<>> /\ reader.lines[1] = NL THEN Tail(reader.lines) ELSE reader.lines
<1>0. FilesTypes /\ FilesPlaces /\ place = "tail" /\ ask \in FileRequests /\ TailKept /\ TailDone
  BY DEF FilesStructure, FilesTypes, TailEnd
<1>1. /\ place' = "responded" /\ reply'.data = given /\ descriptors' = 0
      /\ UNCHANGED <<file, there, ask, size, reader>>
  BY <1>0 DEF TailEnd, Responds, NoReply, handling, Closes, FilesPlaces
<1>2. LookedAt \in Seq(Chars) /\ Len(LookedAt) = size /\ size \in Nat /\ LookedAt' = LookedAt
  BY <1>0, <1>1, LookedAtKnown DEF LookedAt
<1>3. n \in Nat \ {0} /\ reader.chars \in Nat /\ reader.count \in Nat /\ reader.chars <= size
  BY <1>0, OptionsKnown DEF FilesTypes, Readers, TailKept
<1> PICK a \in Int : a = size - reader.chars + 1
  BY <1>2, <1>3
<1>4. TailFrom(LookedAt, a, reader.lines, reader.count, n) /\ a \in 1..(size + 1)
  BY <1>0, <1>2, <1>3 DEF TailKept
<1>5. a = 1 \/ reader.count = n
  <2>1. CASE reader.count >= n
    BY <1>3, <1>4, <2>1 DEF TailFrom
  <2>2. CASE Len(reader.lines) >= size
    <3>1. reader.lines = SubSeq(LookedAt, a, size)
      BY <1>2, <1>4 DEF TailFrom
    <3>2. \A i \in a..size : LookedAt[i] \in Chars
      BY <1>2, <1>4, ElementOfSeq
    <3>3. Len(reader.lines) = IF a <= size THEN size - a + 1 ELSE 0
      BY <1>2, <3>1, <3>2, SubSeqProperties
    <3> QED BY <1>2, <1>4, <2>2, <3>3
  <2> QED BY <1>0, <2>1, <2>2 DEF TailDone
<1>6. given = LastLines(LookedAt, n)
  <2>1. a \in 1..(Len(LookedAt) + 1)
    BY <1>2, <1>4
  <2> HIDE DEF n
  <2> QED BY <1>2, <1>3, <1>4, <1>5, <2>1, TailIsExact, SMTT(20)
<1>7. ReadsAreExact'
  <2>1. ask.tail # Undefined
    BY <1>0 DEF FilesPlaces
  <2> HIDE DEF n, given
  <2> QED BY <1>1, <1>2, <1>6, <2>1 DEF ReadsAreExact, LookedAt, n
<1>8. FilesPlaces'
  BY <1>0, <1>1 DEF FilesPlaces
<1> QED BY <1>0, <1>1, <1>7, <1>8, FilesGoOn DEF FilesTypes

\* less() reads one more character.
LEMMA FilesLessRead ==
  ASSUME FilesStructure, LessRead
  PROVE  FilesStructure'
<1> DEFINE c == file[reader.chars + 1]  n == Or(ask.limit, DefaultLimit)  from == Or(ask.offset, 0)
           taken == InLines(reader)
<1>0. FilesTypes /\ FilesPlaces /\ place = "less" /\ ask \in FileRequests /\ LessKept /\ ~LessDone
  BY DEF FilesStructure, FilesTypes, LessRead
<1>1. /\ reader' = [lines |-> IF taken THEN Append(reader.lines, c) ELSE reader.lines,
                    chars |-> reader.chars + 1, count |-> reader.count + NewLines(c),
                    selected |-> reader.selected + (IF taken THEN NewLines(c) ELSE 0),
                    started |-> taken]
      /\ UNCHANGED <<file, ask, place, size, descriptors, reply>>
  BY <1>0 DEF LessRead, MovesTo, handling
<1>2. LookedAt \in Seq(Chars) /\ Len(LookedAt) = size /\ size \in Nat /\ LookedAt' = LookedAt
      /\ \A i \in 1..size : LookedAt[i] = file[i]
  BY <1>0, <1>1, LookedAtKnown DEF LookedAt
<1>3. /\ n \in Nat \ {0} /\ from \in Nat
      /\ reader.chars \in Nat /\ reader.count \in Nat /\ reader.lines \in Seq(Chars)
      /\ reader.selected \in Nat /\ reader.started \in BOOLEAN
  BY <1>0, OptionsKnown DEF FilesTypes, Readers
<1>4. reader.chars < size /\ (reader.started \/ reader.lines = <<>>)
  BY <1>0, <1>2, <1>3 DEF LessDone
<1>5. reader.chars \in 0..(size - 1) /\ reader.chars + 1 \in 1..size
  BY <1>2, <1>3, <1>4
<1>6. c = LookedAt[reader.chars + 1] /\ c \in Chars
  BY <1>2, <1>5, ElementOfSeq
<1>7. taken \in BOOLEAN /\ (taken <=> reader.count >= from /\ reader.selected < n)
  BY DEF InLines
<1>8. LessHeld(LookedAt, reader.chars, from, n, reader.lines, reader.count, reader.selected, reader.started)
  BY <1>0 DEF LessKept
<1> HIDE DEF taken, n, from
<1>9. LessHeld(LookedAt, reader.chars + 1, from, n,
               IF taken THEN Append(reader.lines, LookedAt[reader.chars + 1]) ELSE reader.lines,
               reader.count + NewLines(LookedAt[reader.chars + 1]),
               reader.selected + (IF taken THEN NewLines(LookedAt[reader.chars + 1]) ELSE 0), taken)
  BY <1>2, <1>3, <1>4, <1>5, <1>7, <1>8, LessGoesOn, SMTT(20)
<1> HIDE DEF c
<1>10. LessHeld(LookedAt, reader'.chars, from, n, reader'.lines, reader'.count, reader'.selected,
                reader'.started)
  BY <1>1, <1>6, <1>9
<1>11. LessKept'
  <2>1. reader'.chars <= size
    BY <1>1, <1>5
  <2> QED BY <1>1, <1>2, <1>10, <2>1 DEF LessKept, n, from
<1>12. FilesTypes' /\ FilesPlaces'
  <2>1. NewLines(c) \in Nat /\ Append(reader.lines, c) \in Seq(Chars)
    BY <1>3, <1>6 DEF NewLines
  <2>2. reader' \in Readers
    BY <1>1, <1>3, <1>7, <2>1, SMTT(20) DEF Readers
  <2> QED BY <1>0, <1>1, <2>2 DEF FilesTypes, FilesPlaces
<1>13. ReadsAreExact'
  BY <1>0, <1>1, ElsewhereIsExact
<1> QED BY <1>0, <1>1, <1>11, <1>12, <1>13 DEF FilesStructure

\* less() has what was asked for.
LEMMA FilesLessEnd ==
  ASSUME FilesStructure, LessEnd
  PROVE  FilesStructure'
<1> DEFINE n == Or(ask.limit, DefaultLimit)  from == Or(ask.offset, 0)
<1>0. FilesTypes /\ FilesPlaces /\ place = "less" /\ ask \in FileRequests /\ LessKept /\ LessDone
  BY DEF FilesStructure, FilesTypes, LessEnd
<1>1. /\ place' = "responded" /\ reply'.data = WithoutLast(reader.lines) /\ descriptors' = 0
      /\ UNCHANGED <<file, there, ask, size, reader>>
  BY <1>0 DEF LessEnd, Responds, NoReply, handling, Closes, FilesPlaces
<1>2. LookedAt \in Seq(Chars) /\ Len(LookedAt) = size /\ size \in Nat /\ LookedAt' = LookedAt
  BY <1>0, <1>1, LookedAtKnown DEF LookedAt
<1>3. n \in Nat \ {0} /\ from \in Nat /\ reader.chars \in 0..size /\ reader.started \in BOOLEAN
  BY <1>0, <1>2, OptionsKnown DEF FilesTypes, Readers, LessKept
<1>4. LessHeld(LookedAt, reader.chars, from, n, reader.lines, reader.count, reader.selected, reader.started)
  BY <1>0 DEF LessKept
<1>5. reader.chars = size \/ (~reader.started /\ reader.lines # <<>>)
  BY <1>0, <1>2, <1>3 DEF LessDone
<1> HIDE DEF n, from
<1>6. reader.lines = Lines(LookedAt, from, n)
  BY <1>2, <1>3, <1>4, <1>5, LessIsExact
<1>7. ReadsAreExact'
  <2>1. ask.tail = Undefined
    BY <1>0 DEF FilesPlaces
  <2> QED BY <1>1, <1>2, <1>6, <2>1 DEF ReadsAreExact, LookedAt, n, from
<1>8. FilesPlaces'
  BY <1>0, <1>1 DEF FilesPlaces
<1> QED BY <1>0, <1>1, <1>7, <1>8, FilesGoOn DEF FilesTypes

LEMMA StepFilesStructure == FilesStructure /\ [NextFiles]_fileVars => FilesStructure'
<1> SUFFICES ASSUME FilesStructure, [NextFiles]_fileVars PROVE FilesStructure'
  OBVIOUS
<1>0. FilesTypes
  BY DEF FilesStructure
<1>1. ASSUME NEW c \in {"a", NL}, WriteFile(c) PROVE FilesStructure'
  <2>1. LookedAt' = LookedAt /\ file' \in Seq(Chars) /\ size' \in 0..Len(file')
    BY <1>0, <1>1, LookedAtKept DEF WriteFile, Chars
  <2> QED BY <1>1, <2>1, SameFiles DEF WriteFile
<1>2. CASE DeleteFile
  BY <1>0, <1>2, SameFiles DEF DeleteFile, LookedAt, FilesTypes
<1>3. CASE \/ \E a \in FileRequests : AskFor(a)
           \/ HandleRequest \/ StatInfo \/ ListDirectory \/ StatEach \/ ReadWhole
           \/ Exists \/ Sized \/ OpenBytes \/ SizeBytes \/ ReadBytes
  BY <1>3, FilesBegin
<1>4. CASE HandleResponse
  <2>1. FilesPlaces' /\ place = "responded" /\ place' = "received"
    BY <1>4 DEF HandleResponse, FilesStructure, FilesPlaces, handling
  <2>2. /\ ask' = ask /\ file' = file /\ there' = there
        /\ size' = size /\ reader' = reader /\ descriptors' = descriptors
    BY <1>4 DEF HandleResponse, handling
  <2>3. reply' = [reply EXCEPT !.stats = /\ ask.op = "file" /\ ask.stats
                                         /\ ask.path = "file" /\ HasData]
    BY <1>4 DEF HandleResponse
  <2>4. reply'.ok = reply.ok /\ reply'.data = reply.data
    BY <2>3
  <2>5. ReadsAreExact'
    BY <2>1, <2>2, <2>4 DEF FilesStructure, ReadsAreExact
  <2> QED BY <1>0, <2>1, <2>2, <2>5, FilesGoOn DEF FilesTypes
<1>5. CASE UNCHANGED fileVars
  BY <1>0, <1>5, SameFiles DEF fileVars, LookedAt, FilesTypes
<1> QED BY <1>1, <1>2, <1>3, <1>4, <1>5, FilesOpen, FilesTailRead, FilesTailEnd, FilesLessRead,
           FilesLessEnd DEF NextFiles, Handles

\* ReadsAreExact holds for files of any length, lines and options of any size,
\* whatever is written, and whenever the file is deleted, while it is read.
THEOREM AlwaysReadsAreExact == SpecFiles => []ReadsAreExact
<1>1. FilesStructure => ReadsAreExact
  BY DEF FilesStructure
<1> QED BY <1>1, InitFilesStructure, StepFilesStructure, PTL DEF SpecFiles

=============================================================================
