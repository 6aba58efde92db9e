----------------------------- MODULE Connections -----------------------------
(***************************************************************************)
(* The connections of a storage (libs/storage/framework/typeorm):          *)
(* TypeOrmEntityController shares one TypeOrmConnectionWrapper between the *)
(* operations that are under way, TypeOrmStorageRef makes the wrappers and *)
(* prepares the storage when the first of them connects, and a wrapper     *)
(* connects to the database under a lock that all wrappers share.          *)
(* StorageOps adds what the operations do in between.                      *)
(*                                                                         *)
(* A step ends where the code awaits.  The Connection objects of typeorm   *)
(* (not in the repository) are handles: its manager has at most one under  *)
(* the name of the storage, and a handle is open once connect() of it has  *)
(* succeeded.  Handles and wrappers nobody refers to are used again.       *)
(*                                                                         *)
(* An operator whose comment begins with "Slip:" is not part of the model: *)
(* it is the definition below it with a plausible mistake.                 *)
(***************************************************************************)
EXTENDS Integers, Sequences, FiniteSets, FiniteSetsExt, SequencesExt

CONSTANTS
  Ops,          \* the operations, each run once
  MaxWrappers,  \* bound: wrappers that are referred to at a time
  MaxHandles,   \* bound: handles that are referred to at a time
  Modes,        \* "pooled"; "file" and "memory" share a single connection
  Disturbances  \* sets of what may happen in a behaviour: "refuses" (the database
                \* refuses a connection or a statement), "adds" (an entity class
                \* is added, once), "shuts" (the storage is shut down, once)

ASSUME ConnectionsAssumption ==
  /\ IsFiniteSet(Ops)
  /\ MaxWrappers \in Nat \ {0} /\ MaxHandles \in Nat \ {0}
  /\ Modes \subseteq {"pooled", "file", "memory"} /\ Modes # {}
  /\ Disturbances \subseteq SUBSET {"refuses", "adds", "shuts"}

Wrappers == 1..MaxWrappers
Handles == 1..MaxHandles
None == 0

VARIABLES
  mode, may,   \* which mode the storage is in, and which disturbances may come
  manager,     \* the handle typeorm has under the name of the storage, or None
  open,        \* the handles with isConnected
  prepared,    \* _prepared
  connections, \* the wrappers TypeOrmStorageRef has listed
  usage, bound, listening,  \* of each wrapper: usage, _connection, _fn is set
  shared,      \* controller.connection
  line,        \* the holder of the lock and those who wait for it, in order
  dialing,     \* the handle whose connect() the holder awaits, or None
  pc,          \* where each operation is
  at, via,     \* the wrapper it has to do with, and the handle it prepares or asks
  added,       \* whether an entity class has been added
  down,        \* how far shutdown() is
  leaving,     \* whether it is a full one, and the handle it closes
  troubled     \* history: operations that were under way when the database
               \* refused, an entity class was added or the storage shut down

storageVars == <<manager, open, prepared, connections>>
wrapperVars == <<usage, bound, listening>>
lockVars == <<line, dialing>>
opVars == <<pc, at, via>>
otherVars == <<mode, may, added, down, leaving>>
connectionVars == <<storageVars, wrapperVars, shared, lockVars, opVars, otherVars, troubled>>

\* Who stands in line for the lock: an operation, the reload() of a wrapper,
\* or the close() of a wrapper by closeConnections().
Waiter(kind, x) == [kind |-> kind, who |-> x]
OpWaits(o) == Waiter("op", o)
Waiters == {OpWaits(o) : o \in Ops}
           \cup {Waiter(k, w) : k \in {"reload", "down"}, w \in Wrappers}

Unreliable == "refuses" \in may
Single == mode # "pooled"
UnderWay(o) == pc[o] \notin {"idle", "ended"}

ConnectionsTypeOK ==
  /\ mode \in Modes /\ may \in Disturbances
  /\ manager \in Handles \cup {None} /\ open \in SUBSET Handles
  /\ prepared \in BOOLEAN
  /\ connections \in SUBSET Wrappers
  /\ usage \in [Wrappers -> Nat]
  /\ bound \in [Wrappers -> Handles \cup {None}]
  /\ listening \in SUBSET Wrappers
  /\ shared \in Wrappers \cup {None}
  /\ line \in Seq(Waiters) /\ dialing \in Handles \cup {None}
  /\ pc \in [Ops -> {"idle", "stale", "preparing", "preclosing", "announcing",
                     "connecting", "wrapping", "acquiring", "given", "refused",
                     "ready", "busy", "releasing", "ended"}]
  /\ at \in [Ops -> Wrappers \cup {None}]
  /\ via \in [Ops -> Handles \cup {None}]
  /\ added \in BOOLEAN
  /\ down \in {"no", "closing", "disconnecting", "over"}
  /\ leaving \in [full : BOOLEAN, handle : Handles \cup {None}]
  /\ troubled \in SUBSET Ops

ConnectionsInit ==
  /\ mode \in Modes /\ may \in Disturbances
  /\ manager = None /\ open = {} /\ prepared = FALSE
  /\ connections = {}
  /\ usage = [w \in Wrappers |-> 0]
  /\ bound = [w \in Wrappers |-> None]
  /\ listening = {}
  /\ shared = None
  /\ line = <<>> /\ dialing = None
  /\ pc = [o \in Ops |-> "idle"]
  /\ at = [o \in Ops |-> None]
  /\ via = [o \in Ops |-> None]
  /\ added = FALSE /\ down = "no"
  /\ leaving = [full |-> FALSE, handle |-> None]
  /\ troubled = {}

-----------------------------------------------------------------------------
(* Handles and wrappers *)

UsedWrappers ==
  connections \cup listening \cup {shared} \cup {at[o] : o \in {p \in Ops : UnderWay(p)}}
  \cup {x.who : x \in {y \in ToSet(line) : y.kind # "op"}}
FreeWrapper == Min(Wrappers \ UsedWrappers)

UsedHandles == {manager, dialing, leaving.handle} \cup {bound[w] : w \in UsedWrappers \ {None}}
               \cup {via[o] : o \in Ops}
FreeHandle == Min(Handles \ UsedHandles)

\* getConnection(): the handle of the manager, or a new one.
GetConnection == IF manager = None THEN FreeHandle ELSE manager

\* The getter 'connection' of a wrapper, which remembers what it returns.
Bind(w) == IF bound[w] = None THEN GetConnection ELSE bound[w]

\* isOpened()
Opened(w) == bound[w] # None /\ bound[w] \in open

Less(n) == IF n > 0 THEN n - 1 ELSE n

\* wrap(): which wrapper it returns, and whether it makes it.
Wraps(w, isNew) ==
  IF Single /\ connections # {}
  THEN w = Min(connections) /\ ~isNew
  ELSE w = FreeWrapper /\ isNew

Step(o, next) == pc' = [pc EXCEPT ![o] = next]
Queue(waiter) == line' = Append(line, waiter)
MyTurn(waiter) == line # <<>> /\ Head(line) = waiter

\* Slip: the lock is kept by who gets it.
KeepsLock == line' = line
Unlock == line' = Tail(line)

Trouble(someone) == troubled' = troubled \cup someone
AllUnderWay == {o \in Ops : UnderWay(o)}

\* wrapper.close() up to the lock, for a use u of wrapper w that was counted.
CloseFrom(o, u, waits, next) ==
  IF u <= 0
  THEN Queue(OpWaits(o)) /\ Step(o, waits)
  ELSE line' = line /\ Step(o, next)

\* close() once it has the lock: storageRef.remove() and destroy().
Destroy(w) ==
  /\ connections' = connections \ {w}
  /\ bound' = [bound EXCEPT ![w] = None]
  /\ listening' = listening \ {w}

-----------------------------------------------------------------------------
(* TypeOrmStorageRef: connect(), prepare() *)

\* wrap().connect(): a use is counted at once where there is one already.
WrapAndConnect(o) ==
  /\ \E w \in Wrappers, isNew \in BOOLEAN :
       /\ Wraps(w, isNew)
       /\ connections' = connections \cup {w}
       /\ listening' = IF isNew THEN listening \cup {w} ELSE listening
       /\ bound' = IF isNew THEN [bound EXCEPT ![w] = None] ELSE bound
       /\ at' = [at EXCEPT ![o] = w]
       /\ IF ~isNew /\ usage[w] > 0
          THEN /\ usage' = [usage EXCEPT ![w] = @ + 1]
               /\ line' = line /\ Step(o, "given")
          ELSE /\ usage' = IF isNew THEN [usage EXCEPT ![w] = 0] ELSE usage
               /\ Queue(OpWaits(o)) /\ Step(o, "acquiring")
  /\ UNCHANGED <<manager, open, prepared, via, dialing>>

\* prepare() closes the wrapper that wrap() returns, which it has not used:
\* handle h is the one it has connected, if it has.
CloseWrapped(o, h) ==
  \E w \in Wrappers, isNew \in BOOLEAN :
    /\ Wraps(w, isNew)
    /\ connections' = connections \cup {w}
    /\ listening' = IF isNew THEN listening \cup {w} ELSE listening
    /\ bound' = IF isNew THEN [bound EXCEPT ![w] = h] ELSE bound
    /\ LET u == IF isNew THEN 0 ELSE Less(usage[w]) IN
       /\ usage' = [usage EXCEPT ![w] = u]
       /\ CloseFrom(o, u, "preclosing", "announcing")
    /\ at' = [at EXCEPT ![o] = w]

Prepare(o) ==
  \/ /\ manager = None
     /\ manager' = FreeHandle
     /\ open' = open \ {FreeHandle}
     /\ via' = [via EXCEPT ![o] = FreeHandle]
     /\ Step(o, "preparing")
     /\ UNCHANGED <<prepared, connections, wrapperVars, at, lockVars>>
  \/ /\ manager # None
     /\ CloseWrapped(o, None)
     /\ UNCHANGED <<manager, open, prepared, via, dialing>>

\* storageRef.connect()
StorageConnect(o) == IF prepared THEN WrapAndConnect(o) ELSE Prepare(o)

\* prepare(): the database has answered to connect().
Prepared(o) ==
  /\ pc[o] = "preparing"
  /\ open' = open \cup {via[o]}
  /\ CloseWrapped(o, via[o])
  /\ via' = [via EXCEPT ![o] = None]
  /\ UNCHANGED <<manager, prepared, shared, dialing, otherVars, troubled>>

\* ... or it has refused: the handle stays with the manager.
PrepareFails(o) ==
  /\ Unreliable /\ pc[o] = "preparing"
  /\ via' = [via EXCEPT ![o] = None]
  /\ Step(o, "refused")
  /\ Trouble(AllUnderWay)
  /\ UNCHANGED <<storageVars, wrapperVars, shared, lockVars, at, otherVars>>

PrepareCloses(o) ==
  /\ pc[o] = "preclosing" /\ MyTurn(OpWaits(o))
  /\ Destroy(at[o]) /\ Unlock
  /\ Step(o, "announcing")
  /\ UNCHANGED <<manager, open, prepared, usage, shared, dialing, at, via,
                 otherVars, troubled>>

\* emit(EVENT_STORAGE_REF_PREPARED): reload() of every wrapper that listens.
\* One that is connected gives up its handle, and connects again; without
\* another use it has to wait for the lock.
Reloading == {w \in listening : Opened(w)}
Announce(o) ==
  /\ pc[o] = "announcing"
  /\ prepared' = TRUE
  /\ bound' = [w \in Wrappers |-> IF w \in listening THEN None ELSE bound[w]]
  /\ LET waits == {w \in Reloading : usage[w] <= 1} IN
     /\ usage' = [w \in Wrappers |-> IF w \in waits THEN 0 ELSE usage[w]]
     /\ line' = line \o [i \in 1..Cardinality(waits) |->
                           Waiter("reload", SetToSortSeq(waits, <)[i])]
  /\ Step(o, "wrapping")
  /\ UNCHANGED <<manager, open, connections, listening, shared, dialing, at,
                 via, otherVars, troubled>>

Wrap(o) ==
  /\ pc[o] = "wrapping"
  /\ WrapAndConnect(o)
  /\ UNCHANGED <<shared, otherVars, troubled>>

-----------------------------------------------------------------------------
(* TypeOrmConnectionWrapper: connect() *)

\* The wrapper the holder of the lock connects.
Dialer == IF Head(line).kind = "op" THEN at[Head(line).who] ELSE Head(line).who
Connecting ==
  /\ line # <<>>
  /\ Head(line).kind # "down"
  /\ Head(line).kind = "op" => pc[Head(line).who] = "acquiring"

\* connect() returns: for an operation, to whom it has called.
Return == IF Head(line).kind = "op" THEN Step(Head(line).who, "given") ELSE pc' = pc

\* It has the lock, and looks at its handle.
\* Slip: the handle that the manager has is taken for connected.
Assumed(opened, h) == h = manager
Connected(opened, h) == h \in opened
Dial ==
  /\ Connecting /\ dialing = None
  /\ LET h == Bind(Dialer) IN
     /\ bound' = [bound EXCEPT ![Dialer] = h]
     /\ manager' = IF bound[Dialer] = None THEN h ELSE manager
     /\ open' = IF bound[Dialer] = None /\ manager = None THEN open \ {h} ELSE open
     /\ IF Connected(open', h)
        THEN usage' = [usage EXCEPT ![Dialer] = @ + 1] /\ Unlock /\ Return /\ dialing' = None
        ELSE dialing' = h /\ UNCHANGED <<usage, line, pc>>
  /\ UNCHANGED <<prepared, connections, listening, shared, at, via, otherVars, troubled>>

\* The database answers.  That it refuses is logged, and connect() resolves.
Dialed ==
  /\ dialing # None
  /\ \E ok \in IF Unreliable THEN BOOLEAN ELSE {TRUE} :
       /\ open' = IF ok THEN open \cup {dialing} ELSE open
       /\ usage' = [usage EXCEPT ![Dialer] = @ + IF ok THEN 1 ELSE 0]
       /\ Trouble(IF ok THEN {} ELSE AllUnderWay)
  /\ dialing' = None /\ Unlock /\ Return
  /\ UNCHANGED <<manager, prepared, connections, bound, listening, shared, at,
                 via, otherVars>>

-----------------------------------------------------------------------------
(* TypeOrmEntityController: connect() *)

Disturbed ==
  \/ down \in {"closing", "disconnecting"}
  \/ \E o \in troubled : UnderWay(o)

\* Share the wrapper that is open; replace the one that is not; or connect.
ControllerConnect(o) ==
  /\ pc[o] = "idle"
  /\ \/ /\ shared # None /\ Opened(shared)
        /\ usage' = [usage EXCEPT ![shared] = @ + 1]
        /\ at' = [at EXCEPT ![o] = shared]
        /\ Step(o, "ready")
        /\ UNCHANGED <<storageVars, bound, listening, lockVars, via>>
     \/ /\ shared # None /\ ~Opened(shared)
        /\ usage' = [usage EXCEPT ![shared] = Less(@)]
        /\ at' = [at EXCEPT ![o] = shared]
        /\ CloseFrom(o, Less(usage[shared]), "stale", "connecting")
        /\ UNCHANGED <<storageVars, bound, listening, dialing, via>>
     \/ shared = None /\ StorageConnect(o)
  /\ Trouble(IF Disturbed THEN {o} ELSE {})
  /\ UNCHANGED <<shared, otherVars>>

\* close() of the wrapper that was not open has the lock.
StaleCloses(o) ==
  /\ pc[o] = "stale" /\ MyTurn(OpWaits(o))
  /\ Destroy(at[o]) /\ Unlock
  /\ Step(o, "connecting")
  /\ UNCHANGED <<manager, open, prepared, usage, shared, dialing, at, via,
                 otherVars, troubled>>

Connect(o) ==
  /\ pc[o] = "connecting"
  /\ StorageConnect(o)
  /\ UNCHANGED <<shared, otherVars, troubled>>

\* this.connection = await this.storageRef.connect()
Take(o) ==
  /\ pc[o] = "given"
  /\ shared' = at[o]
  /\ Step(o, "ready")
  /\ UNCHANGED <<storageVars, wrapperVars, lockVars, at, via, otherVars, troubled>>

\* Slip: close() is within the try, and left out by what is thrown.
CloseOnSuccess(o, failed) ==
  /\ usage' = IF failed THEN usage ELSE [usage EXCEPT ![at[o]] = Less(@)]
  /\ CloseFrom(o, IF failed THEN 1 ELSE Less(usage[at[o]]), "releasing", "ended")

\* The operation is through with its wrapper: connection.close().
CloseUse(o, failed) ==
  /\ usage' = [usage EXCEPT ![at[o]] = Less(@)]
  /\ CloseFrom(o, Less(usage[at[o]]), "releasing", "ended")

Released(o) ==
  /\ pc[o] = "releasing" /\ MyTurn(OpWaits(o))
  /\ Destroy(at[o]) /\ Unlock
  /\ Step(o, "ended")
  /\ UNCHANGED <<manager, open, prepared, usage, shared, dialing, at, via,
                 otherVars, troubled>>

-----------------------------------------------------------------------------
(* TypeOrmStorageRef: addEntityType(), shutdown() *)

\* An entity class is added at runtime: the storage is to be prepared again,
\* and typeorm forgets the handle without closing it.
AddEntity ==
  /\ "adds" \in may /\ ~added
  /\ added' = TRUE
  /\ prepared' = FALSE
  /\ manager' = IF prepared THEN None ELSE manager
  /\ Trouble(AllUnderWay)
  /\ UNCHANGED <<mode, may, open, connections, wrapperVars, shared, lockVars, opVars,
                 down, leaving>>

\* closeConnections(): every listed wrapper is taken off the list, and closed.
Shutdown(full) ==
  /\ "shuts" \in may /\ down = "no"
  /\ down' = "closing"
  /\ leaving' = [leaving EXCEPT !.full = full]
  /\ IF mode = "memory" /\ ~full THEN UNCHANGED <<connections, usage, line>>
     ELSE LET waits == {w \in connections : usage[w] <= 1} IN
          /\ connections' = {}
          /\ usage' = [w \in Wrappers |->
                         IF w \in connections THEN Less(usage[w]) ELSE usage[w]]
          /\ line' = line \o [i \in 1..Cardinality(waits) |->
                                Waiter("down", SetToSortSeq(waits, <)[i])]
  /\ Trouble(AllUnderWay)
  /\ UNCHANGED <<mode, may, manager, open, prepared, bound, listening, shared, dialing,
                 opVars, added>>

DownCloses ==
  /\ line # <<>> /\ Head(line).kind = "down"
  /\ Destroy(Head(line).who) /\ Unlock
  /\ UNCHANGED <<manager, open, prepared, usage, shared, dialing, opVars,
                 otherVars, troubled>>

\* The end of shutdown(): a full one leaves nothing that listens.
Leave ==
  /\ down' = "over"
  /\ manager' = IF leaving.full THEN None ELSE manager
  /\ listening' = IF leaving.full THEN {} ELSE listening
  /\ Trouble(AllUnderWay)
  /\ UNCHANGED <<mode, may, prepared, connections, usage, bound, shared, lockVars,
                 opVars, added>>

\* closeConnection(), when all wrappers are closed.
Idle == connections = {} /\ mode # "memory" /\ manager \in open
CloseConnection ==
  /\ down = "closing" /\ \A i \in DOMAIN line : line[i].kind # "down"
  /\ \/ /\ Idle
        /\ down' = "disconnecting"
        /\ leaving' = [leaving EXCEPT !.handle = manager]
        /\ UNCHANGED <<mode, may, storageVars, wrapperVars, shared, lockVars, opVars,
                       added, troubled>>
     \/ ~Idle /\ Leave /\ UNCHANGED <<open, leaving>>

Disconnected ==
  /\ down = "disconnecting"
  /\ open' = open \ {leaving.handle}
  /\ leaving' = [leaving EXCEPT !.handle = None]
  /\ Leave
=============================================================================
