------------------------------ MODULE StorageOps ------------------------------
(***************************************************************************)
(* The operations on a storage (FindOp, SaveOp, DeleteOp, UpdateOp and     *)
(* AggregateOp of libs/storage/framework/typeorm) over its connections:    *)
(* an operation connects, asks the database through the handle of its      *)
(* wrapper, closes its use of the wrapper whatever happened, and tells its *)
(* caller what came of it.                                                 *)
(*                                                                         *)
(* What an operation does in between is kept to the statements it makes:   *)
(* one after the other, or all at once, and whether it connects inside its *)
(* try.  What the statements say is the subject of Conditions, Pipelines.  *)
(***************************************************************************)
EXTENDS Connections

CONSTANTS
  Workloads,  \* which operations are tried together
  Textual     \* whether the database has no columns for structured values

\* An operation, as far as it uses the database: whether it connects within its
\* try, the statements it makes, and whether it goes on when the first of two
\* fails.  Statements that are made at once are answered one by one as well; after
\* the first that fails nobody waits for the others.
Operation(name, guarded, statements, forgiving) ==
  [name |-> name, guarded |-> guarded, statements |-> statements,
   forgiving |-> forgiving]

\* FindOp: counts, then reads.
FindSql == Operation("findSql", TRUE, 2, FALSE)
FindMongo == Operation("findMongo", FALSE, 2, FALSE)
\* SaveOp, and DeleteOp of objects: a statement of each entity class.
Save == Operation("save", FALSE, 2, FALSE)
RemoveObjects == Operation("removeObjects", FALSE, 2, FALSE)
\* DeleteOp by condition, UpdateOp: a single statement.
RemoveByCondition == Operation("removeByCondition", TRUE, 1, FALSE)
UpdateSql == Operation("updateSql", FALSE, 1, FALSE)
UpdateMongo == Operation("updateMongo", FALSE, 1, FALSE)
\* AggregateOp: reads although it could not count.
AggregateSql == Operation("aggregateSql", FALSE, 2, TRUE)
AggregateMongo == Operation("aggregateMongo", FALSE, 2, TRUE)

Kinds == {FindSql, FindMongo, Save, RemoveObjects, RemoveByCondition, UpdateSql, UpdateMongo,
          AggregateSql, AggregateMongo}

ASSUME OpsAssumption ==
  Workloads \subseteq [Ops -> Kinds] /\ Textual \in BOOLEAN

VARIABLES
  kind,     \* of each operation
  pending,  \* statements it waits for, or has still to make
  error,    \* this.error is set
  told,     \* what its caller has been told
  sent      \* what structured values have gone to the database as

opsVars == <<kind, pending, error, told, sent>>
vars == <<connectionVars, opsVars>>

TypeOK ==
  /\ ConnectionsTypeOK
  /\ kind \in [Ops -> Kinds]
  /\ pending \in [Ops -> 0..2]
  /\ error \in [Ops -> BOOLEAN]
  /\ told \in [Ops -> {"nothing", "results", "error", "rejection"}]

Init ==
  /\ ConnectionsInit
  /\ kind \in Workloads
  /\ pending = [o \in Ops |-> 0]
  /\ error = [o \in Ops |-> FALSE]
  /\ told = [o \in Ops |-> "nothing"]
  /\ sent = [o \in Ops |-> "nothing"]

Forgiven(o) == kind[o].forgiving /\ pending[o] = 2

\* What the objects of save() and the values of update() are sent as.  save()
\* makes texts of structured values, and undoes that in a transaction, which
\* it uses unless there is a single connection.
JsonToString(value) == IF Textual THEN "text" ELSE value
StringToJson(value) == "object"
Sends(o) ==
  LET value == JsonToString("object") IN
  CASE kind[o] = UpdateSql -> value
    [] kind[o] = Save -> IF Single THEN value ELSE StringToJson(value)
    [] OTHER -> "nothing"

Tell(o, what) == told' = [told EXCEPT ![o] = what]
Outcome(failed) == IF failed THEN "error" ELSE "results"

\* connect() has thrown: there is nothing to close.
Refused(o) ==
  /\ pc[o] = "refused"
  /\ Step(o, "ended")
  /\ Tell(o, IF kind[o].guarded THEN "error" ELSE "rejection")
  /\ UNCHANGED <<storageVars, wrapperVars, shared, lockVars, at, via, otherVars,
                 troubled, kind, pending, error, sent>>

\* finally: connection.close(), and the caller is told when it is closed.
Finish(o, failed) ==
  /\ CloseUse(o, failed)
  /\ error' = [error EXCEPT ![o] = failed]
  /\ pending' = [pending EXCEPT ![o] = 0]
  /\ via' = [via EXCEPT ![o] = None]
  /\ told' = IF pc'[o] = "ended" THEN [told EXCEPT ![o] = Outcome(failed)] ELSE told

\* The operation asks through the manager of its wrapper.
Ask(o) ==
  /\ pc[o] = "ready"
  /\ LET h == Bind(at[o]) IN
     /\ bound' = [bound EXCEPT ![at[o]] = h]
     /\ manager' = IF bound[at[o]] = None THEN h ELSE manager
     /\ open' = IF bound[at[o]] = None /\ manager = None THEN open \ {h} ELSE open
     /\ \/ /\ h \in open'
           /\ via' = [via EXCEPT ![o] = h]
           /\ pending' = [pending EXCEPT ![o] = kind[o].statements]
           /\ sent' = [sent EXCEPT ![o] = Sends(o)]
           /\ Step(o, "busy")
           /\ UNCHANGED <<usage, line, error, told>>
        \/ h \notin open' /\ Finish(o, TRUE) /\ sent' = sent
  /\ UNCHANGED <<prepared, connections, listening, shared, dialing, at,
                 otherVars, troubled, kind>>

\* The database answers one of the statements.
Answer(o) ==
  /\ pc[o] = "busy"
  /\ \E ok \in IF via[o] \notin open THEN {FALSE}
               ELSE IF Unreliable THEN BOOLEAN ELSE {TRUE} :
       /\ Trouble(IF ok \/ via[o] \notin open THEN {} ELSE {o})
       /\ LET failed == ~ok /\ ~Forgiven(o) IN
          \/ /\ ~failed /\ pending[o] > 1
             /\ pending' = [pending EXCEPT ![o] = @ - 1]
             /\ UNCHANGED <<pc, line, usage, via, error, told>>
          \/ (failed \/ pending[o] = 1) /\ Finish(o, failed)
  /\ UNCHANGED <<storageVars, bound, listening, shared, dialing, at, otherVars,
                 kind, sent>>

Close(o) == Released(o) /\ Tell(o, Outcome(error[o])) /\ UNCHANGED <<kind, pending, error, sent>>

ConnectionStep ==
  \/ \E o \in Ops :
       \/ ControllerConnect(o) \/ StaleCloses(o) \/ Connect(o) \/ Take(o)
       \/ Prepared(o) \/ PrepareFails(o) \/ PrepareCloses(o) \/ Announce(o) \/ Wrap(o)
  \/ Dial \/ Dialed
  \/ AddEntity
  \/ \E full \in BOOLEAN : Shutdown(full)
  \/ DownCloses \/ CloseConnection \/ Disconnected

Next ==
  \/ ConnectionStep /\ UNCHANGED opsVars
  \/ \E o \in Ops : Refused(o) \/ Ask(o) \/ Answer(o) \/ Close(o)


\* JavaScript runs every callback, the database answers in the end, and who
\* calls shutdown() or addEntityType() need not.
Fairness ==
  /\ \A o \in Ops :
       /\ WF_vars((Connect(o) \/ StaleCloses(o) \/ Take(o) \/ Prepared(o) \/ PrepareCloses(o)
                   \/ Announce(o) \/ Wrap(o)) /\ UNCHANGED opsVars)
       /\ WF_vars(Refused(o) \/ Ask(o) \/ Answer(o) \/ Close(o))
  /\ WF_vars((Dial \/ Dialed) /\ UNCHANGED opsVars)
  /\ WF_vars((DownCloses \/ CloseConnection \/ Disconnected) /\ UNCHANGED opsVars)

Spec == Init /\ [][Next]_vars /\ Fairness

-----------------------------------------------------------------------------
(* Properties *)

\* An operation fails only for a reason: the database has refused, an entity
\* class was added or the storage was shut down while it, or one it overlapped
\* with, was under way.  However the operations share, reload, close and
\* replace the wrapper, none of them is left with a handle that is not open,
\* and after a disturbance the storage serves the next one.
WellConnected ==
  \A o \in Ops : told[o] \in {"error", "rejection"} => o \in troubled

\* When all operations are over and nobody waits for the lock, the wrappers
\* are closed: every use that was counted has been given back.  It is said of
\* two operations at most: of three that come first at once, two may prepare the
\* storage and both reload the wrapper the third has been given, which is then
\* counted twice for one use and stays listed until shutdown.
Few == Cardinality(Ops) <= 2
Quiet == line = <<>> /\ \A o \in Ops : pc[o] = "ended"
AllClosed == Few /\ Quiet => connections = {}

\* shutdown() of a storage nobody uses leaves no connection to the database,
\* unless the database is the memory of the process.
ShutdownCloses ==
  [][Few /\ down' = "over" /\ down # "over" /\ AllUnderWay = {} /\ ~added /\ mode # "memory"
       => open' = {}]_vars

\* Every operation that has begun ends, and its caller is told.
OpsEnd == \A o \in Ops : pc[o] # "idle" ~> told[o] # "nothing"

\* Operations and the storage come to their ends: callers are told, and a shutdown closes
\* what is open (TypeOrmStorageRef.ts:540).
StorageEnds == OpsEnd /\ ShutdownCloses

\* "convert sub-objects to string" (SaveOp.ts:143): what a save sends to a
\* database without columns for structured values is text.
\* The code does not keep it: TLC finds a counterexample (README, 5).
SentAsText ==
  Textual => \A o \in Ops : kind[o] = Save => sent[o] \in {"nothing", "text"}
=============================================================================
