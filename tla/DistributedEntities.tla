------------------------ MODULE DistributedEntities -------------------------
(***************************************************************************)
(* What the operations of the distributed storage do with entities: how a  *)
(* DistributedQueryWorker (workers/DistributedQueryWorker.ts) carries out  *)
(* a find, aggregate, save, update or remove on the storage of its node,   *)
(* and how doPostProcess() of the operation (libs/distributed_storage)     *)
(* makes one result of the responses.  Module DistributedQuery has the     *)
(* exchange itself; here a response just comes, in any order, and the      *)
(* result is made of those that have come when the operation ends.         *)
(*                                                                         *)
(* An entity has an id and a value; a condition is a set of values.  An    *)
(* aggregate is taken as the find that its first stage is.  Offsets and    *)
(* hints for a controller are left out.                                    *)
(***************************************************************************)
EXTENDS Integers, Sequences, FiniteSets, FiniteSetsExt, SequencesExt

CONSTANTS
  Nodes,     \* the nodes that are asked
  Types,     \* entity types
  Has,       \* Has[n][t]: how many controllers of the node have the type t
  Permits,   \* Permits[n]: the worker's options onlyRemote and allowed, a list of
             \* types for some of the senders
  Sender,    \* the node that asks
  Working,   \* the nodes known to have a worker
  MaxFind,   \* what the limit of a find is cut to, 1000
  Refusing,  \* pairs <<n, t>>: the storage of n rejects operations on t
  Tables,    \* Tables[n][t]: the rows that are stored at first
  Requests   \* what is asked for

Rows == [id : Nat, val : Nat]

ASSUME DistributedEntitiesAssumption ==
  /\ Has \in [Nodes -> [Types -> Nat]] /\ Sender \in Nodes
  /\ \A n \in Nodes : Permits[n].onlyRemote \in BOOLEAN /\ DOMAIN Permits[n].allowed \subseteq Nodes
  /\ Working \subseteq Nodes /\ MaxFind \in Nat
  /\ Refusing \subseteq Nodes \X Types
  /\ Tables \in [Nodes -> [Types -> SUBSET Rows]]

VARIABLES
  request,   \* .op, .type for operations on one type, .where, .objects, ...; .among:
             \* the option targetIds, all nodes if not given
  asked,     \* targetIds
  sent,      \* the objects of the request
  table,     \* table[n][t]: the rows stored at the node
  responses, \* the responses in the order in which they have come
  result,    \* what doPostProcess makes of them
  outcome    \* "new", "open", "resolved" or "rejected"
entitiesVars == <<request, asked, sent, table, responses, result, outcome>>

TypeOKEntities ==
  /\ request \in Requests /\ asked \subseteq Nodes
  /\ table \in [Nodes -> [Types -> SUBSET Rows]]
  /\ outcome \in {"new", "open", "resolved", "rejected"}

InitEntities ==
  /\ request \in Requests /\ asked = {} /\ sent = <<>>
  /\ table = Tables /\ responses = <<>>
  /\ result = <<>> /\ outcome = "new"

-----------------------------------------------------------------------------
(* run *)

\* Slip: the numbers start again with each type.
NumberedByType(objs) ==
  [i \in DOMAIN objs |-> [type |-> objs[i].type, val |-> objs[i].val,
     nr |-> Cardinality({j \in 1..i : objs[j].type = objs[i].type})]]
\* Each object is given a number, by which the responses speak of it.
Marked(objs) ==
  [i \in DOMAIN objs |-> [type |-> objs[i].type, val |-> objs[i].val, nr |-> i]]

\* resolveByClassName: the types in the order of their first objects
TypesOf(objs) ==
  LET first(t) == Min({i \in DOMAIN objs : objs[i].type = t})
  IN  SetToSortSeq({objs[i].type : i \in DOMAIN objs}, LAMBDA t, u : first(t) < first(u))

Involved == IF request.type # "" THEN <<request.type>> ELSE TypesOf(request.objects)

Targets ==
  (Working \cap request.among) \ (IF request.skipLocal THEN {Sender} ELSE {})

\* The request goes to the targets, and if there are none, run() throws.
SendTo(nodes) ==
  /\ outcome = "new"
  /\ asked' = nodes
  /\ outcome' = IF nodes = {} THEN "rejected" ELSE "open"
  /\ UNCHANGED <<request, table, responses, result>>

RunFind == request.op = "find" /\ SendTo(Targets) /\ UNCHANGED sent
RunAggregate == request.op = "aggregate" /\ SendTo(Targets) /\ UNCHANGED sent
RunUpdate == request.op = "update" /\ SendTo(Targets) /\ UNCHANGED sent
RunRemove == request.op = "remove" /\ SendTo(Targets) /\ sent' = Marked(request.objects)
RunSave == request.op = "save" /\ SendTo(Targets) /\ sent' = Marked(request.objects)

RunOp == RunFind \/ RunAggregate \/ RunUpdate \/ RunRemove \/ RunSave

-----------------------------------------------------------------------------
(* The worker *)

Response(n, state, rows, affected) ==
  [node |-> n, state |-> state, rows |-> rows, affected |-> affected]
Nothing == <<>>

IsAllowed(n, t) ==
  LET allowed == Permits[n].allowed
  IN  /\ Permits[n].onlyRemote => n # Sender
      /\ DOMAIN allowed # {} => Sender \in DOMAIN allowed /\ t \in allowed[Sender]
\* All types have to be allowed, and then each to be known.
Skips(n) == \E t \in Range(Involved) : ~IsAllowed(n, t)
\* getControllerForClass: without a hint none is found among several.
Known(n, t) == Has[n][t] = 1
Unknown(n) == \E t \in Range(Involved) : ~Known(n, t)

\* onFindRequest, and so with several types onSaveRequest and onRemoveRequest
OnTypesRequest(n) == IF Skips(n) THEN "skipping" ELSE IF Unknown(n) THEN "failed" ELSE "taken"
\* A pipeline that is empty is refused first ...
OnAggregateRequest(n) == IF request.incomplete THEN "failed" ELSE OnTypesRequest(n)
\* ... conditions or an update that are missing at last.
OnUpdateRequest(n) ==
  IF OnTypesRequest(n) = "taken" /\ request.incomplete THEN "failed" ELSE OnTypesRequest(n)

OnRequest(n) ==
  CASE request.op = "aggregate" -> OnAggregateRequest(n)
    [] request.op = "update" -> OnUpdateRequest(n)
    [] OTHER -> OnTypesRequest(n)

\* The storage works off the types in order until one is refused.
Reached(n) ==
  LET refused == {i \in DOMAIN Involved : <<n, Involved[i]>> \in Refusing}
  IN  IF refused = {} THEN Len(Involved) ELSE Min(refused) - 1
Done(n) == {Involved[i] : i \in 1..Reached(n)}

Matching(n, t) == {r \in table[n][t] : r.val \in request.where}
InOrder(rows) ==
  SetToSortSeq(rows, LAMBDA r, s :
    IF request.sort /\ r.val # s.val THEN r.val < s.val ELSE r.id < s.id)
\* The limit of a find is cut before it is sent.
RowLimit == IF request.op = "find" THEN Min({request.limit, MaxFind}) ELSE request.limit
Limited(rows) == SubSeq(rows, 1, Min({Len(rows), RowLimit}))
Tagged(n, rows) ==
  [i \in DOMAIN rows |-> [id |-> rows[i].id, val |-> rows[i].val, node |-> n]]

OfType(t) == {i \in DOMAIN request.objects : request.objects[i].type = t}
\* The id of a saved object: its own, or the next one of the table
IdOf(n, i) ==
  LET o == request.objects[i]
  IN  IF o.id # 0 THEN o.id
      ELSE Max({r.id : r \in table[n][o.type]} \cup {0})
             + Cardinality({j \in OfType(o.type) : j <= i /\ request.objects[j].id = 0})
SavedRows(n, t) == {[id |-> IdOf(n, i), val |-> request.objects[i].val] : i \in OfType(t)}
\* The stored objects come back with their number and id.
Saved(n) ==
  [i \in DOMAIN sent |-> [nr |-> sent[i].nr, type |-> sent[i].type, id |-> IdOf(n, i)]]

\* remove: the rows of a condition, or those with the ids of the given objects
RemovedRows(n, t) ==
  IF request.type # "" THEN Matching(n, t)
  ELSE {r \in table[n][t] : \E i \in OfType(t) : request.objects[i].id = r.id}

\* A remove of a condition counts the rows, and says -2 if there are none; a
\* remove of objects counts the objects.
RemovedOf(n, t) ==
  IF request.type = "" THEN Cardinality(OfType(t))
  ELSE IF Matching(n, t) = {} THEN -2 ELSE Cardinality(Matching(n, t))
Removed(n) == FoldLeft(LAMBDA sum, t : sum + RemovedOf(n, t), 0, Involved)

Stored(n, t) ==
  CASE request.op = "save" ->
         {r \in table[n][t] : \A s \in SavedRows(n, t) : s.id # r.id} \cup SavedRows(n, t)
    [] request.op = "remove" -> table[n][t] \ RemovedRows(n, t)
    [] request.op = "update" -> {IF r \in Matching(n, t) THEN [r EXCEPT !.val = request.set] ELSE r :
                                   r \in table[n][t]}
    [] OTHER -> table[n][t]

\* do...: an error of the storage is caught and put into the response.
StateAfter(n) == IF Reached(n) < Len(Involved) THEN "failed" ELSE "ok"

RowsAfter(n) ==
  CASE request.op \in {"find", "aggregate"} /\ StateAfter(n) = "ok" ->
         Tagged(n, Limited(InOrder(Matching(n, request.type))))
    [] request.op = "save" -> SelectSeq(Saved(n), LAMBDA s : s.type \in Done(n))
    [] OTHER -> Nothing

AffectedBy(n) ==
  CASE request.op = "remove" /\ StateAfter(n) = "ok" -> Removed(n)
    [] request.op = "update" /\ StateAfter(n) = "ok" -> Cardinality(Matching(n, request.type))
    [] request.op = "update" -> 0
    [] OTHER -> -1

\* onRequest, and do when the queue gets to it
Carry(n) ==
  /\ outcome = "open" /\ n \in asked
  /\ \A i \in DOMAIN responses : responses[i].node # n
  /\ IF OnRequest(n) # "taken"
     THEN responses' = Append(responses, Response(n, OnRequest(n), Nothing, -1)) /\ UNCHANGED table
     ELSE /\ responses' = Append(responses, Response(n, StateAfter(n), RowsAfter(n), AffectedBy(n)))
          /\ table' = [table EXCEPT ![n] = [t \in Types |->
                         IF t \in Done(n) THEN Stored(n, t) ELSE @[t]]]
  /\ UNCHANGED <<request, asked, sent, result, outcome>>

-----------------------------------------------------------------------------
(* doPostProcess *)

Answered == {r.node : r \in {r \in Range(responses) : r.state = "ok"}}

\* The rows of the responses, one response after the other
AllRows == FlattenSeq([i \in DOMAIN responses |-> responses[i].rows])

\* The ids that an object has been given at the nodes; a response with an
\* error is passed over.
RemoteIds(i) ==
  LET naming == {r \in Range(responses) : r.state = "ok" /\ \E s \in Range(r.rows) : s.nr = i}
  IN  [n \in {r.node : r \in naming} |->
         LET r == CHOOSE r \in naming : r.node = n
         IN  (CHOOSE s \in Range(r.rows) : s.nr = i).id]

Affected ==
  [n \in {r.node : r \in Range(responses)} |->
     (CHOOSE r \in Range(responses) : r.node = n).affected]

Failed == \E r \in Range(responses) : r.state = "failed"

\* Of the responses that have come: an error of one rejects the call.
EndWith(results) ==
  /\ outcome = "open" /\ responses # <<>>
  /\ outcome' = IF Failed THEN "rejected" ELSE "resolved"
  /\ result' = results
  /\ UNCHANGED <<request, asked, sent, table, responses>>

FindEnds == request.op = "find" /\ EndWith(IF Failed THEN <<>> ELSE AllRows)
AggregateEnds == request.op = "aggregate" /\ EndWith(IF Failed THEN <<>> ELSE AllRows)
UpdateEnds == request.op = "update" /\ EndWith(IF Failed THEN <<>> ELSE Affected)
RemoveEnds == request.op = "remove" /\ EndWith(IF Failed THEN <<>> ELSE Affected)
\* The ids are noted at the objects, also if there is an error.
SaveEnds ==
  request.op = "save" /\ EndWith([i \in DOMAIN request.objects |-> RemoteIds(i)])

PostProcess == FindEnds \/ AggregateEnds \/ UpdateEnds \/ RemoveEnds \/ SaveEnds

NextEntities == RunOp \/ PostProcess \/ \E n \in Nodes : Carry(n)

SpecEntities == InitEntities /\ [][NextEntities]_entitiesVars

-----------------------------------------------------------------------------
(* Properties *)

\* A find or aggregate that resolves returns, for each node whose response was
\* there and not skipped, the first of the rows of that node which match, up to
\* the limit, each of them once and named after its node; and nothing else
\* (DistributedFindOp.ts:116, DistributedAggregateOp.ts:91).
FoundAreTheRows ==
  (outcome = "resolved" /\ request.op \in {"find", "aggregate"}) =>
    /\ \A x \in Range(result) : x.node \in Answered
    /\ \A n \in Answered :
         LET found == {[id |-> x.id, val |-> x.val] : x \in {x \in Range(result) : x.node = n}}
             all == {r \in Tables[n][request.type] : r.val \in request.where}
         IN  /\ found \subseteq all
             /\ Cardinality(found) = Min({RowLimit, Cardinality(all)})
             /\ Cardinality({k \in DOMAIN result : result[k].node = n}) = Cardinality(found)
             /\ request.sort => \A r \in found, s \in all \ found : r.val <= s.val

\* An id that a save has noted for an object and a node is the id of a row with
\* the value of that object at that node, also when the save is rejected because
\* of another node; and a save that resolves has noted one for each object and
\* each node that carried it out, although the objects are sent sorted by type
\* (DistributedSaveOp.ts:109, DistributedQueryWorker.ts:554).
SavedKnowsIds ==
  (outcome \in {"resolved", "rejected"} /\ responses # <<>> /\ request.op = "save") =>
    \A i \in DOMAIN request.objects :
      LET o == request.objects[i]
      IN  /\ \A n \in DOMAIN result[i] :
               [id |-> result[i][n], val |-> o.val] \in table[n][o.type]
          /\ outcome = "resolved" => DOMAIN result[i] = Answered

\* An update or remove that resolves tells for each node how many rows it
\* changed there: exactly for a condition (-2 for a remove that found none), and
\* for objects of several types at least as many as are gone
\* (DistributedQueryWorker.ts:453, DistributedRemoveOp.ts:126).
AffectedIsTrue ==
  (outcome = "resolved" /\ request.op \in {"remove", "update"}) =>
    \A n \in Answered :
      LET gone(t) == Tables[n][t] \ table[n][t]
          count == Cardinality(UNION {{<<t, r.id>> : r \in gone(t)} : t \in Types})
      IN  \/ result[n] = count
          \/ count = 0 /\ result[n] = -2
          \/ request.type = "" /\ result[n] > count

\* What a call of the distributed storage tells is what the nodes hold: rows,
\* ids and numbers (DistributedQueryWorker.ts:215).
AnswersAreTrue == FoundAreTheRows /\ SavedKnowsIds /\ AffectedIsTrue
=============================================================================
