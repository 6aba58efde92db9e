------------------------------ MODULE Conditions ------------------------------
(***************************************************************************)
(* TypeOrmSqlConditionsBuilder (libs/storage/framework/typeorm): how the   *)
(* condition of a find, update or remove becomes the WHERE of a statement, *)
(* with joins for the references it goes over and named parameters, and    *)
(* what rows the statement then selects.                                   *)
(*                                                                         *)
(* A condition is a tree: [is : "cmp", key, op, args], where key is the    *)
(* path of properties and args the values it is compared with,             *)
(* [is : "and" or "or", of] with a sequence of conditions (an object is an *)
(* "and" of its keys), and [is : "not", of].                               *)
(* A value is a number; Null is that of a column without one.  Dates, the  *)
(* text of the statement and what TypeORM does with it are left out.       *)
(***************************************************************************)
EXTENDS Integers, Sequences, FiniteSets, FiniteSetsExt, SequencesExt

CONSTANTS
  Schema,     \* Schema[class][property]: .target ("" for a column) and .rel
  Ids,        \* Ids[class]: the names of its identifiers
  Db,         \* Db[class]: rows, [property -> value or, for a relation, set of ids]
  Searches    \* what is looked for: .class, .type and .where

Null == -1
Nowhere == [is |-> "none"]

VARIABLES
  search,     \* one of Searches
  built,      \* the statement: .q and .b, as below
  selected    \* .ok, and the rows of the class it applies to
conditionVars == <<search, built, selected>>

-----------------------------------------------------------------------------
(* Keys *)

\* What is known of the statement so far: the number of the next parameter,
\* the values bound, the joins, and if an error has been thrown
Fresh == [next |-> 0, bound |-> <<>>, joins |-> <<>>, thrown |-> FALSE]

\* Relations the builder can write a join for
Joinable(class, prop) ==
  LET p == Schema[class][prop]
  IN  p.rel # "" /\ Len(Ids[class]) = 1 /\ Len(Ids[p.target]) = 1
\* The column of the join is named after the identifier of the wrong side, and
\* there is none at all for a relation that is stored in a table of its own.
JoinedColumn(class, prop) ==
  LET p == Schema[class][prop] IN p.rel # "many-to-many" /\ Ids[class] = Ids[p.target]

\* Slip: a join that is there already is used again.
JoinedOnce(b, join) ==
  IF \E i \in DOMAIN b.joins : b.joins[i] = join THEN b
  ELSE [b EXCEPT !.joins = Append(@, join)]
\* leftJoin: each key makes joins of its own.
JoinedAnew(b, join) == [b EXCEPT !.joins = Append(@, join)]

\* lookupKeys: from alias (0 is the statement's own) and class along the path
RECURSIVE LookupFrom(_, _, _, _, _)
LookupFrom(keys, class, alias, names, b) ==
  IF keys = <<>> \/ b.thrown THEN [col |-> [alias |-> alias, names |-> names], b |-> b]
  ELSE LET key == Head(keys) IN
    IF key \notin DOMAIN Schema[class]
    THEN [col |-> [alias |-> alias, names |-> names], b |-> [b EXCEPT !.thrown = TRUE]]
    ELSE IF Schema[class][key].target = ""
    THEN LookupFrom(Tail(keys), class, alias, Append(names, key), b)
    ELSE LET target == Schema[class][key].target
             join == [from |-> alias, class |-> class, prop |-> key]
             then == JoinedAnew(b, join)
             nr == CHOOSE i \in DOMAIN then.joins :
                     then.joins[i] = join /\ \A j \in i + 1..Len(then.joins) : then.joins[j] # join
         IN  IF Joinable(class, key)
             THEN LookupFrom(Tail(keys), target, nr, <<>>, then)
             ELSE [col |-> [alias |-> alias, names |-> names], b |-> [b EXCEPT !.thrown = TRUE]]

\* An update and a delete take the key as it is.
LookupKeys(keys, class, type, b) ==
  IF type # "select" THEN [col |-> [alias |-> 0, names |-> keys], b |-> b]
  ELSE LookupFrom(keys, class, 0, <<>>, b)

-----------------------------------------------------------------------------
(* The walk over the condition *)

ParamName(b) == b.next

\* handleOperation: a list is one parameter, several arguments are one each,
\* after one that stays unused.
Bind(b, values) ==
  LET first == IF Len(values) > 1 THEN ParamName(b) + 1 ELSE ParamName(b)
      names == [i \in DOMAIN values |-> first + i - 1]
  IN  [names |-> names,
       b |-> [b EXCEPT !.next = first + Len(values),
              !.bound = [n \in DOMAIN @ \cup Range(names) |->
                 IF n \in Range(names) THEN values[n - first + 1] ELSE @[n]]]]

\* buildQueryObject: no brackets around a single part
Joined(parts, op) ==
  CASE Len(parts) = 0 -> Nowhere
    [] Len(parts) = 1 -> parts[1]
    [] OTHER -> [is |-> op, of |-> parts]

RECURSIVE Visit(_, _, _, _)
Visit(c, class, type, b) ==
  CASE c.is = "cmp" ->
         LET at == LookupKeys(c.key, class, type, b)
             p == Bind(at.b, c.args)
         IN  [q |-> [is |-> "cmp", col |-> at.col, op |-> c.op, names |-> p.names], b |-> p.b]
    [] c.is = "not" ->
         LET v == Visit(c.of, class, type, b) IN [q |-> [is |-> "not", of |-> v.q], b |-> v.b]
    [] OTHER ->
         LET parts == FoldLeft(
               LAMBDA s, x : LET v == Visit(x, class, type, s.b)
                             IN  [q |-> Append(s.q, v.q), b |-> v.b],
               [q |-> <<>>, b |-> b], c.of)
         IN  [q |-> Joined(parts.q, c.is), b |-> parts.b]

\* build: no condition, no WHERE
IsEmptyCondition(c) == c.is = "and" /\ c.of = <<>>
Built(c, class, type) ==
  IF IsEmptyCondition(c) THEN [q |-> Nowhere, b |-> Fresh] ELSE Visit(c, class, type, Fresh)

-----------------------------------------------------------------------------
(* The database *)

Columns == {<<p>> : p \in UNION {{p \in DOMAIN Schema[c] : Schema[c][p].target = ""} :
                                   c \in DOMAIN Schema}}

\* The row of a join that finds none
NullRow ==
  [p \in UNION {DOMAIN Schema[c] : c \in DOMAIN Schema} |->
     IF <<p>> \in Columns THEN Null ELSE {}]

RECURSIVE Writable(_, _)
\* A part that is nothing, or a name that is no column, is an error.
Writable(q, columns) ==
  CASE q.is = "none" -> FALSE
    [] q.is = "cmp" -> q.col.names \in columns
    [] q.is = "not" -> Writable(q.of, columns)
    [] OTHER -> \A i \in DOMAIN q.of : Writable(q.of[i], columns)

Rejects(c, statement) ==
  \/ statement.b.thrown
  \/ ~IsEmptyCondition(c) /\ ~Writable(statement.q, Columns)
  \/ \E i \in DOMAIN statement.b.joins :
       ~JoinedColumn(statement.b.joins[i].class, statement.b.joins[i].prop)

\* LEFT JOIN: the rows of the joins that belong to a row
RowAt(row, tuple, alias) == IF alias = 0 THEN row ELSE tuple[alias]
LinkedTo(row, join) ==
  LET all == Db[Schema[join.class][join.prop].target]
  IN  {x \in all : x.id \in row[join.prop]}
Tuples(row, joins) ==
  FoldLeft(LAMBDA tuples, join :
      UNION {LET linked == LinkedTo(RowAt(row, t, join.from), join)
             IN  {Append(t, x) : x \in IF linked = {} THEN {NullRow} ELSE linked} : t \in tuples},
    {<<>>}, joins)

\* The operations of the schema handler, for a value that is there
Compare(op, value, args) ==
  CASE op = "eq" -> value = args[1]
    [] op = "ne" -> value # args[1]
    [] op = "gt" -> value > args[1]
    [] op = "between" -> args[1] <= value /\ value <= args[2]
    [] op = "in" -> value \in args[1]
\* A comparison with Null is neither true nor false.
Unknowable(op, value, args) == value = Null \/ (op # "in" /\ args[1] = Null)

\* The logic of SQL: true, false, or neither
RECURSIVE Truth(_, _, _, _)
Truth(q, row, tuple, bound) ==
  CASE q.is = "none" -> "true"
    [] q.is = "cmp" ->
         LET value == RowAt(row, tuple, q.col.alias)[q.col.names[1]]
             args == [i \in DOMAIN q.names |-> bound[q.names[i]]]
         IN  CASE Unknowable(q.op, value, args) -> "null"
               [] Compare(q.op, value, args) -> "true"
               [] OTHER -> "false"
    [] q.is = "not" ->
         LET t == Truth(q.of, row, tuple, bound)
         IN  CASE t = "true" -> "false" [] t = "false" -> "true" [] OTHER -> "null"
    [] OTHER ->
         LET ts == {Truth(q.of[i], row, tuple, bound) : i \in DOMAIN q.of}
             strong == IF q.is = "and" THEN "false" ELSE "true"
         IN  IF strong \in ts THEN strong
             ELSE IF "null" \in ts THEN "null" ELSE CHOOSE t \in ts : TRUE

\* The rows of the joined table that are selected
Hits(statement, class) ==
  {h \in UNION {{[row |-> r, tuple |-> t] : t \in Tuples(r, statement.b.joins)} : r \in Db[class]} :
     Truth(statement.q, h.row, h.tuple, statement.b.bound) = "true"}
-----------------------------------------------------------------------------

NotYet == [ok |-> FALSE, rows |-> {}]
InitConditions ==
  /\ search \in Searches
  /\ built = [q |-> Nowhere, b |-> Fresh]
  /\ selected = NotYet

Build ==
  /\ built = [q |-> Nowhere, b |-> Fresh] /\ selected = NotYet
  /\ ~IsEmptyCondition(search.where)
  /\ built' = Built(search.where, search.class, search.type)
  /\ UNCHANGED <<search, selected>>

\* The find, update or delete; what is rejected is not carried out.
Execute ==
  /\ selected = NotYet
  /\ built = Built(search.where, search.class, search.type)
  /\ ~Rejects(search.where, built)
  /\ selected' = [ok |-> TRUE, rows |-> {h.row : h \in Hits(built, search.class)}]
  /\ UNCHANGED <<search, built>>

NextConditions == Build \/ Execute
SpecConditions == InitConditions /\ [][NextConditions]_conditionVars

-----------------------------------------------------------------------------
(* Properties *)

\* The values at the end of a path of properties
RECURSIVE ValuesAt(_, _, _)
ValuesAt(row, class, keys) ==
  LET p == Schema[class][Head(keys)]
  IN  IF p.target = "" THEN {row[Head(keys)]} \ {Null}
      ELSE UNION {ValuesAt(x, p.target, Tail(keys)) :
                    x \in {x \in Db[p.target] : x.id \in row[Head(keys)]}}

\* What a condition says: each of its comparisons, or the opposite under a
\* "not", is true of some value at the end of its path.
RECURSIVE Says(_, _, _, _)
Says(c, class, row, positive) ==
  CASE c.is = "cmp" ->
         \E v \in ValuesAt(row, class, c.key) :
           ~Unknowable(c.op, v, c.args) /\ positive = Compare(c.op, v, c.args)
    [] c.is = "not" -> Says(c.of, class, row, ~positive)
    [] (c.is = "and") = positive -> \A i \in DOMAIN c.of : Says(c.of[i], class, row, positive)
    [] OTHER -> \E i \in DOMAIN c.of : Says(c.of[i], class, row, positive)

\* A statement that is carried out selects the rows the condition speaks of, as
\* nested as it is and however often it goes over the same reference
\* (TypeOrmSqlConditionsBuilder.ts:113, :249).
SelectsWhatIsSaid ==
  selected.ok =>
    selected.rows = {r \in Db[search.class] : Says(search.where, search.class, r, TRUE)}
=============================================================================
