------------------------------ MODULE Pipelines ------------------------------
(***************************************************************************)
(* AggregateOp (libs/storage/framework/typeorm): the stages of a pipeline  *)
(* are walked over, and each changes the one SELECT that is carried out at *)
(* the end.                                                                *)
(*                                                                         *)
(* A stage is a record with .stage and                                     *)
(*   "match"    .where, a condition of module Conditions over flat keys;   *)
(*   "project"  .fields, a sequence of [alias, fn, field];                 *)
(*   "group"    .id, a sequence of [alias, fn, field], and .fields;        *)
(*   "sort"     .keys, a sequence of [key, asc];                           *)
(*   "skip", "limit"  .n;         "count"  .name.                          *)
(* An alias is "" if the field keeps its name.  Expressions of several     *)
(* functions, the parsing of numbers and references are left out.          *)
(***************************************************************************)
EXTENDS Conditions

CONSTANTS
  Pipelines,  \* pipelines over the rows of Class
  Class

VARIABLES pipeline, stageNr, agg, answer
pipelineVars == <<pipeline, stageNr, agg, answer>>

\* The statement, and the limit, offset and name of the count of the result
Statement == [selects |-> <<>>, group |-> <<>>, where |-> Nowhere, having |-> Nowhere,
              bound |-> <<>>, sort |-> <<>>, limit |-> 0, offset |-> 0, count |-> ""]

InitPipelines ==
  /\ pipeline \in Pipelines
  /\ stageNr = 1 /\ agg = Statement /\ answer = [ok |-> FALSE]

-----------------------------------------------------------------------------
(* The stages *)

Stage == pipeline[stageNr]
Walks(stage) ==
  /\ stageNr <= Len(pipeline) /\ Stage.stage = stage
  /\ stageNr' = stageNr + 1 /\ UNCHANGED <<pipeline, answer>>

\* addSelectField
Selected(fields, kind) ==
  [i \in DOMAIN fields |->
     [alias |-> fields[i].alias, fn |-> fields[i].fn, field |-> fields[i].field,
      kind |-> IF fields[i].fn # "" THEN "operation" ELSE kind]]
NameOf(s) == IF s.alias # "" THEN s.alias ELSE s.field

Project ==
  /\ Walks("project")
  /\ agg' = [agg EXCEPT !.selects = @ \o Selected(Stage.fields, "select")]

\* Slip: the statement is grouped by the last field of _id.
LastOfId(id) == <<id[Len(id)]>>
\* addGroupBy for each field of _id
GroupedBy(id) == [i \in DOMAIN id |-> [fn |-> id[i].fn, field |-> id[i].field]]

\* onValue and onOperator: first _id, then the fields computed for a group
Group ==
  /\ Walks("group")
  /\ agg' = [agg EXCEPT !.selects = @ \o Selected(Stage.id, "group") \o Selected(Stage.fields, ""),
                        !.group = @ \o IF Stage.id = <<>> THEN <<>> ELSE GroupedBy(Stage.id)]

\* A match of a field that the statement computes or groups by is a HAVING.
IsHaving(keys) ==
  \E i \in DOMAIN agg.selects :
    LET s == agg.selects[i]
    IN  s.kind # "select" /\ (s.alias \in keys \/ (s.kind = "group" /\ s.field \in keys))

RECURSIVE KeysOfCondition(_)
KeysOfCondition(c) ==
  CASE c.is = "cmp" -> {c.key[1]}
    [] c.is = "and" -> UNION {KeysOfCondition(c.of[i]) : i \in DOMAIN c.of}
    [] OTHER -> {}                        \* the key is an operator

\* where() and having() replace what there was; the builder of each match
\* begins with the first parameter again.
Match ==
  /\ Walks("match")
  /\ LET v == Built(Stage.where, Class, "delete")      \* flat keys, as they are
         names == DOMAIN v.b.bound
     IN  agg' = [(IF IsHaving(KeysOfCondition(Stage.where))
                  THEN [agg EXCEPT !.having = v.q] ELSE [agg EXCEPT !.where = v.q])
                 EXCEPT !.bound = [n \in DOMAIN @ \cup names |->
                                     IF n \in names THEN v.b.bound[n] ELSE @[n]]]

Sort == Walks("sort") /\ agg' = [agg EXCEPT !.sort = Stage.keys]
Skip == Walks("skip") /\ agg' = [agg EXCEPT !.offset = Stage.n]
Limit == Walks("limit") /\ agg' = [agg EXCEPT !.limit = Stage.n]
Count == Walks("count") /\ agg' = [agg EXCEPT !.count = Stage.name]

-----------------------------------------------------------------------------
(* The statement is carried out *)

\* A field of a row, or of a group of rows
ValueOf(s, rows) ==
  LET one == CHOOSE r \in rows : TRUE
  IN  CASE s.fn = "" -> one[s.field]
        [] s.fn = "half" -> one[s.field] \div 2           \* as year() of a date
        [] s.fn = "count" -> Cardinality(rows)
        [] s.fn = "max" -> Max({r[s.field] : r \in rows})
IsAggregate(fn) == fn \in {"count", "max"}
OutOf(selects, rows) ==
  [n \in {NameOf(selects[i]) : i \in DOMAIN selects} |->
     ValueOf(selects[CHOOSE i \in DOMAIN selects : NameOf(selects[i]) = n], rows)]

\* GROUP BY: sets of rows
Groups(rows, by) ==
  {{r \in rows : \A i \in DOMAIN by : ValueOf(by[i], {r}) = ValueOf(by[i], {s})} : s \in rows}

Holds(q, row, bound) == Truth(q, row, <<>>, bound) = "true"

Within(seq, offset, limit) ==
  SubSeq(seq, offset + 1, IF limit > 0 THEN Min({offset + limit, Len(seq)}) ELSE Len(seq))

\* The order is one of the columns of the table, not of computed fields.
Before(x, y, keys) ==
  LET at(z, i) == ValueOf([fn |-> "", field |-> keys[i].key], z.of)
  IN  \E i \in DOMAIN keys :
        /\ \A j \in 1..i - 1 : at(x, j) = at(y, j)
        /\ IF keys[i].asc THEN at(x, i) < at(y, i) ELSE at(x, i) > at(y, i)

\* What the statement selects, as [of, out] with the rows it is of, before the
\* limit
Hit(a) ==
  LET rows == {r \in Db[Class] : Holds(a.where, r, a.bound)}
      groups == IF a.group # <<>> \/ \E i \in DOMAIN a.selects : IsAggregate(a.selects[i].fn)
                THEN Groups(rows, a.group) ELSE {{r} : r \in rows}
      all == {[of |-> g, out |-> IF a.selects = <<>> THEN CHOOSE r \in g : TRUE
                                 ELSE OutOf(a.selects, g)] : g \in groups}
  IN  {x \in all : Holds(a.having, x.out, a.bound)}

\* A field of a condition or of the order that is none of the table, or, for a
\* HAVING, of the result, is an error.
Understood ==
  LET fields == {<<p>> : p \in DOMAIN Schema[Class]}
  IN  /\ agg.where # Nowhere => Writable(agg.where, fields)
      /\ agg.having # Nowhere =>
           Writable(agg.having, fields \cup {<<NameOf(agg.selects[i])>> : i \in DOMAIN agg.selects})
      /\ \A i \in DOMAIN agg.sort : agg.sort[i].key \in DOMAIN Schema[Class]

\* The count is that of the statement without limit and offset.
ExecuteAggregate ==
  /\ stageNr > Len(pipeline) /\ ~answer.ok /\ Understood
  /\ LET hits == Hit(agg)
         seq == SetToSortSeq(hits, LAMBDA x, y : Before(x, y, agg.sort))
     IN  answer' = [ok |-> TRUE, nr |-> Cardinality(hits),
                    rows |-> IF agg.count # "" THEN <<>> ELSE Within(seq, agg.offset, agg.limit)]
  /\ UNCHANGED <<pipeline, stageNr, agg>>

NextPipelines ==
  Project \/ Group \/ Match \/ Sort \/ Skip \/ Limit \/ Count \/ ExecuteAggregate
SpecPipelines == InitPipelines /\ [][NextPipelines]_pipelineVars

-----------------------------------------------------------------------------
(* Properties *)

\* What a stage makes of a sequence of documents, as in a pipeline of MongoDB
After(stage, docs) ==
  CASE stage.stage = "match" ->
         LET v == Built(stage.where, Class, "delete")
         IN  SelectSeq(docs, LAMBDA d : Holds(v.q, d.out, v.b.bound))
    [] stage.stage = "project" ->
         [i \in DOMAIN docs |-> [docs[i] EXCEPT !.out = OutOf(stage.fields, docs[i].of)]]
    [] stage.stage = "group" ->
         SetToSeq({[of |-> g, out |-> OutOf(stage.id \o stage.fields, g)] :
                     g \in Groups(UNION {d.of : d \in Range(docs)}, stage.id)})
    [] stage.stage = "sort" ->
         SetToSortSeq(Range(docs), LAMBDA x, y : Before(x, y, stage.keys))
    [] stage.stage = "skip" -> SubSeq(docs, stage.n + 1, Len(docs))
    [] stage.stage = "limit" -> SubSeq(docs, 1, Min({stage.n, Len(docs)}))
    [] stage.stage = "count" -> docs
Documents(stages) ==
  FoldLeft(LAMBDA docs, stage : After(stage, docs),
           SetToSeq({[of |-> {r}, out |-> r] : r \in Db[Class]}), stages)

\* The pipelines that one SELECT can express: no two stages of a kind, and the
\* stages in the order in which a SELECT works.
Rank(s) == CASE s.stage = "match" -> 1 [] s.stage \in {"project", "group"} -> 2
             [] s.stage = "sort" -> 3 [] s.stage = "skip" -> 4 [] s.stage = "limit" -> 5
             [] s.stage = "count" -> 6
InSqlOrder(stages) ==
  \A i, j \in DOMAIN stages : i < j =>
    \/ Rank(stages[i]) < Rank(stages[j])
    \/ stages[i].stage = "group" /\ stages[j].stage = "match"
       /\ \A k \in 1..i : stages[k].stage # "match"

\* The result of such a pipeline, if the database accepts it, is what its stages
\* make of the rows one after the other, in their order if they are sorted, and
\* the count is the number before the limit (AggregateOp.ts:166, :496).
PipelineAgrees ==
  (answer.ok /\ InSqlOrder(pipeline)) =>
    LET unlimited == Documents(SelectSeq(pipeline, LAMBDA s : s.stage \notin {"skip", "limit"}))
        docs == Documents(pipeline)
    IN  /\ answer.nr = Len(unlimited)
        /\ agg.count = "" => /\ Range(answer.rows) = Range(docs)
                             /\ agg.sort # <<>> => answer.rows = docs
=============================================================================
