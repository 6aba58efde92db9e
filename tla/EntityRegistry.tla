--------------------------- MODULE EntityRegistry ---------------------------
(***************************************************************************)
(* TypeOrmEntityRegistry (libs/storage/framework/typeorm/schema): the      *)
(* entities and properties the storages work with.  It follows the arrays  *)
(* in which typeorm keeps what its decorators say, and writes what those   *)
(* of schema-api say into them.                                            *)
(*                                                                         *)
(* A module is imported at once, a decorator may be applied to its class   *)
(* later, and a class may be looked up at any time in between.  Columns    *)
(* have the names of their properties, classes names of their own; a class *)
(* has decorators of one of the two kinds.                                 *)
(***************************************************************************)
EXTENDS Naturals, Sequences, FiniteSets, FiniteSetsExt, SequencesExt, Bags

CONSTANT
  Sources     \* Sources[c]: the decorators of a class, [by, fields, later]

\* A field is [name, kind, type, id, many, generated], with type "" if it is not a class.
EntityClasses == DOMAIN Sources
ByTypeorm(c) == Sources[c].by = "typeorm"

VARIABLES
  registry,   \* typeorm's arrays, the entities, and the bag of their property refs
  imported, broken,
  late        \* the fields decorated later so far
registryVars == <<registry, imported, broken, late>>

NoArgs == [a \in {"tables", "columns", "relations", "embeddeds", "generations",
                  "joinColumns", "joinTables"} |-> {}]
InitRegistry ==
  /\ registry = [args |-> NoArgs, entities |-> {}, refs |-> EmptyBag]
  /\ imported = {} /\ broken = {} /\ late = {}

-----------------------------------------------------------------------------
(* Entities and properties *)

Arg(c, f) == [target |-> c, field |-> f]
Put(r, array, x) == [r EXCEPT !.args[array] = @ \cup {x}]
HasTable(r, c) == c \in r.args.tables

Ref(c, f, kind) == [class |-> c, name |-> f.name, kind |-> kind, type |-> f.type, id |-> f.id]
\* register
WithRef(r, c, f, kind) == [r EXCEPT !.refs = @ (+) SetToBag({Ref(c, f, kind)})]
RefsOf(r, c) == {x \in BagToSet(r.refs) : x.class = c}

RECURSIVE CreateEntity(_, _)

\* Slip: which classes are missing is asked once, for all references.
FollowedAtOnce(r, refs) ==
  FoldSet(LAMBDA d, s : CreateEntity(s, d), r,
          {x.type : x \in refs} \cap (r.args.tables \ r.entities))
\* The entities of the references are created, if they are not there by then.
Followed(r, refs) ==
  FoldSet(LAMBDA x, s : IF HasTable(s, x.type) /\ x.type \notin s.entities
                        THEN CreateEntity(s, x.type) ELSE s, r, refs)

CreateEntity(r, c) ==
  LET ArgsOf(kind) == {a \in r.args[kind] : a.target = c}
      Made(s, kind, args) == FoldSet(LAMBDA a, t : WithRef(t, c, a.field, kind), s, args)
      entity == [r EXCEPT !.entities = @ \cup {c}]
      plain == Made(Made(entity, "columns", ArgsOf("columns")), "relations", ArgsOf("relations"))
      all == Made(plain, "embeddeds",
                  {a \in ArgsOf("embeddeds") : \A x \in RefsOf(plain, c) : x.name # a.field.name})
  IN Followed(all, RefsOf(all, c))

\* getEntityRefFor
EntityRefFor(r, c) ==
  IF c \notin r.entities /\ HasTable(r, c) THEN CreateEntity(r, c) ELSE r

-----------------------------------------------------------------------------
(* What is pushed to typeorm's arrays *)

\* createPropertyByArgs, following the reference
CreatePropertyByArgs(r, kind, c, f) ==
  LET s == WithRef(r, c, f, kind) IN Followed(s, {Ref(c, f, kind)})

OnMetaDataPush(r, kind, c, f, new) ==
  IF ~new /\ c \in r.entities /\ \A x \in RefsOf(r, c) : x.name # f.name
  THEN CreatePropertyByArgs(r, kind, c, f) ELSE r

Pushed(r, kind, c, f, new) ==
  OnMetaDataPush(Put(r, kind, Arg(c, f)), kind, c, f, new)

-----------------------------------------------------------------------------
(* What schema-api's decorators say *)

Returns(r) == [registry |-> r, ok |-> TRUE]
ThrowsWith(r) == [registry |-> r, ok |-> FALSE]

\* The class referred to has one identifier among its refs, and so has the class itself
\* among its columns; this is found out when the relation has been pushed already.
CreateRelation(r, c, f) ==
  LET ids == {x.name : x \in {y \in RefsOf(r, f.type) : y.id}}
      own == {a.field.name : a \in {b \in r.args.columns : b.target = c /\ b.field.id}}
      s == Pushed(r, "relations", c, f, TRUE)
      column == [target |-> c, field |-> f.name, other |-> f.type, ids |-> ids]
      table == [target |-> c, field |-> f.name, other |-> f.type, ids |-> ids, own |-> own]
  IN IF Cardinality(ids) # 1 THEN ThrowsWith(r)
     ELSE IF ~f.many THEN Returns(WithRef(Put(s, "joinColumns", column), c, f, "relations"))
     ELSE IF Cardinality(own) # 1 THEN ThrowsWith(s)
     ELSE Returns(WithRef(Put(s, "joinTables", table), c, f, "relations"))

CreateColumn(r, c, f) ==
  LET s == Pushed(r, "columns", c, f, TRUE)
      t == IF f.generated THEN Put(s, "generations", Arg(c, f)) ELSE s
  IN Returns(WithRef(t, c, f, "columns"))

CreateProperty(r, c, f) ==
  IF f.type = "" THEN CreateColumn(r, c, f) ELSE CreateRelation(r, c, f)

NewEntity(r, c) == [Put(r, "tables", c) EXCEPT !.entities = @ \cup {c}]

\* onAdd of an entity and of the properties that came before it: the first that throws
\* ends the import.
OnAddEntity(r, c) ==
  FoldLeft(LAMBDA s, f : IF s.ok THEN CreateProperty(s.registry, c, f) ELSE s,
           Returns(NewEntity(r, c)), Sources[c].fields)

\* typeorm's decorators push the fields and then the table.
PushAll(r, c) ==
  Returns(Put(FoldLeft(LAMBDA s, f : Pushed(s, f.kind, c, f, FALSE), r, Sources[c].fields),
           "tables", c))

-----------------------------------------------------------------------------

Takes(c, result) ==
  /\ registry' = result.registry
  /\ IF result.ok THEN imported' = imported \cup {c} /\ UNCHANGED broken
     ELSE broken' = broken \cup {c} /\ imported' = imported \ {c}

Import(c) ==
  /\ c \notin imported \cup broken
  /\ Takes(c, IF ByTypeorm(c) THEN PushAll(registry, c) ELSE OnAddEntity(registry, c))
  /\ UNCHANGED late

\* A decorator that is applied to a class there is.
Decorate(c, f) ==
  /\ c \in imported /\ f \in Sources[c].later /\ Arg(c, f) \notin late
  /\ late' = late \cup {Arg(c, f)}
  /\ Takes(c, IF ByTypeorm(c) THEN Returns(Pushed(registry, f.kind, c, f, FALSE))
              ELSE CreateProperty(registry, c, f))

LookUp(c) ==
  /\ c \in imported /\ c \notin registry.entities
  /\ registry' = EntityRefFor(registry, c)
  /\ UNCHANGED <<imported, broken, late>>

NextRegistry ==
  \E c \in EntityClasses :
    Import(c) \/ LookUp(c) \/ \E f \in Sources[c].later : Decorate(c, f)

-----------------------------------------------------------------------------

\* Whatever order classes are imported, decorated and looked up in, an entity has one
\* property for each of its columns, relations and embeddeds in typeorm's arrays, and no
\* other: neither references in a circle nor what the registry pushes itself make a
\* second one.
RefsMirrorStore ==
  \A c \in registry.entities \ broken :
    LET own == {k \in DOMAIN registry.refs : k.class = c}
    IN /\ \A k \in own : registry.refs[k] = 1
       /\ own = UNION {{Ref(c, a.field, kind) : a \in {b \in registry.args[kind] : b.target = c}} :
                         kind \in {"columns", "relations", "embeddeds"}}

\* A property that refers to a class with a table finds its entity from the step on that
\* makes the property, and a relation the registry makes has a join over columns that are
\* the identifiers of both sides.
ReferencesResolve ==
  [][/\ \A x \in BagToSet(registry'.refs) \ BagToSet(registry.refs) :
          HasTable(registry', x.type) => x.type \in registry'.entities
     /\ \A c \in imported', a \in registry'.args.relations :
          (a.target = c /\ ~ByTypeorm(c)) =>
            \E j \in registry'.args.joinColumns \cup registry'.args.joinTables :
              /\ j.target = c /\ j.field = a.field.name
              /\ \E i \in registry'.args.columns :
                   i.target = j.other /\ i.field.id /\ j.ids = {i.field.name}]_registryVars
=============================================================================
