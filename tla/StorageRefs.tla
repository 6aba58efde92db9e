----------------------------- MODULE StorageRefs -----------------------------
(***************************************************************************)
(* The storages of a process and the classes they know (libs/storage:      *)
(* Storage, StorageRef, TypeOrmStorageRef): Storage.prepare() makes one    *)
(* after the other from the configuration and links those that extend      *)
(* others; classes are added while the process runs.                       *)
(*                                                                         *)
(* A storage registers a class by giving it the column that MongoDB needs, *)
(* or taking it away, in an array which typeorm keeps once for all         *)
(* storages and which the registry of module EntityRegistry follows.       *)
(*                                                                         *)
(* Classes have names of their own.  The schemas that are noted at a class *)
(* and how its values are converted are left out.                          *)
(***************************************************************************)
EXTENDS Naturals, Sequences, FiniteSets, SequencesExt

CONSTANTS
  StorageConfigs, \* the configurations: sequences of [name, db, extends, entries]
  Loaded,         \* Loaded[n]: the classes that the loader has for the storage n
  ObjectId,       \* ObjectId[c]: the objectId column a class declares: "_id", "other" or ""
  Annotated,      \* the classes typeorm has a table of
  AddedLater      \* the classes that are added while the process runs

\* An entry is [path, items]: a class or another object, or a path with the items found
\* there, none if it cannot be read.  An item is [is, classes]: a class, a schema of
\* several, or another object.
ClassItem(c) == [is |-> "class", classes |-> <<c>>]
MappedClasses == DOMAIN ObjectId
StorageNames(config) == {config[i].name : i \in DOMAIN config}

\* The storages that extend n, those that extend them, and so on
Above(config, n) ==
  LET Extend(names) == {s.name : s \in {t \in ToSet(config) : ToSet(t.extends) \cap names # {}}}
      up[k \in 0..Len(config)] ==
        IF k = 0 THEN Extend({n}) ELSE up[k - 1] \cup Extend(up[k - 1])
  IN up[Len(config)]

\* addEntityType() of storages that extend each other would never end.
ASSUME StorageRefsAssumption ==
  /\ AddedLater \subseteq Annotated /\ Annotated \subseteq MappedClasses
  /\ \A config \in StorageConfigs : \A n \in StorageNames(config) : n \notin Above(config, n)

VARIABLES
  storageConfig,
  phase,        \* "storages", "links", "ready" or "failed"
  refs,         \* the storages made so far, in order
  extended,     \* extended[n]: _extends, the storages that extend it
  have,         \* what they know, see NothingKnown
  addedTo       \* history: which class was added to which storage
storageRefVars == <<storageConfig, phase, refs, extended, have, addedTo>>

\* entities[n]: the items of a storage; columns[c]: how many objectId columns _id typeorm
\* has for a class; idRefs: the classes of which the registry has a property _id; and, as
\* history, which storage has registered which class.
NothingKnown ==
  [entities |-> [n \in StorageNames(storageConfig) |-> <<>>],
   columns |-> [c \in MappedClasses |-> IF ObjectId[c] = "_id" THEN 1 ELSE 0],
   idRefs |-> {c \in MappedClasses : ObjectId[c] = "_id"},
   registered |-> {}]

InitStorageRefs ==
  /\ storageConfig \in StorageConfigs /\ phase = "storages" /\ refs = <<>>
  /\ extended = [n \in StorageNames(storageConfig) |-> <<>>]
  /\ have = NothingKnown /\ addedTo = {}

Configured(n) == CHOOSE s \in ToSet(storageConfig) : s.name = n

-----------------------------------------------------------------------------
(* TypeOrmStorageRef *)

\* registerEntityRef: the registry hears the push of a column, not its removal.
RegisterEntityRef(k, n, c) ==
  LET s == [k EXCEPT !.registered = @ \cup {<<n, c>>}]
  IN IF Configured(n).db # "mongodb" THEN [s EXCEPT !.columns[c] = 0]
     ELSE IF ObjectId[c] = "other" \/ c \in s.idRefs THEN s
     ELSE [s EXCEPT !.columns[c] = @ + 1, !.idRefs = @ \cup {c}]

\* initialize() of one item: a schema is replaced by its classes.  If it has none, the item
\* behind it takes its place and is passed over.
Initialized(s, n, item) ==
  LET classes == IF item.is = "class" THEN SelectSeq(item.classes, LAMBDA c : c \in Annotated)
                 ELSE item.classes
      Keeps(items) == [s.known EXCEPT !.entities[n] = @ \o items]
  IN IF ~s.ok THEN s
     ELSE IF s.passes THEN [s EXCEPT !.known = Keeps(<<item>>), !.passes = FALSE]
     ELSE IF item.is = "object" THEN [s EXCEPT !.known = Keeps(<<item>>), !.ok = FALSE]
     ELSE [s EXCEPT !.passes = item.classes = <<>>,
                    !.known = FoldLeft(LAMBDA k, c : RegisterEntityRef(k, n, c),
                        Keeps([i \in DOMAIN item.classes |-> ClassItem(item.classes[i])]), classes)]

\* addEntityType, and populateToExtended to all storages that extend this one
RECURSIVE AddEntityType(_, _, _)
AddEntityType(k, n, c) ==
  LET added == [k EXCEPT !.entities[n] = Append(@, ClassItem(c))]
  IN FoldLeft(LAMBDA s, above : AddEntityType(s, above, c),
              IF ClassItem(c) \in ToSet(k.entities[n]) THEN k ELSE RegisterEntityRef(added, n, c),
              extended[n])

-----------------------------------------------------------------------------
(* Storage.prepare() *)

\* The items of a storage: what is loaded for it and for those it extends, the classes
\* among its entries, then what is found at its paths.  Other entries are dropped.
ItemsOf(s) ==
  LET LoadedFor(n) == IF n \in DOMAIN Loaded THEN Loaded[n] ELSE <<>>
      classes == FlattenSeq([i \in 1..(Len(s.extends) + 1) |-> LoadedFor((<<s.name>> \o s.extends)[i])])
      ItemsAt(entries) == FlattenSeq([i \in DOMAIN entries |-> entries[i].items])
  IN [i \in DOMAIN classes |-> ClassItem(classes[i])]
     \o ItemsAt(SelectSeq(s.entries, LAMBDA e : ~e.path /\ e.items[1].is = "class"))
     \o ItemsAt(SelectSeq(s.entries, LAMBDA e : e.path))

\* register() and initialize() of the next storage
MakeStorage ==
  /\ phase = "storages" /\ Len(refs) < Len(storageConfig)
  /\ LET s == storageConfig[Len(refs) + 1]
         result == FoldLeft(LAMBDA r, item : Initialized(r, s.name, item),
                            [known |-> have, ok |-> TRUE, passes |-> FALSE], ItemsOf(s))
     IN /\ refs' = Append(refs, s.name)
        /\ have' = result.known
        /\ phase' = IF ~result.ok THEN "failed"
                    ELSE IF Len(refs') = Len(storageConfig) THEN "links" ELSE "storages"
  /\ UNCHANGED <<storageConfig, extended, addedTo>>

\* One storage is linked after the other, until one extends a storage there is not.
LinkStorages ==
  /\ phase = "links"
  /\ LET links == FlattenSeq([i \in DOMAIN refs |->
           [j \in DOMAIN Configured(refs[i]).extends |-> <<Configured(refs[i]).extends[j], refs[i]>>]])
         Link(r, l) == IF ~r.ok \/ l[1] \notin ToSet(refs) THEN [r EXCEPT !.ok = FALSE]
                       ELSE [r EXCEPT !.extended[l[1]] = Append(@, l[2])]
         result == FoldLeft(Link, [extended |-> extended, ok |-> TRUE], links)
     IN /\ extended' = result.extended
        /\ phase' = IF result.ok THEN "ready" ELSE "failed"
  /\ UNCHANGED <<storageConfig, refs, have, addedTo>>

AddEntityClass(n, c) ==
  /\ phase = "ready"
  /\ have' = AddEntityType(have, n, c)
  /\ addedTo' = addedTo \cup {<<n, c>>}
  /\ UNCHANGED <<storageConfig, phase, refs, extended>>

NextStorageRefs ==
  \/ MakeStorage
  \/ LinkStorages
  \/ \E n \in ToSet(refs), c \in AddedLater : AddEntityClass(n, c)

-----------------------------------------------------------------------------

\* However the storages are ordered and whoever adds a class, one that is used by storages
\* of MongoDB only has the column _id once, unless it has an objectId of its own, and one
\* that is used by SQL storages only does not have it (TypeOrmStorageRef.ts:234-254).
\* The code does not keep it for a class that storages of both kinds use.
IdColumnsFit ==
  \A c \in MappedClasses :
    LET dbs == {Configured(r[1]).db : r \in {x \in have.registered : x[2] = c}}
    IN /\ dbs = {"mongodb"} => have.columns[c] = IF ObjectId[c] = "other" THEN 0 ELSE 1
       /\ dbs = {"sql"} => have.columns[c] = 0

\* A class that is added to a storage is known to all that extend it, directly or not,
\* wherever they are in the configuration, and registered by those that did not have it
\* from the start (TypeOrmStorageRef.ts:283, 318).
AddedReachesAll ==
  \A p \in addedTo : \A n \in {p[1]} \cup Above(storageConfig, p[1]) :
    LET item == ClassItem(p[2])
    IN /\ item \in ToSet(have.entities[n])
       /\ <<n, p[2]>> \in have.registered \/ item \in ToSet(ItemsOf(Configured(n)))
=============================================================================
