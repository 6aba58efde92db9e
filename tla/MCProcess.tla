------------------------------ MODULE MCProcess ------------------------------
(***************************************************************************)
(* The parts of one process that share no state: the scheduler, the cache, *)
(* start and stop, what the operations of the distributed storage do, the  *)
(* statements made of conditions and pipelines, the registries of classes  *)
(* and of tasks, what is read from files, and the infos of other nodes.  A *)
(* behaviour of all of them is one of each: here one of them moves, and it *)
(* is chosen at the beginning which.                                       *)
(***************************************************************************)
EXTENDS Schedules, Caches, Lifecycle, DistributedEntities, Pipelines, EntityRegistry, TaskRegistry,
        Files, InfoRequests, StorageRefs

CONSTANTS k1, c1, c2, n1, n2, n3

VARIABLE subject

vars == <<subject, scheduleVars, cacheVars, lifeVars, entitiesVars, conditionVars, pipelineVars, registryVars,
          taskVars, fileVars, infoVars, storageRefVars>>

\* Two schedules of the same name, one of them beginning a minute after the
\* start, and one with a pattern that does nothing.
EverySecond == [name |-> "a", cron |-> {}, offset |-> 2, start |-> 2, startup |-> FALSE,
                does |-> "task", params |-> FALSE, parallel |-> TRUE, given |-> {}]
Pattern == [EverySecond EXCEPT !.name = "b", !.cron = {2, 5, 6, 9}, !.offset = 0,
                               !.does = "nothing"]
Delayed == [EverySecond EXCEPT !.startup = TRUE, !.offset = 3, !.does = "event"]
MCDefs == {EverySecond, Pattern, Delayed}

\* Nothing configured; and a default bin in Redis with one beside it whose
\* adapter is unknown.
MCCacheConfigs ==
  {[adapter |-> <<>>, bins |-> [default |-> "default"]],
   [adapter |-> <<[key |-> "r", type |-> "redis"], [key |-> "x", type |-> "unknown"]>>,
    bins |-> [default |-> "r", own |-> "x"]]}

MCStorages == <<"default", "second">>
MCModules == <<"base", "app">>
MCWorkers == <<"queue worker", "monitor">>

\* Node n3 does not allow the type A and has two controllers for B, and the storage of n2
\* rejects operations on B.
MCHas == n1 :> [A |-> 1, B |-> 1] @@ n2 :> [A |-> 1, B |-> 1] @@ n3 :> [A |-> 1, B |-> 2]
Everything == [onlyRemote |-> FALSE, allowed |-> <<>>]
MCPermits == n1 :> Everything @@ n2 :> [onlyRemote |-> TRUE, allowed |-> <<>>]
  @@ n3 :> [onlyRemote |-> FALSE, allowed |-> n1 :> {"B"}]
MCRefusing == {<<n2, "B">>}
Row(id, val) == [id |-> id, val |-> val]
MCTables ==
  n1 :> [A |-> {Row(1, 2), Row(2, 1), Row(3, 5)}, B |-> {Row(1, 1)}]
    @@ n2 :> [A |-> {Row(1, 3), Row(4, 1)}, B |-> {}]
    @@ n3 :> [A |-> {}, B |-> {}]

Asks == [op |-> "find", type |-> "A", where |-> {1, 2, 3}, limit |-> 1, sort |-> FALSE,
         objects |-> <<>>, set |-> 0, incomplete |-> FALSE, among |-> {n1, n2, n3},
         skipLocal |-> FALSE]
Object(type, id, val) == [type |-> type, id |-> id, val |-> val]
\* New objects of two types, objects with ids, and new objects of one type
Mixed == <<Object("A", 0, 7), Object("B", 0, 8), Object("A", 0, 6)>>
Stored1 == <<Object("A", 1, 8), Object("B", 1, 7), Object("A", 2, 9)>>
New == <<Object("A", 0, 7), Object("A", 0, 8)>>
MCRequests ==
  {Asks} \cup {[Asks EXCEPT !.op = op, !.type = t, !.limit = l, !.sort = s] :
     op \in {"find", "aggregate"}, t \in {"A", "B"}, l \in {1, 50}, s \in BOOLEAN}
  \cup {[Asks EXCEPT !.op = op, !.type = t, !.incomplete = TRUE] :
          op \in {"aggregate", "update"}, t \in {"A", "B"}}
  \cup {[Asks EXCEPT !.op = op, !.type = t, !.where = w, !.set = 4] :
          op \in {"remove", "update"}, t \in {"A", "B"}, w \in {{1, 2, 3}, {9}}}
  \cup {[Asks EXCEPT !.op = "save", !.type = "", !.objects = o] : o \in {Mixed, Stored1, New}}
  \cup {[Asks EXCEPT !.op = "remove", !.type = "", !.objects = Stored1]}
  \cup {[Asks EXCEPT !.op = op, !.among = {n1, n3}, !.skipLocal = s] :
          op \in {"find", "update", "remove"}, s \in BOOLEAN}
  \cup {[Asks EXCEPT !.op = op, !.among = {n1}, !.skipLocal = TRUE] : op \in {"find", "aggregate"}}

\* Cars with drivers (one-to-many, and back many-to-one), each with keys in a
\* table between them; a wheel's identifier has a name of its own.
Column == [target |-> "", rel |-> ""]
Relation(target, rel) == [target |-> target, rel |-> rel]
MCSchema ==
  [Car |-> [id |-> Column, name |-> Column, drivers |-> Relation("Driver", "one-to-many"),
            wheels |-> Relation("Wheel", "one-to-many"), box |-> Relation("Driver", "")],
   Driver |-> [id |-> Column, age |-> Column, car |-> Relation("Car", "many-to-one"),
               keys |-> Relation("Car", "many-to-many")],
   Wheel |-> [nr |-> Column],
   Part |-> [id |-> Column, doors |-> Column, year |-> Column]]
MCIds == [Car |-> <<"id">>, Driver |-> <<"id">>, Wheel |-> <<"nr">>, Part |-> <<"id">>]
MCDb ==
  [Car |-> {[id |-> 1, name |-> 1, drivers |-> {1, 2}, wheels |-> {}],
            [id |-> 2, name |-> 2, drivers |-> {3}, wheels |-> {}],
            [id |-> 3, name |-> Null, drivers |-> {}, wheels |-> {}]},
   Driver |-> {[id |-> 1, age |-> 1, car |-> {1}], [id |-> 2, age |-> 2, car |-> {1}],
               [id |-> 3, age |-> 2, car |-> {2}]},
   Wheel |-> {},
   Part |-> {[id |-> 1, doors |-> 2, year |-> 4], [id |-> 2, doors |-> 4, year |-> 4],
             [id |-> 3, doors |-> 2, year |-> 5], [id |-> 4, doors |-> 2, year |-> 7]}]

Cmp(key, op, args) == [is |-> "cmp", key |-> key, op |-> op, args |-> args]
OnCars ==
  {Cmp(<<"name">>, "eq", <<1>>), Cmp(<<"name">>, "ne", <<1>>), Cmp(<<"name">>, "eq", <<Null>>),
   Cmp(<<"id">>, "between", <<2, 3>>), Cmp(<<"drivers", "age">>, "eq", <<1>>),
   Cmp(<<"drivers", "age">>, "eq", <<2>>), Cmp(<<"drivers", "id">>, "in", <<{2, 3}>>),
   Cmp(<<"drivers", "car", "name">>, "gt", <<1>>)}
Faulty == {Cmp(<<"colour">>, "eq", <<1>>), Cmp(<<"wheels", "nr">>, "eq", <<1>>),
           Cmp(<<"drivers">>, "eq", <<1>>), Cmp(<<"box", "id">>, "eq", <<1>>),
           Cmp(<<"drivers", "keys", "id">>, "eq", <<1>>), Cmp(<<"name", "id">>, "eq", <<1>>),
           [is |-> "or", of |-> <<>>]}
Opposite(c) == [is |-> "not", of |-> c]
Both(op, c, d) == [is |-> op, of |-> <<c, d>>]
Simple == OnCars \cup {Opposite(c) : c \in OnCars}
Conds == {[is |-> "and", of |-> <<>>]} \cup Simple
  \cup {Both(op, c, d) : op \in {"and", "or"}, c \in OnCars, d \in Simple}
  \cup {Both("or", c, Both("and", d, Opposite(Both("or", c, d)))) : c \in OnCars, d \in OnCars}
AllCars ==
  [class |-> "Car", type |-> "select", where |-> [is |-> "and", of |-> <<>>]]
MCSearches ==
  {[class |-> "Car", type |-> "select", where |-> c] : c \in Conds}
  \cup {[class |-> "Car", type |-> t, where |-> c] :
          c \in Faulty \cup OnCars, t \in {"delete", "select"}}

Field(alias, fn, field) == [alias |-> alias, fn |-> fn, field |-> field]
Doors == [stage |-> "match", where |-> Cmp(<<"doors">>, "eq", <<2>>)]
Renamed == [stage |-> "project", fields |-> <<Field("", "", "id"), Field("when", "half", "year")>>]
ByYear == [stage |-> "group", id |-> <<Field("", "", "year"), Field("pairs", "half", "doors")>>,
           fields |-> <<Field("count", "count", "1"), Field("last", "max", "id")>>]
Whole == [stage |-> "group", id |-> <<>>, fields |-> <<Field("last", "max", "id")>>]
Several == [stage |-> "match", where |-> Cmp(<<"count">>, "gt", <<1>>)]
OfYear == [stage |-> "match", where |-> Cmp(<<"year">>, "ne", <<5>>)]
Latest == [stage |-> "sort", keys |-> <<[key |-> "year", asc |-> FALSE], [key |-> "id", asc |-> TRUE]>>]
ByWhen == [stage |-> "sort", keys |-> <<[key |-> "when", asc |-> TRUE]>>]
SkipOne == [stage |-> "skip", n |-> 1]
OnlyOne == [stage |-> "limit", n |-> 1]
HowMany == [stage |-> "count", name |-> "n"]
Heads == {<<>>, <<Doors>>, <<Renamed>>, <<Doors, Renamed>>, <<Renamed, Doors>>, <<ByYear>>,
          <<Doors, ByYear>>, <<ByYear, Several>>, <<ByYear, OfYear>>, <<Doors, Whole>>,
          <<Doors, ByYear, Several>>, <<Doors, OfYear>>}
Tails == {<<>>, <<Latest>>, <<Latest, SkipOne, OnlyOne>>, <<Latest, OnlyOne>>, <<Latest, SkipOne>>,
          <<ByWhen>>, <<HowMany>>, <<Latest, OnlyOne, SkipOne>>}
MCPipelines == {h \o t : h \in Heads, t \in Tails}

\* Cars, drivers and garages refer to each other; a pet is fine, its owner needs the pet
\* to be there, and a club has members before it has an identifier.
Prop(name, kind, type, many) ==
  [name |-> name, kind |-> kind, type |-> type, many |-> many, id |-> name = "id",
   generated |-> FALSE]
Nr == Prop("id", "columns", "", FALSE)
To(name, type) == Prop(name, "relations", type, FALSE)
Source(by, fields, later) == [by |-> by, fields |-> fields, later |-> later]
MCSources ==
  [Car |-> Source("typeorm", <<Nr, To("driver", "Driver"), To("garage", "Garage")>>,
                  {Prop("colour", "columns", "", FALSE)}),
   Driver |-> Source("typeorm", <<Nr, To("car", "Car"), Prop("home", "embeddeds", "Home", FALSE)>>,
                     {To("garage", "Garage")}),
   Garage |-> Source("typeorm", <<Nr, To("driver", "Driver")>>, {}),
   Pet |-> Source("schema", <<[Nr EXCEPT !.generated = TRUE]>>,
                  {Prop("name", "columns", "", FALSE)}),
   Owner |-> Source("schema", <<Nr, To("pet", "Pet")>>, {Prop("pets", "relations", "Pet", TRUE)}),
   Club |-> Source("schema", <<Prop("members", "relations", "Pet", TRUE), Nr>>, {})]

\* A task that gives what another needs, one in a group, and one that is denied with a
\* group that is denied, too; another node has some of them.
TaskDef(name, kind, class, groups) ==
  [name |-> name, kind |-> kind, class |-> class, groups |-> groups]
MCTaskDefs == {TaskDef("read", "class", "Read", {}), TaskDef("write", "instance", "Write", {"all"}),
               TaskDef("wipe", "class", "Wipe", {"danger"})}
MCIncoming == [Read |-> {"file"}, Write |-> {"data"}, Wipe |-> {}]
MCOutgoing == [Read |-> {"data"}, Write |-> {}, Wipe |-> {}]
Bound(kind, source, target) == [kind |-> kind, source |-> source, target |-> target]
MCBindings == {Bound("group", "all", "read"), Bound("depends", "read", "write"),
               Bound("depends", "write", "read")}
MCMappings == {<<"copy", "write">>, <<"every", "all">>, <<"mine", "theirs">>}
MCAccess == <<[names |-> {"wipe", "danger", "read"}, allow |-> FALSE],
              [names |-> {"read"}, allow |-> TRUE]>>
MCOffered == n2 :> <<"read", "danger", "theirs">> @@ n3 :> <<"wipe", "theirs">>
\* The second node may know the first, also when it has gone.
MCHeardOf == n2 :> {{}} @@ n3 :> {{}, {n2}}
Asking(names, given) == [names |-> names, given |-> given]
MCAsked == {Asking(<<"write">>, {"data"}), Asking(<<"write", "read">>, {"file"}),
            Asking(<<"read", "write">>, {"file", "data"}), Asking(<<"all">>, {}),
            Asking(<<"theirs">>, {}), Asking(<<"copy">>, {"data"})}

\* Files and their lines, with and without a limit; a log, and what is not in files.
FileRequest(op, path) ==
  [op |-> op, path |-> path, tail |-> -1, offset |-> -1, limit |-> -1, unit |-> "byte",
   stats |-> FALSE]
OfFile == FileRequest("file", "file")
MCFileRequests ==
  {FileRequest(op, "file") : op \in {"file", "logfile_path", "status", "start"}}
  \cup {FileRequest("file", path) : path \in {"forbidden", "directory"}}
  \cup {[FileRequest("file", path) EXCEPT !.stats = TRUE] : path \in {"file", "directory"}}
  \cup {[FileRequest("logfile", "file") EXCEPT !.tail = t] : t \in {0, 1}}
  \cup {[OfFile EXCEPT !.unit = "line", !.offset = o, !.limit = l] : o \in {0, 1}, l \in {0, 1}}
  \cup {[OfFile EXCEPT !.offset = o, !.limit = l] : o \in {0, 1}, l \in {0, 3}}

\* Storages that extend others, some twice over, before and behind them; one that extends
\* what is not there; a schema without classes before a class, and an object that is none.
Item(is, classes) == [is |-> is, classes |-> classes]
GivenClass(c) == [path |-> FALSE, items |-> <<ClassItem(c)>>]
AtPath(items) == [path |-> TRUE, items |-> items]
StorageOf(name, db, extends, entries) ==
  [name |-> name, db |-> db, extends |-> extends, entries |-> entries]
MCLoaded == [main |-> <<"Car", "Pet">>, other |-> <<"Doc">>]
MCObjectId == [Car |-> "", Pet |-> "_id", Doc |-> "other", Late |-> "", Plain |-> ""]
Paths == <<AtPath(<<Item("schema", <<>>), ClassItem("Late"), ClassItem("Car")>>),
           AtPath(<<Item("schema", <<"Doc", "Pet">>), ClassItem("Plain")>>), AtPath(<<>>)>>
Extending(main, other, third) ==
  <<StorageOf("third", third, <<"other", "main">>, <<GivenClass("Late")>>),
    StorageOf("main", main, <<>>, Paths), StorageOf("other", other, <<"main">>, <<>>)>>
Kinds == {"sql", "mongodb"}
MCStorageConfigs ==
  {Extending(m, o, t) : m \in Kinds, o \in Kinds, t \in Kinds}
  \cup {<<StorageOf("other", m, <<>>, <<>>), StorageOf("main", t, <<"other">>, <<GivenClass("Doc")>>),
            StorageOf("third", m, <<"main">>, <<>>)>> : m \in Kinds, t \in Kinds}
  \cup {<<StorageOf("main", "sql", <<>>, <<>>), StorageOf("other", "sql", <<"main", "gone">>, <<>>)>>,
        <<StorageOf("main", "sql", <<>>, <<AtPath(<<Item("object", <<>>)>>)>>),
          StorageOf("other", "sql", <<"main">>, <<>>)>>}

Init ==
  /\ subject \in {"schedules", "cache", "life", "entities", "conditions", "pipelines",
                "registry", "tasks", "files", "infos", "storages"}
  /\ InitSchedules /\ InitLife
  /\ InitCaches /\ (subject # "cache" => adapterOf = [b \in Bins |-> "memory"])
  /\ InitEntities /\ (subject # "entities" => request = Asks)
  /\ InitConditions /\ (subject # "conditions" => search = AllCars)
  /\ InitPipelines /\ (subject # "pipelines" => pipeline = <<>>)
  /\ InitRegistry /\ InitTasks /\ InitFiles /\ InitInfos
  /\ InitStorageRefs /\ (subject # "storages" => storageConfig = Extending("sql", "sql", "sql"))

Rests(name, variables) == IF subject = name THEN TRUE ELSE UNCHANGED variables

Next ==
  /\ \/ subject = "schedules" /\ NextSchedules
     \/ subject = "cache" /\ NextCaches
     \/ subject = "life" /\ NextLife
     \/ subject = "entities" /\ NextEntities
     \/ subject = "conditions" /\ NextConditions
     \/ subject = "pipelines" /\ NextPipelines
     \/ subject = "registry" /\ NextRegistry
     \/ subject = "tasks" /\ NextTasks
     \/ subject = "files" /\ NextFiles
     \/ subject = "infos" /\ NextInfos
     \/ subject = "storages" /\ NextStorageRefs
  /\ UNCHANGED subject
  /\ Rests("schedules", scheduleVars)
  /\ Rests("cache", cacheVars)
  /\ Rests("life", lifeVars)
  /\ Rests("entities", entitiesVars)
  /\ Rests("conditions", conditionVars)
  /\ Rests("pipelines", pipelineVars)
  /\ Rests("registry", registryVars)
  /\ Rests("tasks", taskVars)
  /\ Rests("files", fileVars)
  /\ Rests("infos", infoVars)
  /\ Rests("storages", storageRefVars)

Spec == Init /\ [][Next]_vars /\ FairCaches /\ FairFiles

-----------------------------------------------------------------------------
\* What was called is answered, and what was to expire does: by the timers of the
\* cache (MemoryCacheAdapter.ts:46), by the Redis client whose server may be silent,
\* unless it is closed meanwhile (RedisCacheClient.ts:26), and by the exchange of files (FileSystemExchange.ts:121).
CallsAnswered == ValuesExpire /\ CacheCallsEnd /\ RequestsAnswered

\* What is known of the classes agrees: the registry with typeorm's arrays
\* (TypeOrmEntityRegistry.ts:260, 638), the column _id with the storages that use a class
\* (TypeOrmStorageRef.ts:234), and storages with those they extend (TypeOrmStorageRef.ts:283).
EntitiesAgree == RefsMirrorStore /\ IdColumnsFit /\ AddedReachesAll

\* The registries take nothing back: references find their entities and relations
\* their joins (TypeOrmEntityRegistry.ts:638), and tasks of this process stay as
\* they are while nodes come and go (TasksSystemExtension.ts:57).
RegistriesHold == ReferencesResolve /\ LocalTasksStay
=============================================================================
