SPECIFICATION Spec
CONSTANTS
  k1 = k1
  c1 = c1
  c2 = c2
  n1 = n1
  n2 = n2
  n3 = n3
  Defs <- MCDefs
  MaxDelay = 5
  Minute = 1
  Horizon = 8
  CacheConfigs <- MCCacheConfigs
  Classes = {"memory", "redis"}
  Bins = {"default", "own"}
  CacheKeys = {k1}
  Calls = {c1, c2}
  MaxSets = 2
  Storages <- MCStorages
  Modules <- MCModules
  Base = "base"
  WorkerClasses <- MCWorkers
  Signals = {"SIGINT", "SIGTERM"}
  Others = {"exception"}
  Failures = 1
  Nodes = {n1, n2, n3}
  Types = {"A", "B"}
  Has <- MCHas
  Permits <- MCPermits
  Sender = n1
  Working = {n1, n2, n3}
  MaxFind = 2
  Refusing <- MCRefusing
  Tables <- MCTables
  Requests <- MCRequests
  Schema <- MCSchema
  Ids <- MCIds
  Db <- MCDb
  Searches <- MCSearches
  Pipelines <- MCPipelines
  Class = "Part"
  Sources <- MCSources
  TaskDefs <- MCTaskDefs
  Incoming <- MCIncoming
  Outgoing <- MCOutgoing
  Bindings <- MCBindings
  Mappings <- MCMappings
  Access <- MCAccess
  Own = n1
  Offered <- MCOffered
  HeardOf <- MCHeardOf
  Asked <- MCAsked
  FileRequests <- MCFileRequests
  MaxFile = 4
  Block = 2
  DefaultTail = 2
  DefaultLimit = 3
  Peers = {n2, n3}
  InfoCalls = {c1, c2}
  StorageConfigs <- MCStorageConfigs
  Loaded <- MCLoaded
  ObjectId <- MCObjectId
  Annotated = {"Car", "Pet", "Doc", "Late"}
  AddedLater = {"Late", "Doc"}
INVARIANTS
  SchedulesKeepTime
  LateOnesHarmNobody
  StopsInOrder
  AnswersAreTrue
  SelectsWhatIsSaid
  PipelineAgrees
  EntitiesAgree
  TasksHaveAPlace
  RunsAreComplete
  ReadsAreExact
  InfosOncePerNode
PROPERTIES
  CallsAnswered
  RegistriesHold
CHECK_DEADLOCK FALSE
