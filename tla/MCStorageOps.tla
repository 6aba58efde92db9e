----------------------------- MODULE MCStorageOps -----------------------------
(* Instances of StorageOps for TLC. *)
EXTENDS StorageOps, TLC

CONSTANTS o1, o2

\* One that reads in two statements within its try, with one that writes at
\* once; and one whose count may fail, with one that connects within its try.
MCWorkloads ==
  {(o1 :> FindSql @@ o2 :> Save), (o1 :> AggregateSql @@ o2 :> RemoveByCondition)}

\* To keep the instance small, the storage is shut down under one of them only,
\* and is in memory, which makes a difference for shutdown() alone, only then.
MCInit ==
  /\ Init
  /\ mode = "memory" => "shuts" \in may
  /\ "shuts" \in may => kind = (o1 :> FindSql @@ o2 :> Save)
MCSpec == MCInit /\ [][Next]_vars /\ Fairness

MCDisturbances == {{"refuses"}, {"adds"}, {"shuts"}}
MCSave == {[o \in Ops |-> Save]}
MCCalm == {{}}
=============================================================================
