-------------------------- MODULE DistributedQuery --------------------------
(***************************************************************************)
(* The operations of the distributed storage (libs/distributed_storage:    *)
(* find, save, update, remove, aggregate) as requests of AbstractMessage,  *)
(* and the DistributedQueryWorker (workers/DistributedQueryWorker.ts) that *)
(* carries them out on every node that is asked.                           *)
(*                                                                         *)
(* The five operations pick their targets and their end in the same way;   *)
(* what they send and get back is left out, as are the entities.  The own  *)
(* node is asked over the bus like any other: there is no beforeSend().    *)
(***************************************************************************)
EXTENDS Requests

CONSTANT Barring   \* the processes whose 'allowed' option bars the sender

ASSUME DistributedQueryAssumption == Barring \subseteq Procs

VARIABLES
  outstanding,   \* the processes that have not got the request
  accepted,      \* those whose worker has put it into its queue
  carried        \* those whose storage has carried it out, or failed to

queryWorkerVars == <<outstanding, accepted, carried>>
queryVars == <<requestVars, queryWorkerVars>>

QueryTypeOK ==
  /\ RequestTypeOK
  /\ outstanding \in SUBSET Procs
  /\ accepted \in SUBSET (Procs \ outstanding)
  /\ carried \in SUBSET (Procs \ (outstanding \cup accepted))

InitQuery ==
  /\ RequestInit
  /\ outstanding = {} /\ accepted = {} /\ carried = {}

-----------------------------------------------------------------------------
(* run *)

\* The nodes that run the worker, as far as they are asked for.
QueryTargets(workers) ==
  LET known == {NodeOf[p] : p \in workers}
      picked == IF options.detectTargets THEN known ELSE known \cap options.targetIds
  IN IF options.skipLocal THEN picked \ {Me} ELSE picked

\* run(), with the processes of System.getNodesWith() that have the worker:
\* without any it throws "no distributed worker found to execute the query."
RunQuery ==
  /\ \E workers \in SUBSET Procs :
       LET nodes == QueryTargets(workers) IN
       IF nodes = {} THEN Refuse ELSE Send(nodes, "prepared")
  /\ UNCHANGED queryWorkerVars

PostQuery ==
  /\ Post
  /\ outstanding' = Procs
  /\ UNCHANGED <<accepted, carried>>

\* Slip: an error is told only when nobody has carried out the request.
ThrowsIfAllFail == result # {} /\ \A a \in result : a.kind = "failed"
\* doPostProcess() throws when one of the responses carries an error.
Throws == \E a \in result : a.kind = "failed"

SettleQuery ==
  /\ Finish(IF ~options.asResponses /\ Throws THEN "rejected" ELSE "resolved")
  /\ UNCHANGED queryWorkerVars

-----------------------------------------------------------------------------
(* DistributedQueryWorker *)

\* onRequest: the request is turned down at once, or put into the queue.
OnQuery(p) ==
  /\ p \in outstanding
  /\ outstanding' = outstanding \ {p}
  /\ \/ NodeOf[p] \notin asked /\ UNCHANGED <<requestVars, accepted>>
     \/ /\ NodeOf[p] \in asked /\ p \in Barring   \* isAllowed() is FALSE
        /\ PostResponse([from |-> p, nr |-> 1, kind |-> "skipping"])
        /\ UNCHANGED accepted
     \/ /\ NodeOf[p] \in asked /\ p \in Failing   \* no such entity, ...
        /\ PostResponse([from |-> p, nr |-> 1, kind |-> "failed"])
        /\ UNCHANGED accepted
     \/ /\ NodeOf[p] \in asked /\ p \notin Barring
        /\ accepted' = accepted \cup {p}
        /\ UNCHANGED requestVars
  /\ UNCHANGED carried

\* do: the queue has called the operation of the storage, and it has ended.
Do(p) ==
  /\ p \in accepted
  /\ accepted' = accepted \ {p}
  /\ carried' = carried \cup {p}
  /\ \E kind \in Outcomes(p) : PostResponse([from |-> p, nr |-> 1, kind |-> kind])
  /\ UNCHANGED outstanding

\* The bus delivers a response.
DeliverToOp == \E a \in answers : OnResults(a) /\ UNCHANGED queryWorkerVars

NextQuery ==
  \/ RunQuery
  \/ PostQuery
  \/ Timeout /\ UNCHANGED queryWorkerVars
  \/ SettleQuery
  \/ \E p \in Procs : OnQuery(p) \/ Do(p)
  \/ DeliverToOp

SpecQuery == InitQuery /\ [][NextQuery]_queryVars

-----------------------------------------------------------------------------
(* Properties *)

\* A save, update or remove that is reported as done, without a timeout and
\* without the options that hide errors, was done by a process of every node
\* that was asked, or that process bars the sender.
DoneEverywhere ==
  /\ phase = "resolved" /\ ~late
  /\ ~options.filterErrors /\ ~options.asResponses
  => \A n \in asked :
       \E a \in responses \cup heard :
         /\ Node(a) = n
         /\ \/ a.kind = "ok" /\ a.from \in carried
            \/ a.kind = "skipping" /\ a.from \in Barring

\* A rejected one was turned down or failed at one of the nodes, and what
\* the others have done is done.
RejectedForAReason ==
  phase = "rejected" =>
    /\ \E a \in result : a.kind = "failed"
    /\ \A a \in result : a.kind = "ok" => a.from \in carried

\* What run() tells of a save, update or remove is what the nodes have done.
ToldAsDone == DoneEverywhere /\ RejectedForAReason
=============================================================================
