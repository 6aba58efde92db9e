--------------------------- MODULE ExchangeProofs ---------------------------
(***************************************************************************)
(* Theorems about the three components that send requests: Messages,       *)
(* DistributedQuery and TaskExchange.  The steps of each are steps of      *)
(* RequestSpec, so that what RequestsProofs shows holds of it; and what    *)
(* its sender is told of the other nodes is what they have done.           *)
(*                                                                         *)
(* The three share the request and nothing else: a section uses the        *)
(* assumptions of its own component only.                                  *)
(***************************************************************************)
EXTENDS Messages, DistributedQuery, TaskExchange, RequestsProofs,
        FiniteSetTheorems, SequenceTheorems

-----------------------------------------------------------------------------
(*****************************************************************************)
(* Messages                                                                  *)
(*****************************************************************************)

LEMMA OutcomeTypes == \A p \in Procs : Outcomes(p) \subseteq {"ok", "failed"}
BY DEF Outcomes

\* The state of the exchanges; RequestTypeOK is part of Structure.
ServerTypeOK ==
  /\ inbox \in [Procs -> SUBSET Subscribers]
  /\ queued \in [Procs -> BOOLEAN] /\ cached \in [Procs -> BOOLEAN]
  /\ handling \in [Procs -> 0..2]
  /\ posted \in [Procs -> 0..2]

\* Nobody has heard of a request that has not been posted.
Unheard ==
  phase \in Early =>
    \A p \in Procs : inbox[p] = {} /\ ~queued[p] /\ handling[p] = 0 /\ posted[p] = 0

\* 1 for a request that waits in the queue of p.
InQueue(p) == IF queued[p] THEN 1 ELSE 0

ServerStructure == ServerTypeOK /\ HandledAlone /\ Unheard

\* The boxes are small sets, of which the prover must be told the sizes.
LEMMA BoxSizes ==
  /\ \A box \in SUBSET Subscribers : Cardinality(box) \in 0..2
  /\ \A box \in SUBSET Subscribers : \A who \in box :
       Cardinality(box \ {who}) = Cardinality(box) - 1
  /\ Cardinality(Subscribers) = 2
  /\ Cardinality({}) = 0
<1>1. IsFiniteSet(Subscribers) /\ Cardinality(Subscribers) = 2
  <2>1. IsFiniteSet({"exchange"}) /\ Cardinality({"exchange"}) = 1
    BY FS_Singleton
  <2>2. Subscribers = {"exchange"} \cup {"worker"}
    BY DEF Subscribers
  <2> QED BY <2>1, <2>2, FS_AddElement
<1>2. \A box \in SUBSET Subscribers : IsFiniteSet(box) /\ Cardinality(box) \in 0..2
  BY <1>1, FS_Subset, FS_CardinalityType
<1>3. \A box \in SUBSET Subscribers : \A who \in box :
        Cardinality(box \ {who}) = Cardinality(box) - 1
  BY <1>2, FS_RemoveElement
<1>4. Cardinality({}) = 0
  BY FS_EmptySet
<1> QED BY <1>1, <1>2, <1>3, <1>4

LEMMA InitServers == Init => ServerStructure
<1> SUFFICES ASSUME Init PROVE ServerStructure
  OBVIOUS
<1>1. ServerTypeOK
  BY DEF Init, ServerTypeOK
<1>2. HandledAlone
  BY BoxSizes DEF Init, HandledAlone
<1>3. Unheard
  BY DEF Init, Unheard
<1> QED BY <1>1, <1>2, <1>3 DEF ServerStructure

-----------------------------------------------------------------------------
(* Steps of the sender *)

\* A step that leaves the exchanges alone keeps their structure, unless the
\* request becomes early again, which it never does.
LEMMA SenderOnly ==
  ASSUME ServerStructure, UNCHANGED exchangeVars, phase' \in Early => phase \in Early
  PROVE  ServerStructure'
BY DEF ServerStructure, ServerTypeOK, HandledAlone, Unheard, exchangeVars

LEMMA SendMessageRequests ==
  ASSUME Structure, SendMessage
  PROVE  RequestStep
<1>1. PICK known \in SUBSET (Procs \ {Self}) :
        Send(Base(known), IF HandlesLocally(Base(known)) THEN "local" ELSE "prepared")
  BY DEF SendMessage
<1>2. Base(known) \in SUBSET Nodes
  BY RequestsAssumption DEF Base, Structure, RequestTypeOK, Options
<1>3. (IF HandlesLocally(Base(known)) THEN "local" ELSE "prepared") \in {"local", "prepared"}
  OBVIOUS
<1> QED BY <1>1, <1>2, <1>3 DEF RequestStep

LEMMA SenderRequests ==
  ASSUME Structure, SenderNext
  PROVE  RequestStep
<1>1. CASE LocalResponse
  <2>1. PICK kind \in Outcomes(Self) : BeforeSend([from |-> Self, nr |-> 0, kind |-> kind])
    BY <1>1 DEF LocalResponse
  <2>2. [from |-> Self, nr |-> 0, kind |-> kind] \in LocalResponses
    BY OutcomeTypes, RequestsAssumption DEF LocalResponses
  <2> QED BY <2>1, <2>2 DEF RequestStep
<1>2. CASE Settle
  BY <1>2 DEF Settle, RequestStep
<1>3. CASE PostMessage
  BY <1>3 DEF PostMessage, RequestStep
<1> QED BY <1>1, <1>2, <1>3, SendMessageRequests DEF SenderNext, RequestStep

LEMMA SenderKeeps ==
  ASSUME Structure, ServerStructure, SenderNext
  PROVE  ServerStructure'
<1>1. CASE PostMessage
  <2>1. phase \in Early /\ phase' \notin Early
    BY <1>1 DEF PostMessage, Post, Early
  <2>2. /\ inbox' = [p \in Procs |-> Subscribers]
        /\ UNCHANGED <<queued, cached, handling, posted>>
    BY <1>1 DEF PostMessage
  <2>3. ServerTypeOK'
    BY <2>2 DEF ServerStructure, ServerTypeOK
  <2>4. HandledAlone'
    BY <2>1, <2>2, BoxSizes DEF ServerStructure, HandledAlone, Unheard
  <2> QED BY <2>1, <2>3, <2>4 DEF ServerStructure, Unheard
<1>2. CASE SendMessage
  BY <1>2, SenderOnly DEF SendMessage, Send, Early
<1>3. CASE LocalResponse
  BY <1>3, SenderOnly DEF LocalResponse, BeforeSend, Early
<1>4. CASE NothingToAsk /\ UNCHANGED exchangeVars
  BY <1>4, SenderOnly DEF NothingToAsk, Early
<1>5. CASE Timeout /\ UNCHANGED exchangeVars
  <2>1. phase' \in Early => phase \in Early
    BY <1>5 DEF Timeout, PostProcess, collectVars, Early
  <2> QED BY <1>5, <2>1, SenderOnly
<1>6. CASE Settle
  BY <1>6, SenderOnly DEF Settle, Finish, Early
<1> QED BY <1>1, <1>2, <1>3, <1>4, <1>5, <1>6 DEF SenderNext

-----------------------------------------------------------------------------
(* Steps of the exchanges *)

\* Where a request has come to p, it has been posted.
LEMMA Heard ==
  ASSUME ServerStructure, NEW p \in Procs,
         inbox[p] # {} \/ queued[p] \/ handling[p] # 0 \/ posted[p] # 0
  PROVE  phase \notin Early
BY DEF ServerStructure, Unheard

\* A request that leaves its place for the exchange of p is handled, or not.
LEMMA OnRequestKeeps ==
  ASSUME ServerStructure, NEW p \in Procs, OnRequest(p), UNCHANGED <<requestVars, posted>>,
         phase \notin Early,
         inbox' \in [Procs -> SUBSET Subscribers], queued' \in [Procs -> BOOLEAN],
         InQueue(p)' + Cardinality(inbox[p])' = InQueue(p) + Cardinality(inbox[p]) - 1,
         \A q \in Procs \ {p} : inbox'[q] = inbox[q] /\ queued'[q] = queued[q]
  PROVE  ServerStructure'
<1> USE DEF ServerStructure
<1>0. Cardinality(inbox[p]) \in 0..2 /\ Cardinality(inbox[p])' \in 0..2
  BY BoxSizes DEF ServerTypeOK
<1>1. posted[p] + handling[p] + InQueue(p) + Cardinality(inbox[p]) <= 2
  BY DEF HandledAlone, InQueue
<1>2. CASE (asked = {} \/ NodeOf[p] \in asked) /\ Handles(p)
  <2>1. /\ cached' = [cached EXCEPT ![p] = TRUE]
        /\ handling' = [handling EXCEPT ![p] = @ + 1]
    BY <1>2 DEF OnRequest
  <2>2. handling[p] = 0
    BY <1>2 DEF Handles, HandledAlone, ServerTypeOK
  <2>3. ServerTypeOK'
    BY <2>1, <2>2 DEF ServerTypeOK
  <2>4. ASSUME NEW q \in Procs
        PROVE  /\ handling'[q] <= 1
               /\ cached'[q] <=> handling'[q] = 1
    BY <2>1, <2>2 DEF ServerTypeOK, HandledAlone
  <2>5. ASSUME NEW q \in Procs
        PROVE  posted'[q] + handling'[q] + InQueue(q)' + Cardinality(inbox[q])' <= 2
    <3>1. CASE q = p
      BY <3>1, <1>0, <1>1, <2>1, <2>2 DEF ServerTypeOK, InQueue
    <3>2. CASE q # p
      BY <3>2, <2>1 DEF ServerTypeOK, InQueue, HandledAlone
    <3> QED BY <3>1, <3>2
  <2> QED BY <2>3, <2>4, <2>5 DEF HandledAlone, InQueue, Unheard, requestVars, sendVars
<1>3. CASE ~((asked = {} \/ NodeOf[p] \in asked) /\ Handles(p))
  <2>1. UNCHANGED <<cached, handling>>
    BY <1>3 DEF OnRequest
  <2>2. ServerTypeOK'
    BY <2>1 DEF ServerTypeOK
  <2>3. ASSUME NEW q \in Procs
        PROVE  posted'[q] + handling'[q] + InQueue(q)' + Cardinality(inbox[q])' <= 2
    <3>1. CASE q = p
      BY <3>1, <1>0, <1>1, <2>1 DEF ServerTypeOK, InQueue
    <3>2. CASE q # p
      BY <3>2, <2>1 DEF ServerTypeOK, InQueue, HandledAlone
    <3> QED BY <3>1, <3>2
  <2> QED BY <2>1, <2>2, <2>3 DEF HandledAlone, InQueue, Unheard, requestVars, sendVars
<1> QED BY <1>2, <1>3

LEMMA ExchangeHearsKeeps ==
  ASSUME ServerStructure, NEW p \in Procs, ExchangeHears(p)
  PROVE  ServerStructure'
<1> USE DEF ServerStructure, ServerTypeOK
<1>1. /\ "exchange" \in inbox[p] /\ inbox' = [inbox EXCEPT ![p] = @ \ {"exchange"}]
      /\ OnRequest(p) /\ UNCHANGED <<requestVars, queued, posted>>
  BY DEF ExchangeHears
<1>2. inbox'[p] = inbox[p] \ {"exchange"}
  BY <1>1
<1>3. Cardinality(inbox[p])' = Cardinality(inbox[p]) - 1 /\ Cardinality(inbox[p]) \in 0..2
  BY <1>1, <1>2, BoxSizes
<1>4. InQueue(p)' = InQueue(p) /\ InQueue(p) \in 0..1
  BY <1>1 DEF InQueue
<1>5. InQueue(p)' + Cardinality(inbox[p])' = InQueue(p) + Cardinality(inbox[p]) - 1
  BY <1>3, <1>4
<1>6. phase \notin Early
  BY <1>1, Heard
<1>7. inbox' \in [Procs -> SUBSET Subscribers] /\ queued' \in [Procs -> BOOLEAN]
  BY <1>1
<1>8. \A q \in Procs \ {p} : inbox'[q] = inbox[q] /\ queued'[q] = queued[q]
  BY <1>1
<1> QED BY <1>1, <1>5, <1>6, <1>7, <1>8, OnRequestKeeps

LEMMA WorkerHearsKeeps ==
  ASSUME ServerStructure, NEW p \in Procs, WorkerHears(p)
  PROVE  ServerStructure'
<1> USE DEF ServerStructure, ServerTypeOK
<1>1. /\ "worker" \in inbox[p] /\ inbox' = [inbox EXCEPT ![p] = @ \ {"worker"}]
      /\ queued' = [queued EXCEPT ![p] = NodeOf[p] \in asked]
      /\ UNCHANGED <<requestVars, cached, handling, posted>>
  BY DEF WorkerHears
<1>2. inbox'[p] = inbox[p] \ {"worker"}
  BY <1>1
<1>3. Cardinality(inbox[p])' = Cardinality(inbox[p]) - 1 /\ Cardinality(inbox[p]) \in 0..2
  BY <1>1, <1>2, BoxSizes
<1>4. (NodeOf[p] \in asked) \in BOOLEAN
  OBVIOUS
<1>5. queued' \in [Procs -> BOOLEAN]
  BY <1>1, <1>4, Zenon
<1>6. ServerTypeOK'
  BY <1>1, <1>5
<1>7. ASSUME NEW q \in Procs
      PROVE  posted'[q] + handling'[q] + InQueue(q)' + Cardinality(inbox[q])' <= 2
  <2>1. posted[q] + handling[q] + InQueue(q) + Cardinality(inbox[q]) <= 2
    BY DEF HandledAlone, InQueue
  <2>2. CASE q = p
    BY <1>1, <1>3, <2>1, <2>2 DEF InQueue
  <2>3. CASE q # p
    BY <1>1, <2>1, <2>3 DEF InQueue
  <2> QED BY <2>2, <2>3
<1>8. phase' \notin Early
  BY <1>1, Heard DEF requestVars, sendVars
<1> QED BY <1>1, <1>6, <1>7, <1>8 DEF HandledAlone, InQueue, Unheard

LEMMA WorkerDoesKeeps ==
  ASSUME ServerStructure, NEW p \in Procs, WorkerDoes(p)
  PROVE  ServerStructure'
<1> USE DEF ServerStructure, ServerTypeOK
<1>1. /\ queued[p] /\ queued' = [queued EXCEPT ![p] = FALSE]
      /\ OnRequest(p) /\ UNCHANGED <<requestVars, inbox, posted>>
  BY DEF WorkerDoes
<1>2. queued' \in [Procs -> BOOLEAN] /\ ~queued'[p]
  BY <1>1, Zenon
<1>3. InQueue(p)' = 0 /\ InQueue(p) = 1
  BY <1>1, <1>2 DEF InQueue
<1>4. Cardinality(inbox[p])' = Cardinality(inbox[p]) /\ Cardinality(inbox[p]) \in 0..2
  BY <1>1, BoxSizes
<1>5. InQueue(p)' + Cardinality(inbox[p])' = InQueue(p) + Cardinality(inbox[p]) - 1
  BY <1>3, <1>4
<1>6. phase \notin Early
  BY <1>1, Heard
<1>7. inbox' \in [Procs -> SUBSET Subscribers]
  BY <1>1
<1>8. \A q \in Procs \ {p} : inbox'[q] = inbox[q] /\ queued'[q] = queued[q]
  BY <1>1
<1> QED BY <1>1, <1>2, <1>5, <1>6, <1>7, <1>8, OnRequestKeeps

LEMMA RespondKeeps ==
  ASSUME ServerStructure, NEW p \in Procs, NEW kind \in Outcomes(p), Respond(p, kind)
  PROVE  ServerStructure' /\ RequestStep
<1> USE DEF ServerStructure, ServerTypeOK
<1>1. /\ handling[p] > 0 /\ handling' = [handling EXCEPT ![p] = @ - 1]
      /\ cached' = [cached EXCEPT ![p] = FALSE]
      /\ posted' = [posted EXCEPT ![p] = @ + 1]
      /\ PostResponse([from |-> p, nr |-> posted[p] + 1, kind |-> kind])
      /\ UNCHANGED <<inbox, queued>>
  BY DEF Respond, Uncached
<1>2. handling[p] = 1
  BY <1>1 DEF HandledAlone
<1>3. Cardinality(inbox[p]) \in 0..2 /\ InQueue(p) \in 0..1
  BY BoxSizes DEF InQueue
<1>4. posted[p] + handling[p] + InQueue(p) + Cardinality(inbox[p]) <= 2
  BY DEF HandledAlone, InQueue
<1>5. posted[p] \in 0..1
  BY <1>2, <1>3, <1>4
<1>6. ServerTypeOK'
  <2>1. handling' \in [Procs -> 0..2] /\ posted' \in [Procs -> 0..2]
    BY <1>1, <1>2, <1>5
  <2>2. cached' \in [Procs -> BOOLEAN]
    BY <1>1, Zenon
  <2> QED BY <1>1, <2>1, <2>2
<1>7. ASSUME NEW q \in Procs
      PROVE  /\ handling'[q] <= 1
             /\ cached'[q] <=> handling'[q] = 1
             /\ posted'[q] + handling'[q] + InQueue(q)' + Cardinality(inbox[q])' <= 2
  <2>1. CASE q = p
    BY <1>1, <1>2, <1>3, <1>4, <1>5, <2>1 DEF InQueue
  <2>2. CASE q # p
    BY <1>1, <2>2 DEF InQueue, HandledAlone
  <2> QED BY <2>1, <2>2
<1>8. phase' \notin Early
  BY <1>1, Heard DEF PostResponse, sendVars
<1>9. [from |-> p, nr |-> posted[p] + 1, kind |-> kind] \in BusResponses
  BY <1>5, OutcomeTypes DEF BusResponses, Kinds
<1> QED BY <1>1, <1>6, <1>7, <1>8, <1>9 DEF HandledAlone, InQueue, Unheard, RequestStep

LEMMA DeliverKeeps ==
  ASSUME ServerStructure, Deliver
  PROVE  ServerStructure' /\ RequestStep
<1>1. PICK a \in answers : OnResults(a) /\ UNCHANGED exchangeVars
  BY DEF Deliver
<1>2. phase' \in Early => phase \in Early
  BY <1>1 DEF OnResults, Counted, PostProcess, collectVars, Early
<1>3. ServerStructure'
  BY <1>1, <1>2, SenderOnly
<1>4. RequestStep
  BY <1>1 DEF RequestStep
<1> QED BY <1>3, <1>4

-----------------------------------------------------------------------------
(* The theorems *)

\* Every step of Messages is a step of its request, or leaves it alone.
LEMMA StepServers ==
  Structure /\ ServerStructure /\ [Next]_vars =>
    ServerStructure' /\ [RequestStep]_requestVars
<1> SUFFICES ASSUME Structure, ServerStructure, [Next]_vars
             PROVE  ServerStructure' /\ [RequestStep]_requestVars
  OBVIOUS
<1>1. CASE SenderNext
  BY <1>1, SenderKeeps, SenderRequests
<1>2. ASSUME NEW p \in Procs, ExchangeNext(p)
      PROVE  ServerStructure' /\ [RequestStep]_requestVars
  <2>1. CASE ExchangeHears(p)
    BY <2>1, ExchangeHearsKeeps DEF ExchangeHears
  <2>2. CASE WorkerHears(p)
    BY <2>2, WorkerHearsKeeps DEF WorkerHears
  <2>3. CASE WorkerDoes(p)
    BY <2>3, WorkerDoesKeeps DEF WorkerDoes
  <2>4. ASSUME NEW kind \in Outcomes(p), Respond(p, kind)
        PROVE  ServerStructure' /\ [RequestStep]_requestVars
    BY <2>4, RespondKeeps
  <2> QED BY <1>2, <2>1, <2>2, <2>3, <2>4 DEF ExchangeNext
<1>3. CASE Deliver
  BY <1>3, DeliverKeeps
<1>4. CASE UNCHANGED vars
  <2>1. UNCHANGED exchangeVars /\ UNCHANGED requestVars
    BY <1>4 DEF vars
  <2>2. phase' = phase
    BY <2>1 DEF requestVars, sendVars
  <2> QED BY <2>1, <2>2, SenderOnly
<1> QED BY <1>1, <1>2, <1>3, <1>4 DEF Next

\* A message is a request: whatever RequestSpec promises holds of it.
THEOREM MessagesAreRequests == Spec => [](Structure /\ ServerStructure) /\ RequestSpec
<1>1. Init => Structure /\ ServerStructure /\ RequestInit
  BY InitStructure, InitServers DEF Init
<1>2. Structure /\ ServerStructure /\ [Next]_vars =>
        (Structure /\ ServerStructure)' /\ [RequestStep]_requestVars
  BY StepServers, StepStructure
<1> QED BY <1>1, <1>2, PTL DEF Spec, RequestSpec

\* The types of the request and of the exchanges.
THEOREM TypeCorrect == Spec => []TypeOK
<1>1. Structure /\ ServerStructure => TypeOK
  BY DEF Structure, ServerStructure, ServerTypeOK, TypeOK
<1> QED BY MessagesAreRequests, <1>1, PTL

\* Answers that come twice, from an exchange or from a second instance, are
\* counted once, and only those of nodes that were asked.
THEOREM AlwaysEachNodeOnce == Spec => []EachNodeOnce
<1> QED BY MessagesAreRequests, StructureGivesOnce, PTL

\* No answer that came in is left out.
THEOREM AlwaysNobodyForgotten == Spec => []NobodyForgotten
<1>1. Structure => NobodyForgotten
  BY DEF Structure
<1> QED BY MessagesAreRequests, <1>1, PTL

\* Only a timeout makes a result incomplete.
THEOREM AlwaysCompleteOrLate == Spec => []CompleteOrLate
<1> QED BY MessagesAreRequests, StructureGivesComplete, PTL

\* reqCache lets an exchange handle one request at a time, twice at most.
THEOREM AlwaysHandledAlone == Spec => []HandledAlone
<1>1. ServerStructure => HandledAlone
  BY DEF ServerStructure
<1> QED BY MessagesAreRequests, <1>1, PTL

\* Neither the timer nor late answers change a result.
THEOREM AlwaysResultStands == Spec => ResultStands
<1> QED BY MessagesAreRequests, RequestResultStands, PTL

\* A message keeps what RequestReply promises to its sender.
THEOREM MessagesImplementReply == Spec => ImplementsReply
<1> QED BY MessagesAreRequests, RequestImplementsReply, PTL

-----------------------------------------------------------------------------
(*****************************************************************************)
(* DistributedQuery                                                          *)
(*****************************************************************************)

WorkerTypeOK ==
  /\ outstanding \in SUBSET Procs
  /\ accepted \in SUBSET (Procs \ outstanding)
  /\ carried \in SUBSET (Procs \ (outstanding \cup accepted))

\* A request is on its way only when it has been posted.
Unposted == phase \in Early => outstanding = {} /\ accepted = {} /\ carried = {}

\* What a response says of the one who posted it is true.
Truthful(as) ==
  \A a \in as : /\ a.kind = "ok" => a.from \in carried
                /\ a.kind = "skipping" => a.from \in Barring

AllTruthful == Truthful(answers) /\ Truthful(heard) /\ Truthful(responses)

\* How the promise was settled agrees with the responses.
Settled ==
  /\ phase = "resolved" => options.asResponses \/ ~Throws
  /\ phase = "rejected" => Throws

WorkerStructure == WorkerTypeOK /\ Unposted /\ AllTruthful /\ Settled

LEMMA InitWorkers == InitQuery => WorkerStructure
BY DEF InitQuery, RequestInit, WorkerStructure, WorkerTypeOK, Unposted, AllTruthful,
       Truthful, Settled

-----------------------------------------------------------------------------
(* Steps of the sender *)

\* A step of the sender's that leaves the workers and the responses alone.
LEMMA OpOnly ==
  ASSUME WorkerStructure, UNCHANGED queryWorkerVars,
         answers' = answers, heard' = heard, responses' = responses,
         phase' \in Early => phase \in Early,
         Settled'
  PROVE  WorkerStructure'
BY DEF WorkerStructure, WorkerTypeOK, Unposted, AllTruthful, Truthful, queryWorkerVars

LEMMA QueryTargetNodes == \A workers \in SUBSET Procs : QueryTargets(workers) \in SUBSET Nodes
BY RequestsAssumption DEF QueryTargets

LEMMA RunQueryKeeps ==
  ASSUME Structure, WorkerStructure, RunQuery
  PROVE  WorkerStructure' /\ RequestStep
<1>1. PICK workers \in SUBSET Procs :
        IF QueryTargets(workers) = {} THEN Refuse
        ELSE Send(QueryTargets(workers), "prepared")
  BY DEF RunQuery
<1>2. RequestStep
  BY <1>1, QueryTargetNodes DEF RequestStep
<1>3. /\ phase = "new" /\ phase' \in {"refused", "prepared"}
      /\ answers' = answers /\ heard' = heard /\ responses' = responses
  BY <1>1 DEF Refuse, Send
<1>4. Settled'
  BY <1>3 DEF Settled
<1>5. UNCHANGED queryWorkerVars
  BY DEF RunQuery
<1> QED BY <1>2, <1>3, <1>4, <1>5, OpOnly DEF Early

LEMMA PostQueryKeeps ==
  ASSUME Structure, WorkerStructure, PostQuery
  PROVE  WorkerStructure' /\ RequestStep
<1>1. /\ phase = "prepared" /\ phase' = "waiting"
      /\ answers' = answers /\ heard' = heard /\ responses' = responses
      /\ outstanding' = Procs /\ accepted' = accepted /\ carried' = carried
  BY DEF PostQuery, Post
<1>2. accepted = {} /\ carried = {}
  BY <1>1 DEF WorkerStructure, Unposted, Early
<1>3. WorkerTypeOK' /\ Unposted'
  BY <1>1, <1>2 DEF WorkerTypeOK, Unposted, Early
<1>4. AllTruthful' /\ Settled'
  BY <1>1 DEF WorkerStructure, AllTruthful, Truthful, Settled
<1>5. RequestStep
  BY DEF PostQuery, RequestStep
<1> QED BY <1>3, <1>4, <1>5 DEF WorkerStructure

LEMMA TimeoutKeepsWorkers ==
  ASSUME Structure, WorkerStructure, Timeout, UNCHANGED queryWorkerVars
  PROVE  WorkerStructure' /\ RequestStep
<1>1. /\ answers' = answers /\ heard' = heard /\ responses' = responses
      /\ options' = options
  BY DEF Timeout
<1>2. \/ phase' = "collected"
      \/ phase' = phase /\ result' = result
  BY DEF Timeout, PostProcess, collectVars
<1>3. Settled'
  BY <1>1, <1>2 DEF WorkerStructure, Settled, Throws
<1>4. RequestStep
  BY DEF RequestStep
<1> QED BY <1>1, <1>2, <1>3, <1>4, OpOnly DEF Early

LEMMA SettleQueryKeeps ==
  ASSUME Structure, WorkerStructure, SettleQuery
  PROVE  WorkerStructure' /\ RequestStep
<1>1. /\ answers' = answers /\ heard' = heard /\ responses' = responses
      /\ options' = options /\ result' = result
      /\ phase' = IF ~options.asResponses /\ Throws THEN "rejected" ELSE "resolved"
      /\ UNCHANGED queryWorkerVars
  BY DEF SettleQuery, Finish, collectVars
<1>2. Settled'
  BY <1>1 DEF Settled, Throws
<1>3. RequestStep
  BY DEF SettleQuery, RequestStep
<1> QED BY <1>1, <1>2, <1>3, OpOnly DEF Early

-----------------------------------------------------------------------------
(* Steps of the workers and the bus *)

\* A worker that posts a response is past Early, and tells the truth.
LEMMA Posts ==
  ASSUME Structure, WorkerStructure, NEW a \in BusResponses, PostResponse(a),
         phase \notin Early, carried \subseteq carried', WorkerTypeOK',
         a.kind = "ok" => a.from \in carried', a.kind = "skipping" => a.from \in Barring
  PROVE  WorkerStructure' /\ RequestStep
<1>1. /\ answers' = answers \cup {a} /\ heard' = heard /\ responses' = responses
      /\ phase' = phase /\ options' = options /\ result' = result
  BY DEF PostResponse, sendVars, collectVars
<1>2. AllTruthful'
  BY <1>1 DEF WorkerStructure, AllTruthful, Truthful
<1>3. Unposted' /\ Settled'
  BY <1>1 DEF WorkerStructure, Unposted, Settled, Throws
<1>4. RequestStep
  BY DEF RequestStep
<1> QED BY <1>2, <1>3, <1>4 DEF WorkerStructure

LEMMA OnRequestKeepsWorkers ==
  ASSUME Structure, WorkerStructure, NEW p \in Procs, OnQuery(p)
  PROVE  WorkerStructure' /\ [RequestStep]_requestVars
<1>1. /\ p \in outstanding /\ outstanding' = outstanding \ {p} /\ carried' = carried
  BY DEF OnQuery
<1>2. phase \notin Early
  BY <1>1 DEF WorkerStructure, Unposted
<1>3. ASSUME NEW kind \in {"skipping", "failed"},
             PostResponse([from |-> p, nr |-> 1, kind |-> kind]),
             kind = "skipping" => p \in Barring, accepted' = accepted
      PROVE  WorkerStructure' /\ RequestStep
  <2>1. [from |-> p, nr |-> 1, kind |-> kind] \in BusResponses
    BY DEF BusResponses, Kinds
  <2>2. WorkerTypeOK'
    BY <1>1, <1>3 DEF WorkerStructure, WorkerTypeOK
  <2> QED BY <1>1, <1>2, <1>3, <2>1, <2>2, Posts
<1>4. ASSUME UNCHANGED requestVars, accepted' = accepted \/ accepted' = accepted \cup {p}
      PROVE  WorkerStructure'
  <2>1. /\ answers' = answers /\ heard' = heard /\ responses' = responses
        /\ phase' = phase /\ options' = options /\ result' = result
    BY <1>4 DEF requestVars, sendVars, collectVars
  <2>2. WorkerTypeOK'
    BY <1>1, <1>4 DEF WorkerStructure, WorkerTypeOK
  <2> QED
    BY <1>1, <1>2, <2>1, <2>2
    DEF WorkerStructure, Unposted, AllTruthful, Truthful, Settled, Throws
<1> QED BY <1>3, <1>4 DEF OnQuery

LEMMA DoKeeps ==
  ASSUME Structure, WorkerStructure, NEW p \in Procs, Do(p)
  PROVE  WorkerStructure' /\ RequestStep
<1>1. /\ p \in accepted /\ accepted' = accepted \ {p}
      /\ carried' = carried \cup {p} /\ outstanding' = outstanding
  BY DEF Do
<1>2. PICK kind \in Outcomes(p) : PostResponse([from |-> p, nr |-> 1, kind |-> kind])
  BY DEF Do
<1>3. [from |-> p, nr |-> 1, kind |-> kind] \in BusResponses /\ kind # "skipping"
  BY OutcomeTypes DEF BusResponses, Kinds
<1>4. phase \notin Early
  BY <1>1 DEF WorkerStructure, Unposted
<1>5. WorkerTypeOK'
  BY <1>1 DEF WorkerStructure, WorkerTypeOK
<1> QED BY <1>1, <1>2, <1>3, <1>4, <1>5, Posts

LEMMA DeliverToOpKeeps ==
  ASSUME Structure, WorkerStructure, DeliverToOp
  PROVE  WorkerStructure' /\ RequestStep
<1>1. PICK a \in answers : OnResults(a) /\ UNCHANGED queryWorkerVars
  BY DEF DeliverToOp
<1>2. /\ answers' \subseteq answers /\ heard' \subseteq heard \cup answers
      /\ responses' \subseteq responses \cup answers /\ options' = options
  BY <1>1 DEF OnResults, Counted
<1>3. \/ phase' = "collected"
      \/ phase' = phase /\ result' = result
  BY <1>1 DEF OnResults, Counted, PostProcess, collectVars
<1>4. AllTruthful'
  BY <1>1, <1>2 DEF WorkerStructure, AllTruthful, Truthful, queryWorkerVars
<1>5. Settled'
  BY <1>2, <1>3 DEF WorkerStructure, Settled, Throws
<1>6. WorkerTypeOK' /\ Unposted'
  BY <1>1, <1>3 DEF WorkerStructure, WorkerTypeOK, Unposted, Early, queryWorkerVars
<1>7. RequestStep
  BY <1>1 DEF RequestStep
<1> QED BY <1>4, <1>5, <1>6, <1>7 DEF WorkerStructure

-----------------------------------------------------------------------------
(* The theorems *)

LEMMA StepWorkers ==
  Structure /\ WorkerStructure /\ [NextQuery]_queryVars =>
    WorkerStructure' /\ [RequestStep]_requestVars
<1> SUFFICES ASSUME Structure, WorkerStructure, [NextQuery]_queryVars
             PROVE  WorkerStructure' /\ [RequestStep]_requestVars
  OBVIOUS
<1>1. CASE RunQuery
  BY <1>1, RunQueryKeeps
<1>2. CASE PostQuery
  BY <1>2, PostQueryKeeps
<1>3. CASE Timeout /\ UNCHANGED queryWorkerVars
  BY <1>3, TimeoutKeepsWorkers
<1>4. CASE SettleQuery
  BY <1>4, SettleQueryKeeps
<1>5. ASSUME NEW p \in Procs, OnQuery(p) \/ Do(p)
      PROVE  WorkerStructure' /\ [RequestStep]_requestVars
  BY <1>5, OnRequestKeepsWorkers, DoKeeps
<1>6. CASE DeliverToOp
  BY <1>6, DeliverToOpKeeps
<1>7. CASE UNCHANGED queryVars
  <2>1. UNCHANGED queryWorkerVars /\ UNCHANGED requestVars
    BY <1>7 DEF queryVars
  <2>2. /\ answers' = answers /\ heard' = heard /\ responses' = responses
        /\ phase' = phase /\ options' = options /\ result' = result
    BY <2>1 DEF requestVars, sendVars, collectVars
  <2>3. Settled'
    BY <2>2 DEF WorkerStructure, Settled, Throws
  <2> QED BY <2>1, <2>2, <2>3, OpOnly
<1> QED BY <1>1, <1>2, <1>3, <1>4, <1>5, <1>6, <1>7 DEF NextQuery

\* A storage operation is a request: whatever RequestSpec promises holds of it.
THEOREM QueriesAreRequests == SpecQuery => [](Structure /\ WorkerStructure) /\ RequestSpec
<1>1. InitQuery => Structure /\ WorkerStructure /\ RequestInit
  BY InitStructure, InitWorkers DEF InitQuery
<1>2. Structure /\ WorkerStructure /\ [NextQuery]_queryVars =>
        (Structure /\ WorkerStructure)' /\ [RequestStep]_requestVars
  BY StepWorkers, StepStructure
<1> QED BY <1>1, <1>2, PTL DEF SpecQuery, RequestSpec

\* The types of the request and of the workers.
THEOREM QueryTypeCorrect == SpecQuery => []QueryTypeOK
<1>1. Structure /\ WorkerStructure => QueryTypeOK
  BY DEF Structure, WorkerStructure, WorkerTypeOK, QueryTypeOK
<1> QED BY QueriesAreRequests, <1>1, PTL

\* What is reported as done was done at every node that was asked.
THEOREM AlwaysDoneEverywhere == SpecQuery => []DoneEverywhere
<1>1. Structure /\ WorkerStructure => DoneEverywhere
  <2> SUFFICES ASSUME Structure, WorkerStructure,
                      phase = "resolved", ~late,
                      ~options.filterErrors, ~options.asResponses,
                      NEW n \in asked
               PROVE  \E a \in responses \cup heard :
                        /\ Node(a) = n
                        /\ \/ a.kind = "ok" /\ a.from \in carried
                           \/ a.kind = "skipping" /\ a.from \in Barring
    BY DEF DoneEverywhere
  <2>1. targets = {} /\ result = responses
    BY DEF Structure, Stages, Drawn, Filtered, Open, Early
  <2>2. PICK a \in responses \cup heard :
          Node(a) = n /\ (a.kind = "skipping" \/ a \in responses)
    BY <2>1 DEF Structure, NobodyForgotten
  <2>3. a.kind \in Kinds
    BY <2>2 DEF Structure, RequestTypeOK, Responses
  <2>4. a.kind = "failed" => FALSE
    BY <2>1, <2>2 DEF WorkerStructure, Settled, Throws
  <2> QED BY <2>2, <2>3, <2>4 DEF WorkerStructure, AllTruthful, Truthful, Kinds
<1> QED BY QueriesAreRequests, <1>1, PTL

\* What is rejected failed somewhere, and what is said to be done is done.
THEOREM AlwaysRejectedForAReason == SpecQuery => []RejectedForAReason
<1>1. Structure /\ WorkerStructure => RejectedForAReason
  BY DEF Structure, RequestTypeOK, WorkerStructure, AllTruthful, Truthful, Settled,
         Throws, RejectedForAReason
<1> QED BY QueriesAreRequests, <1>1, PTL

\* What run() tells of a save, update or remove is what the nodes have done.
THEOREM AlwaysToldAsDone == SpecQuery => []ToldAsDone
<1>1. DoneEverywhere /\ RejectedForAReason => ToldAsDone
  BY DEF ToldAsDone
<1> QED BY AlwaysDoneEverywhere, AlwaysRejectedForAReason, <1>1, PTL

\* A storage operation keeps what RequestReply promises to its sender.
THEOREM QueriesImplementReply == SpecQuery => ImplementsReply
<1> QED BY QueriesAreRequests, RequestImplementsReply, PTL

-----------------------------------------------------------------------------
(*****************************************************************************)
(* TaskExchange                                                              *)
(*****************************************************************************)

Jobs == {"none", "refused", "timed", "queued", "started", "over", "lost"}

WorkTypeOK ==
  /\ ~options.waitIfNoTarget /\ wish \in WishOptions
  /\ told \in [Nodes -> States \cup {"none"}] /\ got \in SUBSET Nodes
  /\ unreached \in SUBSET Procs /\ present \in SUBSET Procs
  /\ job \in [Procs -> Jobs]
  /\ stream \in [Procs -> Seq(Events)]

\* A process is asked once, after the request has been posted, and only the
\* nodes that were asked have a run.
AskedOnce ==
  /\ phase \in Early => unreached = {} /\ \A p \in Procs : job[p] = "none"
  /\ \A p \in unreached : job[p] = "none"
  /\ unreached # {} => asked # {}
  /\ \A p \in Procs : job[p] # "none" => NodeOf[p] \in asked

\* What an event says of the run of a process is true.
TrueOf(j, e) ==
  /\ j # "none"
  /\ e.state \in Ends => j = "over"
  /\ e.state = "request_error" => j = "refused"
Streamed == \A p \in Procs : \A i \in 1..Len(stream[p]) : TrueOf(job[p], stream[p][i])

\* Who has answered 'enqueue' has not turned the tasks down.
Agreed(as) ==
  \A a \in as : /\ a.nr = 1
                /\ a.kind = "ok" => job[a.from] \notin {"none", "refused"}
AllAgreed == Agreed(answers) /\ Agreed(heard) /\ Agreed(responses)

Over(n) == \E p \in Procs : NodeOf[p] = n /\ job[p] = "over"
Obtained == \A n \in got : Over(n)

\* A future that is closed, and not because the request was turned down, has
\* heard of a run that is over, or of one that was refused.
ClosedForAReason ==
  future \in {"closing", "closed"} /\ returned \notin {"declined", "error", "events"} =>
    \E p \in Procs : NodeOf[p] \in asked /\ job[p] \in {"over", "refused"}

\* Whoever waits has a future, and one of the nodes has agreed.
Waits ==
  /\ phase \notin {"refused", "resolved", "rejected"} => returned = "no"
  /\ phase = "new" => future = "none"
  /\ wish.waits /\ ~wish.helper /\ phase \notin {"new", "refused"} => future # "none"
  /\ returned \in {"awaiting", "results"} =>
       /\ wish.waits /\ ~wish.helper
       /\ phase = "resolved"
       /\ \E a \in result : a.kind = "ok"
  /\ returned = "results" => future = "closed"

WorkStructure ==
  /\ WorkTypeOK
  /\ AskedOnce
  /\ Streamed
  /\ AllAgreed
  /\ Obtained
  /\ ClosedForAReason
  /\ Waits

-----------------------------------------------------------------------------
(* The sender *)

LEMMA InitWork == InitTaskExchange => WorkStructure
<1> SUFFICES ASSUME InitTaskExchange PROVE WorkStructure
  OBVIOUS
<1> USE DEF InitTaskExchange, RequestInit
<1>1. WorkTypeOK
  BY TaskExchangeAssumption DEF WorkTypeOK, Jobs, States
<1>2. AskedOnce /\ Streamed /\ AllAgreed
  BY DEF AskedOnce, Streamed, AllAgreed, Agreed
<1>3. Obtained /\ ClosedForAReason /\ Waits
  BY DEF Obtained, ClosedForAReason, Waits
<1> QED BY <1>1, <1>2, <1>3 DEF WorkStructure

\* A step of the request that concerns neither the future nor the workers.
LEMMA RequestOnly ==
  ASSUME WorkStructure, UNCHANGED others, options' = options, asked' = asked,
         phase' \in Early => phase \in Early,
         phase' = phase \/ (phase \notin {"new", "refused", "resolved", "rejected"}
                             /\ phase' = "collected"),
         phase = "resolved" => result' = result,
         AllAgreed'
  PROVE  WorkStructure'
<1> USE DEF others, futureVars, workerVars
<1>1. WorkTypeOK' /\ AskedOnce' /\ Streamed'
  BY DEF WorkStructure, WorkTypeOK, AskedOnce, Streamed
<1>2. Obtained' /\ ClosedForAReason'
  BY DEF WorkStructure, Obtained, Over, ClosedForAReason
<1>3. Waits'
  BY DEF WorkStructure, Waits, Early
<1> QED BY <1>1, <1>2, <1>3 DEF WorkStructure

\* The targets are nodes, whatever was given and has been learned.
LEMMA TargetNodes ==
  ASSUME wish \in WishOptions, NEW workers \in Views, NEW able \in Views,
         NEW nodes \in TargetsAmong(workers, able), NEW ns \in Addressed(nodes)
  PROVE  ns \in SUBSET Nodes
<1>1. workers \in SUBSET Nodes /\ able \in SUBSET Nodes
  BY TaskExchangeAssumption
<1>2. Ids \in SUBSET Nodes
  BY DEF Ids, WishOptions
<1>3. nodes \in SUBSET Nodes
  <2>1. CASE ~Passed
    BY <2>1, <1>1 DEF TargetsAmong, SomeOf
  <2>2. CASE Passed
    BY <2>2, <1>1, <1>2 DEF TargetsAmong
  <2> QED BY <2>1, <2>2
<1>4. CASE nodes = {}
  BY <1>4, TaskExchangeAssumption DEF Addressed
<1>5. CASE nodes # {}
  BY <1>5, <1>3 DEF Addressed
<1> QED BY <1>4, <1>5

\* What run() of the executor comes to: a request, or none.
Sends == \E ns \in SUBSET Nodes :
           /\ Send(ns, "prepared")
           /\ future' = Listen
           /\ UNCHANGED <<returned, wish, runnerId, told, got, stream, workerVars>>
Refrains == /\ Refuse
            /\ returned' \in {"local", "error", "nothing"}
            /\ UNCHANGED <<wish, futureVars, workerVars>>

LEMMA RunCases ==
  ASSUME wish \in WishOptions, Run
  PROVE  Sends \/ Refrains
<1>1. PICK workers \in Views, able \in Views :
        \/ ~Here /\ AskOthers(workers, able)
        \/ /\ Here /\ ~wish.local /\ ~wish.helper
           /\ \/ Me \in workers /\ AskOwnWorker(able)
              \/ AskOthers(workers, able)
        \/ RunHere
  BY DEF Run
<1>2. NoTarget \/ RunHere => Refrains
  BY DEF NoTarget, RunHere, Refrains
<1>3. ASSUME NEW nodes, NEW ns \in Addressed(nodes), ns \in SUBSET Nodes,
             Send(ns, "prepared"), future' = Listen,
             UNCHANGED <<returned, wish, runnerId, told, got, stream, workerVars>>
      PROVE  Sends
  BY <1>3 DEF Sends
<1>4. CASE AskOthers(workers, able)
  <2>1. PICK nodes \in TargetsAmong(workers, able) :
          IF nodes = {} /\ ~wish.skipCheck THEN NoTarget ELSE Request(nodes)
    BY <1>4 DEF AskOthers
  <2>2. CASE Request(nodes)
    <3>1. PICK ns \in Addressed(nodes) : Send(ns, "prepared")
      BY <2>2 DEF Request
    <3>2. ns \in SUBSET Nodes
      BY TargetNodes
    <3> QED BY <2>2, <3>1, <3>2 DEF Request, Sends
  <2> QED BY <1>2, <2>1, <2>2
<1>5. CASE AskOwnWorker(able)
  <2>1. CASE Request({Me})
    <3>1. PICK ns \in Addressed({Me}) : Send(ns, "prepared")
      BY <2>1 DEF Request
    <3>2. ns = {Me} /\ Me \in Nodes
      BY RequestsAssumption DEF Addressed, Me
    <3> QED BY <2>1, <3>1, <3>2 DEF Request, Sends
  <2> QED BY <1>2, <1>5, <2>1 DEF AskOwnWorker
<1> QED BY <1>1, <1>2, <1>4, <1>5

LEMMA RunKeeps ==
  ASSUME Structure, WorkStructure, Run
  PROVE  WorkStructure' /\ RequestStep
<1> USE DEF futureVars, workerVars
<1>0. Sends \/ Refrains
  BY RunCases DEF WorkStructure, WorkTypeOK
<1>1. CASE Sends
  <2>1. PICK ns \in SUBSET Nodes :
          /\ Send(ns, "prepared")
          /\ future' = Listen
          /\ UNCHANGED <<returned, wish, runnerId, told, got, stream, workerVars>>
    BY <1>1 DEF Sends
  <2>2. /\ phase = "new" /\ phase' = "prepared" /\ options' = options
        /\ answers' = answers /\ heard' = heard /\ responses' = responses
    BY <2>1 DEF Send
  <2>3. returned = "no" /\ unreached = {} /\ \A p \in Procs : job[p] = "none"
    BY <2>2 DEF WorkStructure, Waits, AskedOnce, Early
  <2>4. WorkTypeOK' /\ AskedOnce' /\ Streamed'
    BY <2>1, <2>2, <2>3 DEF WorkStructure, WorkTypeOK, AskedOnce, Streamed
  <2>5. AllAgreed' /\ Obtained'
    BY <2>1, <2>2 DEF WorkStructure, AllAgreed, Agreed, Obtained, Over
  <2>6. ClosedForAReason' /\ Waits'
    BY <2>1, <2>2, <2>3 DEF ClosedForAReason, Waits, Listen
  <2>7. RequestStep
    BY <2>1 DEF RequestStep
  <2> QED BY <2>4, <2>5, <2>6, <2>7 DEF WorkStructure
<1>2. CASE Refrains
  <2>1. /\ phase = "new" /\ phase' = "refused" /\ options' = options /\ asked' = asked
        /\ answers' = answers /\ heard' = heard /\ responses' = responses
        /\ returned' \in {"local", "error", "nothing"}
        /\ UNCHANGED <<wish, futureVars, workerVars>>
    BY <1>2 DEF Refrains, Refuse
  <2>2. future = "none"
    BY <2>1 DEF WorkStructure, Waits
  <2>3. WorkTypeOK' /\ AskedOnce' /\ Streamed'
    BY <2>1 DEF WorkStructure, WorkTypeOK, AskedOnce, Streamed, Early
  <2>4. AllAgreed' /\ Obtained'
    BY <2>1 DEF WorkStructure, AllAgreed, Agreed, Obtained, Over
  <2>5. ClosedForAReason' /\ Waits'
    BY <2>1, <2>2 DEF ClosedForAReason, Waits
  <2>6. RequestStep
    BY <1>2 DEF Refrains, RequestStep
  <2> QED BY <2>3, <2>4, <2>5, <2>6 DEF WorkStructure
<1> QED BY <1>0, <1>1, <1>2

LEMMA PostTasksKeeps ==
  ASSUME Structure, WorkStructure, PostTasks
  PROVE  WorkStructure' /\ RequestStep
<1> USE DEF futureVars
<1>1. /\ phase = "prepared" /\ phase' = "waiting" /\ options' = options /\ asked' = asked
      /\ answers' = answers /\ heard' = heard /\ responses' = responses
      /\ unreached' = present /\ UNCHANGED <<wish, returned, futureVars, job, present>>
  BY DEF PostTasks, Post
<1>2. asked # {}
  <2>1. ~options.waitIfNoTarget
    BY DEF WorkStructure, WorkTypeOK
  <2> QED BY <2>1 DEF PostTasks, Post, Structure, RequestTypeOK
<1>3. \A p \in Procs : job[p] = "none"
  BY <1>1 DEF WorkStructure, AskedOnce, Early
<1>4. WorkTypeOK' /\ AskedOnce' /\ Streamed'
  BY <1>1, <1>2, <1>3 DEF WorkStructure, WorkTypeOK, AskedOnce, Streamed, Early
<1>5. AllAgreed' /\ Obtained'
  BY <1>1 DEF WorkStructure, AllAgreed, Agreed, Obtained, Over
<1>6. ClosedForAReason' /\ Waits'
  BY <1>1 DEF WorkStructure, ClosedForAReason, Waits
<1>7. RequestStep
  BY DEF PostTasks, RequestStep
<1> QED BY <1>4, <1>5, <1>6, <1>7 DEF WorkStructure

LEMMA NothingToAskKeepsWork ==
  ASSUME Structure, WorkStructure, NothingToAsk, UNCHANGED others
  PROVE  WorkStructure' /\ RequestStep
<1>1. /\ phase = "prepared" /\ phase' = "collected" /\ options' = options /\ asked' = asked
      /\ answers' = answers /\ heard' = heard /\ responses' = responses
  BY DEF NothingToAsk, PostProcess, HeedsOnce, Structure, Stages, Open, Early
<1>2. AllAgreed'
  BY <1>1 DEF WorkStructure, AllAgreed, Agreed, others, workerVars
<1>3. RequestStep
  BY DEF RequestStep
<1> QED BY <1>1, <1>2, <1>3, RequestOnly DEF Early

LEMMA TimeoutKeepsWork ==
  ASSUME Structure, WorkStructure, Timeout, UNCHANGED others
  PROVE  WorkStructure' /\ RequestStep
<1>1. /\ options' = options /\ asked' = asked
      /\ answers' = answers /\ heard' = heard /\ responses' = responses
  BY DEF Timeout
<1>2. \/ phase' = phase /\ result' = result
      \/ phase = "waiting" /\ phase' = "collected"
  <2>1. once => phase = "waiting"
    BY DEF Timeout, Structure, Stages, Open, Early
  <2> QED BY <2>1 DEF Timeout, PostProcess, HeedsOnce, collectVars
<1>3. AllAgreed'
  BY <1>1 DEF WorkStructure, AllAgreed, Agreed, others, workerVars
<1>4. RequestStep
  BY DEF RequestStep
<1> QED BY <1>1, <1>2, <1>3, <1>4, RequestOnly DEF Early

LEMMA DeliverToExecutorKeeps ==
  ASSUME Structure, WorkStructure, DeliverToExecutor
  PROVE  WorkStructure' /\ RequestStep
<1>1. PICK a \in answers : OnResults(a) /\ UNCHANGED others
  BY DEF DeliverToExecutor
<1>2. /\ options' = options /\ asked' = asked
      /\ answers' \subseteq answers /\ heard' \subseteq heard \cup {a}
      /\ responses' \subseteq responses \cup {a}
  BY <1>1 DEF OnResults, Counted, collectVars
<1>3. \/ phase' = phase /\ (phase = "resolved" => result' = result)
      \/ phase = "waiting" /\ phase' = "collected"
  BY <1>1 DEF OnResults, Counted, WaitsFor, IsMine, PostProcess, HeedsOnce, collectVars,
     Structure, Stages, Open, Early
<1>4. AllAgreed'
  BY <1>1, <1>2 DEF WorkStructure, AllAgreed, Agreed, others, workerVars
<1>5. RequestStep
  BY <1>1 DEF RequestStep
<1> QED BY <1>1, <1>2, <1>3, <1>4, <1>5, RequestOnly DEF Early

LEMMA AnsweredKeeps ==
  ASSUME Structure, WorkStructure, Answered
  PROVE  WorkStructure' /\ RequestStep
<1>1. /\ phase = "collected" /\ phase' = "resolved" /\ options' = options /\ asked' = asked
      /\ answers' = answers /\ heard' = heard /\ responses' = responses /\ result' = result
      /\ UNCHANGED <<wish, runnerId, told, got, stream, workerVars>>
  BY DEF Answered, Finish, collectVars
<1>2. returned = "no"
  BY <1>1 DEF WorkStructure, Waits
<1>3. \/ /\ returned' \in {"error", "events", "future"} /\ future' = future
      \/ /\ returned' = "declined"
         /\ future' = IF future = "listening" THEN "closing" ELSE future
      \/ /\ returned' = "awaiting" /\ future' = future
         /\ wish.waits /\ ~wish.helper /\ \E a \in result : a.kind = "ok"
  BY DEF Answered
<1> USE DEF workerVars
<1>4. WorkTypeOK' /\ AskedOnce' /\ Streamed'
  BY <1>1 DEF WorkStructure, WorkTypeOK, AskedOnce, Streamed, Early
<1>5. AllAgreed' /\ Obtained'
  BY <1>1 DEF WorkStructure, AllAgreed, Agreed, Obtained, Over
<1>6. ClosedForAReason'
  BY <1>1, <1>2, <1>3 DEF WorkStructure, ClosedForAReason
<1>7. Waits'
  BY <1>1, <1>2, <1>3 DEF WorkStructure, Waits
<1>8. RequestStep
  BY DEF Answered, RequestStep
<1> QED BY <1>4, <1>5, <1>6, <1>7, <1>8 DEF WorkStructure

LEMMA ReturnKeeps ==
  ASSUME WorkStructure, Return
  PROVE  WorkStructure'
<1>1. UNCHANGED <<requestVars, wish, futureVars, workerVars>>
  BY DEF Return
<1>2. /\ future \in {"none", "closed"}
      /\ \/ returned = "awaiting" /\ returned' = "results"
         \/ returned = "declined" /\ returned' \in {"error", "events"}
  BY DEF Return
<1> USE DEF requestVars, sendVars, collectVars, futureVars, workerVars
<1>3. WorkTypeOK' /\ AskedOnce' /\ Streamed'
  BY <1>1 DEF WorkStructure, WorkTypeOK, AskedOnce, Streamed
<1>4. AllAgreed' /\ Obtained'
  BY <1>1 DEF WorkStructure, AllAgreed, Agreed, Obtained, Over
<1>5. ClosedForAReason' /\ Waits'
  BY <1>1, <1>2 DEF WorkStructure, ClosedForAReason, Waits
<1> QED BY <1>3, <1>4, <1>5 DEF WorkStructure

-----------------------------------------------------------------------------
(* The workers *)

\* What an appended event says must be true, as is what was said before.
LEMMA Appended ==
  ASSUME NEW s \in Seq(Events), NEW e \in Events, NEW j,
         \A i \in 1..Len(s) : TrueOf(j, s[i]), TrueOf(j, e)
  PROVE  /\ Append(s, e) \in Seq(Events)
         /\ \A i \in 1..Len(Append(s, e)) : TrueOf(j, Append(s, e)[i])
<1> SUFFICES ASSUME NEW i \in 1..Len(Append(s, e)) PROVE TrueOf(j, Append(s, e)[i])
  OBVIOUS
<1>1. i \in 1..Len(s) \/ i = Len(s) + 1
  OBVIOUS
<1>2. i \in 1..Len(s) => Append(s, e)[i] = s[i]
  OBVIOUS
<1>3. i = Len(s) + 1 => Append(s, e)[i] = e
  OBVIOUS
<1> QED BY <1>1, <1>2, <1>3

\* What a process tells is added to its stream, or nobody listens.
LEMMA TellKeeps ==
  ASSUME WorkTypeOK, Streamed, NEW p \in Procs, NEW state \in States, NEW data \in BOOLEAN,
         Tell(p, state, data), job' \in [Procs -> Jobs],
         \A q \in Procs \ {p} : job'[q] = job[q],
         \A e \in Events : TrueOf(job[p], e) => TrueOf(job'[p], e),
         \A e \in Events : e.state = state => TrueOf(job'[p], e)
  PROVE  stream' \in [Procs -> Seq(Events)] /\ Streamed'
<1> DEFINE e == [state |-> state, data |-> data]
<1>0. e \in Events /\ e.state = state
  BY DEF Events
<1>1. ASSUME NEW q \in Procs
      PROVE  \A i \in 1..Len(stream[q]) : TrueOf(job'[q], stream[q][i])
  <2>1. stream[q] \in Seq(Events)
    BY DEF WorkTypeOK
  <2>2. \A i \in 1..Len(stream[q]) : stream[q][i] \in Events /\ TrueOf(job[q], stream[q][i])
    BY <2>1 DEF Streamed
  <2> QED BY <2>2
<1>2. CASE stream' = stream
  BY <1>1, <1>2 DEF Streamed, WorkTypeOK
<1>3. CASE stream' = [stream EXCEPT ![p] = Append(@, e)]
  <2>1. stream[p] \in Seq(Events) /\ \A i \in 1..Len(stream[p]) : TrueOf(job'[p], stream[p][i])
    BY <1>1 DEF WorkTypeOK
  <2>2. TrueOf(job'[p], e)
    BY <1>0
  <2>3. /\ Append(stream[p], e) \in Seq(Events)
        /\ \A i \in 1..Len(Append(stream[p], e)) : TrueOf(job'[p], Append(stream[p], e)[i])
    BY <1>0, <2>1, <2>2, Appended
  <2>4. stream'[p] = Append(stream[p], e) /\ \A q \in Procs \ {p} : stream'[q] = stream[q]
    BY <1>3 DEF WorkTypeOK
  <2>5. stream' \in [Procs -> Seq(Events)]
    BY <1>3, <2>3 DEF WorkTypeOK
  <2>6. ASSUME NEW q \in Procs
        PROVE  \A i \in 1..Len(stream'[q]) : TrueOf(job'[q], stream'[q][i])
    <3>1. CASE q = p
      BY <2>3, <2>4, <3>1
    <3>2. CASE q # p
      BY <1>1, <2>4, <3>2
    <3> QED BY <3>1, <3>2
  <2> QED BY <2>5, <2>6 DEF Streamed
<1> QED BY <1>2, <1>3 DEF Tell

\* A run that has begun goes on, is over or is lost.
GoesOn(p) ==
  /\ job[p] \in {"timed", "queued", "started"}
  /\ job' \in [Procs -> Jobs]
  /\ \A q \in Procs \ {p} : job'[q] = job[q]
  /\ job'[p] \in {"queued", "started", "over", "lost"}

\* A step of a worker's that leaves the sender alone.
LEMMA WorkerOnly ==
  ASSUME Structure, WorkStructure, NEW p \in Procs,
         UNCHANGED <<requestVars, wish, returned, future, runnerId, told, got>>,
         unreached' \subseteq unreached, present' \subseteq present, GoesOn(p) \/ job' = job,
         stream' \in [Procs -> Seq(Events)], Streamed'
  PROVE  WorkStructure'
<1> USE DEF requestVars, sendVars, collectVars
<1>1. WorkTypeOK'
  BY DEF WorkStructure, WorkTypeOK, GoesOn
<1>2. AskedOnce'
  <2>1. \A q \in Procs : job'[q] # "none" => job[q] # "none"
    BY DEF GoesOn
  <2>2. \A q \in Procs : job[q] = "none" => job'[q] = "none"
    BY <2>1
  <2>3. /\ phase' \in Early => unreached' = {} /\ \A q \in Procs : job'[q] = "none"
        /\ unreached' # {} => asked' # {}
    BY <2>2 DEF WorkStructure, AskedOnce
  <2>4. \A q \in unreached' : job'[q] = "none"
    BY <2>2 DEF WorkStructure, AskedOnce, WorkTypeOK
  <2>5. \A q \in Procs : job'[q] # "none" => NodeOf[q] \in asked'
    BY <2>1 DEF WorkStructure, AskedOnce
  <2> QED BY <2>3, <2>4, <2>5 DEF AskedOnce
<1>3. /\ \A q \in Procs : job[q] \in {"over", "refused"} => job'[q] = job[q]
      /\ \A q \in Procs : job[q] \notin {"none", "refused"} => job'[q] \notin {"none", "refused"}
  BY DEF GoesOn
<1>4. AllAgreed'
  BY <1>3 DEF Structure, RequestTypeOK, WorkStructure, AllAgreed, Agreed, Responses
<1>5. Obtained' /\ ClosedForAReason' /\ Waits'
  BY <1>3 DEF WorkStructure, Obtained, Over, ClosedForAReason, Waits
<1> QED BY <1>1, <1>2, <1>4, <1>5 DEF WorkStructure

\* A worker gets the request: it turns the tasks down, or says that it has them.
LEMMA OnTaskEventKeeps ==
  ASSUME Structure, WorkStructure, NEW p \in Procs, OnTaskEvent(p)
  PROVE  WorkStructure' /\ [RequestStep]_requestVars
<1>1. /\ p \in unreached /\ unreached' = unreached \ {p}
      /\ UNCHANGED <<wish, returned, future, runnerId, told, got, present>>
      /\ unreached # {} /\ asked # {} /\ job[p] = "none" /\ phase \notin Early
  BY DEF OnTaskEvent, WorkStructure, AskedOnce
<1>2. CASE UNCHANGED <<requestVars, job, stream>>
  <2>1. stream' \in [Procs -> Seq(Events)] /\ Streamed'
    BY <1>2 DEF WorkStructure, WorkTypeOK, Streamed
  <2> QED BY <1>1, <1>2, <2>1, WorkerOnly
<1>3. ASSUME NodeOf[p] \in asked, NEW fails \in BOOLEAN,
             PostResponse([from |-> p, nr |-> 1, kind |-> IF fails THEN "failed" ELSE "ok"]),
             job' = [job EXCEPT ![p] = JobOf(fails)],
             Tell(p, IF fails THEN "request_error" ELSE "enqueue", FALSE)
      PROVE  WorkStructure' /\ RequestStep
  <2> DEFINE a == [from |-> p, nr |-> 1, kind |-> IF fails THEN "failed" ELSE "ok"]
  <2>1. a \in BusResponses /\ a.from = p /\ a.nr = 1 /\ (a.kind = "ok" => ~fails)
    BY DEF BusResponses, Kinds
  <2>2. /\ answers' = answers \cup {a} /\ heard' = heard /\ responses' = responses
        /\ phase' = phase /\ options' = options /\ asked' = asked /\ result' = result
    BY <1>3 DEF PostResponse, sendVars, collectVars
  <2>3. /\ job' \in [Procs -> Jobs] /\ \A q \in Procs \ {p} : job'[q] = job[q]
        /\ job'[p] = IF fails THEN "refused" ELSE "timed"
    BY <1>3 DEF WorkStructure, WorkTypeOK, JobOf, Jobs
  <2>4. stream' \in [Procs -> Seq(Events)] /\ Streamed'
    <3>1. \A e \in Events : TrueOf(job[p], e) => TrueOf(job'[p], e)
      BY <1>1 DEF TrueOf
    <3>2. \A e \in Events : e.state = (IF fails THEN "request_error" ELSE "enqueue")
                              => TrueOf(job'[p], e)
      BY <2>3 DEF TrueOf, Ends
    <3>3. (IF fails THEN "request_error" ELSE "enqueue") \in States
      BY DEF States
    <3>4. WorkTypeOK /\ Streamed
      BY DEF WorkStructure
    <3> QED BY <1>3, <2>3, <3>1, <3>2, <3>3, <3>4, TellKeeps
  <2>5. WorkTypeOK'
    BY <1>1, <2>2, <2>3, <2>4 DEF WorkStructure, WorkTypeOK
  <2>6. AskedOnce'
    BY <1>1, <1>3, <2>2, <2>3 DEF WorkStructure, AskedOnce
  <2>7. AllAgreed'
    <3>1. \A r \in Responses : r.kind = "ok" /\ job[r.from] \notin {"none", "refused"}
                                 => job'[r.from] \notin {"none", "refused"}
      BY <1>1, <2>3 DEF Responses
    <3>2. Agreed(answers)' /\ Agreed(heard)' /\ Agreed(responses)'
      BY <2>1, <2>2, <2>3, <3>1
      DEF Structure, RequestTypeOK, WorkStructure, AllAgreed, Agreed
    <3> QED BY <3>2 DEF AllAgreed
  <2>8. Obtained' /\ ClosedForAReason' /\ Waits'
    BY <1>1, <2>2, <2>3 DEF WorkStructure, Obtained, Over, ClosedForAReason, Waits
  <2>9. RequestStep
    BY <1>3, <2>1 DEF RequestStep
  <2> QED BY <2>4, <2>5, <2>6, <2>7, <2>8, <2>9 DEF WorkStructure
<1> QED BY <1>1, <1>2, <1>3 DEF OnTaskEvent

\* The other steps of a worker, of which the sender hears by the stream.
Works(p) == Pushed(p) \/ Begin(p) \/ End(p) \/ Leave(p) \/ Crash(p)

LEMMA WorksKeep ==
  ASSUME Structure, WorkStructure, NEW p \in Procs, Works(p)
  PROVE  WorkStructure' /\ UNCHANGED requestVars
<1> USE DEF workerRest, futureVars
<1>0. WorkTypeOK /\ Streamed
  BY DEF WorkStructure
<1>1. ASSUME stream' = stream, GoesOn(p) \/ job' = job
      PROVE  stream' \in [Procs -> Seq(Events)] /\ Streamed'
  BY <1>0, <1>1 DEF WorkTypeOK, Streamed, GoesOn, TrueOf
<1>2. CASE Pushed(p)
  <2>1. GoesOn(p) /\ stream' = stream /\ UNCHANGED workerRest
    BY <1>0, <1>2 DEF Pushed, WorkTypeOK, GoesOn, Jobs
  <2> QED BY <1>1, <2>1, WorkerOnly
<1>3. CASE Begin(p)
  <2>1. GoesOn(p) /\ job'[p] = "started" /\ Tell(p, "started", TRUE) /\ UNCHANGED workerRest
    BY <1>0, <1>3 DEF Begin, WorkTypeOK, GoesOn, Jobs
  <2>2. \A e \in Events : TrueOf(job[p], e) => TrueOf(job'[p], e)
    BY <1>3, <2>1 DEF TrueOf, Begin
  <2>3. \A e \in Events : e.state = "started" => TrueOf(job'[p], e)
    BY <2>1 DEF TrueOf, Ends
  <2>4. "started" \in States /\ TRUE \in BOOLEAN
    BY DEF States
  <2>5. stream' \in [Procs -> Seq(Events)] /\ Streamed'
    BY <1>0, <2>1, <2>2, <2>3, <2>4, TellKeeps DEF GoesOn
  <2> QED BY <2>1, <2>5, WorkerOnly
<1>4. CASE End(p)
  <2>1. GoesOn(p) /\ job'[p] = "over" /\ UNCHANGED workerRest
    BY <1>0, <1>4 DEF End, WorkTypeOK, GoesOn, Jobs
  <2>2. PICK state \in Ends, data \in BOOLEAN : Tell(p, state, data)
    BY <1>4 DEF End, TellEnd
  <2>3. \A e \in Events : TrueOf(job[p], e) => TrueOf(job'[p], e)
    BY <1>4, <2>1 DEF TrueOf, End
  <2>4. \A e \in Events : e.state = state => TrueOf(job'[p], e)
    BY <2>1 DEF TrueOf, Ends
  <2>5. state \in States
    BY DEF States
  <2>6. stream' \in [Procs -> Seq(Events)] /\ Streamed'
    BY <1>0, <2>1, <2>2, <2>3, <2>4, <2>5, TellKeeps DEF GoesOn
  <2> QED BY <2>1, <2>6, WorkerOnly
<1>5. CASE Leave(p)
  <2>1. GoesOn(p) \/ job' = job
    BY <1>0, <1>5 DEF Leave, WorkTypeOK, GoesOn, Jobs
  <2>2. /\ UNCHANGED <<requestVars, wish, returned, futureVars>>
        /\ unreached' \subseteq unreached /\ present' \subseteq present
    BY <1>5 DEF Leave
  <2> QED BY <1>1, <2>1, <2>2, WorkerOnly
<1>6. CASE Crash(p)
  <2>1. GoesOn(p) /\ stream' = stream /\ UNCHANGED workerRest
    BY <1>0, <1>6 DEF Crash, WorkTypeOK, GoesOn, Jobs
  <2> QED BY <1>1, <2>1, WorkerOnly
<1> QED BY <1>2, <1>3, <1>4, <1>5, <1>6 DEF Works

-----------------------------------------------------------------------------
(* The future *)

\* A step of the future's that leaves request and workers alone.
LEMMA FutureOnly ==
  ASSUME WorkStructure, UNCHANGED <<requestVars, wish, returned, workerVars>>,
         told' \in [Nodes -> States \cup {"none"}], got' \in SUBSET Nodes,
         stream' \in [Procs -> Seq(Events)], Streamed', Obtained', ClosedForAReason',
         future # "none", future # "closed", future' # "none"
  PROVE  WorkStructure'
<1> USE DEF requestVars, sendVars, collectVars, workerVars
<1>1. WorkTypeOK' /\ AskedOnce'
  BY DEF WorkStructure, WorkTypeOK, AskedOnce
<1>2. AllAgreed' /\ Waits'
  BY DEF WorkStructure, AllAgreed, Agreed, Waits
<1> QED BY <1>1, <1>2 DEF WorkStructure

LEMMA NoticeKeeps ==
  ASSUME Structure, WorkStructure, NEW p \in Procs, Notice(p)
  PROVE  WorkStructure' /\ UNCHANGED requestVars
<1> DEFINE e == stream[p][1]
<1>1. /\ future \in {"listening", "closing"} /\ stream[p] # <<>>
      /\ stream' = [stream EXCEPT ![p] = Tail(@)]
      /\ UNCHANGED <<requestVars, wish, returned, workerVars>>
      /\ Hear(p, e)
  BY DEF Notice
<1>2. stream[p] \in Seq(Events) /\ e \in Events /\ e.state \in States /\ TrueOf(job[p], e)
  <2>1. stream[p] \in Seq(Events) /\ 1 \in 1..Len(stream[p])
    BY <1>1 DEF WorkStructure, WorkTypeOK
  <2>2. TrueOf(job[p], e)
    BY <2>1 DEF WorkStructure, Streamed
  <2>3. e \in Events
    BY <2>1, LenProperties
  <2> QED BY <2>1, <2>2, <2>3 DEF Events
<1>3. NodeOf[p] \in asked /\ NodeOf[p] \in Nodes
  BY <1>2, RequestsAssumption DEF TrueOf, WorkStructure, AskedOnce
<1>4. stream' \in [Procs -> Seq(Events)] /\ Streamed'
  <2>1. /\ Tail(stream[p]) \in Seq(Events)
        /\ \A i \in 1..Len(Tail(stream[p])) :
             i + 1 \in 1..Len(stream[p]) /\ Tail(stream[p])[i] = stream[p][i + 1]
    <3>1. stream[p] \in Seq(Events) /\ stream[p] # <<>>
      BY <1>1, <1>2
    <3>2. /\ Tail(stream[p]) \in Seq(Events)
          /\ Len(Tail(stream[p])) = Len(stream[p]) - 1
      BY <3>1, HeadTailProperties
    <3>3. \A i \in 1..Len(Tail(stream[p])) : Tail(stream[p])[i] = stream[p][i + 1]
      BY <3>1, HeadTailProperties
    <3>4. Len(stream[p]) \in Nat
      BY <3>1, LenProperties
    <3> QED BY <3>2, <3>3, <3>4
  <2>2. stream' \in [Procs -> Seq(Events)]
    BY <1>1, <2>1 DEF WorkStructure, WorkTypeOK
  <2>3. ASSUME NEW q \in Procs, NEW i \in 1..Len(stream'[q])
        PROVE  TrueOf(job[q], stream'[q][i])
    <3>1. CASE q = p
      <4>1. stream'[q] = Tail(stream[p])
        BY <1>1, <3>1 DEF WorkStructure, WorkTypeOK
      <4> QED BY <2>1, <2>3, <3>1, <4>1 DEF WorkStructure, Streamed
    <3>2. CASE q # p
      <4>1. stream'[q] = stream[q]
        BY <1>1, <3>2 DEF WorkStructure, WorkTypeOK
      <4> QED BY <2>3, <4>1 DEF WorkStructure, Streamed
    <3> QED BY <3>1, <3>2
  <2> QED BY <1>1, <2>2, <2>3 DEF Streamed, workerVars
<1>5. told' \in [Nodes -> States \cup {"none"}] /\ got' \in SUBSET Nodes
  BY <1>1, <1>2, <1>3 DEF Hear, WorkStructure, WorkTypeOK
<1>6. Obtained'
  BY <1>1, <1>2 DEF Hear, WorkStructure, Obtained, Over, TrueOf, workerVars
<1>7. ClosedForAReason'
  <2>1. CASE future' = future
    BY <1>1, <2>1 DEF WorkStructure, ClosedForAReason, workerVars, requestVars, sendVars
  <2>2. CASE told' = [told EXCEPT ![NodeOf[p]] = e.state] /\ IsFinished(told')
    <3>1. told'[NodeOf[p]] = e.state /\ e.state # "none"
      BY <1>2, <1>3, <2>2 DEF WorkStructure, WorkTypeOK, States, Ends
    <3>2. e.state \in Ends \cup {"request_error"}
      BY <1>3, <2>2, <3>1 DEF IsFinished
    <3>3. job[p] \in {"over", "refused"}
      BY <1>2, <3>2 DEF TrueOf
    <3> QED BY <1>1, <1>3, <3>3 DEF ClosedForAReason, workerVars, requestVars, sendVars
  <2> QED BY <1>1, <2>1, <2>2 DEF Hear
<1>8. future' # "none"
  BY <1>1 DEF Hear
<1> QED BY <1>1, <1>4, <1>5, <1>6, <1>7, <1>8, FutureOnly

LEMMA CloseKeeps ==
  ASSUME Structure, WorkStructure, Close
  PROVE  WorkStructure' /\ UNCHANGED requestVars
<1>1. /\ future = "closing" /\ future' = "closed"
      /\ stream' = [p \in Procs |-> <<>>]
      /\ UNCHANGED <<requestVars, wish, returned, runnerId, told, got, workerVars>>
  BY DEF Close
<1>2. stream' \in [Procs -> Seq(Events)] /\ Streamed'
  BY <1>1 DEF Streamed
<1>3. Obtained' /\ ClosedForAReason'
  BY <1>1 DEF WorkStructure, Obtained, Over, ClosedForAReason, workerVars, requestVars, sendVars
<1>4. told' \in [Nodes -> States \cup {"none"}] /\ got' \in SUBSET Nodes
  BY <1>1 DEF WorkStructure, WorkTypeOK
<1> QED BY <1>1, <1>2, <1>3, <1>4, FutureOnly

-----------------------------------------------------------------------------
LEMMA StepWork ==
  Structure /\ WorkStructure /\ [NextTaskExchange]_taskExchangeVars => WorkStructure' /\ [RequestStep]_requestVars
<1> SUFFICES ASSUME Structure, WorkStructure, [NextTaskExchange]_taskExchangeVars
             PROVE  WorkStructure' /\ [RequestStep]_requestVars
  OBVIOUS
<1>1. CASE Run
  BY <1>1, RunKeeps
<1>2. CASE NothingToAsk /\ UNCHANGED others
  BY <1>2, NothingToAskKeepsWork
<1>3. CASE PostTasks
  BY <1>3, PostTasksKeeps
<1>4. CASE Timeout /\ UNCHANGED others
  BY <1>4, TimeoutKeepsWork
<1>5. CASE DeliverToExecutor
  BY <1>5, DeliverToExecutorKeeps
<1>6. CASE Answered
  BY <1>6, AnsweredKeeps
<1>7. CASE Return
  BY <1>7, ReturnKeeps DEF Return
<1>8. ASSUME NEW p \in Procs, OnTaskEvent(p) PROVE WorkStructure' /\ [RequestStep]_requestVars
  BY <1>8, OnTaskEventKeeps
<1>9. ASSUME NEW p \in Procs, Works(p) PROVE WorkStructure' /\ [RequestStep]_requestVars
  BY <1>9, WorksKeep
<1>10. ASSUME NEW p \in Procs, Notice(p) PROVE WorkStructure' /\ [RequestStep]_requestVars
  BY <1>10, NoticeKeeps
<1>11. CASE Close
  BY <1>11, CloseKeeps
<1>12. CASE UNCHANGED taskExchangeVars
  <2>1. UNCHANGED others /\ UNCHANGED requestVars
    BY <1>12 DEF taskExchangeVars, others
  <2>2. AllAgreed'
    BY <2>1 DEF WorkStructure, AllAgreed, Agreed, others, workerVars, requestVars
  <2> QED BY <2>1, <2>2, RequestOnly DEF requestVars, sendVars, collectVars
<1> QED BY <1>1, <1>2, <1>3, <1>4, <1>5, <1>6, <1>7, <1>8, <1>9, <1>10, <1>11, <1>12
        DEF NextTaskExchange, Works

\* A request for tasks is a request: whatever RequestSpec promises holds of it.
THEOREM TasksAreRequests == SpecTaskExchange => [](Structure /\ WorkStructure) /\ RequestSpec
<1>1. InitTaskExchange => Structure /\ WorkStructure /\ RequestInit
  BY InitStructure, InitWork DEF InitTaskExchange
<1>2. Structure /\ WorkStructure /\ [NextTaskExchange]_taskExchangeVars =>
        (Structure /\ WorkStructure)' /\ [RequestStep]_requestVars
  BY StepWork, StepStructure
<1> QED BY <1>1, <1>2, PTL DEF SpecTaskExchange, RequestSpec

\* A request for tasks keeps what RequestReply promises to its sender.
THEOREM TasksImplementReply == SpecTaskExchange => ImplementsReply
<1> QED BY TasksAreRequests, RequestImplementsReply, PTL

Alone == \A p, q \in Procs : NodeOf[p] = NodeOf[q] => p = q

\* Where a node has one process, a run on one node is over when it was awaited,
\* and each result comes from a run that is over.
THEOREM AlwaysAwaitedRunIsOver ==
  ASSUME Alone, IsFiniteSet(Nodes)
  PROVE  SpecTaskExchange => []AwaitedRunIsOver
<1>1. Structure /\ WorkStructure => AwaitedRunIsOver
  <2> SUFFICES ASSUME Structure, WorkStructure PROVE AwaitedRunIsOver
    OBVIOUS
  <2>1. ASSUME returned = "results", Cardinality(asked) = 1
        PROVE  \E p \in Procs : NodeOf[p] \in asked /\ job[p] = "over"
    <3>1. PICK p \in Procs : NodeOf[p] \in asked /\ job[p] \in {"over", "refused"}
      BY <2>1 DEF WorkStructure, Waits, ClosedForAReason
    <3>2. PICK a \in result : a.kind = "ok"
      BY <2>1 DEF WorkStructure, Waits
    <3>3. a \in responses /\ a \in Responses
      BY DEF Structure, RequestTypeOK
    <3>4. a.nr = 1 /\ job[a.from] # "refused"
      BY <3>2, <3>3 DEF WorkStructure, AllAgreed, Agreed
    <3>5. NodeOf[a.from] \in asked /\ a.from \in Procs
      BY <3>3, <3>4 DEF Structure, Origins, Node, Responses
    <3>6. NodeOf[a.from] = NodeOf[p]
      <4>1. IsFiniteSet(asked)
        BY FS_Subset DEF Structure, RequestTypeOK
      <4>2. PICK n : asked = {n}
        BY <2>1, <4>1, FS_Singleton
      <4> QED BY <3>1, <3>5, <4>2
    <3> QED BY <3>1, <3>4, <3>5, <3>6 DEF Alone
  <2> QED BY <2>1 DEF AwaitedRunIsOver, WorkStructure, Obtained, Over
<1> QED BY TasksAreRequests, <1>1, PTL
=============================================================================
