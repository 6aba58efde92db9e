------------------------------ MODULE Messages ------------------------------
(***************************************************************************)
(* Message (libs/messaging/Message.ts) on the sender's side, and on the    *)
(* other side AbstractExchange (libs/messaging/AbstractExchange.ts) with   *)
(* the ExchangeMessageWorker (workers/ExchangeMessageWorker.ts).           *)
(*                                                                         *)
(* A process hears a request twice: the exchange subscribes to it itself,  *)
(* and the worker subscribes for every exchange and hands the request on   *)
(* through its queue (AsyncQueue).  reqCache keeps the exchange from       *)
(* handling the second one while it handles the first; afterwards it is    *)
(* handled and answered again.  The sender's own process hears its request *)
(* like any other.                                                         *)
(***************************************************************************)
EXTENDS Requests

VARIABLES
  inbox,     \* inbox[p]: the subscribers of p that have not got the request
  queued,    \* the request is a job in the queue of p's worker
  cached,    \* reqCache[request.id] of p's exchange
  handling,  \* handling[p]: handleRequest() calls under way
  posted     \* posted[p]: responses p has posted

exchangeVars == <<inbox, queued, cached, handling, posted>>
vars == <<requestVars, exchangeVars>>

Subscribers == {"exchange", "worker"}

TypeOK ==
  /\ RequestTypeOK
  /\ inbox \in [Procs -> SUBSET Subscribers]
  /\ queued \in [Procs -> BOOLEAN] /\ cached \in [Procs -> BOOLEAN]
  /\ handling \in [Procs -> 0..2]
  /\ posted \in [Procs -> 0..2]

Init ==
  /\ RequestInit
  /\ inbox = [p \in Procs |-> {}]
  /\ queued = [p \in Procs |-> FALSE]
  /\ cached = [p \in Procs |-> FALSE]
  /\ handling = [p \in Procs |-> 0]
  /\ posted = [p \in Procs |-> 0]

-----------------------------------------------------------------------------
(* The sender *)

\* targetIds of send(): those given, or the nodes known when none are.
Base(known) ==
  IF options.targetIds = {} THEN {NodeOf[p] : p \in known} ELSE options.targetIds

\* beforeSend() answers the request itself, except when it is told not to or
\* when targetIds are given and the own node is not one of the targets.
HandlesLocally(nodes) ==
  /\ ~options.skipLocal
  /\ options.detectTargets \/ nodes = {} \/ Me \in nodes

\* send() with the processes of System.nodes, which are never this one.
SendMessage ==
  /\ \E known \in SUBSET (Procs \ {Self}) :
       LET nodes == Base(known) IN
       Send(nodes, IF HandlesLocally(nodes) THEN "local" ELSE "prepared")
  /\ UNCHANGED exchangeVars

LocalResponse ==
  /\ \E kind \in Outcomes(Self) :
       BeforeSend([from |-> Self, nr |-> 0, kind |-> kind])
  /\ UNCHANGED exchangeVars

PostMessage ==
  /\ Post
  /\ inbox' = [p \in Procs |-> Subscribers]
  /\ UNCHANGED <<queued, cached, handling, posted>>

\* doPostProcess() calls handleResponse() for every response that is no error;
\* it may throw, and then the promise is rejected.
Settle ==
  /\ \/ Finish("resolved")
     \/ ~options.asResponses /\ (\E a \in result : a.kind = "ok") /\ Finish("rejected")
  /\ UNCHANGED exchangeVars

SenderNext ==
  \/ SendMessage
  \/ LocalResponse
  \/ NothingToAsk /\ UNCHANGED exchangeVars
  \/ PostMessage
  \/ Timeout /\ UNCHANGED exchangeVars
  \/ Settle

-----------------------------------------------------------------------------
(* The exchange and its worker *)

\* Slip: the cache is not looked at.
HandlesAgain(p) == TRUE
Handles(p) == ~cached[p]

\* AbstractExchange.onRequest
OnRequest(p) ==
  IF (asked = {} \/ NodeOf[p] \in asked) /\ Handles(p)
  THEN /\ cached' = [cached EXCEPT ![p] = TRUE]
       /\ handling' = [handling EXCEPT ![p] = @ + 1]
  ELSE UNCHANGED <<cached, handling>>

ExchangeHears(p) ==
  /\ "exchange" \in inbox[p]
  /\ inbox' = [inbox EXCEPT ![p] = @ \ {"exchange"}]
  /\ OnRequest(p)
  /\ UNCHANGED <<requestVars, queued, posted>>

\* ExchangeMessageWorker.onRequest: other than the exchange, the worker does
\* not take an empty list of targets for a request to everybody.
WorkerHears(p) ==
  /\ "worker" \in inbox[p]
  /\ inbox' = [inbox EXCEPT ![p] = @ \ {"worker"}]
  /\ queued' = [queued EXCEPT ![p] = NodeOf[p] \in asked]
  /\ UNCHANGED <<requestVars, cached, handling, posted>>

WorkerDoes(p) ==
  /\ queued[p]
  /\ queued' = [queued EXCEPT ![p] = FALSE]
  /\ OnRequest(p)
  /\ UNCHANGED <<requestVars, inbox, posted>>

Uncached(p, kind) == [cached EXCEPT ![p] = FALSE]

\* handleRequest() has ended; getResponse() turns an exception into an error.
Respond(p, kind) ==
  /\ handling[p] > 0
  /\ handling' = [handling EXCEPT ![p] = @ - 1]
  /\ cached' = Uncached(p, kind)
  /\ posted' = [posted EXCEPT ![p] = @ + 1]
  /\ PostResponse([from |-> p, nr |-> posted[p] + 1, kind |-> kind])
  /\ UNCHANGED <<inbox, queued>>

ExchangeNext(p) ==
  \/ ExchangeHears(p)
  \/ WorkerHears(p)
  \/ WorkerDoes(p)
  \/ \E kind \in Outcomes(p) : Respond(p, kind)

\* The bus delivers a response.
Deliver == \E a \in answers : OnResults(a) /\ UNCHANGED exchangeVars

Next ==
  \/ SenderNext
  \/ \E p \in Procs : ExchangeNext(p)
  \/ Deliver

Spec == Init /\ [][Next]_vars

-----------------------------------------------------------------------------
(* Properties *)

\* reqCache: an exchange handles a request at most once at a time, although
\* it hears it on two ways; and two responses are the most it posts.
HandledAlone ==
  \A p \in Procs :
    /\ handling[p] <= 1
    /\ cached[p] <=> handling[p] = 1
    /\ posted[p] + handling[p] + (IF queued[p] THEN 1 ELSE 0) + Cardinality(inbox[p]) <= 2

\* The microtasks of send() and postProcess() run, the timer fires, and the
\* handleRequest() calls under way end; the bus owes nothing.
Fairness ==
  /\ WF_vars(LocalResponse) /\ WF_vars(PostMessage) /\ WF_vars(Settle)
  /\ WF_vars(NothingToAsk /\ UNCHANGED exchangeVars)
  /\ WF_vars(Timeout /\ UNCHANGED exchangeVars)
  /\ \A p \in Procs : WF_vars(WorkerDoes(p)) /\ WF_vars(\E kind \in Outcomes(p) : Respond(p, kind))

FairSpec == Spec /\ Fairness

\* A message that was sent ends, whatever becomes of the request and the
\* answers: ready() starts its timer before the request is posted.
SendEnds == phase \in {"local", "prepared"} ~> phase \in {"resolved", "rejected"}

\* reqCache forgets every request, also one that has failed: it would
\* otherwise grow for ever, and ignore the request on its second way.
CacheForgets == \A p \in Procs : cached[p] ~> ~cached[p]

\* Both ends of a message come to rest: the sender has its results, and the exchanges
\* have forgotten the request (AbstractMessage.ts:229, AbstractExchange.ts:95).
MessageEnds == SendEnds /\ CacheForgets
=============================================================================
