------------------------------ MODULE Requests ------------------------------
(***************************************************************************)
(* AbstractMessage (libs/messaging/AbstractMessage.ts): one request that a *)
(* process sends over the event bus, the answers that come back, and the   *)
(* timer.  Messages and DistributedQuery add the two kinds of servers the  *)
(* code has, and the way each kind of request picks its targets.           *)
(*                                                                         *)
(* A node is named by its nodeId; several processes (instances) may run    *)
(* under the same one.  The bus (commons-eventbus, not in the repository)  *)
(* delivers an event at most once to each subscriber, in any order, or     *)
(* never: an event that is lost stays where it is, and nothing obliges the *)
(* bus to deliver any.  A response is told apart by who posted it, by its  *)
(* number there, and by whether it carries an error or the mark 'skipping';*)
(* number 0 is the answer Message.beforeSend() gets without the bus.       *)
(*                                                                         *)
(* An operator whose comment begins with "Slip:" is not part of the model: *)
(* it is the definition below it with a plausible mistake.                 *)
(***************************************************************************)
EXTENDS Integers, FiniteSets

CONSTANTS
  Procs,       \* the processes on the bus
  Nodes,       \* node ids, those of processes that are gone included
  NodeOf,      \* the node id of each process
  Self,        \* the process that sends
  Offered,     \* the options it may send with
  Failing      \* the processes whose handler may fail

Me == NodeOf[Self]

Kinds == {"ok", "failed", "skipping"}
Responses == [from : Procs, nr : 0..2, kind : Kinds]

\* detectTargets: the option targetIds is not given.  asResponses: outputMode
\* is 'responses', the result is not converted.
Options == [detectTargets : BOOLEAN, targetIds : SUBSET Nodes, skipLocal : BOOLEAN,
            waitIfNoTarget : BOOLEAN, filterErrors : BOOLEAN, asResponses : BOOLEAN]

ASSUME RequestsAssumption ==
  /\ NodeOf \in [Procs -> Nodes]
  /\ Self \in Procs
  /\ Offered \subseteq {o \in Options : o.detectTargets => o.targetIds = {}}
  /\ Failing \subseteq Procs

VARIABLES
  options,
  phase,      \* how far send() has come
  asked,      \* request.targetIds
  targets,    \* this.targetIds: who is still waited for
  responses,
  active,
  once,       \* the listener once('postprocess') is still there
  late,       \* postProcess() was called by the timer
  result,     \* the responses postProcess() works on
  timer,
  answers,    \* responses that are posted and not yet delivered
  heard       \* history: responses that came in while the message listened

sendVars == <<options, phase, asked, targets>>
collectVars == <<once, late, result>>
requestVars == <<sendVars, responses, active, collectVars, timer, answers, heard>>

Phases == {"new", "refused", "local", "prepared", "waiting", "collected",
           "resolved", "rejected"}

RequestTypeOK ==
  /\ options \in Options
  /\ phase \in Phases
  /\ asked \in SUBSET Nodes /\ targets \in SUBSET asked
  /\ responses \in SUBSET Responses
  /\ active \in BOOLEAN
  /\ once \in BOOLEAN /\ late \in BOOLEAN /\ result \in SUBSET responses
  /\ timer \in {"unset", "set", "fired", "cleared"}
  /\ answers \in SUBSET Responses /\ heard \in SUBSET Responses

RequestInit ==
  /\ options \in Offered
  /\ phase = "new"
  /\ asked = {} /\ targets = {}
  /\ responses = {} /\ active = TRUE
  /\ once = TRUE /\ late = FALSE /\ result = {}
  /\ timer = "unset"
  /\ answers = {} /\ heard = {}

Node(a) == NodeOf[a.from]
Outcomes(p) == IF p \in Failing THEN {"ok", "failed"} ELSE {"ok"}
NodesOf(as) == {Node(a) : a \in as}

-----------------------------------------------------------------------------
(* send, postProcess *)

\* The option 'filter' lets everything pass that is not null.
Filtered(as) == {a \in as : ~(options.filterErrors /\ a.kind = "failed")}

\* The listener is registered with once().
HeedsOnce == once

\* emit('postprocess'), with the error of the timer or without.
PostProcess(as, byTimer) ==
  IF HeedsOnce
  THEN /\ once' = FALSE
       /\ late' = byTimer
       /\ result' = Filtered(as)
       /\ phase' = "collected"
  ELSE UNCHANGED <<collectVars, phase>>

WaitsForAll(nodes) == nodes

\* send() up to the await of beforeSend().
Send(nodes, next) ==
  /\ phase = "new"
  /\ asked' = nodes /\ targets' = WaitsForAll(nodes)
  /\ phase' = next
  /\ UNCHANGED <<options, responses, active, collectVars, timer, answers, heard>>

\* run() of a storage operation throws before it calls send().
Refuse ==
  /\ phase = "new"
  /\ phase' = "refused"
  /\ UNCHANGED <<options, asked, targets, responses, active, collectVars, timer, answers, heard>>

\* The own node needs not be asked any more.
WithoutSelf(nodes) == nodes \ {Me}

\* beforeSend() returns with the answer of the process itself.
BeforeSend(a) ==
  /\ phase = "local"
  /\ responses' = responses \cup {a}
  /\ targets' = WithoutSelf(targets)
  /\ phase' = "prepared"
  /\ UNCHANGED <<options, asked, active, collectVars, timer, answers, heard>>

\* Nobody is left to be asked, and nobody wants to wait for unknown hosts.
NothingToAsk ==
  /\ phase = "prepared" /\ targets = {} /\ ~options.waitIfNoTarget
  /\ timer' = "set"
  /\ PostProcess(responses, FALSE)
  /\ UNCHANGED <<options, asked, targets, responses, active, answers, heard>>

\* Slip: ready() is called when the request has been answered.
TimerComes == "unset"
TimerStarts == "set"

\* Subscribe, start the timer, and post the request.
Post ==
  /\ phase = "prepared" /\ (targets # {} \/ options.waitIfNoTarget)
  /\ phase' = "waiting"
  /\ timer' = TimerStarts
  /\ UNCHANGED <<options, asked, targets, responses, active, collectVars, answers, heard>>

\* Slip: the timer does not tell postProcess().
TimeoutUnsaid == FALSE
TimeoutSaid == TRUE

Timeout ==
  /\ timer = "set"
  /\ timer' = "fired"
  /\ PostProcess(responses, TimeoutSaid)
  /\ UNCHANGED <<options, asked, targets, responses, active, answers, heard>>

\* postProcess() emits 'finished': unsubscribe, and settle the promise.
Finish(outcome) ==
  /\ phase = "collected"
  /\ phase' = outcome
  /\ timer' = "cleared"
  /\ UNCHANGED <<options, asked, targets, responses, active, collectVars, answers, heard>>

-----------------------------------------------------------------------------
(* onResults *)

RestTargets(a) == targets \ {Node(a)}

AllAnswered(rest) == rest = {}

\* onResults(): the request is not over yet.
IsMine(a) == phase \in {"waiting", "collected"} /\ active
WaitsFor(a) == IsMine(a) /\ Node(a) \in targets

Counted(a) ==
  LET rest == RestTargets(a) IN
  /\ targets' = rest
  /\ responses' = IF a.kind = "skipping" THEN responses ELSE responses \cup {a}
  /\ IF AllAnswered(rest)
     THEN active' = FALSE /\ PostProcess(responses', FALSE)
     ELSE UNCHANGED <<active, collectVars, phase>>

\* The listener of a message that has ended is gone.
OnResults(a) ==
  /\ a \in answers
  /\ answers' = answers \ {a}
  /\ heard' = IF phase \in {"waiting", "collected"} THEN heard \cup {a} ELSE heard
  /\ IF WaitsFor(a)
     THEN Counted(a)
     ELSE UNCHANGED <<phase, targets, responses, active, collectVars>>
  /\ UNCHANGED <<options, asked, timer>>

\* A process that serves the request posts a response.
PostResponse(a) ==
  /\ answers' = answers \cup {a}
  /\ UNCHANGED <<sendVars, responses, active, collectVars, timer, heard>>

-----------------------------------------------------------------------------
(* What all requests have in common: Messages and DistributedQuery take     *)
(* these steps, and say when and with which targets and responses.          *)

LocalResponses == [from : {Self}, nr : {0}, kind : {"ok", "failed"}]
BusResponses == [from : Procs, nr : 1..2, kind : Kinds]

RequestStep ==
  \/ \E nodes \in SUBSET Nodes, next \in {"local", "prepared"} : Send(nodes, next)
  \/ Refuse
  \/ \E a \in LocalResponses : BeforeSend(a)
  \/ NothingToAsk
  \/ Post
  \/ Timeout
  \/ \E outcome \in {"resolved", "rejected"} : Finish(outcome)
  \/ \E a \in answers : OnResults(a)
  \/ \E a \in BusResponses : PostResponse(a)

RequestSpec == RequestInit /\ [][RequestStep]_requestVars

-----------------------------------------------------------------------------
(* Properties *)

LocalAsked == phase = "local" \/ \E a \in responses : a.nr = 0

\* onResults() takes a node off targetIds with its first answer, so that the
\* second one - of another instance, or of an exchange that handled the
\* request twice - finds nobody who waits for it, and an answer is counted
\* for no node but those that were asked or the own one.
EachNodeOnce ==
  /\ \A a, b \in responses : Node(a) = Node(b) => a = b
  /\ \A a \in responses : Node(a) \in asked \/ (a.nr = 0 /\ a.from = Self)

\* No answer gets lost between onResults() and the result: of every node that
\* was asked and is no longer waited for, an answer has come in, and it is
\* among the responses unless it carries 'skipping'.
NobodyForgotten ==
  \A n \in asked \ targets :
    \E a \in responses \cup heard :
      Node(a) = n /\ (a.kind = "skipping" \/ a \in responses)

\* A result that is not marked by the timeout error holds the answers of all
\* that were asked, those filterErrors and 'skipping' remove excepted.
CompleteOrLate ==
  ~once /\ ~late =>
    \A n \in asked :
      \E a \in responses \cup heard :
        /\ Node(a) = n
        /\ \/ a \in result
           \/ a.kind = "skipping"
           \/ a.kind = "failed" /\ options.filterErrors

\* The result is drawn up once: neither the timer that fires after the last
\* answer nor an answer that comes after the timer changes it.
ResultStands == [][~once => UNCHANGED <<once, result, late>>]_requestVars

\* IMessageOptions.ts:12 of waitIfNoTarget: "The message will be send to
\* unknown hosts and will wait for response till it arrive or will be timed
\* out."  So a response that arrives before the timeout is counted.
\* The code does not keep it: TLC finds a counterexample (README, 5).
UnknownHostsHeard ==
  phase = "waiting" /\ asked = {} => \A a \in heard : a.from # Self => a \in responses

\* What the sender may rely on: RequestReply, with the own node among those
\* that are asked when beforeSend() handles the request locally.
ReplyState ==
  IF phase \in {"new", "refused"} THEN "idle"
  ELSE IF once THEN "open"
  ELSE IF late THEN "late" ELSE "complete"

Reply == INSTANCE RequestReply WITH
  Asked <- Nodes,
  asked <- asked \cup (IF LocalAsked THEN {Me} ELSE {}),
  pending <- targets \cup (IF phase = "local" THEN {Me} ELSE {}),
  state <- ReplyState,
  result <- NodesOf(result)

ImplementsReply == Reply!ReplySpec
=============================================================================
