--------------------------- MODULE RequestsProofs ---------------------------
(***************************************************************************)
(* Theorems about the requests of AbstractMessage, for any number of       *)
(* processes, nodes and instances: what RequestSpec promises, and that it  *)
(* implements RequestReply.  The modules that send requests inherit these  *)
(* results by showing that their steps are steps of RequestSpec.           *)
(***************************************************************************)
EXTENDS Requests, TLAPS

Early == {"new", "refused", "local", "prepared"}
Open == Early \cup {"waiting"}

\* What is in place at each stage of send().
Stages ==
  /\ phase \in {"new", "refused"} => asked = {}
  /\ phase \in {"new", "refused", "local"} => responses = {}
  /\ phase = "local" => targets = asked
  /\ phase \in Early => timer = "unset" /\ heard = {}
  /\ phase = "waiting" => timer = "set"
  /\ once <=> phase \in Open
  /\ once => active /\ ~late /\ result = {}

\* Whose responses there are, and when one is the own one.
Origins ==
  /\ answers \subseteq BusResponses /\ heard \subseteq BusResponses
  /\ responses \subseteq LocalResponses \cup BusResponses
  /\ \A a \in responses : Node(a) \in asked \/ a.nr = 0
  /\ \A a \in responses : a.nr = 0 => a.from = Self

\* Nobody who is still waited for has a response, and nobody has two.
Once ==
  /\ \A a \in responses : phase # "local" => Node(a) \notin targets
  /\ \A a, b \in responses : Node(a) = Node(b) => a = b

\* What a result that is not late was drawn up from.
Drawn == ~once /\ ~late => targets = {} /\ result = Filtered(responses)

Structure ==
  /\ RequestTypeOK
  /\ Stages
  /\ Origins
  /\ Once
  /\ NobodyForgotten
  /\ Drawn

LEMMA NodeType == \A a \in Responses : Node(a) \in Nodes
BY RequestsAssumption DEF Node, Responses

LEMMA ResponseTypes == LocalResponses \subseteq Responses /\ BusResponses \subseteq Responses
<1>1. LocalResponses \subseteq Responses
  BY RequestsAssumption DEF LocalResponses, Responses, Kinds
<1>2. BusResponses \subseteq Responses
  BY DEF BusResponses, Responses
<1> QED BY <1>1, <1>2

\* The structure holds at the start: nothing has been asked.
LEMMA InitStructure == RequestInit => Structure
<1> SUFFICES ASSUME RequestInit PROVE Structure
  OBVIOUS
<1>1. RequestTypeOK
  BY RequestsAssumption DEF RequestInit, RequestTypeOK, Phases
<1>2. Stages /\ Origins /\ Once /\ NobodyForgotten /\ Drawn
  BY DEF RequestInit, Stages, Early, Open, Origins, Once, NobodyForgotten, Drawn
<1> QED BY <1>1, <1>2 DEF Structure

-----------------------------------------------------------------------------
(* One lemma per step. *)

LEMMA SendKeeps ==
  ASSUME Structure, NEW nodes \in SUBSET Nodes, NEW next \in {"local", "prepared"},
         Send(nodes, next)
  PROVE  Structure'
<1> USE DEF Structure, Send, sendVars, collectVars, WaitsForAll
<1>1. RequestTypeOK'
  BY DEF RequestTypeOK, Phases
<1>2. Stages'
  BY DEF Stages, Early, Open
<1>3. Origins'
  BY DEF Origins, Stages
<1>4. Once' /\ NobodyForgotten' /\ Drawn'
  BY DEF Once, NobodyForgotten, Drawn, Stages, Open, Early
<1> QED BY <1>1, <1>2, <1>3, <1>4

LEMMA RefuseKeeps ==
  ASSUME Structure, Refuse
  PROVE  Structure'
<1> USE DEF Structure, Refuse, sendVars, collectVars
<1>1. RequestTypeOK'
  BY DEF RequestTypeOK, Phases
<1>2. Stages'
  BY DEF Stages, Early, Open
<1>3. Origins' /\ NobodyForgotten'
  BY DEF Origins, NobodyForgotten
<1>4. Once' /\ Drawn'
  BY DEF Once, Drawn, Stages, Open, Early
<1> QED BY <1>1, <1>2, <1>3, <1>4

\* The own response: the own node is no longer waited for.
LEMMA BeforeSendKeeps ==
  ASSUME Structure, NEW a \in LocalResponses, BeforeSend(a)
  PROVE  Structure'
<1> USE DEF Structure, BeforeSend, sendVars, collectVars, WithoutSelf
<1>0. a.from = Self /\ a.nr = 0 /\ Node(a) = Me /\ a \in Responses
  BY ResponseTypes DEF LocalResponses, Node, Me
<1>1. RequestTypeOK'
  BY <1>0 DEF RequestTypeOK, Phases, Stages, Open
<1>2. Stages'
  BY DEF Stages, Early, Open
<1>3. Origins'
  BY <1>0 DEF Origins, Stages
<1>4. Once'
  BY <1>0 DEF Once, Stages
<1>5. NobodyForgotten'
  BY <1>0 DEF NobodyForgotten, Stages
<1>6. Drawn'
  BY DEF Drawn, Stages, Open, Early
<1> QED BY <1>1, <1>2, <1>3, <1>4, <1>5, <1>6

LEMMA NothingToAskKeeps ==
  ASSUME Structure, NothingToAsk
  PROVE  Structure'
<1> USE DEF Structure, NothingToAsk, sendVars, collectVars, PostProcess, HeedsOnce
<1>0. once /\ phase = "prepared" /\ targets = {}
  BY DEF Stages, Open, Early
<1>1. RequestTypeOK'
  BY <1>0 DEF RequestTypeOK, Phases, Filtered
<1>2. Stages'
  BY <1>0 DEF Stages, Early, Open
<1>3. Origins' /\ NobodyForgotten'
  BY <1>0 DEF Origins, NobodyForgotten
<1>4. Once' /\ Drawn'
  BY <1>0 DEF Once, Drawn, Filtered
<1> QED BY <1>1, <1>2, <1>3, <1>4

LEMMA PostKeeps ==
  ASSUME Structure, Post
  PROVE  Structure'
<1> USE DEF Structure, Post, sendVars, collectVars, TimerStarts
<1>1. RequestTypeOK'
  BY DEF RequestTypeOK, Phases
<1>2. Stages'
  BY DEF Stages, Early, Open
<1>3. Origins' /\ NobodyForgotten'
  BY DEF Origins, NobodyForgotten
<1>4. Once' /\ Drawn'
  BY DEF Once, Drawn, Stages, Open, Early
<1> QED BY <1>1, <1>2, <1>3, <1>4

\* The timer draws up the result if that has not been done yet.
LEMMA TimeoutKeeps ==
  ASSUME Structure, Timeout
  PROVE  Structure'
<1> USE DEF Structure, Timeout, sendVars, collectVars, PostProcess, HeedsOnce, TimeoutSaid
<1>0. once => phase = "waiting"
  BY DEF Stages, Open, Early
<1>1. RequestTypeOK'
  BY DEF RequestTypeOK, Phases, Filtered
<1>2. Stages'
  BY <1>0 DEF Stages, Early, Open
<1>3. Origins' /\ NobodyForgotten'
  BY DEF Origins, NobodyForgotten
<1>4. Once' /\ Drawn'
  BY <1>0 DEF Once, Drawn, Stages, Open, Early, Filtered
<1> QED BY <1>1, <1>2, <1>3, <1>4

LEMMA FinishKeeps ==
  ASSUME Structure, NEW outcome \in {"resolved", "rejected"}, Finish(outcome)
  PROVE  Structure'
<1> USE DEF Structure, Finish, sendVars, collectVars
<1>1. RequestTypeOK'
  BY DEF RequestTypeOK, Phases
<1>2. Stages'
  BY DEF Stages, Early, Open
<1>3. Origins' /\ NobodyForgotten'
  BY DEF Origins, NobodyForgotten
<1>4. Once' /\ Drawn'
  BY DEF Once, Drawn, Stages, Open, Early, Filtered
<1> QED BY <1>1, <1>2, <1>3, <1>4

LEMMA PostResponseKeeps ==
  ASSUME Structure, NEW a \in BusResponses, PostResponse(a)
  PROVE  Structure'
<1> USE DEF Structure, PostResponse, sendVars, collectVars
<1>1. RequestTypeOK'
  BY ResponseTypes DEF RequestTypeOK
<1>2. Stages'
  BY DEF Stages
<1>3. Origins' /\ NobodyForgotten'
  BY DEF Origins, NobodyForgotten
<1>4. Once' /\ Drawn'
  BY DEF Once, Drawn, Filtered
<1> QED BY <1>1, <1>2, <1>3, <1>4

\* A response of a node that is still waited for: the node is taken off the
\* list, and the result is drawn up when it was the last.
LEMMA CountedKeeps ==
  ASSUME Structure, NEW a \in answers, OnResults(a), WaitsFor(a)
  PROVE  Structure'
<1> USE DEF Structure, sendVars, collectVars
<1>0. /\ phase \in {"waiting", "collected"} /\ active /\ Node(a) \in targets
      /\ targets' = targets \ {Node(a)}
      /\ responses' = IF a.kind = "skipping" THEN responses ELSE responses \cup {a}
      /\ heard' = heard \cup {a}
      /\ answers' = answers \ {a}
      /\ UNCHANGED <<options, asked, timer>>
  BY DEF OnResults, WaitsFor, IsMine, Counted, RestTargets
<1>1. CASE targets' = {} /\ once
  <2>1. active' = FALSE /\ once' = FALSE /\ late' = FALSE /\ phase' = "collected"
        /\ result' = Filtered(responses')
    BY <1>1, <1>0 DEF OnResults, Counted, RestTargets, AllAnswered, PostProcess, HeedsOnce
  <2>2. RequestTypeOK'
    BY <1>0, <2>1, ResponseTypes DEF RequestTypeOK, Phases, Filtered, Origins
  <2>3. Stages'
    BY <1>0, <2>1 DEF Stages, Early, Open
  <2>4. Origins'
    BY <1>0, <2>1, ResponseTypes DEF Origins, RequestTypeOK, BusResponses
  <2>5. Once'
    BY <1>0, <2>1 DEF Once
  <2>6. NobodyForgotten'
    BY <1>0, <2>1 DEF NobodyForgotten
  <2>7. Drawn'
    BY <1>0, <1>1, <2>1 DEF Drawn, Filtered
  <2> QED BY <2>2, <2>3, <2>4, <2>5, <2>6, <2>7
<1>2. CASE targets' # {} \/ ~once
  <2>0. targets' # {} => UNCHANGED <<active, once, late, result, phase>>
    BY <1>0 DEF OnResults, Counted, RestTargets, AllAnswered
  <2>1. targets' = {} => active' = FALSE /\ UNCHANGED <<once, late, result, phase>>
    BY <1>0, <1>2 DEF OnResults, Counted, RestTargets, AllAnswered, PostProcess, HeedsOnce
  <2>2. /\ UNCHANGED <<once, late, result, phase>>
        /\ active' \in BOOLEAN
        /\ once => active'
    <3>1. CASE targets' # {}
      BY <3>1, <2>0, <1>0 DEF RequestTypeOK
    <3>2. CASE targets' = {}
      BY <3>2, <2>1, <1>2
    <3> QED BY <3>1, <3>2
  <2>3. RequestTypeOK'
    BY <1>0, <2>2, ResponseTypes DEF RequestTypeOK, Origins
  <2>4. Stages'
    BY <1>0, <2>2, <2>0 DEF Stages, Early, Open
  <2>5. Origins'
    BY <1>0, <2>2, ResponseTypes DEF Origins, RequestTypeOK, BusResponses
  <2>6. Once'
    BY <1>0, <2>2 DEF Once
  <2>7. NobodyForgotten'
    BY <1>0, <2>2 DEF NobodyForgotten
  <2>8. Drawn'
    BY <1>0, <2>2 DEF Drawn
  <2> QED BY <2>3, <2>4, <2>5, <2>6, <2>7, <2>8
<1> QED BY <1>1, <1>2

LEMMA OnResultsKeeps ==
  ASSUME Structure, NEW a \in answers, OnResults(a)
  PROVE  Structure'
<1>1. CASE WaitsFor(a)
  BY <1>1, CountedKeeps
<1>2. CASE ~WaitsFor(a)
  <2> USE DEF Structure, sendVars, collectVars
  <2>0. /\ answers' = answers \ {a}
        /\ heard' = IF phase \in {"waiting", "collected"} THEN heard \cup {a} ELSE heard
        /\ UNCHANGED <<options, asked, timer, phase, targets, responses, active>>
        /\ UNCHANGED <<once, late, result>>
    BY <1>2 DEF OnResults
  <2>1. RequestTypeOK'
    BY <2>0 DEF RequestTypeOK
  <2>2. Stages'
    BY <2>0 DEF Stages, Early, Open
  <2>3. Origins' /\ NobodyForgotten'
    BY <2>0 DEF Origins, NobodyForgotten
  <2>4. Once' /\ Drawn'
    BY <2>0 DEF Once, Drawn, Filtered
  <2> QED BY <2>1, <2>2, <2>3, <2>4
<1> QED BY <1>1, <1>2

LEMMA StepStructure == Structure /\ [RequestStep]_requestVars => Structure'
<1> SUFFICES ASSUME Structure, [RequestStep]_requestVars PROVE Structure'
  OBVIOUS
<1>1. ASSUME NEW nodes \in SUBSET Nodes, NEW next \in {"local", "prepared"}, Send(nodes, next)
      PROVE  Structure'
  BY <1>1, SendKeeps
<1>2. CASE Refuse
  BY <1>2, RefuseKeeps
<1>3. ASSUME NEW a \in LocalResponses, BeforeSend(a) PROVE Structure'
  BY <1>3, BeforeSendKeeps
<1>4. CASE NothingToAsk
  BY <1>4, NothingToAskKeeps
<1>5. CASE Post
  BY <1>5, PostKeeps
<1>6. CASE Timeout
  BY <1>6, TimeoutKeeps
<1>7. ASSUME NEW outcome \in {"resolved", "rejected"}, Finish(outcome) PROVE Structure'
  BY <1>7, FinishKeeps
<1>8. ASSUME NEW a \in answers, OnResults(a) PROVE Structure'
  BY <1>8, OnResultsKeeps
<1>9. ASSUME NEW a \in BusResponses, PostResponse(a) PROVE Structure'
  BY <1>9, PostResponseKeeps
<1>10. CASE UNCHANGED requestVars
  BY <1>10 DEF requestVars, sendVars, collectVars, Structure, RequestTypeOK, Stages,
     Origins, Once, NobodyForgotten, Drawn, Filtered
<1> QED BY <1>1, <1>2, <1>3, <1>4, <1>5, <1>6, <1>7, <1>8, <1>9, <1>10 DEF RequestStep

\* Every request has the structure at all times.
THEOREM RequestStructure == RequestSpec => []Structure
<1> QED BY InitStructure, StepStructure, PTL DEF RequestSpec

-----------------------------------------------------------------------------
(* What the structure says of the properties *)

LEMMA StructureGivesOnce == Structure => EachNodeOnce
BY DEF Structure, Origins, Once, EachNodeOnce

LEMMA StructureGivesComplete == Structure => CompleteOrLate
<1> SUFFICES ASSUME Structure, ~once, ~late, NEW n \in asked
             PROVE  \E a \in responses \cup heard :
                      /\ Node(a) = n
                      /\ \/ a \in result
                         \/ a.kind = "skipping"
                         \/ a.kind = "failed" /\ options.filterErrors
  BY DEF CompleteOrLate
<1>1. targets = {} /\ result = Filtered(responses)
  BY DEF Structure, Drawn
<1>2. PICK a \in responses \cup heard : Node(a) = n /\ (a.kind = "skipping" \/ a \in responses)
  BY <1>1 DEF Structure, NobodyForgotten
<1> QED BY <1>1, <1>2 DEF Filtered

LEMMA StepStands ==
  Structure /\ [RequestStep]_requestVars /\ ~once => UNCHANGED <<once, result, late>>
<1> SUFFICES ASSUME Structure, [RequestStep]_requestVars, ~once
             PROVE  UNCHANGED <<once, result, late>>
  OBVIOUS
<1>1. phase \notin Open
  BY DEF Structure, Stages
<1> QED BY <1>1 DEF RequestStep, requestVars, sendVars, collectVars, Send, Refuse, BeforeSend,
         NothingToAsk, Post, Timeout, Finish, OnResults, Counted, PostResponse, PostProcess,
         HeedsOnce, Open, Early

\* The result is drawn up once.
THEOREM RequestResultStands == RequestSpec => ResultStands
<1>1. Structure /\ [RequestStep]_requestVars => [~once => UNCHANGED <<once, result, late>>]_requestVars
  BY StepStands
<1> QED BY RequestStructure, <1>1, PTL DEF RequestSpec, ResultStands

-----------------------------------------------------------------------------
(* RequestSpec implements RequestReply *)

\* The mapping, one name for each variable of RequestReply.
AskedAll == asked \cup (IF LocalAsked THEN {Me} ELSE {})
Pending == targets \cup (IF phase = "local" THEN {Me} ELSE {})

LEMMA InitReplies == RequestInit => Reply!ReplyInit
BY DEF RequestInit, Reply!ReplyInit, LocalAsked, ReplyState, NodesOf

\* A step that leaves what the mapping reads alone is a stutter.
LEMMA QuietStep ==
  ASSUME UNCHANGED <<asked, targets, responses, phase, once, late, result>>
  PROVE  UNCHANGED Reply!replyVars
BY DEF Reply!replyVars, LocalAsked, ReplyState, NodesOf, Node

\* The nodes of a result are asked, and no longer pending.
LEMMA DrawnFromAnswered ==
  ASSUME Structure, phase # "local"
  PROVE  NodesOf(responses) \subseteq AskedAll \ Pending
BY DEF Structure, Origins, Once, AskedAll, Pending, LocalAsked, NodesOf, Node, Me

LEMMA SendReplies ==
  ASSUME Structure, NEW nodes \in SUBSET Nodes, NEW next \in {"local", "prepared"},
         Send(nodes, next)
  PROVE  Reply!ReplyStep
<1> DEFINE all == nodes \cup (IF next = "local" THEN {Me} ELSE {})
<1>1. all \in SUBSET Nodes
  BY RequestsAssumption DEF Me
<1>2. responses = {} /\ responses' = {} /\ once /\ once' /\ phase = "new" /\ phase' = next
  BY DEF Structure, Stages, Open, Early, Send, collectVars
<1>3. AskedAll' = all /\ Pending' = all
  BY <1>2 DEF AskedAll, Pending, LocalAsked, Send, WaitsForAll
<1>4. ReplyState = "idle" /\ ReplyState' = "open"
  BY <1>2 DEF ReplyState
<1>5. Reply!Ask(all)
  BY <1>3, <1>4 DEF Reply!Ask, AskedAll, Pending, NodesOf, Node, Send, collectVars
<1> QED BY <1>1, <1>5 DEF Reply!ReplyStep

LEMMA BeforeSendReplies ==
  ASSUME Structure, NEW a \in LocalResponses, BeforeSend(a)
  PROVE  Reply!ReplyStep
<1>1. phase = "local" /\ phase' = "prepared" /\ once /\ once' /\ a.nr = 0
  BY DEF Structure, Stages, Open, Early, BeforeSend, collectVars, LocalResponses
<1>2. LocalAsked /\ LocalAsked'
  BY <1>1 DEF LocalAsked, BeforeSend
<1>3. AskedAll' = AskedAll /\ Me \in Pending /\ Pending' = Pending \ {Me}
  BY <1>1, <1>2 DEF AskedAll, Pending, BeforeSend, WithoutSelf
<1>4. ReplyState = "open" /\ ReplyState' = "open"
  BY <1>1 DEF ReplyState
<1>5. Reply!Answer(Me)
  BY <1>3, <1>4 DEF Reply!Answer, AskedAll, Pending, NodesOf, Node, BeforeSend, collectVars
<1> QED BY <1>3, <1>5 DEF Reply!ReplyStep, Pending

\* A result that is drawn up from the responses is one RequestReply allows.
LEMMA DrawUpReplies ==
  ASSUME Structure', phase' # "local", result' = Filtered(responses)'
  PROVE  NodesOf(result)' \in SUBSET (AskedAll' \ Pending')
<1>1. NodesOf(responses)' \subseteq AskedAll' \ Pending'
  BY DrawnFromAnswered DEF Structure, Origins, Once, AskedAll, Pending, LocalAsked, NodesOf, Node, Me
<1> QED BY <1>1 DEF Filtered, NodesOf, Node

LEMMA NothingToAskReplies ==
  ASSUME Structure, NothingToAsk
  PROVE  Reply!ReplyStep
<1>1. phase = "prepared" /\ once /\ targets = {}
  BY DEF Structure, Stages, Open, Early, NothingToAsk
<1>2. /\ phase' = "collected" /\ ~once' /\ ~late' /\ result' = Filtered(responses)'
      /\ UNCHANGED <<asked, targets, responses>>
  BY <1>1 DEF NothingToAsk, PostProcess, HeedsOnce, Filtered
<1>3. ReplyState = "open" /\ ReplyState' = "complete"
  BY <1>1, <1>2 DEF ReplyState
<1>4. AskedAll' = AskedAll /\ Pending = {} /\ Pending' = {}
  BY <1>1, <1>2 DEF AskedAll, Pending, LocalAsked
<1>5. NodesOf(result)' \in SUBSET (AskedAll' \ Pending')
  BY <1>2, NothingToAskKeeps, DrawUpReplies
<1>6. Reply!Close
  BY <1>3, <1>4, <1>5 DEF Reply!Close, Reply!DrawUp, AskedAll, Pending
<1> QED BY <1>6 DEF Reply!ReplyStep

LEMMA TimeoutReplies ==
  ASSUME Structure, Timeout
  PROVE  [Reply!ReplyStep]_(Reply!replyVars)
<1>1. CASE once
  <2>1. phase = "waiting"
    BY <1>1 DEF Structure, Stages, Open, Early, Timeout
  <2>2. /\ phase' = "collected" /\ ~once' /\ late' /\ result' = Filtered(responses)'
        /\ UNCHANGED <<asked, targets, responses>>
    BY <1>1 DEF Timeout, PostProcess, HeedsOnce, Filtered, TimeoutSaid
  <2>3. ReplyState = "open" /\ ReplyState' = "late"
    BY <1>1, <2>1, <2>2 DEF ReplyState
  <2>4. AskedAll' = AskedAll /\ Pending' = Pending
    BY <2>1, <2>2 DEF AskedAll, Pending, LocalAsked
  <2>5. NodesOf(result)' \in SUBSET (AskedAll' \ Pending')
    BY <2>2, TimeoutKeeps, DrawUpReplies
  <2>6. Reply!GiveUp
    BY <2>3, <2>4, <2>5 DEF Reply!GiveUp, Reply!DrawUp, AskedAll, Pending
  <2> QED BY <2>6 DEF Reply!ReplyStep
<1>2. CASE ~once
  BY <1>2, QuietStep DEF Timeout, PostProcess, HeedsOnce, collectVars
<1> QED BY <1>1, <1>2

LEMMA OnResultsReplies ==
  ASSUME Structure, NEW a \in answers, OnResults(a)
  PROVE  [Reply!ReplyStep]_(Reply!replyVars)
<1>1. CASE ~WaitsFor(a)
  BY <1>1, QuietStep DEF OnResults, collectVars
<1>2. CASE WaitsFor(a)
  <2>1. /\ phase \in {"waiting", "collected"} /\ Node(a) \in targets
        /\ targets' = targets \ {Node(a)} /\ asked' = asked
        /\ responses' = IF a.kind = "skipping" THEN responses ELSE responses \cup {a}
    BY <1>2 DEF OnResults, WaitsFor, IsMine, Counted, RestTargets
  <2>2. a.nr # 0
    BY DEF Structure, Origins, BusResponses
  <2>3. phase' \in {"waiting", "collected"}
    BY <1>2, <2>1 DEF OnResults, Counted, PostProcess, collectVars
  <2>4. AskedAll' = AskedAll /\ Node(a) \in Pending /\ Pending' = Pending \ {Node(a)}
    BY <2>1, <2>2, <2>3 DEF AskedAll, Pending, LocalAsked
  <2>5. CASE targets' = {} /\ once
    <3>1. ~once' /\ ~late' /\ result' = Filtered(responses)'
      BY <1>2, <2>1, <2>5 DEF OnResults, Counted, RestTargets, AllAnswered, PostProcess,
         HeedsOnce, Filtered
    <3>2. ReplyState = "open" /\ ReplyState' = "complete"
      BY <2>1, <2>3, <2>5, <3>1 DEF ReplyState
    <3>3. NodesOf(result)' \in SUBSET (AskedAll' \ Pending')
      BY <2>3, <3>1, OnResultsKeeps, DrawUpReplies
    <3>4. Pending' = {}
      BY <2>3, <2>5 DEF Pending
    <3>5. Reply!Answer(Node(a))
      BY <2>4, <3>2, <3>3, <3>4 DEF Reply!Answer, Reply!DrawUp, AskedAll, Pending
    <3> QED BY <2>4, <3>5 DEF Reply!ReplyStep, Pending
  <2>6. CASE targets' # {} \/ ~once
    <3>1. UNCHANGED <<once, late, result>>
      BY <1>2, <2>1, <2>6 DEF OnResults, Counted, RestTargets, AllAnswered, PostProcess,
         HeedsOnce, collectVars
    <3>2. ReplyState' = ReplyState /\ NodesOf(result)' = NodesOf(result)
      BY <2>1, <2>3, <3>1 DEF ReplyState, NodesOf, Node
    <3>3. Reply!Answer(Node(a))
      BY <2>4, <3>2 DEF Reply!Answer, AskedAll, Pending
    <3> QED BY <2>4, <3>3 DEF Reply!ReplyStep, Pending
  <2> QED BY <2>5, <2>6
<1> QED BY <1>1, <1>2

\* The steps that RequestReply does not see.
LEMMA OthersReply ==
  ASSUME Structure,
         \/ Refuse \/ Post
         \/ \E outcome \in {"resolved", "rejected"} : Finish(outcome)
         \/ \E a \in BusResponses : PostResponse(a)
  PROVE  UNCHANGED Reply!replyVars
<1>1. CASE Refuse
  <2>1. responses = {} /\ responses' = {} /\ phase = "new" /\ phase' = "refused"
    BY <1>1 DEF Structure, Stages, Refuse
  <2> QED BY <1>1, <2>1 DEF Refuse, collectVars, Reply!replyVars, LocalAsked, ReplyState,
             NodesOf, Node
<1>2. CASE Post
  BY <1>2 DEF Post, collectVars, Reply!replyVars, LocalAsked, ReplyState, NodesOf, Node
<1>3. ASSUME NEW outcome \in {"resolved", "rejected"}, Finish(outcome)
      PROVE  UNCHANGED Reply!replyVars
  BY <1>3 DEF Finish, collectVars, Reply!replyVars, LocalAsked, ReplyState, NodesOf, Node
<1>4. ASSUME NEW a \in BusResponses, PostResponse(a)
      PROVE  UNCHANGED Reply!replyVars
  BY <1>4, QuietStep DEF PostResponse, sendVars, collectVars
<1> QED BY <1>1, <1>2, <1>3, <1>4

LEMMA StepReplies ==
  Structure /\ [RequestStep]_requestVars => [Reply!ReplyStep]_(Reply!replyVars)
<1> SUFFICES ASSUME Structure, [RequestStep]_requestVars
             PROVE  [Reply!ReplyStep]_(Reply!replyVars)
  OBVIOUS
<1>1. CASE UNCHANGED requestVars
  BY <1>1, QuietStep DEF requestVars, sendVars, collectVars
<1> QED BY <1>1, SendReplies, BeforeSendReplies, NothingToAskReplies, TimeoutReplies,
        OnResultsReplies, OthersReply DEF RequestStep

\* A request keeps what RequestReply promises.
THEOREM RequestImplementsReply == RequestSpec => ImplementsReply
<1> QED BY InitReplies, RequestStructure, StepReplies, PTL
        DEF RequestSpec, ImplementsReply, Reply!ReplySpec
=============================================================================
