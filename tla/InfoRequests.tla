---------------------------- MODULE InfoRequests ----------------------------
(***************************************************************************)
(* getNodeInfos() of System, with SystemInfoRequest: a process asks the    *)
(* others on its list for their runtime infos and takes what comes within  *)
(* five seconds.                                                           *)
(*                                                                         *)
(* Calls of it may overlap.  An answer names the node that asked but not   *)
(* the call, so every call that listens takes it, also one that comes when *)
(* the call it was meant for is over.  Other nodes stop and crash; whom of *)
(* them this process still lists is the matter of module SystemNodes.      *)
(***************************************************************************)
EXTENDS Naturals, Sequences, FiniteSets, SequencesExt

CONSTANTS
  Peers,      \* the other nodes
  InfoCalls   \* calls of getNodeInfos(), each once

VARIABLES
  alive,      \* the other nodes that answer
  infoCall,   \* infoCall[c]: how far it is, whom it asked, still waits for, and has heard
  asks,       \* requests on their way: [of, to]
  answers     \* answers on their way, by the node they are from

infoVars == <<alive, infoCall, asks, answers>>

\* SystemInfoRequest; targetIds that were never set are NoTargets.
NoTargets == {"none"}
NewRequest == [at |-> "new", asked |-> {}, targetIds |-> NoTargets, responses |-> <<>>,
               results |-> <<>>, late |-> FALSE]

InitInfos ==
  /\ alive = Peers
  /\ infoCall = [c \in InfoCalls |-> NewRequest]
  /\ asks = {} /\ answers = {}

-----------------------------------------------------------------------------
(* The other nodes *)

\* What is on its way to a node that stops is lost; its answers are not.
Stops(n) ==
  /\ n \in alive /\ alive' = alive \ {n}
  /\ asks' = {a \in asks : a.to # n}
  /\ UNCHANGED <<infoCall, answers>>

\* onInfoRequest: only who is among the targets answers, at once.
OnInfoRequest(a) ==
  /\ a \in asks /\ asks' = asks \ {a}
  /\ answers' = IF a.to \in infoCall[a.of].asked THEN answers \cup {a.to} ELSE answers
  /\ UNCHANGED <<alive, infoCall>>

-----------------------------------------------------------------------------
(* The calls *)

\* run() asks those that are listed.  Targets that are given are not taken over, so that
\* nobody answers.  register() is awaited before ready(): a call whose last answer comes
\* in between has its results, too, but returns them only when its time is over.
RunRequest(c, targets) ==
  /\ infoCall[c].at = "new"
  /\ infoCall' = [infoCall EXCEPT ![c].at = "ready", ![c].asked = targets,
                                  ![c].targetIds = targets]
  /\ asks' = asks \cup {[of |-> c, to |-> n] : n \in alive}
  /\ UNCHANGED <<alive, answers>>

\* postProcess: what has been heard so far.
PostProcessInfos(r) == [r EXCEPT !.at = "finished", !.results = r.responses]

\* Slip: a node whose answer was taken is waited for again.
WaitsOn(targetIds, from) == IF Cardinality(targetIds) = 1 THEN targetIds \ {from} ELSE targetIds
StillWaits(targetIds, from) == targetIds \ {from}

\* onResults of one request; without targets it throws, which the bus logs.
TakesInfo(r, from) ==
  IF r.at # "ready" \/ from \notin r.targetIds THEN r
  ELSE LET s == [r EXCEPT !.targetIds = StillWaits(@, from), !.responses = Append(@, from)]
       IN IF s.targetIds = {} THEN PostProcessInfos(s) ELSE s

\* The bus hands an answer to all that listen; a node with two processes answers twice.
OnResults(from, again) ==
  /\ from \in answers
  /\ answers' = IF again THEN answers ELSE answers \ {from}
  /\ infoCall' = [c \in InfoCalls |-> TakesInfo(infoCall[c], from)]
  /\ UNCHANGED <<alive, asks>>

\* ready: after the timeout
RequestTimeout(c) ==
  /\ infoCall[c].at = "ready"
  /\ infoCall' = [infoCall EXCEPT ![c] = [PostProcessInfos(@) EXCEPT !.late = TRUE]]
  /\ UNCHANGED <<alive, asks, answers>>

NextInfos ==
  \/ \E n \in Peers : Stops(n)
  \/ \E a \in asks : OnInfoRequest(a)
  \/ \E c \in InfoCalls :
       RequestTimeout(c) \/ \E targets \in {NoTargets} \cup SUBSET Peers : RunRequest(c, targets)
  \/ \E from \in answers, again \in BOOLEAN : OnResults(from, again)

SpecInfos == InitInfos /\ [][NextInfos]_infoVars

-----------------------------------------------------------------------------

\* However the answers to overlapping calls mix, and whoever stops meanwhile, a call that
\* ends brings one info of each node that was on the list when it began, and of no other;
\* some are missing only if the time was over.
InfosOncePerNode ==
  \A c \in InfoCalls : infoCall[c].at = "finished" =>
    LET r == infoCall[c]  from == ToSet(r.results)
    IN /\ Len(r.results) = Cardinality(from)
       /\ from \subseteq r.asked
       /\ from = r.asked \/ r.late
=============================================================================
