---------------------------- MODULE RequestReply ----------------------------
(***************************************************************************)
(* What the sender of a message may rely on, whatever the bus loses,       *)
(* repeats or delays: a set of nodes is asked, each of them is taken off   *)
(* the list of the pending at most once, and the result is drawn up once,  *)
(* from nodes that are no longer pending - when nobody is pending, or when *)
(* the sender gives up.                                                    *)
(***************************************************************************)
EXTENDS FiniteSets

CONSTANT Asked     \* who may be asked

VARIABLES asked, pending, state, result

replyVars == <<asked, pending, state, result>>

ReplyInit == asked = {} /\ pending = {} /\ state = "idle" /\ result = {}

Ask(nodes) ==
  /\ state = "idle"
  /\ asked' = nodes /\ pending' = nodes
  /\ state' = "open"
  /\ UNCHANGED result

DrawUp == result' \in SUBSET (asked \ pending')

\* The answer of n comes.  When it is the last one the result is drawn up,
\* unless the sender has given up before; it may also do so a little later.
Answer(n) ==
  /\ n \in pending
  /\ pending' = pending \ {n}
  /\ UNCHANGED asked
  /\ \/ UNCHANGED <<state, result>>
     \/ state = "open" /\ pending' = {} /\ state' = "complete" /\ DrawUp

Close ==
  /\ state = "open" /\ pending = {}
  /\ state' = "complete"
  /\ DrawUp
  /\ UNCHANGED <<asked, pending>>

GiveUp ==
  /\ state = "open"
  /\ state' = "late"
  /\ DrawUp
  /\ UNCHANGED <<asked, pending>>

ReplyStep ==
  \/ \E nodes \in SUBSET Asked : Ask(nodes)
  \/ \E n \in pending : Answer(n)
  \/ Close
  \/ GiveUp

ReplySpec == ReplyInit /\ [][ReplyStep]_replyVars
=============================================================================
