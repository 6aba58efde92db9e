----------------------------- MODULE SystemNodes -----------------------------
(***************************************************************************)
(* System (libs/system/System.ts): how the processes of a cluster find     *)
(* each other.  Each keeps a list of the others, which it learns from the  *)
(* SystemNodeInfos they post, and all keep the table of SystemNodeInfo in  *)
(* the storage they share, from which a process that starts picks its      *)
(* instance number.                                                        *)
(*                                                                         *)
(* The bus (commons-eventbus, not in the repository) is taken for one that *)
(* hands every post to those that are subscribed, in the order of the      *)
(* posts, as an emitter and a Redis server do.  onNodeInfo() holds the     *)
(* semaphore of the process, so infos are handled in the order they come   *)
(* in; between its two awaits, of the bus and of the storage, other        *)
(* processes go on.  All processes of a node run on one host.              *)
(*                                                                         *)
(* An operator whose comment begins with "Slip:" is not part of the model: *)
(* it is the definition below it with a plausible mistake.                 *)
(***************************************************************************)
EXTENDS Integers, Sequences, FiniteSets

CONSTANTS
  Procs,      \* the processes that may be started, each once
  Nodes,      \* node ids
  NodeOf,     \* the node id each process is configured with
  Overlap,    \* which other processes of its node may be there when one starts
  Leaving,    \* the processes that may be shut down
  Crashing,   \* the processes that may crash
  Window      \* bound: answers a process gives while it registers

ASSUME SystemAssumption ==
  /\ IsFiniteSet(Procs)
  /\ NodeOf \in [Procs -> Nodes]
  /\ Overlap \in {"none", "started", "any"}
  /\ Leaving \subseteq Procs /\ Crashing \subseteq Procs
  /\ Window \in Nat

VARIABLES
  life,     \* how far a process is; node.state follows from it
  instNr,
  nodes,    \* nodes[p]: what p knows of the others
  line,     \* line[p]: infos that have come to p, the one to handle next first
  storing,  \* storing[p]: what the onNodeInfo() under way is still to store
  row,      \* row[n]: the instance number in the row with the key of node n
  replied   \* replied[p]: answers given so far while registering

vars == <<life, instNr, nodes, line, storing, row, replied>>

Lives == {"new", "startup", "subscribed", "announced", "idle", "leaving",
          "left", "gone", "crashed"}
Subscribed == {"subscribed", "announced", "idle", "leaving"}
Present == {"announced", "idle"}
Over == {"gone", "crashed"}

\* The number before 0, so that a process without a row takes 0.
NoRow == -1
Identities == [by : Procs, instNr : Nat]
Infos == [by : Procs, instNr : Nat, state : {"register", "idle", "unregister"}]
Chores == [op : {"none", "save", "remove"}, by : Procs, instNr : Nat]

Info(p, state) == [by |-> p, instNr |-> instNr[p], state |-> state]
Chore(op, i) == [op |-> op, by |-> i.by, instNr |-> i.instNr]
NoChore(p) == [op |-> "none", by |-> p, instNr |-> 0]

TypeOK ==
  /\ life \in [Procs -> Lives]
  /\ instNr \in [Procs -> Nat]
  /\ nodes \in [Procs -> SUBSET Identities]
  /\ line \in [Procs -> Seq(Infos)]
  /\ storing \in [Procs -> Chores]
  /\ row \in [Nodes -> Nat \cup {NoRow}]
  /\ replied \in [Procs -> 0..Window]

Init ==
  /\ life = [p \in Procs |-> "new"]
  /\ instNr = [p \in Procs |-> 0]
  /\ nodes = [p \in Procs |-> {}]
  /\ line = [p \in Procs |-> <<>>]
  /\ storing = [p \in Procs |-> NoChore(p)]
  /\ row = [n \in Nodes |-> NoRow]
  /\ replied = [p \in Procs |-> 0]

EqNode(a, b) == NodeOf[a.by] = NodeOf[b.by] /\ a.instNr = b.instNr

Identity(i) == [by |-> i.by, instNr |-> i.instNr]
Me(p) == [by |-> p, instNr |-> instNr[p]]
Known(p, i) == \E e \in nodes[p] : EqNode(e, i)

Hears(p, i) == life[p] \in Subscribed /\ ~EqNode(Me(p), i)

Posted(lines, i) ==
  [p \in Procs |-> IF Hears(p, i) THEN Append(lines[p], i) ELSE lines[p]]

-----------------------------------------------------------------------------
(* initialize, register, idle, unregister *)

MayStart(p) ==
  \A q \in Procs \ {p} : NodeOf[q] = NodeOf[p] =>
    \/ Overlap = "any"
    \/ Overlap = "started" /\ life[q] \in {"new", "idle"} \cup Over
    \/ Overlap = "none" /\ life[q] \in {"new"} \cup Over

\* The key is made of the default number 0, not of this one, so that all
\* processes of a node share a row, and the greatest number is that of the row.
NextNr(p) == row[NodeOf[p]] + 1

Initialize(p) ==
  /\ life[p] = "new" /\ MayStart(p)
  /\ life' = [life EXCEPT ![p] = "startup"]
  /\ instNr' = [instNr EXCEPT ![p] = NextNr(p)]
  /\ UNCHANGED <<nodes, line, storing, row, replied>>

\* register(): from here on the process hears the others, ...
Subscribe(p) ==
  /\ life[p] = "startup"
  /\ life' = [life EXCEPT ![p] = "subscribed"]
  /\ UNCHANGED <<instNr, nodes, line, storing, row, replied>>

\* ... they hear of it, ...
Announce(p) ==
  /\ life[p] = "subscribed"
  /\ life' = [life EXCEPT ![p] = "announced"]
  /\ line' = Posted(line, Info(p, "register"))
  /\ UNCHANGED <<instNr, nodes, storing, row, replied>>

\* ... and it saves itself.
Idle(p) ==
  /\ life[p] = "announced"
  /\ life' = [life EXCEPT ![p] = "idle"]
  /\ row' = [row EXCEPT ![NodeOf[p]] = instNr[p]]
  /\ UNCHANGED <<instNr, nodes, line, storing, replied>>

\* unregister(): the row goes by its key, ...
Leave(p) ==
  /\ p \in Leaving /\ life[p] = "idle"
  /\ life' = [life EXCEPT ![p] = "leaving"]
  /\ row' = [row EXCEPT ![NodeOf[p]] = NoRow]
  /\ UNCHANGED <<instNr, nodes, line, storing, replied>>

\* ... and the others are told.  Infos the bus has not handed out yet do not
\* reach the process any more.
Unregister(p) ==
  /\ life[p] = "leaving"
  /\ life' = [life EXCEPT ![p] = "left"]
  /\ \E k \in 0..Len(line[p]) :
       line' = [Posted(line, Info(p, "unregister"))
                  EXCEPT ![p] = SubSeq(line[p], 1, k)]
  /\ UNCHANGED <<instNr, nodes, storing, row, replied>>

End(p, how) ==
  /\ life' = [life EXCEPT ![p] = how]
  /\ line' = [line EXCEPT ![p] = <<>>]
  /\ storing' = [storing EXCEPT ![p] = NoChore(p)]
  /\ UNCHANGED <<instNr, nodes, row, replied>>

Exit(p) == life[p] = "left" /\ End(p, "gone")

Crash(p) == p \in Crashing /\ life[p] \in Subscribed /\ End(p, "crashed")

-----------------------------------------------------------------------------
(* onNodeInfo *)

State(p) ==
  IF life[p] \in {"subscribed", "announced"} THEN "register"
  ELSE IF life[p] = "idle" THEN "idle" ELSE "unregister"

Welcome(p, i) == i.state = "register" \/ (i.state = "idle" /\ ~Known(p, i))

Added(p, i) == IF Known(p, i) THEN nodes[p] ELSE nodes[p] \cup {Identity(i)}

\* Slip: a process that is listed is not answered.
AnswersNew(p, i) == ~Known(p, i)
Answers(p, i) == TRUE

\* A process that is new, or registers, is listed, answered, and stored.
Admit(p) ==
  LET i == Head(line[p]) IN
  /\ line[p] # <<>> /\ storing[p].op = "none"
  /\ Welcome(p, i)
  /\ State(p) = "register" => replied[p] < Window
  /\ nodes' = [nodes EXCEPT ![p] = Added(p, i)]
  /\ line' = LET rest == [line EXCEPT ![p] = Tail(@)]
             IN IF Answers(p, i) THEN Posted(rest, Info(p, State(p))) ELSE rest
  /\ replied' = [replied EXCEPT ![p] = IF State(p) = "register" THEN @ + 1 ELSE @]
  /\ storing' = [storing EXCEPT ![p] = Chore("save", i)]
  /\ UNCHANGED <<life, instNr, row>>

Removed(p, i) == {e \in nodes[p] : EqNode(e, i)}

\* Slip: whoever is not to be listed is taken off the list.
LeavesToo(i) == i.state # "register"
Leaves(i) == i.state = "unregister"

\* A process that leaves is taken off the list; its row is removed if it was
\* on the list.
Dismiss(p) ==
  LET i == Head(line[p]) IN
  /\ line[p] # <<>> /\ storing[p].op = "none"
  /\ Leaves(i)
  /\ nodes' = [nodes EXCEPT ![p] = @ \ Removed(p, i)]
  /\ line' = [line EXCEPT ![p] = Tail(@)]
  /\ storing' = [storing EXCEPT ![p] =
                   IF Removed(p, i) = {} THEN @ ELSE Chore("remove", i)]
  /\ UNCHANGED <<life, instNr, row, replied>>

Ignore(p) ==
  LET i == Head(line[p]) IN
  /\ line[p] # <<>> /\ storing[p].op = "none"
  /\ i.state = "idle" /\ Known(p, i)
  /\ line' = [line EXCEPT ![p] = Tail(@)]
  /\ UNCHANGED <<life, instNr, nodes, storing, row, replied>>

\* Slip: the semaphore is not released when a process has been dismissed.
ReleasesAfterSave(c) == c.op = "save"
Releases(c) == TRUE

\* save() writes over the row with the same key.  Then release().
Store(p) ==
  LET c == storing[p] IN
  /\ c.op # "none"
  /\ row' = [row EXCEPT ![NodeOf[c.by]] = IF c.op = "save" THEN c.instNr ELSE NoRow]
  /\ storing' = [storing EXCEPT ![p] = IF Releases(c) THEN NoChore(p) ELSE @]
  /\ UNCHANGED <<life, instNr, nodes, line, replied>>

OnNodeInfo(p) == Admit(p) \/ Dismiss(p) \/ Ignore(p)

-----------------------------------------------------------------------------
Next ==
  \E p \in Procs :
    \/ Initialize(p) \/ Subscribe(p) \/ Announce(p) \/ Idle(p)
    \/ Leave(p) \/ Unregister(p) \/ Exit(p) \/ Crash(p)
    \/ OnNodeInfo(p) \/ Store(p)

\* A process that registers goes on, and handles what it gets.
Fairness ==
  \A p \in Procs :
    /\ WF_vars(Announce(p)) /\ WF_vars(Idle(p)) /\ WF_vars(Unregister(p))
    /\ WF_vars(OnNodeInfo(p)) /\ WF_vars(Store(p))

Spec == Init /\ [][Next]_vars /\ Fairness

-----------------------------------------------------------------------------
(* Properties *)

\* p has q in its list, or an entry it cannot tell from q, left there by a
\* process of the same node that has crashed.
Lists(p, q) ==
  \E e \in nodes[p] : EqNode(e, Me(q)) /\ (e.by = q \/ life[e.by] = "crashed")

\* When everything that was posted has been handled, the lists agree with who
\* is there: each process that has registered is in the list of each other,
\* and none of those that have left is.
QuietAgreement ==
  (\A p \in Procs : line[p] = <<>>) =>
    \A p \in Procs : life[p] \in Present =>
      /\ \A q \in Procs \ {p} : life[q] \in Present => Lists(p, q)
      /\ \A e \in nodes[p] : life[e.by] \notin {"left", "gone"}

\* No process is in a list twice, and none is in its own.
ListedOnce ==
  \A p \in Procs :
    /\ \A e, f \in nodes[p] : EqNode(e, f) => e = f
    /\ ~Known(p, Me(p))

\* Nobody is taken off a list who has not left, however late the infos of
\* an earlier process of the same node come.
DropsOnlyLeavers ==
  \A p \in Procs : \A e \in nodes[p] \ nodes'[p] :
    life[e.by] \in {"left", "gone", "crashed", "leaving"}

DroppedHaveLeft == [][DropsOnlyLeavers]_vars

\* Two processes that stay come to know each other.
ComeToKnow ==
  \A p, q \in Procs :
    p # q /\ life[p] \in Present /\ life[q] \in Present
      ~> Lists(p, q) \/ life[p] \notin Present \/ life[q] \notin Present

\* SystemNodeInfo.ts:33: "Instance number for multiple instance of same nodeId".
\* So two instances of a node that are there at the same time have two numbers.
\* The code does not keep it: TLC finds a counterexample (README, 5).
InstancesApart ==
  \A p, q \in Procs :
    /\ p # q /\ NodeOf[p] = NodeOf[q]
    /\ life[p] \in Subscribed /\ life[q] \in Subscribed
    => instNr[p] # instNr[q]
=============================================================================
