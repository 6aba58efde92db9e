------------------------------ MODULE TaskPlan ------------------------------
(***************************************************************************)
(* What a caller of TaskRunner may rely on, without the lists of numbers   *)
(* and the cascades of events the class is built from: runs form a forest  *)
(* in which a run begins after the runs below it have ended, at most Limit *)
(* of them are under way, each begins and ends at most once, and the       *)
(* forest grows by trees of its own, only while some run is under way.     *)
(***************************************************************************)
EXTENDS Integers, FiniteSets

CONSTANT Limit       \* how many runs may be under way at once

VARIABLES size,      \* runs 1..size exist
          above,     \* above[r]: the run that waits for r, or 0
          begun,     \* the runs that have begun
          ended      \* the runs that have ended

planVars == <<size, above, begun, ended>>

Below(r) == {c \in 1..size : above[c] = r}
UnderWay == begun \ ended

PlanInit == begun = {} /\ ended = {}

Begin(r) ==
  /\ r \notin begun
  /\ Below(r) \subseteq ended
  /\ Cardinality(UnderWay) < Limit
  /\ begun' = begun \cup {r}
  /\ UNCHANGED <<size, above, ended>>

End(r) ==
  /\ r \in UnderWay
  /\ ended' = ended \cup {r}
  /\ UNCHANGED <<size, above, begun>>

Grow ==
  /\ UnderWay # {}
  /\ size' > size
  /\ \A c \in 1..size : above'[c] = above[c]
  /\ \A c \in (size + 1)..size' : above'[c] \notin 1..size
  /\ UNCHANGED <<begun, ended>>

PlanStep ==
  \/ \E r \in 1..size : Begin(r) \/ End(r)
  \/ Grow

PlanSpec == PlanInit /\ [][PlanStep]_planVars
=============================================================================
