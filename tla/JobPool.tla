------------------------------ MODULE JobPool ------------------------------
(***************************************************************************)
(* What a caller of AsyncWorkerQueue may rely on, without the listeners,   *)
(* promises and counters the class is built from: jobs are numbered in the *)
(* order they were accepted, begin in that order, and at most Limit of     *)
(* them are begun and not ended at any time.                               *)
(***************************************************************************)
EXTENDS Integers, FiniteSets

CONSTANT Limit       \* how many jobs may run at once

VARIABLES accepted,  \* jobs 1..accepted have been accepted
          begun,     \* jobs 1..begun have begun
          ended      \* the jobs that have ended

poolVars == <<accepted, begun, ended>>

Busy == (1..begun) \ ended

PoolInit == accepted = 0 /\ begun = 0 /\ ended = {}

\* Accept one job; it may begin at once.
Accept ==
  /\ accepted' = accepted + 1
  /\ begun' \in begun..accepted'
  /\ begun' <= begun + 1
  /\ UNCHANGED ended

\* Begin the jobs next in line.
Begin ==
  /\ begun' \in (begun + 1)..accepted
  /\ UNCHANGED <<accepted, ended>>

\* A busy job ends; the job next in line may take its place.
End(j) ==
  /\ j \in Busy
  /\ ended' = ended \cup {j}
  /\ begun' \in begun..accepted
  /\ begun' <= begun + 1
  /\ UNCHANGED accepted

PoolStep ==
  /\ \/ Accept
     \/ Begin
     \/ \E j \in 1..begun : End(j)
  /\ Cardinality(Busy') <= Limit

PoolSpec == PoolInit /\ [][PoolStep]_poolVars
=============================================================================
