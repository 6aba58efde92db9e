----------------------------- MODULE MCNodeTasks -----------------------------
EXTENDS NodeTasks, TLC

CONSTANTS p1, p2, p3, n1, n2, t1, t2

\* A process, the one that takes its place, and one of another node.
Successor == p1 :> n1 @@ p2 :> n1 @@ p3 :> n2
\* The first and its successor offer one task in common.
TaskOffers == p1 :> {t1} @@ p2 :> {t1, t2} @@ p3 :> {t1}
=============================================================================
