------------------------- MODULE MCDistributedQuery -------------------------
EXTENDS DistributedQuery, TLC

CONSTANTS p1, p2, p3, n1, n2, n3

\* The sender and two others, the last of which bars the sender.
Trio == p1 :> n1 @@ p2 :> n2 @@ p3 :> n3
QueryOptions ==
  {o \in Options : (o.detectTargets => o.targetIds = {}) /\ ~o.waitIfNoTarget}
=============================================================================
