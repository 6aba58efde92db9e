----------------------------- MODULE MCMessages -----------------------------
EXTENDS Messages, TLC

CONSTANTS p1, p2, p3, n1, n2

\* The sender, and two processes that run under one node id.
Twins == p1 :> n1 @@ p2 :> n2 @@ p3 :> n2

\* A message that is sent with every option off, to the nodes it finds.
Plain ==
  [detectTargets |-> TRUE, targetIds |-> {}, skipLocal |-> FALSE,
   waitIfNoTarget |-> FALSE, filterErrors |-> FALSE, asResponses |-> FALSE]
To(nodes) == [Plain EXCEPT !.detectTargets = FALSE, !.targetIds = nodes]

\* To everybody; to everybody but the sender, waiting for unknown hosts; to the
\* own and another node, both over the bus and for the bare responses; to
\* another one, without errors.
SomeOptions ==
  {Plain,
   [Plain EXCEPT !.skipLocal = TRUE, !.waitIfNoTarget = TRUE],
   [To({n1, n2}) EXCEPT !.skipLocal = TRUE, !.asResponses = TRUE],
   [To({n2}) EXCEPT !.filterErrors = TRUE]}

\* The sender and one process elsewhere, with all combinations of options.
Pair == p1 :> n1 @@ p2 :> n2
AllOptions == {o \in Options : o.detectTargets => o.targetIds = {}}
=============================================================================
