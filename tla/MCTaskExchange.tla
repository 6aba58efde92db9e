--------------------------- MODULE MCTaskExchange ---------------------------
EXTENDS TaskExchange, TLC

CONSTANTS p1, p2, n1, n2, n3

\* The sender, which has a worker, another worker, and a node that is listed
\* and gone.
Pair == p1 :> n1 @@ p2 :> n2
Detect == {[detectTargets |-> TRUE, targetIds |-> {}, skipLocal |-> FALSE,
            waitIfNoTarget |-> FALSE, filterErrors |-> FALSE, asResponses |-> FALSE]}

Plain == [by |-> "none", ids |-> {}, remote |-> FALSE, local |-> FALSE,
          skipCheck |-> FALSE, many |-> 1, waits |-> TRUE, helper |-> FALSE]
MCWishes ==
  {Plain,                                              \* wherever it may run
   [Plain EXCEPT !.remote = TRUE, !.many = 2, !.skipCheck = TRUE],   \* on two
   [Plain EXCEPT !.by = "id", !.ids = {n2}],           \* on this node
   [Plain EXCEPT !.by = "ids", !.remote = TRUE, !.waits = FALSE],    \* on all
   [Plain EXCEPT !.by = "id", !.ids = {n2}, !.helper = TRUE],
   [Plain EXCEPT !.local = TRUE]}

MCViews == {{}, {n1}, {n1, n2}, {n2, n3}}
=============================================================================
