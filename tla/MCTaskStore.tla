----------------------------- MODULE MCTaskStore -----------------------------
EXTENDS TaskStore, TLC

CONSTANTS m1, m2, r1, r2

\* A run with events enough to take all slots, and one that goes on beside it.
LongAndShort == r1 :> 3 @@ r2 :> 1
Later == m1 :> {} @@ m2 :> {r2}
=============================================================================
