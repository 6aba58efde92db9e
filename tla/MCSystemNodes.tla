---------------------------- MODULE MCSystemNodes ----------------------------
EXTENDS SystemNodes, TLC

CONSTANTS p1, p2, p3, n1, n2

\* A process, the one that takes its place, and one of another node.
Successor == p1 :> n1 @@ p2 :> n1 @@ p3 :> n2

\* Three instances of one node.
Instances == p1 :> n1 @@ p2 :> n1 @@ p3 :> n1
=============================================================================
