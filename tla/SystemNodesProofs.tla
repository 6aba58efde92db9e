-------------------------- MODULE SystemNodesProofs --------------------------
(***************************************************************************)
(* Theorems about SystemNodes and NodeTasks, for any number of processes,  *)
(* nodes, tasks and workers.  The inductive invariant of the lists is      *)
(* Structure; that nobody is dropped who is there needs the order of the   *)
(* infos in a line, and that a process starts only when the others of its  *)
(* node are over.                                                          *)
(*                                                                         *)
(* Agreement says what must be on its way for the lists to agree once all  *)
(* is quiet: the unregister info of whoever is listed and has left         *)
(* (Departures), and a register info of whoever is there and is not listed *)
(* (Returns).  Catalogue is its like for NodeTasks: whoever is listed had  *)
(* its tasks learnt, and no run is listed of a process that another one of *)
(* its node has replaced.                                                  *)
(***************************************************************************)
EXTENDS NodeTasks, TLAPS

Fresh == {"new", "startup"}
Leavers == {"left", "gone", "crashed", "leaving"}
Active == {"startup", "left"} \cup Subscribed

\* A process that has not subscribed has heard nothing, and one that is over
\* has nothing left to handle.
Unheard ==
  \A p \in Procs :
    /\ life[p] \in Fresh \cup Over => line[p] = <<>>
    /\ life[p] \in Fresh => nodes[p] = {}

\* What stands in a line was posted by another process, which had subscribed
\* and, if it says so, had begun to leave.
Posts ==
  \A p \in Procs : \A i \in 1..Len(line[p]) :
    /\ life[line[p][i].by] \notin Fresh
    /\ ~EqNode(Me(p), line[p][i])
    /\ line[p][i].state = "unregister" => life[line[p][i].by] \in Leavers

\* What is listed was posted by another process, and is listed once.
Listed ==
  \A p \in Procs :
    /\ \A e \in nodes[p] : life[e.by] \notin Fresh /\ ~EqNode(e, Me(p))
    /\ \A e, f \in nodes[p] : EqNode(e, f) => e = f

Structure == TypeOK /\ Unheard /\ Posts /\ Listed

\* One process of a node at a time ...
Alone ==
  \A p, q \in Procs :
    p # q /\ NodeOf[p] = NodeOf[q] /\ life[p] \in Active
      => life[q] \in {"new"} \cup Over

\* ... so that nothing from an earlier one comes after what the present one
\* has posted, be it in the line or in the list already.
InOrder ==
  \A p, c \in Procs :
    life[c] \in Active =>
      /\ \A i, j \in 1..Len(line[p]) :
           i < j /\ line[p][i].by = c /\ NodeOf[line[p][j].by] = NodeOf[c]
             => line[p][j].by = c
      /\ \A e \in nodes[p] : \A j \in 1..Len(line[p]) :
           e.by = c /\ NodeOf[line[p][j].by] = NodeOf[c] => line[p][j].by = c

-----------------------------------------------------------------------------
(* What a step does to a line and to a list *)

\* t is what is left of s when d infos have been taken from its head, and
\* perhaps some from its end.
Remains(s, t, d) ==
  /\ d \in Nat /\ Len(t) + d <= Len(s)
  /\ \A i \in 1..Len(t) : t[i] = s[i + d]

\* An info x that p posts reaches q.
Reaches(q, x) ==
  /\ x \in Infos
  /\ life[q] \in Subscribed
  /\ x.by # q /\ ~EqNode(Me(q), x)
  /\ life[x.by] \in Subscribed \cup {"left"}
  /\ x.state = "unregister" => life'[x.by] \in Leavers

LineMoves(q) ==
  \/ \E d \in Nat : Remains(line[q], line'[q], d)
  \/ \E x \in Infos : Reaches(q, x) /\ line'[q] = Append(line[q], x)

Lists1(q) ==
  /\ line[q] # <<>> /\ Remains(line[q], line'[q], 1)
  /\ ~Known(q, Head(line[q]))
  /\ nodes'[q] = nodes[q] \cup {Identity(Head(line[q]))}

LifeMoves(q) ==
  /\ life[q] \notin Fresh => life'[q] \notin Fresh /\ instNr'[q] = instNr[q]
  /\ life[q] \in Leavers => life'[q] \in Leavers
  /\ life'[q] \in Active => life[q] \in Active \cup {"new"}
  /\ life'[q] \in Fresh => life[q] \in Fresh
  /\ life[q] # "new" => instNr'[q] = instNr[q]

Moves ==
  \A q \in Procs :
    LifeMoves(q) /\ LineMoves(q) /\ (nodes'[q] \subseteq nodes[q] \/ Lists1(q))

LEMMA RemainsSame ==
  ASSUME NEW s \in Seq(Infos)
  PROVE  Remains(s, s, 0) /\ Remains(s, <<>>, 0)
BY DEF Remains

LEMMA RemainsTail ==
  ASSUME NEW s \in Seq(Infos), s # <<>>
  PROVE  Remains(s, Tail(s), 1) /\ Head(s) = s[1] /\ Head(s) \in Infos /\ 1 \in 1..Len(s)
BY DEF Remains

LEMMA RemainsPrefix ==
  ASSUME NEW s \in Seq(Infos), NEW k \in 0..Len(s)
  PROVE  Remains(s, SubSeq(s, 1, k), 0) /\ SubSeq(s, 1, k) \in Seq(Infos)
BY DEF Remains

\* What a process says of itself.
LEMMA OwnInfo ==
  ASSUME TypeOK, NEW p \in Procs, NEW s \in {"register", "idle", "unregister"}
  PROVE  /\ Info(p, s) \in Infos /\ Info(p, s).by = p /\ Info(p, s).state = s
         /\ EqNode(Me(p), Info(p, s))
BY DEF TypeOK, Info, Infos, EqNode, Me

\* A post leaves the lines sequences of infos, and the poster's as it is.
LEMMA PostedLines ==
  ASSUME TypeOK, NEW ls \in [Procs -> Seq(Infos)], NEW p \in Procs,
         NEW s \in {"register", "idle", "unregister"}
  PROVE  /\ Posted(ls, Info(p, s)) \in [Procs -> Seq(Infos)]
         /\ Posted(ls, Info(p, s))[p] = ls[p]
         /\ \A q \in Procs \ {p} :
              \/ Posted(ls, Info(p, s))[q] = ls[q]
              \/ /\ Hears(q, Info(p, s))
                 /\ Posted(ls, Info(p, s))[q] = Append(ls[q], Info(p, s))
<1>1. Info(p, s) \in Infos /\ ~Hears(p, Info(p, s))
  BY OwnInfo DEF Hears
<1>2. \A q \in Procs : Append(ls[q], Info(p, s)) \in Seq(Infos)
  BY <1>1
<1> QED
  BY <1>1, <1>2 DEF Posted

-----------------------------------------------------------------------------
(* TypeOK *)

LEMMA TypeStep ==
  ASSUME TypeOK, [Next]_vars
  PROVE  TypeOK'
<1> USE SystemAssumption
<1>1. CASE UNCHANGED vars
  BY <1>1 DEF TypeOK, vars
<1>2. ASSUME NEW p \in Procs, Initialize(p)
      PROVE  TypeOK'
  <2>1. NextNr(p) \in Nat
    <3>1. NodeOf[p] \in Nodes
      BY SystemAssumption
    <3>2. row[NodeOf[p]] \in Nat \/ row[NodeOf[p]] = -1
      BY <3>1 DEF TypeOK, NoRow
    <3> QED
      BY <3>2 DEF NextNr
  <2> QED
    BY <1>2, <2>1 DEF Initialize, TypeOK, Lives
<1>3. ASSUME NEW p \in Procs, Subscribe(p)
      PROVE  TypeOK'
  BY <1>3 DEF Subscribe, TypeOK, Lives
<1>4. ASSUME NEW p \in Procs, Announce(p)
      PROVE  TypeOK'
  <2>1. line \in [Procs -> Seq(Infos)]
    BY DEF TypeOK
  <2>2. line' \in [Procs -> Seq(Infos)]
    BY <1>4, <2>1, PostedLines DEF Announce
  <2> QED
    BY <1>4, <2>2 DEF Announce, TypeOK, Lives
<1>5. ASSUME NEW p \in Procs, Idle(p)
      PROVE  TypeOK'
  BY <1>5 DEF Idle, TypeOK, Lives
<1>6. ASSUME NEW p \in Procs, Leave(p)
      PROVE  TypeOK'
  BY <1>6 DEF Leave, TypeOK, Lives
<1>7. ASSUME NEW p \in Procs, Unregister(p)
      PROVE  TypeOK'
  <2>1. PICK k \in 0..Len(line[p]) :
          line' = [Posted(line, Info(p, "unregister"))
                     EXCEPT ![p] = SubSeq(line[p], 1, k)]
    BY <1>7 DEF Unregister
  <2>2. line \in [Procs -> Seq(Infos)] /\ line[p] \in Seq(Infos)
    BY DEF TypeOK
  <2>3. Posted(line, Info(p, "unregister")) \in [Procs -> Seq(Infos)]
    BY <2>2, PostedLines
  <2>4. SubSeq(line[p], 1, k) \in Seq(Infos)
    BY <2>2, RemainsPrefix
  <2>5. line' \in [Procs -> Seq(Infos)]
    BY <2>1, <2>3, <2>4
  <2> QED
    BY <1>7, <2>5 DEF Unregister, TypeOK, Lives
<1>8. ASSUME NEW p \in Procs, NEW how \in {"gone", "crashed"}, End(p, how)
      PROVE  TypeOK'
  <2>1. NoChore(p) \in Chores /\ how \in Lives
    BY DEF NoChore, Chores, Lives
  <2>2. line' \in [Procs -> Seq(Infos)]
    BY <1>8 DEF End, TypeOK
  <2> QED
    BY <1>8, <2>1, <2>2 DEF End, TypeOK
<1>9. ASSUME NEW p \in Procs, Admit(p)
      PROVE  TypeOK'
  <2> DEFINE i == Head(line[p])
             rest == [line EXCEPT ![p] = Tail(@)]
  <2>1. line[p] \in Seq(Infos) /\ line[p] # <<>> /\ i \in Infos
    BY <1>9, RemainsTail DEF TypeOK, Admit
  <2>2. rest \in [Procs -> Seq(Infos)]
    BY <2>1 DEF TypeOK
  <2>3. State(p) \in {"register", "idle", "unregister"}
    BY DEF State
  <2>4. line' = Posted(rest, Info(p, State(p)))
    BY <1>9 DEF Admit, Answers
  <2>5. line' \in [Procs -> Seq(Infos)]
    BY <2>2, <2>3, <2>4, PostedLines
  <2>6. Identity(i) \in Identities /\ Chore("save", i) \in Chores
    BY <2>1 DEF Identity, Identities, Chore, Chores, Infos
  <2>7. nodes' \in [Procs -> SUBSET Identities]
    BY <1>9, <2>6 DEF Admit, Added, TypeOK
  <2>8. replied' \in [Procs -> 0..Window]
    <3>1. State(p) = "register" => replied[p] + 1 \in 0..Window
      BY <1>9 DEF Admit, TypeOK
    <3> QED
      BY <1>9, <3>1 DEF Admit, TypeOK
  <2>9. storing' \in [Procs -> Chores]
    BY <1>9, <2>6 DEF Admit, TypeOK
  <2> QED
    BY <1>9, <2>5, <2>7, <2>8, <2>9 DEF Admit, TypeOK
<1>10. ASSUME NEW p \in Procs, Dismiss(p)
       PROVE  TypeOK'
  <2>1. line[p] \in Seq(Infos) /\ line[p] # <<>> /\ Head(line[p]) \in Infos
    BY <1>10, RemainsTail DEF TypeOK, Dismiss
  <2>2. line' \in [Procs -> Seq(Infos)]
    BY <1>10, <2>1 DEF Dismiss, TypeOK
  <2>3. Chore("remove", Head(line[p])) \in Chores
    BY <2>1 DEF Chore, Chores, Infos
  <2>4. storing' \in [Procs -> Chores]
    BY <1>10, <2>3 DEF Dismiss, TypeOK
  <2>5. nodes' \in [Procs -> SUBSET Identities]
    BY <1>10 DEF Dismiss, TypeOK
  <2> QED
    BY <1>10, <2>2, <2>4, <2>5 DEF Dismiss, TypeOK
<1>11. ASSUME NEW p \in Procs, Ignore(p)
       PROVE  TypeOK'
  BY <1>11 DEF Ignore, TypeOK
<1>12. ASSUME NEW p \in Procs, Store(p)
       PROVE  TypeOK'
  <2>1. NoChore(p) \in Chores
    BY DEF NoChore, Chores
  <2>2. storing[p].by \in Procs /\ storing[p].instNr \in Nat
    BY DEF TypeOK, Chores
  <2>3. row' \in [Nodes -> Nat \cup {NoRow}]
    BY <1>12, <2>2 DEF Store, TypeOK
  <2> QED
    BY <1>12, <2>1, <2>3 DEF Store, Releases, TypeOK
<1> QED
  BY <1>1, <1>2, <1>3, <1>4, <1>5, <1>6, <1>7, <1>8, <1>9, <1>10, <1>11, <1>12
  DEF Next, OnNodeInfo, Exit, Crash

-----------------------------------------------------------------------------
(* Every step moves lives, lines and lists in these ways *)

LEMMA LivesMove ==
  ASSUME TypeOK, [Next]_vars
  PROVE  \A q \in Procs : LifeMoves(q)
<1> USE DEF LifeMoves, Fresh, Leavers, Active, Subscribed
<1>1. CASE UNCHANGED vars
  BY <1>1 DEF vars
<1>2. ASSUME NEW p \in Procs, Initialize(p)
      PROVE  \A q \in Procs : LifeMoves(q)
  BY <1>2 DEF Initialize, TypeOK
<1>3. ASSUME NEW p \in Procs,
             Subscribe(p) \/ Announce(p) \/ Idle(p) \/ Leave(p) \/ Unregister(p)
      PROVE  \A q \in Procs : LifeMoves(q)
  BY <1>3 DEF Subscribe, Announce, Idle, Leave, Unregister, TypeOK
<1>4. ASSUME NEW p \in Procs, Exit(p) \/ Crash(p)
      PROVE  \A q \in Procs : LifeMoves(q)
  BY <1>4 DEF Exit, Crash, End, TypeOK
<1>5. ASSUME NEW p \in Procs, OnNodeInfo(p) \/ Store(p)
      PROVE  \A q \in Procs : LifeMoves(q)
  BY <1>5 DEF OnNodeInfo, Admit, Dismiss, Ignore, Store
<1> QED
  BY <1>1, <1>2, <1>3, <1>4, <1>5 DEF Next

\* A post of p that q hears reaches q.
LEMMA PostReaches ==
  ASSUME TypeOK, NEW p \in Procs, NEW q \in Procs \ {p},
         NEW s \in {"register", "idle", "unregister"},
         Hears(q, Info(p, s)), life[p] \in Subscribed \cup {"left"},
         s = "unregister" => life'[p] \in Leavers
  PROVE  Reaches(q, Info(p, s))
BY OwnInfo DEF Reaches, Hears

LEMMA LinesMove ==
  ASSUME TypeOK, Unheard, [Next]_vars
  PROVE  \A q \in Procs : LineMoves(q)
<1> SUFFICES ASSUME NEW q \in Procs
             PROVE  LineMoves(q)
  OBVIOUS
<1>s. line \in [Procs -> Seq(Infos)] /\ line[q] \in Seq(Infos)
  BY DEF TypeOK
<1>0. line'[q] = line[q] => LineMoves(q)
  BY <1>s, RemainsSame DEF LineMoves
<1>t. line[q] # <<>> /\ line'[q] = Tail(line[q]) => LineMoves(q)
  BY <1>s, RemainsTail DEF LineMoves
<1>1. CASE UNCHANGED vars
  BY <1>0, <1>1 DEF vars
<1>2. ASSUME NEW p \in Procs, Initialize(p) \/ Subscribe(p) \/ Idle(p) \/ Leave(p) \/ Store(p)
      PROVE  LineMoves(q)
  BY <1>0, <1>2 DEF Initialize, Subscribe, Idle, Leave, Store
<1>3. ASSUME NEW p \in Procs, Announce(p)
      PROVE  LineMoves(q)
  <2>1. line' = Posted(line, Info(p, "register")) /\ life[p] \in Subscribed
    BY <1>3 DEF Announce, Subscribed
  <2>2. CASE line'[q] = line[q]
    BY <1>0, <2>2
  <2>3. CASE /\ q # p /\ Hears(q, Info(p, "register"))
             /\ line'[q] = Append(line[q], Info(p, "register"))
    BY <2>1, <2>3, PostReaches, OwnInfo DEF LineMoves
  <2> QED
    BY <1>s, <2>1, <2>2, <2>3, PostedLines
<1>4. ASSUME NEW p \in Procs, Unregister(p)
      PROVE  LineMoves(q)
  <2>1. PICK k \in 0..Len(line[p]) :
          line' = [Posted(line, Info(p, "unregister"))
                     EXCEPT ![p] = SubSeq(line[p], 1, k)]
    BY <1>4 DEF Unregister
  <2>2. life[p] \in Subscribed /\ life'[p] \in Leavers
    BY <1>4 DEF Unregister, Subscribed, Leavers, TypeOK
  <2>3. Posted(line, Info(p, "unregister")) \in [Procs -> Seq(Infos)]
    BY <1>s, PostedLines
  <2>4. CASE q = p
    <3>1. line'[q] = SubSeq(line[q], 1, k) /\ k \in 0..Len(line[q])
      BY <2>1, <2>3, <2>4
    <3> QED
      BY <1>s, <3>1, RemainsPrefix DEF LineMoves
  <2>5. CASE q # p
    <3>1. line'[q] = Posted(line, Info(p, "unregister"))[q]
      BY <2>1, <2>3, <2>5
    <3>2. CASE line'[q] = line[q]
      BY <1>0, <3>2
    <3>3. CASE /\ Hears(q, Info(p, "unregister"))
               /\ line'[q] = Append(line[q], Info(p, "unregister"))
      BY <2>2, <2>5, <3>3, PostReaches, OwnInfo DEF LineMoves
    <3>4. \/ Posted(line, Info(p, "unregister"))[q] = line[q]
          \/ /\ Hears(q, Info(p, "unregister"))
             /\ Posted(line, Info(p, "unregister"))[q]
                   = Append(line[q], Info(p, "unregister"))
      BY <1>s, <2>5, PostedLines
    <3> QED
      BY <3>1, <3>2, <3>3, <3>4
  <2> QED
    BY <2>4, <2>5
<1>5. ASSUME NEW p \in Procs, Exit(p) \/ Crash(p)
      PROVE  LineMoves(q)
  <2>1. line'[q] = line[q] \/ line'[q] = <<>>
    BY <1>s, <1>5 DEF Exit, Crash, End
  <2> QED
    BY <1>s, <2>1, RemainsSame DEF LineMoves
<1>6. ASSUME NEW p \in Procs, Admit(p)
      PROVE  LineMoves(q)
  <2> DEFINE rest == [line EXCEPT ![p] = Tail(@)]
  <2>1. line[p] \in Seq(Infos) /\ line[p] # <<>>
    BY <1>6 DEF TypeOK, Admit
  <2>2. rest \in [Procs -> Seq(Infos)]
    BY <1>s, <2>1
  <2>3. State(p) \in {"register", "idle", "unregister"}
    BY DEF State
  <2>4. line' = Posted(rest, Info(p, State(p)))
    BY <1>6 DEF Admit, Answers
  <2>5. life[p] \in Subscribed \cup {"left"}
    BY <2>1 DEF TypeOK, Lives, Subscribed, Over, Unheard, Fresh
  <2>6. State(p) = "unregister" => life'[p] \in Leavers
    <3>1. life' = life
      BY <1>6 DEF Admit
    <3> QED
      BY <2>5, <3>1 DEF State, Leavers, Subscribed
  <2>7. CASE q = p
    <3>1. Posted(rest, Info(p, State(p)))[p] = rest[p]
      BY <2>2, <2>3, PostedLines, ZenonT(30)
    <3>2. line'[q] = Tail(line[q])
      BY <1>s, <2>4, <2>7, <3>1
    <3> QED
      BY <1>t, <2>1, <2>7, <3>2
  <2>8. CASE q # p
    <3>1. rest[q] = line[q]
      BY <1>s, <2>8
    <3>2. CASE line'[q] = line[q]
      BY <1>0, <3>2
    <3>3. CASE /\ Hears(q, Info(p, State(p)))
               /\ line'[q] = Append(line[q], Info(p, State(p)))
      <4>1. Reaches(q, Info(p, State(p)))
        BY <2>3, <2>5, <2>6, <2>8, <3>3, PostReaches
      <4>2. Info(p, State(p)) \in Infos
        BY <2>3, OwnInfo
      <4> QED
        BY <3>3, <4>1, <4>2 DEF LineMoves
    <3>4. q \in Procs \ {p}
      BY <2>8
    <3>5. line'[q] = Posted(rest, Info(p, State(p)))[q]
      BY <2>4
    <3> HIDE DEF rest
    <3>6. \A r \in Procs \ {p} :
            \/ Posted(rest, Info(p, State(p)))[r] = rest[r]
            \/ /\ Hears(r, Info(p, State(p)))
               /\ Posted(rest, Info(p, State(p)))[r]
                     = Append(rest[r], Info(p, State(p)))
      BY <2>2, <2>3, PostedLines, ZenonT(30)
    <3> QED
      BY <3>1, <3>2, <3>3, <3>4, <3>5, <3>6
  <2> QED
    BY <2>7, <2>8
<1>7. ASSUME NEW p \in Procs, Dismiss(p) \/ Ignore(p)
      PROVE  LineMoves(q)
  <2>1. line[p] # <<>> /\ line' = [line EXCEPT ![p] = Tail(@)]
    BY <1>7 DEF Dismiss, Ignore
  <2> QED
    BY <1>s, <1>0, <1>t, <2>1
<1> QED
  BY <1>1, <1>2, <1>3, <1>4, <1>5, <1>6, <1>7 DEF Next, OnNodeInfo

LEMMA ListsMove ==
  ASSUME TypeOK, [Next]_vars
  PROVE  \A q \in Procs : nodes'[q] \subseteq nodes[q] \/ Lists1(q)
<1> SUFFICES ASSUME NEW q \in Procs
             PROVE  nodes'[q] \subseteq nodes[q] \/ Lists1(q)
  OBVIOUS
<1>1. CASE UNCHANGED vars
  BY <1>1 DEF vars
<1>2. ASSUME NEW p \in Procs,
             \/ Initialize(p) \/ Subscribe(p) \/ Announce(p) \/ Idle(p)
             \/ Leave(p) \/ Unregister(p) \/ Exit(p) \/ Crash(p)
             \/ Ignore(p) \/ Store(p)
      PROVE  nodes' = nodes
  BY <1>2 DEF Initialize, Subscribe, Announce, Idle, Leave, Unregister, Exit,
              Crash, End, Ignore, Store
<1>3. ASSUME NEW p \in Procs, Dismiss(p)
      PROVE  nodes'[q] \subseteq nodes[q]
  BY <1>3 DEF Dismiss, TypeOK
<1>4. ASSUME NEW p \in Procs, Admit(p), q # p
      PROVE  nodes'[q] = nodes[q]
  BY <1>4 DEF Admit, TypeOK
<1>5. ASSUME Admit(q)
      PROVE  nodes'[q] \subseteq nodes[q] \/ Lists1(q)
  <2> DEFINE rest == [line EXCEPT ![q] = Tail(@)]
  <2>1. line[q] \in Seq(Infos) /\ line[q] # <<>> /\ line \in [Procs -> Seq(Infos)]
    BY <1>5 DEF TypeOK, Admit
  <2>2. rest \in [Procs -> Seq(Infos)] /\ rest[q] = Tail(line[q])
    BY <2>1
  <2>3. State(q) \in {"register", "idle", "unregister"}
    BY DEF State
  <2>4. line' = Posted(rest, Info(q, State(q)))
    BY <1>5 DEF Admit, Answers
  <2>5. line'[q] = Tail(line[q])
    <3>1. Posted(rest, Info(q, State(q)))[q] = rest[q]
      BY <2>2, <2>3, PostedLines
    <3> QED
      BY <2>2, <2>4, <3>1
  <2>6. Remains(line[q], line'[q], 1)
    BY <2>1, <2>5, RemainsTail
  <2>7. nodes'[q] = Added(q, Head(line[q]))
    BY <1>5 DEF Admit, TypeOK
  <2> QED
    BY <2>1, <2>6, <2>7 DEF Lists1, Added
<1> QED
  BY <1>1, <1>2, <1>3, <1>4, <1>5 DEF Next, OnNodeInfo

LEMMA StepMoves ==
  ASSUME TypeOK, Unheard, [Next]_vars
  PROVE  Moves
BY LivesMove, LinesMove, ListsMove DEF Moves

-----------------------------------------------------------------------------
(* Structure *)

LEMMA UnheardStep ==
  ASSUME TypeOK, Unheard, [Next]_vars
  PROVE  Unheard'
<1> SUFFICES ASSUME NEW q \in Procs
             PROVE  /\ life'[q] \in Fresh \cup Over => line'[q] = <<>>
                    /\ life'[q] \in Fresh => nodes'[q] = {}
  BY DEF Unheard
<1>m. LifeMoves(q) /\ LineMoves(q) /\ (nodes'[q] \subseteq nodes[q] \/ Lists1(q))
  BY StepMoves DEF Moves
<1>1. ASSUME life'[q] \in Fresh
      PROVE  line'[q] = <<>> /\ nodes'[q] = {}
  <2>1. line[q] = <<>> /\ nodes[q] = {} /\ life[q] \in Fresh
    BY <1>m, <1>1 DEF LifeMoves, Unheard
  <2>2. \E d \in Nat : Remains(line[q], line'[q], d)
    BY <1>m, <2>1 DEF LineMoves, Reaches, Fresh, Subscribed
  <2>3. line'[q] \in Seq(Infos)
    BY TypeStep DEF TypeOK
  <2>4. Len(line'[q]) = 0
    BY <2>1, <2>2, <2>3 DEF Remains
  <2> QED
    BY <1>m, <2>1, <2>3, <2>4 DEF Lists1
<1>2. ASSUME life'[q] \in Over
      PROVE  line'[q] = <<>>
  <2>1. CASE life[q] \in Over
    <3>1. line[q] = <<>>
      BY <2>1 DEF Unheard
    <3>2. \E d \in Nat : Remains(line[q], line'[q], d)
      BY <1>m, <2>1 DEF LineMoves, Reaches, Over, Subscribed
    <3>3. line'[q] \in Seq(Infos)
      BY TypeStep DEF TypeOK
    <3>4. Len(line'[q]) = 0
      BY <3>1, <3>2, <3>3 DEF Remains
    <3> QED
      BY <3>3, <3>4
  <2>2. CASE life[q] \notin Over
    <3>0. life'[q] # life[q]
      BY <1>2, <2>2
    <3>1. ASSUME NEW p \in Procs,
                 \/ Initialize(p) \/ Subscribe(p) \/ Announce(p)
                 \/ Idle(p) \/ Leave(p) \/ Unregister(p)
          PROVE  life'[q] \notin Over
      BY <2>2, <3>1 DEF Initialize, Subscribe, Announce, Idle, Leave, Unregister,
                        Over, TypeOK
    <3>2. ASSUME NEW p \in Procs, OnNodeInfo(p) \/ Store(p)
          PROVE  life' = life
      BY <3>2 DEF OnNodeInfo, Admit, Dismiss, Ignore, Store
    <3>3. ASSUME NEW p \in Procs, Exit(p) \/ Crash(p)
          PROVE  line'[q] = <<>>
      BY <2>2, <3>0, <3>3 DEF Exit, Crash, End, TypeOK
    <3>4. life' # life => \E p \in Procs :
            \/ Initialize(p) \/ Subscribe(p) \/ Announce(p) \/ Idle(p)
            \/ Leave(p) \/ Unregister(p) \/ Exit(p) \/ Crash(p)
            \/ OnNodeInfo(p) \/ Store(p)
      BY DEF Next, vars
    <3> QED
      BY <1>2, <3>0, <3>1, <3>2, <3>3, <3>4
  <2> QED
    BY <2>1, <2>2
<1> QED
  BY <1>1, <1>2

LEMMA PostsStep ==
  ASSUME TypeOK, TypeOK', Posts, Moves, Unheard
  PROVE  Posts'
<1> SUFFICES ASSUME NEW p \in Procs, NEW i \in 1..Len(line'[p])
             PROVE  /\ life'[line'[p][i].by] \notin Fresh
                    /\ ~(EqNode(Me(p), line[p][i]))'
                    /\ line'[p][i].state = "unregister" =>
                         life'[line'[p][i].by] \in Leavers
  BY DEF Posts
<1> DEFINE x == line'[p][i]
<1>1. line[p] \in Seq(Infos) /\ line'[p] \in Seq(Infos) /\ x \in Infos /\ x.by \in Procs
  <2>1. line[p] \in Seq(Infos) /\ line'[p] \in Seq(Infos)
    BY DEF TypeOK
  <2>2. x \in Infos
    BY <2>1
  <2> QED
    BY <2>1, <2>2 DEF Infos
<1>2. LifeMoves(p) /\ LifeMoves(x.by) /\ LineMoves(p)
  BY <1>1 DEF Moves
<1>3. CASE \E d \in Nat : Remains(line[p], line'[p], d)
  <2>1. PICK d \in Nat : Remains(line[p], line'[p], d)
    BY <1>3
  <2>2. i + d \in 1..Len(line[p]) /\ x = line[p][i + d]
    BY <1>1, <2>1 DEF Remains
  <2>3. /\ life[x.by] \notin Fresh /\ ~EqNode(Me(p), x)
        /\ x.state = "unregister" => life[x.by] \in Leavers
    BY <2>2 DEF Posts
  <2>4. life[p] \notin Fresh
    BY <1>1, <2>2 DEF Unheard
  <2>5. instNr'[p] = instNr[p]
    BY <1>2, <2>4 DEF LifeMoves
  <2> QED
    BY <1>2, <2>3, <2>5 DEF LifeMoves, EqNode, Me
<1>4. ASSUME NEW y \in Infos, Reaches(p, y), line'[p] = Append(line[p], y)
      PROVE  /\ life'[x.by] \notin Fresh
             /\ ~(EqNode(Me(p), line[p][i]))'
             /\ x.state = "unregister" => life'[x.by] \in Leavers
  <2>1. life[p] \notin Fresh
    BY <1>4 DEF Reaches, Subscribed, Fresh
  <2>2. instNr'[p] = instNr[p]
    BY <1>2, <2>1 DEF LifeMoves
  <2>3. CASE i = Len(line[p]) + 1
    <3>1. x = y
      BY <1>1, <1>4, <2>3
    <3>2. life[y.by] \notin Fresh
      BY <1>4 DEF Reaches, Subscribed, Fresh
    <3> QED
      BY <1>2, <1>4, <2>2, <3>1, <3>2 DEF LifeMoves, Reaches, EqNode, Me
  <2>4. CASE i \in 1..Len(line[p])
    <3>1. x = line[p][i]
      BY <1>1, <1>4, <2>4
    <3>2. /\ life[x.by] \notin Fresh /\ ~EqNode(Me(p), x)
          /\ x.state = "unregister" => life[x.by] \in Leavers
      BY <2>4, <3>1 DEF Posts
    <3> QED
      BY <1>2, <2>2, <3>2 DEF LifeMoves, EqNode, Me
  <2> QED
    BY <1>1, <1>4, <2>3, <2>4
<1> QED
  BY <1>2, <1>3, <1>4 DEF LineMoves

LEMMA ListedStep ==
  ASSUME TypeOK, TypeOK', Posts, Listed, Moves, Unheard
  PROVE  Listed'
<1> SUFFICES ASSUME NEW p \in Procs
             PROVE  /\ \A e \in nodes'[p] :
                         /\ life'[e.by] \notin Fresh
                         /\ ~(NodeOf[e.by] = NodeOf[p] /\ e.instNr = instNr'[p])
                    /\ \A e, f \in nodes'[p] : EqNode(e, f) => e = f
  BY DEF Listed, EqNode, Me
<1>1. /\ \A e \in nodes[p] : life[e.by] \notin Fresh /\ ~EqNode(e, Me(p))
      /\ \A e, f \in nodes[p] : EqNode(e, f) => e = f
  BY DEF Listed
<1>2. LifeMoves(p) /\ (nodes'[p] \subseteq nodes[p] \/ Lists1(p))
  BY DEF Moves
<1>3. \A e \in nodes[p] : e.by \in Procs
  BY DEF TypeOK, Identities
<1>4. \A e \in nodes[p] : life'[e.by] \notin Fresh
  BY <1>1, <1>3 DEF Moves, LifeMoves
<1>5. ASSUME nodes'[p] # {}
      PROVE  instNr'[p] = instNr[p]
  <2>1. life[p] \notin Fresh
    BY <1>2, <1>5 DEF Unheard, Lists1
  <2> QED
    BY <1>2, <2>1 DEF LifeMoves
<1>6. \A e \in nodes[p] :
        nodes'[p] # {} => ~(NodeOf[e.by] = NodeOf[p] /\ e.instNr = instNr'[p])
  BY <1>1, <1>5 DEF EqNode, Me
<1>7. CASE nodes'[p] \subseteq nodes[p]
  BY <1>1, <1>4, <1>6, <1>7
<1>8. CASE Lists1(p)
  <2> DEFINE h == Head(line[p])
             new == Identity(h)
  <2>1. h \in Infos /\ h = line[p][1] /\ 1 \in 1..Len(line[p]) /\ h.by \in Procs
    BY <1>8, RemainsTail DEF TypeOK, Lists1, Infos
  <2>2. life[h.by] \notin Fresh /\ ~EqNode(Me(p), h)
    BY <2>1 DEF Posts
  <2>3. new.by = h.by /\ new.instNr = h.instNr
    BY DEF Identity
  <2>4. life'[new.by] \notin Fresh
    BY <2>1, <2>2, <2>3 DEF Moves, LifeMoves
  <2>5. nodes'[p] = nodes[p] \cup {new}
    BY <1>8 DEF Lists1
  <2>6. ~(NodeOf[new.by] = NodeOf[p] /\ new.instNr = instNr'[p])
    BY <1>5, <2>2, <2>3, <2>5 DEF EqNode, Me
  <2>7. \A e \in nodes[p] : ~EqNode(e, new) /\ ~EqNode(new, e)
    BY <1>8, <2>3 DEF Lists1, Known, EqNode
  <2> QED
    BY <1>1, <1>4, <1>6, <2>4, <2>5, <2>6, <2>7
<1> QED
  BY <1>2, <1>7, <1>8

LEMMA StructureInit == Init => Structure
BY SystemAssumption
DEF Init, Structure, TypeOK, Unheard, Posts, Listed, Lives, NoChore, Chores, NoRow

LEMMA StructureStep ==
  ASSUME Structure, [Next]_vars
  PROVE  Structure' /\ Moves
<1>1. TypeOK' /\ Unheard' /\ Moves
  BY TypeStep, UnheardStep, StepMoves DEF Structure
<1> QED
  BY <1>1, PostsStep, ListedStep DEF Structure

\* The variables have their types.
THEOREM TypeCorrect == Spec => []TypeOK
<1>1. Structure => TypeOK
  BY DEF Structure
<1> QED
  BY StructureInit, StructureStep, <1>1, PTL DEF Spec

\* No process is in the list of another twice or in its own, however many run
\* under one node id: instances with equal numbers do not hear each other.
THEOREM AlwaysListedOnce == Spec => []ListedOnce
<1>1. Structure => ListedOnce
  BY DEF Structure, Listed, ListedOnce, Known
<1> QED
  BY StructureInit, StructureStep, <1>1, PTL DEF Spec

-----------------------------------------------------------------------------
(* Nobody is dropped who is there *)

LEMMA AloneStep ==
  ASSUME Overlap = "none", TypeOK, Alone, [Next]_vars
  PROVE  Alone'
<1> SUFFICES ASSUME NEW p \in Procs, NEW q \in Procs, p # q,
                    NodeOf[p] = NodeOf[q], life'[p] \in Active
             PROVE  life'[q] \in {"new"} \cup Over
  BY DEF Alone
<1>0. life[p] \in Active => life[q] \in {"new"} \cup Over
  BY DEF Alone
<1>1. CASE life' = life
  BY <1>0, <1>1
<1>2. ASSUME NEW r \in Procs, Initialize(r)
      PROVE  life'[q] \in {"new"} \cup Over
  <2>1. /\ \A x \in Procs \ {r} : life'[x] = life[x]
        /\ \A x \in Procs \ {r} :
             NodeOf[x] = NodeOf[r] => life[x] \in {"new"} \cup Over
    BY <1>2 DEF Initialize, MayStart, TypeOK
  <2>2. CASE r = p
    BY <2>1, <2>2
  <2>3. CASE r = q
    BY <2>1, <2>3 DEF Active, Subscribed, Over
  <2>4. CASE r # p /\ r # q
    BY <1>0, <2>1, <2>4
  <2> QED
    BY <2>2, <2>3, <2>4
<1>3. ASSUME NEW r \in Procs,
             \/ Subscribe(r) \/ Announce(r) \/ Idle(r) \/ Leave(r)
             \/ Unregister(r) \/ Exit(r) \/ Crash(r)
      PROVE  life'[q] \in {"new"} \cup Over
  <2>1. life[r] \in Active /\ \A x \in Procs \ {r} : life'[x] = life[x]
    BY <1>3 DEF Subscribe, Announce, Idle, Leave, Unregister, Exit, Crash, End,
                TypeOK, Active, Subscribed
  <2>2. life[p] \in Active
    BY <2>1
  <2>3. r # q
    BY <1>0, <2>1, <2>2 DEF Active, Subscribed, Over
  <2> QED
    BY <1>0, <2>1, <2>2, <2>3
<1>4. ASSUME NEW r \in Procs, OnNodeInfo(r) \/ Store(r)
      PROVE  life' = life
  BY <1>4 DEF OnNodeInfo, Admit, Dismiss, Ignore, Store
<1> QED
  BY <1>1, <1>2, <1>3, <1>4 DEF Next, vars

LEMMA InOrderStep ==
  ASSUME TypeOK, TypeOK', Posts, Listed, Alone, InOrder, Moves
  PROVE  InOrder'
<1> SUFFICES ASSUME NEW p \in Procs, NEW c \in Procs, life'[c] \in Active
             PROVE  /\ \A i, j \in 1..Len(line'[p]) :
                         /\ i < j /\ line'[p][i].by = c
                         /\ NodeOf[line'[p][j].by] = NodeOf[c]
                         => line'[p][j].by = c
                    /\ \A e \in nodes'[p] : \A j \in 1..Len(line'[p]) :
                         e.by = c /\ NodeOf[line'[p][j].by] = NodeOf[c]
                           => line'[p][j].by = c
  BY DEF InOrder
<1>1. line[p] \in Seq(Infos) /\ line'[p] \in Seq(Infos)
  BY DEF TypeOK
<1>2. LineMoves(p) /\ (nodes'[p] \subseteq nodes[p] \/ Lists1(p)) /\ LifeMoves(c)
  BY DEF Moves
<1>3. life[c] \in Active \cup {"new"}
  BY <1>2 DEF LifeMoves
\* The entry that is new in the list is that of the head.
<1>4. ASSUME NEW e \in nodes'[p]
      PROVE  \/ e \in nodes[p]
             \/ Lists1(p) /\ e.by = line[p][1].by /\ 1 \in 1..Len(line[p])
  BY <1>1, <1>2, RemainsTail DEF Lists1, Identity
<1>5. CASE life[c] = "new"
  <2>1. \A i \in 1..Len(line[p]) : line[p][i].by # c
    BY <1>5 DEF Posts, Fresh
  <2>2. \A e \in nodes[p] : e.by # c
    BY <1>5 DEF Listed, Fresh
  <2>3. \A i \in 1..Len(line'[p]) : line'[p][i].by # c
    <3>1. ASSUME NEW d \in Nat, Remains(line[p], line'[p], d)
          PROVE  \A i \in 1..Len(line'[p]) : line'[p][i].by # c
      <4>1. \A i \in 1..Len(line'[p]) :
              i + d \in 1..Len(line[p]) /\ line'[p][i] = line[p][i + d]
        BY <1>1, <3>1 DEF Remains
      <4> QED
        BY <2>1, <4>1
    <3>2. ASSUME NEW x \in Infos, Reaches(p, x), line'[p] = Append(line[p], x)
          PROVE  \A i \in 1..Len(line'[p]) : line'[p][i].by # c
      <4>1. x.by # c
        BY <1>5, <3>2 DEF Reaches, Subscribed
      <4> QED
        BY <1>1, <2>1, <3>2, <4>1
    <3> QED
      BY <1>2, <3>1, <3>2 DEF LineMoves
  <2>4. \A e \in nodes'[p] : e.by # c
    BY <1>4, <2>1, <2>2
  <2> QED
    BY <2>3, <2>4
<1>6. CASE life[c] \in Active
  <2>1. /\ \A i, j \in 1..Len(line[p]) :
             i < j /\ line[p][i].by = c /\ NodeOf[line[p][j].by] = NodeOf[c]
               => line[p][j].by = c
        /\ \A e \in nodes[p] : \A j \in 1..Len(line[p]) :
             e.by = c /\ NodeOf[line[p][j].by] = NodeOf[c] => line[p][j].by = c
    BY <1>6 DEF InOrder
  <2>2. ASSUME NEW d \in Nat, Remains(line[p], line'[p], d)
        PROVE  /\ \A i, j \in 1..Len(line'[p]) :
                    /\ i < j /\ line'[p][i].by = c
                    /\ NodeOf[line'[p][j].by] = NodeOf[c]
                    => line'[p][j].by = c
               /\ \A e \in nodes[p] : \A j \in 1..Len(line'[p]) :
                    e.by = c /\ NodeOf[line'[p][j].by] = NodeOf[c]
                      => line'[p][j].by = c
    <3>1. \A i \in 1..Len(line'[p]) :
            i + d \in 1..Len(line[p]) /\ line'[p][i] = line[p][i + d]
      BY <1>1, <2>2 DEF Remains
    <3>2. ASSUME NEW i \in 1..Len(line'[p]), NEW j \in 1..Len(line'[p]), i < j,
                 line'[p][i].by = c, NodeOf[line'[p][j].by] = NodeOf[c]
          PROVE  line'[p][j].by = c
      <4>1. i + d < j + d
        BY <1>1, <3>2
      <4>2. /\ i + d \in 1..Len(line[p]) /\ line'[p][i] = line[p][i + d]
            /\ j + d \in 1..Len(line[p]) /\ line'[p][j] = line[p][j + d]
        BY <3>1
      <4> QED
        BY <2>1, <3>2, <4>1, <4>2
    <3>3. ASSUME NEW e \in nodes[p], NEW j \in 1..Len(line'[p]),
                 e.by = c, NodeOf[line'[p][j].by] = NodeOf[c]
          PROVE  line'[p][j].by = c
      <4>1. j + d \in 1..Len(line[p]) /\ line'[p][j] = line[p][j + d]
        BY <3>1
      <4> QED
        BY <2>1, <3>3, <4>1
    <3> QED
      BY <3>2, <3>3
  <2>3. ASSUME Lists1(p)
        PROVE  \A e \in nodes'[p] : \A j \in 1..Len(line'[p]) :
                 e.by = c /\ NodeOf[line'[p][j].by] = NodeOf[c]
                   => line'[p][j].by = c
    <3>1. Remains(line[p], line'[p], 1)
      BY <2>3 DEF Lists1
    <3>2. \A j \in 1..Len(line'[p]) :
            /\ j + 1 \in 1..Len(line[p]) /\ 1 < j + 1
            /\ line'[p][j] = line[p][j + 1]
      BY <1>1, <3>1 DEF Remains
    <3>3. ASSUME NEW e \in nodes'[p], e \in nodes[p]
          PROVE  \A j \in 1..Len(line'[p]) :
                   e.by = c /\ NodeOf[line'[p][j].by] = NodeOf[c]
                     => line'[p][j].by = c
      BY <2>2, <3>1, <3>3
    <3>4. ASSUME NEW e \in nodes'[p], e.by = line[p][1].by, 1 \in 1..Len(line[p])
          PROVE  \A j \in 1..Len(line'[p]) :
                   e.by = c /\ NodeOf[line'[p][j].by] = NodeOf[c]
                     => line'[p][j].by = c
      BY <2>1, <3>2, <3>4
    <3> QED
      BY <1>4, <3>3, <3>4
  <2>4. CASE \E d \in Nat : Remains(line[p], line'[p], d)
    BY <1>2, <2>2, <2>3, <2>4
  <2>5. ASSUME NEW x \in Infos, Reaches(p, x), line'[p] = Append(line[p], x)
        PROVE  /\ \A i, j \in 1..Len(line'[p]) :
                    /\ i < j /\ line'[p][i].by = c
                    /\ NodeOf[line'[p][j].by] = NodeOf[c]
                    => line'[p][j].by = c
               /\ \A e \in nodes'[p] : \A j \in 1..Len(line'[p]) :
                    e.by = c /\ NodeOf[line'[p][j].by] = NodeOf[c]
                      => line'[p][j].by = c
    <3>1. Len(line'[p]) = Len(line[p]) + 1
      BY <1>1, <2>5
    <3>2. ~Lists1(p)
      BY <1>1, <3>1 DEF Lists1, Remains
    <3>3. NodeOf[x.by] = NodeOf[c] => x.by = c
      <4>1. x.by \in Procs /\ life[x.by] \in Active
        BY <2>5 DEF Reaches, Infos, Active
      <4> QED
        BY <1>6, <4>1 DEF Alone, Active, Subscribed, Over
    <3>4. \A i \in 1..Len(line'[p]) :
            \/ i \in 1..Len(line[p]) /\ line'[p][i] = line[p][i]
            \/ i = Len(line[p]) + 1 /\ line'[p][i] = x
      BY <1>1, <2>5
    <3>5. \A i, j \in 1..Len(line'[p]) : i < j => i \in 1..Len(line[p])
      BY <1>1, <3>1
    <3>6. nodes'[p] \subseteq nodes[p]
      BY <1>2, <3>2
    <3>7. ASSUME NEW i \in 1..Len(line'[p]), NEW j \in 1..Len(line'[p]), i < j,
                 line'[p][i].by = c, NodeOf[line'[p][j].by] = NodeOf[c]
          PROVE  line'[p][j].by = c
      <4>1. i \in 1..Len(line[p]) /\ line'[p][i] = line[p][i]
        BY <1>1, <3>4, <3>5, <3>7
      <4> QED
        BY <2>1, <3>3, <3>4, <3>7, <4>1
    <3>8. ASSUME NEW e \in nodes'[p], NEW j \in 1..Len(line'[p]),
                 e.by = c, NodeOf[line'[p][j].by] = NodeOf[c]
          PROVE  line'[p][j].by = c
      BY <2>1, <3>3, <3>4, <3>6, <3>8
    <3> QED
      BY <3>7, <3>8
  <2> QED
    BY <1>2, <2>4, <2>5 DEF LineMoves
<1> QED
  BY <1>3, <1>5, <1>6

LEMMA DropsStep ==
  ASSUME Structure, InOrder, [Next]_vars
  PROVE  DropsOnlyLeavers
<1> SUFFICES ASSUME NEW p \in Procs, NEW e \in nodes[p], e \notin nodes'[p]
             PROVE  life[e.by] \in Leavers
  BY DEF DropsOnlyLeavers, Leavers
<1>t. TypeOK /\ e.by \in Procs /\ life[e.by] \in Lives /\ life[e.by] \notin Fresh
  BY DEF Structure, Listed, TypeOK, Identities
<1>1. Dismiss(p)
  <2>1. ASSUME NEW q \in Procs,
               \/ Initialize(q) \/ Subscribe(q) \/ Announce(q) \/ Idle(q)
               \/ Leave(q) \/ Unregister(q) \/ Exit(q) \/ Crash(q)
               \/ Ignore(q) \/ Store(q)
        PROVE  nodes' = nodes
    BY <2>1 DEF Initialize, Subscribe, Announce, Idle, Leave, Unregister, Exit,
                Crash, End, Ignore, Store
  <2>2. ASSUME NEW q \in Procs, Admit(q)
        PROVE  nodes[p] \subseteq nodes'[p]
    BY <1>t, <2>2 DEF Admit, Added, TypeOK
  <2>3. ASSUME NEW q \in Procs \ {p}, Dismiss(q)
        PROVE  nodes'[p] = nodes[p]
    BY <1>t, <2>3 DEF Dismiss, TypeOK
  <2> QED
    BY <2>1, <2>2, <2>3 DEF Next, OnNodeInfo, vars
<1> DEFINE i == Head(line[p])
<1>2. i = line[p][1] /\ i \in Infos /\ 1 \in 1..Len(line[p])
  BY <1>1, <1>t, RemainsTail DEF Dismiss, TypeOK
<1>3. EqNode(e, i) /\ i.state = "unregister"
  BY <1>1, <1>t DEF Dismiss, Removed, Leaves, TypeOK
<1>4. life[i.by] \in Leavers
  BY <1>2, <1>3 DEF Structure, Posts
<1>5. ASSUME life[e.by] \notin Leavers
      PROVE  FALSE
  <2>1. life[e.by] \in Active
    BY <1>5, <1>t DEF Lives, Leavers, Fresh, Active, Subscribed
  <2>2. NodeOf[line[p][1].by] = NodeOf[e.by]
    BY <1>2, <1>3 DEF EqNode
  <2>3. line[p][1].by = e.by
    BY <1>t, <1>2, <2>1, <2>2 DEF InOrder
  <2> QED
    BY <1>2, <1>4, <1>5, <2>3
<1> QED
  BY <1>5

\* Where a process starts only when the others of its node are over, nobody is
\* taken off a list who has not left or crashed, whatever is still on its way
\* from an earlier process with the same number.
THEOREM NeverDropsSomebody ==
  ASSUME Overlap = "none"
  PROVE  Spec => DroppedHaveLeft
<1> DEFINE Inv == Structure /\ Alone /\ InOrder
<1>1. Init => Inv
  BY StructureInit
  DEF Init, Alone, InOrder, Active, Subscribed
<1>2. Inv /\ [Next]_vars => Inv'
  <2> SUFFICES ASSUME Inv, [Next]_vars PROVE Inv'
    OBVIOUS
  <2>1. Structure' /\ Moves
    BY StructureStep
  <2>2. Alone'
    BY AloneStep DEF Structure
  <2>3. InOrder'
    BY <2>1, InOrderStep DEF Structure
  <2> QED
    BY <2>1, <2>2, <2>3
<1>3. Inv /\ [Next]_vars => [DropsOnlyLeavers]_vars
  BY DropsStep
<1> HIDE DEF Inv
<1> QED
  BY <1>1, <1>2, <1>3, PTL DEF Spec, DroppedHaveLeft

-----------------------------------------------------------------------------
(* Once everything is handled, the lists agree with who is there           *)
(*                                                                         *)
(* A step is told by what it does to the line and the list of a process    *)
(* that hears, and by whom it tells of a life that changes.                *)

News(p, q) == \E k \in 1..Len(line[p]) : line[p][k].by = q
Registering(p, q) ==
  \E k \in 1..Len(line[p]) : line[p][k].by = q /\ line[p][k].state = "register"
Parting(p, q, k) == line[p][k].by = q /\ line[p][k].state = "unregister"

\* Those who hear what r posts, at least.
Hearers(r) == {q \in Procs : life[q] \in Subscribed /\ NodeOf[q] # NodeOf[r]}

Opens(q) == life[q] \in Fresh /\ line'[q] = <<>> /\ nodes'[q] = {}
Keeps(q) == line'[q] = line[q] /\ nodes'[q] = nodes[q]
Gets(q, r, s) == line'[q] = Append(line[q], Info(r, s)) /\ nodes'[q] = nodes[q]
Told(r, s) == \A q \in Hearers(r) : Gets(q, r, s)

\* What q makes of an info, and that it answers who registers.
Takes(q, i) ==
  /\ nodes'[q] = IF i.state = "unregister" THEN nodes[q] \ Removed(q, i)
                 ELSE Added(q, i)
  /\ i.state = "register" =>
       \E s \in {"register", "idle", "unregister"} : Told(q, s)
Handles(q) ==
  line[q] # <<>> /\ line'[q] = Tail(line[q]) /\ Takes(q, Head(line[q]))

LineTurns(q) ==
  life'[q] \in Subscribed =>
    \/ Opens(q)
    \/ /\ life[q] \in Subscribed
       /\ \/ Keeps(q) \/ Handles(q)
          \/ \E r \in Procs, s \in {"register", "idle", "unregister"} :
               /\ Reaches(q, Info(r, s)) /\ Gets(q, r, s)
               /\ life[r] = "left" => s = "unregister"

LifeTurns(q) ==
  /\ life[q] = "crashed" => life'[q] = "crashed"
  /\ life'[q] = "gone" => life[q] \in {"left", "gone"}
  /\ life'[q] = "left" => life[q] = "left" \/ Told(q, "unregister")
  /\ life'[q] \in Present =>
       life[q] \in Present \/ (life[q] \in Subscribed /\ Told(q, "register"))

Turns == \A q \in Procs : LineTurns(q) /\ LifeTurns(q)

\* A post is heard on all other nodes.
LEMMA PostedTells ==
  ASSUME TypeOK, NEW ls \in [Procs -> Seq(Infos)], NEW p \in Procs,
         NEW s \in {"register", "idle", "unregister"}, NEW q \in Hearers(p)
  PROVE  Posted(ls, Info(p, s))[q] = Append(ls[q], Info(p, s))
<1>1. Info(p, s).by = p /\ q \in Procs
  BY OwnInfo DEF Hearers
<1>2. Hears(q, Info(p, s))
  BY <1>1 DEF Hears, Hearers, EqNode, Me
<1> QED
  BY <1>1, <1>2 DEF Posted

\* What a post means to a process other than the poster.
LEMMA PostTurns ==
  ASSUME TypeOK, NEW ls \in [Procs -> Seq(Infos)], NEW p \in Procs,
         NEW s \in {"register", "idle", "unregister"},
         life[p] \in Subscribed \cup {"left"},
         s = "unregister" => life'[p] \in Leavers,
         life[p] = "left" => s = "unregister",
         NEW q \in Procs \ {p}, life'[q] = life[q], ls[q] = line[q],
         line'[q] = Posted(ls, Info(p, s))[q], nodes'[q] = nodes[q]
  PROVE  LineTurns(q)
<1>1. \/ Posted(ls, Info(p, s))[q] = ls[q]
      \/ /\ Hears(q, Info(p, s))
         /\ Posted(ls, Info(p, s))[q] = Append(ls[q], Info(p, s))
  BY DEF Posted
<1>2. CASE Posted(ls, Info(p, s))[q] = ls[q]
  BY <1>2 DEF LineTurns, Keeps
<1>3. CASE /\ Hears(q, Info(p, s))
           /\ Posted(ls, Info(p, s))[q] = Append(ls[q], Info(p, s))
  <2>1. Reaches(q, Info(p, s))
    BY <1>3, PostReaches
  <2>2. Gets(q, p, s) /\ life[q] \in Subscribed
    BY <1>3 DEF Gets, Hears
  <2> QED
    BY <2>1, <2>2 DEF LineTurns
<1> QED
  BY <1>1, <1>2, <1>3

LEMMA LinesTurn ==
  ASSUME TypeOK, Unheard, [Next]_vars
  PROVE  \A q \in Procs : LineTurns(q)
<1> SUFFICES ASSUME NEW q \in Procs
             PROVE  LineTurns(q)
  OBVIOUS
<1>s. line \in [Procs -> Seq(Infos)] /\ nodes \in [Procs -> SUBSET Identities]
  BY DEF TypeOK
<1>0. Keeps(q) /\ life'[q] = life[q] => LineTurns(q)
  BY DEF LineTurns
<1>1. CASE UNCHANGED vars
  BY <1>0, <1>1 DEF vars, Keeps
<1>2. ASSUME NEW p \in Procs,
             Initialize(p) \/ Subscribe(p) \/ Idle(p) \/ Leave(p) \/ Store(p)
      PROVE  LineTurns(q)
  <2>1. Keeps(q)
    BY <1>2 DEF Initialize, Subscribe, Idle, Leave, Store, Keeps
  <2>2. life'[q] \in Subscribed => life[q] \in Subscribed \cup {"startup"}
    BY <1>2 DEF Initialize, Subscribe, Idle, Leave, Store, TypeOK, Subscribed
  <2>3. life[q] = "startup" => line[q] = <<>> /\ nodes[q] = {}
    BY DEF Unheard, Fresh
  <2> QED
    BY <2>1, <2>2, <2>3 DEF LineTurns, Keeps, Opens, Fresh
<1>3. ASSUME NEW p \in Procs, Announce(p)
      PROVE  LineTurns(q)
  <2>1. /\ line' = Posted(line, Info(p, "register")) /\ nodes' = nodes
        /\ life[p] \in Subscribed /\ life[p] # "left"
        /\ life' = [life EXCEPT ![p] = "announced"]
    BY <1>3 DEF Announce, Subscribed
  <2>2. CASE q = p
    <3>1. line'[q] = line[q]
      BY <1>s, <2>1, <2>2, PostedLines
    <3> QED
      BY <2>1, <2>2, <3>1 DEF LineTurns, Keeps
  <2>3. CASE q # p
    <3>1. life'[q] = life[q]
      BY <2>1, <2>3 DEF TypeOK
    <3> QED
      BY <1>s, <2>1, <2>3, <3>1, PostTurns
  <2> QED
    BY <2>2, <2>3
<1>4. ASSUME NEW p \in Procs, Unregister(p)
      PROVE  LineTurns(q)
  <2>1. PICK k \in 0..Len(line[p]) :
          line' = [Posted(line, Info(p, "unregister"))
                     EXCEPT ![p] = SubSeq(line[p], 1, k)]
    BY <1>4 DEF Unregister
  <2>2. /\ life[p] \in Subscribed /\ life'[p] = "left" /\ nodes' = nodes
        /\ life' = [life EXCEPT ![p] = "left"]
    BY <1>4 DEF Unregister, Subscribed, TypeOK
  <2>3. Posted(line, Info(p, "unregister")) \in [Procs -> Seq(Infos)]
    BY <1>s, PostedLines
  <2>4. CASE q = p
    BY <2>2, <2>4 DEF LineTurns, Subscribed
  <2>5. CASE q # p
    <3>1. line'[q] = Posted(line, Info(p, "unregister"))[q]
      BY <2>1, <2>3, <2>5
    <3>2. life'[q] = life[q] /\ life'[p] \in Leavers
      BY <2>2, <2>5 DEF TypeOK, Leavers
    <3> QED
      BY <1>s, <2>2, <2>5, <3>1, <3>2, PostTurns
  <2> QED
    BY <2>4, <2>5
<1>5. ASSUME NEW p \in Procs, Exit(p) \/ Crash(p)
      PROVE  LineTurns(q)
  <2>1. CASE q = p
    <3>1. life'[q] \notin Subscribed
      BY <1>5, <2>1 DEF Exit, Crash, End, TypeOK, Subscribed
    <3> QED
      BY <3>1 DEF LineTurns
  <2>2. CASE q # p
    BY <1>0, <1>s, <1>5, <2>2 DEF Exit, Crash, End, Keeps, TypeOK
  <2> QED
    BY <2>1, <2>2
<1>6. ASSUME NEW p \in Procs, Admit(p)
      PROVE  LineTurns(q)
  <2> DEFINE i == Head(line[p])
             rest == [line EXCEPT ![p] = Tail(@)]
  <2>1. line[p] \in Seq(Infos) /\ line[p] # <<>> /\ i \in Infos
    BY <1>6, RemainsTail DEF TypeOK, Admit
  <2>2. rest \in [Procs -> Seq(Infos)] /\ rest[p] = Tail(line[p])
    BY <1>s, <2>1
  <2>3. State(p) \in {"register", "idle", "unregister"}
    BY DEF State
  <2>4. line' = Posted(rest, Info(p, State(p))) /\ life' = life
    BY <1>6 DEF Admit, Answers
  <2>5. life[p] \in Subscribed \cup {"left"}
    BY <2>1 DEF TypeOK, Lives, Subscribed, Over, Unheard, Fresh
  <2>6. nodes' = [nodes EXCEPT ![p] = Added(p, i)] /\ i.state # "unregister"
    BY <1>6 DEF Admit, Welcome
  <2>7. \A r \in Procs \ {p} : rest[r] = line[r] /\ nodes'[r] = nodes[r]
    BY <1>s, <2>6
  <2> HIDE DEF rest, i
  <2>8. CASE q = p
    <3>1. line'[q] = Tail(line[q])
      BY <2>2, <2>3, <2>4, <2>8, PostedLines
    <3>2. nodes'[q] = Added(q, i)
      BY <1>s, <2>6, <2>8
    <3>3. Told(q, State(q))
      <4>1. ASSUME NEW r \in Hearers(q)
            PROVE  Gets(r, q, State(q))
        <5>1. r \in Procs \ {p}
          BY <2>8 DEF Hearers
        <5>2. Posted(rest, Info(p, State(p)))[r] = Append(rest[r], Info(p, State(p)))
          BY <2>2, <2>3, <2>8, PostedTells
        <5> QED
          BY <2>4, <2>7, <2>8, <5>1, <5>2 DEF Gets
      <4> QED
        BY <4>1 DEF Told
    <3>4. Takes(q, i)
      BY <2>3, <2>6, <2>8, <3>2, <3>3 DEF Takes
    <3>5. Handles(q)
      BY <2>1, <2>8, <3>1, <3>4 DEF Handles, i
    <3>6. life'[q] = life[q]
      BY <2>4
    <3> QED
      BY <2>5, <2>8, <3>5, <3>6 DEF LineTurns, Subscribed
  <2>9. CASE q # p
    <3>1. State(p) = "unregister" => life'[p] \in Leavers
      BY <2>4, <2>5 DEF State, Leavers, Subscribed
    <3>2. life[p] = "left" => State(p) = "unregister"
      BY DEF State
    <3>3. q \in Procs \ {p}
      BY <2>9
    <3> QED
      BY <2>2, <2>3, <2>4, <2>5, <2>7, <3>1, <3>2, <3>3, PostTurns
  <2> QED
    BY <2>8, <2>9
<1>7. ASSUME NEW p \in Procs, Dismiss(p) \/ Ignore(p)
      PROVE  LineTurns(q)
  <2>1. /\ line[p] # <<>> /\ line' = [line EXCEPT ![p] = Tail(@)] /\ life' = life
        /\ line[p] \in Seq(Infos)
    BY <1>s, <1>7 DEF Dismiss, Ignore
  <2>2. life[p] \in Subscribed \cup {"left"}
    BY <2>1 DEF TypeOK, Lives, Subscribed, Over, Unheard, Fresh
  <2>3. CASE q = p
    <3>1. line'[q] = Tail(line[q])
      BY <1>s, <2>1, <2>3
    <3>2. Takes(q, Head(line[q]))
      BY <1>s, <1>7, <2>3 DEF Dismiss, Ignore, Takes, Leaves, Added
    <3>3. Handles(q)
      BY <2>1, <2>3, <3>1, <3>2 DEF Handles
    <3> QED
      BY <2>1, <2>2, <2>3, <3>3 DEF LineTurns, Subscribed
  <2>4. CASE q # p
    <3>1. Keeps(q)
      BY <1>s, <1>7, <2>1, <2>4 DEF Dismiss, Ignore, Keeps
    <3> QED
      BY <1>0, <2>1, <3>1
  <2> QED
    BY <2>3, <2>4
<1> QED
  BY <1>1, <1>2, <1>3, <1>4, <1>5, <1>6, <1>7 DEF Next, OnNodeInfo

LEMMA LivesTurn ==
  ASSUME TypeOK, [Next]_vars
  PROVE  \A q \in Procs : LifeTurns(q)
<1> SUFFICES ASSUME NEW q \in Procs
             PROVE  LifeTurns(q)
  OBVIOUS
<1>s. line \in [Procs -> Seq(Infos)]
  BY DEF TypeOK
<1>0. life'[q] = life[q] => LifeTurns(q)
  BY DEF LifeTurns
<1>1. CASE UNCHANGED vars
  BY <1>0, <1>1 DEF vars
<1>2. ASSUME NEW p \in Procs,
             \/ Initialize(p) \/ Subscribe(p) \/ Idle(p) \/ Leave(p)
             \/ Exit(p) \/ Crash(p) \/ OnNodeInfo(p) \/ Store(p)
      PROVE  LifeTurns(q)
  BY <1>2 DEF Initialize, Subscribe, Idle, Leave, Exit, Crash, End, OnNodeInfo,
              Admit, Dismiss, Ignore, Store, LifeTurns, TypeOK, Present, Subscribed
<1>3. ASSUME NEW p \in Procs, Announce(p)
      PROVE  LifeTurns(q)
  <2>1. /\ life[p] = "subscribed" /\ life' = [life EXCEPT ![p] = "announced"]
        /\ line' = Posted(line, Info(p, "register")) /\ nodes' = nodes
    BY <1>3 DEF Announce
  <2>2. Told(p, "register")
    BY <1>s, <2>1, PostedTells DEF Told, Gets
  <2> QED
    BY <2>1, <2>2 DEF LifeTurns, TypeOK, Subscribed
<1>4. ASSUME NEW p \in Procs, Unregister(p)
      PROVE  LifeTurns(q)
  <2>1. PICK k \in 0..Len(line[p]) :
          line' = [Posted(line, Info(p, "unregister"))
                     EXCEPT ![p] = SubSeq(line[p], 1, k)]
    BY <1>4 DEF Unregister
  <2>2. /\ life[p] = "leaving" /\ life' = [life EXCEPT ![p] = "left"]
        /\ nodes' = nodes
    BY <1>4 DEF Unregister
  <2>3. Posted(line, Info(p, "unregister")) \in [Procs -> Seq(Infos)]
    BY <1>s, PostedLines
  <2>4. Told(p, "unregister")
    <3>1. ASSUME NEW r \in Hearers(p)
          PROVE  Gets(r, p, "unregister")
      <4>1. r \in Procs /\ r # p
        BY <3>1 DEF Hearers
      <4>2. Posted(line, Info(p, "unregister"))[r]
              = Append(line[r], Info(p, "unregister"))
        BY <1>s, PostedTells
      <4> QED
        BY <2>1, <2>2, <2>3, <4>1, <4>2 DEF Gets
    <3> QED
      BY <3>1 DEF Told
  <2> QED
    BY <2>2, <2>4 DEF LifeTurns, TypeOK, Present
<1> QED
  BY <1>1, <1>2, <1>3, <1>4 DEF Next

LEMMA StepTurns ==
  ASSUME TypeOK, Unheard, [Next]_vars
  PROVE  Turns
BY LinesTurn, LivesTurn DEF Turns

-----------------------------------------------------------------------------
\* An instance number is given once.
Numbered ==
  \A p \in Procs : life[p] \in Subscribed =>
    /\ \A k \in 1..Len(line[p]) : line[p][k].instNr = instNr[line[p][k].by]
    /\ \A e \in nodes[p] : e.instNr = instNr[e.by]

\* What a process gets and lists comes from other nodes.
Foreign ==
  \A p \in Procs :
    /\ \A k \in 1..Len(line[p]) : NodeOf[line[p][k].by] # NodeOf[p]
    /\ \A e \in nodes[p] : NodeOf[e.by] # NodeOf[p]

\* Of a process that has left, everything that is listed or on its way is
\* followed by the info that it has.
Departures ==
  \A p \in Procs : life[p] \in Subscribed =>
    /\ \A e \in nodes[p] : life[e.by] \in {"left", "gone"} =>
         \E k \in 1..Len(line[p]) : Parting(p, e.by, k)
    /\ \A j \in 1..Len(line[p]) : life[line[p][j].by] \in {"left", "gone"} =>
         \E k \in 1..Len(line[p]) : j <= k /\ Parting(p, line[p][j].by, k)

\* While there is something on its way from an earlier process of its node,
\* the first info of a process is.
Returns ==
  \A p, q \in Procs : life[p] \in Subscribed /\ life[q] \in Present =>
    \A k \in 1..Len(line[p]) :
      NodeOf[line[p][k].by] = NodeOf[q] /\ line[p][k].by # q => Registering(p, q)

\* Of two that have registered, one lists the other or is about to hear from
\* it, or the other has still to answer.
Acquainted ==
  \A p, q \in Procs : p # q /\ life[p] \in Present /\ life[q] \in Present =>
    Lists(p, q) \/ News(p, q) \/ Registering(q, p)

LEMMA TailOf ==
  ASSUME NEW s \in Seq(Infos), s # <<>>
  PROVE  /\ Head(s) = s[1] /\ 1 \in 1..Len(s) /\ Head(s) \in Infos
         /\ \A k \in 1..Len(Tail(s)) : k + 1 \in 1..Len(s) /\ Tail(s)[k] = s[k + 1]
         /\ \A k \in 1..Len(s) :
              k # 1 => k - 1 \in 1..Len(Tail(s)) /\ Tail(s)[k - 1] = s[k]
OBVIOUS

LEMMA AppendOf ==
  ASSUME NEW s \in Seq(Infos), NEW x \in Infos
  PROVE  /\ Len(s) + 1 \in 1..Len(Append(s, x)) /\ Append(s, x)[Len(s) + 1] = x
         /\ \A k \in 1..Len(s) :
              k \in 1..Len(Append(s, x)) /\ Append(s, x)[k] = s[k] /\ k <= Len(s) + 1
         /\ \A k \in 1..Len(Append(s, x)) : k = Len(s) + 1 \/ k \in 1..Len(s)
OBVIOUS

\* What handling the head does to the entries.
LEMMA Handled ==
  ASSUME TypeOK, NEW p \in Procs, Handles(p)
  PROVE  /\ line[p] \in Seq(Infos) /\ line[p] # <<>>
         /\ \A e \in nodes'[p] :
              \/ e \in nodes[p]
              \/ /\ e = Identity(line[p][1]) /\ ~Known(p, line[p][1])
                 /\ line[p][1].state # "unregister"
         /\ \A e \in nodes[p] : e \notin nodes'[p] =>
              line[p][1].state = "unregister" /\ EqNode(e, line[p][1])
         /\ line[p][1].state = "unregister" =>
              nodes'[p] = nodes[p] \ Removed(p, line[p][1])
<1>1. line[p] \in Seq(Infos) /\ line[p] # <<>> /\ Head(line[p]) = line[p][1]
  BY TailOf DEF TypeOK, Handles
<1>2. nodes'[p] = IF line[p][1].state = "unregister"
                  THEN nodes[p] \ Removed(p, line[p][1]) ELSE Added(p, line[p][1])
  BY <1>1 DEF Handles, Takes
<1> QED
  BY <1>1, <1>2 DEF Added, Removed

LEMMA NumberedStep ==
  ASSUME Structure, Moves, Turns, Numbered
  PROVE  Numbered'
<1> SUFFICES ASSUME NEW p \in Procs, life'[p] \in Subscribed
             PROVE  /\ \A k \in 1..Len(line'[p]) :
                         line'[p][k].instNr = instNr'[line'[p][k].by]
                    /\ \A e \in nodes'[p] : e.instNr = instNr'[e.by]
  BY DEF Numbered
<1>t. TypeOK /\ line[p] \in Seq(Infos)
  BY DEF Structure, TypeOK
<1>i. \A k \in 1..Len(line[p]) : line[p][k] \in Infos /\ line[p][k].by \in Procs
  <2>1. \A k \in 1..Len(line[p]) : line[p][k] \in Infos
    BY <1>t
  <2> QED
    BY <2>1 DEF Infos
<1>n. \A r \in Procs : life[r] \notin Fresh => instNr'[r] = instNr[r]
  BY DEF Moves, LifeMoves
<1>1. CASE Opens(p)
  BY <1>1 DEF Opens
<1>2. CASE life[p] \in Subscribed
  <2>1. \A k \in 1..Len(line[p]) : line[p][k].instNr = instNr'[line[p][k].by]
    <3>1. \A k \in 1..Len(line[p]) : line[p][k].instNr = instNr[line[p][k].by]
      BY <1>2 DEF Numbered
    <3>2. \A k \in 1..Len(line[p]) : life[line[p][k].by] \notin Fresh
      BY DEF Structure, Posts
    <3> QED
      BY <1>i, <1>n, <3>1, <3>2
  <2>2. \A e \in nodes[p] : e.instNr = instNr'[e.by]
    <3>1. \A e \in nodes[p] : e.instNr = instNr[e.by]
      BY <1>2 DEF Numbered
    <3>2. \A e \in nodes[p] : life[e.by] \notin Fresh /\ e.by \in Procs
      BY <1>t DEF Structure, Listed, TypeOK, Identities
    <3> QED
      BY <1>n, <3>1, <3>2
  <2>3. CASE Keeps(p)
    BY <2>1, <2>2, <2>3 DEF Keeps
  <2>4. CASE Handles(p)
    <3>1. line'[p] = Tail(line[p]) /\ line[p] # <<>>
      BY <2>4 DEF Handles
    <3>2. \A e \in nodes'[p] : e \in nodes[p] \/ e = Identity(line[p][1])
      BY <1>t, <2>4, Handled
    <3>3. 1 \in 1..Len(line[p])
      BY <1>t, <3>1, TailOf
    <3>4. \A e \in nodes'[p] : e.instNr = instNr'[e.by]
      BY <2>1, <2>2, <3>2, <3>3 DEF Identity
    <3> QED
      BY <1>t, <2>1, <3>1, <3>4, TailOf
  <2>5. ASSUME NEW r \in Procs, NEW s \in {"register", "idle", "unregister"},
               Reaches(p, Info(r, s)), Gets(p, r, s)
        PROVE  /\ \A k \in 1..Len(line'[p]) :
                    line'[p][k].instNr = instNr'[line'[p][k].by]
               /\ \A e \in nodes'[p] : e.instNr = instNr'[e.by]
    <3>1. Info(r, s) \in Infos /\ Info(r, s).by = r /\ Info(r, s).instNr = instNr[r]
      BY <1>t, OwnInfo DEF Info
    <3>2. life[r] \notin Fresh
      BY <2>5, <3>1 DEF Reaches, Subscribed, Fresh
    <3> QED
      BY <1>t, <1>n, <2>1, <2>2, <2>5, <3>1, <3>2, AppendOf DEF Gets
  <2> QED
    BY <1>2, <2>3, <2>4, <2>5 DEF Turns, LineTurns, Opens, Subscribed, Fresh
<1> QED
  BY <1>1, <1>2 DEF Turns, LineTurns

LEMMA ForeignStep ==
  ASSUME TypeOK, TypeOK', Alone, Moves, Foreign
  PROVE  Foreign'
<1> SUFFICES ASSUME NEW p \in Procs
             PROVE  /\ \A k \in 1..Len(line'[p]) : NodeOf[line'[p][k].by] # NodeOf[p]
                    /\ \A e \in nodes'[p] : NodeOf[e.by] # NodeOf[p]
  BY DEF Foreign
<1>1. /\ line[p] \in Seq(Infos) /\ line'[p] \in Seq(Infos)
      /\ \A k \in 1..Len(line[p]) : NodeOf[line[p][k].by] # NodeOf[p]
      /\ \A e \in nodes[p] : NodeOf[e.by] # NodeOf[p]
  BY DEF TypeOK, Foreign
<1>2. \A k \in 1..Len(line'[p]) : NodeOf[line'[p][k].by] # NodeOf[p]
  <2>1. ASSUME NEW d \in Nat, Remains(line[p], line'[p], d)
        PROVE  \A k \in 1..Len(line'[p]) : NodeOf[line'[p][k].by] # NodeOf[p]
    <3>1. \A i \in 1..Len(line'[p]) :
            i + d \in 1..Len(line[p]) /\ line'[p][i] = line[p][i + d]
      BY <1>1, <2>1 DEF Remains
    <3> QED
      BY <1>1, <3>1
  <2>2. ASSUME NEW x \in Infos, Reaches(p, x), line'[p] = Append(line[p], x)
        PROVE  \A k \in 1..Len(line'[p]) : NodeOf[line'[p][k].by] # NodeOf[p]
    <3>1. NodeOf[x.by] # NodeOf[p]
      BY <2>2 DEF Reaches, Infos, Alone, Active, Subscribed, Over
    <3> QED
      BY <1>1, <2>2, <3>1, AppendOf
  <2> QED
    BY <2>1, <2>2 DEF Moves, LineMoves
<1>3. \A e \in nodes'[p] : NodeOf[e.by] # NodeOf[p]
  <2>1. CASE Lists1(p)
    <3>1. \A e \in nodes'[p] : e \in nodes[p] \/ e.by = line[p][1].by
      BY <1>1, <2>1, RemainsTail DEF Lists1, Identity
    <3>2. 1 \in 1..Len(line[p])
      BY <1>1, <2>1, RemainsTail DEF Lists1
    <3> QED
      BY <1>1, <3>1, <3>2
  <2> QED
    BY <1>1, <2>1 DEF Moves
<1> QED
  BY <1>2, <1>3

\* Somebody who leaves tells all that list it, or are about to.
LEMMA LeavingTells ==
  ASSUME Turns, NEW p \in Procs, life[p] \in Subscribed,
         NEW c \in Procs, NodeOf[c] # NodeOf[p], life'[c] \in {"left", "gone"}
  PROVE  life[c] \in {"left", "gone"} \/ Gets(p, c, "unregister")
BY DEF Turns, LifeTurns, Told, Hearers

LEMMA DeparturesStep ==
  ASSUME Structure, Structure', Numbered, Foreign', Departures, Turns
  PROVE  Departures'
<1> SUFFICES ASSUME NEW p \in Procs, life'[p] \in Subscribed
             PROVE  /\ \A e \in nodes'[p] : life'[e.by] \in {"left", "gone"} =>
                         \E k \in 1..Len(line'[p]) : Parting(p, e.by, k)'
                    /\ \A j \in 1..Len(line'[p]) :
                         life'[line'[p][j].by] \in {"left", "gone"} =>
                           \E k \in 1..Len(line'[p]) :
                             j <= k /\ Parting(p, line[p][j].by, k)'
  BY DEF Departures
<1>t. /\ TypeOK /\ line[p] \in Seq(Infos) /\ line'[p] \in Seq(Infos)
      /\ \A j \in 1..Len(line'[p]) :
           line'[p][j].by \in Procs /\ NodeOf[line'[p][j].by] # NodeOf[p]
      /\ \A e \in nodes'[p] : e.by \in Procs /\ NodeOf[e.by] # NodeOf[p]
  <2>1. line[p] \in Seq(Infos) /\ line'[p] \in Seq(Infos) /\ TypeOK
    BY DEF Structure, TypeOK
  <2>2. \A j \in 1..Len(line'[p]) : line'[p][j] \in Infos
    BY <2>1
  <2>3. \A e \in nodes'[p] : e \in Identities
    BY DEF Structure, TypeOK
  <2> QED
    BY <2>1, <2>2, <2>3 DEF Infos, Identities, Foreign
<1>1. CASE Opens(p)
  BY <1>1 DEF Opens
<1>2. CASE life[p] \in Subscribed
  <2>1. /\ \A e \in nodes[p] : life[e.by] \in {"left", "gone"} =>
             \E k \in 1..Len(line[p]) : Parting(p, e.by, k)
        /\ \A j \in 1..Len(line[p]) : life[line[p][j].by] \in {"left", "gone"} =>
             \E k \in 1..Len(line[p]) : j <= k /\ Parting(p, line[p][j].by, k)
    BY <1>2 DEF Departures
  \* What has just left comes last.
  <2>2. ASSUME NEW c \in Procs, Gets(p, c, "unregister")
        PROVE  \E k \in 1..Len(line'[p]) :
                 Parting(p, c, k)' /\ \A j \in 1..Len(line'[p]) : j <= k
    <3>1. /\ Info(c, "unregister") \in Infos /\ Info(c, "unregister").by = c
          /\ Info(c, "unregister").state = "unregister"
      BY <1>t, OwnInfo
    <3> DEFINE k == Len(line[p]) + 1
    <3>2. /\ k \in 1..Len(line'[p]) /\ line'[p][k] = Info(c, "unregister")
          /\ \A j \in 1..Len(line'[p]) : j <= k
      BY <1>t, <2>2, <3>1, AppendOf DEF Gets
    <3> QED
      BY <3>1, <3>2 DEF Parting
  <2>3. ASSUME NEW e \in nodes'[p], life[e.by] \in {"left", "gone"}
        PROVE  \E k \in 1..Len(line'[p]) : Parting(p, e.by, k)'
    <3>1. CASE Keeps(p)
      BY <2>1, <2>3, <3>1 DEF Keeps, Parting
    <3>2. CASE Handles(p)
      <4>0. line[p] # <<>> /\ line'[p] = Tail(line[p])
        BY <3>2 DEF Handles
      <4>1. PICK k \in 1..Len(line[p]) : Parting(p, e.by, k)
        <5>1. CASE e \in nodes[p]
          BY <2>1, <2>3, <5>1
        <5>2. CASE e = Identity(line[p][1])
          BY <1>t, <2>1, <2>3, <4>0, <5>2, TailOf DEF Identity
        <5> QED
          BY <1>t, <3>2, <5>1, <5>2, Handled
      <4>2. k # 1
        <5>1. SUFFICES ASSUME k = 1 PROVE FALSE
          OBVIOUS
        <5>2. line[p][1].state = "unregister" /\ line[p][1].by = e.by
          BY <4>1, <5>1 DEF Parting
        <5>3. e \in nodes[p] /\ e \notin Removed(p, line[p][1])
          BY <1>t, <3>2, <5>2, Handled
        <5>4. e.instNr = line[p][1].instNr
          BY <1>2, <4>1, <5>1, <5>2, <5>3 DEF Numbered
        <5> QED
          BY <5>2, <5>3, <5>4 DEF Removed, EqNode
      <4>3. k - 1 \in 1..Len(line'[p]) /\ line'[p][k - 1] = line[p][k]
        BY <1>t, <4>0, <4>2, TailOf
      <4> QED
        BY <4>1, <4>3 DEF Parting
    <3>3. ASSUME NEW r \in Procs, NEW s \in {"register", "idle", "unregister"},
                 Gets(p, r, s)
          PROVE  \E k \in 1..Len(line'[p]) : Parting(p, e.by, k)'
      <4>1. PICK k \in 1..Len(line[p]) : Parting(p, e.by, k)
        BY <2>1, <2>3, <3>3 DEF Gets
      <4>2. k \in 1..Len(line'[p]) /\ line'[p][k] = line[p][k]
        BY <1>t, <3>3, OwnInfo, AppendOf DEF Gets
      <4> QED
        BY <4>1, <4>2 DEF Parting
    <3> QED
      BY <1>2, <3>1, <3>2, <3>3 DEF Turns, LineTurns, Opens, Subscribed, Fresh
  <2>4. ASSUME NEW j \in 1..Len(line'[p]), life[line'[p][j].by] \in {"left", "gone"}
        PROVE  \E k \in 1..Len(line'[p]) : j <= k /\ Parting(p, line[p][j].by, k)'
    <3>1. CASE Keeps(p)
      BY <2>1, <2>4, <3>1 DEF Keeps, Parting
    <3>2. CASE Handles(p)
      <4>0. line[p] # <<>> /\ line'[p] = Tail(line[p])
        BY <3>2 DEF Handles
      <4>1. j + 1 \in 1..Len(line[p]) /\ line'[p][j] = line[p][j + 1]
        BY <1>t, <4>0, TailOf
      <4>2. PICK k \in 1..Len(line[p]) : j + 1 <= k /\ Parting(p, line'[p][j].by, k)
        BY <2>1, <2>4, <4>1
      <4>3. k - 1 \in 1..Len(line'[p]) /\ line'[p][k - 1] = line[p][k] /\ j <= k - 1
        BY <1>t, <4>0, <4>2, TailOf
      <4> QED
        BY <4>2, <4>3 DEF Parting
    <3>3. ASSUME NEW r \in Procs, NEW s \in {"register", "idle", "unregister"},
                 Gets(p, r, s), life[r] = "left" => s = "unregister",
                 Reaches(p, Info(r, s))
          PROVE  \E k \in 1..Len(line'[p]) : j <= k /\ Parting(p, line[p][j].by, k)'
      <4>0. Info(r, s) \in Infos /\ Info(r, s).by = r /\ Info(r, s).state = s
        BY <1>t, OwnInfo
      <4>1. CASE j = Len(line[p]) + 1
        <5>1. line'[p][j] = Info(r, s)
          BY <1>t, <3>3, <4>0, <4>1, AppendOf DEF Gets
        <5>2. s = "unregister"
          BY <2>4, <3>3, <4>0, <5>1 DEF Reaches, Subscribed
        <5> QED
          BY <4>0, <5>1, <5>2 DEF Parting
      <4>2. CASE j \in 1..Len(line[p])
        <5>1. line'[p][j] = line[p][j]
          BY <1>t, <3>3, <4>0, <4>2, AppendOf DEF Gets
        <5>2. PICK k \in 1..Len(line[p]) : j <= k /\ Parting(p, line'[p][j].by, k)
          BY <2>1, <2>4, <4>2, <5>1
        <5>3. k \in 1..Len(line'[p]) /\ line'[p][k] = line[p][k]
          BY <1>t, <3>3, <4>0, AppendOf DEF Gets
        <5> QED
          BY <5>2, <5>3 DEF Parting
      <4> QED
        BY <1>t, <3>3, <4>0, <4>1, <4>2, AppendOf DEF Gets
    <3> QED
      BY <1>2, <3>1, <3>2, <3>3 DEF Turns, LineTurns, Opens, Subscribed, Fresh
  <2>5. ASSUME NEW e \in nodes'[p], life'[e.by] \in {"left", "gone"}
        PROVE  \E k \in 1..Len(line'[p]) : Parting(p, e.by, k)'
    BY <1>2, <1>t, <2>2, <2>3, <2>5, LeavingTells
  <2>6. ASSUME NEW j \in 1..Len(line'[p]), life'[line'[p][j].by] \in {"left", "gone"}
        PROVE  \E k \in 1..Len(line'[p]) : j <= k /\ Parting(p, line[p][j].by, k)'
    <3>1. CASE life[line'[p][j].by] \in {"left", "gone"}
      BY <2>4, <3>1
    <3>2. CASE Gets(p, line'[p][j].by, "unregister")
      BY <1>t, <2>2, <3>2 DEF Parting
    <3> QED
      BY <1>2, <1>t, <2>6, <3>1, <3>2, LeavingTells
  <2> QED
    BY <2>5, <2>6
<1> QED
  BY <1>1, <1>2 DEF Turns, LineTurns

\* What somebody else hears stays where it is, or is the last.
LEMMA GotLine ==
  ASSUME TypeOK, NEW p \in Procs, NEW r \in Procs,
         NEW s \in {"register", "idle", "unregister"}, Gets(p, r, s)
  PROVE  /\ \A k \in 1..Len(line[p]) :
              k \in 1..Len(line'[p]) /\ line'[p][k] = line[p][k]
         /\ Len(line[p]) + 1 \in 1..Len(line'[p])
         /\ line'[p][Len(line[p]) + 1].by = r
         /\ line'[p][Len(line[p]) + 1].state = s
         /\ \A k \in 1..Len(line'[p]) : k = Len(line[p]) + 1 \/ k \in 1..Len(line[p])
<1>1. line[p] \in Seq(Infos) /\ Info(p, s) \in Infos /\ Info(r, s) \in Infos
      /\ Info(r, s).by = r /\ Info(r, s).state = s
  BY OwnInfo DEF TypeOK
<1> QED
  BY <1>1, AppendOf DEF Gets

\* An info is lost only by being handled.
LEMMA KeptInLine ==
  ASSUME TypeOK, NEW p \in Procs, LineTurns(p), life[p] \in Subscribed,
         life'[p] \in Subscribed, NEW k \in 1..Len(line[p]),
         ~(k = 1 /\ Handles(p))
  PROVE  \E l \in 1..Len(line'[p]) : line'[p][l] = line[p][k]
<1>1. line[p] \in Seq(Infos)
  BY DEF TypeOK
<1>2. CASE Keeps(p)
  BY <1>2 DEF Keeps
<1>3. CASE Handles(p)
  <2>1. k # 1 /\ line[p] # <<>> /\ line'[p] = Tail(line[p])
    BY <1>3 DEF Handles
  <2>2. k - 1 \in 1..Len(line'[p]) /\ line'[p][k - 1] = line[p][k]
    BY <1>1, <2>1, TailOf
  <2> QED
    BY <2>2
<1>4. CASE \E r \in Procs, s \in {"register", "idle", "unregister"} : Gets(p, r, s)
  BY <1>4, GotLine
<1> QED
  BY <1>2, <1>3, <1>4 DEF LineTurns, Opens, Subscribed, Fresh

LEMMA ReturnsStep ==
  ASSUME Structure, Alone, InOrder, Foreign', Returns, Turns
  PROVE  Returns'
<1> SUFFICES ASSUME NEW p \in Procs, NEW q \in Procs,
                    life'[p] \in Subscribed, life'[q] \in Present,
                    NEW k \in 1..Len(line'[p]),
                    NodeOf[line'[p][k].by] = NodeOf[q], line'[p][k].by # q
             PROVE  Registering(p, q)'
  BY DEF Returns
<1>t. TypeOK /\ line[p] \in Seq(Infos) /\ NodeOf[q] # NodeOf[p]
  BY DEF Structure, TypeOK, Foreign
<1>1. life[p] \in Subscribed
  BY DEF Turns, LineTurns, Opens
<1>2. CASE Gets(p, q, "register")
  BY <1>t, <1>2, GotLine DEF Registering
<1>3. CASE life[q] \in Present
  <2>1. life[q] \in Active
    BY <1>3 DEF Active, Subscribed, Present
  <2>2. ASSUME Registering(p, q)
        PROVE  Registering(p, q)'
    <3>1. PICK l \in 1..Len(line[p]) : line[p][l].by = q /\ line[p][l].state = "register"
      BY <2>2 DEF Registering
    <3>2. CASE Handles(p) /\ l = 1
      <4>1. k + 1 \in 1..Len(line[p]) /\ line'[p][k] = line[p][k + 1] /\ 1 < k + 1
        BY <1>t, <3>2, TailOf DEF Handles
      <4> QED
        BY <2>1, <3>1, <3>2, <4>1 DEF InOrder
    <3>3. CASE ~(Handles(p) /\ l = 1)
      <4>1. PICK m \in 1..Len(line'[p]) : line'[p][m] = line[p][l]
        BY <1>t, <1>1, <3>3, KeptInLine DEF Turns
      <4> QED
        BY <3>1, <4>1 DEF Registering
    <3> QED
      BY <3>2, <3>3
  <2>3. ASSUME NEW j \in 1..Len(line[p]), line[p][j] = line'[p][k]
        PROVE  Registering(p, q)
    BY <1>1, <1>3, <2>3 DEF Returns
  <2>4. CASE Keeps(p)
    BY <2>2, <2>3, <2>4 DEF Keeps
  <2>5. CASE Handles(p)
    BY <1>t, <2>2, <2>3, <2>5, TailOf DEF Handles
  <2>6. ASSUME NEW r \in Procs, NEW s \in {"register", "idle", "unregister"},
               Reaches(p, Info(r, s)), Gets(p, r, s)
        PROVE  Registering(p, q)'
    <3>1. CASE k \in 1..Len(line[p])
      <4>1. line'[p][k] = line[p][k]
        BY <1>t, <2>6, <3>1, GotLine
      <4> QED
        BY <2>2, <2>3, <3>1, <4>1
    <3>2. CASE k = Len(line[p]) + 1
      <4>1. NodeOf[r] = NodeOf[q] /\ r # q
        BY <1>t, <2>6, <3>2, GotLine
      <4>2. life[r] \in Active
        BY <1>t, <2>6, OwnInfo DEF Reaches, Active
      <4> QED
        BY <2>1, <4>1, <4>2 DEF Alone, Active, Subscribed, Over
    <3> QED
      BY <1>t, <2>6, <3>1, <3>2, GotLine
  <2> QED
    BY <1>1, <2>4, <2>5, <2>6 DEF Turns, LineTurns, Opens, Subscribed, Fresh
<1> QED
  BY <1>t, <1>1, <1>2, <1>3 DEF Turns, LifeTurns, Told, Hearers

\* An entry that a process takes for q when it handles an info of q is that of
\* q, or of one that has crashed.
LEMMA TakenForSomebody ==
  ASSUME Structure, Alone, InOrder, Departures,
         NEW p \in Procs, life[p] \in Subscribed, line[p] # <<>>,
         NEW q \in Procs, life[q] \in Present, line[p][1].by = q,
         NEW e \in nodes[p], EqNode(e, line[p][1])
  PROVE  e.by = q \/ life[e.by] = "crashed"
<1>a. TypeOK /\ line[p] \in Seq(Infos) /\ e.by \in Procs
  BY DEF Structure, TypeOK, Identities
<1>b. 1 \in 1..Len(line[p])
  BY <1>a
<1>c. NodeOf[e.by] = NodeOf[q]
  BY DEF EqNode
<1>d. life[q] \in Active
  BY DEF Active, Present, Subscribed
<1>t. /\ TypeOK /\ line[p] \in Seq(Infos) /\ e.by \in Procs
      /\ 1 \in 1..Len(line[p]) /\ NodeOf[e.by] = NodeOf[q]
      /\ life[q] \in Active
  BY <1>a, <1>b, <1>c, <1>d
<1> SUFFICES ASSUME e.by # q PROVE life[e.by] = "crashed"
  OBVIOUS
<1>1. life[e.by] \in Over
  BY <1>t DEF Structure, Listed, Alone, Fresh
<1>2. ASSUME life[e.by] = "gone"
      PROVE  FALSE
  <2>1. PICK k \in 1..Len(line[p]) : line[p][k].by = e.by
    BY <1>2 DEF Departures, Parting
  <2>2. k # 1
    BY <2>1
  <2>3. 1 < k
    BY <1>t, <2>2
  <2> QED
    BY <1>t, <2>1, <2>3 DEF InOrder
<1> QED
  BY <1>1, <1>2 DEF Over

LEMMA AcquaintedStep ==
  ASSUME Structure, Alone, Alone', InOrder, Numbered, Foreign, Departures,
         Returns, Acquainted, Moves, Turns
  PROVE  Acquainted'
<1> SUFFICES ASSUME NEW p \in Procs, NEW q \in Procs, p # q,
                    life'[p] \in Present, life'[q] \in Present
             PROVE  Lists(p, q)' \/ News(p, q)' \/ Registering(q, p)'
  BY DEF Acquainted
<1> USE DEF Present
<1>t. TypeOK /\ line[p] \in Seq(Infos) /\ line[q] \in Seq(Infos)
  BY DEF Structure, TypeOK
<1>1. NodeOf[p] # NodeOf[q]
  BY DEF Alone, Active, Subscribed, Over
<1>2. /\ life[p] \in Subscribed /\ life[q] \in Subscribed
      /\ life'[p] \in Subscribed /\ life'[q] \in Subscribed
      /\ life[p] \in Present \/ Told(p, "register")
      /\ life[q] \in Present \/ Told(q, "register")
  BY DEF Turns, LifeTurns, Subscribed
<1>3. CASE Told(p, "register")
  BY <1>t, <1>1, <1>2, <1>3, GotLine DEF Told, Hearers, Registering
<1>4. CASE Told(q, "register")
  BY <1>t, <1>1, <1>2, <1>4, GotLine DEF Told, Hearers, News
<1>5. CASE life[p] \in Present /\ life[q] \in Present
  <2>1. instNr'[q] = instNr[q]
    BY <1>5 DEF Moves, LifeMoves
  <2>2. \A e \in nodes[p] :
          e \in nodes'[p] /\ EqNode(e, Me(q)) /\ (e.by = q \/ life[e.by] = "crashed")
            => Lists(p, q)'
    <3>1. \A e \in nodes[p] : e.by \in Procs
      BY <1>t DEF TypeOK, Identities
    <3> QED
      BY <2>1, <3>1 DEF Lists, EqNode, Me, Turns, LifeTurns
  <2>3. \A k \in 1..Len(line[p]) :
          line[p][k].by = q => line[p][k].state # "unregister"
    BY <1>5 DEF Structure, Posts, Leavers
  <2>4. ASSUME NEW k \in 1..Len(line[p]), line[p][k].by = q, ~(k = 1 /\ Handles(p))
        PROVE  News(p, q)'
    <3>1. PICK l \in 1..Len(line'[p]) : line'[p][l] = line[p][k]
      BY <1>t, <1>2, <2>4, KeptInLine DEF Turns
    <3> QED
      BY <2>4, <3>1 DEF News
  <2>5. ASSUME Lists(p, q)
        PROVE  Lists(p, q)' \/ News(p, q)'
    <3>1. PICK e \in nodes[p] : /\ EqNode(e, Me(q))
                                /\ e.by = q \/ life[e.by] = "crashed"
      BY <2>5 DEF Lists
    <3>2. CASE e \in nodes'[p]
      BY <2>2, <3>1, <3>2
    <3>3. CASE e \notin nodes'[p]
      <4>1. Handles(p)
        BY <1>2, <3>1, <3>3
        DEF Turns, LineTurns, Opens, Keeps, Gets, Subscribed, Fresh
      <4>2. /\ line[p][1].state = "unregister" /\ EqNode(e, line[p][1])
            /\ 1 \in 1..Len(line[p])
        BY <1>t, <3>1, <3>3, <4>1, Handled, TailOf
      <4>3. line[p][1].by # q /\ NodeOf[line[p][1].by] = NodeOf[q]
        BY <2>3, <3>1, <4>2 DEF EqNode, Me
      <4>4. PICK k \in 1..Len(line[p]) : line[p][k].by = q
        BY <1>2, <1>5, <4>2, <4>3 DEF Returns, Registering
      <4> QED
        BY <2>4, <4>3, <4>4
    <3> QED
      BY <3>2, <3>3
  <2>6. ASSUME News(p, q)
        PROVE  Lists(p, q)' \/ News(p, q)'
    <3>1. PICK k \in 1..Len(line[p]) : line[p][k].by = q
      BY <2>6 DEF News
    <3>2. CASE k = 1 /\ Handles(p)
      <4>1. line[p] # <<>> /\ line[p][1].by = q /\ line[p][1].state # "unregister"
        BY <1>t, <2>3, <3>1, <3>2 DEF Handles
      <4>2. line[p][1].instNr = instNr[q]
        BY <1>2, <3>1, <3>2 DEF Numbered
      <4>3. nodes'[p] = Added(p, line[p][1])
        BY <1>t, <3>2, <4>1, TailOf DEF Handles, Takes
      <4>4. CASE Known(p, line[p][1])
        <5>1. PICK e \in nodes[p] : EqNode(e, line[p][1])
          BY <4>4 DEF Known
        <5>2. e.by = q \/ life[e.by] = "crashed"
          BY <1>2, <1>5, <4>1, <5>1, TakenForSomebody
        <5>3. EqNode(e, Me(q))
          BY <4>1, <4>2, <5>1 DEF EqNode, Me
        <5> QED
          BY <2>2, <4>3, <4>4, <5>2, <5>3 DEF Added
      <4>5. CASE ~Known(p, line[p][1])
        <5>1. Identity(line[p][1]) \in nodes'[p]
          BY <4>3, <4>5 DEF Added
        <5> QED
          BY <2>1, <4>1, <4>2, <5>1 DEF Lists, Identity, EqNode, Me
      <4> QED
        BY <4>4, <4>5
    <3> QED
      BY <2>4, <3>1, <3>2
  <2>7. ASSUME Registering(q, p)
        PROVE  News(p, q)' \/ Registering(q, p)'
    <3>1. PICK k \in 1..Len(line[q]) : line[q][k].by = p /\ line[q][k].state = "register"
      BY <2>7 DEF Registering
    <3>2. CASE k = 1 /\ Handles(q)
      <4>1. PICK s \in {"register", "idle", "unregister"} : Told(q, s)
        BY <1>t, <3>1, <3>2, TailOf DEF Handles, Takes
      <4>2. Gets(p, q, s)
        BY <1>1, <1>2, <4>1 DEF Told, Hearers
      <4> QED
        BY <1>t, <4>2, GotLine DEF News
    <3>3. CASE ~(k = 1 /\ Handles(q))
      <4>1. PICK l \in 1..Len(line'[q]) : line'[q][l] = line[q][k]
        BY <1>t, <1>2, <3>3, KeptInLine DEF Turns
      <4> QED
        BY <3>1, <4>1 DEF Registering
    <3> QED
      BY <3>2, <3>3
  <2> QED
    BY <1>5, <2>5, <2>6, <2>7 DEF Acquainted
<1> QED
  BY <1>2, <1>3, <1>4, <1>5

Agreement ==
  /\ Structure /\ Alone /\ InOrder /\ Numbered /\ Foreign
  /\ Departures /\ Returns /\ Acquainted

LEMMA AgreementInit == Init => Agreement
BY StructureInit
DEF Init, Agreement, Alone, InOrder, Numbered, Foreign, Departures, Returns,
    Acquainted, Active, Subscribed, Present

LEMMA AgreementStep ==
  ASSUME Overlap = "none", Agreement, [Next]_vars
  PROVE  Agreement' /\ Moves /\ Turns
<1>1. /\ Structure /\ Alone /\ InOrder /\ Numbered /\ Foreign
      /\ Departures /\ Returns /\ Acquainted
  BY DEF Agreement
<1>2. Structure' /\ Moves /\ Turns
  BY <1>1, StructureStep, StepTurns DEF Structure
<1>3. TypeOK /\ TypeOK' /\ Posts /\ Listed
  BY <1>1, <1>2 DEF Structure
<1>4. Alone'
  BY <1>1, <1>3, AloneStep
<1>5. InOrder'
  BY <1>1, <1>2, <1>3, InOrderStep
<1>6. Numbered'
  BY <1>1, <1>2, NumberedStep
<1>7. Foreign'
  BY <1>1, <1>2, <1>3, ForeignStep
<1>8. Departures'
  BY <1>1, <1>2, <1>7, DeparturesStep
<1>9. Returns'
  BY <1>1, <1>2, <1>7, ReturnsStep
<1>10. Acquainted'
  BY <1>1, <1>2, <1>4, AcquaintedStep
<1> QED
  BY <1>2, <1>4, <1>5, <1>6, <1>7, <1>8, <1>9, <1>10 DEF Agreement

\* Once all infos are handled, each process that has registered is in the list
\* of each other, whatever came in between: processes that leave, that crash,
\* and that take the place of others; and nobody who has left is in a list.
THEOREM AlwaysQuietAgreement ==
  ASSUME Overlap = "none"
  PROVE  Spec => []QuietAgreement
<1>1. Agreement => QuietAgreement
  <2> SUFFICES ASSUME Agreement, \A p \in Procs : line[p] = <<>>,
                      NEW p \in Procs, life[p] \in Present
               PROVE  /\ \A q \in Procs \ {p} : life[q] \in Present => Lists(p, q)
                      /\ \A e \in nodes[p] : life[e.by] \notin {"left", "gone"}
    BY DEF QuietAgreement
  <2>1. \A q \in Procs : Len(line[q]) = 0
    OBVIOUS
  <2>2. \A q \in Procs \ {p} : life[q] \in Present => Lists(p, q)
    BY <2>1 DEF Agreement, Acquainted, News, Registering
  <2>3. life[p] \in Subscribed
    BY DEF Present, Subscribed
  <2>4. \A e \in nodes[p] : life[e.by] \notin {"left", "gone"}
    BY <2>1, <2>3 DEF Agreement, Departures
  <2> QED
    BY <2>2, <2>4
<1>2. Agreement /\ [Next]_vars => Agreement'
  BY AgreementStep
<1> QED
  BY AgreementInit, <1>1, <1>2, PTL DEF Spec

-----------------------------------------------------------------------------
(* NodeTasks: what the processes know of each other's tasks and runs       *)

TaskTypeOK == TypeOK /\ NodeTasksTypeOK

Tables == [Procs -> Contexts]

LEMMA OwnContexts ==
  ASSUME nodeInfos \in Tables, NEW p \in Procs
  PROVE  Own(p) \in Contexts /\ AddOwn(p) \in Contexts /\ NodeInfo(p) \in NodeInfos
<1>1. NodeInfo(p) \in NodeInfos
  BY SystemAssumption DEF NodeInfo, NodeInfos
<1> QED
  BY <1>1 DEF Tables, Contexts, Own, AddOwn

LEMMA RegisterContexts ==
  ASSUME nodeInfos \in Tables, NEW p \in Procs, NEW i \in Infos, NEW sent \in Contexts,
         OnNodeRegister(p, i, sent) \/ OnNodeUnregister(p, i, sent)
  PROVE  nodeInfos' \in Tables
<1>1. NodeInfo(i.by) \in NodeInfos
  BY OwnContexts DEF Infos
<1>2. nodeInfos[p] \in Contexts
  BY DEF Tables
<1>3. \A t \in Tasks : Registered(nodeInfos[p][t], sent[t], NodeInfo(i.by)) \in SUBSET NodeInfos
  BY <1>1, <1>2 DEF Registered, AddNodeId, RemoveNodeId, Contexts
<1>4. \A t \in Tasks : RemoveNodeId(nodeInfos[p][t], NodeOf[i.by]) \in SUBSET NodeInfos
  BY <1>2 DEF RemoveNodeId, Contexts
<1>5. CASE OnNodeRegister(p, i, sent)
  <2>1. [t \in Tasks |-> IF sent[t] # {}
                         THEN Registered(nodeInfos[p][t], sent[t], NodeInfo(i.by))
                         ELSE nodeInfos[p][t]] \in Contexts
    BY <1>2, <1>3 DEF Contexts
  <2> QED
    BY <1>5, <2>1 DEF OnNodeRegister, Tables
<1>6. CASE OnNodeUnregister(p, i, sent)
  <2>1. [t \in Tasks |-> IF sent[t] # {}
                         THEN RemoveNodeId(nodeInfos[p][t], NodeOf[i.by])
                         ELSE nodeInfos[p][t]] \in Contexts
    BY <1>2, <1>4 DEF Contexts
  <2> QED
    BY <1>6, <2>1 DEF OnNodeUnregister, Tables
<1> QED
  BY <1>5, <1>6

LEMMA OwnUnheard ==
  ASSUME TypeOK, NEW p \in Procs, NEW s \in {"register", "idle", "unregister"}
  PROVE  ~Hears(p, Info(p, s))
BY OwnInfo DEF Hears

\* What is posted with the infos are the tasks of the poster.
LEMMA PostedCargo ==
  ASSUME TypeOK, nodeInfos \in Tables, NEW cs \in [Procs -> Seq(Contexts)],
         NEW p \in Procs, NEW s \in {"register", "idle", "unregister"}
  PROVE  /\ PostedWith(cs, p, Info(p, s)) \in [Procs -> Seq(Contexts)]
         /\ PostedWith(cs, p, Info(p, s))[p] = cs[p]
<1>1. Own(p) \in Contexts /\ ~Hears(p, Info(p, s))
  BY OwnContexts, OwnUnheard
<1>2. \A q \in Procs : Append(cs[q], Own(p)) \in Seq(Contexts)
  BY <1>1
<1> QED
  BY <1>1, <1>2 DEF PostedWith

RunStep == \E p \in Procs : StartRun(p) \/ ReportRun(p) \/ StopRun(p) \/ FailRun(p)

\* What a step of SystemNodes means for what q knows.
Stays(q) ==
  /\ line'[q] = line[q] /\ cargo'[q] = cargo[q]
  /\ nodeInfos'[q] = nodeInfos[q] /\ global'[q] = global[q]
Equips(q) ==
  /\ life[q] = "new" /\ nodeInfos'[q] = AddOwn(q)
  /\ line'[q] = line[q] /\ cargo'[q] = cargo[q] /\ global'[q] = global[q]
Forgets(q) ==
  /\ life'[q] \in Over /\ line'[q] = <<>> /\ cargo'[q] = <<>>
  /\ nodeInfos'[q] = NoTasks /\ global'[q] = {}
Cuts(q) ==
  /\ life'[q] = "left" /\ nodeInfos'[q] = nodeInfos[q] /\ global'[q] = global[q]
  /\ \E k \in 0..Len(line[q]) :
       line'[q] = SubSeq(line[q], 1, k) /\ cargo'[q] = SubSeq(cargo[q], 1, k)
Receives(q) ==
  /\ nodeInfos'[q] = nodeInfos[q] /\ global'[q] = global[q]
  /\ \E r \in Procs, s \in {"register", "idle", "unregister"} :
       /\ life[r] \in Subscribed \cup {"left"} /\ Hears(q, Info(r, s))
       /\ line'[q] = Append(line[q], Info(r, s))
       /\ cargo'[q] = Append(cargo[q], Own(r))
Learns(q) ==
  LET i == Head(line[q])
      sent == Head(cargo[q])
      set == nodeInfos[q] IN
  /\ line[q] # <<>> /\ line'[q] = Tail(line[q]) /\ cargo'[q] = Tail(cargo[q])
  /\ \/ /\ i.state # "unregister"
        /\ nodeInfos'[q] = [t \in Tasks |->
             IF sent[t] # {} THEN Registered(set[t], sent[t], NodeInfo(i.by))
             ELSE set[t]]
     \/ i.state = "idle" /\ Known(q, i) /\ nodeInfos'[q] = set
     \/ /\ i.state = "unregister"
        /\ nodeInfos'[q] = [t \in Tasks |->
             IF sent[t] # {} THEN RemoveNodeId(set[t], NodeOf[i.by]) ELSE set[t]]
  /\ global'[q] = IF Updates(i) THEN {r \in global[q] : NodeOf[r] # NodeOf[i.by]}
                  ELSE global[q]

TaskTurns(q) ==
  Stays(q) \/ Equips(q) \/ Forgets(q) \/ Cuts(q) \/ Receives(q) \/ Learns(q)

LEMMA TasksTurn ==
  ASSUME TaskTypeOK, Unheard, NextAll, ~RunStep
  PROVE  run' = run /\ \A q \in Procs : TaskTurns(q)
<1> SUFFICES ASSUME NEW q \in Procs
             PROVE  run' = run /\ TaskTurns(q)
  BY DEF NextAll, RunStep, Start, AnnounceTasks, UnregisterTasks, EndTasks,
         AdmitTasks, DismissTasks, IgnoreTasks, runVars
<1>t. /\ TypeOK /\ line \in [Procs -> Seq(Infos)] /\ cargo \in [Procs -> Seq(Contexts)]
      /\ nodeInfos \in Tables /\ global \in [Procs -> SUBSET Procs]
      /\ Len(cargo[q]) = Len(line[q])
  BY DEF TaskTypeOK, TypeOK, NodeTasksTypeOK, Tables
<1>0. Stays(q) => TaskTurns(q)
  BY DEF TaskTurns
<1>1. ASSUME NEW p \in Procs,
             /\ Subscribe(p) \/ Idle(p) \/ Leave(p) \/ Store(p)
             /\ UNCHANGED <<taskVars, runVars>>
      PROVE  run' = run /\ TaskTurns(q)
  BY <1>0, <1>1 DEF Subscribe, Idle, Leave, Store, taskVars, runVars, Stays
<1>2. ASSUME NEW p \in Procs, Start(p)
      PROVE  run' = run /\ TaskTurns(q)
  <2>1. /\ life[p] = "new" /\ nodeInfos' = [nodeInfos EXCEPT ![p] = AddOwn(p)]
        /\ line' = line /\ UNCHANGED <<cargo, runVars>>
    BY <1>2 DEF Start, Initialize
  <2> QED
    BY <1>t, <2>1 DEF runVars, TaskTurns, Stays, Equips, Tables
<1>3. ASSUME NEW p \in Procs, AnnounceTasks(p)
      PROVE  run' = run /\ TaskTurns(q)
  <2>1. /\ line' = Posted(line, Info(p, "register")) /\ life[p] \in Subscribed
        /\ cargo' = PostedWith(cargo, p, Info(p, "register"))
        /\ UNCHANGED <<nodeInfos, runVars>>
    BY <1>3 DEF AnnounceTasks, Announce, Subscribed
  <2>2. \/ line'[q] = line[q] /\ cargo'[q] = cargo[q]
        \/ /\ Hears(q, Info(p, "register"))
           /\ line'[q] = Append(line[q], Info(p, "register"))
           /\ cargo'[q] = Append(cargo[q], Own(p))
    BY <2>1 DEF Posted, PostedWith
  <2> QED
    BY <2>1, <2>2 DEF runVars, TaskTurns, Stays, Receives
<1>4. ASSUME NEW p \in Procs, UnregisterTasks(p)
      PROVE  run' = run /\ TaskTurns(q)
  <2> DEFINE ls == Posted(line, Info(p, "unregister"))
             cs == PostedWith(cargo, p, Info(p, "unregister"))
  <2>1. /\ life[p] \in Subscribed /\ life'[p] = "left" /\ run' = run
        /\ nodeInfos' = nodeInfos /\ global' = global
    BY <1>4, <1>t DEF UnregisterTasks, Unregister, Subscribed, TypeOK, runVars
  <2>2. PICK k \in 0..Len(line[p]) : line' = [ls EXCEPT ![p] = SubSeq(line[p], 1, k)]
    BY <1>4 DEF UnregisterTasks, Unregister
  <2>3. cargo' = [cs EXCEPT ![p] = SubSeq(@, 1, Len(line'[p]))]
    BY <1>4 DEF UnregisterTasks
  <2>4. /\ ls \in [Procs -> Seq(Infos)] /\ cs \in [Procs -> Seq(Contexts)]
        /\ cs[p] = cargo[p]
    BY <1>t, PostedLines, PostedCargo
  <2>5. CASE q = p
    <3>1. line'[q] = SubSeq(line[q], 1, k) /\ Len(line'[q]) = k
      BY <1>t, <2>2, <2>4, <2>5
    <3>2. cargo'[q] = SubSeq(cargo[q], 1, k)
      BY <2>3, <2>4, <2>5, <3>1
    <3> QED
      BY <2>1, <2>2, <2>5, <3>1, <3>2 DEF TaskTurns, Cuts
  <2>6. CASE q # p
    <3>1. line'[q] = ls[q] /\ cargo'[q] = cs[q]
      BY <2>2, <2>3, <2>4, <2>6
    <3>2. \/ ls[q] = line[q] /\ cs[q] = cargo[q]
          \/ /\ Hears(q, Info(p, "unregister"))
             /\ ls[q] = Append(line[q], Info(p, "unregister"))
             /\ cs[q] = Append(cargo[q], Own(p))
      BY DEF Posted, PostedWith
    <3> HIDE DEF ls, cs
    <3> QED
      BY <2>1, <3>1, <3>2 DEF TaskTurns, Stays, Receives
  <2> QED
    BY <2>1, <2>5, <2>6
<1>5. ASSUME NEW p \in Procs, EndTasks(p)
      PROVE  run' = run /\ TaskTurns(q)
  <2>1. /\ life' \in [Procs -> Lives] /\ life'[p] \in Over
        /\ line' = [line EXCEPT ![p] = <<>>] /\ cargo' = [cargo EXCEPT ![p] = <<>>]
        /\ nodeInfos' = [nodeInfos EXCEPT ![p] = NoTasks]
        /\ global' = [global EXCEPT ![p] = {}] /\ run' = run
    BY <1>t, <1>5 DEF EndTasks, Exit, Crash, End, TypeOK, Lives, Over
  <2> QED
    BY <1>t, <2>1 DEF TaskTurns, Stays, Forgets, Tables
<1>6. ASSUME NEW p \in Procs, AdmitTasks(p)
      PROVE  run' = run /\ TaskTurns(q)
  <2> DEFINE ls == [line EXCEPT ![p] = Tail(@)]
             x == Info(p, State(p))
  <2>1. /\ line[p] # <<>> /\ Head(line[p]).state # "unregister" /\ life' = life
        /\ line' = Posted(ls, x) /\ cargo' = PostedWith(Rest(p), p, x)
        /\ OnNodeRegister(p, Head(line[p]), Head(cargo[p]))
        /\ OnNodeUpdate(p, Head(line[p])) /\ run' = run
    BY <1>6 DEF AdmitTasks, Admit, Answers, Welcome
  <2>2. /\ ls \in [Procs -> Seq(Infos)] /\ ls[p] = Tail(line[p])
        /\ Rest(p) \in [Procs -> Seq(Contexts)]
        /\ \A r \in Procs : r # p => ls[r] = line[r] /\ Rest(p)[r] = cargo[r]
    <3>1. Len(cargo[p]) = Len(line[p]) /\ cargo[p] \in Seq(Contexts) /\ line[p] \in Seq(Infos)
      BY <1>t DEF TaskTypeOK, NodeTasksTypeOK
    <3>2. Tail(cargo[p]) \in Seq(Contexts) /\ Tail(line[p]) \in Seq(Infos)
      BY <2>1, <3>1
    <3> QED
      BY <1>t, <3>2 DEF Rest
  <2>3. State(p) \in {"register", "idle", "unregister"}
    BY DEF State
  <2>4. CASE q = p
    <3>1. line'[q] = Tail(line[q])
      BY <1>t, <2>1, <2>2, <2>3, <2>4, OwnUnheard DEF Posted
    <3>2. cargo'[q] = Tail(cargo[q])
      BY <1>t, <2>1, <2>3, <2>4, OwnUnheard DEF PostedWith, Rest
    <3>3. /\ nodeInfos'[q] = [t \in Tasks |->
               IF Head(cargo[q])[t] # {}
               THEN Registered(nodeInfos[q][t], Head(cargo[q])[t], NodeInfo(Head(line[q]).by))
               ELSE nodeInfos[q][t]]
          /\ global'[q] = IF Updates(Head(line[q]))
                          THEN {r \in global[q] : NodeOf[r] # NodeOf[Head(line[q]).by]}
                          ELSE global[q]
      BY <1>t, <2>1, <2>4 DEF OnNodeRegister, OnNodeUpdate, Tables
    <3>4. Learns(q)
      BY <2>1, <2>4, <3>1, <3>2, <3>3 DEF Learns
    <3> QED
      BY <2>1, <3>4 DEF TaskTurns
  <2>5. CASE q # p
    <3>1. nodeInfos'[q] = nodeInfos[q] /\ global'[q] = global[q]
      BY <1>t, <2>1, <2>5 DEF OnNodeRegister, OnNodeUpdate, Tables
    <3>2. ls[q] = line[q] /\ Rest(p)[q] = cargo[q]
      BY <2>2, <2>5
    <3>3. \/ Posted(ls, x)[q] = ls[q] /\ PostedWith(Rest(p), p, x)[q] = Rest(p)[q]
          \/ /\ Hears(q, x) /\ Posted(ls, x)[q] = Append(ls[q], x)
             /\ PostedWith(Rest(p), p, x)[q] = Append(Rest(p)[q], Own(p))
      BY DEF Posted, PostedWith
    <3>4. CASE Posted(ls, x)[q] = ls[q] /\ PostedWith(Rest(p), p, x)[q] = Rest(p)[q]
      BY <2>1, <3>1, <3>2, <3>4 DEF TaskTurns, Stays
    <3>5. CASE /\ Hears(q, x) /\ Posted(ls, x)[q] = Append(ls[q], x)
               /\ PostedWith(Rest(p), p, x)[q] = Append(Rest(p)[q], Own(p))
      <4>1. life[p] \in Subscribed \cup {"left"}
        BY <2>1, <1>t DEF TypeOK, Lives, Subscribed, Over, Unheard, Fresh
      <4> HIDE DEF ls, x
      <4>2. x = Info(p, State(p))
        BY DEF x
      <4>3. Receives(q)
        BY <2>1, <2>3, <3>1, <3>2, <3>5, <4>1, <4>2 DEF Receives
      <4> QED
        BY <2>1, <4>3 DEF TaskTurns
    <3> QED
      BY <3>3, <3>4, <3>5
  <2> QED
    BY <2>4, <2>5
<1>7. ASSUME NEW p \in Procs, DismissTasks(p)
      PROVE  run' = run /\ TaskTurns(q)
  <2>1. /\ line[p] # <<>> /\ Head(line[p]).state = "unregister"
        /\ line' = [line EXCEPT ![p] = Tail(@)] /\ cargo' = [cargo EXCEPT ![p] = Tail(@)]
        /\ OnNodeUnregister(p, Head(line[p]), Head(cargo[p]))
        /\ OnNodeUpdate(p, Head(line[p])) /\ run' = run
    BY <1>7 DEF DismissTasks, Dismiss, Leaves, Rest
  <2>2. CASE q = p
    <3>1. Learns(q)
      BY <1>t, <2>1, <2>2 DEF OnNodeUnregister, OnNodeUpdate, Tables, Learns
    <3> QED
      BY <2>1, <3>1 DEF TaskTurns
  <2>3. CASE q # p
    BY <1>0, <1>t, <2>1, <2>3 DEF OnNodeUnregister, OnNodeUpdate, Tables, Stays
  <2> QED
    BY <2>2, <2>3
<1>8. ASSUME NEW p \in Procs, IgnoreTasks(p)
      PROVE  run' = run /\ TaskTurns(q)
  <2>1. /\ line[p] # <<>> /\ Head(line[p]).state = "idle" /\ Known(p, Head(line[p]))
        /\ line' = [line EXCEPT ![p] = Tail(@)] /\ cargo' = [cargo EXCEPT ![p] = Tail(@)]
        /\ nodeInfos' = nodeInfos /\ global' = global /\ run' = run
    BY <1>8 DEF IgnoreTasks, Ignore, Rest, runVars
  <2>2. CASE q = p
    <3>1. Learns(q)
      BY <1>t, <2>1, <2>2 DEF Learns, Updates
    <3> QED
      BY <2>1, <3>1 DEF TaskTurns
  <2>3. CASE q # p
    BY <1>0, <1>t, <2>1, <2>3 DEF Stays
  <2> QED
    BY <2>2, <2>3
<1> QED
  BY <1>1, <1>2, <1>3, <1>4, <1>5, <1>6, <1>7, <1>8 DEF NextAll, RunStep

LEMMA NodesStep == NextAll => [Next]_vars
BY DEF NextAll, Next, OnNodeInfo, Start, AnnounceTasks, UnregisterTasks, EndTasks,
       AdmitTasks, DismissTasks, IgnoreTasks, StartRun, ReportRun, StopRun, FailRun

\* The cargo of a process stays in step with its line.
LEMMA CargoLengths ==
  ASSUME TypeOK, cargo \in [Procs -> Seq(Contexts)], nodeInfos \in Tables,
         NEW q \in Procs, Len(cargo[q]) = Len(line[q]), TaskTurns(q)
  PROVE  Len(cargo'[q]) = Len(line'[q])
<1>1. line[q] \in Seq(Infos) /\ cargo[q] \in Seq(Contexts)
  BY DEF TypeOK
<1>2. CASE Stays(q) \/ Equips(q)
  BY <1>2 DEF Stays, Equips
<1>3. CASE Forgets(q)
  BY <1>3 DEF Forgets
<1>4. CASE Cuts(q)
  BY <1>1, <1>4 DEF Cuts
<1>5. CASE Receives(q)
  <2>1. PICK r \in Procs, s \in {"register", "idle", "unregister"} :
          /\ line'[q] = Append(line[q], Info(r, s))
          /\ cargo'[q] = Append(cargo[q], Own(r))
    BY <1>5 DEF Receives
  <2>2. Info(r, s) \in Infos /\ Own(r) \in Contexts
    BY OwnInfo, OwnContexts
  <2> QED
    BY <1>1, <2>1, <2>2
<1>6. CASE Learns(q)
  <2>1. line[q] # <<>> /\ line'[q] = Tail(line[q]) /\ cargo'[q] = Tail(cargo[q])
    BY <1>6 DEF Learns
  <2>2. Len(line[q]) > 0
    BY <1>1, <2>1
  <2> QED
    BY <1>1, <2>1, <2>2
<1> QED
  BY <1>2, <1>3, <1>4, <1>5, <1>6 DEF TaskTurns

LEMMA HearTypes ==
  ASSUME global \in [Procs -> SUBSET Procs], NEW r \in Procs, NEW over \in BOOLEAN,
         Hear(r, over)
  PROVE  global' \in [Procs -> SUBSET Procs]
BY DEF Hear

LEMMA UpdateTypes ==
  ASSUME global \in [Procs -> SUBSET Procs], NEW p \in Procs, NEW i \in Infos,
         OnNodeUpdate(p, i)
  PROVE  global' \in [Procs -> SUBSET Procs]
BY DEF OnNodeUpdate

LEMMA TaskTypeStep ==
  ASSUME TaskTypeOK, Unheard, [NextAll]_allVars
  PROVE  TaskTypeOK'
<1>t. /\ TypeOK /\ line \in [Procs -> Seq(Infos)] /\ cargo \in [Procs -> Seq(Contexts)]
      /\ nodeInfos \in Tables /\ global \in [Procs -> SUBSET Procs]
      /\ run \in [Procs -> {"none", "running", "stopped", "errored"}]
      /\ local \in SUBSET Procs /\ \A p \in Procs : Len(cargo[p]) = Len(line[p])
  BY DEF TaskTypeOK, TypeOK, NodeTasksTypeOK, Tables
<1> DEFINE Types == /\ nodeInfos' \in Tables /\ cargo' \in [Procs -> Seq(Contexts)]
                    /\ run' \in [Procs -> {"none", "running", "stopped", "errored"}]
                    /\ global' \in [Procs -> SUBSET Procs] /\ local' \in SUBSET Procs
<1>0. TypeOK'
  <2>1. [Next]_vars
    BY NodesStep DEF allVars, vars
  <2> QED
    BY <1>t, <2>1, TypeStep
<1>1. CASE UNCHANGED allVars
  BY <1>0, <1>1 DEF TaskTypeOK, NodeTasksTypeOK, allVars, vars, taskVars, runVars, Contexts,
                    NodeInfos
<1>2. ASSUME UNCHANGED <<taskVars, runVars>>
      PROVE  Types
  BY <1>t, <1>2 DEF taskVars, runVars
<1>3. ASSUME NEW p \in Procs, Start(p)
      PROVE  Types
  BY <1>t, <1>3, OwnContexts DEF Start, runVars, Tables
<1>4. ASSUME NEW p \in Procs, AnnounceTasks(p)
      PROVE  Types
  BY <1>t, <1>4, PostedCargo DEF AnnounceTasks, runVars
<1>5. ASSUME NEW p \in Procs, UnregisterTasks(p)
      PROVE  Types
  <2> DEFINE cs == PostedWith(cargo, p, Info(p, "unregister"))
  <2>1. cs \in [Procs -> Seq(Contexts)] /\ cs[p] = cargo[p]
    BY <1>t, PostedCargo
  <2>2. PICK k \in 0..Len(line[p]) :
          line' = [Posted(line, Info(p, "unregister"))
                     EXCEPT ![p] = SubSeq(line[p], 1, k)]
    BY <1>5 DEF UnregisterTasks, Unregister
  <2>3. Posted(line, Info(p, "unregister")) \in [Procs -> Seq(Infos)]
    BY <1>t, PostedLines
  <2>4. line'[p] = SubSeq(line[p], 1, k) /\ line[p] \in Seq(Infos)
    BY <1>t, <2>2, <2>3
  <2>5. Len(line'[p]) = k /\ k \in 0..Len(cargo[p]) /\ cargo[p] \in Seq(Contexts)
    BY <1>t, <2>2, <2>4
  <2>6. SubSeq(cs[p], 1, Len(line'[p])) \in Seq(Contexts)
    BY <2>1, <2>5
  <2>7. cargo' = [cs EXCEPT ![p] = SubSeq(@, 1, Len(line'[p]))]
    BY <1>5 DEF UnregisterTasks
  <2>8. cargo' \in [Procs -> Seq(Contexts)]
    BY <2>1, <2>6, <2>7
  <2> QED
    BY <1>t, <1>5, <2>8 DEF UnregisterTasks, runVars
<1>6. ASSUME NEW p \in Procs, EndTasks(p)
      PROVE  Types
  <2>1. NoTasks \in Contexts
    BY DEF NoTasks, Contexts
  <2> QED
    BY <1>t, <1>6, <2>1 DEF EndTasks, Tables
<1>7. ASSUME NEW p \in Procs, line[p] # <<>>
      PROVE  /\ Head(line[p]) \in Infos /\ Head(cargo[p]) \in Contexts
             /\ Rest(p) \in [Procs -> Seq(Contexts)]
  <2>1. /\ Len(cargo[p]) = Len(line[p]) /\ cargo[p] \in Seq(Contexts)
        /\ line[p] \in Seq(Infos)
    BY <1>t
  <2>2. Len(cargo[p]) > 0
    BY <1>7, <2>1
  <2>3. Head(cargo[p]) \in Contexts /\ Tail(cargo[p]) \in Seq(Contexts)
    BY <2>1, <2>2
  <2> QED
    BY <1>t, <1>7, <2>1, <2>3 DEF Rest
<1>8. ASSUME NEW p \in Procs, AdmitTasks(p)
      PROVE  Types
  <2>1. /\ line[p] # <<>> /\ cargo' = PostedWith(Rest(p), p, Info(p, State(p)))
        /\ OnNodeRegister(p, Head(line[p]), Head(cargo[p]))
        /\ OnNodeUpdate(p, Head(line[p])) /\ UNCHANGED <<run, local>>
    BY <1>8 DEF AdmitTasks, Admit
  <2>2. State(p) \in {"register", "idle", "unregister"}
    BY DEF State
  <2>3. cargo' \in [Procs -> Seq(Contexts)]
    BY <1>t, <1>7, <2>1, <2>2, PostedCargo
  <2>4. nodeInfos' \in Tables
    BY <1>t, <1>7, <2>1, RegisterContexts
  <2>5. global' \in [Procs -> SUBSET Procs]
    BY <1>t, <1>7, <2>1, UpdateTypes
  <2> QED
    BY <1>t, <2>1, <2>3, <2>4, <2>5
<1>9. ASSUME NEW p \in Procs, DismissTasks(p)
      PROVE  Types
  <2>1. /\ line[p] # <<>> /\ cargo' = Rest(p)
        /\ OnNodeUnregister(p, Head(line[p]), Head(cargo[p]))
        /\ OnNodeUpdate(p, Head(line[p])) /\ UNCHANGED <<run, local>>
    BY <1>9 DEF DismissTasks, Dismiss
  <2>2. nodeInfos' \in Tables
    BY <1>t, <1>7, <2>1, RegisterContexts
  <2>3. global' \in [Procs -> SUBSET Procs]
    BY <1>t, <1>7, <2>1, UpdateTypes
  <2> QED
    BY <1>t, <1>7, <2>1, <2>2, <2>3
<1>10. ASSUME NEW p \in Procs, IgnoreTasks(p)
       PROVE  Types
  BY <1>t, <1>7, <1>10 DEF IgnoreTasks, Ignore, runVars
<1>11. ASSUME NEW p \in Procs, StartRun(p) \/ ReportRun(p) \/ StopRun(p) \/ FailRun(p)
       PROVE  Types
  <2>1. global' \in [Procs -> SUBSET Procs]
    BY <1>t, <1>11, HearTypes DEF StartRun, ReportRun, StopRun, FailRun
  <2> QED
    BY <1>t, <1>11, <2>1 DEF StartRun, ReportRun, StopRun, FailRun, taskVars
<1>12. NextAll => Types
  BY <1>2, <1>3, <1>4, <1>5, <1>6, <1>8, <1>9, <1>10, <1>11 DEF NextAll
<1>13. NextAll => \A q \in Procs : Len(cargo'[q]) = Len(line'[q])
  <2>1. CASE RunStep
    BY <1>t, <2>1 DEF RunStep, StartRun, ReportRun, StopRun, FailRun, taskVars, vars
  <2>2. CASE NextAll /\ ~RunStep
    BY <1>t, <2>2, TasksTurn, CargoLengths
  <2> QED
    BY <2>1, <2>2
<1> QED
  BY <1>0, <1>1, <1>12, <1>13 DEF TaskTypeOK, NodeTasksTypeOK, Tables

-----------------------------------------------------------------------------
\* A process that runs knows of its own tasks that it has them, ...
OwnOffers ==
  \A p \in Procs : life[p] \in Active =>
    \A t \in Offers[p] : NodeInfo(p) \in nodeInfos[p][t]

\* ... and says so in all it posts.
Loaded ==
  \A p \in Procs : \A k \in 1..Len(line[p]) :
    \A t \in Offers[line[p][k].by] : cargo[p][k][t] # {}

Offered(p, q) == \A t \in Offers[q] : NodeInfo(q) \in nodeInfos[p][t]

\* Who lists a node knows the tasks of the process that is there now, or is
\* about to get its first info.
Learnt ==
  \A p, q \in Procs :
    /\ p # q /\ life[p] \in Subscribed /\ life[q] \in Present
    /\ \E e \in nodes[p] : NodeOf[e.by] = NodeOf[q]
    => Registering(p, q) \/ Offered(p, q)

LEMMA EquippedAtStart ==
  ASSUME TypeOK, nodeInfos \in Tables, NextAll, ~RunStep, NEW q \in Procs,
         life[q] = "new", life'[q] # "new"
  PROVE  nodeInfos'[q] = AddOwn(q)
<1>1. ASSUME NEW p \in Procs, Start(p)
      PROVE  p = q
  BY <1>1 DEF Start, Initialize, TypeOK
<1>2. ASSUME NEW p \in Procs,
             \/ AnnounceTasks(p) \/ UnregisterTasks(p) \/ EndTasks(p)
             \/ AdmitTasks(p) \/ DismissTasks(p) \/ IgnoreTasks(p)
             \/ Subscribe(p) \/ Idle(p) \/ Leave(p) \/ Store(p)
      PROVE  FALSE
  BY <1>2 DEF AnnounceTasks, UnregisterTasks, EndTasks, AdmitTasks, DismissTasks,
              IgnoreTasks, Announce, Unregister, Exit, Crash, End, Admit, Dismiss,
              Ignore, Subscribe, Idle, Leave, Store, TypeOK, Subscribed
<1> QED
  BY <1>1, <1>2 DEF NextAll, RunStep, Start, Tables

\* An info of another node changes nothing in what is known of this one.
LEMMA OthersKept ==
  ASSUME NEW known, NEW sent, NEW x \in NodeInfos, NEW y \in known, x.nodeId # y.nodeId
  PROVE  y \in Registered(known, sent, x) /\ y \in RemoveNodeId(known, x.nodeId)
BY DEF Registered, AddNodeId, RemoveNodeId

LEMMA LearnsKeeps ==
  ASSUME TaskTypeOK, NEW p \in Procs, Learns(p), NEW q \in Procs,
         NodeOf[line[p][1].by] # NodeOf[q], Offered(p, q)
  PROVE  Offered(p, q)'
<1> SUFFICES ASSUME NEW t \in Offers[q]
             PROVE  NodeInfo(q) \in nodeInfos'[p][t]
  BY DEF Offered, NodeInfo
<1>t. TypeOK /\ line[p] \in Seq(Infos) /\ nodeInfos \in Tables /\ t \in Tasks
  BY NodeTasksAssumption DEF TaskTypeOK, TypeOK, NodeTasksTypeOK, Tables
<1> DEFINE i == line[p][1]
           x == NodeInfo(i.by)
<1>1. Head(line[p]) = i /\ i \in Infos
  BY <1>t, TailOf DEF Learns
<1>2. x \in NodeInfos /\ x.nodeId = NodeOf[i.by] /\ NodeInfo(q).nodeId = NodeOf[q]
  BY <1>t, <1>1, OwnContexts DEF NodeInfo, Infos
<1>3. NodeInfo(q) \in nodeInfos[p][t]
  BY DEF Offered
<1>4. /\ NodeInfo(q) \in Registered(nodeInfos[p][t], Head(cargo[p])[t], x)
      /\ NodeInfo(q) \in RemoveNodeId(nodeInfos[p][t], NodeOf[i.by])
  BY <1>2, <1>3, OthersKept
<1> HIDE DEF i, x
<1>5. \/ nodeInfos'[p][t] = Registered(nodeInfos[p][t], Head(cargo[p])[t], NodeInfo(i.by))
      \/ nodeInfos'[p][t] = RemoveNodeId(nodeInfos[p][t], NodeOf[i.by])
      \/ nodeInfos'[p][t] = nodeInfos[p][t]
  BY <1>t, <1>1 DEF Learns
<1> QED
  BY <1>3, <1>4, <1>5 DEF x

LEMMA OwnOffersStep ==
  ASSUME TaskTypeOK, Structure, Foreign, OwnOffers, Moves, NextAll, ~RunStep
  PROVE  OwnOffers'
<1> SUFFICES ASSUME NEW p \in Procs, life'[p] \in Active
             PROVE  Offered(p, p)'
  BY DEF OwnOffers, Offered
<1>t. TypeOK /\ line[p] \in Seq(Infos) /\ nodeInfos \in Tables /\ TaskTurns(p)
  BY TasksTurn DEF TaskTypeOK, TypeOK, NodeTasksTypeOK, Tables, Structure
<1>1. CASE life[p] = "new"
  <2>1. nodeInfos'[p] = AddOwn(p)
    BY <1>t, <1>1, EquippedAtStart DEF Tables, Active, Subscribed
  <2> QED
    BY <2>1, NodeTasksAssumption DEF AddOwn, Offered, NodeInfo
<1>2. CASE life[p] # "new"
  <2>1. Offered(p, p)
    BY <1>2 DEF OwnOffers, Offered, Moves, LifeMoves
  <2>2. CASE nodeInfos'[p] = nodeInfos[p]
    BY <2>1, <2>2 DEF Offered, NodeInfo
  <2>3. CASE Learns(p)
    <3>1. 1 \in 1..Len(line[p])
      BY <1>t, <2>3, TailOf DEF Learns
    <3> QED
      BY <1>t, <2>1, <2>3, <3>1, LearnsKeeps DEF Foreign
  <2>4. ~Equips(p) /\ ~Forgets(p)
    BY <1>2 DEF Equips, Forgets, Active, Subscribed, Over
  <2> QED
    BY <1>t, <2>2, <2>3, <2>4 DEF TaskTurns, Stays, Cuts, Receives
<1> QED
  BY <1>1, <1>2

LEMMA LoadedStep ==
  ASSUME TaskTypeOK, OwnOffers, Loaded, Unheard, NextAll, ~RunStep
  PROVE  Loaded'
<1> SUFFICES ASSUME NEW p \in Procs, NEW k \in 1..Len(line'[p]),
                    NEW t \in Offers[line'[p][k].by]
             PROVE  cargo'[p][k][t] # {}
  BY DEF Loaded
<1>t. /\ TypeOK /\ line[p] \in Seq(Infos) /\ cargo[p] \in Seq(Contexts)
      /\ Len(cargo[p]) = Len(line[p]) /\ TaskTurns(p) /\ nodeInfos \in Tables
  BY TasksTurn DEF TaskTypeOK, TypeOK, NodeTasksTypeOK, Tables
<1>1. ASSUME NEW j \in 1..Len(line[p]), line'[p][k] = line[p][j],
             cargo'[p][k] = cargo[p][j]
      PROVE  cargo'[p][k][t] # {}
  BY <1>1 DEF Loaded
<1>2. CASE Stays(p) \/ Equips(p)
  BY <1>1, <1>2 DEF Stays, Equips
<1>3. CASE Forgets(p)
  BY <1>3 DEF Forgets
<1>4. CASE Cuts(p)
  <2>1. PICK n \in 0..Len(line[p]) :
          line'[p] = SubSeq(line[p], 1, n) /\ cargo'[p] = SubSeq(cargo[p], 1, n)
    BY <1>4 DEF Cuts
  <2>2. /\ k \in 1..Len(line[p]) /\ line'[p][k] = line[p][k]
        /\ cargo'[p][k] = cargo[p][k]
    BY <1>t, <2>1
  <2> QED
    BY <1>1, <2>2
<1>5. CASE Receives(p)
  <2>1. PICK r \in Procs, s \in {"register", "idle", "unregister"} :
          /\ life[r] \in Subscribed \cup {"left"}
          /\ line'[p] = Append(line[p], Info(r, s))
          /\ cargo'[p] = Append(cargo[p], Own(r))
    BY <1>5 DEF Receives
  <2>2. Info(r, s) \in Infos /\ Info(r, s).by = r /\ Own(r) \in Contexts
    BY <1>t, OwnInfo, OwnContexts
  <2>3. CASE k = Len(line[p]) + 1
    <3>1. line'[p][k].by = r /\ cargo'[p][k] = Own(r)
      BY <1>t, <2>1, <2>2, <2>3
    <3>2. NodeInfo(r) \in nodeInfos[r][t] /\ t \in Tasks
      BY <2>1, <3>1, NodeTasksAssumption DEF OwnOffers, Active
    <3>3. cargo'[p][k][t] = nodeInfos[r][t]
      BY <3>1, <3>2 DEF Own
    <3> QED
      BY <3>2, <3>3
  <2>4. CASE k \in 1..Len(line[p])
    <3>1. line'[p][k] = line[p][k] /\ cargo'[p][k] = cargo[p][k]
      BY <1>t, <2>1, <2>2, <2>4
    <3> QED
      BY <1>1, <2>4, <3>1
  <2>5. k \in 1..Len(line[p]) + 1
    BY <1>t, <2>1, <2>2
  <2> QED
    BY <1>t, <2>3, <2>4, <2>5
<1>6. CASE Learns(p)
  <2>1. line[p] # <<>> /\ line'[p] = Tail(line[p]) /\ cargo'[p] = Tail(cargo[p])
    BY <1>6 DEF Learns
  <2>2. k + 1 \in 1..Len(line[p]) /\ line'[p][k] = line[p][k + 1]
    BY <1>t, <2>1, TailOf
  <2>3. cargo'[p][k] = cargo[p][k + 1]
    BY <1>t, <2>1, <2>2
  <2> QED
    BY <1>1, <2>2, <2>3
<1> QED
  BY <1>t, <1>2, <1>3, <1>4, <1>5, <1>6 DEF TaskTurns

\* When a process handles its line, it learns the tasks that come with it, and
\* it learns nothing otherwise.
LEMMA HandlesLearns ==
  ASSUME TaskTypeOK, NEW p \in Procs, TaskTurns(p), life[p] \in Subscribed,
         life'[p] \in Subscribed
  PROVE  /\ Handles(p) => Learns(p)
         /\ Keeps(p) \/ (\E r \in Procs, s \in {"register", "idle", "unregister"} :
                           Gets(p, r, s))
              => nodeInfos'[p] = nodeInfos[p]
<1>t. TypeOK /\ line[p] \in Seq(Infos)
  BY DEF TaskTypeOK, TypeOK
<1>1. ~Equips(p) /\ ~Forgets(p) /\ ~Cuts(p)
  BY DEF Equips, Forgets, Cuts, Subscribed, Over
<1>2. Len(line'[p]) < Len(line[p]) => ~Stays(p) /\ ~Receives(p)
  <2>1. \A r \in Procs, s \in {"register", "idle", "unregister"} :
          Len(Append(line[p], Info(r, s))) = Len(line[p]) + 1
    BY <1>t, OwnInfo
  <2> QED
    BY <1>t, <2>1 DEF Stays, Receives
<1>3. Learns(p) => Len(line'[p]) < Len(line[p])
  BY <1>t DEF Learns
<1>4. Handles(p) => Len(line'[p]) < Len(line[p])
  BY <1>t DEF Handles
<1>5. ASSUME Keeps(p) \/ (\E r \in Procs, s \in {"register", "idle", "unregister"} :
                            Gets(p, r, s))
      PROVE  ~Learns(p)
  <2>1. \A r \in Procs, s \in {"register", "idle", "unregister"} :
          Len(Append(line[p], Info(r, s))) = Len(line[p]) + 1
    BY <1>t, OwnInfo
  <2> QED
    BY <1>t, <1>3, <1>5, <2>1 DEF Keeps, Gets
<1> QED
  BY <1>1, <1>2, <1>4, <1>5 DEF TaskTurns, Stays, Receives

LEMMA LearntStep ==
  ASSUME TaskTypeOK, Structure, Foreign, Foreign', Returns, Loaded, Learnt, Moves,
         Turns, \A r \in Procs : TaskTurns(r)
  PROVE  Learnt'
<1> SUFFICES ASSUME NEW p \in Procs, NEW q \in Procs, p # q,
                    life'[p] \in Subscribed, life'[q] \in Present,
                    NEW e \in nodes'[p], NodeOf[e.by] = NodeOf[q]
             PROVE  Registering(p, q)' \/ Offered(p, q)'
  BY DEF Learnt
<1>t. TypeOK /\ line[p] \in Seq(Infos) /\ NodeOf[q] # NodeOf[p] /\ TaskTurns(p)
  BY DEF Structure, TypeOK, Foreign
<1>1. life[p] \in Subscribed
  BY DEF Turns, LineTurns, Opens
<1>2. CASE Gets(p, q, "register")
  BY <1>t, <1>2, GotLine DEF Registering
<1>3. CASE life[q] \in Present
  \* The first info of q stays in the line, unless it is handled now.
  <2>1. ASSUME NEW k \in 1..Len(line[p]), line[p][k].by = q,
               line[p][k].state = "register", ~(k = 1 /\ Handles(p))
        PROVE  Registering(p, q)'
    <3>1. PICK l \in 1..Len(line'[p]) : line'[p][l] = line[p][k]
      BY <1>t, <1>1, <2>1, KeptInLine DEF Turns
    <3> QED
      BY <2>1, <3>1 DEF Registering
  <2>2. e \in nodes[p] => Registering(p, q) \/ Offered(p, q)
    BY <1>1, <1>3 DEF Learnt
  <2>3. CASE ~Handles(p)
    <3>1. /\ Keeps(p) \/ (\E r \in Procs, s \in {"register", "idle", "unregister"} :
                            Gets(p, r, s))
          /\ nodes'[p] = nodes[p]
      BY <1>1, <2>3 DEF Turns, LineTurns, Opens, Subscribed, Fresh, Keeps, Gets
    <3>2. nodeInfos'[p] = nodeInfos[p]
      BY <1>t, <1>1, <3>1, HandlesLearns
    <3> QED
      BY <2>1, <2>2, <2>3, <3>1, <3>2 DEF Registering, Offered, NodeInfo
  <2>4. CASE Handles(p)
    <3> DEFINE i == line[p][1]
    <3>1. /\ Head(line[p]) = i /\ 1 \in 1..Len(line[p]) /\ line[p] # <<>>
      BY <1>t, <2>4, TailOf DEF Handles
    <3>2. Learns(p)
      BY <1>t, <1>1, <2>4, HandlesLearns
    <3>3. e \in nodes[p] \/ (e.by = i.by /\ ~Known(p, i))
      BY <1>t, <2>4, Handled DEF Identity
    <3>4. CASE NodeOf[i.by] # NodeOf[q]
      <4>1. e \in nodes[p]
        BY <3>3, <3>4
      <4>2. ASSUME Registering(p, q) PROVE Registering(p, q)'
        BY <2>1, <3>4, <4>2 DEF Registering
      <4> QED
        BY <2>2, <3>2, <3>4, <4>1, <4>2, LearnsKeeps
    <3>5. CASE NodeOf[i.by] = NodeOf[q] /\ i.by # q
      <4>1. PICK k \in 1..Len(line[p]) : line[p][k].by = q /\ line[p][k].state = "register"
        BY <1>1, <1>3, <3>1, <3>5 DEF Returns, Registering
      <4>2. k # 1
        BY <3>5, <4>1
      <4> QED
        BY <2>1, <4>1, <4>2
    <3>6. CASE i.by = q
      <4>1. i.state # "unregister"
        BY <1>3, <3>1, <3>6 DEF Structure, Posts, Leavers, Present
      <4>2. CASE i.state = "idle" /\ Known(p, i) /\ nodeInfos'[p] = nodeInfos[p]
        <5>1. e \in nodes[p]
          BY <3>3, <4>2
        <5>2. ASSUME Registering(p, q) PROVE Registering(p, q)'
          BY <2>1, <4>2, <5>2 DEF Registering
        <5> QED
          BY <2>2, <4>2, <5>1, <5>2 DEF Offered, NodeInfo
      <4>3. ASSUME NEW t \in Offers[q],
                   nodeInfos'[p] = [u \in Tasks |->
                     IF Head(cargo[p])[u] # {}
                     THEN Registered(nodeInfos[p][u], Head(cargo[p])[u], NodeInfo(i.by))
                     ELSE nodeInfos[p][u]]
            PROVE  NodeInfo(q) \in nodeInfos'[p][t]
        <5>1. cargo[p][1][t] # {} /\ t \in Tasks
          BY <3>1, <3>6, NodeTasksAssumption DEF Loaded
        <5>2. Head(cargo[p]) = cargo[p][1]
          BY <1>t, <3>1 DEF TaskTypeOK, NodeTasksTypeOK
        <5>3. nodeInfos'[p][t]
                = Registered(nodeInfos[p][t], Head(cargo[p])[t], NodeInfo(i.by))
          BY <4>3, <5>1, <5>2
        <5> QED
          BY <3>6, <5>3 DEF Registered, AddNodeId
      <4>4. CASE nodeInfos'[p] = [u \in Tasks |->
                   IF Head(cargo[p])[u] # {}
                   THEN Registered(nodeInfos[p][u], Head(cargo[p])[u], NodeInfo(i.by))
                   ELSE nodeInfos[p][u]]
        BY <4>3, <4>4 DEF Offered, NodeInfo
      <4> QED
        BY <3>1, <3>2, <4>1, <4>2, <4>4 DEF Learns
    <3> QED
      BY <3>4, <3>5, <3>6
  <2> QED
    BY <2>3, <2>4
<1> QED
  BY <1>t, <1>1, <1>2, <1>3 DEF Turns, LifeTurns, Told, Hearers

-----------------------------------------------------------------------------
FreshList == \A p \in Procs : life[p] \in Fresh => global[p] = {}

NotStopped ==
  \A p \in Procs : life[p] \in Subscribed => \A r \in global[p] : run[r] # "stopped"

\* While a run is listed whose process has been replaced, the first info of the
\* one that has taken its place is on its way.
NotReplaced ==
  \A p \in Procs : life[p] \in Subscribed =>
    \A r \in global[p] :
      /\ r # p => NodeOf[r] # NodeOf[p]
      /\ \A q \in Procs \ {p} :
           life[q] \in Present /\ q # r /\ NodeOf[q] = NodeOf[r] => Registering(p, q)

\* An info adds no run.
LEMMA RunsShrink ==
  ASSUME NEW p \in Procs, TaskTurns(p), FreshList
  PROVE  global'[p] \subseteq global[p] /\ (life[p] \in Fresh => global'[p] = {})
<1>1. \/ global'[p] = global[p] \/ global'[p] = {}
      \/ global'[p] = {r \in global[p] : NodeOf[r] # NodeOf[Head(line[p]).by]}
  BY DEF TaskTurns, Stays, Equips, Forgets, Cuts, Receives, Learns
<1> QED
  BY <1>1 DEF FreshList

LEMMA FreshListStep ==
  ASSUME FreshList, Moves, \A p \in Procs : TaskTurns(p)
  PROVE  FreshList'
BY RunsShrink DEF FreshList, Moves, LifeMoves

LEMMA NotStoppedStep ==
  ASSUME FreshList, NotStopped, run' = run, Turns, \A p \in Procs : TaskTurns(p)
  PROVE  NotStopped'
<1> SUFFICES ASSUME NEW p \in Procs, life'[p] \in Subscribed, NEW r \in global'[p]
             PROVE  run'[r] # "stopped"
  BY DEF NotStopped
<1>1. r \in global[p] /\ life[p] \in Subscribed
  BY RunsShrink DEF Turns, LineTurns, Opens, Subscribed, Over
<1> QED
  BY <1>1 DEF NotStopped

LEMMA NotReplacedStep ==
  ASSUME TaskTypeOK, Structure, Alone', FreshList, NotReplaced, Turns,
         \A p \in Procs : TaskTurns(p)
  PROVE  NotReplaced'
<1> SUFFICES ASSUME NEW p \in Procs, life'[p] \in Subscribed, NEW r \in global'[p]
             PROVE  /\ r # p => NodeOf[r] # NodeOf[p]
                    /\ \A q \in Procs \ {p} :
                         life'[q] \in Present /\ q # r /\ NodeOf[q] = NodeOf[r]
                           => Registering(p, q)'
  BY DEF NotReplaced
<1>t. TypeOK /\ line[p] \in Seq(Infos) /\ TaskTurns(p)
  BY DEF Structure, TypeOK
<1>1. r \in global[p] /\ life[p] \in Subscribed
  BY RunsShrink DEF Turns, LineTurns, Opens, Subscribed, Over
<1>2. r # p => NodeOf[r] # NodeOf[p]
  BY <1>1 DEF NotReplaced
<1>3. ASSUME NEW q \in Procs \ {p}, life'[q] \in Present, q # r, NodeOf[q] = NodeOf[r]
      PROVE  Registering(p, q)'
  <2>1. NodeOf[q] # NodeOf[p]
    BY <1>3 DEF Alone, Active, Subscribed, Present, Over
  <2>2. CASE Gets(p, q, "register")
    BY <1>t, <2>2, GotLine DEF Registering
  <2>3. CASE life[q] \in Present
    <3>1. PICK k \in 1..Len(line[p]) : line[p][k].by = q /\ line[p][k].state = "register"
      BY <1>1, <1>3, <2>3 DEF NotReplaced, Registering
    <3>2. ASSUME k = 1, Handles(p)
          PROVE  FALSE
      <4>1. Learns(p)
        BY <1>t, <1>1, <3>2, HandlesLearns
      <4>2. Head(line[p]) = line[p][1]
        BY <1>t, <3>2, TailOf DEF Handles
      <4>3. global'[p] = {x \in global[p] : NodeOf[x] # NodeOf[q]}
        BY <3>1, <3>2, <4>1, <4>2 DEF Learns, Updates
      <4> QED
        BY <1>3, <4>3
    <3>3. PICK l \in 1..Len(line'[p]) : line'[p][l] = line[p][k]
      BY <1>t, <1>1, <3>2, KeptInLine DEF Turns
    <3> QED
      BY <3>1, <3>3 DEF Registering
  <2> QED
    BY <1>1, <1>3, <2>1, <2>2, <2>3 DEF Turns, LifeTurns, Told, Hearers
<1> QED
  BY <1>2, <1>3

\* The event of a run reaches those who have subscribed, and comes of a process
\* that is there.
LEMMA RunsStep ==
  ASSUME TaskTypeOK, Alone, FreshList, NotStopped, NotReplaced, RunStep
  PROVE  FreshList' /\ NotStopped' /\ NotReplaced'
<1>t. /\ global \in [Procs -> SUBSET Procs]
      /\ run \in [Procs -> {"none", "running", "stopped", "errored"}]
  BY DEF TaskTypeOK, NodeTasksTypeOK
<1>1. PICK r \in Procs : StartRun(r) \/ ReportRun(r) \/ StopRun(r) \/ FailRun(r)
  BY DEF RunStep
<1>2. life' = life /\ line' = line /\ life[r] \in Active
  BY <1>1 DEF StartRun, ReportRun, StopRun, FailRun, MayRun, vars, Active, Subscribed
<1>3. /\ \A p \in Procs : life[p] \notin Subscribed => global'[p] = global[p]
      /\ \A p \in Procs : global'[p] \subseteq global[p] \cup {r}
      /\ run'[r] = "stopped" => \A p \in Procs : life[p] \in Subscribed => r \notin global'[p]
      /\ \A x \in Procs \ {r} : run'[x] = run[x]
  <2>1. CASE StartRun(r) \/ ReportRun(r)
    BY <1>t, <2>1 DEF StartRun, ReportRun, Hear, MayRun
  <2>2. CASE StopRun(r)
    BY <1>t, <2>2 DEF StopRun, Hear, MayRun
  <2>3. CASE FailRun(r)
    BY <1>t, <2>3 DEF FailRun, MayRun
  <2> QED
    BY <1>1, <2>1, <2>2, <2>3
<1>4. FreshList'
  BY <1>2, <1>3 DEF FreshList, Fresh, Subscribed
<1>5. NotStopped'
  BY <1>t, <1>2, <1>3 DEF NotStopped
<1>6. NotReplaced'
  <2> SUFFICES ASSUME NEW p \in Procs, life[p] \in Subscribed, NEW x \in global'[p]
               PROVE  /\ x # p => NodeOf[x] # NodeOf[p]
                      /\ \A q \in Procs \ {p} :
                           life[q] \in Present /\ q # x /\ NodeOf[q] = NodeOf[x]
                             => Registering(p, q)
    BY <1>2 DEF NotReplaced, Registering
  <2>1. CASE x \in global[p]
    BY <2>1 DEF NotReplaced
  <2>2. CASE x = r
    BY <1>2, <2>2 DEF Alone, Active, Subscribed, Present, Over
  <2> QED
    BY <1>3, <2>1, <2>2
<1> QED
  BY <1>4, <1>5, <1>6

-----------------------------------------------------------------------------
Catalogue ==
  /\ Agreement /\ TaskTypeOK
  /\ OwnOffers /\ Loaded /\ Learnt
  /\ FreshList /\ NotStopped /\ NotReplaced

LEMMA TaskTypeInit == InitAll => TaskTypeOK
<1>1. NoTasks \in Contexts
  BY DEF NoTasks, Contexts
<1> QED
  BY <1>1, StructureInit DEF InitAll, Init, TaskTypeOK, Structure, NodeTasksTypeOK

LEMMA CatalogueInit == InitAll => Catalogue
BY AgreementInit, TaskTypeInit
DEF InitAll, Init, Catalogue, OwnOffers, Loaded, Learnt, FreshList, NotStopped,
    NotReplaced, Active, Subscribed, Fresh

LEMMA CatalogueStep ==
  ASSUME Overlap = "none", Catalogue, [NextAll]_allVars
  PROVE  Catalogue'
<1>c. /\ Agreement /\ TaskTypeOK /\ OwnOffers /\ Loaded /\ Learnt
      /\ FreshList /\ NotStopped /\ NotReplaced
  BY DEF Catalogue
<1>a. Structure /\ Unheard /\ Alone /\ Foreign /\ Returns
  BY <1>c DEF Agreement, Structure
<1>n. [Next]_vars
  BY NodesStep DEF allVars, vars
<1>1. Agreement' /\ Moves /\ Turns
  BY <1>c, <1>n, AgreementStep
<1>2. TaskTypeOK'
  BY <1>c, <1>a, TaskTypeStep
<1>3. CASE UNCHANGED allVars
  BY <1>1, <1>2, <1>c, <1>3
  DEF Catalogue, allVars, vars, taskVars, runVars, OwnOffers, Loaded, Learnt, FreshList,
      NotStopped, NotReplaced, Registering, Offered
<1>4. CASE RunStep
  <2>1. FreshList' /\ NotStopped' /\ NotReplaced'
    BY <1>c, <1>a, <1>4, RunsStep
  <2>2. UNCHANGED <<vars, taskVars>>
    BY <1>4 DEF RunStep, StartRun, ReportRun, StopRun, FailRun
  <2>3. OwnOffers' /\ Loaded' /\ Learnt'
    BY <1>c, <2>2 DEF vars, taskVars, OwnOffers, Loaded, Learnt, Registering, Offered
  <2> QED
    BY <1>1, <1>2, <2>1, <2>3 DEF Catalogue
<1>5. CASE NextAll /\ ~RunStep
  <2>1. run' = run /\ \A p \in Procs : TaskTurns(p)
    BY <1>c, <1>a, <1>5, TasksTurn
  <2>2. Alone' /\ Foreign'
    BY <1>1 DEF Agreement
  <2>3. OwnOffers' /\ Loaded'
    BY <1>c, <1>a, <1>1, <1>5, OwnOffersStep, LoadedStep
  <2>4. Learnt'
    BY <1>c, <1>a, <1>1, <2>1, <2>2, LearntStep
  <2>5. FreshList' /\ NotStopped' /\ NotReplaced'
    BY <1>c, <1>a, <1>1, <2>1, <2>2, FreshListStep, NotStoppedStep, NotReplacedStep
  <2> QED
    BY <1>1, <1>2, <2>3, <2>4, <2>5 DEF Catalogue
<1> QED
  BY <1>3, <1>4, <1>5

\* A process with its tasks and runs takes the steps of a process of
\* SystemNodes, so that what holds of the nodes holds with the tasks too.
THEOREM TasksAreNodes == SpecAll => Init /\ [][Next]_vars
<1>1. InitAll => Init
  BY DEF InitAll
<1>2. [NextAll]_allVars => [Next]_vars
  BY NodesStep DEF allVars, vars
<1> QED
  BY <1>1, <1>2, PTL DEF SpecAll

\* The variables have their types, and each info in a line has its cargo,
\* however many processes of a node there are at a time.
THEOREM TasksTypeCorrect == SpecAll => []NodeTasksTypeOK
<1> DEFINE Inv == Structure /\ TaskTypeOK
<1>1. InitAll => Inv
  BY StructureInit, TaskTypeInit DEF InitAll
<1>2. Inv /\ [NextAll]_allVars => Inv'
  <2> SUFFICES ASSUME Inv, [NextAll]_allVars PROVE Inv'
    OBVIOUS
  <2>1. [Next]_vars
    BY NodesStep DEF allVars, vars
  <2>2. Structure'
    BY <2>1, StructureStep
  <2>3. TaskTypeOK'
    BY TaskTypeStep DEF Structure
  <2> QED
    BY <2>2, <2>3
<1>3. Inv => NodeTasksTypeOK
  BY DEF TaskTypeOK
<1> HIDE DEF Inv
<1> QED
  BY <1>1, <1>2, <1>3, PTL DEF SpecAll

LEMMA AlwaysCatalogue ==
  ASSUME Overlap = "none"
  PROVE  SpecAll => []Catalogue
<1>1. Catalogue /\ [NextAll]_allVars => Catalogue'
  BY CatalogueStep
<1> QED
  BY CatalogueInit, <1>1, PTL DEF SpecAll

\* Once all infos are handled, a process knows its own tasks, and of each
\* process it lists all the tasks that one has: also where one has taken the
\* place of another, and where what the sender believes of third nodes is out
\* of date.
THEOREM AlwaysOffersKnown ==
  ASSUME Overlap = "none"
  PROVE  SpecAll => []OffersKnown
<1>1. Catalogue => OffersKnown
  <2> SUFFICES ASSUME Catalogue, Quiet, NEW p \in Procs, life[p] \in Present,
                      NEW q \in Procs, life[q] \in Present, q = p \/ Known(p, Me(q))
               PROVE  Offered(p, q)
    BY DEF OffersKnown, Offered
  <2>1. life[p] \in Subscribed /\ life[p] \in Active
    BY DEF Present, Subscribed, Active
  <2>2. CASE q = p
    BY <2>1, <2>2 DEF Catalogue, OwnOffers, Offered
  <2>3. CASE q # p
    <3>1. PICK e \in nodes[p] : NodeOf[e.by] = NodeOf[q]
      BY <2>3 DEF Known, EqNode, Me
    <3>2. ~Registering(p, q)
      BY DEF Quiet, Registering
    <3> QED
      BY <2>1, <2>3, <3>1, <3>2 DEF Catalogue, Learnt
  <2> QED
    BY <2>2, <2>3
<1> QED
  BY AlwaysCatalogue, <1>1, PTL

\* Once all infos are handled, a process lists no run that has stopped, and none
\* of a process whose place another one of its node has taken, in whatever order
\* the events of the runs and the infos of the nodes have come.
THEOREM AlwaysRunsOfThePresent ==
  ASSUME Overlap = "none"
  PROVE  SpecAll => []RunsOfThePresent
<1>1. Catalogue => RunsOfThePresent
  <2> SUFFICES ASSUME Catalogue, Quiet, NEW p \in Procs, life[p] \in Present,
                      NEW r \in global[p]
               PROVE  /\ run[r] # "stopped"
                      /\ \A q \in Procs :
                           life[q] \in Present /\ NodeOf[q] = NodeOf[r] => q = r
    BY DEF RunsOfThePresent
  <2>1. life[p] \in Subscribed
    BY DEF Present, Subscribed
  <2>2. run[r] # "stopped"
    BY <2>1 DEF Catalogue, NotStopped
  <2>3. ASSUME NEW q \in Procs, life[q] \in Present, NodeOf[q] = NodeOf[r], q # r
        PROVE  FALSE
    <3>1. /\ r # p => NodeOf[r] # NodeOf[p]
          /\ q # p => Registering(p, q)
      BY <2>1, <2>3 DEF Catalogue, NotReplaced
    <3>2. ~Registering(p, q)
      BY DEF Quiet, Registering
    <3> QED
      BY <2>3, <3>1, <3>2
  <2> QED
    BY <2>2, <2>3
<1> QED
  BY AlwaysCatalogue, <1>1, PTL
=============================================================================
