--------------------------- MODULE TaskRunnerProofs ---------------------------
(***************************************************************************)
(* Proofs about TaskRunner for any number of runs, any forest of subtasks  *)
(* and dependencies, and any $parallel.                                    *)
(***************************************************************************)
EXTENDS TaskRunner, FiniteSetTheorems, WellFoundedInduction, TLAPS

-----------------------------------------------------------------------------
(* The inductive invariant *)

\* Children have higher numbers than their parent.
Tree ==
  \A r \in Nrs : parent[r] < r /\ (r > created => parent[r] = 0)

\* The lists hold runs that exist.
Listed == todo \cup running \cup done \subseteq 1..created

\* How the flags of the single runs go with the lists of the runner.
Flags ==
  /\ active \subseteq running
  /\ done \subseteq stopped
  /\ stopped \subseteq done \cup running
  /\ active \cap stopped = {}
  /\ fresh # 0 => fresh \in active /\ waits[fresh] = 0

\* How $finished goes with the lists and the promise of run().
Settled ==
  /\ finished => AllDone
  /\ finished <=> promise = "resolved"

Structure ==
  /\ TypeOK
  /\ Tree
  /\ Listed
  /\ ListsApart
  /\ Flags
  /\ Settled
  /\ ChildrenFirst
  /\ AwaitsOpenRun

-----------------------------------------------------------------------------
LEMMA StructureInit == Init => Structure
<1> SUFFICES ASSUME Init PROVE Structure
  OBVIOUS
<1>1. TypeOK
  <2>1. waits \in [Nrs -> 0..MaxRuns] /\ entry \in Entries
    BY RunnerAssumption DEF Init, Entries, Nobody
  <2>2. todo \in SUBSET Nrs
    BY RunnerAssumption DEF Init, Nrs
  <2>3. promise \in {"none", "pending", "resolved", "rejected"}
    BY DEF Init
  <2>4. created \in 0..MaxRuns /\ parent \in [Nrs -> 0..MaxRuns]
    BY DEF Init
  <2>5. due \in Nat /\ fresh \in 0..MaxRuns
    BY RunnerAssumption DEF Init
  <2>7. finished \in BOOLEAN
    BY Zenon DEF Init
  <2>6. /\ running \in SUBSET Nrs /\ done \in SUBSET Nrs
        /\ active \in SUBSET Nrs /\ stopped \in SUBSET Nrs
    BY DEF Init
  <2> QED
    BY <2>1, <2>2, <2>3, <2>4, <2>5, <2>6, <2>7 DEF TypeOK
<1>2. Tree /\ Listed /\ Flags /\ Settled /\ ChildrenFirst /\ AwaitsOpenRun
  BY DEF Init, Preorder, Tree, Listed, Flags, Settled, ChildrenFirst,
         AwaitsOpenRun, Nrs
<1>3. ListsApart
  BY DEF Init, ListsApart
<1> QED
  BY <1>1, <1>2, <1>3 DEF Structure

LEMMA StructureRun == Structure /\ Run => Structure'
<1> SUFFICES ASSUME Structure, Run PROVE Structure'
  OBVIOUS
<1> USE DEF Structure, Run, lists, states
<1>1. TypeOK'
  BY RunnerAssumption DEF TypeOK, Entries
<1>2. Tree' /\ Listed' /\ Flags' /\ ListsApart'
  BY DEF Tree, Listed, Flags, ListsApart
<1>3. Settled'
  BY DEF Settled, AllDone
<1>4. ChildrenFirst' /\ AwaitsOpenRun'
  BY DEF ChildrenFirst, Children, AwaitsOpenRun
<1> QED
  BY <1>1, <1>2, <1>3, <1>4

\* An emit that returns leaves the counter and the entry well typed.
LEMMA ReturnTyped ==
  ASSUME TypeOK, Return, due > 0
  PROVE  due' \in Nat /\ entry' \in Entries
  BY RunnerAssumption DEF TypeOK, Return, Entries, Nobody

LEMMA StructureFinish == Structure /\ Finish => Structure'
<1> SUFFICES ASSUME Structure, Finish PROVE Structure'
  OBVIOUS
<1> USE DEF Structure, Finish, lists, states
<1>1. TypeOK'
  <2>1. due' \in Nat /\ entry' \in Entries
    BY ReturnTyped
  <2> QED
    BY <2>1, RunnerAssumption DEF TypeOK
<1>2. Tree' /\ Listed' /\ Flags' /\ ListsApart'
  BY DEF Tree, Listed, Flags, ListsApart
<1>3. Settled'
  BY DEF Settled, AllDone
<1>4. ChildrenFirst' /\ AwaitsOpenRun'
  BY DEF ChildrenFirst, Children, AwaitsOpenRun
<1> QED
  BY <1>1, <1>2, <1>3, <1>4

LEMMA StructureRest == Structure /\ Rest => Structure'
<1> SUFFICES ASSUME Structure, Rest PROVE Structure'
  OBVIOUS
<1> USE DEF Structure, Rest, lists, states
<1>1. TypeOK'
  <2>1. due' \in Nat /\ entry' \in Entries
    BY ReturnTyped
  <2> QED
    BY <2>1, RunnerAssumption DEF TypeOK
<1>2. Tree' /\ Listed' /\ Flags' /\ ListsApart'
  BY DEF Tree, Listed, Flags, ListsApart
<1>3. Settled'
  BY DEF Settled, AllDone
<1>4. ChildrenFirst' /\ AwaitsOpenRun'
  BY DEF ChildrenFirst, Children, AwaitsOpenRun
<1> QED
  BY <1>1, <1>2, <1>3, <1>4

\* Ending one wait, of whomever, keeps the type of the others.
LEMMA ZeroedWaits ==
  ASSUME NEW w \in [Nrs -> 0..MaxRuns], NEW q, NEW t, NEW w1,
         w1 = [w EXCEPT ![q] = IF @ = t THEN 0 ELSE @] \/ w1 = [w EXCEPT ![q] = 0]
  PROVE  /\ w1 \in [Nrs -> 0..MaxRuns]
         /\ \A r \in Nrs : w1[r] = w[r] \/ w1[r] = 0
<1>1. 0 \in 0..MaxRuns
  BY RunnerAssumption
<1>2. CASE q \in Nrs
  BY <1>1, <1>2
<1>3. CASE q \notin Nrs
  <2>1. w1 = w
    BY <1>3
  <2> QED
    BY <2>1
<1> QED
  BY <1>2, <1>3

\* What next() may select: a run that has no flag and whose children are done,
\* so that it is in one of todoNrs and runningNrs, or in no list.
LEMMA PickedIsOpen ==
  ASSUME Structure, NEW t \in Nrs, Picks(t)
  PROVE  /\ t \in 1..created
         /\ t \notin active /\ t \notin stopped /\ t \notin done
         /\ Children(t) \subseteq done
         /\ ~finished /\ due > 0
  BY DEF Structure, Picks, Selected, Candidates, Ready, Flags

\* No child of t is out of the lists, so t may leave todoNrs.
LEMMA LeavesTodo ==
  ASSUME Structure, NEW t \in todo, Children(t) \subseteq done,
         NEW r \in 1..created, parent[r] \in todo,
         r \notin todo \cup running \cup done
  PROVE  parent[r] \in todo \ {t}
  BY DEF Children

LEMMA StructureStartTask ==
  ASSUME Structure, NEW t \in Nrs, StartTask(t)
  PROVE  Structure'
<1> USE DEF StartTask
<1>1. /\ t \in 1..created
      /\ t \notin active /\ t \notin stopped /\ t \notin done
      /\ Children(t) \subseteq done /\ ~finished
  BY PickedIsOpen
<1>2. TypeOK'
  BY DEF Structure, TypeOK, Nrs
<1>3. Tree' /\ Listed'
  BY <1>1 DEF Structure, Tree, Listed
<1>4. ListsApart'
  <2>1. /\ todo' \cap running' = {} /\ todo' \cap done' = {}
        /\ running' \cap done' = {}
    BY <1>1 DEF Structure, ListsApart
  <2>2. ASSUME NEW r \in 1..created
        PROVE  r \in todo' \cup running' \cup done' \/ parent[r] \in todo'
    BY <1>1, LeavesTodo DEF Structure, ListsApart
  <2> QED
    BY <2>1, <2>2 DEF ListsApart
<1>5. Flags'
  BY <1>1 DEF Structure, Flags, AwaitsOpenRun
<1>6. Settled'
  BY <1>1 DEF Structure, Settled
<1>7. ChildrenFirst'
  BY <1>1 DEF Structure, ChildrenFirst, Children
<1>8. AwaitsOpenRun'
  BY DEF Structure, AwaitsOpenRun
<1> QED
  BY <1>2, <1>3, <1>4, <1>5, <1>6, <1>7, <1>8 DEF Structure

LEMMA StructureStartLacking ==
  ASSUME Structure, NEW t \in Nrs, StartLacking(t)
  PROVE  Structure'
<1> USE DEF StartLacking, Occupied
<1>1. /\ t \in 1..created
      /\ t \notin active /\ t \notin stopped /\ t \notin done
      /\ Children(t) \subseteq done /\ ~finished
  BY PickedIsOpen
<1>2. /\ waits' \in [Nrs -> 0..MaxRuns]
      /\ \A r \in Nrs : waits'[r] = waits[r] \/ waits'[r] = 0
  <2>1. waits' = waits \/ \E q : waits' = [waits EXCEPT ![q] = IF @ = t THEN 0 ELSE @]
    OBVIOUS
  <2> QED
    BY <2>1, ZeroedWaits DEF Structure, TypeOK
<1>3. TypeOK'
  BY <1>2, RunnerAssumption DEF Structure, TypeOK
<1>4. Tree' /\ Listed'
  BY <1>1 DEF Structure, Tree, Listed
<1>5. ListsApart'
  <2>1. /\ todo' \cap running' = {} /\ todo' \cap done' = {}
        /\ running' \cap done' = {}
    BY <1>1 DEF Structure, ListsApart
  <2>2. ASSUME NEW r \in 1..created
        PROVE  r \in todo' \cup running' \cup done' \/ parent[r] \in todo'
    BY <1>1, LeavesTodo DEF Structure, ListsApart
  <2> QED
    BY <2>1, <2>2 DEF ListsApart
<1>6. Flags'
  BY <1>1 DEF Structure, Flags
<1>7. Settled'
  BY <1>1 DEF Structure, Settled
<1>8. ChildrenFirst'
  BY <1>1 DEF Structure, ChildrenFirst, Children
<1>9. AwaitsOpenRun'
  BY <1>2 DEF Structure, AwaitsOpenRun
<1> QED
  BY <1>3, <1>4, <1>5, <1>6, <1>7, <1>8, <1>9 DEF Structure

LEMMA StructureRefuse ==
  ASSUME Structure, NEW t \in Nrs, Refuse(t)
  PROVE  Structure'
<1> USE DEF Refuse
<1>1. /\ t \in 1..created
      /\ t \notin active /\ t \notin stopped /\ t \notin done
      /\ Children(t) \subseteq done /\ ~finished /\ due > 0
  BY PickedIsOpen
<1>2. t \notin todo
  BY DEF Structure, ListsApart
<1>3. /\ waits' \in [Nrs -> 0..MaxRuns]
      /\ \A r \in Nrs : waits'[r] = waits[r] \/ waits'[r] = 0
  <2>1. waits' = waits \/ \E q : waits' = [waits EXCEPT ![q] = 0]
    OBVIOUS
  <2> QED
    BY <2>1, ZeroedWaits DEF Structure, TypeOK
<1>4. TypeOK'
  <2>1. due' \in Nat /\ entry' \in Entries
    BY <1>1, ReturnTyped DEF Structure
  <2>2. promise' \in {"none", "pending", "resolved", "rejected"}
    BY DEF Structure, TypeOK
  <2> QED
    BY <1>3, <2>1, <2>2, RunnerAssumption DEF Structure, TypeOK
<1>5. Tree' /\ Listed'
  BY <1>1 DEF Structure, Tree, Listed
<1>6. ListsApart'
  BY <1>1, <1>2 DEF Structure, ListsApart
<1>7. Flags'
  BY <1>1 DEF Structure, Flags
<1>8. Settled'
  BY <1>1 DEF Structure, Settled
<1>9. ChildrenFirst'
  BY <1>1 DEF Structure, ChildrenFirst, Children
<1>10. AwaitsOpenRun'
  BY <1>3 DEF Structure, AwaitsOpenRun
<1> QED
  BY <1>4, <1>5, <1>6, <1>7, <1>8, <1>9, <1>10 DEF Structure

LEMMA StructureTaskDone ==
  ASSUME Structure, NEW r \in active, waits[r] = 0, TaskDone(r),
         due' \in Nat, entry' \in Entries
  PROVE  Structure'
<1> USE DEF TaskDone, Freed
<1>1. r \in running /\ r \in Nrs /\ ~finished
  BY DEF Structure, Flags, Settled, AllDone, TypeOK
<1>2. /\ waits' \in [Nrs -> 0..MaxRuns]
      /\ \A q \in Nrs : waits'[q] = IF waits[q] = r THEN 0 ELSE waits[q]
  BY RunnerAssumption DEF Structure, TypeOK, Nrs, Answered
<1>3. TypeOK'
  BY <1>1, <1>2, RunnerAssumption DEF Structure, TypeOK, Nrs
<1>4. Tree' /\ Listed'
  BY <1>1 DEF Structure, Tree, Listed
<1>5. ListsApart'
  BY <1>1 DEF Structure, ListsApart
<1>6. Flags'
  BY <1>1 DEF Structure, Flags
<1>7. Settled'
  BY <1>1 DEF Structure, Settled
<1>8. ChildrenFirst'
  BY <1>1 DEF Structure, ChildrenFirst, Children
<1>9. AwaitsOpenRun'
  BY <1>1, <1>2 DEF Structure, AwaitsOpenRun
<1> QED
  BY <1>3, <1>4, <1>5, <1>6, <1>7, <1>8, <1>9 DEF Structure

LEMMA StructureEnd ==
  ASSUME Structure, NEW r \in Nrs, End(r)
  PROVE  Structure'
<1>1. due' \in Nat /\ entry' \in Entries
  BY RunnerAssumption DEF End, Entries, Nrs
<1> QED
  BY <1>1, StructureTaskDone DEF End

LEMMA StructureEndAtOnce ==
  ASSUME Structure, NEW r \in Nrs, EndAtOnce(r)
  PROVE  Structure'
<1>1. r # 0 /\ r \in active /\ waits[r] = 0
  BY DEF Structure, Flags, EndAtOnce, Nrs
<1>2. due' \in Nat /\ entry' \in Entries
  BY DEF EndAtOnce, Structure, TypeOK
<1> QED
  BY <1>1, <1>2, StructureTaskDone DEF EndAtOnce

LEMMA StructureAddTask ==
  ASSUME Structure, NEW r \in Nrs, NEW k \in {1, 2}, NEW awaited \in BOOLEAN,
         AddTask(r, k, awaited)
  PROVE  Structure'
<1> DEFINE n == created + 1
<1> USE DEF AddTask, Enqueued
<1>1. /\ n \in Nrs /\ created' \in Nrs /\ created' = created + k
      /\ r \in running /\ ~finished /\ r # n
  BY RunnerAssumption
     DEF Structure, TypeOK, Nrs, Flags, Listed, Settled, AllDone
<1>2. /\ parent' \in [Nrs -> 0..MaxRuns]
      /\ \A c \in 1..created : parent'[c] = parent[c]
      /\ parent'[n] = 0
      /\ k = 2 => parent'[n + 1] = n
      /\ \A c \in Nrs : c > created' => parent'[c] = 0
  BY <1>1, RunnerAssumption DEF Structure, TypeOK, Nrs, Tree
<1>3. waits' \in [Nrs -> 0..MaxRuns]
  BY <1>1, RunnerAssumption DEF Structure, TypeOK, Nrs
<1>4. TypeOK'
  BY <1>1, <1>2, <1>3, RunnerAssumption DEF Structure, TypeOK, Nrs, Entries
<1>5. Tree'
  BY <1>1, <1>2, RunnerAssumption DEF Structure, TypeOK, Tree, Nrs
<1>6. Listed'
  BY <1>1 DEF Structure, TypeOK, Listed
<1>7. ListsApart'
  <2>1. n \notin running /\ n \notin done
    BY DEF Structure, TypeOK, Listed
  <2>2. ASSUME NEW q \in 1..created'
        PROVE  q \in todo' \cup running' \cup done' \/ parent'[q] \in todo'
    <3>1. q \in 1..created \/ q = n \/ (k = 2 /\ q = n + 1)
      BY DEF Structure, TypeOK
    <3> QED
      BY <3>1, <1>2 DEF Structure, ListsApart
  <2> QED
    BY <2>1, <2>2 DEF Structure, ListsApart
<1>8. Flags'
  BY <1>1 DEF Structure, Flags
<1>9. Settled'
  BY <1>1 DEF Structure, Settled
<1>10. ChildrenFirst'
  <2> SUFFICES ASSUME NEW q \in active \cup done, NEW c \in 1..created',
                      parent'[c] = q
               PROVE  c \in done
    BY DEF ChildrenFirst, Children
  <2>1. q \in 1..created
    BY DEF Structure, Listed, Flags
  <2>2. c \in 1..created \/ c = n \/ (k = 2 /\ c = n + 1)
    BY DEF Structure, TypeOK
  <2>3. c \in 1..created
    BY <2>1, <2>2, <1>2 DEF Structure, TypeOK
  <2> QED
    BY <2>3, <1>2 DEF Structure, ChildrenFirst, Children
<1>11. AwaitsOpenRun'
  <2>1. n \notin done
    BY DEF Structure, TypeOK, Listed
  <2> QED
    BY <2>1 DEF Structure, TypeOK, AwaitsOpenRun
<1> QED
  BY <1>4, <1>5, <1>6, <1>7, <1>8, <1>9, <1>10, <1>11 DEF Structure

LEMMA StructureStep == Structure /\ [Next]_vars => Structure'
<1> SUFFICES ASSUME Structure, [Next]_vars PROVE Structure'
  OBVIOUS
<1>1. CASE Run
  BY <1>1, StructureRun
<1>2. CASE Finish
  BY <1>2, StructureFinish
<1>3. CASE Rest
  BY <1>3, StructureRest
<1>4. ASSUME NEW r \in Nrs,
             StartTask(r) \/ StartLacking(r) \/ Refuse(r) \/ End(r) \/ EndAtOnce(r)
      PROVE  Structure'
  BY <1>4, StructureStartTask, StructureStartLacking, StructureRefuse,
     StructureEnd, StructureEndAtOnce
<1>5. ASSUME NEW r \in Nrs, NEW k \in {1, 2}, NEW awaited \in BOOLEAN,
             AddTask(r, k, awaited)
      PROVE  Structure'
  BY <1>5, StructureAddTask
<1>6. CASE UNCHANGED vars
  BY <1>6 DEF vars, lists, states, Structure, TypeOK, Tree, Listed, ListsApart,
              Flags, Settled, AllDone, ChildrenFirst, Children, AwaitsOpenRun
<1> QED
  BY <1>1, <1>2, <1>3, <1>4, <1>5, <1>6 DEF Next

LEMMA StructureInvariant == Spec => []Structure
  BY StructureInit, StructureStep, PTL DEF Spec

-----------------------------------------------------------------------------
\* Every list, flag and counter of the runner keeps its type.
THEOREM TypeCorrect == Spec => []TypeOK
<1>1. Structure => TypeOK
  BY DEF Structure
<1> QED
  BY <1>1, StructureInvariant, PTL

\* A run is in exactly one of todoNrs, runningNrs and doneNrs, except for the
\* children of a task added at runtime, whose parent is still to do.
THEOREM ListsAlwaysApart == Spec => []ListsApart
<1>1. Structure => ListsApart
  BY DEF Structure
<1> QED
  BY <1>1, StructureInvariant, PTL

\* The function of a task is called after all its subtasks and dependencies
\* have called back.
THEOREM AlwaysChildrenFirst == Spec => []ChildrenFirst
<1>1. Structure => ChildrenFirst
  BY DEF Structure
<1> QED
  BY <1>1, StructureInvariant, PTL

\* asPromise() of an added run waits only for a run that has not called back.
THEOREM AlwaysAwaitsOpenRun == Spec => []AwaitsOpenRun
<1>1. Structure => AwaitsOpenRun
  BY DEF Structure
<1> QED
  BY <1>1, StructureInvariant, PTL

-----------------------------------------------------------------------------
(* The number of runs under way *)

LEMMA RunningFinite ==
  ASSUME TypeOK
  PROVE  IsFiniteSet(running) /\ Cardinality(running) \in Nat
<1>1. IsFiniteSet(Nrs)
  BY RunnerAssumption, FS_Interval DEF Nrs
<1>2. IsFiniteSet(running)
  BY <1>1, FS_Subset DEF TypeOK
<1> QED
  BY <1>2, FS_CardinalityType

LEMMA PlaceTaken ==
  ASSUME TypeOK, SlotFree, NEW t, running' = running \cup {t}
  PROVE  AtMostParallel'
<1>1. Cardinality(running \cup {t}) \in {Cardinality(running), Cardinality(running) + 1}
  BY RunningFinite, FS_AddElement
<1>2. Cardinality(running') \in {Cardinality(running), Cardinality(running) + 1}
  BY <1>1
<1> QED
  BY <1>1, <1>2, RunningFinite, RunnerAssumption DEF SlotFree, AtMostParallel

LEMMA PlaceFreed ==
  ASSUME TypeOK, AtMostParallel, running' \subseteq running
  PROVE  AtMostParallel'
<1>1. Cardinality(running') <= Cardinality(running)
  BY RunningFinite, FS_Subset
<1>2. Cardinality(running') \in Nat
  BY RunningFinite, FS_Subset, FS_CardinalityType
<1> QED
  BY <1>1, <1>2, RunningFinite, RunnerAssumption DEF AtMostParallel

LEMMA AtMostParallelStep ==
  TypeOK /\ AtMostParallel /\ [Next]_vars => AtMostParallel'
<1> SUFFICES ASSUME TypeOK, AtMostParallel, [Next]_vars PROVE AtMostParallel'
  OBVIOUS
<1>1. ASSUME NEW t \in Nrs, StartTask(t) \/ StartLacking(t) \/ Refuse(t)
      PROVE  AtMostParallel'
  <2>1. SlotFree /\ running' = running \cup {t}
    BY <1>1 DEF StartTask, StartLacking, Refuse, Picks, Occupied
  <2> QED
    BY <2>1, PlaceTaken
<1>2. ASSUME NEW r \in Nrs, End(r) \/ EndAtOnce(r)
      PROVE  AtMostParallel'
  BY <1>2, PlaceFreed DEF End, EndAtOnce, TaskDone, Freed
<1>3. CASE \/ Run \/ Finish \/ Rest \/ UNCHANGED vars
           \/ \E r \in Nrs, k \in {1, 2}, awaited \in BOOLEAN : AddTask(r, k, awaited)
  BY <1>3 DEF Run, Finish, Rest, AddTask, vars, lists, AtMostParallel
<1> QED
  BY <1>1, <1>2, <1>3 DEF Next

\* runningNrs never holds more numbers than $parallel, whatever nests, throws
\* or is added at runtime.
THEOREM AlwaysAtMostParallel == Spec => []AtMostParallel
<1>1. Init => AtMostParallel
  BY FS_EmptySet, RunnerAssumption DEF Init, AtMostParallel
<1>2. Structure => TypeOK
  BY DEF Structure
<1> QED
  BY <1>1, <1>2, AtMostParallelStep, StructureInvariant, PTL DEF Spec

-----------------------------------------------------------------------------
(* run() resolves neither too early nor not at all *)

\* With nothing to do and nothing under way, every run is done: a child that
\* is in no list would have its parent among those to do.
LEMMA NothingLeft ==
  ASSUME Structure, AllDone
  PROVE  done = 1..created /\ active = {}
  BY DEF Structure, AllDone, ListsApart, Listed, Flags

\* run() resolves only when every run, added ones included, has called back.
THEOREM AlwaysResolvedMeansDone == Spec => []ResolvedMeansDone
<1>1. Structure => ResolvedMeansDone
  BY NothingLeft DEF Structure, Settled, ResolvedMeansDone
<1> QED
  BY <1>1, StructureInvariant, PTL

\* A set of run numbers that is not empty has a greatest element.
LEMMA Greatest ==
  ASSUME NEW S \in SUBSET Nrs, S # {}
  PROVE  \E m \in S : \A r \in S : r <= m
<1> DEFINE T == {MaxRuns - r : r \in S}
<1>1. T \subseteq Nat /\ T # {}
  BY RunnerAssumption DEF Nrs
<1>2. PICK x \in T : \A y \in T : ~(<<y, x>> \in OpToRel(<, Nat))
  BY <1>1, WFMin, NatLessThanWellFounded
<1>3. ASSUME NEW y \in T PROVE x <= y
  <2>1. x \in Nat /\ y \in Nat
    BY <1>1
  <2>2. ~(y < x)
    BY <1>2, <2>1 DEF OpToRel
  <2> QED
    BY <2>1, <2>2
<1>4. PICK m \in S : x = MaxRuns - m
  OBVIOUS
<1>5. ASSUME NEW r \in S PROVE r <= m
  <2>1. MaxRuns - m <= MaxRuns - r
    BY <1>3, <1>4
  <2>2. m \in Int /\ r \in Int
    BY RunnerAssumption DEF Nrs
  <2> QED
    BY <2>1, <2>2, RunnerAssumption
<1> QED
  BY <1>5

\* If no run is under way and some run is not done, then the one of them with
\* the greatest number is ready, since its children have greater numbers.
LEMMA SomeRunReady ==
  ASSUME Structure, running = {}, NEW q \in 1..created, q \notin done
  PROVE  Candidates # {}
<1> DEFINE S == (1..created) \ done
<1>1. S \in SUBSET Nrs /\ q \in S
  BY RunnerAssumption DEF Structure, TypeOK, Nrs
<1>2. PICK m \in S : \A r \in S : r <= m
  BY <1>1, Greatest
<1>3. \A c \in 1..created : parent[c] = m => c \in done
  <2> SUFFICES ASSUME NEW c \in 1..created, parent[c] = m, c \in S PROVE FALSE
    OBVIOUS
  <2>1. m < c /\ c <= m
    BY <1>1, <1>2 DEF Structure, Tree
  <2> QED
    BY <2>1, <1>1 DEF Structure, TypeOK
<1>4. m \notin active /\ m \notin stopped
  BY DEF Structure, Flags
<1> QED
  BY <1>1, <1>3, <1>4 DEF Candidates, Ready, Children

\* The exception "Tasks are stucked!" of next() is never thrown.
THEOREM AlwaysNeverStuck == Spec => []NeverStuck
<1>1. Structure => NeverStuck
  <2> SUFFICES ASSUME Structure, ~AllDone, running = {}
               PROVE  Candidates # {}
    BY DEF NeverStuck
  <2>1. PICK q : q \in todo
    BY DEF AllDone
  <2>2. q \in 1..created /\ q \notin done
    BY <2>1 DEF Structure, Listed, ListsApart
  <2> QED
    BY <2>2, SomeRunReady
<1> QED
  BY <1>1, StructureInvariant, PTL

-----------------------------------------------------------------------------
(* No slot idles *)

\* Only a cascade that has run down leaves no emit of NEXT on the stack.
LEMMA NoIdleSlotStep ==
  Structure /\ NoIdleSlot /\ [Next]_vars => NoIdleSlot'
<1> SUFFICES ASSUME Structure, NoIdleSlot, [Next]_vars,
                    due' = 0, promise' = "pending", Unrefused', SlotFree'
             PROVE  Candidates' = {}
  BY DEF NoIdleSlot
<1> USE DEF lists, states
<1>1. CASE Rest
  <2>1. ~finished
    BY <1>1 DEF Rest, Structure, Settled
  <2>2. NothingToStart /\ UNCHANGED <<running, created, parent, lists, states>>
    BY <1>1, <2>1 DEF Rest
  <2> QED
    BY <2>2 DEF NothingToStart, SlotFree, Candidates, Ready, Children
<1>2. ASSUME NEW t \in Nrs, Refuse(t) PROVE FALSE
  <2>1. t \notin active /\ t \notin stopped
    BY <1>2, PickedIsOpen DEF Refuse
  <2> QED
    BY <1>2, <2>1 DEF Refuse, Unrefused
<1>3. ASSUME NEW t \in Nrs, StartTask(t) \/ StartLacking(t) PROVE FALSE
  BY <1>3 DEF StartTask, StartLacking, Picks, Structure, TypeOK
<1>4. ASSUME NEW r \in Nrs, End(r) \/ EndAtOnce(r) PROVE FALSE
  BY <1>4 DEF End, EndAtOnce, Structure, TypeOK
<1>5. CASE \/ Run \/ Finish
           \/ \E r \in Nrs, k \in {1, 2}, awaited \in BOOLEAN : AddTask(r, k, awaited)
  BY <1>5 DEF Run, Finish, AddTask
<1>6. CASE UNCHANGED vars
  BY <1>6 DEF vars, NoIdleSlot, Unrefused, SlotFree, Candidates, Ready, Children
<1> QED
  BY <1>1, <1>2, <1>3, <1>4, <1>5, <1>6 DEF Next

\* When the runner waits for the functions of its tasks and none was refused,
\* every slot is taken or no run is ready.
THEOREM AlwaysNoIdleSlot == Spec => []NoIdleSlot
<1>1. Init => NoIdleSlot
  BY DEF Init, NoIdleSlot
<1> QED
  BY <1>1, NoIdleSlotStep, StructureInvariant, PTL DEF Spec

-----------------------------------------------------------------------------
(* Refinement *)

LEMMA SameCardinality == \A S : Plan!Cardinality(S) = Cardinality(S)
  BY DEF Plan!Cardinality, Cardinality

LEMMA UnderWayIsRunning == Structure => Plan!UnderWay = running
  BY DEF Structure, ListsApart, Plan!UnderWay

LEMMA PlanStepSimulation ==
  Structure /\ [Next]_vars => [Plan!PlanStep]_(Plan!planVars)
<1> SUFFICES ASSUME Structure, Next
             PROVE  Plan!PlanStep \/ UNCHANGED (Plan!planVars)
  BY DEF vars, lists, states, Plan!planVars
<1> USE DEF lists, states
<1>1. Plan!UnderWay = running
  BY UnderWayIsRunning
<1>2. ASSUME NEW t \in Nrs, StartTask(t) \/ StartLacking(t) \/ Refuse(t)
      PROVE  Plan!PlanStep \/ UNCHANGED (Plan!planVars)
  <2>1. /\ Picks(t) /\ running' = running \cup {t}
        /\ UNCHANGED <<created, parent, done>>
    BY <1>2 DEF StartTask, StartLacking, Refuse, Occupied
  <2>2. /\ t \in 1..created /\ t \notin done
        /\ Children(t) \subseteq done
    BY <2>1, PickedIsOpen
  <2>3. CASE t \in running
    BY <2>1, <2>3 DEF Plan!planVars
  <2>4. CASE t \notin running
    <3>1. Plan!Cardinality(Plan!UnderWay) < Parallel
      BY <1>1, <2>1, SameCardinality DEF Picks, SlotFree
    <3>2. Plan!Below(t) \subseteq done
      BY <2>2 DEF Plan!Below, Children
    <3>3. Plan!Begin(t)
      BY <2>1, <2>2, <2>4, <3>1, <3>2 DEF Plan!Begin
    <3> QED
      BY <2>2, <3>3 DEF Plan!PlanStep
  <2> QED
    BY <2>3, <2>4
<1>3. ASSUME NEW r \in Nrs, End(r) \/ EndAtOnce(r)
      PROVE  Plan!PlanStep
  <2>1. r \in running /\ r \in 1..created
    BY <1>3 DEF End, EndAtOnce, Structure, Flags, Listed, Nrs
  <2>2. Plan!End(r)
    BY <1>1, <1>3, <2>1 DEF Plan!End, End, EndAtOnce, TaskDone, Freed
  <2> QED
    BY <2>1, <2>2 DEF Plan!PlanStep
<1>4. ASSUME NEW r \in Nrs, NEW k \in {1, 2}, NEW awaited \in BOOLEAN,
             AddTask(r, k, awaited)
      PROVE  Plan!PlanStep
  <2>1. running # {}
    BY <1>4 DEF AddTask, Structure, Flags
  <2>2. created \in Nat /\ created' = created + k
    BY <1>4, RunnerAssumption DEF AddTask, Structure, TypeOK
  <2>3. \A c \in 1..created : parent'[c] = parent[c]
    BY <1>4, <2>2, RunnerAssumption DEF AddTask, Structure, TypeOK, Nrs
  <2>4. ASSUME NEW c \in (created + 1)..created' PROVE parent'[c] \notin 1..created
    <3>1. c \in Nrs /\ (c = created + 1 \/ (k = 2 /\ c = created + 2))
      BY <1>4, <2>2, RunnerAssumption DEF AddTask, Nrs
    <3>2. parent'[c] = 0 \/ parent'[c] = created + 1
      BY <1>4, <2>2, <3>1 DEF AddTask, Structure, Tree
    <3> QED
      BY <2>2, <3>2
  <2>5. Plan!Grow
    BY <1>1, <1>4, <2>1, <2>2, <2>3, <2>4 DEF Plan!Grow, AddTask
  <2> QED
    BY <2>5 DEF Plan!PlanStep
<1>5. CASE Run \/ Finish \/ Rest
  BY <1>5 DEF Run, Finish, Rest, Plan!planVars
<1> QED
  BY <1>2, <1>3, <1>4, <1>5 DEF Next

\* The runner, with its lists, flags and cascades of events, implements the
\* plan: children before parents, at most $parallel under way, each run begun
\* and ended at most once, and new trees only from a run under way.
THEOREM RunnerImplementsPlan == Spec => ImplementsPlan
<1>1. Init => Plan!PlanInit
  BY DEF Init, Plan!PlanInit
<1> QED
  BY <1>1, PlanStepSimulation, StructureInvariant, PTL
     DEF Spec, ImplementsPlan, Plan!PlanSpec
=============================================================================
