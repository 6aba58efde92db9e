--------------------------- MODULE TaskStoreProofs ---------------------------
(***************************************************************************)
(* Theorems about the table of TaskLogs (TaskStore): what the monitors     *)
(* leave in it when all of them have saved all events of a run.            *)
(*                                                                         *)
(* The argument has three layers, each an invariant that uses those before *)
(* it: the events that wait at a monitor, in their order (Queued); the     *)
(* first row of a run and key, which stays what it is, and what the calls  *)
(* of save() know of it (Tabled); and who is still going to bring the last *)
(* state, or to remove a row that is one too many (Owed).                  *)
(***************************************************************************)
EXTENDS TaskStore, FiniteSetTheorems, FunctionTheorems, SequenceTheorems,
        WellFoundedInduction, TLAPS

-----------------------------------------------------------------------------
(* Sequences, least rows and new ids *)

\* A sequence that has lost its i-th element.
LEMMA Shortened ==
  ASSUME NEW S, NEW s \in Seq(S), NEW i \in 1..Len(s)
  PROVE  LET t == SubSeq(s, 1, i - 1) \o SubSeq(s, i + 1, Len(s))
         IN  /\ t \in Seq(S) /\ Len(t) = Len(s) - 1
             /\ \A j \in 1..Len(s) - 1 : t[j] = IF j < i THEN s[j] ELSE s[j + 1]
<1> DEFINE a == SubSeq(s, 1, i - 1)
           b == SubSeq(s, i + 1, Len(s))
<1>1. Len(s) \in Nat /\ i \in Nat /\ \A j \in 1..Len(s) : s[j] \in S
  OBVIOUS
<1>2. /\ a \in Seq(S) /\ Len(a) = i - 1 /\ \A j \in 1..i - 1 : a[j] = s[j]
  <2>1. \A j \in 1..i - 1 : s[j] \in S
    BY <1>1
  <2>2. /\ a \in Seq(S) /\ Len(a) = IF 1 <= i - 1 THEN i - 1 - 1 + 1 ELSE 0
        /\ \A j \in 1..i - 1 - 1 + 1 : a[j] = s[1 + j - 1]
    BY <1>1, <2>1, SubSeqProperties
  <2> QED BY <1>1, <2>2
<1>3. b \in Seq(S) /\ Len(b) = Len(s) - i /\ \A j \in 1..Len(s) - i : b[j] = s[i + j]
  <2>1. \A j \in i + 1..Len(s) : s[j] \in S
    BY <1>1
  <2>2. /\ b \in Seq(S) /\ Len(b) = IF i + 1 <= Len(s) THEN Len(s) - (i + 1) + 1 ELSE 0
        /\ \A j \in 1..Len(s) - (i + 1) + 1 : b[j] = s[(i + 1) + j - 1]
    BY <1>1, <2>1, SubSeqProperties
  <2> QED BY <1>1, <2>2
<1> HIDE DEF a, b
<1>4. /\ a \o b \in Seq(S) /\ Len(a \o b) = Len(a) + Len(b)
      /\ \A j \in 1..Len(a) + Len(b) : (a \o b)[j] = IF j <= Len(a) THEN a[j] ELSE b[j - Len(a)]
  <2>1. a \in Seq(S) /\ b \in Seq(S)
    BY <1>2, <1>3
  <2> QED BY <2>1, ConcatProperties
<1>5. Len(a \o b) = Len(s) - 1
  BY <1>1, <1>2, <1>3, <1>4
<1>6. ASSUME NEW j \in 1..Len(s) - 1 PROVE (a \o b)[j] = IF j < i THEN s[j] ELSE s[j + 1]
  <2>1. (a \o b)[j] = IF j <= i - 1 THEN a[j] ELSE b[j - (i - 1)]
    BY <1>1, <1>2, <1>3, <1>4
  <2>2. CASE j < i
    BY <1>1, <1>2, <2>1, <2>2
  <2>3. CASE ~(j < i)
    <3>1. j - (i - 1) \in 1..Len(s) - i /\ i + (j - (i - 1)) = j + 1
      BY <1>1, <2>3
    <3>2. b[j - (i - 1)] = s[j + 1]
      BY <1>3, <3>1
    <3>3. ~(j <= i - 1)
      BY <1>1, <2>3
    <3> QED BY <2>1, <2>3, <3>2, <3>3
  <2> QED BY <2>2, <2>3
<1> QED BY <1>4, <1>5, <1>6 DEF a, b

\* Among rows there is one with the least id.
LEMMA LeastId ==
  ASSUME NEW R \in SUBSET Rows, R # {}
  PROVE  \E x \in R : \A y \in R : x.id <= y.id
<1> DEFINE I == {x.id : x \in R}
<1>1. I \in SUBSET Nat /\ I # {}
  BY DEF Rows
<1>2. PICK b \in I : \A c \in I : ~(<<c, b>> \in OpToRel(<, Nat))
  BY <1>1, WFMin, NatLessThanWellFounded
<1>3. \A c \in I : b <= c
  <2> TAKE c \in I
  <2>1. ~(c < b)
    BY <1>1, <1>2 DEF OpToRel
  <2> QED BY <1>1, <2>1, SMTT(20)
<1>4. PICK x \in R : x.id = b
  BY <1>2
<1> QED BY <1>3, <1>4

LEMMA OldestIs ==
  ASSUME NEW R \in SUBSET Rows, R # {}
  PROVE  OldestOf(R) \in R /\ \A y \in R : OldestOf(R).id <= y.id
BY LeastId DEF OldestOf

\* The storage gives ids that it has not given before, to each row its own.
LEMMA NewIdsAreNew ==
  ASSUME NEW new, IsFiniteSet(new), ids \in Nat
  PROVE  /\ NewIds(new) \in [new -> ids + 1..ids + Cardinality(new)]
         /\ \A x, y \in new : NewIds(new)[x] = NewIds(new)[y] => x = y
         /\ Cardinality(new) \in Nat
<1> DEFINE n == Cardinality(new)
<1>1. n \in Nat /\ ExistsBijection(1..n, new)
  BY FS_CardinalityType
<1> HIDE DEF n
<1>2. PICK f : f \in Bijection(new, 1..n)
  <2>1. ExistsBijection(new, 1..n)
    BY <1>1, Fun_ExistsBijSymmetric
  <2>2. Bijection(new, 1..n) # {}
    BY <2>1 DEF ExistsBijection
  <2> QED BY <2>2
<1>3. f \in [new -> 1..n] /\ \A x, y \in new : f[x] = f[y] => x = y
  BY <1>2 DEF Bijection, Injection, IsInjective
<1> DEFINE g == [x \in new |-> ids + f[x]]
<1>4. /\ g \in [new -> ids + 1..ids + n]
      /\ \A x, y \in new : g[x] = g[y] => x = y
  BY <1>1, <1>3
<1>5. \E h \in [new -> ids + 1..ids + n] : \A x, y \in new : h[x] = h[y] => x = y
  BY <1>4
<1> QED BY <1>1, <1>5 DEF NewIds, n

-----------------------------------------------------------------------------
(* Types *)

\* The rows a call is about to save are as many as the run has keys.
FiniteLogs == \A m \in Monitors : \A i \in 1..Len(doing[m]) : IsFiniteSet(doing[m][i].logs)

Typed == TypeOK /\ FiniteLogs

\* What a call saves are rows, a finite number of them, and so are those it removes.
LEMMA UpdatedAre ==
  ASSUME NEW e \in Events, NEW found \in SUBSET Rows
  PROVE  /\ Updated(e, found) \in SUBSET Rows /\ IsFiniteSet(Updated(e, found))
         /\ Duplicates(found) \in SUBSET Rows
<1> DEFINE Of(k) == {x \in found : x.key = k}
           Row(k) == [id |-> IF \E x \in found : x.key = k THEN OldestOf(Of(k)).id ELSE 0,
                      run |-> e.run, key |-> k, state |-> e.nr]
           F == [k \in Keys |-> Row(k)]
           U == {Row(k) : k \in Keys}
<1>1. \A k \in Keys : Row(k) \in Rows
  <2> TAKE k \in Keys
  <2>1. (\E x \in found : x.key = k) => OldestOf(Of(k)) \in Rows
    BY OldestIs
  <2>2. OldestOf(Of(k)).id \in Nat \/ ~\E x \in found : x.key = k
    BY <2>1 DEF Rows
  <2>3. e.run \in Runs /\ e.nr \in States
    BY DEF Events
  <2> QED BY <2>2, <2>3 DEF Rows
<1> HIDE DEF Row
<1>2. F \in Surjection(Keys, U)
  BY DEF Surjection
<1>3. IsFiniteSet(U)
  <2>1. IsFiniteSet(Keys)
    BY TaskStoreAssumption
  <2> QED BY <1>2, <2>1, FS_Surjection
<1>4. Updated(e, found) = U
  BY DEF Updated, Row
<1> QED BY <1>1, <1>3, <1>4 DEF Duplicates

LEMMA UpdatedIsSave ==
  ASSUME TypeOK, NEW m \in Monitors, NEW i \in 1..Len(doing[m])
  PROVE  LET e == doing[m][i].event
         IN  /\ [event |-> e, next |-> "save", logs |-> Updated(e, OfRun(e.run)),
                 toremove |-> Duplicates(OfRun(e.run))] \in Saves
             /\ IsFiniteSet(Updated(e, OfRun(e.run)))
             /\ e \in Events /\ OfRun(e.run) \in SUBSET Rows
<1>1. doing[m][i] \in Saves /\ table \in SUBSET Rows
  BY DEF TypeOK
<1> DEFINE e == doing[m][i].event
<1>2. e \in Events /\ OfRun(e.run) \in SUBSET Rows
  BY <1>1 DEF Saves, OfRun
<1> QED BY <1>2, UpdatedAre DEF Saves

\* The i-th call leaves, the others stay as they are.
LEMMA WithoutIs ==
  ASSUME TypeOK, NEW m \in Monitors, NEW i \in 1..Len(doing[m]), doing' = Without(m, i)
  PROVE  /\ doing' \in [Monitors -> Seq(Saves)]
         /\ \A n \in Monitors : n # m => doing'[n] = doing[n]
         /\ Len(doing'[m]) = Len(doing[m]) - 1
         /\ \A j \in 1..Len(doing[m]) - 1 :
              doing'[m][j] = IF j < i THEN doing[m][j] ELSE doing[m][j + 1]
<1>1. doing \in [Monitors -> Seq(Saves)] /\ doing[m] \in Seq(Saves)
  BY DEF TypeOK
<1> DEFINE d == doing[m]
           t == SubSeq(d, 1, i - 1) \o SubSeq(d, i + 1, Len(d))
<1>2. /\ t \in Seq(Saves) /\ Len(t) = Len(d) - 1
      /\ \A j \in 1..Len(d) - 1 : t[j] = IF j < i THEN d[j] ELSE d[j + 1]
  BY <1>1, Shortened
<1>3. doing' = [doing EXCEPT ![m] = t]
  BY DEF Without
<1> HIDE DEF t
<1> QED BY <1>1, <1>2, <1>3

\* The i-th call goes on, the others stay as they are.
With(m, i, c) == [doing EXCEPT ![m][i] = c]

LEMMA OnlyOne ==
  ASSUME TypeOK, NEW m \in Monitors, NEW i \in 1..Len(doing[m]), NEW c \in Saves,
         doing' = With(m, i, c)
  PROVE  /\ doing' \in [Monitors -> Seq(Saves)]
         /\ \A n \in Monitors : n # m => doing'[n] = doing[n]
         /\ Len(doing'[m]) = Len(doing[m])
         /\ \A j \in 1..Len(doing[m]) : doing'[m][j] = IF j = i THEN c ELSE doing[m][j]
<1>1. doing \in [Monitors -> Seq(Saves)] /\ doing[m] \in Seq(Saves)
  BY DEF TypeOK
<1> DEFINE t == [doing[m] EXCEPT ![i] = c]
<1>2. /\ t \in Seq(Saves) /\ Len(t) = Len(doing[m])
      /\ \A j \in 1..Len(doing[m]) : t[j] = IF j = i THEN c ELSE doing[m][j]
  BY <1>1, ExceptSeq
<1>3. doing' = [doing EXCEPT ![m] = t]
  BY DEF With
<1> HIDE DEF t
<1> QED BY <1>1, <1>2, <1>3

\* What the storage holds after a save are rows with ids that it has given.
LEMMA StoredAre ==
  ASSUME TypeOK, NEW logs \in SUBSET Rows, IsFiniteSet(logs)
  PROVE  LET new == {x \in logs : x.id = 0}
         IN  /\ Stored(logs) \in SUBSET Rows
             /\ Cardinality(new) \in Nat
             /\ NewIds(new) \in [new -> ids + 1..ids + Cardinality(new)]
             /\ \A x, y \in new : NewIds(new)[x] = NewIds(new)[y] => x = y
<1> DEFINE new == {x \in logs : x.id = 0}
<1>1. IsFiniteSet(new)
  BY FS_Subset
<1>2. ids \in Nat /\ table \in SUBSET Rows
  BY DEF TypeOK
<1> HIDE DEF new
<1>3. /\ NewIds(new) \in [new -> ids + 1..ids + Cardinality(new)]
      /\ \A x, y \in new : NewIds(new)[x] = NewIds(new)[y] => x = y
      /\ Cardinality(new) \in Nat
  BY <1>1, <1>2, NewIdsAreNew
<1>4. \A x \in new : [x EXCEPT !.id = NewIds(new)[x]] \in Rows
  <2> TAKE x \in new
  <2>1. NewIds(new)[x] \in Nat
    BY <1>2, <1>3
  <2>2. x \in Rows
    BY DEF new
  <2> QED BY <2>1, <2>2 DEF Rows
<1>5. Stored(logs) = {x \in table : \A y \in logs : y.id # x.id}
                       \cup (logs \ new) \cup {[x EXCEPT !.id = NewIds(new)[x]] : x \in new}
  BY DEF Stored, new
<1>6. Stored(logs) \in SUBSET Rows
  BY <1>2, <1>4, <1>5
<1> QED BY <1>3, <1>6 DEF new

\* Every step keeps the types.
LEMMA TypeStep ==
  ASSUME Typed, [Next]_vars
  PROVE  Typed'
<1> USE DEF Typed
<1>1. TypeOK /\ FiniteLogs
  OBVIOUS
<1>2. CASE UNCHANGED vars
  BY <1>1, <1>2 DEF vars, TypeOK, FiniteLogs
<1> SUFFICES ASSUME Next PROVE Typed'
  BY <1>2
<1>3. PICK m \in Monitors :
        \/ \E r \in Runs : Hear(m, r)
        \/ Start(m) \/ Finish(m) \/ Finished(m)
        \/ Saving(m)
        \/ \E i \in 1..Len(doing[m]) : Refuse(m, i)
  BY DEF Next
<1> DEFINE d == doing[m]
<1>4. /\ d \in Seq(Saves) /\ Len(d) \in Nat /\ Len(d) <= Slots /\ Slots \in Nat
      /\ \A n \in Monitors : Len(doing[n]) <= Slots
      /\ \A j \in 1..Len(d) : d[j] \in Saves
  BY <1>1, TaskStoreAssumption DEF TypeOK
<1>5. ASSUME NEW i \in 1..Len(d), doing' = Without(m, i)
      PROVE  /\ doing' \in [Monitors -> Seq(Saves)]
             /\ \A n \in Monitors : Len(doing'[n]) <= Slots
             /\ FiniteLogs'
  <2>1. /\ doing' \in [Monitors -> Seq(Saves)]
        /\ \A n \in Monitors : n # m => doing'[n] = doing[n]
        /\ Len(doing'[m]) = Len(d) - 1
        /\ \A j \in 1..Len(d) - 1 : doing'[m][j] = IF j < i THEN d[j] ELSE d[j + 1]
    BY <1>1, <1>5, WithoutIs
  <2>2. \A n \in Monitors : Len(doing'[n]) <= Slots
    BY <1>4, <2>1
  <2>3. ASSUME NEW n \in Monitors, NEW j \in 1..Len(doing'[n])
        PROVE  IsFiniteSet(doing'[n][j].logs)
    <3>1. CASE n # m
      BY <1>1, <2>1, <3>1 DEF FiniteLogs
    <3>2. CASE n = m
      <4>1. j \in 1..Len(d) /\ j \in 1..Len(d) - 1 /\ j + 1 \in 1..Len(d)
        BY <1>4, <2>1, <3>2
      <4>2. \A l \in 1..Len(d) : IsFiniteSet(d[l].logs)
        BY <1>1 DEF FiniteLogs
      <4> QED BY <2>1, <3>2, <4>1, <4>2
    <3> QED BY <3>1, <3>2
  <2> QED BY <2>1, <2>2, <2>3 DEF FiniteLogs
<1>6. ASSUME NEW i \in 1..Len(d), NEW c \in Saves, IsFiniteSet(c.logs),
             doing' = With(m, i, c)
      PROVE  /\ doing' \in [Monitors -> Seq(Saves)]
             /\ \A n \in Monitors : Len(doing'[n]) <= Slots
             /\ FiniteLogs'
  <2>1. /\ doing' \in [Monitors -> Seq(Saves)]
        /\ \A n \in Monitors : n # m => doing'[n] = doing[n]
        /\ Len(doing'[m]) = Len(d)
        /\ \A j \in 1..Len(d) : doing'[m][j] = IF j = i THEN c ELSE d[j]
    BY <1>1, <1>6, OnlyOne
  <2>2. \A n \in Monitors : Len(doing'[n]) <= Slots
    BY <1>4, <2>1
  <2>3. ASSUME NEW n \in Monitors, NEW j \in 1..Len(doing'[n])
        PROVE  IsFiniteSet(doing'[n][j].logs)
    BY <1>1, <1>6, <2>1 DEF FiniteLogs
  <2> QED BY <2>1, <2>2, <2>3 DEF FiniteLogs
<1>7. CASE \E r \in Runs : Hear(m, r)
  <2>1. PICK r \in Runs : Hear(m, r)
    BY <1>7
  <2> DEFINE e == [run |-> r, nr |-> heard[m][r] + 1]
  <2>2. heard[m][r] + 1 \in 1..Count[r] /\ heard[m][r] + 1 \in Nat
    BY <1>1, <2>1, TaskStoreAssumption DEF Hear, TypeOK
  <2>3. e \in Events
    BY <2>2 DEF Events, States
  <2>4. Append(queue[m], e) \in Seq(Events)
    BY <1>1, <2>3, AppendProperties DEF TypeOK
  <2>5. queue' = [queue EXCEPT ![m] = Append(queue[m], e)]
    BY <2>1 DEF Hear
  <2>6. heard' = [heard EXCEPT ![m] = [heard[m] EXCEPT ![r] = heard[m][r] + 1]]
    BY <2>1 DEF Hear
  <2> HIDE DEF e
  <2>7. heard' \in [Monitors -> [Runs -> Nat]]
    BY <1>1, <2>2, <2>6 DEF TypeOK
  <2>8. queue' \in [Monitors -> Seq(Events)]
    BY <1>1, <2>4, <2>5 DEF TypeOK
  <2> QED BY <1>1, <2>1, <2>7, <2>8 DEF TypeOK, FiniteLogs, Hear
<1>8. CASE Start(m)
  <2> DEFINE c == [event |-> Head(queue[m]), next |-> "find", logs |-> {}, toremove |-> {}]
  <2>1. queue[m] \in Seq(Events) /\ queue[m] # <<>>
    BY <1>1, <1>8 DEF TypeOK, Start
  <2>2. Head(queue[m]) \in Events /\ Tail(queue[m]) \in Seq(Events)
    BY <2>1, HeadTailProperties
  <2>3. c \in Saves
    BY <2>2 DEF Saves
  <2>4. c.logs = {}
    OBVIOUS
  <2>5. doing' = [doing EXCEPT ![m] = Append(d, c)]
    BY <1>8 DEF Start
  <2> HIDE DEF c
  <2>6. /\ Append(d, c) \in Seq(Saves) /\ Len(Append(d, c)) = Len(d) + 1
        /\ \A j \in 1..Len(d) : Append(d, c)[j] = d[j]
        /\ Append(d, c)[Len(d) + 1] = c
    BY <1>4, <2>3, AppendProperties
  <2>7. doing' \in [Monitors -> Seq(Saves)]
    BY <1>1, <2>5, <2>6 DEF TypeOK
  <2>8. \A n \in Monitors : doing'[n] = IF n = m THEN Append(d, c) ELSE doing[n]
    BY <1>1, <2>5 DEF TypeOK
  <2>9. \A n \in Monitors : Len(doing'[n]) <= Slots
    <3>1. Len(d) < Slots
      BY <1>8 DEF Start
    <3>2. Len(doing'[m]) <= Slots
      <4>1. Len(doing'[m]) = Len(d) + 1
        BY <2>6, <2>8
      <4> QED BY <1>4, <3>1, <4>1
    <3>3. \A n \in Monitors : n # m => Len(doing'[n]) <= Slots
      BY <1>4, <2>8
    <3> QED BY <3>2, <3>3
  <2>10. FiniteLogs'
    <3> SUFFICES ASSUME NEW n \in Monitors, NEW j \in 1..Len(doing'[n])
                 PROVE  IsFiniteSet(doing'[n][j].logs)
      BY DEF FiniteLogs
    <3>1. CASE n # m
      BY <1>1, <2>8, <3>1 DEF FiniteLogs
    <3>2. CASE n = m /\ j = Len(d) + 1
      BY <2>4, <2>6, <2>8, <3>2, FS_EmptySet
    <3>3. CASE n = m /\ j # Len(d) + 1
      <4>1. j \in 1..Len(d)
        <5>1. j \in 1..Len(d) + 1
          BY <2>6, <2>8, <3>3
        <5> QED BY <1>4, <3>3, <5>1
      <4> QED BY <1>1, <2>6, <2>8, <3>3, <4>1 DEF FiniteLogs
    <3> QED BY <3>1, <3>2, <3>3
  <2>11. queue' \in [Monitors -> Seq(Events)]
    BY <1>1, <1>8, <2>2 DEF TypeOK, Start
  <2> QED BY <1>1, <1>8, <2>7, <2>9, <2>10, <2>11 DEF TypeOK, Start
<1>9. CASE Finish(m) \/ Finished(m)
  BY <1>1, <1>9 DEF TypeOK, FiniteLogs, Finish, Finished
<1>10. ASSUME NEW i \in 1..Len(d), Find(m, i)
       PROVE  Typed'
  <2> DEFINE e == d[i].event
             c == [event |-> e, next |-> "save", logs |-> Updated(e, OfRun(e.run)),
                   toremove |-> Duplicates(OfRun(e.run))]
  <2>2. c \in Saves /\ IsFiniteSet(c.logs)
    BY <1>1, UpdatedIsSave
  <2>3. doing' = With(m, i, c)
    BY <1>10 DEF Find, With
  <2> HIDE DEF c
  <2>4. /\ doing' \in [Monitors -> Seq(Saves)]
        /\ \A n \in Monitors : Len(doing'[n]) <= Slots
        /\ FiniteLogs'
    BY <1>6, <2>2, <2>3
  <2> QED BY <1>1, <1>10, <2>4 DEF TypeOK, Find
<1>11. ASSUME NEW i \in 1..Len(d), Save(m, i)
       PROVE  Typed'
  <2>1. d[i] \in Saves /\ IsFiniteSet(d[i].logs)
    BY <1>1, <1>4 DEF FiniteLogs
  <2>2. d[i].logs \in SUBSET Rows
    BY <2>1 DEF Saves
  <2>3. table' \in SUBSET Rows /\ ids' \in Nat
    <3>1. Stored(d[i].logs) \in SUBSET Rows /\ Cardinality({x \in d[i].logs : x.id = 0}) \in Nat
      BY <1>1, <2>1, <2>2, StoredAre
    <3> QED BY <1>1, <1>11, <3>1 DEF Save, TypeOK
  <2>4. /\ doing' \in [Monitors -> Seq(Saves)]
        /\ \A n \in Monitors : Len(doing'[n]) <= Slots
        /\ FiniteLogs'
        /\ taken' = taken
    <3>1. CASE d[i].toremove = {}
      <4>1. doing' = Without(m, i) /\ taken' = taken
        BY <1>11, <3>1 DEF Save, Release
      <4> QED BY <1>5, <4>1
    <3>2. CASE d[i].toremove # {}
      <4> DEFINE c == [d[i] EXCEPT !.next = "remove"]
      <4>1. c \in Saves /\ IsFiniteSet(c.logs)
        BY <2>1 DEF Saves
      <4>2. doing' = With(m, i, c) /\ taken' = taken
        BY <1>11, <3>2 DEF Save, With
      <4> HIDE DEF c
      <4> QED BY <1>6, <4>1, <4>2
    <3> QED BY <3>1, <3>2
  <2> QED BY <1>1, <1>11, <2>3, <2>4 DEF TypeOK, Save
<1>12. ASSUME NEW i \in 1..Len(d), RemoveRows(m, i)
       PROVE  Typed'
  <2>1. /\ doing' \in [Monitors -> Seq(Saves)]
        /\ \A n \in Monitors : Len(doing'[n]) <= Slots
        /\ FiniteLogs'
        /\ taken' = taken
    BY <1>5, <1>12 DEF RemoveRows, Release
  <2>2. table' \in SUBSET Rows
    BY <1>1, <1>12 DEF RemoveRows, TypeOK
  <2> QED BY <1>1, <1>12, <2>1, <2>2 DEF TypeOK, RemoveRows
<1>13. ASSUME NEW i \in 1..Len(d), Refuse(m, i)
       PROVE  Typed'
  <2>1. /\ doing' \in [Monitors -> Seq(Saves)]
        /\ \A n \in Monitors : Len(doing'[n]) <= Slots
        /\ FiniteLogs'
    BY <1>5, <1>13 DEF Refuse
  <2>2. d[i].event.run \in Runs
    <3>1. d[i] \in Saves
      BY <1>4
    <3> QED BY <3>1 DEF Saves, Events
  <2>3. taken' \in [Monitors -> SUBSET Runs] /\ refused' \in [Monitors -> SUBSET Runs]
    BY <1>1, <1>13, <2>2 DEF Refuse, TypeOK
  <2>4. faults' \in 0..Faults
    BY <1>1, <1>13, TaskStoreAssumption DEF Refuse, TypeOK
  <2> QED BY <1>1, <1>13, <2>1, <2>3, <2>4 DEF TypeOK, Refuse
<1> HIDE DEF Typed
<1> QED BY <1>3, <1>7, <1>8, <1>9, <1>10, <1>11, <1>12, <1>13 DEF Saving

LEMMA TypeStart ==
  ASSUME Init
  PROVE  Typed
<1>1. \A m \in Monitors : Len(doing[m]) = 0
  BY DEF Init
<1>2. doing \in [Monitors -> Seq(Saves)] /\ queue \in [Monitors -> Seq(Events)]
  BY DEF Init
<1>3. Slots \in Nat /\ Faults \in Nat /\ Count \in [Runs -> Nat \ {0}]
  BY TaskStoreAssumption
<1>4. heard \in [Monitors -> [Runs -> Nat]]
  BY <1>3 DEF Init
<1> QED BY <1>1, <1>2, <1>3, <1>4 DEF Typed, TypeOK, FiniteLogs, Init

\* The state keeps the types: what the storage is given are rows, with ids
\* of its own, and no monitor has more calls of save() under way than slots.
THEOREM TaskStoreTypeCorrect == Spec => []TypeOK
<1>1. Init => Typed
  BY TypeStart
<1>2. Typed /\ [Next]_vars => Typed'
  BY TypeStep
<1>3. Typed => TypeOK
  BY DEF Typed
<1> QED BY <1>1, <1>2, <1>3, PTL DEF Spec

-----------------------------------------------------------------------------
(* The line of a monitor: its calls of save() under way, then the events   *)
(* that wait, as the calls that they are going to be.                      *)

Job(e) == [event |-> e, next |-> "find", logs |-> {}, toremove |-> {}]

D(m) == Len(doing[m])
Q(m) == Len(queue[m])
N(m) == D(m) + Q(m)

Line(m) == [j \in 1..N(m) |-> IF j <= D(m) THEN doing[m][j] ELSE Job(queue[m][j - D(m)])]

LEMMA LineIs ==
  ASSUME TypeOK, NEW m \in Monitors
  PROVE  /\ N(m) \in Nat /\ D(m) \in Nat /\ Q(m) \in Nat /\ D(m) <= N(m)
         /\ \A j \in 1..N(m) : Line(m)[j] \in Saves
         /\ \A j \in 1..D(m) : Line(m)[j] = doing[m][j] /\ j \in 1..N(m)
<1>1. /\ D(m) \in Nat /\ Q(m) \in Nat
      /\ \A j \in 1..D(m) : doing[m][j] \in Saves
      /\ \A j \in 1..Q(m) : queue[m][j] \in Events
  BY DEF TypeOK, D, Q
<1>2. N(m) \in Nat /\ D(m) <= N(m)
  BY <1>1 DEF N
<1>3. ASSUME NEW j \in 1..N(m) PROVE Line(m)[j] \in Saves
  <2>1. CASE j <= D(m)
    BY <1>1, <1>2, <2>1 DEF Line
  <2>2. CASE ~(j <= D(m))
    <3>1. j - D(m) \in 1..Q(m)
      BY <1>1, <2>2 DEF N
    <3>2. queue[m][j - D(m)] \in Events
      BY <1>1, <3>1
    <3>3. Line(m)[j] = Job(queue[m][j - D(m)])
      BY <2>2 DEF Line
    <3> QED BY <3>2, <3>3 DEF Job, Saves
  <2> QED BY <2>1, <2>2
<1>4. ASSUME NEW j \in 1..D(m) PROVE Line(m)[j] = doing[m][j] /\ j \in 1..N(m)
  BY <1>1, <1>2 DEF Line
<1> QED BY <1>1, <1>2, <1>3, <1>4

\* Nothing happens in the lines of the other monitors.
SameLine(m) == N(m)' = N(m) /\ \A j \in 1..N(m) : Line(m)'[j] = Line(m)[j]

LEMMA OtherLines ==
  ASSUME NEW m \in Monitors, doing'[m] = doing[m], queue'[m] = queue[m]
  PROVE  SameLine(m)
BY DEF SameLine, N, D, Q, Line

\* An event that comes is the last of the line.
LEMMA HearLine ==
  ASSUME TypeOK, NEW m \in Monitors, NEW r \in Runs, Hear(m, r)
  PROVE  /\ N(m)' = N(m) + 1
         /\ \A j \in 1..N(m) : Line(m)'[j] = Line(m)[j]
         /\ Line(m)'[N(m) + 1] = Job([run |-> r, nr |-> heard[m][r] + 1])
         /\ \A n \in Monitors : n # m => SameLine(n)
<1> DEFINE e == [run |-> r, nr |-> heard[m][r] + 1]
           q == Append(queue[m], e)
<1>1. /\ D(m) \in Nat /\ Q(m) \in Nat /\ N(m) = D(m) + Q(m)
      /\ queue[m] \in Seq(Events) /\ queue \in [Monitors -> Seq(Events)]
  BY LineIs DEF TypeOK, N
<1>2. e \in Events
  <2>1. heard[m][r] + 1 \in 1..Count[r]
    BY TaskStoreAssumption DEF Hear, TypeOK
  <2> QED BY <2>1 DEF Events, States
<1>3. doing' = doing /\ queue' = [queue EXCEPT ![m] = q]
  BY DEF Hear
<1> HIDE DEF e
<1>4. /\ Len(q) = Len(queue[m]) + 1
      /\ \A j \in 1..Len(queue[m]) : q[j] = queue[m][j]
      /\ q[Len(queue[m]) + 1] = e
  BY <1>1, <1>2, AppendProperties
<1> HIDE DEF q
<1>5. /\ Len(q) = Q(m) + 1
      /\ \A j \in 1..Q(m) : q[j] = queue[m][j]
      /\ q[Q(m) + 1] = e
  BY <1>4 DEF Q
<1>6. queue'[m] = q /\ \A n \in Monitors : n # m => queue'[n] = queue[n]
  BY <1>1, <1>3
<1>7. D(m)' = D(m) /\ Q(m)' = Q(m) + 1
  BY <1>3, <1>5, <1>6 DEF D, Q
<1>8. N(m)' = N(m) + 1
  BY <1>1, <1>7 DEF N
<1>9. ASSUME NEW j \in 1..N(m) + 1
      PROVE  Line(m)'[j] = IF j <= D(m) THEN doing[m][j] ELSE Job(q[j - D(m)])
  BY <1>3, <1>6, <1>7, <1>8 DEF Line
<1>10. ASSUME NEW j \in 1..N(m) PROVE Line(m)'[j] = Line(m)[j]
  <2>1. /\ Line(m)'[j] = IF j <= D(m) THEN doing[m][j] ELSE Job(q[j - D(m)])
        /\ Line(m)[j] = IF j <= D(m) THEN doing[m][j] ELSE Job(queue[m][j - D(m)])
    <3>1. j \in 1..N(m) + 1
      BY <1>1
    <3>2. Line(m)[j] = IF j <= D(m) THEN doing[m][j] ELSE Job(queue[m][j - D(m)])
      BY DEF Line
    <3> QED BY <1>9, <3>1, <3>2
  <2>2. CASE j <= D(m)
    BY <2>1, <2>2
  <2>3. CASE ~(j <= D(m))
    <3>1. j - D(m) \in 1..Q(m)
      BY <1>1, <2>3
    <3>2. q[j - D(m)] = queue[m][j - D(m)]
      BY <1>5, <3>1
    <3> QED BY <2>1, <2>3, <3>2
  <2> QED BY <2>2, <2>3
<1>11. Line(m)'[N(m) + 1] = Job(e)
  <2> DEFINE k == N(m) + 1
  <2>1. k \in 1..N(m) + 1 /\ ~(k <= D(m)) /\ k - D(m) = Q(m) + 1
    BY <1>1
  <2> HIDE DEF k
  <2>2. Line(m)'[k] = Job(q[k - D(m)])
    BY <1>9, <2>1
  <2> QED BY <1>5, <2>1, <2>2 DEF k
<1>12. \A n \in Monitors : n # m => SameLine(n)
  BY <1>3, <1>6, OtherLines
<1> QED BY <1>8, <1>10, <1>11, <1>12 DEF e

\* A job that starts stays where it is in the line.
LEMMA StartLine ==
  ASSUME TypeOK, NEW m \in Monitors, Start(m)
  PROVE  \A n \in Monitors : SameLine(n)
<1> DEFINE c == Job(Head(queue[m]))
           d == Append(doing[m], c)
           q == Tail(queue[m])
<1>1. /\ doing[m] \in Seq(Saves) /\ queue[m] \in Seq(Events) /\ queue[m] # <<>>
      /\ D(m) \in Nat /\ Q(m) \in Nat /\ N(m) = D(m) + Q(m)
  BY LineIs DEF TypeOK, Start, N
<1>2. /\ Head(queue[m]) \in Events /\ Len(q) = Len(queue[m]) - 1
      /\ Head(queue[m]) = queue[m][1]
      /\ \A j \in 1..Len(queue[m]) - 1 : q[j] = queue[m][j + 1]
  BY <1>1, HeadTailProperties
<1>3. c \in Saves
  BY <1>2 DEF Saves, Job
<1>4. /\ doing'[m] = d /\ queue'[m] = q
      /\ \A n \in Monitors : n # m => doing'[n] = doing[n] /\ queue'[n] = queue[n]
  BY DEF Start, TypeOK, Job
<1>5. c = Job(queue[m][1])
  BY <1>2
<1> HIDE DEF c, q
<1>6. /\ Len(d) = Len(doing[m]) + 1
      /\ \A j \in 1..Len(doing[m]) : d[j] = doing[m][j]
      /\ d[Len(doing[m]) + 1] = c
  BY <1>1, <1>3, AppendProperties
<1> HIDE DEF d
<1>7. /\ Len(d) = D(m) + 1 /\ Len(q) = Q(m) - 1
      /\ \A j \in 1..D(m) : d[j] = doing[m][j]
      /\ d[D(m) + 1] = c
      /\ \A j \in 1..Q(m) - 1 : q[j] = queue[m][j + 1]
  BY <1>2, <1>6 DEF D, Q
<1>8. D(m)' = D(m) + 1 /\ Q(m)' = Q(m) - 1
  BY <1>4, <1>7 DEF D, Q
<1>9. N(m)' = N(m)
  BY <1>1, <1>8 DEF N
<1>10. ASSUME NEW j \in 1..N(m) PROVE Line(m)'[j] = Line(m)[j]
  <2>1. Line(m)'[j] = IF j <= D(m) + 1 THEN d[j] ELSE Job(q[j - (D(m) + 1)])
    BY <1>4, <1>8, <1>9 DEF Line
  <2>2. Line(m)[j] = IF j <= D(m) THEN doing[m][j] ELSE Job(queue[m][j - D(m)])
    BY DEF Line
  <2>3. CASE j <= D(m)
    BY <1>1, <1>7, <2>1, <2>2, <2>3
  <2>4. CASE j = D(m) + 1
    <3>1. ~(j <= D(m)) /\ j - D(m) = 1 /\ j <= D(m) + 1
      BY <1>1, <2>4
    <3> QED BY <1>5, <1>7, <2>1, <2>2, <2>4, <3>1
  <2>5. CASE j > D(m) + 1
    <3>1. /\ j - (D(m) + 1) \in 1..Q(m) - 1
          /\ (j - (D(m) + 1)) + 1 = j - D(m)
          /\ ~(j <= D(m)) /\ ~(j <= D(m) + 1)
      BY <1>1, <2>5
    <3> QED BY <1>7, <2>1, <2>2, <3>1
  <2> QED BY <1>1, <2>3, <2>4, <2>5
<1>11. SameLine(m)
  BY <1>9, <1>10 DEF SameLine
<1>12. \A n \in Monitors : n # m => SameLine(n)
  BY <1>4, OtherLines
<1> QED BY <1>11, <1>12

\* A call that goes on stays where it is.
LEMMA WithLine ==
  ASSUME TypeOK, NEW m \in Monitors, NEW i \in 1..Len(doing[m]), NEW c \in Saves,
         doing' = With(m, i, c), queue' = queue
  PROVE  /\ N(m)' = N(m)
         /\ \A j \in 1..N(m) : Line(m)'[j] = IF j = i THEN c ELSE Line(m)[j]
         /\ \A n \in Monitors : n # m => SameLine(n)
<1>1. D(m) \in Nat /\ Q(m) \in Nat /\ N(m) = D(m) + Q(m) /\ i \in 1..D(m)
  BY LineIs DEF N, D
<1>2. /\ \A n \in Monitors : n # m => doing'[n] = doing[n]
      /\ D(m)' = D(m) /\ Q(m)' = Q(m)
      /\ \A j \in 1..D(m) : doing'[m][j] = IF j = i THEN c ELSE doing[m][j]
  BY OnlyOne DEF D, Q
<1>3. N(m)' = N(m)
  BY <1>2 DEF N
<1>4. ASSUME NEW j \in 1..N(m) PROVE Line(m)'[j] = IF j = i THEN c ELSE Line(m)[j]
  <2>1. Line(m)'[j] = IF j <= D(m) THEN doing'[m][j] ELSE Job(queue[m][j - D(m)])
    BY <1>2, <1>3 DEF Line
  <2>2. Line(m)[j] = IF j <= D(m) THEN doing[m][j] ELSE Job(queue[m][j - D(m)])
    BY DEF Line
  <2>3. CASE j <= D(m)
    BY <1>1, <1>2, <2>1, <2>2, <2>3
  <2>4. CASE ~(j <= D(m))
    BY <1>1, <2>1, <2>2, <2>4
  <2> QED BY <2>3, <2>4
<1>5. \A n \in Monitors : n # m => SameLine(n)
  BY <1>2, OtherLines
<1> QED BY <1>3, <1>4, <1>5

\* A call that leaves lets those behind it move up.
LEMMA WithoutLine ==
  ASSUME TypeOK, NEW m \in Monitors, NEW i \in 1..Len(doing[m]),
         doing' = Without(m, i), queue' = queue
  PROVE  /\ N(m)' = N(m) - 1
         /\ \A j \in 1..N(m) - 1 : Line(m)'[j] = IF j < i THEN Line(m)[j] ELSE Line(m)[j + 1]
         /\ \A n \in Monitors : n # m => SameLine(n)
<1>1. D(m) \in Nat /\ Q(m) \in Nat /\ N(m) = D(m) + Q(m) /\ i \in 1..D(m)
  BY LineIs DEF N, D
<1>2. /\ \A n \in Monitors : n # m => doing'[n] = doing[n]
      /\ D(m)' = D(m) - 1 /\ Q(m)' = Q(m)
      /\ \A j \in 1..D(m) - 1 : doing'[m][j] = IF j < i THEN doing[m][j] ELSE doing[m][j + 1]
  BY WithoutIs DEF D, Q
<1>3. N(m)' = N(m) - 1
  BY <1>1, <1>2 DEF N
<1>4. ASSUME NEW j \in 1..N(m) - 1
      PROVE  Line(m)'[j] = IF j < i THEN Line(m)[j] ELSE Line(m)[j + 1]
  <2>1. Line(m)'[j] = IF j <= D(m) - 1 THEN doing'[m][j] ELSE Job(queue[m][j - (D(m) - 1)])
    BY <1>2, <1>3 DEF Line
  <2>2. /\ Line(m)[j] = IF j <= D(m) THEN doing[m][j] ELSE Job(queue[m][j - D(m)])
        /\ Line(m)[j + 1] = IF j + 1 <= D(m) THEN doing[m][j + 1]
                            ELSE Job(queue[m][(j + 1) - D(m)])
    <3>1. j \in 1..N(m) /\ j + 1 \in 1..N(m)
      BY <1>1
    <3> QED BY <3>1 DEF Line
  <2>3. CASE j <= D(m) - 1
    BY <1>1, <1>2, <2>1, <2>2, <2>3
  <2>4. CASE ~(j <= D(m) - 1)
    <3>1. (j + 1) - D(m) = j - (D(m) - 1) /\ ~(j + 1 <= D(m)) /\ ~(j < i)
      BY <1>1, <2>4
    <3> QED BY <2>1, <2>2, <2>4, <3>1
  <2> QED BY <2>3, <2>4
<1>5. \A n \in Monitors : n # m => SameLine(n)
  BY <1>2, OtherLines
<1> QED BY <1>3, <1>4, <1>5

-----------------------------------------------------------------------------
(* Queued: of the events of a run there wait all from some one up to the   *)
(* last one heard, in their order, and none is worked on before its turn.  *)

InLine(L, n, r, k) == \E j \in 1..n : L[j].event.run = r /\ L[j].event.nr = k

First(L, i) == \A j \in 1..i - 1 : L[j].event.run # L[i].event.run

InOrder(L, n, h, m) ==
  /\ \A j \in 1..n : L[j].event.nr <= h[L[j].event.run] /\ L[j].event.run \notin Missed[m]
  /\ \A i, j \in 1..n : i < j /\ L[i].event.run = L[j].event.run => L[i].event.nr < L[j].event.nr
  /\ \A j \in 1..n : \A k \in L[j].event.nr..h[L[j].event.run] : InLine(L, n, L[j].event.run, k)
  /\ \A i \in 1..n : L[i].next # "find" => First(L, i)

QueuedAt(m) ==
  /\ taken[m] = refused[m]
  /\ \A r \in Runs : heard[m][r] <= Count[r]
  /\ \A r \in Missed[m] : heard[m][r] = Count[r]
  /\ InOrder(Line(m), N(m), heard[m], m)

Queued == \A m \in Monitors : QueuedAt(m)

\* A line stays in order when one of its calls goes on, the first of its run.
LEMMA OrderWith ==
  ASSUME NEW m, NEW n \in Nat, NEW L, NEW M, NEW h, NEW i \in 1..n, NEW c,
         InOrder(L, n, h, m), First(L, i), c.event = L[i].event,
         \A j \in 1..n : M[j] = IF j = i THEN c ELSE L[j]
  PROVE  InOrder(M, n, h, m)
<1>1. \A j \in 1..n : M[j].event = L[j].event
  OBVIOUS
<1>2. \A r, k : InLine(L, n, r, k) => InLine(M, n, r, k)
  BY <1>1 DEF InLine
<1>3. ASSUME NEW j \in 1..n, First(L, j) PROVE First(M, j)
  BY <1>1, <1>3 DEF First
<1>4. \A j \in 1..n : M[j].next # "find" => First(M, j)
  BY <1>3 DEF InOrder
<1>5. \A j \in 1..n : \A k \in M[j].event.nr..h[M[j].event.run] : InLine(M, n, M[j].event.run, k)
  BY <1>1, <1>2 DEF InOrder
<1> QED BY <1>1, <1>4, <1>5 DEF InOrder

\* A line stays in order when the next event of a run comes.
LEMMA OrderLonger ==
  ASSUME NEW m, NEW n \in Nat, NEW L, NEW M, NEW h \in [Runs -> Nat], NEW r \in Runs,
         \A j \in 1..n : L[j] \in Saves,
         InOrder(L, n, h, m), r \notin Missed[m],
         \A j \in 1..n : M[j] = L[j],
         M[n + 1] = Job([run |-> r, nr |-> h[r] + 1])
  PROVE  InOrder(M, n + 1, [h EXCEPT ![r] = h[r] + 1], m)
<1> DEFINE g == [h EXCEPT ![r] = h[r] + 1]
<1>1. /\ g \in [Runs -> Nat] /\ g[r] = h[r] + 1 /\ h[r] \in Nat
      /\ \A s \in Runs : h[s] <= g[s] /\ (s # r => g[s] = h[s])
  OBVIOUS
<1> HIDE DEF g
<1>2. /\ M[n + 1].event.run = r /\ M[n + 1].event.nr = h[r] + 1 /\ M[n + 1].next = "find"
  BY DEF Job
<1>3. \A j \in 1..n : /\ M[j] = L[j] /\ L[j].event.run \in Runs /\ L[j].event.nr \in Nat
                      /\ j \in 1..n + 1
  <2> TAKE j \in 1..n
  <2>1. L[j] \in Saves
    OBVIOUS
  <2>2. L[j].event.nr \in Nat /\ L[j].event.run \in Runs
    BY <2>1, TaskStoreAssumption DEF Saves, Events, States
  <2> QED BY <2>2
<1>4. \A s, k : InLine(L, n, s, k) => InLine(M, n + 1, s, k)
  BY <1>3 DEF InLine
<1>5. InLine(M, n + 1, r, h[r] + 1)
  <2>1. n + 1 \in 1..n + 1
    OBVIOUS
  <2> QED BY <1>2, <2>1 DEF InLine
<1>6. ASSUME NEW j \in 1..n + 1
      PROVE  M[j].event.nr <= g[M[j].event.run] /\ M[j].event.run \notin Missed[m]
  <2>1. CASE j = n + 1
    BY <1>1, <1>2, <2>1
  <2>2. CASE j \in 1..n
    <3>1. L[j].event.nr <= h[L[j].event.run] /\ L[j].event.run \notin Missed[m]
      BY <2>2 DEF InOrder
    <3> QED BY <1>1, <1>3, <2>2, <3>1
  <2> QED BY <2>1, <2>2
<1>7. ASSUME NEW i \in 1..n + 1, NEW j \in 1..n + 1, i < j, M[i].event.run = M[j].event.run
      PROVE  M[i].event.nr < M[j].event.nr
  <2>1. i \in 1..n
    BY <1>7
  <2>2. CASE j = n + 1
    <3>1. L[i].event.nr <= h[L[i].event.run]
      BY <2>1 DEF InOrder
    <3> QED BY <1>1, <1>2, <1>3, <1>7, <2>1, <2>2, <3>1
  <2>3. CASE j \in 1..n
    BY <1>3, <1>7, <2>1, <2>3 DEF InOrder
  <2> QED BY <2>2, <2>3
<1>8. ASSUME NEW j \in 1..n + 1, NEW k \in M[j].event.nr..g[M[j].event.run]
      PROVE  InLine(M, n + 1, M[j].event.run, k)
  <2>1. CASE j = n + 1
    <3>1. k = h[r] + 1
      BY <1>1, <1>2, <1>8, <2>1
    <3> QED BY <1>2, <1>5, <2>1, <3>1
  <2>2. CASE j \in 1..n
    <3>1. k \in L[j].event.nr..g[L[j].event.run]
      BY <1>3, <1>8, <2>2
    <3>2. CASE k \in L[j].event.nr..h[L[j].event.run]
      <4>1. InLine(L, n, L[j].event.run, k)
        BY <2>2, <3>2 DEF InOrder
      <4> QED BY <1>3, <1>4, <2>2, <4>1
    <3>3. CASE k \notin L[j].event.nr..h[L[j].event.run]
      <4>1. L[j].event.run = r /\ k = h[r] + 1
        BY <1>1, <1>3, <2>2, <3>1, <3>3
      <4> QED BY <1>3, <1>5, <2>2, <4>1
    <3> QED BY <3>2, <3>3
  <2> QED BY <2>1, <2>2
<1>9. ASSUME NEW i \in 1..n + 1, M[i].next # "find" PROVE First(M, i)
  <2>1. i \in 1..n
    BY <1>2, <1>9
  <2>2. First(L, i)
    BY <1>3, <1>9, <2>1 DEF InOrder
  <2>3. \A j \in 1..i - 1 : j \in 1..n
    BY <2>1
  <2> QED BY <1>3, <2>1, <2>2, <2>3 DEF First
<1> QED BY <1>6, <1>7, <1>8, <1>9 DEF InOrder, g

\* A line stays in order when the first call of a run leaves it.
LEMMA OrderShorter ==
  ASSUME NEW m, NEW n \in Nat, NEW L, NEW M, NEW h \in [Runs -> Nat], NEW i \in 1..n,
         \A j \in 1..n : L[j] \in Saves,
         InOrder(L, n, h, m), First(L, i),
         \A j \in 1..n - 1 : M[j] = IF j < i THEN L[j] ELSE L[j + 1]
  PROVE  /\ InOrder(M, n - 1, h, m)
         /\ \A r, k : InLine(M, n - 1, r, k) => InLine(L, n, r, k)
         /\ \A r, k : InLine(L, n, r, k) /\ ~(r = L[i].event.run /\ k = L[i].event.nr)
                        => InLine(M, n - 1, r, k)
<1> DEFINE up(j) == IF j < i THEN j ELSE j + 1
           dn(j) == IF j < i THEN j ELSE j - 1
<1>1. \A j \in 1..n - 1 : up(j) \in 1..n /\ M[j] = L[up(j)] /\ up(j) # i
  OBVIOUS
<1>2. \A j \in 1..n : j # i => dn(j) \in 1..n - 1 /\ M[dn(j)] = L[j]
  OBVIOUS
<1>3. \A j, k \in 1..n - 1 : j < k => up(j) < up(k)
  OBVIOUS
<1>4. \A j \in 1..n : L[j].event.run \in Runs /\ L[j].event.nr \in Nat
  <2> TAKE j \in 1..n
  <2>1. L[j] \in Saves
    OBVIOUS
  <2> QED BY <2>1, TaskStoreAssumption DEF Saves, Events, States
<1>5. \A j \in 1..n - 1 : \A k \in 1..up(j) - 1 : k # i => dn(k) \in 1..j - 1
  OBVIOUS
<1>6. \A j \in 1..n - 1 : \A k \in 1..j - 1 : k \in 1..n - 1 /\ up(k) \in 1..up(j) - 1
  OBVIOUS
<1> HIDE DEF up, dn
<1>7. \A r, k : InLine(M, n - 1, r, k) => InLine(L, n, r, k)
  BY <1>1 DEF InLine
<1>8. \A r, k : InLine(L, n, r, k) /\ ~(r = L[i].event.run /\ k = L[i].event.nr)
                 => InLine(M, n - 1, r, k)
  BY <1>2 DEF InLine
<1>9. \A j \in 1..n - 1 : /\ M[j].event.nr <= h[M[j].event.run]
                          /\ M[j].event.run \notin Missed[m]
  BY <1>1 DEF InOrder
<1>10. \A j, k \in 1..n - 1 : j < k /\ M[j].event.run = M[k].event.run
                              => M[j].event.nr < M[k].event.nr
  BY <1>1, <1>3 DEF InOrder
<1>11. ASSUME NEW j \in 1..n - 1, NEW k \in M[j].event.nr..h[M[j].event.run]
       PROVE  InLine(M, n - 1, M[j].event.run, k)
  <2>1. InLine(L, n, M[j].event.run, k)
    BY <1>1 DEF InOrder
  <2>2. ~(M[j].event.run = L[i].event.run /\ k = L[i].event.nr)
    <3> SUFFICES ASSUME M[j].event.run = L[i].event.run PROVE k # L[i].event.nr
      OBVIOUS
    <3>1. up(j) \in 1..n /\ up(j) # i /\ L[up(j)].event.run = L[i].event.run
      BY <1>1
    <3>2. ~(up(j) < i)
      <4>1. up(j) < i => up(j) \in 1..i - 1
        BY <3>1
      <4> QED BY <3>1, <4>1 DEF First
    <3>3. i < up(j)
      BY <3>1, <3>2
    <3>4. L[i].event.nr < L[up(j)].event.nr
      BY <3>1, <3>3 DEF InOrder
    <3>5. k \in Int /\ L[up(j)].event.nr <= k
      BY <1>1, <1>4, <3>1
    <3> QED BY <1>4, <3>1, <3>4, <3>5
  <2> QED BY <1>8, <2>1, <2>2
<1>12. ASSUME NEW j \in 1..n - 1, M[j].next # "find" PROVE First(M, j)
  <2>1. First(L, up(j))
    BY <1>1, <1>12 DEF InOrder
  <2> QED BY <1>1, <1>6, <2>1 DEF First
<1> QED BY <1>7, <1>8, <1>9, <1>10, <1>11, <1>12 DEF InOrder

\* What holds of the line of a monitor to which nothing happens holds on.
LEMMA QueuedSame ==
  ASSUME TypeOK, NEW m \in Monitors, QueuedAt(m), SameLine(m), heard'[m] = heard[m],
         taken'[m] = taken[m], refused'[m] = refused[m]
  PROVE  QueuedAt(m)'
<1> DEFINE n == N(m)
           L == Line(m)
           M == Line(m)'
           h == heard[m]
<1>1. N(m)' = n /\ n \in Nat /\ (\A j \in 1..n : M[j] = L[j]) /\ InOrder(L, n, h, m)
  BY LineIs DEF SameLine, QueuedAt
<1> HIDE DEF n, L, M, h
<1>2. \A r, k : InLine(L, n, r, k) => InLine(M, n, r, k)
  BY <1>1 DEF InLine
<1>3. \A j \in 1..n : First(L, j) => First(M, j)
  <2> TAKE j \in 1..n
  <2>1. \A k \in 1..j - 1 : k \in 1..n
    BY <1>1
  <2> QED BY <1>1, <2>1 DEF First
<1>4. InOrder(M, n, h, m)
  BY <1>1, <1>2, <1>3 DEF InOrder
<1>5. InOrder(Line(m)', N(m)', heard'[m], m)
  BY <1>1, <1>4 DEF M, n, h
<1> QED BY <1>5 DEF QueuedAt

\* The semaphore of a run is with the first call of the run.
LEMMA SemaphoreIs ==
  ASSUME TypeOK, NEW m \in Monitors, NEW i \in 1..Len(doing[m]), HasSemaphore(m, i)
  PROVE  /\ i \in 1..N(m) /\ First(Line(m), i) /\ Line(m)[i] = doing[m][i]
         /\ Line(m)[i] \in Saves /\ Line(m)[i].event.run \in Runs
         /\ Line(m)[i].event.run \notin taken[m]
<1>1. D(m) \in Nat /\ i \in 1..D(m)
  BY LineIs DEF D
<1>2. \A j \in 1..D(m) : Line(m)[j] = doing[m][j] /\ j \in 1..N(m) /\ Line(m)[j] \in Saves
  BY LineIs
<1>3. \A j \in 1..i - 1 : Line(m)[j] = doing[m][j]
  BY <1>1, <1>2
<1>4. First(Line(m), i)
  BY <1>1, <1>2, <1>3 DEF First, HasSemaphore
<1>5. Line(m)[i].event.run \in Runs
  BY <1>1, <1>2 DEF Saves, Events
<1> QED BY <1>1, <1>2, <1>4, <1>5 DEF HasSemaphore

\* What saves, removes or leaves under way was the first of its run.
LEMMA QueuedStep ==
  ASSUME Typed, Queued, [Next]_vars
  PROVE  Queued'
<1>0. TypeOK
  BY DEF Typed
<1>1. CASE UNCHANGED vars
  <2> SUFFICES ASSUME NEW m \in Monitors PROVE QueuedAt(m)'
    BY DEF Queued
  <2>1. SameLine(m)
    BY <1>1, OtherLines DEF vars
  <2> QED BY <1>0, <1>1, <2>1, QueuedSame DEF vars, Queued
<1> SUFFICES ASSUME Next PROVE Queued'
  BY <1>1
<1>2. PICK m \in Monitors :
        \/ \E r \in Runs : Hear(m, r)
        \/ Start(m) \/ Finish(m) \/ Finished(m)
        \/ Saving(m)
        \/ \E i \in 1..Len(doing[m]) : Refuse(m, i)
  BY DEF Next
<1>3. /\ QueuedAt(m) /\ N(m) \in Nat /\ \A j \in 1..N(m) : Line(m)[j] \in Saves
      /\ heard[m] \in [Runs -> Nat] /\ heard \in [Monitors -> [Runs -> Nat]]
      /\ taken \in [Monitors -> SUBSET Runs] /\ refused \in [Monitors -> SUBSET Runs]
  BY <1>0, LineIs DEF Queued, TypeOK
<1>4. ASSUME \A n \in Monitors : n # m => /\ SameLine(n) /\ heard'[n] = heard[n]
                                          /\ taken'[n] = taken[n] /\ refused'[n] = refused[n],
             QueuedAt(m)'
      PROVE  Queued'
  <2>1. \A n \in Monitors : n # m => QueuedAt(n)'
    BY <1>0, <1>4, QueuedSame DEF Queued
  <2> QED BY <1>4, <2>1 DEF Queued
<1>5. CASE \E r \in Runs : Hear(m, r)
  <2>1. PICK r \in Runs : Hear(m, r)
    BY <1>5
  <2>2. /\ N(m)' = N(m) + 1
        /\ \A j \in 1..N(m) : Line(m)'[j] = Line(m)[j]
        /\ Line(m)'[N(m) + 1] = Job([run |-> r, nr |-> heard[m][r] + 1])
        /\ \A n \in Monitors : n # m => SameLine(n)
    BY <1>0, <2>1, HearLine
  <2>3. /\ heard'[m] = [heard[m] EXCEPT ![r] = heard[m][r] + 1]
        /\ \A n \in Monitors : n # m => heard'[n] = heard[n]
        /\ taken' = taken /\ refused' = refused /\ heard[m][r] < Count[r]
    BY <1>3, <2>1 DEF Hear
  <2>4. /\ r \notin Missed[m] /\ InOrder(Line(m), N(m), heard[m], m)
        /\ heard[m][r] \in Nat /\ Count[r] \in Nat
    BY <1>3, <2>3, TaskStoreAssumption DEF QueuedAt
  <2>5. InOrder(Line(m)', N(m) + 1, [heard[m] EXCEPT ![r] = heard[m][r] + 1], m)
    <3> DEFINE L == Line(m)
               M == Line(m)'
               n == N(m)
               h == heard[m]
    <3>1. /\ n \in Nat /\ h \in [Runs -> Nat] /\ \A j \in 1..n : L[j] \in Saves
          /\ InOrder(L, n, h, m) /\ r \notin Missed[m]
          /\ \A j \in 1..n : M[j] = L[j]
          /\ M[n + 1] = Job([run |-> r, nr |-> h[r] + 1])
      BY <1>3, <2>2, <2>4
    <3> HIDE DEF L, M, n, h
    <3>2. InOrder(M, n + 1, [h EXCEPT ![r] = h[r] + 1], m)
      BY <3>1, OrderLonger
    <3> QED BY <3>2 DEF L, M, n, h
  <2>6. \A s \in Runs : heard'[m][s] <= Count[s]
    BY <1>3, <2>3, <2>4 DEF QueuedAt
  <2>7. \A s \in Missed[m] : heard'[m][s] = Count[s]
    <3>1. Missed[m] \subseteq Runs
      BY TaskStoreAssumption
    <3> QED BY <1>3, <2>3, <2>4, <3>1 DEF QueuedAt
  <2>8. QueuedAt(m)'
    <3>1. InOrder(Line(m)', N(m)', heard'[m], m)
      BY <2>2, <2>3, <2>5
    <3> QED BY <1>3, <2>3, <2>6, <2>7, <3>1 DEF QueuedAt
  <2> QED BY <1>4, <2>2, <2>3, <2>8
<1>6. CASE Start(m)
  <2>1. \A n \in Monitors : SameLine(n)
    BY <1>0, <1>6, StartLine
  <2>2. heard' = heard /\ taken' = taken /\ refused' = refused
    BY <1>6 DEF Start
  <2> QED BY <1>0, <1>3, <1>4, <2>1, <2>2, QueuedSame
<1>7. CASE Finish(m) \/ Finished(m)
  <2>1. \A n \in Monitors : SameLine(n)
    BY <1>7, OtherLines DEF Finish, Finished
  <2>2. heard' = heard /\ taken' = taken /\ refused' = refused
    BY <1>7 DEF Finish, Finished
  <2> QED BY <1>0, <1>3, <1>4, <2>1, <2>2, QueuedSame
<1>8. ASSUME NEW i \in 1..Len(doing[m]), NEW c \in Saves, HasSemaphore(m, i),
             c.event = doing[m][i].event, doing' = With(m, i, c),
             UNCHANGED <<heard, queue, taken, refused>>
      PROVE  Queued'
  <2>1. /\ N(m)' = N(m)
        /\ \A j \in 1..N(m) : Line(m)'[j] = IF j = i THEN c ELSE Line(m)[j]
        /\ \A n \in Monitors : n # m => SameLine(n)
    <3>1. queue' = queue
      BY <1>8
    <3> QED BY <1>0, <1>8, <3>1, WithLine
  <2>2. i \in 1..N(m) /\ First(Line(m), i) /\ Line(m)[i] = doing[m][i]
    BY <1>0, <1>8, SemaphoreIs
  <2>3. InOrder(Line(m)', N(m)', heard'[m], m)
    <3> DEFINE L == Line(m)
               M == Line(m)'
               n == N(m)
               h == heard[m]
    <3>1. /\ n \in Nat /\ i \in 1..n /\ InOrder(L, n, h, m) /\ First(L, i)
          /\ c.event = L[i].event
          /\ \A j \in 1..n : M[j] = IF j = i THEN c ELSE L[j]
      BY <1>3, <1>8, <2>1, <2>2 DEF QueuedAt
    <3> HIDE DEF L, M, n, h
    <3>2. InOrder(M, n, h, m)
      BY <3>1, OrderWith
    <3>3. heard'[m] = h /\ N(m)' = n /\ Line(m)' = M
      BY <1>8, <2>1 DEF h, n, M
    <3> QED BY <3>2, <3>3
  <2>4. QueuedAt(m)'
    BY <1>3, <1>8, <2>3 DEF QueuedAt
  <2> QED BY <1>4, <1>8, <2>1, <2>4
<1>9. ASSUME NEW i \in 1..Len(doing[m]), HasSemaphore(m, i),
             doing' = Without(m, i), UNCHANGED <<heard, queue>>, taken'[m] = refused'[m],
             \A n \in Monitors : n # m => taken'[n] = taken[n] /\ refused'[n] = refused[n]
      PROVE  Queued'
  <2>1. /\ N(m)' = N(m) - 1
        /\ \A j \in 1..N(m) - 1 : Line(m)'[j] = IF j < i THEN Line(m)[j] ELSE Line(m)[j + 1]
        /\ \A n \in Monitors : n # m => SameLine(n)
    <3>1. queue' = queue
      BY <1>9
    <3> QED BY <1>0, <1>9, <3>1, WithoutLine
  <2>2. i \in 1..N(m) /\ First(Line(m), i)
    BY <1>0, <1>9, SemaphoreIs
  <2>3. InOrder(Line(m)', N(m)', heard'[m], m)
    <3> DEFINE L == Line(m)
               M == Line(m)'
               n == N(m)
               h == heard[m]
    <3>1. /\ n \in Nat /\ i \in 1..n /\ InOrder(L, n, h, m) /\ First(L, i)
          /\ h \in [Runs -> Nat] /\ \A j \in 1..n : L[j] \in Saves
          /\ \A j \in 1..n - 1 : M[j] = IF j < i THEN L[j] ELSE L[j + 1]
      BY <1>3, <2>1, <2>2 DEF QueuedAt
    <3> HIDE DEF L, M, n, h
    <3>2. InOrder(M, n - 1, h, m)
      BY <3>1, OrderShorter
    <3>3. heard'[m] = h /\ N(m)' = n - 1 /\ Line(m)' = M
      BY <1>9, <2>1 DEF h, n, M
    <3> QED BY <3>2, <3>3
  <2>4. QueuedAt(m)'
    BY <1>3, <1>9, <2>3 DEF QueuedAt
  <2> QED BY <1>4, <1>9, <2>1, <2>4
<1>10. ASSUME NEW i \in 1..Len(doing[m]), Find(m, i)
       PROVE  Queued'
  <2> DEFINE e == doing[m][i].event
             c == [event |-> e, next |-> "save", logs |-> Updated(e, OfRun(e.run)),
                   toremove |-> Duplicates(OfRun(e.run))]
  <2>1. c \in Saves
    BY <1>0, UpdatedIsSave
  <2>2. /\ c.event = doing[m][i].event /\ doing' = With(m, i, c) /\ HasSemaphore(m, i)
        /\ UNCHANGED <<heard, queue, taken, refused>>
    BY <1>10 DEF Find, Ready, With
  <2> HIDE DEF c
  <2> QED BY <1>8, <2>1, <2>2
<1>11. ASSUME NEW i \in 1..Len(doing[m]), Save(m, i)
       PROVE  Queued'
  <2>1. HasSemaphore(m, i) /\ UNCHANGED <<heard, queue, taken, refused>>
    BY <1>11 DEF Save, Ready, Release
  <2>2. CASE doing' = Without(m, i)
    BY <1>3, <1>9, <2>1, <2>2 DEF QueuedAt
  <2>3. CASE doing' = [doing EXCEPT ![m][i].next = "remove"]
    <3> DEFINE c == [doing[m][i] EXCEPT !.next = "remove"]
    <3>1. doing[m][i] \in Saves
      BY <1>0, <2>1, SemaphoreIs
    <3>2. c \in Saves /\ c.event = doing[m][i].event
      BY <3>1 DEF Saves
    <3>3. doing' = With(m, i, c)
      BY <2>3 DEF With
    <3> HIDE DEF c
    <3> QED BY <1>8, <2>1, <3>2, <3>3
  <2> QED BY <1>11, <2>2, <2>3 DEF Save
<1>12. ASSUME NEW i \in 1..Len(doing[m]), RemoveRows(m, i)
       PROVE  Queued'
  BY <1>3, <1>9, <1>12 DEF QueuedAt, RemoveRows, Ready, Release
<1>13. ASSUME NEW i \in 1..Len(doing[m]), Refuse(m, i)
       PROVE  Queued'
  <2>1. /\ HasSemaphore(m, i) /\ doing' = Without(m, i) /\ UNCHANGED <<heard, queue>>
    BY <1>13 DEF Refuse
  <2>2. taken'[m] = refused'[m]
    BY <1>3, <1>13 DEF Refuse, QueuedAt
  <2>3. \A n \in Monitors : n # m => taken'[n] = taken[n] /\ refused'[n] = refused[n]
    BY <1>3, <1>13 DEF Refuse
  <2> QED BY <1>9, <2>1, <2>2, <2>3
<1> QED BY <1>2, <1>5, <1>6, <1>7, <1>10, <1>11, <1>12, <1>13 DEF Saving

LEMMA QueuedStart ==
  ASSUME Init
  PROVE  Queued
<1> SUFFICES ASSUME NEW m \in Monitors PROVE QueuedAt(m)
  BY DEF Queued
<1>1. D(m) = 0 /\ Q(m) = 0
  BY DEF Init, D, Q
<1>2. N(m) = 0
  BY <1>1 DEF N
<1>3. /\ Count \in [Runs -> Nat \ {0}] /\ Missed[m] \subseteq Runs
      /\ heard[m] = [r \in Runs |-> IF r \in Missed[m] THEN Count[r] ELSE 0]
      /\ taken[m] = refused[m]
  BY TaskStoreAssumption DEF Init
<1>4. \A r \in Runs : heard[m][r] <= Count[r]
  BY <1>3
<1>5. \A r \in Missed[m] : heard[m][r] = Count[r]
  BY <1>3
<1>6. InOrder(Line(m), N(m), heard[m], m)
  BY <1>2 DEF InOrder
<1> QED BY <1>3, <1>4, <1>5, <1>6 DEF QueuedAt

-----------------------------------------------------------------------------
(* Tabled: a row has its id for itself; the first row of a run and key, its *)
(* base, stays the first; and what the calls of save() carry is true of the *)
(* table whenever they use it.                                              *)

IsBase(i, r, k) ==
  /\ \E y \in table : y.id = i /\ y.run = r /\ y.key = k
  /\ \A y \in table : y.run = r /\ y.key = k => i <= y.id

HasRows(r) == \A k \in Keys : \E y \in table : y.run = r /\ y.key = k

\* A row to be saved is new, of the first event, or it is a base.
Savable(l, e) ==
  /\ l.run = e.run /\ l.state = e.nr
  /\ (l.id = 0 /\ e.nr = 1) \/ IsBase(l.id, l.run, l.key)

\* A row to be removed is no base, and its id has no other row.
Removable(x, r) ==
  /\ x.id <= ids /\ x.run = r
  /\ \E b \in Nat : IsBase(b, x.run, x.key) /\ b < x.id
  /\ \A y \in table : y.id = x.id => y.run = x.run /\ y.key = x.key

JobOK(c) ==
  /\ c.next = "save" => /\ \A l \in c.logs : Savable(l, c.event)
                        /\ \A k \in Keys : \E l \in c.logs : l.key = k
  /\ c.next # "find" => \A x \in c.toremove : Removable(x, c.event.run)
  /\ c.next = "remove" => HasRows(c.event.run)

IsIn(m, c) == \E j \in 1..N(m) : Line(m)[j] = c

JobsOK(m) == \A c \in Saves : IsIn(m, c) => JobOK(c)

\* A run whose first event is no longer waiting has its rows.
FirstSaved(m) ==
  \A r \in Runs :
    r \notin Missed[m] /\ r \notin refused[m] /\ heard[m][r] >= 1
      /\ ~InLine(Line(m), N(m), r, 1) => HasRows(r)

OwnIds ==
  /\ \A x \in table : x.id \in 1..ids
  /\ \A x, y \in table : x.id = y.id => x = y

Tabled == OwnIds /\ \A m \in Monitors : JobsOK(m) /\ FirstSaved(m)

\* What every step on the table keeps.
Keeps ==
  /\ \A i, r, k : IsBase(i, r, k) => IsBase(i, r, k)'
  /\ \A y \in table' : \/ \E x \in table : x.id = y.id /\ x.run = y.run /\ x.key = y.key
                       \/ y.id > ids
  /\ ids <= ids'

\* Where a run has a row of a key, one of them is the base.
LEMMA BaseOf ==
  ASSUME table \in SUBSET Rows, NEW y \in table
  PROVE  \E b \in Nat : IsBase(b, y.run, y.key) /\ b <= y.id
<1> DEFINE R == {x \in table : x.run = y.run /\ x.key = y.key}
<1>1. R \in SUBSET Rows /\ y \in R
  OBVIOUS
<1>2. PICK x \in R : \A z \in R : x.id <= z.id
  BY <1>1, LeastId
<1>3. x.id \in Nat
  BY <1>1 DEF Rows
<1>4. IsBase(x.id, y.run, y.key) /\ x.id <= y.id
  BY <1>1, <1>2 DEF IsBase
<1> QED BY <1>3, <1>4

LEMMA RowsKept ==
  ASSUME TypeOK, Keeps, NEW r, HasRows(r)
  PROVE  HasRows(r)'
<1> SUFFICES ASSUME NEW k \in Keys PROVE \E y \in table' : y.run = r /\ y.key = k
  BY DEF HasRows
<1>1. PICK y \in table : y.run = r /\ y.key = k
  BY DEF HasRows
<1>2. PICK b \in Nat : IsBase(b, r, k)
  BY <1>1, BaseOf DEF TypeOK
<1>3. IsBase(b, r, k)'
  BY <1>2 DEF Keeps
<1> QED BY <1>3 DEF IsBase

LEMMA JobKept ==
  ASSUME TypeOK, TypeOK', Keeps, NEW c \in Saves, JobOK(c)
  PROVE  JobOK(c)'
<1>1. ASSUME NEW l, NEW e, Savable(l, e) PROVE Savable(l, e)'
  BY <1>1 DEF Savable, Keeps
<1>2. ASSUME NEW x \in Rows, NEW r, Removable(x, r) PROVE Removable(x, r)'
  <2>1. ids \in Nat /\ ids' \in Nat /\ ids <= ids' /\ x.id \in Nat /\ x.id <= ids
    BY <1>2 DEF TypeOK, Keeps, Removable, Rows
  <2>2. \E b \in Nat : IsBase(b, x.run, x.key)' /\ b < x.id
    BY <1>2 DEF Removable, Keeps
  <2>3. ASSUME NEW y \in table', y.id = x.id PROVE y.run = x.run /\ y.key = x.key
    <3>1. ~(y.id > ids)
      BY <2>1, <2>3
    <3>2. PICK z \in table : z.id = y.id /\ z.run = y.run /\ z.key = y.key
      BY <3>1 DEF Keeps
    <3> QED BY <1>2, <2>3, <3>2 DEF Removable
  <2>4. x.id <= ids' /\ x.run = r
    BY <1>2, <2>1 DEF Removable
  <2> QED BY <2>2, <2>3, <2>4 DEF Removable
<1>3. c.next = "save" => /\ \A l \in c.logs : Savable(l, c.event)'
                         /\ \A k \in Keys : \E l \in c.logs : l.key = k
  BY <1>1 DEF JobOK
<1>4. c.next # "find" => \A x \in c.toremove : Removable(x, c.event.run)'
  <2>1. c.toremove \in SUBSET Rows
    BY DEF Saves
  <2> QED BY <1>2, <2>1 DEF JobOK
<1>5. c.next = "remove" => HasRows(c.event.run)'
  BY RowsKept DEF JobOK
<1> QED BY <1>3, <1>4, <1>5 DEF JobOK

\* What holds of the jobs of a monitor to which nothing happens holds on.
LEMMA JobsSame ==
  ASSUME TypeOK, TypeOK', Keeps, NEW m \in Monitors, SameLine(m), JobsOK(m)
  PROVE  JobsOK(m)'
<1> SUFFICES ASSUME NEW c \in Saves, IsIn(m, c)' PROVE JobOK(c)'
  BY DEF JobsOK
<1>1. IsIn(m, c)
  BY DEF IsIn, SameLine
<1> QED BY <1>1, JobKept DEF JobsOK

LEMMA FirstSame ==
  ASSUME TypeOK, Keeps, NEW m \in Monitors, FirstSaved(m), heard'[m] = heard[m],
         \A r \in Runs : r \in refused[m] => r \in refused'[m],
         \A r \in Runs : InLine(Line(m), N(m), r, 1) => InLine(Line(m)', N(m)', r, 1)
                          \/ HasRows(r)' \/ r \in refused'[m]
  PROVE  FirstSaved(m)'
<1> SUFFICES ASSUME NEW r \in Runs, r \notin Missed[m], r \notin refused'[m], heard'[m][r] >= 1,
                    ~InLine(Line(m)', N(m)', r, 1)
             PROVE  HasRows(r)'
  BY DEF FirstSaved
<1>1. CASE InLine(Line(m), N(m), r, 1)
  BY <1>1
<1>2. CASE ~InLine(Line(m), N(m), r, 1)
  <2>1. HasRows(r)
    BY <1>2 DEF FirstSaved
  <2> QED BY <2>1, RowsKept
<1> QED BY <1>1, <1>2

LEMMA SameInLine ==
  ASSUME NEW m \in Monitors, SameLine(m), NEW r, NEW k
  PROVE  InLine(Line(m), N(m), r, k) <=> InLine(Line(m)', N(m)', r, k)
BY DEF SameLine, InLine

\* A call that may go on and is not about the first event finds rows.
LEMMA FirstIsThere ==
  ASSUME TypeOK, Queued, Tabled, NEW m \in Monitors, NEW i \in 1..Len(doing[m]),
         HasSemaphore(m, i), doing[m][i].event.nr # 1
  PROVE  HasRows(doing[m][i].event.run)
<1> DEFINE e == doing[m][i].event
           L == Line(m)
           n == N(m)
           h == heard[m]
<1>1. /\ i \in 1..n /\ First(L, i) /\ L[i].event = e /\ e.run \in Runs /\ e.run \notin taken[m]
      /\ n \in Nat /\ \A j \in 1..n : L[j] \in Saves
  BY SemaphoreIs, LineIs
<1>2. InOrder(L, n, h, m) /\ e.run \notin refused[m] /\ h \in [Runs -> Nat]
  BY <1>1 DEF Queued, QueuedAt, TypeOK
<1>3. e.nr \in Nat /\ e.nr >= 1
  <2>1. L[i] \in Saves
    BY <1>1
  <2> QED BY <1>1, <2>1, TaskStoreAssumption DEF Saves, Events, States
<1>4. FirstSaved(m)
  BY DEF Tabled
<1> HIDE DEF e
<1>5. h[e.run] >= 1 /\ e.run \notin Missed[m]
  <2>1. e.nr <= h[e.run] /\ e.run \notin Missed[m]
    <3> HIDE DEF L, n, h
    <3> QED BY <1>1, <1>2 DEF InOrder
  <2>2. h[e.run] \in Nat
    BY <1>1, <1>2
  <2> QED BY <1>3, <2>1, <2>2
<1>6. ~InLine(L, n, e.run, 1)
  <2> SUFFICES ASSUME NEW j \in 1..n, L[j].event.run = e.run, L[j].event.nr = 1 PROVE FALSE
    BY DEF InLine
  <2> HIDE DEF L, n, h
  <2>1. ~(j \in 1..i - 1)
    BY <1>1 DEF First
  <2>2. j # i
    BY <1>1 DEF e, L
  <2>3. i < j
    BY <1>1, <2>1, <2>2
  <2>4. e.nr < 1
    BY <1>1, <1>2, <2>3 DEF InOrder
  <2> QED BY <1>3, <2>4
<1> QED BY <1>1, <1>2, <1>4, <1>5, <1>6 DEF FirstSaved, e

\* What a call has found is true of the table.
LEMMA FoundOK ==
  ASSUME TypeOK, Queued, Tabled, NEW m \in Monitors, NEW i \in 1..Len(doing[m]),
         HasSemaphore(m, i)
  PROVE  LET e == doing[m][i].event
         IN  JobOK([event |-> e, next |-> "save", logs |-> Updated(e, OfRun(e.run)),
                    toremove |-> Duplicates(OfRun(e.run))])
<1> DEFINE e == doing[m][i].event
           found == OfRun(e.run)
           c == [event |-> e, next |-> "save", logs |-> Updated(e, found),
                 toremove |-> Duplicates(found)]
<1>1. e \in Events /\ found \in SUBSET Rows /\ found = {x \in table : x.run = e.run}
  BY UpdatedIsSave DEF OfRun
<1>2. e.nr # 1 => HasRows(e.run)
  BY FirstIsThere
<1>3. OwnIds /\ table \in SUBSET Rows /\ ids \in Nat
  BY DEF Tabled, TypeOK
<1> HIDE DEF e, found
<1>4. ASSUME NEW k \in Keys, NEW l,
             l = [id |-> IF \E x \in found : x.key = k
                         THEN OldestOf({x \in found : x.key = k}).id ELSE 0,
                  run |-> e.run, key |-> k, state |-> e.nr]
      PROVE  Savable(l, e)
  <2> DEFINE R == {x \in found : x.key = k}
  <2>1. CASE \E x \in found : x.key = k
    <3>1. R \in SUBSET Rows /\ R # {}
      BY <1>1, <2>1
    <3> DEFINE o == OldestOf(R)
    <3>2. o \in R /\ \A y \in R : o.id <= y.id
      BY <3>1, OldestIs
    <3>3. l.id = o.id /\ l.run = e.run /\ l.key = k /\ l.state = e.nr
      BY <1>4, <2>1
    <3> HIDE DEF o
    <3>4. IsBase(o.id, e.run, k)
      BY <1>1, <3>2 DEF IsBase
    <3> QED BY <3>3, <3>4 DEF Savable
  <2>2. CASE ~\E x \in found : x.key = k
    <3>1. l.id = 0 /\ l.run = e.run /\ l.key = k /\ l.state = e.nr
      BY <1>4, <2>2
    <3>2. e.nr = 1
      BY <1>1, <1>2, <2>2 DEF HasRows
    <3> QED BY <3>1, <3>2 DEF Savable
  <2> QED BY <2>1, <2>2
<1>5. \A l \in Updated(e, found) : Savable(l, e)
  BY <1>4 DEF Updated
<1>6. ASSUME NEW k \in Keys PROVE \E l \in Updated(e, found) : l.key = k
  <2> DEFINE l == [id |-> IF \E x \in found : x.key = k
                          THEN OldestOf({x \in found : x.key = k}).id ELSE 0,
                   run |-> e.run, key |-> k, state |-> e.nr]
  <2>1. l \in Updated(e, found)
    BY DEF Updated
  <2>2. l.key = k
    OBVIOUS
  <2> QED BY <2>1, <2>2
<1>7. ASSUME NEW x \in Duplicates(found) PROVE Removable(x, e.run)
  <2>1. PICK y \in found : x \in found /\ y.key = x.key /\ y.id < x.id
    BY <1>7 DEF Duplicates
  <2>2. x \in table /\ y \in table /\ x.run = e.run /\ y.run = e.run
    BY <1>1, <2>1
  <2>3. PICK b \in Nat : IsBase(b, y.run, y.key) /\ b <= y.id
    BY <1>3, <2>2, BaseOf
  <2>4. x.id \in Nat /\ y.id \in Nat
    BY <1>3, <2>2 DEF Rows
  <2>5. b < x.id /\ IsBase(b, x.run, x.key)
    BY <2>1, <2>2, <2>3, <2>4
  <2>6. x.id <= ids /\ \A z \in table : z.id = x.id => z = x
    BY <1>3, <2>2 DEF OwnIds
  <2> QED BY <2>2, <2>5, <2>6 DEF Removable
<1>8. c.event = e /\ c.next = "save" /\ c.logs = Updated(e, found) /\ c.toremove = Duplicates(found)
  OBVIOUS
<1> HIDE DEF c
<1>9. JobOK(c)
  BY <1>5, <1>6, <1>7, <1>8 DEF JobOK
<1> QED BY <1>9 DEF c, e, found

\* What is in the table after a save: rows it has not touched, rows it has
\* brought to the state of its event, and new ones with ids of their own.
LEMMA SaveTable ==
  ASSUME Typed, Tabled, NEW c \in Saves, IsFiniteSet(c.logs), JobOK(c), c.next = "save",
         table' = Stored(c.logs), ids' = ids + Cardinality({x \in c.logs : x.id = 0})
  PROVE  /\ Keeps /\ OwnIds' /\ HasRows(c.event.run)'
         /\ \A y \in table' : \/ y \in table /\ \A l \in c.logs : l.id # y.id
                             \/ /\ y.run = c.event.run /\ y.state = c.event.nr
                                /\ IsBase(y.id, y.run, y.key)
                             \/ /\ y.run = c.event.run /\ y.state = c.event.nr
                                /\ c.event.nr = 1 /\ y.id > ids
         /\ \A y \in table' : IsBase(y.id, y.run, y.key) /\ y.run = c.event.run /\ c.event.nr # 1
                             => y.state = c.event.nr
<1> DEFINE logs == c.logs
           e == c.event
           new == {x \in logs : x.id = 0}
           f == NewIds(new)
           top == ids + Cardinality(new)
<1>1. TypeOK /\ table \in SUBSET Rows /\ ids \in Nat /\ OwnIds /\ ids' = top
  BY DEF Typed, Tabled, TypeOK
<1>2. logs \in SUBSET Rows /\ e \in Events
  BY DEF Saves
<1>3. /\ Cardinality(new) \in Nat /\ f \in [new -> ids + 1..top]
      /\ \A x, y \in new : f[x] = f[y] => x = y
  BY <1>1, <1>2, StoredAre
<1>4. \A l \in logs : Savable(l, e)
  BY DEF JobOK
<1>5. \A k \in Keys : \E l \in logs : l.key = k
  BY DEF JobOK
<1> DEFINE Old(y) == y \in table /\ \A l \in logs : l.id # y.id
           Brought(y) == y \in logs /\ y.id # 0
           Fresh(y, x) == x \in new /\ y = [x EXCEPT !.id = f[x]]
<1>6. table' = {x \in table : \A y \in logs : y.id # x.id}
                 \cup (logs \ new) \cup {[x EXCEPT !.id = f[x]] : x \in new}
  BY DEF Stored
<1>7. \A y : y \in table' <=> Old(y) \/ Brought(y) \/ \E x \in new : Fresh(y, x)
  <2> HIDE DEF f
  <2> QED BY <1>6
<1>8. ASSUME NEW y, NEW x, Fresh(y, x)
      PROVE  /\ y.id = f[x] /\ y.id \in Nat /\ y.id > ids /\ y.id <= top
             /\ y.run = e.run /\ y.key = x.key /\ y.state = e.nr
             /\ x \in new /\ x.key \in Keys /\ e.nr = 1
  <2>1. x \in logs /\ x.id = 0 /\ x \in Rows
    BY <1>2, <1>8
  <2>2. f[x] \in ids + 1..top
    BY <1>3, <1>8
  <2>3. f[x] \in Nat /\ f[x] > ids /\ f[x] <= top
    BY <1>1, <1>3, <2>2
  <2>4. Savable(x, e)
    BY <1>4, <2>1
  <2>5. ~IsBase(x.id, x.run, x.key)
    BY <1>1, <2>1 DEF IsBase, OwnIds
  <2>6. x.run = e.run /\ x.state = e.nr /\ e.nr = 1
    BY <2>4, <2>5 DEF Savable
  <2> HIDE DEF f
  <2>7. /\ y.id = f[x] /\ y.run = x.run /\ y.key = x.key /\ y.state = x.state
        /\ x.key \in Keys /\ x \in new
    BY <1>8, <2>1 DEF Rows
  <2> QED BY <2>3, <2>6, <2>7
<1>9. ASSUME NEW y, Brought(y)
      PROVE  /\ IsBase(y.id, y.run, y.key) /\ y.run = e.run /\ y.state = e.nr /\ y \in Rows
             /\ \E x \in table : x.id = y.id /\ x.run = y.run /\ x.key = y.key
             /\ y.id \in 1..ids
  <2>1. Savable(y, e) /\ y \in Rows
    BY <1>2, <1>4, <1>9
  <2>2. IsBase(y.id, y.run, y.key)
    BY <1>9, <2>1 DEF Savable
  <2>3. PICK x \in table : x.id = y.id /\ x.run = y.run /\ x.key = y.key
    BY <2>2 DEF IsBase
  <2>4. y.id \in 1..ids
    BY <1>1, <2>3 DEF OwnIds
  <2> QED BY <2>1, <2>2, <2>3, <2>4 DEF Savable
<1>10. ASSUME NEW y, Old(y) PROVE y \in table /\ y \in Rows /\ y.id \in 1..ids
  BY <1>1, <1>10 DEF OwnIds
<1>11. \A l \in logs : l.id = 0 => Fresh([l EXCEPT !.id = f[l]], l)
  OBVIOUS
<1>12. \A l \in logs : (\A x \in table : x.id # l.id) \/ Brought(l)
  BY <1>1 DEF OwnIds
<1>13. \A y : Old(y) => \A l \in logs : l.id # y.id
  OBVIOUS
<1>14. \A y : Brought(y) => y \in logs
  OBVIOUS
<1>15. \A x \in table : Old(x) \/ \E l \in logs : l.id = x.id
  OBVIOUS
<1>16. ids <= top /\ top \in Nat
  BY <1>1, <1>3
<1> HIDE DEF Old, Brought, Fresh, new, f, top, logs, e
<1>17. ASSUME NEW y \in table'
       PROVE  \/ \E x \in table : x.id = y.id /\ x.run = y.run /\ x.key = y.key
              \/ y.id > ids
  BY <1>7, <1>8, <1>9, <1>10
<1>18. ASSUME NEW i, NEW r, NEW k, IsBase(i, r, k) PROVE IsBase(i, r, k)'
  <2>1. PICK x \in table : x.id = i /\ x.run = r /\ x.key = k
    BY <1>18 DEF IsBase
  <2>2. \E y \in table' : y.id = i /\ y.run = r /\ y.key = k
    <3>1. CASE Old(x)
      BY <1>7, <2>1, <3>1
    <3>2. CASE ~Old(x)
      <4>1. PICK l \in logs : l.id = x.id
        BY <1>15, <3>2
      <4>2. Brought(l)
        BY <1>12, <4>1
      <4>3. PICK z \in table : z.id = l.id /\ z.run = l.run /\ z.key = l.key
        BY <1>9, <4>2
      <4>4. z = x
        BY <1>1, <4>1, <4>3 DEF OwnIds
      <4> QED BY <1>7, <2>1, <4>1, <4>2, <4>3, <4>4
    <3> QED BY <3>1, <3>2
  <2>3. ASSUME NEW y \in table', y.run = r, y.key = k PROVE i <= y.id
    <3>1. CASE \E z \in table : z.id = y.id /\ z.run = y.run /\ z.key = y.key
      BY <1>18, <2>3, <3>1 DEF IsBase
    <3>2. CASE y.id > ids
      <4>1. i \in 1..ids
        BY <1>1, <2>1 DEF OwnIds
      <4>2. y.id \in Nat
        BY <1>7, <1>8, <1>9, <1>10
      <4> QED BY <1>1, <3>2, <4>1, <4>2
    <3> QED BY <1>17, <3>1, <3>2
  <2> QED BY <2>2, <2>3 DEF IsBase
<1>19. Keeps
  BY <1>1, <1>16, <1>17, <1>18 DEF Keeps
<1>20. \A y \in table' : y.id \in 1..ids'
  <2> SUFFICES ASSUME NEW y \in table' PROVE y.id \in 1..top
    BY <1>1
  <2>1. CASE y.id \in 1..ids
    BY <1>1, <1>16, <2>1
  <2>2. CASE \E x : Fresh(y, x)
    <3>1. y.id \in Nat /\ y.id > ids /\ y.id <= top
      BY <1>8, <2>2
    <3> QED BY <1>1, <1>16, <3>1
  <2> QED BY <1>7, <1>9, <1>10, <2>1, <2>2
<1>21. ASSUME NEW y \in table', NEW z \in table', y.id = z.id PROVE y = z
  <2>1. ASSUME NEW a, NEW b, Fresh(a, b) PROVE ~(a.id \in 1..ids)
    <3>1. a.id \in Nat /\ a.id > ids
      BY <1>8, <2>1
    <3> QED BY <1>1, <3>1
  <2>2. CASE Old(y) /\ Old(z)
    BY <1>1, <1>10, <1>21, <2>2 DEF OwnIds
  <2>3. CASE Brought(y) /\ Brought(z)
    <3>1. y.run = z.run /\ y.state = z.state /\ y \in Rows /\ z \in Rows
      BY <1>9, <2>3
    <3>2. PICK a \in table : a.id = y.id /\ a.run = y.run /\ a.key = y.key
      BY <1>9, <2>3
    <3>3. PICK b \in table : b.id = z.id /\ b.run = z.run /\ b.key = z.key
      BY <1>9, <2>3
    <3>4. a = b
      BY <1>1, <1>21, <3>2, <3>3 DEF OwnIds
    <3>5. y.key = z.key
      BY <3>2, <3>3, <3>4
    <3> QED BY <1>21, <3>1, <3>5 DEF Rows
  <2>4. CASE (\E x : Fresh(y, x)) /\ \E x : Fresh(z, x)
    <3>1. PICK a : Fresh(y, a)
      BY <2>4
    <3>2. PICK b : Fresh(z, b)
      BY <2>4
    <3>3. f[a] = f[b] /\ a \in new /\ b \in new
      BY <1>8, <1>21, <3>1, <3>2
    <3>4. a = b
      BY <1>3, <3>3
    <3> QED BY <3>1, <3>2, <3>4 DEF Fresh
  <2>5. CASE Old(y) /\ Brought(z)
    BY <1>13, <1>14, <1>21, <2>5
  <2>6. CASE Brought(y) /\ Old(z)
    BY <1>13, <1>14, <1>21, <2>6
  <2>7. CASE (\E x : Fresh(y, x)) /\ (Old(z) \/ Brought(z))
    BY <1>9, <1>10, <1>21, <2>1, <2>7
  <2>8. CASE (Old(y) \/ Brought(y)) /\ \E x : Fresh(z, x)
    BY <1>9, <1>10, <1>21, <2>1, <2>8
  <2> QED BY <1>7, <2>2, <2>3, <2>4, <2>5, <2>6, <2>7, <2>8
<1>22. OwnIds'
  BY <1>20, <1>21 DEF OwnIds
<1>23. HasRows(e.run)'
  <2> SUFFICES ASSUME NEW k \in Keys PROVE \E y \in table' : y.run = e.run /\ y.key = k
    BY DEF HasRows
  <2>1. PICK l \in logs : l.key = k
    BY <1>5
  <2>2. CASE l.id = 0
    <3> DEFINE y == [l EXCEPT !.id = f[l]]
    <3>1. Fresh(y, l)
      BY <1>11, <2>2
    <3> HIDE DEF y
    <3>2. y \in table' /\ y.run = e.run /\ y.key = k
      BY <1>7, <1>8, <2>1, <3>1
    <3> QED BY <3>2
  <2>3. CASE l.id # 0
    <3>1. Brought(l)
      BY <2>3 DEF Brought
    <3> QED BY <1>7, <1>9, <2>1, <3>1
  <2> QED BY <2>2, <2>3
<1>24. ASSUME NEW y \in table'
       PROVE  \/ y \in table /\ \A l \in logs : l.id # y.id
              \/ y.run = e.run /\ y.state = e.nr /\ IsBase(y.id, y.run, y.key)
              \/ y.run = e.run /\ y.state = e.nr /\ e.nr = 1 /\ y.id > ids
  BY <1>7, <1>8, <1>9, <1>10, <1>13
<1>25. ASSUME NEW y \in table', IsBase(y.id, y.run, y.key), y.run = e.run, e.nr # 1
       PROVE  y.state = e.nr
  <2>1. CASE Old(y)
    <3>1. y \in Rows /\ y \in table
      BY <1>10, <2>1
    <3>2. PICK l \in logs : l.key = y.key
      BY <1>5, <3>1 DEF Rows
    <3>3. IsBase(l.id, y.run, y.key)
      BY <1>4, <1>25, <3>2 DEF Savable
    <3>4. PICK z \in table : z.id = l.id /\ z.run = y.run /\ z.key = y.key
      BY <3>3 DEF IsBase
    <3>5. l.id <= y.id /\ y.id <= z.id
      BY <1>25, <3>1, <3>3, <3>4 DEF IsBase
    <3>6. y.id \in Nat /\ z.id \in Nat
      BY <1>1, <3>1, <3>4 DEF Rows
    <3>7. l.id = y.id
      BY <3>4, <3>5, <3>6
    <3> QED BY <1>13, <2>1, <3>2, <3>7
  <2> QED BY <1>7, <1>8, <1>9, <2>1
<1> QED BY <1>19, <1>22, <1>23, <1>24, <1>25 DEF e, logs

\* What is removed are rows that are no base.
LEMMA RemoveTable ==
  ASSUME TypeOK, Tabled, NEW c \in Saves, JobOK(c), c.next = "remove",
         table' = {x \in table : \A y \in c.toremove : x.id # y.id}, ids' = ids
  PROVE  Keeps /\ OwnIds' /\ HasRows(c.event.run)'
<1>1. /\ table \in SUBSET Rows /\ ids \in Nat /\ OwnIds /\ HasRows(c.event.run)
      /\ \A x \in c.toremove : Removable(x, c.event.run)
      /\ c.toremove \in SUBSET Rows
  BY DEF TypeOK, Tabled, JobOK, Saves
<1>2. \A y \in table' : y \in table
  OBVIOUS
<1>3. ASSUME NEW i, NEW r, NEW k, IsBase(i, r, k) PROVE IsBase(i, r, k)'
  <2>1. PICK x \in table : x.id = i /\ x.run = r /\ x.key = k
    BY <1>3 DEF IsBase
  <2>2. ASSUME NEW y \in c.toremove, y.id = x.id PROVE FALSE
    <3>1. x.run = y.run /\ x.key = y.key
      BY <1>1, <2>2 DEF Removable
    <3>2. PICK b \in Nat : IsBase(b, y.run, y.key) /\ b < y.id
      BY <1>1, <2>2 DEF Removable
    <3>3. PICK z \in table : z.id = b /\ z.run = y.run /\ z.key = y.key
      BY <3>2 DEF IsBase
    <3>4. x.id <= b
      BY <1>3, <2>1, <3>1, <3>3 DEF IsBase
    <3>5. x.id \in Nat
      BY <1>1, <2>1 DEF Rows
    <3> QED BY <2>2, <3>2, <3>4, <3>5
  <2>3. x \in table'
    BY <2>2
  <2> QED BY <1>2, <1>3, <2>1, <2>3 DEF IsBase
<1>4. Keeps
  BY <1>1, <1>2, <1>3 DEF Keeps
<1>5. OwnIds'
  BY <1>1, <1>2 DEF OwnIds
<1>6. HasRows(c.event.run)'
  BY <1>1, <1>4, RowsKept
<1> QED BY <1>4, <1>5, <1>6

LEMMA TableSame ==
  ASSUME TypeOK, OwnIds, UNCHANGED <<table, ids>>
  PROVE  Keeps /\ OwnIds' /\ \A r : HasRows(r) => HasRows(r)'
<1>1. ids <= ids'
  BY DEF TypeOK
<1>2. \A i, r, k : IsBase(i, r, k) => IsBase(i, r, k)'
  BY DEF IsBase
<1> QED BY <1>1, <1>2 DEF Keeps, OwnIds, HasRows

LEMMA TabledStep ==
  ASSUME Typed, Typed', Queued, Tabled, [Next]_vars
  PROVE  Keeps /\ Tabled'
<1>0. TypeOK /\ TypeOK' /\ OwnIds
  BY DEF Typed, Tabled
<1>1. CASE UNCHANGED vars
  <2>1. Keeps /\ OwnIds'
    BY <1>0, <1>1, TableSame DEF vars
  <2>2. ASSUME NEW n \in Monitors PROVE JobsOK(n)' /\ FirstSaved(n)'
    <3>1. SameLine(n) /\ heard' = heard /\ refused' = refused
      BY <1>1, OtherLines DEF vars
    <3>2. JobsOK(n) /\ FirstSaved(n)
      BY DEF Tabled
    <3>3. JobsOK(n)'
      BY <1>0, <2>1, <3>1, <3>2, JobsSame
    <3>4. FirstSaved(n)'
      BY <1>0, <2>1, <3>1, <3>2, SameInLine, FirstSame
    <3> QED BY <3>3, <3>4
  <2> QED BY <2>1, <2>2 DEF Tabled
<1> SUFFICES ASSUME Next PROVE Keeps /\ Tabled'
  BY <1>1
<1>2. PICK m \in Monitors :
        \/ \E r \in Runs : Hear(m, r)
        \/ Start(m) \/ Finish(m) \/ Finished(m)
        \/ Saving(m)
        \/ \E i \in 1..Len(doing[m]) : Refuse(m, i)
  BY DEF Next
<1>3. /\ JobsOK(m) /\ FirstSaved(m) /\ QueuedAt(m) /\ N(m) \in Nat
      /\ \A j \in 1..N(m) : Line(m)[j] \in Saves
      /\ heard \in [Monitors -> [Runs -> Nat]] /\ refused \in [Monitors -> SUBSET Runs]
  BY <1>0, LineIs DEF Queued, Tabled, TypeOK
<1>4. ASSUME Keeps, OwnIds', JobsOK(m)', FirstSaved(m)',
             \A n \in Monitors : n # m => /\ SameLine(n) /\ heard'[n] = heard[n]
                                          /\ refused'[n] = refused[n]
      PROVE  Keeps /\ Tabled'
  <2>1. ASSUME NEW n \in Monitors, n # m PROVE JobsOK(n)' /\ FirstSaved(n)'
    <3>1. SameLine(n) /\ heard'[n] = heard[n] /\ refused'[n] = refused[n]
      BY <1>4, <2>1
    <3>2. JobsOK(n) /\ FirstSaved(n)
      BY DEF Tabled
    <3>3. JobsOK(n)'
      BY <1>0, <1>4, <3>1, <3>2, JobsSame
    <3>4. FirstSaved(n)'
      BY <1>0, <1>4, <3>1, <3>2, SameInLine, FirstSame
    <3> QED BY <3>3, <3>4
  <2> QED BY <1>4, <2>1 DEF Tabled
<1>5. CASE \E r \in Runs : Hear(m, r)
  <2>1. PICK r \in Runs : Hear(m, r)
    BY <1>5
  <2>2. /\ N(m)' = N(m) + 1
        /\ \A j \in 1..N(m) : Line(m)'[j] = Line(m)[j]
        /\ Line(m)'[N(m) + 1] = Job([run |-> r, nr |-> heard[m][r] + 1])
        /\ \A n \in Monitors : n # m => SameLine(n)
    BY <1>0, <2>1, HearLine
  <2>3. /\ heard'[m] = [heard[m] EXCEPT ![r] = heard[m][r] + 1]
        /\ \A n \in Monitors : n # m => heard'[n] = heard[n]
        /\ refused' = refused /\ UNCHANGED <<table, ids>>
    BY <1>3, <2>1 DEF Hear
  <2>4. Keeps /\ OwnIds' /\ \A s : HasRows(s) => HasRows(s)'
    BY <1>0, <2>3, TableSame
  <2>5. JobsOK(m)'
    <3> SUFFICES ASSUME NEW c \in Saves, IsIn(m, c)' PROVE JobOK(c)'
      BY DEF JobsOK
    <3>1. PICK j \in 1..N(m) + 1 : Line(m)'[j] = c
      BY <2>2 DEF IsIn
    <3>2. CASE j = N(m) + 1
      <4>1. c.next = "find"
        BY <2>2, <3>1, <3>2 DEF Job
      <4> QED BY <4>1 DEF JobOK
    <3>3. CASE j \in 1..N(m)
      <4>1. JobOK(c)
        BY <1>3, <2>2, <3>1, <3>3 DEF JobsOK, IsIn
      <4> QED BY <1>0, <2>4, <4>1, JobKept
    <3> QED BY <1>3, <3>2, <3>3
  <2>6. FirstSaved(m)'
    <3> SUFFICES ASSUME NEW s \in Runs, s \notin Missed[m], s \notin refused'[m],
                        heard'[m][s] >= 1, ~InLine(Line(m)', N(m)', s, 1)
                 PROVE  HasRows(s)'
      BY DEF FirstSaved
    <3> DEFINE L == Line(m)
               M == Line(m)'
               n == N(m)
    <3>1. /\ N(m)' = n + 1 /\ n \in Nat /\ \A j \in 1..n : M[j] = L[j] /\ j \in 1..n + 1
          /\ M[n + 1].event = [run |-> r, nr |-> heard[m][r] + 1]
      BY <1>3, <2>2 DEF Job
    <3>2. ~InLine(M, n + 1, s, 1)
      BY <3>1
    <3>3. FirstSaved(m) /\ refused'[m] = refused[m]
      BY <1>3, <2>3
    <3>4. ~InLine(L, n, s, 1)
      <4> HIDE DEF L, M, n
      <4> QED BY <3>1, <3>2 DEF InLine
    <3>5. heard[m][s] >= 1
      <4>1. CASE s # r
        BY <1>3, <2>3, <4>1
      <4>2. CASE s = r
        <5>1. heard[m][r] \in Nat
          BY <1>3
        <5>2. heard[m][r] + 1 # 1
          <6> HIDE DEF L, M, n
          <6>1. n + 1 \in 1..n + 1
            BY <3>1
          <6> QED BY <3>1, <3>2, <4>2, <6>1 DEF InLine
        <5> QED BY <4>2, <5>1, <5>2
      <4> QED BY <4>1, <4>2
    <3>6. HasRows(s)
      BY <3>3, <3>4, <3>5 DEF FirstSaved
    <3> QED BY <2>4, <3>6
  <2> QED BY <1>4, <2>2, <2>3, <2>4, <2>5, <2>6
<1>6. CASE Start(m) \/ Finish(m) \/ Finished(m)
  <2>1. \A n \in Monitors : SameLine(n)
    BY <1>0, <1>6, StartLine, OtherLines DEF Finish, Finished
  <2>2. heard' = heard /\ refused' = refused /\ UNCHANGED <<table, ids>>
    BY <1>6 DEF Start, Finish, Finished
  <2>3. Keeps /\ OwnIds'
    BY <1>0, <2>2, TableSame
  <2>4. JobsOK(m)'
    BY <1>0, <1>3, <2>1, <2>3, JobsSame
  <2>5. FirstSaved(m)'
    BY <1>0, <1>3, <2>1, <2>2, <2>3, SameInLine, FirstSame
  <2> QED BY <1>4, <2>1, <2>2, <2>3, <2>4, <2>5
<1>7. ASSUME NEW i \in 1..Len(doing[m]), NEW c \in Saves, HasSemaphore(m, i),
             c.event = doing[m][i].event, doing' = With(m, i, c),
             UNCHANGED <<heard, queue, refused>>, Keeps, OwnIds', JobOK(c)'
      PROVE  Keeps /\ Tabled'
  <2>1. /\ N(m)' = N(m)
        /\ \A j \in 1..N(m) : Line(m)'[j] = IF j = i THEN c ELSE Line(m)[j]
        /\ \A n \in Monitors : n # m => SameLine(n)
    <3>1. queue' = queue
      BY <1>7
    <3> QED BY <1>0, <1>7, <3>1, WithLine
  <2>2. i \in 1..N(m) /\ Line(m)[i] = doing[m][i]
    BY <1>0, <1>7, SemaphoreIs
  <2>3. JobsOK(m)'
    <3> SUFFICES ASSUME NEW b \in Saves, IsIn(m, b)' PROVE JobOK(b)'
      BY DEF JobsOK
    <3>1. PICK j \in 1..N(m) : Line(m)'[j] = b
      BY <2>1 DEF IsIn
    <3>2. CASE j = i
      BY <1>7, <2>1, <3>1, <3>2
    <3>3. CASE j # i
      <4>1. JobOK(b)
        BY <1>3, <2>1, <3>1, <3>3 DEF JobsOK, IsIn
      <4> QED BY <1>0, <1>7, <4>1, JobKept
    <3> QED BY <3>2, <3>3
  <2>4. \A j \in 1..N(m) : Line(m)'[j].event = Line(m)[j].event
    BY <1>7, <2>1, <2>2
  <2>5. \A r \in Runs : InLine(Line(m), N(m), r, 1) => InLine(Line(m)', N(m)', r, 1)
    BY <2>1, <2>4 DEF InLine
  <2>6. FirstSaved(m)'
    BY <1>0, <1>3, <1>7, <2>5, FirstSame
  <2> QED BY <1>4, <1>7, <2>1, <2>3, <2>6
<1>8. ASSUME NEW i \in 1..Len(doing[m]), HasSemaphore(m, i), doing' = Without(m, i),
             UNCHANGED <<heard, queue>>, Keeps, OwnIds',
             NEW s, s = doing[m][i].event.run, HasRows(s)' \/ s \in refused'[m],
             refused[m] \subseteq refused'[m],
             \A n \in Monitors : n # m => refused'[n] = refused[n]
      PROVE  Keeps /\ Tabled'
  <2>1. /\ N(m)' = N(m) - 1
        /\ \A j \in 1..N(m) - 1 : Line(m)'[j] = IF j < i THEN Line(m)[j] ELSE Line(m)[j + 1]
        /\ \A n \in Monitors : n # m => SameLine(n)
    <3>1. queue' = queue
      BY <1>8
    <3> QED BY <1>0, <1>8, <3>1, WithoutLine
  <2>2. i \in 1..N(m) /\ First(Line(m), i) /\ Line(m)[i] = doing[m][i]
    BY <1>0, <1>8, SemaphoreIs
  <2>3. JobsOK(m)'
    <3> SUFFICES ASSUME NEW b \in Saves, IsIn(m, b)' PROVE JobOK(b)'
      BY DEF JobsOK
    <3>1. PICK j \in 1..N(m) - 1 : Line(m)'[j] = b
      BY <2>1 DEF IsIn
    <3>2. j \in 1..N(m) /\ j + 1 \in 1..N(m)
      BY <1>3, <3>1
    <3>3. IsIn(m, b)
      BY <2>1, <3>1, <3>2 DEF IsIn
    <3>4. JobOK(b)
      BY <1>3, <3>3 DEF JobsOK
    <3> QED BY <1>0, <1>8, <3>4, JobKept
  <2>4. ASSUME NEW r \in Runs, InLine(Line(m), N(m), r, 1), r # s
        PROVE  InLine(Line(m)', N(m)', r, 1)
    <3> DEFINE L == Line(m)
               M == Line(m)'
               n == N(m)
               h == heard[m]
    <3>1. /\ n \in Nat /\ i \in 1..n /\ InOrder(L, n, h, m) /\ First(L, i)
          /\ h \in [Runs -> Nat] /\ \A j \in 1..n : L[j] \in Saves
          /\ \A j \in 1..n - 1 : M[j] = IF j < i THEN L[j] ELSE L[j + 1]
          /\ r # L[i].event.run /\ InLine(L, n, r, 1)
      BY <1>3, <1>8, <2>1, <2>2, <2>4 DEF QueuedAt
    <3> HIDE DEF L, M, n, h
    <3>2. \A q, k : InLine(L, n, q, k) /\ ~(q = L[i].event.run /\ k = L[i].event.nr)
                    => InLine(M, n - 1, q, k)
      BY <3>1, OrderShorter
    <3>4. InLine(M, n - 1, r, 1)
      BY <3>1, <3>2
    <3>3. N(m)' = n - 1
      BY <2>1 DEF n
    <3> QED BY <3>3, <3>4 DEF M
  <2>5. \A r \in Runs : InLine(Line(m), N(m), r, 1) =>
          InLine(Line(m)', N(m)', r, 1) \/ HasRows(r)' \/ r \in refused'[m]
    <3> TAKE r \in Runs
    <3>1. CASE r = s
      BY <1>8, <3>1
    <3> QED BY <2>4, <3>1
  <2>6. FirstSaved(m)'
    BY <1>0, <1>3, <1>8, <2>5, FirstSame
  <2> QED BY <1>4, <1>8, <2>1, <2>3, <2>6
<1>9. ASSUME NEW i \in 1..Len(doing[m]), Find(m, i)
      PROVE  Keeps /\ Tabled'
  <2> DEFINE e == doing[m][i].event
  <2>0. PICK c : c = [event |-> e, next |-> "save", logs |-> Updated(e, OfRun(e.run)),
                      toremove |-> Duplicates(OfRun(e.run))]
    OBVIOUS
  <2>1. c \in Saves
    BY <1>0, <2>0, UpdatedIsSave
  <2>2. /\ c.event = doing[m][i].event /\ doing' = With(m, i, c) /\ HasSemaphore(m, i)
        /\ UNCHANGED <<heard, queue, refused>> /\ UNCHANGED <<table, ids>>
    BY <1>9, <2>0 DEF Find, Ready, With
  <2>3. JobOK(c)
    BY <1>0, <2>0, <2>2, FoundOK
  <2>4. Keeps /\ OwnIds'
    BY <1>0, <2>2, TableSame
  <2>5. JobOK(c)'
    BY <1>0, <2>1, <2>3, <2>4, JobKept
  <2> QED BY <1>7, <2>1, <2>2, <2>4, <2>5
<1>10. ASSUME NEW i \in 1..Len(doing[m]), Save(m, i)
       PROVE  Keeps /\ Tabled'
  <2>0. PICK c : c = doing[m][i]
    OBVIOUS
  <2>1. /\ HasSemaphore(m, i) /\ UNCHANGED <<heard, queue, refused>> /\ c.next = "save"
        /\ table' = Stored(c.logs) /\ ids' = ids + Cardinality({x \in c.logs : x.id = 0})
    BY <1>10, <2>0 DEF Save, Ready
  <2>2. c \in Saves /\ IsIn(m, c)
    BY <1>0, <2>0, <2>1, SemaphoreIs DEF IsIn
  <2>3. JobOK(c) /\ IsFiniteSet(c.logs)
    BY <1>3, <2>0, <2>2 DEF JobsOK, Typed, FiniteLogs
  <2>4. Keeps /\ OwnIds' /\ HasRows(c.event.run)'
    BY <2>1, <2>2, <2>3, SaveTable
  <2>5. CASE doing' = Without(m, i)
    <3>1. refused[m] \subseteq refused'[m]
      BY <2>1
    <3> QED BY <1>8, <2>0, <2>1, <2>4, <2>5, <3>1
  <2>6. CASE doing' = [doing EXCEPT ![m][i].next = "remove"]
    <3>0. PICK b : b = [c EXCEPT !.next = "remove"]
      OBVIOUS
    <3>1. b \in Saves /\ b.event = c.event /\ b.toremove = c.toremove /\ b.next = "remove"
      BY <2>2, <3>0 DEF Saves
    <3>2. doing' = With(m, i, b)
      BY <2>0, <2>6, <3>0 DEF With
    <3>3. JobOK(c)'
      BY <1>0, <2>2, <2>3, <2>4, JobKept
    <3>4. \A x \in b.toremove : Removable(x, b.event.run)'
      BY <2>1, <3>1, <3>3 DEF JobOK
    <3>5. JobOK(b)'
      BY <2>4, <3>1, <3>4 DEF JobOK
    <3> QED BY <1>7, <2>0, <2>1, <2>4, <3>1, <3>2, <3>5
  <2> QED BY <1>10, <2>5, <2>6 DEF Save
<1>11. ASSUME NEW i \in 1..Len(doing[m]), RemoveRows(m, i)
       PROVE  Keeps /\ Tabled'
  <2>0. PICK c : c = doing[m][i]
    OBVIOUS
  <2>1. /\ HasSemaphore(m, i) /\ UNCHANGED <<heard, queue, refused>> /\ c.next = "remove"
        /\ doing' = Without(m, i)
        /\ table' = {x \in table : \A y \in c.toremove : x.id # y.id} /\ ids' = ids
    BY <1>11, <2>0 DEF RemoveRows, Ready
  <2>2. c \in Saves /\ IsIn(m, c)
    BY <1>0, <2>0, <2>1, SemaphoreIs DEF IsIn
  <2>3. JobOK(c)
    BY <1>3, <2>2 DEF JobsOK
  <2>4. Keeps /\ OwnIds' /\ HasRows(c.event.run)'
    BY <1>0, <2>1, <2>2, <2>3, RemoveTable
  <2>5. refused[m] \subseteq refused'[m]
    BY <2>1
  <2> QED BY <1>8, <2>0, <2>1, <2>4, <2>5
<1>12. ASSUME NEW i \in 1..Len(doing[m]), Refuse(m, i)
       PROVE  Keeps /\ Tabled'
  <2>1. /\ HasSemaphore(m, i) /\ doing' = Without(m, i) /\ UNCHANGED <<heard, queue>>
        /\ UNCHANGED <<table, ids>>
    BY <1>12 DEF Refuse
  <2>2. /\ doing[m][i].event.run \in refused'[m] /\ refused[m] \subseteq refused'[m]
        /\ \A n \in Monitors : n # m => refused'[n] = refused[n]
    BY <1>3, <1>12 DEF Refuse
  <2>3. Keeps /\ OwnIds'
    BY <1>0, <2>1, TableSame
  <2> QED BY <1>8, <2>1, <2>2, <2>3
<1> QED BY <1>2, <1>5, <1>6, <1>9, <1>10, <1>11, <1>12 DEF Saving

LEMMA TabledStart ==
  ASSUME Init
  PROVE  Tabled
<1>1. OwnIds
  BY DEF Init, OwnIds
<1>2. ASSUME NEW m \in Monitors PROVE JobsOK(m) /\ FirstSaved(m)
  <2>1. D(m) = 0 /\ Q(m) = 0
    BY DEF Init, D, Q
  <2>2. N(m) = 0
    BY <2>1 DEF N
  <2>3. heard[m] = [r \in Runs |-> IF r \in Missed[m] THEN Count[r] ELSE 0]
    BY DEF Init
  <2>4. FirstSaved(m)
    BY <2>3 DEF FirstSaved
  <2>5. JobsOK(m)
    BY <2>2 DEF JobsOK, IsIn
  <2> QED BY <2>4, <2>5
<1> QED BY <1>1, <1>2 DEF Tabled

-----------------------------------------------------------------------------
(* Owed: a base that is not in the last state has a monitor that is still   *)
(* to save the last event; a row that is one too many has a monitor that is *)
(* still to find it or that carries it among those it removes.  A monitor   *)
(* that was refused a statement of the run may owe for ever.                *)

Lacks(m, r) == r \in refused[m] \/ heard[m][r] < Count[r]

StillToSave(m, r) ==
  \/ Lacks(m, r)
  \/ \E c \in Saves : /\ IsIn(m, c) /\ c.event.run = r /\ c.event.nr = Count[r]
                      /\ c.next # "remove"

StillToFind(m, r) ==
  \/ Lacks(m, r)
  \/ \E c \in Saves : IsIn(m, c) /\ c.event.run = r /\ c.next = "find"

Removes(m, i, r) ==
  \E c \in Saves : /\ IsIn(m, c) /\ c.event.run = r /\ c.next # "find"
                  /\ \E y \in c.toremove : y.id = i

Dealt(m, x) == StillToFind(m, x.run) \/ Removes(m, x.id, x.run)

OwedAt(x) ==
  Count[x.run] > 1 =>
    /\ IsBase(x.id, x.run, x.key) =>
         x.state = Count[x.run] \/ \E m \in Monitors : StillToSave(m, x.run)
    /\ ~IsBase(x.id, x.run, x.key) => \E m \in Monitors : Dealt(m, x)

Owed == \A x \in table : OwedAt(x)

\* A row that is the first after a step was so before it.
LEMMA BaseBack ==
  ASSUME TypeOK, TypeOK', Keeps, NEW x \in table, IsBase(x.id, x.run, x.key)'
  PROVE  IsBase(x.id, x.run, x.key)
<1>1. PICK b \in Nat : IsBase(b, x.run, x.key) /\ b <= x.id
  BY BaseOf DEF TypeOK
<1>2. IsBase(b, x.run, x.key)'
  BY <1>1 DEF Keeps
<1>3. PICK y \in table' : y.id = b /\ y.run = x.run /\ y.key = x.key
  BY <1>2 DEF IsBase
<1>4. x.id <= b
  BY <1>3 DEF IsBase
<1>5. x.id \in Nat
  BY DEF TypeOK, Rows
<1>6. b = x.id
  BY <1>1, <1>4, <1>5
<1> QED BY <1>1, <1>6

\* What a row is owed, it is owed after a step that leaves it as it is, when
\* somebody still owes it.
LEMMA OwedKept ==
  ASSUME TypeOK, TypeOK', Keeps, Owed, NEW x \in table,
         Count[x.run] > 1 /\ IsBase(x.id, x.run, x.key) =>
           \A n \in Monitors : StillToSave(n, x.run) =>
             x.state = Count[x.run] \/ \E p \in Monitors : StillToSave(p, x.run)',
         Count[x.run] > 1 /\ ~IsBase(x.id, x.run, x.key) =>
           \A n \in Monitors : Dealt(n, x) => \E p \in Monitors : Dealt(p, x)'
  PROVE  OwedAt(x)'
<1>1. OwedAt(x)
  BY DEF Owed
<1>2. IsBase(x.id, x.run, x.key)' <=> IsBase(x.id, x.run, x.key)
  BY BaseBack DEF Keeps
<1> QED BY <1>1, <1>2 DEF OwedAt

\* What a step leaves in its line goes on owing.
Stays(m, c) ==
  /\ \A n \in Monitors : \A b \in Saves : IsIn(n, b) /\ ~(n = m /\ b = c) => IsIn(n, b)'
  /\ \A n \in Monitors : \A r \in Runs : Lacks(n, r) => Lacks(n, r)'

LEMMA StillOwed ==
  ASSUME NEW m \in Monitors, NEW c, Stays(m, c), NEW n \in Monitors, NEW r \in Runs, NEW i
  PROVE  /\ StillToSave(n, r) /\ ~(n = m /\ c.event.run = r /\ c.event.nr = Count[r])
              => StillToSave(n, r)'
         /\ StillToSave(n, r) /\ ~(n = m /\ c.next # "remove") => StillToSave(n, r)'
         /\ StillToFind(n, r) /\ ~(n = m /\ c.event.run = r /\ c.next = "find")
              => StillToFind(n, r)'
         /\ Removes(n, i, r) /\ ~(n = m /\ c.event.run = r /\ c.next # "find"
                                  /\ \E y \in c.toremove : y.id = i)
              => Removes(n, i, r)'
<1>1. StillToSave(n, r) /\ ~(n = m /\ c.event.run = r /\ c.event.nr = Count[r])
        => StillToSave(n, r)'
  BY DEF Stays, StillToSave
<1>2. StillToSave(n, r) /\ ~(n = m /\ c.next # "remove") => StillToSave(n, r)'
  BY DEF Stays, StillToSave
<1>3. StillToFind(n, r) /\ ~(n = m /\ c.event.run = r /\ c.next = "find") => StillToFind(n, r)'
  BY DEF Stays, StillToFind
<1>4. Removes(n, i, r) /\ ~(n = m /\ c.event.run = r /\ c.next # "find"
                            /\ \E y \in c.toremove : y.id = i) => Removes(n, i, r)'
  BY DEF Stays, Removes
<1> QED BY <1>1, <1>2, <1>3, <1>4

\* A call that may go on and is not about the last event has that event
\* behind it, or it is still to come.
LEMMA LastBehind ==
  ASSUME TypeOK, Queued, NEW m \in Monitors, NEW i \in 1..Len(doing[m]), HasSemaphore(m, i),
         NEW c, c = doing[m][i], c.event.nr # Count[c.event.run]
  PROVE  \/ Lacks(m, c.event.run)
         \/ \E b \in Saves : /\ IsIn(m, b) /\ b # c /\ b.event.run = c.event.run
                             /\ b.event.nr = Count[c.event.run] /\ b.next = "find"
<1> DEFINE r == c.event.run
           L == Line(m)
           n == N(m)
           h == heard[m]
<1>1. /\ i \in 1..n /\ First(L, i) /\ L[i] = c /\ r \in Runs
      /\ n \in Nat /\ \A j \in 1..n : L[j] \in Saves
  BY SemaphoreIs, LineIs
<1>2. /\ InOrder(L, n, h, m) /\ h[r] <= Count[r] /\ h[r] \in Nat /\ Count[r] \in Nat
  BY <1>1, TaskStoreAssumption DEF Queued, QueuedAt, TypeOK
<1>3. c.event.nr \in Nat
  <2>1. c \in Saves
    BY <1>1
  <2> QED BY <2>1, TaskStoreAssumption DEF Saves, Events, States
<1> SUFFICES ASSUME h[r] = Count[r]
             PROVE  \E b \in Saves : /\ IsIn(m, b) /\ b # c /\ b.event.run = r
                                    /\ b.event.nr = Count[r] /\ b.next = "find"
  BY <1>2 DEF Lacks
<1> HIDE DEF L, n, h, r
<1>4. c.event.nr <= h[r]
  BY <1>1, <1>2 DEF InOrder, r
<1>5. InLine(L, n, r, Count[r])
  <2>1. Count[r] \in c.event.nr..h[r]
    BY <1>2, <1>3, <1>4
  <2> QED BY <1>1, <1>2, <2>1 DEF InOrder, r
<1>6. PICK j \in 1..n : L[j].event.run = r /\ L[j].event.nr = Count[r]
  BY <1>5 DEF InLine
<1>7. j # i
  BY <1>1, <1>6 DEF r
<1>8. ~(j \in 1..i - 1)
  BY <1>1, <1>6 DEF First, r
<1>9. i \in 1..j - 1
  BY <1>1, <1>7, <1>8
<1>10. ~First(L, j)
  BY <1>1, <1>6, <1>9 DEF First, r
<1>11. L[j].next = "find"
  BY <1>2, <1>10 DEF InOrder
<1>12. L[j] \in Saves /\ IsIn(m, L[j]) /\ L[j] # c
  BY <1>1, <1>6 DEF IsIn, L, n, r
<1> QED BY <1>6, <1>11, <1>12

\* Where nothing happens in a line, it has the same calls.
LEMMA SameIn ==
  ASSUME NEW n \in Monitors, SameLine(n), NEW b
  PROVE  IsIn(n, b) <=> IsIn(n, b)'
BY DEF SameLine, IsIn

LEMMA WithStays ==
  ASSUME TypeOK, NEW m \in Monitors, NEW i \in 1..Len(doing[m]), NEW d \in Saves,
         HasSemaphore(m, i), doing' = With(m, i, d), UNCHANGED <<heard, queue, refused>>,
         NEW c, c = doing[m][i]
  PROVE  Stays(m, c) /\ IsIn(m, d)' /\ IsIn(m, c)
<1>1. /\ N(m)' = N(m)
      /\ \A j \in 1..N(m) : Line(m)'[j] = IF j = i THEN d ELSE Line(m)[j]
      /\ \A n \in Monitors : n # m => SameLine(n)
  <2>1. queue' = queue
    OBVIOUS
  <2> QED BY <2>1, WithLine
<1>2. i \in 1..N(m) /\ Line(m)[i] = c
  BY SemaphoreIs
<1>3. ASSUME NEW n \in Monitors, NEW b \in Saves, IsIn(n, b), ~(n = m /\ b = c)
      PROVE  IsIn(n, b)'
  <2>1. CASE n # m
    BY <1>1, <1>3, <2>1, SameIn
  <2>2. CASE n = m
    <3>1. PICK j \in 1..N(m) : Line(m)[j] = b
      BY <1>3, <2>2 DEF IsIn
    <3>2. Line(m)'[j] = b /\ N(m)' = N(m)
      BY <1>1, <1>2, <1>3, <2>2, <3>1
    <3> QED BY <2>2, <3>2 DEF IsIn
  <2> QED BY <2>1, <2>2
<1>4. IsIn(m, d)' /\ IsIn(m, c)
  BY <1>1, <1>2 DEF IsIn
<1> QED BY <1>3, <1>4 DEF Stays, Lacks

LEMMA WithoutStays ==
  ASSUME TypeOK, NEW m \in Monitors, NEW i \in 1..Len(doing[m]),
         HasSemaphore(m, i), doing' = Without(m, i), UNCHANGED <<heard, queue>>,
         \A n \in Monitors : refused[n] \subseteq refused'[n],
         NEW c, c = doing[m][i]
  PROVE  Stays(m, c) /\ IsIn(m, c)
<1>1. /\ N(m)' = N(m) - 1
      /\ \A j \in 1..N(m) - 1 : Line(m)'[j] = IF j < i THEN Line(m)[j] ELSE Line(m)[j + 1]
      /\ \A n \in Monitors : n # m => SameLine(n)
  <2>1. queue' = queue
    OBVIOUS
  <2> QED BY <2>1, WithoutLine
<1>2. i \in 1..N(m) /\ Line(m)[i] = c /\ N(m) \in Nat
  BY SemaphoreIs, LineIs
<1>3. ASSUME NEW n \in Monitors, NEW b \in Saves, IsIn(n, b), ~(n = m /\ b = c)
      PROVE  IsIn(n, b)'
  <2>1. CASE n # m
    BY <1>1, <1>3, <2>1, SameIn
  <2>2. CASE n = m
    <3>1. PICK j \in 1..N(m) : Line(m)[j] = b
      BY <1>3, <2>2 DEF IsIn
    <3>2. j # i
      BY <1>2, <1>3, <2>2, <3>1
    <3>3. CASE j < i
      <4>1. j \in 1..N(m) - 1
        BY <1>2, <3>3
      <4>2. Line(m)'[j] = b
        BY <1>1, <3>1, <3>3, <4>1
      <4> QED BY <1>1, <2>2, <4>1, <4>2 DEF IsIn
    <3>4. CASE i < j
      <4> DEFINE k == j - 1
      <4>1. k \in 1..N(m) - 1 /\ ~(k < i) /\ k + 1 = j
        BY <1>2, <3>4
      <4> HIDE DEF k
      <4>2. Line(m)'[k] = b
        BY <1>1, <3>1, <4>1
      <4> QED BY <1>1, <2>2, <4>1, <4>2 DEF IsIn
    <3> QED BY <1>2, <3>2, <3>3, <3>4
  <2> QED BY <2>1, <2>2
<1>4. IsIn(m, c)
  BY <1>2 DEF IsIn
<1> QED BY <1>3, <1>4 DEF Stays, Lacks

\* An event that comes: where it is the last, it is going to be saved.
LEMMA OwedHear ==
  ASSUME TypeOK, TypeOK', OwnIds, Owed, NEW m \in Monitors, NEW r \in Runs, Hear(m, r)
  PROVE  Owed'
<1>1. /\ N(m)' = N(m) + 1
      /\ \A j \in 1..N(m) : Line(m)'[j] = Line(m)[j]
      /\ Line(m)'[N(m) + 1] = Job([run |-> r, nr |-> heard[m][r] + 1])
      /\ \A n \in Monitors : n # m => SameLine(n)
  BY HearLine
<1>2. /\ heard'[m] = [heard[m] EXCEPT ![r] = heard[m][r] + 1]
      /\ \A n \in Monitors : n # m => heard'[n] = heard[n]
      /\ refused' = refused /\ UNCHANGED <<table, ids>> /\ table' = table
      /\ heard[m][r] < Count[r] /\ heard[m][r] \in Nat /\ Count[r] \in Nat
      /\ heard[m] \in [Runs -> Nat] /\ N(m) \in Nat
  BY LineIs, TaskStoreAssumption DEF Hear, TypeOK
<1>3. PICK d : d = Job([run |-> r, nr |-> heard[m][r] + 1])
  OBVIOUS
<1>4. /\ d.event.run = r /\ d.event.nr = heard[m][r] + 1 /\ d.next = "find" /\ d \in Saves
      /\ IsIn(m, d)'
  <2>1. heard[m][r] + 1 \in States
    <3>1. heard[m][r] + 1 \in 1..Count[r]
      BY <1>2
    <3> QED BY <3>1 DEF States
  <2>2. N(m) + 1 \in 1..N(m) + 1
    BY <1>2
  <2>3. IsIn(m, d)'
    BY <1>1, <1>3, <2>2 DEF IsIn
  <2>4. [run |-> r, nr |-> heard[m][r] + 1] \in Events
    BY <2>1 DEF Events
  <2> QED BY <1>3, <2>3, <2>4 DEF Job, Saves
<1>5. ASSUME NEW n \in Monitors, NEW b \in Saves, IsIn(n, b) PROVE IsIn(n, b)'
  <2>1. CASE n # m
    BY <1>1, <1>5, <2>1, SameIn
  <2>2. CASE n = m
    <3>1. PICK j \in 1..N(m) : Line(m)[j] = b
      BY <1>5, <2>2 DEF IsIn
    <3>2. j \in 1..N(m) + 1
      BY <1>2
    <3> QED BY <1>1, <2>2, <3>1, <3>2 DEF IsIn
  <2> QED BY <2>1, <2>2
<1>6. ASSUME NEW n \in Monitors, NEW s \in Runs, Lacks(n, s)
      PROVE  Lacks(n, s)' \/ (n = m /\ s = r /\ d.event.nr = Count[s])
  <2>1. CASE n # m \/ s # r \/ s \in refused[n]
    BY <1>2, <1>6, <2>1 DEF Lacks
  <2>2. CASE n = m /\ s = r
    <3>1. heard'[m][r] = heard[m][r] + 1
      BY <1>2
    <3>2. heard[m][r] + 1 < Count[r] \/ heard[m][r] + 1 = Count[r]
      BY <1>2
    <3> QED BY <1>4, <2>2, <3>1, <3>2 DEF Lacks
  <2> QED BY <2>1, <2>2
<1>7. ASSUME NEW n \in Monitors, NEW s \in Runs, StillToSave(n, s) PROVE StillToSave(n, s)'
  <2>1. CASE Lacks(n, s)
    BY <1>4, <1>6, <2>1 DEF StillToSave
  <2>2. CASE ~Lacks(n, s)
    BY <1>5, <1>7, <2>2 DEF StillToSave
  <2> QED BY <2>1, <2>2
<1>8. ASSUME NEW n \in Monitors, NEW s \in Runs, StillToFind(n, s) PROVE StillToFind(n, s)'
  <2>1. CASE Lacks(n, s)
    BY <1>4, <1>6, <2>1 DEF StillToFind
  <2>2. CASE ~Lacks(n, s)
    BY <1>5, <1>8, <2>2 DEF StillToFind
  <2> QED BY <2>1, <2>2
<1>9. ASSUME NEW n \in Monitors, NEW i, NEW s, Removes(n, i, s) PROVE Removes(n, i, s)'
  BY <1>5, <1>9 DEF Removes
<1>10. Keeps
  BY <1>2, TableSame
<1>11. ASSUME NEW x \in table PROVE OwedAt(x)'
  <2>1. x.run \in Runs
    BY DEF TypeOK, Rows
  <2>2. \A n \in Monitors : StillToSave(n, x.run) => StillToSave(n, x.run)'
    BY <1>7, <2>1
  <2>3. \A n \in Monitors : Dealt(n, x) => Dealt(n, x)'
    BY <1>8, <1>9, <2>1 DEF Dealt
  <2> QED BY <1>10, <2>2, <2>3, OwedKept
<1> QED BY <1>2, <1>11 DEF Owed

\* Steps that leave the lines as they are.
LEMMA OwedSame ==
  ASSUME TypeOK, TypeOK', OwnIds, Owed, \A n \in Monitors : SameLine(n),
         UNCHANGED <<table, ids, heard, refused>>
  PROVE  Owed'
<1>1. Keeps /\ table' = table
  BY TableSame
<1>2. ASSUME NEW x \in table PROVE OwedAt(x)'
  <2>1. ASSUME NEW n \in Monitors PROVE StillToSave(n, x.run) => StillToSave(n, x.run)'
    BY SameIn DEF StillToSave, Lacks
  <2>2. ASSUME NEW n \in Monitors PROVE Dealt(n, x) => Dealt(n, x)'
    BY SameIn DEF Dealt, StillToFind, Removes, Lacks
  <2> QED BY <1>1, <2>1, <2>2, OwedKept
<1> QED BY <1>1, <1>2 DEF Owed

\* A call that finds a row that is one too many takes it along.
LEMMA OwedFind ==
  ASSUME TypeOK, TypeOK', OwnIds, Owed, NEW m \in Monitors, NEW i \in 1..Len(doing[m]),
         Find(m, i)
  PROVE  Owed'
<1>1. PICK c : c = doing[m][i]
  OBVIOUS
<1>2. PICK d : d = [event |-> c.event, next |-> "save",
                    logs |-> Updated(c.event, OfRun(c.event.run)),
                    toremove |-> Duplicates(OfRun(c.event.run))]
  OBVIOUS
<1>3. /\ HasSemaphore(m, i) /\ c.next = "find" /\ doing' = With(m, i, d)
      /\ UNCHANGED <<heard, queue, refused>> /\ UNCHANGED <<table, ids>> /\ table' = table
  BY <1>1, <1>2 DEF Find, Ready, With
<1>4. d \in Saves
  BY <1>1, <1>2, UpdatedIsSave
<1>5. Stays(m, c) /\ IsIn(m, d)' /\ IsIn(m, c)
  BY <1>1, <1>3, <1>4, WithStays
<1>6. Keeps
  BY <1>3, TableSame
<1>7. ASSUME NEW x \in table PROVE OwedAt(x)'
  <2>1. x.run \in Runs /\ x \in Rows /\ table \in SUBSET Rows
    BY DEF TypeOK, Rows
  <2>2. ASSUME NEW n \in Monitors, StillToSave(n, x.run) PROVE StillToSave(n, x.run)'
    <3>1. CASE n = m /\ c.event.run = x.run /\ c.event.nr = Count[x.run]
      BY <1>2, <1>4, <1>5, <3>1 DEF StillToSave
    <3>2. CASE ~(n = m /\ c.event.run = x.run /\ c.event.nr = Count[x.run])
      BY <1>5, <2>1, <2>2, <3>2, StillOwed
    <3> QED BY <3>1, <3>2
  <2>3. ASSUME ~IsBase(x.id, x.run, x.key), NEW n \in Monitors, Dealt(n, x) PROVE Dealt(n, x)'
    <3>1. CASE n = m /\ c.event.run = x.run
      <4>1. PICK y \in table : y.run = x.run /\ y.key = x.key /\ ~(x.id <= y.id)
        BY <2>3 DEF IsBase
      <4>2. y.id < x.id
        BY <2>1, <4>1 DEF Rows
      <4>3. x \in Duplicates(OfRun(c.event.run))
        BY <3>1, <4>1, <4>2 DEF Duplicates, OfRun
      <4>4. d.event.run = x.run /\ d.next # "find" /\ x \in d.toremove
        BY <1>2, <3>1, <4>3
      <4> QED BY <1>4, <1>5, <3>1, <4>4 DEF Dealt, Removes
    <3>2. CASE ~(n = m /\ c.event.run = x.run)
      BY <1>5, <2>1, <2>3, <3>2, StillOwed DEF Dealt
    <3> QED BY <3>1, <3>2
  <2> QED BY <1>6, <2>2, <2>3, OwedKept
<1> QED BY <1>3, <1>7 DEF Owed

\* A call that removes leaves no row that it has been owing.
LEMMA OwedRemove ==
  ASSUME TypeOK, TypeOK', Tabled, Owed, NEW m \in Monitors, NEW i \in 1..Len(doing[m]),
         RemoveRows(m, i), Keeps
  PROVE  Owed'
<1>1. PICK c : c = doing[m][i]
  OBVIOUS
<1>2. /\ HasSemaphore(m, i) /\ c.next = "remove" /\ doing' = Without(m, i)
      /\ UNCHANGED <<heard, queue>> /\ refused' = refused
      /\ table' = {x \in table : \A y \in c.toremove : x.id # y.id}
  BY <1>1 DEF RemoveRows, Ready
<1>3. Stays(m, c)
  BY <1>1, <1>2, WithoutStays
<1>4. ASSUME NEW x \in table, \A y \in c.toremove : x.id # y.id PROVE OwedAt(x)'
  <2>1. x.run \in Runs
    BY DEF TypeOK, Rows
  <2>2. ASSUME NEW n \in Monitors, StillToSave(n, x.run) PROVE StillToSave(n, x.run)'
    BY <1>2, <1>3, <2>1, <2>2, StillOwed
  <2>3. ASSUME NEW n \in Monitors, Dealt(n, x) PROVE Dealt(n, x)'
    <3>1. c.next # "find" /\ ~\E y \in c.toremove : y.id = x.id
      BY <1>2, <1>4
    <3> QED BY <1>3, <2>1, <2>3, <3>1, StillOwed DEF Dealt
  <2> QED BY <2>2, <2>3, OwedKept
<1> QED BY <1>2, <1>4 DEF Owed

\* A call that is refused owes for ever.
LEMMA OwedRefuse ==
  ASSUME TypeOK, TypeOK', OwnIds, Owed, NEW m \in Monitors, NEW i \in 1..Len(doing[m]),
         Refuse(m, i)
  PROVE  Owed'
<1>1. PICK c : c = doing[m][i]
  OBVIOUS
<1>2. /\ HasSemaphore(m, i) /\ doing' = Without(m, i) /\ UNCHANGED <<heard, queue>>
      /\ UNCHANGED <<table, ids>> /\ table' = table /\ c.event.run \in refused'[m]
      /\ \A n \in Monitors : refused[n] \subseteq refused'[n]
  BY <1>1 DEF Refuse, TypeOK
<1>3. Stays(m, c)
  BY <1>1, <1>2, WithoutStays
<1>4. Keeps
  BY <1>2, TableSame
<1>5. ASSUME NEW x \in table PROVE OwedAt(x)'
  <2>1. x.run \in Runs
    BY DEF TypeOK, Rows
  <2>2. ASSUME NEW n \in Monitors, StillToSave(n, x.run) PROVE StillToSave(n, x.run)'
    <3>1. CASE n = m /\ c.event.run = x.run
      BY <1>2, <3>1 DEF StillToSave, Lacks
    <3>2. CASE ~(n = m /\ c.event.run = x.run)
      BY <1>3, <2>1, <2>2, <3>2, StillOwed
    <3> QED BY <3>1, <3>2
  <2>3. ASSUME NEW n \in Monitors, Dealt(n, x) PROVE Dealt(n, x)'
    <3>1. CASE n = m /\ c.event.run = x.run
      BY <1>2, <3>1 DEF Dealt, StillToFind, Lacks
    <3>2. CASE ~(n = m /\ c.event.run = x.run)
      BY <1>3, <2>1, <2>3, <3>2, StillOwed DEF Dealt
    <3> QED BY <3>1, <3>2
  <2> QED BY <1>4, <2>2, <2>3, OwedKept
<1> QED BY <1>2, <1>5 DEF Owed

\* A call that saves the last event brings the bases to the last state; one
\* that saves another event has the last one behind it, and so have the rows
\* that it has made, which may be too many.
LEMMA OwedSave ==
  ASSUME Typed, Typed', Queued, Tabled, Owed, NEW m \in Monitors, NEW i \in 1..Len(doing[m]),
         Save(m, i)
  PROVE  Owed'
<1>0. TypeOK /\ TypeOK' /\ JobsOK(m)
  BY DEF Typed, Tabled
<1>1. PICK c : c = doing[m][i]
  OBVIOUS
<1>2. PICK d : d = [c EXCEPT !.next = "remove"]
  OBVIOUS
<1>3. /\ HasSemaphore(m, i) /\ UNCHANGED <<heard, queue, refused>> /\ c.next = "save"
      /\ table' = Stored(c.logs) /\ ids' = ids + Cardinality({x \in c.logs : x.id = 0})
      /\ \/ c.toremove = {} /\ doing' = Without(m, i)
         \/ doing' = With(m, i, d)
  BY <1>1, <1>2 DEF Save, Ready, With
<1>4. /\ c \in Saves /\ IsIn(m, c) /\ c.event.run \in Runs /\ IsFiniteSet(c.logs)
  BY <1>0, <1>1, <1>3, SemaphoreIs DEF IsIn, Typed, FiniteLogs
<1>5. /\ d \in Saves /\ d.event = c.event /\ d.toremove = c.toremove /\ d.next = "remove"
  BY <1>2, <1>4 DEF Saves
<1>6. /\ Keeps
      /\ \A y \in table' : \/ y \in table /\ \A l \in c.logs : l.id # y.id
                          \/ /\ y.run = c.event.run /\ y.state = c.event.nr
                             /\ IsBase(y.id, y.run, y.key)
                          \/ /\ y.run = c.event.run /\ y.state = c.event.nr
                             /\ c.event.nr = 1 /\ y.id > ids
      /\ \A y \in table' : IsBase(y.id, y.run, y.key) /\ y.run = c.event.run /\ c.event.nr # 1
                          => y.state = c.event.nr
  <2>1. JobOK(c)
    BY <1>0, <1>4 DEF JobsOK
  <2> QED BY <1>3, <1>4, <2>1, SaveTable
<1>7. Stays(m, c) /\ (c.toremove = {} \/ IsIn(m, d)')
  <2>1. CASE c.toremove = {} /\ doing' = Without(m, i)
    <3>1. \A n \in Monitors : refused[n] \subseteq refused'[n]
      BY <1>3
    <3> QED BY <1>0, <1>1, <1>3, <2>1, <3>1, WithoutStays
  <2>2. CASE doing' = With(m, i, d)
    BY <1>0, <1>1, <1>3, <1>5, <2>2, WithStays
  <2> QED BY <1>3, <2>1, <2>2
<1>8. c.event.nr # Count[c.event.run] =>
        StillToSave(m, c.event.run)' /\ StillToFind(m, c.event.run)'
  <2> SUFFICES ASSUME c.event.nr # Count[c.event.run]
               PROVE  StillToSave(m, c.event.run)' /\ StillToFind(m, c.event.run)'
    OBVIOUS
  <2>1. PICK r : r = c.event.run
    OBVIOUS
  <2>2. CASE Lacks(m, r)
    <3>1. Lacks(m, r)'
      BY <1>4, <1>7, <2>1, <2>2 DEF Stays
    <3> QED BY <2>1, <3>1 DEF StillToSave, StillToFind
  <2>3. CASE ~Lacks(m, r)
    <3>1. PICK b \in Saves : /\ IsIn(m, b) /\ b # c /\ b.event.run = r
                            /\ b.event.nr = Count[r] /\ b.next = "find"
      BY <1>0, <1>1, <1>3, <2>1, <2>3, LastBehind
    <3>2. IsIn(m, b)'
      BY <1>7, <3>1 DEF Stays
    <3> QED BY <2>1, <3>1, <3>2 DEF StillToSave, StillToFind
  <2> QED BY <2>2, <2>3
<1>9. ASSUME NEW x \in table', x \in table PROVE OwedAt(x)'
  <2>1. x.run \in Runs
    BY <1>0, <1>9 DEF TypeOK, Rows
  <2>2. ASSUME Count[x.run] > 1, IsBase(x.id, x.run, x.key),
               NEW n \in Monitors, StillToSave(n, x.run)
        PROVE  x.state = Count[x.run] \/ StillToSave(n, x.run)'
    <3>1. CASE n = m /\ c.event.run = x.run /\ c.event.nr = Count[x.run]
      <4>1. c.event.nr # 1
        BY <2>2, <3>1
      <4> QED BY <1>6, <2>2, <3>1, <4>1
    <3>2. CASE ~(n = m /\ c.event.run = x.run /\ c.event.nr = Count[x.run])
      BY <1>7, <2>1, <2>2, <3>2, StillOwed
    <3> QED BY <3>1, <3>2
  <2>3. ASSUME NEW n \in Monitors, Dealt(n, x) PROVE Dealt(n, x)'
    <3>1. CASE StillToFind(n, x.run)
      <4>1. c.next # "find"
        BY <1>3
      <4> QED BY <1>7, <2>1, <3>1, <4>1, StillOwed DEF Dealt
    <3>2. CASE Removes(n, x.id, x.run)
      <4>1. CASE n = m /\ c.event.run = x.run /\ \E y \in c.toremove : y.id = x.id
        BY <1>5, <1>7, <4>1 DEF Dealt, Removes
      <4>2. CASE ~(n = m /\ c.event.run = x.run /\ \E y \in c.toremove : y.id = x.id)
        BY <1>7, <2>1, <3>2, <4>2, StillOwed DEF Dealt
      <4> QED BY <4>1, <4>2
    <3> QED BY <2>3, <3>1, <3>2 DEF Dealt
  <2> QED BY <1>0, <1>6, <1>9, <2>2, <2>3, OwedKept
<1>10. ASSUME NEW x \in table', x.run = c.event.run, x.state = c.event.nr,
              IsBase(x.id, x.run, x.key)
       PROVE  OwedAt(x)'
  <2>1. IsBase(x.id, x.run, x.key)'
    BY <1>6, <1>10 DEF Keeps
  <2> QED BY <1>8, <1>10, <2>1 DEF OwedAt
<1>11. ASSUME NEW x \in table', x.run = c.event.run, x.state = c.event.nr, c.event.nr = 1
       PROVE  OwedAt(x)'
  <2> SUFFICES ASSUME Count[x.run] > 1
               PROVE  StillToSave(m, x.run)' /\ StillToFind(m, x.run)'
    BY DEF OwedAt, Dealt
  <2>1. c.event.nr # Count[c.event.run]
    BY <1>11
  <2> QED BY <1>8, <1>11, <2>1
<1> QED BY <1>6, <1>9, <1>10, <1>11 DEF Owed

LEMMA OwedStep ==
  ASSUME Typed, Typed', Queued, Tabled, Owed, [Next]_vars
  PROVE  Owed'
<1>0. TypeOK /\ TypeOK' /\ OwnIds /\ \A m \in Monitors : JobsOK(m)
  BY DEF Typed, Tabled
<1>1. CASE UNCHANGED vars
  <2>1. \A n \in Monitors : SameLine(n)
    BY <1>1, OtherLines DEF vars
  <2>2. UNCHANGED <<table, ids, heard, refused>>
    BY <1>1 DEF vars
  <2> QED BY <1>0, <2>1, <2>2, OwedSame
<1> SUFFICES ASSUME Next PROVE Owed'
  BY <1>1
<1>2. PICK m \in Monitors :
        \/ \E r \in Runs : Hear(m, r)
        \/ Start(m) \/ Finish(m) \/ Finished(m)
        \/ Saving(m)
        \/ \E i \in 1..Len(doing[m]) : Refuse(m, i)
  BY DEF Next
<1>3. CASE \E r \in Runs : Hear(m, r)
  BY <1>0, <1>3, OwedHear
<1>4. CASE Start(m) \/ Finish(m) \/ Finished(m)
  <2>1. \A n \in Monitors : SameLine(n)
    BY <1>0, <1>4, StartLine, OtherLines DEF Finish, Finished
  <2>2. UNCHANGED <<table, ids, heard, refused>>
    BY <1>4 DEF Start, Finish, Finished
  <2> QED BY <1>0, <2>1, <2>2, OwedSame
<1>5. ASSUME NEW i \in 1..Len(doing[m]), RemoveRows(m, i)
      PROVE  Owed'
  <2>1. PICK c : c = doing[m][i]
    OBVIOUS
  <2>2. /\ HasSemaphore(m, i) /\ c.next = "remove"
        /\ table' = {x \in table : \A y \in c.toremove : x.id # y.id} /\ ids' = ids
    BY <1>5, <2>1 DEF RemoveRows, Ready
  <2>3. c \in Saves /\ IsIn(m, c)
    BY <1>0, <2>1, <2>2, SemaphoreIs DEF IsIn
  <2>4. JobOK(c)
    BY <1>0, <2>3 DEF JobsOK
  <2>5. Keeps
    BY <1>0, <2>2, <2>3, <2>4, RemoveTable
  <2> QED BY <1>0, <1>5, <2>5, OwedRemove
<1>6. CASE \E i \in 1..Len(doing[m]) : Refuse(m, i)
  BY <1>0, <1>6, OwedRefuse
<1>7. CASE \E i \in 1..Len(doing[m]) : Find(m, i)
  BY <1>0, <1>7, OwedFind
<1>8. CASE \E i \in 1..Len(doing[m]) : Save(m, i)
  BY <1>8, OwedSave
<1> QED BY <1>2, <1>3, <1>4, <1>5, <1>6, <1>7, <1>8 DEF Saving

-----------------------------------------------------------------------------
(* What is left in the table *)

IInv == Typed /\ Queued /\ Tabled /\ Owed

LEMMA Invariant == Spec => []IInv
<1>1. Init => IInv
  <2>1. Init => Owed
    BY DEF Init, Owed
  <2> QED BY <2>1, TypeStart, QueuedStart, TabledStart DEF IInv
<1>2. IInv /\ [Next]_vars => IInv'
  BY TypeStep, QueuedStep, TabledStep, OwedStep DEF IInv
<1> QED BY <1>1, <1>2, PTL DEF Spec

\* A row of each key stays the first of it as long as the program runs: no
\* monitor removes it, however many of them save the run at the same time.
FirstRowsStay == [][\A r \in Runs, k \in Keys, i \in Nat : IsBase(i, r, k) => IsBase(i, r, k)']_vars

\* A monitor through with a run owes nothing for it, and where all are, one
\* of them has seen the first event saved: each task and target has a row.
LEMMA NothingOwed ==
  ASSUME IInv
  PROVE  LastStateStored
<1> SUFFICES ASSUME NEW r \in Runs, Count[r] > 1, AllSaved(r), NEW k \in Keys
             PROVE  \E x \in OfRun(r) : /\ x.state = Count[r]
                                        /\ {y \in OfRun(r) : y.key = k} = {x}
  BY DEF LastStateStored
<1>1. TypeOK /\ Tabled /\ Owed /\ Queued
  BY DEF IInv, Typed
<1>2. ASSUME NEW m \in Monitors, NEW j \in 1..N(m) PROVE Line(m)[j].event.run # r
  <2>1. D(m) \in Nat /\ Q(m) \in Nat /\ N(m) = D(m) + Q(m)
    BY <1>1, LineIs DEF N
  <2>2. /\ \A l \in 1..Q(m) : queue[m][l].run # r
        /\ \A l \in 1..D(m) : doing[m][l].event.run # r
    BY DEF AllSaved, D, Q
  <2>3. CASE j <= D(m)
    <3>1. j \in 1..D(m) /\ Line(m)[j] = doing[m][j]
      BY <2>1, <2>3 DEF Line
    <3> QED BY <2>2, <3>1
  <2>4. CASE ~(j <= D(m))
    <3>1. j - D(m) \in 1..Q(m)
      BY <2>1, <2>4
    <3>2. Line(m)[j] = Job(queue[m][j - D(m)])
      BY <2>4 DEF Line
    <3>3. Line(m)[j].event = queue[m][j - D(m)]
      BY <3>2 DEF Job
    <3> QED BY <2>2, <3>1, <3>3
  <2> QED BY <2>3, <2>4
<1>3. \A m \in Monitors : ~Lacks(m, r)
  <2> TAKE m \in Monitors
  <2>1. heard[m][r] = Count[r] /\ r \notin refused[m] /\ Count[r] \in Nat
    BY TaskStoreAssumption DEF AllSaved
  <2> QED BY <2>1 DEF Lacks
<1>4. \A m \in Monitors : \A c \in Saves : IsIn(m, c) => c.event.run # r
  BY <1>2 DEF IsIn
<1>5. \A m \in Monitors : ~StillToSave(m, r)
  BY <1>3, <1>4 DEF StillToSave
<1>6. \A m \in Monitors : ~StillToFind(m, r) /\ \A i : ~Removes(m, i, r)
  BY <1>3, <1>4 DEF StillToFind, Removes
<1>7. ASSUME NEW x \in table, x.run = r
      PROVE  IsBase(x.id, r, x.key) /\ x.state = Count[r]
  BY <1>1, <1>5, <1>6, <1>7 DEF Owed, OwedAt, Dealt
<1>8. HasRows(r)
  <2>1. PICK m \in Monitors : r \notin Missed[m]
    BY DEF AllSaved
  <2>2. heard[m][r] = Count[r] /\ r \notin refused[m] /\ Count[r] \in Nat
    BY TaskStoreAssumption DEF AllSaved
  <2>3. ~InLine(Line(m), N(m), r, 1)
    BY <1>2 DEF InLine
  <2>4. heard[m][r] >= 1
    BY <2>2
  <2> QED BY <1>1, <2>1, <2>2, <2>3, <2>4 DEF Tabled, FirstSaved
<1>9. PICK x \in table : x.run = r /\ x.key = k
  BY <1>8 DEF HasRows
<1>10. \A y \in table : y.run = r /\ y.key = k => y = x
  <2> SUFFICES ASSUME NEW y \in table, y.run = r, y.key = k PROVE y = x
    OBVIOUS
  <2>1. x.id <= y.id /\ y.id <= x.id
    BY <1>7, <1>9 DEF IsBase
  <2>2. x.id \in Nat /\ y.id \in Nat
    BY <1>1 DEF TypeOK, Rows
  <2>3. x.id = y.id
    BY <2>1, <2>2
  <2> QED BY <1>1, <2>3 DEF Tabled, OwnIds
<1>11. x \in OfRun(r) /\ x.state = Count[r] /\ {y \in OfRun(r) : y.key = k} = {x}
  BY <1>7, <1>9, <1>10 DEF OfRun
<1> QED BY <1>11

\* However many monitors save the events of a run at the same time, and
\* whatever rows they make and remove: when all are through with it, there is
\* one row for each task and target, in the state of the last event.
THEOREM AlwaysLastStateStored == Spec => []LastStateStored
<1>1. IInv => LastStateStored
  BY NothingOwed
<1> QED BY <1>1, Invariant, PTL

\* What the first row of a task and target is, it stays: its id is never
\* removed or given to another row.
THEOREM AlwaysFirstRowsStay == Spec => FirstRowsStay
<1>1. IInv /\ [Next]_vars =>
        [\A r \in Runs, k \in Keys, i \in Nat : IsBase(i, r, k) => IsBase(i, r, k)']_vars
  <2> SUFFICES ASSUME IInv, [Next]_vars PROVE Keeps
    BY DEF Keeps
  <2>1. Typed'
    BY TypeStep DEF IInv
  <2> QED BY <2>1, TabledStep DEF IInv
<1> QED BY <1>1, Invariant, PTL DEF Spec, FirstRowsStay

=============================================================================
