----------------------------- MODULE LocksProofs -----------------------------
(***************************************************************************)
(* Proofs about Locks for any number of clients, callers and semaphores,   *)
(* and any max.                                                            *)
(***************************************************************************)
EXTENDS Locks, FiniteSetTheorems, SequenceTheorems, TLAPS

-----------------------------------------------------------------------------
(* The inductive invariant *)

\* What a client holds or waits for has been made ...
OnMade == \A c \in Clients : pc[c] # "idle" => on[c] \in 1..made

\* ... and what has not been made, is untouched.
Unmade == \A s \in Sems : s > made => forgotten[s] = 0 /\ waiting[s] = <<>>

Structure ==
  /\ TypeOK
  /\ OnMade
  /\ Unmade
  /\ LeasesAccounted
  /\ WaitingInLine

\* Until a shutdown purges, no lease is forgotten, what is thrown away is not
\* in use, and the other store locks are taken and registered.
InUseIsKept ==
  shut # "done" =>
    /\ \A s \in Sems : forgotten[s] = 0
    /\ \A c \in Clients : pc[c] # "idle" => on[c] \notin discarded
    /\ \A s \in disposable \ discarded : counter[s] > 0 /\ s \in registered

-----------------------------------------------------------------------------
(* Holders *)

LEMMA HoldersFinite ==
  \A s : IsFiniteSet(Holders(s)) /\ Cardinality(Holders(s)) \in Nat
<1> TAKE s
<1>1. Holders(s) \subseteq Clients
  BY DEF Holders
<1>2. IsFiniteSet(Holders(s))
  BY <1>1, LocksAssumption, FS_Subset
<1> QED
  BY <1>2, FS_CardinalityType

\* Nobody holds or waits for what has not been made.
LEMMA UnmadeFree ==
  ASSUME Structure, NEW s \in Sems, s > made
  PROVE  Holders(s) = {} /\ counter[s] = 0
<1>1. Holders(s) = {}
  BY DEF Structure, OnMade, TypeOK, Holders, Sems
<1>2. Cardinality(Holders(s)) = 0
  BY <1>1, FS_EmptySet
<1>3. counter[s] = Cardinality(Holders(s)) - forgotten[s] /\ forgotten[s] = 0
  BY DEF Structure, LeasesAccounted, Unmade
<1> QED
  BY <1>1, <1>2, <1>3

\* When a release() hands nothing on, nobody waits.
LEMMA NobodyWaits ==
  ASSUME Structure, NEW s \in Sems, ~HandsOver(s)
  PROVE  waiting[s] = <<>>
  BY LocksAssumption DEF Structure, WaitingInLine, HandsOver, TypeOK

\* The head of a line waits for the semaphore of that line.
LEMMA HeadWaits ==
  ASSUME Structure, NEW s \in Sems, waiting[s] # <<>>
  PROVE  /\ Head(waiting[s]) \in Clients
         /\ pc[Head(waiting[s])] = "waiting"
         /\ on[Head(waiting[s])] = s
<1>1. waiting[s] \in Seq(Clients) /\ 1 \in 1..Len(waiting[s])
  BY DEF Structure, TypeOK
<1>2. Head(waiting[s]) = waiting[s][1] /\ waiting[s][1] \in Clients
  BY <1>1
<1> QED
  BY <1>1, <1>2 DEF Structure, WaitingInLine

-----------------------------------------------------------------------------
LEMMA StructureInit == Init => Structure /\ InUseIsKept
<1> SUFFICES ASSUME Init PROVE Structure /\ InUseIsKept
  OBVIOUS
<1>1. TypeOK
  <2>1. made \in 0..MaxSems /\ forgotten \in [Sems -> Nat]
    BY LocksAssumption DEF Init
  <2>2. counter \in [Sems -> Int] /\ waiting \in [Sems -> Seq(Clients)]
    BY DEF Init
  <2>3. /\ pc \in [Clients -> {"idle", "waiting", "holding"}]
        /\ on \in [Clients -> Sems \cup {Factory}]
    BY DEF Init
  <2>4. /\ at \in [Awaiters -> Sems \cup {Factory}]
        /\ answer \in [Awaiters -> {"none", "waiting", "resolved", "rejected"}]
    BY DEF Init
  <2>5. /\ registered \in SUBSET (1..made) /\ disposable \in SUBSET (1..made)
        /\ discarded \in SUBSET disposable /\ listening \in SUBSET Awaiters
        /\ shut \in {"none", "awaiting", "done", "failed"}
    BY DEF Init
  <2> QED
    BY <2>1, <2>2, <2>3, <2>4, <2>5 DEF TypeOK
<1>2. OnMade /\ Unmade /\ WaitingInLine /\ InUseIsKept
  BY DEF Init, OnMade, Unmade, WaitingInLine, InUseIsKept
<1>3. \A s \in Sems : Holders(s) = {}
  BY DEF Init, Holders
<1>4. \A s \in Sems : Cardinality(Holders(s)) = 0
  BY <1>3, FS_EmptySet
<1>5. \A s \in Sems : counter[s] = 0 /\ forgotten[s] = 0
  BY DEF Init
<1>6. LeasesAccounted
  BY <1>4, <1>5, LocksAssumption DEF LeasesAccounted
<1> QED
  BY <1>1, <1>2, <1>6 DEF Structure

\* Steps that touch neither semaphores' leases nor lines keep what is said of
\* them.
LEMMA LeasesKept ==
  ASSUME Structure, UNCHANGED <<counter, waiting, pc, on, forgotten>>,
         made' = made \/ made' = made + 1
  PROVE  OnMade' /\ Unmade' /\ LeasesAccounted' /\ WaitingInLine'
<1>1. \A s : Holders(s)' = Holders(s)
  BY DEF Holders
<1>2. made \in Nat
  BY LocksAssumption DEF Structure, TypeOK
<1>3. OnMade' /\ Unmade'
  BY <1>2 DEF Structure, OnMade, Unmade, Sems
<1>4. LeasesAccounted'
  BY <1>1 DEF Structure, LeasesAccounted
<1>5. WaitingInLine'
  BY DEF Structure, WaitingInLine
<1> QED
  BY <1>3, <1>4, <1>5

LEMMA StructureMake == Structure /\ Make => Structure'
<1> SUFFICES ASSUME Structure, Make PROVE Structure'
  OBVIOUS
<1>1. TypeOK'
  BY LocksAssumption DEF Structure, TypeOK, Make, awaitVars, Awaiters
<1> QED
  BY <1>1, LeasesKept DEF Make, Structure

LEMMA StructureMakeAndAcquire ==
  ASSUME NEW c \in Clients, Structure, MakeAndAcquire(c),
         NEW n, n = made + 1
  PROVE  Structure'
<1> USE DEF MakeAndAcquire
<1>0. made \in Nat /\ n \in Sems /\ n > made /\ made' = n
  BY LocksAssumption DEF Structure, TypeOK, Sems
<1>1. TypeOK'
  BY <1>0, LocksAssumption DEF Structure, TypeOK, awaitVars, Awaiters
<1>2. OnMade' /\ Unmade'
  BY <1>0 DEF Structure, OnMade, Unmade, TypeOK, Sems
<1>3. LeasesAccounted'
  <2>1. Holders(n) = {} /\ counter[n] = 0 /\ forgotten[n] = 0
    BY <1>0, UnmadeFree DEF Structure, Unmade
  <2>2. Holders(n)' = {c}
    BY <2>1, <1>0 DEF Holders, Structure, TypeOK
  <2>3. Cardinality(Holders(n)') = 1
    BY <2>2, FS_Singleton
  <2>4. \A s \in Sems : s # n => Holders(s)' = Holders(s)
    BY DEF Holders, Structure, TypeOK
  <2>5. ASSUME NEW s \in Sems
        PROVE  counter'[s] = Cardinality(Holders(s)') - forgotten'[s] /\ counter'[s] <= Max
    <3>1. CASE s = n
      BY <3>1, <2>1, <2>3, <1>0, LocksAssumption DEF Structure, TypeOK
    <3>2. CASE s # n
      BY <3>2, <2>4 DEF Structure, TypeOK, LeasesAccounted
    <3> QED
      BY <3>1, <3>2
  <2> QED
    BY <2>5 DEF LeasesAccounted
<1>4. WaitingInLine'
  <2>1. waiting[n] = <<>>
    BY <1>0 DEF Structure, Unmade
  <2>2. \A s \in Sems : waiting'[s] # <<>> => counter'[s] = Max
    BY <1>0, <2>1 DEF Structure, TypeOK, WaitingInLine
  <2>3. \A s \in Sems, d \in Clients :
          (pc'[d] = "waiting" /\ on'[d] = s) <=> (pc[d] = "waiting" /\ on[d] = s)
    BY <1>0 DEF Structure, TypeOK
  <2> QED
    BY <2>2, <2>3 DEF Structure, WaitingInLine
<1> QED
  BY <1>1, <1>2, <1>3, <1>4 DEF Structure

LEMMA StructureAcquire ==
  ASSUME NEW c \in Clients, NEW s \in Sems, Structure, Acquire(c, s)
  PROVE  Structure'
<1> USE DEF Acquire
<1>0. UNCHANGED <<made, disposable, discarded, registered, at, answer, listening>>
  BY DEF semVars, awaitVars
<1>1. TypeOK'
  <2>1. Append(waiting[s], c) \in Seq(Clients)
    BY DEF Structure, TypeOK
  <2>2. waiting' \in [Sems -> Seq(Clients)]
    BY <2>1 DEF Structure, TypeOK
  <2>3. counter' \in [Sems -> Int]
    BY DEF Structure, TypeOK
  <2>4. pc' \in [Clients -> {"idle", "waiting", "holding"}]
    BY DEF Structure, TypeOK
  <2>5. on' \in [Clients -> Sems \cup {Factory}]
    BY DEF Structure, TypeOK
  <2> QED
    BY <1>0, <2>2, <2>3, <2>4, <2>5 DEF Structure, TypeOK
<1>2. OnMade' /\ Unmade'
  <2>1. made \in Nat /\ s \in 1..made
    BY LocksAssumption DEF Structure, TypeOK, Sems
  <2>2. OnMade'
    BY <1>0, <2>1 DEF Structure, OnMade, TypeOK
  <2>3. \A q \in Sems : q > made => q # s
    BY <2>1
  <2>4. Unmade'
    BY <1>0, <2>1, <2>3 DEF Structure, Unmade, TypeOK
  <2> QED
    BY <2>2, <2>4
<1>3. CASE /\ Free(s)
           /\ counter' = [counter EXCEPT ![s] = @ + 1]
           /\ pc' = [pc EXCEPT ![c] = "holding"]
           /\ UNCHANGED waiting
  <2>1. c \notin Holders(s) /\ Holders(s)' = Holders(s) \cup {c}
    BY <1>3 DEF Holders, Structure, TypeOK
  <2>2. Cardinality(Holders(s) \cup {c}) = Cardinality(Holders(s)) + 1
    BY <2>1, HoldersFinite, FS_AddElement
  <2>3. Cardinality(Holders(s)') = Cardinality(Holders(s)) + 1
    BY <2>1, <2>2
  <2>4. \A q \in Sems : q # s => Holders(q)' = Holders(q)
    BY <1>3 DEF Holders, Structure, TypeOK
  <2>5. ASSUME NEW q \in Sems
        PROVE  counter'[q] = Cardinality(Holders(q)') - forgotten'[q] /\ counter'[q] <= Max
    <3>1. CASE q = s
      BY <3>1, <1>3, <2>3, HoldersFinite, LocksAssumption
         DEF Structure, TypeOK, LeasesAccounted, Free
    <3>2. CASE q # s
      BY <3>2, <1>3, <2>4 DEF Structure, TypeOK, LeasesAccounted
    <3> QED
      BY <3>1, <3>2
  <2>6. WaitingInLine'
    <3>1. waiting[s] = <<>>
      BY <1>3, LocksAssumption DEF Free, Structure, TypeOK, WaitingInLine
    <3>2. \A q \in Sems : waiting'[q] # <<>> => counter'[q] = Max
      BY <1>3, <3>1 DEF Structure, TypeOK, WaitingInLine
    <3>3. \A q \in Sems, d \in Clients :
            (pc'[d] = "waiting" /\ on'[d] = q) <=> (pc[d] = "waiting" /\ on[d] = q)
      BY <1>3 DEF Structure, TypeOK
    <3> QED
      BY <1>3, <3>2, <3>3 DEF Structure, WaitingInLine
  <2> QED
    BY <1>1, <1>2, <2>5, <2>6 DEF Structure, LeasesAccounted
<1>4. CASE /\ ~Free(s)
           /\ waiting' = [waiting EXCEPT ![s] = Append(@, c)]
           /\ pc' = [pc EXCEPT ![c] = "waiting"]
           /\ UNCHANGED counter
  <2>1. \A q : Holders(q)' = Holders(q)
    BY <1>4 DEF Holders, Structure, TypeOK
  <2>2. LeasesAccounted'
    BY <1>4, <2>1 DEF Structure, LeasesAccounted
  <2>3. counter[s] = Max
    BY <1>4, LocksAssumption DEF Free, Structure, TypeOK, LeasesAccounted
  <2>4. \A q \in Sems : q # s => waiting'[q] = waiting[q]
    BY <1>4 DEF Structure, TypeOK
  <2>5. /\ waiting[s] \in Seq(Clients)
        /\ waiting'[s] = Append(waiting[s], c)
    BY <1>4 DEF Structure, TypeOK
  <2>6. \A i \in 1..Len(waiting[s]) : waiting[s][i] # c
    BY DEF Structure, WaitingInLine
  <2>7. ASSUME NEW q \in Sems
        PROVE  /\ \A d \in Clients : (pc'[d] = "waiting" /\ on'[d] = q)
                     <=> \E i \in 1..Len(waiting'[q]) : waiting'[q][i] = d
               /\ \A i, j \in 1..Len(waiting'[q]) :
                     waiting'[q][i] = waiting'[q][j] => i = j
               /\ waiting'[q] # <<>> => counter'[q] = Max
    <3>1. CASE q = s
      <4>1. /\ Len(waiting'[s]) = Len(waiting[s]) + 1
            /\ \A i \in 1..Len(waiting[s]) : waiting'[s][i] = waiting[s][i]
            /\ waiting'[s][Len(waiting[s]) + 1] = c
            /\ Len(waiting[s]) \in Nat
        BY <2>5
      <4>2. ASSUME NEW d \in Clients
            PROVE  (pc'[d] = "waiting" /\ on'[d] = s)
                     <=> \E i \in 1..Len(waiting'[s]) : waiting'[s][i] = d
        <5>1. CASE d = c
          BY <5>1, <4>1, <1>4 DEF Structure, TypeOK
        <5>2. CASE d # c
          <6>1. (pc'[d] = "waiting" /\ on'[d] = s) <=> (pc[d] = "waiting" /\ on[d] = s)
            BY <5>2, <1>4 DEF Structure, TypeOK
          <6>2. (pc[d] = "waiting" /\ on[d] = s)
                  <=> \E i \in 1..Len(waiting[s]) : waiting[s][i] = d
            BY DEF Structure, WaitingInLine
          <6>3. (\E i \in 1..Len(waiting'[s]) : waiting'[s][i] = d)
                  <=> \E i \in 1..Len(waiting[s]) : waiting[s][i] = d
            BY <5>2, <4>1
          <6> QED
            BY <6>1, <6>2, <6>3
        <5> QED
          BY <5>1, <5>2
      <4>3. \A i, j \in 1..Len(waiting'[s]) :
              waiting'[s][i] = waiting'[s][j] => i = j
        BY <4>1, <2>6, SMTT(20) DEF Structure, WaitingInLine
      <4> QED
        BY <3>1, <4>2, <4>3, <2>3, <1>4
    <3>2. CASE q # s
      <4>1. \A d \in Clients :
              (pc'[d] = "waiting" /\ on'[d] = q) <=> (pc[d] = "waiting" /\ on[d] = q)
        BY <3>2, <1>4 DEF Structure, TypeOK
      <4> QED
        BY <3>2, <4>1, <2>4, <1>4 DEF Structure, WaitingInLine
    <3> QED
      BY <3>1, <3>2
  <2> QED
    BY <1>1, <1>2, <2>2, <2>7 DEF Structure, WaitingInLine
<1> QED
  BY <1>3, <1>4

LEMMA StructureReleaseToNext ==
  ASSUME NEW c \in Clients, Structure, ReleaseToNext(c),
         NEW s, s = on[c], NEW h, h = Head(waiting[s])
  PROVE  Structure'
<1> USE DEF ReleaseToNext
<1>1. s \in Sems /\ s \in 1..made
  BY LocksAssumption DEF Structure, TypeOK, OnMade, Sems
<1>2. /\ h \in Clients /\ pc[h] = "waiting" /\ on[h] = s
      /\ h # c /\ waiting[s] # <<>>
  BY <1>1, HeadWaits DEF HandsOver
<1>3. /\ waiting[s] \in Seq(Clients)
      /\ waiting' = [waiting EXCEPT ![s] = Tail(@)]
      /\ pc' = [pc EXCEPT ![c] = "idle", ![h] = "holding"]
  BY <1>1 DEF Structure, TypeOK
<1>4. TypeOK'
  <2>1. Tail(waiting[s]) \in Seq(Clients)
    BY <1>2, <1>3
  <2>2. waiting' \in [Sems -> Seq(Clients)]
    BY <2>1, <1>3 DEF Structure, TypeOK
  <2>3. pc' \in [Clients -> {"idle", "waiting", "holding"}]
    BY <1>3 DEF Structure, TypeOK
  <2> QED
    BY <2>2, <2>3 DEF Structure, TypeOK, semVars, awaitVars, Handed
<1>5. OnMade'
  BY <1>1, <1>2, <1>3 DEF Structure, OnMade, TypeOK, semVars
<1>6. Unmade'
  <2>1. \A q \in Sems : q > made => q # s
    BY <1>1, LocksAssumption DEF Structure, TypeOK
  <2>2. \A q \in Sems : q # s => waiting'[q] = waiting[q]
    BY <1>3 DEF Structure, TypeOK
  <2> QED
    BY <2>1, <2>2 DEF Structure, Unmade, semVars
<1>7. LeasesAccounted'
  <2>1. \A q : q # s => Holders(q)' = Holders(q)
    BY <1>2, <1>3 DEF Holders, Structure, TypeOK
  <2>2. /\ Holders(s)' = (Holders(s) \ {c}) \cup {h}
        /\ c \in Holders(s) /\ h \notin Holders(s) \ {c}
    BY <1>2, <1>3 DEF Holders, Structure, TypeOK
  <2>3. /\ Cardinality(Holders(s) \ {c}) = Cardinality(Holders(s)) - 1
        /\ IsFiniteSet(Holders(s) \ {c})
    BY <2>2, HoldersFinite, FS_RemoveElement
  <2>4. Cardinality((Holders(s) \ {c}) \cup {h}) = Cardinality(Holders(s) \ {c}) + 1
    BY <2>2, <2>3, FS_AddElement
  <2>5. Cardinality(Holders(s)') = Cardinality(Holders(s))
    BY <2>2, <2>3, <2>4, HoldersFinite
  <2> QED
    BY <2>1, <2>5 DEF Structure, LeasesAccounted, Handed
<1>8. WaitingInLine'
  <2>1. /\ waiting'[s] = Tail(waiting[s])
        /\ \A q \in Sems : q # s => waiting'[q] = waiting[q]
    BY <1>1, <1>3 DEF Structure, TypeOK
  <2>2. ASSUME NEW q \in Sems
        PROVE  /\ \A d \in Clients : (pc'[d] = "waiting" /\ on'[d] = q)
                     <=> \E i \in 1..Len(waiting'[q]) : waiting'[q][i] = d
               /\ \A i, j \in 1..Len(waiting'[q]) :
                     waiting'[q][i] = waiting'[q][j] => i = j
               /\ waiting'[q] # <<>> => counter'[q] = Max
    <3>1. CASE q = s
      <4>1. /\ Len(waiting[s]) \in Nat /\ Len(waiting[s]) > 0
            /\ Len(waiting'[s]) = Len(waiting[s]) - 1
            /\ \A i \in 1..Len(waiting'[s]) : waiting'[s][i] = waiting[s][i + 1]
            /\ waiting[s][1] = h
        <5>1. Len(waiting[s]) \in Nat /\ Len(waiting[s]) > 0
          BY <1>2, <1>3
        <5>2. /\ Len(Tail(waiting[s])) = Len(waiting[s]) - 1
              /\ \A i \in 1..Len(waiting[s]) - 1 : Tail(waiting[s])[i] = waiting[s][i + 1]
          BY <1>2, <1>3, HeadTailProperties
        <5>3. waiting[s][1] = h
          BY <1>2, <1>3
        <5> QED
          BY <2>1, <5>1, <5>2, <5>3
      <4>2. \A i, j \in 1..Len(waiting[s]) : waiting[s][i] = waiting[s][j] => i = j
        BY <1>1 DEF Structure, WaitingInLine
      <4>3. ASSUME NEW d \in Clients
            PROVE  (pc'[d] = "waiting" /\ on'[d] = s)
                     <=> \E i \in 1..Len(waiting'[s]) : waiting'[s][i] = d
        <5>1. (pc'[d] = "waiting" /\ on'[d] = s)
                 <=> (d # h /\ pc[d] = "waiting" /\ on[d] = s)
          BY <1>2, <1>3 DEF Structure, TypeOK
        <5>2. (pc[d] = "waiting" /\ on[d] = s)
                 <=> \E i \in 1..Len(waiting[s]) : waiting[s][i] = d
          BY <1>1 DEF Structure, WaitingInLine
        <5>3. ASSUME NEW i \in 1..Len(waiting'[s]), waiting'[s][i] = d
              PROVE  d # h /\ \E j \in 1..Len(waiting[s]) : waiting[s][j] = d
          BY <5>3, <4>1, <4>2
        <5>4. ASSUME NEW i \in 1..Len(waiting[s]), waiting[s][i] = d, d # h
              PROVE  \E j \in 1..Len(waiting'[s]) : waiting'[s][j] = d
          <6>1. i # 1 /\ i - 1 \in 1..Len(waiting'[s])
            BY <5>4, <4>1
          <6>2. waiting'[s][i - 1] = waiting[s][(i - 1) + 1]
            BY <6>1, <4>1
          <6>3. waiting'[s][i - 1] = d
            BY <5>4, <6>2
          <6> QED
            BY <6>1, <6>3
        <5> QED
          BY <5>1, <5>2, <5>3, <5>4
      <4>4. \A i, j \in 1..Len(waiting'[s]) :
              waiting'[s][i] = waiting'[s][j] => i = j
        BY <4>1, <4>2
      <4>5. counter'[s] = Max
        BY <1>1, <1>2 DEF Structure, WaitingInLine, Handed
      <4> QED
        BY ONLY <3>1, <4>3, <4>4, <4>5
    <3>2. CASE q # s
      <4>1. \A d \in Clients :
              (pc'[d] = "waiting" /\ on'[d] = q) <=> (pc[d] = "waiting" /\ on[d] = q)
        BY <3>2, <1>2, <1>3 DEF Structure, TypeOK
      <4>2. waiting'[q] = waiting[q] /\ counter'[q] = counter[q]
        BY <3>2, <2>1 DEF Handed
      <4>3. /\ \A d \in Clients : (pc[d] = "waiting" /\ on[d] = q)
                  <=> \E i \in 1..Len(waiting[q]) : waiting[q][i] = d
            /\ \A i, j \in 1..Len(waiting[q]) : waiting[q][i] = waiting[q][j] => i = j
            /\ waiting[q] # <<>> => counter[q] = Max
        BY DEF Structure, WaitingInLine
      <4> QED
        BY ONLY <4>1, <4>2, <4>3
    <3> QED
      BY <3>1, <3>2
  <2> QED
    BY <2>2 DEF WaitingInLine
<1> QED
  BY <1>4, <1>5, <1>6, <1>7, <1>8 DEF Structure

LEMMA StructureReleaseFree ==
  ASSUME NEW c \in Clients, Structure, ReleaseFree(c),
         NEW s, s = on[c]
  PROVE  Structure'
<1>1. /\ pc[c] = "holding" /\ ~HandsOver(s)
      /\ pc' = [pc EXCEPT ![c] = "idle"]
      /\ UNCHANGED <<made, disposable, waiting, on, shut, at>>
  BY DEF ReleaseFree, Resolve
<1>2. \/ /\ Discards(s)
         /\ counter' = [counter EXCEPT ![s] = 0]
         /\ forgotten' = [forgotten EXCEPT ![s] = Cardinality(Holders(s) \ {c})]
         /\ discarded' = discarded \cup {s}
         /\ registered' \subseteq registered
      \/ /\ ~Discards(s)
         /\ counter' = [counter EXCEPT ![s] = @ - 1]
         /\ UNCHANGED <<forgotten, discarded, registered>>
  BY DEF ReleaseFree, Kept
<1>3. s \in Sems /\ s \in 1..made
  BY <1>1, LocksAssumption DEF Structure, TypeOK, OnMade, Sems
<1>4. waiting[s] = <<>>
  BY <1>1, <1>3, NobodyWaits
<1>5. /\ Cardinality(Holders(s) \ {c}) = Cardinality(Holders(s)) - 1
      /\ Cardinality(Holders(s) \ {c}) \in Nat
  <2>1. c \in Holders(s)
    BY <1>1 DEF Holders
  <2>2. IsFiniteSet(Holders(s) \ {c})
    BY HoldersFinite, FS_Subset
  <2> QED
    BY <2>1, <2>2, HoldersFinite, FS_RemoveElement, FS_CardinalityType
<1>6. /\ Holders(s)' = Holders(s) \ {c}
      /\ \A q : q # s => Holders(q)' = Holders(q)
  BY <1>1 DEF Holders, Structure, TypeOK
<1>7. TypeOK'
  <2>1. counter' \in [Sems -> Int] /\ forgotten' \in [Sems -> Nat]
    BY <1>2, <1>5 DEF Structure, TypeOK
  <2>2. discarded' \in SUBSET disposable /\ registered' \in SUBSET (1..made)
    BY <1>2 DEF Structure, TypeOK, Discards
  <2>3. pc' \in [Clients -> {"idle", "waiting", "holding"}]
    BY <1>1 DEF Structure, TypeOK
  <2>4. listening' \in SUBSET Awaiters
    BY DEF ReleaseFree, Structure, TypeOK
  <2>5. answer' \in [Awaiters -> {"none", "waiting", "resolved", "rejected"}]
    <3>1. \E as : Resolve(as)
      BY DEF ReleaseFree
    <3> QED
      BY <3>1 DEF Structure, TypeOK, Resolve
  <2> QED
    BY <1>1, <2>1, <2>2, <2>3, <2>4, <2>5 DEF Structure, TypeOK
<1>8. OnMade' /\ Unmade'
  <2>1. \A q \in Sems : q > made => q # s
    BY <1>3, LocksAssumption DEF Structure, TypeOK
  <2>2. \A q \in Sems : q # s => forgotten'[q] = forgotten[q]
    BY <1>2 DEF Structure, TypeOK
  <2>3. Unmade'
    BY <1>1, <2>1, <2>2 DEF Structure, Unmade
  <2> QED
    BY <1>1, <2>3 DEF Structure, OnMade, TypeOK
<1>9. LeasesAccounted'
  <2>1. ASSUME NEW q \in Sems
        PROVE  counter'[q] = Cardinality(Holders(q)') - forgotten'[q] /\ counter'[q] <= Max
    <3>1. CASE q = s
      <4>1. Cardinality(Holders(s)') = Cardinality(Holders(s)) - 1
        BY <1>5, <1>6
      <4>2. Cardinality(Holders(s)') = Cardinality(Holders(s) \ {c})
        BY <1>6
      <4>3. /\ counter[s] = Cardinality(Holders(s)) - forgotten[s] /\ counter[s] <= Max
            /\ counter[s] \in Int /\ forgotten[s] \in Nat
        BY <1>3 DEF Structure, TypeOK, LeasesAccounted
      <4>4. CASE /\ counter'[s] = 0
                 /\ forgotten'[s] = Cardinality(Holders(s) \ {c})
        BY <4>4, <4>2, <1>5, <3>1, LocksAssumption
      <4>5. CASE counter'[s] = counter[s] - 1 /\ forgotten'[s] = forgotten[s]
        BY <4>5, <4>1, <4>3, <3>1, <1>5, HoldersFinite, LocksAssumption
      <4> QED
        BY <4>4, <4>5, <1>2, <1>3 DEF Structure, TypeOK
    <3>2. CASE q # s
      <4>1. counter'[q] = counter[q] /\ forgotten'[q] = forgotten[q]
        BY <3>2, <1>2 DEF Structure, TypeOK
      <4> QED
        BY <3>2, <4>1, <1>6 DEF Structure, LeasesAccounted
    <3> QED
      BY <3>1, <3>2
  <2> QED
    BY <2>1 DEF LeasesAccounted
<1>10. WaitingInLine'
  <2>1. \A q \in Sems, d \in Clients :
          (pc'[d] = "waiting" /\ on'[d] = q) <=> (pc[d] = "waiting" /\ on[d] = q)
    BY <1>1 DEF Structure, TypeOK
  <2>2. \A q \in Sems : waiting'[q] # <<>> => counter'[q] = counter[q]
    BY <1>1, <1>2, <1>4 DEF Structure, TypeOK
  <2> QED
    BY <1>1, <2>1, <2>2 DEF Structure, WaitingInLine
<1> QED
  BY <1>7, <1>8, <1>9, <1>10 DEF Structure

LEMMA StructureAwait ==
  ASSUME Structure,
         \/ \E a \in Callers : AwaitFactory(a) \/ \E s \in Sems : AwaitSem(a, s)
         \/ \E a \in Awaiters : Timeout(a)
         \/ ShutdownBegin \/ ShutdownFail
  PROVE  Structure'
<1>1. UNCHANGED <<semVars, counter, waiting, pc, on, forgotten>>
  BY DEF AwaitFactory, AwaitSem, Timeout, ShutdownBegin, ShutdownFail
<1>2. /\ at' \in [Awaiters -> Sems \cup {Factory}]
      /\ listening' \in SUBSET Awaiters
      /\ answer' \in [Awaiters -> {"none", "waiting", "resolved", "rejected"}]
      /\ shut' \in {"none", "awaiting", "done", "failed"}
  <2> USE DEF Structure, TypeOK, awaitVars
  <2>1. CASE \E a \in Callers : AwaitFactory(a)
    BY <2>1, ZenonT(20) DEF AwaitFactory, Awaiters
  <2>2. CASE \E a \in Callers : \E s \in Sems : AwaitSem(a, s)
    <3>1. PICK a \in Callers, s \in Sems : AwaitSem(a, s)
      BY <2>2
    <3>2. a \in Awaiters
      BY DEF Awaiters
    <3>3. at' \in [Awaiters -> Sems \cup {Factory}] /\ shut' = shut
      BY <3>1, <3>2 DEF AwaitSem
    <3>4. answer' \in [Awaiters -> {"none", "waiting", "resolved", "rejected"}]
      BY <3>1, <3>2 DEF AwaitSem
    <3>5. listening' \in SUBSET Awaiters
      BY <3>1, <3>2 DEF AwaitSem
    <3> QED
      BY <3>3, <3>4, <3>5
  <2>3. CASE \E a \in Awaiters : Timeout(a)
    BY <2>3 DEF Timeout
  <2>4. CASE ShutdownBegin
    <3>1. answer' \in [Awaiters -> {"none", "waiting", "resolved", "rejected"}]
      BY <2>4 DEF ShutdownBegin
    <3>2. registered \subseteq Awaiters
      BY LocksAssumption DEF Awaiters, Sems
    <3> QED
      BY <2>4, <3>1, <3>2 DEF ShutdownBegin
  <2>5. CASE ShutdownFail
    BY <2>5 DEF ShutdownFail
  <2> QED
    BY <2>1, <2>2, <2>3, <2>4, <2>5
<1>3. TypeOK'
  BY <1>1, <1>2 DEF Structure, TypeOK, semVars
<1> QED
  BY <1>1, <1>3, LeasesKept DEF Structure, semVars

\* What purge() does to all semaphores it is called of.
LEMMA StructurePurge ==
  ASSUME Structure, NEW ps, ps \subseteq 1..made, Purge(ps), UNCHANGED <<made, on>>
  PROVE  OnMade' /\ Unmade' /\ LeasesAccounted' /\ WaitingInLine'
<1>1. /\ \A s \in Sems : s \in ps => /\ counter'[s] = 0 /\ waiting'[s] = <<>>
                                     /\ forgotten'[s] = Cardinality(Holders(s))
      /\ \A s \in Sems : s \notin ps => /\ counter'[s] = counter[s]
                                        /\ waiting'[s] = waiting[s]
                                        /\ forgotten'[s] = forgotten[s]
      /\ \A c \in Clients :
            pc'[c] = IF pc[c] = "waiting" /\ on[c] \in ps THEN "idle" ELSE pc[c]
  BY DEF Purge, Rejected
<1>2. OnMade'
  BY <1>1 DEF Structure, OnMade
<1>3. Unmade'
  <2>1. \A s \in Sems : s > made => s \notin ps
    BY LocksAssumption DEF Structure, TypeOK, Sems
  <2> QED
    BY <1>1, <2>1 DEF Structure, Unmade
<1>4. \A s : Holders(s)' = Holders(s)
  BY <1>1 DEF Holders
<1>5. LeasesAccounted'
  <2>1. ASSUME NEW s \in Sems
        PROVE  counter'[s] = Cardinality(Holders(s)') - forgotten'[s] /\ counter'[s] <= Max
    <3>1. CASE s \in ps
      <4>1. counter'[s] = 0 /\ forgotten'[s] = Cardinality(Holders(s)')
        BY <3>1, <1>1, <1>4
      <4>2. Cardinality(Holders(s)') \in Nat
        BY <1>4, HoldersFinite
      <4> QED
        BY <4>1, <4>2, LocksAssumption
    <3>2. CASE s \notin ps
      BY <3>2, <1>1, <1>4 DEF Structure, LeasesAccounted
    <3> QED
      BY <3>1, <3>2
  <2> QED
    BY <2>1 DEF LeasesAccounted
<1>6. WaitingInLine'
  <2>1. ASSUME NEW s \in Sems
        PROVE  /\ \A c \in Clients : (pc'[c] = "waiting" /\ on'[c] = s)
                     <=> \E i \in 1..Len(waiting'[s]) : waiting'[s][i] = c
               /\ \A i, j \in 1..Len(waiting'[s]) :
                     waiting'[s][i] = waiting'[s][j] => i = j
               /\ waiting'[s] # <<>> => counter'[s] = Max
    <3>1. CASE s \in ps
      <4>1. waiting'[s] = <<>> /\ Len(waiting'[s]) = 0
        BY <3>1, <1>1
      <4> QED
        BY <3>1, <1>1, <4>1
    <3>2. CASE s \notin ps
      BY <3>2, <1>1 DEF Structure, WaitingInLine
    <3> QED
      BY <3>1, <3>2
  <2> QED
    BY <2>1 DEF WaitingInLine
<1> QED
  BY <1>2, <1>3, <1>5, <1>6

LEMMA StructureShutdownPurge == Structure /\ ShutdownPurge => Structure'
<1> SUFFICES ASSUME Structure, ShutdownPurge PROVE Structure'
  OBVIOUS
<1>0. UNCHANGED <<made, disposable, discarded, on>> /\ shut' = "done"
  BY DEF ShutdownPurge
<1>1. CASE /\ registered = {}
           /\ UNCHANGED <<counter, waiting, pc, forgotten, registered, awaitVars>>
  <2>1. TypeOK'
    BY <1>0, <1>1 DEF Structure, TypeOK, awaitVars
  <2> QED
    BY <1>0, <1>1, <2>1, LeasesKept DEF Structure
<1>2. ASSUME NEW last \in registered, Purge(Purged(last)),
             registered' = InUse(last) \ Purged(last),
             listening' = {a \in listening \ ToldEmpty : at[a] \notin Purged(last)},
             Resolve(ToldEmpty)
      PROVE  Structure'
  <2>1. Purged(last) \subseteq 1..made /\ registered' \subseteq registered
    BY <1>2 DEF Purged, InUse, Structure, TypeOK
  <2>2. TypeOK'
    <3>1. /\ counter' \in [Sems -> Int] /\ waiting' \in [Sems -> Seq(Clients)]
          /\ pc' \in [Clients -> {"idle", "waiting", "holding"}]
      BY <1>2 DEF Structure, TypeOK, Purge, Rejected
    <3>2. forgotten' \in [Sems -> Nat]
      BY <1>2, HoldersFinite DEF Structure, TypeOK, Purge
    <3>3. /\ listening' \in SUBSET Awaiters /\ at' = at
          /\ answer' \in [Awaiters -> {"none", "waiting", "resolved", "rejected"}]
      BY <1>2 DEF Structure, TypeOK, Resolve
    <3> QED
      BY <1>0, <2>1, <3>1, <3>2, <3>3 DEF Structure, TypeOK
  <2> QED
    BY <1>0, <1>2, <2>1, <2>2, StructurePurge DEF Structure
<1> QED
  BY <1>1, <1>2 DEF ShutdownPurge

LEMMA StructureStep == Structure /\ [Next]_vars => Structure'
<1> SUFFICES ASSUME Structure, [Next]_vars PROVE Structure'
  OBVIOUS
<1>1. CASE Make
  BY <1>1, StructureMake
<1>2. CASE \E c \in Clients : MakeAndAcquire(c)
  BY <1>2, StructureMakeAndAcquire
<1>3. CASE \E c \in Clients, s \in Sems : Acquire(c, s)
  BY <1>3, StructureAcquire
<1>4. CASE \E c \in Clients : ReleaseToNext(c)
  BY <1>4, StructureReleaseToNext
<1>5. CASE \E c \in Clients : ReleaseFree(c)
  BY <1>5, StructureReleaseFree
<1>6. CASE \/ \E a \in Callers : AwaitFactory(a) \/ \E s \in Sems : AwaitSem(a, s)
           \/ \E a \in Awaiters : Timeout(a)
           \/ ShutdownBegin \/ ShutdownFail
  BY <1>6, StructureAwait
<1>7. CASE ShutdownPurge
  BY <1>7, StructureShutdownPurge
<1>8. CASE UNCHANGED vars
  <2>1. TypeOK'
    BY <1>8 DEF vars, semVars, awaitVars, Structure, TypeOK
  <2> QED
    BY <1>8, <2>1, LeasesKept DEF vars, semVars, Structure
<1> QED
  BY <1>1, <1>2, <1>3, <1>4, <1>5, <1>6, <1>7, <1>8 DEF Next

LEMMA Invariance == Spec => []Structure
<1>1. Init => Structure
  BY StructureInit
<1> QED
  BY <1>1, StructureStep, PTL DEF Spec

-----------------------------------------------------------------------------
(* What follows from the invariant *)

\* Every field keeps its type.
THEOREM TypeCorrect == Spec => []TypeOK
<1>1. Structure => TypeOK
  BY DEF Structure
<1> QED
  BY <1>1, Invariance, PTL

\* The counter of a semaphore is the number of its holders, less those that
\* purge() has forgotten, and never above max.
THEOREM AlwaysLeasesAccounted == Spec => []LeasesAccounted
<1>1. Structure => LeasesAccounted
  BY DEF Structure
<1> QED
  BY <1>1, Invariance, PTL

\* Who waits stands in exactly one line once, and lines are empty as long as
\* there are leases left.
THEOREM AlwaysWaitingInLine == Spec => []WaitingInLine
<1>1. Structure => WaitingInLine
  BY DEF Structure
<1> QED
  BY <1>1, Invariance, PTL

\* Mutual exclusion, up to max.
THEOREM AlwaysAtMostMax == Spec => []AtMostMax
<1>1. Structure => AtMostMax
  <2>1. ASSUME Structure, NEW s \in Sems, forgotten[s] = 0
        PROVE  Cardinality(Holders(s)) <= Max
    <3>1. counter[s] = Cardinality(Holders(s)) - 0 /\ counter[s] <= Max
      BY <2>1 DEF Structure, LeasesAccounted
    <3> QED
      BY <3>1, HoldersFinite
  <2> QED
    BY <2>1 DEF AtMostMax
<1> QED
  BY <1>1, Invariance, PTL

\* acquire() is granted on the spot only when nobody waits in line.
THEOREM NeverOvertakes == Spec => NoOvertaking
<1>1. ASSUME Structure, [Next]_vars, NEW d \in Clients,
             pc[d] = "idle", pc'[d] = "holding"
      PROVE  on'[d] > made \/ waiting[on'[d]] = <<>>
  <2>1. PICK c \in Clients :
          \/ MakeAndAcquire(c) \/ ReleaseToNext(c) \/ ReleaseFree(c)
          \/ \E s \in Sems : Acquire(c, s)
    <3>1. ~ UNCHANGED pc
      BY <1>1
    <3>2. ShutdownPurge => pc'[d] \in {pc[d], "idle"}
      BY <1>1 DEF ShutdownPurge, Purge, Rejected, Structure, TypeOK
    <3> QED
      BY <1>1, <3>1, <3>2
         DEF Next, vars, Make, AwaitFactory, AwaitSem, Timeout, ShutdownBegin, ShutdownFail
  <2>2. CASE MakeAndAcquire(c)
    <3>1. d = c /\ on'[d] = made + 1
      BY <2>2, <1>1 DEF MakeAndAcquire, Structure, TypeOK
    <3> QED
      BY <3>1, LocksAssumption, <1>1 DEF Structure, TypeOK
  <2>3. CASE ReleaseToNext(c)
    <3>1. on[c] \in Sems
      BY <2>3, <1>1, LocksAssumption DEF ReleaseToNext, Structure, OnMade, TypeOK, Sems
    <3>2. pc[Head(waiting[on[c]])] = "waiting"
      BY <3>1, <2>3, <1>1, HeadWaits DEF ReleaseToNext, HandsOver
    <3> QED
      BY <3>2, <2>3, <1>1 DEF ReleaseToNext, Structure, TypeOK
  <2>4. CASE ReleaseFree(c)
    BY <2>4, <1>1 DEF ReleaseFree, Structure, TypeOK
  <2>5. ASSUME NEW s \in Sems, Acquire(c, s)
        PROVE  on'[d] > made \/ waiting[on'[d]] = <<>>
    <3>1. d = c /\ on'[d] = s /\ Free(s)
      BY <2>5, <1>1 DEF Acquire, Structure, TypeOK
    <3> QED
      BY <3>1, <1>1, LocksAssumption DEF Free, Structure, TypeOK, WaitingInLine
  <2> QED
    BY <2>1, <2>2, <2>3, <2>4, <2>5
<1>2. Structure /\ [Next]_vars
        => [\A c \in Clients : pc[c] = "idle" /\ pc'[c] = "holding"
              => on'[c] > made \/ waiting[on'[c]] = <<>>]_vars
  BY <1>1
<1> QED
  BY <1>2, Invariance, PTL DEF Spec, NoOvertaking

-----------------------------------------------------------------------------
(* Who is in use is neither thrown away nor dropped by remove() *)

\* A release() that leaves a semaphore free leaves nobody with it.
LEMMA DiscardedUnused ==
  ASSUME NEW c \in Clients, Structure, ReleaseFree(c),
         NEW s, s = on[c], counter[s] <= 1, forgotten[s] = 0
  PROVE  s \in Sems /\ waiting[s] = <<>> /\ Holders(s) = {c}
<1>1. s \in Sems
  <2>1. pc[c] # "idle"
    BY DEF ReleaseFree
  <2> QED
    BY <2>1, LocksAssumption DEF Structure, TypeOK, OnMade, Sems
<1>2. waiting[s] = <<>>
  BY <1>1, NobodyWaits DEF ReleaseFree
<1>3. c \in Holders(s)
  BY DEF Holders, ReleaseFree
<1>4. /\ Cardinality(Holders(s)) <= 1
      /\ Cardinality(Holders(s) \ {c}) = Cardinality(Holders(s)) - 1
      /\ Cardinality(Holders(s) \ {c}) \in Nat
      /\ IsFiniteSet(Holders(s) \ {c})
  <2>1. counter[s] = Cardinality(Holders(s)) - forgotten[s]
    BY <1>1 DEF Structure, LeasesAccounted
  <2>2. Cardinality(Holders(s)) <= 1
    BY <2>1, HoldersFinite
  <2> QED
    BY <2>2, <1>3, HoldersFinite, FS_RemoveElement, FS_Subset, FS_CardinalityType
<1>5. Holders(s) \ {c} = {}
  BY <1>4, HoldersFinite, FS_EmptySet
<1> QED
  BY <1>1, <1>2, <1>3, <1>5

\* Only release() throws semaphores away.
LEMMA OnlyReleaseDiscards ==
  ASSUME Structure, [Next]_vars, discarded' # discarded
  PROVE  \E c \in Clients :
           /\ ReleaseFree(c) /\ discarded' = discarded \cup {on[c]}
           /\ counter[on[c]] <= 1
<1>1. PICK c \in Clients : ReleaseFree(c)
  BY DEF Next, vars, semVars, Make, MakeAndAcquire, Acquire, ReleaseToNext,
         AwaitFactory, AwaitSem, Timeout, ShutdownBegin, ShutdownPurge, ShutdownFail
<1> QED
  BY <1>1 DEF ReleaseFree, Discards

\* A semaphore is thrown away only when nobody holds it or waits for it.
THEOREM NeverDiscardsSomebody == Spec => DiscardsNobody
<1>1. ASSUME Structure, [Next]_vars, NEW s \in discarded' \ discarded, forgotten[s] = 0
      PROVE  waiting[s] = <<>> /\ Holders(s)' = {}
  <2>1. PICK c \in Clients : ReleaseFree(c) /\ s = on[c] /\ counter[s] <= 1
    BY <1>1, OnlyReleaseDiscards
  <2>2. waiting[s] = <<>> /\ Holders(s) = {c}
    BY <1>1, <2>1, DiscardedUnused
  <2>3. Holders(s)' = Holders(s) \ {c}
    BY <1>1, <2>1 DEF ReleaseFree, Holders, Structure, TypeOK
  <2> QED
    BY <2>2, <2>3
<1>2. Structure /\ [Next]_vars => [DiscardsUnused]_vars
  BY <1>1 DEF DiscardsUnused
<1> QED
  BY <1>2, Invariance, PTL DEF Spec, DiscardsNobody

LEMMA InUseStep ==
  ASSUME Structure, InUseIsKept, [Next]_vars
  PROVE  InUseIsKept'
<1> SUFFICES ASSUME shut' # "done" PROVE InUseIsKept'
  BY DEF InUseIsKept
<1>1. shut # "done"
  BY DEF Next, vars, semVars, Make, MakeAndAcquire, Acquire, ReleaseToNext, ReleaseFree,
         AwaitFactory, AwaitSem, Timeout, ShutdownBegin, ShutdownPurge, ShutdownFail
<1>2. /\ \A s \in Sems : forgotten[s] = 0
      /\ \A c \in Clients : pc[c] # "idle" => on[c] \notin discarded
      /\ \A s \in disposable \ discarded : counter[s] > 0 /\ s \in registered
  BY <1>1 DEF InUseIsKept
<1>3. disposable \subseteq Sems
  BY LocksAssumption DEF Structure, TypeOK, Sems
<1> USE DEF InUseIsKept
<1>4. CASE \E c \in Clients : ReleaseFree(c)
  <2>1. PICK c \in Clients : ReleaseFree(c)
    BY <1>4
  <2>2. PICK s : s = on[c] /\ s \in Sems
    <3>1. pc[c] # "idle"
      BY <2>1 DEF ReleaseFree
    <3> QED
      BY <3>1, LocksAssumption DEF Structure, TypeOK, OnMade, Sems
  <2>3. /\ pc' = [pc EXCEPT ![c] = "idle"] /\ on' = on /\ disposable' = disposable
        /\ waiting' = waiting
    BY <2>1 DEF ReleaseFree
  <2>4. CASE /\ ~Discards(s)
             /\ counter' = [counter EXCEPT ![s] = @ - 1]
             /\ UNCHANGED <<forgotten, discarded, registered>>
    <3>1. \A r \in disposable \ discarded : counter'[r] > 0
      <4>1. s \in disposable => counter[s] > 1
        BY <2>2, <2>4 DEF Discards, Structure, TypeOK
      <4>2. counter'[s] = counter[s] - 1 /\ counter[s] \in Int
        BY <2>2, <2>4 DEF Structure, TypeOK
      <4>3. \A r \in Sems : r # s => counter'[r] = counter[r]
        BY <2>4 DEF Structure, TypeOK
      <4> QED
        BY <1>2, <1>3, <4>1, <4>2, <4>3
    <3>2. \A d \in Clients : pc'[d] # "idle" => pc[d] # "idle"
      BY <2>3 DEF Structure, TypeOK
    <3> QED
      BY <1>2, <2>3, <2>4, <3>1, <3>2
  <2>5. CASE /\ Discards(s)
             /\ counter' = [counter EXCEPT ![s] = 0]
             /\ forgotten' = [forgotten EXCEPT ![s] = Cardinality(Holders(s) \ {c})]
             /\ discarded' = discarded \cup {s}
             /\ registered' = Kept(counter', listening \ Listeners(s))
    <3>1. waiting[s] = <<>> /\ Holders(s) = {c}
      BY <1>2, <2>1, <2>2, <2>5, DiscardedUnused DEF Discards
    <3>2. Cardinality(Holders(s) \ {c}) = 0
      <4>1. Holders(s) \ {c} = {}
        BY <3>1
      <4> QED
        BY <4>1, FS_EmptySet
    <3>3. \A q \in Sems : forgotten'[q] = 0
      BY <1>2, <2>5, <3>2 DEF Structure, TypeOK
    <3>4. ASSUME NEW d \in Clients, pc'[d] # "idle"
          PROVE  on'[d] \notin discarded'
      <4>1. d # c /\ pc[d] # "idle"
        BY <2>3, <3>4 DEF Structure, TypeOK
      <4>2. ~(pc[d] = "waiting" /\ on[d] = s)
        BY <3>1, <2>2 DEF Structure, WaitingInLine
      <4>3. ~(pc[d] = "holding" /\ on[d] = s)
        BY <3>1, <4>1 DEF Holders
      <4>4. on[d] # s
        BY <4>1, <4>2, <4>3 DEF Structure, TypeOK
      <4> QED
        BY <1>2, <2>3, <2>5, <4>1, <4>4
    <3>5. \A r \in disposable \ (discarded \cup {s}) : counter'[r] = counter[r]
      BY <1>3, <2>5 DEF Structure, TypeOK
    <3>6. \A r \in disposable \ (discarded \cup {s}) : counter[r] # 0
      BY <1>2
    <3>7. \A r \in disposable' \ discarded' : counter'[r] > 0 /\ r \in registered'
      BY <1>2, <2>3, <2>5, <3>5, <3>6 DEF Kept
    <3> QED
      BY <3>3, <3>4, <3>7
  <2> QED
    BY <2>1, <2>2, <2>4, <2>5 DEF ReleaseFree
<1>5. CASE \E c \in Clients : ReleaseToNext(c)
  <2>1. PICK c \in Clients : ReleaseToNext(c)
    BY <1>5
  <2>2. pc[c] # "idle" /\ on[c] \in Sems
    BY <2>1, LocksAssumption DEF ReleaseToNext, Structure, TypeOK, OnMade, Sems
  <2>3. PICK h \in Clients : h = Head(waiting[on[c]]) /\ pc[h] = "waiting"
    BY <2>1, <2>2, HeadWaits DEF ReleaseToNext, HandsOver
  <2>4. \A d \in Clients : pc'[d] # "idle" => pc[d] # "idle"
    BY <2>1, <2>3 DEF ReleaseToNext, Structure, TypeOK
  <2> QED
    BY <1>2, <2>1, <2>4 DEF ReleaseToNext, semVars, Handed
<1>6. CASE \E c \in Clients : MakeAndAcquire(c)
  <2>1. PICK c \in Clients : MakeAndAcquire(c)
    BY <1>6
  <2>2. PICK n \in Sems : n = made + 1
    BY <2>1, LocksAssumption DEF MakeAndAcquire, Structure, TypeOK, Sems
  <2>3. n \notin discarded
    BY <2>2, LocksAssumption DEF Structure, TypeOK
  <2>4. counter' = [counter EXCEPT ![n] = 1]
    BY <2>1, <2>2 DEF MakeAndAcquire
  <2>5. \A r \in disposable' \ discarded' : counter'[r] > 0 /\ r \in registered'
    BY <1>2, <1>3, <2>1, <2>2, <2>4 DEF MakeAndAcquire, Structure, TypeOK
  <2>6. \A d \in Clients : pc'[d] # "idle" => on'[d] \notin discarded'
    BY <1>2, <2>1, <2>2, <2>3 DEF MakeAndAcquire, Structure, TypeOK
  <2> QED
    BY <1>2, <2>1, <2>5, <2>6 DEF MakeAndAcquire
<1>7. CASE \E c \in Clients, s \in Sems : Acquire(c, s)
  <2>1. PICK c \in Clients, s \in Sems : Acquire(c, s)
    BY <1>7
  <2>2. UNCHANGED <<disposable, discarded, registered, forgotten>>
    BY <2>1 DEF Acquire, semVars
  <2>3. \A r \in disposable \ discarded : counter'[r] > 0
    <3>1. \A r \in Sems : counter'[r] \in {counter[r], counter[r] + 1} /\ counter[r] \in Int
      BY <2>1 DEF Acquire, Structure, TypeOK
    <3> QED
      BY <1>2, <1>3, <3>1
  <2>4. \A d \in Clients : pc'[d] # "idle" => on'[d] \notin discarded
    BY <1>2, <2>1 DEF Acquire, Structure, TypeOK
  <2> QED
    BY <1>2, <2>2, <2>3, <2>4
<1>8. CASE Make
  BY <1>2, <1>8 DEF Make
<1>9. CASE UNCHANGED <<semVars, counter, pc, on, forgotten>>
  BY <1>2, <1>9 DEF semVars
<1>10. ~ShutdownPurge
  BY DEF ShutdownPurge
<1> QED
  BY <1>4, <1>5, <1>6, <1>7, <1>8, <1>9, <1>10
     DEF Next, vars, AwaitFactory, AwaitSem, Timeout, ShutdownBegin, ShutdownFail

\* Although remove() drops other semaphores than the one it is given, those of
\* the task store stay registered as long as they are held or waited for.
THEOREM AlwaysEmptyMeansStored == Spec => []EmptyMeansStored
<1>1. Init => InUseIsKept
  BY StructureInit
<1>2. InUseIsKept => EmptyMeansStored
  BY DEF InUseIsKept, EmptyMeansStored
<1> QED
  BY <1>1, <1>2, Invariance, InUseStep, PTL DEF Spec
=============================================================================
