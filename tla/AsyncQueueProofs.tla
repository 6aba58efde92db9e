-------------------------- MODULE AsyncQueueProofs --------------------------
(***************************************************************************)
(* Proofs about AsyncQueue for any number of jobs, slots and callers.      *)
(***************************************************************************)
EXTENDS AsyncQueue, FiniteSetTheorems, TLAPS

\* Names for two numbers, of no interest to the proofs.
USE DEF ResumeFires, Freed

-----------------------------------------------------------------------------
(* The inductive invariant *)

\* The jobs 1..p that were accepted: a prefix has begun, the others wait, in
\* order, in the array w.
Layout(p, w, ph) ==
  /\ w \in Seq(Jobs)
  /\ Len(w) <= p
  /\ \A i \in 1..Len(w) : w[i] = p - Len(w) + i
  /\ ph \in [Jobs -> Phases]
  /\ \A j \in Jobs : ph[j] \in Begun <=> j <= p - Len(w)
  /\ \A j \in Jobs : ph[j] = "enqueued" <=> p - Len(w) < j /\ j <= p

\* SlotsAccounted, of any job phases.
Slots(a, r, ph) ==
  /\ a = {j \in Jobs : ph[j] \in InSlot}
  /\ r = Cardinality(a)
  /\ r \in Nat
  /\ r <= Concurrent

Structure ==
  /\ TypeOK
  /\ Layout(pushed, worker, phase)
  /\ Slots(active, runningTasks, phase)
  /\ listening => dropped = 0

-----------------------------------------------------------------------------
LEMMA JobsFinite ==
  ASSUME NEW S \in SUBSET Jobs
  PROVE  IsFiniteSet(S) /\ Cardinality(S) \in Nat
<1>1. IsFiniteSet(Jobs)
  BY QueueAssumption, FS_Interval DEF Jobs
<1>2. IsFiniteSet(S)
  BY <1>1, FS_Subset
<1> QED
  BY <1>2, FS_CardinalityType

\* Room() never takes more jobs than there are, nor more than fit.
LEMMA RoomFits ==
  ASSUME NEW len \in Nat, NEW r \in Nat, r <= Concurrent, NEW fires \in Nat
  PROVE  /\ Room(len, r, fires) \in 0..len
         /\ r + Room(len, r, fires) <= Concurrent
         /\ Room(len, r, fires) <= fires
         /\ \/ Room(len, r, fires) = fires
            \/ Room(len, r, fires) = len
            \/ r + Room(len, r, fires) = Concurrent
  BY QueueAssumption DEF Room, Least

\* If jobs still wait, enough calls of process() have filled every slot.
LEMMA RoomFills ==
  ASSUME NEW len \in Nat, NEW r \in Nat, r <= Concurrent, NEW fires \in Nat,
         fires >= len \/ r + fires >= Concurrent,
         len - Room(len, r, fires) > 0
  PROVE  r + Room(len, r, fires) = Concurrent
  BY QueueAssumption DEF Room, Least

\* What a run of process() calls does to the layout and the slots.
LEMMA ProcessKeeps ==
  ASSUME NEW p \in 0..MaxJobs, NEW w, NEW ph, NEW a, NEW r, NEW fires \in Nat,
         Layout(p, w, ph), Slots(a, r, ph),
         call \in [Callers \cup {Owner} -> Answers],
         Process(w, ph, a, r, fires)
  PROVE  /\ Layout(p, worker', phase')
         /\ Slots(active', runningTasks', phase')
         /\ runningTasks' = r + Room(Len(w), r, fires)
         /\ Len(worker') = Len(w) - Room(Len(w), r, fires)
         /\ call' \in [Callers \cup {Owner} -> Answers]
         /\ \A j \in Jobs : phase'[j] = ph[j] \/
              /\ phase'[j] = "launched"
              /\ ph[j] = "enqueued"
<1> DEFINE n     == Room(Len(w), r, fires)
           taken == {w[i] : i \in 1..n}
           b     == p - Len(w)
<1>1. /\ Len(w) \in Nat /\ Len(w) <= p /\ r \in Nat /\ r <= Concurrent
      /\ w \in Seq(Jobs) /\ ph \in [Jobs -> Phases] /\ p \in Nat /\ b \in Nat
  BY DEF Layout, Slots
<1>2. n \in Nat /\ n <= Len(w) /\ r + n <= Concurrent
  BY <1>1, RoomFits
<1>3. /\ worker' = SubSeq(w, n + 1, Len(w))
      /\ active' = a \cup taken
      /\ runningTasks' = r + n
      /\ phase' = [j \in Jobs |-> IF j \in taken THEN "launched" ELSE ph[j]]
  BY DEF Process, Rest
<1> HIDE DEF n
<1>4. taken = (b + 1)..(b + n)
  <2>1. \A i \in 1..n : w[i] = b + i
    BY <1>1, <1>2 DEF Layout
  <2>2. ASSUME NEW x \in (b + 1)..(b + n)
        PROVE  x \in taken
    <3>1. x - b \in 1..n /\ b + (x - b) = x
      BY <1>1, <1>2
    <3>2. w[x - b] = x
      BY <2>1, <3>1
    <3> QED
      BY <3>1, <3>2
  <2>3. ASSUME NEW i \in 1..n
        PROVE  w[i] \in (b + 1)..(b + n)
    BY <1>1, <1>2, <2>1
  <2> QED
    BY <2>2, <2>3
<1> HIDE DEF taken
<1>5. taken \subseteq {j \in Jobs : ph[j] = "enqueued"}
  <2>1. \A x \in taken : x \in Int /\ b < x /\ x <= p
    <3>1. \A x \in (b + 1)..(b + n) : x \in Int /\ b < x /\ x <= p
      BY <1>1, <1>2
    <3> QED
      BY <1>4, <3>1
  <2>2. p <= MaxJobs /\ MaxJobs \in Nat
    BY QueueAssumption
  <2> QED
    BY <1>1, <2>1, <2>2 DEF Layout, Jobs
<1>6. Layout(p, worker', phase') /\ Len(worker') = Len(w) - n
  <2>1. /\ worker' \in Seq(Jobs)
        /\ Len(worker') = Len(w) - n
        /\ \A i \in 1..(Len(w) - n) : worker'[i] = w[n + i]
    BY <1>1, <1>2, <1>3
  <2>2. \A i \in 1..Len(worker') : worker'[i] = p - Len(worker') + i
    BY <1>1, <1>2, <2>1 DEF Layout
  <2>3. phase' \in [Jobs -> Phases]
    BY <1>1, <1>3 DEF Phases
  <2>4. \A j \in Jobs : phase'[j] \in Begun <=> j <= p - Len(worker')
    <3> SUFFICES ASSUME NEW j \in Jobs
                 PROVE  phase'[j] \in Begun <=> j <= p - Len(worker')
      OBVIOUS
    <3>1. j \in Int /\ (ph[j] \in Begun <=> j <= b)
      BY DEF Jobs, Layout
    <3>2. p - Len(worker') = b + n
      BY <1>1, <1>2, <2>1
    <3>3. CASE j \in taken
      BY <1>1, <1>2, <1>3, <1>4, <3>1, <3>2, <3>3 DEF Begun, InSlot
    <3>4. CASE j \notin taken
      <4>1. phase'[j] = ph[j]
        BY <1>3, <3>4
      <4>2. ~(b < j /\ j <= b + n)
        BY <1>1, <1>2, <1>4, <3>1, <3>4
      <4> QED
        BY <1>1, <1>2, <3>1, <3>2, <4>1, <4>2
    <3> QED
      BY <3>3, <3>4
  <2>5. \A j \in Jobs : phase'[j] = "enqueued" <=>
                          p - Len(worker') < j /\ j <= p
    <3> SUFFICES ASSUME NEW j \in Jobs
                 PROVE  phase'[j] = "enqueued" <=>
                          p - Len(worker') < j /\ j <= p
      OBVIOUS
    <3>1. j \in Int /\ (ph[j] = "enqueued" <=> b < j /\ j <= p)
      BY DEF Jobs, Layout
    <3>2. p - Len(worker') = b + n
      BY <1>1, <1>2, <2>1
    <3>3. CASE j \in taken
      BY <1>1, <1>2, <1>3, <1>4, <3>1, <3>2, <3>3
    <3>4. CASE j \notin taken
      <4>1. phase'[j] = ph[j]
        BY <1>3, <3>4
      <4>2. ~(b < j /\ j <= b + n)
        BY <1>1, <1>2, <1>4, <3>1, <3>4
      <4> QED
        BY <1>1, <1>2, <3>1, <3>2, <4>1, <4>2
    <3> QED
      BY <3>3, <3>4
  <2> QED
    BY <1>1, <1>2, <2>1, <2>2, <2>3, <2>4, <2>5 DEF Layout
<1>7. Slots(active', runningTasks', phase')
  <2>1. a = {j \in Jobs : ph[j] \in InSlot} /\ r = Cardinality(a)
    BY DEF Slots
  <2>2. active' = {j \in Jobs : phase'[j] \in InSlot}
    BY <1>3, <1>5, <2>1 DEF InSlot
  <2>3. a \cap taken = {}
    BY <1>5, <2>1 DEF InSlot
  <2>4. IsFiniteSet(a) /\ IsFiniteSet(taken)
    BY <1>5, <2>1, JobsFinite
  <2>5. Cardinality(taken) = n
    <3>1. b + 1 \in Int /\ b + n \in Int
      BY <1>1, <1>2
    <3>2. Cardinality((b + 1)..(b + n)) =
            IF b + 1 > b + n THEN 0 ELSE (b + n) - (b + 1) + 1
      BY <3>1, FS_Interval
    <3> QED
      BY <1>1, <1>2, <1>4, <3>2
  <2>6. Cardinality(a \cup taken) = r + n - 0
    BY <2>1, <2>3, <2>4, <2>5, FS_Union, FS_EmptySet
  <2> QED
    <3>1. runningTasks' = Cardinality(active')
      BY <1>1, <1>2, <1>3, <2>6
    <3> QED
      BY <1>1, <1>2, <1>3, <2>2, <3>1, SMTT(20) DEF Slots
<1>8. call' \in [Callers \cup {Owner} -> Answers]
  BY DEF Process, Emit, Answers
<1>9. \A j \in Jobs : phase'[j] = ph[j] \/
        /\ phase'[j] = "launched"
        /\ ph[j] = "enqueued"
  BY <1>3, <1>5
<1> QED
  BY <1>3, <1>6, <1>7, <1>8, <1>9 DEF n

\* enqueue() adds the next job at the end of the line.
LEMMA AppendKeeps ==
  ASSUME NEW p \in Nat, p + 1 \in Jobs, NEW w, NEW ph, NEW a, NEW r,
         Layout(p, w, ph), Slots(a, r, ph)
  PROVE  LET ph1 == [ph EXCEPT ![p + 1] = "enqueued"]
         IN  /\ Layout(p + 1, Append(w, p + 1), ph1)
             /\ Slots(a, r, ph1)
<1> DEFINE ph1 == [ph EXCEPT ![p + 1] = "enqueued"]
           w1  == Append(w, p + 1)
<1>1. /\ w \in Seq(Jobs) /\ ph \in [Jobs -> Phases] /\ Len(w) \in Nat
      /\ Len(w) <= p
  BY DEF Layout
<1>2. /\ w1 \in Seq(Jobs) /\ Len(w1) = Len(w) + 1
      /\ \A i \in 1..Len(w) : w1[i] = w[i]
      /\ w1[Len(w) + 1] = p + 1
  BY <1>1
<1>3. /\ ph1 \in [Jobs -> Phases] /\ ph1[p + 1] = "enqueued"
      /\ \A j \in Jobs : j # p + 1 => ph1[j] = ph[j]
      /\ ph[p + 1] \notin Begun
  <2>1. ~(p + 1 <= p - Len(w))
    BY <1>1
  <2> QED
    BY <1>1, <2>1 DEF Phases, Layout
<1> HIDE DEF ph1, w1
<1>4. \A i \in 1..Len(w1) : w1[i] = (p + 1) - Len(w1) + i
  <2> SUFFICES ASSUME NEW i \in 1..Len(w1)
               PROVE  w1[i] = (p + 1) - Len(w1) + i
    OBVIOUS
  <2>1. CASE i = Len(w) + 1
    BY <1>1, <1>2, <2>1
  <2>2. CASE i \in 1..Len(w)
    BY <1>1, <1>2, <2>2 DEF Layout
  <2> QED
    BY <1>1, <1>2, <2>1, <2>2
<1>5. (p + 1) - Len(w1) = p - Len(w)
  BY <1>1, <1>2
<1>6. \A j \in Jobs : ph1[j] \in Begun <=> j <= (p + 1) - Len(w1)
  BY <1>1, <1>3, <1>5 DEF Layout, Begun, InSlot, Ended, Jobs
<1>7. \A j \in Jobs : ph1[j] = "enqueued" <=>
                        (p + 1) - Len(w1) < j /\ j <= p + 1
  BY <1>1, <1>3, <1>5 DEF Layout, Jobs
<1>8. Layout(p + 1, w1, ph1)
  BY <1>1, <1>2, <1>3, <1>4, <1>6, <1>7 DEF Layout
<1>9. Slots(a, r, ph1)
  BY <1>3 DEF Slots, Begun, InSlot, Ended
<1> QED
  BY <1>8, <1>9 DEF ph1, w1

\* The end of a job gives its slot back and leaves the line as it is.
LEMMA EndKeeps ==
  ASSUME NEW p \in Nat, NEW w, NEW ph, NEW a, NEW r, NEW j \in Jobs,
         Layout(p, w, ph), Slots(a, r, ph), ph[j] = "running",
         NEW o \in Ended
  PROVE  LET ph1 == [ph EXCEPT ![j] = o]
         IN  /\ Layout(p, w, ph1)
             /\ Slots(a \ {j}, r - 1, ph1)
<1> DEFINE ph1 == [ph EXCEPT ![j] = o]
<1>1. ph \in [Jobs -> Phases] /\ ph1 \in [Jobs -> Phases]
  BY DEF Layout, Phases, Ended
<1>2. \A i \in Jobs : ph1[i] = IF i = j THEN o ELSE ph[i]
  BY <1>1
<1> HIDE DEF ph1
<1>3. Layout(p, w, ph1)
  BY <1>1, <1>2 DEF Layout, Begun, InSlot, Ended
<1>4. a \ {j} = {i \in Jobs : ph1[i] \in InSlot}
  BY <1>2 DEF Slots, InSlot, Ended
<1>5. j \in a /\ IsFiniteSet(a) /\ Cardinality(a) = r /\ r \in Nat
  BY JobsFinite DEF Slots, InSlot
<1>6. Cardinality(a \ {j}) = r - 1 /\ Cardinality(a \ {j}) \in Nat
  BY <1>4, <1>5, JobsFinite, FS_RemoveElement
<1>7. Slots(a \ {j}, r - 1, ph1)
  <2>1. r - 1 <= Concurrent
    BY <1>5, QueueAssumption DEF Slots
  <2> QED
    BY <1>4, <1>6, <2>1 DEF Slots
<1> QED
  BY <1>3, <1>7 DEF ph1

\* The start of a job touches neither.
LEMMA StartKeeps ==
  ASSUME NEW p \in Nat, NEW w, NEW ph, NEW a, NEW r, NEW j \in Jobs,
         Layout(p, w, ph), Slots(a, r, ph), ph[j] = "launched"
  PROVE  LET ph1 == [ph EXCEPT ![j] = "running"]
         IN  Layout(p, w, ph1) /\ Slots(a, r, ph1)
<1> DEFINE ph1 == [ph EXCEPT ![j] = "running"]
<1>1. ph \in [Jobs -> Phases] /\ ph1 \in [Jobs -> Phases]
  BY DEF Layout, Phases
<1>2. \A i \in Jobs : ph1[i] = IF i = j THEN "running" ELSE ph[i]
  BY <1>1
<1> HIDE DEF ph1
<1>3. Layout(p, w, ph1)
  BY <1>1, <1>2 DEF Layout, Begun, InSlot, Ended
<1>4. Slots(a, r, ph1)
  BY <1>2 DEF Slots, InSlot
<1> QED
  BY <1>3, <1>4 DEF ph1

-----------------------------------------------------------------------------
(* The structural invariant *)

LEMMA StructureInit == Init => Structure
<1> SUFFICES ASSUME Init PROVE Structure
  OBVIOUS
<1>1. TypeOK
  <2>1. worker \in Seq(Jobs) /\ active \in SUBSET Jobs /\ stopped \in SUBSET Jobs
    BY DEF Init
  <2>2. pushed + dropped <= MaxJobs
    BY QueueAssumption DEF Init
  <2>3. /\ phase \in [Jobs -> Phases] /\ joined \in [Jobs -> Joins]
        /\ call \in [Callers \cup {Owner} -> Answers]
    BY DEF Init, Phases, Joins, Answers
  <2> QED
    BY <2>1, <2>2, <2>3 DEF Init, TypeOK, Stages
<1>2. Layout(pushed, worker, phase)
  BY DEF Init, Layout, Phases, Begun, InSlot, Ended, Jobs
<1>3. Slots(active, runningTasks, phase)
  BY QueueAssumption, FS_EmptySet DEF Init, Slots, InSlot
<1> QED
  BY <1>1, <1>2, <1>3 DEF Structure, Init

\* TypeOK of what Layout and Slots do not cover.
Scalars ==
  /\ pushed \in Nat /\ dropped \in Nat /\ pushed + dropped <= MaxJobs
  /\ inc \in Nat /\ done \in Nat /\ error \in Nat
  /\ paused \in BOOLEAN /\ listening \in BOOLEAN
  /\ shut \in Stages
  /\ stopped \in SUBSET Jobs
  /\ call \in [Callers \cup {Owner} -> Answers]
  /\ joined \in [Jobs -> Joins]

LEMMA StructureSplit ==
  Structure <=> /\ Scalars
                /\ Layout(pushed, worker, phase)
                /\ Slots(active, runningTasks, phase)
                /\ listening => dropped = 0
  BY DEF Structure, TypeOK, Scalars, Layout, Slots

LEMMA StructureSplitNext ==
  Structure' <=> /\ Scalars'
                 /\ Layout(pushed', worker', phase')
                 /\ Slots(active', runningTasks', phase')
                 /\ listening' => dropped' = 0
  BY DEF Structure, TypeOK, Scalars, Layout, Slots

LEMMA StructurePush == Structure /\ Push => Structure'
<1> SUFFICES ASSUME Structure, Push PROVE Structure'
  OBVIOUS
<1> DEFINE j == pushed + dropped + 1
<1>1. /\ Scalars /\ Layout(pushed, worker, phase)
      /\ Slots(active, runningTasks, phase) /\ (listening => dropped = 0)
  BY StructureSplit
<1>2. pushed \in Nat /\ dropped \in Nat /\ j \in Jobs /\ j <= MaxJobs
  BY <1>1, QueueAssumption DEF Scalars, Push, Jobs
<1>3. CASE listening /\ paused
  <2>1. j = pushed + 1
    BY <1>1, <1>2, <1>3
  <2>2. /\ worker' = Append(worker, pushed + 1)
        /\ phase' = [phase EXCEPT ![pushed + 1] = "enqueued"]
        /\ pushed' = pushed + 1
        /\ UNCHANGED <<dropped, active, runningTasks, call>>
    BY <1>3, <2>1 DEF Push
  <2>3. Layout(pushed', worker', phase') /\ Slots(active', runningTasks', phase')
    BY <1>1, <1>2, <2>1, <2>2, AppendKeeps
  <2>4. Scalars'
    BY <1>1, <1>2, <2>1, <2>2 DEF Scalars, Push, statVars
  <2> QED
    BY <1>1, <2>2, <2>3, <2>4, StructureSplitNext DEF Push
<1>4. CASE listening /\ ~paused
  <2> DEFINE w1  == Append(worker, pushed + 1)
             ph1 == [phase EXCEPT ![pushed + 1] = "enqueued"]
  <2>1. j = pushed + 1
    BY <1>1, <1>2, <1>4
  <2>2. Layout(pushed + 1, w1, ph1) /\ Slots(active, runningTasks, ph1)
    BY <1>1, <1>2, <2>1, AppendKeeps
  <2>3. /\ Process(w1, ph1, active, runningTasks, 1)
        /\ pushed' = pushed + 1 /\ UNCHANGED dropped
    BY <1>4, <2>1 DEF Push
  <2>4. pushed + 1 \in 0..MaxJobs /\ 1 \in Nat
    BY <1>2, <2>1, QueueAssumption
  <2>5. call \in [Callers \cup {Owner} -> Answers]
    BY <1>1 DEF Scalars
  <2> HIDE DEF w1, ph1
  <2>6. /\ Layout(pushed', worker', phase')
        /\ Slots(active', runningTasks', phase')
        /\ call' \in [Callers \cup {Owner} -> Answers]
    BY <2>2, <2>3, <2>4, <2>5, ProcessKeeps
  <2>7. Scalars'
    BY <1>1, <1>2, <2>1, <2>3, <2>6 DEF Scalars, Push, statVars
  <2> QED
    BY <1>1, <2>3, <2>6, <2>7, StructureSplitNext DEF Push
<1>5. CASE ~listening
  <2>1. /\ dropped' = dropped + 1
        /\ phase' = [phase EXCEPT ![j] = "lost"]
        /\ UNCHANGED <<pushed, worker, active, runningTasks, call, listening>>
    BY <1>5 DEF Push
  <2>2. phase \in [Jobs -> Phases] /\ Len(worker) \in Nat
    BY <1>1 DEF Layout
  <2>3. phase[j] \notin Begun /\ phase[j] # "enqueued"
    <3>1. ~(j <= pushed) /\ ~(j <= pushed - Len(worker))
      BY <1>2, <2>2
    <3> QED
      BY <1>1, <1>2, <3>1 DEF Layout
  <2>4. Layout(pushed, worker, phase')
    BY <1>1, <1>2, <2>1, <2>2, <2>3 DEF Layout, Begun, InSlot, Ended, Phases
  <2>5. Slots(active, runningTasks, phase')
    BY <1>1, <1>2, <2>1, <2>2, <2>3 DEF Slots, Begun, InSlot, Ended
  <2>6. Scalars'
    BY <1>1, <1>2, <2>1 DEF Scalars, Push, statVars
  <2> QED
    BY <1>5, <2>1, <2>4, <2>5, <2>6, StructureSplitNext
<1> QED
  BY <1>1, <1>3, <1>4, <1>5 DEF Scalars

LEMMA StructureResume == Structure /\ Resume => Structure'
<1> SUFFICES ASSUME Structure, Resume PROVE Structure'
  OBVIOUS
<1>1. /\ Scalars /\ Layout(pushed, worker, phase)
      /\ Slots(active, runningTasks, phase) /\ (listening => dropped = 0)
  BY StructureSplit
<1>2. /\ pushed \in 0..MaxJobs /\ Concurrent \in Nat
      /\ call \in [Callers \cup {Owner} -> Answers]
  BY <1>1, QueueAssumption DEF Scalars
<1>3. /\ Layout(pushed, worker', phase')
      /\ Slots(active', runningTasks', phase')
      /\ call' \in [Callers \cup {Owner} -> Answers]
  <2>1. CASE Process(worker, phase, active, runningTasks, ResumeFires)
    BY <1>1, <1>2, <2>1, ProcessKeeps
  <2>2. CASE UNCHANGED <<worker, active, runningTasks, phase, call>>
    BY <1>1, <1>2, <2>2
  <2> QED
    BY <2>1, <2>2 DEF Resume
<1>4. Scalars'
  BY <1>1, <1>3 DEF Scalars, Resume, statVars
<1> QED
  BY <1>1, <1>3, <1>4, StructureSplitNext DEF Resume

LEMMA StructureStart ==
  ASSUME Structure, NEW j \in Jobs, Start(j)
  PROVE  Structure'
<1>1. /\ Scalars /\ Layout(pushed, worker, phase)
      /\ Slots(active, runningTasks, phase) /\ (listening => dropped = 0)
  BY StructureSplit
<1>2. Layout(pushed, worker, phase') /\ Slots(active, runningTasks, phase')
  BY <1>1, StartKeeps DEF Start, Scalars
<1>3. Scalars'
  BY <1>1 DEF Scalars, Start
<1> QED
  BY <1>1, <1>2, <1>3, StructureSplitNext DEF Start

LEMMA StructureFinish ==
  ASSUME Structure, NEW j \in Jobs, Finish(j)
  PROVE  Structure'
<1>1. /\ Scalars /\ Layout(pushed, worker, phase)
      /\ Slots(active, runningTasks, phase) /\ (listening => dropped = 0)
  BY StructureSplit
<1>2. /\ pushed \in 0..MaxJobs /\ pushed \in Nat /\ phase[j] = "running"
      /\ call \in [Callers \cup {Owner} -> Answers]
  BY <1>1, QueueAssumption DEF Scalars, Finish
<1>3. PICK o \in Ended : Advance([phase EXCEPT ![j] = o], active \ {j})
  BY DEF Finish, Ended
<1> DEFINE ph1 == [phase EXCEPT ![j] = o]
<1>4. Layout(pushed, worker, ph1) /\ Slots(active \ {j}, runningTasks - 1, ph1)
  BY <1>1, <1>2, EndKeeps
<1> HIDE DEF ph1
<1>5. /\ Layout(pushed, worker', phase')
      /\ Slots(active', runningTasks', phase')
      /\ call' \in [Callers \cup {Owner} -> Answers]
  <2>1. CASE Process(worker, ph1, active \ {j}, runningTasks - 1, 1)
    BY <1>2, <1>4, <2>1, ProcessKeeps
  <2>2. CASE /\ phase' = ph1 /\ active' = active \ {j}
             /\ runningTasks' = runningTasks - 1 /\ UNCHANGED worker
             /\ call' \in {call, Emit("pause")}
    BY <1>2, <1>4, <2>2 DEF Emit, Answers
  <2> QED
    BY <1>3, <2>1, <2>2 DEF Advance, Fires, NoRunningJobs, ph1
<1>6. done' \in Nat /\ error' \in Nat
  BY <1>1 DEF Finish, Scalars
<1>7. joined' \in [Jobs -> Joins]
  BY <1>1 DEF Finish, Scalars, Joins
<1>8. Scalars'
  BY <1>1, <1>5, <1>6, <1>7 DEF Scalars, Finish
<1> QED
  BY <1>1, <1>5, <1>8, StructureSplitNext DEF Finish

\* The other actions only touch promises, the pause and the listeners.
LEMMA StructureFrame ==
  ASSUME Structure, UNCHANGED <<queueVars, statVars>>,
         paused' \in BOOLEAN, shut' \in Stages, stopped' \in SUBSET Jobs,
         listening' \in BOOLEAN, listening' => listening,
         call' \in [Callers \cup {Owner} -> Answers],
         joined' \in [Jobs -> Joins]
  PROVE  Structure'
  BY StructureSplit, StructureSplitNext DEF Scalars, queueVars, statVars

LEMMA StructureStep == Structure /\ [Next]_vars => Structure'
<1> SUFFICES ASSUME Structure, [Next]_vars PROVE Structure'
  OBVIOUS
<1> USE DEF Answers, Stages, Joins
<1>1. /\ paused \in BOOLEAN /\ listening \in BOOLEAN /\ shut \in Stages
      /\ stopped \in SUBSET Jobs
      /\ call \in [Callers \cup {Owner} -> Answers]
      /\ joined \in [Jobs -> Joins]
      /\ worker \in Seq(Jobs)
  BY DEF Structure, TypeOK
<1>2. CASE Push
  BY <1>2, StructurePush
<1>3. ASSUME NEW c \in Callers, Await(c)
      PROVE  Structure'
  BY <1>1, <1>3, StructureFrame DEF Await, AwaitAnswer
<1>4. ASSUME NEW c \in Callers, Pause(c)
      PROVE  Structure'
  BY <1>1, <1>4, StructureFrame DEF Pause, PauseAnswer
<1>5. CASE Resume
  BY <1>5, StructureResume
<1>6. ASSUME NEW j \in Jobs, Join(j)
      PROVE  Structure'
  BY <1>1, <1>6, StructureFrame DEF Join, JoinAnswer
<1>7. ASSUME NEW j \in Jobs, Start(j)
      PROVE  Structure'
  BY <1>7, StructureStart
<1>8. ASSUME NEW j \in Jobs, Finish(j)
      PROVE  Structure'
  BY <1>8, StructureFinish
<1>9. CASE Detach
  BY <1>1, <1>9, StructureFrame DEF Detach
<1>10. ASSUME NEW doAwait \in BOOLEAN, ShutdownBegin(doAwait)
       PROVE  Structure'
  BY <1>1, <1>10, StructureFrame
     DEF ShutdownBegin, ShutdownPauses, AwaitAnswer, PauseAnswer
<1>11. CASE ShutdownPause
  BY <1>1, <1>11, StructureFrame DEF ShutdownPause, ShutdownPauses, PauseAnswer
<1>12. CASE ShutdownFinish
  <2>1. worker # <<>> => worker[1] \in Jobs
    BY <1>1
  <2>2. active \in SUBSET Jobs
    BY DEF Structure, TypeOK
  <2>3. stopped' \in SUBSET Jobs
    BY <1>1, <1>12, <2>1, <2>2 DEF ShutdownFinish
  <2>4. /\ call' \in [Callers \cup {Owner} -> Answers]
        /\ joined' \in [Jobs -> Joins]
    BY <1>1, <1>12 DEF ShutdownFinish
  <2>5. /\ shut' \in Stages /\ listening' \in BOOLEAN
        /\ listening' => listening
    <3>1. \/ listening' = FALSE /\ shut' = "closed"
          \/ listening' = listening /\ shut' = "failed"
      BY <1>12, Zenon DEF ShutdownFinish
    <3>2. listening \in BOOLEAN
      BY <1>1
    <3>3. shut' \in Stages
      BY <3>1
    <3>4. listening' \in BOOLEAN
      BY <3>1, <3>2, Zenon
    <3>5. listening' => listening
      BY <3>1, Zenon
    <3> QED
      BY <3>3, <3>4, <3>5
  <2>6. UNCHANGED <<queueVars, statVars, paused>>
    BY <1>12 DEF ShutdownFinish
  <2> QED
    BY <1>1, <2>3, <2>4, <2>5, <2>6, StructureFrame
<1>13. CASE UNCHANGED vars
  BY <1>1, <1>13, StructureFrame DEF vars, queueVars, statVars
<1> QED
  BY <1>2, <1>3, <1>4, <1>5, <1>6, <1>7, <1>8, <1>9, <1>10, <1>11, <1>12,
     <1>13 DEF Next

LEMMA StructureInvariant == Spec => []Structure
  BY StructureInit, StructureStep, PTL DEF Spec

-----------------------------------------------------------------------------
(* Theorems about the slots and the line *)

\* Every variable keeps its type: the counters stay natural numbers although
\* next() decrements runningTasks unconditionally.
THEOREM TypeCorrect == Spec => []TypeOK
<1>1. Structure => TypeOK
  BY DEF Structure
<1> QED
  BY <1>1, StructureInvariant, PTL

\* For any number of jobs, slots and callers, runningTasks is the number of
\* jobs that hold a slot and never exceeds options.concurrent.
THEOREM SlotsAlwaysAccounted == Spec => []SlotsAccounted
<1>1. Structure => SlotsAccounted
  BY DEF Structure, Slots, SlotsAccounted
<1> QED
  BY <1>1, StructureInvariant, PTL

\* The array of waiting jobs is always, in order, the tail of the accepted
\* ones: none is lost, doubled or overtaken.
THEOREM LineAlwaysInOrder == Spec => []WaitingInOrder
<1>1. Structure => WaitingInOrder
  <2> SUFFICES ASSUME Structure PROVE WaitingInOrder
    OBVIOUS
  <2> DEFINE tail == [i \in 1..Len(worker) |-> pushed - Len(worker) + i]
  <2>1. /\ worker \in Seq(Jobs) /\ Len(worker) \in Nat
        /\ \A i \in 1..Len(worker) : worker[i] = pushed - Len(worker) + i
    BY DEF Structure, Layout
  <2>2. worker = [i \in 1..Len(worker) |-> worker[i]]
    BY <2>1
  <2> QED
    BY <2>1, <2>2 DEF WaitingInOrder
<1> QED
  BY <1>1, StructureInvariant, PTL

-----------------------------------------------------------------------------
(* Waiting jobs and waiting callers *)

\* Nothing puts the listeners or the processor back.
LEMMA StaysDetached ==
  ASSUME Structure, [Next]_vars, Attached'
  PROVE  Attached
<1> USE DEF Attached, Serving
<1>1. listening \in BOOLEAN /\ shut \in Stages
  BY DEF Structure, TypeOK
<1>2. CASE Push
  BY <1>2 DEF Push
<1>3. ASSUME NEW c \in Callers, Await(c) \/ Pause(c)
      PROVE  Attached
  BY <1>3 DEF Await, Pause
<1>4. CASE Resume
  BY <1>4 DEF Resume
<1>5. ASSUME NEW j \in Jobs, Join(j) \/ Start(j) \/ Finish(j)
      PROVE  Attached
  BY <1>5 DEF Join, JoinAnswer, Start, Finish
<1>6. CASE Detach
  BY <1>6 DEF Detach
<1>7. ASSUME NEW doAwait \in BOOLEAN, ShutdownBegin(doAwait)
      PROVE  Attached
  BY <1>7 DEF ShutdownBegin
<1>8. CASE ShutdownPause
  BY <1>8 DEF ShutdownPause
<1>9. CASE ShutdownFinish
  BY <1>9, Zenon DEF ShutdownFinish
<1>10. CASE UNCHANGED vars
  BY <1>10 DEF vars
<1> QED
  BY <1>2, <1>3, <1>4, <1>5, <1>6, <1>7, <1>8, <1>9, <1>10 DEF Next

\* What a step may do to the line, the slots, the pause and the promises of a
\* queue that is attached before and after it.
Quiet ==
  /\ UNCHANGED <<worker, active, runningTasks, pushed>>
  /\ paused' = paused \/ paused'
  /\ \A c \in Callers \cup {Owner} :
       call'[c] = "await" => call[c] = "await" \/ amount > 0

Admits(w, r, fires) ==
  /\ runningTasks' = r + Room(Len(w), r, fires)
  /\ Len(worker') = Len(w) - Room(Len(w), r, fires)
  /\ call' = IF Drains(Len(w), r) THEN Emit("await") ELSE call

PushAdmits ==
  ~paused /\ paused' = paused /\ Admits(Append(worker, pushed + 1), runningTasks, 1)

ResumeAdmits == ~paused' /\ Admits(worker, runningTasks, Concurrent)

EndAdmits ==
  /\ ~paused /\ paused' = paused /\ runningTasks > 0
  /\ Admits(worker, runningTasks - 1, 1)

PausedEnd ==
  paused /\ paused' = paused /\ worker' = worker /\ call' \in {call, Emit("pause")}

PausedPush ==
  paused /\ paused' = paused /\ runningTasks' = runningTasks /\ call' = call

AttachedStep ==
  Quiet \/ PushAdmits \/ ResumeAdmits \/ EndAdmits \/ PausedEnd \/ PausedPush

LEMMA AttachedSteps ==
  ASSUME Structure, [Next]_vars, Attached'
  PROVE  AttachedStep
<1>1. /\ Scalars /\ Layout(pushed, worker, phase)
      /\ Slots(active, runningTasks, phase) /\ (listening => dropped = 0)
  BY StructureSplit
<1>2. Attached /\ listening /\ Serving /\ dropped = 0
  BY <1>1, StaysDetached DEF Attached
<1>3. /\ call \in [Callers \cup {Owner} -> Answers]
      /\ pushed \in 0..MaxJobs /\ pushed \in Nat /\ paused \in BOOLEAN
      /\ Concurrent \in Nat /\ 1 \in Nat
  BY <1>1, QueueAssumption DEF Scalars
<1>4. CASE Push
  <2>1. pushed + dropped + 1 = pushed + 1 /\ pushed + 1 \in Jobs
    BY <1>2, <1>3, <1>4, QueueAssumption DEF Push, Jobs
  <2>2. CASE paused
    BY <1>2, <1>4, <2>2 DEF Push, AttachedStep, PausedPush
  <2>3. CASE ~paused
    <3> DEFINE w1  == Append(worker, pushed + 1)
               ph1 == [phase EXCEPT ![pushed + 1] = "enqueued"]
    <3>1. Process(w1, ph1, active, runningTasks, 1) /\ paused' = paused
      BY <1>2, <1>4, <2>1, <2>3 DEF Push
    <3>2. Layout(pushed + 1, w1, ph1) /\ Slots(active, runningTasks, ph1)
      BY <1>1, <1>3, <2>1, AppendKeeps
    <3>3. pushed + 1 \in 0..MaxJobs
      BY <1>3, <2>1, QueueAssumption DEF Jobs
    <3> HIDE DEF w1, ph1
    <3>4. /\ runningTasks' = runningTasks + Room(Len(w1), runningTasks, 1)
          /\ Len(worker') = Len(w1) - Room(Len(w1), runningTasks, 1)
      BY <1>3, <3>1, <3>2, <3>3, ProcessKeeps
    <3>5. Admits(w1, runningTasks, 1)
      BY <1>2, <3>1, <3>4 DEF Admits, Process
    <3> QED
      BY <2>3, <3>1, <3>5 DEF w1, AttachedStep, PushAdmits
  <2> QED
    BY <2>2, <2>3
<1>5. ASSUME NEW c \in Callers, Await(c)
      PROVE  AttachedStep
  <2>1. Quiet
    BY <1>3, <1>5 DEF Await, AwaitAnswer, Quiet, queueVars
  <2> QED
    BY <2>1 DEF AttachedStep
<1>6. ASSUME NEW c \in Callers, Pause(c)
      PROVE  AttachedStep
  <2>1. Quiet
    BY <1>3, <1>6 DEF Pause, PauseAnswer, Quiet, queueVars
  <2> QED
    BY <2>1 DEF AttachedStep
<1>7. CASE Resume
  <2>1. ~paused' /\ Process(worker, phase, active, runningTasks, ResumeFires)
    BY <1>2, <1>7 DEF Resume
  <2>2. /\ runningTasks' = runningTasks +
                             Room(Len(worker), runningTasks, Concurrent)
        /\ Len(worker') = Len(worker) -
                             Room(Len(worker), runningTasks, Concurrent)
    BY <1>1, <1>3, <2>1, ProcessKeeps
  <2>3. Admits(worker, runningTasks, Concurrent)
    BY <1>2, <2>1, <2>2 DEF Admits, Process
  <2> QED
    BY <2>1, <2>3 DEF AttachedStep, ResumeAdmits
<1>8. ASSUME NEW j \in Jobs, Join(j)
      PROVE  AttachedStep
  <2>1. Quiet
    BY <1>8 DEF Join, JoinAnswer, Quiet, queueVars
  <2> QED
    BY <2>1 DEF AttachedStep
<1>9. ASSUME NEW j \in Jobs, Start(j)
      PROVE  AttachedStep
  <2>1. Quiet
    BY <1>9 DEF Start, Quiet
  <2> QED
    BY <2>1 DEF AttachedStep
<1>10. ASSUME NEW j \in Jobs, Finish(j)
       PROVE  AttachedStep
  <2>1. PICK o \in Ended : Advance([phase EXCEPT ![j] = o], active \ {j})
    BY <1>10 DEF Finish, Ended
  <2> DEFINE ph1 == [phase EXCEPT ![j] = o]
  <2>2. phase[j] = "running" /\ paused' = paused
    BY <1>10 DEF Finish
  <2>3. Layout(pushed, worker, ph1) /\ Slots(active \ {j}, runningTasks - 1, ph1)
    BY <1>1, <1>3, <2>2, EndKeeps
  <2>4. runningTasks > 0
    BY <1>1, <2>3 DEF Slots
  <2>5. CASE paused
    BY <1>2, <2>1, <2>2, <2>5 DEF Advance, Fires, NoRunningJobs, AttachedStep, PausedEnd
  <2>6. CASE ~paused
    <3>1. Process(worker, ph1, active \ {j}, runningTasks - 1, 1)
      BY <1>2, <2>1, <2>6 DEF Advance, Fires, NoRunningJobs
    <3> HIDE DEF ph1
    <3>2. /\ runningTasks' = runningTasks - 1 +
                               Room(Len(worker), runningTasks - 1, 1)
          /\ Len(worker') = Len(worker) -
                               Room(Len(worker), runningTasks - 1, 1)
      BY <1>3, <2>3, <3>1, ProcessKeeps
    <3>3. Admits(worker, runningTasks - 1, 1)
      BY <1>2, <3>1, <3>2 DEF Admits, Process
    <3> QED
      BY <2>2, <2>4, <2>6, <3>3 DEF AttachedStep, EndAdmits
  <2> QED
    BY <2>5, <2>6
<1>11. CASE Detach
  BY <1>11 DEF Detach, Attached
<1>12. ASSUME NEW doAwait \in BOOLEAN, ShutdownBegin(doAwait)
       PROVE  AttachedStep
  <2>1. Quiet
    BY <1>3, <1>12
       DEF ShutdownBegin, ShutdownPauses, AwaitAnswer, PauseAnswer, Quiet,
           queueVars
  <2> QED
    BY <2>1 DEF AttachedStep
<1>13. CASE ShutdownPause
  <2>1. Quiet
    BY <1>3, <1>13
       DEF ShutdownPause, ShutdownPauses, PauseAnswer, Quiet, queueVars
  <2> QED
    BY <2>1 DEF AttachedStep
<1>14. CASE ShutdownFinish
  <2>1. shut' \in {"closed", "failed"}
    BY <1>14, Zenon DEF ShutdownFinish
  <2> QED
    BY <2>1 DEF Attached, Serving
<1>15. CASE UNCHANGED vars
  <2>1. Quiet
    BY <1>15 DEF vars, Quiet
  <2> QED
    BY <2>1 DEF AttachedStep
<1> QED
  BY <1>4, <1>5, <1>6, <1>7, <1>8, <1>9, <1>10, <1>11, <1>12, <1>13, <1>14,
     <1>15 DEF Next

LEMMA WorkConservingStep ==
  ASSUME Structure, WorkConserving, [Next]_vars
  PROVE  WorkConserving'
<1> SUFFICES ASSUME Attached', ~paused', worker' # <<>>
             PROVE  runningTasks' = Concurrent
  BY DEF WorkConserving
<1>1. /\ Attached /\ AttachedStep
      /\ paused \in BOOLEAN /\ runningTasks \in Nat /\ Concurrent \in Nat
      /\ runningTasks <= Concurrent /\ Concurrent > 0
      /\ worker \in Seq(Jobs) /\ worker' \in Seq(Jobs) /\ pushed + 1 \in Nat
  BY StaysDetached, AttachedSteps, StructureStep, QueueAssumption
     DEF Structure, TypeOK, Slots
<1>2. ~paused /\ worker # <<>> => runningTasks = Concurrent
  BY <1>1 DEF WorkConserving
<1>3. Len(worker') > 0 /\ (worker # <<>> => Len(worker) > 0) /\ Len(worker) \in Nat
  BY <1>1
<1>4. CASE Quiet
  BY <1>2, <1>4 DEF Quiet
<1>5. CASE PushAdmits
  <2> DEFINE w1 == Append(worker, pushed + 1)
  <2>1. Len(w1) = Len(worker) + 1 /\ Len(w1) \in Nat
    BY <1>1
  <2>2. Len(w1) <= 1 \/ runningTasks = Concurrent
    <3>1. CASE worker = <<>>
      BY <2>1, <3>1
    <3>2. CASE worker # <<>>
      BY <1>2, <1>5, <3>2 DEF PushAdmits
    <3> QED
      BY <3>1, <3>2
  <2>3. /\ runningTasks' = runningTasks + Room(Len(w1), runningTasks, 1)
        /\ Len(w1) - Room(Len(w1), runningTasks, 1) > 0
    BY <1>3, <1>5 DEF PushAdmits, Admits
  <2>4. 1 >= Len(w1) \/ runningTasks + 1 >= Concurrent
    BY <1>1, <2>1, <2>2
  <2> QED
    BY <1>1, <2>1, <2>3, <2>4, RoomFills
<1>6. CASE ResumeAdmits
  <2>1. /\ runningTasks' = runningTasks +
                             Room(Len(worker), runningTasks, Concurrent)
        /\ Len(worker) - Room(Len(worker), runningTasks, Concurrent) > 0
    BY <1>3, <1>6 DEF ResumeAdmits, Admits
  <2>2. runningTasks + Concurrent >= Concurrent
    BY <1>1
  <2> QED
    BY <1>1, <1>3, <2>1, <2>2, RoomFills
<1>7. CASE EndAdmits
  <2> DEFINE r == runningTasks - 1
  <2>1. r \in Nat /\ r <= Concurrent /\ ~paused
    BY <1>1, <1>7 DEF EndAdmits
  <2>2. /\ runningTasks' = r + Room(Len(worker), r, 1)
        /\ Len(worker) - Room(Len(worker), r, 1) > 0
    BY <1>3, <1>7 DEF EndAdmits, Admits
  <2>3. 1 >= Len(worker) \/ r + 1 >= Concurrent
    <3>1. CASE worker = <<>>
      BY <3>1
    <3>2. CASE worker # <<>>
      BY <1>1, <1>2, <2>1, <3>2
    <3> QED
      BY <3>1, <3>2
  <2> HIDE DEF r
  <2> QED
    BY <1>3, <2>1, <2>2, <2>3, RoomFills
<1>8. CASE PausedEnd \/ PausedPush
  BY <1>8 DEF PausedEnd, PausedPush
<1> QED
  BY <1>1, <1>4, <1>5, <1>6, <1>7, <1>8 DEF AttachedStep

\* Neither pushes, pauses and resumes nor the ends of jobs, in any order, leave
\* a slot free while a job waits.
THEOREM AlwaysWorkConserving == Spec => []WorkConserving
<1>1. Init => WorkConserving
  BY DEF Init, WorkConserving
<1> QED
  BY <1>1, WorkConservingStep, StructureInvariant, PTL DEF Spec

LEMMA NoStrandedAwaitStep ==
  ASSUME Structure, NoStrandedAwait, [Next]_vars
  PROVE  NoStrandedAwait'
<1>1. /\ DOMAIN call = Callers \cup {Owner}
      /\ DOMAIN call' = Callers \cup {Owner}
      /\ runningTasks \in Nat /\ runningTasks' \in Nat
      /\ worker \in Seq(Jobs) /\ worker' \in Seq(Jobs)
      /\ paused \in BOOLEAN
  BY StructureStep DEF Structure, TypeOK
<1> SUFFICES ASSUME Attached', ~paused',
                    NEW c \in Callers \cup {Owner}, call'[c] = "await"
             PROVE  amount' > 0
  BY <1>1 DEF NoStrandedAwait
<1>2. Attached /\ AttachedStep
  BY StaysDetached, AttachedSteps
<1>3. ~paused /\ call[c] = "await" => amount > 0
  BY <1>1, <1>2 DEF NoStrandedAwait
<1>4. \A w, r, fires : r + Len(w) = 0 /\ Admits(w, r, fires) => FALSE
  BY <1>1, <1>2 DEF Admits, Emit, Drains, Attached
<1>5. Len(worker) \in Nat /\ Len(worker') \in Nat
  BY <1>1
<1>6. CASE Quiet
  BY <1>3, <1>6 DEF Quiet, amount
<1>7. CASE PushAdmits
  <2> DEFINE w1 == Append(worker, pushed + 1)
             n  == Room(Len(w1), runningTasks, 1)
  <2>1. Len(w1) = Len(worker) + 1
    BY <1>1
  <2>2. n \in Int
    <3>1. runningTasks \in Nat /\ runningTasks <= Concurrent
      BY <1>1 DEF Structure, Slots
    <3>2. Len(w1) \in Nat
      BY <1>5, <2>1
    <3>3. n \in 0..Len(w1)
      BY <3>1, <3>2, RoomFits
    <3> QED
      BY <3>2, <3>3
  <2>3. runningTasks' + Len(worker') = runningTasks + Len(w1)
    BY <1>1, <1>5, <1>7, <2>1, <2>2 DEF PushAdmits, Admits
  <2> QED
    BY <1>1, <1>5, <2>1, <2>3 DEF amount
<1>8. CASE ResumeAdmits
  <2> DEFINE n == Room(Len(worker), runningTasks, Concurrent)
  <2>1. n \in Int
    <3>1. runningTasks \in Nat /\ runningTasks <= Concurrent
      BY <1>1 DEF Structure, Slots
    <3>2. Concurrent \in Nat
      BY QueueAssumption
    <3>3. n \in 0..Len(worker)
      BY <1>5, <3>1, <3>2, RoomFits
    <3> QED
      BY <1>5, <3>3
  <2>2. runningTasks' + Len(worker') = runningTasks + Len(worker)
    BY <1>1, <1>5, <1>8, <2>1 DEF ResumeAdmits, Admits
  <2>3. runningTasks + Len(worker) # 0
    BY <1>4, <1>8 DEF ResumeAdmits
  <2> QED
    BY <1>1, <1>5, <2>2, <2>3 DEF amount
<1>9. CASE EndAdmits
  <2> DEFINE n == Room(Len(worker), runningTasks - 1, 1)
  <2>1. runningTasks - 1 \in Nat /\ runningTasks - 1 <= Concurrent
    BY <1>1, <1>9, QueueAssumption DEF EndAdmits, Structure, Slots
  <2>2. n \in Int
    BY <1>5, <2>1, RoomFits
  <2>3. runningTasks' + Len(worker') = runningTasks - 1 + Len(worker)
    BY <1>1, <1>5, <1>9, <2>1, <2>2 DEF EndAdmits, Admits
  <2>4. runningTasks - 1 + Len(worker) # 0
    BY <1>4, <1>9 DEF EndAdmits
  <2> QED
    BY <1>1, <1>5, <2>1, <2>3, <2>4 DEF amount
<1>10. CASE PausedEnd \/ PausedPush
  BY <1>10 DEF PausedEnd, PausedPush
<1> QED
  BY <1>2, <1>6, <1>7, <1>8, <1>9, <1>10 DEF AttachedStep

\* A caller of await() on a live queue always has an event ahead of it: the
\* drain event is never emitted and consumed before it listens.
THEOREM NeverStrandedAwait == Spec => []NoStrandedAwait
<1>1. Init => NoStrandedAwait
  BY DEF Init, NoStrandedAwait
<1> QED
  BY <1>1, NoStrandedAwaitStep, StructureInvariant, PTL DEF Spec

-----------------------------------------------------------------------------
(* The order of the starts *)

Started == {"running", "done", "failed"}
Held    == {"enqueued", "launched"}

\* A step moves a job that has started only on to another such phase, and
\* takes a job into the line or a slot only from a phase before that.
LEMMA PhaseSteps ==
  ASSUME Structure, [Next]_vars
  PROVE  \/ \E j \in Jobs : Start(j)
         \/ \A j \in Jobs :
              /\ phase'[j] \in Started => phase[j] \in Started
              /\ phase'[j] \in Held => phase[j] \in Held \/ j > pushed
<1> DEFINE Later == \A j \in Jobs :
              /\ phase'[j] \in Started => phase[j] \in Started
              /\ phase'[j] \in Held => phase[j] \in Held \/ j > pushed
<1>1. /\ Scalars /\ Layout(pushed, worker, phase)
      /\ Slots(active, runningTasks, phase) /\ (listening => dropped = 0)
  BY StructureSplit
<1>2. /\ pushed \in Nat /\ dropped \in Nat /\ pushed \in 0..MaxJobs
      /\ call \in [Callers \cup {Owner} -> Answers] /\ Concurrent \in Nat
      /\ phase \in [Jobs -> Phases] /\ 1 \in Nat
  BY <1>1, QueueAssumption DEF Scalars, Layout
<1>3. CASE Push
  <2> DEFINE j == pushed + dropped + 1
  <2>1. j \in Jobs /\ j > pushed
    BY <1>2, <1>3, QueueAssumption DEF Push, Jobs
  <2>2. CASE phase' = [phase EXCEPT ![j] = "enqueued"]
    BY <1>2, <2>1, <2>2 DEF Started, Held
  <2>3. CASE phase' = [phase EXCEPT ![j] = "lost"]
    BY <1>2, <2>1, <2>3 DEF Started, Held
  <2>4. CASE listening /\ ~paused
    <3> DEFINE ph1 == [phase EXCEPT ![pushed + 1] = "enqueued"]
               w1  == Append(worker, pushed + 1)
    <3>1. j = pushed + 1
      BY <1>1, <1>2, <2>4
    <3>2. Process(w1, ph1, active, runningTasks, 1)
      BY <1>3, <2>4, <3>1 DEF Push
    <3>3. Layout(pushed + 1, w1, ph1) /\ Slots(active, runningTasks, ph1)
      BY <1>1, <1>2, <2>1, <3>1, AppendKeeps
    <3>4. pushed + 1 \in 0..MaxJobs
      BY <1>2, <2>1, <3>1, QueueAssumption DEF Jobs
    <3>5. \A i \in Jobs : ph1[i] = IF i = pushed + 1 THEN "enqueued" ELSE phase[i]
      BY <1>2
    <3> HIDE DEF ph1, w1
    <3>6. \A i \in Jobs : phase'[i] = ph1[i] \/
            /\ phase'[i] = "launched"
            /\ ph1[i] = "enqueued"
      BY <1>2, <3>2, <3>3, <3>4, ProcessKeeps
    <3> QED
      BY <1>2, <3>5, <3>6 DEF Started, Held
  <2> QED
    BY <1>3, <2>2, <2>3, <2>4 DEF Push
<1>4. CASE Resume
  <2>1. CASE Process(worker, phase, active, runningTasks, ResumeFires)
    <3>1. \A i \in Jobs : phase'[i] = phase[i] \/
            /\ phase'[i] = "launched"
            /\ phase[i] = "enqueued"
      BY <1>1, <1>2, <2>1, ProcessKeeps
    <3> QED
      BY <3>1 DEF Started, Held
  <2>2. CASE UNCHANGED phase
    BY <2>2
  <2> QED
    BY <1>4, <2>1, <2>2 DEF Resume
<1>5. ASSUME NEW j \in Jobs, Finish(j)
      PROVE  Later
  <2>1. PICK o \in Ended : Advance([phase EXCEPT ![j] = o], active \ {j})
    BY <1>5 DEF Finish, Ended
  <2> DEFINE ph1 == [phase EXCEPT ![j] = o]
  <2>2. phase[j] = "running"
    BY <1>5 DEF Finish
  <2>3. Layout(pushed, worker, ph1) /\ Slots(active \ {j}, runningTasks - 1, ph1)
    BY <1>1, <1>2, <2>2, EndKeeps
  <2>4. \A i \in Jobs : ph1[i] = IF i = j THEN o ELSE phase[i]
    BY <1>2
  <2> HIDE DEF ph1
  <2>5. \A i \in Jobs : phase'[i] = ph1[i] \/
          /\ phase'[i] = "launched"
          /\ ph1[i] = "enqueued"
    <3>1. CASE Process(worker, ph1, active \ {j}, runningTasks - 1, 1)
      BY <1>2, <2>3, <3>1, ProcessKeeps
    <3>2. CASE phase' = ph1
      BY <3>2
    <3> QED
      BY <2>1, <3>1, <3>2 DEF Advance, Fires, NoRunningJobs, ph1
  <2> QED
    BY <2>2, <2>4, <2>5 DEF Started, Held, Ended
<1>6. CASE UNCHANGED phase
  BY <1>6
<1> QED
  BY <1>3, <1>4, <1>5, <1>6
     DEF Next, vars, queueVars, Await, Pause, Join, Detach, ShutdownBegin,
         ShutdownPause, ShutdownFinish

LEMMA StartsInPushOrderStep ==
  ASSUME Structure, StartsInPushOrder, [Next]_vars
  PROVE  StartsInPushOrder'
<1>1. /\ Layout(pushed, worker, phase) /\ phase \in [Jobs -> Phases]
      /\ pushed \in Nat /\ Len(worker) \in Nat
  BY DEF Structure, TypeOK
<1>2. ASSUME NEW k \in Jobs, phase[k] \in Begun, NEW j \in Jobs, j <= k
      PROVE  j <= pushed /\ phase[j] \in Begun
  <2>1. k <= pushed - Len(worker) /\ j \in Int /\ k \in Int
    BY <1>1, <1>2 DEF Layout, Jobs
  <2> QED
    BY <1>1, <1>2, <2>1 DEF Layout
<1> SUFFICES ASSUME NEW j \in Jobs, NEW k \in Jobs, j < k,
                    phase'[k] \in Started
             PROVE  phase'[j] \notin Held
  BY DEF StartsInPushOrder, Started, Held
<1>3. CASE \E i \in Jobs : Start(i)
  <2>1. PICK i \in Jobs : Start(i)
    BY <1>3
  <2>2. /\ phase[i] = "launched"
        /\ \A m \in Jobs : m < i => phase[m] # "launched"
        /\ phase' = [phase EXCEPT ![i] = "running"]
    BY <2>1 DEF Start, NextToStart
  <2>3. CASE k = i
    <3>1. phase[j] \in Begun
      BY <1>2, <2>2, <2>3 DEF Begun, InSlot, Jobs
    <3> QED
      BY <1>1, <2>2, <2>3, <3>1 DEF Begun, InSlot, Ended, Held, Jobs
  <2>4. CASE k # i
    <3>1. phase[k] \in Started
      BY <1>1, <2>2, <2>4
    <3>2. phase[j] \notin Held
      BY <3>1 DEF StartsInPushOrder, Started, Held
    <3> QED
      BY <1>1, <2>2, <3>2 DEF Held
  <2> QED
    BY <2>3, <2>4
<1>4. CASE \A i \in Jobs :
              /\ phase'[i] \in Started => phase[i] \in Started
              /\ phase'[i] \in Held => phase[i] \in Held \/ i > pushed
  <2>1. phase[k] \in Started
    BY <1>4
  <2>2. phase[j] \notin Held
    BY <2>1 DEF StartsInPushOrder, Started, Held
  <2>3. j <= pushed /\ j \in Int
    BY <1>2, <2>1 DEF Started, Begun, InSlot, Ended, Jobs
  <2> QED
    BY <1>1, <1>4, <2>2, <2>3
<1> QED
  BY <1>3, <1>4, PhaseSteps

\* Jobs reach the processor in the order of the pushes, for any number of
\* slots and however the promise chains interleave.
THEOREM AlwaysStartsInPushOrder == Spec => []StartsInPushOrder
<1>1. Init => StartsInPushOrder
  BY DEF Init, StartsInPushOrder
<1> QED
  BY <1>1, StartsInPushOrderStep, StructureInvariant, PTL DEF Spec

-----------------------------------------------------------------------------
(* What a shutdown leaves *)

\* The jobs that have reached the processor, and those whose promise has settled.
StartedOf(ph) == {j \in Jobs : ph[j] \in Started}
EndedOf(ph)   == {j \in Jobs : ph[j] \in Ended}

\* The statistics count these jobs.
Counted ==
  /\ inc = Cardinality(StartedOf(phase))
  /\ done + error = Cardinality(EndedOf(phase))

\* Nothing waits in a closed queue, nothing runs, and nothing comes.
ClosedIsEmpty == shut = "closed" => worker = <<>> /\ active = {} /\ ~listening

\* Phases that process() hands out count for neither.
LEMMA LaunchesUncounted ==
  ASSUME NEW ph, NEW ph1,
         \A i \in Jobs : ph1[i] = ph[i] \/
           /\ ph1[i] = "launched"
           /\ ph[i] = "enqueued"
  PROVE  StartedOf(ph1) = StartedOf(ph) /\ EndedOf(ph1) = EndedOf(ph)
  BY DEF StartedOf, EndedOf, Started, Ended

\* A step starts a job, ends one, or does neither.
LEMMA CountSteps ==
  ASSUME Structure, [Next]_vars
  PROVE  \/ \E j \in Jobs : Start(j)
         \/ \E j \in Jobs :
              /\ Finish(j)
              /\ StartedOf(phase') = StartedOf(phase)
              /\ EndedOf(phase') = EndedOf(phase) \cup {j}
         \/ /\ UNCHANGED statVars
            /\ StartedOf(phase') = StartedOf(phase)
            /\ EndedOf(phase') = EndedOf(phase)
<1> DEFINE Same == /\ StartedOf(phase') = StartedOf(phase)
                   /\ EndedOf(phase') = EndedOf(phase)
<1>1. /\ Scalars /\ Layout(pushed, worker, phase)
      /\ Slots(active, runningTasks, phase) /\ (listening => dropped = 0)
  BY StructureSplit
<1>2. /\ pushed \in Nat /\ dropped \in Nat /\ pushed \in 0..MaxJobs
      /\ call \in [Callers \cup {Owner} -> Answers] /\ Concurrent \in Nat
      /\ phase \in [Jobs -> Phases] /\ 1 \in Nat
  BY <1>1, QueueAssumption DEF Scalars, Layout
<1>3. ASSUME Push PROVE UNCHANGED statVars /\ Same
  <2> DEFINE j == pushed + dropped + 1
  <2>1. j \in Jobs /\ j > pushed /\ UNCHANGED statVars
    BY <1>2, <1>3, QueueAssumption DEF Push, Jobs
  <2>2. phase[j] \notin Started
    <3>1. Len(worker) \in Nat /\ ~(j <= pushed - Len(worker))
      BY <1>1, <1>2, <2>1 DEF Layout
    <3> QED
      BY <1>1, <2>1, <3>1 DEF Layout, Begun, InSlot, Ended, Started
  <2>3. CASE phase' = [phase EXCEPT ![j] = "enqueued"]
    BY <1>2, <2>1, <2>2, <2>3 DEF StartedOf, EndedOf, Started, Ended
  <2>4. CASE phase' = [phase EXCEPT ![j] = "lost"]
    BY <1>2, <2>1, <2>2, <2>4 DEF StartedOf, EndedOf, Started, Ended
  <2>5. CASE listening /\ ~paused
    <3> DEFINE ph1 == [phase EXCEPT ![pushed + 1] = "enqueued"]
               w1  == Append(worker, pushed + 1)
    <3>1. j = pushed + 1
      BY <1>1, <1>2, <2>5
    <3>2. Process(w1, ph1, active, runningTasks, 1)
      BY <1>3, <2>5, <3>1 DEF Push
    <3>3. Layout(pushed + 1, w1, ph1) /\ Slots(active, runningTasks, ph1)
      BY <1>1, <1>2, <2>1, <3>1, AppendKeeps
    <3>4. pushed + 1 \in 0..MaxJobs
      BY <1>2, <2>1, <3>1, QueueAssumption DEF Jobs
    <3>5. \A i \in Jobs : ph1[i] = IF i = pushed + 1 THEN "enqueued" ELSE phase[i]
      BY <1>2
    <3> HIDE DEF ph1, w1
    <3>6. \A i \in Jobs : phase'[i] = ph1[i] \/
            /\ phase'[i] = "launched"
            /\ ph1[i] = "enqueued"
      BY <1>2, <3>2, <3>3, <3>4, ProcessKeeps
    <3>7. StartedOf(phase') = StartedOf(ph1) /\ EndedOf(phase') = EndedOf(ph1)
      BY <3>6, LaunchesUncounted
    <3>8. StartedOf(ph1) = StartedOf(phase) /\ EndedOf(ph1) = EndedOf(phase)
      BY <2>2, <3>1, <3>5 DEF StartedOf, EndedOf, Started, Ended
    <3> QED
      BY <2>1, <3>7, <3>8
  <2> QED
    BY <1>3, <2>1, <2>3, <2>4, <2>5 DEF Push
<1>4. ASSUME Resume PROVE UNCHANGED statVars /\ Same
  <2>1. CASE Process(worker, phase, active, runningTasks, ResumeFires)
    <3>1. \A i \in Jobs : phase'[i] = phase[i] \/
            /\ phase'[i] = "launched"
            /\ phase[i] = "enqueued"
      BY <1>1, <1>2, <2>1, ProcessKeeps
    <3>2. Same
      BY <3>1, LaunchesUncounted
    <3> QED
      BY <1>4, <3>2 DEF Resume
  <2>2. CASE UNCHANGED phase
    BY <1>4, <2>2 DEF Resume
  <2> QED
    BY <1>4, <2>1, <2>2 DEF Resume
<1>5. ASSUME NEW j \in Jobs, Finish(j)
      PROVE  /\ StartedOf(phase') = StartedOf(phase)
             /\ EndedOf(phase') = EndedOf(phase) \cup {j}
  <2>1. PICK o \in Ended : Advance([phase EXCEPT ![j] = o], active \ {j})
    BY <1>5 DEF Finish, Ended
  <2> DEFINE ph1 == [phase EXCEPT ![j] = o]
  <2>2. phase[j] = "running"
    BY <1>5 DEF Finish
  <2>3. Layout(pushed, worker, ph1) /\ Slots(active \ {j}, runningTasks - 1, ph1)
    BY <1>1, <1>2, <2>2, EndKeeps
  <2>4. \A i \in Jobs : ph1[i] = IF i = j THEN o ELSE phase[i]
    BY <1>2
  <2> HIDE DEF ph1
  <2>5. \A i \in Jobs : phase'[i] = ph1[i] \/
          /\ phase'[i] = "launched"
          /\ ph1[i] = "enqueued"
    <3>1. CASE Process(worker, ph1, active \ {j}, runningTasks - 1, 1)
      BY <1>2, <2>3, <3>1, ProcessKeeps
    <3>2. CASE phase' = ph1
      BY <3>2
    <3> QED
      BY <2>1, <3>1, <3>2 DEF Advance, Fires, NoRunningJobs, ph1
  <2>6. StartedOf(phase') = StartedOf(ph1) /\ EndedOf(phase') = EndedOf(ph1)
    BY <2>5, LaunchesUncounted
  <2>7. /\ StartedOf(ph1) = StartedOf(phase)
        /\ EndedOf(ph1) = EndedOf(phase) \cup {j}
    BY <2>2, <2>4 DEF StartedOf, EndedOf, Started, Ended
  <2> QED
    BY <2>6, <2>7
<1>6. ASSUME UNCHANGED <<queueVars, statVars>> PROVE UNCHANGED statVars /\ Same
  BY <1>6 DEF queueVars
<1> QED
  BY <1>3, <1>4, <1>5, <1>6
     DEF Next, vars, queueVars, statVars, Await, Pause, Join, Detach, ShutdownBegin,
         ShutdownPause, ShutdownFinish

LEMMA CountedStep ==
  ASSUME Structure, Counted, [Next]_vars
  PROVE  Counted'
<1>1. /\ phase \in [Jobs -> Phases]
      /\ inc \in Nat /\ done \in Nat /\ error \in Nat
  BY DEF Structure, TypeOK
<1>2. /\ IsFiniteSet(StartedOf(phase)) /\ IsFiniteSet(EndedOf(phase))
  BY JobsFinite DEF StartedOf, EndedOf
<1>3. ASSUME NEW j \in Jobs, Start(j) PROVE Counted'
  <2>1. /\ phase[j] = "launched" /\ phase' = [phase EXCEPT ![j] = "running"]
        /\ inc' = inc + 1 /\ UNCHANGED <<done, error>>
    BY <1>3 DEF Start
  <2>2. StartedOf(phase') = StartedOf(phase) \cup {j} /\ j \notin StartedOf(phase)
    BY <1>1, <2>1 DEF StartedOf, Started
  <2>3. EndedOf(phase') = EndedOf(phase)
    BY <1>1, <2>1 DEF EndedOf, Ended
  <2>4. Cardinality(StartedOf(phase')) = Cardinality(StartedOf(phase)) + 1
    BY <1>2, <2>2, FS_AddElement
  <2> QED
    BY <2>1, <2>3, <2>4 DEF Counted
<1>4. ASSUME NEW j \in Jobs, Finish(j),
             StartedOf(phase') = StartedOf(phase),
             EndedOf(phase') = EndedOf(phase) \cup {j}
      PROVE  Counted'
  <2>1. j \notin EndedOf(phase)
    BY <1>4 DEF Finish, EndedOf, Ended
  <2>2. Cardinality(EndedOf(phase')) = Cardinality(EndedOf(phase)) + 1
    BY <1>2, <1>4, <2>1, FS_AddElement
  <2>3. inc' = inc /\ done' + error' = done + error + 1
    BY <1>1, <1>4 DEF Finish
  <2> QED
    BY <1>4, <2>2, <2>3 DEF Counted
<1>5. ASSUME UNCHANGED statVars,
             StartedOf(phase') = StartedOf(phase), EndedOf(phase') = EndedOf(phase)
      PROVE  Counted'
  BY <1>5 DEF Counted, statVars
<1> QED
  BY <1>3, <1>4, <1>5, CountSteps

\* Without listeners and without a job in a slot, only pushes that are
\* forgotten remain.
LEMMA ClosedIsEmptyStep ==
  ASSUME Structure, ClosedIsEmpty, [Next]_vars
  PROVE  ClosedIsEmpty'
<1> SUFFICES ASSUME shut' = "closed" PROVE worker' = <<>> /\ active' = {} /\ ~listening'
  BY DEF ClosedIsEmpty
<1>1. CASE shut # "closed"
  BY <1>1, Zenon DEF Next, vars, Push, Await, Pause, Resume, Join, Start, Finish, Detach,
     ShutdownBegin, ShutdownPauses, ShutdownPause, ShutdownFinish, NothingToFinalize, queueVars
<1>2. CASE shut = "closed"
  <2>1. worker = <<>> /\ active = {} /\ ~listening
    BY <1>2 DEF ClosedIsEmpty
  <2>2. \A j \in Jobs : phase[j] \notin InSlot
    BY <2>1 DEF Structure, Slots
  <2>3. ~(\E j \in Jobs : Start(j) \/ Finish(j))
    BY <2>2 DEF Start, Finish, InSlot
  <2> QED
    BY <1>2, <2>1, <2>3 DEF Next, vars, Push, Await, Pause, Resume, Join, Detach,
       ShutdownBegin, ShutdownPauses, ShutdownPause, ShutdownFinish, queueVars
<1> QED
  BY <1>1, <1>2

\* When the jobs are counted and the queue is empty, all that were accepted
\* have ended.
LEMMA EmptyMeansEnded ==
  ASSUME Structure, Counted, ClosedIsEmpty
  PROVE  ShutdownLeavesNothing
<1> SUFFICES ASSUME shut = "closed"
             PROVE  inc = pushed /\ done + error = pushed
  BY DEF ShutdownLeavesNothing
<1>1. /\ worker = <<>> /\ active = {}
      /\ Layout(pushed, worker, phase) /\ Slots(active, runningTasks, phase)
      /\ pushed \in Nat /\ dropped \in Nat /\ pushed + dropped <= MaxJobs
  BY DEF ClosedIsEmpty, Structure, TypeOK
<1>2. \A j \in Jobs : phase[j] \notin InSlot
  BY <1>1 DEF Slots
<1>3. \A j \in Jobs : phase[j] \in Begun <=> j <= pushed
  <2>1. Len(worker) = 0 /\ pushed - Len(worker) = pushed
    BY <1>1
  <2> QED
    BY <1>1, <2>1 DEF Layout
<1>4. \A j \in Jobs : phase[j] \in Ended <=> j <= pushed
  BY <1>2, <1>3 DEF Begun
<1>5. 1..pushed \subseteq Jobs
  BY <1>1, QueueAssumption DEF Jobs
<1>6. EndedOf(phase) = 1..pushed
  BY <1>1, <1>4, <1>5 DEF EndedOf, Jobs
<1>7. StartedOf(phase) = EndedOf(phase)
  BY <1>2 DEF StartedOf, EndedOf, Started, Ended, InSlot
<1>8. Cardinality(1..pushed) = pushed
  BY <1>1, FS_Interval
<1> QED
  BY <1>6, <1>7, <1>8 DEF Counted

\* A shutdown() that succeeds has run every job that was accepted, for any
\* number of jobs and slots and whatever was called in between: what finalize()
\* would have thrown on is not there, and nothing is accepted afterwards.
THEOREM ShutdownAlwaysLeavesNothing == Spec => []ShutdownLeavesNothing
<1>1. Init => Counted /\ ClosedIsEmpty
  <2> SUFFICES ASSUME Init PROVE Counted /\ ClosedIsEmpty
    OBVIOUS
  <2>1. StartedOf(phase) = {} /\ EndedOf(phase) = {}
    BY DEF Init, StartedOf, EndedOf, Started, Ended
  <2>2. inc = 0 /\ done + error = 0
    BY DEF Init
  <2>3. Counted
    BY <2>1, <2>2, FS_EmptySet DEF Counted
  <2>4. ClosedIsEmpty
    BY DEF Init, ClosedIsEmpty
  <2> QED
    BY <2>3, <2>4
<1>2. Structure /\ Counted /\ [Next]_vars => Counted'
  BY CountedStep
<1>3. Structure /\ ClosedIsEmpty /\ [Next]_vars => ClosedIsEmpty'
  BY ClosedIsEmptyStep
<1>4. Structure /\ Counted /\ ClosedIsEmpty => ShutdownLeavesNothing
  BY EmptyMeansEnded
<1> QED
  BY <1>1, <1>2, <1>3, <1>4, StructureInvariant, PTL DEF Spec

-----------------------------------------------------------------------------
(* The queue implements the pool *)

\* The pool counts as the queue does.
LEMMA SameCardinality == \A S : Pool!Cardinality(S) = Cardinality(S)
  BY DEF Pool!Cardinality, Cardinality

\* The busy jobs of the pool are the active jobs of the queue.
LEMMA BusyIsActive == Structure => Pool!Busy = active
<1> SUFFICES ASSUME Structure PROVE Pool!Busy = active
  OBVIOUS
<1>1. /\ pushed \in Nat /\ pushed <= MaxJobs /\ Len(worker) \in Nat
      /\ Layout(pushed, worker, phase) /\ MaxJobs \in Nat
      /\ active = {j \in Jobs : phase[j] \in InSlot}
  BY QueueAssumption DEF Structure, TypeOK, Slots, Layout
<1> DEFINE b == pushed - Len(worker)
<1>2. \A x \in 1..b : x \in Jobs
  BY <1>1 DEF Jobs
<1>3. \A x \in Jobs : x \in 1..b <=> phase[x] \in Begun
  BY <1>1 DEF Layout, Jobs
<1>4. Pool!Busy = (1..b) \ {j \in Jobs : phase[j] \in Ended}
  BY DEF Pool!Busy
<1> QED
  BY <1>1, <1>2, <1>3, <1>4 DEF Begun, InSlot, Ended

\* The same, one step later.
LEMMA BusyIsActiveNext == Structure' => (Pool!Busy = active)'
  BY BusyIsActive, PTL

\* How a step moves the three numbers the pool consists of.
LEMMA PoolMoves ==
  ASSUME Structure, Next
  PROVE  \/ /\ pushed' = pushed + 1
            /\ Len(worker') \in {Len(worker), Len(worker) + 1}
            /\ {j \in Jobs : phase'[j] \in Ended} =
                 {j \in Jobs : phase[j] \in Ended}
         \/ /\ pushed' = pushed
            /\ Len(worker') \in 0..Len(worker)
            /\ {j \in Jobs : phase'[j] \in Ended} =
                 {j \in Jobs : phase[j] \in Ended}
         \/ /\ pushed' = pushed
            /\ Len(worker') \in 0..Len(worker)
            /\ Len(worker') >= Len(worker) - 1
            /\ \E j \in active :
                 {i \in Jobs : phase'[i] \in Ended} =
                   {i \in Jobs : phase[i] \in Ended} \cup {j}
<1> DEFINE Same == {j \in Jobs : phase'[j] \in Ended} =
                     {j \in Jobs : phase[j] \in Ended}
           Line == \/ pushed' = pushed + 1 /\ Len(worker') \in {Len(worker), Len(worker) + 1} /\ Same
                   \/ pushed' = pushed /\ Len(worker') \in 0..Len(worker) /\ Same
           Over == /\ pushed' = pushed
                   /\ Len(worker') \in 0..Len(worker)
                   /\ Len(worker') >= Len(worker) - 1
                   /\ \E j \in active :
                        {i \in Jobs : phase'[i] \in Ended} =
                          {i \in Jobs : phase[i] \in Ended} \cup {j}
<1>1. /\ Scalars /\ Layout(pushed, worker, phase)
      /\ Slots(active, runningTasks, phase) /\ (listening => dropped = 0)
  BY StructureSplit
<1>2. /\ pushed \in Nat /\ dropped \in Nat /\ pushed \in 0..MaxJobs
      /\ call \in [Callers \cup {Owner} -> Answers] /\ Concurrent \in Nat
      /\ phase \in [Jobs -> Phases] /\ 1 \in Nat /\ Len(worker) \in Nat
      /\ worker \in Seq(Jobs) /\ runningTasks \in Nat
      /\ runningTasks <= Concurrent
  BY <1>1, QueueAssumption DEF Scalars, Layout, Slots
<1>3. CASE Push
  <2> DEFINE j == pushed + dropped + 1
  <2>1. j \in Jobs /\ j > pushed
    BY <1>2, <1>3, QueueAssumption DEF Push, Jobs
  <2>2. phase[j] \notin Ended
    BY <1>1, <1>2, <2>1 DEF Layout, Begun, Jobs
  <2>3. CASE ~listening
    <3>1. phase' = [phase EXCEPT ![j] = "lost"] /\ UNCHANGED <<pushed, worker>>
      BY <1>3, <2>3 DEF Push
    <3>2. Same
      BY <1>2, <2>2, <3>1 DEF Ended
    <3> QED
      BY <1>2, <3>1, <3>2
  <2>4. CASE listening /\ paused
    <3>1. /\ phase' = [phase EXCEPT ![j] = "enqueued"]
          /\ worker' = Append(worker, j) /\ pushed' = pushed + 1
      BY <1>3, <2>4 DEF Push
    <3>2. Same
      BY <1>2, <2>2, <3>1 DEF Ended
    <3>3. Len(worker') = Len(worker) + 1
      BY <1>2, <2>1, <3>1
    <3> QED
      BY <3>1, <3>2, <3>3
  <2>5. CASE listening /\ ~paused
    <3> DEFINE ph1 == [phase EXCEPT ![pushed + 1] = "enqueued"]
               w1  == Append(worker, pushed + 1)
               n   == Room(Len(w1), runningTasks, 1)
    <3>1. j = pushed + 1
      BY <1>1, <1>2, <2>5
    <3>2. Process(w1, ph1, active, runningTasks, 1) /\ pushed' = pushed + 1
      BY <1>3, <2>5, <3>1 DEF Push
    <3>3. Layout(pushed + 1, w1, ph1) /\ Slots(active, runningTasks, ph1)
      BY <1>1, <1>2, <2>1, <3>1, AppendKeeps
    <3>4. pushed + 1 \in 0..MaxJobs
      BY <1>2, <2>1, <3>1, QueueAssumption DEF Jobs
    <3>5. \A i \in Jobs : ph1[i] = IF i = pushed + 1 THEN "enqueued" ELSE phase[i]
      BY <1>2
    <3>6. Len(w1) = Len(worker) + 1 /\ Len(w1) \in Nat
      BY <1>2
    <3> HIDE DEF ph1, w1
    <3>7. n <= 1 /\ n \in Nat
      <4>1. n \in 0..Len(w1) /\ n <= 1
        BY <1>2, <3>6, RoomFits
      <4> HIDE DEF n
      <4> QED
        BY <3>6, <4>1
    <3>8. /\ Len(worker') = Len(w1) - n
          /\ \A i \in Jobs : phase'[i] = ph1[i] \/
               /\ phase'[i] = "launched"
               /\ ph1[i] = "enqueued"
      BY <1>2, <3>2, <3>3, <3>4, ProcessKeeps
    <3> HIDE DEF n
    <3>9. Len(worker') \in {Len(worker), Len(worker) + 1}
      BY <1>2, <3>6, <3>7, <3>8
    <3>10. Same
      BY <2>2, <3>1, <3>5, <3>8 DEF Ended
    <3> QED
      BY <3>2, <3>9, <3>10
  <2> QED
    BY <1>1, <2>3, <2>4, <2>5
<1>4. CASE Resume
  <2> DEFINE n == Room(Len(worker), runningTasks, Concurrent)
  <2>1. CASE Process(worker, phase, active, runningTasks, ResumeFires)
    <3>1. /\ Len(worker') = Len(worker) - n
          /\ \A i \in Jobs : phase'[i] = phase[i] \/
               /\ phase'[i] = "launched"
               /\ phase[i] = "enqueued"
      BY <1>1, <1>2, <2>1, ProcessKeeps
    <3>2. n \in 0..Len(worker)
      BY <1>2, RoomFits
    <3> HIDE DEF n
    <3>3. Same /\ Len(worker') \in 0..Len(worker)
      BY <1>2, <3>1, <3>2 DEF Ended
    <3> QED
      BY <1>4, <3>3 DEF Resume
  <2>2. CASE UNCHANGED <<phase, worker>>
    BY <1>2, <1>4, <2>2 DEF Resume
  <2> QED
    BY <1>4, <2>1, <2>2 DEF Resume
<1>5. ASSUME NEW j \in Jobs, Start(j)
      PROVE  Line
  <2>1. /\ phase[j] = "launched" /\ phase' = [phase EXCEPT ![j] = "running"]
        /\ UNCHANGED <<pushed, worker>>
    BY <1>5 DEF Start
  <2>2. Same
    BY <1>2, <2>1 DEF Ended
  <2> QED
    BY <1>2, <2>1, <2>2
<1>6. ASSUME NEW j \in Jobs, Finish(j)
      PROVE  Over
  <2>1. PICK o \in Ended : Advance([phase EXCEPT ![j] = o], active \ {j})
    BY <1>6 DEF Finish, Ended
  <2> DEFINE ph1 == [phase EXCEPT ![j] = o]
             n   == Room(Len(worker), runningTasks - 1, 1)
  <2>2. phase[j] = "running" /\ j \in active /\ pushed' = pushed
    BY <1>1, <1>6 DEF Finish, Slots, InSlot
  <2>3. Layout(pushed, worker, ph1) /\ Slots(active \ {j}, runningTasks - 1, ph1)
    BY <1>1, <1>2, <2>2, EndKeeps
  <2>4. \A i \in Jobs : ph1[i] = IF i = j THEN o ELSE phase[i]
    BY <1>2
  <2>5. n \in 0..Len(worker) /\ n <= 1
    BY <1>2, <2>3, RoomFits DEF Slots
  <2> HIDE DEF ph1
  <2>6. \A i \in Jobs : phase'[i] = ph1[i] \/
          /\ phase'[i] = "launched"
          /\ ph1[i] = "enqueued"
    <3>1. CASE Process(worker, ph1, active \ {j}, runningTasks - 1, 1)
      BY <1>2, <2>3, <3>1, ProcessKeeps
    <3>2. CASE phase' = ph1
      BY <3>2
    <3> QED
      BY <2>1, <3>1, <3>2 DEF Advance, Fires, NoRunningJobs, ph1
  <2>7. worker' = worker \/ Len(worker') = Len(worker) - n
    <3>1. CASE Process(worker, ph1, active \ {j}, runningTasks - 1, 1)
      BY <1>2, <2>3, <3>1, ProcessKeeps
    <3> QED
      BY <2>1, <3>1 DEF Advance, Fires, NoRunningJobs, ph1
  <2> HIDE DEF n
  <2>8. {i \in Jobs : phase'[i] \in Ended} =
          {i \in Jobs : phase[i] \in Ended} \cup {j}
    BY <2>2, <2>4, <2>6 DEF Ended
  <2>9. Len(worker') \in 0..Len(worker) /\ Len(worker') >= Len(worker) - 1
    BY <1>2, <2>5, <2>7
  <2> QED
    BY <2>2, <2>8, <2>9
<1>7. CASE UNCHANGED <<phase, worker, pushed>>
  BY <1>2, <1>7
<1> QED
  BY <1>3, <1>4, <1>5, <1>6, <1>7
     DEF Next, queueVars, Await, Pause, Join, Detach, ShutdownBegin,
         ShutdownPause, ShutdownFinish

LEMMA PoolStepSimulation ==
  ASSUME Structure, [Next]_vars
  PROVE  [Pool!PoolStep]_(Pool!poolVars)
<1> DEFINE b  == pushed - Len(worker)
           e  == {j \in Jobs : phase[j] \in Ended}
           b1 == pushed' - Len(worker')
           e1 == {j \in Jobs : phase'[j] \in Ended}
<1>1. /\ pushed \in Nat /\ Len(worker) \in Nat /\ Len(worker) <= pushed
      /\ pushed' \in Nat /\ Len(worker') \in Nat /\ Len(worker') <= pushed'
  BY StructureStep DEF Structure, TypeOK, Layout
<1>2. Pool!Cardinality(Pool!Busy') <= Concurrent
  BY BusyIsActiveNext, StructureStep, SameCardinality DEF Structure, Slots
<1>3. Pool!Busy = active
  BY BusyIsActive
<1>4. CASE UNCHANGED vars
  BY <1>4 DEF vars, Pool!poolVars
<1>5. CASE Next
  <2>1. CASE /\ pushed' = pushed + 1
             /\ Len(worker') \in {Len(worker), Len(worker) + 1}
             /\ e1 = e
    <3>1. b1 \in b..pushed' /\ b1 <= b + 1
      BY <1>1, <2>1
    <3> QED
      BY <1>2, <2>1, <3>1 DEF Pool!PoolStep, Pool!Accept
  <2>2. CASE pushed' = pushed /\ Len(worker') \in 0..Len(worker) /\ e1 = e
    <3>1. CASE Len(worker') = Len(worker)
      BY <2>2, <3>1 DEF Pool!poolVars
    <3>2. CASE Len(worker') # Len(worker)
      <4>1. b1 \in (b + 1)..pushed
        BY <1>1, <2>2, <3>2
      <4> QED
        BY <1>2, <2>2, <4>1 DEF Pool!PoolStep, Pool!Begin
    <3> QED
      BY <3>1, <3>2
  <2>3. CASE /\ pushed' = pushed
             /\ Len(worker') \in 0..Len(worker)
             /\ Len(worker') >= Len(worker) - 1
             /\ \E j \in active : e1 = e \cup {j}
    <3>1. PICK j \in active : e1 = e \cup {j}
      BY <2>3
    <3>2. b1 \in b..pushed /\ b1 <= b + 1
      BY <1>1, <2>3
    <3>3. j \in 1..b
      BY <1>3, <3>1 DEF Pool!Busy
    <3> QED
      BY <1>2, <1>3, <2>3, <3>1, <3>2, <3>3 DEF Pool!PoolStep, Pool!End
  <2> QED
    BY <1>5, <2>1, <2>2, <2>3, PoolMoves
<1> QED
  BY <1>4, <1>5

\* The queue, with its listeners, promises and counters, is a FIFO pool that
\* runs at most options.concurrent jobs and ends each job once.
THEOREM QueueImplementsPool == Spec => ImplementsPool
<1>1. Init => Pool!PoolInit
  <2> SUFFICES ASSUME Init PROVE Pool!PoolInit
    OBVIOUS
  <2>1. Len(worker) = 0 /\ pushed = 0
    BY DEF Init
  <2>2. {j \in Jobs : phase[j] \in Ended} = {}
    BY DEF Init, Ended
  <2> QED
    BY <2>1, <2>2 DEF Pool!PoolInit
<1>2. Structure /\ [Next]_vars => [Pool!PoolStep]_(Pool!poolVars)
  BY PoolStepSimulation
<1> QED
  BY <1>1, <1>2, StructureInvariant, PTL
     DEF Spec, ImplementsPool, Pool!PoolSpec
=============================================================================
