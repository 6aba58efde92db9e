-------------------------------- MODULE Locks --------------------------------
(***************************************************************************)
(* Semaphore (libs/Semaphore.ts) and LockFactory (libs/LockFactory.ts):    *)
(* the locks of the task store, the connections and the node list, and the *)
(* shutdown that waits for them.  Every call is one synchronous step; what *)
(* interleaves are the calls of the clients, the timers of await() and the *)
(* shutdown.                                                               *)
(*                                                                         *)
(* Semaphores are numbered in the order in which semaphore() makes them.   *)
(* Those of the task store (TasksStorageHelper.save) are made for a first  *)
(* acquire() and thrown away after the release() that leaves them free;    *)
(* the others live as long as their owner.  All have the same max.         *)
(*                                                                         *)
(* An operator whose comment begins with "Slip:" is not part of the model: *)
(* it is the definition below it with a plausible mistake.                 *)
(***************************************************************************)
EXTENDS Integers, Sequences, FiniteSets

CONSTANTS
  Max,       \* max of every semaphore
  MaxSems,   \* bound: semaphore() is called so many times
  Clients,   \* acquire and release, one semaphore at a time
  Callers,   \* each calls one await(), of a semaphore or of the factory
  Shuts      \* whether anybody calls LockFactory.shutdown()

ASSUME LocksAssumption ==
  /\ Max \in Nat \ {0}
  /\ MaxSems \in Nat
  /\ IsFiniteSet(Clients)
  /\ Callers \cap (1..MaxSems) = {}
  /\ Shuts \in BOOLEAN

Sems == 1..MaxSems
Factory == 0

\* shutdown() awaits the registered semaphores: awaiter s does so for s.
Awaiters == Callers \cup Sems

VARIABLES
  made,        \* semaphores 1..made exist
  disposable,  \* those of the task store
  discarded,   \* those the task store has thrown away
  registered,  \* LockFactory.semaphores, in order of their numbers
  counter,     \* counter[s], which purge() sets to 0 and release() below
  waiting,     \* waiting[s], head first
  pc, on,      \* what a client does, and the semaphore it does it with
  at, answer,  \* what a awaits, and the promise of its await()
  listening,   \* the awaiters whose listener for 'empty' is in place
  shut,        \* how far shutdown() has come
  forgotten    \* history: leases of s that were held when it was purged

semVars == <<made, disposable, discarded, registered>>
awaitVars == <<at, answer, listening>>
vars == <<semVars, counter, waiting, pc, on, awaitVars, shut, forgotten>>

TypeOK ==
  /\ made \in 0..MaxSems
  /\ registered \in SUBSET (1..made) /\ disposable \in SUBSET (1..made)
  /\ discarded \in SUBSET disposable
  /\ counter \in [Sems -> Int]
  /\ waiting \in [Sems -> Seq(Clients)]
  /\ pc \in [Clients -> {"idle", "waiting", "holding"}]
  /\ on \in [Clients -> Sems \cup {Factory}]
  /\ at \in [Awaiters -> Sems \cup {Factory}]
  /\ listening \in SUBSET Awaiters
  /\ answer \in [Awaiters -> {"none", "waiting", "resolved", "rejected"}]
  /\ shut \in {"none", "awaiting", "done", "failed"}
  /\ forgotten \in [Sems -> Nat]

Init ==
  /\ made = 0 /\ disposable = {} /\ discarded = {} /\ registered = {}
  /\ counter = [s \in Sems |-> 0]
  /\ waiting = [s \in Sems |-> <<>>]
  /\ pc = [c \in Clients |-> "idle"]
  /\ on = [c \in Clients |-> Factory]
  /\ at = [a \in Awaiters |-> IF a \in Sems THEN a ELSE Factory]
  /\ listening = {}
  /\ answer = [a \in Awaiters |-> "none"]
  /\ shut = "none"
  /\ forgotten = [s \in Sems |-> 0]

Holders(s) == {c \in Clients : pc[c] = "holding" /\ on[c] = s}
Listeners(s) == {a \in listening : at[a] = s}

-----------------------------------------------------------------------------
(* acquire() *)

\* A component makes the semaphore it will use.
Make ==
  /\ made < MaxSems
  /\ made' = made + 1
  /\ registered' = registered \cup {made'}
  /\ UNCHANGED <<disposable, discarded, counter, waiting, pc, on, awaitVars,
                 shut, forgotten>>

\* save() has no semaphore for a task yet: it makes one and acquires it.
MakeAndAcquire(c) ==
  /\ pc[c] = "idle"
  /\ made < MaxSems
  /\ made' = made + 1
  /\ registered' = registered \cup {made'}
  /\ disposable' = disposable \cup {made'}
  /\ counter' = [counter EXCEPT ![made'] = 1]
  /\ pc' = [pc EXCEPT ![c] = "holding"]
  /\ on' = [on EXCEPT ![c] = made']
  /\ UNCHANGED <<discarded, waiting, awaitVars, shut, forgotten>>

Free(s) == counter[s] < Max

Acquire(c, s) ==
  /\ pc[c] = "idle"
  /\ s <= made /\ s \notin discarded
  /\ on' = [on EXCEPT ![c] = s]
  /\ \/ /\ Free(s)
        /\ counter' = [counter EXCEPT ![s] = @ + 1]
        /\ pc' = [pc EXCEPT ![c] = "holding"]
        /\ UNCHANGED waiting
     \/ /\ ~Free(s)
        /\ waiting' = [waiting EXCEPT ![s] = Append(@, c)]
        /\ pc' = [pc EXCEPT ![c] = "waiting"]
        /\ UNCHANGED counter
  /\ UNCHANGED <<semVars, awaitVars, shut, forgotten>>

-----------------------------------------------------------------------------
(* release() *)

\* Slip: release() does not call take().
LeavesWaiting(s) == FALSE

\* take() after the decrement finds somebody.
HandsOver(s) == waiting[s] # <<>> /\ counter[s] - 1 < Max

\* One less, and one more.
Handed(s) == counter

\* The lease passes to the head of the line.  The counter stays at Max, so
\* that neither 'empty' is emitted nor the semaphore found unreserved.
ReleaseToNext(c) ==
  /\ pc[c] = "holding"
  /\ HandsOver(on[c])
  /\ counter' = Handed(on[c])
  /\ waiting' = [waiting EXCEPT ![on[c]] = Tail(@)]
  /\ pc' = [pc EXCEPT ![c] = "idle", ![Head(waiting[on[c]])] = "holding"]
  /\ UNCHANGED <<semVars, on, awaitVars, shut, forgotten>>

\* save() finds its semaphore not reserved after the release().
Discards(s) == s \in disposable /\ counter[s] <= 1

\* remove() of a semaphore that was just purged: lodash compares by fields, so
\* every other one that is free and has no listener goes too.
Kept(cnt, lst) == {r \in registered : cnt[r] # 0 \/ \E a \in lst : at[a] = r}

\* 'empty' of a semaphore reaches all its listeners ...
Told(s) == IF counter[s] = 1 THEN Listeners(s) ELSE {}

\* ... and so does that of the factory when remove() leaves it empty.
ToldEmpty == IF registered' = {} THEN Listeners(Factory) ELSE {}

Resolve(as) ==
  /\ answer' = [a \in Awaiters |-> IF a \in as THEN "resolved" ELSE answer[a]]
  /\ UNCHANGED at

ReleaseFree(c) ==
  LET s == on[c]
  IN  /\ pc[c] = "holding"
      /\ ~HandsOver(s)
      /\ pc' = [pc EXCEPT ![c] = "idle"]
      /\ \/ /\ Discards(s)
            /\ counter' = [counter EXCEPT ![s] = 0]
            /\ forgotten' = [forgotten EXCEPT ![s] = Cardinality(Holders(s) \ {c})]
            /\ discarded' = discarded \cup {s}
            /\ registered' = Kept(counter', listening \ Listeners(s))
            /\ listening' = listening \ (Listeners(s) \cup ToldEmpty)
            /\ Resolve(Told(s) \cup ToldEmpty)
         \/ /\ ~Discards(s)
            /\ counter' = [counter EXCEPT ![s] = @ - 1]
            /\ listening' = listening \ Told(s)
            /\ Resolve(Told(s))
            /\ UNCHANGED <<forgotten, discarded, registered>>
      /\ UNCHANGED <<made, disposable, waiting, on, shut>>

-----------------------------------------------------------------------------
(* await() *)

AwaitSem(a, s) ==
  /\ answer[a] = "none"
  /\ s <= made
  /\ at' = [at EXCEPT ![a] = s]
  /\ \/ /\ counter[s] = 0
        /\ answer' = [answer EXCEPT ![a] = "resolved"]
        /\ UNCHANGED listening
     \/ /\ counter[s] # 0
        /\ answer' = [answer EXCEPT ![a] = "waiting"]
        /\ listening' = listening \cup {a}
  /\ UNCHANGED <<semVars, counter, waiting, pc, on, shut, forgotten>>

AwaitFactory(a) ==
  /\ answer[a] = "none"
  /\ \/ /\ registered = {}
        /\ answer' = [answer EXCEPT ![a] = "resolved"]
        /\ UNCHANGED listening
     \/ /\ registered # {}
        /\ answer' = [answer EXCEPT ![a] = "waiting"]
        /\ listening' = listening \cup {a}
  /\ UNCHANGED <<semVars, counter, waiting, pc, on, at, shut, forgotten>>

\* Slip: the timer of an await() is stopped when its listener is removed.
TimerGone(a) == answer[a] = "waiting" /\ at[a] # Factory /\ a \in listening

\* Only the listener itself would have stopped the timer.
TimerRuns(a) == answer[a] = "waiting" /\ at[a] # Factory

\* The timer of an await() removes the listeners of everybody.
Timeout(a) ==
  /\ TimerRuns(a)
  /\ answer' = [answer EXCEPT ![a] = "rejected"]
  /\ listening' = listening \ Listeners(at[a])
  /\ UNCHANGED <<semVars, counter, waiting, pc, on, at, shut, forgotten>>

-----------------------------------------------------------------------------
(* LockFactory.shutdown() *)

ShutdownBegin ==
  /\ Shuts
  /\ shut = "none"
  /\ shut' = "awaiting"
  /\ answer' = [a \in Awaiters |->
                  IF a \in registered
                  THEN IF counter[a] = 0 THEN "resolved" ELSE "waiting"
                  ELSE answer[a]]
  /\ listening' = listening \cup {s \in registered : counter[s] # 0}
  /\ UNCHANGED <<semVars, counter, waiting, pc, on, at, forgotten>>

\* The loop goes from the last semaphore to the first while remove() takes
\* elements out of the array under it: the last one is purged, with it all
\* that are free and unheard are removed, and of the rest every other one is
\* purged and removed.
InUse(last) ==
  {r \in registered \ {last} : counter[r] # 0 \/ Listeners(r) # {}}

Odd(n) == n % 2 = 1

Purged(last) ==
  {last} \cup {r \in InUse(last) : Odd(Cardinality({x \in InUse(last) : x > r}))}

\* Slip: the waiting callers are dropped without an answer.
NotRejected(ps) == pc

\* purge() rejects all who wait for one of ps.
Rejected(ps) ==
  [c \in Clients |-> IF pc[c] = "waiting" /\ on[c] \in ps THEN "idle" ELSE pc[c]]

Purge(ps) ==
  /\ counter' = [s \in Sems |-> IF s \in ps THEN 0 ELSE counter[s]]
  /\ waiting' = [s \in Sems |-> IF s \in ps THEN <<>> ELSE waiting[s]]
  /\ pc' = Rejected(ps)
  /\ forgotten' = [s \in Sems |-> IF s \in ps THEN Cardinality(Holders(s))
                                            ELSE forgotten[s]]

\* All promises have resolved.
ShutdownPurge ==
  /\ shut = "awaiting"
  /\ \A s \in Sems : answer[s] \in {"none", "resolved"}
  /\ shut' = "done"
  /\ \/ /\ registered = {}
        /\ UNCHANGED <<counter, waiting, pc, forgotten, registered, awaitVars>>
     \/ \E last \in registered :
          /\ \A s \in registered : s <= last
          /\ Purge(Purged(last))
          /\ registered' = InUse(last) \ Purged(last)
          /\ listening' = {a \in listening \ ToldEmpty : at[a] \notin Purged(last)}
          /\ Resolve(ToldEmpty)
  /\ UNCHANGED <<made, disposable, discarded, on>>

\* One of them has timed out: shutdown() rejects and purges nothing.
ShutdownFail ==
  /\ shut = "awaiting"
  /\ \E s \in Sems : answer[s] = "rejected"
  /\ shut' = "failed"
  /\ UNCHANGED <<semVars, counter, waiting, pc, on, awaitVars, forgotten>>

-----------------------------------------------------------------------------
Next ==
  \/ Make
  \/ \E c \in Clients :
       \/ MakeAndAcquire(c) \/ ReleaseToNext(c) \/ ReleaseFree(c)
       \/ \E s \in Sems : Acquire(c, s)
  \/ \E a \in Callers :
       \/ AwaitFactory(a)
       \/ \E s \in Sems : AwaitSem(a, s)
  \/ \E a \in Awaiters : Timeout(a)
  \/ ShutdownBegin \/ ShutdownPurge \/ ShutdownFail

\* Timers fire and promises go on; who has acquired, releases.  save() does so
\* only as long as the storage does not fail.
Fairness ==
  /\ \A c \in Clients : WF_vars(ReleaseToNext(c) \/ ReleaseFree(c))
  /\ \A a \in Awaiters : WF_vars(Timeout(a))
  /\ WF_vars(ShutdownPurge) /\ WF_vars(ShutdownFail)

Spec == Init /\ [][Next]_vars /\ Fairness

-----------------------------------------------------------------------------
(* Properties *)

\* The counter is the number of leases that are held, less those that purge()
\* has forgotten; it may fall below zero then, but is never above max.
LeasesAccounted ==
  \A s \in Sems : /\ counter[s] = Cardinality(Holders(s)) - forgotten[s]
                  /\ counter[s] <= Max

\* Mutual exclusion: never more than max hold a semaphore, as long as none of
\* its leases was purged while it was held.
AtMostMax ==
  \A s \in Sems : forgotten[s] = 0 => Cardinality(Holders(s)) <= Max

\* Each client stands in one line at most once, the one it waits in, and no
\* lease is to be had while somebody waits.
WaitingInLine ==
  \A s \in Sems :
    /\ \A c \in Clients : (pc[c] = "waiting" /\ on[c] = s)
                            <=> \E i \in 1..Len(waiting[s]) : waiting[s][i] = c
    /\ \A i, j \in 1..Len(waiting[s]) :
          waiting[s][i] = waiting[s][j] => i = j
    /\ waiting[s] # <<>> => counter[s] = Max

\* acquire() is never granted on the spot while others wait in line.
NoOvertaking ==
  [][\A c \in Clients : pc[c] = "idle" /\ pc'[c] = "holding"
       => on'[c] > made \/ waiting[on'[c]] = <<>>]_vars

\* The task store throws a semaphore away only when nobody holds it or waits
\* for it, unless a shutdown has purged it before.
DiscardsUnused ==
  \A s \in discarded' \ discarded : forgotten[s] = 0 =>
    waiting[s] = <<>> /\ Holders(s)' = {}

DiscardsNobody == [][DiscardsUnused]_vars

\* Although remove() drops more than it is asked to, it never drops one that
\* is in use: the factory is empty only when no store lock is held, which is
\* what LockFactory.await() is used to find out.
EmptyMeansStored ==
  shut \notin {"done"} =>
    \A c \in Clients : pc[c] # "idle" /\ on[c] \in disposable => on[c] \in registered

\* await(): "Wait till semaphore is fully released" (Semaphore.ts:92).
\* The code does not keep it: TLC finds a counterexample (README, 5).
AwaitsRelease ==
  \A a \in Awaiters :
    answer[a] = "waiting" /\ at[a] # Factory => counter[at[a]] # 0

\* Whoever waits for a semaphore acquires it or is told that it was purged.
WaitersServed == \A c \in Clients : pc[c] = "waiting" ~> pc[c] # "waiting"

\* shutdown() ends, and so does every await() of a semaphore.
AwaitsEnd ==
  /\ shut = "awaiting" ~> shut \in {"done", "failed"}
  /\ \A a \in Callers :
       answer[a] = "waiting" /\ at[a] # Factory ~> answer[a] # "waiting"

\* Nobody who has called acquire(), await() or shutdown() is forgotten
\* (Semaphore.ts:61, 94 and LockFactory.ts:56).
CallersServed == WaitersServed /\ AwaitsEnd
=============================================================================
