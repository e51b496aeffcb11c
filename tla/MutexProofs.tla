---------------------------- MODULE MutexProofs ----------------------------
(***************************************************************************)
(* Proofs that BaseMutex keeps its safety properties for every finite set  *)
(* of callers, both policies and every length of the spin phase.           *)
(***************************************************************************)
EXTENDS Mutex, FiniteSetTheorems, SequenceTheorems, TLAPS

\* The counter is the number of callers that were counted.
CountInv == mCountOfWaiter = Cardinality(Counted)

\* The mutex has an owner exactly while somebody is counted.
OwnedInv == Counted # {} <=> \E c \in Callers : Owner(c)

Distinct(q) == \A i, j \in 1..Len(q) : q[i] = q[j] => i = j

\* No caller waits twice; a queued caller waits and its future is not set.
QueueInv ==
    /\ Distinct(mWaiter)
    /\ \A c \in Callers : Queued(c) => pc[c] \in Waiting /\ ptr[c] # "Invalid"

\* How far the waiter's side of await(p) determines the continuation pointer.
FutureInv ==
    \A c \in Callers :
        /\ pc[c] \notin Waiting => ptr[c] = "Empty"
        /\ pc[c] \in {"await", "suspend"} => ptr[c] # "Task"
        /\ pc[c] = "suspended" => ptr[c] # "Empty"

\* At most one unlock() is between its pop and its return.
MessengerInv ==
    \A u, v \in Callers :
        pc[u] \in {"set", "call"} /\ pc[v] \in {"set", "call"} => u = v

IInv == /\ TypeOK /\ CountInv /\ MutualExclusion /\ OwnedInv
        /\ QueueInv /\ FutureInv /\ WakeupsMatch /\ MessengerInv

-----------------------------------------------------------------------------
(* The waiting queue.                                                      *)

\* addToWaiter() adds exactly one caller.
LEMMA PushLemma ==
    ASSUME NEW q \in Seq(Callers), NEW c \in Callers
    PROVE  /\ Append(q, c) \in Seq(Callers)
           /\ \A d \in Callers : In(d, Append(q, c)) <=> In(d, q) \/ d = c
           /\ Distinct(q) /\ ~In(c, q) => Distinct(Append(q, c))
<1>1. /\ Append(q, c) \in Seq(Callers)
      /\ Len(q) \in Nat
      /\ Len(Append(q, c)) = Len(q) + 1
      /\ \A i \in 1..Len(q) : Append(q, c)[i] = q[i]
      /\ Append(q, c)[Len(q) + 1] = c
  OBVIOUS
<1>2. \A d \in Callers : In(d, Append(q, c)) <=> In(d, q) \/ d = c
  BY <1>1 DEF In
<1>3. Distinct(q) /\ ~In(c, q) => Distinct(Append(q, c))
  BY <1>1 DEF Distinct, In
<1> QED BY <1>1, <1>2, <1>3

\* getNextWaiter() takes one caller, and only that one, whatever the policy.
LEMMA PopLemma ==
    ASSUME NEW q \in Seq(Callers), q # <<>>
    PROVE  /\ Without(q) \in Seq(Callers)
           /\ q[NextIndex(q)] \in Callers
           /\ In(q[NextIndex(q)], q)
           /\ Distinct(q) => Distinct(Without(q))
           /\ Distinct(q) => \A d \in Callers :
                 In(d, Without(q)) <=> In(d, q) /\ d # q[NextIndex(q)]
<1>1. Len(q) \in Nat \ {0} /\ \A i \in 1..Len(q) : q[i] \in Callers
  BY LenProperties, EmptySeq
<1>2. CASE FairPolicy
  <2>1. /\ Tail(q) \in Seq(Callers)
        /\ Len(Tail(q)) = Len(q) - 1
        /\ \A i \in 1..Len(Tail(q)) : Tail(q)[i] = q[i + 1]
    BY HeadTailProperties
  <2>2. \A i \in 2..Len(q) : q[i] = Tail(q)[i - 1] /\ i - 1 \in 1..Len(Tail(q))
    BY <1>1, <2>1
  <2>3. Distinct(q) => \A d \in Callers : In(d, Tail(q)) <=> In(d, q) /\ d # q[1]
    BY <1>1, <2>1, <2>2 DEF Distinct, In
  <2>4. Distinct(q) => Distinct(Tail(q))
    BY <1>1, <2>1 DEF Distinct
  <2> QED BY <1>1, <1>2, <2>1, <2>3, <2>4 DEF In, Without, NextIndex
<1>3. CASE ~FairPolicy
  <2> DEFINE p == SubSeq(q, 1, Len(q) - 1)
  <2>1. /\ p \in Seq(Callers)
        /\ Len(p) = Len(q) - 1
        /\ \A i \in 1..Len(p) : p[i] = q[i]
    <3>1. \A i \in 1..(Len(q) - 1) : q[i] \in Callers
      BY <1>1
    <3>2. /\ p \in Seq(Callers)
          /\ Len(p) = IF 1 <= Len(q) - 1 THEN (Len(q) - 1) - 1 + 1 ELSE 0
          /\ \A i \in 1..((Len(q) - 1) - 1 + 1) : p[i] = q[1 + i - 1]
      BY <1>1, <3>1, SubSeqProperties
    <3> HIDE DEF p
    <3>3. Len(p) = Len(q) - 1
      <4>1. \A n \in Nat \ {0} : IF 1 <= n - 1 THEN (n - 1) - 1 + 1 = n - 1 ELSE 0 = n - 1
        OBVIOUS
      <4> QED BY <1>1, <3>2, <4>1
    <3>4. \A i \in 1..(Len(q) - 1) : i \in 1..((Len(q) - 1) - 1 + 1) /\ 1 + i - 1 = i
      BY <1>1
    <3>5. \A i \in 1..(Len(q) - 1) : p[i] = q[i]
      BY <3>2, <3>4
    <3> QED BY <3>2, <3>3, <3>5
  <2> HIDE DEF p
  <2>2. Distinct(q) => \A d \in Callers : In(d, p) <=> In(d, q) /\ d # q[Len(q)]
    BY <1>1, <2>1 DEF Distinct, In
  <2>3. Distinct(q) => Distinct(p)
    BY <1>1, <2>1 DEF Distinct
  <2> QED BY <1>1, <1>3, <2>1, <2>2, <2>3 DEF In, Without, NextIndex, p
<1> QED BY <1>2, <1>3

-----------------------------------------------------------------------------
(* The counter.                                                            *)

\* The counted callers are finitely many.
LEMMA CountedFinite == IsFiniteSet(Counted) /\ Cardinality(Counted) \in Nat
BY CallersFinite, FS_Subset, FS_CardinalityType DEF Counted

\* The counter is 0 exactly when nobody is counted.
LEMMA CountedEmpty == Cardinality(Counted) = 0 <=> Counted = {}
BY CountedFinite, FS_EmptySet

\* What the counter becomes when one caller is counted or uncounted.
LEMMA CountedStep ==
    ASSUME CountInv, NEW c
    PROVE  /\ Counted' = Counted \cup {c} /\ c \notin Counted
                => Cardinality(Counted') = mCountOfWaiter + 1
           /\ Counted' = Counted \ {c} /\ c \in Counted
                => Cardinality(Counted') = mCountOfWaiter - 1
           /\ mCountOfWaiter \in Nat
           /\ mCountOfWaiter = 0 <=> Counted = {}
<1>1. /\ Cardinality(Counted \cup {c})
           = IF c \in Counted THEN Cardinality(Counted) ELSE Cardinality(Counted) + 1
      /\ Cardinality(Counted \ {c})
           = IF c \in Counted THEN Cardinality(Counted) - 1 ELSE Cardinality(Counted)
  BY CountedFinite, FS_AddElement, FS_RemoveElement
<1> QED BY <1>1, CountedFinite, CountedEmpty DEF CountInv

-----------------------------------------------------------------------------
(* Steps that move one caller between places that neither count nor wait.  *)

\* The places outside lock()'s waiting part and unlock().
Free == {"idle", "spin", "add", "failed"}

\* Steps of lock() and try_lock() that change no shared state.
LEMMA FreeStep ==
    ASSUME IInv, NEW c \in Callers, NEW loc \in Free, pc[c] \in Free,
           pc' = [pc EXCEPT ![c] = loc],
           spin' \in [Callers -> 0..(SpinLimit - 1)],
           UNCHANGED <<mCountOfWaiter, mWaiter, ptr, next>>
    PROVE  IInv'
<1> USE DEF IInv
<1>1. TypeOK'
  BY DEF TypeOK, Free, Locations
<1>2. \A d \in Callers : pc'[d] = IF d = c THEN loc ELSE pc[d]
  BY DEF TypeOK
<1>3. Counted' = Counted
  BY <1>2 DEF Counted, Free, Waiting
<1>4. \A d \in Callers : /\ Queued(d)' = Queued(d)
                         /\ Granted(d)' = Granted(d)
                         /\ Owner(d)' = Owner(d)
  BY <1>2 DEF Queued, Granted, Owner, Free, Waiting
<1>5. CountInv' /\ MutualExclusion' /\ OwnedInv'
  BY <1>3, <1>4 DEF CountInv, MutualExclusion, OwnedInv
<1>6. QueueInv'
  BY <1>2, <1>4 DEF QueueInv, Free, Waiting
<1>7. FutureInv'
  BY <1>2 DEF FutureInv, Free, Waiting
<1>8. WakeupsMatch'
  <2>1. ASSUME NEW u \in Callers, pc'[u] \in {"set", "call"}
        PROVE  u # c /\ pc[u] = pc'[u]
    BY <2>1, <1>2 DEF Free
  <2>2. ASSUME NEW u \in Callers, pc[u] \in {"set", "call"}
        PROVE  u # c /\ pc[u] = pc'[u]
    BY <2>2, <1>2 DEF Free
  <2>3. \A d \in Callers : Granted(d) => pc'[d] = pc[d]
    BY <1>2 DEF Granted, Free, Waiting
  <2> QED BY <1>4, <2>1, <2>2, <2>3 DEF WakeupsMatch
<1>9. MessengerInv'
  BY <1>2 DEF MessengerInv, Free
<1> QED BY <1>1, <1>3, <1>5, <1>6, <1>7, <1>8, <1>9

-----------------------------------------------------------------------------
(* The other steps, one lemma each.                                        *)

\* A compare-exchange of lock() or try_lock() or lock()'s fetch_add finds the
\* counter at 0: nobody owned the mutex, so c is its only owner.
LEMMA AcquireStep ==
    ASSUME IInv, NEW c \in Callers, pc[c] \in Free, mCountOfWaiter = 0,
           mCountOfWaiter' = 1,
           pc' = [pc EXCEPT ![c] = "cs"],
           spin' \in [Callers -> 0..(SpinLimit - 1)],
           UNCHANGED <<mWaiter, ptr, next>>
    PROVE  IInv'
<1> USE DEF IInv
<1>1. TypeOK'
  BY DEF TypeOK, Locations
<1>2. \A d \in Callers : pc'[d] = IF d = c THEN "cs" ELSE pc[d]
  BY DEF TypeOK
<1>3. Counted = {}
  BY CountedStep
<1>4. \A d \in Callers : pc[d] \notin Waiting \cup {"push", "cs"} /\ ~Owner(d)
  BY <1>3 DEF OwnedInv, Counted
<1>5. Counted' = Counted \cup {c} /\ c \notin Counted
  BY <1>2, <1>3, <1>4 DEF Counted
<1>6. CountInv'
  <2>1. Cardinality(Counted') = mCountOfWaiter + 1
    BY <1>5, CountedStep
  <2> QED BY <2>1 DEF CountInv
<1>7. \A d \in Callers : /\ Queued(d)' = Queued(d)
                         /\ ~Granted(d) /\ ~Granted(d)'
                         /\ Owner(d)' <=> d = c
  BY <1>2, <1>4 DEF Queued, Granted, Owner, Waiting
<1>8. MutualExclusion' /\ OwnedInv'
  BY <1>5, <1>7 DEF MutualExclusion, OwnedInv
<1>9. QueueInv'
  BY <1>2, <1>4, <1>7 DEF QueueInv, Free, Waiting
<1>10. FutureInv'
  BY <1>2, <1>4 DEF FutureInv, Free, Waiting
<1>11. WakeupsMatch' /\ MessengerInv'
  BY <1>2, <1>7 DEF WakeupsMatch, MessengerInv
<1> QED BY <1>1, <1>6, <1>8, <1>9, <1>10, <1>11

\* lock()'s fetch_add finds somebody counted: c waits, the owner stays.
LEMMA FetchAddStep ==
    ASSUME IInv, NEW c \in Callers, FetchAdd(c)
    PROVE  IInv'
<1> USE DEF IInv
<1>0. mCountOfWaiter \in Nat /\ pc[c] = "add" /\ "add" \in Free
  BY DEF FetchAdd, TypeOK, Free
<1>1. CASE mCountOfWaiter = 0
  <2>1. mCountOfWaiter' = 1 /\ pc' = [pc EXCEPT ![c] = "cs"]
    BY <1>0, <1>1 DEF FetchAdd, FirstIn, Goto
  <2> QED BY <1>0, <1>1, <2>1, AcquireStep DEF FetchAdd, TypeOK
<1>2. CASE mCountOfWaiter # 0
  <2>0. mCountOfWaiter + 1 # 1
    BY <1>0, <1>2
  <2>1. mCountOfWaiter' = mCountOfWaiter + 1 /\ pc' = [pc EXCEPT ![c] = "push"]
    BY <2>0 DEF FetchAdd, FirstIn, Goto
  <2>2. UNCHANGED <<mWaiter, ptr, spin, next>>
    BY DEF FetchAdd
  <2>3. TypeOK'
    BY <1>0, <2>1, <2>2 DEF TypeOK, Locations
  <2>4. \A d \in Callers : pc'[d] = IF d = c THEN "push" ELSE pc[d]
    BY <2>1 DEF TypeOK
  <2>5. Counted' = Counted \cup {c} /\ c \notin Counted
    BY <1>0, <2>4 DEF Counted, Waiting
  <2>6. CountInv' /\ Counted # {}
    BY <1>2, <2>1, <2>5, CountedStep DEF CountInv
  <2>7. \A d \in Callers : /\ Queued(d)' = Queued(d)
                           /\ Granted(d)' = Granted(d)
                           /\ Owner(d)' = Owner(d)
    BY <1>0, <2>2, <2>4 DEF Queued, Granted, Owner, Waiting
  <2>8. MutualExclusion' /\ OwnedInv'
    BY <2>5, <2>6, <2>7 DEF MutualExclusion, OwnedInv
  <2>9. QueueInv' /\ FutureInv'
    BY <1>0, <2>2, <2>4, <2>7 DEF QueueInv, FutureInv, Waiting
  <2>10. MessengerInv' /\ \A u \in Callers :
           /\ pc'[u] = "set" <=> pc[u] = "set"
           /\ pc'[u] = "call" <=> pc[u] = "call"
           /\ pc'[u] = "suspended" <=> pc[u] = "suspended"
    BY <1>0, <2>4 DEF MessengerInv
  <2>11. WakeupsMatch'
    BY <2>2, <2>7, <2>10 DEF WakeupsMatch
  <2> QED BY <2>3, <2>6, <2>8, <2>9, <2>10, <2>11
<1> QED BY <1>1, <1>2

\* addToWaiter(): c becomes a waiter without being granted anything.
LEMMA AddToWaiterStep ==
    ASSUME IInv, NEW c \in Callers, AddToWaiter(c)
    PROVE  IInv'
<1> USE DEF IInv
<1>1. /\ pc[c] = "push"
      /\ pc' = [pc EXCEPT ![c] = "await"]
      /\ mWaiter \in Seq(Callers)
      /\ mWaiter' = Append(mWaiter, c)
      /\ UNCHANGED <<mCountOfWaiter, ptr, spin, next>>
  BY DEF AddToWaiter, Goto, TypeOK
<1>2. /\ mWaiter' \in Seq(Callers)
      /\ \A d \in Callers : Queued(d)' <=> Queued(d) \/ d = c
      /\ Distinct(mWaiter) /\ ~Queued(c) => Distinct(mWaiter')
  BY <1>1, PushLemma DEF Queued
<1>3. TypeOK'
  BY <1>1, <1>2 DEF TypeOK, Locations, Waiting
<1>4. \A d \in Callers : pc'[d] = IF d = c THEN "await" ELSE pc[d]
  BY <1>1 DEF TypeOK
<1>5. ~Queued(c) /\ ptr[c] = "Empty"
  BY <1>1 DEF QueueInv, FutureInv, Waiting
<1>6. Counted' = Counted
  BY <1>1, <1>4 DEF Counted, Waiting
<1>7. \A d \in Callers : Granted(d)' = Granted(d) /\ Owner(d)' = Owner(d)
  BY <1>1, <1>2, <1>4 DEF Granted, Owner, Waiting
<1>8. CountInv' /\ MutualExclusion' /\ OwnedInv'
  BY <1>1, <1>6, <1>7 DEF CountInv, MutualExclusion, OwnedInv
<1>9. QueueInv' /\ FutureInv'
  BY <1>1, <1>2, <1>4, <1>5 DEF QueueInv, FutureInv, Waiting
<1>10. MessengerInv' /\ \A u \in Callers :
         /\ pc'[u] = "set" <=> pc[u] = "set"
         /\ pc'[u] = "call" <=> pc[u] = "call"
         /\ pc'[u] = "suspended" <=> pc[u] = "suspended"
  BY <1>1, <1>4 DEF MessengerInv
<1>11. WakeupsMatch'
  BY <1>1, <1>7, <1>10 DEF WakeupsMatch
<1> QED BY <1>3, <1>8, <1>9, <1>10, <1>11

\* await(p) finds the future set: c was granted the mutex and enters.
LEMMA EnterStep ==
    ASSUME IInv, NEW c \in Callers, pc[c] \in {"await", "suspend"}, ptr[c] = "Invalid",
           pc' = [pc EXCEPT ![c] = "cs"], ptr' = [ptr EXCEPT ![c] = "Empty"],
           UNCHANGED <<mCountOfWaiter, mWaiter, spin, next>>
    PROVE  IInv'
<1> USE DEF IInv
<1>1. TypeOK'
  BY DEF TypeOK, Locations
<1>2. \A d \in Callers : /\ pc'[d] = IF d = c THEN "cs" ELSE pc[d]
                         /\ ptr'[d] = IF d = c THEN "Empty" ELSE ptr[d]
  BY DEF TypeOK
<1>3. Granted(c) /\ Owner(c) /\ \A d \in Callers : Queued(d)' = Queued(d)
  BY DEF QueueInv, Granted, Owner, Queued, Waiting
<1>4. Counted' = Counted
  BY <1>2 DEF Counted, Waiting
<1>5. \A d \in Callers : /\ Owner(d)' = Owner(d)
                         /\ Granted(d)' <=> Granted(d) /\ d # c
  BY <1>2, <1>3 DEF Granted, Owner, Waiting
<1>6. CountInv' /\ MutualExclusion' /\ OwnedInv'
  BY <1>4, <1>5 DEF CountInv, MutualExclusion, OwnedInv
<1>7. QueueInv' /\ FutureInv'
  BY <1>2, <1>3 DEF QueueInv, FutureInv, Granted, Waiting
<1>8. MessengerInv' /\ \A u \in Callers :
         /\ pc'[u] = "set" <=> pc[u] = "set"
         /\ pc'[u] = "call" <=> pc[u] = "call"
  BY <1>2 DEF MessengerInv
<1>9. WakeupsMatch'
  <2>1. \A u \in Callers : pc[u] \in {"set", "call"} => next[u] # c
    BY DEF WakeupsMatch
  <2> QED BY <1>2, <1>5, <1>8, <2>1 DEF WakeupsMatch
<1> QED BY <1>1, <1>6, <1>7, <1>8, <1>9

\* await(p) goes one step further towards sleeping.
LEMMA SleepStep ==
    ASSUME IInv, NEW c \in Callers, NEW loc, NEW p, ptr[c] # "Invalid",
           \/ pc[c] = "await" /\ loc = "suspend" /\ p = ptr[c]
           \/ pc[c] = "suspend" /\ loc = "suspended" /\ p = "Task",
           pc' = [pc EXCEPT ![c] = loc], ptr' = [ptr EXCEPT ![c] = p],
           UNCHANGED <<mCountOfWaiter, mWaiter, spin, next>>
    PROVE  IInv'
<1> USE DEF IInv
<1>1. TypeOK'
  BY DEF TypeOK, Locations, Waiting
<1>2. \A d \in Callers : /\ pc'[d] = IF d = c THEN loc ELSE pc[d]
                         /\ ptr'[d] = IF d = c THEN p ELSE ptr[d]
  BY DEF TypeOK
<1>3. p # "Invalid" /\ loc \in {"suspend", "suspended"}
  OBVIOUS
<1>4. Counted' = Counted
  BY <1>2 DEF Counted, Waiting
<1>5. \A d \in Callers : /\ Queued(d)' = Queued(d)
                         /\ Granted(d)' = Granted(d)
                         /\ Owner(d)' = Owner(d)
  BY <1>2 DEF Queued, Granted, Owner, Waiting
<1>6. CountInv' /\ MutualExclusion' /\ OwnedInv'
  BY <1>4, <1>5 DEF CountInv, MutualExclusion, OwnedInv
<1>7. QueueInv'
  BY <1>2, <1>3, <1>5 DEF QueueInv, Waiting
<1>8. FutureInv'
  BY <1>2 DEF FutureInv, Waiting
<1>9. MessengerInv' /\ \A u \in Callers :
         /\ pc'[u] = "set" <=> pc[u] = "set"
         /\ pc'[u] = "call" <=> pc[u] = "call"
  BY <1>2, <1>3 DEF MessengerInv
<1>10. WakeupsMatch'
  <2>1. \A u \in Callers : pc[u] = "call" => next[u] # c
    BY DEF WakeupsMatch
  <2> QED BY <1>2, <1>3, <1>5, <1>9, <2>1 DEF WakeupsMatch
<1> QED BY <1>1, <1>6, <1>7, <1>8, <1>9, <1>10

\* await(p) looks whether its future is set: one of the two cases above.
LEMMA AwaitReadyStep ==
    ASSUME IInv, NEW c \in Callers, AwaitReady(c)
    PROVE  IInv'
<1>1. CASE ptr[c] = "Invalid"
  BY <1>1, EnterStep DEF AwaitReady, Goto
<1>2. CASE ptr[c] # "Invalid"
  <2>1. ptr' = [ptr EXCEPT ![c] = ptr[c]]
    BY <1>2 DEF AwaitReady, IInv, TypeOK
  <2> QED BY <1>2, <2>1, SleepStep DEF AwaitReady, Goto
<1> QED BY <1>1, <1>2

\* suspend() finds the future set or goes to sleep: one of the two cases above.
LEMMA SuspendStep ==
    ASSUME IInv, NEW c \in Callers, Suspend(c)
    PROVE  IInv'
<1>1. ptr[c] \in {"Empty", "Invalid"}
  BY DEF Suspend, IInv, FutureInv, TypeOK
<1>2. CASE ptr[c] = "Invalid"
  BY <1>2, EnterStep DEF Suspend, Goto
<1>3. CASE ptr[c] = "Empty"
  BY <1>3, SleepStep DEF Suspend, Goto
<1> QED BY <1>1, <1>2, <1>3

\* unlock()'s fetch_sub: c stays responsible while anybody is still counted.
LEMMA UnlockStepInv ==
    ASSUME IInv, NEW c \in Callers, Unlock(c)
    PROVE  IInv'
<1> USE DEF IInv
<1> DEFINE loc == IF LastOut(mCountOfWaiter - 1) THEN "idle" ELSE "pop"
<1>1. /\ pc[c] = "cs"
      /\ mCountOfWaiter' = mCountOfWaiter - 1
      /\ pc' = [pc EXCEPT ![c] = loc]
      /\ UNCHANGED <<mWaiter, ptr, spin, next>>
  BY DEF Unlock, Goto
<1>2. loc \in {"idle", "pop"} /\ (loc = "idle" <=> mCountOfWaiter - 1 = 0)
  BY DEF LastOut
<1> HIDE DEF loc
<1>3. \A d \in Callers : pc'[d] = IF d = c THEN loc ELSE pc[d]
  BY <1>1 DEF TypeOK
<1>4. Counted' = Counted \ {c} /\ c \in Counted
  BY <1>1, <1>2, <1>3 DEF Counted, Waiting
<1>5. mCountOfWaiter \in Nat /\ mCountOfWaiter # 0
  BY <1>4, CountedStep
<1>6. TypeOK'
  <2>1. mCountOfWaiter - 1 \in Nat
    BY <1>5
  <2> QED BY <1>1, <1>2, <2>1 DEF TypeOK, Locations
<1>7. CountInv'
  <2>1. Cardinality(Counted') = mCountOfWaiter - 1
    BY <1>4, CountedStep
  <2> QED BY <1>1, <2>1 DEF CountInv
<1>8. loc = "idle" <=> Counted' = {}
  <2>1. Cardinality(Counted') = 0 <=> Counted' = {}
    BY <1>4, CountedFinite, FS_RemoveElement, FS_EmptySet
  <2> QED BY <1>1, <1>2, <1>7, <2>1 DEF CountInv
<1>9. \A d \in Callers : Queued(d)' = Queued(d) /\ Granted(d)' = Granted(d)
  BY <1>1, <1>2, <1>3 DEF Queued, Granted, Waiting
<1>10. \A d \in Callers : Owner(d)' <=> d = c /\ loc = "pop"
  <2>1. \A d \in Callers : Owner(d) => d = c
    BY <1>1 DEF MutualExclusion, Owner
  <2>2. ~Granted(c)
    BY <1>1 DEF Granted, Waiting
  <2> QED BY <1>1, <1>2, <1>3, <1>9, <2>1, <2>2 DEF Owner
<1>11. MutualExclusion' /\ OwnedInv'
  BY <1>2, <1>8, <1>10 DEF MutualExclusion, OwnedInv
<1>12. QueueInv' /\ FutureInv'
  BY <1>1, <1>2, <1>3, <1>9 DEF QueueInv, FutureInv, Waiting
<1>13. MessengerInv' /\ \A u \in Callers :
         /\ pc'[u] = "set" <=> pc[u] = "set"
         /\ pc'[u] = "call" <=> pc[u] = "call"
         /\ pc'[u] = "suspended" <=> pc[u] = "suspended"
  BY <1>1, <1>2, <1>3 DEF MessengerInv
<1>14. WakeupsMatch'
  BY <1>1, <1>9, <1>13 DEF WakeupsMatch
<1> QED BY <1>6, <1>7, <1>11, <1>12, <1>13, <1>14

\* getNextWaiter(): the ownership moves from c to the waiter it took.
LEMMA GetNextWaiterStep ==
    ASSUME IInv, NEW c \in Callers, GetNextWaiter(c)
    PROVE  IInv'
<1> USE DEF IInv
<1> DEFINE w == mWaiter[NextIndex(mWaiter)]
<1>1. /\ pc[c] = "pop"
      /\ mWaiter \in Seq(Callers) /\ mWaiter # <<>>
      /\ next' = [next EXCEPT ![c] = w]
      /\ mWaiter' = Without(mWaiter)
      /\ pc' = [pc EXCEPT ![c] = "set"]
      /\ UNCHANGED <<mCountOfWaiter, ptr, spin>>
  BY DEF GetNextWaiter, Goto, TypeOK
<1>2. /\ mWaiter' \in Seq(Callers)
      /\ w \in Callers /\ Queued(w)
      /\ Distinct(mWaiter')
      /\ \A d \in Callers : Queued(d)' <=> Queued(d) /\ d # w
  BY <1>1, PopLemma DEF QueueInv, Queued
<1> HIDE DEF w
<1>3. TypeOK'
  BY <1>1, <1>2 DEF TypeOK, Locations
<1>4. \A d \in Callers : /\ pc'[d] = IF d = c THEN "set" ELSE pc[d]
                         /\ next'[d] = IF d = c THEN w ELSE next[d]
  BY <1>1 DEF TypeOK
<1>5. pc[w] \in Waiting /\ ptr[w] # "Invalid" /\ w # c
  BY <1>1, <1>2 DEF QueueInv, Waiting
<1>6. Counted' = Counted /\ Counted # {}
  BY <1>1, <1>2, <1>4, <1>5 DEF Counted, Waiting
<1>7. \A d \in Callers : Owner(d) => d = c
  BY <1>1 DEF MutualExclusion, Owner
<1>8. \A d \in Callers : ~Granted(d) /\ (Granted(d)' <=> d = w)
  <2>1. \A d \in Callers : ~Granted(d)
    BY <1>1, <1>7 DEF Owner, Granted, Waiting
  <2>2. \A d \in Callers : pc'[d] \in Waiting <=> pc[d] \in Waiting
    BY <1>1, <1>4 DEF Waiting
  <2> QED BY <1>2, <1>5, <2>1, <2>2 DEF Granted
<1>9. \A d \in Callers : Owner(d)' <=> d = w
  <2>1. \A d \in Callers : pc'[d] \notin {"cs", "pop"}
    BY <1>4, <1>7 DEF Owner
  <2> QED BY <1>8, <2>1 DEF Owner
<1>10. CountInv' /\ MutualExclusion' /\ OwnedInv'
  BY <1>1, <1>2, <1>6, <1>9 DEF CountInv, MutualExclusion, OwnedInv
<1>11. QueueInv' /\ FutureInv'
  BY <1>1, <1>2, <1>4 DEF QueueInv, FutureInv, Waiting
<1>12. \A u \in Callers : pc[u] \notin {"set", "call"}
  BY <1>8 DEF WakeupsMatch
<1>13. MessengerInv'
  BY <1>4, <1>12 DEF MessengerInv
<1>14. WakeupsMatch'
  BY <1>1, <1>2, <1>4, <1>5, <1>8, <1>12 DEF WakeupsMatch
<1> QED BY <1>3, <1>10, <1>11, <1>13, <1>14

\* on_ready(): the waiter's future is set once; either the waiter will look,
\* or it sleeps and c has its continuation to call.
LEMMA SetValueStep ==
    ASSUME IInv, NEW c \in Callers, SetValue(c)
    PROVE  IInv'
<1> USE DEF IInv
<1> DEFINE w == next[c]
           task == ptr[w] = "Task"
<1>1. /\ pc[c] = "set"
      /\ ptr' = [ptr EXCEPT ![w] = "Invalid"]
      /\ pc' = [pc EXCEPT ![c] = IF task THEN "call" ELSE "idle"]
      /\ next' = IF task THEN next ELSE [next EXCEPT ![c] = NoCaller]
      /\ UNCHANGED <<mCountOfWaiter, mWaiter, spin>>
  BY DEF SetValue, MustCall, Goto
<1>2. w \in Callers /\ Granted(w) /\ ptr[w] # "Invalid" /\ w # c
  BY <1>1 DEF WakeupsMatch, Granted, Waiting
<1>3. pc[w] = "suspended" <=> task
  BY <1>2 DEF FutureInv, Granted, Waiting, TypeOK
<1>4. \A d \in Callers :
        /\ pc'[d] = IF d = c THEN (IF task THEN "call" ELSE "idle") ELSE pc[d]
        /\ ptr'[d] = IF d = w THEN "Invalid" ELSE ptr[d]
        /\ d # c => next'[d] = next[d]
        /\ d = c /\ task => next'[d] = w
  BY <1>1, <1>2 DEF TypeOK
<1>5. TypeOK'
  BY <1>1, <1>2 DEF TypeOK, Locations
<1> HIDE DEF w, task
<1>6. Counted' = Counted
  BY <1>1, <1>4 DEF Counted, Waiting
<1>7. \A d \in Callers : /\ Queued(d)' = Queued(d)
                         /\ Granted(d)' = Granted(d)
                         /\ Owner(d)' = Owner(d)
  BY <1>1, <1>4 DEF Queued, Granted, Owner, Waiting
<1>8. CountInv' /\ MutualExclusion' /\ OwnedInv'
  BY <1>1, <1>6, <1>7 DEF CountInv, MutualExclusion, OwnedInv
<1>9. QueueInv'
  BY <1>1, <1>2, <1>4, <1>7 DEF QueueInv, Granted, Waiting
<1>10. FutureInv'
  BY <1>1, <1>2, <1>4 DEF FutureInv, Granted, Waiting
<1>11. \A u \in Callers : pc[u] \in {"set", "call"} <=> u = c
  BY <1>1 DEF MessengerInv
<1>12. \A u \in Callers : pc'[u] # "set" /\ (pc'[u] = "call" <=> u = c /\ task)
  BY <1>4, <1>11
<1>13. MessengerInv'
  BY <1>12 DEF MessengerInv
<1>14. \A d \in Callers : Granted(d) => d = w
  BY <1>2 DEF MutualExclusion, Owner
<1>15. WakeupsMatch'
  BY <1>2, <1>3, <1>4, <1>7, <1>12, <1>14 DEF WakeupsMatch
<1> QED BY <1>5, <1>8, <1>9, <1>10, <1>13, <1>15

\* The continuation is called: the sleeping waiter goes on as the holder.
LEMMA CallContinuationStep ==
    ASSUME IInv, NEW c \in Callers, CallContinuation(c)
    PROVE  IInv'
<1> USE DEF IInv
<1> DEFINE w == next[c]
<1>0. pc[c] = "call"
  BY DEF CallContinuation
<1>1. /\ pc' = [pc EXCEPT ![c] = "idle", ![w] = "cs"]
      /\ ptr' = [ptr EXCEPT ![w] = "Empty"]
      /\ next' = [next EXCEPT ![c] = NoCaller]
      /\ UNCHANGED <<mCountOfWaiter, mWaiter, spin>>
  BY DEF CallContinuation
<1>2. w \in Callers /\ Granted(w) /\ pc[w] = "suspended" /\ w # c
  BY <1>0 DEF WakeupsMatch
<1> HIDE DEF w
<1>3. \A d \in Callers :
        /\ pc'[d] = IF d = w THEN "cs" ELSE IF d = c THEN "idle" ELSE pc[d]
        /\ ptr'[d] = IF d = w THEN "Empty" ELSE ptr[d]
  BY <1>1, <1>2 DEF TypeOK
<1>4. TypeOK'
  BY <1>1, <1>2 DEF TypeOK, Locations
<1>5. Counted' = Counted
  BY <1>0, <1>2, <1>3 DEF Counted, Waiting
<1>6. \A d \in Callers : Owner(d) => d = w
  BY <1>2 DEF MutualExclusion, Owner
<1>7. \A d \in Callers : /\ Queued(d)' = Queued(d)
                         /\ ~Granted(d)'
                         /\ Owner(d)' <=> d = w
  <2>1. \A d \in Callers : Queued(d)' = Queued(d)
    BY <1>1 DEF Queued
  <2>2. \A d \in Callers : ~Granted(d)'
    BY <1>2, <1>3, <1>6, <2>1 DEF Granted, Owner, Waiting
  <2>3. \A d \in Callers : pc'[d] \in {"cs", "pop"} <=> d = w
    BY <1>3, <1>6 DEF Owner
  <2> QED BY <2>1, <2>2, <2>3 DEF Owner
<1>8. CountInv' /\ MutualExclusion' /\ OwnedInv'
  <2>1. Counted # {}
    BY <1>2 DEF OwnedInv, Owner
  <2> QED BY <1>1, <1>2, <1>5, <1>7, <2>1 DEF CountInv, MutualExclusion, OwnedInv
<1>9. QueueInv'
  <2>1. Distinct(mWaiter)'
    BY <1>1 DEF QueueInv, Distinct
  <2>2. \A d \in Callers : Queued(d) => d # c /\ d # w
    BY <1>0, <1>2 DEF QueueInv, Granted, Waiting
  <2> QED BY <1>3, <1>7, <2>1, <2>2 DEF QueueInv
<1>10. FutureInv'
  BY <1>0, <1>2, <1>3 DEF FutureInv, Waiting
<1>11. \A u \in Callers : pc'[u] \notin {"set", "call"}
  BY <1>0, <1>3 DEF MessengerInv
<1>12. MessengerInv' /\ WakeupsMatch'
  BY <1>7, <1>11 DEF MessengerInv, WakeupsMatch
<1> QED BY <1>4, <1>8, <1>9, <1>10, <1>12

-----------------------------------------------------------------------------
\* The state after the constructor of BaseMutex satisfies IInv.
LEMMA InitInv == Init => IInv
<1> SUFFICES ASSUME Init PROVE IInv
  OBVIOUS
<1> USE DEF Init
<1>1. TypeOK
  BY SpinLimitPositive DEF TypeOK, Locations
<1>2. Counted = {}
  BY DEF Counted, Waiting
<1>3. \A c \in Callers : ~Queued(c) /\ ~Granted(c) /\ ~Owner(c)
  BY DEF Queued, In, Granted, Owner, Waiting
<1>4. CountInv
  BY <1>2, FS_EmptySet DEF CountInv
<1>5. MutualExclusion /\ OwnedInv /\ QueueInv
  BY <1>2, <1>3 DEF MutualExclusion, OwnedInv, QueueInv, Distinct
<1>6. FutureInv /\ WakeupsMatch /\ MessengerInv
  BY <1>3 DEF FutureInv, WakeupsMatch, MessengerInv, Waiting
<1> QED BY <1>1, <1>4, <1>5, <1>6 DEF IInv

\* The inductive step: every action of every caller preserves IInv.
LEMMA NextInv == IInv /\ [Next]_vars => IInv'
<1> SUFFICES ASSUME IInv, [Next]_vars PROVE IInv'
  OBVIOUS
<1>1. ASSUME NEW c \in Callers, LockCall(c) PROVE IInv'
  BY <1>1, FreeStep DEF LockCall, Goto, Free, IInv, TypeOK
<1>2. ASSUME NEW c \in Callers, SpinAcquire(c) PROVE IInv'
  <2>1. spin' \in [Callers -> 0..(SpinLimit - 1)]
    BY <1>2, SpinLimitPositive DEF SpinAcquire, IInv, TypeOK
  <2> QED BY <1>2, <2>1, AcquireStep DEF SpinAcquire, Goto, Free
<1>3. ASSUME NEW c \in Callers, SpinFail(c) PROVE IInv'
  <2> DEFINE stop == StopSpinning(mCountOfWaiter, spin[c])
             loc == IF stop THEN "add" ELSE "spin"
  <2>1. pc' = [pc EXCEPT ![c] = loc]
    BY <1>3 DEF SpinFail, Goto, IInv, TypeOK
  <2>2. spin' \in [Callers -> 0..(SpinLimit - 1)]
    <3>1. spin[c] \in 0..(SpinLimit - 1)
      BY DEF IInv, TypeOK
    <3>2. stop \/ spin[c] + 1 \in 0..(SpinLimit - 1)
      BY <3>1, SpinLimitPositive DEF StopSpinning
    <3>3. 0 \in 0..(SpinLimit - 1)
      BY SpinLimitPositive
    <3> QED BY <1>3, <3>2, <3>3 DEF SpinFail, IInv, TypeOK
  <2>3. loc \in Free /\ pc[c] \in Free
    BY <1>3 DEF SpinFail, Free
  <2> HIDE DEF loc
  <2> QED BY <1>3, <2>1, <2>2, <2>3, FreeStep DEF SpinFail
<1>4. ASSUME NEW c \in Callers, TryLock(c) PROVE IInv'
  BY <1>4, AcquireStep DEF TryLock, Goto, Free, IInv, TypeOK
<1>5. ASSUME NEW c \in Callers, TryLockFail(c) \/ GiveUp(c) PROVE IInv'
  BY <1>5, FreeStep DEF TryLockFail, GiveUp, Goto, Free, IInv, TypeOK
<1>6. CASE UNCHANGED vars
  BY <1>6 DEF vars, IInv, TypeOK, CountInv, MutualExclusion, OwnedInv, QueueInv,
      FutureInv, WakeupsMatch, MessengerInv, Counted, Owner, Granted, Queued
<1> QED
  BY <1>1, <1>2, <1>3, <1>4, <1>5, <1>6, FetchAddStep, AddToWaiterStep,
     AwaitReadyStep, SuspendStep, UnlockStepInv, GetNextWaiterStep, SetValueStep,
     CallContinuationStep DEF Next, LockStep, UnlockStep

\* IInv is an invariant of the mutex.
THEOREM Invariance == Spec => []IInv
BY InitInv, NextInv, PTL DEF Spec

\* TypeOK for every number of callers: in particular the counter never goes
\* below 0, which is what the asserts of lock(), try_lock() and unlock() say.
THEOREM TypeCorrect == Spec => []TypeOK
<1>1. IInv => TypeOK
  BY DEF IInv
<1> QED BY <1>1, Invariance, PTL

\* At most one caller owns the mutex, hand-over included.
THEOREM Exclusion == Spec => []MutualExclusion
<1>1. IInv => MutualExclusion
  BY DEF IInv
<1> QED BY <1>1, Invariance, PTL

\* Whenever somebody is counted somebody is going to run unlock().
THEOREM NobodyStranded == Spec => []NoStrandedWaiter
<1>1. IInv => NoStrandedWaiter
  BY DEF IInv, OwnedInv, NoStrandedWaiter
<1> QED BY <1>1, Invariance, PTL

\* No wakeup is lost, doubled or sent to a future that is gone.
THEOREM Wakeups == Spec => []WakeupsMatch
<1>1. IInv => WakeupsMatch
  BY DEF IInv
<1> QED BY <1>1, Invariance, PTL

\* When the counter is 0, as ~BaseMutex() asserts, no unlock() and no lock() that
\* has counted itself is still inside of the mutex.
THEOREM Destruction == Spec => []DestroySafe
<1>1. IInv => DestroySafe
  <2> SUFFICES ASSUME IInv, mCountOfWaiter = 0
               PROVE  /\ mWaiter = <<>>
                      /\ \A c \in Callers : pc[c] \in {"idle", "spin", "add", "failed"}
    BY DEF DestroySafe
  <2>1. Counted = {} /\ \A c \in Callers : ~Owner(c) /\ ~Granted(c)
    BY CountedStep DEF IInv, OwnedInv, Owner
  <2>2. \A c \in Callers : pc[c] \in {"idle", "spin", "add", "failed", "set", "call"}
    BY <2>1 DEF IInv, TypeOK, Counted, Owner, Locations, Waiting
  <2>3. \A c \in Callers : pc[c] \notin {"set", "call"}
    BY <2>1 DEF IInv, WakeupsMatch
  <2>4. \A c \in Callers : ~Queued(c)
    BY <2>2, <2>3 DEF IInv, QueueInv, Waiting
  <2>5. mWaiter \in Seq(Callers)
    BY DEF IInv, TypeOK
  <2>6. Len(mWaiter) \in Nat /\ \A i \in 1..Len(mWaiter) : mWaiter[i] \in Callers
    BY <2>5, LenProperties
  <2>7. Len(mWaiter) = 0
    BY <2>4, <2>6 DEF Queued, In
  <2>8. mWaiter = <<>>
    BY <2>5, <2>7, EmptySeq
  <2> QED BY <2>2, <2>3, <2>8
<1> QED BY <1>1, Invariance, PTL
-----------------------------------------------------------------------------
(* The mutex implements AbstractMutex.                                     *)

\* TheOwner is the one caller that owns the mutex, if there is one.
OwnerFacts ==
    /\ \A c \in Callers : Owner(c) <=> TheOwner = c
    /\ (\A c \in Callers : ~Owner(c)) <=> TheOwner = NoCaller

\* The refinement mapping is well defined: there is one owner or none.
LEMMA OwnerDefined == MutualExclusion => OwnerFacts
BY NoCallerFresh DEF MutualExclusion, OwnerFacts, TheOwner

\* When the last one leaves, and while nobody is counted, the queue is empty.
LEMMA UncountedQueueEmpty == IInv /\ Counted = {} => mWaiter = <<>>
<1> SUFFICES ASSUME IInv, Counted = {} PROVE mWaiter = <<>>
  OBVIOUS
<1>1. mWaiter \in Seq(Callers)
  BY DEF IInv, TypeOK
<1>2. Len(mWaiter) \in Nat /\ \A i \in 1..Len(mWaiter) : mWaiter[i] \in Callers
  BY <1>1, LenProperties
<1>3. \A c \in Callers : ~Queued(c)
  BY DEF IInv, QueueInv, Counted, Waiting
<1>4. Len(mWaiter) = 0
  BY <1>2, <1>3 DEF Queued, In
<1> QED BY <1>1, <1>4, EmptySeq

\* The steps of the code are steps of the abstract mutex: a successful
\* compare-exchange acquires, addToWaiter() enqueues, the last fetch_sub
\* releases, the pop hands over, and all the others are invisible.
LEMMA RefinementStep ==
    ASSUME IInv, [Next]_vars
    PROVE  [Abs!Next]_(Abs!vars)
<1>1. IInv' /\ OwnerFacts /\ OwnerFacts'
  <2>1. IInv' /\ OwnerFacts
    BY NextInv, OwnerDefined DEF IInv
  <2>2. (MutualExclusion => OwnerFacts)'
    BY OwnerDefined, PTL
  <2> QED BY <2>1, <2>2 DEF IInv
<1>2. TypeOK /\ TypeOK'
  BY <1>1 DEF IInv
<1>3. (mWaiter = <<>> \/ Counted # {}) /\ (mWaiter' = <<>> \/ Counted' # {})
  <2>1. (IInv /\ Counted = {} => mWaiter = <<>>)'
    BY UncountedQueueEmpty, PTL
  <2> QED BY <1>1, <2>1, UncountedQueueEmpty
<1>4. ASSUME mWaiter' = mWaiter, \A d \in Callers : Owner(d)' <=> Owner(d)
      PROVE  UNCHANGED Abs!vars
  BY <1>1, <1>4 DEF OwnerFacts, Abs!vars
<1>5. ASSUME NEW c \in Callers, Owner(c)', \A d \in Callers : ~Owner(d), mWaiter' = mWaiter
      PROVE  Abs!Next
  <2>1. Abs!Acquire(c)
    BY <1>1, <1>5 DEF OwnerFacts, Abs!Acquire
  <2> QED BY <2>1 DEF Abs!Next
<1>6. mCountOfWaiter = 0 => \A d \in Callers : ~Owner(d)
  BY CountedStep DEF IInv, OwnedInv
<1>7. ASSUME NEW c \in Callers, LockCall(c) \/ SpinFail(c) \/ TryLockFail(c) \/ GiveUp(c)
      PROVE  UNCHANGED Abs!vars
  <2>1. /\ mWaiter' = mWaiter
        /\ \A d \in Callers : pc'[d] = pc[d] \/ {pc[d], pc'[d]} \subseteq Free
    BY <1>2, <1>7 DEF LockCall, SpinFail, TryLockFail, GiveUp, Goto, Free, TypeOK
  <2> QED BY <1>4, <2>1 DEF Owner, Granted, Queued, Waiting, Free
<1>8. ASSUME NEW c \in Callers, SpinAcquire(c) \/ TryLock(c)
      PROVE  Abs!Next
  <2>1. pc'[c] = "cs" /\ mCountOfWaiter = 0 /\ mWaiter' = mWaiter
    BY <1>2, <1>8 DEF SpinAcquire, TryLock, Goto, TypeOK
  <2> QED BY <1>5, <1>6, <2>1 DEF Owner
<1>9. ASSUME NEW c \in Callers, FetchAdd(c)
      PROVE  [Abs!Next]_(Abs!vars)
  <2>1. mCountOfWaiter \in Nat /\ mWaiter' = mWaiter
    BY <1>2, <1>9 DEF FetchAdd, TypeOK
  <2>2. CASE mCountOfWaiter = 0
    <3>1. pc'[c] = "cs"
      BY <1>2, <1>9, <2>1, <2>2 DEF FetchAdd, FirstIn, Goto, TypeOK
    <3> QED BY <1>5, <1>6, <2>1, <2>2, <3>1 DEF Owner
  <2>3. CASE mCountOfWaiter # 0
    <3>1. mCountOfWaiter + 1 # 1
      BY <2>1, <2>3
    <3>2. \A d \in Callers : pc'[d] = IF d = c THEN "push" ELSE pc[d]
      BY <1>2, <1>9, <3>1 DEF FetchAdd, FirstIn, Goto, TypeOK
    <3>3. pc[c] = "add"
      BY <1>9 DEF FetchAdd
    <3> QED BY <1>4, <2>1, <3>2, <3>3 DEF Owner, Granted, Queued, Waiting
  <2> QED BY <2>2, <2>3
<1>10. ASSUME NEW c \in Callers, AddToWaiter(c)
       PROVE  Abs!Next
  <2>1. /\ pc[c] = "push" /\ mWaiter' = Append(mWaiter, c)
        /\ \A d \in Callers : pc'[d] = IF d = c THEN "await" ELSE pc[d]
    BY <1>2, <1>10 DEF AddToWaiter, Goto, TypeOK
  <2>2. \A d \in Callers : Queued(d)' <=> Queued(d) \/ d = c
    BY <1>2, <2>1, PushLemma DEF Queued, TypeOK
  <2>3. \A d \in Callers : Owner(d)' <=> Owner(d)
    BY <2>1, <2>2 DEF Owner, Granted, Waiting
  <2>4. ~Owner(c) /\ ~Queued(c)
    BY <2>1 DEF Owner, Granted, Waiting, IInv, QueueInv
  <2>5. \E d \in Callers : Owner(d)
    BY <2>1 DEF IInv, OwnedInv, Counted
  <2>6. Abs!Enqueue(c)
    BY <1>1, <2>1, <2>3, <2>4, <2>5 DEF OwnerFacts, Abs!Enqueue, Queued, In
  <2> QED BY <2>6 DEF Abs!Next
<1>11. ASSUME NEW c \in Callers, AwaitReady(c) \/ Suspend(c)
       PROVE  UNCHANGED Abs!vars
  <2>1. /\ mWaiter' = mWaiter
        /\ pc[c] \in Waiting
        /\ \A d \in Callers \ {c} : pc'[d] = pc[d]
        /\ pc'[c] \in Waiting \/ (pc'[c] = "cs" /\ ptr[c] = "Invalid")
    BY <1>2, <1>11 DEF AwaitReady, Suspend, Goto, TypeOK, Waiting, IInv, FutureInv
  <2>2. ptr[c] = "Invalid" => ~Queued(c)
    BY DEF IInv, QueueInv
  <2> QED BY <1>4, <2>1, <2>2 DEF Owner, Granted, Queued, Waiting
<1>12. ASSUME NEW c \in Callers, Unlock(c)
       PROVE  [Abs!Next]_(Abs!vars)
  <2>1. /\ pc[c] = "cs" /\ Owner(c)
        /\ mWaiter' = mWaiter
        /\ \A d \in Callers \ {c} : pc'[d] = pc[d]
        /\ pc'[c] \in {"idle", "pop"}
    BY <1>2, <1>12 DEF Unlock, Goto, TypeOK, Owner
  <2>2. CASE pc'[c] = "pop"
    BY <1>4, <2>1, <2>2 DEF Owner, Granted, Queued, Waiting
  <2>3. CASE pc'[c] = "idle"
    <3>1. \A d \in Callers : ~Owner(d)'
      BY <2>1, <2>3 DEF IInv, MutualExclusion, Owner, Granted, Queued, Waiting
    <3>2. mWaiter' = <<>>
      BY <1>1, <1>3, <3>1 DEF IInv, OwnedInv
    <3>3. Abs!Release
      BY <1>1, <2>1, <3>1, <3>2, NoCallerFresh DEF OwnerFacts, Abs!Release
    <3> QED BY <3>3 DEF Abs!Next
  <2> QED BY <2>1, <2>2, <2>3
<1>13. ASSUME NEW c \in Callers, GetNextWaiter(c)
       PROVE  Abs!Next
  <2>1. /\ Owner(c) /\ mWaiter # <<>> /\ mWaiter \in Seq(Callers)
        /\ mWaiter' = Without(mWaiter)
        /\ pc[c] = "pop"
        /\ pc' = [pc EXCEPT ![c] = "set"]
    BY <1>2, <1>13 DEF GetNextWaiter, Goto, TypeOK, Owner
  <2>2. PICK w \in Callers : w = mWaiter[NextIndex(mWaiter)]
    BY <2>1, PopLemma
  <2>3. Queued(w) /\ ~Queued(w)'
    BY <2>1, <2>2, PopLemma DEF IInv, QueueInv, Queued
  <2>4. pc[w] \in Waiting /\ pc'[w] = pc[w]
    BY <1>2, <2>1, <2>3 DEF IInv, QueueInv, TypeOK, Waiting
  <2>5. Owner(w)'
    BY <2>3, <2>4 DEF Owner, Granted
  <2>6. TheOwner' = w /\ TheOwner # NoCaller
    BY <1>1, <2>1, <2>5, NoCallerFresh DEF OwnerFacts
  <2>7. Abs!HandOver
    BY <2>1, <2>2, <2>6 DEF Abs!HandOver, NextIndex, Without
  <2> QED BY <2>7 DEF Abs!Next
<1>14. ASSUME NEW c \in Callers, SetValue(c)
       PROVE  UNCHANGED Abs!vars
  <2>1. /\ mWaiter' = mWaiter /\ pc[c] = "set"
        /\ \A d \in Callers : pc'[d] = IF d = c THEN pc'[c] ELSE pc[d]
        /\ pc'[c] \in {"call", "idle"}
    BY <1>2, <1>14 DEF SetValue, Goto, TypeOK
  <2> QED BY <1>4, <2>1 DEF Owner, Granted, Queued, Waiting
<1>15. ASSUME NEW c \in Callers, CallContinuation(c)
       PROVE  UNCHANGED Abs!vars
  <2> DEFINE w == next[c]
  <2>1. /\ mWaiter' = mWaiter /\ pc[c] = "call"
        /\ w \in Callers /\ Granted(w) /\ w # c
    BY <1>15 DEF CallContinuation, IInv, WakeupsMatch
  <2>2. \A d \in Callers : pc'[d] = IF d = w THEN "cs" ELSE IF d = c THEN "idle" ELSE pc[d]
    BY <1>2, <1>15, <2>1 DEF CallContinuation, TypeOK
  <2> HIDE DEF w
  <2> QED BY <1>4, <2>1, <2>2 DEF Owner, Granted, Queued, Waiting
<1>16. CASE UNCHANGED vars
  BY <1>4, <1>16 DEF vars, Owner, Granted, Queued
<1> QED
  BY <1>7, <1>8, <1>9, <1>10, <1>11, <1>12, <1>13, <1>14, <1>15, <1>16
     DEF Next, LockStep, UnlockStep

\* BaseMutex implements the abstract mutex for any finite set of callers and
\* both policies: a mutex that is being handed over is never free for a
\* newcomer, and the waiters are served in the order of the policy.
THEOREM Refinement == Spec => ImplementsAbstractMutex
<1>1. Init => Abs!Init
  <2> SUFFICES ASSUME Init PROVE Abs!Init
    OBVIOUS
  <2>1. \A c \in Callers : ~Owner(c)
    BY DEF Init, Owner, Granted, Waiting
  <2> QED BY <2>1 DEF Init, Abs!Init, TheOwner
<1>2. IInv /\ [Next]_vars => [Abs!Next]_(Abs!vars)
  BY RefinementStep
<1> QED
  BY <1>1, <1>2, Invariance, PTL DEF Spec, ImplementsAbstractMutex, Abs!Spec
=============================================================================
