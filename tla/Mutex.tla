------------------------------- MODULE Mutex -------------------------------
(***************************************************************************)
(* co::BaseMutex<PolicyT> of include/co/mutex.hpp.                         *)
(*                                                                         *)
(* Callers are the activities (threads or coroutines) that use one mutex.  *)
(* Each atomic operation of the code is one step: the compare-exchange of  *)
(* the spin phase, the fetch_add, the push under mWaiter's lock, the       *)
(* readiness check and the compare-exchange inside co::await(p), the       *)
(* fetch_sub, the pop, the exchange of LightFutureData::on_ready and the   *)
(* call of the continuation it found.                                      *)
(***************************************************************************)
EXTENDS Integers, Sequences, FiniteSets

CONSTANTS Callers,     \* activities that lock and unlock the mutex
          NoCaller,    \* the null pointer of unlock()'s local "next"
          FairPolicy,  \* TRUE: FairPolicy (FIFO), FALSE: HighThroughputPolicy
          WeakCas,     \* TRUE: compare_exchange_weak may fail spuriously
          SpinLimit    \* iterations of lock()'s spin loop (8 in the code)

ASSUME CallersFinite == IsFiniteSet(Callers)
ASSUME NoCallerFresh == NoCaller \notin Callers
ASSUME SwitchesBoolean == FairPolicy \in BOOLEAN /\ WeakCas \in BOOLEAN
ASSUME SpinLimitPositive == SpinLimit \in Nat \ {0}

VARIABLES mCountOfWaiter,  \* std::atomic<int>: the holder plus the waiters
          mWaiter,         \* the waiters' futures, in the order of addToWaiter
          ptr,             \* ptr[c]: continuationPtr of the future p of c's lock()
          pc,              \* pc[c]: where c is in lock(), try_lock(), unlock()
          spin,            \* spin[c]: the loop variable i of lock()
          next             \* next[c]: the waiter c's unlock() took from mWaiter

vars == <<mCountOfWaiter, mWaiter, ptr, pc, spin, next>>

(* spin, next and ptr are locals: a step that ends their scope also puts   *)
(* them back to the value the next scope starts with.                      *)

\* Where a caller is after addToWaiter and before co::await(p) returns.
Waiting == {"await", "suspend", "suspended"}

Locations == Waiting \cup {"idle", "spin", "add", "push", "cs", "failed",
                           "pop", "set", "call"}

In(c, q) == \E i \in 1..Len(q) : q[i] = c

Queued(c) == In(c, mWaiter)

-----------------------------------------------------------------------------
(* The decisions of the code, each with the wrong variants of it that the  *)
(* mutation runs substitute.                                               *)

SpinOnceMore(expected, i) == i = SpinLimit
\* lock(): "expected > 1" leaves the loop, and so does i < 8.
StopSpinning(expected, i) == expected > 1 \/ i + 1 = SpinLimit

AlwaysFirst(waitingCount) == TRUE
\* lock(): fetch_add(1) + 1 = 1, the mutex was free after all.
FirstIn(waitingCount) == waitingCount = 1

NeverLast(waitingCount) == FALSE
LeaveToOthers(waitingCount) == waitingCount \in {0, 1}
\* unlock(): fetch_sub(1) - 1 = 0, nobody waits and nobody is about to.
LastOut(waitingCount) == waitingCount = 0

SecondWaiter(q) == IF Len(q) = 1 THEN 1 ELSE 2
\* getNextWaiter(): front() of the deque or back() of the vector.
NextIndex(q) == IF FairPolicy THEN 1 ELSE Len(q)

KeepEntry(q) == q
\* mWaiter after pop_front() or pop_back().
Without(q) == IF FairPolicy THEN Tail(q) ELSE SubSeq(q, 1, Len(q) - 1)

ForgetTask(p) == FALSE
\* on_ready(): exchange() returned a continuation that has to be called.
MustCall(p) == p = "Task"

-----------------------------------------------------------------------------
Init ==
    /\ mCountOfWaiter = 0
    /\ mWaiter = <<>>
    /\ ptr = [c \in Callers |-> "Empty"]
    /\ pc = [c \in Callers |-> "idle"]
    /\ spin = [c \in Callers |-> 0]
    /\ next = [c \in Callers |-> NoCaller]

Goto(c, loc) == pc' = [pc EXCEPT ![c] = loc]

\* A caller enters lock().
LockCall(c) ==
    /\ pc[c] = "idle"
    /\ Goto(c, "spin")
    /\ UNCHANGED <<mCountOfWaiter, mWaiter, ptr, spin, next>>

\* The compare_exchange_weak of the spin loop replaces 0 by 1.
SpinAcquire(c) ==
    /\ pc[c] = "spin"
    /\ mCountOfWaiter = 0
    /\ mCountOfWaiter' = 1
    /\ Goto(c, "cs")
    /\ spin' = [spin EXCEPT ![c] = 0]
    /\ UNCHANGED <<mWaiter, ptr, next>>

\* It fails because the counter is not 0, or spuriously; the loop goes on or
\* is left for the fetch_add.
SpinFail(c) ==
    /\ pc[c] = "spin"
    /\ mCountOfWaiter # 0 \/ WeakCas
    /\ IF StopSpinning(mCountOfWaiter, spin[c])
         THEN Goto(c, "add") /\ spin' = [spin EXCEPT ![c] = 0]
         ELSE spin' = [spin EXCEPT ![c] = @ + 1] /\ UNCHANGED pc
    /\ UNCHANGED <<mCountOfWaiter, mWaiter, ptr, next>>

FetchAdd(c) ==
    /\ pc[c] = "add"
    /\ mCountOfWaiter' = mCountOfWaiter + 1
    /\ Goto(c, IF FirstIn(mCountOfWaiter + 1) THEN "cs" ELSE "push")
    /\ UNCHANGED <<mWaiter, ptr, spin, next>>

\* A fresh future p, and its address appended under mWaiter's lock.
AddToWaiter(c) ==
    /\ pc[c] = "push"
    /\ mWaiter' = Append(mWaiter, c)
    /\ Goto(c, "await")
    /\ UNCHANGED <<mCountOfWaiter, ptr, spin, next>>

\* await(p): is_ready_weak() of the future.
AwaitReady(c) ==
    /\ pc[c] = "await"
    /\ IF ptr[c] = "Invalid"
         THEN ptr' = [ptr EXCEPT ![c] = "Empty"] /\ Goto(c, "cs")
         ELSE UNCHANGED ptr /\ Goto(c, "suspend")
    /\ UNCHANGED <<mCountOfWaiter, mWaiter, spin, next>>

\* await(p): suspend() installs the continuation, or finds the value set.
Suspend(c) ==
    /\ pc[c] = "suspend"
    /\ IF ptr[c] = "Empty"
         THEN ptr' = [ptr EXCEPT ![c] = "Task"] /\ Goto(c, "suspended")
         ELSE ptr' = [ptr EXCEPT ![c] = "Empty"] /\ Goto(c, "cs")
    /\ UNCHANGED <<mCountOfWaiter, mWaiter, spin, next>>

\* try_lock() succeeds.
TryLock(c) ==
    /\ pc[c] = "idle"
    /\ mCountOfWaiter = 0
    /\ mCountOfWaiter' = 1
    /\ Goto(c, "cs")
    /\ UNCHANGED <<mWaiter, ptr, spin, next>>

\* try_lock() returns false.
TryLockFail(c) ==
    /\ pc[c] = "idle"
    /\ mCountOfWaiter # 0 \/ WeakCas
    /\ Goto(c, "failed")
    /\ UNCHANGED <<mCountOfWaiter, mWaiter, ptr, spin, next>>

\* The caller of the failed try_lock() does something else.
GiveUp(c) ==
    /\ pc[c] = "failed"
    /\ Goto(c, "idle")
    /\ UNCHANGED <<mCountOfWaiter, mWaiter, ptr, spin, next>>

\* unlock(): the fetch_sub and the early return.
Unlock(c) ==
    /\ pc[c] = "cs"
    /\ mCountOfWaiter' = mCountOfWaiter - 1
    /\ Goto(c, IF LastOut(mCountOfWaiter - 1) THEN "idle" ELSE "pop")
    /\ UNCHANGED <<mWaiter, ptr, spin, next>>

\* unlock(): one turn of the loop that finds a waiter; the turns that find
\* the container empty only yield.
GetNextWaiter(c) ==
    /\ pc[c] = "pop"
    /\ mWaiter # <<>>
    /\ next' = [next EXCEPT ![c] = mWaiter[NextIndex(mWaiter)]]
    /\ mWaiter' = Without(mWaiter)
    /\ Goto(c, "set")
    /\ UNCHANGED <<mCountOfWaiter, ptr, spin>>

\* next->set_value(): the exchange of on_ready().
SetValue(c) ==
    /\ pc[c] = "set"
    /\ ptr' = [ptr EXCEPT ![next[c]] = "Invalid"]
    /\ IF MustCall(ptr[next[c]])
         THEN Goto(c, "call") /\ UNCHANGED next
         ELSE Goto(c, "idle") /\ next' = [next EXCEPT ![c] = NoCaller]
    /\ UNCHANGED <<mCountOfWaiter, mWaiter, spin>>

\* (*continuation)(): the suspended waiter goes on as the holder. A coroutine
\* goes on inline or through its io_context; here it is only made runnable.
CallContinuation(c) ==
    /\ pc[c] = "call"
    /\ pc' = [pc EXCEPT ![c] = "idle", ![next[c]] = "cs"]
    /\ ptr' = [ptr EXCEPT ![next[c]] = "Empty"]
    /\ next' = [next EXCEPT ![c] = NoCaller]
    /\ UNCHANGED <<mCountOfWaiter, mWaiter, spin>>

LockStep(c) == \/ SpinAcquire(c) \/ SpinFail(c) \/ FetchAdd(c)
               \/ AddToWaiter(c) \/ AwaitReady(c) \/ Suspend(c)

UnlockStep(c) == \/ Unlock(c) \/ GetNextWaiter(c)
                 \/ SetValue(c) \/ CallContinuation(c)

Next ==
    \E c \in Callers : \/ LockCall(c) \/ LockStep(c) \/ UnlockStep(c)
                       \/ TryLock(c) \/ TryLockFail(c) \/ GiveUp(c)

Spec == Init /\ [][Next]_vars

\* Threads are scheduled, posted continuations run, holders call unlock().
\* Nobody is obliged to call lock() or try_lock().
FairSpec == Spec /\ \A c \in Callers : WF_vars(LockStep(c)) /\ WF_vars(UnlockStep(c))

-----------------------------------------------------------------------------
\* Every variable holds a value the code can store in it. The counter is an
\* int that fetch_sub never takes below 0, which is what the assert of
\* unlock() demands.
TypeOK ==
    /\ mCountOfWaiter \in Nat
    /\ mWaiter \in Seq(Callers)
    /\ ptr \in [Callers -> {"Empty", "Task", "Invalid"}]
    /\ pc \in [Callers -> Locations]
    /\ spin \in [Callers -> 0..(SpinLimit - 1)]
    /\ next \in [Callers -> Callers \cup {NoCaller}]

\* The callers that fetch_add or a compare-exchange has counted and that have
\* not reached their fetch_sub.
Counted == {c \in Callers : pc[c] \in Waiting \cup {"push", "cs"}}

\* c was taken from mWaiter by an unlock() and has not noticed it yet.
Granted(c) == pc[c] \in Waiting /\ ~Queued(c)

\* c is responsible for the mutex: it is inside the critical section, or is
\* looking for its successor, or is that successor.
Owner(c) == pc[c] \in {"cs", "pop"} \/ Granted(c)

\* lock()/try_lock() against unlock(): at most one caller is in the critical
\* section, and none is while an unlock() is still choosing its successor or
\* a chosen successor has not been woken.
MutualExclusion == \A a, b \in Callers : Owner(a) /\ Owner(b) => a = b

\* unlock() against the gap between lock()'s fetch_add and its addToWaiter:
\* whenever somebody has been counted, somebody owns the mutex and will run
\* unlock(), so that no waiter is left behind.
NoStrandedWaiter == Counted # {} => \E c \in Callers : Owner(c)

\* ~BaseMutex() asserts that the counter is 0. When it is, no unlock() is
\* between its fetch_sub and its set_value(), no lock() between its fetch_add
\* and its return, and the container is empty. The assert says nothing of a
\* lock() or try_lock() that has not counted itself yet, and neither does this.
DestroySafe ==
    mCountOfWaiter = 0 =>
        /\ mWaiter = <<>>
        /\ \A c \in Callers : pc[c] \in {"idle", "spin", "add", "failed"}

\* The race of await(p) with the set_value() of unlock(): the pointer in
\* "next" never refers to a future whose lock() has returned or that has
\* already been set, and no wakeup is lost: a waiter that was taken from
\* mWaiter either finds its future set when it looks, or an unlock() is on
\* its way to set the future or to call the continuation.
WakeupsMatch ==
    /\ \A u \in Callers :
          /\ pc[u] = "set" => /\ next[u] \in Callers
                              /\ Granted(next[u])
                              /\ ptr[next[u]] # "Invalid"
          /\ pc[u] = "call" => /\ next[u] \in Callers
                               /\ Granted(next[u])
                               /\ pc[next[u]] = "suspended"
                               /\ ptr[next[u]] = "Invalid"
    /\ \A c \in Callers :
          Granted(c) => \/ pc[c] # "suspended" /\ ptr[c] = "Invalid"
                        \/ \E u \in Callers : pc[u] \in {"set", "call"} /\ next[u] = c

\* The caller that is responsible for the mutex, if there is one.
TheOwner == IF \E c \in Callers : Owner(c)
              THEN CHOOSE c \in Callers : Owner(c) ELSE NoCaller

\* The mutex as its users see it: see AbstractMutex.
Abs == INSTANCE AbstractMutex WITH owner <- TheOwner, queue <- mWaiter

\* BaseMutex implements the abstract mutex: the counter never lets a newcomer
\* take a mutex that is being handed over, and unlock() serves the waiters in
\* the order PolicyT promises.
ImplementsAbstractMutex == Abs!Spec

\* Every caller that has entered lock() gets the mutex, provided holders
\* unlock: no sleep is missed in the race of suspend() with on_ready() and
\* FairPolicy's queue starves nobody.
StarvationFreedom == \A c \in Callers : pc[c] = "spin" ~> pc[c] = "cs"
=============================================================================
