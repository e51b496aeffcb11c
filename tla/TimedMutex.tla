----------------------------- MODULE TimedMutex -----------------------------
(***************************************************************************)
(* co::experimental::TimedMutex of include/co/timed_mutex.hpp, that is     *)
(* BaseTimedMutex<TimedFairPolicy>: lock(), try_lock() and unlock().       *)
(*                                                                         *)
(* try_lock_for() cannot be instantiated (it gives TimedMutexWaiter no     *)
(* io_context), so no waiter has a timer. Every atomic operation and every *)
(* access to mWaiter under its lock is a step; await(p.result), which      *)
(* LightFutureData models in detail, is one.                               *)
(***************************************************************************)
EXTENDS Integers, Sequences

CONSTANTS Callers,   \* activities that lock and unlock the mutex
          NoCaller,  \* nullptr
          SpinLimit  \* iterations of the loop of spinLock() (8 in the code)

VARIABLES mCountOfWaiter,    \* the holder plus the waiters
          mWaiter,           \* the TimedMutexWaiters, one per caller in lock()
          alreadyFinalized,  \* alreadyFinalized[c]: of the waiter of c
          result,            \* result[c]: the future of the waiter of c is set
          pc,                \* pc[c]: where c is
          spin,              \* spin[c]: the loop variable of spinLock()
          next               \* next[c]: the local of unlock()

vars == <<mCountOfWaiter, mWaiter, alreadyFinalized, result, pc, spin, next>>

Init ==
    /\ mCountOfWaiter = 0 /\ mWaiter = <<>>
    /\ alreadyFinalized = [c \in Callers |-> FALSE]
    /\ result = [c \in Callers |-> FALSE]
    /\ pc = [c \in Callers |-> "idle"]
    /\ spin = [c \in Callers |-> 0]
    /\ next = [c \in Callers |-> NoCaller]

Goto(c, loc) == pc' = [pc EXCEPT ![c] = loc]

\* lock() enters spinLock().
Lock(c) ==
    /\ pc[c] = "idle"
    /\ Goto(c, "spin")
    /\ spin' = [spin EXCEPT ![c] = 0]
    /\ UNCHANGED <<mCountOfWaiter, mWaiter, alreadyFinalized, result, next>>

\* try_lock(): the compare_exchange_weak, which may also fail spuriously.
TryLock(c) ==
    /\ pc[c] = "idle"
    /\ mCountOfWaiter = 0
    /\ mCountOfWaiter' = 1
    /\ Goto(c, "locked")
    /\ UNCHANGED <<mWaiter, alreadyFinalized, result, spin, next>>

\* spinLock(): one turn of the loop. It ends with the mutex, with a second
\* waiter in sight, or after the last turn.
SpinOnce(c) ==
    /\ pc[c] = "spin"
    /\ \/ /\ mCountOfWaiter = 0
          /\ mCountOfWaiter' = 1
          /\ Goto(c, "locked") /\ UNCHANGED spin
       \/ /\ spin' = [spin EXCEPT ![c] = @ + 1]
          /\ Goto(c, IF mCountOfWaiter > 1 \/ spin[c] + 1 = SpinLimit THEN "add" ELSE "spin")
          /\ UNCHANGED mCountOfWaiter
    /\ UNCHANGED <<mWaiter, alreadyFinalized, result, next>>

\* spinLock(): the fetch_add, and a new waiter when somebody holds the mutex.
FetchAdd(c) ==
    /\ pc[c] = "add"
    /\ mCountOfWaiter' = mCountOfWaiter + 1
    /\ Goto(c, IF mCountOfWaiter + 1 = 1 THEN "locked" ELSE "push")
    /\ alreadyFinalized' = [alreadyFinalized EXCEPT ![c] = FALSE]
    /\ result' = [result EXCEPT ![c] = FALSE]
    /\ UNCHANGED <<mWaiter, spin, next>>

AddToWaiter(c) ==
    /\ pc[c] = "push"
    /\ mWaiter' = Append(mWaiter, c)
    /\ Goto(c, "await")
    /\ UNCHANGED <<mCountOfWaiter, alreadyFinalized, result, spin, next>>

Await(c) ==
    /\ pc[c] = "await" /\ result[c]
    /\ Goto(c, "locked")
    /\ UNCHANGED <<mCountOfWaiter, mWaiter, alreadyFinalized, result, spin, next>>

\* unlock(): the fetch_sub.
FetchSub(c) ==
    /\ pc[c] = "locked"
    /\ mCountOfWaiter' = mCountOfWaiter - 1
    /\ Goto(c, IF mCountOfWaiter - 1 = 0 THEN "idle" ELSE "pop")
    /\ next' = [next EXCEPT ![c] = NoCaller]
    /\ UNCHANGED <<mWaiter, alreadyFinalized, result, spin>>

\* unlock(): getNextWaiter() under the lock of mWaiter, if there is one.
GetNextWaiter(c) ==
    /\ pc[c] = "pop"
    /\ IF mWaiter = <<>> THEN UNCHANGED <<mWaiter, next>>
       ELSE /\ next' = [next EXCEPT ![c] = Head(mWaiter)]
            /\ mWaiter' = Tail(mWaiter)
    /\ Goto(c, "finalize")
    /\ UNCHANGED <<mCountOfWaiter, alreadyFinalized, result, spin>>

\* unlock(): "if (*next)", the compare_exchange of alreadyFinalized, through a
\* null pointer when the container was empty; and the rest of the loop.
Finalize(c) ==
    /\ pc[c] = "finalize"
    /\ \/ /\ next[c] = NoCaller
          /\ Goto(c, "crashed") /\ UNCHANGED alreadyFinalized
       \/ /\ next[c] # NoCaller /\ ~alreadyFinalized[next[c]]
          /\ alreadyFinalized' = [alreadyFinalized EXCEPT ![next[c]] = TRUE]
          /\ Goto(c, "set")
       \/ /\ next[c] # NoCaller /\ alreadyFinalized[next[c]]
          /\ Goto(c, IF mCountOfWaiter = 0 THEN "idle" ELSE "pop")
          /\ UNCHANGED alreadyFinalized
    /\ UNCHANGED <<mCountOfWaiter, mWaiter, result, spin, next>>

SetResult(c) ==
    /\ pc[c] = "set"
    /\ result' = [result EXCEPT ![next[c]] = TRUE]
    /\ Goto(c, "idle")
    /\ UNCHANGED <<mCountOfWaiter, mWaiter, alreadyFinalized, spin, next>>

Next == \E c \in Callers :
    \/ Lock(c) \/ TryLock(c) \/ SpinOnce(c) \/ FetchAdd(c) \/ AddToWaiter(c) \/ Await(c)
    \/ FetchSub(c) \/ GetNextWaiter(c) \/ Finalize(c) \/ SetResult(c)

Spec == Init /\ [][Next]_vars

-----------------------------------------------------------------------------
\* test/CoMutexTests.cpp, "co::experimental::TimedMutex should fulfill the
\* Mutex concept": unlock() of a locked mutex unlocks it or hands it over. It
\* fails where another lock() is between its fetch_add and its addToWaiter().
UnlockHandsOver == \A c \in Callers : pc[c] # "crashed"
=============================================================================
