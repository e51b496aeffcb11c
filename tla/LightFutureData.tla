-------------------------- MODULE LightFutureData --------------------------
(***************************************************************************)
(* co::impl::LightFutureData<T> of include/co/future.hpp, the shared state *)
(* of promise and future, with one thread that sets it and one consumer    *)
(* that calls the functions of the future one after the other.             *)
(*                                                                         *)
(* A continuation is named by the number of the call that owns it: the     *)
(* ConditionVariableTask of a blocking call and the Runner of a coroutine  *)
(* both live on the stack of that call and die when it goes on.            *)
(***************************************************************************)
EXTENDS Integers

CONSTANTS Outcomes,    \* values and exceptions, see ValueHandling
          Unset,       \* the first alternative of the variant
          Calls,       \* the functions the consumer uses
          MaxCalls,    \* bound on the number of calls of the consumer
          SpinLimit    \* number of is_ready() checks in wait() (5 in the code)

ASSUME OutcomesAssumption == Unset \notin Outcomes
ASSUME CallsAssumption ==
    Calls \subseteq {"get", "wait", "wait_for", "is_ready", "await", "await_data"}
ASSUME BoundsAssumption == MaxCalls \in Nat /\ SpinLimit \in Nat \ {0}

Empty == 0     \* EmptyHandle
Invalid == -1  \* InvalidHandle

VARIABLES continuationPtr,  \* Empty, Invalid or the number of a call
          value,            \* the variant
          spc,              \* where the setter is in set_value()/set_exception()
          continuation,     \* the setter's local of on_ready()
          cpc,              \* where the consumer is
          n,                \* number of the consumer's current or last call
          call,             \* the function it called
          cnt,              \* the loop variable of wait()
          mDataReady,       \* the flag of the task of the current call
          got               \* what its last call of get() or await() returned

setterVars == <<spc, continuation>>
vars == <<continuationPtr, value, spc, continuation, cpc, n, call, cnt,
          mDataReady, got>>

\* The future of a promise, or one of make_ready_future() and
\* make_exceptional_future(), which is ready before anybody sees it.
Init ==
    /\ \/ continuationPtr = Empty /\ value = Unset /\ spc = "idle"
       \/ continuationPtr = Invalid /\ value \in Outcomes /\ spc = "done"
    /\ continuation = Empty
    /\ cpc = "idle" /\ n = 0 /\ call = "none" /\ cnt = 0
    /\ mDataReady = FALSE
    /\ got = Unset

-----------------------------------------------------------------------------
(* The decisions of the code, each with the wrong variants of it that the  *)
(* mutation runs substitute.                                               *)

\* get() and await() of the data itself look at the pointer with memcmp first,
\* await() of a co::future goes straight to await_suspend().
FirstStep(c) == CASE c \in {"get", "await_data"} -> "weak"
                  [] c = "await" -> "suspend"
                  [] OTHER -> "check"

\* The calls that end in get_unchecked().
Gets(c) == c \in {"get", "await", "await_data"}

SuspendAnyway(p) == TRUE
NeverSuspend(p) == FALSE
\* suspend(): compare_exchange_strong against EmptyHandle.
MaySuspend(p) == p = Empty

SpinOneMore(c, i) == c \in {"get", "wait"} /\ i + 1 <= SpinLimit
\* wait(): cnt++ < 4; the other callers look once.
LookAgain(c, i) == c \in {"get", "wait"} /\ i + 1 < SpinLimit

NeverCall(p) == FALSE
CallNull(p) == TRUE
\* on_ready(): the exchange found a continuation.
MustCall(p) == p # Empty

KeepTask(p) == p
\* wait_for() after the timeout: what the exchange leaves behind.
AfterTimeout(p) == Empty

\* The blocking calls use a ConditionVariableTask, await() uses a Runner.
Notifies(c) == c \in {"get", "wait", "wait_for"}

-----------------------------------------------------------------------------
(* The setter.                                                             *)

\* set_value() or set_exception(): the assignment of the variant.
Store(o) ==
    /\ spc = "idle"
    /\ value' = o
    /\ spc' = "stored"
    /\ UNCHANGED <<continuationPtr, continuation, cpc, n, call, cnt, mDataReady, got>>

\* on_ready(): the exchange.
OnReady ==
    /\ spc = "stored"
    /\ continuation' = continuationPtr
    /\ continuationPtr' = Invalid
    /\ spc' = IF MustCall(continuationPtr) THEN "call" ELSE "done"
    /\ UNCHANGED <<value, cpc, n, call, cnt, mDataReady, got>>

\* The task the setter is about to call still exists.
Alive(k) == k = n /\ cpc \in {"sleep", "cancel"}

\* (*continuation)(): sets the flag of the ConditionVariableTask under its
\* lock, or makes the coroutine runnable. On a task that is gone it has no
\* effect the consumer sees.
CallContinuation ==
    /\ spc = "call"
    /\ IF Alive(continuation)
         THEN /\ mDataReady' = TRUE
              /\ spc' = IF Notifies(call) THEN "notify" ELSE "done"
         ELSE /\ UNCHANGED mDataReady
              /\ spc' = "done"
    /\ UNCHANGED <<continuationPtr, value, continuation, cpc, n, call, cnt, got>>

\* mCond.notify_one(), after the lock was released.
Notify ==
    /\ spc = "notify"
    /\ spc' = "done"
    /\ UNCHANGED <<continuationPtr, value, continuation, cpc, n, call, cnt,
                   mDataReady, got>>

-----------------------------------------------------------------------------
(* The consumer.                                                           *)

Begin(c) ==
    /\ cpc = "idle"
    /\ n < MaxCalls
    /\ n' = n + 1
    /\ call' = c
    /\ cpc' = FirstStep(c)
    /\ cnt' = 0
    /\ mDataReady' = FALSE
    /\ UNCHANGED <<continuationPtr, value, setterVars, got>>

\* Where a call goes on once it knows that the future is ready.
Ready == IF Gets(call) THEN "result" ELSE "idle"

\* is_ready_weak(): a plain read of the atomic.
IsReadyWeak ==
    /\ cpc = "weak"
    /\ cpc' = IF continuationPtr = Invalid THEN "result"
              ELSE IF call = "get" THEN "check" ELSE "suspend"
    /\ UNCHANGED <<continuationPtr, value, setterVars, n, call, cnt, mDataReady, got>>

\* is_ready(), in the loop of wait(), at the start of wait_for() or alone.
IsReady ==
    /\ cpc = "check"
    /\ IF continuationPtr = Invalid
         THEN cpc' = Ready /\ cnt' = 0
         ELSE /\ cpc' = IF call = "is_ready" THEN "idle"
                        ELSE IF LookAgain(call, cnt) THEN "check" ELSE "suspend"
              /\ cnt' = IF LookAgain(call, cnt) THEN cnt + 1 ELSE 0
    /\ UNCHANGED <<continuationPtr, value, setterVars, n, call, mDataReady, got>>

\* suspend(): the compare-exchange that installs the task of this call.
Suspend ==
    /\ cpc = "suspend"
    /\ IF MaySuspend(continuationPtr)
         THEN cpc' = "sleep" /\ continuationPtr' = n
         ELSE cpc' = Ready /\ UNCHANGED continuationPtr
    /\ UNCHANGED <<value, setterVars, n, call, cnt, mDataReady, got>>

\* The flag of the task is set, or the coroutine was resumed.
WakeUp ==
    /\ cpc = "sleep"
    /\ mDataReady
    /\ cpc' = Ready
    /\ UNCHANGED <<continuationPtr, value, setterVars, n, call, cnt, mDataReady, got>>

\* wait_for(): the time is over and the flag is not set.
Timeout ==
    /\ cpc = "sleep"
    /\ call = "wait_for"
    /\ ~mDataReady
    /\ cpc' = "cancel"
    /\ UNCHANGED <<continuationPtr, value, setterVars, n, call, cnt, mDataReady, got>>

\* wait_for(): the exchange after the timeout, which returns timeout when it
\* finds the task and ready when the setter was faster.
Cancel ==
    /\ cpc = "cancel"
    /\ continuationPtr' = AfterTimeout(continuationPtr)
    /\ cpc' = "idle"
    /\ UNCHANGED <<value, setterVars, n, call, cnt, mDataReady, got>>

\* get_unchecked().
GetUnchecked ==
    /\ cpc = "result"
    /\ got' = value
    /\ cpc' = "idle"
    /\ UNCHANGED <<continuationPtr, value, setterVars, n, call, cnt, mDataReady>>

SetterStep == (\E o \in Outcomes : Store(o)) \/ OnReady \/ CallContinuation \/ Notify

ConsumerStep == \/ IsReadyWeak \/ IsReady \/ Suspend \/ WakeUp
                \/ Timeout \/ Cancel \/ GetUnchecked

Next == SetterStep \/ ConsumerStep \/ \E c \in Calls : Begin(c)

Spec == Init /\ [][Next]_vars

\* The promise is set some day and both threads are scheduled; nobody is
\* obliged to call anything.
FairSpec == Spec /\ WF_vars(SetterStep) /\ WF_vars(ConsumerStep)

-----------------------------------------------------------------------------
\* Every variable holds a value the code can store in it; in particular the
\* loop of wait() looks at most SpinLimit times.
TypeOK ==
    /\ continuationPtr \in {Empty, Invalid} \cup (1..MaxCalls)
    /\ value \in Outcomes \cup {Unset}
    /\ spc \in {"idle", "stored", "call", "notify", "done"}
    /\ continuation \in {Empty, Invalid} \cup (1..MaxCalls)
    /\ cpc \in {"idle", "weak", "check", "suspend", "sleep", "cancel", "result"}
    /\ n \in 0..MaxCalls
    /\ call \in Calls \cup {"none"}
    /\ cnt \in 0..(SpinLimit - 1)
    /\ mDataReady \in BOOLEAN
    /\ got \in Outcomes \cup {Unset}

\* A continuation that is registered belongs to the call that is asleep, so
\* that neither the setter nor a later call of the consumer meets a task of a
\* call that has returned; a timeout of wait_for() leaves none behind.
RegisteredTaskAlive ==
    continuationPtr \notin {Empty, Invalid} => Alive(continuationPtr)

\* on_ready() against wait(), wait_for() and await(): when the setter calls
\* the continuation, the call that owns it is still asleep, unless a timeout
\* of wait_for() has erased the InvalidHandle that on_ready() had left.
CallEntersLiveTask == spc = "call" /\ continuationPtr = Invalid => Alive(continuation)

\* The assert of get_unchecked(): a consumer that gets there, through any of
\* the racing paths, finds the future ready.
GetUncheckedIsReady == cpc = "result" => continuationPtr = Invalid

\* test/CoPromiseTests.cpp: after set_value() is_ready() is true. On its way
\* there on_ready() calls a task, which must exist: CallEntersLiveTask without
\* the exception. wait_for() breaks both at once when its timeout comes between
\* the exchange and the call of on_ready(): it takes InvalidHandle away and
\* returns.
SetValueCompletes ==
    /\ spc = "call" => Alive(continuation)
    /\ spc = "done" => continuationPtr = Invalid

\* The future as one who gets its value sees it.
Abs == INSTANCE OneShot
         WITH outcome <- IF spc \in {"idle", "stored"} THEN Unset ELSE value

\* The outcome is set once and for all, and get() and await() return nothing
\* else, and nothing before, whatever the consumer called earlier.
ImplementsOneShot == Abs!Spec

\* No wakeup is lost between the checks, suspend() and on_ready(): every call
\* returns once the promise is set, unless a timeout of wait_for() has erased
\* the InvalidHandle of on_ready().
CallsReturn ==
    \A k \in 1..MaxCalls :
        cpc # "idle" /\ n = k ~> \/ cpc = "idle" \/ n > k
                                 \/ spc = "done" /\ continuationPtr # Invalid
=============================================================================
