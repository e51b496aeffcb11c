------------------------------ MODULE Executor ------------------------------
(***************************************************************************)
(* The io_context and what runs on it: IoContextThreads of                 *)
(* include/co/executor.hpp, async() and runOutsideOfCoroutine() of         *)
(* include/co/async.hpp, yieldTo() of include/co/yieldto.hpp and the       *)
(* socket functions of include/co/networking.hpp that are built on it.     *)
(*                                                                         *)
(* A task is a function given to async(); it becomes a coroutine on an io  *)
(* thread. Handlers refer to a future on the stack of that coroutine.      *)
(* Suspension and resumption, which Routine and LightFutureData model in   *)
(* detail, are single steps here.                                          *)
(***************************************************************************)
EXTENDS Integers, Sequences, FiniteSets

CONSTANTS Tasks,     \* the functions given to async()
          Threads,   \* the threads of an IoContextThreads
          Outcomes,  \* what an operation may end with: the error code and size
          Failed,    \* the outcomes of Outcomes that are an error
          MaxOps,    \* bound on the operations of a task
          MaxPools,  \* bound on the IoContextThreads created one after the other
          Null

ASSUME MaxAssumption == MaxOps \in Nat /\ MaxPools \in Nat
ASSUME FailedAssumption == Failed \subseteq Outcomes
ASSUME ThreadsAssumption == IsFiniteSet(Threads)

\* A function posted to the io_context, the coroutine whose frame it refers to
\* and the value it carries.
HandlerType ==
    [kind : {"start", "resume", "outside", "callback"}, k : Tasks,
     o : Outcomes \cup {Null, "value", "exception"}]

ASSUME NullAssumption ==
    /\ Null \notin Tasks \cup Threads \cup Outcomes \cup HandlerType
    /\ {"value", "exception"} \cap (Tasks \cup {Null}) = {}

VARIABLES
  queue,        \* the handlers that are ready to run
  outstanding,  \* the io_context's count of unfinished work
  stopped,      \* io_context::stopped()
  started,      \* the tasks with an asynchronous operation in progress
  pool,         \* the IoContextThreads: "none", "up" or "joining"
  pools,        \* number of IoContextThreads created so far
  thread,       \* thread[t]: where t is in io_context::run()
  handler,      \* handler[t]: the handler t executes
  task,         \* task[k]: where task k is
  on,           \* on[k]: the thread that executes coroutine k, or Null
  ready,        \* ready[k]: the future of k's last operation is set
  args,         \* args[k]: what the callback of k's last operation has stored
  expected,     \* expected[k]: what k's last operation ended with
  result,       \* result[k]: what k's last operation returned to it
  ops,          \* ops[k]: number of operations of k
  overload,     \* overload[k]: how k's operation reports an error
  parent,       \* parent[k]: the task that holds the future of k, or Null
  future        \* future[k]: Null, "value", "exception", or the task that awaits it

iocVars == <<queue, outstanding, stopped, started>>
poolVars == <<pool, pools, thread, handler>>
opVars == <<ready, args, expected, result, ops, overload>>
vars == <<iocVars, poolVars, task, on, opVars, parent, future>>

Init ==
    /\ queue = <<>> /\ outstanding = 0 /\ stopped = FALSE /\ started = {}
    /\ pool = "none" /\ pools = 0
    /\ thread = [t \in Threads |-> "none"]
    /\ handler = [t \in Threads |-> Null]
    /\ task = [k \in Tasks |-> "none"]
    /\ on = [k \in Tasks |-> Null]
    /\ ready = [k \in Tasks |-> FALSE]
    /\ args = [k \in Tasks |-> Null] /\ expected = [k \in Tasks |-> Null]
    /\ result = [k \in Tasks |-> Null] /\ ops = [k \in Tasks |-> 0]
    /\ overload = [k \in Tasks |-> Null]
    /\ parent = [k \in Tasks |-> Null]
    /\ future = [k \in Tasks |-> Null]

-----------------------------------------------------------------------------
(* The decisions of the code, each with the wrong variants of it that the  *)
(* mutation runs substitute.                                               *)

StillStopped(s) == s
\* IoContextThreads(): if (ioc.stopped()) ioc.reset().
AfterReset(s) == FALSE

SetFirst == <<"set", "store">>
\* YieldTo::Ref::operator(): the arguments are stored before the future is set.
CallbackOrder == <<"store", "set">>

\* throwError(): only the overloads without an error_code parameter throw,
\* and the one of send() that has one.
Overloads == {"throws", "code"}
Throws(v, o) == v = "throws" /\ o \in Failed

GoOn == "user"
\* ~YieldTo() and runOutsideOfCoroutine() await the future.
AfterStart == "await"

Abandon(t) == TRUE
\* joinAll(): a thread is joined when it has left run().
Joinable(t) == thread[t] = "exited"

-----------------------------------------------------------------------------
(* The io_context.                                                         *)

NoCoroutineOn(t) == \A k \in Tasks : on[k] # t

Handler(kind, k, o) == [kind |-> kind, k |-> k, o |-> o]

\* post(): one more piece of work.
Post(h) ==
    /\ queue' = Append(queue, h)
    /\ outstanding' = outstanding + 1

\* One piece of work less; the io_context stops with the last one.
WorkFinished ==
    /\ outstanding' = outstanding - 1
    /\ stopped' = (stopped \/ outstanding = 1)

\* An operation of the operating system ends; its handler may run.
Complete(k, o) ==
    /\ k \in started
    /\ started' = started \ {k}
    /\ queue' = Append(queue, Handler("callback", k, o))
    /\ expected' = [expected EXCEPT ![k] = o]
    /\ UNCHANGED <<outstanding, stopped, poolVars, task, on, ready, args, result, ops,
                   overload, parent, future>>

\* run() starts, and returns at once when there is nothing to do.
EnterRun(t) ==
    /\ thread[t] = "started"
    /\ stopped' = (stopped \/ outstanding = 0)
    /\ thread' = [thread EXCEPT ![t] = "run"]
    /\ UNCHANGED <<queue, outstanding, started, pool, pools, handler, task, on, opVars,
                   parent, future>>

TakeHandler(t) ==
    /\ thread[t] = "run" /\ ~stopped /\ queue # <<>>
    /\ handler' = [handler EXCEPT ![t] = Head(queue)]
    /\ queue' = Tail(queue)
    /\ thread' = [thread EXCEPT ![t] = Head(queue).kind]
    /\ UNCHANGED <<outstanding, stopped, started, pool, pools, task, on, opVars, parent, future>>

LeaveRun(t) ==
    /\ thread[t] = "run" /\ stopped
    /\ thread' = [thread EXCEPT ![t] = "exited"]
    /\ UNCHANGED <<iocVars, pool, pools, handler, task, on, opVars, parent, future>>

\* The handler returns, when no coroutine runs on the thread any more.
HandlerReturns(t) ==
    /\ thread[t] = "return"
    /\ NoCoroutineOn(t)
    /\ WorkFinished
    /\ thread' = [thread EXCEPT ![t] = "run"]
    /\ handler' = [handler EXCEPT ![t] = Null]
    /\ UNCHANGED <<queue, started, pool, pools, task, on, opVars, parent, future>>

WorkKept == UNCHANGED <<outstanding, stopped>>
\* mIosWork.reset().
WorkReleased == WorkFinished

-----------------------------------------------------------------------------
(* IoContextThreads.                                                       *)

Construct ==
    /\ pool = "none" /\ pools < MaxPools
    /\ pool' = "up" /\ pools' = pools + 1
    /\ outstanding' = outstanding + 1
    /\ stopped' = IF stopped THEN AfterReset(stopped) ELSE stopped
    /\ thread' = [t \in Threads |-> "started"]
    /\ UNCHANGED <<queue, started, handler, task, on, opVars, parent, future>>

\* ~IoContextThreads() and joinAll(): mIosWork.reset(),
ReleaseWork ==
    /\ pool = "up"
    /\ pool' = "joining"
    /\ WorkReleased
    /\ UNCHANGED <<queue, started, pools, thread, handler, task, on, opVars, parent, future>>

\* and t.join() for all the threads.
JoinThreads ==
    /\ pool = "joining"
    /\ \A t \in Threads : Joinable(t)
    /\ pool' = "none"
    /\ UNCHANGED <<iocVars, pools, thread, handler, task, on, opVars, parent, future>>

-----------------------------------------------------------------------------
(* async() and its future.                                                 *)

\* async() posts the function; j is the task that calls it, or Null for a
\* regular thread.
Async(k, j) ==
    /\ task[k] = "none"
    /\ j = Null \/ (j \in Tasks /\ task[j] = "user")
    /\ task' = [task EXCEPT ![k] = "posted"]
    /\ parent' = [parent EXCEPT ![k] = j]
    /\ Post(Handler("start", k, Null))
    /\ UNCHANGED <<stopped, started, poolVars, on, opVars, future>>

Outcome(o) == IF o = "exception" THEN "thrown" ELSE "user"

\* The posted lambda: the constructor of Routine executes the function on the
\* thread, and detach() lets it go when it is suspended. A posted Runner lets
\* the coroutine go on on the thread, with what the awaited task has left.
EnterRoutine(t) ==
    /\ thread[t] \in {"start", "resume"}
    /\ LET h == handler[t] IN
       /\ task' = [task EXCEPT ![h.k] = Outcome(h.o)]
       /\ on' = [on EXCEPT ![h.k] = t]
    /\ thread' = [thread EXCEPT ![t] = "return"]
    /\ UNCHANGED <<iocVars, pool, pools, handler, opVars, parent, future>>

\* await() of the future of another task, which is given up with it.
AwaitTask(j, k) ==
    /\ task[j] = "user" /\ parent[k] = j
    /\ parent' = [parent EXCEPT ![k] = Null]
    /\ IF future[k] = Null
       THEN /\ future' = [future EXCEPT ![k] = j]
            /\ task' = [task EXCEPT ![j] = "waiting"]
            /\ on' = [on EXCEPT ![j] = Null]
       ELSE /\ task' = [task EXCEPT ![j] = Outcome(future[k])]
            /\ UNCHANGED <<future, on>>
    /\ UNCHANGED <<iocVars, poolVars, opVars>>

\* The function handles an exception.
Catch(k) ==
    /\ task[k] = "thrown"
    /\ task' = [task EXCEPT ![k] = "user"]
    /\ UNCHANGED <<iocVars, poolVars, on, opVars, parent, future>>

\* The function returns or throws: set_value() or set_exception(). As this
\* thread executes a coroutine, the Runner of the waiting task is posted.
Finish(k, o) ==
    /\ \/ task[k] = "user" /\ o = "value"
       \/ task[k] = "thrown" /\ o = "exception"
    /\ task' = [task EXCEPT ![k] = "done"]
    /\ on' = [on EXCEPT ![k] = Null]
    /\ future' = [future EXCEPT ![k] = o]
    /\ IF future[k] \in Tasks THEN Post(Handler("resume", future[k], o))
       ELSE UNCHANGED <<queue, outstanding>>
    /\ expected' = [expected EXCEPT ![k] = Null]
    /\ result' = [result EXCEPT ![k] = Null]
    /\ ops' = [ops EXCEPT ![k] = 0]
    /\ UNCHANGED <<stopped, started, poolVars, ready, args, overload, parent>>

-----------------------------------------------------------------------------
(* Operations: runOutsideOfCoroutine() and yieldTo().                      *)

\* A future, and the references its handler writes to, come to life in the
\* frame of the caller.
NewFrame(k, v) ==
    /\ task[k] = "user" /\ ops[k] < MaxOps
    /\ ops' = [ops EXCEPT ![k] = @ + 1]
    /\ overload' = [overload EXCEPT ![k] = v]
    /\ ready' = [ready EXCEPT ![k] = FALSE]
    /\ args' = [args EXCEPT ![k] = Null]
    /\ expected' = [expected EXCEPT ![k] = Null]
    /\ result' = [result EXCEPT ![k] = Null]
    /\ task' = [task EXCEPT ![k] = AfterStart]

\* runOutsideOfCoroutine() posts the function; its exception is rethrown.
RunOutside(k) ==
    /\ NewFrame(k, "throws")
    /\ Post(Handler("outside", k, Null))
    /\ UNCHANGED <<stopped, started, poolVars, on, parent, future>>

\* An asynchronous operation is started with *yieldTo(...) as its callback.
StartOp(k, v) ==
    /\ NewFrame(k, v)
    /\ started' = started \cup {k}
    /\ outstanding' = outstanding + 1
    /\ UNCHANGED <<queue, stopped, poolVars, on, parent, future>>

\* await() of the future: suspend(), or go on when it is ready; the frame is
\* left, and the error thrown or left to the caller.
AwaitOp(k) ==
    /\ task[k] = "await"
    /\ IF ready[k]
       THEN /\ result' = [result EXCEPT ![k] = args[k]]
            /\ task' = [task EXCEPT ![k] =
                          IF Throws(overload[k], args[k]) THEN "thrown" ELSE "user"]
            /\ ready' = [ready EXCEPT ![k] = FALSE]
            /\ args' = [args EXCEPT ![k] = Null]
            /\ overload' = [overload EXCEPT ![k] = Null]
            /\ UNCHANGED on
       ELSE /\ task' = [task EXCEPT ![k] = "suspended"]
            /\ on' = [on EXCEPT ![k] = Null]
            /\ UNCHANGED <<result, ready, args, overload>>
    /\ UNCHANGED <<iocVars, poolVars, expected, ops, parent, future>>

\* set_value() and set_exception(): a suspended coroutine is resumed within
\* the call, as no coroutine is current in a handler.
SetReady(t, k) ==
    /\ ready' = [ready EXCEPT ![k] = TRUE]
    /\ IF task[k] = "suspended"
       THEN /\ task' = [task EXCEPT ![k] = "await"]
            /\ on' = [on EXCEPT ![k] = t]
       ELSE UNCHANGED <<task, on>>
    /\ UNCHANGED args

StoreArgs(k, o) ==
    /\ args' = [args EXCEPT ![k] = o]
    /\ UNCHANGED <<ready, task, on>>

\* YieldTo::Ref::operator(), in two steps.
Callback(t) ==
    /\ NoCoroutineOn(t)
    /\ \E i \in 1 .. 2 :
         /\ thread[t] = <<"callback", "second">>[i]
         /\ thread' = [thread EXCEPT ![t] = <<"second", "return">>[i]]
         /\ IF CallbackOrder[i] = "store" THEN StoreArgs(handler[t].k, handler[t].o)
            ELSE SetReady(t, handler[t].k)
    /\ UNCHANGED <<iocVars, pool, pools, handler, expected, result, ops, overload, parent, future>>

\* The function posted by runOutsideOfCoroutine() runs,
RunFunc(t, o) ==
    /\ thread[t] = "outside"
    /\ StoreArgs(handler[t].k, o)
    /\ expected' = [expected EXCEPT ![handler[t].k] = o]
    /\ thread' = [thread EXCEPT ![t] = "set"]
    /\ UNCHANGED <<iocVars, pool, pools, handler, result, ops, overload, parent, future>>

\* and what it returned or threw is set.
SetResult(t) ==
    /\ thread[t] = "set"
    /\ SetReady(t, handler[t].k)
    /\ thread' = [thread EXCEPT ![t] = "return"]
    /\ UNCHANGED <<iocVars, pool, pools, handler, expected, result, ops, overload, parent, future>>

\* read_some() with bytes to read does not suspend.
ReadAtOnce(k, v, o) ==
    /\ task[k] = "user" /\ ops[k] < MaxOps
    /\ ops' = [ops EXCEPT ![k] = @ + 1]
    /\ expected' = [expected EXCEPT ![k] = o]
    /\ result' = [result EXCEPT ![k] = o]
    /\ task' = [task EXCEPT ![k] = IF Throws(v, o) THEN "thrown" ELSE "user"]
    /\ UNCHANGED <<iocVars, poolVars, on, ready, args, overload, parent, future>>

-----------------------------------------------------------------------------
ThreadStep(t) ==
    \/ EnterRun(t) \/ TakeHandler(t) \/ LeaveRun(t) \/ HandlerReturns(t)
    \/ EnterRoutine(t) \/ Callback(t) \/ SetResult(t)
    \/ \E o \in Outcomes : RunFunc(t, o)

CoroutineStep(k) ==
    \/ AwaitOp(k) \/ RunOutside(k) \/ Catch(k)
    \/ \E v \in Overloads : StartOp(k, v)
    \/ \E v \in Overloads, o \in Outcomes : ReadAtOnce(k, v, o)
    \/ \E o \in {"value", "exception"} : Finish(k, o)
    \/ \E j \in Tasks : Async(j, k) \/ AwaitTask(k, j)

Next ==
    \/ Construct \/ ReleaseWork \/ JoinThreads
    \/ \E k \in Tasks : CoroutineStep(k) \/ Async(k, Null)
    \/ \E k \in Tasks, o \in Outcomes : Complete(k, o)
    \/ \E t \in Threads : ThreadStep(t)

Spec == Init /\ [][Next]_vars

\* Threads are scheduled, functions do not run for ever, operations end, and
\* a destructor of IoContextThreads that was entered goes on. Nobody has to
\* call async() or to create or destroy an IoContextThreads.
Fairness ==
    /\ WF_vars(JoinThreads)
    /\ \A t \in Threads : WF_vars(ThreadStep(t))
    /\ \A k \in Tasks : WF_vars(CoroutineStep(k))
    /\ \A k \in Tasks : WF_vars(\E o \in Outcomes : Complete(k, o))

FairSpec == Spec /\ Fairness

-----------------------------------------------------------------------------
(* Properties.                                                             *)

\* Every variable has its type, and the io_context's count of work is that of
\* the pool, the operations in progress, and the queued and running handlers.
TypeOK ==
    /\ \A i \in 1 .. Len(queue) : queue[i] \in HandlerType
    /\ stopped \in BOOLEAN /\ started \subseteq Tasks
    /\ pool \in {"none", "up", "joining"} /\ pools \in 0 .. MaxPools
    /\ thread \in [Threads -> {"none", "started", "run", "exited", "start", "resume",
                               "outside", "callback", "second", "set", "return"}]
    /\ handler \in [Threads -> HandlerType \cup {Null}]
    /\ task \in [Tasks -> {"none", "posted", "user", "thrown", "await", "suspended",
                           "waiting", "done"}]
    /\ on \in [Tasks -> Threads \cup {Null}]
    /\ ready \in [Tasks -> BOOLEAN]
    /\ \A f \in {args, expected, result} : f \in [Tasks -> Outcomes \cup {Null}]
    /\ ops \in [Tasks -> 0 .. MaxOps] /\ overload \in [Tasks -> Overloads \cup {Null}]
    /\ parent \in [Tasks -> Tasks \cup {Null}]
    /\ future \in [Tasks -> Tasks \cup {Null, "value", "exception"}]
    /\ outstanding = Len(queue) + Cardinality(started)
                      + Cardinality({t \in Threads : handler[t] # Null})
                      + (IF pool = "up" THEN 1 ELSE 0)

\* The handlers that have still to write to the frame of k: its operation in
\* progress, a queued handler, a handler that has not set the future.
Writers(k) ==
    {i \in 1 .. Len(queue) : queue[i].k = k /\ queue[i].kind \in {"outside", "callback"}}
    \cup {t \in Threads : /\ thread[t] \in {"outside", "callback", "second", "set"}
                          /\ handler[t].k = k}
    \cup (started \cap {k})

\* A callback or a posted function only writes to a frame that is still there:
\* the coroutine that started the operation waits for it, exactly one handler
\* will set its future, and once it is set none refers to it.
FramesAlive ==
    \A k \in Tasks :
        /\ Cardinality(Writers(k)) <= 1
        /\ Writers(k) # {} => task[k] \in {"await", "suspended"} /\ ~ready[k]
        /\ task[k] = "suspended" => Writers(k) # {}

\* What an operation returns to its coroutine is what the operation ended
\* with, whatever thread ran its handler and whenever it did.
OwnOutcome ==
    \A k \in Tasks :
        task[k] \in {"user", "thrown"} => result[k] = expected[k]

\* When the destructor of IoContextThreads returns no coroutine is left
\* half-way, no operation is in progress, and what is still queued are
\* functions given to async() after the io_context had stopped.
JoinDrains ==
    pool = "none" =>
        /\ \A k \in Tasks : task[k] \in {"none", "posted", "done"}
        /\ started = {}
        /\ \A i \in 1 .. Len(queue) : queue[i].kind = "start"

\* A function given to async() ends while an IoContextThreads is up, also one
\* created after an earlier one had stopped the io_context; and the destructor
\* of an IoContextThreads returns.
TasksDone ==
    /\ \A k \in Tasks : task[k] = "posted" ~> (task[k] = "done" \/ pool # "up")
    /\ pool = "joining" ~> pool = "none"
=============================================================================
