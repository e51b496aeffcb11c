------------------------------ MODULE Routine ------------------------------
(***************************************************************************)
(* co::Routine of include/co/routine.hpp and co::await() of                *)
(* include/co/await.hpp: coroutines that leave a thread when they await    *)
(* something and are resumed on whatever thread makes that ready.          *)
(*                                                                         *)
(* Every thread has a stack of the library's active calls, newest first:   *)
(* the constructor of a coroutine's Data ("ctor", "ctorLoop" once it is in *)
(* resume()), a turn of the loop of Runner::operator() ("run") and a call  *)
(* of Runner::operator() that has not decided yet ("runner"). A frame      *)
(* whose pc is "user" is executing the code of its coroutine, whose own    *)
(* calls are the frames above it.                                          *)
(***************************************************************************)
EXTENDS Integers, Sequences, FiniteSets

CONSTANTS Routines,   \* the coroutines a behaviour may create
          Threads,    \* all threads
          IoThreads,  \* those inside io_context::run() when idle
          Mains,      \* those whose top-level code creates coroutines
          Futures,    \* futures, each awaited by at most one coroutine
          MaxAwaits,  \* bound on the awaits of futures and the io_context per coroutine
          DetachWhen  \* "never": every handle is awaited, joined or polled;
                      \* "unraced": detach() is not called while a coroutine
                      \* that has ended is still on a thread; "anytime"

ASSUME ThreadsAssumption == IoThreads \cup Mains \subseteq Threads
ASSUME NamesAssumption ==
    /\ Routines \cap Threads = {} /\ Routines \cap Futures = {}
    /\ {"null", "invalid", "ioc", "timer"} \cap (Routines \cup Threads \cup Futures) = {}
ASSUME BoundAssumption == MaxAwaits \in Nat /\ DetachWhen \in {"never", "unraced", "anytime"}

Null == "null"        \* nullptr
Invalid == "invalid"  \* reinterpret_cast<Data*>(1) and InvalidHandle
Ioc == "ioc"          \* the io_context as something to await
Timer == "timer"      \* a deadline_timer, a duration or a pplx::task to await

VARIABLES
  stack,          \* stack[t]: the frames of thread t, newest first
  current,        \* current[t]: the thread_local of Data::current()
  blocked,        \* blocked[t]: the coroutine t waits for in join(), or Null
  queue,          \* the Runners posted to the io_context
  pending,        \* the coroutines whose Runner a timer or a task will call
  fut,            \* fut[f]: continuationPtr of a future
  mOuter, mContinuation, mResult, mIsDetached,  \* members of Data
  mCaller,        \* mCaller[r]: member of the Runner in r's last await()
  waitFor,        \* waitFor[r]: what r's await() is about
  finished,       \* finished[r]: the coroutine function returned, mPull is empty
  life,           \* life[r]: "none", "alive", "freed": the memory of the Data
  owner,          \* owner[r]: the thread or coroutine with the handle, or Null
  awaits          \* awaits[r]: number of awaits counted against MaxAwaits

routineVars == <<mOuter, mContinuation, mResult, mIsDetached, mCaller, waitFor,
                 finished, life, owner, awaits>>
vars == <<stack, current, blocked, queue, pending, fut, routineVars>>

Init ==
    /\ stack = [t \in Threads |-> <<>>]
    /\ current = [t \in Threads |-> Null]
    /\ blocked = [t \in Threads |-> Null]
    /\ queue = <<>>
    /\ pending = {}
    /\ fut = [f \in Futures |-> Null]
    /\ mOuter = [r \in Routines |-> Null]
    /\ mContinuation = [r \in Routines |-> Null]
    /\ mResult = [r \in Routines |-> Null]
    /\ mIsDetached = [r \in Routines |-> FALSE]
    /\ mCaller = [r \in Routines |-> Null]
    /\ waitFor = [r \in Routines |-> Null]
    /\ finished = [r \in Routines |-> FALSE]
    /\ life = [r \in Routines |-> "none"]
    /\ owner = [r \in Routines |-> Null]
    /\ awaits = [r \in Routines |-> 0]

-----------------------------------------------------------------------------
(* Frames.                                                                 *)

Frame(fn, r, pc) == [fn |-> fn, r |-> r, pc |-> pc,
                     res |-> Null,        \* the local of resume()
                     call |-> Null,       \* the continuation on_ready() found
                     destruct |-> FALSE]  \* the local of ResultSetter

Top(t) == Head(stack[t])
At(t, pc) == stack[t] # <<>> /\ Top(t).pc = pc

Goto(t, pc) == stack' = [stack EXCEPT ![t][1].pc = pc]
Push(t, frame) == stack' = [stack EXCEPT ![t] = <<frame>> \o @]
Pop(t) == stack' = [stack EXCEPT ![t] = Tail(@)]
Replace(t, frame) == stack' = [stack EXCEPT ![t] = <<frame>> \o Tail(@)]

AllFrames == UNION {{<<t, i>> : i \in 1..Len(stack[t])} : t \in Threads}
F(s) == stack[s[1]][s[2]]

\* The frames that execute or manage coroutine r, and the calls of its Runner.
FramesOf(r) == {s \in AllFrames : F(s).fn # "runner" /\ F(s).r = r}
RunnersOf(r) == {s \in AllFrames : F(s).fn = "runner" /\ F(s).r = r}

\* Whose code runs on t: a coroutine's, or the thread's own.
Actor(t) == IF stack[t] = <<>> THEN t ELSE Top(t).r

\* The code of an actor that may create and own coroutines runs on t.
InUserCode(t) == \/ stack[t] = <<>> /\ t \in Mains /\ blocked[t] = Null
                 \/ At(t, "user")

IsReady(x) == /\ x \in Routines => mResult[x] = Invalid
              /\ x \in Futures => fut[x] = Invalid

-----------------------------------------------------------------------------
(* The decisions of the code, each with the wrong variants of it that the  *)
(* mutation runs substitute.                                               *)

ForgetOuter(t, r) == Null
\* leave() and the end of the coroutine: what current() becomes.
OuterOf(t, r) == mOuter[r]

\* Runner::operator(): no coroutine runs on this thread.
MayResumeHere(t) == current[t] = Null

NeverSuspend(p) == FALSE
\* LightFutureData::suspend(): the compare-exchange finds no continuation.
MaySuspend(p) == p = Null

KeepCaller(r) == r
\* Routine::await_suspend(): what the Runner's mCaller is exchanged for.
TakenCaller(r) == Null

AlwaysSuspended(c) == TRUE
\* Routine::await_suspend(): the second compare-exchange found null.
ContinuationInstalled(c) == c = Null

IgnoreSpin(r) == TRUE
\* Routine::await_suspend(): the loop is left when the Runner has been called.
SpinDone(r) == mCaller[r] = Invalid

StoreThenLoad(c) == Invalid
\* resume(): what the exchange of mContinuation returns.
TakenContinuation(c) == c

NeverDestruct(detached) == FALSE
AlwaysDestruct(detached) == TRUE
\* ResultSetter: the compare-exchange of mIsDetached failed.
Destructs(detached) == detached

DropResult(res) == Null
\* Runner::operator(): the loop goes on with the result of resume().
NextContinuation(res) == IF res = Invalid THEN Null ELSE res

-----------------------------------------------------------------------------
(* Code that uses the library.                                             *)

\* Routine{f}: the coroutine starts at once, on the stack of its creator.
Spawn(t, r) ==
    /\ InUserCode(t)
    /\ life[r] = "none"
    /\ life' = [life EXCEPT ![r] = "alive"]
    /\ owner' = [owner EXCEPT ![r] = Actor(t)]
    /\ mOuter' = [mOuter EXCEPT ![r] = current[t]]
    /\ current' = [current EXCEPT ![t] = r]
    /\ Push(t, Frame("ctor", r, "user"))
    /\ UNCHANGED <<blocked, queue, pending, fut, mContinuation, mResult, mIsDetached, mCaller,
                   waitFor, finished, awaits>>

\* await(x) in a coroutine up to the end of leave(). An x that is ready is not
\* worth a step: await() returns without a trace.
Await(t, x) ==
    LET r == Top(t).r IN
    /\ At(t, "user")
    /\ x \notin Routines => awaits[r] < MaxAwaits
    /\ x \in Routines => owner[x] = r /\ ~IsReady(x)
    /\ x \in Futures => \A s \in Routines \ {r} : waitFor[s] # x /\ fut[x] # s
    /\ awaits' = [awaits EXCEPT ![r] = IF x \in Routines THEN @ ELSE @ + 1]
    /\ waitFor' = [waitFor EXCEPT ![r] = x]
    /\ mCaller' = [mCaller EXCEPT ![r] = r]
    /\ current' = [current EXCEPT ![t] = OuterOf(t, r)]
    /\ Goto(t, IF x \in Routines THEN "take" ELSE "suspend")
    /\ UNCHANGED <<blocked, queue, pending, fut, mOuter, mContinuation, mResult, mIsDetached,
                   finished, life, owner>>

\* The coroutine function ends, with a value or an exception.
Finish(t) ==
    LET r == Top(t).r IN
    /\ At(t, "user")
    /\ \A s \in Routines : owner[s] # r
    /\ finished' = [finished EXCEPT ![r] = TRUE]
    /\ current' = [current EXCEPT ![t] = OuterOf(t, r)]
    /\ Goto(t, IF Top(t).fn = "ctor" THEN "detached" ELSE "exchange")
    /\ UNCHANGED <<blocked, queue, pending, fut, mOuter, mContinuation, mResult, mIsDetached,
                   mCaller, waitFor, life, owner, awaits>>

\* detach(): the handle is given up, and the Data with it if it is done.
Detach(t, r) ==
    /\ InUserCode(t)
    /\ DetachWhen # "never"
    /\ DetachWhen = "unraced" /\ finished[r] => FramesOf(r) = {}
    /\ owner[r] = Actor(t)
    /\ owner' = [owner EXCEPT ![r] = Null]
    /\ mIsDetached' = [mIsDetached EXCEPT ![r] = TRUE]
    /\ life' = [life EXCEPT ![r] = IF mIsDetached[r] THEN "freed" ELSE @]
    /\ UNCHANGED <<stack, current, blocked, queue, pending, fut, mOuter, mContinuation, mResult,
                   mCaller, waitFor, finished, awaits>>

\* The handle of a coroutine that is ready goes out of scope.
Drop(t, r) ==
    /\ InUserCode(t)
    /\ owner[r] = Actor(t)
    /\ IsReady(r)
    /\ owner' = [owner EXCEPT ![r] = Null]
    /\ life' = [life EXCEPT ![r] = "freed"]
    /\ UNCHANGED <<stack, current, blocked, queue, pending, fut, mOuter, mContinuation, mResult,
                   mIsDetached, mCaller, waitFor, finished, awaits>>

\* join() on a thread that has to wait.
Join(t, r) ==
    /\ stack[t] = <<>> /\ blocked[t] = Null
    /\ t \in Mains \ IoThreads
    /\ owner[r] = t
    /\ mResult[r] = Null
    /\ mResult' = [mResult EXCEPT ![r] = t]
    /\ blocked' = [blocked EXCEPT ![t] = r]
    /\ UNCHANGED <<stack, current, queue, pending, fut, mOuter, mContinuation, mIsDetached,
                   mCaller, waitFor, finished, life, owner, awaits>>

\* A promise is set, by a coroutine or by a handler on an io thread.
SetFuture(t, f) ==
    /\ At(t, "user") \/ (stack[t] = <<>> /\ t \in IoThreads)
    /\ fut[f] # Invalid
    /\ fut' = [fut EXCEPT ![f] = Invalid]
    /\ IF fut[f] = Null THEN UNCHANGED stack
                        ELSE Push(t, Frame("runner", fut[f], "runner"))
    /\ UNCHANGED <<current, blocked, queue, pending, routineVars>>

-----------------------------------------------------------------------------
(* The library.                                                            *)

\* An io thread takes a posted Runner.
RunPosted(t) ==
    /\ stack[t] = <<>> /\ t \in IoThreads
    /\ queue # <<>>
    /\ queue' = Tail(queue)
    /\ Push(t, Frame("runner", Head(queue), "runner"))
    /\ UNCHANGED <<current, blocked, pending, fut, routineVars>>

\* An expired timer's handler on an io thread, or the continuation of a task.
Expire(t, r) ==
    /\ stack[t] = <<>> /\ t \in IoThreads
    /\ r \in pending
    /\ pending' = pending \ {r}
    /\ Push(t, Frame("runner", r, "runner"))
    /\ UNCHANGED <<current, blocked, queue, fut, routineVars>>

\* Runner::operator(): posts itself, or takes the coroutine to resume.
CallRunner(t) ==
    LET r == Top(t).r IN
    /\ At(t, "runner")
    /\ IF MayResumeHere(t)
         THEN /\ mCaller' = [mCaller EXCEPT ![r] = Invalid]
              /\ IF mCaller[r] \in Routines
                   THEN Replace(t, Frame("run", mCaller[r], "enter"))
                   ELSE Pop(t)
              /\ UNCHANGED queue
         ELSE /\ queue' = Append(queue, r)
              /\ Pop(t)
              /\ UNCHANGED mCaller
    /\ UNCHANGED <<current, blocked, pending, fut, mOuter, mContinuation, mResult, mIsDetached,
                   waitFor, finished, life, owner, awaits>>

\* One turn of resume() up to the switch to the coroutine's stack, where
\* await() returns with await_resume().
Enter(t) ==
    LET r == Top(t).r IN
    /\ At(t, "enter")
    /\ mOuter' = [mOuter EXCEPT ![r] = current[t]]
    /\ current' = [current EXCEPT ![t] = r]
    /\ waitFor' = [waitFor EXCEPT ![r] = Null]
    /\ Goto(t, "user")
    /\ UNCHANGED <<blocked, queue, pending, fut, mContinuation, mResult, mIsDetached, mCaller,
                   finished, life, owner, awaits>>

\* await_suspend() returned: TRUE leaves the coroutine suspended and returns
\* from resume() or the constructor, FALSE resumes it at once.
Suspended(t) == Pop(t)
NotSuspended(t) ==
    Replace(t, Frame(IF Top(t).fn = "run" THEN "run" ELSE "ctorLoop", Top(t).r, "enter"))

\* runPostLeave() for a future, the io_context, a timer or a task.
SuspendOn(t) ==
    LET r == Top(t).r  x == waitFor[Top(t).r] IN
    /\ At(t, "suspend")
    /\ \/ /\ x = Ioc
          /\ queue' = Append(queue, r)
          /\ Suspended(t)
          /\ UNCHANGED <<pending, fut>>
       \/ /\ x = Timer
          /\ pending' = pending \cup {r}
          /\ Suspended(t)
          /\ UNCHANGED <<queue, fut>>
       \/ /\ x \in Futures
          /\ IF MaySuspend(fut[x])
               THEN fut' = [fut EXCEPT ![x] = r] /\ Suspended(t)
               ELSE NotSuspended(t) /\ UNCHANGED fut
          /\ UNCHANGED <<queue, pending>>
    /\ UNCHANGED <<current, blocked, routineVars>>

\* runPostLeave() for a coroutine, Routine::await_suspend(): the Runner is
\* disarmed first,
TakeCaller(t) ==
    LET r == Top(t).r IN
    /\ At(t, "take")
    /\ mCaller' = [mCaller EXCEPT ![r] = TakenCaller(r)]
    /\ Goto(t, "result")
    /\ UNCHANGED <<current, blocked, queue, pending, fut, mOuter, mContinuation, mResult,
                   mIsDetached, waitFor, finished, life, owner, awaits>>

\* then it is registered with the result,
SuspendResult(t) ==
    LET r == Top(t).r  x == waitFor[Top(t).r] IN
    /\ At(t, "result")
    /\ IF MaySuspend(mResult[x])
         THEN mResult' = [mResult EXCEPT ![x] = r] /\ Goto(t, "install")
         ELSE NotSuspended(t) /\ UNCHANGED mResult
    /\ UNCHANGED <<current, blocked, queue, pending, fut, mOuter, mContinuation, mIsDetached,
                   mCaller, waitFor, finished, life, owner, awaits>>

\* then the awaiting coroutine is installed as the continuation,
InstallContinuation(t) ==
    LET r == Top(t).r  x == waitFor[Top(t).r] IN
    /\ At(t, "install")
    /\ IF ContinuationInstalled(mContinuation[x])
         THEN mContinuation' = [mContinuation EXCEPT ![x] = r] /\ Suspended(t)
         ELSE Goto(t, "spin") /\ UNCHANGED mContinuation
    /\ UNCHANGED <<current, blocked, queue, pending, fut, mOuter, mResult, mIsDetached, mCaller,
                   waitFor, finished, life, owner, awaits>>

\* or, if it came too late, waits for the call of the Runner.
Spin(t) ==
    /\ At(t, "spin")
    /\ SpinDone(Top(t).r)
    /\ NotSuspended(t)
    /\ UNCHANGED <<current, blocked, queue, pending, fut, routineVars>>

\* resume() after the coroutine has ended: mContinuation.exchange(1).
ExchangeContinuation(t) ==
    LET r == Top(t).r IN
    /\ At(t, "exchange")
    /\ mContinuation' = [mContinuation EXCEPT ![r] = Invalid]
    /\ Replace(t, [Frame(Top(t).fn, r, "detached")
                     EXCEPT !.res = TakenContinuation(mContinuation[r])])
    /\ UNCHANGED <<current, blocked, queue, pending, fut, mOuter, mResult, mIsDetached, mCaller,
                   waitFor, finished, life, owner, awaits>>

\* ResultSetter: the compare-exchange of mIsDetached,
CheckDetached(t) ==
    LET r == Top(t).r IN
    /\ At(t, "detached")
    /\ mIsDetached' = [mIsDetached EXCEPT ![r] = TRUE]
    /\ Replace(t, [Top(t) EXCEPT !.destruct = Destructs(mIsDetached[r]), !.pc = "disable"])
    /\ UNCHANGED <<current, blocked, queue, pending, fut, mOuter, mContinuation, mResult, mCaller,
                   waitFor, finished, life, owner, awaits>>

\* the one of mContinuation,
DisableContinuation(t) ==
    LET r == Top(t).r IN
    /\ At(t, "disable")
    /\ mContinuation' = [mContinuation EXCEPT ![r] = IF @ = Null THEN Invalid ELSE @]
    /\ Goto(t, "set")
    /\ UNCHANGED <<current, blocked, queue, pending, fut, mOuter, mResult, mIsDetached, mCaller,
                   waitFor, finished, life, owner, awaits>>

\* the exchange inside set_value() or set_exception(),
SetResult(t) ==
    LET r == Top(t).r IN
    /\ At(t, "set")
    /\ mResult' = [mResult EXCEPT ![r] = Invalid]
    /\ Replace(t, [Top(t) EXCEPT !.call = mResult[r], !.pc = "call"])
    /\ UNCHANGED <<current, blocked, queue, pending, fut, mOuter, mContinuation, mIsDetached,
                   mCaller, waitFor, finished, life, owner, awaits>>

\* the call of the Runner or of the task of join(),
CallResult(t) ==
    LET k == Top(t).call IN
    /\ At(t, "call")
    /\ stack' = [stack EXCEPT ![t] =
                   (IF k \in Routines THEN <<Frame("runner", k, "runner")>> ELSE <<>>)
                     \o <<[Head(@) EXCEPT !.pc = "return"]>> \o Tail(@)]
    /\ blocked' = [u \in Threads |-> IF u = k THEN Null ELSE blocked[u]]
    /\ UNCHANGED <<current, queue, pending, fut, routineVars>>

\* and the destruction of a detached Data. The constructor or resume() returns;
\* the loop of Runner::operator() goes on with the continuation.
Return(t) ==
    LET r == Top(t).r  c == NextContinuation(Top(t).res) IN
    /\ At(t, "return")
    /\ life' = [life EXCEPT ![r] = IF Top(t).destruct THEN "freed" ELSE @]
    /\ IF Top(t).fn = "run" /\ c # Null
         THEN Replace(t, Frame("run", c, "enter"))
         ELSE Pop(t)
    /\ UNCHANGED <<current, blocked, queue, pending, fut, mOuter, mContinuation, mResult,
                   mIsDetached, mCaller, waitFor, finished, owner, awaits>>

UserStep(t) ==
    \/ Finish(t)
    \/ \E r \in Routines : Spawn(t, r) \/ Detach(t, r) \/ Drop(t, r) \/ Join(t, r)
    \/ \E x \in Routines \cup Futures \cup {Ioc, Timer} : Await(t, x)
    \/ \E f \in Futures : SetFuture(t, f)

LibraryStep(t) ==
    \/ RunPosted(t) \/ (\E r \in Routines : Expire(t, r)) \/ CallRunner(t) \/ Enter(t) \/ SuspendOn(t)
    \/ TakeCaller(t) \/ SuspendResult(t) \/ InstallContinuation(t) \/ Spin(t)
    \/ ExchangeContinuation(t) \/ CheckDetached(t) \/ DisableContinuation(t)
    \/ SetResult(t) \/ CallResult(t) \/ Return(t)

Next == \E t \in Threads : UserStep(t) \/ LibraryStep(t)

Spec == Init /\ [][Next]_vars

\* Threads are scheduled, handlers run, coroutines do not loop forever and
\* nobody keeps a handle forever.
FairSpec == Spec /\ \A t \in Threads : WF_vars(UserStep(t) \/ LibraryStep(t))

-----------------------------------------------------------------------------
(* Properties.                                                             *)

\* Every variable holds a value the code can store in it.
TypeOK ==
    /\ \A s \in AllFrames :
          /\ F(s).fn \in {"ctor", "ctorLoop", "run", "runner"}
          /\ F(s).r \in Routines
          /\ F(s).res \in Routines \cup {Null}
          /\ F(s).call \in Routines \cup Threads \cup {Null}
    /\ current \in [Threads -> Routines \cup {Null}]
    /\ blocked \in [Threads -> Routines \cup {Null}]
    /\ \A i \in 1..Len(queue) : queue[i] \in Routines
    /\ pending \subseteq Routines
    /\ fut \in [Futures -> Routines \cup {Null, Invalid}]
    /\ mOuter \in [Routines -> Routines \cup {Null}]
    /\ mContinuation \in [Routines -> Routines \cup {Null, Invalid}]
    /\ mResult \in [Routines -> Routines \cup Threads \cup {Null, Invalid}]
    /\ mCaller \in [Routines -> Routines \cup {Null, Invalid}]
    /\ life \in [Routines -> {"none", "alive", "freed"}]
    /\ owner \in [Routines -> Routines \cup Threads \cup {Null}]

\* However a coroutine is woken, by a future, another coroutine's end, a posted
\* Runner or the late path of await_suspend(), one thread at a time executes
\* it, and never on top of itself.
SingleRunner == \A r \in Routines : \A s, u \in FramesOf(r) : s = u

\* The thread_local current() names the innermost coroutine whose code is on
\* the thread, although coroutines migrate and mOuter belongs to the Data: the
\* asserts of leave(), resume() and the coroutine's end.
CurrentConsistent ==
    \A t \in Threads :
        LET user == {i \in 1..Len(stack[t]) : stack[t][i].pc = "user"}
        IN  current[t] = IF user = {} THEN Null
                         ELSE stack[t][CHOOSE i \in user : \A j \in user : i <= j].r

\* The places from which a suspended coroutine r will be resumed: a future, the
\* queue or a call in progress of its armed Runner, the Data of the coroutine
\* it awaits, or the result of a resume() that is about to return.
Wakers(r) ==
    {<<"future", f>> : f \in {f \in Futures : fut[f] = r}}
    \cup {<<"posted", i>> : i \in {i \in 1..Len(queue) : queue[i] = r /\ mCaller[r] = r}}
    \cup {<<"runner", s>> : s \in {s \in RunnersOf(r) : mCaller[r] = r}}
    \cup {<<"timer", p>> : p \in pending \cap {r}}
    \cup {<<"continuation", x>> : x \in {x \in Routines : mContinuation[x] = r}}
    \cup {<<"result", s>> : s \in {s \in AllFrames : F(s).res = r}}

\* A coroutine that has left its thread for good has exactly one waker, so that
\* it is neither forgotten nor resumed twice; one that is on a thread has none.
ExactlyOneWaker ==
    \A r \in Routines :
        Cardinality(Wakers(r)) =
            IF life[r] = "alive" /\ ~finished[r] /\ FramesOf(r) = {} THEN 1 ELSE 0

\* The coroutines whose Data, or whose stack inside it, the next step of t uses.
Touched(t) ==
    IF stack[t] = <<>> THEN {}
    ELSE IF Top(t).pc \in {"result", "install"} THEN {Top(t).r, waitFor[Top(t).r]}
    ELSE IF Top(t).pc = "call" THEN {Top(t).call} \cap Routines
    ELSE IF Top(t).pc = "return" /\ ~Top(t).destruct THEN {}
    ELSE {Top(t).r}

\* test/CoRoutineTests.cpp detaches coroutines before and after their end: no
\* step uses the memory of a Data that has been released and no handle refers
\* to it.
NoUseAfterFree ==
    /\ \A t \in Threads : \A r \in Touched(t) : life[r] = "alive"
    /\ \A r \in Routines : owner[r] # Null => life[r] = "alive"

\* ~Data() calls std::terminate() for a coroutine that has not ended; and when
\* neither a handle nor a call in progress is left, the Data has been released.
ReleasedInTime ==
    \A r \in Routines :
        /\ life[r] = "freed" => finished[r]
        /\ life[r] = "alive" /\ finished[r] /\ owner[r] = Null => FramesOf(r) # {}

\* The coroutines and the futures as their users see them.
Status == [r \in Routines |->
             IF life[r] # "alive" THEN life[r]
             ELSE IF finished[r] THEN (IF mResult[r] = Invalid THEN "ready" ELSE "ended")
             ELSE IF \E s \in FramesOf(r) : F(s).pc = "user" THEN "running" ELSE "suspended"]
Happened == {f \in Futures : fut[f] = Invalid}

Abs == INSTANCE AbstractRoutine WITH status <- Status, happened <- Happened

\* The library implements AbstractRoutine: await() returns only after what it
\* awaits, and after a coroutine only once mResult is ready, whichever of the
\* racing paths it takes; the memory goes after that.
ImplementsAbstractRoutine == Abs!Spec

\* Every coroutine ends and its memory is released: no wakeup is lost, the loop
\* of await_suspend() ends and no detached Data is leaked.
EveryoneReleased == \A r \in Routines : life[r] = "alive" ~> life[r] = "freed"
=============================================================================
