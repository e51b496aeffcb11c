--------------------------- MODULE ExecutorProofs ---------------------------
(***************************************************************************)
(* Theorems about Executor: every frame a handler writes to is still there *)
(* and is written once, an operation returns its own outcome, and joining  *)
(* the threads of an IoContextThreads leaves nothing half-way.             *)
(***************************************************************************)
EXTENDS Executor, DequeLemmas

-----------------------------------------------------------------------------
(* The inductive invariant.                                                *)

\* The places of a thread: it executes a handler (Busy), and what the handler
\* does to its coroutine is still to come (Pending).
Pending == {"start", "resume", "outside", "callback", "second", "set"}
Busy == Pending \cup {"return"}

Places == {"none", "posted", "user", "thrown", "await", "suspended", "waiting", "done"}

TypeInv ==
    /\ queue \in Seq(HandlerType)
    /\ stopped \in BOOLEAN /\ started \subseteq Tasks
    /\ pool \in {"none", "up", "joining"} /\ pools \in 0 .. MaxPools
    /\ thread \in [Threads -> Busy \cup {"none", "started", "run", "exited"}]
    /\ handler \in [Threads -> HandlerType \cup {Null}]
    /\ task \in [Tasks -> Places]
    /\ on \in [Tasks -> Threads \cup {Null}]
    /\ ready \in [Tasks -> BOOLEAN]
    /\ args \in [Tasks -> Outcomes \cup {Null}]
    /\ expected \in [Tasks -> Outcomes \cup {Null}]
    /\ result \in [Tasks -> Outcomes \cup {Null}]
    /\ ops \in [Tasks -> 0 .. MaxOps]
    /\ overload \in [Tasks -> Overloads \cup {Null}]
    /\ parent \in [Tasks -> Tasks \cup {Null}]
    /\ future \in [Tasks -> Tasks \cup {Null, "value", "exception"}]

\* The handlers in the queue, and those that threads have not yet carried out.
Queued == {h \in HandlerType : In(h, queue)}
Pend(t) == thread[t] \in Pending
Live == Queued \cup {h \in HandlerType : \E t \in Threads : Pend(t) /\ handler[t] = h}

\* A thread has a handler while it executes one, of the kind it executes; a
\* coroutine that is on a thread runs within a handler that is returning.
ThreadInv ==
    /\ \A t \in Threads :
         /\ handler[t] # Null <=> thread[t] \in Busy
         /\ thread[t] \in {"start", "resume", "outside", "callback"} => handler[t].kind = thread[t]
         /\ thread[t] = "second" => handler[t].kind = "callback"
         /\ thread[t] = "set" => handler[t].kind = "outside"
    /\ \A k \in Tasks :
         IF task[k] \in {"user", "thrown", "await"}
         THEN on[k] \in Threads /\ thread[on[k]] = "return"
         ELSE on[k] = Null

\* The count of work.
BusyThreads == {t \in Threads : handler[t] # Null}
CountInv ==
    /\ IsFiniteSet(started)
    /\ outstanding = Len(queue) + Cardinality(started) + Cardinality(BusyThreads)
                      + (IF pool = "up" THEN 1 ELSE 0)

\* Somebody or something refers to each coroutine at most once.
OnceInv ==
    /\ Distinct(queue)
    /\ \A g, h \in Queued : g.k = h.k => g = h
    /\ \A t, u \in Threads : Pend(t) /\ Pend(u) /\ handler[t].k = handler[u].k => t = u
    /\ \A t \in Threads : \A h \in Queued : Pend(t) => handler[t].k # h.k
    /\ \A h \in Live : h.k \notin started /\ \A j \in Tasks : future[j] # h.k
    /\ \A i, j \in Tasks : future[i] = future[j] /\ future[i] \in Tasks => i = j

\* What refers to a coroutine finds it where it expects it.
Alive(k) == task[k] \in {"await", "suspended"} /\ ~ready[k]
ExpectInv ==
    /\ \A h \in Live :
         /\ h.kind = "start" => task[h.k] = "posted" /\ h.o = Null
         /\ h.kind = "resume" => task[h.k] = "waiting"
         /\ h.kind = "outside" => Alive(h.k)
         /\ h.kind = "callback" => Alive(h.k) /\ h.o \in Outcomes /\ expected[h.k] = h.o
    /\ \A t \in Threads : thread[t] \in {"second", "set"} => args[handler[t].k] = expected[handler[t].k]
    /\ \A k \in started : Alive(k)
    /\ \A j \in Tasks : future[j] \in Tasks => task[future[j]] = "waiting"

\* A coroutine that is not on a thread is referred to.
Writes(h, k) == h.k = k /\ h.kind \in {"outside", "callback"}
ReferInv ==
    \A k \in Tasks :
        /\ task[k] = "posted" => \E h \in Live : h.k = k
        /\ task[k] = "suspended" \/ (task[k] = "await" /\ ~ready[k])
             => k \in started \/ \E h \in Live : Writes(h, k)
        /\ task[k] = "waiting" =>
             (\E h \in Live : h.k = k) \/ \E j \in Tasks : future[j] = k

\* The outcome of an operation.
OutcomeInv ==
    \A k \in Tasks :
        /\ task[k] \notin {"await", "suspended"} => result[k] = expected[k]
        /\ ready[k] => task[k] = "await" /\ args[k] = expected[k]

\* The task that holds the future of k, or awaits it, is older than k.
Holds(j, k) == parent[k] = j \/ future[k] = j
TreeInv ==
    /\ \A W \in SUBSET Tasks : W # {} => \E j \in W : \A k \in W : ~Holds(j, k)
    /\ \A j, k \in Tasks : Holds(j, k) => task[j] # "none"
    /\ \A k \in Tasks : task[k] = "none" => parent[k] = Null /\ future[k] = Null
    /\ \A k \in Tasks : task[k] = "done" <=> future[k] \in {"value", "exception"}

\* No coroutine has been started that has not ended.
Quiet ==
    /\ \A k \in Tasks : task[k] \in {"none", "posted", "done"}
    /\ started = {}
    /\ \A t \in Threads : handler[t] = Null
    /\ \A h \in Queued : h.kind = "start"

\* The io_context stops, and the threads end, only when nothing is left to do.
StopInv ==
    /\ stopped \/ pool = "none" \/ Threads = {} => Quiet
    /\ stopped => pool # "up"
    /\ \A t \in Threads : thread[t] = "exited" => stopped
    /\ pool = "none" => \A t \in Threads : thread[t] \in {"none", "exited"}

\* The inductive invariant.
IInv == /\ TypeInv /\ ThreadInv /\ CountInv /\ OnceInv /\ ExpectInv /\ ReferInv
        /\ OutcomeInv /\ TreeInv /\ StopInv

-----------------------------------------------------------------------------
(* Handlers and the queue.                                                 *)

\* A handler has the members it was made with.
LEMMA HandlerFacts ==
    /\ \A kind \in {"start", "resume", "outside", "callback"}, k \in Tasks,
          o \in Outcomes \cup {Null, "value", "exception"} :
         /\ Handler(kind, k, o) \in HandlerType
         /\ Handler(kind, k, o).kind = kind /\ Handler(kind, k, o).k = k /\ Handler(kind, k, o).o = o
    /\ \A h \in HandlerType :
         /\ h.kind \in {"start", "resume", "outside", "callback"} /\ h.k \in Tasks
         /\ h.o \in Outcomes \cup {Null, "value", "exception"}
         /\ h # Null
BY NullAssumption DEF Handler, HandlerType

\* post() adds a handler to the queue.
LEMMA PostEffect ==
    ASSUME TypeInv, NEW h \in HandlerType, queue' = Append(queue, h)
    PROVE  /\ queue' \in Seq(HandlerType)
           /\ Len(queue) \in Nat /\ Len(queue') = Len(queue) + 1
           /\ Queued' = Queued \cup {h}
           /\ UNCHANGED <<thread, handler>> => Live' = Live \cup {h}
           /\ Distinct(queue) /\ h \notin Queued => Distinct(queue')
<1>1. queue \in Seq(HandlerType)
  BY DEF TypeInv
<1>2. /\ queue' \in Seq(HandlerType) /\ Len(queue') = Len(queue) + 1
      /\ \A y : In(y, queue') <=> In(y, queue) \/ y = h
      /\ Distinct(queue) /\ ~In(h, queue) => Distinct(queue')
  BY <1>1, AppendDeque
<1>3. Len(queue) \in Nat
  BY <1>1
<1>4. Queued' = Queued \cup {h}
  BY <1>2 DEF Queued
<1>5. UNCHANGED <<thread, handler>> => Live' = Live \cup {h}
  BY <1>4 DEF Live, Pend
<1>6. h \notin Queued => ~In(h, queue)
  BY DEF Queued
<1> QED BY <1>2, <1>3, <1>4, <1>5, <1>6

\* A thread takes the first handler of the queue.
LEMMA TakeEffect ==
    ASSUME TypeInv, Distinct(queue), queue # <<>>, queue' = Tail(queue)
    PROVE  /\ queue' \in Seq(HandlerType) /\ Distinct(queue')
           /\ Len(queue) \in Nat /\ Len(queue') = Len(queue) - 1
           /\ Head(queue) \in Queued /\ Queued' = Queued \ {Head(queue)}
<1>1. queue \in Seq(HandlerType)
  BY DEF TypeInv
<1>2. Head(queue) = queue[1] /\ In(queue[1], queue) /\ queue[1] \in HandlerType
  BY <1>1, NothingIn
<1>3. /\ queue' \in Seq(HandlerType) /\ Len(queue') = Len(queue) - 1
      /\ \A y : In(y, queue) <=> y = Head(queue) \/ In(y, queue')
      /\ Distinct(queue') /\ ~In(Head(queue), queue')
  BY <1>1, TailDeque
<1>4. Len(queue) \in Nat
  BY <1>1
<1> QED BY <1>2, <1>3, <1>4 DEF Queued

\* Steps that leave the handlers alone.
LEMMA SameTokens ==
    ASSUME UNCHANGED <<queue, handler>>, \A t \in Threads : Pend(t)' <=> Pend(t)
    PROVE  Queued' = Queued /\ Live' = Live
BY DEF Queued, Live

\* Steps that leave the count of work alone.
LEMMA SameCount ==
    ASSUME CountInv, UNCHANGED <<queue, started, handler, outstanding>>,
           pool' = "up" <=> pool = "up"
    PROVE  CountInv'
<1>1. BusyThreads' = BusyThreads
  BY DEF BusyThreads
<1> QED BY <1>1 DEF CountInv

\* The cardinalities of the count are numbers.
LEMMA CountFacts ==
    ASSUME TypeInv, CountInv
    PROVE  /\ Len(queue) \in Nat /\ Cardinality(started) \in Nat
           /\ IsFiniteSet(BusyThreads) /\ Cardinality(BusyThreads) \in Nat
           /\ outstanding \in Nat
<1>1. BusyThreads \subseteq Threads
  BY DEF BusyThreads
<1>2. IsFiniteSet(BusyThreads)
  BY <1>1, ThreadsAssumption, FS_Subset
<1>3. Cardinality(started) \in Nat /\ Cardinality(BusyThreads) \in Nat
  BY <1>2, FS_CardinalityType DEF CountInv
<1>4. Len(queue) \in Nat
  BY LenProperties DEF TypeInv
<1> QED BY <1>2, <1>3, <1>4 DEF CountInv

\* While a coroutine is under way the io_context has not stopped.
LEMMA NotQuiet ==
    ASSUME StopInv, NEW k \in Tasks, task[k] \notin {"none", "posted", "done"}
    PROVE  ~stopped /\ pool # "none" /\ Threads # {}
BY DEF StopInv, Quiet

\* The live handlers are handlers, those of the pending threads among them.
LEMMA LiveFacts ==
    ASSUME TypeInv, ThreadInv
    PROVE  /\ \A h \in Live : h \in HandlerType /\ h.k \in Tasks
           /\ \A h \in Queued : h \in Live
           /\ \A t \in Threads : Pend(t) => handler[t] \in Live /\ handler[t] \in HandlerType
           /\ \A t \in Threads : thread[t] \in {"second", "set"} => Pend(t)
<1>1. \A t \in Threads : Pend(t) => handler[t] \in HandlerType
  BY DEF TypeInv, ThreadInv, Pend, Busy
<1> QED BY <1>1, HandlerFacts DEF Live, Queued, Pend, Pending

\* Nothing refers to a coroutine that runs, has ended or does not exist yet.
LEMMA Unreferred ==
    ASSUME TypeInv, ThreadInv, ExpectInv, NEW k \in Tasks,
           task[k] \in {"user", "thrown", "none", "done"}
    PROVE  /\ \A h \in Live : h.k # k
           /\ k \notin started
           /\ \A j \in Tasks : future[j] # k
<1>1. \A h \in Live : h.kind \in {"start", "resume", "outside", "callback"}
  BY LiveFacts, HandlerFacts
<1> QED BY <1>1 DEF ExpectInv, Alive

\* A thread has carried out what its handler does to a coroutine.
LEMMA CarriedOut ==
    ASSUME TypeInv, ThreadInv, OnceInv, NEW t \in Threads, Pend(t),
           UNCHANGED <<queue, handler>>, thread' = [thread EXCEPT ![t] = "return"]
    PROVE  /\ handler[t] \in Live /\ handler[t] \in HandlerType
           /\ Queued' = Queued /\ Live' = Live \ {handler[t]}
           /\ \A h \in Live' : h \in Live /\ h.k # handler[t].k
           /\ \A u \in Threads : Pend(u)' <=> Pend(u) /\ u # t
<1>1. handler[t] \in Live /\ handler[t] \in HandlerType
  BY LiveFacts
<1>2. Queued' = Queued
  BY DEF Queued
<1>3. \A u \in Threads : Pend(u)' <=> Pend(u) /\ u # t
  BY DEF TypeInv, Pend, Pending
<1>4. \A h \in Live' : h \in Live /\ h.k # handler[t].k
  BY <1>2, <1>3 DEF Live, OnceInv
<1>5. \A h \in Live : h # handler[t] => h \in Live'
  BY <1>2, <1>3 DEF Live
<1> QED BY <1>1, <1>2, <1>3, <1>4, <1>5

\* When no work is left, no coroutine is half-way: of the coroutines that wait
\* for others, one would wait for none of these.
LEMMA Drained ==
    ASSUME TypeInv', ThreadInv', CountInv', ExpectInv', ReferInv', TreeInv', outstanding' = 0
    PROVE  Quiet' /\ pool' # "up"
<1>1. BusyThreads' \subseteq Threads
  BY DEF BusyThreads
<1>2. IsFiniteSet(BusyThreads')
  BY <1>1, ThreadsAssumption, FS_Subset
<1>3. Cardinality(started') \in Nat /\ Cardinality(BusyThreads') \in Nat /\ Len(queue') \in Nat
  BY <1>2, FS_CardinalityType, LenProperties DEF CountInv, TypeInv
<1>4. Cardinality(started') = 0 /\ Cardinality(BusyThreads') = 0 /\ Len(queue') = 0 /\ pool' # "up"
  BY <1>3 DEF CountInv
<1>5. started' = {} /\ BusyThreads' = {}
  BY <1>2, <1>4, FS_EmptySet DEF CountInv
<1>6. Queued' = {}
  BY <1>4 DEF Queued, In
<1>7. \A t \in Threads : handler'[t] = Null /\ thread'[t] \notin Busy
  BY <1>5 DEF BusyThreads, ThreadInv
<1>8. Live' = {}
  BY <1>6, <1>7 DEF Live, Pend, Busy
<1>9. \A k \in Tasks : task'[k] \in {"none", "posted", "waiting", "done"}
  <2> SUFFICES ASSUME NEW k \in Tasks
               PROVE  task'[k] \in {"none", "posted", "waiting", "done"}
    OBVIOUS
  <2>1. task'[k] \in Places
    BY DEF TypeInv
  <2>2. task'[k] \notin {"user", "thrown", "await"}
    BY <1>7 DEF ThreadInv, Busy
  <2>3. task'[k] # "suspended"
    BY <1>5, <1>8 DEF ReferInv
  <2> QED BY <2>1, <2>2, <2>3 DEF Places
<1>10. \A k \in Tasks : task'[k] # "waiting"
  <2> DEFINE W == {k \in Tasks : task'[k] = "waiting"}
  <2> SUFFICES ASSUME W # {} PROVE FALSE
    OBVIOUS
  <2>1. PICK j \in W : \A k \in W : ~Holds(j, k)'
    BY DEF TreeInv
  <2>2. PICK k \in Tasks : future'[k] = j
    BY <1>8 DEF ReferInv
  <2>3. task'[k] \notin {"none", "done", "posted"}
    BY <1>8, <2>2, NullAssumption DEF TreeInv, ReferInv
  <2> QED BY <1>9, <2>1, <2>2, <2>3 DEF Holds
<1> QED BY <1>4, <1>5, <1>6, <1>7, <1>9, <1>10 DEF Quiet

-----------------------------------------------------------------------------
(* The steps of a coroutine that leave the handlers alone.                 *)

\* Catching an exception.
LEMMA CatchStep ==
    ASSUME IInv, NEW k \in Tasks, Catch(k)
    PROVE  IInv'
<1> USE DEF IInv, Catch, iocVars, poolVars, opVars
<1>1. Queued' = Queued /\ Live' = Live
  BY SameTokens DEF Pend
<1>2. TypeInv'
  BY DEF TypeInv, Places
<1>t. task' = [task EXCEPT ![k] = "user"] /\ task \in [Tasks -> Places]
  BY DEF TypeInv
<1>3. ThreadInv'
  BY <1>t DEF ThreadInv
<1>4. CountInv'
  BY SameCount
<1>5. OnceInv'
  BY <1>1 DEF OnceInv, Pend
<1>6. ExpectInv'
  BY <1>1, <1>t, LiveFacts DEF ExpectInv, Alive
<1>7. ReferInv'
  BY <1>1, <1>t DEF ReferInv
<1>8. OutcomeInv'
  BY <1>t DEF OutcomeInv
<1>9. TreeInv'
  BY <1>t DEF TreeInv, Holds
<1>10. StopInv'
  BY <1>t, NotQuiet DEF StopInv
<1> QED BY <1>2, <1>3, <1>4, <1>5, <1>6, <1>7, <1>8, <1>9, <1>10

\* await() of an operation: the result is there, or the coroutine suspends.
LEMMA AwaitOpStep ==
    ASSUME IInv, NEW k \in Tasks, AwaitOp(k)
    PROVE  IInv'
<1> USE DEF IInv, AwaitOp, iocVars, poolVars, opVars
<1>1. Queued' = Queued /\ Live' = Live
  BY SameTokens DEF Pend
<1>2. TypeInv'
  <2>1. CASE ready[k]
    <3>1. PICK p : p \in Places /\ task' = [task EXCEPT ![k] = p]
      BY <2>1 DEF Places
    <3>2. /\ result' = [result EXCEPT ![k] = args[k]] /\ args' = [args EXCEPT ![k] = Null]
          /\ ready' = [ready EXCEPT ![k] = FALSE] /\ overload' = [overload EXCEPT ![k] = Null]
          /\ UNCHANGED <<queue, stopped, started, pool, pools, thread, handler, on, expected, ops,
                         parent, future>>
      BY <2>1
    <3>3. TypeInv
      OBVIOUS
    <3> HIDE DEF AwaitOp, IInv
    <3>4. task' \in [Tasks -> Places] /\ ready' \in [Tasks -> BOOLEAN]
      BY <3>1, <3>2, <3>3 DEF TypeInv
    <3>5. /\ result' \in [Tasks -> Outcomes \cup {Null}]
          /\ args' \in [Tasks -> Outcomes \cup {Null}]
          /\ overload' \in [Tasks -> Overloads \cup {Null}]
      BY <3>2, <3>3 DEF TypeInv
    <3> QED BY <3>2, <3>3, <3>4, <3>5 DEF TypeInv
  <2>2. CASE ~ready[k]
    BY <2>2 DEF TypeInv, Places
  <2> QED BY <2>1, <2>2
<1>t. /\ task \in [Tasks -> Places] /\ on \in [Tasks -> Threads \cup {Null}]
      /\ ready \in [Tasks -> BOOLEAN]
      /\ args \in [Tasks -> Outcomes \cup {Null}] /\ result \in [Tasks -> Outcomes \cup {Null}]
  BY DEF TypeInv
<1>3. ThreadInv'
  BY <1>t DEF ThreadInv
<1>4. CountInv'
  BY SameCount
<1>5. OnceInv'
  BY <1>1 DEF OnceInv, Pend
<1>6. ExpectInv'
  <2>1. \A t \in Threads : thread[t] \in {"second", "set"} => Alive(handler[t].k)
    BY LiveFacts DEF ExpectInv, ThreadInv
  <2>2. \A m \in Tasks : Alive(m)' <=> Alive(m)
    BY <1>t DEF Alive
  <2>3. ASSUME NEW h \in Live
        PROVE  /\ h.k \in Tasks
               /\ h.kind = "start" => task'[h.k] = "posted" /\ h.o = Null
               /\ h.kind = "resume" => task'[h.k] = "waiting"
               /\ h.kind = "outside" => Alive(h.k)'
               /\ h.kind = "callback" => Alive(h.k)' /\ h.o \in Outcomes /\ expected[h.k] = h.o
    BY <1>t, <2>2, LiveFacts DEF ExpectInv
  <2>4. \A t \in Threads : thread[t] \in {"second", "set"} => args'[handler[t].k] = expected[handler[t].k]
    BY <1>t, <2>1, LiveFacts DEF ExpectInv, Alive
  <2>5. \A m \in started : Alive(m)'
    BY <2>2 DEF ExpectInv, TypeInv
  <2>6. \A j \in Tasks : future[j] \in Tasks => task'[future[j]] = "waiting"
    BY <1>t DEF ExpectInv
  <2> QED BY <1>1, <2>3, <2>4, <2>5, <2>6 DEF ExpectInv
<1>7. ReferInv'
  BY <1>1, <1>t DEF ReferInv
<1>8. OutcomeInv'
  BY <1>t DEF OutcomeInv
<1>9. TreeInv'
  BY <1>t DEF TreeInv, Holds
<1>10. StopInv'
  BY <1>t, NotQuiet DEF StopInv
<1> QED BY <1>2, <1>3, <1>4, <1>5, <1>6, <1>7, <1>8, <1>9, <1>10

\* A read that does not suspend.
LEMMA ReadAtOnceStep ==
    ASSUME IInv, NEW k \in Tasks, NEW v \in Overloads, NEW o \in Outcomes, ReadAtOnce(k, v, o)
    PROVE  IInv'
<1> USE DEF IInv, ReadAtOnce, iocVars, poolVars, opVars
<1>1. Queued' = Queued /\ Live' = Live
  BY SameTokens DEF Pend
<1>2. TypeInv'
  BY MaxAssumption DEF TypeInv, Places
<1>t. /\ task \in [Tasks -> Places]
      /\ expected \in [Tasks -> Outcomes \cup {Null}] /\ result \in [Tasks -> Outcomes \cup {Null}]
  BY DEF TypeInv
<1>u. /\ \A h \in Live : h.k # k
      /\ k \notin started
  BY Unreferred
<1>3. ThreadInv'
  BY <1>t DEF ThreadInv
<1>4. CountInv'
  BY SameCount
<1>5. OnceInv'
  BY <1>1 DEF OnceInv, Pend
<1>6. ExpectInv'
  BY <1>1, <1>t, <1>u, LiveFacts DEF ExpectInv, Alive
<1>7. ReferInv'
  BY <1>1, <1>t DEF ReferInv
<1>8. OutcomeInv'
  BY <1>t DEF OutcomeInv
<1>9. TreeInv'
  BY <1>t DEF TreeInv, Holds
<1>10. StopInv'
  BY <1>t, NotQuiet DEF StopInv
<1> QED BY <1>2, <1>3, <1>4, <1>5, <1>6, <1>7, <1>8, <1>9, <1>10

-----------------------------------------------------------------------------
(* The steps of a coroutine that hand the coroutine to the io_context.     *)

\* The new frame of an operation.
LEMMA RunOutsideStep ==
    ASSUME IInv, NEW k \in Tasks, RunOutside(k)
    PROVE  IInv'
<1> USE DEF IInv, RunOutside, NewFrame, AfterStart, Post, iocVars, poolVars, opVars
<1> DEFINE h == Handler("outside", k, Null)
<1>h. h \in HandlerType /\ h.k = k /\ h.kind = "outside"
  BY HandlerFacts
<1>q. queue' = Append(queue, h) /\ outstanding' = outstanding + 1
  OBVIOUS
<1> HIDE DEF h
<1>1. /\ Queued' = Queued \cup {h} /\ Live' = Live \cup {h}
      /\ queue' \in Seq(HandlerType)
      /\ Len(queue) \in Nat /\ Len(queue') = Len(queue) + 1
      /\ Distinct(queue) /\ h \notin Queued => Distinct(queue')
  BY <1>h, <1>q, PostEffect
<1>t. /\ task \in [Tasks -> Places] /\ ready \in [Tasks -> BOOLEAN]
      /\ args \in [Tasks -> Outcomes \cup {Null}]
      /\ expected \in [Tasks -> Outcomes \cup {Null}] /\ result \in [Tasks -> Outcomes \cup {Null}]
  BY DEF TypeInv
<1>2. TypeInv'
  BY <1>1, MaxAssumption DEF TypeInv, Places, Overloads
<1>u. /\ \A g \in Live : g.k # k
      /\ k \notin started
      /\ \A j \in Tasks : future[j] # k
      /\ \A g \in Queued : g \in Live
      /\ \A t \in Threads : Pend(t) => handler[t] \in Live
      /\ \A t \in Threads : thread[t] \in {"second", "set"} => Pend(t)
  BY Unreferred, LiveFacts
<1>3. ThreadInv'
  BY <1>t DEF ThreadInv
<1>4. CountInv'
  <2>1. BusyThreads' = BusyThreads
    BY DEF BusyThreads
  <2> QED BY <1>1, <1>q, <2>1, CountFacts DEF CountInv
<1>5. OnceInv'
  BY <1>1, <1>h, <1>u DEF OnceInv, Pend
<1>6. ExpectInv'
  BY <1>1, <1>h, <1>t, <1>u, LiveFacts DEF ExpectInv, Alive
<1>7. ReferInv'
  BY <1>1, <1>h, <1>t DEF ReferInv, Writes
<1>8. OutcomeInv'
  BY <1>t DEF OutcomeInv
<1>9. TreeInv'
  BY <1>t, SMTT(20) DEF TreeInv, Holds
<1>10. StopInv'
  BY <1>t, NotQuiet DEF StopInv
<1> QED BY <1>2, <1>3, <1>4, <1>5, <1>6, <1>7, <1>8, <1>9, <1>10

\* The start of an asynchronous operation.
LEMMA StartOpStep ==
    ASSUME IInv, NEW k \in Tasks, NEW v \in Overloads, StartOp(k, v)
    PROVE  IInv'
<1> USE DEF IInv, StartOp, NewFrame, AfterStart, iocVars, poolVars, opVars
<1>1. Queued' = Queued /\ Live' = Live
  BY SameTokens DEF Pend
<1>2. TypeInv'
  BY MaxAssumption DEF TypeInv, Places
<1>t. /\ task \in [Tasks -> Places] /\ ready \in [Tasks -> BOOLEAN]
      /\ args \in [Tasks -> Outcomes \cup {Null}]
      /\ expected \in [Tasks -> Outcomes \cup {Null}] /\ result \in [Tasks -> Outcomes \cup {Null}]
  BY DEF TypeInv
<1>u. /\ \A g \in Live : g.k # k
      /\ k \notin started
      /\ \A j \in Tasks : future[j] # k
  BY Unreferred
<1>3. ThreadInv'
  BY <1>t DEF ThreadInv
<1>4. CountInv'
  <2>1. BusyThreads' = BusyThreads
    BY DEF BusyThreads
  <2>2. IsFiniteSet(started') /\ Cardinality(started') = Cardinality(started) + 1
    BY <1>u, FS_AddElement DEF CountInv
  <2> QED BY <2>1, <2>2, CountFacts DEF CountInv
<1>5. OnceInv'
  BY <1>1, <1>u DEF OnceInv, Pend
<1>6. ExpectInv'
  BY <1>1, <1>t, <1>u, LiveFacts DEF ExpectInv, Alive
<1>7. ReferInv'
  BY <1>1, <1>t DEF ReferInv
<1>8. OutcomeInv'
  BY <1>t DEF OutcomeInv
<1>9. TreeInv'
  BY <1>t DEF TreeInv, Holds
<1>10. StopInv'
  BY <1>t, NotQuiet DEF StopInv
<1> QED BY <1>2, <1>3, <1>4, <1>5, <1>6, <1>7, <1>8, <1>9, <1>10

\* await() of another task.
LEMMA AwaitTaskStep ==
    ASSUME IInv, NEW j \in Tasks, NEW k \in Tasks, AwaitTask(j, k)
    PROVE  IInv'
<1> USE DEF IInv, AwaitTask, Outcome, iocVars, poolVars, opVars
<1>1. Queued' = Queued /\ Live' = Live
  BY SameTokens DEF Pend
<1>2. TypeInv'
  <2>1. PICK q \in Places : task' = [task EXCEPT ![j] = q]
    BY DEF Places
  <2>2. task' \in [Tasks -> Places] /\ parent' \in [Tasks -> Tasks \cup {Null}]
    BY <2>1 DEF TypeInv
  <2>3. future' \in [Tasks -> Tasks \cup {Null, "value", "exception"}]
    BY DEF TypeInv
  <2>4. on' \in [Tasks -> Threads \cup {Null}]
    BY DEF TypeInv
  <2>5. UNCHANGED <<queue, stopped, started, pool, pools, thread, handler, ready, args, expected,
                    result, ops, overload>>
    OBVIOUS
  <2> HIDE DEF AwaitTask
  <2> QED BY <2>2, <2>3, <2>4, <2>5 DEF TypeInv
<1>t. /\ task \in [Tasks -> Places] /\ on \in [Tasks -> Threads \cup {Null}]
      /\ parent \in [Tasks -> Tasks \cup {Null}]
      /\ future \in [Tasks -> Tasks \cup {Null, "value", "exception"}]
      /\ j # Null /\ j \notin {"value", "exception"}
  BY NullAssumption DEF TypeInv
<1>u. /\ \A g \in Live : g.k # j
      /\ j \notin started
      /\ \A i \in Tasks : future[i] # j
  BY Unreferred
<1>3. ThreadInv'
  BY <1>t DEF ThreadInv
<1>4. CountInv'
  BY SameCount
<1>5. OnceInv'
  <2>1. \A h \in Live : \A i \in Tasks : future'[i] # h.k
    BY <1>t, <1>u DEF OnceInv
  <2>2. \A i, m \in Tasks : future'[i] = future'[m] /\ future'[i] \in Tasks => i = m
    BY <1>t, <1>u DEF OnceInv
  <2> QED BY <1>1, <2>1, <2>2 DEF OnceInv, Pend
<1>6. ExpectInv'
  <2>1. \A m \in Tasks : Alive(m)' <=> Alive(m)
    BY <1>t DEF Alive
  <2>2. \A m \in Tasks : m # j => task'[m] = task[m]
    BY <1>t
  <2>3. \A i \in Tasks : future'[i] \in Tasks => task'[future'[i]] = "waiting"
    BY <1>t, <1>u DEF ExpectInv
  <2> QED BY <1>1, <1>u, <2>1, <2>2, <2>3, LiveFacts DEF ExpectInv, TypeInv
<1>7. ReferInv'
  <2>1. \A i, m \in Tasks : future[i] = m => future'[i] = m
    BY <1>t, NullAssumption
  <2>2. task'[j] = "waiting" => future'[k] = j
    BY <1>t
  <2>3. task'[j] \in {"waiting", "user", "thrown"}
    BY <1>t
  <2>4. \A m \in Tasks : m # j => task'[m] = task[m]
    BY <1>t
  <2> QED BY <1>1, <2>1, <2>2, <2>3, <2>4 DEF ReferInv
<1>8. OutcomeInv'
  BY <1>t DEF OutcomeInv
<1>9. TreeInv'
  <2>1. \A i, m \in Tasks : Holds(i, m)' => Holds(i, m)
    BY <1>t, NullAssumption DEF Holds
  <2>2. \A W \in SUBSET Tasks : W # {} => \E i \in W : \A m \in W : ~Holds(i, m)'
    BY <2>1 DEF TreeInv
  <2>3. \A i, m \in Tasks : Holds(i, m)' => task'[i] # "none"
    BY <1>t, <2>1 DEF TreeInv
  <2>4. task[k] # "none" /\ (future[k] = Null => task[k] # "done")
    BY <1>t, NullAssumption DEF TreeInv
  <2> QED BY <1>t, <2>2, <2>3, <2>4, NullAssumption DEF TreeInv
<1>10. StopInv'
  BY <1>t, NotQuiet DEF StopInv
<1> QED BY <1>2, <1>3, <1>4, <1>5, <1>6, <1>7, <1>8, <1>9, <1>10

\* async(), called by a regular thread or by a task.
LEMMA AsyncStep ==
    ASSUME IInv, NEW k \in Tasks, NEW j \in Tasks \cup {Null}, Async(k, j)
    PROVE  IInv'
<1> USE DEF IInv, Async, Post, iocVars, poolVars, opVars
<1> DEFINE h == Handler("start", k, Null)
<1>h. h \in HandlerType /\ h.k = k /\ h.kind = "start" /\ h.o = Null
  BY HandlerFacts
<1>q. queue' = Append(queue, h) /\ outstanding' = outstanding + 1
  OBVIOUS
<1> HIDE DEF h
<1>1. /\ Queued' = Queued \cup {h} /\ Live' = Live \cup {h}
      /\ queue' \in Seq(HandlerType)
      /\ Len(queue) \in Nat /\ Len(queue') = Len(queue) + 1
      /\ Distinct(queue) /\ h \notin Queued => Distinct(queue')
  BY <1>h, <1>q, PostEffect
<1>t. /\ task \in [Tasks -> Places] /\ parent \in [Tasks -> Tasks \cup {Null}]
  BY DEF TypeInv
<1>2. TypeInv'
  BY <1>1 DEF TypeInv, Places
<1>u. /\ \A g \in Live : g.k # k
      /\ k \notin started
      /\ \A i \in Tasks : future[i] # k
      /\ \A g \in Queued : g \in Live
      /\ \A t \in Threads : Pend(t) => handler[t] \in Live
      /\ \A t \in Threads : thread[t] \in {"second", "set"} => Pend(t)
  BY Unreferred, LiveFacts
<1>3. ThreadInv'
  BY <1>t DEF ThreadInv
<1>4. CountInv'
  <2>1. BusyThreads' = BusyThreads
    BY DEF BusyThreads
  <2> QED BY <1>1, <1>q, <2>1, CountFacts DEF CountInv
<1>5. OnceInv'
  BY <1>1, <1>h, <1>u DEF OnceInv, Pend
<1>6. ExpectInv'
  BY <1>1, <1>h, <1>t, <1>u, LiveFacts DEF ExpectInv, Alive
<1>7. ReferInv'
  BY <1>1, <1>h, <1>t DEF ReferInv, Writes
<1>8. OutcomeInv'
  BY <1>t DEF OutcomeInv
<1>9. TreeInv'
  <2>1. \A m \in Tasks : ~Holds(k, m)'
    BY <1>t, <1>u DEF Holds, TreeInv
  <2>2. \A i, m \in Tasks : Holds(i, m)' => Holds(i, m) \/ (m = k /\ i = j)
    BY <1>t DEF Holds
  <2>3. ASSUME NEW W \in SUBSET Tasks, W # {}
        PROVE  \E i \in W : \A m \in W : ~Holds(i, m)'
    <3>1. CASE k \in W
      BY <2>1, <3>1
    <3>2. CASE k \notin W
      <4>1. PICK i \in W : \A m \in W : ~Holds(i, m)
        BY <2>3 DEF TreeInv
      <4> QED BY <2>2, <3>2, <4>1
    <3> QED BY <3>1, <3>2
  <2>4. \A i, m \in Tasks : Holds(i, m)' => task'[i] # "none"
    BY <1>t, <2>2, NullAssumption DEF TreeInv
  <2>5. future[k] = Null
    BY DEF TreeInv
  <2>6. \A m \in Tasks : /\ task'[m] = "none" => parent'[m] = Null /\ future'[m] = Null
                         /\ task'[m] = "done" <=> future'[m] \in {"value", "exception"}
    BY <1>t, <2>5, NullAssumption DEF TreeInv
  <2> QED BY <2>3, <2>4, <2>6 DEF TreeInv
<1>10. StopInv'
  BY <1>1, <1>h, <1>t DEF StopInv, Quiet
<1> QED BY <1>2, <1>3, <1>4, <1>5, <1>6, <1>7, <1>8, <1>9, <1>10

\* The end of a task's function: its outcome is set, and the task that awaits
\* it is handed to the io_context.
LEMMA FinishStep ==
    ASSUME IInv, NEW k \in Tasks, NEW o \in {"value", "exception"}, Finish(k, o)
    PROVE  IInv'
<1> USE DEF IInv, Finish, Post, iocVars, poolVars, opVars
<1>t. /\ task \in [Tasks -> Places] /\ on \in [Tasks -> Threads \cup {Null}]
      /\ future \in [Tasks -> Tasks \cup {Null, "value", "exception"}]
      /\ expected \in [Tasks -> Outcomes \cup {Null}] /\ result \in [Tasks -> Outcomes \cup {Null}]
      /\ o \notin Tasks /\ o # Null
  BY NullAssumption DEF TypeInv
<1>u. /\ \A g \in Live : g.k # k
      /\ k \notin started
      /\ \A i \in Tasks : future[i] # k
      /\ \A g \in Queued : g \in Live
      /\ \A t \in Threads : Pend(t) => handler[t] \in Live
      /\ \A t \in Threads : thread[t] \in {"second", "set"} => Pend(t)
  BY Unreferred, LiveFacts
<1>3. ThreadInv'
  BY <1>t DEF ThreadInv
<1>8. OutcomeInv'
  BY <1>t DEF OutcomeInv
<1>9. TreeInv'
  <2>1. \A i, m \in Tasks : Holds(i, m)' => Holds(i, m)
    BY <1>t DEF Holds
  <2>2. \A W \in SUBSET Tasks : W # {} => \E i \in W : \A m \in W : ~Holds(i, m)'
    BY <2>1 DEF TreeInv
  <2>3. \A i, m \in Tasks : Holds(i, m)' => task'[i] # "none"
    BY <1>t, <2>1 DEF TreeInv
  <2>4. \A m \in Tasks : /\ task'[m] = "none" => parent'[m] = Null /\ future'[m] = Null
                         /\ task'[m] = "done" <=> future'[m] \in {"value", "exception"}
    BY <1>t DEF TreeInv
  <2> QED BY <2>2, <2>3, <2>4 DEF TreeInv
<1>10. StopInv'
  BY <1>t, NotQuiet DEF StopInv
<1>f. \A i, m \in Tasks : future'[i] = m => future[i] = m /\ i # k
  BY <1>t
<1>a. CASE future[k] \in Tasks
  <2> DEFINE j == future[k]
             h == Handler("resume", j, o)
  <2>h. h \in HandlerType /\ h.k = j /\ h.kind = "resume"
    BY <1>a, HandlerFacts
  <2>q. queue' = Append(queue, h) /\ outstanding' = outstanding + 1
    BY <1>a
  <2>j. /\ j \in Tasks /\ j # k /\ task[j] = "waiting"
        /\ j \notin started
        /\ \A g \in Live : g.k # j
        /\ \A i \in Tasks : future[i] = j => i = k
    BY <1>a, <1>u DEF ExpectInv, OnceInv, Alive
  <2> HIDE DEF h, j
  <2>1. /\ Queued' = Queued \cup {h} /\ Live' = Live \cup {h}
        /\ queue' \in Seq(HandlerType)
        /\ Len(queue) \in Nat /\ Len(queue') = Len(queue) + 1
        /\ Distinct(queue) /\ h \notin Queued => Distinct(queue')
    BY <2>h, <2>q, PostEffect
  <2>2. TypeInv'
    BY <2>1, MaxAssumption DEF TypeInv, Places
  <2>4. CountInv'
    <3>1. BusyThreads' = BusyThreads
      BY DEF BusyThreads
    <3> QED BY <2>1, <2>q, <3>1, CountFacts DEF CountInv
  <2>5. OnceInv'
    <3>1. \A g \in Live' : g.k \notin started /\ \A i \in Tasks : future'[i] # g.k
      BY <1>f, <2>1, <2>h, <2>j, LiveFacts DEF OnceInv
    <3>2. \A i, m \in Tasks : future'[i] = future'[m] /\ future'[i] \in Tasks => i = m
      BY <1>f DEF OnceInv
    <3>3. /\ Distinct(queue')
          /\ \A f, g \in Queued' : f.k = g.k => f = g
          /\ \A t \in Threads : \A g \in Queued' : Pend(t) => handler[t].k # g.k
      BY <1>u, <2>1, <2>h, <2>j DEF OnceInv
    <3> QED BY <3>1, <3>2, <3>3 DEF OnceInv, Pend
  <2>6. ExpectInv'
    BY <1>f, <1>t, <1>u, <2>1, <2>h, <2>j, LiveFacts DEF ExpectInv, Alive
  <2>7. ReferInv'
    <3>1. \A m \in Tasks : m # k => task'[m] = task[m]
      BY <1>t
    <3>2. task'[k] = "done"
      BY <1>t
    <3>3. \A m \in Tasks : (\E i \in Tasks : future[i] = m) =>
             m = j \/ \E i \in Tasks : future'[i] = m
      BY <1>t DEF j
    <3> QED BY <2>1, <2>h, <3>1, <3>2, <3>3 DEF ReferInv
  <2> QED BY <1>3, <1>8, <1>9, <1>10, <2>2, <2>4, <2>5, <2>6, <2>7
<1>b. CASE future[k] \notin Tasks
  <2>1. Queued' = Queued /\ Live' = Live
    BY <1>b, SameTokens DEF Pend
  <2>2. TypeInv'
    BY <1>b, MaxAssumption DEF TypeInv, Places
  <2>4. CountInv'
    BY <1>b, SameCount
  <2>5. OnceInv'
    BY <1>b, <1>f, <2>1, LiveFacts DEF OnceInv, Pend
  <2>6. ExpectInv'
    BY <1>f, <1>t, <1>u, <2>1, LiveFacts DEF ExpectInv, Alive
  <2>7. ReferInv'
    <3>1. \A m \in Tasks : m # k => task'[m] = task[m]
      BY <1>t
    <3>2. task'[k] = "done"
      BY <1>t
    <3>3. \A i, m \in Tasks : future[i] = m => future'[i] = m
      BY <1>b, <1>t
    <3> QED BY <2>1, <3>1, <3>2, <3>3 DEF ReferInv
  <2> QED BY <1>3, <1>8, <1>9, <1>10, <2>2, <2>4, <2>5, <2>6, <2>7
<1> QED BY <1>a, <1>b

\* The end of an asynchronous operation.
LEMMA CompleteStep ==
    ASSUME IInv, NEW k \in Tasks, NEW o \in Outcomes, Complete(k, o)
    PROVE  IInv'
<1> USE DEF IInv, Complete, poolVars
<1> DEFINE h == Handler("callback", k, o)
<1>h. h \in HandlerType /\ h.k = k /\ h.kind = "callback" /\ h.o = o
  BY HandlerFacts
<1>q. queue' = Append(queue, h)
  OBVIOUS
<1> HIDE DEF h
<1>1. /\ Queued' = Queued \cup {h} /\ Live' = Live \cup {h}
      /\ queue' \in Seq(HandlerType)
      /\ Len(queue) \in Nat /\ Len(queue') = Len(queue) + 1
      /\ Distinct(queue) /\ h \notin Queued => Distinct(queue')
  BY <1>h, <1>q, PostEffect
<1>t. expected \in [Tasks -> Outcomes \cup {Null}]
  BY DEF TypeInv
<1>2. TypeInv'
  BY <1>1 DEF TypeInv
<1>u. /\ \A g \in Live : g.k # k
      /\ Alive(k)
      /\ \A i \in Tasks : future[i] # k
      /\ \A g \in Queued : g \in Live
      /\ \A t \in Threads : Pend(t) => handler[t] \in Live
      /\ \A t \in Threads : thread[t] \in {"second", "set"} => Pend(t)
  BY LiveFacts DEF OnceInv, ExpectInv, Alive
<1>3. ThreadInv'
  BY DEF ThreadInv
<1>4. CountInv'
  <2>1. BusyThreads' = BusyThreads
    BY DEF BusyThreads
  <2>2. IsFiniteSet(started') /\ Cardinality(started') = Cardinality(started) - 1
    BY FS_RemoveElement DEF CountInv
  <2> QED BY <1>1, <2>1, <2>2, CountFacts DEF CountInv
<1>5. OnceInv'
  BY <1>1, <1>h, <1>u DEF OnceInv, Pend
<1>6. ExpectInv'
  BY <1>1, <1>h, <1>t, <1>u, LiveFacts DEF ExpectInv, Alive
<1>7. ReferInv'
  BY <1>1, <1>h DEF ReferInv, Writes
<1>8. OutcomeInv'
  BY <1>t, <1>u DEF OutcomeInv, Alive
<1>9. TreeInv'
  BY DEF TreeInv, Holds
<1>10. StopInv'
  BY DEF StopInv, Quiet
<1> QED BY <1>2, <1>3, <1>4, <1>5, <1>6, <1>7, <1>8, <1>9, <1>10

-----------------------------------------------------------------------------
(* The steps of the threads.                                               *)

\* A thread enters run().
LEMMA EnterRunStep ==
    ASSUME IInv, NEW t \in Threads, EnterRun(t)
    PROVE  IInv'
<1> USE DEF IInv, EnterRun, opVars
<1>t. thread \in [Threads -> Busy \cup {"none", "started", "run", "exited"}]
  BY DEF TypeInv
<1>s. /\ "started" \notin Busy /\ "run" \notin Busy
      /\ \A u \in Threads : u # t => thread'[u] = thread[u]
      /\ thread[t] = "started" /\ thread'[t] = "run"
  BY <1>t DEF Busy, Pending
<1>1. Queued' = Queued /\ Live' = Live
  <2>1. \A u \in Threads : Pend(u)' <=> Pend(u)
    BY <1>s DEF Pend, Busy
  <2> QED BY <2>1, SameTokens
<1>2. TypeInv'
  BY DEF TypeInv
<1>3. ThreadInv'
  BY <1>s DEF ThreadInv
<1>4. CountInv'
  BY SameCount
<1>5. OnceInv'
  BY <1>1, <1>s DEF OnceInv, Pend, Busy
<1>6. ExpectInv'
  BY <1>1, <1>s DEF ExpectInv, Alive
<1>7. ReferInv'
  BY <1>1 DEF ReferInv
<1>8. OutcomeInv'
  BY DEF OutcomeInv
<1>9. TreeInv'
  BY DEF TreeInv, Holds
<1>10. StopInv'
  <2>1. outstanding' = 0 => Quiet' /\ pool' # "up"
    BY <1>2, <1>3, <1>4, <1>6, <1>7, <1>9, Drained
  <2>2. Quiet' <=> Quiet
    BY <1>1 DEF Quiet
  <2> QED BY <1>s, <2>1, <2>2 DEF StopInv
<1> QED BY <1>2, <1>3, <1>4, <1>5, <1>6, <1>7, <1>8, <1>9, <1>10

\* A thread takes a handler from the queue.
LEMMA TakeHandlerStep ==
    ASSUME IInv, NEW t \in Threads, TakeHandler(t)
    PROVE  IInv'
<1> USE DEF IInv, TakeHandler, opVars
<1>h. PICK h : h = Head(queue)
  OBVIOUS
<1>1. /\ queue' \in Seq(HandlerType) /\ Distinct(queue')
      /\ Len(queue) \in Nat /\ Len(queue') = Len(queue) - 1
      /\ h \in Queued /\ Queued' = Queued \ {h}
  BY <1>h, TakeEffect DEF OnceInv
<1>k. h \in HandlerType /\ h.kind \in Pending /\ h.kind \in Busy /\ h # Null
      /\ h.kind \in {"start", "resume", "outside", "callback"}
      /\ h.kind \notin {"second", "set", "exited", "none", "return"}
  BY <1>1, HandlerFacts DEF Queued, Pending, Busy
<1>s. /\ thread[t] = "run" /\ "run" \notin Busy /\ handler[t] = Null
      /\ thread' = [thread EXCEPT ![t] = h.kind] /\ handler' = [handler EXCEPT ![t] = h]
      /\ thread'[t] = h.kind /\ handler'[t] = h
      /\ \A u \in Threads : u # t => thread'[u] = thread[u] /\ handler'[u] = handler[u]
  BY <1>h DEF TypeInv, ThreadInv, Busy, Pending
<1>p. \A u \in Threads : Pend(u)' <=> Pend(u) \/ u = t
  BY <1>k, <1>s DEF Pend
<1>n. ~Pend(t)
  BY <1>s DEF Pend, Busy
<1>2. TypeInv'
  BY <1>1, <1>k, <1>s DEF TypeInv
<1>l. Live' = Live
  BY <1>1, <1>k, <1>n, <1>p, <1>s DEF Live, Queued
<1>3. ThreadInv'
  BY <1>k, <1>s DEF ThreadInv
<1>4. CountInv'
  <2>1. BusyThreads' = BusyThreads \cup {t} /\ t \notin BusyThreads
    BY <1>k, <1>s DEF BusyThreads
  <2>2. Cardinality(BusyThreads') = Cardinality(BusyThreads) + 1
    BY <2>1, CountFacts, FS_AddElement
  <2> QED BY <1>1, <2>2, CountFacts DEF CountInv
<1>5. OnceInv'
  BY <1>1, <1>l, <1>n, <1>p, <1>s DEF OnceInv
<1>6. ExpectInv'
  BY <1>l, <1>k, <1>s DEF ExpectInv, Alive
<1>7. ReferInv'
  BY <1>l DEF ReferInv
<1>8. OutcomeInv'
  BY DEF OutcomeInv
<1>9. TreeInv'
  BY DEF TreeInv, Holds
<1>10. StopInv'
  BY <1>k, <1>s DEF StopInv
<1> QED BY <1>2, <1>3, <1>4, <1>5, <1>6, <1>7, <1>8, <1>9, <1>10

\* A thread leaves run().
LEMMA LeaveRunStep ==
    ASSUME IInv, NEW t \in Threads, LeaveRun(t)
    PROVE  IInv'
<1> USE DEF IInv, LeaveRun, iocVars, opVars
<1>t. thread \in [Threads -> Busy \cup {"none", "started", "run", "exited"}]
  BY DEF TypeInv
<1>s. /\ "run" \notin Busy /\ "exited" \notin Busy
      /\ \A u \in Threads : u # t => thread'[u] = thread[u]
      /\ thread[t] = "run" /\ thread'[t] = "exited"
  BY <1>t DEF Busy, Pending
<1>1. Queued' = Queued /\ Live' = Live
  <2>1. \A u \in Threads : Pend(u)' <=> Pend(u)
    BY <1>s DEF Pend, Busy
  <2> QED BY <2>1, SameTokens
<1>2. TypeInv'
  BY DEF TypeInv
<1>3. ThreadInv'
  BY <1>s DEF ThreadInv
<1>4. CountInv'
  BY SameCount
<1>5. OnceInv'
  BY <1>1, <1>s DEF OnceInv, Pend, Busy
<1>6. ExpectInv'
  BY <1>1, <1>s DEF ExpectInv, Alive
<1>7. ReferInv'
  BY <1>1 DEF ReferInv
<1>8. OutcomeInv'
  BY DEF OutcomeInv
<1>9. TreeInv'
  BY DEF TreeInv, Holds
<1>10. StopInv'
  <2>1. Quiet' <=> Quiet
    BY <1>1 DEF Quiet
  <2> QED BY <1>s, <2>1 DEF StopInv
<1> QED BY <1>2, <1>3, <1>4, <1>5, <1>6, <1>7, <1>8, <1>9, <1>10

\* A handler returns; the io_context stops if it was the last work.
LEMMA HandlerReturnsStep ==
    ASSUME IInv, NEW t \in Threads, HandlerReturns(t)
    PROVE  IInv'
<1> USE DEF IInv, HandlerReturns, WorkFinished, opVars
<1>s. /\ thread[t] = "return" /\ "return" \in Busy /\ "return" \notin Pending
      /\ "run" \notin Busy /\ "run" \notin Pending
      /\ handler[t] # Null /\ thread'[t] = "run" /\ handler'[t] = Null
      /\ \A u \in Threads : u # t => thread'[u] = thread[u] /\ handler'[u] = handler[u]
  BY DEF TypeInv, ThreadInv, Busy, Pending
<1>p. \A u \in Threads : (Pend(u)' <=> Pend(u)) /\ (Pend(u) => u # t)
  BY <1>s DEF Pend
<1>1. Queued' = Queued /\ Live' = Live
  <2>1. Queued' = Queued
    BY DEF Queued
  <2> QED BY <1>p, <1>s, <2>1 DEF Live
<1>2. TypeInv'
  BY DEF TypeInv
<1>3. ThreadInv'
  BY <1>s DEF ThreadInv, NoCoroutineOn
<1>4. CountInv'
  <2>1. BusyThreads' = BusyThreads \ {t} /\ t \in BusyThreads
    BY <1>s DEF BusyThreads
  <2>2. Cardinality(BusyThreads') = Cardinality(BusyThreads) - 1
    BY <2>1, CountFacts, FS_RemoveElement
  <2> QED BY <2>2, CountFacts DEF CountInv
<1>5. OnceInv'
  BY <1>1, <1>p, <1>s DEF OnceInv
<1>6. ExpectInv'
  BY <1>1, <1>s DEF ExpectInv, Alive
<1>7. ReferInv'
  BY <1>1 DEF ReferInv
<1>8. OutcomeInv'
  BY DEF OutcomeInv
<1>9. TreeInv'
  BY DEF TreeInv, Holds
<1>10. StopInv'
  <2>1. outstanding' = 0 => Quiet' /\ pool' # "up"
    BY <1>2, <1>3, <1>4, <1>6, <1>7, <1>9, Drained
  <2>2. outstanding = 1 => outstanding' = 0
    OBVIOUS
  <2>3. ~stopped /\ pool # "none" /\ Threads # {}
    BY <1>s DEF StopInv, Quiet
  <2> QED BY <1>s, <2>1, <2>2, <2>3 DEF StopInv
<1> QED BY <1>2, <1>3, <1>4, <1>5, <1>6, <1>7, <1>8, <1>9, <1>10

\* A posted function or Runner lets its coroutine run on the thread.
LEMMA EnterRoutineStep ==
    ASSUME IInv, NEW t \in Threads, EnterRoutine(t)
    PROVE  IInv'
<1> USE DEF IInv, EnterRoutine, iocVars, opVars
<1>h. PICK h, p : h = handler[t] /\ p = Outcome(h.o)
  OBVIOUS
<1>s. /\ thread[t] \in {"start", "resume"} /\ Pend(t) /\ thread[t] \in Busy /\ "return" \in Busy
      /\ thread' = [thread EXCEPT ![t] = "return"] /\ thread'[t] = "return"
      /\ \A u \in Threads : u # t => thread'[u] = thread[u]
  BY DEF TypeInv, Pend, Pending, Busy
<1>1. /\ h \in Live /\ h \in HandlerType
      /\ Queued' = Queued /\ Live' = Live \ {h}
      /\ \A g \in Live' : g \in Live /\ g.k # h.k
      /\ \A u \in Threads : Pend(u)' <=> Pend(u) /\ u # t
  BY <1>h, <1>s, CarriedOut
<1>k. h.k \in Tasks /\ h.kind = thread[t] /\ p \in {"user", "thrown"}
  BY <1>1, <1>h, <1>s, HandlerFacts DEF ThreadInv, Outcome
<1>t. /\ task' = [task EXCEPT ![h.k] = p] /\ on' = [on EXCEPT ![h.k] = t]
      /\ task \in [Tasks -> Places] /\ on \in [Tasks -> Threads \cup {Null}]
      /\ task[h.k] \in {"posted", "waiting"}
  BY <1>1, <1>h, <1>k, <1>s DEF TypeInv, ExpectInv
<1>u. /\ h.k \notin started /\ \A j \in Tasks : future[j] # h.k
  BY <1>1 DEF OnceInv
<1>2. TypeInv'
  <2>1. task' \in [Tasks -> Places]
    BY <1>k, <1>t DEF Places
  <2>2. on' \in [Tasks -> Threads \cup {Null}]
    BY <1>k, <1>t
  <2>3. thread' \in [Threads -> Busy \cup {"none", "started", "run", "exited"}]
    BY <1>s DEF TypeInv
  <2> QED BY <2>1, <2>2, <2>3 DEF TypeInv
<1>3. ThreadInv'
  <2>1. handler[t] # Null
    BY <1>s DEF ThreadInv
  <2> QED BY <1>k, <1>s, <1>t, <2>1 DEF ThreadInv
<1>4. CountInv'
  BY SameCount
<1>5. OnceInv'
  BY <1>1 DEF OnceInv
<1>6. ExpectInv'
  BY <1>1, <1>k, <1>s, <1>t, <1>u, LiveFacts DEF ExpectInv, Alive
<1>7. ReferInv'
  <2>1. \A m \in Tasks : m # h.k => task'[m] = task[m]
    BY <1>t
  <2>2. task'[h.k] \in {"user", "thrown"}
    BY <1>k, <1>t
  <2>3. \A g \in Live : g.k # h.k => g \in Live'
    BY <1>1
  <2> QED BY <2>1, <2>2, <2>3 DEF ReferInv, Writes
<1>8. OutcomeInv'
  BY <1>k, <1>t DEF OutcomeInv
<1>9. TreeInv'
  BY <1>k, <1>t DEF TreeInv, Holds
<1>10. StopInv'
  <2>1. ~stopped /\ pool # "none" /\ Threads # {}
    BY <1>s DEF StopInv, Quiet, ThreadInv
  <2> QED BY <1>s, <2>1 DEF StopInv
<1> QED BY <1>2, <1>3, <1>4, <1>5, <1>6, <1>7, <1>8, <1>9, <1>10

\* A handler stores what the operation ended with in the frame.
LEMMA StoreStep ==
    ASSUME IInv, NEW t \in Threads, NEW o \in Outcomes, NEW p,
           \/ thread[t] = "callback" /\ p = "second" /\ o = handler[t].o /\ expected' = expected
           \/ /\ thread[t] = "outside" /\ p = "set"
              /\ expected' = [expected EXCEPT ![handler[t].k] = o],
           StoreArgs(handler[t].k, o), thread' = [thread EXCEPT ![t] = p],
           UNCHANGED <<iocVars, pool, pools, handler, result, ops, overload, parent, future>>
    PROVE  IInv'
<1> USE DEF IInv, StoreArgs, iocVars
<1>h. PICK h : h = handler[t]
  OBVIOUS
<1>s. /\ Pend(t) /\ thread[t] \in Busy /\ p \in Busy /\ p \in Pending
      /\ thread[t] \notin {"return", "none", "exited"} /\ p \in {"second", "set"}
      /\ thread'[t] = p
      /\ \A u \in Threads : u # t => thread'[u] = thread[u]
  BY DEF TypeInv, Pend, Pending, Busy
<1>p. \A u \in Threads : Pend(u)' <=> Pend(u)
  BY <1>s DEF Pend
<1>1. Queued' = Queued /\ Live' = Live
  BY <1>p, SameTokens
<1>k. /\ h \in Live /\ h \in HandlerType /\ h.k \in Tasks /\ Alive(h.k)
      /\ thread[t] = "callback" => h.kind = "callback"
      /\ thread[t] = "outside" => h.kind = "outside"
  BY <1>h, <1>s, LiveFacts DEF ThreadInv, ExpectInv
<1>t. /\ args' = [args EXCEPT ![h.k] = o] /\ args \in [Tasks -> Outcomes \cup {Null}]
      /\ expected \in [Tasks -> Outcomes \cup {Null}]
      /\ expected'[h.k] = o /\ args'[h.k] = o
      /\ \A m \in Tasks : m # h.k => expected'[m] = expected[m] /\ args'[m] = args[m]
  BY <1>h, <1>k DEF TypeInv, ExpectInv
<1>2. TypeInv'
  <2>1. expected' \in [Tasks -> Outcomes \cup {Null}]
    BY <1>h, <1>k, <1>t
  <2>2. args' \in [Tasks -> Outcomes \cup {Null}]
    BY <1>k, <1>t
  <2>3. thread' \in [Threads -> Busy \cup {"none", "started", "run", "exited"}]
    BY <1>s DEF TypeInv
  <2>4. UNCHANGED <<queue, stopped, started, pool, pools, handler, task, on, ready, result, ops,
                    overload, parent, future>>
    OBVIOUS
  <2> HIDE DEF StoreArgs
  <2> QED BY <2>1, <2>2, <2>3, <2>4 DEF TypeInv
<1>3. ThreadInv'
  BY <1>h, <1>k, <1>s DEF ThreadInv
<1>4. CountInv'
  BY SameCount
<1>5. OnceInv'
  BY <1>1, <1>p DEF OnceInv
<1>6. ExpectInv'
  <2>1. \A u \in Threads : u # t /\ Pend(u) => handler[u].k # h.k /\ handler[u].k \in Tasks
    BY <1>h, <1>s, LiveFacts DEF OnceInv
  <2>2. \A u \in Threads : thread'[u] \in {"second", "set"} =>
           args'[handler[u].k] = expected'[handler[u].k]
    BY <1>h, <1>s, <1>t, <2>1, LiveFacts DEF ExpectInv
  <2>3. \A g \in Live : g.k = h.k => g = h
    BY <1>h, <1>s, LiveFacts DEF OnceInv, Live
  <2>4. \A g \in Live : g.kind = "callback" =>
           Alive(g.k) /\ g.o \in Outcomes /\ expected'[g.k] = g.o
    BY <1>h, <1>k, <1>t, <2>3, LiveFacts DEF ExpectInv
  <2> QED BY <1>1, <2>2, <2>4 DEF ExpectInv, Alive
<1>7. ReferInv'
  BY <1>1 DEF ReferInv
<1>8. OutcomeInv'
  BY <1>k, <1>t DEF OutcomeInv, Alive
<1>9. TreeInv'
  BY DEF TreeInv, Holds
<1>10. StopInv'
  <2>1. ~stopped /\ pool # "none" /\ Threads # {}
    BY <1>s DEF StopInv, Quiet, ThreadInv
  <2> QED BY <1>s, <2>1 DEF StopInv
<1> QED BY <1>2, <1>3, <1>4, <1>5, <1>6, <1>7, <1>8, <1>9, <1>10

\* A handler sets the future, and a coroutine that had suspended goes on.
LEMMA SetReadyStep ==
    ASSUME IInv, NEW t \in Threads, thread[t] \in {"second", "set"},
           SetReady(t, handler[t].k), thread' = [thread EXCEPT ![t] = "return"],
           UNCHANGED <<iocVars, pool, pools, handler, expected, result, ops, overload, parent, future>>
    PROVE  IInv'
<1> USE DEF IInv, SetReady, iocVars
<1>h. PICK h : h = handler[t]
  OBVIOUS
<1>s. /\ Pend(t) /\ thread[t] \in Busy /\ "return" \in Busy
      /\ thread'[t] = "return"
      /\ \A u \in Threads : u # t => thread'[u] = thread[u]
  BY DEF TypeInv, Pend, Pending, Busy
<1>1. /\ h \in Live /\ h \in HandlerType
      /\ Queued' = Queued /\ Live' = Live \ {h}
      /\ \A g \in Live' : g \in Live /\ g.k # h.k
      /\ \A u \in Threads : Pend(u)' <=> Pend(u) /\ u # t
  BY <1>h, <1>s, CarriedOut
<1>k. h.k \in Tasks /\ Alive(h.k) /\ args[h.k] = expected[h.k]
  BY <1>1, <1>h, LiveFacts DEF ThreadInv, ExpectInv
<1>t. /\ task' = [task EXCEPT ![h.k] = "await"]
      /\ task \in [Tasks -> Places] /\ on \in [Tasks -> Threads \cup {Null}]
      /\ ready' = [ready EXCEPT ![h.k] = TRUE] /\ ready \in [Tasks -> BOOLEAN]
      /\ task[h.k] = "suspended" => on' = [on EXCEPT ![h.k] = t]
      /\ task[h.k] # "suspended" => task[h.k] = "await" /\ on' = on
  BY <1>h, <1>k DEF TypeInv, Alive
<1>u. /\ h.k \notin started /\ \A j \in Tasks : future[j] # h.k
  BY <1>1 DEF OnceInv
<1>o. /\ \A m \in Tasks : m # h.k => task'[m] = task[m] /\ ready'[m] = ready[m]
      /\ task'[h.k] = "await" /\ ready'[h.k] = TRUE
  BY <1>k, <1>t
<1>2. TypeInv'
  <2>1. task' \in [Tasks -> Places]
    BY <1>k, <1>t DEF Places
  <2>2. on' \in [Tasks -> Threads \cup {Null}]
    BY <1>k, <1>t
  <2>3. thread' \in [Threads -> Busy \cup {"none", "started", "run", "exited"}]
    BY <1>s DEF TypeInv
  <2>4. ready' \in [Tasks -> BOOLEAN] /\ args' = args
    BY <1>k, <1>t
  <2> QED BY <2>1, <2>2, <2>3, <2>4 DEF TypeInv
<1>3. ThreadInv'
  <2>1. \A u \in Threads :
         /\ handler[u] # Null <=> thread'[u] \in Busy
         /\ thread'[u] \in {"start", "resume", "outside", "callback"} => handler[u].kind = thread'[u]
         /\ thread'[u] = "second" => handler[u].kind = "callback"
         /\ thread'[u] = "set" => handler[u].kind = "outside"
    BY <1>s DEF ThreadInv
  <2>2. \A m \in Tasks : m # h.k => task'[m] = task[m] /\ on'[m] = on[m]
    BY <1>k, <1>t
  <2>3. \A u \in Threads : thread[u] = "return" => thread'[u] = "return"
    BY <1>s
  <2>4. task'[h.k] = "await" /\ on'[h.k] \in Threads /\ thread'[on'[h.k]] = "return"
    <3>1. CASE task[h.k] = "suspended"
      BY <1>k, <1>s, <1>t, <3>1
    <3>2. CASE task[h.k] # "suspended"
      BY <1>k, <1>t, <2>3, <3>2 DEF ThreadInv
    <3> QED BY <3>1, <3>2
  <2> QED BY <2>1, <2>2, <2>3, <2>4 DEF ThreadInv
<1>4. CountInv'
  BY SameCount
<1>5. OnceInv'
  BY <1>1 DEF OnceInv
<1>6. ExpectInv'
  <2>1. \A m \in Tasks : m # h.k => (Alive(m)' <=> Alive(m))
    BY <1>o DEF Alive
  <2>2. \A u \in Threads : thread'[u] \in {"second", "set"} => u # t
    BY <1>s
  <2> QED BY <1>1, <1>o, <1>s, <1>u, <2>1, <2>2, LiveFacts DEF ExpectInv, TypeInv
<1>7. ReferInv'
  <2>1. \A g \in Live : g.k # h.k => g \in Live'
    BY <1>1
  <2> SUFFICES ASSUME NEW m \in Tasks
               PROVE  /\ task'[m] = "posted" => \E g \in Live' : g.k = m
                      /\ task'[m] = "suspended" \/ (task'[m] = "await" /\ ~ready'[m])
                           => m \in started \/ \E g \in Live' : Writes(g, m)
                      /\ task'[m] = "waiting" =>
                           (\E g \in Live' : g.k = m) \/ \E i \in Tasks : future[i] = m
    BY DEF ReferInv, Writes
  <2>2. CASE m = h.k
    BY <1>o, <2>2
  <2>3. CASE m # h.k
    <3>1. task'[m] = task[m] /\ ready'[m] = ready[m]
      BY <1>o, <2>3
    <3>2. /\ task[m] = "posted" => \E g \in Live : g.k = m
          /\ task[m] = "suspended" \/ (task[m] = "await" /\ ~ready[m])
               => m \in started \/ \E g \in Live : Writes(g, m)
          /\ task[m] = "waiting" => (\E g \in Live : g.k = m) \/ \E i \in Tasks : future[i] = m
      BY DEF ReferInv
    <3>3. \A g \in Live : g.k = m \/ Writes(g, m) => g \in Live'
      BY <2>1, <2>3 DEF Writes
    <3> HIDE DEF SetReady, IInv
    <3> QED BY <3>1, <3>2, <3>3
  <2> QED BY <2>2, <2>3
<1>8. OutcomeInv'
  BY <1>k, <1>o DEF OutcomeInv, Alive
<1>9. TreeInv'
  BY <1>k, <1>t DEF TreeInv, Holds, Alive
<1>10. StopInv'
  <2>1. ~stopped /\ pool # "none" /\ Threads # {}
    BY <1>s DEF StopInv, Quiet, ThreadInv
  <2> QED BY <1>s, <2>1 DEF StopInv
<1> QED BY <1>2, <1>3, <1>4, <1>5, <1>6, <1>7, <1>8, <1>9, <1>10

\* The two steps of a callback, and those of a posted function.
LEMMA HandlerSteps ==
    ASSUME IInv, NEW t \in Threads,
           Callback(t) \/ SetResult(t) \/ \E o \in Outcomes : RunFunc(t, o)
    PROVE  IInv'
<1>1. CASE Callback(t)
  <2>1. PICK i \in 1 .. 2 :
         /\ thread[t] = <<"callback", "second">>[i]
         /\ thread' = [thread EXCEPT ![t] = <<"second", "return">>[i]]
         /\ IF CallbackOrder[i] = "store" THEN StoreArgs(handler[t].k, handler[t].o)
            ELSE SetReady(t, handler[t].k)
    BY <1>1 DEF Callback
  <2>2. UNCHANGED <<iocVars, pool, pools, handler, expected, result, ops, overload, parent, future>>
    BY <1>1 DEF Callback
  <2>3. CASE i = 1
    <3>1. /\ thread[t] = "callback" /\ thread' = [thread EXCEPT ![t] = "second"]
          /\ StoreArgs(handler[t].k, handler[t].o)
      BY <2>1, <2>3 DEF CallbackOrder
    <3>2. handler[t] \in Live /\ handler[t].kind = "callback"
      BY <3>1, LiveFacts DEF IInv, ThreadInv, Pend, Pending
    <3>3. handler[t].o \in Outcomes
      BY <3>2 DEF IInv, ExpectInv
    <3> QED BY <2>2, <3>1, <3>3, StoreStep
  <2>4. CASE i = 2
    <3>1. /\ thread[t] = "second" /\ thread' = [thread EXCEPT ![t] = "return"]
          /\ SetReady(t, handler[t].k)
      BY <2>1, <2>4 DEF CallbackOrder
    <3> QED BY <2>2, <3>1, SetReadyStep
  <2> QED BY <2>3, <2>4
<1>2. CASE SetResult(t)
  BY <1>2, SetReadyStep DEF SetResult
<1>3. ASSUME NEW o \in Outcomes, RunFunc(t, o) PROVE IInv'
  BY <1>3, StoreStep DEF RunFunc
<1> QED BY <1>1, <1>2, <1>3

-----------------------------------------------------------------------------
(* IoContextThreads.                                                       *)

\* The constructor starts its threads; those of an earlier one have ended.
LEMMA ConstructStep ==
    ASSUME IInv, Construct
    PROVE  IInv'
<1> USE DEF IInv, Construct, AfterReset, opVars
<1>s. /\ "started" \notin Busy /\ "none" \notin Busy /\ "exited" \notin Busy
      /\ \A u \in Threads : thread'[u] = "started" /\ thread[u] \notin Busy /\ handler[u] = Null
      /\ pool = "none" /\ pool' = "up" /\ ~stopped'
  BY DEF Busy, Pending, StopInv, ThreadInv
<1>p. \A u \in Threads : ~Pend(u) /\ ~Pend(u)'
  BY <1>s DEF Pend, Busy
<1>1. Queued' = Queued /\ Live' = Live
  BY <1>p, SameTokens
<1>q. Quiet
  BY <1>s DEF StopInv
<1>2. TypeInv'
  <2>1. pools' \in 0 .. MaxPools
    BY MaxAssumption DEF TypeInv
  <2>2. thread' \in [Threads -> Busy \cup {"none", "started", "run", "exited"}]
    OBVIOUS
  <2>3. stopped' \in BOOLEAN /\ pool' \in {"none", "up", "joining"}
    BY DEF TypeInv
  <2> QED BY <2>1, <2>2, <2>3 DEF TypeInv
<1>3. ThreadInv'
  BY <1>q, <1>s DEF ThreadInv, Quiet
<1>4. CountInv'
  <2>1. BusyThreads' = BusyThreads
    BY DEF BusyThreads
  <2> QED BY <1>s, <2>1, CountFacts DEF CountInv
<1>5. OnceInv'
  BY <1>1, <1>p DEF OnceInv
<1>6. ExpectInv'
  BY <1>1, <1>s DEF ExpectInv, Alive
<1>7. ReferInv'
  BY <1>1 DEF ReferInv
<1>8. OutcomeInv'
  BY DEF OutcomeInv
<1>9. TreeInv'
  BY DEF TreeInv, Holds
<1>10. StopInv'
  <2>1. Quiet'
    BY <1>1, <1>q DEF Quiet
  <2> QED BY <1>s, <2>1 DEF StopInv
<1> QED BY <1>2, <1>3, <1>4, <1>5, <1>6, <1>7, <1>8, <1>9, <1>10

\* joinAll() and the destructor give their work up and wait for the threads.
LEMMA JoinSteps ==
    ASSUME IInv, ReleaseWork \/ JoinThreads
    PROVE  IInv'
<1> USE DEF IInv, ReleaseWork, JoinThreads, WorkReleased, WorkFinished, Joinable, iocVars, opVars
<1>s. UNCHANGED <<queue, started, pools, thread, handler, task, on, opVars, parent, future>>
  OBVIOUS
<1>1. Queued' = Queued /\ Live' = Live
  BY <1>s, SameTokens DEF Pend
<1>2. TypeInv'
  BY <1>s DEF TypeInv
<1>3. ThreadInv'
  BY <1>s DEF ThreadInv
<1>4. CountInv'
  <2>1. BusyThreads' = BusyThreads
    BY <1>s DEF BusyThreads
  <2> QED BY <1>s, <2>1, CountFacts DEF CountInv
<1>5. OnceInv'
  BY <1>1, <1>s DEF OnceInv, Pend
<1>6. ExpectInv'
  BY <1>1, <1>s DEF ExpectInv, Alive
<1>7. ReferInv'
  BY <1>1, <1>s DEF ReferInv
<1>8. OutcomeInv'
  BY <1>s DEF OutcomeInv
<1>9. TreeInv'
  BY <1>s DEF TreeInv, Holds
<1>10. StopInv'
  <2>q. Quiet' <=> Quiet
    BY <1>1, <1>s DEF Quiet
  <2>1. CASE ReleaseWork
    <3>1. outstanding' = 0 => Quiet' /\ pool' # "up"
      BY <1>2, <1>3, <1>4, <1>6, <1>7, <1>9, Drained
    <3>2. pool' = "joining" /\ (outstanding = 1 => outstanding' = 0) /\ ~stopped
      BY <2>1 DEF StopInv
    <3> QED BY <1>s, <2>1, <2>q, <3>1, <3>2 DEF StopInv
  <2>2. CASE JoinThreads
    <3>1. Threads = {} \/ \E t \in Threads : thread[t] = "exited"
      BY <2>2
    <3>2. Quiet
      BY <3>1 DEF StopInv
    <3> QED BY <1>s, <2>2, <2>q, <3>2 DEF StopInv
  <2> QED BY <2>1, <2>2
<1> QED BY <1>2, <1>3, <1>4, <1>5, <1>6, <1>7, <1>8, <1>9, <1>10

-----------------------------------------------------------------------------
(* The theorems.                                                           *)

\* The inductive invariant holds initially.
LEMMA InitIInv ==
    ASSUME Init
    PROVE  IInv
<1> USE DEF Init
<1>1. Queued = {} /\ Live = {} /\ Len(queue) = 0 /\ Distinct(queue)
  <2>1. Queued = {} /\ Len(queue) = 0 /\ Distinct(queue)
    BY EmptyDeque DEF Queued
  <2>2. \A t \in Threads : ~Pend(t)
    BY DEF Pend, Pending
  <2> QED BY <2>1, <2>2 DEF Live
<1>2. TypeInv
  <2>1. queue \in Seq(HandlerType) /\ pools \in 0 .. MaxPools
    BY MaxAssumption
  <2>2. ops \in [Tasks -> 0 .. MaxOps]
    BY MaxAssumption
  <2>3. task \in [Tasks -> Places]
    BY DEF Places
  <2> QED BY <2>1, <2>2, <2>3 DEF TypeInv
<1>3. ThreadInv
  BY DEF ThreadInv, Busy, Pending
<1>4. CountInv
  <2>1. BusyThreads = {}
    BY DEF BusyThreads
  <2> QED BY <1>1, <2>1, FS_EmptySet DEF CountInv
<1>5. OnceInv
  BY <1>1, NullAssumption DEF OnceInv, Pend, Pending
<1>6. ExpectInv
  BY <1>1, NullAssumption DEF ExpectInv
<1>7. ReferInv
  BY DEF ReferInv
<1>8. OutcomeInv
  BY DEF OutcomeInv
<1>9. TreeInv
  BY NullAssumption DEF TreeInv, Holds
<1>10. StopInv
  BY <1>1 DEF StopInv, Quiet
<1> QED BY <1>2, <1>3, <1>4, <1>5, <1>6, <1>7, <1>8, <1>9, <1>10 DEF IInv

\* Every step keeps the inductive invariant.
LEMMA NextIInv ==
    ASSUME IInv, Next
    PROVE  IInv'
<1>1. ASSUME NEW k \in Tasks, CoroutineStep(k) PROVE IInv'
  BY <1>1, AwaitOpStep, RunOutsideStep, CatchStep, StartOpStep, ReadAtOnceStep, FinishStep,
     AsyncStep, AwaitTaskStep DEF CoroutineStep
<1>2. ASSUME NEW t \in Threads, ThreadStep(t) PROVE IInv'
  BY <1>2, EnterRunStep, TakeHandlerStep, LeaveRunStep, HandlerReturnsStep, EnterRoutineStep,
     HandlerSteps DEF ThreadStep
<1> QED BY <1>1, <1>2, ConstructStep, JoinSteps, AsyncStep, CompleteStep DEF Next

\* A stuttering step keeps it too.
LEMMA StutterIInv ==
    ASSUME IInv, UNCHANGED vars
    PROVE  IInv'
<1> USE DEF IInv, vars, iocVars, poolVars, opVars
<1>1. Queued' = Queued /\ Live' = Live
  BY SameTokens DEF Pend
<1>2. TypeInv'
  BY DEF TypeInv
<1>3. ThreadInv' /\ OutcomeInv'
  BY DEF ThreadInv, OutcomeInv
<1>4. TreeInv'
  BY DEF TreeInv, Holds
<1>5. CountInv'
  BY SameCount
<1>6. OnceInv' /\ ExpectInv' /\ ReferInv'
  BY <1>1 DEF OnceInv, ExpectInv, ReferInv, Pend, Alive
<1>7. StopInv'
  BY <1>1 DEF StopInv, Quiet
<1> QED BY <1>2, <1>3, <1>4, <1>5, <1>6, <1>7

\* The inductive invariant, on which the other theorems rest.
THEOREM Invariance == Spec => []IInv
<1>1. Init => IInv
  BY InitIInv
<1>2. IInv /\ [Next]_vars => IInv'
  BY NextIInv, StutterIInv
<1> QED BY <1>1, <1>2, PTL DEF Spec

\* The types, and the io_context's count of unfinished work.
THEOREM TypeCorrect == Spec => []TypeOK
<1>1. IInv => TypeOK
  <2> SUFFICES ASSUME IInv PROVE TypeOK
    OBVIOUS
  <2>1. \A i \in 1 .. Len(queue) : queue[i] \in HandlerType
    BY DEF IInv, TypeInv
  <2>2. outstanding = Len(queue) + Cardinality(started)
                      + Cardinality({t \in Threads : handler[t] # Null})
                      + (IF pool = "up" THEN 1 ELSE 0)
    BY DEF IInv, CountInv, BusyThreads
  <2>3. thread \in [Threads -> {"none", "started", "run", "exited", "start", "resume",
                               "outside", "callback", "second", "set", "return"}]
    BY DEF IInv, TypeInv, Busy, Pending
  <2> QED BY <2>1, <2>2, <2>3 DEF IInv, TypeInv, TypeOK, Places
<1> QED BY <1>1, Invariance, PTL

\* A handler writes only to a frame whose coroutine still waits for it, and
\* only one handler does.
THEOREM FramesSafe == Spec => []FramesAlive
<1>1. ASSUME IInv PROVE FramesAlive
  <2> SUFFICES ASSUME NEW k \in Tasks
               PROVE  /\ Cardinality(Writers(k)) <= 1
                      /\ Writers(k) # {} => task[k] \in {"await", "suspended"} /\ ~ready[k]
                      /\ task[k] = "suspended" => Writers(k) # {}
    BY DEF FramesAlive
  <2> DEFINE A == {i \in 1 .. Len(queue) : queue[i].k = k /\ queue[i].kind \in {"outside", "callback"}}
             B == {t \in Threads : /\ thread[t] \in {"outside", "callback", "second", "set"}
                                   /\ handler[t].k = k}
             C == started \cap {k}
  <2>0. Writers(k) = A \cup B \cup C
    BY DEF Writers
  <2>i. TypeInv /\ ThreadInv /\ OnceInv /\ ExpectInv /\ ReferInv
    BY <1>1 DEF IInv
  <2>a. \A i \in 1 .. Len(queue) : queue[i] \in Queued /\ queue[i] \in Live
    BY <2>i, LiveFacts DEF TypeInv, Queued, In
  <2>b. \A t \in B : Pend(t) /\ handler[t] \in Live /\ Writes(handler[t], k)
    BY <2>i, LiveFacts DEF ThreadInv, Pend, Pending, Writes
  <2>1. \A i, j \in A : i = j
    BY <2>i, <2>a DEF OnceInv, Distinct
  <2>2. \A t, u \in B : t = u
    BY <2>i, <2>b DEF OnceInv
  <2>3. ~(A # {} /\ B # {}) /\ ~(A # {} /\ C # {}) /\ ~(B # {} /\ C # {})
    BY <2>i, <2>a, <2>b DEF OnceInv, Writes
  <2>4. A \cup B \cup C # {} => Alive(k)
    BY <2>i, <2>a, <2>b DEF ExpectInv, Writes
  <2>5. (k \in started \/ \E h \in Live : Writes(h, k)) => A \cup B \cup C # {}
    <3>1. k \in started => C # {}
      OBVIOUS
    <3>2. ASSUME NEW h \in Queued, Writes(h, k) PROVE A # {}
      BY <3>2 DEF Queued, In, Writes
    <3>3. ASSUME NEW t \in Threads, Pend(t), Writes(handler[t], k) PROVE t \in B
      BY <2>i, <3>3 DEF ThreadInv, Pend, Pending, Writes
    <3> HIDE DEF A, B, C
    <3> QED BY <3>1, <3>2, <3>3 DEF Live
  <2>6. PICK W : W = Writers(k)
    OBVIOUS
  <2>7. \A p, q \in W : p = q
    <3> HIDE DEF A, B
    <3> QED BY <2>0, <2>1, <2>2, <2>3, <2>6
  <2>8. Cardinality(W) <= 1
    BY <2>7, AtMostOne
  <2> QED BY <2>0, <2>4, <2>5, <2>6, <2>8, <2>i DEF ReferInv, Alive
<1> QED BY <1>1, Invariance, PTL

\* An operation returns what it ended with.
THEOREM OutcomeDelivered == Spec => []OwnOutcome
<1>1. IInv => OwnOutcome
  BY DEF IInv, OutcomeInv, OwnOutcome
<1> QED BY <1>1, Invariance, PTL

\* When an IoContextThreads has gone, no coroutine is half-way.
THEOREM JoinComplete == Spec => []JoinDrains
<1>1. ASSUME IInv PROVE JoinDrains
  <2>1. \A i \in 1 .. Len(queue) : queue[i] \in Queued
    BY <1>1 DEF IInv, TypeInv, Queued, In
  <2> QED BY <1>1, <2>1 DEF IInv, StopInv, Quiet, JoinDrains
<1> QED BY <1>1, Invariance, PTL
=============================================================================
