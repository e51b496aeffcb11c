---------------------------- MODULE RoutineProofs ----------------------------
(***************************************************************************)
(* Theorems about Routine: a coroutine is executed by one thread at a      *)
(* time, current() is right, a suspended coroutine has exactly one waker,  *)
(* its memory is released in time and not before, and await() returns only *)
(* after what it awaits (AbstractRoutine).                                 *)
(***************************************************************************)
EXTENDS Routine, DequeLemmas

-----------------------------------------------------------------------------
(* The stacks, with the frames numbered from the oldest one, so that a     *)
(* frame keeps its slot while others come and go above it.                 *)

Slots == UNION {{t} \X (1..Len(stack[t])) : t \in Threads}
G(s) == stack[s[1]][Len(stack[s[1]]) + 1 - s[2]]
Th(s) == s[1]
Base(s) == s[2] = 1
Under(s) == <<s[1], s[2] - 1>>
Below(u, s) == u[1] = s[1] /\ u[2] < s[2]
IsTop(s) == s[2] = Len(stack[s[1]])
Idle(t) == stack[t] = <<>>

PCs == {"user", "take", "suspend", "result", "install", "spin", "enter", "exchange",
        "detached", "disable", "set", "call", "return", "runner"}
FrameType == [fn : {"ctor", "ctorLoop", "run", "runner"}, r : Routines, pc : PCs,
              res : Routines \cup {Null}, call : Routines \cup Threads \cup {Null},
              destruct : BOOLEAN]

TypeInv ==
    /\ stack \in [Threads -> Seq(FrameType)]
    /\ current \in [Threads -> Routines \cup {Null}]
    /\ blocked \in [Threads -> Routines \cup {Null}]
    /\ queue \in Seq(Routines)
    /\ pending \subseteq Routines
    /\ fut \in [Futures -> Routines \cup {Null, Invalid}]
    /\ mOuter \in [Routines -> Routines \cup {Null}]
    /\ mContinuation \in [Routines -> Routines \cup {Null, Invalid}]
    /\ mResult \in [Routines -> Routines \cup Threads \cup {Null, Invalid}]
    /\ mIsDetached \in [Routines -> BOOLEAN]
    /\ mCaller \in [Routines -> Routines \cup {Null, Invalid}]
    /\ waitFor \in [Routines -> Routines \cup Futures \cup {Ioc, Timer, Null}]
    /\ finished \in [Routines -> BOOLEAN]
    /\ life \in [Routines -> {"none", "alive", "freed"}]
    /\ owner \in [Routines -> Routines \cup Threads \cup {Null}]
    /\ awaits \in [Routines -> Nat]

-----------------------------------------------------------------------------
(* The inductive invariant.                                                *)

Ctors == {"ctor", "ctorLoop"}
Ending == {"exchange", "detached", "disable", "set", "call", "return"}

\* The frame of a coroutine, and a call in progress of its Runner.
Coro(s, r) == G(s).fn # "runner" /\ G(s).r = r
Call(s, r) == G(s).fn = "runner" /\ G(s).r = r
On(r) == \E s \in Slots : Coro(s, r)
Called(r) == \E s \in Slots : Call(s, r)

\* A coroutine that has left its thread, and one that has registered its Runner
\* with the coroutine it awaits.
Asleep(r) == life[r] # "none" /\ ~finished[r] /\ ~On(r)
Parked(r) == Asleep(r) \/ \E s \in Slots : Coro(s, r) /\ G(s).pc \in {"install", "spin"}

\* Frames other than the newest of a thread execute a coroutine, or return to
\* the loop of a Runner; below a Runner's loop there are only such loops, and
\* a constructor is called by the code of a coroutine or of the thread.
ShapeInv ==
    \A s \in Slots :
        /\ ~IsTop(s) => G(s).pc = "user" \/ (G(s).pc = "return" /\ G(s).fn = "run")
        /\ G(s).fn = "runner" <=> G(s).pc = "runner"
        /\ G(s).fn = "run" => \A u \in Slots : Below(u, s) => G(u).pc = "return"
        /\ G(s).fn \in Ctors /\ ~Base(s) => G(Under(s)).pc = "user"
        /\ G(s).fn # "run" => G(s).res = Null

\* What current() is while the code below slot s runs, and on thread t now.
UserBelow(s) == IF ~Base(s) /\ G(Under(s)).pc = "user" THEN G(Under(s)).r ELSE Null
CurrentInv ==
    /\ \A t \in Threads : Idle(t) => current[t] = Null
    /\ \A s \in Slots : IsTop(s) =>
         current[Th(s)] = IF G(s).pc = "user" THEN G(s).r ELSE UserBelow(s)
    /\ \A s \in Slots : G(s).pc = "user" => mOuter[G(s).r] = UserBelow(s)

\* A coroutine has one frame and one Runner.
OneEach ==
    /\ \A s, u \in Slots :
         G(s).fn # "runner" /\ G(u).fn # "runner" /\ G(s).r = G(u).r => s = u
    /\ \A s, u \in Slots :
         G(s).fn = "runner" /\ G(u).fn = "runner" /\ G(s).r = G(u).r => s = u
OnceInv == OneEach /\ Distinct(queue)

\* The members of a coroutine at each place of await(), resume() and its end,
PlaceInv ==
    \A s \in Slots : G(s).fn # "runner" =>
        LET r == G(s).r  pc == G(s).pc IN
        /\ life[r] # "none"
        /\ finished[r] <=> pc \in Ending
        /\ pc = "user" => waitFor[r] = Null
        /\ pc = "suspend" => waitFor[r] \in Futures \cup {Ioc, Timer} /\ mCaller[r] = r
        /\ pc \in {"take", "result", "install", "spin"} => waitFor[r] \in Routines
        /\ pc = "result" => mCaller[r] = Null
        /\ mResult[r] = Invalid <=> pc \in {"call", "return"}
        /\ pc = "exchange" => mContinuation[r] # Invalid
        /\ pc \in {"detached", "disable"} /\ G(s).fn # "ctor" => mContinuation[r] = Invalid
        /\ pc \in {"set", "call", "return"} => mContinuation[r] = Invalid
        /\ pc \notin Ending \ {"exchange"} => G(s).res = Null
        /\ G(s).destruct => owner[r] = Null
        /\ mIsDetached[r] /\ owner[r] # Null => pc \in {"disable", "set", "call", "return"}

\* and while it is on no thread.
RestInv ==
    \A r \in Routines :
        /\ ~finished[r] => mResult[r] # Invalid /\ mContinuation[r] # Invalid
        /\ finished[r] => life[r] # "none"
        /\ finished[r] /\ ~On(r) => mResult[r] = Invalid /\ mContinuation[r] = Invalid
        /\ life[r] = "none" => owner[r] = Null /\ waitFor[r] = Null /\ ~mIsDetached[r]
        /\ Asleep(r) => waitFor[r] # Null
        /\ life[r] = "freed" => finished[r]
        /\ mIsDetached[r] /\ owner[r] # Null => finished[r]

\* Who has the handle of a coroutine, and which threads wait in join().
OwnerInv ==
    /\ \A r \in Routines : owner[r] \in Routines =>
         life[owner[r]] # "none" /\ ~finished[owner[r]]
    /\ \A r \in Routines : waitFor[r] \in Routines => owner[waitFor[r]] = r
    /\ \A s \in Slots : G(s).fn \in Ctors /\ Base(s) => owner[G(s).r] = Th(s)
    /\ \A s \in Slots : G(s).fn \in Ctors /\ ~Base(s) => owner[G(s).r] = G(Under(s)).r
    /\ \A t \in Threads : blocked[t] # Null => Idle(t) /\ t \notin IoThreads
    /\ \A x \in Routines : mResult[x] \in Threads => owner[x] = mResult[x] /\ blocked[mResult[x]] = x
    /\ \A s \in Slots : G(s).pc = "call" /\ G(s).call \in Threads => blocked[G(s).call] = G(s).r

\* A Runner that will resume its coroutine: whoever has it, has the only one.
Armed(r) ==
    /\ Asleep(r) /\ mCaller[r] = r
    /\ waitFor[r] \in Futures => fut[waitFor[r]] = Invalid
    /\ waitFor[r] \notin Routines
ArmedInv ==
    /\ \A f \in Futures : fut[f] \in Routines =>
         Asleep(fut[f]) /\ mCaller[fut[f]] = fut[f] /\ waitFor[fut[f]] = f
    /\ \A r \in Routines : In(r, queue) => Armed(r) /\ r \notin pending /\ ~Called(r)
    /\ \A r \in pending : Asleep(r) /\ mCaller[r] = r /\ waitFor[r] = Timer /\ ~Called(r)
    /\ \A r \in Routines : Called(r) /\ waitFor[r] \notin Routines => Armed(r)

\* A Runner that was disarmed: it is called before its coroutine goes on.
Disarmed(r, x) == Parked(r) /\ mCaller[r] = Null /\ waitFor[r] = x
DisarmedInv ==
    /\ \A x \in Routines : mResult[x] \in Routines => Disarmed(mResult[x], x)
    /\ \A s \in Slots : G(s).pc = "call" /\ G(s).call \in Routines =>
         Disarmed(G(s).call, G(s).r) /\ ~Called(G(s).call) /\ G(s).fn = "run"
    /\ \A s \in Slots : G(s).fn = "runner" /\ waitFor[G(s).r] \in Routines =>
         /\ Disarmed(G(s).r, waitFor[G(s).r])
         /\ ~Base(s) /\ G(Under(s)).r = waitFor[G(s).r]
         /\ G(Under(s)).pc = "return"

\* The continuation of a coroutine is the one that awaits it.
ContinuationInv ==
    /\ \A x \in Routines : mContinuation[x] \in Routines =>
         Asleep(mContinuation[x]) /\ waitFor[mContinuation[x]] = x
    /\ \A s \in Slots : G(s).res \in Routines =>
         Asleep(G(s).res) /\ waitFor[G(s).res] = G(s).r

\* A suspended coroutine is known to somebody who will resume it.
KnownInv ==
    \A r \in Routines : Asleep(r) =>
        IF waitFor[r] \in Routines
        THEN \/ mContinuation[waitFor[r]] = r
             \/ \E s \in Slots : G(s).res = r
        ELSE \/ waitFor[r] \in Futures /\ fut[waitFor[r]] = r
             \/ In(r, queue) \/ r \in pending \/ Called(r)

CoreInv == /\ TypeInv /\ ShapeInv /\ CurrentInv /\ OnceInv /\ PlaceInv /\ RestInv /\ OwnerInv
           /\ ArmedInv /\ DisarmedInv /\ ContinuationInv /\ KnownInv

\* The memory of a coroutine, when detach() does not race with its end.
LifeInv ==
    /\ \A r \in Routines :
         /\ owner[r] # Null => life[r] = "alive"
         /\ life[r] # "none" /\ ~finished[r] => (mIsDetached[r] <=> owner[r] = Null)
         /\ finished[r] /\ ~On(r) => mIsDetached[r] /\ (life[r] = "alive" => owner[r] # Null)
    /\ \A s \in Slots : G(s).fn # "runner" =>
         LET r == G(s).r  pc == G(s).pc IN
         /\ pc \notin {"call", "return"} => life[r] = "alive"
         /\ pc \in {"exchange", "detached"} => (mIsDetached[r] <=> owner[r] = Null)
         /\ pc \in {"disable", "set", "call", "return"} =>
              /\ mIsDetached[r]
              /\ G(s).destruct <=> (life[r] = "alive" /\ owner[r] = Null)

-----------------------------------------------------------------------------
(* The slots, and what a step does to them.                                *)

Geometry ==
    /\ \A s \in Slots : Th(s) \in Threads /\ G(s) \in FrameType /\ G(s).r \in Routines /\ ~Idle(Th(s))
    /\ \A s \in Slots : ~Base(s) => /\ Under(s) \in Slots /\ Th(Under(s)) = Th(s)
                                    /\ ~IsTop(Under(s)) /\ Below(Under(s), s)
    /\ \A s, u \in Slots : Below(u, s) => /\ ~Base(s) /\ ~IsTop(u) /\ u # s
                                          /\ u = Under(s) \/ Below(u, Under(s))
    /\ \A s, u \in Slots : IsTop(s) /\ IsTop(u) /\ Th(s) = Th(u) => s = u
    /\ \A s, u \in Slots : ~Base(s) /\ ~Base(u) /\ Under(s) = Under(u) => s = u
    /\ \A s \in Slots : ~IsTop(s) => \E u \in Slots : Th(u) = Th(s) /\ IsTop(u) /\ Below(s, u)

\* Nothing happens to the stacks; the newest frame of a thread is replaced; it
\* is removed; a frame is added; the newest frame is replaced and one is added.
Still ==
    /\ Slots' = Slots
    /\ \A s \in Slots : G(s)' = G(s) /\ (IsTop(s)' <=> IsTop(s))
    /\ \A u \in Threads : Idle(u)' <=> Idle(u)
Retop(p, f) ==
    /\ Slots' = Slots /\ G(p)' = f
    /\ \A s \in Slots : IsTop(s)' <=> IsTop(s)
    /\ \A s \in Slots : s # p => G(s)' = G(s)
    /\ \A u \in Threads : Idle(u)' <=> Idle(u)
Popped(p) ==
    /\ Slots' = Slots \ {p}
    /\ \A s \in Slots : s # p => G(s)' = G(s)
    /\ \A s \in Slots : s # p => (IsTop(s)' <=> IsTop(s) \/ (~Base(p) /\ s = Under(p)))
    /\ \A u \in Threads : Idle(u)' <=> Idle(u) \/ (u = Th(p) /\ Base(p))
Added(t, q, f) ==
    /\ q \notin Slots /\ Slots' = Slots \cup {q} /\ Th(q) = t /\ G(q)' = f /\ IsTop(q)'
    /\ \A s \in Slots : IsTop(s)' <=> IsTop(s) /\ Th(s) # t
    /\ \A s \in Slots : ~Below(q, s) /\ (Below(s, q) <=> Th(s) = t)
    /\ Base(q) <=> Idle(t)
    /\ ~Base(q) => Under(q) \in Slots /\ IsTop(Under(q)) /\ Th(Under(q)) = t
    /\ \A u \in Threads : Idle(u)' <=> Idle(u) /\ u # t
Pushed(t, q, f) ==
    /\ Added(t, q, f)
    /\ \A s \in Slots : G(s)' = G(s)
PushedOn(p, g, q, f) ==
    /\ Added(Th(p), q, f)
    /\ ~Base(q) /\ Under(q) = p /\ G(p)' = g
    /\ \A s \in Slots : s # p => G(s)' = G(s)

\* The number of a slot is its distance from the oldest frame.
LEMMA SlotFacts ==
    ASSUME TypeInv
    PROVE  /\ \A s : s \in Slots <=> /\ s = <<s[1], s[2]>> /\ s[1] \in Threads
                                     /\ s[2] \in 1..Len(stack[s[1]])
           /\ \A t \in Threads : stack[t] \in Seq(FrameType) /\ Len(stack[t]) \in Nat
           /\ \A t \in Threads : \A i \in 1..Len(stack[t]) : stack[t][i] \in FrameType
           /\ \A t \in Threads : Idle(t) <=> Len(stack[t]) = 0
<1>1. \A t \in Threads : stack[t] \in Seq(FrameType) /\ Len(stack[t]) \in Nat
  BY LenProperties DEF TypeInv
<1>2. \A t \in Threads : \A i \in 1..Len(stack[t]) : stack[t][i] \in FrameType
  BY <1>1, LenProperties
<1>3. \A t \in Threads : Idle(t) <=> Len(stack[t]) = 0
  BY <1>1, EmptySeq DEF Idle
<1>4. \A s : s \in Slots <=> /\ s = <<s[1], s[2]>> /\ s[1] \in Threads
                             /\ s[2] \in 1..Len(stack[s[1]])
  BY DEF Slots
<1> QED BY <1>1, <1>2, <1>3, <1>4

\* How the slots lie.
LEMMA SlotGeometry ==
    ASSUME TypeInv
    PROVE  Geometry
<1>1. \A s \in Slots : Th(s) \in Threads /\ G(s) \in FrameType /\ ~Idle(Th(s))
  <2> SUFFICES ASSUME NEW s \in Slots
               PROVE  Th(s) \in Threads /\ G(s) \in FrameType /\ ~Idle(Th(s))
    OBVIOUS
  <2>1. s[1] \in Threads /\ s[2] \in 1..Len(stack[s[1]]) /\ Len(stack[s[1]]) \in Nat
    BY SlotFacts
  <2>2. Len(stack[s[1]]) + 1 - s[2] \in 1..Len(stack[s[1]])
    BY <2>1, SMTT(20)
  <2> QED BY <2>1, <2>2, SlotFacts DEF Th, G
<1>2. \A s \in Slots : ~Base(s) => /\ Under(s) \in Slots /\ Th(Under(s)) = Th(s)
                                   /\ ~IsTop(Under(s)) /\ Below(Under(s), s)
  BY SlotFacts DEF Base, Under, Th, IsTop, Below
<1>3. \A s, u \in Slots : Below(u, s) => /\ ~Base(s) /\ ~IsTop(u) /\ u # s
                                         /\ u = Under(s) \/ Below(u, Under(s))
  BY SlotFacts DEF Base, Under, Th, IsTop, Below
<1>4. \A s, u \in Slots : IsTop(s) /\ IsTop(u) /\ Th(s) = Th(u) => s = u
  BY SlotFacts DEF Th, IsTop
<1>5. \A s, u \in Slots : ~Base(s) /\ ~Base(u) /\ Under(s) = Under(u) => s = u
  BY SlotFacts DEF Base, Under
<1>6. \A s \in Slots : ~IsTop(s) => \E u \in Slots : Th(u) = Th(s) /\ IsTop(u) /\ Below(s, u)
  <2> SUFFICES ASSUME NEW s \in Slots, ~IsTop(s)
               PROVE  \E u \in Slots : Th(u) = Th(s) /\ IsTop(u) /\ Below(s, u)
    OBVIOUS
  <2>1. s[1] \in Threads /\ s[2] \in 1..Len(stack[s[1]]) /\ Len(stack[s[1]]) \in Nat
    BY SlotFacts
  <2>2. PICK u : u = <<s[1], Len(stack[s[1]])>>
    OBVIOUS
  <2>3. u \in Slots
    BY <2>1, <2>2, SlotFacts
  <2> QED BY <2>1, <2>2, <2>3 DEF Th, IsTop, Below
<1>7. \A s \in Slots : G(s).r \in Routines
  BY <1>1 DEF FrameType
<1> QED BY <1>1, <1>2, <1>3, <1>4, <1>5, <1>6, <1>7 DEF Geometry

\* The newest frame of a thread that is not idle.
LEMMA TopFrame ==
    ASSUME TypeInv, NEW t \in Threads, stack[t] # <<>>
    PROVE  \E p \in Slots : /\ p = <<t, Len(stack[t])>> /\ Th(p) = t /\ IsTop(p)
                            /\ G(p) = Top(t) /\ Top(t) = stack[t][1] /\ Top(t) \in FrameType
<1>1. stack[t] \in Seq(FrameType) /\ Len(stack[t]) \in Nat \ {0}
  BY SlotFacts DEF Idle
<1>2. PICK p : p = <<t, Len(stack[t])>>
  OBVIOUS
<1>3. p \in Slots
  BY <1>1, <1>2, SlotFacts
<1>4. Len(stack[t]) + 1 - Len(stack[t]) = 1
  BY <1>1
<1>5. Top(t) = stack[t][1] /\ Top(t) \in FrameType
  BY <1>1, SlotFacts DEF Top
<1> QED BY <1>2, <1>3, <1>4, <1>5 DEF Th, IsTop, G

\* Nothing happens to the stacks.
LEMMA StillStep ==
    ASSUME UNCHANGED stack
    PROVE  Still
BY DEF Still, Slots, G, IsTop, Idle

\* The newest frame of t becomes f.
LEMMA RetopStep ==
    ASSUME TypeInv, NEW t \in Threads, stack[t] # <<>>, NEW f \in FrameType,
           NEW z \in Seq(FrameType), stack' = [stack EXCEPT ![t] = z],
           Len(z) = Len(stack[t]), z[1] = f, \A i \in 2..Len(z) : z[i] = stack[t][i],
           NEW p, p = <<t, Len(stack[t])>>
    PROVE  Retop(p, f) /\ stack' \in [Threads -> Seq(FrameType)]
<1>1. stack' \in [Threads -> Seq(FrameType)]
  BY DEF TypeInv
<1>2. \A u \in Threads : Len(stack'[u]) = Len(stack[u]) /\ (u # t => stack'[u] = stack[u])
  BY DEF TypeInv
<1>3. Slots' = Slots
  BY <1>2 DEF Slots
<1>4. \A s \in Slots : IsTop(s)' <=> IsTop(s)
  BY <1>2, SlotFacts DEF IsTop
<1>5. \A u \in Threads : Idle(u)' <=> Idle(u)
  <2>1. \A u \in Threads : stack'[u] \in Seq(FrameType) /\ stack[u] \in Seq(FrameType)
    BY <1>1 DEF TypeInv
  <2> QED BY <1>2, <2>1, EmptySeq DEF Idle
<1>6. Len(stack[t]) \in Nat \ {0} /\ stack'[t] = z
  BY SlotFacts DEF Idle, TypeInv
<1>7. G(p)' = f
  <2>1. Len(z) + 1 - p[2] = 1
    BY <1>6
  <2> QED BY <1>6, <2>1 DEF G
<1>8. \A s \in Slots : s # p => G(s)' = G(s)
  <2> SUFFICES ASSUME NEW s \in Slots, s # p PROVE G(s)' = G(s)
    OBVIOUS
  <2>1. s = <<s[1], s[2]>> /\ s[1] \in Threads /\ s[2] \in 1..Len(stack[s[1]])
    BY SlotFacts
  <2>2. CASE s[1] # t
    BY <1>2, <2>1, <2>2 DEF G
  <2>3. CASE s[1] = t
    <3>1. s[2] # Len(stack[t])
      BY <2>1, <2>3
    <3>2. Len(z) + 1 - s[2] \in 2..Len(z)
      BY <1>6, <2>1, <2>3, <3>1
    <3> QED BY <1>6, <2>3, <3>2 DEF G
  <2> QED BY <2>2, <2>3
<1> QED BY <1>1, <1>3, <1>4, <1>5, <1>7, <1>8 DEF Retop

\* The forms of a replacement in the actions.
LEMMA ReplaceStep ==
    ASSUME TypeInv, NEW t \in Threads, stack[t] # <<>>, NEW f \in FrameType,
           Replace(t, f), NEW p, p = <<t, Len(stack[t])>>
    PROVE  Retop(p, f) /\ stack' \in [Threads -> Seq(FrameType)]
<1>1. stack[t] \in Seq(FrameType) /\ Len(stack[t]) \in Nat \ {0}
  BY SlotFacts DEF Idle
<1>2. PICK z : z = <<f>> \o Tail(stack[t])
  OBVIOUS
<1>3. Tail(stack[t]) \in Seq(FrameType) /\ Len(Tail(stack[t])) = Len(stack[t]) - 1
  BY <1>1, TailDeque
<1>4. z \in Seq(FrameType) /\ Len(z) = Len(stack[t]) /\ z[1] = f
  BY <1>1, <1>2, <1>3
<1>5. \A i \in 2..Len(z) : z[i] = stack[t][i]
  BY <1>1, <1>2, <1>3, <1>4, SMTT(20)
<1>6. stack' = [stack EXCEPT ![t] = z]
  BY <1>2 DEF Replace
<1> QED BY <1>4, <1>5, <1>6, RetopStep

\* The same, written as an assignment to the newest frame.
LEMMA SetTopStep ==
    ASSUME TypeInv, NEW t \in Threads, stack[t] # <<>>, NEW f \in FrameType,
           stack' = [stack EXCEPT ![t] = [stack[t] EXCEPT ![1] = f]],
           NEW p, p = <<t, Len(stack[t])>>
    PROVE  Retop(p, f) /\ stack' \in [Threads -> Seq(FrameType)]
<1>1. stack[t] \in Seq(FrameType) /\ Len(stack[t]) \in Nat \ {0}
  BY SlotFacts DEF Idle
<1>2. PICK z : z = [stack[t] EXCEPT ![1] = f]
  OBVIOUS
<1>3. z \in Seq(FrameType) /\ Len(z) = Len(stack[t]) /\ z[1] = f
  BY <1>1, <1>2
<1>4. \A i \in 2..Len(z) : z[i] = stack[t][i]
  BY <1>1, <1>2, <1>3
<1> QED BY <1>2, <1>3, <1>4, RetopStep

\* The newest frame of t goes on.
LEMMA GotoStep ==
    ASSUME TypeInv, NEW t \in Threads, stack[t] # <<>>, NEW pc \in PCs,
           Goto(t, pc), NEW p, p = <<t, Len(stack[t])>>
    PROVE  \E f \in FrameType : /\ Retop(p, f) /\ stack' \in [Threads -> Seq(FrameType)]
                                /\ f = [Top(t) EXCEPT !.pc = pc]
<1>1. Top(t) = stack[t][1] /\ Top(t) \in FrameType
  BY TopFrame
<1>2. PICK f : f = [Top(t) EXCEPT !.pc = pc]
  OBVIOUS
<1>3. f \in FrameType
  BY <1>1, <1>2 DEF FrameType
<1>4. stack' = [stack EXCEPT ![t] = [stack[t] EXCEPT ![1] = f]]
  BY <1>1, <1>2 DEF Goto
<1> QED BY <1>2, <1>3, <1>4, SetTopStep

\* The newest frame of t is removed.
LEMMA PopStep ==
    ASSUME TypeInv, NEW t \in Threads, stack[t] # <<>>, Pop(t), NEW p, p = <<t, Len(stack[t])>>
    PROVE  Popped(p) /\ stack' \in [Threads -> Seq(FrameType)]
<1>1. stack[t] \in Seq(FrameType) /\ Len(stack[t]) \in Nat \ {0}
  BY SlotFacts DEF Idle
<1>2. PICK z : z = Tail(stack[t])
  OBVIOUS
<1>3. /\ z \in Seq(FrameType) /\ Len(z) = Len(stack[t]) - 1
      /\ \A i \in 1..Len(z) : z[i] = stack[t][i + 1]
  BY <1>1, <1>2, TailDeque
<1>4. stack' = [stack EXCEPT ![t] = z]
  BY <1>2 DEF Pop
<1>5. stack' \in [Threads -> Seq(FrameType)]
  BY <1>3, <1>4 DEF TypeInv
<1>6. stack'[t] = z /\ \A u \in Threads : u # t => stack'[u] = stack[u]
  BY <1>4 DEF TypeInv
<1>7. Slots' = Slots \ {p}
  <2>1. \A s : s \in Slots' <=> s = <<s[1], s[2]>> /\ s[1] \in Threads /\ s[2] \in 1..Len(stack'[s[1]])
    BY DEF Slots
  <2>2. \A s : s \in Slots' <=> s \in Slots \ {p}
    BY <1>1, <1>3, <1>6, <2>1, SlotFacts
  <2> QED BY <2>2
<1>8. \A s \in Slots : s # p => G(s)' = G(s)
  <2> SUFFICES ASSUME NEW s \in Slots, s # p PROVE G(s)' = G(s)
    OBVIOUS
  <2>1. s = <<s[1], s[2]>> /\ s[1] \in Threads /\ s[2] \in 1..Len(stack[s[1]])
    BY SlotFacts
  <2>2. CASE s[1] # t
    BY <1>6, <2>1, <2>2 DEF G
  <2>3. CASE s[1] = t
    <3>1. s[2] # Len(stack[t])
      BY <2>1, <2>3
    <3>2. Len(z) + 1 - s[2] \in 1..Len(z) /\ (Len(z) + 1 - s[2]) + 1 = Len(stack[t]) + 1 - s[2]
      BY <1>1, <1>3, <2>1, <2>3, <3>1, SMTT(20)
    <3> QED BY <1>3, <1>6, <2>3, <3>2 DEF G
  <2> QED BY <2>2, <2>3
<1>9. \A s \in Slots : s # p => (IsTop(s)' <=> IsTop(s) \/ (~Base(p) /\ s = Under(p)))
  BY <1>1, <1>3, <1>6, SlotFacts DEF IsTop, Base, Under
<1>10. \A u \in Threads : Idle(u)' <=> Idle(u) \/ (u = Th(p) /\ Base(p))
  <2>1. \A u \in Threads : Idle(u)' <=> Len(stack'[u]) = 0
    BY <1>5, EmptySeq DEF Idle
  <2>2. Th(p) = t /\ (Base(p) <=> Len(stack[t]) = 1)
    BY DEF Th, Base
  <2>3. Idle(t)' <=> Base(p)
    <3>1. Len(stack'[t]) = 0 <=> Len(stack[t]) = 1
      <4>1. PICK n \in Nat : n = Len(stack[t])
        BY <1>1
      <4>2. Len(stack'[t]) = n - 1
        BY <1>3, <1>6, <4>1
      <4>3. n - 1 = 0 <=> n = 1
        OBVIOUS
      <4> QED BY <4>1, <4>2, <4>3
    <3>2. Idle(t)' <=> Len(stack'[t]) = 0
      BY <2>1
    <3> QED BY <2>2, <3>1, <3>2
  <2>4. ~Idle(t) /\ \A u \in Threads : u # t => (Idle(u)' <=> Idle(u))
    BY <1>6 DEF Idle
  <2> QED BY <2>2, <2>3, <2>4
<1> QED BY <1>5, <1>7, <1>8, <1>9, <1>10 DEF Popped

\* Frames are added above the old ones.
LEMMA PushedFacts ==
    ASSUME TypeInv, NEW t \in Threads, NEW f \in FrameType, NEW z \in Seq(FrameType),
           stack' = [stack EXCEPT ![t] = z], Len(z) = Len(stack[t]) + 1, z[1] = f,
           NEW q, q = <<t, Len(stack[t]) + 1>>
    PROVE  stack' \in [Threads -> Seq(FrameType)] /\ Added(t, q, f)
<1>1. Len(stack[t]) \in Nat
  BY SlotFacts
<1>2. stack' \in [Threads -> Seq(FrameType)]
  BY DEF TypeInv
<1>3. stack'[t] = z /\ \A u \in Threads : u # t => stack'[u] = stack[u]
  BY DEF TypeInv
<1>4. q \notin Slots /\ Slots' = Slots \cup {q}
  <2>1. \A s : s \in Slots' <=> s = <<s[1], s[2]>> /\ s[1] \in Threads /\ s[2] \in 1..Len(stack'[s[1]])
    BY DEF Slots
  <2>2. \A s : s \in Slots' <=> s \in Slots \cup {q}
    BY <1>1, <1>3, <2>1, SlotFacts
  <2>3. q \notin Slots
    BY <1>1, SlotFacts
  <2> QED BY <2>2, <2>3
<1>5. Th(q) = t /\ G(q)' = f /\ IsTop(q)'
  <2>1. Len(z) + 1 - q[2] = 1
    BY <1>1
  <2> QED BY <1>3, <2>1 DEF G, Th, IsTop
<1>6. \A s \in Slots : IsTop(s)' <=> IsTop(s) /\ Th(s) # t
  BY <1>1, <1>3, SlotFacts DEF IsTop, Th
<1>7. \A s \in Slots : ~Below(q, s) /\ (Below(s, q) <=> Th(s) = t)
  BY <1>1, SlotFacts DEF Below, Th
<1>8. Base(q) <=> Idle(t)
  BY <1>1, SlotFacts DEF Base
<1>9. ~Base(q) => Under(q) \in Slots /\ IsTop(Under(q)) /\ Th(Under(q)) = t
  <2> SUFFICES ASSUME ~Base(q) PROVE Under(q) \in Slots /\ IsTop(Under(q)) /\ Th(Under(q)) = t
    OBVIOUS
  <2>1. Under(q) = <<t, Len(stack[t])>> /\ Len(stack[t]) \in 1..Len(stack[t])
    BY <1>1 DEF Under, Base
  <2>2. Under(q) \in Slots
    BY <2>1, SlotFacts
  <2> QED BY <2>1, <2>2 DEF IsTop, Th
<1>10. \A u \in Threads : Idle(u)' <=> Idle(u) /\ u # t
  <2>1. \A u \in Threads : Idle(u)' <=> Len(stack'[u]) = 0
    BY <1>2, EmptySeq DEF Idle
  <2> QED BY <1>1, <1>3, <2>1, SlotFacts
<1> QED BY <1>2, <1>4, <1>5, <1>6, <1>7, <1>8, <1>9, <1>10 DEF Added

\* A frame is added to the stack of t.
LEMMA PushStep ==
    ASSUME TypeInv, NEW t \in Threads, NEW f \in FrameType, Push(t, f)
    PROVE  stack' \in [Threads -> Seq(FrameType)] /\ \E q : Pushed(t, q, f)
<1>1. stack[t] \in Seq(FrameType) /\ Len(stack[t]) \in Nat
  BY SlotFacts
<1>2. PICK z : z = <<f>> \o stack[t]
  OBVIOUS
<1>3. /\ z \in Seq(FrameType) /\ Len(z) = Len(stack[t]) + 1 /\ z[1] = f
      /\ \A i \in 1..Len(stack[t]) : z[i + 1] = stack[t][i]
  BY <1>1, <1>2
<1>4. stack' = [stack EXCEPT ![t] = z]
  BY <1>2 DEF Push
<1>5. PICK q : q = <<t, Len(stack[t]) + 1>>
  OBVIOUS
<1>6. stack'[t] = z /\ \A u \in Threads : u # t => stack'[u] = stack[u]
  BY <1>4 DEF TypeInv
<1>7. \A s \in Slots : G(s)' = G(s)
  <2> SUFFICES ASSUME NEW s \in Slots PROVE G(s)' = G(s)
    OBVIOUS
  <2>1. s = <<s[1], s[2]>> /\ s[1] \in Threads /\ s[2] \in 1..Len(stack[s[1]])
    BY SlotFacts
  <2>2. CASE s[1] # t
    BY <1>6, <2>1, <2>2 DEF G
  <2>3. CASE s[1] = t
    <3>1. /\ Len(stack[t]) + 1 - s[2] \in 1..Len(stack[t])
          /\ (Len(stack[t]) + 1 - s[2]) + 1 = Len(z) + 1 - s[2]
      BY <1>1, <1>3, <2>1, <2>3
    <3> QED BY <1>3, <1>6, <2>3, <3>1 DEF G
  <2> QED BY <2>2, <2>3
<1>8. stack' \in [Threads -> Seq(FrameType)] /\ Added(t, q, f)
  BY <1>3, <1>4, <1>5, PushedFacts
<1> QED BY <1>7, <1>8 DEF Pushed

\* The newest frame of t becomes g and f is added above it.
LEMMA PushOnStep ==
    ASSUME TypeInv, NEW t \in Threads, stack[t] # <<>>, NEW f \in FrameType, NEW g \in FrameType,
           stack' = [stack EXCEPT ![t] = <<f>> \o <<g>> \o Tail(@)],
           NEW p, p = <<t, Len(stack[t])>>
    PROVE  stack' \in [Threads -> Seq(FrameType)] /\ \E q : PushedOn(p, g, q, f)
<1>1. stack[t] \in Seq(FrameType) /\ Len(stack[t]) \in Nat \ {0}
  BY SlotFacts DEF Idle
<1>2. PICK w : w = Tail(stack[t])
  OBVIOUS
<1>3. /\ w \in Seq(FrameType) /\ Len(w) = Len(stack[t]) - 1
      /\ \A i \in 2..Len(stack[t]) : stack[t][i] = w[i - 1] /\ i - 1 \in 1..Len(w)
  BY <1>1, <1>2, TailDeque
<1>4. PICK z : z = <<f>> \o <<g>> \o w
  OBVIOUS
<1>5. /\ z \in Seq(FrameType) /\ Len(z) = Len(stack[t]) + 1 /\ z[1] = f /\ z[2] = g
      /\ \A i \in 1..Len(w) : z[i + 2] = w[i]
  BY <1>1, <1>3, <1>4
<1>6. stack' = [stack EXCEPT ![t] = z]
  BY <1>2, <1>4
<1>7. PICK q : q = <<t, Len(stack[t]) + 1>>
  OBVIOUS
<1>8. stack'[t] = z /\ \A u \in Threads : u # t => stack'[u] = stack[u]
  BY <1>6 DEF TypeInv
<1>9. \A s \in Slots : s # p => G(s)' = G(s)
  <2> SUFFICES ASSUME NEW s \in Slots, s # p PROVE G(s)' = G(s)
    OBVIOUS
  <2>1. s = <<s[1], s[2]>> /\ s[1] \in Threads /\ s[2] \in 1..Len(stack[s[1]])
    BY SlotFacts
  <2>2. CASE s[1] # t
    BY <1>8, <2>1, <2>2 DEF G
  <2>3. CASE s[1] = t
    <3>1. s[2] # Len(stack[t])
      BY <2>1, <2>3
    <3>2. /\ Len(stack[t]) + 1 - s[2] \in 2..Len(stack[t])
          /\ ((Len(stack[t]) + 1 - s[2]) - 1) + 2 = Len(z) + 1 - s[2]
      BY <1>1, <1>5, <2>1, <2>3, <3>1, SMTT(20)
    <3> QED BY <1>3, <1>5, <1>8, <2>3, <3>2, SMTT(20) DEF G
  <2> QED BY <2>2, <2>3
<1>10. G(p)' = g
  <2>1. Len(z) + 1 - p[2] = 2
    BY <1>1, <1>5
  <2> QED BY <1>5, <1>8, <2>1 DEF G
<1>11. ~Base(q) /\ Under(q) = p
  BY <1>1, <1>7 DEF Base, Under
<1>12. Th(p) = t
  BY DEF Th
<1>13. stack' \in [Threads -> Seq(FrameType)] /\ Added(t, q, f)
  BY <1>5, <1>6, <1>7, PushedFacts
<1> QED BY <1>9, <1>10, <1>11, <1>12, <1>13 DEF PushedOn

-----------------------------------------------------------------------------
(* What the shape of a step means for the coroutines and their Runners.    *)

\* The fields of a new frame.
LEMMA NewFrame ==
    ASSUME NEW fn \in {"ctor", "ctorLoop", "run", "runner"}, NEW r \in Routines, NEW pc \in PCs
    PROVE  \E f \in FrameType : /\ f = Frame(fn, r, pc) /\ f.fn = fn /\ f.r = r /\ f.pc = pc
                                /\ f.res = Null /\ f.call = Null /\ ~f.destruct
<1>1. PICK f : f = Frame(fn, r, pc)
  OBVIOUS
<1>2. /\ f.fn = fn /\ f.r = r /\ f.pc = pc /\ f.res = Null /\ f.call = Null
      /\ ~f.destruct /\ f \in FrameType
  BY <1>1 DEF Frame, FrameType
<1> QED BY <1>1, <1>2

\* A frame that goes on.
LEMMA NextFrame ==
    ASSUME NEW g \in FrameType, NEW pc \in PCs, NEW f, f = [g EXCEPT !.pc = pc]
    PROVE  /\ f.fn = g.fn /\ f.r = g.r /\ f.pc = pc /\ f.res = g.res /\ f.call = g.call
           /\ f.destruct = g.destruct
BY DEF FrameType

\* The types of the fields.
LEMMA FrameFields ==
    ASSUME NEW f \in FrameType
    PROVE  /\ f.fn \in {"ctor", "ctorLoop", "run", "runner"} /\ f.r \in Routines /\ f.pc \in PCs
           /\ f.res \in Routines \cup {Null} /\ f.call \in Routines \cup Threads \cup {Null}
           /\ f.destruct \in BOOLEAN
BY DEF FrameType

\* Null is no coroutine, no thread and no future.
LEMMA Names ==
    /\ Null \notin Routines /\ Null \notin Threads /\ Null \notin Futures
    /\ Invalid \notin Routines /\ Invalid \notin Threads /\ Invalid # Null
    /\ Ioc \notin Routines /\ Ioc \notin Futures /\ Ioc # Null /\ Ioc # Timer
    /\ Timer \notin Routines /\ Timer \notin Futures /\ Timer # Null
    /\ \A r \in Routines : r \notin Threads /\ r \notin Futures
BY NamesAssumption DEF Null, Invalid, Ioc, Timer

\* What a new frame in the newest slot of a thread leaves alone.
LEMMA RetopFacts ==
    ASSUME Geometry, NEW p \in Slots, IsTop(p), NEW f, Retop(p, f)
    PROVE  /\ Slots' = Slots /\ G(p)' = f
           /\ \A s \in Slots : s # p => G(s)' = G(s)
           /\ \A u \in Threads : Idle(u)' <=> Idle(u)
           /\ \A s \in Slots : G(s).r \in Routines
           /\ \A s \in Slots : ~Base(s) => Under(s) \in Slots /\ Under(s) # p
<1>1. /\ Slots' = Slots /\ G(p)' = f
      /\ \A s \in Slots : s # p => G(s)' = G(s)
      /\ \A u \in Threads : Idle(u)' <=> Idle(u)
  BY DEF Retop
<1>2. \A s \in Slots : G(s).r \in Routines
  BY DEF Geometry
<1>3. \A s \in Slots : ~Base(s) => Under(s) \in Slots /\ Under(s) # p
  BY DEF Geometry
<1> QED BY <1>1, <1>2, <1>3

\* A step of a coroutine that stays on its thread.
LEMMA InPlace ==
    ASSUME OneEach, NEW p \in Slots, NEW f, Retop(p, f), G(p).fn # "runner",
           f.fn # "runner", f.r = G(p).r,
           \A x \in Routines : x # f.r => life'[x] = life[x] /\ finished'[x] = finished[x]
    PROVE  /\ OneEach'
           /\ \A x : (On(x)' <=> On(x)) /\ (Called(x)' <=> Called(x))
           /\ \A x \in Routines : Asleep(x)' <=> Asleep(x)
           /\ \A x \in Routines : x # f.r => (Parked(x)' <=> Parked(x))
           /\ On(f.r) /\ ~Asleep(f.r)
           /\ Parked(f.r) <=> G(p).pc \in {"install", "spin"}
           /\ Parked(f.r)' <=> f.pc \in {"install", "spin"}
<1>1. /\ Slots' = Slots /\ G(p)' = f
      /\ \A s \in Slots : s # p => G(s)' = G(s)
  BY DEF Retop
<1>2. OneEach'
  BY <1>1 DEF OneEach
<1>3. \A x : (On(x)' <=> On(x)) /\ (Called(x)' <=> Called(x))
  BY <1>1 DEF On, Called, Coro, Call
<1>4. On(f.r)
  BY DEF On, Coro
<1>5. \A x \in Routines : Asleep(x)' <=> Asleep(x)
  BY <1>3, <1>4 DEF Asleep
<1>6. \A x \in Routines : x # f.r => (Parked(x)' <=> Parked(x))
  BY <1>1, <1>5 DEF Parked, Coro
<1>7. Parked(f.r) <=> G(p).pc \in {"install", "spin"}
  BY <1>4 DEF Parked, Coro, Asleep, OneEach
<1>8. Parked(f.r)' <=> f.pc \in {"install", "spin"}
  BY <1>1, <1>3, <1>4, <1>2 DEF Parked, Coro, Asleep, OneEach
<1> QED BY <1>2, <1>3, <1>4, <1>5, <1>6, <1>7, <1>8 DEF Asleep

\* A coroutine leaves its thread.
LEMMA Leaving ==
    ASSUME OneEach, NEW p \in Slots, Popped(p), G(p).fn # "runner", NEW r, r = G(p).r,
           \A x \in Routines : x # r => life'[x] = life[x] /\ finished'[x] = finished[x]
    PROVE  /\ OneEach'
           /\ \A x : (On(x)' <=> On(x) /\ x # r) /\ (Called(x)' <=> Called(x))
           /\ \A x \in Routines : x # r => (Asleep(x)' <=> Asleep(x)) /\ (Parked(x)' <=> Parked(x))
           /\ On(r) /\ ~Asleep(r)
           /\ Parked(r) <=> G(p).pc \in {"install", "spin"}
           /\ Asleep(r)' <=> life'[r] # "none" /\ ~finished'[r]
           /\ Parked(r)' <=> Asleep(r)'
<1>1. Slots' = Slots \ {p} /\ \A s \in Slots : s # p => G(s)' = G(s)
  BY DEF Popped
<1>2. OneEach'
  BY <1>1 DEF OneEach
<1>3. \A x : (On(x)' <=> On(x) /\ x # r) /\ (Called(x)' <=> Called(x))
  BY <1>1 DEF On, Called, Coro, Call, OneEach
<1>4. On(r)
  BY DEF On, Coro
<1>5. \A x \in Routines : x # r => (Asleep(x)' <=> Asleep(x)) /\ (Parked(x)' <=> Parked(x))
  BY <1>1, <1>3 DEF Asleep, Parked, Coro
<1>6. Parked(r) <=> G(p).pc \in {"install", "spin"}
  BY <1>4 DEF Parked, Coro, Asleep, OneEach
<1>7. Asleep(r)' <=> life'[r] # "none" /\ ~finished'[r]
  BY <1>3 DEF Asleep
<1>8. Parked(r)' <=> Asleep(r)'
  BY <1>3 DEF Parked, On
<1> QED BY <1>2, <1>3, <1>4, <1>5, <1>6, <1>7, <1>8 DEF Asleep

\* A call of a Runner returns.
LEMMA RunnerReturns ==
    ASSUME OneEach, NEW p \in Slots, Popped(p), G(p).fn = "runner", UNCHANGED <<life, finished>>
    PROVE  /\ OneEach'
           /\ \A x : (On(x)' <=> On(x)) /\ (Called(x)' <=> Called(x) /\ x # G(p).r)
           /\ \A x \in Routines : (Asleep(x)' <=> Asleep(x)) /\ (Parked(x)' <=> Parked(x))
<1>1. Slots' = Slots \ {p} /\ \A s \in Slots : s # p => G(s)' = G(s)
  BY DEF Popped
<1>2. OneEach'
  BY <1>1 DEF OneEach
<1>3. \A x : (On(x)' <=> On(x)) /\ (Called(x)' <=> Called(x) /\ x # G(p).r)
  BY <1>1 DEF On, Called, Coro, Call, OneEach
<1>4. \A x \in Routines : (Asleep(x)' <=> Asleep(x)) /\ (Parked(x)' <=> Parked(x))
  BY <1>1, <1>3 DEF Asleep, Parked, Coro
<1> QED BY <1>2, <1>3, <1>4

\* A Runner is called, from the code of a coroutine or by the io_context.
LEMMA RunnerCalled ==
    ASSUME OneEach, NEW t, NEW q, NEW f, Pushed(t, q, f), f.fn = "runner",
           ~Called(f.r), UNCHANGED <<life, finished>>
    PROVE  /\ OneEach'
           /\ \A x : (On(x)' <=> On(x)) /\ (Called(x)' <=> Called(x) \/ x = f.r)
           /\ \A x \in Routines : (Asleep(x)' <=> Asleep(x)) /\ (Parked(x)' <=> Parked(x))
<1>1. /\ q \notin Slots /\ Slots' = Slots \cup {q} /\ G(q)' = f
      /\ \A s \in Slots : G(s)' = G(s)
  BY DEF Pushed, Added
<1>2. OneEach'
  BY <1>1 DEF OneEach, Called, Call
<1>3. \A x : (On(x)' <=> On(x)) /\ (Called(x)' <=> Called(x) \/ x = f.r)
  BY <1>1 DEF On, Called, Coro, Call
<1>4. \A x \in Routines : (Asleep(x)' <=> Asleep(x)) /\ (Parked(x)' <=> Parked(x))
  BY <1>1, <1>3 DEF Asleep, Parked, Coro
<1> QED BY <1>2, <1>3, <1>4

\* Nobody can resume a coroutine that is on a thread, before it has registered
\* its Runner with the coroutine it awaits and after its Runner has been called.
LEMMA NoTokens ==
    ASSUME CoreInv, NEW p \in Slots, NEW r, r = G(p).r, G(p).fn # "runner",
           G(p).pc \notin {"install", "spin"} \/ mCaller[r] = Invalid
    PROVE  /\ \A f \in Futures : fut[f] # r
           /\ ~In(r, queue) /\ r \notin pending /\ ~Called(r)
           /\ \A x \in Routines : mResult[x] # r /\ mContinuation[x] # r
           /\ \A s \in Slots : /\ G(s).pc = "call" => G(s).call # r
                               /\ G(s).res # r
                               /\ G(s).fn = "runner" => G(s).r # r
<1>1. On(r) /\ ~Asleep(r) /\ (Parked(r) => mCaller[r] # Null)
  BY Names DEF On, Coro, Asleep, Parked, CoreInv, OnceInv, OneEach
<1>2. r \in Routines
  BY SlotGeometry, FrameFields DEF CoreInv, Geometry
<1>3. \A f \in Futures : fut[f] # r
  BY <1>1, <1>2 DEF CoreInv, ArmedInv
<1>4. ~In(r, queue) /\ r \notin pending
  BY <1>1, <1>2 DEF CoreInv, ArmedInv, Armed
<1>5. ~Called(r)
  BY <1>1, <1>2 DEF CoreInv, ArmedInv, Armed, DisarmedInv, Disarmed, Called, Call
<1>6. \A x \in Routines : mResult[x] # r /\ mContinuation[x] # r
  BY <1>1, <1>2 DEF CoreInv, DisarmedInv, Disarmed, ContinuationInv
<1>7. \A s \in Slots : (G(s).pc = "call" => G(s).call # r) /\ G(s).res # r
  BY <1>1, <1>2 DEF CoreInv, DisarmedInv, Disarmed, ContinuationInv
<1> QED BY <1>3, <1>4, <1>5, <1>6, <1>7 DEF Called, Call

\* A coroutine whose constructor has not returned is owned by its creator, who
\* does not await it yet.
LEMMA NotAwaited ==
    ASSUME CoreInv, NEW p \in Slots, NEW r, r = G(p).r, G(p).fn \in Ctors
    PROVE  /\ \A y \in Routines : waitFor[y] = r => ~Parked(y)
           /\ mResult[r] \notin Routines /\ mContinuation[r] \notin Routines
<1>1. Geometry /\ r \in Routines /\ G(p).fn # "runner"
  BY SlotGeometry DEF CoreInv, Geometry, Ctors
<1>2. ASSUME NEW y \in Routines, waitFor[y] = r
      PROVE  ~Parked(y)
  <2>1. owner[r] = y /\ y \notin Threads
    BY <1>1, <1>2, Names DEF CoreInv, OwnerInv
  <2>2. ~Base(p) /\ y = G(Under(p)).r
    BY <1>1, <2>1 DEF CoreInv, OwnerInv, Geometry
  <2>3. Under(p) \in Slots /\ G(Under(p)).pc = "user" /\ G(Under(p)).fn # "runner"
    BY <1>1, <2>2 DEF CoreInv, ShapeInv, Geometry
  <2> QED BY <2>2, <2>3 DEF Parked, Asleep, On, Coro, CoreInv, OnceInv, OneEach
<1>3. mResult[r] \notin Routines
  BY <1>1, <1>2 DEF CoreInv, DisarmedInv, Disarmed
<1>4. mContinuation[r] \notin Routines
  BY <1>1, <1>2 DEF CoreInv, ContinuationInv, Parked
<1> QED BY <1>2, <1>3, <1>4

-----------------------------------------------------------------------------
(* ShapeInv and CurrentInv, which speak of the stacks alone.               *)

\* The shape of the stacks: the newest frame goes on,
LEMMA ShapeInPlace ==
    ASSUME Geometry, ShapeInv, NEW p \in Slots, IsTop(p), NEW f, Retop(p, f),
           f.fn = G(p).fn \/ {f.fn, G(p).fn} \subseteq Ctors,
           f.fn = "runner" <=> f.pc = "runner", f.fn # "run" => f.res = Null
    PROVE  ShapeInv'
<1>1. /\ Slots' = Slots /\ G(p)' = f
      /\ \A s \in Slots : IsTop(s)' <=> IsTop(s)
      /\ \A s \in Slots : s # p => G(s)' = G(s)
  BY DEF Retop
<1>2. \A s \in Slots : ~Base(s) => Under(s) \in Slots /\ Under(s) # p
  BY DEF Geometry
<1>3. \A s \in Slots : ~Below(p, s)
  BY DEF Geometry
<1> SUFFICES ASSUME NEW s \in Slots
    PROVE /\ ~IsTop(s)' => G(s)'.pc = "user" \/ (G(s)'.pc = "return" /\ G(s)'.fn = "run")
          /\ G(s)'.fn = "runner" <=> G(s)'.pc = "runner"
          /\ G(s)'.fn = "run" => \A u \in Slots : Below(u, s) => G(u)'.pc = "return"
          /\ G(s)'.fn \in Ctors /\ ~Base(s) => G(Under(s))'.pc = "user"
          /\ G(s)'.fn # "run" => G(s)'.res = Null
  BY <1>1 DEF ShapeInv
<1>4. CASE s = p
  BY <1>1, <1>2, <1>3, <1>4 DEF ShapeInv, Ctors
<1>5. CASE s # p
  BY <1>1, <1>2, <1>3, <1>5 DEF ShapeInv, Ctors
<1> QED BY <1>4, <1>5

\* it is left,
LEMMA ShapeLeaving ==
    ASSUME Geometry, ShapeInv, NEW p \in Slots, IsTop(p), Popped(p)
    PROVE  ShapeInv'
<1>1. /\ Slots' = Slots \ {p}
      /\ \A s \in Slots : s # p => G(s)' = G(s)
      /\ \A s \in Slots : s # p => (IsTop(s) => IsTop(s)')
  BY DEF Popped
<1>2. \A s \in Slots : ~Base(s) => Under(s) \in Slots /\ Under(s) # p
  BY DEF Geometry
<1> QED BY <1>1, <1>2 DEF ShapeInv

\* or calls something.
LEMMA ShapeCalled ==
    ASSUME Geometry, ShapeInv, NEW t, NEW q, NEW f, Pushed(t, q, f), f.fn # "run",
           f.fn = "runner" <=> f.pc = "runner", f.fn # "run" => f.res = Null,
           \A s \in Slots : IsTop(s) /\ Th(s) = t =>
               \/ G(s).pc = "user"
               \/ G(s).pc = "return" /\ G(s).fn = "run" /\ f.fn \notin Ctors
    PROVE  ShapeInv'
<1>1. /\ q \notin Slots /\ Slots' = Slots \cup {q} /\ G(q)' = f /\ IsTop(q)'
      /\ \A s \in Slots : IsTop(s)' <=> IsTop(s) /\ Th(s) # t
      /\ \A s \in Slots : ~Below(q, s)
      /\ ~Base(q) => Under(q) \in Slots /\ IsTop(Under(q)) /\ Th(Under(q)) = t
      /\ \A s \in Slots : G(s)' = G(s)
  BY DEF Pushed, Added
<1>2. \A s \in Slots : ~Base(s) => Under(s) \in Slots
  BY DEF Geometry
<1> SUFFICES ASSUME NEW s \in Slots'
    PROVE /\ ~IsTop(s)' => G(s)'.pc = "user" \/ (G(s)'.pc = "return" /\ G(s)'.fn = "run")
          /\ G(s)'.fn = "runner" <=> G(s)'.pc = "runner"
          /\ G(s)'.fn = "run" => \A u \in Slots' : Below(u, s) => G(u)'.pc = "return"
          /\ G(s)'.fn \in Ctors /\ ~Base(s) => G(Under(s))'.pc = "user"
          /\ G(s)'.fn # "run" => G(s)'.res = Null
  BY DEF ShapeInv
<1>3. CASE s = q
  BY <1>1, <1>2, <1>3 DEF ShapeInv, Ctors
<1>4. CASE s \in Slots
  BY <1>1, <1>2, <1>4 DEF ShapeInv, Ctors
<1> QED BY <1>1, <1>3, <1>4

\* What current() is above a frame that has called something.
LEMMA CurrentInPlace ==
    ASSUME Geometry, CurrentInv, NEW p \in Slots, IsTop(p), NEW f, Retop(p, f), f.pc # "user",
           mOuter' = mOuter, current'[Th(p)] = UserBelow(p),
           \A u \in Threads : u # Th(p) => current'[u] = current[u]
    PROVE  CurrentInv'
<1>1. /\ Slots' = Slots /\ G(p)' = f
      /\ \A s \in Slots : IsTop(s)' <=> IsTop(s)
      /\ \A s \in Slots : s # p => G(s)' = G(s)
      /\ \A u \in Threads : Idle(u)' <=> Idle(u)
  BY DEF Retop
<1>2. \A s \in Slots : ~Base(s) => Under(s) \in Slots /\ Under(s) # p
  BY DEF Geometry
<1>3. \A s \in Slots : UserBelow(s)' = UserBelow(s)
  BY <1>1, <1>2 DEF UserBelow
<1>4. \A u \in Threads : Idle(u) => u # Th(p)
  BY DEF Geometry
<1>5. \A s \in Slots : IsTop(s) /\ s # p => Th(s) # Th(p) /\ Th(s) \in Threads
  BY DEF Geometry
<1> QED BY <1>1, <1>3, <1>4, <1>5 DEF CurrentInv

\* A frame that was not in the code of its coroutine is left: current() stays.
LEMMA CurrentLeaving ==
    ASSUME Geometry, ShapeInv, CurrentInv, NEW p \in Slots, IsTop(p), Popped(p),
           G(p).pc # "user", UNCHANGED <<current, mOuter>>
    PROVE  CurrentInv'
<1>1. /\ Slots' = Slots \ {p}
      /\ \A s \in Slots : s # p => G(s)' = G(s)
      /\ \A s \in Slots : s # p => (IsTop(s)' <=> IsTop(s) \/ (~Base(p) /\ s = Under(p)))
      /\ \A u \in Threads : Idle(u)' <=> Idle(u) \/ (u = Th(p) /\ Base(p))
  BY DEF Popped
<1>2. \A s \in Slots : ~Base(s) => Under(s) \in Slots /\ Under(s) # p /\ Th(Under(s)) = Th(s)
  BY DEF Geometry
<1>3. \A s \in Slots : s # p => UserBelow(s)' = UserBelow(s)
  BY <1>1, <1>2 DEF UserBelow
<1>4. current[Th(p)] = UserBelow(p)
  BY DEF CurrentInv
<1>5. ASSUME ~Base(p)
      PROVE  current[Th(p)] = IF G(Under(p)).pc = "user" THEN G(Under(p)).r ELSE UserBelow(Under(p))
  <2>1. CASE G(Under(p)).pc = "user"
    BY <1>4, <1>5, <2>1 DEF UserBelow
  <2>2. CASE G(Under(p)).pc # "user"
    <3>1. G(Under(p)).fn = "run"
      BY <1>5, <2>2 DEF Geometry, ShapeInv
    <3>2. ~Base(Under(p)) => G(Under(Under(p))).pc = "return"
      BY <1>5, <3>1 DEF Geometry, ShapeInv
    <3>3. UserBelow(Under(p)) = Null
      BY <3>2 DEF UserBelow
    <3> QED BY <1>4, <1>5, <2>2, <3>3 DEF UserBelow
  <2> QED BY <2>1, <2>2
<1>6. Base(p) => current[Th(p)] = Null
  BY <1>4 DEF UserBelow
<1> QED BY <1>1, <1>2, <1>3, <1>5, <1>6 DEF CurrentInv

\* A Runner is called: current() stays.
LEMMA CurrentCalled ==
    ASSUME Geometry, CurrentInv, NEW t \in Threads, NEW q, NEW f, Pushed(t, q, f),
           f.pc # "user", UNCHANGED <<current, mOuter>>,
           \A s \in Slots : IsTop(s) /\ Th(s) = t => G(s).pc = "user"
    PROVE  CurrentInv'
<1>1. /\ q \notin Slots /\ Slots' = Slots \cup {q} /\ G(q)' = f /\ IsTop(q)' /\ Th(q) = t
      /\ \A s \in Slots : IsTop(s)' <=> IsTop(s) /\ Th(s) # t
      /\ Base(q) <=> Idle(t)
      /\ ~Base(q) => Under(q) \in Slots /\ IsTop(Under(q)) /\ Th(Under(q)) = t
      /\ \A u \in Threads : Idle(u)' <=> Idle(u) /\ u # t
      /\ \A s \in Slots : G(s)' = G(s)
  BY DEF Pushed, Added
<1>2. \A s \in Slots : ~Base(s) => Under(s) \in Slots
  BY DEF Geometry
<1>3. \A s \in Slots : UserBelow(s)' = UserBelow(s)
  BY <1>1, <1>2 DEF UserBelow
<1>4. current[t] = UserBelow(q)'
  BY <1>1 DEF UserBelow, CurrentInv
<1> QED BY <1>1, <1>3, <1>4 DEF CurrentInv

-----------------------------------------------------------------------------
(* The steps of a coroutine that stays on its thread.                      *)

\* await(), up to the end of leave().
LEMMA AwaitStep ==
    ASSUME CoreInv, NEW t \in Threads, NEW x \in Routines \cup Futures \cup {Ioc, Timer},
           Await(t, x)
    PROVE  CoreInv'
<1>c. /\ TypeInv /\ ShapeInv /\ CurrentInv /\ OnceInv /\ PlaceInv /\ RestInv /\ OwnerInv
      /\ ArmedInv /\ DisarmedInv /\ ContinuationInv /\ KnownInv /\ Geometry
  BY SlotGeometry DEF CoreInv
<1>p. PICK p \in Slots : /\ p = <<t, Len(stack[t])>> /\ Th(p) = t /\ IsTop(p)
                         /\ G(p) = Top(t) /\ Top(t) \in FrameType /\ stack[t] # <<>>
  BY <1>c, TopFrame DEF Await, At, OuterOf
<1>r. PICK r \in Routines : r = G(p).r
  BY <1>p, FrameFields
<1>w. PICK pc \in {"take", "suspend"} : pc = IF x \in Routines THEN "take" ELSE "suspend"
  OBVIOUS
<1>f. PICK f \in FrameType : /\ Retop(p, f) /\ stack' \in [Threads -> Seq(FrameType)]
                             /\ f = [Top(t) EXCEPT !.pc = pc]
  BY <1>c, <1>p, <1>w, GotoStep DEF Await, At, PCs
<1>k. /\ f.fn = G(p).fn /\ f.r = r /\ f.pc = pc /\ f.res = G(p).res /\ f.call = G(p).call
      /\ f.destruct = G(p).destruct /\ G(p).pc = "user" /\ G(p).fn # "runner" /\ r = G(p).r
  BY <1>c, <1>p, <1>r, <1>f, <1>w, NextFrame DEF PCs, Await, At, ShapeInv
<1>l. life[r] # "none" /\ ~finished[r] /\ waitFor[r] = Null
  BY <1>c, <1>k DEF PlaceInv, Ending
<1>a. /\ x \in Routines => owner[x] = r
      /\ waitFor' = [waitFor EXCEPT ![r] = x]
      /\ mCaller' = [mCaller EXCEPT ![r] = r]
      /\ current' = [current EXCEPT ![t] = mOuter[r]]
      /\ awaits' = [awaits EXCEPT ![r] = IF x \in Routines THEN @ ELSE @ + 1]
      /\ UNCHANGED <<blocked, queue, pending, fut, mOuter, mContinuation, mResult, mIsDetached,
                     finished, life, owner>>
  BY <1>p, <1>r, <1>f, <1>k, <1>w DEF Await, At, OuterOf, routineVars
<1>i. /\ OneEach'
      /\ \A y : (On(y)' <=> On(y)) /\ (Called(y)' <=> Called(y))
      /\ \A y \in Routines : Asleep(y)' <=> Asleep(y)
      /\ \A y \in Routines : y # r => (Parked(y)' <=> Parked(y))
      /\ On(r) /\ ~Asleep(r)
      /\ Parked(r) <=> G(p).pc \in {"install", "spin"}
      /\ Parked(r)' <=> f.pc \in {"install", "spin"}
  BY <1>c, <1>k, <1>w, <1>f, <1>a, InPlace DEF OnceInv
<1>n. /\ \A z \in Futures : fut[z] # r
      /\ ~In(r, queue) /\ r \notin pending /\ ~Called(r)
      /\ \A z \in Routines : mResult[z] # r /\ mContinuation[z] # r
      /\ \A s \in Slots : /\ G(s).pc = "call" => G(s).call # r
                          /\ G(s).res # r
                          /\ G(s).fn = "runner" => G(s).r # r
  BY <1>k, <1>l, NoTokens
<1>s. /\ Slots' = Slots /\ G(p)' = f
      /\ \A s \in Slots : s # p => G(s)' = G(s)
      /\ \A u \in Threads : Idle(u)' <=> Idle(u)
      /\ \A s \in Slots : G(s).r \in Routines
      /\ \A s \in Slots : ~Base(s) => Under(s) \in Slots /\ Under(s) # p
  BY <1>c, <1>p, <1>f, RetopFacts
<1>t. /\ pending \subseteq Routines
      /\ fut \in [Futures -> Routines \cup {Null, Invalid}]
      /\ waitFor \in [Routines -> Routines \cup Futures \cup {Ioc, Timer, Null}]
      /\ mCaller \in [Routines -> Routines \cup {Null, Invalid}]
      /\ mResult \in [Routines -> Routines \cup Threads \cup {Null, Invalid}]
      /\ mContinuation \in [Routines -> Routines \cup {Null, Invalid}]
      /\ current \in [Threads -> Routines \cup {Null}]
  BY <1>c DEF TypeInv
<1>1. TypeInv'
  <2>1. awaits' \in [Routines -> Nat]
    BY <1>c, <1>a DEF TypeInv
  <2> QED BY <1>c, <1>a, <1>f, <2>1 DEF TypeInv
<1>2. ShapeInv'
  <2>1. f.fn # "run" => f.res = Null
    BY <1>c, <1>k, <1>w, <1>l DEF ShapeInv
  <2>2. f.fn = "runner" <=> f.pc = "runner"
    BY <1>k
  <2> QED BY <1>c, <1>p, <1>f, <1>k, <1>w, <2>1, <2>2, ShapeInPlace
<1>3. CurrentInv'
  <2>1. mOuter[r] = UserBelow(p)
    BY <1>c, <1>p, <1>k DEF CurrentInv
  <2>2. /\ current'[Th(p)] = UserBelow(p)
        /\ \A u \in Threads : u # Th(p) => current'[u] = current[u]
    BY <1>p, <1>a, <1>t, <2>1
  <2>3. f.pc # "user" /\ mOuter' = mOuter
    BY <1>k, <1>w, <1>a
  <2> QED BY <1>c, <1>p, <1>f, <2>2, <2>3, CurrentInPlace
<1>4. OnceInv'
  BY <1>c, <1>i, <1>a DEF OnceInv
<1>5. PlaceInv'
  BY <1>c, <1>s, <1>k, <1>w, <1>l, <1>a, <1>t, Names DEF PlaceInv, OnceInv, OneEach, Ending
<1>6. RestInv'
  BY <1>c, <1>i, <1>l, <1>a, <1>t, Names DEF RestInv
<1>7. OwnerInv'
  BY <1>c, <1>s, <1>k, <1>w, <1>l, <1>a, <1>t, Names DEF OwnerInv
<1>8. ArmedInv'
  BY <1>c, <1>i, <1>n, <1>a, <1>t, Names DEF ArmedInv, Armed
<1>9. DisarmedInv'
  BY <1>c, <1>i, <1>n, <1>s, <1>k, <1>w, <1>l, <1>a, <1>t, Names DEF DisarmedInv, Disarmed
<1>10. ContinuationInv'
  BY <1>c, <1>i, <1>n, <1>s, <1>k, <1>w, <1>l, <1>a, <1>t, Names DEF ContinuationInv
<1>11. KnownInv'
  BY <1>c, <1>i, <1>n, <1>s, <1>k, <1>w, <1>l, <1>a, <1>t, Names DEF KnownInv
<1> QED BY <1>1, <1>2, <1>3, <1>4, <1>5, <1>6, <1>7, <1>8, <1>9, <1>10, <1>11 DEF CoreInv

\* The coroutine function ends.
LEMMA FinishStep ==
    ASSUME CoreInv, NEW t \in Threads, Finish(t)
    PROVE  CoreInv'
<1>c. /\ TypeInv /\ ShapeInv /\ CurrentInv /\ OnceInv /\ PlaceInv /\ RestInv /\ OwnerInv
      /\ ArmedInv /\ DisarmedInv /\ ContinuationInv /\ KnownInv /\ Geometry
  BY SlotGeometry DEF CoreInv
<1>p. PICK p \in Slots : /\ p = <<t, Len(stack[t])>> /\ Th(p) = t /\ IsTop(p)
                         /\ G(p) = Top(t) /\ Top(t) \in FrameType /\ stack[t] # <<>>
  BY <1>c, TopFrame DEF Finish, At, OuterOf
<1>r. PICK r \in Routines : r = G(p).r
  BY <1>p, FrameFields
<1>w. PICK pc \in {"detached", "exchange"} : pc = IF Top(t).fn = "ctor" THEN "detached" ELSE "exchange"
  OBVIOUS
<1>f. PICK f \in FrameType : /\ Retop(p, f) /\ stack' \in [Threads -> Seq(FrameType)]
                             /\ f = [Top(t) EXCEPT !.pc = pc]
  BY <1>c, <1>p, <1>w, GotoStep DEF Finish, At, PCs
<1>k. /\ f.fn = G(p).fn /\ f.r = r /\ f.pc = pc /\ f.res = G(p).res /\ f.call = G(p).call
      /\ f.destruct = G(p).destruct /\ G(p).pc = "user" /\ G(p).fn # "runner" /\ r = G(p).r
  BY <1>c, <1>p, <1>r, <1>f, <1>w, NextFrame DEF PCs, Finish, At, ShapeInv
<1>l. /\ life[r] # "none" /\ ~finished[r] /\ waitFor[r] = Null /\ G(p).res = Null
      /\ mContinuation[r] # Invalid /\ (pc = "detached" <=> f.fn = "ctor")
  BY <1>c, <1>p, <1>k, <1>w DEF PlaceInv, Ending, RestInv
<1>a. /\ \A z \in Routines : owner[z] # r
      /\ finished' = [finished EXCEPT ![r] = TRUE]
      /\ current' = [current EXCEPT ![t] = mOuter[r]]
      /\ UNCHANGED <<blocked, queue, pending, fut, mOuter, mContinuation, mResult, mIsDetached,
                     mCaller, waitFor, life, owner, awaits>>
  BY <1>p, <1>r, <1>f, <1>k, <1>w DEF Finish, At, OuterOf, routineVars
<1>t. /\ pending \subseteq Routines
      /\ fut \in [Futures -> Routines \cup {Null, Invalid}]
      /\ waitFor \in [Routines -> Routines \cup Futures \cup {Ioc, Timer, Null}]
      /\ mCaller \in [Routines -> Routines \cup {Null, Invalid}]
      /\ mResult \in [Routines -> Routines \cup Threads \cup {Null, Invalid}]
      /\ mContinuation \in [Routines -> Routines \cup {Null, Invalid}]
      /\ finished \in [Routines -> BOOLEAN]
      /\ current \in [Threads -> Routines \cup {Null}]
  BY <1>c DEF TypeInv
<1>i. /\ OneEach'
      /\ \A y : (On(y)' <=> On(y)) /\ (Called(y)' <=> Called(y))
      /\ \A y \in Routines : Asleep(y)' <=> Asleep(y)
      /\ \A y \in Routines : y # r => (Parked(y)' <=> Parked(y))
      /\ On(r) /\ ~Asleep(r)
      /\ Parked(r) <=> G(p).pc \in {"install", "spin"}
      /\ Parked(r)' <=> f.pc \in {"install", "spin"}
  <2>1. OneEach /\ \A y \in Routines : y # f.r => life'[y] = life[y] /\ finished'[y] = finished[y]
    BY <1>c, <1>k, <1>a, <1>t DEF OnceInv
  <2>2. f.fn # "runner" /\ f.r = G(p).r /\ G(p).fn # "runner"
    BY <1>k
  <2>3. /\ OneEach'
        /\ \A y : (On(y)' <=> On(y)) /\ (Called(y)' <=> Called(y))
        /\ \A y \in Routines : Asleep(y)' <=> Asleep(y)
        /\ \A y \in Routines : y # f.r => (Parked(y)' <=> Parked(y))
        /\ On(f.r) /\ ~Asleep(f.r)
        /\ Parked(f.r) <=> G(p).pc \in {"install", "spin"}
        /\ Parked(f.r)' <=> f.pc \in {"install", "spin"}
    BY <1>f, <2>1, <2>2, InPlace
  <2> QED BY <1>k, <2>3
<1>n. /\ \A z \in Futures : fut[z] # r
      /\ ~In(r, queue) /\ r \notin pending /\ ~Called(r)
      /\ \A z \in Routines : mResult[z] # r /\ mContinuation[z] # r
      /\ \A s \in Slots : /\ G(s).pc = "call" => G(s).call # r
                          /\ G(s).res # r
                          /\ G(s).fn = "runner" => G(s).r # r
  BY <1>k, <1>l, NoTokens
<1>s. /\ Slots' = Slots /\ G(p)' = f
      /\ \A s \in Slots : s # p => G(s)' = G(s)
      /\ \A u \in Threads : Idle(u)' <=> Idle(u)
      /\ \A s \in Slots : G(s).r \in Routines
      /\ \A s \in Slots : ~Base(s) => Under(s) \in Slots /\ Under(s) # p
  BY <1>c, <1>p, <1>f, RetopFacts
<1>1. TypeInv'
  BY <1>c, <1>a, <1>f DEF TypeInv
<1>2. ShapeInv'
  <2>1. f.fn # "run" => f.res = Null
    BY <1>c, <1>k, <1>w, <1>l DEF ShapeInv
  <2>2. f.fn = "runner" <=> f.pc = "runner"
    BY <1>k
  <2> QED BY <1>c, <1>p, <1>f, <1>k, <1>w, <2>1, <2>2, ShapeInPlace
<1>3. CurrentInv'
  <2>1. mOuter[r] = UserBelow(p)
    BY <1>c, <1>p, <1>k DEF CurrentInv
  <2>2. /\ current'[Th(p)] = UserBelow(p)
        /\ \A u \in Threads : u # Th(p) => current'[u] = current[u]
    BY <1>p, <1>a, <1>t, <2>1
  <2>3. f.pc # "user" /\ mOuter' = mOuter
    BY <1>k, <1>w, <1>a
  <2> QED BY <1>c, <1>p, <1>f, <2>2, <2>3, CurrentInPlace
<1>4. OnceInv'
  BY <1>c, <1>i, <1>a DEF OnceInv
<1>5. PlaceInv'
  BY <1>c, <1>s, <1>k, <1>w, <1>l, <1>a, <1>t, Names DEF PlaceInv, OnceInv, OneEach, Ending
<1>6. RestInv'
  BY <1>c, <1>i, <1>l, <1>a, <1>t, Names DEF RestInv
<1>7. OwnerInv'
  BY <1>c, <1>s, <1>k, <1>w, <1>l, <1>a, <1>t, Names DEF OwnerInv
<1>8. ArmedInv'
  BY <1>c, <1>i, <1>n, <1>a, <1>t, Names DEF ArmedInv, Armed
<1>9. DisarmedInv'
  BY <1>c, <1>i, <1>n, <1>s, <1>k, <1>w, <1>l, <1>a, <1>t, Names DEF DisarmedInv, Disarmed
<1>10. ContinuationInv'
  BY <1>c, <1>i, <1>n, <1>s, <1>k, <1>w, <1>l, <1>a, <1>t, Names DEF ContinuationInv
<1>11. KnownInv'
  BY <1>c, <1>i, <1>n, <1>s, <1>k, <1>w, <1>l, <1>a, <1>t, Names DEF KnownInv
<1> QED BY <1>1, <1>2, <1>3, <1>4, <1>5, <1>6, <1>7, <1>8, <1>9, <1>10, <1>11 DEF CoreInv

\* Routine::await_suspend() disarms the Runner.
LEMMA TakeCallerStep ==
    ASSUME CoreInv, NEW t \in Threads, TakeCaller(t)
    PROVE  CoreInv'
<1>c. /\ TypeInv /\ ShapeInv /\ CurrentInv /\ OnceInv /\ PlaceInv /\ RestInv /\ OwnerInv
      /\ ArmedInv /\ DisarmedInv /\ ContinuationInv /\ KnownInv /\ Geometry
  BY SlotGeometry DEF CoreInv
<1>p. PICK p \in Slots : /\ p = <<t, Len(stack[t])>> /\ Th(p) = t /\ IsTop(p)
                         /\ G(p) = Top(t) /\ Top(t) \in FrameType /\ stack[t] # <<>>
  BY <1>c, TopFrame DEF TakeCaller, At, TakenCaller
<1>r. PICK r \in Routines : r = G(p).r
  BY <1>p, FrameFields
<1>f. PICK f \in FrameType : /\ Retop(p, f) /\ stack' \in [Threads -> Seq(FrameType)]
                             /\ f = [Top(t) EXCEPT !.pc = "result"]
  BY <1>c, <1>p, GotoStep DEF TakeCaller, At, PCs
<1>k. /\ f.fn = G(p).fn /\ f.r = r /\ f.pc = "result" /\ f.res = G(p).res /\ f.call = G(p).call
      /\ f.destruct = G(p).destruct /\ G(p).pc = "take" /\ G(p).fn # "runner" /\ r = G(p).r
  BY <1>c, <1>p, <1>r, <1>f, NextFrame DEF PCs, TakeCaller, At, ShapeInv
<1>l. life[r] # "none" /\ ~finished[r] /\ waitFor[r] \in Routines
  BY <1>c, <1>k DEF PlaceInv, Ending
<1>a. /\ mCaller' = [mCaller EXCEPT ![r] = Null]
      /\ UNCHANGED <<blocked, queue, pending, fut, mOuter, mContinuation, mResult, mIsDetached,
                     waitFor, finished, life, owner, awaits, current>>
  BY <1>p, <1>r, <1>f, <1>k DEF TakeCaller, At, TakenCaller, routineVars
<1>i. /\ OneEach'
      /\ \A y : (On(y)' <=> On(y)) /\ (Called(y)' <=> Called(y))
      /\ \A y \in Routines : Asleep(y)' <=> Asleep(y)
      /\ \A y \in Routines : y # r => (Parked(y)' <=> Parked(y))
      /\ On(r) /\ ~Asleep(r)
      /\ Parked(r) <=> G(p).pc \in {"install", "spin"}
      /\ Parked(r)' <=> f.pc \in {"install", "spin"}
  BY <1>c, <1>k, <1>f, <1>a, InPlace DEF OnceInv
<1>n. /\ \A z \in Futures : fut[z] # r
      /\ ~In(r, queue) /\ r \notin pending /\ ~Called(r)
      /\ \A z \in Routines : mResult[z] # r /\ mContinuation[z] # r
      /\ \A s \in Slots : /\ G(s).pc = "call" => G(s).call # r
                          /\ G(s).res # r
                          /\ G(s).fn = "runner" => G(s).r # r
  BY <1>k, <1>l, NoTokens
<1>s. /\ Slots' = Slots /\ G(p)' = f
      /\ \A s \in Slots : s # p => G(s)' = G(s)
      /\ \A u \in Threads : Idle(u)' <=> Idle(u)
      /\ \A s \in Slots : G(s).r \in Routines
      /\ \A s \in Slots : ~Base(s) => Under(s) \in Slots /\ Under(s) # p
  BY <1>c, <1>p, <1>f, RetopFacts
<1>t. /\ pending \subseteq Routines
      /\ fut \in [Futures -> Routines \cup {Null, Invalid}]
      /\ waitFor \in [Routines -> Routines \cup Futures \cup {Ioc, Timer, Null}]
      /\ mCaller \in [Routines -> Routines \cup {Null, Invalid}]
      /\ mResult \in [Routines -> Routines \cup Threads \cup {Null, Invalid}]
      /\ mContinuation \in [Routines -> Routines \cup {Null, Invalid}]
  BY <1>c DEF TypeInv
<1>1. TypeInv'
  BY <1>c, <1>a, <1>f DEF TypeInv
<1>2. ShapeInv'
  <2>1. f.fn # "run" => f.res = Null
    BY <1>c, <1>k, <1>l DEF ShapeInv
  <2>2. f.fn = "runner" <=> f.pc = "runner"
    BY <1>k
  <2> QED BY <1>c, <1>p, <1>f, <1>k, <2>1, <2>2, ShapeInPlace
<1>3. CurrentInv'
  <2>1. current[Th(p)] = UserBelow(p)
    BY <1>c, <1>p, <1>k DEF CurrentInv
  <2> QED BY <1>c, <1>p, <1>f, <1>k, <1>a, <2>1, CurrentInPlace
<1>4. OnceInv'
  BY <1>c, <1>i, <1>a DEF OnceInv
<1>5. PlaceInv'
  BY <1>c, <1>s, <1>k, <1>l, <1>a, <1>t, Names DEF PlaceInv, OnceInv, OneEach, Ending
<1>6. RestInv'
  BY <1>c, <1>i, <1>l, <1>a, <1>t, Names DEF RestInv
<1>7. OwnerInv'
  BY <1>c, <1>s, <1>k, <1>l, <1>a, <1>t, Names DEF OwnerInv
<1>8. ArmedInv'
  BY <1>c, <1>i, <1>n, <1>a, <1>t, Names DEF ArmedInv, Armed
<1>9. DisarmedInv'
  BY <1>c, <1>i, <1>n, <1>s, <1>k, <1>l, <1>a, <1>t, Names DEF DisarmedInv, Disarmed
<1>10. ContinuationInv'
  BY <1>c, <1>i, <1>n, <1>s, <1>k, <1>l, <1>a, <1>t, Names DEF ContinuationInv
<1>11. KnownInv'
  BY <1>c, <1>i, <1>n, <1>s, <1>k, <1>l, <1>a, <1>t, Names DEF KnownInv
<1> QED BY <1>1, <1>2, <1>3, <1>4, <1>5, <1>6, <1>7, <1>8, <1>9, <1>10, <1>11 DEF CoreInv

\* await_suspend() returns FALSE and the coroutine goes on at once.
LEMMA ResumedStep ==
    ASSUME CoreInv, NEW t \in Threads, NotSuspended(t),
           At(t, "suspend") \/ At(t, "result") \/ (At(t, "spin") /\ mCaller[Top(t).r] = Invalid),
           UNCHANGED <<current, blocked, queue, pending, fut, routineVars>>
    PROVE  CoreInv'
<1>c. /\ TypeInv /\ ShapeInv /\ CurrentInv /\ OnceInv /\ PlaceInv /\ RestInv /\ OwnerInv
      /\ ArmedInv /\ DisarmedInv /\ ContinuationInv /\ KnownInv /\ Geometry
  BY SlotGeometry DEF CoreInv
<1>p. PICK p \in Slots : /\ p = <<t, Len(stack[t])>> /\ Th(p) = t /\ IsTop(p)
                         /\ G(p) = Top(t) /\ Top(t) \in FrameType /\ stack[t] # <<>>
  BY <1>c, TopFrame DEF At
<1>r. PICK r \in Routines : r = G(p).r
  BY <1>p, FrameFields
<1>w. PICK fn \in {"run", "ctorLoop"} : fn = IF Top(t).fn = "run" THEN "run" ELSE "ctorLoop"
  OBVIOUS
<1>v. PICK f \in FrameType : /\ f = Frame(fn, r, "enter") /\ f.fn = fn /\ f.r = r /\ f.pc = "enter"
                             /\ f.res = Null /\ f.call = Null /\ ~f.destruct
  <2>1. PICK pc \in PCs : pc = "enter"
    BY DEF PCs
  <2> QED BY <1>w, <2>1, NewFrame
<1>f. Retop(p, f) /\ stack' \in [Threads -> Seq(FrameType)]
  BY <1>c, <1>p, <1>r, <1>w, <1>v, ReplaceStep DEF NotSuspended
<1>k. /\ f.fn = G(p).fn \/ {f.fn, G(p).fn} \subseteq Ctors
      /\ f.fn # "runner" /\ f.r = r /\ f.pc = "enter" /\ f.res = Null /\ f.call = Null /\ ~f.destruct
      /\ G(p).pc \in {"suspend", "result", "spin"} /\ G(p).fn # "runner" /\ r = G(p).r
      /\ G(p).pc = "spin" => mCaller[r] = Invalid
  <2>1. G(p).pc \in {"suspend", "result", "spin"} /\ G(p).fn # "runner"
    BY <1>c, <1>p DEF At, ShapeInv
  <2> QED BY <1>p, <1>r, <1>w, <1>v, <2>1, FrameFields DEF At, Ctors
<1>l. life[r] # "none" /\ ~finished[r] /\ G(p).res = Null
  BY <1>c, <1>k DEF PlaceInv, Ending
<1>a. /\ UNCHANGED <<blocked, queue, pending, fut, mOuter, mContinuation, mResult, mIsDetached,
                     mCaller, waitFor, finished, life, owner, awaits, current>>
  BY <1>p, <1>r, <1>f, <1>k DEF At, routineVars
<1>i. /\ OneEach'
      /\ \A y : (On(y)' <=> On(y)) /\ (Called(y)' <=> Called(y))
      /\ \A y \in Routines : Asleep(y)' <=> Asleep(y)
      /\ \A y \in Routines : y # r => (Parked(y)' <=> Parked(y))
      /\ On(r) /\ ~Asleep(r)
      /\ Parked(r) <=> G(p).pc \in {"install", "spin"}
      /\ Parked(r)' <=> f.pc \in {"install", "spin"}
  BY <1>c, <1>k, <1>f, <1>a, InPlace DEF OnceInv
<1>n. /\ \A z \in Futures : fut[z] # r
      /\ ~In(r, queue) /\ r \notin pending /\ ~Called(r)
      /\ \A z \in Routines : mResult[z] # r /\ mContinuation[z] # r
      /\ \A s \in Slots : /\ G(s).pc = "call" => G(s).call # r
                          /\ G(s).res # r
                          /\ G(s).fn = "runner" => G(s).r # r
  BY <1>k, <1>l, NoTokens
<1>s. /\ Slots' = Slots /\ G(p)' = f
      /\ \A s \in Slots : s # p => G(s)' = G(s)
      /\ \A u \in Threads : Idle(u)' <=> Idle(u)
      /\ \A s \in Slots : G(s).r \in Routines
      /\ \A s \in Slots : ~Base(s) => Under(s) \in Slots /\ Under(s) # p
  BY <1>c, <1>p, <1>f, RetopFacts
<1>t. /\ pending \subseteq Routines
      /\ fut \in [Futures -> Routines \cup {Null, Invalid}]
      /\ waitFor \in [Routines -> Routines \cup Futures \cup {Ioc, Timer, Null}]
      /\ mCaller \in [Routines -> Routines \cup {Null, Invalid}]
      /\ mResult \in [Routines -> Routines \cup Threads \cup {Null, Invalid}]
      /\ mContinuation \in [Routines -> Routines \cup {Null, Invalid}]
  BY <1>c DEF TypeInv
<1>1. TypeInv'
  BY <1>c, <1>a, <1>f DEF TypeInv
<1>2. ShapeInv'
  <2>1. f.fn # "run" => f.res = Null
    BY <1>c, <1>k, <1>l DEF ShapeInv
  <2>2. f.fn = "runner" <=> f.pc = "runner"
    BY <1>k
  <2> QED BY <1>c, <1>p, <1>f, <1>k, <2>1, <2>2, ShapeInPlace
<1>3. CurrentInv'
  <2>1. current[Th(p)] = UserBelow(p)
    BY <1>c, <1>p, <1>k DEF CurrentInv
  <2> QED BY <1>c, <1>p, <1>f, <1>k, <1>a, <2>1, CurrentInPlace
<1>4. OnceInv'
  BY <1>c, <1>i, <1>a DEF OnceInv
<1>5. PlaceInv'
  BY <1>c, <1>s, <1>k, <1>l, <1>a, <1>t, Names DEF PlaceInv, OnceInv, OneEach, Ending
<1>6. RestInv'
  BY <1>c, <1>i, <1>l, <1>a, <1>t, Names DEF RestInv
<1>7. OwnerInv'
  BY <1>c, <1>s, <1>k, <1>l, <1>a, <1>t, Names DEF OwnerInv
<1>8. ArmedInv'
  BY <1>c, <1>i, <1>n, <1>a, <1>t, Names DEF ArmedInv, Armed
<1>9. DisarmedInv'
  BY <1>c, <1>i, <1>n, <1>s, <1>k, <1>l, <1>a, <1>t, Names DEF DisarmedInv, Disarmed
<1>10. ContinuationInv'
  BY <1>c, <1>i, <1>n, <1>s, <1>k, <1>l, <1>a, <1>t, Names DEF ContinuationInv
<1>11. KnownInv'
  BY <1>c, <1>i, <1>n, <1>s, <1>k, <1>l, <1>a, <1>t, Names DEF KnownInv
<1> QED BY <1>1, <1>2, <1>3, <1>4, <1>5, <1>6, <1>7, <1>8, <1>9, <1>10, <1>11 DEF CoreInv

\* The disarmed Runner is registered with the result.
LEMMA SuspendResultStep ==
    ASSUME CoreInv, NEW t \in Threads, At(t, "result"), Goto(t, "install"),
           mResult[waitFor[Top(t).r]] = Null,
           mResult' = [mResult EXCEPT ![waitFor[Top(t).r]] = Top(t).r],
           UNCHANGED <<current, blocked, queue, pending, fut, mOuter, mContinuation, mIsDetached,
                       mCaller, waitFor, finished, life, owner, awaits>>
    PROVE  CoreInv'
<1>c. /\ TypeInv /\ ShapeInv /\ CurrentInv /\ OnceInv /\ PlaceInv /\ RestInv /\ OwnerInv
      /\ ArmedInv /\ DisarmedInv /\ ContinuationInv /\ KnownInv /\ Geometry
  BY SlotGeometry DEF CoreInv
<1>p. PICK p \in Slots : /\ p = <<t, Len(stack[t])>> /\ Th(p) = t /\ IsTop(p)
                         /\ G(p) = Top(t) /\ Top(t) \in FrameType /\ stack[t] # <<>>
  BY <1>c, TopFrame DEF At
<1>r. PICK r \in Routines : r = G(p).r
  BY <1>p, FrameFields
<1>f. PICK f \in FrameType : /\ Retop(p, f) /\ stack' \in [Threads -> Seq(FrameType)]
                             /\ f = [Top(t) EXCEPT !.pc = "install"]
  BY <1>c, <1>p, GotoStep DEF At, PCs
<1>k. /\ f.fn = G(p).fn /\ f.r = r /\ f.pc = "install" /\ f.res = G(p).res /\ f.call = G(p).call
      /\ f.destruct = G(p).destruct /\ G(p).pc = "result" /\ G(p).fn # "runner" /\ r = G(p).r
  BY <1>c, <1>p, <1>r, <1>f, NextFrame DEF PCs, At, ShapeInv
<1>x. PICK x : x = waitFor[r]
  OBVIOUS
<1>l. life[r] # "none" /\ ~finished[r] /\ waitFor[r] \in Routines /\ mCaller[r] = Null
  BY <1>c, <1>k DEF PlaceInv, Ending
<1>a. /\ mResult' = [mResult EXCEPT ![x] = r]
      /\ mResult[x] = Null
      /\ x = waitFor[r]
      /\ UNCHANGED <<blocked, queue, pending, fut, mOuter, mContinuation, mIsDetached, mCaller,
                     waitFor, finished, life, owner, awaits, current>>
  BY <1>p, <1>r, <1>f, <1>k, <1>x DEF At, routineVars
<1>i. /\ OneEach'
      /\ \A y : (On(y)' <=> On(y)) /\ (Called(y)' <=> Called(y))
      /\ \A y \in Routines : Asleep(y)' <=> Asleep(y)
      /\ \A y \in Routines : y # r => (Parked(y)' <=> Parked(y))
      /\ On(r) /\ ~Asleep(r)
      /\ Parked(r) <=> G(p).pc \in {"install", "spin"}
      /\ Parked(r)' <=> f.pc \in {"install", "spin"}
  BY <1>c, <1>k, <1>f, <1>a, InPlace DEF OnceInv
<1>n. /\ \A z \in Futures : fut[z] # r
      /\ ~In(r, queue) /\ r \notin pending /\ ~Called(r)
      /\ \A z \in Routines : mResult[z] # r /\ mContinuation[z] # r
      /\ \A s \in Slots : /\ G(s).pc = "call" => G(s).call # r
                          /\ G(s).res # r
                          /\ G(s).fn = "runner" => G(s).r # r
  BY <1>k, <1>l, NoTokens
<1>s. /\ Slots' = Slots /\ G(p)' = f
      /\ \A s \in Slots : s # p => G(s)' = G(s)
      /\ \A u \in Threads : Idle(u)' <=> Idle(u)
      /\ \A s \in Slots : G(s).r \in Routines
      /\ \A s \in Slots : ~Base(s) => Under(s) \in Slots /\ Under(s) # p
  BY <1>c, <1>p, <1>f, RetopFacts
<1>t. /\ pending \subseteq Routines
      /\ fut \in [Futures -> Routines \cup {Null, Invalid}]
      /\ waitFor \in [Routines -> Routines \cup Futures \cup {Ioc, Timer, Null}]
      /\ mCaller \in [Routines -> Routines \cup {Null, Invalid}]
      /\ mResult \in [Routines -> Routines \cup Threads \cup {Null, Invalid}]
      /\ mContinuation \in [Routines -> Routines \cup {Null, Invalid}]
  BY <1>c DEF TypeInv
<1>1. TypeInv'
  <2>1. mResult' \in [Routines -> Routines \cup Threads \cup {Null, Invalid}]
    BY <1>t, <1>l, <1>a
  <2> QED BY <1>c, <1>a, <1>f, <2>1 DEF TypeInv
<1>2. ShapeInv'
  <2>1. f.fn # "run" => f.res = Null
    BY <1>c, <1>k, <1>l DEF ShapeInv
  <2>2. f.fn = "runner" <=> f.pc = "runner"
    BY <1>k
  <2> QED BY <1>c, <1>p, <1>f, <1>k, <2>1, <2>2, ShapeInPlace
<1>3. CurrentInv'
  <2>1. current[Th(p)] = UserBelow(p)
    BY <1>c, <1>p, <1>k DEF CurrentInv
  <2> QED BY <1>c, <1>p, <1>f, <1>k, <1>a, <2>1, CurrentInPlace
<1>4. OnceInv'
  BY <1>c, <1>i, <1>a DEF OnceInv
<1>5. PlaceInv'
  BY <1>c, <1>s, <1>k, <1>l, <1>a, <1>t, Names DEF PlaceInv, OnceInv, OneEach, Ending
<1>6. RestInv'
  BY <1>c, <1>i, <1>l, <1>a, <1>t, Names DEF RestInv
<1>7. OwnerInv'
  BY <1>c, <1>s, <1>k, <1>l, <1>a, <1>t, Names DEF OwnerInv
<1>8. ArmedInv'
  BY <1>c, <1>i, <1>n, <1>a, <1>t, Names DEF ArmedInv, Armed
<1>9. DisarmedInv'
  BY <1>c, <1>i, <1>n, <1>s, <1>k, <1>l, <1>a, <1>t, Names DEF DisarmedInv, Disarmed
<1>10. ContinuationInv'
  BY <1>c, <1>i, <1>n, <1>s, <1>k, <1>l, <1>a, <1>t, Names DEF ContinuationInv
<1>11. KnownInv'
  BY <1>c, <1>i, <1>n, <1>s, <1>k, <1>l, <1>a, <1>t, Names DEF KnownInv
<1> QED BY <1>1, <1>2, <1>3, <1>4, <1>5, <1>6, <1>7, <1>8, <1>9, <1>10, <1>11 DEF CoreInv

\* resume() switches to the coroutine.
LEMMA EnterStep ==
    ASSUME CoreInv, NEW t \in Threads, Enter(t)
    PROVE  CoreInv'
<1>c. /\ TypeInv /\ ShapeInv /\ CurrentInv /\ OnceInv /\ PlaceInv /\ RestInv /\ OwnerInv
      /\ ArmedInv /\ DisarmedInv /\ ContinuationInv /\ KnownInv /\ Geometry
  BY SlotGeometry DEF CoreInv
<1>p. PICK p \in Slots : /\ p = <<t, Len(stack[t])>> /\ Th(p) = t /\ IsTop(p)
                         /\ G(p) = Top(t) /\ Top(t) \in FrameType /\ stack[t] # <<>>
  BY <1>c, TopFrame DEF Enter, At
<1>r. PICK r \in Routines : r = G(p).r
  BY <1>p, FrameFields
<1>f. PICK f \in FrameType : /\ Retop(p, f) /\ stack' \in [Threads -> Seq(FrameType)]
                             /\ f = [Top(t) EXCEPT !.pc = "user"]
  BY <1>c, <1>p, GotoStep DEF Enter, At, PCs
<1>k. /\ f.fn = G(p).fn /\ f.r = r /\ f.pc = "user" /\ f.res = G(p).res /\ f.call = G(p).call
      /\ f.destruct = G(p).destruct /\ G(p).pc = "enter" /\ G(p).fn # "runner" /\ r = G(p).r
  BY <1>c, <1>p, <1>r, <1>f, NextFrame DEF PCs, Enter, At, ShapeInv
<1>l. life[r] # "none" /\ ~finished[r]
  BY <1>c, <1>k DEF PlaceInv, Ending
<1>a. /\ mOuter' = [mOuter EXCEPT ![r] = current[t]]
      /\ current' = [current EXCEPT ![t] = r]
      /\ waitFor' = [waitFor EXCEPT ![r] = Null]
      /\ UNCHANGED <<blocked, queue, pending, fut, mContinuation, mResult, mIsDetached, mCaller,
                     finished, life, owner, awaits>>
  BY <1>p, <1>r, <1>f, <1>k DEF Enter, At, routineVars
<1>i. /\ OneEach'
      /\ \A y : (On(y)' <=> On(y)) /\ (Called(y)' <=> Called(y))
      /\ \A y \in Routines : Asleep(y)' <=> Asleep(y)
      /\ \A y \in Routines : y # r => (Parked(y)' <=> Parked(y))
      /\ On(r) /\ ~Asleep(r)
      /\ Parked(r) <=> G(p).pc \in {"install", "spin"}
      /\ Parked(r)' <=> f.pc \in {"install", "spin"}
  BY <1>c, <1>k, <1>f, <1>a, InPlace DEF OnceInv
<1>n. /\ \A z \in Futures : fut[z] # r
      /\ ~In(r, queue) /\ r \notin pending /\ ~Called(r)
      /\ \A z \in Routines : mResult[z] # r /\ mContinuation[z] # r
      /\ \A s \in Slots : /\ G(s).pc = "call" => G(s).call # r
                          /\ G(s).res # r
                          /\ G(s).fn = "runner" => G(s).r # r
  BY <1>k, <1>l, NoTokens
<1>s. /\ Slots' = Slots /\ G(p)' = f
      /\ \A s \in Slots : s # p => G(s)' = G(s)
      /\ \A u \in Threads : Idle(u)' <=> Idle(u)
      /\ \A s \in Slots : G(s).r \in Routines
      /\ \A s \in Slots : ~Base(s) => Under(s) \in Slots /\ Under(s) # p
  BY <1>c, <1>p, <1>f, RetopFacts
<1>t. /\ pending \subseteq Routines
      /\ fut \in [Futures -> Routines \cup {Null, Invalid}]
      /\ waitFor \in [Routines -> Routines \cup Futures \cup {Ioc, Timer, Null}]
      /\ mCaller \in [Routines -> Routines \cup {Null, Invalid}]
      /\ mResult \in [Routines -> Routines \cup Threads \cup {Null, Invalid}]
      /\ mContinuation \in [Routines -> Routines \cup {Null, Invalid}]
      /\ mOuter \in [Routines -> Routines \cup {Null}]
      /\ current \in [Threads -> Routines \cup {Null}]
  BY <1>c DEF TypeInv
<1>1. TypeInv'
  BY <1>c, <1>a, <1>f DEF TypeInv
<1>2. ShapeInv'
  <2>1. f.fn # "run" => f.res = Null
    BY <1>c, <1>k, <1>l DEF ShapeInv
  <2>2. f.fn = "runner" <=> f.pc = "runner"
    BY <1>k
  <2> QED BY <1>c, <1>p, <1>f, <1>k, <2>1, <2>2, ShapeInPlace
<1>3. CurrentInv'
  <2>1. current[t] = UserBelow(p)
    BY <1>c, <1>p, <1>k DEF CurrentInv
  <2>2. \A s \in Slots : UserBelow(s)' = UserBelow(s)
    BY <1>s DEF UserBelow
  <2>3. \A s \in Slots : s # p /\ G(s).pc = "user" => G(s).r # r
    BY <1>c, <1>k DEF OnceInv, OneEach, ShapeInv
  <2>4. \A s \in Slots : s # p /\ IsTop(s) => Th(s) # t /\ Th(s) \in Threads
    BY <1>c, <1>p DEF Geometry
  <2>5. ~Idle(t) /\ \A s \in Slots : IsTop(s)' <=> IsTop(s)
    BY <1>c, <1>p, <1>f DEF Geometry, Retop
  <2>6. \A u \in Threads : Idle(u)' => current'[u] = Null
    BY <1>c, <1>s, <1>a, <1>t, <2>5 DEF CurrentInv
  <2>7. ASSUME NEW s \in Slots, IsTop(s)
        PROVE  current'[Th(s)] = IF G(s)'.pc = "user" THEN G(s)'.r ELSE UserBelow(s)'
    BY <1>c, <1>p, <1>s, <1>k, <1>a, <1>t, <2>2, <2>4, <2>7 DEF CurrentInv
  <2>8. ASSUME NEW s \in Slots, G(s)'.pc = "user"
        PROVE  mOuter'[G(s)'.r] = UserBelow(s)'
    BY <1>c, <1>s, <1>k, <1>a, <1>t, <2>1, <2>2, <2>3, <2>8 DEF CurrentInv
  <2> QED BY <1>s, <2>5, <2>6, <2>7, <2>8 DEF CurrentInv
<1>4. OnceInv'
  BY <1>c, <1>i, <1>a DEF OnceInv
<1>5. PlaceInv'
  BY <1>c, <1>s, <1>k, <1>l, <1>a, <1>t, Names DEF PlaceInv, OnceInv, OneEach, Ending
<1>6. RestInv'
  BY <1>c, <1>i, <1>l, <1>a, <1>t, Names DEF RestInv
<1>7. OwnerInv'
  BY <1>c, <1>s, <1>k, <1>l, <1>a, <1>t, Names DEF OwnerInv
<1>8. ArmedInv'
  BY <1>c, <1>i, <1>n, <1>a, <1>t, Names DEF ArmedInv, Armed
<1>9. DisarmedInv'
  BY <1>c, <1>i, <1>n, <1>s, <1>k, <1>l, <1>a, <1>t, Names DEF DisarmedInv, Disarmed
<1>10. ContinuationInv'
  BY <1>c, <1>i, <1>n, <1>s, <1>k, <1>l, <1>a, <1>t, Names DEF ContinuationInv
<1>11. KnownInv'
  BY <1>c, <1>i, <1>n, <1>s, <1>k, <1>l, <1>a, <1>t, Names DEF KnownInv
<1> QED BY <1>1, <1>2, <1>3, <1>4, <1>5, <1>6, <1>7, <1>8, <1>9, <1>10, <1>11 DEF CoreInv

\* resume() takes the continuation of a coroutine that has ended.
LEMMA ExchangeContinuationStep ==
    ASSUME CoreInv, NEW t \in Threads, ExchangeContinuation(t)
    PROVE  CoreInv'
<1>c. /\ TypeInv /\ ShapeInv /\ CurrentInv /\ OnceInv /\ PlaceInv /\ RestInv /\ OwnerInv
      /\ ArmedInv /\ DisarmedInv /\ ContinuationInv /\ KnownInv /\ Geometry
  BY SlotGeometry DEF CoreInv
<1>p. PICK p \in Slots : /\ p = <<t, Len(stack[t])>> /\ Th(p) = t /\ IsTop(p)
                         /\ G(p) = Top(t) /\ Top(t) \in FrameType /\ stack[t] # <<>>
  BY <1>c, TopFrame DEF ExchangeContinuation, At
<1>r. PICK r \in Routines : r = G(p).r
  BY <1>p, FrameFields
<1>u. /\ G(p).pc = "exchange" /\ G(p).fn \in {"ctor", "ctorLoop", "run"} /\ G(p).fn # "runner"
      /\ G(p).pc \notin {"install", "spin"}
      /\ mContinuation[r] \in Routines \cup {Null} /\ (G(p).fn # "run" => mContinuation[r] = Null)
  <2>1. G(p).pc = "exchange" /\ G(p).fn \in {"ctor", "ctorLoop", "run"} /\ G(p).fn # "runner"
    BY <1>c, <1>p, FrameFields DEF ExchangeContinuation, At, ShapeInv
  <2>2. mContinuation[r] \in Routines \cup {Null}
    BY <1>c, <1>r, <2>1 DEF PlaceInv, TypeInv
  <2> QED BY <1>r, <2>1, <2>2, NotAwaited DEF Ctors
<1>v. PICK c \in Routines \cup {Null} : c = mContinuation[r]
  BY <1>u
<1>x. PICK f : f = [Frame(G(p).fn, r, "detached") EXCEPT !.res = c]
  OBVIOUS
<1>k. /\ f.fn = G(p).fn /\ f.r = r /\ f.pc = "detached" /\ f.res = c /\ f.call = Null /\ ~f.destruct
      /\ G(p).pc = "exchange" /\ G(p).fn # "runner" /\ r = G(p).r
      /\ f \in FrameType
  BY <1>r, <1>u, <1>x DEF Frame, FrameType, PCs
<1>f. Retop(p, f) /\ stack' \in [Threads -> Seq(FrameType)]
  BY <1>c, <1>p, <1>r, <1>v, <1>x, <1>k, ReplaceStep DEF ExchangeContinuation, TakenContinuation
<1>l. life[r] # "none" /\ finished[r] /\ G(p).res = Null /\ (f.fn # "run" => c = Null)
  BY <1>c, <1>k, <1>u, <1>v DEF PlaceInv, Ending
<1>a. /\ mContinuation' = [mContinuation EXCEPT ![r] = Invalid]
      /\ mContinuation[r] = c
      /\ UNCHANGED <<blocked, queue, pending, fut, mOuter, mResult, mIsDetached, mCaller, waitFor,
                     finished, life, owner, awaits, current>>
  BY <1>p, <1>r, <1>f, <1>k, <1>v DEF ExchangeContinuation, At, routineVars
<1>i. /\ OneEach'
      /\ \A y : (On(y)' <=> On(y)) /\ (Called(y)' <=> Called(y))
      /\ \A y \in Routines : Asleep(y)' <=> Asleep(y)
      /\ \A y \in Routines : y # r => (Parked(y)' <=> Parked(y))
      /\ On(r) /\ ~Asleep(r)
      /\ Parked(r) <=> G(p).pc \in {"install", "spin"}
      /\ Parked(r)' <=> f.pc \in {"install", "spin"}
  BY <1>c, <1>k, <1>f, <1>a, InPlace DEF OnceInv
<1>n. /\ \A z \in Futures : fut[z] # r
      /\ ~In(r, queue) /\ r \notin pending /\ ~Called(r)
      /\ \A z \in Routines : mResult[z] # r /\ mContinuation[z] # r
      /\ \A s \in Slots : /\ G(s).pc = "call" => G(s).call # r
                          /\ G(s).res # r
                          /\ G(s).fn = "runner" => G(s).r # r
  BY <1>k, <1>l, NoTokens
<1>s. /\ Slots' = Slots /\ G(p)' = f
      /\ \A s \in Slots : s # p => G(s)' = G(s)
      /\ \A u \in Threads : Idle(u)' <=> Idle(u)
      /\ \A s \in Slots : G(s).r \in Routines
      /\ \A s \in Slots : ~Base(s) => Under(s) \in Slots /\ Under(s) # p
  BY <1>c, <1>p, <1>f, RetopFacts
<1>t. /\ pending \subseteq Routines
      /\ fut \in [Futures -> Routines \cup {Null, Invalid}]
      /\ waitFor \in [Routines -> Routines \cup Futures \cup {Ioc, Timer, Null}]
      /\ mCaller \in [Routines -> Routines \cup {Null, Invalid}]
      /\ mResult \in [Routines -> Routines \cup Threads \cup {Null, Invalid}]
      /\ mContinuation \in [Routines -> Routines \cup {Null, Invalid}]
  BY <1>c DEF TypeInv
<1>1. TypeInv'
  BY <1>c, <1>a, <1>f DEF TypeInv
<1>2. ShapeInv'
  BY <1>c, <1>p, <1>f, <1>k, <1>l, ShapeInPlace DEF ShapeInv
<1>3. CurrentInv'
  <2>1. current[Th(p)] = UserBelow(p)
    BY <1>c, <1>p, <1>k DEF CurrentInv
  <2> QED BY <1>c, <1>p, <1>f, <1>k, <1>a, <2>1, CurrentInPlace
<1>4. OnceInv'
  BY <1>c, <1>i, <1>a DEF OnceInv
<1>5. PlaceInv'
  BY <1>c, <1>s, <1>k, <1>l, <1>a, <1>t, Names DEF PlaceInv, OnceInv, OneEach, Ending
<1>6. RestInv'
  BY <1>c, <1>i, <1>l, <1>a, <1>t, Names DEF RestInv
<1>7. OwnerInv'
  BY <1>c, <1>s, <1>k, <1>l, <1>a, <1>t, Names DEF OwnerInv
<1>8. ArmedInv'
  BY <1>c, <1>i, <1>n, <1>a, <1>t, Names DEF ArmedInv, Armed
<1>9. DisarmedInv'
  BY <1>c, <1>i, <1>n, <1>s, <1>k, <1>l, <1>a, <1>t, Names DEF DisarmedInv, Disarmed
<1>10. ContinuationInv'
  BY <1>c, <1>i, <1>n, <1>s, <1>k, <1>l, <1>a, <1>t, Names DEF ContinuationInv
<1>11. KnownInv'
  BY <1>c, <1>i, <1>n, <1>s, <1>k, <1>l, <1>a, <1>t, Names DEF KnownInv
<1> QED BY <1>1, <1>2, <1>3, <1>4, <1>5, <1>6, <1>7, <1>8, <1>9, <1>10, <1>11 DEF CoreInv

\* The end of a coroutine that was never resumed: no continuation can be installed any more.
LEMMA DisableContinuationStep ==
    ASSUME CoreInv, NEW t \in Threads, DisableContinuation(t)
    PROVE  CoreInv'
<1>c. /\ TypeInv /\ ShapeInv /\ CurrentInv /\ OnceInv /\ PlaceInv /\ RestInv /\ OwnerInv
      /\ ArmedInv /\ DisarmedInv /\ ContinuationInv /\ KnownInv /\ Geometry
  BY SlotGeometry DEF CoreInv
<1>p. PICK p \in Slots : /\ p = <<t, Len(stack[t])>> /\ Th(p) = t /\ IsTop(p)
                         /\ G(p) = Top(t) /\ Top(t) \in FrameType /\ stack[t] # <<>>
  BY <1>c, TopFrame DEF DisableContinuation, At
<1>r. PICK r \in Routines : r = G(p).r
  BY <1>p, FrameFields
<1>f. PICK f \in FrameType : /\ Retop(p, f) /\ stack' \in [Threads -> Seq(FrameType)]
                             /\ f = [Top(t) EXCEPT !.pc = "set"]
  BY <1>c, <1>p, GotoStep DEF DisableContinuation, At, PCs
<1>k. /\ f.fn = G(p).fn /\ f.r = r /\ f.pc = "set" /\ f.res = G(p).res /\ f.call = G(p).call
      /\ f.destruct = G(p).destruct /\ G(p).pc = "disable" /\ G(p).fn # "runner" /\ r = G(p).r
  BY <1>c, <1>p, <1>r, <1>f, NextFrame DEF PCs, DisableContinuation, At, ShapeInv
<1>u. mContinuation[r] \in {Null, Invalid}
  <2>1. mContinuation[r] \notin Routines
    BY <1>c, <1>k, NotAwaited, Names, FrameFields, <1>p DEF PlaceInv, Ctors
  <2> QED BY <1>c, <2>1 DEF TypeInv
<1>l. life[r] # "none" /\ finished[r]
  BY <1>c, <1>k DEF PlaceInv, Ending
<1>a. /\ mContinuation' = [mContinuation EXCEPT ![r] = Invalid]
      /\ mContinuation[r] \in {Null, Invalid}
      /\ UNCHANGED <<blocked, queue, pending, fut, mOuter, mResult, mIsDetached, mCaller, waitFor,
                     finished, life, owner, awaits, current>>
  BY <1>p, <1>r, <1>f, <1>k, <1>u DEF DisableContinuation, At, routineVars
<1>i. /\ OneEach'
      /\ \A y : (On(y)' <=> On(y)) /\ (Called(y)' <=> Called(y))
      /\ \A y \in Routines : Asleep(y)' <=> Asleep(y)
      /\ \A y \in Routines : y # r => (Parked(y)' <=> Parked(y))
      /\ On(r) /\ ~Asleep(r)
      /\ Parked(r) <=> G(p).pc \in {"install", "spin"}
      /\ Parked(r)' <=> f.pc \in {"install", "spin"}
  BY <1>c, <1>k, <1>f, <1>a, InPlace DEF OnceInv
<1>n. /\ \A z \in Futures : fut[z] # r
      /\ ~In(r, queue) /\ r \notin pending /\ ~Called(r)
      /\ \A z \in Routines : mResult[z] # r /\ mContinuation[z] # r
      /\ \A s \in Slots : /\ G(s).pc = "call" => G(s).call # r
                          /\ G(s).res # r
                          /\ G(s).fn = "runner" => G(s).r # r
  BY <1>k, <1>l, NoTokens
<1>s. /\ Slots' = Slots /\ G(p)' = f
      /\ \A s \in Slots : s # p => G(s)' = G(s)
      /\ \A u \in Threads : Idle(u)' <=> Idle(u)
      /\ \A s \in Slots : G(s).r \in Routines
      /\ \A s \in Slots : ~Base(s) => Under(s) \in Slots /\ Under(s) # p
  BY <1>c, <1>p, <1>f, RetopFacts
<1>t. /\ pending \subseteq Routines
      /\ fut \in [Futures -> Routines \cup {Null, Invalid}]
      /\ waitFor \in [Routines -> Routines \cup Futures \cup {Ioc, Timer, Null}]
      /\ mCaller \in [Routines -> Routines \cup {Null, Invalid}]
      /\ mResult \in [Routines -> Routines \cup Threads \cup {Null, Invalid}]
      /\ mContinuation \in [Routines -> Routines \cup {Null, Invalid}]
  BY <1>c DEF TypeInv
<1>1. TypeInv'
  BY <1>c, <1>a, <1>f DEF TypeInv
<1>2. ShapeInv'
  <2>1. f.fn # "run" => f.res = Null
    BY <1>c, <1>k, <1>l DEF ShapeInv
  <2>2. f.fn = "runner" <=> f.pc = "runner"
    BY <1>k
  <2> QED BY <1>c, <1>p, <1>f, <1>k, <2>1, <2>2, ShapeInPlace
<1>3. CurrentInv'
  <2>1. current[Th(p)] = UserBelow(p)
    BY <1>c, <1>p, <1>k DEF CurrentInv
  <2> QED BY <1>c, <1>p, <1>f, <1>k, <1>a, <2>1, CurrentInPlace
<1>4. OnceInv'
  BY <1>c, <1>i, <1>a DEF OnceInv
<1>5. PlaceInv'
  BY <1>c, <1>s, <1>k, <1>l, <1>a, <1>t, Names DEF PlaceInv, OnceInv, OneEach, Ending
<1>6. RestInv'
  BY <1>c, <1>i, <1>l, <1>a, <1>t, Names DEF RestInv
<1>7. OwnerInv'
  BY <1>c, <1>s, <1>k, <1>l, <1>a, <1>t, Names DEF OwnerInv
<1>8. ArmedInv'
  BY <1>c, <1>i, <1>n, <1>a, <1>t, Names DEF ArmedInv, Armed
<1>9. DisarmedInv'
  BY <1>c, <1>i, <1>n, <1>s, <1>k, <1>l, <1>a, <1>t, Names DEF DisarmedInv, Disarmed
<1>10. ContinuationInv'
  BY <1>c, <1>i, <1>n, <1>s, <1>k, <1>l, <1>a, <1>t, Names DEF ContinuationInv
<1>11. KnownInv'
  BY <1>c, <1>i, <1>n, <1>s, <1>k, <1>l, <1>a, <1>t, Names DEF KnownInv
<1> QED BY <1>1, <1>2, <1>3, <1>4, <1>5, <1>6, <1>7, <1>8, <1>9, <1>10, <1>11 DEF CoreInv

\* ResultSetter asks whether the coroutine was detached.
LEMMA CheckDetachedStep ==
    ASSUME CoreInv, NEW t \in Threads, CheckDetached(t)
    PROVE  CoreInv'
<1>c. /\ TypeInv /\ ShapeInv /\ CurrentInv /\ OnceInv /\ PlaceInv /\ RestInv /\ OwnerInv
      /\ ArmedInv /\ DisarmedInv /\ ContinuationInv /\ KnownInv /\ Geometry
  BY SlotGeometry DEF CoreInv
<1>p. PICK p \in Slots : /\ p = <<t, Len(stack[t])>> /\ Th(p) = t /\ IsTop(p)
                         /\ G(p) = Top(t) /\ Top(t) \in FrameType /\ stack[t] # <<>>
  BY <1>c, TopFrame DEF CheckDetached, At
<1>r. PICK r \in Routines : r = G(p).r
  BY <1>p, FrameFields
<1>v. PICK d \in BOOLEAN : d = mIsDetached[r]
  BY <1>c DEF TypeInv
<1>x. PICK f : f = [Top(t) EXCEPT !.destruct = d, !.pc = "disable"]
  OBVIOUS
<1>k. /\ f.fn = G(p).fn /\ f.r = r /\ f.pc = "disable" /\ f.res = G(p).res /\ f.call = G(p).call
      /\ f.destruct = d /\ G(p).pc = "detached" /\ G(p).fn # "runner" /\ r = G(p).r /\ f \in FrameType
  <2>1. G(p).pc = "detached" /\ G(p).fn # "runner"
    BY <1>c, <1>p DEF CheckDetached, At, ShapeInv
  <2> QED BY <1>p, <1>r, <1>v, <1>x, <2>1 DEF FrameType, PCs
<1>f. Retop(p, f) /\ stack' \in [Threads -> Seq(FrameType)]
  BY <1>c, <1>p, <1>r, <1>v, <1>x, <1>k, ReplaceStep DEF CheckDetached, Destructs
<1>l. life[r] # "none" /\ finished[r] /\ (d => owner[r] = Null)
  BY <1>c, <1>k, <1>v DEF PlaceInv, Ending
<1>a. /\ mIsDetached' = [mIsDetached EXCEPT ![r] = TRUE]
      /\ UNCHANGED <<blocked, queue, pending, fut, mOuter, mContinuation, mResult, mCaller,
                     waitFor, finished, life, owner, awaits, current>>
  BY <1>p, <1>r, <1>f, <1>k DEF CheckDetached, At, routineVars
<1>i. /\ OneEach'
      /\ \A y : (On(y)' <=> On(y)) /\ (Called(y)' <=> Called(y))
      /\ \A y \in Routines : Asleep(y)' <=> Asleep(y)
      /\ \A y \in Routines : y # r => (Parked(y)' <=> Parked(y))
      /\ On(r) /\ ~Asleep(r)
      /\ Parked(r) <=> G(p).pc \in {"install", "spin"}
      /\ Parked(r)' <=> f.pc \in {"install", "spin"}
  BY <1>c, <1>k, <1>f, <1>a, InPlace DEF OnceInv
<1>n. /\ \A z \in Futures : fut[z] # r
      /\ ~In(r, queue) /\ r \notin pending /\ ~Called(r)
      /\ \A z \in Routines : mResult[z] # r /\ mContinuation[z] # r
      /\ \A s \in Slots : /\ G(s).pc = "call" => G(s).call # r
                          /\ G(s).res # r
                          /\ G(s).fn = "runner" => G(s).r # r
  BY <1>k, <1>l, NoTokens
<1>s. /\ Slots' = Slots /\ G(p)' = f
      /\ \A s \in Slots : s # p => G(s)' = G(s)
      /\ \A u \in Threads : Idle(u)' <=> Idle(u)
      /\ \A s \in Slots : G(s).r \in Routines
      /\ \A s \in Slots : ~Base(s) => Under(s) \in Slots /\ Under(s) # p
  BY <1>c, <1>p, <1>f, RetopFacts
<1>t. /\ pending \subseteq Routines
      /\ fut \in [Futures -> Routines \cup {Null, Invalid}]
      /\ waitFor \in [Routines -> Routines \cup Futures \cup {Ioc, Timer, Null}]
      /\ mCaller \in [Routines -> Routines \cup {Null, Invalid}]
      /\ mResult \in [Routines -> Routines \cup Threads \cup {Null, Invalid}]
      /\ mContinuation \in [Routines -> Routines \cup {Null, Invalid}]
      /\ mIsDetached \in [Routines -> BOOLEAN]
  BY <1>c DEF TypeInv
<1>1. TypeInv'
  BY <1>c, <1>a, <1>f DEF TypeInv
<1>2. ShapeInv'
  <2>1. f.fn # "run" => f.res = Null
    BY <1>c, <1>k, <1>l DEF ShapeInv
  <2>2. f.fn = "runner" <=> f.pc = "runner"
    BY <1>k
  <2> QED BY <1>c, <1>p, <1>f, <1>k, <2>1, <2>2, ShapeInPlace
<1>3. CurrentInv'
  <2>1. current[Th(p)] = UserBelow(p)
    BY <1>c, <1>p, <1>k DEF CurrentInv
  <2> QED BY <1>c, <1>p, <1>f, <1>k, <1>a, <2>1, CurrentInPlace
<1>4. OnceInv'
  BY <1>c, <1>i, <1>a DEF OnceInv
<1>5. PlaceInv'
  BY <1>c, <1>s, <1>k, <1>l, <1>a, <1>t, Names DEF PlaceInv, OnceInv, OneEach, Ending
<1>6. RestInv'
  BY <1>c, <1>i, <1>l, <1>a, <1>t, Names DEF RestInv
<1>7. OwnerInv'
  BY <1>c, <1>s, <1>k, <1>l, <1>a, <1>t, Names DEF OwnerInv
<1>8. ArmedInv'
  BY <1>c, <1>i, <1>n, <1>a, <1>t, Names DEF ArmedInv, Armed
<1>9. DisarmedInv'
  BY <1>c, <1>i, <1>n, <1>s, <1>k, <1>l, <1>a, <1>t, Names DEF DisarmedInv, Disarmed
<1>10. ContinuationInv'
  BY <1>c, <1>i, <1>n, <1>s, <1>k, <1>l, <1>a, <1>t, Names DEF ContinuationInv
<1>11. KnownInv'
  BY <1>c, <1>i, <1>n, <1>s, <1>k, <1>l, <1>a, <1>t, Names DEF KnownInv
<1> QED BY <1>1, <1>2, <1>3, <1>4, <1>5, <1>6, <1>7, <1>8, <1>9, <1>10, <1>11 DEF CoreInv

\* The exchange inside set_value() or set_exception().
LEMMA SetResultStep ==
    ASSUME CoreInv, NEW t \in Threads, SetResult(t)
    PROVE  CoreInv'
<1>c. /\ TypeInv /\ ShapeInv /\ CurrentInv /\ OnceInv /\ PlaceInv /\ RestInv /\ OwnerInv
      /\ ArmedInv /\ DisarmedInv /\ ContinuationInv /\ KnownInv /\ Geometry
  BY SlotGeometry DEF CoreInv
<1>p. PICK p \in Slots : /\ p = <<t, Len(stack[t])>> /\ Th(p) = t /\ IsTop(p)
                         /\ G(p) = Top(t) /\ Top(t) \in FrameType /\ stack[t] # <<>>
  BY <1>c, TopFrame DEF SetResult, At
<1>r. PICK r \in Routines : r = G(p).r
  BY <1>p, FrameFields
<1>u. G(p).pc = "set" /\ G(p).fn # "runner"
  BY <1>c, <1>p DEF SetResult, At, ShapeInv
<1>v. PICK k \in Routines \cup Threads \cup {Null} : k = mResult[r]
  BY <1>c, <1>r, <1>u DEF PlaceInv, TypeInv
<1>x. PICK f : f = [Top(t) EXCEPT !.call = k, !.pc = "call"]
  OBVIOUS
<1>k. /\ f.fn = G(p).fn /\ f.r = r /\ f.pc = "call" /\ f.res = G(p).res /\ f.call = k
      /\ f.destruct = G(p).destruct /\ G(p).pc = "set" /\ G(p).fn # "runner" /\ r = G(p).r
      /\ f \in FrameType
  BY <1>p, <1>r, <1>u, <1>x DEF FrameType, PCs
<1>f. Retop(p, f) /\ stack' \in [Threads -> Seq(FrameType)]
  BY <1>c, <1>p, <1>r, <1>v, <1>x, <1>k, ReplaceStep DEF SetResult
<1>z. k \in Routines => Disarmed(k, r) /\ G(p).fn = "run" /\ ~Called(k)
  <2> SUFFICES ASSUME k \in Routines PROVE Disarmed(k, r) /\ G(p).fn = "run" /\ ~Called(k)
    OBVIOUS
  <2>1. Disarmed(k, r)
    BY <1>c, <1>v DEF DisarmedInv
  <2>2. G(p).fn = "run"
    BY <1>p, <1>k, <1>v, NotAwaited, FrameFields DEF Ctors
  <2>3. ASSUME NEW s \in Slots, Call(s, k)
        PROVE  FALSE
    <3>1. ~Base(s) /\ G(Under(s)).r = r /\ G(Under(s)).pc = "return" /\ Under(s) \in Slots
      BY <1>c, <2>1, <2>3 DEF DisarmedInv, Disarmed, Call, Geometry
    <3> QED BY <1>c, <1>k, <3>1 DEF OnceInv, OneEach, ShapeInv
  <2> QED BY <2>1, <2>2, <2>3 DEF Called
<1>l. life[r] # "none" /\ finished[r] /\ mContinuation[r] = Invalid
  BY <1>c, <1>k DEF PlaceInv, Ending
<1>a. /\ mResult' = [mResult EXCEPT ![r] = Invalid]
      /\ k = mResult[r]
      /\ UNCHANGED <<blocked, queue, pending, fut, mOuter, mContinuation, mIsDetached, mCaller,
                     waitFor, finished, life, owner, awaits, current>>
  BY <1>p, <1>r, <1>f, <1>k, <1>v DEF SetResult, At, routineVars
<1>i. /\ OneEach'
      /\ \A y : (On(y)' <=> On(y)) /\ (Called(y)' <=> Called(y))
      /\ \A y \in Routines : Asleep(y)' <=> Asleep(y)
      /\ \A y \in Routines : y # r => (Parked(y)' <=> Parked(y))
      /\ On(r) /\ ~Asleep(r)
      /\ Parked(r) <=> G(p).pc \in {"install", "spin"}
      /\ Parked(r)' <=> f.pc \in {"install", "spin"}
  BY <1>c, <1>k, <1>f, <1>a, InPlace DEF OnceInv
<1>n. /\ \A z \in Futures : fut[z] # r
      /\ ~In(r, queue) /\ r \notin pending /\ ~Called(r)
      /\ \A z \in Routines : mResult[z] # r /\ mContinuation[z] # r
      /\ \A s \in Slots : /\ G(s).pc = "call" => G(s).call # r
                          /\ G(s).res # r
                          /\ G(s).fn = "runner" => G(s).r # r
  BY <1>k, <1>l, NoTokens
<1>s. /\ Slots' = Slots /\ G(p)' = f
      /\ \A s \in Slots : s # p => G(s)' = G(s)
      /\ \A u \in Threads : Idle(u)' <=> Idle(u)
      /\ \A s \in Slots : G(s).r \in Routines
      /\ \A s \in Slots : ~Base(s) => Under(s) \in Slots /\ Under(s) # p
  BY <1>c, <1>p, <1>f, RetopFacts
<1>t. /\ pending \subseteq Routines
      /\ fut \in [Futures -> Routines \cup {Null, Invalid}]
      /\ waitFor \in [Routines -> Routines \cup Futures \cup {Ioc, Timer, Null}]
      /\ mCaller \in [Routines -> Routines \cup {Null, Invalid}]
      /\ mResult \in [Routines -> Routines \cup Threads \cup {Null, Invalid}]
      /\ mContinuation \in [Routines -> Routines \cup {Null, Invalid}]
  BY <1>c DEF TypeInv
<1>1. TypeInv'
  BY <1>c, <1>a, <1>f DEF TypeInv
<1>2. ShapeInv'
  <2>1. f.fn # "run" => f.res = Null
    BY <1>c, <1>k, <1>l DEF ShapeInv
  <2>2. f.fn = "runner" <=> f.pc = "runner"
    BY <1>k
  <2> QED BY <1>c, <1>p, <1>f, <1>k, <2>1, <2>2, ShapeInPlace
<1>3. CurrentInv'
  <2>1. current[Th(p)] = UserBelow(p)
    BY <1>c, <1>p, <1>k DEF CurrentInv
  <2> QED BY <1>c, <1>p, <1>f, <1>k, <1>a, <2>1, CurrentInPlace
<1>4. OnceInv'
  BY <1>c, <1>i, <1>a DEF OnceInv
<1>5. PlaceInv'
  BY <1>c, <1>s, <1>k, <1>l, <1>a, <1>t, Names DEF PlaceInv, OnceInv, OneEach, Ending
<1>6. RestInv'
  BY <1>c, <1>i, <1>l, <1>a, <1>t, Names DEF RestInv
<1>7. OwnerInv'
  BY <1>c, <1>s, <1>k, <1>l, <1>a, <1>t, Names DEF OwnerInv
<1>8. ArmedInv'
  BY <1>c, <1>i, <1>n, <1>a, <1>t, Names DEF ArmedInv, Armed
<1>9. DisarmedInv'
  BY <1>c, <1>z, <1>i, <1>n, <1>s, <1>k, <1>l, <1>a, <1>t, Names DEF DisarmedInv, Disarmed
<1>10. ContinuationInv'
  BY <1>c, <1>i, <1>n, <1>s, <1>k, <1>l, <1>a, <1>t, Names DEF ContinuationInv
<1>11. KnownInv'
  BY <1>c, <1>i, <1>n, <1>s, <1>k, <1>l, <1>a, <1>t, Names DEF KnownInv
<1> QED BY <1>1, <1>2, <1>3, <1>4, <1>5, <1>6, <1>7, <1>8, <1>9, <1>10, <1>11 DEF CoreInv

\* The empty list of calls.
LEMMA EmptyThen ==
    ASSUME NEW f \in FrameType, NEW w \in Seq(FrameType)
    PROVE  <<>> \o <<f>> \o w = <<f>> \o w
OBVIOUS

\* The task of join() is called, or nobody waits for the result.
LEMMA CallTaskStep ==
    ASSUME CoreInv, NEW t \in Threads, At(t, "call"), CallResult(t), Top(t).call \notin Routines
    PROVE  CoreInv'
<1>c. /\ TypeInv /\ ShapeInv /\ CurrentInv /\ OnceInv /\ PlaceInv /\ RestInv /\ OwnerInv
      /\ ArmedInv /\ DisarmedInv /\ ContinuationInv /\ KnownInv /\ Geometry
  BY SlotGeometry DEF CoreInv
<1>p. PICK p \in Slots : /\ p = <<t, Len(stack[t])>> /\ Th(p) = t /\ IsTop(p)
                         /\ G(p) = Top(t) /\ Top(t) \in FrameType /\ stack[t] # <<>>
  BY <1>c, TopFrame DEF At
<1>r. PICK r \in Routines : r = G(p).r
  BY <1>p, FrameFields
<1>u. G(p).pc = "call" /\ G(p).fn # "runner"
  BY <1>c, <1>p DEF At, ShapeInv
<1>x. PICK f : f = [Top(t) EXCEPT !.pc = "return"]
  OBVIOUS
<1>k. /\ f.fn = G(p).fn /\ f.r = r /\ f.pc = "return" /\ f.res = G(p).res /\ f.call = G(p).call
      /\ f.destruct = G(p).destruct /\ G(p).pc = "call" /\ G(p).fn # "runner" /\ r = G(p).r
      /\ f \in FrameType
  BY <1>p, <1>r, <1>u, <1>x DEF FrameType, PCs
<1>f. Retop(p, f) /\ stack' \in [Threads -> Seq(FrameType)]
  <2>1. Replace(t, f)
    BY <1>p, <1>x, EmptyThen DEF Top, Replace, CallResult
  <2> QED BY <1>c, <1>p, <1>k, <2>1, ReplaceStep
<1>v. PICK k : k = G(p).call
  OBVIOUS
<1>l. life[r] # "none" /\ finished[r] /\ mContinuation[r] = Invalid /\ mResult[r] = Invalid
  BY <1>c, <1>k DEF PlaceInv, Ending
<1>a. /\ blocked' = [u \in Threads |-> IF u = k THEN Null ELSE blocked[u]]
      /\ k = G(p).call
      /\ UNCHANGED <<queue, pending, fut, mOuter, mContinuation, mResult, mIsDetached, mCaller,
                     waitFor, finished, life, owner, awaits, current>>
  BY <1>p, <1>r, <1>f, <1>k, <1>v DEF CallResult, routineVars
<1>i. /\ OneEach'
      /\ \A y : (On(y)' <=> On(y)) /\ (Called(y)' <=> Called(y))
      /\ \A y \in Routines : Asleep(y)' <=> Asleep(y)
      /\ \A y \in Routines : y # r => (Parked(y)' <=> Parked(y))
      /\ On(r) /\ ~Asleep(r)
      /\ Parked(r) <=> G(p).pc \in {"install", "spin"}
      /\ Parked(r)' <=> f.pc \in {"install", "spin"}
  BY <1>c, <1>k, <1>f, <1>a, InPlace DEF OnceInv
<1>n. /\ \A z \in Futures : fut[z] # r
      /\ ~In(r, queue) /\ r \notin pending /\ ~Called(r)
      /\ \A z \in Routines : mResult[z] # r /\ mContinuation[z] # r
      /\ \A s \in Slots : /\ G(s).pc = "call" => G(s).call # r
                          /\ G(s).res # r
                          /\ G(s).fn = "runner" => G(s).r # r
  BY <1>k, <1>l, NoTokens
<1>s. /\ Slots' = Slots /\ G(p)' = f
      /\ \A s \in Slots : s # p => G(s)' = G(s)
      /\ \A u \in Threads : Idle(u)' <=> Idle(u)
      /\ \A s \in Slots : G(s).r \in Routines
      /\ \A s \in Slots : ~Base(s) => Under(s) \in Slots /\ Under(s) # p
  BY <1>c, <1>p, <1>f, RetopFacts
<1>t. /\ pending \subseteq Routines
      /\ fut \in [Futures -> Routines \cup {Null, Invalid}]
      /\ waitFor \in [Routines -> Routines \cup Futures \cup {Ioc, Timer, Null}]
      /\ mCaller \in [Routines -> Routines \cup {Null, Invalid}]
      /\ mResult \in [Routines -> Routines \cup Threads \cup {Null, Invalid}]
      /\ mContinuation \in [Routines -> Routines \cup {Null, Invalid}]
      /\ blocked \in [Threads -> Routines \cup {Null}]
  BY <1>c DEF TypeInv
<1>1. TypeInv'
  BY <1>c, <1>a, <1>f DEF TypeInv
<1>2. ShapeInv'
  <2>1. f.fn # "run" => f.res = Null
    BY <1>c, <1>k, <1>l DEF ShapeInv
  <2>2. f.fn = "runner" <=> f.pc = "runner"
    BY <1>k
  <2> QED BY <1>c, <1>p, <1>f, <1>k, <2>1, <2>2, ShapeInPlace
<1>3. CurrentInv'
  <2>1. current[Th(p)] = UserBelow(p)
    BY <1>c, <1>p, <1>k DEF CurrentInv
  <2> QED BY <1>c, <1>p, <1>f, <1>k, <1>a, <2>1, CurrentInPlace
<1>4. OnceInv'
  BY <1>c, <1>i, <1>a DEF OnceInv
<1>5. PlaceInv'
  BY <1>c, <1>s, <1>k, <1>l, <1>a, <1>t, Names DEF PlaceInv, OnceInv, OneEach, Ending
<1>6. RestInv'
  BY <1>c, <1>i, <1>l, <1>a, <1>t, Names DEF RestInv
<1>7. OwnerInv'
  <2>1. \A y \in Routines : mResult[y] \in Threads => mResult[y] # k
    BY <1>c, <1>k, <1>l, <1>a, Names DEF OwnerInv
  <2>2. \A s \in Slots : s # p /\ G(s).pc = "call" /\ G(s).call \in Threads => G(s).call # k
    BY <1>c, <1>k, <1>a DEF OwnerInv, OnceInv, OneEach, ShapeInv
  <2> QED BY <1>c, <1>s, <1>k, <1>l, <1>a, <1>t, <2>1, <2>2, Names DEF OwnerInv
<1>8. ArmedInv'
  BY <1>c, <1>i, <1>n, <1>a, <1>t, Names DEF ArmedInv, Armed
<1>9. DisarmedInv'
  BY <1>c, <1>i, <1>n, <1>s, <1>k, <1>l, <1>a, <1>t, Names DEF DisarmedInv, Disarmed
<1>10. ContinuationInv'
  BY <1>c, <1>i, <1>n, <1>s, <1>k, <1>l, <1>a, <1>t, Names DEF ContinuationInv
<1>11. KnownInv'
  BY <1>c, <1>i, <1>n, <1>s, <1>k, <1>l, <1>a, <1>t, Names DEF KnownInv
<1> QED BY <1>1, <1>2, <1>3, <1>4, <1>5, <1>6, <1>7, <1>8, <1>9, <1>10, <1>11 DEF CoreInv

-----------------------------------------------------------------------------
(* The steps with which a coroutine leaves its thread.                     *)

\* await() of the io_context: the Runner is posted.
LEMMA PostStep ==
    ASSUME CoreInv, NEW t \in Threads, At(t, "suspend"), waitFor[Top(t).r] = Ioc,
           queue' = Append(queue, Top(t).r), Suspended(t),
           UNCHANGED <<current, blocked, pending, fut, routineVars>>
    PROVE  CoreInv'
<1>c. /\ TypeInv /\ ShapeInv /\ CurrentInv /\ OnceInv /\ PlaceInv /\ RestInv /\ OwnerInv
      /\ ArmedInv /\ DisarmedInv /\ ContinuationInv /\ KnownInv /\ Geometry
  BY SlotGeometry DEF CoreInv
<1>p. PICK p \in Slots : /\ p = <<t, Len(stack[t])>> /\ Th(p) = t /\ IsTop(p)
                         /\ G(p) = Top(t) /\ Top(t) \in FrameType /\ stack[t] # <<>>
  BY <1>c, TopFrame DEF At
<1>r. PICK r \in Routines : r = G(p).r
  BY <1>p, FrameFields
<1>f. Popped(p) /\ stack' \in [Threads -> Seq(FrameType)]
  BY <1>c, <1>p, PopStep DEF Suspended
<1>k. G(p).pc = "suspend" /\ G(p).fn # "runner" /\ r = G(p).r
  BY <1>c, <1>p, <1>r DEF At, ShapeInv
<1>l. life[r] # "none" /\ ~finished[r] /\ G(p).res = Null /\ waitFor[r] # Null /\ mCaller[r] = r
  BY <1>c, <1>k, Names DEF PlaceInv, Ending
<1>a. /\ waitFor[r] = Ioc
      /\ queue' = Append(queue, r)
      /\ UNCHANGED <<blocked, pending, fut, mOuter, mContinuation, mResult, mIsDetached, mCaller,
                     waitFor, finished, life, owner, awaits, current>>
  BY <1>p, <1>r DEF routineVars
<1>t. /\ pending \subseteq Routines
      /\ fut \in [Futures -> Routines \cup {Null, Invalid}]
      /\ waitFor \in [Routines -> Routines \cup Futures \cup {Ioc, Timer, Null}]
      /\ mCaller \in [Routines -> Routines \cup {Null, Invalid}]
      /\ mResult \in [Routines -> Routines \cup Threads \cup {Null, Invalid}]
      /\ mContinuation \in [Routines -> Routines \cup {Null, Invalid}]
  BY <1>c DEF TypeInv
<1>i. /\ OneEach'
      /\ \A y : (On(y)' <=> On(y) /\ y # r) /\ (Called(y)' <=> Called(y))
      /\ \A y \in Routines : y # r => (Asleep(y)' <=> Asleep(y)) /\ (Parked(y)' <=> Parked(y))
      /\ On(r) /\ ~Asleep(r)
      /\ Parked(r) <=> G(p).pc \in {"install", "spin"}
      /\ Asleep(r)' <=> life'[r] # "none" /\ ~finished'[r]
      /\ Parked(r)' <=> Asleep(r)'
  BY <1>c, <1>k, <1>f, <1>a, <1>t, Leaving DEF OnceInv
<1>n. /\ \A z \in Futures : fut[z] # r
      /\ ~In(r, queue) /\ r \notin pending /\ ~Called(r)
      /\ \A z \in Routines : mResult[z] # r /\ mContinuation[z] # r
      /\ \A s \in Slots : /\ G(s).pc = "call" => G(s).call # r
                          /\ G(s).res # r
                          /\ G(s).fn = "runner" => G(s).r # r
  BY <1>k, NoTokens
<1>s. /\ Slots' = Slots \ {p}
      /\ \A s \in Slots : s # p => G(s)' = G(s)
      /\ \A u \in Threads : Idle(u) => Idle(u)'
      /\ \A s \in Slots : G(s).r \in Routines
      /\ \A s \in Slots : ~Base(s) => Under(s) \in Slots /\ Under(s) # p
  BY <1>c, <1>p, <1>f DEF Popped, Geometry
<1>q. /\ queue' \in Seq(Routines) /\ Distinct(queue')
      /\ \A y : In(y, queue') <=> In(y, queue) \/ y = r
  BY <1>c, <1>a, <1>n, AppendDeque DEF TypeInv, OnceInv
<1>1. TypeInv'
  <2>1. queue' \in Seq(Routines)
    BY <1>c, <1>q
  <2> QED BY <1>c, <1>a, <1>f, <2>1 DEF TypeInv
<1>2. ShapeInv'
  BY <1>c, <1>p, <1>f, ShapeLeaving
<1>3. CurrentInv'
  BY <1>c, <1>p, <1>f, <1>k, <1>a, CurrentLeaving
<1>4. OnceInv'
  BY <1>c, <1>i, <1>q DEF OnceInv
<1>5. PlaceInv'
  BY <1>c, <1>s, <1>k, <1>l, <1>a, <1>t, Names DEF PlaceInv, OnceInv, OneEach, Ending
<1>6. RestInv'
  BY <1>c, <1>i, <1>l, <1>a, <1>t, Names DEF RestInv
<1>7. OwnerInv'
  BY <1>c, <1>s, <1>k, <1>l, <1>a, <1>t, Names DEF OwnerInv
<1>8. ArmedInv'
  BY <1>c, <1>q, <1>i, <1>n, <1>l, <1>a, <1>t, Names DEF ArmedInv, Armed
<1>9. DisarmedInv'
  BY <1>c, <1>i, <1>n, <1>s, <1>k, <1>l, <1>a, <1>t, Names DEF DisarmedInv, Disarmed
<1>10. ContinuationInv'
  BY <1>c, <1>i, <1>n, <1>s, <1>k, <1>l, <1>a, <1>t, Names DEF ContinuationInv
<1>11. KnownInv'
  BY <1>c, <1>q, <1>i, <1>n, <1>s, <1>k, <1>l, <1>a, <1>t, Names, SMTT(20) DEF KnownInv
<1> QED BY <1>1, <1>2, <1>3, <1>4, <1>5, <1>6, <1>7, <1>8, <1>9, <1>10, <1>11 DEF CoreInv

\* await() of a timer, a duration or a task.
LEMMA StartTimerStep ==
    ASSUME CoreInv, NEW t \in Threads, At(t, "suspend"), waitFor[Top(t).r] = Timer,
           pending' = pending \cup {Top(t).r}, Suspended(t),
           UNCHANGED <<current, blocked, queue, fut, routineVars>>
    PROVE  CoreInv'
<1>c. /\ TypeInv /\ ShapeInv /\ CurrentInv /\ OnceInv /\ PlaceInv /\ RestInv /\ OwnerInv
      /\ ArmedInv /\ DisarmedInv /\ ContinuationInv /\ KnownInv /\ Geometry
  BY SlotGeometry DEF CoreInv
<1>p. PICK p \in Slots : /\ p = <<t, Len(stack[t])>> /\ Th(p) = t /\ IsTop(p)
                         /\ G(p) = Top(t) /\ Top(t) \in FrameType /\ stack[t] # <<>>
  BY <1>c, TopFrame DEF At
<1>r. PICK r \in Routines : r = G(p).r
  BY <1>p, FrameFields
<1>f. Popped(p) /\ stack' \in [Threads -> Seq(FrameType)]
  BY <1>c, <1>p, PopStep DEF Suspended
<1>k. G(p).pc = "suspend" /\ G(p).fn # "runner" /\ r = G(p).r
  BY <1>c, <1>p, <1>r DEF At, ShapeInv
<1>l. life[r] # "none" /\ ~finished[r] /\ G(p).res = Null /\ waitFor[r] # Null /\ mCaller[r] = r
  BY <1>c, <1>k, Names DEF PlaceInv, Ending
<1>a. /\ waitFor[r] = Timer
      /\ pending' = pending \cup {r}
      /\ UNCHANGED <<blocked, queue, fut, mOuter, mContinuation, mResult, mIsDetached, mCaller,
                     waitFor, finished, life, owner, awaits, current>>
  BY <1>p, <1>r DEF routineVars
<1>t. /\ pending \subseteq Routines
      /\ fut \in [Futures -> Routines \cup {Null, Invalid}]
      /\ waitFor \in [Routines -> Routines \cup Futures \cup {Ioc, Timer, Null}]
      /\ mCaller \in [Routines -> Routines \cup {Null, Invalid}]
      /\ mResult \in [Routines -> Routines \cup Threads \cup {Null, Invalid}]
      /\ mContinuation \in [Routines -> Routines \cup {Null, Invalid}]
  BY <1>c DEF TypeInv
<1>i. /\ OneEach'
      /\ \A y : (On(y)' <=> On(y) /\ y # r) /\ (Called(y)' <=> Called(y))
      /\ \A y \in Routines : y # r => (Asleep(y)' <=> Asleep(y)) /\ (Parked(y)' <=> Parked(y))
      /\ On(r) /\ ~Asleep(r)
      /\ Parked(r) <=> G(p).pc \in {"install", "spin"}
      /\ Asleep(r)' <=> life'[r] # "none" /\ ~finished'[r]
      /\ Parked(r)' <=> Asleep(r)'
  BY <1>c, <1>k, <1>f, <1>a, <1>t, Leaving DEF OnceInv
<1>n. /\ \A z \in Futures : fut[z] # r
      /\ ~In(r, queue) /\ r \notin pending /\ ~Called(r)
      /\ \A z \in Routines : mResult[z] # r /\ mContinuation[z] # r
      /\ \A s \in Slots : /\ G(s).pc = "call" => G(s).call # r
                          /\ G(s).res # r
                          /\ G(s).fn = "runner" => G(s).r # r
  BY <1>k, NoTokens
<1>s. /\ Slots' = Slots \ {p}
      /\ \A s \in Slots : s # p => G(s)' = G(s)
      /\ \A u \in Threads : Idle(u) => Idle(u)'
      /\ \A s \in Slots : G(s).r \in Routines
      /\ \A s \in Slots : ~Base(s) => Under(s) \in Slots /\ Under(s) # p
  BY <1>c, <1>p, <1>f DEF Popped, Geometry
<1>1. TypeInv'
  BY <1>c, <1>a, <1>f DEF TypeInv
<1>2. ShapeInv'
  BY <1>c, <1>p, <1>f, ShapeLeaving
<1>3. CurrentInv'
  BY <1>c, <1>p, <1>f, <1>k, <1>a, CurrentLeaving
<1>4. OnceInv'
  BY <1>c, <1>i, <1>a DEF OnceInv
<1>5. PlaceInv'
  BY <1>c, <1>s, <1>k, <1>l, <1>a, <1>t, Names DEF PlaceInv, OnceInv, OneEach, Ending
<1>6. RestInv'
  BY <1>c, <1>i, <1>l, <1>a, <1>t, Names DEF RestInv
<1>7. OwnerInv'
  BY <1>c, <1>s, <1>k, <1>l, <1>a, <1>t, Names DEF OwnerInv
<1>8. ArmedInv'
  BY <1>c, <1>i, <1>n, <1>l, <1>a, <1>t, Names DEF ArmedInv, Armed
<1>9. DisarmedInv'
  BY <1>c, <1>i, <1>n, <1>s, <1>k, <1>l, <1>a, <1>t, Names DEF DisarmedInv, Disarmed
<1>10. ContinuationInv'
  BY <1>c, <1>i, <1>n, <1>s, <1>k, <1>l, <1>a, <1>t, Names DEF ContinuationInv
<1>11. KnownInv'
  BY <1>c, <1>i, <1>n, <1>s, <1>k, <1>l, <1>a, <1>t, Names DEF KnownInv
<1> QED BY <1>1, <1>2, <1>3, <1>4, <1>5, <1>6, <1>7, <1>8, <1>9, <1>10, <1>11 DEF CoreInv

\* await() of a future that is not ready.
LEMMA SuspendFutureStep ==
    ASSUME CoreInv, NEW t \in Threads, At(t, "suspend"), waitFor[Top(t).r] \in Futures,
           fut[waitFor[Top(t).r]] = Null, fut' = [fut EXCEPT ![waitFor[Top(t).r]] = Top(t).r],
           Suspended(t), UNCHANGED <<current, blocked, queue, pending, routineVars>>
    PROVE  CoreInv'
<1>c. /\ TypeInv /\ ShapeInv /\ CurrentInv /\ OnceInv /\ PlaceInv /\ RestInv /\ OwnerInv
      /\ ArmedInv /\ DisarmedInv /\ ContinuationInv /\ KnownInv /\ Geometry
  BY SlotGeometry DEF CoreInv
<1>p. PICK p \in Slots : /\ p = <<t, Len(stack[t])>> /\ Th(p) = t /\ IsTop(p)
                         /\ G(p) = Top(t) /\ Top(t) \in FrameType /\ stack[t] # <<>>
  BY <1>c, TopFrame DEF At
<1>r. PICK r \in Routines : r = G(p).r
  BY <1>p, FrameFields
<1>f. Popped(p) /\ stack' \in [Threads -> Seq(FrameType)]
  BY <1>c, <1>p, PopStep DEF Suspended
<1>k. G(p).pc = "suspend" /\ G(p).fn # "runner" /\ r = G(p).r
  BY <1>c, <1>p, <1>r DEF At, ShapeInv
<1>l. life[r] # "none" /\ ~finished[r] /\ G(p).res = Null /\ waitFor[r] # Null /\ mCaller[r] = r
  BY <1>c, <1>k, Names DEF PlaceInv, Ending
<1>x. PICK x : x = waitFor[r]
  OBVIOUS
<1>a. /\ x = waitFor[r]
      /\ x \in Futures
      /\ fut[x] = Null
      /\ fut' = [fut EXCEPT ![x] = r]
      /\ UNCHANGED <<blocked, queue, pending, mOuter, mContinuation, mResult, mIsDetached,
                     mCaller, waitFor, finished, life, owner, awaits, current>>
  BY <1>p, <1>r, <1>x DEF routineVars
<1>t. /\ pending \subseteq Routines
      /\ fut \in [Futures -> Routines \cup {Null, Invalid}]
      /\ waitFor \in [Routines -> Routines \cup Futures \cup {Ioc, Timer, Null}]
      /\ mCaller \in [Routines -> Routines \cup {Null, Invalid}]
      /\ mResult \in [Routines -> Routines \cup Threads \cup {Null, Invalid}]
      /\ mContinuation \in [Routines -> Routines \cup {Null, Invalid}]
  BY <1>c DEF TypeInv
<1>i. /\ OneEach'
      /\ \A y : (On(y)' <=> On(y) /\ y # r) /\ (Called(y)' <=> Called(y))
      /\ \A y \in Routines : y # r => (Asleep(y)' <=> Asleep(y)) /\ (Parked(y)' <=> Parked(y))
      /\ On(r) /\ ~Asleep(r)
      /\ Parked(r) <=> G(p).pc \in {"install", "spin"}
      /\ Asleep(r)' <=> life'[r] # "none" /\ ~finished'[r]
      /\ Parked(r)' <=> Asleep(r)'
  BY <1>c, <1>k, <1>f, <1>a, <1>t, Leaving DEF OnceInv
<1>n. /\ \A z \in Futures : fut[z] # r
      /\ ~In(r, queue) /\ r \notin pending /\ ~Called(r)
      /\ \A z \in Routines : mResult[z] # r /\ mContinuation[z] # r
      /\ \A s \in Slots : /\ G(s).pc = "call" => G(s).call # r
                          /\ G(s).res # r
                          /\ G(s).fn = "runner" => G(s).r # r
  BY <1>k, NoTokens
<1>s. /\ Slots' = Slots \ {p}
      /\ \A s \in Slots : s # p => G(s)' = G(s)
      /\ \A u \in Threads : Idle(u) => Idle(u)'
      /\ \A s \in Slots : G(s).r \in Routines
      /\ \A s \in Slots : ~Base(s) => Under(s) \in Slots /\ Under(s) # p
  BY <1>c, <1>p, <1>f DEF Popped, Geometry
<1>1. TypeInv'
  BY <1>c, <1>a, <1>f DEF TypeInv
<1>2. ShapeInv'
  BY <1>c, <1>p, <1>f, ShapeLeaving
<1>3. CurrentInv'
  BY <1>c, <1>p, <1>f, <1>k, <1>a, CurrentLeaving
<1>4. OnceInv'
  BY <1>c, <1>i, <1>a DEF OnceInv
<1>5. PlaceInv'
  BY <1>c, <1>s, <1>k, <1>l, <1>a, <1>t, Names DEF PlaceInv, OnceInv, OneEach, Ending
<1>6. RestInv'
  BY <1>c, <1>i, <1>l, <1>a, <1>t, Names DEF RestInv
<1>7. OwnerInv'
  BY <1>c, <1>s, <1>k, <1>l, <1>a, <1>t, Names DEF OwnerInv
<1>8. ArmedInv'
  BY <1>c, <1>i, <1>n, <1>l, <1>a, <1>t, Names DEF ArmedInv, Armed
<1>9. DisarmedInv'
  BY <1>c, <1>i, <1>n, <1>s, <1>k, <1>l, <1>a, <1>t, Names DEF DisarmedInv, Disarmed
<1>10. ContinuationInv'
  BY <1>c, <1>i, <1>n, <1>s, <1>k, <1>l, <1>a, <1>t, Names DEF ContinuationInv
<1>11. KnownInv'
  BY <1>c, <1>i, <1>n, <1>s, <1>k, <1>l, <1>a, <1>t, Names DEF KnownInv
<1> QED BY <1>1, <1>2, <1>3, <1>4, <1>5, <1>6, <1>7, <1>8, <1>9, <1>10, <1>11 DEF CoreInv

\* await() of a coroutine: the awaiting one becomes its continuation.
LEMMA InstallStep ==
    ASSUME CoreInv, NEW t \in Threads, At(t, "install"),
           mContinuation[waitFor[Top(t).r]] = Null,
           mContinuation' = [mContinuation EXCEPT ![waitFor[Top(t).r]] = Top(t).r], Suspended(t),
           UNCHANGED <<current, blocked, queue, pending, fut, mOuter, mResult, mIsDetached, mCaller,
                       waitFor, finished, life, owner, awaits>>
    PROVE  CoreInv'
<1>c. /\ TypeInv /\ ShapeInv /\ CurrentInv /\ OnceInv /\ PlaceInv /\ RestInv /\ OwnerInv
      /\ ArmedInv /\ DisarmedInv /\ ContinuationInv /\ KnownInv /\ Geometry
  BY SlotGeometry DEF CoreInv
<1>p. PICK p \in Slots : /\ p = <<t, Len(stack[t])>> /\ Th(p) = t /\ IsTop(p)
                         /\ G(p) = Top(t) /\ Top(t) \in FrameType /\ stack[t] # <<>>
  BY <1>c, TopFrame DEF At
<1>r. PICK r \in Routines : r = G(p).r
  BY <1>p, FrameFields
<1>f. Popped(p) /\ stack' \in [Threads -> Seq(FrameType)]
  BY <1>c, <1>p, PopStep DEF Suspended
<1>k. G(p).pc = "install" /\ G(p).fn # "runner" /\ r = G(p).r
  BY <1>c, <1>p, <1>r DEF At, ShapeInv
<1>l. life[r] # "none" /\ ~finished[r] /\ G(p).res = Null /\ waitFor[r] # Null /\ waitFor[r] \in Routines
  BY <1>c, <1>k, Names DEF PlaceInv, Ending
<1>x. PICK x : x = waitFor[r]
  OBVIOUS
<1>a. /\ x = waitFor[r]
      /\ x \in Routines
      /\ mContinuation[x] = Null
      /\ mContinuation' = [mContinuation EXCEPT ![x] = r]
      /\ UNCHANGED <<blocked, queue, pending, fut, mOuter, mResult, mIsDetached, mCaller, waitFor,
                     finished, life, owner, awaits, current>>
  BY <1>p, <1>r, <1>x, <1>l DEF routineVars
<1>t. /\ pending \subseteq Routines
      /\ fut \in [Futures -> Routines \cup {Null, Invalid}]
      /\ waitFor \in [Routines -> Routines \cup Futures \cup {Ioc, Timer, Null}]
      /\ mCaller \in [Routines -> Routines \cup {Null, Invalid}]
      /\ mResult \in [Routines -> Routines \cup Threads \cup {Null, Invalid}]
      /\ mContinuation \in [Routines -> Routines \cup {Null, Invalid}]
  BY <1>c DEF TypeInv
<1>i. /\ OneEach'
      /\ \A y : (On(y)' <=> On(y) /\ y # r) /\ (Called(y)' <=> Called(y))
      /\ \A y \in Routines : y # r => (Asleep(y)' <=> Asleep(y)) /\ (Parked(y)' <=> Parked(y))
      /\ On(r) /\ ~Asleep(r)
      /\ Parked(r) <=> G(p).pc \in {"install", "spin"}
      /\ Asleep(r)' <=> life'[r] # "none" /\ ~finished'[r]
      /\ Parked(r)' <=> Asleep(r)'
  BY <1>c, <1>k, <1>f, <1>a, <1>t, Leaving DEF OnceInv
<1>s. /\ Slots' = Slots \ {p}
      /\ \A s \in Slots : s # p => G(s)' = G(s)
      /\ \A u \in Threads : Idle(u) => Idle(u)'
      /\ \A s \in Slots : G(s).r \in Routines
      /\ \A s \in Slots : ~Base(s) => Under(s) \in Slots /\ Under(s) # p
  BY <1>c, <1>p, <1>f DEF Popped, Geometry
<1>1. TypeInv'
  <2>1. mContinuation' \in [Routines -> Routines \cup {Null, Invalid}]
    BY <1>a, <1>t
  <2> QED BY <1>c, <1>a, <1>f, <2>1 DEF TypeInv
<1>2. ShapeInv'
  BY <1>c, <1>p, <1>f, ShapeLeaving
<1>3. CurrentInv'
  BY <1>c, <1>p, <1>f, <1>k, <1>a, CurrentLeaving
<1>4. OnceInv'
  BY <1>c, <1>i, <1>a DEF OnceInv
<1>5. PlaceInv'
  BY <1>c, <1>s, <1>k, <1>l, <1>a, <1>t, Names DEF PlaceInv, OnceInv, OneEach, Ending
<1>6. RestInv'
  BY <1>c, <1>i, <1>l, <1>a, <1>t, Names DEF RestInv
<1>7. OwnerInv'
  BY <1>c, <1>s, <1>k, <1>l, <1>a, <1>t, Names DEF OwnerInv
<1>8. ArmedInv'
  BY <1>c, <1>i, <1>l, <1>a, <1>t, Names DEF ArmedInv, Armed
<1>9. DisarmedInv'
  BY <1>c, <1>i, <1>s, <1>k, <1>l, <1>a, <1>t, Names DEF DisarmedInv, Disarmed
<1>10. ContinuationInv'
  BY <1>c, <1>i, <1>s, <1>k, <1>l, <1>a, <1>t, Names DEF ContinuationInv
<1>11. KnownInv'
  BY <1>c, <1>i, <1>s, <1>k, <1>l, <1>a, <1>t, Names DEF KnownInv
<1> QED BY <1>1, <1>2, <1>3, <1>4, <1>5, <1>6, <1>7, <1>8, <1>9, <1>10, <1>11 DEF CoreInv

-----------------------------------------------------------------------------
(* The steps that call a Runner.                                           *)

\* The two callers of a Runner that do not return to a loop: the code of a
\* coroutine, and the io_context on an idle thread.
LEMMA RunnerCallers ==
    ASSUME CoreInv, NEW t \in Threads, At(t, "user") \/ (stack[t] = <<>> /\ t \in IoThreads)
    PROVE  /\ \A s \in Slots : IsTop(s) /\ Th(s) = t => G(s).pc = "user"
           /\ blocked[t] = Null
<1>1. Geometry
  BY SlotGeometry DEF CoreInv
<1>2. CASE At(t, "user")
  <2>1. PICK p \in Slots : Th(p) = t /\ IsTop(p) /\ G(p).pc = "user"
    BY <1>2, TopFrame DEF At, CoreInv
  <2>2. ~Idle(t)
    BY <1>1, <2>1 DEF Geometry
  <2> QED BY <1>1, <2>1, <2>2 DEF Geometry, CoreInv, OwnerInv
<1>3. CASE stack[t] = <<>> /\ t \in IoThreads
  BY <1>1, <1>3 DEF Geometry, Idle, CoreInv, OwnerInv
<1> QED BY <1>2, <1>3

\* A promise is set for which a coroutine waits.
LEMMA WakeStep ==
    ASSUME CoreInv, NEW t \in Threads, NEW z \in Futures, SetFuture(t, z), fut[z] # Null
    PROVE  CoreInv'
<1>c. /\ TypeInv /\ ShapeInv /\ CurrentInv /\ OnceInv /\ PlaceInv /\ RestInv /\ OwnerInv
      /\ ArmedInv /\ DisarmedInv /\ ContinuationInv /\ KnownInv /\ Geometry
  BY SlotGeometry DEF CoreInv
<1>r. PICK r \in Routines : r = fut[z]
  BY <1>c DEF SetFuture, TypeInv
<1>v. PICK f \in FrameType : /\ f = Frame("runner", r, "runner") /\ f.fn = "runner" /\ f.r = r
                             /\ f.pc = "runner" /\ f.res = Null /\ f.call = Null /\ ~f.destruct
  <2>1. PICK pc \in PCs : pc = "runner"
    BY DEF PCs
  <2>2. PICK fn \in {"ctor", "ctorLoop", "run", "runner"} : fn = "runner"
    OBVIOUS
  <2> QED BY <2>1, <2>2, NewFrame
<1>f. stack' \in [Threads -> Seq(FrameType)] /\ \E q : Pushed(t, q, f)
  BY <1>c, <1>r, <1>v, PushStep DEF SetFuture
<1>q. PICK q : Pushed(t, q, f)
  BY <1>f
<1>a. /\ fut' = [fut EXCEPT ![z] = Invalid]
      /\ r = fut[z]
      /\ UNCHANGED <<blocked, queue, pending, mOuter, mContinuation, mResult, mIsDetached,
                     mCaller, waitFor, finished, life, owner, awaits, current>>
  BY <1>r DEF SetFuture, routineVars
<1>t. /\ pending \subseteq Routines
      /\ fut \in [Futures -> Routines \cup {Null, Invalid}]
      /\ waitFor \in [Routines -> Routines \cup Futures \cup {Ioc, Timer, Null}]
      /\ mCaller \in [Routines -> Routines \cup {Null, Invalid}]
      /\ mResult \in [Routines -> Routines \cup Threads \cup {Null, Invalid}]
      /\ mContinuation \in [Routines -> Routines \cup {Null, Invalid}]
  BY <1>c DEF TypeInv
<1>l. Asleep(r) /\ mCaller[r] = r /\ waitFor[r] \notin Routines /\ ~Called(r) /\ waitFor[r] = z
      /\ ~In(r, queue) /\ r \notin pending
  BY <1>c, <1>r, <1>t, Names DEF ArmedInv, Armed
<1>b. /\ \A s \in Slots : IsTop(s) /\ Th(s) = t => G(s).pc = "user"
      /\ blocked[t] = Null
  BY RunnerCallers DEF SetFuture
<1>i. /\ OneEach'
      /\ \A y : (On(y)' <=> On(y)) /\ (Called(y)' <=> Called(y) \/ y = r)
      /\ \A y \in Routines : (Asleep(y)' <=> Asleep(y)) /\ (Parked(y)' <=> Parked(y))
  BY <1>c, <1>v, <1>q, <1>l, <1>a, RunnerCalled DEF OnceInv
<1>s. /\ Slots' = Slots \cup {q} /\ q \notin Slots /\ G(q)' = f
      /\ \A s \in Slots : G(s)' = G(s)
      /\ \A u \in Threads : u # t => (Idle(u)' <=> Idle(u))
      /\ \A s \in Slots : G(s).r \in Routines
      /\ \A s \in Slots : ~Base(s) => Under(s) \in Slots
  BY <1>c, <1>q DEF Pushed, Added, Geometry
<1>1. TypeInv'
  BY <1>c, <1>a, <1>f DEF TypeInv
<1>2. ShapeInv'
  BY <1>c, <1>v, <1>q, <1>b, ShapeCalled DEF Ctors
<1>3. CurrentInv'
  BY <1>c, <1>v, <1>q, <1>b, <1>a, CurrentCalled
<1>4. OnceInv'
  BY <1>c, <1>i, <1>a DEF OnceInv
<1>5. PlaceInv'
  BY <1>c, <1>s, <1>v, <1>a DEF PlaceInv
<1>6. RestInv'
  BY <1>c, <1>i, <1>a DEF RestInv
<1>7. OwnerInv'
  BY <1>c, <1>s, <1>v, <1>b, <1>a DEF OwnerInv, Ctors
<1>8. ArmedInv'
  BY <1>c, <1>i, <1>l, <1>a, <1>t, Names DEF ArmedInv, Armed
<1>9. DisarmedInv'
  BY <1>c, <1>i, <1>s, <1>v, <1>l, <1>a, <1>t, Names DEF DisarmedInv, Disarmed
<1>10. ContinuationInv'
  BY <1>c, <1>i, <1>s, <1>v, <1>l, <1>a, <1>t, Names DEF ContinuationInv
<1>11. KnownInv'
  BY <1>c, <1>i, <1>s, <1>v, <1>l, <1>a, <1>t, Names DEF KnownInv
<1> QED BY <1>1, <1>2, <1>3, <1>4, <1>5, <1>6, <1>7, <1>8, <1>9, <1>10, <1>11 DEF CoreInv

\* An io thread takes a posted Runner.
LEMMA RunPostedStep ==
    ASSUME CoreInv, NEW t \in Threads, RunPosted(t)
    PROVE  CoreInv'
<1>c. /\ TypeInv /\ ShapeInv /\ CurrentInv /\ OnceInv /\ PlaceInv /\ RestInv /\ OwnerInv
      /\ ArmedInv /\ DisarmedInv /\ ContinuationInv /\ KnownInv /\ Geometry
  BY SlotGeometry DEF CoreInv
<1>h. /\ queue' \in Seq(Routines) /\ Head(queue) \in Routines
      /\ \A y : In(y, queue) <=> y = Head(queue) \/ In(y, queue')
      /\ Distinct(queue') /\ ~In(Head(queue), queue')
  BY <1>c, TailDeque DEF TypeInv, RunPosted, OnceInv
<1>r. PICK r \in Routines : r = Head(queue)
  BY <1>h
<1>v. PICK f \in FrameType : /\ f = Frame("runner", r, "runner") /\ f.fn = "runner" /\ f.r = r
                             /\ f.pc = "runner" /\ f.res = Null /\ f.call = Null /\ ~f.destruct
  <2>1. PICK pc \in PCs : pc = "runner"
    BY DEF PCs
  <2>2. PICK fn \in {"ctor", "ctorLoop", "run", "runner"} : fn = "runner"
    OBVIOUS
  <2> QED BY <2>1, <2>2, NewFrame
<1>f. stack' \in [Threads -> Seq(FrameType)] /\ \E q : Pushed(t, q, f)
  BY <1>c, <1>r, <1>v, PushStep DEF RunPosted
<1>q. PICK q : Pushed(t, q, f)
  BY <1>f
<1>a. /\ r = Head(queue)
      /\ UNCHANGED <<blocked, pending, fut, mOuter, mContinuation, mResult, mIsDetached, mCaller,
                     waitFor, finished, life, owner, awaits, current>>
  BY <1>r DEF RunPosted, routineVars
<1>t. /\ pending \subseteq Routines
      /\ fut \in [Futures -> Routines \cup {Null, Invalid}]
      /\ waitFor \in [Routines -> Routines \cup Futures \cup {Ioc, Timer, Null}]
      /\ mCaller \in [Routines -> Routines \cup {Null, Invalid}]
      /\ mResult \in [Routines -> Routines \cup Threads \cup {Null, Invalid}]
      /\ mContinuation \in [Routines -> Routines \cup {Null, Invalid}]
  BY <1>c DEF TypeInv
<1>l. Asleep(r) /\ mCaller[r] = r /\ waitFor[r] \notin Routines /\ ~Called(r) /\ r \notin pending
      /\ (waitFor[r] \in Futures => fut[waitFor[r]] = Invalid)
  BY <1>c, <1>h, <1>r DEF ArmedInv, Armed
<1>b. /\ \A s \in Slots : IsTop(s) /\ Th(s) = t => G(s).pc = "user"
      /\ blocked[t] = Null
  BY RunnerCallers DEF RunPosted
<1>i. /\ OneEach'
      /\ \A y : (On(y)' <=> On(y)) /\ (Called(y)' <=> Called(y) \/ y = r)
      /\ \A y \in Routines : (Asleep(y)' <=> Asleep(y)) /\ (Parked(y)' <=> Parked(y))
  BY <1>c, <1>v, <1>q, <1>l, <1>a, RunnerCalled DEF OnceInv
<1>s. /\ Slots' = Slots \cup {q} /\ q \notin Slots /\ G(q)' = f
      /\ \A s \in Slots : G(s)' = G(s)
      /\ \A u \in Threads : u # t => (Idle(u)' <=> Idle(u))
      /\ \A s \in Slots : G(s).r \in Routines
      /\ \A s \in Slots : ~Base(s) => Under(s) \in Slots
  BY <1>c, <1>q DEF Pushed, Added, Geometry
<1>1. TypeInv'
  BY <1>c, <1>h, <1>a, <1>f DEF TypeInv
<1>2. ShapeInv'
  BY <1>c, <1>v, <1>q, <1>b, ShapeCalled DEF Ctors
<1>3. CurrentInv'
  BY <1>c, <1>v, <1>q, <1>b, <1>a, CurrentCalled
<1>4. OnceInv'
  BY <1>i, <1>h DEF OnceInv
<1>5. PlaceInv'
  BY <1>c, <1>s, <1>v, <1>a DEF PlaceInv
<1>6. RestInv'
  BY <1>c, <1>i, <1>a DEF RestInv
<1>7. OwnerInv'
  BY <1>c, <1>s, <1>v, <1>b, <1>a DEF OwnerInv, Ctors
<1>8. ArmedInv'
  BY <1>c, <1>h, <1>i, <1>l, <1>a, <1>t, Names DEF ArmedInv, Armed
<1>9. DisarmedInv'
  BY <1>c, <1>i, <1>s, <1>v, <1>l, <1>a, <1>t, Names DEF DisarmedInv, Disarmed
<1>10. ContinuationInv'
  BY <1>c, <1>i, <1>s, <1>v, <1>l, <1>a, <1>t, Names DEF ContinuationInv
<1>11. KnownInv'
  BY <1>c, <1>h, <1>i, <1>s, <1>v, <1>l, <1>a, <1>t, Names DEF KnownInv
<1> QED BY <1>1, <1>2, <1>3, <1>4, <1>5, <1>6, <1>7, <1>8, <1>9, <1>10, <1>11 DEF CoreInv

\* The handler of a timer, or the continuation of a task.
LEMMA ExpireStep ==
    ASSUME CoreInv, NEW t \in Threads, NEW r \in Routines, Expire(t, r)
    PROVE  CoreInv'
<1>c. /\ TypeInv /\ ShapeInv /\ CurrentInv /\ OnceInv /\ PlaceInv /\ RestInv /\ OwnerInv
      /\ ArmedInv /\ DisarmedInv /\ ContinuationInv /\ KnownInv /\ Geometry
  BY SlotGeometry DEF CoreInv
<1>r. r \in pending
  BY DEF Expire
<1>v. PICK f \in FrameType : /\ f = Frame("runner", r, "runner") /\ f.fn = "runner" /\ f.r = r
                             /\ f.pc = "runner" /\ f.res = Null /\ f.call = Null /\ ~f.destruct
  <2>1. PICK pc \in PCs : pc = "runner"
    BY DEF PCs
  <2>2. PICK fn \in {"ctor", "ctorLoop", "run", "runner"} : fn = "runner"
    OBVIOUS
  <2> QED BY <2>1, <2>2, NewFrame
<1>f. stack' \in [Threads -> Seq(FrameType)] /\ \E q : Pushed(t, q, f)
  BY <1>c, <1>r, <1>v, PushStep DEF Expire
<1>q. PICK q : Pushed(t, q, f)
  BY <1>f
<1>a. /\ pending' = pending \ {r}
      /\ UNCHANGED <<blocked, queue, fut, mOuter, mContinuation, mResult, mIsDetached, mCaller,
                     waitFor, finished, life, owner, awaits, current>>
  BY <1>r DEF Expire, routineVars
<1>t. /\ pending \subseteq Routines
      /\ fut \in [Futures -> Routines \cup {Null, Invalid}]
      /\ waitFor \in [Routines -> Routines \cup Futures \cup {Ioc, Timer, Null}]
      /\ mCaller \in [Routines -> Routines \cup {Null, Invalid}]
      /\ mResult \in [Routines -> Routines \cup Threads \cup {Null, Invalid}]
      /\ mContinuation \in [Routines -> Routines \cup {Null, Invalid}]
  BY <1>c DEF TypeInv
<1>l. Asleep(r) /\ mCaller[r] = r /\ waitFor[r] \notin Routines /\ ~Called(r) /\ waitFor[r] = Timer /\ ~In(r, queue)
  BY <1>c, <1>r, Names DEF ArmedInv, Armed
<1>b. /\ \A s \in Slots : IsTop(s) /\ Th(s) = t => G(s).pc = "user"
      /\ blocked[t] = Null
  BY RunnerCallers DEF Expire
<1>i. /\ OneEach'
      /\ \A y : (On(y)' <=> On(y)) /\ (Called(y)' <=> Called(y) \/ y = r)
      /\ \A y \in Routines : (Asleep(y)' <=> Asleep(y)) /\ (Parked(y)' <=> Parked(y))
  BY <1>c, <1>v, <1>q, <1>l, <1>a, RunnerCalled DEF OnceInv
<1>s. /\ Slots' = Slots \cup {q} /\ q \notin Slots /\ G(q)' = f
      /\ \A s \in Slots : G(s)' = G(s)
      /\ \A u \in Threads : u # t => (Idle(u)' <=> Idle(u))
      /\ \A s \in Slots : G(s).r \in Routines
      /\ \A s \in Slots : ~Base(s) => Under(s) \in Slots
  BY <1>c, <1>q DEF Pushed, Added, Geometry
<1>1. TypeInv'
  BY <1>c, <1>a, <1>f DEF TypeInv
<1>2. ShapeInv'
  BY <1>c, <1>v, <1>q, <1>b, ShapeCalled DEF Ctors
<1>3. CurrentInv'
  BY <1>c, <1>v, <1>q, <1>b, <1>a, CurrentCalled
<1>4. OnceInv'
  BY <1>c, <1>i, <1>a DEF OnceInv
<1>5. PlaceInv'
  BY <1>c, <1>s, <1>v, <1>a DEF PlaceInv
<1>6. RestInv'
  BY <1>c, <1>i, <1>a DEF RestInv
<1>7. OwnerInv'
  BY <1>c, <1>s, <1>v, <1>b, <1>a DEF OwnerInv, Ctors
<1>8. ArmedInv'
  BY <1>c, <1>i, <1>l, <1>a, <1>t, Names DEF ArmedInv, Armed
<1>9. DisarmedInv'
  BY <1>c, <1>i, <1>s, <1>v, <1>l, <1>a, <1>t, Names DEF DisarmedInv, Disarmed
<1>10. ContinuationInv'
  BY <1>c, <1>i, <1>s, <1>v, <1>l, <1>a, <1>t, Names DEF ContinuationInv
<1>11. KnownInv'
  BY <1>c, <1>i, <1>s, <1>v, <1>l, <1>a, <1>t, Names DEF KnownInv
<1> QED BY <1>1, <1>2, <1>3, <1>4, <1>5, <1>6, <1>7, <1>8, <1>9, <1>10, <1>11 DEF CoreInv

\* The loop of a Runner takes its coroutine.
LEMMA Taken ==
    ASSUME OneEach, NEW p \in Slots, NEW f, Retop(p, f), G(p).fn = "runner", NEW r, r = G(p).r,
           f.fn # "runner", f.r = r, f.pc = "enter", ~On(r), UNCHANGED <<life, finished>>
    PROVE  /\ OneEach'
           /\ \A x : (On(x)' <=> On(x) \/ x = r) /\ (Called(x)' <=> Called(x) /\ x # r)
           /\ \A x \in Routines : (Asleep(x)' <=> Asleep(x) /\ x # r)
           /\ \A x \in Routines : x # r => (Parked(x)' <=> Parked(x))
<1>1. /\ Slots' = Slots /\ G(p)' = f
      /\ \A s \in Slots : s # p => G(s)' = G(s)
  BY DEF Retop
<1>2. OneEach'
  BY <1>1 DEF OneEach, On, Coro
<1>3. \A x : (On(x)' <=> On(x) \/ x = r) /\ (Called(x)' <=> Called(x) /\ x # r)
  <2>1. \A x : On(x)' <=> On(x) \/ x = r
    BY <1>1 DEF On, Coro
  <2>2. \A x : Called(x)' <=> Called(x) /\ x # r
    BY <1>1 DEF Called, Call, OneEach
  <2> QED BY <2>1, <2>2
<1>4. \A x \in Routines : (Asleep(x)' <=> Asleep(x) /\ x # r)
  BY <1>3 DEF Asleep
<1>5. \A x \in Routines : x # r => (Parked(x)' <=> Parked(x))
  BY <1>1, <1>4 DEF Parked, Coro
<1> QED BY <1>2, <1>3, <1>4, <1>5

\* Runner::operator() on a thread where no coroutine runs, with its coroutine.
LEMMA ResumeStep ==
    ASSUME CoreInv, NEW t \in Threads, At(t, "runner"), CallRunner(t), current[t] = Null,
           waitFor[Top(t).r] \notin Routines
    PROVE  CoreInv'
<1>c. /\ TypeInv /\ ShapeInv /\ CurrentInv /\ OnceInv /\ PlaceInv /\ RestInv /\ OwnerInv
      /\ ArmedInv /\ DisarmedInv /\ ContinuationInv /\ KnownInv /\ Geometry
  BY SlotGeometry DEF CoreInv
<1>p. PICK p \in Slots : /\ p = <<t, Len(stack[t])>> /\ Th(p) = t /\ IsTop(p)
                         /\ G(p) = Top(t) /\ Top(t) \in FrameType /\ stack[t] # <<>>
  BY <1>c, TopFrame DEF At
<1>r. PICK r \in Routines : r = G(p).r
  BY <1>p, FrameFields
<1>u. /\ G(p).pc = "runner" /\ G(p).fn = "runner" /\ r = G(p).r /\ Called(r)
      /\ mCaller[r] = r /\ Asleep(r) /\ ~On(r) /\ life[r] # "none" /\ ~finished[r]
      /\ (waitFor[r] \in Futures => fut[waitFor[r]] = Invalid)
      /\ waitFor[r] \notin Routines /\ ~In(r, queue) /\ r \notin pending
  <2>1. G(p).pc = "runner" /\ G(p).fn = "runner" /\ r = G(p).r /\ Called(r)
    BY <1>c, <1>p, <1>r DEF At, ShapeInv, Called, Call
  <2>2. Armed(r)
    BY <1>c, <1>p, <1>r, <2>1 DEF ArmedInv
  <2> QED BY <1>c, <2>1, <2>2 DEF Armed, ArmedInv, Asleep
<1>v. PICK f \in FrameType : /\ f = Frame("run", r, "enter") /\ f.fn = "run" /\ f.r = r
                             /\ f.pc = "enter" /\ f.res = Null /\ f.call = Null /\ ~f.destruct
  <2>1. PICK pc \in PCs : pc = "enter"
    BY DEF PCs
  <2>2. PICK fn \in {"ctor", "ctorLoop", "run", "runner"} : fn = "run"
    OBVIOUS
  <2> QED BY <2>1, <2>2, NewFrame
<1>f. Retop(p, f) /\ stack' \in [Threads -> Seq(FrameType)]
  BY <1>c, <1>p, <1>r, <1>u, <1>v, ReplaceStep DEF CallRunner, MayResumeHere
<1>a. /\ mCaller' = [mCaller EXCEPT ![r] = Invalid]
      /\ UNCHANGED <<blocked, queue, pending, fut, mOuter, mContinuation, mResult, mIsDetached,
                     waitFor, finished, life, owner, awaits, current>>
  BY <1>p, <1>r DEF CallRunner, MayResumeHere
<1>t. /\ pending \subseteq Routines
      /\ fut \in [Futures -> Routines \cup {Null, Invalid}]
      /\ waitFor \in [Routines -> Routines \cup Futures \cup {Ioc, Timer, Null}]
      /\ mCaller \in [Routines -> Routines \cup {Null, Invalid}]
      /\ mResult \in [Routines -> Routines \cup Threads \cup {Null, Invalid}]
      /\ mContinuation \in [Routines -> Routines \cup {Null, Invalid}]
  BY <1>c DEF TypeInv
<1>i. /\ OneEach'
      /\ \A y : (On(y)' <=> On(y) \/ y = r) /\ (Called(y)' <=> Called(y) /\ y # r)
      /\ \A y \in Routines : (Asleep(y)' <=> Asleep(y) /\ y # r)
      /\ \A y \in Routines : y # r => (Parked(y)' <=> Parked(y))
  BY <1>c, <1>u, <1>v, <1>f, <1>a, Taken DEF OnceInv
<1>s. /\ Slots' = Slots /\ G(p)' = f
      /\ \A s \in Slots : s # p => G(s)' = G(s)
      /\ \A x \in Threads : Idle(x)' <=> Idle(x)
      /\ \A s \in Slots : G(s).r \in Routines
      /\ \A s \in Slots : ~Base(s) => Under(s) \in Slots /\ Under(s) # p
  BY <1>c, <1>p, <1>f, RetopFacts
<1>n. /\ \A z \in Futures : fut[z] # r
      /\ \A z \in Routines : mResult[z] # r /\ mContinuation[z] # r
      /\ \A s \in Slots : (G(s).pc = "call" => G(s).call # r) /\ G(s).res # r
      /\ \A s \in Slots : s # p /\ G(s).fn = "runner" => G(s).r # r
      /\ \A s \in Slots : s # p /\ G(s).fn # "runner" => G(s).r # r
  <2>1. \A z \in Futures : fut[z] # r
    BY <1>c, <1>u, Names DEF ArmedInv
  <2>2. \A z \in Routines : mResult[z] # r /\ mContinuation[z] # r
    BY <1>c, <1>u DEF DisarmedInv, Disarmed, ContinuationInv
  <2>3. \A s \in Slots : (G(s).pc = "call" => G(s).call # r) /\ G(s).res # r
    BY <1>c, <1>u, <1>s DEF DisarmedInv, Disarmed, ContinuationInv
  <2>4. \A s \in Slots : s # p /\ G(s).fn = "runner" => G(s).r # r
    BY <1>c, <1>u DEF OnceInv, OneEach
  <2>5. \A s \in Slots : G(s).fn # "runner" => G(s).r # r
    BY <1>u DEF On, Coro
  <2> QED BY <2>1, <2>2, <2>3, <2>4, <2>5
<1>b. \A s \in Slots : Below(s, p) => G(s).pc = "return"
  <2> SUFFICES ASSUME NEW s \in Slots, Below(s, p) PROVE G(s).pc = "return"
    OBVIOUS
  <2>1. ~Base(p) /\ Under(p) \in Slots /\ ~IsTop(Under(p))
    BY <1>c DEF Geometry
  <2>2. G(Under(p)).pc # "user"
    BY <1>c, <1>p, <1>u, <1>s, <2>1, Names DEF CurrentInv, UserBelow
  <2>3. G(Under(p)).pc = "return" /\ G(Under(p)).fn = "run"
    BY <1>c, <2>1, <2>2 DEF ShapeInv
  <2>4. s = Under(p) \/ Below(s, Under(p))
    BY <1>c DEF Geometry
  <2> QED BY <1>c, <2>1, <2>3, <2>4 DEF ShapeInv
<1>1. TypeInv'
  BY <1>c, <1>a, <1>f DEF TypeInv
<1>2. ShapeInv'
  <2>1. \A s \in Slots : ~Below(p, s)
    BY <1>c, <1>p DEF Geometry
  <2>2. \A s \in Slots : IsTop(s)' <=> IsTop(s)
    BY <1>f DEF Retop
  <2>3. ASSUME NEW s \in Slots
        PROVE  /\ ~IsTop(s) => G(s)'.pc = "user" \/ (G(s)'.pc = "return" /\ G(s)'.fn = "run")
               /\ G(s)'.fn = "runner" <=> G(s)'.pc = "runner"
               /\ G(s)'.fn = "run" => \A x \in Slots : Below(x, s) => G(x)'.pc = "return"
               /\ G(s)'.fn \in Ctors /\ ~Base(s) => G(Under(s))'.pc = "user"
               /\ G(s)'.fn # "run" => G(s)'.res = Null
    <3>1. CASE s = p
      <4>1. \A x \in Slots : Below(x, p) => x # p
        BY <2>1
      <4> QED BY <1>p, <1>s, <1>v, <1>b, <3>1, <4>1 DEF Ctors
    <3>2. CASE s # p
      BY <1>c, <1>s, <2>1, <3>2 DEF ShapeInv
    <3> QED BY <3>1, <3>2
  <2> QED BY <1>s, <2>2, <2>3 DEF ShapeInv
<1>3. CurrentInv'
  <2>1. current[Th(p)] = UserBelow(p)
    BY <1>c, <1>p, <1>u DEF CurrentInv
  <2> QED BY <1>c, <1>p, <1>f, <1>v, <1>a, <2>1, CurrentInPlace
<1>4. OnceInv'
  BY <1>c, <1>i, <1>a DEF OnceInv
<1>5. PlaceInv'
  <2>1. mResult[r] # Invalid /\ (mIsDetached[r] => owner[r] = Null)
    BY <1>c, <1>u DEF RestInv
  <2> QED BY <1>c, <1>s, <1>u, <1>v, <1>n, <1>a, <1>t, <2>1, Names DEF PlaceInv, Ending
<1>6. RestInv'
  BY <1>c, <1>i, <1>u, <1>a, <1>t DEF RestInv
<1>7. OwnerInv'
  BY <1>c, <1>s, <1>u, <1>v, <1>a, <1>t, Names DEF OwnerInv, Ctors
<1>8. ArmedInv'
  BY <1>c, <1>i, <1>u, <1>n, <1>a, <1>t, Names DEF ArmedInv, Armed
<1>9. DisarmedInv'
  BY <1>c, <1>i, <1>u, <1>n, <1>s, <1>v, <1>a, <1>t, Names DEF DisarmedInv, Disarmed
<1>10. ContinuationInv'
  BY <1>c, <1>i, <1>u, <1>n, <1>s, <1>v, <1>a, <1>t, Names DEF ContinuationInv
<1>11. KnownInv'
  <2>1. G(p).res = Null
    BY <1>c, <1>u DEF ShapeInv
  <2> QED BY <1>c, <2>1, <1>i, <1>u, <1>n, <1>s, <1>v, <1>a, <1>t, Names DEF KnownInv
<1> QED BY <1>1, <1>2, <1>3, <1>4, <1>5, <1>6, <1>7, <1>8, <1>9, <1>10, <1>11 DEF CoreInv

\* Runner::operator() after await_suspend() took its coroutine away.
LEMMA DisarmedCallStep ==
    ASSUME CoreInv, NEW t \in Threads, At(t, "runner"), CallRunner(t),
           waitFor[Top(t).r] \in Routines
    PROVE  CoreInv'
<1>c. /\ TypeInv /\ ShapeInv /\ CurrentInv /\ OnceInv /\ PlaceInv /\ RestInv /\ OwnerInv
      /\ ArmedInv /\ DisarmedInv /\ ContinuationInv /\ KnownInv /\ Geometry
  BY SlotGeometry DEF CoreInv
<1>p. PICK p \in Slots : /\ p = <<t, Len(stack[t])>> /\ Th(p) = t /\ IsTop(p)
                         /\ G(p) = Top(t) /\ Top(t) \in FrameType /\ stack[t] # <<>>
  BY <1>c, TopFrame DEF At
<1>r. PICK r \in Routines : r = G(p).r
  BY <1>p, FrameFields
<1>u. /\ G(p).pc = "runner" /\ G(p).fn = "runner" /\ r = G(p).r /\ Called(r)
      /\ mCaller[r] = Null /\ Parked(r) /\ waitFor[r] \in Routines
      /\ ~Base(p) /\ G(Under(p)).r = waitFor[r] /\ G(Under(p)).pc = "return"
  <2>1. G(p).pc = "runner" /\ G(p).fn = "runner" /\ r = G(p).r /\ Called(r)
    BY <1>c, <1>p, <1>r DEF At, ShapeInv, Called, Call
  <2> QED BY <1>c, <1>p, <2>1 DEF DisarmedInv, Disarmed
<1>x. current[t] = Null
  BY <1>c, <1>p, <1>u DEF CurrentInv, UserBelow
<1>f. Popped(p) /\ stack' \in [Threads -> Seq(FrameType)]
  <2>1. Pop(t)
    BY <1>p, <1>r, <1>u, <1>x, Names DEF CallRunner, MayResumeHere
  <2> QED BY <1>c, <1>p, <2>1, PopStep
<1>a. /\ mCaller' = [mCaller EXCEPT ![r] = Invalid]
      /\ UNCHANGED <<blocked, queue, pending, fut, mOuter, mContinuation, mResult, mIsDetached,
                     waitFor, finished, life, owner, awaits, current>>
  BY <1>p, <1>r, <1>x DEF CallRunner, MayResumeHere
<1>t. /\ pending \subseteq Routines
      /\ fut \in [Futures -> Routines \cup {Null, Invalid}]
      /\ waitFor \in [Routines -> Routines \cup Futures \cup {Ioc, Timer, Null}]
      /\ mCaller \in [Routines -> Routines \cup {Null, Invalid}]
      /\ mResult \in [Routines -> Routines \cup Threads \cup {Null, Invalid}]
      /\ mContinuation \in [Routines -> Routines \cup {Null, Invalid}]
  BY <1>c DEF TypeInv
<1>i. /\ OneEach'
      /\ \A y : (On(y)' <=> On(y)) /\ (Called(y)' <=> Called(y) /\ y # r)
      /\ \A y \in Routines : (Asleep(y)' <=> Asleep(y)) /\ (Parked(y)' <=> Parked(y))
  BY <1>c, <1>u, <1>f, <1>a, RunnerReturns DEF OnceInv
<1>s. /\ Slots' = Slots \ {p}
      /\ \A s \in Slots : s # p => G(s)' = G(s)
      /\ \A u \in Threads : Idle(u) => Idle(u)'
      /\ \A s \in Slots : G(s).r \in Routines
      /\ \A s \in Slots : ~Base(s) => Under(s) \in Slots /\ Under(s) # p
  BY <1>c, <1>p, <1>f DEF Popped, Geometry
<1>n. /\ \A z \in Futures : fut[z] # r
      /\ ~In(r, queue) /\ r \notin pending
      /\ \A z \in Routines : mResult[z] # r
      /\ \A s \in Slots : G(s).pc = "call" => G(s).call # r
      /\ \A s \in Slots : s # p /\ G(s).fn = "runner" => G(s).r # r
      /\ \A s \in Slots : G(s).fn # "runner" /\ G(s).r = r => G(s).pc \in {"install", "spin"}
  <2>1. /\ \A z \in Futures : fut[z] # r
        /\ ~In(r, queue) /\ r \notin pending
    BY <1>c, <1>u, Names DEF ArmedInv, Armed
  <2>2. ASSUME NEW z \in Routines, mResult[z] = r
        PROVE  FALSE
    <3>1. waitFor[r] = z /\ Under(p) \in Slots
      BY <1>c, <1>s, <1>u, <2>2 DEF DisarmedInv, Disarmed
    <3>2. mResult[z] = Invalid
      BY <1>c, <1>u, <3>1 DEF PlaceInv, ShapeInv
    <3> QED BY <2>2, <3>2, Names
  <2>3. \A s \in Slots : G(s).pc = "call" => G(s).call # r
    BY <1>c, <1>u DEF DisarmedInv
  <2>4. \A s \in Slots : s # p /\ G(s).fn = "runner" => G(s).r # r
    BY <1>c, <1>u DEF OnceInv, OneEach
  <2>5. \A s \in Slots : G(s).fn # "runner" /\ G(s).r = r => G(s).pc \in {"install", "spin"}
    BY <1>c, <1>u DEF Parked, Asleep, On, Coro, OnceInv, OneEach
  <2> QED BY <2>1, <2>2, <2>3, <2>4, <2>5
<1>1. TypeInv'
  BY <1>c, <1>a, <1>f DEF TypeInv
<1>2. ShapeInv'
  BY <1>c, <1>p, <1>f, ShapeLeaving
<1>3. CurrentInv'
  BY <1>c, <1>p, <1>f, <1>u, <1>a, CurrentLeaving
<1>4. OnceInv'
  BY <1>c, <1>i, <1>a DEF OnceInv
<1>5. PlaceInv'
  <2>1. ASSUME NEW s \in Slots, G(s).fn # "runner", G(s).pc \in {"suspend", "result"}
        PROVE  G(s).r # r
    BY <1>n, <2>1
  <2> QED BY <1>c, <1>s, <1>u, <1>a, <1>t, <2>1 DEF PlaceInv
<1>6. RestInv'
  BY <1>c, <1>i, <1>a DEF RestInv
<1>7. OwnerInv'
  BY <1>c, <1>s, <1>a DEF OwnerInv
<1>8. ArmedInv'
  BY <1>c, <1>i, <1>u, <1>n, <1>a, <1>t, Names DEF ArmedInv, Armed
<1>9. DisarmedInv'
  BY <1>c, <1>i, <1>u, <1>n, <1>s, <1>a, <1>t, Names DEF DisarmedInv, Disarmed
<1>10. ContinuationInv'
  BY <1>c, <1>i, <1>s, <1>a DEF ContinuationInv
<1>11. KnownInv'
  <2>1. G(p).res = Null
    BY <1>c, <1>u DEF ShapeInv
  <2> QED BY <1>c, <1>i, <1>u, <1>s, <1>a, <2>1, Names DEF KnownInv
<1> QED BY <1>1, <1>2, <1>3, <1>4, <1>5, <1>6, <1>7, <1>8, <1>9, <1>10, <1>11 DEF CoreInv

\* Runner::operator() on a thread where a coroutine runs: it posts itself.
LEMMA RepostStep ==
    ASSUME CoreInv, NEW t \in Threads, At(t, "runner"), CallRunner(t), current[t] # Null
    PROVE  CoreInv'
<1>c. /\ TypeInv /\ ShapeInv /\ CurrentInv /\ OnceInv /\ PlaceInv /\ RestInv /\ OwnerInv
      /\ ArmedInv /\ DisarmedInv /\ ContinuationInv /\ KnownInv /\ Geometry
  BY SlotGeometry DEF CoreInv
<1>p. PICK p \in Slots : /\ p = <<t, Len(stack[t])>> /\ Th(p) = t /\ IsTop(p)
                         /\ G(p) = Top(t) /\ Top(t) \in FrameType /\ stack[t] # <<>>
  BY <1>c, TopFrame DEF At
<1>r. PICK r \in Routines : r = G(p).r
  BY <1>p, FrameFields
<1>u. /\ G(p).pc = "runner" /\ G(p).fn = "runner" /\ r = G(p).r /\ Called(r)
      /\ mCaller[r] = r /\ Asleep(r)
      /\ (waitFor[r] \in Futures => fut[waitFor[r]] = Invalid)
      /\ waitFor[r] \notin Routines /\ ~In(r, queue) /\ r \notin pending
  <2>1. G(p).pc = "runner" /\ G(p).fn = "runner" /\ r = G(p).r /\ Called(r)
    BY <1>c, <1>p, <1>r DEF At, ShapeInv, Called, Call
  <2>2. waitFor[r] \notin Routines
    BY <1>c, <1>p, <2>1 DEF CurrentInv, UserBelow, DisarmedInv
  <2>3. Armed(r)
    BY <1>c, <2>1, <2>2 DEF ArmedInv
  <2> QED BY <1>c, <2>1, <2>3 DEF Armed, ArmedInv
<1>f. Popped(p) /\ stack' \in [Threads -> Seq(FrameType)]
  BY <1>c, <1>p, PopStep DEF CallRunner, MayResumeHere
<1>a. /\ queue' = Append(queue, r)
      /\ UNCHANGED <<blocked, pending, fut, mOuter, mContinuation, mResult, mIsDetached, mCaller,
                     waitFor, finished, life, owner, awaits, current>>
  BY <1>p, <1>r DEF CallRunner, MayResumeHere
<1>q. /\ queue' \in Seq(Routines) /\ Distinct(queue')
      /\ \A y : In(y, queue') <=> In(y, queue) \/ y = r
  BY <1>c, <1>a, <1>u, AppendDeque DEF TypeInv, OnceInv
<1>t. /\ pending \subseteq Routines
      /\ fut \in [Futures -> Routines \cup {Null, Invalid}]
      /\ waitFor \in [Routines -> Routines \cup Futures \cup {Ioc, Timer, Null}]
      /\ mCaller \in [Routines -> Routines \cup {Null, Invalid}]
      /\ mResult \in [Routines -> Routines \cup Threads \cup {Null, Invalid}]
      /\ mContinuation \in [Routines -> Routines \cup {Null, Invalid}]
  BY <1>c DEF TypeInv
<1>i. /\ OneEach'
      /\ \A y : (On(y)' <=> On(y)) /\ (Called(y)' <=> Called(y) /\ y # r)
      /\ \A y \in Routines : (Asleep(y)' <=> Asleep(y)) /\ (Parked(y)' <=> Parked(y))
  BY <1>c, <1>u, <1>f, <1>a, RunnerReturns DEF OnceInv
<1>s. /\ Slots' = Slots \ {p}
      /\ \A s \in Slots : s # p => G(s)' = G(s)
      /\ \A u \in Threads : Idle(u) => Idle(u)'
      /\ \A s \in Slots : G(s).r \in Routines
      /\ \A s \in Slots : ~Base(s) => Under(s) \in Slots /\ Under(s) # p
  BY <1>c, <1>p, <1>f DEF Popped, Geometry
<1>1. TypeInv'
  BY <1>c, <1>q, <1>a, <1>f DEF TypeInv
<1>2. ShapeInv'
  BY <1>c, <1>p, <1>f, ShapeLeaving
<1>3. CurrentInv'
  BY <1>c, <1>p, <1>f, <1>u, <1>a, CurrentLeaving
<1>4. OnceInv'
  BY <1>i, <1>q DEF OnceInv
<1>5. PlaceInv'
  BY <1>c, <1>s, <1>a DEF PlaceInv
<1>6. RestInv'
  BY <1>c, <1>i, <1>a DEF RestInv
<1>7. OwnerInv'
  BY <1>c, <1>s, <1>a DEF OwnerInv
<1>8. ArmedInv'
  BY <1>c, <1>q, <1>i, <1>u, <1>a, <1>t, Names DEF ArmedInv, Armed
<1>9. DisarmedInv'
  BY <1>c, <1>i, <1>u, <1>s, <1>a, <1>t, Names DEF DisarmedInv, Disarmed
<1>10. ContinuationInv'
  BY <1>c, <1>i, <1>s, <1>a DEF ContinuationInv
<1>11. KnownInv'
  <2>1. G(p).res = Null
    BY <1>c, <1>u DEF ShapeInv
  <2> QED BY <1>c, <1>q, <1>i, <1>u, <1>s, <1>a, <2>1, Names DEF KnownInv
<1> QED BY <1>1, <1>2, <1>3, <1>4, <1>5, <1>6, <1>7, <1>8, <1>9, <1>10, <1>11 DEF CoreInv

-----------------------------------------------------------------------------
(* The end of resume() or of the constructor.                              *)

\* The constructor returns, or the loop of a Runner ends.
LEMMA ReturnStep ==
    ASSUME CoreInv, NEW t \in Threads, At(t, "return"), Return(t),
           ~(Top(t).fn = "run" /\ Top(t).res # Null)
    PROVE  CoreInv'
<1>c. /\ TypeInv /\ ShapeInv /\ CurrentInv /\ OnceInv /\ PlaceInv /\ RestInv /\ OwnerInv
      /\ ArmedInv /\ DisarmedInv /\ ContinuationInv /\ KnownInv /\ Geometry
  BY SlotGeometry DEF CoreInv
<1>p. PICK p \in Slots : /\ p = <<t, Len(stack[t])>> /\ Th(p) = t /\ IsTop(p)
                         /\ G(p) = Top(t) /\ Top(t) \in FrameType /\ stack[t] # <<>>
  BY <1>c, TopFrame DEF At
<1>r. PICK r \in Routines : r = G(p).r
  BY <1>p, FrameFields
<1>f. Popped(p) /\ stack' \in [Threads -> Seq(FrameType)]
  <2>1. Pop(t)
    BY <1>p, FrameFields, Names DEF Return, NextContinuation
  <2> QED BY <1>c, <1>p, <2>1, PopStep
<1>k. G(p).pc = "return" /\ G(p).fn # "runner" /\ r = G(p).r
  BY <1>c, <1>p, <1>r DEF At, ShapeInv
<1>l. /\ life[r] # "none" /\ finished[r] /\ mResult[r] = Invalid /\ mContinuation[r] = Invalid
      /\ G(p).res = Null
  BY <1>c, <1>p, <1>k, Names DEF PlaceInv, Ending, ShapeInv
<1>x. PICK d \in BOOLEAN : d = G(p).destruct
  BY <1>p, FrameFields
<1>a. /\ life' = [life EXCEPT ![r] = IF d THEN "freed" ELSE @]
      /\ UNCHANGED <<blocked, queue, pending, fut, mOuter, mContinuation, mResult, mIsDetached,
                     mCaller, waitFor, finished, owner, awaits, current>>
  BY <1>p, <1>r, <1>x DEF Return
<1>t. /\ pending \subseteq Routines
      /\ fut \in [Futures -> Routines \cup {Null, Invalid}]
      /\ waitFor \in [Routines -> Routines \cup Futures \cup {Ioc, Timer, Null}]
      /\ mCaller \in [Routines -> Routines \cup {Null, Invalid}]
      /\ mResult \in [Routines -> Routines \cup Threads \cup {Null, Invalid}]
      /\ mContinuation \in [Routines -> Routines \cup {Null, Invalid}]
      /\ life \in [Routines -> {"none", "alive", "freed"}]
  BY <1>c DEF TypeInv
<1>i. /\ OneEach'
      /\ \A y : (On(y)' <=> On(y) /\ y # r) /\ (Called(y)' <=> Called(y))
      /\ \A y \in Routines : y # r => (Asleep(y)' <=> Asleep(y)) /\ (Parked(y)' <=> Parked(y))
      /\ On(r) /\ ~Asleep(r)
      /\ Parked(r) <=> G(p).pc \in {"install", "spin"}
      /\ Asleep(r)' <=> life'[r] # "none" /\ ~finished'[r]
      /\ Parked(r)' <=> Asleep(r)'
  BY <1>c, <1>k, <1>f, <1>a, <1>t, Leaving DEF OnceInv
<1>n. /\ \A z \in Futures : fut[z] # r
      /\ ~In(r, queue) /\ r \notin pending /\ ~Called(r)
      /\ \A z \in Routines : mResult[z] # r /\ mContinuation[z] # r
      /\ \A s \in Slots : /\ G(s).pc = "call" => G(s).call # r
                          /\ G(s).res # r
                          /\ G(s).fn = "runner" => G(s).r # r
  BY <1>k, NoTokens
<1>s. /\ Slots' = Slots \ {p}
      /\ \A s \in Slots : s # p => G(s)' = G(s)
      /\ \A u \in Threads : Idle(u) => Idle(u)'
      /\ \A s \in Slots : G(s).r \in Routines
      /\ \A s \in Slots : ~Base(s) => Under(s) \in Slots /\ Under(s) # p
  BY <1>c, <1>p, <1>f DEF Popped, Geometry
<1>1. TypeInv'
  BY <1>c, <1>a, <1>f DEF TypeInv
<1>2. ShapeInv'
  BY <1>c, <1>p, <1>f, ShapeLeaving
<1>3. CurrentInv'
  BY <1>c, <1>p, <1>f, <1>k, <1>a, CurrentLeaving
<1>4. OnceInv'
  BY <1>c, <1>i, <1>a DEF OnceInv
<1>5. PlaceInv'
  BY <1>c, <1>s, <1>k, <1>l, <1>a, <1>t, Names DEF PlaceInv, OnceInv, OneEach, Ending
<1>6. RestInv'
  BY <1>c, <1>i, <1>l, <1>a, <1>t, Names DEF RestInv
<1>7. OwnerInv'
  BY <1>c, <1>s, <1>k, <1>l, <1>a, <1>t, Names DEF OwnerInv
<1>8. ArmedInv'
  BY <1>c, <1>i, <1>n, <1>l, <1>a, <1>t, Names DEF ArmedInv, Armed
<1>9. DisarmedInv'
  BY <1>c, <1>i, <1>n, <1>s, <1>k, <1>l, <1>a, <1>t, Names DEF DisarmedInv, Disarmed
<1>10. ContinuationInv'
  BY <1>c, <1>i, <1>n, <1>s, <1>k, <1>l, <1>a, <1>t, Names DEF ContinuationInv
<1>11. KnownInv'
  BY <1>c, <1>i, <1>n, <1>s, <1>k, <1>l, <1>a, <1>t, Names DEF KnownInv
<1> QED BY <1>1, <1>2, <1>3, <1>4, <1>5, <1>6, <1>7, <1>8, <1>9, <1>10, <1>11 DEF CoreInv

\* The loop of a Runner goes on with another coroutine.
LEMMA Continued ==
    ASSUME OneEach, NEW p \in Slots, NEW f, Retop(p, f), G(p).fn = "run", NEW r, r = G(p).r,
           NEW c \in Routines, f.fn = "run", f.r = c, f.pc = "enter", ~On(c), finished[r],
           finished' = finished, \A x \in Routines : life'[x] = "none" <=> life[x] = "none"
    PROVE  /\ OneEach'
           /\ \A x : (On(x)' <=> (On(x) /\ x # r) \/ x = c) /\ (Called(x)' <=> Called(x))
           /\ \A x \in Routines : (Asleep(x)' <=> Asleep(x) /\ x # c)
           /\ \A x \in Routines : x # c /\ x # r => (Parked(x)' <=> Parked(x))
<1>1. /\ Slots' = Slots /\ G(p)' = f
      /\ \A s \in Slots : s # p => G(s)' = G(s)
  BY DEF Retop
<1>2. OneEach'
  BY <1>1 DEF OneEach, On, Coro
<1>3. \A x : On(x)' <=> (On(x) /\ x # r) \/ x = c
  BY <1>1 DEF On, Coro, OneEach
<1>4. \A x : Called(x)' <=> Called(x)
  BY <1>1 DEF Called, Call
<1>5. \A x \in Routines : (Asleep(x)' <=> Asleep(x) /\ x # c)
  BY <1>3 DEF Asleep
<1>6. \A x \in Routines : x # c /\ x # r => (Parked(x)' <=> Parked(x))
  BY <1>1, <1>5 DEF Parked, Coro
<1> QED BY <1>2, <1>3, <1>4, <1>5, <1>6

\* The loop of Runner::operator() resumes the continuation it was given.
LEMMA ContinueStep ==
    ASSUME CoreInv, NEW t \in Threads, At(t, "return"), Return(t),
           Top(t).fn = "run", Top(t).res # Null
    PROVE  CoreInv'
<1>c. /\ TypeInv /\ ShapeInv /\ CurrentInv /\ OnceInv /\ PlaceInv /\ RestInv /\ OwnerInv
      /\ ArmedInv /\ DisarmedInv /\ ContinuationInv /\ KnownInv /\ Geometry
  BY SlotGeometry DEF CoreInv
<1>p. PICK p \in Slots : /\ p = <<t, Len(stack[t])>> /\ Th(p) = t /\ IsTop(p)
                         /\ G(p) = Top(t) /\ Top(t) \in FrameType /\ stack[t] # <<>>
  BY <1>c, TopFrame DEF At
<1>r. PICK r \in Routines : r = G(p).r
  BY <1>p, FrameFields
<1>x. PICK d \in BOOLEAN : d = G(p).destruct
  BY <1>p, FrameFields
<1>h. PICK c \in Routines : c = G(p).res
  BY <1>p, FrameFields
<1>u. /\ G(p).pc = "return" /\ G(p).fn = "run" /\ r = G(p).r /\ c = G(p).res
      /\ life[r] # "none" /\ finished[r] /\ mResult[r] = Invalid /\ mContinuation[r] = Invalid
      /\ waitFor[c] = r /\ Asleep(c) /\ ~On(c) /\ ~finished[c] /\ life[c] # "none" /\ c # r
  <2>1. G(p).pc = "return" /\ G(p).fn = "run" /\ r = G(p).r
    BY <1>p, <1>r DEF At
  <2>2. life[r] # "none" /\ finished[r] /\ mResult[r] = Invalid /\ mContinuation[r] = Invalid
    BY <1>c, <2>1 DEF PlaceInv, Ending
  <2>3. waitFor[c] = r /\ Asleep(c)
    BY <1>c, <1>h, <2>1 DEF ContinuationInv
  <2> QED BY <1>h, <2>1, <2>2, <2>3 DEF Asleep
<1>v. PICK f \in FrameType : /\ f = Frame("run", c, "enter") /\ f.fn = "run" /\ f.r = c
                             /\ f.pc = "enter" /\ f.res = Null /\ f.call = Null /\ ~f.destruct
  <2>1. PICK pc \in PCs : pc = "enter"
    BY DEF PCs
  <2>2. PICK fn \in {"ctor", "ctorLoop", "run", "runner"} : fn = "run"
    OBVIOUS
  <2> QED BY <2>1, <2>2, NewFrame
<1>f. Retop(p, f) /\ stack' \in [Threads -> Seq(FrameType)]
  <2>1. Replace(t, f)
    BY <1>p, <1>h, <1>v, Names DEF Return, NextContinuation
  <2> QED BY <1>c, <1>p, <2>1, ReplaceStep
<1>a. /\ life' = [life EXCEPT ![r] = IF d THEN "freed" ELSE @]
      /\ UNCHANGED <<blocked, queue, pending, fut, mOuter, mContinuation, mResult, mIsDetached,
                     mCaller, waitFor, finished, owner, awaits, current>>
  BY <1>p, <1>r, <1>x DEF Return
<1>t. /\ pending \subseteq Routines
      /\ fut \in [Futures -> Routines \cup {Null, Invalid}]
      /\ waitFor \in [Routines -> Routines \cup Futures \cup {Ioc, Timer, Null}]
      /\ mCaller \in [Routines -> Routines \cup {Null, Invalid}]
      /\ mResult \in [Routines -> Routines \cup Threads \cup {Null, Invalid}]
      /\ mContinuation \in [Routines -> Routines \cup {Null, Invalid}]
      /\ life \in [Routines -> {"none", "alive", "freed"}]
  BY <1>c DEF TypeInv
<1>i. /\ OneEach'
      /\ \A y : (On(y)' <=> (On(y) /\ y # r) \/ y = c) /\ (Called(y)' <=> Called(y))
      /\ \A y \in Routines : (Asleep(y)' <=> Asleep(y) /\ y # c)
      /\ \A y \in Routines : y # c /\ y # r => (Parked(y)' <=> Parked(y))
  BY <1>c, <1>u, <1>v, <1>f, <1>a, <1>t, Continued DEF OnceInv
<1>s. /\ Slots' = Slots /\ G(p)' = f
      /\ \A s \in Slots : s # p => G(s)' = G(s)
      /\ \A x \in Threads : Idle(x)' <=> Idle(x)
      /\ \A s \in Slots : G(s).r \in Routines
      /\ \A s \in Slots : ~Base(s) => Under(s) \in Slots /\ Under(s) # p
  BY <1>c, <1>p, <1>f, RetopFacts
<1>m. /\ \A z \in Routines : mResult[z] # r /\ mContinuation[z] # r
      /\ \A s \in Slots : /\ G(s).pc = "call" => G(s).call # r
                          /\ G(s).res # r
                          /\ G(s).fn = "runner" => G(s).r # r
  BY <1>u, NoTokens
<1>n. /\ \A z \in Futures : fut[z] # c
      /\ ~In(c, queue) /\ c \notin pending /\ ~Called(c)
      /\ \A z \in Routines : mResult[z] # c /\ mContinuation[z] # c
      /\ \A s \in Slots : G(s).pc = "call" => G(s).call # c
      /\ \A s \in Slots : s # p => G(s).res # c
      /\ \A s \in Slots : G(s).fn # "runner" => G(s).r # c
  <2>1. /\ \A z \in Futures : fut[z] # c
        /\ ~In(c, queue) /\ c \notin pending
    BY <1>c, <1>u, Names DEF ArmedInv, Armed
  <2>2. ASSUME NEW s \in Slots, G(s).fn = "runner", G(s).r = c
        PROVE  FALSE
    <3>1. ~Base(s) /\ G(Under(s)).r = r /\ G(Under(s)).pc = "return" /\ Under(s) \in Slots
      BY <1>c, <1>s, <1>u, <2>2 DEF DisarmedInv
    <3>2. Under(s) = p
      BY <1>c, <1>u, <3>1 DEF OnceInv, OneEach, ShapeInv
    <3> QED BY <1>s, <2>2, <3>1, <3>2
  <2>3. \A z \in Routines : mResult[z] # c /\ mContinuation[z] # c
    BY <1>c, <1>u, Names DEF DisarmedInv, Disarmed, ContinuationInv
  <2>4. ASSUME NEW s \in Slots, G(s).pc = "call", G(s).call = c
        PROVE  FALSE
    <3>1. G(s).r = r /\ G(s).fn = "run"
      BY <1>c, <1>u, <2>4 DEF DisarmedInv, Disarmed
    <3> QED BY <1>c, <1>u, <2>4, <3>1 DEF OnceInv, OneEach
  <2>5. ASSUME NEW s \in Slots, s # p, G(s).res = c
        PROVE  FALSE
    <3>1. G(s).r = r /\ G(s).fn = "run"
      BY <1>c, <1>u, <2>5, Names DEF ContinuationInv, ShapeInv
    <3> QED BY <1>c, <1>u, <2>5, <3>1 DEF OnceInv, OneEach
  <2>6. \A s \in Slots : G(s).fn # "runner" => G(s).r # c
    BY <1>u DEF On, Coro
  <2> QED BY <2>1, <2>2, <2>3, <2>4, <2>5, <2>6 DEF Called, Call
<1>1. TypeInv'
  BY <1>c, <1>a, <1>f DEF TypeInv
<1>2. ShapeInv'
  BY <1>c, <1>p, <1>f, <1>u, <1>v, ShapeInPlace
<1>3. CurrentInv'
  <2>1. current[Th(p)] = UserBelow(p)
    BY <1>c, <1>p, <1>u DEF CurrentInv
  <2> QED BY <1>c, <1>p, <1>f, <1>v, <1>a, <2>1, CurrentInPlace
<1>4. OnceInv'
  BY <1>c, <1>i, <1>a DEF OnceInv
<1>5. PlaceInv'
  <2>1. mResult[c] # Invalid /\ (mIsDetached[c] => owner[c] = Null)
    BY <1>c, <1>u DEF RestInv
  <2>2. \A s \in Slots : s # p /\ G(s).fn # "runner" => G(s).r # r
    BY <1>c, <1>u DEF OnceInv, OneEach
  <2> QED BY <1>c, <1>s, <1>u, <1>v, <1>n, <1>a, <1>t, <2>1, <2>2, Names DEF PlaceInv, Ending
<1>6. RestInv'
  BY <1>c, <1>i, <1>u, <1>a, <1>t DEF RestInv
<1>7. OwnerInv'
  BY <1>c, <1>s, <1>u, <1>v, <1>a, <1>t, Names DEF OwnerInv, Ctors
<1>8. ArmedInv'
  BY <1>c, <1>i, <1>u, <1>n, <1>a, <1>t, Names DEF ArmedInv, Armed
<1>9. DisarmedInv'
  <2>1. \A y \in Routines : \A z : y # c /\ y # r => (Disarmed(y, z)' <=> Disarmed(y, z))
    BY <1>i, <1>a DEF Disarmed
  <2>2. \A z \in Routines : mResult'[z] \in Routines => Disarmed(mResult[z], z)'
    BY <1>c, <1>m, <1>n, <1>a, <2>1 DEF DisarmedInv
  <2>3. \A s \in Slots : s # p /\ G(s).pc = "call" /\ G(s).call \in Routines =>
            Disarmed(G(s).call, G(s).r)' /\ ~Called(G(s).call)' /\ G(s).fn = "run"
    BY <1>c, <1>i, <1>m, <1>n, <1>s, <2>1 DEF DisarmedInv
  <2>4. ASSUME NEW s \in Slots, s # p, G(s).fn = "runner", waitFor[G(s).r] \in Routines
        PROVE  /\ Disarmed(G(s).r, waitFor[G(s).r])'
               /\ ~Base(s) /\ G(Under(s))'.r = waitFor'[G(s)'.r]
               /\ G(Under(s))'.pc = "return"
    <3>1. G(s).r # c /\ G(s).r # r
      BY <1>m, <1>n, <2>4 DEF Called, Call
    <3> QED BY <1>c, <1>s, <1>a, <2>1, <2>4, <3>1 DEF DisarmedInv
  <2> QED BY <1>s, <1>v, <1>a, <2>2, <2>3, <2>4 DEF DisarmedInv
<1>10. ContinuationInv'
  BY <1>c, <1>i, <1>u, <1>n, <1>s, <1>v, <1>a, <1>t, Names DEF ContinuationInv
<1>11. KnownInv'
  BY <1>c, <1>i, <1>u, <1>n, <1>s, <1>v, <1>a, <1>t, Names DEF KnownInv
<1> QED BY <1>1, <1>2, <1>3, <1>4, <1>5, <1>6, <1>7, <1>8, <1>9, <1>10, <1>11 DEF CoreInv

\* The continuation of the awaited coroutine was taken before.
LEMMA TooLateStep ==
    ASSUME CoreInv, NEW t \in Threads, At(t, "install"), Goto(t, "spin"),
           UNCHANGED <<current, blocked, queue, pending, fut, routineVars>>
    PROVE  CoreInv'
<1>c. /\ TypeInv /\ ShapeInv /\ CurrentInv /\ OnceInv /\ PlaceInv /\ RestInv /\ OwnerInv
      /\ ArmedInv /\ DisarmedInv /\ ContinuationInv /\ KnownInv /\ Geometry
  BY SlotGeometry DEF CoreInv
<1>p. PICK p \in Slots : /\ p = <<t, Len(stack[t])>> /\ Th(p) = t /\ IsTop(p)
                         /\ G(p) = Top(t) /\ Top(t) \in FrameType /\ stack[t] # <<>>
  BY <1>c, TopFrame DEF At
<1>r. PICK r \in Routines : r = G(p).r
  BY <1>p, FrameFields
<1>f. PICK f \in FrameType : /\ Retop(p, f) /\ stack' \in [Threads -> Seq(FrameType)]
                             /\ f = [Top(t) EXCEPT !.pc = "spin"]
  BY <1>c, <1>p, GotoStep DEF At, PCs
<1>k. /\ f.fn = G(p).fn /\ f.r = r /\ f.pc = "spin" /\ f.res = G(p).res /\ f.call = G(p).call
      /\ f.destruct = G(p).destruct /\ G(p).pc = "install" /\ G(p).fn # "runner" /\ r = G(p).r
  BY <1>c, <1>p, <1>r, <1>f, NextFrame DEF PCs, At, ShapeInv
<1>l. life[r] # "none" /\ ~finished[r] /\ waitFor[r] \in Routines
  BY <1>c, <1>k DEF PlaceInv, Ending
<1>a. /\ UNCHANGED <<blocked, queue, pending, fut, mOuter, mContinuation, mResult, mIsDetached,
                     mCaller, waitFor, finished, life, owner, awaits, current>>
  BY <1>p, <1>r, <1>f, <1>k DEF At, routineVars
<1>i. /\ OneEach'
      /\ \A y : (On(y)' <=> On(y)) /\ (Called(y)' <=> Called(y))
      /\ \A y \in Routines : Asleep(y)' <=> Asleep(y)
      /\ \A y \in Routines : y # r => (Parked(y)' <=> Parked(y))
      /\ On(r) /\ ~Asleep(r)
      /\ Parked(r) <=> G(p).pc \in {"install", "spin"}
      /\ Parked(r)' <=> f.pc \in {"install", "spin"}
  BY <1>c, <1>k, <1>f, <1>a, InPlace DEF OnceInv
<1>s. /\ Slots' = Slots /\ G(p)' = f
      /\ \A s \in Slots : s # p => G(s)' = G(s)
      /\ \A u \in Threads : Idle(u)' <=> Idle(u)
      /\ \A s \in Slots : G(s).r \in Routines
      /\ \A s \in Slots : ~Base(s) => Under(s) \in Slots /\ Under(s) # p
  BY <1>c, <1>p, <1>f, RetopFacts
<1>t. /\ pending \subseteq Routines
      /\ fut \in [Futures -> Routines \cup {Null, Invalid}]
      /\ waitFor \in [Routines -> Routines \cup Futures \cup {Ioc, Timer, Null}]
      /\ mCaller \in [Routines -> Routines \cup {Null, Invalid}]
      /\ mResult \in [Routines -> Routines \cup Threads \cup {Null, Invalid}]
      /\ mContinuation \in [Routines -> Routines \cup {Null, Invalid}]
  BY <1>c DEF TypeInv
<1>1. TypeInv'
  BY <1>c, <1>a, <1>f DEF TypeInv
<1>2. ShapeInv'
  <2>1. f.fn # "run" => f.res = Null
    BY <1>c, <1>k, <1>l DEF ShapeInv
  <2>2. f.fn = "runner" <=> f.pc = "runner"
    BY <1>k
  <2> QED BY <1>c, <1>p, <1>f, <1>k, <2>1, <2>2, ShapeInPlace
<1>3. CurrentInv'
  <2>1. current[Th(p)] = UserBelow(p)
    BY <1>c, <1>p, <1>k DEF CurrentInv
  <2> QED BY <1>c, <1>p, <1>f, <1>k, <1>a, <2>1, CurrentInPlace
<1>4. OnceInv'
  BY <1>c, <1>i, <1>a DEF OnceInv
<1>5. PlaceInv'
  BY <1>c, <1>s, <1>k, <1>l, <1>a, <1>t, Names DEF PlaceInv, OnceInv, OneEach, Ending
<1>6. RestInv'
  BY <1>c, <1>i, <1>l, <1>a, <1>t, Names DEF RestInv
<1>7. OwnerInv'
  BY <1>c, <1>s, <1>k, <1>l, <1>a, <1>t, Names DEF OwnerInv
<1>8. ArmedInv'
  BY <1>c, <1>i, <1>a, <1>t, Names DEF ArmedInv, Armed
<1>9. DisarmedInv'
  BY <1>c, <1>i, <1>s, <1>k, <1>l, <1>a, <1>t, Names DEF DisarmedInv, Disarmed
<1>10. ContinuationInv'
  BY <1>c, <1>i, <1>s, <1>k, <1>l, <1>a, <1>t, Names DEF ContinuationInv
<1>11. KnownInv'
  BY <1>c, <1>i, <1>s, <1>k, <1>l, <1>a, <1>t, Names DEF KnownInv
<1> QED BY <1>1, <1>2, <1>3, <1>4, <1>5, <1>6, <1>7, <1>8, <1>9, <1>10, <1>11 DEF CoreInv

\* The end of a coroutine calls the Runner of the one that awaits it.
LEMMA ResultCalled ==
    ASSUME OneEach, NEW p \in Slots, NEW g, NEW q, NEW f, PushedOn(p, g, q, f),
           G(p).fn # "runner", g.fn = G(p).fn, g.r = G(p).r, G(p).pc = "call", g.pc = "return",
           f.fn = "runner", ~Called(f.r), UNCHANGED <<life, finished>>
    PROVE  /\ OneEach'
           /\ \A x : (On(x)' <=> On(x)) /\ (Called(x)' <=> Called(x) \/ x = f.r)
           /\ \A x \in Routines : (Asleep(x)' <=> Asleep(x)) /\ (Parked(x)' <=> Parked(x))
<1>1. /\ q \notin Slots /\ Slots' = Slots \cup {q} /\ G(q)' = f /\ G(p)' = g
      /\ \A s \in Slots : s # p => G(s)' = G(s)
  BY DEF PushedOn, Added
<1>2. OneEach'
  BY <1>1 DEF OneEach, Called, Call
<1>3. \A x : On(x)' <=> On(x)
  BY <1>1 DEF On, Coro
<1>4. \A x : Called(x)' <=> Called(x) \/ x = f.r
  BY <1>1 DEF Called, Call
<1>5. \A x \in Routines : Asleep(x)' <=> Asleep(x)
  BY <1>3 DEF Asleep
<1>6. \A x \in Routines : Parked(x)' <=> Parked(x)
  BY <1>1, <1>5 DEF Parked, Coro
<1> QED BY <1>2, <1>3, <1>4, <1>5, <1>6

\* on_ready() of a coroutine that is awaited: the Runner is called from its end.
LEMMA CallRunnerOfResultStep ==
    ASSUME CoreInv, NEW t \in Threads, At(t, "call"), CallResult(t), Top(t).call \in Routines
    PROVE  CoreInv'
<1>c. /\ TypeInv /\ ShapeInv /\ CurrentInv /\ OnceInv /\ PlaceInv /\ RestInv /\ OwnerInv
      /\ ArmedInv /\ DisarmedInv /\ ContinuationInv /\ KnownInv /\ Geometry
  BY SlotGeometry DEF CoreInv
<1>p. PICK p \in Slots : /\ p = <<t, Len(stack[t])>> /\ Th(p) = t /\ IsTop(p)
                         /\ G(p) = Top(t) /\ Top(t) \in FrameType /\ stack[t] # <<>>
  BY <1>c, TopFrame DEF At
<1>r. PICK r \in Routines : r = G(p).r
  BY <1>p, FrameFields
<1>h. PICK k \in Routines : k = G(p).call
  BY <1>p
<1>u. /\ G(p).pc = "call" /\ G(p).fn = "run" /\ r = G(p).r /\ k = G(p).call
      /\ Parked(k) /\ mCaller[k] = Null /\ waitFor[k] = r /\ ~Called(k)
      /\ finished[r] /\ mResult[r] = Invalid /\ mContinuation[r] = Invalid
  <2>1. G(p).pc = "call" /\ r = G(p).r
    BY <1>p, <1>r DEF At
  <2>2. G(p).fn = "run" /\ Parked(k) /\ mCaller[k] = Null /\ waitFor[k] = r /\ ~Called(k)
    BY <1>c, <1>h, <2>1 DEF DisarmedInv, Disarmed
  <2> QED BY <1>c, <1>h, <2>1, <2>2 DEF PlaceInv, Ending
<1>v. PICK f \in FrameType : /\ f = Frame("runner", k, "runner") /\ f.fn = "runner" /\ f.r = k
                             /\ f.pc = "runner" /\ f.res = Null /\ f.call = Null /\ ~f.destruct
  <2>1. PICK pc \in PCs : pc = "runner"
    BY DEF PCs
  <2>2. PICK fn \in {"ctor", "ctorLoop", "run", "runner"} : fn = "runner"
    OBVIOUS
  <2> QED BY <2>1, <2>2, NewFrame
<1>x. PICK g : g = [Top(t) EXCEPT !.pc = "return"]
  OBVIOUS
<1>g. /\ g.fn = "run" /\ g.r = r /\ g.pc = "return" /\ g.res = G(p).res /\ g.call = G(p).call
      /\ g.destruct = G(p).destruct /\ g \in FrameType
  BY <1>p, <1>u, <1>x DEF FrameType, PCs
<1>f. stack' \in [Threads -> Seq(FrameType)] /\ \E q : PushedOn(p, g, q, f)
  <2>1. stack' = [stack EXCEPT ![t] = <<f>> \o <<g>> \o Tail(@)]
    BY <1>p, <1>h, <1>v, <1>x DEF CallResult, Top
  <2> QED BY <1>c, <1>p, <1>g, <2>1, PushOnStep
<1>q. PICK q : PushedOn(p, g, q, f)
  BY <1>f
<1>a. /\ UNCHANGED <<blocked, queue, pending, fut, mOuter, mContinuation, mResult, mIsDetached,
                     mCaller, waitFor, finished, life, owner, awaits, current>>
  <2>1. \A y \in Threads : y # k
    BY Names
  <2>2. blocked' = [y \in Threads |-> blocked[y]]
    BY <1>p, <1>h, <2>1 DEF CallResult
  <2>3. blocked' = blocked
    BY <1>c, <2>2 DEF TypeInv
  <2> QED BY <2>3 DEF CallResult, routineVars
<1>t. /\ pending \subseteq Routines
      /\ fut \in [Futures -> Routines \cup {Null, Invalid}]
      /\ waitFor \in [Routines -> Routines \cup Futures \cup {Ioc, Timer, Null}]
      /\ mCaller \in [Routines -> Routines \cup {Null, Invalid}]
      /\ mResult \in [Routines -> Routines \cup Threads \cup {Null, Invalid}]
      /\ mContinuation \in [Routines -> Routines \cup {Null, Invalid}]
  BY <1>c DEF TypeInv
<1>i. /\ OneEach'
      /\ \A y : (On(y)' <=> On(y)) /\ (Called(y)' <=> Called(y) \/ y = k)
      /\ \A y \in Routines : (Asleep(y)' <=> Asleep(y)) /\ (Parked(y)' <=> Parked(y))
  BY <1>c, <1>u, <1>v, <1>g, <1>q, <1>a, ResultCalled DEF OnceInv
<1>s. /\ Slots' = Slots \cup {q} /\ q \notin Slots /\ G(q)' = f /\ G(p)' = g /\ ~Base(q) /\ Under(q) = p
      /\ \A s \in Slots : s # p => G(s)' = G(s)
      /\ \A y \in Threads : Idle(y)' <=> Idle(y)
      /\ \A s \in Slots : G(s).r \in Routines
      /\ \A s \in Slots : ~Base(s) => Under(s) \in Slots /\ Under(s) # p
  <2>1. ~Idle(Th(p))
    BY <1>c DEF Geometry
  <2> QED BY <1>c, <1>p, <1>q, <2>1 DEF PushedOn, Added, Geometry
<1>b. /\ IsTop(q)' /\ Th(q) = t
      /\ \A s \in Slots : IsTop(s)' <=> IsTop(s) /\ Th(s) # t
      /\ \A s \in Slots : ~Below(q, s)
  BY <1>p, <1>q DEF PushedOn, Added
<1>d. /\ \A s \in Slots : s # p /\ IsTop(s) => Th(s) # t
      /\ \A s \in Slots : ~Below(p, s)
  BY <1>c, <1>p DEF Geometry
<1>1. TypeInv'
  BY <1>c, <1>a, <1>f DEF TypeInv
<1>2. ShapeInv'
  <2>1. ASSUME NEW s \in Slots, s # p
        PROVE  /\ ~IsTop(s)' => G(s)'.pc = "user" \/ (G(s)'.pc = "return" /\ G(s)'.fn = "run")
               /\ G(s)'.fn = "runner" <=> G(s)'.pc = "runner"
               /\ G(s)'.fn = "run" => \A x \in Slots' : Below(x, s) => G(x)'.pc = "return"
               /\ G(s)'.fn \in Ctors /\ ~Base(s) => G(Under(s))'.pc = "user"
               /\ G(s)'.fn # "run" => G(s)'.res = Null
    BY <1>c, <1>s, <1>b, <1>d, <2>1 DEF ShapeInv
  <2>2. /\ \A x \in Slots' : Below(x, p) => G(x)'.pc = "return"
        /\ \A x \in Slots : Below(x, p) => G(x).pc = "return"
    BY <1>c, <1>s, <1>b, <1>d, <1>u DEF ShapeInv
  <2> QED BY <1>s, <1>b, <1>g, <1>v, <2>1, <2>2 DEF ShapeInv, Ctors
<1>3. CurrentInv'
  <2>1. \A s \in Slots : UserBelow(s)' = UserBelow(s)
    BY <1>s DEF UserBelow
  <2>2. UserBelow(q)' = Null
    BY <1>s, <1>g DEF UserBelow
  <2>3. UserBelow(p) = Null
    BY <1>c, <1>u, <1>s DEF UserBelow, ShapeInv, Geometry
  <2>4. current[t] = Null
    BY <1>c, <1>p, <1>u, <2>3 DEF CurrentInv
  <2>5. \A y \in Threads : Idle(y)' => current'[y] = Null
    BY <1>c, <1>s, <1>a DEF CurrentInv
  <2>6. ASSUME NEW s \in Slots', IsTop(s)'
        PROVE  current'[Th(s)] = IF G(s)'.pc = "user" THEN G(s)'.r ELSE UserBelow(s)'
    <3>1. CASE s = q
      BY <1>s, <1>b, <1>v, <1>a, <2>2, <2>4, <3>1
    <3>2. CASE s # q
      <4>1. s \in Slots /\ IsTop(s) /\ s # p
        BY <1>s, <1>b, <1>p, <2>6, <3>2
      <4> QED BY <1>c, <1>s, <1>a, <2>1, <4>1 DEF CurrentInv
    <3> QED BY <3>1, <3>2
  <2>7. \A s \in Slots' : G(s)'.pc = "user" => mOuter'[G(s)'.r] = UserBelow(s)'
    BY <1>c, <1>s, <1>g, <1>v, <1>a, <2>1 DEF CurrentInv
  <2> QED BY <2>5, <2>6, <2>7 DEF CurrentInv
<1>4. OnceInv'
  BY <1>c, <1>i, <1>a DEF OnceInv
<1>5. PlaceInv'
  BY <1>c, <1>s, <1>u, <1>v, <1>g, <1>a DEF PlaceInv, Ending
<1>6. RestInv'
  BY <1>c, <1>i, <1>a DEF RestInv
<1>7. OwnerInv'
  BY <1>c, <1>s, <1>u, <1>v, <1>g, <1>a DEF OwnerInv, Ctors
<1>8. ArmedInv'
  BY <1>c, <1>i, <1>u, <1>a, <1>t, Names DEF ArmedInv, Armed
<1>9. DisarmedInv'
  <2>1. \A s \in Slots : s # p /\ G(s).pc = "call" => G(s).call # k
    <3>1. \A s \in Slots : G(s).pc = "call" /\ G(s).call = k => G(s).r = r /\ G(s).fn = "run"
      BY <1>c, <1>u DEF DisarmedInv, Disarmed
    <3> QED BY <1>c, <1>u, <3>1 DEF OnceInv, OneEach
  <2> QED BY <1>c, <1>i, <1>s, <1>u, <1>v, <1>g, <1>a, <1>t, <2>1 DEF DisarmedInv, Disarmed
<1>10. ContinuationInv'
  BY <1>c, <1>i, <1>s, <1>u, <1>v, <1>g, <1>a, <1>t, Names DEF ContinuationInv
<1>11. KnownInv'
  BY <1>c, <1>i, <1>s, <1>u, <1>v, <1>g, <1>a, <1>t, Names DEF KnownInv
<1> QED BY <1>1, <1>2, <1>3, <1>4, <1>5, <1>6, <1>7, <1>8, <1>9, <1>10, <1>11 DEF CoreInv

-----------------------------------------------------------------------------
(* The steps of the code that uses the library.                            *)

\* A step that leaves the stacks alone and ends and creates no coroutine.
LEMMA Quiet ==
    ASSUME OneEach, Still, UNCHANGED finished,
           \A x \in Routines : life'[x] = "none" <=> life[x] = "none"
    PROVE  /\ OneEach'
           /\ \A x : (On(x)' <=> On(x)) /\ (Called(x)' <=> Called(x))
           /\ \A x \in Routines : (Asleep(x)' <=> Asleep(x)) /\ (Parked(x)' <=> Parked(x))
<1>1. Slots' = Slots /\ \A s \in Slots : G(s)' = G(s)
  BY DEF Still
<1>2. OneEach'
  BY <1>1 DEF OneEach
<1>3. \A x : (On(x)' <=> On(x)) /\ (Called(x)' <=> Called(x))
  BY <1>1 DEF On, Called, Coro, Call
<1>4. \A x \in Routines : (Asleep(x)' <=> Asleep(x)) /\ (Parked(x)' <=> Parked(x))
  BY <1>1, <1>3 DEF Asleep, Parked, Coro
<1> QED BY <1>2, <1>3, <1>4

\* Code that uses the handle of r: nobody awaits or joins r, and the constructor
\* of r has returned.
LEMMA HandleInUse ==
    ASSUME CoreInv, NEW t \in Threads, InUserCode(t), NEW r \in Routines, owner[r] = Actor(t)
    PROVE  /\ owner[r] # Null /\ life[r] # "none" /\ mResult[r] \notin Threads
           /\ \A y \in Routines : waitFor[y] # r
           /\ \A s \in Slots : G(s).fn \in Ctors => G(s).r # r
<1>c. /\ TypeInv /\ ShapeInv /\ OnceInv /\ PlaceInv /\ RestInv /\ OwnerInv /\ Geometry
  BY SlotGeometry DEF CoreInv
<1>1. CASE Idle(t)
  <2>1. owner[r] = t /\ blocked[t] = Null
    BY <1>1 DEF InUserCode, Actor, Idle, At
  <2>2. \A y \in Routines : waitFor[y] # r
    BY <1>c, <2>1, Names DEF OwnerInv
  <2>3. \A s \in Slots : G(s).fn \in Ctors => G(s).r # r
    BY <1>c, <1>1, <2>1, Names DEF OwnerInv, Geometry
  <2>4. owner[r] # Null /\ life[r] # "none" /\ mResult[r] \notin Threads
    BY <1>c, <2>1, Names DEF OwnerInv, RestInv
  <2> QED BY <2>2, <2>3, <2>4
<1>2. CASE ~Idle(t)
  <2>1. At(t, "user") /\ stack[t] # <<>>
    BY <1>2 DEF InUserCode, Idle
  <2>2. PICK p \in Slots : Th(p) = t /\ IsTop(p) /\ G(p) = Top(t) /\ Top(t) \in FrameType
    BY <1>c, <2>1, TopFrame
  <2>3. /\ G(p).pc = "user" /\ G(p).fn # "runner" /\ owner[r] = G(p).r /\ G(p).r \in Routines
        /\ waitFor[G(p).r] = Null
    <3>1. G(p).pc = "user" /\ G(p).fn # "runner" /\ owner[r] = G(p).r
      BY <1>c, <1>2, <2>1, <2>2 DEF At, ShapeInv, Actor, Idle
    <3> QED BY <1>c, <3>1 DEF PlaceInv, Geometry
  <2>4. \A y \in Routines : waitFor[y] # r
    BY <1>c, <2>3, Names DEF OwnerInv
  <2>5. ASSUME NEW s \in Slots, G(s).fn \in Ctors, G(s).r = r
        PROVE  FALSE
    <3>1. ~Base(s) /\ owner[r] = G(Under(s)).r
      BY <1>c, <2>3, <2>5, Names DEF OwnerInv, Geometry
    <3>2. Under(s) \in Slots /\ ~IsTop(Under(s)) /\ G(Under(s)).pc = "user"
      BY <1>c, <2>5, <3>1 DEF ShapeInv, Geometry
    <3>3. G(Under(s)).fn # "runner"
      BY <1>c, <3>2 DEF ShapeInv
    <3>4. Under(s) = p
      BY <1>c, <2>3, <3>1, <3>2, <3>3 DEF OnceInv, OneEach
    <3> QED BY <2>2, <3>2, <3>4
  <2>6. owner[r] # Null /\ life[r] # "none" /\ mResult[r] \notin Threads
    BY <1>c, <2>3, Names DEF OwnerInv, RestInv
  <2> QED BY <2>4, <2>5, <2>6
<1> QED BY <1>1, <1>2

\* detach().
LEMMA DetachStep ==
    ASSUME CoreInv, NEW t \in Threads, NEW r \in Routines, Detach(t, r)
    PROVE  CoreInv'
<1>c. /\ TypeInv /\ ShapeInv /\ CurrentInv /\ OnceInv /\ PlaceInv /\ RestInv /\ OwnerInv
      /\ ArmedInv /\ DisarmedInv /\ ContinuationInv /\ KnownInv /\ Geometry
  BY SlotGeometry DEF CoreInv
<1>f. UNCHANGED stack /\ Still
  BY StillStep DEF Detach
<1>a. /\ owner' = [owner EXCEPT ![r] = Null]
      /\ mIsDetached' = [mIsDetached EXCEPT ![r] = TRUE]
      /\ life' = [life EXCEPT ![r] = IF mIsDetached[r] THEN "freed" ELSE @]
      /\ UNCHANGED <<blocked, queue, pending, fut, mOuter, mContinuation, mResult, mCaller,
                     waitFor, finished, awaits, current>>
  BY DEF Detach, routineVars
<1>t. /\ pending \subseteq Routines
      /\ fut \in [Futures -> Routines \cup {Null, Invalid}]
      /\ waitFor \in [Routines -> Routines \cup Futures \cup {Ioc, Timer, Null}]
      /\ mCaller \in [Routines -> Routines \cup {Null, Invalid}]
      /\ mResult \in [Routines -> Routines \cup Threads \cup {Null, Invalid}]
      /\ mContinuation \in [Routines -> Routines \cup {Null, Invalid}]
      /\ owner \in [Routines -> Routines \cup Threads \cup {Null}]
      /\ life \in [Routines -> {"none", "alive", "freed"}]
      /\ mIsDetached \in [Routines -> BOOLEAN]
      /\ blocked \in [Threads -> Routines \cup {Null}]
      /\ finished \in [Routines -> BOOLEAN]
  BY <1>c DEF TypeInv
<1>l. /\ owner[r] # Null /\ life[r] # "none" /\ mResult[r] \notin Threads
      /\ \A y \in Routines : waitFor[y] # r
      /\ \A s \in Slots : G(s).fn \in Ctors => G(s).r # r
      /\ mIsDetached[r] => finished[r]
  <2>1. /\ owner[r] # Null /\ life[r] # "none" /\ mResult[r] \notin Threads
        /\ \A y \in Routines : waitFor[y] # r
        /\ \A s \in Slots : G(s).fn \in Ctors => G(s).r # r
    BY HandleInUse DEF Detach
  <2> QED BY <1>c, <2>1 DEF RestInv
<1>i. /\ OneEach'
      /\ \A y : (On(y)' <=> On(y)) /\ (Called(y)' <=> Called(y))
      /\ \A y \in Routines : (Asleep(y)' <=> Asleep(y)) /\ (Parked(y)' <=> Parked(y))
  BY <1>c, <1>a, <1>t, <1>f, <1>l, Quiet DEF OnceInv
<1>s. /\ Slots' = Slots
      /\ \A s \in Slots : G(s)' = G(s)
      /\ \A y \in Threads : Idle(y)' <=> Idle(y)
      /\ \A s \in Slots : G(s).r \in Routines
      /\ \A s \in Slots : ~Base(s) => Under(s) \in Slots
  BY <1>c, <1>f DEF Still, Geometry
<1>1. TypeInv'
  BY <1>c, <1>a, <1>f, <1>l DEF TypeInv
<1>2. ShapeInv'
  <2>1. \A s \in Slots : IsTop(s)' <=> IsTop(s)
    BY <1>f DEF Still
  <2> QED BY <1>c, <1>s, <2>1 DEF ShapeInv
<1>3. CurrentInv'
  <2>1. \A s \in Slots : (IsTop(s)' <=> IsTop(s)) /\ UserBelow(s)' = UserBelow(s)
    BY <1>f, <1>s DEF Still, UserBelow
  <2> QED BY <1>c, <1>s, <1>a, <2>1 DEF CurrentInv
<1>4. OnceInv'
  BY <1>c, <1>i, <1>a DEF OnceInv
<1>5. PlaceInv'
  BY <1>c, <1>s, <1>a, <1>t, <1>l, Names DEF PlaceInv
<1>6. RestInv'
  BY <1>c, <1>i, <1>a, <1>t, <1>l, Names DEF RestInv
<1>7. OwnerInv'
  BY <1>c, <1>s, <1>a, <1>t, <1>l, Names DEF OwnerInv
<1>8. ArmedInv'
  BY <1>c, <1>i, <1>a, <1>t, Names DEF ArmedInv, Armed
<1>9. DisarmedInv'
  BY <1>c, <1>i, <1>s, <1>a, <1>t, Names DEF DisarmedInv, Disarmed
<1>10. ContinuationInv'
  BY <1>c, <1>i, <1>s, <1>a, <1>t, Names DEF ContinuationInv
<1>11. KnownInv'
  BY <1>c, <1>i, <1>s, <1>a, <1>t, Names DEF KnownInv
<1> QED BY <1>1, <1>2, <1>3, <1>4, <1>5, <1>6, <1>7, <1>8, <1>9, <1>10, <1>11 DEF CoreInv

\* The handle of a coroutine that is ready goes out of scope.
LEMMA DropStep ==
    ASSUME CoreInv, NEW t \in Threads, NEW r \in Routines, Drop(t, r)
    PROVE  CoreInv'
<1>c. /\ TypeInv /\ ShapeInv /\ CurrentInv /\ OnceInv /\ PlaceInv /\ RestInv /\ OwnerInv
      /\ ArmedInv /\ DisarmedInv /\ ContinuationInv /\ KnownInv /\ Geometry
  BY SlotGeometry DEF CoreInv
<1>f. UNCHANGED stack /\ Still
  BY StillStep DEF Drop
<1>a. /\ owner' = [owner EXCEPT ![r] = Null]
      /\ life' = [life EXCEPT ![r] = "freed"]
      /\ UNCHANGED <<blocked, queue, pending, fut, mOuter, mContinuation, mResult, mIsDetached,
                     mCaller, waitFor, finished, awaits, current>>
  BY DEF Drop, routineVars
<1>t. /\ pending \subseteq Routines
      /\ fut \in [Futures -> Routines \cup {Null, Invalid}]
      /\ waitFor \in [Routines -> Routines \cup Futures \cup {Ioc, Timer, Null}]
      /\ mCaller \in [Routines -> Routines \cup {Null, Invalid}]
      /\ mResult \in [Routines -> Routines \cup Threads \cup {Null, Invalid}]
      /\ mContinuation \in [Routines -> Routines \cup {Null, Invalid}]
      /\ owner \in [Routines -> Routines \cup Threads \cup {Null}]
      /\ life \in [Routines -> {"none", "alive", "freed"}]
      /\ mIsDetached \in [Routines -> BOOLEAN]
      /\ blocked \in [Threads -> Routines \cup {Null}]
      /\ finished \in [Routines -> BOOLEAN]
  BY <1>c DEF TypeInv
<1>l. /\ owner[r] # Null /\ life[r] # "none" /\ mResult[r] \notin Threads
      /\ \A y \in Routines : waitFor[y] # r
      /\ \A s \in Slots : G(s).fn \in Ctors => G(s).r # r
      /\ finished[r]
  <2>1. /\ owner[r] # Null /\ life[r] # "none" /\ mResult[r] \notin Threads
        /\ \A y \in Routines : waitFor[y] # r
        /\ \A s \in Slots : G(s).fn \in Ctors => G(s).r # r
    BY HandleInUse DEF Drop
  <2>2. mResult[r] = Invalid
    BY DEF Drop, IsReady
  <2> QED BY <1>c, <2>1, <2>2 DEF RestInv
<1>i. /\ OneEach'
      /\ \A y : (On(y)' <=> On(y)) /\ (Called(y)' <=> Called(y))
      /\ \A y \in Routines : (Asleep(y)' <=> Asleep(y)) /\ (Parked(y)' <=> Parked(y))
  BY <1>c, <1>a, <1>t, <1>f, <1>l, Quiet DEF OnceInv
<1>s. /\ Slots' = Slots
      /\ \A s \in Slots : G(s)' = G(s)
      /\ \A y \in Threads : Idle(y)' <=> Idle(y)
      /\ \A s \in Slots : G(s).r \in Routines
      /\ \A s \in Slots : ~Base(s) => Under(s) \in Slots
  BY <1>c, <1>f DEF Still, Geometry
<1>1. TypeInv'
  BY <1>c, <1>a, <1>f, <1>l DEF TypeInv
<1>2. ShapeInv'
  <2>1. \A s \in Slots : IsTop(s)' <=> IsTop(s)
    BY <1>f DEF Still
  <2> QED BY <1>c, <1>s, <2>1 DEF ShapeInv
<1>3. CurrentInv'
  <2>1. \A s \in Slots : (IsTop(s)' <=> IsTop(s)) /\ UserBelow(s)' = UserBelow(s)
    BY <1>f, <1>s DEF Still, UserBelow
  <2> QED BY <1>c, <1>s, <1>a, <2>1 DEF CurrentInv
<1>4. OnceInv'
  BY <1>c, <1>i, <1>a DEF OnceInv
<1>5. PlaceInv'
  BY <1>c, <1>s, <1>a, <1>t, <1>l, Names DEF PlaceInv
<1>6. RestInv'
  BY <1>c, <1>i, <1>a, <1>t, <1>l, Names DEF RestInv
<1>7. OwnerInv'
  BY <1>c, <1>s, <1>a, <1>t, <1>l, Names DEF OwnerInv
<1>8. ArmedInv'
  BY <1>c, <1>i, <1>a, <1>t, Names DEF ArmedInv, Armed
<1>9. DisarmedInv'
  BY <1>c, <1>i, <1>s, <1>a, <1>t, Names DEF DisarmedInv, Disarmed
<1>10. ContinuationInv'
  BY <1>c, <1>i, <1>s, <1>a, <1>t, Names DEF ContinuationInv
<1>11. KnownInv'
  BY <1>c, <1>i, <1>s, <1>a, <1>t, Names DEF KnownInv
<1> QED BY <1>1, <1>2, <1>3, <1>4, <1>5, <1>6, <1>7, <1>8, <1>9, <1>10, <1>11 DEF CoreInv

\* join() on a thread that has to wait.
LEMMA JoinStep ==
    ASSUME CoreInv, NEW t \in Threads, NEW r \in Routines, Join(t, r)
    PROVE  CoreInv'
<1>c. /\ TypeInv /\ ShapeInv /\ CurrentInv /\ OnceInv /\ PlaceInv /\ RestInv /\ OwnerInv
      /\ ArmedInv /\ DisarmedInv /\ ContinuationInv /\ KnownInv /\ Geometry
  BY SlotGeometry DEF CoreInv
<1>f. UNCHANGED stack /\ Still
  BY StillStep DEF Join
<1>a. /\ mResult' = [mResult EXCEPT ![r] = t]
      /\ blocked' = [blocked EXCEPT ![t] = r]
      /\ UNCHANGED <<queue, pending, fut, mOuter, mContinuation, mIsDetached, mCaller, waitFor,
                     finished, life, owner, awaits, current>>
  BY DEF Join, routineVars
<1>t. /\ pending \subseteq Routines
      /\ fut \in [Futures -> Routines \cup {Null, Invalid}]
      /\ waitFor \in [Routines -> Routines \cup Futures \cup {Ioc, Timer, Null}]
      /\ mCaller \in [Routines -> Routines \cup {Null, Invalid}]
      /\ mResult \in [Routines -> Routines \cup Threads \cup {Null, Invalid}]
      /\ mContinuation \in [Routines -> Routines \cup {Null, Invalid}]
      /\ owner \in [Routines -> Routines \cup Threads \cup {Null}]
      /\ life \in [Routines -> {"none", "alive", "freed"}]
      /\ mIsDetached \in [Routines -> BOOLEAN]
      /\ blocked \in [Threads -> Routines \cup {Null}]
      /\ finished \in [Routines -> BOOLEAN]
  BY <1>c DEF TypeInv
<1>l. /\ Idle(t) /\ t \notin IoThreads /\ blocked[t] = Null /\ owner[r] = t /\ mResult[r] = Null
  BY DEF Join, Idle
<1>i. /\ OneEach'
      /\ \A y : (On(y)' <=> On(y)) /\ (Called(y)' <=> Called(y))
      /\ \A y \in Routines : (Asleep(y)' <=> Asleep(y)) /\ (Parked(y)' <=> Parked(y))
  BY <1>c, <1>a, <1>t, <1>f, Quiet DEF OnceInv
<1>s. /\ Slots' = Slots
      /\ \A s \in Slots : G(s)' = G(s)
      /\ \A y \in Threads : Idle(y)' <=> Idle(y)
      /\ \A s \in Slots : G(s).r \in Routines
      /\ \A s \in Slots : ~Base(s) => Under(s) \in Slots
  BY <1>c, <1>f DEF Still, Geometry
<1>1. TypeInv'
  BY <1>c, <1>a, <1>f, <1>l DEF TypeInv
<1>2. ShapeInv'
  <2>1. \A s \in Slots : IsTop(s)' <=> IsTop(s)
    BY <1>f DEF Still
  <2> QED BY <1>c, <1>s, <2>1 DEF ShapeInv
<1>3. CurrentInv'
  <2>1. \A s \in Slots : (IsTop(s)' <=> IsTop(s)) /\ UserBelow(s)' = UserBelow(s)
    BY <1>f, <1>s DEF Still, UserBelow
  <2> QED BY <1>c, <1>s, <1>a, <2>1 DEF CurrentInv
<1>4. OnceInv'
  BY <1>c, <1>i, <1>a DEF OnceInv
<1>5. PlaceInv'
  BY <1>c, <1>s, <1>a, <1>t, <1>l, Names DEF PlaceInv
<1>6. RestInv'
  BY <1>c, <1>i, <1>a, <1>t, <1>l, Names DEF RestInv
<1>7. OwnerInv'
  BY <1>c, <1>s, <1>a, <1>t, <1>l, Names DEF OwnerInv
<1>8. ArmedInv'
  BY <1>c, <1>i, <1>a, <1>t, Names DEF ArmedInv, Armed
<1>9. DisarmedInv'
  BY <1>c, <1>i, <1>s, <1>a, <1>t, Names DEF DisarmedInv, Disarmed
<1>10. ContinuationInv'
  BY <1>c, <1>i, <1>s, <1>a, <1>t, Names DEF ContinuationInv
<1>11. KnownInv'
  BY <1>c, <1>i, <1>s, <1>a, <1>t, Names DEF KnownInv
<1> QED BY <1>1, <1>2, <1>3, <1>4, <1>5, <1>6, <1>7, <1>8, <1>9, <1>10, <1>11 DEF CoreInv

\* A promise is set before anybody awaits the future.
LEMMA SetUnawaitedStep ==
    ASSUME CoreInv, NEW t \in Threads, NEW f \in Futures, SetFuture(t, f), fut[f] = Null
    PROVE  CoreInv'
<1>c. /\ TypeInv /\ ShapeInv /\ CurrentInv /\ OnceInv /\ PlaceInv /\ RestInv /\ OwnerInv
      /\ ArmedInv /\ DisarmedInv /\ ContinuationInv /\ KnownInv /\ Geometry
  BY SlotGeometry DEF CoreInv
<1>f. UNCHANGED stack /\ Still
  BY StillStep DEF SetFuture
<1>a. /\ fut' = [fut EXCEPT ![f] = Invalid]
      /\ UNCHANGED <<blocked, queue, pending, mOuter, mContinuation, mResult, mIsDetached,
                     mCaller, waitFor, finished, life, owner, awaits, current>>
  BY DEF SetFuture, routineVars
<1>t. /\ pending \subseteq Routines
      /\ fut \in [Futures -> Routines \cup {Null, Invalid}]
      /\ waitFor \in [Routines -> Routines \cup Futures \cup {Ioc, Timer, Null}]
      /\ mCaller \in [Routines -> Routines \cup {Null, Invalid}]
      /\ mResult \in [Routines -> Routines \cup Threads \cup {Null, Invalid}]
      /\ mContinuation \in [Routines -> Routines \cup {Null, Invalid}]
      /\ owner \in [Routines -> Routines \cup Threads \cup {Null}]
      /\ life \in [Routines -> {"none", "alive", "freed"}]
      /\ mIsDetached \in [Routines -> BOOLEAN]
      /\ blocked \in [Threads -> Routines \cup {Null}]
      /\ finished \in [Routines -> BOOLEAN]
  BY <1>c DEF TypeInv
<1>l. fut[f] = Null
  OBVIOUS
<1>i. /\ OneEach'
      /\ \A y : (On(y)' <=> On(y)) /\ (Called(y)' <=> Called(y))
      /\ \A y \in Routines : (Asleep(y)' <=> Asleep(y)) /\ (Parked(y)' <=> Parked(y))
  BY <1>c, <1>a, <1>t, <1>f, Quiet DEF OnceInv
<1>s. /\ Slots' = Slots
      /\ \A s \in Slots : G(s)' = G(s)
      /\ \A y \in Threads : Idle(y)' <=> Idle(y)
      /\ \A s \in Slots : G(s).r \in Routines
      /\ \A s \in Slots : ~Base(s) => Under(s) \in Slots
  BY <1>c, <1>f DEF Still, Geometry
<1>1. TypeInv'
  BY <1>c, <1>a, <1>f, <1>l DEF TypeInv
<1>2. ShapeInv'
  <2>1. \A s \in Slots : IsTop(s)' <=> IsTop(s)
    BY <1>f DEF Still
  <2> QED BY <1>c, <1>s, <2>1 DEF ShapeInv
<1>3. CurrentInv'
  <2>1. \A s \in Slots : (IsTop(s)' <=> IsTop(s)) /\ UserBelow(s)' = UserBelow(s)
    BY <1>f, <1>s DEF Still, UserBelow
  <2> QED BY <1>c, <1>s, <1>a, <2>1 DEF CurrentInv
<1>4. OnceInv'
  BY <1>c, <1>i, <1>a DEF OnceInv
<1>5. PlaceInv'
  BY <1>c, <1>s, <1>a, <1>t, <1>l, Names DEF PlaceInv
<1>6. RestInv'
  BY <1>c, <1>i, <1>a, <1>t, <1>l, Names DEF RestInv
<1>7. OwnerInv'
  BY <1>c, <1>s, <1>a, <1>t, <1>l, Names DEF OwnerInv
<1>8. ArmedInv'
  BY <1>c, <1>i, <1>a, <1>t, Names DEF ArmedInv, Armed
<1>9. DisarmedInv'
  BY <1>c, <1>i, <1>s, <1>a, <1>t, Names DEF DisarmedInv, Disarmed
<1>10. ContinuationInv'
  BY <1>c, <1>i, <1>s, <1>a, <1>t, Names DEF ContinuationInv
<1>11. KnownInv'
  BY <1>c, <1>i, <1>s, <1>a, <1>t, Names DEF KnownInv
<1> QED BY <1>1, <1>2, <1>3, <1>4, <1>5, <1>6, <1>7, <1>8, <1>9, <1>10, <1>11 DEF CoreInv

\* Nobody knows a coroutine that has not been created.
LEMMA Unborn ==
    ASSUME CoreInv, NEW r \in Routines, life[r] = "none"
    PROVE  /\ ~On(r) /\ ~Called(r) /\ ~Parked(r) /\ ~Asleep(r) /\ ~finished[r]
           /\ owner[r] = Null /\ waitFor[r] = Null /\ ~mIsDetached[r] /\ mResult[r] # Invalid
           /\ mResult[r] \notin Threads
           /\ \A y \in Routines : waitFor[y] # r
<1>c. /\ TypeInv /\ PlaceInv /\ RestInv /\ OwnerInv /\ ArmedInv
  BY DEF CoreInv
<1>1. ~On(r)
  BY <1>c DEF PlaceInv, On, Coro
<1>2. /\ ~Asleep(r) /\ ~finished[r] /\ owner[r] = Null /\ waitFor[r] = Null /\ ~mIsDetached[r]
      /\ mResult[r] # Invalid
  BY <1>c DEF RestInv, Asleep
<1>3. ~Parked(r)
  BY <1>1, <1>2 DEF Parked, On
<1>4. ~Called(r)
  BY <1>c, <1>2, Names DEF ArmedInv, Armed
<1>5. mResult[r] \notin Threads /\ \A y \in Routines : waitFor[y] # r
  BY <1>c, <1>2, Names DEF OwnerInv
<1> QED BY <1>1, <1>2, <1>3, <1>4, <1>5

\* A coroutine starts.
LEMMA Created ==
    ASSUME OneEach, NEW t, NEW q, NEW f, Pushed(t, q, f), f.fn # "runner", f.pc = "user",
           NEW r, r = f.r, ~On(r), ~Asleep(r), ~Parked(r), UNCHANGED finished,
           \A x \in Routines : x # r => life'[x] = life[x]
    PROVE  /\ OneEach'
           /\ \A x : (On(x)' <=> On(x) \/ x = r) /\ (Called(x)' <=> Called(x))
           /\ \A x \in Routines : (Asleep(x)' <=> Asleep(x)) /\ (Parked(x)' <=> Parked(x))
<1>1. /\ q \notin Slots /\ Slots' = Slots \cup {q} /\ G(q)' = f
      /\ \A s \in Slots : G(s)' = G(s)
  BY DEF Pushed, Added
<1>2. OneEach'
  BY <1>1 DEF OneEach, On, Coro
<1>3. \A x : (On(x)' <=> On(x) \/ x = r) /\ (Called(x)' <=> Called(x))
  <2>1. \A x : On(x)' <=> On(x) \/ x = r
    BY <1>1 DEF On, Coro
  <2>2. \A x : Called(x)' <=> Called(x)
    BY <1>1 DEF Called, Call
  <2> QED BY <2>1, <2>2
<1>4. \A x \in Routines : Asleep(x)' <=> Asleep(x)
  BY <1>3 DEF Asleep
<1>5. \A x \in Routines : Parked(x)' <=> Parked(x)
  BY <1>1, <1>4 DEF Parked, Coro
<1> QED BY <1>2, <1>3, <1>4, <1>5

\* Routine{f}.
LEMMA SpawnStep ==
    ASSUME CoreInv, NEW t \in Threads, NEW r \in Routines, Spawn(t, r)
    PROVE  CoreInv'
<1>c. /\ TypeInv /\ ShapeInv /\ CurrentInv /\ OnceInv /\ PlaceInv /\ RestInv /\ OwnerInv
      /\ ArmedInv /\ DisarmedInv /\ ContinuationInv /\ KnownInv /\ Geometry
  BY SlotGeometry DEF CoreInv
<1>u. life[r] = "none" /\ InUserCode(t)
  BY DEF Spawn
<1>n. /\ ~On(r) /\ ~Called(r) /\ ~Parked(r) /\ ~Asleep(r) /\ ~finished[r]
      /\ owner[r] = Null /\ waitFor[r] = Null /\ ~mIsDetached[r] /\ mResult[r] # Invalid
      /\ mResult[r] \notin Threads
      /\ \A y \in Routines : waitFor[y] # r
  BY <1>u, Unborn
<1>v. PICK f \in FrameType : /\ f = Frame("ctor", r, "user") /\ f.fn = "ctor" /\ f.r = r
                             /\ f.pc = "user" /\ f.res = Null /\ f.call = Null /\ ~f.destruct
  <2>1. PICK pc \in PCs : pc = "user"
    BY DEF PCs
  <2>2. PICK fn \in {"ctor", "ctorLoop", "run", "runner"} : fn = "ctor"
    OBVIOUS
  <2> QED BY <2>1, <2>2, NewFrame
<1>f. stack' \in [Threads -> Seq(FrameType)] /\ \E q : Pushed(t, q, f)
  <2>1. Push(t, f)
    BY <1>v DEF Spawn
  <2> QED BY <1>c, <2>1, PushStep
<1>q. PICK q : Pushed(t, q, f)
  BY <1>f
<1>a. /\ life' = [life EXCEPT ![r] = "alive"]
      /\ owner' = [owner EXCEPT ![r] = Actor(t)]
      /\ mOuter' = [mOuter EXCEPT ![r] = current[t]]
      /\ current' = [current EXCEPT ![t] = r]
      /\ UNCHANGED <<blocked, queue, pending, fut, mContinuation, mResult, mIsDetached, mCaller,
                     waitFor, finished, awaits>>
  BY DEF Spawn
<1>t. /\ pending \subseteq Routines
      /\ fut \in [Futures -> Routines \cup {Null, Invalid}]
      /\ waitFor \in [Routines -> Routines \cup Futures \cup {Ioc, Timer, Null}]
      /\ mCaller \in [Routines -> Routines \cup {Null, Invalid}]
      /\ mResult \in [Routines -> Routines \cup Threads \cup {Null, Invalid}]
      /\ mContinuation \in [Routines -> Routines \cup {Null, Invalid}]
      /\ owner \in [Routines -> Routines \cup Threads \cup {Null}]
      /\ life \in [Routines -> {"none", "alive", "freed"}]
      /\ mIsDetached \in [Routines -> BOOLEAN]
      /\ finished \in [Routines -> BOOLEAN]
      /\ mOuter \in [Routines -> Routines \cup {Null}]
      /\ current \in [Threads -> Routines \cup {Null}]
      /\ blocked \in [Threads -> Routines \cup {Null}]
  BY <1>c DEF TypeInv
<1>i. /\ OneEach'
      /\ \A y : (On(y)' <=> On(y) \/ y = r) /\ (Called(y)' <=> Called(y))
      /\ \A y \in Routines : (Asleep(y)' <=> Asleep(y)) /\ (Parked(y)' <=> Parked(y))
  BY <1>c, <1>n, <1>v, <1>q, <1>a, <1>t, Created DEF OnceInv
<1>s. /\ Slots' = Slots \cup {q} /\ q \notin Slots /\ G(q)' = f
      /\ \A s \in Slots : G(s)' = G(s)
      /\ \A y \in Threads : Idle(y)' <=> Idle(y) /\ y # t
      /\ \A s \in Slots : G(s).r \in Routines
      /\ \A s \in Slots : ~Base(s) => Under(s) \in Slots
      /\ ~Base(q) => Under(q) \in Slots
      /\ Base(q) <=> Idle(t)
  BY <1>c, <1>q DEF Pushed, Added, Geometry
<1>b. /\ IsTop(q)' /\ Th(q) = t
      /\ \A s \in Slots : IsTop(s)' <=> IsTop(s) /\ Th(s) # t
      /\ \A s \in Slots : ~Below(q, s)
  BY <1>q DEF Pushed, Added
<1>m. \A s \in Slots : G(s).fn # "runner" => G(s).r # r
  BY <1>n DEF On, Coro
<1>d. ASSUME ~Base(q)
      PROVE  /\ Under(q) \in Slots /\ G(Under(q)).pc = "user" /\ G(Under(q)).fn # "runner"
             /\ Actor(t) = G(Under(q)).r /\ current[t] = G(Under(q)).r /\ blocked[t] = Null
             /\ IsTop(Under(q)) /\ Th(Under(q)) = t
             /\ life[Actor(t)] # "none" /\ ~finished[Actor(t)]
  <2>1. ~Idle(t) /\ stack[t] # <<>>
    BY <1>s, <1>d DEF Idle
  <2>2. At(t, "user")
    BY <1>u, <2>1 DEF InUserCode
  <2>3. PICK p \in Slots : Th(p) = t /\ IsTop(p) /\ G(p) = Top(t)
    BY <1>c, <2>1, TopFrame
  <2>4. Under(q) \in Slots /\ IsTop(Under(q)) /\ Th(Under(q)) = t
    BY <1>q, <1>d DEF Pushed, Added
  <2>5. p = Under(q)
    BY <1>c, <2>3, <2>4 DEF Geometry
  <2>6. G(p).pc = "user" /\ G(p).fn # "runner" /\ Actor(t) = G(p).r
    BY <1>c, <2>1, <2>2, <2>3 DEF At, ShapeInv, Actor
  <2>7. current[t] = G(p).r /\ blocked[t] = Null /\ life[G(p).r] # "none" /\ ~finished[G(p).r]
    <3>1. current[t] = G(p).r
      BY <1>c, <2>3, <2>6 DEF CurrentInv
    <3>2. blocked[t] = Null
      BY <1>c, <2>1 DEF OwnerInv
    <3>3. life[G(p).r] # "none" /\ ~finished[G(p).r]
      BY <1>c, <2>3, <2>6 DEF PlaceInv, Ending
    <3> QED BY <3>1, <3>2, <3>3
  <2> QED BY <2>4, <2>5, <2>6, <2>7
<1>e. ASSUME Base(q)
      PROVE  /\ Idle(t) /\ Actor(t) = t /\ current[t] = Null /\ blocked[t] = Null
  <2>1. Idle(t) /\ stack[t] = <<>>
    BY <1>s, <1>e DEF Idle
  <2> QED BY <1>c, <1>u, <2>1 DEF Actor, InUserCode, At, CurrentInv
<1>g. Actor(t) \in Routines \cup Threads
  BY <1>d, <1>e, <1>s
<1>1. TypeInv'
  BY <1>c, <1>a, <1>f, <1>g DEF TypeInv
<1>2. ShapeInv'
  <2>1. \A s \in Slots : IsTop(s) /\ ~IsTop(s)' => G(s).pc = "user"
    <3> SUFFICES ASSUME NEW s \in Slots, IsTop(s), Th(s) = t PROVE G(s).pc = "user"
      BY <1>b
    <3>1. ~Base(q)
      BY <1>c, <1>s DEF Geometry
    <3>2. s = Under(q)
      BY <1>c, <1>d, <3>1 DEF Geometry
    <3> QED BY <1>d, <3>1, <3>2
  <2>2. ASSUME NEW s \in Slots
        PROVE  /\ ~IsTop(s)' => G(s)'.pc = "user" \/ (G(s)'.pc = "return" /\ G(s)'.fn = "run")
               /\ G(s)'.fn = "runner" <=> G(s)'.pc = "runner"
               /\ G(s)'.fn = "run" => \A x \in Slots' : Below(x, s) => G(x)'.pc = "return"
               /\ G(s)'.fn \in Ctors /\ ~Base(s) => G(Under(s))'.pc = "user"
               /\ G(s)'.fn # "run" => G(s)'.res = Null
    BY <1>c, <1>s, <1>b, <2>1 DEF ShapeInv
  <2> QED BY <1>s, <1>b, <1>d, <1>v, <2>2 DEF ShapeInv, Ctors
<1>3. CurrentInv'
  <2>1. \A s \in Slots : UserBelow(s)' = UserBelow(s)
    BY <1>s DEF UserBelow
  <2>2. UserBelow(q)' = current[t]
    <3>1. CASE Base(q)
      BY <1>e, <3>1 DEF UserBelow
    <3>2. CASE ~Base(q)
      BY <1>s, <1>d, <3>2 DEF UserBelow
    <3> QED BY <3>1, <3>2
  <2>5. \A y \in Threads : Idle(y)' => current'[y] = Null
    BY <1>c, <1>s, <1>a, <1>t DEF CurrentInv
  <2>6. ASSUME NEW s \in Slots', IsTop(s)'
        PROVE  current'[Th(s)] = IF G(s)'.pc = "user" THEN G(s)'.r ELSE UserBelow(s)'
    <3>1. CASE s = q
      BY <1>s, <1>b, <1>v, <1>a, <1>t, <3>1
    <3>2. CASE s # q
      <4>1. s \in Slots /\ IsTop(s) /\ Th(s) # t
        BY <1>s, <1>b, <2>6, <3>2
      <4>2. Th(s) \in Threads
        BY <1>c, <4>1 DEF Geometry
      <4>3. current'[Th(s)] = current[Th(s)]
        BY <1>a, <1>t, <4>1, <4>2
      <4> QED BY <1>c, <1>s, <2>1, <4>1, <4>3 DEF CurrentInv
    <3> QED BY <3>1, <3>2
  <2>7. \A s \in Slots' : G(s)'.pc = "user" => mOuter'[G(s)'.r] = UserBelow(s)'
    <3>1. mOuter'[r] = UserBelow(q)'
      BY <1>a, <1>t, <2>2
    <3>2. ASSUME NEW s \in Slots, G(s).pc = "user"
          PROVE  mOuter'[G(s).r] = UserBelow(s)'
      <4>1. G(s).r # r /\ G(s).r \in Routines
        BY <1>c, <1>s, <1>m, <3>2 DEF ShapeInv
      <4> QED BY <1>c, <1>a, <1>t, <2>1, <3>2, <4>1 DEF CurrentInv
    <3> QED BY <1>s, <1>v, <3>1, <3>2
  <2> QED BY <2>5, <2>6, <2>7 DEF CurrentInv
<1>4. OnceInv'
  BY <1>c, <1>i, <1>a DEF OnceInv
<1>5. PlaceInv'
  BY <1>c, <1>s, <1>n, <1>m, <1>v, <1>a, <1>t DEF PlaceInv, Ending
<1>6. RestInv'
  BY <1>c, <1>i, <1>n, <1>a, <1>t DEF RestInv
<1>7. OwnerInv'
  <2>1. \A x \in Routines : owner'[x] \in Routines => life'[owner'[x]] # "none" /\ ~finished'[owner'[x]]
    BY <1>c, <1>d, <1>e, <1>n, <1>a, <1>t, Names DEF OwnerInv
  <2>2. \A x \in Routines : waitFor'[x] \in Routines => owner'[waitFor'[x]] = x
    BY <1>c, <1>n, <1>a, <1>t DEF OwnerInv
  <2>3. \A s \in Slots' : G(s)'.fn \in Ctors /\ Base(s) => owner'[G(s)'.r] = Th(s)
    BY <1>c, <1>s, <1>b, <1>e, <1>m, <1>v, <1>a, <1>t DEF OwnerInv, Ctors
  <2>4. \A s \in Slots' : G(s)'.fn \in Ctors /\ ~Base(s) => owner'[G(s)'.r] = G(Under(s))'.r
    BY <1>c, <1>s, <1>d, <1>m, <1>v, <1>a, <1>t DEF OwnerInv, Ctors
  <2>5. \A y \in Threads : blocked'[y] # Null => Idle(y)' /\ y \notin IoThreads
    BY <1>c, <1>s, <1>d, <1>e, <1>a DEF OwnerInv
  <2>6. \A x \in Routines : mResult'[x] \in Threads => owner'[x] = mResult'[x] /\ blocked'[mResult'[x]] = x
    BY <1>c, <1>n, <1>a, <1>t DEF OwnerInv
  <2>7. \A s \in Slots' : G(s)'.pc = "call" /\ G(s)'.call \in Threads => blocked'[G(s)'.call] = G(s)'.r
    BY <1>c, <1>s, <1>v, <1>a DEF OwnerInv
  <2> QED BY <2>1, <2>2, <2>3, <2>4, <2>5, <2>6, <2>7 DEF OwnerInv
<1>8. ArmedInv'
  BY <1>c, <1>i, <1>a, <1>t, Names DEF ArmedInv, Armed
<1>9. DisarmedInv'
  BY <1>c, <1>i, <1>s, <1>v, <1>a, <1>t, Names DEF DisarmedInv, Disarmed
<1>10. ContinuationInv'
  BY <1>c, <1>i, <1>s, <1>v, <1>a, <1>t, Names DEF ContinuationInv
<1>11. KnownInv'
  BY <1>c, <1>i, <1>s, <1>v, <1>a, <1>t, Names DEF KnownInv
<1> QED BY <1>1, <1>2, <1>3, <1>4, <1>5, <1>6, <1>7, <1>8, <1>9, <1>10, <1>11 DEF CoreInv

-----------------------------------------------------------------------------
(* The invariant holds.                                                    *)

\* No coroutine has been created.
LEMMA InitCore ==
    ASSUME Init
    PROVE  CoreInv
<1>1. TypeInv
  <2>1. <<>> \in Seq(FrameType) /\ <<>> \in Seq(Routines)
    OBVIOUS
  <2> QED BY <2>1, BoundAssumption DEF Init, TypeInv
<1>2. Slots = {}
  <2>1. \A t \in Threads : Len(stack[t]) = 0
    BY DEF Init
  <2> QED BY <1>1, <2>1, SlotFacts
<1>3. \A r : ~On(r) /\ ~Called(r)
  BY <1>2 DEF On, Called
<1>4. \A r \in Routines : ~Asleep(r) /\ ~Parked(r)
  BY <1>2 DEF Init, Asleep, Parked
<1>5. queue = <<>> /\ Distinct(queue) /\ \A r : ~In(r, queue)
  BY EmptyDeque, NothingIn DEF Init
<1>6. ShapeInv /\ PlaceInv /\ OnceInv
  BY <1>2, <1>5 DEF ShapeInv, PlaceInv, OnceInv, OneEach
<1>7. CurrentInv /\ RestInv
  BY <1>2, <1>3, <1>4, Names DEF Init, CurrentInv, RestInv
<1>8. OwnerInv /\ ArmedInv
  BY <1>2, <1>3, <1>4, <1>5, Names DEF Init, OwnerInv, ArmedInv
<1>9. DisarmedInv /\ ContinuationInv /\ KnownInv
  BY <1>2, <1>3, <1>4, Names DEF Init, DisarmedInv, ContinuationInv, KnownInv
<1> QED BY <1>1, <1>6, <1>7, <1>8, <1>9 DEF CoreInv

\* The steps with several outcomes.
LEMMA SuspendOnStep ==
    ASSUME CoreInv, NEW t \in Threads, SuspendOn(t)
    PROVE  CoreInv'
<1>1. At(t, "suspend") /\ UNCHANGED <<current, blocked, routineVars>>
  BY DEF SuspendOn
<1>2. CASE waitFor[Top(t).r] = Ioc
  <2>1. /\ queue' = Append(queue, Top(t).r) /\ Suspended(t) /\ UNCHANGED <<pending, fut>>
    BY <1>2, Names DEF SuspendOn
  <2> QED BY <1>1, <1>2, <2>1, PostStep
<1>3. CASE waitFor[Top(t).r] = Timer
  <2>1. /\ pending' = pending \cup {Top(t).r} /\ Suspended(t) /\ UNCHANGED <<queue, fut>>
    BY <1>3, Names DEF SuspendOn
  <2> QED BY <1>1, <1>3, <2>1, StartTimerStep
<1>4. CASE waitFor[Top(t).r] \in Futures /\ fut[waitFor[Top(t).r]] = Null
  <2>1. /\ fut' = [fut EXCEPT ![waitFor[Top(t).r]] = Top(t).r] /\ Suspended(t)
        /\ UNCHANGED <<queue, pending>>
    BY <1>4, Names DEF SuspendOn, MaySuspend
  <2> QED BY <1>1, <1>4, <2>1, SuspendFutureStep
<1>5. CASE waitFor[Top(t).r] \in Futures /\ fut[waitFor[Top(t).r]] # Null
  <2>1. NotSuspended(t) /\ UNCHANGED <<queue, pending, fut>>
    BY <1>5, Names DEF SuspendOn, MaySuspend
  <2> QED BY <1>1, <2>1, ResumedStep
<1>6. waitFor[Top(t).r] = Ioc \/ waitFor[Top(t).r] = Timer \/ waitFor[Top(t).r] \in Futures
  BY DEF SuspendOn
<1> QED BY <1>2, <1>3, <1>4, <1>5, <1>6

\* Routine::await_suspend().
LEMMA AwaitSuspendStep ==
    ASSUME CoreInv, NEW t \in Threads, SuspendResult(t) \/ InstallContinuation(t) \/ Spin(t)
    PROVE  CoreInv'
<1>1. CASE SuspendResult(t) /\ mResult[waitFor[Top(t).r]] = Null
  BY <1>1, SuspendResultStep DEF SuspendResult, MaySuspend
<1>2. CASE SuspendResult(t) /\ mResult[waitFor[Top(t).r]] # Null
  <2>1. NotSuspended(t) /\ At(t, "result") /\ UNCHANGED <<current, blocked, queue, pending, fut, routineVars>>
    BY <1>2 DEF SuspendResult, MaySuspend, routineVars
  <2> QED BY <2>1, ResumedStep
<1>3. CASE InstallContinuation(t) /\ mContinuation[waitFor[Top(t).r]] = Null
  BY <1>3, InstallStep DEF InstallContinuation, ContinuationInstalled
<1>4. CASE InstallContinuation(t) /\ mContinuation[waitFor[Top(t).r]] # Null
  <2>1. Goto(t, "spin") /\ At(t, "install") /\ UNCHANGED <<current, blocked, queue, pending, fut, routineVars>>
    BY <1>4 DEF InstallContinuation, ContinuationInstalled, routineVars
  <2> QED BY <2>1, TooLateStep
<1>5. CASE Spin(t)
  BY <1>5, ResumedStep DEF Spin, SpinDone
<1> QED BY <1>1, <1>2, <1>3, <1>4, <1>5

\* Runner::operator(), on_ready() and the end of resume().
LEMMA CallStep ==
    ASSUME CoreInv, NEW t \in Threads, CallRunner(t) \/ CallResult(t) \/ Return(t)
    PROVE  CoreInv'
<1>1. CASE CallRunner(t)
  <2>1. At(t, "runner")
    BY <1>1 DEF CallRunner
  <2> QED BY <1>1, <2>1, DisarmedCallStep, ResumeStep, RepostStep
<1>2. CASE CallResult(t)
  <2>1. At(t, "call")
    BY <1>2 DEF CallResult
  <2> QED BY <1>2, <2>1, CallTaskStep, CallRunnerOfResultStep
<1>3. CASE Return(t)
  <2>1. At(t, "return")
    BY <1>3 DEF Return
  <2> QED BY <1>3, <2>1, ReturnStep, ContinueStep
<1> QED BY <1>1, <1>2, <1>3

\* Nothing happens.
LEMMA StutterStep ==
    ASSUME CoreInv, UNCHANGED vars
    PROVE  CoreInv'
<1>c. /\ TypeInv /\ ShapeInv /\ CurrentInv /\ OnceInv /\ PlaceInv /\ RestInv /\ OwnerInv
      /\ ArmedInv /\ DisarmedInv /\ ContinuationInv /\ KnownInv /\ Geometry
  BY SlotGeometry DEF CoreInv
<1>f. UNCHANGED stack /\ Still
  BY StillStep DEF vars
<1>a. /\ UNCHANGED <<blocked, queue, pending, fut, mOuter, mContinuation, mResult, mIsDetached,
                     mCaller, waitFor, finished, life, owner, awaits, current>>
  BY DEF vars, routineVars
<1>t. /\ pending \subseteq Routines
      /\ fut \in [Futures -> Routines \cup {Null, Invalid}]
      /\ waitFor \in [Routines -> Routines \cup Futures \cup {Ioc, Timer, Null}]
      /\ mCaller \in [Routines -> Routines \cup {Null, Invalid}]
      /\ mResult \in [Routines -> Routines \cup Threads \cup {Null, Invalid}]
      /\ mContinuation \in [Routines -> Routines \cup {Null, Invalid}]
      /\ owner \in [Routines -> Routines \cup Threads \cup {Null}]
      /\ life \in [Routines -> {"none", "alive", "freed"}]
      /\ mIsDetached \in [Routines -> BOOLEAN]
      /\ blocked \in [Threads -> Routines \cup {Null}]
      /\ finished \in [Routines -> BOOLEAN]
  BY <1>c DEF TypeInv
<1>i. /\ OneEach'
      /\ \A y : (On(y)' <=> On(y)) /\ (Called(y)' <=> Called(y))
      /\ \A y \in Routines : (Asleep(y)' <=> Asleep(y)) /\ (Parked(y)' <=> Parked(y))
  BY <1>c, <1>a, <1>t, <1>f, Quiet DEF OnceInv
<1>s. /\ Slots' = Slots
      /\ \A s \in Slots : G(s)' = G(s)
      /\ \A y \in Threads : Idle(y)' <=> Idle(y)
      /\ \A s \in Slots : G(s).r \in Routines
      /\ \A s \in Slots : ~Base(s) => Under(s) \in Slots
  BY <1>c, <1>f DEF Still, Geometry
<1>1. TypeInv'
  BY <1>c, <1>a, <1>f DEF TypeInv
<1>2. ShapeInv'
  <2>1. \A s \in Slots : IsTop(s)' <=> IsTop(s)
    BY <1>f DEF Still
  <2> QED BY <1>c, <1>s, <2>1 DEF ShapeInv
<1>3. CurrentInv'
  <2>1. \A s \in Slots : (IsTop(s)' <=> IsTop(s)) /\ UserBelow(s)' = UserBelow(s)
    BY <1>f, <1>s DEF Still, UserBelow
  <2> QED BY <1>c, <1>s, <1>a, <2>1 DEF CurrentInv
<1>4. OnceInv'
  BY <1>c, <1>i, <1>a DEF OnceInv
<1>5. PlaceInv'
  BY <1>c, <1>s, <1>a, <1>t, Names DEF PlaceInv
<1>6. RestInv'
  BY <1>c, <1>i, <1>a, <1>t, Names DEF RestInv
<1>7. OwnerInv'
  BY <1>c, <1>s, <1>a, <1>t, Names DEF OwnerInv
<1>8. ArmedInv'
  BY <1>c, <1>i, <1>a, <1>t, Names DEF ArmedInv, Armed
<1>9. DisarmedInv'
  BY <1>c, <1>i, <1>s, <1>a, <1>t, Names DEF DisarmedInv, Disarmed
<1>10. ContinuationInv'
  BY <1>c, <1>i, <1>s, <1>a, <1>t, Names DEF ContinuationInv
<1>11. KnownInv'
  BY <1>c, <1>i, <1>s, <1>a, <1>t, Names DEF KnownInv
<1> QED BY <1>1, <1>2, <1>3, <1>4, <1>5, <1>6, <1>7, <1>8, <1>9, <1>10, <1>11 DEF CoreInv

\* Every step preserves the invariant.
LEMMA NextCore ==
    ASSUME CoreInv, [Next]_vars
    PROVE  CoreInv'
<1>1. CASE UNCHANGED vars
  BY <1>1, StutterStep
<1>2. ASSUME NEW t \in Threads, UserStep(t)
      PROVE  CoreInv'
  <2>1. CASE Finish(t)
    BY <2>1, FinishStep
  <2>2. ASSUME NEW r \in Routines, Spawn(t, r) \/ Detach(t, r) \/ Drop(t, r) \/ Join(t, r)
        PROVE  CoreInv'
    BY <2>2, SpawnStep, DetachStep, DropStep, JoinStep
  <2>3. ASSUME NEW x \in Routines \cup Futures \cup {Ioc, Timer}, Await(t, x)
        PROVE  CoreInv'
    BY <2>3, AwaitStep
  <2>4. ASSUME NEW f \in Futures, SetFuture(t, f)
        PROVE  CoreInv'
    BY <2>4, SetUnawaitedStep, WakeStep
  <2> QED BY <1>2, <2>1, <2>2, <2>3, <2>4 DEF UserStep
<1>3. ASSUME NEW t \in Threads, LibraryStep(t)
      PROVE  CoreInv'
  <2>1. CASE RunPosted(t) \/ \E r \in Routines : Expire(t, r)
    BY <2>1, RunPostedStep, ExpireStep
  <2>2. CASE CallRunner(t) \/ CallResult(t) \/ Return(t)
    BY <2>2, CallStep
  <2>3. CASE SuspendOn(t)
    BY <2>3, SuspendOnStep
  <2>4. CASE SuspendResult(t) \/ InstallContinuation(t) \/ Spin(t)
    BY <2>4, AwaitSuspendStep
  <2>5. CASE Enter(t) \/ TakeCaller(t) \/ ExchangeContinuation(t)
    BY <2>5, EnterStep, TakeCallerStep, ExchangeContinuationStep
  <2>6. CASE CheckDetached(t) \/ DisableContinuation(t) \/ SetResult(t)
    BY <2>6, CheckDetachedStep, DisableContinuationStep, SetResultStep
  <2> QED BY <1>3, <2>1, <2>2, <2>3, <2>4, <2>5, <2>6 DEF LibraryStep
<1> QED BY <1>1, <1>2, <1>3 DEF Next

\* Wherever detach() is called, the coroutines, their Runners and continuations
\* are what the invariant says.
THEOREM CoreInvariance == Spec => []CoreInv
<1>1. Init => CoreInv
  BY InitCore
<1>2. CoreInv /\ [Next]_vars => CoreInv'
  BY NextCore
<1> QED BY <1>1, <1>2, PTL DEF Spec

-----------------------------------------------------------------------------
(* What the invariant says of the frames as the properties count them.     *)

Flip(s) == <<s[1], Len(stack[s[1]]) + 1 - s[2]>>

\* A frame and its slot.
LEMMA FrameSlots ==
    ASSUME TypeInv
    PROVE  /\ \A s \in AllFrames : Flip(s) \in Slots /\ G(Flip(s)) = F(s) /\ Flip(Flip(s)) = s
           /\ \A s \in Slots : Flip(s) \in AllFrames /\ F(Flip(s)) = G(s) /\ Flip(Flip(s)) = s
<1>1. ASSUME NEW t \in Threads, NEW i \in 1..Len(stack[t])
      PROVE  /\ Flip(<<t, i>>) = <<t, Len(stack[t]) + 1 - i>>
             /\ Len(stack[t]) + 1 - i \in 1..Len(stack[t])
             /\ Flip(Flip(<<t, i>>)) = <<t, i>>
             /\ G(Flip(<<t, i>>)) = stack[t][i] /\ F(Flip(<<t, i>>)) = G(<<t, i>>)
             /\ F(<<t, i>>) = stack[t][i]
  <2>1. Len(stack[t]) \in Nat
    BY SlotFacts
  <2>2. Flip(<<t, i>>) = <<t, Len(stack[t]) + 1 - i>>
    BY DEF Flip
  <2>3. Len(stack[t]) + 1 - i \in 1..Len(stack[t]) /\ Len(stack[t]) + 1 - (Len(stack[t]) + 1 - i) = i
    BY <2>1
  <2> QED BY <2>2, <2>3 DEF Flip, G, F
<1>2. \A s \in AllFrames : \E t \in Threads : \E i \in 1..Len(stack[t]) : s = <<t, i>>
  BY DEF AllFrames
<1>3. \A s \in Slots : \E t \in Threads : \E i \in 1..Len(stack[t]) : s = <<t, i>>
  BY DEF Slots
<1>4. \A t \in Threads : \A i \in 1..Len(stack[t]) : <<t, i>> \in Slots /\ <<t, i>> \in AllFrames
  BY DEF Slots, AllFrames
<1>5. ASSUME NEW s \in AllFrames
      PROVE  Flip(s) \in Slots /\ G(Flip(s)) = F(s) /\ Flip(Flip(s)) = s
  <2>0. PICK t \in Threads : \E i \in 1..Len(stack[t]) : s = <<t, i>>
    BY <1>2
  <2>1. PICK i \in 1..Len(stack[t]) : s = <<t, i>>
    BY <2>0
  <2>2. /\ Flip(s) = <<t, Len(stack[t]) + 1 - i>> /\ Flip(Flip(s)) = s /\ G(Flip(s)) = F(s)
        /\ Len(stack[t]) + 1 - i \in 1..Len(stack[t])
    BY <1>1, <2>1
  <2> QED BY <1>4, <2>2
<1>6. ASSUME NEW s \in Slots
      PROVE  Flip(s) \in AllFrames /\ F(Flip(s)) = G(s) /\ Flip(Flip(s)) = s
  <2>0. PICK t \in Threads : \E i \in 1..Len(stack[t]) : s = <<t, i>>
    BY <1>3
  <2>1. PICK i \in 1..Len(stack[t]) : s = <<t, i>>
    BY <2>0
  <2>2. /\ Flip(s) = <<t, Len(stack[t]) + 1 - i>> /\ Flip(Flip(s)) = s /\ F(Flip(s)) = G(s)
        /\ Len(stack[t]) + 1 - i \in 1..Len(stack[t])
    BY <1>1, <2>1
  <2> QED BY <1>4, <2>2
<1> QED BY <1>5, <1>6

\* FramesOf() and On().
LEMMA FramesOn ==
    ASSUME TypeInv, NEW r
    PROVE  FramesOf(r) = {} <=> ~On(r)
BY FrameSlots DEF FramesOf, On, Coro

\* The invariant implies the types,
LEMMA TypeFromCore ==
    ASSUME CoreInv
    PROVE  TypeOK
<1>1. TypeInv /\ Geometry
  BY SlotGeometry DEF CoreInv
<1>2. ASSUME NEW s \in AllFrames
      PROVE  /\ F(s).fn \in {"ctor", "ctorLoop", "run", "runner"} /\ F(s).r \in Routines
             /\ F(s).res \in Routines \cup {Null} /\ F(s).call \in Routines \cup Threads \cup {Null}
  <2>1. F(s) \in FrameType
    BY <1>1, FrameSlots DEF Geometry
  <2> QED BY <2>1, FrameFields
<1>3. \A i \in 1..Len(queue) : queue[i] \in Routines
  BY <1>1, LenProperties DEF TypeInv
<1> QED BY <1>1, <1>2, <1>3 DEF TypeOK, TypeInv

\* and that a coroutine is on one thread.
LEMMA SingleFromCore ==
    ASSUME CoreInv
    PROVE  SingleRunner
<1>1. TypeInv /\ OneEach
  BY DEF CoreInv, OnceInv
<1> SUFFICES ASSUME NEW r \in Routines, NEW s \in FramesOf(r), NEW u \in FramesOf(r)
             PROVE  s = u
  BY DEF SingleRunner
<1>2. s \in AllFrames /\ u \in AllFrames /\ F(s).r = F(u).r /\ F(s).fn # "runner" /\ F(u).fn # "runner"
  BY DEF FramesOf
<1>3. /\ Flip(s) \in Slots /\ Flip(u) \in Slots /\ Flip(Flip(s)) = s /\ Flip(Flip(u)) = u
      /\ G(Flip(s)) = F(s) /\ G(Flip(u)) = F(u)
  BY <1>1, <1>2, FrameSlots
<1>4. Flip(s) = Flip(u)
  BY <1>1, <1>2, <1>3 DEF OneEach
<1> QED BY <1>3, <1>4

\* The innermost frame in a coroutine's code is the newest one or the one below
\* it: everything below the loop of a Runner has returned.
LEMMA CurrentFromCore ==
    ASSUME CoreInv
    PROVE  CurrentConsistent
<1>c. TypeInv /\ ShapeInv /\ CurrentInv /\ Geometry
  BY SlotGeometry DEF CoreInv
<1> SUFFICES ASSUME NEW t \in Threads, NEW user,
                    user = {i \in 1..Len(stack[t]) : stack[t][i].pc = "user"}
             PROVE  current[t] = IF user = {} THEN Null
                                 ELSE stack[t][CHOOSE i \in user : \A j \in user : i <= j].r
  BY DEF CurrentConsistent
<1>1. Len(stack[t]) \in Nat
  BY <1>c, SlotFacts
<1>2. ASSUME NEW i \in 1..Len(stack[t])
      PROVE  <<t, Len(stack[t]) + 1 - i>> \in Slots /\ G(<<t, Len(stack[t]) + 1 - i>>) = stack[t][i]
  <2>1. <<t, i>> \in AllFrames /\ F(<<t, i>>) = stack[t][i] /\ Flip(<<t, i>>) = <<t, Len(stack[t]) + 1 - i>>
    BY DEF AllFrames, F, Flip
  <2> QED BY <1>c, <2>1, FrameSlots
<1>3. ASSUME NEW m \in user, \A j \in user : m <= j
      PROVE  (CHOOSE i \in user : \A j \in user : i <= j) = m
  <2>1. \A i \in user : (\A j \in user : i <= j) => i = m
    BY <1>3, <1>1
  <2> QED BY <1>3, <2>1
<1>4. CASE Idle(t)
  <2>1. Len(stack[t]) = 0
    BY <1>c, <1>4, SlotFacts
  <2> QED BY <1>c, <1>4, <2>1 DEF CurrentInv
<1>5. CASE ~Idle(t)
  <2>1. PICK p \in Slots : /\ p = <<t, Len(stack[t])>> /\ Th(p) = t /\ IsTop(p)
                           /\ G(p) = Top(t) /\ Top(t) = stack[t][1]
    BY <1>c, <1>5, TopFrame DEF Idle
  <2>2. Len(stack[t]) \in Nat \ {0}
    BY <1>c, <1>1, <1>5, SlotFacts
  <2>3. CASE G(p).pc = "user"
    <3>1. 1 \in user /\ \A j \in user : 1 <= j
      BY <2>1, <2>2, <2>3
    <3>2. (CHOOSE i \in user : \A j \in user : i <= j) = 1
      BY <1>3, <3>1
    <3>3. current[t] = stack[t][1].r
      BY <1>c, <2>1, <2>3 DEF CurrentInv
    <3> QED BY <3>1, <3>2, <3>3
  <2>4. CASE G(p).pc # "user" /\ Base(p)
    <3>1. user = {}
      BY <2>1, <2>2, <2>4 DEF Base
    <3> QED BY <1>c, <2>1, <2>4, <3>1 DEF CurrentInv, UserBelow
  <2>5. CASE G(p).pc # "user" /\ ~Base(p)
    <3>1. /\ Under(p) \in Slots /\ Under(p) = <<t, Len(stack[t]) - 1>> /\ ~IsTop(Under(p))
          /\ Len(stack[t]) >= 2
      <4>1. Under(p) \in Slots /\ ~IsTop(Under(p))
        BY <1>c, <2>5 DEF Geometry
      <4>2. Under(p) = <<t, Len(stack[t]) - 1>> /\ Len(stack[t]) # 1
        BY <2>1, <2>5 DEF Under, Base
      <4>3. \A n \in Nat \ {0} : n # 1 => n >= 2
        OBVIOUS
      <4>4. Len(stack[t]) >= 2
        BY <2>2, <4>2, <4>3
      <4> QED BY <4>1, <4>2, <4>4
    <3>2. G(Under(p)) = stack[t][2]
      <4>1. 2 \in 1..Len(stack[t]) /\ Len(stack[t]) + 1 - 2 = Len(stack[t]) - 1
        BY <1>1, <3>1
      <4> QED BY <1>2, <3>1, <4>1
    <3>3. 1 \notin user
      BY <2>1, <2>5
    <3>4. CASE G(Under(p)).pc = "user"
      <4>1. 2 \in user /\ \A j \in user : 2 <= j
        BY <1>1, <3>1, <3>2, <3>3, <3>4
      <4>2. (CHOOSE i \in user : \A j \in user : i <= j) = 2
        BY <1>3, <4>1
      <4>3. current[t] = stack[t][2].r
        BY <1>c, <2>1, <2>5, <3>2, <3>4 DEF CurrentInv, UserBelow
      <4> QED BY <4>1, <4>2, <4>3
    <3>5. CASE G(Under(p)).pc # "user"
      <4>1. G(Under(p)).fn = "run"
        BY <1>c, <3>1, <3>5 DEF ShapeInv
      <4>2. ASSUME NEW i \in user
            PROVE  FALSE
        <5>1. i \in 3..Len(stack[t]) /\ stack[t][i].pc = "user"
          BY <1>1, <3>1, <3>2, <3>3, <3>5, <4>2
        <5>2. PICK s \in Slots : s = <<t, Len(stack[t]) + 1 - i>> /\ G(s) = stack[t][i]
          BY <1>1, <1>2, <3>1, <5>1
        <5>3. Below(s, Under(p))
          BY <1>1, <3>1, <5>1, <5>2 DEF Below
        <5> QED BY <1>c, <3>1, <4>1, <5>1, <5>2, <5>3 DEF ShapeInv
      <4> QED BY <1>c, <2>1, <2>5, <3>5, <4>2 DEF CurrentInv, UserBelow
    <3> QED BY <3>4, <3>5
  <2> QED BY <2>3, <2>4, <2>5
<1> QED BY <1>4, <1>5

\* Nobody will resume a coroutine that is on a thread, has ended or has not
\* been created.
LEMMA NoWaker ==
    ASSUME CoreInv, NEW r \in Routines, ~Asleep(r)
    PROVE  Wakers(r) = {}
<1>c. TypeInv /\ ArmedInv /\ DisarmedInv /\ ContinuationInv
  BY DEF CoreInv
<1>1. \A f \in Futures : fut[f] # r
  BY <1>c DEF ArmedInv
<1>2. \A i \in 1..Len(queue) : queue[i] # r
  BY <1>c DEF ArmedInv, Armed, In
<1>3. mCaller[r] = r => RunnersOf(r) = {}
  <2>1. mCaller[r] = r => ~Called(r)
    BY <1>c, Names DEF ArmedInv, Armed, DisarmedInv, Disarmed, Called, Call
  <2> QED BY <1>c, <2>1, FrameSlots DEF RunnersOf, Called, Call
<1>4. r \notin pending /\ \A x \in Routines : mContinuation[x] # r
  BY <1>c DEF ArmedInv, ContinuationInv
<1>5. \A s \in AllFrames : F(s).res # r
  BY <1>c, FrameSlots DEF ContinuationInv
<1> QED BY <1>1, <1>2, <1>3, <1>4, <1>5 DEF Wakers

\* A suspended coroutine that awaits another one.
LEMMA WakerOfAwaiting ==
    ASSUME CoreInv, NEW r \in Routines, Asleep(r), waitFor[r] \in Routines
    PROVE  \E w : Wakers(r) = {w}
<1>c. /\ TypeInv /\ ShapeInv /\ OnceInv /\ PlaceInv /\ ArmedInv /\ DisarmedInv /\ ContinuationInv
      /\ KnownInv /\ Geometry
  BY SlotGeometry DEF CoreInv
<1>1. \A f \in Futures : fut[f] # r
  BY <1>c, Names DEF ArmedInv
<1>2. \A i \in 1..Len(queue) : queue[i] # r
  BY <1>c DEF ArmedInv, Armed, In
<1>3. mCaller[r] = r => RunnersOf(r) = {}
  <2>1. mCaller[r] = r => ~Called(r)
    BY <1>c, Names DEF DisarmedInv, Disarmed, Called, Call
  <2> QED BY <1>c, <2>1, FrameSlots DEF RunnersOf, Called, Call
<1>4. r \notin pending
  BY <1>c, Names DEF ArmedInv
<1>5. \A x \in Routines : mContinuation[x] = r => x = waitFor[r]
  BY <1>c DEF ContinuationInv
<1>6. \A s \in Slots : G(s).res = r =>
          /\ G(s).r = waitFor[r] /\ G(s).fn = "run" /\ mContinuation[waitFor[r]] = Invalid
  <2> SUFFICES ASSUME NEW s \in Slots, G(s).res = r
               PROVE  /\ G(s).r = waitFor[r] /\ G(s).fn = "run" /\ mContinuation[waitFor[r]] = Invalid
    OBVIOUS
  <2>1. G(s).r = waitFor[r]
    BY <1>c DEF ContinuationInv
  <2>2. G(s).fn = "run" /\ G(s).res # Null
    BY <1>c, Names DEF ShapeInv
  <2>3. G(s).pc \in Ending \ {"exchange"}
    BY <1>c, <2>2 DEF PlaceInv
  <2> QED BY <1>c, <2>1, <2>2, <2>3 DEF PlaceInv, Ending
<1>7. CASE mContinuation[waitFor[r]] = r
  <2>1. \A s \in AllFrames : F(s).res # r
    BY <1>c, <1>6, <1>7, FrameSlots, Names
  <2>2. {x \in Routines : mContinuation[x] = r} = {waitFor[r]}
    BY <1>5, <1>7
  <2>3. Wakers(r) = {<<"continuation", waitFor[r]>>}
    BY <1>1, <1>2, <1>3, <1>4, <2>1, <2>2 DEF Wakers
  <2> QED BY <2>3
<1>8. CASE mContinuation[waitFor[r]] # r
  <2>1. PICK s \in Slots : G(s).res = r
    BY <1>c, <1>8 DEF KnownInv
  <2>2. \A x \in Routines : mContinuation[x] # r
    BY <1>5, <1>8
  <2>3. \A u \in Slots : G(u).res = r => u = s
    BY <1>c, <1>6, <2>1 DEF OnceInv, OneEach
  <2>4. {u \in AllFrames : F(u).res = r} = {Flip(s)}
    BY <1>c, <2>1, <2>3, FrameSlots
  <2>5. Wakers(r) = {<<"result", Flip(s)>>}
    BY <1>1, <1>2, <1>3, <1>4, <2>2, <2>4 DEF Wakers
  <2> QED BY <2>5
<1> QED BY <1>7, <1>8

\* A suspended coroutine that awaits a future, the io_context, a timer or a task.
LEMMA WakerOfOther ==
    ASSUME CoreInv, NEW r \in Routines, Asleep(r), waitFor[r] \notin Routines
    PROVE  \E w : Wakers(r) = {w}
<1>c. /\ TypeInv /\ OnceInv /\ ArmedInv /\ ContinuationInv /\ KnownInv /\ Geometry
  BY SlotGeometry DEF CoreInv
<1>1. \A x \in Routines : mContinuation[x] # r
  BY <1>c DEF ContinuationInv
<1>2. \A s \in AllFrames : F(s).res # r
  BY <1>c, FrameSlots DEF ContinuationInv, Geometry
<1>3. \A f \in Futures : fut[f] = r => f = waitFor[r]
  BY <1>c DEF ArmedInv
<1>4. /\ In(r, queue) => r \notin pending /\ ~Called(r) /\ mCaller[r] = r
      /\ r \in pending => ~Called(r)
      /\ Called(r) => mCaller[r] = r
      /\ (\E f \in Futures : fut[f] = r) => ~In(r, queue) /\ r \notin pending /\ ~Called(r)
  <2>1. ASSUME NEW f \in Futures, fut[f] = r
        PROVE  ~In(r, queue) /\ r \notin pending /\ ~Called(r)
    BY <1>c, <1>3, <2>1, Names DEF ArmedInv, Armed
  <2> QED BY <1>c, <2>1 DEF ArmedInv, Armed
<1>5. ~In(r, queue) <=> \A i \in 1..Len(queue) : queue[i] # r
  BY DEF In
<1>6. ~Called(r) <=> RunnersOf(r) = {}
  BY <1>c, FrameSlots DEF RunnersOf, Called, Call
<1>7. CASE waitFor[r] \in Futures /\ fut[waitFor[r]] = r
  <2>1. {f \in Futures : fut[f] = r} = {waitFor[r]}
    BY <1>3, <1>7
  <2>2. Wakers(r) = {<<"future", waitFor[r]>>}
    BY <1>1, <1>2, <1>4, <1>5, <1>6, <1>7, <2>1 DEF Wakers
  <2> QED BY <2>2
<1>8. CASE In(r, queue)
  <2>1. PICK i \in 1..Len(queue) : queue[i] = r
    BY <1>8 DEF In
  <2>2. {j \in 1..Len(queue) : queue[j] = r /\ mCaller[r] = r} = {i}
    BY <1>c, <1>4, <1>8, <2>1 DEF OnceInv, Distinct
  <2>3. \A f \in Futures : fut[f] # r
    BY <1>4, <1>8
  <2>4. Wakers(r) = {<<"posted", i>>}
    BY <1>1, <1>2, <1>4, <1>6, <1>8, <2>2, <2>3 DEF Wakers
  <2> QED BY <2>4
<1>9. CASE r \in pending
  <2>1. \A f \in Futures : fut[f] # r
    BY <1>4, <1>9
  <2>2. pending \cap {r} = {r}
    BY <1>9
  <2>3. Wakers(r) = {<<"timer", r>>}
    BY <1>1, <1>2, <1>4, <1>5, <1>6, <1>9, <2>1, <2>2 DEF Wakers
  <2> QED BY <2>3
<1>10. CASE Called(r)
  <2>1. PICK s \in Slots : Call(s, r)
    BY <1>10 DEF Called
  <2>2. {u \in RunnersOf(r) : mCaller[r] = r} = {Flip(s)}
    BY <1>c, <1>4, <1>10, <2>1, FrameSlots DEF RunnersOf, Call, OnceInv, OneEach
  <2>3. \A f \in Futures : fut[f] # r
    BY <1>4, <1>10
  <2>4. Wakers(r) = {<<"runner", Flip(s)>>}
    BY <1>1, <1>2, <1>4, <1>5, <1>10, <2>2, <2>3 DEF Wakers
  <2> QED BY <2>4
<1> QED BY <1>c, <1>7, <1>8, <1>9, <1>10 DEF KnownInv

\* Exactly one waker, counted.
LEMMA WakersFromCore ==
    ASSUME CoreInv
    PROVE  ExactlyOneWaker
<1> SUFFICES ASSUME NEW r \in Routines
             PROVE  Cardinality(Wakers(r)) =
                      IF life[r] = "alive" /\ ~finished[r] /\ FramesOf(r) = {} THEN 1 ELSE 0
  BY DEF ExactlyOneWaker
<1>1. life[r] = "alive" /\ ~finished[r] /\ FramesOf(r) = {} <=> Asleep(r)
  BY FramesOn DEF CoreInv, TypeInv, RestInv, Asleep
<1>2. CASE Asleep(r)
  <2>1. PICK w : Wakers(r) = {w}
    BY <1>2, WakerOfAwaiting, WakerOfOther
  <2> QED BY <1>1, <1>2, <2>1, FS_Singleton
<1>3. CASE ~Asleep(r)
  BY <1>1, <1>3, NoWaker, FS_EmptySet
<1> QED BY <1>2, <1>3

-----------------------------------------------------------------------------

\* Every variable holds a value the code can store in it.
THEOREM TypeCorrect == Spec => []TypeOK
BY CoreInvariance, TypeFromCore, PTL

\* However a coroutine is woken and wherever it is detached, one thread at a time
\* executes it.
THEOREM OneThread == Spec => []SingleRunner
BY CoreInvariance, SingleFromCore, PTL

\* The thread_local current() names the innermost coroutine whose code is on the
\* thread: the asserts of leave(), of resume() and of the coroutine's end.
THEOREM CurrentRight == Spec => []CurrentConsistent
BY CoreInvariance, CurrentFromCore, PTL

\* A coroutine that has left its thread is resumed from exactly one place, and
\* one that is on a thread from none.
THEOREM OneWaker == Spec => []ExactlyOneWaker
BY CoreInvariance, WakersFromCore, PTL

-----------------------------------------------------------------------------
(* The memory of the coroutines, when detach() does not race with an end.  *)

Late == {"disable", "set", "call", "return"}

\* A frame of a coroutine does not go back on its way to the end of it.
Follows(g, f) ==
    /\ f.pc \notin {"call", "return"} => g.pc \notin {"call", "return"}
    /\ f.pc \in {"exchange", "detached"} => g.pc \in {"exchange", "detached"}
    /\ f.pc \in Late => g.pc \in Late /\ f.destruct = g.destruct

\* A coroutine that has not ended and is on no thread is alive.
LEMMA AsleepAlive ==
    ASSUME CoreInv, NEW r \in Routines, Asleep(r)
    PROVE  life[r] = "alive" /\ ~finished[r]
BY DEF CoreInv, TypeInv, RestInv, Asleep

\* A step that neither ends, detaches nor frees a coroutine.
LEMMA LifeKept ==
    ASSUME CoreInv, LifeInv, UNCHANGED <<life, owner, mIsDetached, finished>>,
           \A s \in Slots' : G(s)'.fn # "runner" =>
               \/ G(s)'.r \in Routines /\ Asleep(G(s)'.r) /\ G(s)'.pc \notin Ending
               \/ \E u \in Slots : G(u).fn # "runner" /\ G(u).r = G(s)'.r /\ Follows(G(u), G(s)'),
           \A x \in Routines : finished[x] /\ On(x) => On(x)'
    PROVE  LifeInv'
<1>1. ASSUME NEW r \in Routines
      PROVE  /\ owner'[r] # Null => life'[r] = "alive"
             /\ life'[r] # "none" /\ ~finished'[r] => (mIsDetached'[r] <=> owner'[r] = Null)
             /\ finished'[r] /\ ~On(r)' => mIsDetached'[r] /\ (life'[r] = "alive" => owner'[r] # Null)
  BY DEF LifeInv
<1>2. ASSUME NEW s \in Slots', G(s)'.fn # "runner", NEW r, r = G(s)'.r, NEW f, f = G(s)'
      PROVE  /\ f.pc \notin {"call", "return"} => life[r] = "alive"
             /\ f.pc \in {"exchange", "detached"} => (mIsDetached[r] <=> owner[r] = Null)
             /\ f.pc \in Late => /\ mIsDetached[r]
                                 /\ f.destruct <=> (life[r] = "alive" /\ owner[r] = Null)
  <2>1. CASE r \in Routines /\ Asleep(r) /\ f.pc \notin Ending
    BY <2>1, AsleepAlive DEF Ending, Late
  <2>2. CASE \E u \in Slots : G(u).fn # "runner" /\ G(u).r = r /\ Follows(G(u), f)
    <3>1. PICK u \in Slots : G(u).fn # "runner" /\ G(u).r = r /\ Follows(G(u), f)
      BY <2>2
    <3> QED BY <3>1 DEF LifeInv, Follows, Late
  <2> QED BY <1>2, <2>1, <2>2
<1> QED BY <1>1, <1>2 DEF LifeInv, Late

\* The frame of a coroutine goes on.
LEMMA LifeRetop ==
    ASSUME CoreInv, LifeInv, UNCHANGED <<life, owner, mIsDetached, finished>>,
           NEW p \in Slots, NEW f, Retop(p, f), G(p).fn # "runner", f.fn # "runner",
           f.r = G(p).r, Follows(G(p), f)
    PROVE  LifeInv'
<1>1. /\ Slots' = Slots /\ G(p)' = f
      /\ \A s \in Slots : s # p => G(s)' = G(s)
  BY DEF Retop
<1>2. \A s \in Slots : Follows(G(s), G(s))
  BY DEF Follows
<1>3. \A x \in Routines : On(x) => On(x)'
  BY <1>1 DEF On, Coro
<1>4. \A s \in Slots' : G(s)'.fn # "runner" =>
          \E u \in Slots : G(u).fn # "runner" /\ G(u).r = G(s)'.r /\ Follows(G(u), G(s)')
  BY <1>1, <1>2
<1> QED BY <1>3, <1>4, LifeKept

\* A Runner returns, or a coroutine that has not ended leaves its thread.
LEMMA LifePop ==
    ASSUME CoreInv, LifeInv, UNCHANGED <<life, owner, mIsDetached, finished>>,
           NEW p \in Slots, Popped(p), G(p).fn = "runner" \/ ~finished[G(p).r]
    PROVE  LifeInv'
<1>1. Slots' = Slots \ {p} /\ \A s \in Slots : s # p => G(s)' = G(s)
  BY DEF Popped
<1>2. \A s \in Slots : Follows(G(s), G(s))
  BY DEF Follows
<1>3. \A x \in Routines : finished[x] /\ On(x) => On(x)'
  BY <1>1 DEF On, Coro
<1>4. \A s \in Slots' : G(s)'.fn # "runner" =>
          \E u \in Slots : G(u).fn # "runner" /\ G(u).r = G(s)'.r /\ Follows(G(u), G(s)')
  BY <1>1, <1>2
<1> QED BY <1>3, <1>4, LifeKept

\* A Runner is called.
LEMMA LifePush ==
    ASSUME CoreInv, LifeInv, UNCHANGED <<life, owner, mIsDetached, finished>>,
           NEW t, NEW q, NEW f, Pushed(t, q, f), f.fn = "runner"
    PROVE  LifeInv'
<1>1. Slots' = Slots \cup {q} /\ G(q)' = f /\ \A s \in Slots : G(s)' = G(s)
  BY DEF Pushed, Added
<1>2. \A s \in Slots : Follows(G(s), G(s))
  BY DEF Follows
<1>3. \A x \in Routines : On(x) => On(x)'
  BY <1>1 DEF On, Coro
<1>4. \A s \in Slots' : G(s)'.fn # "runner" =>
          \E u \in Slots : G(u).fn # "runner" /\ G(u).r = G(s)'.r /\ Follows(G(u), G(s)')
  BY <1>1, <1>2
<1> QED BY <1>3, <1>4, LifeKept

\* The stacks stay as they are.
LEMMA LifeStill ==
    ASSUME CoreInv, LifeInv, UNCHANGED <<life, owner, mIsDetached, finished>>, Still
    PROVE  LifeInv'
<1>1. Slots' = Slots /\ \A s \in Slots : G(s)' = G(s)
  BY DEF Still
<1>2. \A s \in Slots : Follows(G(s), G(s))
  BY DEF Follows
<1>3. \A x \in Routines : On(x) => On(x)'
  BY <1>1 DEF On, Coro
<1> QED BY <1>1, <1>2, <1>3, LifeKept

\* A Runner that is called takes its coroutine, if it is armed.
LEMMA LifeCallRunner ==
    ASSUME CoreInv, LifeInv, NEW t \in Threads, CallRunner(t)
    PROVE  LifeInv'
<1>c. TypeInv /\ ShapeInv /\ CurrentInv /\ ArmedInv /\ DisarmedInv /\ Geometry
  BY SlotGeometry DEF CoreInv
<1>p. PICK p \in Slots : /\ p = <<t, Len(stack[t])>> /\ G(p) = Top(t) /\ Top(t) \in FrameType
                         /\ stack[t] # <<>>
  BY <1>c, TopFrame DEF CallRunner, At
<1>r. PICK r \in Routines : r = G(p).r
  BY <1>p, FrameFields
<1>u. G(p).pc = "runner" /\ G(p).fn = "runner"
  BY <1>c, <1>p DEF CallRunner, At, ShapeInv
<1>a. UNCHANGED <<life, owner, mIsDetached, finished>>
  BY DEF CallRunner
<1>1. CASE Pop(t)
  <2>1. Popped(p)
    BY <1>c, <1>p, <1>1, PopStep
  <2> QED BY <1>a, <1>u, <2>1, LifePop
<1>2. CASE ~Pop(t)
  <2>1. mCaller[r] \in Routines /\ Replace(t, Frame("run", mCaller[r], "enter"))
    BY <1>p, <1>r, <1>2 DEF CallRunner
  <2>2. mCaller[r] = r /\ Asleep(r)
    <3>1. Called(r)
      BY <1>r, <1>u DEF Called, Call
    <3>2. waitFor[r] \notin Routines
      BY <1>c, <1>r, <1>u, <2>1, Names DEF DisarmedInv, Disarmed
    <3> QED BY <1>c, <3>1, <3>2 DEF ArmedInv, Armed
  <2>3. PICK f \in FrameType : f = Frame("run", r, "enter") /\ f.fn = "run" /\ f.r = r /\ f.pc = "enter"
    <3>1. PICK pc \in PCs : pc = "enter"
      BY DEF PCs
    <3>2. PICK fn \in {"ctor", "ctorLoop", "run", "runner"} : fn = "run"
      OBVIOUS
    <3> QED BY <3>1, <3>2, NewFrame
  <2>4. Retop(p, f)
    BY <1>c, <1>p, <2>1, <2>2, <2>3, ReplaceStep
  <2>5. Slots' = Slots /\ G(p)' = f /\ \A s \in Slots : s # p => G(s)' = G(s)
    BY <2>4 DEF Retop
  <2>6. \A s \in Slots : Follows(G(s), G(s))
    BY DEF Follows
  <2>7. \A x \in Routines : On(x) => On(x)'
    BY <2>5, <1>u DEF On, Coro
  <2>8. \A s \in Slots' : G(s)'.fn # "runner" =>
          \/ G(s)'.r \in Routines /\ Asleep(G(s)'.r) /\ G(s)'.pc \notin Ending
          \/ \E u \in Slots : G(u).fn # "runner" /\ G(u).r = G(s)'.r /\ Follows(G(u), G(s)')
    <3>1. f.r \in Routines /\ Asleep(f.r) /\ f.pc \notin Ending
      BY <2>2, <2>3 DEF Ending
    <3> QED BY <2>5, <2>6, <3>1
  <2> QED BY <1>a, <2>7, <2>8, LifeKept
<1> QED BY <1>1, <1>2

\* The steps on the way to the end of a coroutine, and of await().
LEMMA LifeGo ==
    ASSUME CoreInv, LifeInv, NEW t \in Threads, NEW old, At(t, old),
           NEW pc \in PCs, Goto(t, pc), UNCHANGED <<life, owner, mIsDetached, finished>>,
           old # "runner", pc # "runner",
           \/ old \notin Ending /\ pc \notin Ending
           \/ old = "disable" /\ pc = "set"
    PROVE  LifeInv'
<1>c. TypeInv /\ ShapeInv
  BY DEF CoreInv
<1>p. PICK p \in Slots : /\ p = <<t, Len(stack[t])>> /\ G(p) = Top(t) /\ Top(t) \in FrameType
                         /\ stack[t] # <<>>
  BY <1>c, TopFrame DEF At
<1>f. PICK f \in FrameType : Retop(p, f) /\ f = [Top(t) EXCEPT !.pc = pc]
  BY <1>c, <1>p, GotoStep
<1>k. /\ f.fn = G(p).fn /\ f.r = G(p).r /\ f.pc = pc /\ f.destruct = G(p).destruct
      /\ G(p).pc = old /\ G(p).fn # "runner"
  BY <1>c, <1>p, <1>f, NextFrame DEF At, ShapeInv
<1>1. Follows(G(p), f)
  BY <1>k DEF Follows, Late, Ending
<1> QED BY <1>f, <1>k, <1>1, LifeRetop

\* A coroutine that leaves its thread has not ended.
LEMMA LifeSuspended ==
    ASSUME CoreInv, LifeInv, NEW t \in Threads, At(t, "suspend") \/ At(t, "install"), Suspended(t),
           UNCHANGED <<life, owner, mIsDetached, finished>>
    PROVE  LifeInv'
<1>c. TypeInv /\ ShapeInv /\ PlaceInv
  BY DEF CoreInv
<1>p. PICK p \in Slots : p = <<t, Len(stack[t])>> /\ G(p) = Top(t) /\ stack[t] # <<>>
  BY <1>c, TopFrame DEF At
<1>1. Popped(p)
  BY <1>c, <1>p, PopStep DEF Suspended
<1>2. ~finished[G(p).r]
  BY <1>c, <1>p DEF At, ShapeInv, PlaceInv, Ending
<1> QED BY <1>1, <1>2, LifePop

\* One that goes on at once has not ended either.
LEMMA LifeResumed ==
    ASSUME CoreInv, LifeInv, NEW t \in Threads,
           At(t, "suspend") \/ At(t, "result") \/ At(t, "spin"), NotSuspended(t),
           UNCHANGED <<life, owner, mIsDetached, finished>>
    PROVE  LifeInv'
<1>c. TypeInv /\ ShapeInv
  BY DEF CoreInv
<1>p. PICK p \in Slots : /\ p = <<t, Len(stack[t])>> /\ G(p) = Top(t) /\ Top(t) \in FrameType
                         /\ stack[t] # <<>>
  BY <1>c, TopFrame DEF At
<1>r. PICK r \in Routines : r = G(p).r
  BY <1>p, FrameFields
<1>w. PICK fn \in {"run", "ctorLoop"} : fn = IF Top(t).fn = "run" THEN "run" ELSE "ctorLoop"
  OBVIOUS
<1>v. PICK f \in FrameType : f = Frame(fn, r, "enter") /\ f.fn = fn /\ f.r = r /\ f.pc = "enter"
  <2>1. PICK pc \in PCs : pc = "enter"
    BY DEF PCs
  <2> QED BY <1>w, <2>1, NewFrame
<1>f. Retop(p, f)
  BY <1>c, <1>p, <1>r, <1>w, <1>v, ReplaceStep DEF NotSuspended
<1>1. G(p).pc \in {"suspend", "result", "spin"} /\ G(p).fn # "runner"
  BY <1>c, <1>p DEF At, ShapeInv
<1>2. Follows(G(p), f)
  BY <1>v, <1>1 DEF Follows, Late
<1> QED BY <1>r, <1>w, <1>v, <1>f, <1>1, <1>2, LifeRetop

\* await().
LEMMA LifeAwait ==
    ASSUME CoreInv, LifeInv, NEW t \in Threads,
           \/ \E x \in Routines \cup Futures \cup {Ioc, Timer} : Await(t, x)
           \/ SuspendOn(t) \/ TakeCaller(t) \/ SuspendResult(t) \/ InstallContinuation(t) \/ Spin(t)
           \/ Enter(t)
    PROVE  LifeInv'
<1>1. ASSUME NEW x \in Routines \cup Futures \cup {Ioc, Timer}, Await(t, x)
      PROVE  LifeInv'
  <2>1. PICK pc \in {"take", "suspend"} : pc = IF x \in Routines THEN "take" ELSE "suspend"
    OBVIOUS
  <2>2. /\ At(t, "user") /\ Goto(t, pc) /\ UNCHANGED <<life, owner, mIsDetached, finished>>
    BY <1>1, <2>1 DEF Await
  <2> QED BY <2>1, <2>2, LifeGo DEF PCs, Ending
<1>2. CASE SuspendOn(t)
  <2>1. /\ At(t, "suspend") /\ (Suspended(t) \/ NotSuspended(t))
        /\ UNCHANGED <<life, owner, mIsDetached, finished>>
    BY <1>2 DEF SuspendOn, routineVars
  <2> QED BY <2>1, LifeSuspended, LifeResumed
<1>3. CASE TakeCaller(t)
  <2>1. /\ At(t, "take") /\ Goto(t, "result") /\ UNCHANGED <<life, owner, mIsDetached, finished>>
    BY <1>3 DEF TakeCaller
  <2> QED BY <2>1, LifeGo DEF PCs, Ending
<1>4. CASE SuspendResult(t)
  <2>1. /\ At(t, "result") /\ (Goto(t, "install") \/ NotSuspended(t))
        /\ UNCHANGED <<life, owner, mIsDetached, finished>>
    BY <1>4 DEF SuspendResult
  <2>2. Goto(t, "install") => LifeInv'
    BY <2>1, LifeGo DEF PCs, Ending
  <2> QED BY <2>1, <2>2, LifeResumed
<1>5. CASE InstallContinuation(t)
  <2>1. /\ At(t, "install") /\ (Goto(t, "spin") \/ Suspended(t))
        /\ UNCHANGED <<life, owner, mIsDetached, finished>>
    BY <1>5 DEF InstallContinuation
  <2>2. Goto(t, "spin") => LifeInv'
    BY <2>1, LifeGo DEF PCs, Ending
  <2> QED BY <2>1, <2>2, LifeSuspended
<1>6. CASE Spin(t)
  BY <1>6, LifeResumed DEF Spin, routineVars
<1>7. CASE Enter(t)
  <2>1. /\ At(t, "enter") /\ Goto(t, "user") /\ UNCHANGED <<life, owner, mIsDetached, finished>>
    BY <1>7 DEF Enter
  <2> QED BY <2>1, LifeGo DEF PCs, Ending
<1> QED BY <1>1, <1>2, <1>3, <1>4, <1>5, <1>6, <1>7

\* A Runner is called.
LEMMA LifeCalled ==
    ASSUME CoreInv, LifeInv, NEW t \in Threads, NEW k \in Routines,
           Push(t, Frame("runner", k, "runner")), UNCHANGED <<life, owner, mIsDetached, finished>>
    PROVE  LifeInv'
<1>1. PICK f \in FrameType : f = Frame("runner", k, "runner") /\ f.fn = "runner"
  <2>1. PICK pc \in PCs : pc = "runner"
    BY DEF PCs
  <2>2. PICK fn \in {"ctor", "ctorLoop", "run", "runner"} : fn = "runner"
    OBVIOUS
  <2> QED BY <2>1, <2>2, NewFrame
<1>2. PICK q : Pushed(t, q, f)
  BY <1>1, PushStep DEF CoreInv
<1> QED BY <1>1, <1>2, LifePush

\* The steps that call a Runner.
LEMMA LifeWoken ==
    ASSUME CoreInv, LifeInv, NEW t \in Threads,
           \/ \E f \in Futures : SetFuture(t, f)
           \/ RunPosted(t) \/ \E r \in Routines : Expire(t, r)
    PROVE  LifeInv'
<1>c. TypeInv
  BY DEF CoreInv
<1>1. ASSUME NEW f \in Futures, SetFuture(t, f)
      PROVE  LifeInv'
  <2>1. UNCHANGED <<life, owner, mIsDetached, finished>>
    BY <1>1 DEF SetFuture, routineVars
  <2>2. CASE fut[f] = Null
    BY <1>1, <2>1, <2>2, StillStep, LifeStill DEF SetFuture
  <2>3. CASE fut[f] # Null
    <3>1. fut[f] \in Routines /\ Push(t, Frame("runner", fut[f], "runner"))
      BY <1>c, <1>1, <2>3 DEF SetFuture, TypeInv
    <3> QED BY <2>1, <3>1, LifeCalled
  <2> QED BY <2>2, <2>3
<1>2. CASE RunPosted(t)
  <2>1. Head(queue) \in Routines
    BY <1>c, <1>2, EmptySeq, TailDeque DEF RunPosted, TypeInv
  <2>2. UNCHANGED <<life, owner, mIsDetached, finished>>
    BY <1>2 DEF RunPosted, routineVars
  <2> QED BY <1>2, <2>1, <2>2, LifeCalled DEF RunPosted
<1>3. ASSUME NEW r \in Routines, Expire(t, r)
      PROVE  LifeInv'
  <2>1. UNCHANGED <<life, owner, mIsDetached, finished>>
    BY <1>3 DEF Expire, routineVars
  <2> QED BY <1>3, <2>1, LifeCalled DEF Expire
<1> QED BY <1>1, <1>2, <1>3

\* The end of a coroutine, except for its look at mIsDetached.
LEMMA LifeEnd ==
    ASSUME CoreInv, LifeInv, NEW t \in Threads,
           ExchangeContinuation(t) \/ DisableContinuation(t) \/ SetResult(t) \/ CallResult(t)
    PROVE  LifeInv'
<1>c. TypeInv /\ ShapeInv /\ PlaceInv /\ Geometry
  BY SlotGeometry DEF CoreInv
<1>p. PICK p \in Slots : /\ p = <<t, Len(stack[t])>> /\ G(p) = Top(t) /\ Top(t) \in FrameType
                         /\ stack[t] # <<>> /\ Th(p) = t
  BY <1>c, TopFrame DEF At, ExchangeContinuation, DisableContinuation, SetResult, CallResult
<1>r. PICK r \in Routines : r = G(p).r
  BY <1>p, FrameFields
<1>a. UNCHANGED <<life, owner, mIsDetached, finished>>
  BY DEF ExchangeContinuation, DisableContinuation, SetResult, CallResult, routineVars
<1>1. CASE ExchangeContinuation(t)
  <2>1. G(p).pc = "exchange" /\ G(p).fn # "runner"
    BY <1>c, <1>p, <1>1 DEF ExchangeContinuation, At, ShapeInv
  <2>2. PICK c \in Routines \cup {Null} : c = mContinuation[r]
    BY <1>c, <1>r, <2>1 DEF PlaceInv, TypeInv
  <2>3. PICK f : f = [Frame(G(p).fn, r, "detached") EXCEPT !.res = c]
    OBVIOUS
  <2>4. f.fn = G(p).fn /\ f.r = r /\ f.pc = "detached" /\ f \in FrameType
    BY <1>p, <2>1, <2>3, FrameFields DEF Frame, FrameType, PCs
  <2>5. Retop(p, f)
    BY <1>c, <1>p, <1>r, <1>1, <2>2, <2>3, <2>4, ReplaceStep DEF ExchangeContinuation, TakenContinuation
  <2>6. Follows(G(p), f)
    BY <2>1, <2>4 DEF Follows, Late
  <2> QED BY <1>a, <1>r, <2>1, <2>4, <2>5, <2>6, LifeRetop
<1>2. CASE DisableContinuation(t)
  <2>1. At(t, "disable") /\ Goto(t, "set")
    BY <1>2 DEF DisableContinuation
  <2> QED BY <1>a, <2>1, LifeGo DEF PCs
<1>3. CASE SetResult(t)
  <2>1. G(p).pc = "set" /\ G(p).fn # "runner"
    BY <1>c, <1>p, <1>3 DEF SetResult, At, ShapeInv
  <2>2. PICK k \in Routines \cup Threads \cup {Null} : k = mResult[r]
    BY <1>c, <1>r, <2>1 DEF PlaceInv, TypeInv
  <2>3. PICK f : f = [Top(t) EXCEPT !.call = k, !.pc = "call"]
    OBVIOUS
  <2>4. /\ f.fn = G(p).fn /\ f.r = r /\ f.pc = "call" /\ f.destruct = G(p).destruct /\ f \in FrameType
    BY <1>p, <1>r, <2>1, <2>3 DEF FrameType, PCs
  <2>5. Retop(p, f)
    BY <1>c, <1>p, <1>r, <1>3, <2>2, <2>3, <2>4, ReplaceStep DEF SetResult
  <2>6. Follows(G(p), f)
    BY <2>1, <2>4 DEF Follows, Late
  <2> QED BY <1>a, <1>r, <2>1, <2>4, <2>5, <2>6, LifeRetop
<1>4. CASE CallResult(t)
  <2>1. G(p).pc = "call" /\ G(p).fn # "runner"
    BY <1>c, <1>p, <1>4 DEF CallResult, At, ShapeInv
  <2>2. PICK g : g = [Top(t) EXCEPT !.pc = "return"]
    OBVIOUS
  <2>3. /\ g.fn = G(p).fn /\ g.r = r /\ g.pc = "return" /\ g.destruct = G(p).destruct /\ g \in FrameType
    BY <1>p, <1>r, <2>1, <2>2 DEF FrameType, PCs
  <2>4. Follows(G(p), g)
    BY <2>1, <2>3 DEF Follows, Late
  <2>5. CASE Top(t).call \notin Routines
    <3>1. Replace(t, g)
      BY <1>p, <1>4, <2>2, <2>5, EmptyThen DEF Top, Replace, CallResult
    <3>2. Retop(p, g)
      BY <1>c, <1>p, <2>3, <3>1, ReplaceStep
    <3> QED BY <1>a, <1>r, <2>1, <2>3, <2>4, <3>2, LifeRetop
  <2>6. CASE Top(t).call \in Routines
    <3>1. PICK f \in FrameType : f = Frame("runner", Top(t).call, "runner") /\ f.fn = "runner"
      <4>1. PICK pc \in PCs : pc = "runner"
        BY DEF PCs
      <4>2. PICK fn \in {"ctor", "ctorLoop", "run", "runner"} : fn = "runner"
        OBVIOUS
      <4> QED BY <2>6, <4>1, <4>2, NewFrame
    <3>2. stack' = [stack EXCEPT ![t] = <<f>> \o <<g>> \o Tail(@)]
      BY <1>p, <1>4, <2>2, <2>6, <3>1 DEF CallResult, Top
    <3>3. PICK q : PushedOn(p, g, q, f)
      BY <1>c, <1>p, <2>3, <3>2, PushOnStep
    <3>4. /\ Slots' = Slots \cup {q} /\ G(q)' = f /\ G(p)' = g
          /\ \A s \in Slots : s # p => G(s)' = G(s)
      BY <3>3 DEF PushedOn, Added
    <3>5. \A s \in Slots : Follows(G(s), G(s))
      BY DEF Follows
    <3>6. \A x \in Routines : On(x) => On(x)'
      BY <1>r, <2>3, <3>4 DEF On, Coro
    <3>7. \A s \in Slots' : G(s)'.fn # "runner" =>
            \E u \in Slots : G(u).fn # "runner" /\ G(u).r = G(s)'.r /\ Follows(G(u), G(s)')
      BY <1>r, <2>1, <2>3, <2>4, <3>1, <3>4, <3>5
    <3> QED BY <1>a, <3>6, <3>7, LifeKept
  <2> QED BY <2>5, <2>6
<1> QED BY <1>1, <1>2, <1>3, <1>4

\* The coroutine function returns.
LEMMA LifeFinish ==
    ASSUME CoreInv, LifeInv, NEW t \in Threads, Finish(t)
    PROVE  LifeInv'
<1>c. /\ TypeInv /\ ShapeInv /\ OnceInv /\ PlaceInv /\ RestInv /\ OwnerInv /\ ContinuationInv
      /\ Geometry
  BY SlotGeometry DEF CoreInv
<1>t. /\ life \in [Routines -> {"none", "alive", "freed"}] /\ finished \in [Routines -> BOOLEAN]
      /\ owner \in [Routines -> Routines \cup Threads \cup {Null}]
      /\ mIsDetached \in [Routines -> BOOLEAN]
      /\ \A s \in Slots : G(s).r \in Routines
  BY <1>c DEF TypeInv, Geometry
<1>p. PICK p \in Slots : /\ p = <<t, Len(stack[t])>> /\ G(p) = Top(t) /\ Top(t) \in FrameType
                         /\ stack[t] # <<>>
  BY <1>c, TopFrame DEF Finish, At
<1>r. PICK r \in Routines : r = G(p).r
  BY <1>p, FrameFields
<1>w. PICK pc \in {"detached", "exchange"} : pc = IF Top(t).fn = "ctor" THEN "detached" ELSE "exchange"
  OBVIOUS
<1>f. PICK f \in FrameType : Retop(p, f) /\ f = [Top(t) EXCEPT !.pc = pc]
  BY <1>c, <1>p, <1>w, GotoStep DEF Finish, PCs
<1>k. /\ f.fn # "runner" /\ f.r = r /\ f.pc = pc /\ G(p).pc = "user" /\ G(p).fn # "runner"
  BY <1>c, <1>p, <1>r, <1>f, <1>w, NextFrame DEF PCs, Finish, At, ShapeInv
<1>l. life[r] = "alive" /\ ~finished[r] /\ (mIsDetached[r] <=> owner[r] = Null)
  BY <1>c, <1>k, <1>r DEF PlaceInv, Ending, LifeInv
<1>a. finished' = [finished EXCEPT ![r] = TRUE] /\ UNCHANGED <<life, owner, mIsDetached>>
  BY <1>p, <1>r DEF Finish
<1>s. Slots' = Slots /\ G(p)' = f /\ \A s \in Slots : s # p => G(s)' = G(s)
  BY <1>f DEF Retop
<1>1. \A x \in Routines : On(x)' <=> On(x)
  BY <1>s, <1>k, <1>r DEF On, Coro
<1>2. On(r)
  BY <1>k, <1>r DEF On, Coro
<1>3. ASSUME NEW x \in Routines
      PROVE  /\ owner'[x] # Null => life'[x] = "alive"
             /\ life'[x] # "none" /\ ~finished'[x] => (mIsDetached'[x] <=> owner'[x] = Null)
             /\ finished'[x] /\ ~On(x)' => mIsDetached'[x] /\ (life'[x] = "alive" => owner'[x] # Null)
  BY <1>t, <1>a, <1>l, <1>1, <1>2 DEF LifeInv
<1> QED BY <1>w, <1>k, <1>l, <1>a, <1>s, <1>3 DEF LifeInv

\* ResultSetter and mIsDetached: whoever comes second, frees the Data.
LEMMA LifeCheckDetached ==
    ASSUME CoreInv, LifeInv, NEW t \in Threads, CheckDetached(t)
    PROVE  LifeInv'
<1>c. /\ TypeInv /\ ShapeInv /\ OnceInv /\ PlaceInv /\ RestInv /\ OwnerInv /\ ContinuationInv
      /\ Geometry
  BY SlotGeometry DEF CoreInv
<1>t. /\ life \in [Routines -> {"none", "alive", "freed"}] /\ finished \in [Routines -> BOOLEAN]
      /\ owner \in [Routines -> Routines \cup Threads \cup {Null}]
      /\ mIsDetached \in [Routines -> BOOLEAN]
      /\ \A s \in Slots : G(s).r \in Routines
  BY <1>c DEF TypeInv, Geometry
<1>p. PICK p \in Slots : /\ p = <<t, Len(stack[t])>> /\ G(p) = Top(t) /\ Top(t) \in FrameType
                         /\ stack[t] # <<>>
  BY <1>c, TopFrame DEF CheckDetached, At
<1>r. PICK r \in Routines : r = G(p).r
  BY <1>p, FrameFields
<1>v. PICK d \in BOOLEAN : d = mIsDetached[r]
  BY <1>t
<1>x. PICK f : f = [Top(t) EXCEPT !.destruct = d, !.pc = "disable"]
  OBVIOUS
<1>k. /\ f.fn # "runner" /\ f.r = r /\ f.pc = "disable" /\ f.destruct = d
      /\ G(p).pc = "detached" /\ G(p).fn # "runner" /\ f \in FrameType
  <2>1. G(p).pc = "detached" /\ G(p).fn # "runner"
    BY <1>c, <1>p DEF CheckDetached, At, ShapeInv
  <2> QED BY <1>p, <1>r, <1>v, <1>x, <2>1 DEF FrameType, PCs
<1>f. Retop(p, f)
  BY <1>c, <1>p, <1>r, <1>v, <1>x, <1>k, ReplaceStep DEF CheckDetached, Destructs
<1>l. life[r] = "alive" /\ finished[r] /\ (d <=> owner[r] = Null)
  BY <1>c, <1>k, <1>r, <1>v DEF PlaceInv, Ending, LifeInv
<1>a. mIsDetached' = [mIsDetached EXCEPT ![r] = TRUE] /\ UNCHANGED <<life, owner, finished>>
  BY <1>p, <1>r DEF CheckDetached
<1>s. Slots' = Slots /\ G(p)' = f /\ \A s \in Slots : s # p => G(s)' = G(s)
  BY <1>f DEF Retop
<1>1. \A x \in Routines : On(x)' <=> On(x)
  BY <1>s, <1>k, <1>r DEF On, Coro
<1>3. ASSUME NEW x \in Routines
      PROVE  /\ owner'[x] # Null => life'[x] = "alive"
             /\ life'[x] # "none" /\ ~finished'[x] => (mIsDetached'[x] <=> owner'[x] = Null)
             /\ finished'[x] /\ ~On(x)' => mIsDetached'[x] /\ (life'[x] = "alive" => owner'[x] # Null)
  BY <1>t, <1>a, <1>l, <1>1 DEF LifeInv
<1>4. \A s \in Slots : s # p /\ G(s).fn # "runner" => G(s).r # r
  BY <1>c, <1>k, <1>r DEF OnceInv, OneEach
<1> QED BY <1>t, <1>k, <1>l, <1>a, <1>s, <1>3, <1>4 DEF LifeInv

\* The constructor or resume() returns.
LEMMA LifeReturn ==
    ASSUME CoreInv, LifeInv, NEW t \in Threads, Return(t)
    PROVE  LifeInv'
<1>c. /\ TypeInv /\ ShapeInv /\ OnceInv /\ PlaceInv /\ RestInv /\ OwnerInv /\ ContinuationInv
      /\ Geometry
  BY SlotGeometry DEF CoreInv
<1>t. /\ life \in [Routines -> {"none", "alive", "freed"}] /\ finished \in [Routines -> BOOLEAN]
      /\ owner \in [Routines -> Routines \cup Threads \cup {Null}]
      /\ mIsDetached \in [Routines -> BOOLEAN]
      /\ \A s \in Slots : G(s).r \in Routines
  BY <1>c DEF TypeInv, Geometry
<1>p. PICK p \in Slots : /\ p = <<t, Len(stack[t])>> /\ G(p) = Top(t) /\ Top(t) \in FrameType
                         /\ stack[t] # <<>>
  BY <1>c, TopFrame DEF Return, At
<1>r. PICK r \in Routines : r = G(p).r
  BY <1>p, FrameFields
<1>x. PICK d \in BOOLEAN : d = G(p).destruct
  BY <1>p, FrameFields
<1>k. G(p).pc = "return" /\ G(p).fn # "runner"
  BY <1>c, <1>p DEF Return, At, ShapeInv
<1>l. finished[r] /\ mIsDetached[r] /\ (d <=> (life[r] = "alive" /\ owner[r] = Null))
  BY <1>c, <1>k, <1>r, <1>x DEF PlaceInv, Ending, LifeInv
<1>a. /\ life' = [life EXCEPT ![r] = IF d THEN "freed" ELSE @]
      /\ UNCHANGED <<mIsDetached, finished, owner>>
  BY <1>p, <1>r, <1>x DEF Return
<1>4. \A s \in Slots : s # p /\ G(s).fn # "runner" => G(s).r # r
  BY <1>c, <1>k, <1>r DEF OnceInv, OneEach
<1>5. ASSUME \A y \in Routines : y # r => (On(y) => On(y)')
      PROVE  \A x \in Routines :
               /\ owner'[x] # Null => life'[x] = "alive"
               /\ life'[x] # "none" /\ ~finished'[x] => (mIsDetached'[x] <=> owner'[x] = Null)
               /\ finished'[x] /\ ~On(x)' => mIsDetached'[x] /\ (life'[x] = "alive" => owner'[x] # Null)
  BY <1>t, <1>a, <1>l, <1>5 DEF LifeInv
<1>6. CASE Top(t).fn = "run" /\ Top(t).res # Null
  <2>1. PICK c \in Routines : c = G(p).res
    BY <1>p, <1>6, FrameFields
  <2>2. Asleep(c) /\ life[c] = "alive" /\ ~finished[c] /\ c # r
    <3>1. Asleep(c)
      BY <1>c, <2>1 DEF ContinuationInv
    <3> QED BY <1>l, <3>1, AsleepAlive
  <2>3. PICK f \in FrameType : f = Frame("run", c, "enter") /\ f.fn = "run" /\ f.r = c /\ f.pc = "enter"
    <3>1. PICK pc \in PCs : pc = "enter"
      BY DEF PCs
    <3>2. PICK fn \in {"ctor", "ctorLoop", "run", "runner"} : fn = "run"
      OBVIOUS
    <3> QED BY <3>1, <3>2, NewFrame
  <2>4. Replace(t, f)
    BY <1>p, <1>6, <2>1, <2>3, Names DEF Return, NextContinuation
  <2>5. Retop(p, f)
    BY <1>c, <1>p, <2>4, ReplaceStep
  <2>6. Slots' = Slots /\ G(p)' = f /\ \A s \in Slots : s # p => G(s)' = G(s)
    BY <2>5 DEF Retop
  <2>7. \A y \in Routines : y # r => (On(y) => On(y)')
    BY <2>6, <1>r DEF On, Coro
  <2> QED BY <1>t, <1>a, <1>4, <1>5, <2>2, <2>3, <2>6, <2>7 DEF LifeInv
<1>7. CASE ~(Top(t).fn = "run" /\ Top(t).res # Null)
  <2>1. Pop(t)
    BY <1>p, <1>7, FrameFields, Names DEF Return, NextContinuation
  <2>2. Popped(p)
    BY <1>c, <1>p, <2>1, PopStep
  <2>3. Slots' = Slots \ {p} /\ \A s \in Slots : s # p => G(s)' = G(s)
    BY <2>2 DEF Popped
  <2>4. \A y \in Routines : y # r => (On(y) => On(y)')
    BY <2>3, <1>r DEF On, Coro
  <2> QED BY <1>t, <1>a, <1>4, <1>5, <2>3, <2>4 DEF LifeInv
<1> QED BY <1>6, <1>7

\* Routine{f}.
LEMMA LifeSpawn ==
    ASSUME CoreInv, LifeInv, NEW t \in Threads, NEW r \in Routines, Spawn(t, r)
    PROVE  LifeInv'
<1>c. /\ TypeInv /\ ShapeInv /\ OnceInv /\ PlaceInv /\ RestInv /\ OwnerInv /\ ContinuationInv
      /\ Geometry
  BY SlotGeometry DEF CoreInv
<1>t. /\ life \in [Routines -> {"none", "alive", "freed"}] /\ finished \in [Routines -> BOOLEAN]
      /\ owner \in [Routines -> Routines \cup Threads \cup {Null}]
      /\ mIsDetached \in [Routines -> BOOLEAN]
      /\ \A s \in Slots : G(s).r \in Routines
  BY <1>c DEF TypeInv, Geometry
<1>n. ~On(r) /\ ~finished[r] /\ ~mIsDetached[r] /\ life[r] = "none"
  BY Unborn DEF Spawn
<1>v. PICK f \in FrameType : f = Frame("ctor", r, "user") /\ f.fn = "ctor" /\ f.r = r /\ f.pc = "user"
  <2>1. PICK pc \in PCs : pc = "user"
    BY DEF PCs
  <2>2. PICK fn \in {"ctor", "ctorLoop", "run", "runner"} : fn = "ctor"
    OBVIOUS
  <2> QED BY <2>1, <2>2, NewFrame
<1>q. PICK q : Pushed(t, q, f)
  BY <1>c, <1>v, PushStep DEF Spawn
<1>s. Slots' = Slots \cup {q} /\ G(q)' = f /\ \A s \in Slots : G(s)' = G(s)
  BY <1>q DEF Pushed, Added
<1>g. Actor(t) # Null
  <2>1. CASE stack[t] = <<>>
    BY <2>1, Names DEF Actor
  <2>2. CASE stack[t] # <<>>
    <3>1. Top(t) \in FrameType
      BY <1>c, <2>2, TopFrame
    <3> QED BY <2>2, <3>1, FrameFields, Names DEF Actor
  <2> QED BY <2>1, <2>2
<1>a. /\ life' = [life EXCEPT ![r] = "alive"] /\ owner' = [owner EXCEPT ![r] = Actor(t)]
      /\ UNCHANGED <<mIsDetached, finished>>
  BY DEF Spawn
<1>1. \A x \in Routines : On(x) => On(x)'
  BY <1>s DEF On, Coro
<1>2. \A s \in Slots : G(s).fn # "runner" => G(s).r # r
  BY <1>n DEF On, Coro
<1>3. ASSUME NEW x \in Routines
      PROVE  /\ owner'[x] # Null => life'[x] = "alive"
             /\ life'[x] # "none" /\ ~finished'[x] => (mIsDetached'[x] <=> owner'[x] = Null)
             /\ finished'[x] /\ ~On(x)' => mIsDetached'[x] /\ (life'[x] = "alive" => owner'[x] # Null)
  BY <1>t, <1>a, <1>n, <1>g, <1>1 DEF LifeInv
<1> QED BY <1>t, <1>v, <1>a, <1>s, <1>2, <1>3 DEF LifeInv

\* detach(), not on the way of the coroutine to its end.
LEMMA LifeDetach ==
    ASSUME CoreInv, LifeInv, DetachWhen # "anytime", NEW t \in Threads, NEW r \in Routines, Detach(t, r)
    PROVE  LifeInv'
<1>c. /\ TypeInv /\ ShapeInv /\ OnceInv /\ PlaceInv /\ RestInv /\ OwnerInv /\ ContinuationInv
      /\ Geometry
  BY SlotGeometry DEF CoreInv
<1>t. /\ life \in [Routines -> {"none", "alive", "freed"}] /\ finished \in [Routines -> BOOLEAN]
      /\ owner \in [Routines -> Routines \cup Threads \cup {Null}]
      /\ mIsDetached \in [Routines -> BOOLEAN]
      /\ \A s \in Slots : G(s).r \in Routines
  BY <1>c DEF TypeInv, Geometry
<1>l. owner[r] # Null /\ (finished[r] => ~On(r)) /\ life[r] = "alive"
  <2>1. owner[r] # Null
    BY HandleInUse DEF Detach
  <2>2. finished[r] => FramesOf(r) = {}
    BY BoundAssumption DEF Detach
  <2> QED BY <1>c, <2>1, <2>2, FramesOn DEF LifeInv
<1>m. mIsDetached[r] <=> finished[r]
  BY <1>c, <1>l DEF LifeInv, RestInv
<1>a. /\ owner' = [owner EXCEPT ![r] = Null] /\ mIsDetached' = [mIsDetached EXCEPT ![r] = TRUE]
      /\ life' = [life EXCEPT ![r] = IF mIsDetached[r] THEN "freed" ELSE @]
      /\ UNCHANGED finished
  BY DEF Detach
<1>s. Slots' = Slots /\ \A s \in Slots : G(s)' = G(s)
  BY StillStep DEF Detach, Still
<1>1. \A x \in Routines : On(x)' <=> On(x)
  BY <1>s DEF On, Coro
<1>2. \A s \in Slots : G(s).fn # "runner" /\ G(s).r = r => G(s).pc \notin Ending /\ ~mIsDetached[r]
  BY <1>c, <1>l, <1>m DEF PlaceInv, On, Coro
<1>3. ASSUME NEW x \in Routines
      PROVE  /\ owner'[x] # Null => life'[x] = "alive"
             /\ life'[x] # "none" /\ ~finished'[x] => (mIsDetached'[x] <=> owner'[x] = Null)
             /\ finished'[x] /\ ~On(x)' => mIsDetached'[x] /\ (life'[x] = "alive" => owner'[x] # Null)
  BY <1>t, <1>a, <1>l, <1>m, <1>1 DEF LifeInv
<1> QED BY <1>t, <1>a, <1>l, <1>s, <1>2, <1>3 DEF LifeInv, Ending

\* The handle of a coroutine that is ready goes out of scope.
LEMMA LifeDrop ==
    ASSUME CoreInv, LifeInv, NEW t \in Threads, NEW r \in Routines, Drop(t, r)
    PROVE  LifeInv'
<1>c. /\ TypeInv /\ ShapeInv /\ OnceInv /\ PlaceInv /\ RestInv /\ OwnerInv /\ ContinuationInv
      /\ Geometry
  BY SlotGeometry DEF CoreInv
<1>t. /\ life \in [Routines -> {"none", "alive", "freed"}] /\ finished \in [Routines -> BOOLEAN]
      /\ owner \in [Routines -> Routines \cup Threads \cup {Null}]
      /\ mIsDetached \in [Routines -> BOOLEAN]
      /\ \A s \in Slots : G(s).r \in Routines
  BY <1>c DEF TypeInv, Geometry
<1>l. owner[r] # Null /\ mResult[r] = Invalid /\ finished[r]
  <2>1. owner[r] # Null
    BY HandleInUse DEF Drop
  <2>2. mResult[r] = Invalid
    BY DEF Drop, IsReady
  <2> QED BY <1>c, <2>1, <2>2 DEF RestInv
<1>a. /\ owner' = [owner EXCEPT ![r] = Null] /\ life' = [life EXCEPT ![r] = "freed"]
      /\ UNCHANGED <<mIsDetached, finished>>
  BY DEF Drop
<1>s. Slots' = Slots /\ \A s \in Slots : G(s)' = G(s)
  BY StillStep DEF Drop, Still
<1>1. \A x \in Routines : On(x)' <=> On(x)
  BY <1>s DEF On, Coro
<1>2. \A s \in Slots : G(s).fn # "runner" /\ G(s).r = r => G(s).pc \in {"call", "return"}
  BY <1>c, <1>l DEF PlaceInv
<1>3. ASSUME NEW x \in Routines
      PROVE  /\ owner'[x] # Null => life'[x] = "alive"
             /\ life'[x] # "none" /\ ~finished'[x] => (mIsDetached'[x] <=> owner'[x] = Null)
             /\ finished'[x] /\ ~On(x)' => mIsDetached'[x] /\ (life'[x] = "alive" => owner'[x] # Null)
  BY <1>t, <1>a, <1>l, <1>1 DEF LifeInv
<1> QED BY <1>t, <1>a, <1>l, <1>s, <1>2, <1>3 DEF LifeInv

\* Every step preserves the invariant of the memory.
LEMMA NextLife ==
    ASSUME CoreInv, LifeInv, DetachWhen # "anytime", [Next]_vars
    PROVE  LifeInv'
<1>1. CASE UNCHANGED vars
  <2>1. UNCHANGED <<stack, life, owner, mIsDetached, finished>>
    BY <1>1 DEF vars, routineVars
  <2> QED BY <2>1, StillStep, LifeStill
<1>2. ASSUME NEW t \in Threads, UserStep(t)
      PROVE  LifeInv'
  <2>1. CASE Finish(t)
    BY <2>1, LifeFinish
  <2>2. ASSUME NEW r \in Routines, Spawn(t, r) \/ Detach(t, r) \/ Drop(t, r) \/ Join(t, r)
        PROVE  LifeInv'
    <3>1. CASE Join(t, r)
      <4>1. UNCHANGED <<stack, life, owner, mIsDetached, finished>>
        BY <3>1 DEF Join
      <4> QED BY <4>1, StillStep, LifeStill
    <3> QED BY <2>2, <3>1, LifeSpawn, LifeDetach, LifeDrop
  <2>3. CASE \E x \in Routines \cup Futures \cup {Ioc, Timer} : Await(t, x)
    BY <2>3, LifeAwait
  <2>4. CASE \E f \in Futures : SetFuture(t, f)
    BY <2>4, LifeWoken
  <2> QED BY <1>2, <2>1, <2>2, <2>3, <2>4 DEF UserStep
<1>3. ASSUME NEW t \in Threads, LibraryStep(t)
      PROVE  LifeInv'
  <2>1. CASE RunPosted(t) \/ \E r \in Routines : Expire(t, r)
    BY <2>1, LifeWoken
  <2>2. CASE CallRunner(t) \/ CheckDetached(t) \/ Return(t)
    BY <2>2, LifeCallRunner, LifeCheckDetached, LifeReturn
  <2>3. CASE \/ SuspendOn(t) \/ TakeCaller(t) \/ SuspendResult(t) \/ InstallContinuation(t)
             \/ Spin(t) \/ Enter(t)
    BY <2>3, LifeAwait
  <2>4. CASE ExchangeContinuation(t) \/ DisableContinuation(t) \/ SetResult(t) \/ CallResult(t)
    BY <2>4, LifeEnd
  <2> QED BY <1>3, <2>1, <2>2, <2>3, <2>4 DEF LibraryStep
<1> QED BY <1>1, <1>2, <1>3 DEF Next

\* The memory is what the invariant says when detach() does not race with the
\* end of the coroutine.
THEOREM LifeInvariance ==
    ASSUME DetachWhen # "anytime"
    PROVE  Spec => [](CoreInv /\ LifeInv)
<1>1. Init => CoreInv /\ LifeInv
  <2> SUFFICES ASSUME Init PROVE CoreInv /\ LifeInv
    OBVIOUS
  <2>1. CoreInv
    BY InitCore
  <2>2. Slots = {}
    <3>1. \A t \in Threads : Len(stack[t]) = 0
      BY DEF Init
    <3> QED BY <2>1, <3>1, SlotFacts DEF CoreInv
  <2> QED BY <2>1, <2>2 DEF LifeInv, Init
<1>2. CoreInv /\ LifeInv /\ [Next]_vars => (CoreInv /\ LifeInv)'
  BY NextCore, NextLife
<1> QED BY <1>1, <1>2, PTL DEF Spec

\* A coroutine whose Runner was disarmed has not been freed.
LEMMA ParkedAlive ==
    ASSUME CoreInv, LifeInv, NEW r \in Routines, Parked(r)
    PROVE  life[r] = "alive"
<1>1. CASE Asleep(r)
  BY <1>1, AsleepAlive
<1>2. CASE \E s \in Slots : Coro(s, r) /\ G(s).pc \in {"install", "spin"}
  BY <1>2 DEF LifeInv, Coro
<1> QED BY <1>1, <1>2 DEF Parked

\* What the next step of a thread uses is alive.
LEMMA MemoryFromLife ==
    ASSUME CoreInv, LifeInv
    PROVE  NoUseAfterFree
<1>c. /\ TypeInv /\ ShapeInv /\ PlaceInv /\ OwnerInv /\ ArmedInv /\ DisarmedInv /\ Geometry
  BY SlotGeometry DEF CoreInv
<1>1. ASSUME NEW t \in Threads, NEW x \in Touched(t)
      PROVE  life[x] = "alive"
  <2>1. stack[t] # <<>>
    BY <1>1 DEF Touched
  <2>2. PICK p \in Slots : G(p) = Top(t) /\ Top(t) \in FrameType
    BY <1>c, <2>1, TopFrame
  <2>3. G(p).r \in Routines
    BY <2>2, FrameFields
  <2>4. CASE G(p).pc \in {"result", "install"}
    <3>1. G(p).fn # "runner" /\ life[G(p).r] = "alive"
      BY <1>c, <2>4 DEF ShapeInv, LifeInv
    <3>2. waitFor[G(p).r] \in Routines /\ owner[waitFor[G(p).r]] = G(p).r
      BY <1>c, <2>3, <2>4, <3>1 DEF PlaceInv, OwnerInv
    <3>3. life[waitFor[G(p).r]] = "alive"
      BY <2>3, <3>2, Names DEF LifeInv
    <3> QED BY <1>1, <2>1, <2>2, <2>4, <3>1, <3>3 DEF Touched
  <2>5. CASE G(p).pc = "call"
    <3>1. x = G(p).call /\ x \in Routines
      BY <1>1, <2>1, <2>2, <2>5 DEF Touched
    <3>2. Parked(x)
      BY <1>c, <2>5, <3>1 DEF DisarmedInv, Disarmed
    <3> QED BY <3>1, <3>2, ParkedAlive
  <2>6. CASE G(p).pc = "return"
    <3>1. G(p).destruct /\ x = G(p).r
      BY <1>1, <2>1, <2>2, <2>6 DEF Touched
    <3> QED BY <1>c, <2>6, <3>1 DEF ShapeInv, LifeInv
  <2>7. CASE G(p).pc = "runner"
    <3>1. x = G(p).r /\ Called(x) /\ G(p).fn = "runner"
      BY <1>c, <1>1, <2>1, <2>2, <2>7 DEF Touched, ShapeInv, Called, Call
    <3>2. Parked(x)
      BY <1>c, <2>3, <3>1 DEF ArmedInv, Armed, DisarmedInv, Disarmed, Parked
    <3> QED BY <2>3, <3>1, <3>2, ParkedAlive
  <2>8. CASE G(p).pc \notin {"result", "install", "call", "return", "runner"}
    <3>1. x = G(p).r
      BY <1>1, <2>1, <2>2, <2>8 DEF Touched
    <3> QED BY <1>c, <2>8, <3>1 DEF ShapeInv, LifeInv
  <2> QED BY <2>4, <2>5, <2>6, <2>7, <2>8
<1> QED BY <1>1 DEF NoUseAfterFree, LifeInv

\* What is finished and has neither handle nor frame has been freed.
LEMMA ReleaseFromLife ==
    ASSUME CoreInv, LifeInv
    PROVE  ReleasedInTime
BY FramesOn DEF ReleasedInTime, CoreInv, RestInv, LifeInv

\* When detach() does not race with the end of a coroutine, no step uses the
\* memory of a Data that has been released and no handle refers to it.
THEOREM MemorySafe ==
    ASSUME DetachWhen # "anytime"
    PROVE  Spec => []NoUseAfterFree
BY LifeInvariance, MemoryFromLife, PTL

\* Then no coroutine is destroyed before its end, and its memory is released as
\* soon as neither a handle nor a call in progress is left.
THEOREM MemoryReleased ==
    ASSUME DetachWhen # "anytime"
    PROVE  Spec => []ReleasedInTime
BY LifeInvariance, ReleaseFromLife, PTL

-----------------------------------------------------------------------------
(* The library implements AbstractRoutine: await() returns only after what *)
(* it awaits.                                                              *)

\* What has happened: a future is set, the result of a coroutine is ready, and the
\* io_context or a timer has called the Runner.
Past(x) ==
    \/ x \in {Ioc, Timer}
    \/ x \in Futures /\ fut[x] = Invalid
    \/ x \in Routines /\ mResult[x] = Invalid

\* The code of r runs; it is about to run; it has registered its disarmed Runner
\* with the coroutine it awaits.
Running(r) == \E s \in Slots : G(s).pc = "user" /\ G(s).r = r
Resuming(r) == \E s \in Slots : G(s).pc = "enter" /\ G(s).r = r
Registered(r) == \E s \in Slots : G(s).pc \in {"install", "spin"} /\ G(s).r = r

\* A coroutine goes on, or is told to by the call of its Runner, after what it
\* awaits.
PastInv ==
    /\ \A r \in Routines : Resuming(r) => Past(waitFor[r])
    /\ \A r \in Routines : Registered(r) /\ mCaller[r] = Invalid => Past(waitFor[r])
    /\ \A r, s \in Routines : waitFor[r] \in Futures /\ waitFor[s] = waitFor[r] => r = s

\* A step that the users of coroutines do not notice.
Unnoticed ==
    /\ \A x \in Routines : Running(x)' <=> Running(x)
    /\ \A x \in Routines : Resuming(x)' => Resuming(x) \/ Past(waitFor[x])
    /\ \A x \in Routines : Registered(x)' => Registered(x) \/ (mCaller[x] = Null /\ UNCHANGED mCaller)

\* What keeps a step from being noticed, for each thing it may do to the stacks:
\* nothing happens to them.
LEMMA UnnoticedStill ==
    ASSUME Still
    PROVE  Unnoticed
BY DEF Still, Unnoticed, Running, Resuming, Registered

\* The newest frame is another one.
LEMMA UnnoticedRetop ==
    ASSUME NEW p \in Slots, NEW f, Retop(p, f), G(p).pc # "user", f.pc # "user",
           f.pc = "enter" => Past(waitFor[f.r]),
           f.pc \in {"install", "spin"} =>
             \/ G(p).pc \in {"install", "spin"} /\ f.r = G(p).r
             \/ mCaller[f.r] = Null /\ UNCHANGED mCaller
    PROVE  Unnoticed
<1>1. Slots' = Slots /\ G(p)' = f /\ \A s \in Slots : s # p => G(s)' = G(s)
  BY DEF Retop
<1>2. \A x \in Routines : Running(x)' <=> Running(x)
  BY <1>1 DEF Running
<1>3. \A x \in Routines : Resuming(x)' => Resuming(x) \/ Past(waitFor[x])
  BY <1>1 DEF Resuming
<1>4. \A x \in Routines : Registered(x)' => Registered(x) \/ (mCaller[x] = Null /\ UNCHANGED mCaller)
  BY <1>1 DEF Registered
<1> QED BY <1>2, <1>3, <1>4 DEF Unnoticed

\* It is removed.
LEMMA UnnoticedPop ==
    ASSUME NEW p \in Slots, Popped(p), G(p).pc # "user"
    PROVE  Unnoticed
<1>1. Slots' = Slots \ {p} /\ \A s \in Slots : s # p => G(s)' = G(s)
  BY DEF Popped
<1>2. \A x \in Routines : Running(x)' <=> Running(x)
  BY <1>1 DEF Running
<1>3. \A x \in Routines : Resuming(x)' => Resuming(x)
  BY <1>1 DEF Resuming
<1>4. \A x \in Routines : Registered(x)' => Registered(x)
  BY <1>1 DEF Registered
<1> QED BY <1>2, <1>3, <1>4 DEF Unnoticed

\* A frame is added.
LEMMA UnnoticedPush ==
    ASSUME NEW t, NEW q, NEW f, Pushed(t, q, f), f.pc \notin {"user", "enter", "install", "spin"}
    PROVE  Unnoticed
<1>1. q \notin Slots /\ Slots' = Slots \cup {q} /\ G(q)' = f /\ \A s \in Slots : G(s)' = G(s)
  BY DEF Pushed, Added
<1>2. \A x \in Routines : Running(x)' <=> Running(x)
  BY <1>1 DEF Running
<1>3. \A x \in Routines : Resuming(x)' => Resuming(x)
  BY <1>1 DEF Resuming
<1>4. \A x \in Routines : Registered(x)' => Registered(x)
  BY <1>1 DEF Registered
<1> QED BY <1>2, <1>3, <1>4 DEF Unnoticed

\* The newest frame is another one, and one is added.
LEMMA UnnoticedPushOn ==
    ASSUME NEW p \in Slots, NEW g, NEW q, NEW f, PushedOn(p, g, q, f),
           f.pc \notin {"user", "enter", "install", "spin"},
           g.pc \notin {"user", "enter", "install", "spin"}, G(p).pc # "user"
    PROVE  Unnoticed
<1>1. /\ q \notin Slots /\ Slots' = Slots \cup {q} /\ G(q)' = f /\ G(p)' = g
      /\ \A s \in Slots : s # p => G(s)' = G(s)
  BY DEF PushedOn, Added
<1>2. \A x \in Routines : Running(x)' <=> Running(x)
  BY <1>1 DEF Running
<1>3. \A x \in Routines : Resuming(x)' => Resuming(x)
  BY <1>1 DEF Resuming
<1>4. \A x \in Routines : Registered(x)' => Registered(x)
  BY <1>1 DEF Registered
<1> QED BY <1>2, <1>3, <1>4 DEF Unnoticed

\* The same for the forms of the steps in the actions.
LEMMA UnnoticedTop ==
    ASSUME TypeInv, NEW t \in Threads, stack[t] # <<>>, Top(t).pc # "user",
           \/ Pop(t)
           \/ \E f \in FrameType :
                /\ Replace(t, f) /\ f.pc \notin {"user", "install", "spin"}
                /\ f.pc = "enter" => Past(waitFor[f.r])
           \/ \E pc \in PCs :
                /\ Goto(t, pc) /\ pc \notin {"user", "enter"}
                /\ pc \in {"install", "spin"} =>
                     \/ Top(t).pc \in {"install", "spin"}
                     \/ mCaller[Top(t).r] = Null /\ UNCHANGED mCaller
    PROVE  Unnoticed
<1>p. PICK p \in Slots : p = <<t, Len(stack[t])>> /\ G(p) = Top(t) /\ Top(t) \in FrameType
  BY TopFrame
<1>1. CASE Pop(t)
  BY <1>p, <1>1, PopStep, UnnoticedPop
<1>2. ASSUME NEW f \in FrameType, Replace(t, f), f.pc \notin {"user", "install", "spin"},
             f.pc = "enter" => Past(waitFor[f.r])
      PROVE  Unnoticed
  BY <1>p, <1>2, ReplaceStep, UnnoticedRetop
<1>3. ASSUME NEW pc \in PCs, Goto(t, pc), pc \notin {"user", "enter"},
             pc \in {"install", "spin"} =>
               \/ Top(t).pc \in {"install", "spin"}
               \/ mCaller[Top(t).r] = Null /\ UNCHANGED mCaller
      PROVE  Unnoticed
  <2>1. PICK f \in FrameType : Retop(p, f) /\ f = [Top(t) EXCEPT !.pc = pc]
    BY <1>p, <1>3, GotoStep
  <2>2. f.r = Top(t).r /\ f.pc = pc
    BY <1>p, <2>1, NextFrame
  <2> QED BY <1>p, <1>3, <2>1, <2>2, UnnoticedRetop
<1> QED BY <1>1, <1>2, <1>3

\* A Runner is called.
LEMMA UnnoticedCall ==
    ASSUME TypeInv, NEW t \in Threads, NEW k \in Routines, Push(t, Frame("runner", k, "runner"))
    PROVE  Unnoticed
<1>1. PICK f \in FrameType : f = Frame("runner", k, "runner") /\ f.pc = "runner"
  <2>1. PICK pc \in PCs : pc = "runner"
    BY DEF PCs
  <2>2. PICK fn \in {"ctor", "ctorLoop", "run", "runner"} : fn = "runner"
    OBVIOUS
  <2> QED BY <2>1, <2>2, NewFrame
<1>2. PICK q : Pushed(t, q, f)
  BY <1>1, PushStep
<1> QED BY <1>1, <1>2, UnnoticedPush

\* A frame from which a coroutine that need not wait any longer is resumed.
LEMMA UnnoticedResumption ==
    ASSUME TypeInv, NEW t \in Threads, stack[t] # <<>>, Top(t).pc # "user", NEW r \in Routines,
           Past(waitFor[r]), NEW fn \in {"run", "ctorLoop"}, Replace(t, Frame(fn, r, "enter"))
    PROVE  Unnoticed
<1>1. PICK f \in FrameType : f = Frame(fn, r, "enter") /\ f.r = r /\ f.pc = "enter"
  <2>1. PICK pc \in PCs : pc = "enter"
    BY DEF PCs
  <2> QED BY <2>1, NewFrame
<1> QED BY <1>1, UnnoticedTop

\* Only one coroutine awaits another one or registers with a future, so that a
\* continuation that is found there is not a third one's: what it awaits is over.
LEMMA FoundReady ==
    ASSUME CoreInv, PastInv, NEW p \in Slots, NEW r \in Routines, r = G(p).r, NEW x, x = waitFor[r]
    PROVE  /\ G(p).pc = "suspend" /\ x \in Futures /\ fut[x] # Null => Past(x)
           /\ G(p).pc = "result" /\ mResult[x] # Null => Past(x)
<1>c. /\ TypeInv /\ ShapeInv /\ OnceInv /\ PlaceInv /\ OwnerInv /\ ArmedInv /\ DisarmedInv
  BY DEF CoreInv
<1>o. G(p).pc \in {"suspend", "result"} => G(p).fn # "runner" /\ On(r) /\ ~Asleep(r)
  BY <1>c DEF ShapeInv, On, Coro, Asleep
<1>1. ASSUME G(p).pc = "suspend", x \in Futures, fut[x] # Null
      PROVE  Past(x)
  <2>1. fut[x] \notin Routines
    BY <1>c, <1>o, <1>1 DEF ArmedInv, PastInv
  <2> QED BY <1>1, <1>c, <2>1 DEF TypeInv, Past
<1>2. ASSUME G(p).pc = "result"
      PROVE  x \in Routines /\ owner[x] = r
  BY <1>c, <1>o, <1>2 DEF PlaceInv, OwnerInv
<1>3. ASSUME G(p).pc = "result", mResult[x] # Null
      PROVE  Past(x)
  <2>1. x \in Routines /\ owner[x] = r
    BY <1>2, <1>3
  <2>2. mResult[x] \notin Threads
    BY <1>c, <2>1, Names DEF OwnerInv
  <2>3. mResult[x] \notin Routines
    <3> SUFFICES ASSUME mResult[x] \in Routines PROVE FALSE
      OBVIOUS
    <3>1. PICK y \in Routines : y = mResult[x]
      OBVIOUS
    <3>2. Parked(y) /\ waitFor[y] = x
      BY <1>c, <2>1, <3>1 DEF DisarmedInv, Disarmed
    <3>3. y = r
      BY <1>c, <2>1, <3>1, <3>2 DEF OwnerInv
    <3>4. \A s \in Slots : Coro(s, r) => s = p
      BY <1>c, <1>o, <1>3 DEF OnceInv, OneEach, Coro
    <3> QED BY <1>o, <1>3, <3>2, <3>3, <3>4 DEF Parked
  <2>4. mResult[x] = Invalid
    BY <1>c, <1>3, <2>1, <2>2, <2>3 DEF TypeInv
  <2> QED BY <2>1, <2>4 DEF Past
<1> QED BY <1>1, <1>3

\* The steps of await() after the coroutine has been left.
LEMMA UnnoticedAwait ==
    ASSUME CoreInv, PastInv, NEW t \in Threads,
           \/ SuspendOn(t) \/ TakeCaller(t) \/ SuspendResult(t) \/ InstallContinuation(t) \/ Spin(t)
    PROVE  Unnoticed
<1>c. TypeInv /\ ShapeInv /\ PlaceInv
  BY DEF CoreInv
<1>p. PICK p \in Slots : /\ G(p) = Top(t) /\ Top(t) \in FrameType /\ stack[t] # <<>>
  BY <1>c, TopFrame DEF SuspendOn, TakeCaller, SuspendResult, InstallContinuation, Spin, At
<1>r. PICK r \in Routines : r = Top(t).r
  BY <1>p, FrameFields
<1>x. PICK x : x = waitFor[r]
  OBVIOUS
<1>u. Top(t).pc # "user"
  BY DEF SuspendOn, TakeCaller, SuspendResult, InstallContinuation, Spin, At
<1>n. ASSUME NotSuspended(t), Past(x)
      PROVE  Unnoticed
  <2>1. PICK fn \in {"run", "ctorLoop"} : fn = IF Top(t).fn = "run" THEN "run" ELSE "ctorLoop"
    OBVIOUS
  <2>2. Replace(t, Frame(fn, r, "enter"))
    BY <1>n, <1>r, <2>1 DEF NotSuspended
  <2> QED BY <1>c, <1>n, <1>p, <1>u, <1>x, <2>2, UnnoticedResumption
<1>1. CASE SuspendOn(t)
  <2>1. Suspended(t) \/ (NotSuspended(t) /\ x \in Futures /\ fut[x] # Null)
    BY <1>1, <1>r, <1>x DEF SuspendOn, MaySuspend
  <2>2. Top(t).pc = "suspend"
    BY <1>1 DEF SuspendOn, At
  <2>3. CASE Suspended(t)
    BY <1>c, <1>p, <1>u, <2>3, UnnoticedTop DEF Suspended
  <2> QED BY <1>n, <1>p, <1>r, <1>x, <2>1, <2>2, <2>3, FoundReady
<1>2. CASE TakeCaller(t)
  <2>1. "result" \in PCs /\ Goto(t, "result")
    BY <1>2 DEF PCs, TakeCaller
  <2> QED BY <1>c, <1>p, <1>u, <2>1, UnnoticedTop
<1>3. CASE SuspendResult(t)
  <2>1. Goto(t, "install") \/ (NotSuspended(t) /\ mResult[x] # Null)
    BY <1>3, <1>r, <1>x DEF SuspendResult, MaySuspend
  <2>2. Top(t).pc = "result"
    BY <1>3 DEF SuspendResult, At
  <2>3. CASE Goto(t, "install")
    <3>1. "install" \in PCs
      BY DEF PCs
    <3>2. mCaller[Top(t).r] = Null /\ UNCHANGED mCaller
      BY <1>3, <1>c, <1>p, <2>2 DEF PlaceInv, ShapeInv, SuspendResult
    <3> QED BY <1>c, <1>p, <1>u, <2>3, <3>1, <3>2, UnnoticedTop
  <2> QED BY <1>n, <1>p, <1>r, <1>x, <2>1, <2>2, <2>3, FoundReady
<1>4. CASE InstallContinuation(t)
  <2>1. Suspended(t) \/ Goto(t, "spin")
    BY <1>4 DEF InstallContinuation
  <2>2. Top(t).pc = "install"
    BY <1>4 DEF InstallContinuation, At
  <2>3. CASE Suspended(t)
    BY <1>c, <1>p, <1>u, <2>3, UnnoticedTop DEF Suspended
  <2>4. CASE Goto(t, "spin")
    <3>1. "spin" \in PCs
      BY DEF PCs
    <3> QED BY <1>c, <1>p, <1>u, <2>2, <2>4, <3>1, UnnoticedTop
  <2> QED BY <2>1, <2>3, <2>4
<1>5. CASE Spin(t)
  <2>1. NotSuspended(t) /\ Top(t).pc = "spin" /\ mCaller[r] = Invalid
    BY <1>5, <1>r DEF Spin, At, SpinDone
  <2>2. Past(x)
    BY <1>p, <1>r, <1>x, <2>1 DEF PastInv, Registered
  <2> QED BY <1>n, <2>1, <2>2
<1> QED BY <1>1, <1>2, <1>3, <1>4, <1>5

\* The steps of the Runners.
LEMMA UnnoticedRunner ==
    ASSUME CoreInv, NEW t \in Threads,
           \/ RunPosted(t) \/ (\E r \in Routines : Expire(t, r)) \/ CallRunner(t)
           \/ \E f \in Futures : SetFuture(t, f)
    PROVE  Unnoticed
<1>c. /\ TypeInv /\ ShapeInv /\ RestInv /\ ArmedInv /\ DisarmedInv
  BY DEF CoreInv
<1>1. CASE RunPosted(t)
  <2>1. Head(queue) \in Routines
    BY <1>1, <1>c, EmptySeq, TailDeque DEF RunPosted, TypeInv
  <2> QED BY <1>1, <1>c, <2>1, UnnoticedCall DEF RunPosted
<1>2. CASE \E r \in Routines : Expire(t, r)
  BY <1>2, <1>c, UnnoticedCall DEF Expire
<1>3. ASSUME NEW f \in Futures, SetFuture(t, f)
      PROVE  Unnoticed
  <2>1. CASE UNCHANGED stack
    BY <2>1, StillStep, UnnoticedStill
  <2>2. CASE ~UNCHANGED stack
    <3>1. fut[f] \in Routines /\ Push(t, Frame("runner", fut[f], "runner"))
      BY <1>3, <1>c, <2>2 DEF SetFuture, TypeInv
    <3> QED BY <1>c, <3>1, UnnoticedCall
  <2> QED BY <2>1, <2>2
<1>4. CASE CallRunner(t)
  <2>p. PICK p \in Slots : /\ G(p) = Top(t) /\ Top(t) \in FrameType /\ stack[t] # <<>>
    BY <1>c, <1>4, TopFrame DEF CallRunner, At
  <2>r. PICK r \in Routines : r = G(p).r
    BY <2>p, FrameFields
  <2>u. G(p).pc = "runner" /\ G(p).fn = "runner"
    BY <1>c, <1>4, <2>p DEF CallRunner, At, ShapeInv
  <2>1. CASE Pop(t)
    BY <1>c, <2>p, <2>u, <2>1, UnnoticedTop
  <2>2. CASE ~Pop(t)
    <3>1. mCaller[r] \in Routines /\ Replace(t, Frame("run", mCaller[r], "enter"))
      BY <1>4, <2>p, <2>r, <2>2 DEF CallRunner
    <3>2. Armed(r)
      <4>1. Called(r)
        BY <2>r, <2>u DEF Called, Call
      <4>2. waitFor[r] \notin Routines
        BY <1>c, <2>r, <2>u, <3>1, Names DEF DisarmedInv, Disarmed
      <4> QED BY <1>c, <4>1, <4>2 DEF ArmedInv
    <3>3. Past(waitFor[r])
      BY <1>c, <3>2 DEF Armed, RestInv, TypeInv, Past
    <3>4. mCaller[r] = r
      BY <3>2 DEF Armed
    <3>5. PICK fn \in {"run", "ctorLoop"} : fn = "run"
      OBVIOUS
    <3> QED BY <1>c, <2>p, <2>u, <3>1, <3>3, <3>4, <3>5, UnnoticedResumption
  <2> QED BY <2>1, <2>2
<1> QED BY <1>1, <1>2, <1>3, <1>4

\* The steps at the end of a coroutine.
LEMMA UnnoticedEnd ==
    ASSUME CoreInv, NEW t \in Threads,
           \/ ExchangeContinuation(t) \/ CheckDetached(t) \/ DisableContinuation(t)
           \/ SetResult(t) \/ CallResult(t) \/ Return(t)
    PROVE  Unnoticed
<1>c. /\ TypeInv /\ ShapeInv /\ PlaceInv /\ ContinuationInv
  BY DEF CoreInv
<1>p. PICK p \in Slots : /\ p = <<t, Len(stack[t])>> /\ G(p) = Top(t) /\ Top(t) \in FrameType
                         /\ stack[t] # <<>>
  BY <1>c, TopFrame DEF ExchangeContinuation, CheckDetached, DisableContinuation, SetResult,
     CallResult, Return, At
<1>r. PICK r \in Routines : r = Top(t).r
  BY <1>p, FrameFields
<1>u. Top(t).pc # "user"
  BY DEF ExchangeContinuation, CheckDetached, DisableContinuation, SetResult, CallResult, Return, At
<1>1. CASE DisableContinuation(t)
  <2>1. "set" \in PCs /\ Goto(t, "set")
    BY <1>1 DEF PCs, DisableContinuation
  <2> QED BY <1>c, <1>p, <1>u, <2>1, UnnoticedTop
<1>2. CASE ExchangeContinuation(t)
  <2>1. PICK f : f = [Frame(Top(t).fn, r, "detached") EXCEPT !.res = mContinuation[r]]
    OBVIOUS
  <2>2. Replace(t, f)
    BY <1>2, <1>r, <2>1 DEF ExchangeContinuation, TakenContinuation
  <2>3. mContinuation[r] \in Routines \cup {Null}
    BY <1>2, <1>c, <1>p, <1>r DEF ExchangeContinuation, At, ShapeInv, PlaceInv, TypeInv
  <2>4. f \in FrameType /\ f.pc = "detached"
    BY <1>p, <1>r, <2>1, <2>3 DEF Frame, FrameType, PCs
  <2> QED BY <1>c, <1>p, <1>u, <2>2, <2>4, UnnoticedTop
<1>3. CASE CheckDetached(t)
  <2>1. PICK d \in BOOLEAN : d = mIsDetached[r]
    BY <1>c DEF TypeInv
  <2>2. PICK f : f = [Top(t) EXCEPT !.destruct = d, !.pc = "disable"]
    OBVIOUS
  <2>3. Replace(t, f)
    BY <1>3, <1>r, <2>1, <2>2 DEF CheckDetached, Destructs
  <2>4. f \in FrameType /\ f.pc = "disable"
    BY <1>p, <2>1, <2>2 DEF FrameType, PCs
  <2> QED BY <1>c, <1>p, <1>u, <2>3, <2>4, UnnoticedTop
<1>4. CASE SetResult(t)
  <2>0. G(p).pc = "set" /\ G(p).fn # "runner"
    BY <1>4, <1>c, <1>p DEF SetResult, At, ShapeInv
  <2>n. mResult[r] # Invalid
    BY <1>c, <1>p, <1>r, <2>0 DEF PlaceInv
  <2>1. mResult[r] \in Routines \cup Threads \cup {Null}
    BY <1>c, <2>n DEF TypeInv
  <2>2. PICK f : f = [Top(t) EXCEPT !.call = mResult[r], !.pc = "call"]
    OBVIOUS
  <2>3. Replace(t, f)
    BY <1>4, <1>r, <2>2 DEF SetResult
  <2>4. f \in FrameType /\ f.pc = "call"
    BY <1>p, <2>1, <2>2 DEF FrameType, PCs
  <2> QED BY <1>c, <1>p, <1>u, <2>3, <2>4, UnnoticedTop
<1>5. CASE CallResult(t)
  <2>1. PICK g : g = [Top(t) EXCEPT !.pc = "return"]
    OBVIOUS
  <2>2. g \in FrameType /\ g.pc = "return"
    BY <1>p, <2>1 DEF FrameType, PCs
  <2>3. CASE Top(t).call \notin Routines
    <3>1. Replace(t, g)
      BY <1>5, <1>p, <2>1, <2>3, EmptyThen DEF Top, Replace, CallResult
    <3> QED BY <1>c, <1>p, <1>u, <2>2, <3>1, UnnoticedTop
  <2>4. CASE Top(t).call \in Routines
    <3>1. PICK f \in FrameType : f = Frame("runner", Top(t).call, "runner") /\ f.pc = "runner"
      <4>1. PICK pc \in PCs : pc = "runner"
        BY DEF PCs
      <4>2. PICK fn \in {"ctor", "ctorLoop", "run", "runner"} : fn = "runner"
        OBVIOUS
      <4> QED BY <2>4, <4>1, <4>2, NewFrame
    <3>2. stack' = [stack EXCEPT ![t] = <<f>> \o <<g>> \o Tail(@)]
      BY <1>5, <1>p, <2>1, <2>4, <3>1 DEF CallResult, Top
    <3>3. PICK q : PushedOn(p, g, q, f)
      BY <1>c, <1>p, <2>2, <3>2, PushOnStep
    <3> QED BY <1>p, <1>u, <2>2, <3>1, <3>3, UnnoticedPushOn
  <2> QED BY <2>3, <2>4
<1>6. CASE Return(t)
  <2>1. CASE Pop(t)
    BY <1>c, <1>p, <1>u, <2>1, UnnoticedTop
  <2>2. CASE ~Pop(t)
    <3>1. PICK c : c = Top(t).res
      OBVIOUS
    <3>2. c \in Routines /\ Replace(t, Frame("run", c, "enter"))
      BY <1>6, <1>p, <2>2, <3>1, FrameFields, Names DEF Return, NextContinuation
    <3>3. waitFor[c] = r /\ mResult[r] = Invalid
      BY <1>6, <1>c, <1>p, <1>r, <3>1, <3>2 DEF ContinuationInv, PlaceInv, ShapeInv, Return, At
    <3>4. Past(waitFor[c])
      BY <3>3 DEF Past
    <3>5. PICK fn \in {"run", "ctorLoop"} : fn = "run"
      OBVIOUS
    <3> QED BY <1>c, <1>p, <1>u, <3>2, <3>4, <3>5, UnnoticedResumption
  <2> QED BY <2>1, <2>2
<1> QED BY <1>1, <1>2, <1>3, <1>4, <1>5, <1>6

\* What is over stays over.
LEMMA PastStays ==
    ASSUME TypeInv, [Next]_vars
    PROVE  \A x : Past(x) => Past(x)'
<1>1. \A f \in Futures : fut[f] = Invalid => fut'[f] = Invalid
  <2>1. CASE UNCHANGED fut
    BY <2>1
  <2>2. ASSUME NEW t \in Threads, NEW f \in Futures, SetFuture(t, f)
        PROVE  \A g \in Futures : fut[g] = Invalid => fut'[g] = Invalid
    BY <2>2 DEF SetFuture, TypeInv
  <2>3. ASSUME NEW t \in Threads, SuspendOn(t)
        PROVE  \A f \in Futures : fut[f] = Invalid => fut'[f] = Invalid
    BY <2>3, Names DEF SuspendOn, MaySuspend, TypeInv
  <2>4. ASSUME NEW t \in Threads, UserStep(t)
        PROVE  UNCHANGED fut \/ \E f \in Futures : SetFuture(t, f)
    BY <2>4 DEF UserStep, Finish, Spawn, Detach, Drop, Join, Await
  <2>5. ASSUME NEW t \in Threads, LibraryStep(t)
        PROVE  UNCHANGED fut \/ SuspendOn(t)
    BY <2>5 DEF LibraryStep, RunPosted, Expire, CallRunner, Enter, TakeCaller, SuspendResult,
       InstallContinuation, Spin, ExchangeContinuation, CheckDetached, DisableContinuation,
       SetResult, CallResult, Return
  <2>6. CASE UNCHANGED vars
    BY <2>6 DEF vars
  <2> QED BY <2>1, <2>2, <2>3, <2>4, <2>5, <2>6 DEF Next
<1>2. \A r \in Routines : mResult[r] = Invalid => mResult'[r] = Invalid
  <2>1. CASE UNCHANGED mResult
    BY <2>1
  <2>2. ASSUME NEW t \in Threads, SetResult(t)
        PROVE  \A r \in Routines : mResult[r] = Invalid => mResult'[r] = Invalid
    BY <2>2 DEF SetResult, TypeInv
  <2>3. ASSUME NEW t \in Threads, SuspendResult(t) \/ \E r \in Routines : Join(t, r)
        PROVE  \A r \in Routines : mResult[r] = Invalid => mResult'[r] = Invalid
    BY <2>3, Names DEF SuspendResult, MaySuspend, Join, TypeInv
  <2>4. ASSUME NEW t \in Threads, UserStep(t)
        PROVE  UNCHANGED mResult \/ \E r \in Routines : Join(t, r)
    BY <2>4 DEF UserStep, Finish, Spawn, Detach, Drop, Await, SetFuture, routineVars
  <2>5. ASSUME NEW t \in Threads, LibraryStep(t)
        PROVE  UNCHANGED mResult \/ SuspendResult(t) \/ SetResult(t)
    BY <2>5 DEF LibraryStep, RunPosted, Expire, CallRunner, Enter, SuspendOn, TakeCaller,
       InstallContinuation, Spin, ExchangeContinuation, CheckDetached,
       DisableContinuation, CallResult, Return, routineVars
  <2>6. CASE UNCHANGED vars
    BY <2>6 DEF vars, routineVars
  <2> QED BY <2>1, <2>2, <2>3, <2>4, <2>5, <2>6 DEF Next
<1> QED BY <1>1, <1>2 DEF Past

\* The steps that the users of coroutines do not notice, except for the release
\* of a Data or for a future that is set.
Inside(t) ==
    \/ \E r \in Routines : Detach(t, r) \/ Drop(t, r) \/ Join(t, r)
    \/ \E f \in Futures : SetFuture(t, f)
    \/ RunPosted(t) \/ (\E r \in Routines : Expire(t, r)) \/ CallRunner(t) \/ SuspendOn(t)
    \/ TakeCaller(t) \/ SuspendResult(t) \/ InstallContinuation(t) \/ Spin(t)
    \/ ExchangeContinuation(t) \/ CheckDetached(t) \/ DisableContinuation(t)
    \/ SetResult(t) \/ CallResult(t) \/ Return(t)

\* A step that is not noticed.
LEMMA PastUnnoticed ==
    ASSUME CoreInv, PastInv, Unnoticed, UNCHANGED waitFor, [Next]_vars,
           \A x \in Routines : Registered(x) /\ mCaller'[x] = Invalid =>
             mCaller[x] = Invalid \/ Past(waitFor[x])
    PROVE  PastInv'
<1>c. TypeInv
  BY DEF CoreInv
<1>1. \A x \in Routines : Resuming(x)' => Past(waitFor[x])'
  BY <1>c, PastStays DEF PastInv, Unnoticed
<1>2. \A x \in Routines : Registered(x)' /\ mCaller'[x] = Invalid => Past(waitFor[x])
  BY Names DEF PastInv, Unnoticed
<1>3. \A x \in Routines : Past(waitFor[x]) => Past(waitFor[x])'
  BY <1>c, PastStays
<1> QED BY <1>1, <1>2, <1>3 DEF PastInv

\* A Runner that was disarmed is called by the end of the coroutine its own one
\* awaits, after the result was set.
LEMMA ToldAfterResult ==
    ASSUME CoreInv, NEW t \in Threads, Inside(t)
    PROVE  \A x \in Routines : Registered(x) /\ mCaller'[x] = Invalid =>
             mCaller[x] = Invalid \/ Past(waitFor[x])
<1>c. /\ TypeInv /\ ShapeInv /\ PlaceInv /\ DisarmedInv /\ Geometry
  BY SlotGeometry DEF CoreInv
<1>1. CASE UNCHANGED mCaller
  BY <1>1
<1>2. CASE TakeCaller(t)
  BY <1>2, <1>c, Names DEF TakeCaller, TakenCaller, TypeInv
<1>3. CASE CallRunner(t)
  <2>p. PICK p \in Slots : /\ G(p) = Top(t) /\ Top(t) \in FrameType /\ G(p).pc = "runner"
    BY <1>3, <1>c, TopFrame DEF CallRunner, At
  <2>r. PICK r \in Routines : r = G(p).r
    BY <2>p, FrameFields
  <2>1. \A x \in Routines : x # r => mCaller'[x] = mCaller[x]
    BY <1>3, <1>c, <2>p, <2>r DEF CallRunner, TypeInv
  <2>2. ASSUME Registered(r)
        PROVE  Past(waitFor[r])
    <3>1. waitFor[r] \in Routines
      BY <1>c, <2>2 DEF Registered, PlaceInv, ShapeInv
    <3>2. PICK u \in Slots : u = Under(p) /\ G(u).r = waitFor[r] /\ G(u).pc = "return"
      BY <1>c, <2>p, <2>r, <3>1 DEF DisarmedInv, ShapeInv, Geometry
    <3>3. mResult[waitFor[r]] = Invalid
      BY <1>c, <3>2 DEF PlaceInv, ShapeInv
    <3> QED BY <3>1, <3>3 DEF Past
  <2> QED BY <2>1, <2>2
<1>4. UNCHANGED mCaller \/ TakeCaller(t) \/ CallRunner(t)
  BY DEF Inside, Detach, Drop, Join, SetFuture, RunPosted, Expire, SuspendOn, SuspendResult,
     InstallContinuation, Spin, ExchangeContinuation, CheckDetached, DisableContinuation,
     SetResult, CallResult, Return, routineVars
<1> QED BY <1>1, <1>2, <1>3, <1>4

\* A step inside the frame of one coroutine says nothing about the others.
LEMMA OneRunning ==
    ASSUME CoreInv, NEW p \in Slots, NEW f, Retop(p, f), NEW r \in Routines, r = G(p).r, f.r = r,
           G(p).pc # "runner", f.pc # "runner"
    PROVE  /\ \A y \in Routines : y # r => /\ Running(y)' <=> Running(y)
                                           /\ Resuming(y)' <=> Resuming(y)
                                           /\ Registered(y)' <=> Registered(y)
           /\ Running(r) <=> G(p).pc = "user"
           /\ Running(r)' <=> f.pc = "user"
           /\ Resuming(r) <=> G(p).pc = "enter"
           /\ Resuming(r)' <=> f.pc = "enter"
           /\ Registered(r)' <=> f.pc \in {"install", "spin"}
<1>1. ShapeInv /\ OneEach
  BY DEF CoreInv, OnceInv
<1>2. Slots' = Slots /\ G(p)' = f /\ \A s \in Slots : s # p => G(s)' = G(s)
  BY DEF Retop
<1>3. \A s \in Slots : s # p /\ G(s).r = r => G(s).pc = "runner"
  BY <1>1 DEF ShapeInv, OneEach
<1> QED BY <1>2, <1>3 DEF Running, Resuming, Registered

\* await() leaves a coroutine that runs; nobody else awaits the same future.
LEMMA PastAwait ==
    ASSUME CoreInv, PastInv, NEW t \in Threads,
           NEW x \in Routines \cup Futures \cup {Ioc, Timer}, Await(t, x),
           NEW r, r = Top(t).r
    PROVE  /\ r \in Routines /\ PastInv' /\ Running(r) /\ ~Running(r)'
           /\ \A y \in Routines : y # r => (Running(y)' <=> Running(y))
           /\ life[r] # "none" /\ ~finished[r]
<1>c. TypeInv /\ ShapeInv /\ PlaceInv
  BY DEF CoreInv
<1>p. PICK p \in Slots : /\ p = <<t, Len(stack[t])>> /\ G(p) = Top(t) /\ Top(t) \in FrameType
                         /\ stack[t] # <<>> /\ Top(t).pc = "user"
  BY <1>c, TopFrame DEF Await, At
<1>r. r \in Routines
  BY <1>p, FrameFields
<1>1. PICK pc \in PCs : pc \in {"take", "suspend"} /\ Goto(t, pc)
  BY DEF PCs, Await
<1>2. PICK f \in FrameType : Retop(p, f) /\ f = [Top(t) EXCEPT !.pc = pc]
  BY <1>c, <1>p, <1>1, GotoStep
<1>3. f.r = r /\ f.pc = pc
  BY <1>p, <1>2, NextFrame
<1>4. /\ \A y \in Routines : y # r => /\ Running(y)' <=> Running(y)
                                      /\ Resuming(y)' <=> Resuming(y)
                                      /\ Registered(y)' <=> Registered(y)
      /\ Running(r) /\ ~Running(r)' /\ ~Resuming(r)' /\ ~Registered(r)'
  BY <1>p, <1>r, <1>1, <1>2, <1>3, OneRunning
<1>5. /\ waitFor' = [waitFor EXCEPT ![r] = x] /\ mCaller' = [mCaller EXCEPT ![r] = r]
      /\ UNCHANGED <<fut, mResult>>
  BY DEF Await
<1>6. /\ waitFor'[r] = x
      /\ \A y \in Routines : y # r => waitFor'[y] = waitFor[y] /\ mCaller'[y] = mCaller[y]
  BY <1>c, <1>r, <1>5 DEF TypeInv
<1>7. \A y \in Routines : y # r /\ x \in Futures => waitFor[y] # x
  BY DEF Await
<1>8. \A y \in Routines :
        Resuming(y)' \/ (Registered(y)' /\ mCaller'[y] = Invalid) => Past(waitFor[y])'
  <2> SUFFICES ASSUME NEW y \in Routines, Resuming(y)' \/ (Registered(y)' /\ mCaller'[y] = Invalid)
               PROVE  Past(waitFor[y])'
    OBVIOUS
  <2>1. y # r /\ Past(waitFor[y])
    BY <1>4, <1>5, <1>6 DEF PastInv
  <2> QED BY <1>5, <1>6, <2>1 DEF Past
<1>9. \A y, z \in Routines : waitFor'[y] \in Futures /\ waitFor'[z] = waitFor'[y] => y = z
  BY <1>6, <1>7 DEF PastInv
<1>10. life[r] # "none" /\ ~finished[r]
  BY <1>c, <1>p DEF PlaceInv, ShapeInv, Ending
<1> QED BY <1>r, <1>4, <1>8, <1>9, <1>10 DEF PastInv

\* resume() enters a coroutine whose await() is over.
LEMMA PastEnter ==
    ASSUME CoreInv, PastInv, NEW t \in Threads, Enter(t), NEW r, r = Top(t).r
    PROVE  /\ r \in Routines /\ PastInv' /\ ~Running(r) /\ Running(r)'
           /\ \A y \in Routines : y # r => (Running(y)' <=> Running(y))
           /\ life[r] # "none" /\ ~finished[r] /\ Past(waitFor[r])
<1>c. TypeInv /\ ShapeInv /\ PlaceInv
  BY DEF CoreInv
<1>p. PICK p \in Slots : /\ p = <<t, Len(stack[t])>> /\ G(p) = Top(t) /\ Top(t) \in FrameType
                         /\ stack[t] # <<>> /\ Top(t).pc = "enter"
  BY <1>c, TopFrame DEF Enter, At
<1>r. r \in Routines
  BY <1>p, FrameFields
<1>1. PICK pc \in PCs : pc = "user" /\ Goto(t, pc)
  BY DEF PCs, Enter
<1>2. PICK f \in FrameType : Retop(p, f) /\ f = [Top(t) EXCEPT !.pc = pc]
  BY <1>c, <1>p, <1>1, GotoStep
<1>3. f.r = r /\ f.pc = pc
  BY <1>p, <1>2, NextFrame
<1>4. /\ \A y \in Routines : y # r => /\ Running(y)' <=> Running(y)
                                      /\ Resuming(y)' <=> Resuming(y)
                                      /\ Registered(y)' <=> Registered(y)
      /\ ~Running(r) /\ Running(r)' /\ Resuming(r) /\ ~Resuming(r)' /\ ~Registered(r)'
  BY <1>p, <1>r, <1>1, <1>2, <1>3, OneRunning
<1>5. waitFor' = [waitFor EXCEPT ![r] = Null] /\ UNCHANGED <<fut, mResult, mCaller>>
  BY DEF Enter
<1>6. waitFor'[r] = Null /\ \A y \in Routines : y # r => waitFor'[y] = waitFor[y]
  BY <1>c, <1>r, <1>5 DEF TypeInv
<1>8. \A y \in Routines :
        Resuming(y)' \/ (Registered(y)' /\ mCaller'[y] = Invalid) => Past(waitFor[y])'
  <2> SUFFICES ASSUME NEW y \in Routines, Resuming(y)' \/ (Registered(y)' /\ mCaller'[y] = Invalid)
               PROVE  Past(waitFor[y])'
    OBVIOUS
  <2>1. y # r /\ Past(waitFor[y])
    BY <1>4, <1>5, <1>6 DEF PastInv
  <2> QED BY <1>5, <1>6, <2>1 DEF Past
<1>9. \A y, z \in Routines : waitFor'[y] \in Futures /\ waitFor'[z] = waitFor'[y] => y = z
  BY <1>6, Names DEF PastInv
<1>10. life[r] # "none" /\ ~finished[r]
  BY <1>c, <1>p DEF PlaceInv, ShapeInv, Ending
<1> QED BY <1>r, <1>4, <1>8, <1>9, <1>10 DEF PastInv

\* The end of a coroutine.
LEMMA PastFinish ==
    ASSUME CoreInv, PastInv, NEW t \in Threads, Finish(t), NEW r, r = Top(t).r
    PROVE  /\ r \in Routines /\ PastInv' /\ Running(r) /\ ~Running(r)'
           /\ \A y \in Routines : y # r => (Running(y)' <=> Running(y))
           /\ life[r] # "none" /\ ~finished[r]
<1>c. TypeInv /\ ShapeInv /\ PlaceInv
  BY DEF CoreInv
<1>p. PICK p \in Slots : /\ p = <<t, Len(stack[t])>> /\ G(p) = Top(t) /\ Top(t) \in FrameType
                         /\ stack[t] # <<>> /\ Top(t).pc = "user"
  BY <1>c, TopFrame DEF Finish, At
<1>r. r \in Routines
  BY <1>p, FrameFields
<1>1. PICK pc \in PCs : pc \in {"detached", "exchange"} /\ Goto(t, pc)
  BY DEF PCs, Finish
<1>2. PICK f \in FrameType : Retop(p, f) /\ f = [Top(t) EXCEPT !.pc = pc]
  BY <1>c, <1>p, <1>1, GotoStep
<1>3. f.r = r /\ f.pc = pc
  BY <1>p, <1>2, NextFrame
<1>4. /\ \A y \in Routines : y # r => /\ Running(y)' <=> Running(y)
                                      /\ Resuming(y)' <=> Resuming(y)
                                      /\ Registered(y)' <=> Registered(y)
      /\ Running(r) /\ ~Running(r)' /\ ~Resuming(r)' /\ ~Registered(r)'
  BY <1>p, <1>r, <1>1, <1>2, <1>3, OneRunning
<1>5. UNCHANGED <<waitFor, fut, mResult, mCaller>>
  BY DEF Finish
<1>6. \A x : Past(x) => Past(x)'
  BY <1>5 DEF Past
<1>7. PastInv'
  BY <1>4, <1>5, <1>6 DEF PastInv
<1>10. life[r] # "none" /\ ~finished[r]
  BY <1>c, <1>p DEF PlaceInv, ShapeInv, Ending
<1> QED BY <1>r, <1>4, <1>7, <1>10

\* A new coroutine.
LEMMA PastSpawn ==
    ASSUME CoreInv, PastInv, NEW t \in Threads, NEW r \in Routines, Spawn(t, r)
    PROVE  /\ PastInv' /\ Running(r)'
           /\ \A y \in Routines : y # r => (Running(y)' <=> Running(y))
           /\ life[r] = "none" /\ ~finished[r]
<1>c. TypeInv
  BY DEF CoreInv
<1>n. ~finished[r] /\ life[r] = "none"
  BY Unborn DEF Spawn
<1>v. PICK f \in FrameType : f = Frame("ctor", r, "user") /\ f.r = r /\ f.pc = "user"
  <2>1. PICK pc \in PCs : pc = "user"
    BY DEF PCs
  <2>2. PICK fn \in {"ctor", "ctorLoop", "run", "runner"} : fn = "ctor"
    OBVIOUS
  <2> QED BY <2>1, <2>2, NewFrame
<1>q. PICK q : Pushed(t, q, f)
  BY <1>c, <1>v, PushStep DEF Spawn
<1>s. Slots' = Slots \cup {q} /\ G(q)' = f /\ \A s \in Slots : G(s)' = G(s)
  BY <1>q DEF Pushed, Added
<1>1. Running(r)' /\ \A y \in Routines : y # r => (Running(y)' <=> Running(y))
  BY <1>v, <1>s DEF Running
<1>2. \A y \in Routines : Resuming(y)' => Resuming(y)
  BY <1>v, <1>s DEF Resuming
<1>r. \A y \in Routines : Registered(y)' => Registered(y)
  BY <1>v, <1>s DEF Registered
<1>3. UNCHANGED <<waitFor, fut, mResult, mCaller>>
  BY DEF Spawn
<1>4. \A x : Past(x) => Past(x)'
  BY <1>3 DEF Past
<1> QED BY <1>n, <1>r, <1>1, <1>2, <1>3, <1>4 DEF PastInv

\* They start and stop nobody.
LEMMA InsideUnnoticed ==
    ASSUME CoreInv, PastInv, NEW t \in Threads, Inside(t)
    PROVE  Unnoticed /\ UNCHANGED <<waitFor, finished>>
<1>1. CASE \E r \in Routines : Detach(t, r) \/ Drop(t, r) \/ Join(t, r)
  <2>1. UNCHANGED <<stack, waitFor, finished>>
    BY <1>1 DEF Detach, Drop, Join
  <2> QED BY <2>1, StillStep, UnnoticedStill
<1>2. CASE \/ RunPosted(t) \/ (\E r \in Routines : Expire(t, r)) \/ CallRunner(t)
           \/ \E f \in Futures : SetFuture(t, f)
  <2>1. UNCHANGED <<waitFor, finished>>
    BY <1>2 DEF RunPosted, Expire, CallRunner, SetFuture, routineVars
  <2> QED BY <1>2, <2>1, UnnoticedRunner
<1>3. CASE \/ SuspendOn(t) \/ TakeCaller(t) \/ SuspendResult(t) \/ InstallContinuation(t) \/ Spin(t)
  <2>1. UNCHANGED <<waitFor, finished>>
    BY <1>3 DEF SuspendOn, TakeCaller, SuspendResult, InstallContinuation, Spin, routineVars
  <2> QED BY <1>3, <2>1, UnnoticedAwait
<1>4. CASE \/ ExchangeContinuation(t) \/ CheckDetached(t) \/ DisableContinuation(t)
           \/ SetResult(t) \/ CallResult(t) \/ Return(t)
  <2>1. UNCHANGED <<waitFor, finished>>
    BY <1>4 DEF ExchangeContinuation, CheckDetached, DisableContinuation, SetResult, CallResult,
       Return, routineVars
  <2> QED BY <1>4, <2>1, UnnoticedEnd
<1> QED BY <1>1, <1>2, <1>3, <1>4 DEF Inside

\* The steps, as the users of coroutines see them.
LEMMA Steps ==
    ASSUME Next
    PROVE  \E t \in Threads :
             \/ Inside(t) \/ Finish(t) \/ Enter(t)
             \/ \E r \in Routines : Spawn(t, r)
             \/ \E x \in Routines \cup Futures \cup {Ioc, Timer} : Await(t, x)
BY DEF Next, UserStep, LibraryStep, Inside

\* Every step preserves the invariant of what is over.
LEMMA NextPast ==
    ASSUME CoreInv, PastInv, [Next]_vars
    PROVE  PastInv'
<1>1. CASE UNCHANGED vars
  <2>1. UNCHANGED <<stack, waitFor, mCaller>>
    BY <1>1 DEF vars, routineVars
  <2> QED BY <2>1, StillStep, UnnoticedStill, PastUnnoticed
<1>2. ASSUME NEW t \in Threads, Inside(t)
      PROVE  PastInv'
  BY <1>2, InsideUnnoticed, ToldAfterResult, PastUnnoticed
<1>3. ASSUME NEW t \in Threads, Finish(t) \/ Enter(t)
      PROVE  PastInv'
  BY <1>3, PastFinish, PastEnter
<1>4. ASSUME NEW t \in Threads, NEW r \in Routines, Spawn(t, r)
      PROVE  PastInv'
  BY <1>4, PastSpawn
<1>5. ASSUME NEW t \in Threads, NEW x \in Routines \cup Futures \cup {Ioc, Timer}, Await(t, x)
      PROVE  PastInv'
  BY <1>5, PastAwait
<1> QED BY <1>1, <1>2, <1>3, <1>4, <1>5, Steps

\* The state of a coroutine that its users see.
State(r) ==
    IF life[r] # "alive" THEN life[r]
    ELSE IF finished[r] THEN (IF mResult[r] = Invalid THEN "ready" ELSE "ended")
    ELSE IF Running(r) THEN "running" ELSE "suspended"
StatusRight == Status = [r \in Routines |-> State(r)]

\* A frame and its slot are at the same place.
LEMMA StatusFromCore == CoreInv => StatusRight
<1> SUFFICES ASSUME CoreInv PROVE StatusRight
  OBVIOUS
<1>1. TypeInv /\ ShapeInv
  BY DEF CoreInv
<1>2. ASSUME NEW r \in Routines
      PROVE  (\E s \in FramesOf(r) : F(s).pc = "user") <=> Running(r)
  <2>1. ASSUME NEW s \in FramesOf(r), F(s).pc = "user"
        PROVE  Running(r)
    BY <1>1, <2>1, FrameSlots DEF FramesOf, Running
  <2>2. ASSUME NEW s \in Slots, G(s).pc = "user", G(s).r = r
        PROVE  Flip(s) \in FramesOf(r) /\ F(Flip(s)).pc = "user"
    <3>1. G(s).fn # "runner"
      BY <1>1, <2>2 DEF ShapeInv
    <3> QED BY <1>1, <2>2, <3>1, FrameSlots DEF FramesOf
  <2> QED BY <2>1, <2>2 DEF Running
<1> QED BY <1>2 DEF StatusRight, Status, State

\* It still is after a step.
LEMMA StatusStep ==
    ASSUME CoreInv, [Next]_vars
    PROVE  StatusRight /\ StatusRight'
<1>1. CoreInv' => StatusRight'
  BY StatusFromCore, PTL
<1> QED BY <1>1, StatusFromCore, NextCore

\* A step after which one coroutine is in another state,
LEMMA StatusBecomes ==
    ASSUME CoreInv, [Next]_vars, NEW r \in Routines, NEW v, State(r)' = v,
           \A y \in Routines : y # r => State(y)' = State(y)
    PROVE  Status' = [Status EXCEPT ![r] = v] /\ Status[r] = State(r)
BY StatusStep DEF StatusRight

\* and one after which nobody is.
LEMMA StatusSame ==
    ASSUME CoreInv, [Next]_vars, \A y \in Routines : State(y)' = State(y)
    PROVE  UNCHANGED Status
BY StatusStep DEF StatusRight

\* Routine{f} starts a coroutine.
LEMMA AbsSpawn ==
    ASSUME CoreInv, PastInv, NEW t \in Threads, NEW r \in Routines, Spawn(t, r), Next
    PROVE  Abs!Next
<1>1. /\ Running(r)' /\ life[r] = "none" /\ ~finished[r]
      /\ \A y \in Routines : y # r => (Running(y)' <=> Running(y))
  BY PastSpawn
<1>2. life' = [life EXCEPT ![r] = "alive"] /\ UNCHANGED <<finished, fut, waitFor, mResult>>
  BY DEF Spawn
<1>3. life'[r] = "alive" /\ \A y \in Routines : y # r => life'[y] = life[y]
  BY <1>2 DEF CoreInv, TypeInv
<1>4. State(r) = "none" /\ State(r)' = "running"
  BY <1>1, <1>2, <1>3 DEF State
<1>5. \A y \in Routines : y # r => State(y)' = State(y)
  BY <1>1, <1>2, <1>3 DEF State
<1>6. Status' = [Status EXCEPT ![r] = "running"] /\ Status[r] = "none"
  BY <1>4, <1>5, StatusBecomes
<1>7. UNCHANGED Happened
  BY <1>2 DEF Happened
<1> QED BY <1>2, <1>6, <1>7 DEF Abs!Next, Abs!Start, Abs!Become

\* await() suspends it.
LEMMA AbsAwait ==
    ASSUME CoreInv, PastInv, NEW t \in Threads,
           NEW x \in Routines \cup Futures \cup {Ioc, Timer}, Await(t, x), Next
    PROVE  Abs!Next
<1>r. PICK r : r = Top(t).r
  OBVIOUS
<1>1. /\ r \in Routines /\ Running(r) /\ ~Running(r)' /\ life[r] # "none" /\ ~finished[r]
      /\ \A y \in Routines : y # r => (Running(y)' <=> Running(y))
  BY <1>r, PastAwait
<1>2. waitFor' = [waitFor EXCEPT ![r] = x] /\ UNCHANGED <<life, finished, fut, mResult>>
  BY <1>r DEF Await
<1>3. life[r] = "alive"
  BY <1>1 DEF CoreInv, RestInv, TypeInv
<1>4. State(r) = "running" /\ State(r)' = "suspended"
  BY <1>1, <1>2, <1>3 DEF State
<1>5. \A y \in Routines : y # r => State(y)' = State(y)
  BY <1>1, <1>2 DEF State
<1>6. Status' = [Status EXCEPT ![r] = "suspended"] /\ Status[r] = "running"
  BY <1>1, <1>4, <1>5, StatusBecomes
<1>7. UNCHANGED Happened
  BY <1>2 DEF Happened
<1>8. Abs!Suspend(r, x)
  BY <1>2, <1>6, <1>7 DEF Abs!Suspend, Abs!Become
<1> QED BY <1>1, <1>8 DEF Abs!Next

\* Its function ends.
LEMMA AbsFinish ==
    ASSUME CoreInv, PastInv, NEW t \in Threads, Finish(t), Next
    PROVE  Abs!Next
<1>r. PICK r : r = Top(t).r
  OBVIOUS
<1>1. /\ r \in Routines /\ Running(r) /\ ~Running(r)' /\ life[r] # "none" /\ ~finished[r]
      /\ \A y \in Routines : y # r => (Running(y)' <=> Running(y))
  BY <1>r, PastFinish
<1>2. finished' = [finished EXCEPT ![r] = TRUE] /\ UNCHANGED <<life, waitFor, fut, mResult>>
  BY <1>r DEF Finish
<1>3. /\ life[r] = "alive" /\ finished'[r] /\ mResult[r] # Invalid
      /\ \A y \in Routines : y # r => (finished'[y] <=> finished[y])
  BY <1>1, <1>2 DEF CoreInv, RestInv, TypeInv
<1>4. State(r) = "running" /\ State(r)' = "ended"
  BY <1>1, <1>2, <1>3 DEF State
<1>5. \A y \in Routines : y # r => State(y)' = State(y)
  BY <1>1, <1>2, <1>3 DEF State
<1>6. Status' = [Status EXCEPT ![r] = "ended"] /\ Status[r] = "running"
  BY <1>1, <1>4, <1>5, StatusBecomes
<1>7. UNCHANGED Happened
  BY <1>2 DEF Happened
<1> QED BY <1>1, <1>2, <1>6, <1>7 DEF Abs!Next, Abs!End, Abs!Become

\* It goes on after what it awaits: an awaited coroutine belongs to the one that
\* awaits it and is not released in between.
LEMMA AbsEnter ==
    ASSUME CoreInv, LifeInv, PastInv, NEW t \in Threads, Enter(t), Next
    PROVE  Abs!Next
<1>r. PICK r : r = Top(t).r
  OBVIOUS
<1>1. /\ r \in Routines /\ ~Running(r) /\ Running(r)' /\ life[r] # "none" /\ ~finished[r]
      /\ \A y \in Routines : y # r => (Running(y)' <=> Running(y))
      /\ Past(waitFor[r])
  BY <1>r, PastEnter
<1>2. waitFor' = [waitFor EXCEPT ![r] = Null] /\ UNCHANGED <<life, finished, fut, mResult>>
  BY <1>r DEF Enter
<1>3. life[r] = "alive"
  BY <1>1 DEF CoreInv, RestInv, TypeInv
<1>4. State(r) = "suspended" /\ State(r)' = "running"
  BY <1>1, <1>2, <1>3 DEF State
<1>5. \A y \in Routines : y # r => State(y)' = State(y)
  BY <1>1, <1>2 DEF State
<1>6. Status' = [Status EXCEPT ![r] = "running"] /\ Status[r] = "suspended"
  BY <1>1, <1>4, <1>5, StatusBecomes
<1>7. UNCHANGED Happened
  BY <1>2 DEF Happened
<1>8. Abs!Over(waitFor[r])
  <2>1. PICK x : x = waitFor[r]
    OBVIOUS
  <2>2. CASE x \in Routines /\ mResult[x] = Invalid
    <3>0. finished[x]
      BY <2>2 DEF CoreInv, RestInv
    <3>1. owner[x] = r
      BY <1>1, <2>1, <2>2 DEF CoreInv, OwnerInv
    <3>2. life[x] = "alive"
      BY <1>1, <2>2, <3>1, Names DEF LifeInv
    <3>3. Status[x] = "ready"
      BY <2>2, <3>0, <3>2, StatusFromCore DEF StatusRight, State
    <3> QED BY <2>1, <2>2, <3>3 DEF Abs!Over
  <2>3. CASE x \in {Ioc, Timer} \/ (x \in Futures /\ fut[x] = Invalid)
    BY <2>1, <2>3 DEF Abs!Over, Happened
  <2> QED BY <1>1, <2>1, <2>2, <2>3 DEF Past
<1> QED BY <1>1, <1>2, <1>6, <1>7, <1>8 DEF Abs!Next, Abs!Resume, Abs!Become

\* The result of a coroutine is set once, at its end, while its memory is there.
LEMMA AbsSetResult ==
    ASSUME CoreInv, LifeInv, PastInv, NEW t \in Threads, SetResult(t), Next
    PROVE  Abs!Next
<1>c. TypeInv /\ PlaceInv /\ ShapeInv
  BY DEF CoreInv
<1>p. PICK p \in Slots : /\ G(p) = Top(t) /\ Top(t) \in FrameType /\ Top(t).pc = "set"
  BY <1>c, TopFrame DEF SetResult, At
<1>r. PICK r \in Routines : r = Top(t).r
  BY <1>p, FrameFields
<1>1. /\ \A y \in Routines : Running(y)' <=> Running(y)
      /\ UNCHANGED <<waitFor, finished>>
  BY InsideUnnoticed DEF Unnoticed, Inside
<1>2. mResult' = [mResult EXCEPT ![r] = Invalid] /\ UNCHANGED <<life, fut>>
  BY <1>r DEF SetResult
<1>3. mResult'[r] = Invalid /\ \A y \in Routines : y # r => mResult'[y] = mResult[y]
  BY <1>c, <1>2 DEF TypeInv
<1>4. finished[r] /\ mResult[r] # Invalid
  BY <1>c, <1>p, <1>r DEF PlaceInv, ShapeInv, Ending
<1>5. life[r] = "alive"
  BY <1>c, <1>p, <1>r DEF LifeInv, ShapeInv
<1>6. State(r) = "ended" /\ State(r)' = "ready"
  BY <1>1, <1>2, <1>3, <1>4, <1>5 DEF State
<1>7. \A y \in Routines : y # r => State(y)' = State(y)
  BY <1>1, <1>2, <1>3 DEF State
<1>8. Status' = [Status EXCEPT ![r] = "ready"] /\ Status[r] = "ended"
  BY <1>6, <1>7, StatusBecomes
<1>9. UNCHANGED Happened
  BY <1>2 DEF Happened
<1>10. Abs!Publish(r)
  BY <1>1, <1>8, <1>9 DEF Abs!Publish, Abs!Become
<1> QED BY <1>10 DEF Abs!Next

\* No other step makes a result ready.
LEMMA OtherResults ==
    ASSUME CoreInv, NEW t \in Threads, Inside(t), ~SetResult(t)
    PROVE  \A y \in Routines : mResult'[y] = Invalid <=> mResult[y] = Invalid
<1>c. TypeInv
  BY DEF CoreInv
<1>1. CASE UNCHANGED mResult
  BY <1>1
<1>2. CASE SuspendResult(t)
  <2>1. Top(t) \in FrameType
    BY <1>2, <1>c, TopFrame DEF SuspendResult, At
  <2>2. PICK r \in Routines : r = Top(t).r
    BY <2>1, FrameFields
  <2> QED BY <1>2, <1>c, <2>2, Names DEF SuspendResult, MaySuspend, TypeInv
<1>3. CASE \E r \in Routines : Join(t, r)
  BY <1>3, <1>c, Names DEF Join, TypeInv
<1>4. UNCHANGED mResult \/ SuspendResult(t) \/ \E r \in Routines : Join(t, r)
  BY DEF Inside, Detach, Drop, SetFuture, RunPosted, Expire, CallRunner, SuspendOn, TakeCaller,
     InstallContinuation, Spin, ExchangeContinuation, CheckDetached, DisableContinuation,
     CallResult, Return, routineVars
<1> QED BY <1>1, <1>2, <1>3, <1>4

\* The memory of a coroutine is released once, after its result was ready, or
\* nothing of what its users see changes.
LEMMA AbsFree ==
    ASSUME CoreInv, PastInv, NEW t \in Threads, Inside(t), UNCHANGED fut, Next,
           \A y \in Routines : mResult'[y] = Invalid <=> mResult[y] = Invalid,
           NEW r \in Routines,
           \/ UNCHANGED life
           \/ life' = [life EXCEPT ![r] = "freed"] /\ life[r] = "alive" /\ mResult[r] = Invalid
    PROVE  [Abs!Next]_(Abs!vars)
<1>1. /\ \A y \in Routines : Running(y)' <=> Running(y)
      /\ UNCHANGED <<waitFor, finished>>
  BY InsideUnnoticed DEF Unnoticed
<1>2. UNCHANGED Happened
  BY DEF Happened
<1>3. CASE UNCHANGED life
  <2>1. \A y \in Routines : State(y)' = State(y)
    BY <1>1, <1>3 DEF State
  <2>2. UNCHANGED Status
    BY <2>1, StatusSame
  <2> QED BY <1>1, <1>2, <2>2 DEF Abs!vars
<1>4. CASE life' = [life EXCEPT ![r] = "freed"] /\ life[r] = "alive" /\ mResult[r] = Invalid
  <2>0. finished[r]
    BY <1>4 DEF CoreInv, RestInv
  <2>1. life'[r] = "freed" /\ \A y \in Routines : y # r => life'[y] = life[y]
    BY <1>4 DEF CoreInv, TypeInv
  <2>2. State(r) = "ready" /\ State(r)' = "freed"
    BY <1>1, <1>4, <2>0, <2>1 DEF State
  <2>3. \A y \in Routines : y # r => State(y)' = State(y)
    BY <1>1, <2>1 DEF State
  <2>4. Status' = [Status EXCEPT ![r] = "freed"] /\ Status[r] = "ready"
    BY <2>2, <2>3, StatusBecomes
  <2>5. Abs!Free(r)
    BY <1>1, <1>2, <2>4 DEF Abs!Free, Abs!Become
  <2> QED BY <2>5 DEF Abs!Next
<1> QED BY <1>3, <1>4

\* A future is set once.
LEMMA AbsSetFuture ==
    ASSUME CoreInv, PastInv, NEW t \in Threads, NEW f \in Futures, SetFuture(t, f), Next
    PROVE  Abs!Next
<1>1. /\ \A y \in Routines : Running(y)' <=> Running(y)
      /\ UNCHANGED <<waitFor, finished>>
  BY InsideUnnoticed DEF Unnoticed, Inside
<1>2. UNCHANGED <<life, mResult>> /\ fut[f] # Invalid /\ fut' = [fut EXCEPT ![f] = Invalid]
  BY DEF SetFuture, routineVars
<1>3. f \notin Happened /\ Happened' = Happened \cup {f}
  BY <1>2 DEF Happened, CoreInv, TypeInv
<1>4. \A y \in Routines : State(y)' = State(y)
  BY <1>1, <1>2 DEF State
<1>5. UNCHANGED Status
  BY <1>4, StatusSame
<1> QED BY <1>1, <1>3, <1>5 DEF Abs!Next, Abs!Happen

\* A coroutine that registers with a future does not set it.
LEMMA AbsSuspendOn ==
    ASSUME CoreInv, PastInv, NEW t \in Threads, SuspendOn(t), Next
    PROVE  UNCHANGED Abs!vars
<1>c. TypeInv
  BY DEF CoreInv
<1>1. /\ \A y \in Routines : Running(y)' <=> Running(y)
      /\ UNCHANGED <<waitFor, finished>>
  BY InsideUnnoticed DEF Unnoticed, Inside
<1>2. UNCHANGED <<life, mResult>>
  BY DEF SuspendOn, routineVars
<1>r. PICK r : r = Top(t).r
  OBVIOUS
<1>3. r \in Routines
  <2>1. Top(t) \in FrameType
    BY <1>c, TopFrame DEF SuspendOn, At
  <2> QED BY <1>r, <2>1, FrameFields
<1>4. UNCHANGED Happened
  <2>1. CASE UNCHANGED fut
    BY <2>1 DEF Happened
  <2>2. CASE ~UNCHANGED fut
    <3>1. PICK x \in Futures : fut[x] = Null /\ fut' = [fut EXCEPT ![x] = r]
      BY <1>r, <2>2 DEF SuspendOn, MaySuspend
    <3> QED BY <1>c, <1>3, <3>1, Names DEF Happened, TypeInv
  <2> QED BY <2>1, <2>2
<1>5. \A y \in Routines : State(y)' = State(y)
  BY <1>1, <1>2 DEF State
<1>6. UNCHANGED Status
  BY <1>5, StatusSame
<1> QED BY <1>1, <1>4, <1>6 DEF Abs!vars

\* Every step of the library is one of AbstractRoutine, or nobody sees it.
LEMMA AbsStep ==
    ASSUME CoreInv, LifeInv, PastInv, DetachWhen # "anytime", Next
    PROVE  [Abs!Next]_(Abs!vars)
<1>c. TypeInv /\ RestInv /\ PlaceInv /\ ShapeInv
  BY DEF CoreInv
<1>s. ASSUME NEW t \in Threads, SetResult(t)
      PROVE  Abs!Next
  BY <1>s, AbsSetResult
<1>1. ASSUME NEW t \in Threads, Finish(t) \/ Enter(t)
      PROVE  Abs!Next
  BY <1>1, AbsFinish, AbsEnter
<1>2. ASSUME NEW t \in Threads, NEW r \in Routines, Spawn(t, r)
      PROVE  Abs!Next
  BY <1>2, AbsSpawn
<1>3. ASSUME NEW t \in Threads, NEW x \in Routines \cup Futures \cup {Ioc, Timer}, Await(t, x)
      PROVE  Abs!Next
  BY <1>3, AbsAwait
<1>4. ASSUME NEW t \in Threads, NEW f \in Futures, SetFuture(t, f)
      PROVE  Abs!Next
  BY <1>4, AbsSetFuture
<1>5. ASSUME NEW t \in Threads, SuspendOn(t)
      PROVE  UNCHANGED Abs!vars
  BY <1>5, AbsSuspendOn
<1>6. ASSUME NEW t \in Threads, NEW r \in Routines, Detach(t, r)
      PROVE  [Abs!Next]_(Abs!vars)
  <2>1. owner[r] # Null /\ UNCHANGED <<fut, mResult>> /\ Inside(t)
    BY <1>6, HandleInUse DEF Detach, Inside
  <2>2. CASE mIsDetached[r]
    <3>1. finished[r] /\ life[r] = "alive" /\ life' = [life EXCEPT ![r] = "freed"]
      BY <1>c, <1>6, <2>1, <2>2 DEF Detach, RestInv, LifeInv
    <3>2. ~On(r)
      BY <1>c, <1>6, <3>1, FramesOn, BoundAssumption DEF Detach
    <3>3. mResult[r] = Invalid
      BY <1>c, <3>1, <3>2 DEF RestInv
    <3> QED BY <2>1, <3>1, <3>3, AbsFree
  <2>3. CASE ~mIsDetached[r]
    <3>1. UNCHANGED life
      BY <1>c, <1>6, <2>3 DEF Detach, TypeInv
    <3> QED BY <2>1, <3>1, AbsFree
  <2> QED BY <2>2, <2>3
<1>7. ASSUME NEW t \in Threads, NEW r \in Routines, Drop(t, r)
      PROVE  [Abs!Next]_(Abs!vars)
  <2>1. owner[r] # Null /\ UNCHANGED <<fut, mResult>> /\ Inside(t) /\ mResult[r] = Invalid
    BY <1>7, HandleInUse DEF Drop, Inside, IsReady
  <2>2. life[r] = "alive" /\ life' = [life EXCEPT ![r] = "freed"]
    BY <1>c, <1>7, <2>1 DEF Drop, RestInv, LifeInv
  <2> QED BY <2>1, <2>2, AbsFree
<1>8. ASSUME NEW t \in Threads, Return(t)
      PROVE  [Abs!Next]_(Abs!vars)
  <2>p. PICK p \in Slots : /\ G(p) = Top(t) /\ Top(t) \in FrameType /\ Top(t).pc = "return"
    BY <1>c, <1>8, TopFrame DEF Return, At
  <2>r. PICK r \in Routines : r = Top(t).r
    BY <2>p, FrameFields
  <2>1. UNCHANGED <<fut, mResult>> /\ Inside(t)
    BY <1>8 DEF Return, Inside
  <2>2. CASE Top(t).destruct
    <3>1. mResult[r] = Invalid
      BY <1>c, <2>p, <2>r DEF PlaceInv, ShapeInv
    <3>2. life[r] = "alive"
      BY <1>c, <2>p, <2>r, <2>2 DEF LifeInv, ShapeInv
    <3>3. life' = [life EXCEPT ![r] = "freed"]
      BY <1>8, <2>r, <2>2 DEF Return
    <3> QED BY <2>1, <3>1, <3>2, <3>3, AbsFree
  <2>3. CASE ~Top(t).destruct
    <3>1. UNCHANGED life
      BY <1>c, <1>8, <2>r, <2>3 DEF Return, TypeInv
    <3> QED BY <2>1, <3>1, AbsFree
  <2> QED BY <2>2, <2>3
<1>9. ASSUME NEW t \in Threads, Inside(t), ~SetResult(t), UNCHANGED <<life, fut>>
      PROVE  [Abs!Next]_(Abs!vars)
  <2>1. CASE \E r \in Routines : TRUE
    <3>1. PICK r \in Routines : TRUE
      BY <2>1
    <3> QED BY <1>9, <3>1, OtherResults, AbsFree
  <2>2. CASE ~\E r \in Routines : TRUE
    <3>1. /\ UNCHANGED waitFor
          /\ UNCHANGED Happened
      BY <1>9, InsideUnnoticed DEF Happened
    <3>2. UNCHANGED Status
      BY <2>2, StatusSame
    <3> QED BY <3>1, <3>2 DEF Abs!vars
  <2> QED BY <2>1, <2>2
<1>10. ASSUME NEW t \in Threads, Inside(t)
       PROVE  [Abs!Next]_(Abs!vars)
  <2>1. \/ UNCHANGED <<life, fut>> \/ Return(t) \/ SuspendOn(t) \/ \E f \in Futures : SetFuture(t, f)
        \/ \E r \in Routines : Detach(t, r) \/ Drop(t, r)
    BY <1>10 DEF Inside, Join, RunPosted, Expire, CallRunner, TakeCaller, SuspendResult,
       InstallContinuation, Spin, ExchangeContinuation, CheckDetached, DisableContinuation,
       SetResult, CallResult, routineVars
  <2> QED BY <1>s, <1>4, <1>5, <1>6, <1>7, <1>8, <1>9, <1>10, <2>1
<1> QED BY <1>1, <1>2, <1>3, <1>10, Steps

\* The library implements AbstractRoutine when detach() does not race with the
\* end of the coroutine: whichever of the racing paths await() takes, the
\* coroutine goes on after what it awaits, once, with the result of an awaited
\* coroutine ready, and the memory of a coroutine outlives that.
THEOREM Refinement ==
    ASSUME DetachWhen # "anytime"
    PROVE  Spec => ImplementsAbstractRoutine
<1>1. Init => Abs!Init /\ PastInv
  <2> SUFFICES ASSUME Init PROVE Abs!Init /\ PastInv
    OBVIOUS
  <2>1. CoreInv
    BY InitCore
  <2>2. Slots = {}
    <3>1. \A t \in Threads : Len(stack[t]) = 0
      BY DEF Init
    <3> QED BY <2>1, <3>1, SlotFacts DEF CoreInv
  <2>3. PastInv
    BY <2>2, Names DEF PastInv, Resuming, Registered, Init
  <2>4. Status = [r \in Routines |-> "none"]
    BY <2>1, StatusFromCore DEF StatusRight, State, Init
  <2>5. Happened = {}
    BY Names DEF Happened, Init
  <2>6. waitFor = [r \in Routines |-> Null]
    BY DEF Init
  <2> QED BY <2>3, <2>4, <2>5, <2>6 DEF Abs!Init
<1>2. CoreInv /\ PastInv /\ [Next]_vars => PastInv'
  BY NextPast
<1>3. CoreInv /\ LifeInv /\ PastInv /\ [Next]_vars => [Abs!Next]_(Abs!vars)
  <2> SUFFICES ASSUME CoreInv, LifeInv, PastInv, [Next]_vars
               PROVE  [Abs!Next]_(Abs!vars)
    OBVIOUS
  <2>1. CASE UNCHANGED vars
    <3>1. UNCHANGED <<waitFor, Happened, Status>>
      BY <2>1 DEF vars, routineVars, Happened, Status, FramesOf, AllFrames, F
    <3> QED BY <3>1 DEF Abs!vars
  <2> QED BY <2>1, AbsStep
<1> QED BY <1>1, <1>2, <1>3, LifeInvariance, PTL DEF Spec, ImplementsAbstractRoutine, Abs!Spec
=============================================================================
