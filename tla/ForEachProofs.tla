--------------------------- MODULE ForEachProofs ---------------------------
(***************************************************************************)
(* Proofs about ForEach, for every kind and size of range and every        *)
(* maxParallelity. What they need of the channel comes from the proofs     *)
(* about BufferedChannel.                                                  *)
(***************************************************************************)
EXTENDS ForEach, DequeLemmas

\* The channel of forEach(). With maxParallelity 0 its queue is never used, so
\* its size does not matter then.
ChanSize == IF mMaxQueueSize = 0 THEN 1 ELSE mMaxQueueSize
CP == INSTANCE BufferedChannelProofs
        WITH Senders <- {Caller}, Receivers <- Coros \cup {Own}, Controllers <- {},
             MaxItems <- MaxSize, QueueSize <- MaxPar, NewSizes <- 1..MaxPar,
             mMaxQueueSize <- ChanSize

-----------------------------------------------------------------------------
(* The inductive invariant.                                                *)

FEs == {"start", "create", "range", "push", "close", "unwind", "join", "destroy", "returned",
        "threw", "rangeThrew", "dividedByZero", "assertCnt", "assertFirstError", "terminated"}
Works == {"none", "pop", "popping", "func", "catch", "leave", "done"}

TypeInv ==
    /\ kind \in {"random", "input"} /\ maxParallelity \in 0..MaxPar /\ size \in 0..MaxSize
    /\ mMaxQueueSize = maxParallelity
    /\ fe \in FEs
    /\ coroCnt \in 0..maxParallelity /\ created \in 0..coroCnt
    /\ end \in Nat /\ remaining \in Nat
    /\ itr \in [Coros -> Nat] /\ last \in [Coros -> Nat]
    /\ work \in [Coros -> Works]

\* Where forEach() is, the kind of the range and what coroutines there are.
PhaseInv ==
    /\ fe \in {"start", "dividedByZero", "assertCnt"} => coroCnt = 0 /\ end = 0
    /\ fe # "create" => created = coroCnt
    /\ kind = "input" /\ fe # "start" => coroCnt = maxParallelity
    /\ kind = "input" /\ fe \notin {"start", "assertCnt"} => maxParallelity > 0
    /\ kind = "random" => fe \in {"start", "dividedByZero", "create", "join", "returned", "threw"}
    /\ \A c \in Coros : work[c] = "none" <=> c > created
    /\ kind = "random" => \A c \in Coros : work[c] \notin {"pop", "popping"}
    /\ fe \in {"returned", "threw", "rangeThrew"} => \A c \in 1..created : work[c] = "done"

\* Only what was executed has failed, and a failure is kept or on its way.
ErrorInv ==
    /\ done \subseteq 1..size /\ errors \subseteq done
    /\ firstError \in errors \cup {NoError}
    /\ errors # {} => firstError # NoError \/ \E c \in Coros : work[c] = "catch"
    /\ \A c \in Coros : work[c] = "catch" => Element(c) \in errors

\* The parts of a random-access range: what is left of them was not executed,
\* and everything else was.
SplitInv ==
    fe \notin {"start", "dividedByZero"} =>
        /\ coroCnt > 0
        /\ remaining <= coroCnt - created
        /\ end + (coroCnt - created) * (size \div coroCnt) + remaining = size
PartsInv ==
    /\ \A c \in 1..created : itr[c] <= last[c] /\ last[c] <= end
    /\ \A c \in 1..created : work[c] \in {"func", "catch"} => itr[c] < last[c]
    /\ \A c, d \in 1..created : c < d => last[c] <= itr[d]
    /\ \A e \in done : e <= end
    /\ \A c \in 1..created : work[c] = "func" => \A e \in (itr[c] + 1)..last[c] : e \notin done
    /\ \A e \in 1..end : e \in done \/ \E c \in 1..created : e \in (itr[c] + 1)..last[c]
    /\ \A c \in 1..created : work[c] \in {"leave", "done"} => firstError # NoError \/ itr[c] = last[c]
RandomInv == kind = "random" => SplitInv /\ PartsInv

\* Nothing comes through the channel any more.
Drained == mSenderClosed /\ mReadyData = <<>>

\* The handles of the channel: who has left it, and why.
HandleInv ==
    /\ pc[Own] \in {"idle", "left"} /\ received[Own] = <<>>
    /\ fe \notin {"start", "assertCnt", "create"} => pc[Own] = "left"
    /\ \A c \in Coros : c > maxParallelity => pc[c] = "left"
    /\ \A c \in 1..maxParallelity : pc[c] = "left" <=> work[c] = "done"
    /\ fe \in {"start", "create", "range"} => pc[Caller] = "idle"
    /\ fe = "push" => pc[Caller] = "await"
    /\ fe \in {"close", "unwind"} => pc[Caller] # "left"
    /\ \A c \in Coros : work[c] \in {"leave", "done"} => firstError # NoError \/ Drained

\* Every element was pushed when the loop over the range has ended.
RangeInv ==
    /\ maxParallelity = 0 => mReadyData = <<>>
    /\ sent[Caller] <= size
    /\ fe \in {"close", "join"} /\ firstError = NoError =>
         sent[Caller] = size /\ accepted[Caller] = size

\* What came out of the channel was executed, except for the elements the
\* coroutines are at.
ReceivedInv ==
    /\ \A e \in done : \E r \in Coros : In(Chan!Item(Caller, e), received[r])
    /\ \A r \in Coros : work[r] = "func" => Element(r) \notin done
    /\ \A r \in Coros : work[r] \in {"func", "catch"} => Len(received[r]) > 0
    /\ \A r \in Coros : \A i \in 1..Len(received[r]) :
         received[r][i][2] \in done \/ (work[r] = "func" /\ i = Len(received[r]))
InputInv == kind = "input" => HandleInv /\ RangeInv /\ ReceivedInv

ChannelInv == CP!IInv /\ CP!FalseInv

IInv == ChannelInv /\ TypeInv /\ PhaseInv /\ ErrorInv /\ RandomInv /\ InputInv

-----------------------------------------------------------------------------
(* The channel.                                                            *)

\* Who uses the channel.
LEMMA Users ==
    /\ Caller \notin Coros /\ Own \notin Coros /\ Own # Caller
    /\ Coros \subseteq Nat \ {0}
    /\ CP!Activities = Own..MaxPar
    /\ Caller \in CP!Activities /\ Own \in CP!Activities /\ Coros \subseteq CP!Activities
BY BoundsAssumption DEF Caller, Own, Coros, CP!Activities

\* The assumptions of the channel hold.
LEMMA ChannelAssumptions ==
    CP!PartsDisjoint /\ CP!BothSides /\ CP!SizesPositive /\ CP!LargestSize /\ CP!MaxItemsNat
<1>1. CP!PartsDisjoint
  BY Users DEF CP!PartsDisjoint
<1>2. CP!BothSides
  <2>1. PICK q : q = <<Caller>>
    OBVIOUS
  <2>2. q \in Seq({Caller}) /\ Len(q) = 1 /\ q[1] = Caller
    BY <2>1
  <2>3. \A s \in {Caller} : \E n \in 1..Len(q) : q[n] = s
    BY <2>2
  <2>4. CP!IsFiniteSet({Caller})
    BY <2>2, <2>3 DEF CP!IsFiniteSet
  <2> QED BY <2>4 DEF CP!BothSides
<1>3. CP!SizesPositive /\ CP!LargestSize /\ CP!MaxItemsNat
  BY BoundsAssumption DEF CP!SizesPositive, CP!LargestSize, CP!MaxItemsNat
<1> QED BY <1>1, <1>2, <1>3

\* The operations forEach() calls are operations of the channel. When the queue
\* has no room at all, push() is refused before it looks at its size.
LEMMA Operations ==
    /\ mMaxQueueSize # 0 \/ (mReceiverClosed /\ mWaitingReceiver = <<>>) =>
         (Chan!Push(Caller) => CP!Push(Caller))
    /\ Chan!PushReturn(Caller) => CP!PushReturn(Caller)
    /\ Chan!SenderLeaves(Caller) => CP!SenderLeaves(Caller)
    /\ \A r \in Coros \cup {Own} :
         /\ Chan!Pop(r) => CP!Pop(r)
         /\ Chan!PopReturn(r) => CP!PopReturn(r)
         /\ Chan!ReceiverLeaves(r) => CP!ReceiverLeaves(r)
    /\ \A a : Chan!Notify(a) => CP!Notify(a)
<1> USE DEF ChanSize, Chan!Proceed, CP!Proceed, Chan!WithoutFront, CP!WithoutFront,
            Chan!NullOpt, CP!NullOpt, Chan!Calls, CP!Calls, Chan!Call, CP!Call,
            Chan!channelVars, CP!channelVars
<1>1. ASSUME mMaxQueueSize # 0 \/ (mReceiverClosed /\ mWaitingReceiver = <<>>), Chan!Push(Caller)
      PROVE  CP!Push(Caller)
  BY <1>1 DEF Chan!Push, CP!Push, Chan!Item, CP!Item, Chan!HandsOver, CP!HandsOver,
     Chan!PushBack, CP!PushBack, Chan!IsFull, CP!IsFull
<1>2. Chan!PushReturn(Caller) => CP!PushReturn(Caller)
  BY DEF Chan!PushReturn, CP!PushReturn
<1>3. Chan!SenderLeaves(Caller) => CP!SenderLeaves(Caller)
  BY DEF Chan!SenderLeaves, CP!SenderLeaves, Chan!Leave, CP!Leave, Chan!Last, CP!Last,
     Chan!ToNotify, CP!ToNotify
<1>4. ASSUME NEW r \in Coros \cup {Own}
      PROVE  Chan!Pop(r) => CP!Pop(r)
  BY DEF Chan!Pop, CP!Pop, Chan!SenderToWake, CP!SenderToWake
<1>5. ASSUME NEW r \in Coros \cup {Own}
      PROVE  Chan!PopReturn(r) => CP!PopReturn(r)
  BY DEF Chan!PopReturn, CP!PopReturn
<1>6. ASSUME NEW r \in Coros \cup {Own}
      PROVE  Chan!ReceiverLeaves(r) => CP!ReceiverLeaves(r)
  BY DEF Chan!ReceiverLeaves, CP!ReceiverLeaves, Chan!Leave, CP!Leave, Chan!Last, CP!Last,
     Chan!ToNotify, CP!ToNotify
<1>7. ASSUME NEW a
      PROVE  Chan!Notify(a) => CP!Notify(a)
  BY DEF Chan!Notify, CP!Notify
<1> QED BY <1>1, <1>2, <1>3, <1>4, <1>5, <1>6, <1>7

\* A step of the channel keeps its invariant.
LEMMA ChannelKept ==
    ASSUME ChannelInv, CP!Next \/ UNCHANGED CP!vars
    PROVE  ChannelInv'
BY ChannelAssumptions, CP!StepIInv, CP!RefusalStep DEF ChannelInv

\* The invariant of the channel holds initially.
LEMMA ChannelInit ==
    ASSUME Init
    PROVE  ChannelInv
<1>1. CP!Fresh
  <2>1. /\ self = [a \in CP!Activities |-> <<>>] /\ notify = [a \in CP!Activities |-> <<>>]
        /\ pc \in [CP!Activities -> {"idle", "left"}]
        /\ pc[Caller] = "idle" /\ pc[Own] = "idle"
    BY Users, BoundsAssumption DEF Init, Own, Caller
  <2>2. ChanSize \in CP!Sizes
    BY BoundsAssumption DEF Init, ChanSize, CP!Sizes
  <2>3. \E s \in {Caller} : pc[s] = "idle"
    BY <2>1
  <2>4. \E r \in Coros \cup {Own} : pc[r] = "idle"
    BY <2>1
  <2> QED BY <2>1, <2>2, <2>3, <2>4 DEF Init, CP!Fresh
<1> QED BY <1>1, ChannelAssumptions, CP!InitIInv DEF ChannelInv

\* What the invariant says about the channel as forEach() sees it.
LEMMA ChannelFacts ==
    ASSUME ChannelInv
    PROVE  /\ pc \in [Own..MaxPar -> {"idle", "await", "stopped", "left"}]
           /\ sent \in [{Caller} -> 0..MaxSize] /\ accepted \in [{Caller} -> Nat]
           /\ received \in [Coros \cup {Own} -> Seq({Caller} \X (1..MaxSize))]
           /\ mSenderClosed <=> pc[Caller] = "left"
           /\ mReceiverClosed <=> \A r \in Coros \cup {Own} : pc[r] = "left"
           /\ mReceiverClosed => mWaitingReceiver = <<>>
           /\ pc[Caller] = "idle" => accepted[Caller] = sent[Caller]
           /\ self[Caller] \in {<<>>, <<TRUE>>, <<FALSE>>}
           /\ self[Caller] = <<FALSE>> => mReceiverClosed
           /\ \A r \in Coros : self[r] = <<Chan!NullOpt>> => Drained
<1> USE DEF ChannelInv, CP!IInv, CP!CoreInv
<1>1. pc \in [Own..MaxPar -> {"idle", "await", "stopped", "left"}]
  BY Users DEF CP!TypeInv, CP!ActivityType, CP!PCs
<1>2. /\ sent \in [{Caller} -> 0..MaxSize] /\ accepted \in [{Caller} -> Nat]
      /\ received \in [Coros \cup {Own} -> Seq({Caller} \X (1..MaxSize))]
  BY DEF CP!TypeInv, CP!CountType, CP!Items
<1>3. /\ mSenderClosed <=> pc[Caller] = "left"
      /\ mReceiverClosed <=> \A r \in Coros \cup {Own} : pc[r] = "left"
  BY DEF CP!FlagInv
<1>4. ASSUME mReceiverClosed
      PROVE  mWaitingReceiver = <<>>
  <2>1. \A r \in Coros \cup {Own} : ~In(r, mWaitingReceiver)
    <3>1. \A a \in CP!Activities : In(a, mWaitingReceiver) => pc[a] = "await"
      BY DEF CP!WakeInv, CP!Queued, CP!Waits, CP!In, In
    <3> QED BY <1>3, <1>4, <3>1, Users
  <2>2. mWaitingReceiver \in Seq(Coros \cup {Own})
    BY DEF CP!TypeInv, CP!ChannelType
  <2> QED BY <2>1, <2>2, NothingIn
<1>5. pc[Caller] = "idle" => accepted[Caller] = sent[Caller]
  BY DEF CP!CountInv
<1>6. self[Caller] \in {<<>>, <<TRUE>>, <<FALSE>>}
  BY DEF CP!TypeInv, CP!ActivityType, CP!PushAnswers
<1>7. self[Caller] = <<FALSE>> => mReceiverClosed
  BY DEF CP!FalseInv, CP!ToldFalse
<1>8. \A r \in Coros : self[r] = <<Chan!NullOpt>> => Drained
  BY DEF CP!NothingInv, CP!ToldNothing, CP!Drained, Drained, Chan!NullOpt, CP!NullOpt
<1> QED BY <1>1, <1>2, <1>3, <1>4, <1>5, <1>6, <1>7, <1>8

\* Every step of forEach() and its coroutines is a step of the channel or
\* leaves it alone.
LEMMA ChannelStep ==
    ASSUME IInv, Next
    PROVE  /\ ChannelInv' /\ (Drained => Drained')
           /\ mMaxQueueSize' = mMaxQueueSize
<1>c. ChannelInv
  BY DEF IInv
<1>m. mMaxQueueSize' = mMaxQueueSize
  BY DEF Next, CallerStep, CoroStep, SplitRange, MakeChannel, CreateForPart, CreateReceiver,
     AllCreated, PushNext, RangeEnds, RangeThrows, PushReturns, CloseChannel, CallerNotifies,
     JoinAll, DestroyCoros, Pop, PopReturns, FuncReturns, FuncThrows, HandleError, CoroEnds,
     CoroNotifies, chanVars, Chan!Push, Chan!PushReturn, Chan!SenderLeaves, Chan!Pop,
     Chan!PopReturn, Chan!ReceiverLeaves, Chan!Notify, Chan!Leave, Chan!channelVars
<1>1. CP!Next \/ UNCHANGED chanVars
  <2>1. CASE PushNext
    <3>1. kind = "input"
      BY <2>1 DEF PushNext, IInv, PhaseInv, TypeInv
    <3>2. mMaxQueueSize = 0 => mReceiverClosed /\ mWaitingReceiver = <<>>
      <4> SUFFICES ASSUME mMaxQueueSize = 0
                   PROVE  mReceiverClosed /\ mWaitingReceiver = <<>>
        OBVIOUS
      <4>1. pc[Own] = "left" /\ \A c \in Coros : pc[c] = "left"
        BY <2>1, <3>1, Users DEF PushNext, IInv, TypeInv, InputInv, HandleInv, Coros
      <4> QED BY <1>c, <4>1, ChannelFacts
    <3>3. CP!Push(Caller)
      BY <2>1, <3>2, Operations DEF PushNext
    <3> QED BY <3>3 DEF CP!Next, CP!SenderStep
  <2>2. CASE AllCreated
    BY <2>2, Operations DEF AllCreated, CP!Next, CP!ReceiverStep
  <2>3. CASE PushReturns \/ CloseChannel \/ CallerNotifies
    BY <2>3, Operations DEF PushReturns, CloseChannel, CallerNotifies, CP!Next, CP!SenderStep
  <2>4. CASE SplitRange \/ MakeChannel \/ CreateForPart \/ CreateReceiver \/ RangeEnds
             \/ RangeThrows \/ JoinAll \/ DestroyCoros
    BY <2>4 DEF SplitRange, MakeChannel, CreateForPart, CreateReceiver, RangeEnds, RangeThrows,
       JoinAll, DestroyCoros
  <2>5. ASSUME NEW c \in Coros, CoroStep(c)
        PROVE  CP!Next \/ UNCHANGED chanVars
    <3>1. CASE Pop(c) \/ PopReturns(c) \/ CoroNotifies(c)
      BY <3>1, Operations DEF Pop, PopReturns, CoroNotifies, CP!Next, CP!ReceiverStep
    <3>2. CASE CoroEnds(c)
      BY <3>2, Operations DEF CoroEnds, CP!Next, CP!ReceiverStep
    <3>3. CASE FuncReturns(c) \/ FuncThrows(c) \/ HandleError(c)
      BY <3>3 DEF FuncReturns, FuncThrows, HandleError
    <3> QED BY <2>5, <3>1, <3>2, <3>3 DEF CoroStep
  <2> QED BY <2>1, <2>2, <2>3, <2>4, <2>5 DEF Next, CallerStep
<1>2. CASE CP!Next
  <2>1. ChannelInv'
    BY <1>c, <1>2, ChannelKept
  <2>2. CP!Move
    BY <1>c, <1>2, ChannelAssumptions, CP!MoveCases DEF ChannelInv, CP!IInv, CP!CoreInv
  <2>3. CP!Drained => CP!Drained'
    BY <1>c, <2>2, ChannelAssumptions, CP!ClosedStep DEF ChannelInv, CP!IInv
  <2> QED BY <1>m, <2>1, <2>3 DEF Drained, CP!Drained
<1>3. CASE UNCHANGED chanVars
  <2>1. UNCHANGED CP!vars
    BY <1>3 DEF chanVars, CP!vars, CP!channelVars, ChanSize
  <2>2. Drained => Drained'
    BY <1>3 DEF chanVars, Drained
  <2> QED BY <1>c, <1>m, <2>1, <2>2, ChannelKept
<1> QED BY <1>1, <1>2, <1>3

-----------------------------------------------------------------------------
(* Types and phases.                                                       *)

\* What the steps of a coroutine do to its place.
LEMMA CoroCases ==
    ASSUME TypeInv, PhaseInv, NEW c \in Coros, CoroStep(c)
    PROVE  /\ UNCHANGED <<args, fe, loopVars, last>>
           /\ \/ UNCHANGED <<itr, work, firstError, done, errors>>
              \/ /\ work[c] \notin {"none", "done"}
                 /\ \E w \in Works \ {"none"} :
                      /\ work' = [work EXCEPT ![c] = w]
                      /\ w \in {"pop", "popping"} => kind = "input"
                 /\ itr' = itr \/ itr' = [itr EXCEPT ![c] = @ + 1]
<1>1. CASE CoroNotifies(c)
  BY <1>1 DEF CoroNotifies, coroVars
<1>2. CASE FuncReturns(c)
  <2>1. PICK w : w = IF kind = "input" THEN "pop"
                     ELSE IF itr[c] + 1 = last[c] THEN "leave" ELSE "func"
    OBVIOUS
  <2>2. w \in Works \ {"none"} /\ (w \in {"pop", "popping"} => kind = "input")
    BY <2>1 DEF Works
  <2>3. work' = [work EXCEPT ![c] = w]
    BY <1>2, <2>1 DEF FuncReturns
  <2> QED BY <1>2, <2>2, <2>3 DEF FuncReturns
<1>3. CASE FuncThrows(c) \/ HandleError(c)
  BY <1>3 DEF FuncThrows, HandleError, Works, AfterThrow
<1>4. CASE Pop(c) \/ PopReturns(c)
  <2>1. kind = "input"
    BY <1>4 DEF Pop, PopReturns, TypeInv, PhaseInv
  <2>2. \E w \in {"popping", "leave", "func"} : work' = [work EXCEPT ![c] = w]
    BY <1>4 DEF Pop, PopReturns
  <2>3. {"popping", "leave", "func"} \subseteq Works \ {"none"}
    BY DEF Works
  <2> QED BY <1>4, <2>1, <2>2, <2>3 DEF Pop, PopReturns
<1>5. CASE CoroEnds(c)
  <2>1. "done" \in Works \ {"none"} /\ "done" \notin {"pop", "popping"}
    BY DEF Works
  <2>2. /\ work[c] = "leave" /\ work' = [work EXCEPT ![c] = "done"]
        /\ UNCHANGED <<args, fe, loopVars, itr, last>>
    BY <1>5 DEF CoroEnds
  <2> QED BY <2>1, <2>2
<1> QED BY <1>1, <1>2, <1>3, <1>4, <1>5 DEF CoroStep

\* Dividing with a remainder.
LEMMA DivMod ==
    ASSUME NEW n \in Int, NEW k \in Int, k > 0
    PROVE  n = k * (n \div k) + (n % k)
OBVIOUS

\* The division of the size by the number of coroutines.
LEMMA Division ==
    ASSUME NEW n \in Nat, NEW k \in Nat \ {0}
    PROVE  /\ n \div k \in Nat /\ n % k \in 0..(k - 1)
           /\ n = k * (n \div k) + (n % k)
<1>1. n \div k \in Int /\ n % k \in 0..(k - 1)
  OBVIOUS
<1>2. n = k * (n \div k) + (n % k)
  <2>1. n \in Int /\ k \in Int /\ k > 0
    OBVIOUS
  <2> QED BY <2>1, DivMod, Zenon
<1>3. n \div k \in Nat
  BY <1>1, <1>2
<1> QED BY <1>1, <1>2, <1>3, Zenon

\* The coroutine that is created next.
LEMMA NextCoro ==
    ASSUME TypeInv, created < coroCnt
    PROVE  /\ created + 1 \in Coros /\ coroCnt \in Nat \ {0} /\ created \in Nat
           /\ size \div coroCnt \in Nat
<1>1. created + 1 \in Coros /\ coroCnt \in Nat \ {0} /\ created \in Nat /\ size \in Nat
  BY BoundsAssumption DEF TypeInv, Coros
<1> QED BY <1>1, Division

\* Every step keeps the types.
LEMMA TypeStep ==
    ASSUME IInv, Next
    PROVE  TypeInv'
<1>m. mMaxQueueSize' = mMaxQueueSize
  BY ChannelStep
<1>t. TypeInv /\ PhaseInv
  BY DEF IInv
<1>b. MaxPar \in Nat /\ MaxSize \in Nat /\ size \in Nat
  BY <1>t, BoundsAssumption DEF TypeInv
<1>1. ASSUME NEW c \in Coros, CoroStep(c)
      PROVE  TypeInv'
  <2>1. UNCHANGED <<kind, maxParallelity, size, fe, coroCnt, created, end, remaining, last>>
    BY <1>1, <1>t, CoroCases DEF args, loopVars
  <2>2. work' \in [Coros -> Works] /\ itr' \in [Coros -> Nat]
    BY <1>1, <1>t, CoroCases DEF TypeInv
  <2> QED BY <1>m, <1>t, <2>1, <2>2 DEF TypeInv
<1>2. CASE SplitRange
  <2>p. PICK cnt : cnt = IF maxParallelity < size THEN maxParallelity ELSE size
    OBVIOUS
  <2>1. cnt \in 0..maxParallelity
    BY <1>b, <1>t, <2>p DEF TypeInv
  <2>2. CASE cnt = 0
    BY <1>2, <1>m, <1>t, <2>p, <2>2
       DEF SplitRange, TypeInv, FEs, args, loopVars, coroVars
  <2>3. CASE cnt # 0
    <3>1. size % cnt \in Nat
      BY <1>b, <1>t, <2>1, <2>3, Division DEF TypeInv
    <3>2. coroCnt' = cnt /\ remaining' = size % cnt /\ created' = created /\ end' = end /\ fe' = "create"
      BY <1>2, <2>p, <2>3 DEF SplitRange
    <3>3. created = 0
      BY <1>2, <1>t DEF SplitRange, PhaseInv
    <3>4. cnt \in 0..maxParallelity /\ 0 \in 0..cnt
      BY <1>b, <1>t, <2>1 DEF TypeInv
    <3> QED BY <1>2, <1>m, <1>t, <3>1, <3>2, <3>3, <3>4
          DEF SplitRange, TypeInv, FEs, args, coroVars
  <2> QED BY <2>2, <2>3
<1>3. CASE MakeChannel
  <2>1. created = 0 /\ maxParallelity \in Nat
    BY <1>3, <1>b, <1>t DEF MakeChannel, PhaseInv, TypeInv
  <2> QED BY <1>3, <1>m, <1>t, <2>1 DEF MakeChannel, TypeInv, FEs, args, coroVars
<1>4. CASE CreateForPart
  <2>1. created + 1 \in Coros /\ coroCnt \in Nat \ {0} /\ created \in Nat /\ size \div coroCnt \in Nat
    BY <1>4, <1>t, NextCoro DEF CreateForPart
  <2>2. OneMore(remaining) \in Nat /\ remaining - OneMore(remaining) \in Nat
    BY <1>t DEF OneMore, TypeInv
  <2>3. end' \in Nat /\ remaining' \in Nat
    BY <1>4, <1>t, <2>1, <2>2 DEF CreateForPart, TypeInv
  <2>4. created' \in 0..coroCnt
    BY <1>4, <2>1 DEF CreateForPart
  <2>5. /\ itr' \in [Coros -> Nat] /\ last' \in [Coros -> Nat] /\ work' \in [Coros -> Works]
    BY <1>4, <1>t, <2>3 DEF CreateForPart, TypeInv, Works
  <2> QED BY <1>4, <1>m, <1>t, <2>3, <2>4, <2>5 DEF CreateForPart, TypeInv, args
<1>5. CASE CreateReceiver
  <2>1. created + 1 \in Coros /\ coroCnt \in Nat \ {0} /\ created \in Nat
    BY <1>5, <1>t, NextCoro DEF CreateReceiver
  <2>2. created' \in 0..coroCnt
    BY <1>5, <2>1 DEF CreateReceiver
  <2>3. work' \in [Coros -> Works]
    BY <1>5, <1>t DEF CreateReceiver, TypeInv, Works
  <2> QED BY <1>5, <1>m, <1>t, <2>2, <2>3 DEF CreateReceiver, TypeInv, args
<1>6. CASE AllCreated \/ PushNext \/ RangeEnds \/ RangeThrows \/ PushReturns \/ CloseChannel
           \/ CallerNotifies \/ JoinAll \/ DestroyCoros
  <2>1. UNCHANGED <<args, loopVars, coroVars>> /\ fe' \in FEs
    BY <1>6, <1>t DEF AllCreated, PushNext, RangeEnds, RangeThrows, PushReturns, CloseChannel,
       CallerNotifies, JoinAll, DestroyCoros, TypeInv, FEs, AfterRange
  <2> QED BY <1>m, <1>t, <2>1 DEF TypeInv, args, loopVars, coroVars
<1> QED BY <1>1, <1>2, <1>3, <1>4, <1>5, <1>6 DEF Next, CallerStep

\* Every step keeps the relation between the place of forEach() and the
\* coroutines.
LEMMA PhaseStep ==
    ASSUME IInv, Next
    PROVE  PhaseInv'
<1>t. TypeInv /\ PhaseInv /\ coroCnt \in Nat /\ created \in Nat /\ Coros \subseteq Nat
  BY BoundsAssumption, Users DEF IInv, TypeInv
<1>1. ASSUME NEW c \in Coros, CoroStep(c)
      PROVE  PhaseInv'
  <2>1. UNCHANGED <<kind, maxParallelity, size, fe, coroCnt, created, end, remaining, last>>
    BY <1>1, <1>t, CoroCases DEF args, loopVars
  <2>2. CASE work' = work
    BY <1>t, <2>1, <2>2 DEF PhaseInv
  <2>3. CASE work' # work
    <3>1. PICK w \in Works \ {"none"} :
            /\ work[c] \notin {"none", "done"}
            /\ work' = [work EXCEPT ![c] = w]
            /\ w \in {"pop", "popping"} => kind = "input"
      BY <1>1, <1>t, <2>3, CoroCases
    <3>2. work'[c] = w /\ \A d \in Coros : d # c => work'[d] = work[d]
      BY <1>t, <3>1 DEF TypeInv
    <3>3. c <= created
      BY <1>t, <3>1 DEF PhaseInv
    <3>4. fe \notin {"returned", "threw", "rangeThrew"}
      BY <1>t, <3>1, <3>3 DEF PhaseInv, Coros
    <3> QED BY <1>t, <2>1, <3>1, <3>2, <3>4 DEF PhaseInv, Works
  <2> QED BY <2>2, <2>3
<1>2. CASE SplitRange
  <2>1. /\ UNCHANGED <<kind, maxParallelity, created, end, work>> /\ kind = "random"
        /\ fe = "start" /\ fe' \in {"dividedByZero", "create"}
        /\ fe' = "dividedByZero" => coroCnt' = coroCnt
    BY <1>2 DEF SplitRange, args, loopVars, coroVars
  <2> QED BY <1>t, <2>1 DEF PhaseInv
<1>3. CASE MakeChannel
  <2>1. maxParallelity \in Nat
    BY <1>t, BoundsAssumption DEF TypeInv
  <2> QED BY <1>3, <1>t, <2>1 DEF MakeChannel, PhaseInv, args, coroVars
<1>4. CASE CreateForPart \/ CreateReceiver
  <2>1. created + 1 \in Coros
    BY <1>4, <1>t, NextCoro DEF CreateForPart, CreateReceiver
  <2>2. \E w \in Works \ {"none"} :
          /\ work' = [work EXCEPT ![created + 1] = w]
          /\ w \in {"pop", "popping"} => kind = "input"
    BY <1>4 DEF CreateForPart, CreateReceiver, Works
  <2>3. /\ UNCHANGED <<kind, maxParallelity, fe, coroCnt>> /\ fe = "create"
        /\ created' = created + 1
    BY <1>4 DEF CreateForPart, CreateReceiver, args
  <2>4. /\ work'[created + 1] # "none"
        /\ work'[created + 1] \in {"pop", "popping"} => kind = "input"
        /\ \A d \in Coros : d # created + 1 => work'[d] = work[d]
    BY <1>t, <2>1, <2>2 DEF TypeInv
  <2>5. \A d \in Coros : work'[d] = "none" <=> d > created'
    BY <1>t, <2>3, <2>4 DEF PhaseInv
  <2>6. kind = "random" => \A d \in Coros : work'[d] \notin {"pop", "popping"}
    BY <1>t, <2>4 DEF PhaseInv
  <2> QED BY <1>t, <2>3, <2>5, <2>6 DEF PhaseInv
<1>5. CASE AllCreated \/ PushNext \/ RangeEnds \/ RangeThrows \/ PushReturns \/ CloseChannel
           \/ CallerNotifies
  <2>1. UNCHANGED <<kind, maxParallelity, coroCnt, created, end, work>>
    BY <1>5 DEF AllCreated, PushNext, RangeEnds, RangeThrows, PushReturns, CloseChannel,
       CallerNotifies, args, loopVars, coroVars
  <2>2. CASE CallerNotifies
    BY <1>t, <2>1, <2>2 DEF CallerNotifies, PhaseInv
  <2>3. CASE AllCreated
    BY <1>t, <2>1, <2>3 DEF AllCreated, PhaseInv, TypeInv
  <2>4. CASE PushNext \/ RangeEnds \/ RangeThrows \/ PushReturns \/ CloseChannel
    <3>1. kind = "input"
      BY <1>t, <2>4 DEF PushNext, RangeEnds, RangeThrows, PushReturns, CloseChannel, PhaseInv, TypeInv
    <3>2. /\ fe \notin {"start", "assertCnt", "create"}
          /\ fe' \notin {"start", "dividedByZero", "assertCnt", "create", "returned", "threw", "rangeThrew"}
      BY <2>4 DEF PushNext, RangeEnds, RangeThrows, PushReturns, CloseChannel, AfterRange
    <3> QED BY <1>t, <2>1, <3>1, <3>2 DEF PhaseInv
  <2> QED BY <1>5, <2>2, <2>3, <2>4
<1>6. CASE JoinAll \/ DestroyCoros
  <2>1. UNCHANGED <<kind, maxParallelity, coroCnt, created, end, work>>
    BY <1>6 DEF JoinAll, DestroyCoros, args, loopVars, coroVars
  <2>2. /\ fe \in {"join", "destroy"} /\ fe' \in {"returned", "threw", "rangeThrew", "terminated"}
        /\ fe = "join" => fe' \in {"returned", "threw"}
        /\ fe' # "terminated" => \A c \in 1..coroCnt : work[c] = "done"
    BY <1>6 DEF JoinAll, DestroyCoros, Ended
  <2>3. created = coroCnt /\ (kind = "random" => fe = "join")
    BY <1>t, <2>2 DEF PhaseInv
  <2> QED BY <1>t, <2>1, <2>2, <2>3 DEF PhaseInv
<1> QED BY <1>1, <1>2, <1>3, <1>4, <1>5, <1>6 DEF Next, CallerStep

-----------------------------------------------------------------------------
(* The elements and the errors.                                            *)

\* The products in the partition of the range.
LEMMA Products ==
    ASSUME NEW n \in Nat, NEW q \in Nat
    PROVE  n * q \in Nat /\ 0 * q = 0 /\ (n + 1) * q = n * q + q
OBVIOUS

\* The parts never reach beyond the range, and all of them make up the range.
LEMMA SplitBound ==
    ASSUME TypeInv, PhaseInv, SplitInv
    PROVE  /\ end <= size
           /\ fe \notin {"start", "dividedByZero", "create"} => end = size
<1>t. end \in Nat /\ remaining \in Nat /\ size \in Nat /\ coroCnt \in Nat /\ created \in 0..coroCnt
  BY BoundsAssumption DEF TypeInv
<1>1. CASE fe = "start"
  BY <1>1, <1>t DEF PhaseInv
<1>2. CASE fe = "dividedByZero"
  BY <1>2, <1>t DEF PhaseInv
<1>3. CASE fe \notin {"start", "dividedByZero"}
  <2>1. coroCnt \in Nat \ {0} /\ coroCnt - created \in Nat
    BY <1>3, <1>t DEF SplitInv
  <2>2. PICK q \in Nat : q = size \div coroCnt
    BY <1>t, <2>1, Division
  <2>3. PICK n \in Nat : n = coroCnt - created
    BY <2>1
  <2>4. PICK p \in Nat : p = n * q /\ (n = 0 => p = 0)
    BY Products
  <2>5. end + p + remaining = size /\ remaining <= n
    BY <1>3, <2>2, <2>3, <2>4 DEF SplitInv
  <2>6. fe # "create" => n = 0
    BY <1>t, <2>3 DEF PhaseInv
  <2> QED BY <1>3, <1>t, <2>4, <2>5, <2>6
<1> QED BY <1>1, <1>2, <1>3

\* The element a coroutine is at is one of the range, and is executed only
\* once.
LEMMA ElementFacts ==
    ASSUME IInv, NEW c \in Coros, work[c] \in {"func", "catch"}
    PROVE  /\ Element(c) \in 1..size
           /\ work[c] = "func" => Element(c) \notin done
           /\ Element(c) # NoError
<1>t. /\ TypeInv /\ PhaseInv /\ size \in Nat /\ c \in Nat /\ size <= MaxSize /\ MaxSize \in Nat
      /\ ChannelInv
  BY BoundsAssumption, Users DEF IInv, TypeInv
<1>1. CASE kind = "random"
  <2>1. c \in 1..created
    BY <1>t DEF PhaseInv, Coros, TypeInv
  <2>2. /\ itr[c] < last[c] /\ last[c] <= end /\ itr[c] \in Nat /\ last[c] \in Nat /\ end \in Nat
        /\ work[c] = "func" => \A e \in (itr[c] + 1)..last[c] : e \notin done
    BY <1>1, <1>t, <2>1 DEF IInv, RandomInv, PartsInv, TypeInv
  <2>3. end <= size
    BY <1>1, <1>t, SplitBound DEF IInv, RandomInv
  <2>4. itr[c] + 1 \in (itr[c] + 1)..last[c] /\ itr[c] + 1 \in 1..size
    BY <1>t, <2>2, <2>3
  <2>5. Element(c) = itr[c] + 1
    BY <1>1 DEF Element
  <2> QED BY <1>t, <2>2, <2>4, <2>5, NoErrorAssumption
<1>2. CASE kind = "input"
  <2>1. /\ ReceivedInv /\ RangeInv
    BY <1>2 DEF IInv, InputInv
  <2>2. /\ received[c] \in Seq({Caller} \X (1..MaxSize)) /\ Len(received[c]) > 0
        /\ Len(received[c]) \in Nat
    BY <1>t, <2>1, ChannelFacts, LenProperties DEF ReceivedInv
  <2>3. PICK x : x = received[c][Len(received[c])]
    OBVIOUS
  <2>4. x \in CP!Items /\ In(x, received[c])
    BY <2>2, <2>3 DEF In, CP!Items
  <2>5. CP!Somewhere(x)
    BY <2>4 DEF CP!Somewhere, CP!Out, CP!In, In
  <2>6. x[2] <= sent[x[1]]
    BY <1>t, <2>4, <2>5 DEF ChannelInv, CP!IInv, CP!OrderInv
  <2>7. x[1] = Caller /\ x[2] \in 1..MaxSize /\ sent[Caller] \in Nat
    BY <1>t, <2>4, ChannelFacts DEF CP!Items
  <2>8. x[2] <= size
    BY <1>t, <2>1, <2>6, <2>7 DEF RangeInv
  <2>9. Element(c) = x[2]
    BY <1>2, <2>3 DEF Element
  <2> QED BY <1>t, <2>1, <2>7, <2>8, <2>9, NoErrorAssumption DEF ReceivedInv
<1> QED BY <1>1, <1>2, <1>t DEF TypeInv

\* Only a step of a coroutine does anything about elements and errors, except
\* that forEach() gives it its place.
LEMMA CallerCases ==
    ASSUME CallerStep
    PROVE  \/ UNCHANGED <<args, coroVars>>
           \/ CreateForPart \/ CreateReceiver
BY DEF CallerStep, SplitRange, MakeChannel, AllCreated, PushNext, RangeEnds, RangeThrows,
   PushReturns, CloseChannel, CallerNotifies, JoinAll, DestroyCoros

\* The coroutine forEach() creates next.
LEMMA Creation ==
    ASSUME IInv, CreateForPart \/ CreateReceiver
    PROVE  /\ created + 1 \in Coros /\ work[created + 1] = "none" /\ created \in Nat
           /\ created' = created + 1 /\ fe = "create"
           /\ work'[created + 1] \in {"func", "leave", "pop"}
           /\ \A d \in Coros : d # created + 1 =>
                work'[d] = work[d] /\ itr'[d] = itr[d] /\ last'[d] = last[d]
           /\ UNCHANGED <<args, fe, coroCnt, firstError, done, errors>> /\ UNCHANGED chanVars
<1>t. TypeInv /\ PhaseInv
  BY DEF IInv
<1>1. created + 1 \in Coros /\ created \in Nat
  BY <1>t, NextCoro DEF CreateForPart, CreateReceiver
<1>2. work[created + 1] = "none"
  BY <1>t, <1>1 DEF PhaseInv
<1>3. /\ work'[created + 1] \in {"func", "leave", "pop"}
      /\ \A d \in Coros : d # created + 1 =>
           work'[d] = work[d] /\ itr'[d] = itr[d] /\ last'[d] = last[d]
  BY <1>t, <1>1 DEF CreateForPart, CreateReceiver, TypeInv
<1>4. /\ created' = created + 1 /\ fe = "create"
      /\ UNCHANGED <<args, fe, coroCnt, firstError, done, errors>> /\ UNCHANGED chanVars
  BY DEF CreateForPart, CreateReceiver
<1> QED BY <1>1, <1>2, <1>3, <1>4

\* The other coroutines stay where they are.
LEMMA Others ==
    ASSUME TypeInv, ChannelInv, NEW c \in Coros, CoroStep(c), NEW d \in Coros, d # c
    PROVE  /\ work'[d] = work[d] /\ itr'[d] = itr[d] /\ last'[d] = last[d]
           /\ received'[d] = received[d] /\ Element(d)' = Element(d)
           /\ UNCHANGED <<args, fe, loopVars>>
<1>1. /\ work'[d] = work[d] /\ itr'[d] = itr[d] /\ last'[d] = last[d]
      /\ UNCHANGED <<args, fe, loopVars>>
  BY DEF CoroStep, Pop, PopReturns, FuncReturns, FuncThrows, HandleError, CoroEnds, CoroNotifies,
     coroVars, TypeInv
<1>2. received'[d] = received[d]
  <2>1. received \in [Coros \cup {Own} -> Seq({Caller} \X (1..MaxSize))]
    BY ChannelFacts
  <2> QED BY <2>1 DEF CoroStep, Pop, PopReturns, FuncReturns, FuncThrows, HandleError, CoroEnds,
        CoroNotifies, chanVars, Chan!Pop, Chan!PopReturn, Chan!ReceiverLeaves, Chan!Leave, Chan!Notify
<1> QED BY <1>1, <1>2 DEF Element, args

\* The error that is kept stays.
LEMMA ErrorStays ==
    ASSUME IInv, Next, firstError # NoError
    PROVE  firstError' = firstError
<1>1. ASSUME NEW c \in Coros, CoroStep(c)
      PROVE  firstError' = firstError
  BY <1>1 DEF CoroStep, Pop, PopReturns, FuncReturns, FuncThrows, HandleError, CoroEnds,
     CoroNotifies, coroVars, KeptError
<1>2. CASE CallerStep
  BY <1>2, CallerCases, Creation DEF coroVars
<1> QED BY <1>1, <1>2 DEF Next

\* A failure is of something executed, and is kept or on its way.
LEMMA ErrorStep ==
    ASSUME IInv, Next
    PROVE  ErrorInv'
<1>t. ErrorInv /\ TypeInv /\ PhaseInv /\ ChannelInv
  BY DEF IInv
<1>1. ASSUME UNCHANGED <<args, coroVars>>, \A d \in Coros : work[d] = "catch" => received'[d] = received[d]
      PROVE  ErrorInv'
  <2>1. \A d \in Coros : work[d] = "catch" => Element(d)' = Element(d)
    BY <1>1 DEF Element, args, coroVars
  <2> QED BY <1>t, <1>1, <2>1 DEF ErrorInv, args, coroVars
<1>2. CASE CreateForPart \/ CreateReceiver
  <2>1. \A d \in Coros : work'[d] = "catch" => work[d] = "catch" /\ Element(d)' = Element(d)
    BY <1>2, Creation DEF Element, args, chanVars
  <2>2. \A d \in Coros : work[d] = "catch" => work'[d] = "catch"
    BY <1>2, Creation
  <2> QED BY <1>2, <1>t, <2>1, <2>2, Creation DEF ErrorInv, args
<1>3. CASE CallerStep /\ UNCHANGED <<args, coroVars>>
  <2>1. received \in [Coros \cup {Own} -> Seq({Caller} \X (1..MaxSize))]
    BY <1>t, ChannelFacts
  <2>2. \A d \in Coros : received'[d] = received[d]
    BY <1>3, <2>1 DEF CallerStep, SplitRange, MakeChannel, CreateForPart, CreateReceiver,
       AllCreated, PushNext, RangeEnds, RangeThrows, PushReturns, CloseChannel, CallerNotifies,
       JoinAll, DestroyCoros, chanVars, Chan!Push, Chan!PushReturn, Chan!SenderLeaves,
       Chan!ReceiverLeaves, Chan!Leave, Chan!Notify
  <2> QED BY <1>1, <1>3, <2>2
<1>4. ASSUME NEW c \in Coros, CoroStep(c)
      PROVE  ErrorInv'
  <2>1. /\ \A d \in Coros : d # c => work'[d] = work[d] /\ Element(d)' = Element(d)
        /\ size' = size
    BY <1>4, <1>t, Others, CoroCases DEF args
  <2>2. CASE FuncReturns(c)
    <3>1. /\ work[c] = "func" /\ done' = done \cup {Element(c)} /\ UNCHANGED <<firstError, errors>>
          /\ work'[c] # "catch"
      BY <1>t, <2>2 DEF FuncReturns, TypeInv
    <3>2. Element(c) \in 1..size
      BY <3>1, ElementFacts
    <3> QED BY <1>t, <2>1, <3>1, <3>2 DEF ErrorInv
  <2>3. CASE FuncThrows(c)
    <3>1. /\ work[c] = "func" /\ done' = done \cup {Element(c)} /\ errors' = errors \cup {Element(c)}
          /\ firstError' = firstError /\ work'[c] = "catch"
      BY <1>t, <2>3 DEF FuncThrows, TypeInv, AfterThrow
    <3>2. Element(c) \in 1..size /\ Element(c)' = Element(c)
      BY <2>3, <3>1, ElementFacts DEF FuncThrows, Element, args, chanVars
    <3> QED BY <1>t, <2>1, <3>1, <3>2 DEF ErrorInv
  <2>4. CASE HandleError(c)
    <3>1. /\ work[c] = "catch" /\ UNCHANGED <<done, errors>> /\ firstError' = KeptError(Element(c))
          /\ work'[c] # "catch"
      BY <1>t, <2>4 DEF HandleError, TypeInv
    <3>2. Element(c) \in errors /\ Element(c) # NoError
      BY <1>t, <3>1, ElementFacts DEF ErrorInv
    <3>3. firstError' \in errors /\ firstError' # NoError
      BY <1>t, <3>1, <3>2 DEF KeptError, ErrorInv
    <3> QED BY <1>t, <2>1, <3>1, <3>3 DEF ErrorInv
  <2>5. CASE Pop(c) \/ PopReturns(c) \/ CoroEnds(c)
    <3>1. work[c] # "catch" /\ work'[c] # "catch" /\ UNCHANGED <<done, errors, firstError>>
      BY <1>t, <2>5 DEF Pop, PopReturns, CoroEnds, TypeInv
    <3> QED BY <1>t, <2>1, <3>1 DEF ErrorInv
  <2>6. CASE CoroNotifies(c)
    <3>1. received' = received /\ UNCHANGED <<args, coroVars>>
      BY <2>6 DEF CoroNotifies, Chan!Notify
    <3> QED BY <1>1, <3>1
  <2> QED BY <1>4, <2>2, <2>3, <2>4, <2>5, <2>6 DEF CoroStep
<1> QED BY <1>2, <1>3, <1>4, CallerCases DEF Next

-----------------------------------------------------------------------------
(* Random-access ranges.                                                   *)

\* The parts are of the right number and size.
LEMMA SplitStep ==
    ASSUME IInv, Next, kind = "random"
    PROVE  SplitInv'
<1>t. /\ TypeInv /\ PhaseInv /\ SplitInv
      /\ end \in Nat /\ remaining \in Nat /\ size \in Nat /\ coroCnt \in Nat /\ created \in 0..coroCnt
  BY BoundsAssumption DEF IInv, TypeInv, RandomInv
<1>1. CASE SplitRange
  <2>p. PICK cnt : cnt = IF maxParallelity < size THEN maxParallelity ELSE size
    OBVIOUS
  <2>1. cnt \in Nat
    BY <1>t, <2>p DEF TypeInv
  <2>2. CASE cnt = 0
    BY <1>1, <2>p, <2>2 DEF SplitRange, SplitInv
  <2>3. CASE cnt # 0
    <3>1. /\ coroCnt' = cnt /\ remaining' = size % cnt /\ created' = created /\ end' = end
          /\ size' = size
      BY <1>1, <2>p, <2>3 DEF SplitRange, args
    <3>2. created = 0 /\ end = 0
      BY <1>1, <1>t DEF SplitRange, PhaseInv
    <3>3. PICK q \in Nat, r \in 0..(cnt - 1) : q = size \div cnt /\ r = size % cnt /\ size = cnt * q + r
      BY <1>t, <2>1, <2>3, Division
    <3>4. PICK p \in Nat : p = cnt * q
      BY <2>1, Products
    <3>5. cnt - 0 = cnt
      BY <2>1
    <3>6. (coroCnt' - created') * (size' \div coroCnt') = p
      BY <3>1, <3>2, <3>3, <3>4, <3>5
    <3>7. r <= cnt - 0 /\ 0 + p + r = size /\ cnt > 0
      BY <2>1, <3>3, <3>4
    <3> QED BY <3>1, <3>2, <3>3, <3>6, <3>7 DEF SplitInv
  <2> QED BY <2>2, <2>3
<1>2. CASE CreateForPart
  <2>1. fe = "create" /\ created < coroCnt /\ coroCnt \in Nat \ {0} /\ created \in Nat
    BY <1>2, <1>t DEF CreateForPart
  <2>2. PICK q \in Nat : q = size \div coroCnt
    BY <1>t, <2>1, Division
  <2>3. PICK n \in Nat : n = coroCnt - (created + 1)
    BY <2>1
  <2>4. coroCnt - created = n + 1
    BY <2>1, <2>3
  <2>5. PICK p \in Nat : p = n * q /\ (n + 1) * q = p + q
    BY Products
  <2>6. end + (p + q) + remaining = size /\ remaining <= n + 1
    BY <1>t, <2>1, <2>2, <2>4, <2>5 DEF SplitInv
  <2>7. PICK o \in {0, 1} : o = OneMore(remaining) /\ (remaining > 0 => o = 1) /\ (remaining = 0 => o = 0)
    BY <1>t DEF OneMore
  <2>8. /\ end' = end + q + o /\ remaining' = remaining - o /\ created' = created + 1
        /\ UNCHANGED <<fe, size, coroCnt>>
    BY <1>2, <2>2, <2>7 DEF CreateForPart, args
  <2>9. /\ remaining - o <= n
        /\ (end + q + o) + p + (remaining - o) = size
    BY <1>t, <2>6, <2>7
  <2>10. (coroCnt' - created') * (size' \div coroCnt') = p
    BY <2>2, <2>3, <2>5, <2>8
  <2>11. coroCnt' - created' = n /\ coroCnt' > 0
    BY <2>1, <2>3, <2>8
  <2> QED BY <2>8, <2>9, <2>10, <2>11 DEF SplitInv
<1>3. CASE ~SplitRange /\ ~CreateForPart
  <2>1. UNCHANGED <<size, loopVars>>
    <3>1. ASSUME NEW c \in Coros, CoroStep(c)
          PROVE  UNCHANGED <<size, loopVars>>
      BY <1>t, <3>1, CoroCases DEF args
    <3> QED BY <1>3, <3>1 DEF Next, CallerStep, MakeChannel, CreateReceiver, AllCreated, PushNext,
          RangeEnds, RangeThrows, PushReturns, CloseChannel, CallerNotifies, JoinAll, DestroyCoros, args
  <2>2. fe' \notin {"start", "dividedByZero"} => fe \notin {"start", "dividedByZero"}
    <3>1. ASSUME NEW c \in Coros, CoroStep(c)
          PROVE  fe' = fe
      BY <1>t, <3>1, CoroCases
    <3> QED BY <1>3, <3>1 DEF Next, CallerStep, MakeChannel, CreateReceiver, AllCreated, PushNext,
          RangeEnds, RangeThrows, PushReturns, CloseChannel, CallerNotifies, JoinAll, DestroyCoros
  <2> QED BY <1>t, <2>1, <2>2 DEF SplitInv, loopVars
<1> QED BY <1>1, <1>2, <1>3

\* What is left of the parts was not executed, and everything else was.
LEMMA PartsStep ==
    ASSUME IInv, Next, kind = "random"
    PROVE  PartsInv'
<1>t. /\ TypeInv /\ PhaseInv /\ PartsInv /\ ErrorInv /\ ChannelInv
      /\ end \in Nat /\ created \in Nat /\ size \in Nat
      /\ \A c \in Coros : itr[c] \in Nat /\ last[c] \in Nat /\ c \in Nat
      /\ \A c \in 1..created : c \in Coros
  BY BoundsAssumption, Users DEF IInv, TypeInv, RandomInv, Coros
<1>d. \A e \in done : e \in Nat
  BY <1>t DEF ErrorInv
<1>e. firstError # NoError => firstError' # NoError
  BY ErrorStays
<1>1. CASE UNCHANGED <<itr, last, done, created, end, work>>
  BY <1>1, <1>e, <1>t DEF PartsInv
<1>2. CASE CreateForPart
  <2>c. PICK c : c = created + 1
    OBVIOUS
  <2>1. /\ c \in Coros /\ created' = c /\ UNCHANGED <<firstError, done>>
        /\ \A d \in 1..created : d # c /\ work'[d] = work[d] /\ itr'[d] = itr[d] /\ last'[d] = last[d]
    BY <1>2, <1>t, <2>c, Creation
  <2>2. PICK k \in Nat : k = size \div coroCnt + OneMore(remaining)
    <3>1. size \div coroCnt \in Nat
      BY <1>2, <1>t, NextCoro DEF CreateForPart
    <3> QED BY <1>t, <3>1 DEF OneMore
  <2>3. end' = end + k
    <3>1. end' = end + size \div coroCnt + OneMore(remaining)
      BY <1>2 DEF CreateForPart
    <3>2. size \div coroCnt \in Nat /\ OneMore(remaining) \in Nat
      BY <1>2, <1>t, NextCoro DEF CreateForPart, OneMore
    <3> QED BY <1>t, <2>2, <3>1, <3>2
  <2>4. /\ itr'[c] = end /\ last'[c] = end'
        /\ work'[c] = IF end = end' THEN "leave" ELSE "func"
    BY <1>2, <1>t, <2>1, <2>c DEF CreateForPart, TypeInv
  <2>5. \A d \in 1..created' : d \in 1..created \/ d = c
    BY <1>t, <2>1, <2>c
  <2>6. \A d \in 1..created' : itr'[d] <= last'[d] /\ last'[d] <= end'
    BY <1>t, <2>1, <2>2, <2>3, <2>4, <2>5 DEF PartsInv
  <2>7. \A d \in 1..created' : work'[d] \in {"func", "catch"} => itr'[d] < last'[d]
    BY <1>t, <2>1, <2>2, <2>3, <2>4, <2>5 DEF PartsInv
  <2>8. \A d1, d2 \in 1..created' : d1 < d2 => last'[d1] <= itr'[d2]
    <3> SUFFICES ASSUME NEW d1 \in 1..created', NEW d2 \in 1..created', d1 < d2
                 PROVE  last'[d1] <= itr'[d2]
      OBVIOUS
    <3>1. d1 \in 1..created
      BY <1>t, <2>1, <2>c
    <3>2. CASE d2 = c
      BY <1>t, <2>1, <2>4, <3>1, <3>2 DEF PartsInv
    <3>3. CASE d2 \in 1..created
      BY <1>t, <2>1, <3>1, <3>3 DEF PartsInv
    <3> QED BY <2>5, <3>2, <3>3
  <2>9. \A e \in done' : e <= end'
    BY <1>d, <1>t, <2>1, <2>2, <2>3 DEF PartsInv
  <2>10. \A d \in 1..created' : work'[d] = "func" => \A e \in (itr'[d] + 1)..last'[d] : e \notin done'
    <3>1. \A e \in (end + 1)..end' : e \notin done
      BY <1>d, <1>t, <2>2, <2>3 DEF PartsInv
    <3> QED BY <1>t, <2>1, <2>4, <2>5, <3>1 DEF PartsInv
  <2>11. \A e \in 1..end' : e \in done' \/ \E d \in 1..created' : e \in (itr'[d] + 1)..last'[d]
    <3> SUFFICES ASSUME NEW e \in 1..end', e \notin done'
                 PROVE  \E d \in 1..created' : e \in (itr'[d] + 1)..last'[d]
      OBVIOUS
    <3>1. CASE e \in 1..end
      <4>1. PICK d \in 1..created : e \in (itr[d] + 1)..last[d]
        BY <1>t, <2>1, <3>1 DEF PartsInv
      <4>2. d \in 1..created'
        BY <1>t, <2>1, <2>c
      <4> QED BY <2>1, <4>1, <4>2
    <3>2. CASE e \notin 1..end
      <4>1. e \in (end + 1)..end'
        BY <1>t, <2>2, <2>3, <3>2
      <4>2. c \in 1..created'
        BY <1>t, <2>1, <2>c
      <4> QED BY <2>4, <4>1, <4>2
    <3> QED BY <3>1, <3>2
  <2>12. \A d \in 1..created' : work'[d] \in {"leave", "done"} => firstError' # NoError \/ itr'[d] = last'[d]
    BY <1>t, <2>1, <2>2, <2>3, <2>4, <2>5 DEF PartsInv
  <2> QED BY <2>6, <2>7, <2>8, <2>9, <2>10, <2>11, <2>12 DEF PartsInv
<1>3. ASSUME NEW c \in Coros, CoroStep(c)
      PROVE  PartsInv'
  <2>1. /\ created' = created /\ end' = end /\ last' = last
        /\ \A d \in Coros : d # c => work'[d] = work[d] /\ itr'[d] = itr[d]
    BY <1>3, <1>t, Others, CoroCases DEF loopVars
  <2>2. CASE FuncReturns(c) \/ FuncThrows(c)
    <3>1. /\ work[c] = "func" /\ done' = done \cup {itr[c] + 1} /\ firstError' = firstError
          /\ FuncReturns(c) => itr'[c] = itr[c] + 1 /\ work'[c] = (IF itr[c] + 1 = last[c] THEN "leave" ELSE "func")
          /\ FuncThrows(c) => itr'[c] = itr[c] /\ work'[c] = "catch"
      BY <1>t, <2>2 DEF FuncReturns, FuncThrows, Element, TypeInv, AfterThrow
    <3>2. c \in 1..created
      BY <1>t, <3>1 DEF PhaseInv, Coros
    <3>3. itr[c] < last[c] /\ last[c] <= end
      BY <1>t, <3>1, <3>2 DEF PartsInv
    <3>4. /\ \A d \in 1..created : itr'[d] <= last[d] /\ last[d] <= end /\ itr'[d] \in Nat /\ itr[d] <= itr'[d]
          /\ \A d \in 1..created : work'[d] \in {"func", "catch"} => itr'[d] < last[d]
      BY <1>t, <2>1, <2>2, <3>1, <3>3 DEF PartsInv
    <3>5. \A d1, d2 \in 1..created : d1 < d2 => last[d1] <= itr'[d2]
      <4> SUFFICES ASSUME NEW d1 \in 1..created, NEW d2 \in 1..created, d1 < d2
                   PROVE  last[d1] <= itr'[d2]
        OBVIOUS
      <4>1. last[d1] <= itr[d2] /\ itr[d2] <= itr'[d2] /\ last[d1] \in Nat /\ itr[d2] \in Nat /\ itr'[d2] \in Nat
        BY <1>t, <3>4 DEF PartsInv
      <4> QED BY <4>1
    <3>6. \A e \in done' : e <= end
      BY <1>t, <3>1, <3>3 DEF PartsInv
    <3>7. \A d \in 1..created : work'[d] = "func" => \A e \in (itr'[d] + 1)..last[d] : e \notin done'
      <4> SUFFICES ASSUME NEW d \in 1..created, work'[d] = "func", NEW e \in (itr'[d] + 1)..last[d]
                   PROVE  e \notin done /\ e # itr[c] + 1
        BY <3>1
      <4>1. CASE d = c
        BY <1>t, <2>2, <3>1, <3>2, <4>1 DEF PartsInv
      <4>2. CASE d # c
        <5>1. work[d] = "func" /\ itr'[d] = itr[d]
          BY <1>t, <2>1, <4>2
        <5>2. e \notin done
          BY <1>t, <5>1 DEF PartsInv
        <5>3. d < c => last[d] <= itr[c]
          BY <1>t, <3>2 DEF PartsInv
        <5>4. c < d => last[c] <= itr[d]
          BY <1>t, <3>2 DEF PartsInv
        <5>5. d < c \/ c < d
          BY <1>t, <4>2
        <5> QED BY <1>t, <3>3, <5>1, <5>2, <5>3, <5>4, <5>5
      <4> QED BY <4>1, <4>2
    <3>8. \A e \in 1..end : e \in done' \/ \E d \in 1..created : e \in (itr'[d] + 1)..last[d]
      <4> SUFFICES ASSUME NEW e \in 1..end, e \notin done, e # itr[c] + 1
                   PROVE  \E d \in 1..created : e \in (itr'[d] + 1)..last[d]
        BY <3>1
      <4>1. PICK d \in 1..created : e \in (itr[d] + 1)..last[d]
        BY <1>t DEF PartsInv
      <4>2. e \in (itr'[d] + 1)..last[d]
        BY <1>t, <2>1, <2>2, <3>1, <4>1
      <4> QED BY <4>1, <4>2
    <3>9. \A d \in 1..created : work'[d] \in {"leave", "done"} => firstError' # NoError \/ itr'[d] = last[d]
      BY <1>t, <2>1, <2>2, <3>1 DEF PartsInv
    <3> QED BY <2>1, <3>4, <3>5, <3>6, <3>7, <3>8, <3>9 DEF PartsInv
  <2>3. CASE HandleError(c) \/ CoroEnds(c)
    <3>1. /\ work[c] \in {"catch", "leave"} /\ work'[c] \in {"leave", "done"} /\ done' = done /\ itr' = itr
          /\ work[c] = "catch" => HandleError(c)
      BY <1>t, <2>3 DEF HandleError, CoroEnds, TypeInv
    <3>2. work[c] = "catch" => firstError' # NoError
      <4> SUFFICES ASSUME work[c] = "catch" PROVE firstError' # NoError
        OBVIOUS
      <4>1. Element(c) # NoError
        BY ElementFacts
      <4> QED BY <3>1, <4>1 DEF HandleError, KeptError
    <3>3. \A d \in 1..created : work'[d] \in {"leave", "done"} => firstError' # NoError \/ itr[d] = last[d]
      BY <1>e, <1>t, <2>1, <3>1, <3>2 DEF PartsInv
    <3>4. \A d \in 1..created : work'[d] \in {"func", "catch"} => work[d] = work'[d]
      BY <1>t, <2>1, <3>1
    <3> QED BY <1>t, <2>1, <3>1, <3>3, <3>4 DEF PartsInv
  <2>4. CASE Pop(c) \/ PopReturns(c)
    BY <1>t, <2>4 DEF Pop, PopReturns, PhaseInv
  <2>5. CASE CoroNotifies(c)
    BY <1>1, <2>1, <2>5 DEF CoroNotifies, coroVars
  <2> QED BY <1>3, <2>2, <2>3, <2>4, <2>5 DEF CoroStep
<1>4. CASE CallerStep /\ ~CreateForPart
  <2>1. UNCHANGED <<itr, last, done, work>>
    BY <1>4, CallerCases DEF coroVars, CreateReceiver
  <2>2. UNCHANGED <<created, end>>
    BY <1>4 DEF CallerStep, SplitRange, MakeChannel, CreateReceiver, AllCreated, PushNext,
       RangeEnds, RangeThrows, PushReturns, CloseChannel, CallerNotifies, JoinAll, DestroyCoros, loopVars
  <2> QED BY <1>1, <2>1, <2>2
<1> QED BY <1>2, <1>3, <1>4 DEF Next

\* What is left of a random-access range, after every step.
LEMMA RandomStep ==
    ASSUME IInv, Next
    PROVE  RandomInv'
<1>1. kind' = kind
  <2>1. ASSUME NEW c \in Coros, CoroStep(c)
        PROVE  kind' = kind
    BY <2>1, CoroCases DEF IInv, args
  <2>2. CASE CallerStep
    BY <2>2, CallerCases, Creation DEF args
  <2> QED BY <2>1, <2>2 DEF Next
<1> QED BY <1>1, SplitStep, PartsStep DEF RandomInv

-----------------------------------------------------------------------------
(* Input ranges.                                                           *)

\* What the operations of the channel do to what forEach() sees of it.
LEMMA CallerOperations ==
    ASSUME ChannelInv
    PROVE  /\ Chan!Push(Caller) =>
                /\ pc[Caller] = "idle" /\ pc'[Caller] = "await"
                /\ sent'[Caller] = sent[Caller] + 1 /\ received' = received
                /\ mReceiverClosed => mReadyData' = mReadyData
           /\ Chan!PushReturn(Caller) =>
                /\ pc[Caller] = "await" /\ pc'[Caller] # "left"
                /\ self[Caller] \in {<<TRUE>>, <<FALSE>>}
                /\ pc'[Caller] = IF self[Caller] = <<TRUE>> THEN "idle" ELSE "stopped"
                /\ UNCHANGED <<mReadyData, sent, received>>
           /\ Chan!SenderLeaves(Caller) =>
                UNCHANGED <<mReadyData, sent, accepted, received>>
           /\ Chan!Push(Caller) \/ Chan!PushReturn(Caller) \/ Chan!SenderLeaves(Caller) =>
                \A r \in Coros \cup {Own} : pc'[r] = pc[r]
<1>1. /\ pc \in [Own..MaxPar -> {"idle", "await", "stopped", "left"}]
      /\ sent \in [{Caller} -> 0..MaxSize]
      /\ self[Caller] \in {<<>>, <<TRUE>>, <<FALSE>>}
      /\ mReceiverClosed => mWaitingReceiver = <<>>
  BY ChannelFacts
<1>2. Caller \in Own..MaxPar /\ \A r \in Coros \cup {Own} : r \in Own..MaxPar /\ r # Caller
  BY Users
<1>3. ASSUME Chan!Push(Caller)
      PROVE  /\ pc[Caller] = "idle" /\ pc'[Caller] = "await"
             /\ sent'[Caller] = sent[Caller] + 1 /\ received' = received
             /\ mReceiverClosed => mReadyData' = mReadyData
             /\ \A r \in Coros \cup {Own} : pc'[r] = pc[r]
  <2>1. /\ pc[Caller] = "idle" /\ pc' = [pc EXCEPT ![Caller] = "await"]
        /\ sent' = [sent EXCEPT ![Caller] = @ + 1] /\ received' = received
    BY <1>3 DEF Chan!Push, Chan!Proceed
  <2>2. mReceiverClosed => mReadyData' = mReadyData
    BY <1>1, <1>3 DEF Chan!Push, Chan!HandsOver
  <2> QED BY <1>1, <1>2, <2>1, <2>2
<1>4. ASSUME Chan!PushReturn(Caller)
      PROVE  /\ pc[Caller] = "await" /\ pc'[Caller] # "left"
             /\ self[Caller] \in {<<TRUE>>, <<FALSE>>}
             /\ pc'[Caller] = IF self[Caller] = <<TRUE>> THEN "idle" ELSE "stopped"
             /\ UNCHANGED <<mReadyData, sent, received>>
             /\ \A r \in Coros \cup {Own} : pc'[r] = pc[r]
  <2>1. /\ pc[Caller] = "await" /\ self[Caller] \in {<<TRUE>>, <<FALSE>>}
        /\ UNCHANGED <<mReadyData, sent, received>>
        /\ pc' = [pc EXCEPT ![Caller] = IF self[Caller][1] THEN "idle" ELSE "stopped"]
    BY <1>1, <1>4 DEF Chan!PushReturn, Chan!channelVars
  <2>2. /\ self[Caller] = <<TRUE>> => self[Caller][1]
        /\ self[Caller] = <<FALSE>> => ~self[Caller][1]
        /\ <<TRUE>> # <<FALSE>>
    <3>1. ASSUME self[Caller] = <<TRUE>> PROVE self[Caller][1]
      BY <3>1
    <3>2. ASSUME self[Caller] = <<FALSE>> PROVE ~self[Caller][1]
      BY <3>2
    <3>3. <<TRUE>> # <<FALSE>>
      OBVIOUS
    <3> QED BY <3>1, <3>2, <3>3
  <2> QED BY <1>1, <1>2, <2>1, <2>2
<1>5. ASSUME Chan!SenderLeaves(Caller)
      PROVE  /\ UNCHANGED <<mReadyData, sent, accepted, received>>
             /\ \A r \in Coros \cup {Own} : pc'[r] = pc[r]
  BY <1>1, <1>2, <1>5 DEF Chan!SenderLeaves, Chan!Leave
<1> QED BY <1>3, <1>4, <1>5

\* The same for the operations of the coroutines, and of forEach() when it lets
\* go of its handle of the receiver.
LEMMA CoroOperations ==
    ASSUME ChannelInv, NEW r \in Coros \cup {Own}
    PROVE  /\ Chan!Pop(r) =>
                /\ pc'[r] = "await" /\ pc[r] = "idle" /\ received' = received
                /\ mReadyData = <<>> => mReadyData' = <<>>
           /\ Chan!PopReturn(r) =>
                /\ pc[r] = "await" /\ pc'[r] # "left" /\ mReadyData' = mReadyData
                /\ \/ self[r] = <<Chan!NullOpt>> /\ received' = received
                   \/ \E x \in {Caller} \X (1..MaxSize) :
                        /\ self[r] = <<<<x>>>> /\ self[r][1] # Chan!NullOpt
                        /\ received' = [received EXCEPT ![r] = Append(@, x)]
           /\ Chan!ReceiverLeaves(r) =>
                pc'[r] = "left" /\ UNCHANGED <<mReadyData, received>>
           /\ Chan!Pop(r) \/ Chan!PopReturn(r) \/ Chan!ReceiverLeaves(r) =>
                /\ UNCHANGED <<sent, accepted>>
                /\ \A b \in Own..MaxPar : b # r => pc'[b] = pc[b]
<1>1. pc \in [Own..MaxPar -> {"idle", "await", "stopped", "left"}] /\ r \in Own..MaxPar
  BY ChannelFacts, Users
<1>2. ASSUME Chan!Pop(r)
      PROVE  /\ pc'[r] = "await" /\ pc[r] = "idle" /\ received' = received
             /\ mReadyData = <<>> => mReadyData' = <<>>
             /\ UNCHANGED <<sent, accepted>>
             /\ \A b \in Own..MaxPar : b # r => pc'[b] = pc[b]
  <2>1. /\ pc[r] = "idle" /\ pc' = [pc EXCEPT ![r] = "await"]
        /\ UNCHANGED <<sent, accepted, received>>
    BY <1>2 DEF Chan!Pop, Chan!Proceed
  <2>2. mReadyData = <<>> => mReadyData' = <<>>
    BY <1>2 DEF Chan!Pop
  <2> QED BY <1>1, <2>1, <2>2
<1>3. ASSUME Chan!PopReturn(r)
      PROVE  /\ pc[r] = "await" /\ pc'[r] # "left" /\ mReadyData' = mReadyData
             /\ \/ self[r] = <<Chan!NullOpt>> /\ received' = received
                \/ \E x \in {Caller} \X (1..MaxSize) :
                     /\ self[r] = <<<<x>>>> /\ self[r][1] # Chan!NullOpt
                     /\ received' = [received EXCEPT ![r] = Append(@, x)]
             /\ UNCHANGED <<sent, accepted>>
             /\ \A b \in Own..MaxPar : b # r => pc'[b] = pc[b]
  <2>1. CP!PopReturn(r)
    BY <1>3, Operations
  <2>2. CP!PopStops(r) \/ \E x \in CP!Items : CP!PopReturns(r, x)
    BY <2>1, ChannelAssumptions, CP!PopReturnCases DEF ChannelInv, CP!IInv, CP!CoreInv
  <2>3. \/ self[r] = <<Chan!NullOpt>> /\ received' = received
        \/ \E x \in {Caller} \X (1..MaxSize) :
             /\ self[r] = <<<<x>>>> /\ self[r][1] # Chan!NullOpt
             /\ received' = [received EXCEPT ![r] = Append(@, x)]
    <3>1. CASE CP!PopStops(r)
      BY <3>1 DEF CP!PopStops, CP!NullOpt, Chan!NullOpt
    <3>2. ASSUME NEW x \in CP!Items, CP!PopReturns(r, x)
          PROVE  \E y \in {Caller} \X (1..MaxSize) :
                   /\ self[r] = <<<<y>>>> /\ self[r][1] # Chan!NullOpt
                   /\ received' = [received EXCEPT ![r] = Append(@, y)]
      <4>1. /\ self[r] = <<<<x>>>> /\ x \in {Caller} \X (1..MaxSize)
            /\ received' = [received EXCEPT ![r] = Append(@, x)]
        BY <3>2 DEF CP!PopReturns, CP!Some, CP!Items
      <4>2. self[r][1] # Chan!NullOpt
        BY <4>1 DEF Chan!NullOpt
      <4> QED BY <4>1, <4>2
    <3> QED BY <2>2, <3>1, <3>2
  <2>4. /\ pc[r] = "await" /\ UNCHANGED <<mReadyData, sent, accepted>>
        /\ \E p \in {"idle", "stopped"} : pc' = [pc EXCEPT ![r] = p]
    BY <1>3 DEF Chan!PopReturn, Chan!channelVars
  <2> QED BY <1>1, <2>3, <2>4
<1>4. ASSUME Chan!ReceiverLeaves(r)
      PROVE  /\ pc'[r] = "left" /\ UNCHANGED <<mReadyData, received, sent, accepted>>
             /\ \A b \in Own..MaxPar : b # r => pc'[b] = pc[b]
  BY <1>1, <1>4 DEF Chan!ReceiverLeaves, Chan!Leave
<1> QED BY <1>2, <1>3, <1>4

\* The kind, the size and maxParallelity are arguments.
LEMMA ArgsKept ==
    ASSUME IInv, Next
    PROVE  UNCHANGED <<kind, maxParallelity, size>>
<1>1. ASSUME NEW c \in Coros, CoroStep(c)
      PROVE  UNCHANGED args
  BY <1>1, CoroCases DEF IInv
<1>2. CASE CallerStep
  BY <1>2, CallerCases, Creation DEF args
<1> QED BY <1>1, <1>2 DEF Next, args

\* Who has left the channel, and why.
LEMMA HandleStep ==
    ASSUME IInv, Next, kind = "input"
    PROVE  HandleInv'
<1>t. /\ TypeInv /\ PhaseInv /\ ErrorInv /\ ChannelInv /\ HandleInv
      /\ UNCHANGED <<kind, maxParallelity, size>>
  BY ArgsKept DEF IInv, InputInv
<1>u. /\ \A c \in Coros : c \in Own..MaxPar /\ c # Caller /\ c # Own
      /\ Caller \in Own..MaxPar /\ Own \in Own..MaxPar /\ Own # Caller
      /\ \A c \in 1..maxParallelity : c \in Coros
  BY <1>t, Users, BoundsAssumption DEF TypeInv, Coros
<1>p. /\ pc \in [Own..MaxPar -> {"idle", "await", "stopped", "left"}]
      /\ received \in [Coros \cup {Own} -> Seq({Caller} \X (1..MaxSize))]
  BY <1>t, ChannelFacts
<1>e. (firstError # NoError => firstError' # NoError) /\ (Drained => Drained')
  BY ErrorStays, ChannelStep
<1>1. ASSUME UNCHANGED <<work, received>>, pc'[Own] = pc[Own], \A c \in Coros : pc'[c] = pc[c],
             fe' \notin {"start", "assertCnt", "create"} => fe \notin {"start", "assertCnt", "create"},
             fe' \in {"start", "create", "range"} => pc'[Caller] = "idle",
             fe' = "push" => pc'[Caller] = "await",
             fe' \in {"close", "unwind"} => pc'[Caller] # "left"
      PROVE  HandleInv'
  BY <1>1, <1>e, <1>t, <1>u DEF HandleInv
<1>2. CASE MakeChannel \/ RangeEnds \/ RangeThrows \/ JoinAll \/ DestroyCoros
  <2>1. UNCHANGED <<work, received, pc>>
    BY <1>2 DEF MakeChannel, RangeEnds, RangeThrows, JoinAll, DestroyCoros, chanVars, coroVars
  <2>2. /\ fe' \notin {"start", "assertCnt", "create"} => fe \notin {"start", "assertCnt", "create"}
        /\ fe' \in {"start", "create", "range", "push", "close", "unwind"} =>
             /\ fe \in {"start", "create", "range"}
             /\ fe' \notin {"push"}
    BY <1>2 DEF MakeChannel, RangeEnds, RangeThrows, JoinAll, DestroyCoros, AfterRange
  <2>3. fe \in {"start", "create", "range"} => pc[Caller] = "idle"
    BY <1>t DEF HandleInv
  <2> QED BY <1>1, <2>1, <2>2, <2>3
<1>3. CASE CreateReceiver
  <2>1. /\ created + 1 \in Coros /\ work[created + 1] = "none" /\ work'[created + 1] = "pop"
        /\ \A d \in Coros : d # created + 1 => work'[d] = work[d]
        /\ UNCHANGED chanVars /\ fe' = fe
    BY <1>3, <1>t, Creation DEF CreateReceiver, TypeInv
  <2>2. \A c \in Coros : (work'[c] = "done" <=> work[c] = "done") /\ (work'[c] = "leave" <=> work[c] = "leave")
    BY <2>1
  <2>3. UNCHANGED <<pc, received>>
    BY <2>1 DEF chanVars
  <2> QED BY <1>e, <1>t, <1>u, <2>1, <2>2, <2>3 DEF HandleInv
<1>4. CASE AllCreated
  <2>1. Chan!ReceiverLeaves(Own) /\ fe' = "range" /\ fe = "create" /\ UNCHANGED coroVars
    BY <1>4 DEF AllCreated
  <2>2. pc'[Own] = "left" /\ received' = received /\ \A b \in Own..MaxPar : b # Own => pc'[b] = pc[b]
    BY <1>t, <2>1, CoroOperations
  <2> QED BY <1>e, <1>t, <1>u, <2>1, <2>2 DEF HandleInv, coroVars
<1>5. CASE PushNext
  <2>1. /\ fe = "range" /\ fe' = "push" /\ pc'[Caller] = "await" /\ UNCHANGED <<work, received>>
        /\ \A r \in Coros \cup {Own} : pc'[r] = pc[r]
    BY <1>5, <1>t, CallerOperations DEF PushNext, coroVars
  <2> QED BY <1>1, <2>1
<1>6. CASE PushReturns
  <2>1. /\ fe = "push" /\ UNCHANGED <<work, received>>
        /\ self[Caller] \in {<<TRUE>>, <<FALSE>>} /\ pc'[Caller] # "left"
        /\ pc'[Caller] = IF self[Caller] = <<TRUE>> THEN "idle" ELSE "stopped"
        /\ \A r \in Coros \cup {Own} : pc'[r] = pc[r]
    BY <1>6, <1>t, CallerOperations DEF PushReturns, coroVars
  <2>2. CASE self[Caller] = <<TRUE>>
    <3>1. self[Caller][1]
      BY <2>2
    <3>2. fe' = "range"
      BY <1>6, <3>1 DEF PushReturns
    <3> QED BY <1>1, <2>1, <2>2, <3>2
  <2>3. CASE self[Caller] = <<FALSE>>
    <3>1. ~self[Caller][1]
      BY <2>3
    <3>2. fe' \in {"close", "assertFirstError"}
      BY <1>6, <3>1 DEF PushReturns, AfterRange
    <3> QED BY <1>1, <2>1, <3>2
  <2> QED BY <2>1, <2>2, <2>3
<1>7. CASE CloseChannel
  <2>1. /\ fe \in {"close", "unwind"} /\ fe' \in {"join", "destroy"} /\ UNCHANGED <<work, received>>
        /\ \A r \in Coros \cup {Own} : pc'[r] = pc[r]
    BY <1>7, <1>t, CallerOperations DEF CloseChannel, coroVars
  <2> QED BY <1>1, <2>1
<1>8. ASSUME UNCHANGED <<pc, received, fe, work>>
      PROVE  HandleInv'
  BY <1>8, <1>e, <1>t, <1>u DEF HandleInv
<1>9. CASE CallerNotifies
  BY <1>8, <1>9 DEF CallerNotifies, coroVars, Chan!Notify
<1>10. ASSUME NEW c \in Coros, CoroStep(c)
       PROVE  HandleInv'
  <2>1. /\ \A d \in Coros : d # c => work'[d] = work[d]
        /\ fe' = fe
    BY <1>10, <1>t, Others, CoroCases
  <2>2. CASE Pop(c) \/ PopReturns(c)
    <3>1. /\ work[c] \in {"pop", "popping"} /\ work'[c] \in {"popping", "func", "leave"}
          /\ work'[c] = "leave" => PopReturns(c) /\ self[c][1] = Chan!NullOpt
      BY <1>t, <2>2 DEF Pop, PopReturns, TypeInv
    <3>2. /\ pc[c] # "left" /\ pc'[c] # "left"
          /\ \A b \in Own..MaxPar : b # c => pc'[b] = pc[b]
      BY <1>t, <2>2, CoroOperations DEF Pop, PopReturns
    <3>3. received'[Own] = received[Own]
      BY <1>p, <1>t, <1>u, <2>2, CoroOperations DEF Pop, PopReturns
    <3>4. work'[c] = "leave" => Drained'
      <4>1. PopReturns(c) /\ self[c][1] = Chan!NullOpt => self[c] = <<Chan!NullOpt>>
        BY <1>t, CoroOperations DEF PopReturns
      <4> QED BY <1>e, <1>t, <3>1, <4>1, ChannelFacts
    <3> QED BY <1>e, <1>t, <1>u, <2>1, <3>1, <3>2, <3>3, <3>4 DEF HandleInv
  <2>3. CASE FuncReturns(c) \/ FuncThrows(c)
    <3>1. work[c] = "func" /\ work'[c] \in {"pop", "catch"} /\ UNCHANGED chanVars
      BY <1>t, <2>3 DEF FuncReturns, FuncThrows, TypeInv, AfterThrow
    <3> QED BY <1>e, <1>t, <1>u, <2>1, <3>1 DEF HandleInv, chanVars
  <2>4. CASE HandleError(c)
    <3>1. work[c] = "catch" /\ work'[c] = "leave" /\ UNCHANGED chanVars /\ firstError' = KeptError(Element(c))
      BY <1>t, <2>4 DEF HandleError, TypeInv
    <3>2. firstError' # NoError
      BY <3>1, ElementFacts DEF KeptError
    <3> QED BY <1>e, <1>t, <1>u, <2>1, <3>1, <3>2 DEF HandleInv, chanVars
  <2>5. CASE CoroEnds(c)
    <3>1. work[c] = "leave" /\ work'[c] = "done" /\ Chan!ReceiverLeaves(c)
      BY <1>t, <2>5 DEF CoroEnds, TypeInv
    <3>2. pc'[c] = "left" /\ received' = received /\ \A b \in Own..MaxPar : b # c => pc'[b] = pc[b]
      BY <1>t, <3>1, CoroOperations
    <3> QED BY <1>e, <1>t, <1>u, <2>1, <3>1, <3>2 DEF HandleInv
  <2>6. CASE CoroNotifies(c)
    BY <1>8, <2>1, <2>6 DEF CoroNotifies, coroVars, Chan!Notify
  <2> QED BY <1>10, <2>2, <2>3, <2>4, <2>5, <2>6 DEF CoroStep
<1>11. ~SplitRange /\ ~CreateForPart
  BY DEF SplitRange, CreateForPart
<1> QED BY <1>2, <1>3, <1>4, <1>5, <1>6, <1>7, <1>9, <1>10, <1>11 DEF Next, CallerStep

\* Every element has been pushed when the loop over the range has ended.
LEMMA RangeStep ==
    ASSUME IInv, Next, kind = "input"
    PROVE  RangeInv'
<1>t. /\ TypeInv /\ PhaseInv /\ ChannelInv /\ HandleInv /\ RangeInv /\ size \in Nat
      /\ UNCHANGED <<kind, maxParallelity, size>>
      /\ sent[Caller] \in Nat
  BY ArgsKept, ChannelFacts, BoundsAssumption DEF IInv, InputInv, TypeInv
<1>e. firstError' = NoError => firstError = NoError
  BY ErrorStays
<1>1. ASSUME sent' = sent, accepted' = accepted, mReadyData = <<>> => mReadyData' = <<>>,
             fe' \in {"close", "join"} => fe \in {"close", "join"}
      PROVE  RangeInv'
  BY <1>1, <1>e, <1>t DEF RangeInv
<1>2. CASE PushNext
  <2>1. /\ fe' = "push" /\ fe = "range" /\ sent[Caller] < size /\ sent'[Caller] = sent[Caller] + 1
        /\ mReceiverClosed => mReadyData' = mReadyData
    BY <1>2, <1>t, CallerOperations DEF PushNext
  <2>2. maxParallelity = 0 => mReceiverClosed
    <3> SUFFICES ASSUME maxParallelity = 0 PROVE mReceiverClosed
      OBVIOUS
    <3>1. \A r \in Coros \cup {Own} : pc[r] = "left"
      BY <1>t, <2>1, Users DEF HandleInv, Coros
    <3> QED BY <1>t, <3>1, ChannelFacts
  <2> QED BY <1>t, <2>1, <2>2 DEF RangeInv
<1>3. CASE RangeEnds
  <2>1. fe = "range" /\ sent[Caller] = size /\ UNCHANGED <<sent, accepted, mReadyData>>
    BY <1>3 DEF RangeEnds, chanVars
  <2>2. accepted[Caller] = sent[Caller]
    BY <1>t, <2>1, ChannelFacts DEF HandleInv
  <2> QED BY <1>t, <2>1, <2>2 DEF RangeInv
<1>4. CASE PushReturns
  <2>1. /\ UNCHANGED <<mReadyData, sent>> /\ firstError' = firstError
        /\ fe' = "close" => firstError # NoError
        /\ fe' # "join"
    BY <1>4, <1>t, CallerOperations DEF PushReturns, coroVars, AfterRange
  <2> QED BY <1>t, <2>1 DEF RangeInv
<1>5. CASE CloseChannel
  <2>1. /\ UNCHANGED <<mReadyData, sent, accepted>> /\ firstError' = firstError
        /\ fe' = "join" => fe = "close"
        /\ fe' # "close"
    BY <1>5, <1>t, CallerOperations DEF CloseChannel, coroVars
  <2> QED BY <1>1, <2>1
<1>6. CASE AllCreated
  <2>1. fe' = "range" /\ UNCHANGED <<mReadyData, sent, accepted>>
    BY <1>6, <1>t, CoroOperations DEF AllCreated
  <2> QED BY <1>1, <2>1
<1>7. CASE MakeChannel \/ CreateReceiver \/ RangeThrows \/ JoinAll \/ DestroyCoros
  <2>1. /\ UNCHANGED <<mReadyData, sent, accepted>>
        /\ fe' \in {"close", "join"} => fe \in {"close", "join"}
    BY <1>7 DEF MakeChannel, CreateReceiver, RangeThrows, JoinAll, DestroyCoros, chanVars
  <2> QED BY <1>1, <2>1
<1>8. CASE CallerNotifies
  BY <1>1, <1>8 DEF CallerNotifies, Chan!Notify, Chan!channelVars
<1>9. ASSUME NEW c \in Coros, CoroStep(c)
      PROVE  RangeInv'
  <2>1. fe' = fe
    BY <1>9, <1>t, CoroCases
  <2>2. UNCHANGED <<sent, accepted>> /\ (mReadyData = <<>> => mReadyData' = <<>>)
    BY <1>9, <1>t, CoroOperations DEF CoroStep, Pop, PopReturns, FuncReturns, FuncThrows,
       HandleError, CoroEnds, CoroNotifies, chanVars, Chan!Notify, Chan!channelVars
  <2> QED BY <1>1, <2>1, <2>2
<1>10. ~SplitRange /\ ~CreateForPart
  BY DEF SplitRange, CreateForPart
<1> QED BY <1>2, <1>3, <1>4, <1>5, <1>6, <1>7, <1>8, <1>9, <1>10 DEF Next, CallerStep

\* The element an input range's coroutine is at came out of the channel for it.
LEMMA LastItem ==
    ASSUME ChannelInv, kind = "input", NEW r \in Coros, Len(received[r]) > 0
    PROVE  /\ Chan!Item(Caller, Element(r)) \in CP!Items
           /\ In(Chan!Item(Caller, Element(r)), received[r])
           /\ received[r][Len(received[r])][2] = Element(r)
<1>1. received[r] \in Seq({Caller} \X (1..MaxSize)) /\ Len(received[r]) \in Nat
  BY ChannelFacts, LenProperties
<1>2. PICK x : x = received[r][Len(received[r])]
  OBVIOUS
<1>3. x \in {Caller} \X (1..MaxSize) /\ In(x, received[r])
  BY <1>1, <1>2 DEF In
<1>4. Element(r) = x[2]
  BY <1>2 DEF Element
<1>5. x = <<Caller, x[2]>>
  BY <1>3
<1> QED BY <1>2, <1>3, <1>4, <1>5 DEF CP!Items, Chan!Item

\* No value came out of the channel for two coroutines.
LEMMA OneReceiver ==
    ASSUME ChannelInv, NEW x \in CP!Items, NEW r1 \in Coros, NEW r2 \in Coros,
           In(x, received[r1]), In(x, received[r2]) \/ self[r2] = <<<<x>>>>
    PROVE  r1 = r2 /\ self[r2] # <<<<x>>>>
<1>1. CP!OrderInv
  BY DEF ChannelInv, CP!IInv
<1>2. CP!Out(r1, x) /\ CP!Out(r2, x)
  BY DEF CP!Out, CP!OnItsWay, CP!Some, CP!In, In
<1>3. r1 = r2
  BY <1>1, <1>2 DEF CP!OrderInv
<1>4. ASSUME self[r2] = <<<<x>>>>
      PROVE  FALSE
  <2>1. CP!OnItsWay(r2, x) /\ CP!In(x, received[r2])
    BY <1>3, <1>4 DEF CP!OnItsWay, CP!Some, CP!In, In
  <2>2. CP!Before(x, x)
    BY <1>1, <2>1 DEF CP!OrderInv
  <2>3. ~(x[2] < x[2])
    BY DEF CP!Items
  <2> QED BY <2>2, <2>3 DEF CP!Before
<1> QED BY <1>3, <1>4

\* What came out of the channel was executed.
LEMMA ReceivedStep ==
    ASSUME IInv, Next, kind = "input"
    PROVE  ReceivedInv'
<1>t. /\ TypeInv /\ PhaseInv /\ ChannelInv /\ ReceivedInv
      /\ kind' = kind
      /\ received \in [Coros \cup {Own} -> Seq({Caller} \X (1..MaxSize))]
      /\ \A r \in Coros : Len(received[r]) \in Nat
  BY ArgsKept, ChannelFacts, LenProperties DEF IInv, InputInv
<1>1. ASSUME done' = done, \A r \in Coros : received'[r] = received[r],
             \A r \in Coros : work'[r] \in {"func", "catch"} => work[r] = work'[r],
             \A r \in Coros : work[r] = "func" => work'[r] = "func"
      PROVE  ReceivedInv'
  <2>1. \A r \in Coros : Element(r)' = Element(r)
    BY <1>1, <1>t DEF Element
  <2> QED BY <1>1, <1>t, <2>1 DEF ReceivedInv
<1>2. CASE CallerStep
  <2>1. \A r \in Coros : received'[r] = received[r]
    BY <1>2, <1>t, CallerOperations, CoroOperations
       DEF CallerStep, SplitRange, MakeChannel, CreateForPart, CreateReceiver, AllCreated, PushNext,
           RangeEnds, RangeThrows, PushReturns, CloseChannel, CallerNotifies, JoinAll, DestroyCoros,
           chanVars, Chan!Notify
  <2>2. CASE UNCHANGED <<args, coroVars>>
    BY <1>1, <2>1, <2>2 DEF coroVars
  <2>3. CASE CreateReceiver
    <3>1. /\ created + 1 \in Coros /\ work[created + 1] = "none" /\ work'[created + 1] = "pop"
          /\ \A d \in Coros : d # created + 1 => work'[d] = work[d]
          /\ done' = done
      BY <1>t, <2>3, Creation DEF CreateReceiver, TypeInv
    <3> QED BY <1>1, <2>1, <3>1
  <2>4. ~CreateForPart
    BY DEF CreateForPart
  <2> QED BY <1>2, <2>2, <2>3, <2>4, CallerCases
<1>3. ASSUME NEW c \in Coros, CoroStep(c)
      PROVE  ReceivedInv'
  <2>1. \A d \in Coros : d # c =>
          work'[d] = work[d] /\ received'[d] = received[d] /\ Element(d)' = Element(d)
    BY <1>3, <1>t, Others
  <2>2. CASE FuncReturns(c) \/ FuncThrows(c)
    <3>1. /\ work[c] = "func" /\ work'[c] \in {"pop", "catch"} /\ received' = received
          /\ done' = done \cup {Element(c)}
      BY <1>t, <2>2 DEF FuncReturns, FuncThrows, TypeInv, chanVars, AfterThrow
    <3>2. Len(received[c]) > 0
      BY <1>t, <3>1 DEF ReceivedInv
    <3>3. /\ Chan!Item(Caller, Element(c)) \in CP!Items
          /\ In(Chan!Item(Caller, Element(c)), received[c])
          /\ received[c][Len(received[c])][2] = Element(c)
      BY <1>t, <3>2, LastItem
    <3>4. \A e \in done' : \E r \in Coros : In(Chan!Item(Caller, e), received[r])
      BY <1>t, <3>1, <3>3 DEF ReceivedInv
    <3>5. ASSUME NEW r \in Coros, work'[r] = "func"
          PROVE  Element(r)' \notin done'
      <4>1. r # c
        BY <3>1, <3>5
      <4>2. work[r] = "func" /\ Element(r)' = Element(r) /\ Len(received[r]) > 0 /\ Element(r) \notin done
        BY <1>t, <2>1, <3>5, <4>1 DEF ReceivedInv
      <4>3. In(Chan!Item(Caller, Element(r)), received[r])
        BY <1>t, <4>2, LastItem
      <4>4. Element(r) # Element(c)
        <5> SUFFICES ASSUME Element(r) = Element(c) PROVE FALSE
          OBVIOUS
        <5>1. PICK x \in CP!Items : x = Chan!Item(Caller, Element(c))
          BY <3>3
        <5>2. In(x, received[r]) /\ In(x, received[c])
          BY <3>3, <4>3, <5>1
        <5> QED BY <1>t, <4>1, <5>2, OneReceiver
      <4> QED BY <3>1, <4>2, <4>4
    <3>6. \A r \in Coros : work'[r] \in {"func", "catch"} => Len(received[r]) > 0
      BY <1>t, <2>1, <3>2 DEF ReceivedInv
    <3>7. \A r \in Coros : \A i \in 1..Len(received[r]) :
            received[r][i][2] \in done' \/ (work'[r] = "func" /\ i = Len(received[r]))
      <4> SUFFICES ASSUME NEW r \in Coros, NEW i \in 1..Len(received[r]), received[r][i][2] \notin done'
                   PROVE  work'[r] = "func" /\ i = Len(received[r])
        OBVIOUS
      <4>1. work[r] = "func" /\ i = Len(received[r])
        BY <1>t, <3>1 DEF ReceivedInv
      <4>2. r # c
        BY <3>1, <3>3, <4>1
      <4> QED BY <2>1, <4>1, <4>2
    <3> QED BY <3>1, <3>4, <3>5, <3>6, <3>7 DEF ReceivedInv
  <2>3. CASE PopReturns(c)
    <3>1. /\ work[c] = "popping" /\ Chan!PopReturn(c) /\ done' = done
          /\ work'[c] = IF self[c][1] = Chan!NullOpt THEN "leave" ELSE "func"
      BY <1>t, <2>3 DEF PopReturns, TypeInv
    <3>2. CASE self[c] = <<Chan!NullOpt>> /\ received' = received
      <4>1. self[c][1] = Chan!NullOpt
        BY <3>2
      <4> QED BY <1>1, <2>1, <3>1, <3>2, <4>1
    <3>3. ASSUME NEW x \in {Caller} \X (1..MaxSize), self[c] = <<<<x>>>>, self[c][1] # Chan!NullOpt,
                 received' = [received EXCEPT ![c] = Append(@, x)]
          PROVE  ReceivedInv'
      <4>1. /\ received'[c] = Append(received[c], x) /\ received[c] \in Seq({Caller} \X (1..MaxSize))
            /\ work'[c] = "func"
        BY <1>t, <3>1, <3>3
      <4>2. /\ Len(received'[c]) = Len(received[c]) + 1 /\ received'[c][Len(received[c]) + 1] = x
            /\ \A i \in 1..Len(received[c]) : received'[c][i] = received[c][i]
        BY <4>1, AppendProperties
      <4>3. \A y : In(y, received[c]) => In(y, received'[c])
        BY <4>1, AppendDeque
      <4>4. Element(c)' = x[2]
        BY <1>t, <4>2 DEF Element
      <4>5. x[2] \notin done
        <5> SUFFICES ASSUME x[2] \in done PROVE FALSE
          OBVIOUS
        <5>1. PICK r \in Coros : In(Chan!Item(Caller, x[2]), received[r])
          BY <1>t DEF ReceivedInv
        <5>2. x = Chan!Item(Caller, x[2]) /\ x \in CP!Items
          BY <3>3 DEF Chan!Item, CP!Items
        <5>3. In(x, received[r])
          BY <5>1, <5>2
        <5> QED BY <1>t, <3>3, <5>2, <5>3, OneReceiver
      <4>6. \A e \in done : \E r \in Coros : In(Chan!Item(Caller, e), received'[r])
        BY <1>t, <2>1, <4>3 DEF ReceivedInv
      <4>7. \A r \in Coros : work'[r] = "func" => Element(r)' \notin done
        BY <1>t, <2>1, <4>4, <4>5 DEF ReceivedInv
      <4>8. \A r \in Coros : work'[r] \in {"func", "catch"} => Len(received'[r]) > 0
        BY <1>t, <2>1, <4>2 DEF ReceivedInv
      <4>9. \A r \in Coros : \A i \in 1..Len(received'[r]) :
              received'[r][i][2] \in done \/ (work'[r] = "func" /\ i = Len(received'[r]))
        <5> SUFFICES ASSUME NEW r \in Coros, NEW i \in 1..Len(received'[r]), received'[r][i][2] \notin done
                     PROVE  work'[r] = "func" /\ i = Len(received'[r])
          OBVIOUS
        <5>1. CASE r = c
          <6>1. i \in 1..Len(received[c]) => received[c][i][2] \in done
            BY <1>t, <3>1 DEF ReceivedInv
          <6>2. i \in 1..Len(received[c]) \/ i = Len(received[c]) + 1
            BY <1>t, <4>2, <5>1
          <6> QED BY <4>1, <4>2, <5>1, <6>1, <6>2
        <5>2. CASE r # c
          BY <1>t, <2>1, <5>2 DEF ReceivedInv
        <5> QED BY <5>1, <5>2
      <4> QED BY <3>1, <4>6, <4>7, <4>8, <4>9 DEF ReceivedInv
    <3> QED BY <1>t, <3>1, <3>2, <3>3, CoroOperations
  <2>4. CASE Pop(c) \/ HandleError(c) \/ CoroEnds(c)
    <3>1. /\ work[c] \in {"pop", "catch", "leave"} /\ work'[c] \in {"popping", "leave", "done"}
          /\ done' = done /\ received' = received
      BY <1>t, <2>4, CoroOperations DEF Pop, HandleError, CoroEnds, TypeInv, chanVars
    <3> QED BY <1>1, <2>1, <3>1
  <2>5. CASE CoroNotifies(c)
    BY <1>1, <2>5 DEF CoroNotifies, coroVars, Chan!Notify
  <2> QED BY <1>3, <2>2, <2>3, <2>4, <2>5 DEF CoroStep
<1> QED BY <1>2, <1>3 DEF Next

-----------------------------------------------------------------------------
(* The theorems.                                                           *)

\* The invariant holds initially.
LEMMA InitIInv ==
    ASSUME Init
    PROVE  IInv
<1>1. ChannelInv
  BY ChannelInit
<1>2. TypeInv
  BY KindsAssumption, BoundsAssumption DEF Init, TypeInv, FEs, Works
<1>3. PhaseInv
  BY Users DEF Init, PhaseInv
<1>4. ErrorInv
  BY DEF Init, ErrorInv
<1>5. RandomInv
  BY DEF Init, RandomInv, SplitInv, PartsInv
<1>6. HandleInv /\ RangeInv
  BY BoundsAssumption, Users DEF Init, HandleInv, RangeInv, Own, Caller, Coros
<1>7. ReceivedInv
  BY DEF Init, ReceivedInv
<1> QED BY <1>1, <1>2, <1>3, <1>4, <1>5, <1>6, <1>7 DEF IInv, InputInv

\* Every step keeps the invariant.
LEMMA StepIInv ==
    ASSUME IInv, [Next]_vars
    PROVE  IInv'
<1>1. CASE Next
  <2>1. InputInv'
    BY <1>1, ArgsKept, HandleStep, RangeStep, ReceivedStep DEF InputInv
  <2> QED BY <1>1, <2>1, ChannelStep, TypeStep, PhaseStep, ErrorStep, RandomStep DEF IInv
<1>2. CASE UNCHANGED vars
  <2> USE DEF vars, args, loopVars, coroVars
  <2>1. UNCHANGED CP!vars /\ UNCHANGED chanVars
    BY <1>2 DEF chanVars, CP!vars, CP!channelVars, ChanSize
  <2>2. ChannelInv'
    BY <2>1, ChannelKept DEF IInv
  <2>3. \A c : Element(c)' = Element(c)
    BY <1>2, <2>1 DEF chanVars, Element
  <2>4. TypeInv' /\ PhaseInv' /\ ErrorInv'
    BY <1>2, <2>1, <2>3 DEF chanVars, IInv, TypeInv, PhaseInv, ErrorInv
  <2>5. RandomInv'
    BY <1>2 DEF IInv, RandomInv, SplitInv, PartsInv
  <2>6. InputInv'
    BY <1>2, <2>1, <2>3 DEF chanVars, IInv, InputInv, HandleInv, RangeInv, ReceivedInv, Drained
  <2> QED BY <2>2, <2>4, <2>5, <2>6 DEF IInv
<1> QED BY <1>1, <1>2

\* The inductive invariant holds in every reachable state of forEach().
THEOREM Invariance == Spec => []IInv
<1>1. Init => IInv
  BY InitIInv
<1>2. IInv /\ [Next]_vars => IInv'
  BY StepIInv
<1> QED BY <1>1, <1>2, PTL DEF Spec

-----------------------------------------------------------------------------
(* A refused push().                                                       *)

\* A push() is refused only after an error: a coroutine that has ended left the
\* channel for an error, or because its end was reached, and forEach() has not
\* closed it yet.
LEMMA RefusedPush ==
    ASSUME IInv, fe = "push", self[Caller] = <<FALSE>>
    PROVE  firstError # NoError
<1>t. ChannelInv /\ TypeInv /\ PhaseInv
  BY DEF IInv
<1>1. kind = "input"
  BY <1>t DEF TypeInv, PhaseInv
<1>2. HandleInv
  BY <1>1 DEF IInv, InputInv
<1>3. \A r \in Coros : pc[r] = "left"
  BY <1>t, ChannelFacts
<1>4. ~mSenderClosed
  BY <1>2, <1>t, ChannelFacts DEF HandleInv
<1>5. maxParallelity \in Nat /\ maxParallelity > 0 /\ maxParallelity <= MaxPar
  BY <1>1, <1>t, BoundsAssumption DEF PhaseInv, TypeInv
<1>6. 1 \in 1..maxParallelity /\ 1 \in Coros
  BY <1>5, BoundsAssumption DEF Coros
<1>7. work[1] = "done"
  BY <1>2, <1>3, <1>6 DEF HandleInv
<1> QED BY <1>2, <1>4, <1>6, <1>7 DEF HandleInv, Drained

\* So the assertion after it does not fail.
LEMMA RefusalStep ==
    ASSUME IInv, Next
    PROVE  fe' # "assertFirstError"
<1>1. fe # "assertFirstError"
  BY DEF Next, Aborted
<1>2. ASSUME NEW c \in Coros, CoroStep(c)
      PROVE  fe' = fe
  BY <1>2, CoroCases DEF IInv
<1>3. ASSUME CallerStep, fe' = "assertFirstError"
      PROVE  PushReturns
  BY <1>1, <1>3 DEF CallerStep, SplitRange, MakeChannel, CreateForPart, CreateReceiver,
     AllCreated, PushNext, RangeEnds, RangeThrows, PushReturns, CloseChannel, CallerNotifies,
     JoinAll, DestroyCoros, AfterRange
<1>4. ASSUME PushReturns, fe' = "assertFirstError"
      PROVE  FALSE
  <2>1. fe = "push" /\ ~self[Caller][1] /\ firstError = NoError
    BY <1>4 DEF PushReturns, AfterRange
  <2>2. self[Caller] \in {<<TRUE>>, <<FALSE>>}
    BY <1>4, CallerOperations DEF IInv, PushReturns
  <2>3. self[Caller] # <<TRUE>>
    <3>1. ASSUME self[Caller] = <<TRUE>>
          PROVE  self[Caller][1]
      BY <3>1
    <3> QED BY <2>1, <3>1
  <2> QED BY <2>1, <2>2, <2>3, RefusedPush
<1> QED BY <1>1, <1>2, <1>3, <1>4 DEF Next

\* The assertion firstError after a push() that returned false never fails: the
\* coroutines are gone early only for an exception that was kept.
THEOREM RefusalExplained == Spec => []RefusedMeansError
<1>1. Init => RefusedMeansError
  BY DEF Init, RefusedMeansError
<1>2. IInv /\ RefusedMeansError /\ [Next]_vars => RefusedMeansError'
  BY RefusalStep DEF RefusedMeansError, vars
<1> QED BY <1>1, <1>2, Invariance, PTL DEF Spec

-----------------------------------------------------------------------------
(* forEach() does what the comment above it promises.                      *)

\* The end of forEach() as the promise sees it.
LEMMA Outcomes ==
    /\ fe \notin {"returned", "threw", "rangeThrew"} /\ ~Aborted => Outcome = "running"
    /\ fe = "returned" => Outcome = "returned"
    /\ fe = "threw" => Outcome = "threw" /\ Thrown = firstError
    /\ fe \in {"rangeThrew", "dividedByZero", "assertCnt", "assertFirstError", "terminated"} => Outcome = "failed"
    /\ fe # "threw" => Thrown = NoError
BY DEF Outcome, Thrown, Aborted

\* When forEach() has awaited its coroutines, all of them have ended.
LEMMA AllEnded ==
    ASSUME IInv, JoinAll
    PROVE  /\ created = coroCnt /\ fe = "join"
           /\ \A c \in 1..created : work[c] = "done"
           /\ \A c \in Coros : work[c] \in {"none", "done"}
<1>1. created = coroCnt /\ fe = "join"
  BY DEF JoinAll, IInv, PhaseInv
<1>2. \A c \in 1..created : work[c] = "done"
  BY <1>1 DEF JoinAll, Ended
<1>3. \A c \in Coros : c \in 1..created \/ c > created
  BY BoundsAssumption DEF IInv, TypeInv, Coros
<1> QED BY <1>1, <1>2, <1>3 DEF IInv, PhaseInv

\* If none has failed, each element of a random-access range was executed,
LEMMA RandomComplete ==
    ASSUME IInv, JoinAll, firstError = NoError, kind = "random"
    PROVE  1..size \subseteq done
<1>t. TypeInv /\ PhaseInv /\ SplitInv /\ PartsInv
  BY DEF IInv, RandomInv
<1>1. end = size
  BY <1>t, AllEnded, SplitBound
<1>2. \A c \in 1..created : itr[c] = last[c] /\ last[c] \in Nat
  <2>1. \A c \in 1..created : c \in Coros
    BY <1>t, BoundsAssumption DEF TypeInv, Coros
  <2> QED BY <1>t, <2>1, AllEnded DEF PartsInv, TypeInv
<1>3. \A c \in 1..created : (itr[c] + 1)..last[c] = {}
  BY <1>2
<1> QED BY <1>1, <1>3, <1>t DEF PartsInv

\* and so was each element of an input range: the channel lost none of them.
LEMMA InputComplete ==
    ASSUME IInv, JoinAll, firstError = NoError, kind = "input"
    PROVE  1..size \subseteq done
<1>t. TypeInv /\ PhaseInv /\ ChannelInv /\ HandleInv /\ RangeInv /\ ReceivedInv
  BY DEF IInv, InputInv
<1>1. fe = "join" /\ created = coroCnt /\ coroCnt = maxParallelity
  BY <1>t, AllEnded DEF PhaseInv
<1>2. \A r \in Coros \cup {Own} : pc[r] = "left"
  <2>1. \A c \in Coros : c \in 1..maxParallelity \/ c > maxParallelity
    BY <1>t, BoundsAssumption DEF TypeInv, Coros
  <2> QED BY <1>1, <1>t, <2>1, AllEnded DEF HandleInv
<1>3. mReadyData = <<>>
  <2>1. 1 \in 1..maxParallelity /\ 1 \in Coros
    BY <1>1, <1>t, BoundsAssumption DEF PhaseInv, TypeInv, Coros
  <2>2. work[1] = "done"
    BY <1>1, <2>1, AllEnded
  <2> QED BY <1>t, <2>1, <2>2 DEF HandleInv, Drained
<1>4. ASSUME NEW r \in Coros \cup {Own}, NEW x
      PROVE  ~CP!OnItsWay(r, x)
  <2>1. r \in CP!Activities /\ Caller \in CP!Activities
    BY Users
  <2>2. self[r] # <<CP!Some(x)>>
    BY <1>2, <1>t, <2>1 DEF ChannelInv, CP!IInv, CP!CoreInv, CP!RestInv
  <2>3. ASSUME CP!In(CP!Call(r, CP!Some(x)), notify[Caller])
        PROVE  FALSE
    <3>1. PICK c : c = CP!Call(r, CP!Some(x))
      OBVIOUS
    <3>2. CP!In(c, notify[Caller]) /\ c.to = r
      BY <2>3, <3>1 DEF CP!Call
    <3>3. CP!Waits(r)
      BY <1>t, <2>1, <3>2 DEF ChannelInv, CP!IInv, CP!CoreInv, CP!WakeInv
    <3> QED BY <1>2, <3>3 DEF CP!Waits
  <2> QED BY <2>2, <2>3 DEF CP!OnItsWay
<1>5. ASSUME NEW i \in 1..size
      PROVE  i \in done
  <2>1. i \in 1..accepted[Caller]
    BY <1>1, <1>t DEF RangeInv
  <2>2. PICK x : x = CP!Item(Caller, i)
    OBVIOUS
  <2>3. x[2] = i
    BY <2>2 DEF CP!Item
  <2>4. CP!Somewhere(x)
    BY <1>t, <2>1, <2>2 DEF ChannelInv, CP!IInv, CP!KeptInv
  <2>5. ~CP!In(x, mReadyData)
    BY <1>3 DEF CP!In
  <2>6. PICK r \in Coros \cup {Own} : CP!In(x, received[r])
    BY <1>4, <2>4, <2>5 DEF CP!Somewhere, CP!Out
  <2>7. r \in Coros
    BY <1>t, <2>6 DEF CP!In, HandleInv
  <2>8. PICK k \in 1..Len(received[r]) : received[r][k] = x
    BY <2>6 DEF CP!In
  <2> QED BY <1>t, <2>3, <2>7, <2>8, AllEnded DEF ReceivedInv
<1> QED BY <1>5

\* So forEach() returns when everything was executed and nothing has failed,
\* and rethrows what the callable threw.
LEMMA JoinRefines ==
    ASSUME IInv, JoinAll, Outcome = "running"
    PROVE  Abs!Next
<1>t. TypeInv /\ ErrorInv /\ size \in Nat /\ size <= MaxSize /\ MaxSize \in Nat
  BY BoundsAssumption DEF IInv, TypeInv
<1>u. UNCHANGED <<kind, maxParallelity, size, done, errors, firstError>>
  BY DEF JoinAll, args, coroVars
<1>1. CASE firstError = NoError
  <2>1. 1..size \subseteq done
    BY <1>1, <1>t, RandomComplete, InputComplete DEF TypeInv
  <2>2. done = 1..size
    BY <1>t, <2>1 DEF ErrorInv
  <2>3. errors = {}
    BY <1>1, <1>t, AllEnded DEF ErrorInv
  <2>4. fe = "join" /\ fe' = "returned"
    BY <1>1 DEF JoinAll
  <2>5. Outcome' = "returned" /\ Thrown' = Thrown /\ Interrupted = FALSE /\ Interrupted' = FALSE
    BY <2>4 DEF Outcome, Thrown, Aborted, Interrupted
  <2> QED BY <1>u, <2>2, <2>3, <2>5 DEF Abs!Next, Abs!Return, Abs!args
<1>2. CASE firstError # NoError
  <2>1. firstError \in errors /\ firstError \in 1..MaxSize
    BY <1>2, <1>t DEF ErrorInv
  <2>2. fe = "join" /\ fe' = "threw"
    BY <1>2 DEF JoinAll
  <2>3. Outcome' = "threw" /\ Thrown' = firstError /\ Interrupted = FALSE /\ Interrupted' = FALSE
    BY <1>u, <2>2 DEF Outcome, Thrown, Aborted, Interrupted
  <2>4. Abs!Throw(firstError)
    BY <1>u, <2>1, <2>3 DEF Abs!Throw, Abs!args
  <2> QED BY <2>1, <2>4 DEF Abs!Next
<1> QED BY <1>1, <1>2

\* The size of a range that was split.
SizeInv == kind = "random" => size >= MinRandom

\* forEach() gives up at its start only for maxParallelity 0.
LEMMA GivesUp ==
    ASSUME IInv, SizeInv, MinRandom > 0, SplitRange \/ MakeChannel,
           fe' \in {"dividedByZero", "assertCnt"}
    PROVE  maxParallelity = 0
<1>1. size \in Nat /\ maxParallelity \in Nat
  BY BoundsAssumption DEF IInv, TypeInv
<1>2. CASE SplitRange
  <2>1. size > 0
    BY <1>1, <1>2, MinRandomAssumption, BoundsAssumption DEF SizeInv, SplitRange
  <2> QED BY <1>1, <1>2, <2>1 DEF SplitRange
<1>3. CASE MakeChannel
  BY <1>3 DEF MakeChannel
<1> QED BY <1>2, <1>3

\* Every other step of forEach() itself is none of the promise, or fails after
\* the range has thrown or for maxParallelity 0.
LEMMA CallerRefines ==
    ASSUME IInv, SizeInv, MinRandom > 0, CallerStep, ~JoinAll, ~Aborted
    PROVE  Abs!Next \/ UNCHANGED Abs!vars
<1>1. UNCHANGED <<maxParallelity, size, done, errors, firstError>>
  BY CallerCases, Creation DEF args, coroVars
<1>2. ASSUME Outcome' = Outcome, Thrown' = Thrown, Interrupted' = Interrupted
      PROVE  UNCHANGED Abs!vars
  BY <1>1, <1>2 DEF Abs!vars, Abs!args
<1>3. ASSUME fe \notin {"returned", "threw", "rangeThrew"}, fe' \notin {"returned", "threw", "rangeThrew"},
             fe' \notin {"dividedByZero", "assertCnt", "assertFirstError", "terminated"},
             Interrupted' = Interrupted
      PROVE  UNCHANGED Abs!vars
  <2>1. Outcome = "running" /\ Outcome' = "running" /\ Thrown = NoError /\ Thrown' = NoError
    BY <1>3 DEF Outcome, Thrown, Aborted
  <2> QED BY <1>2, <1>3, <2>1
<1>4. CASE CreateForPart \/ CreateReceiver \/ CallerNotifies
  <2>1. fe' = fe
    BY <1>4 DEF CreateForPart, CreateReceiver, CallerNotifies
  <2> QED BY <1>1, <1>2, <2>1 DEF Outcome, Thrown, Aborted, Interrupted
<1>5. CASE AllCreated \/ PushNext \/ RangeEnds \/ CloseChannel
  <2>1. /\ fe \in {"create", "range", "close", "unwind"}
        /\ fe' \in {"join", "range", "push", "close", "destroy"}
        /\ fe = "unwind" <=> fe' = "destroy"
    BY <1>5 DEF AllCreated, PushNext, RangeEnds, CloseChannel, AfterRange
  <2> QED BY <1>3, <2>1 DEF Interrupted
<1>6. CASE PushReturns
  <2>1. fe' # "assertFirstError"
    BY <1>6, RefusalStep DEF Next
  <2>2. fe = "push" /\ fe' \in {"range", "close"}
    BY <1>6, <2>1 DEF PushReturns, AfterRange
  <2> QED BY <1>3, <2>2 DEF Interrupted
<1>7. CASE RangeThrows
  <2>1. fe = "range" /\ fe' = "unwind"
    BY <1>7 DEF RangeThrows
  <2>2. /\ Outcome = "running" /\ Outcome' = Outcome /\ Thrown' = Thrown
        /\ ~Interrupted /\ Interrupted' = TRUE
    BY <2>1 DEF Outcome, Thrown, Aborted, Interrupted
  <2>3. Abs!RangeThrows
    BY <1>1, <2>2 DEF Abs!RangeThrows, Abs!args
  <2> QED BY <2>3 DEF Abs!Next
<1>8. CASE DestroyCoros
  <2>1. fe = "destroy" /\ fe' \in {"rangeThrew", "terminated"}
    BY <1>8 DEF DestroyCoros
  <2>2. /\ Outcome = "running" /\ Outcome' = "failed" /\ Thrown' = Thrown
        /\ Interrupted /\ Interrupted' = Interrupted
    BY <2>1 DEF Outcome, Thrown, Aborted, Interrupted
  <2>3. Abs!Fail
    BY <1>1, <2>2 DEF Abs!Fail, Abs!args
  <2> QED BY <2>3 DEF Abs!Next
<1>9. CASE SplitRange \/ MakeChannel
  <2>1. fe = "start" /\ fe' \in {"create", "dividedByZero", "assertCnt"}
    BY <1>9 DEF SplitRange, MakeChannel
  <2>2. CASE fe' = "create"
    BY <1>3, <2>1, <2>2 DEF Interrupted
  <2>3. CASE fe' \in {"dividedByZero", "assertCnt"}
    <3>1. maxParallelity = 0
      BY <1>9, <2>3, GivesUp
    <3>2. /\ Outcome = "running" /\ Outcome' = "failed" /\ Thrown' = Thrown
          /\ Interrupted' = Interrupted
      BY <2>1, <2>3 DEF Outcome, Thrown, Aborted, Interrupted
    <3>3. Abs!Fail
      BY <1>1, <3>1, <3>2 DEF Abs!Fail, Abs!args
    <3> QED BY <3>3 DEF Abs!Next
  <2> QED BY <2>1, <2>2, <2>3
<1> QED BY <1>4, <1>5, <1>6, <1>7, <1>8, <1>9 DEF CallerStep

\* A coroutine executes the callable with an element that it was not executed
\* with yet, before forEach() ends; its other steps are none of the promise.
LEMMA CoroRefines ==
    ASSUME IInv, NEW c \in Coros, CoroStep(c), ~Aborted
    PROVE  Abs!Next \/ UNCHANGED Abs!vars
<1>t. TypeInv /\ PhaseInv /\ size \in Nat /\ size <= MaxSize /\ MaxSize \in Nat
  BY BoundsAssumption DEF IInv, TypeInv
<1>1. UNCHANGED <<maxParallelity, size, fe>>
  BY <1>t, CoroCases DEF args
<1>i. Interrupted' = Interrupted
  BY <1>1 DEF Interrupted
<1>2. Outcome' = Outcome /\ (firstError' = firstError \/ fe # "threw" => Thrown' = Thrown)
  BY <1>1 DEF Outcome, Thrown, Aborted
<1>3. ASSUME work[c] \notin {"none", "done"}
      PROVE  Outcome = "running" /\ fe # "threw"
  <2>1. c \in 1..created
    BY <1>3, <1>t DEF PhaseInv, TypeInv, Coros
  <2>2. fe \notin {"returned", "threw", "rangeThrew"}
    BY <1>3, <1>t, <2>1 DEF PhaseInv
  <2> QED BY <2>2, Outcomes
<1>4. CASE FuncReturns(c) \/ FuncThrows(c)
  <2>1. work[c] = "func" /\ done' = done \cup {Element(c)} /\ firstError' = firstError
    BY <1>4 DEF FuncReturns, FuncThrows
  <2>2. PICK e : e = Element(c)
    OBVIOUS
  <2>3. e \in 1..size /\ e \notin done /\ e \in 1..MaxSize
    BY <1>t, <2>1, <2>2, ElementFacts
  <2>4. Outcome = "running" /\ Thrown' = Thrown
    BY <1>2, <1>3, <2>1
  <2>5. errors' = errors \/ errors' = errors \cup {e}
    BY <1>4, <2>2 DEF FuncReturns, FuncThrows
  <2>6. Abs!Execute(e, FALSE) \/ Abs!Execute(e, TRUE)
    BY <1>1, <1>2, <1>i, <2>1, <2>2, <2>3, <2>4, <2>5 DEF Abs!Execute, Abs!args
  <2> QED BY <2>3, <2>6 DEF Abs!Next
<1>5. CASE HandleError(c)
  <2>1. work[c] = "catch" /\ UNCHANGED <<done, errors>>
    BY <1>5 DEF HandleError
  <2> QED BY <1>1, <1>2, <1>3, <1>i, <2>1 DEF Abs!vars, Abs!args
<1>6. CASE Pop(c) \/ PopReturns(c) \/ CoroEnds(c) \/ CoroNotifies(c)
  <2>1. UNCHANGED <<done, errors, firstError>>
    BY <1>6 DEF Pop, PopReturns, CoroEnds, CoroNotifies, coroVars
  <2> QED BY <1>1, <1>2, <1>i, <2>1 DEF Abs!vars, Abs!args
<1> QED BY <1>4, <1>5, <1>6 DEF CoroStep

\* forEach() implements the comment above it, except for an empty random-access
\* range: the callable is executed once with each element, an exception of it is
\* rethrown, nothing runs once forEach() has returned, and it ends in another
\* way only for maxParallelity 0 or when the range throws.
THEOREM Refinement ==
    ASSUME MinRandom > 0
    PROVE  Spec => ImplementsForEach
<1>1. Init => Abs!Init /\ SizeInv
  <2> SUFFICES ASSUME Init
               PROVE  Abs!Init /\ SizeInv
    OBVIOUS
  <2>1. /\ size \in Nat /\ size <= MaxSize /\ MaxSize \in Nat /\ maxParallelity \in Nat
        /\ done = {} /\ errors = {} /\ fe = "start"
    BY BoundsAssumption DEF Init
  <2>2. Outcome = "running" /\ Thrown = NoError /\ Interrupted = FALSE
    BY <2>1, Outcomes DEF Aborted, Interrupted
  <2> QED BY <2>1, <2>2 DEF Abs!Init, Init, SizeInv
<1>2. IInv /\ SizeInv /\ [Next]_vars => SizeInv'
  BY ArgsKept DEF SizeInv, vars, args
<1>3. IInv /\ SizeInv /\ [Next]_vars => [Abs!Next]_Abs!vars
  <2> SUFFICES ASSUME IInv, SizeInv, [Next]_vars
               PROVE  Abs!Next \/ UNCHANGED Abs!vars
    OBVIOUS
  <2>1. CASE JoinAll /\ ~Aborted
    <3>1. Outcome = "running"
      BY <2>1, Outcomes DEF JoinAll
    <3> QED BY <2>1, <3>1, JoinRefines
  <2>2. CASE Next /\ ~JoinAll
    BY <2>2, CallerRefines, CoroRefines DEF Next
  <2>3. CASE UNCHANGED vars
    <3>1. UNCHANGED <<maxParallelity, size, done, errors, fe, firstError>>
      BY <2>3 DEF vars, args, coroVars
    <3>2. Outcome' = Outcome /\ Thrown' = Thrown /\ Interrupted' = Interrupted
      BY <3>1 DEF Outcome, Thrown, Aborted, Interrupted
    <3> QED BY <3>1, <3>2 DEF Abs!vars, Abs!args
  <2>4. Next => ~Aborted
    BY DEF Next
  <2> QED BY <2>1, <2>2, <2>3, <2>4
<1> QED BY <1>1, <1>2, <1>3, Invariance, PTL DEF Spec, ImplementsForEach, Abs!Spec
=============================================================================
